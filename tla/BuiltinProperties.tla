------------------------- MODULE BuiltinProperties -------------------------
(***************************************************************************)
(* What the arithmetic of the runtime, the discovery of i3's socket and    *)
(* the loader promise for every input.  A behaviour is one call with one   *)
(* input.                                                                  *)
(***************************************************************************)
EXTENDS Numbers, Discovery, Loader

(* No value, and a value of a type that is never right. *)
Absent == [type |-> "absent"]
Other == [type |-> "other", name |-> "none"]

VARIABLE input   \* the input, or what else the behaviour is about, by its kind

(* A call may execute as many steps as are configured, or all that the counter
   of its thread has left, but never fewer because the sum overflows.  A time
   limit is the configured one, and none means none, up to the number of
   milliseconds that a Duration can hold; beyond it an overflow makes the limit
   shorter or removes it, and never longer (runtime.go:129-138,
   main.go:116-129). *)
LimitsExact ==
  input.kind = "number" =>
    LET x == input.number IN
    /\ x \in Unsigned => \A limit \in Unsigned \ {0} :
         StepMax(x, limit) - x = IF x + limit <= MaxUnsigned THEN limit ELSE MaxUnsigned - x
    /\ x \in Signed =>
         /\ x * Unit \in Signed => EnvDuration(x) = IF x > 0 THEN x * Unit ELSE 0
         /\ x > 0 => EnvDuration(x) <= x * Unit

(* A watcher polls at the interval its script asks for, or at the default one
   for zero and negative numbers.  An interval that a Duration cannot hold
   becomes another that is shorter but still positive, with which
   time.NewTicker does not panic (pid.go:67-76, 469-478). *)
IntervalExact ==
  input.kind = "number" /\ input.number \in Signed =>
    LET x == input.number
        interval == Ticker(WatchInterval(x))
    IN  /\ x <= 0 => interval = DefaultMs * Unit
        /\ x > 0 /\ x * Unit \in Signed => interval = x * Unit
        /\ x > 0 /\ x * Unit \notin Signed => interval > 0 /\ interval < x * Unit

(* An integral JSON number keeps its value: as an int if it fits, as a float
   otherwise.  The one exception is the smallest float above the largest int,
   which passes for one that fits and becomes another number (jsonconv.go:55-62). *)
JsonNumbersKept ==
  input.kind = "number" /\ input.number \in Floats \ {Half} =>
    JsonNumber(input.number)
      = {[type |-> IF input.number \in Signed THEN "int" ELSE "float", value |-> input.number]}

(* The daemon finds a socket that answers whenever one of the candidates does,
   whatever dead ones are left behind.  Of those that answer it takes the first
   by name: $I3SOCK is not preferred (i3client.go:288-369). *)
SocketFound ==
  input.kind = "sockets" =>
    LET path == Discover(Candidates(input.env, input.found, input.told), input.live)
        answering == (({input.env, input.told} \cup input.found) \ {0}) \cap input.live
    IN  /\ path = 0 <=> answering = {}
        /\ path # 0 => path \in answering /\ \A other \in answering : path <= other

(* A script is loaded with all the handlers it names or not at all: an event gets
   the last of the dict's entries for it under any of its names, else the on_
   function.  init() runs only in a script with nothing else to reject, so that
   a script rejected for its globals has not begun its work (loader.go:93-196). *)
LoadExact ==
  input.kind = "script" =>
    LET script == LoadOne(input)
        entries == IF input.handlers.type = "dict" THEN input.handlers.entries ELSE <<>>
        For(event) == {i \in DOMAIN entries :
                         entries[i].key.name \in {event} \cup
                           (IF event = "barconfig_update" THEN {"bar_config_update"} ELSE {})}
        wellFormed ==
          /\ input.priority.type \notin {"huge", "other"} /\ input.handlers.type # "other"
          /\ \A event \in DOMAIN input.on : input.on[event] # Other
          /\ \A i \in DOMAIN entries :
               /\ entries[i].key # Other /\ entries[i].value # Other
               /\ \E event \in KnownEvents : i \in For(event)
    IN  /\ script.initialised <=> wellFormed /\ input.init \notin {Absent, Other}
        /\ script.loaded <=> wellFormed /\ input.init # Other
                               /\ (script.initialised => input.init.succeeds)
        /\ script.loaded => \A event \in KnownEvents :
             IF For(event) # {}
             THEN script.handlers[event] = entries[CHOOSE i \in For(event) :
                                                     \A j \in For(event) : j <= i].value.name
             ELSE IF event \in DOMAIN input.on
                  THEN script.handlers[event] = input.on[event].name
                  ELSE event \notin DOMAIN script.handlers
=============================================================================
