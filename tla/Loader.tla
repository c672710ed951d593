------------------------------- MODULE Loader -------------------------------
(***************************************************************************)
(* What loadOne makes of the globals of a script whose top level has run.  *)
(* A value is a record of its type and what distinguishes it, "absent" if  *)
(* there is none.  globals.on maps the event types with an on_ global to   *)
(* its value; globals.handlers is a dict with its entries in their order.  *)
(* The name of an entry's key is its trimmed text in lower case, so that   *)
(* several keys of a dict can have the same one.                           *)
(***************************************************************************)
EXTENDS Integers, Sequences

KnownEvents == {"workspace", "output", "mode", "window", "barconfig_update", "binding"}

(* eventNameToType *)
EventNameToType ==
  [name \in KnownEvents \cup {"bar_config_update"} |->
     IF name = "bar_config_update" THEN "barconfig_update" ELSE name]

Function(value) == value.type = "function"

(* An int that does not fit the machine's is of type "huge". *)
PriorityOK(globals) == globals.priority.type \in {"absent", "none", "int"}
PriorityOf(globals) == IF globals.priority.type = "int" THEN globals.priority.value ELSE 0

(* The handlers so far, and whether the script is rejected. *)
Named(globals) ==
  [ok |-> \A event \in DOMAIN globals.on : Function(globals.on[event]),
   of |-> [event \in DOMAIN globals.on |-> globals.on[event].name]]

Enter(handlers, entry) ==
  IF /\ entry.key.type = "string" /\ Function(entry.value)
     /\ entry.key.name \in DOMAIN EventNameToType
  THEN LET event == EventNameToType[entry.key.name] IN
       [handlers EXCEPT !.of = [e \in DOMAIN @ \cup {event} |->
                                  IF e = event THEN entry.value.name ELSE @[e]]]
  ELSE [handlers EXCEPT !.ok = FALSE]

(* What the entries of the dict make of the handlers, one after the other. *)
Entered(named, entries) ==
  LET after[n \in 0..Len(entries)] ==
        IF n = 0 THEN named ELSE Enter(after[n - 1], entries[n])
  IN  after[Len(entries)]

(* Mutant: an on_ function is preferred to an entry of the dict. *)
NamedFirst(globals) ==
  LET named == Named(globals)
      all == Entered(named, globals.handlers.entries)
  IN  IF globals.handlers.type # "dict"
      THEN [named EXCEPT !.ok = @ /\ globals.handlers.type = "absent"]
      ELSE [all EXCEPT !.of = [e \in DOMAIN @ |-> IF e \in DOMAIN named.of THEN named.of[e] ELSE @[e]]]

(* The entries of the dict replace the on_ functions, and each other. *)
Handlers(globals) ==
  IF globals.handlers.type = "dict"
  THEN Entered(Named(globals), globals.handlers.entries)
  ELSE [Named(globals) EXCEPT !.ok = @ /\ globals.handlers.type = "absent"]

(* init() is called last; it may do anything, and fail. *)
LoadOne(globals) ==
  LET handlers == Handlers(globals)
      valid == PriorityOK(globals) /\ handlers.ok
  IN  [loaded |-> valid /\ (globals.init.type = "absent" \/ (Function(globals.init) /\ globals.init.succeeds)),
       initialised |-> valid /\ Function(globals.init),
       priority |-> PriorityOf(globals), handlers |-> handlers.of]
=============================================================================
