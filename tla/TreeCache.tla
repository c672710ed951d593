------------------------------ MODULE TreeCache ------------------------------
(***************************************************************************)
(* The cache of i3's layout tree in the script runtime.  It is reset at    *)
(* the beginning and at the end of each dispatch by the main goroutine,    *)
(* without a mutex.  The main goroutine uses it without a mutex to enrich  *)
(* a window event and in the top level of a script it loads; handlers,     *)
(* init() and the callbacks of process watchers use it under the call      *)
(* mutex, the callbacks at any moment.  Every access takes several steps.  *)
(*                                                                         *)
(* A tree is the number of its version in i3.  It is cached in three       *)
(* forms, each made from the one before: the raw reply, the decoded JSON   *)
(* and the Starlark value.                                                 *)
(***************************************************************************)
EXTENDS Naturals

CONSTANTS
  Main,          \* the main goroutine
  Watchers,      \* goroutines that call back
  Nobody,        \* no goroutine
  Nil,           \* no cache
  MaxVersion,    \* bound: versions of the tree in i3
  MaxHandlers    \* bound: handlers of an event

ASSUME TreeCacheAssumption ==
  /\ Main \notin Watchers /\ Nobody \notin Watchers \cup {Main}
  /\ Nil \notin [1..3 -> Nat]
  /\ MaxVersion \in Nat \ {0} /\ MaxHandlers \in Nat

VARIABLES
  version,    \* the tree in i3
  cache,      \* Runtime.eventTree: Nil, or per form a tree or 0
  callMu,     \* holder of Runtime.callMu, or Nobody
  op,         \* per goroutine: its access to the tree, see Op
  phase,      \* main: "select", "load", "enrich" or "handlers"
  handlers,   \* dispatch: handlers still to call
  crashed,    \* goroutine that dereferenced nil, which ends the process
  begun,      \* history: the tree in i3 when the dispatch began
  seen,       \* history: trees main and the handlers got in this dispatch
  shared,     \* history: a callback ran in this dispatch before its handlers
  floor       \* history: the oldest tree at hand at the last reset

dispatchVars == <<phase, handlers, begun, seen, shared>>
vars == <<version, cache, callMu, op, dispatchVars, crashed, floor>>

Actors == Watchers \cup {Main}
Trees == 1..MaxVersion

(* The forms of the cache *)
Raw == 1
Decoded == 2
Starlark == 3
Forms == {Raw, Decoded, Starlark}

(* An access makes the forms up to "want"; "form" is the one under way and
   "tree" what is at hand for it. *)
Op == [at : {"none", "checked", "fetch", "ensure", "write"}, want : Forms, form : Forms,
       tree : Trees \cup {0}]

NoOp == [at |-> "none", want |-> Raw, form |-> Raw, tree |-> 0]

(* a runs a handler, init() or a callback, or it is main in enrichment or in the
   top level of a script. *)
MayUseTree(a) == callMu = a \/ (a = Main /\ phase \in {"enrich", "load"})

(* Every variable holds a value of its type; the tree is used under the mutex,
   or by main without it (runtime.go:123-125, daemon.go:451-460). *)
CacheTypeOK ==
  /\ version \in Trees /\ cache \in [Forms -> Trees \cup {0}] \cup {Nil}
  /\ callMu \in Actors \cup {Nobody} /\ op \in [Actors -> Op]
  /\ phase \in {"select", "load", "enrich", "handlers"} /\ handlers \in 0..MaxHandlers
  /\ crashed \in Actors \cup {Nobody}
  /\ begun \in Trees /\ seen \subseteq Trees /\ shared \in BOOLEAN /\ floor \in Trees
  /\ callMu = Main => phase = "load" \/ (phase = "handlers" /\ handlers > 0)
  /\ \A a \in Actors : op[a].at # "none" => MayUseTree(a)

Init ==
  /\ version = 1 /\ cache = Nil
  /\ callMu = Nobody /\ op = [a \in Actors |-> NoOp]
  /\ phase = "select" /\ handlers = 0 /\ crashed = Nobody
  /\ begun = 1 /\ seen = {} /\ shared = FALSE /\ floor = 1

-----------------------------------------------------------------------------
(* i3 *)

Change ==
  /\ version < MaxVersion /\ version' = version + 1
  /\ UNCHANGED <<cache, callMu, op, dispatchVars, crashed, floor>>

-----------------------------------------------------------------------------
(* getTreeRaw, getTreeAny, getTreeStarlark *)

Cached(form) == cache # Nil /\ cache[form] # 0

(* The tree is returned in the form a wanted.  Enrichment is one access. *)
Got(a, tree) ==
  /\ op' = [op EXCEPT ![a] = NoOp]
  /\ seen' = IF a = Main /\ phase # "load" THEN seen \cup {tree} ELSE seen
  /\ phase' = IF a = Main /\ phase = "enrich" THEN "handlers" ELSE phase

Idle(a) == op[a].at \in {"none", "checked"}

(* rt.eventTree != nil *)
Check(a) ==
  /\ MayUseTree(a) /\ op[a].at = "none" /\ cache # Nil
  /\ op' = [op EXCEPT ![a] = [op[a] EXCEPT !.at = "checked"]]
  /\ UNCHANGED <<version, cache, callMu, dispatchVars, crashed, floor>>

(* && rt.eventTree.raw != nil: the pointer may be read again, and be nil now. *)
CheckCrashes(a) ==
  /\ op[a].at = "checked" /\ cache = Nil
  /\ crashed' = a
  /\ UNCHANGED <<version, cache, callMu, op, dispatchVars, floor>>

(* The result of the checks, from the wanted form down: the access starts from
   the best form there is.  (An access that finds less on the way, or that
   has kept the pointer, is one that looks it up later or earlier.) *)
Lookup(a, want) ==
  /\ MayUseTree(a) /\ Idle(a)
  /\ a = Main /\ phase = "enrich" => want = Decoded
  /\ \/ Cached(want) /\ Got(a, cache[want])
     \/ \E form \in 1..want-1 :
          /\ Cached(form) /\ \A better \in form+1..want : ~Cached(better)
          /\ op' = [op EXCEPT ![a] = [at |-> "ensure", want |-> want, form |-> form + 1,
                                      tree |-> cache[form]]]
          /\ UNCHANGED <<seen, phase>>
     \/ /\ \A form \in 1..want : ~Cached(form)
        /\ op' = [op EXCEPT ![a] = [at |-> "fetch", want |-> want, form |-> Raw, tree |-> 0]]
        /\ UNCHANGED <<seen, phase>>
  /\ UNCHANGED <<version, cache, callMu, handlers, begun, shared, crashed, floor>>

(* I3Client.Raw: GET_TREE is answered. *)
Fetch(a) ==
  /\ op[a].at = "fetch"
  /\ op' = [op EXCEPT ![a] = [op[a] EXCEPT !.at = "ensure", !.tree = version]]
  /\ UNCHANGED <<version, cache, callMu, dispatchVars, crashed, floor>>

(* GET_TREE fails, or the form that was there is gone when it is returned: an
   event is left without its fields; a top level, handler or callback ends
   with the error. *)
AccessFails(a) ==
  /\ op[a].at = "fetch" \/ (op[a].at = "checked" /\ a # Main)
  /\ op' = [op EXCEPT ![a] = NoOp]
  /\ callMu' = IF callMu = a THEN Nobody ELSE callMu
  /\ handlers' = IF callMu = Main /\ a = Main /\ phase = "handlers" THEN handlers - 1 ELSE handlers
  /\ phase' = IF a = Main /\ phase = "enrich" THEN "handlers" ELSE phase
  /\ UNCHANGED <<version, cache, begun, seen, shared, crashed, floor>>

(* Mutant: each form gets a new cache, without the forms before it. *)
EnsureFresh(a) ==
  /\ op[a].at = "ensure"
  /\ cache' = [form \in Forms |-> 0]
  /\ op' = [op EXCEPT ![a] = [op[a] EXCEPT !.at = "write"]]
  /\ UNCHANGED <<version, callMu, dispatchVars, crashed, floor>>

(* if rt.eventTree == nil { rt.eventTree = &treeCache{} } *)
Ensure(a) ==
  /\ op[a].at = "ensure"
  /\ cache' = IF cache = Nil THEN [form \in Forms |-> 0] ELSE cache
  /\ op' = [op EXCEPT ![a] = [op[a] EXCEPT !.at = "write"]]
  /\ UNCHANGED <<version, callMu, dispatchVars, crashed, floor>>

(* rt.eventTree.raw = raw, and the same for the other forms: the pointer is
   read again. *)
Write(a) ==
  /\ op[a].at = "write" /\ cache # Nil
  /\ cache' = [cache EXCEPT ![op[a].form] = op[a].tree]
  /\ IF op[a].form = op[a].want
     THEN Got(a, op[a].tree)
     ELSE /\ op' = [op EXCEPT ![a] = [op[a] EXCEPT !.at = "ensure", !.form = op[a].form + 1]]
          /\ UNCHANGED <<seen, phase>>
  /\ UNCHANGED <<version, callMu, handlers, begun, shared, crashed, floor>>

WriteCrashes(a) ==
  /\ op[a].at = "write" /\ cache = Nil
  /\ crashed' = a
  /\ UNCHANGED <<version, cache, callMu, op, dispatchVars, floor>>

Access(a) ==
  \/ \E want \in Forms : Lookup(a, want)
  \/ Check(a) \/ CheckCrashes(a)
  \/ Fetch(a) \/ AccessFails(a) \/ Ensure(a) \/ Write(a) \/ WriteCrashes(a)

-----------------------------------------------------------------------------
(* Dispatch *)

AtHand == {op[w].tree : w \in Watchers} \ {0}

(* Mutant: the cache of the last dispatch is kept. *)
ResetNothing == UNCHANGED cache /\ floor' = version

(* BeginEvent and EndEvent *)
Reset ==
  /\ cache' = Nil
  /\ floor' \in AtHand \cup {version}
  /\ \A tree \in AtHand \cup {version} : floor' <= tree

(* An event with n handlers: BeginEvent, then enrichment if it is an event of
   a window with an id.  Without handlers dispatch returns at once. *)
BeginEvent(n, window) ==
  /\ phase = "select" /\ Reset
  /\ phase' = IF n = 0 THEN "select" ELSE IF window THEN "enrich" ELSE "handlers"
  /\ handlers' = n /\ begun' = version /\ seen' = {}
  /\ shared' = (callMu \in Watchers)
  /\ UNCHANGED <<version, callMu, op, crashed>>

(* Mutant: the call mutex is not locked. *)
CallHandlerUnlocked ==
  /\ phase = "handlers" /\ handlers > 0 /\ callMu # Main
  /\ callMu' = Main
  /\ UNCHANGED <<version, cache, op, dispatchVars, crashed, floor>>

CallHandler ==
  /\ phase = "handlers" /\ handlers > 0 /\ callMu = Nobody
  /\ callMu' = Main
  /\ UNCHANGED <<version, cache, op, dispatchVars, crashed, floor>>

HandlerReturns ==
  /\ phase = "handlers" /\ callMu = Main /\ op[Main].at = "none"
  /\ callMu' = Nobody /\ handlers' = handlers - 1
  /\ UNCHANGED <<version, cache, op, phase, begun, seen, shared, crashed, floor>>

(* The deferred EndEvent *)
EndEvent ==
  /\ phase = "handlers" /\ handlers = 0 /\ Reset
  /\ phase' = "select" /\ seen' = {}
  /\ UNCHANGED <<version, callMu, op, handlers, begun, shared, crashed>>

-----------------------------------------------------------------------------
(* Loading *)

(* A script's top level runs, and then its init() if it has one. *)
BeginLoad ==
  /\ phase = "select" /\ phase' = "load"
  /\ UNCHANGED <<version, cache, callMu, op, handlers, begun, seen, shared, crashed, floor>>

CallInit ==
  /\ phase = "load" /\ callMu = Nobody /\ op[Main].at = "none"
  /\ callMu' = Main
  /\ UNCHANGED <<version, cache, op, dispatchVars, crashed, floor>>

EndLoad ==
  /\ phase = "load" /\ op[Main].at = "none" /\ phase' = "select"
  /\ callMu' = IF callMu = Main THEN Nobody ELSE callMu
  /\ UNCHANGED <<version, cache, op, handlers, begun, seen, shared, crashed, floor>>

-----------------------------------------------------------------------------
(* Callbacks *)

CallbackBegins(w) ==
  /\ callMu = Nobody /\ callMu' = w
  /\ shared' = (shared \/ phase = "enrich")
  /\ UNCHANGED <<version, cache, op, phase, handlers, begun, seen, crashed, floor>>

(* Mutant: a callback clears the cache behind itself, as a dispatch does. *)
CallbackClears(w) ==
  /\ callMu = w /\ op[w].at = "none" /\ callMu' = Nobody
  /\ cache' = Nil
  /\ UNCHANGED <<version, op, dispatchVars, crashed, floor>>

CallbackReturns(w) ==
  /\ callMu = w /\ op[w].at = "none" /\ callMu' = Nobody
  /\ UNCHANGED <<version, cache, op, dispatchVars, crashed, floor>>

Step ==
  \/ Change
  \/ \E a \in Actors : Access(a)
  \/ \E n \in 0..MaxHandlers, window \in BOOLEAN : BeginEvent(n, window)
  \/ CallHandler \/ HandlerReturns \/ EndEvent
  \/ BeginLoad \/ CallInit \/ EndLoad
  \/ \E w \in Watchers : CallbackBegins(w) \/ CallbackReturns(w)

Dead == crashed # Nobody /\ UNCHANGED vars

Next == (crashed = Nobody /\ Step) \/ Dead

Spec == Init /\ [][Next]_vars

-----------------------------------------------------------------------------
(* Properties *)

(* A reset leaves nothing older than the tree i3 has then, but for what
   callbacks have at hand and may still store: that is the oldest that
   enrichment, handlers and callbacks get before the next reset
   (runtime.go:68-72, 166-226). *)
StaleOnlyFromHand ==
  /\ \A form \in Forms : Cached(form) => cache[form] >= floor
  /\ \A a \in Actors : op[a].tree # 0 => op[a].tree >= floor
  /\ \A tree \in seen : tree >= floor

(* All accesses of a dispatch, by enrichment and by any handler, give the same
   tree, in each of its forms, although i3's changes and callbacks run between
   the handlers; unless a callback was running before the first handler, while
   nothing excludes it (daemon.go:431, "so scripts can reuse work within this
   event"). *)
OneTreePerDispatch == ~shared => \A tree, other \in seen : tree = other

(* The main goroutine, the only one that resets the cache, never finds it gone
   between the nil check and the store (runtime.go:180-183). *)
MainNeverCrashes == crashed # Main

(* runtime.go:68, "BeginEvent resets per-dispatch caches (e.g. GET_TREE) for a
   single i3 event dispatch": main and its handlers get no tree from before.
   A callback that fetched one before stores it after. *)
TreeFromThisDispatch == \A tree \in seen : tree >= begun
=============================================================================
