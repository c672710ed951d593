------------------------------ MODULE PidWatch ------------------------------
(***************************************************************************)
(* Scripts, their process watchers and the call mutex.  The main goroutine *)
(* loads scripts and dispatches events; pid.watch_new starts a goroutine   *)
(* that waits for new processes, by netlink or by polling /proc, and calls *)
(* the script back for each.  Every handler, init() and callback runs      *)
(* under the mutex of Runtime.call; the top level of a script does not     *)
(* (loader.go:87).  Script code may start watchers and call the stop       *)
(* functions of its own watchers, which cancel the watcher and wait until  *)
(* its goroutine has ended.                                                *)
(*                                                                         *)
(* One script file stands for the directory.  A load is a number; what a   *)
(* load creates (handlers, watchers, stop functions) is known by it.  The  *)
(* end of the process, which does not wait for watchers, is left out.      *)
(***************************************************************************)
EXTENDS Naturals

CONSTANTS
  Main,       \* the main goroutine
  Watchers,   \* bound: the watchers that can be started
  Nobody,     \* no goroutine
  MaxBurst,   \* bound: new processes a watcher learns of at once
  MaxLoads    \* bound: loads of the script

ASSUME PidWatchAssumption ==
  /\ Main \notin Watchers /\ Nobody \notin Watchers \cup {Main}
  /\ MaxBurst \in Nat /\ MaxLoads \in Nat

VARIABLES
  cancelled,   \* the daemon's context is cancelled
  callMu,      \* holder of Runtime.callMu, or Nobody
  pc,          \* what each goroutine does, see PidTypeOK
  stopping,    \* the watcher whose stop function a goroutine is in, or Nobody
  cancels,     \* watchers whose own context is cancelled
  kind,        \* of each watcher: "netlink" or "poll"
  burst,       \* callbacks a watcher has still to make for its latest message
  load,        \* the load whose code started a watcher, 0 for none
  loads,       \* number of the latest load
  active,      \* the load in the registry, 0 for none
  skipped,     \* loads that failed
  stopped      \* watchers whose stop function has returned

watchVars == <<cancels, kind, burst, load>>
loadVars == <<loads, active, skipped>>
vars == <<cancelled, callMu, pc, stopping, watchVars, loadVars, stopped>>

Actors == Watchers \cup {Main}

MainStates == {"idle", "toplevel", "initLock", "init", "lock", "call"}
WatcherStates == {"free", "open", "check", "wait", "lock", "call", "done"}

WaitsForMutex(a) == pc[a] \in {"initLock", "lock"}
InCall(a) == pc[a] \in {"init", "call"}

(* Every variable holds a value of its type, and script code that must not
   overlap (handlers, init(), callbacks) runs only in the holder of the mutex
   (runtime.go:124-125), also while it waits in a stop function. *)
PidTypeOK ==
  /\ cancelled \in BOOLEAN /\ callMu \in Actors \cup {Nobody}
  /\ pc \in [Actors -> MainStates \cup WatcherStates]
  /\ pc[Main] \in MainStates /\ \A w \in Watchers : pc[w] \in WatcherStates
  /\ \A a \in Actors : InCall(a) <=> callMu = a
  /\ stopping \in [Actors -> Watchers \cup {Nobody}]
  /\ cancels \subseteq Watchers /\ stopped \subseteq cancels
  /\ kind \in [Watchers -> {"netlink", "poll"}]
  /\ burst \in [Watchers -> 0..MaxBurst]
  /\ loads \in 0..MaxLoads /\ active \in 0..loads /\ skipped \subseteq 1..MaxLoads
  /\ load \in [Watchers -> 0..MaxLoads]

Init ==
  /\ cancelled = FALSE /\ callMu = Nobody
  /\ pc = [a \in Actors |-> IF a = Main THEN "idle" ELSE "free"]
  /\ stopping = [a \in Actors |-> Nobody]
  /\ cancels = {} /\ kind = [w \in Watchers |-> "netlink"]
  /\ burst = [w \in Watchers |-> 0] /\ load = [w \in Watchers |-> 0]
  /\ loads = 0 /\ active = 0 /\ skipped = {} /\ stopped = {}

Goto(a, state) == pc' = [pc EXCEPT ![a] = state]

(* SIGINT or SIGTERM; the contexts of the watchers descend from this one. *)
Cancel ==
  /\ ~cancelled /\ cancelled' = TRUE
  /\ UNCHANGED <<callMu, pc, stopping, watchVars, loadVars, stopped>>

(* Mutant: a watcher is given the daemon's context. *)
CancelledByDaemon(w) == cancelled

(* ctx.Err() # nil for the context of pid.go:78. *)
Cancelled(w) == cancelled \/ w \in cancels

-----------------------------------------------------------------------------
(* Runtime.call *)

(* Mutant: a call does not wait for the mutex. *)
LockNothing(a) ==
  /\ WaitsForMutex(a)
  /\ callMu' = a
  /\ Goto(a, IF pc[a] = "lock" THEN "call" ELSE "init")
  /\ UNCHANGED <<cancelled, stopping, watchVars, loadVars, stopped>>

Lock(a) ==
  /\ WaitsForMutex(a) /\ callMu = Nobody
  /\ callMu' = a
  /\ Goto(a, IF pc[a] = "lock" THEN "call" ELSE "init")
  /\ UNCHANGED <<cancelled, stopping, watchVars, loadVars, stopped>>

(* Mutant: the mutex is not released. *)
KeepLocked == callMu' = callMu

(* The deferred Unlock. *)
Unlock == callMu' = Nobody

(* Script code of a that is neither in a stop function nor waiting. *)
Runs(a) == pc[a] \in {"toplevel", "init", "call"} /\ stopping[a] = Nobody

-----------------------------------------------------------------------------
(* main: LoadAll and dispatch *)

Load ==
  /\ pc[Main] = "idle" /\ loads < MaxLoads
  /\ loads' = loads + 1 /\ Goto(Main, "toplevel")
  /\ UNCHANGED <<cancelled, callMu, stopping, watchVars, active, skipped, stopped>>

(* The registry of the new load replaces the former one; a failed load leaves
   an empty registry.  Nothing is done about watchers. *)
EndLoad(ok) ==
  /\ active' = IF ok THEN loads ELSE 0
  /\ skipped' = IF ok THEN skipped ELSE skipped \cup {loads}
  /\ Goto(Main, "idle")

TopLevelEnds ==
  /\ pc[Main] = "toplevel" /\ Runs(Main)
  /\ \/ (\E ok \in BOOLEAN : EndLoad(ok)) /\ UNCHANGED loads
     \/ Goto(Main, "initLock") /\ UNCHANGED loadVars
  /\ UNCHANGED <<cancelled, callMu, stopping, watchVars, stopped>>

InitReturns ==
  /\ pc[Main] = "init" /\ Runs(Main)
  /\ Unlock /\ (\E ok \in BOOLEAN : EndLoad(ok))
  /\ UNCHANGED <<cancelled, stopping, watchVars, loads, stopped>>

(* An event for a handler of the registry. *)
Dispatch ==
  /\ pc[Main] = "idle" /\ active # 0
  /\ Goto(Main, "lock")
  /\ UNCHANGED <<cancelled, callMu, stopping, watchVars, loadVars, stopped>>

HandlerReturns ==
  /\ pc[Main] = "call" /\ Runs(Main)
  /\ Unlock /\ Goto(Main, "idle")
  /\ UNCHANGED <<cancelled, stopping, watchVars, loadVars, stopped>>

MainStep == Load \/ TopLevelEnds \/ InitReturns \/ Dispatch \/ HandlerReturns

-----------------------------------------------------------------------------
(* pid.watch_new and its stop function, called by script code *)

(* The load whose code a goroutine runs. *)
LoadOf(a) == IF a # Main THEN load[a]
             ELSE IF pc[Main] = "call" THEN active ELSE loads

WatchNew(a, w) ==
  /\ Runs(a) /\ pc[w] = "free"
  /\ \E k \in {"netlink", "poll"} : kind' = [kind EXCEPT ![w] = k]
  /\ load' = [load EXCEPT ![w] = LoadOf(a)]
  /\ Goto(w, "open")
  /\ UNCHANGED <<cancelled, callMu, stopping, cancels, burst, loadVars, stopped>>

(* cancel().  A stop function that has returned before returns at once and
   changes nothing, so that call is no step. *)
StopCalled(a, w) ==
  /\ Runs(a) /\ load[w] = LoadOf(a) /\ w \notin stopped
  /\ cancels' = cancels \cup {w} /\ stopping' = [stopping EXCEPT ![a] = w]
  /\ UNCHANGED <<cancelled, callMu, pc, kind, burst, load, loadVars, stopped>>

(* Mutant: the stop function does not wait. *)
StopWithoutDone(a) ==
  /\ stopping[a] # Nobody
  /\ stopped' = stopped \cup {stopping[a]} /\ stopping' = [stopping EXCEPT ![a] = Nobody]
  /\ UNCHANGED <<cancelled, callMu, pc, watchVars, loadVars>>

(* <-done *)
StopDone(a) ==
  /\ stopping[a] # Nobody /\ pc[stopping[a]] = "done"
  /\ stopped' = stopped \cup {stopping[a]} /\ stopping' = [stopping EXCEPT ![a] = Nobody]
  /\ UNCHANGED <<cancelled, callMu, pc, watchVars, loadVars>>

ScriptStep == \E a \in Actors :
  StopDone(a) \/ \E w \in Watchers : WatchNew(a, w) \/ StopCalled(a, w)

-----------------------------------------------------------------------------
(* The goroutine of a watcher *)

(* The socket is opened and subscribed, or the first snapshot is taken; either
   may fail.  The deferred close(done) ends the goroutine. *)
Open(w) ==
  /\ pc[w] = "open"
  /\ Goto(w, "check") \/ Goto(w, "done")
  /\ UNCHANGED <<cancelled, callMu, stopping, watchVars, loadVars, stopped>>

(* The select at the top of the netlink loop; the polling loop has only one
   select, which it enters in any case. *)
Check(w) ==
  /\ pc[w] = "check"
  /\ Goto(w, IF kind[w] = "netlink" /\ Cancelled(w) THEN "done" ELSE "wait")
  /\ UNCHANGED <<cancelled, callMu, stopping, watchVars, loadVars, stopped>>

(* case <-ctx.Done(), at random if the ticker has fired, too. *)
PollCancelled(w) ==
  /\ pc[w] = "wait" /\ kind[w] = "poll" /\ Cancelled(w)
  /\ Goto(w, "done")
  /\ UNCHANGED <<cancelled, callMu, stopping, watchVars, loadVars, stopped>>

(* Recvfrom or a snapshot brings n new processes; none stands also for a
   timeout, an interrupt, a lost or malformed message and an unchanged /proc. *)
Receive(w) ==
  /\ pc[w] = "wait"
  /\ \E n \in 0..MaxBurst :
       /\ burst' = [burst EXCEPT ![w] = n]
       /\ Goto(w, IF n = 0 THEN "check" ELSE "lock")
  /\ UNCHANGED <<cancelled, callMu, stopping, cancels, kind, load, loadVars, stopped>>

ReceiveFails(w) ==
  /\ pc[w] = "wait" /\ Goto(w, "done")
  /\ UNCHANGED <<cancelled, callMu, stopping, watchVars, loadVars, stopped>>

(* The rest of the burst is called back without a look at the context. *)
CallbackReturns(w) ==
  /\ pc[w] = "call" /\ Runs(w)
  /\ Unlock /\ burst' = [burst EXCEPT ![w] = @ - 1]
  /\ Goto(w, IF burst[w] = 1 THEN "check" ELSE "lock")
  /\ UNCHANGED <<cancelled, stopping, cancels, kind, load, loadVars, stopped>>

WatcherStep(w) ==
  \/ Open(w) \/ Check(w) \/ PollCancelled(w)
  \/ Receive(w) \/ ReceiveFails(w) \/ CallbackReturns(w)

Next ==
  \/ Cancel \/ MainStep \/ ScriptStep
  \/ \E a \in Actors : Lock(a)
  \/ \E w \in Watchers : WatcherStep(w)

Spec == Init /\ [][Next]_vars

-----------------------------------------------------------------------------
(* Fairness: Go runs every goroutine and hands a mutex over (SF: others may
   keep taking it); a socket has a receive timeout and a ticker ticks; a select
   takes each ready case sooner or later (SF); the code of handlers, init() and
   callbacks ends by its step and time limits (runtime.go:129-146).  That a top
   level ends, which has no limits, is assumed. *)
Fairness ==
  /\ \A a \in Actors : SF_vars(Lock(a)) /\ WF_vars(StopDone(a))
  /\ \A w \in Watchers :
       /\ WF_vars(Open(w)) /\ WF_vars(Check(w)) /\ WF_vars(Receive(w))
       /\ SF_vars(PollCancelled(w)) /\ WF_vars(CallbackReturns(w))
  /\ WF_vars(TopLevelEnds) /\ WF_vars(InitReturns) /\ WF_vars(HandlerReturns)

FairSpec == Spec /\ Fairness

(* Once a stop function has returned, no callback of its watcher runs any more
   (pid.go:108-109, README.rst:87). *)
StoppedStaysSilent == \A w \in stopped : ~InCall(w)

(* The holder of the mutex is in the stop function of a watcher that waits for
   the mutex, or in the one of the watcher whose callback it is. *)
MutexStuck == \E a \in Actors :
  /\ callMu = a /\ stopping[a] # Nobody
  /\ stopping[a] = a \/ pc[stopping[a]] = "lock"

(* A stop function returns, wherever it is called and however many processes
   start, but for that one deadlock (pid.go:107-111, 358-362, 482-485). *)
StopFunctionReturns ==
  \A a \in Actors : stopping[a] # Nobody ~> stopping[a] = Nobody \/ MutexStuck

(* Every handler, init() and callback gets its turn, but for that deadlock
   (runtime.go:124). *)
CallServed ==
  \A a \in Actors : WaitsForMutex(a) ~> InCall(a) \/ MutexStuck

(* README.rst:33: the wall time of a handler is bounded (runtime.go:141-146). *)
HandlerBounded == pc[Main] = "call" ~> pc[Main] # "call"

(* loader.go:41: files with errors are skipped; no code of a load that failed
   is called any more. *)
SkippedStaysSilent ==
  [][\A w \in Watchers : load[w] \in skipped /\ ~InCall(w) => ~InCall(w)']_vars
=============================================================================
