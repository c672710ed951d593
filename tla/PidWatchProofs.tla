--------------------------- MODULE PidWatchProofs ---------------------------
(***************************************************************************)
(* Script code under the call mutex never overlaps, and a stopped watcher  *)
(* stays silent, for any number of watchers, bursts and loads.             *)
(***************************************************************************)
EXTENDS PidWatch, TLAPS

(* What keeps the types and makes stop functions sound: a callback is made for
   a process of the burst, a load has a number, a goroutine in a stop function
   has cancelled the watcher, and it left only after the watcher's end. *)
WatchInv ==
  /\ \A w \in Watchers : pc[w] \in {"lock", "call"} => burst[w] # 0
  /\ pc[Main] \in {"toplevel", "initLock", "init"} => loads # 0
  /\ \A a \in Actors : stopping[a] # Nobody => stopping[a] \in cancels
  /\ \A w \in stopped : pc[w] = "done"

Inv == PidTypeOK /\ WatchInv

(* The initial state satisfies the invariant. *)
LEMMA InitInv == Init => Inv
<1> SUFFICES ASSUME Init PROVE Inv
  OBVIOUS
<1> USE PidWatchAssumption DEF Init, Actors, MainStates, WatcherStates
<1>1. pc \in [Actors -> MainStates \cup WatcherStates] /\ stopping \in [Actors -> Watchers \cup {Nobody}]
  OBVIOUS
<1>2. pc[Main] = "idle" /\ \A w \in Watchers : pc[w] = "free"
  OBVIOUS
<1>3. \A a \in Actors : ~InCall(a) /\ callMu # a
  BY <1>2 DEF InCall
<1>4. PidTypeOK
  <2>1. /\ kind \in [Watchers -> {"netlink", "poll"}] /\ burst \in [Watchers -> 0..MaxBurst]
        /\ load \in [Watchers -> 0..MaxLoads]
    OBVIOUS
  <2>2. /\ cancelled \in BOOLEAN /\ callMu \in Actors \cup {Nobody}
        /\ cancels \subseteq Watchers /\ stopped \subseteq cancels /\ skipped \subseteq 1..MaxLoads
    OBVIOUS
  <2>3. loads \in 0..MaxLoads /\ active \in 0..loads
    OBVIOUS
  <2> HIDE DEF Init
  <2> QED BY <1>1, <1>2, <1>3, <2>1, <2>2, <2>3 DEF PidTypeOK
<1>5. \A a \in Actors : stopping[a] = Nobody
  OBVIOUS
<1>6. WatchInv
  BY <1>2, <1>5 DEF WatchInv
<1> QED BY <1>4, <1>6 DEF Inv

(* Signals and the mutex preserve it (main.go:76-77, runtime.go:124). *)
LEMMA LockInv == Inv /\ (Cancel \/ \E a \in Actors : Lock(a)) => Inv'
<1>1. Inv /\ Cancel => Inv'
  BY PidWatchAssumption DEF Inv, PidTypeOK, WatchInv, Cancel, Actors, InCall, watchVars, loadVars
<1>2. ASSUME NEW a \in Actors, Inv, Lock(a) PROVE Inv'
  <2>1. PidTypeOK'
    BY <1>2, PidWatchAssumption, SMTT(30) DEF Inv, PidTypeOK, Lock, Goto, WaitsForMutex, Actors, InCall,
       watchVars, loadVars, MainStates, WatcherStates
  <2>2. WatchInv'
    BY <1>2, PidWatchAssumption, SMTT(30) DEF Inv, PidTypeOK, WatchInv, Lock, Goto, WaitsForMutex, Actors,
       watchVars, loadVars
  <2> QED BY <2>1, <2>2 DEF Inv
<1> QED BY <1>1, <1>2

(* So do loads and dispatches (loader.go:42-64, runtime.go:123-155). *)
LEMMA MainInv == Inv /\ MainStep => Inv'
<1> SUFFICES ASSUME Inv, MainStep PROVE Inv'
  OBVIOUS
<1> USE PidWatchAssumption DEF Inv, PidTypeOK, WatchInv, Actors, InCall, Goto, MainStates, WatcherStates
<1>1. CASE Load
  BY <1>1 DEF Load, watchVars
<1>2. CASE TopLevelEnds
  <2>1. CASE \E ok \in BOOLEAN : EndLoad(ok) /\ UNCHANGED loads
    BY <1>2, <2>1 DEF TopLevelEnds, EndLoad, watchVars
  <2>2. CASE Goto(Main, "initLock") /\ UNCHANGED loadVars
    BY <1>2, <2>2 DEF TopLevelEnds, watchVars, loadVars
  <2> QED BY <1>2, <2>1, <2>2 DEF TopLevelEnds
<1>3. CASE InitReturns
  BY <1>3 DEF InitReturns, EndLoad, Unlock, watchVars
<1>4. CASE Dispatch
  BY <1>4 DEF Dispatch, watchVars, loadVars
<1>5. CASE HandlerReturns
  BY <1>5 DEF HandlerReturns, Unlock, watchVars, loadVars
<1> QED BY <1>1, <1>2, <1>3, <1>4, <1>5 DEF MainStep

(* So do watch_new and the stop functions (pid.go:78-111). *)
LEMMA ScriptInv == Inv /\ ScriptStep => Inv'
<1> SUFFICES ASSUME NEW a \in Actors, Inv,
                    StopDone(a) \/ \E w \in Watchers : WatchNew(a, w) \/ StopCalled(a, w)
             PROVE  Inv'
  BY DEF ScriptStep
<1> USE PidWatchAssumption DEF Inv, PidTypeOK, WatchInv, Actors, InCall, Goto, MainStates, WatcherStates
<1>1. CASE StopDone(a)
  <2>1. stopping[a] \in cancels /\ stopping[a] \in Watchers /\ pc[stopping[a]] = "done"
    BY <1>1 DEF StopDone
  <2> QED BY <1>1, <2>1 DEF StopDone, watchVars, loadVars
<1>2. ASSUME NEW w \in Watchers, WatchNew(a, w) PROVE Inv'
  <2>1. LoadOf(a) \in 0..MaxLoads
    BY DEF LoadOf
  <2>2. PICK k \in {"netlink", "poll"} : kind' = [kind EXCEPT ![w] = k]
    BY <1>2 DEF WatchNew
  <2>3. PidTypeOK'
    BY <1>2, <2>1, <2>2, SMTT(30) DEF WatchNew, loadVars
  <2>4. WatchInv'
    BY <1>2, SMTT(30) DEF WatchNew, loadVars
  <2> QED BY <2>3, <2>4
<1>3. ASSUME NEW w \in Watchers, StopCalled(a, w) PROVE Inv'
  BY <1>3 DEF StopCalled, loadVars
<1> QED BY <1>1, <1>2, <1>3

(* So do the goroutines of the watchers (pid.go:351-428, 465-509). *)
LEMMA WatcherInv == Inv /\ (\E w \in Watchers : WatcherStep(w)) => Inv'
<1> SUFFICES ASSUME NEW w \in Watchers, Inv, WatcherStep(w) PROVE Inv'
  OBVIOUS
<1> USE PidWatchAssumption DEF Inv, PidTypeOK, WatchInv, Actors, InCall, Goto, MainStates, WatcherStates
<1>1. CASE Open(w)
  BY <1>1 DEF Open, watchVars, loadVars
<1>2. CASE Check(w)
  BY <1>2 DEF Check, watchVars, loadVars
<1>3. CASE PollCancelled(w)
  BY <1>3 DEF PollCancelled, watchVars, loadVars
<1>4. CASE Receive(w)
  <2>1. PICK n \in 0..MaxBurst : /\ burst' = [burst EXCEPT ![w] = n]
                                 /\ pc' = [pc EXCEPT ![w] = IF n = 0 THEN "check" ELSE "lock"]
    BY <1>4 DEF Receive
  <2>2. PidTypeOK'
    BY <1>4, <2>1, SMTT(30) DEF Receive, loadVars
  <2>3. WatchInv'
    BY <1>4, <2>1, SMTT(30) DEF Receive, loadVars
  <2> QED BY <2>2, <2>3
<1>5. CASE ReceiveFails(w)
  BY <1>5 DEF ReceiveFails, watchVars, loadVars
<1>6. CASE CallbackReturns(w)
  <2>1. burst[w] \in 1..MaxBurst
    BY <1>6 DEF CallbackReturns
  <2>2. PidTypeOK'
    BY <1>6, <2>1, SMTT(30) DEF CallbackReturns, Unlock, loadVars
  <2>3. WatchInv'
    BY <1>6, <2>1, SMTT(30) DEF CallbackReturns, loadVars
  <2> QED BY <2>2, <2>3
<1> QED BY <1>1, <1>2, <1>3, <1>4, <1>5, <1>6 DEF WatcherStep

(* The invariant is inductive. *)
LEMMA PidInvariant == Spec => []Inv
<1>1. Inv /\ [Next]_vars => Inv'
  <2>1. Inv /\ Next => Inv'
    BY LockInv, MainInv, ScriptInv, WatcherInv DEF Next
  <2>2. Inv /\ UNCHANGED vars => Inv'
    BY DEF Inv, PidTypeOK, WatchInv, InCall, vars, watchVars, loadVars
  <2> QED BY <2>1, <2>2
<1> QED BY InitInv, <1>1, PTL DEF Spec

(* Handlers, init() and callbacks never overlap (runtime.go:124-125). *)
THEOREM CallExclusion == Spec => []PidTypeOK
BY PidInvariant, PTL DEF Inv

(* No callback of a watcher runs after its stop function has returned
   (pid.go:108-109). *)
THEOREM StopTheorem == Spec => []StoppedStaysSilent
<1>1. Inv => StoppedStaysSilent
  BY DEF Inv, WatchInv, StoppedStaysSilent, InCall
<1> QED BY PidInvariant, <1>1, PTL
=============================================================================
