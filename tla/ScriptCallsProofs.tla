-------------------------- MODULE ScriptCallsProofs --------------------------
(***************************************************************************)
(* A call of script code is cut off by its own limits only, for any number *)
(* of goroutines, any limits and any number of late timers.                *)
(***************************************************************************)
EXTENDS ScriptCalls, TLAPS

(* A call that shares the thread with no top level counts its steps alone. *)
CountInv ==
  callMu # Nobody /\ ~mixed =>
    /\ load # "running"
    /\ IF maxSteps > 0 THEN left + used = maxSteps ELSE left = NoLimit

(* A top level that has had no call beside it has a thread without limits. *)
FreshInv ==
  load = "running" /\ ~mixed =>
    callMu = Nobody /\ left = NoLimit /\ timer = "off" /\ late = 0 /\ reason = "none"

(* A firing timer has its place among the late ones. *)
LateInv == timer = "firing" => late < MaxLate

Inv == CallsTypeOK /\ LimitsAreOwn /\ CountInv /\ FreshInv /\ LateInv

LEMMA InitInv == Init => Inv
<1> SUFFICES ASSUME Init PROVE Inv
  OBVIOUS
<1> USE CallLimitsAssumption DEF Init, LimitsInit, ExecInit
<1>1. CallsTypeOK
  <2>1. LimitsTypeOK
    BY DEF LimitsTypeOK
  <2>2. child \in [Actors -> {"none", "running", "held", "done"}]
    OBVIOUS
  <2> QED BY <2>1, <2>2 DEF CallsTypeOK, ExecTypeOK
<1>2. LimitsAreOwn /\ CountInv /\ FreshInv /\ LateInv
  BY DEF LimitsAreOwn, CountInv, FreshInv, LateInv
<1> QED BY <1>1, <1>2 DEF Inv

(* A call begins with its own limits and no reason to end. *)
LEMMA CallInv == \A a \in Actors : Inv /\ Call(a) => Inv'
<1> SUFFICES ASSUME NEW a \in Actors, Inv, Call(a) PROVE Inv'
  OBVIOUS
<1>1. /\ UNCHANGED <<maxSteps, timed, late, load, cancelled, child>>
      /\ callMu' = a /\ reason' = "none" /\ used' = 0 /\ mixed' = (load = "running")
      /\ left' = (IF maxSteps > 0 THEN maxSteps ELSE NoLimit)
      /\ timer' = (IF timed THEN "armed" ELSE "off")
  BY DEF Call, BeginCall, Allowance, limits, execVars
<1>2. a # Nobody /\ maxSteps \in Nat
  BY CallLimitsAssumption DEF Inv, CallsTypeOK, LimitsTypeOK
<1>3. CallsTypeOK'
  <2>1. LimitsTypeOK'
    <3>1. left' \in Nat \cup {NoLimit} /\ timer' \in {"off", "armed", "firing", "spent"}
      BY <1>1, <1>2
    <3> QED BY <1>1, <1>2, <3>1 DEF Inv, CallsTypeOK, LimitsTypeOK
  <2>2. ExecTypeOK'
    BY <1>1 DEF Inv, CallsTypeOK, ExecTypeOK
  <2> QED BY <1>1, <1>2, <2>1, <2>2 DEF Inv, CallsTypeOK, LimitsTypeOK
<1>4. ~mixed' => load' # "running"
  BY <1>1
<1>5. LimitsAreOwn' /\ FreshInv' /\ LateInv'
  BY <1>1, <1>4 DEF LimitsAreOwn, FreshInv, LateInv
<1>6. CountInv'
  BY <1>1, <1>2, <1>4 DEF CountInv
<1> QED BY <1>3, <1>5, <1>6 DEF Inv

(* The last step allowed is the one that cancels. *)
LEMMA InstructionInv == \A a \in Actors : Inv /\ Instruction(a) => Inv'
<1> SUFFICES ASSUME NEW a \in Actors, Inv, Instruction(a) PROVE Inv'
  OBVIOUS
<1>1. /\ UNCHANGED <<maxSteps, timed, callMu, timer, late, load, mixed, cancelled, child>>
      /\ reason = "none" /\ left > 0 /\ left' = left - 1
      /\ reason' = (IF left = 1 THEN "steps" ELSE "none")
      /\ used' = (IF callMu = a THEN used + 1 ELSE used)
      /\ callMu = a \/ (a = Main /\ load = "running")
  BY DEF Instruction, Active, InCode, CountStep, CancelThread, limits, execVars
<1>2. left \in Nat /\ used \in Nat /\ maxSteps \in Nat
  BY <1>1, CallLimitsAssumption DEF Inv, CallsTypeOK, LimitsTypeOK, NoLimit
<1>3. CallsTypeOK'
  <2>1. LimitsTypeOK'
    BY <1>1, <1>2 DEF Inv, CallsTypeOK, LimitsTypeOK
  <2> QED BY <1>1, <2>1 DEF Inv, CallsTypeOK, ExecTypeOK
<1>4. LimitsAreOwn' /\ CountInv' /\ FreshInv' /\ LateInv'
  BY <1>1, <1>2 DEF Inv, LimitsAreOwn, CountInv, FreshInv, LateInv, NoLimit
<1> QED BY <1>3, <1>4 DEF Inv

(* A call leaves its reason, and a late timer if its own is firing, to the next. *)
LEMMA ReturnInv == \A a \in Actors : Inv /\ Return(a) => Inv'
<1> SUFFICES ASSUME NEW a \in Actors, Inv, Return(a) PROVE Inv'
  OBVIOUS
<1>1. /\ UNCHANGED <<maxSteps, timed, left, reason, used, load, mixed, cancelled, child>>
      /\ callMu = a /\ callMu' = Nobody /\ timer' = "off" /\ a # Nobody
      /\ late' = IF timer = "firing" THEN late + 1 ELSE late
  BY CallLimitsAssumption DEF Return, EndCall, limits, execVars
<1>2. late' \in 0..MaxLate
  BY <1>1, CallLimitsAssumption DEF Inv, CallsTypeOK, LimitsTypeOK, LateInv
<1>3. CallsTypeOK'
  <2>1. LimitsTypeOK'
    BY <1>1, <1>2 DEF Inv, CallsTypeOK, LimitsTypeOK
  <2> QED BY <1>1, <2>1 DEF Inv, CallsTypeOK, ExecTypeOK
<1>4. LimitsAreOwn' /\ CountInv' /\ FreshInv' /\ LateInv'
  BY <1>1 DEF Inv, LimitsAreOwn, CountInv, FreshInv, LateInv
<1> QED BY <1>3, <1>4 DEF Inv

(* A timer fires during its own call, or late and then as "late". *)
LEMMA ClockInv == Inv /\ Clock => Inv'
<1> SUFFICES ASSUME Inv, Clock PROVE Inv'
  OBVIOUS
<1>1. UNCHANGED <<maxSteps, timed, callMu, left, used, load, mixed, cancelled, child>>
  BY DEF Clock, TimerFires, TimerCancels, LateCancel, limits, execVars
<1>2. CASE TimerFires
  <2>1. /\ timer = "armed" /\ timer' = "firing" /\ late < MaxLate
        /\ late' = late /\ reason' = reason
    BY <1>2 DEF TimerFires
  <2>2. CallsTypeOK'
    BY <1>1, <2>1 DEF Inv, CallsTypeOK, LimitsTypeOK, ExecTypeOK
  <2> QED BY <1>1, <2>1, <2>2 DEF Inv, LimitsAreOwn, CountInv, FreshInv, LateInv
<1>3. CASE TimerCancels
  <2>1. /\ timer = "firing" /\ timer' = "spent" /\ late' = late
        /\ reason' = IF reason = "none" THEN "own" ELSE reason
    BY <1>3 DEF TimerCancels, CancelThread
  <2>2. CallsTypeOK'
    BY <1>1, <2>1 DEF Inv, CallsTypeOK, LimitsTypeOK, ExecTypeOK
  <2>3. mixed \/ load # "running"
    BY <2>1 DEF Inv, FreshInv
  <2> QED BY <1>1, <2>1, <2>2, <2>3 DEF Inv, LimitsAreOwn, CountInv, FreshInv, LateInv
<1>4. CASE LateCancel
  <2>1. /\ late > 0 /\ timer' = timer /\ late' = late - 1
        /\ reason' = IF reason = "none" THEN "late" ELSE reason
    BY <1>4 DEF LateCancel, CancelThread
  <2>2. CallsTypeOK'
    BY <1>1, <2>1, CallLimitsAssumption DEF Inv, CallsTypeOK, LimitsTypeOK, ExecTypeOK
  <2>3. mixed \/ load # "running"
    BY <2>1 DEF Inv, FreshInv
  <2>4. LateInv'
    BY <2>1, <2>2, CallLimitsAssumption DEF Inv, LateInv, CallsTypeOK, LimitsTypeOK
  <2> QED BY <1>1, <2>1, <2>2, <2>3, <2>4 DEF Inv, LimitsAreOwn, CountInv, FreshInv
<1> QED BY <1>2, <1>3, <1>4 DEF Clock

LEMMA TopLevelEndsInv ==
  \A outcome \in {"ok", "failed"} : Inv /\ TopLevelEnds(outcome) => Inv'
<1> SUFFICES ASSUME NEW outcome \in {"ok", "failed"}, Inv, TopLevelEnds(outcome) PROVE Inv'
  OBVIOUS
<1>1. /\ UNCHANGED <<maxSteps, timed, callMu, left, timer, late, reason, used, mixed,
                     cancelled, child>>
      /\ load = "running" /\ load' = outcome
  BY DEF TopLevelEnds, limits, threadVars, execVars
<1> QED BY <1>1 DEF Inv, CallsTypeOK, LimitsTypeOK, ExecTypeOK, LimitsAreOwn, CountInv, FreshInv,
                    LateInv

(* What a child process does leaves the limits alone. *)
LEMMA ChildInv ==
  Inv /\ ((\E a \in Actors : RunsChild(a) \/ Waits(a)) \/ Signal) => Inv'
<1> SUFFICES ASSUME Inv, (\E a \in Actors : RunsChild(a) \/ Waits(a)) \/ Signal PROVE Inv'
  OBVIOUS
<1>1. UNCHANGED <<maxSteps, timed, callMu, left, timer, late, reason, used, load, mixed>>
  BY DEF RunsChild, Waits, Signal, limits, threadVars
<1>2. ExecTypeOK'
  BY DEF RunsChild, Waits, Signal, ExecStart, ChildExits, Kill, PipeCloses, ExecReturns, Becomes,
         Cancel, Inv, CallsTypeOK, ExecTypeOK
<1> QED BY <1>1, <1>2 DEF Inv, CallsTypeOK, LimitsTypeOK, LimitsAreOwn, CountInv, FreshInv, LateInv

LEMMA NextInv == Inv /\ [Next]_vars => Inv'
<1> SUFFICES ASSUME Inv, [Next]_vars PROVE Inv'
  OBVIOUS
<1>1. CASE UNCHANGED vars
  BY <1>1 DEF vars, limits, threadVars, execVars, Inv, CallsTypeOK, LimitsTypeOK, ExecTypeOK,
              LimitsAreOwn, CountInv, FreshInv, LateInv
<1>2. CASE Next
  BY <1>2, CallInv, InstructionInv, ReturnInv, ClockInv, TopLevelEndsInv, ChildInv DEF Next
<1> QED BY <1>1, <1>2

LEMMA Invariance == Spec => []Inv
<1> QED BY InitInv, NextInv, PTL DEF Spec

(* Every variable keeps its type, and a timer never outlives its call's lock
   (runtime.go:127-152). *)
THEOREM CallsTypeTheorem == Spec => []CallsTypeOK
<1>1. Inv => CallsTypeOK
  BY DEF Inv
<1> QED BY <1>1, Invariance, PTL

(* A call is cut off for its steps after exactly as many as are allowed, for its
   time by its own timer, and else only by a late timer or beside a top level
   (runtime.go:127-152, loader.go:87). *)
THEOREM LimitsAreOwnTheorem == Spec => []LimitsAreOwn
<1>1. Inv => LimitsAreOwn
  BY DEF Inv
<1> QED BY <1>1, Invariance, PTL
=============================================================================
