----------------------------- MODULE ScriptCalls -----------------------------
(***************************************************************************)
(* The calls of one script: the main goroutine runs its top level, its     *)
(* init() and its handlers, and the goroutines of its watchers run their   *)
(* callbacks, each under the limits of CallLimits but for the top level,   *)
(* which runs without the call mutex and without limits.  The code may     *)
(* loop for ever or wait for a child process.                              *)
(***************************************************************************)
EXTENDS Exec

CONSTANT Main   \* the main goroutine

ASSUME ScriptCallsAssumption == Main \in Actors

VARIABLES
  load,    \* the script's top level: "running", "ok" or "failed"
  mixed    \* history: the latest call began while the top level ran

vars == <<limits, callMu, threadVars, load, mixed, execVars>>

(* Every variable holds a value of its type, and a timer runs only during a
   call that it limits (runtime.go:141-152). *)
CallsTypeOK ==
  /\ LimitsTypeOK /\ ExecTypeOK
  /\ load \in {"running", "ok", "failed"} /\ mixed \in BOOLEAN
  /\ timer # "off" => timed /\ callMu # Nobody

Init == LimitsInit /\ ExecInit /\ load = "running" /\ mixed = FALSE

(* a runs code of the script: it holds the mutex, or is main in the top level. *)
InCode(a) == callMu = a \/ (a = Main /\ load = "running")

Active(a) == InCode(a) /\ child[a] = "none"

(* A handler or init() of a loaded script, or a callback of a watcher, whatever
   became of the load. *)
Call(a) ==
  /\ a = Main => load = "ok"
  /\ BeginCall(a) /\ mixed' = (load = "running")
  /\ UNCHANGED <<load, execVars>>

Instruction(a) ==
  /\ Active(a) /\ CountStep
  /\ used' = IF callMu = a THEN used + 1 ELSE used
  /\ UNCHANGED <<load, mixed, execVars>>

(* The function returns, or fails by itself or because it is cancelled. *)
Return(a) ==
  /\ callMu = a /\ child[a] = "none" /\ EndCall(a)
  /\ UNCHANGED <<load, mixed, execVars>>

TopLevelEnds(outcome) ==
  /\ load = "running" /\ child[Main] = "none"
  /\ outcome = "ok" => reason = "none"
  /\ load' = outcome
  /\ UNCHANGED <<limits, callMu, threadVars, mixed, execVars>>

(* The evaluator sees the cancellation before its next instruction. *)
Aborts(a) == reason # "none" /\ (Return(a) \/ (a = Main /\ TopLevelEnds("failed")))

Clock ==
  /\ TimerFires \/ TimerCancels \/ LateCancel
  /\ UNCHANGED <<load, mixed, execVars>>

(* Script code calls exec, unless it is cancelled. *)
RunsChild(a) ==
  /\ Active(a) /\ reason = "none" /\ ExecStart(a)
  /\ UNCHANGED <<limits, callMu, threadVars, load, mixed>>

Waits(a) ==
  /\ ChildExits(a) \/ Kill(a) \/ PipeCloses(a) \/ ExecReturns(a)
  /\ UNCHANGED <<limits, callMu, threadVars, load, mixed>>

Signal == Cancel /\ UNCHANGED <<limits, callMu, threadVars, load, mixed>>

Next ==
  \/ \E a \in Actors :
       Call(a) \/ Instruction(a) \/ Return(a) \/ RunsChild(a) \/ Waits(a)
  \/ \E outcome \in {"ok", "failed"} : TopLevelEnds(outcome)
  \/ Clock \/ Signal

Spec == Init /\ [][Next]_vars

(* The goroutines run, timers fire, and a killed process goes away.  Neither
   the script nor its child need ever end. *)
Fairness ==
  /\ \A a \in Actors :
       /\ WF_vars(Instruction(a)) /\ WF_vars(Aborts(a))
       /\ WF_vars(Kill(a) /\ Waits(a)) /\ WF_vars(ExecReturns(a) /\ Waits(a))
  /\ WF_vars(TimerFires /\ Clock) /\ WF_vars(TimerCancels /\ Clock)
  /\ WF_vars(LateCancel /\ Clock)

FairSpec == Spec /\ Fairness

-----------------------------------------------------------------------------
(* Properties *)

(* A call is cut off by its own limits only: for its steps after exactly as
   many as are allowed, for its time when its own timer has fired.  A top level
   is cut off only if a callback shared its thread, and so is a call that began
   during a top level.  Late timers of earlier calls remain
   (runtime.go:127-152, loader.go:87). *)
LimitsAreOwn ==
  /\ callMu # Nobody /\ ~mixed =>
       /\ reason = "steps" => used = maxSteps
       /\ reason = "own" => timer = "spent"
  /\ load = "running" /\ reason # "none" => mixed

Limited == maxSteps > 0 \/ timed

(* With either limit, a call whose code loops for ever ends; only inside exec
   no limit reaches it (runtime.go:129-152, exec.go:71). *)
CallEnds ==
  \A a \in Actors :
    callMu = a /\ Limited ~> callMu # a \/ child[a] # "none"

(* After a signal every limited call ends, also one inside exec, unless a
   descendant of its child keeps the captured output open (exec.go:68-86). *)
CallEndsAtShutdown ==
  \A a \in Actors :
    cancelled /\ callMu = a /\ Limited ~> callMu # a \/ child[a] = "held"
=============================================================================
