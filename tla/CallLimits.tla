----------------------------- MODULE CallLimits -----------------------------
(***************************************************************************)
(* The limits of one call of script code, as Runtime.call sets them on the *)
(* Starlark thread of the script: a number of steps and a timer, each of   *)
(* which cancels the thread.  A cancelled thread stops at its next         *)
(* instruction; the first reason to cancel it is kept.  Stopping the timer *)
(* does not wait for a timer that is just firing, whose cancellation then  *)
(* comes late.                                                             *)
(*                                                                         *)
(* One script is modelled: its handlers, its init() and the callbacks of   *)
(* its watchers all use its one thread.                                    *)
(***************************************************************************)
EXTENDS Integers

CONSTANTS
  Actors,       \* goroutines that run code of the script
  Nobody,       \* no goroutine
  StepLimits,   \* values of I3D_HANDLER_MAX_STEPS; 0 disables the limit
  Timeouts,     \* whether I3D_HANDLER_TIMEOUT_MS sets a time limit
  MaxLate       \* bound: late cancellations at a time

ASSUME CallLimitsAssumption ==
  /\ Nobody \notin Actors
  /\ StepLimits \subseteq Nat /\ Timeouts \subseteq BOOLEAN
  /\ MaxLate \in Nat

VARIABLES
  maxSteps,   \* the configured step limit
  timed,      \* a time limit is configured
  callMu,     \* holder of Runtime.callMu, or Nobody
  left,       \* steps the thread may still execute, or NoLimit
  timer,      \* "off", "armed", "firing" or "spent"
  late,       \* firing timers of calls that have ended
  reason,     \* why the thread is cancelled, "none" if it is not
  used        \* history: steps of the current call

limits == <<maxSteps, timed>>
threadVars == <<left, timer, late, reason, used>>

NoLimit == -1

LimitsTypeOK ==
  /\ maxSteps \in StepLimits /\ timed \in Timeouts
  /\ callMu \in Actors \cup {Nobody}
  /\ left \in Nat \cup {NoLimit} /\ used \in Nat /\ late \in 0..MaxLate
  /\ timer \in {"off", "armed", "firing", "spent"}
  /\ reason \in {"none", "steps", "own", "late"}

(* A new thread has no limits and is not cancelled. *)
LimitsInit ==
  /\ maxSteps \in StepLimits /\ timed \in Timeouts
  /\ callMu = Nobody
  /\ left = NoLimit /\ timer = "off" /\ late = 0 /\ reason = "none" /\ used = 0

(* Thread.Cancel: a compare-and-swap. *)
CancelThread(why) == reason' = IF reason = "none" THEN why ELSE reason

(* Mutant: the two branches are swapped. *)
AllowanceSwapped == IF maxSteps > 0 THEN NoLimit ELSE maxSteps

(* SetMaxExecutionSteps: the steps allowed from now on. *)
Allowance == IF maxSteps > 0 THEN maxSteps ELSE NoLimit

(* Mutant: the thread stays cancelled. *)
BeginCancelled(a) ==
  /\ callMu = Nobody /\ callMu' = a
  /\ left' = Allowance /\ used' = 0
  /\ timer' = IF timed THEN "armed" ELSE "off"
  /\ UNCHANGED <<limits, late, reason>>

(* The mutex is locked, the thread uncancelled, and both limits are set. *)
BeginCall(a) ==
  /\ callMu = Nobody /\ callMu' = a
  /\ reason' = "none"
  /\ left' = Allowance /\ used' = 0
  /\ timer' = IF timed THEN "armed" ELSE "off"
  /\ UNCHANGED <<limits, late>>

(* The thread executes an instruction that counts; the last one allowed
   cancels it (OnMaxSteps). *)
CountStep ==
  /\ reason = "none" /\ left > 0
  /\ left' = left - 1
  /\ IF left = 1 THEN CancelThread("steps") ELSE UNCHANGED reason
  /\ UNCHANGED <<limits, callMu, timer, late>>

(* The time limit passes: the timer's function starts on a goroutine of its
   own and then cancels the thread. *)
TimerFires ==
  /\ timer = "armed" /\ late < MaxLate
  /\ timer' = "firing"
  /\ UNCHANGED <<limits, callMu, left, late, reason, used>>

TimerCancels ==
  /\ timer = "firing" /\ timer' = "spent"
  /\ CancelThread("own")
  /\ UNCHANGED <<limits, callMu, left, late, used>>

(* The cancellation of a call that has ended hits whatever the thread does. *)
LateCancel ==
  /\ late > 0 /\ late' = late - 1
  /\ CancelThread("late")
  /\ UNCHANGED <<limits, callMu, left, timer, used>>

(* Mutant: the timer is not stopped. *)
EndWithTimer(a) ==
  /\ callMu = a /\ callMu' = Nobody
  /\ UNCHANGED <<limits, left, timer, late, reason, used>>

(* The code returns or fails; the timer is stopped and the mutex unlocked. *)
EndCall(a) ==
  /\ callMu = a /\ callMu' = Nobody
  /\ timer' = "off" /\ late' = IF timer = "firing" THEN late + 1 ELSE late
  /\ UNCHANGED <<limits, left, reason, used>>
=============================================================================
