------------------------------ MODULE Numbers ------------------------------
(***************************************************************************)
(* The arithmetic of the script runtime, in machine integers of 2 * Half   *)
(* values: time.Duration counts units of time, Unit of them to a           *)
(* millisecond, in a signed integer; steps are counted in an unsigned one; *)
(* a JSON number is a float of Precision significant values.               *)
(***************************************************************************)
EXTENDS Integers

CONSTANTS
  Half,        \* a power of two: the first number too large for an int (2^63)
  Unit,        \* duration units to a millisecond (1000000 in the code)
  DefaultMs,   \* the polling interval without a usable argument, in ms (100)
  Precision    \* a power of two: floats up to it are all integers (2^53)

ASSUME NumbersAssumption ==
  /\ Half \in Nat \ {0} /\ Unit \in Nat \ {0} /\ DefaultMs \in Nat \ {0}
  /\ Precision \in 1..Half-2   \* so that the largest int is no float
  /\ DefaultMs * Unit < Half    \* the default is a duration

Signed == -Half .. Half - 1
MaxUnsigned == 2 * Half - 1
Unsigned == 0 .. MaxUnsigned

(* The signed integer a result is stored as. *)
Wrap(x) == ((x + Half) % (2 * Half)) - Half

(* envDurationMs: zero and negative numbers mean no limit. *)
EnvDuration(ms) == IF ms <= 0 THEN 0 ELSE Wrap(ms * Unit)

(* Mutant: the sum is not checked for overflow. *)
StepMaxWrapped(steps, limit) ==
  IF limit > 0 THEN (steps + limit) % (2 * Half) ELSE MaxUnsigned

(* The number of steps at which Runtime.call has the thread cancelled. *)
StepMax(steps, limit) ==
  LET max == (steps + limit) % (2 * Half)
  IN  IF limit > 0 /\ max >= steps THEN max ELSE MaxUnsigned

(* Mutant: a negative number is converted like a positive one. *)
WatchIntervalAnySign(ms) == IF ms # 0 THEN Wrap(ms * Unit) ELSE DefaultMs * Unit

(* The interval pid.watch_new makes of its argument. *)
WatchInterval(ms) == IF ms > 0 THEN Wrap(ms * Unit) ELSE DefaultMs * Unit

(* The interval WatchNewPIDsPoll gives its ticker. *)
Ticker(interval) == IF interval <= 0 THEN DefaultMs * Unit ELSE interval

(* The integral floats up to twice the range of an integer: a number of the
   precision, scaled by a power of two, which is what divides a power of two. *)
Floats == {x \in -2 * Half .. 2 * Half :
             \E scale \in 1 .. 2 * Half :
               /\ (2 * Half) % scale = 0 /\ x % scale = 0
               /\ x \in -Precision * scale .. Precision * scale}

(* int64(x): what it gives for a float out of range depends on the machine. *)
Truncated(x) == IF x \in Signed THEN {x} ELSE {-Half, Half - 1}

(* Mutant: a number that is too large becomes an int all the same. *)
JsonNumberUnchecked(x) == {[type |-> "int", value |-> n] : n \in Truncated(x)}

(* What JSONToStarlark may make of an integral number.  math.MaxInt64 is rounded
   up when x is compared with it. *)
JsonNumber(x) ==
  IF x >= -Half /\ x <= Half
  THEN {[type |-> "int", value |-> n] : n \in Truncated(x)}
  ELSE {[type |-> "float", value |-> x]}
=============================================================================
