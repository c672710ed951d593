-------------------------------- MODULE Exec --------------------------------
(***************************************************************************)
(* The builtin exec: script code runs a child process and waits for it.    *)
(* Only the daemon's context, cancelled at shutdown, kills the child.      *)
(* When output is captured, the wait also lasts until every descendant     *)
(* that inherited the pipe has closed it.                                  *)
(***************************************************************************)
EXTENDS CallLimits

VARIABLES
  cancelled,   \* the daemon's context is cancelled
  child        \* per goroutine: "none", "running", "held" (exited, but a
               \* descendant has the pipe) or "done"

execVars == <<cancelled, child>>

ExecTypeOK ==
  /\ cancelled \in BOOLEAN
  /\ child \in [Actors -> {"none", "running", "held", "done"}]

ExecInit == cancelled = FALSE /\ child = [a \in Actors |-> "none"]

Becomes(a, state) == child' = [child EXCEPT ![a] = state] /\ UNCHANGED cancelled

(* cmd.Run starts the process; with a cancelled context it fails at once,
   which is no step. *)
ExecStart(a) ==
  /\ child[a] = "none" /\ ~cancelled
  /\ Becomes(a, "running")

(* The process ends by itself, or fails to start. *)
ChildExits(a) ==
  /\ child[a] = "running"
  /\ Becomes(a, "done") \/ Becomes(a, "held")

(* Mutant: the command is not bound to the context. *)
NoKill(a) == FALSE

(* exec.CommandContext kills the process of a cancelled context. *)
Kill(a) ==
  /\ cancelled /\ child[a] = "running"
  /\ Becomes(a, "done") \/ Becomes(a, "held")

(* The last descendant with the captured pipe closes it. *)
PipeCloses(a) == child[a] = "held" /\ Becomes(a, "done")

(* Run returns the exit code, or an error, to the script. *)
ExecReturns(a) == child[a] = "done" /\ Becomes(a, "none")

(* SIGINT or SIGTERM *)
Cancel == ~cancelled /\ cancelled' = TRUE /\ UNCHANGED child
=============================================================================
