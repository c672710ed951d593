------------------------------ MODULE Context ------------------------------
(***************************************************************************)
(* What every goroutine of i3d shares: the event types of i3 and the       *)
(* context that main.go cancels on SIGINT or SIGTERM.  A cancelled context *)
(* stays cancelled, so one Boolean is its whole state.                     *)
(***************************************************************************)
CONSTANTS
  EventTypes,   \* the i3 event types scripts can handle (loader.go knownEvents)
  None          \* no file, no script, no event

VARIABLE cancelled   \* ctx.Err() # nil

ContextInit == cancelled = FALSE

(* SIGINT or SIGTERM arrives: signal.NotifyContext cancels the context. *)
Cancel == ~cancelled /\ cancelled' = TRUE
=============================================================================
