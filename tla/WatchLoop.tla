----------------------------- MODULE WatchLoop -----------------------------
(***************************************************************************)
(* From a change in the script directory to a reload request: the fsnotify *)
(* watcher (external code) queues an event per change, the goroutine of    *)
(* watchLoop collects the changed paths, debounces them with a timer and   *)
(* sends them on the bounded channel reloadReq without blocking.           *)
(***************************************************************************)
EXTENDS Sequences, Registry

CONSTANTS
  ReloadCap,     \* capacity of reloadReq (8 in the code)
  MaxChanges,    \* bound: file changes
  MaxOverflows   \* bound: changes fsnotify could not queue

ASSUME WatchAssumption ==
  /\ ReloadCap \in Nat \ {0} /\ MaxChanges \in Nat /\ MaxOverflows \in Nat

VARIABLES
  disk,        \* the script directory
  changes,     \* changes made so far
  overflows,   \* changes the watcher has no event for
  fsq,         \* events of the watcher, oldest first; None is another file
  watchErr,    \* the watcher has an overflow error to deliver
  watching,    \* control state of the watchLoop goroutine
  changed,     \* the local set changed of watchLoop
  timer,       \* the debounce timer: "off" (timerCh = nil), "armed", "fired"
  reloadReq    \* channel of sets of paths

watchVars == <<disk, changes, overflows, fsq, watchErr, watching, changed, timer,
               reloadReq>>

WatchTypeOK ==
  /\ disk \in Directory
  /\ changes \in Nat /\ overflows \in Nat
  /\ fsq \in Seq(Scripts \cup {None})
  /\ watchErr \in BOOLEAN
  /\ watching \in {"unborn", "running", "stopped"}
  /\ changed \subseteq Scripts
  /\ timer \in {"off", "armed", "fired"}
  /\ reloadReq \in Seq(SUBSET Scripts) /\ Len(reloadReq) <= ReloadCap

WatchInit ==
  /\ disk \in Directory
  /\ changes = 0 /\ overflows = 0
  /\ fsq = <<>> /\ watchErr = FALSE /\ watching = "unborn"
  /\ changed = {} /\ timer = "off" /\ reloadReq = <<>>

-----------------------------------------------------------------------------
(* The file system.  watcher.Add precedes everything else Run does. *)

SomeChange ==
  /\ changes < MaxChanges /\ changes' = changes + 1
  /\ UNCHANGED <<watching, changed, timer, reloadReq>>

(* A script file is created, written or removed, with an event for it. *)
Modify(p, c) ==
  /\ SomeChange
  /\ disk[p] # c /\ disk' = [disk EXCEPT ![p] = c]
  /\ fsq' = Append(fsq, p)
  /\ UNCHANGED <<overflows, watchErr>>

(* Another file of the directory changes. *)
TouchOther ==
  /\ SomeChange
  /\ fsq' = Append(fsq, None)
  /\ UNCHANGED <<disk, overflows, watchErr>>

(* A script file changes while the kernel's event queue is full: there is no
   event for it, only an overflow error. *)
ModifyUnseen(p, c) ==
  /\ SomeChange
  /\ overflows < MaxOverflows /\ overflows' = overflows + 1
  /\ disk[p] # c /\ disk' = [disk EXCEPT ![p] = c]
  /\ watchErr' = TRUE
  /\ UNCHANGED fsq

-----------------------------------------------------------------------------
(* The goroutine of watchLoop: one action per branch of its select *)

Watching == watching = "running" /\ UNCHANGED <<disk, changes, overflows>>

(* resetTimer: whatever the timer was doing, it starts anew. *)
ResetTimer == timer' = "armed"

(* <-ctx.Done() *)
WatchStop ==
  /\ Watching /\ cancelled
  /\ watching' = "stopped"
  /\ UNCHANGED <<fsq, watchErr, changed, timer, reloadReq>>

(* <-d.watcher.Errors: the error is logged. *)
WatchError ==
  /\ Watching /\ watchErr
  /\ watchErr' = FALSE
  /\ UNCHANGED <<fsq, watching, changed, timer, reloadReq>>

(* Mutant: the timer is not started. *)
FsEventWithoutTimer ==
  /\ Watching /\ fsq # <<>> /\ Head(fsq) # None
  /\ fsq' = Tail(fsq) /\ changed' = changed \cup {Head(fsq)}
  /\ UNCHANGED <<watchErr, watching, timer, reloadReq>>

(* <-d.watcher.Events for a script: remember the path, restart the debounce. *)
FsScriptEvent ==
  /\ Watching /\ fsq # <<>> /\ Head(fsq) # None
  /\ fsq' = Tail(fsq) /\ changed' = changed \cup {Head(fsq)} /\ ResetTimer
  /\ UNCHANGED <<watchErr, watching, reloadReq>>

(* <-d.watcher.Events for another file *)
FsOtherEvent ==
  /\ Watching /\ fsq # <<>> /\ Head(fsq) = None
  /\ fsq' = Tail(fsq)
  /\ UNCHANGED <<watchErr, watching, changed, timer, reloadReq>>

(* The debounce interval passes. *)
TimerExpires ==
  /\ timer = "armed" /\ timer' = "fired"
  /\ UNCHANGED <<disk, changes, overflows, fsq, watchErr, watching, changed,
                 reloadReq>>

(* Mutant: the capacity is off by one. *)
QueueReloadOneMore ==
  /\ Watching /\ timer = "fired" /\ changed # {} /\ Len(reloadReq) <= ReloadCap
  /\ reloadReq' = Append(reloadReq, changed) /\ changed' = {} /\ timer' = "off"
  /\ UNCHANGED <<fsq, watchErr, watching>>

(* <-timerCh, and reloadReq has room.  (With nothing changed the branch does
   nothing; PendingHasTimer shows that the timer never runs then.) *)
QueueReload ==
  /\ Watching /\ timer = "fired" /\ changed # {} /\ Len(reloadReq) < ReloadCap
  /\ reloadReq' = Append(reloadReq, changed) /\ changed' = {} /\ timer' = "off"
  /\ UNCHANGED <<fsq, watchErr, watching>>

(* Mutants: the set is cleared although it was not sent; no new timer. *)
RetryCleared ==
  /\ Watching /\ timer = "fired" /\ changed # {} /\ Len(reloadReq) = ReloadCap
  /\ changed' = {} /\ timer' = "off"
  /\ UNCHANGED <<fsq, watchErr, watching, reloadReq>>
RetryWithoutTimer ==
  /\ Watching /\ timer = "fired" /\ changed # {} /\ Len(reloadReq) = ReloadCap
  /\ timer' = "off"
  /\ UNCHANGED <<fsq, watchErr, watching, changed, reloadReq>>

(* <-timerCh, and reloadReq is full: keep the set and try again later. *)
RetryReload ==
  /\ Watching /\ timer = "fired" /\ changed # {} /\ Len(reloadReq) = ReloadCap
  /\ ResetTimer
  /\ UNCHANGED <<fsq, watchErr, watching, changed, reloadReq>>

FileStep ==
  \/ \E p \in Scripts, c \in Contents \cup {None} : Modify(p, c) \/ ModifyUnseen(p, c)
  \/ TouchOther

WatchStep ==
  \/ WatchStop \/ WatchError \/ FsScriptEvent \/ FsOtherEvent
  \/ TimerExpires \/ QueueReload \/ RetryReload
=============================================================================
