------------------------------- MODULE Daemon -------------------------------
(***************************************************************************)
(* The daemon: the main goroutine of Daemon.Run with the two goroutines it *)
(* starts.  It connects to i3 with retries, loads the scripts, and then    *)
(* selects between shutdown, events, the receiver's error and reload       *)
(* requests; dispatching an event and reloading run on this goroutine, so  *)
(* nothing else is selected meanwhile.  The deferred calls of Run close    *)
(* the receiver and wait for its goroutine.                                *)
(*                                                                         *)
(*   i3 --wire--> receiveEvents --eventIn,eventErr--> main                 *)
(*   files --fsq--> watchLoop --reloadReq--> main --> reg                  *)
(***************************************************************************)
EXTENDS EventReceiver, WatchLoop

CONSTANT MaxAttempts   \* connection attempts at startup (15 in the code)

ASSUME DaemonAssumption ==
  /\ MaxAttempts \in Nat \ {0}
  /\ None \notin Event

VARIABLES
  main,      \* control state of the main goroutine
  attempt,   \* number of the current connection attempt
  reg,       \* the registry dispatch uses: d.reg
  todo,      \* reload: globbed files not loaded yet
  newReg,    \* reload: the registry under construction
  cur,       \* dispatch: the event, kept until the next dispatch
  left,      \* dispatch: scripts whose handler has not been called
  ran,       \* dispatch: scripts whose handler was called, in order
  result     \* what Run returns: "none" so far, "clean" (nil) or "error"

mainVars == <<main, attempt, reg, todo, newReg, cur, left, ran, result>>
vars == <<cancelled, receiverVars, watchVars, mainVars>>

loadVars == <<reg, todo, newReg>>
dispatchVars == <<cur, left, ran>>

MainTypeOK ==
  /\ main \in {"connect", "backoff", "glob", "load", "select", "dispatch",
               "close", "join", "exited"}
  /\ attempt \in 1..MaxAttempts
  /\ reg \in Directory /\ newReg \in Directory
  /\ todo \subseteq Scripts
  /\ cur \in Event \cup {None}
  /\ left \subseteq Scripts /\ ran \in Seq(Scripts)
  /\ result \in {"none", "clean", "error"}

(* Every variable holds a value of its Go type, and each channel at most as
   many elements as its capacity (daemon.go:95-96, 116). *)
TypeOK ==
  /\ cancelled \in BOOLEAN
  /\ ReceiverTypeOK /\ WatchTypeOK /\ MainTypeOK

(* Run has added the watcher and starts connecting; reg is empty. *)
MainInit ==
  /\ main = "connect" /\ attempt = 1
  /\ reg = NoScripts /\ todo = {} /\ newReg = NoScripts
  /\ cur = None /\ left = {} /\ ran = <<>> /\ result = "none"

Init == ContextInit /\ ReceiverInit /\ WatchInit /\ MainInit

-----------------------------------------------------------------------------
(* initI3Client *)

ConnectOK ==
  /\ main = "connect" /\ main' = "glob"
  /\ UNCHANGED <<cancelled, receiverVars, watchVars, attempt, loadVars, dispatchVars, result>>

(* No candidate socket answers; after the last attempt Run fails. *)
ConnectFail ==
  /\ main = "connect"
  /\ IF attempt = MaxAttempts THEN main' = "exited" /\ result' = "error"
                              ELSE main' = "backoff" /\ UNCHANGED result
  /\ UNCHANGED <<cancelled, receiverVars, watchVars, attempt, loadVars, dispatchVars>>

BackoffDone ==
  /\ main = "backoff" /\ main' = "connect" /\ attempt' = attempt + 1
  /\ UNCHANGED <<cancelled, receiverVars, watchVars, loadVars, dispatchVars, result>>

(* A shutdown during the back-off makes Run return the context's error. *)
BackoffCancelled ==
  /\ main = "backoff" /\ cancelled
  /\ main' = "exited" /\ result' = "error"
  /\ UNCHANGED <<cancelled, receiverVars, watchVars, attempt, loadVars, dispatchVars>>

-----------------------------------------------------------------------------
(* reload and LoadAll *)

(* The files to load are listed; a fresh registry is built for them. *)
StartLoad ==
  /\ main = "glob" /\ main' = "load"
  /\ todo' = Glob(disk) /\ newReg' = NoScripts
  /\ UNCHANGED <<cancelled, receiverVars, watchVars, attempt, reg, dispatchVars, result>>

(* loadOne for the next file in order, as the file is now. *)
LoadScript ==
  /\ main = "load"
  /\ \E p \in todo :
       /\ \A q \in todo : p <= q
       /\ todo' = todo \ {p}
       /\ \E s \in Outcomes(disk[p]) : newReg' = [newReg EXCEPT ![p] = s]
  /\ UNCHANGED <<cancelled, receiverVars, watchVars, main, attempt, reg, dispatchVars, result>>

(* The registry is stored.  After the initial load Run starts the receiver
   and the watch loop before it enters its select loop. *)
FinishLoad ==
  /\ main = "load" /\ todo = {}
  /\ main' = "select" /\ reg' = newReg
  /\ rcv' = IF rcv = "unborn" THEN "next" ELSE rcv
  /\ watching' = IF watching = "unborn" THEN "running" ELSE watching
  /\ UNCHANGED <<cancelled, sent, breaks, link, wire, closed, hand, eventIn, eventErr,
                 disk, changes, overflows, fsq, watchErr, changed, timer, reloadReq,
                 attempt, todo, newReg, dispatchVars, result>>

-----------------------------------------------------------------------------
(* The select loop and dispatch *)

SelectReload ==
  /\ main = "select" /\ reloadReq # <<>>
  /\ main' = "glob" /\ reloadReq' = Tail(reloadReq)
  /\ UNCHANGED <<cancelled, receiverVars, disk, changes, overflows, fsq, watchErr,
                 watching, changed, timer, attempt, loadVars, dispatchVars, result>>

(* An event is received and dispatch looks its handlers up. *)
SelectEvent ==
  /\ main = "select" /\ eventIn # <<>>
  /\ main' = "dispatch" /\ cur' = Head(eventIn) /\ eventIn' = Tail(eventIn)
  /\ left' = HandlersFor(reg, Head(eventIn).type) /\ ran' = <<>>
  /\ UNCHANGED <<cancelled, sent, breaks, link, wire, closed, rcv, hand, eventErr,
                 watchVars, attempt, loadVars, result>>

(* Mutant: the first failing handler ends the loop. *)
AbortOnFailure(rest, p, failed) == IF failed THEN {} ELSE rest \ {p}

(* The handlers still to call after p's returned or failed: an error is only
   logged, so it makes no difference. *)
AfterHandler(rest, p, failed) == rest \ {p}

(* The next handler in the registry's order is called. *)
RunHandler ==
  /\ main = "dispatch"
  /\ \E p \in left, failed \in BOOLEAN :
       /\ \A q \in left \ {p} : Before(reg, p, q)
       /\ left' = AfterHandler(left, p, failed)
       /\ ran' = Append(ran, p)
  /\ UNCHANGED <<cancelled, receiverVars, watchVars, main, attempt, loadVars, cur, result>>

EndDispatch ==
  /\ main = "dispatch" /\ left = {}
  /\ main' = "select"
  /\ UNCHANGED <<cancelled, receiverVars, watchVars, attempt, loadVars, dispatchVars, result>>

-----------------------------------------------------------------------------
(* Leaving Run *)

SelectDone ==
  /\ main = "select" /\ cancelled
  /\ main' = "close" /\ result' = "clean"
  /\ UNCHANGED <<cancelled, receiverVars, watchVars, attempt, loadVars, dispatchVars>>

SelectErr ==
  /\ main = "select" /\ eventErr # <<>>
  /\ main' = "close" /\ result' = "error" /\ eventErr' = Tail(eventErr)
  /\ UNCHANGED <<cancelled, sent, breaks, link, wire, closed, rcv, hand, eventIn,
                 watchVars, attempt, loadVars, dispatchVars>>

(* Mutant: Run waits for the goroutine without closing the receiver. *)
JoinWithoutClose ==
  /\ main = "close" /\ main' = "join"
  /\ UNCHANGED <<cancelled, receiverVars, watchVars, attempt, loadVars, dispatchVars, result>>

(* The deferred receiver.Close() ... *)
CloseReceiver ==
  /\ main = "close" /\ main' = "join" /\ closed' = TRUE
  /\ UNCHANGED <<cancelled, sent, breaks, link, wire, rcv, hand, eventIn, eventErr,
                 watchVars, attempt, loadVars, dispatchVars, result>>

(* ... and <-eventDone; then the process ends with the remaining goroutines. *)
Join ==
  /\ main = "join" /\ rcv = "done"
  /\ main' = "exited"
  /\ UNCHANGED <<cancelled, receiverVars, watchVars, attempt, loadVars, dispatchVars, result>>

-----------------------------------------------------------------------------
(* Specification *)

Running == main # "exited"

MainStep ==
  \/ ConnectOK \/ ConnectFail \/ BackoffDone \/ BackoffCancelled
  \/ StartLoad \/ LoadScript \/ FinishLoad
  \/ SelectReload \/ SelectEvent \/ RunHandler \/ EndDispatch
  \/ SelectDone \/ SelectErr \/ CloseReceiver \/ Join

ReceiverNext ==
  /\ Running /\ (SocketStep \/ ReceiverStep)
  /\ UNCHANGED <<cancelled, watchVars, mainVars>>

WatchNext ==
  /\ Running /\ (FileStep \/ WatchStep)
  /\ UNCHANGED <<cancelled, receiverVars, mainVars>>

Signal == Running /\ Cancel /\ UNCHANGED <<receiverVars, watchVars, mainVars>>

Terminated == main = "exited" /\ UNCHANGED vars

Next == MainStep \/ ReceiverNext \/ WatchNext \/ Signal \/ Terminated

Spec == Init /\ [][Next]_vars

(* The receiver goroutine and go-i3 keep running: a blocked Next returns once
   there is an event, the receiver is closed, or reconnecting succeeded or was
   given up. *)
ReceiverRuns == Running /\ ReceiverStep /\ UNCHANGED <<cancelled, watchVars, mainVars>>

(* The watchLoop goroutine runs and its timer expires. *)
WatchRuns == Running /\ WatchStep /\ UNCHANGED <<cancelled, receiverVars, mainVars>>
TimerRuns == Running /\ TimerExpires /\ UNCHANGED <<cancelled, receiverVars, mainVars>>

ReceiverFairness == WF_vars(ReceiverRuns)

WatchFairness == WF_vars(WatchRuns) /\ WF_vars(TimerRuns)

(* The main goroutine runs, handlers and init() end (their steps and their time
   are limited), a script's top level ends (nothing limits it, loader.go:87, so
   this is assumed), and select chooses at random among the ready branches, so
   that a branch that is ready again and again is taken. *)
MainFairness ==
  /\ WF_vars(MainStep)
  /\ SF_vars(SelectDone) /\ SF_vars(SelectErr)
  /\ SF_vars(SelectReload) /\ SF_vars(SelectEvent)

(* What the checks of liveness assume from the start: main may be stuck in a
   handler for ever.  The properties that need more of main and of the watch
   loop say so. *)
ReceiverFairSpec == Spec /\ ReceiverFairness
=============================================================================
