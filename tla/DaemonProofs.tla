---------------------------- MODULE DaemonProofs ----------------------------
(***************************************************************************)
(* Proofs that every reachable state of the daemon, for all values of the  *)
(* constants, satisfies TypeOK and the safety properties of                *)
(* DaemonProperties, and that its event path implements LossyFifo.         *)
(***************************************************************************)
EXTENDS DaemonProperties, SequenceTheorems, TLAPS

(* A one-element tuple is a sequence. *)
LEMMA SingletonSeq ==
  ASSUME NEW S, NEW e \in S
  PROVE  <<e>> \in Seq(S) /\ Len(<<e>>) = 1
OBVIOUS

-----------------------------------------------------------------------------
(* Type correctness *)

(* A waiting connection attempt is not the last one. *)
AttemptLeft == main = "backoff" => attempt < MaxAttempts

(* TypeOK is inductive together with AttemptLeft. *)
TypeInv == TypeOK /\ AttemptLeft

(* The socket and the receiver keep their types. *)
LEMMA ReceiverTypes ==
  ASSUME TypeInv, ReceiverNext
  PROVE  TypeInv'
<1> USE ReceiverAssumption DEF TypeInv, TypeOK, AttemptLeft, ReceiverTypeOK, Event, mainVars, watchVars
<1>1. MainTypeOK' /\ WatchTypeOK' /\ AttemptLeft' /\ cancelled' \in BOOLEAN
  BY DEF ReceiverNext, MainTypeOK, WatchTypeOK, Directory
<1>2. SUFFICES ReceiverTypeOK'
  BY <1>1
<1>3. ASSUME NEW t \in EventTypes, Emit(t) PROVE ReceiverTypeOK'
  <2>1. sent' \in Nat /\ [seq |-> sent', type |-> t] \in Event
    BY <1>3 DEF Emit
  <2> QED BY <1>3, <2>1 DEF Emit
<1>4. CASE BreakLink
  <2>1. ASSUME NEW n \in 0..Len(wire) PROVE SubSeq(wire, 1, n) \in Seq(Event)
    <3>1. \A i \in 1..n : wire[i] \in Event
      <4> TAKE i \in 1..n
      <4>1. i \in 1..Len(wire)
        OBVIOUS
      <4> QED BY <4>1, ElementOfSeq
    <3> QED BY <3>1, SubSeqProperties
  <2> QED BY <1>4, <2>1 DEF BreakLink
<1>5. CASE Subscribe
  BY <1>5 DEF Subscribe
<1>6. CASE NextEvent
  <2>1. Head(wire) \in Event /\ Tail(wire) \in Seq(Event)
    BY <1>6, HeadTailProperties DEF NextEvent
  <2>2. <<Head(wire)>> \in Seq(Event) /\ Len(<<Head(wire)>>) = 1
    BY <2>1, SingletonSeq
  <2>3. wire' \in Seq(Event) /\ hand' \in Seq(Event) /\ Len(hand') = 1
    BY <1>6, <2>1, <2>2 DEF NextEvent
  <2> QED BY <1>6, <2>3 DEF NextEvent
<1>7. CASE NextClosed
  BY <1>7 DEF NextClosed
<1>8. CASE GiveUp
  BY <1>8 DEF GiveUp
<1>9. CASE OfferSend
  BY <1>9 DEF OfferSend
<1>10. CASE OfferDrop
  BY <1>10 DEF OfferDrop
<1>11. CASE Report
  BY <1>11 DEF Report
<1>12. CASE SendErr
  BY <1>12 DEF SendErr
<1>13. CASE SendErrCancelled
  BY <1>13 DEF SendErrCancelled
<1> QED
  BY <1>3, <1>4, <1>5, <1>6, <1>7, <1>8, <1>9, <1>10, <1>11, <1>12, <1>13
     DEF ReceiverNext, SocketStep, ReceiverStep

(* The file system and the watch loop keep their types. *)
LEMMA WatchTypes ==
  ASSUME TypeInv, WatchNext
  PROVE  TypeInv'
<1> USE WatchAssumption, RegistryAssumption
    DEF TypeInv, TypeOK, AttemptLeft, WatchTypeOK, Directory, Watching, ResetTimer
<1>1. MainTypeOK' /\ ReceiverTypeOK' /\ AttemptLeft' /\ cancelled' \in BOOLEAN
  BY DEF WatchNext, MainTypeOK, ReceiverTypeOK, mainVars, receiverVars
<1>2. SUFFICES WatchTypeOK'
  BY <1>1
<1>3. ASSUME NEW p \in Scripts, NEW c \in Contents \cup {None}, Modify(p, c)
      PROVE  WatchTypeOK'
  BY <1>3 DEF Modify, SomeChange
<1>4. ASSUME NEW p \in Scripts, NEW c \in Contents \cup {None}, ModifyUnseen(p, c)
      PROVE  WatchTypeOK'
  BY <1>4 DEF ModifyUnseen, SomeChange
<1>5. CASE TouchOther
  BY <1>5 DEF TouchOther, SomeChange
<1>6. CASE WatchStop
  BY <1>6 DEF WatchStop
<1>7. CASE WatchError
  BY <1>7 DEF WatchError
<1>8. CASE FsScriptEvent
  <2>1. Head(fsq) \in Scripts /\ Tail(fsq) \in Seq(Scripts \cup {None})
    BY <1>8, HeadTailProperties DEF FsScriptEvent
  <2> QED BY <1>8, <2>1 DEF FsScriptEvent
<1>9. CASE FsOtherEvent
  BY <1>9 DEF FsOtherEvent
<1>10. CASE TimerExpires
  BY <1>10 DEF TimerExpires
<1>11. CASE QueueReload
  BY <1>11 DEF QueueReload
<1>12. CASE RetryReload
  BY <1>12 DEF RetryReload
<1> QED
  BY <1>3, <1>4, <1>5, <1>6, <1>7, <1>8, <1>9, <1>10, <1>11, <1>12
     DEF WatchNext, FileStep, WatchStep

(* The main goroutine keeps its types. *)
LEMMA MainTypes ==
  ASSUME TypeInv, MainStep
  PROVE  TypeInv'
<1> USE DaemonAssumption, RegistryAssumption
    DEF TypeInv, TypeOK, AttemptLeft, MainTypeOK, ReceiverTypeOK, WatchTypeOK, Directory, receiverVars,
        watchVars, loadVars, dispatchVars
<1>1. CASE ConnectOK
  BY <1>1 DEF ConnectOK
<1>2. CASE ConnectFail
  BY <1>2 DEF ConnectFail
<1>3. CASE BackoffDone
  BY <1>3 DEF BackoffDone
<1>4. CASE BackoffCancelled
  BY <1>4 DEF BackoffCancelled
<1>5. CASE StartLoad
  BY <1>5 DEF StartLoad, Glob, NoScripts
<1>6. CASE LoadScript
  BY <1>6 DEF LoadScript, Outcomes
<1>7. CASE FinishLoad
  BY <1>7 DEF FinishLoad
<1>8. CASE SelectReload
  <2>1. /\ Tail(reloadReq) \in Seq(SUBSET Scripts)
        /\ Len(Tail(reloadReq)) = Len(reloadReq) - 1
    BY <1>8, HeadTailProperties DEF SelectReload
  <2>2. reloadReq' \in Seq(SUBSET Scripts) /\ Len(reloadReq') <= ReloadCap
    BY <1>8, <2>1, WatchAssumption DEF SelectReload
  <2> QED BY <1>8, <2>2 DEF SelectReload
<1>9. CASE SelectEvent
  <2>1. /\ Head(eventIn) \in Event /\ Tail(eventIn) \in Seq(Event)
        /\ Len(Tail(eventIn)) = Len(eventIn) - 1
    BY <1>9, HeadTailProperties DEF SelectEvent
  <2>2. eventIn' \in Seq(Event) /\ Len(eventIn') <= QueueCap
    BY <1>9, <2>1, ReceiverAssumption DEF SelectEvent
  <2> QED BY <1>9, <2>1, <2>2 DEF SelectEvent, HandlersFor
<1>10. CASE RunHandler
  BY <1>10 DEF RunHandler, AfterHandler
<1>11. CASE EndDispatch
  BY <1>11 DEF EndDispatch
<1>12. CASE SelectDone
  BY <1>12 DEF SelectDone
<1>13. CASE SelectErr
  <2>1. /\ Tail(eventErr) \in Seq({"error"})
        /\ Len(Tail(eventErr)) = Len(eventErr) - 1
    BY <1>13, HeadTailProperties DEF SelectErr
  <2>2. eventErr' \in Seq({"error"}) /\ Len(eventErr') <= ErrCap
    BY <1>13, <2>1, ReceiverAssumption DEF SelectErr
  <2> QED BY <1>13, <2>2 DEF SelectErr
<1>14. CASE CloseReceiver
  BY <1>14 DEF CloseReceiver
<1>15. CASE Join
  BY <1>15 DEF Join
<1> QED
  BY <1>1, <1>2, <1>3, <1>4, <1>5, <1>6, <1>7, <1>8, <1>9, <1>10, <1>11, <1>12,
     <1>13, <1>14, <1>15 DEF MainStep

LEMMA TypeInvariant == Spec => []TypeInv
<1>1. Init => TypeInv
  <2> SUFFICES ASSUME Init PROVE TypeInv
    OBVIOUS
  <2>1. ReceiverTypeOK
    <3>1. /\ wire \in Seq(Event) /\ hand \in Seq(Event) /\ eventIn \in Seq(Event)
          /\ eventErr \in Seq({"error"})
      BY DEF Init, ReceiverInit
    <3>2. Len(hand) <= 1 /\ Len(eventIn) <= QueueCap /\ Len(eventErr) <= ErrCap
      BY ReceiverAssumption DEF Init, ReceiverInit
    <3> QED BY <3>1, <3>2 DEF Init, ReceiverInit, ReceiverTypeOK
  <2>2. WatchTypeOK
    <3>1. fsq \in Seq(Scripts \cup {None}) /\ reloadReq \in Seq(SUBSET Scripts)
      BY DEF Init, WatchInit
    <3>2. Len(reloadReq) <= ReloadCap
      BY WatchAssumption DEF Init, WatchInit
    <3> QED BY <3>1, <3>2 DEF Init, WatchInit, WatchTypeOK
  <2>3. MainTypeOK
    BY DaemonAssumption DEF Init, MainInit, MainTypeOK, Directory, NoScripts
  <2>4. TypeOK
    BY <2>1, <2>2, <2>3 DEF Init, ContextInit, TypeOK
  <2> QED BY <2>4 DEF TypeInv, AttemptLeft, Init, MainInit
<1>2. TypeInv /\ [Next]_vars => TypeInv'
  <2> SUFFICES ASSUME TypeInv, [Next]_vars PROVE TypeInv'
    OBVIOUS
  <2>1. CASE Signal
    BY <2>1 DEF Signal, Cancel, TypeInv, TypeOK, AttemptLeft, ReceiverTypeOK, WatchTypeOK,
                MainTypeOK, Directory, receiverVars, watchVars, mainVars
  <2>2. CASE UNCHANGED vars
    BY <2>2 DEF vars, TypeInv, TypeOK, AttemptLeft, ReceiverTypeOK, WatchTypeOK,
                MainTypeOK, Directory, receiverVars, watchVars, mainVars
  <2> QED
    BY <2>1, <2>2, ReceiverTypes, WatchTypes, MainTypes DEF Next, Terminated
<1> QED BY <1>1, <1>2, PTL DEF Spec

(* Every variable keeps its type and every channel its bound. *)
THEOREM TypeCorrect == Spec => []TypeOK
<1>1. TypeInv => TypeOK
  BY DEF TypeInv
<1> QED BY <1>1, TypeInvariant, PTL

-----------------------------------------------------------------------------
(* The watch loop's timer *)

(* PendingHasTimer is inductive: only the watch loop touches changed, and it
   never does so without the timer. *)
THEOREM TimerTheorem == Spec => []PendingHasTimer
<1>1. Init => PendingHasTimer
  BY DEF Init, WatchInit, PendingHasTimer
<1>2. PendingHasTimer /\ [Next]_vars => PendingHasTimer'
  <2> SUFFICES ASSUME PendingHasTimer, [Next]_vars PROVE PendingHasTimer'
    OBVIOUS
  <2> USE DEF PendingHasTimer, Watching, ResetTimer
  <2>1. CASE UNCHANGED <<changed, timer>>
    BY <2>1
  <2>2. CASE WatchNext
    <3>1. ASSUME FileStep PROVE UNCHANGED <<changed, timer>>
      BY <3>1 DEF FileStep, Modify, ModifyUnseen, TouchOther, SomeChange
    <3> QED
      BY <2>1, <2>2, <3>1
         DEF WatchNext, WatchStep, WatchStop, WatchError, FsScriptEvent, FsOtherEvent,
             TimerExpires, QueueReload, RetryReload
  <2>3. ASSUME MainStep PROVE UNCHANGED <<changed, timer>>
    BY <2>3 DEF MainStep, ConnectOK, ConnectFail, BackoffDone, BackoffCancelled, StartLoad,
                LoadScript, FinishLoad, SelectReload, SelectEvent, RunHandler, EndDispatch,
                SelectDone, SelectErr, CloseReceiver, Join, watchVars
  <2>4. ASSUME ReceiverNext \/ Signal \/ UNCHANGED vars PROVE UNCHANGED <<changed, timer>>
    BY <2>4 DEF ReceiverNext, Signal, vars, watchVars
  <2> QED BY <2>1, <2>2, <2>3, <2>4 DEF Next, Terminated
<1> QED BY <1>1, <1>2, PTL DEF Spec

-----------------------------------------------------------------------------
(* Changes and reloads *)

(* The conclusion of NoForgottenChange for one file, and when it is due *)
Covered(p) == Pending(p) \/ UpToDate(p)
Due == overflows = 0 /\ result = "none" /\ main \notin {"connect", "backoff"}

(* The elements of a longer and of a shorter sequence *)
LEMMA IsInAppend ==
  ASSUME NEW S, NEW s \in Seq(S), NEW e \in S, NEW x
  PROVE  IsIn(x, Append(s, e)) <=> IsIn(x, s) \/ x = e
<1>1. /\ Len(Append(s, e)) = Len(s) + 1 /\ Len(s) \in Nat
      /\ \A i \in 1..Len(s) : Append(s, e)[i] = s[i]
      /\ Append(s, e)[Len(s) + 1] = e
  BY AppendProperties, LenProperties
<1>2. ASSUME IsIn(x, Append(s, e)) PROVE IsIn(x, s) \/ x = e
  BY <1>1, <1>2 DEF IsIn
<1>3. ASSUME IsIn(x, s) PROVE IsIn(x, Append(s, e))
  BY <1>1, <1>3 DEF IsIn
<1>4. ASSUME x = e PROVE IsIn(x, Append(s, e))
  BY <1>1, <1>4 DEF IsIn
<1> QED BY <1>2, <1>3, <1>4

LEMMA IsInTail ==
  ASSUME NEW S, NEW s \in Seq(S), s # <<>>, NEW x
  PROVE  IsIn(x, s) <=> x = Head(s) \/ IsIn(x, Tail(s))
<1> DEFINE t == Tail(s)
<1>1. /\ Len(t) = Len(s) - 1 /\ Len(s) \in Nat \ {0} /\ Head(s) = s[1]
      /\ \A i \in 1..Len(t) : t[i] = s[i + 1]
  BY HeadTailProperties, EmptySeq, LenProperties
<1> HIDE DEF t
<1>2. ASSUME IsIn(x, s) PROVE x = Head(s) \/ IsIn(x, t)
  <2>1. PICK i \in 1..Len(s) : s[i] = x
    BY <1>2 DEF IsIn
  <2>2. CASE i = 1
    BY <2>1, <2>2, <1>1
  <2>3. CASE i # 1
    <3>1. i - 1 \in 1..Len(t) /\ t[i - 1] = s[(i - 1) + 1]
      BY <1>1, <2>3
    <3>2. (i - 1) + 1 = i
      BY <2>1
    <3> QED BY <3>1, <3>2, <2>1 DEF IsIn
  <2> QED BY <2>2, <2>3
<1>3. ASSUME IsIn(x, t) PROVE IsIn(x, s)
  <2>1. PICK i \in 1..Len(t) : t[i] = x
    BY <1>3 DEF IsIn
  <2>2. i + 1 \in 1..Len(s) /\ s[i + 1] = x
    BY <2>1, <1>1
  <2> QED BY <2>2 DEF IsIn
<1>4. ASSUME x = Head(s) PROVE IsIn(x, s)
  <2>1. 1 \in 1..Len(s) /\ s[1] = x
    BY <1>1, <1>4
  <2> QED BY <2>1 DEF IsIn
<1> QED BY <1>2, <1>3, <1>4 DEF t

(* Nothing that leaves the files, the watch loop and the reload alone matters. *)
LEMMA CoveredStutter ==
  ASSUME UNCHANGED <<watchVars, main, loadVars>>, NEW p \in Scripts, Covered(p)
  PROVE  Covered(p)'
BY DEF Covered, Pending, UpToDate, IsIn, watchVars, loadVars

(* The watch loop hands a change on without losing it. *)
LEMMA CoveredWatchLoop ==
  ASSUME TypeInv, WatchStep, UNCHANGED mainVars, NEW p \in Scripts, Covered(p)
  PROVE  Covered(p)'
<1> USE DEF Watching, ResetTimer
<1>0. UNCHANGED disk
  BY DEF WatchStep, WatchStop, WatchError, FsScriptEvent, FsOtherEvent, TimerExpires,
         QueueReload, RetryReload
<1>1. CASE UpToDate(p)
  BY <1>0, <1>1 DEF Covered, UpToDate, mainVars
<1>2. CASE Pending(p)
  <2> USE DEF Pending, Covered
  <2>1. CASE UNCHANGED <<fsq, changed, reloadReq>>
    BY <1>2, <2>1 DEF IsIn
  <2>2. CASE FsScriptEvent
    <3>1. IsIn(p, fsq) => p = Head(fsq) \/ IsIn(p, Tail(fsq))
      BY <2>2, IsInTail DEF FsScriptEvent, TypeInv, TypeOK, WatchTypeOK
    <3>2. IsIn(p, fsq) => p \in changed' \/ IsIn(p, fsq')
      BY <3>1, <2>2 DEF FsScriptEvent
    <3>3. changed \subseteq changed' /\ reloadReq' = reloadReq
      BY <2>2 DEF FsScriptEvent
    <3> QED BY <1>2, <3>2, <3>3 DEF IsIn
  <2>3. CASE FsOtherEvent
    <3>1. IsIn(p, fsq) => p = Head(fsq) \/ IsIn(p, Tail(fsq))
      BY <2>3, IsInTail DEF FsOtherEvent, TypeInv, TypeOK, WatchTypeOK
    <3>2. IsIn(p, fsq) => IsIn(p, fsq')
      BY <3>1, <2>3, RegistryAssumption DEF FsOtherEvent
    <3> QED BY <1>2, <2>3, <3>2 DEF FsOtherEvent, IsIn
  <2>4. CASE QueueReload
    <3>1. /\ Len(reloadReq) \in Nat /\ Len(reloadReq') = Len(reloadReq) + 1
          /\ \A i \in 1..Len(reloadReq) : reloadReq'[i] = reloadReq[i]
          /\ reloadReq'[Len(reloadReq) + 1] = changed
      BY <2>4, AppendProperties DEF QueueReload, TypeInv, TypeOK, WatchTypeOK
    <3>2. fsq' = fsq
      BY <2>4 DEF QueueReload
    <3> QED BY <1>2, <3>1, <3>2 DEF IsIn
  <2> QED
    BY <2>1, <2>2, <2>3, <2>4
       DEF WatchStep, WatchStop, WatchError, TimerExpires, RetryReload
<1> QED BY <1>1, <1>2 DEF Covered

(* A change of a file leaves an event behind. *)
LEMMA CoveredFiles ==
  ASSUME TypeInv, FileStep, UNCHANGED mainVars, overflows' = 0,
         NEW p \in Scripts, Covered(p)
  PROVE  Covered(p)'
<1> USE DEF TypeInv, TypeOK, WatchTypeOK
<1>1. ASSUME NEW q \in Scripts \cup {None}, fsq' = Append(fsq, q),
             UNCHANGED <<changed, reloadReq>>, p # q => disk'[p] = disk[p]
      PROVE  Covered(p)'
  <2>1. IsIn(p, fsq') <=> IsIn(p, fsq) \/ p = q
    BY <1>1, IsInAppend
  <2>2. CASE Pending(p) \/ p = q
    <3>1. Pending(p)'
      BY <1>1, <2>1, <2>2 DEF Pending, IsIn
    <3> QED BY <3>1 DEF Covered
  <2>3. CASE UpToDate(p) /\ p # q
    BY <1>1, <2>3 DEF Covered, UpToDate, mainVars
  <2> QED BY <2>2, <2>3 DEF Covered
<1>2. ASSUME NEW q \in Scripts, NEW c \in Contents \cup {None}, Modify(q, c)
      PROVE  Covered(p)'
  BY <1>1, <1>2 DEF Modify, SomeChange, Directory
<1>3. CASE TouchOther
  BY <1>1, <1>3 DEF TouchOther, SomeChange
<1>4. ASSUME NEW q \in Scripts, NEW c \in Contents \cup {None}, ModifyUnseen(q, c)
      PROVE  FALSE
  BY <1>4 DEF ModifyUnseen
<1> QED BY <1>2, <1>3, <1>4 DEF FileStep

(* A reload reads every file after it took the request. *)
LEMMA CoveredMain ==
  ASSUME TypeInv, MainStep, Due', Due => \A q \in Scripts : Covered(q),
         NEW p \in Scripts
  PROVE  Covered(p)'
<1> USE DEF Due
<1>1. CASE ConnectOK
  BY <1>1 DEF ConnectOK, Covered, UpToDate
<1>2. CASE ConnectFail \/ BackoffDone \/ BackoffCancelled
  BY <1>2 DEF ConnectFail, BackoffDone, BackoffCancelled
<1>3. CASE StartLoad
  <2>1. p \in todo' \/ newReg'[p] \in Outcomes(disk'[p])
    BY <1>3, RegistryAssumption
       DEF StartLoad, Glob, NoScripts, Outcomes, watchVars
  <2> QED BY <1>3, <2>1 DEF StartLoad, Covered, UpToDate
<1>4. CASE LoadScript
  <2>1. Covered(p)
    BY <1>4 DEF LoadScript, watchVars
  <2>2. CASE Pending(p)
    BY <1>4, <2>2 DEF LoadScript, Covered, Pending, IsIn, watchVars
  <2>3. CASE UpToDate(p)
    BY <1>4, <2>3 DEF LoadScript, Covered, UpToDate, watchVars, TypeInv, TypeOK,
                      MainTypeOK, Directory
  <2> QED BY <2>1, <2>2, <2>3 DEF Covered
<1>5. CASE FinishLoad
  <2>1. Covered(p)
    BY <1>5 DEF FinishLoad
  <2>2. CASE Pending(p)
    BY <1>5, <2>2 DEF FinishLoad, Covered, Pending, IsIn
  <2>3. CASE UpToDate(p)
    BY <1>5, <2>3 DEF FinishLoad, Covered, UpToDate
  <2> QED BY <2>1, <2>2, <2>3 DEF Covered
<1>6. CASE SelectReload
  BY <1>6 DEF SelectReload, Covered, UpToDate
<1>7. CASE RunHandler
  BY <1>7, CoveredStutter DEF RunHandler, watchVars
<1>8. CASE SelectEvent \/ EndDispatch
  <2>1. Covered(p) /\ UNCHANGED <<watchVars, loadVars>> /\ {main, main'} \subseteq {"select", "dispatch"}
    BY <1>8 DEF SelectEvent, EndDispatch, watchVars
  <2> QED BY <2>1 DEF Covered, Pending, UpToDate, IsIn, watchVars, loadVars
<1>9. CASE SelectDone \/ SelectErr
  BY <1>9 DEF SelectDone, SelectErr
<1>10. CASE CloseReceiver \/ Join
  <2>1. /\ Covered(p) /\ UNCHANGED <<watchVars, loadVars>>
        /\ {main, main'} \subseteq {"close", "join", "exited"}
    BY <1>10 DEF CloseReceiver, Join, watchVars
  <2> QED BY <2>1 DEF Covered, Pending, UpToDate, IsIn, watchVars, loadVars
<1> QED
  BY <1>1, <1>2, <1>3, <1>4, <1>5, <1>6, <1>7, <1>8, <1>9, <1>10 DEF MainStep

(* No change of a file is forgotten, as long as the watcher reports all. *)
THEOREM ChangesTheorem == Spec => []NoForgottenChange
<1>1. Init => NoForgottenChange
  BY DEF Init, MainInit, NoForgottenChange
<1>2. TypeInv /\ NoForgottenChange /\ [Next]_vars => NoForgottenChange'
  <2> SUFFICES ASSUME TypeInv, NoForgottenChange, [Next]_vars, Due', NEW p \in Scripts
               PROVE  Covered(p)'
    BY DEF NoForgottenChange, Due, Covered
  <2>1. Due => \A q \in Scripts : Covered(q)
    BY DEF NoForgottenChange, Due, Covered
  <2>2. CASE MainStep
    BY <2>1, <2>2, CoveredMain
  <2>3. CASE WatchNext
    <3>1. overflows = 0
      BY <2>3 DEF WatchNext, FileStep, Modify, ModifyUnseen, TouchOther, WatchStep, WatchStop,
                  WatchError, FsScriptEvent, FsOtherEvent, TimerExpires, QueueReload,
                  RetryReload, Watching, Due, TypeInv, TypeOK, WatchTypeOK
    <3>2. Covered(p)
      BY <2>1, <2>3, <3>1 DEF WatchNext, Due, mainVars
    <3> QED BY <2>3, <3>2, CoveredFiles, CoveredWatchLoop DEF WatchNext, Due
  <2>4. CASE ReceiverNext \/ Signal \/ UNCHANGED vars
    <3>1. UNCHANGED <<watchVars, mainVars>>
      BY <2>4 DEF ReceiverNext, Signal, vars
    <3>2. Covered(p)
      BY <2>1, <3>1 DEF Due, watchVars, mainVars
    <3> QED BY <3>1, <3>2, CoveredStutter DEF mainVars, loadVars
  <2> QED BY <2>2, <2>3, <2>4 DEF Next, Terminated
<1> QED BY <1>1, <1>2, TypeInvariant, PTL DEF Spec

-----------------------------------------------------------------------------
(* Dispatch *)

(* Each call moves the first of the remaining handlers to the called ones. *)
LEMMA DispatchRun ==
  ASSUME TypeInv, DispatchComplete, RunHandler
  PROVE  DispatchComplete'
<1> USE DEF TypeInv, TypeOK, MainTypeOK
<1>1. PICK p \in left : /\ \A q \in left \ {p} : Before(reg, p, q)
                        /\ left' = left \ {p} /\ ran' = Append(ran, p)
  BY DEF RunHandler, AfterHandler
<1>2. main = "dispatch" /\ main' = main /\ cur' = cur /\ reg' = reg
  BY DEF RunHandler, loadVars
<1>3. /\ Len(ran) \in Nat /\ Len(ran') = Len(ran) + 1 /\ ran'[Len(ran) + 1] = p
      /\ \A i \in 1..Len(ran) : ran'[i] = ran[i]
  BY <1>1, AppendProperties, LenProperties
<1>4. \A q \in Scripts : q \in HandlersFor(reg, cur.type) <=> q \in left' \/ IsIn(q, ran')
  <2>1. \A q : IsIn(q, ran') <=> IsIn(q, ran) \/ q = p
    BY <1>1, IsInAppend
  <2> QED BY <1>1, <1>2, <2>1 DEF DispatchComplete
<1>5. \A i, j \in 1..Len(ran') : i < j => Before(reg, ran'[i], ran'[j])
  BY <1>1, <1>2, <1>3 DEF DispatchComplete
<1>6. \A i \in 1..Len(ran'), q \in left' : Before(reg, ran'[i], q)
  <2> SUFFICES ASSUME NEW i \in 1..Len(ran'), NEW q \in left'
               PROVE  Before(reg, ran'[i], q)
    OBVIOUS
  <2>1. CASE i \in 1..Len(ran)
    BY <1>1, <1>2, <1>3, <2>1 DEF DispatchComplete
  <2>2. CASE i = Len(ran) + 1
    BY <1>1, <1>3, <2>2
  <2> QED BY <1>3, <2>1, <2>2
<1> QED BY <1>2, <1>4, <1>5, <1>6 DEF DispatchComplete, HandlersFor, Before

(* All handlers of the event, in the order of priority and file name. *)
THEOREM DispatchTheorem == Spec => []DispatchComplete
<1>1. Init => DispatchComplete
  BY DEF Init, MainInit, DispatchComplete
<1>2. TypeInv /\ DispatchComplete /\ [Next]_vars => DispatchComplete'
  <2> SUFFICES ASSUME TypeInv, DispatchComplete, [Next]_vars PROVE DispatchComplete'
    OBVIOUS
  <2>1. CASE SelectEvent
    <3>1. /\ left' = HandlersFor(reg, cur'.type) /\ ran' = <<>> /\ reg' = reg
          /\ Len(<<>>) = 0
      BY <2>1 DEF SelectEvent, loadVars
    <3> QED BY <3>1 DEF DispatchComplete, HandlersFor, IsIn
  <2>2. CASE RunHandler
    BY <2>2, DispatchRun
  <2>3. CASE MainStep /\ ~SelectEvent /\ ~RunHandler
    <3>1. main' # "dispatch"
      BY <2>3 DEF MainStep, ConnectOK, ConnectFail, BackoffDone, BackoffCancelled, StartLoad,
                  LoadScript, FinishLoad, SelectReload, EndDispatch, SelectDone, SelectErr,
                  CloseReceiver, Join
    <3> QED BY <3>1 DEF DispatchComplete
  <2>4. CASE ReceiverNext \/ WatchNext \/ Signal \/ UNCHANGED vars
    <3>1. UNCHANGED mainVars
      BY <2>4 DEF ReceiverNext, WatchNext, Signal, vars
    <3> QED BY <3>1 DEF DispatchComplete, HandlersFor, Before, IsIn, mainVars
  <2> QED BY <2>1, <2>2, <2>3, <2>4 DEF Next, Terminated
<1> QED BY <1>1, <1>2, TypeInvariant, PTL DEF Spec

-----------------------------------------------------------------------------
(* The receiver's error *)

(* Why an error on eventErr is a real one.  A receiver that main closed was
   closed either after the signal, and then reports nothing, or after its own
   error was received, and then it has terminated. *)
ReportInv ==
  /\ eventErr # <<>> => rcv = "done" /\ link = "down"
  /\ rcv = "sendErr" => link = "down"
  /\ rcv = "report" => link = "down" \/ cancelled
  /\ closed => rcv \in {"sendErr", "done"} \/ cancelled
  /\ main \in {"close", "join"} => rcv = "done" \/ cancelled

LEMMA ReportReceiver ==
  ASSUME TypeInv, ReportInv, ReceiverNext
  PROVE  ReportInv'
<1> USE DEF ReportInv
<1>0. main' = main /\ cancelled' = cancelled
  BY DEF ReceiverNext, mainVars
<1>1. ASSUME NEW t \in EventTypes, Emit(t) PROVE ReportInv'
  BY <1>0, <1>1 DEF Emit
<1>2. CASE BreakLink
  BY <1>0, <1>2 DEF BreakLink
<1>3. CASE Subscribe
  BY <1>0, <1>3 DEF Subscribe
<1>4. CASE NextEvent
  BY <1>0, <1>4 DEF NextEvent
<1>5. CASE NextClosed
  BY <1>0, <1>5 DEF NextClosed
<1>6. CASE GiveUp
  BY <1>0, <1>6 DEF GiveUp
<1>7. CASE OfferSend \/ OfferDrop
  BY <1>0, <1>7 DEF OfferSend, OfferDrop
<1>8. CASE Report
  BY <1>0, <1>8 DEF Report
<1>9. CASE SendErr
  BY <1>0, <1>9 DEF SendErr
<1>10. CASE SendErrCancelled
  BY <1>0, <1>10 DEF SendErrCancelled
<1> QED
  BY <1>1, <1>2, <1>3, <1>4, <1>5, <1>6, <1>7, <1>8, <1>9, <1>10
     DEF ReceiverNext, SocketStep, ReceiverStep

LEMMA ReportMain ==
  ASSUME TypeInv, ReportInv, MainStep
  PROVE  ReportInv'
<1> USE DEF ReportInv, receiverVars
<1>1. CASE FinishLoad
  BY <1>1 DEF FinishLoad
<1>2. CASE SelectErr
  BY <1>2 DEF SelectErr
<1>3. CASE SelectDone
  BY <1>3 DEF SelectDone
<1>4. CASE CloseReceiver
  BY <1>4 DEF CloseReceiver
<1>5. CASE SelectEvent
  BY <1>5 DEF SelectEvent
<1>6. CASE Join
  BY <1>6 DEF Join
<1>7. CASE ConnectOK \/ ConnectFail \/ BackoffDone \/ BackoffCancelled
  BY <1>7 DEF ConnectOK, ConnectFail, BackoffDone, BackoffCancelled
<1>8. CASE StartLoad \/ LoadScript \/ SelectReload \/ RunHandler \/ EndDispatch
  BY <1>8 DEF StartLoad, LoadScript, SelectReload, RunHandler, EndDispatch
<1> QED
  BY <1>1, <1>2, <1>3, <1>4, <1>5, <1>6, <1>7, <1>8 DEF MainStep

(* Main never takes a shutdown for a failure of the event stream. *)
THEOREM ShutdownTheorem == Spec => []SilentShutdown
<1>1. Init => ReportInv
  BY DEF Init, ReceiverInit, MainInit, ReportInv
<1>2. TypeInv /\ ReportInv /\ [Next]_vars => ReportInv'
  <2> SUFFICES ASSUME TypeInv, ReportInv, [Next]_vars PROVE ReportInv'
    OBVIOUS
  <2>1. CASE WatchNext \/ Signal \/ UNCHANGED vars
    BY <2>1 DEF WatchNext, Signal, Cancel, vars, receiverVars, mainVars, ReportInv
  <2> QED BY <2>1, ReportReceiver, ReportMain DEF Next, Terminated
<1>3. ReportInv => SilentShutdown
  BY DEF ReportInv, SilentShutdown
<1> QED BY <1>1, <1>2, <1>3, TypeInvariant, PTL DEF Spec

-----------------------------------------------------------------------------
(* The path of an event implements the queue of LossyFifo *)

(* The numbers of a sequence of events *)
Seqs(evs) == [i \in 1..Len(evs) |-> evs[i].seq]

(* The events between i3 and the main goroutine *)
Coming == eventIn \o hand \o wire

-----------------------------------------------------------------------------
(* The numbers of events that move, come and go *)

LEMMA SeqsType ==
  ASSUME NEW s \in Seq(Event)
  PROVE  /\ Seqs(s) \in Seq(Nat) /\ Len(Seqs(s)) = Len(s) /\ Len(s) \in Nat
         /\ \A i \in 1..Len(s) : Seqs(s)[i] = s[i].seq
<1>1. \A i \in 1..Len(s) : s[i].seq \in Nat
  <2> TAKE i \in 1..Len(s)
  <2>1. s[i] \in Event
    BY ElementOfSeq
  <2> QED BY <2>1 DEF Event
<1>2. Len(s) \in Nat
  BY LenProperties
<1>3. Seqs(s) \in [1..Len(s) -> Nat]
  BY <1>1 DEF Seqs
<1> QED BY <1>2, <1>3, SeqDef DEF Seqs

LEMMA SeqsAppend ==
  ASSUME NEW s \in Seq(Event), NEW e \in Event
  PROVE  Seqs(Append(s, e)) = Append(Seqs(s), e.seq)
<1> DEFINE t == Append(s, e)   a == Append(Seqs(s), e.seq)
<1>1. /\ t \in Seq(Event) /\ Len(t) = Len(s) + 1
      /\ \A i \in 1..Len(s) : t[i] = s[i]
      /\ t[Len(s) + 1] = e
  BY AppendProperties
<1>2. e.seq \in Nat
  BY DEF Event
<1>3. /\ a \in Seq(Nat) /\ Len(a) = Len(s) + 1
      /\ \A i \in 1..Len(s) : a[i] = Seqs(s)[i]
      /\ a[Len(s) + 1] = e.seq
  BY <1>2, SeqsType, AppendProperties
<1> HIDE DEF t, a
<1>4. \A i \in 1..Len(s) + 1 : Seqs(t)[i] = a[i]
  <2> TAKE i \in 1..Len(s) + 1
  <2>1. Seqs(t)[i] = t[i].seq
    BY <1>1, SeqsType
  <2>2. CASE i \in 1..Len(s)
    <3>1. Seqs(s)[i] = s[i].seq
      BY <2>2, SeqsType
    <3>2. t[i] = s[i] /\ a[i] = Seqs(s)[i]
      BY <1>1, <1>3, <2>2
    <3> QED BY <2>1, <3>1, <3>2
  <2>3. CASE i = Len(s) + 1
    BY <1>1, <1>3, <2>1, <2>3
  <2>4. Len(s) \in Nat
    BY SeqsType
  <2> QED BY <2>2, <2>3, <2>4
<1>5. Seqs(t) \in Seq(Nat) /\ Len(Seqs(t)) = Len(s) + 1
  BY <1>1, SeqsType
<1>6. Seqs(t) = a
  BY <1>3, <1>4, <1>5, SeqEqual
<1> QED BY <1>6 DEF t, a

LEMMA SeqsTail ==
  ASSUME NEW s \in Seq(Event), s # <<>>
  PROVE  /\ Seqs(s) # <<>> /\ Head(Seqs(s)) = Head(s).seq
         /\ Seqs(Tail(s)) = Tail(Seqs(s))
<1>1. Len(s) \in Nat \ {0} /\ Head(s) = s[1]
  BY EmptySeq
<1>2. Seqs(s) # <<>> /\ Head(Seqs(s)) = Head(s).seq
  BY <1>1, SeqsType, EmptySeq
<1>3. /\ Tail(s) \in Seq(Event) /\ Len(Tail(s)) = Len(s) - 1
      /\ \A i \in 1..Len(s) - 1 : Tail(s)[i] = s[i+1]
  BY HeadTailProperties
<1>4. /\ Tail(Seqs(s)) \in Seq(Nat) /\ Len(Tail(Seqs(s))) = Len(s) - 1
      /\ \A i \in 1..Len(s) - 1 : Tail(Seqs(s))[i] = Seqs(s)[i+1]
  BY <1>2, SeqsType, HeadTailProperties
<1>5. \A i \in 1..Len(s) - 1 : Seqs(Tail(s))[i] = Tail(Seqs(s))[i]
  <2> TAKE i \in 1..Len(s) - 1
  <2>1. Seqs(Tail(s))[i] = Tail(s)[i].seq
    BY <1>3, SeqsType
  <2>2. i + 1 \in 1..Len(s) /\ Seqs(s)[i+1] = s[i+1].seq
    BY <1>1, SeqsType
  <2> QED BY <1>3, <1>4, <2>1, <2>2
<1>6. Seqs(Tail(s)) \in Seq(Nat) /\ Len(Seqs(Tail(s))) = Len(s) - 1
  BY <1>3, SeqsType
<1> QED BY <1>2, <1>4, <1>5, <1>6, SeqEqual

LEMMA SeqsSubSeq ==
  ASSUME NEW s \in Seq(Event), NEW m \in 1..Len(s) + 1, NEW n \in 0..Len(s)
  PROVE  SubSeq(s, m, n) \in Seq(Event) /\ Seqs(SubSeq(s, m, n)) = SubSeq(Seqs(s), m, n)
<1> DEFINE t == SubSeq(s, m, n)   u == SubSeq(Seqs(s), m, n)
<1>0. Len(s) \in Nat /\ m \in Int /\ n \in Int
  BY SeqsType
<1>1. \A i \in m..n : i \in 1..Len(s)
  BY <1>0
<1>2. \A i \in m..n : s[i] \in Event
  BY <1>1, ElementOfSeq
<1>3. /\ t \in Seq(Event) /\ Len(t) = IF m <= n THEN n - m + 1 ELSE 0
      /\ \A i \in 1..n - m + 1 : t[i] = s[m + i - 1]
  BY <1>0, <1>2, SubSeqProperties
<1>4. \A i \in m..n : Seqs(s)[i] \in Nat
  BY <1>1, SeqsType, ElementOfSeq
<1>5. /\ u \in Seq(Nat) /\ Len(u) = IF m <= n THEN n - m + 1 ELSE 0
      /\ \A i \in 1..n - m + 1 : u[i] = Seqs(s)[m + i - 1]
  BY <1>0, <1>4, SubSeqProperties
<1> HIDE DEF t, u
<1>6. \A i \in 1..Len(t) : Seqs(t)[i] = u[i]
  <2> TAKE i \in 1..Len(t)
  <2>1. i \in 1..n - m + 1 /\ m + i - 1 \in 1..Len(s)
    BY <1>0, <1>3
  <2>2. Seqs(t)[i] = t[i].seq /\ Seqs(s)[m + i - 1] = s[m + i - 1].seq
    BY <1>3, <2>1, SeqsType
  <2> QED BY <2>1, <2>2, <1>3, <1>5
<1>7. Seqs(t) \in Seq(Nat) /\ Len(Seqs(t)) = Len(u)
  BY <1>3, <1>5, SeqsType
<1>8. Seqs(t) = u
  BY <1>3, <1>5, <1>6, <1>7, SeqsType, SeqEqual
<1> QED BY <1>3, <1>8 DEF t, u

LEMMA SeqsConcat ==
  ASSUME NEW s \in Seq(Event), NEW t \in Seq(Event)
  PROVE  Seqs(s \o t) = Seqs(s) \o Seqs(t)
<1> DEFINE u == s \o t   c == Seqs(s) \o Seqs(t)
<1>0. Len(s) \in Nat /\ Len(t) \in Nat
  BY SeqsType
<1>1. /\ u \in Seq(Event) /\ Len(u) = Len(s) + Len(t)
      /\ \A i \in 1..Len(s) + Len(t) : u[i] = IF i <= Len(s) THEN s[i] ELSE t[i - Len(s)]
  BY ConcatProperties
<1>2. /\ c \in Seq(Nat) /\ Len(c) = Len(s) + Len(t)
      /\ \A i \in 1..Len(s) + Len(t) :
           c[i] = IF i <= Len(s) THEN Seqs(s)[i] ELSE Seqs(t)[i - Len(s)]
  <2>1. /\ Seqs(s) \in Seq(Nat) /\ Len(Seqs(s)) = Len(s)
        /\ Seqs(t) \in Seq(Nat) /\ Len(Seqs(t)) = Len(t)
    BY SeqsType
  <2> HIDE DEF Seqs
  <2>2. /\ c \in Seq(Nat) /\ Len(c) = Len(Seqs(s)) + Len(Seqs(t))
        /\ \A i \in 1..Len(Seqs(s)) + Len(Seqs(t)) :
             c[i] = IF i <= Len(Seqs(s)) THEN Seqs(s)[i] ELSE Seqs(t)[i - Len(Seqs(s))]
    BY <2>1, ConcatProperties
  <2> QED BY <2>1, <2>2
<1> HIDE DEF u, c
<1>3. \A i \in 1..Len(s) + Len(t) : Seqs(u)[i] = c[i]
  <2> TAKE i \in 1..Len(s) + Len(t)
  <2>1. Seqs(u)[i] = u[i].seq
    BY <1>1, SeqsType
  <2>2. CASE i \in 1..Len(s)
    <3>1. Seqs(s)[i] = s[i].seq
      BY <2>2, SeqsType
    <3>2. u[i] = s[i] /\ c[i] = Seqs(s)[i]
      BY <1>0, <1>1, <1>2, <2>2
    <3> QED BY <2>1, <3>1, <3>2
  <2>3. CASE i - Len(s) \in 1..Len(t)
    <3>1. Seqs(t)[i - Len(s)] = t[i - Len(s)].seq
      BY <2>3, SeqsType
    <3>2. u[i] = t[i - Len(s)] /\ c[i] = Seqs(t)[i - Len(s)]
      BY <1>0, <1>1, <1>2, <2>3
    <3> QED BY <2>1, <3>1, <3>2
  <2> QED BY <1>0, <2>2, <2>3
<1>4. Seqs(u) \in Seq(Nat) /\ Len(Seqs(u)) = Len(s) + Len(t)
  BY <1>1, SeqsType
<1>5. Seqs(u) = c
  BY <1>2, <1>3, <1>4, SeqEqual
<1> QED BY <1>5 DEF u, c

(* What is put before a sequence is its head. *)
LEMMA Cons ==
  ASSUME NEW S, NEW s \in Seq(S), NEW e \in S
  PROVE  <<e>> \o s # <<>> /\ Head(<<e>> \o s) = e /\ Tail(<<e>> \o s) = s
OBVIOUS

(* A prefix of the second sequence ends a prefix of both. *)
LEMMA PrefixConcat ==
  ASSUME NEW S, NEW s \in Seq(S), NEW t \in Seq(S), NEW n \in 0..Len(t)
  PROVE  /\ Len(s) + n \in 0..Len(s \o t)
         /\ s \o SubSeq(t, 1, n) = SubSeq(s \o t, 1, Len(s) + n)
<1> DEFINE u == s \o t   p == SubSeq(t, 1, n)   q == SubSeq(u, 1, Len(s) + n)   c == s \o p
<1>0. /\ u \in Seq(S) /\ Len(u) = Len(s) + Len(t)
      /\ Len(s) \in Nat /\ Len(t) \in Nat
      /\ \A i \in 1..Len(s) + Len(t) : u[i] = IF i <= Len(s) THEN s[i] ELSE t[i - Len(s)]
  BY ConcatProperties, LenProperties
<1>1. /\ p \in Seq(S) /\ Len(p) = n
      /\ \A i \in 1..n : p[i] = t[i]
  <2>1. \A i \in 1..n : t[i] \in S
    BY <1>0, ElementOfSeq
  <2> QED BY <1>0, <2>1, SubSeqProperties
<1> HIDE DEF p, u
<1>2. /\ q \in Seq(S) /\ Len(q) = Len(s) + n
      /\ \A i \in 1..Len(s) + n : q[i] = u[i]
  <2>1. \A i \in 1..Len(s) + n : i \in 1..Len(u)
    BY <1>0
  <2>2. \A i \in 1..Len(s) + n : u[i] \in S
    BY <1>0, <2>1, ElementOfSeq
  <2> QED BY <1>0, <2>2, SubSeqProperties
<1>3. /\ c \in Seq(S) /\ Len(c) = Len(s) + n
      /\ \A i \in 1..Len(s) + n : c[i] = IF i <= Len(s) THEN s[i] ELSE p[i - Len(s)]
  BY <1>1, ConcatProperties
<1> HIDE DEF q, c
<1>4. \A i \in 1..Len(s) + n : c[i] = q[i]
  <2> TAKE i \in 1..Len(s) + n
  <2>1. i \in 1..Len(s) + Len(t) /\ q[i] = u[i]
    BY <1>0, <1>2
  <2>2. CASE i <= Len(s)
    BY <1>0, <1>3, <2>1, <2>2
  <2>3. CASE ~(i <= Len(s))
    <3>1. i - Len(s) \in 1..n
      BY <1>0, <2>3
    <3>2. p[i - Len(s)] = t[i - Len(s)]
      BY <1>1, <3>1
    <3> QED BY <1>0, <1>3, <2>1, <2>3, <3>2
  <2> QED BY <2>2, <2>3
<1>5. c = q
  BY <1>2, <1>3, <1>4, SeqEqual
<1> QED BY <1>0, <1>5 DEF u, p, q, c

-----------------------------------------------------------------------------
(* The event in hand *)

(* The goroutine of receiveEvents holds an event exactly while it offers it. *)
HandInv == IF rcv = "offer" THEN Len(hand) = 1 ELSE hand = <<>>

(* HandInv is inductive. *)
LEMMA HandInvariant == Spec => []HandInv
<1>1. Init => HandInv
  BY DEF Init, ReceiverInit, HandInv
<1>2. HandInv /\ [Next]_vars => HandInv'
  <2> SUFFICES ASSUME HandInv, [Next]_vars PROVE HandInv'
    OBVIOUS
  <2> USE DEF HandInv
  <2>1. CASE UNCHANGED <<rcv, hand>>
    BY <2>1
  <2>2. CASE ReceiverNext
    BY <2>2 DEF ReceiverNext, SocketStep, ReceiverStep, Emit, BreakLink, Subscribe, NextEvent,
                NextClosed, GiveUp, OfferSend, OfferDrop, Report, SendErr, SendErrCancelled
  <2>3. CASE FinishLoad
    BY <2>3 DEF FinishLoad
  <2>4. ASSUME MainStep, ~FinishLoad PROVE UNCHANGED <<rcv, hand>>
    BY <2>4 DEF MainStep, ConnectOK, ConnectFail, BackoffDone, BackoffCancelled, StartLoad,
                LoadScript, SelectReload, SelectEvent, RunHandler, EndDispatch,
                SelectDone, SelectErr, CloseReceiver, Join, receiverVars
  <2>5. ASSUME WatchNext \/ Signal \/ UNCHANGED vars PROVE UNCHANGED <<rcv, hand>>
    BY <2>5 DEF WatchNext, Signal, vars, receiverVars
  <2> QED BY <2>1, <2>2, <2>3, <2>4, <2>5 DEF Next, Terminated
<1> QED BY <1>1, <1>2, PTL DEF Spec

-----------------------------------------------------------------------------
(* The steps of the path *)

(* What Path calls got: the number of the last event main received. *)
Got == IF cur = None THEN 0 ELSE cur.seq

LEMMA ComingType ==
  ASSUME TypeInv
  PROVE  /\ eventIn \in Seq(Event) /\ hand \in Seq(Event) /\ wire \in Seq(Event)
         /\ Coming \in Seq(Event) /\ InFlight = Seqs(Coming)
<1>1. eventIn \in Seq(Event) /\ hand \in Seq(Event) /\ wire \in Seq(Event)
  BY DEF TypeInv, TypeOK, ReceiverTypeOK
<1>2. Coming \in Seq(Event)
  BY <1>1, ConcatProperties DEF Coming
<1>3. InFlight = Seqs(Coming)
  BY DEF InFlight, Seqs, Coming
<1> QED BY <1>1, <1>2, <1>3

(* An event that i3 sends is the newest one of the queue. *)
LEMMA EmitSends ==
  ASSUME TypeInv, ~Unbounded, NEW t \in EventTypes, Emit(t), UNCHANGED cur
  PROVE  Path!Send
<1> DEFINE e == [seq |-> sent', type |-> t]   front == eventIn \o hand
<1>1. /\ sent' = sent + 1 /\ sent' \in Nat /\ wire' = Append(wire, e)
      /\ UNCHANGED <<breaks, hand, eventIn>>
  BY DEF Emit, TypeInv, TypeOK, ReceiverTypeOK
<1>2. e \in Event /\ e.seq = sent + 1
  BY <1>1 DEF Event
<1> HIDE DEF e
<1>3. front \in Seq(Event) /\ Coming = front \o wire /\ Coming' = front \o Append(wire, e)
  BY <1>1, ComingType, ConcatProperties DEF Coming
<1>4. front \o Append(wire, e) = Append(front \o wire, e)
  <2>1. <<e>> \in Seq(Event)
    BY <1>2, SingletonSeq
  <2>2. front \o Append(wire, e) = front \o (wire \o <<e>>)
    BY <1>2, ComingType, AppendIsConcat
  <2> HIDE DEF front
  <2>3. front \o (wire \o <<e>>) = (front \o wire) \o <<e>>
    BY <1>3, <2>1, ComingType, ConcatAssociative
  <2>4. (front \o wire) \o <<e>> = Append(front \o wire, e)
    BY <1>2, <1>3, ComingType, ConcatProperties, AppendIsConcat
  <2> QED BY <2>2, <2>3, <2>4
<1>5. Coming' = Append(Coming, e)
  BY <1>3, <1>4
<1>6. InFlight' = Append(InFlight, sent + 1)
  <2>1. InFlight' = Seqs(Coming')
    BY DEF InFlight, Seqs, Coming
  <2> QED BY <2>1, <1>2, <1>5, ComingType, SeqsAppend
<1> QED BY <1>1, <1>6 DEF Path!Send

(* A broken subscription takes the newest events. *)
LEMMA BreakLoses ==
  ASSUME TypeInv, BreakLink, UNCHANGED cur
  PROVE  Path!Outage
<1> DEFINE front == eventIn \o hand
<1>1. /\ breaks' = breaks + 1 /\ UNCHANGED <<sent, hand, eventIn>>
      /\ front \in Seq(Event) /\ Coming = front \o wire
  BY ComingType, ConcatProperties DEF BreakLink, Coming
<1>2. PICK n \in 0..Len(wire) : wire' = SubSeq(wire, 1, n)
  BY DEF BreakLink
<1>3. Coming' = front \o SubSeq(wire, 1, n)
  BY <1>1, <1>2 DEF Coming
<1> DEFINE m == Len(front) + n
<1>4. m \in 0..Len(Coming) /\ Coming' = SubSeq(Coming, 1, m)
  <2> HIDE DEF front
  <2> QED BY <1>1, <1>3, ComingType, PrefixConcat
<1> HIDE DEF m
<1>5. 1 \in 1..Len(Coming) + 1 /\ Len(InFlight) = Len(Coming)
  BY ComingType, SeqsType
<1>6. InFlight' = SubSeq(InFlight, 1, m)
  <2>1. InFlight' = Seqs(Coming')
    BY DEF InFlight, Seqs, Coming
  <2> QED BY <2>1, <1>4, <1>5, ComingType, SeqsSubSeq
<1> QED BY <1>1, <1>4, <1>5, <1>6 DEF Path!Outage

(* Reading an event and offering it when there is room move it along. *)
LEMMA MovesStutter ==
  ASSUME TypeInv, HandInv, NextEvent \/ OfferSend
  PROVE  UNCHANGED <<sent, breaks>> /\ Coming' = Coming
<1>1. CASE NextEvent
  <2>1. hand = <<>> /\ wire # <<>> /\ hand' = <<Head(wire)>> /\ wire' = Tail(wire)
        /\ UNCHANGED <<sent, breaks, eventIn>>
    BY <1>1 DEF NextEvent, HandInv
  <2>2. Head(wire) \in Event /\ Tail(wire) \in Seq(Event) /\ <<Head(wire)>> \in Seq(Event)
    BY <2>1, ComingType, HeadTailProperties, SingletonSeq
  <2>3. <<Head(wire)>> \o Tail(wire) = wire
    BY <2>1, ComingType
  <2>4. Coming = eventIn \o wire
    BY <2>1, ComingType, ConcatEmptySeq DEF Coming
  <2>5. Coming' = eventIn \o (<<Head(wire)>> \o Tail(wire))
    BY <2>1, <2>2, ComingType, ConcatAssociative DEF Coming
  <2> QED BY <2>1, <2>3, <2>4, <2>5
<1>2. CASE OfferSend
  <2>1. eventIn' = eventIn \o hand /\ hand' = <<>> /\ UNCHANGED <<sent, breaks, wire>>
    BY <1>2 DEF OfferSend
  <2>2. (eventIn \o hand) \o <<>> = eventIn \o hand
    BY ComingType, ConcatProperties, ConcatEmptySeq
  <2> QED BY <2>1, <2>2 DEF Coming
<1> QED BY <1>1, <1>2

(* The event that is dropped has a full queue before it. *)
LEMMA OfferDrops ==
  ASSUME TypeInv, HandInv, OfferDrop, UNCHANGED cur
  PROVE  Path!Drop
<1>1. /\ Len(hand) = 1 /\ Len(eventIn) = QueueCap /\ hand' = <<>>
      /\ UNCHANGED <<sent, breaks, wire, eventIn>>
  BY DEF OfferDrop, HandInv
<1> DEFINE u == eventIn \o hand   k == QueueCap
<1>2. /\ k \in Nat \ {0} /\ Len(wire) \in Nat /\ u \in Seq(Event) /\ Len(u) = k + 1
      /\ Coming = u \o wire
  BY <1>1, ComingType, ConcatProperties, LenProperties, ReceiverAssumption DEF Coming
<1>3. Coming' = eventIn \o wire
  BY <1>1, ComingType, ConcatEmptySeq DEF Coming
<1>4. SubSeq(Coming, 1, k) = eventIn
  <2>1. SubSeq(u, 1, k) = SubSeq(eventIn, 1, k)
    BY <1>1, <1>2, ComingType, SubSeqOfConcat1
  <2>2. SubSeq(eventIn, 1, k) = eventIn
    BY <1>1, ComingType, SubSeqFull
  <2> HIDE DEF u
  <2>3. SubSeq(u \o wire, 1, k) = SubSeq(u, 1, k)
    <3>1. 1 \in 1..Len(u) /\ k \in 1..Len(u)
      BY <1>2
    <3> QED BY <1>2, <3>1, ComingType, SubSeqOfConcat1
  <2> QED BY <1>2, <2>1, <2>2, <2>3
<1> HIDE DEF u
<1>5. Len(Coming) = k + 1 + Len(wire)
  BY <1>2, ComingType, ConcatProperties
<1>6. SubSeq(Coming, k + 2, Len(Coming)) = wire
  <2>1. CASE wire = <<>>
    <3>1. Len(Coming) \in Int /\ k + 2 \in Int /\ Len(Coming) < k + 2
      BY <1>2, <1>5, <2>1
    <3> QED BY <2>1, <3>1, SubSeqEmpty
  <2>2. CASE wire # <<>>
    <3>1. Len(wire) # 0
      BY <2>2, ComingType, EmptySeq
    <3>2. k + 2 \in Len(u) + 1 .. Len(u) + Len(wire)
      BY <1>2, <3>1
    <3>3. Len(Coming) \in Len(u) + 1 .. Len(u) + Len(wire)
      BY <1>2, <1>5, <3>1
    <3>4. SubSeq(Coming, k + 2, Len(Coming)) = SubSeq(wire, k + 2 - Len(u), Len(Coming) - Len(u))
      BY <1>2, <3>2, <3>3, ComingType, SubSeqOfConcat2
    <3>5. k + 2 - Len(u) = 1 /\ Len(Coming) - Len(u) = Len(wire)
      BY <1>2, <1>5
    <3> QED BY <3>4, <3>5, ComingType, SubSeqFull
  <2> QED BY <2>1, <2>2
<1>7. /\ SubSeq(Coming, 1, k) \in Seq(Event) /\ SubSeq(Coming, k + 2, Len(Coming)) \in Seq(Event)
      /\ Seqs(eventIn) = SubSeq(Seqs(Coming), 1, k)
      /\ Seqs(wire) = SubSeq(Seqs(Coming), k + 2, Len(Coming))
  <2>1. /\ 1 \in 1..Len(Coming) + 1 /\ k \in 0..Len(Coming)
        /\ k + 2 \in 1..Len(Coming) + 1 /\ Len(Coming) \in 0..Len(Coming)
    BY <1>2, <1>5
  <2> QED BY <2>1, <1>4, <1>6, ComingType, SeqsSubSeq
<1>8. InFlight' = SubSeq(InFlight, 1, k) \o SubSeq(InFlight, k + 2, Len(InFlight))
  <2>1. InFlight' = Seqs(Coming')
    BY DEF InFlight, Seqs, Coming
  <2>2. Seqs(eventIn \o wire) = Seqs(eventIn) \o Seqs(wire)
    BY ComingType, SeqsConcat
  <2>3. Len(InFlight) = Len(Coming)
    BY ComingType, SeqsType
  <2> QED BY <2>1, <2>2, <2>3, <1>3, <1>7, ComingType
<1>9. Len(InFlight) > k
  <2>1. Len(InFlight) = Len(Coming)
    BY ComingType, SeqsType
  <2> QED BY <2>1, <1>2, <1>5
<1> QED BY <1>1, <1>8, <1>9 DEF Path!Drop

(* The event that main receives is the oldest one of the queue. *)
LEMMA SelectHandsOver ==
  ASSUME TypeInv, SelectEvent
  PROVE  Path!HandOver
<1>1. /\ eventIn # <<>> /\ eventIn' = Tail(eventIn) /\ cur' = Head(eventIn)
      /\ UNCHANGED <<sent, breaks, hand, wire>>
  BY DEF SelectEvent
<1>2. Head(eventIn) \in Event /\ Tail(eventIn) \in Seq(Event)
  BY <1>1, ComingType, HeadTailProperties
<1> DEFINE rest == hand \o wire
<1>3. /\ rest \in Seq(Event) /\ Coming = eventIn \o rest /\ Coming' = Tail(eventIn) \o rest
  BY <1>1, <1>2, ComingType, ConcatProperties, ConcatAssociative DEF Coming
<1> HIDE DEF rest
<1> DEFINE h == Head(eventIn)   after == Coming'
<1>4. Coming # <<>> /\ Head(Coming) = h /\ Tail(Coming) = after
  <2>1. eventIn = <<Head(eventIn)>> \o Tail(eventIn)
    BY <1>1, ComingType
  <2>2. <<Head(eventIn)>> \in Seq(Event)
    BY <1>2, SingletonSeq
  <2>3. Coming = <<h>> \o after
    BY <1>2, <1>3, <2>1, <2>2, ConcatAssociative
  <2>4. h \in Event /\ after \in Seq(Event)
    BY <1>2, <1>3, ConcatProperties
  <2> HIDE DEF h, after
  <2> QED BY <2>3, <2>4, Cons
<1>5. InFlight # <<>> /\ Head(InFlight) = Head(eventIn).seq /\ InFlight' = Tail(InFlight)
  <2>1. InFlight' = Seqs(Coming')
    BY DEF InFlight, Seqs, Coming
  <2> QED BY <2>1, <1>4, ComingType, SeqsTail
<1>6. Got' = Head(InFlight)
  BY <1>1, <1>2, <1>5, DaemonAssumption DEF Got
<1> QED BY <1>1, <1>5, <1>6 DEF Path!HandOver, Got

(* What leaves the path as it is *)
PathVars == <<eventIn, hand, wire, sent, breaks, cur>>

LEMMA PathStutter ==
  ASSUME UNCHANGED <<sent, breaks, cur>>, Coming' = Coming
  PROVE  UNCHANGED <<sent, InFlight, Got, breaks>>
BY DEF InFlight, Got, Coming

-----------------------------------------------------------------------------
(* The path of an event from i3 to dispatch keeps the order, hands nothing over
   twice, and loses an event only when the queue before it is full or the
   subscription breaks (daemon.go:181-195).  The events are numbered, so i3
   sends a bounded number of them. *)
THEOREM DeliveryTheorem == ASSUME ~Unbounded PROVE Spec => OrderedDelivery
<1>1. Init => Path!Init
  BY DEF Init, ReceiverInit, MainInit, Path!Init, InFlight
<1>2. TypeInv /\ HandInv /\ [Next]_vars
        => [Path!Next]_<<sent, InFlight, IF cur = None THEN 0 ELSE cur.seq, breaks>>
  <2> SUFFICES ASSUME TypeInv, HandInv, [Next]_vars
               PROVE  Path!Next \/ UNCHANGED <<sent, InFlight, Got, breaks>>
    BY DEF Got
  <2>1. CASE UNCHANGED PathVars
    BY <2>1, PathStutter DEF PathVars, Coming
  <2>2. CASE ReceiverNext
    <3>0. UNCHANGED cur
      BY <2>2 DEF ReceiverNext, mainVars
    <3>1. ASSUME NEW t \in EventTypes, Emit(t) PROVE Path!Next
      BY <3>0, <3>1, EmitSends DEF Path!Next
    <3>2. CASE BreakLink
      BY <3>0, <3>2, BreakLoses DEF Path!Next
    <3>3. CASE NextEvent \/ OfferSend
      BY <3>0, <3>3, MovesStutter, PathStutter
    <3>4. CASE OfferDrop
      BY <3>0, <3>4, OfferDrops DEF Path!Next
    <3>5. CASE Subscribe \/ NextClosed \/ GiveUp \/ Report \/ SendErr \/ SendErrCancelled
      BY <2>1, <3>0, <3>5 DEF Subscribe, NextClosed, GiveUp, Report, SendErr, SendErrCancelled, PathVars
    <3> QED BY <2>2, <3>1, <3>2, <3>3, <3>4, <3>5 DEF ReceiverNext, SocketStep, ReceiverStep
  <2>3. CASE SelectEvent
    BY <2>3, SelectHandsOver DEF Path!Next
  <2>4. ASSUME MainStep, ~SelectEvent PROVE UNCHANGED PathVars
    BY <2>4 DEF MainStep, ConnectOK, ConnectFail, BackoffDone, BackoffCancelled, StartLoad,
                LoadScript, FinishLoad, SelectReload, RunHandler, EndDispatch, SelectDone,
                SelectErr, CloseReceiver, Join, receiverVars, dispatchVars, PathVars
  <2>5. ASSUME WatchNext \/ Signal \/ UNCHANGED vars PROVE UNCHANGED PathVars
    BY <2>5 DEF WatchNext, Signal, vars, receiverVars, mainVars, PathVars
  <2> QED BY <2>1, <2>2, <2>3, <2>4, <2>5 DEF Next, Terminated
<1> QED
  BY <1>1, <1>2, TypeInvariant, HandInvariant, PTL DEF Spec, OrderedDelivery, Path!Spec
=============================================================================
