-------------------------- MODULE DaemonProperties --------------------------
(***************************************************************************)
(* What the daemon promises.  The runs check these properties on small     *)
(* instances; DaemonProofs proves the safety ones.                         *)
(***************************************************************************)
EXTENDS Daemon

IsIn(x, seq) == \E i \in 1..Len(seq) : seq[i] = x

-----------------------------------------------------------------------------
(* Scripts and their files *)

(* The loop will still hear of p, or has heard and will reload. *)
Pending(p) ==
  \/ IsIn(p, fsq)
  \/ p \in changed
  \/ \E i \in 1..Len(reloadReq) : p \in reloadReq[i]

(* The registry, or the one being built, has what p's file holds. *)
UpToDate(p) ==
  \/ main = "glob"
  \/ main = "load" /\ (p \in todo \/ newReg[p] \in Outcomes(disk[p]))
  \/ main # "load" /\ reg[p] \in Outcomes(disk[p])

(* While the watcher loses nothing, a file whose content differs from what is
   loaded always has a reload coming that lists its path (any reload reads the
   whole directory, the list is what it logs): no change falls between the listing,
   the reading and the storing of a reload, nor between the watch loop's
   snapshot of the changed set and the bounded channel (daemon.go:289-307,
   312-341, loader.go:42-64). *)
NoForgottenChange ==
  overflows = 0 /\ result = "none" /\ main \notin {"connect", "backoff"}
    => \A p \in Scripts : Pending(p) \/ UpToDate(p)

(* The watch loop never holds a changed path without a timer that will make
   it send the path, also when the send failed because reloadReq was full;
   and the timer never runs with nothing to send (daemon.go:238-308). *)
PendingHasTimer == changed # {} <=> timer # "off"

(* Once the files stop changing, the registry settles on what they hold,
   however many events arrive (unless the daemon ends). *)
ReloadConverges ==
  WatchFairness /\ MainFairness
    => <>[](main = "exited" \/ \A p \in Scripts : reg[p] \in Outcomes(disk[p]))

-----------------------------------------------------------------------------
(* Events *)

(* A dispatch calls the handlers of one registry, all of them although some
   fail, by priority and then by file name: the called ones are in order and
   precede every handler still to call (daemon.go:435-473, registry.go:77-90). *)
DispatchComplete ==
  main = "dispatch" =>
    /\ \A p \in Scripts : p \in HandlersFor(reg, cur.type) <=> p \in left \/ IsIn(p, ran)
    /\ \A i, j \in 1..Len(ran) : i < j => Before(reg, ran[i], ran[j])
    /\ \A i \in 1..Len(ran), q \in left : Before(reg, ran[i], q)

(* The numbers of the events between i3 and the main goroutine, oldest first *)
InFlight == LET evs == eventIn \o hand \o wire
            IN  [i \in 1..Len(evs) |-> evs[i].seq]

(* The path of an event is a queue that keeps the order, hands nothing over
   twice, and loses an event only when the bounded queue before it is full or
   when the subscription breaks (daemon.go:181-195). *)
Path == INSTANCE LossyFifo WITH
          Cap <- QueueCap, chan <- InFlight, outages <- breaks,
          got <- IF cur = None THEN 0 ELSE cur.seq

OrderedDelivery == Path!Spec

(* Main may hang in a handler: the socket is still emptied, so that i3 never
   blocks on a subscriber that does not read (daemon.go:190). *)
SocketDrained == Len(wire) = WireCap ~> Len(wire) < WireCap \/ closed

-----------------------------------------------------------------------------
(* The end of Run *)

(* An error in eventErr means that the subscription itself failed: closing
   the receiver at shutdown never looks like one (daemon.go:197-207). *)
SilentShutdown == eventErr # <<>> => link = "down"

(* After a signal Run returns, although i3 sends events for ever, the receiver
   may be anywhere in its loop and the deferred call waits for it
   (daemon.go:110-125). *)
ShutdownCompletes ==
  WatchFairness /\ MainFairness => (cancelled ~> main = "exited")

(* A daemon whose event stream ended does not stay alive without events. *)
StreamFailureEndsRun ==
  WatchFairness /\ MainFairness => (rcv = "report" ~> main = "exited")
=============================================================================
