--------------------------- MODULE EventReceiver ---------------------------
(***************************************************************************)
(* The path of an i3 event to the main goroutine: i3 writes it to the      *)
(* subscription socket, the go-i3 EventReceiver (external code) reads it,  *)
(* and the goroutine of receiveEvents offers it to the bounded channel     *)
(* eventIn.  When the stream ends for good the goroutine reports the error *)
(* on eventErr and terminates.                                             *)
(*                                                                         *)
(* The main goroutine's side (receiving from the channels, Close, joining  *)
(* the goroutine) is in module Daemon.                                     *)
(***************************************************************************)
EXTENDS Naturals, Sequences, Context

CONSTANTS
  QueueCap,    \* capacity of eventIn (128 in the code)
  ErrCap,      \* capacity of eventErr (1 in the code)
  WireCap,     \* bound: events on the socket at a time
  MaxEvents,   \* bound: numbered events i3 sends
  MaxBreaks,   \* bound: times the subscription breaks
  Unbounded    \* TRUE: events are not numbered and i3 may send for ever

ASSUME ReceiverAssumption ==
  /\ QueueCap \in Nat \ {0} /\ ErrCap \in Nat \ {0} /\ WireCap \in Nat \ {0}
  /\ MaxEvents \in Nat /\ MaxBreaks \in Nat /\ Unbounded \in BOOLEAN

VARIABLES
  sent,       \* number of the last event i3 sent (0 when Unbounded)
  breaks,     \* times the subscription broke
  link,       \* "up" while i3 has a subscriber connection of ours
  wire,       \* events written by i3 and not yet read
  closed,     \* receiver.Close() was called
  rcv,        \* control state of receiveEvents
  hand,       \* the event the goroutine holds: <<>> or <<ev>>
  eventIn,    \* channel of adapted events
  eventErr    \* channel of the final error

receiverVars == <<sent, breaks, link, wire, closed, rcv, hand, eventIn, eventErr>>

Event == [seq : Nat, type : EventTypes]

ReceiverTypeOK ==
  /\ sent \in Nat /\ breaks \in Nat
  /\ link \in {"up", "down"}
  /\ wire \in Seq(Event)
  /\ closed \in BOOLEAN
  /\ rcv \in {"unborn", "next", "offer", "report", "sendErr", "done"}
  /\ hand \in Seq(Event) /\ Len(hand) <= 1
  /\ eventIn \in Seq(Event) /\ Len(eventIn) <= QueueCap
  /\ eventErr \in Seq({"error"}) /\ Len(eventErr) <= ErrCap

ReceiverInit ==
  /\ sent = 0 /\ breaks = 0 /\ link = "down" /\ wire = <<>>
  /\ closed = FALSE /\ rcv = "unborn" /\ hand = <<>>
  /\ eventIn = <<>> /\ eventErr = <<>>

-----------------------------------------------------------------------------
(* i3 and the socket *)

(* i3 sends an event to the subscriber.  What happens in i3 while nobody is
   subscribed reaches nobody and is no step here. *)
Emit(t) ==
  /\ link = "up" /\ ~closed /\ Len(wire) < WireCap
  /\ Unbounded \/ sent < MaxEvents
  /\ sent' = IF Unbounded THEN sent ELSE sent + 1
  /\ wire' = Append(wire, [seq |-> sent', type |-> t])
  /\ UNCHANGED <<breaks, link, closed, rcv, hand, eventIn, eventErr>>

(* i3 restarts or the socket breaks; some of the newest unread events go
   with it. *)
BreakLink ==
  /\ link = "up" /\ breaks < MaxBreaks
  /\ link' = "down" /\ breaks' = breaks + 1
  /\ \E n \in 0..Len(wire) : wire' = SubSeq(wire, 1, n)
  /\ UNCHANGED <<sent, closed, rcv, hand, eventIn, eventErr>>

(* receiver.Next subscribes, the first time or again after a break. *)
Subscribe ==
  /\ rcv = "next" /\ ~closed /\ link = "down" /\ wire = <<>>
  /\ link' = "up"
  /\ UNCHANGED <<sent, breaks, wire, closed, rcv, hand, eventIn, eventErr>>

-----------------------------------------------------------------------------
(* The goroutine of receiveEvents *)

(* receiver.Next returns true: one event is read and adapted. *)
NextEvent ==
  /\ rcv = "next" /\ ~closed /\ wire # <<>>
  /\ hand' = <<Head(wire)>> /\ wire' = Tail(wire) /\ rcv' = "offer"
  /\ UNCHANGED <<sent, breaks, link, closed, eventIn, eventErr>>

(* receiver.Next returns false: main closed the receiver. *)
NextClosed ==
  /\ rcv = "next" /\ closed
  /\ rcv' = "report"
  /\ UNCHANGED <<sent, breaks, link, wire, closed, hand, eventIn, eventErr>>

(* receiver.Next returns false: reconnecting took too long. *)
GiveUp ==
  /\ rcv = "next" /\ ~closed /\ link = "down" /\ wire = <<>>
  /\ rcv' = "report"
  /\ UNCHANGED <<sent, breaks, link, wire, closed, hand, eventIn, eventErr>>

(* The non-blocking send: there is room in eventIn. *)
OfferSend ==
  /\ rcv = "offer" /\ Len(eventIn) < QueueCap
  /\ eventIn' = eventIn \o hand /\ hand' = <<>> /\ rcv' = "next"
  /\ UNCHANGED <<sent, breaks, link, wire, closed, eventErr>>

(* Mutants: the full queue loses its oldest event; the send waits for room. *)
DropOldest ==
  /\ rcv = "offer" /\ Len(eventIn) = QueueCap
  /\ eventIn' = Tail(eventIn) \o hand /\ hand' = <<>> /\ rcv' = "next"
  /\ UNCHANGED <<sent, breaks, link, wire, closed, eventErr>>
BlockingOffer == FALSE

(* The non-blocking send: eventIn is full and the event is dropped. *)
OfferDrop ==
  /\ rcv = "offer" /\ Len(eventIn) = QueueCap
  /\ hand' = <<>> /\ rcv' = "next"
  /\ UNCHANGED <<sent, breaks, link, wire, closed, eventIn, eventErr>>

(* Mutants: no context check; the error is forgotten. *)
ReportAlways ==
  /\ rcv = "report"
  /\ closed' = TRUE /\ rcv' = "sendErr"
  /\ UNCHANGED <<sent, breaks, link, wire, hand, eventIn, eventErr>>
ReportNever ==
  /\ rcv = "report"
  /\ closed' = TRUE /\ rcv' = "done"
  /\ UNCHANGED <<sent, breaks, link, wire, hand, eventIn, eventErr>>

(* receiver.Close(), then the context check: a shutdown is not an error. *)
Report ==
  /\ rcv = "report"
  /\ closed' = TRUE
  /\ rcv' = IF cancelled THEN "done" ELSE "sendErr"
  /\ UNCHANGED <<sent, breaks, link, wire, hand, eventIn, eventErr>>

(* The final select: the error goes to main ... *)
SendErr ==
  /\ rcv = "sendErr" /\ Len(eventErr) < ErrCap
  /\ eventErr' = Append(eventErr, "error") /\ rcv' = "done"
  /\ UNCHANGED <<sent, breaks, link, wire, closed, hand, eventIn>>

(* ... or the context is cancelled and nobody needs it. *)
SendErrCancelled ==
  /\ rcv = "sendErr" /\ cancelled
  /\ rcv' = "done"
  /\ UNCHANGED <<sent, breaks, link, wire, closed, hand, eventIn, eventErr>>

SocketStep == (\E t \in EventTypes : Emit(t)) \/ BreakLink

ReceiverStep ==
  \/ Subscribe \/ NextEvent \/ NextClosed \/ GiveUp
  \/ OfferSend \/ OfferDrop \/ Report \/ SendErr \/ SendErrCancelled
=============================================================================
