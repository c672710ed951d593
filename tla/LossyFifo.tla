----------------------------- MODULE LossyFifo -----------------------------
(***************************************************************************)
(* A queue of numbered messages that keeps their order and hands each over *)
(* at most once.  It may lose a message in two ways only: the one that has *)
(* Cap messages before it is dropped, or an outage takes the newest ones.  *)
(***************************************************************************)
EXTENDS Naturals, Sequences

CONSTANT Cap

VARIABLES
  sent,      \* number of the last message sent
  chan,      \* numbers of the messages in flight, oldest first
  got,       \* number of the last message handed over, 0 for none
  outages    \* outages so far

Init == sent = 0 /\ chan = <<>> /\ got = 0 /\ outages = 0

Send ==
  /\ sent' = sent + 1 /\ chan' = Append(chan, sent + 1)
  /\ UNCHANGED <<got, outages>>

HandOver ==
  /\ chan # <<>>
  /\ got' = Head(chan) /\ chan' = Tail(chan)
  /\ UNCHANGED <<sent, outages>>

Drop ==
  /\ Len(chan) > Cap
  /\ chan' = SubSeq(chan, 1, Cap) \o SubSeq(chan, Cap + 2, Len(chan))
  /\ UNCHANGED <<sent, got, outages>>

Outage ==
  /\ outages' = outages + 1
  /\ \E n \in 0..Len(chan) : chan' = SubSeq(chan, 1, n)
  /\ UNCHANGED <<sent, got>>

Next == Send \/ HandOver \/ Drop \/ Outage

Spec == Init /\ [][Next]_<<sent, chan, got, outages>>
=============================================================================
