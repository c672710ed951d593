--------------------------- MODULE I3ClientProofs ---------------------------
(***************************************************************************)
(* For any number of callers, calls and restarts of i3, a reply belongs to *)
(* the call that returns it unless it came over a connection that a failed *)
(* call left open, and i3 executes a request at most twice.                *)
(***************************************************************************)
EXTENDS I3Client, TLAPS

Occurs(s, r) == \E i \in 1..Len(s) : s[i] = r
Distinct(s) == \A i, j \in 1..Len(s) : s[i] = s[j] => i = j

(* How often a request has been written, seen from i3: what it has executed and
   what waits on its connections. *)
Never(r) == executed[r] = 0 /\ \A k \in Conns : ~Occurs(requests[k], r)
Once(r) ==
  /\ executed[r] <= 1
  /\ executed[r] = 1 => \A k \in Conns : ~Occurs(requests[k], r)
  /\ \A k, l \in Conns : Occurs(requests[k], r) /\ Occurs(requests[l], r) => k = l
Twice(r) ==
  /\ executed[r] <= 2
  /\ executed[r] = 2 => \A k \in Conns : ~Occurs(requests[k], r)
  /\ executed[r] = 1 =>
       \A k, l \in Conns : Occurs(requests[k], r) /\ Occurs(requests[l], r) => k = l
  /\ \A k, l, m \in Conns :
       Occurs(requests[k], r) /\ Occurs(requests[l], r) /\ Occurs(requests[m], r)
         => k = l \/ l = m \/ k = m

(* A connection that is not dialled yet *)
Fresh(k) == k # conn /\ requests[k] = <<>>

(* Calls have numbers of their own; the holder of the mutex has a connection once
   it has dialled. *)
CallInv ==
  /\ \A c \in Callers : call[c] <= calls /\ (pc[c] # "idle" => call[c] # 0)
  /\ \A c, d \in Callers : call[c] # 0 /\ call[c] = call[d] => c = d
  /\ \A c \in Callers :
       /\ pc[c] = "dial" => conn = 0
       /\ pc[c] \in {"write", "read"} => conn # 0

(* Each attempt writes its request once, to a connection without it. *)
SentInv ==
  /\ \A r \in Requests : Twice(r) /\ (r > calls => Never(r))
  /\ \A c \in Callers :
       /\ pc[c] = "lock" \/ (pc[c] \in {"dial", "write"} /\ try = 1) => Never(call[c])
       /\ pc[c] \in {"dial", "write"} \/ (pc[c] = "read" /\ try = 1) => Once(call[c])
       /\ pc[c] = "write" /\ try = 2 => requests[conn] = <<>>
  /\ \A k \in Conns : Distinct(requests[k])

(* No attempt dials a connection that exists. *)
FreshInv ==
  /\ \A r \in Requests : r > calls => Fresh(2 * r - 1) /\ Fresh(2 * r)
  /\ \A c \in Callers :
       /\ pc[c] = "lock" => Fresh(2 * call[c] - 1) /\ Fresh(2 * call[c])
       /\ pc[c] = "dial" => Fresh(Dialled(c))
       /\ pc[c] \in {"dial", "write", "read"} /\ try = 1 => Fresh(2 * call[c])

(* A connection that no failed call left open carries the request of the call
   that reads from it, or its reply, and is empty otherwise. *)
CleanInv ==
  conn # 0 /\ conn \notin leftOver =>
    /\ (\A c \in Callers : pc[c] # "read") => requests[conn] = <<>> /\ inbox = <<>>
    /\ \A c \in Callers : pc[c] = "read" =>
         /\ Len(requests[conn]) + Len(inbox) <= 1
         /\ requests[conn] # <<>> => Head(requests[conn]) = call[c]
         /\ inbox # <<>> => Head(inbox).to = call[c]

Inv == ClientTypeOK /\ ReplyMatches /\ CallInv /\ SentInv /\ FreshInv /\ CleanInv

-----------------------------------------------------------------------------
(* Sequences *)

(* Taking the head of a sequence without repetitions removes it for good. *)
LEMMA TailOccurs ==
  ASSUME NEW s \in Seq(Requests), s # <<>>, Distinct(s)
  PROVE  /\ Head(s) \in Requests /\ Tail(s) \in Seq(Requests) /\ Len(Tail(s)) = Len(s) - 1
         /\ Occurs(s, Head(s)) /\ ~Occurs(Tail(s), Head(s)) /\ Distinct(Tail(s))
         /\ \A r : r # Head(s) => (Occurs(Tail(s), r) <=> Occurs(s, r))
<1>1. /\ Len(s) \in Nat /\ Len(s) >= 1 /\ Head(s) = s[1]
      /\ Head(s) \in Requests /\ Tail(s) \in Seq(Requests)
      /\ Len(Tail(s)) = Len(s) - 1
  OBVIOUS
<1>2. \A i \in 1..Len(s)-1 : Tail(s)[i] = s[i+1]
  OBVIOUS
<1>3. Occurs(s, Head(s))
  BY <1>1 DEF Occurs
<1>4. ~Occurs(Tail(s), Head(s))
  BY <1>1, <1>2 DEF Occurs, Distinct
<1>5. Distinct(Tail(s))
  BY <1>1, <1>2 DEF Distinct
<1>6. ASSUME NEW r, r # Head(s) PROVE Occurs(Tail(s), r) <=> Occurs(s, r)
  <2>1. ASSUME Occurs(s, r) PROVE Occurs(Tail(s), r)
    <3>1. PICK i \in 1..Len(s) : s[i] = r
      BY <2>1 DEF Occurs
    <3>2. i - 1 \in 1..Len(s)-1 /\ Tail(s)[i-1] = r
      BY <1>1, <1>2, <1>6, <3>1
    <3> QED BY <1>1, <3>2 DEF Occurs
  <2>2. ASSUME Occurs(Tail(s), r) PROVE Occurs(s, r)
    <3>1. PICK i \in 1..Len(s)-1 : Tail(s)[i] = r
      BY <1>1, <2>2 DEF Occurs
    <3> QED BY <1>1, <1>2, <3>1 DEF Occurs
  <2> QED BY <2>1, <2>2
<1> QED BY <1>1, <1>3, <1>4, <1>5, <1>6

LEMMA AppendOccurs ==
  ASSUME NEW s \in Seq(Requests), NEW e \in Requests
  PROVE  /\ Append(s, e) \in Seq(Requests) /\ Append(s, e) # <<>>
         /\ \A r : Occurs(Append(s, e), r) <=> Occurs(s, r) \/ r = e
         /\ Distinct(s) /\ ~Occurs(s, e) => Distinct(Append(s, e))
<1>1. /\ Append(s, e) \in Seq(Requests) /\ Len(Append(s, e)) = Len(s) + 1 /\ Len(s) \in Nat
      /\ Append(s, e)[Len(s) + 1] = e /\ \A i \in 1..Len(s) : Append(s, e)[i] = s[i]
  OBVIOUS
<1>2. Append(s, e) # <<>>
  BY <1>1
<1> DEFINE t == Append(s, e)
<1> HIDE DEF t
<1>3. \A r : Occurs(t, r) <=> Occurs(s, r) \/ r = e
  BY <1>1 DEF Occurs, t
<1>4. Distinct(s) /\ ~Occurs(s, e) => Distinct(t)
  BY <1>1 DEF Occurs, Distinct, t
<1> QED BY <1>1, <1>2, <1>3, <1>4 DEF t

LEMMA EmptyOccurs == /\ \A r : ~Occurs(<<>>, r)
                     /\ Distinct(<<>>)
BY DEF Occurs, Distinct

LEMMA SmallSum == \A m, n \in Nat : m + n <= 1 /\ m # 0 => m = 1 /\ n = 0
OBVIOUS

-----------------------------------------------------------------------------
(* Steps *)

(* Initially nothing has been asked. *)
LEMMA InitInv == Init => Inv
<1> SUFFICES ASSUME Init PROVE Inv
  OBVIOUS
<1> USE I3ClientAssumption DEF Init
<1>1. /\ \A c \in Callers : pc[c] = "idle" /\ call[c] = 0 /\ ended[c] = Pending
      /\ \A k \in Conns : requests[k] = <<>> /\ k # 0
      /\ \A r \in Requests : executed[r] = 0 /\ 2 * r - 1 \in Conns /\ 2 * r \in Conns
      /\ conn = 0
  BY DEF Conns, Requests
<1>2. ClientTypeOK
  <2>1. requests \in [Conns -> Seq(Requests)] /\ executed \in [Requests -> Nat]
    OBVIOUS
  <2>2. pc \in [Callers -> {"idle", "lock", "dial", "write", "read"}]
        /\ call \in [Callers -> Requests \cup {0}] /\ ended \in [Callers -> Ending]
    BY DEF Ending, Pending
  <2> QED BY <1>1, <2>1, <2>2 DEF ClientTypeOK
<1>3. ReplyMatches /\ CallInv
  BY <1>1 DEF ReplyMatches, CallInv, Pending
<1>4. SentInv
  BY <1>1, EmptyOccurs DEF SentInv, Never, Twice
<1>5. FreshInv /\ CleanInv
  BY <1>1 DEF FreshInv, Fresh, CleanInv
<1> QED BY <1>2, <1>3, <1>4, <1>5 DEF Inv

(* A request is written at most as often as allows one more, or two more. *)
LEMMA OnceTwice ==
  ASSUME NEW r \in Requests, executed[r] \in Nat
  PROVE  (Never(r) => Once(r)) /\ (Once(r) => Twice(r))
BY DEF Never, Once, Twice

(* The connections of a call that is under way *)
LEMMA OwnConns ==
  ASSUME ClientTypeOK, CallInv
  PROVE  /\ \A r \in Requests : 2 * r - 1 \in Conns /\ 2 * r \in Conns
         /\ \A c \in Callers : pc[c] # "idle" => call[c] \in Requests /\ Dialled(c) \in Conns
<1>1. \A r \in Requests : 2 * r - 1 \in Conns /\ 2 * r \in Conns
  BY I3ClientAssumption DEF Conns, Requests
<1>2. \A c \in Callers : pc[c] # "idle" => call[c] \in Requests
  BY DEF ClientTypeOK, CallInv
<1>3. \A c \in Callers : pc[c] # "idle" => Dialled(c) \in {2 * call[c] - 1, 2 * call[c]}
  BY <1>2 DEF ClientTypeOK, Dialled, Requests
<1> QED BY <1>1, <1>2, <1>3

(* Steps of i3, and of a caller that dials nothing, keep fresh connections so. *)
LEMMA FreshKept ==
  ASSUME Inv, UNCHANGED <<pc, try, call, calls>>, \A k \in Conns : Fresh(k) => Fresh(k)'
  PROVE  FreshInv'
<1>1. /\ \A r \in Requests : 2 * r - 1 \in Conns /\ 2 * r \in Conns
      /\ \A c \in Callers : pc[c] # "idle" => call[c] \in Requests /\ Dialled(c) \in Conns
      /\ \A c \in Callers : Dialled(c)' = Dialled(c)
  BY OwnConns DEF Inv, Dialled
<1>2. \A r \in Requests : r > calls' => Fresh(2 * r - 1)' /\ Fresh(2 * r)'
  BY <1>1 DEF Inv, FreshInv
<1>3. ASSUME NEW c \in Callers
      PROVE  /\ pc'[c] = "lock" => Fresh(2 * call[c] - 1)' /\ Fresh(2 * call[c])'
             /\ pc'[c] \in {"dial", "write", "read"} /\ try' = 1 => Fresh(2 * call[c])'
             /\ pc'[c] = "dial" => Fresh(Dialled(c))'
  BY <1>1 DEF Inv, FreshInv, Fresh, Dialled
<1> QED BY <1>2, <1>3 DEF FreshInv

(* i3 executes the first request of a connection, which then waits there no more. *)
LEMMA ExecuteInv == \A k \in Conns : Inv /\ Execute(k) => Inv'
<1> SUFFICES ASSUME NEW k \in Conns, Inv, Execute(k) PROVE Inv'
  OBVIOUS
<1>0. PICK h : h = Head(requests[k])
  OBVIOUS
<1>1. PICK form \in Forms : Take(k, form)
  BY DEF Execute
<1>2. /\ UNCHANGED <<up, served, crashes, mu, conn, pc, try, call, calls, ended, leftOver>>
      /\ requests[k] \in Seq(Requests) /\ requests[k] # <<>> /\ Distinct(requests[k])
  BY <1>1 DEF Execute, Take, clientVars, Inv, ClientTypeOK, SentInv
<1>3. /\ h \in Requests /\ Tail(requests[k]) \in Seq(Requests)
      /\ Len(Tail(requests[k])) = Len(requests[k]) - 1
      /\ Occurs(requests[k], h) /\ ~Occurs(Tail(requests[k]), h) /\ Distinct(Tail(requests[k]))
      /\ \A r : r # h => (Occurs(Tail(requests[k]), r) <=> Occurs(requests[k], r))
  BY <1>0, <1>2, TailOccurs
<1>4. /\ requests' \in [Conns -> Seq(Requests)] /\ requests'[k] = Tail(requests[k])
      /\ \A l \in Conns \ {k} : requests'[l] = requests[l]
  BY <1>3 DEF Execute, Inv, ClientTypeOK
<1>5. /\ executed' \in [Requests -> Nat] /\ executed'[h] = executed[h] + 1
      /\ \A r \in Requests \ {h} : executed'[r] = executed[r]
  BY <1>0, <1>1, <1>3 DEF Take, Inv, ClientTypeOK
<1>6. inbox' = IF k = conn THEN Append(inbox, [to |-> h, form |-> form]) ELSE inbox
  BY <1>0, <1>1 DEF Take
<1>7. [to |-> h, form |-> form] \in Reply
  BY <1>3, I3ClientAssumption DEF Reply
<1>8. inbox' \in Seq(Reply)
  BY <1>6, <1>7 DEF Inv, ClientTypeOK
<1>9. ClientTypeOK' /\ ReplyMatches' /\ CallInv'
  BY <1>2, <1>4, <1>5, <1>8 DEF Inv, ClientTypeOK, ReplyMatches, CallInv
<1>10. \A r \in Requests \ {h} : /\ Never(r)' <=> Never(r)
                                 /\ Once(r) => Once(r)'
                                 /\ Twice(r) => Twice(r)'
  <2>1. \A r \in Requests \ {h} : \A l \in Conns : Occurs(requests'[l], r) <=> Occurs(requests[l], r)
    BY <1>3, <1>4
  <2> QED BY <1>5, <2>1 DEF Never, Once, Twice
<1>11. ~Never(h) /\ (Once(h) => Once(h)') /\ (Twice(h) => Twice(h)')
  <2>1. \A l \in Conns : Occurs(requests'[l], h) => Occurs(requests[l], h) /\ l # k
    BY <1>3, <1>4
  <2>2. executed[h] \in Nat
    BY <1>3 DEF Inv, ClientTypeOK
  <2>3. ~Never(h)
    BY <1>3 DEF Never
  <2>4. Once(h) => Once(h)'
    BY <1>3, <1>5, <2>1, <2>2 DEF Once
  <2>5. Twice(h) => Twice(h)'
    BY <1>3, <1>5, <2>1, <2>2 DEF Twice
  <2> QED BY <2>3, <2>4, <2>5
<1>12. SentInv'
  <2>1. \A r \in Requests : Twice(r)' /\ (r > calls' => Never(r)')
    BY <1>2, <1>10, <1>11 DEF Inv, SentInv
  <2>2. \A c \in Callers : pc[c] # "idle" => call[c] \in Requests
    BY DEF Inv, ClientTypeOK, CallInv
  <2>3. \A c \in Callers :
          /\ pc[c] = "lock" \/ (pc[c] \in {"dial", "write"} /\ try = 1) => Never(call[c])'
          /\ pc[c] \in {"dial", "write"} \/ (pc[c] = "read" /\ try = 1) => Once(call[c])'
    BY <1>2, <1>10, <1>11, <2>2 DEF Inv, SentInv
  <2>4. \A l \in Conns : Distinct(requests'[l])
    BY <1>3, <1>4 DEF Inv, SentInv
  <2>5. \A c \in Callers : pc[c] = "write" /\ try = 2 => requests'[conn] = <<>>
    BY <1>2, <1>4 DEF Inv, SentInv, CallInv, ClientTypeOK
  <2> QED BY <1>2, <2>1, <2>3, <2>4, <2>5 DEF SentInv
<1>13. FreshInv'
  <2>1. \A l \in Conns : Fresh(l) => Fresh(l)'
    BY <1>2, <1>4 DEF Fresh
  <2> QED BY <1>2, <2>1, FreshKept
<1>14. CleanInv'
  <2> SUFFICES ASSUME conn # 0, conn \notin leftOver PROVE CleanInv'
    BY <1>2 DEF CleanInv
  <2>1. CASE k # conn
    <3>1. requests'[conn] = requests[conn] /\ inbox' = inbox
      BY <1>4, <1>6, <2>1 DEF Inv, ClientTypeOK
    <3> QED BY <1>2, <3>1 DEF Inv, CleanInv
  <2>2. CASE k = conn
    <3>1. PICK c \in Callers : pc[c] = "read"
      BY <1>2, <2>2 DEF Inv, CleanInv
    <3>2. \A d \in Callers : pc[d] = "read" => d = c
      BY <3>1 DEF Inv, ClientTypeOK
    <3>3. /\ Len(requests[conn]) + Len(inbox) <= 1 /\ h = call[c]
          /\ inbox \in Seq(Reply) /\ Len(inbox) \in Nat /\ Len(requests[conn]) \in Nat /\ Len(requests[conn]) # 0
      <4>1. Len(requests[conn]) + Len(inbox) <= 1 /\ h = call[c]
        BY <1>0, <1>2, <2>2, <3>1 DEF Inv, CleanInv
      <4>2. inbox \in Seq(Reply) /\ Len(inbox) \in Nat
        BY DEF Inv, ClientTypeOK
      <4> QED BY <1>2, <2>2, <4>1, <4>2
    <3>4. Len(inbox) = 0 /\ Len(requests[conn]) = 1
      BY <3>3, SmallSum
    <3>5. inbox' = <<[to |-> h, form |-> form]>>
      BY <1>6, <1>7, <2>2, <3>3, <3>4
    <3>6. inbox' # <<>> /\ Len(inbox') = 1 /\ Head(inbox').to = call[c] /\ Len(requests'[conn]) = 0
      BY <1>3, <1>4, <2>2, <3>3, <3>4, <3>5
    <3>7. requests'[conn] = <<>>
      BY <1>3, <1>4, <2>2, <3>6
    <3> QED BY <1>2, <3>1, <3>2, <3>6, <3>7 DEF CleanInv
  <2> QED BY <2>1, <2>2
<1> QED BY <1>9, <1>12, <1>13, <1>14 DEF Inv

(* A crash empties every connection; of what was asked at most one request is
   executed, as by Execute, and its reply is cut. *)
LEMMA CrashInv == Inv /\ Crash => Inv'
<1> SUFFICES ASSUME Inv, Crash PROVE Inv'
  OBVIOUS
<1>1. /\ UNCHANGED <<mu, conn, pc, try, call, calls, ended, leftOver>>
      /\ up' = FALSE /\ served' = {} /\ crashes' = crashes + 1
      /\ requests' = [k \in Conns |-> <<>>]
  BY DEF Crash, clientVars
<1>2. /\ \A k \in Conns : requests'[k] = <<>>
      /\ requests' \in [Conns -> Seq(Requests)]
  BY <1>1
<1>3. /\ executed' \in [Requests -> Nat] /\ inbox' \in Seq(Reply)
      /\ \A r \in Requests : \/ executed'[r] = executed[r]
                             \/ executed'[r] = executed[r] + 1 /\ \E k \in Conns : Occurs(requests[k], r)
  <2>1. CASE UNCHANGED <<inbox, executed>>
    BY <2>1 DEF Inv, ClientTypeOK
  <2>2. ASSUME NEW k \in Conns, Take(k, "cut") PROVE <1>3!:
    <3>1. Head(requests[k]) \in Requests /\ Occurs(requests[k], Head(requests[k]))
      BY <2>2, TailOccurs DEF Take, Inv, ClientTypeOK, SentInv
    <3>2. [to |-> Head(requests[k]), form |-> "cut"] \in Reply
      BY <3>1 DEF Reply
    <3>3. inbox' \in Seq(Reply)
      BY <2>2, <3>2 DEF Take, Inv, ClientTypeOK
    <3> QED BY <2>2, <3>1, <3>3 DEF Take, Inv, ClientTypeOK
  <2> QED BY <2>1, <2>2 DEF Crash
<1>4. ClientTypeOK' /\ ReplyMatches' /\ CallInv'
  <2>1. ClientTypeOK'
    <3>1. up' \in BOOLEAN /\ served' \subseteq Conns /\ crashes' \in Nat
      <4>1. crashes \in Nat /\ crashes' = crashes + 1
        BY <1>1 DEF Inv, ClientTypeOK
      <4>2. up' \in BOOLEAN /\ served' \subseteq Conns
        BY <1>1, Zenon
      <4> QED BY <4>1, <4>2
    <3>2. requests' \in [Conns -> Seq(Requests)] /\ inbox' \in Seq(Reply)
          /\ executed' \in [Requests -> Nat]
      BY <1>2, <1>3
    <3> QED BY <1>1, <3>1, <3>2 DEF Inv, ClientTypeOK
  <2>2. ReplyMatches' /\ CallInv'
    BY <1>1 DEF Inv, ReplyMatches, CallInv
  <2> QED BY <2>1, <2>2
<1>5. \A r \in Requests : /\ Never(r) => Never(r)'
                          /\ Once(r) => Once(r)'
                          /\ Twice(r) => Twice(r)'
  <2>1. \A k \in Conns, r \in Requests : ~Occurs(requests'[k], r)
    BY <1>2, EmptyOccurs
  <2>2. \A r \in Requests : executed[r] \in Nat
    BY DEF Inv, ClientTypeOK
  <2> QED BY <1>3, <2>1, <2>2 DEF Never, Once, Twice
<1>6. SentInv'
  <2>1. \A c \in Callers : pc[c] # "idle" => call[c] \in Requests
    BY OwnConns DEF Inv
  <2>2. \A c \in Callers :
          /\ pc[c] = "lock" \/ (pc[c] \in {"dial", "write"} /\ try = 1) => Never(call[c])'
          /\ pc[c] \in {"dial", "write"} \/ (pc[c] = "read" /\ try = 1) => Once(call[c])'
    BY <1>1, <1>5, <2>1 DEF Inv, SentInv
  <2>3. \A r \in Requests : Twice(r)' /\ (r > calls' => Never(r)')
    BY <1>1, <1>5 DEF Inv, SentInv
  <2>4. \A c \in Callers : pc[c] = "write" => requests'[conn] = <<>>
    BY <1>2 DEF Inv, CallInv, ClientTypeOK
  <2>5. \A k \in Conns : Distinct(requests'[k])
    BY <1>2, EmptyOccurs
  <2> QED BY <1>1, <2>2, <2>3, <2>4, <2>5 DEF SentInv
<1>7. FreshInv'
  BY <1>1, <1>2, FreshKept DEF Fresh
<1>8. CleanInv'
  <2> SUFFICES ASSUME conn # 0, conn \notin leftOver PROVE CleanInv'
    BY <1>1 DEF CleanInv
  <2>1. requests'[conn] = <<>>
    BY <1>2 DEF Inv, ClientTypeOK
  <2>2. CASE UNCHANGED <<inbox, executed>>
    <3>1. requests[conn] \in Seq(Requests) /\ inbox \in Seq(Reply)
      BY DEF Inv, ClientTypeOK
    <3>2. Len(requests'[conn]) + Len(inbox') <= Len(requests[conn]) + Len(inbox)
      BY <2>1, <2>2, <3>1
    <3> QED BY <1>1, <2>1, <2>2, <3>1, <3>2 DEF Inv, CleanInv
  <2>3. ASSUME NEW k \in Conns, Take(k, "cut") PROVE CleanInv'
    <3>1. CASE k # conn
      <4>1. inbox' = inbox
        BY <2>3, <3>1 DEF Take
      <4>2. requests[conn] \in Seq(Requests) /\ inbox \in Seq(Reply)
        BY DEF Inv, ClientTypeOK
      <4>3. Len(requests'[conn]) + Len(inbox') <= Len(requests[conn]) + Len(inbox)
        BY <2>1, <4>1, <4>2
      <4> QED BY <1>1, <2>1, <4>1, <4>2, <4>3 DEF Inv, CleanInv
    <3>2. CASE k = conn
      <4>1. /\ requests[conn] \in Seq(Requests) /\ requests[conn] # <<>> /\ inbox \in Seq(Reply)
            /\ inbox' = Append(inbox, [to |-> Head(requests[conn]), form |-> "cut"])
        BY <2>3, <3>2 DEF Take, Inv, ClientTypeOK
      <4>2. PICK c \in Callers : pc[c] = "read"
        BY <4>1 DEF Inv, CleanInv
      <4>3. \A d \in Callers : pc[d] = "read" => d = c
        BY <4>2 DEF Inv, ClientTypeOK
      <4>4. Len(requests[conn]) + Len(inbox) <= 1 /\ Head(requests[conn]) = call[c]
        BY <4>1, <4>2 DEF Inv, CleanInv
      <4>5. Len(requests[conn]) \in Nat /\ Len(requests[conn]) # 0 /\ Len(inbox) \in Nat
        BY <4>1
      <4>6. Len(inbox) = 0
        BY <4>4, <4>5, SmallSum
      <4>7. [to |-> call[c], form |-> "cut"] \in Reply
        BY <4>2, OwnConns DEF Inv, Reply
      <4>8. inbox' = <<[to |-> call[c], form |-> "cut"]>>
        BY <4>1, <4>4, <4>6, <4>7
      <4>9. Len(inbox') = 1 /\ Head(inbox').to = call[c] /\ Len(requests'[conn]) = 0
        BY <2>1, <4>8
      <4> QED BY <1>1, <2>1, <4>2, <4>3, <4>9 DEF CleanInv
    <3> QED BY <3>1, <3>2
  <2> QED BY <2>2, <2>3 DEF Crash
<1> QED BY <1>4, <1>6, <1>7, <1>8 DEF Inv

(* A call gets the next number, of which nothing is known to i3. *)
LEMMA CallStepInv == \A c \in Callers : Inv /\ Call(c) => Inv'
<1> SUFFICES ASSUME NEW c \in Callers, Inv, Call(c) PROVE Inv'
  OBVIOUS
<1>1. /\ UNCHANGED <<up, served, requests, inbox, executed, crashes, mu, conn, try, leftOver>>
      /\ pc[c] = "idle" /\ calls < MaxCalls /\ calls \in Nat /\ calls' = calls + 1
      /\ call' = [call EXCEPT ![c] = calls + 1] /\ pc' = [pc EXCEPT ![c] = "lock"]
      /\ ended' = [ended EXCEPT ![c] = Pending]
  BY DEF Call, i3Vars, Inv, ClientTypeOK
<1>2. /\ call'[c] = calls + 1 /\ pc'[c] = "lock" /\ ended'[c] = Pending
      /\ \A d \in Callers \ {c} : call'[d] = call[d] /\ pc'[d] = pc[d] /\ ended'[d] = ended[d]
      /\ calls + 1 \in Requests /\ Pending \in Ending
  BY <1>1, I3ClientAssumption DEF Inv, ClientTypeOK, Requests, Ending, Pending
<1>3. ClientTypeOK'
  <2>1. /\ pc' \in [Callers -> {"idle", "lock", "dial", "write", "read"}]
        /\ call' \in [Callers -> Requests \cup {0}] /\ ended' \in [Callers -> Ending]
    BY <1>1, <1>2 DEF Inv, ClientTypeOK
  <2>2. \A d \in Callers : pc'[d] \in {"dial", "write", "read"} <=> mu' = d
    BY <1>1, <1>2 DEF Inv, ClientTypeOK
  <2>3. calls' \in 0..MaxCalls
    BY <1>1, I3ClientAssumption
  <2> QED BY <1>1, <2>1, <2>2, <2>3 DEF Inv, ClientTypeOK
<1>4. ReplyMatches'
  BY <1>1, <1>2 DEF Inv, ReplyMatches, Pending
<1>5. \A d \in Callers : call[d] <= calls /\ call[d] \in Nat
  BY DEF Inv, CallInv, ClientTypeOK, Requests
<1>6. CallInv'
  BY <1>1, <1>2, <1>5 DEF Inv, CallInv
<1>7. SentInv'
  <2>1. \A r \in Requests : r > calls' => r > calls
    BY <1>1 DEF Requests
  <2>2. \A r \in Requests : Twice(r)' /\ (r > calls' => Never(r)')
    BY <1>1, <2>1 DEF Inv, SentInv, Twice, Never
  <2>3. Never(calls + 1)
    BY <1>1, <1>2 DEF Inv, SentInv
  <2>4. \A d \in Callers :
          /\ pc'[d] = "lock" \/ (pc'[d] \in {"dial", "write"} /\ try = 1) => Never(call'[d])
          /\ pc'[d] \in {"dial", "write"} \/ (pc'[d] = "read" /\ try = 1) => Once(call'[d])
          /\ pc'[d] = "write" /\ try = 2 => requests[conn] = <<>>
    BY <1>2, <2>3 DEF Inv, SentInv
  <2> QED BY <1>1, <2>2, <2>4 DEF Inv, SentInv, Never, Once
<1>8. FreshInv'
  <2>1. \A r \in Requests : r > calls' => r > calls
    BY <1>1 DEF Requests
  <2>2. Fresh(2 * (calls + 1) - 1) /\ Fresh(2 * (calls + 1))
    BY <1>1, <1>2 DEF Inv, FreshInv
  <2>3. \A d \in Callers :
          /\ pc'[d] = "lock" => Fresh(2 * call'[d] - 1) /\ Fresh(2 * call'[d])
          /\ pc'[d] = "dial" => Fresh(2 * call'[d] + try - 2)
          /\ pc'[d] \in {"dial", "write", "read"} /\ try = 1 => Fresh(2 * call'[d])
    BY <1>2, <2>2 DEF Inv, FreshInv, Dialled
  <2> QED BY <1>1, <2>1, <2>3 DEF Inv, FreshInv, Fresh, Dialled
<1>9. CleanInv'
  BY <1>1, <1>2 DEF Inv, CleanInv
<1> QED BY <1>3, <1>4, <1>6, <1>7, <1>8, <1>9 DEF Inv

(* The mutex is taken for the first attempt. *)
LEMMA LockInv == \A c \in Callers : Inv /\ Lock(c) => Inv'
<1> SUFFICES ASSUME NEW c \in Callers, Inv, Lock(c) PROVE Inv'
  OBVIOUS
<1>1. /\ UNCHANGED <<up, served, requests, inbox, executed, crashes, conn, call, calls, ended,
                     leftOver>>
      /\ pc[c] = "lock" /\ mu = NoOne /\ mu' = c /\ try' = 1
      /\ pc' = [pc EXCEPT ![c] = IF conn = 0 THEN "dial" ELSE "write"]
  BY DEF Lock, i3Vars
<1>2. /\ pc'[c] = (IF conn = 0 THEN "dial" ELSE "write")
      /\ \A d \in Callers \ {c} : pc'[d] = pc[d] /\ pc[d] \in {"idle", "lock"}
      /\ call[c] \in Requests
  BY <1>1, OwnConns, I3ClientAssumption DEF Inv, ClientTypeOK
<1>3. ClientTypeOK'
  <2>1. pc' \in [Callers -> {"idle", "lock", "dial", "write", "read"}]
    BY <1>1 DEF Inv, ClientTypeOK
  <2>2. \A d \in Callers : pc'[d] \in {"dial", "write", "read"} <=> mu' = d
    BY <1>1, <1>2
  <2> QED BY <1>1, <2>1, <2>2 DEF Inv, ClientTypeOK
<1>4. ReplyMatches' /\ CallInv'
  BY <1>1, <1>2 DEF Inv, ReplyMatches, CallInv
<1>5. SentInv'
  <2>1. executed[call[c]] \in Nat
    BY <1>2 DEF Inv, ClientTypeOK
  <2>2. Never(call[c]) /\ Once(call[c])
    BY <1>1, <1>2, <2>1, OnceTwice DEF Inv, SentInv
  <2>3. \A d \in Callers :
          /\ pc'[d] = "lock" \/ (pc'[d] \in {"dial", "write"} /\ try' = 1) => Never(call[d])
          /\ pc'[d] \in {"dial", "write"} \/ (pc'[d] = "read" /\ try' = 1) => Once(call[d])
    BY <1>2, <2>2 DEF Inv, SentInv
  <2> QED BY <1>1, <2>3 DEF Inv, SentInv, Never, Once, Twice
<1>6. FreshInv'
  <2>1. call[c] \in Nat
    BY <1>2 DEF Requests
  <2>2. 2 * call[c] + 1 - 2 = 2 * call[c] - 1
    BY <2>1
  <2>3. \A d \in Callers :
          /\ pc'[d] = "lock" => Fresh(2 * call[d] - 1) /\ Fresh(2 * call[d])
          /\ pc'[d] = "dial" => Fresh(2 * call[d] + 1 - 2)
          /\ pc'[d] \in {"dial", "write", "read"} => Fresh(2 * call[d])
    BY <1>1, <1>2, <2>2 DEF Inv, FreshInv
  <2> QED BY <1>1, <2>3 DEF Inv, FreshInv, Fresh, Dialled
<1>7. CleanInv'
  BY <1>1, <1>2 DEF Inv, CleanInv
<1> QED BY <1>3, <1>4, <1>5, <1>6, <1>7 DEF Inv

Causes == {"dial", "pipe", "eof", "timeout", "desync", "huge", "cut"}

(* A failed attempt gives up its connection, or leaves it open for good. *)
LEMMA AttemptFailsInv ==
  ASSUME NEW c \in Callers, NEW cause \in Causes, Inv, AttemptFails(c, cause),
         pc[c] \in {"dial", "write", "read"},
         UNCHANGED <<up, served, requests, executed, crashes>>, inbox' \in Seq(Reply)
  PROVE  Inv'
<1>1. call[c] \in Requests /\ executed[call[c]] \in Nat /\ call[c] \in Nat /\ mu = c
  BY OwnConns DEF Inv, ClientTypeOK, Requests
<1>2. \A d \in Callers \ {c} : pc[d] \in {"idle", "lock"}
  BY <1>1 DEF Inv, ClientTypeOK
<1>3. CASE try = 1 /\ Recoverable(cause)
  <2>1. /\ try' = 2 /\ conn' = 0 /\ pc' = [pc EXCEPT ![c] = "dial"]
        /\ UNCHANGED <<mu, call, calls, ended, leftOver>>
    BY <1>3 DEF AttemptFails
  <2>2. pc'[c] = "dial" /\ \A d \in Callers \ {c} : pc'[d] = pc[d]
    BY <2>1 DEF Inv, ClientTypeOK
  <2>3. ClientTypeOK'
    <3>1. pc' \in [Callers -> {"idle", "lock", "dial", "write", "read"}]
      BY <2>1 DEF Inv, ClientTypeOK
    <3>2. \A d \in Callers : pc'[d] \in {"dial", "write", "read"} <=> mu' = d
      BY <1>1, <1>2, <2>1, <2>2
    <3> QED BY <2>1, <3>1, <3>2 DEF Inv, ClientTypeOK
  <2>4. ReplyMatches' /\ CallInv' /\ CleanInv'
    BY <1>2, <2>1, <2>2 DEF Inv, ReplyMatches, CallInv, CleanInv
  <2>5. SentInv'
    <3>1. Once(call[c])
      BY <1>1, <1>3, OnceTwice DEF Inv, SentInv
    <3>2. \A d \in Callers :
            /\ pc'[d] = "lock" \/ (pc'[d] \in {"dial", "write"} /\ try' = 1) => Never(call[d])
            /\ pc'[d] \in {"dial", "write"} \/ (pc'[d] = "read" /\ try' = 1) => Once(call[d])
            /\ pc'[d] # "write"
      BY <1>2, <2>1, <2>2, <3>1 DEF Inv, SentInv
    <3> QED BY <2>1, <3>2 DEF Inv, SentInv, Never, Once, Twice
  <2>6. FreshInv'
    <3>1. \A k \in Conns : Fresh(k) => requests'[k] = <<>> /\ k # conn'
      BY <2>1 DEF Fresh, Conns
    <3>2. Fresh(2 * call[c]) /\ 2 * call[c] + 2 - 2 = 2 * call[c] /\ 2 * call[c] \in Conns
      BY <1>1, <1>3, OwnConns DEF Inv, FreshInv
    <3>3. \A r \in Requests : 2 * r - 1 \in Conns /\ 2 * r \in Conns
      BY OwnConns DEF Inv
    <3>4. \A r \in Requests : r > calls' => Fresh(2 * r - 1)' /\ Fresh(2 * r)'
      BY <2>1, <3>1, <3>3 DEF Inv, FreshInv, Fresh
    <3>5. \A d \in Callers : pc'[d] = "lock" => Fresh(2 * call[d] - 1)' /\ Fresh(2 * call[d])'
      BY <2>1, <2>2, <3>1, <3>3, OwnConns DEF Inv, FreshInv, Fresh
    <3>6. \A d \in Callers : pc'[d] = "dial" => Fresh(2 * call[d] + try - 2)'
      BY <1>2, <2>1, <2>2, <3>1, <3>2 DEF Fresh
    <3> QED BY <2>1, <2>2, <1>2, <3>4, <3>5, <3>6 DEF FreshInv, Dialled
  <2> QED BY <2>3, <2>4, <2>5, <2>6 DEF Inv
<1>4. CASE ~(try = 1 /\ Recoverable(cause))
  <2> DEFINE e == [kind |-> "error", cause |-> cause, tries |-> try]
  <2>1. /\ pc' = [pc EXCEPT ![c] = "idle"] /\ ended' = [ended EXCEPT ![c] = e] /\ mu' = NoOne
        /\ UNCHANGED <<try, call, calls, conn>> /\ leftOver' = leftOver \cup ({conn} \ {0})
    BY <1>4 DEF AttemptFails, Fails, Return
  <2>2. e \in Ending /\ e.kind = "error"
    BY DEF Inv, ClientTypeOK, Ending, Causes
  <2> HIDE DEF e
  <2>3. /\ pc'[c] = "idle" /\ ended'[c] = e
        /\ \A d \in Callers \ {c} : pc'[d] = pc[d] /\ ended'[d] = ended[d]
    BY <2>1 DEF Inv, ClientTypeOK
  <2>4. ClientTypeOK'
    <3>1. /\ pc' \in [Callers -> {"idle", "lock", "dial", "write", "read"}]
          /\ ended' \in [Callers -> Ending] /\ leftOver' \subseteq Conns
      BY <2>1, <2>2 DEF Inv, ClientTypeOK
    <3>2. \A d \in Callers : pc'[d] \in {"dial", "write", "read"} <=> mu' = d
      BY <1>2, <2>1, <2>3, I3ClientAssumption
    <3> QED BY <2>1, <3>1, <3>2 DEF Inv, ClientTypeOK
  <2>5. ReplyMatches' /\ CallInv' /\ CleanInv'
    BY <1>2, <2>1, <2>2, <2>3 DEF Inv, ReplyMatches, CallInv, CleanInv
  <2>6. SentInv'
    <3>1. \A d \in Callers : pc'[d] = "lock" => Never(call[d])
      BY <2>3 DEF Inv, SentInv
    <3>2. \A d \in Callers : pc'[d] \in {"idle", "lock"}
      BY <1>2, <2>3
    <3> QED BY <2>1, <3>1, <3>2 DEF Inv, SentInv, Never, Twice
  <2>7. FreshInv'
    BY <1>2, <2>1, <2>3 DEF Inv, FreshInv, Fresh
  <2> QED BY <2>4, <2>5, <2>6, <2>7 DEF Inv
<1> QED BY <1>3, <1>4

(* The seven ways an attempt fails *)
LEMMA FailuresInv ==
  \A c \in Callers :
    Inv /\ (\/ DialFails(c) \/ WriteFails(c) \/ ReadDesync(c) \/ ReadTooLarge(c) \/ ReadCut(c)
            \/ ReadEOF(c) \/ ReadTimeout(c)) => Inv'
<1> SUFFICES ASSUME NEW c \in Callers, Inv,
                    \/ DialFails(c) \/ WriteFails(c) \/ ReadDesync(c) \/ ReadTooLarge(c)
                    \/ ReadCut(c) \/ ReadEOF(c) \/ ReadTimeout(c)
             PROVE  Inv'
  OBVIOUS
<1>1. inbox \in Seq(Reply)
  BY DEF Inv, ClientTypeOK
<1>2. /\ UNCHANGED <<up, served, requests, executed, crashes>>
      /\ inbox' = inbox \/ (inbox # <<>> /\ (Consume \/ LeaveRest))
  <2>1. CASE ReadTooLarge(c) \/ ReadCut(c) \/ ReadTimeout(c)
    BY <2>1 DEF ReadTooLarge, ReadCut, ReadTimeout, OnlyInbox, NextReply
  <2>2. CASE DialFails(c) \/ WriteFails(c) \/ ReadDesync(c) \/ ReadEOF(c)
    BY <2>2 DEF DialFails, WriteFails, ReadDesync, ReadEOF, i3Vars
  <2> QED BY <2>1, <2>2
<1>3. inbox' \in Seq(Reply)
  <2>1. CASE inbox # <<>>
    <3>1. Head(inbox) \in Reply /\ Tail(inbox) \in Seq(Reply)
      BY <1>1, <2>1
    <3>2. [Head(inbox) EXCEPT !.form = "rest"] \in Reply
      BY <3>1 DEF Reply
    <3>3. <<[Head(inbox) EXCEPT !.form = "rest"]>> \o Tail(inbox) \in Seq(Reply)
      BY <3>1, <3>2
    <3> QED BY <1>1, <1>2, <3>1, <3>3 DEF Consume, LeaveRest
  <2> QED BY <1>1, <1>2, <2>1
<1>4. pc[c] \in {"dial", "write", "read"} /\ \E cause \in Causes : AttemptFails(c, cause)
  BY DEF DialFails, WriteFails, ReadDesync, ReadTooLarge, ReadCut, ReadEOF, ReadTimeout, Causes
<1> QED BY <1>2, <1>3, <1>4, AttemptFailsInv

(* The new connection is the one of this attempt, and carries nothing. *)
LEMMA DialOKInv == \A c \in Callers : Inv /\ DialOK(c) => Inv'
<1> SUFFICES ASSUME NEW c \in Callers, Inv, DialOK(c) PROVE Inv'
  OBVIOUS
<1>1. /\ UNCHANGED <<up, requests, executed, crashes, mu, try, call, calls, ended, leftOver>>
      /\ pc[c] = "dial" /\ pc' = [pc EXCEPT ![c] = "write"] /\ inbox' = <<>>
      /\ conn' = Dialled(c) /\ served' = served \cup {Dialled(c)}
  BY DEF DialOK
<1>2. /\ call[c] \in Requests /\ call[c] \in Nat /\ mu = c /\ Dialled(c) \in Conns /\ try \in {1, 2}
      /\ Dialled(c) \in {2 * call[c] - 1, 2 * call[c]} /\ Dialled(c) # 0
      /\ (try = 1 => Dialled(c) # 2 * call[c]) /\ call[c] <= calls /\ calls \in Nat
  <2>1. call[c] \in Requests /\ Dialled(c) \in Conns
    BY <1>1, OwnConns DEF Inv
  <2>2. mu = c /\ try \in {1, 2} /\ call[c] <= calls /\ calls \in Nat
    BY <1>1, I3ClientAssumption DEF Inv, ClientTypeOK, CallInv
  <2>3. call[c] \in Nat /\ Dialled(c) # 0
    BY <2>1 DEF Requests, Conns
  <2> QED BY <2>1, <2>2, <2>3 DEF Dialled
<1>3. /\ pc'[c] = "write" /\ \A d \in Callers \ {c} : pc'[d] = pc[d] /\ pc[d] \in {"idle", "lock"}
  BY <1>1, <1>2 DEF Inv, ClientTypeOK
<1>4. requests[Dialled(c)] = <<>>
  BY <1>1 DEF Inv, FreshInv, Fresh
<1> HIDE DEF Dialled
<1>5. ClientTypeOK'
  <2>1. /\ pc' \in [Callers -> {"idle", "lock", "dial", "write", "read"}]
        /\ inbox' \in Seq(Reply) /\ served' \subseteq Conns /\ conn' \in Conns \cup {0}
    BY <1>1, <1>2 DEF Inv, ClientTypeOK
  <2>2. \A d \in Callers : pc'[d] \in {"dial", "write", "read"} <=> mu' = d
    BY <1>1, <1>2, <1>3
  <2> QED BY <1>1, <2>1, <2>2 DEF Inv, ClientTypeOK
<1>6. ReplyMatches' /\ CallInv'
  BY <1>1, <1>2, <1>3 DEF Inv, ReplyMatches, CallInv
<1>7. SentInv'
  <2>1. \A d \in Callers :
          /\ pc'[d] = "lock" \/ (pc'[d] \in {"dial", "write"} /\ try = 1) => Never(call[d])
          /\ pc'[d] \in {"dial", "write"} \/ (pc'[d] = "read" /\ try = 1) => Once(call[d])
    BY <1>1, <1>3 DEF Inv, SentInv
  <2> QED BY <1>1, <1>4, <2>1 DEF Inv, SentInv, Never, Once, Twice
<1>8. FreshInv'
  <2>1. \A k : Fresh(k) /\ k # Dialled(c) => requests'[k] = <<>> /\ k # conn'
    BY <1>1 DEF Fresh
  <2>2. \A r \in Requests : r # call[c] => Dialled(c) # 2 * r - 1 /\ Dialled(c) # 2 * r
    BY <1>2 DEF Requests
  <2>3. \A d \in Callers : pc'[d] = "lock" => call[d] \in Requests /\ call[d] # call[c]
    BY <1>2, <1>3, OwnConns DEF Inv, CallInv
  <2>4. \A r \in Requests : r > calls' => Fresh(2 * r - 1)' /\ Fresh(2 * r)'
    BY <1>1, <1>2, <2>1, <2>2 DEF Inv, FreshInv, Fresh, Requests
  <2>5. \A d \in Callers : pc'[d] = "lock" => Fresh(2 * call[d] - 1)' /\ Fresh(2 * call[d])'
    BY <1>1, <1>3, <2>1, <2>2, <2>3 DEF Inv, FreshInv, Fresh
  <2>6. try = 1 => Fresh(2 * call[c])'
    BY <1>1, <1>2, <2>1 DEF Inv, FreshInv, Fresh
  <2> QED BY <1>1, <1>3, <2>4, <2>5, <2>6 DEF FreshInv
<1>9. CleanInv'
  BY <1>1, <1>3, <1>4 DEF CleanInv
<1> QED BY <1>5, <1>6, <1>7, <1>8, <1>9 DEF Inv

(* A request is written once more, to a connection it does not wait on. *)
LEMMA WriteInv == \A c \in Callers : Inv /\ Write(c) => Inv'
<1> SUFFICES ASSUME NEW c \in Callers, Inv, Write(c) PROVE Inv'
  OBVIOUS
<1>1. /\ UNCHANGED <<up, served, inbox, executed, crashes, mu, conn, try, call, calls, ended,
                     leftOver>>
      /\ pc[c] = "write" /\ pc' = [pc EXCEPT ![c] = "read"]
      /\ requests' = [requests EXCEPT ![conn] = Append(@, call[c])]
  BY DEF Write
<1>2. /\ call[c] \in Requests /\ mu = c /\ conn \in Conns /\ conn # 0 /\ try \in {1, 2}
      /\ requests[conn] \in Seq(Requests) /\ executed[call[c]] \in Nat
  BY <1>1, OwnConns DEF Inv, ClientTypeOK, CallInv
<1>3. /\ pc'[c] = "read" /\ \A d \in Callers \ {c} : pc'[d] = pc[d] /\ pc[d] \in {"idle", "lock"}
  BY <1>1, <1>2 DEF Inv, ClientTypeOK
<1>4. /\ Append(requests[conn], call[c]) \in Seq(Requests)
      /\ \A r : Occurs(Append(requests[conn], call[c]), r) <=> Occurs(requests[conn], r) \/ r = call[c]
      /\ Distinct(requests[conn]) /\ ~Occurs(requests[conn], call[c]) =>
           Distinct(Append(requests[conn], call[c]))
  BY <1>2, AppendOccurs
<1>5. /\ requests' \in [Conns -> Seq(Requests)]
      /\ requests'[conn] = Append(requests[conn], call[c])
      /\ \A k \in Conns \ {conn} : requests'[k] = requests[k]
  BY <1>1, <1>2, <1>4 DEF Inv, ClientTypeOK
<1>6. ClientTypeOK'
  <2>1. pc' \in [Callers -> {"idle", "lock", "dial", "write", "read"}]
    BY <1>1 DEF Inv, ClientTypeOK
  <2>2. \A d \in Callers : pc'[d] \in {"dial", "write", "read"} <=> mu' = d
    BY <1>1, <1>2, <1>3
  <2> QED BY <1>1, <1>5, <2>1, <2>2 DEF Inv, ClientTypeOK
<1>7. ReplyMatches' /\ CallInv'
  BY <1>1, <1>2, <1>3 DEF Inv, ReplyMatches, CallInv
<1>8. (try = 1 => Never(call[c])) /\ Once(call[c]) /\ ~Occurs(requests[conn], call[c])
  BY <1>1, <1>2, EmptyOccurs DEF Inv, SentInv, Never
<1>9. SentInv'
  <2>1. \A k \in Conns, r \in Requests \ {call[c]} : Occurs(requests'[k], r) <=> Occurs(requests[k], r)
    BY <1>4, <1>5
  <2>2. \A k \in Conns : Occurs(requests'[k], call[c]) <=> Occurs(requests[k], call[c]) \/ k = conn
    BY <1>4, <1>5
  <2>3. \A r \in Requests \ {call[c]} :
          (Never(r) => Never(r)') /\ (Once(r) => Once(r)') /\ (Twice(r) => Twice(r)')
    BY <1>1, <2>1 DEF Never, Once, Twice
  <2>4. PICK r \in Requests : r = call[c]
    BY <1>2
  <2>5. Twice(r)'
    BY <1>1, <1>2, <1>8, <2>2, <2>4 DEF Once, Twice
  <2>6. try = 1 => Once(r)'
    BY <1>1, <1>2, <1>8, <2>2, <2>4 DEF Never, Once
  <2>7. \A q \in Requests : Twice(q)' /\ (q > calls' => Never(q)')
    <3>1. ~(call[c] > calls)
      BY <1>2 DEF Inv, CallInv, ClientTypeOK, Requests
    <3> QED BY <1>1, <2>3, <2>4, <2>5, <3>1 DEF Inv, SentInv
  <2>8. \A d \in Callers : pc'[d] = "lock" => Never(call[d])'
    <3>1. \A d \in Callers : pc'[d] = "lock" => call[d] \in Requests \ {call[c]}
      BY <1>2, <1>3, OwnConns DEF Inv, CallInv
    <3> QED BY <1>1, <1>3, <2>3, <3>1 DEF Inv, SentInv
  <2>9. try = 1 => Once(call[c])'
    BY <1>1, <2>4, <2>6 DEF Once
  <2>10. \A k \in Conns : Distinct(requests'[k])
    BY <1>4, <1>5, <1>8 DEF Inv, SentInv
  <2> QED BY <1>1, <1>3, <2>7, <2>8, <2>9, <2>10 DEF SentInv
<1>10. FreshInv'
  <2>1. \A k \in Conns : Fresh(k) => Fresh(k)'
    BY <1>1, <1>5 DEF Fresh
  <2>2. \A r \in Requests : 2 * r - 1 \in Conns /\ 2 * r \in Conns
    BY OwnConns DEF Inv
  <2>3. \A r \in Requests : r > calls' => Fresh(2 * r - 1)' /\ Fresh(2 * r)'
    BY <1>1, <2>1, <2>2 DEF Inv, FreshInv
  <2>4. \A d \in Callers : pc'[d] = "lock" => Fresh(2 * call[d] - 1)' /\ Fresh(2 * call[d])'
    <3>1. \A d \in Callers : pc'[d] = "lock" => call[d] \in Requests /\ pc[d] = "lock"
      BY <1>3, OwnConns DEF Inv
    <3> QED BY <1>1, <2>1, <2>2, <3>1 DEF Inv, FreshInv, Fresh
  <2>5. try = 1 => Fresh(2 * call[c])'
    BY <1>1, <1>2, <2>1, <2>2 DEF Inv, FreshInv
  <2> QED BY <1>1, <1>3, <2>3, <2>4, <2>5 DEF FreshInv, Fresh
<1>11. CleanInv'
  <2> SUFFICES ASSUME conn \notin leftOver PROVE CleanInv'
    BY <1>1 DEF CleanInv
  <2>1. requests[conn] = <<>> /\ inbox = <<>>
    BY <1>1, <1>2, <1>3 DEF Inv, CleanInv
  <2>2. requests'[conn] = <<call[c]>>
    BY <1>2, <1>5, <2>1
  <2>3. Len(requests'[conn]) = 1 /\ Len(inbox) = 0 /\ Head(requests'[conn]) = call[c]
    BY <2>1, <2>2
  <2> QED BY <1>1, <1>3, <2>1, <2>3 DEF CleanInv
<1> QED BY <1>6, <1>7, <1>9, <1>10, <1>11 DEF Inv

(* The reply that is read is the call's own, unless a failed call left the
   connection open; then it is the only one there was. *)
LEMMA ReadReplyInv == \A c \in Callers : Inv /\ ReadReply(c) => Inv'
<1> SUFFICES ASSUME NEW c \in Callers, Inv, ReadReply(c) PROVE Inv'
  OBVIOUS
<1> DEFINE e == [kind |-> "reply", to |-> Head(inbox).to, from |-> conn]
<1>1. /\ UNCHANGED <<up, served, requests, executed, crashes, conn, try, call, calls, leftOver>>
      /\ pc[c] = "read" /\ pc' = [pc EXCEPT ![c] = "idle"] /\ inbox # <<>> /\ inbox' = Tail(inbox)
      /\ mu' = NoOne /\ ended' = [ended EXCEPT ![c] = e]
  BY DEF ReadReply, OnlyInbox, Return, NextReply, Consume
<1>2. /\ mu = c /\ conn \in Conns /\ conn # 0 /\ inbox \in Seq(Reply)
      /\ requests[conn] \in Seq(Requests)
  BY <1>1 DEF Inv, ClientTypeOK, CallInv
<1>3. Head(inbox) \in Reply /\ Tail(inbox) \in Seq(Reply)
  BY <1>1, <1>2
<1>4. e \in Ending /\ e.to = Head(inbox).to /\ e.from = conn
  BY <1>2, <1>3 DEF Ending, Reply
<1>5. Head(inbox).to = call[c] \/ conn \in leftOver
  BY <1>1, <1>2 DEF Inv, CleanInv
<1> HIDE DEF e
<1>6. /\ pc'[c] = "idle" /\ ended'[c] = e
      /\ \A d \in Callers \ {c} : /\ pc'[d] = pc[d] /\ pc[d] \in {"idle", "lock"}
                                  /\ ended'[d] = ended[d]
  BY <1>1, <1>2 DEF Inv, ClientTypeOK
<1>7. ClientTypeOK'
  <2>1. /\ pc' \in [Callers -> {"idle", "lock", "dial", "write", "read"}]
        /\ ended' \in [Callers -> Ending] /\ inbox' \in Seq(Reply)
    BY <1>1, <1>3, <1>4 DEF Inv, ClientTypeOK
  <2>2. \A d \in Callers : pc'[d] \in {"dial", "write", "read"} <=> mu' = d
    BY <1>1, <1>6, I3ClientAssumption
  <2> QED BY <1>1, <2>1, <2>2 DEF Inv, ClientTypeOK
<1>8. ReplyMatches' /\ CallInv'
  BY <1>1, <1>4, <1>5, <1>6 DEF Inv, ReplyMatches, CallInv
<1>9. SentInv'
  BY <1>1, <1>6 DEF Inv, SentInv, Never, Once, Twice
<1>10. FreshInv'
  BY <1>1, <1>6 DEF Inv, FreshInv, Fresh
<1>11. CleanInv'
  <2> SUFFICES ASSUME conn \notin leftOver PROVE requests[conn] = <<>> /\ inbox' = <<>>
    BY <1>1, <1>6 DEF CleanInv
  <2>1. Len(inbox) + Len(requests[conn]) <= 1
    <3>1. Len(requests[conn]) + Len(inbox) <= 1
      BY <1>1, <1>2 DEF Inv, CleanInv
    <3> QED BY <1>2, <3>1
  <2>2. Len(inbox) \in Nat /\ Len(requests[conn]) \in Nat /\ Len(inbox) # 0
    BY <1>1, <1>2
  <2>3. Len(inbox) = 1 /\ Len(requests[conn]) = 0
    BY <2>1, <2>2, SmallSum
  <2> QED BY <1>1, <1>2, <1>3, <2>3
<1> QED BY <1>7, <1>8, <1>9, <1>10, <1>11 DEF Inv

(* Close leaves no connection behind for a later call. *)
LEMMA CloseInv == Inv /\ Close => Inv'
<1> SUFFICES ASSUME Inv, Close PROVE Inv'
  OBVIOUS
<1>1. /\ UNCHANGED <<up, served, requests, inbox, executed, crashes, mu, pc, try, call, calls, ended,
                     leftOver>>
      /\ mu = NoOne /\ conn' = 0
  BY DEF Close, i3Vars
<1>2. \A c \in Callers : pc[c] \in {"idle", "lock"}
  BY <1>1, I3ClientAssumption DEF Inv, ClientTypeOK
<1>3. ClientTypeOK' /\ ReplyMatches' /\ CallInv' /\ CleanInv'
  BY <1>1, <1>2 DEF Inv, ClientTypeOK, ReplyMatches, CallInv, CleanInv
<1>4. SentInv'
  BY <1>1, <1>2 DEF Inv, SentInv, Never, Once, Twice
<1>5. FreshInv'
  <2>1. \A k \in Conns : Fresh(k) => Fresh(k)'
    BY <1>1 DEF Fresh, Conns
  <2> QED BY <1>1, <2>1, FreshKept
<1> QED BY <1>3, <1>4, <1>5 DEF Inv

-----------------------------------------------------------------------------
(* The theorems *)

LEMMA NextInv == Inv /\ [Next]_vars => Inv'
<1> SUFFICES ASSUME Inv, [Next]_vars PROVE Inv'
  OBVIOUS
<1>1. ASSUME UNCHANGED <<requests, inbox, executed, crashes, served, clientVars>>, up' \in BOOLEAN
      PROVE  Inv'
  BY <1>1 DEF clientVars, Inv, ClientTypeOK, ReplyMatches, CallInv, SentInv, Never, Once, Twice,
              FreshInv, Fresh, Dialled, CleanInv
<1>2. CASE Start \/ Terminated \/ UNCHANGED vars
  <2>1. up \in BOOLEAN
    BY DEF Inv, ClientTypeOK
  <2> QED BY <1>1, <1>2, <2>1 DEF Start, Terminated, vars, i3Vars
<1>3. CASE Next
  BY <1>2, <1>3, ExecuteInv, CrashInv, CallStepInv, LockInv, FailuresInv, DialOKInv, WriteInv,
     ReadReplyInv, CloseInv DEF Next, ClientStep, I3Step
<1> QED BY <1>2, <1>3

LEMMA Invariance == Spec => []Inv
<1> QED BY InitInv, NextInv, PTL DEF Spec

(* One call at a time is inside roundTrip (i3client.go:128-131). *)
THEOREM ClientTypeTheorem == Spec => []ClientTypeOK
<1>1. Inv => ClientTypeOK
  BY DEF Inv
<1> QED BY <1>1, Invariance, PTL

(* A call returns the reply to its own request, unless the connection was left
   open by an earlier call that failed (i3client.go:128-161). *)
THEOREM ReplyTheorem == Spec => []ReplyMatches
<1>1. Inv => ReplyMatches
  BY DEF Inv
<1> QED BY <1>1, Invariance, PTL

(* A retried request is executed at most twice, and at most once before the retry
   (i3client.go:133-161). *)
THEOREM ExecutedTheorem == Spec => []ExecutedAtMostTwice
<1>1. Inv => ExecutedAtMostTwice
  <2> SUFFICES ASSUME Inv PROVE ExecutedAtMostTwice
    OBVIOUS
  <2>1. \A c \in Callers : mu = c => call[c] \in Requests /\ pc[c] \in {"dial", "write", "read"}
    BY OwnConns DEF Inv, ClientTypeOK
  <2>2. \A c \in Callers : mu = c /\ try = 1 => Once(call[c])
    BY <2>1 DEF Inv, SentInv
  <2> QED BY <2>2 DEF Inv, SentInv, Once, Twice, ExecutedAtMostTwice
<1> QED BY <1>1, Invariance, PTL
=============================================================================
