-------------------------- MODULE ProcessesProofs --------------------------
(***************************************************************************)
(* Proofs that every answer of is_ancestor is right as AncestorSound and   *)
(* AncestorComplete say, and that the poll reports what is new, for any    *)
(* number of processes and forks.                                          *)
(***************************************************************************)
EXTENDS Processes, Poll, SequenceTheorems, TLAPS

-----------------------------------------------------------------------------
(* Ancestors.  A parent function here is one into the processes and 0. *)

Parents == [Pids -> {0} \cup Pids]

(* A process is in its lineage, with all parents of what is there. *)
LEMMA LineageClosed ==
  ASSUME NEW f \in Parents, NEW p \in Pids
  PROVE  /\ p \in Lineage(f, p) /\ Lineage(f, p) \in SUBSET Pids
         /\ ClosedUp(f, Lineage(f, p))
BY DEF Lineage, ClosedUp, Parents

(* The lineage is the smallest such set. *)
LEMMA LineageLeast ==
  ASSUME NEW f, NEW p, NEW S \in SUBSET Pids, p \in S, ClosedUp(f, S)
  PROVE  Lineage(f, p) \subseteq S
BY DEF Lineage

(* An ancestor's ancestors are ancestors. *)
LEMMA LineageTransitive ==
  ASSUME NEW f \in Parents, NEW p \in Pids, NEW q \in Lineage(f, p)
  PROVE  q \in Pids /\ Lineage(f, q) \subseteq Lineage(f, p)
BY LineageClosed, LineageLeast

(* Above a process are itself and what is above its parent. *)
LEMMA LineageStep ==
  ASSUME NEW f \in Parents, NEW p \in Pids, f[p] # 0
  PROVE  /\ f[p] \in Pids /\ Lineage(f, f[p]) \subseteq Lineage(f, p)
         /\ Lineage(f, p) \subseteq {p} \cup Lineage(f, f[p])
<1>1. f[p] \in Pids /\ f[p] \in Lineage(f, p)
  BY LineageClosed DEF Parents, ClosedUp
<1>2. p \in {p} \cup Lineage(f, f[p]) /\ {p} \cup Lineage(f, f[p]) \in SUBSET Pids
  BY <1>1, LineageClosed
<1>3. ClosedUp(f, {p} \cup Lineage(f, f[p]))
  BY <1>1, LineageClosed DEF ClosedUp
<1> QED BY <1>1, <1>2, <1>3, LineageTransitive, LineageLeast

(* Above a process without a parent is nobody. *)
LEMMA LineageRoot ==
  ASSUME NEW f \in Parents, NEW p \in Pids, f[p] = 0
  PROVE  Lineage(f, p) = {p}
<1>1. ClosedUp(f, {p})
  BY DEF ClosedUp
<1> QED BY <1>1, LineageClosed, LineageLeast

(* Of two processes above a third one is above the other. *)
LEMMA LineageLinear ==
  ASSUME NEW f \in Parents, NEW d \in Pids, NEW a \in Lineage(f, d), NEW q \in Lineage(f, d)
  PROVE  q \in Lineage(f, a) \/ a \in Lineage(f, q)
<1> DEFINE S == {r \in Pids : r \in Lineage(f, a) \/ a \in Lineage(f, r)}
<1>1. a \in Pids /\ d \in S
  BY LineageClosed
<1>2. ASSUME NEW r \in S, f[r] # 0 PROVE f[r] \in S
  <2>1. f[r] \in Pids
    BY <1>2 DEF Parents
  <2>2. CASE r \in Lineage(f, a)
    BY <1>1, <1>2, <2>1, <2>2, LineageClosed DEF ClosedUp
  <2>3. CASE a \in Lineage(f, r) /\ a # r
    BY <1>2, <2>1, <2>3, LineageStep
  <2>4. CASE a = r
    BY <1>1, <2>2, <2>4, LineageClosed
  <2> QED BY <1>2, <2>2, <2>3, <2>4
<1>3. ClosedUp(f, S) /\ S \in SUBSET Pids
  BY <1>2 DEF ClosedUp
<1> QED BY <1>1, <1>3, LineageLeast

(* Parents that are taken from the lineages lengthen none. *)
LEMMA LineageShrinks ==
  ASSUME NEW f \in Parents, NEW g \in Parents, NEW p \in Pids,
         \A q \in Lineage(f, p) : g[q] # 0 => g[q] \in Lineage(f, q)
  PROVE  Lineage(g, p) \subseteq Lineage(f, p)
<1>1. ClosedUp(g, Lineage(f, p))
  BY LineageTransitive DEF ClosedUp
<1> QED BY <1>1, LineageClosed, LineageLeast

-----------------------------------------------------------------------------
(* The inductive invariant *)

ProcTypeOK ==
  /\ table \in SUBSET Pids /\ zombies \in SUBSET table /\ parent \in Parents
  /\ ask \in [ancestor : Pids, descendant : Pids] /\ cur \in Pids
  /\ answer \in {"none", "yes", "no"}
  /\ above \in SUBSET Pids /\ chain \in SUBSET Pids /\ replaced \in BOOLEAN

(* Parents are processes that have not exited, and only processes have one;
   nobody is above itself. *)
TreeInv ==
  \A p \in Pids : parent[p] # 0 =>
    p \in table /\ parent[p] \in table \ zombies /\ p \notin Lineage(parent, parent[p])

(* Unless the walk met a number that was used again, whoever is above the
   process it has come to was above the descendant. *)
SoundInv == answer = "none" /\ ~replaced => Lineage(parent, cur) \subseteq above

(* While nobody on the way to the ancestor has exited, the parents on the way are
   what they were, and the walk is on it. *)
CompleteInv ==
  /\ zombies \subseteq exited
  /\ ask.ancestor \in above /\ chain \cap exited = {} =>
       /\ \A p \in chain \ {ask.ancestor} : p # 1 /\ parent[p] \in chain
       /\ cur \in chain /\ answer # "no"

ProcInv == ProcTypeOK /\ TreeInv /\ SoundInv /\ CompleteInv /\ AncestorSound

(* When the call begins, processes have greater numbers than their parents. *)
LEMMA LineageDescends ==
  ASSUME NEW f \in Parents, \A q \in Pids : f[q] < q, NEW p \in Pids
  PROVE  \A q \in Lineage(f, p) : q <= p
<1>1. ClosedUp(f, 1..p) /\ 1..p \in SUBSET Pids /\ p \in 1..p
  BY ProcessesAssumption DEF ClosedUp, Parents, Pids
<1>2. Lineage(f, p) \subseteq 1..p
  BY <1>1, LineageLeast
<1> QED BY <1>2 DEF Pids

LEMMA ProcInitInv == ProcInit => ProcInv
<1> SUFFICES ASSUME ProcInit PROVE ProcInv
  OBVIOUS
<1> DEFINE a == ask.ancestor
           d == ask.descendant
<1>1. parent \in Parents /\ a \in Pids /\ d \in Pids /\ cur = d /\ answer = "none"
  BY DEF ProcInit, Parents, Pids
<1>2. \A q \in Pids : parent[q] < q /\ (q \notin table => parent[q] = 0) /\ parent[q] \in {0} \cup table
  BY DEF ProcInit
<1>3. \A p \in Pids : \A q \in Lineage(parent, p) : q <= p
  BY <1>1, <1>2, LineageDescends
<1>4. above = Lineage(parent, d) /\ above \in SUBSET Pids /\ d \in above
  BY <1>1, LineageClosed DEF ProcInit
<1>5. ProcTypeOK
  BY <1>1, <1>4 DEF ProcInit, ProcTypeOK
<1>6. TreeInv
  <2> SUFFICES ASSUME NEW p \in Pids, parent[p] # 0
               PROVE  p \in table /\ parent[p] \in table \ zombies /\ p \notin Lineage(parent, parent[p])
    BY DEF TreeInv
  <2>1. parent[p] \in Pids /\ parent[p] < p
    BY <1>1, <1>2 DEF Parents
  <2> QED BY <1>2, <1>3, <2>1 DEF ProcInit, Pids
<1>7. ASSUME a \in above
      PROVE  cur \in chain /\ \A p \in chain \ {a} : p # 1 /\ parent[p] \in chain
  <2>1. chain = (above \ Lineage(parent, a)) \cup {a}
    BY <1>7 DEF ProcInit
  <2>2. ASSUME NEW p \in Pids, p \in Lineage(parent, a), a \in Lineage(parent, p) PROVE p = a
    BY <1>1, <1>3, <2>2 DEF Pids
  <2>3. ASSUME NEW p \in chain, p # a PROVE p # 1 /\ parent[p] \in chain
    <3>1. p \in above /\ p \in Pids /\ p \notin Lineage(parent, a)
      BY <1>4, <2>1, <2>3
    <3>2. a \in Lineage(parent, p)
      BY <1>1, <1>4, <1>7, <3>1, LineageLinear
    <3>3. parent[p] # 0
      BY <1>1, <2>3, <3>1, <3>2, LineageRoot
    <3>4. parent[p] \in Pids /\ parent[p] \in above /\ a \in Lineage(parent, parent[p])
      BY <1>1, <1>4, <2>3, <3>1, <3>2, <3>3, LineageStep, LineageClosed DEF ClosedUp
    <3>5. parent[p] = a \/ parent[p] \notin Lineage(parent, a)
      BY <2>2, <3>4
    <3>6. p # 1
      BY <1>1, <1>2, <3>1, <3>3 DEF Parents, Pids
    <3> QED BY <2>1, <3>4, <3>5, <3>6
  <2>4. cur \in chain
    BY <1>1, <1>4, <1>7, <2>1, <2>2
  <2> QED BY <2>3, <2>4
<1>8. SoundInv /\ AncestorSound
  BY <1>1, <1>4 DEF ProcInit, SoundInv, AncestorSound
<1>9. CompleteInv
  BY <1>1, <1>7 DEF ProcInit, CompleteInv
<1> QED BY <1>5, <1>6, <1>8, <1>9 DEF ProcInv

(* A process is forked: it is above nobody. *)
LEMMA ForkInv ==
  ASSUME ProcInv, NEW p \in Pids, NEW c \in Pids, Fork(p, c)
  PROVE  ProcInv'
<1> USE DEF ProcInv, ProcTypeOK, Fork, callVars
<1>1. ProcTypeOK' /\ c # p /\ c \notin table /\ parent[c] = 0
  BY DEF Parents, TreeInv
<1>2. \A q \in Pids : parent[q] # c /\ parent'[q] = IF q = c THEN p ELSE parent[q]
  <2>1. \A q \in Pids : parent'[q] = IF q = c THEN p ELSE parent[q]
    BY DEF Parents
  <2>2. \A q \in Pids : parent[q] = 0 \/ parent[q] \in table
    BY DEF TreeInv
  <2>3. c # 0
    BY DEF Pids
  <2> QED BY <1>1, <2>1, <2>2, <2>3
<1>3. ASSUME NEW q \in Pids, q # c
      PROVE  c \notin Lineage(parent, q) /\ Lineage(parent', q) \subseteq Lineage(parent, q)
  <2>1. ClosedUp(parent, Pids \ {c})
    BY <1>2 DEF ClosedUp, Parents
  <2>2. c \notin Lineage(parent, q)
    BY <1>3, <2>1, LineageLeast
  <2>3. \A r \in Lineage(parent, q) : parent'[r] # 0 => parent'[r] \in Lineage(parent, r)
    BY <1>2, <2>2, LineageClosed, LineageTransitive DEF ClosedUp
  <2> QED BY <1>1, <2>2, <2>3, LineageShrinks
<1>4. TreeInv'
  <2> SUFFICES ASSUME NEW q \in Pids, parent'[q] # 0
               PROVE  /\ q \in table' /\ parent'[q] \in table' \ zombies'
                      /\ q \notin Lineage(parent', parent'[q])
    BY DEF TreeInv
  <2>1. CASE q = c
    <3>1. parent'[q] = p /\ c \notin Lineage(parent', p)
      BY <1>1, <1>2, <1>3, <2>1
    <3> QED BY <1>1, <2>1, <3>1
  <2>2. CASE q # c
    <3>1. parent'[q] = parent[q] /\ parent[q] \in Pids /\ parent[q] # c
      BY <1>2, <2>2 DEF Parents
    <3>2. q \in table /\ parent[q] \in table \ zombies /\ q \notin Lineage(parent, parent[q])
      BY <3>1 DEF TreeInv
    <3>3. q \notin Lineage(parent', parent'[q])
      BY <1>3, <3>1, <3>2
    <3> QED BY <3>1, <3>2, <3>3
  <2> QED BY <2>1, <2>2
<1>5. SoundInv' /\ AncestorSound'
  BY <1>3 DEF SoundInv, AncestorSound
<1>6. CompleteInv'
  <2>1. \A q \in chain : parent[q] \in chain => q # c
    BY <1>1 DEF Pids
  <2>2. \A q \in chain : parent[q] \in chain => parent'[q] \in chain
    BY <1>2, <2>1
  <2> QED BY <2>2 DEF CompleteInv
<1> QED BY <1>1, <1>4, <1>5, <1>6

(* A process exits: its children are given to one above it. *)
LEMMA ExitInv ==
  ASSUME ProcInv, NEW p \in Pids, Exit(p)
  PROVE  ProcInv'
<1> USE DEF ProcInv, ProcTypeOK, Exit, callVars
<1>1. PICK reaper \in Lineage(parent, parent[p]) :
        parent' = [q \in Pids |-> IF q \in table /\ parent[q] = p THEN reaper ELSE parent[q]]
  OBVIOUS
<1>2. p \in table \ zombies /\ parent[p] \in Pids /\ reaper \in Pids /\ reaper # p
  BY LineageClosed DEF Parents, TreeInv
<1>3. ProcTypeOK'
  BY <1>1, <1>2 DEF Parents
<1>4. ASSUME NEW q \in Pids
      PROVE  /\ parent'[q] = IF parent[q] = p THEN reaper ELSE parent[q]
             /\ parent'[q] # 0 => parent'[q] \in Lineage(parent, q)
             /\ parent[q] # 0 => parent'[q] \in Lineage(parent, parent[q])
  <2>1. parent'[q] = IF parent[q] = p THEN reaper ELSE parent[q]
    BY <1>1, <1>2 DEF TreeInv, Parents, Pids
  <2>2. parent[q] # 0 => /\ parent'[q] \in Lineage(parent, parent[q])
                         /\ Lineage(parent, parent[q]) \subseteq Lineage(parent, q)
    BY <1>1, <1>2, <2>1, LineageStep, LineageClosed DEF Parents
  <2> QED BY <1>2, <2>1, <2>2 DEF Parents, Pids
<1>5. ASSUME NEW q \in Pids PROVE Lineage(parent', q) \subseteq Lineage(parent, q)
  BY <1>3, <1>4, LineageShrinks, LineageTransitive
<1>6. reaper \in table \ zombies
  <2>1. ClosedUp(parent, table \ zombies) /\ table \ zombies \in SUBSET Pids
    BY DEF ClosedUp, TreeInv
  <2> QED BY <1>2, <2>1, LineageLeast DEF TreeInv
<1>7. TreeInv'
  <2> SUFFICES ASSUME NEW q \in Pids, parent'[q] # 0
               PROVE  /\ q \in table' /\ parent'[q] \in table' \ zombies'
                      /\ q \notin Lineage(parent', parent'[q])
    BY DEF TreeInv
  <2>1. parent[q] # 0 /\ parent[q] \in Pids
    BY <1>2, <1>4 DEF Parents, Pids
  <2>2. parent'[q] \in Pids /\ Lineage(parent', parent'[q]) \subseteq Lineage(parent, parent[q])
    BY <1>4, <1>5, <2>1, LineageTransitive
  <2> QED BY <1>2, <1>4, <1>6, <2>1, <2>2 DEF TreeInv
<1>8. SoundInv' /\ AncestorSound'
  BY <1>5 DEF SoundInv, AncestorSound
<1>9. CompleteInv'
  BY <1>2, <1>4 DEF CompleteInv
<1> QED BY <1>3, <1>7, <1>8, <1>9

(* A process is reaped: nobody is its child. *)
LEMMA ReapInv ==
  ASSUME ProcInv, NEW p \in Pids, Reap(p)
  PROVE  ProcInv'
<1> USE DEF ProcInv, ProcTypeOK, Reap, callVars
<1>1. ProcTypeOK'
  BY DEF Parents
<1>2. \A q \in Pids : parent'[q] = IF q = p THEN 0 ELSE parent[q]
  BY DEF Parents
<1>3. ASSUME NEW q \in Pids PROVE Lineage(parent', q) \subseteq Lineage(parent, q)
  <2>1. \A r \in Lineage(parent, q) : parent'[r] # 0 => parent'[r] \in Lineage(parent, r)
    BY <1>2, LineageTransitive, LineageClosed DEF ClosedUp
  <2> QED BY <1>1, <2>1, LineageShrinks
<1>4. TreeInv'
  <2> SUFFICES ASSUME NEW q \in Pids, parent'[q] # 0
               PROVE  /\ q \in table' /\ parent'[q] \in table' \ zombies'
                      /\ q \notin Lineage(parent', parent'[q])
    BY DEF TreeInv
  <2>1. q # p /\ parent'[q] = parent[q] /\ parent[q] \in Pids
    BY <1>2 DEF Parents
  <2>2. Lineage(parent', parent[q]) \subseteq Lineage(parent, parent[q])
    BY <1>3, <2>1
  <2>3. q \in table /\ parent[q] \in table \ zombies /\ q \notin Lineage(parent, parent[q])
    BY <2>1 DEF TreeInv
  <2>4. q \notin Lineage(parent', parent'[q])
    BY <2>1, <2>2, <2>3
  <2> QED BY <2>1, <2>3, <2>4
<1>5. SoundInv' /\ AncestorSound'
  BY <1>3 DEF SoundInv, AncestorSound
<1>6. CompleteInv'
  BY <1>2 DEF CompleteInv
<1> QED BY <1>1, <1>4, <1>5, <1>6

(* The walk goes on, or ends. *)
LEMMA WalkInv ==
  ASSUME ProcInv, AncestorStep
  PROVE  ProcInv'
<1> USE DEF ProcInv, ProcTypeOK, AncestorStep, Walks, Answers, tableVars
<1>1. ProcTypeOK' /\ TreeInv'
  BY DEF TreeInv, Parents
<1>2. cur \in Lineage(parent, cur)
  BY LineageClosed
<1>3. SoundInv' /\ AncestorSound'
  BY <1>2, LineageStep DEF SoundInv, AncestorSound
<1>4. CompleteInv'
  <2> SUFFICES ASSUME ask.ancestor \in above, chain \cap exited = {}
               PROVE  cur' \in chain /\ answer' # "no"
    BY DEF CompleteInv
  <2>1. cur = ask.ancestor \/ (cur # 1 /\ parent[cur] # 0 /\ parent[cur] \in chain)
    BY DEF CompleteInv, Pids
  <2> QED BY <2>1 DEF CompleteInv
<1> QED BY <1>1, <1>3, <1>4

LEMMA ProcInvInductive == ProcSpec => []ProcInv
<1>1. ProcInv /\ UNCHANGED procVars => ProcInv'
  BY DEF ProcInv, ProcTypeOK, TreeInv, SoundInv, CompleteInv, AncestorSound, procVars, tableVars, callVars
<1>2. ProcInv /\ [ProcNext]_procVars => ProcInv'
  BY <1>1, ForkInv, ExitInv, ReapInv, WalkInv DEF ProcNext
<1> QED BY ProcInitInv, <1>2, PTL DEF ProcSpec

-----------------------------------------------------------------------------
(* "Yes" is said only of a process that was above the descendant when the call
   began, unless a number on the way was used again (pid.go:180-200). *)
THEOREM SoundTheorem == ProcSpec => []AncestorSound
<1>1. ProcInv => AncestorSound
  BY DEF ProcInv
<1> QED BY <1>1, ProcInvInductive, PTL

(* "No" is said of a process that was above the descendant only if it or one
   between them has exited since (pid.go:180-200). *)
THEOREM CompleteTheorem == ProcSpec => []AncestorComplete
<1>1. ProcInv => AncestorComplete
  BY DEF ProcInv, CompleteInv, AncestorComplete
<1> QED BY <1>1, ProcInvInductive, PTL

-----------------------------------------------------------------------------
(* The poll *)

PollTypeOK ==
  /\ prev \in Snapshots /\ snap \in Snapshots /\ shown \in Snapshots
  /\ comparing \in BOOLEAN /\ news \in Seq(1..MaxNumber)
  /\ heard \in [1..MaxNumber -> {0, 1}] /\ taken \in SUBSET (1..MaxNumber)

Frontier(m, n) ==
  \A a \in 1..Len(snap), b \in 1..Len(prev) :
    /\ b < n /\ a >= m => prev[b] < snap[a]
    /\ a < m /\ b >= n => snap[a] < prev[b]

(* What has been compared lies below what has not, and the news are those of it
   that are not in the last snapshot. *)
ComparedInv ==
  /\ at \in 1..Len(snap)+1 /\ against \in 1..Len(prev)+1
  /\ Frontier(at, against)
  /\ Range(news) = {snap[a] : a \in 1..at-1} \ Range(prev)
  /\ Ascending(news)

(* The watcher has met the processes of the last snapshot and those it has
   reported, but for the ones that took their numbers. *)
HeardInv ==
  /\ taken \subseteq Range(snap) \cap Range(prev)
  /\ \A n \in Range(snap) :
       heard[n] = IF n \in (Range(prev) \cup Range(news)) \ taken THEN 1 ELSE 0

PollInv ==
  /\ PollTypeOK /\ PollExact /\ HeardInv
  /\ IF comparing THEN prev = shown /\ ComparedInv ELSE prev = snap

LEMMA SnapshotType ==
  ASSUME NEW s \in Snapshots
  PROVE  /\ s \in Seq(1..MaxNumber) /\ DOMAIN s = 1..Len(s) /\ Len(s) \in Nat
         /\ \A a \in DOMAIN s : s[a] \in 1..MaxNumber
         /\ \A a, b \in DOMAIN s : a < b => s[a] < s[b]
<1>1. PICK n \in 0..MaxNumber : s \in [1..n -> 1..MaxNumber]
  BY DEF Snapshots
<1>2. n \in Nat /\ s \in Seq(1..MaxNumber)
  BY <1>1, PollAssumption, SeqDef
<1> QED BY <1>1, <1>2, LenProperties DEF Snapshots, Ascending

(* A number is appended that is greater than all so far. *)
LEMMA AppendNews ==
  ASSUME NEW s \in Seq(1..MaxNumber), Ascending(s), NEW n \in 1..MaxNumber,
         \A k \in Range(s) : k < n
  PROVE  /\ Append(s, n) \in Seq(1..MaxNumber) /\ Ascending(Append(s, n))
         /\ Range(Append(s, n)) = Range(s) \cup {n}
<1>1. /\ Append(s, n) \in Seq(1..MaxNumber) /\ Len(s) \in Nat
      /\ DOMAIN s = 1..Len(s) /\ DOMAIN Append(s, n) = 1..Len(s)+1
      /\ \A a \in 1..Len(s) : Append(s, n)[a] = s[a]
      /\ Append(s, n)[Len(s)+1] = n
  BY AppendProperties, LenProperties
<1>2. Ascending(Append(s, n))
  <2> SUFFICES ASSUME NEW a \in 1..Len(s)+1, NEW b \in 1..Len(s)+1, a < b
               PROVE  Append(s, n)[a] < Append(s, n)[b]
    BY <1>1 DEF Ascending
  <2>1. a \in 1..Len(s) /\ Append(s, n)[a] = s[a] /\ s[a] \in Range(s)
    BY <1>1 DEF Range
  <2>2. CASE b = Len(s)+1
    BY <1>1, <2>1, <2>2
  <2>3. CASE b \in 1..Len(s)
    BY <1>1, <2>1, <2>3 DEF Ascending
  <2> QED BY <1>1, <2>2, <2>3
<1>3. Range(Append(s, n)) = Range(s) \cup {n}
  BY <1>1 DEF Range
<1> QED BY <1>1, <1>2, <1>3

LEMMA PollInitInv == PollInit => PollInv
<1> SUFFICES ASSUME PollInit PROVE PollInv
  OBVIOUS
<1>1. news \in Seq(1..MaxNumber) /\ DOMAIN news = {} /\ news = <<>>
  BY DEF PollInit
<1>2. Ascending(news) /\ Range(news) = {}
  BY <1>1 DEF Ascending, Range
<1>3. Range(snap) \subseteq 1..MaxNumber /\ prev = snap
  BY SnapshotType DEF PollInit, Range
<1>4. HeardInv /\ heard \in [1..MaxNumber -> {0, 1}] /\ taken \in SUBSET (1..MaxNumber)
  BY <1>2, <1>3 DEF PollInit, HeardInv
<1> QED BY <1>1, <1>2, <1>4 DEF PollInit, PollInv, PollTypeOK, PollExact

LEMMA PollNextInv == PollInv /\ [PollNext]_pollVars => PollInv'
<1> SUFFICES ASSUME PollInv, [PollNext]_pollVars PROVE PollInv'
  OBVIOUS
<1> USE DEF PollInv, PollTypeOK
<1>1. /\ DOMAIN snap = 1..Len(snap) /\ Len(snap) \in Nat
      /\ DOMAIN prev = 1..Len(prev) /\ Len(prev) \in Nat
      /\ \A a \in 1..Len(snap) : snap[a] \in Int /\ snap[a] \in 1..MaxNumber
      /\ \A a \in 1..Len(prev) : prev[a] \in Int /\ prev[a] \in 1..MaxNumber
      /\ \A a, b \in 1..Len(snap) : a < b => snap[a] < snap[b]
      /\ \A a, b \in 1..Len(prev) : a < b => prev[a] < prev[b]
  BY SnapshotType, PollAssumption
<1>2. ASSUME NEW s \in Snapshots, NEW reused \in SUBSET (Range(s) \cap Range(snap)),
             Tick(s, reused)
      PROVE  PollInv'
  <2>1. DOMAIN s = 1..Len(s) /\ Len(s) \in Nat
    BY SnapshotType
  <2>0. Range(s) \subseteq 1..MaxNumber /\ prev = snap
    BY <1>2, SnapshotType DEF Tick, Range
  <2>2. PollTypeOK' /\ PollExact' /\ comparing' /\ (prev = shown)'
    <3>1. heard' \in [1..MaxNumber -> {0, 1}] /\ taken' \in SUBSET (1..MaxNumber)
      BY <1>2, <2>0 DEF Tick
    <3> QED BY <1>2, <2>0, <3>1 DEF Tick, PollExact
  <2>4. HeardInv'
    <3>1. snap' = s /\ prev' = snap /\ taken' = (taken \cap Range(s)) \cup reused
      BY <1>2, <2>0 DEF Tick
    <3>2. Range(news') = {}
      BY <1>2 DEF Tick, Range
    <3>3. \A n \in Range(s) :
            heard'[n] = IF n \in Range(snap) \ reused THEN heard[n] ELSE 0
      BY <1>2, <2>0 DEF Tick
    <3>4. \A n \in Range(snap) : heard[n] = IF n \in taken THEN 0 ELSE 1
      BY <2>0 DEF HeardInv
    <3> QED BY <2>0, <3>1, <3>2, <3>3, <3>4 DEF HeardInv
  <2>3. ComparedInv'
    <3>1. snap' = s /\ prev' = prev /\ at' = 1 /\ against' = 1 /\ news' = <<>>
      BY <1>2 DEF Tick
    <3>2. Frontier(1, 1)' /\ 1 \in 1..Len(s)+1 /\ 1 \in 1..Len(prev)+1
      BY <1>1, <2>1 DEF Frontier
    <3>3. Range(<<>>) = {} /\ Ascending(<<>>)
      BY DEF Range, Ascending
    <3>4. {s[a] : a \in 1..1-1} \ Range(prev) = {}
      OBVIOUS
    <3> QED BY <3>1, <3>2, <3>3, <3>4 DEF ComparedInv, Frontier
  <2> QED BY <2>2, <2>3, <2>4
<1>3. CASE Comparing /\ (Report \/ Gone \/ Known)
  <2> USE <1>3 DEF Comparing
  <2>1. /\ ComparedInv /\ PollExact' /\ comparing' /\ (prev = shown)'
        /\ at \in 1..Len(snap) /\ at \in DOMAIN snap /\ snap[at] \in 1..MaxNumber
    BY <1>1 DEF PollExact, ComparedInv
  <2>2. {snap[a] : a \in 1..(at+1)-1} = {snap[a] : a \in 1..at-1} \cup {snap[at]}
    BY <2>1
  <2>3. CASE Report
    <3>0. against \in 1..Len(prev)+1 /\ Frontier(at, against)
      BY <2>1 DEF ComparedInv
    <3>1. snap[at] \notin Range(prev)
      <4>1. \A b \in 1..Len(prev) : b >= against => snap[at] < prev[b]
        BY <1>1, <2>1, <2>3, <3>0 DEF Report
      <4>2. \A b \in 1..Len(prev) : b < against => prev[b] < snap[at]
        BY <2>1, <3>0 DEF Frontier
      <4>3. \A b \in 1..Len(prev) : prev[b] # snap[at]
        BY <1>1, <2>1, <3>0, <4>1, <4>2
      <4> QED BY <1>1, <4>3 DEF Range
    <3>2. \A k \in Range(news) : k < snap[at]
      <4>1. \A a \in 1..at-1 : snap[a] < snap[at]
        BY <1>1, <2>1
      <4>2. \A k \in Range(news) : \E a \in 1..at-1 : k = snap[a]
        BY <2>1 DEF ComparedInv
      <4> QED BY <4>1, <4>2
    <3>3. /\ news' \in Seq(1..MaxNumber) /\ Ascending(news')
          /\ Range(news') = Range(news) \cup {snap[at]}
      BY <2>1, <2>3, <3>2, AppendNews DEF Report, ComparedInv
    <3>4. Frontier(at + 1, against)
      <4>1. \A b \in 1..Len(prev) : b >= against => snap[at] < prev[b]
        BY <1>1, <2>1, <2>3, <3>0 DEF Report
      <4> QED BY <2>1, <3>0, <4>1 DEF Frontier
    <3>5. Range(news') = {snap[a] : a \in 1..at'-1} \ Range(prev)
      BY <2>1, <2>2, <2>3, <3>1, <3>3 DEF Report, ComparedInv
    <3>6. ComparedInv'
      BY <2>1, <2>3, <3>3, <3>4, <3>5 DEF Report, ComparedInv, Frontier
    <3>7. heard[snap[at]] = 0 /\ snap[at] \notin taken
      <4>1. snap[at] \notin Range(news)
        BY <1>1, <2>1, <3>2
      <4>2. snap[at] \in Range(snap)
        BY <2>1 DEF Range
      <4> QED BY <3>1, <4>1, <4>2 DEF HeardInv
    <3>8. HeardInv' /\ heard' \in [1..MaxNumber -> {0, 1}]
      <4>1. heard' = [heard EXCEPT ![snap[at]] = 1]
        BY <2>3, <3>7 DEF Report
      <4>2. Range(snap) \subseteq 1..MaxNumber
        BY SnapshotType DEF Range
      <4> QED BY <2>1, <3>3, <3>7, <4>1, <4>2 DEF HeardInv
    <3> QED BY <2>1, <3>3, <3>6, <3>8
  <2>4. CASE Gone
    <3>0. against \in 1..Len(prev) /\ Frontier(at, against)
      BY <1>1, <2>1, <2>4 DEF Gone, ComparedInv
    <3>1. Frontier(at, against + 1)
      <4>1. \A a \in 1..Len(snap) : a >= at => prev[against] < snap[a]
        BY <1>1, <2>1, <2>4, <3>0 DEF Gone
      <4> QED BY <2>1, <2>4, <3>0, <4>1 DEF Gone, Frontier
    <3>2. ComparedInv'
      BY <2>1, <2>4, <3>0, <3>1 DEF Gone, ComparedInv, Frontier
    <3> QED BY <2>1, <2>4, <3>2 DEF Gone, HeardInv
  <2>5. CASE Known
    <3>0. against \in 1..Len(prev) /\ Frontier(at, against)
      BY <1>1, <2>1, <2>5 DEF Known, ComparedInv
    <3>1. snap[at] \in Range(prev)
      BY <1>1, <2>5, <3>0 DEF Known, Range
    <3>2. Frontier(at + 1, against + 1)
      <4>1. \A a \in 1..Len(snap) : a >= at + 1 => prev[against] < snap[a]
        BY <1>1, <2>1, <2>5, <3>0 DEF Known
      <4>2. \A b \in 1..Len(prev) : b >= against + 1 => snap[at] < prev[b]
        BY <1>1, <2>1, <2>5, <3>0 DEF Known
      <4> QED BY <2>1, <2>5, <3>0, <4>1, <4>2 DEF Known, Frontier
    <3>3. Range(news') = {snap[a] : a \in 1..at'-1} \ Range(prev)
      BY <2>1, <2>2, <2>5, <3>1 DEF Known, ComparedInv
    <3>4. ComparedInv'
      BY <2>1, <2>5, <3>0, <3>2, <3>3 DEF Known, ComparedInv, Frontier
    <3> QED BY <2>1, <2>5, <3>4 DEF Known, HeardInv
  <2> QED BY <1>3, <2>3, <2>4, <2>5
<1>4. CASE Compared
  <2>1. at = Len(snap) + 1 /\ 1..at-1 = DOMAIN snap
    BY <1>1, <1>4 DEF Compared, ComparedInv
  <2>2. Ascending(news) /\ Range(news) = Range(snap) \ Range(shown)
    BY <1>4, <2>1 DEF Compared, ComparedInv, Range
  <2>3. HeardInv'
    <3>1. taken \subseteq Range(snap) /\ Range(snap) \subseteq Range(prev) \cup Range(news)
      BY <1>4, <2>1, <2>2 DEF HeardInv, Compared, ComparedInv, Range
    <3> QED BY <1>4, <3>1 DEF Compared, HeardInv
  <2> QED BY <1>4, <2>2, <2>3 DEF Compared, PollExact
<1>5. CASE UNCHANGED pollVars
  BY <1>5 DEF pollVars, PollExact, ComparedInv, Frontier, HeardInv
<1> QED
  BY <1>2, <1>3, <1>4, <1>5 DEF PollNext, Report, Gone, Known

(* Between two ticks exactly the new numbers have been reported, each once, in
   ascending order (pid.go:491-507). *)
THEOREM PollTheorem == PollSpec => []PollExact
<1>1. PollInv => PollExact
  BY DEF PollInv
<1> QED BY <1>1, PollInitInv, PollNextInv, PTL DEF PollSpec

(* No process is called back twice, and after a comparison none has been passed
   over but those that took the number of another (pid.go:473-507). *)
THEOREM OnceTheorem == PollSpec => []CalledBackOnce
<1>1. PollInv => CalledBackOnce
  <2> SUFFICES ASSUME PollInv PROVE CalledBackOnce
    OBVIOUS
  <2>1. \A n \in DOMAIN heard : heard[n] <= 1
    BY DEF PollInv, PollTypeOK
  <2>2. ~comparing => \A n \in Range(snap) : heard[n] = 0 <=> n \in taken
    BY DEF PollInv, HeardInv
  <2> QED BY <2>1, <2>2 DEF CalledBackOnce
<1> QED BY <1>1, PollInitInv, PollNextInv, PTL DEF PollSpec
=============================================================================
