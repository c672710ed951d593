-------------------------------- MODULE Poll --------------------------------
(***************************************************************************)
(* The poll of /proc for new processes.  Each tick takes a snapshot of the *)
(* numbers in use and goes through it and the last one, both sorted, at    *)
(* the same time, with a callback for each number that is new.  Between    *)
(* two snapshots a number can pass from one process to another.  When a    *)
(* watcher polls and when it ends is in module PidWatch.                   *)
(***************************************************************************)
EXTENDS Integers, Sequences, Functions

CONSTANT MaxNumber   \* bound: numbers that processes can have

ASSUME PollAssumption == MaxNumber \in Nat

VARIABLES
  prev,       \* the last snapshot
  snap,       \* the snapshot it is compared with (cur in the code)
  at,         \* position in snap, from 1 (i in the code)
  against,    \* position in prev, from 1 (j in the code)
  comparing,  \* the comparison is not finished
  news,       \* the numbers reported since the tick, in order
  shown,      \* history: the snapshot taken before snap
  heard,      \* history: how often the watcher has met the process that has a
              \* number in snap, in its first snapshot or in a callback
  taken       \* history: the numbers in snap whose process took it from one
              \* of the snapshot before

pollVars == <<prev, snap, at, against, comparing, news, shown, heard, taken>>

Ascending(s) == \A a, b \in DOMAIN s : a < b => s[a] < s[b]

(* What snapshotProcPIDs can return: numbers in ascending order. *)
Snapshots ==
  {s \in UNION {[1..n -> 1..MaxNumber] : n \in 0..MaxNumber} : Ascending(s)}

(* A watcher reports nothing of the snapshot it starts with. *)
PollInit ==
  /\ prev \in Snapshots /\ snap = prev /\ shown = prev
  /\ at = 1 /\ against = 1 /\ comparing = FALSE /\ news = <<>>
  /\ heard = [n \in 1..MaxNumber |-> IF n \in Range(snap) THEN 1 ELSE 0]
  /\ taken = {}

(* The ticker ticks.  Since the last snapshot the numbers in reused have passed
   to other processes. *)
Tick(s, reused) ==
  /\ ~comparing /\ comparing' = TRUE
  /\ snap' = s /\ shown' = snap /\ UNCHANGED prev
  /\ at' = 1 /\ against' = 1 /\ news' = <<>>
  /\ heard' = [n \in 1..MaxNumber |->
                 IF n \in (Range(s) \cap Range(snap)) \ reused THEN heard[n] ELSE 0]
  /\ taken' = (taken \cap Range(s)) \cup reused

Comparing == comparing /\ at <= Len(snap) /\ UNCHANGED <<prev, snap, comparing, shown, taken>>

(* Mutant: a number that was in use is reported as well. *)
ReportUpTo ==
  /\ Comparing
  /\ against <= Len(prev) => snap[at] <= prev[against]
  /\ news' = Append(news, snap[at]) /\ at' = at + 1 /\ UNCHANGED against
  /\ heard' = [heard EXCEPT ![snap[at]] = @ + 1]

(* The next number was not in use: the callback. *)
Report ==
  /\ Comparing
  /\ against <= Len(prev) => snap[at] < prev[against]
  /\ news' = Append(news, snap[at]) /\ at' = at + 1 /\ UNCHANGED against
  /\ heard' = [heard EXCEPT ![snap[at]] = @ + 1]

(* A process of the last snapshot is gone, ... *)
Gone ==
  /\ Comparing
  /\ against <= Len(prev) /\ snap[at] > prev[against]
  /\ against' = against + 1 /\ UNCHANGED <<at, news, heard>>

(* ... or is still there. *)
Known ==
  /\ Comparing
  /\ against <= Len(prev) /\ snap[at] = prev[against]
  /\ at' = at + 1 /\ against' = against + 1 /\ UNCHANGED <<news, heard>>

(* Mutant: the next tick compares with the same snapshot again. *)
ComparedWithFirst ==
  /\ comparing /\ at > Len(snap) /\ comparing' = FALSE
  /\ UNCHANGED <<prev, snap, at, against, news, shown, heard, taken>>

(* The comparison is finished. *)
Compared ==
  /\ comparing /\ at > Len(snap) /\ comparing' = FALSE
  /\ prev' = snap /\ UNCHANGED <<snap, at, against, news, shown, heard, taken>>

PollNext ==
  \/ \E s \in Snapshots : \E reused \in SUBSET (Range(s) \cap Range(snap)) : Tick(s, reused)
  \/ Report \/ Gone \/ Known \/ Compared

PollSpec == PollInit /\ [][PollNext]_pollVars

-----------------------------------------------------------------------------
(* Properties *)

(* Between two ticks the poll reports exactly the numbers of the new snapshot
   that were not in the one before, each once, in ascending order
   (pid.go:491-507). *)
PollExact ==
  ~comparing =>
    Ascending(news) /\ Range(news) = Range(snap) \ Range(shown)

(* The script is called back at most once for a process, however long it stays,
   and never for one that was there when the watcher started.  After each
   comparison it has been called back for every other process of the snapshot,
   but for those that took their number from one of the snapshot before, which
   it never hears of (pid.go:473-507). *)
CalledBackOnce ==
  /\ \A n \in DOMAIN heard : heard[n] <= 1
  /\ ~comparing => \A n \in Range(snap) : heard[n] = 0 <=> n \in taken
=============================================================================
