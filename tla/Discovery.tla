----------------------------- MODULE Discovery -----------------------------
(***************************************************************************)
(* How the client finds i3's socket when the daemon starts.  Sockets are   *)
(* numbers, in the order of their names; 0 is an empty or missing name.    *)
(***************************************************************************)
EXTENDS Integers, FiniteSets

(* The members of a finite set of numbers in increasing order *)
Sorted(S) == CHOOSE s \in [1..Cardinality(S) -> S] : \A i, j \in DOMAIN s : i < j => s[i] < s[j]

(* discoverI3SocketCandidates: $I3SOCK, the sockets in the two runtime
   directories, and what i3 itself says, without duplicates; then sorted. *)
Candidates(env, found, told) == Sorted(({env, told} \cup found) \ {0})

(* Mutant: the first candidate that does not answer ends the search. *)
DiscoverFirst(candidates, live) ==
  IF DOMAIN candidates # {} /\ candidates[1] \in live THEN candidates[1] ELSE 0

(* discoverI3SocketPath: the first candidate that can be dialled, or an error. *)
Discover(candidates, live) ==
  LET answering == {i \in DOMAIN candidates : candidates[i] \in live}
  IN  IF answering = {} THEN 0
      ELSE candidates[CHOOSE i \in answering : \A j \in answering : i <= j]
=============================================================================
