----------------------------- MODULE Processes -----------------------------
(***************************************************************************)
(* pid.is_ancestor: whether a process descends from another.  Between the  *)
(* reads of /proc its processes fork, exit, are reaped, and their numbers  *)
(* are used again.                                                         *)
(***************************************************************************)
EXTENDS Integers

CONSTANTS
  MaxPid,     \* bound: process numbers
  MaxForks    \* bound: processes forked during a call

ASSUME ProcessesAssumption == MaxPid \in Nat \ {0} /\ MaxForks \in Nat

VARIABLES
  table,      \* the processes in /proc
  parent,     \* their parents; 0 without one or without the process
  zombies,    \* those of them that have exited and are not reaped
  forks,      \* bound: forks so far
  ask,        \* the call is_ancestor(ask.ancestor, ask.descendant)
  cur,        \* the process its walk has come to
  answer,     \* "none", "yes" or "no"
  above,      \* history: the descendant and its ancestors when the call began
  chain,      \* history: those of them below the ancestor asked for, and it
  exited,     \* history: processes that exited during the call
  replaced    \* history: cur got another process's number while it was looked at

tableVars == <<table, parent, zombies, forks>>
callVars == <<ask, cur, answer, above, chain>>
procVars == <<tableVars, callVars, exited, replaced>>

Pids == 1..MaxPid

(* The processes of S have their parents in S. *)
ClosedUp(parents, S) == \A q \in S : parents[q] # 0 => parents[q] \in S

(* p and its ancestors: what every set with p has that is closed this way. *)
Lineage(parents, p) ==
  {q \in Pids : \A S \in SUBSET Pids : p \in S /\ ClosedUp(parents, S) => q \in S}

(* Processes under init, or under others without a parent (kernel threads), and
   a call about two numbers. *)
ProcInit ==
  /\ table \in {pids \in SUBSET Pids : 1 \in pids} /\ zombies = {} /\ forks = 0
  /\ parent \in {f \in [Pids -> {0} \cup table] :
                  \A p \in Pids : f[p] < p /\ (p \notin table => f[p] = 0)}
  /\ ask \in [ancestor : Pids, descendant : Pids]
  /\ cur = ask.descendant /\ answer = "none"
  /\ above = Lineage(parent, cur)
  /\ chain = IF ask.ancestor \in above
             THEN (above \ Lineage(parent, ask.ancestor)) \cup {ask.ancestor} ELSE {}
  /\ exited = {} /\ replaced = FALSE

Fork(p, c) ==
  /\ answer = "none" /\ forks < MaxForks /\ forks' = forks + 1
  /\ p \in table \ zombies /\ c \in Pids \ table
  /\ table' = table \cup {c} /\ parent' = [parent EXCEPT ![c] = p]
  /\ replaced' = (replaced \/ c = cur)
  /\ UNCHANGED <<zombies, callVars, exited>>

(* The children of a process that exits go to init, or to an ancestor of it
   that has asked for them.  Those without a parent do not exit. *)
Exit(p) ==
  /\ answer = "none" /\ p \in table \ zombies /\ parent[p] # 0
  /\ zombies' = zombies \cup {p} /\ exited' = exited \cup {p}
  /\ \E reaper \in Lineage(parent, parent[p]) :
       parent' = [q \in Pids |-> IF q \in table /\ parent[q] = p THEN reaper ELSE parent[q]]
  /\ UNCHANGED <<table, forks, callVars, replaced>>

Reap(p) ==
  /\ answer = "none" /\ p \in zombies
  /\ zombies' = zombies \ {p} /\ table' = table \ {p}
  /\ parent' = [parent EXCEPT ![p] = 0]
  /\ UNCHANGED <<forks, callVars, exited, replaced>>

Walks(to) == cur' = to /\ UNCHANGED <<ask, answer, above, chain, tableVars, exited, replaced>>
Answers(result) ==
  answer' = result /\ UNCHANGED <<ask, cur, above, chain, tableVars, exited, replaced>>

(* Mutant: a process that is gone is taken for a child of init. *)
AncestorStepGone ==
  /\ answer = "none"
  /\ \/ cur = ask.ancestor /\ Answers("yes")
     \/ cur # ask.ancestor /\ cur = 1 /\ Answers("no")
     \/ cur \notin {ask.ancestor, 1} /\ Walks(IF cur \in table THEN parent[cur] ELSE 1)

(* Mutant: the end of the walk is checked before the ancestor. *)
AncestorStepInit ==
  /\ answer = "none"
  /\ \/ cur = 1 /\ Answers("no")
     \/ cur # 1 /\ cur = ask.ancestor /\ Answers("yes")
     \/ cur \notin {ask.ancestor, 1} /\ parent[cur] = 0 /\ Answers("no")
     \/ cur \notin {ask.ancestor, 1} /\ parent[cur] # 0 /\ Walks(parent[cur])

(* An iteration of IsAncestor: the comparisons, and ReadPPID(cur). *)
AncestorStep ==
  /\ answer = "none"
  /\ \/ cur = ask.ancestor /\ Answers("yes")
     \/ cur # ask.ancestor /\ cur = 1 /\ Answers("no")
     \/ cur \notin {ask.ancestor, 1} /\ parent[cur] = 0 /\ Answers("no")
     \/ cur \notin {ask.ancestor, 1} /\ parent[cur] # 0 /\ Walks(parent[cur])

ProcNext ==
  \/ \E p, c \in Pids : Fork(p, c)
  \/ \E p \in Pids : Exit(p) \/ Reap(p)
  \/ AncestorStep

ProcSpec == ProcInit /\ [][ProcNext]_procVars

-----------------------------------------------------------------------------
(* Properties *)

(* "Yes" is given only of a process that was an ancestor when the call began,
   unless the number of a process on the way was taken by another between its
   child's stat file and its own (pid.go:180-200). *)
AncestorSound == answer = "yes" => ask.ancestor \in above \/ replaced

(* "No" is given of an ancestor only if it or a process between has exited
   during the call (pid.go:180-200). *)
AncestorComplete == answer = "no" => ask.ancestor \notin above \/ chain \cap exited # {}
=============================================================================
