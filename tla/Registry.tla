------------------------------ MODULE Registry ------------------------------
(***************************************************************************)
(* A script directory and what LoadAll makes of it.  A directory maps each *)
(* file name to its content or to None; a registry maps each file name to  *)
(* the content its loaded script came from, or to None.  File names are    *)
(* numbers in the order of their base names.                               *)
(***************************************************************************)
EXTENDS Integers, Context

CONSTANTS
  Scripts,    \* names of the .starlark files that may exist
  Contents,   \* what a file may hold
  Loads,      \* contents loadOne can load
  Fails,      \* contents loadOne can reject; one in both has a flaky init()
  Priority,   \* priority global of a content
  Handles     \* event types a content has a handler for

ASSUME RegistryAssumption ==
  /\ Scripts \subseteq Nat
  /\ Contents = Loads \cup Fails
  /\ None \notin Contents \cup Scripts
  /\ Priority \in [Contents -> Int]
  /\ Handles \in [Contents -> SUBSET EventTypes]

Directory == [Scripts -> Contents \cup {None}]

NoScripts == [p \in Scripts |-> None]

(* The files the glob of LoadAll returns. *)
Glob(dir) == {p \in Scripts : dir[p] # None}

(* What loadOne can make of a file: the script, or nothing when it is gone
   or has an error. *)
Outcomes(c) == {s \in {c, None} : IF s = None THEN c \in Fails \cup {None}
                                             ELSE c \in Loads}

(* The handlers of the registry for one event type, by their scripts. *)
HandlersFor(reg, t) == {p \in Scripts : reg[p] # None /\ t \in Handles[reg[p]]}

(* The order Finalize sorts handlers in: higher priority, then file name. *)
Before(reg, p, q) ==
  \/ Priority[reg[p]] > Priority[reg[q]]
  \/ Priority[reg[p]] = Priority[reg[q]] /\ p < q
=============================================================================
