------------------------------ MODULE MCRuntime ------------------------------
(***************************************************************************)
(* The script runtime: the tree cache, a call of pid.is_ancestor, the poll  *)
(* for processes and a search in a tree as state machines, and the pure     *)
(* functions of the builtins on all inputs of small bounds.  An initial     *)
(* state picks one.                                                         *)
(***************************************************************************)
EXTENDS TreeCache, Processes, Poll, MCTrees, BuiltinProperties

CONSTANT MaxSocket   \* bound: names of sockets

-----------------------------------------------------------------------------
(* Inputs *)

NumberInputs == {[kind |-> "number", number |-> x] : x \in Floats \cup Signed \cup Unsigned}

SocketInputs ==
  {[kind |-> "sockets", env |-> env, found |-> found, told |-> told, live |-> live] :
     env, told \in 0..MaxSocket, found, live \in SUBSET (1..MaxSocket)}

(* Globals of a script: each absent, as it should be, or not. *)
Func(name) == [type |-> "function", name |-> name]

EntryOf(name, handler) ==
  [key |-> IF name = "other" THEN Other ELSE [type |-> "string", name |-> name],
   value |-> IF name = "mode" THEN Other ELSE Func(handler)]
Entries(handler) ==
  {EntryOf(name, handler) :
     name \in {"window", "barconfig_update", "bar_config_update", "unknown", "mode", "other"}}
Dicts ==
  {[type |-> "dict", entries |-> entries] :
     entries \in {<<>>} \cup {<<e>> : e \in Entries("f")} \cup (Entries("f") \X Entries("g"))}

ScriptInputs ==
  {[kind |-> "script", priority |-> priority, on |-> on, handlers |-> dict, init |-> init] :
     priority \in {Absent, Other, [type |-> "none"], [type |-> "int", value |-> 3], [type |-> "huge"]},
     on \in UNION {[events -> {Func("on"), Other}] : events \in SUBSET {"window", "barconfig_update"}},
     dict \in {Absent, Other} \cup Dicts,
     init \in {Absent, Other} \cup {[type |-> "function", succeeds |-> b] : b \in BOOLEAN}}

Inputs == NumberInputs \cup SocketInputs \cup ScriptInputs

(* The state of a machine that does not run. *)
IdleProcesses ==
  /\ table = {} /\ parent = <<>> /\ zombies = {} /\ forks = 0
  /\ ask = <<>> /\ cur = 0 /\ answer = "none" /\ above = {} /\ chain = {}
  /\ exited = {} /\ replaced = FALSE
IdlePoll ==
  /\ prev = <<>> /\ snap = <<>> /\ shown = <<>> /\ news = <<>>
  /\ at = 1 /\ against = 1 /\ comparing = FALSE /\ heard = <<>> /\ taken = {}
IdleWalk ==
  /\ tree = <<>> /\ question = [kind |-> "none"] /\ todo = <<>> /\ curWS = <<>> /\ out = <<>>

MCInit ==
  /\ Init
  /\ \/ input = [kind |-> "cache"] /\ IdleProcesses /\ IdlePoll /\ IdleWalk
     \/ input = [kind |-> "ancestor"] /\ ProcInit /\ IdlePoll /\ IdleWalk
     \/ input = [kind |-> "poll"] /\ IdleProcesses /\ PollInit /\ IdleWalk
     \/ input = [kind |-> "search"] /\ IdleProcesses /\ IdlePoll /\ WalkInit
     \/ input \in Inputs /\ IdleProcesses /\ IdlePoll /\ IdleWalk

(* A function has its result at once, is_ancestor and a search in the end. *)
Done ==
  /\ input.kind = "ancestor" => answer # "none"
  /\ input.kind = "search" => todo = <<>>
  /\ input.kind \notin {"cache", "poll"}
  /\ UNCHANGED <<vars, procVars, pollVars, walkVars, input>>

MCNext ==
  \/ input.kind = "cache" /\ Next /\ UNCHANGED <<procVars, pollVars, walkVars, input>>
  \/ input.kind = "ancestor" /\ ProcNext /\ UNCHANGED <<vars, pollVars, walkVars, input>>
  \/ input.kind = "poll" /\ PollNext /\ UNCHANGED <<vars, procVars, walkVars, input>>
  \/ input.kind = "search" /\ WalkNext /\ UNCHANGED <<vars, procVars, pollVars, input>>
  \/ Done

MCSpec == MCInit /\ [][MCNext]_<<vars, procVars, pollVars, walkVars, input>>
=============================================================================
