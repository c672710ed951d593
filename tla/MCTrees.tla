------------------------------- MODULE MCTrees -------------------------------
(***************************************************************************)
(* All trees of a few nodes, and the searches in them.                     *)
(***************************************************************************)
EXTENDS TreeWalk, SequencesExt

CONSTANT MaxNodes   \* bound: nodes of a tree

(* What the nodes of i3's trees look like: a workspace with and without a
   number, a window with and without the focus, a container of others. *)
WorkspaceNode(num) ==
  [type |-> "workspace", num |-> num, name |-> "a", focused |-> "false", fullscreen_mode |-> "1"]
WindowNode(focused) ==
  LET node == [type |-> "con", name |-> "a", pid |-> "9", percent |-> "0.5", focused |-> focused,
               fullscreen_mode |-> "0"]
      properties == ("window_properties.instance" :> "a") @@
                    ("window_properties.class" :> IF focused = "true" THEN "a" ELSE "b")
  IN  node @@ properties
SplitNode == [type |-> "con", name |-> "null", percent |-> "1",
              focused |-> "false", fullscreen_mode |-> "0"]
RootNode == [type |-> "root", name |-> "root", focused |-> "false", fullscreen_mode |-> "0"]

NodeKinds == {WorkspaceNode("1"), WorkspaceNode("-1"), WindowNode("true"),
              WindowNode("false"), SplitNode}
Ids == <<"1", "2", "3", "4", "9">>

(* Document order: between a node and its child are only its descendants. *)
Shapes(size) ==
  {f \in [2..size -> 1..size] :
     \A n \in 2..size : f[n] < n /\ \A m \in f[n]+1..n-1 : f[m] >= f[n]}

(* No workspace is inside another, windows are leaves, one node at most has the
   focus, and only workspaces have floating children, after the others. *)
Real(parent, floating, node) ==
  /\ \A n \in DOMAIN parent :
       LET up == parent[n] IN
       /\ node[up].type # "con" \/ node[n].type = "con"
       /\ node[up].type # "workspace" \/ node[n].type = "con"
       /\ "pid" \notin DOMAIN node[up]
       /\ n \in floating =>
            /\ node[up].type = "workspace"
            /\ \A m \in DOMAIN parent : m > n /\ parent[m] = up => m \in floating
  /\ \A n, m \in DOMAIN node : node[n].focused = "true" /\ node[m].focused = "true" => n = m

TreesOf(size) ==
  {[parent |-> shape,
    nodes |-> [n \in 1..size |-> SetToSortSeq({c \in 2..size \ floating : shape[c] = n}, <)],
    floating_nodes |-> [n \in 1..size |-> SetToSortSeq({c \in floating : shape[c] = n}, <)],
    node |-> [n \in 1..size |-> ("id" :> Ids[n]) @@ IF n = 1 THEN RootNode ELSE kinds[n]]] :
     <<shape, floating, kinds>> \in
       {<<f, s, k>> \in Shapes(size) \X (SUBSET (2..size)) \X [2..size -> NodeKinds] :
          Real(f, s, [n \in 1..size |-> IF n = 1 THEN RootNode ELSE k[n]])}}

SmallTrees == UNION {TreesOf(size) : size \in 1..MaxNodes}

(* Criteria of i3.find: several beside and in "where", and one for a field that
   is also reported. *)
FindOptions ==
  [fields : {{}, {"id", "workspace_num"}}, limit : 0..2,
   where : {<<>>, [type |-> "workspace"], [workspace_num |-> "-1"]},
   rest : {<<>>, [type |-> "con"], [workspace_num |-> "1"], [fullscreen |-> "true"]}]

FieldOptions ==
  {[fields |-> {"id", key}, limit |-> 0, where |-> <<>>, rest |-> key :> value] :
     key \in {"workspace_num", "id", "con_id", "fullscreen_mode", "focused", "name", "pid", "percent"},
     value \in {"0", "1", "3", "9", "a", "true", "null"}}

SmallQuestions ==
  [kind : {"find"}, options : FindOptions \cup FieldOptions]
    \cup [kind : {"workspace", "pid", "classes"}, id : {"-1", "2", "3", "9"}]
=============================================================================
