------------------------------ MODULE TreeWalk ------------------------------
(***************************************************************************)
(* One search in a layout tree, node by node: i3.find, the enrichment of a *)
(* window event, i3.get_window_pid or i3.get_class_names.  The recursion   *)
(* of the code is the list of the nodes still to be visited.               *)
(*                                                                         *)
(* The nodes of a tree are numbered in document order: a node before its   *)
(* descendants, the children in "nodes" before those in "floating_nodes".  *)
(***************************************************************************)
EXTENDS TreeSearch, Functions

CONSTANTS LayoutTrees, Questions

Nodes(t) == DOMAIN t.node

(* childNodes, both lists *)
Children(t, n) == t.nodes[n] \o t.floating_nodes[n]

(* What i3's trees are like: parents and lists of children agree, the numbers
   are in document order, and the ids are positive and differ. *)
Documented(t) ==
  /\ Len(t.node) \in Nat \ {0} /\ Nodes(t) = 1..Len(t.node)
  /\ DOMAIN t.parent = Nodes(t) \ {1}
  /\ \A n \in DOMAIN t.parent :
       /\ t.parent[n] \in 1..n-1
       /\ \A m \in t.parent[n]+1..n-1 : t.parent[m] >= t.parent[n]
  /\ \A n \in Nodes(t) :
       /\ t.nodes[n] \in Seq(Nodes(t)) /\ t.floating_nodes[n] \in Seq(Nodes(t))
       /\ \A i, j \in DOMAIN Children(t, n) : i < j => Children(t, n)[i] < Children(t, n)[j]
       /\ Range(Children(t, n)) = {c \in DOMAIN t.parent : t.parent[c] = n}
       /\ NodeInt(t.node[n], "id") \in Positive
       /\ "pid" \in DOMAIN t.node[n] => t.node[n]["pid"] \in Ints \cup {"null"}
  /\ \A m, n \in Nodes(t) : NodeInt(t.node[m], "id") = NodeInt(t.node[n], "id") => m = n

(* A question is the argument of i3.find or the id of a container. *)
WellPut(question) ==
  IF question.kind = "find" THEN question.options.limit \in Nat
  ELSE question.kind \in {"workspace", "pid", "classes"} /\ question.id \in Ints

ASSUME WalkAssumption ==
  (\A t \in LayoutTrees : Documented(t)) /\ (\A question \in Questions : WellPut(question))

VARIABLES
  tree,       \* the tree
  question,   \* what is searched
  todo,       \* nodes to be visited, the next one first
  curWS,      \* the workspace number each node is visited with
  out         \* results so far

walkVars == <<tree, question, todo, curWS, out>>

(* An event of a container without an id is not looked up. *)
WalkInit ==
  /\ tree \in LayoutTrees /\ question \in Questions
  /\ todo = IF question.kind = "workspace" /\ question.id \notin Positive THEN <<>> ELSE <<1>>
  /\ curWS = [n \in Nodes(tree) |-> "0"] /\ out = <<>>

Here == tree.node[Head(todo)]
HereWorkspace == WorkspaceHere(Here, curWS[Head(todo)])

(* Mutant: the children are visited with the workspace above the node. *)
DescendAbove ==
  /\ todo' = Children(tree, Head(todo)) \o Tail(todo)
  /\ curWS' = [n \in Nodes(tree) |-> IF n \in Range(Children(tree, Head(todo)))
                                     THEN curWS[Head(todo)] ELSE curWS[n]]

(* The children of the node are visited before its siblings. *)
Descend ==
  /\ todo' = Children(tree, Head(todo)) \o Tail(todo)
  /\ curWS' = [n \in Nodes(tree) |-> IF n \in Range(Children(tree, Head(todo)))
                                     THEN HereWorkspace ELSE curWS[n]]

(* findInTree: the walk ends when the limit is reached. *)
FindVisit ==
  /\ question.kind = "find" /\ todo # <<>>
  /\ LET crit == Criteria(question.options) IN
     /\ out' = IF Matches(Here, HereWorkspace, crit.match)
               THEN Append(out, Projection(Here, HereWorkspace, crit.fields)) ELSE out
     /\ IF Full(crit, out') THEN todo' = <<>> /\ UNCHANGED curWS ELSE Descend
  /\ UNCHANGED <<tree, question>>

(* workspaceNumByConID, windowPIDByConID and windowClassNamesByConID: the walk
   ends with an answer, and goes on when the node has the id but no answer. *)
AnswerVisit ==
  /\ question.kind # "find" /\ todo # <<>>
  /\ NodeInt(Here, "id") = question.id
  /\ out' = Answer(Here, HereWorkspace, question.kind)
  /\ todo' = IF out' = <<>> THEN Tail(todo) ELSE <<>>
  /\ UNCHANGED <<tree, question, curWS>>

(* A node with another id *)
PassVisit ==
  /\ question.kind # "find" /\ todo # <<>>
  /\ NodeInt(Here, "id") # question.id
  /\ Descend /\ UNCHANGED <<tree, question, out>>

WalkNext == FindVisit \/ AnswerVisit \/ PassVisit

WalkSpec == WalkInit /\ [][WalkNext]_walkVars

-----------------------------------------------------------------------------
(* What a search promises *)

(* n and the nodes it is inside of, which are those that it follows with nothing
   between that is outside of them *)
Enclosing(t, n) == {m \in 1..n : \A q \in m+1..n : t.parent[q] >= m}

(* The number of the nearest workspace at or above n, 0 where there is none *)
Workspace(t, n) ==
  LET on == {m \in Enclosing(t, n) : OwnWorkspace(t.node[m]) # None}
  IN  IF on = {} THEN "0"
      ELSE OwnWorkspace(t.node[CHOOSE m \in on : \A q \in on : q <= m])

(* A field of n as find reports it, and whether n has it, so that it is not a
   default *)
Shown(t, n, key) == Reported(t.node[n], Workspace(t, n), key)

Own(t, n, key) ==
  \/ key = "workspace_num"
  \/ /\ Field(key) \in DOMAIN t.node[n]
     /\ Field(key) \in DOMAIN KindOf => Has(t.node[n], Field(key), KindOf[Field(key)])

Wanted(options) == DOMAIN options.rest \cup DOMAIN options.where
Want(options, key) ==
  IF key \in DOMAIN options.rest THEN options.rest[key] ELSE options.where[key]

Satisfies(t, n, options) ==
  /\ Matches(t.node[n], Workspace(t, n), options.rest)
  /\ \A key \in DOMAIN options.where \ DOMAIN options.rest :
       MatchesKey(t.node[n], Workspace(t, n), key, options.where[key])

Finished(kinds) == question.kind \in kinds /\ todo = <<>>

(* i3.find gives the first nodes in document order that satisfy its criteria, as
   many as the limit allows, each with the number of the nearest workspace at
   or above it; a key beside "where" overrides the one in it (runtime.go:385-440,
   i3.go:206-327). *)
FindExact ==
  Finished({"find"}) =>
    LET options == question.options
        hits == {n \in Nodes(tree) : Satisfies(tree, n, options)}
        before(n) == Cardinality({m \in hits : m < n})
        fields == IF options.fields = {} THEN {"id"} ELSE options.fields
    IN  /\ Len(out) = IF options.limit = 0 \/ options.limit > Cardinality(hits)
                      THEN Cardinality(hits) ELSE options.limit
        /\ \A n \in hits : before(n) < Len(out) =>
             out[before(n) + 1] = [key \in fields |-> Shown(tree, n, key)]

(* What find reports of a field that it was asked to compare has the wanted value,
   and a node is found if all its fields, as find reports them, have the wanted
   values.  But a fraction is found as the integer it is truncated to, and not
   as itself (runtime.go:518-719). *)
FoundAsReported ==
  Finished({"find"}) =>
    LET options == question.options
        keys == Wanted(options) \ {"fullscreen"}
    IN  /\ \A i \in DOMAIN out : \A key \in keys \cap options.fields :
             Int64(out[i][key]) = Want(options, key)
        /\ options.limit = 0 /\ keys = Wanted(options) =>
             \A n \in Nodes(tree) :
               (\A key \in keys : /\ Own(tree, n, key)
                                  /\ Int64(Shown(tree, n, key)) = Want(options, key))
               => \E i \in DOMAIN out : \A key \in options.fields :
                    out[i][key] = Shown(tree, n, key)

(* The workspace_num that a window event gets and the result of get_window_pid
   are what find reports of the container, and get_class_names gives its
   instance and class, each once; there is no answer for a container that is not
   in the tree (runtime.go:240-307, 442-516). *)
LookupsAgree ==
  Finished({"workspace", "pid", "classes"}) =>
    LET here == {n \in Nodes(tree) : NodeInt(tree.node[n], "id") = question.id}
        instance(n) == tree.node[n]["window_properties.instance"]
        names(n) == {tree.node[n][field] : field \in
                       {f \in {"window_properties.instance", "window_properties.class"} :
                          Has(tree.node[n], f, "string")}} \ {""}
    IN  /\ here = {} => out = <<>>
        /\ \A n \in here :
             /\ question.kind = "workspace" => out = <<Shown(tree, n, "workspace_num")>>
             /\ question.kind = "pid" =>
                  out = IF ~Own(tree, n, "pid") \/ Shown(tree, n, "pid") = "null"
                        THEN <<>> ELSE <<Shown(tree, n, "pid")>>
             /\ question.kind = "classes" =>
                  /\ Len(out) = 1 /\ Range(out[1]) = names(n)
                  /\ Len(out[1]) = Cardinality(names(n))
                  /\ Has(tree.node[n], "window_properties.instance", "string")
                       /\ instance(n) # "" => out[1][1] = instance(n)
=============================================================================
