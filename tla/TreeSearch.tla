----------------------------- MODULE TreeSearch -----------------------------
(***************************************************************************)
(* What the searches in i3's layout tree make of one node of it, and the   *)
(* criteria of i3.find.                                                    *)
(*                                                                         *)
(* A node is a function from the fields it has to JSON scalars, which are  *)
(* strings here; "0.5" stands for the fractions.  The two fields named     *)
(* window_properties... are those of the object of that name.              *)
(***************************************************************************)
EXTENDS Integers, Sequences, FiniteSets

CONSTANTS
  Ints,       \* the integers
  Positive    \* those greater than zero

Bools == {"true", "false"}
Fraction == "0.5"
None == "none"

ASSUME SearchAssumption ==
  /\ "0" \in Ints /\ Positive \subseteq Ints \ {"0"}
  /\ Ints \cap (Bools \cup {Fraction, None, "null", ""}) = {}

Kind(v) ==
  CASE v = "null" -> "null"
    [] v \in Bools -> "bool"
    [] v \in Ints \cup {Fraction} -> "number"
    [] OTHER -> "string"

(* int64 of a JSON number truncates. *)
Int64(v) == IF v = Fraction THEN "0" ELSE v

Has(node, field, kind) == field \in DOMAIN node /\ Kind(node[field]) = kind

(* nodeInt64 *)
NodeInt(node, field) == IF Has(node, field, "number") THEN Int64(node[field]) ELSE None

(* The number of a workspace *)
OwnWorkspace(node) ==
  IF Has(node, "type", "string") /\ node["type"] = "workspace" THEN NodeInt(node, "num") ELSE None

(* The workspace number of a node, given that of its parent. *)
WorkspaceHere(node, above) == IF OwnWorkspace(node) # None THEN OwnWorkspace(node) ELSE above

(* scalarEqual *)
ScalarEqual(got, want) ==
  IF Kind(want) = "number" THEN Kind(got) = "number" /\ Int64(got) = want ELSE got = want

(* The fields that are compared and reported as one kind only, with the value
   reported when a node has none of that kind. *)
Default == [id |-> "null", fullscreen_mode |-> "0", focused |-> "false",
            name |-> "", app_id |-> "", type |-> ""]
KindOf == [id |-> "number", fullscreen_mode |-> "number", focused |-> "bool",
           name |-> "string", app_id |-> "string", type |-> "string"]

(* con_id is another name of id. *)
Field(key) == IF key = "con_id" THEN "id" ELSE key

MatchesKey(node, ws, key, want) ==
  LET field == Field(key) IN
  CASE key = "workspace_num" -> want = ws
    [] key = "fullscreen" ->
         want = IF NodeInt(node, "fullscreen_mode") \in {None, "0"} THEN "false" ELSE "true"
    [] field \in DOMAIN KindOf ->
         /\ Kind(want) = KindOf[field] /\ Has(node, field, KindOf[field])
         /\ ScalarEqual(node[field], want)
    [] OTHER -> field \in DOMAIN node /\ ScalarEqual(node[field], want)

(* matchesNode *)
Matches(node, ws, match) == \A key \in DOMAIN match : MatchesKey(node, ws, key, match[key])

(* Mutant: con_id is not known as a name of id. *)
ReportedNoAlias(node, ws, key) ==
  CASE key = "workspace_num" -> ws
    [] key \in DOMAIN KindOf ->
         IF ~Has(node, key, KindOf[key]) THEN Default[key]
         ELSE IF KindOf[key] = "number" THEN Int64(node[key]) ELSE node[key]
    [] OTHER -> IF key \in DOMAIN node THEN node[key] ELSE "null"

(* projectNode, one field *)
Reported(node, ws, key) ==
  LET field == Field(key) IN
  CASE key = "workspace_num" -> ws
    [] field \in DOMAIN KindOf ->
         IF ~Has(node, field, KindOf[field]) THEN Default[field]
         ELSE IF KindOf[field] = "number" THEN Int64(node[field]) ELSE node[field]
    [] OTHER -> IF field \in DOMAIN node THEN node[field] ELSE "null"

(* projectNode *)
Projection(node, ws, fields) == [key \in fields |-> Reported(node, ws, key)]

-----------------------------------------------------------------------------
(* What is asked *)

(* Mutant: "where" overrides the criteria beside it. *)
CriteriaWhere(options) ==
  [match |-> [key \in DOMAIN options.where \cup DOMAIN options.rest |->
                IF key \in DOMAIN options.where THEN options.where[key] ELSE options.rest[key]],
   fields |-> IF options.fields = {} THEN {"id"} ELSE options.fields,
   limit |-> options.limit]

(* The criteria made of the argument: "rest" are its keys other than fields,
   limit and where. *)
Criteria(options) ==
  [match |-> [key \in DOMAIN options.where \cup DOMAIN options.rest |->
                IF key \in DOMAIN options.rest THEN options.rest[key] ELSE options.where[key]],
   fields |-> IF options.fields = {} THEN {"id"} ELSE options.fields,
   limit |-> options.limit]

(* The limit is reached; 0 is none. *)
Full(crit, out) == crit.limit > 0 /\ Len(out) >= crit.limit

(* The answer of a node to a look-up, as a sequence of at most one answer. *)
Answer(node, ws, what) ==
  CASE what = "workspace" -> <<ws>>
    [] what = "pid" -> IF NodeInt(node, "pid") = None THEN <<>> ELSE <<NodeInt(node, "pid")>>
    [] what = "classes" ->
         LET named(field) == IF Has(node, field, "string") /\ node[field] # ""
                             THEN <<node[field]>> ELSE <<>>
             instance == named("window_properties.instance")
             class == named("window_properties.class")
         IN  <<instance \o IF class = instance THEN <<>> ELSE class>>
=============================================================================
