--------------------------- MODULE TreeWalkProofs ---------------------------
(***************************************************************************)
(* Proofs that the searches keep the promises of TreeWalk in all trees,    *)
(* for all criteria and all look-ups.                                      *)
(***************************************************************************)
EXTENDS TreeWalk, SequenceTheorems, FiniteSetTheorems, WellFoundedInduction, TLAPS

(* Numbers *)

(* A set of numbers that is bounded and not empty has one greatest member. *)
LEMMA GreatestExists ==
  ASSUME NEW n \in Nat, NEW S \in SUBSET (1..n), S # {}
  PROVE  \E m \in S : \A k \in S : k <= m
<1> DEFINE Bounds == {b \in Nat : \A k \in S : k <= b}   Less == OpToRel(<, Nat)
<1>1. Bounds \in SUBSET Nat /\ n \in Bounds
  OBVIOUS
<1>2. IsWellFoundedOn(Less, Nat)
  BY NatLessThanWellFounded
<1>3. ASSUME NEW b \in Nat, NEW c \in Nat, c < b PROVE <<c, b>> \in Less
  BY <1>3 DEF OpToRel
<1>4. PICK m \in Bounds : \A b \in Bounds : <<b, m>> \notin Less
  <2> HIDE DEF Bounds, Less
  <2>1. Bounds # {}
    BY <1>1
  <2> QED BY <1>1, <1>2, <2>1, WFMin
<1> HIDE DEF Less
<1>5. m \in S
  <2> SUFFICES ASSUME m \notin S PROVE FALSE
    OBVIOUS
  <2>1. \A k \in S : k \in Nat /\ k <= m /\ k # m
    BY <1>4
  <2>2. PICK k \in S : TRUE
    OBVIOUS
  <2>3. m - 1 \in Bounds
    BY <1>4, <2>1, <2>2
  <2>4. m - 1 < m /\ m \in Nat /\ m - 1 \in Nat
    BY <1>4, <2>3
  <2> QED BY <1>3, <1>4, <2>3, <2>4
<1> QED BY <1>4, <1>5

(* A part of a finite set of numbers *)
LEMMA CardinalityBelow ==
  ASSUME NEW n \in Nat, NEW S \in SUBSET (1..n), NEW T \in SUBSET S
  PROVE  /\ Cardinality(S) \in Nat /\ Cardinality(T) \in Nat
         /\ Cardinality(T) <= Cardinality(S)
         /\ T # S => Cardinality(T) < Cardinality(S)
<1>1. IsFiniteSet(S) /\ IsFiniteSet(T)
  <2>1. IsFiniteSet(1..n)
    BY FS_Interval
  <2> QED BY <2>1, FS_Subset
<1>2. Cardinality(S) \in Nat /\ Cardinality(T) \in Nat
  BY <1>1, FS_CardinalityType
<1>3. Cardinality(T) <= Cardinality(S) /\ (Cardinality(S) = Cardinality(T) => S = T)
  BY <1>1, FS_Subset
<1> QED BY <1>2, <1>3

LEMMA CardinalityUpTo ==
  ASSUME NEW n \in Nat, NEW S \in SUBSET (1..n), NEW k \in 1..n
  PROVE  Cardinality({m \in S : m < k + 1})
           = Cardinality({m \in S : m < k}) + IF k \in S THEN 1 ELSE 0
<1> DEFINE T == {m \in S : m < k}
<1>1. IsFiniteSet(T) /\ Cardinality(T) \in Nat
  <2>1. IsFiniteSet(1..n)
    BY FS_Interval
  <2>2. IsFiniteSet(T)
    BY <2>1, FS_Subset
  <2> QED BY <2>2, FS_CardinalityType
<1>0. \A m \in S : m < k + 1 <=> m < k \/ m = k
  <2>1. \A m \in S : m \in 1..n
    OBVIOUS
  <2> QED BY <2>1
<1>2. CASE k \in S
  <2>0. k \notin T
    OBVIOUS
  <2>1. {m \in S : m < k + 1} = T \cup {k}
    BY <1>0, <1>2
  <2> HIDE DEF T
  <2>2. Cardinality(T \cup {k}) = Cardinality(T) + 1
    BY <1>1, <2>0, FS_AddElement
  <2> QED BY <1>2, <2>1, <2>2 DEF T
<1>3. CASE k \notin S
  <2>1. {m \in S : m < k + 1} = T
    BY <1>0, <1>3
  <2> HIDE DEF T
  <2>2. Cardinality(T) = Cardinality(T) + 0
    BY <1>1
  <2> QED BY <1>3, <2>1, <2>2 DEF T
<1> QED BY <1>2, <1>3

(* Sequences of numbers *)
Rising(s) == \A i, j \in 1..Len(s) : i < j => s[i] < s[j]
Members(s) == {s[i] : i \in 1..Len(s)}

LEMMA MembersConcat ==
  ASSUME NEW n \in Nat, NEW s \in Seq(1..n), NEW t \in Seq(1..n)
  PROVE  s \o t \in Seq(1..n) /\ Members(s \o t) = Members(s) \cup Members(t)
<1> DEFINE u == s \o t   m == Len(s)   l == Len(t)
<1>1. /\ u \in Seq(1..n) /\ Len(u) = m + l /\ m \in Nat /\ l \in Nat
      /\ \A i \in 1..m+l : u[i] = IF i <= m THEN s[i] ELSE t[i - m]
  BY ConcatProperties, LenProperties
<1> HIDE DEF u, m, l
<1>2. ASSUME NEW i \in 1..m PROVE s[i] \in Members(u)
  BY <1>1, <1>2 DEF Members
<1>3. ASSUME NEW i \in 1..l PROVE t[i] \in Members(u)
  <2>1. i + m \in 1..m+l /\ (i + m) - m = i /\ ~(i + m <= m)
    BY <1>1
  <2>2. u[i + m] = t[i]
    BY <1>1, <2>1
  <2> QED BY <1>1, <2>1, <2>2 DEF Members
<1>4. ASSUME NEW i \in 1..m+l PROVE u[i] \in Members(s) \cup Members(t)
  <2>1. CASE i <= m
    BY <1>1, <2>1 DEF Members, m
  <2>2. CASE i > m
    <3>1. i - m \in 1..l /\ u[i] = t[i - m]
      BY <1>1, <2>2
    <3> QED BY <3>1 DEF Members, l
  <2> QED BY <1>1, <2>1, <2>2
<1>5. Members(s) = {s[i] : i \in 1..m} /\ Members(t) = {t[i] : i \in 1..l}
  BY DEF Members, m, l
<1>6. Members(u) = {u[i] : i \in 1..m+l}
  BY <1>1 DEF Members
<1>7. Members(u) = Members(s) \cup Members(t)
  BY <1>2, <1>3, <1>4, <1>5, <1>6
<1> QED BY <1>1, <1>7 DEF u

(* Rising numbers still rise with greater ones behind them. *)
LEMMA RisingConcat ==
  ASSUME NEW n \in Nat, NEW s \in Seq(1..n), NEW t \in Seq(1..n), Rising(s), Rising(t),
         \A a \in Members(s), b \in Members(t) : a < b
  PROVE  Rising(s \o t)
<1> DEFINE u == s \o t   m == Len(s)   l == Len(t)
<1>1. /\ u \in Seq(1..n) /\ Len(u) = m + l /\ m \in Nat /\ l \in Nat
      /\ \A i \in 1..m+l : u[i] = IF i <= m THEN s[i] ELSE t[i - m]
  BY ConcatProperties, LenProperties
<1> HIDE DEF u, m, l
<1>2. ASSUME NEW i \in 1..m+l, NEW j \in 1..m+l, i < j PROVE u[i] < u[j]
  <2>1. CASE j <= m
    <3>1. i \in 1..m /\ j \in 1..m /\ u[i] = s[i] /\ u[j] = s[j]
      BY <1>1, <1>2, <2>1
    <3> QED BY <1>2, <3>1 DEF Rising, m
  <2>2. CASE i > m
    <3>1. i - m \in 1..l /\ j - m \in 1..l /\ i - m < j - m
      BY <1>1, <1>2, <2>2
    <3>2. u[i] = t[i - m] /\ u[j] = t[j - m]
      BY <1>1, <1>2, <2>2
    <3> QED BY <3>1, <3>2 DEF Rising, l
  <2>3. CASE i <= m /\ j > m
    <3>1. i \in 1..m /\ j - m \in 1..l /\ u[i] = s[i] /\ u[j] = t[j - m]
      BY <1>1, <2>3
    <3> QED BY <3>1 DEF Members, m, l
  <2> QED BY <1>1, <2>1, <2>2, <2>3
<1> QED BY <1>1, <1>2 DEF Rising, u

(* The first and the rest; the first of rising numbers is the least. *)
LEMMA HeadMembers ==
  ASSUME NEW n \in Nat, NEW s \in Seq(1..n), s # <<>>
  PROVE  /\ Head(s) \in 1..n /\ Tail(s) \in Seq(1..n)
         /\ Members(s) = Members(Tail(s)) \cup {Head(s)}
         /\ Rising(s) => Rising(Tail(s)) /\ \A a \in Members(Tail(s)) : Head(s) < a
<1>1. Len(s) \in Nat \ {0} /\ Head(s) = s[1] /\ Head(s) \in 1..n
  BY EmptySeq, HeadTailProperties
<1>2. /\ Tail(s) \in Seq(1..n) /\ Len(Tail(s)) = Len(s) - 1
      /\ \A i \in 1..Len(s)-1 : Tail(s)[i] = s[i + 1]
  BY HeadTailProperties
<1>3. \A i \in 1..Len(s) : s[i] \in 1..n
  BY ElementOfSeq
<1> DEFINE t == Tail(s)
<1> HIDE DEF t
<1>4. Rising(s) => Rising(t)
  BY <1>1, <1>2 DEF Rising, t
<1>5. \A i \in 2..Len(s) : i - 1 \in 1..Len(s)-1 /\ t[i - 1] = s[i] /\ (Rising(s) => s[1] < s[i])
  <2> TAKE i \in 2..Len(s)
  <2>1. i - 1 \in 1..Len(s)-1 /\ (i - 1) + 1 = i /\ 1 \in 1..Len(s) /\ i \in 1..Len(s) /\ 1 < i
    BY <1>1
  <2> QED BY <1>2, <2>1 DEF t, Rising
<1>6. Members(t) = {s[i] : i \in 2..Len(s)}
  <2>1. Members(t) = {t[i] : i \in 1..Len(s)-1}
    BY <1>2 DEF Members, t
  <2>2. ASSUME NEW i \in 1..Len(s)-1 PROVE t[i] \in {s[j] : j \in 2..Len(s)}
    <3>1. i + 1 \in 2..Len(s) /\ t[i] = s[i + 1]
      BY <1>1, <1>2 DEF t
    <3> QED BY <3>1
  <2>3. ASSUME NEW i \in 2..Len(s) PROVE s[i] \in {t[j] : j \in 1..Len(s)-1}
    BY <1>5
  <2> QED BY <2>1, <2>2, <2>3
<1>7. Members(s) = {s[i] : i \in 2..Len(s)} \cup {s[1]}
  <2>1. 1..Len(s) = (2..Len(s)) \cup {1}
    BY <1>1
  <2> QED BY <2>1 DEF Members
<1>8. Rising(s) => \A a \in Members(t) : s[1] < a
  BY <1>5, <1>6
<1> QED BY <1>1, <1>2, <1>4, <1>6, <1>7, <1>8 DEF t

-----------------------------------------------------------------------------
(* Nodes and workspaces *)

LEMMA DocumentedFacts ==
  ASSUME NEW t \in LayoutTrees
  PROVE  /\ Len(t.node) \in Nat \ {0} /\ Nodes(t) = 1..Len(t.node)
         /\ \A n \in Nodes(t) : n # 1 => t.parent[n] \in 1..n-1
         /\ \A n \in Nodes(t) : n # 1 =>
              \A m \in t.parent[n]+1..n-1 : t.parent[m] >= t.parent[n]
         /\ \A n \in Nodes(t) :
              /\ Children(t, n) \in Seq(Nodes(t)) /\ Rising(Children(t, n))
              /\ Members(Children(t, n)) = {c \in Nodes(t) \ {1} : t.parent[c] = n}
<1>1. Documented(t)
  BY WalkAssumption
<1>2. /\ Len(t.node) \in Nat \ {0} /\ Nodes(t) = 1..Len(t.node)
      /\ DOMAIN t.parent = Nodes(t) \ {1}
      /\ \A n \in DOMAIN t.parent :
           /\ t.parent[n] \in 1..n-1
           /\ \A m \in t.parent[n]+1..n-1 : t.parent[m] >= t.parent[n]
  BY <1>1 DEF Documented
<1>3. ASSUME NEW n \in Nodes(t)
      PROVE  /\ Children(t, n) \in Seq(Nodes(t)) /\ Rising(Children(t, n))
             /\ Members(Children(t, n)) = {c \in Nodes(t) \ {1} : t.parent[c] = n}
  <2> DEFINE s == Children(t, n)
  <2>1. t.nodes[n] \in Seq(Nodes(t)) /\ t.floating_nodes[n] \in Seq(Nodes(t))
    BY <1>1 DEF Documented
  <2>2. s \in Seq(Nodes(t))
    BY <2>1, ConcatProperties DEF Children
  <2>3. /\ \A i, j \in DOMAIN s : i < j => s[i] < s[j]
        /\ Range(s) = {c \in DOMAIN t.parent : t.parent[c] = n}
    BY <1>1 DEF Documented
  <2> HIDE DEF s
  <2>4. DOMAIN s = 1..Len(s)
    BY <2>2, LenProperties
  <2>5. Rising(s) /\ Members(s) = Range(s)
    BY <2>3, <2>4 DEF Rising, Members, Range
  <2> QED BY <1>2, <2>2, <2>3, <2>5 DEF s
<1> QED BY <1>2, <1>3

(* The number of the workspace a node is inside of *)
Outside(t, n) == IF n = 1 THEN "0" ELSE Workspace(t, t.parent[n])

LEMMA WorkspaceStep ==
  ASSUME NEW t \in LayoutTrees, NEW n \in Nodes(t)
  PROVE  Workspace(t, n) = WorkspaceHere(t.node[n], Outside(t, n))
<1> DEFINE On(m) == {q \in Enclosing(t, m) : OwnWorkspace(t.node[q]) # None}
           p == t.parent[n]
<1>1. /\ n \in Nat /\ n >= 1
      /\ n # 1 => p \in 1..n-1 /\ \A m \in p+1..n-1 : t.parent[m] >= p
  BY DocumentedFacts
<1>2. Enclosing(t, n) \in SUBSET (1..n) /\ n \in Enclosing(t, n)
  BY <1>1 DEF Enclosing
<1>3. CASE OwnWorkspace(t.node[n]) # None
  <2>1. n \in On(n) /\ \A m \in On(n) : m <= n /\ m \in Nat
    BY <1>1, <1>2, <1>3
  <2>2. \A m \in On(n) : (\A q \in On(n) : q <= m) <=> m = n
    BY <1>1, <2>1
  <2>3. (CHOOSE m \in On(n) : \A q \in On(n) : q <= m) = n
    <3> HIDE DEF On
    <3> QED BY <2>1, <2>2
  <2> QED BY <1>3, <2>1, <2>3 DEF Workspace, WorkspaceHere
<1>4. CASE OwnWorkspace(t.node[n]) = None /\ n = 1
  <2>1. On(n) = {}
    BY <1>2, <1>4
  <2> QED BY <1>4, <2>1 DEF Workspace, WorkspaceHere, Outside
<1>5. CASE OwnWorkspace(t.node[n]) = None /\ n # 1
  <2>1. Enclosing(t, n) = Enclosing(t, p) \cup {n}
    <3>1. ASSUME NEW m \in Enclosing(t, n), m # n PROVE m \in Enclosing(t, p)
      <4>1. m \in 1..n-1 /\ p >= m
        BY <1>1, <3>1 DEF Enclosing
      <4>2. m \in 1..p /\ \A q \in m+1..p : q \in m+1..n
        BY <1>1, <1>5, <4>1
      <4> QED BY <4>2, <3>1 DEF Enclosing
    <3>2. ASSUME NEW m \in Enclosing(t, p) PROVE m \in Enclosing(t, n)
      <4>1. m \in 1..p /\ \A q \in m+1..p : t.parent[q] >= m
        BY DEF Enclosing
      <4>2. ASSUME NEW q \in m+1..n PROVE t.parent[q] >= m
        <5>1. CASE q <= p
          BY <1>1, <1>5, <4>1, <5>1
        <5>2. CASE q > p /\ q < n
          <6>1. q \in p+1..n-1 /\ q \in Nodes(t) /\ q # 1
            BY <1>1, <1>5, <4>1, <5>2, DocumentedFacts
          <6>2. t.parent[q] >= p /\ t.parent[q] \in Int
            BY <1>1, <1>5, <6>1, DocumentedFacts
          <6> QED BY <1>1, <1>5, <4>1, <6>2
        <5>3. CASE q = n
          BY <1>1, <1>5, <4>1, <5>3
        <5> QED BY <1>1, <1>5, <5>1, <5>2, <5>3
      <4>3. m \in 1..n
        BY <1>1, <1>5, <4>1
      <4> QED BY <4>2, <4>3 DEF Enclosing
    <3> QED BY <1>2, <3>1, <3>2
  <2>2. On(n) = On(p)
    BY <1>5, <2>1
  <2> DEFINE Number(on) == IF on = {} THEN "0"
                           ELSE OwnWorkspace(t.node[CHOOSE m \in on : \A q \in on : q <= m])
  <2>3. Workspace(t, n) = Number(On(n)) /\ Workspace(t, p) = Number(On(p))
    BY DEF Workspace
  <2>4. Workspace(t, n) = Workspace(t, p)
    <3> HIDE DEF Number, On
    <3> QED BY <2>2, <2>3
  <2> QED BY <1>5, <2>4 DEF WorkspaceHere, Outside
<1> QED BY <1>3, <1>4, <1>5

LEMMA KindProperties ==
  ASSUME NEW v
  PROVE  /\ Kind(v) = "null" <=> v = "null"
         /\ Kind(v) = "bool" <=> v \in Bools
         /\ Kind(v) = "number" <=> v \in Ints \cup {Fraction}
         /\ Kind(v) \in {"null", "bool", "number", "string"}
BY SearchAssumption DEF Kind, Bools, Fraction

LEMMA NumberInt ==
  ASSUME NEW node, NEW field
  PROVE  NodeInt(node, field) \in Ints \cup {None}
<1>1. CASE Has(node, field, "number")
  <2>1. node[field] \in Ints \cup {Fraction}
    BY <1>1, KindProperties DEF Has
  <2> QED BY <1>1, <2>1, SearchAssumption DEF NodeInt, Int64
<1> QED BY <1>1 DEF NodeInt

LEMMA WorkspaceInt ==
  ASSUME NEW t \in LayoutTrees, NEW n \in Nodes(t)
  PROVE  Workspace(t, n) \in Ints
<1> DEFINE on == {m \in Enclosing(t, n) : OwnWorkspace(t.node[m]) # None}
<1>1. on \in SUBSET (1..n) /\ n \in Nat
  BY DocumentedFacts DEF Enclosing
<1>2. CASE on = {}
  BY <1>2, SearchAssumption DEF Workspace
<1>3. CASE on # {}
  <2>1. \E m \in on : \A q \in on : q <= m
    <3> HIDE DEF on
    <3> QED BY <1>1, <1>3, GreatestExists
  <2>2. PICK m \in on : Workspace(t, n) = OwnWorkspace(t.node[m])
    BY <1>3, <2>1 DEF Workspace
  <2> QED BY <2>2, NumberInt DEF OwnWorkspace
<1> QED BY <1>2, <1>3

-----------------------------------------------------------------------------
(* Matching and reporting *)

LEMMA KindOfKeys ==
  /\ DOMAIN KindOf = {"id", "fullscreen_mode", "focused", "name", "app_id", "type"}
  /\ \A field \in DOMAIN KindOf : KindOf[field] \in {"number", "bool", "string"}
BY DEF KindOf

(* What is truncated is an integer, or as it was. *)
LEMMA TruncatedValue ==
  ASSUME NEW v
  PROVE  /\ Int64(Int64(v)) = Int64(v)
         /\ Kind(Int64(v)) = Kind(v)
         /\ Kind(v) # "number" => Int64(v) = v
         /\ v \in Ints => Int64(v) = v
<1>1. Int64("0") = "0" /\ Kind("0") = "number" /\ Kind(Fraction) = "number"
  BY SearchAssumption, KindProperties DEF Int64, Fraction
<1>2. Fraction \notin Ints
  BY SearchAssumption
<1> QED BY <1>1, <1>2 DEF Int64

LEMMA ScalarMatch ==
  ASSUME NEW got, NEW want
  PROVE  ScalarEqual(got, want) <=> Int64(got) = want
<1>1. CASE Kind(want) = "number"
  BY <1>1, TruncatedValue DEF ScalarEqual
<1>2. CASE Kind(want) # "number"
  BY <1>2, TruncatedValue DEF ScalarEqual
<1> QED BY <1>1, <1>2

(* A key matches the value that is reported of it, if it is no default. *)
LEMMA MatchReported ==
  ASSUME NEW node, NEW ws \in Ints, NEW key, key # "fullscreen", NEW want
  PROVE  MatchesKey(node, ws, key, want) <=>
           /\ \/ key = "workspace_num"
              \/ /\ Field(key) \in DOMAIN node
                 /\ Field(key) \in DOMAIN KindOf => Has(node, Field(key), KindOf[Field(key)])
           /\ Int64(Reported(node, ws, key)) = want
<1> DEFINE field == Field(key)   got == node[field]
<1>1. CASE key = "workspace_num"
  <2>1. MatchesKey(node, ws, key, want) <=> want = ws
    BY <1>1, KindOfKeys DEF MatchesKey, Field
  <2>2. Reported(node, ws, key) = ws
    BY <1>1, KindOfKeys DEF Reported, Field
  <2> QED BY <1>1, <2>1, <2>2, TruncatedValue
<1>2. CASE key # "workspace_num" /\ field \in DOMAIN KindOf
  <2> DEFINE kind == KindOf[field]
  <2>1. MatchesKey(node, ws, key, want) <=>
          Kind(want) = kind /\ Has(node, field, kind) /\ ScalarEqual(got, want)
    BY <1>2, KindOfKeys DEF MatchesKey, Field
  <2>2. Has(node, field, kind) =>
          Reported(node, ws, key) = IF kind = "number" THEN Int64(got) ELSE got
    BY <1>2, KindOfKeys DEF Reported, Field
  <2>3. Has(node, field, kind) => field \in DOMAIN node /\ Kind(got) = kind
    BY DEF Has
  <2>4. Has(node, field, kind) =>
          (Int64(Reported(node, ws, key)) = want <=> Int64(got) = want)
    BY <2>2, TruncatedValue
  <2>5. Has(node, field, kind) /\ Int64(got) = want => Kind(want) = kind
    BY <2>3, TruncatedValue
  <2> HIDE DEF kind, field, got
  <2>6. ScalarEqual(got, want) <=> Int64(got) = want
    BY ScalarMatch
  <2> QED BY <1>2, <2>1, <2>3, <2>4, <2>5, <2>6 DEF field, kind
<1>3. CASE key # "workspace_num" /\ field \notin DOMAIN KindOf
  <2>1. MatchesKey(node, ws, key, want) <=> field \in DOMAIN node /\ ScalarEqual(got, want)
    BY <1>3 DEF MatchesKey
  <2>2. field \in DOMAIN node => Reported(node, ws, key) = got
    BY <1>3 DEF Reported
  <2>3. ScalarEqual(got, want) <=> Int64(got) = want
    BY ScalarMatch
  <2> QED BY <1>3, <2>1, <2>2, <2>3
<1> QED BY <1>1, <1>2, <1>3

-----------------------------------------------------------------------------
(* The walk in document order *)

Size == Len(tree.node)

(* The next node to be visited, or the number after the last *)
Front == IF todo = <<>> THEN Size + 1 ELSE Head(todo)

WalkTypeOK == tree \in LayoutTrees /\ question \in Questions /\ todo \in Seq(1..Size)

(* What is to be done are, in document order, the nodes not visited whose parents
   are, each with the number of the workspace it is inside of. *)
PendingInv ==
  /\ Rising(todo)
  /\ Members(todo) = {n \in 1..Size : n >= Front /\ (n = 1 \/ tree.parent[n] < Front)}
  /\ \A n \in Members(todo) : curWS[n] = Outside(tree, n)

LEMMA WalkInitPending ==
  ASSUME WalkInit, todo # <<>>
  PROVE  PendingInv /\ Front = 1
<1>0. tree \in LayoutTrees /\ todo = <<1>> /\ curWS = [n \in Nodes(tree) |-> "0"]
  BY DEF WalkInit
<1>1. 1 \in 1..Size /\ Size \in Nat /\ Nodes(tree) = 1..Size
  BY <1>0, DocumentedFacts DEF Size
<1>2. Len(todo) = 1 /\ todo[1] = 1 /\ Front = 1
  BY <1>0, <1>1 DEF Front
<1>3. Members(todo) = {1} /\ Rising(todo)
  BY <1>2 DEF Members, Rising
<1>4. ASSUME NEW n \in 1..Size, n # 1 PROVE ~(tree.parent[n] < 1)
  <2>1. tree.parent[n] \in 1..n-1
    BY <1>0, <1>1, <1>4, DocumentedFacts
  <2> QED BY <1>1, <2>1
<1>5. {n \in 1..Size : n >= 1 /\ (n = 1 \/ tree.parent[n] < 1)} = {1}
  BY <1>1, <1>4
<1> QED BY <1>0, <1>1, <1>2, <1>3, <1>5 DEF PendingInv, Outside

(* The node that is visited, and its workspace *)
LEMMA HereFacts ==
  ASSUME WalkTypeOK, todo # <<>>
  PROVE  /\ Front = Head(todo) /\ Front \in 1..Size /\ Size \in Nat /\ Nodes(tree) = 1..Size
         /\ Here = tree.node[Front]
         /\ PendingInv => HereWorkspace = Workspace(tree, Front)
<1>1. Size \in Nat /\ Nodes(tree) = 1..Size
  BY DocumentedFacts DEF WalkTypeOK, Size
<1>2. Head(todo) \in 1..Size /\ Head(todo) \in Members(todo)
  BY <1>1, HeadMembers DEF WalkTypeOK
<1>3. Front = Head(todo) /\ Here = tree.node[Front]
  BY DEF Front, Here
<1>4. PendingInv => curWS[Front] = Outside(tree, Front)
  BY <1>2, <1>3 DEF PendingInv
<1>5. Workspace(tree, Front) = WorkspaceHere(tree.node[Front], Outside(tree, Front))
  BY <1>1, <1>2, <1>3, WorkspaceStep DEF WalkTypeOK
<1> QED BY <1>1, <1>2, <1>3, <1>4, <1>5 DEF HereWorkspace

(* The children come in place of the node. *)
LEMMA DescendMembers ==
  ASSUME WalkTypeOK, todo # <<>>, Descend
  PROVE  /\ todo' \in Seq(1..Size)
         /\ Members(todo') = {c \in 1..Size : c # 1 /\ tree.parent[c] = Front}
                               \cup Members(Tail(todo))
<1>1. Front = Head(todo) /\ Front \in 1..Size /\ Size \in Nat /\ Nodes(tree) = 1..Size
  BY HereFacts
<1>2. /\ Children(tree, Front) \in Seq(1..Size)
      /\ Members(Children(tree, Front)) = {c \in 1..Size : c # 1 /\ tree.parent[c] = Front}
  BY <1>1, DocumentedFacts DEF WalkTypeOK
<1>3. Tail(todo) \in Seq(1..Size)
  BY <1>1, HeadMembers DEF WalkTypeOK
<1>4. todo' = Children(tree, Front) \o Tail(todo)
  BY <1>1 DEF Descend
<1> QED BY <1>1, <1>2, <1>3, <1>4, MembersConcat

(* They are the next in document order. *)
LEMMA DescendPending ==
  ASSUME WalkTypeOK, PendingInv, todo # <<>>, Descend, tree' = tree
  PROVE  PendingInv' /\ Front' = Front + 1
<1> DEFINE k == Front   N == Size   kids == {c \in 1..N : c # 1 /\ tree.parent[c] = k}
           rest == Members(Tail(todo))
           pending == {n \in 1..N : n >= k + 1 /\ (n = 1 \/ tree.parent[n] < k + 1)}
<1>1. /\ k = Head(todo) /\ k \in 1..N /\ N \in Nat /\ Nodes(tree) = 1..N
      /\ HereWorkspace = Workspace(tree, k)
  BY HereFacts
<1>2. /\ Tail(todo) \in Seq(1..N) /\ Rising(Tail(todo))
      /\ Members(todo) = rest \cup {k} /\ \A a \in rest : k < a
  BY <1>1, HeadMembers DEF WalkTypeOK, PendingInv
<1>3. Members(todo) = {n \in 1..N : n >= k /\ (n = 1 \/ tree.parent[n] < k)}
  BY DEF PendingInv
<1>4. /\ Children(tree, k) \in Seq(1..N) /\ Rising(Children(tree, k))
      /\ Members(Children(tree, k)) = kids
      /\ \A n \in 1..N : n # 1 =>
           /\ tree.parent[n] \in 1..n-1
           /\ \A m \in tree.parent[n]+1..n-1 : tree.parent[m] >= tree.parent[n]
  <2>0. tree \in LayoutTrees
    BY DEF WalkTypeOK
  <2>1. \A n \in 1..N : n # 1 => tree.parent[n] \in 1..n-1
    BY <1>1, <2>0, DocumentedFacts
  <2>2. \A n \in 1..N : n # 1 =>
           \A m \in tree.parent[n]+1..n-1 : tree.parent[m] >= tree.parent[n]
    BY <1>1, <2>0, DocumentedFacts
  <2>3. /\ Children(tree, k) \in Seq(1..N) /\ Rising(Children(tree, k))
        /\ Members(Children(tree, k)) = kids
    BY <1>1, <2>0, DocumentedFacts
  <2> QED BY <2>1, <2>2, <2>3
<1>5. todo' = Children(tree, k) \o Tail(todo) /\ todo' \in Seq(1..N)
      /\ Members(todo') = kids \cup rest /\ N' = N
  BY <1>1, DescendMembers DEF Descend, Size
<1> HIDE DEF k, N
<1>6. ASSUME NEW a \in rest PROVE a \in 1..N /\ a > k /\ a # 1 /\ tree.parent[a] < k
  BY <1>1, <1>2, <1>3
<1>7. ASSUME NEW a \in kids PROVE a \in 1..N /\ a > k /\ a # 1 /\ tree.parent[a] = k
  <2>1. a \in 1..N /\ a # 1 /\ tree.parent[a] = k
    OBVIOUS
  <2>2. tree.parent[a] \in 1..a-1
    BY <1>4, <2>1
  <2> QED BY <1>1, <2>1, <2>2
<1>8. \A a \in kids, b \in rest : a < b
  <2> TAKE a \in kids, b \in rest
  <2>1. SUFFICES ASSUME b < a PROVE FALSE
    BY <1>1, <1>6, <1>7
  <2>2. b \in tree.parent[a]+1..a-1
    BY <1>1, <1>6, <1>7, <2>1
  <2>3. tree.parent[b] >= k
    BY <1>4, <1>7, <2>2
  <2> QED BY <1>1, <1>4, <1>6, <2>3
<1>9. Rising(todo')
  BY <1>1, <1>2, <1>4, <1>5, <1>8, RisingConcat
<1>10. Members(todo') = pending
  <2>1. ASSUME NEW n \in pending PROVE n \in kids \cup rest
    <3>1. n \in 1..N /\ n > k /\ n # 1 /\ tree.parent[n] \in Int /\ tree.parent[n] < k + 1
      BY <1>1, <1>4
    <3>2. CASE tree.parent[n] = k
      BY <3>1, <3>2 DEF N
    <3>3. CASE tree.parent[n] < k
      <4>1. n \in Members(todo) /\ n # k
        BY <1>1, <1>3, <3>1, <3>3
      <4> QED BY <1>2, <4>1
    <3> QED BY <1>1, <3>1, <3>2, <3>3
  <2>2. ASSUME NEW n \in kids \cup rest PROVE n \in pending
    <3>1. n \in 1..N /\ n > k /\ n # 1 /\ tree.parent[n] \in Int /\ tree.parent[n] <= k
      BY <1>1, <1>4, <1>6, <1>7
    <3> QED BY <1>1, <3>1
  <2> QED BY <1>5, <2>1, <2>2
<1>11. Front' = k + 1
  <2>1. CASE k = N
    <3>1. pending = {}
      BY <1>1, <2>1
    <3>2. todo' = <<>>
      <4>1. SUFFICES ASSUME todo' # <<>> PROVE FALSE
        OBVIOUS
      <4>2. Members(todo') # {}
        <5>1. N \in Nat /\ todo' \in Seq(1..N)
          BY <1>1, <1>5
        <5>2. Members(todo') = Members(Tail(todo')) \cup {Head(todo')}
          <6> HIDE DEF N
          <6> QED BY <4>1, <5>1, HeadMembers
        <5> QED BY <5>2
      <4> QED BY <1>10, <3>1, <4>2
    <3> QED BY <1>5, <2>1, <3>2 DEF Front, N
  <2>2. CASE k # N
    <3>1. k + 1 \in pending
      BY <1>1, <1>4, <2>2
    <3>2. todo' # <<>>
      <4>1. SUFFICES ASSUME todo' = <<>> PROVE FALSE
        OBVIOUS
      <4>2. Members(todo') = {}
        BY <4>1 DEF Members
      <4> QED BY <1>10, <3>1, <4>2
    <3>3. /\ Head(todo') \in pending
          /\ \A a \in pending : a = Head(todo') \/ Head(todo') < a
      <4>1. N \in Nat /\ todo' \in Seq(1..N)
        BY <1>1, <1>5
      <4>2. /\ Members(todo') = Members(Tail(todo')) \cup {Head(todo')}
            /\ \A a \in Members(Tail(todo')) : Head(todo') < a
        <5> HIDE DEF N
        <5> QED BY <1>9, <3>2, <4>1, HeadMembers
      <4> HIDE DEF pending
      <4> QED BY <1>10, <4>2
    <3>4. Head(todo') = k + 1
      BY <1>1, <3>1, <3>3
    <3> QED BY <3>2, <3>4 DEF Front
  <2> QED BY <2>1, <2>2
<1>12. ASSUME NEW n \in Members(todo') PROVE curWS'[n] = Outside(tree, n)
  <2>1. n \in 1..N /\ n # 1
    BY <1>5, <1>6, <1>7
  <2>2. Range(Children(tree, k)) = kids
    <3>1. DOMAIN Children(tree, k) = 1..Len(Children(tree, k))
      BY <1>4, LenProperties
    <3> QED BY <1>4, <3>1 DEF Range, Members
  <2>3. curWS'[n] = IF n \in kids THEN HereWorkspace ELSE curWS[n]
    BY <1>1, <2>1, <2>2 DEF Descend
  <2>4. CASE n \in kids
    BY <1>1, <1>7, <2>1, <2>3, <2>4 DEF Outside
  <2>5. CASE n \notin kids
    <3>1. n \in Members(todo)
      BY <1>2, <1>5, <2>5
    <3> QED BY <2>3, <2>5, <3>1 DEF PendingInv
  <2> QED BY <2>4, <2>5
<1> QED BY <1>1, <1>5, <1>9, <1>10, <1>11, <1>12 DEF PendingInv, k, N, Size
-----------------------------------------------------------------------------
(* The results of find *)

Hits(t, options) == {n \in Nodes(t) : Satisfies(t, n, options)}
HitsBelow(t, options, k) == {n \in Hits(t, options) : n < k}
ShownFields(options) == IF options.fields = {} THEN {"id"} ELSE options.fields
ResultOf(t, options, n) == [key \in ShownFields(options) |-> Shown(t, n, key)]
ResultSet(t, options) == {ResultOf(t, options, n) : n \in Hits(t, options)}

(* s are the results of the nodes before k. *)
Results(t, options, k, s) ==
  /\ s \in Seq(ResultSet(t, options))
  /\ Len(s) = Cardinality(HitsBelow(t, options, k))
  /\ \A n \in HitsBelow(t, options, k) :
       s[Cardinality(HitsBelow(t, options, n)) + 1] = ResultOf(t, options, n)

(* What FindExact says of the results s *)
Exact(t, options, s) ==
  LET hits == Hits(t, options)
      before(n) == Cardinality({m \in hits : m < n})
  IN  /\ Len(s) = IF options.limit = 0 \/ options.limit > Cardinality(hits)
                  THEN Cardinality(hits) ELSE options.limit
      /\ \A n \in hits : before(n) < Len(s) => s[before(n) + 1] = ResultOf(t, options, n)

LEMMA MatchesCriteria ==
  ASSUME NEW t, NEW n, NEW options
  PROVE  /\ Matches(t.node[n], Workspace(t, n), Criteria(options).match)
              <=> Satisfies(t, n, options)
         /\ Projection(t.node[n], Workspace(t, n), Criteria(options).fields)
              = ResultOf(t, options, n)
         /\ Satisfies(t, n, options) <=>
              \A key \in Wanted(options) :
                MatchesKey(t.node[n], Workspace(t, n), key, Want(options, key))
<1> DEFINE Matched(key, want) == MatchesKey(t.node[n], Workspace(t, n), key, want)
           match == Criteria(options).match
<1>1. /\ DOMAIN match = Wanted(options)
      /\ \A key \in Wanted(options) : match[key] = Want(options, key)
  BY DEF Criteria, Wanted, Want
<1>2. Satisfies(t, n, options) <=>
        /\ \A key \in DOMAIN options.rest : Matched(key, options.rest[key])
        /\ \A key \in DOMAIN options.where \ DOMAIN options.rest :
             Matched(key, options.where[key])
  BY DEF Satisfies, Matches
<1>3. Matches(t.node[n], Workspace(t, n), match)
        <=> \A key \in DOMAIN match : Matched(key, match[key])
  BY DEF Matches
<1>4. Projection(t.node[n], Workspace(t, n), Criteria(options).fields)
        = ResultOf(t, options, n)
  BY DEF Projection, ResultOf, Shown, ShownFields, Criteria
<1> HIDE DEF Matched, match
<1>5. Satisfies(t, n, options) <=>
        \A key \in Wanted(options) : Matched(key, Want(options, key))
  BY <1>2 DEF Wanted, Want
<1>6. Matches(t.node[n], Workspace(t, n), match) <=> Satisfies(t, n, options)
  BY <1>1, <1>3, <1>5
<1> QED BY <1>4, <1>5, <1>6 DEF Matched, match

(* Hits are few, and the later a node, the more hits are before it. *)
LEMMA HitsFacts ==
  ASSUME NEW t \in LayoutTrees, NEW options
  PROVE  /\ Len(t.node) \in Nat /\ Nodes(t) = 1..Len(t.node)
         /\ Hits(t, options) \in SUBSET (1..Len(t.node))
         /\ Cardinality(Hits(t, options)) \in Nat
         /\ HitsBelow(t, options, 1) = {} /\ Cardinality(HitsBelow(t, options, 1)) = 0
         /\ HitsBelow(t, options, Len(t.node) + 1) = Hits(t, options)
         /\ \A k \in Nat :
              /\ Cardinality(HitsBelow(t, options, k)) \in Nat
              /\ Cardinality(HitsBelow(t, options, k)) <= Cardinality(Hits(t, options))
         /\ \A k, l \in Nat : k <= l =>
              Cardinality(HitsBelow(t, options, k)) <= Cardinality(HitsBelow(t, options, l))
         /\ \A k \in Nat : \A n \in HitsBelow(t, options, k) :
              Cardinality(HitsBelow(t, options, n)) < Cardinality(HitsBelow(t, options, k))
<1> DEFINE N == Len(t.node)   H == Hits(t, options)   B(k) == HitsBelow(t, options, k)
<1>1. N \in Nat /\ Nodes(t) = 1..N
  BY DocumentedFacts
<1>2. H \in SUBSET (1..N)
  BY <1>1 DEF Hits
<1>3. \A k : B(k) = {n \in H : n < k}
  BY DEF HitsBelow
<1> HIDE DEF N, H, B
<1>4. B(1) = {} /\ B(N + 1) = H
  <2>1. \A n \in H : n \in 1..N /\ ~(n < 1) /\ n < N + 1
    BY <1>1, <1>2
  <2> QED BY <1>3, <2>1
<1>5. ASSUME NEW k \in Nat, NEW l \in Nat, k <= l
      PROVE  /\ Cardinality(B(k)) \in Nat
             /\ Cardinality(B(k)) <= Cardinality(B(l))
             /\ Cardinality(B(k)) <= Cardinality(H)
             /\ Cardinality(H) \in Nat
  <2>1. \A n \in H : n \in 1..N
    BY <1>2
  <2>2. B(l) \in SUBSET (1..N) /\ B(k) \in SUBSET B(l) /\ B(k) \in SUBSET H
    BY <1>1, <1>3, <1>5, <2>1
  <2>3. Cardinality(B(k)) <= Cardinality(B(l))
    BY <1>1, <2>2, CardinalityBelow
  <2>4. Cardinality(B(k)) \in Nat /\ Cardinality(B(k)) <= Cardinality(H) /\ Cardinality(H) \in Nat
    BY <1>1, <1>2, <2>2, CardinalityBelow
  <2> QED BY <2>3, <2>4
<1>6. ASSUME NEW k \in Nat, NEW n \in B(k) PROVE Cardinality(B(n)) < Cardinality(B(k))
  <2>1. \A m \in H : m \in 1..N /\ m \in Int
    BY <1>1, <1>2
  <2>2. n \in H /\ n < k
    BY <1>3, <1>6
  <2>3. n \in Int /\ n \notin B(n)
    BY <1>3, <2>1, <2>2
  <2>4. ASSUME NEW m \in B(n) PROVE m \in B(k)
    <3>1. m \in H /\ m < n /\ m \in Int
      BY <1>3, <2>1
    <3>2. m < k
      BY <1>6, <2>2, <2>3, <3>1
    <3> QED BY <1>3, <3>1, <3>2
  <2>5. B(k) \in SUBSET (1..N)
    BY <1>3, <2>1
  <2>6. B(n) \in SUBSET B(k) /\ B(n) # B(k)
    BY <1>6, <2>3, <2>4
  <2> QED BY <1>1, <2>5, <2>6, CardinalityBelow
<1>7. Cardinality(B(1)) = 0
  BY <1>4, FS_EmptySet
<1>8. Cardinality(H) \in Nat
  BY <1>5
<1> QED BY <1>1, <1>2, <1>4, <1>5, <1>6, <1>7, <1>8 DEF N, H, B

LEMMA ResultsNone ==
  ASSUME NEW t \in LayoutTrees, NEW options
  PROVE  Results(t, options, 1, <<>>)
<1>1. HitsBelow(t, options, 1) = {} /\ Cardinality(HitsBelow(t, options, 1)) = 0
  BY HitsFacts
<1>2. <<>> \in Seq(ResultSet(t, options)) /\ Len(<<>>) = 0
  BY EmptySeq
<1> QED BY <1>1, <1>2 DEF Results

LEMMA ResultsStep ==
  ASSUME NEW t \in LayoutTrees, NEW options, NEW k \in Nodes(t), NEW s, Results(t, options, k, s)
  PROVE  /\ k \in Hits(t, options) =>
              Results(t, options, k + 1, Append(s, ResultOf(t, options, k)))
         /\ k \notin Hits(t, options) => Results(t, options, k + 1, s)
<1> DEFINE B(l) == HitsBelow(t, options, l)   H == Hits(t, options)
           R(n) == ResultOf(t, options, n)   S == ResultSet(t, options)
<1>1. /\ Len(t.node) \in Nat /\ k \in 1..Len(t.node) /\ H \in SUBSET (1..Len(t.node))
      /\ Cardinality(B(k)) \in Nat
      /\ \A n \in B(k) : Cardinality(B(n)) \in Nat /\ Cardinality(B(n)) < Cardinality(B(k))
  <2>1. /\ Len(t.node) \in Nat /\ k \in 1..Len(t.node) /\ H \in SUBSET (1..Len(t.node))
    BY HitsFacts
  <2>2. k \in Nat /\ \A n \in B(k) : n \in Nat
    BY <2>1 DEF HitsBelow
  <2> QED BY <2>1, <2>2, HitsFacts
<1>2. /\ s \in Seq(S) /\ Len(s) = Cardinality(B(k))
      /\ \A n \in B(k) : s[Cardinality(B(n)) + 1] = R(n)
  BY DEF Results
<1>3. Cardinality(B(k + 1)) = Cardinality(B(k)) + IF k \in H THEN 1 ELSE 0
  BY <1>1, CardinalityUpTo DEF HitsBelow
<1>4. \A n \in H : n \in B(k + 1) <=> n \in B(k) \/ n = k
  <2>1. \A n \in H : n < k + 1 <=> n < k \/ n = k
    BY <1>1
  <2> QED BY <2>1 DEF HitsBelow
<1>5. B(k + 1) \subseteq H /\ B(k) \subseteq H
  BY DEF HitsBelow
<1>6. CASE k \in H
  <2> DEFINE u == Append(s, R(k))
  <2>1. R(k) \in S
    BY <1>6 DEF ResultSet
  <2>2. /\ u \in Seq(S) /\ Len(u) = Len(s) + 1 /\ u[Len(s) + 1] = R(k)
        /\ \A i \in 1..Len(s) : u[i] = s[i]
    <3> HIDE DEF S, R
    <3> QED BY <1>2, <2>1, AppendProperties
  <2> HIDE DEF u, B, H, R, S
  <2>3. ASSUME NEW n \in B(k + 1) PROVE u[Cardinality(B(n)) + 1] = R(n)
    <3>1. CASE n \in B(k)
      <4>1. Cardinality(B(n)) + 1 \in 1..Len(s)
        BY <1>1, <1>2, <3>1
      <4> QED BY <1>2, <2>2, <3>1, <4>1
    <3>2. CASE n = k
      BY <1>2, <2>2, <3>2
    <3> QED BY <1>4, <1>5, <3>1, <3>2
  <2>4. Len(u) = Cardinality(B(k + 1))
    BY <1>2, <1>3, <1>6, <2>2
  <2> QED BY <1>6, <2>2, <2>3, <2>4 DEF Results, u, B, H, R, S
<1>7. CASE k \notin H
  <2>1. \A n \in B(k + 1) : n \in B(k)
    BY <1>4, <1>5, <1>7
  <2>2. Len(s) = Cardinality(B(k + 1))
    BY <1>1, <1>2, <1>3, <1>7
  <2> QED BY <1>2, <1>7, <2>1, <2>2 DEF Results
<1> QED BY <1>6, <1>7

(* The walk may end after the last node, or with as many results as the limit. *)
LEMMA ResultsExact ==
  ASSUME NEW t \in LayoutTrees, NEW options, options.limit \in Nat,
         NEW k \in 1..Len(t.node)+1, NEW s,
         Results(t, options, k, s),
         \/ options.limit > 0 /\ Len(s) = options.limit
         \/ k = Len(t.node) + 1 /\ (options.limit = 0 \/ Len(s) < options.limit)
  PROVE  Exact(t, options, s)
<1> DEFINE B(l) == HitsBelow(t, options, l)   H == Hits(t, options)
<1>1. /\ Len(t.node) \in Nat /\ k \in Nat /\ Len(s) = Cardinality(B(k))
      /\ Cardinality(H) \in Nat /\ Cardinality(B(k)) \in Nat
      /\ Cardinality(B(k)) <= Cardinality(H)
      /\ B(Len(t.node) + 1) = H
  <2>1. Len(t.node) \in Nat
    BY HitsFacts
  <2>2. k \in Nat
    BY <2>1
  <2> QED BY <2>1, <2>2, HitsFacts DEF Results
<1>2. Len(s) = IF options.limit = 0 \/ options.limit > Cardinality(H)
               THEN Cardinality(H) ELSE options.limit
  BY <1>1
<1>3. ASSUME NEW n \in H, Cardinality(B(n)) < Len(s)
      PROVE  s[Cardinality(B(n)) + 1] = ResultOf(t, options, n)
  <2>1. n \in Nat /\ Cardinality(B(n)) \in Nat
    <3>1. H \in SUBSET (1..Len(t.node))
      BY HitsFacts
    <3>2. n \in Nat
      BY <1>1, <3>1
    <3> QED BY <3>2, HitsFacts
  <2>2. n < k
    <3>1. SUFFICES ASSUME k <= n PROVE FALSE
      BY <1>1, <2>1
    <3>2. Cardinality(B(k)) <= Cardinality(B(n))
      BY <1>1, <2>1, <3>1, HitsFacts
    <3> QED BY <1>1, <1>3, <2>1, <3>2
  <2>3. n \in B(k)
    BY <2>2 DEF HitsBelow
  <2> QED BY <2>3 DEF Results
<1>4. \A n : B(n) = {m \in H : m < n}
  BY DEF HitsBelow
<1> QED BY <1>2, <1>3, <1>4 DEF Exact
-----------------------------------------------------------------------------
(* The tree and the question stay what they are. *)
LEMMA TypeOK == WalkSpec => []WalkTypeOK
<1>1. WalkInit => WalkTypeOK
  <2> SUFFICES ASSUME WalkInit PROVE WalkTypeOK
    OBVIOUS
  <2>1. tree \in LayoutTrees /\ question \in Questions /\ todo \in {<<>>, <<1>>}
    BY DEF WalkInit
  <2>2. 1 \in 1..Size
    BY <2>1, DocumentedFacts DEF Size
  <2>3. <<1>> \in Seq(1..Size) /\ <<>> \in Seq(1..Size)
    BY <2>2, EmptySeq
  <2> QED BY <2>1, <2>3 DEF WalkTypeOK
<1>2. WalkTypeOK /\ [WalkNext]_walkVars => WalkTypeOK'
  <2> SUFFICES ASSUME WalkTypeOK, [WalkNext]_walkVars PROVE WalkTypeOK'
    OBVIOUS
  <2>1. CASE UNCHANGED walkVars
    BY <2>1 DEF WalkTypeOK, walkVars, Size
  <2>2. CASE WalkNext
    <3>1. tree' = tree /\ question' = question /\ todo # <<>>
      BY <2>2 DEF WalkNext, FindVisit, AnswerVisit, PassVisit
    <3>2. Descend \/ todo' = <<>> \/ todo' = Tail(todo)
      BY <2>2 DEF WalkNext, FindVisit, AnswerVisit, PassVisit
    <3>3. Size \in Nat /\ Tail(todo) \in Seq(1..Size)
      BY <3>1, HereFacts, HeadMembers DEF WalkTypeOK
    <3>4. todo' \in Seq(1..Size)
      BY <3>1, <3>2, <3>3, DescendMembers, EmptySeq
    <3> QED BY <3>1, <3>4 DEF WalkTypeOK, Size
  <2> QED BY <2>1, <2>2
<1> QED BY <1>1, <1>2, PTL DEF WalkSpec

(* During a search of find, the results are those of the nodes visited. *)
FindInv ==
  question.kind = "find" =>
    /\ out \in Seq(ResultSet(tree, question.options))
    /\ todo = <<>> => Exact(tree, question.options, out)
    /\ todo # <<>> =>
         /\ PendingInv /\ Results(tree, question.options, Front, out)
         /\ question.options.limit = 0 \/ Len(out) < question.options.limit

LEMMA FindVisitInv ==
  ASSUME WalkTypeOK, FindInv, FindVisit
  PROVE  FindInv'
<1> DEFINE options == question.options   crit == Criteria(options)   k == Front
<1>1. /\ question.kind = "find" /\ todo # <<>> /\ tree' = tree /\ question' = question
      /\ tree \in LayoutTrees /\ options.limit \in Nat /\ crit.limit = options.limit
  <2>1. WellPut(question)
    BY WalkAssumption DEF WalkTypeOK
  <2> QED BY <2>1 DEF FindVisit, WalkTypeOK, WellPut, Criteria
<1>2. /\ PendingInv /\ Results(tree, options, k, out)
      /\ options.limit = 0 \/ Len(out) < options.limit
  BY <1>1 DEF FindInv
<1>3. /\ k \in 1..Size /\ Size \in Nat /\ Nodes(tree) = 1..Size
      /\ Here = tree.node[k] /\ HereWorkspace = Workspace(tree, k)
  BY <1>1, <1>2, HereFacts
<1>4. /\ k \in Hits(tree, options) => out' = Append(out, ResultOf(tree, options, k))
      /\ k \notin Hits(tree, options) => out' = out
  <2>1. /\ Matches(Here, HereWorkspace, crit.match) <=> k \in Hits(tree, options)
        /\ Projection(Here, HereWorkspace, crit.fields) = ResultOf(tree, options, k)
    BY <1>3, MatchesCriteria DEF Hits
  <2>2. out' = IF Matches(Here, HereWorkspace, crit.match)
               THEN Append(out, Projection(Here, HereWorkspace, crit.fields)) ELSE out
    BY DEF FindVisit
  <2> QED BY <2>1, <2>2
<1> HIDE DEF k, options, crit
<1>5. Results(tree, options, k + 1, out')
  <2>1. k \in Nodes(tree)
    BY <1>3
  <2> QED BY <1>1, <1>2, <1>4, <2>1, ResultsStep
<1>6. Len(out) \in Nat /\ Len(out') \in Nat /\ Len(out') <= Len(out) + 1
  <2>1. out \in Seq(ResultSet(tree, options)) /\ out' \in Seq(ResultSet(tree, options))
    BY <1>2, <1>5 DEF Results
  <2>2. Len(out) \in Nat /\ Len(out') \in Nat
    BY <2>1, LenProperties
  <2>3. k \in Hits(tree, options) => Len(out') = Len(out) + 1
    <3>1. k \in Hits(tree, options) => ResultOf(tree, options, k) \in ResultSet(tree, options)
      BY DEF ResultSet
    <3> QED BY <1>4, <2>1, <3>1, AppendProperties
  <2> QED BY <1>4, <2>2, <2>3
<1>7. Full(crit, out') <=> options.limit > 0 /\ Len(out') >= options.limit
  BY <1>1 DEF Full
<1>8. IF Full(crit, out') THEN todo' = <<>> ELSE Descend
  BY DEF FindVisit, crit, options
<1>9. CASE Full(crit, out')
  <2>1. options.limit > 0 /\ Len(out') = options.limit
    BY <1>1, <1>2, <1>6, <1>7, <1>9
  <2>2. k + 1 \in 1..Size+1
    BY <1>3
  <2>3. Exact(tree, options, out')
    BY <1>1, <1>5, <2>1, <2>2, ResultsExact DEF Size
  <2>4. out' \in Seq(ResultSet(tree, options)) /\ todo' = <<>>
    BY <1>5, <1>8, <1>9 DEF Results
  <2> QED BY <1>1, <2>3, <2>4 DEF FindInv, options
<1>10. CASE ~Full(crit, out')
  <2>1. PendingInv' /\ Front' = k + 1
    BY <1>1, <1>2, <1>8, <1>10, DescendPending DEF k
  <2>2. options.limit = 0 \/ Len(out') < options.limit
    BY <1>1, <1>6, <1>7, <1>10
  <2>3. out' \in Seq(ResultSet(tree, options))
    BY <1>5 DEF Results
  <2>4. ASSUME todo' = <<>> PROVE Exact(tree, options, out')
    <3>1. k + 1 = Size + 1
      BY <1>1, <2>1, <2>4 DEF Front, Size
    <3>2. k + 1 \in 1..Size+1
      BY <1>3
    <3> QED BY <1>1, <1>5, <2>2, <3>1, <3>2, ResultsExact DEF Size
  <2> QED BY <1>1, <1>5, <2>1, <2>2, <2>3, <2>4 DEF FindInv, options
<1> QED BY <1>9, <1>10

LEMMA FindInvariant == WalkSpec => []FindInv
<1>1. WalkInit => FindInv
  <2> SUFFICES ASSUME WalkInit, question.kind = "find" PROVE FindInv
    BY DEF FindInv
  <2>1. tree \in LayoutTrees /\ question \in Questions /\ todo # <<>> /\ out = <<>>
    BY DEF WalkInit
  <2>2. PendingInv /\ Front = 1
    BY <2>1, WalkInitPending
  <2>3. Results(tree, question.options, 1, out)
    BY <2>1, ResultsNone
  <2>4. out \in Seq(ResultSet(tree, question.options)) /\ Len(out) = 0
    BY <2>1, EmptySeq
  <2>5. question.options.limit \in Nat
    BY <2>1, WalkAssumption DEF WellPut
  <2>6. question.options.limit = 0 \/ Len(out) < question.options.limit
    BY <2>4, <2>5
  <2> QED BY <2>1, <2>2, <2>3, <2>4, <2>6 DEF FindInv
<1>2. WalkTypeOK /\ FindInv /\ [WalkNext]_walkVars => FindInv'
  <2> SUFFICES ASSUME WalkTypeOK, FindInv, [WalkNext]_walkVars PROVE FindInv'
    OBVIOUS
  <2>1. CASE UNCHANGED walkVars
    BY <2>1 DEF FindInv, PendingInv, Front, Size, walkVars
  <2>2. CASE FindVisit
    BY <2>2, FindVisitInv
  <2>3. CASE AnswerVisit \/ PassVisit
    BY <2>3 DEF AnswerVisit, PassVisit, FindInv
  <2> QED BY <2>1, <2>2, <2>3 DEF WalkNext
<1> QED BY <1>1, <1>2, TypeOK, PTL DEF WalkSpec

(* i3.find gives exactly the first nodes that satisfy its criteria, in document
   order, up to the limit, each with its fields and the number of its workspace:
   in every tree, for all criteria. *)
THEOREM FindTheorem == WalkSpec => []FindExact
<1>1. FindInv => FindExact
  <2> SUFFICES ASSUME FindInv, Finished({"find"}) PROVE FindExact
    BY DEF FindExact
  <2>1. Exact(tree, question.options, out)
    BY DEF FindInv, Finished
  <2> QED BY <2>1 DEF Exact, FindExact, Hits, ResultOf, ShownFields
<1> QED BY <1>1, FindInvariant, PTL

(* What find reports of a field that it compares has the wanted value, and what
   is reported with the wanted values is found. *)
THEOREM ReportedTheorem == WalkSpec => []FoundAsReported
<1>1. WalkTypeOK /\ FindInv => FoundAsReported
  <2> SUFFICES ASSUME WalkTypeOK, FindInv, Finished({"find"}) PROVE FoundAsReported
    BY DEF FoundAsReported
  <2> DEFINE options == question.options   keys == Wanted(options) \ {"fullscreen"}
             hits == Hits(tree, options)   before(n) == Cardinality({m \in hits : m < n})
  <2>1. /\ tree \in LayoutTrees /\ out \in Seq(ResultSet(tree, options))
        /\ Exact(tree, options, out)
    BY DEF WalkTypeOK, FindInv, Finished
  <2>2. ASSUME NEW n \in Nodes(tree), NEW key \in keys
        PROVE  MatchesKey(tree.node[n], Workspace(tree, n), key, Want(options, key)) <=>
                 Own(tree, n, key) /\ Int64(Shown(tree, n, key)) = Want(options, key)
    BY <2>1, WorkspaceInt, MatchReported DEF Own, Shown
  <2>3. \A n \in Nodes(tree) : n \in hits <=>
          \A key \in Wanted(options) :
            MatchesKey(tree.node[n], Workspace(tree, n), key, Want(options, key))
    BY MatchesCriteria DEF Hits
  <2>4. ASSUME NEW i \in DOMAIN out, NEW key \in keys \cap options.fields
        PROVE  Int64(out[i][key]) = Want(options, key)
    <3>1. out[i] \in ResultSet(tree, options)
      BY <2>1
    <3>2. PICK n \in hits : out[i] = ResultOf(tree, options, n)
      BY <3>1 DEF ResultSet
    <3>3. out[i][key] = Shown(tree, n, key)
      BY <3>2 DEF ResultOf, ShownFields
    <3>4. n \in Nodes(tree)
      BY DEF Hits
    <3> QED BY <2>2, <2>3, <3>3, <3>4
  <2>5. ASSUME options.limit = 0, keys = Wanted(options), NEW n \in Nodes(tree),
               \A key \in keys : /\ Own(tree, n, key)
                                 /\ Int64(Shown(tree, n, key)) = Want(options, key)
        PROVE  \E i \in DOMAIN out : \A key \in options.fields : out[i][key] = Shown(tree, n, key)
    <3>1. n \in hits
      BY <2>2, <2>3, <2>5
    <3>2. Len(out) = Cardinality(hits) /\ \A q \in hits : before(q) < Len(out) =>
            out[before(q) + 1] = ResultOf(tree, options, q)
      BY <2>1, <2>5 DEF Exact
    <3>3. /\ hits \in SUBSET (1..Len(tree.node)) /\ Len(tree.node) \in Nat
      BY <2>1, HitsFacts
    <3> DEFINE earlier == {m \in hits : m < n}
    <3>4. n \notin earlier /\ earlier \in SUBSET hits
      BY <3>1, <3>3
    <3>5. before(n) \in Nat /\ before(n) < Len(out) /\ Len(out) \in Nat
      <4>1. earlier # hits
        BY <3>1, <3>4
      <4> HIDE DEF earlier, hits
      <4>2. /\ Cardinality(earlier) \in Nat /\ Cardinality(hits) \in Nat
            /\ Cardinality(earlier) < Cardinality(hits)
        BY <3>3, <3>4, <4>1, CardinalityBelow
      <4> QED BY <3>2, <4>2 DEF earlier, hits
    <3>6. DOMAIN out = 1..Len(out)
      BY <2>1, LenProperties
    <3>7. before(n) + 1 \in DOMAIN out
      BY <3>5, <3>6
    <3>8. out[before(n) + 1] = ResultOf(tree, options, n)
      BY <3>1, <3>2, <3>5
    <3>9. \A key \in options.fields : ResultOf(tree, options, n)[key] = Shown(tree, n, key)
      BY DEF ResultOf, ShownFields
    <3> QED BY <3>7, <3>8, <3>9
  <2> QED BY <2>4, <2>5 DEF FoundAsReported
<1> QED BY <1>1, TypeOK, FindInvariant, PTL
-----------------------------------------------------------------------------
(* The look-ups *)

HasId(n) == NodeInt(tree.node[n], "id") = question.id
AnswerOf(n) == Answer(tree.node[n], Workspace(tree, n), question.kind)

Answered ==
  \/ \E m \in 1..Size : HasId(m) /\ out = AnswerOf(m)
  \/ out = <<>> /\ \A n \in 1..Size : ~HasId(n)

(* No node visited has the id. *)
Searching == PendingInv /\ \A n \in 1..Size : n < Front => ~HasId(n)

(* The node with the id has no answer, and the walk goes on without its children. *)
PassedBy ==
  \E m \in 1..Size : HasId(m) /\ AnswerOf(m) = <<>> /\ \A a \in Members(todo) : a > m

LookInv ==
  question.kind # "find" =>
    /\ todo = <<>> => Answered
    /\ todo # <<>> => out = <<>> /\ (Searching \/ PassedBy)

LEMMA UniqueIds ==
  ASSUME WalkTypeOK
  PROVE  /\ \A m, n \in 1..Size : HasId(m) /\ HasId(n) => m = n
         /\ \A n \in 1..Size : HasId(n) => question.id \in Positive
<1>1. Documented(tree) /\ Nodes(tree) = 1..Size
  BY WalkAssumption, DocumentedFacts DEF WalkTypeOK, Size
<1>2. /\ \A m, n \in Nodes(tree) :
           NodeInt(tree.node[m], "id") = NodeInt(tree.node[n], "id") => m = n
      /\ \A n \in Nodes(tree) : NodeInt(tree.node[n], "id") \in Positive
  BY <1>1 DEF Documented
<1> QED BY <1>1, <1>2 DEF HasId

LEMMA AnswerVisitInv ==
  ASSUME WalkTypeOK, LookInv, AnswerVisit
  PROVE  LookInv'
<1> DEFINE k == Front
<1>1. /\ todo # <<>> /\ tree' = tree /\ question' = question /\ Size' = Size
      /\ out = <<>> /\ (Searching \/ PassedBy)
  BY DEF AnswerVisit, LookInv, Size
<1>2. /\ k \in 1..Size /\ Size \in Nat /\ Here = tree.node[k] /\ k = Head(todo)
      /\ PendingInv => HereWorkspace = Workspace(tree, k)
  BY <1>1, HereFacts
<1>3. /\ Members(todo) = Members(Tail(todo)) \cup {k}
      /\ Rising(todo) => \A a \in Members(Tail(todo)) : k < a
      /\ \A a \in Members(Tail(todo)) : a \in 1..Size
  <2>1. todo \in Seq(1..Size)
    BY DEF WalkTypeOK
  <2>2. Tail(todo) \in Seq(1..Size)
    BY <1>1, <1>2, <2>1, HeadMembers
  <2>3. \A a \in Members(Tail(todo)) : a \in 1..Size
    BY <2>2, ElementOfSeq DEF Members
  <2> QED BY <1>1, <1>2, <2>1, <2>3, HeadMembers
<1>4. HasId(k)
  BY <1>2 DEF AnswerVisit, HasId
<1>5. ~PassedBy
  <2> SUFFICES ASSUME NEW m \in 1..Size, HasId(m), \A a \in Members(todo) : a > m PROVE FALSE
    BY DEF PassedBy
  <2>1. m = k
    BY <1>2, <1>4, UniqueIds
  <2> QED BY <1>2, <1>3, <2>1
<1>6. PendingInv /\ out' = AnswerOf(k)
  BY <1>1, <1>2, <1>5 DEF AnswerVisit, AnswerOf, Searching
<1>7. todo' = IF out' = <<>> THEN Tail(todo) ELSE <<>>
  BY DEF AnswerVisit
<1> HIDE DEF k
<1>8. Answered'
  BY <1>1, <1>2, <1>4, <1>6 DEF Answered, HasId, AnswerOf
<1>9. ASSUME todo' # <<>> PROVE out' = <<>> /\ PassedBy'
  <2>1. out' = <<>> /\ todo' = Tail(todo)
    BY <1>7, <1>9
  <2>2. \A a \in Members(todo') : a > k
    BY <1>2, <1>3, <1>6, <2>1 DEF PendingInv
  <2> QED BY <1>1, <1>2, <1>4, <1>6, <2>1, <2>2 DEF PassedBy, HasId, AnswerOf
<1> QED BY <1>8, <1>9 DEF LookInv

LEMMA PassVisitInv ==
  ASSUME WalkTypeOK, LookInv, PassVisit
  PROVE  LookInv'
<1> DEFINE k == Front
<1>1. /\ todo # <<>> /\ tree' = tree /\ question' = question /\ out' = out /\ Size' = Size
      /\ out = <<>> /\ (Searching \/ PassedBy) /\ Descend
  BY DEF PassVisit, LookInv, Size
<1>2. /\ k \in 1..Size /\ Size \in Nat /\ Here = tree.node[k] /\ ~HasId(k)
      /\ \A n \in 1..Size : n < k + 1 => n < k \/ n = k
  <2>1. k \in 1..Size /\ Size \in Nat /\ Here = tree.node[k]
    BY <1>1, HereFacts
  <2> QED BY <2>1 DEF PassVisit, HasId
<1>3. \A n : (HasId(n))' = HasId(n) /\ (AnswerOf(n))' = AnswerOf(n)
  BY <1>1 DEF HasId, AnswerOf
<1>4. CASE Searching
  <2>1. PendingInv' /\ Front' = k + 1
    BY <1>1, <1>4, DescendPending DEF Searching
  <2>2. \A n \in 1..Size : n < k + 1 => ~HasId(n)
    BY <1>2, <1>4 DEF Searching
  <2>3. Searching'
    BY <1>1, <2>1, <2>2 DEF Searching, HasId
  <2>4. ASSUME todo' = <<>> PROVE Answered'
    <3>1. k + 1 = Size + 1
      BY <1>1, <2>1, <2>4 DEF Front
    <3>2. \A n \in 1..Size : ~HasId(n)
      BY <1>2, <2>2, <3>1
    <3> QED BY <1>1, <3>2 DEF Answered, HasId
  <2> QED BY <1>1, <2>3, <2>4 DEF LookInv
<1>5. CASE PassedBy
  <2>1. PICK m \in 1..Size : HasId(m) /\ AnswerOf(m) = <<>> /\ \A a \in Members(todo) : a > m
    BY <1>5 DEF PassedBy
  <2>2. /\ todo' \in Seq(1..Size)
        /\ Members(todo') = {c \in 1..Size : c # 1 /\ tree.parent[c] = k} \cup Members(Tail(todo))
    BY <1>1, DescendMembers
  <2>3. Members(todo) = Members(Tail(todo)) \cup {k}
    BY <1>1, <1>2, HereFacts, HeadMembers DEF WalkTypeOK
  <2>4. ASSUME NEW c \in 1..Size, c # 1, tree.parent[c] = k PROVE c > m
    <3>1. tree.parent[c] \in 1..c-1
      BY <2>4, DocumentedFacts DEF WalkTypeOK, Size
    <3>2. k > m
      BY <2>1, <2>3
    <3> QED BY <1>2, <2>4, <3>1, <3>2
  <2>5. \A a \in Members(todo') : a > m
    BY <2>1, <2>2, <2>3, <2>4
  <2>6. PassedBy' /\ Answered'
    BY <1>1, <2>1, <2>5 DEF PassedBy, Answered, HasId, AnswerOf
  <2> QED BY <1>1, <2>6 DEF LookInv
<1> QED BY <1>1, <1>4, <1>5

LEMMA LookInvariant == WalkSpec => []LookInv
<1>1. WalkInit => LookInv
  <2> SUFFICES ASSUME WalkInit, question.kind # "find" PROVE LookInv
    BY DEF LookInv
  <2>1. tree \in LayoutTrees /\ question \in Questions /\ out = <<>>
    BY DEF WalkInit
  <2>2. Size \in Nat /\ 1 \in 1..Size
    BY <2>1, DocumentedFacts DEF Size
  <2>3. CASE todo = <<>>
    <3>1. WalkTypeOK
      BY <2>1, <2>3, EmptySeq DEF WalkTypeOK
    <3>2. question.id \notin Positive
      BY <2>3 DEF WalkInit
    <3>3. \A n \in 1..Size : ~HasId(n)
      BY <3>1, <3>2, UniqueIds
    <3> QED BY <2>1, <2>3, <3>3 DEF LookInv, Answered
  <2>4. CASE todo = <<1>>
    <3>1. PendingInv /\ Front = 1
      BY <2>4, WalkInitPending
    <3>2. Searching
      BY <2>2, <3>1 DEF Searching
    <3> QED BY <2>1, <2>4, <3>2 DEF LookInv
  <2> QED BY <2>3, <2>4 DEF WalkInit
<1>2. WalkTypeOK /\ LookInv /\ [WalkNext]_walkVars => LookInv'
  <2> SUFFICES ASSUME WalkTypeOK, LookInv, [WalkNext]_walkVars PROVE LookInv'
    OBVIOUS
  <2>1. CASE UNCHANGED walkVars
    BY <2>1 DEF LookInv, Answered, Searching, PassedBy, PendingInv, Front, Size, HasId,
                AnswerOf, walkVars
  <2>2. CASE FindVisit
    BY <2>2 DEF FindVisit, LookInv
  <2>3. CASE AnswerVisit
    BY <2>3, AnswerVisitInv
  <2>4. CASE PassVisit
    BY <2>4, PassVisitInv
  <2> QED BY <2>1, <2>2, <2>3, <2>4 DEF WalkNext
<1> QED BY <1>1, <1>2, TypeOK, PTL DEF WalkSpec

(* The classes of a node, each once *)
LEMMA ClassAnswer ==
  ASSUME NEW node, NEW ws
  PROVE  LET one == "window_properties.instance"
             two == "window_properties.class"
             names == {node[field] : field \in {f \in {one, two} : Has(node, f, "string")}} \ {""}
             answer == Answer(node, ws, "classes")
         IN  /\ Len(answer) = 1 /\ Range(answer[1]) = names
             /\ Len(answer[1]) = Cardinality(names)
             /\ Has(node, one, "string") /\ node[one] # "" => answer[1][1] = node[one]
<1> DEFINE one == "window_properties.instance"   two == "window_properties.class"
           names == {node[field] : field \in {f \in {one, two} : Has(node, f, "string")}} \ {""}
           hasOne == Has(node, one, "string") /\ node[one] # ""
           hasTwo == Has(node, two, "string") /\ node[two] # ""
           first == IF hasOne THEN <<node[one]>> ELSE <<>>
           second == IF hasTwo THEN <<node[two]>> ELSE <<>>
           found == first \o IF second = first THEN <<>> ELSE second
<1>1. Answer(node, ws, "classes") = <<found>>
  BY DEF Answer
<1> HIDE DEF one, two
<1>2. \A v : v \in names <=> (hasOne /\ v = node[one]) \/ (hasTwo /\ v = node[two])
  <2> TAKE v
  <2>1. v \in names <=>
          v # "" /\ \E field \in {one, two} : Has(node, field, "string") /\ v = node[field]
    OBVIOUS
  <2> HIDE DEF names
  <2> QED BY <2>1
<1> HIDE DEF names, hasOne, hasTwo
<1>7. /\ <<>> \o <<>> = <<>>
      /\ \A a : <<a>> \o <<>> = <<a>> /\ <<>> \o <<a>> = <<a>>
      /\ \A a, b : <<a>> \o <<b>> = <<a, b>>
  <2>1. <<>> \o <<>> = <<>>
    OBVIOUS
  <2>2. ASSUME NEW a PROVE <<a>> \o <<>> = <<a>> /\ <<>> \o <<a>> = <<a>>
    <3>1. <<a>> \in Seq({a}) /\ <<>> \in Seq({a})
      OBVIOUS
    <3> QED BY <3>1, ConcatEmptySeq
  <2>3. ASSUME NEW a, NEW b PROVE <<a>> \o <<b>> = <<a, b>>
    <3>1. <<a>> \in Seq({a, b}) /\ b \in {a, b}
      OBVIOUS
    <3> DEFINE u == <<a>> \o <<b>>
    <3>2. u = Append(<<a>>, b)
      BY <3>1, AppendIsConcat
    <3>3. u \in Seq({a, b}) /\ Len(u) = 2 /\ u[1] = a /\ u[2] = b
      BY <3>1, <3>2, AppendProperties
    <3>4. <<a, b>> \in Seq({a, b}) /\ Len(<<a, b>>) = 2
      BY <3>1
    <3>5. \A i \in 1..2 : u[i] = <<a, b>>[i]
      BY <3>3
    <3> HIDE DEF u
    <3> QED BY <3>3, <3>4, <3>5, SeqEqual DEF u
  <2> QED BY <2>1, <2>2, <2>3
<1>3. Cardinality({}) = 0 /\ \A a : Cardinality({a}) = 1
  BY FS_EmptySet, FS_Singleton
<1>4. \A a, b : a # b => Cardinality({a, b}) = 2
  <2> TAKE a, b
  <2> HAVE a # b
  <2>1. IsFiniteSet({a}) /\ b \notin {a}
    BY FS_Singleton
  <2>2. Cardinality({a} \cup {b}) = 1 + 1
    BY <1>3, <2>1, FS_AddElement
  <2>3. {a} \cup {b} = {a, b}
    OBVIOUS
  <2> QED BY <2>2, <2>3
<1>5. /\ Range(found) = names /\ Len(found) = Cardinality(names)
      /\ hasOne => found[1] = node[one]
  <2>1. CASE hasOne /\ hasTwo /\ node[one] # node[two]
    <3>1. first = <<node[one]>> /\ second = <<node[two]>> /\ second # first
      BY <2>1
    <3>2. found = <<node[one], node[two]>>
      <4> HIDE DEF first, second
      <4> QED BY <1>7, <3>1
    <3>3. \A v : v \in names <=> v \in {node[one], node[two]}
      BY <1>2, <2>1
    <3> HIDE DEF found
    <3>4. DOMAIN found = {1, 2} /\ Len(found) = 2
      BY <3>2
    <3>5. Cardinality(names) = 2
      <4>1. names = {node[one], node[two]}
        BY <3>3
      <4> QED BY <1>4, <2>1, <4>1
    <3>6. Range(found) = names
      BY <3>2, <3>3, <3>4 DEF Range
    <3> QED BY <3>2, <3>4, <3>5, <3>6
  <2>2. CASE hasOne /\ ~(hasTwo /\ node[one] # node[two])
    <3>1. first = <<node[one]>> /\ (second = <<>> \/ second = first)
      BY <2>2
    <3>2. found = <<node[one]>>
      <4> HIDE DEF first, second
      <4> QED BY <1>7, <3>1
    <3>3. \A v : v \in names <=> v \in {node[one]}
      BY <1>2, <2>2
    <3> HIDE DEF found
    <3>4. DOMAIN found = {1} /\ Len(found) = 1
      BY <3>2
    <3>5. Cardinality(names) = 1
      <4>1. names = {node[one]}
        BY <3>3
      <4> QED BY <1>3, <4>1
    <3>6. Range(found) = names
      BY <3>2, <3>3, <3>4 DEF Range
    <3> QED BY <3>2, <3>4, <3>5, <3>6
  <2>3. CASE ~hasOne /\ hasTwo
    <3>1. first = <<>> /\ second = <<node[two]>> /\ second # first
      BY <2>3
    <3>2. found = <<node[two]>>
      <4> HIDE DEF first, second
      <4> QED BY <1>7, <3>1
    <3>3. \A v : v \in names <=> v \in {node[two]}
      BY <1>2, <2>3
    <3> HIDE DEF found
    <3>4. DOMAIN found = {1} /\ Len(found) = 1
      BY <3>2
    <3>5. Cardinality(names) = 1
      <4>1. names = {node[two]}
        BY <3>3
      <4> QED BY <1>3, <4>1
    <3>6. Range(found) = names
      BY <3>2, <3>3, <3>4 DEF Range
    <3> QED BY <2>3, <3>4, <3>5, <3>6
  <2>4. CASE ~hasOne /\ ~hasTwo
    <3>1. found = <<>>
      BY <2>4
    <3>2. names = {}
      BY <1>2, <2>4
    <3> HIDE DEF found
    <3>3. DOMAIN found = {} /\ Len(found) = 0
      BY <3>1
    <3> QED BY <1>3, <2>4, <3>2, <3>3 DEF Range
  <2> QED BY <2>1, <2>2, <2>3, <2>4
<1> HIDE DEF found
<1>6. Len(<<found>>) = 1 /\ <<found>>[1] = found
  OBVIOUS
<1> QED BY <1>1, <1>5, <1>6 DEF one, two, names, hasOne

(* The workspace number of an event, the pid and the classes of a window are those
   of the container in the tree, whatever its place is; there is no answer if it
   is not there. *)
THEOREM LookupsTheorem == WalkSpec => []LookupsAgree
<1>1. WalkTypeOK /\ LookInv => LookupsAgree
  <2> SUFFICES ASSUME WalkTypeOK, LookInv, Finished({"workspace", "pid", "classes"})
               PROVE LookupsAgree
    BY DEF LookupsAgree
  <2>1. Answered /\ question.kind \in {"workspace", "pid", "classes"}
    BY DEF LookInv, Finished
  <2>2. Nodes(tree) = 1..Size /\ tree \in LayoutTrees
    BY DocumentedFacts DEF WalkTypeOK, Size
  <2>3. ASSUME \A n \in 1..Size : ~HasId(n) PROVE out = <<>>
    BY <2>1, <2>3 DEF Answered
  <2>4. ASSUME NEW n \in 1..Size, HasId(n) PROVE out = AnswerOf(n)
    BY <2>1, <2>4, UniqueIds DEF Answered
  <2>5. ASSUME NEW n \in 1..Size, HasId(n), question.kind = "workspace"
        PROVE  out = <<Shown(tree, n, "workspace_num")>>
    BY <2>4, <2>5, KindOfKeys DEF AnswerOf, Answer, Shown, Reported, Field
  <2>6. ASSUME NEW n \in 1..Size, HasId(n), question.kind = "pid"
        PROVE  out = IF ~Own(tree, n, "pid") \/ Shown(tree, n, "pid") = "null"
                     THEN <<>> ELSE <<Shown(tree, n, "pid")>>
    <3> DEFINE node == tree.node[n]   pid == NodeInt(node, "pid")
    <3>1. out = IF pid = None THEN <<>> ELSE <<pid>>
      BY <2>4, <2>6 DEF AnswerOf, Answer
    <3>2. "pid" \in DOMAIN node => node["pid"] \in Ints \cup {"null"}
      <4>1. Documented(tree)
        BY <2>2, WalkAssumption
      <4> QED BY <2>2, <4>1 DEF Documented
    <3>3. Own(tree, n, "pid") <=> "pid" \in DOMAIN node
      BY KindOfKeys DEF Own, Field
    <3>4. "pid" \in DOMAIN node => Shown(tree, n, "pid") = node["pid"]
      BY KindOfKeys DEF Shown, Reported, Field
    <3>5. "null" \notin Ints /\ None \notin Ints /\ Kind("null") # "number"
      BY SearchAssumption, KindProperties
    <3>6. "pid" \in DOMAIN node /\ node["pid"] \in Ints => pid = node["pid"]
      BY KindProperties, TruncatedValue DEF NodeInt, Has
    <3>7. "pid" \notin DOMAIN node \/ node["pid"] = "null" => pid = None
      BY <3>5 DEF NodeInt, Has
    <3> QED BY <3>1, <3>2, <3>3, <3>4, <3>5, <3>6, <3>7
  <2>7. ASSUME NEW n \in 1..Size, HasId(n), question.kind = "classes"
        PROVE  out = Answer(tree.node[n], Workspace(tree, n), "classes")
    BY <2>4, <2>7 DEF AnswerOf
  <2>8. ASSUME NEW n \in 1..Size, HasId(n), question.kind = "classes"
        PROVE  LET names == {tree.node[n][field] : field \in
                       {f \in {"window_properties.instance", "window_properties.class"} :
                          Has(tree.node[n], f, "string")}} \ {""}
               IN  /\ Len(out) = 1 /\ Range(out[1]) = names
                   /\ Len(out[1]) = Cardinality(names)
                   /\ Has(tree.node[n], "window_properties.instance", "string")
                        /\ tree.node[n]["window_properties.instance"] # ""
                      => out[1][1] = tree.node[n]["window_properties.instance"]
    <3> DEFINE answer == Answer(tree.node[n], Workspace(tree, n), "classes")
    <3>1. out = answer
      BY <2>7, <2>8
    <3> HIDE DEF answer
    <3> SUFFICES LET names == {tree.node[n][field] : field \in
                       {f \in {"window_properties.instance", "window_properties.class"} :
                          Has(tree.node[n], f, "string")}} \ {""}
               IN  /\ Len(answer) = 1 /\ Range(answer[1]) = names
                   /\ Len(answer[1]) = Cardinality(names)
                   /\ Has(tree.node[n], "window_properties.instance", "string")
                        /\ tree.node[n]["window_properties.instance"] # ""
                      => answer[1][1] = tree.node[n]["window_properties.instance"]
      BY <3>1
    <3> USE DEF answer
    <3> QED BY ClassAnswer
  <2>9. {n \in Nodes(tree) : NodeInt(tree.node[n], "id") = question.id} = {n \in 1..Size : HasId(n)}
    BY <2>2 DEF HasId
  <2> QED BY <2>3, <2>5, <2>6, <2>8, <2>9 DEF LookupsAgree
<1> QED BY <1>1, TypeOK, LookInvariant, PTL
=============================================================================
