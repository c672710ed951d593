--------------------------- MODULE BuiltinProofs ---------------------------
(***************************************************************************)
(* Proofs that the builtins keep the promises of BuiltinProperties for     *)
(* every input and all values of the constants.                            *)
(***************************************************************************)
EXTENDS BuiltinProperties, FiniteSetTheorems, WellFoundedInduction, TLAPS

(* Machine arithmetic *)

LEMMA Product == \A m, n \in Int : m * n \in Int
OBVIOUS

LEMMA ProductPositive ==
  ASSUME NEW m \in Int, NEW n \in Int, m > 0, n > 0
  PROVE  m * n \in Int /\ m * n > 0
OBVIOUS

LEMMA ModLess == \A n \in Nat \ {0} : \A a \in 0..n-1 : a % n = a
OBVIOUS

LEMMA ModSum ==
  ASSUME NEW n \in Nat \ {0}, NEW a \in 0..n-1, NEW b \in 0..n-1
  PROVE  (a + b) % n = IF a + b <= n - 1 THEN a + b ELSE a + b - n
OBVIOUS

LEMMA ModBelow == \A n \in Nat \ {0} : \A a \in Nat : a % n <= a
OBVIOUS

LEMMA ModRange == \A n \in Nat \ {0} : \A a \in Int : a % n \in 0..n-1
OBVIOUS

(* What is stored is an integer of the machine, the same one if it fits. *)
LEMMA WrapProperties ==
  /\ \A x \in Int : Wrap(x) \in Int /\ Wrap(x) < Half
  /\ \A x \in Signed : Wrap(x) = x
  /\ \A x \in Nat : Wrap(x) <= x
<1> USE NumbersAssumption
<1>1. 2 * Half \in Nat \ {0}
  OBVIOUS
<1>2. ASSUME NEW x \in Int PROVE Wrap(x) \in Int /\ Wrap(x) < Half
  <2>1. (x + Half) % (2 * Half) \in 0..2*Half-1
    BY <1>1, ModRange
  <2> QED BY <2>1 DEF Wrap
<1>3. ASSUME NEW x \in Signed PROVE Wrap(x) = x
  <2>1. x + Half \in 0..2 * Half - 1
    BY DEF Signed
  <2>2. (x + Half) % (2 * Half) = x + Half
    BY <1>1, <2>1, ModLess
  <2> QED BY <2>2 DEF Wrap, Signed
<1>4. ASSUME NEW x \in Nat PROVE Wrap(x) <= x
  <2>1. (x + Half) % (2 * Half) <= x + Half
    BY <1>1, ModBelow
  <2>2. (x + Half) % (2 * Half) \in Int
    BY <1>1, ModRange
  <2> QED BY <2>1, <2>2 DEF Wrap
<1> QED BY <1>2, <1>3, <1>4

(* A call gets the steps that are configured or all that are left, and a time
   limit is never longer than the configured one (runtime.go:129-138,
   main.go:116-129). *)
THEOREM LimitsTheorem == LimitsExact
<1> SUFFICES ASSUME input.kind = "number" PROVE LimitsExact
  BY DEF LimitsExact
<1> DEFINE x == input.number
<1> USE NumbersAssumption
<1>1. ASSUME x \in Unsigned, NEW limit \in Unsigned \ {0}
      PROVE  StepMax(x, limit) - x = IF x + limit <= MaxUnsigned THEN limit ELSE MaxUnsigned - x
  <2> DEFINE n == 2 * Half   max == (x + limit) % n
  <2>1. n \in Nat \ {0} /\ x \in 0..n-1 /\ limit \in 0..n-1 /\ limit > 0 /\ MaxUnsigned = n - 1
    BY <1>1 DEF Unsigned, MaxUnsigned
  <2>2. StepMax(x, limit) = IF limit > 0 /\ max >= x THEN max ELSE MaxUnsigned
    BY DEF StepMax
  <2> HIDE DEF x, n
  <2>3. max = IF x + limit <= n - 1 THEN x + limit ELSE x + limit - n
    BY <2>1, ModSum
  <2> HIDE DEF max
  <2> QED BY <2>1, <2>2, <2>3
<1>2. ASSUME x \in Signed
      PROVE  /\ x * Unit \in Signed => EnvDuration(x) = IF x > 0 THEN x * Unit ELSE 0
             /\ x > 0 => EnvDuration(x) <= x * Unit
  <2>1. x \in Int /\ x * Unit \in Int
    BY <1>2, Product DEF Signed
  <2>2. x > 0 => x * Unit \in Nat
    BY <2>1, ProductPositive
  <2> DEFINE ns == x * Unit
  <2>3. EnvDuration(x) = IF x <= 0 THEN 0 ELSE Wrap(ns)
    BY DEF EnvDuration
  <2> HIDE DEF x, ns
  <2>4. ns \in Signed => Wrap(ns) = ns
    BY WrapProperties
  <2>5. x > 0 => Wrap(ns) <= ns
    BY <2>2, WrapProperties DEF ns
  <2> QED BY <2>1, <2>3, <2>4, <2>5 DEF ns
<1> QED BY <1>1, <1>2 DEF LimitsExact

(* A watcher polls at the interval that was asked for, or at a shorter positive
   one if a Duration cannot hold it (pid.go:67-76, 469-478). *)
THEOREM IntervalTheorem == IntervalExact
<1> SUFFICES ASSUME input.kind = "number", input.number \in Signed PROVE IntervalExact
  BY DEF IntervalExact
<1> DEFINE x == input.number   ns == x * Unit   default == DefaultMs * Unit
<1>1. x \in Int /\ ns \in Int /\ (x > 0 => ns > 0)
  BY NumbersAssumption, Product, ProductPositive DEF Signed
<1>2. default \in Int /\ default > 0 /\ default < Half /\ Half \in Int
  BY NumbersAssumption, ProductPositive
<1>3. Wrap(ns) \in Int /\ Wrap(ns) < Half /\ (ns \in Signed => Wrap(ns) = ns)
  BY <1>1, WrapProperties
<1>4. WatchInterval(x) = IF x > 0 THEN Wrap(ns) ELSE default
  BY DEF WatchInterval
<1>5. \A i \in Int : Ticker(i) = IF i <= 0 THEN default ELSE i
  BY DEF Ticker
<1> HIDE DEF x, ns, default
<1>6. x <= 0 => Ticker(WatchInterval(x)) = default
  BY <1>1, <1>2, <1>4, <1>5
<1>7. x > 0 /\ ns \in Signed => Ticker(WatchInterval(x)) = ns
  BY <1>1, <1>3, <1>4, <1>5
<1>8. ASSUME x > 0, ns \notin Signed
      PROVE  Ticker(WatchInterval(x)) > 0 /\ Ticker(WatchInterval(x)) < ns
  <2>1. ns >= Half
    BY <1>1, <1>2, <1>8 DEF Signed
  <2> QED BY <1>1, <1>2, <1>3, <1>4, <1>5, <1>8, <2>1
<1> QED BY <1>6, <1>7, <1>8 DEF IntervalExact, x, ns, default

(* An integral JSON number keeps its value, but the smallest float above the
   largest int (jsonconv.go:55-62). *)
THEOREM JsonTheorem == JsonNumbersKept
<1> SUFFICES ASSUME input.kind = "number", NEW x \in Floats \ {Half}
             PROVE  JsonNumber(x) = {[type |-> IF x \in Signed THEN "int" ELSE "float", value |-> x]}
  BY DEF JsonNumbersKept
<1>1. Half \in Int /\ x \in Int
  BY NumbersAssumption DEF Floats
<1>2. x >= -Half /\ x <= Half <=> x \in Signed
  BY <1>1 DEF Signed
<1>3. x \in Signed => Truncated(x) = {x}
  BY DEF Truncated
<1>4. CASE x \in Signed
  BY <1>2, <1>3, <1>4 DEF JsonNumber
<1>5. CASE x \notin Signed
  BY <1>2, <1>5 DEF JsonNumber
<1> QED BY <1>4, <1>5

-----------------------------------------------------------------------------
(* Induction, as statements about sets of numbers *)

(* A set of natural numbers that is not empty has a least one. *)
LEMMA LeastNumber ==
  ASSUME NEW S \in SUBSET Nat, S # {}
  PROVE  \E m \in S : \A n \in S : m <= n
<1> DEFINE Less == OpToRel(<, Nat)
<1>1. IsWellFoundedOn(Less, Nat)
  BY NatLessThanWellFounded
<1>2. ASSUME NEW m \in Nat, NEW n \in Nat, n < m PROVE <<n, m>> \in Less
  BY <1>2 DEF OpToRel
<1> HIDE DEF Less
<1>3. PICK m \in S : \A n \in S : <<n, m>> \notin Less
  BY <1>1, WFMin
<1>4. \A n \in S : ~(n < m)
  BY <1>2, <1>3
<1> QED BY <1>4

(* A set of natural numbers that is bounded and not empty has a greatest one. *)
LEMMA GreatestNumber ==
  ASSUME NEW n \in Nat, NEW S \in SUBSET (0..n), S # {}
  PROVE  \E m \in S : \A k \in S : k <= m
<1> DEFINE Above == {b \in Nat : \A k \in S : k <= b}
<1>1. Above \in SUBSET Nat /\ n \in Above
  OBVIOUS
<1>2. PICK m \in Above : \A b \in Above : m <= b
  <2> HIDE DEF Above
  <2> QED BY <1>1, LeastNumber
<1>3. m \in S
  <2> SUFFICES ASSUME m \notin S PROVE FALSE
    OBVIOUS
  <2>1. \A k \in S : k \in Nat /\ k <= m /\ k # m
    BY <1>2
  <2>2. PICK k \in S : TRUE
    OBVIOUS
  <2>3. m - 1 \in Above
    BY <1>2, <2>1, <2>2
  <2> QED BY <1>2, <2>3
<1> QED BY <1>2, <1>3

(* What holds of 0 and, up to n, of the successor of what it holds of *)
LEMMA UpTo ==
  ASSUME NEW n \in Nat, NEW S, 0 \in S, \A m \in 0..n-1 : m \in S => m + 1 \in S
  PROVE  \A m \in 0..n : m \in S
<1> DEFINE Bad == {m \in 0..n : m \notin S}
<1> SUFFICES ASSUME Bad # {} PROVE FALSE
  OBVIOUS
<1>0. Bad \in SUBSET Nat /\ Bad # {}
  OBVIOUS
<1>1. PICK m \in Bad : \A k \in Bad : m <= k
  <2> HIDE DEF Bad
  <2> QED BY <1>0, LeastNumber
<1>2. m \in 1..n /\ m - 1 \in 0..n-1 /\ m - 1 \notin Bad
  BY <1>1
<1>3. m - 1 \in S
  BY <1>2
<1>4. (m - 1) + 1 \in S
  BY <1>2, <1>3
<1> QED BY <1>1, <1>2, <1>4

-----------------------------------------------------------------------------
(* Sockets *)

(* The sequence that is chosen exists and has all the members. *)
LEMMA SortedExists ==
  ASSUME NEW n \in Nat, NEW S \in SUBSET (1..n)
  PROVE  \E s \in [1..Cardinality(S) -> S] : \A i, j \in DOMAIN s : i < j => s[i] < s[j]
<1> DEFINE Has(T) == \E s \in [1..Cardinality(T) -> T] :
                       \A i, j \in 1..Cardinality(T) : i < j => s[i] < s[j]
           All == {k \in Nat : \A T \in SUBSET (1..k) : Has(T)}
<1>1. Has({})
  <2>1. Cardinality({}) = 0
    BY FS_EmptySet
  <2>2. [i \in 1..0 |-> i] \in [1..0 -> {}]
    OBVIOUS
  <2> QED BY <2>1, <2>2
<1>2. 0 \in All
  <2>1. \A T \in SUBSET (1..0) : T = {}
    OBVIOUS
  <2> HIDE DEF Has
  <2> QED BY <1>1, <2>1
<1>3. ASSUME NEW m \in 0..n-1, m \in All PROVE m + 1 \in All
  <2> SUFFICES ASSUME NEW T \in SUBSET (1..m+1) PROVE Has(T)
    OBVIOUS
  <2> DEFINE U == T \ {m + 1}   c == Cardinality(U)
  <2>1. U \in SUBSET (1..m) /\ IsFiniteSet(1..m+1)
    BY FS_Interval
  <2>2. Has(U)
    BY <1>3, <2>1
  <2>3. CASE m + 1 \notin T
    <3>1. U = T
      BY <2>3
    <3> HIDE DEF Has
    <3> QED BY <2>2, <3>1
  <2>4. CASE m + 1 \in T
    <3>1. c \in Nat /\ Cardinality(T) = c + 1
      <4>1. IsFiniteSet(T) /\ IsFiniteSet(U)
        BY <2>1, FS_Subset
      <4>2. Cardinality(T) \in Nat /\ c \in Nat
        BY <4>1, FS_CardinalityType
      <4> QED BY <2>4, <4>1, <4>2, FS_RemoveElement
    <3>2. PICK s \in [1..c -> U] : \A i, j \in 1..c : i < j => s[i] < s[j]
      BY <2>2
    <3> HIDE DEF c
    <3> DEFINE t == [i \in 1..c+1 |-> IF i = c + 1 THEN m + 1 ELSE s[i]]
    <3>3. ASSUME NEW i \in 1..c PROVE s[i] \in U /\ s[i] \in 1..m /\ s[i] < m + 1
      <4>1. s[i] \in U
        BY <3>2
      <4>2. s[i] \in 1..m
        BY <2>1, <4>1
      <4> QED BY <4>1, <4>2
    <3>4. t \in [1..c+1 -> T]
      BY <2>4, <3>1, <3>3
    <3>5. \A i, j \in 1..c+1 : i < j => t[i] < t[j]
      BY <3>1, <3>2, <3>3
    <3> HIDE DEF t
    <3> QED BY <3>1, <3>4, <3>5
  <2> QED BY <2>3, <2>4
<1> HIDE DEF Has
<1> HIDE DEF All
<1>4. n \in All
  <2>1. \A m \in 0..n-1 : m \in All => m + 1 \in All
    BY <1>3
  <2>2. \A m \in 0..n : m \in All
    BY <1>2, <2>1, UpTo
  <2> QED BY <2>2
<1>5. Has(S)
  BY <1>4 DEF All
<1> QED BY <1>5 DEF Has

LEMMA SortedType ==
  ASSUME NEW n \in Nat, NEW S \in SUBSET (1..n)
  PROVE  /\ Sorted(S) \in [1..Cardinality(S) -> S]
         /\ \A i, j \in DOMAIN Sorted(S) : i < j => Sorted(S)[i] < Sorted(S)[j]
BY SortedExists DEF Sorted

LEMMA SortedRange ==
  ASSUME NEW n \in Nat, NEW S \in SUBSET (1..n)
  PROVE  S = {Sorted(S)[i] : i \in DOMAIN Sorted(S)}
<1> DEFINE s == Sorted(S)   c == Cardinality(S)
<1>1. s \in [1..c -> S] /\ \A i, j \in DOMAIN s : i < j => s[i] < s[j]
  BY SortedType
<1>2. IsFiniteSet(S) /\ c \in Nat
  <2>1. IsFiniteSet(1..n)
    BY FS_Interval
  <2>2. IsFiniteSet(S)
    BY <2>1, FS_Subset
  <2> QED BY <2>2, FS_CardinalityType
<1>3. Cardinality(1..c) = c
  BY <1>2, FS_Interval
<1> HIDE DEF s, c
<1>4. s \in Injection(1..c, S)
  <2> SUFFICES ASSUME NEW i \in 1..c, NEW j \in 1..c, s[i] = s[j] PROVE i = j
    BY <1>1 DEF Injection, IsInjective
  <2>1. i \in Int /\ j \in Int
    BY <1>2
  <2>2. \A k \in 1..c : s[k] \in 1..n
    BY <1>1
  <2>3. s[i] \in Int /\ s[j] \in Int
    BY <2>2
  <2>4. ~(i < j) /\ ~(j < i)
    BY <1>1, <2>3
  <2> QED BY <2>1, <2>4
<1>5. s \in Surjection(1..c, S)
  BY <1>2, <1>3, <1>4, FS_Injection DEF c
<1>6. \A p \in S : \E i \in 1..c : s[i] = p
  BY <1>5 DEF Surjection
<1>7. S = {s[i] : i \in DOMAIN s}
  BY <1>1, <1>6
<1> QED BY <1>7 DEF s

(* The first candidate that answers is found if one of them does, and the first
   is the least. *)
LEMMA DiscoverAnswering ==
  ASSUME NEW n \in Nat, NEW S \in SUBSET (1..n), NEW live
  PROVE  /\ S \cap live = {} => Discover(Sorted(S), live) = 0
         /\ S \cap live # {} =>
              /\ Discover(Sorted(S), live) \in S \cap live
              /\ \A other \in S \cap live : Discover(Sorted(S), live) <= other
<1> DEFINE s == Sorted(S)   answering == {i \in DOMAIN s : s[i] \in live}
<1>1. S = {s[i] : i \in DOMAIN s} /\ DOMAIN s \in SUBSET Nat
  <2>1. DOMAIN s = 1..Cardinality(S)
    BY SortedType
  <2>2. DOMAIN s \in SUBSET Nat
    BY <2>1
  <2> QED BY <2>2, SortedRange
<1>0. \A i, j \in DOMAIN s : i < j => s[i] < s[j]
  BY SortedType
<1>2. Discover(s, live) = IF answering = {} THEN 0
                          ELSE s[CHOOSE i \in answering : \A j \in answering : i <= j]
  BY DEF Discover
<1> HIDE DEF s
<1>3. CASE answering = {}
  BY <1>1, <1>2, <1>3 DEF s
<1>4. CASE answering # {}
  <2>1. \E i \in answering : \A j \in answering : i <= j
    BY <1>1, <1>4, LeastNumber
  <2>2. PICK i \in answering : Discover(s, live) = s[i] /\ \A j \in answering : i <= j
    BY <1>2, <1>4, <2>1
  <2>3. ASSUME NEW other \in S \cap live PROVE s[i] <= other
    <3>1. PICK j \in answering : other = s[j]
      BY <1>1
    <3>2. i \in Nat /\ j \in Nat /\ (i = j \/ i < j)
      BY <1>1, <2>2
    <3>3. s[i] \in Int /\ s[j] \in Int
      BY <1>1
    <3> QED BY <1>0, <3>1, <3>2, <3>3
  <2> QED BY <1>1, <2>2, <2>3 DEF s
<1> QED BY <1>3, <1>4

(* The daemon finds a socket that answers whenever a candidate does, the first of
   them by name (i3client.go:288-369). *)
THEOREM SocketTheorem ==
  ASSUME NEW n \in Nat,
         input.env \in 0..n, input.told \in 0..n, input.found \in SUBSET (1..n)
  PROVE  SocketFound
<1> DEFINE S == ({input.env, input.told} \cup input.found) \ {0}
           live == input.live
           path == Discover(Candidates(input.env, input.found, input.told), live)
<1>1. S \in SUBSET (1..n)
  OBVIOUS
<1>2. path = Discover(Sorted(S), live)
  BY DEF Candidates
<1> HIDE DEF path, live, S
<1>3. /\ S \cap live = {} => path = 0
      /\ S \cap live # {} => path \in S \cap live /\ \A other \in S \cap live : path <= other
  BY <1>1, <1>2, DiscoverAnswering
<1> QED BY <1>1, <1>3 DEF SocketFound, path, live, S

-----------------------------------------------------------------------------
(* The entries of the dict of handlers *)

(* An entry that names an event and has a function *)
Good(entry) ==
  /\ entry.key.type = "string" /\ Function(entry.value)
  /\ entry.key.name \in DOMAIN EventNameToType
EventOf(entry) == EventNameToType[entry.key.name]
IsFor(entry, event) == Good(entry) /\ EventOf(entry) = event

(* The i-th of the first n entries is the last one for the event. *)
LastFor(entries, n, i, event) ==
  IsFor(entries[i], event) /\ \A j \in i+1..n : ~IsFor(entries[j], event)

(* What the first n entries have made of the handlers: one that some entry names
   is that of the last such entry, and the others are as they were. *)
EnteredInv(named, entries, n, handlers) ==
  /\ \E ok \in BOOLEAN : \E of : handlers = [ok |-> ok, of |-> of]
  /\ handlers.ok <=> named.ok /\ \A i \in 1..n : Good(entries[i])
  /\ \A i \in 1..n : \A event : LastFor(entries, n, i, event) =>
       event \in DOMAIN handlers.of /\ handlers.of[event] = entries[i].value.name
  /\ \A event : (\A i \in 1..n : ~IsFor(entries[i], event)) =>
       /\ event \in DOMAIN handlers.of <=> event \in DOMAIN named.of
       /\ event \in DOMAIN named.of => handlers.of[event] = named.of[event]

(* A good entry replaces the handler of its event. *)
Replaced(of, entry) ==
  [e \in DOMAIN of \cup {EventOf(entry)} |->
     IF e = EventOf(entry) THEN entry.value.name ELSE of[e]]

LEMMA EnterGood ==
  ASSUME NEW ok, NEW of, NEW entry, Good(entry)
  PROVE  Enter([ok |-> ok, of |-> of], entry) = [ok |-> ok, of |-> Replaced(of, entry)]
BY DEF Enter, Good, EventOf, Replaced

LEMMA EnterBad ==
  ASSUME NEW ok, NEW of, NEW entry, ~Good(entry)
  PROVE  Enter([ok |-> ok, of |-> of], entry) = [ok |-> FALSE, of |-> of]
BY DEF Enter, Good

LEMMA EnterKeeps ==
  ASSUME NEW named, NEW entries, NEW n \in Nat, NEW handlers,
         EnteredInv(named, entries, n, handlers)
  PROVE  EnteredInv(named, entries, n + 1, Enter(handlers, entries[n + 1]))
<1> DEFINE entry == entries[n + 1]   after == Enter(handlers, entry)
<1>0. PICK ok \in BOOLEAN : \E of : handlers = [ok |-> ok, of |-> of]
  BY DEF EnteredInv
<1>1. PICK of : handlers = [ok |-> ok, of |-> of]
  BY <1>0
<1>2. /\ handlers.ok = ok /\ handlers.of = of
      /\ ok <=> named.ok /\ \A i \in 1..n : Good(entries[i])
      /\ \A i \in 1..n : \A event : LastFor(entries, n, i, event) =>
           event \in DOMAIN of /\ of[event] = entries[i].value.name
      /\ \A event : (\A i \in 1..n : ~IsFor(entries[i], event)) =>
           /\ event \in DOMAIN of <=> event \in DOMAIN named.of
           /\ event \in DOMAIN named.of => of[event] = named.of[event]
  BY <1>1 DEF EnteredInv
<1> DEFINE newOf == IF Good(entry) THEN Replaced(of, entry) ELSE of
           newOk == ok /\ Good(entry)
<1>3. after = [ok |-> newOk, of |-> newOf]
  <2>1. CASE Good(entry)
    <3>1. newOk = ok /\ newOf = Replaced(of, entry)
      BY <2>1
    <3> HIDE DEF newOk, newOf
    <3>2. Enter([ok |-> ok, of |-> of], entry) = [ok |-> ok, of |-> Replaced(of, entry)]
      BY <2>1, EnterGood
    <3>3. after = [ok |-> ok, of |-> Replaced(of, entry)]
      BY <1>1, <3>2
    <3> QED BY <3>1, <3>3, Zenon
  <2>2. CASE ~Good(entry)
    <3>1. newOk = FALSE /\ newOf = of
      BY <2>2
    <3> HIDE DEF newOk, newOf
    <3> QED BY <1>1, <2>2, <3>1, EnterBad
  <2> QED BY <2>1, <2>2
<1>4. newOk \in BOOLEAN
  OBVIOUS
<1>5. \A event : ~IsFor(entry, event) =>
        /\ event \in DOMAIN newOf <=> event \in DOMAIN of
        /\ event \in DOMAIN of => newOf[event] = of[event]
  BY DEF IsFor, Replaced
<1>6. \A event : IsFor(entry, event) =>
        event \in DOMAIN newOf /\ newOf[event] = entry.value.name
  BY DEF IsFor, Replaced
<1> HIDE DEF newOf
<1>7. newOk <=> named.ok /\ \A i \in 1..n+1 : Good(entries[i])
  <2>1. \A i \in 1..n+1 : i \in 1..n \/ i = n + 1
    OBVIOUS
  <2>2. 1..n \subseteq 1..n+1 /\ n + 1 \in 1..n+1
    OBVIOUS
  <2> QED BY <1>2, <2>1, <2>2
<1>8. ASSUME NEW i \in 1..n+1, NEW event, LastFor(entries, n + 1, i, event)
      PROVE  event \in DOMAIN newOf /\ newOf[event] = entries[i].value.name
  <2>1. CASE i = n + 1
    BY <1>6, <1>8, <2>1 DEF LastFor
  <2>2. CASE i # n + 1
    <3>1. i \in 1..n /\ n + 1 \in i+1..n+1 /\ i+1..n \subseteq i+1..n+1
      BY <2>2
    <3>2. ~IsFor(entry, event) /\ LastFor(entries, n, i, event)
      BY <1>8, <3>1 DEF LastFor
    <3> QED BY <1>2, <1>5, <3>1, <3>2
  <2> QED BY <2>1, <2>2
<1>9. ASSUME NEW event, \A i \in 1..n+1 : ~IsFor(entries[i], event)
      PROVE  /\ event \in DOMAIN newOf <=> event \in DOMAIN named.of
             /\ event \in DOMAIN named.of => newOf[event] = named.of[event]
  <2>1. 1..n \subseteq 1..n+1 /\ n + 1 \in 1..n+1
    OBVIOUS
  <2>2. ~IsFor(entry, event) /\ \A i \in 1..n : ~IsFor(entries[i], event)
    BY <1>9, <2>1
  <2> QED BY <1>2, <1>5, <2>2
<1>10. after.ok = newOk /\ after.of = newOf
  BY <1>3
<1> HIDE DEF after, newOk
<1> QED
  <2>1. EnteredInv(named, entries, n + 1, after)
    BY <1>3, <1>4, <1>7, <1>8, <1>9, <1>10 DEF EnteredInv
  <2> QED BY <2>1 DEF after

(* The function by which Entered is defined exists, and takes the entries in
   their order. *)
LEMMA EnteredResult ==
  ASSUME NEW named, NEW S, NEW entries \in Seq(S),
         \E ok \in BOOLEAN : \E of : named = [ok |-> ok, of |-> of]
  PROVE  EnteredInv(named, entries, Len(entries), Entered(named, entries))
<1> DEFINE len == Len(entries)
           Applied(k, f) == f = [m \in 0..k |-> IF m = 0 THEN named ELSE Enter(f[m - 1], entries[m])]
           Has == {k \in Nat : \E f : Applied(k, f)}
<1>0. len \in Nat
  OBVIOUS
<1>1. 0 \in Has
  <2> DEFINE f == [m \in 0..0 |-> named]
  <2>1. Applied(0, f)
    OBVIOUS
  <2> QED BY <2>1
<1>2. ASSUME NEW k \in Nat, k \in Has PROVE k + 1 \in Has
  <2>1. PICK f : Applied(k, f)
    BY <1>2
  <2> DEFINE g == [m \in 0..k+1 |-> IF m = k + 1 THEN Enter(f[k], entries[k + 1]) ELSE f[m]]
  <2>2. Applied(k + 1, g)
    <3>1. DOMAIN f = 0..k /\ \A m \in 0..k : f[m] = IF m = 0 THEN named ELSE Enter(f[m - 1], entries[m])
      BY <2>1
    <3>2. ASSUME NEW m \in 0..k+1
          PROVE  g[m] = IF m = 0 THEN named ELSE Enter(g[m - 1], entries[m])
      <4>1. CASE m = k + 1
        <5>1. k \in 0..k+1 /\ k # k + 1 /\ m # 0 /\ m - 1 = k
          BY <4>1
        <5> QED BY <4>1, <5>1
      <4>2. CASE m = 0
        BY <3>1, <4>2
      <4>3. CASE m # k + 1 /\ m # 0
        <5>1. m \in 0..k /\ m - 1 \in 0..k+1 /\ m - 1 # k + 1
          BY <4>3
        <5> QED BY <3>1, <4>3, <5>1
      <4> QED BY <4>1, <4>2, <4>3
    <3> QED BY <3>2
  <2> HIDE DEF g, Applied
  <2> QED BY <2>2
<1>3. len \in Has
  <2> HIDE DEF Has
  <2>1. \A m \in 0..len-1 : m \in Has => m + 1 \in Has
    BY <1>2
  <2> QED BY <1>0, <1>1, <2>1, UpTo
<1>4. PICK after : Applied(len, after) /\ Entered(named, entries) = after[len]
  <2>1. \E f : Applied(len, f)
    BY <1>3
  <2>2. Entered(named, entries) = (CHOOSE f : Applied(len, f))[len]
    BY DEF Entered
  <2> HIDE DEF Applied
  <2> QED BY <2>1, <2>2
<1>5. /\ after[0] = named
      /\ \A m \in 0..len-1 : after[m + 1] = Enter(after[m], entries[m + 1])
  <2>1. \A m \in 0..len : after[m] = IF m = 0 THEN named ELSE Enter(after[m - 1], entries[m])
    BY <1>4
  <2>2. \A m \in 0..len-1 : m + 1 \in 0..len /\ m + 1 # 0 /\ (m + 1) - 1 = m
    BY <1>0
  <2> QED BY <1>0, <2>1, <2>2
<1> DEFINE Kept == {k \in Nat : EnteredInv(named, entries, k, after[k])}
<1>6. 0 \in Kept
  <2>1. 1..0 = {}
    OBVIOUS
  <2>2. EnteredInv(named, entries, 0, named)
    BY <2>1, Zenon DEF EnteredInv
  <2> QED BY <1>5, <2>2
<1>7. \A m \in 0..len-1 : m \in Kept => m + 1 \in Kept
  BY <1>0, <1>5, EnterKeeps
<1>8. len \in Kept
  <2> HIDE DEF Kept
  <2> QED BY <1>0, <1>6, <1>7, UpTo
<1> QED BY <1>4, <1>8

-----------------------------------------------------------------------------
(* Scripts *)

(* The values that globals of a script can have; names are those of functions and
   of the keys of the dict. *)
Functions(names) == {Other} \cup [type : {"function"}, name : names]
EntryValues(names) == [key : {Other} \cup [type : {"string"}, name : names],
                       value : Functions(names)]
ScriptGlobals(names) ==
  [kind : {"script"},
   priority : [type : {"absent", "none", "huge", "other"}] \cup [type : {"int"}, value : Int],
   on : UNION {[events -> Functions(names)] : events \in SUBSET KnownEvents},
   handlers : {Absent, Other} \cup [type : {"dict"}, entries : Seq(EntryValues(names))],
   init : {Absent, Other} \cup [type : {"function"}, succeeds : BOOLEAN]]

(* The entries of the dict, none if there is no dict *)
EntriesOf(globals) == IF globals.handlers.type = "dict" THEN globals.handlers.entries ELSE <<>>

(* The spellings of an event *)
Spellings(event) ==
  {event} \cup (IF event = "barconfig_update" THEN {"bar_config_update"} ELSE {})

LEMMA OkRestricted ==
  ASSUME NEW ok \in BOOLEAN, NEW of, NEW b \in BOOLEAN
  PROVE  LET handlers == [[ok |-> ok, of |-> of] EXCEPT !.ok = @ /\ b]
         IN  (handlers.ok <=> ok /\ b) /\ handlers.of = of
OBVIOUS

LEMMA EntryFacts ==
  ASSUME NEW names, NEW entry \in EntryValues(names)
  PROVE  /\ \A event \in KnownEvents :
              IsFor(entry, event) <=> /\ entry.key # Other /\ entry.value # Other
                                      /\ entry.key.name \in Spellings(event)
         /\ Good(entry) <=> /\ entry.key # Other /\ entry.value # Other
                            /\ \E event \in KnownEvents : entry.key.name \in Spellings(event)
<1>1. /\ Function(entry.value) <=> entry.value # Other
      /\ entry.key.type = "string" <=> entry.key # Other
  BY DEF EntryValues, Functions, Other, Function
<1>2. \A name \in DOMAIN EventNameToType, event \in KnownEvents :
        EventNameToType[name] = event <=> name \in Spellings(event)
  BY DEF EventNameToType, KnownEvents, Spellings
<1>3. \A name : name \in DOMAIN EventNameToType
                  <=> \E event \in KnownEvents : name \in Spellings(event)
  BY DEF EventNameToType, KnownEvents, Spellings
<1> QED BY <1>1, <1>2, <1>3 DEF IsFor, Good, EventOf

(* What Handlers makes of the globals *)
LEMMA HandlersResult ==
  ASSUME NEW names, NEW globals \in ScriptGlobals(names)
  PROVE  LET handlers == Handlers(globals)
             entries == EntriesOf(globals)
         IN  /\ entries \in Seq(EntryValues(names))
             /\ handlers.ok <=> /\ globals.handlers.type # "other"
                                /\ \A event \in DOMAIN globals.on : globals.on[event] # Other
                                /\ \A i \in 1..Len(entries) : Good(entries[i])
             /\ \A i \in 1..Len(entries) : \A event : LastFor(entries, Len(entries), i, event) =>
                  event \in DOMAIN handlers.of /\ handlers.of[event] = entries[i].value.name
             /\ \A event : (\A i \in 1..Len(entries) : ~IsFor(entries[i], event)) =>
                  /\ event \in DOMAIN handlers.of <=> event \in DOMAIN globals.on
                  /\ event \in DOMAIN globals.on => handlers.of[event] = globals.on[event].name
<1> DEFINE named == Named(globals)   entries == EntriesOf(globals)   on == globals.on
           namedOk == \A event \in DOMAIN on : Function(on[event])
           namedOf == [event \in DOMAIN on |-> on[event].name]
<1>1. named = [ok |-> namedOk, of |-> namedOf] /\ namedOk \in BOOLEAN
  BY DEF Named
<1>2. namedOk <=> \A event \in DOMAIN on : on[event] # Other
  <2>1. \A event \in DOMAIN on : on[event] \in Functions(names)
    BY DEF ScriptGlobals
  <2>2. \A v \in Functions(names) : Function(v) <=> v # Other
    BY DEF Functions, Other, Function
  <2> QED BY <2>1, <2>2
<1>3. CASE globals.handlers.type = "dict"
  <2>1. Handlers(globals) = Entered(named, entries) /\ entries \in Seq(EntryValues(names))
    BY <1>3 DEF Handlers, EntriesOf, ScriptGlobals, Absent, Other
  <2>2. named.ok = namedOk /\ named.of = namedOf
    BY <1>1
  <2> HIDE DEF named, entries, namedOk
  <2>3. EnteredInv(named, entries, Len(entries), Handlers(globals))
    BY <1>1, <2>1, EnteredResult
  <2>4. globals.handlers.type # "other"
    BY <1>3
  <2> QED BY <1>2, <2>1, <2>2, <2>3, <2>4 DEF EnteredInv, entries
<1>4. CASE globals.handlers.type # "dict"
  <2>1. globals.handlers.type = "absent" <=> globals.handlers.type # "other"
    BY <1>4 DEF ScriptGlobals, Absent, Other
  <2>2. entries = <<>> /\ entries \in Seq(EntryValues(names)) /\ Len(entries) = 0
    BY <1>4 DEF EntriesOf
  <2>3. Handlers(globals) = [named EXCEPT !.ok = @ /\ globals.handlers.type = "absent"]
    BY <1>4 DEF Handlers
  <2>4. /\ Handlers(globals).ok <=> namedOk /\ globals.handlers.type = "absent"
        /\ Handlers(globals).of = namedOf
    <3>1. Handlers(globals) = [[ok |-> namedOk, of |-> namedOf] EXCEPT
                                !.ok = @ /\ globals.handlers.type = "absent"]
      BY <1>1, <2>3
    <3> HIDE DEF namedOk, namedOf
    <3> QED BY <1>1, <3>1, OkRestricted
  <2>5. 1..0 = {}
    OBVIOUS
  <2> HIDE DEF named, namedOk, entries
  <2> QED BY <1>2, <2>1, <2>2, <2>4, <2>5 DEF entries
<1> QED BY <1>3, <1>4

(* A script is loaded with all the handlers it names or not at all, and its init()
   runs only if there is nothing else to reject (loader.go:93-196). *)
THEOREM LoadTheorem ==
  ASSUME NEW names, input \in ScriptGlobals(names)
  PROVE  LoadExact
<1> DEFINE script == LoadOne(input)   handlers == Handlers(input)   entries == EntriesOf(input)
           For(event) == {i \in DOMAIN entries : entries[i].key.name \in Spellings(event)}
           wellFormed ==
             /\ input.priority.type \notin {"huge", "other"} /\ input.handlers.type # "other"
             /\ \A event \in DOMAIN input.on : input.on[event] # Other
             /\ \A i \in DOMAIN entries :
                  /\ entries[i].key # Other /\ entries[i].value # Other
                  /\ \E event \in KnownEvents : i \in For(event)
<1>1. /\ entries \in Seq(EntryValues(names))
      /\ handlers.ok <=> /\ input.handlers.type # "other"
                         /\ \A event \in DOMAIN input.on : input.on[event] # Other
                         /\ \A i \in 1..Len(entries) : Good(entries[i])
      /\ \A i \in 1..Len(entries) : \A event : LastFor(entries, Len(entries), i, event) =>
           event \in DOMAIN handlers.of /\ handlers.of[event] = entries[i].value.name
      /\ \A event : (\A i \in 1..Len(entries) : ~IsFor(entries[i], event)) =>
           /\ event \in DOMAIN handlers.of <=> event \in DOMAIN input.on
           /\ event \in DOMAIN input.on => handlers.of[event] = input.on[event].name
  BY HandlersResult
<1> HIDE DEF handlers, entries
<1>2. DOMAIN entries = 1..Len(entries) /\ Len(entries) \in Nat
      /\ \A i \in 1..Len(entries) : entries[i] \in EntryValues(names)
  BY <1>1
<1>3. \A i \in 1..Len(entries) :
        /\ \A event \in KnownEvents :
             IsFor(entries[i], event) <=> /\ entries[i].key # Other /\ entries[i].value # Other
                                          /\ i \in For(event)
        /\ Good(entries[i]) <=> /\ entries[i].key # Other /\ entries[i].value # Other
                                /\ \E event \in KnownEvents : i \in For(event)
  BY <1>2, EntryFacts
<1>4. PriorityOK(input) <=> input.priority.type \notin {"huge", "other"}
  BY DEF PriorityOK, ScriptGlobals
<1>5. wellFormed <=> PriorityOK(input) /\ handlers.ok
  BY <1>1, <1>2, <1>3, <1>4
<1>6. /\ Function(input.init) <=> input.init \notin {Absent, Other}
      /\ input.init.type = "absent" <=> input.init = Absent
      /\ Absent # Other
  BY DEF ScriptGlobals, Absent, Other, Function
<1>7. /\ script.initialised <=> wellFormed /\ Function(input.init)
      /\ script.loaded <=> wellFormed /\ (input.init.type = "absent"
                                           \/ (Function(input.init) /\ input.init.succeeds))
      /\ script.handlers = handlers.of
  <2> DEFINE valid == PriorityOK(input) /\ handlers.ok
             initOk == input.init.type = "absent" \/ (Function(input.init) /\ input.init.succeeds)
  <2>1. script.loaded = (valid /\ initOk)
    BY DEF LoadOne, handlers
  <2>2. script.initialised = (valid /\ Function(input.init))
    BY DEF LoadOne, handlers
  <2>3. script.handlers = handlers.of
    BY DEF LoadOne, handlers
  <2> HIDE DEF script, wellFormed
  <2> QED BY <1>5, <2>1, <2>2, <2>3
<1> HIDE DEF script, wellFormed
<1>8. /\ script.initialised <=> wellFormed /\ input.init \notin {Absent, Other}
      /\ script.loaded <=> /\ wellFormed /\ input.init # Other
                           /\ script.initialised => input.init.succeeds
  <2>1. CASE Function(input.init)
    BY <1>6, <1>7, <2>1, Zenon
  <2>2. CASE ~Function(input.init)
    BY <1>6, <1>7, <2>2, Zenon
  <2> QED BY <2>1, <2>2
<1>9. ASSUME wellFormed, NEW event \in KnownEvents
      PROVE  IF For(event) # {}
             THEN script.handlers[event] = entries[CHOOSE i \in For(event) :
                                                     \A j \in For(event) : j <= i].value.name
             ELSE IF event \in DOMAIN input.on
                  THEN script.handlers[event] = input.on[event].name
                  ELSE event \notin DOMAIN script.handlers
  <2>1. \A i \in 1..Len(entries) : IsFor(entries[i], event) <=> i \in For(event)
    BY <1>2, <1>3, <1>9 DEF wellFormed
  <2>2. CASE For(event) # {}
    <3>1. For(event) \in SUBSET (0..Len(entries))
      BY <1>2
    <3>2. \E i \in For(event) : \A j \in For(event) : j <= i
      <4> HIDE DEF For
      <4> QED BY <1>2, <2>2, <3>1, GreatestNumber
    <3> DEFINE last == CHOOSE i \in For(event) : \A j \in For(event) : j <= i
    <3>3. last \in For(event) /\ \A j \in For(event) : j <= last
      <4> HIDE DEF For
      <4> QED BY <3>2
    <3>4. last \in 1..Len(entries)
      BY <1>2, <3>3
    <3> HIDE DEF last
    <3>5. \A j \in last+1..Len(entries) : j \in 1..Len(entries) /\ ~(j <= last)
      BY <1>2, <3>4
    <3>6. LastFor(entries, Len(entries), last, event)
      BY <2>1, <3>3, <3>4, <3>5 DEF LastFor
    <3>7. script.handlers[event] = entries[last].value.name
      BY <1>1, <1>7, <3>4, <3>6
    <3> QED BY <2>2, <3>7 DEF last
  <2>3. CASE For(event) = {}
    <3>1. \A i \in 1..Len(entries) : ~IsFor(entries[i], event)
      BY <2>1, <2>3
    <3> HIDE DEF For
    <3> QED BY <1>1, <1>7, <2>3, <3>1
  <2> QED BY <2>2, <2>3
<1>10. script.loaded => wellFormed
  BY <1>7
<1> QED
  BY <1>8, <1>9, <1>10 DEF LoadExact, script, wellFormed, entries, EntriesOf, Spellings
=============================================================================
