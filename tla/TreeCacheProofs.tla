--------------------------- MODULE TreeCacheProofs ---------------------------
(***************************************************************************)
(* The main goroutine and its handlers are safe from the resets of the     *)
(* tree cache, a dispatch shows one tree, and stale trees come only from   *)
(* callbacks, for any number of watchers, trees and handlers.              *)
(***************************************************************************)
EXTENDS TreeCache, TLAPS

(* An access has a tree at hand once it has fetched one or found one, and makes
   the forms up to the wanted one. *)
HandInv ==
  \A a \in Actors :
    /\ op[a].at \in {"none", "checked", "fetch"} <=> op[a].tree = 0
    /\ op[a].form <= op[a].want

(* Main resets the cache between its accesses only. *)
MainInv == /\ op[Main].at \in {"checked", "write"} => cache # Nil
           /\ crashed # Main

(* StaleOnlyFromHand, and what i3 has now is no older. *)
FloorInv == StaleOnlyFromHand /\ floor <= version

(* In a dispatch that shares nothing with a callback before its handlers, all
   trees are the raw one in the cache, and they are fetched only before it. *)
OneInv ==
  ~shared /\ phase \in {"enrich", "handlers"} =>
    /\ phase = "enrich" => callMu = Nobody
    /\ \A form \in Forms : Cached(form) => Cached(Raw) /\ cache[form] = cache[Raw]
    /\ \A tree \in seen : Cached(Raw) /\ tree = cache[Raw]
    /\ \A a \in Actors :
         /\ op[a].at = "fetch" => op[a].form = Raw
         /\ op[a].at \in {"fetch", "ensure", "write"} /\ op[a].form = Raw => ~Cached(Raw)
         /\ op[a].at \in {"ensure", "write"} /\ op[a].form # Raw =>
              Cached(Raw) /\ op[a].tree = cache[Raw]

(* Outside a dispatch main has got nothing; so nothing it sees differs. *)
SeenInv == phase \in {"select", "load"} => seen = {}

Inv == CacheTypeOK /\ HandInv /\ MainInv /\ FloorInv /\ OneInv /\ SeenInv

(* The initial state satisfies the invariant. *)
LEMMA InitInv == Init => Inv
<1> SUFFICES ASSUME Init PROVE Inv
  OBVIOUS
<1> USE TreeCacheAssumption DEF Init, Actors, NoOp, Raw
<1>1. \A a \in Actors : op[a] = NoOp
  OBVIOUS
<1>2. op \in [Actors -> Op]
  BY DEF Op, Forms
<1>3. CacheTypeOK
  <2>1. version \in Trees /\ floor \in Trees /\ begun \in Trees /\ seen \subseteq Trees
    BY DEF Trees
  <2>2. cache = Nil /\ callMu = Nobody /\ crashed = Nobody /\ callMu # Main /\ shared \in BOOLEAN
    OBVIOUS
  <2>3. phase = "select" /\ handlers \in 0..MaxHandlers
    OBVIOUS
  <2>4. \A a \in Actors : op[a].at = "none"
    BY <1>1
  <2> HIDE DEF Init, Actors
  <2> QED BY <1>2, <2>1, <2>2, <2>3, <2>4 DEF CacheTypeOK
<1>4. HandInv /\ MainInv
  BY <1>1 DEF HandInv, MainInv
<1>5. FloorInv /\ SeenInv
  BY <1>1 DEF FloorInv, StaleOnlyFromHand, Cached, SeenInv
<1>6. OneInv
  BY DEF OneInv
<1> QED BY <1>3, <1>4, <1>5, <1>6 DEF Inv

-----------------------------------------------------------------------------
(* Accesses *)

(* What a goroutine has under way stays an op. *)
LEMMA OpTypes ==
  ASSUME CacheTypeOK, NEW a \in Actors, NEW r \in Op, op' = [op EXCEPT ![a] = r]
  PROVE  op' \in [Actors -> Op] /\ op'[a] = r /\ \A b \in Actors \ {a} : op'[b] = op[b]
BY DEF CacheTypeOK

LEMMA CheckInv == \A a \in Actors : Inv /\ Check(a) => Inv'
<1> SUFFICES ASSUME NEW a \in Actors, Inv, Check(a) PROVE Inv'
  OBVIOUS
<1> DEFINE r == [op[a] EXCEPT !.at = "checked"]
<1>1. r \in Op /\ r.at = "checked" /\ r.tree = 0 /\ r.form <= r.want /\ cache # Nil /\ MayUseTree(a) /\ op[a].at = "none"
  BY DEF Inv, CacheTypeOK, HandInv, Op, Check
<1>2. op' \in [Actors -> Op] /\ op'[a] = r /\ \A b \in Actors \ {a} : op'[b] = op[b]
  BY <1>1, OpTypes DEF Inv, Check
<1>3. UNCHANGED <<version, cache, callMu, phase, handlers, begun, seen, shared, crashed, floor>>
  BY DEF Check, dispatchVars
<1> HIDE DEF r
<1>4. CacheTypeOK'
  BY <1>1, <1>2, <1>3 DEF Inv, CacheTypeOK, MayUseTree, Trees
<1>5. HandInv' /\ MainInv'
  BY <1>1, <1>2, <1>3 DEF Inv, HandInv, MainInv, Actors
<1>6. FloorInv' /\ SeenInv'
  BY <1>1, <1>2, <1>3 DEF Inv, FloorInv, StaleOnlyFromHand, SeenInv, Cached
<1>7. OneInv'
  BY <1>1, <1>2, <1>3 DEF Inv, OneInv, Cached
<1> QED BY <1>4, <1>5, <1>6, <1>7 DEF Inv

(* The three outcomes of the checks: the form is there, one below it, none. *)
LEMMA LookupInv == \A a \in Actors, want \in Forms : Inv /\ Lookup(a, want) => Inv'
<1> SUFFICES ASSUME NEW a \in Actors, NEW want \in Forms, Inv, Lookup(a, want) PROVE Inv'
  OBVIOUS
<1>1. /\ UNCHANGED <<version, cache, callMu, handlers, begun, shared, crashed, floor>>
      /\ MayUseTree(a) /\ op[a].at \in {"none", "checked"}
  BY DEF Lookup, Idle
<1>2. CASE Cached(want) /\ Got(a, cache[want])
  <2>1. NoOp \in Op /\ NoOp.at = "none" /\ NoOp.tree = 0 /\ NoOp.form <= NoOp.want
    BY DEF NoOp, Op, Forms, Raw
  <2>2. op' \in [Actors -> Op] /\ op'[a] = NoOp /\ \A b \in Actors \ {a} : op'[b] = op[b]
    BY <1>2, <2>1, OpTypes DEF Inv, Got
  <2>3. cache[want] \in Trees /\ cache[want] >= floor
    BY <1>2 DEF Inv, CacheTypeOK, FloorInv, StaleOnlyFromHand, Cached, Trees
  <2>4. /\ seen' = (IF a = Main /\ phase # "load" THEN seen \cup {cache[want]} ELSE seen)
        /\ phase' = (IF a = Main /\ phase = "enrich" THEN "handlers" ELSE phase)
    BY <1>2 DEF Got
  <2>5. a = Main => phase # "select"
    BY <1>1, TreeCacheAssumption DEF Inv, CacheTypeOK, MayUseTree
  <2> HIDE DEF NoOp
  <2>6. CacheTypeOK'
    <3>1. phase' \in {"select", "load", "enrich", "handlers"} /\ seen' \subseteq Trees
      BY <2>3, <2>4 DEF Inv, CacheTypeOK
    <3>2. callMu' = Main => phase' = "load" \/ (phase' = "handlers" /\ handlers' > 0)
      BY <1>1, <2>4 DEF Inv, CacheTypeOK
    <3>3. \A b \in Actors : op'[b].at # "none" => MayUseTree(b)'
      BY <1>1, <2>1, <2>2, <2>4 DEF Inv, CacheTypeOK, MayUseTree
    <3> QED BY <1>1, <2>2, <3>1, <3>2, <3>3 DEF Inv, CacheTypeOK, Trees
  <2>7. HandInv' /\ MainInv'
    BY <1>1, <2>1, <2>2 DEF Inv, HandInv, MainInv, Actors
  <2>8. FloorInv' /\ SeenInv'
    BY <1>1, <2>1, <2>2, <2>3, <2>4, <2>5 DEF Inv, FloorInv, StaleOnlyFromHand, SeenInv, Cached
  <2>9. OneInv'
    BY <1>1, <1>2, <2>1, <2>2, <2>4, <2>5 DEF Inv, CacheTypeOK, OneInv, SeenInv, Cached, MayUseTree
  <2> QED BY <2>6, <2>7, <2>8, <2>9 DEF Inv
<1>3. ASSUME NEW form \in 1..want-1, NEW r, Cached(form),
             r = [at |-> "ensure", want |-> want, form |-> form + 1, tree |-> cache[form]],
             op' = [op EXCEPT ![a] = r], UNCHANGED <<seen, phase>>
      PROVE  Inv'
  <2>1. form \in Forms /\ form + 1 \in Forms /\ form + 1 # Raw /\ cache[form] \in Trees
    BY <1>3 DEF Forms, Raw, Decoded, Starlark, Inv, CacheTypeOK, Cached, Trees
  <2>2. r \in Op /\ r.at = "ensure" /\ r.form # Raw /\ r.form <= r.want /\ r.tree = cache[form]
    BY <1>3, <2>1 DEF Op, Forms, Raw, Decoded, Starlark
  <2>3. op' \in [Actors -> Op] /\ op'[a] = r /\ \A b \in Actors \ {a} : op'[b] = op[b]
    BY <1>3, <2>2, OpTypes DEF Inv
  <2>4. CacheTypeOK'
    BY <1>1, <1>3, <2>2, <2>3 DEF Inv, CacheTypeOK, MayUseTree, Trees
  <2>5. HandInv' /\ MainInv'
    <3>1. r.tree # 0
      BY <2>1, <2>2 DEF Trees
    <3> QED BY <1>1, <2>2, <2>3, <3>1 DEF Inv, HandInv, MainInv, Actors
  <2>6. FloorInv' /\ SeenInv'
    BY <1>1, <1>3, <2>1, <2>2, <2>3 DEF Inv, FloorInv, StaleOnlyFromHand, SeenInv, Cached
  <2>7. OneInv'
    BY <1>1, <1>3, <2>1, <2>2, <2>3 DEF Inv, OneInv, Cached
  <2> QED BY <2>4, <2>5, <2>6, <2>7 DEF Inv
<1>4. ASSUME NEW r, \A form \in 1..want : ~Cached(form),
             r = [at |-> "fetch", want |-> want, form |-> Raw, tree |-> 0],
             op' = [op EXCEPT ![a] = r], UNCHANGED <<seen, phase>>
      PROVE  Inv'
  <2>1. ~Cached(Raw)
    BY <1>4 DEF Forms, Raw, Decoded, Starlark
  <2>2. r \in Op /\ r.at = "fetch" /\ r.form = Raw /\ r.form <= r.want /\ r.tree = 0
    BY <1>4 DEF Op, Forms, Raw, Decoded, Starlark
  <2>3. op' \in [Actors -> Op] /\ op'[a] = r /\ \A b \in Actors \ {a} : op'[b] = op[b]
    BY <1>4, <2>2, OpTypes DEF Inv
  <2>4. CacheTypeOK'
    BY <1>1, <1>4, <2>2, <2>3 DEF Inv, CacheTypeOK, MayUseTree, Trees
  <2>5. HandInv' /\ MainInv'
    BY <1>1, <2>2, <2>3 DEF Inv, HandInv, MainInv, Actors
  <2>6. FloorInv' /\ SeenInv'
    BY <1>1, <1>4, <2>2, <2>3 DEF Inv, FloorInv, StaleOnlyFromHand, SeenInv, Cached
  <2>7. OneInv'
    BY <1>1, <1>4, <2>1, <2>2, <2>3 DEF Inv, OneInv, Cached
  <2> QED BY <2>4, <2>5, <2>6, <2>7 DEF Inv
<1> QED BY <1>2, <1>3, <1>4 DEF Lookup

(* i3's answer becomes the tree at hand. *)
LEMMA FetchInv == \A a \in Actors : Inv /\ Fetch(a) => Inv'
<1> SUFFICES ASSUME NEW a \in Actors, Inv, Fetch(a) PROVE Inv'
  OBVIOUS
<1> DEFINE r == [op[a] EXCEPT !.at = "ensure", !.tree = version]
<1>1. /\ r \in Op /\ r.at = "ensure" /\ r.tree = version /\ r.form = op[a].form
      /\ op[a].at = "fetch" /\ version \in Trees /\ version # 0 /\ r.form <= r.want
  <2>1. op[a] \in Op /\ op[a].form <= op[a].want /\ op[a].at = "fetch" /\ version \in Trees
    BY DEF Inv, CacheTypeOK, HandInv, Fetch
  <2>2. r \in Op /\ r.at = "ensure" /\ r.tree = version
    BY <2>1 DEF Op
  <2>3. r.form = op[a].form /\ r.want = op[a].want
    BY <2>1 DEF Op
  <2>4. version # 0
    BY <2>1 DEF Trees
  <2> HIDE DEF r
  <2> QED BY <2>1, <2>2, <2>3, <2>4
<1>2. op' \in [Actors -> Op] /\ op'[a] = r /\ \A b \in Actors \ {a} : op'[b] = op[b]
  BY <1>1, OpTypes DEF Inv, Fetch
<1>3. UNCHANGED <<version, cache, callMu, phase, handlers, begun, seen, shared, crashed, floor>>
  BY DEF Fetch, dispatchVars
<1> HIDE DEF r
<1>4. CacheTypeOK'
  BY <1>1, <1>2, <1>3 DEF Inv, CacheTypeOK, MayUseTree, Trees
<1>5. HandInv' /\ MainInv'
  BY <1>1, <1>2, <1>3 DEF Inv, HandInv, MainInv, Actors
<1>6. FloorInv' /\ SeenInv'
  BY <1>1, <1>2, <1>3 DEF Inv, FloorInv, StaleOnlyFromHand, SeenInv, Cached
<1>7. OneInv'
  BY <1>1, <1>2, <1>3 DEF Inv, OneInv, Cached
<1> QED BY <1>4, <1>5, <1>6, <1>7 DEF Inv

(* A failure ends the access, and with it the call. *)
LEMMA AccessFailsInv == \A a \in Actors : Inv /\ AccessFails(a) => Inv'
<1> SUFFICES ASSUME NEW a \in Actors, Inv, AccessFails(a) PROVE Inv'
  OBVIOUS
<1>1. NoOp \in Op /\ NoOp.at = "none" /\ NoOp.tree = 0 /\ NoOp.form <= NoOp.want
  BY DEF NoOp, Op, Forms, Raw
<1>2. op' \in [Actors -> Op] /\ op'[a] = NoOp /\ \A b \in Actors \ {a} : op'[b] = op[b]
  BY <1>1, OpTypes DEF Inv, AccessFails
<1>3. /\ UNCHANGED <<version, cache, begun, seen, shared, crashed, floor>>
      /\ callMu' = (IF callMu = a THEN Nobody ELSE callMu)
      /\ handlers' = (IF callMu = Main /\ a = Main /\ phase = "handlers" THEN handlers - 1 ELSE handlers)
      /\ phase' = (IF a = Main /\ phase = "enrich" THEN "handlers" ELSE phase)
      /\ op[a].at # "none"
  BY DEF AccessFails
<1>4. MayUseTree(a) /\ Nobody \notin Actors /\ (a = Main => phase # "select")
  BY <1>3, TreeCacheAssumption DEF Inv, CacheTypeOK, MayUseTree, Actors
<1> HIDE DEF NoOp
<1>5. CacheTypeOK'
  <2>1. phase' \in {"select", "load", "enrich", "handlers"} /\ callMu' \in Actors \cup {Nobody}
    BY <1>3 DEF Inv, CacheTypeOK
  <2>2. handlers' \in 0..MaxHandlers
    BY <1>3, TreeCacheAssumption DEF Inv, CacheTypeOK
  <2>3. callMu' = Main => phase' = "load" \/ (phase' = "handlers" /\ handlers' > 0)
    BY <1>3, <1>4, TreeCacheAssumption DEF Inv, CacheTypeOK, Actors
  <2>4. \A b \in Actors : op'[b].at # "none" => MayUseTree(b)'
    BY <1>1, <1>2, <1>3, <1>4 DEF Inv, CacheTypeOK, MayUseTree
  <2> QED BY <1>2, <1>3, <2>1, <2>2, <2>3, <2>4 DEF Inv, CacheTypeOK, Trees
<1>6. HandInv' /\ MainInv'
  BY <1>1, <1>2, <1>3 DEF Inv, HandInv, MainInv, Actors
<1>7. FloorInv' /\ SeenInv'
  BY <1>1, <1>2, <1>3, <1>4 DEF Inv, FloorInv, StaleOnlyFromHand, SeenInv, Cached
<1>8. OneInv'
  BY <1>1, <1>2, <1>3, <1>4 DEF Inv, OneInv, Cached
<1> QED BY <1>5, <1>6, <1>7, <1>8 DEF Inv

(* A new cache is empty, an old one stays. *)
LEMMA EnsureInv == \A a \in Actors : Inv /\ Ensure(a) => Inv'
<1> SUFFICES ASSUME NEW a \in Actors, Inv, Ensure(a) PROVE Inv'
  OBVIOUS
<1> DEFINE r == [op[a] EXCEPT !.at = "write"]
<1>1. /\ r \in Op /\ r.at = "write" /\ r.tree = op[a].tree /\ r.form = op[a].form
      /\ op[a].at = "ensure" /\ r.form <= r.want
  BY DEF Inv, CacheTypeOK, HandInv, Op, Ensure
<1>2. op' \in [Actors -> Op] /\ op'[a] = r /\ \A b \in Actors \ {a} : op'[b] = op[b]
  BY <1>1, OpTypes DEF Inv, Ensure
<1>3. UNCHANGED <<version, callMu, phase, handlers, begun, seen, shared, crashed, floor>>
  BY DEF Ensure, dispatchVars
<1>4. /\ cache' \in [Forms -> Trees \cup {0}]
      /\ cache' # Nil
      /\ \A form \in Forms : Cached(form)' <=> Cached(form)
      /\ cache # Nil => cache' = cache
  <2>1. Nil \notin [Forms -> Trees \cup {0}]
    <3>1. [Forms -> Trees \cup {0}] \subseteq [1..3 -> Nat]
      BY DEF Forms, Raw, Decoded, Starlark, Trees
    <3> QED BY <3>1, TreeCacheAssumption
  <2>2. cache' = (IF cache = Nil THEN [form \in Forms |-> 0] ELSE cache)
    BY DEF Ensure
  <2>3. cache' \in [Forms -> Trees \cup {0}]
    BY <2>2 DEF Inv, CacheTypeOK
  <2> QED BY <2>1, <2>2, <2>3 DEF Cached
<1>5. \A form \in Forms : Cached(form) => cache'[form] = cache[form]
  BY <1>4 DEF Cached
<1>6. Raw \in Forms
  BY DEF Forms
<1> HIDE DEF r
<1>7. CacheTypeOK'
  BY <1>1, <1>2, <1>3, <1>4 DEF Inv, CacheTypeOK, MayUseTree, Trees
<1>8. HandInv' /\ MainInv'
  BY <1>1, <1>2, <1>3, <1>4 DEF Inv, HandInv, MainInv, Actors
<1>9. FloorInv' /\ SeenInv'
  BY <1>1, <1>2, <1>3, <1>4, <1>5 DEF Inv, FloorInv, StaleOnlyFromHand, SeenInv
<1>10. OneInv'
  BY <1>1, <1>2, <1>3, <1>4, <1>5, <1>6 DEF Inv, OneInv
<1> QED BY <1>7, <1>8, <1>9, <1>10 DEF Inv

(* What is stored is the tree at hand. *)
LEMMA WriteInv == \A a \in Actors : Inv /\ Write(a) => Inv'
<1> SUFFICES ASSUME NEW a \in Actors, Inv, Write(a) PROVE Inv'
  OBVIOUS
<1> DEFINE t == op[a].tree
           f == op[a].form
           r == IF f = op[a].want THEN NoOp ELSE [op[a] EXCEPT !.at = "ensure", !.form = f + 1]
<1>1. /\ UNCHANGED <<version, callMu, handlers, begun, shared, crashed, floor>>
      /\ cache # Nil /\ op[a].at = "write" /\ MayUseTree(a)
      /\ f \in Forms /\ t \in Trees \cup {0}
  BY DEF Write, Inv, CacheTypeOK, Op
<1>2. /\ cache' = [cache EXCEPT ![f] = t] /\ cache' \in [Forms -> Trees \cup {0}]
      /\ cache' # Nil /\ cache'[f] = t
      /\ \A form \in Forms \ {f} : cache'[form] = cache[form]
  <2>1. [Forms -> Trees \cup {0}] \subseteq [1..3 -> Nat]
    BY DEF Forms, Raw, Decoded, Starlark, Trees
  <2>2. cache \in [Forms -> Trees \cup {0}] /\ cache' = [cache EXCEPT ![f] = t]
    BY <1>1 DEF Write, Inv, CacheTypeOK
  <2>3. cache' \in [Forms -> Trees \cup {0}]
    BY <1>1, <2>2
  <2> QED BY <1>1, <2>1, <2>2, <2>3, TreeCacheAssumption
<1>3. op[a].want \in Forms /\ (f # op[a].want => f + 1 \in Forms /\ f + 1 # Raw)
      /\ t \in Trees /\ t # 0
  BY <1>1 DEF Inv, CacheTypeOK, HandInv, Op, Forms, Raw, Decoded, Starlark, Trees
<1>4. /\ r \in Op /\ r.at \in {"none", "ensure"} /\ r.form <= r.want
      /\ r.at = "none" => f = op[a].want /\ r.tree = 0
      /\ r.at = "ensure" => r.tree = t /\ r.form # Raw /\ f # op[a].want
  <2>1. CASE f = op[a].want
    BY <2>1 DEF NoOp, Op, Forms, Raw
  <2>2. CASE f # op[a].want
    <3>1. op[a] \in Op /\ f <= op[a].want
      BY DEF Inv, CacheTypeOK, HandInv
    <3>2. f + 1 <= op[a].want
      BY <1>1, <1>3, <2>2, <3>1 DEF Forms, Raw, Decoded, Starlark
    <3> QED BY <1>3, <2>2, <3>1, <3>2 DEF Op
  <2> QED BY <2>1, <2>2
<1>5. op' \in [Actors -> Op] /\ op'[a] = r /\ \A b \in Actors \ {a} : op'[b] = op[b]
  <2>1. op' = [op EXCEPT ![a] = r]
    BY DEF Write, Got
  <2> HIDE DEF r
  <2> QED BY <1>4, <2>1, OpTypes DEF Inv
<1>6. /\ seen' = seen \/ (seen' = seen \cup {t} /\ a = Main /\ phase # "load")
      /\ phase' = phase \/ (phase' = "handlers" /\ phase = "enrich" /\ a = Main /\ r.at = "none")
      /\ a = Main /\ phase = "enrich" /\ r.at = "none" => phase' = "handlers"
  BY <1>4 DEF Write, Got
<1>7. a = Main => phase # "select"
  BY <1>1, TreeCacheAssumption DEF Inv, CacheTypeOK, MayUseTree
<1>8. \A b \in Actors \ {a} : ~shared /\ phase \in {"enrich", "handlers"} => op[b].at = "none"
  BY <1>1, TreeCacheAssumption DEF Inv, CacheTypeOK, OneInv, MayUseTree, Actors
<1> HIDE DEF r
<1>9. CacheTypeOK'
  <2>1. phase' \in {"select", "load", "enrich", "handlers"} /\ seen' \subseteq Trees
    BY <1>3, <1>6 DEF Inv, CacheTypeOK
  <2>2. callMu' = Main => phase' = "load" \/ (phase' = "handlers" /\ handlers' > 0)
    BY <1>1, <1>6 DEF Inv, CacheTypeOK
  <2>3. \A b \in Actors : op'[b].at # "none" => MayUseTree(b)'
    BY <1>1, <1>4, <1>5, <1>6 DEF Inv, CacheTypeOK, MayUseTree
  <2> QED BY <1>1, <1>2, <1>5, <2>1, <2>2, <2>3 DEF Inv, CacheTypeOK, Trees
<1>10. HandInv' /\ MainInv'
  BY <1>1, <1>2, <1>3, <1>4, <1>5 DEF Inv, HandInv, MainInv, Actors
<1>11. t >= floor
  BY <1>3 DEF Inv, FloorInv, StaleOnlyFromHand
<1>12. FloorInv' /\ SeenInv'
  BY <1>1, <1>2, <1>3, <1>4, <1>5, <1>6, <1>7, <1>11 DEF Inv, FloorInv, StaleOnlyFromHand, SeenInv, Cached
<1>13. OneInv'
  <2> SUFFICES ASSUME ~shared, phase' \in {"enrich", "handlers"} PROVE OneInv'
    BY <1>1 DEF OneInv
  <2>1. phase \in {"enrich", "handlers"}
    BY <1>6
  <2>2. Cached(Raw)' /\ cache'[Raw] = t /\ Raw \in Forms
    BY <1>1, <1>2, <1>3, <2>1 DEF Inv, OneInv, Cached, Forms
  <2>3. \A form \in Forms : Cached(form)' => cache'[form] = t
    BY <1>1, <1>2, <2>1 DEF Inv, OneInv, Cached
  <2>4. \A tree \in seen' : tree = t
    BY <1>1, <1>6, <2>1 DEF Inv, OneInv
  <2>5. phase' = "enrich" => callMu' = Nobody
    BY <1>1, <1>6, <2>1 DEF Inv, OneInv
  <2>6. \A b \in Actors \ {a} : op'[b].at = "none"
    BY <1>5, <1>8, <2>1
  <2>7. op'[a].at # "fetch" /\ (op'[a].at = "ensure" => op'[a].form # Raw /\ op'[a].tree = t)
        /\ op'[a].at # "write"
    BY <1>4, <1>5
  <2> HIDE DEF t, f
  <2> QED BY <2>2, <2>3, <2>4, <2>5, <2>6, <2>7 DEF OneInv
<1> QED BY <1>9, <1>10, <1>12, <1>13 DEF Inv

(* A nil pointer kills a watcher's callback only: main never reads one. *)
LEMMA CrashInv ==
  \A a \in Actors : Inv /\ (CheckCrashes(a) \/ WriteCrashes(a)) => Inv'
<1> SUFFICES ASSUME NEW a \in Actors, Inv, CheckCrashes(a) \/ WriteCrashes(a) PROVE Inv'
  OBVIOUS
<1>1. /\ UNCHANGED <<version, cache, callMu, op, phase, handlers, begun, seen, shared, floor>>
      /\ crashed' = a /\ cache = Nil /\ op[a].at \in {"checked", "write"}
  BY DEF CheckCrashes, WriteCrashes, dispatchVars
<1>2. a # Main
  BY <1>1 DEF Inv, MainInv
<1>3. CacheTypeOK' /\ MainInv'
  BY <1>1, <1>2 DEF Inv, CacheTypeOK, MainInv, MayUseTree
<1>4. HandInv' /\ FloorInv' /\ OneInv' /\ SeenInv'
  BY <1>1 DEF Inv, HandInv, FloorInv, StaleOnlyFromHand, OneInv, SeenInv, Cached
<1> QED BY <1>3, <1>4 DEF Inv

LEMMA AccessInv == \A a \in Actors : Inv /\ Access(a) => Inv'
BY CheckInv, LookupInv, FetchInv, AccessFailsInv, EnsureInv, WriteInv, CrashInv DEF Access

-----------------------------------------------------------------------------
(* The other steps leave the accesses alone. *)

(* i3's tree only gets newer. *)
LEMMA ChangeInv == Inv /\ Change => Inv'
<1> SUFFICES ASSUME Inv, Change PROVE Inv'
  OBVIOUS
<1>1. /\ UNCHANGED <<cache, callMu, op, phase, handlers, begun, seen, shared, crashed, floor>>
      /\ version' \in Trees /\ version' >= version
  BY TreeCacheAssumption DEF Change, dispatchVars, Inv, CacheTypeOK, Trees
<1>2. CacheTypeOK'
  BY <1>1 DEF Inv, CacheTypeOK, MayUseTree
<1>3. floor \in Nat /\ version \in Nat /\ version' \in Nat
  BY <1>1, TreeCacheAssumption DEF Inv, CacheTypeOK, Trees
<1>4. HandInv' /\ MainInv' /\ FloorInv'
  BY <1>1, <1>3 DEF Inv, HandInv, MainInv, FloorInv, StaleOnlyFromHand, Cached
<1>5. OneInv' /\ SeenInv'
  BY <1>1 DEF Inv, OneInv, SeenInv, Cached
<1> QED BY <1>2, <1>4, <1>5 DEF Inv

(* A reset finds main with nothing under way, and takes as the floor no more
   than any callback has at hand. *)
LEMMA ResetBounds ==
  ASSUME Inv, Reset, phase \in {"select", "handlers"}, callMu # Main
  PROVE  /\ cache' = Nil /\ floor' \in Trees /\ floor' <= version /\ op[Main].at = "none"
         /\ \A a \in Actors : op[a].tree # 0 => op[a].tree >= floor'
<1>1. op[Main].at = "none" /\ op[Main].tree = 0
  BY TreeCacheAssumption DEF Inv, CacheTypeOK, HandInv, MayUseTree, Actors
<1>2. version \in Trees /\ \A a \in Actors : op[a].tree \in Trees \cup {0}
  BY DEF Inv, CacheTypeOK, Op
<1>3. AtHand \subseteq Trees
  BY <1>2 DEF AtHand, Actors
<1>4. \A w \in Watchers : op[w].tree # 0 => op[w].tree \in AtHand
  BY DEF AtHand
<1>5. cache' = Nil /\ floor' \in Trees /\ \A tree \in AtHand \cup {version} : floor' <= tree
  BY <1>2, <1>3 DEF Reset
<1>6. \A a \in Actors : op[a].tree # 0 => floor' <= op[a].tree
  BY <1>1, <1>4, <1>5 DEF Actors
<1>7. \A a \in Actors : op[a].tree # 0 => op[a].tree >= floor'
  BY <1>2, <1>5, <1>6 DEF Trees
<1> QED BY <1>1, <1>5, <1>7

(* A dispatch begins with no cache and nothing seen.  Unless a callback is
   running, nothing is under way. *)
LEMMA BeginEventInv ==
  \A n \in 0..MaxHandlers, window \in BOOLEAN : Inv /\ BeginEvent(n, window) => Inv'
<1> SUFFICES ASSUME NEW n \in 0..MaxHandlers, NEW window \in BOOLEAN, Inv, BeginEvent(n, window)
             PROVE  Inv'
  OBVIOUS
<1>1. /\ phase = "select" /\ Reset /\ UNCHANGED <<version, callMu, op, crashed>>
      /\ phase' \in {"select", "enrich", "handlers"} /\ handlers' \in 0..MaxHandlers
      /\ begun' = version /\ seen' = {} /\ shared' = (callMu \in Watchers)
  BY DEF BeginEvent
<1>2. callMu # Main
  BY <1>1 DEF Inv, CacheTypeOK
<1>3. /\ cache' = Nil /\ floor' \in Trees /\ floor' <= version /\ op[Main].at = "none"
      /\ \A a \in Actors : op[a].tree # 0 => op[a].tree >= floor'
  BY <1>1, <1>2, ResetBounds
<1>4. CacheTypeOK'
  <2>1. \A a \in Actors : op[a].at # "none" => callMu = a
    BY <1>1, <1>2, <1>3 DEF Inv, CacheTypeOK, MayUseTree
  <2> QED BY <1>1, <1>2, <1>3, <2>1 DEF Inv, CacheTypeOK, MayUseTree
<1>5. HandInv' /\ MainInv'
  BY <1>1, <1>3 DEF Inv, HandInv, MainInv
<1>6. FloorInv' /\ SeenInv'
  BY <1>1, <1>3 DEF FloorInv, StaleOnlyFromHand, SeenInv, Cached
<1>7. OneInv'
  <2> SUFFICES ASSUME ~shared' PROVE OneInv'
    BY DEF OneInv
  <2>1. callMu = Nobody
    BY <1>1, <1>2 DEF Inv, CacheTypeOK, Actors
  <2>2. \A a \in Actors : op[a].at = "none"
    BY <1>1, <1>3, <2>1, TreeCacheAssumption DEF Inv, CacheTypeOK, MayUseTree, Actors
  <2> QED BY <1>1, <1>3, <2>1, <2>2 DEF OneInv, Cached
<1> QED BY <1>4, <1>5, <1>6, <1>7 DEF Inv

(* The deferred EndEvent, after the last handler. *)
LEMMA EndEventInv == Inv /\ EndEvent => Inv'
<1> SUFFICES ASSUME Inv, EndEvent PROVE Inv'
  OBVIOUS
<1>1. /\ phase = "handlers" /\ handlers = 0 /\ Reset
      /\ UNCHANGED <<version, callMu, op, handlers, begun, shared, crashed>>
      /\ phase' = "select" /\ seen' = {}
  BY DEF EndEvent
<1>2. callMu # Main
  BY <1>1 DEF Inv, CacheTypeOK
<1>3. /\ cache' = Nil /\ floor' \in Trees /\ floor' <= version /\ op[Main].at = "none"
      /\ \A a \in Actors : op[a].tree # 0 => op[a].tree >= floor'
  BY <1>1, <1>2, ResetBounds
<1>4. CacheTypeOK'
  <2>1. \A a \in Actors : op[a].at # "none" => callMu = a
    BY <1>1, <1>2, <1>3 DEF Inv, CacheTypeOK, MayUseTree
  <2> QED BY <1>1, <1>2, <1>3, <2>1 DEF Inv, CacheTypeOK, MayUseTree
<1>5. HandInv' /\ MainInv'
  BY <1>1, <1>3 DEF Inv, HandInv, MainInv
<1>6. FloorInv' /\ SeenInv' /\ OneInv'
  BY <1>1, <1>3 DEF FloorInv, StaleOnlyFromHand, SeenInv, OneInv, Cached
<1> QED BY <1>4, <1>5, <1>6 DEF Inv

(* The calls that take and release the call mutex around accesses. *)
CallStep ==
  \/ CallHandler \/ HandlerReturns \/ BeginLoad \/ CallInit \/ EndLoad
  \/ \E w \in Watchers : CallbackBegins(w) \/ CallbackReturns(w)

(* A call begins and ends with nothing under way, and the phase is left at
   "load" only so. *)
LEMMA CallStepTypes == Inv /\ CallStep => CacheTypeOK'
<1> SUFFICES ASSUME Inv, CallStep PROVE CacheTypeOK'
  OBVIOUS
<1>1. UNCHANGED <<version, cache, op, begun, seen, crashed, floor>>
  BY DEF CallStep, CallHandler, HandlerReturns, BeginLoad, CallInit, EndLoad, CallbackBegins,
         CallbackReturns, dispatchVars
<1>2. /\ callMu' \in Actors \cup {Nobody} /\ phase' \in {"select", "load", "enrich", "handlers"}
  BY TreeCacheAssumption
     DEF Inv, CacheTypeOK, CallStep, CallHandler, HandlerReturns, BeginLoad, CallInit, EndLoad,
         CallbackBegins, CallbackReturns, dispatchVars, Actors
<1>3. shared' \in BOOLEAN
  BY DEF Inv, CacheTypeOK, CallStep, CallHandler, HandlerReturns, BeginLoad, CallInit, EndLoad,
         CallbackBegins, CallbackReturns, dispatchVars
<1>4. handlers' \in 0..MaxHandlers
  <2>1. handlers \in 0..MaxHandlers /\ (callMu = Main => phase = "load" \/ handlers > 0)
    BY DEF Inv, CacheTypeOK
  <2>2. handlers' = handlers \/ (HandlerReturns /\ handlers' = handlers - 1)
    BY DEF CallStep, CallHandler, HandlerReturns, BeginLoad, CallInit, EndLoad, CallbackBegins,
           CallbackReturns, dispatchVars
  <2> QED BY <2>1, <2>2, TreeCacheAssumption DEF HandlerReturns
<1>5. callMu' = Main => phase' = "load" \/ (phase' = "handlers" /\ handlers' > 0)
  BY TreeCacheAssumption
     DEF Inv, CacheTypeOK, CallStep, CallHandler, HandlerReturns, BeginLoad, CallInit, EndLoad,
         CallbackBegins, CallbackReturns, dispatchVars, Actors
<1>6. ASSUME NEW a \in Actors, op'[a].at # "none" PROVE MayUseTree(a)'
  <2>1. op[a].at # "none" /\ MayUseTree(a)
    BY <1>1, <1>6 DEF Inv, CacheTypeOK
  <2>2. callMu # Nobody \/ (a = Main /\ phase \in {"enrich", "load"})
    BY <2>1, TreeCacheAssumption DEF MayUseTree, Actors
  <2> QED BY <2>1, <2>2, TreeCacheAssumption
       DEF MayUseTree, CallStep, CallHandler, HandlerReturns, BeginLoad, CallInit, EndLoad,
           CallbackBegins, CallbackReturns, dispatchVars, Actors
<1> QED BY <1>1, <1>2, <1>3, <1>4, <1>5, <1>6 DEF Inv, CacheTypeOK

(* A callback that begins during enrichment makes the dispatch a shared one. *)
LEMMA CallStepInv == Inv /\ CallStep => Inv'
<1> SUFFICES ASSUME Inv, CallStep PROVE Inv'
  OBVIOUS
<1>1. UNCHANGED <<version, cache, op, begun, seen, crashed, floor>>
  BY DEF CallStep, CallHandler, HandlerReturns, BeginLoad, CallInit, EndLoad, CallbackBegins,
         CallbackReturns, dispatchVars
<1>2. CacheTypeOK'
  BY CallStepTypes
<1>3. HandInv' /\ MainInv' /\ FloorInv'
  BY <1>1 DEF Inv, HandInv, MainInv, FloorInv, StaleOnlyFromHand, Cached
<1>4. /\ phase' # phase => phase \in {"select", "load"} /\ phase' \in {"select", "load"}
      /\ ~shared' => ~shared /\ (phase' = "enrich" => callMu' = callMu \/ callMu' = Nobody)
  BY DEF Inv, CacheTypeOK, CallStep, CallHandler, HandlerReturns, BeginLoad, CallInit, EndLoad, CallbackBegins,
         CallbackReturns, dispatchVars
<1>5. SeenInv'
  BY <1>1, <1>4 DEF Inv, SeenInv
<1>6. OneInv'
  BY <1>1, <1>4 DEF Inv, OneInv, Cached
<1> QED BY <1>2, <1>3, <1>5, <1>6 DEF Inv

-----------------------------------------------------------------------------
(* The theorems *)

LEMMA NextInv == Inv /\ [Next]_vars => Inv'
<1> SUFFICES ASSUME Inv, [Next]_vars PROVE Inv'
  OBVIOUS
<1>1. CASE Step
  BY <1>1, AccessInv, ChangeInv, BeginEventInv, EndEventInv, CallStepInv DEF Step, CallStep
<1>2. CASE UNCHANGED vars
  BY <1>2 DEF vars, dispatchVars, Inv, CacheTypeOK, HandInv, MainInv, FloorInv,
              StaleOnlyFromHand, OneInv, SeenInv, Cached, MayUseTree
<1> QED BY <1>1, <1>2 DEF Next, Dead

LEMMA Invariance == Spec => []Inv
<1> QED BY InitInv, NextInv, PTL DEF Spec

(* The tree is used under the call mutex, or by main while it enriches an event
   or loads a script (runtime.go:123-125, daemon.go:451-460). *)
THEOREM CacheTypeTheorem == Spec => []CacheTypeOK
<1>1. Inv => CacheTypeOK
  BY DEF Inv
<1> QED BY <1>1, Invariance, PTL

(* However callbacks and resets interleave, a dispatch, init() or a handler never
   dereferences a cache that is gone (runtime.go:180-183). *)
THEOREM MainSafeTheorem == Spec => []MainNeverCrashes
<1>1. Inv => MainNeverCrashes
  BY DEF Inv, MainInv, MainNeverCrashes
<1> QED BY <1>1, Invariance, PTL

(* No tree is older than i3's at the last reset, or than what a callback had at
   hand then (runtime.go:68-72). *)
THEOREM StaleTheorem == Spec => []StaleOnlyFromHand
<1>1. Inv => StaleOnlyFromHand
  BY DEF Inv, FloorInv
<1> QED BY <1>1, Invariance, PTL

(* Enrichment and all handlers of a dispatch get the same tree, unless a callback
   ran before the first handler (daemon.go:431). *)
THEOREM OneTreeTheorem == Spec => []OneTreePerDispatch
<1>1. Inv => OneTreePerDispatch
  BY DEF Inv, CacheTypeOK, OneInv, SeenInv, OneTreePerDispatch
<1> QED BY <1>1, Invariance, PTL
=============================================================================
