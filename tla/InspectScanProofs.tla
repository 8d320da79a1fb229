--------------------------- MODULE InspectScanProofs ---------------------------
(* The invariants of InspectScan, for pages and observations of any size.  *)
EXTENDS InspectScan, TLAPS

Pairs == Nat \X Nat

(* The visible ones of the first p candidates of s are those of v, in the  *)
(* order of the page.                                                      *)
Scanned(s, v, p) ==
    /\ Items(v) = {j \in 1..p : s[j]}
    /\ \A k, l \in 1..Len(v) : k < l => v[k] < v[l]

(* The scan has seen enough to answer.                                     *)
Enough(s, v, p) ==
    /\ p \in 0..Len(s) /\ Len(v) <= max + 1 /\ (p = Len(s) \/ Len(v) > max)
    /\ Scanned(s, v, p)

KeptPlaces(v) == {v[k] : k \in 1..Retained(v)}

(* The handles of the inspection under way that are not yet given up.      *)
Ahead ==
    IF await \in {"look", "hide", "evaluate"}
    THEN Handles(Items(visible) \union (processed..Len(shown)))
    ELSE IF await \in {"trim", "old"} THEN Handles(KeptPlaces(visible))
    ELSE {}

ScanInv ==
    /\ await \in {"look", "hide", "evaluate"} =>
         /\ processed \in 1..Len(shown) /\ Len(visible) <= max
         /\ Scanned(shown, visible, processed - 1)
         /\ await = "hide" => ~shown[processed]
         /\ await = "evaluate" => shown[processed]
    /\ await \in {"trim", "old"} => Enough(shown, visible, processed)
    /\ await = "query" => visible = <<>>
    /\ await # "idle" => answer = "none"

(* Every handle of the page is accounted for, once.                        *)
LiveInv == ~cut => live \subseteq Items(elements) \union todo \union Ahead

ApartInv ==
    /\ await \notin {"trim", "old", "clear"} => todo = {}
    /\ await \in {"old", "clear"} => elements = <<>>
    /\ (Items(elements) \union todo) \intersect disposed = {}
    /\ Ahead \intersect (disposed \union Items(elements) \union todo) = {}
    /\ todo \intersect Items(elements) = {}

(* Handles of earlier inspections are not those of the next.               *)
AgeInv ==
    \A h \in disposed \union Items(elements) \union todo :
        h[1] <= actions /\ (await = "query" => h[1] < actions)

Inv == TypeOK /\ ScanInv /\ LiveInv /\ ApartInv /\ AgeInv /\ AnswerIsRight

LEMMA InitInv == Init => Inv
<1>1. Items(<<>>) = {}
  BY DEF Items
<1> SUFFICES ASSUME Init PROVE Inv
  OBVIOUS
<1>2. TypeOK
  <2>1. \A S : <<>> \in Seq(S)
    OBVIOUS
  <2>2. Len(<<>>) = 0
    OBVIOUS
  <2>3. Len(visible) <= max + 1
    BY <2>2 DEF Init
  <2>4. shown \in Seq(BOOLEAN) /\ visible \in Seq(Nat) /\ elements \in Seq(Nat \X Nat)
    BY <2>1 DEF Init
  <2>5. await \in Awaits /\ answer \in {"none", "whole", "truncated", "failed"} /\ cut \in BOOLEAN
    BY DEF Init, Awaits
  <2>6. /\ actions \in Nat /\ generation \in Nat /\ processed \in Nat
        /\ max \in Nat \ {0} /\ max <= MaxElements
    BY BoundsAssumption DEF Init
  <2>7. todo = {} /\ live = {} /\ disposed = {}
    BY DEF Init
  <2> QED
    BY <2>3, <2>4, <2>5, <2>6, <2>7 DEF TypeOK
<1>3. ScanInv /\ LiveInv /\ AnswerIsRight
  BY DEF Init, ScanInv, LiveInv, AnswerIsRight
<1>4. ApartInv /\ AgeInv
  BY <1>1 DEF Init, ApartInv, AgeInv, Ahead
<1> QED
  BY <1>2, <1>3, <1>4 DEF Inv

-----------------------------------------------------------------------------
(* With enough scanned, what Register registers is the right answer.       *)
LEMMA RegisterAnswers ==
    ASSUME NEW s \in Seq(BOOLEAN), NEW v \in Seq(Nat), NEW p \in Nat, Enough(s, v, p),
           actions \in Nat, max \in Nat \ {0}, actions' = actions, max' = max, shown' = s,
           Register(v)
    PROVE  AnswerIsRight' /\ elements' \in Seq(Pairs) /\ Items(elements') = Handles(KeptPlaces(v))
<1> DEFINE k == Retained(v)
<1>1. /\ k \in Nat /\ k <= Len(v) /\ k <= max
      /\ Len(v) > max => k = max
      /\ Len(v) <= max => k = Len(v)
  BY DEF Retained
<1> HIDE DEF k
<1>2. elements' = [i \in 1..k |-> <<actions, v[i]>>]
  BY DEF Register, k
<1>3. \A i \in 1..k : i \in 1..Len(v) /\ v[i] \in Nat
  BY <1>1
<1>4. elements' \in Seq(Pairs) /\ Len(elements') = k /\ DOMAIN elements' = 1..k
  BY <1>1, <1>2, <1>3 DEF Pairs
<1>5. Items(elements') = {<<actions, v[i]>> : i \in 1..k}
  BY <1>2, <1>4 DEF Items
<1>6. Items(elements') = Handles(KeptPlaces(v))
  BY <1>5 DEF Handles, KeptPlaces, k
<1>7. \A j : <<actions, j>> \in Items(elements') <=> \E i \in 1..k : v[i] = j
  BY <1>5
<1>8. /\ \A j : (\E i \in 1..Len(v) : v[i] = j) <=> j \in 1..p /\ s[j]
      /\ \A i, j \in 1..Len(v) : i < j => v[i] < v[j]
  <2>1. DOMAIN v = 1..Len(v)
    OBVIOUS
  <2> QED
    BY <2>1 DEF Enough, Scanned, Items
<1>9. p <= Len(s) /\ (p = Len(s) \/ Len(v) > max)
  BY DEF Enough
<1>10. \A i \in 1..Len(elements') : elements'[i][1] = actions /\ s[elements'[i][2]]
  BY <1>2, <1>3, <1>4, <1>8
<1>11. \A i, j \in 1..Len(elements') : i < j => elements'[i][2] < elements'[j][2]
  BY <1>2, <1>3, <1>4, <1>8
<1>12. ASSUME NEW i \in 1..Len(s), NEW j \in 1..Len(s), i < j, s[i],
              <<actions, j>> \in Items(elements')
       PROVE  <<actions, i>> \in Items(elements')
  <2>1. PICK b \in 1..k : v[b] = j
    BY <1>7, <1>12
  <2>2. j \in 1..p
    BY <1>3, <1>8, <2>1
  <2>3. PICK a \in 1..Len(v) : v[a] = i
    <3>1. i \in 1..p
      BY <1>12, <2>2
    <3> QED
      BY <1>8, <1>12, <3>1
  <2>4. a < b
    <3>1. a # b /\ ~(b < a)
      BY <1>3, <1>8, <1>12, <2>1, <2>3
    <3> QED
      BY <1>1, <3>1
  <2> QED
    BY <1>1, <1>7, <2>3, <2>4
<1>13. ASSUME answer' = "whole"
       PROVE  /\ Len(elements') <= max
              /\ \A j \in 1..Len(s) : s[j] => <<actions, j>> \in Items(elements')
  <2>1. Len(v) <= max
    BY <1>13 DEF Register
  <2> QED
    BY <1>1, <1>4, <1>7, <1>8, <1>9, <2>1
<1>14. ASSUME answer' = "truncated"
       PROVE  /\ Len(elements') = max
              /\ \E j \in 1..Len(s) : s[j] /\ <<actions, j>> \notin Items(elements')
  <2>1. Len(v) > max /\ k = max
    BY <1>1, <1>14 DEF Register
  <2>2. max + 1 \in 1..Len(v)
    BY <2>1
  <2>3. v[max + 1] \in 1..p /\ s[v[max + 1]]
    BY <1>8, <2>2
  <2>4. <<actions, v[max + 1]>> \notin Items(elements')
    <3>1. \A i \in 1..k : v[i] # v[max + 1]
      <4>1. \A i \in 1..k : i < max + 1
        BY <2>1
      <4>2. v[max + 1] \in Nat
        BY <2>2
      <4> QED
        BY <1>3, <1>8, <2>2, <4>1, <4>2
    <3> QED
      BY <1>7, <3>1
  <2>5. v[max + 1] \in 1..Len(s)
    BY <1>9, <2>3
  <2> QED
    BY <1>4, <2>1, <2>3, <2>4, <2>5
<1>15. AnswerIsRight'
  BY <1>10, <1>11, <1>12, <1>13, <1>14 DEF AnswerIsRight, Registered
<1> QED
  BY <1>4, <1>6, <1>15

-----------------------------------------------------------------------------
(* The ends of an inspection, with L live and D disposed of. Each lemma    *)
(* asks that what is ahead be apart from D, and that L be accounted for.   *)
LEMMA RegisterKeeps ==
    ASSUME TypeOK, NEW s \in Seq(BOOLEAN), NEW v \in Seq(Nat), NEW p \in Nat, Enough(s, v, p),
           Register(v), UNCHANGED <<actions, max, cut>>,
           shown' = s, visible' = v, processed' = p,
           NEW L \in SUBSET Pairs, live' = L, NEW D \in SUBSET Pairs, disposed' = D,
           ~cut => L \subseteq Handles(KeptPlaces(v)),
           Handles(KeptPlaces(v)) \intersect D = {},
           \A h \in D : h[1] <= actions
    PROVE  Inv'
<1>1. /\ AnswerIsRight' /\ elements' \in Seq(Pairs)
      /\ Items(elements') = Handles(KeptPlaces(v))
  BY RegisterAnswers DEF TypeOK
<1>2. await' = "idle" /\ todo' = {} /\ answer' \in {"whole", "truncated"}
  BY DEF Register
<1>3. Len(v) <= max + 1
  BY DEF Enough
<1>4. TypeOK'
  BY <1>1, <1>2, <1>3 DEF Register, TypeOK, Awaits, Pairs
<1>5. Ahead' = {}
  BY <1>2 DEF Ahead
<1>6. ScanInv' /\ LiveInv' /\ ApartInv'
  BY <1>1, <1>2, <1>5 DEF ScanInv, LiveInv, ApartInv
<1>7. AgeInv'
  <2>1. \A h \in Handles(KeptPlaces(v)) : h[1] <= actions
    BY DEF Handles, TypeOK
  <2> QED
    BY <1>1, <1>2, <2>1 DEF AgeInv
<1> QED
  BY <1>1, <1>4, <1>6, <1>7 DEF Inv

LEMMA ConcludeKeeps ==
    ASSUME TypeOK, NEW s \in Seq(BOOLEAN), NEW v \in Seq(Nat), NEW p \in Nat, Enough(s, v, p),
           Conclude(v), answer = "none", UNCHANGED <<actions, max, cut>>,
           shown' = s, visible' = v, processed' = p,
           NEW L \in SUBSET Pairs, live' = L, NEW D \in SUBSET Pairs, disposed' = D,
           ~cut => L \subseteq Items(elements) \union Handles(KeptPlaces(v)),
           Handles(KeptPlaces(v)) \intersect (D \union Items(elements)) = {},
           Items(elements) \intersect D = {},
           \A h \in D \union Items(elements) : h[1] <= actions
    PROVE  Inv'
<1>1. CASE elements = <<>> /\ Register(v)
  <2>1. Items(elements) = {}
    BY <1>1 DEF Items
  <2> QED
    BY <1>1, <2>1, RegisterKeeps
<1>2. CASE elements # <<>> /\ elements' = <<>> /\ todo' = Items(elements) /\ await' = "old"
           /\ UNCHANGED <<answer, generation>>
  <2>1. Items(elements') = {}
    BY <1>2 DEF Items
  <2>2. Items(elements) \subseteq Pairs
    BY DEF TypeOK, Items, Pairs
  <2>3. Len(v) <= max + 1
    BY DEF Enough
  <2>4. elements' \in Seq(Nat \X Nat)
    BY <1>2
  <2>5. TypeOK'
    BY <1>2, <2>2, <2>3, <2>4 DEF TypeOK, Awaits, Pairs
  <2>6. Ahead' = Handles(KeptPlaces(v))
    BY <1>2 DEF Ahead, Handles, KeptPlaces, Retained
  <2>7. ScanInv'
    BY <1>2 DEF ScanInv, Enough
  <2>8. LiveInv' /\ ApartInv' /\ AgeInv' /\ AnswerIsRight'
    BY <1>2, <2>1, <2>6 DEF LiveInv, ApartInv, AgeInv, AnswerIsRight
  <2> QED
    BY <2>5, <2>7, <2>8 DEF Inv
<1> QED
  BY <1>1, <1>2 DEF Conclude

(* What is ahead after the scan is either kept or unwanted, never both.    *)
LEMMA KeptOrUnwanted ==
    ASSUME NEW s \in Seq(BOOLEAN), NEW v \in Seq(Nat), NEW p \in Nat, Enough(s, v, p),
           max \in Nat \ {0}
    PROVE  /\ Handles(Items(v) \union ((p + 1)..Len(s)))
                = Handles(KeptPlaces(v)) \union Unwanted(Len(s), p, v)
           /\ Handles(KeptPlaces(v)) \intersect Unwanted(Len(s), p, v) = {}
<1> DEFINE rest == {v[k] : k \in (max + 1)..Len(v)}
<1>1. DOMAIN v = 1..Len(v) /\ Len(v) \in Nat
  OBVIOUS
<1>2. Items(v) = KeptPlaces(v) \union rest
  <2>1. CASE Len(v) > max
    <3>1. 1..Len(v) = (1..max) \union ((max + 1)..Len(v))
      BY <1>1, <2>1
    <3> QED
      BY <1>1, <2>1, <3>1 DEF Items, KeptPlaces, Retained
  <2>2. CASE ~(Len(v) > max)
    <3>1. (max + 1)..Len(v) = {}
      BY <1>1, <2>2
    <3> QED
      BY <1>1, <2>2, <3>1 DEF Items, KeptPlaces, Retained
  <2> QED
    BY <2>1, <2>2
<1>3. KeptPlaces(v) \intersect rest = {}
  <2>1. ASSUME NEW i \in 1..Retained(v), NEW k \in (max + 1)..Len(v)
        PROVE  v[i] # v[k]
    <3>1. i \in 1..Len(v) /\ k \in 1..Len(v) /\ i < k
      BY <1>1 DEF Retained
    <3>2. v[i] < v[k] /\ v[i] \in Nat /\ v[k] \in Nat
      BY <3>1 DEF Enough, Scanned
    <3> QED
      BY <3>2
  <2> QED
    BY <2>1 DEF KeptPlaces
<1>4. KeptPlaces(v) \intersect ((p + 1)..Len(s)) = {}
  <2>1. KeptPlaces(v) \subseteq 1..p
    BY <1>2 DEF Enough, Scanned
  <2> QED
    BY <2>1
<1> HIDE DEF rest
<1>5. Unwanted(Len(s), p, v) = Handles(((p + 1)..Len(s)) \union rest)
  BY DEF Unwanted, Handles, rest
<1> QED
  BY <1>2, <1>3, <1>4, <1>5 DEF Handles

LEMMA ContinueKeeps ==
    ASSUME TypeOK, NEW s \in Seq(BOOLEAN), NEW v \in Seq(Nat), NEW p \in 0..Len(s),
           Scanned(s, v, p), Len(v) <= max + 1, todo = {},
           Continue(Len(s), p, v), answer = "none", UNCHANGED <<actions, max, cut>>,
           shown' = s, visible' = v,
           NEW L \in SUBSET Pairs, live' = L, NEW D \in SUBSET Pairs, disposed' = D,
           NEW A, A = Handles(Items(v) \union ((p + 1)..Len(s))),
           ~cut => L \subseteq Items(elements) \union A,
           A \intersect (D \union Items(elements)) = {},
           Items(elements) \intersect D = {},
           \A h \in D \union Items(elements) : h[1] <= actions
    PROVE  Inv'
<1>0. p \in Nat
  OBVIOUS
<1>1. CASE /\ p < Len(s) /\ Len(v) <= max
           /\ await' = "look" /\ processed' = p + 1 /\ UNCHANGED <<todo, registry>>
  <2>1. TypeOK'
    BY <1>0, <1>1 DEF TypeOK, Awaits, registry, Pairs
  <2>2. Ahead' = A
    BY <1>1 DEF Ahead, Handles
  <2>3. ScanInv'
    <3>1. (p + 1) - 1 = p /\ p + 1 \in 1..Len(s)
      BY <1>1
    <3> QED
      BY <1>1, <3>1 DEF ScanInv, registry
  <2>4. LiveInv' /\ ApartInv' /\ AgeInv' /\ AnswerIsRight'
    BY <1>1, <2>2 DEF registry, LiveInv, ApartInv, AgeInv, AnswerIsRight
  <2> QED
    BY <2>1, <2>3, <2>4 DEF Inv
<1>2. CASE p = Len(s) \/ Len(v) > max
  <2>1. Enough(s, v, p)
    BY <1>2 DEF Enough
  <2>2. /\ A = Handles(KeptPlaces(v)) \union Unwanted(Len(s), p, v)
        /\ Handles(KeptPlaces(v)) \intersect Unwanted(Len(s), p, v) = {}
    BY <1>0, <2>1, KeptOrUnwanted DEF TypeOK
  <2>3. CASE Unwanted(Len(s), p, v) = {} /\ Conclude(v) /\ processed' = p
    BY <1>0, <2>1, <2>2, <2>3, ConcludeKeeps
  <2>4. CASE /\ processed' = p /\ todo' = Unwanted(Len(s), p, v)
             /\ await' = "trim" /\ UNCHANGED registry
    <3>1. A \subseteq Pairs
      <4>1. \A k \in DOMAIN v : v[k] \in Nat
        OBVIOUS
      <4>2. Items(v) \union ((p + 1)..Len(s)) \subseteq Nat
        BY <1>0, <4>1 DEF Items
      <4> QED
        BY <4>2 DEF Handles, Pairs, TypeOK
    <3>2. TypeOK'
      BY <1>0, <2>2, <2>4, <3>1 DEF TypeOK, Awaits, registry, Pairs
    <3>3. Ahead' = Handles(KeptPlaces(v))
      BY <2>4 DEF Ahead, Handles, KeptPlaces, Retained
    <3>4. ScanInv'
      BY <2>1, <2>4 DEF ScanInv, Enough, registry
    <3>5. AgeInv'
      <4>1. \A h \in A : h[1] <= actions
        BY DEF Handles, TypeOK
      <4> QED
        BY <2>2, <2>4, <4>1 DEF AgeInv, registry
    <3>6. LiveInv' /\ ApartInv' /\ AnswerIsRight'
      BY <2>2, <2>4, <3>3 DEF registry, LiveInv, ApartInv, AnswerIsRight
    <3> QED
      BY <3>2, <3>4, <3>5, <3>6 DEF Inv
  <2> QED
    BY <1>1, <1>2, <2>3, <2>4 DEF Continue
<1> QED
  BY <1>1, <1>2 DEF Continue

-----------------------------------------------------------------------------
(* Every action keeps the invariant.                                       *)
LEMMA InspectStep == ASSUME Inv, NEW m \in 1..MaxElements, Inspect(m) PROVE Inv'
<1>1. /\ await = "idle" /\ await' = "query" /\ actions' = actions + 1 /\ max' = m /\ shown' = <<>>
      /\ processed' = 0 /\ visible' = <<>> /\ answer' = "none"
      /\ UNCHANGED <<todo, elements, generation, live, disposed, cut>>
  BY DEF Inspect
<1>2. TypeOK'
  <2>1. <<>> \in Seq(BOOLEAN) /\ <<>> \in Seq(Nat) /\ Len(<<>>) = 0
    OBVIOUS
  <2>2. m \in Nat \ {0} /\ m <= MaxElements /\ Len(visible') <= max' + 1
    BY <1>1, <2>1, BoundsAssumption
  <2> QED
    BY <1>1, <2>1, <2>2 DEF Inv, TypeOK, Awaits
<1>3. Ahead = {} /\ Ahead' = {} /\ todo = {}
  BY <1>1 DEF Inv, ApartInv, Ahead
<1>4. ScanInv' /\ LiveInv' /\ ApartInv' /\ AnswerIsRight'
  BY <1>1, <1>3 DEF Inv, ScanInv, LiveInv, ApartInv, AnswerIsRight
<1>5. AgeInv'
  <2>1. actions \in Nat /\ disposed \union Items(elements) \union todo \subseteq Pairs
    BY DEF Inv, TypeOK, Items, Pairs
  <2>2. \A h \in Pairs : h[1] <= actions => h[1] < actions + 1
    BY <2>1 DEF Pairs
  <2>3. \A h \in disposed \union Items(elements) \union todo :
          h[1] < actions + 1 /\ h[1] <= actions + 1
    BY <2>1, <2>2 DEF Inv, AgeInv, Pairs
  <2> QED
    BY <1>1, <2>3 DEF AgeInv
<1> QED
  BY <1>2, <1>4, <1>5 DEF Inv

LEMMA QueriedStep == ASSUME Inv, Queried PROVE Inv'
<1>1. PICK n \in 0..MaxCandidates :
        /\ shown' \in [1..n -> BOOLEAN] /\ live' = live \union Handles(1..n)
        /\ Continue(n, 0, visible)
  BY DEF Queried
<1>2. await = "query" /\ visible = <<>> /\ UNCHANGED <<actions, max, visible, disposed, cut>>
  BY DEF Queried, Inv, ScanInv
<1>3. n \in Nat
  BY BoundsAssumption
<1>4. shown' \in Seq(BOOLEAN) /\ Len(shown') = n
  BY <1>1, <1>3
<1>5. Items(<<>>) = {} /\ Len(<<>>) = 0 /\ <<>> \in Seq(Nat)
  BY DEF Items
<1>6. Scanned(shown', visible, 0) /\ Len(visible) <= max + 1
  <2>1. 1..0 = {}
    OBVIOUS
  <2> QED
    BY <1>2, <1>5, <2>1 DEF Scanned, Inv, TypeOK
<1> DEFINE A == Handles(1..n)
<1>7. A = Handles(Items(visible) \union ((0 + 1)..Len(shown')))
  <2>1. Items(visible) \union ((0 + 1)..Len(shown')) = 1..n
    BY <1>2, <1>3, <1>4, <1>5
  <2> QED
    BY <2>1
<1>8. A \intersect (disposed \union Items(elements)) = {}
  <2>1. \A h \in disposed \union Items(elements) : h \in Pairs /\ h[1] < actions
    BY <1>2 DEF Inv, AgeInv, TypeOK, Items, Pairs
  <2>2. \A h \in A : h[1] = actions
    BY DEF Handles
  <2> QED
    BY <2>1, <2>2 DEF Inv, TypeOK, Pairs
<1>9. live' \subseteq Pairs /\ disposed \subseteq Pairs
  BY <1>1, <1>3 DEF Handles, Inv, TypeOK, Pairs
<1>10. todo = {} /\ Ahead = {} /\ Items(elements) \intersect disposed = {}
  BY <1>2 DEF Inv, ApartInv, Ahead
<1>11. ~cut => live' \subseteq Items(elements) \union A
  BY <1>1, <1>10 DEF Inv, LiveInv
<1>12. \A h \in disposed \union Items(elements) : h[1] <= actions
  BY DEF Inv, AgeInv
<1>13. 0 \in 0..Len(shown') /\ TypeOK /\ visible \in Seq(Nat) /\ answer = "none"
  BY <1>2, <1>3, <1>4 DEF Inv, TypeOK, ScanInv
<1> HIDE DEF A
<1> QED
  BY <1>1, <1>2, <1>4, <1>6, <1>7, <1>8, <1>9, <1>10, <1>11, <1>12, <1>13, ContinueKeeps

(* In the loop, what is ahead is the current candidate and what follows.   *)
LEMMA InLoop ==
    ASSUME Inv, await \in {"look", "hide", "evaluate"}
    PROVE  /\ processed \in 1..Len(shown) /\ processed \in Nat
           /\ Items(visible) = {j \in 1..(processed - 1) : shown[j]} /\ todo = {}
           /\ Ahead = {Current}
                \union Handles(Items(visible) \union ((processed + 1)..Len(shown)))
           /\ Current \notin Handles(Items(visible) \union ((processed + 1)..Len(shown)))
<1>1. /\ processed \in 1..Len(shown) /\ Len(shown) \in Nat /\ processed \in Nat
      /\ Items(visible) = {j \in 1..(processed - 1) : shown[j]}
  BY DEF Inv, ScanInv, Scanned, TypeOK
<1>2. processed..Len(shown) = {processed} \union ((processed + 1)..Len(shown))
  BY <1>1
<1>3. processed \notin Items(visible) \union ((processed + 1)..Len(shown))
  BY <1>1
<1>4. todo = {} /\ Ahead = Handles(Items(visible) \union (processed..Len(shown)))
  BY DEF Inv, ApartInv, Ahead
<1> QED
  BY <1>1, <1>2, <1>3, <1>4 DEF Handles, Current

LEMMA LookedStep == ASSUME Inv, Looked PROVE Inv'
<1>1. /\ await = "look" /\ await' = IF shown[processed] THEN "evaluate" ELSE "hide"
      /\ UNCHANGED <<actions, max, shown, processed, visible, todo, elements>>
      /\ UNCHANGED <<answer, generation, live, disposed, cut>>
  BY DEF Looked, work, registry
<1>2. Ahead' = Ahead
  BY <1>1 DEF Ahead, Handles
<1>3. await' \in {"evaluate", "hide"}
  BY <1>1
<1>4. TypeOK'
  BY <1>1, <1>3 DEF Inv, TypeOK, Awaits
<1>5. ScanInv'
  BY <1>1 DEF Inv, ScanInv
<1>6. LiveInv' /\ ApartInv' /\ AgeInv' /\ AnswerIsRight'
  BY <1>1, <1>2, <1>3 DEF Inv, LiveInv, ApartInv, AgeInv, AnswerIsRight
<1> QED
  BY <1>4, <1>5, <1>6 DEF Inv

LEMMA HiddenStep == ASSUME Inv, Hidden PROVE Inv'
<1>1. /\ await = "hide" /\ Dispose(Current) /\ Continue(Len(shown), processed, visible)
      /\ UNCHANGED <<actions, max, shown, visible, cut>>
  BY DEF Hidden
<1> DEFINE A == Handles(Items(visible) \union ((processed + 1)..Len(shown)))
<1>2. /\ processed \in 1..Len(shown) /\ processed \in Nat /\ todo = {}
      /\ Items(visible) = {j \in 1..(processed - 1) : shown[j]}
      /\ Ahead = {Current} \union A /\ Current \notin A
  BY <1>1, InLoop
<1>3. Scanned(shown, visible, processed)
  <2>1. ~shown[processed] /\ Scanned(shown, visible, processed - 1)
    BY <1>1 DEF Inv, ScanInv
  <2>2. 1..processed = 1..(processed - 1) \union {processed}
    BY <1>2
  <2> QED
    BY <1>2, <2>1, <2>2 DEF Scanned
<1>4. Len(visible) <= max + 1 /\ processed \in 0..Len(shown)
  BY <1>2 DEF Inv, TypeOK
<1>5. Current \in Pairs /\ Current[1] = actions
  BY <1>2 DEF Current, Pairs, Inv, TypeOK
<1>6. live' = live \ {Current} /\ disposed' = disposed \union {Current}
  BY <1>1 DEF Dispose
<1> HIDE DEF A
<1>7. /\ A \intersect (disposed' \union Items(elements)) = {}
      /\ Items(elements) \intersect disposed' = {}
      /\ ~cut => live' \subseteq Items(elements) \union A
  BY <1>2, <1>6 DEF Inv, ApartInv, LiveInv
<1>8. \A h \in disposed' \union Items(elements) : h[1] <= actions
  BY <1>5, <1>6 DEF Inv, AgeInv, TypeOK
<1>9. live' \in SUBSET Pairs /\ disposed' \in SUBSET Pairs
  BY <1>5, <1>6 DEF Inv, TypeOK, Pairs
<1>10. shown \in Seq(BOOLEAN) /\ visible \in Seq(Nat) /\ TypeOK /\ answer = "none"
  BY <1>1 DEF Inv, TypeOK, ScanInv
<1> QED
  BY <1>1, <1>2, <1>3, <1>4, <1>7, <1>8, <1>9, <1>10, ContinueKeeps DEF A

LEMMA EvaluatedStep == ASSUME Inv, Evaluated PROVE Inv'
<1>1. /\ await = "evaluate" /\ visible' = Append(visible, processed)
      /\ Continue(Len(shown), processed, visible')
      /\ UNCHANGED <<actions, max, shown, live, disposed, cut>>
  BY DEF Evaluated
<1> DEFINE v == Append(visible, processed)
           A == Handles(Items(v) \union ((processed + 1)..Len(shown)))
<1>2. /\ processed \in 1..Len(shown) /\ processed \in Nat /\ todo = {}
      /\ Items(visible) = {j \in 1..(processed - 1) : shown[j]}
      /\ Ahead = {Current} \union Handles(Items(visible) \union ((processed + 1)..Len(shown)))
  BY <1>1, InLoop
<1>3. shown \in Seq(BOOLEAN) /\ visible \in Seq(Nat) /\ max \in Nat
  BY DEF Inv, TypeOK
<1>4. /\ v \in Seq(Nat) /\ Len(v) = Len(visible) + 1 /\ v[Len(visible) + 1] = processed
      /\ \A k \in 1..Len(visible) : v[k] = visible[k]
      /\ DOMAIN v = 1..(Len(visible) + 1) /\ DOMAIN visible = 1..Len(visible)
  BY <1>2, <1>3
<1> HIDE DEF v
<1>5. Items(v) = Items(visible) \union {processed}
  <2>1. 1..(Len(visible) + 1) = 1..Len(visible) \union {Len(visible) + 1}
    BY <1>3
  <2> QED
    BY <1>4, <2>1 DEF Items
<1>6. Scanned(shown, v, processed)
  <2>1. /\ shown[processed] /\ Len(visible) <= max
        /\ \A k, l \in 1..Len(visible) : k < l => visible[k] < visible[l]
    BY <1>1 DEF Inv, ScanInv, Scanned
  <2>2. 1..processed = 1..(processed - 1) \union {processed}
    BY <1>2
  <2>3. Items(v) = {j \in 1..processed : shown[j]}
    BY <1>2, <1>5, <2>1, <2>2
  <2>4. \A k \in 1..Len(visible) : visible[k] < processed
    <3>1. \A k \in 1..Len(visible) : visible[k] \in 1..(processed - 1)
      BY <1>2, <1>4 DEF Items
    <3> QED
      BY <1>2, <3>1
  <2>5. \A k, l \in 1..Len(v) : k < l => v[k] < v[l]
    <3>1. SUFFICES ASSUME NEW k \in 1..Len(v), NEW l \in 1..Len(v), k < l
                   PROVE  v[k] < v[l]
      OBVIOUS
    <3>2. Len(visible) \in Nat /\ k \in 1..(Len(visible) + 1) /\ l \in 1..(Len(visible) + 1)
      BY <1>3, <1>4
    <3>3. k \in 1..Len(visible) /\ (l \in 1..Len(visible) \/ l = Len(visible) + 1)
      BY <3>1, <3>2
    <3> QED
      BY <1>4, <2>1, <2>4, <3>1, <3>3
  <2> QED
    BY <2>3, <2>5 DEF Scanned
<1>7. Len(v) <= max + 1 /\ processed \in 0..Len(shown)
  <2>1. Len(visible) <= max
    BY <1>1 DEF Inv, ScanInv
  <2> QED
    BY <1>2, <1>3, <1>4, <2>1
<1>8. A = Ahead
  BY <1>2, <1>5 DEF Handles, Current
<1>13. A = Handles(Items(v) \union ((processed + 1)..Len(shown)))
  OBVIOUS
<1> HIDE DEF A
<1>9. /\ A \intersect (disposed \union Items(elements)) = {}
      /\ Items(elements) \intersect disposed = {}
      /\ ~cut => live \subseteq Items(elements) \union A
  BY <1>2, <1>8 DEF Inv, ApartInv, LiveInv
<1>10. \A h \in disposed \union Items(elements) : h[1] <= actions
  BY DEF Inv, AgeInv
<1>11. live \in SUBSET Pairs /\ disposed \in SUBSET Pairs /\ TypeOK /\ answer = "none"
  BY <1>1 DEF Inv, TypeOK, Pairs, ScanInv
<1>12. visible' = v /\ Continue(Len(shown), processed, v)
  BY <1>1 DEF v
<1>14. /\ shown \in Seq(BOOLEAN) /\ v \in Seq(Nat) /\ todo = {}
       /\ shown' = shown /\ live' = live /\ disposed' = disposed /\ UNCHANGED <<actions, max, cut>>
  BY <1>1, <1>2, <1>3, <1>4
<1> QED
  BY <1>6, <1>7, <1>9, <1>10, <1>11, <1>12, <1>13, <1>14, ContinueKeeps

LEMMA NavigateStep == ASSUME Inv, Navigate PROVE Inv'
<1>1. /\ await = "idle" /\ await' = "clear" /\ todo' = Items(elements) /\ elements' = <<>>
      /\ answer' = "none" /\ actions' = actions + 1
      /\ UNCHANGED <<max, shown, processed, visible, generation, live, disposed, cut>>
  BY DEF Navigate, work
<1>2. Items(elements') = {} /\ elements' \in Seq(Nat \X Nat)
  BY <1>1 DEF Items
<1>3. todo = {} /\ Ahead = {} /\ Ahead' = {}
  BY <1>1 DEF Inv, ApartInv, Ahead
<1>4. TypeOK'
  <2>1. Items(elements) \subseteq Nat \X Nat
    BY DEF Inv, TypeOK, Items
  <2> QED
    BY <1>1, <1>2, <2>1 DEF Inv, TypeOK, Awaits
<1>5. ScanInv' /\ LiveInv' /\ ApartInv' /\ AnswerIsRight'
  BY <1>1, <1>2, <1>3 DEF Inv, ScanInv, LiveInv, ApartInv, AnswerIsRight
<1>6. AgeInv'
  <2>1. actions \in Nat /\ disposed \union Items(elements) \subseteq Pairs
    BY DEF Inv, TypeOK, Items, Pairs
  <2>2. \A h \in Pairs : h[1] <= actions => h[1] <= actions + 1
    BY <2>1 DEF Pairs
  <2>3. \A h \in disposed \union Items(elements) : h[1] <= actions + 1
    BY <2>1, <2>2 DEF Inv, AgeInv
  <2> QED
    BY <1>1, <1>2, <2>3 DEF AgeInv
<1> QED
  BY <1>4, <1>5, <1>6 DEF Inv

LEMMA DisposedStep == ASSUME Inv, Disposed PROVE Inv'
<1>1. PICK h \in todo :
        /\ Dispose(h)
        /\ \/ todo # {h} /\ todo' = todo \ {h} /\ UNCHANGED <<await, registry>>
           \/ todo = {h} /\ await = "trim" /\ Conclude(visible)
           \/ todo = {h} /\ await = "old" /\ Register(visible)
           \/ todo = {h} /\ await = "clear" /\ await' = "idle" /\ todo' = {} /\ UNCHANGED registry
  BY DEF Disposed
<1>2. /\ await \in {"trim", "old", "clear"} /\ live' = live \ {h} /\ disposed' = disposed \union {h}
      /\ UNCHANGED <<actions, max, shown, processed, visible, cut>>
  BY <1>1 DEF Disposed, Dispose, work
<1>3. /\ h \in Pairs /\ live' \in SUBSET Pairs /\ disposed' \in SUBSET Pairs
      /\ shown \in Seq(BOOLEAN) /\ visible \in Seq(Nat) /\ processed \in Nat
  BY <1>2 DEF Inv, TypeOK, Pairs
<1>4. \A g \in disposed' \union Items(elements) : g[1] <= actions
  BY <1>2 DEF Inv, AgeInv
<1>5. await \in {"trim", "old"} =>
        /\ Enough(shown, visible, processed) /\ Ahead = Handles(KeptPlaces(visible))
  BY DEF Inv, ScanInv, Ahead
<1>6. CASE todo # {h} /\ todo' = todo \ {h} /\ UNCHANGED <<await, registry>>
  <2>1. TypeOK'
    BY <1>2, <1>3, <1>6 DEF Inv, TypeOK, registry, Pairs
  <2>2. Ahead' = Ahead
    BY <1>2, <1>6 DEF Ahead, Handles, KeptPlaces, Retained
  <2>3. ScanInv'
    BY <1>2, <1>6 DEF Inv, ScanInv, Enough, registry
  <2>4. LiveInv' /\ ApartInv' /\ AgeInv' /\ AnswerIsRight'
    BY <1>2, <1>6, <2>2 DEF Inv, LiveInv, ApartInv, AgeInv, AnswerIsRight, registry
  <2> QED
    BY <2>1, <2>3, <2>4 DEF Inv
<1>7. CASE todo = {h} /\ await = "trim" /\ Conclude(visible)
  <2>1. /\ Ahead \intersect (disposed' \union Items(elements)) = {}
        /\ Items(elements) \intersect disposed' = {}
        /\ ~cut => live' \subseteq Items(elements) \union Ahead
    BY <1>2, <1>7 DEF Inv, ApartInv, LiveInv
  <2> QED
    BY <1>2, <1>3, <1>4, <1>5, <1>7, <2>1, ConcludeKeeps DEF Inv, ScanInv
<1>8. CASE todo = {h} /\ await = "old" /\ Register(visible)
  <2>1. Items(elements) = {}
    BY <1>8 DEF Inv, ApartInv, Items
  <2>2. /\ Ahead \intersect disposed' = {}
        /\ ~cut => live' \subseteq Ahead
    BY <1>2, <1>8, <2>1 DEF Inv, ApartInv, LiveInv
  <2> QED
    BY <1>2, <1>3, <1>4, <1>5, <1>8, <2>2, RegisterKeeps DEF Inv
<1>9. CASE /\ todo = {h} /\ await = "clear" /\ await' = "idle" /\ todo' = {}
           /\ UNCHANGED registry
  <2>1. /\ elements = <<>> /\ Items(elements) = {} /\ elements' = elements
        /\ answer' = answer /\ generation' = generation
    BY <1>9 DEF Inv, ApartInv, Items, registry
  <2>2. Ahead = {} /\ Ahead' = {}
    BY <1>9 DEF Ahead
  <2>3. TypeOK'
    BY <1>2, <1>3, <1>9, <2>1 DEF Inv, TypeOK, Awaits, Pairs
  <2>4. ScanInv' /\ LiveInv' /\ ApartInv' /\ AgeInv' /\ AnswerIsRight'
    BY <1>2, <1>9, <2>1, <2>2 DEF Inv, ScanInv, LiveInv, ApartInv, AgeInv, AnswerIsRight
  <2> QED
    BY <2>3, <2>4 DEF Inv
<1> QED
  BY <1>1, <1>6, <1>7, <1>8, <1>9

LEMMA CutStep == ASSUME Inv, Cut PROVE Inv'
<1>1. /\ await' = "idle" /\ todo' = {} /\ answer' = "failed" /\ cut' = TRUE
      /\ UNCHANGED <<actions, max, shown, processed, visible, elements, generation, live, disposed>>
  BY DEF Cut, work
<1>2. Ahead' = {}
  BY <1>1 DEF Ahead
<1>3. TypeOK'
  BY <1>1 DEF Inv, TypeOK, Awaits
<1>4. ScanInv' /\ LiveInv' /\ ApartInv' /\ AgeInv' /\ AnswerIsRight'
  BY <1>1, <1>2 DEF Inv, ScanInv, LiveInv, ApartInv, AgeInv, AnswerIsRight
<1> QED
  BY <1>3, <1>4 DEF Inv

LEMMA PageReplacedStep == ASSUME Inv, PageReplaced PROVE Inv'
<1>1. /\ live' = {} /\ cut' = FALSE
      /\ UNCHANGED <<await, actions, max, shown, processed, visible, todo, elements, answer,
                     generation, disposed>>
  BY DEF PageReplaced, work, registry
<1>2. Ahead' = Ahead
  BY <1>1 DEF Ahead, Handles, KeptPlaces, Retained
<1>3. TypeOK' /\ LiveInv'
  BY <1>1 DEF Inv, TypeOK, LiveInv
<1>4. ScanInv'
  BY <1>1 DEF Inv, ScanInv, Enough
<1>5. ApartInv' /\ AgeInv' /\ AnswerIsRight'
  BY <1>1, <1>2 DEF Inv, ApartInv, AgeInv, AnswerIsRight, Registered
<1> QED
  BY <1>3, <1>4, <1>5 DEF Inv

LEMMA StutterStep == ASSUME Inv, UNCHANGED vars PROVE Inv'
<1>1. UNCHANGED <<await, actions, max, shown, processed, visible, todo, elements, answer,
                  generation, live, disposed, cut>>
  BY DEF vars, work, registry
<1>2. Ahead' = Ahead
  BY <1>1 DEF Ahead, Handles, KeptPlaces, Retained
<1>3. TypeOK' /\ LiveInv'
  BY <1>1, <1>2 DEF Inv, TypeOK, LiveInv
<1>4. ScanInv'
  BY <1>1 DEF Inv, ScanInv, Enough
<1>5. ApartInv' /\ AgeInv' /\ AnswerIsRight'
  BY <1>1, <1>2 DEF Inv, ApartInv, AgeInv, AnswerIsRight, Registered
<1> QED
  BY <1>3, <1>4, <1>5 DEF Inv

LEMMA Invariance == Spec => []Inv
<1>1. Inv /\ [Next]_vars => Inv'
  BY InspectStep, QueriedStep, LookedStep, HiddenStep, EvaluatedStep, NavigateStep,
     DisposedStep, CutStep, PageReplacedStep, StutterStep DEF Next
<1> QED
  BY <1>1, InitInv, PTL DEF Spec

(* The types, and the scan's stop at one visible element too many.         *)
THEOREM TypeCorrect == Spec => []TypeOK
  BY Invariance, PTL DEF Inv

(* What an inspection registers are the first visible elements, and        *)
(* `truncated` tells whether there are more, for any page and any size.    *)
THEOREM RightAnswer == Spec => []AnswerIsRight
  BY Invariance, PTL DEF Inv

(* The page has no handles but the registered ones, unless an operation    *)
(* was cut: trimming, hiding and clearing account for every handle.        *)
THEOREM NoHandleLost == Spec => []NothingIsLost
<1>1. Inv => NothingIsLost
  BY DEF Inv, LiveInv, ApartInv, Ahead, NothingIsLost
<1> QED
  BY <1>1, Invariance, PTL

(* No reference leads to a handle that was disposed of, whatever was cut.  *)
THEOREM NoHandleTwice == Spec => []DisposedOnce
<1>1. Inv => DisposedOnce
  BY DEF Inv, ApartInv, DisposedOnce
<1> QED
  BY <1>1, Invariance, PTL
-----------------------------------------------------------------------------
(* The contract. Nothing is seen of an inspection until it registers or    *)
(* forgets.                                                                *)
ContractStep == Contract!ContractNext \/ UNCHANGED Contract!contractVars

LEMMA RegisterContract ==
    ASSUME Inv, Busy = "inspect", NEW v \in Seq(Nat), Register(v), UNCHANGED actions
    PROVE  Contract!Observe
<1>1. Busy' = "none" /\ generation' = generation + 1
  BY DEF Register, Busy
<1>2. Retained(v) \in 0..MaxElements
  BY BoundsAssumption DEF Inv, TypeOK, Retained
<1>3. DOMAIN elements' = 1..Retained(v) /\ Len(elements') = Retained(v)
  BY <1>2 DEF Register
<1>4. {generation'} \X (1..Len(elements')) \in SUBSET ({generation'} \X (1..MaxElements))
  <2>1. 1..Retained(v) \subseteq 1..MaxElements
    BY <1>2, BoundsAssumption
  <2> QED
    BY <1>3, <2>1
<1> QED
  BY <1>1, <1>4 DEF Contract!Observe

LEMMA ConcludeContract ==
    ASSUME Inv, Busy = "inspect", NEW v \in Seq(Nat), Conclude(v), UNCHANGED actions
    PROVE  ContractStep
<1>1. CASE Register(v)
  BY <1>1, RegisterContract DEF ContractStep, Contract!ContractNext
<1>2. CASE /\ elements' = <<>> /\ await' = "old" /\ UNCHANGED generation
  <2>1. ({generation} \X (1..Len(elements)))' = {}
    BY <1>2
  <2>2. Contract!Forget
    BY <1>2, <2>1 DEF Contract!Forget, Busy
  <2> QED
    BY <2>2 DEF ContractStep, Contract!ContractNext
<1> QED
  BY <1>1, <1>2 DEF Conclude

LEMMA ContinueContract ==
    ASSUME Inv, Busy = "inspect", NEW v \in Seq(Nat), NEW n, NEW p, Continue(n, p, v),
           UNCHANGED actions
    PROVE  ContractStep
<1>1. CASE await' \in {"look", "trim"} /\ UNCHANGED registry
  BY <1>1 DEF ContractStep, Contract!contractVars, registry, Busy
<1>2. CASE Conclude(v)
  BY <1>2, ConcludeContract
<1> QED
  BY <1>1, <1>2 DEF Continue

(* The operation in progress ends, with what is registered left alone.     *)
LEMMA EndContract ==
    ASSUME await # "idle", await' = "idle", UNCHANGED <<actions, elements, generation>>
    PROVE  Contract!End
BY DEF Contract!End, Busy

LEMMA NextContract ==
    ASSUME Inv, [Next]_vars
    PROVE  ContractStep
<1>v. visible \in Seq(Nat) /\ actions \in Nat
  BY DEF Inv, TypeOK
<1>1. ASSUME NEW m \in 1..MaxElements, Inspect(m) PROVE ContractStep
  <2>1. Contract!Admit("inspect")
    BY <1>1 DEF Inspect, Contract!Admit, Busy
  <2> QED
    BY <2>1 DEF ContractStep, Contract!ContractNext, Contract!Operations
<1>2. CASE Queried
  BY <1>2, <1>v, ContinueContract DEF Queried, Busy
<1>3. CASE Looked
  BY <1>3 DEF Looked, work, registry, ContractStep, Contract!contractVars, Busy
<1>4. CASE Hidden
  BY <1>4, <1>v, ContinueContract DEF Hidden, Busy
<1>5. CASE Evaluated
  <2>1. Append(visible, processed) \in Seq(Nat)
    BY <1>v DEF Inv, TypeOK
  <2> QED
    BY <1>5, <2>1, ContinueContract DEF Evaluated, Busy
<1>6. CASE Navigate
  <2>1. ({generation} \X (1..Len(elements)))' = {}
    BY <1>6 DEF Navigate
  <2>2. Contract!Admit("navigate")
    BY <1>6, <2>1 DEF Navigate, Contract!Admit, Busy
  <2> QED
    BY <2>2 DEF ContractStep, Contract!ContractNext, Contract!Operations
<1>7. CASE Disposed
  <2>1. actions' = actions
    BY <1>7 DEF Disposed, work
  <2>2. CASE UNCHANGED <<await, registry>>
    BY <2>1, <2>2 DEF registry, ContractStep, Contract!contractVars, Busy
  <2>3. CASE await = "trim" /\ Conclude(visible)
    BY <1>v, <2>1, <2>3, ConcludeContract DEF Busy
  <2>4. CASE await = "old" /\ Register(visible)
    BY <1>v, <2>1, <2>4, RegisterContract DEF Busy, ContractStep, Contract!ContractNext
  <2>5. CASE await = "clear" /\ await' = "idle" /\ UNCHANGED registry
    BY <2>1, <2>5, EndContract DEF registry, ContractStep, Contract!ContractNext
  <2> QED
    BY <1>7, <2>2, <2>3, <2>4, <2>5 DEF Disposed
<1>8. CASE Cut
  BY <1>8, EndContract DEF Cut, work, ContractStep, Contract!ContractNext
<1>9. CASE PageReplaced \/ UNCHANGED vars
  BY <1>9 DEF PageReplaced, vars, work, registry, ContractStep, Contract!contractVars, Busy
<1> QED
  BY <1>1, <1>2, <1>3, <1>4, <1>5, <1>6, <1>7, <1>8, <1>9 DEF Next

(* Call by call and cut anywhere, the inspections of an open session are   *)
(* the contract's: each step is one of its steps or none.                  *)
THEOREM ImplementsInspection == Spec => ScanKeepsContract
<1>1. Inv /\ [Next]_vars => [Contract!ContractNext]_(Contract!contractVars)
  BY NextContract DEF ContractStep
<1> QED
  BY <1>1, Invariance, PTL DEF Spec, ScanKeepsContract
=============================================================================
