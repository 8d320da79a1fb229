--------------------------- MODULE EvaluationProofs ---------------------------
(* The invariants of Evaluation: the loader's, for any corpus and any      *)
(* edits, and the oracle's, for any alternatives and decisions.            *)
EXTENDS Evaluation, WellFoundedInduction, TLAPS

(* A set of positions has a smallest one and a largest one.                *)
LEMMA Smallest ==
    ASSUME NEW T, T \subseteq Nat, T # {}
    PROVE  \E k \in T : \A l \in T : k <= l
<1>0. IsWellFoundedOn(OpToRel(<, Nat), Nat)
  BY NatLessThanWellFounded
<1>1. PICK k \in T : \A l \in T : ~ (<<l, k>> \in OpToRel(<, Nat))
  BY <1>0, WFMin, Zenon
<1>2. OpToRel(<, Nat) = {ss \in Nat \X Nat : ss[1] < ss[2]}
  BY DEF OpToRel
<1>3. ASSUME NEW l \in T PROVE k <= l
  <2>1. k \in Nat /\ l \in Nat /\ <<l, k>> \in Nat \X Nat
    OBVIOUS
  <2>2. ~(l < k)
    BY <1>1, <1>2, <2>1
  <2> QED
    BY <2>1, <2>2
<1> QED
  BY <1>3

LEMMA Largest ==
    ASSUME NEW n \in Nat, NEW T, T \subseteq 1..n, T # {}
    PROVE  \E k \in T : \A l \in T : l <= k
<1> DEFINE rest == {n - k : k \in T}
<1>1. rest \subseteq Nat
  <2>1. \A k \in T : n - k \in Nat
    OBVIOUS
  <2> QED
    BY <2>1
<1>2. PICK k \in T : TRUE
  OBVIOUS
<1>3. n - k \in rest
  OBVIOUS
<1> HIDE DEF rest
<1>4. PICK r \in rest : \A s \in rest : r <= s
  BY <1>1, <1>3, Smallest
<1>5. PICK m \in T : r = n - m
  BY DEF rest
<1>6. \A l \in T : n - l \in rest /\ l \in Nat
  BY DEF rest
<1> QED
  BY <1>4, <1>5, <1>6

(* The places the loader has been to.                                      *)
Done == {Paths[k] : k \in 1..(next - 1)}

(* What the loader asks of a case alone, and of two together.              *)
Fits(p) ==
    /\ cases[p] \in Case /\ cases[p].id = p[2] /\ cases[p].split = p[1] /\ families[p[2]] # None
    /\ \A i \in PointsOf(cases[p]) : Agrees(p, i)

Apart(p, q) ==
    /\ p[2] # q[2]
    /\ families[p[2]] = families[q[2]] => p[1] = q[1]
    /\ cases[p].objective[1] # cases[q].objective[1]

(* The sets and dictionaries are those of the cases loaded so far.         *)
Memory ==
    /\ loaded = {p \in Done : cases[p] # None}
    /\ \A p \in loaded : Fits(p)
    /\ \A p, q \in loaded : p # q => Apart(p, q)
    /\ seen = {p[2] : p \in loaded} /\ hashes = {cases[p] : p \in loaded}
    /\ \A p \in loaded : splitOf[families[p[2]]] = p[1] /\ caseOf[cases[p].objective[1]] = p[2]
    /\ \A f \in Families :
         splitOf[f] # None => \E p \in loaded : families[p[2]] = f /\ splitOf[f] = p[1]
    /\ \A m \in Meanings :
         caseOf[m] # None => \E p \in loaded : cases[p].objective[1] = m /\ caseOf[m] = p[2]

Taken == {"accepted", "current", "stale"}

LoaderInv ==
    /\ phase \in Taken \union {"loading"} => Memory /\ families # Malformed
    /\ phase \in Taken => WellFormed /\ loaded = Present
    /\ phase = "rejected" => ~WellFormed

LEMMA CorpusInitInv == CorpusInit => CorpusTypeOK /\ LoaderInv
<1> SUFFICES ASSUME CorpusInit PROVE CorpusTypeOK /\ LoaderInv
  OBVIOUS
<1>1. Len(Paths) \in Nat
  BY PathsAssumption
<1>2. 0 \in 0..MaxEdits /\ 1 \in 1..(Len(Paths) + 1)
  BY <1>1, GoodAssumption
<1> QED
  BY <1>2, GoodAssumption DEF CorpusInit, CorpusTypeOK, LoaderInv, Taken, NoSplit, NoCase

-----------------------------------------------------------------------------
(* What depends on the files alone stays while they do.                    *)
LEMMA FilesKept ==
    ASSUME UNCHANGED files
    PROVE  /\ \A p, i : Agrees(p, i)' <=> Agrees(p, i)
           /\ \A p : Fits(p)' <=> Fits(p)
           /\ \A p, q : Apart(p, q)' <=> Apart(p, q)
           /\ Present' = Present /\ (WellFormed' <=> WellFormed)
<1>1. \A p, i : Agrees(p, i)' <=> Agrees(p, i)
  BY DEF files, Agrees
<1>0. \A p, k : Illustrates(p, k)' <=> Illustrates(p, k)
  BY DEF files, Illustrates
<1>2. Present' = Present
  BY DEF files, Present
<1>3. \A p : Fits(p)' <=> Fits(p)
  BY <1>1 DEF files, Fits
<1>4. \A p, q : Apart(p, q)' <=> Apart(p, q)
  BY DEF files, Apart
<1>5. WellFormed' <=> WellFormed
  BY <1>0, <1>2 DEF files, WellFormed
<1> QED
  BY <1>1, <1>2, <1>3, <1>4, <1>5

(* A case at a place that is present and well-formed is a case.            *)
LEMMA PresentCase ==
    ASSUME CorpusTypeOK, NEW p \in Places, cases[p] # None, cases[p] # Malformed
    PROVE  /\ cases[p] \in Case /\ cases[p].id \in Ids /\ cases[p].objective[1] \in Meanings
           /\ p[1] \in Splits /\ p[2] \in Ids
  BY DEF CorpusTypeOK, Case, Meanings, Places

(* That all checkpoints have a sidecar that agrees with their last entry,  *)
(* is what there is to ask of the sidecars, entry by entry.                *)
LEMMA SidecarsAgree ==
    ASSUME CorpusTypeOK, NEW p \in Places, cases[p] \in Case
    PROVE  (\A i \in PointsOf(cases[p]) : Agrees(p, i))
             <=> \A k \in 1..Len(cases[p].checkpoints) : Illustrates(p, k)
<1> DEFINE points == cases[p].checkpoints
           Of(i) == {k \in 1..Len(points) : points[k].id = i}
<1>1. /\ points \in Seq([id : Points, after : Histories]) /\ Len(points) \in Nat
      /\ \A k \in 1..Len(points) : points[k].id \in Points
  <2>1. points \in Lists
    BY DEF Case
  <2> HIDE DEF points
  <2>2. points \in Seq([id : Points, after : Histories])
    BY <2>1, ListsAssumption
  <2>3. Len(points) \in Nat
    BY <2>2
  <2>4. ASSUME NEW k \in 1..Len(points) PROVE points[k].id \in Points
    <3> DEFINE Entry == [id : Points, after : Histories]
    <3>1. points \in Seq(Entry)
      BY <2>2
    <3>2. points[k] \in Entry
      <4> HIDE DEF Entry
      <4> QED
        BY <2>3, <2>4, <3>1
    <3> QED
      BY <3>2
  <2> QED
    BY <2>2, <2>3, <2>4
<1>2. \A i \in Points : contexts[<<p, i>>] \in Context \union {Malformed, None}
  BY DEF CorpusTypeOK
<1>3. \A i \in Points :
        contexts[<<p, i>>] \notin {None, Malformed} <=> contexts[<<p, i>>] \in Context
  BY <1>2, NoneAssumption
<1>4. \A k \in 1..Len(points) : points[k].id \in PointsOf(cases[p]) /\ k \in Of(points[k].id)
  BY DEF PointsOf
<1>5. ASSUME NEW i PROVE LastEntry(cases[p], i)
                           = points[CHOOSE k \in Of(i) : \A l \in Of(i) : l <= k]
  BY DEF LastEntry
<1>6. ASSUME NEW k \in 1..Len(points),
             \A l \in 1..Len(points) : l > k => points[l].id # points[k].id
      PROVE  LastEntry(cases[p], points[k].id) = points[k]
  <2> DEFINE i == points[k].id
             m == CHOOSE j \in Of(i) : \A l \in Of(i) : l <= j
  <2>1. k \in Of(i) /\ \A l \in Of(i) : l <= k
    BY <1>1, <1>6
  <2>2. m \in Of(i) /\ \A l \in Of(i) : l <= m
    <3> HIDE DEF Of, i
    <3> QED
      BY <2>1
  <2>3. m \in Nat /\ k \in Nat
    BY <1>1, <2>2
  <2>4. m = k
    <3> HIDE DEF m, Of
    <3> QED
      BY <2>1, <2>2, <2>3
  <2> QED
    BY <1>5, <2>4
<1>7. ASSUME \A i \in PointsOf(cases[p]) : Agrees(p, i), NEW k \in 1..Len(points)
      PROVE  Illustrates(p, k)
  <2>1. Agrees(p, points[k].id) /\ points[k].id \in Points
    BY <1>1, <1>4, <1>7
  <2> QED
    BY <1>3, <1>6, <2>1 DEF Agrees, Illustrates
<1>8. ASSUME \A k \in 1..Len(points) : Illustrates(p, k), NEW i \in PointsOf(cases[p])
      PROVE  Agrees(p, i)
  <2>1. Of(i) \subseteq 1..Len(points) /\ Of(i) # {}
    BY <1>8 DEF PointsOf
  <2>2. PICK k \in Of(i) : \A l \in Of(i) : l <= k
    <3> HIDE DEF Of
    <3> QED
      BY <1>1, <2>1, Largest
  <2>3. k \in 1..Len(points) /\ points[k].id = i /\ k \in Nat
    BY <1>1, <2>2
  <2>4. \A l \in 1..Len(points) : l > k => points[l].id # points[k].id
    BY <1>1, <2>2, <2>3
  <2>5. Illustrates(p, k) /\ i \in Points /\ LastEntry(cases[p], i) = points[k]
    BY <1>1, <1>6, <1>8, <2>3, <2>4
  <2> QED
    BY <1>3, <2>3, <2>4, <2>5 DEF Agrees, Illustrates
<1> QED
  BY <1>7, <1>8

(* The case that comes next is not one that was loaded.                    *)
LEMMA NextIsNew ==
    ASSUME CorpusTypeOK, next <= Len(Paths)
    PROVE  /\ Paths[next] \in Places /\ Paths[next] \notin Done
           /\ {Paths[k] : k \in 1..next} = Done \union {Paths[next]}
           /\ Done \subseteq Places
<1>1. next \in 1..Len(Paths) /\ next \in Nat /\ Len(Paths) \in Nat
  BY PathsAssumption DEF CorpusTypeOK
<1>2. \A k \in 1..(next - 1) : k \in 1..Len(Paths) /\ k # next
  BY <1>1
<1>3. 1..next = 1..(next - 1) \union {next}
  BY <1>1
<1>4. \A k \in 1..Len(Paths) : Paths[k] \in Places
  BY PathsAssumption
<1>5. Paths[next] \in Places /\ Done \subseteq Places
  BY <1>1, <1>2, <1>4 DEF Done
<1>6. Paths[next] \notin Done
  BY <1>1, <1>2, PathsAssumption DEF Done
<1>7. {Paths[k] : k \in 1..next} = Done \union {Paths[next]}
  BY <1>3 DEF Done
<1> QED
  BY <1>5, <1>6, <1>7

(* In a well-formed corpus no case that comes next is refused.             *)
LEMMA RefusedIsIllFormed ==
    ASSUME CorpusTypeOK, Memory, next <= Len(Paths), cases[Paths[next]] # None,
           ~Passes(Paths[next])
    PROVE  ~WellFormed
<1> DEFINE p == Paths[next]
<1>1. p \in Places /\ p \notin Done /\ Done \subseteq Places
  BY NextIsNew
<1> HIDE DEF p
<1>2. cases[p] # None /\ ~Passes(p)
  BY DEF p
<1> SUFFICES ASSUME WellFormed PROVE FALSE
  OBVIOUS
<1>3. p \in Present /\ loaded \subseteq Present /\ p \notin loaded
  BY <1>1, <1>2 DEF Present, Memory
<1>0. cases[p] # Malformed
  BY <1>3 DEF WellFormed
<1>5. cases[p] \in Case /\ p[2] \in Ids /\ cases[p].objective[1] \in Meanings
  BY <1>0, <1>1, <1>2, PresentCase
<1>4. /\ cases[p] # Malformed /\ cases[p].id = p[2] /\ cases[p].split = p[1]
      /\ \A i \in PointsOf(cases[p]) : Agrees(p, i)
  BY <1>0, <1>1, <1>3, <1>5, SidecarsAgree DEF WellFormed
<1>6. families[p[2]] \in Families
  <2>1. p[2] \in {i \in Ids : families[i] # None} /\ families # Malformed
    BY <1>3 DEF WellFormed
  <2> QED
    BY <2>1 DEF CorpusTypeOK
<1>7. \A q \in loaded : Apart(p, q)
  BY <1>3 DEF WellFormed, Apart
<1>8. cases[p].id \notin seen
  BY <1>4, <1>7 DEF Memory, Apart
<1>9. cases[p] \notin hashes
  <2>1. \A q \in loaded : cases[q].id = q[2]
    BY DEF Memory, Fits
  <2> QED
    BY <1>4, <1>7, <2>1 DEF Memory, Apart
<1>10. splitOf[families[p[2]]] \in {None, p[1]}
  BY <1>6, <1>7 DEF Memory, Apart
<1>11. caseOf[cases[p].objective[1]] \in {None, p[2]}
  BY <1>5, <1>7 DEF Memory, Apart
<1>12. families[p[2]] # None
  BY <1>6, NoneAssumption
<1> QED
  BY <1>2, <1>4, <1>8, <1>9, <1>10, <1>11, <1>12 DEF Passes

(* A case that passes fits, and goes with all that were loaded.            *)
LEMMA PassedFits ==
    ASSUME CorpusTypeOK, Memory, families # Malformed, NEW p \in Places, cases[p] # None,
           Passes(p)
    PROVE  /\ Fits(p) /\ families[p[2]] \in Families
           /\ \A q \in loaded : Apart(p, q) /\ Apart(q, p)
<1>1. /\ cases[p] # Malformed /\ cases[p].id = p[2] /\ cases[p].split = p[1]
      /\ families[p[2]] # None /\ p[2] \notin seen
      /\ splitOf[families[p[2]]] \in {None, p[1]} /\ caseOf[cases[p].objective[1]] \in {None, p[2]}
      /\ \A i \in PointsOf(cases[p]) : Agrees(p, i)
  BY DEF Passes
<1>2. cases[p] \in Case /\ p[2] \in Ids
  BY <1>1, PresentCase
<1>3. Fits(p) /\ families[p[2]] \in Families
  BY <1>1, <1>2 DEF Fits, CorpusTypeOK
<1>4. ASSUME NEW q \in loaded
      PROVE  Apart(p, q) /\ Apart(q, p)
  <2>1. q[2] # p[2] /\ splitOf[families[q[2]]] = q[1] /\ caseOf[cases[q].objective[1]] = q[2]
    BY <1>1, <1>4 DEF Memory
  <2>2. cases[q].split = q[1] /\ cases[q].id = q[2] /\ cases[q] \in Case
    BY <1>4 DEF Memory, Fits
  <2>3. q[1] \in Splits /\ q[2] \in Ids
    BY <2>2 DEF Case
  <2>4. q[1] # None /\ q[2] # None
    BY <2>3, NoneAssumption
  <2> QED
    BY <1>1, <2>1, <2>4 DEF Apart
<1> QED
  BY <1>3, <1>4

LEMMA RememberStep ==
    ASSUME CorpusTypeOK, Memory, families # Malformed, next <= Len(Paths),
           cases[Paths[next]] # None, Passes(Paths[next]), Remember(Paths[next]),
           next' = next + 1, UNCHANGED files
    PROVE  Memory' /\ seen' \subseteq Ids /\ hashes' \subseteq Case /\ loaded' \subseteq Places
           /\ splitOf' \in [Families -> Splits \union {None}]
           /\ caseOf' \in [Meanings -> Ids \union {None}]
<1> DEFINE p == Paths[next]
<1>1. /\ p \in Places /\ p \notin Done /\ Done \subseteq Places
      /\ {Paths[k] : k \in 1..next} = Done \union {p}
  BY NextIsNew
<1>2. Done' = Done \union {p}
  <2>1. Done' = {Paths[k] : k \in 1..(next' - 1)} /\ next' - 1 = next
    BY DEF CorpusTypeOK, Done
  <2> QED
    BY <1>1, <2>1
<1>3. Remember(p) /\ Passes(p) /\ cases[p] # None
  OBVIOUS
<1> HIDE DEF p
<1>4. /\ Fits(p) /\ families[p[2]] \in Families
      /\ \A q \in loaded : Apart(p, q) /\ Apart(q, p)
  BY <1>1, <1>3, PassedFits
<1>5. cases[p].id = p[2] /\ cases[p] \in Case /\ cases[p].split = p[1]
  BY <1>4 DEF Fits
<1>6. p[1] \in Splits /\ p[2] \in Ids /\ cases[p].objective[1] \in Meanings
  BY <1>5 DEF Case, Meanings
<1>7. /\ loaded' = loaded \union {p} /\ seen' = seen \union {p[2]}
      /\ hashes' = hashes \union {cases[p]}
      /\ splitOf' = [splitOf EXCEPT ![families[p[2]]] = p[1]]
      /\ caseOf' = [caseOf EXCEPT ![cases[p].objective[1]] = p[2]]
  BY <1>3, <1>5 DEF Remember
<1>8. /\ seen' \subseteq Ids /\ hashes' \subseteq Case /\ loaded' \subseteq Places
      /\ splitOf' \in [Families -> Splits \union {None}]
      /\ caseOf' \in [Meanings -> Ids \union {None}]
  BY <1>1, <1>5, <1>6, <1>7 DEF CorpusTypeOK
<1>9. cases' = cases /\ families' = families
  BY DEF files
<1>10. loaded' = {q \in Done' : cases'[q] # None}
  BY <1>2, <1>3, <1>7, <1>9 DEF Memory
<1>11. \A q \in loaded' : Fits(q)'
  BY <1>4, <1>7, FilesKept DEF Memory
<1>12. \A q, r \in loaded' : q # r => Apart(q, r)'
  BY <1>4, <1>7, FilesKept DEF Memory
<1>13. seen' = {q[2] : q \in loaded'} /\ hashes' = {cases'[q] : q \in loaded'}
  BY <1>7, <1>9 DEF Memory
<1>14. ASSUME NEW q \in loaded'
       PROVE  splitOf'[families'[q[2]]] = q[1] /\ caseOf'[cases'[q].objective[1]] = q[2]
  <2>1. CASE q = p
    BY <1>4, <1>6, <1>7, <1>9, <2>1 DEF CorpusTypeOK
  <2>2. CASE q # p
    <3>1. q \in loaded /\ Apart(p, q) /\ Fits(q)
      BY <1>4, <1>7, <1>14, <2>2 DEF Memory
    <3>2. splitOf[families[q[2]]] = q[1] /\ caseOf[cases[q].objective[1]] = q[2]
      BY <3>1 DEF Memory
    <3>3. families[q[2]] \in Families /\ cases[q].objective[1] \in Meanings
      BY <3>1 DEF Fits, Case, Meanings, CorpusTypeOK
    <3> QED
      BY <1>4, <1>6, <1>7, <1>9, <3>1, <3>2, <3>3 DEF CorpusTypeOK, Apart
  <2> QED
    BY <2>1, <2>2
<1>15. ASSUME NEW f \in Families, splitOf'[f] # None
       PROVE  \E q \in loaded' : families'[q[2]] = f /\ splitOf'[f] = q[1]
  <2>1. CASE f = families[p[2]]
    BY <1>7, <1>9, <2>1 DEF CorpusTypeOK
  <2>2. CASE f # families[p[2]]
    BY <1>7, <1>9, <1>15, <2>2 DEF CorpusTypeOK, Memory
  <2> QED
    BY <2>1, <2>2
<1>16. ASSUME NEW m \in Meanings, caseOf'[m] # None
       PROVE  \E q \in loaded' : cases'[q].objective[1] = m /\ caseOf'[m] = q[2]
  <2>1. CASE m = cases[p].objective[1]
    BY <1>7, <1>9, <2>1 DEF CorpusTypeOK
  <2>2. CASE m # cases[p].objective[1]
    BY <1>7, <1>9, <1>16, <2>2 DEF CorpusTypeOK, Memory
  <2> QED
    BY <2>1, <2>2
<1>17. Memory'
  BY <1>10, <1>11, <1>12, <1>13, <1>14, <1>15, <1>16 DEF Memory
<1> QED
  BY <1>8, <1>17

(* Memory is about the files and the dictionaries only.                    *)
LEMMA MemoryKept ==
    ASSUME Memory, UNCHANGED <<files, seen, hashes, splitOf, caseOf, loaded>>, Done' = Done \/
           (\E p \in Places : Done' = Done \union {p} /\ cases[p] = None)
    PROVE  Memory'
<1>1. /\ seen' = seen /\ hashes' = hashes /\ splitOf' = splitOf /\ caseOf' = caseOf
      /\ loaded' = loaded /\ cases' = cases /\ families' = families /\ UNCHANGED files
  BY DEF files
<1>2. loaded' = {p \in Done' : cases'[p] # None}
  BY <1>1 DEF Memory
<1>3. (\A p \in loaded' : Fits(p)') /\ \A p, q \in loaded' : p # q => Apart(p, q)'
  BY <1>1, FilesKept DEF Memory
<1> QED
  BY <1>1, <1>2, <1>3 DEF Memory

LEMMA LoadCaseStep == ASSUME CorpusTypeOK, LoaderInv, LoadCase PROVE CorpusTypeOK' /\ LoaderInv'
<1> DEFINE p == Paths[next]
<1>1. /\ phase = "loading" /\ next <= Len(Paths) /\ Memory /\ families # Malformed
      /\ UNCHANGED <<cases, contexts, families, stray, edits, manifest, signed>> /\ UNCHANGED files
  BY DEF LoadCase, LoaderInv, files
<1>2. next + 1 \in 1..(Len(Paths) + 1)
  BY <1>1, PathsAssumption DEF CorpusTypeOK
<1>3. CASE /\ cases[p] = None /\ next' = next + 1
           /\ UNCHANGED <<phase, seen, hashes, splitOf, caseOf, loaded>>
  <2>1. CorpusTypeOK'
    BY <1>1, <1>2, <1>3 DEF CorpusTypeOK
  <2>2. Done' = Done \union {p} /\ p \in Places
    <3>1. Done' = {Paths[k] : k \in 1..(next' - 1)} /\ next' - 1 = next
      BY <1>3 DEF CorpusTypeOK, Done
    <3> QED
      BY <1>1, <3>1, NextIsNew
  <2>3. Memory'
    BY <1>1, <1>3, <2>2, MemoryKept
  <2> QED
    BY <1>1, <1>3, <2>1, <2>3 DEF LoaderInv, Taken
<1>4. CASE cases[p] # None /\ Passes(p) /\ next' = next + 1 /\ Remember(p) /\ UNCHANGED phase
  <2>1. /\ Memory' /\ seen' \subseteq Ids /\ hashes' \subseteq Case /\ loaded' \subseteq Places
        /\ splitOf' \in [Families -> Splits \union {None}]
        /\ caseOf' \in [Meanings -> Ids \union {None}]
    BY <1>1, <1>4, RememberStep
  <2>2. CorpusTypeOK'
    BY <1>1, <1>2, <1>4, <2>1 DEF CorpusTypeOK
  <2> QED
    BY <1>1, <1>4, <2>1, <2>2 DEF LoaderInv, Taken
<1>5. CASE cases[p] # None /\ ~Passes(p) /\ phase' = "rejected" /\ UNCHANGED memory
  <2>1. ~WellFormed
    BY <1>1, <1>5, RefusedIsIllFormed
  <2>2. CorpusTypeOK'
    BY <1>1, <1>5 DEF CorpusTypeOK, memory
  <2> QED
    BY <1>1, <1>5, <2>1, <2>2, FilesKept DEF LoaderInv, Taken
<1> QED
  BY <1>3, <1>4, <1>5 DEF LoadCase

LEMMA EditStep == ASSUME CorpusTypeOK, Edit PROVE CorpusTypeOK' /\ LoaderInv'
<1>1. /\ edits < MaxEdits /\ edits' = edits + 1 /\ phase' = "edited"
      /\ UNCHANGED <<next, seen, hashes, splitOf, caseOf, loaded, manifest, signed>>
  BY DEF Edit, memory
<1>2. edits' \in 0..MaxEdits
  BY <1>1, GoodAssumption DEF CorpusTypeOK
<1>3. /\ cases' \in [Places -> Case \union {Malformed, None}]
      /\ contexts' \in [Places \X Points -> Context \union {Malformed, None}]
      /\ families' \in [Ids -> Families \union {None}] \union {Malformed} /\ stray' \in BOOLEAN
  BY GoodAssumption DEF Edit, CorpusTypeOK
<1> QED
  BY <1>1, <1>2, <1>3 DEF CorpusTypeOK, LoaderInv, Taken

LEMMA LoadStep == ASSUME CorpusTypeOK, Load PROVE CorpusTypeOK' /\ LoaderInv'
<1>1. /\ phase' = IF families = Malformed THEN "rejected" ELSE "loading"
      /\ next' = 1 /\ seen' = {} /\ hashes' = {} /\ loaded' = {}
      /\ splitOf' = NoSplit /\ caseOf' = NoCase
      /\ UNCHANGED <<cases, contexts, families, stray, edits, manifest, signed>>
  BY DEF Load, files
<1>2. 1 \in 1..(Len(Paths) + 1)
  BY PathsAssumption
<1>3. CorpusTypeOK'
  BY <1>1, <1>2 DEF CorpusTypeOK, NoSplit, NoCase
<1>4. Done' = {}
  BY <1>1 DEF Done
<1>5. Memory'
  BY <1>1, <1>4 DEF Memory, NoSplit, NoCase
<1>6. families = Malformed => ~WellFormed'
  BY <1>1 DEF WellFormed
<1> QED
  BY <1>1, <1>3, <1>5, <1>6 DEF LoaderInv, Taken

(* At the end of the loop, nothing else is in the directory just when the  *)
(* corpus is well-formed.                                                  *)
LEMMA EndOfLoop ==
    ASSUME CorpusTypeOK, Memory, families # Malformed, next > Len(Paths)
    PROVE  loaded = Present /\ (NothingElse <=> WellFormed)
<1>1. Done = Places
  <2>1. next - 1 = Len(Paths)
    BY PathsAssumption DEF CorpusTypeOK
  <2> QED
    BY <2>1, PathsAssumption DEF Done
<1>2. loaded = Present
  BY <1>1 DEF Memory, Present
<1>3. /\ \A p \in Present : Fits(p)
      /\ \A p, q \in Present : p # q => Apart(p, q)
      /\ seen = {p[2] : p \in Present}
  BY <1>2 DEF Memory
<1>4. \A p \in Present : cases[p] # Malformed
  BY <1>3, NoneAssumption DEF Fits
<1>7. \A p \in Present : \A k \in 1..Len(cases[p].checkpoints) : Illustrates(p, k)
  BY <1>3, SidecarsAgree DEF Fits, Present
<1>8. \A p \in Places : \A i :
        i \in PointsOf(cases[p]) <=>
          \E k \in 1..Len(cases[p].checkpoints) : cases[p].checkpoints[k].id = i
  BY DEF PointsOf
<1>9. /\ \A p \in Present : cases[p] # Malformed /\ cases[p].id = p[2] /\ cases[p].split = p[1]
      /\ \A p, q \in Present : p # q =>
           /\ p[2] # q[2]
           /\ families[p[2]] = families[q[2]] => p[1] = q[1]
           /\ cases[p].objective[1] # cases[q].objective[1]
  BY <1>3, <1>4 DEF Fits, Apart
<1>5. ASSUME NothingElse PROVE WellFormed
  <2>1. families # Malformed /\ ~stray /\ {i \in Ids : families[i] # None} = {p[2] : p \in Present}
    BY <1>3, <1>5 DEF NothingElse
  <2>2. \A p \in Places, i \in Points : contexts[<<p, i>>] # None =>
          p \in Present /\ \E k \in 1..Len(cases[p].checkpoints) : cases[p].checkpoints[k].id = i
    BY <1>2, <1>5, <1>8 DEF NothingElse
  <2> QED
    BY <1>7, <1>9, <2>1, <2>2 DEF WellFormed
<1>6. WellFormed => NothingElse
  BY <1>2, <1>3, <1>8 DEF NothingElse, WellFormed
<1> QED
  BY <1>2, <1>5, <1>6

LEMMA LoadedStep == ASSUME CorpusTypeOK, LoaderInv, Loaded PROVE CorpusTypeOK' /\ LoaderInv'
<1>1. /\ phase = "loading" /\ next > Len(Paths) /\ Memory /\ families # Malformed
      /\ phase' = IF NothingElse THEN "accepted" ELSE "rejected"
      /\ UNCHANGED <<edits, next, seen, hashes, splitOf, caseOf, loaded, manifest, signed>>
      /\ UNCHANGED <<cases, contexts, families, stray>> /\ UNCHANGED files
  BY DEF Loaded, LoaderInv, files, memory
<1>2. loaded = Present /\ (NothingElse <=> WellFormed)
  BY <1>1, EndOfLoop
<1>3. CorpusTypeOK'
  BY <1>1 DEF CorpusTypeOK
<1>4. Memory' /\ Present' = Present /\ (WellFormed' <=> WellFormed)
  BY <1>1, MemoryKept, FilesKept DEF Done
<1> QED
  BY <1>1, <1>2, <1>3, <1>4 DEF LoaderInv, Taken

LEMMA RestStep ==
    ASSUME CorpusTypeOK, LoaderInv, WriteManifest \/ CheckManifest \/ UNCHANGED corpusVars
    PROVE  CorpusTypeOK' /\ LoaderInv'
<1>1. /\ UNCHANGED <<edits, next, seen, hashes, splitOf, caseOf, loaded>>
      /\ UNCHANGED <<cases, contexts, families, stray>> /\ UNCHANGED files
      /\ phase' = phase \/ (phase \in Taken /\ phase' \in Taken)
  BY DEF WriteManifest, CheckManifest, corpusVars, files, memory, Taken
<1>2. CorpusTypeOK'
  BY <1>1 DEF CorpusTypeOK, Taken
<1>3. /\ Memory => Memory'
      /\ Present' = Present /\ (WellFormed' <=> WellFormed)
  BY <1>1, MemoryKept, FilesKept DEF Done
<1> QED
  BY <1>1, <1>2, <1>3 DEF LoaderInv, Taken

LEMMA CorpusStep ==
    ASSUME CorpusTypeOK, LoaderInv, CorpusNext \/ UNCHANGED corpusVars
    PROVE  CorpusTypeOK' /\ LoaderInv'
  BY EditStep, LoadStep, LoadCaseStep, LoadedStep, RestStep DEF CorpusNext

(* Of the steps of an evaluation, only the loader's touch the files.       *)
LEMMA NextIsCorpusNext == [Next]_vars => CorpusNext \/ UNCHANGED corpusVars
  BY DEF Next, Decide, Terminate, Continue, vars

(* The variables of the loader always have values of their types.          *)
THEOREM TypeCorrect == Spec => []CorpusTypeOK
<1>1. Init => CorpusTypeOK /\ LoaderInv
  BY CorpusInitInv DEF Init
<1>2. CorpusTypeOK /\ LoaderInv /\ [Next]_vars => CorpusTypeOK' /\ LoaderInv'
  BY NextIsCorpusNext, CorpusStep
<1> QED
  BY <1>1, <1>2, PTL DEF Spec

THEOREM LoaderCorrect == Spec => []LoaderInv
<1>1. Init => CorpusTypeOK /\ LoaderInv
  BY CorpusInitInv DEF Init
<1>2. CorpusTypeOK /\ LoaderInv /\ [Next]_vars => CorpusTypeOK' /\ LoaderInv'
  BY NextIsCorpusNext, CorpusStep
<1> QED
  BY <1>1, <1>2, PTL DEF Spec

(* load_corpus takes a corpus just when its cases, sidecars and            *)
(* families.json are well-formed together, whatever the manifest says: its *)
(* incremental checks are as strong as the definition that looks at all    *)
(* these files at once.                                                    *)
THEOREM RightCorpora == Spec => []LoadsTheWellFormed
<1>1. LoaderInv => LoadsTheWellFormed
  BY DEF LoaderInv, LoadsTheWellFormed, Taken
<1> QED
  BY <1>1, LoaderCorrect, PTL

-----------------------------------------------------------------------------
(* The manifest of given files, and what a well-formed corpus says of them.*)
ManifestOf(ca, co, fa) ==
    {[path |-> p, family |-> fa[p[2]], content |-> ca[p],
      sidecars |-> {<<i, co[<<p, i>>]>> : i \in PointsOf(ca[p])}] :
        p \in {q \in Places : ca[q] # None}}

Clean(ca, co, fa) ==
    /\ ca \in [Places -> Case \union {Malformed, None}]
    /\ co \in [Places \X Points -> Context \union {Malformed, None}]
    /\ fa \in [Ids -> Families \union {None}]
    /\ {i \in Ids : fa[i] # None} = {p[2] : p \in {q \in Places : ca[q] # None}}
    /\ \A p \in Places, i \in Points : co[<<p, i>>] # None => ca[p] # None /\ i \in PointsOf(ca[p])

(* A manifest has all there is to know of the case at a place.             *)
LEMMA SamePlace ==
    ASSUME NEW ca, NEW co, NEW fa, NEW cb, NEW cp, NEW fb,
           ManifestOf(ca, co, fa) = ManifestOf(cb, cp, fb),
           NEW p \in Places, ca[p] # None
    PROVE  /\ cb[p] = ca[p] /\ fb[p[2]] = fa[p[2]]
           /\ \A i \in PointsOf(ca[p]) : cp[<<p, i>>] = co[<<p, i>>]
<1> DEFINE r == [path |-> p, family |-> fa[p[2]], content |-> ca[p],
                 sidecars |-> {<<i, co[<<p, i>>]>> : i \in PointsOf(ca[p])}]
<1>1. r \in ManifestOf(cb, cp, fb)
  BY DEF ManifestOf
<1>2. PICK q \in Places :
        r = [path |-> q, family |-> fb[q[2]], content |-> cb[q],
             sidecars |-> {<<i, cp[<<q, i>>]>> : i \in PointsOf(cb[q])}]
  BY <1>1 DEF ManifestOf
<1>3. r.path = q /\ r.family = fb[q[2]] /\ r.content = cb[q]
  BY <1>2
<1>4. q = p /\ cb[p] = ca[p] /\ fb[p[2]] = fa[p[2]]
  BY <1>3
<1>5. {<<i, co[<<p, i>>]>> : i \in PointsOf(ca[p])} = {<<i, cp[<<p, i>>]>> : i \in PointsOf(ca[p])}
  BY <1>2, <1>4
<1>6. ASSUME NEW i \in PointsOf(ca[p]) PROVE cp[<<p, i>>] = co[<<p, i>>]
  <2>1. <<i, co[<<p, i>>]>> \in {<<j, cp[<<p, j>>]>> : j \in PointsOf(ca[p])}
    BY <1>5
  <2>2. PICK j \in PointsOf(ca[p]) : <<i, co[<<p, i>>]>> = <<j, cp[<<p, j>>]>>
    BY <2>1
  <2> QED
    BY <2>2
<1> QED
  BY <1>4, <1>6

(* Files of well-formed corpora that have the same manifest are the same.  *)
LEMMA ManifestDetermines ==
    ASSUME NEW ca, NEW co, NEW fa, NEW cb, NEW cp, NEW fb,
           Clean(ca, co, fa), Clean(cb, cp, fb), ManifestOf(ca, co, fa) = ManifestOf(cb, cp, fb)
    PROVE  ca = cb /\ co = cp /\ fa = fb
<1>1. ASSUME NEW p \in Places, ca[p] # None \/ cb[p] # None
      PROVE  /\ cb[p] = ca[p] /\ ca[p] # None /\ fb[p[2]] = fa[p[2]]
             /\ \A i \in PointsOf(ca[p]) : cp[<<p, i>>] = co[<<p, i>>]
  <2>1. CASE ca[p] # None
    BY <2>1, SamePlace
  <2>2. CASE cb[p] # None
    <3>1. /\ ca[p] = cb[p] /\ fa[p[2]] = fb[p[2]]
          /\ \A i \in PointsOf(cb[p]) : co[<<p, i>>] = cp[<<p, i>>]
      BY <2>2, SamePlace
    <3> QED
      BY <2>2, <3>1
  <2> QED
    BY <1>1, <2>1, <2>2
<1>2. ca = cb
  <2>1. \A p \in Places : ca[p] = cb[p]
    BY <1>1
  <2> QED
    BY <2>1 DEF Clean
<1>3. fa = fb
  <2>1. ASSUME NEW i \in Ids PROVE fa[i] = fb[i]
    <3>1. CASE fa[i] # None
      <4>1. PICK p \in Places : ca[p] # None /\ i = p[2]
        BY <3>1 DEF Clean
      <4> QED
        BY <1>1, <4>1
    <3>2. CASE fb[i] # None
      <4>1. PICK p \in Places : cb[p] # None /\ i = p[2]
        BY <3>2 DEF Clean
      <4> QED
        BY <1>1, <4>1
    <3> QED
      BY <3>1, <3>2
  <2> QED
    BY <2>1 DEF Clean
<1>4. co = cp
  <2>1. ASSUME NEW p \in Places, NEW i \in Points PROVE co[<<p, i>>] = cp[<<p, i>>]
    <3>1. CASE ca[p] # None /\ i \in PointsOf(ca[p])
      BY <1>1, <3>1
    <3>2. CASE ~(ca[p] # None /\ i \in PointsOf(ca[p]))
      BY <1>2, <3>2 DEF Clean
    <3> QED
      BY <3>1, <3>2
  <2>2. \A x \in Places \X Points : co[x] = cp[x]
    BY <2>1
  <2> QED
    BY <2>2 DEF Clean
<1> QED
  BY <1>2, <1>3, <1>4

(* The manifest is that of the files it was written for, which were clean. *)
ManifestInv ==
    /\ manifest # None =>
         \E ca, co, fa : /\ Clean(ca, co, fa) /\ signed = <<ca, co, fa, FALSE>>
                         /\ manifest = ManifestOf(ca, co, fa)
    /\ phase = "current" => signed = files
    /\ phase = "stale" => manifest = None \/ signed # files

LEMMA AcceptedIsClean ==
    ASSUME CorpusTypeOK, LoaderInv, phase = "accepted"
    PROVE  /\ Clean(cases, contexts, families) /\ files = <<cases, contexts, families, FALSE>>
           /\ Manifest = ManifestOf(cases, contexts, families)
<1>1. WellFormed /\ loaded = {q \in Places : cases[q] # None}
  BY DEF LoaderInv, Taken, Present
<1>2. Clean(cases, contexts, families)
  <2>1. families \in [Ids -> Families \union {None}]
    BY <1>1 DEF CorpusTypeOK, WellFormed
  <2>2. \A p \in Places, i \in Points :
          contexts[<<p, i>>] # None => cases[p] # None /\ i \in PointsOf(cases[p])
    BY <1>1 DEF WellFormed, Present, PointsOf
  <2> QED
    BY <1>1, <2>1, <2>2 DEF CorpusTypeOK, Clean, WellFormed, Present
<1>3. stray = FALSE
  BY <1>1 DEF WellFormed, CorpusTypeOK
<1>4. Manifest = ManifestOf(cases, contexts, families)
  BY <1>1 DEF Manifest, ManifestOf
<1> QED
  BY <1>2, <1>3, <1>4 DEF files

LEMMA ManifestStep ==
    ASSUME CorpusTypeOK, LoaderInv, ManifestInv, CorpusNext \/ UNCHANGED corpusVars
    PROVE  ManifestInv'
<1> DEFINE Signed(m, s) ==
      m # None => \E ca, co, fa : /\ Clean(ca, co, fa) /\ s = <<ca, co, fa, FALSE>>
                                  /\ m = ManifestOf(ca, co, fa)
<1>1. Signed(manifest, signed)
  BY DEF ManifestInv
<1>2. /\ Signed(manifest', signed')
      /\ phase' = "current" => signed' = files'
      /\ phase' = "stale" => manifest' = None \/ signed' # files'
      => ManifestInv'
  BY DEF ManifestInv
<1> HIDE DEF Signed
<1>3. CASE Edit \/ Load \/ LoadCase \/ Loaded
  <2>1. manifest' = manifest /\ signed' = signed /\ phase' \notin {"current", "stale"}
    BY <1>3 DEF Edit, Load, LoadCase, Loaded
  <2> QED
    BY <1>1, <1>2, <2>1
<1>4. CASE WriteManifest
  <2>1. phase = "accepted" /\ phase' = phase /\ manifest' = Manifest /\ signed' = files
    BY <1>4 DEF WriteManifest
  <2>2. Signed(Manifest, files)
    BY <2>1, AcceptedIsClean DEF Signed
  <2> QED
    BY <1>2, <2>1, <2>2
<1>5. CASE CheckManifest
  <2>1. /\ phase = "accepted" /\ manifest' = manifest /\ signed' = signed /\ files' = files
        /\ phase' = IF manifest # None /\ manifest = Manifest THEN "current" ELSE "stale"
    BY <1>5 DEF CheckManifest
  <2>2. ASSUME manifest # None PROVE manifest = Manifest <=> signed = files
    <3>1. PICK ca, co, fa : /\ Clean(ca, co, fa) /\ signed = <<ca, co, fa, FALSE>>
                            /\ manifest = ManifestOf(ca, co, fa)
      BY <2>2 DEF ManifestInv
    <3>2. /\ Clean(cases, contexts, families) /\ files = <<cases, contexts, families, FALSE>>
          /\ Manifest = ManifestOf(cases, contexts, families)
      BY <2>1, AcceptedIsClean
    <3>3. manifest = Manifest => ca = cases /\ co = contexts /\ fa = families
      BY <3>1, <3>2, ManifestDetermines
    <3>4. signed = files => ca = cases /\ co = contexts /\ fa = families
      BY <3>1, <3>2
    <3> QED
      BY <3>1, <3>2, <3>3, <3>4
  <2> QED
    BY <1>1, <1>2, <2>1, <2>2
<1>6. CASE UNCHANGED corpusVars
  <2>1. manifest' = manifest /\ signed' = signed /\ phase' = phase /\ files' = files
    BY <1>6 DEF corpusVars
  <2> QED
    BY <1>1, <1>2, <2>1 DEF ManifestInv
<1> QED
  BY <1>3, <1>4, <1>5, <1>6 DEF CorpusNext

(* validate_benchmark finds a manifest current just when it was written    *)
(* for the files that are there.                                           *)
THEOREM DriftCaught == Spec => []DriftIsNoticed
<1>1. Init => ManifestInv
  BY DEF Init, CorpusInit, ManifestInv
<1>2. CorpusTypeOK /\ LoaderInv /\ ManifestInv /\ [Next]_vars => ManifestInv'
  BY NextIsCorpusNext, ManifestStep
<1>3. ManifestInv => DriftIsNoticed
  BY DEF ManifestInv, DriftIsNoticed
<1> QED
  BY <1>1, <1>2, <1>3, TypeCorrect, LoaderCorrect, PTL DEF Spec

-----------------------------------------------------------------------------
(* What the oracle finds no fault with, an alternative accepts.            *)
LEMMA EarnedDecision ==
    ASSUME NEW A, NEW O, NEW d,
           ScoreDecision(A, O, d).input \/ ScoreDecision(A, O, d).reasons = {}
    PROVE  /\ d # Malformed
           /\ \E e \in A :
                /\ d.operation = e.operation
                /\ e.target # None =>
                     \E x \in O : /\ "element_ref" \in DOMAIN d.input
                                  /\ x.ref = d.input["element_ref"] /\ x.label = e.target
                /\ \A k \in DOMAIN e.input : k \in DOMAIN d.input /\ d.input[k] = e.input[k]
<1>1. d # Malformed
  BY DEF ScoreDecision, DecisionScore
<1>2. Matching(A, d) # {}
  BY <1>1 DEF ScoreDecision, DecisionScore
<1> DEFINE input == \E e \in Matching(A, d) : InputResult(e, O, d)
<1>3. input
  <2>1. ASSUME ~input PROVE FALSE
    <3> DEFINE target == LET results == {TargetResult(e, O, d) : e \in Matching(A, d)} IN
                         IF "correct" \in results THEN "correct"
                         ELSE IF "wrong" \in results THEN "wrong" ELSE "none"
               reasons == {r \in {"wrong_target", "wrong_input"} :
                             IF r = "wrong_target" THEN target = "wrong" ELSE ~input}
    <3>1. ScoreDecision(A, O, d) = DecisionScore(TRUE, TRUE, target, input, reasons)
      BY <1>1, <1>2 DEF ScoreDecision
    <3>2. "wrong_input" \in reasons
      BY <2>1
    <3> HIDE DEF target, reasons, input
    <3>3. ScoreDecision(A, O, d).input = input /\ ScoreDecision(A, O, d).reasons = reasons
      BY <3>1 DEF DecisionScore
    <3> QED
      BY <2>1, <3>2, <3>3
  <2> QED
    BY <2>1
<1>4. PICK e \in Matching(A, d) : TargetResult(e, O, d) # "wrong" /\ Contains(d.input, e.input)
  BY <1>3 DEF InputResult
<1>5. e \in A /\ d.operation = e.operation
  BY DEF Matching
<1>6. e.target # None => \E x \in O : /\ "element_ref" \in DOMAIN d.input
                                      /\ x.ref = d.input["element_ref"] /\ x.label = e.target
  BY <1>4 DEF TargetResult
<1> QED
  BY <1>1, <1>4, <1>5, <1>6 DEF Contains

(* The same for the end of a run.                                          *)
LEMMA EarnedTerminal ==
    ASSUME NEW t, NEW d, ScoreTerminal(t, d) = {}
    PROVE  d # Malformed /\ d.operation = t.operation
           /\ d.input[TerminalField(t.operation)] = t.value
  BY DEF ScoreTerminal

(* A case that was loaded lists the checkpoints of PointsOf, and one of    *)
(* its entries for each is the first.                                      *)
LEMMA FirstIsListed ==
    ASSUME NEW c, c \in Case, NEW i \in PointsOf(c)
    PROVE  /\ FirstListed(c, i) \in Listings(c, i)
           /\ \A l \in Listings(c, i) : FirstListed(c, i) <= l
           /\ Listings(c, i) \subseteq Nat
<1>1. Listings(c, i) \subseteq Nat /\ Listings(c, i) # {}
  BY ListsAssumption DEF Case, Listings, PointsOf
<1>2. \E k \in Listings(c, i) : \A l \in Listings(c, i) : k <= l
  <2> DEFINE T == Listings(c, i)
  <2>1. T \subseteq Nat /\ T # {}
    BY <1>1
  <2> HIDE DEF T
  <2>2. \E k \in T : \A l \in T : k <= l
    BY <2>1, Smallest
  <2> QED
    BY <2>2 DEF T
<1> QED
  BY <1>1, <1>2 DEF FirstListed

(* What is remembered of a decision at a checkpoint of a loaded case.      *)
Answered ==
    Asked("oracle") =>
        LET c == cases[asked.case] k == FirstListed(c, asked.checkpoint) IN
        /\ c \in Case /\ asked.checkpoint \in PointsOf(c)
        /\ asked.oracle \in [1..Len(c.checkpoints) -> Alternatives]
        /\ score = ScoreDecision(asked.oracle[k], asked.elements, asked.decision)

Ended ==
    Asked("expected") => score.reasons = ScoreTerminal(asked.expected, asked.decision)

(* The score that is there is that of what was asked.                      *)
LEMMA AnsweredStep ==
    ASSUME CorpusTypeOK, LoaderInv, Answered, Ended, [Next]_vars
    PROVE  Answered' /\ Ended'
<1>1. CASE asked' = None
  BY <1>1 DEF Answered, Ended, Asked
<1>2. CASE asked = None /\ UNCHANGED evaluation
  BY <1>2 DEF evaluation, Answered, Ended, Asked
<1>3. CASE UNCHANGED vars
  <2>1. asked' = asked /\ score' = score /\ cases' = cases
    BY <1>3 DEF vars, evaluation, corpusVars, files
  <2> QED
    BY <2>1 DEF Answered, Ended, Asked
<1>4. CASE Decide
  <2>1. /\ phase = "accepted" /\ UNCHANGED corpusVars
        /\ \A p \in loaded : cases[p] \in Case
    BY <1>4 DEF Decide, Ready, LoaderInv, Memory, Fits, Taken
  <2>2. cases' = cases
    BY <2>1 DEF corpusVars, files
  <2>3. PICK p \in loaded, i \in Points :
          \/ i \in PointsOf(cases[p]) /\ Scored(p, i)
          \/ asked' = [case |-> p, unknown |-> i]
    BY <1>4 DEF Decide
  <2>4. CASE asked' = [case |-> p, unknown |-> i]
    BY <2>4 DEF Answered, Ended, Asked
  <2>5. CASE i \in PointsOf(cases[p]) /\ Scored(p, i)
    <3>1. PICK oracle \in [1..Len(cases[p].checkpoints) -> Alternatives],
               o \in Observations, d \in Decisions \union {Malformed} :
            /\ asked' = [case |-> p, checkpoint |-> i, oracle |-> oracle,
                         elements |-> o, decision |-> d]
            /\ score' = ScoreDecision(oracle[FirstListed(cases[p], i)], o, d)
      BY <2>5 DEF Scored
    <3>2. /\ asked'.case = p /\ asked'.checkpoint = i /\ asked'.oracle = oracle
          /\ asked'.elements = o /\ asked'.decision = d
      BY <3>1
    <3>3. Answered'
      BY <2>1, <2>2, <2>5, <3>1, <3>2 DEF Answered, PointsOf, FirstListed, Listings
    <3>4. Ended'
      BY <3>1 DEF Ended, Asked
    <3> QED
      BY <3>3, <3>4
  <2> QED
    BY <2>3, <2>4, <2>5
<1>5. CASE Terminate
  <2>1. PICK p \in loaded, t \in Terminals, d \in Decisions \union {Malformed} :
          /\ asked' = [case |-> p, expected |-> t, decision |-> d]
          /\ score' = [reasons |-> ScoreTerminal(t, d)]
    BY <1>5 DEF Terminate
  <2>2. asked'.expected = t /\ asked'.decision = d /\ score'.reasons = ScoreTerminal(t, d)
    BY <2>1
  <2>3. ~Asked("oracle")'
    BY <2>1 DEF Asked
  <2> QED
    BY <2>2, <2>3 DEF Answered, Ended
<1> QED
  BY <1>1, <1>2, <1>3, <1>4, <1>5 DEF Next, Continue

(* The score that is there is that of what was asked, in every state.      *)
LEMMA ScoreIsOfTheAsked == Spec => [](Answered /\ Ended)
<1>1. Init => Answered /\ Ended
  BY DEF Init, Answered, Ended, Asked
<1>2. CorpusTypeOK /\ LoaderInv /\ Answered /\ Ended /\ [Next]_vars => (Answered /\ Ended)'
  BY AnsweredStep
<1> QED
  BY <1>1, <1>2, TypeCorrect, LoaderCorrect, PTL DEF Spec

(* No decision and no end is called correct that is not accepted as a      *)
(* whole by an alternative that the loaded case has for the very           *)
(* checkpoint, or by the end it expects.                                   *)
THEOREM NoUndeservedPraise == Spec => []PraiseIsEarned
<1>1. ASSUME Answered, Ended PROVE PraiseIsEarned
  <2>1. ASSUME Asked("oracle"), score.input \/ score.reasons = {}
        PROVE  \E k \in DOMAIN asked.oracle : Listed(k) /\ Accepted(k)
    <3> DEFINE c == cases[asked.case]
               k == FirstListed(c, asked.checkpoint)
    <3>1. /\ c \in Case /\ asked.checkpoint \in PointsOf(c)
          /\ asked.oracle \in [1..Len(c.checkpoints) -> Alternatives]
          /\ score = ScoreDecision(asked.oracle[k], asked.elements, asked.decision)
      BY <1>1, <2>1 DEF Answered
    <3>2. k \in Listings(c, asked.checkpoint)
      BY <3>1, FirstIsListed
    <3> HIDE DEF k
    <3>3. k \in DOMAIN asked.oracle /\ Listed(k)
      BY <3>1, <3>2 DEF Listings, Listed
    <3>4. \E e \in asked.oracle[k] : Accepts(e)
      BY <2>1, <3>1, EarnedDecision DEF Accepts, Hits
    <3> QED
      BY <3>3, <3>4 DEF Accepted
  <2>2. ASSUME Asked("expected"), score.reasons = {}
        PROVE  LET d == asked.decision t == asked.expected IN
               /\ d # Malformed /\ d.operation = t.operation
               /\ d.input[TerminalField(t.operation)] = t.value
    BY <1>1, <2>2, EarnedTerminal DEF Ended
  <2> QED
    BY <2>1, <2>2 DEF PraiseIsEarned
<1> QED
  BY <1>1, ScoreIsOfTheAsked, PTL

-----------------------------------------------------------------------------
(* What an alternative accepts, the oracle blames for a rival's target.    *)
HitIn(O, d, e) ==
    \E x \in O : /\ "element_ref" \in DOMAIN d.input
                 /\ x.ref = d.input["element_ref"] /\ x.label = e.target

LEMMA TargetResults ==
    ASSUME NEW O, NEW d, NEW e
    PROVE  /\ TargetResult(e, O, d) = "none" <=> e.target = None
           /\ TargetResult(e, O, d) = "correct" <=> e.target # None /\ HitIn(O, d, e)
           /\ TargetResult(e, O, d) = "wrong" <=> e.target # None /\ ~HitIn(O, d, e)
BY DEF TargetResult, HitIn

LEMMA AcceptedDecision ==
    ASSUME NEW A, NEW O, NEW d, d # Malformed,
           NEW e \in A, d.operation = e.operation, e.target # None => HitIn(O, d, e),
           \A k \in DOMAIN e.input : k \in DOMAIN d.input /\ d.input[k] = e.input[k]
    PROVE  /\ ScoreDecision(A, O, d).input
           /\ ScoreDecision(A, O, d).reasons \subseteq {"wrong_target"}
           /\ ScoreDecision(A, O, d).reasons # {} =>
                /\ e.target = None
                /\ \E f \in A : f.operation = d.operation /\ f.target # None /\ ~HitIn(O, d, f)
<1> DEFINE tried == Matching(A, d)
           results == {TargetResult(f, O, d) : f \in tried}
           target == IF "correct" \in results THEN "correct"
                     ELSE IF "wrong" \in results THEN "wrong" ELSE "none"
           input == \E f \in tried : InputResult(f, O, d)
           reasons == {r \in {"wrong_target", "wrong_input"} :
                         IF r = "wrong_target" THEN target = "wrong" ELSE ~input}
<1>1. e \in tried
  BY DEF Matching
<1>2. ScoreDecision(A, O, d) = DecisionScore(TRUE, TRUE, target, input, reasons)
  BY <1>1 DEF ScoreDecision
<1>3. TargetResult(e, O, d) # "wrong"
  BY TargetResults
<1>4. input
  BY <1>1, <1>3 DEF InputResult, Contains
<1>5. reasons \subseteq {"wrong_target"}
  BY <1>4
<1>6. ASSUME target = "wrong"
      PROVE  /\ e.target = None
             /\ \E f \in A : f.operation = d.operation /\ f.target # None /\ ~HitIn(O, d, f)
  <2>1. "correct" \notin results /\ "wrong" \in results
    BY <1>6
  <2>2. PICK f \in tried : TargetResult(f, O, d) = "wrong"
    BY <2>1
  <2>3. TargetResult(e, O, d) # "correct"
    BY <1>1, <2>1
  <2> QED BY <2>2, <2>3, TargetResults DEF Matching
<1>7. reasons # {} => target = "wrong"
  BY <1>4
<1> HIDE DEF target, reasons, input
<1>8. ScoreDecision(A, O, d).input = input /\ ScoreDecision(A, O, d).reasons = reasons
  BY <1>2 DEF DecisionScore
<1> QED BY <1>4, <1>5, <1>6, <1>7, <1>8

(* A decision that an alternative of the first entry for its checkpoint    *)
(* accepts as a whole is blamed at most for the target of another one: the *)
(* docs' promise that any acceptable entry is correct fails nowhere else,  *)
(* for any corpus and any decisions.                                       *)
THEOREM OnlyRivalsBlame == Spec => []BlameHasARival
<1>1. ASSUME Answered PROVE BlameHasARival
  <2>1. SUFFICES ASSUME Asked("oracle"), NEW k \in DOMAIN asked.oracle, Right(k)
                 PROVE  /\ score.input /\ score.reasons \subseteq {"wrong_target"}
                        /\ score.reasons # {} =>
                             /\ \A e \in asked.oracle[k] : Accepts(e) => e.target = None
                             /\ \E e \in asked.oracle[k] :
                                  /\ e.operation = asked.decision.operation
                                  /\ e.target # None /\ ~Hits(e)
    BY DEF BlameHasARival
  <2> DEFINE c == cases[asked.case]
             first == FirstListed(c, asked.checkpoint)
             A == asked.oracle[k]
             O == asked.elements
             d == asked.decision
  <2>2. /\ c \in Case /\ asked.checkpoint \in PointsOf(c)
        /\ score = ScoreDecision(asked.oracle[first], O, d)
    BY <1>1, <2>1 DEF Answered
  <2>3. k = first
    <3>1. /\ first \in Listings(c, asked.checkpoint) /\ k \in Listings(c, asked.checkpoint)
          /\ \A l \in Listings(c, asked.checkpoint) : first <= l
          /\ Listings(c, asked.checkpoint) \subseteq Nat
      BY <2>1, <2>2, FirstIsListed DEF Right, Listed
    <3>2. \A l \in 1..(k - 1) : l \notin Listings(c, asked.checkpoint)
      BY <2>1 DEF Right, Listed
    <3>3. \A l \in Listings(c, asked.checkpoint) : l >= 1
      BY <2>2, ListsAssumption DEF Listings, Case
    <3> HIDE DEF first
    <3> QED
      BY <3>1, <3>2, <3>3
  <2>4. score = ScoreDecision(A, O, d)
    BY <2>2, <2>3
  <2>5. \A e : Hits(e) <=> HitIn(O, d, e)
    BY DEF Hits, HitIn
  <2> HIDE DEF A, O, d
  <2>6. ASSUME NEW e \in A, Accepts(e)
        PROVE  /\ score.input /\ score.reasons \subseteq {"wrong_target"}
               /\ score.reasons # {} =>
                    /\ e.target = None
                    /\ \E f \in A : f.operation = d.operation /\ f.target # None /\ ~Hits(f)
    <3>1. /\ d # Malformed /\ d.operation = e.operation
          /\ e.target # None => HitIn(O, d, e)
          /\ \A f \in DOMAIN e.input : f \in DOMAIN d.input /\ d.input[f] = e.input[f]
      BY <2>5, <2>6 DEF Accepts, d
    <3> QED
      BY <2>4, <2>5, <3>1, AcceptedDecision
  <2>7. \E e \in A : Accepts(e)
    BY <2>1 DEF Right, Accepted, A
  <2> QED
    BY <2>6, <2>7 DEF A, d
<1> QED
  BY <1>1, ScoreIsOfTheAsked, PTL
=============================================================================
