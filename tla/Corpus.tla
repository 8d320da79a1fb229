-------------------------------- MODULE Corpus --------------------------------
(***************************************************************************)
(* The benchmark's files as people edit them, load_corpus, which goes      *)
(* through them in order and compares each with what it has seen so far,   *)
(* and the manifest that validate_benchmark writes and checks. The hash of *)
(* a file is its content. Files do not change while they are loaded.       *)
(***************************************************************************)
EXTENDS Naturals, Sequences

CONSTANTS
    Paths,          \* <<split directory, file name>> of possible cases, in the loader's order
    Splits, Ids,    \* split names; case_ids, which are also the names of case files
    Families,       \* workflow families
    Objectives,     \* <<normalized objective, spelling>>
    Points,         \* checkpoint_ids
    Histories,      \* lists of operations
    Snapshots,      \* what else there is in a sidecar, the observation first of all
    Lists,          \* values of oracle.checkpoints: sequences of [id, after]
    None,           \* no such file, no such entry
    Malformed,      \* a file that is not JSON, or not as it has to be; no families.json
    Good,           \* a corpus to start from
    MaxEdits        \* changes to it (bound)

Places == Splits \X Ids
Case == [id : Ids, split : Splits, objective : Objectives, checkpoints : Lists]
Context == [case : Ids, objective : Objectives, history : Histories, snapshot : Snapshots]
Meanings == {o[1] : o \in Objectives}

ASSUME PathsAssumption ==
    /\ Paths \in Seq(Places) /\ {Paths[k] : k \in 1..Len(Paths)} = Places
    /\ \A k, l \in 1..Len(Paths) : Paths[k] = Paths[l] => k = l
ASSUME NoneAssumption ==
    /\ {None, Malformed} \intersect
         (Case \union Context \union Families \union Splits \union Ids) = {}
    /\ None # Malformed
ASSUME ListsAssumption ==
    /\ Objectives \subseteq Meanings \X Nat
    /\ \A l \in Lists : l \in Seq([id : Points, after : Histories])
ASSUME GoodAssumption ==
    /\ Good.cases \in [Places -> Case \union {Malformed, None}]
    /\ Good.contexts \in [Places \X Points -> Context \union {Malformed, None}]
    /\ Good.families \in [Ids -> Families \union {None}] /\ MaxEdits \in Nat

VARIABLES
    cases,      \* the case file at each place, or None
    contexts,   \* the sidecar of each place and checkpoint, or None
    families,   \* families.json: the family of each case, or None; or Malformed
    stray,      \* there is a JSON file with another name
    edits,      \* number of changes
    phase,      \* of the loader, or of the check of the manifest after it
    next,       \* how far the loader is in Paths
    seen,       \* seen_ids
    hashes,     \* seen_hashes
    splitOf,    \* family_splits
    caseOf,     \* objectives
    loaded,     \* places of the cases loaded
    manifest,   \* manifest.json, or None
    signed      \* history: the files that the manifest was written for

files == <<cases, contexts, families, stray>>
memory == <<next, seen, hashes, splitOf, caseOf, loaded>>
corpusVars == <<files, edits, phase, memory, manifest, signed>>

NoSplit == [f \in Families |-> None]
NoCase == [m \in Meanings |-> None]

CorpusInit ==
    /\ cases = Good.cases /\ contexts = Good.contexts /\ families = Good.families
    /\ stray = FALSE /\ edits = 0 /\ phase = "edited" /\ manifest = None /\ signed = None
    /\ next = 1 /\ seen = {} /\ hashes = {} /\ loaded = {}
    /\ splitOf = NoSplit /\ caseOf = NoCase

-----------------------------------------------------------------------------
(* The files are edited between two runs of the loader.                    *)
Edit ==
    /\ phase # "loading" /\ edits < MaxEdits /\ edits' = edits + 1 /\ phase' = "edited"
    /\ \/ /\ \E p \in Places, c \in Case \union {Malformed, None} : cases' = [cases EXCEPT ![p] = c]
          /\ UNCHANGED <<contexts, families, stray>>
       \/ /\ \E p \in Places \X Points, c \in Context \union {Malformed, None} :
               contexts' = [contexts EXCEPT ![p] = c]
          /\ UNCHANGED <<cases, families, stray>>
       \/ /\ \/ /\ families # Malformed
                /\ \E i \in Ids, f \in Families \union {None} :
                     families' = [families EXCEPT ![i] = f]
             \/ families' \in {Malformed, Good.families}
          /\ UNCHANGED <<cases, contexts, stray>>
       \/ stray' = ~stray /\ UNCHANGED <<cases, contexts, families>>
    /\ UNCHANGED <<memory, manifest, signed>>

-----------------------------------------------------------------------------
(* load_corpus.                                                            *)

PointsOf(c) == {c.checkpoints[k].id : k \in 1..Len(c.checkpoints)}

(* The entry of the dict made of the checkpoints: of several with the same *)
(* id, the last one.                                                       *)
LastEntry(c, i) ==
    LET Of == {k \in 1..Len(c.checkpoints) : c.checkpoints[k].id = i} IN
    c.checkpoints[CHOOSE k \in Of : \A l \in Of : l <= k]

(* The sidecar of checkpoint i of the case at p is there and belongs to it.*)
Agrees(p, i) ==
    LET c == cases[p] x == contexts[<<p, i>>] IN
    /\ x \notin {None, Malformed}
    /\ x.case = c.id /\ x.objective = c.objective /\ x.history = LastEntry(c, i).after

(* The checks of the loop's body.                                          *)
Passes(p) ==
    LET c == cases[p] IN
    /\ families[p[2]] # None /\ c # Malformed
    /\ c.id = p[2] /\ c.split = p[1]
    /\ c.id \notin seen /\ c \notin hashes
    /\ splitOf[families[c.id]] \in {None, p[1]}
    /\ caseOf[c.objective[1]] \in {None, c.id}
    /\ \A i \in PointsOf(c) : Agrees(p, i)

(* families.json is read before any case, and refused as a whole.          *)
Load ==
    /\ phase # "loading" /\ phase' = IF families = Malformed THEN "rejected" ELSE "loading"
    /\ next' = 1 /\ seen' = {} /\ hashes' = {} /\ loaded' = {}
    /\ splitOf' = NoSplit /\ caseOf' = NoCase
    /\ UNCHANGED <<files, edits, manifest, signed>>

(* Mutant of Remember: the objective is not remembered.                    *)
RememberNoObjective(p) ==
    LET c == cases[p] IN
    /\ loaded' = loaded \union {p} /\ seen' = seen \union {c.id} /\ hashes' = hashes \union {c}
    /\ splitOf' = [splitOf EXCEPT ![families[c.id]] = p[1]] /\ UNCHANGED caseOf

(* Mutant of Remember: the two dictionaries get each other's value.        *)
RememberSwapped(p) ==
    LET c == cases[p] IN
    /\ loaded' = loaded \union {p} /\ seen' = seen \union {c.id} /\ hashes' = hashes \union {c}
    /\ splitOf' = [splitOf EXCEPT ![families[c.id]] = c.id]
    /\ caseOf' = [caseOf EXCEPT ![c.objective[1]] = p[1]]

Remember(p) ==
    LET c == cases[p] IN
    /\ loaded' = loaded \union {p} /\ seen' = seen \union {c.id} /\ hashes' = hashes \union {c}
    /\ splitOf' = [splitOf EXCEPT ![families[c.id]] = p[1]]
    /\ caseOf' = [caseOf EXCEPT ![c.objective[1]] = c.id]

LoadCase ==
    /\ phase = "loading" /\ next <= Len(Paths)
    /\ LET p == Paths[next] IN
       \/ /\ cases[p] = None
          /\ next' = next + 1 /\ UNCHANGED <<phase, seen, hashes, splitOf, caseOf, loaded>>
       \/ /\ cases[p] # None /\ Passes(p)
          /\ next' = next + 1 /\ Remember(p) /\ UNCHANGED phase
       \/ cases[p] # None /\ ~Passes(p) /\ phase' = "rejected" /\ UNCHANGED memory
    /\ UNCHANGED <<files, edits, manifest, signed>>

(* After the loop: no family without its case, no file that is not known.  *)
NothingElse ==
    /\ {i \in Ids : families[i] # None} = seen /\ ~stray
    /\ \A p \in Places, i \in Points :
         contexts[<<p, i>>] # None => p \in loaded /\ i \in PointsOf(cases[p])

Loaded ==
    /\ phase = "loading" /\ next > Len(Paths)
    /\ phase' = IF NothingElse THEN "accepted" ELSE "rejected"
    /\ UNCHANGED <<files, edits, memory, manifest, signed>>

-----------------------------------------------------------------------------
(* validate_benchmark.                                                     *)

(* Mutant of Manifest: the sidecars are left out.                          *)
ManifestOfCases ==
    {[path |-> p, family |-> families[p[2]], content |-> cases[p], sidecars |-> {}] : p \in loaded}

(* build_manifest                                                          *)
Manifest ==
    {[path |-> p, family |-> families[p[2]], content |-> cases[p],
      sidecars |-> {<<i, contexts[<<p, i>>]>> : i \in PointsOf(cases[p])}] : p \in loaded}

WriteManifest ==
    /\ phase = "accepted" /\ manifest' = Manifest /\ signed' = files
    /\ UNCHANGED <<files, edits, phase, memory>>

CheckManifest ==
    /\ phase = "accepted"
    /\ phase' = IF manifest # None /\ manifest = Manifest THEN "current" ELSE "stale"
    /\ UNCHANGED <<files, edits, memory, manifest, signed>>

CorpusNext == Edit \/ Load \/ LoadCase \/ Loaded \/ WriteManifest \/ CheckManifest

CorpusSpec == CorpusInit /\ [][CorpusNext]_corpusVars

-----------------------------------------------------------------------------
CorpusTypeOK ==
    /\ cases \in [Places -> Case \union {Malformed, None}]
    /\ contexts \in [Places \X Points -> Context \union {Malformed, None}]
    /\ families \in [Ids -> Families \union {None}] \union {Malformed}
    /\ stray \in BOOLEAN /\ edits \in 0..MaxEdits
    /\ phase \in {"edited", "loading", "accepted", "rejected", "current", "stale"}
    /\ next \in 1..(Len(Paths) + 1) /\ seen \subseteq Ids /\ hashes \subseteq Case
    /\ splitOf \in [Families -> Splits \union {None}] /\ caseOf \in [Meanings -> Ids \union {None}]
    /\ loaded \subseteq Places

Present == {p \in Places : cases[p] # None}

(* The sidecar named for the k-th checkpoint of the case at p is of this   *)
(* case, and has the operations that come before the checkpoint. Several   *)
(* checkpoints with one id share a sidecar, which goes by the last of them.*)
Illustrates(p, k) ==
    LET points == cases[p].checkpoints
        x == contexts[<<p, points[k].id>>]
    IN  /\ x \in Context /\ x.case = cases[p].id /\ x.objective = cases[p].objective
        /\ (\A l \in 1..Len(points) : l > k => points[l].id # points[k].id) =>
               x.history = points[k].after

(* What a corpus has to be, said of all its files at once.                 *)
WellFormed ==
    /\ families # Malformed /\ ~stray
    /\ \A p \in Present : cases[p] # Malformed /\ cases[p].id = p[2] /\ cases[p].split = p[1]
    /\ \A p, q \in Present : p # q =>
         /\ p[2] # q[2]
         /\ families[p[2]] = families[q[2]] => p[1] = q[1]
         /\ cases[p].objective[1] # cases[q].objective[1]
    /\ {i \in Ids : families[i] # None} = {p[2] : p \in Present}
    /\ \A p \in Present : \A k \in 1..Len(cases[p].checkpoints) : Illustrates(p, k)
    /\ \A p \in Places, i \in Points : contexts[<<p, i>>] # None =>
         p \in Present /\ \E k \in 1..Len(cases[p].checkpoints) : cases[p].checkpoints[k].id = i

(* The loader takes a corpus just when its cases, their sidecars and       *)
(* families.json are well-formed together, although it only ever compares  *)
(* a file with those before it. The manifest is not among the files it     *)
(* looks at: a corpus whose manifest is stale is loaded all the same,      *)
(* against the benchmark's design ("The benchmark loader rejects ...       *)
(* manifest drift"); that is left to validate_benchmark, see DriftIsNoticed*)
LoadsTheWellFormed ==
    /\ phase \in {"accepted", "current", "stale"} => WellFormed /\ loaded = Present
    /\ phase = "rejected" => ~WellFormed

(* validate_benchmark finds a manifest current just when it was written    *)
(* for the very same files: no change of a case, a sidecar, a family or a  *)
(* place goes by unnoticed, and none that was undone is complained of.     *)
DriftIsNoticed ==
    /\ phase = "current" => signed = files
    /\ phase = "stale" => manifest = None \/ signed # files
=============================================================================
