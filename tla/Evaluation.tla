------------------------------ MODULE Evaluation ------------------------------
(***************************************************************************)
(* An evaluation on a corpus that was loaded: a model is asked for a       *)
(* decision at a checkpoint, which the oracle looks up in the case and     *)
(* scores against. What the loader does not look at, the acceptable        *)
(* decisions of an entry and the elements of the page, is chosen then.     *)
(***************************************************************************)
EXTENDS Corpus

INSTANCE Oracle

CONSTANTS
    Alternatives,   \* values of acceptable_next
    Observations,   \* sets of elements
    Decisions,      \* well-formed decisions
    Terminals       \* values of oracle.terminal

VARIABLES
    asked,  \* what the last decision was asked for
    score   \* its score

evaluation == <<asked, score>>
vars == <<corpusVars, evaluation>>

Init == CorpusInit /\ asked = None /\ score = None

Listings(c, i) == {k \in 1..Len(c.checkpoints) : c.checkpoints[k].id = i}

(* The entry that score_decision takes for checkpoint i: of several with   *)
(* this id the first one, where the loader takes the last.                 *)
FirstListed(c, i) == CHOOSE k \in Listings(c, i) : \A l \in Listings(c, i) : k <= l

(* An evaluator has a corpus that was loaded; the first one, since nothing *)
(* that a score depends on is edited here (bound).                         *)
Ready == phase = "accepted" /\ edits = 0 /\ loaded # {} /\ asked = None

(* oracle is the acceptable_next of each entry of the case.                *)
Scored(p, i) ==
    \E oracle \in [1..Len(cases[p].checkpoints) -> Alternatives],
       o \in Observations, d \in Decisions \union {Malformed} :
        /\ asked' = [case |-> p, checkpoint |-> i, oracle |-> oracle,
                     elements |-> o, decision |-> d]
        /\ score' = ScoreDecision(oracle[FirstListed(cases[p], i)], o, d)

(* score_decision at a checkpoint of a case, or at one it does not have.   *)
Decide ==
    /\ Ready
    /\ \E p \in loaded, i \in Points :
         \/ i \in PointsOf(cases[p]) /\ Scored(p, i)
         \/ /\ i \notin PointsOf(cases[p])
            /\ asked' = [case |-> p, unknown |-> i] /\ score' = "ValueError"
    /\ UNCHANGED corpusVars

(* score_terminal of the last decision of a run on a case.                 *)
Terminate ==
    /\ Ready
    /\ \E p \in loaded, t \in Terminals, d \in Decisions \union {Malformed} :
         /\ asked' = [case |-> p, expected |-> t, decision |-> d]
         /\ score' = [reasons |-> ScoreTerminal(t, d)]
    /\ UNCHANGED corpusVars

(* The score is passed on.                                                 *)
Continue == asked # None /\ asked' = None /\ score' = None /\ UNCHANGED corpusVars

Next ==
    \/ asked = None /\ CorpusNext /\ UNCHANGED evaluation
    \/ Decide \/ Terminate \/ Continue

Spec == Init /\ [][Next]_vars

-----------------------------------------------------------------------------
Asked(field) == asked # None /\ field \in DOMAIN asked

(* The decision works on an element of the observation that is e's target. *)
Hits(e) ==
    LET d == asked.decision IN
    \E x \in asked.elements :
        /\ "element_ref" \in DOMAIN d.input
        /\ x.ref = d.input["element_ref"] /\ x.label = e.target

(* The decision is one that alternative e accepts: its operation, on its   *)
(* target when it has one, with the input required.                        *)
Accepts(e) ==
    LET d == asked.decision IN
    /\ d # Malformed /\ d.operation = e.operation
    /\ e.target # None => Hits(e)
    /\ \A k \in DOMAIN e.input : k \in DOMAIN d.input /\ d.input[k] = e.input[k]

(* The k-th entry of the case lists the checkpoint that was asked for, and *)
(* one of its alternatives accepts the decision as a whole.                *)
Listed(k) == k \in Listings(cases[asked.case], asked.checkpoint)
Accepted(k) == \E e \in asked.oracle[k] : Accepts(e)

(* No decision is scored without a fault, or its input called correct,     *)
(* unless one alternative that the case lists for this very checkpoint     *)
(* accepts it as a whole: what is right for one alternative does not make  *)
(* up for what is wrong for another. No end is called correct but the      *)
(* outcome, or the reason, that is expected.                               *)
PraiseIsEarned ==
    /\ Asked("oracle") /\ (score.input \/ score.reasons = {}) =>
         \E k \in DOMAIN asked.oracle : Listed(k) /\ Accepted(k)
    /\ Asked("expected") /\ score.reasons = {} =>
         LET d == asked.decision t == asked.expected IN
         d # Malformed /\ d.operation = t.operation /\ d.input[TerminalField(t.operation)] = t.value

(* The first entry that lists the checkpoint accepts the decision.         *)
Right(k) == Listed(k) /\ Accepted(k) /\ \A l \in 1..(k - 1) : ~Listed(l)

(* What one acceptable alternative accepts as a whole is found at fault in *)
(* one case only, and for its target only: those that accept it name none, *)
(* and another alternative of its operation names one that it misses.      *)
BlameHasARival ==
    Asked("oracle") => \A k \in DOMAIN asked.oracle : Right(k) =>
        /\ score.input /\ score.reasons \subseteq {"wrong_target"}
        /\ score.reasons # {} =>
             /\ \A e \in asked.oracle[k] : Accepts(e) => e.target = None
             /\ \E e \in asked.oracle[k] :
                  e.operation = asked.decision.operation /\ e.target # None /\ ~Hits(e)

-----------------------------------------------------------------------------
(* A claim of the repository that the code does not keep.                  *)

(* Any acceptable entry is treated as correct: a decision that one of them *)
(* accepts as a whole has no fault, whatever the others say.               *)
AlternativesAreNotPenalized ==
    Asked("oracle") => \A k \in DOMAIN asked.oracle : Right(k) => score.reasons = {}
=============================================================================
