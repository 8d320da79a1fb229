-------------------------------- MODULE Oracle --------------------------------
(***************************************************************************)
(* The scores of benchmark/oracle.py. A prediction is Malformed when it is *)
(* not as its schema says, else a record of its operation and its input,   *)
(* a function of the fields it has; acceptable_next is a set of records    *)
(* with an operation, a target (None when there is none) and an input; an  *)
(* element of the observation is a record of its reference and its label,  *)
(* the role and name a target is matched with.                             *)
(***************************************************************************)

CONSTANTS Malformed, None

(* contains: the input of a well-formed decision has no objects in it, so  *)
(* that the recursion of the code ends at its fields.                      *)
Contains(actual, expected) ==
    \A k \in DOMAIN expected : k \in DOMAIN actual /\ actual[k] = expected[k]

Matching(alternatives, decision) == {e \in alternatives : e.operation = decision.operation}

(* Mutant of TargetResult: a target that is not given counts as missed.    *)
TargetResultUngiven(e, elements, decision) ==
    IF \E x \in elements : /\ "element_ref" \in DOMAIN decision.input
                           /\ x.ref = decision.input["element_ref"] /\ x.label = e.target
    THEN "correct" ELSE "wrong"

TargetResult(e, elements, decision) ==
    IF e.target = None THEN "none"
    ELSE IF \E x \in elements : /\ "element_ref" \in DOMAIN decision.input
                                /\ x.ref = decision.input["element_ref"] /\ x.label = e.target
    THEN "correct" ELSE "wrong"

(* Mutant of InputResult: the target may match one alternative and the     *)
(* input another.                                                          *)
InputResultAlone(e, elements, decision) == Contains(decision.input, e.input)

InputResult(e, elements, decision) ==
    TargetResult(e, elements, decision) # "wrong" /\ Contains(decision.input, e.input)

DecisionScore(schema, tool, target, input, reasons) ==
    [schema |-> schema, tool |-> tool, target |-> target, input |-> input, reasons |-> reasons]

ScoreDecision(alternatives, elements, decision) ==
    IF decision = Malformed
    THEN DecisionScore(FALSE, FALSE, "none", FALSE, {"invalid_schema"})
    ELSE IF Matching(alternatives, decision) = {}
    THEN DecisionScore(TRUE, FALSE, "none", FALSE, {"wrong_tool"})
    ELSE LET tried == Matching(alternatives, decision)
             results == {TargetResult(e, elements, decision) : e \in tried}
             target == IF "correct" \in results THEN "correct"
                       ELSE IF "wrong" \in results THEN "wrong" ELSE "none"
             input == \E e \in tried : InputResult(e, elements, decision)
         IN DecisionScore(TRUE, TRUE, target, input,
                {r \in {"wrong_target", "wrong_input"} :
                    IF r = "wrong_target" THEN target = "wrong" ELSE ~input})

(* What score_terminal looks at: an outcome, or the reason to ask for help.*)
TerminalField(operation) == IF operation = "finish" THEN "outcome" ELSE "reason"

(* The reasons score_terminal gives; none for a correct end.               *)
ScoreTerminal(expected, decision) ==
    IF decision = Malformed THEN {"invalid_schema"}
    ELSE IF decision.operation # expected.operation THEN {"wrong_terminal_operation"}
    ELSE IF ~ /\ TerminalField(expected.operation) \in DOMAIN decision.input
              /\ decision.input[TerminalField(expected.operation)] = expected.value
    THEN {"wrong_terminal_value"} ELSE {}
=============================================================================
