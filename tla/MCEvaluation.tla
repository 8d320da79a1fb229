----------------------------- MODULE MCEvaluation -----------------------------
(* Evaluation on small instances: two splits, two cases, two checkpoints.  *)
EXTENDS Evaluation

CONSTANTS a, b, train, test, fa, fb, start, later, h1, h2

MCIds == {a, b}
MCSplits == {train, test}
MCPaths == <<<<train, a>>, <<train, b>>, <<test, a>>, <<test, b>>>>
MCObjectives == {<<"alpha", 1>>, <<"alpha", 2>>, <<"beta", 1>>}
Point(i, h) == [id |-> i, after |-> h]
MCLists ==
    {<<Point(start, h1)>>, <<Point(start, h2), Point(start, h1)>>,
     <<Point(start, h1), Point(later, h2)>>}

(* A case with a checkpoint that is listed twice in train, a case of two   *)
(* checkpoints in test.                                                    *)
CaseA == [id |-> a, split |-> train, objective |-> <<"alpha", 1>>,
          checkpoints |-> <<Point(start, h2), Point(start, h1)>>]
CaseB == [id |-> b, split |-> test, objective |-> <<"beta", 1>>,
          checkpoints |-> <<Point(start, h1), Point(later, h2)>>]
Sidecar(c, h) == [case |-> c.id, objective |-> c.objective, history |-> h, snapshot |-> 1]
MCGood ==
    [cases |-> [p \in MCSplits \X MCIds |->
        CASE p = <<train, a>> -> CaseA [] p = <<test, b>> -> CaseB [] OTHER -> None],
     contexts |-> [p \in (MCSplits \X MCIds) \X {start, later} |->
        CASE p = <<<<train, a>>, start>> -> Sidecar(CaseA, h1)
          [] p = <<<<test, b>>, start>> -> Sidecar(CaseB, h1)
          [] p = <<<<test, b>>, later>> -> Sidecar(CaseB, h2)
          [] OTHER -> None],
     families |-> [i \in MCIds |-> IF i = a THEN fa ELSE fb]]

(* Labels "save" and "cancel", references "el_1" and "el_2".               *)
Nothing == [k \in {} |-> None]
Ref(r) == [element_ref |-> r]
Acceptable(o, t, i) == [operation |-> o, target |-> t, input |-> i]
MCEntries ==
    {Acceptable("inspect", None, Nothing)} \union
    {Acceptable("click", t, i) :
        t \in {None, "save", "cancel"}, i \in {Nothing, Ref("el_1"), Ref("el_2")}}
MCAlternatives == {s \in SUBSET MCEntries : s # {} /\ \E e, f \in s : s = {e, f}}
Element(r, l) == [ref |-> r, label |-> l]
Elements == {Element("el_1", "save"), Element("el_1", "cancel"), Element("el_2", "cancel")}
MCObservations == {o \in SUBSET Elements : \A e, f \in o : e.ref = f.ref => e = f}
Decision(o, i) == [operation |-> o, input |-> i]
Finish(v) == Decision("finish", [outcome |-> v, summary |-> "done"])
MCDecisions ==
    {Decision("inspect", Nothing), Decision("click", Ref("el_1")), Decision("click", Ref("el_9")),
     Finish("pass"), Finish("fail"), Decision("request_human_help", [reason |-> "blocked"])}
MCTerminals ==
    {[operation |-> "finish", value |-> "pass"],
     [operation |-> "request_human_help", value |-> "blocked"]}
=============================================================================
