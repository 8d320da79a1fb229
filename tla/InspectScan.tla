------------------------------ MODULE InspectScan ------------------------------
(***************************************************************************)
(* BrowserSession.inspect and the handles it gets: the page's interactive  *)
(* elements are looked at one by one, until one more is visible than was   *)
(* asked for; the handles that are not wanted are disposed of, then those  *)
(* of the previous observation. Each call to the driver is an await, in    *)
(* which the operation may be cut by a timeout, an error or a cancellation.*)
(* The session's lock admits one operation at a time. A handle is          *)
(* <<number of the operation that got it, place in the document>>.         *)
(***************************************************************************)
EXTENDS Naturals, Sequences

CONSTANTS
    MaxCandidates,  \* interactive elements in a page (bound)
    MaxActions,     \* config.max_actions
    MaxElements     \* greatest value of max_elements: 200 in the code

ASSUME BoundsAssumption ==
    MaxCandidates \in Nat /\ MaxActions \in Nat /\ MaxElements \in Nat \ {0}

VARIABLES
    await,      \* the await the operation is in, or "idle"
    actions,    \* _actions: operations so far
    max,        \* max_elements of the latest inspection
    shown,      \* external: is_visible() of each candidate
    processed,  \* processed_count
    visible,    \* `visible`: the places of its handles
    todo,       \* handles the current loop has still to dispose of
    elements,   \* handles in _elements, in the order of their references
    answer,     \* how the latest operation ended, with inspect's `truncated`
    generation, \* _observation_generation
    live,       \* external: handles the driver keeps
    disposed,   \* history: handles that were disposed of
    cut         \* history: an operation was cut since the page came up

work == <<actions, max, shown, processed, visible>>
registry == <<elements, answer, generation>>
vars == <<await, work, todo, registry, live, disposed, cut>>

Init ==
    /\ await = "idle" /\ actions = 0 /\ max = 1 /\ shown = <<>> /\ processed = 0
    /\ visible = <<>> /\ todo = {} /\ elements = <<>> /\ answer = "none" /\ generation = 0
    /\ live = {} /\ disposed = {} /\ cut = FALSE

Items(s) == {s[k] : k \in DOMAIN s}

Handles(places) == {actions} \X places

Dispose(h) == live' = live \ {h} /\ disposed' = disposed \union {h}

-----------------------------------------------------------------------------
(* inspect after its timed block, with v visible.                          *)

(* How many of v visible[:max_elements] keeps.                             *)
Retained(v) == IF Len(v) > max THEN max ELSE Len(v)

(* Mutant of Register: one visible element too many is not told.           *)
RegisterQuietly(v) ==
    /\ await' = "idle" /\ todo' = {} /\ answer' = "whole" /\ generation' = generation + 1
    /\ elements' = [k \in 1..Retained(v) |-> <<actions, v[k]>>]

(* Mutant of Register: the generation is not counted up.                   *)
RegisterUncounted(v) ==
    /\ await' = "idle" /\ todo' = {} /\ UNCHANGED generation
    /\ answer' = IF Len(v) > max THEN "truncated" ELSE "whole"
    /\ elements' = [k \in 1..Retained(v) |-> <<actions, v[k]>>]

Register(v) ==
    /\ await' = "idle" /\ todo' = {} /\ generation' = generation + 1
    /\ answer' = IF Len(v) > max THEN "truncated" ELSE "whole"
    /\ elements' = [k \in 1..Retained(v) |-> <<actions, v[k]>>]

(* The observation before this one goes first.                             *)
Conclude(v) ==
    \/ elements = <<>> /\ Register(v)
    \/ /\ elements # <<>> /\ elements' = <<>>
       /\ todo' = Items(elements) /\ await' = "old" /\ UNCHANGED <<answer, generation>>

(* Mutant of Unwanted: the last candidate looked at is counted in.         *)
UnwantedTwice(n, p, v) ==
    Handles(p..n) \union Handles({v[k] : k \in (max + 1)..Len(v)})

(* Mutant of Unwanted: only the candidates not looked at.                  *)
UnwantedRest(n, p, v) == Handles((p + 1)..n)

(* candidates[processed_count:] and visible[max_elements:]                 *)
Unwanted(n, p, v) ==
    Handles((p + 1)..n) \union Handles({v[k] : k \in (max + 1)..Len(v)})

(* Mutant of Continue: all candidates are looked at.                       *)
ContinueToEnd(n, p, v) ==
    \/ p < n /\ await' = "look" /\ processed' = p + 1 /\ UNCHANGED <<todo, registry>>
    \/ /\ p = n /\ processed' = p
       /\ \/ Unwanted(n, p, v) = {} /\ Conclude(v)
          \/ /\ Unwanted(n, p, v) # {} /\ todo' = Unwanted(n, p, v)
             /\ await' = "trim" /\ UNCHANGED registry

(* p of n candidates have been looked at.                                  *)
Continue(n, p, v) ==
    \/ /\ p < n /\ Len(v) <= max
       /\ await' = "look" /\ processed' = p + 1 /\ UNCHANGED <<todo, registry>>
    \/ /\ p = n \/ Len(v) > max
       /\ processed' = p
       /\ \/ Unwanted(n, p, v) = {} /\ Conclude(v)
          \/ /\ Unwanted(n, p, v) # {} /\ todo' = Unwanted(n, p, v)
             /\ await' = "trim" /\ UNCHANGED registry

-----------------------------------------------------------------------------
Inspect(m) ==
    /\ await = "idle" /\ actions < MaxActions
    /\ await' = "query" /\ actions' = actions + 1 /\ max' = m
    /\ shown' = <<>> /\ processed' = 0 /\ visible' = <<>> /\ answer' = "none"
    /\ UNCHANGED <<todo, elements, generation, live, disposed, cut>>

Queried ==
    /\ await = "query"
    /\ \E n \in 0..MaxCandidates :
         /\ shown' \in [1..n -> BOOLEAN] /\ live' = live \union Handles(1..n)
         /\ Continue(n, 0, visible)
    /\ UNCHANGED <<actions, max, visible, disposed, cut>>

Current == <<actions, processed>>

Looked ==
    /\ await = "look" /\ Current \in live
    /\ await' = IF shown[processed] THEN "evaluate" ELSE "hide"
    /\ UNCHANGED <<work, todo, registry, live, disposed, cut>>

Hidden ==
    /\ await = "hide" /\ Dispose(Current) /\ Continue(Len(shown), processed, visible)
    /\ UNCHANGED <<actions, max, shown, visible, cut>>

Evaluated ==
    /\ await = "evaluate" /\ Current \in live
    /\ visible' = Append(visible, processed)
    /\ Continue(Len(shown), processed, visible')
    /\ UNCHANGED <<actions, max, shown, live, disposed, cut>>

(* navigate drops the observation before it does anything else.            *)
Navigate ==
    /\ await = "idle" /\ actions < MaxActions /\ actions' = actions + 1
    /\ elements # <<>> /\ await' = "clear"
    /\ todo' = Items(elements) /\ elements' = <<>> /\ answer' = "none"
    /\ UNCHANGED <<max, shown, processed, visible, generation, live, disposed, cut>>

(* A handle has been disposed of; after the last the operation goes on.    *)
Disposed ==
    /\ await \in {"trim", "old", "clear"}
    /\ \E h \in todo :
         /\ Dispose(h)
         /\ \/ todo # {h} /\ todo' = todo \ {h} /\ UNCHANGED <<await, registry>>
            \/ todo = {h} /\ await = "trim" /\ Conclude(visible)
            \/ todo = {h} /\ await = "old" /\ Register(visible)
            \/ todo = {h} /\ await = "clear" /\ await' = "idle" /\ todo' = {} /\ UNCHANGED registry
    /\ UNCHANGED <<work, cut>>

(* An await raises: the loops are left, with what they had still to do.    *)
Cut ==
    /\ await # "idle" /\ await' = "idle" /\ todo' = {} /\ answer' = "failed" /\ cut' = TRUE
    /\ UNCHANGED <<work, elements, generation, live, disposed>>

(* The page goes elsewhere, and its handles with it.                       *)
PageReplaced ==
    /\ live' = {} /\ cut' = FALSE
    /\ UNCHANGED <<await, work, todo, registry, disposed>>

Next ==
    \/ \E m \in 1..MaxElements : Inspect(m)
    \/ Queried \/ Looked \/ Hidden \/ Evaluated \/ Navigate \/ Disposed \/ Cut \/ PageReplaced

Spec == Init /\ [][Next]_vars

-----------------------------------------------------------------------------
Awaits == {"idle", "query", "look", "hide", "evaluate", "trim", "old", "clear"}

TypeOK ==
    /\ await \in Awaits /\ actions \in Nat /\ generation \in Nat /\ processed \in Nat
    /\ max \in Nat \ {0} /\ max <= MaxElements
    /\ shown \in Seq(BOOLEAN) /\ visible \in Seq(Nat) /\ Len(visible) <= max + 1
    /\ elements \in Seq(Nat \X Nat) /\ todo \subseteq Nat \X Nat
    /\ live \subseteq Nat \X Nat /\ disposed \subseteq Nat \X Nat
    /\ answer \in {"none", "whole", "truncated", "failed"} /\ cut \in BOOLEAN

Registered(j) == <<actions, j>> \in Items(elements)

(* What an inspection registers are the first visible elements of the page,*)
(* in its order and no more than asked for, and `truncated` is true just   *)
(* when there are more: with 0 to max_elements + 1 visible ones, anywhere  *)
(* among the hidden.                                                       *)
AnswerIsRight ==
    answer \in {"whole", "truncated"} /\ await = "idle" =>
        /\ \A k \in 1..Len(elements) : elements[k][1] = actions /\ shown[elements[k][2]]
        /\ \A k, l \in 1..Len(elements) : k < l => elements[k][2] < elements[l][2]
        /\ \A i, j \in 1..Len(shown) : i < j /\ shown[i] /\ Registered(j) => Registered(i)
        /\ answer = "whole" =>
             Len(elements) <= max /\ \A j \in 1..Len(shown) : shown[j] => Registered(j)
        /\ answer = "truncated" =>
             Len(elements) = max /\ \E j \in 1..Len(shown) : shown[j] /\ ~Registered(j)

(* Unless an operation was cut, the page has no handles but those that are *)
(* registered: none is lost on any way through the loops.                  *)
NothingIsLost == await = "idle" /\ ~cut => live \subseteq Items(elements)

(* No reference leads to a handle that was disposed of, and no handle is   *)
(* disposed of twice, whatever was cut before.                             *)
DisposedOnce == (Items(elements) \union todo) \intersect disposed = {}

(* The operation in progress: navigate only ever clears here.              *)
Busy == IF await = "idle" THEN "none" ELSE IF await = "clear" THEN "navigate" ELSE "inspect"

Contract == INSTANCE SessionContract WITH
    phase <- "active", spent <- actions, busy <- Busy, latest <- generation,
    refs <- {generation} \X (1..Len(elements))

(* An inspection, with all its calls to the driver and wherever it is cut, *)
(* does to the references what an open session's contract lets it do: the  *)
(* old ones go before the new ones come, in one step, and a new generation *)
(* is counted just when there is an observation.                           *)
ScanKeepsContract == [][Contract!ContractNext]_(Contract!contractVars)
=============================================================================
