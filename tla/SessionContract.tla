--------------------------- MODULE SessionContract ---------------------------
(***************************************************************************)
(* What a browser session promises its callers, with nothing said of       *)
(* coroutines, awaits or the browser: it opens once and closes once, runs  *)
(* one operation at a time, spends one unit of the action budget on each,  *)
(* and hands out element references that live until the page moves on.     *)
(* BrowserSession is shown to implement this module.                       *)
(***************************************************************************)
EXTENDS Naturals

CONSTANTS
    MaxActions,     \* operations the session admits
    MaxElements     \* references one observation may hand out

VARIABLES
    phase,      \* "new", "active" or "closed"
    spent,      \* operations admitted so far
    busy,       \* the operation in progress, or "none"
    latest,     \* number of the latest observation
    refs        \* the references that still name an element

contractVars == <<phase, spent, busy, latest, refs>>

Operations == {"navigate", "inspect", "click", "type", "diagnostics", "screenshot",
               "finish", "help"}

ContractInit ==
    /\ phase = "new" /\ spent = 0 /\ busy = "none"
    /\ latest = 0 /\ refs = {}

Open ==
    /\ phase = "new" /\ phase' = "active"
    /\ UNCHANGED <<spent, busy, latest, refs>>

(* The session turns to operation o: one unit of the budget is gone for    *)
(* good, whether or not the operation gets as far as the browser. Only a   *)
(* navigation forgets the references, only a terminal operation closes.    *)
Admit(o) ==
    /\ phase = "active" /\ busy = "none" /\ spent < MaxActions
    /\ spent' = spent + 1 /\ busy' \in {"none", o} /\ latest' = latest
    /\ \/ UNCHANGED <<phase, refs>>
       \/ o = "navigate" /\ refs' = {} /\ UNCHANGED phase
       \/ o \in {"finish", "help"} /\ refs' = {} /\ phase' = "closed"

(* The references of the previous observation go before the new ones come. *)
Forget ==
    /\ busy = "inspect" /\ refs' = {}
    /\ UNCHANGED <<phase, spent, busy, latest>>

Observe ==
    /\ busy = "inspect" /\ busy' = "none"
    /\ latest' = latest + 1
    /\ refs' \in SUBSET ({latest'} \X (1..MaxElements))
    /\ UNCHANGED <<phase, spent>>

End ==
    /\ busy # "none" /\ busy' = "none"
    /\ UNCHANGED <<phase, spent, latest, refs>>

(* Closing does not wait for the operation in progress. *)
Close ==
    /\ phase # "closed" /\ phase' = "closed" /\ refs' = {}
    /\ UNCHANGED <<spent, busy, latest>>

ContractNext ==
    Open \/ (\E o \in Operations : Admit(o)) \/ Forget \/ Observe \/ End \/ Close

ContractSpec == ContractInit /\ [][ContractNext]_contractVars

-----------------------------------------------------------------------------
ContractTypeOK ==
    /\ phase \in {"new", "active", "closed"} /\ busy \in Operations \union {"none"}
    /\ spent \in 0..MaxActions /\ latest \in 0..MaxActions
    /\ refs \subseteq Nat \X (1..MaxElements)

(* The references that name an element are all of the latest observation,  *)
(* and every observation has been paid for with one unit of the budget.    *)
LatestOnly ==
    /\ refs \subseteq {latest} \X (1..MaxElements)
    /\ latest <= spent /\ (busy = "inspect" => latest < spent)

(* Once closed, a session never admits an operation or hands out a         *)
(* reference again, save those of the observation under way.               *)
ClosedForGood ==
    [][phase = "closed" =>
         phase' = "closed" /\ spent' = spent /\ (latest' # latest => busy = "inspect")]_contractVars
=============================================================================
