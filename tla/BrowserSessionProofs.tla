------------------------- MODULE BrowserSessionProofs -------------------------
(* Theorems about BrowserSession, for any callers and any budget.          *)
EXTENDS BrowserSession, TLAPS

Steps == {"idle", "waiting"} \union StartSteps \union CloseSteps \union OpSteps

(* The part of TypeOK that Suspend and Return can disturb.                 *)
CallsOK ==
    /\ lock \in Callers \union {None}
    /\ pc \in [Callers -> Steps]
    /\ op \in [Callers -> LockedOps \union {"none", "start", "close"}]
    /\ target \in [Callers -> (Nat \X Nat) \union Callers \union {None}]
    /\ result \in [Callers -> Results]

LEMMA SuspendCallsOK ==
    ASSUME CallsOK, NEW c \in Callers, NEW p \in Steps,
           NEW t \in (Nat \X Nat) \union Callers \union {None}, Suspend(c, p, t)
    PROVE  CallsOK'
BY DEF CallsOK, Suspend

LEMMA ReturnCallsOK ==
    ASSUME CallsOK, NEW c \in Callers, NEW r \in Results, Return(c, r)
    PROVE  CallsOK'
<1>1. "idle" \in Steps /\ "none" \in LockedOps \union {"none", "start", "close"}
  BY DEF Steps
<1> QED BY <1>1 DEF CallsOK, Return

(* What a segment of close() does to the calls: it awaits a step of close  *)
(* or it returns.                                                          *)
LEMMA CloseFromShape ==
    ASSUME TypeOK, NEW c \in Callers, NEW i \in 1..6, CloseFrom(c, i)
    PROVE  \/ \E p \in CloseSteps, t \in Callers \union {None} : Suspend(c, p, t)
           \/ \E r \in {"ok", "untyped"} : Return(c, r)
<1>1. CASE \E j \in i..5 : Due(j) /\ Suspend(c, CloseOrder[j], Owner(j))
  <2>1. PICK j \in i..5 : Suspend(c, CloseOrder[j], Owner(j))
    BY <1>1
  <2>2. j \in 1..5
    OBVIOUS
  <2>3. CloseOrder[j] \in CloseSteps
    BY <2>2 DEF CloseOrder, CloseSteps
  <2>4. Owner(j) \in Callers \union {None}
    BY <2>2 DEF Owner, ClosedAt, TypeOK, Kinds
  <2> QED BY <2>1, <2>3, <2>4
<1>2. CASE CloseReturn(c)
  BY <1>2 DEF CloseReturn
<1> QED BY <1>1, <1>2 DEF CloseFrom

LEMMA CloseBodyShape ==
    ASSUME TypeOK, NEW c \in Callers, CloseBody(c)
    PROVE  /\ \/ \E p \in CloseSteps, t \in Callers \union {None} : Suspend(c, p, t)
              \/ \E r \in {"ok", "untyped"} : Return(c, r)
           /\ state' = "closed"
           /\ ClearObservation \/ UNCHANGED observation
<1>1. CASE state # "closed"
  <2>1. CloseFrom(c, 1) /\ state' = "closed" /\ ClearObservation
    BY <1>1 DEF CloseBody
  <2> QED BY <2>1, CloseFromShape
<1>2. CASE state = "closed"
  BY <1>2 DEF CloseBody, CloseReturn
<1> QED BY <1>1, <1>2

(* The page, the flags and what navigate() does once the handles are gone. *)
LEMMA NavigateToShape ==
    ASSUME TypeOK, NEW c \in Callers, NavigateTo(c)
    PROVE  /\ Suspend(c, "goto", None) \/ \E r \in Verdicts : Return(c, r)
           /\ blocked' \in BOOLEAN /\ download' \in BOOLEAN
           /\ seen' \subseteq {"denied", "download"}
BY DEF NavigateTo, Dispatch, ResetFlags, flags, TypeOK

LEMMA RegisterShape ==
    ASSUME TypeOK, NEW n \in 0..MaxElements, Register(n)
    PROVE  /\ generation' \in Nat /\ active' \in Nat
           /\ elements' \subseteq Nat \X Nat /\ issued' \subseteq Nat \X Nat
BY BoundsAssumption DEF Register, TypeOK

LEMMA ResolveShape == \A r : Resolve(r) \in {"ok", "TARGET_NOT_FOUND", "STALE_ELEMENT_REFERENCE"}
                        \/ ~(r = None \/ r[1] > GenLimit \/ r[1] <= GenLimit)
BY DEF Resolve

(* Type correctness is inductive: one step per action.                     *)
LEMMA TypeStep == TypeOK /\ [Next]_vars => TypeOK'
<1> SUFFICES ASSUME TypeOK, [Next]_vars PROVE TypeOK'
  OBVIOUS
<1> USE DEF TypeOK, CallsOK, Steps
<1>c. CallsOK
  OBVIOUS
<1>s. StartSteps \subseteq Steps /\ CloseSteps \subseteq Steps /\ OpSteps \subseteq Steps
  OBVIOUS
<1>1. ASSUME NEW c \in Callers, NEW o \in Ops, Call(c, o) PROVE TypeOK'
  <2>1. o \in LockedOps \union {"none", "start", "close"}
    BY OpsAssumption
  <2>2. "none" \in Results
    BY DEF Results
  <2> QED BY <1>1, <2>1, <2>2 DEF Call, observation, flags, resources
<1>2. ASSUME NEW c \in Callers, StartCall(c) PROVE TypeOK'
  <2>1. CallsOK'
    BY <1>2, <1>c, <1>s, SuspendCallsOK, ReturnCallsOK DEF StartCall, StartSteps, Results
  <2> QED BY <1>2, <2>1 DEF StartCall, observation, flags, resources
<1>3. ASSUME NEW c \in Callers, CloseBody(c) PROVE
        CallsOK' /\ state' \in {"new", "active", "closed"}
          /\ generation' \in Nat /\ active' \in Nat \union {None}
          /\ elements' \subseteq Nat \X Nat /\ issued' \subseteq Nat \X Nat
  <2>1. CallsOK'
    BY <1>3, <1>c, <1>s, CloseBodyShape, SuspendCallsOK, ReturnCallsOK DEF Results, Verdicts
  <2> QED BY <1>3, <2>1, CloseBodyShape DEF ClearObservation, observation
<1>4. ASSUME NEW c \in Callers, CloseCall(c) PROVE TypeOK'
  BY <1>4, <1>3 DEF CloseCall, flags, resources
<1>5. ASSUME NEW c \in Callers, StartFails(c) PROVE TypeOK'
  BY <1>5, <1>3 DEF StartFails, flags, resources
<1>6. ASSUME NEW c \in Callers, NEW o, Admitted(c, o) PROVE actions' \in Nat
  BY <1>6 DEF Admitted
<1>7. ASSUME NEW c \in Callers, Terminate(c) PROVE TypeOK'
  BY <1>7, <1>3, <1>6 DEF Terminate, flags, resources
<1>8. ASSUME NEW c \in Callers, Refused(c) PROVE TypeOK'
  <2>1. CallsOK'
    BY <1>8, <1>c, ReturnCallsOK DEF Refused, Results
  <2> QED BY <1>8, <2>1 DEF Refused, observation, flags, resources
<1>9. ASSUME NEW c \in Callers, InvalidRequest(c) PROVE TypeOK'
  <2>1. CallsOK'
    BY <1>9, <1>c, ReturnCallsOK DEF InvalidRequest, Results
  <2> QED BY <1>9, <2>1, <1>6 DEF InvalidRequest, observation, flags, resources
<1>10. ASSUME NEW c \in Callers, UnresolvedReference(c) PROVE TypeOK'
  <2>1. PICK r \in Refs \union {None} : Return(c, Resolve(r))
    BY <1>10 DEF UnresolvedReference
  <2>2. r = None \/ r[1] \in Nat
    BY <2>1 DEF Refs
  <2>3. Resolve(r) \in Results
    BY <2>2, BoundsAssumption, ResolveShape DEF Results, Verdicts
  <2>4. CallsOK'
    BY <2>1, <2>3, <1>c, ReturnCallsOK
  <2> QED BY <1>10, <2>4, <1>6 DEF UnresolvedReference, observation, flags, resources
<1>11. ASSUME NEW c \in Callers, NavigateTo(c) PROVE CallsOK'
  BY <1>11, <1>c, <1>s, NavigateToShape, SuspendCallsOK, ReturnCallsOK DEF Results, OpSteps
<1>12. ASSUME NEW c \in Callers, Navigate(c) PROVE TypeOK'
  <2>1. CASE NavigateTo(c)
    BY <1>12, <2>1, <1>11, <1>6, NavigateToShape DEF Navigate, ClearObservation, resources
  <2>2. CASE Suspend(c, "nav_dispose", None) /\ UNCHANGED flags
    <3>1. CallsOK'
      BY <2>2, <1>c, <1>s, SuspendCallsOK DEF OpSteps
    <3> QED BY <1>12, <2>2, <3>1, <1>6 DEF Navigate, ClearObservation, flags, resources
  <2> QED BY <1>12, <2>1, <2>2 DEF Navigate
<1>13. ASSUME NEW c \in Callers, Inspect(c) PROVE TypeOK'
  <2>1. CallsOK'
    BY <1>13, <1>c, <1>s, SuspendCallsOK DEF Inspect, OpSteps
  <2> QED BY <1>13, <2>1, <1>6 DEF Inspect, observation, flags, resources
<1>14. ASSUME NEW c \in Callers, Click(c) PROVE TypeOK'
  <2>1. CallsOK'
    BY <1>14, <1>c, <1>s, SuspendCallsOK DEF Click, OpSteps
  <2> QED BY <1>14, <2>1, <1>6 DEF Click, observation, flags, resources
<1>15. ASSUME NEW c \in Callers, Type(c) PROVE TypeOK'
  <2>1. CallsOK'
    BY <1>15, <1>c, <1>s, SuspendCallsOK DEF Type, Dispatch, OpSteps
  <2> QED BY <1>15, <2>1, <1>6 DEF Type, Dispatch, ResetFlags, observation, resources
<1>16. ASSUME NEW c \in Callers, ReadDiagnostics(c) PROVE TypeOK'
  <2>1. CallsOK'
    BY <1>16, <1>c, ReturnCallsOK DEF ReadDiagnostics, Results, Verdicts
  <2> QED BY <1>16, <2>1, <1>6 DEF ReadDiagnostics, observation, flags, resources
<1>17. ASSUME NEW c \in Callers, TakeScreenshot(c) PROVE TypeOK'
  <2>1. CallsOK'
    BY <1>17, <1>c, <1>s, SuspendCallsOK, ReturnCallsOK DEF TakeScreenshot, Results, OpSteps
  <2> QED BY <1>17, <2>1, <1>6 DEF TakeScreenshot, observation, flags, resources
<1>18. ASSUME NEW c \in Callers, Starting(c) PROVE TypeOK'
  <2>1. CallsOK'
    <3>1. \/ \E p \in {"launch", "new_context", "route"} : Suspend(c, p, c)
          \/ Suspend(c, "new_page", fields["context"])
          \/ Return(c, "ok")
      BY <1>18 DEF Starting, Creates
    <3>2. fields["context"] \in Callers \union {None}
      BY DEF Kinds
    <3> QED BY <3>1, <3>2, <1>c, <1>s, SuspendCallsOK, ReturnCallsOK
              DEF StartSteps, Results, Verdicts
  <2>2. fields' \in [Kinds -> Callers \union {None}] /\ live' \subseteq Kinds \X Callers
          /\ aborted' \in BOOLEAN /\ state' \in {"new", "active", "closed"}
    BY <1>18 DEF Starting, Creates, Kinds, resources
  <2> QED BY <1>18, <2>1, <2>2 DEF Starting, observation, flags
<1>19. ASSUME NEW c \in Callers, Closing(c) PROVE TypeOK'
  <2>1. PICK i \in 1..5 : CloseFrom(c, i + 1) /\ live' \subseteq live
    BY <1>19 DEF Closing
  <2>2. \/ \E p \in CloseSteps, t \in Callers \union {None} : Suspend(c, p, t)
        \/ \E r \in {"ok", "untyped"} : Return(c, r)
    <3>1. i + 1 \in 1..6
      OBVIOUS
    <3> QED BY <3>1, <2>1, CloseFromShape
  <2>3. CallsOK'
    BY <2>2, <1>c, <1>s, SuspendCallsOK, ReturnCallsOK DEF Results, Verdicts
  <2> QED BY <1>19, <2>1, <2>3 DEF Closing, observation, flags
<1>20. ASSUME NEW c \in Callers, CloseCut(c) PROVE TypeOK'
  <2>1. CallsOK'
    BY <1>20, <1>c, ReturnCallsOK DEF CloseCut, LeaveClose, Results, Verdicts
  <2> QED BY <1>20, <2>1 DEF CloseCut, LeaveClose, observation, flags
<1>21. ASSUME NEW c \in Callers, Goto(c) PROVE TypeOK'
  <2>1. CallsOK'
    BY <1>21, <1>c, <1>s, SuspendCallsOK, ReturnCallsOK DEF Goto, Results, Verdicts, OpSteps
  <2> QED BY <1>21, <2>1 DEF Goto, observation, flags, resources
<1>22. ASSUME NEW c \in Callers, GotoFailed(c) PROVE TypeOK'
  <2>1. CallsOK'
    BY <1>22, <1>c, ReturnCallsOK DEF GotoFailed, Results, Verdicts
  <2> QED BY <1>22, <2>1 DEF GotoFailed, observation, flags, resources
<1>23. ASSUME NEW c \in Callers, Title(c) PROVE TypeOK'
  <2>1. CallsOK'
    BY <1>23, <1>c, ReturnCallsOK DEF Title, Results, Verdicts
  <2> QED BY <1>23, <2>1 DEF Title, observation, flags, resources
<1>24. ASSUME NEW c \in Callers, Scan(c) PROVE TypeOK'
  <2>1. CallsOK'
    BY <1>24, <1>c, <1>s, SuspendCallsOK, ReturnCallsOK DEF Scan, Results, Verdicts, OpSteps
  <2>2. generation' \in Nat /\ active' \in Nat \union {None}
          /\ elements' \subseteq Nat \X Nat /\ issued' \subseteq Nat \X Nat
    BY <1>24, RegisterShape DEF Scan, ClearObservation, observation
  <2> QED BY <1>24, <2>1, <2>2 DEF Scan, flags, resources
<1>25. ASSUME NEW c \in Callers, Disposed(c) PROVE TypeOK'
  <2>1. CallsOK'
    BY <1>25, <1>c, <1>11, ReturnCallsOK DEF Disposed, Results, Verdicts
  <2>2. generation' \in Nat /\ active' \in Nat \union {None}
          /\ elements' \subseteq Nat \X Nat /\ issued' \subseteq Nat \X Nat
    BY <1>25, RegisterShape DEF Disposed, observation
  <2>3. blocked' \in BOOLEAN /\ download' \in BOOLEAN /\ seen' \subseteq {"denied", "download"}
    BY <1>25, NavigateToShape DEF Disposed, flags
  <2> QED BY <1>25, <2>1, <2>2, <2>3 DEF Disposed, resources
<1>26. ASSUME NEW c \in Callers, Validate(c) PROVE TypeOK'
  <2>1. CallsOK'
    BY <1>26, <1>c, <1>s, SuspendCallsOK, ReturnCallsOK
       DEF Validate, Dispatch, Results, Verdicts, OpSteps
  <2> QED BY <1>26, <2>1 DEF Validate, Dispatch, ResetFlags, observation, flags, resources
<1>27. ASSUME NEW c \in Callers, Perform(c) PROVE TypeOK'
  <2>1. CallsOK'
    BY <1>27, <1>c, ReturnCallsOK DEF Perform, Results, Verdicts
  <2> QED BY <1>27, <2>1 DEF Perform, observation, flags, resources
<1>28. ASSUME NEW c \in Callers, Capture(c) PROVE TypeOK'
  <2>1. CallsOK'
    BY <1>28, <1>c, ReturnCallsOK DEF Capture, Results, Verdicts
  <2> QED BY <1>28, <2>1 DEF Capture, observation, flags, resources
<1>29. ASSUME NEW c \in Callers, Cancel(c) PROVE TypeOK'
  <2>1. CallsOK'
    BY <1>29, <1>c, ReturnCallsOK DEF Cancel, LeaveOp, Results, Verdicts
  <2> QED BY <1>29, <2>1 DEF Cancel, LeaveOp, observation, flags, resources
<1>30. CASE DeniedRequest
  BY <1>30 DEF DeniedRequest, observation, resources, calls
<1>31. CASE DownloadStarted
  BY <1>31, BoundsAssumption DEF DownloadStarted, observation, resources, calls
<1>32. CASE PopupOpened
  BY <1>32, BoundsAssumption DEF PopupOpened, observation, flags, resources, calls
<1>33. CASE BackgroundDone
  BY <1>33, BoundsAssumption DEF BackgroundDone, observation, flags, resources, calls
<1>34. CASE Expire
  BY <1>34 DEF Expire, observation, flags, resources, calls
<1>35. CASE UNCHANGED vars
  BY <1>35 DEF vars, observation, flags, resources, calls
<1> QED
  BY <1>1, <1>2, <1>4, <1>5, <1>7, <1>8, <1>9, <1>10, <1>12, <1>13, <1>14, <1>15, <1>16,
     <1>17, <1>18, <1>19, <1>20, <1>21, <1>22, <1>23, <1>24, <1>25, <1>26, <1>27, <1>28,
     <1>29, <1>30, <1>31, <1>32, <1>33, <1>34, <1>35
  DEF Next, Enter, Timed, Untimed

LEMMA TypeInit == Init => TypeOK
<1> SUFFICES ASSUME Init PROVE TypeOK
  OBVIOUS
<1>1. "none" \in Results
  BY DEF Results
<1>2. 0 \in 0..MaxBackground
  BY BoundsAssumption
<1> QED BY <1>1, <1>2 DEF Init, TypeOK

(* Every variable keeps its type, whatever the callers do.                 *)
THEOREM TypeCorrect == Spec => []TypeOK
BY TypeInit, TypeStep, PTL DEF Spec

-----------------------------------------------------------------------------
(* The lock. What makes OneAtATime inductive: the await a caller is in     *)
(* belongs to its method, and, when callers wait for start(), start() runs *)
(* alone and in a new session.                                             *)

PcMatchesOp ==
    \A c \in Callers :
        /\ pc[c] = "idle" <=> op[c] = "none"
        /\ pc[c] \in OpSteps => op[c] \in LockedOps
        /\ pc[c] \in StartSteps => op[c] = "start"

StartAlone ==
    AwaitStart =>
        /\ \A c, d \in Callers : op[c] = "start" /\ d # c => op[d] = "none"
        /\ \A c \in Callers : pc[c] \in StartSteps => state = "new"

CallsInv == PcMatchesOp /\ OneAtATime /\ StartAlone

(* How a segment of c ends: its call returns ...                           *)
Leaves(c) == pc[c] # "idle" /\ \E r \in Results : Return(c, r)

(* ... or awaits something that its method awaits, and, if that takes the  *)
(* lock, nobody else holds it.                                             *)
Goes(c) ==
    \E p \in Steps, t \in (Nat \X Nat) \union Callers \union {None} :
        /\ Suspend(c, p, t)
        /\ pc[c] # "idle" /\ op[c] # "none"
        /\ op[c] \in LockedOps => lock \in {None, c}
        /\ \/ p \in OpSteps /\ op[c] \in LockedOps
           \/ p \in CloseSteps
           \/ /\ p \in StartSteps /\ op[c] = "start"
              /\ state' = state /\ (state = "new" \/ pc[c] \in StartSteps)

(* Who has a turn holds no step yet; who is past the first await of a      *)
(* locked operation has the lock.                                          *)
LEMMA MayGo ==
    ASSUME TypeOK, CallsInv, NEW c \in Callers,
           pc[c] # "idle", pc[c] # "waiting"
    PROVE  op[c] # "none" /\ (op[c] \in LockedOps => lock = c)
<1>1. pc[c] \in StartSteps \union CloseSteps \union OpSteps
  BY DEF TypeOK
<1>2. op[c] # "none"
  BY DEF CallsInv, PcMatchesOp
<1>3. ASSUME op[c] \in LockedOps PROVE lock = c
  <2>1. pc[c] \notin StartSteps
    BY <1>3 DEF CallsInv, PcMatchesOp, LockedOps
  <2> QED BY <1>1, <1>3, <2>1 DEF CallsInv, OneAtATime
<1> QED BY <1>2, <1>3

LEMMA TurnMayGo ==
    ASSUME TypeOK, CallsInv, NEW c \in Callers, NEW o, Turn(c, o)
    PROVE  /\ pc[c] = "waiting" /\ op[c] = o /\ op[c] # "none"
           /\ op[c] \in LockedOps => lock = None
BY DEF CallsInv, PcMatchesOp, Turn

LEMMA CloseBodyGoes ==
    ASSUME TypeOK, CallsInv, NEW c \in Callers, CloseBody(c),
           pc[c] # "idle", op[c] # "none", op[c] \in LockedOps => lock \in {None, c}
    PROVE  Leaves(c) \/ Goes(c)
<1>1. CASE \E p \in CloseSteps, t \in Callers \union {None} : Suspend(c, p, t)
  BY <1>1 DEF Goes, Steps
<1>2. CASE \E r \in {"ok", "untyped"} : Return(c, r)
  BY <1>2 DEF Leaves, Results, Verdicts
<1> QED BY <1>1, <1>2, CloseBodyShape

(* Every segment of a coroutine goes or leaves in this way.                *)
LEMMA SegmentShape ==
    ASSUME TypeOK, CallsInv, NEW c \in Callers,
           \/ Enter(c) \/ Starting(c) \/ StartFails(c) \/ Closing(c) \/ CloseCut(c)
           \/ Timed(c) \/ Untimed(c) \/ Disposed(c) \/ Cancel(c)
    PROVE  Leaves(c) \/ Goes(c)
<1> USE MayGo, TurnMayGo
<1>t. StartSteps \subseteq Steps /\ CloseSteps \subseteq Steps /\ OpSteps \subseteq Steps
  BY DEF Steps
<1>n. None \in (Nat \X Nat) \union Callers \union {None}
  OBVIOUS
<1>r. Verdicts \subseteq Results
  BY DEF Results
<1>e. elements \subseteq Nat \X Nat
  BY DEF TypeOK
<1>o. ASSUME NEW o, Admitted(c, o) PROVE Turn(c, o)
  BY <1>o DEF Admitted
<1>1. CASE StartCall(c)
  <2>1. "start" \notin LockedOps
    BY DEF LockedOps
  <2> QED BY <1>1, <1>t, <2>1 DEF StartCall, Goes, Leaves, Results, StartSteps
<1>2. CASE CloseCall(c)
  <2>1. Turn(c, "close") /\ CloseBody(c)
    BY <1>2 DEF CloseCall
  <2> QED BY <2>1, CloseBodyGoes
<1>3. CASE StartFails(c)
  <2>1. pc[c] \in StartSteps /\ CloseBody(c)
    BY <1>3 DEF StartFails
  <2>2. pc[c] # "idle" /\ pc[c] # "waiting"
    BY <2>1 DEF StartSteps
  <2> QED BY <2>1, <2>2, CloseBodyGoes
<1>4. CASE Terminate(c)
  <2>1. PICK o \in {"finish", "help"} : Turn(c, o)
    BY <1>4, <1>o DEF Terminate
  <2>2. CloseBody(c)
    BY <1>4 DEF Terminate
  <2> QED BY <2>1, <2>2, CloseBodyGoes
<1>5. CASE Refused(c)
  BY <1>5 DEF Refused, Leaves, Results
<1>6. CASE InvalidRequest(c)
  BY <1>6, <1>o DEF InvalidRequest, Leaves, Results
<1>7. CASE UnresolvedReference(c)
  <2>1. PICK o \in {"inspect", "click", "type"} : Turn(c, o)
    BY <1>7, <1>o DEF UnresolvedReference
  <2>2. PICK r \in Refs \union {None} : Return(c, Resolve(r))
    BY <1>7 DEF UnresolvedReference
  <2>3. r = None \/ r[1] \in Nat
    BY <2>2 DEF Refs
  <2>4. Resolve(r) \in Results
    BY <2>3, BoundsAssumption, ResolveShape DEF Results, Verdicts
  <2> QED BY <2>1, <2>2, <2>4 DEF Leaves
<1>8. ASSUME NavigateTo(c), pc[c] # "idle", op[c] \in LockedOps, lock \in {None, c}
      PROVE  Leaves(c) \/ Goes(c)
  <2>1. CASE Suspend(c, "goto", None)
    BY <1>8, <2>1, <1>n, <1>t DEF Goes, OpSteps, LockedOps
  <2>2. CASE \E r \in Verdicts : Return(c, r)
    BY <1>8, <2>2, <1>r DEF Leaves
  <2> QED BY <1>8, <2>1, <2>2, NavigateToShape
<1>9. CASE Navigate(c)
  <2>1. Turn(c, "navigate") /\ "navigate" \in LockedOps
    BY <1>9, <1>o DEF Navigate, LockedOps
  <2>2. CASE Suspend(c, "nav_dispose", None)
    BY <2>1, <2>2, <1>n, <1>t DEF Goes, OpSteps
  <2> QED BY <1>9, <2>1, <2>2, <1>8 DEF Navigate
<1>10. CASE Inspect(c)
  <2>1. Turn(c, "inspect") /\ "inspect" \in LockedOps
    BY <1>10, <1>o DEF Inspect, LockedOps
  <2> QED BY <1>10, <2>1, <1>t, <1>e DEF Inspect, Goes, OpSteps
<1>11. CASE Click(c)
  <2>1. Turn(c, "click") /\ "click" \in LockedOps
    BY <1>11, <1>o DEF Click, LockedOps
  <2> QED BY <1>11, <2>1, <1>t, <1>e DEF Click, Goes, OpSteps
<1>12. CASE Type(c)
  <2>1. Turn(c, "type") /\ "type" \in LockedOps
    BY <1>12, <1>o DEF Type, LockedOps
  <2> QED BY <1>12, <2>1, <1>t, <1>e DEF Type, Dispatch, Goes, OpSteps
<1>13. CASE ReadDiagnostics(c)
  BY <1>13, <1>o, <1>r DEF ReadDiagnostics, Leaves, Verdicts
<1>14. CASE TakeScreenshot(c)
  <2>1. Turn(c, "screenshot") /\ "screenshot" \in LockedOps
    BY <1>14, <1>o DEF TakeScreenshot, LockedOps
  <2> QED BY <1>14, <2>1, <1>t, <1>n DEF TakeScreenshot, Goes, Leaves, Results, OpSteps
<1>15. CASE Starting(c)
  <2>1. pc[c] \in StartSteps /\ pc[c] # "idle" /\ pc[c] # "waiting"
    BY <1>15 DEF Starting, StartSteps
  <2>2. op[c] = "start" /\ "start" \notin LockedOps
    BY <2>1 DEF CallsInv, PcMatchesOp, LockedOps
  <2>3. \/ /\ \E p \in {"launch", "new_context", "route"} : Suspend(c, p, c)
           /\ state' = state
        \/ Suspend(c, "new_page", fields["context"]) /\ state' = state
        \/ Return(c, "ok")
    BY <1>15 DEF Starting, Creates
  <2>4. fields["context"] \in Callers \union {None}
    BY DEF TypeOK, Kinds
  <2> QED BY <2>1, <2>2, <2>3, <2>4, <1>t, <1>r DEF Goes, Leaves, StartSteps, Verdicts
<1>16. CASE Closing(c)
  <2>1. PICK i \in 1..5 : pc[c] = CloseOrder[i] /\ CloseFrom(c, i + 1)
    BY <1>16 DEF Closing
  <2>2. pc[c] # "idle" /\ pc[c] # "waiting"
    BY <2>1 DEF CloseOrder
  <2>3. i + 1 \in 1..6
    OBVIOUS
  <2>4. \/ \E p \in CloseSteps, t \in Callers \union {None} : Suspend(c, p, t)
        \/ \E r \in {"ok", "untyped"} : Return(c, r)
    BY <2>1, <2>3, CloseFromShape
  <2> QED BY <2>2, <2>4, <1>t, <1>r DEF Goes, Leaves, Verdicts
<1>17. CASE CloseCut(c)
  BY <1>17, <1>r DEF CloseCut, LeaveClose, Leaves, CloseSteps, Verdicts
<1>18. ASSUME pc[c] \in OpSteps
       PROVE  pc[c] # "idle" /\ pc[c] # "waiting" /\ op[c] \in LockedOps /\ op[c] # "none"
                /\ lock = c
  <2>1. pc[c] # "idle" /\ pc[c] # "waiting"
    BY <1>18 DEF OpSteps
  <2>2. op[c] \in LockedOps
    BY <1>18 DEF CallsInv, PcMatchesOp
  <2> QED BY <2>1, <2>2
<1>19. CASE Goto(c)
  <2>1. pc[c] \in OpSteps
    BY <1>19 DEF Goto, OpSteps
  <2> QED BY <1>19, <2>1, <1>18, <1>t, <1>n DEF Goto, Goes, Leaves, OpSteps, Results, Verdicts
<1>20. CASE GotoFailed(c)
  BY <1>20, <1>r DEF GotoFailed, Leaves, Results, Verdicts
<1>21. CASE Title(c)
  BY <1>21, <1>r DEF Title, Leaves, Verdicts
<1>22. CASE Scan(c)
  <2>1. pc[c] \in OpSteps
    BY <1>22 DEF Scan, OpSteps
  <2> QED BY <1>22, <2>1, <1>18, <1>t, <1>n DEF Scan, Goes, Leaves, OpSteps, Results, Verdicts
<1>23. CASE Disposed(c)
  <2>1. pc[c] \in OpSteps
    BY <1>23 DEF Disposed, OpSteps
  <2> QED BY <1>23, <2>1, <1>18, <1>8, <1>r DEF Disposed, Leaves, Verdicts
<1>24. CASE Validate(c)
  <2>1. pc[c] \in OpSteps
    BY <1>24 DEF Validate, OpSteps
  <2>2. target[c] \in (Nat \X Nat) \union Callers \union {None}
    BY DEF TypeOK
  <2> QED BY <1>24, <2>1, <2>2, <1>18, <1>t
          DEF Validate, Dispatch, Goes, Leaves, OpSteps, Results, Verdicts
<1>25. CASE Perform(c)
  BY <1>25, <1>r DEF Perform, Leaves, Results, Verdicts
<1>26. CASE Capture(c)
  BY <1>26, <1>r DEF Capture, Leaves, Results, Verdicts
<1>27. CASE Cancel(c)
  BY <1>27, <1>r DEF Cancel, LeaveOp, Leaves, OpSteps, Verdicts
<1> QED
  BY <1>1, <1>2, <1>3, <1>4, <1>5, <1>6, <1>7, <1>9, <1>10, <1>11, <1>12, <1>13, <1>14,
     <1>15, <1>16, <1>17, <1>19, <1>20, <1>21, <1>22, <1>23, <1>24, <1>25, <1>26, <1>27
  DEF Enter, Timed, Untimed

(* What is left of a step when the calls are looked at alone.              *)
LEMMA StepShape ==
    ASSUME TypeOK, CallsInv, [Next]_vars
    PROVE  \/ UNCHANGED <<calls, state>>
           \/ \E c \in Callers, o \in Ops : Call(c, o)
           \/ \E c \in Callers : Leaves(c) \/ Goes(c)
<1>1. CASE \E c \in Callers, o \in Ops : Call(c, o)
  BY <1>1
<1>2. CASE \E c \in Callers :
              \/ Enter(c) \/ Starting(c) \/ StartFails(c) \/ Closing(c) \/ CloseCut(c)
              \/ Timed(c) \/ Untimed(c) \/ Disposed(c) \/ Cancel(c)
  BY <1>2, SegmentShape
<1>3. CASE DeniedRequest \/ DownloadStarted \/ PopupOpened \/ BackgroundDone \/ Expire
  BY <1>3 DEF DeniedRequest, DownloadStarted, PopupOpened, BackgroundDone, Expire, calls
<1>4. CASE UNCHANGED vars
  BY <1>4 DEF vars, calls
<1> QED BY <1>1, <1>2, <1>3, <1>4 DEF Next

LEMMA LeavesCalls ==
    ASSUME TypeOK, CallsInv, NEW c \in Callers, Leaves(c)
    PROVE  CallsInv'
<1>a. None \notin Callers
  BY NoneAssumption
<1>1. PcMatchesOp'
  BY DEF Leaves, Return, CallsInv, PcMatchesOp, TypeOK, StartSteps, OpSteps
<1>2. OneAtATime'
  BY <1>a DEF Leaves, Return, CallsInv, OneAtATime, TypeOK, CloseSteps, OpSteps
<1>3. StartAlone'
  BY DEF Leaves, Return, CallsInv, PcMatchesOp, StartAlone, TypeOK, StartSteps
<1> QED BY <1>1, <1>2, <1>3 DEF CallsInv

LEMMA CallsInvStep == TypeOK /\ CallsInv /\ [Next]_vars => CallsInv'
<1> SUFFICES ASSUME TypeOK, CallsInv, [Next]_vars PROVE CallsInv'
  OBVIOUS
<1>a. None \notin Callers
  BY NoneAssumption
<1>1. CASE UNCHANGED <<calls, state>>
  BY <1>1 DEF CallsInv, PcMatchesOp, OneAtATime, StartAlone, calls
<1>2. ASSUME NEW c \in Callers, NEW o \in Ops, Call(c, o) PROVE CallsInv'
  <2>1. o # "none" /\ o \in LockedOps \union {"start", "close"}
    BY OpsAssumption DEF LockedOps
  <2>2. PcMatchesOp'
    BY <1>2, <2>1 DEF Call, CallsInv, PcMatchesOp, TypeOK, StartSteps, OpSteps
  <2>3. OneAtATime'
    BY <1>2 DEF Call, CallsInv, OneAtATime, TypeOK, CloseSteps, OpSteps
  <2>4. StartAlone'
    BY <1>2 DEF Call, CallsInv, PcMatchesOp, StartAlone, TypeOK, StartSteps
  <2> QED BY <2>2, <2>3, <2>4 DEF CallsInv
<1>3. ASSUME NEW c \in Callers, Leaves(c) PROVE CallsInv'
  BY <1>3, LeavesCalls
<1>4. ASSUME NEW c \in Callers, Goes(c) PROVE CallsInv'
  <2>0. PICK p \in StartSteps \union CloseSteps \union OpSteps,
             t \in (Nat \X Nat) \union Callers \union {None} :
        /\ Suspend(c, p, t)
        /\ pc[c] # "idle" /\ op[c] # "none"
        /\ op[c] \in LockedOps => lock \in {None, c}
        /\ \/ p \in OpSteps /\ op[c] \in LockedOps
           \/ p \in CloseSteps
           \/ /\ p \in StartSteps /\ op[c] = "start"
              /\ state' = state /\ (state = "new" \/ pc[c] \in StartSteps)
    BY <1>4 DEF Goes
  <2>1. PcMatchesOp'
    BY <2>0 DEF Suspend, CallsInv, PcMatchesOp, TypeOK, StartSteps, OpSteps, CloseSteps
  <2>2. OneAtATime'
    BY <2>0, <1>a DEF Suspend, CallsInv, OneAtATime, TypeOK
  <2>3. StartAlone'
    BY <2>0 DEF Suspend, CallsInv, PcMatchesOp, StartAlone, TypeOK, StartSteps, OpSteps,
                CloseSteps
  <2> QED BY <2>1, <2>2, <2>3 DEF CallsInv
<1> QED BY <1>1, <1>2, <1>3, <1>4, StepShape

LEMMA CallsInvInit == Init => CallsInv
BY DEF Init, CallsInv, PcMatchesOp, OneAtATime, StartAlone, StartSteps, CloseSteps, OpSteps

LEMMA CallsInvHolds == Spec => [](TypeOK /\ CallsInv)
<1>1. Init => TypeOK /\ CallsInv
  BY TypeInit, CallsInvInit
<1>2. TypeOK /\ CallsInv /\ [Next]_vars => (TypeOK /\ CallsInv)'
  BY TypeStep, CallsInvStep
<1> QED BY <1>1, <1>2, PTL DEF Spec

(* No two operations are ever in progress, for any number of callers.      *)
THEOREM Serial == Spec => []OneAtATime
<1>1. CallsInv => OneAtATime
  BY DEF CallsInv
<1> QED BY <1>1, CallsInvHolds, PTL

-----------------------------------------------------------------------------
(* Observations and the budget. Inductive with the lock: an inspection     *)
(* under way has been charged and not counted yet, and nobody else is in   *)
(* one.                                                                    *)

Inspecting == {"scan", "insp_dispose"}

ObservationInv ==
    /\ elements \subseteq issued
    /\ active \in {None, generation} /\ (\A r \in elements : r[1] = active)
    /\ \A r \in issued : r[1] <= generation /\ (r[1] = active => r \in elements)
    /\ \A c \in Callers : pc[c] \in Inspecting => generation < actions

Inv == TypeOK /\ CallsInv /\ BudgetHolds /\ ObservationInv

(* What a segment of c does to everything but the calls of others.         *)
Effect(c) ==
    /\ \/ actions' = actions
       \/ state = "active" /\ actions < MaxActions /\ actions' = actions + 1
    /\ state' = state \/ state' = "closed" \/ pc[c] \in StartSteps
    /\ \/ UNCHANGED observation
       \/ ClearObservation /\ (state' = "closed" \/ (op[c] \in LockedOps /\ lock \in {None, c}))
       \/ /\ pc[c] \in Inspecting /\ pc'[c] = "idle" /\ actions' = actions
          /\ \E n \in 0..MaxElements : Register(n)
    /\ pc'[c] \in Inspecting =>
         generation' = generation /\ (pc[c] \in Inspecting \/ actions' = actions + 1)
    /\ pc'[c] \in {"validate", "perform"} =>
         /\ UNCHANGED observation
         /\ target'[c] \in elements \/ (pc[c] = "validate" /\ target'[c] = target[c])

LEMMA LeavesIdle ==
    ASSUME TypeOK, NEW c \in Callers, NEW r, Return(c, r)
    PROVE  pc'[c] = "idle"
BY DEF Return, TypeOK

LEMMA GoesTo ==
    ASSUME TypeOK, NEW c \in Callers, NEW p, NEW t, Suspend(c, p, t)
    PROVE  pc'[c] = p /\ target'[c] = t
BY DEF Suspend, TypeOK

LEMMA CloseBodyEffect ==
    ASSUME TypeOK, NEW c \in Callers, CloseBody(c)
    PROVE  /\ state' = "closed" /\ pc'[c] \notin Inspecting \union {"validate", "perform"}
           /\ UNCHANGED observation \/ ClearObservation
BY CloseBodyShape, LeavesIdle, GoesTo DEF CloseSteps, Inspecting

LEMMA SegmentEffect ==
    ASSUME TypeOK, CallsInv, NEW c \in Callers,
           \/ Enter(c) \/ Starting(c) \/ StartFails(c) \/ Closing(c) \/ CloseCut(c)
           \/ Timed(c) \/ Untimed(c) \/ Disposed(c) \/ Cancel(c)
    PROVE  Effect(c)
<1> USE LeavesIdle, GoesTo DEF Effect, Inspecting
<1>a. ASSUME NEW o, Admitted(c, o)
      PROVE  /\ state = "active" /\ actions < MaxActions /\ actions' = actions + 1
             /\ op[c] = o /\ (o \in LockedOps => lock = None)
  BY <1>a DEF Admitted, Turn
<1>1. CASE StartCall(c)
  BY <1>1 DEF StartCall
<1>2. CASE CloseCall(c)
  BY <1>2, CloseBodyEffect DEF CloseCall
<1>3. CASE StartFails(c)
  BY <1>3, CloseBodyEffect DEF StartFails
<1>4. CASE Terminate(c)
  BY <1>4, <1>a, CloseBodyEffect DEF Terminate
<1>5. CASE Refused(c)
  BY <1>5 DEF Refused
<1>6. CASE InvalidRequest(c)
  BY <1>6, <1>a DEF InvalidRequest
<1>7. CASE UnresolvedReference(c)
  BY <1>7, <1>a DEF UnresolvedReference
<1>8. ASSUME NavigateTo(c)
      PROVE  pc'[c] \notin Inspecting \union {"validate", "perform"}
  BY <1>8, NavigateToShape
<1>9. CASE Navigate(c)
  <2>1. op[c] \in LockedOps /\ lock = None
    BY <1>9, <1>a DEF Navigate, LockedOps
  <2>2. pc'[c] \notin Inspecting \union {"validate", "perform"}
    BY <1>9, <1>8 DEF Navigate
  <2> QED BY <1>9, <1>a, <2>1, <2>2 DEF Navigate
<1>10. CASE Inspect(c)
  BY <1>10, <1>a DEF Inspect, observation
<1>11. CASE Click(c)
  BY <1>11, <1>a DEF Click
<1>12. CASE Type(c)
  BY <1>12, <1>a DEF Type, Dispatch
<1>13. CASE ReadDiagnostics(c)
  BY <1>13, <1>a DEF ReadDiagnostics
<1>14. CASE TakeScreenshot(c)
  BY <1>14, <1>a DEF TakeScreenshot
<1>15. CASE Starting(c)
  BY <1>15 DEF Starting, Creates, StartSteps
<1>16. CASE Closing(c)
  <2>1. PICK i \in 1..5 : CloseFrom(c, i + 1)
    BY <1>16 DEF Closing
  <2>2. i + 1 \in 1..6
    OBVIOUS
  <2>3. pc'[c] \notin Inspecting \union {"validate", "perform"}
    BY <2>1, <2>2, CloseFromShape DEF CloseSteps
  <2> QED BY <1>16, <2>3 DEF Closing
<1>17. CASE CloseCut(c)
  BY <1>17 DEF CloseCut, LeaveClose
<1>18. CASE Goto(c)
  BY <1>18 DEF Goto
<1>19. CASE GotoFailed(c)
  BY <1>19 DEF GotoFailed
<1>20. CASE Title(c)
  BY <1>20 DEF Title
<1>21. CASE Scan(c)
  <2>1. op[c] \in LockedOps /\ lock = c
    BY <1>21, MayGo DEF Scan, CallsInv, PcMatchesOp, OpSteps
  <2> QED BY <1>21, <2>1 DEF Scan, ClearObservation, observation
<1>22. CASE Disposed(c)
  BY <1>22, <1>8 DEF Disposed, observation
<1>23. CASE Validate(c)
  BY <1>23 DEF Validate, Dispatch
<1>24. CASE Perform(c)
  BY <1>24 DEF Perform
<1>25. CASE Capture(c)
  BY <1>25 DEF Capture
<1>26. CASE Cancel(c)
  BY <1>26 DEF Cancel, LeaveOp
<1> QED
  BY <1>1, <1>2, <1>3, <1>4, <1>5, <1>6, <1>7, <1>9, <1>10, <1>11, <1>12, <1>13, <1>14,
     <1>15, <1>16, <1>17, <1>18, <1>19, <1>20, <1>21, <1>22, <1>23, <1>24, <1>25, <1>26
  DEF Enter, Timed, Untimed

(* The same for any step: a segment, a new call, or an event.              *)
LEMMA StepEffect ==
    ASSUME TypeOK, CallsInv, [Next]_vars
    PROVE  \/ UNCHANGED <<state, actions, observation, calls>>
           \/ /\ \E c \in Callers, o \in Ops : Call(c, o)
              /\ UNCHANGED <<state, actions, observation>>
           \/ \E c \in Callers : Effect(c) /\ (Leaves(c) \/ Goes(c))
<1>1. CASE \E c \in Callers, o \in Ops : Call(c, o)
  BY <1>1 DEF Call
<1>2. CASE \E c \in Callers :
              \/ Enter(c) \/ Starting(c) \/ StartFails(c) \/ Closing(c) \/ CloseCut(c)
              \/ Timed(c) \/ Untimed(c) \/ Disposed(c) \/ Cancel(c)
  BY <1>2, SegmentShape, SegmentEffect
<1>3. CASE DeniedRequest \/ DownloadStarted \/ PopupOpened \/ BackgroundDone \/ Expire
  BY <1>3 DEF DeniedRequest, DownloadStarted, PopupOpened, BackgroundDone, Expire
<1>4. CASE UNCHANGED vars
  BY <1>4 DEF vars
<1> QED BY <1>1, <1>2, <1>3, <1>4 DEF Next

(* A segment of c leaves the calls of the others as they are.              *)
LEMMA OthersUntouched ==
    ASSUME TypeOK, NEW c \in Callers, Leaves(c) \/ Goes(c), NEW d \in Callers, d # c
    PROVE  pc'[d] = pc[d] /\ target'[d] = target[d]
BY DEF Leaves, Goes, Return, Suspend, TypeOK

LEMMA ObservationStep == Inv /\ [Next]_vars => BudgetHolds' /\ ObservationInv'
<1> SUFFICES ASSUME Inv, [Next]_vars PROVE BudgetHolds' /\ ObservationInv'
  OBVIOUS
<1> USE DEF Inv
<1>t. TypeOK'
  BY TypeStep
<1>1. CASE UNCHANGED <<state, actions, observation, calls>>
  BY <1>1 DEF BudgetHolds, ObservationInv, observation, calls
<1>2. CASE \E c \in Callers, o \in Ops : Call(c, o) /\ UNCHANGED <<state, actions, observation>>
  BY <1>2 DEF Call, BudgetHolds, ObservationInv, Inspecting, observation, TypeOK
<1>3. ASSUME NEW c \in Callers, Effect(c), Leaves(c) \/ Goes(c)
      PROVE  BudgetHolds' /\ ObservationInv'
  <2>1. actions' \in Nat /\ actions' >= actions /\ actions' <= MaxActions
    BY <1>3, BoundsAssumption DEF Effect, BudgetHolds, TypeOK
  <2>2. CASE UNCHANGED observation \/ ClearObservation
    <3>1. generation' = generation /\ generation <= actions'
      BY <2>1, <2>2 DEF ClearObservation, observation, BudgetHolds, TypeOK
    <3>2. \A d \in Callers : pc'[d] \in Inspecting => generation' < actions'
      <4> SUFFICES ASSUME NEW d \in Callers, pc'[d] \in Inspecting PROVE generation' < actions'
        OBVIOUS
      <4>1. CASE pc[d] \in Inspecting
        BY <4>1, <3>1, <2>1 DEF ObservationInv, TypeOK
      <4>2. CASE pc[d] \notin Inspecting
        <5>1. d = c
          BY <4>2, <1>3, OthersUntouched
        <5> QED BY <5>1, <4>2, <1>3, <3>1 DEF Effect, BudgetHolds, TypeOK
      <4> QED BY <4>1, <4>2
    <3>3. /\ elements' \subseteq issued'
          /\ active' \in {None, generation'} /\ (\A r \in elements' : r[1] = active')
      BY <2>2, <3>1 DEF ClearObservation, observation, ObservationInv
    <3>4. \A r \in issued' : r[1] <= generation' /\ (r[1] = active' => r \in elements')
      <4>1. CASE UNCHANGED observation
        BY <4>1 DEF observation, ObservationInv
      <4>2. CASE ClearObservation
        <5>1. \A r \in issued : r[1] # None
          BY NoneAssumption DEF TypeOK
        <5> QED BY <5>1, <4>2 DEF ClearObservation, ObservationInv
      <4> QED BY <4>1, <4>2, <2>2
    <3> QED BY <2>1, <3>1, <3>2, <3>3, <3>4 DEF BudgetHolds, ObservationInv
  <2>3. ASSUME pc[c] \in Inspecting, pc'[c] = "idle", actions' = actions,
               NEW n \in 0..MaxElements, Register(n)
        PROVE  BudgetHolds' /\ ObservationInv'
    <3>1. lock = c
      BY <2>3, MayGo DEF CallsInv, PcMatchesOp, Inspecting, OpSteps
    <3>2. \A d \in Callers : pc[d] \in Inspecting => d = c
      BY <3>1 DEF CallsInv, OneAtATime, PcMatchesOp, Inspecting, OpSteps
    <3>3. \A d \in Callers : pc'[d] \notin Inspecting
      BY <3>2, <2>3, <1>3, OthersUntouched DEF Inspecting
    <3>4. generation' = generation + 1 /\ generation' <= actions'
      BY <2>3 DEF Register, ObservationInv, TypeOK
    <3>5. \A r \in issued : r[1] <= generation' /\ r[1] # generation'
      BY <3>4 DEF ObservationInv, TypeOK
    <3>6. \A r \in issued' : r[1] <= generation' /\ (r[1] = active' => r \in elements')
      BY <3>5, <2>3, <1>t DEF Register, TypeOK
    <3> QED BY <2>1, <2>3, <3>3, <3>4, <3>6 DEF BudgetHolds, ObservationInv, Register
  <2> QED BY <1>3, <2>2, <2>3 DEF Effect
<1> QED BY <1>1, <1>2, <1>3, StepEffect

LEMMA ObservationInit == Init => BudgetHolds /\ ObservationInv
BY BoundsAssumption DEF Init, BudgetHolds, ObservationInv, Inspecting

LEMMA InvHolds == Spec => []Inv
<1>1. Init => Inv
  BY TypeInit, CallsInvInit, ObservationInit DEF Inv
<1>2. Inv /\ [Next]_vars => Inv'
  BY TypeStep, CallsInvStep, ObservationStep DEF Inv
<1> QED BY <1>1, <1>2, PTL DEF Spec

(* The action budget is never overrun, and bounds the observations.        *)
THEOREM Budget == Spec => []BudgetHolds
<1>1. Inv => BudgetHolds
  BY DEF Inv
<1> QED BY <1>1, InvHolds, PTL

(* As long as generations fit the six digits of a reference, every         *)
(* reference handed out resolves or is answered as stale.                  *)
THEOREM References ==
    ASSUME MaxActions <= GenLimit
    PROVE  Spec => []ReferencesAnswer
<1>1. Inv => ReferencesAnswer
  <2> SUFFICES ASSUME Inv, NEW r \in issued
               PROVE  Resolve(r) = IF r \in elements THEN "ok" ELSE "STALE_ELEMENT_REFERENCE"
    BY DEF ReferencesAnswer
  <2>1. r \in Nat \X Nat /\ r # None /\ r[1] \in Nat
    BY NoneAssumption DEF Inv, TypeOK
  <2>2. r[1] <= GenLimit
    BY <2>1, BoundsAssumption DEF Inv, ObservationInv, BudgetHolds, TypeOK
  <2>3. r \in elements => r[1] = active
    BY DEF Inv, ObservationInv
  <2>4. r[1] = active => r \in elements
    BY DEF Inv, ObservationInv
  <2> QED BY <2>1, <2>2, <2>3, <2>4 DEF Resolve
<1> QED BY <1>1, InvHolds, PTL

(* An expired reference never comes back.                                  *)
THEOREM NeverComesBack == Spec => NeverReissued
<1>1. ASSUME Inv, [Next]_vars PROVE (elements' \ elements) \intersect issued = {}
  <2> USE <1>1 DEF Inv
  <2>1. ASSUME NEW n \in 0..MaxElements, Register(n) PROVE elements' \intersect issued = {}
    <3>1. \A r \in elements' : r[1] = generation + 1
      BY <2>1 DEF Register
    <3>2. \A r \in issued : r[1] # generation + 1
      BY DEF ObservationInv, TypeOK
    <3> QED BY <3>1, <3>2
  <2>2. elements' \subseteq elements \/ \E n \in 0..MaxElements : Register(n)
    BY StepEffect DEF Effect, ClearObservation, observation
  <2> QED BY <2>1, <2>2
<1> QED BY <1>1, InvHolds, PTL DEF Spec, NeverReissued

(* When callers wait for start(), nothing follows the end of a session.    *)
THEOREM ClosedForever ==
    ASSUME AwaitStart
    PROVE  Spec => ClosedIsFinal
<1>1. ASSUME Inv, [Next]_vars, state = "closed" PROVE state' = "closed" /\ actions' = actions
  <2> USE <1>1 DEF Inv
  <2>1. \A c \in Callers : pc[c] \notin StartSteps
    BY DEF CallsInv, StartAlone
  <2> QED BY <2>1, StepEffect DEF Effect
<1> QED BY <1>1, InvHolds, PTL DEF Spec, ClosedIsFinal

(* ... and no operation loses the observation its element is from.         *)
LEMMA TargetStep == AwaitStart /\ Inv /\ TargetIsCurrent /\ [Next]_vars => TargetIsCurrent'
<1> SUFFICES ASSUME AwaitStart, Inv, TargetIsCurrent, [Next]_vars,
                    NEW d \in Callers, pc'[d] \in {"validate", "perform"}, state' # "closed"
             PROVE  target'[d] \in elements'
  BY DEF TargetIsCurrent
<1> USE DEF Inv
<1>1. CASE UNCHANGED <<state, actions, observation, calls>>
  BY <1>1 DEF TargetIsCurrent, observation, calls
<1>2. CASE \E c \in Callers, o \in Ops : Call(c, o) /\ UNCHANGED <<state, actions, observation>>
  BY <1>2 DEF Call, TargetIsCurrent, observation, TypeOK
<1>3. ASSUME NEW c \in Callers, Effect(c), Leaves(c) \/ Goes(c)
      PROVE  target'[d] \in elements'
  <2>1. CASE d = c
    <3>1. pc[c] \notin StartSteps
      <4> SUFFICES ASSUME pc[c] \in StartSteps PROVE FALSE
        OBVIOUS
      <4>1. op[c] = "start" /\ op[c] \notin LockedOps
        BY DEF CallsInv, PcMatchesOp, LockedOps
      <4>2. Goes(c)
        BY <1>3, <2>1, LeavesIdle DEF Leaves
      <4>3. PICK p \in Steps, t \in (Nat \X Nat) \union Callers \union {None} :
              Suspend(c, p, t) /\ (p \in CloseSteps \/ p \in StartSteps)
        BY <4>1, <4>2 DEF Goes
      <4> QED BY <4>3, <2>1, GoesTo DEF StartSteps, CloseSteps
    <3>2. state # "closed"
      BY <3>1, <1>3 DEF Effect
    <3>3. target'[c] \in elements
      BY <1>3, <2>1, <3>2 DEF Effect, TargetIsCurrent
    <3> QED BY <1>3, <2>1, <3>3 DEF Effect, observation
  <2>2. CASE d # c
    <3>1. pc[d] \in {"validate", "perform"} /\ target'[d] = target[d]
      BY <1>3, <2>2, OthersUntouched
    <3>2. op[d] \in LockedOps /\ op[d] # "none" /\ lock = d
      BY <3>1, MayGo DEF CallsInv, PcMatchesOp, OpSteps
    <3>3. pc[c] \notin StartSteps
      BY <2>2, <3>2 DEF CallsInv, PcMatchesOp, StartAlone
    <3>4. target[d] \in elements
      BY <3>1, <3>3, <1>3 DEF Effect, TargetIsCurrent
    <3>5. UNCHANGED observation
      <4>1. lock \notin {None, c}
        BY <2>2, <3>2, NoneAssumption
      <4>2. pc[c] \notin Inspecting
        BY <4>1, MayGo DEF CallsInv, PcMatchesOp, Inspecting, OpSteps
      <4> QED BY <4>1, <4>2, <1>3 DEF Effect
    <3> QED BY <3>1, <3>4, <3>5 DEF observation
  <2> QED BY <2>1, <2>2
<1> QED BY <1>1, <1>2, <1>3, StepEffect

THEOREM CurrentTarget ==
    ASSUME AwaitStart
    PROVE  Spec => []TargetIsCurrent
<1>1. Init => TargetIsCurrent
  BY DEF Init, TargetIsCurrent
<1>2. Inv /\ TargetIsCurrent /\ [Next]_vars => TargetIsCurrent'
  BY TargetStep
<1> QED BY <1>1, <1>2, InvHolds, PTL DEF Spec

-----------------------------------------------------------------------------
(* Release. What a close() that is under way still has to close is known   *)
(* from the step it is in; start(), which is alone when callers wait for   *)
(* it, never makes two objects of a kind.                                  *)

Gone(k) == \A s \in Callers : <<k, s>> \notin live

(* What is gone by the time somebody awaits step p of close().             *)
GoneAt(p) ==
    /\ p \in {"close_browser", "close_playwright", "close_gather"} => Gone("context")
    /\ p \in {"close_playwright", "close_gather"} => Gone("browser")
    /\ p = "close_gather" => Gone("playwright")

(* What runs is what the attributes refer to.                              *)
LiveIsOwned == \A k \in Kinds, s \in Callers : <<k, s>> \in live => fields[k] = s

StartIsFresh ==
    /\ state = "new" /\ (\A c \in Callers : pc[c] \notin StartSteps) => live = {}
    /\ \A c \in Callers :
         /\ pc[c] = "start_playwright" => live = {}
         /\ pc[c] = "launch" => Gone("browser") /\ Gone("context")
         /\ pc[c] = "new_context" => Gone("context")

ClosesWhatItOwns ==
    \A c \in Callers :
        /\ pc[c] = "close_context" => target[c] = fields["context"]
        /\ pc[c] = "close_browser" => target[c] = fields["browser"]
        /\ pc[c] = "close_playwright" => target[c] = fields["playwright"]

SomebodyReleases ==
    state = "closed" /\ ~aborted =>
        \/ \E c \in Callers : pc[c] \in CloseSteps /\ GoneAt(pc[c])
        \/ live = {} /\ background = 0

ReleaseInv == LiveIsOwned /\ StartIsFresh /\ ClosesWhatItOwns /\ SomebodyReleases

LEMMA AllGone ==
    ASSUME TypeOK, Gone("context"), Gone("browser"), Gone("playwright")
    PROVE  live = {}
BY DEF TypeOK, Gone, Kinds

(* A step of close() works on what its attribute refers to.                *)
LEMMA CloseFromTargets ==
    ASSUME TypeOK, NEW c \in Callers, NEW i \in 1..6, CloseFrom(c, i)
    PROVE  /\ pc'[c] \notin StartSteps
           /\ pc'[c] = "close_context" => target'[c] = fields["context"]
           /\ pc'[c] = "close_browser" => target'[c] = fields["browser"]
           /\ pc'[c] = "close_playwright" => target'[c] = fields["playwright"]
<1>1. ASSUME NEW j \in i..5, Suspend(c, CloseOrder[j], Owner(j))
      PROVE  /\ pc'[c] \notin StartSteps
             /\ pc'[c] = "close_context" => target'[c] = fields["context"]
             /\ pc'[c] = "close_browser" => target'[c] = fields["browser"]
             /\ pc'[c] = "close_playwright" => target'[c] = fields["playwright"]
  <2>1. pc'[c] = CloseOrder[j] /\ target'[c] = Owner(j) /\ j \in 1..5
    BY <1>1, GoesTo
  <2>2. j = 1 \/ j = 2 \/ j = 3 \/ j = 4 \/ j = 5
    BY <2>1
  <2> QED BY <2>1, <2>2 DEF CloseOrder, Owner, ClosedAt, StartSteps
<1>2. CloseReturn(c) => pc'[c] = "idle"
  BY LeavesIdle DEF CloseReturn
<1> QED BY <1>1, <1>2 DEF CloseFrom, StartSteps

(* close() going on from step i leaves somebody to release the rest, or    *)
(* there is none.                                                          *)
LEMMA CloseFromReleases ==
    ASSUME TypeOK, TypeOK', NEW c \in Callers, NEW i \in 1..6, CloseFrom(c, i),
           UNCHANGED <<fields, background>>, LiveIsOwned',
           i > 2 => Gone("context")', i > 3 => Gone("browser")', i > 4 => Gone("playwright")',
           i = 6 => background = 0
    PROVE  \/ pc'[c] \in CloseSteps /\ GoneAt(pc[c])'
           \/ live' = {} /\ background' = 0
<1>n. None \notin Callers
  BY NoneAssumption
<1>o. /\ Owner(2) = fields["context"] /\ Owner(3) = fields["browser"]
      /\ Owner(4) = fields["playwright"]
  BY DEF Owner, ClosedAt
<1>g. /\ fields["context"] = None => Gone("context")'
      /\ fields["browser"] = None => Gone("browser")'
      /\ fields["playwright"] = None => Gone("playwright")'
  BY <1>n DEF LiveIsOwned, Gone, Kinds
<1>d. /\ ~Due(2) => Gone("context")'
      /\ ~Due(3) => Gone("browser")'
  BY <1>o, <1>g DEF Due
<1>e. ~Due(4) => Gone("playwright")'
  BY <1>o, <1>g DEF Due
<1>1. ASSUME NEW j \in i..5, Due(j), \A k \in i..(j - 1) : ~Due(k),
             Suspend(c, CloseOrder[j], Owner(j))
      PROVE  pc'[c] \in CloseSteps /\ GoneAt(pc[c])'
  <2>1. pc'[c] = CloseOrder[j] /\ j \in 1..5
    BY <1>1, GoesTo
  <2>2. /\ j > 2 => Gone("context")'
        /\ j > 3 => Gone("browser")'
    <3>1. /\ j > 2 /\ ~(i > 2) => 2 \in i..(j - 1)
          /\ j > 3 /\ ~(i > 3) => 3 \in i..(j - 1)
      BY <2>1
    <3> QED BY <1>1, <1>d, <3>1
  <2>3. j > 4 => Gone("playwright")'
    <3>1. j > 4 /\ ~(i > 4) => 4 \in i..(j - 1)
      BY <2>1
    <3> QED BY <1>1, <1>e, <3>1
  <2>4. /\ j = 1 => pc'[c] = "close_dispose"
        /\ j = 2 => pc'[c] = "close_context"
        /\ j = 3 => pc'[c] = "close_browser"
        /\ j = 4 => pc'[c] = "close_playwright"
        /\ j = 5 => pc'[c] = "close_gather"
    BY <2>1 DEF CloseOrder
  <2>5. j = 1 \/ j = 2 \/ j = 3 \/ j = 4 \/ j = 5
    BY <2>1
  <2>6. pc'[c] \in CloseSteps
    BY <2>4, <2>5 DEF CloseSteps
  <2>7. GoneAt(pc[c])'
    BY <2>2, <2>3, <2>4, <2>5 DEF GoneAt
  <2> QED BY <2>6, <2>7
<1>2. ASSUME \A j \in i..5 : ~Due(j), CloseReturn(c)
      PROVE  live' = {} /\ background' = 0
  <2>0. /\ i > 2 \/ 2 \in i..5
        /\ i > 3 \/ 3 \in i..5
        /\ i > 4 \/ 4 \in i..5
        /\ i = 6 \/ 5 \in i..5
    OBVIOUS
  <2>1. Gone("context")' /\ Gone("browser")' /\ Gone("playwright")'
    BY <1>2, <1>d, <1>e, <2>0
  <2>2. live' = {}
    BY <2>1 DEF TypeOK, Gone, Kinds
  <2>3. background' = 0
    <3>1. i = 6 \/ ~Due(5)
      BY <1>2, <2>0
    <3>2. background \in Nat
      BY BoundsAssumption DEF TypeOK
    <3> QED BY <3>1, <3>2 DEF Due
  <2> QED BY <2>2, <2>3
<1> QED BY <1>1, <1>2 DEF CloseFrom

(* A first close() releases what there is, from its first step on.         *)
LEMMA CloseBodyReleases ==
    ASSUME TypeOK, TypeOK', ReleaseInv, NEW c \in Callers, CloseBody(c), state # "closed",
           UNCHANGED <<resources, background>>
    PROVE  \/ pc'[c] \in CloseSteps /\ GoneAt(pc[c])'
           \/ live' = {} /\ background' = 0
<1>1. CloseFrom(c, 1) /\ UNCHANGED <<fields, background>>
  BY DEF CloseBody, resources
<1>2. LiveIsOwned'
  BY DEF ReleaseInv, LiveIsOwned, resources
<1> QED BY <1>1, <1>2, CloseFromReleases

(* A later step of close() has its object gone and goes on.                *)
LEMMA ClosingReleases ==
    ASSUME TypeOK, TypeOK', ReleaseInv, NEW c \in Callers, Closing(c), GoneAt(pc[c])
    PROVE  \/ pc'[c] \in CloseSteps /\ GoneAt(pc[c])'
           \/ live' = {} /\ background' = 0
<1>1. PICK i \in 1..5 :
        /\ pc[c] = CloseOrder[i] /\ (i = 5 => background = 0)
        /\ live' = live \ (Contents[ClosedAt[i]] \X {target[c]}) /\ CloseFrom(c, i + 1)
  BY DEF Closing
<1>2. UNCHANGED <<fields, background>> /\ live' \subseteq live
  BY <1>1 DEF Closing
<1>3. LiveIsOwned'
  BY <1>2 DEF ReleaseInv, LiveIsOwned
<1>4. /\ i = 2 => pc[c] = "close_context"
      /\ i = 3 => pc[c] = "close_browser"
      /\ i = 4 => pc[c] = "close_playwright"
      /\ i = 5 => pc[c] = "close_gather"
  BY <1>1 DEF CloseOrder
<1>5. /\ i > 2 => Gone("context")
      /\ i > 3 => Gone("browser")
      /\ i > 4 => Gone("playwright")
  <2>1. i = 1 \/ i = 2 \/ i = 3 \/ i = 4 \/ i = 5
    BY <1>1
  <2> QED BY <1>4, <2>1 DEF GoneAt
<1>6. \A k \in Kinds : Gone(k) => Gone(k)'
  BY <1>2 DEF Gone
<1>7. i = 2 => Gone("context")'
  <2> SUFFICES ASSUME i = 2, NEW s \in Callers PROVE <<"context", s>> \notin live'
    BY DEF Gone
  <2>1. live' = live \ ({"context"} \X {fields["context"]})
    BY <1>1, <1>4 DEF ReleaseInv, ClosesWhatItOwns, Contents, ClosedAt
  <2> QED BY <2>1 DEF ReleaseInv, LiveIsOwned, Kinds
<1>8. i = 3 => Gone("browser")'
  <2> SUFFICES ASSUME i = 3, NEW s \in Callers PROVE <<"browser", s>> \notin live'
    BY DEF Gone
  <2>1. live' = live \ ({"context", "browser"} \X {fields["browser"]})
    BY <1>1, <1>4 DEF ReleaseInv, ClosesWhatItOwns, Contents, ClosedAt
  <2> QED BY <2>1 DEF ReleaseInv, LiveIsOwned, Kinds
<1>9. i = 4 => Gone("playwright")'
  <2> SUFFICES ASSUME i = 4, NEW s \in Callers PROVE <<"playwright", s>> \notin live'
    BY DEF Gone
  <2>1. live' = live \ (Kinds \X {fields["playwright"]})
    BY <1>1, <1>4 DEF ReleaseInv, ClosesWhatItOwns, Contents, ClosedAt
  <2> QED BY <2>1 DEF ReleaseInv, LiveIsOwned, Kinds
<1>10. /\ i + 1 > 2 => Gone("context")'
       /\ i + 1 > 3 => Gone("browser")'
       /\ i + 1 > 4 => Gone("playwright")'
       /\ i + 1 = 6 => background = 0
       /\ i + 1 \in 1..6
  <2>1. i = 1 \/ i = 2 \/ i = 3 \/ i = 4 \/ i = 5
    BY <1>1
  <2>2. "context" \in Kinds /\ "browser" \in Kinds /\ "playwright" \in Kinds
    BY DEF Kinds
  <2> QED BY <1>1, <1>5, <1>6, <1>7, <1>8, <1>9, <2>1, <2>2
<1> QED BY <1>1, <1>2, <1>3, <1>10, CloseFromReleases

(* Most segments have nothing to do with any of this.                      *)
Plain(c) ==
    /\ UNCHANGED <<state, resources, background>>
    /\ pc[c] \notin StartSteps \union CloseSteps /\ pc'[c] \notin StartSteps \union CloseSteps

LEMMA RestIsPlain ==
    ASSUME TypeOK, CallsInv, NEW c \in Callers,
           \/ Refused(c) \/ InvalidRequest(c) \/ UnresolvedReference(c) \/ Navigate(c)
           \/ Inspect(c) \/ Click(c) \/ Type(c) \/ ReadDiagnostics(c) \/ TakeScreenshot(c)
           \/ Timed(c) \/ Untimed(c) \/ Disposed(c) \/ Cancel(c)
    PROVE  Plain(c)
<1> USE LeavesIdle, GoesTo DEF Plain, StartSteps, CloseSteps
<1>a. ASSUME NEW o, Admitted(c, o) PROVE pc[c] = "waiting"
  BY <1>a DEF Admitted, Turn
<1>n. ASSUME NavigateTo(c) PROVE pc'[c] \notin StartSteps \union CloseSteps
  BY <1>n, NavigateToShape
<1>1. CASE Refused(c)
  BY <1>1 DEF Refused, Turn
<1>2. CASE InvalidRequest(c)
  BY <1>2, <1>a DEF InvalidRequest
<1>3. CASE UnresolvedReference(c)
  BY <1>3, <1>a DEF UnresolvedReference
<1>4. CASE Navigate(c)
  BY <1>4, <1>a, <1>n DEF Navigate
<1>5. CASE Inspect(c)
  BY <1>5, <1>a DEF Inspect
<1>6. CASE Click(c)
  BY <1>6, <1>a DEF Click
<1>7. CASE Type(c)
  BY <1>7, <1>a DEF Type, Dispatch
<1>8. CASE ReadDiagnostics(c)
  BY <1>8, <1>a DEF ReadDiagnostics
<1>9. CASE TakeScreenshot(c)
  BY <1>9, <1>a DEF TakeScreenshot
<1>10. CASE Goto(c)
  BY <1>10 DEF Goto
<1>11. CASE GotoFailed(c)
  BY <1>11 DEF GotoFailed
<1>12. CASE Title(c)
  BY <1>12 DEF Title
<1>13. CASE Scan(c)
  BY <1>13 DEF Scan
<1>14. CASE Disposed(c)
  BY <1>14, <1>n DEF Disposed
<1>15. CASE Validate(c)
  BY <1>15 DEF Validate, Dispatch
<1>16. CASE Perform(c)
  BY <1>16 DEF Perform
<1>17. CASE Capture(c)
  BY <1>17 DEF Capture
<1>18. CASE Cancel(c)
  BY <1>18 DEF Cancel, LeaveOp, OpSteps
<1> QED
  BY <1>1, <1>2, <1>3, <1>4, <1>5, <1>6, <1>7, <1>8, <1>9, <1>10, <1>11, <1>12, <1>13, <1>14,
     <1>15, <1>16, <1>17, <1>18 DEF Timed, Untimed

(* A plain segment, or any that leaves resources and the steps of start()  *)
(* and close() alone, keeps the invariant.                                 *)
LEMMA QuietRelease ==
    ASSUME ReleaseInv, UNCHANGED <<state, fields, live, aborted>>,
           live = {} /\ background = 0 => background' = 0,
           \A c \in Callers :
             \/ pc'[c] = pc[c] /\ target'[c] = target[c]
             \/ /\ pc[c] \notin StartSteps \union CloseSteps
                /\ pc'[c] \notin StartSteps \union CloseSteps
    PROVE  ReleaseInv'
<1> USE DEF ReleaseInv, StartSteps, CloseSteps
<1>g. \A k : Gone(k)' <=> Gone(k)
  BY DEF Gone
<1>1. LiveIsOwned'
  BY DEF LiveIsOwned
<1>2. StartIsFresh'
  <2>1. state' = "new" /\ (\A c \in Callers : pc'[c] \notin StartSteps) => live' = {}
    BY DEF StartIsFresh
  <2>2. ASSUME NEW c \in Callers
        PROVE  /\ pc'[c] = "start_playwright" => live' = {}
               /\ pc'[c] = "launch" => Gone("browser")' /\ Gone("context")'
               /\ pc'[c] = "new_context" => Gone("context")'
    BY <1>g DEF StartIsFresh
  <2> QED BY <2>1, <2>2 DEF StartIsFresh
<1>3. ClosesWhatItOwns'
  BY DEF ClosesWhatItOwns
<1>4. SomebodyReleases'
  <2> SUFFICES ASSUME state = "closed", ~aborted
               PROVE  \/ \E c \in Callers : pc'[c] \in CloseSteps /\ GoneAt(pc[c])'
                      \/ live' = {} /\ background' = 0
    BY DEF SomebodyReleases
  <2>1. CASE live = {} /\ background = 0
    BY <2>1
  <2>2. ASSUME NEW c \in Callers, pc[c] \in CloseSteps, GoneAt(pc[c])
        PROVE  pc'[c] \in CloseSteps /\ GoneAt(pc[c])'
    <3>1. pc'[c] = pc[c]
      BY <2>2
    <3> QED BY <2>2, <3>1, <1>g DEF GoneAt
  <2> QED BY <2>1, <2>2 DEF SomebodyReleases
<1> QED BY <1>1, <1>2, <1>3, <1>4

(* When callers wait for start(), nobody else is in the session with it.   *)
LEMMA StarterAlone ==
    ASSUME AwaitStart, CallsInv, NEW c \in Callers, op[c] = "start"
    PROVE  /\ \A d \in Callers : d # c => pc[d] = "idle"
           /\ pc[c] \in StartSteps => state = "new"
BY DEF CallsInv, StartAlone, PcMatchesOp

(* The first close() of a session.                                         *)
LEMMA FirstClose ==
    ASSUME AwaitStart, TypeOK, TypeOK', CallsInv, ReleaseInv, NEW c \in Callers, CloseBody(c),
           state # "closed", pc[c] # "idle", Leaves(c) \/ Goes(c),
           UNCHANGED <<resources, background>>
    PROVE  ReleaseInv'
<1>1. /\ state' = "closed" /\ CloseFrom(c, 1)
      /\ UNCHANGED <<fields, live, aborted>>
  BY DEF CloseBody, resources
<1>2. \A d \in Callers :
        d # c => pc[d] \notin StartSteps /\ pc'[d] = pc[d] /\ target'[d] = target[d]
  BY StarterAlone, OthersUntouched DEF CallsInv, PcMatchesOp
<1>3. LiveIsOwned'
  BY <1>1 DEF ReleaseInv, LiveIsOwned
<1>4. /\ pc'[c] \notin StartSteps
      /\ pc'[c] = "close_context" => target'[c] = fields["context"]
      /\ pc'[c] = "close_browser" => target'[c] = fields["browser"]
      /\ pc'[c] = "close_playwright" => target'[c] = fields["playwright"]
  BY <1>1, CloseFromTargets
<1>5. StartIsFresh'
  <2>1. \A d \in Callers : pc'[d] \notin StartSteps
    BY <1>2, <1>4
  <2> QED BY <1>1, <2>1 DEF StartIsFresh, StartSteps
<1>6. ClosesWhatItOwns'
  BY <1>1, <1>2, <1>4 DEF ReleaseInv, ClosesWhatItOwns
<1>7. SomebodyReleases'
  BY CloseBodyReleases DEF SomebodyReleases
<1> QED BY <1>3, <1>5, <1>6, <1>7 DEF ReleaseInv

LEMMA StartingRelease ==
    ASSUME AwaitStart, TypeOK, CallsInv, ReleaseInv, NEW c \in Callers, Starting(c),
           Leaves(c) \/ Goes(c)
    PROVE  ReleaseInv'
<1>1. pc[c] \in StartSteps /\ op[c] = "start"
  BY DEF Starting, StartSteps, CallsInv, PcMatchesOp
<1>2. /\ state = "new"
      /\ \A d \in Callers : d # c => pc'[d] = "idle"
  BY <1>1, StarterAlone, OthersUntouched
<1>3. state' \in {"new", "active"}
  BY <1>2 DEF Starting, Creates, resources
<1>4. SomebodyReleases'
  BY <1>3 DEF SomebodyReleases
<1>5. pc'[c] \in {"launch", "new_context", "route", "new_page", "idle"}
  BY LeavesIdle, GoesTo DEF Starting, Creates
<1>6. ClosesWhatItOwns'
  BY <1>2, <1>5 DEF ClosesWhatItOwns
<1>k. "playwright" \in Kinds /\ "browser" \in Kinds /\ "context" \in Kinds
  BY DEF Kinds
<1>7. LiveIsOwned'
  <2>1. CASE UNCHANGED resources
    BY <2>1 DEF resources, ReleaseInv, LiveIsOwned
  <2>2. ASSUME NEW k \in Kinds, Gone(k), fields' = [fields EXCEPT ![k] = c],
               live' = live \union {<<k, c>>}
        PROVE  LiveIsOwned'
    <3> SUFFICES ASSUME NEW l \in Kinds, NEW s \in Callers, <<l, s>> \in live'
                 PROVE  fields'[l] = s
      BY DEF LiveIsOwned
    <3>1. CASE l = k
      BY <2>2, <3>1 DEF Gone, TypeOK
    <3>2. CASE l # k
      BY <2>2, <3>2 DEF ReleaseInv, LiveIsOwned, TypeOK
    <3> QED BY <3>1, <3>2
  <2>3. \/ UNCHANGED resources
        \/ \E k \in Kinds : /\ Gone(k) /\ fields' = [fields EXCEPT ![k] = c]
                            /\ live' = live \union {<<k, c>>}
    BY <1>k DEF Starting, Creates, ReleaseInv, StartIsFresh, Gone
  <2> QED BY <2>1, <2>2, <2>3
<1>8. StartIsFresh'
  <2>1. state' = "new" => pc'[c] \in StartSteps
    BY <1>2, LeavesIdle, GoesTo DEF Starting, Creates, StartSteps
  <2>2. ASSUME pc'[c] = "launch" PROVE Gone("browser")' /\ Gone("context")'
    <3>1. live = {} /\ live' = live \union {<<"playwright", c>>}
      BY <2>2, GoesTo, LeavesIdle DEF Starting, Creates, ReleaseInv, StartIsFresh
    <3> QED BY <3>1 DEF Gone
  <2>3. ASSUME pc'[c] = "new_context" PROVE Gone("context")'
    <3>1. Gone("context") /\ live' = live \union {<<"browser", c>>}
      BY <2>3, GoesTo, LeavesIdle DEF Starting, Creates, ReleaseInv, StartIsFresh
    <3> QED BY <3>1 DEF Gone
  <2> QED BY <1>2, <1>5, <2>1, <2>2, <2>3 DEF StartIsFresh
<1> QED BY <1>4, <1>6, <1>7, <1>8 DEF ReleaseInv

LEMMA ClosingRelease ==
    ASSUME AwaitStart, TypeOK, TypeOK', CallsInv, ReleaseInv, NEW c \in Callers, Closing(c),
           Leaves(c) \/ Goes(c)
    PROVE  ReleaseInv'
<1>1. PICK i \in 1..5 :
        /\ pc[c] = CloseOrder[i] /\ CloseFrom(c, i + 1)
        /\ live' \subseteq live /\ UNCHANGED <<state, background, fields, aborted>>
  BY DEF Closing
<1>2. pc[c] \in CloseSteps
  BY <1>1 DEF CloseOrder, CloseSteps
<1>3. \A d \in Callers : d # c => pc'[d] = pc[d] /\ target'[d] = target[d]
  BY OthersUntouched
<1>4. i + 1 \in 1..6
  BY <1>1
<1>5. /\ pc'[c] \notin StartSteps
      /\ pc'[c] = "close_context" => target'[c] = fields["context"]
      /\ pc'[c] = "close_browser" => target'[c] = fields["browser"]
      /\ pc'[c] = "close_playwright" => target'[c] = fields["playwright"]
  BY <1>1, <1>4, CloseFromTargets
<1>6. LiveIsOwned'
  BY <1>1 DEF ReleaseInv, LiveIsOwned
<1>g. \A k : Gone(k) => Gone(k)'
  BY <1>1 DEF Gone
<1>7. StartIsFresh'
  <2>1. pc[c] \notin StartSteps
    BY <1>2 DEF CloseSteps, StartSteps
  <2>2. ASSUME state' = "new", \A d \in Callers : pc'[d] \notin StartSteps PROVE live' = {}
    <3>1. \A d \in Callers : pc[d] \notin StartSteps
      BY <1>3, <2>1, <2>2
    <3> QED BY <1>1, <2>2, <3>1 DEF ReleaseInv, StartIsFresh
  <2>3. ASSUME NEW d \in Callers
        PROVE  /\ pc'[d] = "start_playwright" => live' = {}
               /\ pc'[d] = "launch" => Gone("browser")' /\ Gone("context")'
               /\ pc'[d] = "new_context" => Gone("context")'
    <3>1. CASE d = c
      BY <1>5, <3>1 DEF StartSteps
    <3>2. CASE d # c
      BY <1>1, <1>3, <1>g, <3>2 DEF ReleaseInv, StartIsFresh
    <3> QED BY <3>1, <3>2
  <2> QED BY <2>2, <2>3 DEF StartIsFresh
<1>8. ClosesWhatItOwns'
  BY <1>1, <1>3, <1>5 DEF ReleaseInv, ClosesWhatItOwns
<1>9. SomebodyReleases'
  <2> SUFFICES ASSUME state = "closed", ~aborted
               PROVE  \/ \E d \in Callers : pc'[d] \in CloseSteps /\ GoneAt(pc[d])'
                      \/ live' = {} /\ background' = 0
    BY <1>1 DEF SomebodyReleases
  <2>1. CASE live = {} /\ background = 0
    BY <1>1, <2>1
  <2>2. ASSUME NEW d \in Callers, pc[d] \in CloseSteps, GoneAt(pc[d])
        PROVE  \/ \E e \in Callers : pc'[e] \in CloseSteps /\ GoneAt(pc[e])'
               \/ live' = {} /\ background' = 0
    <3>1. CASE d = c
      BY <2>2, <3>1, ClosingReleases
    <3>2. CASE d # c
      <4>1. pc'[d] = pc[d]
        BY <1>3, <3>2
      <4> QED BY <2>2, <4>1, <1>g DEF GoneAt
    <3> QED BY <3>1, <3>2
  <2> QED BY <2>1, <2>2 DEF ReleaseInv, SomebodyReleases
<1> QED BY <1>6, <1>7, <1>8, <1>9 DEF ReleaseInv

(* A close() that is left takes the blame for what is not released.        *)
LEMMA LeaveCloseRelease ==
    ASSUME TypeOK, ReleaseInv, NEW c \in Callers, pc[c] \in CloseSteps, LeaveClose(c)
    PROVE  ReleaseInv'
<1>1. aborted' = TRUE /\ UNCHANGED <<state, background, fields, live>> /\ pc'[c] = "idle"
  BY LeavesIdle DEF LeaveClose
<1>2. \A d \in Callers : d # c => pc'[d] = pc[d] /\ target'[d] = target[d]
  BY DEF LeaveClose, Return, TypeOK
<1>3. pc[c] \notin StartSteps
  BY DEF CloseSteps, StartSteps
<1>4. LiveIsOwned' /\ SomebodyReleases'
  BY <1>1 DEF ReleaseInv, LiveIsOwned, SomebodyReleases
<1>5. StartIsFresh'
  BY <1>1, <1>2, <1>3 DEF ReleaseInv, StartIsFresh, Gone, StartSteps
<1>6. ClosesWhatItOwns'
  BY <1>1, <1>2 DEF ReleaseInv, ClosesWhatItOwns
<1> QED BY <1>4, <1>5, <1>6 DEF ReleaseInv

LEMMA ReleaseStep ==
    ASSUME AwaitStart, TypeOK, TypeOK', CallsInv, ReleaseInv, [Next]_vars
    PROVE  ReleaseInv'
<1>1. ASSUME NEW c \in Callers, NEW o \in Ops, Call(c, o) PROVE ReleaseInv'
  <2>1. \A d \in Callers :
          \/ pc'[d] = pc[d] /\ target'[d] = target[d]
          \/ /\ pc[d] \notin StartSteps \union CloseSteps
             /\ pc'[d] \notin StartSteps \union CloseSteps
    BY <1>1 DEF Call, TypeOK, StartSteps, CloseSteps
  <2> QED BY <1>1, <2>1, QuietRelease DEF Call, resources
<1>2. CASE DeniedRequest \/ DownloadStarted \/ PopupOpened \/ BackgroundDone \/ Expire
           \/ UNCHANGED vars
  <2>1. UNCHANGED <<state, fields, live, aborted, pc, target>>
    BY <1>2 DEF DeniedRequest, DownloadStarted, PopupOpened, BackgroundDone, Expire, vars,
                resources, calls
  <2>2. live = {} /\ background = 0 => background' = 0
    BY <1>2 DEF DeniedRequest, DownloadStarted, PopupOpened, BackgroundDone, Expire, vars, PageOpen
  <2> QED BY <2>1, <2>2, QuietRelease
<1>3. ASSUME NEW c \in Callers, Leaves(c) \/ Goes(c), UNCHANGED <<state, resources, background>>,
             pc[c] \notin StartSteps \union CloseSteps, pc'[c] \notin StartSteps \union CloseSteps
      PROVE  ReleaseInv'
  BY <1>3, OthersUntouched, QuietRelease DEF resources
<1>4. ASSUME NEW c \in Callers, Leaves(c) \/ Goes(c), CloseBody(c),
             UNCHANGED <<resources, background>>, pc[c] # "idle",
             pc[c] \notin StartSteps \union CloseSteps \/ state # "closed"
      PROVE  ReleaseInv'
  <2>1. CASE state # "closed"
    BY <1>4, <2>1, FirstClose
  <2>2. CASE state = "closed"
    <3>1. state' = state /\ pc'[c] = "idle"
      BY <1>4, <2>2, LeavesIdle DEF CloseBody, CloseReturn
    <3>2. "idle" \notin StartSteps \union CloseSteps
      BY DEF StartSteps, CloseSteps
    <3> QED BY <1>3, <1>4, <2>2, <3>1, <3>2
  <2> QED BY <2>1, <2>2
<1>5. ASSUME NEW c \in Callers,
             \/ Enter(c) \/ Starting(c) \/ StartFails(c) \/ Closing(c) \/ CloseCut(c)
             \/ Timed(c) \/ Untimed(c) \/ Disposed(c) \/ Cancel(c)
      PROVE  ReleaseInv'
  <2>s. Leaves(c) \/ Goes(c)
    BY <1>5, SegmentShape
  <2>w. "waiting" \notin StartSteps \union CloseSteps \union {"idle"}
    BY DEF StartSteps, CloseSteps
  <2>1. CASE StartCall(c)
    <3>1. /\ pc[c] = "waiting" /\ op[c] = "start"
          /\ UNCHANGED <<state, fields, live, aborted, background>>
      BY <2>1 DEF StartCall, Turn, resources
    <3>2. CASE Return(c, "SESSION_CLOSED")
      <4>1. pc'[c] = "idle"
        BY <3>2, LeavesIdle
      <4> QED BY <2>1, <2>s, <2>w, <3>1, <4>1, <1>3 DEF StartCall, StartSteps, CloseSteps
    <3>3. CASE state = "new" /\ Suspend(c, "start_playwright", c)
      <4>1. \A d \in Callers : d # c => pc[d] = "idle" /\ pc'[d] = "idle"
        BY <2>s, <3>1, StarterAlone, OthersUntouched
      <4>2. pc'[c] = "start_playwright"
        BY <3>3, GoesTo
      <4>3. live = {}
        <5>1. \A d \in Callers : pc[d] \notin StartSteps
          BY <3>1, <4>1 DEF StartSteps
        <5> QED BY <3>3, <5>1 DEF ReleaseInv, StartIsFresh
      <4>4. LiveIsOwned' /\ StartIsFresh'
        BY <3>1, <4>1, <4>2, <4>3 DEF LiveIsOwned, StartIsFresh, Gone
      <4>5. ClosesWhatItOwns' /\ SomebodyReleases'
        BY <3>1, <3>3, <4>1, <4>2 DEF ClosesWhatItOwns, SomebodyReleases
      <4> QED BY <4>4, <4>5 DEF ReleaseInv
    <3> QED BY <2>1, <3>2, <3>3 DEF StartCall
  <2>2. CASE CloseCall(c)
    BY <2>2, <2>s, <2>w, <1>4 DEF CloseCall, Turn
  <2>3. CASE Terminate(c)
    BY <2>3, <2>s, <2>w, <1>4 DEF Terminate, Admitted, Turn
  <2>4. CASE StartFails(c)
    <3>1. pc[c] \in StartSteps /\ op[c] = "start"
      BY <2>4 DEF StartFails, CallsInv, PcMatchesOp
    <3>2. state = "new" /\ pc[c] # "idle"
      BY <3>1, StarterAlone DEF StartSteps
    <3> QED BY <2>4, <2>s, <3>2, <1>4 DEF StartFails
  <2>5. CASE Starting(c)
    BY <2>5, <2>s, StartingRelease
  <2>6. CASE Closing(c)
    BY <2>6, <2>s, ClosingRelease
  <2>7. CASE CloseCut(c)
    BY <2>7, LeaveCloseRelease DEF CloseCut
  <2>8. CASE \/ Refused(c) \/ InvalidRequest(c) \/ UnresolvedReference(c) \/ Navigate(c)
             \/ Inspect(c) \/ Click(c) \/ Type(c) \/ ReadDiagnostics(c) \/ TakeScreenshot(c)
             \/ Timed(c) \/ Untimed(c) \/ Disposed(c) \/ Cancel(c)
    BY <2>8, <2>s, <1>3, RestIsPlain DEF Plain
  <2> QED BY <1>5, <2>1, <2>2, <2>3, <2>4, <2>5, <2>6, <2>7, <2>8 DEF Enter
<1> QED BY <1>1, <1>2, <1>5 DEF Next

LEMMA ReleaseInit == Init => ReleaseInv
BY DEF Init, ReleaseInv, LiveIsOwned, StartIsFresh, ClosesWhatItOwns, SomebodyReleases, StartSteps

(* When callers wait for start(), a close() that came to its end has left  *)
(* nothing behind, wherever start() failed and whoever closed.             *)
THEOREM Cleanup ==
    ASSUME AwaitStart
    PROVE  Spec => []CleanupComplete
<1>1. Init => TypeOK /\ CallsInv /\ ReleaseInv
  BY TypeInit, CallsInvInit, ReleaseInit
<1>2. TypeOK /\ CallsInv /\ ReleaseInv /\ [Next]_vars => (TypeOK /\ CallsInv /\ ReleaseInv)'
  BY TypeStep, CallsInvStep, ReleaseStep
<1>3. ReleaseInv => CleanupComplete
  BY DEF ReleaseInv, SomebodyReleases, CleanupComplete, Settled
<1> QED BY <1>1, <1>2, <1>3, PTL DEF Spec

(* Only start() ever adds to what runs.                                    *)
LEMMA OnlyStartCreates ==
    ASSUME TypeOK, CallsInv, [Next]_vars
    PROVE  live' \subseteq live \/ \E c \in Callers : Starting(c)
<1>1. ASSUME NEW c \in Callers, NEW o \in Ops, Call(c, o) PROVE live' = live
  BY <1>1 DEF Call, resources
<1>2. ASSUME NEW c \in Callers,
             \/ Enter(c) \/ StartFails(c) \/ Closing(c) \/ CloseCut(c)
             \/ Timed(c) \/ Untimed(c) \/ Disposed(c) \/ Cancel(c)
      PROVE  live' \subseteq live
  <2>1. CASE \/ Refused(c) \/ InvalidRequest(c) \/ UnresolvedReference(c) \/ Navigate(c)
             \/ Inspect(c) \/ Click(c) \/ Type(c) \/ ReadDiagnostics(c) \/ TakeScreenshot(c)
             \/ Timed(c) \/ Untimed(c) \/ Disposed(c) \/ Cancel(c)
    BY <2>1, RestIsPlain DEF Plain, resources
  <2>2. CASE StartCall(c) \/ CloseCall(c) \/ Terminate(c) \/ StartFails(c)
    BY <2>2 DEF StartCall, CloseCall, Terminate, StartFails, resources
  <2>3. CASE Closing(c) \/ CloseCut(c)
    BY <2>3 DEF Closing, CloseCut, LeaveClose
  <2> QED BY <1>2, <2>1, <2>2, <2>3 DEF Enter
<1>3. CASE DeniedRequest \/ DownloadStarted \/ PopupOpened \/ BackgroundDone \/ Expire
           \/ UNCHANGED vars
  BY <1>3
  DEF DeniedRequest, DownloadStarted, PopupOpened, BackgroundDone, Expire, vars, resources
<1> QED BY <1>1, <1>2, <1>3 DEF Next

StartsNothing == state = "closed" => live' \subseteq live

(* A closed session creates no driver, browser or context.                 *)
ClosedStartsNothing == [][StartsNothing]_vars

(* When callers wait for start(), nothing comes up in a closed session any *)
(* more: what a close() leaves, because it is still at work or was cut, is *)
(* all there will ever be to release. (With two overlapping start() calls, *)
(* or one and a close(), it fails.)                                        *)
THEOREM ReleaseIsFinal ==
    ASSUME AwaitStart
    PROVE  Spec => ClosedStartsNothing
<1>1. ASSUME TypeOK, CallsInv, [Next]_vars PROVE StartsNothing
  <2>1. ASSUME NEW c \in Callers, Starting(c) PROVE state = "new"
    <3>1. pc[c] \in StartSteps
      BY <2>1 DEF Starting, StartSteps
    <3> QED BY <1>1, <3>1 DEF CallsInv, StartAlone
  <2> QED BY <1>1, <2>1, OnlyStartCreates DEF StartsNothing
<1>2. TypeOK /\ CallsInv /\ [Next]_vars => StartsNothing
  BY <1>1
<1> QED BY <1>2, CallsInvHolds, PTL DEF Spec, ClosedStartsNothing

-----------------------------------------------------------------------------
(* The contract. The lock is the operation in progress: its holder is past *)
(* the first await of a locked operation, and only inspect() inspects.     *)

HolderWorks ==
    /\ LockIsWorked
    /\ \A c \in Callers : pc[c] \in Inspecting => op[c] = "inspect"

Busy == IF lock = None THEN "none" ELSE op[lock]

LEMMA BusyReturn ==
    ASSUME TypeOK, NEW c \in Callers, NEW r, Return(c, r)
    PROVE  Busy' = IF lock = c THEN "none" ELSE Busy
<1>n. None \notin Callers
  BY NoneAssumption
<1>1. CASE lock = c
  BY <1>1 DEF Return, Busy
<1>2. CASE lock # c
  <2>1. lock' = lock /\ (lock # None => op'[lock] = op[lock])
    BY <1>2 DEF Return, TypeOK
  <2> QED BY <1>2, <2>1 DEF Busy
<1> QED BY <1>1, <1>2

LEMMA BusySuspend ==
    ASSUME TypeOK, NEW c \in Callers, NEW p, NEW t, Suspend(c, p, t)
    PROVE  Busy' = IF op[c] \in LockedOps THEN op[c] ELSE Busy
<1>n. c # None
  BY NoneAssumption
<1> QED BY <1>n DEF Suspend, Busy

LEMMA BusyCall ==
    ASSUME TypeOK, HolderWorks, NEW c \in Callers, NEW o, Call(c, o)
    PROVE  Busy' = Busy
<1>1. pc[c] = "idle" /\ lock' = lock /\ op' = [op EXCEPT ![c] = o]
  BY DEF Call
<1>2. lock # c
  BY <1>1, NoneAssumption DEF HolderWorks, LockIsWorked
<1> QED BY <1>1, <1>2 DEF Busy, TypeOK

(* Only Inspect goes to a scan, and only a scan to the disposal after it.  *)
LEMMA WhoInspects ==
    ASSUME TypeOK, CallsInv, HolderWorks, NEW c \in Callers,
           \/ Enter(c) \/ Starting(c) \/ StartFails(c) \/ Closing(c) \/ CloseCut(c)
           \/ Timed(c) \/ Untimed(c) \/ Disposed(c) \/ Cancel(c),
           pc'[c] \in Inspecting
    PROVE  op[c] = "inspect"
<1> USE LeavesIdle, GoesTo DEF Inspecting
<1>n. ASSUME NavigateTo(c) PROVE FALSE
  BY <1>n, NavigateToShape
<1>b. ASSUME CloseBody(c) PROVE FALSE
  BY <1>b, CloseBodyShape DEF CloseSteps
<1>1. CASE Enter(c)
  <2>1. Inspect(c)
    BY <1>1, <1>n, <1>b
    DEF Enter, StartCall, CloseCall, Refused, InvalidRequest, UnresolvedReference, Navigate,
        Click, Type, Dispatch, ReadDiagnostics, TakeScreenshot, Terminate
  <2> QED BY <2>1 DEF Inspect, Admitted, Turn
<1>2. CASE Starting(c)
  BY <1>2 DEF Starting, Creates
<1>3. CASE StartFails(c)
  BY <1>3, <1>b DEF StartFails
<1>4. CASE Closing(c)
  <2>1. PICK i \in 1..5 : CloseFrom(c, i + 1)
    BY <1>4 DEF Closing
  <2>2. i + 1 \in 1..6
    OBVIOUS
  <2> QED BY <2>1, <2>2, CloseFromShape DEF CloseSteps
<1>5. CASE CloseCut(c)
  BY <1>5 DEF CloseCut, LeaveClose
<1>6. CASE Scan(c)
  BY <1>6 DEF Scan, HolderWorks, LockIsWorked
<1>7. CASE Goto(c) \/ GotoFailed(c) \/ Perform(c) \/ Capture(c) \/ Title(c)
  BY <1>7 DEF Goto, GotoFailed, Perform, Capture, Title
<1>8. CASE Validate(c)
  BY <1>8 DEF Validate, Dispatch
<1>9. CASE Disposed(c)
  BY <1>9, <1>n DEF Disposed
<1>10. CASE Cancel(c)
  BY <1>10 DEF Cancel, LeaveOp
<1> QED BY <1>1, <1>2, <1>3, <1>4, <1>5, <1>6, <1>7, <1>8, <1>9, <1>10 DEF Timed, Untimed

LEMMA HolderReturn ==
    ASSUME TypeOK, HolderWorks, NEW c \in Callers, NEW r, Return(c, r)
    PROVE  HolderWorks'
<1>1. lock' # c /\ (lock' # None => lock' = lock)
  BY NoneAssumption DEF Return
<1> QED BY <1>1 DEF Return, HolderWorks, LockIsWorked, TypeOK, Inspecting

LEMMA HolderStep == TypeOK /\ CallsInv /\ HolderWorks /\ [Next]_vars => HolderWorks'
<1> SUFFICES ASSUME TypeOK, CallsInv, HolderWorks, [Next]_vars PROVE HolderWorks'
  OBVIOUS
<1>n. None \notin Callers
  BY NoneAssumption
<1>1. CASE UNCHANGED calls
  BY <1>1 DEF calls, HolderWorks, LockIsWorked
<1>2. ASSUME NEW c \in Callers, NEW o \in Ops, Call(c, o) PROVE HolderWorks'
  <2>1. lock # c
    BY <1>2, <1>n DEF Call, HolderWorks, LockIsWorked
  <2> QED BY <1>2, <2>1 DEF Call, HolderWorks, LockIsWorked, TypeOK, Inspecting
<1>3. ASSUME NEW c \in Callers,
             \/ Enter(c) \/ Starting(c) \/ StartFails(c) \/ Closing(c) \/ CloseCut(c)
             \/ Timed(c) \/ Untimed(c) \/ Disposed(c) \/ Cancel(c)
      PROVE  HolderWorks'
  <2>1. pc'[c] \in Inspecting => op[c] = "inspect"
    BY <1>3, WhoInspects
  <2>2. ASSUME Goes(c) PROVE HolderWorks'
    <3>1. PICK p \in StartSteps \union CloseSteps \union OpSteps,
               t \in (Nat \X Nat) \union Callers \union {None} : Suspend(c, p, t)
      BY <2>2 DEF Goes
    <3>2. p \notin {"idle", "waiting"}
      BY DEF StartSteps, CloseSteps, OpSteps
    <3>3. /\ pc' = [pc EXCEPT ![c] = p] /\ op' = op
          /\ lock' = (IF op[c] \in LockedOps THEN c ELSE lock)
      BY <3>1 DEF Suspend
    <3>4. lock' # None => op'[lock'] \in LockedOps /\ pc'[lock'] \notin {"idle", "waiting"}
      BY <3>2, <3>3 DEF HolderWorks, LockIsWorked, TypeOK
    <3>5. ASSUME NEW d \in Callers, pc'[d] \in Inspecting PROVE op'[d] = "inspect"
      BY <2>1, <3>3, <3>5 DEF HolderWorks, LockIsWorked, TypeOK
    <3> QED BY <3>4, <3>5 DEF HolderWorks, LockIsWorked
  <2> QED BY <1>3, <2>2, HolderReturn, SegmentShape DEF Leaves
<1>4. CASE DeniedRequest \/ DownloadStarted \/ PopupOpened \/ BackgroundDone \/ Expire
           \/ UNCHANGED vars
  BY <1>1, <1>4 DEF DeniedRequest, DownloadStarted, PopupOpened, BackgroundDone, Expire, vars
<1> QED BY <1>2, <1>3, <1>4 DEF Next

LEMMA HolderInit == Init => HolderWorks
BY DEF Init, HolderWorks, LockIsWorked, Inspecting

(* The lock is never lost: no cancellation, error, early return or close() *)
(* leaves it with a caller that is not in the middle of a locked           *)
(* operation, for any number of callers.                                   *)
THEOREM NobodyKeepsTheLock == Spec => []LockIsWorked
<1>1. Init => TypeOK /\ CallsInv /\ HolderWorks
  BY TypeInit, CallsInvInit, HolderInit
<1>2. TypeOK /\ CallsInv /\ HolderWorks /\ [Next]_vars => (TypeOK /\ CallsInv /\ HolderWorks)'
  BY TypeStep, CallsInvStep, HolderStep
<1>3. HolderWorks => LockIsWorked
  BY DEF HolderWorks
<1> QED BY <1>1, <1>2, <1>3, PTL DEF Spec

-----------------------------------------------------------------------------
(* Progress of the calls, as far as it is a matter of steps: a call goes   *)
(* forward only.                                                           *)

(* How many more times a call that awaits p can await something.           *)
AwaitsLeft(p) ==
    CASE p = "idle"                             -> 0
      [] p \in {"close_gather", "title", "goto_failed", "insp_dispose", "perform",
                "capture"}                      -> 1
      [] p \in {"close_playwright", "goto", "scan", "validate"} -> 2
      [] p \in {"close_browser", "nav_dispose"} -> 3
      [] p = "close_context"                    -> 4
      [] p = "close_dispose"                    -> 5
      [] p = "new_page"                         -> 6
      [] p = "route"                            -> 7
      [] p = "new_context"                      -> 8
      [] p = "launch"                           -> 9
      [] p = "start_playwright"                 -> 10
      [] p = "waiting"                          -> 11

(* A call that gets on has less to await than before.                      *)
GoForward ==
    \A c \in Callers :
        pc'[c] # pc[c] /\ pc[c] # "idle" => AwaitsLeft(pc'[c]) < AwaitsLeft(pc[c])

(* No call goes back to an await it has been through, whatever the page,   *)
(* the driver and the other callers do: there is no retry in session.py.   *)
(* A call goes through eleven awaits at most, the disposal of a list of    *)
(* handles and the scan of a page counted as one each.                     *)
CallsGoForward == [][GoForward]_vars

(* The awaits, by how far they are from the end of the call.               *)
LEMMA AwaitsTable ==
    /\ AwaitsLeft("idle") = 0
    /\ \A p \in {"close_gather", "title", "goto_failed", "insp_dispose", "perform", "capture"} :
         AwaitsLeft(p) = 1
    /\ \A p \in {"close_playwright", "goto", "scan", "validate"} : AwaitsLeft(p) = 2
    /\ \A p \in {"close_browser", "nav_dispose"} : AwaitsLeft(p) = 3
    /\ AwaitsLeft("close_context") = 4 /\ AwaitsLeft("close_dispose") = 5
    /\ AwaitsLeft("new_page") = 6 /\ AwaitsLeft("route") = 7
    /\ AwaitsLeft("new_context") = 8 /\ AwaitsLeft("launch") = 9
    /\ AwaitsLeft("start_playwright") = 10 /\ AwaitsLeft("waiting") = 11
BY DEF AwaitsLeft

LEMMA AwaitsRange ==
    /\ \A p \in CloseSteps : AwaitsLeft(p) \in 1..5
    /\ \A p \in StartSteps : AwaitsLeft(p) \in 6..10
    /\ \A p \in OpSteps : AwaitsLeft(p) \in 1..3
BY AwaitsTable DEF CloseSteps, StartSteps, OpSteps

Forward(c) == AwaitsLeft(pc'[c]) < AwaitsLeft(pc[c])

(* Returning is always forward.                                            *)
LEMMA ReturnForward ==
    ASSUME TypeOK, NEW c \in Callers, NEW r, Return(c, r), pc[c] # "idle"
    PROVE  Forward(c)
<1>1. pc[c] = "waiting" \/ pc[c] \in StartSteps \/ pc[c] \in CloseSteps \/ pc[c] \in OpSteps
  BY DEF TypeOK
<1>2. AwaitsLeft(pc[c]) \in 1..11
  BY <1>1, AwaitsTable, AwaitsRange
<1>3. AwaitsLeft(pc'[c]) = 0
  BY LeavesIdle, AwaitsTable
<1> QED BY <1>2, <1>3 DEF Forward

(* So is a close() that goes on with a later one of its steps.             *)
LEMMA CloseFromForward ==
    ASSUME TypeOK, NEW c \in Callers, NEW i \in 1..6, CloseFrom(c, i), pc[c] # "idle",
           AwaitsLeft(pc[c]) > 6 - i
    PROVE  Forward(c)
<1>1. ASSUME NEW j \in i..5, Suspend(c, CloseOrder[j], Owner(j)) PROVE Forward(c)
  <2>1. pc'[c] = CloseOrder[j] /\ j \in 1..5
    BY <1>1, GoesTo
  <2>2. j = 1 \/ j = 2 \/ j = 3 \/ j = 4 \/ j = 5
    BY <2>1
  <2>3. AwaitsLeft(pc'[c]) = 6 - j
    BY <2>1, <2>2, AwaitsTable DEF CloseOrder
  <2>4. AwaitsLeft(pc[c]) \in Nat
    <3>1. pc[c] = "waiting" \/ pc[c] \in StartSteps \/ pc[c] \in CloseSteps \/ pc[c] \in OpSteps
      BY DEF TypeOK
    <3> QED BY <3>1, AwaitsTable, AwaitsRange
  <2> QED BY <2>3, <2>4 DEF Forward
<1>2. CloseReturn(c) => Forward(c)
  BY ReturnForward DEF CloseReturn
<1> QED BY <1>1, <1>2 DEF CloseFrom

LEMMA CloseBodyForward ==
    ASSUME TypeOK, NEW c \in Callers, CloseBody(c), pc[c] \in StartSteps \union {"waiting"}
    PROVE  Forward(c)
<1>1. pc[c] # "idle" /\ AwaitsLeft(pc[c]) > 5
  BY AwaitsTable, AwaitsRange DEF StartSteps
<1>2. CloseFrom(c, 1) => Forward(c)
  BY <1>1, CloseFromForward
<1>3. CloseReturn(c) => Forward(c)
  BY <1>1, ReturnForward DEF CloseReturn
<1> QED BY <1>2, <1>3 DEF CloseBody

(* A first segment goes anywhere: no await is as far from the end as the   *)
(* queue for the lock.                                                     *)
LEMMA TurnForward ==
    ASSUME TypeOK, TypeOK', NEW c \in Callers, pc[c] = "waiting", pc'[c] # "waiting"
    PROVE  Forward(c)
<1>1. \/ pc'[c] = "idle" \/ pc'[c] \in StartSteps \/ pc'[c] \in CloseSteps
      \/ pc'[c] \in OpSteps
  BY DEF TypeOK
<1>2. AwaitsLeft(pc'[c]) \in 0..10
  BY <1>1, AwaitsTable, AwaitsRange
<1> QED BY <1>2, AwaitsTable DEF Forward

LEMMA SegmentForward ==
    ASSUME TypeOK, TypeOK', CallsInv, NEW c \in Callers,
           \/ Enter(c) \/ Starting(c) \/ StartFails(c) \/ Closing(c) \/ CloseCut(c)
           \/ Timed(c) \/ Untimed(c) \/ Disposed(c) \/ Cancel(c)
    PROVE  Forward(c)
<1>s. Leaves(c) \/ Goes(c)
  BY SegmentShape
<1>i. pc[c] # "idle"
  BY <1>s DEF Leaves, Goes
<1>r. \A r : Return(c, r) => Forward(c)
  BY <1>i, ReturnForward
<1>1. CASE pc[c] = "waiting"
  <2>1. pc'[c] # "waiting"
    BY <1>s, LeavesIdle, GoesTo DEF Leaves, Goes, StartSteps, CloseSteps, OpSteps
  <2> QED BY <1>1, <2>1, TurnForward
<1>2. CASE Enter(c) /\ pc[c] # "waiting"
  BY <1>2
  DEF Enter, StartCall, CloseCall, Refused, InvalidRequest, UnresolvedReference, Navigate,
      Inspect, Click, Type, ReadDiagnostics, TakeScreenshot, Terminate, Admitted, Turn
<1>3. CASE Starting(c)
  BY <1>3, <1>r, GoesTo, AwaitsTable DEF Starting, Creates, Forward
<1>4. CASE StartFails(c)
  BY <1>4, CloseBodyForward DEF StartFails
<1>5. CASE Closing(c)
  <2>1. PICK i \in 1..5 : pc[c] = CloseOrder[i] /\ CloseFrom(c, i + 1)
    BY <1>5 DEF Closing
  <2>2. i = 1 \/ i = 2 \/ i = 3 \/ i = 4 \/ i = 5
    BY <2>1
  <2>3. AwaitsLeft(pc[c]) = 6 - i
    BY <2>1, <2>2, AwaitsTable DEF CloseOrder
  <2>4. i + 1 \in 1..6 /\ AwaitsLeft(pc[c]) > 6 - (i + 1)
    BY <2>3
  <2> QED BY <1>i, <2>1, <2>4, CloseFromForward
<1>6. CASE CloseCut(c)
  BY <1>6, <1>r DEF CloseCut, LeaveClose
<1>7. CASE Goto(c)
  BY <1>7, <1>r, GoesTo, AwaitsTable DEF Goto, Forward
<1>8. CASE GotoFailed(c) \/ Title(c) \/ Perform(c) \/ Capture(c)
  BY <1>8, <1>r DEF GotoFailed, Title, Perform, Capture
<1>9. CASE Scan(c)
  BY <1>9, <1>r, GoesTo, AwaitsTable DEF Scan, Forward
<1>10. CASE Disposed(c)
  <2>1. pc[c] = "nav_dispose" /\ NavigateTo(c) => Forward(c)
    BY <1>r, NavigateToShape, GoesTo, AwaitsTable DEF Forward
  <2> QED BY <1>10, <1>r, <2>1 DEF Disposed
<1>11. CASE Validate(c)
  BY <1>11, <1>r, GoesTo, AwaitsTable DEF Validate, Dispatch, Forward
<1>12. CASE Cancel(c)
  BY <1>12, <1>r DEF Cancel, LeaveOp
<1> QED
  BY <1>1, <1>2, <1>3, <1>4, <1>5, <1>6, <1>7, <1>8, <1>9, <1>10, <1>11, <1>12
  DEF Timed, Untimed

(* No call is ever sent back, however start() and close() interleave with  *)
(* it: what CallsReturn asks for beyond this is that each await ends.      *)
THEOREM NoCallGoesBack == Spec => CallsGoForward
<1>1. ASSUME TypeOK, CallsInv, [Next]_vars, NEW d \in Callers, pc'[d] # pc[d], pc[d] # "idle"
      PROVE  Forward(d)
  <2>1. ASSUME NEW c \in Callers, NEW o \in Ops, Call(c, o) PROVE Forward(d)
    BY <1>1, <2>1 DEF Call, TypeOK
  <2>2. ASSUME NEW c \in Callers,
               \/ Enter(c) \/ Starting(c) \/ StartFails(c) \/ Closing(c) \/ CloseCut(c)
               \/ Timed(c) \/ Untimed(c) \/ Disposed(c) \/ Cancel(c)
        PROVE  Forward(d)
    <3>1. Leaves(c) \/ Goes(c)
      BY <1>1, <2>2, SegmentShape
    <3>2. d = c
      BY <1>1, <3>1, OthersUntouched
    <3>3. TypeOK'
      BY <1>1, TypeStep
    <3> QED BY <1>1, <2>2, <3>2, <3>3, SegmentForward
  <2>3. CASE DeniedRequest \/ DownloadStarted \/ PopupOpened \/ BackgroundDone \/ Expire
             \/ UNCHANGED vars
    BY <1>1, <2>3
    DEF DeniedRequest, DownloadStarted, PopupOpened, BackgroundDone, Expire, vars, calls
  <2> QED BY <1>1, <2>1, <2>2, <2>3 DEF Next
<1>2. TypeOK /\ CallsInv /\ [Next]_vars => GoForward
  BY <1>1 DEF Forward, GoForward
<1> QED BY <1>2, CallsInvHolds, PTL DEF Spec, CallsGoForward

-----------------------------------------------------------------------------
ContractStep == Contract!ContractNext \/ UNCHANGED Contract!contractVars

(* A segment that changes nothing the contract is about ends the operation *)
(* in progress, if that is c's, or goes on with it.                        *)
LEMMA QuietContract ==
    ASSUME TypeOK, HolderWorks, NEW c \in Callers, Leaves(c) \/ Goes(c),
           UNCHANGED <<state, actions, generation, elements>>,
           pc[c] = "waiting" /\ op[c] \in LockedOps => pc'[c] = "idle",
           pc[c] # "waiting" /\ op[c] \in LockedOps => lock = c
    PROVE  ContractStep
<1>n. c # None
  BY NoneAssumption
<1>v. Busy' = Busy => UNCHANGED Contract!contractVars
  BY DEF Busy, Contract!contractVars
<1>1. ASSUME NEW r, Return(c, r) PROVE ContractStep
  <2>1. CASE lock = c
    <3>1. Busy # "none" /\ Busy' = "none"
      BY <1>1, <2>1, <1>n, BusyReturn DEF Busy, HolderWorks, LockIsWorked, LockedOps
    <3>2. Contract!End
      BY <3>1 DEF Contract!End, Busy
    <3> QED BY <3>2 DEF ContractStep, Contract!ContractNext
  <2>2. CASE lock # c
    BY <1>1, <2>2, <1>v, BusyReturn DEF ContractStep
  <2> QED BY <2>1, <2>2
<1>2. ASSUME NEW p \in StartSteps \union CloseSteps \union OpSteps, NEW t, Suspend(c, p, t)
      PROVE  ContractStep
  <2>1. CASE op[c] \in LockedOps
    <3>1. pc'[c] # "idle"
      BY <1>2, GoesTo DEF StartSteps, CloseSteps, OpSteps
    <3>2. lock = c
      BY <2>1, <3>1
    <3>3. Busy' = Busy
      BY <1>2, <2>1, <3>2, <1>n, BusySuspend DEF Busy
    <3> QED BY <3>3, <1>v DEF ContractStep
  <2>2. CASE op[c] \notin LockedOps
    BY <1>2, <2>2, <1>v, BusySuspend DEF ContractStep
  <2> QED BY <2>1, <2>2
<1> QED BY <1>1, <1>2 DEF Leaves, Goes

LEMMA AdmitContract ==
    ASSUME TypeOK, NEW c \in Callers, NEW o \in LockedOps, Admitted(c, o), Leaves(c) \/ Goes(c),
           generation' = generation,
           \/ UNCHANGED <<state, elements>>
           \/ o = "navigate" /\ elements' = {} /\ UNCHANGED state
           \/ o \in {"finish", "help"} /\ elements' = {} /\ state' = "closed"
    PROVE  ContractStep
<1>1. /\ op[c] = o /\ lock = None /\ state = "active"
      /\ actions < MaxActions /\ actions' = actions + 1
  BY DEF Admitted, Turn
<1>2. Busy = "none" /\ lock # c
  BY <1>1, NoneAssumption DEF Busy
<1>3. Busy' \in {"none", o}
  BY <1>1, <1>2, BusyReturn, BusySuspend DEF Leaves, Goes
<1>4. Contract!Admit(o)
  BY <1>1, <1>2, <1>3 DEF Contract!Admit, Busy
<1>5. o \in Contract!Operations
  BY DEF LockedOps, Contract!Operations
<1> QED BY <1>4, <1>5 DEF ContractStep, Contract!ContractNext

(* close(), on behalf of who holds no lock.                                *)
LEMMA CloseContract ==
    ASSUME TypeOK, HolderWorks, NEW c \in Callers, Leaves(c) \/ Goes(c), CloseBody(c),
           op[c] \notin LockedOps, UNCHANGED actions
    PROVE  ContractStep
<1>1. CASE state # "closed"
  <2>1. /\ state' = "closed" /\ elements' = {} /\ generation' = generation
    BY <1>1 DEF CloseBody, ClearObservation
  <2>2. Busy' = Busy
    <3>1. lock # c
      BY NoneAssumption DEF HolderWorks, LockIsWorked
    <3> QED BY <3>1, BusyReturn, BusySuspend DEF Leaves, Goes
  <2>3. Contract!Close
    BY <1>1, <2>1, <2>2 DEF Contract!Close, Busy
  <2> QED BY <2>3 DEF ContractStep, Contract!ContractNext
<1>2. CASE state = "closed"
  BY <1>2, QuietContract DEF CloseBody, observation
<1> QED BY <1>1, <1>2

(* The end of an inspection; the caller has the lock.                      *)
LEMMA ObserveContract ==
    ASSUME TypeOK, CallsInv, HolderWorks, NEW c \in Callers, pc[c] \in Inspecting,
           NEW n \in 0..MaxElements, Register(n), NEW r, Return(c, r), UNCHANGED <<state, actions>>
    PROVE  ContractStep
<1>1. lock = c /\ op[c] = "inspect" /\ c # None
  BY MayGo, NoneAssumption
  DEF Inspecting, CallsInv, PcMatchesOp, OpSteps, HolderWorks, LockIsWorked
<1>2. Busy = "inspect" /\ Busy' = "none"
  BY <1>1, BusyReturn DEF Busy
<1>3. /\ generation' = generation + 1
      /\ elements' \in SUBSET ({generation'} \X (1..MaxElements))
  BY BoundsAssumption DEF Register, TypeOK
<1>4. Contract!Observe
  BY <1>2, <1>3 DEF Contract!Observe, Busy
<1> QED BY <1>4 DEF ContractStep, Contract!ContractNext

LEMMA SegmentContract ==
    ASSUME AwaitStart, TypeOK, CallsInv, HolderWorks, NEW c \in Callers,
           \/ Enter(c) \/ Starting(c) \/ StartFails(c) \/ Closing(c) \/ CloseCut(c)
           \/ Timed(c) \/ Untimed(c) \/ Disposed(c) \/ Cancel(c)
    PROVE  ContractStep
<1>s. Leaves(c) \/ Goes(c)
  BY SegmentShape
<1>o. pc[c] # "idle" /\ pc[c] # "waiting" /\ op[c] \in LockedOps => lock = c
  BY MayGo
<1>i. pc[c] # "idle"
  BY <1>s DEF Leaves, Goes
<1>q. ASSUME UNCHANGED <<state, actions, generation, elements>>,
             pc[c] # "waiting" \/ op[c] \notin LockedOps \/ pc'[c] = "idle"
      PROVE  ContractStep
  BY <1>s, <1>o, <1>i, <1>q, QuietContract
<1>l. /\ "navigate" \in LockedOps /\ "inspect" \in LockedOps /\ "click" \in LockedOps
      /\ "type" \in LockedOps /\ "diagnostics" \in LockedOps /\ "screenshot" \in LockedOps
      /\ "finish" \in LockedOps /\ "help" \in LockedOps
      /\ "start" \notin LockedOps /\ "close" \notin LockedOps
  BY DEF LockedOps
<1>1. CASE StartCall(c)
  BY <1>1, <1>q, <1>l DEF StartCall, Turn, observation
<1>2. CASE CloseCall(c)
  BY <1>2, <1>s, <1>l, CloseContract DEF CloseCall, Turn
<1>3. CASE Refused(c)
  <2>1. PICK o \in LockedOps : Turn(c, o)
    BY <1>3 DEF Refused
  <2>2. UNCHANGED <<state, generation, elements>>
    BY <1>3 DEF Refused, observation
  <2>3. CASE UNCHANGED actions
    BY <1>3, <1>q, <2>2, <2>3, LeavesIdle DEF Refused
  <2>4. CASE state = "active" /\ actions < MaxActions /\ expired /\ actions' = actions + 1
             /\ Return(c, "WALL_CLOCK_TIMEOUT")
    <3>1. /\ op[c] = o /\ lock = None /\ lock # c
      BY <2>1, NoneAssumption DEF Turn
    <3>2. Busy = "none" /\ Busy' = "none"
      BY <2>4, <3>1, BusyReturn DEF Busy
    <3>3. Contract!Admit(o)
      BY <2>2, <2>4, <3>2 DEF Contract!Admit, Busy
    <3>4. o \in Contract!Operations
      BY DEF LockedOps, Contract!Operations
    <3> QED BY <3>3, <3>4 DEF ContractStep, Contract!ContractNext
  <2> QED BY <1>3, <2>3, <2>4 DEF Refused
<1>4. CASE InvalidRequest(c)
  BY <1>4, <1>s, <1>l, AdmitContract DEF InvalidRequest, observation
<1>5. CASE UnresolvedReference(c)
  BY <1>5, <1>s, <1>l, AdmitContract DEF UnresolvedReference, observation
<1>6. CASE Navigate(c)
  BY <1>6, <1>s, <1>l, AdmitContract DEF Navigate, ClearObservation
<1>7. CASE Inspect(c)
  BY <1>7, <1>s, <1>l, AdmitContract DEF Inspect, observation
<1>8. CASE Click(c)
  BY <1>8, <1>s, <1>l, AdmitContract DEF Click, observation
<1>9. CASE Type(c)
  BY <1>9, <1>s, <1>l, AdmitContract DEF Type, observation
<1>10. CASE ReadDiagnostics(c)
  BY <1>10, <1>s, <1>l, AdmitContract DEF ReadDiagnostics, observation
<1>11. CASE TakeScreenshot(c)
  BY <1>11, <1>s, <1>l, AdmitContract DEF TakeScreenshot, observation
<1>12. CASE Terminate(c)
  <2>1. PICK o \in {"finish", "help"} : Admitted(c, o)
    BY <1>12 DEF Terminate
  <2>2. CloseBody(c) /\ state = "active"
    BY <1>12, <2>1 DEF Terminate, Admitted
  <2>3. state' = "closed" /\ elements' = {} /\ generation' = generation
    BY <2>2 DEF CloseBody, ClearObservation
  <2> QED BY <1>s, <1>l, <2>1, <2>3, AdmitContract
<1>13. CASE Starting(c)
  <2>1. pc[c] \in StartSteps /\ op[c] = "start"
    BY <1>13 DEF Starting, StartSteps, CallsInv, PcMatchesOp
  <2>2. state = "new" /\ UNCHANGED <<actions, generation, elements>>
    BY <1>13, <2>1, StarterAlone DEF Starting, observation
  <2>3. CASE state' = state
    BY <1>q, <1>l, <2>1, <2>2, <2>3
  <2>4. CASE state' = "active" /\ Return(c, "ok")
    <3>1. lock # c
      BY <1>l, <2>1, NoneAssumption DEF HolderWorks, LockIsWorked
    <3>2. Busy' = Busy
      BY <2>4, <3>1, BusyReturn
    <3>3. Contract!Open
      BY <2>2, <2>4, <3>2 DEF Contract!Open, Busy
    <3> QED BY <3>3 DEF ContractStep, Contract!ContractNext
  <2> QED BY <1>13, <2>3, <2>4 DEF Starting, Creates
<1>14. CASE StartFails(c)
  <2>1. op[c] = "start"
    BY <1>14 DEF StartFails, CallsInv, PcMatchesOp
  <2> QED BY <1>14, <1>s, <1>l, <2>1, CloseContract DEF StartFails
<1>15. CASE Closing(c)
  <2>1. pc[c] # "waiting"
    BY <1>15 DEF Closing, CloseOrder
  <2> QED BY <1>15, <1>q, <2>1 DEF Closing, observation
<1>16. CASE CloseCut(c)
  BY <1>16, <1>q, LeavesIdle DEF CloseCut, LeaveClose, observation
<1>17. CASE Goto(c) \/ GotoFailed(c) \/ Title(c) \/ Validate(c) \/ Perform(c) \/ Capture(c)
  BY <1>17, <1>q DEF Goto, GotoFailed, Title, Validate, Perform, Capture, observation
<1>18. CASE Scan(c)
  <2>1. pc[c] \in Inspecting /\ UNCHANGED <<state, actions>> /\ pc[c] # "waiting"
    BY <1>18 DEF Scan, Inspecting
  <2>2. CASE UNCHANGED observation
    BY <1>q, <2>1, <2>2 DEF observation
  <2>3. CASE ClearObservation /\ Suspend(c, "insp_dispose", None)
    <3>1. lock = c /\ op[c] = "inspect" /\ c # None
      BY <1>o, <1>i, <1>l, <2>1, NoneAssumption DEF HolderWorks, LockIsWorked
    <3>2. Busy = "inspect" /\ Busy' = "inspect"
      BY <1>l, <2>3, <3>1, BusySuspend DEF Busy
    <3>3. Contract!Forget
      BY <2>1, <2>3, <3>2 DEF Contract!Forget, Busy, ClearObservation
    <3> QED BY <3>3 DEF ContractStep, Contract!ContractNext
  <2>4. ASSUME NEW n \in 0..MaxElements, Register(n), Return(c, "ok") PROVE ContractStep
    BY <2>1, <2>4, ObserveContract
  <2> QED BY <1>18, <2>2, <2>3, <2>4 DEF Scan
<1>19. CASE Disposed(c)
  <2>1. UNCHANGED <<state, actions>> /\ pc[c] # "waiting"
    BY <1>19 DEF Disposed
  <2>2. CASE UNCHANGED observation
    BY <1>q, <2>1, <2>2 DEF observation
  <2>3. ASSUME pc[c] = "insp_dispose", NEW n \in 0..MaxElements, Register(n), Return(c, "ok")
        PROVE  ContractStep
    BY <2>1, <2>3, ObserveContract DEF Inspecting
  <2> QED BY <1>19, <2>2, <2>3 DEF Disposed
<1>20. CASE Cancel(c)
  BY <1>20, <1>q, LeavesIdle DEF Cancel, LeaveOp, observation
<1> QED
  BY <1>1, <1>2, <1>3, <1>4, <1>5, <1>6, <1>7, <1>8, <1>9, <1>10, <1>11, <1>12, <1>13, <1>14,
     <1>15, <1>16, <1>17, <1>18, <1>19, <1>20 DEF Enter, Timed, Untimed

LEMMA NextContract ==
    ASSUME AwaitStart, TypeOK, CallsInv, HolderWorks, [Next]_vars
    PROVE  ContractStep
<1>v. Busy' = Busy /\ UNCHANGED <<state, actions, generation, elements>> => ContractStep
  BY DEF ContractStep, Busy, Contract!contractVars
<1>1. ASSUME NEW c \in Callers, NEW o \in Ops, Call(c, o) PROVE ContractStep
  BY <1>1, <1>v, BusyCall DEF Call, observation
<1>2. ASSUME NEW c \in Callers,
             \/ Enter(c) \/ Starting(c) \/ StartFails(c) \/ Closing(c) \/ CloseCut(c)
             \/ Timed(c) \/ Untimed(c) \/ Disposed(c) \/ Cancel(c)
      PROVE  ContractStep
  BY <1>2, SegmentContract
<1>3. CASE DeniedRequest \/ DownloadStarted \/ PopupOpened \/ BackgroundDone \/ Expire
           \/ UNCHANGED vars
  <2>1. UNCHANGED <<state, actions, observation, calls>>
    BY <1>3 DEF DeniedRequest, DownloadStarted, PopupOpened, BackgroundDone, Expire, vars
  <2>2. Busy' = Busy
    BY <2>1 DEF Busy, calls
  <2> QED BY <2>1, <2>2, <1>v DEF observation
<1> QED BY <1>1, <1>2, <1>3 DEF Next

(* When callers wait for start(), the session implements its contract,     *)
(* whatever its callers do, the page does and fails.                       *)
THEOREM Implements ==
    ASSUME AwaitStart
    PROVE  Spec => KeepsContract
<1>1. Init => Contract!ContractInit /\ TypeOK /\ CallsInv /\ HolderWorks
  BY TypeInit, CallsInvInit, HolderInit DEF Init, Contract!ContractInit
<1>2. TypeOK /\ CallsInv /\ HolderWorks /\ [Next]_vars => (TypeOK /\ CallsInv /\ HolderWorks)'
  BY TypeStep, CallsInvStep, HolderStep
<1>3. TypeOK /\ CallsInv /\ HolderWorks /\ [Next]_vars
        => [Contract!ContractNext]_(Contract!contractVars)
  BY NextContract DEF ContractStep
<1> QED BY <1>1, <1>2, <1>3, PTL DEF Spec, KeepsContract, Contract!ContractSpec

(* What follows from the contract alone.                                   *)
ContractInv == Contract!ContractTypeOK /\ Contract!LatestOnly

LEMMA ContractInvInit == Contract!ContractInit => ContractInv
BY BoundsAssumption
DEF Contract!ContractInit, ContractInv, Contract!ContractTypeOK, Contract!LatestOnly

LEMMA ContractInvNext ==
    ASSUME ContractInv, Contract!ContractNext \/ UNCHANGED Contract!contractVars
    PROVE  ContractInv'
<1> USE DEF ContractInv, Contract!ContractTypeOK, Contract!LatestOnly
<1>m. MaxActions \in Nat
  BY BoundsAssumption
<1>1. CASE Contract!Open
  BY <1>1 DEF Contract!Open
<1>2. ASSUME NEW o \in Contract!Operations, Contract!Admit(o) PROVE ContractInv'
  <2>1. /\ state' \in {"new", "active", "closed"} /\ elements' \subseteq elements
        /\ Busy' \in {"none", o}
    BY <1>2 DEF Contract!Admit, Busy
  <2>2. actions' \in 0..MaxActions /\ generation' = generation /\ actions' = actions + 1
    BY <1>2, <1>m DEF Contract!Admit
  <2> QED BY <1>2, <1>m, <2>1, <2>2 DEF Busy
<1>3. CASE Contract!Forget
  BY <1>3 DEF Contract!Forget
<1>4. CASE Contract!Observe
  <2>1. /\ generation' = generation + 1 /\ generation' \in 0..MaxActions /\ generation' <= actions
        /\ actions' = actions /\ state' = state
    BY <1>4, <1>m DEF Contract!Observe
  <2>2. Busy' = "none"
    BY <1>4 DEF Contract!Observe, Busy
  <2>3. elements' \subseteq {generation'} \X (1..MaxElements)
    BY <1>4 DEF Contract!Observe
  <2>4. elements' \subseteq Nat \X (1..MaxElements)
    BY <2>1, <2>3
  <2> QED BY <2>1, <2>2, <2>3, <2>4 DEF Busy
<1>5. CASE Contract!End
  BY <1>5 DEF Contract!End
<1>6. CASE Contract!Close
  BY <1>6 DEF Contract!Close
<1>7. CASE UNCHANGED Contract!contractVars
  BY <1>7 DEF Contract!contractVars
<1> QED BY <1>1, <1>2, <1>3, <1>4, <1>5, <1>6, <1>7 DEF Contract!ContractNext

(* Whoever keeps the contract hands out references of the latest           *)
(* observation only, and pays for every observation ...                    *)
THEOREM ContractReferences == KeepsContract => []Contract!LatestOnly
<1>1. ContractInv /\ [Contract!ContractNext]_(Contract!contractVars) => ContractInv'
  BY ContractInvNext
<1>2. ContractInv => Contract!LatestOnly
  BY DEF ContractInv
<1> QED BY <1>1, <1>2, ContractInvInit, PTL DEF KeepsContract, Contract!ContractSpec

(* ... and is closed for good.                                             *)
THEOREM ContractClosesForGood == KeepsContract => Contract!ClosedForGood
<1>1. ASSUME [Contract!ContractNext]_(Contract!contractVars), state = "closed"
      PROVE  /\ state' = "closed" /\ actions' = actions
             /\ generation' # generation => Busy = "inspect"
  BY <1>1
  DEF Contract!ContractNext, Contract!Open, Contract!Admit, Contract!Forget, Contract!Observe,
      Contract!End, Contract!Close, Contract!contractVars, Busy
<1> QED BY <1>1, PTL DEF KeepsContract, Contract!ContractSpec, Contract!ClosedForGood, Busy

-----------------------------------------------------------------------------
(* Blame. The flags say what came since the browser was last set to work.  *)

FlagsInv == (blocked <=> "denied" \in seen) /\ (download <=> "download" \in seen)

LEMMA NavigateToFlags ==
    ASSUME FlagsInv, NEW c \in Callers, NavigateTo(c)
    PROVE  FlagsInv'
BY DEF NavigateTo, Dispatch, ResetFlags, flags, FlagsInv

LEMMA FlagsStep == FlagsInv /\ [Next]_vars => FlagsInv'
<1> SUFFICES ASSUME FlagsInv, [Next]_vars PROVE FlagsInv'
  OBVIOUS
<1>k. UNCHANGED flags => FlagsInv'
  BY DEF flags, FlagsInv
<1>d. ResetFlags /\ seen' = {} => FlagsInv'
  BY DEF ResetFlags, FlagsInv
<1>1. ASSUME NEW c \in Callers, NEW o \in Ops, Call(c, o) PROVE FlagsInv'
  BY <1>1, <1>k DEF Call
<1>2. CASE DeniedRequest \/ DownloadStarted \/ PopupOpened \/ BackgroundDone \/ Expire
  BY <1>2, <1>k DEF DeniedRequest, DownloadStarted, PopupOpened, BackgroundDone, Expire, FlagsInv
<1>3. CASE UNCHANGED vars
  BY <1>3, <1>k DEF vars
<1>4. ASSUME NEW c \in Callers, Enter(c) PROVE FlagsInv'
  <2>1. CASE Navigate(c)
    BY <1>k, <2>1, NavigateToFlags DEF Navigate
  <2>2. CASE Type(c)
    BY <1>d, <2>2 DEF Type, Dispatch
  <2> QED
    BY <1>4, <1>k, <2>1, <2>2
    DEF Enter, StartCall, CloseCall, Refused, InvalidRequest, UnresolvedReference, Inspect, Click,
        ReadDiagnostics, TakeScreenshot, Terminate
<1>5. ASSUME NEW c \in Callers, Disposed(c) PROVE FlagsInv'
  BY <1>5, <1>k, NavigateToFlags DEF Disposed, flags
<1>6. ASSUME NEW c \in Callers, Validate(c) PROVE FlagsInv'
  BY <1>6, <1>k, <1>d DEF Validate, Dispatch
<1>7. ASSUME NEW c \in Callers,
             \/ Starting(c) \/ StartFails(c) \/ Closing(c) \/ CloseCut(c) \/ Timed(c) \/ Title(c)
             \/ Cancel(c)
      PROVE  FlagsInv'
  BY <1>7, <1>k
  DEF Starting, StartFails, Closing, CloseCut, LeaveClose, Timed, Goto, GotoFailed, Scan, Perform,
      Capture, Title, Cancel, LeaveOp
<1> QED BY <1>1, <1>2, <1>3, <1>4, <1>5, <1>6, <1>7 DEF Next, Untimed

(* Who waits for the browser is moved on by a segment of its own.          *)
LEMMA MovedByItself ==
    ASSUME TypeOK, CallsInv, [Next]_vars, NEW c \in Callers,
           pc[c] \in {"goto", "goto_failed", "perform"}, pc'[c] # pc[c]
    PROVE  Goto(c) \/ GotoFailed(c) \/ Perform(c) \/ Cancel(c)
<1>1. ASSUME NEW d \in Callers, NEW o \in Ops, Call(d, o) PROVE FALSE
  BY <1>1 DEF Call, TypeOK
<1>2. ASSUME UNCHANGED calls PROVE FALSE
  BY <1>2 DEF calls
<1>3. ASSUME NEW d \in Callers,
             \/ Enter(d) \/ Starting(d) \/ StartFails(d) \/ Closing(d) \/ CloseCut(d)
             \/ Timed(d) \/ Untimed(d) \/ Disposed(d) \/ Cancel(d)
      PROVE  Goto(c) \/ GotoFailed(c) \/ Perform(c) \/ Cancel(c)
  <2>1. d = c
    BY <1>3, SegmentShape, OthersUntouched
  <2>2. pc[c] \notin StartSteps \union CloseSteps \union {"waiting"}
    BY DEF StartSteps, CloseSteps
  <2>3. ~Enter(c)
    BY <2>2
    DEF Enter, StartCall, CloseCall, Refused, InvalidRequest, UnresolvedReference, Navigate,
        Inspect, Click, Type, ReadDiagnostics, TakeScreenshot, Terminate, Admitted, Turn
  <2>4. ~(Starting(c) \/ StartFails(c) \/ Closing(c) \/ CloseCut(c))
    BY <2>2 DEF Starting, StartFails, Closing, CloseCut, CloseOrder, StartSteps, CloseSteps
  <2>5. ~(Scan(c) \/ Capture(c) \/ Untimed(c) \/ Disposed(c))
    BY DEF Scan, Capture, Untimed, Title, Validate, Disposed
  <2> QED BY <1>3, <2>1, <2>3, <2>4, <2>5 DEF Timed
<1> QED
  BY <1>1, <1>2, <1>3
  DEF Next, DeniedRequest, DownloadStarted, PopupOpened, BackgroundDone, Expire, vars

LEMMA ReturnsResult ==
    ASSUME TypeOK, NEW c \in Callers, NEW r, Return(c, r)
    PROVE  pc'[c] = "idle" /\ result'[c] = r
BY DEF Return, TypeOK

LEMMA FlagsHold == Spec => [](TypeOK /\ CallsInv /\ FlagsInv)
<1>1. Init => FlagsInv
  BY DEF Init, FlagsInv
<1> QED BY <1>1, FlagsStep, CallsInvHolds, PTL DEF Spec

(* A denied request or a download is blamed by the operation it came in.   *)
THEOREM FreshBlame == Spec => BlameIsFresh
<1>1. ASSUME TypeOK, CallsInv, FlagsInv, [Next]_vars
      PROVE  \A c \in Callers :
               /\ Ended(c, {"goto_failed", "perform"}, "ORIGIN_NOT_ALLOWED") => "denied" \in seen
               /\ Ended(c, {"perform"}, "DOWNLOAD_BLOCKED") => "download" \in seen
  <2> TAKE c \in Callers
  <2>1. ASSUME pc[c] \in {"goto_failed", "perform"}, pc'[c] = "idle"
        PROVE  GotoFailed(c) \/ Perform(c) \/ Cancel(c)
    BY <1>1, <2>1, MovedByItself DEF Goto
  <2>2. ASSUME GotoFailed(c)
        PROVE  pc[c] = "goto_failed" /\ (result'[c] = "ORIGIN_NOT_ALLOWED" => blocked)
    BY <1>1, <2>2, ReturnsResult DEF GotoFailed
  <2>3. ASSUME Perform(c)
        PROVE  /\ result'[c] = "ORIGIN_NOT_ALLOWED" => blocked
               /\ result'[c] = "DOWNLOAD_BLOCKED" => download
    BY <1>1, <2>3, ReturnsResult DEF Perform
  <2>4. ASSUME Cancel(c) PROVE result'[c] = "untyped"
    BY <1>1, <2>4, ReturnsResult DEF Cancel, LeaveOp
  <2> QED BY <1>1, <2>1, <2>2, <2>3, <2>4 DEF Ended, FlagsInv
<1> QED BY <1>1, FlagsHold, PTL DEF Spec, BlameIsFresh

(* A click or a type neither succeeds nor asks for another try over a      *)
(* denied request or a download, no download is told over a denial, and a  *)
(* page.goto over a denied request does not lead to a title.               *)
THEOREM NothingHushedUp == Spec => DeniedIsReported
<1>1. ASSUME TypeOK, CallsInv, FlagsInv, [Next]_vars
      PROVE  \A c \in Callers :
               /\ Ended(c, {"perform"}, "ok") => seen = {}
               /\ Ended(c, {"perform"}, "TARGET_NOT_FOUND") => seen = {}
               /\ Ended(c, {"goto_failed", "perform"}, "DOWNLOAD_BLOCKED") => "denied" \notin seen
               /\ pc[c] = "goto" /\ pc'[c] = "title" => "denied" \notin seen
  <2> TAKE c \in Callers
  <2>1. ASSUME Perform(c)
        PROVE  /\ result'[c] \in {"ok", "TARGET_NOT_FOUND"} => ~blocked /\ ~download
               /\ result'[c] = "DOWNLOAD_BLOCKED" => ~blocked
    BY <1>1, <2>1, ReturnsResult DEF Perform
  <2>2. ASSUME Cancel(c) PROVE result'[c] = "untyped" /\ pc'[c] = "idle"
    BY <1>1, <2>2, ReturnsResult DEF Cancel, LeaveOp
  <2>3. ASSUME Goto(c), pc'[c] = "title" PROVE ~blocked
    BY <1>1, <2>3, ReturnsResult, GoesTo DEF Goto
  <2>4. ASSUME GotoFailed(c)
        PROVE  pc[c] = "goto_failed" /\ (result'[c] = "DOWNLOAD_BLOCKED" => ~blocked)
    BY <1>1, <2>4, ReturnsResult DEF GotoFailed
  <2>5. ASSUME pc[c] \in {"goto_failed", "perform"}, pc'[c] = "idle"
        PROVE  Perform(c) \/ GotoFailed(c) \/ Cancel(c)
    BY <1>1, <2>5, MovedByItself DEF Goto
  <2>6. ASSUME pc[c] = "perform", pc'[c] = "idle", result'[c] \in {"ok", "TARGET_NOT_FOUND"}
        PROVE  seen = {}
    <3>1. ~blocked /\ ~download
      BY <2>1, <2>2, <2>4, <2>5, <2>6
    <3>2. seen \subseteq {"denied", "download"}
      BY <1>1 DEF TypeOK
    <3> QED BY <1>1, <3>1, <3>2 DEF FlagsInv
  <2>7. ASSUME pc[c] \in {"goto_failed", "perform"}, pc'[c] = "idle",
               result'[c] = "DOWNLOAD_BLOCKED"
        PROVE  "denied" \notin seen
    <3>1. ~blocked
      BY <2>1, <2>2, <2>4, <2>5, <2>7
    <3> QED BY <1>1, <3>1 DEF FlagsInv
  <2>8. ASSUME pc[c] = "goto", pc'[c] = "title" PROVE "denied" \notin seen
    <3>1. Goto(c) \/ Cancel(c)
      BY <1>1, <2>8, MovedByItself DEF GotoFailed, Perform
    <3> QED BY <1>1, <2>2, <2>3, <2>8, <3>1 DEF FlagsInv
  <2> QED BY <2>6, <2>7, <2>8 DEF Ended
<1> QED BY <1>1, FlagsHold, PTL DEF Spec, DeniedIsReported
=============================================================================
