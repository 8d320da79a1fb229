---------------------------- MODULE BrowserSession ----------------------------
(***************************************************************************)
(* qa_agent_lm.browser.session.BrowserSession, at the grain at which       *)
(* asyncio interleaves it: one action is the code a coroutine runs between *)
(* two awaits. Locked operations queue for self._lock; start() and close() *)
(* do not, and may run in the middle of anything. Browser, driver and page *)
(* are external: a driver call ends in any way session.py provides for.    *)
(***************************************************************************)
EXTENDS Naturals, FiniteSets

CONSTANTS
    Callers,        \* coroutines that call the session
    None,           \* Python's None: nobody, nothing
    Ops,            \* the methods the callers use
    MaxActions,     \* config.max_actions
    MaxElements,    \* elements one inspect retains (bound; at most 200 in the code)
    MaxBackground,  \* pending background tasks (bound)
    GenLimit,       \* greatest generation that _ELEMENT_REF can match: 999999
    AwaitStart,     \* do callers wait for start() to return, as "async with" does?
    Faults          \* "cancel": callers are cancelled; "error": start/close calls raise

LockedOps == {"navigate", "inspect", "click", "type", "diagnostics", "screenshot",
              "finish", "help"}

ASSUME NoneAssumption == None \notin Callers \union Nat \union (Nat \X Nat)
ASSUME OpsAssumption == Ops \subseteq LockedOps \union {"start", "close"}
ASSUME BoundsAssumption ==
    MaxActions \in Nat \ {0} /\ MaxElements \in Nat /\ MaxBackground \in Nat /\ GenLimit \in Nat
ASSUME ModeAssumption == AwaitStart \in BOOLEAN /\ Faults \subseteq {"cancel", "error"}

Kinds == {"playwright", "browser", "context"}

StartSteps == {"start_playwright", "launch", "new_context", "route", "new_page"}
CloseOrder == <<"close_dispose", "close_context", "close_browser", "close_playwright",
                "close_gather">>
CloseSteps == {"close_dispose", "close_context", "close_browser", "close_playwright",
               "close_gather"}
OpSteps == {"nav_dispose", "goto", "goto_failed", "title", "scan", "insp_dispose",
            "validate", "perform", "capture"}

(* How _ensure_allowed judges a URL: ValueError of urlsplit is untyped.    *)
Verdicts == {"ok", "ORIGIN_NOT_ALLOWED", "EXTERNAL_PROTOCOL_BLOCKED", "untyped"}

(* How a call ends: a value, the code of a BrowserToolError, or any other  *)
(* exception ("untyped": a raw Playwright error, a cancellation...).       *)
Results == Verdicts \union
    {"none", "SESSION_CLOSED", "STEP_LIMIT_EXCEEDED", "WALL_CLOCK_TIMEOUT", "INVALID_REQUEST",
     "TARGET_NOT_FOUND", "STALE_ELEMENT_REFERENCE", "NAVIGATION_TIMEOUT", "ACTION_TIMEOUT",
     "DOWNLOAD_BLOCKED", "ARTIFACT_LIMIT_EXCEEDED"}

(* References a caller may present: <<generation, index>>.                 *)
Refs == (1..MaxActions) \X (1..MaxElements + 1)

VARIABLES
    state,      \* SessionState: "new", "active", "closed"
    actions,    \* _actions
    expired,    \* the wall-clock budget since _started_at is used up
    generation, \* _observation_generation
    active,     \* _active_observation_generation
    elements,   \* keys of _elements
    blocked,    \* _blocked_url is not None
    download,   \* _download_seen
    background, \* size of _background_tasks
    fields,     \* _playwright, _browser, _context: the start() that set each, or None
    lock,       \* _lock: its holder, or None
    live,       \* external: what is running, <<kind, the start() that created it>>
    pc,         \* the await each caller is suspended in
    op,         \* the method each caller is in
    target,     \* what that await works on: a reference, or the owner of an object
    result,     \* how each caller's last call ended
    issued,     \* history: every reference an observation handed out
    seen,       \* history: policy events since the browser was last set to work
    aborted     \* history: a close() was left before its last step

observation == <<generation, active, elements, issued>>
flags == <<blocked, download, seen>>
resources == <<fields, live, aborted>>
calls == <<pc, op, target, result, lock>>
vars == <<state, actions, expired, observation, flags, background, resources, calls>>

Init ==
    /\ state = "new" /\ actions = 0 /\ expired = FALSE
    /\ generation = 0 /\ active = None /\ elements = {} /\ issued = {}
    /\ blocked = FALSE /\ download = FALSE /\ seen = {} /\ background = 0
    /\ fields = [k \in Kinds |-> None] /\ live = {} /\ aborted = FALSE
    /\ pc = [c \in Callers |-> "idle"] /\ op = [c \in Callers |-> "none"]
    /\ target = [c \in Callers |-> None] /\ result = [c \in Callers |-> "none"]
    /\ lock = None

-----------------------------------------------------------------------------
(* Coroutines and the lock.                                                *)

(* Mutant of Suspend: the lock is not taken across the await.              *)
SuspendUnlocked(c, p, t) ==
    /\ pc' = [pc EXCEPT ![c] = p]
    /\ target' = [target EXCEPT ![c] = t]
    /\ UNCHANGED <<op, result, lock>>

(* c awaits at step p, holding the lock when its operation takes it.       *)
Suspend(c, p, t) ==
    /\ pc' = [pc EXCEPT ![c] = p]
    /\ target' = [target EXCEPT ![c] = t]
    /\ lock' = IF op[c] \in LockedOps THEN c ELSE lock
    /\ UNCHANGED <<op, result>>

(* Mutant of Return: an early exit that keeps the lock.                    *)
ReturnLocked(c, r) ==
    /\ pc' = [pc EXCEPT ![c] = "idle"]
    /\ op' = [op EXCEPT ![c] = "none"]
    /\ target' = [target EXCEPT ![c] = None]
    /\ result' = [result EXCEPT ![c] = r]
    /\ UNCHANGED lock

(* c's call ends with r; "async with self._lock" lets the lock go.         *)
Return(c, r) ==
    /\ pc' = [pc EXCEPT ![c] = "idle"]
    /\ op' = [op EXCEPT ![c] = "none"]
    /\ target' = [target EXCEPT ![c] = None]
    /\ result' = [result EXCEPT ![c] = r]
    /\ lock' = IF lock = c THEN None ELSE lock

Call(c, o) ==
    /\ pc[c] = "idle" /\ o \in Ops
    /\ AwaitStart =>
         /\ \A d \in Callers : op[d] # "start"
         /\ o = "start" => \A d \in Callers : op[d] = "none"
    /\ pc' = [pc EXCEPT ![c] = "waiting"]
    /\ op' = [op EXCEPT ![c] = o]
    /\ result' = [result EXCEPT ![c] = "none"]
    /\ UNCHANGED <<state, actions, expired, observation, flags, background, resources,
                   target, lock>>

(* Mutant of Turn: operations do not queue for the lock.                   *)
TurnUnlocked(c, o) == pc[c] = "waiting" /\ op[c] = o

(* c's first segment runs; a locked operation needs the lock for it.       *)
Turn(c, o) ==
    /\ pc[c] = "waiting" /\ op[c] = o
    /\ o \in LockedOps => lock = None

(* Mutant of Admitted: the budget is checked with > for >=.                *)
AdmittedPastLimit(c, o) ==
    /\ Turn(c, o)
    /\ state = "active" /\ actions <= MaxActions /\ ~expired
    /\ actions' = actions + 1

(* _active_page and _begin_action let the operation through.               *)
Admitted(c, o) ==
    /\ Turn(c, o)
    /\ state = "active" /\ actions < MaxActions /\ ~expired
    /\ actions' = actions + 1

(* Mutant of Refused: the action is charged before the state is looked at. *)
RefusedButCharged(c) ==
    /\ \E o \in LockedOps : Turn(c, o)
    /\ \/ /\ actions < MaxActions /\ actions' = actions + 1
          /\ state # "active" /\ Return(c, "SESSION_CLOSED")
       \/ /\ actions >= MaxActions /\ UNCHANGED actions
          /\ Return(c, "STEP_LIMIT_EXCEEDED")
    /\ UNCHANGED <<state, expired, observation, flags, background, resources>>

(* They do not: the closed session spends nothing, an expired one spends.  *)
Refused(c) ==
    /\ \E o \in LockedOps : Turn(c, o)
    /\ \/ /\ state # "active" /\ UNCHANGED actions
          /\ Return(c, "SESSION_CLOSED")
       \/ /\ state = "active" /\ actions >= MaxActions /\ UNCHANGED actions
          /\ Return(c, "STEP_LIMIT_EXCEEDED")
       \/ /\ state = "active" /\ actions < MaxActions /\ expired /\ actions' = actions + 1
          /\ Return(c, "WALL_CLOCK_TIMEOUT")
    /\ UNCHANGED <<state, expired, observation, flags, background, resources>>

-----------------------------------------------------------------------------
(* Observations.                                                           *)

(* _resolve_element: a malformed reference is None here.                   *)
Resolve(r) ==
    CASE r = None                      -> "TARGET_NOT_FOUND"
      [] r # None /\ r[1] > GenLimit   -> "TARGET_NOT_FOUND"
      [] r # None /\ r[1] <= GenLimit /\ r[1] # active -> "STALE_ELEMENT_REFERENCE"
      [] r # None /\ r[1] <= GenLimit /\ r[1] = active ->
           IF r \in elements THEN "ok" ELSE "TARGET_NOT_FOUND"

(* Mutant of ClearObservation: _active_observation_generation is kept.     *)
ClearElementsOnly == elements' = {} /\ UNCHANGED <<active, generation, issued>>

(* The synchronous part of _invalidate_observation; its handles are        *)
(* disposed of in an await of their own when there are any.                *)
ClearObservation == elements' = {} /\ active' = None /\ UNCHANGED <<generation, issued>>

(* Mutant of Register: the generation is not counted up.                   *)
RegisterSameGeneration(n) ==
    /\ generation' = generation /\ active' = generation
    /\ elements' = {generation} \X (1..n)
    /\ issued' = issued \union elements'

(* The end of inspect: n handles get references of a new generation.       *)
Register(n) ==
    /\ generation' = generation + 1
    /\ active' = generation'
    /\ elements' = {generation'} \X (1..n)
    /\ issued' = issued \union elements'

-----------------------------------------------------------------------------
(* The browser. _blocked_url and _download_seen are reset before it is set *)
(* to work; page events set them again.                                    *)

PageOpen == \E s \in Callers : <<"context", s>> \in live

(* Mutant of ResetFlags: the flags of the previous operation stay.         *)
ResetNothing == UNCHANGED <<blocked, download>>

ResetFlags == blocked' = FALSE /\ download' = FALSE

Dispatch(c, p, t) == ResetFlags /\ seen' = {} /\ Suspend(c, p, t)

-----------------------------------------------------------------------------
(* close(), on behalf of any caller: dispose of the handles, close the     *)
(* three objects, gather the background tasks.                             *)

ClosedAt == <<"nothing", "context", "browser", "playwright", "nothing">>

(* What goes with an object: the driver takes the browsers it launched     *)
(* along, a browser its contexts.                                          *)
Contents == [nothing |-> {}, context |-> {"context"}, browser |-> {"context", "browser"},
             playwright |-> Kinds]

Owner(i) == IF i \in 2..4 THEN fields[ClosedAt[i]] ELSE None

(* Is there anything to await in step i? elements as close() found it.     *)
Due(i) ==
    CASE i = 1 -> elements # {}
      [] i = 5 -> background > 0
      [] OTHER -> Owner(i) # None

CloseReturn(c) == Return(c, IF op[c] = "start" THEN "untyped" ELSE "ok")

(* Mutant of CloseFrom: the background tasks are not gathered.             *)
CloseFromNoGather(c, i) ==
    \/ \E j \in i..4 :
         /\ Due(j) /\ \A k \in i..(j - 1) : ~Due(k)
         /\ Suspend(c, CloseOrder[j], Owner(j))
    \/ (\A j \in i..4 : ~Due(j)) /\ CloseReturn(c)

(* Mutant of CloseFrom: the driver is not stopped.                         *)
CloseFromNoStop(c, i) ==
    \/ \E j \in i..3 :
         /\ Due(j) /\ \A k \in i..(j - 1) : ~Due(k)
         /\ Suspend(c, CloseOrder[j], Owner(j))
    \/ (\A j \in i..3 : ~Due(j)) /\ CloseReturn(c)

(* Go on to the first step from i on that has something to await.          *)
CloseFrom(c, i) ==
    \/ \E j \in i..5 :
         /\ Due(j) /\ \A k \in i..(j - 1) : ~Due(k)
         /\ Suspend(c, CloseOrder[j], Owner(j))
    \/ (\A j \in i..5 : ~Due(j)) /\ CloseReturn(c)

(* Mutant of CloseBody: the references survive the session.                *)
CloseBodyKeepsElements(c) ==
    \/ state # "closed" /\ state' = "closed" /\ UNCHANGED observation /\ CloseFrom(c, 1)
    \/ state = "closed" /\ UNCHANGED <<state, observation>> /\ CloseReturn(c)

(* A close() that finds the session closed returns at once.                *)
CloseBody(c) ==
    \/ /\ state # "closed" /\ state' = "closed"
       /\ ClearObservation /\ CloseFrom(c, 1)
    \/ /\ state = "closed" /\ UNCHANGED <<state, observation>>
       /\ CloseReturn(c)

CloseCall(c) ==
    /\ Turn(c, "close") /\ CloseBody(c)
    /\ UNCHANGED <<actions, expired, flags, background, resources>>

(* The await of a step of close() is over; gather waits for the tasks.     *)
Closing(c) ==
    /\ \E i \in 1..5 :
         /\ pc[c] = CloseOrder[i]
         /\ i = 5 => background = 0
         /\ live' = live \ (Contents[ClosedAt[i]] \X {target[c]})
         /\ CloseFrom(c, i + 1)
    /\ UNCHANGED <<state, actions, expired, observation, flags, background, fields, aborted>>

(* A step raises, or its caller is cancelled: the steps after it are lost. *)
LeaveClose(c) ==
    /\ aborted' = TRUE /\ Return(c, "untyped")
    /\ UNCHANGED <<state, actions, expired, observation, flags, background, fields, live>>

CloseCut(c) ==
    /\ \/ "error" \in Faults /\ pc[c] \in CloseSteps \ {"close_gather"}
       \/ "cancel" \in Faults /\ pc[c] \in CloseSteps
    /\ LeaveClose(c)

-----------------------------------------------------------------------------
(* start().                                                                *)

StartCall(c) ==
    /\ Turn(c, "start")
    /\ \/ state = "new" /\ Suspend(c, "start_playwright", c)
       \/ state # "new" /\ Return(c, "SESSION_CLOSED")
    /\ UNCHANGED <<state, actions, expired, observation, flags, background, resources>>

(* An awaited step of start() succeeds when the object it needs is there.  *)
Creates(c, k, next) ==
    /\ fields' = [fields EXCEPT ![k] = c] /\ live' = live \union {<<k, c>>}
    /\ Suspend(c, next, c) /\ UNCHANGED <<state, aborted>>

Starting(c) ==
    /\ \/ /\ pc[c] = "start_playwright"
          /\ Creates(c, "playwright", "launch")
       \/ /\ pc[c] = "launch" /\ <<"playwright", c>> \in live
          /\ Creates(c, "browser", "new_context")
       \/ /\ pc[c] = "new_context" /\ <<"browser", c>> \in live
          /\ Creates(c, "context", "route")
       \/ /\ pc[c] = "route" /\ <<"context", c>> \in live
          /\ Suspend(c, "new_page", fields["context"])
          /\ UNCHANGED <<state, resources>>
       \/ /\ pc[c] = "new_page" /\ <<"context", target[c]>> \in live
          /\ state' = "active" /\ Return(c, "ok") /\ UNCHANGED resources
    /\ UNCHANGED <<actions, expired, observation, flags, background>>

(* Mutant of StartFails: the exception goes up and nothing is closed.      *)
StartJustRaises(c) ==
    /\ pc[c] \in StartSteps /\ Faults # {} /\ Return(c, "untyped")
    /\ UNCHANGED <<state, actions, expired, observation, flags, background, resources>>

(* A step raises, because of a fault or because close() took its object    *)
(* away, or the caller is cancelled: "except BaseException" closes.        *)
StartFails(c) ==
    /\ pc[c] \in StartSteps
    /\ \/ Faults # {}
       \/ pc[c] = "launch" /\ <<"playwright", c>> \notin live
       \/ pc[c] = "new_context" /\ <<"browser", c>> \notin live
       \/ pc[c] \in {"route", "new_page"} /\ <<"context", target[c]>> \notin live
    /\ CloseBody(c)
    /\ UNCHANGED <<actions, expired, flags, background, resources>>

-----------------------------------------------------------------------------
(* First segments of the locked operations.                                *)

(* Requests that fail on their arguments after being charged for.          *)
InvalidRequest(c) ==
    /\ \E o \in {"inspect", "type", "diagnostics", "screenshot", "finish", "help"} :
         Admitted(c, o)
    /\ Return(c, "INVALID_REQUEST")
    /\ UNCHANGED <<state, expired, observation, flags, background, resources>>

UnresolvedReference(c) ==
    /\ \E o \in {"inspect", "click", "type"} : Admitted(c, o)
    /\ \E r \in Refs \union {None} : Resolve(r) # "ok" /\ Return(c, Resolve(r))
    /\ UNCHANGED <<state, expired, observation, flags, background, resources>>

(* The URL is judged after the observation is gone.                        *)
NavigateTo(c) ==
    \E v \in Verdicts :
      \/ v = "ok" /\ Dispatch(c, "goto", None)
      \/ v # "ok" /\ Return(c, v) /\ UNCHANGED flags

Navigate(c) ==
    /\ Admitted(c, "navigate") /\ ClearObservation
    /\ \/ elements = {} /\ NavigateTo(c)
       \/ elements # {} /\ Suspend(c, "nav_dispose", None) /\ UNCHANGED flags
    /\ UNCHANGED <<state, expired, background, resources>>

(* inspect: the whole page, or the subtree of a reference.                 *)
Inspect(c) ==
    /\ Admitted(c, "inspect")
    /\ \E r \in elements \union {None} :
         (r = None \/ Resolve(r) = "ok") /\ Suspend(c, "scan", r)
    /\ UNCHANGED <<state, expired, observation, flags, background, resources>>

Click(c) ==
    /\ Admitted(c, "click")
    /\ \E r \in elements : Resolve(r) = "ok" /\ Suspend(c, "validate", r)
    /\ UNCHANGED <<state, expired, observation, flags, background, resources>>

Type(c) ==
    /\ Admitted(c, "type")
    /\ \E r \in elements : Resolve(r) = "ok" /\ Dispatch(c, "perform", r)
    /\ UNCHANGED <<state, expired, observation, background, resources>>

ReadDiagnostics(c) ==
    /\ Admitted(c, "diagnostics") /\ Return(c, "ok")
    /\ UNCHANGED <<state, expired, observation, flags, background, resources>>

TakeScreenshot(c) ==
    /\ Admitted(c, "screenshot")
    /\ Suspend(c, "capture", None) \/ Return(c, "ARTIFACT_LIMIT_EXCEEDED")
    /\ UNCHANGED <<state, expired, observation, flags, background, resources>>

(* finish and request_human_help close the session under the lock.         *)
Terminate(c) ==
    /\ \E o \in {"finish", "help"} : Admitted(c, o)
    /\ CloseBody(c)
    /\ UNCHANGED <<expired, flags, background, resources>>

-----------------------------------------------------------------------------
(* The segments after an await.                                            *)

(* Handles are disposed of one await after the other; one may raise.       *)
Disposed(c) ==
    /\ \/ pc[c] = "nav_dispose" /\ NavigateTo(c) /\ UNCHANGED observation
       \/ /\ pc[c] = "insp_dispose" /\ UNCHANGED flags
          /\ \E n \in 0..MaxElements : Register(n)
          /\ Return(c, "ok")
       \/ /\ pc[c] \in {"nav_dispose", "insp_dispose"} /\ Return(c, "untyped")
          /\ UNCHANGED <<flags, observation>>
    /\ UNCHANGED <<state, actions, expired, background, resources>>

(* page.goto has ended: by itself, by its own timeout, by asyncio.timeout  *)
(* when the session's time is up, or with an error. Redirects are not      *)
(* routed again, so the page may be anywhere when it succeeds.             *)
Goto(c) ==
    /\ pc[c] = "goto"
    /\ \/ /\ PageOpen
          /\ \/ blocked /\ Return(c, "ORIGIN_NOT_ALLOWED")
             \/ /\ ~blocked
                /\ \E v \in Verdicts :
                     \/ v = "ok" /\ Suspend(c, "title", None)
                     \/ v # "ok" /\ Return(c, v)
       \/ Return(c, "NAVIGATION_TIMEOUT")
       \/ expired /\ Return(c, "WALL_CLOCK_TIMEOUT")
       \/ Suspend(c, "goto_failed", None)
    /\ UNCHANGED <<state, actions, expired, observation, flags, background, resources>>

(* After the error and asyncio.sleep(0): events may have come in between.  *)
GotoFailed(c) ==
    /\ pc[c] = "goto_failed"
    /\ \/ blocked /\ Return(c, "ORIGIN_NOT_ALLOWED")
       \/ ~blocked /\ Return(c, "DOWNLOAD_BLOCKED")
       \/ ~blocked /\ ~download /\ Return(c, "untyped")
    /\ UNCHANGED <<state, actions, expired, observation, flags, background, resources>>

Title(c) ==
    /\ pc[c] = "title"
    /\ \/ PageOpen /\ Return(c, "ok")
       \/ Return(c, "untyped")
    /\ UNCHANGED <<state, actions, expired, observation, flags, background, resources>>

(* The page was scanned; the handles of the previous observation go first. *)
Scan(c) ==
    /\ pc[c] = "scan"
    /\ \/ /\ PageOpen
          /\ \/ elements = {} /\ (\E n \in 0..MaxElements : Register(n)) /\ Return(c, "ok")
             \/ elements # {} /\ ClearObservation /\ Suspend(c, "insp_dispose", None)
       \/ (Return(c, "ACTION_TIMEOUT") \/ Return(c, "untyped")) /\ UNCHANGED observation
    /\ UNCHANGED <<state, actions, expired, flags, background, resources>>

(* _validate_click_target's evaluate has answered: the element is gone, is *)
(* a download link, or leads to a URL that is judged. No URL is "ok".      *)
Validate(c) ==
    /\ pc[c] = "validate"
    /\ \/ PageOpen /\ Dispatch(c, "perform", target[c])
       \/ /\ \/ Return(c, "TARGET_NOT_FOUND")
             \/ PageOpen /\ \E v \in (Verdicts \ {"ok"}) \union {"DOWNLOAD_BLOCKED"} : Return(c, v)
          /\ UNCHANGED flags
    /\ UNCHANGED <<state, actions, expired, observation, background, resources>>

(* Mutant of Perform: the flags are looked at after an error only.         *)
PerformTrustsSuccess(c) ==
    /\ pc[c] = "perform"
    /\ \/ blocked /\ Return(c, "ORIGIN_NOT_ALLOWED")
       \/ ~blocked /\ download /\ Return(c, "DOWNLOAD_BLOCKED")
       \/ PageOpen /\ Return(c, "ok")
       \/ ~blocked /\ ~download /\ Return(c, "TARGET_NOT_FOUND")
       \/ Return(c, "ACTION_TIMEOUT")
       \/ expired /\ Return(c, "WALL_CLOCK_TIMEOUT")
    /\ UNCHANGED <<state, actions, expired, observation, flags, background, resources>>

(* The click, fill or type of _perform_interaction has ended.              *)
Perform(c) ==
    /\ pc[c] = "perform"
    /\ \/ blocked /\ Return(c, "ORIGIN_NOT_ALLOWED")
       \/ ~blocked /\ download /\ Return(c, "DOWNLOAD_BLOCKED")
       \/ ~blocked /\ ~download /\ PageOpen /\ Return(c, "ok")
       \/ ~blocked /\ ~download /\ Return(c, "TARGET_NOT_FOUND")
       \/ Return(c, "ACTION_TIMEOUT")
       \/ expired /\ Return(c, "WALL_CLOCK_TIMEOUT")
    /\ UNCHANGED <<state, actions, expired, observation, flags, background, resources>>

Capture(c) ==
    /\ pc[c] = "capture"
    /\ \/ PageOpen /\ Return(c, "ok")
       \/ \E r \in {"ARTIFACT_LIMIT_EXCEEDED", "ACTION_TIMEOUT", "untyped"} : Return(c, r)
       \/ expired /\ Return(c, "WALL_CLOCK_TIMEOUT")
    /\ UNCHANGED <<state, actions, expired, observation, flags, background, resources>>

(* A waiting or working call is cancelled; CloseCut and StartFails have    *)
(* the calls that release or create objects.                               *)
LeaveOp(c) ==
    /\ pc[c] \in OpSteps \union {"waiting"} /\ Return(c, "untyped")
    /\ UNCHANGED <<state, actions, expired, observation, flags, background, resources>>

Cancel(c) == "cancel" \in Faults /\ LeaveOp(c)

-----------------------------------------------------------------------------
(* The page and the clock.                                                 *)

(* _guard_route aborts a request to an origin that is not allowed.         *)
DeniedRequest ==
    /\ PageOpen /\ state # "new"
    /\ blocked' = TRUE /\ seen' = seen \union {"denied"}
    /\ UNCHANGED <<state, actions, expired, observation, download, background, resources, calls>>

(* _on_download, whose task cancels the download.                          *)
DownloadStarted ==
    /\ PageOpen /\ state # "new" /\ background < MaxBackground
    /\ download' = TRUE /\ background' = background + 1 /\ seen' = seen \union {"download"}
    /\ UNCHANGED <<state, actions, expired, observation, blocked, resources, calls>>

(* _on_new_page, whose task closes the popup.                              *)
PopupOpened ==
    /\ PageOpen /\ state # "new" /\ background < MaxBackground
    /\ background' = background + 1
    /\ UNCHANGED <<state, actions, expired, observation, flags, resources, calls>>

(* Mutant of BackgroundDone: a task is discarded twice.                    *)
BackgroundDoneTwice ==
    /\ background' = background - 1
    /\ UNCHANGED <<state, actions, expired, observation, flags, resources, calls>>

BackgroundDone ==
    /\ background > 0 /\ background' = background - 1
    /\ UNCHANGED <<state, actions, expired, observation, flags, resources, calls>>

Expire ==
    /\ state # "new" /\ ~expired /\ expired' = TRUE
    /\ UNCHANGED <<state, actions, observation, flags, background, resources, calls>>

-----------------------------------------------------------------------------
Enter(c) ==
    \/ StartCall(c) \/ CloseCall(c) \/ Refused(c) \/ InvalidRequest(c) \/ UnresolvedReference(c)
    \/ Navigate(c) \/ Inspect(c) \/ Click(c) \/ Type(c) \/ ReadDiagnostics(c)
    \/ TakeScreenshot(c) \/ Terminate(c)

(* Awaits with a timeout of their own, and evaluations in the page with    *)
(* none.                                                                   *)
Timed(c) == Goto(c) \/ GotoFailed(c) \/ Scan(c) \/ Perform(c) \/ Capture(c)
Untimed(c) == Title(c) \/ Validate(c)

Next ==
    \/ \E c \in Callers :
         \/ \E o \in Ops : Call(c, o)
         \/ Enter(c) \/ Starting(c) \/ StartFails(c) \/ Closing(c) \/ CloseCut(c)
         \/ Timed(c) \/ Untimed(c) \/ Disposed(c) \/ Cancel(c)
    \/ DeniedRequest \/ DownloadStarted \/ PopupOpened \/ BackgroundDone \/ Expire

Spec == Init /\ [][Next]_vars

(* What the code can rely on: the event loop runs whatever is ready, the   *)
(* lock's queue is first come first served (whoever waits gets it, as long *)
(* as it keeps coming free), timers fire, and the driver answers start(),  *)
(* close() and dispose() and ends the background tasks.                    *)
TimedSpec ==
    /\ Spec
    /\ \A c \in Callers :
         SF_vars(Enter(c)) /\ WF_vars(Starting(c)) /\ WF_vars(StartFails(c))
           /\ WF_vars(Closing(c)) /\ WF_vars(Disposed(c)) /\ WF_vars(Timed(c))
    /\ WF_vars(BackgroundDone)

(* The page also answers the evaluations that have no timeout.             *)
LiveSpec == TimedSpec /\ \A c \in Callers : WF_vars(Untimed(c))

-----------------------------------------------------------------------------
(* Properties.                                                             *)

TypeOK ==
    /\ state \in {"new", "active", "closed"} /\ actions \in Nat /\ expired \in BOOLEAN
    /\ generation \in Nat /\ active \in Nat \union {None}
    /\ elements \subseteq Nat \X Nat /\ issued \subseteq Nat \X Nat
    /\ blocked \in BOOLEAN /\ download \in BOOLEAN /\ background \in 0..MaxBackground
    /\ fields \in [Kinds -> Callers \union {None}] /\ live \subseteq Kinds \X Callers
    /\ lock \in Callers \union {None}
    /\ pc \in [Callers -> {"idle", "waiting"} \union StartSteps \union CloseSteps \union OpSteps]
    /\ op \in [Callers -> LockedOps \union {"none", "start", "close"}]
    /\ target \in [Callers -> (Nat \X Nat) \union Callers \union {None}]
    /\ result \in [Callers -> Results]
    /\ seen \subseteq {"denied", "download"} /\ aborted \in BOOLEAN

(* Between the first and the last await of a locked operation, finish's    *)
(* close() included, its caller holds the lock: whatever start(), close(), *)
(* cancellations and errors do, no two operations are ever in progress.    *)
OneAtATime ==
    \A c \in Callers :
        pc[c] \in OpSteps \union CloseSteps /\ op[c] \in LockedOps => lock = c

(* The lock is never lost: whoever has it is in the middle of a locked     *)
(* operation. Who waits for it waits for an await of the page or the       *)
(* driver, never for a call that was cancelled, failed or itself waits.    *)
LockIsWorked == lock # None => op[lock] \in LockedOps /\ pc[lock] \notin {"idle", "waiting"}

(* The budget bounds the operations, and each observation has cost one:    *)
(* generations, which references are numbered by, cannot outrun it.        *)
BudgetHolds == generation <= actions /\ actions <= MaxActions

(* Every reference ever handed out either resolves, or is answered         *)
(* STALE_ELEMENT_REFERENCE: never TARGET_NOT_FOUND, and never by an        *)
(* element of another observation.                                         *)
ReferencesAnswer ==
    \A r \in issued : Resolve(r) = IF r \in elements THEN "ok" ELSE "STALE_ELEMENT_REFERENCE"

(* An expired reference never comes back: what an observation registers    *)
(* was not handed out before.                                              *)
NeverReissued == [][(elements' \ elements) \intersect issued = {}]_vars

(* While an operation works on an element of the page, the observation it  *)
(* was looked up in stays the latest one, until somebody closes.           *)
TargetIsCurrent ==
    \A c \in Callers :
        pc[c] \in {"validate", "perform"} /\ state # "closed" => target[c] \in elements

(* A closed session stays closed and spends nothing any more, whoever is   *)
(* still inside it.                                                        *)
ClosedIsFinal == [][state = "closed" => state' = "closed" /\ actions' = actions]_vars

Ended(c, steps, r) == pc[c] \in steps /\ pc'[c] = "idle" /\ result'[c] = r

(* An operation blames a denied request, or a download, only for one that  *)
(* came while the browser was at work for it, never for an earlier one.    *)
BlameIsFresh ==
    [][\A c \in Callers :
        /\ Ended(c, {"goto_failed", "perform"}, "ORIGIN_NOT_ALLOWED") => "denied" \in seen
        /\ Ended(c, {"perform"}, "DOWNLOAD_BLOCKED") => "download" \in seen]_vars

(* A click or a type over which a request was denied or a download started *)
(* does not end well, nor with TARGET_NOT_FOUND, which asks for another    *)
(* try; with a download and a denial, the denial is told. A navigation     *)
(* goes on to the title only if nothing was denied until then. That is     *)
(* all: it ends well over a download, and over a request denied while it   *)
(* reads the title; timeouts and cancellations come first; inspect and     *)
(* take_screenshot do not look at the flags.                               *)
DeniedIsReported ==
    [][\A c \in Callers :
        /\ Ended(c, {"perform"}, "ok") => seen = {}
        /\ Ended(c, {"perform"}, "TARGET_NOT_FOUND") => seen = {}
        /\ Ended(c, {"goto_failed", "perform"}, "DOWNLOAD_BLOCKED") => "denied" \notin seen
        /\ pc[c] = "goto" /\ pc'[c] = "title" => "denied" \notin seen]_vars

(* Nobody is in start() or in the steps of close().                        *)
Settled == \A c \in Callers : op[c] # "start" /\ pc[c] \notin CloseSteps

(* Once a close() has come to its end, no driver, browser, context or      *)
(* background task is left, no matter where start() failed or who closed.  *)
CleanupComplete ==
    state = "closed" /\ Settled /\ ~aborted => live = {} /\ background = 0

(* Every call returns.                                                     *)
CallsReturn == \A c \in Callers : pc[c] # "idle" ~> pc[c] = "idle"

(* A closed session's browser is gone in the end.                          *)
EventuallyReleased == state = "closed" ~> live = {}

(* The session keeps its contract.                                         *)
Contract == INSTANCE SessionContract WITH
    phase <- state, spent <- actions, latest <- generation, refs <- elements,
    busy <- IF lock = None THEN "none" ELSE op[lock]

KeepsContract == Contract!ContractSpec

-----------------------------------------------------------------------------
(* A claim of the repository that the code does not keep.                  *)

(* A session can only be started once: a second start() does not succeed.  *)
StartedOnce == [][\A c \in Callers : Ended(c, {"new_page"}, "ok") => state # "active"]_vars
=============================================================================
