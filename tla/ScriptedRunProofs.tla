--------------------------- MODULE ScriptedRunProofs ---------------------------
(***************************************************************************)
(* Theorems about a scripted run: for any budget, any observations, any    *)
(* faults of the driver and any moment at which its timeout fires.         *)
(***************************************************************************)
EXTENDS ScriptedRun, BrowserSessionProofs

SessionInv == TypeOK /\ CallsInv /\ ReleaseInv

(* The demos and where the run is in them.                                 *)
RunTypeOK ==
    /\ stage \in {"enter", "script", "exit", "closing", "done"}
    /\ outcome \in {"none", "result", "raised"}
    /\ script \in {PassingDemo, FailingDemo, SafetyDemo}
    /\ step \in 1..(Len(script) + 1)
    /\ actions \in Nat

Failed == Idle /\ result[Runner] \notin {"none", "ok"}

(* What the session is in at each stage.                                   *)
Entering ==
    stage = "enter" =>
        /\ step = 1 /\ actions = 0 /\ outcome = "none"
        /\ \/ Idle /\ result[Runner] = "none" /\ state = "new"
           \/ pc[Runner] = "waiting" /\ op[Runner] = "start" /\ state = "new"
           \/ pc[Runner] \in StartSteps /\ state = "new"
           \/ pc[Runner] \in CloseSteps /\ op[Runner] = "start" /\ state = "closed"
           \/ Idle /\ result[Runner] = "ok"
           \/ Failed /\ state = "closed"

Scripting ==
    stage = "script" =>
        /\ outcome = "none"
        /\ \/ Idle /\ result[Runner] = "ok" /\ actions + 1 = step
           \/ Failed
           \/ pc[Runner] = "waiting" /\ op[Runner] \in LockedOps /\ actions + 2 = step
           \/ /\ pc[Runner] \in OpSteps \union CloseSteps /\ op[Runner] \in LockedOps
              /\ actions + 1 = step

Exiting ==
    /\ stage \in {"exit", "closing", "done"} => outcome # "none"
    /\ stage = "exit" => Idle
    /\ stage = "closing" =>
         \/ pc[Runner] = "waiting" /\ op[Runner] = "close"
         \/ pc[Runner] \in CloseSteps /\ op[Runner] = "close" /\ state = "closed"
         \/ Idle /\ state = "closed"
    /\ stage = "done" => Idle /\ state = "closed"

(* A result is returned over a session that is closed and empty, ...       *)
Honest ==
    outcome = "result" =>
        /\ stage \in {"exit", "closing", "done"}
        /\ state = "closed" /\ live = {} /\ background = 0 /\ actions = Len(script)
        /\ pc[Runner] \in {"idle", "waiting"}

(* ... and a close() that was cut leads to an exception.                   *)
CutShows ==
    aborted =>
        \/ stage \in {"enter", "script"} /\ Failed
        \/ stage \in {"exit", "closing", "done"} /\ outcome = "raised"

RunInv == RunTypeOK /\ Entering /\ Scripting /\ Exiting /\ Honest /\ CutShows

-----------------------------------------------------------------------------
(* What one segment of the session does to the run.                        *)

Works == Segment \/ ((Untimed(Runner) \/ CloseCut(Runner)) /\ UNCHANGED runner)

LEMMA TheRunner == Runner \in Callers /\ \A c \in Callers : c = Runner
BY RunnerAssumption

LEMMA WorksIsNext == Works => [Next]_vars /\ UNCHANGED runner
BY TheRunner DEF Works, Segment, Next, Enter

(* How a call of the runner lands: it returns or it awaits.                *)
LEMMA Lands ==
    ASSUME TypeOK, NEW r, Return(Runner, r)
    PROVE  pc'[Runner] = "idle" /\ result'[Runner] = r
BY TheRunner, ReturnsResult

LEMMA Awaits ==
    ASSUME TypeOK, NEW p, NEW t, Suspend(Runner, p, t)
    PROVE  pc'[Runner] = p /\ op' = op
BY TheRunner, GoesTo DEF Suspend

LEMMA CloseFromLands ==
    ASSUME TypeOK, NEW i \in 1..6, CloseFrom(Runner, i)
    PROVE  \/ pc'[Runner] \in CloseSteps /\ op' = op
           \/ /\ pc'[Runner] = "idle"
              /\ result'[Runner] = IF op[Runner] = "start" THEN "untyped" ELSE "ok"
<1>1. ASSUME NEW j \in i..5, Suspend(Runner, CloseOrder[j], Owner(j))
      PROVE  pc'[Runner] \in CloseSteps /\ op' = op
  <2>1. j \in 1..5
    OBVIOUS
  <2> QED BY <1>1, <2>1, Awaits DEF CloseOrder, CloseSteps
<1>2. ASSUME CloseReturn(Runner)
      PROVE  /\ pc'[Runner] = "idle"
             /\ result'[Runner] = IF op[Runner] = "start" THEN "untyped" ELSE "ok"
  BY <1>2, Lands DEF CloseReturn
<1> QED BY <1>1, <1>2 DEF CloseFrom

LEMMA CloseBodyLands ==
    ASSUME TypeOK, CloseBody(Runner)
    PROVE  /\ state' = "closed"
           /\ \/ pc'[Runner] \in CloseSteps /\ op' = op /\ state # "closed"
              \/ /\ pc'[Runner] = "idle"
                 /\ result'[Runner] = IF op[Runner] = "start" THEN "untyped" ELSE "ok"
<1>1. CASE state = "closed"
  BY <1>1, Lands DEF CloseBody, CloseReturn
<1>2. CASE state # "closed"
  BY <1>2, CloseFromLands DEF CloseBody
<1> QED BY <1>1, <1>2

(* start() is called, or goes on, in a new session.                        *)
LEMMA StartWorks ==
    ASSUME TypeOK, CallsInv, Works, op[Runner] = "start", state = "new",
           pc[Runner] \in StartSteps \union {"waiting"}
    PROVE  /\ UNCHANGED <<actions, aborted, background>>
           /\ \/ pc'[Runner] \in StartSteps /\ state' = "new"
              \/ pc'[Runner] = "idle" /\ result'[Runner] = "ok"
              \/ pc'[Runner] \in CloseSteps /\ op' = op /\ state' = "closed"
              \/ pc'[Runner] = "idle" /\ result'[Runner] = "untyped" /\ state' = "closed"
<1>1. StartCall(Runner) \/ Starting(Runner) \/ StartFails(Runner)
  BY DEF Works, Segment, CloseCall, Refused, Navigate, Inspect, Click, Type, ReadDiagnostics,
         TakeScreenshot, Terminate, Admitted, Turn, LockedOps, Closing, CloseOrder, Timed, Goto,
         GotoFailed, Scan, Perform, Capture, Disposed, Untimed, Title, Validate, CloseCut,
         CloseSteps, StartSteps
<1>2. CASE StartCall(Runner)
  BY <1>2, Awaits DEF StartCall, StartSteps, resources
<1>3. CASE Starting(Runner)
  <2>1. UNCHANGED <<actions, aborted, background>>
    BY <1>3 DEF Starting, Creates, resources
  <2> QED BY <1>3, <2>1, Awaits, Lands DEF Starting, Creates, StartSteps
<1>4. CASE StartFails(Runner)
  BY <1>4, CloseBodyLands DEF StartFails, resources
<1> QED BY <1>1, <1>2, <1>3, <1>4

(* A close() under way goes on, or is cut.                                 *)
LEMMA CloseWorks ==
    ASSUME TypeOK, Works, pc[Runner] \in CloseSteps
    PROVE  /\ UNCHANGED <<actions, state, background>>
           /\ \/ pc'[Runner] \in CloseSteps /\ op' = op /\ aborted' = aborted
              \/ /\ pc'[Runner] = "idle" /\ aborted' = aborted
                 /\ result'[Runner] = IF op[Runner] = "start" THEN "untyped" ELSE "ok"
              \/ pc'[Runner] = "idle" /\ result'[Runner] = "untyped" /\ aborted'
<1>1. Closing(Runner) \/ CloseCut(Runner)
  BY DEF Works, Segment, StartCall, CloseCall, Refused, Navigate, Inspect, Click, Type,
         ReadDiagnostics, TakeScreenshot, Terminate, Admitted, Turn, Starting, StartFails, Timed,
         Goto, GotoFailed, Scan, Perform, Capture, Disposed, Untimed, Title, Validate,
         CloseSteps, StartSteps
<1>2. CASE Closing(Runner)
  <2>1. PICK i \in 1..5 : CloseFrom(Runner, i + 1)
    BY <1>2 DEF Closing
  <2>2. i + 1 \in 1..6
    OBVIOUS
  <2> QED BY <1>2, <2>1, <2>2, CloseFromLands DEF Closing
<1>3. CASE CloseCut(Runner)
  BY <1>3, Lands DEF CloseCut, LeaveClose
<1> QED BY <1>1, <1>2, <1>3

(* close() is called.                                                      *)
LEMMA CloseCallWorks ==
    ASSUME TypeOK, Works, pc[Runner] = "waiting", op[Runner] = "close"
    PROVE  /\ UNCHANGED <<actions, aborted, background, live>> /\ state' = "closed"
           /\ \/ pc'[Runner] \in CloseSteps /\ op' = op /\ state # "closed"
              \/ pc'[Runner] = "idle"
<1>1. CloseCall(Runner)
  BY DEF Works, Segment, StartCall, Refused, Navigate, Inspect, Click, Type, ReadDiagnostics,
         TakeScreenshot, Terminate, Admitted, Turn, LockedOps, Closing, CloseOrder, Timed, Goto,
         GotoFailed, Scan, Perform, Capture, Disposed, Untimed, Title, Validate, CloseCut,
         CloseSteps, StartSteps, Starting, StartFails
<1> QED BY <1>1, CloseBodyLands DEF CloseCall, resources

(* An operation is refused, or is charged for and goes on.                 *)
LEMMA OpStarts ==
    ASSUME TypeOK, Works, pc[Runner] = "waiting", op[Runner] \in LockedOps
    PROVE  /\ UNCHANGED <<aborted, background>>
           /\ actions' \in {actions, actions + 1}
           /\ \/ pc'[Runner] = "idle" /\ result'[Runner] \notin {"none", "ok"}
              \/ /\ actions' = actions + 1
                 /\ \/ pc'[Runner] = "idle" /\ result'[Runner] # "none"
                    \/ pc'[Runner] \in OpSteps \union CloseSteps /\ op' = op
<1>1. \/ Refused(Runner) \/ Navigate(Runner) \/ Inspect(Runner) \/ Click(Runner) \/ Type(Runner)
      \/ ReadDiagnostics(Runner) \/ TakeScreenshot(Runner) \/ Terminate(Runner)
  BY DEF Works, Segment, StartCall, CloseCall, Turn, LockedOps, Closing, CloseOrder, Timed, Goto,
         GotoFailed, Scan, Perform, Capture, Disposed, Untimed, Title, Validate, CloseCut,
         CloseSteps, StartSteps, Starting, StartFails
<1>2. CASE Refused(Runner)
  BY <1>2, Lands DEF Refused, resources
<1>3. CASE Navigate(Runner)
  <2>1. actions' = actions + 1 /\ UNCHANGED <<aborted, background>>
    BY <1>3 DEF Navigate, Admitted, resources
  <2> QED BY <1>3, <2>1, Awaits, Lands DEF Navigate, NavigateTo, Dispatch, Verdicts, OpSteps
<1>4. CASE Inspect(Runner) \/ Click(Runner) \/ Type(Runner) \/ TakeScreenshot(Runner)
           \/ ReadDiagnostics(Runner)
  <2>1. actions' = actions + 1 /\ UNCHANGED <<aborted, background>>
    BY <1>4 DEF Inspect, Click, Type, TakeScreenshot, ReadDiagnostics, Admitted, resources
  <2> QED
    BY <1>4, <2>1, Awaits, Lands
    DEF Inspect, Click, Type, TakeScreenshot, ReadDiagnostics, Dispatch, OpSteps
<1>5. CASE Terminate(Runner)
  <2>1. actions' = actions + 1 /\ UNCHANGED <<aborted, background>>
    BY <1>5 DEF Terminate, Admitted, resources
  <2>2. op[Runner] # "start"
    BY DEF LockedOps
  <2> QED BY <1>5, <2>1, <2>2, CloseBodyLands DEF Terminate
<1> QED BY <1>1, <1>2, <1>3, <1>4, <1>5

(* An operation under way goes on or returns.                              *)
LEMMA OpWorks ==
    ASSUME TypeOK, Works, pc[Runner] \in OpSteps
    PROVE  /\ UNCHANGED <<actions, aborted, background>>
           /\ \/ pc'[Runner] = "idle" /\ result'[Runner] # "none"
              \/ pc'[Runner] \in OpSteps /\ op' = op
<1>1. Timed(Runner) \/ Untimed(Runner) \/ Disposed(Runner)
  BY DEF Works, Segment, StartCall, CloseCall, Refused, Navigate, Inspect, Click, Type,
         ReadDiagnostics, TakeScreenshot, Terminate, Admitted, Turn, Starting, StartFails,
         Closing, CloseOrder, CloseCut, CloseSteps, StartSteps, OpSteps
<1>2. CASE Goto(Runner) \/ GotoFailed(Runner) \/ Title(Runner)
  BY <1>2, Awaits, Lands DEF Goto, GotoFailed, Title, Verdicts, OpSteps, resources
<1>3. CASE Scan(Runner) \/ Capture(Runner) \/ Perform(Runner)
  BY <1>3, Awaits, Lands DEF Scan, Capture, Perform, OpSteps, resources
<1>4. CASE Validate(Runner)
  BY <1>4, Awaits, Lands DEF Validate, Dispatch, Verdicts, OpSteps, resources
<1>5. CASE Disposed(Runner)
  BY <1>5, Awaits, Lands DEF Disposed, NavigateTo, Dispatch, Verdicts, OpSteps, resources
<1> QED BY <1>1, <1>2, <1>3, <1>4, <1>5 DEF Timed, Untimed

-----------------------------------------------------------------------------
(* The invariant of the session survives the runner: all it does is call   *)
(* the session, and leave a call when its timer fires.                     *)

LEMMA TimeOutSession ==
    ASSUME AwaitStart, SessionInv, TimeOut
    PROVE  SessionInv'
<1> USE TheRunner DEF SessionInv
<1>1. CASE LeaveOp(Runner)
  <2>1. Return(Runner, "untyped") /\ "untyped" \in Results
    BY <1>1 DEF LeaveOp, Results, Verdicts
  <2>2. pc[Runner] # "idle" /\ pc[Runner] \notin StartSteps \union CloseSteps
    BY <1>1 DEF LeaveOp, OpSteps, StartSteps, CloseSteps
  <2>3. UNCHANGED <<state, actions, expired, observation, flags, background, resources>>
    BY <1>1 DEF LeaveOp
  <2>4. CallsOK'
    BY <2>1, ReturnCallsOK DEF TypeOK, CallsOK, Steps
  <2>5. TypeOK'
    BY <2>3, <2>4 DEF TypeOK, CallsOK, Steps, observation, flags, resources
  <2>6. CallsInv'
    BY <2>1, <2>2, LeavesCalls DEF Leaves
  <2>7. pc'[Runner] = "idle" /\ "idle" \notin StartSteps \union CloseSteps
    BY <2>1, Lands DEF StartSteps, CloseSteps
  <2>8. ReleaseInv'
    BY <2>2, <2>3, <2>7, QuietRelease DEF resources
  <2> QED BY <2>5, <2>6, <2>8
<1>2. CASE pc[Runner] \in CloseSteps /\ LeaveClose(Runner)
  <2>1. Return(Runner, "untyped") /\ "untyped" \in Results
    BY <1>2 DEF LeaveClose, Results, Verdicts
  <2>2. pc[Runner] # "idle"
    BY <1>2 DEF CloseSteps
  <2>3. CallsOK'
    BY <2>1, ReturnCallsOK DEF TypeOK, CallsOK, Steps
  <2>4. TypeOK'
    BY <1>2, <2>3 DEF LeaveClose, TypeOK, CallsOK, Steps, observation, flags
  <2>5. CallsInv'
    BY <2>1, <2>2, LeavesCalls DEF Leaves
  <2>6. ReleaseInv'
    BY <1>2, LeaveCloseRelease
  <2> QED BY <2>4, <2>5, <2>6
<1> QED BY <1>1, <1>2 DEF TimeOut

(* Every other step of a run is one of the session's, or leaves it alone.  *)
LEMMA RunStepIsNext == [RunNext]_<<vars, runner>> => [Next]_vars \/ TimeOut
<1> SUFFICES ASSUME [RunNext]_<<vars, runner>> PROVE [Next]_vars \/ TimeOut
  OBVIOUS
<1>1. CASE Works
  BY <1>1, WorksIsNext
<1>2. ASSUME NEW o, Call(Runner, o) PROVE [Next]_vars
  BY <1>2, TheRunner DEF Call, Next
<1>3. AEnter \/ ScriptStep \/ AExit => [Next]_vars
  BY <1>2 DEF AEnter, ScriptStep, AExit
<1>4. Entered \/ ScriptRaises \/ ScriptPasses \/ Left \/ Finished => UNCHANGED vars
  BY DEF Entered, ScriptRaises, ScriptPasses, Left, Finished
<1>5. DeniedRequest \/ DownloadStarted \/ PopupOpened \/ Expire \/ BackgroundDone => Next
  BY DEF Next
<1> QED BY <1>1, <1>3, <1>4, <1>5 DEF RunNext, Chance, TaskEnds, Works

LEMMA SessionStep ==
    ASSUME AwaitStart, SessionInv, [RunNext]_<<vars, runner>>
    PROVE  SessionInv'
<1>1. CASE [Next]_vars
  BY <1>1, TypeStep, CallsInvStep, ReleaseStep DEF SessionInv
<1> QED BY <1>1, RunStepIsNext, TimeOutSession

(* A closed session nobody is in has let everything go, unless its close() *)
(* was cut.                                                                *)
LEMMA EmptyWhenClosed ==
    ASSUME SessionInv, state = "closed", Idle, ~aborted
    PROVE  live = {} /\ background = 0
BY TheRunner DEF SessionInv, ReleaseInv, SomebodyReleases, Idle, CloseSteps

LEMMA DemoLength == \A d \in {PassingDemo, FailingDemo, SafetyDemo} : Len(d) \in Nat \ {0}
BY DEF PassingDemo, FailingDemo, SafetyDemo

LEMMA DemoOps ==
    \A d \in {PassingDemo, FailingDemo, SafetyDemo} : \A i \in 1..Len(d) : d[i] \in LockedOps
<1>1. PassingDemo \in Seq(LockedOps) /\ FailingDemo \in Seq(LockedOps)
      /\ SafetyDemo \in Seq(LockedOps)
  BY DEF PassingDemo, FailingDemo, SafetyDemo, LockedOps
<1> QED BY <1>1

LEMMA RunInitInv == RunInit => SessionInv /\ RunInv
<1> SUFFICES ASSUME RunInit PROVE SessionInv /\ RunInv
  OBVIOUS
<1>1. Init
  BY DEF RunInit
<1>2. SessionInv
  BY <1>1, TypeInit, CallsInvInit, ReleaseInit DEF SessionInv
<1>3. Idle /\ result[Runner] = "none" /\ state = "new" /\ actions = 0 /\ ~aborted
  BY <1>1, TheRunner DEF Init, Idle
<1>4. RunTypeOK
  BY <1>3, DemoLength DEF RunInit, RunTypeOK
<1> QED
  BY <1>2, <1>3, <1>4 DEF RunInit, RunInv, Entering, Scripting, Exiting, Honest, CutShows

(* What follows is that each step keeps RunInv: first the runner's ...     *)
LEMMA CallLands ==
    ASSUME TypeOK, NEW o \in Ops, Call(Runner, o)
    PROVE  /\ Idle /\ pc'[Runner] = "waiting" /\ op'[Runner] = o
           /\ UNCHANGED <<state, actions, live, background, aborted>>
BY TheRunner DEF Call, TypeOK, Idle, resources

LEMMA RunnerStep ==
    ASSUME SessionInv, RunInv,
           \/ AEnter \/ Entered \/ ScriptStep \/ ScriptRaises \/ ScriptPasses \/ TimeOut
           \/ AExit \/ Left \/ Finished
    PROVE  RunInv'
<1> USE DEF RunInv, RunTypeOK
<1>t. TypeOK
  BY DEF SessionInv
<1>w. "waiting" \notin StartSteps \union CloseSteps \union OpSteps \union {"idle"}
      /\ "idle" \notin StartSteps \union CloseSteps \union OpSteps
  BY DEF StartSteps, CloseSteps, OpSteps
<1>s. script \in {PassingDemo, FailingDemo, SafetyDemo} /\ Len(script) \in Nat
  BY DemoLength
<1>1. CASE AEnter
  <2>1. /\ Idle /\ pc'[Runner] = "waiting" /\ op'[Runner] = "start"
        /\ UNCHANGED <<state, actions, live, background, aborted, runner>> /\ stage = "enter"
    BY <1>1, <1>t, CallLands DEF AEnter, Call
  <2>2. state = "new" /\ ~aborted /\ outcome = "none"
    BY <1>1, <1>w, <2>1 DEF AEnter, Entering, CutShows, Failed, Idle
  <2> QED BY <2>1, <2>2 DEF runner, Entering, Scripting, Exiting, Honest, CutShows
<1>2. CASE Entered
  <2>1. UNCHANGED vars /\ UNCHANGED <<script, step>> /\ Idle /\ stage = "enter"
    BY <1>2 DEF Entered
  <2>2. UNCHANGED <<pc, op, result, state, actions, live, background, aborted>>
    BY <2>1 DEF vars, calls, resources
  <2>3. CASE result[Runner] = "ok" /\ stage' = "script" /\ UNCHANGED outcome
    BY <2>1, <2>2, <2>3, <1>w
    DEF Entering, Scripting, Exiting, Honest, CutShows, Failed, Idle
  <2>4. CASE result[Runner] # "ok" /\ stage' = "done" /\ outcome' = "raised"
    <3>1. state = "closed"
      BY <1>2, <1>w, <2>1, <2>4 DEF Entered, Entering, Failed, Idle
    <3> QED BY <2>1, <2>2, <2>4, <3>1
            DEF Entering, Scripting, Exiting, Honest, CutShows, Failed, Idle
  <2> QED BY <1>2, <2>3, <2>4 DEF Entered
<1>3. CASE ScriptStep
  <2>1. /\ stage = "script" /\ result[Runner] = "ok" /\ step \in 1..Len(script)
        /\ step' = step + 1 /\ UNCHANGED <<stage, script, outcome>> /\ Call(Runner, script[step])
    BY <1>3, <1>s DEF ScriptStep
  <2>2. /\ Idle /\ pc'[Runner] = "waiting" /\ op'[Runner] = script[step]
        /\ UNCHANGED <<state, actions, live, background, aborted>>
    BY <1>t, <2>1, CallLands DEF Call
  <2>3. script[step] \in LockedOps
    BY <2>1, <1>s, DemoOps
  <2>4. actions + 1 = step /\ ~aborted /\ outcome = "none"
    BY <2>1, <2>2, <1>w DEF Scripting, CutShows, Failed, Idle
  <2> QED BY <1>s, <2>1, <2>2, <2>3, <2>4 DEF Entering, Scripting, Exiting, Honest, CutShows
<1>4. CASE ScriptRaises
  <2>1. /\ UNCHANGED vars /\ UNCHANGED <<script, step>> /\ Idle
        /\ stage' = "exit" /\ outcome' = "raised"
    BY <1>4 DEF ScriptRaises
  <2>2. UNCHANGED <<pc, op, result, state, actions, live, background, aborted>>
    BY <2>1 DEF vars, calls, resources
  <2> QED BY <2>1, <2>2 DEF Entering, Scripting, Exiting, Honest, CutShows, Idle
<1>5. CASE ScriptPasses
  <2>1. /\ UNCHANGED vars /\ UNCHANGED <<script, step>> /\ Idle /\ stage = "script"
        /\ result[Runner] = "ok" /\ step > Len(script) /\ state = "closed"
        /\ stage' = "exit" /\ outcome' = "result"
    BY <1>5 DEF ScriptPasses
  <2>2. UNCHANGED <<pc, op, result, state, actions, live, background, aborted>>
    BY <2>1 DEF vars, calls, resources
  <2>3. actions + 1 = step /\ ~aborted
    BY <1>w, <2>1 DEF Scripting, CutShows, Failed, Idle
  <2>4. actions = Len(script) /\ live = {} /\ background = 0
    BY <1>s, <2>1, <2>3, EmptyWhenClosed
  <2> QED BY <2>1, <2>2, <2>3, <2>4 DEF Entering, Scripting, Exiting, Honest, CutShows, Idle
<1>6. CASE TimeOut
  <2>1. /\ Return(Runner, "untyped") /\ UNCHANGED <<script, step, actions>>
        /\ stage' = "exit" /\ outcome' = "raised"
    BY <1>6 DEF TimeOut, LeaveOp, LeaveClose
  <2>2. pc'[Runner] = "idle"
    BY <1>t, <2>1, Lands
  <2> QED BY <2>1, <2>2 DEF Entering, Scripting, Exiting, Honest, CutShows, Idle
<1>7. CASE AExit
  <2>1. /\ Idle /\ pc'[Runner] = "waiting" /\ op'[Runner] = "close"
        /\ UNCHANGED <<state, actions, live, background, aborted, script, step, outcome>>
        /\ stage = "exit" /\ stage' = "closing"
    BY <1>7, <1>t, CallLands DEF AExit, Call
  <2> QED BY <2>1 DEF Entering, Scripting, Exiting, Honest, CutShows
<1>8. CASE Left
  <2>1. /\ UNCHANGED vars /\ UNCHANGED <<script, step>> /\ Idle
        /\ stage = "closing" /\ stage' = "done" /\ outcome' \in {outcome, "raised"}
    BY <1>8 DEF Left
  <2>2. UNCHANGED <<pc, op, result, state, actions, live, background, aborted>>
    BY <2>1 DEF vars, calls, resources
  <2>3. state = "closed"
    BY <1>w, <2>1 DEF Exiting, Idle
  <2> QED BY <2>1, <2>2, <2>3 DEF Entering, Scripting, Exiting, Honest, CutShows, Idle
<1>9. CASE Finished
  BY <1>9
  DEF Finished, vars, calls, resources, runner, Entering, Scripting, Exiting, Honest, CutShows,
      Failed, Idle
<1> QED BY <1>1, <1>2, <1>3, <1>4, <1>5, <1>6, <1>7, <1>8, <1>9

(* ... then the session's, ...                                             *)
LEMMA WorksStep ==
    ASSUME SessionInv, RunInv, Works
    PROVE  RunInv'
<1> USE DEF RunInv, RunTypeOK
<1>t. TypeOK /\ CallsInv /\ UNCHANGED <<stage, script, step, outcome>>
  BY WorksIsNext DEF SessionInv, runner
<1>w. "waiting" \notin StartSteps \union CloseSteps \union OpSteps \union {"idle"}
      /\ "idle" \notin StartSteps \union CloseSteps \union OpSteps
      /\ "start" \notin LockedOps /\ "close" \notin LockedOps /\ "close" # "start"
      /\ StartSteps \intersect CloseSteps = {} /\ OpSteps \intersect CloseSteps = {}
  BY DEF StartSteps, CloseSteps, OpSteps, LockedOps
<1>i. pc[Runner] # "idle"
  BY TheRunner
  DEF Works, Segment, StartCall, CloseCall, Refused, Navigate, Inspect, Click, Type,
      ReadDiagnostics, TakeScreenshot, Terminate, Admitted, Turn, Starting, StartFails, Closing,
      CloseOrder, CloseCut, Timed, Goto, GotoFailed, Scan, Perform, Capture, Disposed, Untimed,
      Title, Validate, CloseSteps, StartSteps
<1>1. CASE stage = "enter"
  <2>1. ~aborted /\ step = 1 /\ actions = 0 /\ outcome = "none"
    BY <1>1, <1>i DEF Entering, CutShows, Failed, Idle
  <2>2. CASE pc[Runner] \in CloseSteps /\ op[Runner] = "start" /\ state = "closed"
    BY <1>1, <1>t, <2>1, <2>2, CloseWorks
    DEF Entering, Scripting, Exiting, Honest, CutShows, Failed, Idle
  <2>3. CASE state = "new" /\ op[Runner] = "start" /\ pc[Runner] \in StartSteps \union {"waiting"}
    BY <1>1, <1>t, <2>1, <2>3, StartWorks
    DEF Entering, Scripting, Exiting, Honest, CutShows, Failed, Idle
  <2>4. pc[Runner] \in StartSteps => op[Runner] = "start"
    BY <1>t, TheRunner DEF CallsInv, PcMatchesOp
  <2> QED BY <1>1, <1>i, <2>2, <2>3, <2>4 DEF Entering, Failed, Idle
<1>2. CASE stage = "script"
  <2>1. ~aborted /\ outcome = "none"
    BY <1>2, <1>i DEF Scripting, CutShows, Failed, Idle
  <2>2. CASE pc[Runner] = "waiting" /\ op[Runner] \in LockedOps /\ actions + 2 = step
    <3>1. ~aborted' /\ outcome' = "none" /\ stage' = "script"
      BY <1>2, <1>t, <2>1, <2>2, OpStarts
    <3>2. CASE pc'[Runner] = "idle" /\ result'[Runner] \notin {"none", "ok"}
      <4>1. actions' \in Nat
        BY <1>t, <2>2, <3>2, OpStarts
      <4> QED BY <1>t, <3>1, <3>2, <4>1
              DEF Entering, Scripting, Exiting, Honest, CutShows, Failed, Idle
    <3>3. CASE /\ actions' = actions + 1
               /\ \/ pc'[Runner] = "idle" /\ result'[Runner] # "none"
                  \/ pc'[Runner] \in OpSteps \union CloseSteps /\ op' = op
      BY <1>t, <2>2, <3>1, <3>3
      DEF Entering, Scripting, Exiting, Honest, CutShows, Failed, Idle
    <3> QED BY <1>t, <2>2, <3>2, <3>3, OpStarts
  <2>3. CASE pc[Runner] \in OpSteps /\ op[Runner] \in LockedOps /\ actions + 1 = step
    BY <1>2, <1>t, <2>1, <2>3, OpWorks
    DEF Entering, Scripting, Exiting, Honest, CutShows, Failed, Idle
  <2>4. CASE pc[Runner] \in CloseSteps /\ op[Runner] \in LockedOps /\ actions + 1 = step
    BY <1>2, <1>t, <1>w, <2>1, <2>4, CloseWorks
    DEF Entering, Scripting, Exiting, Honest, CutShows, Failed, Idle
  <2> QED BY <1>2, <1>i, <2>2, <2>3, <2>4 DEF Scripting, Failed, Idle
<1>3. CASE stage = "closing"
  <2>1. CASE pc[Runner] = "waiting" /\ op[Runner] = "close"
    <3>1. CASE outcome = "result"
      BY <1>3, <1>t, <2>1, <3>1, CloseCallWorks
      DEF Entering, Scripting, Exiting, Honest, CutShows, Idle
    <3>2. CASE outcome # "result"
      BY <1>3, <1>t, <2>1, <3>2, CloseCallWorks
      DEF Entering, Scripting, Exiting, Honest, CutShows, Idle
    <3> QED BY <3>1, <3>2
  <2>2. CASE pc[Runner] \in CloseSteps /\ op[Runner] = "close" /\ state = "closed"
    <3>1. outcome = "raised"
      BY <1>3, <1>w, <2>2 DEF Exiting, Honest
    <3> QED BY <1>3, <1>t, <2>2, <3>1, CloseWorks
            DEF Entering, Scripting, Exiting, Honest, CutShows, Idle
  <2> QED BY <1>3, <1>i, <2>1, <2>2 DEF Exiting, Idle
<1>4. stage \notin {"exit", "done"}
  BY <1>i DEF Exiting, Idle
<1> QED BY <1>1, <1>2, <1>3, <1>4

(* ... and the page's, which comes to nothing once the browser is gone.    *)
LEMMA PageStep ==
    ASSUME SessionInv, RunInv, UNCHANGED runner,
           DeniedRequest \/ DownloadStarted \/ PopupOpened \/ Expire \/ BackgroundDone
    PROVE  RunInv'
<1>1. UNCHANGED <<state, actions, pc, op, result, live, aborted>>
  BY DEF DeniedRequest, DownloadStarted, PopupOpened, Expire, BackgroundDone, resources, calls
<1>2. live = {} /\ background = 0 => background' = 0
  BY DEF DeniedRequest, DownloadStarted, PopupOpened, Expire, BackgroundDone, PageOpen
<1> QED
  BY <1>1, <1>2
  DEF RunInv, RunTypeOK, Entering, Scripting, Exiting, Honest, CutShows, Failed, Idle, runner

LEMMA RunStep ==
    ASSUME SessionInv, RunInv, [RunNext]_<<vars, runner>>
    PROVE  RunInv'
<1>1. CASE Works
  BY <1>1, WorksStep
<1>2. CASE \/ AEnter \/ Entered \/ ScriptStep \/ ScriptRaises \/ ScriptPasses \/ TimeOut
           \/ AExit \/ Left \/ Finished
  BY <1>2, RunnerStep
<1>3. CASE /\ DeniedRequest \/ DownloadStarted \/ PopupOpened \/ Expire \/ BackgroundDone
           /\ UNCHANGED runner
  BY <1>3, PageStep
<1>4. CASE UNCHANGED <<vars, runner>>
  BY <1>4
  DEF RunInv, RunTypeOK, Entering, Scripting, Exiting, Honest, CutShows, Failed, Idle, runner,
      vars, calls, resources
<1> QED BY <1>1, <1>2, <1>3, <1>4 DEF RunNext, Chance, TaskEnds, Works

LEMMA RunHolds ==
    ASSUME AwaitStart
    PROVE  RunSpec => [](SessionInv /\ RunInv)
<1>1. SessionInv /\ RunInv /\ [RunNext]_<<vars, runner>> => (SessionInv /\ RunInv)'
  BY SessionStep, RunStep
<1> QED BY <1>1, RunInitInv, PTL DEF RunSpec

-----------------------------------------------------------------------------
(* A run that returns a result has closed its session, left nothing behind *)
(* and counts what the session has charged for.                            *)
THEOREM HonestResult ==
    ASSUME AwaitStart
    PROVE  RunSpec => []ResultIsHonest
<1>1. RunInv => ResultIsHonest
  BY DEF RunInv, Honest, ResultIsHonest
<1> QED BY <1>1, RunHolds, PTL

(* A run that leaves a browser behind has had a close() cut, and raises.   *)
THEOREM LeaksAreCuts ==
    ASSUME AwaitStart
    PROVE  RunSpec => []LeakHasACause
<1>1. SessionInv /\ RunInv => LeakHasACause
  BY EmptyWhenClosed DEF RunInv, Exiting, CutShows, LeakHasACause
<1> QED BY <1>1, RunHolds, PTL

-----------------------------------------------------------------------------
(* The runner and its session. wait_for's timer cuts an operation, or its  *)
(* close(), in an await: to the session that is a cancelled caller.        *)

LEMMA TimeOutHolder ==
    ASSUME TypeOK, HolderWorks, TimeOut
    PROVE  HolderWorks'
<1>1. Return(Runner, "untyped")
  BY DEF TimeOut, LeaveOp, LeaveClose
<1> QED BY <1>1, TheRunner, HolderReturn

LEMMA TimeOutContract ==
    ASSUME TypeOK, CallsInv, HolderWorks, TimeOut
    PROVE  ContractStep
<1>1. /\ Return(Runner, "untyped") /\ "untyped" \in Results
      /\ UNCHANGED <<state, actions, generation, elements>>
  BY DEF TimeOut, LeaveOp, LeaveClose, observation, Results, Verdicts
<1>2. pc[Runner] # "idle" /\ pc[Runner] # "waiting"
  BY DEF TimeOut, LeaveOp, OpSteps, CloseSteps
<1>3. op[Runner] \in LockedOps => lock = Runner
  BY <1>2, TheRunner, MayGo
<1> QED BY <1>1, <1>2, <1>3, TheRunner, QuietContract DEF Leaves

(* A scripted run keeps the contract of its session whenever its timer     *)
(* fires, in the middle of an inspection or of a close() included.         *)
THEOREM RunKeepsContract ==
    ASSUME AwaitStart
    PROVE  RunSpec => KeepsContract
<1>1. RunInit => Contract!ContractInit /\ HolderWorks
  BY HolderInit DEF RunInit, Init, Contract!ContractInit
<1>2. SessionInv /\ HolderWorks /\ [RunNext]_<<vars, runner>> => HolderWorks'
  BY RunStepIsNext, HolderStep, TimeOutHolder DEF SessionInv
<1>3. SessionInv /\ HolderWorks /\ [RunNext]_<<vars, runner>>
        => [Contract!ContractNext]_(Contract!contractVars)
  BY RunStepIsNext, NextContract, TimeOutContract DEF SessionInv, ContractStep
<1> QED BY <1>1, <1>2, <1>3, RunHolds, PTL DEF RunSpec, KeepsContract, Contract!ContractSpec

(* A scripted run is a use of the session like any other: when its callers *)
(* may be cancelled, every step of the runner is a step of BrowserSession  *)
(* or leaves it alone, and all that holds of the session holds here.       *)
THEOREM RunIsASession ==
    ASSUME "cancel" \in Faults
    PROVE  RunSpec => Spec
<1>1. TimeOut => Next
  <2>1. ASSUME TimeOut, LeaveOp(Runner) PROVE Cancel(Runner)
    BY <2>1 DEF Cancel
  <2>2. ASSUME TimeOut, pc[Runner] \in CloseSteps, LeaveClose(Runner) PROVE CloseCut(Runner)
    BY <2>2 DEF CloseCut
  <2> QED BY <2>1, <2>2, TheRunner DEF TimeOut, Next
<1>2. [RunNext]_<<vars, runner>> => [Next]_vars
  BY <1>1, RunStepIsNext
<1>3. RunInit => Init
  BY DEF RunInit
<1> QED BY <1>2, <1>3, PTL DEF RunSpec, Spec
=============================================================================
