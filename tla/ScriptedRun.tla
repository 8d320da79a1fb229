----------------------------- MODULE ScriptedRun -----------------------------
(***************************************************************************)
(* qa_agent_lm.benchmark.scripted.run_scripted_case: one task that enters  *)
(* "async with session", runs a demo script under asyncio.wait_for, checks *)
(* what came of it and leaves the context manager. It composes the runner  *)
(* with BrowserSession, whose only caller it is.                           *)
(***************************************************************************)
EXTENDS BrowserSession, Sequences

CONSTANT Runner     \* the task of run_scripted_case

ASSUME RunnerAssumption == Callers = {Runner}

VARIABLES
    stage,      \* "enter", "script", "exit" (to be called), "closing", "done"
    script,     \* the operations of the demo, in order
    step,       \* index of the next one
    outcome     \* "none", "result": a ScriptedRunResult, "raised"

runner == <<stage, script, step, outcome>>

(* The operations each demo records a decision for.                        *)
PassingDemo == <<"navigate", "inspect", "type", "click", "inspect", "screenshot", "finish">>
FailingDemo == <<"navigate", "inspect", "type", "click", "diagnostics", "finish">>
SafetyDemo == <<"navigate", "inspect", "help">>

RunInit ==
    /\ Init
    /\ script \in {PassingDemo, FailingDemo, SafetyDemo}
    /\ stage = "enter" /\ step = 1 /\ outcome = "none"

Idle == pc[Runner] = "idle"

(* __aenter__ starts the session; if that raises, __aexit__ is not called. *)
AEnter ==
    /\ stage = "enter" /\ result[Runner] = "none"
    /\ Call(Runner, "start") /\ UNCHANGED runner

Entered ==
    /\ stage = "enter" /\ Idle /\ result[Runner] # "none"
    /\ \/ result[Runner] = "ok" /\ stage' = "script" /\ UNCHANGED outcome
       \/ result[Runner] # "ok" /\ stage' = "done" /\ outcome' = "raised"
    /\ UNCHANGED <<vars, script, step>>

(* The script goes on when the last operation succeeded. Its click and     *)
(* type name an element of the latest observation, so there must be one.   *)
ScriptStep ==
    /\ stage = "script" /\ result[Runner] = "ok" /\ step <= Len(script)
    /\ script[step] \in {"click", "type"} => elements # {}
    /\ Call(Runner, script[step])
    /\ step' = step + 1 /\ UNCHANGED <<stage, script, outcome>>

(* An operation raised, _element found nothing, or a check failed.         *)
ScriptRaises ==
    /\ stage = "script" /\ Idle /\ step > 1
    /\ stage' = "exit" /\ outcome' = "raised"
    /\ UNCHANGED <<vars, script, step>>

(* The script came to its end and every check passes.                      *)
ScriptPasses ==
    /\ stage = "script" /\ Idle /\ result[Runner] = "ok" /\ step > Len(script)
    /\ state = "closed"
    /\ stage' = "exit" /\ outcome' = "result"
    /\ UNCHANGED <<vars, script, step>>

(* Mutant of TimeOut: the script is shielded from its timeout.             *)
TimeOutShielded ==
    /\ stage = "script" /\ pc[Runner] \in {"scan", "goto"} /\ LeaveOp(Runner)
    /\ stage' = "exit" /\ outcome' = "raised"
    /\ UNCHANGED <<script, step>>

(* wait_for's timer fires while the script awaits something, and cancels   *)
(* it there: also in the awaits of the close() of its last operation.      *)
TimeOut ==
    /\ stage = "script" /\ pc[Runner] # "waiting"
    /\ LeaveOp(Runner) \/ (pc[Runner] \in CloseSteps /\ LeaveClose(Runner))
    /\ stage' = "exit" /\ outcome' = "raised"
    /\ UNCHANGED <<script, step>>

(* __aexit__ closes the session; what close() raises is raised.            *)
AExit ==
    /\ stage = "exit" /\ Call(Runner, "close")
    /\ stage' = "closing" /\ UNCHANGED <<script, step, outcome>>

Left ==
    /\ stage = "closing" /\ Idle /\ stage' = "done"
    /\ outcome' = IF result[Runner] = "ok" THEN outcome ELSE "raised"
    /\ UNCHANGED <<vars, script, step>>

(* The session at work. The demos' arguments are valid and their           *)
(* references are of the latest observation.                               *)
Segment ==
    /\ \/ StartCall(Runner) \/ CloseCall(Runner) \/ Refused(Runner) \/ Navigate(Runner)
       \/ Inspect(Runner) \/ Click(Runner) \/ Type(Runner) \/ ReadDiagnostics(Runner)
       \/ TakeScreenshot(Runner) \/ Terminate(Runner)
       \/ Starting(Runner) \/ StartFails(Runner) \/ Closing(Runner)
       \/ Timed(Runner) \/ Disposed(Runner)
    /\ UNCHANGED runner

(* What nothing guarantees to happen: the page's answers, its events, the  *)
(* deadline, a close() that raises.                                        *)
Chance ==
    /\ \/ Untimed(Runner) \/ CloseCut(Runner)
       \/ DeniedRequest \/ DownloadStarted \/ PopupOpened \/ Expire
    /\ UNCHANGED runner

TaskEnds == BackgroundDone /\ UNCHANGED runner

Finished == stage = "done" /\ UNCHANGED <<vars, runner>>

RunNext ==
    \/ AEnter \/ Entered \/ ScriptStep \/ ScriptRaises \/ ScriptPasses \/ TimeOut
    \/ AExit \/ Left \/ Segment \/ Chance \/ TaskEnds \/ Finished

(* The task runs when it can, wait_for's timer fires, and the driver       *)
(* answers start(), close() and dispose() and ends the background tasks.   *)
RunSpec ==
    /\ RunInit /\ [][RunNext]_<<vars, runner>>
    /\ WF_<<vars, runner>>(AEnter \/ Entered \/ ScriptStep \/ ScriptRaises \/ ScriptPasses
                             \/ AExit \/ Left)
    /\ WF_<<vars, runner>>(Segment) /\ WF_<<vars, runner>>(TimeOut)
    /\ WF_<<vars, runner>>(TaskEnds)

-----------------------------------------------------------------------------
(* A run that returns a result has closed the session, released everything *)
(* and reports as many operations as the session has charged for.          *)
ResultIsHonest ==
    stage = "done" /\ outcome = "result" =>
        /\ state = "closed" /\ live = {} /\ background = 0
        /\ actions = Len(script)

(* A run leaves a browser behind only if a close() was cut.                *)
LeakHasACause == stage = "done" /\ live # {} => aborted /\ outcome = "raised"

(* Every run ends, even if the page never answers what has no timeout.     *)
RunEnds == <>(stage = "done")

(* The browser session is closed on success, error, timeout and handoff.   *)
ReleasedOnEveryWayOut == stage = "done" => live = {}
=============================================================================
