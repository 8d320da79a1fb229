------------------------------ MODULE TimeBudget ------------------------------
(***************************************************************************)
(* The clocks of BrowserSession: the two budgets that _begin_action looks  *)
(* at, the session's actions and its time; the timers made from the time   *)
(* that is left, asyncio.timeout's in the event loop and Playwright's own  *)
(* in the driver; and the awaits of an operation that neither of them      *)
(* covers. The session starts at time 0; operations follow one another,    *)
(* since they queue for the session's lock.                                *)
(***************************************************************************)
EXTENDS Integers

CONSTANTS
    Resolution,         \* ticks of the clock in a millisecond
    WallClock,          \* config.wall_clock_timeout_s, in ticks
    NavigationTimeout,  \* config.navigation_timeout_ms
    ActionTimeout,      \* config.action_timeout_ms
    MaxActions,         \* config.max_actions
    MaxUnguarded        \* ticks an operation spends in awaits without a timer (bound)

ASSUME TimesAssumption ==
    /\ Resolution \in Nat \ {0} /\ WallClock \in Nat \ {0} /\ MaxUnguarded \in Nat
    /\ NavigationTimeout \in Nat \ {0} /\ ActionTimeout \in Nat \ {0}
    /\ MaxActions \in Nat \ {0}

Ops == {"navigate", "inspect", "click", "type", "screenshot"}

Never == 0      \* of a timer that is not set

VARIABLES
    now,        \* time.monotonic() - _started_at
    actions,    \* _actions
    op,         \* the operation that holds the lock, or "none"
    await,      \* the await it is in, or "idle"
    remaining,  \* its local variable of that name
    loop,       \* when asyncio.timeout fires
    driver,     \* when Playwright's timer for the call has run off
    pending,    \* how a screenshot ends once the page is restored
    secrets,    \* there are secret values to mask
    result,     \* how the last call ended
    entered,    \* history: when the timed block was entered
    unguarded   \* history: ticks the operation was in awaits without a timer

timers == <<loop, driver, entered>>
budgets == <<now, actions>>
vars == <<budgets, op, await, remaining, timers, pending, secrets, result, unguarded>>

Init ==
    /\ now = 0 /\ actions = 0 /\ op = "none"
    /\ await = "idle" /\ remaining = 0 /\ secrets \in BOOLEAN
    /\ loop = Never /\ driver = Never /\ entered = 0
    /\ pending = "ok" /\ result = "none" /\ unguarded = 0

-----------------------------------------------------------------------------
Least(a, b) == IF a < b THEN a ELSE b

(* max(1, int(remaining * 1000))                                           *)
Milliseconds(r) == IF r \div Resolution < 1 THEN 1 ELSE r \div Resolution

(* Mutant of DriverTime: a navigation is given the action timeout.         *)
DriverTimeShared(o, r) == Resolution * Least(ActionTimeout, Milliseconds(r))

(* The timeout Playwright is given.                                        *)
DriverTime(o, r) ==
    Resolution * Least(IF o = "navigate" THEN NavigationTimeout ELSE ActionTimeout,
                       Milliseconds(r))

(* Mutant of LoopTime: inspect does not look at what is left.              *)
LoopTimeUnbounded(o, r) == IF o = "inspect" THEN Resolution * ActionTimeout ELSE r

(* The timeout of asyncio.timeout.                                         *)
LoopTime(o, r) == IF o = "inspect" THEN Least(Resolution * ActionTimeout, r) ELSE r

Unguarded(a) == await' = a /\ loop' = Never /\ driver' = Never /\ UNCHANGED entered

(* The first await of the timed block of o: inspect's scan and the mask of *)
(* a screenshot are evaluations, for which Playwright has no timer.        *)
Enter(o, r) ==
    /\ entered' = now
    /\ \/ o = "inspect" /\ await' = "scan" /\ driver' = Never
       \/ o = "screenshot" /\ secrets /\ await' = "mask" /\ driver' = Never
       \/ /\ o # "inspect" /\ (o = "screenshot" => ~secrets)
          /\ await' = "drive" /\ driver' = now + DriverTime(o, r)

(* Mutant of Guarded: Playwright's timer alone is relied on.               *)
GuardedByDriver(o, r) == loop' = Never /\ Enter(o, r)

Guarded(o, r) == loop' = now + LoopTime(o, r) /\ Enter(o, r)

Return(code) == op' = "none" /\ result' = code /\ UNCHANGED pending /\ Unguarded("idle")

(* The operation ends, but a screenshot whose mask is set restores the     *)
(* page first; l is when asyncio.timeout still fires.                      *)
End(code, l) ==
    \/ ~(secrets /\ op = "screenshot" /\ await = "drive") /\ Return(code)
    \/ /\ secrets /\ op = "screenshot" /\ await = "drive"
       /\ await' = "restore" /\ pending' = code /\ loop' = l /\ driver' = Never
       /\ UNCHANGED <<op, result, entered>>

-----------------------------------------------------------------------------
(* The operation up to its first await, with what _begin_action found to   *)
(* be left: the disposal of handles in navigate, if there are any, and the *)
(* check of a click's target come before the timed block.                  *)
Proceed(o) ==
    /\ op' = o /\ remaining' = WallClock - now /\ result' = "none" /\ unguarded' = 0
    /\ \/ o = "navigate" /\ Unguarded("dispose")
       \/ o = "click" /\ Unguarded("validate")
       \/ o # "click" /\ Guarded(o, WallClock - now)
    /\ UNCHANGED <<now, pending, secrets>>

(* The first half of _begin_action: a call is charged before the clock is  *)
(* looked at.                                                              *)
Charged == await = "idle" /\ actions < MaxActions /\ actions' = actions + 1

(* Mutant of Begin: `remaining` is not looked at.                          *)
BeginLate(o) == Charged /\ Proceed(o)

Begin(o) == Charged /\ now < WallClock /\ Proceed(o)

Refused(code) ==
    /\ result' = code
    /\ UNCHANGED <<now, op, await, remaining, timers, pending, secrets, unguarded>>

(* _begin_action raises: at the limit of actions before anything else, and *)
(* without a charge; after the session's time with one.                    *)
Refuse ==
    \/ /\ await = "idle" /\ actions >= MaxActions /\ Refused("STEP_LIMIT_EXCEEDED")
       /\ UNCHANGED actions
    \/ Charged /\ now >= WallClock /\ Refused("WALL_CLOCK_TIMEOUT")

(* An await has its answer. The next one comes without a look at the clock.*)
Answered ==
    /\ \/ /\ await \in {"dispose", "validate"} /\ Guarded(op, remaining)
          /\ UNCHANGED <<op, pending, result>>
       \/ /\ await = "mask" /\ await' = "drive" /\ driver' = now + DriverTime(op, remaining)
          /\ UNCHANGED <<op, pending, result, loop, entered>>
       \/ /\ op = "navigate" /\ await = "drive" /\ Unguarded("title")
          /\ UNCHANGED <<op, pending, result>>
       \/ op # "navigate" /\ await = "drive" /\ End("ok", loop)
       \/ await = "scan" /\ Unguarded("release") /\ UNCHANGED <<op, pending, result>>
       \/ await \in {"scan", "release", "title"} /\ Return("ok")
       \/ await = "restore" /\ Return(pending)
    /\ UNCHANGED <<budgets, remaining, secrets, unguarded>>

(* It raises an error that is not a timeout.                               *)
Failed ==
    /\ await # "idle" /\ End("other", loop)
    /\ UNCHANGED <<budgets, remaining, secrets, unguarded>>

DriverFires ==
    /\ driver # Never /\ driver <= now
    /\ End(IF op = "navigate" THEN "NAVIGATION_TIMEOUT" ELSE "ACTION_TIMEOUT", loop)
    /\ UNCHANGED <<budgets, remaining, secrets, unguarded>>

LoopFires ==
    /\ loop # Never /\ loop <= now
    /\ End(IF op = "inspect" THEN "ACTION_TIMEOUT" ELSE "WALL_CLOCK_TIMEOUT", Never)
    /\ UNCHANGED <<budgets, remaining, secrets, unguarded>>

(* Time passes; the event loop is prompt about its own timers. Playwright  *)
(* may be late.                                                            *)
Tick ==
    /\ now' = now + 1
    /\ \/ await = "idle" /\ now < WallClock /\ UNCHANGED unguarded
       \/ /\ await # "idle" /\ loop = Never
          /\ unguarded < MaxUnguarded /\ unguarded' = unguarded + 1
       \/ loop # Never /\ now < loop /\ UNCHANGED unguarded
    /\ UNCHANGED <<actions, op, await, remaining, timers, pending, secrets, result>>

Calls == (\E o \in Ops : Begin(o)) \/ Refuse

Next == Calls \/ Answered \/ Failed \/ DriverFires \/ LoopFires \/ Tick

Spec == Init /\ [][Next]_vars

(* The clock runs, the loop's timers fire, the page answers what has no    *)
(* timer, and the caller goes on calling. What has a timer need never be   *)
(* answered.                                                               *)
Timed == {"mask", "drive", "scan"}

FairSpec ==
    /\ Spec /\ WF_vars(Tick) /\ WF_vars(LoopFires) /\ WF_vars(Calls)
    /\ WF_vars(await \notin Timed /\ Answered)

-----------------------------------------------------------------------------
Refusals == {"STEP_LIMIT_EXCEEDED", "WALL_CLOCK_TIMEOUT"}
Results == {"none", "ok", "other", "NAVIGATION_TIMEOUT", "ACTION_TIMEOUT"} \union Refusals

TypeOK ==
    /\ now \in Nat /\ actions \in 0..MaxActions
    /\ op \in Ops \union {"none"} /\ remaining \in 0..WallClock
    /\ await \in {"idle", "dispose", "validate", "mask", "drive", "scan", "restore", "title",
                  "release"}
    /\ loop \in Nat /\ driver \in Nat /\ entered \in Nat /\ unguarded \in Nat
    /\ pending \in Results /\ result \in Results /\ secrets \in BOOLEAN

(* An operation runs past the session's time by no more than it has spent  *)
(* in awaits without a timer, whichever awaits come before and after.      *)
OverrunIsUnguarded == await # "idle" => now <= WallClock + unguarded

Reports(code) == result # code /\ result' = code

Configured(o) == Resolution * (IF o = "navigate" THEN NavigationTimeout ELSE ActionTimeout)

(* The operation has had its configured timeout in its timed block.        *)
Exceeded == now - entered >= Configured(op)

NotEarly ==
    /\ Reports("WALL_CLOCK_TIMEOUT") => now >= WallClock
    /\ Reports("NAVIGATION_TIMEOUT") \/ Reports("ACTION_TIMEOUT") =>
         Exceeded \/ now > WallClock - Resolution

(* No operation is given up early, whatever code says so: the session's    *)
(* timeout is reported only once the session's time is used up, and an     *)
(* operation's only once it has had its configured time or the session's   *)
(* is used up to within a millisecond. The code need not say which of the  *)
(* two it was: see OperationCodesMeanTheOperation.                         *)
NeverGivenUpEarly == [][NotEarly]_vars

OperationTimeout ==
    Reports("NAVIGATION_TIMEOUT") \/ Reports("ACTION_TIMEOUT") => Exceeded

(* The error catalog of contracts/v0.1/README.md: NAVIGATION_TIMEOUT and   *)
(* ACTION_TIMEOUT, which may be retried, mean that the operation exceeded  *)
(* its own timeout; that the session's time is used up has a code of its   *)
(* own, which may not. The code does not keep to it: both timers of an     *)
(* operation are cut to what is left of the session's time, and inspect    *)
(* reports ACTION_TIMEOUT for either.                                      *)
OperationCodesMeanTheOperation == [][OperationTimeout]_vars

(* A caller that goes on calling, repeating what timed out as the codes    *)
(* that may be retried tell it to, is told for good by one that may not    *)
(* that the session is used up, though the page answers nothing that has a *)
(* timer.                                                                  *)
SessionEnds == <>[](result \in Refusals)
=============================================================================
