--------------------------- MODULE TimeBudgetProofs ---------------------------
(* The safety properties of TimeBudget, for any times and any resolution   *)
(* of the clock.                                                           *)
EXTENDS TimeBudget, TLAPS

(* Rounding down to milliseconds loses less than one.                      *)
LEMMA RoundsDown ==
    ASSUME NEW r \in Nat
    PROVE  /\ Milliseconds(r) \in Nat \ {0}
           /\ Resolution * Milliseconds(r) \in Nat
           /\ Resolution * Milliseconds(r) > r - Resolution
<1>1. Resolution \in Nat \ {0}
  BY TimesAssumption
<1>2. /\ r \div Resolution \in Nat
      /\ Resolution * (r \div Resolution) > r - Resolution
  BY <1>1
<1>3. CASE r \div Resolution < 1
  <2>1. r \div Resolution = 0
    BY <1>2, <1>3
  <2>2. Resolution * 0 > r - Resolution
    BY <1>2, <2>1
  <2> QED
    BY <1>1, <1>3, <2>2 DEF Milliseconds
<1>4. CASE ~(r \div Resolution < 1)
  <2>1. Resolution * (r \div Resolution) \in Nat
    BY <1>1, <1>2
  <2> QED
    BY <1>2, <1>4, <2>1 DEF Milliseconds
<1> QED
  BY <1>3, <1>4

(* Playwright's timer lasts as long as configured, or to within a          *)
(* millisecond of what is left.                                            *)
LEMMA DriverLasts ==
    ASSUME NEW r \in Nat, NEW o
    PROVE  /\ Configured(o) \in Nat /\ DriverTime(o, r) \in Nat
           /\ DriverTime(o, r) >= Configured(o) \/ DriverTime(o, r) > r - Resolution
<1> DEFINE c == IF o = "navigate" THEN NavigationTimeout ELSE ActionTimeout
<1>1. Resolution \in Nat /\ c \in Nat
  BY TimesAssumption
<1>2. Resolution * c \in Nat
  BY <1>1
<1>3. DriverTime(o, r) = Resolution * c \/ DriverTime(o, r) = Resolution * Milliseconds(r)
  BY DEF DriverTime, Least
<1> QED
  BY <1>1, <1>2, <1>3, RoundsDown DEF Configured

(* The loop's timer never lasts longer than what is left, and shorter only *)
(* for inspect.                                                            *)
LEMMA LoopLasts ==
    ASSUME NEW r \in Nat, NEW o
    PROVE  /\ LoopTime(o, r) \in Nat /\ LoopTime(o, r) <= r
           /\ LoopTime(o, r) = r \/ (o = "inspect" /\ LoopTime(o, r) >= Configured(o))
<1>1. Resolution * ActionTimeout \in Nat
  BY TimesAssumption
<1> QED
  BY <1>1 DEF LoopTime, Least, Configured

-----------------------------------------------------------------------------
(* At time t, the timeout that is configured for o has passed since its    *)
(* block was entered, or the session's time is up within a millisecond.    *)
TimeIsUp(o, t) == t - entered >= Configured(o) \/ t > WallClock - Resolution

LoopInv ==
    loop # Never =>
        /\ await \notin {"idle", "dispose", "validate"}
        /\ now <= loop /\ loop <= WallClock + unguarded
        /\ op # "inspect" => loop >= WallClock
        /\ op = "inspect" => TimeIsUp(op, loop)

DriverInv == driver # Never => await # "idle" /\ TimeIsUp(op, driver)

(* How far an operation is, given what was left when it began.             *)
StaleInv ==
    /\ await # "idle" => op # "none" /\ now <= WallClock + unguarded /\ now + remaining >= WallClock
    /\ await \in {"dispose", "validate"} => now + remaining <= WallClock + unguarded

PendingInv ==
    /\ entered <= now
    /\ await = "restore" =>
         /\ op = "screenshot" /\ pending # "NAVIGATION_TIMEOUT"
         /\ pending = "WALL_CLOCK_TIMEOUT" => now >= WallClock
         /\ pending = "ACTION_TIMEOUT" => TimeIsUp(op, now)

Inv == TypeOK /\ LoopInv /\ DriverInv /\ StaleInv /\ PendingInv

LEMMA Times ==
    /\ Resolution \in Nat \ {0} /\ WallClock \in Nat \ {0} /\ MaxUnguarded \in Nat
    /\ MaxActions \in Nat \ {0} /\ \A o : Configured(o) \in Nat
<1>1. 0 \in Nat
  OBVIOUS
<1> QED
  BY <1>1, DriverLasts, TimesAssumption

LEMMA InitInv == Init => Inv
  BY Times DEF Init, Inv, TypeOK, Refusals, LoopInv, DriverInv, StaleInv, PendingInv, TimeIsUp, Ops,
     Never, Results

(* Entering a timed block keeps the invariant.                             *)
LEMMA GuardedInv ==
    ASSUME TypeOK, NEW o \in Ops, NEW r \in 0..WallClock, Guarded(o, r), op' = o,
           remaining' = r, now' = now, pending' = pending, secrets' = secrets,
           actions' \in 0..MaxActions, result' \in Results, NEW w \in Nat, unguarded' = w,
           now + r >= WallClock, now + r <= WallClock + w
    PROVE  Inv'
<1> DEFINE d == DriverTime(o, r)
           l == LoopTime(o, r)
<1>1. /\ d \in Nat /\ (d >= Configured(o) \/ d > r - Resolution)
      /\ l \in Nat /\ l <= r /\ (l = r \/ (o = "inspect" /\ l >= Configured(o)))
  BY DriverLasts, LoopLasts
<1>2. now \in Nat /\ r \in Nat
  BY DEF TypeOK
<1> HIDE DEF d, l
<1>3. /\ loop' = now + l /\ entered' = now
      /\ driver' = Never \/ driver' = now + d
      /\ await' \in {"scan", "mask", "drive"}
  BY DEF Guarded, Enter, d, l
<1>4. TypeOK'
  BY <1>1, <1>2, <1>3 DEF TypeOK, Never
<1>5. LoopInv'
  <2>1. loop' <= WallClock + w
    BY <1>1, <1>2, <1>3, Times
  <2>2. now' <= loop'
    BY <1>1, <1>2, <1>3, Times
  <2>3. o # "inspect" => loop' >= WallClock
    BY <1>1, <1>2, <1>3, Times
  <2>4. o = "inspect" => l >= Configured(o) \/ now + l > WallClock - Resolution
    BY <1>1, <1>2, <1>3, Times
  <2>5. o = "inspect" => loop' - entered' >= Configured(o) \/ loop' > WallClock - Resolution
    BY <2>4, <1>1, <1>2, <1>3, Times
  <2> QED
    BY <1>3, <2>1, <2>2, <2>3, <2>5 DEF LoopInv, TimeIsUp
<1>6. DriverInv'
  BY <1>1, <1>2, <1>3, Times DEF DriverInv, TimeIsUp
<1>7. StaleInv'
  BY <1>2, <1>3, Times DEF StaleInv, Ops
<1>8. PendingInv'
  <2>1. entered' <= now'
    BY <1>2, <1>3
  <2>2. await' # "restore"
    BY <1>3
  <2> QED
    BY <2>1, <2>2 DEF PendingInv
<1> QED
  BY <1>4, <1>5, <1>6, <1>7, <1>8 DEF Inv

(* Nothing is owed any more once the operation is over or out of its block.*)
LEMMA UnguardedInv ==
    ASSUME Inv, NEW a \in {"idle", "dispose", "validate", "title", "release"}, Unguarded(a),
           op' \in Ops \union {"none"}, result' \in Results,
           UNCHANGED <<budgets, pending, secrets, remaining, unguarded>>,
           a # "idle" => await # "idle" /\ op' # "none",
           a \in {"dispose", "validate"} => now + remaining <= WallClock + unguarded
    PROVE  Inv'
  BY DEF Unguarded, Inv, TypeOK, LoopInv, DriverInv, StaleInv, PendingInv, Never, budgets

(* An operation ends with a code it may report.                            *)
LEMMA EndInv ==
    ASSUME Inv, await # "idle", NEW code \in Results, NEW l \in {loop, Never}, End(code, l),
           UNCHANGED <<budgets, remaining, secrets, unguarded>>,
           code = "WALL_CLOCK_TIMEOUT" => now >= WallClock,
           code = "ACTION_TIMEOUT" => TimeIsUp(op, now),
           code = "NAVIGATION_TIMEOUT" => op = "navigate"
    PROVE  Inv'
<1> USE DEF budgets
<1>1. CASE Return(code)
  BY <1>1, UnguardedInv DEF Return, Inv, TypeOK
<1>2. CASE ~Return(code)
  <2>1. /\ op = "screenshot" /\ await' = "restore" /\ pending' = code /\ loop' = l
        /\ driver' = Never /\ UNCHANGED <<op, result, entered>>
    BY <1>2 DEF End
  <2>2. TypeOK'
    BY <2>1 DEF Inv, TypeOK, Never
  <2>3. LoopInv' /\ DriverInv' /\ StaleInv'
    BY <2>1 DEF Inv, LoopInv, DriverInv, StaleInv, TimeIsUp, Never
  <2>4. PendingInv'
    BY <2>1 DEF Inv, PendingInv, TimeIsUp
  <2> QED
    BY <2>2, <2>3, <2>4 DEF Inv
<1> QED
  BY <1>1, <1>2

(* What the timers report is due.                                          *)
LEMMA DriverDue ==
    ASSUME Inv, DriverFires
    PROVE  await # "idle" /\ TimeIsUp(op, now)
  BY Times DEF Inv, TypeOK, DriverInv, DriverFires, TimeIsUp

LEMMA LoopDue ==
    ASSUME Inv, LoopFires
    PROVE  /\ await # "idle"
           /\ op # "inspect" => now >= WallClock
           /\ op = "inspect" => TimeIsUp(op, now)
  BY Times DEF Inv, TypeOK, LoopInv, LoopFires, TimeIsUp

-----------------------------------------------------------------------------
(* Every action keeps the invariant, and reports only what is due.         *)
LEMMA BeginStep == ASSUME Inv, NEW o \in Ops, Begin(o) PROVE Inv' /\ NotEarly
<1>1. /\ op' = o /\ remaining' = WallClock - now /\ result' = "none" /\ unguarded' = 0
      /\ UNCHANGED <<now, pending, secrets>>
  BY DEF Begin, Proceed
<1>0. actions' \in 0..MaxActions
  BY Times DEF Begin, Charged, Inv, TypeOK
<1>2. WallClock - now \in 0..WallClock /\ now \in Nat /\ "none" \in Results
  BY Times DEF Begin, Inv, TypeOK, Results
<1>3. CASE Guarded(o, WallClock - now)
  <2>1. now + (WallClock - now) >= WallClock /\ now + (WallClock - now) <= WallClock + 0
    BY <1>2, Times
  <2> QED
    BY <1>0, <1>1, <1>2, <1>3, <2>1, GuardedInv DEF Inv, NotEarly, Reports
<1>4. CASE ~Guarded(o, WallClock - now)
  <2>1. /\ await' \in {"dispose", "validate"} /\ loop' = Never /\ driver' = Never
        /\ UNCHANGED entered
    BY <1>4 DEF Begin, Proceed, Unguarded
  <2>2. TypeOK'
    BY <1>0, <1>1, <1>2, <2>1 DEF Inv, TypeOK, Never
  <2>3. LoopInv' /\ DriverInv'
    BY <2>1 DEF LoopInv, DriverInv
  <2>4. StaleInv' /\ PendingInv'
    <3>1. now <= WallClock + 0 /\ now + (WallClock - now) >= WallClock
          /\ now + (WallClock - now) <= WallClock + 0
      BY <1>2, Times
    <3> QED
      BY <1>1, <2>1, <3>1 DEF Inv, StaleInv, PendingInv, Ops
  <2> QED
    BY <1>1, <2>2, <2>3, <2>4 DEF Inv, NotEarly, Reports
<1> QED
  BY <1>3, <1>4

LEMMA RefuseStep == ASSUME Inv, Refuse PROVE Inv' /\ NotEarly
<1>1. /\ await = "idle" /\ result' \in Refusals
      /\ result' = "WALL_CLOCK_TIMEOUT" => now >= WallClock
      /\ UNCHANGED <<now, op, await, remaining, loop, driver, entered, pending, secrets, unguarded>>
  BY DEF Refuse, Refused, Charged, Refusals, timers
<1>2. actions' \in 0..MaxActions
  BY Times DEF Refuse, Charged, Inv, TypeOK
<1> QED
  BY <1>1, <1>2 DEF Inv, TypeOK, LoopInv, DriverInv, StaleInv, PendingInv, TimeIsUp, NotEarly,
     Reports, Results, Refusals

LEMMA AnsweredStep == ASSUME Inv, Answered PROVE Inv' /\ NotEarly
<1> USE DEF Results, budgets
<1>0. UNCHANGED <<budgets, remaining, secrets, unguarded>>
  BY DEF Answered
<1>1. CASE /\ await \in {"dispose", "validate"} /\ Guarded(op, remaining)
           /\ UNCHANGED <<op, pending, result>>
  <2>1. op \in Ops /\ remaining \in 0..WallClock /\ unguarded \in Nat /\ unguarded' = unguarded
    BY <1>0, <1>1 DEF Inv, TypeOK, Guarded, Enter, StaleInv
  <2> QED
    BY <1>0, <1>1, <2>1, GuardedInv DEF Inv, TypeOK, StaleInv, NotEarly, Reports
<1>2. CASE /\ await = "mask" /\ await' = "drive" /\ driver' = now + DriverTime(op, remaining)
           /\ UNCHANGED <<op, pending, result, loop, entered>>
  <2> DEFINE d == DriverTime(op, remaining)
  <2>1. remaining \in Nat /\ now \in Nat /\ entered \in Nat
    BY Times DEF Inv, TypeOK
  <2>2. /\ Configured(op) \in Nat /\ d \in Nat
        /\ d >= Configured(op) \/ d > remaining - Resolution
    BY <2>1, DriverLasts
  <2> HIDE DEF d
  <2>3. driver' = now + d
    BY <1>2 DEF d
  <2>4. TypeOK' /\ LoopInv' /\ StaleInv' /\ PendingInv'
    BY <1>0, <1>2, <2>1, <2>2, <2>3 DEF Inv, TypeOK, LoopInv, StaleInv, PendingInv, TimeIsUp
  <2>5. DriverInv'
    <3>1. now + remaining >= WallClock /\ entered <= now
      BY <1>2 DEF Inv, StaleInv, PendingInv
    <3>2. (now + d) - entered >= Configured(op) \/ now + d > WallClock - Resolution
      BY <2>1, <2>2, <3>1, Times
    <3> QED
      BY <1>2, <2>3, <3>2 DEF DriverInv, TimeIsUp
  <2> QED
    BY <1>2, <2>4, <2>5 DEF Inv, NotEarly, Reports
<1>3. CASE /\ op = "navigate" /\ await = "drive" /\ Unguarded("title")
           /\ UNCHANGED <<op, pending, result>>
  BY <1>0, <1>3, UnguardedInv DEF Inv, TypeOK, NotEarly, Reports
<1>4. CASE op # "navigate" /\ await = "drive" /\ End("ok", loop)
  <2>1. result' \in {result, "ok"}
    BY <1>4 DEF End, Return
  <2> QED
    BY <1>0, <1>4, <2>1, EndInv DEF NotEarly, Reports
<1>5. CASE await = "scan" /\ Unguarded("release") /\ UNCHANGED <<op, pending, result>>
  BY <1>0, <1>5, UnguardedInv DEF Inv, TypeOK, StaleInv, NotEarly, Reports
<1>6. CASE await \in {"scan", "release", "title"} /\ Return("ok")
  BY <1>0, <1>6, UnguardedInv DEF Return, NotEarly, Reports
<1>7. CASE await = "restore" /\ Return(pending)
  <2>1. Inv'
    BY <1>0, <1>7, UnguardedInv DEF Return, Inv, TypeOK
  <2>2. NotEarly
    BY <1>7 DEF Inv, PendingInv, TimeIsUp, Exceeded, Return, NotEarly, Reports
  <2> QED
    BY <2>1, <2>2
<1> QED
  BY <1>1, <1>2, <1>3, <1>4, <1>5, <1>6, <1>7 DEF Answered

LEMMA FailedStep == ASSUME Inv, Failed PROVE Inv' /\ NotEarly
<1> USE DEF budgets
<1>1. result' \in {result, "other"}
  BY DEF Failed, End, Return
<1> QED
  BY <1>1, EndInv DEF Failed, NotEarly, Reports, Results

LEMMA DriverFiresStep == ASSUME Inv, DriverFires PROVE Inv' /\ NotEarly
<1> USE DEF budgets, Refusals
<1> DEFINE code == IF op = "navigate" THEN "NAVIGATION_TIMEOUT" ELSE "ACTION_TIMEOUT"
<1>1. await # "idle" /\ TimeIsUp(op, now)
  BY DriverDue
<1>2. End(code, loop) /\ UNCHANGED <<budgets, remaining, secrets, unguarded>>
  BY DEF DriverFires
<1>3. result' \in {result, code}
  BY <1>2 DEF End, Return
<1>4. Inv'
  BY <1>1, <1>2, EndInv DEF Results
<1>5. NotEarly
  BY <1>1, <1>3 DEF TimeIsUp, Exceeded, NotEarly, Reports
<1> QED
  BY <1>4, <1>5

LEMMA LoopFiresStep == ASSUME Inv, LoopFires PROVE Inv' /\ NotEarly
<1> USE DEF budgets, Refusals
<1> DEFINE code == IF op = "inspect" THEN "ACTION_TIMEOUT" ELSE "WALL_CLOCK_TIMEOUT"
<1>1. End(code, Never) /\ UNCHANGED <<budgets, remaining, secrets, unguarded>>
  BY DEF LoopFires
<1>2. result' \in {result, code}
  BY <1>1 DEF End, Return
<1>3. Inv'
  BY <1>1, LoopDue, EndInv DEF Results
<1>4. NotEarly
  BY <1>2, LoopDue DEF TimeIsUp, Exceeded, NotEarly, Reports
<1> QED
  BY <1>3, <1>4

LEMMA TickStep == ASSUME Inv, Tick PROVE Inv' /\ NotEarly
<1>1. /\ now' = now + 1
      /\ UNCHANGED <<actions, op, await, remaining, loop, driver, entered, pending>>
      /\ UNCHANGED <<secrets, result>>
  BY DEF Tick, timers
<1>2. /\ unguarded' = unguarded \/ unguarded' = unguarded + 1
      /\ loop # Never => now < loop /\ unguarded' = unguarded
      /\ loop = Never /\ await # "idle" => unguarded' = unguarded + 1
  BY DEF Tick, Inv, LoopInv
<1>3. TypeOK'
  BY <1>1, <1>2 DEF Inv, TypeOK
<1>4. now \in Nat /\ unguarded \in Nat /\ loop \in Nat /\ entered \in Nat /\ remaining \in Nat
  BY Times DEF Inv, TypeOK
<1>5. LoopInv'
  <2>1. loop # Never => now + 1 <= loop
    BY <1>2, <1>4
  <2> QED
    BY <1>1, <1>2, <2>1 DEF Inv, LoopInv, TimeIsUp
<1>6. DriverInv'
  BY <1>1 DEF Inv, DriverInv, TimeIsUp
<1>7. StaleInv'
  <2>1. CASE loop = Never
    BY <1>1, <1>2, <1>4, <2>1, Times DEF Inv, StaleInv
  <2>2. CASE loop # Never
    <3>1. now + 1 <= WallClock + unguarded /\ await \notin {"idle", "dispose", "validate"}
      BY <1>2, <1>4, <2>2, Times DEF Inv, LoopInv
    <3> QED
      BY <1>1, <1>2, <1>4, <2>2, <3>1, Times DEF Inv, StaleInv
  <2> QED
    BY <2>1, <2>2
<1>8. PendingInv'
  <2>1. \A o : TimeIsUp(o, now) => TimeIsUp(o, now + 1)
    BY <1>4, Times DEF TimeIsUp
  <2> QED
    BY <1>1, <1>4, <2>1, Times DEF Inv, PendingInv, TimeIsUp
<1> QED
  BY <1>1, <1>3, <1>5, <1>6, <1>7, <1>8 DEF Inv, NotEarly, Reports

LEMMA StepInv == ASSUME Inv, [Next]_vars PROVE Inv' /\ [NotEarly]_vars
<1>1. CASE Next
  BY <1>1, BeginStep, RefuseStep, AnsweredStep, FailedStep, DriverFiresStep, LoopFiresStep,
     TickStep DEF Next, Calls
<1>2. CASE UNCHANGED vars
  BY <1>2 DEF vars, budgets, timers, Inv, TypeOK, LoopInv, DriverInv, StaleInv, PendingInv, TimeIsUp
<1> QED
  BY <1>1, <1>2

LEMMA Invariance == Spec => []Inv
  BY InitInv, StepInv, PTL DEF Spec

(* The types of the clocks, for any times.                                 *)
THEOREM TypeCorrect == Spec => []TypeOK
  BY Invariance, PTL DEF Inv

(* However the awaits of an operation with and without timers follow one   *)
(* another, it runs past the session's time by its unguarded ticks only.   *)
THEOREM Overrun == Spec => []OverrunIsUnguarded
<1>1. Inv => OverrunIsUnguarded
  BY DEF Inv, StaleInv, OverrunIsUnguarded
<1> QED
  BY <1>1, Invariance, PTL

(* Whatever code a timeout has, it is not reported before the operation's  *)
(* configured time or, but for the millisecond that rounding takes, the    *)
(* session's is over; and the session's own never before the latter. That  *)
(* an operation's code means the operation's time is not so.               *)
THEOREM NotGivenUpEarly == Spec => NeverGivenUpEarly
  BY Invariance, StepInv, PTL DEF Spec, NeverGivenUpEarly
=============================================================================
