# A TLA+ verification of qa-agent-lm's browser runtime

qa-agent-lm lets a language model drive a browser through a narrow set of operations, and scores what the model
decides against a benchmark. The part with concurrency and failures is `BrowserSession`
(`src/src/qa_agent_lm/browser/session.py`): one Playwright page behind an asyncio lock, with an origin allowlist,
references that live as long as the observation they are from, an action budget and a wall-clock budget. This
directory models it, the collector of its evidence, the benchmark's corpus, oracle and manifest, and the runner that
drives a session in the benchmark; it model-checks them on small instances with TLC and proves their safety
properties with TLAPS.

## The system's parts

| component | state | operations | how it meets the others | hard behaviour | what makes it correct |
|---|---|---|---|---|---|
| `BrowserSession` (`browser/session.py`) | state, action count, start time, observation generation and element handles, two event flags, Playwright objects, lock, background tasks | start, close, navigate, inspect, click, type, read_diagnostics, take_screenshot, finish, request_human_help | awaits Playwright; Playwright calls back `_guard_route`, `_on_download`, `_on_new_page` | operations queue for a lock that start() and close() do not take; every await is a point of interleaving, cancellation and failure; values read before an await are used after it | one operation at a time; budgets; references expire and never come back; events are attributed to the right operation; a closed session stays closed and releases everything |
| Origin policy (`_origin`, `_configured_origin`, `_ensure_allowed`) | the canonical origins | judge a URL | called by navigate, click and for each routed request | normalisation of ports, case, IPv6; a port that raises | equal origins are judged equally |
| `BrowserSessionConfig` | immutable | construction | read by the session and the collector | bounds that are not checked (no upper bound of `max_actions`) | rejects what the session cannot work with |
| `EvidenceCollector` (`browser/evidence.py`) | ring buffer, discarded count, evidence and artifact counters, artifact directory | read, screenshot, three page callbacks | called by the session under its lock; callbacks at any time | buffer at capacity; a mask that must be undone after a timeout or a cancellation; two files per artifact; a directory shared by sessions | `truncated` is right; the page is restored; an artifact is complete and never overwritten |
| Errors (`browser/errors.py`) | none | – | raised by session and collector | codes and retryability are normative | the catalogue of `contracts/v0.1/README.md` |
| Oracle (`benchmark/oracle.py`) | none | contains, score_decision, score_terminal | used by the scripted runner and evaluation | several acceptable alternatives, judged together | only what one alternative accepts as a whole is called correct |
| Corpus (`benchmark/corpus.py`, `scripts/validate_benchmark.py`) | files; the loader's sets and dictionaries | load_corpus, build_manifest, write and check the manifest | feeds the oracle | conflicts between files are found against what the loop remembers; duplicate identifiers; edits between writing and checking the manifest | exactly the well-formed corpora load; a decision is scored against the entry it is for; no edit goes unnoticed |
| Scripted runner (`benchmark/scripted.py`) | the trace | run_scripted_case, three scripts | owns a session and a demo server | `asyncio.wait_for` cancels the script anywhere, within `finish()` too | the session is closed and released on every way out |
| Contract script, demo server, package files | none | – | – | – | static files and a stateless fixture; not modelled |

## Modules

| module | what it is |
|---|---|
| `SessionContract` | what a session promises, with nothing said of coroutines: phase, budget, one operation in progress, references |
| `BrowserSession` | `session.py` at the grain of asyncio: one action is the code between two awaits; properties and mutants included |
| `TimeBudget` | the two budgets of `_begin_action`, the clocks of one session: `remaining`, the two timers made of it, the awaits that neither covers |
| `InspectScan` | `inspect` call by call to the driver, with the handles it gets, keeps and disposes of; a second implementation of `SessionContract` |
| `OriginPolicy` | `_origin`, `_configured_origin`, `_ensure_allowed` and what a configuration may be |
| `ScriptedRun` | `run_scripted_case` (`benchmark/scripted.py`) and its demos, composed with `BrowserSession`, whose only caller it is |
| `Screenshot` | `EvidenceCollector.screenshot`: the scripts in the page, the artifact files, sessions that share a directory |
| `Diagnostics` | `EvidenceCollector`'s ring buffer and `read`, against the log of everything the page reported |
| `Evidence` | the two composed as a session uses them: events at any time, reads and screenshots under its lock, a new collector per session |
| `Corpus` | the benchmark's files as people edit them, `load_corpus` file by file, the manifest |
| `Oracle` | the scores of `benchmark/oracle.py`, as operators |
| `Evaluation` | `Corpus` composed with `Oracle`: decisions and ends scored on a corpus that was loaded |
| `BrowserSessionProofs`, `ScriptedRunProofs`, `TimeBudgetProofs`, `InspectScanProofs`, `OriginPolicyProofs`, `EvidenceProofs`, `EvaluationProofs` | the TLAPS proofs about the module each extends (`EvaluationProofs` covers `Corpus` and `Oracle`, `EvidenceProofs` `Screenshot` and `Diagnostics`, `BrowserSessionProofs` the contract) |
| `MCBrowserSession`, `MCScriptedRun`, `MCTimeBudget`, `MCInspectScan`, `MCEvidence`, `MCEvaluation` | TLC instances |

`ScriptedRun` extends `BrowserSession`; `BrowserSession` and `InspectScan` instantiate `SessionContract`; `Evaluation` extends `Corpus` and
instantiates `Oracle`; `Evidence` extends `Screenshot` and `Diagnostics`. `TimeBudget`, `InspectScan`, `Screenshot` and `OriginPolicy` each open up what is one step, or
one nondeterministic choice, of `BrowserSession`: a timeout, the scan, a capture, the verdict on a URL.

### How BrowserSession corresponds to the code

A caller is a coroutine. `pc[c]` names the await it is suspended in, `op[c]` the method it is in. `Call` is the
caller's decision; `Enter` is the code from the method's first line to its first await, for a locked operation from
the moment the lock is acquired (which asyncio runs in one piece with what follows). A segment ends in `Suspend` or
`Return`; `Return` also lets the lock go, as leaving `async with self._lock` does. `Admitted` and `Refused` are
`_active_page` and `_begin_action`, in their order, with what each refusal charges. `Resolve` is `_resolve_element`.
`ClearObservation` is the synchronous half of `_invalidate_observation`; the disposal of the handles is the await
`nav_dispose`, `insp_dispose` or `close_dispose`, which only exists when there are handles.

`close()` is `CloseBody` and then `Closing` for each of the five awaits of `CloseOrder` that is `Due`, in the
segment where the code tests it. `CloseCut` is a step that raises or whose caller is cancelled. `Starting` and
`StartFails` are `start()` with its `except BaseException`. `finish` and `request_human_help` are `Terminate`,
which runs `CloseBody` under the lock.

Playwright and the page are external. A driver call ends in any way `session.py` has a branch for; it succeeds only
while its context is open. `DeniedRequest`, `DownloadStarted` and `PopupOpened` are the three callbacks, at any time
while a context is open. `live` is what really runs; `fields` what the session's attributes refer to. Both remember
which `start()` created an object, since two overlapping ones overwrite each other's attributes.

The clock is the flag `expired`. A URL is its verdict. An inspection finds some number of elements up to
`MaxElements`. `seen`, `issued` and `aborted` are history variables that no action reads.

### How the other modules correspond to the code

`ScriptedRun` EXTENDS `BrowserSession` and adds the stage of `run_scripted_case`: `AEnter` and `Entered` are the
`async with`, `ScriptStep` the next operation of a demo, `ScriptRaises` an operation that raised or a check that
failed, `ScriptPasses` the end with every check passed, `AExit` and `Left` the context manager's exit. `TimeOut` is
`asyncio.wait_for`: it cancels whatever the script is suspended in, a locked operation's await (`LeaveOp`) or a step
of the `close()` that `finish` is in (`LeaveClose`). `Segment` and `Chance` are the session's own actions.

`Screenshot` has the local variables of one call, since the session's lock admits one at a time, and the page: `sent`
are scripts that Playwright has sent and that run whether or not anybody still waits. `Masked`, `Captured` and
`Restored` are the segments after the three awaits, `Interrupt` the `asyncio.timeout` of `take_screenshot` or a
cancellation. In the page only what the properties tell apart is kept: its own text or the masked one, and whether
`__qaAgentRedactions` holds what would bring the own text back. A file is the session and the call that wrote it.

`Diagnostics` keeps the buffer as the code does and, as history, the log. Messages and their redaction are left out;
`read` selects with sets what the code selects with slices, and its argument checks change nothing. In `Evidence`
the page's events (`PageReports`) come at any time, also while a screenshot's script is on its way; `Diagnose` is a
`read_diagnostics` and waits for the lock that a screenshot holds; `Renew` is the next session's `start()`, with a
collector of its own (`NextSession` and `NewCollector`) and the directory of the last one.

`TimeBudget` counts ticks, `Resolution` of them in a millisecond, from the start of the session, and actions.
`Charged` is the first half of `_begin_action`, which spends an action if there is one; `Begin` the rest of it and the
operation up to its first await; `Refuse` its two ways to raise, the limit of actions before the clock and without a
charge. `remaining` is the local variable of that name. `Milliseconds` and `DriverTime` are the driver's timeout,
`int()` and the floor of one included; `LoopTime` is the argument of `asyncio.timeout`. `Guarded` enters the timed
block; `dispose`, `validate`, `title`, `release` and `restore` are the awaits outside of it. `Answered` goes on with
the next await as the code does, without a look at the clock; `DriverFires` and `LoopFires` are the two timers with
the code each is reported by. The event loop is prompt about its own timers, so `Tick` does not pass one; Playwright
may be late by any time, or answer when its time is up.

`InspectScan` has one action per call to the driver in `inspect`: the query, `is_visible`, the disposal of a hidden
handle, the evaluation, and, in `Disposed`, the disposals of the unwanted handles (`trim`), of the previous
observation (`old`) and of navigate's (`clear`). `Cut` is a timeout, an error or a cancellation in any of them;
`PageReplaced` a page that goes elsewhere, when Playwright's handles go with it. `scope_ref` narrows the candidates
only, and so is any number of candidates. `actions` and `generation` are `_actions` and `_observation_generation`:
`Inspect` and `Navigate` are charged, and refused at the limit, as `_begin_action` does it. `Navigate` is there for
the observation it drops, and left out when there is none. Seen from the contract, the session is open, its
references are those of the registered handles, and all the awaits of an inspection are one operation in progress.

In `OriginPolicy` a URL is what `urlsplit` makes of it. The strings that the code builds are triples here, since
`[...]` around a host with a colon keeps the parts of the string apart. Its verdicts are the constants `Verdicts` that
`BrowserSession` chooses from.

`Corpus` keeps the files as functions of places, a split directory and a name. `Edit` changes any one file;
`Load`, `LoadCase` and `Loaded` are `load_corpus`: the start, the body of the loop with its checks (`Passes`) and what
it remembers (`Remember`), and the checks after the loop (`NothingElse`). `WriteManifest` and `CheckManifest` are the
two modes of `validate_benchmark.py` over `build_manifest`. A file that violates its schema is `Malformed`; a hash is
the content it stands for. `families` is the families file, which is `Malformed` when it is missing, is not JSON or
maps to anything but names; `Load` then rejects the corpus before any case is read. What an objective is normalised to
is the first half of a pair. `LastEntry` is what the loader's dictionary of checkpoints has for an identifier that is
listed twice.

`Oracle` translates `contains`, `score_decision`'s judgement and `score_terminal`. In `Evaluation`, `Decide` asks for
a score at a checkpoint of a loaded case, or at one the case does not have, which raises `ValueError`; `FirstListed`
is the entry that `score_decision` takes, and `Scored` scores against that entry's alternatives out of those of the
whole case. Observations, alternatives and decisions, which the loader does not compare with anything, are any.

## Runs

| run | configuration | what it shows |
|---|---|---|
| `session` | 2 symmetric callers, all methods, 3 actions, 1 element, 1 background task, cancellation and failing start/close | the safety invariants and action properties listed below; every behaviour is one of `SessionContract` |
| `liveness` | 2 callers, start, close, navigate, inspect, click, finish, 2 actions, no faults | every call returns; a closed session's browser goes |
| `run` | the three demos, the timeout firing anywhere, failing start/close | a result means a closed and released session with the reported number of operations; every run ends, though the page need not answer; only a `close()` that was cut leaks, and the caller sees an exception |
| `time` | 9 ticks of half a millisecond, timeouts of 3 and 2 ms, 3 actions, up to 3 ticks without a timer per operation | an operation overruns the session by no more than its untimed awaits take; none is given up early; who goes on calling is told for good that the session is used up |
| `scan` | up to 4 candidates, 3 inspections (of 1 or 2 elements) or navigations, cuts | the first visible elements are registered and `truncated` is right; no handle is lost unless a call was cut; none is disposed of twice; what all the calls to the driver do is what `SessionContract` says of one inspection |
| `evidence` | 2 sessions of one directory, 3 screenshots, 2 artifacts and 4 events on 2 symmetric channels each, a buffer of 2, with and without secrets, cut calls | the page is restored unless a call was cut in an await around the capture; reported artifacts are complete; a session never writes over its own files; the buffer is the end of the log; answers are honest about what they leave out |
| `evaluation` | 2 splits, 2 cases, 2 checkpoints, one of them listed twice, 2 edits of anything; 1 or 2 alternatives out of 10 | the loader takes exactly the well-formed corpora; a manifest check passes just when the files are those it was written for; praise is earned; an acceptable decision is blamed in one case only |
| `start_twice` (violation) | callers do not wait for start() | two start() calls succeed |
| `hang` (violation) | only timed awaits are sure to end | a click never returns |
| `run_timeout` (violation) | a demo, no faults but the timeout | the runner leaves a browser behind |
| `penalized` (violation) | as `evaluation` | an acceptable decision is given a reason because of another alternative |
| `time_codes` (violation) | as `time`, with 5 ticks of a millisecond | a timeout that may be retried is reported for an operation that has not had its own, since the session's time is up |

Properties of `session`: `OneAtATime`, `LockIsWorked`, `BudgetHolds`, `ReferencesAnswer`, `TargetIsCurrent`,
`NeverReissued`, `ClosedIsFinal`, `BlameIsFresh`, `DeniedIsReported`, `CleanupComplete`, `KeepsContract`. Each property
of a run is stated in words above its definition, and each has a mutant of the code under which TLC finds it violated.

### Bounds

Two callers are enough for one to be anywhere inside an operation while the other waits, closes, starts or is
cancelled; the lock makes a third caller wait like the second. Three actions allow an observation, a navigation or
second observation, and an operation with a reference of either. One element per observation distinguishes a present
index, an index that does not exist (`Refs` has one more than `MaxElements`) and an older generation. One pending
background task is enough for gather to have something to wait for; `MaxBackground` is a bound of the
model, not of the code. `GenLimit` is 999999 in the code.

The runner makes at most seven operations (`PassingDemo`), so `MaxActions = 7` is never in its way, as in the code,
where the default is 50. In `evidence` three calls against two artifacts reach the limit and leave a call
to fail; two sessions are what overwriting takes, and four events overrun a buffer of two twice over.

In `time` a resolution of two ticks per millisecond makes truncation lose something and the floor of one give
something; 9 ticks are an odd number of halves, leave room for operations before and after the last, and are more
than either timeout. Three actions let the actions run out before the time, the time before the actions, and an
operation that timed out be repeated. `MaxUnguarded = 3` lets an await without a timer use up all that was left. In `scan` four
candidates against one or two wanted elements cover hidden ones before, between and after, none and one too many
visible ones, and candidates that are never looked at; three operations let an inspection meet the handles of
another, or come after one that was cut or a navigation.

In `evaluation` two edits are what a conflict between two files takes, or a change and its reversal; the lists of
checkpoints have one with an identifier listed twice, with two histories. Two alternatives show what they do to each other; the
references and labels, which the observations combine in every way, tell a right element, a wrong one and an unknown
one apart.

`AwaitStart = TRUE` is the use of the code itself, `async with session:`, where nothing is called before start() has
returned. The runs with `FALSE` show what happens to callers that do not wait. Even with `TRUE`, methods are called
by several tasks, and close() by any of them at any time.

### Fairness

`TimedSpec` states what the code can count on: the event loop runs what is ready; `asyncio.Lock` is first come first
served, which is strong fairness of `Enter` here, since any waiter may get the lock in the model; awaits with a timer
end; the driver answers start(), close() and dispose() and ends the background tasks. `LiveSpec` adds that the page
answers the two evaluations that have no timeout (`_validate_click_target` and `page.title()`). The difference is
what the run `hang` is about. `RunSpec` assumes no more than `TimedSpec` does, that wait_for's timer fires, and that
the runner's own code goes on: `RunEnds` holds without the page's answers because the timer cancels the script.
`FairSpec` of `TimeBudget` assumes that the clock runs, that the event loop fires its own timers, that the awaits no timer covers
are answered, and that the caller goes on calling; of what a timer covers it assumes neither answers nor Playwright's
timer.
`InspectScan`, `Evidence` and `Evaluation` have no liveness properties and no fairness.

## Proofs

Every safety property that a passing run checks is proved, for any values of the constants that meet the named
assumptions of the modules, which TLC evaluates in every run. Only the liveness properties are model-checked alone.

`BrowserSessionProofs` covers the run `session`, for any set of callers and any bounds: `TypeCorrect`, `Serial`
(`OneAtATime`), `NobodyKeepsTheLock` (`LockIsWorked`), `Budget`, `References` (when generations fit six digits),
`NeverComesBack`, `FreshBlame`, `NothingHushedUp` and, when callers wait for start(), `ClosedForever`, `CurrentTarget`, `Cleanup`
(`CleanupComplete`) and `Implements` (`KeepsContract`). None of the invariants is inductive by itself. `Inv` adds:

- `PcMatchesOp`: the await a caller is in belongs to its method. Without it a coroutine of start() could take the lock.
- `StartAlone`: while somebody is in start(), nobody else is in the session, and the session is new. It is what
  `AwaitStart` buys, and why `ClosedForever` needs that hypothesis: `ClosedIsFinal` fails with `AwaitStart = FALSE`.
- `ObservationInv`: the active generation is the latest or none; what was issued in the active generation is still
  there; an inspection under way has been charged and not counted.

The argument has two layers. `SegmentShape` shows that each segment either returns or awaits a step of its method
while nobody else holds the lock; from that alone `CallsInv` (with `OneAtATime`) is inductive. `SegmentEffect` shows
what a segment does to state, budget and observation; from both, `ObservationStep` and `TargetStep` follow without
looking at the actions again.

`Cleanup` rests on `ReleaseInv`: what runs is what the attributes refer to (`LiveIsOwned`); start() never makes two
objects of a kind (`StartIsFresh`); a step of close() works on what its attribute refers to (`ClosesWhatItOwns`); and
in a closed session with no close() cut, somebody is at a step of close() by which what comes before it is gone, or
nothing is left (`SomebodyReleases`). `Implements` shows each step to be one of `SessionContract` or a stutter under
the mapping of the instance `Contract`, `busy` being the operation of the lock's holder (`HolderWorks`: the holder is
past its first await). `FlagsInv` is what the blame properties need: the flags are set just when their event came
since the browser was last set to work. `ContractReferences` and `ContractClosesForGood` are what follows from the
contract alone, whatever implements it.

`NothingHushedUp` is about clicks and types, and about navigations until `page.goto` is over; what it leaves out is
said at `DeniedIsReported` and below.

Two further theorems say how far the interleavings can go. When callers wait for start(), `ReleaseIsFinal`: in a
closed session no driver, browser or context comes up any more, so that what a close() leaves, being cut, is all there
will ever be to release. `NoCallGoesBack` is the part of liveness that needs no fairness: each step of a call takes it
to an await nearer to its end (`AwaitsLeft`), whatever the others do, so that a call is in eleven awaits at most and
`CallsReturn` only needs each of them to end.

`ScriptedRunProofs` covers the safety of the run `run`: `HonestResult` and `LeaksAreCuts`, for any faults and a timer
that fires in any await. The invariant of the session survives the runner's own way of leaving a call (`SessionStep`);
`RunInv` says at each stage of the run what the session may be in, how many operations were charged, and that a cut
close() has led, or is about to lead, to an exception. A result needs a closed session nobody is in, and with no
close() cut `ReleaseInv` makes it an empty one. `RunIsASession` says that, seen without its own variables, the runner
is a caller like any other: with cancellation allowed, each of its steps is one of `BrowserSession`, `wait_for`'s timer
being a cancellation. What is proved of `Spec` therefore holds of its session. `RunKeepsContract` is the contract
for any faults, with or without cancellation; like `Implements` it is about callers that wait for start(), as the
runner does.

`TimeBudgetProofs` covers the safety of `time`, for any resolution and any times. `StaleInv` says how stale
`remaining` can be: it is at most what is left plus the time spent without a timer. `LoopInv` and `DriverInv` say of a
timer that is set that it is not due before the configured time, or before less than a millisecond is left;
`RoundsDown` is the arithmetic of truncation and of the floor. `NotGivenUpEarly` follows: whatever the code says, an
operation has had its configured time or the session's is used up to within a millisecond. Which of the two it was,
the code does not tell, and the run `time_codes` shows that it should.

`InspectScanProofs` covers `scan`, for pages, observations and numbers of inspections of any size. `Scanned` relates
the list `visible` to the part of the page looked at; `Ahead` names the handles the loops have still to decide on, so
that every handle is registered, waiting for disposal or ahead, and in one of these only (`LiveInv`, `ApartInv`).
`ImplementsInspection` shows it to implement `SessionContract`, so that the contract stands between the two grains:
`BrowserSession`, where the scan is one await and other tasks interleave, and `InspectScan`, where it is opened up.

`OriginPolicyProofs`: canonical origins are equal just when scheme, host and effective port are, and a session with an
accepted configuration lets a URL pass just when it is of the origin of an allowed one.

`EvaluationProofs` covers `evaluation`, for any corpus, any order of its files and any edits. `Memory` says that the
sets and dictionaries of the loader are exactly those of the cases loaded so far, and that those fit and are pairwise
without conflict; at the end of the loop that is `WellFormed`, and a file that does not pass contradicts it.
`WellFormed` is stated entry by entry (`Illustrates`), without the loader's dictionary; `SidecarsAgree` relates the
two, by the largest position that lists an identifier. `DriftIsNoticed` needs `ManifestDetermines`: two well-formed
corpora with the same manifest have the same files, the stray ones and the families included. `AnsweredStep` says that
the score that is there is that of the first entry for the checkpoint asked for, by `FirstIsListed`; `PraiseIsEarned`
and `OnlyRivalsBlame` (`BlameHasARival`) then follow from the definitions of the scores (`EarnedDecision`,
`AcceptedDecision`).

`EvidenceProofs` proves everything the run `evidence` checks, for any limits, capacity, channels and numbers of
sessions, calls and events, from positive limits alone. `ItsScreenshots` and `ItsDiagnostics` are what composes it:
seen with its own variables, each half of the collector goes through a behaviour of its own module, whatever the other
half does, so that the invariants of the halves carry over. `BufferIsTail` is inductive with the types; with it a
selection of `Read` is described in terms of the log (`Selection`, `SelectionIsNewest`), and an answer stays right
while the log grows because it is about the log up to the time it was given. `PageInv` says what the page shows at each
of the three awaits, which is what makes `PageRestored` inductive: while nothing is cut, at most one script is on its
way. `FileInv` says that the session has written no file numbered above its counter, and that no file is of a later
session; `NeverOverwritten` and `ReportedIsComplete` both follow from it (`WriteStep`).

Only model-checked, because the prover does not do liveness: `CallsReturn`, `EventuallyReleased`, `RunEnds` and
`SessionEnds`.

## What the runs found

- `close()` marks the session closed before it releases anything and is a no-op afterwards, so that a cancellation in
  the middle leaks the browser for good. `run_scripted_case` gets there: its `wait_for` may cancel the script inside
  `finish()`, and the `close()` of `__aexit__` does nothing then (`run_timeout`).
- `start()` is not protected against a second start() during its awaits (`start_twice`), nor against a close():
  `ClosedIsFinal` holds for callers that wait for start() only.
- The check of a click's target has no timeout (`hang`).
- A decision that one alternative accepts is given `wrong_target` if another alternative of the same operation has a
  target that it misses (`penalized`). `BlameHasARival` says that this is the only such case: the alternatives that
  accept the decision name no target, and it is never blamed for its input, operation or form.

- An operation's own timeout is cut to what is left of the session's time. Playwright's truncated timer usually beats
  asyncio's then, and `inspect` reports `ACTION_TIMEOUT` for either, so that a session out of time is reported by
  codes that `contracts/v0.1/README.md` reserves for the operation's own timeout and lets the caller retry (`time_codes`;
  lines 34, 44, 45 and 47). Only the next call says `WALL_CLOCK_TIMEOUT`, or `STEP_LIMIT_EXCEEDED` if no action is left.

Two more documents say what the code does not do, and the passing properties are stated so as to leave it out:

- The benchmark's design document (`docs/superpowers/specs/2026-09-22-benchmark-cases-and-oracle-design.md`), line 17,
  says that the loader rejects manifest drift before any evaluation. `load_corpus` never reads the manifest, and a corpus
  with a stale one is loaded and can be evaluated: `LoadsTheWellFormed` is about the other files. Drift is noticed by
  `validate_benchmark` alone (`DriftIsNoticed`).
- `docs/specification.md`, line 54, asks to preserve artifacts required to reproduce a reported failure. Artifact numbers
  restart with every session, so that a second one in the same directory replaces the first one's files, which its report
  still names: `ReportedIsComplete` and `NeverOverwritten` are about the session under way only.

And some of what happens no document speaks of as precisely:

- `remaining` is stale after an await without a timer, and what follows is timed from then: `OverrunIsUnguarded` is
  exact, a session of nine ticks does run to twelve.
- A navigation succeeds over a download, whose flag it only looks at after an error, and over a request that is denied
  while it reads the title; `inspect` and `take_screenshot` do not look at the flags, and a timeout is reported before
  either: `DeniedIsReported` leaves these out.
- A screenshot that is cut while the mask is applied leaves the page masked, form values included, and the next masked
  screenshot forgets the original text: the exception in `PageRestored`.
- A cut inspection leaves handles that nothing refers to until the page goes: the exception in `NothingIsLost`.
- A checkpoint identifier listed twice passes the loader, which compares the sidecar's history with the last entry,
  while the oracle scores by the first: no property claims that the two are the same.
- The loader's test of `seen_hashes` never fires, because a case's name is its identifier and its directory its split.

## Plan

Done: every module of the plan, the proofs of all safety properties, and the refinement of the contract by both
`BrowserSession` and `InspectScan`. What could still be added:

1. Liveness of the scan: that an inspection nobody cuts ends, whatever the page shows. `NoCallGoesBack` counts the
   scan as one await.
2. A third caller in `session`; the proofs already cover any number.

## Not modelled

The contract validation script (`scripts/validate_contracts.py`) passes static files to a schema library and counts;
the demo server answers three fixed paths and keeps nothing; the package files only import. None has a state or an
order of steps to get wrong. Parsing of URLs and JSON, schema validation, hashing and redaction are libraries' or pure
string work and are represented by their outcomes (a record, `Malformed`, the content, nothing). Formatting of
identifiers and messages is left out, except where `GenLimit` stands for the six digits of a generation. Crashes of
the Python process leave nothing to recover and are not modelled. An object whose creation was cancelled or failed is
taken not to exist. What causes an event is not modelled, since the session does not know it either: an event that
comes after the operation that caused it has returned belongs to nobody, or to the next one.
