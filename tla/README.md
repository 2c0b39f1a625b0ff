# Autonomy ladder: models, checks and proofs

The program lets an email agent send marketing campaigns without a human, but
only as far as it has earned it. Each campaign type climbs a ladder of three
tiers (assist, bounded, supervised) on statistical evidence, loses everything on
one critical failure or deliverability breach, and comes back through a
probation challenge. All of it is recorded in an append-only ledger from which
the state is derived by replay. This directory holds TLA+ models of that
program, the TLC runs that check them and the TLAPS proofs about them.

Paths below are relative to the repository; `src/autonomy_ladder` is abbreviated
`al`.

## 1. The system

| Component | State it keeps | Operations | Talks to |
|---|---|---|---|
| Vocabulary and records (`al/domain.py`, `al/records.py`, `al/autonomy/tiers.py`) | none | `passed`, `critical_failures`, `can_autosend` | everyone |
| Configuration (`al/config.py`, `config/*.yaml`) | gates, limits, triggers, the brand's ceiling; read at process start | load | controller, service |
| Routing and constraints (`al/autonomy/routing.py`, `constraints.py`) | none | `decide`, the constraint checks, `check_deliverability` | controller, evals |
| Wilson bound and probation bar (`al/autonomy/wilson.py`, `probation.py`) | none | `wilson_lower_bound`, `evaluate_probation_challenge` | controller |
| Ledger (`al/autonomy/ledger.py`) | the entries, in a SQLite file | three appends, queries, `reconstruct` | controller, service |
| Controller (`al/autonomy/controller.py`) | none but the ledger | `process_run`, `process_deliverability`, `run_probation_challenge`, `promotion_status` | routing, Wilson, ledger |
| Review queue (`al/queue/`) | items by run id, in a SQLite file | `add`, `approve`, `approve_batch`, `downgrade_inflight`, `lanes` | service, API |
| Service (`al/service.py`) | run traces (SQLite), `evals/candidates/` | `record_run`, `process_outcome`, `run_simulation`, summaries | controller, queue |
| Console (`al/api/app.py`, `web/app.js`) | the ids on the operator's screen | refresh, approve-all, simulate | service |
| Outcome simulator (`al/outcomes/`) | none | `simulate` | service |
| Agents (`al/agents/`, `al/evals/deterministic.py`, `judges.py`) | the draft being revised and its verdicts | resolve, compose, check, judge, revise | LLM client, routing's checks |
| Evaluation harness (`al/evals/`) | fixture files, metrics, baseline | record, replay, compute metrics, gate | orchestrator, routing |
| Security log, observability, data, demo, CLI | logs and files | append, read | service |

What is hard here, and what each component must get right:

* **A long history of legal calls** (controller, ledger). Tier, standing and
  cooldown exist only as a replay. The transitions of a type must form one chain,
  and an old breach, a second breach report, a challenge out of season or a
  constraint block must not bend it.
* **Order of timestamps** (rate limit). Callers supply `now`; the simulator's is
  in the future.
* **Partial failure** (service). One call writes to up to four stores without a
  transaction, and `downgrade_inflight` commits item by item. A crash may fall
  between any two commits; nothing resumes the call.
* **Stale views** (console, brand ceiling). The operator approves what a refresh
  showed earlier; the ceiling may be lower than the tier that was earned.
* **Concurrency** (API thread pool). The endpoints are synchronous functions, so
  the framework runs them on several threads over one service with no lock, while
  `ledger.py:153` assumes a single writer. Two calls may take the same sequence
  number, count the same sends, or write over each other's queue items.
* **A loop around a model** (orchestrator). Whatever the models reply, the loop
  must stop, hand over the verdicts of its last draft, and never let a judge
  overrule a rule.
* **One cache for two purposes** (harness). Production and the deliberately
  faithful rendering share one fixture directory, which a crash may leave cut off
  and an edit may leave incomplete; the numbers a replay prints must be those that
  were recorded.

`PROJECT.json` lists the hazards line by line with the properties that would
notice them going wrong.

## 2. The modules

| Module | Models | State |
|---|---|---|
| `Domain` | the vocabulary, `passed`, `check_deliverability` | none |
| `Wilson` | the two comparisons made with the Wilson bound, in exact integers | none |
| `Routing` | `routing.decide` and the constraint checks | none |
| `Ledger` | entries, replay, the queries over the log | none (operators on a sequence) |
| `Controller` | every call of the controller as one action; restarts | `ledger`, `ceiling` |
| `AutonomyLadder` | the abstract promise: what may happen to a type's tier, standing and cooldown | `tier`, `standing`, `cooldown` |
| `ReviewQueue` | items, statuses, lanes, expiry; one commit per operator | `items` |
| `Stores` | the ledger, the queue and the flagged candidates side by side | the above plus `candidates` |
| `Service` | the service's calls taken apart into commits, one call at a time, crashes, the operator | `Stores` plus `traces`, `screen`, `clock`, `call`, `crashes` |
| `Simulator` | the rates a sent campaign is given, as a pure function of audience, scores, scenario and noise | none |
| `Console` | several calls at a time on a pool of threads: `run_simulation` from end to end, refresh, approve-all | `Stores` plus `job`, `clock`, `screen` and the totals of the calls |
| `Orchestrator` | one brief taken through the agents: every model call, Stage 1, the revision loop | `run` |
| `Harness` | the golden sweep, recorded or replayed over the fixture directory; the metrics and the two gates; crashes, failed calls, lost fixtures | `run`, `store`, `sweep`, `published`, `gate`, `faults` |
| `MCController`, `MCService`, `MCConsole`, `MCHarness` | the instances TLC checks | |
| `ControllerProofs`, `RateLimitProofs`, `LadderProofs`, `ServiceProofs`, `StoresProofs`, `ConsoleProofs`, `OrchestratorProofs`, `HarnessProofs` | the theorems | |

`Controller` EXTENDS `Ledger` and `Wilson`, `Ledger` EXTENDS `Routing`,
`Routing` EXTENDS `Domain`. `Stores` composes `Controller` and `ReviewQueue`;
`Service` (crashes, one call at a time) and `Console` (interleaving, with the
`Simulator`) are two machines over it. `Orchestrator` EXTENDS `Routing`, whose
constraint checks Stage 1 repeats, and `Harness` runs the orchestrator. Of the
proof modules `RateLimitProofs`, `LadderProofs` and `ServiceProofs` extend
`ControllerProofs`, `StoresProofs` extends `LadderProofs` and `ServiceProofs`, and
`HarnessProofs` extends `OrchestratorProofs`.

How state corresponds to code:

* `ledger` is the table of `ledger.py`: an entry's index is its `seq`. Evidence
  texts, rationale and metrics are left out; the fields the code decides on are
  kept. `ceiling` is `BrandPolicy.max_allowed_tier` of the running process.
* The code folds a type's entries into a `TierState`. `TierAt`, `StandingAt` and
  `CooldownAt` give the same state in closed form (the last transition, and the
  runs since), which is what the proofs use; `Reconstruct` is the fold itself, and
  `ReplayIsFold` says that the two agree.
* A controller call is one action that appends one or two entries
  (`ProcessRun`, `ProcessDeliverability`, `RunProbationChallenge`). The code's
  check order (demote before promote, promote only on a success) is in the
  guards of the disjuncts. A challenge outside probation raises before it writes,
  so the action is disabled.
* Floats become integers: scores in hundredths, rates in whatever unit makes the thresholds whole,
  the Wilson bound by clearing denominators (the derivation is in `Wilson.tla`).
* In `Service` a call first plans its commits in the variable `call`, in the
  order the code makes them; each commit is then a step (`AppendEntry`,
  `Enqueue`, `MarkOne`, `StoreTrace`, `FlagCandidate`). `DowngradeInflight` is
  the SELECT of `downgrade_inflight`, the `MarkOne` steps its item-by-item
  writes. `Crash` drops what is left of the call and may change the ceiling; the
  stores are files and the page in the browser stays. With one call at a time, a
  value planned at the start of a call is the value the code would read later.
* Run ids are fresh in `Service`, as the orchestrator's uuids are; in
  `Controller` a run id may repeat, and in `Console` those of simulated runs do. Only a sent run has an outcome report in
  `Service`; `Controller` accepts any report.

* In `Console` every SQL statement of a call is a step of its thread. `job[t].at`
  is the place in the code; what the code holds in local variables is in the
  job's record: how much of the ledger it had `seen` when it last replayed it, the
  number `seq` it took from `SELECT MAX(seq)`, the entry it is about to insert,
  and `then`, where it goes on. `seq` is the primary key, so `Insert` fails when
  another thread took the number; the exception ends the call wherever it was,
  and `failed` counts it. Reads of tier and of sends are separate steps
  (`ReadState`, `Route`), as they are separate queries. The ids of simulated runs
  depend on the type and the index only (`service.py:282`) and come back.
* In `Simulator` rates are integers in units of 1e-8 and 1e-6 after rounding;
  every constant of the source is a whole number of them. The Gaussian draws are an
  argument.
* In `Orchestrator` a step is one model call. Its prompt is the record of what the
  prompt text is built from, so that two prompts are equal exactly when the code
  would hash them to one fixture; its reply is what the parser makes of the text.
  A text is opaque and `DefectsOf` says which rules it breaks.
* In `Harness` the fixture directory is a function from prompts to replies, `Torn`
  where a write was cut off. `Live` is one call of `RecordingClient.complete`,
  which looks up, asks and writes; `Crash` may fall into the write. `EndStage`
  covers the `try` blocks of `run_case`: anything but a finished run is a refusal in
  the two scored stages and is routed to review in the full one.

Each module's operators named `...Fault` (and `DowngradeInflightCancels`, `DowngradeCancels`, `ConcludedOver`,
`StageOfUncounted`) are
plausible bugs. No specification uses them: each shows, put in the place of the
operator next to it, that a property really depends on that code.

## 3. The properties

| Property | Kind | What it says |
|---|---|---|
| `SendsWhileTrusted` | invariant | complete mediation: each autonomous send was decided while its type was active, at no more than the replayed tier, to a band of that tier |
| `TransitionChain` | invariant | a type's transitions form one lawful chain |
| `NoSendAfterBreach` | invariant | after a breach on record, nothing is sent before a later transition raises the type |
| `CooldownServed` | invariant | no promotion out of a restoration before the cooldown runs are on record |
| `RateLimit` | invariant | no closed 24-hour interval of a type holds more sends than the cap, in whatever order the stamps came |
| `ReplayIsFold` | invariant | closed form and fold agree: the models' `TierAt`, `StandingAt` and `CooldownAt` are what the code replays |
| `ImplementsLadder` | refinement | the controller implements `AutonomyLadder`; so does the service, crashes included |
| `GateMetPromotes` | action | if the dashboard shows the gate as met, the next success promotes |
| `ConstraintBlocksNeutral` | action | a constraint block moves no tier and no evidence |
| `TypesIndependent` | action | a call for one type leaves what another type's next run would get |
| `InFlightIsRecorded` | invariant | whatever is in flight is a send on the ledger, in spite of crashes (`Service`) and of other threads (`Console`) |
| `NothingInFlightUntrusted` | invariant | between calls, without crashes, a type without trust has nothing in flight (of a downgrade cut off partway it says nothing) |
| `StoresAgree` | invariant | between calls, without crashes and as long as run ids are fresh, ledger, queue, traces and candidates agree |
| `DowngradesMakeUp` | action | a demoting call that is not cut off leaves nothing of its type in flight, what an earlier downgrade cut off partway left there included |
| `BulkApprovalsAreRoutine` | action | approve-all approves only what `routing.py` puts in the batch lane |
| `DemotionReachesInFlight` | liveness | a run sent before a demotion does not stay in flight, unless a crash comes |
| `OvershootBounded` | invariant | with n threads a day holds at most n - 1 sends more than the cap |
| `ReportedIsRecorded` | invariant | no summary announces what is not on the ledger and only blind spots on it are flagged; a call cut off leaves at most one unflagged, and unless one was the totals are equal |
| `StaleInFlightBounded` | invariant | once all is quiet a demoted type keeps at most n - 1 items in flight, whatever calls were cut off |
| `UncontestedApprovalStands` | action | a downgrade or refresh that comes upon an item already approved leaves it alone: only a call that held the item before, or a run that comes back under its id, overwrites an approval |
| `BlindSpotsBreach` | action | the blind-spot scenario always records a breach |
| `BlockingNeverSent` | invariant | a draft with a defect Stage 1 finds is never cleared for an autonomous send |
| `VerdictsAreOfTheDraft` | invariant | the verdicts handed over are those of the last draft, not of one it replaced |
| `ProductionNeverFaithful` | invariant | a text only the faithful prompt asks for never comes out of production |
| `OnePassAgrees` | invariant | the full pipeline differs from the single pass by revising only |
| `RoutedAsAuthored` | invariant | the live sweep and the keyless gate route the same case alike, rate-limit cases included |
| `ReplayReproduces` | invariant | the replay's metrics are the recorded ones, crashes included, if no live call failed and no fixture is lost |
| `GatePassesUndisturbed` | invariant | under the same condition the judge gate passes |
| `SweepEnds` | liveness | every sweep ends or dies |

`TypeOK`, `ServiceTypeOK`, `ConsoleTypeOK`, `OrchestratorTypeOK` and
`HarnessTypeOK` are the type invariants; the last two also say that a finished run
is fully scored and within its budget, and that of the two scored stages of a case
just those without verdicts are flagged as refused (the full pipeline keeps no
flag and no verdicts, only where it routed the run).

An approval is not final in this code. A refresh or a downgrade that selected the
item before it was approved writes its own status over the approval
(`store.py:131-152`), and a simulated run that comes back under the same id
replaces the row (`service.py:282`, `store.py:75-89`). `UncontestedApprovalStands`
says that nothing else does, and that once no such call is left none turns up.

## 4. The runs

| Run | Instance | Result |
|---|---|---|
| `ladder` | one type; clean runs to two bands, a forbidden band, an off-brand run, an ungrounded claim; reports at and above the thresholds; passed and failed challenges; ceilings 1 and 2; calls start on up to 6 entries | holds |
| `rate_limit` | two types, clean runs at four timestamps in any order, a day of one unit, cap 2 | holds |
| `service` | three runs of one type (clean, over-discount, ungrounded), outcomes, challenges, refresh, approve-all; window 1, clock to 1, calls start on up to 7 entries, one crash at any commit | holds |
| `downgrade` | as `service` with the clock still and fewer entries, two ceilings; refinement of `AutonomyLadder` and liveness | holds |
| `console` | two threads, up to four calls simulating up to three runs of one type, two of its ids repeating, an earlier run still waiting in the queue; degrading requests for one or two and blind spots for two, each with either of two noise draws; refresh and approve-all before and after the windows close | holds |
| `harness` | two goldens (one clean and rate-limited, one with a flawed claim), every choice of replies the instance allows, recording and replay, up to two faults | holds |
| `ceiling` | ceiling 0 or 1 across a restart | `NeverRaisedPastCeiling` fails |
| `crash_breach` | as `service` | `NoSendAfterBreach` fails |
| `reoffer` | no crashes | `SentIsNotReoffered` fails |
| `late_approval` | no crashes | `ApprovedInTime` fails |
| `console_undone` | two threads, two calls | `PromotedWhileActive` fails |
| `harness_miss` | one lost fixture | `MissingFixtureFailsGate` fails |

Bounds. `MaxEntries` stops new calls; seven entries are enough for promotion,
promotion or send, breach and demotion, challenge, cooldown and the next
promotion. The gates are scaled down (window 3, one or two runs, 20 percent)
so that they are cleared and failed within that length; the Wilson comparison is
the real one and separates 2/3 from 1/2. The cooldown is 2 (1 in `service`), so
that the run before the last and the last differ. `Day = 1` with four
timestamps gives overlapping, adjacent and disjoint intervals. In `service`
three runs are the fewest that promote, send and demote, and leave two items in
flight for a downgrade to be cut off halfway. A breach whose downgrade is cut off,
a passed challenge and a second demotion, which is what `DowngradesMakeUp` is
about, make eight entries; the last call may start on the seventh.
`MaxClock = SendWindow = 1`
reaches both sides of the deadline. `MaxCrashes = 1`: a second crash meets only
states a first one leaves.

In `console` the cap is 1 and there are two threads, so one send beyond the cap is
the whole overshoot; three runs are enough for two threads to race on one
sequence number, for a batch of two to start clean and end in a breach, and for an
id to come back. Four calls are a race of two, a refresh and an approval. The type starts on tier 1 (an earlier run and its promotion are
on the ledger), else half the depth would go into earning it. The clock stands at
0 or 49, inside and outside every first window; it moves only while a thread is
idle and calls are left, since a call reads it when it starts and never again. In
`harness` the flawed golden may be refused, grounded, or come out with a prohibited term that two revisions
repair or not, which takes the loop to its budget of 2, the real one. Two faults
let a crash leave a torn file and a second one hit the recording that meets it.
The assumption `BoundaryCounts` of `MCController` is evaluated before each run of
the ladder: the boundaries of the shipped gates (48 of 50, 22 of 22, 98 of 100)
in exact integers.

Fairness. The safety runs assume none. `DemotionReachesInFlight` assumes weak
fairness of `Step`: a call is straight-line code without waits, so it goes on
until it returns or the process dies. `SweepEnds` assumes weak fairness of `Work`
for the same reason: `run_all` is a loop without waits, and a model call returns
or raises. No fairness is assumed of the operator,
the clock, the callers or of a restart.

## 5. Disagreements between the code and what the repository says of it

* `ceiling`: `run_probation_challenge` restores tier 1 without looking at the
  ceiling (`controller.py:480`), `config/brand_policy.yaml:13` says the agent may
  never climb past it. The effective tier still caps every send.
* `crash_breach`: a breach and its demotion are two commits
  (`controller.py:417`); a crash between them leaves the type at its tier.
  `docs/autonomy-model.md:103`: "drops immediately to Tier 0".
* `reoffer`: no code marks an item as sent, so the demotion a breach causes makes
  the breaching campaign itself, already delivered, pending again.
  `docs/autonomy-model.md:104-105` and `store.py:134` say of what a demotion
  downgrades: "never cancelled", "never sent". The disagreement is with the words:
  `tests/test_outcomes.py:81` asserts the pending status the code gives, with the
  comment "downgraded, not sent".
* `late_approval`: `approve` looks at neither status nor window
  (`store.py:121`); expiry is only noticed by a refresh. `queue/models.py:32`: an
  item expires when "its send window elapsed before anyone acted".
* `console_undone`: a call that has found its type active and its gate cleared
  appends its promotion although another call has demoted the type meanwhile, so
  the probation ends without a challenge. `ledger.py:153-154`: "does not write
  concurrently".
* `harness_miss`: the three `except Exception` of `run_case` (`fixtures.py:99`)
  take a missing fixture for a refusal, and the gate passes. `llm.py:5-6`: "a cache
  miss is an error"; the handler meant for it, `gate.py:253-255`, is never reached.

Two statements differ from the code without a run. `deterministic.py:4-5` says
that Stage 1 runs first "so obvious failures never spend a judge call", but
`Orchestrator._evaluate` calls all four judges whatever it finds; the model has
them called. `wilson.py:7` says that 47/50 clears the gate; it does not
(`BoundaryCounts`), as `docs/open-questions.md:16-22` has noted.

## 6. What is proved

Every invariant and action property of the passing runs is also a theorem, and so
is the refinement; only the two liveness properties are left to TLC. The theorems
hold for every value of the constants the `ASSUME`s allow: any campaign types,
gates, caps, day length, cooldown, inputs and timestamps, any number of threads,
calls, goldens, replies and crashes, ledgers of any length up to any `MaxEntries`.
Where an `ASSUME` says more than the type of a constant, it is this:

* `Console`: the pool has at least one thread and finitely many
  (`PoolAssumption`); the noise is an integer for each metric (`NoiseAssumption`);
  the simulator's spam threshold, which repeats the configured one, is not below
  it (`ThresholdAssumption`; `simulator.py:24`, `config/tiers.yaml:34`).
* `Harness`: there is at least one golden, only goldens are labelled, and the empty
  text a run starts from is not one of the `Verbatim` texts.

One theorem has a hypothesis of its own. `ProductionKeepsItsTexts` assumes
`VerbatimIsAskedFor`: asked for a production text, the composer does not write one
of the `Verbatim` texts. This is what the constant stands for, and the instance of
the run satisfies it.

* **`ControllerProofs`**. The inductive invariant is `IInv`: the ledger is
  `Sound` and the ceiling is a tier. `Sound` has four parts. `Grounded` says that
  every prefix has a largest transition index, without which the `CHOOSE` in
  `LastTransition` says nothing. `TrustInStanding` says that a type that is not
  active is at `ASSIST`; neither mediation nor the chain is inductive without it,
  since a demotion only looks at the tier. The other two are the properties
  themselves. `SoundAppend` shows that an entry that `MayFollow` the ledger keeps
  it sound, since earlier prefixes replay as before (`PrefixState`), and one
  lemma per kind of entry shows that each call appends only such entries. Theorems
  `TypeCorrect`, `CompleteMediation`, `ChainUnbroken`.
* **`RateLimitProofs`**. `RateLimitHolds`: the send that would complete an
  overfull interval was counted against all the others in the interval, because
  `SendsSince` has no upper end. That is why late stamps do no harm.
* **`LadderProofs`**. `BreachStopsSends` needs to know that a breach is followed
  by a demotion at once or found nothing to take (`Handled`).
  `CooldownIsServed` follows from the cooldown's closed form along the chain.
  `LadderImplemented` maps the controller onto `AutonomyLadder`: each call is at
  most one step of it, and a run that serves the last cooldown unit and promotes
  is one `Promote`.
  `AnnouncedGatePromotes` rests on two facts. One is arithmetic: a further success
  lowers the Wilson bound neither when it makes the window longer nor when it
  takes the place of an older run (`SuccessHelps`, over the cleared denominators).
  The other is about the window: one more run of evidence adds its own index and
  drops at most the oldest (`WindowMoves`). `BlocksAreNeutral` and
  `TypesDoNotTouch` say that a query gives the same after an entry it does not
  read.
  `ReplaysAgree` is about the fold. `StepOfReplay` shows that the closed form
  satisfies its recursion, and `ReplayIsUnique` that nothing else does: of the
  prefixes where two solutions differ there would be a shortest, and the recursion
  leads below it. The induction is taken from `WFMin` over sets of naturals, which
  needs no operator parameter.
* **`ServiceProofs`**, which is about crashes. A call is cut into commits, so the
  invariant has to speak of the commits still to come. `SInv` adds to the type
  invariant and to `Sound(ledger)` that the plan of the call in progress is
  `Lawful` (its entries come first, are at most two, and each may follow the
  ledger as it will be at its turn) and `Announced` (an item it will put in
  flight is a send the ledger has, or gets with the first commit).
  `RunPlan` and `OutcomePlan` show it of what the calls plan, `AppendDone`,
  `OtherDone` and `HeadReplaced` of what a commit leaves; a crash leaves the
  empty plan. Theorems `ServiceTypeCorrect`, `MediationDespiteCrashes`,
  `ChainDespiteCrashes`, `QueueBehindLedger`.
* **`StoresProofs`**, about what the stores promise of one another. Where
  `ServiceProofs` follows the order of the commits, here the invariant
  (`StoresInv`) speaks of what is stored *or still planned*, which a commit does not
  change. Its parts: what the queue, the traces and the screen name is a run
  (`Recorded`); item and trace tell the same of it (`Told`), the trace and the entry
  too (`Decided`); what is offered for approval is in the batch lane (`Screened`);
  no run enters the queue approved (`Unapproved`). As long as nothing was cut off, each entry has or will get its item, trace and flag (`Owed`), and what a type
  has in flight is either safe to the end of the plan or about to be dropped
  (`Guarded`). Between calls nothing is planned, which gives `StoresAlwaysAgree`
  and `DemotionEmptiesFlight`; `ApproveAllIsRoutine` is read off the step.
  `DowngradesMakeUpForCrashes` has an invariant of its own, `Aimed`, which does not
  depend on earlier calls and so survives a crash: the downgrade still planned is of
  the type of the call's last entry, and once it has selected, whatever that type
  has in flight is among the ids left to mark. `ServiceImplementsLadder` shows that each append alone is a step
  of `AutonomyLadder` or none, so a crash cuts the ladder between two of its steps.
  It needs one more fact about plans, `Paced`: a planned promotion finds no cooldown
  left, and only a restoration sets one.
* **`ConsoleProofs`**, which is about interleaving, for any number of threads.
  `CInv` says of each job on its own what it carries (`JobOK`): an item on its way
  to the queue in flight is announced by a send that is on the ledger or is the
  entry the job is about to insert (`FollowsInsert`); a row it is about to write
  back is never put in flight; what it has seen of the ledger is still a prefix of
  it. Other threads cannot disturb this since the ledger only grows (`JobGrows`)
  and no row is deleted (`JobKeepsRows`). `JobsMove` puts it together once, and one
  lemma per action shows what the job that moves carries on. Theorems
  `ConsoleTypeCorrect`, `QueueBehindLedgerConcurrently`.
  The other theorems count. `OvershootIsBounded`: the sends of a day on record and
  the threads that carry one for that day are together at most the cap and the
  other threads (`CapShared`), since the last thread to count saw room for its
  own. `StaleInFlightIsBounded`: while a type is on probation, what is in flight
  and nobody is about to take back and the threads that may still put something
  there are fewer than the threads (`Waning`): the thread that demoted takes back
  all it sees, and whoever reads the state later reads a tier that sends nothing.
  `ReportsAreRecorded`: of each total, what was reported and what every thread has
  recorded but not reported make up what is on record, or fall short of it once a
  call was cut off (`Balanced`). The sum over the threads is written as the size of
  a set, a heap with `n` pairs for a thread that owes `n`. For the flags, the blind
  spots on record are those flagged, those a thread is still to flag, and at most
  one for each call cut off (`Triage`). `UncontestedApprovalsStand` needs no
  counting: the calls that write a status pick their rows first and never an
  approved one, so one lemma per action shows that no job comes to contest an
  approval. `BlindSpotsAlwaysBreach` is the arithmetic of the simulator: the
  forced rate stays above the threshold after the rounding.
* **`OrchestratorProofs`**, for any model: the replies are any element of `Reply`
  and any call may raise. The invariant adds to the type of `run` what holds at
  each place of the loop: which judges have answered, and that a finished run's
  results are gated by the findings of its draft. Theorems
  `OrchestratorTypeCorrect`, `NoJudgeOverridesStage1`.
* **`HarnessProofs`**, for any goldens and models, crashes, failed calls and lost
  fixtures. `HInv` says what the run in progress has to do with the sweep and the
  store; it carries the orchestrator's invariant over, although here a run may be
  cut short at any call and its replies come out of the store
  (`HarnessRunsAreSound`), and that each stage a sweep holds left what that stage
  may leave (`Placed`, for `HarnessTypeCorrect`). `RoutingsAgree` follows from the
  routing alone, since a decision depends on the verdicts only through `passed`.
  `VerdictsFollowTheDraft` adds that each verdict held is the stored reply to the
  prompt of the present draft (`Backed`), `ProductionKeepsItsTexts` that no
  production prompt has a verbatim text stored under it (`PureStore`).
  `UnrevisedIsSinglePass` and `RecordingReplays` compare two runs that are far
  apart in time. What the earlier run did is kept in the store: a set of run
  records that holds the one the stage starts with, and with each record in
  progress the one its stored reply makes of it (`Follows`). A recorded stage leaves
  such a set behind (`Settled`), later steps keep it because no stored reply changes
  during a sweep, and a run that only reads the store never steps out of it, so it
  ends where the recorded one ended. No
  induction over the length of a run is needed. `GatePassesAReplay` is then the
  comparison of a set of metrics with itself.

Only model-checked are the liveness properties `DemotionReachesInFlight` and
`SweepEnds`, which this prover does not do. The runs of section 5 are
counterexamples and have no theorem. What a theorem does not say either: that the
scaled-down gates of the instances behave as the shipped ones (`BoundaryCounts`
evaluates the shipped ones).

## 7. Not modelled

* The risk score, escalation and the order within a lane (`queue/risk_score.py`,
  `queue/sla.py`): pure functions for display, no decision depends on them.
* The read-only endpoints and pages, and single approvals, which are approve-all of
  one id.
* `evals/resolver.py` (sibling checks of the goldens), the label summary, printing.
* Texts: the wording of prompts and feedback, the regular expressions of Stage 1
  and of the security log, rationales. They are opaque values here.
* `data/` (a seeded generator of synthetic data and file readers), `observability/`
  (token counts and spans), `security.py` (an append-only log nothing reads back),
  `demo.py` and `cli.py` (scripts over calls that are modelled).

What is left to do: crashes and concurrent calls in one model, with the bounds of
the console taken through a restart; the queue's view order against ADR 0006.
