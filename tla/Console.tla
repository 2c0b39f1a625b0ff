------------------------------- MODULE Console -------------------------------
(***************************************************************************)
(* The operator console (api/app.py): synchronous endpoints that the web   *)
(* framework runs on a pool of threads, over one service with no lock.     *)
(* POST /api/simulate runs the whole closed loop n times                   *)
(* (service.run_simulation); GET /api/queue and POST /api/queue/approve    *)
(* work on the queue.  Every SQL statement and every file write is a step, *)
(* and the steps of concurrent calls interleave.                           *)
(*                                                                         *)
(* A job is one call on one thread: `at` is where it stands, `seen` how    *)
(* long the ledger was when it last read the tier state, `entry` the entry *)
(* it is about to insert under the number `seq` it has taken.  A taken     *)
(* number makes the insert fail, and the exception ends the call.          *)
(*                                                                         *)
(* A simulated run id depends on the type and the index only, so it comes  *)
(* back with every call of the type.  Simulated evaluations are clean and  *)
(* for the first tier's audience; the run traces, which no other call      *)
(* reads, are left out.                                                    *)
(***************************************************************************)
EXTENDS Stores, Simulator

CONSTANTS
  Threads,       \* the pool
  SimIds,        \* SimIds[ct][i + 1]: the id of the simulated run i of ct
  Scenarios,     \* the scenarios a request may ask for
  Sizes,         \* Sizes[scenario]: the runs a request of the scenario asks for
  Noise,         \* the noise a simulated outcome may draw
  Clocks,        \* the times at which calls start
  Earlier,       \* a run recorded long ago, which earned its type tier 1
  MaxCalls,      \* bound: calls served
  MaxRuns        \* bound: runs simulated by all of them

EarlierTs == -30
SpacingHours == 25

ASSUME ConsoleAssumption ==
  /\ Earlier \in Evaluation
  /\ \A ct \in CampaignTypes : SimIds[ct] \in Seq(RunIds)
  /\ \A scenario \in Scenarios : Sizes[scenario] \subseteq 1 .. MaxRuns
  /\ Clocks \subseteq Nat /\ 0 \in Clocks
  /\ MaxCalls \in Nat /\ MaxRuns \in Nat

ASSUME PoolAssumption == IsFiniteSet(Threads) /\ Threads # {}

ASSUME NoiseAssumption == Noise \subseteq [Metric -> Int]

\* The simulator's spam threshold repeats the one of the configuration
\* (simulator.py:24, config/tiers.yaml:34), in units of 1e-8 and of 1e-6.
ASSUME ThresholdAssumption ==
  TriggerMax["spam_complaint_rate"] * 100 <= SPAM_THRESHOLD

VARIABLES
  clock,       \* the wall clock, in hours
  screen,      \* the batch lane the operator is looking at
  job,         \* what each thread is doing
  served,      \* calls begun
  simulated,   \* runs asked for
  failed,      \* calls ended by an exception
  reported     \* the totals of the summaries returned

desk == <<clock, screen, served, simulated, failed, reported>>
cvars == <<ledger, ceiling, items, candidates, job, desk>>

Totals == [sent : Nat, breaches : Nat, demotions : Nat, blind_spots : Nat]
Nothing == [sent |-> 0, breaches |-> 0, demotions |-> 0, blind_spots |-> 0]

Idle == [at |-> "idle"]

ConsoleInit ==
  LET ct     == Earlier.campaign_type
      run    == RunFact(<<>>, Earlier, EarlierTs)
      logged == <<run>>
  IN  /\ ceiling \in Ceilings
      /\ ledger = Append(logged, Promotion(logged, ct, EarlierTs))
      /\ items = [id \in {Earlier.run_id} |->
                    QueueItemFromDecision(Earlier, run.decision,
                      Violations(Earlier, ASSIST, 0), EarlierTs, SendWindow)]
      /\ candidates = {}
      /\ clock = 0
      /\ screen = {}
      /\ job = [t \in Threads |-> Idle]
      /\ served = 0 /\ simulated = 0 /\ failed = 0
      /\ reported = Nothing

-----------------------------------------------------------------------------
(***************************************************************************)
(* Steps of a job.  A step's record says what it needs and, where several  *)
(* ways go on from it, which (`then`).                                     *)
(***************************************************************************)
At(t, place) == job[t].at = place

Becomes(t, next) == job' = [job EXCEPT ![t] = next]

\* A step that only reads.
Goes(t, next) ==
  /\ Becomes(t, next)
  /\ UNCHANGED <<ledger, ceiling, items, candidates, desk>>

\* SELECT MAX(seq).
TakeSeq(t) ==
  /\ At(t, "take")
  /\ Goes(t, [at |-> "insert", seq |-> Len(ledger) + 1,
              entry |-> job[t].entry, then |-> job[t].then])

\* Fault: INSERT OR IGNORE.
InsertFault(t) ==
  /\ At(t, "insert")
  /\ ledger' = IF job[t].seq = Len(ledger) + 1
                 THEN Append(ledger, job[t].entry) ELSE ledger
  /\ Becomes(t, job[t].then)
  /\ UNCHANGED <<ceiling, items, candidates, desk>>

\* INSERT: seq is the primary key, and a number taken by another thread in the
\* meantime ends the call.
Insert(t) ==
  /\ At(t, "insert")
  /\ \/ /\ job[t].seq = Len(ledger) + 1
        /\ ledger' = Append(ledger, job[t].entry)
        /\ Becomes(t, job[t].then)
        /\ UNCHANGED <<ceiling, items, candidates, desk>>
     \/ /\ job[t].seq <= Len(ledger)
        /\ failed' = failed + 1
        /\ Becomes(t, Idle)
        /\ UNCHANGED <<ledger, ceiling, items, candidates, clock, screen,
                       served, simulated, reported>>

\* set_status reads the row and writes it back.
ReadItem(t) ==
  /\ At(t, "mark")
  /\ \E id \in job[t].ids :
       Goes(t, [at |-> "put", id |-> id, item |-> items[id], status |-> job[t].status,
                ids |-> job[t].ids \ {id}, then |-> job[t].then])

WriteItem(t) ==
  /\ At(t, "put")
  /\ Add(job[t].id, [job[t].item EXCEPT !.status = job[t].status])
  /\ Becomes(t, [at |-> "mark", status |-> job[t].status,
                 ids |-> job[t].ids, then |-> job[t].then])
  /\ UNCHANGED <<ledger, ceiling, candidates, desk>>

Marked(t) ==
  /\ At(t, "mark")
  /\ job[t].ids = {}
  /\ Goes(t, job[t].then)

-----------------------------------------------------------------------------
(***************************************************************************)
(* POST /api/simulate.                                                     *)
(***************************************************************************)
RunId(sim) == SimIds[sim.ct][sim.i + 1]
Ts(sim) == sim.began + SpacingHours * sim.i

SyntheticEvaluation(sim) ==
  [campaign_type |-> sim.ct, run_id |-> RunId(sim), segment |-> "engaged_30d",
   discount_pct |-> 0, brand_voice |-> 90,
   verdicts |-> [d \in CRITICAL_DIMENSIONS |-> "pass"]]

\* The hundredths its scores fall short of perfect.
SyntheticWeakness ==
  [d \in CRITICAL_DIMENSIONS \cup {"brand_voice"} |->
     CASE d = "segment_correctness" -> 5
       [] d = "claim_groundedness"  -> 7
       [] d = "brand_voice"         -> 10]

Read(sim) == [at |-> "read", sim |-> sim]

NextRun(sim) ==
  IF sim.i + 1 < sim.n
    THEN Read([sim EXCEPT !.i = @ + 1])
    ELSE [at |-> "return", sim |-> sim]

PostSimulate(t, ct, n, scenario) ==
  /\ At(t, "idle")
  /\ served < MaxCalls
  /\ simulated + n <= MaxRuns
  /\ served' = served + 1
  /\ simulated' = simulated + n
  /\ Becomes(t, Read([ct |-> ct, n |-> n, scenario |-> scenario, began |-> clock,
                      i |-> 0, sums |-> Nothing]))
  /\ UNCHANGED <<ledger, ceiling, items, candidates, clock, screen, failed, reported>>

Seen(t) == SubSeq(ledger, 1, job[t].seen)

\* process_run and process_deliverability first replay the ledger.
ReadState(t) ==
  /\ At(t, "read")
  /\ Goes(t, [at |-> "route", sim |-> job[t].sim, seen |-> Len(ledger)])

\* Then the sends of the last day are counted, on the ledger as it is by now.
Route(t) ==
  LET sim        == job[t].sim
      evaluation == SyntheticEvaluation(sim)
      tier       == EffectiveTier(Seen(t), sim.ct)
      sends      == SendsLast24h(ledger, sim.ct, Ts(sim))
      routed     == Decide(evaluation, tier, sends)
      run        == [RunFact(Seen(t), evaluation, Ts(sim)) EXCEPT
                       !.decision = routed.decision, !.outcome = routed.outcome]
      item       == QueueItemFromDecision(evaluation, routed.decision,
                      Violations(evaluation, tier, sends), Ts(sim), SendWindow)
  IN  /\ At(t, "route")
      /\ Goes(t, [at |-> "take", entry |-> run,
                  then |-> [at |-> IF run.outcome = "quality_pass"
                                     THEN "standing" ELSE "enqueue",
                            sim |-> sim, item |-> item]])

Queueing(t) == [at |-> "enqueue", sim |-> job[t].sim, item |-> job[t].item]

\* _maybe_promote replays again, and then reads the window.
ReadStanding(t) ==
  /\ At(t, "standing")
  /\ IF PromotionOpen(ledger, job[t].sim.ct)
       THEN Goes(t, [at |-> "weigh", sim |-> job[t].sim, item |-> job[t].item,
                     seen |-> Len(ledger)])
       ELSE Goes(t, Queueing(t))

Weigh(t) ==
  LET sim == job[t].sim
  IN  /\ At(t, "weigh")
      /\ IF ClearsGate(ledger, sim.ct, Gate[TierOf(Seen(t), sim.ct)])
           THEN Goes(t, [at |-> "take", entry |-> Promotion(Seen(t), sim.ct, Ts(sim)),
                         then |-> Queueing(t)])
           ELSE Goes(t, Queueing(t))

Enqueue(t) ==
  LET sim  == job[t].sim
      sent == job[t].item.status = "in_flight"
  IN  /\ At(t, "enqueue")
      /\ Add(RunId(sim), job[t].item)
      /\ Becomes(t, IF sent THEN [at |-> "outcome", sim |-> [sim EXCEPT !.sums.sent = @ + 1]]
                            ELSE NextRun(sim))
      /\ UNCHANGED <<ledger, ceiling, candidates, desk>>

Flagging(sim, flag) == IF flag THEN [at |-> "flag", sim |-> sim] ELSE NextRun(sim)

OneIf(condition) == IF condition THEN 1 ELSE 0

\* A sent run gets its outcome at once: simulated, looked up under its id,
\* judged against the thresholds, recorded; and on a breach the tier read now
\* is taken away.
TakeOutcome(t) ==
  LET sim  == job[t].sim
      last == IF sim.n - 1 >= 1 THEN sim.n - 1 ELSE 1
  IN  /\ At(t, "outcome")
      /\ \E z \in Noise :
           LET report   == [campaign_type |-> sim.ct, run_id |-> RunId(sim),
                            rates |-> Simulate("engaged_30d", SyntheticWeakness,
                                               sim.scenario, z, sim.i, last)]
               outcome  == OutcomeFact(ledger, report, Ts(sim))
               demotion == Demotion(ledger, sim.ct, Ts(sim), "demotion_deliverability")
               counted  == [sim EXCEPT
                              !.sums.breaches = @ + OneIf(outcome.breached),
                              !.sums.demotions = @ + OneIf(ReportDemotes(ledger, report)),
                              !.sums.blind_spots = @ + OneIf(outcome.blind_spot)]
           IN  Goes(t, [at |-> "take", entry |-> outcome, then |->
                 IF ReportDemotes(ledger, report)
                   THEN [at |-> "take", entry |-> demotion, then |->
                          [at |-> "downgrade", sim |-> counted,
                           flag |-> outcome.blind_spot]]
                   ELSE Flagging(counted, outcome.blind_spot)])

\* Fault: the downgrade is left out.
DowngradeFault(t) ==
  /\ At(t, "downgrade")
  /\ Goes(t, Flagging(job[t].sim, job[t].flag))

\* Fault: what is in flight is cancelled, a status the queue does not have.
DowngradeCancels(t) ==
  /\ At(t, "downgrade")
  /\ Goes(t, [at |-> "mark", ids |-> InFlight(job[t].sim.ct), status |-> "cancelled",
              then |-> Flagging(job[t].sim, job[t].flag)])

Downgrade(t) ==
  /\ At(t, "downgrade")
  /\ Goes(t, [at |-> "mark", ids |-> InFlight(job[t].sim.ct), status |-> "pending",
              then |-> Flagging(job[t].sim, job[t].flag)])

Flag(t) ==
  /\ At(t, "flag")
  /\ candidates' = candidates \cup {RunId(job[t].sim)}
  /\ Becomes(t, NextRun(job[t].sim))
  /\ UNCHANGED <<ledger, ceiling, items, desk>>

Return(t) ==
  /\ At(t, "return")
  /\ reported' = [total \in DOMAIN reported |->
                    reported[total] + job[t].sim.sums[total]]
  /\ Becomes(t, Idle)
  /\ UNCHANGED <<ledger, ceiling, items, candidates, clock, screen,
                 served, simulated, failed>>

-----------------------------------------------------------------------------
(***************************************************************************)
(* The queue's calls, and time.                                            *)
(***************************************************************************)
Starts(t, next) ==
  /\ At(t, "idle")
  /\ served < MaxCalls
  /\ served' = served + 1
  /\ Becomes(t, next)
  /\ UNCHANGED <<ledger, ceiling, items, candidates, clock, screen,
                 simulated, failed, reported>>

GetQueue(t) ==
  Starts(t, [at |-> "mark", ids |-> NewlyExpired(clock), status |-> "expired",
             then |-> [at |-> "show", ids |-> LaneAt("batch", clock)]])

Show(t) ==
  /\ At(t, "show")
  /\ screen' = job[t].ids
  /\ Becomes(t, Idle)
  /\ UNCHANGED <<ledger, ceiling, items, candidates, clock,
                 served, simulated, failed, reported>>

PostApprove(t) ==
  /\ screen # {}
  /\ Starts(t, [at |-> "mark", ids |-> screen, status |-> "approved", then |-> Idle])

\* Only a call that starts reads the clock, so it need not move before one can.
Tick ==
  /\ served < MaxCalls
  /\ \E t \in Threads : At(t, "idle")
  /\ \E time \in Clocks : time > clock /\ clock' = time
  /\ UNCHANGED <<ledger, ceiling, items, candidates, job, screen,
                 served, simulated, failed, reported>>

JobStep(t) ==
  \/ TakeSeq(t) \/ Insert(t)
  \/ ReadItem(t) \/ WriteItem(t) \/ Marked(t)
  \/ ReadState(t) \/ Route(t) \/ ReadStanding(t) \/ Weigh(t) \/ Enqueue(t)
  \/ TakeOutcome(t) \/ Downgrade(t) \/ Flag(t) \/ Return(t)
  \/ Show(t)

ConsoleNext ==
  \/ \E t \in Threads :
       \/ \E ct \in CampaignTypes, scenario \in Scenarios : \E n \in Sizes[scenario] :
            n <= Len(SimIds[ct]) /\ PostSimulate(t, ct, n, scenario)
       \/ GetQueue(t)
       \/ PostApprove(t)
       \/ JobStep(t)
  \/ Tick

ConsoleSpec == ConsoleInit /\ [][ConsoleNext]_cvars

-----------------------------------------------------------------------------
(***************************************************************************)
(* Properties.                                                             *)
(***************************************************************************)
Quiet == \A t \in Threads : At(t, "idle")

ConsoleTypeOK ==
  /\ TypeOK
  /\ QueueTypeOK
  /\ candidates \subseteq RunIds
  /\ screen \subseteq RunIds
  /\ clock \in Clocks
  /\ reported \in Totals
  /\ served \in 0 .. MaxCalls /\ simulated \in 0 .. MaxRuns /\ failed \in Nat

\* The rate limit under concurrency: the count is read before the send is
\* recorded (controller.py:237), so each further thread may carry one send
\* past the cap, and no more than one.
OvershootBounded ==
  \A ct \in CampaignTypes : \A i \in DOMAIN ledger :
    Cardinality(SendsDuring(ledger, ct, ledger[i].ts))
      <= MaxSendsPer24h + Cardinality(Threads) - 1

\* What a total of the summaries counts on the ledger.
Tallied(e, total) ==
  \/ total = "sent" /\ e.kind = "run" /\ e.decision = "auto_send"
  \/ total = "breaches" /\ e.kind = "outcome" /\ e.breached
  \/ total = "demotions" /\ e.kind = "transition" /\ e.to_tier = ASSIST
  \/ total = "blind_spots" /\ e.kind = "outcome" /\ e.blind_spot

Recorded(log, total) == {i \in DOMAIN log : Tallied(log[i], total)}

BlindIds(log) ==
  {log[i].run_id : i \in {k \in DOMAIN log :
     log[k].kind = "outcome" /\ log[k].blind_spot}}

\* What the calls answered against what the ledger holds, once all are over
\* (service.py:306-313): no call ever announces a send, breach, demotion or
\* blind spot that is not on record, and what is flagged for triage is a blind
\* spot on record.  A call cut off by a taken number (ledger.py:159) announces
\* nothing and leaves at most one blind spot unflagged; unless one was, the
\* totals agree.
ReportedIsRecorded ==
  Quiet =>
    /\ \A total \in DOMAIN reported :
         /\ reported[total] <= Cardinality(Recorded(ledger, total))
         /\ failed = 0 => reported[total] = Cardinality(Recorded(ledger, total))
    /\ candidates \subseteq BlindIds(ledger)
    /\ Cardinality(BlindIds(ledger) \ candidates) <= failed

\* A run sent by one thread while another demotes its type is put in flight
\* after that demotion's downgrade (service.py:163-167): once all is quiet a
\* demoted type keeps at most one item in flight per further thread, whatever
\* calls were cut off by a taken number.
StaleInFlightBounded ==
  Quiet =>
    \A ct \in CampaignTypes :
      StandingOf(ledger, ct) = "probation" =>
        Cardinality(InFlight(ct)) <= Cardinality(Threads) - 1

\* An approval is lost only to a race or to a later run: once no call is left
\* that picked the item before it was approved, to write another status over
\* it, no downgrade and no refresh takes it up any more (store.py:131-152); only
\* a run that comes back under the same id replaces it (store.py:75-89).
Contests(j, id) ==
  /\ j.at \in {"mark", "put"}
  /\ j.status # "approved"
  /\ id \in j.ids \/ (j.at = "put" /\ id = j.id)

Uncontested(id) ==
  /\ id \in ByStatus("approved")
  /\ \A t \in Threads : ~Contests(job[t], id)

RunsAgain(t, id) == At(t, "enqueue") /\ RunId(job[t].sim) = id /\ job'[t] # job[t]

UncontestedApprovalStands ==
  [][\A id \in DOMAIN items :
       Uncontested(id) => Uncontested(id)' \/ \E t \in Threads : RunsAgain(t, id)]_cvars

\* The simulator's blind-spot scenario does what it is for (simulator.py:33,
\* :115): every outcome it records is a breach, for any noise and after the
\* rounding of the ledger.
BlindSpotsBreach ==
  [][\A t \in Threads :
       /\ At(t, "outcome")
       /\ job[t].sim.scenario = "judge_blindspot"
       /\ job'[t].at = "take"
       => job'[t].entry.breached]_cvars

\* What docs/autonomy-model.md:106-108 says of a demoted type: it is on
\* probation, and only the challenge ends that; no promotion does.
PromotedWhileActive ==
  \A ct \in CampaignTypes : \A i \in DOMAIN ledger :
    /\ IsTransition(ledger[i], ct)
    /\ ledger[i].reason = "promotion"
    => StandingAt(ledger, ct, i - 1) = "active"
=============================================================================
