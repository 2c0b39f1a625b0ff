------------------------------- MODULE Harness -------------------------------
(***************************************************************************)
(* The evaluation harness: the golden briefs taken through the             *)
(* orchestrator three times each (faithfully rendered, as production in    *)
(* one pass, as production with revisions and routing), against a client   *)
(* that records every reply under its prompt or replays what was recorded; *)
(* the metrics of a recording, and the gate that compares a replay with    *)
(* them.  Translated from evals/fixtures.py, evals/llm.py, evals/gate.py   *)
(* and evals/golden_loader.py.                                             *)
(*                                                                         *)
(* The live model answers a prompt with anything in Answers(prompt); a     *)
(* call of it may fail, the process may die, also while a fixture is       *)
(* written, and a fixture may be missing by the time it is replayed (a     *)
(* file not committed, a prompt edited).  Rates are in units of 1e-4, as   *)
(* they are rounded.                                                       *)
(***************************************************************************)
EXTENDS Orchestrator, FiniteSets, Functions

CONSTANTS
  Goldens,       \* the cases, in order
  Labels,        \* human verdicts for some of them, by their place
  Answers(_),    \* what the live model may reply to a prompt
  Verbatim,      \* the texts only the faithful prompt asks for
  MaxFaults      \* bound: crashes, failed calls and lost fixtures together

GRADED == {"segment_correctness", "claim_groundedness", "brand_voice"}
JUDGE_TOLERANCE == 500

GoldenCase ==
  [brief : Briefs, tier : Tier, rate_limited : BOOLEAN,
   expected : [GRADED -> {"pass", "fail"}]]

ASSUME HarnessAssumption ==
  /\ Goldens \in Seq(GoldenCase) /\ Goldens # <<>>
  /\ DOMAIN Labels \subseteq DOMAIN Goldens
  /\ \A c \in DOMAIN Labels : Labels[c] \in [GRADED -> {"pass", "fail"}]
  /\ Verbatim \subseteq Copies \ {NoContent.copy}

VARIABLES
  store,       \* the fixture directory: prompt -> reply, or Torn
  sweep,       \* the sweep in progress: its client, case, stage and results
  published,   \* metrics.json and the judge baseline, once recorded
  gate,        \* what the judge gate said of the replay
  faults       \* crashes, failed calls and lost fixtures so far, and misses

hvars == <<run, store, sweep, published, gate, faults>>

Torn == [gives |-> "torn"]

Stages == <<"faithful", "single", "full">>

\* What a stage leaves of a case: the first two their verdicts and whether the
\* composer refused, which any exception is taken for; the full pipeline leaves
\* where it routed the run, and nothing else.
Scored == [refused : BOOLEAN, verdicts : [GRADED -> {"pass", "fail", "missing"}]]
Routed == [decision : Decision]

Refusal == [refused |-> TRUE, verdicts |-> [d \in GRADED |-> "missing"]]

NoSweep == [client |-> "none"]

NewSweep(client) ==
  [client |-> client, case |-> 1, stage |-> 1, now |-> <<>>, runs |-> <<>>]

-----------------------------------------------------------------------------
(***************************************************************************)
(* The metrics, from what each case left in its three stages.              *)
(***************************************************************************)
FlawDims(golden) == {d \in GRADED : golden.expected[d] = "fail"}

\* num / den in units of 1e-4, a tie to the even neighbour (round() of a float:
\* a tie no float holds exactly may go the other way).
Rate(num, den) ==
  IF den = 0 THEN 0
  ELSE LET q == (10000 * num) \div den
           r == (10000 * num) % den
       IN  IF 2 * r > den \/ (2 * r = den /\ q % 2 = 1) THEN q + 1 ELSE q

\* Cohen's kappa of two raters of the same items, as a fraction.
CohenKappa(items, a, b) ==
  LET n == Cardinality(items)
      count(r, v) == Cardinality({i \in items : r[i] = v})
      agreed == Cardinality({i \in items : a[i] = b[i]})
      chance == count(a, "pass") * count(b, "pass") + count(a, "fail") * count(b, "fail")
  IN  CASE n = 0 -> <<0, 1>>
        [] n > 0 /\ chance >= n * n -> IF agreed = n THEN <<1, 1>> ELSE <<0, 1>>
        [] OTHER -> <<agreed * n - chance, n * n - chance>>

ComputeMetrics(runs) ==
  LET cases  == DOMAIN Goldens
      flawed == {c \in cases : FlawDims(Goldens[c]) # {}}
      judged == {c \in cases : ~runs[c][1].refused}
      match(D) == {p \in judged \X D :
                     runs[p[1]][1].verdicts[p[2]] = Goldens[p[1]].expected[p[2]]}
      flaws  == {p \in judged \X GRADED : p[2] \in FlawDims(Goldens[p[1]])}
      escaped == {c \in flawed : runs[c][3].decision = "auto_send"}
      missed == {c \in judged : \E d \in FlawDims(Goldens[c]) :
                                  runs[c][1].verdicts[d] # "fail"}
      corrected == {c \in flawed : runs[c][2].refused
                      \/ \A d \in FlawDims(Goldens[c]) : runs[c][2].verdicts[d] # "fail"}
  IN  [correction |-> Rate(Cardinality(corrected), Cardinality(flawed)),
       recall     |-> Rate(Cardinality({f \in flaws : runs[f[1]][1].verdicts[f[2]] = "fail"}),
                           Cardinality(flaws)),
       accuracy   |-> Rate(Cardinality(match(GRADED)), 3 * Cardinality(judged)),
       by_dimension |->
         [d \in GRADED |-> Rate(Cardinality(match({d})), Cardinality(judged))],
       kappa |->
         [d \in GRADED |->
            CohenKappa(judged \cap DOMAIN Labels,
                       [c \in judged |-> runs[c][1].verdicts[d]],
                       [c \in DOMAIN Labels |-> Labels[c][d]])],
       escape     |-> Rate(Cardinality(escaped), Cardinality(flawed)),
       harmful    |-> Rate(Cardinality(escaped \cap missed), Cardinality(flawed))]

\* The keyless gate routes what a case authored, no model asked.
EvaluationFromCase(golden) ==
  [campaign_type |-> golden.brief.campaign_type,
   segment       |-> golden.brief.requested_segment,
   discount_pct  |-> golden.brief.discount_pct,
   verdicts      |-> [d \in CRITICAL_DIMENSIONS |-> golden.expected[d]],
   brand_voice   |-> IF golden.expected["brand_voice"] = "pass" THEN 90 ELSE 50]

EvaluateRouting(golden) ==
  Decide(EvaluationFromCase(golden), golden.tier, IF golden.rate_limited THEN 3 ELSE 0)

\* Fault: the tolerance is added to the baseline.
RegressedFault(metrics, baseline) ==
  \/ metrics.accuracy < baseline.accuracy + JUDGE_TOLERANCE
  \/ \E d \in GRADED : metrics.by_dimension[d] < baseline.by_dimension[d] + JUDGE_TOLERANCE

\* The gate's two mechanisms: overall, and dimension by dimension.
Regressed(metrics, baseline) ==
  \/ metrics.accuracy < baseline.accuracy - JUDGE_TOLERANCE
  \/ \E d \in GRADED : metrics.by_dimension[d] < baseline.by_dimension[d] - JUDGE_TOLERANCE

\* What the gate prints and exits with; without a baseline nothing regresses.
Verdict(metrics) ==
  [metrics |-> metrics,
   passed  |-> \A baseline \in published : ~Regressed(metrics, baseline)]

-----------------------------------------------------------------------------
HarnessInit ==
  /\ OrchestratorInit
  /\ store = [p \in {} |-> Torn]
  /\ sweep = NoSweep
  /\ published = {}
  /\ gate = {}
  /\ faults = [crashes |-> 0, failures |-> 0, losses |-> 0, missed |-> FALSE]

MoreFaults == faults.crashes + faults.failures + faults.losses < MaxFaults

Sweeping == sweep.client # "none"

\* make fixtures, until a sweep has come to its end and its metrics are written.
Record ==
  /\ ~Sweeping
  /\ published = {} /\ gate = {}
  /\ sweep' = NewSweep("recording")
  /\ UNCHANGED <<run, store, published, gate, faults>>

\* gate --check-judges; once is enough, as nothing it does is stored.
CheckJudges ==
  /\ ~Sweeping
  /\ gate = {}
  /\ sweep' = NewSweep("replay")
  /\ UNCHANGED <<run, store, published, gate, faults>>

BeginStage ==
  LET golden == Goldens[sweep.case]
  IN  /\ Sweeping
      /\ run = NoRun
      /\ Begin(golden.brief, golden.tier,
               IF sweep.stage = 3 THEN MAX_REVISIONS ELSE 0, sweep.stage = 1)
      /\ UNCHANGED <<store, sweep, published, gate, faults>>

\* Both clients look the prompt up first; a torn file does not parse.
Cached ==
  /\ InProgress
  /\ Prompt \in DOMAIN store
  /\ IF store[Prompt] = Torn THEN Raise ELSE Answer(store[Prompt])
  /\ UNCHANGED <<store, sweep, published, gate, faults>>

Missing ==
  /\ InProgress
  /\ sweep.client = "replay"
  /\ Prompt \notin DOMAIN store
  /\ Raise
  /\ faults' = [faults EXCEPT !.missed = TRUE]
  /\ UNCHANGED <<store, sweep, published, gate>>

\* Fault: the recording client does not look for a stored reply.
AsksFault == InProgress /\ sweep.client = "recording"

Asks == InProgress /\ sweep.client = "recording" /\ Prompt \notin DOMAIN store

Stored(prompt, entry) ==
  [p \in DOMAIN store \cup {prompt} |-> IF p = prompt THEN entry ELSE store[p]]

Live ==
  /\ Asks
  /\ \E reply \in Answers(Prompt) \cap Reply :
       /\ store' = Stored(Prompt, reply)
       /\ Answer(reply)
  /\ UNCHANGED <<sweep, published, gate, faults>>

LiveFails ==
  /\ Asks
  /\ MoreFaults
  /\ Raise
  /\ faults' = [faults EXCEPT !.failures = @ + 1]
  /\ UNCHANGED <<store, sweep, published, gate>>

\* The process dies in a call, or while its fixture is written and the file is
\* left cut off; what it held in memory is gone.
Crash ==
  /\ Asks
  /\ MoreFaults
  /\ faults' = [faults EXCEPT !.crashes = @ + 1]
  /\ store' \in {store, Stored(Prompt, Torn)}
  /\ run' = NoRun
  /\ sweep' = NoSweep
  /\ UNCHANGED <<published, gate>>

Lose ==
  /\ ~Sweeping
  /\ gate = {}
  /\ MoreFaults
  /\ \E p \in DOMAIN store : store' = [q \in DOMAIN store \ {p} |-> store[q]]
  /\ faults' = [faults EXCEPT !.losses = @ + 1]
  /\ UNCHANGED <<run, sweep, published, gate>>

\* Fault: a refusal is not flagged.
StageOfFault(golden) ==
  IF sweep.stage = 3
    THEN [decision |-> IF Done THEN Decide(EvaluationOf(run.brief, run.content, run.results),
                                           golden.tier,
                                           IF golden.rate_limited THEN 3 ELSE 0).decision
                       ELSE "human_review"]
    ELSE [refused  |-> FALSE,
          verdicts |-> IF Done THEN [d \in GRADED |-> run.results[d].verdict]
                       ELSE Refusal.verdicts]

\* Fault: the sends of a rate-limit case are not counted.
StageOfUncounted(golden) ==
  IF sweep.stage = 3
    THEN [decision |-> IF Done THEN Decide(EvaluationOf(run.brief, run.content, run.results),
                                           golden.tier, 0).decision
                       ELSE "human_review"]
    ELSE IF Done THEN [refused |-> FALSE, verdicts |-> [d \in GRADED |-> run.results[d].verdict]]
    ELSE Refusal

\* What the stage leaves; a full run that raised has nothing to send, so it is
\* a human's.
StageOf(golden) ==
  LET evaluation == EvaluationOf(run.brief, run.content, run.results)
      sends      == IF golden.rate_limited THEN 3 ELSE 0
  IN  IF sweep.stage = 3
        THEN [decision |-> IF Done THEN Decide(evaluation, golden.tier, sends).decision
                           ELSE "human_review"]
        ELSE IF Done
          THEN [refused |-> FALSE, verdicts |-> [d \in GRADED |-> run.results[d].verdict]]
          ELSE Refusal

EndStage ==
  LET now  == Append(sweep.now, StageOf(Goldens[sweep.case]))
      runs == Append(sweep.runs, now)
  IN  /\ Sweeping
      /\ ~InProgress /\ run # NoRun
      /\ run' = NoRun
      /\ UNCHANGED <<store, faults>>
      /\ \/ /\ sweep.stage < Len(Stages)
            /\ sweep' = [sweep EXCEPT !.stage = @ + 1, !.now = now]
            /\ UNCHANGED <<published, gate>>
         \/ /\ sweep.stage = Len(Stages) /\ sweep.case < Len(Goldens)
            /\ sweep' = [sweep EXCEPT !.stage = 1, !.now = <<>>, !.runs = runs, !.case = @ + 1]
            /\ UNCHANGED <<published, gate>>
         \/ /\ sweep.stage = Len(Stages) /\ sweep.case = Len(Goldens)
            /\ sweep' = NoSweep
            /\ IF sweep.client = "recording"
                 THEN published' = {ComputeMetrics(runs)} /\ gate' = gate
                 ELSE gate' = {Verdict(ComputeMetrics(runs))} /\ published' = published

Work == BeginStage \/ Cached \/ Missing \/ Live \/ EndStage

HarnessNext == Record \/ CheckJudges \/ Work \/ LiveFails \/ Crash \/ Lose

HarnessSpec ==
  /\ HarnessInit
  /\ [][HarnessNext]_hvars
  /\ WF_hvars(Work)

-----------------------------------------------------------------------------
(***************************************************************************)
(* Properties.                                                             *)
(***************************************************************************)
\* A case leaves its scores in two stages and a decision in the third, and of
\* the scores just those are flagged as refused that lack verdicts, so that the
\* metrics leave out what was not judged (fixtures.py:74-131).
HarnessTypeOK ==
  /\ \A p \in DOMAIN store : store[p] \in Reply \cup {Torn}
  /\ Sweeping =>
       /\ sweep.client \in {"recording", "replay"}
       /\ sweep.case \in DOMAIN Goldens /\ Len(sweep.runs) = sweep.case - 1
       /\ sweep.stage \in DOMAIN Stages /\ Len(sweep.now) = sweep.stage - 1
       /\ \A r \in Range(sweep.runs) : DOMAIN r = DOMAIN Stages
       /\ \A r \in {sweep.now} \cup Range(sweep.runs) : \A s \in DOMAIN r :
            IF s = 3 THEN r[s] \in Routed
            ELSE /\ r[s] \in Scored
                 /\ r[s].refused <=> \E d \in GRADED : r[s].verdicts[d] = "missing"

\* The verdicts a run ends with are what the judges said of the draft it ends
\* with, and of no draft before it, Stage 1 folded in (orchestrator.py:131-145).
VerdictsAreOfTheDraft ==
  Done =>
    LET entry(d) == JudgePrompt(d, run.brief, run.content)
    IN  /\ \A d \in Dimension : entry(d) \in DOMAIN store
        /\ run.results = Gated([d \in Dimension |-> store[entry(d)].result],
                               Findings(run.content, run.tier))

\* A text that only the faithful prompt asks for never comes out of a
\* production run, over one shared cache (orchestrator.py:76-79, ADR 0011).
ProductionNeverFaithful ==
  run # NoRun /\ ~run.faithful => run.content.copy \notin Verbatim

\* The full pipeline departs from the single pass by revising and by nothing
\* else: unrevised it ends on the same verdicts, or neither metric would say
\* anything of the other (fixtures.py:107-121, 163-180).
OnePassAgrees ==
  Sweeping /\ sweep.stage = 3 /\ Done /\ run.revisions = 0 /\ ~sweep.now[2].refused =>
    sweep.now[2].verdicts = [d \in GRADED |-> run.results[d].verdict]

\* The two harnesses route alike: a full run that ends as its case authored is
\* decided as the keyless gate decides the case, the sends of a rate-limit case
\* included, which each of them works out for itself (fixtures.py:92, gate.py:106).
RoutedAsAuthored ==
  Sweeping /\ sweep.stage = 3 /\ Done =>
    LET golden   == Goldens[sweep.case]
        live     == EvaluationOf(run.brief, run.content, run.results)
        authored == EvaluationFromCase(golden)
    IN  (/\ live.verdicts = authored.verdicts
         /\ Passed(live) <=> Passed(authored)
         /\ live.segment = authored.segment
         /\ live.discount_pct = authored.discount_pct)
        => StageOf(golden).decision = EvaluateRouting(golden).decision

Undisturbed == faults.failures = 0 /\ faults.losses = 0

\* What was recorded is what replays, a file cut off by a crash included, as
\* long as no live call failed and no fixture went missing (fixtures.py:15-18).
ReplayReproduces ==
  Undisturbed => \A g \in gate, m \in published : g.metrics = m

\* The gate does not cry wolf (gate.py:258-281).
GatePassesUndisturbed == Undisturbed => \A g \in gate : g.passed

\* Every sweep comes to its end or dies: the loop of revisions stops although
\* a failing draft keeps getting the same replies (orchestrator.py:131-145).
SweepEnds == Sweeping ~> ~Sweeping

\* What llm.py:5-6 says: a cache miss is an error.  The code takes that error for
\* a refusal, and the gate goes on to pass (fixtures.py:99,108,121).
MissingFixtureFailsGate ==
  published # {} /\ faults.missed => \A g \in gate : ~g.passed
=============================================================================
