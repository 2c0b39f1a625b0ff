----------------------------- MODULE Controller -----------------------------
(***************************************************************************)
(* The autonomy controller (autonomy/controller.py): the only code that    *)
(* decides whether a campaign is sent without a human, and the only code   *)
(* that moves a campaign type between tiers.                               *)
(*                                                                         *)
(* The controller keeps nothing but the ledger: each call replays it,      *)
(* decides, and appends one or two entries.  Here a call is one action;    *)
(* Service.tla takes the calls apart into their commits.  The brand's      *)
(* ceiling is read from a file when the process starts, so it is constant  *)
(* between restarts and arbitrary across them; the ledger is a file and    *)
(* survives.                                                               *)
(*                                                                         *)
(* Timestamps are supplied by the caller (the API's clock, the simulator's *)
(* future-dated one), so nothing orders them: `now` is any element of      *)
(* Times at every call.                                                    *)
(***************************************************************************)
EXTENDS Ledger, Wilson

CONSTANTS
  Evaluations,    \* the evaluations that may reach process_run
  Reports,        \* the reports that may reach process_deliverability
  Challenges,     \* the challenge scores <<successes, n>> that may be recorded
  Times,          \* the timestamps a caller may supply
  Day,            \* 24 hours in the unit of Times
  Ceilings,       \* the values max_allowed_tier may have at a start
  Gate,           \* config: Gate[t] guards the promotion from t to t + 1
  CooldownRuns,   \* config: runs to serve after a restoration
  MaxEntries      \* bound: no call starts on a ledger this long

GateConfig == [window : Nat \ {0}, min_runs : Nat \ {0}, percent : 1 .. 100]

ASSUME ConfigAssumption ==
  /\ Gate \in [ASSIST .. BOUNDED -> GateConfig]
  /\ CooldownRuns \in Nat
  /\ Day \in Nat
  /\ Ceilings \subseteq Tier
  /\ Ceilings # {}

ASSUME InputAssumption ==
  /\ Evaluations \subseteq Evaluation
  /\ Reports \subseteq Report
  /\ Challenges \subseteq Nat \X Nat
  /\ \A score \in Challenges : score[1] <= score[2]
  /\ Times \subseteq Int
  /\ MaxEntries \in Nat

VARIABLES
  ledger,    \* the entries, in sequence order
  ceiling    \* the brand policy's max_allowed_tier of the running process

vars == <<ledger, ceiling>>

TypeOK ==
  /\ ledger \in Seq(Entry)
  /\ ceiling \in Tier

Init ==
  /\ ledger = <<>>
  /\ ceiling \in Ceilings

-----------------------------------------------------------------------------
(***************************************************************************)
(* What a call reads.                                                      *)
(***************************************************************************)

\* Fault: the larger of the earned tier and the ceiling.
EffectiveTierFault(log, ct) ==
  IF TierOf(log, ct) >= ceiling THEN TierOf(log, ct) ELSE ceiling

\* The tier that governs sends: the earned one, capped by the brand.
EffectiveTier(log, ct) ==
  IF TierOf(log, ct) <= ceiling THEN TierOf(log, ct) ELSE ceiling

\* Fault: a window closed at the present misses sends recorded earlier under
\* later timestamps.
SendsLast24hFault(log, ct, now) ==
  Cardinality({i \in SendsSince(log, ct, now - Day) : log[i].ts <= now})

SendsLast24h(log, ct, now) == Cardinality(SendsSince(log, ct, now - Day))

\* The evidence clears a gate: the last runs of its window are enough, and their
\* Wilson lower bound exceeds its bar.
ClearsGate(log, ct, gate) ==
  LET recent == WilsonRuns(log, ct, gate.window)
  IN  /\ Cardinality(recent) >= gate.min_runs
      /\ LowerBoundExceeds(Cardinality(Successes(log, recent)),
                           Cardinality(recent), gate.percent)

EvidenceClears(log, ct) == ClearsGate(log, ct, Gate[TierOf(log, ct)])

(***************************************************************************)
(* promotion_status(ct).gate_met, what the dashboard announces.            *)
(***************************************************************************)
GateMet(log, ct) ==
  /\ TierOf(log, ct) < SUPERVISED
  /\ TierOf(log, ct) + 1 <= ceiling
  /\ PromotionEligible(log, ct)
  /\ EvidenceClears(log, ct)

-----------------------------------------------------------------------------
(***************************************************************************)
(* The entries a call appends.                                             *)
(***************************************************************************)
RunFact(log, evaluation, now) ==
  LET ct     == evaluation.campaign_type
      tier   == EffectiveTier(log, ct)
      routed == Decide(evaluation, tier, SendsLast24h(log, ct, now))
  IN  [kind             |-> "run",
       campaign_type    |-> ct,
       ts               |-> now,
       run_id           |-> evaluation.run_id,
       decision         |-> routed.decision,
       outcome          |-> routed.outcome,
       tier_at_decision |-> tier,
       segment          |-> evaluation.segment]

Transition(log, ct, now, reason, toTier, standing, cooldown) ==
  [kind           |-> "transition",
   campaign_type  |-> ct,
   ts             |-> now,
   reason         |-> reason,
   from_tier      |-> TierOf(log, ct),
   to_tier        |-> toTier,
   standing_after |-> standing,
   cooldown_after |-> cooldown]

Demotion(log, ct, now, reason) ==
  Transition(log, ct, now, reason, ASSIST, "probation", 0)

\* Fault: two steps at once.
PromotionFault(log, ct, now) ==
  Transition(log, ct, now, "promotion", TierOf(log, ct) + 2, "active", 0)

Promotion(log, ct, now) ==
  Transition(log, ct, now, "promotion", TierOf(log, ct) + 1, "active", 0)

OutcomeFact(log, report, now) ==
  LET ct     == report.campaign_type
      origin == FindRun(log, ct, report.run_id)
  IN  [kind          |-> "outcome",
       campaign_type |-> ct,
       ts            |-> now,
       run_id        |-> report.run_id,
       breached      |-> Breached(report),
       blind_spot    |-> /\ Breached(report)
                         /\ origin # 0
                         /\ log[origin].outcome = "quality_pass"]

-----------------------------------------------------------------------------
(***************************************************************************)
(* process_run: record the run, then demote on a critical failure if there *)
(* is a tier to lose, or promote on a success if the gate is cleared with  *)
(* this run counted.                                                       *)
(***************************************************************************)
RunDemotes(log, evaluation) ==
  /\ CriticalFailures(evaluation) # {}
  /\ TierOf(log, evaluation.campaign_type) > ASSIST

\* Fault: the ceiling itself is out of reach, not only what lies above it.
MaybePromoteFault(logged, ct) ==
  /\ PromotionEligible(logged, ct)
  /\ TierOf(logged, ct) < SUPERVISED
  /\ TierOf(logged, ct) + 1 < ceiling
  /\ EvidenceClears(logged, ct)

PromotionOpen(logged, ct) ==
  /\ PromotionEligible(logged, ct)
  /\ TierOf(logged, ct) < SUPERVISED
  /\ TierOf(logged, ct) + 1 <= ceiling

MaybePromote(logged, ct) == PromotionOpen(logged, ct) /\ EvidenceClears(logged, ct)

RunPromotes(logged, run) ==
  /\ run.outcome = "quality_pass"
  /\ MaybePromote(logged, run.campaign_type)

ProcessRun(evaluation, now) ==
  LET ct     == evaluation.campaign_type
      run    == RunFact(ledger, evaluation, now)
      logged == Append(ledger, run)
  IN  /\ Len(ledger) < MaxEntries
      /\ \/ /\ RunDemotes(ledger, evaluation)
            /\ ledger' = Append(logged, Demotion(ledger, ct, now,
                                                 "demotion_critical_presend"))
         \/ /\ ~RunDemotes(ledger, evaluation)
            /\ RunPromotes(logged, run)
            /\ ledger' = Append(logged, Promotion(logged, ct, now))
         \/ /\ ~RunDemotes(ledger, evaluation)
            /\ ~RunPromotes(logged, run)
            /\ ledger' = logged
      /\ UNCHANGED ceiling

(***************************************************************************)
(* process_deliverability: record the outcome, then demote on a breach if  *)
(* there is a tier to lose.                                                *)
(***************************************************************************)
\* Fault: only the highest tier is taken away.
ReportDemotesFault(log, report) ==
  /\ Breached(report)
  /\ TierOf(log, report.campaign_type) > BOUNDED

ReportDemotes(log, report) ==
  /\ Breached(report)
  /\ TierOf(log, report.campaign_type) > ASSIST

ProcessDeliverability(report, now) ==
  LET ct     == report.campaign_type
      logged == Append(ledger, OutcomeFact(ledger, report, now))
  IN  /\ Len(ledger) < MaxEntries
      /\ \/ /\ ReportDemotes(ledger, report)
            /\ ledger' = Append(logged, Demotion(ledger, ct, now,
                                                 "demotion_deliverability"))
         \/ /\ ~ReportDemotes(ledger, report)
            /\ ledger' = logged
      /\ UNCHANGED ceiling

(***************************************************************************)
(* run_probation_challenge: only a type on probation may be challenged     *)
(* (the code raises otherwise); the bar is the one of the first promotion, *)
(* met rather than exceeded.                                               *)
(***************************************************************************)
ChallengePassed(score) ==
  LowerBoundMeets(score[1], score[2], Gate[ASSIST].percent)

ChallengeVerdict(log, ct, score, now) ==
  IF ChallengePassed(score)
    THEN Transition(log, ct, now, "probation_passed", BOUNDED, "active",
                    CooldownRuns)
    ELSE Transition(log, ct, now, "probation_failed", ASSIST,
                    "investigation_required", 0)

\* Fault: the challenge is recorded whatever the standing.
RunProbationChallengeFault(ct, score, now) ==
  /\ Len(ledger) < MaxEntries
  /\ ledger' = Append(ledger, ChallengeVerdict(ledger, ct, score, now))
  /\ UNCHANGED ceiling

RunProbationChallenge(ct, score, now) ==
  /\ Len(ledger) < MaxEntries
  /\ StandingOf(ledger, ct) = "probation"
  /\ ledger' = Append(ledger, ChallengeVerdict(ledger, ct, score, now))
  /\ UNCHANGED ceiling

(***************************************************************************)
(* The process restarts, perhaps with an edited brand policy.              *)
(***************************************************************************)
Restart ==
  /\ ceiling' \in Ceilings
  /\ UNCHANGED ledger

Next ==
  \/ \E evaluation \in Evaluations, now \in Times : ProcessRun(evaluation, now)
  \/ \E report \in Reports, now \in Times : ProcessDeliverability(report, now)
  \/ \E ct \in CampaignTypes, score \in Challenges, now \in Times :
       RunProbationChallenge(ct, score, now)
  \/ Restart

Spec == Init /\ [][Next]_vars

-----------------------------------------------------------------------------
(***************************************************************************)
(* Safety properties.                                                      *)
(***************************************************************************)

\* The runaway-loop limit: no closed 24-hour interval of any type holds more
\* autonomous sends than the cap, in whatever order the timestamps arrived.
\* (process_run counts sends before it appends, controller.py:141-151.)
SendsDuring(log, ct, end) ==
  {i \in DOMAIN log :
     IsAutoSend(log[i], ct) /\ log[i].ts >= end - Day /\ log[i].ts <= end}

RateLimit ==
  \A ct \in CampaignTypes, end \in Times :
    Cardinality(SendsDuring(ledger, ct, end)) <= MaxSendsPer24h

\* Complete mediation: every autonomous send was decided while the replay of
\* the ledger before it had its type active, at no more than the tier that
\* replay gives and one whose audience includes the segment; nothing is sent
\* on probation, under investigation, or to a band that is never autonomous.
Trusted(entry, tier, standing) ==
  /\ standing = "active"
  /\ entry.tier_at_decision <= tier
  /\ CanAutosend(entry.tier_at_decision, entry.segment)

SendsWhileTrusted ==
  \A ct \in CampaignTypes : \A i \in DOMAIN ledger :
    IsAutoSend(ledger[i], ct) =>
      Trusted(ledger[i], TierAt(ledger, ct, i - 1), StandingAt(ledger, ct, i - 1))

\* The recorded transitions of a type form one chain from ASSIST: each leaves
\* the tier the previous one reached; up is one step at a time; a demotion
\* lands on probation with nothing left; only a challenge leaves probation,
\* and restores with a cooldown to serve; nothing leaves investigation.
Follows(entry, tier, standing) ==
  /\ entry.from_tier = tier
  /\ \/ /\ entry.reason = "promotion"
        /\ standing = "active"
        /\ entry.to_tier = tier + 1
        /\ entry.standing_after = "active"
     \/ /\ entry.reason \in {"demotion_critical_presend", "demotion_deliverability"}
        /\ standing = "active" /\ tier > ASSIST
        /\ entry.to_tier = ASSIST
        /\ entry.standing_after = "probation"
     \/ /\ entry.reason = "probation_passed"
        /\ standing = "probation" /\ tier = ASSIST
        /\ entry.to_tier = BOUNDED
        /\ entry.standing_after = "active"
        /\ entry.cooldown_after = CooldownRuns
     \/ /\ entry.reason = "probation_failed"
        /\ standing = "probation" /\ tier = ASSIST
        /\ entry.to_tier = ASSIST
        /\ entry.standing_after = "investigation_required"

TransitionChain ==
  \A ct \in CampaignTypes : \A i \in DOMAIN ledger :
    IsTransition(ledger[i], ct) =>
      Follows(ledger[i], TierAt(ledger, ct, i - 1), StandingAt(ledger, ct, i - 1))

\* A restored type serves its cooldown: when the transition before a promotion
\* is a restoration, CooldownRuns further runs of the type, the promoting one
\* included, are on record between the two.
CooldownServed ==
  \A ct \in CampaignTypes : \A j \in DOMAIN ledger :
    LET i == LastTransition(ledger, ct, j - 1)
    IN  /\ IsTransition(ledger[j], ct)
        /\ ledger[j].reason = "promotion"
        /\ i # 0
        /\ ledger[i].reason = "probation_passed"
        => Cardinality(RunsBetween(ledger, ct, i, j - 1)) >= CooldownRuns

\* The closed loop: after a breach is on record nothing of that type is sent
\* until a later transition has raised the type again.
NoSendAfterBreach ==
  \A ct \in CampaignTypes : \A i, j \in DOMAIN ledger :
    /\ i < j
    /\ ledger[i].kind = "outcome"
    /\ ledger[i].campaign_type = ct
    /\ ledger[i].breached
    /\ IsAutoSend(ledger[j], ct)
    => \E r \in (i + 1) .. (j - 1) :
         IsTransition(ledger[r], ct) /\ ledger[r].to_tier > ASSIST

\* The fold of ledger.py:280-313 and the closed form agree, so a state shown
\* anywhere is the one any replay of the same ledger gives.
ReplayIsFold ==
  \A ct \in CampaignTypes :
    Reconstruct(ledger, ct) =
      [tier     |-> TierOf(ledger, ct),
       standing |-> StandingOf(ledger, ct),
       cooldown |-> CooldownOf(ledger, ct)]

-----------------------------------------------------------------------------
(***************************************************************************)
(* Action properties.                                                      *)
(***************************************************************************)
RunRecorded(ct) ==
  /\ Len(ledger') > Len(ledger)
  /\ IsRun(ledger'[Len(ledger) + 1], ct)

\* The dashboard does not lie: when it shows a type's gate as met ("would a
\* promotion fire right now?", controller.py:68), the next successful run of
\* the type does promote it, although that run moves the window.
GateMetPromotes ==
  [][\A ct \in CampaignTypes :
       /\ GateMet(ledger, ct)
       /\ RunRecorded(ct)
       /\ ledger'[Len(ledger) + 1].outcome = "quality_pass"
       => TierOf(ledger', ct) = TierOf(ledger, ct) + 1]_vars

\* Constraint blocks are neutral (ADR 0008): a run blocked by a rule moves no
\* tier and leaves the evidence every gate weighs as it was.
ConstraintBlocksNeutral ==
  [][\A ct \in CampaignTypes :
       /\ RunRecorded(ct)
       /\ ledger'[Len(ledger) + 1].outcome = "constraint_block"
       => /\ TierOf(ledger', ct) = TierOf(ledger, ct)
          /\ TierOf(ledger, ct) < SUPERVISED =>
               (EvidenceClears(ledger', ct) <=> EvidenceClears(ledger, ct))]_vars

\* What config/brand_policy.yaml:13 says of the brand's ceiling: the agent may
\* earn its way up to, but never past, this tier.
NeverRaisedPastCeiling ==
  [][\A ct \in CampaignTypes :
       TierOf(ledger', ct) > TierOf(ledger, ct) => TierOf(ledger', ct) <= ceiling]_vars

\* Types earn and lose autonomy separately (domain.py:22): a call that records
\* nothing for a type leaves what its next run would get as it was.
TypesIndependent ==
  [][\A evaluation \in Evaluations, now \in Times :
       (\A i \in (Len(ledger) + 1) .. Len(ledger') :
          ledger'[i].campaign_type # evaluation.campaign_type)
       /\ ceiling' = ceiling
       => RunFact(ledger, evaluation, now)' = RunFact(ledger, evaluation, now)]_vars

-----------------------------------------------------------------------------
(***************************************************************************)
(* The ledger implements the autonomy ladder: the state of each type is    *)
(* what its entries replay to.                                             *)
(***************************************************************************)
Ladder == INSTANCE AutonomyLadder WITH
  Types    <- CampaignTypes,
  Cooldown <- CooldownRuns,
  tier     <- [ct \in CampaignTypes |-> TierOf(ledger, ct)],
  standing <- [ct \in CampaignTypes |-> StandingOf(ledger, ct)],
  cooldown <- [ct \in CampaignTypes |-> CooldownOf(ledger, ct)]

ImplementsLadder == Ladder!LadderSpec
=============================================================================
