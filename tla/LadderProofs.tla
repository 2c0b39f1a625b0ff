---------------------------- MODULE LadderProofs ----------------------------
(***************************************************************************)
(* What the ladder is for: a restored type serves its cooldown, a breach   *)
(* stops the sends, and the replayed states of the types move as           *)
(* AutonomyLadder says; a gate shown as met promotes at the next success,  *)
(* a constraint block weighs nothing, no type touches another; and the     *)
(* replay is the state shown.  For every gate, cooldown and set of inputs. *)
(***************************************************************************)
EXTENDS ControllerProofs, WellFoundedInduction

(***************************************************************************)
(* The closed loop.  NoSendAfterBreach is not inductive alone: a breach on *)
(* record must also have taken the type to ASSIST, or have been followed   *)
(* by a transition that raised it again.                                   *)
(***************************************************************************)
Raises(entry, ct) == IsTransition(entry, ct) /\ entry.to_tier > ASSIST
Breach(entry, ct) == /\ entry.kind = "outcome"
                     /\ entry.campaign_type = ct
                     /\ entry.breached

Handled(log, ct) ==
  \A i \in DOMAIN log :
    Breach(log[i], ct) =>
      \/ TierOf(log, ct) = ASSIST
      \/ \E r \in (i + 1) .. Len(log) : Raises(log[r], ct)

Quiet(log, ct) ==
  \A i, j \in DOMAIN log :
    i < j /\ Breach(log[i], ct) /\ IsAutoSend(log[j], ct) =>
      \E r \in (i + 1) .. (j - 1) : Raises(log[r], ct)

LEMMA HandledAppend ==
  ASSUME NEW log, Grounded(log), NEW entry \in Entry, NEW ct \in CampaignTypes,
         Handled(log, ct), ~Breach(entry, ct)
  PROVE  Handled(Append(log, entry), ct)
<1> DEFINE more == Append(log, entry)
           n    == Len(log)
<1>1. /\ n \in Nat /\ DOMAIN log = 1 .. n /\ DOMAIN more = 1 .. n + 1
      /\ Len(more) = n + 1
      /\ \A i \in 1 .. n : more[i] = log[i]
      /\ more[n + 1] = entry
  BY AppendFacts DEF Grounded
<1> SUFFICES ASSUME NEW i \in 1 .. n, Breach(log[i], ct)
             PROVE  \/ TierOf(more, ct) = ASSIST
                    \/ \E r \in (i + 1) .. n + 1 : Raises(more[r], ct)
  BY <1>1 DEF Handled
<1>2. CASE \E r \in (i + 1) .. n : Raises(log[r], ct)
  BY <1>1, <1>2
<1>3. CASE TierOf(log, ct) = ASSIST /\ ~IsTransition(entry, ct)
  BY <1>3, OtherEntryKeepsState
<1>4. CASE IsTransition(entry, ct)
  <2>1. TierOf(more, ct) = entry.to_tier
    BY <1>4, TransitionSetsState
  <2>2. entry.to_tier \in Tier
    BY <1>4 DEF IsTransition, Entry, RunEntry, OutcomeEntry, TransitionEntry
  <2>3. entry.to_tier = ASSIST \/ Raises(more[n + 1], ct)
    BY <1>1, <1>4, <2>2 DEF Raises, Tier, ASSIST, SUPERVISED
  <2>4. n + 1 \in (i + 1) .. n + 1
    BY <1>1
  <2> QED
    BY <2>1, <2>3, <2>4
<1>5. Handled(log, ct) /\ i \in DOMAIN log
  BY <1>1
<1> QED
  BY <1>2, <1>3, <1>4, <1>5 DEF Handled

LEMMA QuietAppend ==
  ASSUME NEW log, Grounded(log), NEW entry \in Entry, NEW ct \in CampaignTypes,
         Quiet(log, ct),
         IsAutoSend(entry, ct) => TierOf(log, ct) # ASSIST /\ Handled(log, ct)
  PROVE  Quiet(Append(log, entry), ct)
<1> DEFINE more == Append(log, entry)
           n    == Len(log)
<1>1. /\ n \in Nat /\ DOMAIN log = 1 .. n /\ DOMAIN more = 1 .. n + 1
      /\ \A i \in 1 .. n : more[i] = log[i]
      /\ more[n + 1] = entry
  BY AppendFacts DEF Grounded
<1> SUFFICES ASSUME NEW i \in 1 .. n + 1, NEW j \in 1 .. n + 1, i < j,
                    Breach(more[i], ct), IsAutoSend(more[j], ct)
             PROVE  \E r \in (i + 1) .. (j - 1) : Raises(more[r], ct)
  BY <1>1 DEF Quiet
<1>2. i \in 1 .. n /\ more[i] = log[i]
  BY <1>1
<1>3. \E r \in (i + 1) .. (j - 1) : r \in 1 .. n /\ Raises(log[r], ct)
  <2>1. CASE j \in 1 .. n
    <3>1. \E r \in (i + 1) .. (j - 1) : Raises(log[r], ct)
      BY <1>1, <1>2, <2>1 DEF Quiet
    <3> QED
      BY <1>1, <1>2, <2>1, <3>1
  <2>2. CASE j = n + 1
    <3>1. TierOf(log, ct) # ASSIST /\ Handled(log, ct)
      BY <1>1, <2>2
    <3>2. \E r \in (i + 1) .. n : Raises(log[r], ct)
      BY <1>1, <1>2, <3>1 DEF Handled
    <3> QED
      BY <1>1, <1>2, <2>2, <3>2
  <2> QED
    BY <1>1, <2>1, <2>2
<1> QED
  BY <1>1, <1>3

\* An entry that may follow and is no breach keeps both.
LEMMA ClosedAppend ==
  ASSUME NEW log, Sound(log), NEW entry, MayFollow(log, entry),
         NEW ct \in CampaignTypes, Handled(log, ct), Quiet(log, ct),
         ~Breach(entry, ct)
  PROVE  Handled(Append(log, entry), ct) /\ Quiet(Append(log, entry), ct)
<1>1. Grounded(log) /\ entry \in Entry /\ TierOf(log, ct) \in Tier
  BY CurrentState DEF Sound, MayFollow
<1>2. ASSUME IsAutoSend(entry, ct) PROVE TierOf(log, ct) # ASSIST
  <2>1. Trusted(entry, TierOf(log, ct), StandingOf(log, ct))
    BY <1>2 DEF MayFollow
  <2>2. entry.tier_at_decision \in Tier
    BY <1>1, <1>2 DEF IsAutoSend, IsRun, Entry, RunEntry, OutcomeEntry, TransitionEntry
  <2>3. entry.tier_at_decision # ASSIST
    BY <2>1, <2>2 DEF Trusted, CanAutosend, TierSegments, Tier, ASSIST, BOUNDED, SUPERVISED
  <2> QED
    BY <1>1, <2>1, <2>2, <2>3 DEF Trusted, Tier, ASSIST, SUPERVISED
<1> QED
  BY <1>1, <1>2, HandledAppend, QuietAppend

Closed(log) == \A ct \in CampaignTypes : Handled(log, ct) /\ Quiet(log, ct)

LEMMA NextClosed ==
  ASSUME IInv, Closed(ledger), [Next]_vars
  PROVE  Closed(ledger')
<1> SUFFICES ASSUME NEW type \in CampaignTypes
             PROVE  Handled(ledger', type) /\ Quiet(ledger', type)
  BY DEF Closed
<1>1. Sound(ledger) /\ Handled(ledger, type) /\ Quiet(ledger, type)
  BY DEF IInv, Closed
<1>2. ASSUME NEW evaluation \in Evaluations, NEW now \in Times,
             ProcessRun(evaluation, now)
      PROVE  Handled(ledger', type) /\ Quiet(ledger', type)
  <2> DEFINE run    == RunFact(ledger, evaluation, now)
             logged == Append(ledger, run)
  <2>1. MayFollow(ledger, run) /\ run.kind = "run" /\ Sound(logged)
    BY <1>2, RunStep
  <2>2. \/ ledger' = logged
        \/ \E entry : /\ MayFollow(logged, entry) /\ entry.kind = "transition"
                      /\ ledger' = Append(logged, entry)
    <3>1. \A ct, reason : Demotion(logged, ct, now, reason).kind = "transition"
      BY DEF Demotion, Transition
    <3>2. \A ct : Promotion(logged, ct, now).kind = "transition"
      BY DEF Promotion, Transition
    <3> QED
      BY <1>2, <3>1, <3>2, RunStep, Zenon
  <2> HIDE DEF run
  <2>3. Handled(logged, type) /\ Quiet(logged, type)
    BY <1>1, <2>1, ClosedAppend DEF Breach
  <2> HIDE DEF logged
  <2> QED
    BY <2>1, <2>2, <2>3, ClosedAppend DEF Breach
<1>3. ASSUME NEW report \in Reports, NEW now \in Times,
             ProcessDeliverability(report, now)
      PROVE  Handled(ledger', type) /\ Quiet(ledger', type)
  <2> DEFINE ct     == report.campaign_type
             fact   == OutcomeFact(ledger, report, now)
             logged == Append(ledger, fact)
             demotion == Demotion(logged, ct, now, "demotion_deliverability")
  <2>1. /\ MayFollow(ledger, fact) /\ fact.kind = "outcome" /\ Sound(logged)
        /\ fact.campaign_type = ct /\ ct \in CampaignTypes
        /\ TierOf(logged, ct) = TierOf(ledger, ct)
    BY <1>3, DeliverabilityStep
  <2>2. \/ (fact.breached => TierOf(logged, ct) = ASSIST) /\ ledger' = logged
        \/ MayFollow(logged, demotion) /\ ledger' = Append(logged, demotion)
    BY <1>3, <2>1, DeliverabilityStep, Zenon
  <2>3. /\ demotion.kind = "transition" /\ demotion.campaign_type = ct
        /\ demotion.to_tier = ASSIST
    BY DEF Demotion, Transition
  <2> HIDE DEF fact, demotion
  <2>4. Quiet(logged, type)
    BY <1>1, <2>1, QuietAppend DEF Sound, MayFollow, IsAutoSend, IsRun
  <2>5. CASE ~Breach(fact, type)
    <3>1. Handled(logged, type)
      BY <1>1, <2>1, <2>5, ClosedAppend
    <3> HIDE DEF logged
    <3> QED
      BY <2>1, <2>2, <2>3, <2>4, <3>1, ClosedAppend DEF Breach
  <2>6. CASE Breach(fact, type)
    <3>1. type = ct
      BY <2>1, <2>6 DEF Breach
    <3> HIDE DEF logged
    <3>2. CASE TierOf(logged, ct) = ASSIST /\ ledger' = logged
      BY <2>4, <3>1, <3>2 DEF Handled
    <3>3. CASE MayFollow(logged, demotion) /\ ledger' = Append(logged, demotion)
      <4>1. TierOf(ledger', ct) = ASSIST
        BY <2>1, <2>3, <3>3, TransitionSetsState DEF Sound, MayFollow, IsTransition
      <4>2. Quiet(ledger', type)
        BY <2>1, <2>3, <2>4, <3>3, QuietAppend DEF Sound, MayFollow, IsAutoSend, IsRun
      <4> QED
        BY <3>1, <4>1, <4>2 DEF Handled
    <3> QED
      BY <2>2, <2>6, <3>2, <3>3 DEF Breach
  <2> QED
    BY <2>5, <2>6
<1>4. ASSUME NEW ct \in CampaignTypes, NEW score \in Challenges, NEW now \in Times,
             RunProbationChallenge(ct, score, now)
      PROVE  Handled(ledger', type) /\ Quiet(ledger', type)
  <2> DEFINE entry == ChallengeVerdict(ledger, ct, score, now)
  <2>1. MayFollow(ledger, entry) /\ ledger' = Append(ledger, entry)
    BY <1>1, <1>4, VerdictMayFollow DEF RunProbationChallenge
  <2>2. entry.kind = "transition"
    BY DEF ChallengeVerdict, Transition
  <2> HIDE DEF entry
  <2> QED
    BY <1>1, <2>1, <2>2, ClosedAppend DEF Breach
<1>5. CASE Restart \/ UNCHANGED vars
  BY <1>1, <1>5 DEF Restart, vars
<1> QED
  BY <1>2, <1>3, <1>4, <1>5 DEF Next

\* A breach on record stops the sends of its type until it is raised again,
\* whichever tier it was sent at and whatever happened in between.
THEOREM BreachStopsSends == Spec => []NoSendAfterBreach
<1>1. Init => Closed(ledger)
  BY DEF Init, Closed, Handled, Quiet
<1>2. IInv /\ Closed(ledger) /\ [Next]_vars => Closed(ledger')
  BY NextClosed
<1>3. Closed(ledger) => NoSendAfterBreach
  BY DEF Closed, Quiet, NoSendAfterBreach, Breach, Raises
<1>4. Closed(ledger)' <=> Closed(ledger')
  OBVIOUS
<1> QED
  BY <1>1, <1>2, <1>3, <1>4, Invariance, PTL DEF Spec

-----------------------------------------------------------------------------
(***************************************************************************)
(* The cooldown.                                                           *)
(***************************************************************************)
ServedAt(log, ct, j) ==
  LET i == LastTransition(log, ct, j - 1)
  IN  /\ IsTransition(log[j], ct)
      /\ log[j].reason = "promotion"
      /\ i # 0
      /\ log[i].reason = "probation_passed"
      => Cardinality(RunsBetween(log, ct, i, j - 1)) >= CooldownRuns

Served(log) == \A ct \in CampaignTypes : \A j \in DOMAIN log : ServedAt(log, ct, j)

\* A restoration whose cooldown reads zero has been served.
LEMMA ZeroIsServed ==
  ASSUME NEW log, Sound(log), NEW ct \in CampaignTypes, CooldownOf(log, ct) = 0
  PROVE  LET i == LastTransition(log, ct, Len(log))
         IN  i # 0 /\ log[i].reason = "probation_passed" =>
               Cardinality(RunsBetween(log, ct, i, Len(log))) >= CooldownRuns
<1> DEFINE n    == Len(log)
           i    == LastTransition(log, ct, n)
           runs == Cardinality(RunsBetween(log, ct, i, n))
<1> SUFFICES ASSUME i # 0, log[i].reason = "probation_passed"
             PROVE  runs >= CooldownRuns
  OBVIOUS
<1>1. n \in Nat /\ n \in 0 .. n /\ DOMAIN log = 1 .. n
  BY DEF Sound, Grounded
<1>2. i \in TransitionsUpTo(log, ct, n) /\ i \in 1 .. n
  BY <1>1, LastIsTransition DEF Sound
<1>3. IsTransition(log[i], ct)
  BY <1>2 DEF TransitionsUpTo
<1>4. Follows(log[i], TierAt(log, ct, i - 1), StandingAt(log, ct, i - 1))
  BY <1>1, <1>2, <1>3 DEF Sound, Chained
<1>5. log[i].cooldown_after = CooldownRuns /\ log[i].standing_after = "active"
  BY <1>4 DEF Follows
<1>6. StandingAt(log, ct, n) = "active"
  BY <1>5 DEF StandingAt
<1>7. CooldownAt(log, ct, n) = IF CooldownRuns <= runs THEN 0 ELSE CooldownRuns - runs
  BY <1>5, <1>6 DEF CooldownAt
<1>8. runs \in Nat
  BY <1>1, <1>2, RunsFinite
<1> HIDE DEF runs, i, n
<1> QED
  BY <1>7, <1>8, ConfigAssumption DEF CooldownOf, n

LEMMA ServedAppend ==
  ASSUME NEW log, Sound(log), Served(log), NEW entry \in Entry,
         \A ct \in CampaignTypes :
           IsTransition(entry, ct) /\ entry.reason = "promotion" =>
             CooldownOf(log, ct) = 0
  PROVE  Served(Append(log, entry))
<1> DEFINE more == Append(log, entry)
           n    == Len(log)
<1>1. /\ n \in Nat /\ DOMAIN log = 1 .. n /\ DOMAIN more = 1 .. n + 1
      /\ \A i \in 1 .. n : more[i] = log[i]
      /\ more[n + 1] = entry
      /\ Grounded(log)
  BY AppendFacts DEF Sound, Grounded
<1> SUFFICES ASSUME NEW ct \in CampaignTypes, NEW j \in 1 .. n + 1
             PROVE  ServedAt(more, ct, j)
  BY <1>1 DEF Served
<1> DEFINE i == LastTransition(log, ct, j - 1)
<1>2. j - 1 \in 0 .. n
  BY <1>1
<1>3. LastTransition(more, ct, j - 1) = i
  BY <1>1, <1>2, PrefixState
<1>4. i \in 0 .. j - 1
  BY <1>1, <1>2, LastIsTransition
<1>5. RunsBetween(more, ct, i, j - 1) = RunsBetween(log, ct, i, j - 1)
  BY <1>1, <1>2, <1>4 DEF RunsBetween
<1>6. i # 0 => more[i] = log[i]
  BY <1>1, <1>2, <1>4
<1>7. /\ IsTransition(more[j], ct) /\ more[j].reason = "promotion"
      /\ i # 0 /\ log[i].reason = "probation_passed"
      => Cardinality(RunsBetween(log, ct, i, j - 1)) >= CooldownRuns
  <2>1. CASE j \in 1 .. n
    <3>1. ServedAt(log, ct, j) /\ more[j] = log[j]
      BY <1>1, <2>1 DEF Served
    <3> QED
      BY <3>1 DEF ServedAt
  <2>2. CASE j = n + 1
    <3>1. j - 1 = n /\ more[j] = entry
      BY <1>1, <2>2
    <3> QED
      BY <3>1, ZeroIsServed
  <2> QED
    BY <1>1, <2>1, <2>2
<1> HIDE DEF more, i
<1> QED
  BY <1>3, <1>5, <1>6, <1>7 DEF ServedAt

LEMMA NextServed ==
  ASSUME IInv, Served(ledger), [Next]_vars
  PROVE  Served(ledger')
<1>1. Sound(ledger)
  BY DEF IInv
<1>2. ASSUME NEW log, Sound(log), Served(log), NEW entry, MayFollow(log, entry),
             entry.kind = "transition" => entry.reason # "promotion"
      PROVE  Served(Append(log, entry))
  BY <1>2, ServedAppend DEF MayFollow, IsTransition
<1>3. ASSUME NEW evaluation \in Evaluations, NEW now \in Times,
             ProcessRun(evaluation, now)
      PROVE  Served(ledger')
  <2> DEFINE ct        == evaluation.campaign_type
             run       == RunFact(ledger, evaluation, now)
             logged    == Append(ledger, run)
             demotion  == Demotion(logged, ct, now, "demotion_critical_presend")
             promotion == Promotion(logged, ct, now)
  <2>1. MayFollow(ledger, run) /\ run.kind = "run" /\ Sound(logged)
    BY <1>3, RunStep
  <2>2. \/ ledger' = logged
        \/ MayFollow(logged, demotion) /\ ledger' = Append(logged, demotion)
        \/ /\ MaybePromote(logged, ct) /\ MayFollow(logged, promotion)
           /\ ledger' = Append(logged, promotion)
    BY <1>3, RunStep, Zenon
  <2>3. demotion.reason # "promotion" /\ promotion.campaign_type = ct
    BY DEF Demotion, Promotion, Transition
  <2>4. MaybePromote(logged, ct) => CooldownOf(logged, ct) = 0
    BY DEF MaybePromote, PromotionOpen, PromotionEligible
  <2> HIDE DEF run, demotion, promotion
  <2>5. Served(logged)
    BY <1>1, <1>2, <2>1
  <2> HIDE DEF logged
  <2>6. CASE MayFollow(logged, demotion) /\ ledger' = Append(logged, demotion)
    BY <1>2, <2>1, <2>3, <2>5, <2>6
  <2>7. CASE /\ MaybePromote(logged, ct) /\ MayFollow(logged, promotion)
             /\ ledger' = Append(logged, promotion)
    BY <2>1, <2>3, <2>4, <2>5, <2>7, ServedAppend DEF MayFollow, IsTransition
  <2> QED
    BY <2>2, <2>5, <2>6, <2>7
<1>4. ASSUME NEW report \in Reports, NEW now \in Times,
             ProcessDeliverability(report, now)
      PROVE  Served(ledger')
  <2> DEFINE fact     == OutcomeFact(ledger, report, now)
             logged   == Append(ledger, fact)
             demotion == Demotion(logged, report.campaign_type, now,
                                  "demotion_deliverability")
  <2>1. MayFollow(ledger, fact) /\ fact.kind = "outcome" /\ Sound(logged)
    BY <1>4, DeliverabilityStep
  <2>2. \/ ledger' = logged
        \/ MayFollow(logged, demotion) /\ ledger' = Append(logged, demotion)
    BY <1>4, DeliverabilityStep, Zenon
  <2>3. demotion.reason # "promotion"
    BY DEF Demotion, Transition
  <2> HIDE DEF fact, demotion
  <2>4. Served(logged)
    BY <1>1, <1>2, <2>1
  <2> HIDE DEF logged
  <2> QED
    BY <1>2, <2>1, <2>2, <2>3, <2>4
<1>5. ASSUME NEW ct \in CampaignTypes, NEW score \in Challenges, NEW now \in Times,
             RunProbationChallenge(ct, score, now)
      PROVE  Served(ledger')
  <2> DEFINE entry == ChallengeVerdict(ledger, ct, score, now)
  <2>1. MayFollow(ledger, entry) /\ ledger' = Append(ledger, entry)
    BY <1>1, <1>5, VerdictMayFollow DEF RunProbationChallenge
  <2>2. entry.reason # "promotion"
    BY DEF ChallengeVerdict, Transition
  <2> HIDE DEF entry
  <2> QED
    BY <1>1, <1>2, <2>1, <2>2
<1>6. CASE Restart \/ UNCHANGED vars
  BY <1>6 DEF Restart, vars
<1> QED
  BY <1>3, <1>4, <1>5, <1>6 DEF Next

\* No type is promoted out of a restoration before it has served its cooldown,
\* for every cooldown length and every gate.
THEOREM CooldownIsServed == Spec => []CooldownServed
<1>1. Init => Served(ledger)
  BY DEF Init, Served
<1>2. IInv /\ Served(ledger) /\ [Next]_vars => Served(ledger')
  BY NextServed
<1>3. Served(ledger) => CooldownServed
  BY DEF Served, ServedAt, CooldownServed
<1>4. Served(ledger)' <=> Served(ledger')
  OBVIOUS
<1> QED
  BY <1>1, <1>2, <1>3, <1>4, Invariance, PTL DEF Spec

-----------------------------------------------------------------------------
(***************************************************************************)
(* The refinement.  A call moves at most the type it is about; that type's *)
(* state before and after a call is a step of the ladder or the same.      *)
(***************************************************************************)
StateKept(log, more, ct) ==
  /\ TierOf(more, ct) = TierOf(log, ct)
  /\ StandingOf(more, ct) = StandingOf(log, ct)
  /\ CooldownOf(more, ct) = CooldownOf(log, ct)

\* An entry leaves the state of every other type as it was.
LEMMA OthersKept ==
  ASSUME NEW log, Grounded(log), NEW entry \in Entry,
         NEW ct \in CampaignTypes, entry.campaign_type # ct
  PROVE  StateKept(log, Append(log, entry), ct)
  BY OtherEntryKeepsState, RunServesCooldown DEF IsTransition, IsRun, StateKept

\* The step of one type, in the ladder's words.
Moved(more, ct, newTier, newStanding, newCooldown) ==
  /\ TierOf(more, ct) = newTier
  /\ StandingOf(more, ct) = newStanding
  /\ CooldownOf(more, ct) = newCooldown

LEMMA MovedBecomes ==
  ASSUME NEW ct \in CampaignTypes, NEW newTier, NEW newStanding, NEW newCooldown,
         Moved(ledger', ct, newTier, newStanding, newCooldown),
         \A type \in CampaignTypes : type # ct => StateKept(ledger, ledger', type)
  PROVE  Ladder!Becomes(ct, newTier, newStanding, newCooldown)
  BY DEF Moved, StateKept, Ladder!Becomes

LEMMA KeptStutters ==
  ASSUME \A type \in CampaignTypes : StateKept(ledger, ledger', type)
  PROVE  UNCHANGED Ladder!state
  BY DEF StateKept, Ladder!state

\* A run of ct uses up a unit of its cooldown, and moves nothing else.
LEMMA RunServes ==
  ASSUME Sound(ledger), NEW run, MayFollow(ledger, run), run.kind = "run",
         run.campaign_type \in CampaignTypes,
         ledger' = Append(ledger, run)
  PROVE  [Ladder!LadderNext]_(Ladder!state)
<1> DEFINE ct == run.campaign_type
<1>1. Grounded(ledger) /\ run \in Entry /\ ~IsTransition(run, ct) /\ IsRun(run, ct)
  BY DEF Sound, MayFollow, IsTransition, IsRun
<1>2. \A type \in CampaignTypes : type # ct => StateKept(ledger, ledger', type)
  BY <1>1, OthersKept
<1>3. TierOf(ledger', ct) = TierOf(ledger, ct) /\ StandingOf(ledger', ct) = StandingOf(ledger, ct)
  BY <1>1, OtherEntryKeepsState
<1>4. CASE StandingOf(ledger, ct) = "active" /\ CooldownOf(ledger, ct) > 0
  <2>1. Moved(ledger', ct, TierOf(ledger, ct), "active", CooldownOf(ledger, ct) - 1)
    BY <1>1, <1>3, <1>4, RunServesCooldown DEF Moved
  <2>2. Ladder!Becomes(ct, TierOf(ledger, ct), "active", CooldownOf(ledger, ct) - 1)
    BY <1>2, <2>1, MovedBecomes
  <2>3. Ladder!Serve(ct)
    BY <1>4, <2>2 DEF Ladder!Serve
  <2> QED
    BY <2>3 DEF Ladder!LadderNext
<1>5. CASE ~(StandingOf(ledger, ct) = "active" /\ CooldownOf(ledger, ct) > 0)
  <2>1. StateKept(ledger, ledger', ct)
    BY <1>1, <1>3, <1>5, RunServesCooldown DEF StateKept
  <2> QED
    BY <1>2, <2>1, KeptStutters
<1> QED
  BY <1>4, <1>5

\* A fact and a transition of the same type move only that type, to the state
\* the transition records.
LEMMA FactAndTransition ==
  ASSUME Sound(ledger), NEW fact, MayFollow(ledger, fact),
         fact.campaign_type \in CampaignTypes, Sound(Append(ledger, fact)),
         NEW entry, MayFollow(Append(ledger, fact), entry),
         IsTransition(entry, fact.campaign_type),
         ledger' = Append(Append(ledger, fact), entry)
  PROVE  Ladder!Becomes(fact.campaign_type, entry.to_tier, entry.standing_after,
                        entry.cooldown_after)
<1> DEFINE ct     == fact.campaign_type
           logged == Append(ledger, fact)
<1>1. Grounded(ledger) /\ Grounded(logged) /\ fact \in Entry /\ entry \in Entry
  BY DEF Sound, MayFollow
<1>2. entry.campaign_type = ct
  BY DEF IsTransition
<1>3. ASSUME NEW type \in CampaignTypes, type # ct
      PROVE  StateKept(ledger, ledger', type)
  <2>1. StateKept(ledger, logged, type)
    BY <1>1, <1>3, OthersKept
  <2>2. StateKept(logged, ledger', type)
    BY <1>1, <1>2, <1>3, OthersKept
  <2> QED
    BY <2>1, <2>2 DEF StateKept
<1>4. Moved(ledger', ct, entry.to_tier, entry.standing_after, entry.cooldown_after)
  BY <1>1, TransitionSetsState DEF Moved
<1> QED
  BY <1>3, <1>4, MovedBecomes

LEMMA LadderStep ==
  ASSUME IInv, [Next]_vars
  PROVE  [Ladder!LadderNext]_(Ladder!state)
<1>1. Sound(ledger)
  BY DEF IInv
<1>2. ASSUME NEW evaluation \in Evaluations, NEW now \in Times,
             ProcessRun(evaluation, now)
      PROVE  [Ladder!LadderNext]_(Ladder!state)
  <2> DEFINE ct        == evaluation.campaign_type
             run       == RunFact(ledger, evaluation, now)
             logged    == Append(ledger, run)
             demotion  == Demotion(logged, ct, now, "demotion_critical_presend")
             promotion == Promotion(logged, ct, now)
  <2>1. /\ ct \in CampaignTypes /\ run.kind = "run" /\ run.campaign_type = ct
        /\ MayFollow(ledger, run) /\ Sound(logged)
        /\ TierOf(logged, ct) = TierOf(ledger, ct)
        /\ StandingOf(logged, ct) = StandingOf(ledger, ct)
    BY <1>2, RunStep
  <2>2. \/ ledger' = logged
        \/ /\ TierOf(ledger, ct) > ASSIST /\ MayFollow(logged, demotion)
           /\ ledger' = Append(logged, demotion)
        \/ /\ MaybePromote(logged, ct) /\ MayFollow(logged, promotion)
           /\ ledger' = Append(logged, promotion)
    BY <1>2, RunStep, Zenon
  <2>3. /\ IsTransition(demotion, ct) /\ demotion.to_tier = 0
        /\ demotion.standing_after = "probation" /\ demotion.cooldown_after = 0
    BY DEF Demotion, Transition, IsTransition, ASSIST
  <2>4. /\ IsTransition(promotion, ct) /\ promotion.to_tier = TierOf(logged, ct) + 1
        /\ promotion.standing_after = "active" /\ promotion.cooldown_after = 0
    BY DEF Promotion, Transition, IsTransition
  <2> HIDE DEF run, demotion, promotion
  <2>5. CASE ledger' = logged
    BY <1>1, <2>1, <2>5, RunServes
  <2>6. CASE /\ TierOf(ledger, ct) > ASSIST /\ MayFollow(logged, demotion)
             /\ ledger' = Append(logged, demotion)
    <3>1. Ladder!Becomes(ct, 0, "probation", 0)
      BY <1>1, <2>1, <2>3, <2>6, FactAndTransition
    <3>2. Ladder!Demote(ct)
      BY <2>1, <2>6, <3>1 DEF Ladder!Demote, ASSIST
    <3> QED
      BY <2>1, <3>2 DEF Ladder!LadderNext
  <2>7. CASE /\ MaybePromote(logged, ct) /\ MayFollow(logged, promotion)
             /\ ledger' = Append(logged, promotion)
    <3>1. Ladder!Becomes(ct, TierOf(ledger, ct) + 1, "active", 0)
      BY <1>1, <2>1, <2>4, <2>7, FactAndTransition
    <3>2. /\ StandingOf(ledger, ct) = "active" /\ TierOf(ledger, ct) < 2
          /\ CooldownOf(logged, ct) = 0
      BY <2>1, <2>7 DEF MaybePromote, PromotionOpen, PromotionEligible, SUPERVISED
    <3>3. CooldownOf(ledger, ct) <= 1
      <4>1. CooldownOf(ledger, ct) \in Nat
        BY <1>1, <2>1, CurrentState DEF Sound
      <4>2. ~IsTransition(run, ct) /\ run \in Entry /\ Grounded(ledger)
        BY <1>1, <2>1 DEF IsTransition, MayFollow, Sound
      <4>3. CooldownOf(logged, ct) = CooldownOf(ledger, ct)
            \/ CooldownOf(logged, ct) = CooldownOf(ledger, ct) - 1
        BY <2>1, <4>2, RunServesCooldown
      <4> QED
        BY <3>2, <4>1, <4>3
    <3>4. Ladder!Promote(ct)
      BY <2>1, <3>1, <3>2, <3>3 DEF Ladder!Promote
    <3> QED
      BY <2>1, <3>4 DEF Ladder!LadderNext
  <2> QED
    BY <2>2, <2>5, <2>6, <2>7
<1>3. ASSUME NEW report \in Reports, NEW now \in Times,
             ProcessDeliverability(report, now)
      PROVE  [Ladder!LadderNext]_(Ladder!state)
  <2> DEFINE ct       == report.campaign_type
             fact     == OutcomeFact(ledger, report, now)
             logged   == Append(ledger, fact)
             demotion == Demotion(logged, ct, now, "demotion_deliverability")
  <2>1. /\ ct \in CampaignTypes /\ fact.kind = "outcome" /\ fact.campaign_type = ct
        /\ MayFollow(ledger, fact) /\ Sound(logged)
    BY <1>3, DeliverabilityStep
  <2>2. \/ ledger' = logged
        \/ /\ TierOf(ledger, ct) > ASSIST /\ MayFollow(logged, demotion)
           /\ ledger' = Append(logged, demotion)
    BY <1>3, DeliverabilityStep, Zenon
  <2>3. /\ IsTransition(demotion, ct) /\ demotion.to_tier = 0
        /\ demotion.standing_after = "probation" /\ demotion.cooldown_after = 0
    BY DEF Demotion, Transition, IsTransition, ASSIST
  <2> HIDE DEF fact, demotion
  <2>4. CASE ledger' = logged
    <3>1. /\ Grounded(ledger) /\ fact \in Entry
          /\ \A type : ~IsTransition(fact, type) /\ ~IsRun(fact, type)
      BY <1>1, <2>1 DEF Sound, MayFollow, IsTransition, IsRun
    <3>2. \A type \in CampaignTypes : StateKept(ledger, ledger', type)
      BY <2>4, <3>1, OtherEntryKeepsState, RunServesCooldown DEF StateKept
    <3> QED
      BY <3>2, KeptStutters
  <2>5. CASE /\ TierOf(ledger, ct) > ASSIST /\ MayFollow(logged, demotion)
             /\ ledger' = Append(logged, demotion)
    <3>1. Ladder!Becomes(ct, 0, "probation", 0)
      BY <1>1, <2>1, <2>3, <2>5, FactAndTransition
    <3>2. Ladder!Demote(ct)
      BY <2>1, <2>5, <3>1 DEF Ladder!Demote, ASSIST
    <3> QED
      BY <2>1, <3>2 DEF Ladder!LadderNext
  <2> QED
    BY <2>2, <2>4, <2>5
<1>4. ASSUME NEW ct \in CampaignTypes, NEW score \in Challenges, NEW now \in Times,
             RunProbationChallenge(ct, score, now)
      PROVE  [Ladder!LadderNext]_(Ladder!state)
  <2> DEFINE entry == ChallengeVerdict(ledger, ct, score, now)
  <2>1. /\ MayFollow(ledger, entry) /\ ledger' = Append(ledger, entry)
        /\ StandingOf(ledger, ct) = "probation"
    BY <1>1, <1>4, VerdictMayFollow DEF RunProbationChallenge
  <2>2. /\ IsTransition(entry, ct) /\ entry.campaign_type = ct
        /\ \/ /\ entry.to_tier = 1 /\ entry.standing_after = "active"
              /\ entry.cooldown_after = CooldownRuns
           \/ /\ entry.to_tier = 0 /\ entry.standing_after = "investigation_required"
              /\ entry.cooldown_after = 0
    BY DEF ChallengeVerdict, Transition, IsTransition, ASSIST, BOUNDED
  <2> HIDE DEF entry
  <2>3. Grounded(ledger) /\ entry \in Entry
    BY <1>1, <2>1 DEF Sound, MayFollow
  <2>4. \A type \in CampaignTypes : type # ct => StateKept(ledger, ledger', type)
    BY <2>1, <2>2, <2>3, OthersKept
  <2>5. Moved(ledger', ct, entry.to_tier, entry.standing_after, entry.cooldown_after)
    BY <2>1, <2>2, <2>3, TransitionSetsState DEF Moved
  <2>6. Ladder!Becomes(ct, entry.to_tier, entry.standing_after, entry.cooldown_after)
    BY <2>4, <2>5, MovedBecomes
  <2>7. Ladder!Restore(ct) \/ Ladder!Condemn(ct)
    BY <2>1, <2>2, <2>6 DEF Ladder!Restore, Ladder!Condemn
  <2> QED
    BY <2>7 DEF Ladder!LadderNext
<1>5. CASE Restart \/ UNCHANGED vars
  <2>1. ledger' = ledger
    BY <1>5 DEF Restart, vars
  <2> QED
    BY <2>1, KeptStutters DEF StateKept
<1> QED
  BY <1>2, <1>3, <1>4, <1>5 DEF Next

LEMMA LadderStart == Init => Ladder!LadderInit
<1> SUFFICES ASSUME Init PROVE Ladder!LadderInit
  OBVIOUS
<1>1. ledger = <<>> /\ Len(ledger) = 0
  BY DEF Init
<1>2. \A ct : TransitionsUpTo(ledger, ct, 0) = {}
  BY DEF TransitionsUpTo
<1>3. \A ct : LastTransition(ledger, ct, 0) = 0
  BY <1>2 DEF LastTransition
<1>4. \A ct \in CampaignTypes :
        TierOf(ledger, ct) = 0 /\ StandingOf(ledger, ct) = "active" /\ CooldownOf(ledger, ct) = 0
  BY <1>1, <1>3 DEF TierOf, StandingOf, CooldownOf, TierAt, StandingAt, CooldownAt, ASSIST
<1> QED
  BY <1>4 DEF Ladder!LadderInit

\* The controller over its ledger implements the autonomy ladder: initial
\* states map to the ladder's, and every call to one of its steps or none.
THEOREM LadderImplemented == Spec => ImplementsLadder
<1>1. Init => Ladder!LadderInit
  BY LadderStart
<1>2. IInv /\ [Next]_vars => [Ladder!LadderNext]_(Ladder!state)
  BY LadderStep
<1> QED
  BY <1>1, <1>2, Invariance, PTL DEF Spec, ImplementsLadder, Ladder!LadderSpec

-----------------------------------------------------------------------------
(***************************************************************************)
(* The gates.  What the dashboard announces as met is still met when the   *)
(* next success has moved the window: the success takes the place of the   *)
(* oldest run of a full window, or joins one that has room, and the Wilson *)
(* bound falls in neither case.                                            *)
(***************************************************************************)
LEMMA TimesMonotone ==
  ASSUME NEW a \in Int, NEW b \in Int, NEW c \in Int, a >= b, c >= 0
  PROVE  a * c >= b * c
  OBVIOUS

\* One more success keeps a bar that is exceeded (wilson.py:21-43), whether it
\* replaces a failure or is one more trial.
LEMMA SuccessHelps ==
  ASSUME NEW s \in Nat, NEW n \in Nat, s <= n, NEW percent \in 1 .. 100,
         LowerBoundExceeds(s, n, percent)
  PROVE  /\ LowerBoundExceeds(s + 1, n, percent)
         /\ LowerBoundExceeds(s + 1, n + 1, percent)
<1> DEFINE u == 100 - percent
           d == 100 * s - n * percent
           v == n * percent
<1>1. percent \in Int /\ percent >= 1 /\ u \in Int /\ u >= 0 /\ v \in Int /\ d \in Int
  OBVIOUS
<1>2. n > 0 /\ d > 0 /\ 625 * (d * d) > 2401 * n * percent * u
  BY DEF LowerBoundExceeds, Square
<1>3. n * u = 100 * n - v
  OBVIOUS
<1>4. n * u >= d
  BY <1>3
<1>5. 2401 * n * percent * u = (2401 * percent) * (n * u)
  OBVIOUS
<1>6. (n * u) * (2401 * percent) >= d * (2401 * percent)
  BY <1>1, <1>4, TimesMonotone
<1>7. d * (625 * d) > d * (2401 * percent)
  BY <1>1, <1>2, <1>5, <1>6
<1>8. 625 * d > 2401 * percent
  <2>1. ~(625 * d > 2401 * percent) => (2401 * percent) * d >= (625 * d) * d
    BY <1>1, <1>2, TimesMonotone
  <2> QED
    BY <1>1, <1>7, <2>1
<1> DEFINE e == d + 100
           g == d + u
<1>9. /\ 100 * (s + 1) - n * percent = e
      /\ 100 * (s + 1) - (n + 1) * percent = g
  OBVIOUS
<1>10. 625 * (e * e) > 2401 * n * percent * u
  <2>1. e * e >= d * d
    <3>1. e * d >= d * d /\ e * e >= d * e
      BY <1>1, <1>2, TimesMonotone
    <3> QED
      BY <1>1, <3>1
  <2> QED
    BY <1>1, <1>2, <2>1
<1>11. 625 * (g * g) > 2401 * (n + 1) * percent * u
  <2>1. g * g = d * d + 2 * (d * u) + u * u
    BY <1>1
  <2>2. (625 * d) * u >= (2401 * percent) * u
    BY <1>1, <1>8, TimesMonotone
  <2>3. d * u >= 0 /\ u * u >= 0
    BY <1>1, <1>2, TimesMonotone
  <2>4. 2401 * (n + 1) * percent * u = 2401 * n * percent * u + (2401 * percent) * u
    BY <1>1
  <2>5. 625 * (g * g) = 625 * (d * d) + 1250 * (d * u) + 625 * (u * u)
    BY <1>1, <2>1
  <2> QED
    BY <1>1, <1>2, <2>2, <2>3, <2>4, <2>5
<1>12. e > 0 /\ g > 0
  BY <1>1, <1>2
<1>13. 100 * (s + 1) > n * percent /\ 100 * (s + 1) > (n + 1) * percent
  BY <1>1, <1>9, <1>12
<1> QED
  BY <1>2, <1>9, <1>10, <1>11, <1>13 DEF LowerBoundExceeds, Square

Evidence(log, ct) ==
  {i \in DOMAIN log : IsRun(log[i], ct) /\ log[i].outcome # "constraint_block"}

Later(log, ct, i) == {j \in Evidence(log, ct) : j > i}

LEMMA WindowOf ==
  ASSUME NEW log, NEW ct, NEW window
  PROVE  WilsonRuns(log, ct, window) =
           {i \in Evidence(log, ct) : Cardinality(Later(log, ct, i)) < window}
  BY DEF WilsonRuns, Evidence, Later

LEMMA EvidenceWithin ==
  ASSUME NEW log \in Seq(Entry), NEW ct
  PROVE  /\ Len(log) \in Nat
         /\ Evidence(log, ct) \subseteq 1 .. Len(log)
         /\ IsFiniteSet(Evidence(log, ct))
         /\ \A i \in Evidence(log, ct) : i \in 1 .. Len(log) /\ i \in Int
<1>1. Len(log) \in Nat /\ Evidence(log, ct) \subseteq 1 .. Len(log)
  BY DEF Evidence
<1>2. IsFiniteSet(1 .. Len(log))
  BY <1>1, FS_Interval
<1>3. IsFiniteSet(Evidence(log, ct))
  BY <1>1, <1>2, FS_Subset
<1> QED
  BY <1>1, <1>3

LEMMA LaterFinite ==
  ASSUME NEW log \in Seq(Entry), NEW ct, NEW i
  PROVE  IsFiniteSet(Later(log, ct, i)) /\ Cardinality(Later(log, ct, i)) \in Nat
<1>1. IsFiniteSet(Evidence(log, ct))
  BY EvidenceWithin
<1>2. Later(log, ct, i) \subseteq Evidence(log, ct)
  BY DEF Later
<1>3. IsFiniteSet(Later(log, ct, i))
  BY <1>1, <1>2, FS_Subset
<1> QED
  BY <1>3, FS_CardinalityType

\* Of two runs of evidence the earlier has more behind it.
LEMMA LaterFalls ==
  ASSUME NEW log \in Seq(Entry), NEW ct, NEW i \in Evidence(log, ct),
         NEW j \in Evidence(log, ct), i < j
  PROVE  Cardinality(Later(log, ct, i)) >= Cardinality(Later(log, ct, j)) + 1
<1> DEFINE few  == Later(log, ct, j)
           more == few \cup {j}
<1>1. i \in Int /\ j \in Int
  BY EvidenceWithin
<1>2. more \subseteq Later(log, ct, i) /\ j \notin few
  BY <1>1, EvidenceWithin DEF Later
<1>3. IsFiniteSet(few) /\ IsFiniteSet(Later(log, ct, i))
  BY LaterFinite
<1> HIDE DEF few
<1>4. Cardinality(more) = Cardinality(few) + 1
  BY <1>2, <1>3, FS_AddElement
<1>5. Cardinality(more) <= Cardinality(Later(log, ct, i))
  BY <1>2, <1>3, FS_Subset
<1>6. /\ Cardinality(few) \in Nat /\ Cardinality(Later(log, ct, i)) \in Nat
  BY <1>3, FS_CardinalityType
<1> QED
  BY <1>4, <1>5, <1>6 DEF few

\* One more run of evidence enters the window, and at most the oldest leaves it.
LEMMA WindowMoves ==
  ASSUME NEW log \in Seq(Entry), NEW entry \in Entry, NEW ct, IsRun(entry, ct),
         entry.outcome # "constraint_block", NEW window \in Nat \ {0}
  PROVE  LET old == WilsonRuns(log, ct, window)
             new == WilsonRuns(Append(log, entry), ct, window)
             k   == Len(log) + 1
         IN  new = old \cup {k} \/ \E o \in old : new = (old \ {o}) \cup {k}
<1> DEFINE more == Append(log, entry)
           k    == Len(log) + 1
           old  == WilsonRuns(log, ct, window)
           new  == WilsonRuns(more, ct, window)
           kept == {i \in Evidence(log, ct) : Cardinality(Later(log, ct, i)) + 1 < window}
<1>1. /\ Len(log) \in Nat /\ DOMAIN log = 1 .. Len(log) /\ DOMAIN more = 1 .. k
      /\ \A i \in 1 .. Len(log) : more[i] = log[i]
      /\ more[k] = entry /\ more \in Seq(Entry)
  BY AppendFacts
<1>2. Evidence(more, ct) = Evidence(log, ct) \cup {k}
  BY <1>1 DEF Evidence
<1>3. Later(more, ct, k) = {}
  BY <1>1, <1>2, EvidenceWithin DEF Later
<1>4. ASSUME NEW i \in Evidence(log, ct)
      PROVE  Cardinality(Later(more, ct, i)) = Cardinality(Later(log, ct, i)) + 1
  <2>1. i \in 1 .. Len(log)
    BY EvidenceWithin
  <2>2. Later(more, ct, i) = Later(log, ct, i) \cup {k}
    BY <1>1, <1>2, <2>1 DEF Later
  <2>3. k \notin Later(log, ct, i)
    BY <1>1, <2>1, EvidenceWithin DEF Later
  <2> QED
    BY <2>2, <2>3, LaterFinite, FS_AddElement
<1>5. Cardinality(Later(more, ct, k)) = 0
  BY <1>3, FS_EmptySet
<1>6. \A i : i \in new <=> \/ i \in Evidence(log, ct)
                                /\ Cardinality(Later(log, ct, i)) + 1 < window
                           \/ i = k
  <2>1. new = {i \in Evidence(more, ct) : Cardinality(Later(more, ct, i)) < window}
    BY WindowOf
  <2>2. k \notin Evidence(log, ct)
    BY <1>1, EvidenceWithin
  <2> HIDE DEF new, k, more
  <2> QED
    BY <1>2, <1>4, <1>5, <2>1, <2>2
<1>7. new = kept \cup {k}
  BY <1>6
<1>8. old = {i \in Evidence(log, ct) : Cardinality(Later(log, ct, i)) < window}
  BY WindowOf
<1>9. \A i \in Evidence(log, ct) : Cardinality(Later(log, ct, i)) \in Nat
  BY LaterFinite
<1> HIDE DEF old, new
<1>10. kept \subseteq old
  BY <1>8, <1>9
<1>11. \A i, j \in old : i \notin kept /\ j \notin kept => i = j
  <2>1. SUFFICES ASSUME NEW i \in old, NEW j \in old, i \notin kept, j \notin kept, i < j
                 PROVE  FALSE
    BY <1>8, EvidenceWithin
  <2>2. /\ Cardinality(Later(log, ct, i)) + 1 >= window
        /\ Cardinality(Later(log, ct, i)) < window
        /\ Cardinality(Later(log, ct, j)) + 1 >= window
    BY <1>8, <1>9, <2>1
  <2>3. Cardinality(Later(log, ct, i)) >= Cardinality(Later(log, ct, j)) + 1
    BY <1>8, <2>1, LaterFalls
  <2> QED
    BY <1>8, <1>9, <2>1, <2>2, <2>3
<1> HIDE DEF kept
<1>12. kept = old \/ \E o \in old : kept = old \ {o}
  BY <1>10, <1>11
<1> QED
  BY <1>7, <1>12 DEF old, new

LEMMA WindowCounted ==
  ASSUME NEW log \in Seq(Entry), NEW ct, NEW window
  PROVE  LET recent == WilsonRuns(log, ct, window)
         IN  /\ IsFiniteSet(recent) /\ recent \subseteq 1 .. Len(log)
             /\ IsFiniteSet(Successes(log, recent))
             /\ Cardinality(recent) \in Nat /\ Cardinality(Successes(log, recent)) \in Nat
             /\ Cardinality(Successes(log, recent)) <= Cardinality(recent)
<1> DEFINE recent == WilsonRuns(log, ct, window)
<1>1. recent \subseteq Evidence(log, ct)
  BY DEF WilsonRuns, Evidence
<1>2. IsFiniteSet(Evidence(log, ct)) /\ Evidence(log, ct) \subseteq 1 .. Len(log)
  BY EvidenceWithin
<1> HIDE DEF recent
<1>3. IsFiniteSet(recent)
  BY <1>1, <1>2, FS_Subset
<1>4. Successes(log, recent) \subseteq recent
  BY DEF Successes
<1>5. /\ IsFiniteSet(Successes(log, recent))
      /\ Cardinality(Successes(log, recent)) <= Cardinality(recent)
  BY <1>3, <1>4, FS_Subset
<1> QED
  BY <1>1, <1>2, <1>3, <1>5, FS_CardinalityType DEF recent

\* A gate that is cleared stays cleared when the type's next run is a success.
LEMMA SuccessKeepsGate ==
  ASSUME NEW log \in Seq(Entry), NEW entry \in Entry, NEW ct, IsRun(entry, ct),
         entry.outcome = "quality_pass", NEW gate \in GateConfig, ClearsGate(log, ct, gate)
  PROVE  ClearsGate(Append(log, entry), ct, gate)
<1> DEFINE more == Append(log, entry)
           k    == Len(log) + 1
           old  == WilsonRuns(log, ct, gate.window)
           new  == WilsonRuns(more, ct, gate.window)
           wins == Successes(log, old)
           now  == Successes(more, new)
           n    == Cardinality(old)
           s    == Cardinality(wins)
<1>1. /\ gate.window \in Nat \ {0} /\ gate.min_runs \in Nat /\ gate.percent \in 1 .. 100
  BY DEF GateConfig
<1>2. /\ IsFiniteSet(old) /\ IsFiniteSet(wins) /\ old \subseteq 1 .. Len(log)
      /\ n \in Nat /\ s \in Nat /\ s <= n
  BY WindowCounted
<1>3. n >= gate.min_runs /\ LowerBoundExceeds(s, n, gate.percent)
  BY DEF ClearsGate
<1>4. new = old \cup {k} \/ \E o \in old : new = (old \ {o}) \cup {k}
  BY <1>1, WindowMoves
<1>5. /\ Len(log) \in Nat /\ \A i \in 1 .. Len(log) : more[i] = log[i]
      /\ more[k] = entry
  BY AppendFacts
<1>6. k \notin old /\ k \notin wins
  BY <1>2, <1>5 DEF Successes
<1>7. wins \subseteq old
  BY DEF Successes
<1>8. SUFFICES /\ Cardinality(new) >= gate.min_runs
               /\ LowerBoundExceeds(Cardinality(now), Cardinality(new), gate.percent)
  BY DEF ClearsGate
<1>9. /\ LowerBoundExceeds(s + 1, n, gate.percent)
      /\ LowerBoundExceeds(s + 1, n + 1, gate.percent)
  BY <1>1, <1>2, <1>3, SuccessHelps
<1>10. \A i \in old : more[i] = log[i]
  BY <1>2, <1>5
<1> HIDE DEF more, k, old, new, n, s
<1>11. CASE new = old \cup {k}
  <2>1. now = wins \cup {k}
    BY <1>5, <1>10, <1>11 DEF Successes
  <2>2. Cardinality(new) = n + 1
    BY <1>2, <1>6, <1>11, FS_AddElement DEF n
  <2>3. Cardinality(now) = s + 1
    BY <1>2, <1>6, <2>1, FS_AddElement DEF s
  <2> QED
    BY <1>1, <1>2, <1>3, <1>9, <2>2, <2>3
<1>12. ASSUME NEW o \in old, new = (old \ {o}) \cup {k}
       PROVE  /\ Cardinality(new) >= gate.min_runs
              /\ LowerBoundExceeds(Cardinality(now), Cardinality(new), gate.percent)
  <2>1. now = (wins \ {o}) \cup {k}
    BY <1>5, <1>10, <1>12 DEF Successes
  <2>2. IsFiniteSet(old \ {o}) /\ Cardinality(old \ {o}) = n - 1
    BY <1>2, <1>12, FS_RemoveElement DEF n
  <2>3. Cardinality((old \ {o}) \cup {k}) = (n - 1) + 1
    BY <1>6, <2>2, FS_AddElement
  <2>4. Cardinality(new) = n
    BY <1>2, <1>12, <2>3
  <2>5. CASE o \in wins
    <3>1. IsFiniteSet(wins \ {o}) /\ Cardinality(wins \ {o}) = s - 1
      BY <1>2, <2>5, FS_RemoveElement DEF s
    <3>2. Cardinality((wins \ {o}) \cup {k}) = (s - 1) + 1
      BY <1>6, <3>1, FS_AddElement
    <3>3. Cardinality(now) = s
      BY <1>2, <2>1, <3>2
    <3> QED
      BY <1>3, <2>4, <3>3
  <2>6. CASE o \notin wins
    <3>1. now = wins \cup {k}
      BY <2>1, <2>6
    <3>2. Cardinality(now) = s + 1
      BY <1>2, <1>6, <3>1, FS_AddElement DEF s
    <3> QED
      BY <1>3, <1>9, <2>4, <3>2
  <2> QED
    BY <2>5, <2>6
<1> QED
  BY <1>4, <1>11, <1>12

\* A constraint block is no evidence (ADR 0008).
LEMMA BlockKeepsGate ==
  ASSUME NEW log \in Seq(Entry), NEW entry \in Entry, NEW ct,
         entry.outcome = "constraint_block", IsRun(entry, ct), NEW gate
  PROVE  ClearsGate(Append(log, entry), ct, gate) <=> ClearsGate(log, ct, gate)
<1> DEFINE more == Append(log, entry)
           k    == Len(log) + 1
<1>1. /\ Len(log) \in Nat /\ DOMAIN log = 1 .. Len(log) /\ DOMAIN more = 1 .. k
      /\ \A i \in 1 .. Len(log) : more[i] = log[i]
      /\ more[k] = entry
  BY AppendFacts
<1>2. Evidence(more, ct) = Evidence(log, ct)
  BY <1>1 DEF Evidence
<1>3. WilsonRuns(more, ct, gate.window) = WilsonRuns(log, ct, gate.window)
  BY <1>2, WindowOf DEF Later
<1>4. WilsonRuns(log, ct, gate.window) \subseteq 1 .. Len(log)
  BY WindowCounted
<1>5. Successes(more, WilsonRuns(log, ct, gate.window))
        = Successes(log, WilsonRuns(log, ct, gate.window))
  BY <1>1, <1>4 DEF Successes
<1> HIDE DEF more
<1>6. ClearsGate(more, ct, gate) <=> ClearsGate(log, ct, gate)
  BY <1>3, <1>5 DEF ClearsGate
<1> QED
  BY <1>6 DEF more

\* A step that records a run is a call of process_run with that run.
LEMMA RecordingStep ==
  ASSUME IInv, [Next]_vars, NEW ct \in CampaignTypes, RunRecorded(ct)
  PROVE  \E evaluation \in Evaluations, now \in Times :
           /\ ProcessRun(evaluation, now)
           /\ evaluation.campaign_type = ct
           /\ ledger'[Len(ledger) + 1] = RunFact(ledger, evaluation, now)
<1>1. Grounded(ledger) /\ ledger \in Seq(Entry) /\ Len(ledger) \in Nat
  BY DEF IInv, Sound, Grounded
<1>2. Len(ledger') > Len(ledger) /\ IsRun(ledger'[Len(ledger) + 1], ct)
  BY DEF RunRecorded
<1>3. ASSUME NEW fact \in Entry, Append(ledger, fact) \in Seq(Entry), NEW entry \in Entry,
             \/ ledger' = Append(ledger, fact)
             \/ ledger' = Append(Append(ledger, fact), entry)
      PROVE  ledger'[Len(ledger) + 1] = fact
  <2> DEFINE logged == Append(ledger, fact)
  <2>1. Len(logged) = Len(ledger) + 1 /\ logged[Len(ledger) + 1] = fact
    BY <1>1, AppendFacts
  <2>2. logged \in Seq(Entry) /\ (ledger' = logged \/ ledger' = Append(logged, entry))
    BY <1>3
  <2> HIDE DEF logged
  <2>3. \A i \in 1 .. Len(logged) : Append(logged, entry)[i] = logged[i]
    BY <1>3, <2>2, AppendFacts DEF logged
  <2>4. Len(ledger) + 1 \in 1 .. Len(logged)
    BY <1>1, <2>1
  <2> QED
    BY <1>3, <2>1, <2>3, <2>4 DEF logged
<1>4. ASSUME NEW evaluation \in Evaluations, NEW now \in Times,
             ProcessRun(evaluation, now)
      PROVE  /\ evaluation.campaign_type = ct
             /\ ledger'[Len(ledger) + 1] = RunFact(ledger, evaluation, now)
  <2> DEFINE run    == RunFact(ledger, evaluation, now)
             logged == Append(ledger, run)
  <2>1. /\ run \in Entry /\ logged \in Seq(Entry)
        /\ run.campaign_type = evaluation.campaign_type
    BY <1>4, RunStep, Zenon DEF MayFollow, Sound, Grounded
  <2>2. \/ ledger' = logged
        \/ \E entry \in Entry : ledger' = Append(logged, entry)
    BY <1>4, RunStep, Zenon DEF MayFollow
  <2> HIDE DEF run
  <2>3. ledger'[Len(ledger) + 1] = run
    BY <1>3, <2>1, <2>2
  <2>4. evaluation.campaign_type = ct
    BY <1>2, <2>1, <2>3 DEF IsRun
  <2> QED
    BY <2>3, <2>4 DEF run
<1>5. ASSUME NEW report \in Reports, NEW now \in Times,
             ProcessDeliverability(report, now)
      PROVE  FALSE
  <2> DEFINE fact   == OutcomeFact(ledger, report, now)
             logged == Append(ledger, fact)
  <2>1. fact \in Entry /\ logged \in Seq(Entry) /\ fact.kind = "outcome"
    BY <1>5, DeliverabilityStep, Zenon DEF MayFollow, Sound, Grounded
  <2>2. \/ ledger' = logged
        \/ \E entry \in Entry : ledger' = Append(logged, entry)
    BY <1>5, DeliverabilityStep, Zenon DEF MayFollow
  <2> HIDE DEF fact
  <2>3. ledger'[Len(ledger) + 1] = fact
    BY <1>3, <2>1, <2>2
  <2> QED
    BY <1>2, <2>1, <2>3 DEF IsRun
<1>6. ASSUME NEW type \in CampaignTypes, NEW score \in Challenges, NEW now \in Times,
             RunProbationChallenge(type, score, now)
      PROVE  FALSE
  <2> DEFINE verdict == ChallengeVerdict(ledger, type, score, now)
  <2>1. /\ ledger' = Append(ledger, verdict) /\ StandingOf(ledger, type) = "probation"
    BY <1>6 DEF RunProbationChallenge
  <2>2. verdict \in Entry
    BY <2>1, VerdictMayFollow DEF MayFollow, IInv
  <2>3. verdict.kind = "transition"
    BY DEF ChallengeVerdict, Transition
  <2> HIDE DEF verdict
  <2>4. ledger'[Len(ledger) + 1] = verdict
    BY <1>1, <2>1, <2>2, AppendFacts
  <2> QED
    BY <1>2, <2>3, <2>4 DEF IsRun
<1>7. CASE Restart \/ UNCHANGED vars
  BY <1>1, <1>2, <1>7 DEF Restart, vars
<1> QED
  BY <1>4, <1>5, <1>6, <1>7 DEF Next

\* The evidence class of a run that goes on record.
LEMMA RunClass ==
  ASSUME NEW log, NEW evaluation, NEW now
  PROVE  RunFact(log, evaluation, now).outcome # "quality_failure" =>
           CriticalFailures(evaluation) = {}
  BY DEF RunFact, Decide, Outcome, Passed

GatePromotes ==
  \A ct \in CampaignTypes :
    /\ GateMet(ledger, ct)
    /\ RunRecorded(ct)
    /\ ledger'[Len(ledger) + 1].outcome = "quality_pass"
    => TierOf(ledger', ct) = TierOf(ledger, ct) + 1

LEMMA GateStep == IInv /\ [Next]_vars => GatePromotes
<1> SUFFICES ASSUME IInv, [Next]_vars, NEW ct \in CampaignTypes, GateMet(ledger, ct),
                    RunRecorded(ct), ledger'[Len(ledger) + 1].outcome = "quality_pass"
             PROVE  TierOf(ledger', ct) = TierOf(ledger, ct) + 1
  BY DEF GatePromotes
<1>1. PICK evaluation \in Evaluations, now \in Times :
        /\ ProcessRun(evaluation, now)
        /\ evaluation.campaign_type = ct
        /\ ledger'[Len(ledger) + 1] = RunFact(ledger, evaluation, now)
  BY RecordingStep
<1> DEFINE run       == RunFact(ledger, evaluation, now)
           logged    == Append(ledger, run)
           promotion == Promotion(logged, ct, now)
<1>2. run.outcome = "quality_pass" /\ CriticalFailures(evaluation) = {}
  BY <1>1, RunClass
<1>3. /\ Grounded(ledger) /\ ledger \in Seq(Entry)
      /\ run \in Entry /\ IsRun(run, ct) /\ ~IsTransition(run, ct)
      /\ Sound(logged) /\ Grounded(logged)
      /\ TierOf(logged, ct) = TierOf(ledger, ct)
      /\ StandingOf(logged, ct) = StandingOf(ledger, ct)
  <2>1. /\ run.kind = "run" /\ run.campaign_type = ct /\ MayFollow(ledger, run)
        /\ Sound(logged)
        /\ TierOf(logged, ct) = TierOf(ledger, ct)
        /\ StandingOf(logged, ct) = StandingOf(ledger, ct)
    BY <1>1, RunStep, Zenon
  <2> HIDE DEF run
  <2> QED
    BY <2>1 DEF IInv, Sound, Grounded, MayFollow, IsRun, IsTransition
<1>4. ~RunDemotes(ledger, evaluation)
  BY <1>2 DEF RunDemotes
<1> HIDE DEF run
<1>5. MaybePromote(logged, ct)
  <2>1. /\ TierOf(ledger, ct) < SUPERVISED /\ TierOf(ledger, ct) + 1 <= ceiling
        /\ StandingOf(ledger, ct) = "active" /\ CooldownOf(ledger, ct) = 0
        /\ ClearsGate(ledger, ct, Gate[TierOf(ledger, ct)])
    BY DEF GateMet, PromotionEligible, EvidenceClears
  <2>2. CooldownOf(logged, ct) = CooldownOf(ledger, ct)
    BY <1>3, <2>1, RunServesCooldown
  <2>3. Gate[TierOf(ledger, ct)] \in GateConfig
    <3>1. TierOf(ledger, ct) \in Tier
      BY <1>3, CurrentState
    <3> QED
      BY <2>1, <3>1, ConfigAssumption DEF Tier, ASSIST, BOUNDED, SUPERVISED
  <2>4. ClearsGate(logged, ct, Gate[TierOf(ledger, ct)])
    BY <1>2, <1>3, <2>1, <2>3, SuccessKeepsGate
  <2> HIDE DEF logged
  <2> QED
    BY <1>3, <2>1, <2>2, <2>4
       DEF MaybePromote, PromotionOpen, PromotionEligible, EvidenceClears
<1>6. ledger' = Append(logged, promotion)
  <2>1. RunPromotes(logged, run)
    BY <1>2, <1>3, <1>5 DEF RunPromotes, IsRun
  <2> QED
    BY <1>1, <1>4, <2>1 DEF ProcessRun, run
<1>7. promotion \in Entry
  <2>1. MayFollow(logged, promotion)
    BY <1>3, <1>5, PromotionMayFollow
  <2> QED
    BY <2>1 DEF MayFollow
<1>8. IsTransition(promotion, ct) /\ promotion.to_tier = TierOf(logged, ct) + 1
  BY DEF Promotion, Transition, IsTransition
<1> HIDE DEF promotion, logged
<1>9. TierOf(ledger', ct) = promotion.to_tier
  BY <1>3, <1>6, <1>7, <1>8, TransitionSetsState
<1> QED
  BY <1>3, <1>8, <1>9

\* The dashboard does not lie (controller.py:68): for any gates, ceilings and
\* histories, a type whose gate is announced as met is promoted by its next
\* success, although that run moves the window the gate weighs.
THEOREM AnnouncedGatePromotes == Spec => GateMetPromotes
<1>1. IInv /\ [Next]_vars => GatePromotes
  BY GateStep
<1> QED
  BY <1>1, Invariance, PTL DEF Spec, GateMetPromotes, GatePromotes

BlockNeutral ==
  \A ct \in CampaignTypes :
    /\ RunRecorded(ct)
    /\ ledger'[Len(ledger) + 1].outcome = "constraint_block"
    => /\ TierOf(ledger', ct) = TierOf(ledger, ct)
       /\ TierOf(ledger, ct) < SUPERVISED =>
            (EvidenceClears(ledger', ct) <=> EvidenceClears(ledger, ct))

LEMMA BlockStep == IInv /\ [Next]_vars => BlockNeutral
<1> SUFFICES ASSUME IInv, [Next]_vars, NEW ct \in CampaignTypes,
                    RunRecorded(ct), ledger'[Len(ledger) + 1].outcome = "constraint_block"
             PROVE  /\ TierOf(ledger', ct) = TierOf(ledger, ct)
                    /\ EvidenceClears(ledger', ct) <=> EvidenceClears(ledger, ct)
  BY DEF BlockNeutral
<1>1. PICK evaluation \in Evaluations, now \in Times :
        /\ ProcessRun(evaluation, now)
        /\ evaluation.campaign_type = ct
        /\ ledger'[Len(ledger) + 1] = RunFact(ledger, evaluation, now)
  BY RecordingStep
<1> DEFINE run    == RunFact(ledger, evaluation, now)
           logged == Append(ledger, run)
<1>2. run.outcome = "constraint_block" /\ CriticalFailures(evaluation) = {}
  BY <1>1, RunClass
<1>3. /\ ledger \in Seq(Entry) /\ run \in Entry /\ IsRun(run, ct)
      /\ TierOf(logged, ct) = TierOf(ledger, ct)
  <2>1. /\ run.kind = "run" /\ run.campaign_type = ct /\ MayFollow(ledger, run)
        /\ TierOf(logged, ct) = TierOf(ledger, ct)
    BY <1>1, RunStep, Zenon
  <2> HIDE DEF run
  <2> QED
    BY <2>1 DEF IInv, Sound, Grounded, MayFollow, IsRun
<1>4. ~RunDemotes(ledger, evaluation) /\ ~RunPromotes(logged, run)
  BY <1>2 DEF RunDemotes, RunPromotes
<1>5. ledger' = logged
  BY <1>1, <1>4 DEF ProcessRun
<1>6. ClearsGate(logged, ct, Gate[TierOf(ledger, ct)])
        <=> ClearsGate(ledger, ct, Gate[TierOf(ledger, ct)])
  <2> HIDE DEF run
  <2> QED
    BY <1>2, <1>3, BlockKeepsGate
<1> HIDE DEF logged
<1> QED
  BY <1>3, <1>5, <1>6 DEF EvidenceClears

\* Constraint blocks are neutral (ADR 0008, routing.py:68-69, :94-100): a run blocked by
\* a rule moves no tier and leaves the verdict of every gate as it was, for any
\* window and threshold.
THEOREM BlocksAreNeutral == Spec => ConstraintBlocksNeutral
<1>1. IInv /\ [Next]_vars => BlockNeutral
  BY BlockStep
<1> QED
  BY <1>1, Invariance, PTL DEF Spec, ConstraintBlocksNeutral, BlockNeutral

-----------------------------------------------------------------------------
(***************************************************************************)
(* Types are independent.  What the next run of a type gets is read off    *)
(* the entries of that type, and no entry of another adds to it.           *)
(***************************************************************************)
ReadAlike(log, more, ct) ==
  /\ TierOf(more, ct) = TierOf(log, ct)
  /\ \A now : SendsLast24h(more, ct, now) = SendsLast24h(log, ct, now)

LEMMA OtherEntryReadAlike ==
  ASSUME NEW log, Grounded(log), NEW entry \in Entry,
         NEW ct \in CampaignTypes, entry.campaign_type # ct
  PROVE  Grounded(Append(log, entry)) /\ ReadAlike(log, Append(log, entry), ct)
<1> DEFINE more == Append(log, entry)
<1>1. Grounded(more) /\ TierOf(more, ct) = TierOf(log, ct)
  BY AppendGrounded, OthersKept DEF StateKept
<1>2. /\ Len(log) \in Nat /\ DOMAIN log = 1 .. Len(log) /\ DOMAIN more = 1 .. Len(log) + 1
      /\ \A i \in 1 .. Len(log) : more[i] = log[i]
      /\ more[Len(log) + 1] = entry
  BY AppendFacts DEF Grounded
<1> HIDE DEF more
<1>3. \A cutoff : SendsSince(more, ct, cutoff) = SendsSince(log, ct, cutoff)
  BY <1>2 DEF SendsSince, IsAutoSend, IsRun
<1>4. \A now : SendsLast24h(more, ct, now) = SendsLast24h(log, ct, now)
  BY <1>3 DEF SendsLast24h
<1> QED
  BY <1>1, <1>4 DEF ReadAlike, more

\* A call records nothing, one entry, or one entry after another.
LEMMA StepAppends ==
  ASSUME IInv, [Next]_vars
  PROVE  \/ ledger' = ledger
         \/ \E entry \in Entry : ledger' = Append(ledger, entry)
         \/ \E fact \in Entry, entry \in Entry : ledger' = Append(Append(ledger, fact), entry)
<1>1. ASSUME NEW evaluation \in Evaluations, NEW now \in Times,
             ProcessRun(evaluation, now)
      PROVE  \E fact \in Entry :
               \/ ledger' = Append(ledger, fact)
               \/ \E entry \in Entry : ledger' = Append(Append(ledger, fact), entry)
  <2> DEFINE run    == RunFact(ledger, evaluation, now)
             logged == Append(ledger, run)
  <2>1. run \in Entry
    BY <1>1, RunStep, Zenon DEF MayFollow
  <2>2. \/ ledger' = logged
        \/ \E entry \in Entry : ledger' = Append(logged, entry)
    BY <1>1, RunStep, Zenon DEF MayFollow
  <2> HIDE DEF run
  <2> QED
    BY <2>1, <2>2, Zenon
<1>2. ASSUME NEW report \in Reports, NEW now \in Times,
             ProcessDeliverability(report, now)
      PROVE  \E fact \in Entry :
               \/ ledger' = Append(ledger, fact)
               \/ \E entry \in Entry : ledger' = Append(Append(ledger, fact), entry)
  <2> DEFINE fact   == OutcomeFact(ledger, report, now)
             logged == Append(ledger, fact)
  <2>1. fact \in Entry
    BY <1>2, DeliverabilityStep, Zenon DEF MayFollow
  <2>2. \/ ledger' = logged
        \/ \E entry \in Entry : ledger' = Append(logged, entry)
    BY <1>2, DeliverabilityStep, Zenon DEF MayFollow
  <2> HIDE DEF fact
  <2> QED
    BY <2>1, <2>2, Zenon
<1>3. ASSUME NEW ct \in CampaignTypes, NEW score \in Challenges, NEW now \in Times,
             RunProbationChallenge(ct, score, now)
      PROVE  \E entry \in Entry : ledger' = Append(ledger, entry)
  BY <1>3, VerdictMayFollow DEF RunProbationChallenge, IInv, MayFollow
<1>4. CASE Restart \/ UNCHANGED vars
  BY <1>4 DEF Restart, vars
<1> QED
  BY <1>1, <1>2, <1>3, <1>4, Zenon DEF Next

Independent ==
  \A evaluation \in Evaluations, now \in Times :
    (\A i \in (Len(ledger) + 1) .. Len(ledger') :
       ledger'[i].campaign_type # evaluation.campaign_type)
    /\ ceiling' = ceiling
    => RunFact(ledger, evaluation, now)' = RunFact(ledger, evaluation, now)

LEMMA IndependentStep == IInv /\ [Next]_vars => Independent
<1> SUFFICES ASSUME IInv, [Next]_vars, NEW evaluation \in Evaluations, NEW now \in Times,
                    \A i \in (Len(ledger) + 1) .. Len(ledger') :
                      ledger'[i].campaign_type # evaluation.campaign_type,
                    ceiling' = ceiling
             PROVE  RunFact(ledger, evaluation, now)' = RunFact(ledger, evaluation, now)
  BY DEF Independent
<1> DEFINE ct == evaluation.campaign_type
<1>1. ct \in CampaignTypes
  BY InputAssumption DEF Evaluation
<1>2. Grounded(ledger) /\ ledger \in Seq(Entry) /\ Len(ledger) \in Nat
  BY DEF IInv, Sound, Grounded
<1>3. ReadAlike(ledger, ledger', ct)
  <2>1. CASE ledger' = ledger
    BY <2>1 DEF ReadAlike
  <2>2. ASSUME NEW entry \in Entry, ledger' = Append(ledger, entry)
        PROVE  ReadAlike(ledger, ledger', ct)
    <3>1. Len(ledger') = Len(ledger) + 1 /\ ledger'[Len(ledger) + 1] = entry
      BY <1>2, <2>2, AppendFacts
    <3>2. entry.campaign_type # ct
      BY <1>2, <3>1
    <3> HIDE DEF ct
    <3> QED
      BY <1>1, <1>2, <2>2, <3>2, OtherEntryReadAlike
  <2>3. ASSUME NEW fact \in Entry, NEW entry \in Entry,
               ledger' = Append(Append(ledger, fact), entry)
        PROVE  ReadAlike(ledger, ledger', ct)
    <3> DEFINE logged == Append(ledger, fact)
    <3>1. /\ Len(logged) = Len(ledger) + 1 /\ logged[Len(ledger) + 1] = fact
          /\ logged \in Seq(Entry)
      BY <1>2, AppendFacts
    <3> HIDE DEF logged
    <3>2. /\ Len(ledger') = Len(logged) + 1 /\ ledger'[Len(logged) + 1] = entry
          /\ \A i \in 1 .. Len(logged) : ledger'[i] = logged[i]
      BY <2>3, <3>1, AppendFacts DEF logged
    <3>3. fact.campaign_type # ct /\ entry.campaign_type # ct
      BY <1>2, <3>1, <3>2
    <3> HIDE DEF ct
    <3>4. Grounded(logged) /\ ReadAlike(ledger, logged, ct)
      BY <1>1, <1>2, <3>3, OtherEntryReadAlike DEF logged
    <3>5. ReadAlike(logged, ledger', ct)
      BY <1>1, <2>3, <3>3, <3>4, OtherEntryReadAlike DEF logged
    <3> QED
      BY <3>4, <3>5 DEF ReadAlike
  <2> QED
    BY <2>1, <2>2, <2>3, StepAppends, Zenon
<1>4. /\ TierOf(ledger', ct) = TierOf(ledger, ct)
      /\ SendsLast24h(ledger', ct, now) = SendsLast24h(ledger, ct, now)
  BY <1>3 DEF ReadAlike
<1>5. EffectiveTier(ledger, ct)' = EffectiveTier(ledger, ct)
  BY <1>4 DEF EffectiveTier
<1>6. SendsLast24h(ledger, ct, now)' = SendsLast24h(ledger, ct, now)
  BY <1>4
<1> QED
  BY <1>5, <1>6 DEF RunFact

\* Types earn and lose autonomy separately (domain.py:22): for any inputs and
\* gates, a call that records nothing for a type leaves what its next run would
\* get, tier, decision and evidence class, as it was.
THEOREM TypesDoNotTouch == Spec => TypesIndependent
<1>1. IInv /\ [Next]_vars => Independent
  BY IndependentStep
<1> QED
  BY <1>1, Invariance, PTL DEF Spec, TypesIndependent, Independent

-----------------------------------------------------------------------------
(***************************************************************************)
(* The replay.  The closed form satisfies the recursion of the fold, which *)
(* shows that a function satisfying it exists; where two such functions    *)
(* differed there would be a least prefix on which they differ, and the    *)
(* recursion leads below it.                                               *)
(***************************************************************************)

\* A set of naturals that is not empty has a least member.
LEMMA LeastOne ==
  ASSUME NEW T \in SUBSET Nat, T # {}
  PROVE  \E m \in T : \A k \in T : m <= k
<1> DEFINE R == OpToRel(<, Nat)
<1>1. IsWellFoundedOn(R, Nat)
  BY NatLessThanWellFounded, Zenon
<1>2. \A i, j \in Nat : <<i, j>> \in R <=> i < j
  BY DEF OpToRel
<1> HIDE DEF R
<1>3. PICK m \in T : \A k \in T : ~(<<k, m>> \in R)
  BY <1>1, WFMin
<1>4. m \in Nat /\ \A k \in T : k \in Nat
  OBVIOUS
<1>5. \A k \in T : ~(k < m)
  BY <1>2, <1>3, <1>4, Zenon
<1> QED
  BY <1>4, <1>5

StateAt(log, ct, n) ==
  [tier     |-> TierAt(log, ct, n),
   standing |-> StandingAt(log, ct, n),
   cooldown |-> CooldownAt(log, ct, n)]

Replayed(log, ct, before, n) ==
  IF log[n].campaign_type = ct THEN ReplayStep(before, log[n]) ELSE before

\* Nothing recorded: supervised by hand, active, nothing to serve.
LEMMA StartOfReplay ==
  ASSUME NEW log, Grounded(log), NEW ct \in CampaignTypes
  PROVE  StateAt(log, ct, 0) = InitialState
<1>1. 0 \in 0 .. Len(log)
  BY DEF Grounded
<1>2. LastTransition(log, ct, 0) = 0
  BY <1>1, LastIsTransition
<1> QED
  BY <1>2 DEF StateAt, TierAt, StandingAt, CooldownAt, InitialState

\* The state after a prefix is one step of the fold past the state before its
\* last entry.
LEMMA StepOfReplay ==
  ASSUME NEW log, Grounded(log), NEW ct \in CampaignTypes, NEW n \in 1 .. Len(log)
  PROVE  StateAt(log, ct, n) = Replayed(log, ct, StateAt(log, ct, n - 1), n)
<1> DEFINE entry == log[n]
           last  == LastTransition(log, ct, n - 1)
<1>1. /\ log \in Seq(Entry) /\ Len(log) \in Nat /\ n \in Nat
      /\ n \in 0 .. Len(log) /\ n - 1 \in 0 .. Len(log) /\ entry \in Entry
  BY DEF Grounded
<1>2. TransitionsUpTo(log, ct, n) =
        IF IsTransition(entry, ct) THEN TransitionsUpTo(log, ct, n - 1) \cup {n}
                                   ELSE TransitionsUpTo(log, ct, n - 1)
  <2>1. 1 .. n = (1 .. (n - 1)) \cup {n}
    BY <1>1
  <2> QED
    BY <2>1 DEF TransitionsUpTo
<1>3. CASE IsTransition(entry, ct)
  <2>1. LastTransition(log, ct, n) = n
    <3>1. n \in TransitionsUpTo(log, ct, n)
      BY <1>2, <1>3
    <3>2. LastTransition(log, ct, n) \in 0 .. n /\ n <= LastTransition(log, ct, n)
      BY <1>1, <3>1, LastIsTransition
    <3> QED
      BY <1>1, <3>2
  <2>2. RunsBetween(log, ct, n, n) = {}
    BY <1>1 DEF RunsBetween
  <2>3. Cardinality(RunsBetween(log, ct, n, n)) = 0
    BY <2>2, FS_EmptySet
  <2>4. entry.cooldown_after \in Nat
    BY <1>1, <1>3 DEF IsTransition, Entry, RunEntry, OutcomeEntry, TransitionEntry
  <2>5. n # 0
    BY <1>1
  <2>6. TierAt(log, ct, n) = entry.to_tier /\ StandingAt(log, ct, n) = entry.standing_after
    BY <2>1, <2>5 DEF TierAt, StandingAt
  <2>7. CooldownAt(log, ct, n) =
          IF entry.cooldown_after <= 0 THEN 0 ELSE entry.cooldown_after - 0
    BY <2>1, <2>3, <2>5 DEF CooldownAt
  <2>8. CooldownAt(log, ct, n) = entry.cooldown_after
    BY <2>4, <2>7
  <2> HIDE DEF entry
  <2> QED
    BY <1>3, <2>6, <2>8 DEF StateAt, Replayed, ReplayStep, IsTransition, entry
<1>4. CASE ~IsTransition(entry, ct)
  <2> DEFINE before == Cardinality(RunsBetween(log, ct, last, n - 1))
             after  == Cardinality(RunsBetween(log, ct, last, n))
  <2>1. LastTransition(log, ct, n) = last
    BY <1>2, <1>4 DEF LastTransition
  <2>2. /\ TierAt(log, ct, n) = TierAt(log, ct, n - 1)
        /\ StandingAt(log, ct, n) = StandingAt(log, ct, n - 1)
    BY <2>1 DEF TierAt, StandingAt
  <2>3. last \in TransitionsUpTo(log, ct, n - 1) \cup {0} /\ last \in 0 .. n - 1
    BY <1>1, LastIsTransition
  <2>4. last # 0 => log[last].cooldown_after \in Nat
    BY <1>1, <2>3 DEF TransitionsUpTo, IsTransition, Entry, RunEntry,
                OutcomeEntry, TransitionEntry
  <2>5. RunsBetween(log, ct, last, n) =
          IF IsRun(entry, ct) THEN RunsBetween(log, ct, last, n - 1) \cup {n}
                              ELSE RunsBetween(log, ct, last, n - 1)
    <3>1. (last + 1) .. n = ((last + 1) .. (n - 1)) \cup {n}
      BY <1>1, <2>3
    <3> QED
      BY <3>1 DEF RunsBetween
  <2>6. IsFiniteSet(RunsBetween(log, ct, last, n - 1)) /\ before \in Nat
    BY <1>1, <2>3, RunsFinite
  <2>7. n \notin RunsBetween(log, ct, last, n - 1)
    BY <1>1 DEF RunsBetween
  <2>8. after = IF IsRun(entry, ct) THEN before + 1 ELSE before
    BY <2>5, <2>6, <2>7, FS_AddElement
  <2> DEFINE active == StandingAt(log, ct, n - 1) = "active"
             used(count) == IF active THEN count ELSE 0
             left(count) == IF last = 0 THEN 0
                            ELSE IF log[last].cooldown_after <= used(count) THEN 0
                            ELSE log[last].cooldown_after - used(count)
  <2>9. CooldownAt(log, ct, n - 1) = left(before)
    BY DEF CooldownAt
  <2>10. CooldownAt(log, ct, n) = left(after)
    BY <2>1, <2>2 DEF CooldownAt
  <2> HIDE DEF before, after, last
  <2>11. left(after) = IF IsRun(entry, ct) /\ active /\ left(before) > 0
                         THEN left(before) - 1 ELSE left(before)
    BY <2>4, <2>6, <2>8
  <2> HIDE DEF left, active, entry
  <2>12. CooldownAt(log, ct, n) =
           IF IsRun(entry, ct) /\ active /\ CooldownAt(log, ct, n - 1) > 0
           THEN CooldownAt(log, ct, n - 1) - 1 ELSE CooldownAt(log, ct, n - 1)
    BY <2>9, <2>10, <2>11
  <2>13. entry.campaign_type = ct => entry.kind # "transition"
    BY <1>4 DEF IsTransition
  <2>14. CASE IsRun(entry, ct) /\ active /\ CooldownAt(log, ct, n - 1) > 0
    BY <2>2, <2>12, <2>13, <2>14
       DEF StateAt, Replayed, ReplayStep, IsRun, entry, active
  <2>15. CASE ~(IsRun(entry, ct) /\ active /\ CooldownAt(log, ct, n - 1) > 0)
    BY <2>2, <2>12, <2>13, <2>15
       DEF StateAt, Replayed, ReplayStep, IsRun, entry, active
  <2> QED
    BY <2>14, <2>15
<1> QED
  BY <1>3, <1>4

\* Two functions that satisfy the recursion end alike.
Recurs(f, log, ct) ==
  /\ f[0] = InitialState
  /\ \A n \in 1 .. Len(log) : f[n] = Replayed(log, ct, f[n - 1], n)

LEMMA ReplayIsUnique ==
  ASSUME NEW log, Len(log) \in Nat, NEW ct,
         NEW f, Recurs(f, log, ct), NEW g, Recurs(g, log, ct)
  PROVE  f[Len(log)] = g[Len(log)]
<1> DEFINE T == {n \in 0 .. Len(log) : f[n] # g[n]}
<1>1. CASE T # {}
  <2>1. T \in SUBSET Nat
    OBVIOUS
  <2>2. PICK m \in T : \A k \in T : m <= k
    <3> HIDE DEF T
    <3> QED
      BY <1>1, <2>1, LeastOne
  <2>3. m \in 0 .. Len(log) /\ f[m] # g[m]
    OBVIOUS
  <2>4. m \in 1 .. Len(log) /\ m - 1 \in 0 .. Len(log) /\ m - 1 < m
    BY <2>3 DEF Recurs
  <2>5. f[m - 1] = g[m - 1]
    BY <2>2, <2>4
  <2> QED
    BY <2>3, <2>4, <2>5 DEF Recurs
<1>2. CASE T = {}
  BY <1>2
<1> QED
  BY <1>1, <1>2

LEMMA ReplayFolds ==
  ASSUME NEW log, Grounded(log), NEW ct \in CampaignTypes
  PROVE  Reconstruct(log, ct) = StateAt(log, ct, Len(log))
<1> DEFINE Solves(f) ==
             f = [n \in 0 .. Len(log) |->
                    IF n = 0 THEN InitialState ELSE Replayed(log, ct, f[n - 1], n)]
           closed == [n \in 0 .. Len(log) |-> StateAt(log, ct, n)]
           replay == CHOOSE f : Solves(f)
<1>1. Len(log) \in Nat
  BY DEF Grounded
<1>2. Solves(closed)
  <2>1. ASSUME NEW n \in 0 .. Len(log)
        PROVE  StateAt(log, ct, n) =
                 IF n = 0 THEN InitialState ELSE Replayed(log, ct, closed[n - 1], n)
    <3>1. CASE n = 0
      BY <3>1, StartOfReplay
    <3>2. CASE n # 0
      <4>1. n \in 1 .. Len(log) /\ n - 1 \in 0 .. Len(log)
        BY <1>1, <3>2
      <4>2. closed[n - 1] = StateAt(log, ct, n - 1)
        BY <4>1
      <4> QED
        BY <3>2, <4>1, <4>2, StepOfReplay
    <3> QED
      BY <3>1, <3>2
  <2> QED
    BY <2>1
<1> HIDE DEF closed
<1>3. Solves(replay)
  BY <1>2
<1>4. Reconstruct(log, ct) = replay[Len(log)]
  BY DEF Reconstruct, Replayed
<1> HIDE DEF replay
<1>5. replay[Len(log)] = closed[Len(log)]
  <2>1. ASSUME NEW f, Solves(f) PROVE Recurs(f, log, ct)
    BY <1>1, <2>1 DEF Recurs
  <2>2. Recurs(replay, log, ct) /\ Recurs(closed, log, ct)
    <3> HIDE DEF Solves
    <3> QED
      BY <1>2, <1>3, <2>1
  <2> HIDE DEF Solves
  <2> QED
    BY <1>1, <2>2, ReplayIsUnique
<1> QED
  BY <1>1, <1>4, <1>5 DEF closed

\* The state shown for a type is the one the fold of its ledger gives, after
\* any history of calls and restarts: no reader and no replay ever disagree.
THEOREM ReplaysAgree == Spec => []ReplayIsFold
<1>1. IInv => ReplayIsFold
  BY ReplayFolds DEF IInv, Sound, ReplayIsFold, StateAt, TierOf, StandingOf, CooldownOf
<1> QED
  BY <1>1, Invariance, PTL

=============================================================================
