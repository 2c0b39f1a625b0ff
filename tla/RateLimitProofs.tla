-------------------------- MODULE RateLimitProofs --------------------------
(***************************************************************************)
(* The rate limit, for every cap, window, set of timestamps and order of   *)
(* calls.  The code counts the sends stamped at or after now - 24h with no *)
(* upper end, so a send recorded earlier under a later timestamp counts    *)
(* too; that is what makes the limit hold for timestamps in any order.     *)
(***************************************************************************)
EXTENDS ControllerProofs

LEMMA SendsFinite ==
  ASSUME NEW log \in Seq(Entry), NEW ct, NEW cutoff
  PROVE  IsFiniteSet(SendsSince(log, ct, cutoff))
<1>1. SendsSince(log, ct, cutoff) \subseteq 1 .. Len(log)
  BY DEF SendsSince
<1>2. IsFiniteSet(1 .. Len(log))
  BY FS_Interval
<1> QED
  BY <1>1, <1>2, FS_Subset

\* The sends of an interval are among those its last one counted.
LEMMA IntervalWithinWindow ==
  ASSUME NEW log \in Seq(Entry), NEW ct, NEW end \in Int, NEW now \in Int, now <= end
  PROVE  SendsDuring(log, ct, end) \subseteq SendsSince(log, ct, now - Day)
<1> SUFFICES ASSUME NEW i \in SendsDuring(log, ct, end)
             PROVE  i \in SendsSince(log, ct, now - Day)
  OBVIOUS
<1>1. i \in DOMAIN log /\ IsAutoSend(log[i], ct) /\ log[i].ts >= end - Day
  BY DEF SendsDuring
<1>2. log[i].ts \in Int
  BY <1>1 DEF Entry, RunEntry, TransitionEntry, OutcomeEntry
<1>3. log[i].ts >= now - Day
  BY <1>1, <1>2, ConfigAssumption
<1> QED
  BY <1>1, <1>3 DEF SendsSince

Limited(log) ==
  \A ct \in CampaignTypes, end \in Times :
    Cardinality(SendsDuring(log, ct, end)) <= MaxSendsPer24h

\* An entry that is a send only below the cap may be appended.
BelowCap(log, entry) ==
  \A ct \in CampaignTypes :
    IsAutoSend(entry, ct) => SendsLast24h(log, ct, entry.ts) < MaxSendsPer24h

LEMMA LimitedAppend ==
  ASSUME NEW log \in Seq(Entry), Limited(log),
         NEW entry \in Entry, BelowCap(log, entry)
  PROVE  Limited(Append(log, entry))
<1> DEFINE more == Append(log, entry)
           n    == Len(log)
<1> SUFFICES ASSUME NEW ct \in CampaignTypes, NEW end \in Times
             PROVE  Cardinality(SendsDuring(more, ct, end)) <= MaxSendsPer24h
  BY DEF Limited
<1>1. /\ n \in Nat /\ DOMAIN log = 1 .. n /\ DOMAIN more = 1 .. n + 1
      /\ \A i \in 1 .. n : more[i] = log[i]
      /\ more[n + 1] = entry
  BY AppendFacts
<1>2. end \in Int /\ entry.ts \in Int /\ MaxSendsPer24h \in Nat
  BY InputAssumption, ConstraintsAssumption DEF Entry, RunEntry, TransitionEntry, OutcomeEntry
<1>3. Cardinality(SendsDuring(log, ct, end)) <= MaxSendsPer24h
  BY DEF Limited
<1> DEFINE inside == IsAutoSend(entry, ct) /\ entry.ts >= end - Day /\ entry.ts <= end
<1>4. CASE ~inside
  <2>1. SendsDuring(more, ct, end) = SendsDuring(log, ct, end)
    BY <1>1, <1>4 DEF SendsDuring
  <2> QED
    BY <1>3, <2>1
<1>5. CASE inside
  <2> DEFINE counted == SendsSince(log, ct, entry.ts - Day)
             old     == SendsDuring(log, ct, end)
  <2>1. Cardinality(counted) < MaxSendsPer24h
    BY <1>5 DEF BelowCap, SendsLast24h
  <2>2. old \subseteq counted
    BY <1>2, <1>5, IntervalWithinWindow
  <2>3. IsFiniteSet(counted)
    BY SendsFinite
  <2>4. /\ IsFiniteSet(old) /\ Cardinality(old) <= Cardinality(counted)
        /\ Cardinality(old) \in Nat /\ Cardinality(counted) \in Nat
    BY <2>2, <2>3, FS_Subset, FS_CardinalityType
  <2>5. SendsDuring(more, ct, end) = old \cup {n + 1}
    BY <1>1, <1>5 DEF SendsDuring
  <2>6. n + 1 \notin old
    BY <1>1 DEF SendsDuring
  <2>7. Cardinality(SendsDuring(more, ct, end)) = Cardinality(old) + 1
    BY <2>4, <2>5, <2>6, FS_AddElement
  <2> HIDE DEF counted, old, more
  <2> QED
    BY <1>2, <2>1, <2>4, <2>7
<1> QED
  BY <1>4, <1>5

LEMMA OtherBelowCap ==
  ASSUME NEW log, NEW entry, entry.kind # "run"
  PROVE  BelowCap(log, entry)
  BY DEF BelowCap, IsAutoSend, IsRun

\* process_run routes a run to a send only below the cap.
LEMMA RunBelowCap ==
  ASSUME NEW log \in Seq(Entry), NEW evaluation \in Evaluations, NEW now \in Times
  PROVE  BelowCap(log, RunFact(log, evaluation, now))
<1> DEFINE run   == RunFact(log, evaluation, now)
           type  == evaluation.campaign_type
           sends == SendsLast24h(log, type, now)
<1> SUFFICES ASSUME NEW ct \in CampaignTypes, IsAutoSend(run, ct)
             PROVE  SendsLast24h(log, ct, run.ts) < MaxSendsPer24h
  BY DEF BelowCap
<1>1. run.campaign_type = type /\ run.ts = now
  BY DEF RunFact
<1>2. run.decision = "auto_send" => AutoSends(evaluation, EffectiveTier(log, type), sends)
  BY DEF RunFact, Decide
<1>3. ct = type /\ AutoSends(evaluation, EffectiveTier(log, type), sends)
  BY <1>1, <1>2 DEF IsAutoSend, IsRun
<1>4. CheckRateLimit(sends) = {}
  BY <1>3 DEF AutoSends, Violations
<1>5. ~(sends >= MaxSendsPer24h)
  BY <1>4 DEF CheckRateLimit
<1>6. sends \in Nat /\ MaxSendsPer24h \in Nat
  BY SendsFinite, FS_CardinalityType, ConstraintsAssumption DEF SendsLast24h
<1> QED
  BY <1>1, <1>3, <1>5, <1>6

LEMMA NextLimited ==
  ASSUME IInv, Limited(ledger), [Next]_vars
  PROVE  Limited(ledger')
<1>1. Sound(ledger) /\ ledger \in Seq(Entry) /\ ceiling \in Tier
  BY DEF IInv, Sound, Grounded
<1>2. \A ct, now, reason : Demotion(ledger, ct, now, reason).kind # "run"
  BY DEF Demotion, Transition
<1>3. \A log, ct, now : Promotion(log, ct, now).kind # "run"
  BY DEF Promotion, Transition
<1>4. \A ct, score, now : ChallengeVerdict(ledger, ct, score, now).kind # "run"
  BY DEF ChallengeVerdict, Transition
<1>5. IInv'
  BY NextIInv
<1>6. ASSUME NEW logged \in Seq(Entry), Limited(logged),
             NEW entry, ledger' = Append(logged, entry), entry.kind # "run"
      PROVE  Limited(ledger')
  <2>1. /\ Len(ledger') = Len(logged) + 1 /\ Len(logged) \in Nat
        /\ ledger'[Len(logged) + 1] = entry
    BY <1>6
  <2>2. ledger' \in Seq(Entry) /\ Len(logged) + 1 \in 1 .. Len(ledger')
    BY <1>5, <2>1 DEF IInv, Sound, Grounded
  <2>3. entry \in Entry
    BY <2>1, <2>2
  <2> QED
    BY <1>6, <2>3, LimitedAppend, OtherBelowCap
<1>7. ASSUME NEW evaluation \in Evaluations, NEW now \in Times,
             ProcessRun(evaluation, now)
      PROVE  Limited(ledger')
  <2> DEFINE run    == RunFact(ledger, evaluation, now)
             logged == Append(ledger, run)
  <2>1. run \in Entry
    BY <1>1, RunMayFollow
  <2>2. BelowCap(ledger, run)
    BY <1>1, RunBelowCap
  <2> HIDE DEF run
  <2>3. Limited(logged) /\ logged \in Seq(Entry)
    BY <1>1, <2>1, <2>2, LimitedAppend, AppendFacts
  <2>4. \/ ledger' = logged
        \/ \E entry : ledger' = Append(logged, entry) /\ entry.kind # "run"
    BY <1>2, <1>3, <1>7, Zenon DEF ProcessRun, run
  <2> HIDE DEF logged
  <2> QED
    BY <1>6, <2>3, <2>4 DEF Limited
<1>8. ASSUME NEW report \in Reports, NEW now \in Times,
             ProcessDeliverability(report, now)
      PROVE  Limited(ledger')
  <2> DEFINE fact   == OutcomeFact(ledger, report, now)
             logged == Append(ledger, fact)
  <2>1. fact \in Entry /\ fact.kind # "run"
    BY OutcomeMayFollow DEF OutcomeFact
  <2> HIDE DEF fact
  <2>2. Limited(logged) /\ logged \in Seq(Entry)
    BY <1>1, <2>1, OtherBelowCap, LimitedAppend, AppendFacts
  <2>3. \/ ledger' = logged
        \/ \E entry : ledger' = Append(logged, entry) /\ entry.kind # "run"
    BY <1>2, <1>8, Zenon DEF ProcessDeliverability, fact
  <2> HIDE DEF logged
  <2> QED
    BY <1>6, <2>2, <2>3 DEF Limited
<1>9. ASSUME NEW ct \in CampaignTypes, NEW score \in Challenges, NEW now \in Times,
             RunProbationChallenge(ct, score, now)
      PROVE  Limited(ledger')
  BY <1>1, <1>4, <1>6, <1>9 DEF RunProbationChallenge, Limited
<1>10. CASE Restart \/ UNCHANGED vars
  BY <1>10 DEF Restart, vars
<1> QED
  BY <1>7, <1>8, <1>9, <1>10 DEF Next

\* The runaway-loop limit holds for every cap and every order of timestamps.
THEOREM RateLimitHolds == Spec => []RateLimit
<1>1. Init => Limited(ledger)
  <2> SUFFICES ASSUME Init, NEW ct \in CampaignTypes, NEW end \in Times
               PROVE  Cardinality(SendsDuring(ledger, ct, end)) <= MaxSendsPer24h
    BY DEF Limited
  <2>1. SendsDuring(ledger, ct, end) = {}
    BY DEF Init, SendsDuring
  <2> QED
    BY <2>1, FS_EmptySet, ConstraintsAssumption
<1>2. IInv /\ Limited(ledger) /\ [Next]_vars => Limited(ledger)'
  BY NextLimited DEF Limited, SendsDuring
<1>3. Limited(ledger) <=> RateLimit
  BY DEF Limited, RateLimit
<1> QED
  BY <1>1, <1>2, <1>3, Invariance, PTL DEF Spec
=============================================================================
