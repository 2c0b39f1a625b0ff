-------------------------- MODULE ControllerProofs --------------------------
(***************************************************************************)
(* Theorems about the controller, for every value of the constants.        *)
(*                                                                         *)
(* The lemmas first say how the queries of Ledger.tla react to one more    *)
(* entry: what they say of a prefix never changes, and what they say of    *)
(* the whole log changes only with the entry's kind and type.              *)
(***************************************************************************)
EXTENDS Controller, FiniteSetTheorems, TLAPS

(***************************************************************************)
(* LastTransition is a CHOOSE, so every fact about it needs the existence  *)
(* of a largest transition in every prefix.  That is an induction over the *)
(* log; the induction is carried by the invariant Grounded itself.         *)
(***************************************************************************)
HasLast(log, ct, k) ==
  \E i \in TransitionsUpTo(log, ct, k) \cup {0} :
    \A j \in TransitionsUpTo(log, ct, k) : j <= i

Grounded(log) ==
  /\ log \in Seq(Entry)
  /\ \A ct \in CampaignTypes : \A k \in 0 .. Len(log) : HasLast(log, ct, k)

\* The last transition of a prefix is one of its transitions, or 0.
LEMMA LastIsTransition ==
  ASSUME NEW log, Grounded(log), NEW ct \in CampaignTypes, NEW k \in 0 .. Len(log)
  PROVE  /\ LastTransition(log, ct, k) \in TransitionsUpTo(log, ct, k) \cup {0}
         /\ \A j \in TransitionsUpTo(log, ct, k) : j <= LastTransition(log, ct, k)
         /\ LastTransition(log, ct, k) \in 0 .. k
<1>1. HasLast(log, ct, k)
  BY DEF Grounded
<1>2. /\ LastTransition(log, ct, k) \in TransitionsUpTo(log, ct, k) \cup {0}
      /\ \A j \in TransitionsUpTo(log, ct, k) : j <= LastTransition(log, ct, k)
  BY <1>1 DEF HasLast, LastTransition
<1>3. TransitionsUpTo(log, ct, k) \subseteq 1 .. k
  BY DEF TransitionsUpTo
<1>4. k \in Nat
  BY DEF Grounded
<1> QED
  BY <1>2, <1>3, <1>4

\* What a prefix replays to is a tier and a standing.
LEMMA StateTyped ==
  ASSUME NEW log, Grounded(log), NEW ct \in CampaignTypes, NEW k \in 0 .. Len(log)
  PROVE  TierAt(log, ct, k) \in Tier /\ StandingAt(log, ct, k) \in Standing
<1> DEFINE last == LastTransition(log, ct, k)
<1>1. last \in TransitionsUpTo(log, ct, k) \cup {0} /\ last \in 0 .. k
  BY LastIsTransition
<1>2. CASE last = 0
  BY <1>2 DEF TierAt, StandingAt, Tier, Standing, ASSIST, SUPERVISED
<1>3. CASE last # 0
  <2>1. log[last] \in Entry /\ log[last].kind = "transition"
    BY <1>1, <1>3 DEF Grounded, TransitionsUpTo, IsTransition
  <2>2. log[last] \in TransitionEntry
    BY <2>1 DEF Entry, RunEntry, TransitionEntry, OutcomeEntry
  <2>3. log[last].to_tier \in Tier /\ log[last].standing_after \in Standing
    BY <2>2 DEF TransitionEntry
  <2> QED
    BY <2>3, <1>3 DEF TierAt, StandingAt
<1> QED
  BY <1>2, <1>3

-----------------------------------------------------------------------------
(***************************************************************************)
(* One more entry.                                                         *)
(***************************************************************************)
LEMMA AppendFacts ==
  ASSUME NEW log \in Seq(Entry), NEW entry \in Entry
  PROVE  /\ Append(log, entry) \in Seq(Entry)
         /\ Len(Append(log, entry)) = Len(log) + 1
         /\ Len(log) \in Nat
         /\ DOMAIN log = 1 .. Len(log)
         /\ DOMAIN Append(log, entry) = 1 .. Len(log) + 1
         /\ \A i \in 1 .. Len(log) : Append(log, entry)[i] = log[i]
         /\ Append(log, entry)[Len(log) + 1] = entry
  OBVIOUS

\* A prefix has the same transitions in the longer log.
LEMMA PrefixTransitions ==
  ASSUME NEW log \in Seq(Entry), NEW entry \in Entry, NEW ct,
         NEW k \in 0 .. Len(log)
  PROVE  TransitionsUpTo(Append(log, entry), ct, k) = TransitionsUpTo(log, ct, k)
  BY AppendFacts DEF TransitionsUpTo

LEMMA NewTransitions ==
  ASSUME NEW log \in Seq(Entry), NEW entry \in Entry, NEW ct
  PROVE  TransitionsUpTo(Append(log, entry), ct, Len(log) + 1) =
           TransitionsUpTo(log, ct, Len(log)) \cup
             {i \in {Len(log) + 1} : IsTransition(entry, ct)}
<1>1. 1 .. Len(log) + 1 = (1 .. Len(log)) \cup {Len(log) + 1}
  BY AppendFacts
<1> QED
  BY <1>1, AppendFacts DEF TransitionsUpTo

LEMMA AppendGrounded ==
  ASSUME NEW log, Grounded(log), NEW entry \in Entry
  PROVE  Grounded(Append(log, entry))
<1> DEFINE more == Append(log, entry)
           n    == Len(log)
<1>1. log \in Seq(Entry) /\ n \in Nat /\ Len(more) = n + 1 /\ more \in Seq(Entry)
  BY AppendFacts DEF Grounded
<1>2. ASSUME NEW ct \in CampaignTypes, NEW k \in 0 .. n + 1
      PROVE  HasLast(more, ct, k)
  <2>1. CASE k \in 0 .. n
    BY <1>1, <2>1, PrefixTransitions DEF HasLast, Grounded
  <2>2. CASE k = n + 1 /\ IsTransition(entry, ct)
    <3>1. TransitionsUpTo(more, ct, k) =
            TransitionsUpTo(log, ct, n) \cup {n + 1}
      BY <1>1, <2>2, NewTransitions
    <3>2. \A j \in TransitionsUpTo(log, ct, n) \cup {n + 1} : j <= n + 1
      BY <1>1 DEF TransitionsUpTo
    <3>3. n + 1 \in TransitionsUpTo(more, ct, k) \cup {0}
      BY <3>1
    <3> HIDE DEF more, n
    <3> QED
      BY <3>1, <3>2, <3>3 DEF HasLast
  <2>3. CASE k = n + 1 /\ ~IsTransition(entry, ct)
    <3>1. {i \in {n + 1} : IsTransition(entry, ct)} = {}
      BY <2>3
    <3>2. TransitionsUpTo(more, ct, n + 1) =
            TransitionsUpTo(log, ct, n) \cup {i \in {n + 1} : IsTransition(entry, ct)}
      BY <1>1, NewTransitions
    <3>3. HasLast(log, ct, n)
      BY <1>1 DEF Grounded
    <3> QED
      BY <2>3, <3>1, <3>2, <3>3, Zenon DEF HasLast
  <2> QED
    BY <1>1, <2>1, <2>2, <2>3
<1> QED
  BY <1>1, <1>2 DEF Grounded

-----------------------------------------------------------------------------
(***************************************************************************)
(* The state a type has after one more entry.                              *)
(***************************************************************************)

\* The past does not change: a prefix replays to the same state.
LEMMA PrefixState ==
  ASSUME NEW log, Grounded(log), NEW entry \in Entry, NEW ct \in CampaignTypes,
         NEW k \in 0 .. Len(log)
  PROVE  /\ LastTransition(Append(log, entry), ct, k) = LastTransition(log, ct, k)
         /\ TierAt(Append(log, entry), ct, k) = TierAt(log, ct, k)
         /\ StandingAt(Append(log, entry), ct, k) = StandingAt(log, ct, k)
<1> DEFINE more == Append(log, entry)
           last == LastTransition(log, ct, k)
<1>1. log \in Seq(Entry)
  BY DEF Grounded
<1>2. TransitionsUpTo(more, ct, k) = TransitionsUpTo(log, ct, k)
  BY <1>1, PrefixTransitions
<1>3. LastTransition(more, ct, k) = last
  BY <1>2 DEF LastTransition
<1>4. last \in 0 .. k
  BY LastIsTransition
<1>5. last # 0 => more[last] = log[last]
  BY <1>1, <1>4, AppendFacts
<1> QED
  BY <1>3, <1>5 DEF TierAt, StandingAt

\* Only its own transitions move a type.
LEMMA OtherEntryKeepsState ==
  ASSUME NEW log, Grounded(log), NEW entry \in Entry, NEW ct \in CampaignTypes,
         ~IsTransition(entry, ct)
  PROVE  /\ LastTransition(Append(log, entry), ct, Len(log) + 1) =
              LastTransition(log, ct, Len(log))
         /\ TierOf(Append(log, entry), ct) = TierOf(log, ct)
         /\ StandingOf(Append(log, entry), ct) = StandingOf(log, ct)
<1> DEFINE more == Append(log, entry)
           n    == Len(log)
           last == LastTransition(log, ct, n)
<1>1. log \in Seq(Entry) /\ n \in Nat /\ Len(more) = n + 1
  BY AppendFacts DEF Grounded
<1>2. {i \in {n + 1} : IsTransition(entry, ct)} = {}
  OBVIOUS
<1>3. TransitionsUpTo(more, ct, n + 1) =
        TransitionsUpTo(log, ct, n) \cup {i \in {n + 1} : IsTransition(entry, ct)}
  BY <1>1, NewTransitions
<1>4. TransitionsUpTo(more, ct, n + 1) = TransitionsUpTo(log, ct, n)
  BY <1>2, <1>3
<1>5. LastTransition(more, ct, n + 1) = last
  BY <1>4 DEF LastTransition
<1>6. last \in 0 .. n
  BY <1>1, LastIsTransition
<1>7. last # 0 => more[last] = log[last]
  BY <1>1, <1>6, AppendFacts
<1> QED
  BY <1>1, <1>5, <1>7 DEF TierAt, StandingAt, TierOf, StandingOf

\* A transition sets the state to what it records.
LEMMA TransitionSetsState ==
  ASSUME NEW log, Grounded(log), NEW entry \in Entry, NEW ct \in CampaignTypes,
         IsTransition(entry, ct)
  PROVE  /\ TierOf(Append(log, entry), ct) = entry.to_tier
         /\ StandingOf(Append(log, entry), ct) = entry.standing_after
         /\ CooldownOf(Append(log, entry), ct) = entry.cooldown_after
<1> DEFINE more == Append(log, entry)
           n    == Len(log)
           last == LastTransition(more, ct, n + 1)
<1>1. log \in Seq(Entry) /\ n \in Nat /\ Len(more) = n + 1 /\ more[n + 1] = entry
  BY AppendFacts DEF Grounded
<1>2. Grounded(more)
  BY AppendGrounded
<1>3. n + 1 \in TransitionsUpTo(more, ct, n + 1)
  BY <1>1 DEF TransitionsUpTo
<1>4. last \in 0 .. n + 1 /\ \A j \in TransitionsUpTo(more, ct, n + 1) : j <= last
  <2>1. n + 1 \in 0 .. Len(more)
    BY <1>1
  <2> HIDE DEF more, n
  <2> QED
    BY <1>2, <2>1, LastIsTransition
<1>5. last = n + 1
  BY <1>1, <1>3, <1>4
<1>6. entry.cooldown_after \in Nat
  BY DEF IsTransition, Entry, RunEntry, OutcomeEntry, TransitionEntry
<1>7. RunsBetween(more, ct, n + 1, n + 1) = {}
  BY <1>1 DEF RunsBetween
<1>8. Cardinality(RunsBetween(more, ct, n + 1, n + 1)) = 0
  BY <1>7, FS_EmptySet
<1>9. last # 0 /\ more[last] = entry
  BY <1>1, <1>5
<1>10. TierOf(more, ct) = entry.to_tier /\ StandingOf(more, ct) = entry.standing_after
  BY <1>1, <1>9 DEF TierAt, StandingAt, TierOf, StandingOf
<1>11. CooldownOf(more, ct) =
         IF entry.cooldown_after <= 0 THEN 0 ELSE entry.cooldown_after - 0
  BY <1>1, <1>5, <1>8, <1>9 DEF CooldownAt, CooldownOf
<1> QED
  BY <1>6, <1>10, <1>11

-----------------------------------------------------------------------------
(***************************************************************************)
(* Cooldown.                                                               *)
(***************************************************************************)
LEMMA RunsFinite ==
  ASSUME NEW log, NEW ct, NEW i \in Int, NEW k \in Int
  PROVE  /\ IsFiniteSet(RunsBetween(log, ct, i, k))
         /\ Cardinality(RunsBetween(log, ct, i, k)) \in Nat
<1>1. RunsBetween(log, ct, i, k) \in SUBSET ((i + 1) .. k)
  BY DEF RunsBetween
<1>2. IsFiniteSet((i + 1) .. k)
  BY FS_Interval
<1> QED
  BY <1>1, <1>2, FS_Subset, FS_CardinalityType

LEMMA CooldownTyped ==
  ASSUME NEW log, Grounded(log), NEW ct \in CampaignTypes, NEW k \in 0 .. Len(log)
  PROVE  CooldownAt(log, ct, k) \in Nat
<1> DEFINE last == LastTransition(log, ct, k)
           served == Cardinality(RunsBetween(log, ct, last, k))
<1>1. last \in TransitionsUpTo(log, ct, k) \cup {0} /\ last \in 0 .. k
  BY LastIsTransition
<1>2. served \in Nat
  BY <1>1, RunsFinite
<1>3. last # 0 => log[last].cooldown_after \in Nat
  BY <1>1 DEF Grounded, TransitionsUpTo, IsTransition, Entry, RunEntry,
              OutcomeEntry, TransitionEntry
<1> HIDE DEF last, served
<1>4. CASE last = 0
  BY <1>4 DEF CooldownAt, last
<1>5. CASE last # 0
  <2> DEFINE used == IF StandingAt(log, ct, k) = "active" THEN served ELSE 0
  <2>1. used \in Nat
    BY <1>2
  <2>2. CooldownAt(log, ct, k) =
          IF log[last].cooldown_after <= used THEN 0
          ELSE log[last].cooldown_after - used
    BY <1>5 DEF CooldownAt, last, served
  <2> HIDE DEF used
  <2> QED
    BY <1>3, <1>5, <2>1, <2>2
<1> QED
  BY <1>4, <1>5

\* A run of the type uses up one unit of an active cooldown, and no other
\* entry but a transition changes it.
LEMMA RunServesCooldown ==
  ASSUME NEW log, Grounded(log), NEW entry \in Entry, NEW ct \in CampaignTypes,
         ~IsTransition(entry, ct)
  PROVE  CooldownOf(Append(log, entry), ct) =
           IF /\ IsRun(entry, ct)
              /\ StandingOf(log, ct) = "active"
              /\ CooldownOf(log, ct) > 0
           THEN CooldownOf(log, ct) - 1
           ELSE CooldownOf(log, ct)
<1> DEFINE more   == Append(log, entry)
           n      == Len(log)
           last   == LastTransition(log, ct, n)
           before == Cardinality(RunsBetween(log, ct, last, n))
           after  == Cardinality(RunsBetween(more, ct, last, n + 1))
<1>1. log \in Seq(Entry) /\ n \in Nat /\ Len(more) = n + 1 /\ n \in 0 .. n
  BY AppendFacts DEF Grounded
<1>2. last \in TransitionsUpTo(log, ct, n) \cup {0} /\ last \in 0 .. n
  BY <1>1, LastIsTransition
<1>3. LastTransition(more, ct, n + 1) = last
  BY OtherEntryKeepsState
<1>4. StandingAt(more, ct, n + 1) = StandingAt(log, ct, n)
  BY <1>1, OtherEntryKeepsState DEF StandingOf
<1>5. last # 0 => more[last] = log[last]
  BY <1>1, <1>2, AppendFacts
<1>6. last # 0 => log[last].cooldown_after \in Nat
  BY <1>1, <1>2 DEF TransitionsUpTo, IsTransition, Entry, RunEntry,
              OutcomeEntry, TransitionEntry
<1>7. RunsBetween(more, ct, last, n + 1) =
        IF IsRun(entry, ct) THEN RunsBetween(log, ct, last, n) \cup {n + 1}
                            ELSE RunsBetween(log, ct, last, n)
  BY <1>1, <1>2, AppendFacts DEF RunsBetween
<1>8. IsFiniteSet(RunsBetween(log, ct, last, n)) /\ before \in Nat
  BY <1>1, <1>2, RunsFinite
<1>9. n + 1 \notin RunsBetween(log, ct, last, n)
  BY <1>1 DEF RunsBetween
<1>10. after = IF IsRun(entry, ct) THEN before + 1 ELSE before
  BY <1>7, <1>8, <1>9, FS_AddElement
<1>11. CooldownOf(more, ct) = CooldownAt(more, ct, n + 1)
  BY <1>1 DEF CooldownOf
<1>12. CooldownOf(log, ct) = CooldownAt(log, ct, n) /\ StandingOf(log, ct) = StandingAt(log, ct, n)
  BY DEF CooldownOf, StandingOf
<1> DEFINE active == StandingAt(log, ct, n) = "active"
           used(count, a) == IF a THEN count ELSE 0
           left(count) == IF last = 0 THEN 0
                          ELSE IF log[last].cooldown_after <= used(count, active) THEN 0
                          ELSE log[last].cooldown_after - used(count, active)
<1>13. CooldownAt(log, ct, n) = left(before)
  BY DEF CooldownAt
<1>14. CooldownAt(more, ct, n + 1) = left(after)
  <2> HIDE DEF last, more, n
  <2>1. CASE last = 0
    BY <1>3, <2>1 DEF CooldownAt
  <2>2. CASE last # 0
    BY <1>3, <1>4, <1>5, <2>2 DEF CooldownAt
  <2> QED
    BY <2>1, <2>2
<1> HIDE DEF last, before, after, n
<1> QED
  BY <1>6, <1>8, <1>10, <1>11, <1>12, <1>13, <1>14

-----------------------------------------------------------------------------
(***************************************************************************)
(* The invariant of the ledger.  SendsWhileTrusted and TransitionChain are *)
(* not inductive alone: a transition follows the state its log replays to, *)
(* so Grounded is needed to know that state, and a send at a positive tier *)
(* is in good standing only because no tier survives outside it.           *)
(***************************************************************************)
TrustInStanding(log) ==
  \A ct \in CampaignTypes : StandingOf(log, ct) # "active" => TierOf(log, ct) = ASSIST

SendsTrusted(log) ==
  \A ct \in CampaignTypes : \A i \in DOMAIN log :
    IsAutoSend(log[i], ct) =>
      Trusted(log[i], TierAt(log, ct, i - 1), StandingAt(log, ct, i - 1))

Chained(log) ==
  \A ct \in CampaignTypes : \A i \in DOMAIN log :
    IsTransition(log[i], ct) =>
      Follows(log[i], TierAt(log, ct, i - 1), StandingAt(log, ct, i - 1))

Sound(log) ==
  Grounded(log) /\ TrustInStanding(log) /\ SendsTrusted(log) /\ Chained(log)

\* What an entry must satisfy to be appended.
MayFollow(log, entry) ==
  /\ entry \in Entry
  /\ \A ct \in CampaignTypes :
       /\ IsAutoSend(entry, ct) => Trusted(entry, TierOf(log, ct), StandingOf(log, ct))
       /\ IsTransition(entry, ct) => Follows(entry, TierOf(log, ct), StandingOf(log, ct))

\* Appending such an entry keeps the ledger sound.
LEMMA SoundAppend ==
  ASSUME NEW log, Sound(log), NEW entry, MayFollow(log, entry)
  PROVE  Sound(Append(log, entry))
<1> DEFINE more == Append(log, entry)
           n    == Len(log)
<1>1. Grounded(log) /\ entry \in Entry
  BY DEF Sound, MayFollow
<1>2. /\ log \in Seq(Entry) /\ n \in Nat /\ Len(more) = n + 1
      /\ DOMAIN log = 1 .. n /\ DOMAIN more = 1 .. n + 1
      /\ \A i \in 1 .. n : more[i] = log[i]
      /\ more[n + 1] = entry
  BY <1>1, AppendFacts DEF Grounded
<1>3. Grounded(more)
  BY <1>1, AppendGrounded
<1>4. TrustInStanding(more)
  <2> SUFFICES ASSUME NEW ct \in CampaignTypes, StandingOf(more, ct) # "active"
               PROVE  TierOf(more, ct) = ASSIST
    BY DEF TrustInStanding
  <2>1. CASE IsTransition(entry, ct)
    <3>1. /\ TierOf(more, ct) = entry.to_tier
          /\ StandingOf(more, ct) = entry.standing_after
      BY <1>1, <2>1, TransitionSetsState
    <3>2. Follows(entry, TierOf(log, ct), StandingOf(log, ct))
      BY <2>1 DEF MayFollow
    <3> QED
      BY <3>1, <3>2 DEF Follows
  <2>2. CASE ~IsTransition(entry, ct)
    BY <1>1, <2>2, OtherEntryKeepsState DEF Sound, TrustInStanding
  <2> QED
    BY <2>1, <2>2
<1>5. ASSUME NEW ct \in CampaignTypes, NEW i \in 1 .. n + 1
      PROVE  /\ TierAt(more, ct, i - 1) = TierAt(log, ct, i - 1)
             /\ StandingAt(more, ct, i - 1) = StandingAt(log, ct, i - 1)
  <2>1. i - 1 \in 0 .. n
    BY <1>2
  <2> QED
    BY <1>1, <2>1, PrefixState
<1>6. TierOf(log, entry.campaign_type) = TierAt(log, entry.campaign_type, n)
  BY DEF TierOf
<1>7. SendsTrusted(more)
  <2> SUFFICES ASSUME NEW ct \in CampaignTypes, NEW i \in 1 .. n + 1,
                      IsAutoSend(more[i], ct)
               PROVE  Trusted(more[i], TierAt(log, ct, i - 1), StandingAt(log, ct, i - 1))
    BY <1>2, <1>5 DEF SendsTrusted
  <2>1. CASE i \in 1 .. n
    BY <1>2, <2>1 DEF Sound, SendsTrusted
  <2>2. CASE i = n + 1
    <3>1. i - 1 = n /\ more[i] = entry
      BY <1>2, <2>2
    <3> QED
      BY <3>1 DEF MayFollow, TierOf, StandingOf
  <2> QED
    BY <1>2, <2>1, <2>2
<1>8. Chained(more)
  <2> SUFFICES ASSUME NEW ct \in CampaignTypes, NEW i \in 1 .. n + 1,
                      IsTransition(more[i], ct)
               PROVE  Follows(more[i], TierAt(log, ct, i - 1), StandingAt(log, ct, i - 1))
    BY <1>2, <1>5 DEF Chained
  <2>1. CASE i \in 1 .. n
    BY <1>2, <2>1 DEF Sound, Chained
  <2>2. CASE i = n + 1
    <3>1. i - 1 = n /\ more[i] = entry
      BY <1>2, <2>2
    <3> QED
      BY <3>1 DEF MayFollow, TierOf, StandingOf
  <2> QED
    BY <1>2, <2>1, <2>2
<1> QED
  BY <1>3, <1>4, <1>7, <1>8 DEF Sound

-----------------------------------------------------------------------------
(***************************************************************************)
(* The entries the controller appends may follow the ledger they are       *)
(* appended to.                                                            *)
(***************************************************************************)
LEMMA CurrentState ==
  ASSUME NEW log, Grounded(log), NEW ct \in CampaignTypes
  PROVE  /\ TierOf(log, ct) \in Tier
         /\ StandingOf(log, ct) \in Standing
         /\ CooldownOf(log, ct) \in Nat
<1>1. Len(log) \in 0 .. Len(log)
  BY DEF Grounded
<1> QED
  BY <1>1, StateTyped, CooldownTyped DEF TierOf, StandingOf, CooldownOf

LEMMA EffectiveTierTyped ==
  ASSUME NEW log, Grounded(log), NEW ct \in CampaignTypes, ceiling \in Tier
  PROVE  /\ EffectiveTier(log, ct) \in Tier
         /\ EffectiveTier(log, ct) <= TierOf(log, ct)
         /\ EffectiveTier(log, ct) <= ceiling
  BY CurrentState DEF EffectiveTier, Tier, ASSIST, SUPERVISED

LEMMA RunMayFollow ==
  ASSUME NEW log, Sound(log), ceiling \in Tier,
         NEW evaluation \in Evaluations, NEW now \in Times
  PROVE  /\ MayFollow(log, RunFact(log, evaluation, now))
         /\ RunFact(log, evaluation, now) \in Entry
         /\ \A ct : ~IsTransition(RunFact(log, evaluation, now), ct)
<1> DEFINE run   == RunFact(log, evaluation, now)
           type  == evaluation.campaign_type
           tier  == EffectiveTier(log, type)
           sends == SendsLast24h(log, type, now)
<1>1. evaluation \in Evaluation /\ now \in Int /\ type \in CampaignTypes
  BY InputAssumption DEF Evaluation
<1>2. Grounded(log) /\ TrustInStanding(log)
  BY DEF Sound
<1>3. tier \in Tier /\ tier <= TierOf(log, type) /\ TierOf(log, type) \in Tier
  BY <1>1, <1>2, EffectiveTierTyped, CurrentState
<1>4. /\ run.kind = "run" /\ run.campaign_type = type /\ run.tier_at_decision = tier
      /\ run.segment = evaluation.segment
      /\ run.decision = "auto_send" => AutoSends(evaluation, tier, sends)
  BY DEF RunFact, Decide
<1>5. run \in RunEntry
  BY <1>1, <1>3 DEF RunFact, RunEntry, Decide, Decision, Outcome, OutcomeClass,
                    Evaluation
<1>6. \A ct : ~IsTransition(run, ct)
  BY <1>4 DEF IsTransition
<1>7. ASSUME NEW ct \in CampaignTypes, IsAutoSend(run, ct)
      PROVE  Trusted(run, TierOf(log, ct), StandingOf(log, ct))
  <2>1. ct = type /\ CanAutosend(tier, evaluation.segment)
    BY <1>4, <1>7 DEF IsAutoSend, IsRun, AutoSends
  <2>2. tier # ASSIST
    BY <1>3, <2>1 DEF CanAutosend, TierSegments, ASSIST, BOUNDED, SUPERVISED, Tier
  <2>3. TierOf(log, ct) # ASSIST
    BY <1>3, <2>1, <2>2 DEF Tier, ASSIST, SUPERVISED
  <2>4. StandingOf(log, ct) = "active"
    BY <1>2, <2>3 DEF TrustInStanding
  <2> QED
    BY <1>3, <1>4, <2>1, <2>4 DEF Trusted
<1> QED
  BY <1>5, <1>6, <1>7 DEF MayFollow, Entry

LEMMA OutcomeMayFollow ==
  ASSUME NEW log, NEW report \in Reports, NEW now \in Times
  PROVE  /\ MayFollow(log, OutcomeFact(log, report, now))
         /\ OutcomeFact(log, report, now) \in Entry
         /\ \A ct : ~IsTransition(OutcomeFact(log, report, now), ct)
<1> DEFINE fact == OutcomeFact(log, report, now)
<1>1. report \in Report /\ now \in Int
  BY InputAssumption
<1>2. fact \in OutcomeEntry
  BY <1>1 DEF OutcomeFact, OutcomeEntry, Report, Breached
<1>3. fact.kind = "outcome"
  BY DEF OutcomeFact
<1> QED
  BY <1>2, <1>3 DEF MayFollow, Entry, IsAutoSend, IsRun, IsTransition

LEMMA DemotionMayFollow ==
  ASSUME NEW log, Sound(log), NEW ct \in CampaignTypes, NEW now \in Times,
         TierOf(log, ct) > ASSIST,
         NEW reason \in {"demotion_critical_presend", "demotion_deliverability"}
  PROVE  MayFollow(log, Demotion(log, ct, now, reason))
<1> DEFINE entry == Demotion(log, ct, now, reason)
<1>1. TierOf(log, ct) \in Tier /\ now \in Int
  BY CurrentState, InputAssumption DEF Sound
<1>2. StandingOf(log, ct) = "active"
  BY <1>1 DEF Sound, TrustInStanding, Tier, ASSIST, SUPERVISED
<1>3. entry \in TransitionEntry
  BY <1>1 DEF Demotion, Transition, TransitionEntry, TransitionReason, Standing,
              Tier, ASSIST, SUPERVISED
<1>4. /\ entry.kind = "transition" /\ entry.campaign_type = ct
      /\ entry.from_tier = TierOf(log, ct) /\ entry.reason = reason
      /\ entry.to_tier = ASSIST /\ entry.standing_after = "probation"
  BY DEF Demotion, Transition
<1> HIDE DEF entry
<1>5. Follows(entry, TierOf(log, ct), StandingOf(log, ct))
  BY <1>2, <1>4 DEF Follows
<1> QED
  BY <1>3, <1>4, <1>5 DEF MayFollow, Entry, IsAutoSend, IsRun, IsTransition, entry

LEMMA PromotionMayFollow ==
  ASSUME NEW log, Sound(log), NEW ct \in CampaignTypes, NEW now \in Times,
         MaybePromote(log, ct)
  PROVE  MayFollow(log, Promotion(log, ct, now))
<1> DEFINE entry == Promotion(log, ct, now)
<1>1. TierOf(log, ct) \in Tier /\ now \in Int
  BY CurrentState, InputAssumption DEF Sound
<1>2. StandingOf(log, ct) = "active" /\ TierOf(log, ct) < SUPERVISED
  BY DEF MaybePromote, PromotionOpen, PromotionEligible
<1>3. entry \in TransitionEntry
  BY <1>1, <1>2 DEF Promotion, Transition, TransitionEntry, TransitionReason,
                    Standing, Tier, ASSIST, SUPERVISED
<1>4. /\ entry.kind = "transition" /\ entry.campaign_type = ct
      /\ entry.from_tier = TierOf(log, ct) /\ entry.reason = "promotion"
      /\ entry.to_tier = TierOf(log, ct) + 1 /\ entry.standing_after = "active"
  BY DEF Promotion, Transition
<1> HIDE DEF entry
<1>5. Follows(entry, TierOf(log, ct), StandingOf(log, ct))
  BY <1>2, <1>4 DEF Follows
<1> QED
  BY <1>3, <1>4, <1>5 DEF MayFollow, Entry, IsAutoSend, IsRun, IsTransition, entry

LEMMA VerdictMayFollow ==
  ASSUME NEW log, Sound(log), NEW ct \in CampaignTypes, NEW now \in Times,
         NEW score, StandingOf(log, ct) = "probation"
  PROVE  MayFollow(log, ChallengeVerdict(log, ct, score, now))
<1> DEFINE entry == ChallengeVerdict(log, ct, score, now)
<1>1. now \in Int
  BY InputAssumption
<1>2. TierOf(log, ct) = ASSIST
  BY DEF Sound, TrustInStanding
<1>3. entry \in TransitionEntry
  BY <1>1, <1>2, ConfigAssumption
     DEF ChallengeVerdict, Transition, TransitionEntry, TransitionReason,
         Standing, Tier, ASSIST, BOUNDED, SUPERVISED
<1>4. /\ entry.kind = "transition" /\ entry.campaign_type = ct
      /\ entry.from_tier = TierOf(log, ct)
      /\ \/ /\ entry.reason = "probation_passed" /\ entry.to_tier = BOUNDED
            /\ entry.standing_after = "active" /\ entry.cooldown_after = CooldownRuns
         \/ /\ entry.reason = "probation_failed" /\ entry.to_tier = ASSIST
            /\ entry.standing_after = "investigation_required"
  BY DEF ChallengeVerdict, Transition
<1> HIDE DEF entry
<1>5. Follows(entry, TierOf(log, ct), StandingOf(log, ct))
  BY <1>2, <1>4 DEF Follows
<1> QED
  BY <1>3, <1>4, <1>5 DEF MayFollow, Entry, IsAutoSend, IsRun, IsTransition, entry

-----------------------------------------------------------------------------
(***************************************************************************)
(* Safety, by the invariant IInv.                                          *)
(***************************************************************************)
IInv == Sound(ledger) /\ ceiling \in Tier

\* A demotion or promotion is computed from the ledger before or after the
\* run that caused it: the run changes neither the tier nor the standing.
LEMMA LoggedFirst ==
  ASSUME NEW log, Sound(log), NEW fact, MayFollow(log, fact),
         \A ct : ~IsTransition(fact, ct)
  PROVE  /\ Sound(Append(log, fact))
         /\ \A ct \in CampaignTypes :
              /\ TierOf(Append(log, fact), ct) = TierOf(log, ct)
              /\ StandingOf(Append(log, fact), ct) = StandingOf(log, ct)
  BY SoundAppend, OtherEntryKeepsState DEF Sound, MayFollow

LEMMA DemotionAfterFact ==
  ASSUME NEW log, NEW fact, NEW ct, NEW now, NEW reason,
         TierOf(Append(log, fact), ct) = TierOf(log, ct)
  PROVE  Demotion(log, ct, now, reason) = Demotion(Append(log, fact), ct, now, reason)
  BY DEF Demotion, Transition

LEMMA InitIInv == Init => IInv
<1> SUFFICES ASSUME Init PROVE IInv
  OBVIOUS
<1>1. ledger = <<>> /\ Len(ledger) = 0 /\ ledger \in Seq(Entry)
  BY DEF Init
<1>2. ceiling \in Tier
  BY ConfigAssumption DEF Init
<1>3. \A ct : TransitionsUpTo(ledger, ct, 0) = {}
  BY DEF TransitionsUpTo
<1>4. Grounded(ledger)
  BY <1>1, <1>3 DEF Grounded, HasLast
<1>5. \A ct : LastTransition(ledger, ct, 0) = 0
  BY <1>3 DEF LastTransition
<1>6. TrustInStanding(ledger)
  BY <1>1, <1>5 DEF TrustInStanding, TierOf, TierAt
<1>7. DOMAIN ledger = {}
  BY <1>1
<1> QED
  BY <1>2, <1>4, <1>6, <1>7 DEF IInv, Sound, SendsTrusted, Chained

(***************************************************************************)
(* A call appends a fact, and perhaps the transition the fact asks for.    *)
(***************************************************************************)
LEMMA RunStep ==
  ASSUME IInv, NEW evaluation \in Evaluations, NEW now \in Times,
         ProcessRun(evaluation, now)
  PROVE  LET ct     == evaluation.campaign_type
             run    == RunFact(ledger, evaluation, now)
             logged == Append(ledger, run)
         IN  /\ ct \in CampaignTypes
             /\ run.kind = "run" /\ run.campaign_type = ct
             /\ MayFollow(ledger, run)
             /\ Sound(logged)
             /\ TierOf(logged, ct) = TierOf(ledger, ct)
             /\ StandingOf(logged, ct) = StandingOf(ledger, ct)
             /\ \/ ledger' = logged
                \/ /\ TierOf(ledger, ct) > ASSIST
                   /\ LET entry == Demotion(logged, ct, now, "demotion_critical_presend")
                      IN  MayFollow(logged, entry) /\ ledger' = Append(logged, entry)
                \/ /\ MaybePromote(logged, ct)
                   /\ LET entry == Promotion(logged, ct, now)
                      IN  MayFollow(logged, entry) /\ ledger' = Append(logged, entry)
<1> DEFINE ct     == evaluation.campaign_type
           run    == RunFact(ledger, evaluation, now)
           logged == Append(ledger, run)
<1>1. Sound(ledger) /\ ceiling \in Tier
  BY DEF IInv
<1>2. ct \in CampaignTypes /\ run.kind = "run" /\ run.campaign_type = ct
  BY InputAssumption DEF Evaluation, RunFact
<1>3. MayFollow(ledger, run) /\ \A type : ~IsTransition(run, type)
  BY <1>1, RunMayFollow
<1>4. /\ Sound(logged)
      /\ TierOf(logged, ct) = TierOf(ledger, ct)
      /\ StandingOf(logged, ct) = StandingOf(ledger, ct)
  <2> HIDE DEF run
  <2> QED
    BY <1>1, <1>2, <1>3, LoggedFirst
<1> DEFINE demotion  == Demotion(logged, ct, now, "demotion_critical_presend")
           promotion == Promotion(logged, ct, now)
<1>5. demotion = Demotion(ledger, ct, now, "demotion_critical_presend")
  BY <1>4, DemotionAfterFact
<1>6. TierOf(ledger, ct) > ASSIST => MayFollow(logged, demotion)
  BY <1>2, <1>4, DemotionMayFollow
<1>7. MaybePromote(logged, ct) => MayFollow(logged, promotion)
  BY <1>2, <1>4, PromotionMayFollow
<1>8. \/ ledger' = logged
      \/ TierOf(ledger, ct) > ASSIST /\ ledger' = Append(logged, demotion)
      \/ MaybePromote(logged, ct) /\ ledger' = Append(logged, promotion)
  <2>1. run.campaign_type = ct
    BY <1>2
  <2> HIDE DEF demotion
  <2> QED
    BY <1>5, <2>1 DEF ProcessRun, RunDemotes, RunPromotes
<1> HIDE DEF demotion, promotion, logged, run, ct
<1> QED
  BY <1>2, <1>3, <1>4, <1>6, <1>7, <1>8 DEF demotion, promotion, logged, run, ct

LEMMA DeliverabilityStep ==
  ASSUME IInv, NEW report \in Reports, NEW now \in Times,
         ProcessDeliverability(report, now)
  PROVE  LET ct     == report.campaign_type
             fact   == OutcomeFact(ledger, report, now)
             logged == Append(ledger, fact)
         IN  /\ ct \in CampaignTypes
             /\ fact.kind = "outcome" /\ fact.campaign_type = ct
             /\ MayFollow(ledger, fact)
             /\ Sound(logged)
             /\ TierOf(logged, ct) = TierOf(ledger, ct)
             /\ StandingOf(logged, ct) = StandingOf(ledger, ct)
             /\ \/ /\ fact.breached => TierOf(ledger, ct) = ASSIST
                   /\ ledger' = logged
                \/ /\ TierOf(ledger, ct) > ASSIST
                   /\ LET entry == Demotion(logged, ct, now, "demotion_deliverability")
                      IN  MayFollow(logged, entry) /\ ledger' = Append(logged, entry)
<1> DEFINE ct     == report.campaign_type
           fact   == OutcomeFact(ledger, report, now)
           logged == Append(ledger, fact)
<1>1. Sound(ledger)
  BY DEF IInv
<1>2. /\ ct \in CampaignTypes /\ fact.kind = "outcome" /\ fact.campaign_type = ct
      /\ fact.breached = Breached(report)
  BY InputAssumption DEF Report, OutcomeFact
<1>3. MayFollow(ledger, fact) /\ \A type : ~IsTransition(fact, type)
  BY OutcomeMayFollow
<1>4. /\ Sound(logged)
      /\ TierOf(logged, ct) = TierOf(ledger, ct)
      /\ StandingOf(logged, ct) = StandingOf(ledger, ct)
  <2> HIDE DEF fact
  <2> QED
    BY <1>1, <1>2, <1>3, LoggedFirst
<1> DEFINE demotion == Demotion(logged, ct, now, "demotion_deliverability")
<1>5. demotion = Demotion(ledger, ct, now, "demotion_deliverability")
  BY <1>4, DemotionAfterFact
<1>6. TierOf(ledger, ct) > ASSIST => MayFollow(logged, demotion)
  BY <1>2, <1>4, DemotionMayFollow
<1>7. TierOf(ledger, ct) \in Tier
  BY <1>1, <1>2, CurrentState DEF Sound
<1>8. \/ ~ReportDemotes(ledger, report) /\ ledger' = logged
      \/ ReportDemotes(ledger, report) /\ ledger' = Append(logged, demotion)
  BY <1>5, Zenon DEF ProcessDeliverability
<1>9. ReportDemotes(ledger, report) => TierOf(ledger, ct) > ASSIST
  BY DEF ReportDemotes
<1>10. ~ReportDemotes(ledger, report) => (fact.breached => TierOf(ledger, ct) = ASSIST)
  BY <1>2, <1>7 DEF ReportDemotes, Tier, ASSIST, SUPERVISED
<1> HIDE DEF demotion, logged, fact, ct
<1> QED
  BY <1>2, <1>3, <1>4, <1>6, <1>8, <1>9, <1>10 DEF demotion, logged, fact, ct

LEMMA NextIInv == IInv /\ [Next]_vars => IInv'
<1> SUFFICES ASSUME IInv, [Next]_vars PROVE IInv'
  OBVIOUS
<1>1. ASSUME NEW evaluation \in Evaluations, NEW now \in Times,
             ProcessRun(evaluation, now)
      PROVE  IInv'
  <2> DEFINE logged == Append(ledger, RunFact(ledger, evaluation, now))
  <2>1. Sound(logged) /\ ceiling' = ceiling
    BY <1>1, RunStep DEF ProcessRun
  <2>2. ledger' = logged \/ \E entry : MayFollow(logged, entry) /\ ledger' = Append(logged, entry)
    BY <1>1, RunStep, Zenon
  <2> HIDE DEF logged
  <2> QED
    BY <2>1, <2>2, SoundAppend DEF IInv
<1>2. ASSUME NEW report \in Reports, NEW now \in Times,
             ProcessDeliverability(report, now)
      PROVE  IInv'
  <2> DEFINE logged == Append(ledger, OutcomeFact(ledger, report, now))
  <2>1. Sound(logged) /\ ceiling' = ceiling
    BY <1>2, DeliverabilityStep DEF ProcessDeliverability
  <2>2. ledger' = logged \/ \E entry : MayFollow(logged, entry) /\ ledger' = Append(logged, entry)
    BY <1>2, DeliverabilityStep, Zenon
  <2> HIDE DEF logged
  <2> QED
    BY <2>1, <2>2, SoundAppend DEF IInv
<1>3. ASSUME NEW ct \in CampaignTypes, NEW score \in Challenges, NEW now \in Times,
             RunProbationChallenge(ct, score, now)
      PROVE  IInv'
  BY <1>3, VerdictMayFollow, SoundAppend DEF IInv, RunProbationChallenge
<1>4. CASE Restart
  BY <1>4, ConfigAssumption DEF IInv, Restart
<1>5. CASE UNCHANGED vars
  BY <1>5 DEF IInv, vars
<1> QED
  BY <1>1, <1>2, <1>3, <1>4, <1>5 DEF Next

\* Every call, in any order and with restarts in between, leaves a sound ledger
\* (controller.py:203-490).
THEOREM Invariance == Spec => []IInv
  BY InitIInv, NextIInv, PTL DEF Spec

\* The ledger holds only well-formed entries, whatever the configuration and
\* the inputs: no promotion overshoots the top tier, every standing is known.
THEOREM TypeCorrect == Spec => []TypeOK
<1>1. IInv => TypeOK
  BY DEF IInv, Sound, Grounded, TypeOK
<1> QED
  BY <1>1, Invariance, PTL

\* Complete mediation (routing.py:80-115, tiers.py:45-53): no send without
\* trust, for any gates, thresholds, ceilings and order of calls.
THEOREM CompleteMediation == Spec => []SendsWhileTrusted
<1>1. IInv => SendsWhileTrusted
  BY DEF IInv, Sound, SendsTrusted, SendsWhileTrusted
<1> QED
  BY <1>1, Invariance, PTL

\* Every transition on record continues the chain the previous ones form.
THEOREM ChainUnbroken == Spec => []TransitionChain
<1>1. IInv => TransitionChain
  BY DEF IInv, Sound, Chained, TransitionChain
<1> QED
  BY <1>1, Invariance, PTL
=============================================================================
