---------------------------- MODULE ServiceProofs ----------------------------
(***************************************************************************)
(* Theorems about the service, for every value of the constants: whatever  *)
(* commit a crash falls before, the ledger stays lawful and the queue      *)
(* shows nothing in flight that the ledger does not know as sent.          *)
(*                                                                         *)
(* The argument is about the plan of the call in progress.  Its entries    *)
(* come first and are at most two, each of which may follow the ledger as  *)
(* it will be at its turn (Lawful); an item it will put in flight is a     *)
(* send the ledger has, or gets with the plan's first commit (Announced).  *)
(* Dropping the rest of a plan, which is what a crash does, leaves a plan  *)
(* of that form.                                                           *)
(***************************************************************************)
EXTENDS Service, ControllerProofs, SequenceTheorems

Lawful(log, plan) ==
  \A k \in DOMAIN plan : plan[k].do = "append" =>
    \/ k = 1 /\ MayFollow(log, plan[1].entry)
    \/ /\ k = 2 /\ plan[1].do = "append"
       /\ MayFollow(Append(log, plan[1].entry), plan[2].entry)

SentBy(log, id, ct) ==
  \E i \in DOMAIN log : IsAutoSend(log[i], ct) /\ log[i].run_id = id

Announced(log, plan) ==
  \A k \in DOMAIN plan :
    plan[k].do = "enqueue" /\ plan[k].item.status = "in_flight" =>
      \/ SentBy(log, plan[k].id, plan[k].item.campaign_type)
      \/ /\ plan[1].do = "append"
         /\ IsAutoSend(plan[1].entry, plan[k].item.campaign_type)
         /\ plan[1].entry.run_id = plan[k].id

-----------------------------------------------------------------------------
(***************************************************************************)
(* Plans.                                                                  *)
(***************************************************************************)
LEMMA AppendAllTyped ==
  ASSUME NEW es \in Seq(Entry)
  PROVE  /\ AppendAll(es) \in Seq(Commit)
         /\ Len(AppendAll(es)) = Len(es)
         /\ \A k \in 1 .. Len(es) : AppendAll(es)[k] = [do |-> "append", entry |-> es[k]]
<1>1. Len(es) \in Nat /\ DOMAIN es = 1 .. Len(es)
  BY LenProperties
<1>2. \A k \in 1 .. Len(es) : es[k] \in Entry
  BY ElementOfSeq
<1>3. \A k \in 1 .. Len(es) : [do |-> "append", entry |-> es[k]] \in Commit
  BY <1>2 DEF Commit
<1>4. AppendAll(es) = [k \in 1 .. Len(es) |-> [do |-> "append", entry |-> es[k]]]
  BY <1>1 DEF AppendAll
<1>5. AppendAll(es) \in [1 .. Len(es) -> Commit]
  BY <1>3, <1>4
<1>6. AppendAll(es) \in Seq(Commit)
  BY <1>1, <1>5, SeqDef
<1>7. DOMAIN AppendAll(es) = 1 .. Len(es) /\ DOMAIN AppendAll(es) = 1 .. Len(AppendAll(es))
  BY <1>4, <1>6, LenProperties
<1>8. Len(AppendAll(es)) = Len(es)
  <2>1. Len(AppendAll(es)) \in Nat
    BY <1>6, LenProperties
  <2> QED
    BY <1>1, <1>7, <2>1
<1> QED
  BY <1>4, <1>6, <1>8

\* What a call begins with.
LEMMA PlanBegun ==
  ASSUME NEW log, NEW es \in Seq(Entry), NEW rest \in Seq(Commit), Len(es) <= 2,
         \A k \in DOMAIN rest : rest[k].do # "append",
         Len(es) >= 1 => MayFollow(log, es[1]),
         Len(es) = 2 => MayFollow(Append(log, es[1]), es[2])
  PROVE  /\ AppendAll(es) \o rest \in Seq(Commit)
         /\ Lawful(log, AppendAll(es) \o rest)
         /\ DOMAIN (AppendAll(es) \o rest) = 1 .. Len(es) + Len(rest)
         /\ \A k \in 1 .. Len(es) :
              (AppendAll(es) \o rest)[k] = [do |-> "append", entry |-> es[k]]
         /\ \A k \in (Len(es) + 1) .. (Len(es) + Len(rest)) :
              (AppendAll(es) \o rest)[k] = rest[k - Len(es)]
<1> DEFINE head == AppendAll(es)
           plan == head \o rest
<1>1. /\ head \in Seq(Commit) /\ Len(head) = Len(es) /\ Len(es) \in Nat
      /\ Len(rest) \in Nat /\ DOMAIN rest = 1 .. Len(rest)
  BY AppendAllTyped, LenProperties
<1>2. \A k \in 1 .. Len(es) : head[k] = [do |-> "append", entry |-> es[k]]
  BY AppendAllTyped
<1> HIDE DEF head
<1>3. /\ plan \in Seq(Commit)
      /\ Len(plan) = Len(es) + Len(rest)
      /\ \A k \in 1 .. Len(es) + Len(rest) :
           plan[k] = IF k <= Len(es) THEN head[k] ELSE rest[k - Len(es)]
  BY <1>1, ConcatProperties
<1> HIDE DEF plan
<1>4. DOMAIN plan = 1 .. Len(es) + Len(rest)
  BY <1>3, LenProperties
<1>5. \A k \in 1 .. Len(es) : plan[k] = [do |-> "append", entry |-> es[k]]
  BY <1>1, <1>2, <1>3
<1>6. \A k \in (Len(es) + 1) .. (Len(es) + Len(rest)) : plan[k] = rest[k - Len(es)]
  BY <1>1, <1>3
<1>7. ASSUME NEW k \in DOMAIN plan, plan[k].do = "append"
      PROVE  \/ k = 1 /\ MayFollow(log, plan[1].entry)
             \/ /\ k = 2 /\ plan[1].do = "append"
                /\ MayFollow(Append(log, plan[1].entry), plan[2].entry)
  <2>1. k \in 1 .. Len(es)
    <3>1. CASE k \in (Len(es) + 1) .. (Len(es) + Len(rest))
      <4>1. k - Len(es) \in DOMAIN rest
        BY <1>1, <3>1
      <4> QED
        BY <1>6, <1>7, <3>1, <4>1
    <3> QED
      BY <1>1, <1>4, <3>1
  <2>2. CASE k = 1
    <3>1. Len(es) >= 1 /\ 1 \in 1 .. Len(es)
      BY <1>1, <2>1, <2>2
    <3>2. plan[1] = [do |-> "append", entry |-> es[1]]
      BY <1>5, <3>1, Zenon
    <3> QED
      BY <2>2, <3>1, <3>2
  <2>3. CASE k = 2
    <3>1. Len(es) = 2 /\ 1 \in 1 .. Len(es) /\ 2 \in 1 .. Len(es)
      BY <1>1, <2>1, <2>3
    <3>2. plan[1].do = "append" /\ plan[1].entry = es[1] /\ plan[2].entry = es[2]
      BY <1>5, <3>1
    <3> QED
      BY <2>3, <3>1, <3>2
  <2> QED
    BY <1>1, <2>1, <2>2, <2>3
<1>8. Lawful(log, plan)
  BY <1>7 DEF Lawful
<1> QED
  BY <1>3, <1>4, <1>5, <1>6, <1>8 DEF plan, head

LEMMA PlanTail ==
  ASSUME NEW plan \in Seq(Commit), plan # <<>>
  PROVE  /\ Head(plan) = plan[1] /\ 1 \in DOMAIN plan /\ plan[1] \in Commit
         /\ Tail(plan) \in Seq(Commit)
         /\ \A k \in DOMAIN Tail(plan) : k \in Nat /\ k >= 1 /\ k + 1 \in DOMAIN plan
                                          /\ Tail(plan)[k] = plan[k + 1]
<1>1. Len(plan) \in Nat \ {0} /\ DOMAIN plan = 1 .. Len(plan)
  BY EmptySeq, LenProperties
<1>2. /\ Tail(plan) \in Seq(Commit) /\ Len(Tail(plan)) = Len(plan) - 1
      /\ \A k \in 1 .. Len(Tail(plan)) : Tail(plan)[k] = plan[k + 1]
  BY HeadTailProperties
<1>3. DOMAIN Tail(plan) = 1 .. Len(Tail(plan))
  BY <1>2, LenProperties
<1>4. Head(plan) = plan[1] /\ plan[1] \in Commit
  BY <1>1, ElementOfSeq
<1> QED
  BY <1>1, <1>2, <1>3, <1>4

\* After its append the rest of a plan is lawful on the longer ledger, and
\* everything it announces has been sent.
LEMMA AppendDone ==
  ASSUME NEW log \in Seq(Entry), NEW plan \in Seq(Commit), plan # <<>>,
         Lawful(log, plan), Announced(log, plan), plan[1].do = "append"
  PROVE  LET longer == Append(log, plan[1].entry)
         IN  /\ MayFollow(log, plan[1].entry)
             /\ Tail(plan) \in Seq(Commit)
             /\ Lawful(longer, Tail(plan))
             /\ Announced(longer, Tail(plan))
             /\ \A id, ct : SentBy(log, id, ct) => SentBy(longer, id, ct)
<1> DEFINE entry  == plan[1].entry
           longer == Append(log, entry)
           rest   == Tail(plan)
<1>1. /\ 1 \in DOMAIN plan /\ rest \in Seq(Commit)
      /\ \A k \in DOMAIN rest : k \in Nat /\ k >= 1 /\ k + 1 \in DOMAIN plan /\ rest[k] = plan[k + 1]
  BY PlanTail
<1>2. MayFollow(log, entry) /\ entry \in Entry
  BY <1>1 DEF Lawful, MayFollow
<1>3. /\ DOMAIN log = 1 .. Len(log) /\ DOMAIN longer = 1 .. Len(log) + 1 /\ Len(log) \in Nat
      /\ \A i \in 1 .. Len(log) : longer[i] = log[i]
      /\ longer[Len(log) + 1] = entry
  BY <1>2, AppendFacts
<1>4. ASSUME NEW id, NEW ct, SentBy(log, id, ct) PROVE SentBy(longer, id, ct)
  BY <1>3, <1>4 DEF SentBy
<1>5. ASSUME NEW id, NEW ct, IsAutoSend(entry, ct), entry.run_id = id PROVE SentBy(longer, id, ct)
  <2>1. Len(log) + 1 \in DOMAIN longer
    BY <1>3
  <2> QED
    BY <1>3, <1>5, <2>1 DEF SentBy
<1> HIDE DEF rest, longer
<1>6. Lawful(longer, rest)
  <2> SUFFICES ASSUME NEW k \in DOMAIN rest, rest[k].do = "append"
               PROVE  k = 1 /\ MayFollow(longer, rest[1].entry)
    BY DEF Lawful
  <2>1. k \in Nat /\ k >= 1 /\ k + 1 \in DOMAIN plan /\ plan[k + 1].do = "append"
    BY <1>1
  <2>2. k + 1 = 2 /\ MayFollow(longer, plan[2].entry)
    BY <2>1 DEF Lawful, longer
  <2>3. k = 1
    BY <2>1, <2>2
  <2> QED
    BY <1>1, <2>2, <2>3
<1>7. Announced(longer, rest)
  <2> SUFFICES ASSUME NEW k \in DOMAIN rest, rest[k].do = "enqueue",
                      rest[k].item.status = "in_flight"
               PROVE  SentBy(longer, rest[k].id, rest[k].item.campaign_type)
    BY DEF Announced
  <2>1. k + 1 \in DOMAIN plan /\ rest[k] = plan[k + 1]
    BY <1>1
  <2>2. \/ SentBy(log, rest[k].id, rest[k].item.campaign_type)
        \/ IsAutoSend(entry, rest[k].item.campaign_type) /\ entry.run_id = rest[k].id
    BY <2>1 DEF Announced
  <2> QED
    BY <1>4, <1>5, <2>2
<1> QED
  BY <1>1, <1>2, <1>4, <1>6, <1>7 DEF rest, longer

\* A plan that does not begin with an append has none, and everything it
\* announces has been sent.
LEMMA OtherDone ==
  ASSUME NEW log, NEW plan \in Seq(Commit), plan # <<>>,
         Lawful(log, plan), Announced(log, plan), plan[1].do # "append"
  PROVE  /\ Tail(plan) \in Seq(Commit)
         /\ Lawful(log, Tail(plan))
         /\ Announced(log, Tail(plan))
         /\ \A first \in Commit :
              first.do \notin {"append", "enqueue"} =>
                /\ <<first>> \o Tail(plan) \in Seq(Commit)
                /\ Lawful(log, <<first>> \o Tail(plan))
                /\ Announced(log, <<first>> \o Tail(plan))
<1> DEFINE rest == Tail(plan)
<1>1. /\ 1 \in DOMAIN plan /\ rest \in Seq(Commit)
      /\ \A k \in DOMAIN rest : k \in Nat /\ k >= 1 /\ k + 1 \in DOMAIN plan /\ rest[k] = plan[k + 1]
  BY PlanTail
<1>2. \A k \in DOMAIN plan : plan[k].do # "append"
  BY DEF Lawful
<1>3. \A k \in DOMAIN plan :
        plan[k].do = "enqueue" /\ plan[k].item.status = "in_flight" =>
          SentBy(log, plan[k].id, plan[k].item.campaign_type)
  BY DEF Announced
<1> HIDE DEF rest
<1>4. /\ \A k \in DOMAIN rest : rest[k].do # "append"
      /\ \A k \in DOMAIN rest :
           rest[k].do = "enqueue" /\ rest[k].item.status = "in_flight" =>
             SentBy(log, rest[k].id, rest[k].item.campaign_type)
  BY <1>1, <1>2, <1>3
<1>5. Lawful(log, rest) /\ Announced(log, rest)
  BY <1>4 DEF Lawful, Announced
<1>6. ASSUME NEW first \in Commit, first.do \notin {"append", "enqueue"}
      PROVE  /\ <<first>> \o rest \in Seq(Commit)
             /\ Lawful(log, <<first>> \o rest)
             /\ Announced(log, <<first>> \o rest)
  <2> DEFINE more == <<first>> \o rest
  <2>1. <<first>> \in Seq(Commit) /\ Len(<<first>>) = 1 /\ <<first>>[1] = first
    OBVIOUS
  <2>2. Len(rest) \in Nat /\ DOMAIN rest = 1 .. Len(rest)
    BY <1>1, LenProperties
  <2>3. /\ more \in Seq(Commit) /\ Len(more) = 1 + Len(rest)
        /\ \A k \in 1 .. 1 + Len(rest) :
             more[k] = IF k <= 1 THEN <<first>>[k] ELSE rest[k - 1]
    BY <1>1, <2>1, ConcatProperties
  <2> HIDE DEF more
  <2>4. DOMAIN more = 1 .. 1 + Len(rest)
    BY <2>3, LenProperties
  <2>5. \A k \in DOMAIN more : more[k] = first \/ \E j \in DOMAIN rest : more[k] = rest[j]
    <3> SUFFICES ASSUME NEW k \in DOMAIN more
                 PROVE  more[k] = first \/ \E j \in DOMAIN rest : more[k] = rest[j]
      OBVIOUS
    <3>1. CASE k = 1
      BY <2>1, <2>2, <2>3, <3>1
    <3>2. CASE k # 1
      <4>1. k - 1 \in DOMAIN rest /\ more[k] = rest[k - 1]
        BY <2>2, <2>3, <2>4, <3>2
      <4> QED
        BY <4>1
    <3> QED
      BY <3>1, <3>2
  <2>6. /\ \A k \in DOMAIN more : more[k].do # "append"
        /\ \A k \in DOMAIN more :
             more[k].do = "enqueue" /\ more[k].item.status = "in_flight" =>
               SentBy(log, more[k].id, more[k].item.campaign_type)
    BY <1>4, <1>6, <2>5
  <2>7. Lawful(log, more) /\ Announced(log, more)
    BY <2>6 DEF Lawful, Announced
  <2> QED
    BY <2>3, <2>7 DEF more
<1> QED
  BY <1>1, <1>5, <1>6 DEF rest

-----------------------------------------------------------------------------
(***************************************************************************)
(* What the calls plan.                                                    *)
(***************************************************************************)
LEMMA CommitFields ==
  ASSUME NEW c \in Commit
  PROVE  /\ c.do = "append" => c.entry \in Entry
         /\ c.do = "enqueue" => c.id \in RunIds /\ c.item \in QueueItem
         /\ c.do = "mark" =>
              /\ c.ids \in SUBSET RunIds
              /\ c.status \in {"pending", "approved", "expired"}
              /\ \A ids \in SUBSET RunIds :
                   [c EXCEPT !.ids = ids] \in Commit /\ [c EXCEPT !.ids = ids].do = "mark"
         /\ c.do = "trace" => c.id \in RunIds /\ c.trace \in Trace
         /\ c.do = "flag" => c.id \in RunIds
         /\ c.do = "show" => c.ids \in SUBSET RunIds
  BY DEF Commit

LEMMA CodesTyped ==
  ASSUME NEW evaluation, NEW tier, NEW sends
  PROVE  Violations(evaluation, tier, sends) \in SUBSET ConstraintCode
  BY DEF Violations, CheckSegmentEligibility, CheckDiscount, CheckRateLimit, ConstraintCode

LEMMA RunItemTyped ==
  ASSUME Sound(ledger), ceiling \in Tier, clock \in 0 .. MaxClock,
         NEW evaluation \in Evaluations
  PROVE  /\ RunItem(evaluation) \in QueueItem
         /\ RunItem(evaluation).campaign_type = evaluation.campaign_type
         /\ RunItem(evaluation).status = "in_flight" =>
              /\ IsAutoSend(RunFact(ledger, evaluation, clock), evaluation.campaign_type)
              /\ RunFact(ledger, evaluation, clock).run_id = evaluation.run_id
         /\ RunTrace(evaluation) \in Trace
<1> DEFINE run   == RunFact(ledger, evaluation, clock)
           codes == Violations(evaluation, EffectiveTier(ledger, evaluation.campaign_type),
                               SendsLast24h(ledger, evaluation.campaign_type, clock))
<1>1. /\ evaluation.campaign_type \in CampaignTypes
      /\ CriticalFailures(evaluation) \in SUBSET CRITICAL_DIMENSIONS
  BY InputAssumption DEF Evaluation, CriticalFailures
<1>2. clock \in Int /\ clock + SendWindow \in Int
  BY ServiceAssumption, WindowAssumption
<1>3. codes \in SUBSET ConstraintCode
  BY CodesTyped
<1>4. /\ run.kind = "run" /\ run.campaign_type = evaluation.campaign_type
      /\ run.run_id = evaluation.run_id /\ run.decision \in Decision
  BY DEF RunFact, Decide, Decision
<1> HIDE DEF codes, run
<1>5. RunItem(evaluation) =
        QueueItemFromDecision(evaluation, run.decision, codes, clock, SendWindow)
  BY DEF RunItem, codes, run
<1>6. RunItem(evaluation) \in QueueItem
  BY <1>1, <1>2, <1>3, <1>5 DEF QueueItemFromDecision, QueueItem, ItemStatus
<1>7. /\ RunItem(evaluation).campaign_type = evaluation.campaign_type
      /\ RunItem(evaluation).status = "in_flight" => run.decision = "auto_send"
      /\ RunItem(evaluation).constraint_codes = codes
  BY <1>5 DEF QueueItemFromDecision
<1>8. RunTrace(evaluation) =
        [evaluation |-> evaluation, decision |-> run.decision, blocked |-> codes]
  BY <1>7 DEF RunTrace, run
<1>9. RunTrace(evaluation) \in Trace
  BY <1>3, <1>4, <1>8 DEF Trace
<1> QED
  BY <1>4, <1>6, <1>7, <1>9 DEF IsAutoSend, IsRun, run

\* The entries process_run and process_deliverability commit may follow one
\* another.
MayMove(log, moved) ==
  moved = <<>> \/ \E entry \in Entry : moved = <<entry>> /\ MayFollow(log, entry)

LEMMA FactThenTransition ==
  ASSUME NEW log, Sound(log), NEW fact, MayFollow(log, fact),
         NEW moved, MayMove(Append(log, fact), moved),
         NEW es, es = <<fact>> \o moved
  PROVE  /\ es \in Seq(Entry) /\ Len(es) <= 2 /\ Len(es) >= 1 /\ es[1] = fact
         /\ MayFollow(log, es[1])
         /\ Len(es) = 2 => MayFollow(Append(log, es[1]), es[2])
<1>1. fact \in Entry
  BY DEF MayFollow
<1>2. /\ moved \in Seq(Entry) /\ Len(moved) \in {0, 1}
      /\ Len(moved) = 1 => MayFollow(Append(log, fact), moved[1])
  <2>1. CASE moved = <<>>
    BY <2>1
  <2>2. ASSUME NEW entry \in Entry, moved = <<entry>>,
               MayFollow(Append(log, fact), entry)
        PROVE  /\ moved \in Seq(Entry) /\ Len(moved) = 1
               /\ MayFollow(Append(log, fact), moved[1])
    BY <2>2
  <2> QED
    BY <2>1, <2>2 DEF MayMove
<1>3. <<fact>> \in Seq(Entry) /\ Len(<<fact>>) = 1 /\ <<fact>>[1] = fact
  BY <1>1
<1>4. /\ es \in Seq(Entry)
      /\ Len(es) = 1 + Len(moved)
      /\ \A i \in 1 .. 1 + Len(moved) :
           es[i] = IF i <= 1 THEN <<fact>>[i] ELSE moved[i - 1]
  BY <1>2, <1>3, ConcatProperties
<1>5. es[1] = fact
  BY <1>2, <1>3, <1>4
<1>6. Len(es) = 2 => Len(moved) = 1 /\ es[2] = moved[1]
  BY <1>2, <1>4
<1>7. Len(es) <= 2 /\ Len(es) >= 1
  BY <1>2, <1>4
<1>8. MayFollow(log, es[1]) /\ Append(log, es[1]) = Append(log, fact)
  BY <1>5, Zenon
<1>9. Len(es) = 2 => MayFollow(Append(log, es[1]), es[2])
  BY <1>2, <1>6, <1>8, Zenon
<1> QED
  BY <1>4, <1>5, <1>7, <1>8, <1>9, Zenon

LEMMA RunPlan ==
  ASSUME Sound(ledger), ceiling \in Tier, clock \in Times, NEW evaluation \in Evaluations
  PROVE  LET run   == RunFact(ledger, evaluation, clock)
             moved == RunTransition(ledger, evaluation, clock)
         IN  /\ MayFollow(ledger, run)
             /\ MayMove(Append(ledger, run), moved)
<1> DEFINE ct     == evaluation.campaign_type
           run    == RunFact(ledger, evaluation, clock)
           logged == Append(ledger, run)
<1>1. ct \in CampaignTypes /\ run.campaign_type = ct
  BY InputAssumption DEF Evaluation, RunFact
<1>2. MayFollow(ledger, run) /\ \A type : ~IsTransition(run, type)
  BY RunMayFollow
<1>3. /\ Sound(logged)
      /\ TierOf(logged, ct) = TierOf(ledger, ct)
      /\ StandingOf(logged, ct) = StandingOf(ledger, ct)
  <2> HIDE DEF run
  <2> QED
    BY <1>1, <1>2, LoggedFirst
<1> DEFINE demotion  == Demotion(logged, ct, clock, "demotion_critical_presend")
           promotion == Promotion(logged, ct, clock)
<1>4. demotion = Demotion(ledger, ct, clock, "demotion_critical_presend")
  BY <1>3, DemotionAfterFact
<1>5. RunDemotes(ledger, evaluation) => MayFollow(logged, demotion)
  BY <1>1, <1>3, DemotionMayFollow DEF RunDemotes
<1>6. RunPromotes(logged, run) => MayFollow(logged, promotion)
  <2>1. RunPromotes(logged, run) => MaybePromote(logged, ct)
    BY <1>1 DEF RunPromotes
  <2> QED
    BY <1>1, <1>3, <2>1, PromotionMayFollow
<1>7. \/ RunTransition(ledger, evaluation, clock) = <<>>
      \/ /\ RunDemotes(ledger, evaluation)
         /\ RunTransition(ledger, evaluation, clock) = <<demotion>>
      \/ /\ RunPromotes(logged, run)
         /\ RunTransition(ledger, evaluation, clock) = <<promotion>>
  <2> HIDE DEF demotion
  <2> QED
    BY <1>4 DEF RunTransition
<1> HIDE DEF demotion, promotion, logged, run, ct
<1>8. \A entry : MayFollow(logged, entry) => entry \in Entry
  BY DEF MayFollow
<1> QED
  BY <1>2, <1>5, <1>6, <1>7, <1>8 DEF logged, run, MayMove

LEMMA OutcomePlan ==
  ASSUME Sound(ledger), clock \in Times, NEW report \in Reports
  PROVE  LET fact  == OutcomeFact(ledger, report, clock)
             moved == OutcomeTransition(ledger, report, clock)
         IN  /\ MayFollow(ledger, fact)
             /\ fact.run_id \in RunIds
             /\ MayMove(Append(ledger, fact), moved)
<1> DEFINE ct     == report.campaign_type
           fact   == OutcomeFact(ledger, report, clock)
           logged == Append(ledger, fact)
<1>1. ct \in CampaignTypes /\ fact.campaign_type = ct /\ fact.run_id \in RunIds
  BY InputAssumption DEF Report, OutcomeFact
<1>2. MayFollow(ledger, fact) /\ \A type : ~IsTransition(fact, type)
  BY OutcomeMayFollow
<1>3. Sound(logged) /\ TierOf(logged, ct) = TierOf(ledger, ct)
  <2> HIDE DEF fact
  <2> QED
    BY <1>1, <1>2, LoggedFirst
<1> DEFINE demotion == Demotion(logged, ct, clock, "demotion_deliverability")
<1>4. demotion = Demotion(ledger, ct, clock, "demotion_deliverability")
  BY <1>3, DemotionAfterFact
<1>5. ReportDemotes(ledger, report) => MayFollow(logged, demotion)
  BY <1>1, <1>3, DemotionMayFollow DEF ReportDemotes
<1>6. \/ OutcomeTransition(ledger, report, clock) = <<>>
      \/ /\ ReportDemotes(ledger, report)
         /\ OutcomeTransition(ledger, report, clock) = <<demotion>>
  <2> HIDE DEF demotion
  <2> QED
    BY <1>4 DEF OutcomeTransition
<1> HIDE DEF demotion, logged, fact, ct
<1>7. \A entry : MayFollow(logged, entry) => entry \in Entry
  BY DEF MayFollow
<1> QED
  BY <1>1, <1>2, <1>5, <1>6, <1>7 DEF logged, fact, MayMove

-----------------------------------------------------------------------------
(***************************************************************************)
(* The invariant.                                                          *)
(***************************************************************************)
SInv ==
  /\ ServiceTypeOK
  /\ Sound(ledger)
  /\ Lawful(ledger, call)
  /\ Announced(ledger, call)
  /\ InFlightIsRecorded

\* What may come after the entries of a plan that begins with the entry fact.
After(fact) ==
  {c \in Commit :
     /\ c.do # "append"
     /\ c.do = "enqueue" /\ c.item.status = "in_flight" =>
          IsAutoSend(fact, c.item.campaign_type) /\ fact.run_id = c.id}

LEMMA PlanSound ==
  ASSUME NEW log, NEW es \in Seq(Entry), Len(es) <= 2, Len(es) >= 1,
         NEW rest \in Seq(After(es[1])),
         MayFollow(log, es[1]),
         Len(es) = 2 => MayFollow(Append(log, es[1]), es[2])
  PROVE  /\ AppendAll(es) \o rest \in Seq(Commit)
         /\ Lawful(log, AppendAll(es) \o rest)
         /\ Announced(log, AppendAll(es) \o rest)
<1> DEFINE plan == AppendAll(es) \o rest
<1>1. After(es[1]) \subseteq Commit
  BY DEF After
<1>2. /\ rest \in Seq(Commit) /\ Len(rest) \in Nat /\ DOMAIN rest = 1 .. Len(rest)
      /\ \A k \in DOMAIN rest : rest[k] \in After(es[1])
  BY <1>1, SeqMonotonic, LenProperties, ElementOfSeq
<1>3. \A k \in DOMAIN rest : rest[k].do # "append"
  BY <1>2 DEF After
<1>4. /\ plan \in Seq(Commit)
      /\ Lawful(log, plan)
      /\ DOMAIN plan = 1 .. Len(es) + Len(rest)
      /\ \A k \in 1 .. Len(es) : plan[k] = [do |-> "append", entry |-> es[k]]
      /\ \A k \in (Len(es) + 1) .. (Len(es) + Len(rest)) : plan[k] = rest[k - Len(es)]
  BY <1>2, <1>3, PlanBegun, Zenon
<1> HIDE DEF plan
<1>5. plan[1].do = "append" /\ plan[1].entry = es[1]
  <2>1. 1 \in 1 .. Len(es)
    BY LenProperties
  <2>2. plan[1] = [do |-> "append", entry |-> es[1]]
    BY <1>4, <2>1, Zenon
  <2> QED
    BY <2>2
<1>6. ASSUME NEW k \in DOMAIN plan, plan[k].do = "enqueue",
             plan[k].item.status = "in_flight"
      PROVE  /\ IsAutoSend(es[1], plan[k].item.campaign_type)
             /\ es[1].run_id = plan[k].id
  <2>1. k \notin 1 .. Len(es)
    <3>1. k \in 1 .. Len(es) => plan[k] = [do |-> "append", entry |-> es[k]]
      BY <1>4, Zenon
    <3> QED
      BY <1>6, <3>1
  <2>2. CASE k \in (Len(es) + 1) .. (Len(es) + Len(rest))
    <3>1. k - Len(es) \in DOMAIN rest /\ plan[k] = rest[k - Len(es)]
      BY <1>2, <1>4, <2>2, LenProperties
    <3> QED
      BY <1>2, <1>6, <3>1 DEF After
  <2> QED
    BY <1>2, <1>4, <2>1, <2>2, LenProperties
<1>7. Announced(log, plan)
  BY <1>5, <1>6, Zenon DEF Announced
<1> QED
  BY <1>4, <1>7 DEF plan

\* A plan that queues nothing.
LEMMA QuietPlanSound ==
  ASSUME NEW log, NEW es \in Seq(Entry), NEW rest \in Seq(Commit), Len(es) <= 2,
         \A k \in DOMAIN rest : rest[k].do # "append",
         \A k \in DOMAIN rest : rest[k].do # "enqueue",
         Len(es) >= 1 => MayFollow(log, es[1]),
         Len(es) = 2 => MayFollow(Append(log, es[1]), es[2])
  PROVE  /\ AppendAll(es) \o rest \in Seq(Commit)
         /\ Lawful(log, AppendAll(es) \o rest)
         /\ Announced(log, AppendAll(es) \o rest)
<1> DEFINE plan == AppendAll(es) \o rest
<1>1. Len(es) \in Nat /\ Len(rest) \in Nat /\ DOMAIN rest = 1 .. Len(rest)
  BY LenProperties
<1>2. /\ plan \in Seq(Commit)
      /\ Lawful(log, plan)
      /\ DOMAIN plan = 1 .. Len(es) + Len(rest)
      /\ \A k \in 1 .. Len(es) : plan[k] = [do |-> "append", entry |-> es[k]]
      /\ \A k \in (Len(es) + 1) .. (Len(es) + Len(rest)) : plan[k] = rest[k - Len(es)]
  BY PlanBegun, ZenonT(40)
<1> HIDE DEF plan
<1>3. \A k \in DOMAIN plan : plan[k].do # "enqueue"
  <2> SUFFICES ASSUME NEW k \in DOMAIN plan PROVE plan[k].do # "enqueue"
    OBVIOUS
  <2>1. CASE k \in 1 .. Len(es)
    <3>1. plan[k] = [do |-> "append", entry |-> es[k]]
      BY <1>2, <2>1, Zenon
    <3> QED
      BY <3>1
  <2>2. CASE k \in (Len(es) + 1) .. (Len(es) + Len(rest))
    <3>1. k - Len(es) \in DOMAIN rest /\ plan[k] = rest[k - Len(es)]
      BY <1>1, <1>2, <2>2
    <3> QED
      BY <3>1
  <2> QED
    BY <1>1, <1>2, <2>1, <2>2
<1>4. Announced(log, plan)
  BY <1>3, Zenon DEF Announced
<1> QED
  BY <1>2, <1>4 DEF plan

LEMMA InitSInv == ServiceInit => SInv
<1> SUFFICES ASSUME ServiceInit PROVE SInv
  OBVIOUS
<1>1. Sound(ledger) /\ ceiling \in Tier /\ TypeOK
  BY InitIInv DEF ServiceInit, IInv, Sound, Grounded, TypeOK
<1>2. call = <<>> /\ DOMAIN call = {} /\ call \in Seq(Commit)
  BY DEF ServiceInit
<1>3. QueueTypeOK /\ DOMAIN items = {}
  BY DEF ServiceInit, QueueInit, QueueTypeOK
<1>4. ServiceTypeOK
  BY <1>1, <1>2, <1>3, ServiceAssumption, WindowAssumption DEF ServiceInit, ServiceTypeOK
<1> QED
  BY <1>1, <1>2, <1>3, <1>4 DEF SInv, Lawful, Announced, InFlightIsRecorded, ByStatus
-----------------------------------------------------------------------------
(***************************************************************************)
(* The calls.                                                              *)
(***************************************************************************)

\* A call changes nothing but the plan.
LEMMA Begun ==
  ASSUME SInv, NEW es, NEW rest, Begin(es, rest),
         AppendAll(es) \o rest \in Seq(Commit),
         Lawful(ledger, AppendAll(es) \o rest),
         Announced(ledger, AppendAll(es) \o rest)
  PROVE  SInv'
<1>1. /\ call' = AppendAll(es) \o rest
      /\ UNCHANGED <<ledger, items, traces, candidates, ceiling, screen, clock, crashes>>
  BY Zenon DEF Begin, stores
<1>2. call' \in Seq(Commit) /\ Lawful(ledger, call') /\ Announced(ledger, call')
  BY <1>1
<1>3. Sound(ledger)' /\ InFlightIsRecorded'
  BY <1>1 DEF SInv, InFlightIsRecorded, ByStatus
<1>4. Lawful(ledger, call)' /\ Announced(ledger, call)'
  BY <1>1, <1>2
<1>5. ServiceTypeOK'
  BY <1>1, <1>2 DEF SInv, ServiceTypeOK, TypeOK, QueueTypeOK
<1> QED
  BY <1>3, <1>4, <1>5 DEF SInv

\* What the invariant says of the state a call reads.
LEMMA ReadState ==
  ASSUME SInv
  PROVE  /\ Sound(ledger) /\ ceiling \in Tier /\ clock \in 0 .. MaxClock /\ clock \in Times
         /\ call \in Seq(Commit) /\ ledger \in Seq(Entry)
         /\ Lawful(ledger, call) /\ Announced(ledger, call)
  BY ServiceAssumption, WindowAssumption DEF SInv, ServiceTypeOK, TypeOK

LEMMA RecordRunStep ==
  ASSUME SInv, NEW evaluation \in Evaluations, RecordRun(evaluation)
  PROVE  SInv'
<1> DEFINE id    == evaluation.run_id
           ct    == evaluation.campaign_type
           run   == RunFact(ledger, evaluation, clock)
           moved == RunTransition(ledger, evaluation, clock)
           es    == <<run>> \o moved
           queue == <<[do |-> "enqueue", id |-> id, item |-> RunItem(evaluation)]>>
           down  == DowngradeIf(RunDemotes(ledger, evaluation), ct)
           trace == <<[do |-> "trace", id |-> id, trace |-> RunTrace(evaluation)]>>
           rest  == queue \o down \o trace
<1>1. Begin(es, rest)
  BY Zenon DEF RecordRun
<1>2. id \in RunIds /\ ct \in CampaignTypes
  BY InputAssumption DEF Evaluation
<1>3. /\ es \in Seq(Entry) /\ Len(es) <= 2 /\ Len(es) >= 1 /\ es[1] = run
      /\ MayFollow(ledger, es[1])
      /\ Len(es) = 2 => MayFollow(Append(ledger, es[1]), es[2])
  <2>1. MayFollow(ledger, run) /\ MayMove(Append(ledger, run), moved)
    BY ReadState, RunPlan
  <2>2. es = <<run>> \o moved
    OBVIOUS
  <2> HIDE DEF run, moved, es
  <2> QED
    BY <2>1, <2>2, ReadState, FactThenTransition, Zenon
<1>4. rest \in Seq(After(run))
  <2>1. [do |-> "enqueue", id |-> id, item |-> RunItem(evaluation)] \in After(run)
    BY <1>2, ReadState, RunItemTyped DEF After, Commit
  <2>2. [do |-> "downgrade", ct |-> ct] \in After(run)
    BY <1>2 DEF After, Commit
  <2>3. [do |-> "trace", id |-> id, trace |-> RunTrace(evaluation)] \in After(run)
    BY <1>2, ReadState, RunItemTyped DEF After, Commit
  <2> HIDE DEF id, ct, run
  <2>4. queue \in Seq(After(run)) /\ trace \in Seq(After(run))
    BY <2>1, <2>3
  <2>5. down \in Seq(After(run))
    BY <2>2 DEF DowngradeIf
  <2> HIDE DEF queue, down, trace
  <2>6. queue \o down \in Seq(After(run))
    BY <2>4, <2>5, ConcatProperties
  <2> QED
    BY <2>4, <2>6, ConcatProperties
<1> HIDE DEF es, run, rest
<1>5. rest \in Seq(After(es[1]))
  BY <1>3, <1>4
<1>6. /\ AppendAll(es) \o rest \in Seq(Commit)
      /\ Lawful(ledger, AppendAll(es) \o rest)
      /\ Announced(ledger, AppendAll(es) \o rest)
  BY <1>3, <1>5, PlanSound, Zenon
<1> QED
  BY <1>1, <1>6, Begun, Zenon

LEMMA OutcomeStep ==
  ASSUME SInv, NEW report \in Reports, ProcessOutcome(report)
  PROVE  SInv'
<1> DEFINE fact  == OutcomeFact(ledger, report, clock)
           moved == OutcomeTransition(ledger, report, clock)
           es    == <<fact>> \o moved
           down  == DowngradeIf(ReportDemotes(ledger, report), report.campaign_type)
           flag  == FlagIf(fact)
           rest  == down \o flag
           quiet == {c \in Commit : c.do \in {"downgrade", "flag"}}
<1>1. Begin(es, rest)
  BY Zenon DEF ProcessOutcome
<1>2. /\ MayFollow(ledger, fact) /\ fact.run_id \in RunIds
      /\ MayMove(Append(ledger, fact), moved)
  BY ReadState, OutcomePlan
<1>3. report.campaign_type \in CampaignTypes
  BY InputAssumption DEF Report
<1> HIDE DEF fact, moved
<1>4. /\ es \in Seq(Entry) /\ Len(es) <= 2
      /\ Len(es) >= 1 => MayFollow(ledger, es[1])
      /\ Len(es) = 2 => MayFollow(Append(ledger, es[1]), es[2])
  <2>1. es = <<fact>> \o moved
    OBVIOUS
  <2> HIDE DEF es
  <2> QED
    BY <1>2, <2>1, ReadState, FactThenTransition, Zenon
<1>5. rest \in Seq(quiet)
  <2>1. [do |-> "downgrade", ct |-> report.campaign_type] \in quiet
    BY <1>3 DEF Commit
  <2>2. [do |-> "flag", id |-> fact.run_id] \in quiet
    BY <1>2 DEF Commit
  <2> HIDE DEF quiet
  <2>3. down \in Seq(quiet)
    BY <2>1 DEF DowngradeIf
  <2>4. flag \in Seq(quiet)
    BY <2>2 DEF FlagIf
  <2> HIDE DEF down, flag
  <2> QED
    BY <2>3, <2>4, ConcatProperties
<1> HIDE DEF rest, es
<1>6. /\ rest \in Seq(Commit)
      /\ \A k \in DOMAIN rest : rest[k].do # "append"
      /\ \A k \in DOMAIN rest : rest[k].do # "enqueue"
  <2>1. quiet \subseteq Commit /\ \A c \in quiet : c.do # "append" /\ c.do # "enqueue"
    OBVIOUS
  <2> HIDE DEF quiet
  <2>2. DOMAIN rest = 1 .. Len(rest) /\ rest \in Seq(Commit)
    BY <1>5, <2>1, SeqMonotonic, LenProperties
  <2>3. \A k \in DOMAIN rest : rest[k] \in quiet
    BY <1>5, <2>2, ElementOfSeq
  <2> QED
    BY <2>1, <2>2, <2>3
<1>7. /\ AppendAll(es) \o rest \in Seq(Commit)
      /\ Lawful(ledger, AppendAll(es) \o rest)
      /\ Announced(ledger, AppendAll(es) \o rest)
  BY <1>4, <1>6, QuietPlanSound, Zenon
<1> QED
  BY <1>1, <1>7, Begun, Zenon

LEMMA ChallengeStep ==
  ASSUME SInv, NEW ct \in CampaignTypes, NEW score, Challenge(ct, score)
  PROVE  SInv'
<1> DEFINE judged == ChallengeVerdict(ledger, ct, score, clock)
           es      == <<judged>>
           rest    == <<>>
<1>1. Begin(es, rest) /\ StandingOf(ledger, ct) = "probation"
  BY Zenon DEF Challenge
<1>2. MayFollow(ledger, judged)
  BY <1>1, ReadState, VerdictMayFollow
<1>3. judged \in Entry
  BY <1>2, Zenon DEF MayFollow
<1> HIDE DEF judged
<1>4. /\ es \in Seq(Entry) /\ Len(es) <= 2 /\ Len(es) # 2
      /\ Len(es) >= 1 => MayFollow(ledger, es[1])
  BY <1>2, <1>3
<1>5. /\ rest \in Seq(Commit)
      /\ \A k \in DOMAIN rest : rest[k].do # "append"
      /\ \A k \in DOMAIN rest : rest[k].do # "enqueue"
  OBVIOUS
<1> HIDE DEF es, rest
<1>6. /\ AppendAll(es) \o rest \in Seq(Commit)
      /\ Lawful(ledger, AppendAll(es) \o rest)
      /\ Announced(ledger, AppendAll(es) \o rest)
  BY <1>4, <1>5, QuietPlanSound, Zenon
<1> QED
  BY <1>1, <1>6, Begun, Zenon

LEMMA QueueCallStep ==
  ASSUME SInv, RefreshQueue \/ ApproveAll
  PROVE  SInv'
<1> DEFINE quiet == {c \in Commit : c.do \in {"mark", "show"}}
<1>1. \E rest \in Seq(quiet) : Begin(<<>>, rest)
  <2>1. /\ DOMAIN items \subseteq RunIds /\ screen \in SUBSET RunIds
        /\ NewlyExpired(clock) \in SUBSET RunIds
        /\ LaneAt("batch", clock) \in SUBSET RunIds
    BY DEF SInv, ServiceTypeOK, QueueTypeOK, NewlyExpired, LaneAt, ByStatus
  <2>2. /\ [do |-> "mark", ids |-> NewlyExpired(clock), status |-> "expired"] \in quiet
        /\ [do |-> "show", ids |-> LaneAt("batch", clock)] \in quiet
        /\ [do |-> "mark", ids |-> screen, status |-> "approved"] \in quiet
    BY <2>1 DEF Commit
  <2> HIDE DEF quiet
  <2>3. /\ <<[do |-> "mark", ids |-> NewlyExpired(clock), status |-> "expired"],
             [do |-> "show", ids |-> LaneAt("batch", clock)]>> \in Seq(quiet)
        /\ <<[do |-> "mark", ids |-> screen, status |-> "approved"]>> \in Seq(quiet)
    BY <2>2
  <2> QED
    BY <2>3, Zenon DEF RefreshQueue, ApproveAll
<1>2. PICK rest \in Seq(quiet) : Begin(<<>>, rest)
  BY <1>1, Zenon
<1>3. /\ rest \in Seq(Commit)
      /\ \A k \in DOMAIN rest : rest[k].do # "append"
      /\ \A k \in DOMAIN rest : rest[k].do # "enqueue"
  <2>1. quiet \subseteq Commit /\ \A c \in quiet : c.do # "append" /\ c.do # "enqueue"
    OBVIOUS
  <2> HIDE DEF quiet
  <2>2. DOMAIN rest = 1 .. Len(rest) /\ rest \in Seq(Commit)
    BY <1>2, <2>1, SeqMonotonic, LenProperties
  <2>3. \A k \in DOMAIN rest : rest[k] \in quiet
    BY <1>2, <2>2, ElementOfSeq
  <2> QED
    BY <2>1, <2>2, <2>3
<1> DEFINE es == <<>>
<1>4. /\ es \in Seq(Entry) /\ Len(es) <= 2
      /\ Len(es) >= 1 => MayFollow(ledger, es[1])
      /\ Len(es) = 2 => MayFollow(Append(ledger, es[1]), es[2])
  <2>1. es \in Seq(Entry) /\ Len(es) = 0
    OBVIOUS
  <2> HIDE DEF es
  <2> QED
    BY <2>1
<1>5. Begin(es, rest)
  BY <1>2
<1> HIDE DEF es, quiet
<1>6. /\ AppendAll(es) \o rest \in Seq(Commit)
      /\ Lawful(ledger, AppendAll(es) \o rest)
      /\ Announced(ledger, AppendAll(es) \o rest)
  BY <1>3, <1>4, QuietPlanSound, Zenon
<1> QED
  BY <1>5, <1>6, Begun, Zenon

-----------------------------------------------------------------------------
(***************************************************************************)
(* The commits.                                                            *)
(***************************************************************************)

\* What a commit finds at the head of the plan.
LEMMA AtHead ==
  ASSUME SInv, NEW kind, Committing(kind)
  PROVE  /\ call \in Seq(Commit) /\ call # <<>>
         /\ Head(call) = call[1] /\ 1 \in DOMAIN call
         /\ call[1] \in Commit /\ call[1].do = kind
  BY ReadState, PlanTail DEF Committing

LEMMA AppendEntryStep ==
  ASSUME SInv, AppendEntry
  PROVE  SInv'
<1> DEFINE entry == call[1].entry
<1>1. /\ call \in Seq(Commit) /\ call # <<>> /\ Head(call) = call[1]
      /\ call[1] \in Commit /\ call[1].do = "append"
  BY AtHead DEF AppendEntry
<1>2. /\ ledger' = Append(ledger, entry) /\ call' = Tail(call)
      /\ UNCHANGED <<items, traces, candidates, ceiling, screen, clock, crashes>>
  BY <1>1 DEF AppendEntry, Done
<1>3. /\ MayFollow(ledger, entry)
      /\ call' \in Seq(Commit)
      /\ Lawful(ledger', call') /\ Announced(ledger', call')
      /\ \A id, ct : SentBy(ledger, id, ct) => SentBy(ledger', id, ct)
  BY <1>1, <1>2, ReadState, AppendDone, Zenon
<1> HIDE DEF entry
<1>4. Sound(ledger')
  BY <1>2, <1>3, ReadState, SoundAppend
<1>5. ledger' \in Seq(Entry)
  BY <1>4, Zenon DEF Sound, Grounded
<1>6. InFlightIsRecorded'
  BY <1>2, <1>3 DEF SInv, InFlightIsRecorded, ByStatus, SentBy
<1>7. ServiceTypeOK'
  BY <1>2, <1>3, <1>5 DEF SInv, ServiceTypeOK, TypeOK, QueueTypeOK
<1> QED
  BY <1>3, <1>4, <1>6, <1>7 DEF SInv

\* Every other commit leaves the ledger and may drop its head.
LEMMA CommitDone ==
  ASSUME SInv, NEW kind, kind # "append", Committing(kind), call' = Tail(call),
         UNCHANGED <<ledger, ceiling>>
  PROVE  /\ call' \in Seq(Commit)
         /\ Sound(ledger)' /\ Lawful(ledger, call)' /\ Announced(ledger, call)'
<1>1. /\ call \in Seq(Commit) /\ call # <<>> /\ call[1].do # "append"
      /\ Sound(ledger) /\ Lawful(ledger, call) /\ Announced(ledger, call)
  BY AtHead, ReadState
<1>2. /\ Tail(call) \in Seq(Commit)
      /\ Lawful(ledger, Tail(call)) /\ Announced(ledger, Tail(call))
  BY <1>1, OtherDone, Zenon
<1> QED
  BY <1>1, <1>2

\* An item added to the queue, where an item in flight is a send on record.
LEMMA ItemAdded ==
  ASSUME QueueTypeOK, InFlightIsRecorded, NEW id \in RunIds, NEW item \in QueueItem,
         item.status = "in_flight" => SentBy(ledger, id, item.campaign_type),
         Add(id, item), UNCHANGED ledger
  PROVE  QueueTypeOK' /\ InFlightIsRecorded'
<1>1. /\ DOMAIN items' = DOMAIN items \cup {id}
      /\ \A key \in DOMAIN items' : items'[key] = IF key = id THEN item ELSE items[key]
  BY DEF Add
<1>2. QueueTypeOK'
  BY <1>1 DEF QueueTypeOK
<1>3. ASSUME NEW key \in DOMAIN items', items'[key].status = "in_flight"
      PROVE  SentBy(ledger, key, items'[key].campaign_type)
  <2>1. CASE key = id
    BY <1>1, <1>3, <2>1
  <2>2. CASE key # id
    <3>1. key \in DOMAIN items /\ items'[key] = items[key]
      BY <1>1, <2>2
    <3> QED
      BY <1>3, <3>1 DEF InFlightIsRecorded, ByStatus, SentBy
  <2> QED
    BY <2>1, <2>2
<1>4. InFlightIsRecorded'
  BY <1>3 DEF InFlightIsRecorded, ByStatus, SentBy
<1> QED
  BY <1>2, <1>4

LEMMA EnqueueStep ==
  ASSUME SInv, Enqueue
  PROVE  SInv'
<1> DEFINE id   == call[1].id
           item == call[1].item
<1>1. /\ Head(call) = call[1] /\ 1 \in DOMAIN call /\ call[1] \in Commit
      /\ call[1].do = "enqueue"
  BY AtHead DEF Enqueue
<1>2. /\ Add(id, item) /\ call' = Tail(call)
      /\ UNCHANGED <<ledger, traces, candidates, ceiling, screen, clock, crashes>>
  BY <1>1 DEF Enqueue, Done
<1>3. id \in RunIds /\ item \in QueueItem
  BY <1>1, CommitFields
<1>4. item.status = "in_flight" => SentBy(ledger, id, item.campaign_type)
  BY <1>1, ReadState DEF Announced
<1> HIDE DEF id, item
<1>5. QueueTypeOK' /\ InFlightIsRecorded'
  BY <1>2, <1>3, <1>4, ItemAdded DEF SInv, ServiceTypeOK
<1>6. Committing("enqueue")
  BY DEF Enqueue
<1>7. /\ call' \in Seq(Commit)
      /\ Sound(ledger)' /\ Lawful(ledger, call)' /\ Announced(ledger, call)'
  BY <1>2, <1>6, CommitDone
<1>8. ServiceTypeOK'
  BY <1>2, <1>5, <1>7 DEF SInv, ServiceTypeOK, TypeOK
<1> QED
  BY <1>5, <1>7, <1>8 DEF SInv

\* A commit replaced at the head of the plan by another one that appends and
\* queues nothing.
LEMMA HeadReplaced ==
  ASSUME SInv, NEW kind, kind # "append", Committing(kind),
         NEW first \in Commit, first.do = "mark",
         call' = <<first>> \o Tail(call), UNCHANGED <<ledger, ceiling>>
  PROVE  /\ call' \in Seq(Commit)
         /\ Sound(ledger)' /\ Lawful(ledger, call)' /\ Announced(ledger, call)'
<1>1. /\ call \in Seq(Commit) /\ call # <<>> /\ call[1].do # "append"
      /\ Sound(ledger) /\ Lawful(ledger, call) /\ Announced(ledger, call)
  BY AtHead, ReadState
<1>2. first.do \notin {"append", "enqueue"}
  OBVIOUS
<1>3. /\ <<first>> \o Tail(call) \in Seq(Commit)
      /\ Lawful(ledger, <<first>> \o Tail(call))
      /\ Announced(ledger, <<first>> \o Tail(call))
  BY <1>1, <1>2, OtherDone, Zenon
<1> QED
  BY <1>1, <1>3

LEMMA DowngradeStep ==
  ASSUME SInv, DowngradeInflight
  PROVE  SInv'
<1> DEFINE first == [do |-> "mark", status |-> "pending", ids |-> InFlight(Head(call).ct)]
<1>1. /\ Committing("downgrade") /\ call' = <<first>> \o Tail(call)
      /\ UNCHANGED <<ledger, items, traces, candidates, ceiling, screen, clock, crashes>>
  BY DEF DowngradeInflight, stores
<1>2. first \in Commit /\ first.do = "mark"
  BY DEF Commit, InFlight, ByStatus, SInv, ServiceTypeOK, QueueTypeOK
<1> HIDE DEF first
<1>3. /\ call' \in Seq(Commit)
      /\ Sound(ledger)' /\ Lawful(ledger, call)' /\ Announced(ledger, call)'
  BY <1>1, <1>2, HeadReplaced
<1>4. ServiceTypeOK' /\ InFlightIsRecorded'
  BY <1>1, <1>3
     DEF SInv, ServiceTypeOK, TypeOK, QueueTypeOK, InFlightIsRecorded, ByStatus
<1> QED
  BY <1>3, <1>4 DEF SInv

LEMMA MarkOneStep ==
  ASSUME SInv, MarkOne
  PROVE  SInv'
<1>1. Committing("mark")
  BY DEF MarkOne
<1>2. PICK id \in Head(call).ids :
        /\ SetStatus(id, Head(call).status)
        /\ call' = <<[Head(call) EXCEPT !.ids = @ \ {id}]>> \o Tail(call)
  BY DEF MarkOne
<1>3. UNCHANGED <<ledger, traces, candidates, ceiling, screen, clock, crashes>>
  BY DEF MarkOne
<1> DEFINE commit == Head(call)
           first  == [commit EXCEPT !.ids = commit.ids \ {id}]
           item   == [items[id] EXCEPT !.status = commit.status]
<1>4. /\ commit \in Commit /\ commit.do = "mark" /\ commit.ids \in SUBSET RunIds
      /\ commit.status \in {"pending", "approved", "expired"}
  BY <1>1, AtHead, CommitFields
<1>5. first \in Commit /\ first.do = "mark" /\ call' = <<first>> \o Tail(call)
  <2>1. call' = <<first>> \o Tail(call)
    BY <1>2
  <2> HIDE DEF commit
  <2>2. commit.ids \ {id} \in SUBSET RunIds
    BY <1>4
  <2> QED
    BY <1>4, <2>1, <2>2, CommitFields
<1>6. /\ call' \in Seq(Commit)
      /\ Sound(ledger)' /\ Lawful(ledger, call)' /\ Announced(ledger, call)'
  <2> HIDE DEF first
  <2> QED
    BY <1>1, <1>3, <1>5, HeadReplaced
<1>7. id \in DOMAIN items /\ Add(id, item)
  BY <1>2 DEF SetStatus
<1>8. id \in RunIds /\ item \in QueueItem /\ item.status # "in_flight"
  <2>1. id \in RunIds /\ items[id] \in QueueItem
    BY <1>7 DEF SInv, ServiceTypeOK, QueueTypeOK
  <2> HIDE DEF commit
  <2> QED
    BY <1>4, <2>1 DEF QueueItem, ItemStatus
<1> HIDE DEF item, first, commit
<1>9. QueueTypeOK' /\ InFlightIsRecorded'
  BY <1>3, <1>7, <1>8, ItemAdded DEF SInv, ServiceTypeOK
<1>10. ServiceTypeOK'
  BY <1>3, <1>6, <1>9 DEF SInv, ServiceTypeOK, TypeOK
<1> QED
  BY <1>6, <1>9, <1>10 DEF SInv

\* The other commits leave the ledger and the queue alone.
LEMMA OtherCommitStep ==
  ASSUME SInv, AllMarked \/ StoreTrace \/ FlagCandidate \/ Show
  PROVE  SInv'
<1>1. PICK kind \in {"mark", "trace", "flag", "show"} : Committing(kind)
  BY DEF AllMarked, StoreTrace, FlagCandidate, Show
<1>2. call' = Tail(call) /\ UNCHANGED <<ledger, items, ceiling, clock, crashes>>
  BY DEF AllMarked, StoreTrace, FlagCandidate, Show, Done, stores
<1>3. /\ call' \in Seq(Commit)
      /\ Sound(ledger)' /\ Lawful(ledger, call)' /\ Announced(ledger, call)'
  BY <1>1, <1>2, CommitDone
<1>4. InFlightIsRecorded' /\ QueueTypeOK' /\ TypeOK' /\ clock' \in 0 .. MaxClock
      /\ crashes' \in 0 .. MaxCrashes
  BY <1>2 DEF SInv, ServiceTypeOK, TypeOK, QueueTypeOK, InFlightIsRecorded, ByStatus
<1>5. /\ DOMAIN traces \subseteq RunIds /\ \A id \in DOMAIN traces : traces[id] \in Trace
      /\ candidates \subseteq RunIds /\ screen \subseteq RunIds
  BY DEF SInv, ServiceTypeOK
<1>6. /\ Head(call) = call[1] /\ call[1] \in Commit /\ call[1].do = kind
  BY <1>1, AtHead
<1>7. /\ DOMAIN traces' \subseteq RunIds /\ \A id \in DOMAIN traces' : traces'[id] \in Trace
      /\ candidates' \subseteq RunIds /\ screen' \subseteq RunIds
  <2>1. CASE AllMarked
    BY <1>5, <2>1 DEF AllMarked, Done, stores
  <2>2. CASE StoreTrace
    <3>1. call[1].id \in RunIds /\ call[1].trace \in Trace
      BY <1>6, <2>2, CommitFields DEF StoreTrace, Committing
    <3>2. /\ traces' = [id \in DOMAIN traces \cup {call[1].id} |->
                          IF id = call[1].id THEN call[1].trace ELSE traces[id]]
          /\ UNCHANGED <<candidates, screen>>
      BY <1>6, <2>2 DEF StoreTrace, Done
    <3> QED
      BY <1>5, <3>1, <3>2
  <2>3. CASE FlagCandidate
    <3>1. call[1].id \in RunIds
      BY <1>6, <2>3, CommitFields DEF FlagCandidate, Committing
    <3> QED
      BY <1>5, <1>6, <2>3, <3>1 DEF FlagCandidate, Done
  <2>4. CASE Show
    <3>1. call[1].ids \in SUBSET RunIds
      BY <1>6, <2>4, CommitFields DEF Show, Committing
    <3> QED
      BY <1>5, <1>6, <2>4, <3>1 DEF Show, stores
  <2> QED
    BY <2>1, <2>2, <2>3, <2>4
<1>8. ServiceTypeOK'
  BY <1>3, <1>4, <1>7 DEF ServiceTypeOK
<1> QED
  BY <1>3, <1>4, <1>8 DEF SInv

-----------------------------------------------------------------------------
(***************************************************************************)
(* The environment: a crash drops the rest of the plan.                    *)
(***************************************************************************)
LEMMA EnvironmentStep ==
  ASSUME SInv, Tick \/ Crash \/ RestartIdle
  PROVE  SInv'
<1>1. /\ UNCHANGED <<ledger, items, traces, candidates, screen>>
      /\ call' = call \/ call' = <<>>
      /\ ceiling' = ceiling \/ ceiling' \in Ceilings
      /\ clock' = clock \/ (clock < MaxClock /\ clock' = clock + 1)
      /\ crashes' = crashes \/ (crashes < MaxCrashes /\ crashes' = crashes + 1)
  BY DEF Tick, Crash, RestartIdle, Restart, stores
<1>2. /\ call' \in Seq(Commit)
      /\ Sound(ledger)' /\ Lawful(ledger, call)' /\ Announced(ledger, call)'
  <2>1. CASE call' = call
    BY <1>1, <2>1, ReadState
  <2>2. CASE call' = <<>>
    <3>1. call' \in Seq(Commit) /\ DOMAIN call' = {}
      BY <2>2
    <3> QED
      BY <1>1, <3>1, ReadState DEF Lawful, Announced
  <2> QED
    BY <1>1, <2>1, <2>2
<1>3. InFlightIsRecorded' /\ QueueTypeOK'
  BY <1>1 DEF SInv, ServiceTypeOK, QueueTypeOK, InFlightIsRecorded, ByStatus
<1>4. ceiling' \in Tier /\ clock' \in 0 .. MaxClock /\ crashes' \in 0 .. MaxCrashes
  BY <1>1, ConfigAssumption, ServiceAssumption, WindowAssumption DEF SInv, ServiceTypeOK, TypeOK
<1>5. ServiceTypeOK'
  BY <1>1, <1>2, <1>3, <1>4 DEF SInv, ServiceTypeOK, TypeOK
<1> QED
  BY <1>2, <1>3, <1>5 DEF SInv

LEMMA NextSInv == SInv /\ [ServiceNext]_svars => SInv'
<1> SUFFICES ASSUME SInv, [ServiceNext]_svars PROVE SInv'
  OBVIOUS
<1>1. CASE \E evaluation \in Evaluations : RecordRun(evaluation)
  BY <1>1, RecordRunStep
<1>2. CASE \E report \in Reports : ProcessOutcome(report)
  BY <1>2, OutcomeStep
<1>3. CASE \E ct \in CampaignTypes, score \in Challenges : Challenge(ct, score)
  BY <1>3, ChallengeStep
<1>4. CASE RefreshQueue \/ ApproveAll
  BY <1>4, QueueCallStep
<1>5. CASE Step
  BY <1>5, AppendEntryStep, EnqueueStep, DowngradeStep, MarkOneStep, OtherCommitStep
     DEF Step
<1>6. CASE Tick \/ Crash \/ RestartIdle
  BY <1>6, EnvironmentStep
<1>7. CASE UNCHANGED svars
  BY <1>7 DEF svars, stores, SInv, ServiceTypeOK, TypeOK, QueueTypeOK, Lawful, Announced,
              SentBy, InFlightIsRecorded, ByStatus
<1> QED
  BY <1>1, <1>2, <1>3, <1>4, <1>5, <1>6, <1>7 DEF ServiceNext

\* However a call is cut off, the stores stay as the invariant says.
THEOREM ServiceInvariant == ServiceSpec => []SInv
  BY InitSInv, NextSInv, PTL DEF ServiceSpec

\* The four stores, the plan of the call in progress and the counters hold only
\* what the code may put there (ledger.py, queue/models.py:23-52).
THEOREM ServiceTypeCorrect == ServiceSpec => []ServiceTypeOK
<1>1. SInv => ServiceTypeOK
  BY DEF SInv
<1> QED
  BY <1>1, ServiceInvariant, PTL

\* Complete mediation survives crashes: each send on record was trusted by the
\* ledger before it, although a demotion may have been lost with the rest of
\* its call (controller.py:141-172).
THEOREM MediationDespiteCrashes == ServiceSpec => []SendsWhileTrusted
<1>1. SInv => SendsWhileTrusted
  BY DEF SInv, Sound, SendsTrusted, SendsWhileTrusted
<1> QED
  BY <1>1, ServiceInvariant, PTL

\* The transitions on record form one chain, wherever calls were cut off: a
\* call between its two appends leaves nothing the next one cannot continue.
THEOREM ChainDespiteCrashes == ServiceSpec => []TransitionChain
<1>1. SInv => TransitionChain
  BY DEF SInv, Sound, Chained, TransitionChain
<1> QED
  BY <1>1, ServiceInvariant, PTL

\* The queue never runs ahead of the ledger: what it shows in flight is an
\* autonomous send on record (service.py:155-163).
THEOREM QueueBehindLedger == ServiceSpec => []InFlightIsRecorded
<1>1. SInv => InFlightIsRecorded
  BY DEF SInv
<1> QED
  BY <1>1, ServiceInvariant, PTL
=============================================================================
