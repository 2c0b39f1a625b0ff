---------------------------- MODULE ConsoleProofs ----------------------------
(***************************************************************************)
(* Theorems about the console, for every value of the constants and so for *)
(* any number of threads and calls: the stores hold only what the code may *)
(* put there, and the queue shows nothing in flight that the ledger does   *)
(* not know as sent, whatever the interleaving.                            *)
(*                                                                         *)
(* The invariant says of each job on its own what it carries.  An item on  *)
(* its way to the queue is either pending, or announced by a send that is  *)
(* on the ledger or is the very entry the job is about to insert.  Another *)
(* thread's step cannot take that away: the ledger only grows, and no row  *)
(* of the queue is deleted.                                                *)
(***************************************************************************)
EXTENDS Console, RateLimitProofs, SequenceTheorems

Simulating ==
  {"read", "route", "standing", "weigh", "enqueue", "outcome", "downgrade", "flag",
   "return"}

\* Where a job holds the item of the run it has recorded.
Holding == {"standing", "weigh", "enqueue"}

SimOK(sim) ==
  /\ sim \in [ct : CampaignTypes, n : Nat, scenario : Scenarios, began : Clocks,
              i : Nat, sums : Totals]
  /\ sim.i < sim.n
  /\ sim.n <= Len(SimIds[sim.ct])

SentBy(log, id, ct) ==
  \E i \in DOMAIN log : IsAutoSend(log[i], ct) /\ log[i].run_id = id

\* What a job goes on with after it has inserted an entry.
FollowsInsert(log, entry, next) ==
  /\ next.at \in {"standing", "enqueue", "read", "flag", "return", "downgrade", "take"}
  /\ next.at \in Simulating => SimOK(next.sim)
  /\ next.at \in Holding =>
       /\ next.item \in QueueItem
       /\ next.item.status = "in_flight" =>
            \/ SentBy(log, RunId(next.sim), next.item.campaign_type)
            \/ /\ IsAutoSend(entry, next.item.campaign_type)
               /\ entry.run_id = RunId(next.sim)
  /\ next.at = "take" =>
       /\ next.entry \in Entry
       /\ next.then.at = "downgrade"
       /\ SimOK(next.then.sim)

\* What a job goes on with after it has marked some items.
FollowsMarks(rows, next) ==
  /\ next.at \in {"read", "flag", "return", "show", "idle"}
  /\ next.at \in Simulating => SimOK(next.sim)
  /\ next.at = "show" => next.ids \subseteq rows

JobOK(log, rows, j) ==
  /\ j.at \in Simulating => SimOK(j.sim)
  /\ j.at \in {"route", "weigh"} => j.seen \in 0 .. Len(log)
  /\ j.at = "weigh" => TierOf(SubSeq(log, 1, j.seen), j.sim.ct) < SUPERVISED
  /\ j.at \in Holding =>
       /\ j.item \in QueueItem
       /\ j.item.status = "in_flight" =>
            SentBy(log, RunId(j.sim), j.item.campaign_type)
  /\ j.at = "show" => j.ids \subseteq rows
  /\ j.at \in {"take", "insert"} => j.entry \in Entry /\ FollowsInsert(log, j.entry, j.then)
  /\ j.at \in {"mark", "put"} =>
       /\ j.ids \subseteq rows
       /\ j.status \in ItemStatus \ {"in_flight"}
       /\ FollowsMarks(rows, j.then)
  /\ j.at = "put" => j.id \in rows /\ j.item \in QueueItem

JobsOK ==
  /\ DOMAIN job = Threads
  /\ screen \subseteq DOMAIN items
  /\ \A t \in Threads : JobOK(ledger, DOMAIN items, job[t])

CInv ==
  /\ ConsoleTypeOK
  /\ Grounded(ledger)
  /\ InFlightIsRecorded
  /\ JobsOK

-----------------------------------------------------------------------------
(***************************************************************************)
(* The ledger and its prefixes.                                            *)
(***************************************************************************)
LEMMA SendStays ==
  ASSUME NEW log \in Seq(Entry), NEW entry \in Entry, NEW id, NEW ct,
         \/ SentBy(log, id, ct)
         \/ IsAutoSend(entry, ct) /\ entry.run_id = id
  PROVE  SentBy(Append(log, entry), id, ct)
<1>1. /\ DOMAIN log = 1 .. Len(log) /\ Len(log) \in Nat
      /\ DOMAIN Append(log, entry) = 1 .. Len(log) + 1
      /\ \A i \in 1 .. Len(log) : Append(log, entry)[i] = log[i]
      /\ Append(log, entry)[Len(log) + 1] = entry
  BY AppendFacts
<1>2. CASE SentBy(log, id, ct)
  BY <1>1, <1>2 DEF SentBy
<1>3. CASE IsAutoSend(entry, ct) /\ entry.run_id = id
  <2>1. Len(log) + 1 \in DOMAIN Append(log, entry)
    BY <1>1
  <2> QED
    BY <1>1, <1>3, <2>1 DEF SentBy
<1> QED
  BY <1>2, <1>3

\* What was read before the ledger grew reads the same after.
LEMMA PrefixStays ==
  ASSUME NEW log \in Seq(Entry), NEW entry \in Entry, NEW k \in 0 .. Len(log)
  PROVE  SubSeq(Append(log, entry), 1, k) = SubSeq(log, 1, k)
<1> DEFINE more == Append(log, entry)
<1>1. /\ more \in Seq(Entry) /\ Len(more) = Len(log) + 1 /\ Len(log) \in Nat
      /\ \A i \in 1 .. Len(log) : more[i] = log[i]
  BY AppendFacts
<1> HIDE DEF more
<1>2. k \in 0 .. Len(more) /\ 1 .. k \subseteq 1 .. Len(log)
  BY <1>1
<1>3. \A i \in 1 .. k : more[i] \in Entry /\ log[i] \in Entry /\ more[i] = log[i]
  BY <1>1, <1>2, ElementOfSeq
<1>4. /\ SubSeq(more, 1, k) \in Seq(Entry) /\ Len(SubSeq(more, 1, k)) = k
      /\ \A i \in 1 .. k : SubSeq(more, 1, k)[i] = log[i]
  BY <1>1, <1>3, SubSeqProperties
<1>5. /\ SubSeq(log, 1, k) \in Seq(Entry) /\ Len(SubSeq(log, 1, k)) = k
      /\ \A i \in 1 .. k : SubSeq(log, 1, k)[i] = log[i]
  BY <1>1, <1>3, SubSeqProperties
<1>6. \A i \in 1 .. Len(SubSeq(more, 1, k)) : SubSeq(more, 1, k)[i] = SubSeq(log, 1, k)[i]
  BY <1>4, <1>5
<1>7. SubSeq(more, 1, k) = SubSeq(log, 1, k)
  BY <1>4, <1>5, <1>6, SeqEqual
<1> QED
  BY <1>7 DEF more

LEMMA PrefixGrounded ==
  ASSUME NEW log, Grounded(log), NEW k \in 0 .. Len(log)
  PROVE  Grounded(SubSeq(log, 1, k))
<1> DEFINE part == SubSeq(log, 1, k)
<1>1. log \in Seq(Entry) /\ Len(log) \in Nat /\ \A i \in 1 .. k : log[i] \in Entry
  <2>1. log \in Seq(Entry)
    BY DEF Grounded
  <2> QED
    BY <2>1, LenProperties, ElementOfSeq
<1>2. /\ part \in Seq(Entry) /\ Len(part) = k
      /\ \A i \in 1 .. k : part[i] = log[i]
  BY <1>1, SubSeqProperties
<1> HIDE DEF part
<1>3. ASSUME NEW ct \in CampaignTypes, NEW j \in 0 .. k
      PROVE  HasLast(part, ct, j)
  <2>1. TransitionsUpTo(part, ct, j) = TransitionsUpTo(log, ct, j)
    BY <1>1, <1>2 DEF TransitionsUpTo
  <2>2. HasLast(log, ct, j)
    BY <1>1, <1>3 DEF Grounded
  <2> QED
    BY <2>1, <2>2 DEF HasLast
<1>4. Grounded(part)
  BY <1>2, <1>3 DEF Grounded
<1> QED
  BY <1>4 DEF part

-----------------------------------------------------------------------------
(***************************************************************************)
(* What the console puts in the stores.                                    *)
(***************************************************************************)
LEMMA SimFacts ==
  ASSUME NEW sim, SimOK(sim)
  PROVE  /\ sim.ct \in CampaignTypes
         /\ RunId(sim) \in RunIds
         /\ Ts(sim) \in Int
         /\ SyntheticEvaluation(sim) \in Evaluation
         /\ SyntheticEvaluation(sim).run_id = RunId(sim)
         /\ SyntheticEvaluation(sim).campaign_type = sim.ct
<1>1. /\ sim.ct \in CampaignTypes /\ sim.n \in Nat /\ sim.i \in Nat
      /\ sim.began \in Nat /\ sim.i < sim.n /\ sim.n <= Len(SimIds[sim.ct])
  BY ConsoleAssumption DEF SimOK
<1>2. SimIds[sim.ct] \in Seq(RunIds) /\ Len(SimIds[sim.ct]) \in Nat
  BY <1>1, ConsoleAssumption, LenProperties
<1>3. sim.i + 1 \in 1 .. Len(SimIds[sim.ct])
  BY <1>1, <1>2
<1>4. RunId(sim) \in RunIds
  BY <1>2, <1>3, ElementOfSeq DEF RunId
<1>5. Ts(sim) \in Int
  BY <1>1 DEF Ts, SpacingHours
<1>6. [d \in CRITICAL_DIMENSIONS |-> "pass"] \in
        [CRITICAL_DIMENSIONS -> {"pass", "fail", "missing"}]
  OBVIOUS
<1>7. SyntheticEvaluation(sim) \in Evaluation
  BY <1>1, <1>4, <1>6 DEF SyntheticEvaluation, Evaluation, SegmentBand
<1> QED
  BY <1>1, <1>4, <1>5, <1>7 DEF SyntheticEvaluation

\* A simulation that differs from a sound one in its sums only, or goes on to
\* its next run.
LEMMA SimMoves ==
  ASSUME NEW sim, SimOK(sim), NEW other,
         other \in [ct : CampaignTypes, n : Nat, scenario : Scenarios, began : Clocks,
                    i : Nat, sums : Totals],
         other.ct = sim.ct, other.n = sim.n, other.i < other.n
  PROVE  SimOK(other)
  BY DEF SimOK

\* A simulation whose sums alone have moved.
LEMMA SumsMove ==
  ASSUME NEW sim, SimOK(sim), NEW sums \in Totals
  PROVE  /\ SimOK([sim EXCEPT !.sums = sums])
         /\ RunId([sim EXCEPT !.sums = sums]) = RunId(sim)
         /\ [sim EXCEPT !.sums = sums].ct = sim.ct
<1> DEFINE other == [sim EXCEPT !.sums = sums]
<1>1. /\ other \in [ct : CampaignTypes, n : Nat, scenario : Scenarios, began : Clocks,
                    i : Nat, sums : Totals]
      /\ other.ct = sim.ct /\ other.n = sim.n /\ other.i = sim.i
  BY DEF SimOK
<1> HIDE DEF other
<1>2. SimOK(other) /\ RunId(other) = RunId(sim) /\ other.ct = sim.ct
  BY <1>1, SimMoves DEF SimOK, RunId
<1> QED
  BY <1>2 DEF other

LEMMA RunTyped ==
  ASSUME NEW log, Grounded(log), ceiling \in Tier,
         NEW evaluation \in Evaluation, NEW now \in Int
  PROVE  /\ RunFact(log, evaluation, now) \in RunEntry
         /\ RunFact(log, evaluation, now).campaign_type = evaluation.campaign_type
         /\ RunFact(log, evaluation, now).run_id = evaluation.run_id
<1> DEFINE type == evaluation.campaign_type
<1>1. type \in CampaignTypes
  BY DEF Evaluation
<1>2. EffectiveTier(log, type) \in Tier
  BY <1>1, EffectiveTierTyped
<1> QED
  BY <1>1, <1>2 DEF RunFact, RunEntry, Decide, Decision, Outcome, OutcomeClass, Evaluation

LEMMA ItemTyped ==
  ASSUME NEW evaluation \in Evaluation, NEW decision, NEW tier, NEW sends, NEW now \in Int
  PROVE  LET item == QueueItemFromDecision(evaluation, decision,
                       Violations(evaluation, tier, sends), now, SendWindow)
         IN  /\ item \in QueueItem
             /\ item.campaign_type = evaluation.campaign_type
             /\ item.status = "in_flight" => decision = "auto_send"
<1>1. Violations(evaluation, tier, sends) \subseteq ConstraintCode
  BY DEF Violations, ConstraintCode, CheckSegmentEligibility, CheckDiscount, CheckRateLimit
<1>2. CriticalFailures(evaluation) \subseteq CRITICAL_DIMENSIONS
  BY DEF CriticalFailures
<1>3. now + SendWindow \in Int
  BY WindowAssumption
<1>4. evaluation.campaign_type \in CampaignTypes
  BY DEF Evaluation
<1> QED
  BY <1>1, <1>2, <1>3, <1>4 DEF QueueItemFromDecision, QueueItem, ItemStatus

LEMMA TransitionTyped ==
  ASSUME NEW log, Grounded(log), NEW ct \in CampaignTypes, NEW now \in Int
  PROVE  /\ Demotion(log, ct, now, "demotion_deliverability") \in Entry
         /\ TierOf(log, ct) < SUPERVISED => Promotion(log, ct, now) \in Entry
<1>1. TierOf(log, ct) \in Tier
  BY CurrentState
<1>2. Demotion(log, ct, now, "demotion_deliverability") \in TransitionEntry
  BY <1>1 DEF Demotion, Transition, TransitionEntry, TransitionReason, Standing,
              Tier, ASSIST, SUPERVISED
<1>3. ASSUME TierOf(log, ct) < SUPERVISED
      PROVE  Promotion(log, ct, now) \in TransitionEntry
  BY <1>1, <1>3 DEF Promotion, Transition, TransitionEntry, TransitionReason, Standing,
                    Tier, ASSIST, SUPERVISED
<1> QED
  BY <1>2, <1>3 DEF Entry

LEMMA OutcomeTyped ==
  ASSUME NEW log, NEW report, report.campaign_type \in CampaignTypes,
         report.run_id \in RunIds, NEW now \in Int
  PROVE  OutcomeFact(log, report, now) \in Entry
<1>1. OutcomeFact(log, report, now) \in OutcomeEntry
  BY DEF OutcomeFact, OutcomeEntry, Breached
<1> QED
  BY <1>1 DEF Entry

-----------------------------------------------------------------------------
(***************************************************************************)
(* Jobs.                                                                   *)
(***************************************************************************)
\* What a job has is still so when the ledger and the queue have grown.
LEMMA JobGrows ==
  ASSUME NEW log \in Seq(Entry), NEW entry \in Entry, NEW rows, NEW j,
         JobOK(log, rows, j)
  PROVE  JobOK(Append(log, entry), rows, j)
<1> DEFINE more == Append(log, entry)
<1>1. Len(more) = Len(log) + 1 /\ Len(log) \in Nat
  BY AppendFacts
<1>2. \A id, ct : SentBy(log, id, ct) => SentBy(more, id, ct)
  BY SendStays
<1>3. \A k \in 0 .. Len(log) : SubSeq(more, 1, k) = SubSeq(log, 1, k)
  BY PrefixStays
<1> HIDE DEF more
<1>4. \A e, next : FollowsInsert(log, e, next) => FollowsInsert(more, e, next)
  BY <1>2 DEF FollowsInsert
<1>5. j.at \in {"route", "weigh"} => j.seen \in 0 .. Len(more)
  BY <1>1 DEF JobOK
<1>6. j.at = "weigh" => TierOf(SubSeq(more, 1, j.seen), j.sim.ct) < SUPERVISED
  BY <1>3 DEF JobOK
<1>7. j.at \in Holding =>
        /\ j.item \in QueueItem
        /\ j.item.status = "in_flight" =>
             SentBy(more, RunId(j.sim), j.item.campaign_type)
  BY <1>2 DEF JobOK
<1>8. j.at \in {"take", "insert"} => j.entry \in Entry /\ FollowsInsert(more, j.entry, j.then)
  BY <1>4 DEF JobOK
<1>9. JobOK(more, rows, j)
  BY <1>5, <1>6, <1>7, <1>8, Zenon DEF JobOK
<1> QED
  BY <1>9 DEF more

LEMMA JobKeepsRows ==
  ASSUME NEW log, NEW rows, NEW more, rows \subseteq more, NEW j, JobOK(log, rows, j)
  PROVE  JobOK(log, more, j)
<1>1. \A next : FollowsMarks(rows, next) => FollowsMarks(more, next)
  BY DEF FollowsMarks
<1> QED
  BY <1>1 DEF JobOK

\* A simulation goes on to its next run, or flags the last one, or returns.
LEMMA GoesOn ==
  ASSUME NEW sim, SimOK(sim), NEW flag
  PROVE  /\ NextRun(sim).at \in {"read", "return"} /\ SimOK(NextRun(sim).sim)
         /\ Flagging(sim, flag).at \in {"read", "flag", "return"}
         /\ SimOK(Flagging(sim, flag).sim)
<1> DEFINE further == [sim EXCEPT !.i = @ + 1]
<1>1. sim \in [ct : CampaignTypes, n : Nat, scenario : Scenarios, began : Clocks,
               i : Nat, sums : Totals]
  BY DEF SimOK
<1>2. ASSUME sim.i + 1 < sim.n PROVE SimOK(further)
  <2>1. /\ further \in [ct : CampaignTypes, n : Nat, scenario : Scenarios,
                        began : Clocks, i : Nat, sums : Totals]
        /\ further.ct = sim.ct /\ further.n = sim.n /\ further.i = sim.i + 1
    BY <1>1
  <2> HIDE DEF further
  <2> QED
    BY <1>2, <2>1, SimMoves
<1>3. NextRun(sim).at \in {"read", "return"} /\ SimOK(NextRun(sim).sim)
  BY <1>2 DEF NextRun, Read
<1>4. \/ Flagging(sim, flag) = [at |-> "flag", sim |-> sim]
      \/ Flagging(sim, flag) = NextRun(sim)
  BY DEF Flagging
<1> QED
  BY <1>3, <1>4

LEMMA GoingOnIsSound ==
  ASSUME NEW next, next.at \in {"read", "flag", "return"}, SimOK(next.sim)
  PROVE  /\ \A log, rows : JobOK(log, rows, next)
         /\ \A log, entry : FollowsInsert(log, entry, next)
         /\ \A rows : FollowsMarks(rows, next)
  BY DEF JobOK, FollowsInsert, FollowsMarks, Simulating, Holding

LEMMA AfterInsert ==
  ASSUME NEW log \in Seq(Entry), NEW entry \in Entry, NEW rows, NEW next,
         FollowsInsert(log, entry, next)
  PROVE  JobOK(Append(log, entry), rows, next)
<1> DEFINE more == Append(log, entry)
<1>1. \A id, ct : SentBy(log, id, ct) \/ (IsAutoSend(entry, ct) /\ entry.run_id = id)
                    => SentBy(more, id, ct)
  BY SendStays
<1> HIDE DEF more
<1>2. next.at \in Holding =>
        /\ next.item \in QueueItem
        /\ next.item.status = "in_flight" =>
             SentBy(more, RunId(next.sim), next.item.campaign_type)
  BY <1>1 DEF FollowsInsert
<1>3. next.at = "take" => FollowsInsert(more, next.entry, next.then)
  BY DEF FollowsInsert, Simulating, Holding
<1>4. JobOK(more, rows, next)
  BY <1>2, <1>3 DEF JobOK, FollowsInsert
<1> QED
  BY <1>4 DEF more

LEMMA AfterMarks ==
  ASSUME NEW log, NEW rows, NEW next, FollowsMarks(rows, next)
  PROVE  JobOK(log, rows, next)
  BY DEF JobOK, FollowsMarks, Holding

\* One job moves on, the ledger and the queue do not shrink.
LEMMA JobsMove ==
  ASSUME CInv, NEW t \in Threads, NEW next, Becomes(t, next),
         \/ ledger' = ledger
         \/ \E entry \in Entry : ledger' = Append(ledger, entry),
         DOMAIN items \subseteq DOMAIN items',
         screen' \subseteq DOMAIN items',
         JobOK(ledger', DOMAIN items', next)
  PROVE  JobsOK'
<1>1. DOMAIN job' = Threads
  BY DEF Becomes, CInv, JobsOK
<1>2. \A u \in Threads : job'[u] = IF u = t THEN next ELSE job[u]
  BY DEF Becomes, CInv, JobsOK
<1>3. ledger \in Seq(Entry)
  BY DEF CInv, Grounded
<1>4. ASSUME NEW u \in Threads PROVE JobOK(ledger', DOMAIN items', job[u])
  <2>1. JobOK(ledger, DOMAIN items', job[u])
    BY JobKeepsRows DEF CInv, JobsOK
  <2> QED
    BY <1>3, <2>1, JobGrows
<1>5. \A u \in Threads : JobOK(ledger', DOMAIN items', job'[u])
  BY <1>2, <1>4
<1> QED
  BY <1>1, <1>5 DEF JobsOK

\* A step that only reads.
LEMMA ReadOnly ==
  ASSUME CInv, NEW t \in Threads, NEW next, Goes(t, next),
         JobOK(ledger, DOMAIN items, next)
  PROVE  CInv'
<1>1. /\ Becomes(t, next) /\ UNCHANGED <<ledger, ceiling, items, candidates>>
      /\ UNCHANGED <<clock, screen, served, simulated, failed, reported>>
  BY DEF Goes, desk
<1>2. JobsOK'
  BY <1>1, JobsMove DEF CInv, JobsOK
<1>3. ConsoleTypeOK'
  BY <1>1 DEF CInv, ConsoleTypeOK, TypeOK, QueueTypeOK
<1>4. Grounded(ledger)' /\ InFlightIsRecorded'
  BY <1>1 DEF CInv, InFlightIsRecorded, ByStatus
<1> QED
  BY <1>2, <1>3, <1>4 DEF CInv

-----------------------------------------------------------------------------
(***************************************************************************)
(* The steps that only read.                                               *)
(***************************************************************************)
LEMMA Known ==
  ASSUME CInv, NEW t \in Threads
  PROVE  /\ JobOK(ledger, DOMAIN items, job[t])
         /\ Grounded(ledger) /\ ledger \in Seq(Entry) /\ Len(ledger) \in Nat
         /\ ceiling \in Tier
         /\ DOMAIN items \subseteq RunIds /\ screen \subseteq DOMAIN items
         /\ \A id \in DOMAIN items : items[id] \in QueueItem
  BY LenProperties DEF CInv, JobsOK, Grounded, ConsoleTypeOK, TypeOK, QueueTypeOK

LEMMA TakeSeqStep ==
  ASSUME CInv, NEW t \in Threads, TakeSeq(t)
  PROVE  CInv'
<1> DEFINE next == [at |-> "insert", seq |-> Len(ledger) + 1,
                    entry |-> job[t].entry, then |-> job[t].then]
<1>1. job[t].at = "take" /\ Goes(t, next)
  BY DEF TakeSeq, At
<1>2. job[t].entry \in Entry /\ FollowsInsert(ledger, job[t].entry, job[t].then)
  BY <1>1, Known DEF JobOK
<1>3. /\ next.at = "insert" /\ next.entry = job[t].entry /\ next.then = job[t].then
  OBVIOUS
<1> HIDE DEF next
<1>4. JobOK(ledger, DOMAIN items, next)
  BY <1>2, <1>3 DEF JobOK, Simulating, Holding
<1> QED
  BY <1>1, <1>4, ReadOnly

LEMMA ReadItemStep ==
  ASSUME CInv, NEW t \in Threads, ReadItem(t)
  PROVE  CInv'
<1>1. PICK id \in job[t].ids :
        Goes(t, [at |-> "put", id |-> id, item |-> items[id], status |-> job[t].status,
                 ids |-> job[t].ids \ {id}, then |-> job[t].then])
  BY DEF ReadItem
<1> DEFINE next == [at |-> "put", id |-> id, item |-> items[id], status |-> job[t].status,
                    ids |-> job[t].ids \ {id}, then |-> job[t].then]
<1>2. /\ job[t].ids \subseteq DOMAIN items
      /\ job[t].status \in ItemStatus \ {"in_flight"}
      /\ FollowsMarks(DOMAIN items, job[t].then)
  BY Known DEF ReadItem, At, JobOK
<1>3. id \in DOMAIN items /\ items[id] \in QueueItem
  BY <1>2, Known
<1>4. /\ next.at = "put" /\ next.id = id /\ next.item = items[id]
      /\ next.status = job[t].status /\ next.ids = job[t].ids \ {id}
      /\ next.then = job[t].then
  OBVIOUS
<1>5. Goes(t, next)
  BY <1>1
<1> HIDE DEF next
<1>6. JobOK(ledger, DOMAIN items, next)
  BY <1>2, <1>3, <1>4 DEF JobOK, Simulating, Holding
<1> QED
  BY <1>5, <1>6, ReadOnly

LEMMA MarkedStep ==
  ASSUME CInv, NEW t \in Threads, Marked(t)
  PROVE  CInv'
<1>1. job[t].at = "mark" /\ Goes(t, job[t].then)
  BY DEF Marked, At
<1>2. FollowsMarks(DOMAIN items, job[t].then)
  BY <1>1, Known DEF JobOK
<1> QED
  BY <1>1, <1>2, AfterMarks, ReadOnly

LEMMA ReadStateStep ==
  ASSUME CInv, NEW t \in Threads, ReadState(t)
  PROVE  CInv'
<1> DEFINE next == [at |-> "route", sim |-> job[t].sim, seen |-> Len(ledger)]
<1>1. job[t].at = "read" /\ Goes(t, next)
  BY DEF ReadState, At
<1>2. SimOK(job[t].sim)
  BY <1>1, Known DEF JobOK, Simulating
<1>3. next.at = "route" /\ next.sim = job[t].sim /\ next.seen = Len(ledger)
  OBVIOUS
<1> HIDE DEF next
<1>4. Len(ledger) \in 0 .. Len(ledger)
  BY Known
<1>5. JobOK(ledger, DOMAIN items, next)
  BY <1>2, <1>3, <1>4 DEF JobOK, Holding
<1> QED
  BY <1>1, <1>5, ReadOnly

LEMMA RouteStep ==
  ASSUME CInv, NEW t \in Threads, Route(t)
  PROVE  CInv'
<1> DEFINE sim        == job[t].sim
           evaluation == SyntheticEvaluation(sim)
           tier       == EffectiveTier(Seen(t), sim.ct)
           sends      == SendsLast24h(ledger, sim.ct, Ts(sim))
           routed     == Decide(evaluation, tier, sends)
           fact       == RunFact(Seen(t), evaluation, Ts(sim))
           entry      == [fact EXCEPT !.decision = routed.decision,
                                      !.outcome = routed.outcome]
           item       == QueueItemFromDecision(evaluation, routed.decision,
                           Violations(evaluation, tier, sends), Ts(sim), SendWindow)
           then       == [at |-> IF entry.outcome = "quality_pass"
                                   THEN "standing" ELSE "enqueue",
                          sim |-> sim, item |-> item]
           next       == [at |-> "take", entry |-> entry, then |-> then]
<1>1. job[t].at = "route" /\ Goes(t, next)
  BY DEF Route, At
<1>2. SimOK(sim) /\ job[t].seen \in 0 .. Len(ledger)
  BY <1>1, Known DEF JobOK, Simulating
<1>3. /\ sim.ct \in CampaignTypes /\ Ts(sim) \in Int
      /\ evaluation \in Evaluation
      /\ evaluation.run_id = RunId(sim) /\ evaluation.campaign_type = sim.ct
  BY <1>2, SimFacts
<1>4. Grounded(Seen(t))
  BY <1>2, Known, PrefixGrounded DEF Seen
<1>5. fact \in RunEntry /\ fact.campaign_type = sim.ct /\ fact.run_id = RunId(sim)
  BY <1>3, <1>4, Known, RunTyped
<1>6. routed.decision \in Decision /\ routed.outcome \in OutcomeClass
  BY DEF Decide, Decision, Outcome, OutcomeClass
<1>7. /\ item \in QueueItem /\ item.campaign_type = sim.ct
      /\ item.status = "in_flight" => routed.decision = "auto_send"
  BY <1>3, ItemTyped
<1> HIDE DEF fact, routed
<1>8. /\ entry \in RunEntry /\ entry.campaign_type = sim.ct /\ entry.run_id = RunId(sim)
      /\ entry.decision = routed.decision /\ entry.kind = "run"
  BY <1>5, <1>6 DEF RunEntry
<1> HIDE DEF sim, evaluation, item, entry
<1>9. /\ then.at \in {"standing", "enqueue"} /\ then.sim = sim /\ then.item = item
      /\ next.at = "take" /\ next.entry = entry /\ next.then = then
  OBVIOUS
<1> HIDE DEF then, next
<1>10. item.status = "in_flight" =>
         IsAutoSend(entry, item.campaign_type) /\ entry.run_id = RunId(sim)
  BY <1>7, <1>8 DEF IsAutoSend, IsRun
<1>11. FollowsInsert(ledger, entry, then)
  BY <1>2, <1>7, <1>9, <1>10 DEF FollowsInsert
<1>12. JobOK(ledger, DOMAIN items, next)
  BY <1>8, <1>9, <1>11 DEF JobOK, Simulating, Holding, Entry
<1> QED
  BY <1>1, <1>12, ReadOnly

LEMMA ReadStandingStep ==
  ASSUME CInv, NEW t \in Threads, ReadStanding(t)
  PROVE  CInv'
<1> DEFINE sim   == job[t].sim
           weigh == [at |-> "weigh", sim |-> sim, item |-> job[t].item,
                     seen |-> Len(ledger)]
<1>1. job[t].at = "standing"
  BY DEF ReadStanding, At
<1>2. /\ SimOK(sim) /\ job[t].item \in QueueItem
      /\ job[t].item.status = "in_flight" =>
           SentBy(ledger, RunId(sim), job[t].item.campaign_type)
  BY <1>1, Known DEF JobOK, Simulating, Holding
<1>3. CASE PromotionOpen(ledger, sim.ct) /\ Goes(t, weigh)
  <2>1. SubSeq(ledger, 1, Len(ledger)) = ledger /\ Len(ledger) \in 0 .. Len(ledger)
    BY Known, SubSeqFull
  <2>2. TierOf(SubSeq(ledger, 1, Len(ledger)), sim.ct) < SUPERVISED
    BY <1>3, <2>1, Zenon DEF PromotionOpen
  <2>3. /\ weigh.at = "weigh" /\ weigh.sim = sim /\ weigh.item = job[t].item
        /\ weigh.seen = Len(ledger)
    OBVIOUS
  <2> HIDE DEF sim, weigh
  <2>4. JobOK(ledger, DOMAIN items, weigh)
    BY <1>2, <2>1, <2>2, <2>3 DEF JobOK, Holding
  <2> QED
    BY <1>3, <2>4, ReadOnly
<1>4. CASE Goes(t, Queueing(t))
  <2>1. /\ Queueing(t).at = "enqueue" /\ Queueing(t).sim = sim
        /\ Queueing(t).item = job[t].item
    BY DEF Queueing
  <2> HIDE DEF sim
  <2>2. JobOK(ledger, DOMAIN items, Queueing(t))
    BY <1>2, <2>1 DEF JobOK, Holding
  <2> QED
    BY <1>4, <2>2, ReadOnly
<1> QED
  BY <1>3, <1>4 DEF ReadStanding

LEMMA WeighStep ==
  ASSUME CInv, NEW t \in Threads, Weigh(t)
  PROVE  CInv'
<1> DEFINE sim       == job[t].sim
           promotion == Promotion(Seen(t), sim.ct, Ts(sim))
           next      == [at |-> "take", entry |-> promotion, then |-> Queueing(t)]
<1>1. job[t].at = "weigh" /\ (Goes(t, next) \/ Goes(t, Queueing(t)))
  BY DEF Weigh, At
<1>2. /\ SimOK(sim) /\ job[t].seen \in 0 .. Len(ledger) /\ job[t].item \in QueueItem
      /\ TierOf(Seen(t), sim.ct) < SUPERVISED
      /\ job[t].item.status = "in_flight" =>
           SentBy(ledger, RunId(sim), job[t].item.campaign_type)
  BY <1>1, Known DEF JobOK, Simulating, Holding, Seen
<1>3. Grounded(Seen(t))
  BY <1>2, Known, PrefixGrounded DEF Seen
<1>4. promotion \in Entry
  BY <1>2, <1>3, SimFacts, TransitionTyped
<1>5. /\ Queueing(t).at = "enqueue" /\ Queueing(t).sim = sim
      /\ Queueing(t).item = job[t].item
  BY DEF Queueing
<1>6. next.at = "take" /\ next.entry = promotion /\ next.then = Queueing(t)
  OBVIOUS
<1> HIDE DEF sim, promotion, next
<1>7. FollowsInsert(ledger, promotion, Queueing(t)) /\ JobOK(ledger, DOMAIN items, Queueing(t))
  BY <1>2, <1>5 DEF FollowsInsert, JobOK, Holding
<1>8. JobOK(ledger, DOMAIN items, next)
  BY <1>4, <1>6, <1>7 DEF JobOK, Simulating, Holding
<1> QED
  BY <1>1, <1>7, <1>8, ReadOnly

LEMMA TakeOutcomeStep ==
  ASSUME CInv, NEW t \in Threads, TakeOutcome(t)
  PROVE  CInv'
<1> DEFINE sim  == job[t].sim
           last == IF sim.n - 1 >= 1 THEN sim.n - 1 ELSE 1
           report(z) == [campaign_type |-> sim.ct, run_id |-> RunId(sim),
                         rates |-> Simulate("engaged_30d", SyntheticWeakness,
                                            sim.scenario, z, sim.i, last)]
           outcome(z) == OutcomeFact(ledger, report(z), Ts(sim))
           demotion == Demotion(ledger, sim.ct, Ts(sim), "demotion_deliverability")
           b(z) == OneIf(outcome(z).breached)
           d(z) == OneIf(ReportDemotes(ledger, report(z)))
           s(z) == OneIf(outcome(z).blind_spot)
           sums(z) == [sim.sums EXCEPT !.breaches = @ + b(z), !.demotions = @ + d(z),
                                       !.blind_spots = @ + s(z)]
           counted(z) == [sim EXCEPT
                            !.sums.breaches = @ + b(z),
                            !.sums.demotions = @ + d(z),
                            !.sums.blind_spots = @ + s(z)]
           downgrade(z) == [at |-> "downgrade", sim |-> counted(z),
                            flag |-> outcome(z).blind_spot]
           then(z) == IF ReportDemotes(ledger, report(z))
                        THEN [at |-> "take", entry |-> demotion, then |-> downgrade(z)]
                        ELSE Flagging(counted(z), outcome(z).blind_spot)
<1>1. PICK z \in Noise : Goes(t, [at |-> "take", entry |-> outcome(z), then |-> then(z)])
  BY DEF TakeOutcome
<1> DEFINE next == [at |-> "take", entry |-> outcome(z), then |-> then(z)]
<1>2. SimOK(sim)
  BY Known DEF TakeOutcome, At, JobOK, Simulating
<1>3. sim.ct \in CampaignTypes /\ RunId(sim) \in RunIds /\ Ts(sim) \in Int
  BY <1>2, SimFacts
<1>4. outcome(z) \in Entry
  <2>1. report(z).campaign_type = sim.ct /\ report(z).run_id = RunId(sim)
    OBVIOUS
  <2> HIDE DEF report
  <2> QED
    BY <1>3, <2>1, OutcomeTyped
<1>5. demotion \in Entry
  BY <1>3, Known, TransitionTyped
<1> HIDE DEF report, outcome, demotion
<1>6. sums(z) \in Totals
  <2>1. sim.sums \in Totals
    BY <1>2 DEF SimOK
  <2>2. b(z) \in Nat /\ d(z) \in Nat /\ s(z) \in Nat
    BY DEF OneIf
  <2> HIDE DEF b, d, s
  <2>3. /\ sim.sums.breaches + b(z) \in Nat /\ sim.sums.demotions + d(z) \in Nat
        /\ sim.sums.blind_spots + s(z) \in Nat
    BY <2>1, <2>2 DEF Totals
  <2> QED
    BY <2>1, <2>3 DEF Totals
<1>7. counted(z) = [sim EXCEPT !.sums = sums(z)]
  OBVIOUS
<1> HIDE DEF sums
<1>8. SimOK(counted(z))
  BY <1>2, <1>6, <1>7, SumsMove
<1> HIDE DEF counted
<1>9. downgrade(z).at = "downgrade" /\ downgrade(z).sim = counted(z)
  OBVIOUS
<1> HIDE DEF downgrade
<1>10. ASSUME ReportDemotes(ledger, report(z))
       PROVE  FollowsInsert(ledger, outcome(z), then(z))
  <2>1. /\ then(z).at = "take" /\ then(z).entry = demotion
        /\ then(z).then = downgrade(z)
    BY <1>10
  <2> HIDE DEF then
  <2> QED
    BY <1>5, <1>8, <1>9, <2>1 DEF FollowsInsert, Simulating, Holding
<1>11. ASSUME ~ReportDemotes(ledger, report(z))
       PROVE  FollowsInsert(ledger, outcome(z), then(z))
  <2>1. then(z) = Flagging(counted(z), outcome(z).blind_spot)
    BY <1>11
  <2>2. /\ then(z).at \in {"read", "flag", "return"} /\ SimOK(then(z).sim)
    BY <1>8, <2>1, GoesOn
  <2> HIDE DEF then
  <2> QED
    BY <2>2, GoingOnIsSound
<1>12. FollowsInsert(ledger, outcome(z), then(z))
  BY <1>10, <1>11
<1> HIDE DEF then
<1>13. next.at = "take" /\ next.entry = outcome(z) /\ next.then = then(z)
  OBVIOUS
<1>14. Goes(t, next)
  BY <1>1
<1> HIDE DEF next
<1>15. JobOK(ledger, DOMAIN items, next)
  BY <1>4, <1>12, <1>13 DEF JobOK, Simulating, Holding
<1> QED
  BY <1>14, <1>15, ReadOnly

LEMMA DowngradeStep ==
  ASSUME CInv, NEW t \in Threads, Downgrade(t)
  PROVE  CInv'
<1> DEFINE on   == Flagging(job[t].sim, job[t].flag)
           next == [at |-> "mark", ids |-> InFlight(job[t].sim.ct), status |-> "pending",
                    then |-> on]
<1>1. job[t].at = "downgrade" /\ Goes(t, next)
  BY DEF Downgrade, At
<1>2. SimOK(job[t].sim)
  BY <1>1, Known DEF JobOK, Simulating
<1>3. FollowsMarks(DOMAIN items, on)
  BY <1>2, GoesOn, GoingOnIsSound
<1>4. InFlight(job[t].sim.ct) \subseteq DOMAIN items
  BY DEF InFlight, ByStatus
<1>5. /\ next.at = "mark" /\ next.ids = InFlight(job[t].sim.ct)
      /\ next.status = "pending" /\ next.then = on
  OBVIOUS
<1> HIDE DEF on, next
<1>6. JobOK(ledger, DOMAIN items, next)
  BY <1>3, <1>4, <1>5 DEF JobOK, Simulating, Holding, ItemStatus
<1> QED
  BY <1>1, <1>6, ReadOnly

-----------------------------------------------------------------------------
(***************************************************************************)
(* The steps that write.                                                   *)
(***************************************************************************)
LEMMA InsertStep ==
  ASSUME CInv, NEW t \in Threads, Insert(t)
  PROVE  CInv'
<1> DEFINE entry == job[t].entry
           then  == job[t].then
<1>1. entry \in Entry /\ FollowsInsert(ledger, entry, then)
  BY Known DEF Insert, At, JobOK
<1>2. UNCHANGED <<ceiling, items, candidates, clock, screen, served, simulated, reported>>
  BY DEF Insert, desk
<1>3. CASE /\ ledger' = Append(ledger, entry) /\ Becomes(t, then)
           /\ failed' = failed
  <2> HIDE DEF entry, then
  <2>1. ledger' \in Seq(Entry) /\ Grounded(ledger)'
    BY <1>1, <1>3, Known, AppendGrounded, AppendFacts
  <2>2. JobOK(ledger', DOMAIN items', then)
    BY <1>1, <1>3, Known, AfterInsert
  <2>3. JobsOK'
    BY <1>1, <1>2, <1>3, <2>2, Known, JobsMove
  <2>4. \A id, ct : SentBy(ledger, id, ct) => SentBy(ledger', id, ct)
    BY <1>1, <1>3, Known, SendStays
  <2>5. InFlightIsRecorded'
    BY <1>2, <2>4 DEF CInv, InFlightIsRecorded, ByStatus, SentBy
  <2>6. ConsoleTypeOK'
    BY <1>2, <1>3, <2>1 DEF CInv, ConsoleTypeOK, TypeOK, QueueTypeOK
  <2> QED
    BY <2>1, <2>3, <2>5, <2>6 DEF CInv
<1>4. CASE ledger' = ledger /\ Becomes(t, Idle) /\ failed' = failed + 1
  <2>1. JobOK(ledger, DOMAIN items, Idle)
    BY DEF JobOK, Idle, Simulating, Holding
  <2>2. JobsOK'
    BY <1>2, <1>4, <2>1, Known, JobsMove
  <2>3. failed' \in Nat
    BY <1>4 DEF CInv, ConsoleTypeOK
  <2>4. ConsoleTypeOK'
    BY <1>2, <1>4, <2>3 DEF CInv, ConsoleTypeOK, TypeOK, QueueTypeOK
  <2>5. Grounded(ledger)' /\ InFlightIsRecorded'
    BY <1>2, <1>4 DEF CInv, InFlightIsRecorded, ByStatus
  <2> QED
    BY <2>2, <2>4, <2>5 DEF CInv
<1> QED
  BY <1>3, <1>4 DEF Insert, desk

\* A row written by one job, where an item in flight is a send on record.
LEMMA RowWritten ==
  ASSUME CInv, NEW t \in Threads, NEW next, Becomes(t, next),
         NEW id \in RunIds, NEW item \in QueueItem, Add(id, item),
         item.status = "in_flight" => SentBy(ledger, id, item.campaign_type),
         JobOK(ledger, DOMAIN items, next),
         UNCHANGED <<ledger, ceiling, candidates, desk>>
  PROVE  CInv'
<1>1. /\ DOMAIN items' = DOMAIN items \cup {id}
      /\ \A key \in DOMAIN items' : items'[key] = IF key = id THEN item ELSE items[key]
  BY DEF Add
<1>2. QueueTypeOK'
  BY <1>1 DEF CInv, ConsoleTypeOK, QueueTypeOK
<1>3. ASSUME NEW key \in DOMAIN items', items'[key].status = "in_flight"
      PROVE  SentBy(ledger, key, items'[key].campaign_type)
  <2>1. CASE key = id
    BY <1>1, <1>3, <2>1
  <2>2. CASE key # id
    <3>1. key \in DOMAIN items /\ items'[key] = items[key]
      BY <1>1, <2>2
    <3> QED
      BY <1>3, <3>1 DEF CInv, InFlightIsRecorded, ByStatus, SentBy
  <2> QED
    BY <2>1, <2>2
<1>4. InFlightIsRecorded'
  BY <1>3 DEF InFlightIsRecorded, ByStatus, SentBy
<1>5. JobOK(ledger', DOMAIN items', next)
  BY <1>1, JobKeepsRows
<1>6. screen' \subseteq DOMAIN items' /\ DOMAIN items \subseteq DOMAIN items'
  BY <1>1, Known DEF desk
<1>7. JobsOK'
  BY <1>5, <1>6, JobsMove
<1>8. ConsoleTypeOK' /\ Grounded(ledger)'
  BY <1>2 DEF CInv, ConsoleTypeOK, TypeOK, desk
<1> QED
  BY <1>4, <1>7, <1>8 DEF CInv

LEMMA WriteItemStep ==
  ASSUME CInv, NEW t \in Threads, WriteItem(t)
  PROVE  CInv'
<1> DEFINE item == [job[t].item EXCEPT !.status = job[t].status]
           next == [at |-> "mark", status |-> job[t].status,
                    ids |-> job[t].ids, then |-> job[t].then]
<1>1. /\ job[t].at = "put" /\ Add(job[t].id, item) /\ Becomes(t, next)
      /\ UNCHANGED <<ledger, ceiling, candidates, desk>>
  BY DEF WriteItem, At
<1>2. /\ job[t].ids \subseteq DOMAIN items
      /\ job[t].status \in ItemStatus \ {"in_flight"}
      /\ FollowsMarks(DOMAIN items, job[t].then)
      /\ job[t].id \in RunIds /\ job[t].item \in QueueItem
  BY <1>1, Known DEF JobOK
<1>3. item \in QueueItem /\ item.status # "in_flight"
  BY <1>2 DEF QueueItem
<1>4. /\ next.at = "mark" /\ next.status = job[t].status /\ next.ids = job[t].ids
      /\ next.then = job[t].then
  OBVIOUS
<1> HIDE DEF item, next
<1>5. JobOK(ledger, DOMAIN items, next)
  BY <1>2, <1>4 DEF JobOK, Simulating, Holding
<1> QED
  BY <1>1, <1>2, <1>3, <1>5, RowWritten

LEMMA EnqueueStep ==
  ASSUME CInv, NEW t \in Threads, Enqueue(t)
  PROVE  CInv'
<1> DEFINE sim  == job[t].sim
           item == job[t].item
           sent == [sim EXCEPT !.sums.sent = @ + 1]
           next == IF item.status = "in_flight" THEN [at |-> "outcome", sim |-> sent]
                                                ELSE NextRun(sim)
<1>1. /\ job[t].at = "enqueue" /\ Add(RunId(sim), item) /\ Becomes(t, next)
      /\ UNCHANGED <<ledger, ceiling, candidates, desk>>
  BY DEF Enqueue, At
<1>2. /\ SimOK(sim) /\ item \in QueueItem
      /\ item.status = "in_flight" => SentBy(ledger, RunId(sim), item.campaign_type)
  BY <1>1, Known DEF JobOK, Simulating, Holding
<1>3. RunId(sim) \in RunIds
  BY <1>2, SimFacts
<1>4. [sim.sums EXCEPT !.sent = @ + 1] \in Totals
  <2>1. sim.sums \in Totals
    BY <1>2 DEF SimOK
  <2> QED
    BY <2>1 DEF Totals
<1>5. sent = [sim EXCEPT !.sums = [sim.sums EXCEPT !.sent = @ + 1]]
  OBVIOUS
<1>6. SimOK(sent)
  BY <1>2, <1>4, <1>5, SumsMove
<1> HIDE DEF sim, item, sent
<1>7. JobOK(ledger, DOMAIN items, [at |-> "outcome", sim |-> sent])
  BY <1>6 DEF JobOK, Simulating, Holding
<1>8. JobOK(ledger, DOMAIN items, NextRun(sim))
  BY <1>2, GoesOn, GoingOnIsSound
<1>9. JobOK(ledger, DOMAIN items, next)
  BY <1>7, <1>8
<1> HIDE DEF next
<1> QED
  BY <1>1, <1>2, <1>3, <1>9, RowWritten

LEMMA FlagStep ==
  ASSUME CInv, NEW t \in Threads, Flag(t)
  PROVE  CInv'
<1> DEFINE sim == job[t].sim
<1>1. /\ job[t].at = "flag" /\ candidates' = candidates \cup {RunId(sim)}
      /\ Becomes(t, NextRun(sim)) /\ UNCHANGED <<ledger, ceiling, items>>
      /\ UNCHANGED <<clock, screen, served, simulated, failed, reported>>
  BY DEF Flag, At, desk
<1>2. SimOK(sim)
  BY <1>1, Known DEF JobOK, Simulating
<1>3. RunId(sim) \in RunIds /\ JobOK(ledger, DOMAIN items, NextRun(sim))
  BY <1>2, SimFacts, GoesOn, GoingOnIsSound
<1>4. JobsOK'
  BY <1>1, <1>3, Known, JobsMove
<1>5. ConsoleTypeOK'
  BY <1>1, <1>3 DEF CInv, ConsoleTypeOK, TypeOK, QueueTypeOK
<1>6. Grounded(ledger)' /\ InFlightIsRecorded'
  BY <1>1 DEF CInv, InFlightIsRecorded, ByStatus
<1> QED
  BY <1>4, <1>5, <1>6 DEF CInv

LEMMA ReturnStep ==
  ASSUME CInv, NEW t \in Threads, Return(t)
  PROVE  CInv'
<1> DEFINE sums == job[t].sim.sums
<1>1. /\ job[t].at = "return"
      /\ reported' = [total \in DOMAIN reported |-> reported[total] + sums[total]]
      /\ Becomes(t, Idle)
      /\ UNCHANGED <<ledger, ceiling, items, candidates, clock, screen, served,
                     simulated, failed>>
  BY DEF Return, At
<1>2. sums \in Totals /\ reported \in Totals
  BY <1>1, Known DEF JobOK, Simulating, SimOK, CInv, ConsoleTypeOK
<1> HIDE DEF sums
<1>3. reported' \in Totals
  BY <1>1, <1>2 DEF Totals
<1>4. JobOK(ledger, DOMAIN items, Idle)
  BY DEF JobOK, Idle, Simulating, Holding
<1>5. JobsOK'
  BY <1>1, <1>4, Known, JobsMove
<1>6. ConsoleTypeOK'
  BY <1>1, <1>3 DEF CInv, ConsoleTypeOK, TypeOK, QueueTypeOK
<1>7. Grounded(ledger)' /\ InFlightIsRecorded'
  BY <1>1 DEF CInv, InFlightIsRecorded, ByStatus
<1> QED
  BY <1>5, <1>6, <1>7 DEF CInv

LEMMA ShowStep ==
  ASSUME CInv, NEW t \in Threads, Show(t)
  PROVE  CInv'
<1>1. /\ job[t].at = "show" /\ screen' = job[t].ids /\ Becomes(t, Idle)
      /\ UNCHANGED <<ledger, ceiling, items, candidates, clock, served, simulated,
                     failed, reported>>
  BY DEF Show, At
<1>2. screen' \subseteq DOMAIN items' /\ screen' \subseteq RunIds
  BY <1>1, Known DEF JobOK
<1>3. JobOK(ledger, DOMAIN items, Idle)
  BY DEF JobOK, Idle, Simulating, Holding
<1>4. JobsOK'
  BY <1>1, <1>2, <1>3, JobsMove
<1>5. ConsoleTypeOK'
  BY <1>1, <1>2 DEF CInv, ConsoleTypeOK, TypeOK, QueueTypeOK
<1>6. Grounded(ledger)' /\ InFlightIsRecorded'
  BY <1>1 DEF CInv, InFlightIsRecorded, ByStatus
<1> QED
  BY <1>4, <1>5, <1>6 DEF CInv

-----------------------------------------------------------------------------
(***************************************************************************)
(* The calls' beginnings, and time.                                        *)
(***************************************************************************)
LEMMA PostSimulateStep ==
  ASSUME CInv, NEW t \in Threads, NEW ct \in CampaignTypes, NEW scenario \in Scenarios,
         NEW n \in Sizes[scenario], n <= Len(SimIds[ct]),
         PostSimulate(t, ct, n, scenario)
  PROVE  CInv'
<1> DEFINE sim  == [ct |-> ct, n |-> n, scenario |-> scenario, began |-> clock,
                    i |-> 0, sums |-> Nothing]
<1>1. /\ served < MaxCalls /\ simulated + n <= MaxRuns
      /\ served' = served + 1 /\ simulated' = simulated + n
      /\ Becomes(t, Read(sim))
      /\ UNCHANGED <<ledger, ceiling, items, candidates, clock, screen, failed, reported>>
  BY DEF PostSimulate
<1>2. clock \in Clocks /\ served \in 0 .. MaxCalls /\ simulated \in 0 .. MaxRuns
  BY DEF CInv, ConsoleTypeOK
<1>3. n \in Nat /\ 0 < n /\ MaxCalls \in Nat /\ MaxRuns \in Nat
  BY ConsoleAssumption
<1>4. SimOK(sim)
  BY <1>2, <1>3 DEF SimOK, Nothing, Totals
<1> HIDE DEF sim
<1>5. JobOK(ledger, DOMAIN items, Read(sim))
  BY <1>4 DEF JobOK, Read, Holding
<1>6. JobsOK'
  BY <1>1, <1>5, Known, JobsMove
<1>7. served' \in 0 .. MaxCalls /\ simulated' \in 0 .. MaxRuns
  BY <1>1, <1>2, <1>3
<1>8. ConsoleTypeOK'
  BY <1>1, <1>7 DEF CInv, ConsoleTypeOK, TypeOK, QueueTypeOK
<1>9. Grounded(ledger)' /\ InFlightIsRecorded'
  BY <1>1 DEF CInv, InFlightIsRecorded, ByStatus
<1> QED
  BY <1>6, <1>8, <1>9 DEF CInv

LEMMA StartStep ==
  ASSUME CInv, NEW t \in Threads, NEW next, Starts(t, next),
         JobOK(ledger, DOMAIN items, next)
  PROVE  CInv'
<1>1. /\ served < MaxCalls /\ served' = served + 1 /\ Becomes(t, next)
      /\ UNCHANGED <<ledger, ceiling, items, candidates, clock, screen, simulated,
                     failed, reported>>
  BY DEF Starts
<1>2. JobsOK'
  BY <1>1, Known, JobsMove
<1>3. served \in 0 .. MaxCalls /\ MaxCalls \in Nat
  BY ConsoleAssumption DEF CInv, ConsoleTypeOK
<1>4. served' \in 0 .. MaxCalls
  BY <1>1, <1>3
<1>5. ConsoleTypeOK'
  BY <1>1, <1>4 DEF CInv, ConsoleTypeOK, TypeOK, QueueTypeOK
<1>6. Grounded(ledger)' /\ InFlightIsRecorded'
  BY <1>1 DEF CInv, InFlightIsRecorded, ByStatus
<1> QED
  BY <1>2, <1>5, <1>6 DEF CInv

LEMMA GetQueueStep ==
  ASSUME CInv, NEW t \in Threads, GetQueue(t)
  PROVE  CInv'
<1> DEFINE show == [at |-> "show", ids |-> LaneAt("batch", clock)]
           next == [at |-> "mark", ids |-> NewlyExpired(clock), status |-> "expired",
                    then |-> show]
<1>1. /\ NewlyExpired(clock) \subseteq DOMAIN items
      /\ LaneAt("batch", clock) \subseteq DOMAIN items
  BY DEF NewlyExpired, LaneAt, ByStatus
<1>2. FollowsMarks(DOMAIN items, show)
  BY <1>1 DEF FollowsMarks, Simulating
<1>3. /\ next.at = "mark" /\ next.ids = NewlyExpired(clock) /\ next.status = "expired"
      /\ next.then = show
  OBVIOUS
<1>4. Starts(t, next)
  BY DEF GetQueue
<1> HIDE DEF show, next
<1>5. JobOK(ledger, DOMAIN items, next)
  BY <1>1, <1>2, <1>3 DEF JobOK, Simulating, Holding, ItemStatus
<1> QED
  BY <1>4, <1>5, StartStep

LEMMA PostApproveStep ==
  ASSUME CInv, NEW t \in Threads, PostApprove(t)
  PROVE  CInv'
<1> DEFINE next == [at |-> "mark", ids |-> screen, status |-> "approved", then |-> Idle]
<1>1. FollowsMarks(DOMAIN items, Idle)
  BY DEF FollowsMarks, Idle, Simulating
<1>2. /\ next.at = "mark" /\ next.ids = screen /\ next.status = "approved"
      /\ next.then = Idle
  OBVIOUS
<1>3. Starts(t, next)
  BY DEF PostApprove
<1> HIDE DEF next
<1>4. JobOK(ledger, DOMAIN items, next)
  BY <1>1, <1>2, Known DEF JobOK, Simulating, Holding, ItemStatus
<1> QED
  BY <1>3, <1>4, StartStep

LEMMA TickStep ==
  ASSUME CInv, Tick
  PROVE  CInv'
<1>1. clock' \in Clocks
  BY DEF Tick
<1>2. UNCHANGED <<ledger, ceiling, items, candidates, job, screen, served, simulated,
                  failed, reported>>
  BY DEF Tick
<1>3. ConsoleTypeOK' /\ JobsOK'
  BY <1>1, <1>2 DEF CInv, ConsoleTypeOK, TypeOK, QueueTypeOK, JobsOK
<1>4. Grounded(ledger)' /\ InFlightIsRecorded'
  BY <1>2 DEF CInv, InFlightIsRecorded, ByStatus
<1> QED
  BY <1>3, <1>4 DEF CInv

LEMMA Unmoved ==
  ASSUME CInv, UNCHANGED cvars
  PROVE  CInv'
  BY DEF CInv, cvars, desk, ConsoleTypeOK, TypeOK, QueueTypeOK, JobsOK,
         InFlightIsRecorded, ByStatus

LEMMA ConsoleInitCInv == ConsoleInit => CInv
<1> SUFFICES ASSUME ConsoleInit PROVE CInv
  OBVIOUS
<1> DEFINE ct     == Earlier.campaign_type
           run    == RunFact(<<>>, Earlier, EarlierTs)
           logged == <<run>>
           raised == Promotion(logged, ct, EarlierTs)
           item   == QueueItemFromDecision(Earlier, run.decision,
                       Violations(Earlier, ASSIST, 0), EarlierTs, SendWindow)
<1>1. /\ Earlier \in Evaluation /\ ct \in CampaignTypes /\ Earlier.run_id \in RunIds
      /\ EarlierTs \in Int
  BY ConsoleAssumption DEF Evaluation, EarlierTs
<1>2. ceiling \in Tier
  BY ConfigAssumption DEF ConsoleInit
<1>3. Grounded(<<>>)
  <2>1. \A type : TransitionsUpTo(<<>>, type, 0) = {}
    BY DEF TransitionsUpTo
  <2> QED
    BY <2>1 DEF Grounded, HasLast
<1>4. run \in RunEntry /\ run.campaign_type = ct /\ run.run_id = Earlier.run_id
  BY <1>1, <1>2, <1>3, RunTyped
<1>5. run \in Entry /\ ~IsTransition(run, ct)
  BY <1>4 DEF Entry, RunEntry, IsTransition
<1>6. /\ item \in QueueItem /\ item.campaign_type = ct
      /\ item.status = "in_flight" => run.decision = "auto_send"
  BY <1>1, ItemTyped
<1> HIDE DEF run, item
<1>7. logged = Append(<<>>, run) /\ Len(<<>>) = 0
  OBVIOUS
<1>8. Grounded(logged) /\ TierOf(logged, ct) = ASSIST
  <2>1. Grounded(logged)
    BY <1>3, <1>5, <1>7, AppendGrounded
  <2>2. TierOf(logged, ct) = TierOf(<<>>, ct)
    BY <1>1, <1>3, <1>5, <1>7, OtherEntryKeepsState
  <2>3. TierOf(<<>>, ct) = ASSIST
    BY DEF TierOf, TierAt, LastTransition, TransitionsUpTo
  <2> QED
    BY <2>1, <2>2, <2>3
<1>9. raised \in Entry
  BY <1>1, <1>8, TransitionTyped DEF ASSIST, SUPERVISED
<1>10. ledger = Append(logged, raised) /\ logged \in Seq(Entry)
  BY <1>5 DEF ConsoleInit, run
<1> HIDE DEF logged, raised
<1>11. Grounded(ledger) /\ ledger \in Seq(Entry)
  BY <1>8, <1>9, <1>10, AppendGrounded, AppendFacts
<1>12. DOMAIN items = {Earlier.run_id} /\ items[Earlier.run_id] = item
  BY DEF ConsoleInit, item, run
<1>13. QueueTypeOK
  BY <1>1, <1>6, <1>12 DEF QueueTypeOK
<1>14. ASSUME item.status = "in_flight"
       PROVE  SentBy(ledger, Earlier.run_id, item.campaign_type)
  <2>1. IsAutoSend(run, ct) /\ run.run_id = Earlier.run_id
    BY <1>4, <1>6, <1>14 DEF IsAutoSend, IsRun, RunEntry
  <2>2. Len(logged) = 1 /\ logged[1] = run
    BY DEF logged
  <2>3. SentBy(logged, Earlier.run_id, ct)
    BY <1>10, <2>1, <2>2, LenProperties DEF SentBy
  <2>4. SentBy(ledger, Earlier.run_id, ct)
    BY <1>9, <1>10, <2>3, SendStays
  <2> QED
    BY <1>6, <2>4
<1>15. InFlightIsRecorded
  BY <1>12, <1>14 DEF InFlightIsRecorded, ByStatus, SentBy
<1>16. /\ candidates = {} /\ screen = {} /\ clock \in Clocks /\ reported \in Totals
       /\ served \in 0 .. MaxCalls /\ simulated \in 0 .. MaxRuns /\ failed \in Nat
  BY ConsoleAssumption DEF ConsoleInit, Nothing, Totals
<1>17. ConsoleTypeOK
  BY <1>2, <1>11, <1>13, <1>16 DEF ConsoleTypeOK, TypeOK
<1>18. JobsOK
  BY <1>16 DEF ConsoleInit, JobsOK, JobOK, Idle, Simulating, Holding
<1> QED
  BY <1>11, <1>15, <1>17, <1>18 DEF CInv

LEMMA ConsoleStep == CInv /\ [ConsoleNext]_cvars => CInv'
<1> SUFFICES ASSUME CInv, [ConsoleNext]_cvars PROVE CInv'
  OBVIOUS
<1>1. CASE UNCHANGED cvars
  BY <1>1, Unmoved
<1>2. CASE Tick
  BY <1>2, TickStep
<1>3. ASSUME NEW t \in Threads, JobStep(t) PROVE CInv'
  BY <1>3, TakeSeqStep, InsertStep, ReadItemStep, WriteItemStep, MarkedStep,
     ReadStateStep, RouteStep, ReadStandingStep, WeighStep, EnqueueStep,
     TakeOutcomeStep, DowngradeStep, FlagStep, ReturnStep, ShowStep, Zenon DEF JobStep
<1>4. ASSUME NEW t \in Threads, GetQueue(t) \/ PostApprove(t) PROVE CInv'
  BY <1>4, GetQueueStep, PostApproveStep
<1>5. ASSUME NEW t \in Threads, NEW ct \in CampaignTypes, NEW scenario \in Scenarios,
             NEW n \in Sizes[scenario], n <= Len(SimIds[ct]),
             PostSimulate(t, ct, n, scenario)
      PROVE  CInv'
  BY <1>5, PostSimulateStep
<1> QED
  BY <1>1, <1>2, <1>3, <1>4, <1>5 DEF ConsoleNext

LEMMA ConsoleSound == ConsoleSpec => []CInv
  BY ConsoleInitCInv, ConsoleStep, PTL DEF ConsoleSpec

-----------------------------------------------------------------------------
(***************************************************************************)
(* Theorems.                                                               *)
(***************************************************************************)

\* Type correctness: however the calls interleave, and wherever a failed
\* insert ends one, the ledger, the queue, the candidates and the summaries
\* hold only what the code may put there (ledger.py, queue/store.py,
\* service.py).
THEOREM ConsoleTypeCorrect == ConsoleSpec => []ConsoleTypeOK
<1>1. CInv => ConsoleTypeOK
  BY DEF CInv
<1> QED
  BY <1>1, ConsoleSound, PTL

\* The ledger is written first (service.py:155-163): what the queue shows in
\* flight is an autonomous send on record, for any number of threads, calls
\* and simulated runs.
THEOREM QueueBehindLedgerConcurrently == ConsoleSpec => []InFlightIsRecorded
<1>1. CInv => InFlightIsRecorded
  BY DEF CInv
<1> QED
  BY <1>1, ConsoleSound, PTL

-----------------------------------------------------------------------------
(***************************************************************************)
(* The rate limit under concurrency.                                       *)
(*                                                                         *)
(* A send on its way to the ledger is carried by a thread; what is on      *)
(* record in a day and what is carried for that day share the cap, and at  *)
(* most one thread fewer than the pool holds may exceed it: the last one   *)
(* to count saw room for its own send.                                     *)
(***************************************************************************)
Inserting == {"take", "insert"}

Within(entry, ct, end) ==
  IsAutoSend(entry, ct) /\ entry.ts >= end - Day /\ entry.ts <= end

Carries(j, ct, end) == j.at \in Inserting /\ Within(j.entry, ct, end)

Carriers(ct, end) == {t \in Threads : Carries(job[t], ct, end)}

CapShared ==
  \A ct \in CampaignTypes, end \in Int :
    Cardinality(SendsDuring(ledger, ct, end)) + Cardinality(Carriers(ct, end))
      <= MaxSendsPer24h + Cardinality(Threads) - 1

\* A transition a job is about to insert leaves its type active, or takes its
\* tier away and goes on to take what it has in flight.
Lowering(entry, next) ==
  entry.kind = "transition" =>
    \/ entry.standing_after = "active"
    \/ /\ entry.standing_after = "probation"
       /\ entry.to_tier = ASSIST
       /\ next.at = "downgrade"
       /\ next.sim.ct = entry.campaign_type

\* A job that inserts one entry after another inserts a run first.
Deciding(j) ==
  j.at \in Inserting =>
    /\ Lowering(j.entry, j.then)
    /\ j.then.at = "take" =>
         /\ j.then.entry.kind # "run"
         /\ Lowering(j.then.entry, j.then.then)

Decided == \A t \in Threads : Deciding(job[t])

\* A job that inserts nothing yet.
LEMMA NotInserting ==
  ASSUME NEW j, j.at \notin Inserting
  PROVE  Deciding(j) /\ \A ct, end : ~Carries(j, ct, end)
  BY DEF Deciding, Carries

\* What follows an insert or a round of marks.
LEMMA FollowersDecided ==
  ASSUME NEW log, NEW rows, NEW j, JobOK(log, rows, j), Deciding(j)
  PROVE  /\ j.at \in Inserting => Deciding(j.then) /\ \A ct, end : ~Carries(j.then, ct, end)
         /\ j.at \in {"mark", "put"} => j.then.at \notin Inserting
<1>1. ASSUME j.at \in Inserting
      PROVE  Deciding(j.then) /\ \A ct, end : ~Carries(j.then, ct, end)
  <2>1. /\ j.then.at \in {"standing", "enqueue", "read", "flag", "return", "downgrade", "take"}
        /\ j.then.at = "take" => j.then.then.at = "downgrade"
    BY <1>1 DEF JobOK, FollowsInsert, Inserting
  <2>2. CASE j.then.at = "take"
    <3>1. /\ j.then.entry.kind # "run" /\ Lowering(j.then.entry, j.then.then)
          /\ j.then.then.at # "take"
      BY <1>1, <2>1, <2>2 DEF Deciding
    <3>2. Deciding(j.then)
      BY <3>1 DEF Deciding
    <3> QED
      BY <3>1, <3>2 DEF Carries, Within, IsAutoSend, IsRun
  <2>3. CASE j.then.at # "take"
    BY <2>1, <2>3, NotInserting DEF Inserting
  <2> QED
    BY <2>2, <2>3
<1>2. ASSUME j.at \in {"mark", "put"} PROVE j.then.at \notin Inserting
  BY <1>2 DEF JobOK, FollowsMarks, Inserting
<1> QED
  BY <1>1, <1>2

LEMMA CarriersFinite ==
  ASSUME NEW S, S \subseteq Threads
  PROVE  /\ IsFiniteSet(S) /\ Cardinality(S) \in Nat
         /\ Cardinality(S) <= Cardinality(Threads)
         /\ Cardinality(Threads) \in Nat /\ Cardinality(Threads) >= 1
<1>1. IsFiniteSet(Threads) /\ Threads # {}
  BY PoolAssumption
<1>2. /\ Cardinality(Threads) \in Nat
      /\ IsFiniteSet(S) /\ Cardinality(S) <= Cardinality(Threads)
      /\ Cardinality(S) \in Nat
  BY <1>1, FS_Subset, FS_CardinalityType
<1>3. Cardinality(Threads) # 0
  BY <1>1, FS_EmptySet
<1> QED
  BY <1>2, <1>3

\* All threads but one are one fewer.
LEMMA AllButOne ==
  ASSUME NEW t \in Threads, NEW S, S \subseteq Threads \ {t}
  PROVE  Cardinality(S) <= Cardinality(Threads) - 1
<1>1. IsFiniteSet(Threads) /\ IsFiniteSet(Threads \ {t})
  BY PoolAssumption, FS_RemoveElement
<1>2. Cardinality(Threads \ {t}) = Cardinality(Threads) - 1
  BY <1>1, FS_RemoveElement
<1>3. Cardinality(S) <= Cardinality(Threads \ {t})
  BY <1>1, FS_Subset
<1> QED
  BY <1>2, <1>3

LEMMA DecidedMove ==
  ASSUME CInv, Decided, NEW t \in Threads, NEW next, Becomes(t, next), Deciding(next)
  PROVE  /\ Decided'
         /\ \A u \in Threads : job'[u] = IF u = t THEN next ELSE job[u]
<1>1. \A u \in Threads : job'[u] = IF u = t THEN next ELSE job[u]
  BY DEF Becomes, CInv, JobsOK
<1>2. \A u \in Threads : Deciding(job'[u])
  BY <1>1 DEF Decided
<1>3. Decided'
  BY <1>2 DEF Decided, Deciding, Lowering
<1> QED
  BY <1>1, <1>3

LEMMA SendsDuringFinite ==
  ASSUME NEW log \in Seq(Entry), NEW ct, NEW end
  PROVE  /\ IsFiniteSet(SendsDuring(log, ct, end))
         /\ Cardinality(SendsDuring(log, ct, end)) \in Nat
<1>1. SendsDuring(log, ct, end) \subseteq 1 .. Len(log)
  BY DEF SendsDuring
<1>2. IsFiniteSet(1 .. Len(log))
  BY FS_Interval
<1>3. IsFiniteSet(SendsDuring(log, ct, end))
  BY <1>1, <1>2, FS_Subset
<1> QED
  BY <1>3, FS_CardinalityType

\* A step that neither records a send nor takes one up.
LEMMA CapKeeps ==
  ASSUME CInv, Decided, CapShared, NEW t \in Threads, NEW next, Becomes(t, next),
         ledger' = ledger, Deciding(next),
         \A ct, end : Carries(next, ct, end) => Carries(job[t], ct, end)
  PROVE  Decided' /\ CapShared'
<1>1. Decided' /\ \A u \in Threads : job'[u] = IF u = t THEN next ELSE job[u]
  BY DecidedMove
<1>2. ASSUME NEW ct \in CampaignTypes, NEW end \in Int
      PROVE  Cardinality(SendsDuring(ledger', ct, end)) + Cardinality(Carriers(ct, end)')
               <= MaxSendsPer24h + Cardinality(Threads) - 1
  <2> DEFINE before == Carriers(ct, end)
             after  == {u \in Threads : Carries(job'[u], ct, end)}
  <2>1. Carriers(ct, end)' = after
    BY DEF Carriers, Carries, Within
  <2>2. after \subseteq before
    BY <1>1 DEF Carriers
  <2>3. before \subseteq Threads
    BY DEF Carriers
  <2>4. /\ Cardinality(after) <= Cardinality(before)
        /\ Cardinality(after) \in Nat /\ Cardinality(before) \in Nat
        /\ Cardinality(Threads) \in Nat
    BY <2>2, <2>3, CarriersFinite, FS_Subset
  <2>5. Cardinality(SendsDuring(ledger, ct, end)) + Cardinality(before)
          <= MaxSendsPer24h + Cardinality(Threads) - 1
    BY DEF CapShared
  <2>6. Cardinality(SendsDuring(ledger, ct, end)) \in Nat /\ MaxSendsPer24h \in Nat
    BY SendsDuringFinite, Known, ConstraintsAssumption
  <2> HIDE DEF before, after
  <2> QED
    BY <2>1, <2>4, <2>5, <2>6
<1>3. CapShared'
  BY <1>2 DEF CapShared, SendsDuring
<1> QED
  BY <1>1, <1>3

\* A route takes up a send only where the count of its day leaves room, and the
\* count takes in all the day's recorded sends.
LEMMA RouteCap ==
  ASSUME CInv, Decided, CapShared, NEW t \in Threads, NEW next, Becomes(t, next),
         ledger' = ledger, Deciding(next),
         NEW own \in CampaignTypes, NEW now \in Int,
         next.entry.campaign_type = own, next.entry.ts = now,
         next.entry.kind = "run",
         next.entry.decision = "auto_send" =>
           SendsLast24h(ledger, own, now) < MaxSendsPer24h
  PROVE  Decided' /\ CapShared'
<1>1. Decided' /\ \A u \in Threads : job'[u] = IF u = t THEN next ELSE job[u]
  BY DecidedMove
<1>2. ASSUME NEW ct \in CampaignTypes, NEW end \in Int
      PROVE  Cardinality(SendsDuring(ledger, ct, end)) + Cardinality(Carriers(ct, end)')
               <= MaxSendsPer24h + Cardinality(Threads) - 1
  <2> DEFINE sends  == SendsDuring(ledger, ct, end)
             before == Carriers(ct, end)
             after  == {u \in Threads : Carries(job'[u], ct, end)}
  <2>1. Carriers(ct, end)' = after
    BY DEF Carriers, Carries, Within
  <2>2. after \ {t} \subseteq before \ {t} /\ before \subseteq Threads /\ after \subseteq Threads
    BY <1>1 DEF Carriers
  <2>3. /\ Cardinality(sends) \in Nat /\ MaxSendsPer24h \in Nat
        /\ IsFiniteSet(before) /\ IsFiniteSet(after)
        /\ Cardinality(after) \in Nat /\ Cardinality(before) \in Nat
        /\ Cardinality(Threads) \in Nat
    BY <2>2, SendsDuringFinite, Known, CarriersFinite, ConstraintsAssumption
  <2>4. Cardinality(sends) + Cardinality(before) <= MaxSendsPer24h + Cardinality(Threads) - 1
    BY DEF CapShared
  <2> DEFINE kept == Cardinality(sends) + Cardinality(after)
                       <= MaxSendsPer24h + Cardinality(Threads) - 1
  <2>5. ASSUME t \notin after PROVE kept
    <3>1. after \subseteq before
      BY <2>2, <2>5
    <3>2. Cardinality(after) <= Cardinality(before)
      BY <2>3, <3>1, FS_Subset
    <3> HIDE DEF sends, before, after
    <3> QED
      BY <2>3, <2>4, <3>2
  <2>6. ASSUME t \in after PROVE kept
    <3> DEFINE counted == SendsSince(ledger, ct, now - Day)
    <3>1. Within(next.entry, ct, end)
      BY <1>1, <2>6 DEF Carries
    <3>2. ct = own /\ next.entry.decision = "auto_send" /\ now <= end
      BY <3>1 DEF Within, IsAutoSend, IsRun
    <3>3. Cardinality(counted) < MaxSendsPer24h
      BY <3>2 DEF SendsLast24h
    <3>4. sends \subseteq counted
      BY <3>2, Known, IntervalWithinWindow
    <3>5. IsFiniteSet(counted)
      BY Known, SendsFinite
    <3>6. Cardinality(sends) <= Cardinality(counted) /\ Cardinality(counted) \in Nat
      BY <3>4, <3>5, FS_Subset, FS_CardinalityType
    <3>7. after = (after \ {t}) \cup {t} /\ t \notin after \ {t}
      BY <2>6
    <3>8. after \subseteq Threads
      BY <2>2
    <3>9. Cardinality(after) <= Cardinality(Threads)
      BY <3>8, CarriersFinite
    <3> HIDE DEF sends, before, after, counted
    <3> QED
      BY <2>3, <3>3, <3>6, <3>9
  <2>7. kept
    BY <2>5, <2>6
  <2> HIDE DEF after
  <2> QED
    BY <2>1, <2>7
<1>3. CapShared'
  BY <1>2 DEF CapShared, SendsDuring
<1> QED
  BY <1>1, <1>3

\* An insert moves what its thread carried to the record.
LEMMA InsertCap ==
  ASSUME CInv, Decided, CapShared, NEW t \in Threads, NEW next, Becomes(t, next),
         job[t].at \in Inserting, job[t].entry \in Entry,
         ledger' = Append(ledger, job[t].entry), Deciding(next),
         \A ct, end : ~Carries(next, ct, end)
  PROVE  Decided' /\ CapShared'
<1>1. Decided' /\ \A u \in Threads : job'[u] = IF u = t THEN next ELSE job[u]
  BY DecidedMove
<1> DEFINE entry == job[t].entry
           n     == Len(ledger)
<1>2. /\ n \in Nat /\ DOMAIN ledger = 1 .. n /\ DOMAIN ledger' = 1 .. n + 1
      /\ \A i \in 1 .. n : ledger'[i] = ledger[i]
      /\ ledger'[n + 1] = entry
  BY Known, AppendFacts
<1> HIDE DEF n
<1>3. ASSUME NEW ct \in CampaignTypes, NEW end \in Int
      PROVE  Cardinality(SendsDuring(ledger', ct, end)) + Cardinality(Carriers(ct, end)')
               <= MaxSendsPer24h + Cardinality(Threads) - 1
  <2> DEFINE sends  == SendsDuring(ledger, ct, end)
             more   == SendsDuring(ledger', ct, end)
             before == Carriers(ct, end)
             after  == {u \in Threads : Carries(job'[u], ct, end)}
  <2>1. Carriers(ct, end)' = after
    BY DEF Carriers, Carries, Within
  <2>2. after = before \ {t} /\ before \subseteq Threads
    BY <1>1 DEF Carriers
  <2>3. /\ IsFiniteSet(sends) /\ Cardinality(sends) \in Nat /\ MaxSendsPer24h \in Nat
        /\ IsFiniteSet(before) /\ Cardinality(before) \in Nat
        /\ Cardinality(Threads) \in Nat
    BY <2>2, SendsDuringFinite, Known, CarriersFinite, ConstraintsAssumption
  <2>4. Cardinality(sends) + Cardinality(before) <= MaxSendsPer24h + Cardinality(Threads) - 1
    BY DEF CapShared
  <2> DEFINE kept == Cardinality(more) + Cardinality(after)
                       <= MaxSendsPer24h + Cardinality(Threads) - 1
  <2>5. ASSUME Within(entry, ct, end) PROVE kept
    <3>1. more = sends \cup {n + 1}
      BY <1>2, <2>5 DEF SendsDuring, Within
    <3>2. n + 1 \notin sends
      BY <1>2 DEF SendsDuring
    <3>3. Cardinality(more) = Cardinality(sends) + 1
      BY <2>3, <3>1, <3>2, FS_AddElement
    <3>4. t \in before
      BY <2>5 DEF Carriers, Carries
    <3>5. Cardinality(after) = Cardinality(before) - 1
      BY <2>2, <2>3, <3>4, FS_RemoveElement
    <3> HIDE DEF sends, more, before, after
    <3> QED
      BY <2>3, <2>4, <3>3, <3>5
  <2>6. ASSUME ~Within(entry, ct, end) PROVE kept
    <3>1. more = sends
      BY <1>2, <2>6 DEF SendsDuring, Within
    <3>2. after \subseteq before
      BY <2>2
    <3>3. Cardinality(after) <= Cardinality(before) /\ Cardinality(after) \in Nat
      BY <2>3, <3>2, FS_Subset, FS_CardinalityType
    <3> HIDE DEF sends, more, before, after
    <3> QED
      BY <2>3, <2>4, <3>1, <3>3
  <2>7. kept
    BY <2>5, <2>6
  <2> HIDE DEF after
  <2> QED
    BY <2>1, <2>7
<1>4. CapShared'
  BY <1>3 DEF CapShared, SendsDuring
<1> QED
  BY <1>1, <1>4

\* The steps after which nothing is about to be inserted.
LEMMA CapAtRest ==
  ASSUME CInv, Decided, CapShared, NEW t \in Threads, NEW next, Becomes(t, next),
         ledger' = ledger, next.at \notin Inserting
  PROVE  Decided' /\ CapShared'
  BY NotInserting, CapKeeps

LEMMA NotInsertingNext ==
  ASSUME NEW sim, NEW flag
  PROVE  /\ NextRun(sim).at \notin Inserting
         /\ Flagging(sim, flag).at \notin Inserting
         /\ NextRun(sim).at # "downgrade"
         /\ Flagging(sim, flag).at # "downgrade"
<1>1. NextRun(sim).at \in {"read", "return"}
  BY DEF NextRun, Read
<1>2. \/ Flagging(sim, flag) = [at |-> "flag", sim |-> sim]
      \/ Flagging(sim, flag) = NextRun(sim)
  BY DEF Flagging
<1> QED
  BY <1>1, <1>2 DEF Inserting

LEMMA TakeSeqCap ==
  ASSUME CInv, Decided, CapShared, NEW t \in Threads, TakeSeq(t)
  PROVE  Decided' /\ CapShared'
<1> DEFINE next == [at |-> "insert", seq |-> Len(ledger) + 1,
                    entry |-> job[t].entry, then |-> job[t].then]
<1>1. job[t].at = "take" /\ Becomes(t, next) /\ ledger' = ledger
  BY DEF TakeSeq, At, Goes
<1>2. /\ next.at = "insert" /\ next.entry = job[t].entry /\ next.then = job[t].then
  OBVIOUS
<1> HIDE DEF next
<1>3. Deciding(job[t])
  BY DEF Decided
<1>4. Deciding(next)
  BY <1>1, <1>2, <1>3 DEF Deciding, Inserting
<1>5. \A ct, end : Carries(next, ct, end) => Carries(job[t], ct, end)
  BY <1>1, <1>2 DEF Carries, Inserting
<1> QED
  BY <1>1, <1>4, <1>5, CapKeeps

LEMMA InsertStepCap ==
  ASSUME CInv, Decided, CapShared, NEW t \in Threads, Insert(t)
  PROVE  Decided' /\ CapShared'
<1>1. job[t].at = "insert" /\ JobOK(ledger, DOMAIN items, job[t]) /\ Deciding(job[t])
  BY Known DEF Insert, At, Decided
<1>2. job[t].at \in Inserting /\ job[t].entry \in Entry
  BY <1>1 DEF JobOK, Inserting
<1>3. Deciding(job[t].then) /\ \A ct, end : ~Carries(job[t].then, ct, end)
  BY <1>1, <1>2, FollowersDecided
<1>4. CASE ledger' = Append(ledger, job[t].entry) /\ Becomes(t, job[t].then)
  BY <1>2, <1>3, <1>4, InsertCap
<1>5. CASE ledger' = ledger /\ Becomes(t, Idle)
  BY <1>5, CapAtRest DEF Idle, Inserting
<1> QED
  BY <1>4, <1>5 DEF Insert

LEMMA RouteStepCap ==
  ASSUME CInv, Decided, CapShared, NEW t \in Threads, Route(t)
  PROVE  Decided' /\ CapShared'
<1> DEFINE sim        == job[t].sim
           evaluation == SyntheticEvaluation(sim)
           tier       == EffectiveTier(Seen(t), sim.ct)
           sends      == SendsLast24h(ledger, sim.ct, Ts(sim))
           routed     == Decide(evaluation, tier, sends)
           fact       == RunFact(Seen(t), evaluation, Ts(sim))
           entry      == [fact EXCEPT !.decision = routed.decision,
                                      !.outcome = routed.outcome]
           item       == QueueItemFromDecision(evaluation, routed.decision,
                           Violations(evaluation, tier, sends), Ts(sim), SendWindow)
           then       == [at |-> IF entry.outcome = "quality_pass"
                                   THEN "standing" ELSE "enqueue",
                          sim |-> sim, item |-> item]
           next       == [at |-> "take", entry |-> entry, then |-> then]
<1>1. job[t].at = "route" /\ Becomes(t, next) /\ ledger' = ledger
  BY DEF Route, At, Goes
<1>2. SimOK(sim)
  BY <1>1, Known DEF JobOK, Simulating
<1>3. sim.ct \in CampaignTypes /\ Ts(sim) \in Int /\ evaluation.campaign_type = sim.ct
  BY <1>2, SimFacts
<1>4. /\ entry.kind = "run" /\ entry.campaign_type = sim.ct /\ entry.ts = Ts(sim)
      /\ entry.decision = routed.decision
  BY <1>3 DEF RunFact
<1>5. then.at \in {"standing", "enqueue"}
  OBVIOUS
<1>6. routed.decision = "auto_send" => sends < MaxSendsPer24h
  <2>1. routed.decision = "auto_send" => CheckRateLimit(sends) = {}
    BY DEF Decide, AutoSends, Violations
  <2>2. sends \in Nat /\ MaxSendsPer24h \in Nat
    BY Known, SendsFinite, FS_CardinalityType, ConstraintsAssumption DEF SendsLast24h
  <2> HIDE DEF sends, routed
  <2> QED
    BY <2>1, <2>2 DEF CheckRateLimit
<1> HIDE DEF entry, routed, then
<1>7. next.at = "take" /\ next.entry = entry /\ next.then = then
  OBVIOUS
<1> HIDE DEF next
<1>8. Deciding(next)
  BY <1>4, <1>5, <1>7 DEF Deciding, Lowering
<1> QED
  BY <1>1, <1>3, <1>4, <1>6, <1>7, <1>8, RouteCap

LEMMA ReadStandingCap ==
  ASSUME CInv, Decided, CapShared, NEW t \in Threads, ReadStanding(t)
  PROVE  Decided' /\ CapShared'
<1> DEFINE weigh == [at |-> "weigh", sim |-> job[t].sim, item |-> job[t].item,
                     seen |-> Len(ledger)]
<1>1. /\ ledger' = ledger
      /\ Becomes(t, weigh) \/ Becomes(t, Queueing(t))
  BY DEF ReadStanding, Goes
<1>2. weigh.at = "weigh" /\ Queueing(t).at = "enqueue"
  BY DEF Queueing
<1> HIDE DEF weigh
<1> QED
  BY <1>1, <1>2, CapAtRest DEF Inserting

LEMMA WeighCap ==
  ASSUME CInv, Decided, CapShared, NEW t \in Threads, Weigh(t)
  PROVE  Decided' /\ CapShared'
<1> DEFINE sim       == job[t].sim
           promotion == Promotion(Seen(t), sim.ct, Ts(sim))
           next      == [at |-> "take", entry |-> promotion, then |-> Queueing(t)]
<1>1. /\ ledger' = ledger
      /\ Becomes(t, next) \/ Becomes(t, Queueing(t))
  BY DEF Weigh, Goes
<1>2. Queueing(t).at = "enqueue"
  BY DEF Queueing
<1>3. promotion.kind = "transition" /\ promotion.standing_after = "active"
  BY DEF Promotion, Transition
<1>4. next.at = "take" /\ next.entry = promotion /\ next.then = Queueing(t)
  OBVIOUS
<1> HIDE DEF promotion, next
<1>5. Deciding(next) /\ \A ct, end : ~Carries(next, ct, end)
  BY <1>2, <1>3, <1>4 DEF Deciding, Lowering, Carries, Within, IsAutoSend, IsRun
<1>6. CASE Becomes(t, next)
  BY <1>1, <1>5, <1>6, CapKeeps
<1>7. CASE Becomes(t, Queueing(t))
  BY <1>1, <1>2, <1>7, CapAtRest DEF Inserting
<1> QED
  BY <1>1, <1>6, <1>7

\* What a job is about to insert when it has taken up an outcome.
LEMMA OutcomeTaken ==
  ASSUME CInv, NEW t \in Threads, TakeOutcome(t)
  PROVE  \E next : /\ Goes(t, next)
                   /\ next.at = "take"
                   /\ Deciding(next)
                   /\ \A ct, end : ~Carries(next, ct, end)
                   /\ next.then.at \in {"take", "read", "flag", "return"}
<1> DEFINE sim  == job[t].sim
           last == IF sim.n - 1 >= 1 THEN sim.n - 1 ELSE 1
           report(z) == [campaign_type |-> sim.ct, run_id |-> RunId(sim),
                         rates |-> Simulate("engaged_30d", SyntheticWeakness,
                                            sim.scenario, z, sim.i, last)]
           outcome(z) == OutcomeFact(ledger, report(z), Ts(sim))
           demotion == Demotion(ledger, sim.ct, Ts(sim), "demotion_deliverability")
           b(z) == OneIf(outcome(z).breached)
           d(z) == OneIf(ReportDemotes(ledger, report(z)))
           s(z) == OneIf(outcome(z).blind_spot)
           counted(z) == [sim EXCEPT
                            !.sums.breaches = @ + b(z),
                            !.sums.demotions = @ + d(z),
                            !.sums.blind_spots = @ + s(z)]
           downgrade(z) == [at |-> "downgrade", sim |-> counted(z),
                            flag |-> outcome(z).blind_spot]
           then(z) == IF ReportDemotes(ledger, report(z))
                        THEN [at |-> "take", entry |-> demotion, then |-> downgrade(z)]
                        ELSE Flagging(counted(z), outcome(z).blind_spot)
<1>1. PICK z \in Noise : Goes(t, [at |-> "take", entry |-> outcome(z), then |-> then(z)])
  BY DEF TakeOutcome
<1> DEFINE next == [at |-> "take", entry |-> outcome(z), then |-> then(z)]
<1>2. SimOK(sim)
  BY Known DEF TakeOutcome, At, JobOK, Simulating
<1>3. outcome(z).kind = "outcome"
  BY DEF OutcomeFact
<1>4. /\ demotion.kind = "transition" /\ demotion.standing_after = "probation"
      /\ demotion.to_tier = ASSIST /\ demotion.campaign_type = sim.ct
  BY DEF Demotion, Transition
<1>5. counted(z).ct = sim.ct
  BY <1>2 DEF SimOK
<1> HIDE DEF outcome, demotion, counted
<1>6. downgrade(z).at = "downgrade" /\ downgrade(z).sim = counted(z)
  OBVIOUS
<1> HIDE DEF downgrade
<1>7. \/ /\ then(z).at = "take" /\ then(z).entry = demotion /\ then(z).then = downgrade(z)
      \/ then(z) = Flagging(counted(z), outcome(z).blind_spot)
  OBVIOUS
<1>8. Flagging(counted(z), outcome(z).blind_spot).at \in {"read", "flag", "return"}
  BY DEF Flagging, NextRun, Read
<1>9. /\ then(z).at \in {"take", "read", "flag", "return"}
      /\ then(z).at = "take" =>
           then(z).entry = demotion /\ then(z).then = downgrade(z)
  BY <1>7, <1>8
<1> HIDE DEF then
<1>10. next.at = "take" /\ next.entry = outcome(z) /\ next.then = then(z)
  OBVIOUS
<1>11. Goes(t, next)
  BY <1>1
<1> HIDE DEF next
<1>12. Deciding(next)
  BY <1>3, <1>4, <1>5, <1>6, <1>9, <1>10 DEF Deciding, Lowering
<1>13. \A ct, end : ~Carries(next, ct, end)
  BY <1>3, <1>10 DEF Carries, Within, IsAutoSend, IsRun
<1> QED
  BY <1>9, <1>10, <1>11, <1>12, <1>13

LEMMA TakeOutcomeCap ==
  ASSUME CInv, Decided, CapShared, NEW t \in Threads, TakeOutcome(t)
  PROVE  Decided' /\ CapShared'
<1>1. PICK next : Goes(t, next) /\ Deciding(next) /\ \A ct, end : ~Carries(next, ct, end)
  BY OutcomeTaken
<1> QED
  BY <1>1, CapKeeps DEF Goes

\* The steps around the queue, and the beginning and the end of a call.
LEMMA OtherStepsCap ==
  ASSUME CInv, Decided, CapShared, NEW t \in Threads,
         \/ ReadItem(t) \/ WriteItem(t) \/ Marked(t) \/ ReadState(t) \/ Enqueue(t)
         \/ Downgrade(t) \/ Flag(t) \/ Return(t) \/ Show(t)
         \/ GetQueue(t) \/ PostApprove(t)
  PROVE  Decided' /\ CapShared'
<1>1. ledger' = ledger
  BY DEF ReadItem, WriteItem, Marked, ReadState, Enqueue, Downgrade, Flag, Return, Show,
         GetQueue, PostApprove, Starts, Goes
<1>2. JobOK(ledger, DOMAIN items, job[t]) /\ Deciding(job[t])
  BY Known DEF Decided
<1>3. ASSUME Marked(t) PROVE \E next : Becomes(t, next) /\ next.at \notin Inserting
  BY <1>2, <1>3, FollowersDecided DEF Marked, At, Goes
<1>4. ASSUME ReadItem(t) PROVE \E next : Becomes(t, next) /\ next.at \notin Inserting
  <2>1. PICK id \in job[t].ids :
          Becomes(t, [at |-> "put", id |-> id, item |-> items[id], status |-> job[t].status,
                      ids |-> job[t].ids \ {id}, then |-> job[t].then])
    BY <1>4 DEF ReadItem, Goes
  <2> QED
    BY <2>1 DEF Inserting
<1>5. ASSUME WriteItem(t) \/ ReadState(t) \/ Downgrade(t)
      PROVE  \E next : Becomes(t, next) /\ next.at \notin Inserting
  <2>1. CASE WriteItem(t)
    BY <2>1 DEF WriteItem, Inserting
  <2>2. CASE ReadState(t)
    BY <2>2 DEF ReadState, Goes, Inserting
  <2>3. CASE Downgrade(t)
    BY <2>3 DEF Downgrade, Goes, Inserting
  <2> QED
    BY <1>5, <2>1, <2>2, <2>3
<1>6. ASSUME Enqueue(t) \/ Flag(t)
      PROVE  \E next : Becomes(t, next) /\ next.at \notin Inserting
  <2> DEFINE sent == [at |-> "outcome", sim |-> [job[t].sim EXCEPT !.sums.sent = @ + 1]]
  <2>1. Becomes(t, sent) \/ Becomes(t, NextRun(job[t].sim))
    BY <1>6 DEF Enqueue, Flag
  <2>2. sent.at = "outcome"
    OBVIOUS
  <2> HIDE DEF sent
  <2> QED
    BY <2>1, <2>2, NotInsertingNext DEF Inserting
<1>7. ASSUME Return(t) \/ Show(t)
      PROVE  \E next : Becomes(t, next) /\ next.at \notin Inserting
  BY <1>7 DEF Return, Show, Idle, Inserting
<1>8. ASSUME GetQueue(t) \/ PostApprove(t)
      PROVE  \E next : Becomes(t, next) /\ next.at \notin Inserting
  <2>1. CASE GetQueue(t)
    BY <2>1 DEF GetQueue, Starts, Inserting
  <2>2. CASE PostApprove(t)
    BY <2>2 DEF PostApprove, Starts, Inserting
  <2> QED
    BY <1>8, <2>1, <2>2
<1>9. \E next : Becomes(t, next) /\ next.at \notin Inserting
  BY <1>3, <1>4, <1>5, <1>6, <1>7, <1>8
<1> QED
  BY <1>1, <1>9, CapAtRest

LEMMA PostSimulateCap ==
  ASSUME CInv, Decided, CapShared, NEW t \in Threads, NEW ct, NEW n, NEW scenario,
         PostSimulate(t, ct, n, scenario)
  PROVE  Decided' /\ CapShared'
<1>1. /\ ledger' = ledger
      /\ Becomes(t, Read([ct |-> ct, n |-> n, scenario |-> scenario, began |-> clock,
                          i |-> 0, sums |-> Nothing]))
  BY DEF PostSimulate
<1>2. \A sim : Read(sim).at \notin Inserting
  BY DEF Read, Inserting
<1> QED
  BY <1>1, <1>2, CapAtRest

LEMMA ConsoleCap ==
  CInv /\ Decided /\ CapShared /\ [ConsoleNext]_cvars => Decided' /\ CapShared'
<1> SUFFICES ASSUME CInv, Decided, CapShared, [ConsoleNext]_cvars
             PROVE  Decided' /\ CapShared'
  OBVIOUS
<1>1. CASE Tick \/ UNCHANGED cvars
  <2>1. job' = job /\ ledger' = ledger
    BY <1>1 DEF Tick, cvars
  <2> QED
    BY <2>1 DEF Decided, Deciding, Lowering, CapShared, Carriers, Carries, Within, SendsDuring
<1>2. ASSUME NEW t \in Threads, JobStep(t) PROVE Decided' /\ CapShared'
  BY <1>2, TakeSeqCap, InsertStepCap, RouteStepCap, ReadStandingCap, WeighCap,
     TakeOutcomeCap, OtherStepsCap, Zenon DEF JobStep
<1>3. ASSUME NEW t \in Threads, GetQueue(t) \/ PostApprove(t) PROVE Decided' /\ CapShared'
  BY <1>3, OtherStepsCap
<1>4. ASSUME NEW t \in Threads, NEW ct, NEW n, NEW scenario,
             PostSimulate(t, ct, n, scenario)
      PROVE  Decided' /\ CapShared'
  BY <1>4, PostSimulateCap
<1> QED
  BY <1>1, <1>2, <1>3, <1>4 DEF ConsoleNext

\* The console starts with one run on record and no call on its way.
LEMMA StartsWithOneRun ==
  ConsoleInit => /\ ledger \in Seq(Entry) /\ Len(ledger) = 2
                 /\ ledger[1].kind = "run"
                 /\ ledger[2].kind = "transition"
                 /\ ledger[2].campaign_type = Earlier.campaign_type
                 /\ ledger[2].standing_after = "active"
                 /\ \A t \in Threads : job[t] = Idle
<1> SUFFICES ASSUME ConsoleInit
             PROVE  /\ ledger \in Seq(Entry) /\ Len(ledger) = 2
                    /\ ledger[1].kind = "run"
                    /\ ledger[2].kind = "transition"
                    /\ ledger[2].campaign_type = Earlier.campaign_type
                    /\ ledger[2].standing_after = "active"
                    /\ \A t \in Threads : job[t] = Idle
  OBVIOUS
<1> DEFINE run    == RunFact(<<>>, Earlier, EarlierTs)
           raised == Promotion(<<run>>, Earlier.campaign_type, EarlierTs)
<1>1. ledger = Append(<<run>>, raised)
  BY DEF ConsoleInit
<1>2. run.kind = "run"
  BY DEF RunFact
<1>3. /\ raised.kind = "transition" /\ raised.campaign_type = Earlier.campaign_type
      /\ raised.standing_after = "active"
  BY DEF Promotion, Transition
<1> HIDE DEF run, raised
<1>4. Len(ledger) = 2 /\ ledger[1] = run /\ ledger[2] = raised
  BY <1>1
<1>5. ledger \in Seq(Entry)
  BY ConsoleInitCInv DEF CInv, Grounded
<1>6. \A t \in Threads : job[t] = Idle
  BY DEF ConsoleInit
<1> QED
  BY <1>2, <1>3, <1>4, <1>5, <1>6

LEMMA ConsoleInitCap == ConsoleInit => Decided /\ CapShared
<1> SUFFICES ASSUME ConsoleInit PROVE Decided /\ CapShared
  OBVIOUS
<1>1. /\ ledger \in Seq(Entry) /\ Len(ledger) = 2 /\ ledger[2].kind = "transition"
      /\ \A t \in Threads : job[t] = Idle
  BY StartsWithOneRun
<1>2. Idle.at \notin Inserting
  BY DEF Idle, Inserting
<1>3. Decided
  BY <1>1, <1>2, NotInserting DEF Decided
<1>4. ASSUME NEW ct \in CampaignTypes, NEW end \in Int
      PROVE  Cardinality(SendsDuring(ledger, ct, end)) + Cardinality(Carriers(ct, end))
               <= MaxSendsPer24h + Cardinality(Threads) - 1
  <2>1. Carriers(ct, end) = {}
    BY <1>1, <1>2, NotInserting DEF Carriers
  <2>2. SendsDuring(ledger, ct, end) \subseteq {1}
    BY <1>1 DEF SendsDuring, IsAutoSend, IsRun
  <2>3. /\ Cardinality(SendsDuring(ledger, ct, end)) <= Cardinality({1})
        /\ Cardinality(SendsDuring(ledger, ct, end)) \in Nat
    BY <1>1, <2>2, FS_Singleton, FS_Subset, SendsDuringFinite
  <2>4. Cardinality({1}) = 1 /\ Cardinality(Carriers(ct, end)) = 0
    BY <2>1, FS_Singleton, FS_EmptySet
  <2>5. /\ MaxSendsPer24h \in Nat /\ MaxSendsPer24h >= 1
        /\ Cardinality(Threads) \in Nat /\ Cardinality(Threads) >= 1
    BY ConstraintsAssumption, CarriersFinite
  <2> QED
    BY <2>3, <2>4, <2>5
<1>5. CapShared
  BY <1>4 DEF CapShared
<1> QED
  BY <1>3, <1>5

LEMMA CapBoundsOvershoot == CInv /\ CapShared => OvershootBounded
<1> SUFFICES ASSUME CInv, CapShared, NEW ct \in CampaignTypes, NEW i \in DOMAIN ledger
             PROVE  Cardinality(SendsDuring(ledger, ct, ledger[i].ts))
                      <= MaxSendsPer24h + Cardinality(Threads) - 1
  BY DEF OvershootBounded
<1>1. ledger \in Seq(Entry) /\ ledger[i] \in Entry
  BY Known DEF CInv, Grounded
<1> DEFINE end == ledger[i].ts
<1>2. end \in Int
  BY <1>1 DEF Entry, RunEntry, TransitionEntry, OutcomeEntry
<1>3. Carriers(ct, end) \subseteq Threads
  BY DEF Carriers
<1> HIDE DEF end
<1>4. /\ Cardinality(SendsDuring(ledger, ct, end)) \in Nat
      /\ Cardinality(Carriers(ct, end)) \in Nat /\ Cardinality(Threads) \in Nat
      /\ MaxSendsPer24h \in Nat
  BY <1>1, <1>3, SendsDuringFinite, CarriersFinite, ConstraintsAssumption
<1>5. Cardinality(SendsDuring(ledger, ct, end)) + Cardinality(Carriers(ct, end))
        <= MaxSendsPer24h + Cardinality(Threads) - 1
  BY <1>2 DEF CapShared
<1>6. Cardinality(SendsDuring(ledger, ct, end)) <= MaxSendsPer24h + Cardinality(Threads) - 1
  BY <1>4, <1>5
<1> QED
  BY <1>6 DEF end

LEMMA ConsoleCapHolds == ConsoleSpec => [](CInv /\ Decided /\ CapShared)
  BY ConsoleInitCInv, ConsoleStep, ConsoleInitCap, ConsoleCap, PTL DEF ConsoleSpec

\* The count of the day's sends is read before the send is recorded
\* (controller.py:141-151, and no lock is held): with any number of threads,
\* calls and types the day's cap is exceeded by at most one send for each
\* thread beyond the first.
THEOREM OvershootIsBounded == ConsoleSpec => []OvershootBounded
  BY ConsoleCapHolds, CapBoundsOvershoot, PTL

-----------------------------------------------------------------------------
(***************************************************************************)
(* What a demotion leaves in flight.                                       *)
(*                                                                         *)
(* While a type is on probation, what is in flight and no thread is about  *)
(* to take back, and the threads that may still put a send of the type     *)
(* there, are together fewer than the threads: the thread that recorded    *)
(* the demotion goes on to take back all it sees, and a thread that reads  *)
(* the state from then on sees a tier that sends nothing.                  *)
(***************************************************************************)
Flying(item, ct) == item.status = "in_flight" /\ item.campaign_type = ct

MaySend(log, j, ct) ==
  \/ /\ j.at = "route" /\ j.sim.ct = ct
     /\ TierOf(SubSeq(log, 1, j.seen), ct) > ASSIST
  \/ j.at \in Holding /\ Flying(j.item, ct)
  \/ j.at \in Inserting /\ j.then.at \in Holding /\ Flying(j.then.item, ct)

\* The rows a job is about to write.
Marks(j, id) ==
  \/ j.at = "mark" /\ id \in j.ids
  \/ j.at = "put" /\ (id \in j.ids \/ id = j.id)

\* The job will take a row of the type out of flight.
TakesBack(j, id, ct) ==
  Marks(j, id) \/ (j.at = "downgrade" /\ j.sim.ct = ct)

Senders(ct) == {t \in Threads : MaySend(ledger, job[t], ct)}

Exposed(ct) ==
  {id \in InFlight(ct) : \A t \in Threads : ~TakesBack(job[t], id, ct)}

\* Probation takes the tier away.
OnProbation ==
  \A ct \in CampaignTypes :
    StandingOf(ledger, ct) = "probation" => TierOf(ledger, ct) = ASSIST

FewStale ==
  \A ct \in CampaignTypes :
    StandingOf(ledger, ct) = "probation" =>
      Cardinality(Exposed(ct)) + Cardinality(Senders(ct)) <= Cardinality(Threads) - 1

Waning == IsFiniteSet(DOMAIN items) /\ OnProbation /\ FewStale

-----------------------------------------------------------------------------
(***************************************************************************)
(* The counts, as sets.                                                    *)
(***************************************************************************)
LEMMA NoMoreStale ==
  ASSUME NEW E, IsFiniteSet(E), NEW S, S \subseteq Threads,
         Cardinality(E) + Cardinality(S) <= Cardinality(Threads) - 1,
         NEW E2, E2 \subseteq E, NEW S2, S2 \subseteq S
  PROVE  Cardinality(E2) + Cardinality(S2) <= Cardinality(Threads) - 1
<1>1. IsFiniteSet(S) /\ Cardinality(S) \in Nat /\ Cardinality(Threads) \in Nat
  BY CarriersFinite
<1>2. /\ Cardinality(E) \in Nat /\ Cardinality(E2) \in Nat /\ Cardinality(S2) \in Nat
      /\ Cardinality(E2) <= Cardinality(E) /\ Cardinality(S2) <= Cardinality(S)
  BY <1>1, FS_Subset, FS_CardinalityType
<1> QED
  BY <1>1, <1>2

\* A thread's send lands in the queue.
LEMMA OneLands ==
  ASSUME NEW E, IsFiniteSet(E), NEW S, S \subseteq Threads,
         Cardinality(E) + Cardinality(S) <= Cardinality(Threads) - 1,
         NEW id, NEW E2, E2 \subseteq E \cup {id},
         NEW t \in S, NEW S2, S2 \subseteq S \ {t}
  PROVE  Cardinality(E2) + Cardinality(S2) <= Cardinality(Threads) - 1
<1>1. IsFiniteSet(S) /\ Cardinality(S) \in Nat /\ Cardinality(Threads) \in Nat
  BY CarriersFinite
<1>2. /\ IsFiniteSet(S \ {t}) /\ Cardinality(S \ {t}) = Cardinality(S) - 1
      /\ Cardinality(S2) <= Cardinality(S \ {t}) /\ Cardinality(S2) \in Nat
  BY <1>1, FS_RemoveElement, FS_Subset, FS_CardinalityType
<1>3. /\ IsFiniteSet(E \cup {id}) /\ Cardinality(E) \in Nat
      /\ Cardinality(E \cup {id}) <= Cardinality(E) + 1
  <2>1. Cardinality(E) \in Nat
    BY FS_CardinalityType
  <2> DEFINE more == E \cup {id}
  <2>2. /\ IsFiniteSet(more)
        /\ Cardinality(more) = IF id \in E THEN Cardinality(E) ELSE Cardinality(E) + 1
    BY FS_AddElement
  <2> HIDE DEF more
  <2>3. IsFiniteSet(more) /\ Cardinality(more) <= Cardinality(E) + 1
    BY <2>1, <2>2
  <2> QED
    BY <2>1, <2>3 DEF more
<1>4. /\ Cardinality(E2) <= Cardinality(E \cup {id}) /\ Cardinality(E2) \in Nat
      /\ Cardinality(E \cup {id}) \in Nat
  BY <1>3, FS_Subset, FS_CardinalityType
<1> QED
  BY <1>1, <1>2, <1>3, <1>4

\* Nothing is left but what other threads may still send.
LEMMA NoneLeft ==
  ASSUME NEW t \in Threads, NEW E2, E2 = {}, NEW S2, S2 \subseteq Threads \ {t}
  PROVE  Cardinality(E2) + Cardinality(S2) <= Cardinality(Threads) - 1
<1>1. Cardinality(S2) <= Cardinality(Threads) - 1
  BY AllButOne
<1>2. Cardinality(E2) = 0
  BY FS_EmptySet
<1>3. S2 \subseteq Threads
  OBVIOUS
<1>4. Cardinality(S2) \in Nat /\ Cardinality(Threads) \in Nat
  BY <1>3, CarriersFinite
<1> QED
  BY <1>1, <1>2, <1>4

LEMMA StaleSets ==
  ASSUME Waning, NEW ct
  PROVE  IsFiniteSet(Exposed(ct)) /\ Senders(ct) \subseteq Threads
<1>1. Exposed(ct) \subseteq DOMAIN items
  BY DEF Exposed, InFlight, ByStatus
<1>2. IsFiniteSet(Exposed(ct))
  BY <1>1, FS_Subset DEF Waning
<1> QED
  BY <1>2 DEF Senders

\* A job's next step leaves a type's stale sends no more numerous: it is about
\* to take back all of them, or it neither becomes a sender nor drops a row it
\* was to take back.
Yields(log, more, j, next, ct) ==
  StandingOf(more, ct) = "probation" =>
    \/ next.at = "downgrade" /\ next.sim.ct = ct
    \/ /\ StandingOf(log, ct) = "probation"
       /\ MaySend(more, next, ct) => MaySend(log, j, ct)
       /\ \A id \in InFlight(ct) : TakesBack(j, id, ct) => TakesBack(next, id, ct)

LEMMA SenderWasSender ==
  ASSUME CInv, NEW more,
         \/ more = ledger
         \/ \E entry \in Entry : more = Append(ledger, entry),
         NEW u \in Threads, NEW ct, MaySend(more, job[u], ct)
  PROVE  MaySend(ledger, job[u], ct)
<1>1. JobOK(ledger, DOMAIN items, job[u]) /\ ledger \in Seq(Entry)
  BY Known
<1>2. job[u].at = "route" => SubSeq(more, 1, job[u].seen) = SubSeq(ledger, 1, job[u].seen)
  BY <1>1, PrefixStays DEF JobOK
<1> QED
  BY <1>2 DEF MaySend

\* The other jobs stay what they are.
LEMMA StaleMoves ==
  ASSUME CInv, Waning, NEW t \in Threads, NEW next, Becomes(t, next), items' = items,
         \/ ledger' = ledger
         \/ \E entry \in Entry : ledger' = Append(ledger, entry),
         OnProbation',
         \A ct \in CampaignTypes : Yields(ledger, ledger', job[t], next, ct)
  PROVE  Waning'
<1>1. \A u \in Threads : job'[u] = IF u = t THEN next ELSE job[u]
  BY DEF Becomes, CInv, JobsOK
<1>2. ASSUME NEW ct \in CampaignTypes, StandingOf(ledger', ct) = "probation"
      PROVE  Cardinality(Exposed(ct)') + Cardinality(Senders(ct)')
               <= Cardinality(Threads) - 1
  <2> DEFINE E  == Exposed(ct)
             S  == Senders(ct)
             E2 == {id \in InFlight(ct) : \A u \in Threads : ~TakesBack(job'[u], id, ct)}
             S2 == {u \in Threads : MaySend(ledger', job'[u], ct)}
  <2>1. Exposed(ct)' = E2 /\ Senders(ct)' = S2
    BY DEF Exposed, Senders, InFlight, ByStatus, TakesBack, Marks, MaySend, Flying
  <2>2. \A u \in Threads : MaySend(ledger', job[u], ct) => MaySend(ledger, job[u], ct)
    BY SenderWasSender
  <2>3. Yields(ledger, ledger', job[t], next, ct)
    OBVIOUS
  <2>4. CASE next.at = "downgrade" /\ next.sim.ct = ct
    <3>1. E2 = {}
      BY <1>1, <2>4 DEF TakesBack
    <3>2. ~MaySend(ledger', next, ct)
      BY <2>4 DEF MaySend, Holding, Inserting
    <3>3. S2 \subseteq Threads \ {t}
      BY <1>1, <3>2
    <3> HIDE DEF E2, S2
    <3> QED
      BY <2>1, <3>1, <3>3, NoneLeft
  <2>5. CASE /\ StandingOf(ledger, ct) = "probation"
             /\ MaySend(ledger', next, ct) => MaySend(ledger, job[t], ct)
             /\ \A id \in InFlight(ct) : TakesBack(job[t], id, ct) => TakesBack(next, id, ct)
    <3>1. E2 \subseteq E
      BY <1>1, <2>5 DEF Exposed
    <3>2. S2 \subseteq S
      BY <1>1, <2>2, <2>5 DEF Senders
    <3>3. Cardinality(E) + Cardinality(S) <= Cardinality(Threads) - 1
      BY <2>5 DEF Waning, FewStale
    <3>4. IsFiniteSet(E) /\ S \subseteq Threads
      BY StaleSets
    <3> HIDE DEF E, S, E2, S2
    <3> QED
      BY <2>1, <3>1, <3>2, <3>3, <3>4, NoMoreStale
  <2> QED
    BY <1>2, <2>3, <2>4, <2>5 DEF Yields
<1>3. FewStale'
  BY <1>2 DEF FewStale
<1> QED
  BY <1>3 DEF Waning

\* A step that leaves the ledger and the queue as they are.
LEMMA StaleQuiet ==
  ASSUME CInv, Waning, NEW t \in Threads, NEW next, Becomes(t, next),
         ledger' = ledger, items' = items,
         \A ct \in CampaignTypes :
           /\ StandingOf(ledger, ct) = "probation" /\ MaySend(ledger, next, ct)
                => MaySend(ledger, job[t], ct)
           /\ \A id \in InFlight(ct) : TakesBack(job[t], id, ct) => TakesBack(next, id, ct)
  PROVE  Waning'
<1>1. OnProbation'
  BY DEF Waning, OnProbation
<1>2. \A ct \in CampaignTypes : Yields(ledger, ledger', job[t], next, ct)
  BY DEF Yields
<1> QED
  BY <1>1, <1>2, StaleMoves

Resting == {"idle", "read", "outcome", "mark", "flag", "return", "show"}

\* A step to where nothing is sent, of a job that was to take nothing back.
LEMMA StaleAtRest ==
  ASSUME CInv, Waning, NEW t \in Threads, NEW next, Becomes(t, next),
         ledger' = ledger, items' = items, next.at \in Resting,
         \A id, ct : ~TakesBack(job[t], id, ct)
  PROVE  Waning'
<1>1. \A ct : ~MaySend(ledger, next, ct)
  BY DEF MaySend, Holding, Inserting, Resting
<1> QED
  BY <1>1, StaleQuiet

LEMMA TakeSeqStale ==
  ASSUME CInv, Waning, NEW t \in Threads, TakeSeq(t)
  PROVE  Waning'
<1> DEFINE next == [at |-> "insert", seq |-> Len(ledger) + 1,
                    entry |-> job[t].entry, then |-> job[t].then]
<1>1. job[t].at = "take" /\ Becomes(t, next) /\ ledger' = ledger /\ items' = items
  BY DEF TakeSeq, At, Goes
<1>2. next.at = "insert" /\ next.then = job[t].then
  OBVIOUS
<1> HIDE DEF next
<1>3. \A ct : MaySend(ledger, next, ct) => MaySend(ledger, job[t], ct)
  BY <1>1, <1>2 DEF MaySend, Inserting, Holding
<1>4. \A id, ct : ~TakesBack(job[t], id, ct)
  BY <1>1 DEF TakesBack, Marks
<1> QED
  BY <1>1, <1>3, <1>4, StaleQuiet

LEMMA ReadItemStale ==
  ASSUME CInv, Waning, NEW t \in Threads, ReadItem(t)
  PROVE  Waning'
<1>1. PICK row \in job[t].ids :
        Goes(t, [at |-> "put", id |-> row, item |-> items[row], status |-> job[t].status,
                 ids |-> job[t].ids \ {row}, then |-> job[t].then])
  BY DEF ReadItem
<1> DEFINE next == [at |-> "put", id |-> row, item |-> items[row], status |-> job[t].status,
                    ids |-> job[t].ids \ {row}, then |-> job[t].then]
<1>2. next.at = "put" /\ next.id = row /\ next.ids = job[t].ids \ {row}
  OBVIOUS
<1>3. Becomes(t, next) /\ ledger' = ledger /\ items' = items /\ job[t].at = "mark"
  BY <1>1 DEF Goes, ReadItem, At
<1> HIDE DEF next
<1>4. \A ct : ~MaySend(ledger, next, ct)
  BY <1>2 DEF MaySend, Holding, Inserting
<1>5. \A id, ct : TakesBack(job[t], id, ct) => TakesBack(next, id, ct)
  BY <1>2, <1>3 DEF TakesBack, Marks
<1> QED
  BY <1>3, <1>4, <1>5, StaleQuiet

LEMMA MarkedStale ==
  ASSUME CInv, Waning, NEW t \in Threads, Marked(t)
  PROVE  Waning'
<1>1. /\ job[t].at = "mark" /\ job[t].ids = {} /\ Becomes(t, job[t].then)
      /\ ledger' = ledger /\ items' = items
  BY DEF Marked, At, Goes
<1>2. job[t].then.at \in Resting
  BY <1>1, Known DEF JobOK, FollowsMarks, Resting
<1>3. \A id, ct : ~TakesBack(job[t], id, ct)
  BY <1>1 DEF TakesBack, Marks
<1> QED
  BY <1>1, <1>2, <1>3, StaleAtRest

\* A job that reads the state of a type on probation sees its tier gone.
LEMMA ReadStateStale ==
  ASSUME CInv, Waning, NEW t \in Threads, ReadState(t)
  PROVE  Waning'
<1> DEFINE next == [at |-> "route", sim |-> job[t].sim, seen |-> Len(ledger)]
<1>1. job[t].at = "read" /\ Becomes(t, next) /\ ledger' = ledger /\ items' = items
  BY DEF ReadState, At, Goes
<1>2. next.at = "route" /\ next.sim = job[t].sim /\ next.seen = Len(ledger)
  OBVIOUS
<1> HIDE DEF next
<1>3. ASSUME NEW ct \in CampaignTypes, StandingOf(ledger, ct) = "probation"
      PROVE  ~MaySend(ledger, next, ct)
  <2>1. SubSeq(ledger, 1, Len(ledger)) = ledger
    BY Known, SubSeqFull
  <2>2. TierOf(ledger, ct) = ASSIST
    BY <1>3 DEF Waning, OnProbation
  <2>3. TierOf(SubSeq(ledger, 1, next.seen), ct) = ASSIST
    BY <1>2, <2>1, <2>2, Zenon
  <2>4. \A tier : tier = ASSIST => ~(tier > ASSIST)
    BY DEF ASSIST
  <2> QED
    BY <1>2, <2>3, <2>4 DEF MaySend, Holding, Inserting
<1>4. \A id, ct : ~TakesBack(job[t], id, ct)
  BY <1>1 DEF TakesBack, Marks
<1> QED
  BY <1>1, <1>3, <1>4, StaleQuiet

LEMMA AssistSendsNothing ==
  ASSUME NEW segment
  PROVE  ~CanAutosend(ASSIST, segment)
<1>1. TierSegments[ASSIST] = {}
  BY DEF TierSegments, Tier, ASSIST, BOUNDED, SUPERVISED
<1> QED
  BY <1>1 DEF CanAutosend

\* A run is sent only where the tier read for it sends something.
LEMMA RouteStale ==
  ASSUME CInv, Waning, NEW t \in Threads, Route(t)
  PROVE  Waning'
<1> DEFINE sim        == job[t].sim
           evaluation == SyntheticEvaluation(sim)
           tier       == EffectiveTier(Seen(t), sim.ct)
           sends      == SendsLast24h(ledger, sim.ct, Ts(sim))
           routed     == Decide(evaluation, tier, sends)
           fact       == RunFact(Seen(t), evaluation, Ts(sim))
           entry      == [fact EXCEPT !.decision = routed.decision,
                                      !.outcome = routed.outcome]
           item       == QueueItemFromDecision(evaluation, routed.decision,
                           Violations(evaluation, tier, sends), Ts(sim), SendWindow)
           then       == [at |-> IF entry.outcome = "quality_pass"
                                   THEN "standing" ELSE "enqueue",
                          sim |-> sim, item |-> item]
           next       == [at |-> "take", entry |-> entry, then |-> then]
<1>1. /\ job[t].at = "route" /\ Becomes(t, next)
      /\ ledger' = ledger /\ items' = items
  BY DEF Route, At, Goes
<1>2. SimOK(sim) /\ job[t].seen \in 0 .. Len(ledger)
  BY <1>1, Known DEF JobOK, Simulating
<1>3. sim.ct \in CampaignTypes /\ Ts(sim) \in Int /\ evaluation \in Evaluation
  BY <1>2, SimFacts
<1>4. /\ item.campaign_type = sim.ct
      /\ item.status = "in_flight" => routed.decision = "auto_send"
  BY <1>2, <1>3, SimFacts, ItemTyped
<1>5. Grounded(Seen(t)) /\ ceiling \in Tier
  BY <1>2, Known, PrefixGrounded DEF Seen
<1>6. ASSUME routed.decision = "auto_send" PROVE TierOf(Seen(t), sim.ct) > ASSIST
  <2>1. CanAutosend(tier, evaluation.segment)
    BY <1>6 DEF Decide, AutoSends
  <2>2. tier \in Tier /\ TierOf(Seen(t), sim.ct) \in Tier
    BY <1>3, <1>5, EffectiveTierTyped, CurrentState
  <2>3. tier # ASSIST
    BY <2>1, AssistSendsNothing
  <2>4. tier <= TierOf(Seen(t), sim.ct)
    BY <1>5, <2>2 DEF EffectiveTier, Tier, ASSIST, SUPERVISED
  <2> HIDE DEF tier
  <2> QED
    BY <2>2, <2>3, <2>4 DEF Tier, ASSIST, SUPERVISED
<1> HIDE DEF entry, item, routed
<1>7. then.at \in Holding /\ then.item = item
  BY DEF Holding
<1> HIDE DEF then
<1>8. next.at = "take" /\ next.then = then
  OBVIOUS
<1> HIDE DEF next
<1>9. \A ct : MaySend(ledger, next, ct) => MaySend(ledger, job[t], ct)
  BY <1>1, <1>4, <1>6, <1>7, <1>8 DEF MaySend, Flying, Holding, Inserting, Seen
<1>10. \A id, ct : ~TakesBack(job[t], id, ct)
  BY <1>1 DEF TakesBack, Marks
<1> QED
  BY <1>1, <1>9, <1>10, StaleQuiet

LEMMA StandingWeighStale ==
  ASSUME CInv, Waning, NEW t \in Threads, ReadStanding(t) \/ Weigh(t)
  PROVE  Waning'
<1> DEFINE sim   == job[t].sim
           item  == job[t].item
           weigh == [at |-> "weigh", sim |-> sim, item |-> item, seen |-> Len(ledger)]
           raise == [at |-> "take", entry |-> Promotion(Seen(t), sim.ct, Ts(sim)),
                     then |-> Queueing(t)]
<1>1. /\ job[t].at \in {"standing", "weigh"} /\ ledger' = ledger /\ items' = items
      /\ \/ Becomes(t, weigh)
         \/ Becomes(t, raise)
         \/ Becomes(t, Queueing(t))
  <2>1. CASE ReadStanding(t)
    BY <2>1 DEF ReadStanding, At, Goes
  <2>2. CASE Weigh(t)
    BY <2>2 DEF Weigh, At, Goes
  <2> QED
    BY <2>1, <2>2
<1>2. /\ weigh.at = "weigh" /\ weigh.item = item
      /\ raise.at = "take" /\ raise.then = Queueing(t)
      /\ Queueing(t).at = "enqueue" /\ Queueing(t).item = item
  BY DEF Queueing
<1> HIDE DEF weigh, raise
<1>3. ASSUME NEW ct, Flying(item, ct) PROVE MaySend(ledger, job[t], ct)
  BY <1>1, <1>3 DEF MaySend, Holding
<1>4. \A ct : /\ MaySend(ledger, weigh, ct) => Flying(item, ct)
              /\ MaySend(ledger, raise, ct) => Flying(item, ct)
              /\ MaySend(ledger, Queueing(t), ct) => Flying(item, ct)
  BY <1>2 DEF MaySend, Holding, Inserting
<1>5. \A id, ct : ~TakesBack(job[t], id, ct)
  BY <1>1 DEF TakesBack, Marks
<1>6. \A next, ct : /\ \/ next = weigh
                       \/ next = raise
                       \/ next = Queueing(t)
                    /\ MaySend(ledger, next, ct)
                    => MaySend(ledger, job[t], ct)
  BY <1>3, <1>4
<1>7. CASE Becomes(t, weigh)
  BY <1>1, <1>5, <1>6, <1>7, StaleQuiet
<1>8. CASE Becomes(t, raise)
  BY <1>1, <1>5, <1>6, <1>8, StaleQuiet
<1>9. CASE Becomes(t, Queueing(t))
  BY <1>1, <1>5, <1>6, <1>9, StaleQuiet
<1> QED
  BY <1>1, <1>7, <1>8, <1>9

LEMMA TakeOutcomeStale ==
  ASSUME CInv, Waning, NEW t \in Threads, TakeOutcome(t)
  PROVE  Waning'
<1>1. PICK next : /\ Goes(t, next) /\ next.at = "take"
                  /\ next.then.at \in {"take", "read", "flag", "return"}
  BY OutcomeTaken
<1>2. \A ct : ~MaySend(ledger, next, ct)
  BY <1>1 DEF MaySend, Holding, Inserting
<1>3. \A id, ct : ~TakesBack(job[t], id, ct)
  BY DEF TakesBack, Marks, TakeOutcome, At
<1>4. Becomes(t, next) /\ ledger' = ledger /\ items' = items
  BY <1>1 DEF Goes
<1> QED
  BY <1>2, <1>3, <1>4, StaleQuiet

\* From here on the job takes back the rows it saw, which are all there were.
LEMMA DowngradeStale ==
  ASSUME CInv, Waning, NEW t \in Threads, Downgrade(t)
  PROVE  Waning'
<1> DEFINE own  == job[t].sim.ct
           next == [at |-> "mark", ids |-> InFlight(own), status |-> "pending",
                    then |-> Flagging(job[t].sim, job[t].flag)]
<1>1. /\ job[t].at = "downgrade" /\ Becomes(t, next)
      /\ ledger' = ledger /\ items' = items
  BY DEF Downgrade, At, Goes
<1>2. next.at = "mark" /\ next.ids = InFlight(own)
  OBVIOUS
<1> HIDE DEF next
<1>3. \A ct : ~MaySend(ledger, next, ct)
  BY <1>2 DEF MaySend, Holding, Inserting
<1>4. \A ct : \A id \in InFlight(ct) : TakesBack(job[t], id, ct) => TakesBack(next, id, ct)
  BY <1>1, <1>2 DEF TakesBack, Marks
<1> QED
  BY <1>1, <1>3, <1>4, StaleQuiet

LEMMA EndsAndBeginningsStale ==
  ASSUME CInv, Waning, NEW t \in Threads,
         \/ Flag(t) \/ Return(t) \/ Show(t) \/ GetQueue(t) \/ PostApprove(t)
  PROVE  Waning'
<1>1. ledger' = ledger /\ items' = items /\ job[t].at \in {"flag", "return", "show", "idle"}
  BY DEF Flag, Return, Show, GetQueue, PostApprove, Starts, At
<1>2. \A id, ct : ~TakesBack(job[t], id, ct)
  BY <1>1 DEF TakesBack, Marks
<1>3. ASSUME Flag(t) PROVE \E next : Becomes(t, next) /\ next.at \in Resting
  BY <1>3 DEF Flag, NextRun, Read, Resting
<1>4. ASSUME Return(t) \/ Show(t) PROVE \E next : Becomes(t, next) /\ next.at \in Resting
  BY <1>4 DEF Return, Show, Idle, Resting
<1>5. ASSUME GetQueue(t) \/ PostApprove(t)
      PROVE  \E next : Becomes(t, next) /\ next.at \in Resting
  <2>1. CASE GetQueue(t)
    BY <2>1 DEF GetQueue, Starts, Resting
  <2>2. CASE PostApprove(t)
    BY <2>2 DEF PostApprove, Starts, Resting
  <2> QED
    BY <1>5, <2>1, <2>2
<1>6. \E next : Becomes(t, next) /\ next.at \in Resting
  BY <1>3, <1>4, <1>5
<1> QED
  BY <1>1, <1>2, <1>6, StaleAtRest

LEMMA PostSimulateStale ==
  ASSUME CInv, Waning, NEW t \in Threads, NEW ct, NEW n, NEW scenario,
         PostSimulate(t, ct, n, scenario)
  PROVE  Waning'
<1>1. /\ ledger' = ledger /\ items' = items /\ job[t].at = "idle"
      /\ Becomes(t, Read([ct |-> ct, n |-> n, scenario |-> scenario, began |-> clock,
                          i |-> 0, sums |-> Nothing]))
  BY DEF PostSimulate, At
<1>2. \A sim : Read(sim).at \in Resting
  BY DEF Read, Resting
<1>3. \A id, type : ~TakesBack(job[t], id, type)
  BY <1>1 DEF TakesBack, Marks
<1> QED
  BY <1>1, <1>2, <1>3, StaleAtRest

LEMMA InsertStale ==
  ASSUME CInv, Decided, Waning, NEW t \in Threads, Insert(t)
  PROVE  Waning'
<1> DEFINE entry == job[t].entry
           next  == job[t].then
<1>1. /\ job[t].at = "insert" /\ items' = items
      /\ JobOK(ledger, DOMAIN items, job[t]) /\ Deciding(job[t])
  BY Known DEF Insert, At, Decided
<1>2. /\ entry \in Entry /\ Lowering(entry, next)
      /\ next.at \in {"standing", "enqueue", "read", "flag", "return", "downgrade", "take"}
      /\ next.at = "take" => next.then.at = "downgrade"
  BY <1>1 DEF JobOK, Deciding, FollowsInsert, Inserting
<1>3. \A id, ct : ~TakesBack(job[t], id, ct)
  BY <1>1 DEF TakesBack, Marks
<1>4. ASSUME ledger' = Append(ledger, entry), Becomes(t, next)
      PROVE  Waning'
  <2>1. ASSUME NEW ct \in CampaignTypes, IsTransition(entry, ct),
               StandingOf(ledger', ct) = "probation"
        PROVE  TierOf(ledger', ct) = ASSIST /\ next.at = "downgrade" /\ next.sim.ct = ct
    <3>1. TierOf(ledger', ct) = entry.to_tier /\ StandingOf(ledger', ct) = entry.standing_after
      BY <1>2, <1>4, <2>1, Known, TransitionSetsState
    <3>2. entry.kind = "transition" /\ entry.campaign_type = ct
      BY <2>1 DEF IsTransition
    <3> QED
      BY <1>2, <2>1, <3>1, <3>2 DEF Lowering
  <2>2. ASSUME NEW ct \in CampaignTypes, ~IsTransition(entry, ct)
        PROVE  /\ TierOf(ledger', ct) = TierOf(ledger, ct)
               /\ StandingOf(ledger', ct) = StandingOf(ledger, ct)
    BY <1>2, <1>4, <2>2, Known, OtherEntryKeepsState
  <2>3. \A ct : MaySend(ledger', next, ct) => MaySend(ledger, job[t], ct)
    BY <1>1, <1>2 DEF MaySend, Holding, Inserting
  <2>4. ASSUME NEW ct \in CampaignTypes PROVE Yields(ledger, ledger', job[t], next, ct)
    BY <1>3, <2>1, <2>2, <2>3, Zenon DEF Yields
  <2>5. ASSUME NEW ct \in CampaignTypes, StandingOf(ledger', ct) = "probation"
        PROVE  TierOf(ledger', ct) = ASSIST
    BY <2>1, <2>2, <2>5, Zenon DEF Waning, OnProbation
  <2>6. OnProbation'
    BY <2>5 DEF OnProbation
  <2> QED
    BY <1>1, <1>2, <1>4, <2>4, <2>6, StaleMoves
<1>5. ASSUME ledger' = ledger, Becomes(t, Idle) PROVE Waning'
  BY <1>1, <1>3, <1>5, StaleAtRest DEF Idle, Resting
<1> QED
  BY <1>4, <1>5 DEF Insert

\* A step that writes a row, of a job that sent the type's item and is a sender
\* no more, or that puts nothing of the type in flight.
LEMMA RowWrittenStale ==
  ASSUME CInv, Waning, NEW t \in Threads, NEW next, Becomes(t, next), ledger' = ledger,
         NEW row, NEW item, Add(row, item), next.at \in Resting,
         \A ct : Flying(item, ct) => MaySend(ledger, job[t], ct),
         \A id, ct : TakesBack(job[t], id, ct) =>
                       TakesBack(next, id, ct) \/ (id = row /\ ~Flying(item, ct))
  PROVE  Waning'
<1>1. \A u \in Threads : job'[u] = IF u = t THEN next ELSE job[u]
  BY DEF Becomes, CInv, JobsOK
<1>2. /\ DOMAIN items' = DOMAIN items \cup {row}
      /\ \A key \in DOMAIN items' : items'[key] = IF key = row THEN item ELSE items[key]
  BY DEF Add
<1>3. IsFiniteSet(DOMAIN items')
  BY <1>2, FS_AddElement DEF Waning
<1>4. \A ct : ~MaySend(ledger, next, ct)
  BY DEF MaySend, Holding, Inserting, Resting
<1>5. ASSUME NEW ct \in CampaignTypes, StandingOf(ledger, ct) = "probation"
      PROVE  Cardinality(Exposed(ct)') + Cardinality(Senders(ct)')
               <= Cardinality(Threads) - 1
  <2> DEFINE E  == Exposed(ct)
             S  == Senders(ct)
             F2 == {key \in DOMAIN items' : Flying(items'[key], ct)}
             E2 == {key \in F2 : \A u \in Threads : ~TakesBack(job'[u], key, ct)}
             S2 == {u \in Threads : MaySend(ledger, job'[u], ct)}
  <2>1. Exposed(ct)' = E2 /\ Senders(ct)' = S2
    BY DEF Exposed, Senders, InFlight, ByStatus, TakesBack, Marks, MaySend, Flying
  <2>2. S2 \subseteq S \ {t} /\ S \subseteq Threads
    BY <1>1, <1>4 DEF Senders
  <2>3. ASSUME NEW key \in E2, key # row \/ ~Flying(item, ct)
        PROVE  key \in E
    <3>1. key # row /\ key \in DOMAIN items /\ Flying(items[key], ct)
      BY <1>2, <2>3
    <3>2. key \in InFlight(ct)
      BY <3>1 DEF InFlight, ByStatus, Flying
    <3>3. ASSUME NEW u \in Threads PROVE ~TakesBack(job[u], key, ct)
      BY <1>1, <3>1
    <3> QED
      BY <3>2, <3>3 DEF Exposed
  <2>4. Cardinality(E) + Cardinality(S) <= Cardinality(Threads) - 1
    BY <1>5 DEF Waning, FewStale
  <2>5. IsFiniteSet(E)
    BY StaleSets
  <2>6. CASE Flying(item, ct)
    <3>1. t \in S
      BY <2>6 DEF Senders
    <3>2. E2 \subseteq E \cup {row}
      BY <2>3
    <3> HIDE DEF E, S, E2, S2
    <3>3. Cardinality(E2) + Cardinality(S2) <= Cardinality(Threads) - 1
      BY <2>2, <2>4, <2>5, <3>1, <3>2, OneLands, SMTT(30)
    <3> QED
      BY <2>1, <3>3
  <2>7. CASE ~Flying(item, ct)
    <3>1. E2 \subseteq E /\ S2 \subseteq S
      BY <2>2, <2>3, <2>7
    <3> HIDE DEF E, S, E2, S2
    <3>2. Cardinality(E2) + Cardinality(S2) <= Cardinality(Threads) - 1
      BY <2>2, <2>4, <2>5, <3>1, NoMoreStale
    <3> QED
      BY <2>1, <3>2
  <2> QED
    BY <2>6, <2>7
<1>6. FewStale' /\ OnProbation'
  BY <1>5 DEF FewStale, Waning, OnProbation
<1> QED
  BY <1>3, <1>6 DEF Waning

LEMMA WriteItemStale ==
  ASSUME CInv, Waning, NEW t \in Threads, WriteItem(t)
  PROVE  Waning'
<1> DEFINE item == [job[t].item EXCEPT !.status = job[t].status]
           next == [at |-> "mark", status |-> job[t].status,
                    ids |-> job[t].ids, then |-> job[t].then]
<1>1. /\ job[t].at = "put" /\ Add(job[t].id, item) /\ Becomes(t, next)
      /\ ledger' = ledger
  BY DEF WriteItem, At
<1>2. job[t].status # "in_flight" /\ job[t].item \in QueueItem
  BY <1>1, Known DEF JobOK
<1>3. \A ct : ~Flying(item, ct)
  BY <1>2 DEF Flying, QueueItem
<1>4. next.at = "mark" /\ next.ids = job[t].ids
  OBVIOUS
<1> HIDE DEF item, next
<1>5. \A id, ct : TakesBack(job[t], id, ct) => TakesBack(next, id, ct) \/ id = job[t].id
  BY <1>1, <1>4 DEF TakesBack, Marks
<1>6. next.at \in Resting
  BY <1>4 DEF Resting
<1> QED
  BY <1>1, <1>3, <1>5, <1>6, RowWrittenStale

LEMMA EnqueueStale ==
  ASSUME CInv, Waning, NEW t \in Threads, Enqueue(t)
  PROVE  Waning'
<1> DEFINE sent == [at |-> "outcome", sim |-> [job[t].sim EXCEPT !.sums.sent = @ + 1]]
           next == IF job[t].item.status = "in_flight" THEN sent ELSE NextRun(job[t].sim)
<1>1. /\ job[t].at = "enqueue" /\ Add(RunId(job[t].sim), job[t].item) /\ Becomes(t, next)
      /\ ledger' = ledger
  BY DEF Enqueue, At
<1>2. sent.at = "outcome" /\ NextRun(job[t].sim).at \in {"read", "return"}
  BY DEF NextRun, Read
<1> HIDE DEF sent
<1>3. next.at \in Resting
  BY <1>2 DEF Resting
<1> HIDE DEF next
<1>4. \A ct : Flying(job[t].item, ct) => MaySend(ledger, job[t], ct)
  BY <1>1 DEF MaySend, Holding
<1>5. \A id, ct : ~TakesBack(job[t], id, ct)
  BY <1>1 DEF TakesBack, Marks
<1> QED
  BY <1>1, <1>3, <1>4, <1>5, RowWrittenStale

LEMMA ConsoleStale ==
  CInv /\ Decided /\ Waning /\ [ConsoleNext]_cvars => Waning'
<1> SUFFICES ASSUME CInv, Decided, Waning, [ConsoleNext]_cvars
             PROVE  Waning'
  OBVIOUS
<1>1. CASE Tick \/ UNCHANGED cvars
  <2>1. job' = job /\ ledger' = ledger /\ items' = items
    BY <1>1 DEF Tick, cvars
  <2> QED
    BY <2>1 DEF Waning, OnProbation, FewStale, Exposed, Senders, InFlight, ByStatus,
                TakesBack, Marks, MaySend, Flying
<1>2. ASSUME NEW t \in Threads, JobStep(t) PROVE Waning'
  BY <1>2, TakeSeqStale, InsertStale, ReadItemStale, WriteItemStale, MarkedStale,
     ReadStateStale, RouteStale, StandingWeighStale, EnqueueStale, TakeOutcomeStale,
     DowngradeStale, EndsAndBeginningsStale, Zenon DEF JobStep
<1>3. ASSUME NEW t \in Threads, GetQueue(t) \/ PostApprove(t) PROVE Waning'
  BY <1>3, EndsAndBeginningsStale
<1>4. ASSUME NEW t \in Threads, NEW ct, NEW n, NEW scenario,
             PostSimulate(t, ct, n, scenario)
      PROVE  Waning'
  BY <1>4, PostSimulateStale
<1> QED
  BY <1>1, <1>2, <1>3, <1>4 DEF ConsoleNext

LEMMA ConsoleInitStale == ConsoleInit => Waning
<1> SUFFICES ASSUME ConsoleInit PROVE Waning
  OBVIOUS
<1>1. /\ Len(ledger) = 2 /\ ledger[1].kind = "run" /\ ledger[2].standing_after = "active"
      /\ Grounded(ledger)
  BY StartsWithOneRun, ConsoleInitCInv DEF CInv
<1>2. ASSUME NEW ct \in CampaignTypes PROVE StandingOf(ledger, ct) = "active"
  <2> DEFINE last == LastTransition(ledger, ct, 2)
  <2>1. last \in TransitionsUpTo(ledger, ct, 2) \cup {0}
    BY <1>1, LastIsTransition
  <2>2. TransitionsUpTo(ledger, ct, 2) \subseteq {2}
    BY <1>1 DEF TransitionsUpTo, IsTransition
  <2>3. last = 0 \/ last = 2
    BY <2>1, <2>2
  <2> HIDE DEF last
  <2>4. StandingAt(ledger, ct, 2) = IF last = 0 THEN "active" ELSE ledger[last].standing_after
    BY DEF StandingAt, last
  <2>5. StandingAt(ledger, ct, 2) = "active"
    BY <1>1, <2>3, <2>4
  <2> QED
    BY <1>1, <2>5 DEF StandingOf
<1>3. DOMAIN items = {Earlier.run_id}
  BY DEF ConsoleInit
<1>4. IsFiniteSet(DOMAIN items)
  BY <1>3, FS_Singleton
<1> QED
  BY <1>2, <1>4 DEF Waning, OnProbation, FewStale

LEMMA WaningBoundsStale == CInv /\ Waning => StaleInFlightBounded
<1> SUFFICES ASSUME CInv, Waning, \A t \in Threads : At(t, "idle"),
                    NEW ct \in CampaignTypes, StandingOf(ledger, ct) = "probation"
             PROVE  Cardinality(InFlight(ct)) <= Cardinality(Threads) - 1
  BY DEF StaleInFlightBounded, Quiet
<1>1. \A t \in Threads : \A id : ~TakesBack(job[t], id, ct)
  BY DEF At, TakesBack, Marks
<1>2. Exposed(ct) = InFlight(ct)
  BY <1>1 DEF Exposed
<1>3. Cardinality(Exposed(ct)) + Cardinality(Senders(ct)) <= Cardinality(Threads) - 1
  BY DEF Waning, FewStale
<1>4. IsFiniteSet(Exposed(ct)) /\ Senders(ct) \subseteq Threads
  BY StaleSets
<1>5. /\ Cardinality(Senders(ct)) \in Nat /\ Cardinality(Threads) \in Nat
      /\ Cardinality(Exposed(ct)) \in Nat
  BY <1>4, CarriersFinite, FS_CardinalityType
<1> QED
  BY <1>2, <1>3, <1>5

LEMMA ConsoleWanes == ConsoleSpec => [](CInv /\ Decided /\ Waning)
<1>1. ConsoleInit => CInv /\ Decided /\ Waning
  BY ConsoleInitCInv, ConsoleInitCap, ConsoleInitStale
<1>2. CInv /\ Decided /\ Waning /\ [ConsoleNext]_cvars => Waning'
  BY ConsoleStale
<1>3. ConsoleSpec => [](CInv /\ Decided /\ CapShared)
  BY ConsoleCapHolds
<1> QED
  BY <1>1, <1>2, <1>3, PTL DEF ConsoleSpec

\* A run that one thread sends while another demotes its type is put in flight
\* after the demotion's downgrade (service.py:163-167), and no more than one
\* such run for each thread beyond the first: whatever the number of threads
\* and calls, and whichever of them a taken number cut off, once all is quiet
\* that is all a type on probation has in flight.
THEOREM StaleInFlightIsBounded == ConsoleSpec => []StaleInFlightBounded
  BY ConsoleWanes, WaningBoundsStale, PTL

-----------------------------------------------------------------------------
(***************************************************************************)
(* The simulator's forced breach.                                          *)
(***************************************************************************)
LEMMA SpamOf ==
  ASSUME NEW spam, NEW unsub, NEW bounce
  PROVE  Rates(spam, unsub, bounce)["spam_complaint_rate"] = spam
  BY DEF Rates, Metric

\* A blind spot's rate of complaints is over the threshold, whatever the noise,
\* the step and the rounding.
LEMMA ForcedBreach ==
  ASSUME NEW z \in [Metric -> Int], NEW step, NEW last, NEW report,
         report.rates = Simulate("engaged_30d", SyntheticWeakness, "judge_blindspot",
                                 z, step, last)
  PROVE  Breached(report)
<1> DEFINE m         == "spam_complaint_rate"
           penalised == Penalised(Base["engaged_30d"], SyntheticWeakness)
           noisy     == Noisy(penalised, z)
           forced    == WithScenario(noisy, "judge_blindspot", step, last)
<1>1. m \in Metric /\ z[m] \in Int
  BY DEF Metric
<1>2. report.rates[m] = (forced[m] + 50) \div 100
  BY <1>1 DEF Simulate, Rounded
<1>3. Base["engaged_30d"] = Rates(20000, 120000, 200000)
  BY DEF Base, SegmentBand
<1>4. Base["engaged_30d"][m] = 20000
  BY <1>3, SpamOf
<1>5. /\ SyntheticWeakness["segment_correctness"] = 5
      /\ SyntheticWeakness["claim_groundedness"] = 7
  BY DEF SyntheticWeakness, CRITICAL_DIMENSIONS
<1>6. penalised[m] = (20000 * (200 + 5 * 5 + 4 * 7)) \div 200
  BY <1>4, <1>5, SpamOf DEF Penalised
<1>7. penalised[m] = 25300
  BY <1>6
<1>8. Spread[m] = 25000
  BY SpamOf DEF Spread
<1> HIDE DEF penalised
<1>9. noisy[m] = IF 25300 + z[m] * 25000 < 0 THEN 0 ELSE 25300 + z[m] * 25000
  BY <1>1, <1>7, <1>8 DEF Noisy
<1>10. noisy[m] \in Int /\ DOMAIN noisy = Metric
  <2>1. noisy[m] \in Int
    BY <1>1, <1>9
  <2> QED
    BY <2>1 DEF Noisy
<1> HIDE DEF noisy
<1>11. (SPAM_THRESHOLD * 14) \div 10 = 112000
  BY DEF SPAM_THRESHOLD
<1>12. forced[m] = IF noisy[m] >= 112000 THEN noisy[m] ELSE 112000
  BY <1>1, <1>10, <1>11 DEF WithScenario
<1>13. forced[m] \in Int /\ forced[m] >= 112000
  BY <1>10, <1>12
<1> HIDE DEF forced
<1>14. \A f \in Int : f >= 112000 => (f + 50) \div 100 \in Int /\ (f + 50) \div 100 >= 1120
  OBVIOUS
<1>15. report.rates[m] \in Int /\ report.rates[m] >= 1120
  BY <1>13, <1>2, <1>14
<1>16. TriggerMax[m] \in Int /\ TriggerMax[m] * 100 <= 80000
  BY <1>1, TriggerAssumption, ThresholdAssumption DEF SPAM_THRESHOLD
<1>17. report.rates[m] > TriggerMax[m]
  BY <1>15, <1>16
<1> QED
  BY <1>1, <1>17 DEF Breached, CheckDeliverability

\* A step moves one job, and a job due an outcome only by taking it.
LEMMA OneJobMoves ==
  ASSUME CInv, NEW u \in Threads,
         \/ JobStep(u) \/ GetQueue(u) \/ PostApprove(u)
         \/ \E ct, n, scenario : PostSimulate(u, ct, n, scenario)
  PROVE  /\ \A t \in Threads : t # u => job'[t] = job[t]
         /\ At(u, "outcome") => TakeOutcome(u)
<1>1. ASSUME NEW next, Becomes(u, next) PROVE \A t \in Threads : t # u => job'[t] = job[t]
  BY <1>1 DEF Becomes, CInv, JobsOK
<1>2. \E next : Becomes(u, next)
  BY Zenon DEF JobStep, TakeSeq, Insert, ReadItem, WriteItem, Marked, ReadState, Route,
               ReadStanding, Weigh, Enqueue, TakeOutcome, Downgrade, Flag, Return, Show,
               GetQueue, PostApprove, PostSimulate, Starts, Goes
<1>3. At(u, "outcome") => TakeOutcome(u)
  BY DEF JobStep, TakeSeq, Insert, ReadItem, WriteItem, Marked, ReadState, Route,
         ReadStanding, Weigh, Enqueue, Downgrade, Flag, Return, Show,
         GetQueue, PostApprove, PostSimulate, Starts, At
<1> QED
  BY <1>1, <1>2, <1>3

LEMMA BlindSpotTaken ==
  ASSUME CInv, NEW t \in Threads, TakeOutcome(t), job[t].sim.scenario = "judge_blindspot"
  PROVE  job'[t].entry.breached
<1> DEFINE sim  == job[t].sim
           last == IF sim.n - 1 >= 1 THEN sim.n - 1 ELSE 1
           report(z) == [campaign_type |-> sim.ct, run_id |-> RunId(sim),
                         rates |-> Simulate("engaged_30d", SyntheticWeakness,
                                            sim.scenario, z, sim.i, last)]
<1>1. \E z \in Noise : \E then :
        Becomes(t, [at |-> "take", entry |-> OutcomeFact(ledger, report(z), Ts(sim)),
                    then |-> then])
  BY Zenon DEF TakeOutcome, Goes
<1>2. PICK z \in Noise :
        \E then :
          Becomes(t, [at |-> "take", entry |-> OutcomeFact(ledger, report(z), Ts(sim)),
                      then |-> then])
  BY <1>1
<1>3. job'[t].entry = OutcomeFact(ledger, report(z), Ts(sim))
  BY <1>2 DEF Becomes, CInv, JobsOK
<1>4. report(z).rates = Simulate("engaged_30d", SyntheticWeakness, "judge_blindspot",
                                 z, sim.i, last)
  OBVIOUS
<1>5. z \in [Metric -> Int]
  BY NoiseAssumption
<1> HIDE DEF report, last
<1>6. Breached(report(z))
  BY <1>4, <1>5, ForcedBreach
<1> QED
  BY <1>3, <1>6 DEF OutcomeFact

BlindSpotTaking ==
  \A t \in Threads :
    /\ At(t, "outcome")
    /\ job[t].sim.scenario = "judge_blindspot"
    /\ job'[t].at = "take"
    => job'[t].entry.breached

LEMMA BlindSpotStep == CInv /\ [ConsoleNext]_cvars => BlindSpotTaking
<1> SUFFICES ASSUME CInv, [ConsoleNext]_cvars, NEW t \in Threads, At(t, "outcome"),
                    job[t].sim.scenario = "judge_blindspot", job'[t].at = "take"
             PROVE  job'[t].entry.breached
  BY DEF BlindSpotTaking
<1>1. job'[t] # job[t]
  BY DEF At
<1>2. ASSUME NEW u \in Threads,
             \/ JobStep(u) \/ GetQueue(u) \/ PostApprove(u)
             \/ \E ct, n, scenario : PostSimulate(u, ct, n, scenario)
      PROVE  job'[t].entry.breached
  <2>1. u = t
    BY <1>1, <1>2, OneJobMoves
  <2>2. TakeOutcome(t)
    BY <1>2, <2>1, OneJobMoves
  <2> QED
    BY <2>2, BlindSpotTaken
<1>3. CASE Tick \/ UNCHANGED cvars
  BY <1>1, <1>3 DEF Tick, cvars
<1> QED
  BY <1>2, <1>3, Zenon DEF ConsoleNext

\* The scenario the demonstration of the closed loop rests on
\* (simulator.py:33, :115): every outcome it records is a breach, for any noise
\* and however the other threads interleave.
THEOREM BlindSpotsAlwaysBreach == ConsoleSpec => BlindSpotsBreach
<1>1. CInv /\ [ConsoleNext]_cvars => [BlindSpotTaking]_cvars
  BY BlindSpotStep
<1> QED
  BY <1>1, ConsoleSound, PTL DEF ConsoleSpec, BlindSpotsBreach, BlindSpotTaking

-----------------------------------------------------------------------------
(***************************************************************************)
(* The summaries add up.                                                   *)
(*                                                                         *)
(* Of every total, what was reported and what each thread has recorded and *)
(* not yet reported make up what is on record.  The sum over the threads   *)
(* is the size of a heap: a thread that owes n holds the pairs             *)
(* <<thread, 1>> .. <<thread, n>>, so that one more entry on record is one *)
(* more element, and a summary takes its thread's pairs away; so does a    *)
(* call cut off, without reporting them, and from then on what is on       *)
(* record may only exceed what is reported and owed.                       *)
(***************************************************************************)
TotalNames == {"sent", "breaches", "demotions", "blind_spots"}

Tally(e, x) == OneIf(Tallied(e, x))

\* What a job that inserts nothing yet will report, which it has recorded.  An
\* item in flight that it holds is recorded as sent, and not counted yet.
Due(j, x) ==
  IF j.at \in Holding THEN j.sim.sums[x] + OneIf(x = "sent" /\ j.item.status = "in_flight")
  ELSE IF j.at \in Simulating THEN j.sim.sums[x]
  ELSE IF j.at \in {"mark", "put"} /\ j.then.at \in Simulating THEN j.then.sim.sums[x]
  ELSE 0

\* A job about to insert has counted the entry, and not recorded it.
OwedThen(j, x) ==
  IF j.at \in Inserting THEN Due(j.then, x) - Tally(j.entry, x) ELSE Due(j, x)

Owed(j, x) ==
  IF j.at \in Inserting THEN OwedThen(j.then, x) - Tally(j.entry, x) ELSE Due(j, x)

Owing(x) == [t \in Threads |-> Owed(job[t], x)]

HeapOf(f) == {p \in Threads \X Nat : 1 <= p[2] /\ p[2] <= f[p[1]]}

Announced(x) == reported[x] + Cardinality(HeapOf(Owing(x)))

BalancedIn(x) ==
  /\ Owing(x) \in [Threads -> Nat]
  /\ IsFiniteSet(HeapOf(Owing(x)))
  /\ Announced(x) <= Cardinality(Recorded(ledger, x))
  /\ failed = 0 => Announced(x) = Cardinality(Recorded(ledger, x))

Balanced == \A x \in TotalNames : BalancedIn(x)

LEMMA HeapGrows ==
  ASSUME NEW f \in [Threads -> Nat], IsFiniteSet(HeapOf(f)), NEW t \in Threads,
         NEW g, g = [f EXCEPT ![t] = @ + 1]
  PROVE  /\ g \in [Threads -> Nat]
         /\ IsFiniteSet(HeapOf(g))
         /\ Cardinality(HeapOf(g)) = Cardinality(HeapOf(f)) + 1
<1> DEFINE more == <<t, f[t] + 1>>
<1>1. g \in [Threads -> Nat] /\ \A u \in Threads : g[u] = IF u = t THEN f[t] + 1 ELSE f[u]
  OBVIOUS
<1>2. more \in Threads \X Nat /\ more[1] = t /\ more[2] = f[t] + 1
  OBVIOUS
<1>3. ASSUME NEW p \in Threads \X Nat
      PROVE  p \in HeapOf(g) <=> p \in HeapOf(f) \/ p = more
  <2>1. p[1] \in Threads /\ p[2] \in Nat /\ (p = more <=> p[1] = t /\ p[2] = f[t] + 1)
    OBVIOUS
  <2>2. CASE p[1] = t
    <3>1. g[p[1]] = f[t] + 1 /\ f[p[1]] = f[t] /\ f[t] \in Nat
      BY <1>1, <2>1, <2>2
    <3> QED
      BY <2>1, <2>2, <3>1 DEF HeapOf
  <2>3. CASE p[1] # t
    <3>1. g[p[1]] = f[p[1]]
      BY <1>1, <2>1, <2>3
    <3> QED
      BY <2>1, <2>3, <3>1 DEF HeapOf
  <2> QED
    BY <2>2, <2>3
<1>4. more \notin HeapOf(f)
  BY <1>2 DEF HeapOf
<1> HIDE DEF more
<1>5. HeapOf(g) = HeapOf(f) \cup {more}
  BY <1>2, <1>3 DEF HeapOf
<1>6. /\ IsFiniteSet(HeapOf(f) \cup {more})
      /\ Cardinality(HeapOf(f) \cup {more}) =
           IF more \in HeapOf(f) THEN Cardinality(HeapOf(f)) ELSE Cardinality(HeapOf(f)) + 1
  BY FS_AddElement, Zenon
<1> QED
  BY <1>1, <1>4, <1>5, <1>6, Zenon

\* A thread that has reported owes nothing.
LEMMA HeapFalls ==
  ASSUME NEW f \in [Threads -> Nat], IsFiniteSet(HeapOf(f)), NEW t \in Threads,
         NEW g, g = [f EXCEPT ![t] = 0]
  PROVE  /\ g \in [Threads -> Nat]
         /\ IsFiniteSet(HeapOf(g))
         /\ Cardinality(HeapOf(g)) + f[t] = Cardinality(HeapOf(f))
<1> DEFINE own == {t} \X (1 .. f[t])
<1>1. g \in [Threads -> Nat] /\ \A u \in Threads : g[u] = IF u = t THEN 0 ELSE f[u]
  OBVIOUS
<1>2. f[t] \in Nat
  OBVIOUS
<1>3. HeapOf(g) = HeapOf(f) \ own
  <2>1. ASSUME NEW p \in Threads \X Nat
        PROVE  p \in HeapOf(g) <=> p \in HeapOf(f) /\ p \notin own
    <3>1. p[1] \in Threads /\ p[2] \in Nat /\ p = <<p[1], p[2]>>
      OBVIOUS
    <3>2. p \in own <=> p[1] = t /\ p[2] \in 1 .. f[t]
      BY <3>1
    <3>3. CASE p[1] = t
      <4>1. g[p[1]] = 0 /\ f[p[1]] = f[t]
        BY <1>1, <3>3
      <4> QED
        BY <1>2, <3>1, <3>2, <3>3, <4>1 DEF HeapOf
    <3>4. CASE p[1] # t
      <4>1. g[p[1]] = f[p[1]]
        BY <1>1, <3>1, <3>4
      <4> QED
        BY <3>1, <3>2, <3>4, <4>1 DEF HeapOf
    <3> QED
      BY <3>3, <3>4
  <2> QED
    BY <2>1 DEF HeapOf
<1>4. own \subseteq HeapOf(f)
  BY <1>2 DEF HeapOf
<1>5. Cardinality(own) = f[t]
  <2>1. IsFiniteSet({t}) /\ Cardinality({t}) = 1
    BY FS_Singleton
  <2>2. IsFiniteSet(1 .. f[t]) /\ Cardinality(1 .. f[t]) = f[t]
    BY <1>2, FS_Interval
  <2>3. Cardinality(own) = 1 * f[t]
    BY <2>1, <2>2, FS_Product
  <2> QED
    BY <1>2, <2>3
<1> HIDE DEF own
<1>6. HeapOf(f) \cap own = own
  BY <1>4
<1>7. /\ IsFiniteSet(HeapOf(g))
      /\ Cardinality(HeapOf(g)) = Cardinality(HeapOf(f)) - f[t]
  <2>1. /\ IsFiniteSet(HeapOf(f) \ own)
        /\ Cardinality(HeapOf(f) \ own) =
             Cardinality(HeapOf(f)) - Cardinality(HeapOf(f) \cap own)
    BY FS_Difference, Zenon
  <2> QED
    BY <1>3, <1>5, <1>6, <2>1, Zenon
<1>8. Cardinality(HeapOf(f)) \in Nat
  BY FS_CardinalityType
<1> QED
  BY <1>1, <1>2, <1>7, <1>8

LEMMA OwingMoves ==
  ASSUME CInv, NEW t \in Threads, NEW next, Becomes(t, next), NEW x
  PROVE  Owing(x)' = [Owing(x) EXCEPT ![t] = Owed(next, x)]
<1>1. \A u \in Threads : job'[u] = IF u = t THEN next ELSE job[u]
  BY DEF Becomes, CInv, JobsOK
<1>2. Owing(x)' = [u \in Threads |-> Owed(job'[u], x)]
  BY DEF Owing, Owed, OwedThen, Due, Tally, OneIf, Tallied
<1> QED
  BY <1>1, <1>2 DEF Owing

\* A step that records and reports nothing, and after which its job owes what
\* it owed.
LEMMA BalanceKeeps ==
  ASSUME CInv, Balanced, NEW t \in Threads, NEW next, Becomes(t, next),
         ledger' = ledger, reported' = reported, failed' = failed,
         \A x \in TotalNames : Owed(next, x) = Owed(job[t], x)
  PROVE  Balanced'
<1> SUFFICES ASSUME NEW x \in TotalNames
             PROVE  BalancedIn(x)'
  BY DEF Balanced, BalancedIn, Announced
<1>1. BalancedIn(x)
  BY DEF Balanced
<1>2. Owing(x)' = [Owing(x) EXCEPT ![t] = Owed(job[t], x)]
  BY OwingMoves
<1>3. Owing(x)[t] = Owed(job[t], x) /\ DOMAIN Owing(x) = Threads
  BY DEF Owing
<1>4. Owing(x) = [Owing(x) EXCEPT ![t] = Owing(x)[t]]
  BY DEF Owing
<1>5. Owing(x)' = Owing(x)
  BY <1>2, <1>3, <1>4
<1>6. HeapOf(Owing(x))' = HeapOf(Owing(x)')
  BY DEF HeapOf
<1> QED
  BY <1>1, <1>5 DEF BalancedIn, Announced, HeapOf, Recorded

LEMMA RecordedFinite ==
  ASSUME NEW log \in Seq(Entry), NEW x
  PROVE  Cardinality(Recorded(log, x)) \in Nat
<1>1. DOMAIN log = 1 .. Len(log) /\ Len(log) \in Nat
  BY LenProperties
<1>2. IsFiniteSet(1 .. Len(log)) /\ Recorded(log, x) \subseteq 1 .. Len(log)
  BY <1>1, FS_Interval DEF Recorded
<1> QED
  BY <1>2, FS_Subset, FS_CardinalityType

LEMMA RecordedGrows ==
  ASSUME NEW log \in Seq(Entry), NEW entry \in Entry, NEW x
  PROVE  /\ Cardinality(Recorded(log, x)) \in Nat
         /\ Cardinality(Recorded(Append(log, entry), x))
              = Cardinality(Recorded(log, x)) + Tally(entry, x)
<1> DEFINE more == Append(log, entry)
           n    == Len(log)
           old  == Recorded(log, x)
<1>1. /\ n \in Nat /\ DOMAIN log = 1 .. n /\ DOMAIN more = 1 .. n + 1
      /\ \A i \in 1 .. n : more[i] = log[i]
      /\ more[n + 1] = entry
  BY AppendFacts
<1>2. IsFiniteSet(1 .. n) /\ old \subseteq 1 .. n
  <2>1. IsFiniteSet(1 .. n)
    BY <1>1, FS_Interval
  <2>2. old \subseteq 1 .. n
    BY <1>1 DEF Recorded
  <2> QED
    BY <2>1, <2>2
<1>3. IsFiniteSet(old) /\ Cardinality(old) \in Nat
  BY <1>2, FS_Subset, FS_CardinalityType
<1>4. n + 1 \notin old
  BY <1>1, <1>2
<1>5. CASE Tallied(entry, x)
  <2>1. Recorded(more, x) = old \cup {n + 1}
    BY <1>1, <1>4, <1>5 DEF Recorded
  <2>2. Cardinality(Recorded(more, x)) = Cardinality(old) + 1
    BY <1>3, <1>4, <2>1, FS_AddElement, Zenon
  <2> QED
    BY <1>3, <1>5, <2>2 DEF Tally, OneIf
<1>6. CASE ~Tallied(entry, x)
  <2>1. Recorded(more, x) = old
    BY <1>1, <1>4, <1>6 DEF Recorded
  <2> HIDE DEF old, more
  <2>2. Cardinality(Recorded(more, x)) = Cardinality(old) + 0
    BY <1>3, <2>1
  <2> QED
    BY <1>3, <1>6, <2>2 DEF Tally, OneIf, old, more
<1> QED
  BY <1>5, <1>6

\* An insert records what its job has counted.
LEMMA BalanceInserts ==
  ASSUME CInv, Balanced, NEW t \in Threads, NEW next, Becomes(t, next),
         NEW entry \in Entry, ledger' = Append(ledger, entry),
         reported' = reported, failed' = failed,
         \A x \in TotalNames : Owed(next, x) = Owed(job[t], x) + Tally(entry, x)
  PROVE  Balanced'
<1> SUFFICES ASSUME NEW x \in TotalNames
             PROVE  BalancedIn(x)'
  BY DEF Balanced, BalancedIn, Announced
<1> DEFINE f == Owing(x)
           g == Owing(x)'
<1>1. BalancedIn(x) /\ f[t] = Owed(job[t], x)
  BY DEF Balanced, Owing
<1>2. g = [f EXCEPT ![t] = f[t] + Tally(entry, x)]
  <2>1. Owing(x)' = [Owing(x) EXCEPT ![t] = Owed(next, x)]
    BY OwingMoves
  <2> QED
    BY <1>1, <2>1
<1>3. /\ Cardinality(Recorded(ledger, x)) \in Nat
      /\ Cardinality(Recorded(ledger', x)) = Cardinality(Recorded(ledger, x)) + Tally(entry, x)
  BY Known, RecordedGrows
<1>4. reported[x] \in Nat
  BY DEF CInv, ConsoleTypeOK, Totals, TotalNames
<1>5. /\ f \in [Threads -> Nat] /\ IsFiniteSet(HeapOf(f))
      /\ reported[x] + Cardinality(HeapOf(f)) <= Cardinality(Recorded(ledger, x))
      /\ failed = 0 =>
           reported[x] + Cardinality(HeapOf(f)) = Cardinality(Recorded(ledger, x))
  BY <1>1 DEF BalancedIn, Announced
<1>6. Cardinality(HeapOf(f)) \in Nat
  BY <1>5, FS_CardinalityType
<1>7. Tally(entry, x) = 0 \/ Tally(entry, x) = 1
  BY DEF Tally, OneIf
<1> HIDE DEF f, g
<1>8. /\ g \in [Threads -> Nat] /\ IsFiniteSet(HeapOf(g))
      /\ Cardinality(HeapOf(g)) = Cardinality(HeapOf(f)) + Tally(entry, x)
  <2>1. CASE Tally(entry, x) = 1
    <3>1. g = [f EXCEPT ![t] = @ + 1]
      BY <1>2, <2>1
    <3> QED
      BY <1>5, <2>1, <3>1, HeapGrows
  <2>2. CASE Tally(entry, x) = 0
    <3>1. f[t] \in Nat
      BY <1>5
    <3>2. g = f
      BY <1>2, <1>5, <2>2, <3>1
    <3> QED
      BY <1>5, <1>6, <2>2, <3>2
  <2> QED
    BY <1>7, <2>1, <2>2
<1>9. /\ reported[x] + Cardinality(HeapOf(g)) <= Cardinality(Recorded(ledger', x))
      /\ failed = 0 =>
           reported[x] + Cardinality(HeapOf(g)) = Cardinality(Recorded(ledger', x))
  <2>1. \A a, h, k, c \in Nat : /\ a + h <= c => a + (h + k) <= c + k
                               /\ a + h = c => a + (h + k) = c + k
    OBVIOUS
  <2> DEFINE h == Cardinality(HeapOf(f))
             c == Cardinality(Recorded(ledger, x))
             k == Tally(entry, x)
  <2>2. /\ reported[x] \in Nat /\ h \in Nat /\ k \in Nat /\ c \in Nat
        /\ reported[x] + h <= c /\ (failed = 0 => reported[x] + h = c)
    BY <1>3, <1>4, <1>5, <1>6, <1>7
  <2>3. Cardinality(HeapOf(g)) = h + k /\ Cardinality(Recorded(ledger', x)) = c + k
    BY <1>3, <1>8
  <2> HIDE DEF h, c, k
  <2>4. /\ reported[x] + (h + k) <= c + k
        /\ failed = 0 => reported[x] + (h + k) = c + k
    BY <2>1, <2>2
  <2> QED
    BY <2>3, <2>4
<1> QED
  BY <1>8, <1>9 DEF BalancedIn, Announced, HeapOf, Recorded, g

\* A summary reports what its job owed; a call cut off reports nothing.
LEMMA BalanceReports ==
  ASSUME CInv, Balanced, NEW t \in Threads, NEW next, Becomes(t, next),
         ledger' = ledger, \A x \in TotalNames : Owed(next, x) = 0,
         \/ /\ failed' = failed
            /\ \A x \in TotalNames : reported'[x] = reported[x] + Owed(job[t], x)
         \/ failed' = failed + 1 /\ reported' = reported
  PROVE  Balanced'
<1> SUFFICES ASSUME NEW x \in TotalNames
             PROVE  BalancedIn(x)'
  BY DEF Balanced, BalancedIn, Announced
<1> DEFINE f == Owing(x)
           g == Owing(x)'
<1>1. BalancedIn(x) /\ f[t] = Owed(job[t], x)
  BY DEF Balanced, Owing
<1>2. g = [f EXCEPT ![t] = 0]
  <2>1. Owing(x)' = [Owing(x) EXCEPT ![t] = Owed(next, x)]
    BY OwingMoves
  <2> QED
    BY <2>1
<1>3. reported[x] \in Nat
  BY DEF CInv, ConsoleTypeOK, Totals, TotalNames
<1>4. /\ f \in [Threads -> Nat] /\ IsFiniteSet(HeapOf(f))
      /\ reported[x] + Cardinality(HeapOf(f)) <= Cardinality(Recorded(ledger, x))
      /\ failed = 0 =>
           reported[x] + Cardinality(HeapOf(f)) = Cardinality(Recorded(ledger, x))
  BY <1>1 DEF BalancedIn, Announced
<1>5. \/ failed' = failed /\ reported'[x] = reported[x] + f[t]
      \/ failed' # 0 /\ reported'[x] = reported[x]
  BY <1>1 DEF CInv, ConsoleTypeOK
<1> HIDE DEF f, g
<1>6. /\ g \in [Threads -> Nat] /\ IsFiniteSet(HeapOf(g))
      /\ Cardinality(HeapOf(g)) + f[t] = Cardinality(HeapOf(f))
  BY <1>2, <1>4, HeapFalls
<1>7. Cardinality(HeapOf(g)) \in Nat /\ f[t] \in Nat
  BY <1>4, <1>6, FS_CardinalityType
<1>8. Cardinality(Recorded(ledger, x)) \in Nat
  BY Known, RecordedFinite
<1>9. /\ reported'[x] + Cardinality(HeapOf(g)) <= Cardinality(Recorded(ledger, x))
      /\ failed' = 0 =>
           reported'[x] + Cardinality(HeapOf(g)) = Cardinality(Recorded(ledger, x))
  <2> DEFINE h == Cardinality(HeapOf(f))
             k == Cardinality(HeapOf(g))
             c == Cardinality(Recorded(ledger, x))
  <2>1. h \in Nat /\ k \in Nat /\ c \in Nat /\ k + f[t] = h
    BY <1>4, <1>6, <1>7, <1>8, FS_CardinalityType
  <2>2. reported[x] + h <= c /\ (failed = 0 => reported[x] + h = c)
    BY <1>4
  <2> HIDE DEF h, k, c
  <2>3. reported'[x] + k <= c /\ (failed' = 0 => reported'[x] + k = c)
    BY <1>3, <1>5, <1>7, <2>1, <2>2
  <2> QED
    BY <2>3 DEF k, c
<1> QED
  BY <1>6, <1>9 DEF BalancedIn, Announced, HeapOf, Recorded, g

-----------------------------------------------------------------------------
(***************************************************************************)
(* What each step's job owes.                                              *)
(***************************************************************************)
LEMMA SumsCount ==
  ASSUME NEW sim, SimOK(sim), NEW x \in TotalNames
  PROVE  sim.sums[x] \in Nat
  BY DEF SimOK, Totals, TotalNames

\* What a job owes where it is not about to insert.
LEMMA DueAt ==
  ASSUME NEW j, NEW x
  PROVE  /\ j.at \notin Inserting => Owed(j, x) = Due(j, x) /\ OwedThen(j, x) = Due(j, x)
         /\ j.at \in Simulating \ Holding => Due(j, x) = j.sim.sums[x]
         /\ j.at \in {"idle", "show"} => Due(j, x) = 0
<1>1. j.at \notin Inserting => Owed(j, x) = Due(j, x) /\ OwedThen(j, x) = Due(j, x)
  BY DEF Owed, OwedThen
<1>2. j.at \in Simulating \ Holding => Due(j, x) = j.sim.sums[x]
  BY DEF Due
<1>3. j.at \in {"idle", "show"} => Due(j, x) = 0
  BY DEF Due, Simulating, Holding
<1> QED
  BY <1>1, <1>2, <1>3

\* Going on to the next run, to the flag or to the end changes no total.
LEMMA GoingOnOwes ==
  ASSUME NEW sim, NEW flag, NEW x
  PROVE  /\ Owed(NextRun(sim), x) = sim.sums[x] /\ Due(NextRun(sim), x) = sim.sums[x]
         /\ Owed(Flagging(sim, flag), x) = sim.sums[x]
         /\ Due(Flagging(sim, flag), x) = sim.sums[x]
         /\ Flagging(sim, flag).at \in Simulating \ Holding
         /\ Flagging(sim, flag).at \notin Inserting
         /\ Flagging(sim, flag).sim.sums = sim.sums
<1> DEFINE further == [sim EXCEPT !.i = @ + 1]
           on      == NextRun(sim)
           flagged == [at |-> "flag", sim |-> sim]
<1>1. further.sums = sim.sums
  OBVIOUS
<1>2. on.at \in {"read", "return"} /\ on.sim.sums = sim.sums
  BY <1>1 DEF NextRun, Read
<1>3. flagged.at = "flag" /\ flagged.sim.sums = sim.sums
  OBVIOUS
<1>4. Flagging(sim, flag) = flagged \/ Flagging(sim, flag) = on
  BY DEF Flagging
<1> HIDE DEF on, flagged
<1>5. \A j : j.at \in {"read", "return", "flag"} =>
               j.at \in Simulating \ Holding /\ j.at \notin Inserting
  BY DEF Simulating, Holding, Inserting
<1>6. \A j : j.at \in {"read", "return", "flag"} =>
               Owed(j, x) = j.sim.sums[x] /\ Due(j, x) = j.sim.sums[x]
  BY <1>5, DueAt
<1>7. Owed(on, x) = sim.sums[x] /\ Due(on, x) = sim.sums[x]
  BY <1>2, <1>6
<1>8. Owed(flagged, x) = sim.sums[x] /\ Due(flagged, x) = sim.sums[x]
  BY <1>3, <1>6
<1>9. /\ on.at \in Simulating \ Holding /\ on.at \notin Inserting
      /\ flagged.at \in Simulating \ Holding /\ flagged.at \notin Inserting
  BY <1>2, <1>3, <1>5
<1>10. \A j : \/ j = flagged
              \/ j = on
              => /\ Owed(j, x) = sim.sums[x] /\ Due(j, x) = sim.sums[x]
                 /\ j.at \in Simulating \ Holding /\ j.at \notin Inserting
                 /\ j.sim.sums = sim.sums
  BY <1>2, <1>3, <1>7, <1>8, <1>9
<1> QED
  BY <1>4, <1>7, <1>10 DEF on

LEMMA TakeSeqOwes ==
  ASSUME CInv, Balanced, NEW t \in Threads, TakeSeq(t)
  PROVE  Balanced'
<1> DEFINE next == [at |-> "insert", seq |-> Len(ledger) + 1,
                    entry |-> job[t].entry, then |-> job[t].then]
<1>1. /\ job[t].at = "take" /\ Becomes(t, next) /\ ledger' = ledger
      /\ reported' = reported /\ failed' = failed
  BY DEF TakeSeq, At, Goes, desk
<1>2. next.at = "insert" /\ next.entry = job[t].entry /\ next.then = job[t].then
  OBVIOUS
<1> HIDE DEF next
<1>3. \A x \in TotalNames : Owed(next, x) = Owed(job[t], x)
  BY <1>1, <1>2 DEF Owed, Inserting
<1> QED
  BY <1>1, <1>3, BalanceKeeps

\* The loop over the rows keeps what its job will go on with.
LEMMA MarksOwe ==
  ASSUME CInv, Balanced, NEW t \in Threads, ReadItem(t) \/ WriteItem(t) \/ Marked(t)
  PROVE  Balanced'
<1>1. /\ ledger' = ledger /\ reported' = reported /\ failed' = failed
      /\ job[t].at \in {"mark", "put"}
  BY DEF ReadItem, WriteItem, Marked, Goes, At, desk
<1>2. FollowsMarks(DOMAIN items, job[t].then)
  BY <1>1, Known DEF JobOK
<1>3. \A x : Owed(job[t], x) = IF job[t].then.at \in Simulating
                                  THEN job[t].then.sim.sums[x] ELSE 0
  BY <1>1 DEF Owed, Due, Inserting, Holding, Simulating
<1>4. ASSUME NEW next, Becomes(t, next), next.at \in {"mark", "put"}, next.then = job[t].then
      PROVE  Balanced'
  <2>1. \A x : Owed(next, x) = IF next.then.at \in Simulating
                                 THEN next.then.sim.sums[x] ELSE 0
    BY <1>4 DEF Owed, Due, Inserting, Holding, Simulating
  <2>2. \A x \in TotalNames : Owed(next, x) = Owed(job[t], x)
    BY <1>3, <1>4, <2>1
  <2> QED
    BY <1>1, <1>4, <2>2, BalanceKeeps
<1>5. CASE ReadItem(t)
  <2>1. PICK id \in job[t].ids :
          Becomes(t, [at |-> "put", id |-> id, item |-> items[id], status |-> job[t].status,
                      ids |-> job[t].ids \ {id}, then |-> job[t].then])
    BY <1>5 DEF ReadItem, Goes
  <2> QED
    BY <1>4, <2>1
<1>6. CASE WriteItem(t)
  BY <1>4, <1>6 DEF WriteItem
<1>7. CASE Marked(t)
  <2> DEFINE next == job[t].then
  <2>1. Becomes(t, next)
    BY <1>7 DEF Marked, Goes
  <2>2. next.at \in {"read", "flag", "return", "show", "idle"}
    BY <1>2 DEF FollowsMarks
  <2>3. \A x : Owed(next, x) = IF next.at \in Simulating THEN next.sim.sums[x] ELSE 0
    BY <2>2 DEF Owed, Due, Inserting, Holding, Simulating
  <2>4. \A x \in TotalNames : Owed(next, x) = Owed(job[t], x)
    BY <1>3, <2>3
  <2> QED
    BY <1>1, <2>1, <2>4, BalanceKeeps
<1> QED
  BY <1>5, <1>6, <1>7

LEMMA ReadStateOwes ==
  ASSUME CInv, Balanced, NEW t \in Threads, ReadState(t)
  PROVE  Balanced'
<1> DEFINE next == [at |-> "route", sim |-> job[t].sim, seen |-> Len(ledger)]
<1>1. /\ job[t].at = "read" /\ Becomes(t, next) /\ ledger' = ledger
      /\ reported' = reported /\ failed' = failed
  BY DEF ReadState, At, Goes, desk
<1>2. next.at = "route" /\ next.sim = job[t].sim
  OBVIOUS
<1> HIDE DEF next
<1>3. \A x \in TotalNames : Owed(next, x) = Owed(job[t], x)
  BY <1>1, <1>2 DEF Owed, Due, Inserting, Holding, Simulating
<1> QED
  BY <1>1, <1>3, BalanceKeeps

\* What an entry counts for.
LEMMA RunTally ==
  ASSUME NEW entry, entry.kind = "run", NEW x \in TotalNames
  PROVE  Tally(entry, x) = OneIf(x = "sent" /\ entry.decision = "auto_send")
<1>1. Tallied(entry, x) <=> x = "sent" /\ entry.decision = "auto_send"
  BY DEF Tallied
<1> QED
  BY <1>1 DEF Tally, OneIf

LEMMA OutcomeTally ==
  ASSUME NEW entry, entry.kind = "outcome", NEW x \in TotalNames
  PROVE  Tally(entry, x) = OneIf(\/ x = "breaches" /\ entry.breached
                                 \/ x = "blind_spots" /\ entry.blind_spot)
<1>1. Tallied(entry, x) <=> \/ x = "breaches" /\ entry.breached
                            \/ x = "blind_spots" /\ entry.blind_spot
  BY DEF Tallied
<1> QED
  BY <1>1 DEF Tally, OneIf

LEMMA TransitionTally ==
  ASSUME NEW entry, entry.kind = "transition", NEW x \in TotalNames
  PROVE  Tally(entry, x) = OneIf(x = "demotions" /\ entry.to_tier = ASSIST)
<1>1. Tallied(entry, x) <=> x = "demotions" /\ entry.to_tier = ASSIST
  BY DEF Tallied
<1> QED
  BY <1>1 DEF Tally, OneIf

LEMMA HoldingOwes ==
  ASSUME NEW j, j.at \in Holding, NEW x
  PROVE  /\ Owed(j, x) = j.sim.sums[x] + OneIf(x = "sent" /\ j.item.status = "in_flight")
         /\ OwedThen(j, x) = Owed(j, x)
  BY DEF Owed, OwedThen, Due, Holding, Inserting

\* A send is owed as soon as its run is built, and counted when its item is
\* enqueued.
LEMMA RouteOwes ==
  ASSUME CInv, Balanced, NEW t \in Threads, Route(t)
  PROVE  Balanced'
<1> DEFINE sim        == job[t].sim
           evaluation == SyntheticEvaluation(sim)
           tier       == EffectiveTier(Seen(t), sim.ct)
           sends      == SendsLast24h(ledger, sim.ct, Ts(sim))
           routed     == Decide(evaluation, tier, sends)
           fact       == RunFact(Seen(t), evaluation, Ts(sim))
           entry      == [fact EXCEPT !.decision = routed.decision,
                                      !.outcome = routed.outcome]
           item       == QueueItemFromDecision(evaluation, routed.decision,
                           Violations(evaluation, tier, sends), Ts(sim), SendWindow)
           then       == [at |-> IF entry.outcome = "quality_pass"
                                   THEN "standing" ELSE "enqueue",
                          sim |-> sim, item |-> item]
           next       == [at |-> "take", entry |-> entry, then |-> then]
<1>1. /\ job[t].at = "route" /\ Becomes(t, next) /\ ledger' = ledger
      /\ reported' = reported /\ failed' = failed
  BY DEF Route, At, Goes, desk
<1>2. SimOK(sim)
  BY <1>1, Known DEF JobOK, Simulating
<1>3. entry.kind = "run" /\ entry.decision = routed.decision
  BY DEF RunFact
<1>4. item.status = "in_flight" <=> routed.decision = "auto_send"
  BY DEF QueueItemFromDecision
<1>5. \A x \in TotalNames : sim.sums[x] \in Nat
  BY <1>2, SumsCount
<1> HIDE DEF sim, routed, entry, item
<1>6. /\ then.at \in {"standing", "enqueue"} /\ then.sim = sim /\ then.item = item
      /\ next.at = "take" /\ next.entry = entry /\ next.then = then
  OBVIOUS
<1> HIDE DEF then, next
<1>7. ASSUME NEW x \in TotalNames PROVE Owed(next, x) = Owed(job[t], x)
  <2>1. OwedThen(then, x) = sim.sums[x] + OneIf(x = "sent" /\ item.status = "in_flight")
    BY <1>6, HoldingOwes DEF Holding
  <2>2. Tally(entry, x) = OneIf(x = "sent" /\ entry.decision = "auto_send")
    BY <1>3, RunTally
  <2>3. Owed(next, x) = OwedThen(then, x) - Tally(entry, x)
    BY <1>6 DEF Owed, Inserting
  <2>4. Owed(job[t], x) = sim.sums[x]
    BY <1>1 DEF Owed, Due, Inserting, Holding, Simulating, sim
  <2> QED
    BY <1>3, <1>4, <1>5, <2>1, <2>2, <2>3, <2>4 DEF OneIf
<1> QED
  BY <1>1, <1>7, BalanceKeeps

LEMMA StandingWeighOwe ==
  ASSUME CInv, Balanced, NEW t \in Threads, ReadStanding(t) \/ Weigh(t)
  PROVE  Balanced'
<1> DEFINE sim       == job[t].sim
           weigh     == [at |-> "weigh", sim |-> sim, item |-> job[t].item,
                         seen |-> Len(ledger)]
           promotion == Promotion(Seen(t), sim.ct, Ts(sim))
           next      == [at |-> "take", entry |-> promotion, then |-> Queueing(t)]
<1>1. /\ job[t].at \in {"standing", "weigh"}
      /\ ledger' = ledger /\ reported' = reported /\ failed' = failed
  BY DEF ReadStanding, Weigh, At, Goes, desk
<1>2. /\ Queueing(t).at = "enqueue" /\ Queueing(t).sim = sim
      /\ Queueing(t).item = job[t].item
      /\ weigh.at = "weigh" /\ weigh.sim = sim /\ weigh.item = job[t].item
  BY DEF Queueing
<1>3. next.at = "take" /\ next.entry = promotion /\ next.then = Queueing(t)
  OBVIOUS
<1>4. \/ Becomes(t, weigh)
      \/ Becomes(t, Queueing(t))
      \/ job[t].at = "weigh" /\ Becomes(t, next)
  BY DEF ReadStanding, Weigh, At, Goes
<1>5. SimOK(sim) /\ \A x \in TotalNames : sim.sums[x] \in Nat
  <2>1. SimOK(sim)
    BY <1>1, Known DEF JobOK, Simulating
  <2> HIDE DEF sim
  <2> QED
    BY <2>1, SumsCount
<1>6. ASSUME job[t].at = "weigh"
      PROVE  promotion.kind = "transition" /\ promotion.to_tier # ASSIST
  <2>1. job[t].seen \in 0 .. Len(ledger)
    BY <1>6, Known DEF JobOK
  <2>2. Grounded(Seen(t))
    BY <2>1, Known, PrefixGrounded DEF Seen
  <2>3. sim.ct \in CampaignTypes
    BY <1>5, SimFacts
  <2>4. TierOf(Seen(t), sim.ct) \in Tier
    BY <2>2, <2>3, CurrentState
  <2> QED
    BY <2>4 DEF Promotion, Transition, Tier, ASSIST, SUPERVISED
<1> HIDE DEF weigh, promotion, next
<1>7. ASSUME NEW x \in TotalNames
      PROVE  /\ Owed(weigh, x) = Owed(job[t], x)
             /\ Owed(Queueing(t), x) = Owed(job[t], x)
             /\ job[t].at = "weigh" => Owed(next, x) = Owed(job[t], x)
  <2> DEFINE due == sim.sums[x] + OneIf(x = "sent" /\ job[t].item.status = "in_flight")
  <2>1. /\ Owed(weigh, x) = due /\ Owed(Queueing(t), x) = due /\ Owed(job[t], x) = due
        /\ OwedThen(Queueing(t), x) = due
    BY <1>1, <1>2, HoldingOwes DEF Holding
  <2>2. due \in Nat
    BY <1>5 DEF OneIf
  <2> HIDE DEF due
  <2>3. ASSUME job[t].at = "weigh" PROVE Owed(next, x) = due
    <3>1. Tally(promotion, x) = 0
      BY <1>6, <2>3, TransitionTally DEF OneIf
    <3>2. Owed(next, x) = OwedThen(Queueing(t), x) - Tally(promotion, x)
      BY <1>3 DEF Owed, Inserting
    <3> QED
      BY <2>1, <2>2, <3>1, <3>2
  <2> QED
    BY <2>1, <2>3
<1>8. CASE Becomes(t, weigh)
  BY <1>1, <1>7, <1>8, BalanceKeeps
<1>9. CASE Becomes(t, Queueing(t))
  BY <1>1, <1>7, <1>9, BalanceKeeps
<1>10. CASE job[t].at = "weigh" /\ Becomes(t, next)
  BY <1>1, <1>7, <1>10, BalanceKeeps
<1> QED
  BY <1>4, <1>8, <1>9, <1>10

LEMMA EnqueueOwes ==
  ASSUME CInv, Balanced, NEW t \in Threads, Enqueue(t)
  PROVE  Balanced'
<1> DEFINE sim   == job[t].sim
           sent  == job[t].item.status = "in_flight"
           going == [sim EXCEPT !.sums.sent = @ + 1]
           next  == [at |-> "outcome", sim |-> going]
<1>1. /\ job[t].at = "enqueue" /\ ledger' = ledger /\ reported' = reported
      /\ failed' = failed /\ Becomes(t, IF sent THEN next ELSE NextRun(sim))
  BY DEF Enqueue, At, desk
<1>2. SimOK(sim)
  BY <1>1, Known DEF JobOK, Simulating
<1>3. \A x \in TotalNames : sim.sums[x] \in Nat /\ Owed(NextRun(sim), x) = sim.sums[x]
  BY <1>2, SumsCount, GoingOnOwes
<1>4. \A x \in TotalNames : going.sums[x] = sim.sums[x] + OneIf(x = "sent")
  <2>1. sim \in [ct : CampaignTypes, n : Nat, scenario : Scenarios, began : Clocks,
                 i : Nat, sums : Totals]
    BY <1>2 DEF SimOK
  <2>2. going.sums = [sim.sums EXCEPT !.sent = @ + 1]
    BY <2>1
  <2>3. sim.sums \in Totals
    BY <2>1
  <2> HIDE DEF going, sim
  <2> QED
    BY <2>2, <2>3 DEF Totals, TotalNames, OneIf
<1>5. \A x : Owed(job[t], x) = sim.sums[x] + OneIf(x = "sent" /\ sent)
  BY <1>1, HoldingOwes DEF Holding
<1> HIDE DEF going, sim, sent
<1>6. next.at = "outcome" /\ next.sim = going
  OBVIOUS
<1> HIDE DEF next
<1>7. \A x : Owed(next, x) = going.sums[x]
  BY <1>6 DEF Owed, Due, Inserting, Holding, Simulating
<1>8. CASE sent
  <2>1. \A x \in TotalNames : Owed(next, x) = Owed(job[t], x)
    BY <1>4, <1>5, <1>7, <1>8
  <2> QED
    BY <1>1, <1>8, <2>1, BalanceKeeps
<1>9. CASE ~sent
  <2>1. \A x \in TotalNames : Owed(NextRun(sim), x) = Owed(job[t], x)
    BY <1>3, <1>5, <1>9 DEF OneIf
  <2> QED
    BY <1>1, <1>9, <2>1, BalanceKeeps
<1> QED
  BY <1>8, <1>9

\* An outcome is counted when it is taken up, and with it the demotion that
\* follows it.
LEMMA TakeOutcomeOwes ==
  ASSUME CInv, Balanced, NEW t \in Threads, TakeOutcome(t)
  PROVE  Balanced'
<1> DEFINE sim  == job[t].sim
           last == IF sim.n - 1 >= 1 THEN sim.n - 1 ELSE 1
           report(z) == [campaign_type |-> sim.ct, run_id |-> RunId(sim),
                         rates |-> Simulate("engaged_30d", SyntheticWeakness,
                                            sim.scenario, z, sim.i, last)]
           outcome(z) == OutcomeFact(ledger, report(z), Ts(sim))
           demotion == Demotion(ledger, sim.ct, Ts(sim), "demotion_deliverability")
           demotes(z) == ReportDemotes(ledger, report(z))
           counted(z) == [sim EXCEPT
                            !.sums.breaches = @ + OneIf(outcome(z).breached),
                            !.sums.demotions = @ + OneIf(demotes(z)),
                            !.sums.blind_spots = @ + OneIf(outcome(z).blind_spot)]
           downgrade(z) == [at |-> "downgrade", sim |-> counted(z),
                            flag |-> outcome(z).blind_spot]
           lost(z) == [at |-> "take", entry |-> demotion, then |-> downgrade(z)]
           then(z) == IF demotes(z) THEN lost(z)
                        ELSE Flagging(counted(z), outcome(z).blind_spot)
<1>1. PICK z \in Noise : Goes(t, [at |-> "take", entry |-> outcome(z), then |-> then(z)])
  BY DEF TakeOutcome
<1> DEFINE next == [at |-> "take", entry |-> outcome(z), then |-> then(z)]
<1>2. /\ job[t].at = "outcome" /\ Becomes(t, next) /\ ledger' = ledger
      /\ reported' = reported /\ failed' = failed
  BY <1>1 DEF TakeOutcome, At, Goes, desk
<1>3. SimOK(sim)
  BY <1>2, Known DEF JobOK, Simulating
<1>4. outcome(z).kind = "outcome"
  BY DEF OutcomeFact
<1>5. demotion.kind = "transition" /\ demotion.to_tier = ASSIST
  BY DEF Demotion, Transition
<1> HIDE DEF outcome, demotion, demotes
<1>6. \A x \in TotalNames :
        counted(z).sums[x] = sim.sums[x] + OneIf(\/ x = "breaches" /\ outcome(z).breached
                                                 \/ x = "blind_spots" /\ outcome(z).blind_spot)
                                         + OneIf(x = "demotions" /\ demotes(z))
  <2> DEFINE b == OneIf(outcome(z).breached)
             d == OneIf(demotes(z))
             s == OneIf(outcome(z).blind_spot)
  <2>1. sim.sums \in Totals
    BY <1>3 DEF SimOK
  <2>2. counted(z).sums = [sim.sums EXCEPT !.breaches = @ + b, !.demotions = @ + d,
                                           !.blind_spots = @ + s]
    BY <1>3 DEF SimOK
  <2>3. /\ b = OneIf(outcome(z).breached) /\ d = OneIf(demotes(z))
        /\ s = OneIf(outcome(z).blind_spot) /\ b \in Nat /\ d \in Nat /\ s \in Nat
    BY DEF OneIf
  <2> HIDE DEF counted, sim
  <2>4. /\ counted(z).sums.sent = sim.sums.sent
        /\ counted(z).sums.breaches = sim.sums.breaches + b
        /\ counted(z).sums.demotions = sim.sums.demotions + d
        /\ counted(z).sums.blind_spots = sim.sums.blind_spots + s
    BY <2>1, <2>2 DEF Totals
  <2>5. /\ sim.sums.sent \in Nat /\ sim.sums.breaches \in Nat
        /\ sim.sums.demotions \in Nat /\ sim.sums.blind_spots \in Nat
    BY <2>1 DEF Totals
  <2>6. TAKE x \in TotalNames
  <2>7. \/ x = "sent" \/ x = "breaches" \/ x = "demotions" \/ x = "blind_spots"
    BY DEF TotalNames
  <2> QED
    BY <2>3, <2>4, <2>5, <2>7 DEF OneIf
<1>7. \A x \in TotalNames : sim.sums[x] \in Nat
  BY <1>3, SumsCount
<1>8. \A x : Owed(job[t], x) = sim.sums[x]
  BY <1>2 DEF Owed, Due, Inserting, Holding, Simulating
<1> HIDE DEF sim, counted
<1>9. downgrade(z).at = "downgrade" /\ downgrade(z).sim = counted(z)
  OBVIOUS
<1> HIDE DEF downgrade
<1>10. lost(z).at = "take" /\ lost(z).entry = demotion /\ lost(z).then = downgrade(z)
  OBVIOUS
<1> HIDE DEF lost
<1>11. next.at = "take" /\ next.entry = outcome(z) /\ next.then = then(z)
  OBVIOUS
<1>12. demotes(z) => then(z) = lost(z)
  OBVIOUS
<1>13. ~demotes(z) => then(z) = Flagging(counted(z), outcome(z).blind_spot)
  OBVIOUS
<1> HIDE DEF next, then
<1>14. ASSUME NEW x \in TotalNames
       PROVE  OwedThen(then(z), x) = counted(z).sums[x] - OneIf(x = "demotions" /\ demotes(z))
  <2>1. counted(z).sums[x] \in Nat
    BY <1>6, <1>7, <1>14 DEF OneIf
  <2>2. CASE demotes(z)
    <3>1. OwedThen(lost(z), x) = Due(downgrade(z), x) - Tally(demotion, x)
      BY <1>10 DEF OwedThen, Inserting
    <3>2. Due(downgrade(z), x) = counted(z).sums[x]
      BY <1>9 DEF Due, Holding, Simulating
    <3>3. Tally(demotion, x) = OneIf(x = "demotions")
      BY <1>5, <1>14, TransitionTally
    <3> QED
      BY <1>12, <2>2, <3>1, <3>2, <3>3
  <2>3. CASE ~demotes(z)
    <3>1. OwedThen(then(z), x) = counted(z).sums[x]
      BY <1>13, <2>3, GoingOnOwes, DueAt
    <3> QED
      BY <2>1, <2>3, <3>1 DEF OneIf
  <2> QED
    BY <2>2, <2>3
<1>15. ASSUME NEW x \in TotalNames PROVE Owed(next, x) = Owed(job[t], x)
  <2>1. Owed(next, x) = OwedThen(then(z), x) - Tally(outcome(z), x)
    BY <1>11 DEF Owed, Inserting
  <2>2. Tally(outcome(z), x) = OneIf(\/ x = "breaches" /\ outcome(z).breached
                                     \/ x = "blind_spots" /\ outcome(z).blind_spot)
    BY <1>4, <1>15, OutcomeTally
  <2> DEFINE e == OneIf(\/ x = "breaches" /\ outcome(z).breached
                        \/ x = "blind_spots" /\ outcome(z).blind_spot)
             d == OneIf(x = "demotions" /\ demotes(z))
  <2>3. e \in Nat /\ d \in Nat
    BY DEF OneIf
  <2>4. Owed(next, x) = (sim.sums[x] + e + d) - d - e
    BY <1>6, <1>14, <2>1, <2>2
  <2> HIDE DEF e, d
  <2> QED
    BY <1>7, <1>8, <2>3, <2>4
<1> QED
  BY <1>2, <1>15, BalanceKeeps

LEMMA DowngradeOwes ==
  ASSUME CInv, Balanced, NEW t \in Threads, Downgrade(t)
  PROVE  Balanced'
<1> DEFINE on   == Flagging(job[t].sim, job[t].flag)
           next == [at |-> "mark", ids |-> InFlight(job[t].sim.ct), status |-> "pending",
                    then |-> on]
<1>1. /\ job[t].at = "downgrade" /\ Becomes(t, next) /\ ledger' = ledger
      /\ reported' = reported /\ failed' = failed
  BY DEF Downgrade, At, Goes, desk
<1>2. next.at = "mark" /\ next.then = on
  OBVIOUS
<1>3. on.at \in Simulating \ Holding /\ on.sim.sums = job[t].sim.sums
  BY GoingOnOwes
<1> HIDE DEF on, next
<1>4. \A x : Owed(next, x) = on.sim.sums[x]
  BY <1>2, <1>3 DEF Owed, Due, Inserting, Holding, Simulating
<1>5. \A x : Owed(job[t], x) = job[t].sim.sums[x]
  BY <1>1 DEF Owed, Due, Inserting, Holding, Simulating
<1>6. \A x \in TotalNames : Owed(next, x) = Owed(job[t], x)
  BY <1>3, <1>4, <1>5
<1> QED
  BY <1>1, <1>6, BalanceKeeps

LEMMA FlagOwes ==
  ASSUME CInv, Balanced, NEW t \in Threads, Flag(t)
  PROVE  Balanced'
<1> DEFINE next == NextRun(job[t].sim)
<1>1. /\ job[t].at = "flag" /\ Becomes(t, next) /\ ledger' = ledger
      /\ reported' = reported /\ failed' = failed
  BY DEF Flag, At, desk
<1>2. \A x : Owed(next, x) = job[t].sim.sums[x]
  BY GoingOnOwes
<1>3. \A x : Owed(job[t], x) = job[t].sim.sums[x]
  BY <1>1 DEF Owed, Due, Inserting, Holding, Simulating
<1> HIDE DEF next
<1>4. \A x \in TotalNames : Owed(next, x) = Owed(job[t], x)
  BY <1>2, <1>3
<1> QED
  BY <1>1, <1>4, BalanceKeeps

LEMMA ReturnOwes ==
  ASSUME CInv, Balanced, NEW t \in Threads, Return(t)
  PROVE  Balanced'
<1>1. /\ job[t].at = "return" /\ Becomes(t, Idle) /\ ledger' = ledger /\ failed' = failed
      /\ reported' = [total \in DOMAIN reported |-> reported[total] + job[t].sim.sums[total]]
  BY DEF Return, At
<1>2. \A x : Owed(job[t], x) = job[t].sim.sums[x]
  BY <1>1 DEF Owed, Due, Inserting, Holding, Simulating
<1>3. \A x : Owed(Idle, x) = 0
  BY DEF Owed, Due, Idle, Inserting, Holding, Simulating
<1>4. \A x \in TotalNames : reported'[x] = reported[x] + job[t].sim.sums[x]
  <2>1. TotalNames \subseteq DOMAIN reported
    BY DEF CInv, ConsoleTypeOK, Totals, TotalNames
  <2> QED
    BY <1>1, <2>1
<1>5. \A x \in TotalNames :
        Owed(Idle, x) = 0 /\ reported'[x] = reported[x] + Owed(job[t], x)
  BY <1>2, <1>3, <1>4
<1> QED
  BY <1>1, <1>5, BalanceReports

\* Calls that start owe nothing yet, and those of the queue never do.
LEMMA StartsAndShowOwe ==
  ASSUME CInv, Balanced, NEW t \in Threads, GetQueue(t) \/ PostApprove(t) \/ Show(t)
  PROVE  Balanced'
<1>1. /\ job[t].at \in {"idle", "show"} /\ ledger' = ledger
      /\ reported' = reported /\ failed' = failed
  BY DEF GetQueue, PostApprove, Show, Starts, At
<1>2. \A x : Owed(job[t], x) = 0
  BY <1>1 DEF Owed, Due, Inserting, Holding, Simulating
<1>3. CASE Show(t)
  <2>1. \A x : Owed(Idle, x) = 0
    BY DEF Owed, Due, Idle, Inserting, Holding, Simulating
  <2> QED
    BY <1>1, <1>2, <1>3, <2>1, BalanceKeeps DEF Show
<1>4. ASSUME NEW next, Becomes(t, next), next.at = "mark", next.then.at \in {"show", "idle"}
      PROVE  Balanced'
  <2>1. \A x : Owed(next, x) = 0
    BY <1>4 DEF Owed, Due, Inserting, Holding, Simulating
  <2> QED
    BY <1>1, <1>2, <1>4, <2>1, BalanceKeeps
<1>5. CASE GetQueue(t)
  BY <1>4, <1>5 DEF GetQueue, Starts
<1>6. CASE PostApprove(t)
  BY <1>4, <1>6 DEF PostApprove, Starts, Idle
<1> QED
  BY <1>3, <1>5, <1>6

LEMMA PostSimulateOwes ==
  ASSUME CInv, Balanced, NEW t \in Threads, NEW ct, NEW n, NEW scenario,
         PostSimulate(t, ct, n, scenario)
  PROVE  Balanced'
<1> DEFINE sim  == [ct |-> ct, n |-> n, scenario |-> scenario, began |-> clock,
                    i |-> 0, sums |-> Nothing]
           next == Read(sim)
<1>1. /\ job[t].at = "idle" /\ Becomes(t, next) /\ ledger' = ledger
      /\ reported' = reported /\ failed' = failed
  BY DEF PostSimulate, At
<1>2. next.at = "read" /\ next.sim.sums = Nothing
  BY DEF Read
<1> HIDE DEF next
<1>3. \A x \in TotalNames : Owed(next, x) = 0
  BY <1>2 DEF Owed, Due, Nothing, TotalNames, Inserting, Holding, Simulating
<1>4. \A x \in TotalNames : Owed(job[t], x) = 0
  BY <1>1 DEF Owed, Due, Inserting, Holding, Simulating
<1> QED
  BY <1>1, <1>3, <1>4, BalanceKeeps

\* What a job goes on with after an insert owes a number of its own.
LEMMA FollowerOwes ==
  ASSUME NEW log, NEW entry, NEW next, FollowsInsert(log, entry, next), NEW x \in TotalNames
  PROVE  Owed(next, x) = OwedThen(next, x) /\ OwedThen(next, x) \in Int
<1>1. /\ next.at \in {"standing", "enqueue", "read", "flag", "return", "downgrade", "take"}
      /\ next.at \in Simulating => SimOK(next.sim)
      /\ next.at = "take" => next.then.at = "downgrade" /\ SimOK(next.then.sim)
  BY DEF FollowsInsert
<1>2. CASE next.at = "take"
  <2>1. next.then.at = "downgrade" /\ next.then.sim.sums[x] \in Nat
    BY <1>1, <1>2, SumsCount
  <2>2. OwedThen(next.then, x) = Due(next.then, x) /\ Due(next.then, x) = next.then.sim.sums[x]
    BY <2>1 DEF OwedThen, Due, Inserting, Holding, Simulating
  <2>3. /\ Owed(next, x) = OwedThen(next.then, x) - Tally(next.entry, x)
        /\ OwedThen(next, x) = Due(next.then, x) - Tally(next.entry, x)
    BY <1>2 DEF Owed, OwedThen, Inserting
  <2>4. Tally(next.entry, x) \in Nat
    BY DEF Tally, OneIf
  <2> QED
    BY <2>1, <2>2, <2>3, <2>4
<1>3. CASE next.at # "take"
  <2>1. next.at \in Simulating /\ next.at \notin Inserting
    BY <1>1, <1>3 DEF Simulating, Inserting
  <2>2. next.sim.sums[x] \in Nat
    BY <1>1, <2>1, SumsCount
  <2>3. Due(next, x) \in Nat
    BY <2>1, <2>2 DEF Due, OneIf
  <2> QED
    BY <2>1, <2>3 DEF Owed, OwedThen
<1> QED
  BY <1>2, <1>3

LEMMA InsertOwes ==
  ASSUME CInv, Balanced, NEW t \in Threads, Insert(t)
  PROVE  Balanced'
<1> DEFINE entry == job[t].entry
           next  == job[t].then
<1>1. /\ job[t].at = "insert" /\ entry \in Entry /\ FollowsInsert(ledger, entry, next)
  BY Known DEF Insert, At, JobOK
<1>2. CASE /\ ledger' = Append(ledger, entry) /\ Becomes(t, next)
           /\ reported' = reported /\ failed' = failed
  <2>1. ASSUME NEW x \in TotalNames
        PROVE  Owed(next, x) = Owed(job[t], x) + Tally(entry, x)
    <3>1. Owed(next, x) = OwedThen(next, x) /\ OwedThen(next, x) \in Int
      BY <1>1, FollowerOwes
    <3>2. Owed(job[t], x) = OwedThen(next, x) - Tally(entry, x)
      BY <1>1 DEF Owed, Inserting
    <3>3. Tally(entry, x) \in Nat
      BY DEF Tally, OneIf
    <3> QED
      BY <3>1, <3>2, <3>3
  <2> HIDE DEF entry, next
  <2> QED
    BY <1>1, <1>2, <2>1, BalanceInserts
<1>3. CASE /\ failed' = failed + 1 /\ Becomes(t, Idle)
           /\ ledger' = ledger /\ reported' = reported
  <2>1. \A x : Owed(Idle, x) = 0
    BY DEF Owed, Due, Idle, Inserting, Holding, Simulating
  <2> QED
    BY <1>3, <2>1, BalanceReports
<1> QED
  BY <1>2, <1>3 DEF Insert, desk

LEMMA BalanceStep ==
  ASSUME CInv, Balanced, [ConsoleNext]_cvars
  PROVE  Balanced'
<1>1. CASE Tick \/ UNCHANGED cvars
  <2>1. job' = job /\ ledger' = ledger /\ reported' = reported /\ failed' = failed
    BY <1>1 DEF Tick, cvars, desk
  <2>2. ASSUME NEW x \in TotalNames PROVE BalancedIn(x)'
    <3>1. BalancedIn(x)
      BY DEF Balanced
    <3>2. Owing(x)' = Owing(x)
      BY <2>1 DEF Owing, Owed, OwedThen, Due, Tally, OneIf, Tallied
    <3> QED
      BY <2>1, <3>1, <3>2 DEF BalancedIn, Announced, HeapOf, Recorded
  <2> QED
    BY <2>2 DEF Balanced, BalancedIn, Announced
<1>2. ASSUME NEW t \in Threads, JobStep(t) PROVE Balanced'
  BY <1>2, TakeSeqOwes, InsertOwes, MarksOwe, ReadStateOwes, RouteOwes, StandingWeighOwe,
     EnqueueOwes, TakeOutcomeOwes, DowngradeOwes, FlagOwes, ReturnOwes, StartsAndShowOwe,
     Zenon DEF JobStep
<1>3. ASSUME NEW t \in Threads, GetQueue(t) \/ PostApprove(t) PROVE Balanced'
  BY <1>3, StartsAndShowOwe
<1>4. ASSUME NEW t \in Threads, NEW ct, NEW n, NEW scenario,
             PostSimulate(t, ct, n, scenario)
      PROVE  Balanced'
  BY <1>4, PostSimulateOwes
<1> QED
  BY <1>1, <1>2, <1>3, <1>4 DEF ConsoleNext

\* The earlier run was reviewed, and it earned its type a tier above the first:
\* neither entry counts for a total.
LEMMA NothingTalliedAtStart ==
  ASSUME ConsoleInit, NEW x
  PROVE  Recorded(ledger, x) = {}
<1> DEFINE run    == RunFact(<<>>, Earlier, EarlierTs)
           raised == Promotion(<<run>>, Earlier.campaign_type, EarlierTs)
<1>1. ledger = Append(<<run>>, raised)
  BY DEF ConsoleInit
<1>2. Earlier.campaign_type \in CampaignTypes
  BY ConsoleAssumption DEF Evaluation
<1>3. ceiling \in Tier
  BY ConfigAssumption DEF ConsoleInit
<1>4. run.kind = "run" /\ run.decision = "human_review"
  <2>1. TierOf(<<>>, Earlier.campaign_type) = ASSIST
    BY DEF TierOf, TierAt, LastTransition, TransitionsUpTo
  <2>2. EffectiveTier(<<>>, Earlier.campaign_type) = ASSIST
    BY <1>3, <2>1 DEF EffectiveTier, Tier, ASSIST, SUPERVISED
  <2>3. ~CanAutosend(EffectiveTier(<<>>, Earlier.campaign_type), Earlier.segment)
    BY <2>2, AssistSendsNothing
  <2> QED
    BY <2>3 DEF RunFact, Decide, AutoSends
<1>5. raised.kind = "transition" /\ raised.to_tier # ASSIST
  <2>1. TransitionsUpTo(<<run>>, Earlier.campaign_type, 1) = {}
    BY <1>4 DEF TransitionsUpTo, IsTransition
  <2>2. Len(<<run>>) = 1
    OBVIOUS
  <2> HIDE DEF run
  <2>3. TierOf(<<run>>, Earlier.campaign_type) = ASSIST
    BY <2>1, <2>2 DEF TierOf, TierAt, LastTransition
  <2> QED
    BY <2>3 DEF Promotion, Transition, ASSIST
<1> HIDE DEF run, raised
<1>6. DOMAIN ledger = {1, 2} /\ ledger[1] = run /\ ledger[2] = raised
  BY <1>1
<1>7. \A i \in DOMAIN ledger : ~Tallied(ledger[i], x)
  BY <1>4, <1>5, <1>6 DEF Tallied
<1> QED
  BY <1>7 DEF Recorded

LEMMA StartsBalanced == ConsoleInit => Balanced
<1> SUFFICES ASSUME ConsoleInit
             PROVE  Balanced
  OBVIOUS
<1>1. \A t \in Threads : job[t] = Idle
  BY StartsWithOneRun
<1>2. ASSUME NEW x \in TotalNames PROVE BalancedIn(x)
  <2>1. \A t \in Threads : Owed(job[t], x) = 0
    BY <1>1 DEF Owed, Due, Idle, Inserting, Holding, Simulating
  <2>2. Owing(x) \in [Threads -> Nat] /\ \A t \in Threads : Owing(x)[t] = 0
    BY <2>1 DEF Owing
  <2>3. HeapOf(Owing(x)) = {}
    BY <2>2 DEF HeapOf
  <2>4. Recorded(ledger, x) = {}
    BY NothingTalliedAtStart
  <2>5. reported[x] = 0
    BY DEF ConsoleInit, Nothing, TotalNames
  <2> QED
    BY <2>2, <2>3, <2>4, <2>5, FS_EmptySet DEF BalancedIn, Announced
<1> QED
  BY <1>2 DEF Balanced

-----------------------------------------------------------------------------
(***************************************************************************)
(* What is flagged for triage.  A blind spot on record whose run is not    *)
(* flagged yet is carried by the thread that recorded it, up to the step   *)
(* that flags it; a call cut off on the way loses at most that one.        *)
(***************************************************************************)
BlindOf(entry) ==
  IF entry.kind = "outcome" /\ entry.blind_spot THEN {entry.run_id} ELSE {}

\* The run that a job which inserts nothing is on its way to flag.
Loose(j) ==
  IF j.at = "flag" \/ (j.at = "downgrade" /\ j.flag) THEN {RunId(j.sim)}
  ELSE IF j.at \in {"mark", "put"} /\ j.then.at = "flag" THEN {RunId(j.then.sim)}
  ELSE {}

\* An outcome about to be inserted is not on record yet.
Unflagged(j) ==
  IF j.at \notin Inserting THEN Loose(j)
  ELSE IF j.entry.kind = "outcome" THEN {}
  ELSE Loose(j.then)

\* A job that inserts an outcome goes on to flag it if it is a blind spot.
Triaging(j) ==
  j.at \in Inserting =>
    /\ j.entry.kind = "outcome" => Unflagged(j.then) = BlindOf(j.entry)
    /\ j.entry.kind # "outcome" => j.then.at # "take"
    /\ j.then.at = "take" => j.then.entry.kind = "transition"

AllUnflagged == UNION {Unflagged(job[t]) : t \in Threads}

Lost(lost) ==
  /\ IsFiniteSet(lost) /\ Cardinality(lost) <= failed
  /\ candidates \cup AllUnflagged \cup lost = BlindIds(ledger)

Triage ==
  /\ \A t \in Threads : Triaging(job[t])
  /\ \E lost : Lost(lost)

\* A step after which its job carries, or has flagged, what it carried and what
\* it has put on record.
LEMMA TriageMoves ==
  ASSUME CInv, Triage, NEW t \in Threads, NEW next, Becomes(t, next), Triaging(next),
         NEW more, failed' = failed, BlindIds(ledger') = BlindIds(ledger) \cup more,
         candidates' \cup Unflagged(next) = candidates \cup Unflagged(job[t]) \cup more
  PROVE  Triage'
<1>1. \A u \in Threads : job'[u] = IF u = t THEN next ELSE job[u]
  BY DEF Becomes, CInv, JobsOK
<1>2. \A u \in Threads : Triaging(job'[u])
  BY <1>1 DEF Triage
<1> DEFINE others == UNION {Unflagged(job[u]) : u \in Threads \ {t}}
<1>3. AllUnflagged = Unflagged(job[t]) \cup others
  BY DEF AllUnflagged
<1>4. UNION {Unflagged(job'[u]) : u \in Threads} = Unflagged(next) \cup others
  BY <1>1
<1> HIDE DEF others
<1>5. PICK lost : Lost(lost)
  BY DEF Triage
<1>6. candidates' \cup (UNION {Unflagged(job'[u]) : u \in Threads}) \cup lost
        = BlindIds(ledger')
  BY <1>3, <1>4, <1>5 DEF Lost
<1>7. Lost(lost)'
  BY <1>5, <1>6 DEF Lost, AllUnflagged, Unflagged, Loose, BlindIds, RunId
<1> QED
  BY <1>2, <1>7 DEF Triage, Triaging, Unflagged, Loose, BlindOf, RunId

\* A step that records and flags nothing.
LEMMA TriageKeeps ==
  ASSUME CInv, Triage, NEW t \in Threads, NEW next, Becomes(t, next), Triaging(next),
         ledger' = ledger, failed' = failed, candidates' = candidates,
         Unflagged(next) = Unflagged(job[t])
  PROVE  Triage'
<1>1. BlindIds(ledger') = BlindIds(ledger) \cup {}
  OBVIOUS
<1>2. candidates' \cup Unflagged(next) = candidates \cup Unflagged(job[t]) \cup {}
  OBVIOUS
<1> QED
  BY <1>1, <1>2, TriageMoves

LEMMA BlindIdsGrow ==
  ASSUME NEW log \in Seq(Entry), NEW entry \in Entry
  PROVE  BlindIds(Append(log, entry)) = BlindIds(log) \cup BlindOf(entry)
<1> DEFINE more == Append(log, entry)
           n    == Len(log)
<1>1. /\ n \in Nat /\ DOMAIN log = 1 .. n /\ DOMAIN more = 1 .. n + 1
      /\ \A i \in 1 .. n : more[i] = log[i]
      /\ more[n + 1] = entry
  BY AppendFacts
<1>2. 1 .. n + 1 = (1 .. n) \cup {n + 1}
  BY <1>1
<1> HIDE DEF more, n
<1>3. BlindIds(more) = BlindIds(log) \cup BlindOf(entry)
  BY <1>1, <1>2 DEF BlindIds, BlindOf
<1> QED
  BY <1>3 DEF more

\* Where a job carries nothing to flag.
LEMMA CarriesNothing ==
  ASSUME NEW j, j.at \in Simulating \cup {"idle", "show", "mark"},
         j.at \notin {"downgrade", "flag"}, j.at = "mark" => j.then.at \in {"show", "idle"}
  PROVE  Triaging(j) /\ Unflagged(j) = {}
  BY DEF Triaging, Unflagged, Loose, Simulating, Inserting

LEMMA NextRunCarriesNothing ==
  ASSUME NEW sim
  PROVE  Triaging(NextRun(sim)) /\ Unflagged(NextRun(sim)) = {} /\ Loose(NextRun(sim)) = {}
<1>1. NextRun(sim).at \in {"read", "return"}
  BY DEF NextRun, Read
<1> QED
  BY <1>1 DEF Triaging, Unflagged, Loose, Inserting

LEMMA FlaggingCarries ==
  ASSUME NEW sim, NEW flag
  PROVE  /\ Triaging(Flagging(sim, flag))
         /\ Unflagged(Flagging(sim, flag)) = IF flag THEN {RunId(sim)} ELSE {}
         /\ Flagging(sim, flag).at \notin Inserting
         /\ flag => Flagging(sim, flag).at = "flag" /\ Flagging(sim, flag).sim = sim
         /\ ~flag => Flagging(sim, flag).at \in {"read", "return"}
<1>1. CASE flag
  <2> DEFINE j == [at |-> "flag", sim |-> sim]
  <2>1. j.at = "flag" /\ j.sim = sim /\ Flagging(sim, flag) = j
    BY <1>1 DEF Flagging
  <2> HIDE DEF j
  <2>2. j.at \notin Inserting
    BY <2>1 DEF Inserting
  <2>3. Triaging(j) /\ Unflagged(j) = {RunId(sim)}
    BY <2>1, <2>2 DEF Triaging, Unflagged, Loose
  <2> QED
    BY <1>1, <2>1, <2>2, <2>3
<1>2. CASE ~flag
  <2>1. Flagging(sim, flag) = NextRun(sim)
    BY <1>2 DEF Flagging
  <2>2. NextRun(sim).at \in {"read", "return"}
    BY DEF NextRun, Read
  <2> QED
    BY <1>2, <2>1, <2>2, NextRunCarriesNothing DEF Inserting
<1> QED
  BY <1>1, <1>2

LEMMA TakeSeqTriage ==
  ASSUME CInv, Triage, NEW t \in Threads, TakeSeq(t)
  PROVE  Triage'
<1> DEFINE next == [at |-> "insert", seq |-> Len(ledger) + 1,
                    entry |-> job[t].entry, then |-> job[t].then]
<1>1. /\ job[t].at = "take" /\ Becomes(t, next) /\ ledger' = ledger
      /\ failed' = failed /\ candidates' = candidates
  BY DEF TakeSeq, At, Goes, desk
<1>2. next.at = "insert" /\ next.entry = job[t].entry /\ next.then = job[t].then
  OBVIOUS
<1> HIDE DEF next
<1>3. Triaging(job[t])
  BY DEF Triage
<1>4. Triaging(next) /\ Unflagged(next) = Unflagged(job[t])
  BY <1>1, <1>2, <1>3 DEF Triaging, Unflagged, Inserting
<1> QED
  BY <1>1, <1>4, TriageKeeps

LEMMA MarksTriage ==
  ASSUME CInv, Triage, NEW t \in Threads, ReadItem(t) \/ WriteItem(t) \/ Marked(t)
  PROVE  Triage'
<1>1. /\ ledger' = ledger /\ failed' = failed /\ candidates' = candidates
      /\ job[t].at \in {"mark", "put"}
  BY DEF ReadItem, WriteItem, Marked, Goes, At, desk
<1>2. job[t].then.at \in {"read", "flag", "return", "show", "idle"}
  BY <1>1, Known DEF JobOK, FollowsMarks
<1>3. Unflagged(job[t]) = IF job[t].then.at = "flag" THEN {RunId(job[t].then.sim)} ELSE {}
  BY <1>1 DEF Unflagged, Loose, Inserting
<1>4. ASSUME NEW next, Becomes(t, next), next.at \in {"mark", "put"}, next.then = job[t].then
      PROVE  Triage'
  <2>1. Triaging(next) /\ Unflagged(next) = Unflagged(job[t])
    BY <1>3, <1>4 DEF Triaging, Unflagged, Loose, Inserting
  <2> QED
    BY <1>1, <1>4, <2>1, TriageKeeps
<1>5. CASE ReadItem(t)
  <2>1. PICK id \in job[t].ids :
          Becomes(t, [at |-> "put", id |-> id, item |-> items[id], status |-> job[t].status,
                      ids |-> job[t].ids \ {id}, then |-> job[t].then])
    BY <1>5 DEF ReadItem, Goes
  <2> QED
    BY <1>4, <2>1
<1>6. CASE WriteItem(t)
  BY <1>4, <1>6 DEF WriteItem
<1>7. CASE Marked(t)
  <2> DEFINE next == job[t].then
  <2>1. Becomes(t, next)
    BY <1>7 DEF Marked, Goes
  <2>2. Triaging(next) /\ Unflagged(next) = Unflagged(job[t])
    BY <1>2, <1>3 DEF Triaging, Unflagged, Loose, Inserting
  <2> QED
    BY <1>1, <2>1, <2>2, TriageKeeps
<1> QED
  BY <1>5, <1>6, <1>7

LEMMA RouteTriage ==
  ASSUME CInv, Triage, NEW t \in Threads, Route(t)
  PROVE  Triage'
<1>1. /\ job[t].at = "route" /\ ledger' = ledger /\ failed' = failed
      /\ candidates' = candidates
  BY DEF Route, At, Goes, desk
<1>2. \E entry, then : /\ Becomes(t, [at |-> "take", entry |-> entry, then |-> then])
                       /\ entry.kind = "run" /\ then.at \in {"standing", "enqueue"}
  <2> DEFINE sim        == job[t].sim
             evaluation == SyntheticEvaluation(sim)
             tier       == EffectiveTier(Seen(t), sim.ct)
             sends      == SendsLast24h(ledger, sim.ct, Ts(sim))
             routed     == Decide(evaluation, tier, sends)
             fact       == RunFact(Seen(t), evaluation, Ts(sim))
             entry      == [fact EXCEPT !.decision = routed.decision,
                                        !.outcome = routed.outcome]
             then       == [at |-> IF entry.outcome = "quality_pass"
                                     THEN "standing" ELSE "enqueue",
                            sim |-> sim,
                            item |-> QueueItemFromDecision(evaluation, routed.decision,
                                       Violations(evaluation, tier, sends), Ts(sim),
                                       SendWindow)]
  <2>1. Becomes(t, [at |-> "take", entry |-> entry, then |-> then])
    BY DEF Route, Goes
  <2>2. entry.kind = "run"
    BY DEF RunFact
  <2>3. then.at \in {"standing", "enqueue"}
    OBVIOUS
  <2> HIDE DEF entry, then
  <2> QED
    BY <2>1, <2>2, <2>3
<1>3. PICK entry, then : /\ Becomes(t, [at |-> "take", entry |-> entry, then |-> then])
                         /\ entry.kind = "run" /\ then.at \in {"standing", "enqueue"}
  BY <1>2
<1> DEFINE next == [at |-> "take", entry |-> entry, then |-> then]
<1>4. next.at = "take" /\ next.entry = entry /\ next.then = then /\ Becomes(t, next)
  BY <1>3
<1> HIDE DEF next
<1>5. Triaging(next) /\ Unflagged(next) = {}
  BY <1>3, <1>4 DEF Triaging, Unflagged, Loose, Inserting
<1>6. Unflagged(job[t]) = {}
  BY <1>1, CarriesNothing DEF Simulating
<1> QED
  BY <1>1, <1>4, <1>5, <1>6, TriageKeeps

\* The steps of a job that neither carries anything to flag nor takes it up.
LEMMA IdleTriage ==
  ASSUME CInv, Triage, NEW t \in Threads,
         \/ ReadState(t) \/ ReadStanding(t) \/ Weigh(t) \/ Enqueue(t) \/ Return(t)
         \/ Show(t) \/ GetQueue(t) \/ PostApprove(t)
         \/ \E ct, n, scenario : PostSimulate(t, ct, n, scenario)
  PROVE  Triage'
<1>1. /\ job[t].at \in {"read", "standing", "weigh", "enqueue", "return", "show", "idle"}
      /\ ledger' = ledger /\ failed' = failed /\ candidates' = candidates
  BY DEF ReadState, ReadStanding, Weigh, Enqueue, Return, Show, GetQueue, PostApprove,
         PostSimulate, Starts, Goes, At, desk
<1>2. Unflagged(job[t]) = {}
  BY <1>1, CarriesNothing DEF Simulating
<1>3. ASSUME NEW next, Becomes(t, next), Triaging(next), Unflagged(next) = {}
      PROVE  Triage'
  BY <1>1, <1>2, <1>3, TriageKeeps
<1>4. ASSUME NEW next, Becomes(t, next),
             next.at \in {"read", "route", "weigh", "enqueue", "outcome", "idle"}
      PROVE  Triage'
  BY <1>3, <1>4, CarriesNothing DEF Simulating
<1>5. Queueing(t).at = "enqueue" /\ Idle.at = "idle" /\ \A sim : Read(sim).at = "read"
  BY DEF Queueing, Idle, Read
<1>6. CASE ReadState(t)
  BY <1>4, <1>6 DEF ReadState, Goes
<1>7. CASE ReadStanding(t)
  <2> DEFINE weigh == [at |-> "weigh", sim |-> job[t].sim, item |-> job[t].item,
                       seen |-> Len(ledger)]
  <2>1. Becomes(t, weigh) \/ Becomes(t, Queueing(t))
    BY <1>7 DEF ReadStanding, Goes
  <2>2. weigh.at = "weigh"
    OBVIOUS
  <2> HIDE DEF weigh
  <2> QED
    BY <1>4, <1>5, <2>1, <2>2
<1>8. CASE Weigh(t)
  <2> DEFINE promotion == Promotion(Seen(t), job[t].sim.ct, Ts(job[t].sim))
             next      == [at |-> "take", entry |-> promotion, then |-> Queueing(t)]
  <2>1. Becomes(t, next) \/ Becomes(t, Queueing(t))
    BY <1>8 DEF Weigh, Goes
  <2>2. promotion.kind = "transition"
    BY DEF Promotion, Transition
  <2>3. next.at = "take" /\ next.entry = promotion /\ next.then = Queueing(t)
    OBVIOUS
  <2> HIDE DEF promotion, next
  <2>4. Triaging(next) /\ Unflagged(next) = {}
    BY <1>5, <2>2, <2>3 DEF Triaging, Unflagged, Loose, Inserting
  <2> QED
    BY <1>3, <1>4, <1>5, <2>1, <2>4
<1>9. CASE Enqueue(t)
  <2> DEFINE sent == [at |-> "outcome", sim |-> [job[t].sim EXCEPT !.sums.sent = @ + 1]]
  <2>1. Becomes(t, sent) \/ Becomes(t, NextRun(job[t].sim))
    BY <1>9 DEF Enqueue
  <2>2. sent.at = "outcome"
    OBVIOUS
  <2> HIDE DEF sent
  <2> QED
    BY <1>3, <1>4, <2>1, <2>2, NextRunCarriesNothing
<1>10. CASE Return(t) \/ Show(t)
  BY <1>4, <1>5, <1>10 DEF Return, Show
<1>11. ASSUME NEW next, Becomes(t, next), next.at = "mark", next.then.at \in {"show", "idle"}
       PROVE  Triage'
  BY <1>3, <1>11, CarriesNothing
<1>12. CASE GetQueue(t)
  BY <1>11, <1>12 DEF GetQueue, Starts
<1>13. CASE PostApprove(t)
  BY <1>11, <1>13 DEF PostApprove, Starts, Idle
<1>14. CASE \E ct, n, scenario : PostSimulate(t, ct, n, scenario)
  <2>1. \E sim : Becomes(t, Read(sim))
    BY <1>14 DEF PostSimulate
  <2> QED
    BY <1>4, <1>5, <2>1
<1> QED
  BY <1>6, <1>7, <1>8, <1>9, <1>10, <1>12, <1>13, <1>14

\* The outcome of a blind spot is taken up together with its flag.
LEMMA TakeOutcomeTriage ==
  ASSUME CInv, Triage, NEW t \in Threads, TakeOutcome(t)
  PROVE  Triage'
<1> DEFINE sim  == job[t].sim
           last == IF sim.n - 1 >= 1 THEN sim.n - 1 ELSE 1
           report(z) == [campaign_type |-> sim.ct, run_id |-> RunId(sim),
                         rates |-> Simulate("engaged_30d", SyntheticWeakness,
                                            sim.scenario, z, sim.i, last)]
           outcome(z) == OutcomeFact(ledger, report(z), Ts(sim))
           demotion == Demotion(ledger, sim.ct, Ts(sim), "demotion_deliverability")
           demotes(z) == ReportDemotes(ledger, report(z))
           counted(z) == [sim EXCEPT
                            !.sums.breaches = @ + OneIf(outcome(z).breached),
                            !.sums.demotions = @ + OneIf(demotes(z)),
                            !.sums.blind_spots = @ + OneIf(outcome(z).blind_spot)]
           downgrade(z) == [at |-> "downgrade", sim |-> counted(z),
                            flag |-> outcome(z).blind_spot]
           lost(z) == [at |-> "take", entry |-> demotion, then |-> downgrade(z)]
           then(z) == IF demotes(z) THEN lost(z)
                        ELSE Flagging(counted(z), outcome(z).blind_spot)
<1>1. PICK z \in Noise : Goes(t, [at |-> "take", entry |-> outcome(z), then |-> then(z)])
  BY DEF TakeOutcome
<1> DEFINE next == [at |-> "take", entry |-> outcome(z), then |-> then(z)]
<1>2. /\ job[t].at = "outcome" /\ Becomes(t, next) /\ ledger' = ledger
      /\ failed' = failed /\ candidates' = candidates
  BY <1>1 DEF TakeOutcome, At, Goes, desk
<1>3. outcome(z).kind = "outcome" /\ outcome(z).run_id = RunId(sim)
  BY DEF OutcomeFact
<1>4. demotion.kind = "transition"
  BY DEF Demotion, Transition
<1>5. RunId(counted(z)) = RunId(sim)
  <2>1. SimOK(sim)
    BY <1>2, Known DEF JobOK, Simulating
  <2>2. counted(z).ct = sim.ct /\ counted(z).i = sim.i
    BY <2>1 DEF SimOK
  <2> HIDE DEF counted, sim
  <2> QED
    BY <2>2 DEF RunId
<1> HIDE DEF sim, outcome, demotion, demotes, counted
<1>6. downgrade(z).at = "downgrade" /\ downgrade(z).sim = counted(z)
      /\ downgrade(z).flag = outcome(z).blind_spot
  OBVIOUS
<1> HIDE DEF downgrade
<1>7. lost(z).at = "take" /\ lost(z).entry = demotion /\ lost(z).then = downgrade(z)
  OBVIOUS
<1> HIDE DEF lost
<1>8. next.at = "take" /\ next.entry = outcome(z) /\ next.then = then(z)
  OBVIOUS
<1>9. /\ demotes(z) => then(z) = lost(z)
      /\ ~demotes(z) => then(z) = Flagging(counted(z), outcome(z).blind_spot)
  OBVIOUS
<1> HIDE DEF next, then
<1>10. BlindOf(outcome(z)) = IF outcome(z).blind_spot THEN {RunId(counted(z))} ELSE {}
  BY <1>3, <1>5 DEF BlindOf
<1>11. /\ Unflagged(then(z)) = BlindOf(outcome(z))
       /\ then(z).at = "take" => then(z).entry.kind = "transition"
  <2>1. CASE demotes(z)
    <3>1. Unflagged(lost(z)) = Loose(downgrade(z))
      BY <1>4, <1>7 DEF Unflagged, Inserting
    <3>2. Loose(downgrade(z)) = IF outcome(z).blind_spot THEN {RunId(counted(z))} ELSE {}
      BY <1>6 DEF Loose
    <3> QED
      BY <1>4, <1>7, <1>9, <1>10, <2>1, <3>1, <3>2
  <2>2. CASE ~demotes(z)
    BY <1>9, <1>10, <2>2, FlaggingCarries DEF Inserting
  <2> QED
    BY <2>1, <2>2
<1>12. Triaging(next) /\ Unflagged(next) = {}
  BY <1>3, <1>8, <1>11 DEF Triaging, Unflagged, Inserting
<1>13. Unflagged(job[t]) = {}
  BY <1>2, CarriesNothing DEF Simulating
<1> QED
  BY <1>2, <1>12, <1>13, TriageKeeps

LEMMA DowngradeTriage ==
  ASSUME CInv, Triage, NEW t \in Threads, Downgrade(t)
  PROVE  Triage'
<1> DEFINE on   == Flagging(job[t].sim, job[t].flag)
           next == [at |-> "mark", ids |-> InFlight(job[t].sim.ct), status |-> "pending",
                    then |-> on]
<1>1. /\ job[t].at = "downgrade" /\ Becomes(t, next) /\ ledger' = ledger
      /\ failed' = failed /\ candidates' = candidates
  BY DEF Downgrade, At, Goes, desk
<1>2. next.at = "mark" /\ next.then = on
  OBVIOUS
<1>3. /\ job[t].flag => on.at = "flag" /\ on.sim = job[t].sim
      /\ ~job[t].flag => on.at \in {"read", "return"}
  BY FlaggingCarries
<1> HIDE DEF on, next
<1>4. Unflagged(job[t]) = IF job[t].flag THEN {RunId(job[t].sim)} ELSE {}
  BY <1>1 DEF Unflagged, Loose, Inserting
<1>5. Unflagged(next) = IF job[t].flag THEN {RunId(job[t].sim)} ELSE {}
  BY <1>2, <1>3 DEF Unflagged, Loose, Inserting
<1>6. Triaging(next)
  BY <1>2 DEF Triaging, Inserting
<1> QED
  BY <1>1, <1>4, <1>5, <1>6, TriageKeeps

LEMMA FlagTriage ==
  ASSUME CInv, Triage, NEW t \in Threads, Flag(t)
  PROVE  Triage'
<1> DEFINE next == NextRun(job[t].sim)
<1>1. /\ job[t].at = "flag" /\ Becomes(t, next) /\ ledger' = ledger /\ failed' = failed
      /\ candidates' = candidates \cup {RunId(job[t].sim)}
  BY DEF Flag, At, desk
<1>2. Triaging(next) /\ Unflagged(next) = {}
  BY NextRunCarriesNothing
<1> HIDE DEF next
<1>3. Unflagged(job[t]) = {RunId(job[t].sim)}
  BY <1>1 DEF Unflagged, Loose, Inserting
<1>4. BlindIds(ledger') = BlindIds(ledger) \cup {}
  BY <1>1
<1>5. candidates' \cup Unflagged(next) = candidates \cup Unflagged(job[t]) \cup {}
  BY <1>1, <1>2, <1>3
<1> QED
  BY <1>1, <1>2, <1>4, <1>5, TriageMoves

LEMMA InsertTriage ==
  ASSUME CInv, Triage, NEW t \in Threads, Insert(t)
  PROVE  Triage'
<1> DEFINE entry == job[t].entry
           next  == job[t].then
<1>1. /\ job[t].at = "insert" /\ entry \in Entry /\ FollowsInsert(ledger, entry, next)
      /\ candidates' = candidates
  BY Known DEF Insert, At, JobOK, desk
<1>2. Triaging(job[t])
  BY DEF Triage
<1>3. /\ next.at \in {"standing", "enqueue", "read", "flag", "return", "downgrade", "take"}
      /\ next.at = "take" => next.then.at = "downgrade"
  BY <1>1 DEF FollowsInsert
<1>4. Triaging(next)
  BY <1>1, <1>2, <1>3 DEF Triaging, Inserting
<1>5. CASE ledger' = Append(ledger, entry) /\ Becomes(t, next) /\ failed' = failed
  <2>1. BlindIds(ledger') = BlindIds(ledger) \cup BlindOf(entry)
    BY <1>1, <1>5, Known, BlindIdsGrow
  <2>2. Unflagged(next) = Unflagged(job[t]) \cup BlindOf(entry)
    <3>1. CASE entry.kind = "outcome"
      BY <1>1, <1>2, <3>1 DEF Triaging, Unflagged, Inserting
    <3>2. CASE entry.kind # "outcome"
      <4>1. BlindOf(entry) = {}
        BY <3>2 DEF BlindOf
      <4>2. next.at \notin Inserting
        BY <1>1, <1>2, <1>3, <3>2 DEF Triaging, Inserting
      <4>3. Unflagged(job[t]) = Loose(next) /\ Unflagged(next) = Loose(next)
        BY <1>1, <3>2, <4>2 DEF Unflagged, Inserting
      <4> QED
        BY <4>1, <4>3
    <3> QED
      BY <3>1, <3>2
  <2>3. candidates' \cup Unflagged(next) = candidates \cup Unflagged(job[t]) \cup BlindOf(entry)
    BY <1>1, <2>2
  <2> HIDE DEF entry, next
  <2> QED
    BY <1>4, <1>5, <2>1, <2>3, TriageMoves
<1>6. CASE failed' = failed + 1 /\ Becomes(t, Idle) /\ ledger' = ledger
  <2>1. \A u \in Threads : job'[u] = IF u = t THEN Idle ELSE job[u]
    BY <1>6 DEF Becomes, CInv, JobsOK
  <2>2. Triaging(Idle) /\ Unflagged(Idle) = {}
    BY CarriesNothing DEF Idle
  <2>3. \A u \in Threads : Triaging(job'[u])
    BY <2>1, <2>2 DEF Triage
  <2> DEFINE others == UNION {Unflagged(job[u]) : u \in Threads \ {t}}
  <2>4. AllUnflagged = Unflagged(job[t]) \cup others
    BY DEF AllUnflagged
  <2>5. UNION {Unflagged(job'[u]) : u \in Threads} = others
    BY <2>1, <2>2
  <2> HIDE DEF others
  <2>6. PICK lost : Lost(lost)
    BY DEF Triage
  <2>7. PICK more : more = lost \cup Unflagged(job[t])
    OBVIOUS
  <2>8. IsFiniteSet(more) /\ Cardinality(more) <= failed + 1
    <3>1. Unflagged(job[t]) = {} \/ \E id : Unflagged(job[t]) = {id}
      BY DEF Unflagged, Loose
    <3>2. IsFiniteSet(lost) /\ Cardinality(lost) \in Nat /\ Cardinality(lost) <= failed
          /\ failed \in Nat
      BY <2>6, FS_CardinalityType DEF Lost, CInv, ConsoleTypeOK
    <3>3. CASE Unflagged(job[t]) = {}
      <4>1. more = lost
        BY <2>7, <3>3
      <4> QED
        BY <3>2, <4>1
    <3>4. ASSUME NEW id, Unflagged(job[t]) = {id}
          PROVE  IsFiniteSet(more) /\ Cardinality(more) <= failed + 1
      <4>1. more = lost \cup {id}
        BY <2>7, <3>4
      <4>2. /\ IsFiniteSet(more)
            /\ Cardinality(more) = IF id \in lost THEN Cardinality(lost)
                                                  ELSE Cardinality(lost) + 1
        BY <3>2, <4>1, FS_AddElement, Zenon
      <4> QED
        BY <3>2, <4>2
    <3> QED
      BY <3>1, <3>3, <3>4
  <2>9. candidates' \cup (UNION {Unflagged(job'[u]) : u \in Threads}) \cup more
          = BlindIds(ledger')
    BY <1>1, <1>6, <2>4, <2>5, <2>6, <2>7 DEF Lost
  <2>10. Lost(more)'
    BY <1>6, <2>8, <2>9 DEF Lost, AllUnflagged, Unflagged, Loose, BlindIds, RunId
  <2> QED
    BY <2>3, <2>10 DEF Triage, Triaging, Unflagged, Loose, BlindOf, RunId
<1> QED
  BY <1>5, <1>6 DEF Insert, desk

LEMMA TriageStep ==
  ASSUME CInv, Triage, [ConsoleNext]_cvars
  PROVE  Triage'
<1>1. CASE Tick \/ UNCHANGED cvars
  <2>1. job' = job /\ ledger' = ledger /\ candidates' = candidates /\ failed' = failed
    BY <1>1 DEF Tick, cvars, desk
  <2>2. AllUnflagged' = AllUnflagged
    BY <2>1 DEF AllUnflagged, Unflagged, Loose, RunId
  <2>3. BlindIds(ledger)' = BlindIds(ledger)
    BY <2>1 DEF BlindIds
  <2>4. \A t \in Threads : Triaging(job[t])'
    BY <2>1 DEF Triage, Triaging, Unflagged, Loose, BlindOf, RunId
  <2>5. ASSUME NEW lost, Lost(lost) PROVE Lost(lost)'
    BY <2>1, <2>2, <2>3, <2>5 DEF Lost
  <2> QED
    BY <2>4, <2>5 DEF Triage
<1>2. ASSUME NEW t \in Threads, JobStep(t) PROVE Triage'
  BY <1>2, TakeSeqTriage, InsertTriage, MarksTriage, RouteTriage, IdleTriage,
     TakeOutcomeTriage, DowngradeTriage, FlagTriage, Zenon DEF JobStep
<1>3. ASSUME NEW t \in Threads,
             \/ GetQueue(t) \/ PostApprove(t)
             \/ \E ct, n, scenario : PostSimulate(t, ct, n, scenario)
      PROVE  Triage'
  BY <1>3, IdleTriage
<1> QED
  BY <1>1, <1>2, <1>3, Zenon DEF ConsoleNext

LEMMA StartsTriaged == ConsoleInit => Triage
<1> SUFFICES ASSUME ConsoleInit PROVE Triage
  OBVIOUS
<1>1. /\ ledger \in Seq(Entry) /\ Len(ledger) = 2
      /\ ledger[1].kind = "run" /\ ledger[2].kind = "transition"
      /\ \A t \in Threads : job[t] = Idle
  BY StartsWithOneRun
<1>2. Triaging(Idle) /\ Unflagged(Idle) = {}
  BY CarriesNothing DEF Idle
<1>3. AllUnflagged = {}
  BY <1>1, <1>2 DEF AllUnflagged
<1>4. DOMAIN ledger = {1, 2}
  BY <1>1
<1>5. BlindIds(ledger) = {}
  BY <1>1, <1>4 DEF BlindIds
<1>6. candidates = {} /\ failed = 0
  BY DEF ConsoleInit
<1>7. Lost({})
  BY <1>3, <1>5, <1>6, FS_EmptySet DEF Lost
<1> QED
  BY <1>1, <1>2, <1>7 DEF Triage

LEMMA BooksAgree == Balanced /\ Triage /\ CInv => ReportedIsRecorded
<1> SUFFICES ASSUME Balanced, Triage, CInv, Quiet
             PROVE  ReportedIsRecorded
  BY DEF ReportedIsRecorded
<1>1. \A t \in Threads : job[t].at = "idle"
  BY DEF Quiet, At
<1>2. /\ candidates \subseteq BlindIds(ledger)
      /\ Cardinality(BlindIds(ledger) \ candidates) <= failed
  <2>1. \A t \in Threads : Unflagged(job[t]) = {}
    BY <1>1, CarriesNothing
  <2>2. AllUnflagged = {}
    BY <2>1 DEF AllUnflagged
  <2>3. PICK lost : Lost(lost)
    BY DEF Triage
  <2>4. /\ IsFiniteSet(lost) /\ Cardinality(lost) <= failed
        /\ candidates \cup lost = BlindIds(ledger)
    BY <2>2, <2>3 DEF Lost
  <2> DEFINE missed == BlindIds(ledger) \ candidates
  <2>5. missed \subseteq lost
    BY <2>4
  <2> HIDE DEF missed
  <2>6. Cardinality(missed) <= Cardinality(lost) /\ Cardinality(missed) \in Nat
        /\ Cardinality(lost) \in Nat
    BY <2>4, <2>5, FS_Subset, FS_CardinalityType
  <2>7. Cardinality(missed) <= failed
    BY <2>4, <2>6 DEF CInv, ConsoleTypeOK
  <2> QED
    BY <2>4, <2>7 DEF missed
<1>3. ASSUME NEW x \in TotalNames
      PROVE  /\ reported[x] <= Cardinality(Recorded(ledger, x))
             /\ failed = 0 => reported[x] = Cardinality(Recorded(ledger, x))
  <2>1. \A t \in Threads : Owed(job[t], x) = 0
    BY <1>1 DEF Owed, Due, Inserting, Holding, Simulating
  <2>2. \A t \in Threads : Owing(x)[t] = 0
    BY <2>1 DEF Owing
  <2>3. HeapOf(Owing(x)) = {}
    BY <2>2 DEF HeapOf
  <2>4. reported[x] \in Nat
    BY DEF CInv, ConsoleTypeOK, Totals, TotalNames
  <2>5. Announced(x) = reported[x]
    BY <2>3, <2>4, FS_EmptySet DEF Announced
  <2> QED
    BY <2>5 DEF Balanced, BalancedIn
<1>4. DOMAIN reported = TotalNames
  BY DEF CInv, ConsoleTypeOK, Totals, TotalNames
<1> QED
  BY <1>2, <1>3, <1>4 DEF ReportedIsRecorded

\* What the calls answered is what the ledger holds (service.py:306-313): with
\* any number of threads, once all calls are over, no summary announced what is
\* not on record and every run flagged for triage is a blind spot on record.  A
\* call cut off by a taken number (ledger.py:159) leaves at most one blind spot
\* unflagged, and where none was cut off the totals agree.
THEOREM ReportsAreRecorded == ConsoleSpec => []ReportedIsRecorded
<1>1. ConsoleInit => CInv /\ Balanced /\ Triage
  BY ConsoleInitCInv, StartsBalanced, StartsTriaged
<1>2. CInv /\ Balanced /\ Triage /\ [ConsoleNext]_cvars
        => (CInv /\ Balanced /\ Triage)'
  BY ConsoleStep, BalanceStep, TriageStep
<1>3. CInv /\ Balanced /\ Triage => ReportedIsRecorded
  BY BooksAgree
<1> QED
  BY <1>1, <1>2, <1>3, PTL DEF ConsoleSpec

-----------------------------------------------------------------------------
(***************************************************************************)
(* Approvals.  The calls that write a status over a row pick their rows    *)
(* first, and no such call picks an approved one: what may still take an   *)
(* approval back picked the item before it was approved, or is a run that  *)
(* comes back under its id.                                                *)
(***************************************************************************)
\* A step of one job that neither replaces the row nor comes to contest it.
LEMMA ApprovalKept ==
  ASSUME CInv, NEW t \in Threads, NEW next, Becomes(t, next),
         NEW id \in DOMAIN items, Uncontested(id),
         id \in ByStatus("approved")', ~Contests(next, id)
  PROVE  Uncontested(id)'
<1>1. \A u \in Threads : job'[u] = IF u = t THEN next ELSE job[u]
  BY DEF Becomes, CInv, JobsOK
<1>2. \A u \in Threads : ~Contests(job'[u], id)
  BY <1>1 DEF Uncontested
<1> QED
  BY <1>2 DEF Uncontested, Contests

\* A job that is not on its way to write statuses contests nothing.
LEMMA OnlyMarkingContests ==
  ASSUME NEW j, j.at \notin {"mark", "put"}, NEW id
  PROVE  ~Contests(j, id)
  BY DEF Contests

\* The steps that leave the queue alone, and what they go on to.
LEMMA QuietApproval ==
  ASSUME CInv, NEW t \in Threads, NEW next, Becomes(t, next), items' = items,
         NEW id \in DOMAIN items, Uncontested(id), ~Contests(next, id)
  PROVE  Uncontested(id)'
<1>1. id \in ByStatus("approved")'
  BY DEF Uncontested, ByStatus
<1> QED
  BY <1>1, ApprovalKept

LEMMA QuietStepApproval ==
  ASSUME CInv, NEW t \in Threads, NEW next, Becomes(t, next), items' = items,
         next.at \notin {"mark", "put"}, NEW id \in DOMAIN items, Uncontested(id)
  PROVE  Uncontested(id)'
  BY OnlyMarkingContests, QuietApproval

LEMMA InsertApproval ==
  ASSUME CInv, NEW t \in Threads, TakeSeq(t) \/ Insert(t),
         NEW id \in DOMAIN items, Uncontested(id)
  PROVE  Uncontested(id)'
<1>1. CASE TakeSeq(t)
  <2> DEFINE next == [at |-> "insert", seq |-> Len(ledger) + 1,
                      entry |-> job[t].entry, then |-> job[t].then]
  <2>1. Becomes(t, next) /\ items' = items /\ next.at = "insert"
    BY <1>1 DEF TakeSeq, Goes
  <2> HIDE DEF next
  <2> QED
    BY <2>1, QuietStepApproval
<1>2. CASE Insert(t)
  <2>1. FollowsInsert(ledger, job[t].entry, job[t].then)
    BY <1>2, Known DEF Insert, At, JobOK
  <2>2. job[t].then.at \notin {"mark", "put"} /\ Idle.at \notin {"mark", "put"}
    BY <2>1 DEF FollowsInsert, Idle
  <2>3. items' = items /\ (Becomes(t, job[t].then) \/ Becomes(t, Idle))
    BY <1>2 DEF Insert
  <2> QED
    BY <2>2, <2>3, QuietStepApproval
<1> QED
  BY <1>1, <1>2

\* The loop over the rows writes no status but its own, and over no row but
\* those it picked.
LEMMA MarksApproval ==
  ASSUME CInv, NEW t \in Threads, ReadItem(t) \/ WriteItem(t) \/ Marked(t),
         NEW id \in DOMAIN items, Uncontested(id)
  PROVE  Uncontested(id)'
<1>1. ~Contests(job[t], id) /\ JobOK(ledger, DOMAIN items, job[t])
  BY Known DEF Uncontested
<1>2. CASE ReadItem(t)
  <2>1. PICK row \in job[t].ids :
          Goes(t, [at |-> "put", id |-> row, item |-> items[row],
                   status |-> job[t].status, ids |-> job[t].ids \ {row},
                   then |-> job[t].then])
    BY <1>2 DEF ReadItem
  <2> DEFINE next == [at |-> "put", id |-> row, item |-> items[row],
                      status |-> job[t].status, ids |-> job[t].ids \ {row},
                      then |-> job[t].then]
  <2>2. /\ Becomes(t, next) /\ items' = items
        /\ next.id = row /\ next.status = job[t].status /\ next.ids = job[t].ids \ {row}
    BY <2>1 DEF Goes
  <2> HIDE DEF next
  <2>3. ~Contests(next, id)
    BY <1>1, <1>2, <2>2 DEF Contests, ReadItem, At
  <2> QED
    BY <2>2, <2>3, QuietApproval
<1>3. CASE WriteItem(t)
  <2> DEFINE next    == [at |-> "mark", status |-> job[t].status, ids |-> job[t].ids,
                         then |-> job[t].then]
             written == [job[t].item EXCEPT !.status = job[t].status]
  <2>1. /\ job[t].at = "put" /\ Add(job[t].id, written) /\ Becomes(t, next)
        /\ next.at = "mark" /\ next.status = job[t].status /\ next.ids = job[t].ids
    BY <1>3 DEF WriteItem, At
  <2>2. written.status = job[t].status
    BY <1>1, <2>1 DEF JobOK, QueueItem
  <2> HIDE DEF next, written
  <2>3. ~Contests(next, id)
    BY <1>1, <2>1 DEF Contests
  <2>4. id = job[t].id => job[t].status = "approved"
    BY <1>1, <2>1 DEF Contests
  <2>5. id \in ByStatus("approved")'
    BY <2>1, <2>2, <2>4 DEF Add, ByStatus, Uncontested
  <2> QED
    BY <2>1, <2>3, <2>5, ApprovalKept
<1>4. CASE Marked(t)
  <2>1. Becomes(t, job[t].then) /\ items' = items
    BY <1>4 DEF Marked, Goes
  <2>2. job[t].then.at \notin {"mark", "put"}
    BY <1>1, <1>4 DEF Marked, At, JobOK, FollowsMarks
  <2> QED
    BY <2>1, <2>2, QuietStepApproval
<1> QED
  BY <1>2, <1>3, <1>4

\* The steps of a simulation that neither queue nor downgrade anything, and the
\* last one of a refresh.
LEMMA SimulationApproval ==
  ASSUME CInv, NEW t \in Threads,
         \/ ReadState(t) \/ Route(t) \/ ReadStanding(t) \/ Weigh(t) \/ TakeOutcome(t)
         \/ Flag(t) \/ Return(t) \/ Show(t)
         \/ \E ct, n, scenario : PostSimulate(t, ct, n, scenario),
         NEW id \in DOMAIN items, Uncontested(id)
  PROVE  Uncontested(id)'
<1>1. items' = items
  BY DEF ReadState, Route, ReadStanding, Weigh, TakeOutcome, Flag, Return, Show,
         PostSimulate, Goes
<1>2. \E next : Becomes(t, next) /\ next.at \notin {"mark", "put"}
  <2>1. CASE ReadState(t)
    BY <2>1 DEF ReadState, Goes
  <2>2. CASE Route(t)
    <3>1. \E entry, then : Becomes(t, [at |-> "take", entry |-> entry, then |-> then])
      BY <2>2 DEF Route, Goes
    <3> QED
      BY <3>1
  <2>3. CASE ReadStanding(t) \/ Weigh(t)
    <3>1. Queueing(t).at = "enqueue"
      BY DEF Queueing
    <3>2. \/ Becomes(t, Queueing(t))
          \/ \E sim, item, seen : Becomes(t, [at |-> "weigh", sim |-> sim, item |-> item,
                                              seen |-> seen])
          \/ \E entry, then : Becomes(t, [at |-> "take", entry |-> entry, then |-> then])
      BY <2>3 DEF ReadStanding, Weigh, Goes
    <3>3. CASE Becomes(t, Queueing(t))
      BY <3>1, <3>3
    <3>4. CASE \E sim, item, seen : Becomes(t, [at |-> "weigh", sim |-> sim, item |-> item,
                                                seen |-> seen])
      BY <3>4
    <3>5. CASE \E entry, then : Becomes(t, [at |-> "take", entry |-> entry, then |-> then])
      BY <3>5
    <3> QED
      BY <3>2, <3>3, <3>4, <3>5
  <2>4. CASE TakeOutcome(t)
    <3>1. \E entry, then : Becomes(t, [at |-> "take", entry |-> entry, then |-> then])
      BY <2>4 DEF TakeOutcome, Goes
    <3> QED
      BY <3>1
  <2>5. CASE Flag(t)
    <3>1. NextRun(job[t].sim).at \in {"read", "return"}
      BY DEF NextRun, Read
    <3> QED
      BY <2>5, <3>1 DEF Flag
  <2>6. CASE Return(t) \/ Show(t)
    BY <2>6 DEF Return, Show, Idle
  <2>7. CASE \E ct, n, scenario : PostSimulate(t, ct, n, scenario)
    <3>1. \E sim : Becomes(t, Read(sim))
      BY <2>7 DEF PostSimulate
    <3> QED
      BY <3>1 DEF Read
  <2> QED
    BY <2>1, <2>2, <2>3, <2>4, <2>5, <2>6, <2>7
<1> QED
  BY <1>1, <1>2, QuietStepApproval

\* The calls that pick rows pick none that is approved, unless to approve it.
LEMMA PickingApproval ==
  ASSUME CInv, NEW t \in Threads, Downgrade(t) \/ GetQueue(t) \/ PostApprove(t),
         NEW id \in DOMAIN items, Uncontested(id)
  PROVE  Uncontested(id)'
<1>1. items[id].status = "approved"
  BY DEF Uncontested, ByStatus
<1>2. ASSUME NEW picked, NEW status, NEW then,
             Becomes(t, [at |-> "mark", ids |-> picked, status |-> status, then |-> then]),
             items' = items, id \in picked => status = "approved"
      PROVE  Uncontested(id)'
  <2> DEFINE next == [at |-> "mark", ids |-> picked, status |-> status, then |-> then]
  <2>1. next.at = "mark" /\ next.ids = picked /\ next.status = status /\ Becomes(t, next)
    BY <1>2
  <2> HIDE DEF next
  <2>2. ~Contests(next, id)
    BY <1>2, <2>1 DEF Contests
  <2> QED
    BY <1>2, <2>1, <2>2, QuietApproval
<1>3. CASE Downgrade(t)
  <2>1. id \notin InFlight(job[t].sim.ct)
    BY <1>1 DEF InFlight, ByStatus
  <2>2. items' = items
    BY <1>3 DEF Downgrade, Goes
  <2> QED
    BY <1>2, <1>3, <2>1, <2>2 DEF Downgrade, Goes
<1>4. CASE GetQueue(t)
  <2>1. id \notin NewlyExpired(clock)
    BY <1>1 DEF NewlyExpired, ByStatus
  <2>2. items' = items
    BY <1>4 DEF GetQueue, Starts
  <2> QED
    BY <1>2, <1>4, <2>1, <2>2 DEF GetQueue, Starts
<1>5. CASE PostApprove(t)
  BY <1>2, <1>5 DEF PostApprove, Starts
<1> QED
  BY <1>3, <1>4, <1>5

\* A run is queued over an approval only under the same id.
LEMMA EnqueueApproval ==
  ASSUME CInv, NEW t \in Threads, Enqueue(t),
         NEW id \in DOMAIN items, Uncontested(id)
  PROVE  Uncontested(id)' \/ RunsAgain(t, id)
<1> DEFINE sim  == job[t].sim
           sent == [at |-> "outcome", sim |-> [sim EXCEPT !.sums.sent = @ + 1]]
           next == IF job[t].item.status = "in_flight" THEN sent ELSE NextRun(sim)
<1>1. job[t].at = "enqueue" /\ Add(RunId(sim), job[t].item) /\ Becomes(t, next)
  BY DEF Enqueue, At
<1>2. next.at \in {"outcome", "read", "return"}
  BY DEF NextRun, Read
<1>3. job'[t] = next
  BY <1>1 DEF Becomes, CInv, JobsOK
<1> HIDE DEF next
<1>4. CASE RunId(sim) = id
  BY <1>1, <1>2, <1>3, <1>4 DEF RunsAgain, At
<1>5. CASE RunId(sim) # id
  <2> HIDE DEF sim
  <2>1. id \in ByStatus("approved")'
    BY <1>1, <1>5 DEF Add, ByStatus, Uncontested
  <2>2. ~Contests(next, id)
    BY <1>2, OnlyMarkingContests
  <2> QED
    BY <1>1, <2>1, <2>2, ApprovalKept
<1> QED
  BY <1>4, <1>5

ApprovalKeeping ==
  \A id \in DOMAIN items :
    Uncontested(id) => Uncontested(id)' \/ \E t \in Threads : RunsAgain(t, id)

LEMMA ApprovalStep ==
  ASSUME CInv, [ConsoleNext]_cvars
  PROVE  [ApprovalKeeping]_cvars
<1> SUFFICES ASSUME NEW id \in DOMAIN items, Uncontested(id)
             PROVE  Uncontested(id)' \/ \E t \in Threads : RunsAgain(t, id)
  BY DEF ApprovalKeeping
<1>1. CASE Tick \/ UNCHANGED cvars
  <2>1. items' = items /\ job' = job
    BY <1>1 DEF Tick, cvars
  <2> QED
    BY <2>1 DEF Uncontested, Contests, ByStatus
<1>2. ASSUME NEW t \in Threads, JobStep(t)
      PROVE  Uncontested(id)' \/ RunsAgain(t, id)
  BY <1>2, InsertApproval, MarksApproval, SimulationApproval, PickingApproval,
     EnqueueApproval, Zenon DEF JobStep
<1>3. ASSUME NEW t \in Threads, GetQueue(t) \/ PostApprove(t) PROVE Uncontested(id)'
  BY <1>3, PickingApproval
<1>4. ASSUME NEW t \in Threads, NEW ct, NEW n, NEW scenario,
             PostSimulate(t, ct, n, scenario)
      PROVE  Uncontested(id)'
  BY <1>4, SimulationApproval
<1> QED
  BY <1>1, <1>2, <1>3, <1>4 DEF ConsoleNext

\* However calls interleave, a downgrade or a refresh takes back only an
\* approval that was given while it already held the item (store.py:131-152);
\* an approval that no such call contests lasts until a run comes back under
\* its id (store.py:75-89).
THEOREM UncontestedApprovalsStand == ConsoleSpec => UncontestedApprovalStands
<1>1. CInv /\ [ConsoleNext]_cvars => [ApprovalKeeping]_cvars
  BY ApprovalStep
<1> QED
  BY <1>1, ConsoleSound, PTL DEF ConsoleSpec, UncontestedApprovalStands, ApprovalKeeping

=============================================================================
