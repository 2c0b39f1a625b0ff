------------------------------- MODULE Service -------------------------------
(***************************************************************************)
(* The application service (service.py) over its stores: the ledger, the   *)
(* review queue, the run traces and the directory of flagged candidates.   *)
(* A call commits to them one write after the other with no transaction    *)
(* around them.  Here a call first plans its commits, and each commit is   *)
(* then a step of its own; the process may die between any two of them,    *)
(* and nothing resumes the call after the restart.                         *)
(*                                                                         *)
(* One call runs at a time, so what a call reads while it plans is what it *)
(* would read at the commit.  Run ids are fresh, as the orchestrator's     *)
(* uuids are.                                                              *)
(*                                                                         *)
(* The console's operator is part of the model: the batch lane on the      *)
(* screen is what the last refresh returned, and approve-all sends those   *)
(* ids however old they are.                                               *)
(***************************************************************************)
EXTENDS Stores

CONSTANTS
  MaxClock,      \* bound: the clock stops here
  MaxCrashes     \* bound: how many calls may be cut off by a crash

ASSUME ServiceAssumption ==
  /\ MaxClock \in Nat
  /\ MaxCrashes \in Nat
  /\ 0 .. MaxClock \subseteq Times

VARIABLES
  traces,        \* run id -> the stored trace of the run
  screen,        \* the ids of the batch lane the operator is looking at
  clock,         \* the process's wall clock
  call,          \* the commits the call in progress still has to make
  crashes        \* how many calls a crash has cut off

stores == <<ledger, items, traces, candidates>>
svars == <<stores, ceiling, screen, clock, call, crashes>>

Trace == [evaluation : Evaluations, decision : Decision, blocked : SUBSET ConstraintCode]

Commit ==
  [do : {"append"}, entry : Entry]
    \cup [do : {"enqueue"}, id : RunIds, item : QueueItem]
    \cup [do : {"downgrade"}, ct : CampaignTypes]
    \cup [do : {"mark"}, ids : SUBSET RunIds, status : {"pending", "approved", "expired"}]
    \cup [do : {"trace"}, id : RunIds, trace : Trace]
    \cup [do : {"flag"}, id : RunIds]
    \cup [do : {"show"}, ids : SUBSET RunIds]

ServiceTypeOK ==
  /\ TypeOK
  /\ QueueTypeOK
  /\ DOMAIN traces \subseteq RunIds
  /\ \A id \in DOMAIN traces : traces[id] \in Trace
  /\ candidates \subseteq RunIds
  /\ screen \subseteq RunIds
  /\ clock \in 0 .. MaxClock
  /\ call \in Seq(Commit)
  /\ crashes \in 0 .. MaxCrashes

ServiceInit ==
  /\ Init
  /\ QueueInit
  /\ traces = [id \in {} |-> 0]
  /\ candidates = {}
  /\ screen = {}
  /\ clock = 0
  /\ call = <<>>
  /\ crashes = 0

-----------------------------------------------------------------------------
(***************************************************************************)
(* Plans.                                                                  *)
(***************************************************************************)
AppendAll(entries) ==
  [i \in DOMAIN entries |-> [do |-> "append", entry |-> entries[i]]]

\* The transition process_run decides on, none or one.
RunTransition(log, evaluation, now) ==
  LET ct     == evaluation.campaign_type
      run    == RunFact(log, evaluation, now)
      logged == Append(log, run)
  IN  IF RunDemotes(log, evaluation)
        THEN <<Demotion(log, ct, now, "demotion_critical_presend")>>
      ELSE IF RunPromotes(logged, run)
        THEN <<Promotion(logged, ct, now)>>
      ELSE <<>>

\* Fault: a type with no tier left to lose is demoted again.
OutcomeTransitionFault(log, report, now) ==
  IF Breached(report)
    THEN <<Demotion(log, report.campaign_type, now, "demotion_deliverability")>>
    ELSE <<>>

OutcomeTransition(log, report, now) ==
  IF ReportDemotes(log, report)
    THEN <<Demotion(log, report.campaign_type, now, "demotion_deliverability")>>
    ELSE <<>>

\* Fault: what is in flight stays in flight.
DowngradeIfFault(demoted, ct) == <<>>

\* On a demotion what is in flight drops to review.
DowngradeIf(demoted, ct) ==
  IF demoted THEN <<[do |-> "downgrade", ct |-> ct]>> ELSE <<>>

\* A blind spot is flagged for triage.
FlagIf(outcome) ==
  IF outcome.blind_spot
    THEN <<[do |-> "flag", id |-> outcome.run_id]>> ELSE <<>>

RunItem(evaluation) ==
  LET ct == evaluation.campaign_type
  IN  QueueItemFromDecision(evaluation,
        RunFact(ledger, evaluation, clock).decision,
        Violations(evaluation, EffectiveTier(ledger, ct),
                   SendsLast24h(ledger, ct, clock)),
        clock, SendWindow)

\* Fault: the trace tells the quality verdict, not the routing decision.
RunTraceFault(evaluation) ==
  [evaluation |-> evaluation,
   decision   |-> IF Passed(evaluation) THEN "auto_send" ELSE "human_review",
   blocked    |-> RunItem(evaluation).constraint_codes]

RunTrace(evaluation) ==
  [evaluation |-> evaluation,
   decision   |-> RunFact(ledger, evaluation, clock).decision,
   blocked    |-> RunItem(evaluation).constraint_codes]

\* A call appends to the ledger before it writes anything else.
Begin(entries, rest) ==
  /\ call = <<>>
  /\ call' = AppendAll(entries) \o rest
  /\ UNCHANGED <<stores, ceiling, screen, clock, crashes>>

-----------------------------------------------------------------------------
(***************************************************************************)
(* Calls.                                                                  *)
(***************************************************************************)
RecordRun(evaluation) ==
  LET id == evaluation.run_id
  IN  /\ id \notin RecordedIds
      /\ Len(ledger) < MaxEntries
      /\ Begin(<<RunFact(ledger, evaluation, clock)>>
                 \o RunTransition(ledger, evaluation, clock),
               <<[do |-> "enqueue", id |-> id, item |-> RunItem(evaluation)]>>
                 \o DowngradeIf(RunDemotes(ledger, evaluation), evaluation.campaign_type)
                 \o <<[do |-> "trace", id |-> id, trace |-> RunTrace(evaluation)]>>)

\* Only a sent run has an outcome.
ProcessOutcome(report) ==
  LET outcome == OutcomeFact(ledger, report, clock)
  IN  /\ \E i \in DOMAIN ledger :
           /\ IsAutoSend(ledger[i], report.campaign_type)
           /\ ledger[i].run_id = report.run_id
      /\ Len(ledger) < MaxEntries
      /\ Begin(<<outcome>> \o OutcomeTransition(ledger, report, clock),
               DowngradeIf(ReportDemotes(ledger, report), report.campaign_type)
                 \o FlagIf(outcome))

Challenge(ct, score) ==
  /\ Len(ledger) < MaxEntries
  /\ StandingOf(ledger, ct) = "probation"
  /\ Begin(<<ChallengeVerdict(ledger, ct, score, clock)>>, <<>>)

\* GET /api/queue: the view is computed, what it found expired is marked, and
\* the view reaches the screen.
RefreshQueue ==
  Begin(<<>>, <<[do |-> "mark", ids |-> NewlyExpired(clock), status |-> "expired"],
                [do |-> "show", ids |-> LaneAt("batch", clock)]>>)

\* The approve-all button, with the ids of the last refresh.
ApproveAll ==
  /\ screen # {}
  /\ Begin(<<>>, <<[do |-> "mark", ids |-> screen, status |-> "approved"]>>)

-----------------------------------------------------------------------------
(***************************************************************************)
(* Commits.  A commit done is dropped from the plan.                       *)
(***************************************************************************)
Committing(kind) == call # <<>> /\ Head(call).do = kind

Done == call' = Tail(call) /\ UNCHANGED <<ceiling, screen, clock, crashes>>

AppendEntry ==
  /\ Committing("append")
  /\ ledger' = Append(ledger, Head(call).entry)
  /\ Done
  /\ UNCHANGED <<items, traces, candidates>>

Enqueue ==
  /\ Committing("enqueue")
  /\ Add(Head(call).id, Head(call).item)
  /\ Done
  /\ UNCHANGED <<ledger, traces, candidates>>

\* Fault: what was sent before the type's last demotion but this is taken to
\* have been downgraded then.
DowngradeInflightFault ==
  /\ Committing("downgrade")
  /\ LET ct    == Head(call).ct
         Since(id) == \A i, j \in DOMAIN ledger :
                        IsAutoSend(ledger[i], ct) /\ ledger[i].run_id = id
                          /\ i < j /\ j < Len(ledger) /\ IsTransition(ledger[j], ct)
                          => ledger[j].to_tier # ASSIST
     IN  call' = <<[do |-> "mark", status |-> "pending",
                    ids |-> {id \in InFlight(ct) : Since(id)}]>> \o Tail(call)
  /\ UNCHANGED <<stores, ceiling, screen, clock, crashes>>

\* Fault: what is in flight is cancelled, a status no reviewer ever sees.
DowngradeInflightCancels ==
  /\ Committing("downgrade")
  /\ call' = <<[do |-> "mark", status |-> "cancelled",
                ids |-> InFlight(Head(call).ct)]>> \o Tail(call)
  /\ UNCHANGED <<stores, ceiling, screen, clock, crashes>>

\* downgrade_inflight selects the items, then writes them one by one.
DowngradeInflight ==
  /\ Committing("downgrade")
  /\ call' = <<[do |-> "mark", status |-> "pending",
                ids |-> InFlight(Head(call).ct)]>> \o Tail(call)
  /\ UNCHANGED <<stores, ceiling, screen, clock, crashes>>

MarkOne ==
  /\ Committing("mark")
  /\ \E id \in Head(call).ids :
       /\ SetStatus(id, Head(call).status)
       /\ call' = <<[Head(call) EXCEPT !.ids = @ \ {id}]>> \o Tail(call)
  /\ UNCHANGED <<ledger, traces, candidates, ceiling, screen, clock, crashes>>

AllMarked ==
  /\ Committing("mark")
  /\ Head(call).ids = {}
  /\ Done
  /\ UNCHANGED stores

StoreTrace ==
  /\ Committing("trace")
  /\ traces' = [id \in DOMAIN traces \cup {Head(call).id} |->
                  IF id = Head(call).id THEN Head(call).trace ELSE traces[id]]
  /\ Done
  /\ UNCHANGED <<ledger, items, candidates>>

FlagCandidate ==
  /\ Committing("flag")
  /\ candidates' = candidates \cup {Head(call).id}
  /\ Done
  /\ UNCHANGED <<ledger, items, traces>>

Show ==
  /\ Committing("show")
  /\ screen' = Head(call).ids
  /\ call' = Tail(call)
  /\ UNCHANGED <<stores, ceiling, clock, crashes>>

Step ==
  \/ AppendEntry
  \/ Enqueue
  \/ DowngradeInflight
  \/ MarkOne
  \/ AllMarked
  \/ StoreTrace
  \/ FlagCandidate
  \/ Show

-----------------------------------------------------------------------------
(***************************************************************************)
(* The environment.                                                        *)
(***************************************************************************)
Tick ==
  /\ clock < MaxClock
  /\ clock' = clock + 1
  /\ UNCHANGED <<stores, ceiling, screen, call, crashes>>

\* The process dies during a call and is started again: the stores are files,
\* the rest of the call is gone, the page in the browser stays.
Crash ==
  /\ call # <<>>
  /\ crashes < MaxCrashes
  /\ crashes' = crashes + 1
  /\ call' = <<>>
  /\ ceiling' \in Ceilings
  /\ UNCHANGED <<stores, screen, clock>>

RestartIdle ==
  /\ call = <<>>
  /\ Restart
  /\ UNCHANGED <<items, traces, candidates, screen, clock, call, crashes>>

ServiceNext ==
  \/ \E evaluation \in Evaluations : RecordRun(evaluation)
  \/ \E report \in Reports : ProcessOutcome(report)
  \/ \E ct \in CampaignTypes, score \in Challenges : Challenge(ct, score)
  \/ RefreshQueue
  \/ ApproveAll
  \/ Step
  \/ Tick
  \/ Crash
  \/ RestartIdle

\* A call is straight-line code: it goes on to its end unless the process dies.
ServiceSpec == ServiceInit /\ [][ServiceNext]_svars /\ WF_svars(Step)

-----------------------------------------------------------------------------
(***************************************************************************)
(* Properties.                                                             *)
(***************************************************************************)

\* Between calls, as long as none was cut off, a type that has lost its tier or
\* its standing has nothing in flight (docs/autonomy-model.md:104).
NothingInFlightUntrusted ==
  call = <<>> /\ crashes = 0 =>
    \A ct \in CampaignTypes :
      InFlight(ct) # {} => TierOf(ledger, ct) > ASSIST /\ StandingOf(ledger, ct) = "active"

\* Between calls, as long as none was cut off, the four stores agree: every run
\* on the ledger has its queue item and its trace and they tell the decision
\* the ledger does, and every blind spot is flagged for triage.
StoresAgree ==
  call = <<>> /\ crashes = 0 =>
    /\ DOMAIN items = RecordedIds
    /\ DOMAIN traces = RecordedIds
    /\ \A i \in DOMAIN ledger :
         /\ ledger[i].kind = "run" =>
              traces[ledger[i].run_id].decision = ledger[i].decision
         /\ ledger[i].kind = "outcome" /\ ledger[i].blind_spot =>
              ledger[i].run_id \in candidates

\* A call that demotes a type and is not itself cut off leaves none of the
\* type's items in flight: it also takes those an earlier demotion's downgrade,
\* stopped partway, left there (store.py:135-144).
Downgrading ==
  \E i \in DOMAIN call :
    \/ call[i].do = "downgrade"
    \/ call[i].do = "mark" /\ call[i].status = "pending"

DowngradesMakeUp ==
  [][Downgrading /\ ~Downgrading' /\ crashes' = crashes =>
       InFlight(ledger[Len(ledger)].campaign_type)' = {}]_svars

\* Approve-all is for look-alikes: what it approves is work that routing.py
\* itself puts in the batch lane; the two lane rules are separate code kept in
\* lockstep (lanes.py:23-25).
BulkApprovalsAreRoutine ==
  [][\A id \in DOMAIN items \cap DOMAIN traces :
       items[id].status # "approved" /\ items'[id].status = "approved" =>
         Lane(traces[id].evaluation, traces[id].blocked) = "batch"]_svars

\* A demotion reaches what is in flight: a run sent before a demotion does not
\* stay in flight, unless a crash cuts the call off (service.py:165-167).
DemotedAfterSend(id) ==
  /\ id \in ByStatus("in_flight")
  /\ \E i, j \in DOMAIN ledger :
       /\ i < j
       /\ IsAutoSend(ledger[i], items[id].campaign_type) /\ ledger[i].run_id = id
       /\ IsTransition(ledger[j], items[id].campaign_type)
       /\ ledger[j].to_tier = ASSIST

DemotionReachesInFlight ==
  \A id \in RunIds :
    DemotedAfterSend(id) ~> (id \notin ByStatus("in_flight") \/ crashes > 0)

\* What docs/autonomy-model.md:104-105 and queue/store.py:134 say of the items a
\* demotion downgrades, "never sent": an item whose run has a post-send outcome
\* on record is none of them, and does not come back for review.
SentIsNotReoffered ==
  [][\A id \in DOMAIN items :
       /\ items[id].status # "pending"
       /\ items'[id].status = "pending"
       => ~\E i \in DOMAIN ledger :
            ledger[i].kind = "outcome" /\ ledger[i].run_id = id]_svars

\* What queue/models.py:32 says of an item whose window elapsed before anyone
\* acted: it is expired, so it is not approved any more.
ApprovedInTime ==
  [][\A id \in DOMAIN items :
       items[id].status # "approved" /\ items'[id].status = "approved" =>
         ~Expired(items[id], clock)]_svars
=============================================================================
