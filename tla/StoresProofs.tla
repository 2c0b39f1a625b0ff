----------------------------- MODULE StoresProofs -----------------------------
(***************************************************************************)
(* What the service's stores promise of one another, for every value of    *)
(* the constants: they agree when a call has run to its end, a demotion    *)
(* has reached what was in flight, also what an earlier one cut off left   *)
(* there, and approve-all approves routine work only; and the ledger moves *)
(* as AutonomyLadder says at every single commit, crashes included.        *)
(*                                                                         *)
(* ServiceProofs is about the order of a plan's commits.  Here the order   *)
(* hardly matters: the invariant speaks of what is stored or still planned *)
(* (the entries, items and traces of a run, the ids offered for approval), *)
(* and a commit only moves something from the plan to its store.           *)
(***************************************************************************)
EXTENDS ServiceProofs, LadderProofs

Planned(plan) == {plan[k] : k \in DOMAIN plan}
Plans(kind) == {c \in Planned(call) : c.do = kind}

\* Stored or planned.
Entries ==
  {ledger[i] : i \in DOMAIN ledger} \cup {c.entry : c \in Plans("append")}
ItemsOf(id) ==
  {items[key] : key \in DOMAIN items \cap {id}}
    \cup {c.item : c \in {d \in Plans("enqueue") : d.id = id}}
TracesOf(id) ==
  {traces[key] : key \in DOMAIN traces \cap {id}}
    \cup {c.trace : c \in {d \in Plans("trace") : d.id = id}}
Flagged == candidates \cup {c.id : c \in Plans("flag")}

\* The ids the operator sees, is about to see, or has sent with approve-all.
Approves(c) == c.do = "mark" /\ c.status = "approved"
Offers(c) == c.do = "show" \/ Approves(c)
Offered == screen \cup UNION {c.ids : c \in {d \in Planned(call) : Offers(d)}}

(***************************************************************************)
(* The invariant, part by part.  The first five parts hold whatever was    *)
(* cut off, the last two as long as nothing was.                           *)
(***************************************************************************)
Recorded ==
  /\ DOMAIN items \subseteq RecordedIds
  /\ DOMAIN traces \subseteq RecordedIds
  /\ Offered \subseteq RecordedIds
  /\ \A c \in Plans("enqueue") \cup Plans("trace") :
       \E entry \in Entries : entry.kind = "run" /\ entry.run_id = c.id

\* The queue and the traces tell the same of a run.
Matches(item, trace) ==
  /\ item.critical_flags = CriticalFailures(trace.evaluation)
  /\ item.constraint_codes = trace.blocked

Told ==
  \A id : \A item \in ItemsOf(id), trace \in TracesOf(id) : Matches(item, trace)

Screened == \A id \in Offered : \A item \in ItemsOf(id) : ClassifyLane(item) = "batch"

Decided ==
  \A entry \in Entries : entry.kind = "run" =>
    \A trace \in TracesOf(entry.run_id) : trace.decision = entry.decision

Unapproved == \A c \in Plans("enqueue") : c.item.status # "approved"

Owed ==
  \A entry \in Entries :
    /\ entry.kind = "run" =>
         ItemsOf(entry.run_id) # {} /\ TracesOf(entry.run_id) # {}
    /\ entry.kind = "outcome" /\ entry.blind_spot => entry.run_id \in Flagged

\* A type keeps its tier to the end of the plan, or what it has in flight is
\* being dropped.
Lowers(entry, ct) == IsTransition(entry, ct) /\ entry.to_tier = ASSIST

Safe(ct) ==
  /\ TierOf(ledger, ct) > ASSIST
  /\ StandingOf(ledger, ct) = "active"
  /\ \A c \in Plans("append") : ~Lowers(c.entry, ct)

Dropping(ct) ==
  \/ \E c \in Plans("downgrade") : c.ct = ct
  \/ \E c \in Plans("mark") : InFlight(ct) \subseteq c.ids

Guarded ==
  \A ct \in CampaignTypes :
    /\ InFlight(ct) # {} => Safe(ct) \/ Dropping(ct)
    /\ \A c \in Plans("enqueue") :
         c.item.status = "in_flight" /\ c.item.campaign_type = ct => Safe(ct)

Agreed == Recorded /\ Told /\ Screened /\ Decided
Uncut == crashes = 0 => Owed /\ Guarded
StoresInv == Agreed /\ Unapproved /\ Uncut

-----------------------------------------------------------------------------
(***************************************************************************)
(* What is planned before and after a step.                                *)
(***************************************************************************)
LEMMA PlannedTail ==
  ASSUME NEW plan \in Seq(Commit), plan # <<>>
  PROVE  /\ Head(plan) \in Commit
         /\ Planned(plan) = {Head(plan)} \cup Planned(Tail(plan))
         /\ Planned(plan) \subseteq Commit
<1>1. /\ Len(plan) \in Nat \ {0} /\ DOMAIN plan = 1 .. Len(plan)
      /\ \A k \in 1 .. Len(plan) : plan[k] \in Commit
  BY EmptySeq, LenProperties, ElementOfSeq
<1>2. /\ Tail(plan) \in Seq(Commit) /\ Len(Tail(plan)) = Len(plan) - 1
      /\ \A k \in 1 .. Len(Tail(plan)) : Tail(plan)[k] = plan[k + 1]
  BY HeadTailProperties
<1>3. DOMAIN Tail(plan) = 1 .. Len(plan) - 1
  BY <1>2, LenProperties
<1>4. Head(plan) = plan[1] /\ plan[1] \in Commit
  BY <1>1
<1>5. ASSUME NEW k \in DOMAIN plan PROVE plan[k] \in {Head(plan)} \cup Planned(Tail(plan))
  <2>1. CASE k = 1
    BY <1>4, <2>1
  <2>2. CASE k # 1
    <3>1. k - 1 \in DOMAIN Tail(plan) /\ Tail(plan)[k - 1] = plan[k]
      BY <1>1, <1>2, <1>3, <2>2
    <3> QED
      BY <3>1 DEF Planned
  <2> QED
    BY <2>1, <2>2
<1>6. ASSUME NEW k \in DOMAIN Tail(plan) PROVE Tail(plan)[k] \in Planned(plan)
  <2>1. k + 1 \in DOMAIN plan /\ Tail(plan)[k] = plan[k + 1]
    BY <1>1, <1>2, <1>3
  <2> QED
    BY <2>1 DEF Planned
<1>7. Head(plan) \in Planned(plan)
  BY <1>1, <1>4 DEF Planned
<1> QED
  BY <1>1, <1>4, <1>5, <1>6, <1>7 DEF Planned

LEMMA PlannedConcat ==
  ASSUME NEW S, NEW s \in Seq(S), NEW t \in Seq(S)
  PROVE  Planned(s \o t) = Planned(s) \cup Planned(t)
<1> DEFINE both == s \o t
<1>1. /\ Len(s) \in Nat /\ DOMAIN s = 1 .. Len(s)
      /\ Len(t) \in Nat /\ DOMAIN t = 1 .. Len(t)
  BY LenProperties
<1>2. /\ both \in Seq(S) /\ Len(both) = Len(s) + Len(t)
      /\ \A k \in 1 .. Len(s) + Len(t) :
           both[k] = IF k <= Len(s) THEN s[k] ELSE t[k - Len(s)]
  BY ConcatProperties
<1> HIDE DEF both
<1>3. DOMAIN both = 1 .. Len(s) + Len(t)
  BY <1>2, LenProperties
<1>4. ASSUME NEW k \in DOMAIN both PROVE both[k] \in Planned(s) \cup Planned(t)
  <2>1. CASE k <= Len(s)
    <3>1. k \in DOMAIN s /\ both[k] = s[k]
      BY <1>1, <1>2, <1>3, <2>1
    <3> QED
      BY <3>1 DEF Planned
  <2>2. CASE ~(k <= Len(s))
    <3>1. k - Len(s) \in DOMAIN t /\ both[k] = t[k - Len(s)]
      BY <1>1, <1>2, <1>3, <2>2
    <3> QED
      BY <3>1 DEF Planned
  <2> QED
    BY <2>1, <2>2
<1>5. ASSUME NEW k \in DOMAIN s PROVE s[k] \in Planned(both)
  <2>1. k \in DOMAIN both /\ both[k] = s[k]
    BY <1>1, <1>2, <1>3
  <2> QED
    BY <2>1 DEF Planned
<1>6. ASSUME NEW k \in DOMAIN t PROVE t[k] \in Planned(both)
  <2>1. k + Len(s) \in DOMAIN both /\ both[k + Len(s)] = t[k]
    BY <1>1, <1>2, <1>3
  <2> QED
    BY <2>1 DEF Planned
<1> QED
  BY <1>4, <1>5, <1>6 DEF Planned, both

LEMMA PlannedOne ==
  ASSUME NEW c
  PROVE  Planned(<<c>>) = {c}
  BY DEF Planned

\* A commit is at the head of the plan, and nothing is appended after it
\* unless it appends itself.
LEMMA AtWork ==
  ASSUME SInv, NEW kind, Committing(kind)
  PROVE  /\ call \in Seq(Commit) /\ Tail(call) \in Seq(Commit)
         /\ Head(call) \in Commit /\ Head(call).do = kind
         /\ Planned(call) = {Head(call)} \cup Planned(Tail(call))
         /\ Planned(call) \subseteq Commit
         /\ kind # "append" => Plans("append") = {}
<1>1. /\ call \in Seq(Commit) /\ call # <<>> /\ Lawful(ledger, call)
      /\ Head(call) = call[1] /\ call[1].do = kind
  BY AtHead, ReadState
<1>2. /\ Head(call) \in Commit
      /\ Planned(call) = {Head(call)} \cup Planned(Tail(call))
      /\ Planned(call) \subseteq Commit
  BY <1>1, PlannedTail
<1>3. kind # "append" => \A k \in DOMAIN call : call[k].do # "append"
  BY <1>1 DEF Lawful
<1>4. kind # "append" => Plans("append") = {}
  BY <1>3 DEF Plans, Planned
<1>5. Tail(call) \in Seq(Commit)
  BY <1>1, PlanTail
<1> QED
  BY <1>1, <1>2, <1>4, <1>5

-----------------------------------------------------------------------------
(***************************************************************************)
(* A step after which nothing is stored or planned that was not before     *)
(* keeps what the stores agree on.                                         *)
(***************************************************************************)
SameLook(item, other) ==
  /\ item.critical_flags = other.critical_flags
  /\ item.constraint_codes = other.constraint_codes

LEMMA AgreedKept ==
  ASSUME Agreed, Entries' \subseteq Entries, Offered' \subseteq Offered,
         RecordedIds \subseteq RecordedIds',
         \A id : \A item \in ItemsOf(id)' :
           \E other \in ItemsOf(id) : SameLook(item, other),
         \A id : TracesOf(id)' \subseteq TracesOf(id),
         DOMAIN items' \subseteq RecordedIds', DOMAIN traces' \subseteq RecordedIds',
         \A c \in (Plans("enqueue") \cup Plans("trace"))' :
           \E entry \in Entries' : entry.kind = "run" /\ entry.run_id = c.id
  PROVE  Agreed'
<1>1. Recorded'
  <2>1. Offered' \subseteq RecordedIds'
    BY DEF Agreed, Recorded
  <2> QED
    BY <2>1 DEF Recorded
<1>2. Told'
  <2> SUFFICES ASSUME NEW id, NEW item \in ItemsOf(id)', NEW trace \in TracesOf(id)'
               PROVE  Matches(item, trace)
    BY DEF Told
  <2>1. PICK other \in ItemsOf(id) : SameLook(item, other)
    OBVIOUS
  <2>2. Matches(other, trace)
    BY DEF Agreed, Told
  <2> QED
    BY <2>1, <2>2 DEF Matches, SameLook
<1>3. Screened'
  <2> SUFFICES ASSUME NEW id \in Offered', NEW item \in ItemsOf(id)'
               PROVE  ClassifyLane(item) = "batch"
    BY DEF Screened
  <2>1. PICK other \in ItemsOf(id) : SameLook(item, other)
    OBVIOUS
  <2>2. ClassifyLane(other) = "batch"
    BY DEF Agreed, Screened
  <2> QED
    BY <2>1, <2>2 DEF ClassifyLane, SameLook
<1>4. Decided'
  BY Zenon DEF Agreed, Decided
<1> QED
  BY <1>1, <1>2, <1>3, <1>4 DEF Agreed

LEMMA OwedKept ==
  ASSUME Owed, Entries' \subseteq Entries, Flagged \subseteq Flagged',
         \A id : ItemsOf(id) # {} => ItemsOf(id)' # {},
         \A id : TracesOf(id) # {} => TracesOf(id)' # {}
  PROVE  Owed'
  BY DEF Owed

\* What is planned is all that may change.
LEMMA PlannedOnly ==
  ASSUME UNCHANGED <<ledger, items, traces, candidates, screen>>,
         Planned(call') = Planned(call)
  PROVE  /\ Agreed => Agreed'
         /\ Unapproved => Unapproved'
         /\ Owed /\ Guarded => (Owed /\ Guarded)'
<1>1. \A kind : Plans(kind)' = Plans(kind)
  BY DEF Plans
<1>2. /\ Entries' = Entries /\ Offered' = Offered /\ Flagged' = Flagged
      /\ RecordedIds' = RecordedIds
      /\ \A id : ItemsOf(id)' = ItemsOf(id) /\ TracesOf(id)' = TracesOf(id)
      /\ \A status : ByStatus(status)' = ByStatus(status)
      /\ \A ct : InFlight(ct)' = InFlight(ct)
  BY <1>1 DEF Entries, Offered, Flagged, RecordedIds, ItemsOf, TracesOf, ByStatus, InFlight
<1>3. \A ct : Safe(ct)' = Safe(ct) /\ Dropping(ct)' = Dropping(ct)
  BY <1>1, <1>2 DEF Safe, Dropping
<1>4. Agreed => Agreed'
  BY <1>1, <1>2 DEF Agreed, Recorded, Told, Screened, Decided
<1>5. Unapproved => Unapproved'
  BY <1>1, <1>2 DEF Unapproved
<1>6. Owed /\ Guarded => (Owed /\ Guarded)'
  BY <1>1, <1>2, <1>3 DEF Owed, Guarded
<1> QED
  BY <1>4, <1>5, <1>6

-----------------------------------------------------------------------------
(***************************************************************************)
(* The commits.                                                            *)
(***************************************************************************)
LEMMA LedgerGrows ==
  ASSUME NEW log \in Seq(Entry), NEW entry \in Entry
  PROVE  LET longer == Append(log, entry)
         IN  {longer[i] : i \in DOMAIN longer} = {log[i] : i \in DOMAIN log} \cup {entry}
<1> DEFINE longer == Append(log, entry)
<1>1. /\ Len(log) \in Nat /\ DOMAIN log = 1 .. Len(log)
      /\ DOMAIN longer = 1 .. Len(log) + 1
      /\ \A i \in 1 .. Len(log) : longer[i] = log[i]
      /\ longer[Len(log) + 1] = entry
  BY AppendFacts
<1> HIDE DEF longer
<1>2. DOMAIN longer = DOMAIN log \cup {Len(log) + 1}
  BY <1>1
<1>3. \A i \in DOMAIN log : longer[i] = log[i]
  BY <1>1
<1>4. {longer[i] : i \in DOMAIN longer} =
        {longer[i] : i \in DOMAIN log} \cup {longer[Len(log) + 1]}
  BY <1>2
<1>5. {longer[i] : i \in DOMAIN log} = {log[i] : i \in DOMAIN log}
  BY <1>3
<1> QED
  BY <1>1, <1>4, <1>5 DEF longer

\* A type that keeps its tier to the end of the plan keeps it over the first
\* entry of the plan.
LEMMA SafeAppend ==
  ASSUME NEW log, Sound(log), NEW entry, MayFollow(log, entry), NEW ct \in CampaignTypes,
         TierOf(log, ct) > ASSIST, StandingOf(log, ct) = "active", ~Lowers(entry, ct)
  PROVE  /\ TierOf(Append(log, entry), ct) > ASSIST
         /\ StandingOf(Append(log, entry), ct) = "active"
<1>1. Grounded(log) /\ entry \in Entry
  BY DEF Sound, MayFollow
<1>2. CASE ~IsTransition(entry, ct)
  BY <1>1, <1>2, OtherEntryKeepsState
<1>3. CASE IsTransition(entry, ct)
  <2>1. /\ TierOf(Append(log, entry), ct) = entry.to_tier
        /\ StandingOf(Append(log, entry), ct) = entry.standing_after
    BY <1>1, <1>3, TransitionSetsState
  <2>2. Follows(entry, TierOf(log, ct), StandingOf(log, ct))
    BY <1>3 DEF MayFollow
  <2>3. TierOf(log, ct) \in Tier
    BY <1>1, CurrentState
  <2> QED
    BY <1>3, <2>1, <2>2, <2>3 DEF Follows, Lowers, Tier, ASSIST, BOUNDED, SUPERVISED
<1> QED
  BY <1>2, <1>3

LEMMA AppendKeepsStores ==
  ASSUME SInv, Agreed, Unapproved, AppendEntry
  PROVE  /\ Agreed' /\ Unapproved'
         /\ Owed /\ Guarded => (Owed /\ Guarded)'
<1> DEFINE c == Head(call)
<1>1. /\ Planned(call) = {c} \cup Planned(call') /\ c.do = "append"
      /\ ledger' = Append(ledger, c.entry)
      /\ UNCHANGED <<items, traces, candidates, screen>>
  BY AtWork DEF AppendEntry, Done
<1>2. Sound(ledger) /\ ledger \in Seq(Entry) /\ MayFollow(ledger, c.entry) /\ c.entry \in Entry
  <2>1. call \in Seq(Commit) /\ call # <<>> /\ c = call[1] /\ call[1].do = "append"
    BY AtHead DEF AppendEntry
  <2> HIDE DEF c
  <2> QED
    BY <2>1, ReadState, AppendDone, Zenon DEF MayFollow
<1> HIDE DEF c
<1>3. /\ \A kind : kind # "append" => Plans(kind)' = Plans(kind)
      /\ Plans("append") = {c} \cup Plans("append")'
  BY <1>1 DEF Plans
<1>4. {ledger[i] : i \in DOMAIN ledger}' = {ledger[i] : i \in DOMAIN ledger} \cup {c.entry}
  BY <1>1, <1>2, LedgerGrows
<1>5. Entries' = Entries
  BY <1>3, <1>4 DEF Entries
<1>6. RecordedIds \subseteq RecordedIds'
  <2>1. /\ DOMAIN ledger \subseteq DOMAIN ledger'
        /\ \A i \in DOMAIN ledger : ledger'[i] = ledger[i]
    BY <1>1, <1>2, AppendFacts
  <2> QED
    BY <2>1 DEF RecordedIds
<1>7. /\ \A id : ItemsOf(id)' = ItemsOf(id) /\ TracesOf(id)' = TracesOf(id)
      /\ Flagged' = Flagged
      /\ \A status : ByStatus(status)' = ByStatus(status)
      /\ \A ct : InFlight(ct)' = InFlight(ct)
  BY <1>1, <1>3 DEF Flagged, ItemsOf, TracesOf, ByStatus, InFlight
<1>8. Offered' = Offered
  BY <1>1 DEF Offered, Offers, Approves
<1>9. Agreed'
  <2>1. DOMAIN items' \subseteq RecordedIds' /\ DOMAIN traces' \subseteq RecordedIds'
    BY <1>1, <1>6 DEF Agreed, Recorded
  <2>2. \A d \in (Plans("enqueue") \cup Plans("trace"))' :
          \E entry \in Entries' : entry.kind = "run" /\ entry.run_id = d.id
    BY <1>3, <1>5 DEF Agreed, Recorded
  <2>3. \A id : \A item \in ItemsOf(id)' : \E other \in ItemsOf(id) : SameLook(item, other)
    BY <1>7 DEF SameLook
  <2> QED
    BY <1>5, <1>6, <1>7, <1>8, <2>1, <2>2, <2>3, AgreedKept
<1>10. Unapproved'
  BY <1>1, <1>3, <1>7 DEF Unapproved
<1>11. Owed => Owed'
  BY <1>5, <1>7 DEF Owed
<1>12. Guarded => Guarded'
  <2>1. ASSUME NEW ct \in CampaignTypes, Safe(ct) PROVE Safe(ct)'
    <3>1. ~Lowers(c.entry, ct) /\ \A d \in Plans("append")' : ~Lowers(d.entry, ct)
      BY <1>3, <2>1 DEF Safe
    <3>2. TierOf(ledger', ct) > ASSIST /\ StandingOf(ledger', ct) = "active"
      BY <1>1, <1>2, <2>1, <3>1, SafeAppend DEF Safe
    <3> QED
      BY <3>1, <3>2 DEF Safe
  <2>2. \A ct \in CampaignTypes : Dropping(ct) => Dropping(ct)'
    BY <1>3, <1>7 DEF Dropping
  <2> QED
    BY <1>3, <1>7, <2>1, <2>2 DEF Guarded
<1> QED
  BY <1>9, <1>10, <1>11, <1>12

\* Every other commit finds the plan's entries on the ledger.
LEMMA AllAppended ==
  ASSUME SInv, Agreed, NEW kind, kind # "append", Committing(kind)
  PROVE  /\ Entries = {ledger[i] : i \in DOMAIN ledger}
         /\ \A c \in Plans("enqueue") \cup Plans("trace") : c.id \in RecordedIds
<1>1. Entries = {ledger[i] : i \in DOMAIN ledger}
  BY AtWork DEF Entries
<1>2. \A entry \in Entries : entry.kind = "run" => entry.run_id \in RecordedIds
  BY <1>1 DEF RecordedIds
<1> QED
  BY <1>1, <1>2 DEF Agreed, Recorded

\* A commit other than an append is done, or is replaced by a mark that
\* approves nothing new.
LEMMA NoAppend ==
  ASSUME SInv, Agreed, NEW kind, kind # "append", Committing(kind), UNCHANGED ledger,
         Planned(call') \subseteq Planned(call) \cup {c \in Commit : c.do = "mark"}
  PROVE  /\ Plans("append")' = {} /\ Plans("append") = {}
         /\ Entries' = Entries /\ RecordedIds' = RecordedIds
         /\ \A c \in (Plans("enqueue") \cup Plans("trace"))' :
              \E entry \in Entries' : entry.kind = "run" /\ entry.run_id = c.id
<1>1. Plans("append") = {} /\ RecordedIds' = RecordedIds
  BY AtWork DEF RecordedIds
<1>2. /\ Plans("append")' \subseteq Plans("append")
      /\ Plans("enqueue")' \subseteq Plans("enqueue")
      /\ Plans("trace")' \subseteq Plans("trace")
  BY DEF Plans
<1>3. Entries' = Entries
  BY <1>1, <1>2 DEF Entries
<1> QED
  BY <1>1, <1>2, <1>3 DEF Agreed, Recorded

LEMMA EnqueueKeepsStores ==
  ASSUME SInv, Agreed, Unapproved, Enqueue
  PROVE  /\ Agreed' /\ Unapproved'
         /\ Owed /\ Guarded => (Owed /\ Guarded)'
<1> DEFINE c == Head(call)
<1>1. /\ Planned(call) = {c} \cup Planned(call') /\ c.do = "enqueue"
      /\ Add(c.id, c.item)
      /\ UNCHANGED <<ledger, traces, candidates, screen>>
      /\ Committing("enqueue")
  BY AtWork DEF Enqueue, Done
<1> HIDE DEF c
<1>2. /\ Plans("append")' = {} /\ Plans("append") = {}
      /\ Entries' = Entries /\ RecordedIds' = RecordedIds
      /\ \A d \in (Plans("enqueue") \cup Plans("trace"))' :
           \E entry \in Entries' : entry.kind = "run" /\ entry.run_id = d.id
  BY <1>1, NoAppend
<1>3. /\ \A kind : kind # "enqueue" => Plans(kind)' = Plans(kind)
      /\ Plans("enqueue") = {c} \cup Plans("enqueue")'
  BY <1>1 DEF Plans
<1>4. c.id \in RecordedIds
  BY <1>1, <1>3, AllAppended
<1>5. /\ DOMAIN items' = DOMAIN items \cup {c.id}
      /\ \A key \in DOMAIN items' : items'[key] = IF key = c.id THEN c.item ELSE items[key]
  BY <1>1 DEF Add
<1>6. \A id : ItemsOf(id)' \subseteq ItemsOf(id)
  BY <1>3, <1>5 DEF ItemsOf
<1>7. \A id : ItemsOf(id) # {} => ItemsOf(id)' # {}
  BY <1>3, <1>5 DEF ItemsOf
<1>8. \A id : TracesOf(id)' = TracesOf(id)
  BY <1>1, <1>3 DEF TracesOf
<1>9. Flagged' = Flagged
  BY <1>1, <1>3 DEF Flagged
<1>10. Offered' = Offered
  BY <1>1 DEF Offered, Offers, Approves
<1>11. Agreed'
  <2>1. DOMAIN items' \subseteq RecordedIds' /\ DOMAIN traces' \subseteq RecordedIds'
    BY <1>1, <1>2, <1>4, <1>5 DEF Agreed, Recorded
  <2>2. \A id : \A item \in ItemsOf(id)' : \E other \in ItemsOf(id) : SameLook(item, other)
    BY <1>6 DEF SameLook
  <2> QED
    BY <1>2, <1>8, <1>10, <2>1, <2>2, AgreedKept
<1>14. Unapproved'
  BY <1>3 DEF Unapproved
<1>15. Owed => Owed'
  BY <1>2, <1>7, <1>8, <1>9, OwedKept
<1>16. Guarded => Guarded'
  <2>1. \A ct : Safe(ct)' = Safe(ct)
    BY <1>1, <1>2 DEF Safe
  <2>2. SUFFICES ASSUME Guarded, NEW ct \in CampaignTypes, InFlight(ct)' # {}, ~Safe(ct)
                 PROVE  Dropping(ct)'
    BY <1>3, <2>1 DEF Guarded
  <2>3. ~(c.item.status = "in_flight" /\ c.item.campaign_type = ct)
    BY <1>3, <2>2 DEF Guarded
  <2>4. InFlight(ct)' \subseteq InFlight(ct)
    BY <1>5, <2>3 DEF InFlight, ByStatus
  <2>5. Dropping(ct)
    BY <2>2, <2>4 DEF Guarded
  <2> QED
    BY <1>3, <2>4, <2>5 DEF Dropping
<1> QED
  BY <1>11, <1>14, <1>15, <1>16

LEMMA TraceKeepsStores ==
  ASSUME SInv, Agreed, Unapproved, StoreTrace
  PROVE  /\ Agreed' /\ Unapproved'
         /\ Owed /\ Guarded => (Owed /\ Guarded)'
<1> DEFINE c == Head(call)
<1>1. /\ Planned(call) = {c} \cup Planned(call') /\ c.do = "trace"
      /\ traces' = [id \in DOMAIN traces \cup {c.id} |->
                      IF id = c.id THEN c.trace ELSE traces[id]]
      /\ UNCHANGED <<ledger, items, candidates, screen>>
      /\ Committing("trace")
  BY AtWork DEF StoreTrace, Done
<1> HIDE DEF c
<1>2. /\ Plans("append")' = {} /\ Plans("append") = {}
      /\ Entries' = Entries /\ RecordedIds' = RecordedIds
      /\ \A d \in (Plans("enqueue") \cup Plans("trace"))' :
           \E entry \in Entries' : entry.kind = "run" /\ entry.run_id = d.id
  BY <1>1, NoAppend
<1>3. /\ \A kind : kind # "trace" => Plans(kind)' = Plans(kind)
      /\ Plans("trace") = {c} \cup Plans("trace")'
  BY <1>1 DEF Plans
<1>4. c.id \in RecordedIds
  BY <1>1, <1>3, AllAppended
<1>5. /\ DOMAIN traces' = DOMAIN traces \cup {c.id}
      /\ \A key \in DOMAIN traces' : traces'[key] = IF key = c.id THEN c.trace ELSE traces[key]
  BY <1>1
<1>6. \A id : TracesOf(id)' \subseteq TracesOf(id)
  BY <1>3, <1>5 DEF TracesOf
<1>7. \A id : TracesOf(id) # {} => TracesOf(id)' # {}
  BY <1>3, <1>5 DEF TracesOf
<1>8. /\ \A id : ItemsOf(id)' = ItemsOf(id)
      /\ \A status : ByStatus(status)' = ByStatus(status)
      /\ \A ct : InFlight(ct)' = InFlight(ct)
  BY <1>1, <1>3 DEF ItemsOf, ByStatus, InFlight
<1>9. Flagged' = Flagged
  BY <1>1, <1>3 DEF Flagged
<1>10. Offered' = Offered
  BY <1>1 DEF Offered, Offers, Approves
<1>11. Agreed'
  <2>1. DOMAIN items' \subseteq RecordedIds' /\ DOMAIN traces' \subseteq RecordedIds'
    BY <1>1, <1>2, <1>4, <1>5 DEF Agreed, Recorded
  <2>2. \A id : \A item \in ItemsOf(id)' : \E other \in ItemsOf(id) : SameLook(item, other)
    BY <1>8 DEF SameLook
  <2> QED
    BY <1>2, <1>6, <1>10, <2>1, <2>2, AgreedKept
<1>12. Unapproved'
  BY <1>1, <1>3, <1>8 DEF Unapproved
<1>13. Owed => Owed'
  BY <1>2, <1>7, <1>8, <1>9, OwedKept
<1>14. Guarded => Guarded'
  <2>1. \A ct : Safe(ct)' = Safe(ct) /\ Dropping(ct)' = Dropping(ct)
    BY <1>1, <1>3, <1>8 DEF Safe, Dropping
  <2> QED
    BY <1>3, <1>8, <2>1 DEF Guarded
<1> QED
  BY <1>11, <1>12, <1>13, <1>14

LEMMA FlagKeepsStores ==
  ASSUME SInv, Agreed, Unapproved, FlagCandidate
  PROVE  /\ Agreed' /\ Unapproved'
         /\ Owed /\ Guarded => (Owed /\ Guarded)'
<1> DEFINE c == Head(call)
<1>1. /\ Planned(call) = {c} \cup Planned(call') /\ c.do = "flag"
      /\ candidates' = candidates \cup {c.id}
      /\ UNCHANGED <<ledger, items, traces, screen>>
      /\ Committing("flag")
  BY AtWork DEF FlagCandidate, Done
<1> HIDE DEF c
<1>2. /\ Plans("append")' = {} /\ Plans("append") = {}
      /\ Entries' = Entries /\ RecordedIds' = RecordedIds
      /\ \A d \in (Plans("enqueue") \cup Plans("trace"))' :
           \E entry \in Entries' : entry.kind = "run" /\ entry.run_id = d.id
  BY <1>1, NoAppend
<1>3. /\ \A kind : kind # "flag" => Plans(kind)' = Plans(kind)
      /\ Plans("flag") = {c} \cup Plans("flag")'
  BY <1>1 DEF Plans
<1>4. /\ \A id : ItemsOf(id)' = ItemsOf(id) /\ TracesOf(id)' = TracesOf(id)
      /\ \A status : ByStatus(status)' = ByStatus(status)
      /\ \A ct : InFlight(ct)' = InFlight(ct)
  BY <1>1, <1>3 DEF ItemsOf, TracesOf, ByStatus, InFlight
<1>5. Flagged' = Flagged
  BY <1>1, <1>3 DEF Flagged
<1>6. Offered' = Offered
  BY <1>1 DEF Offered, Offers, Approves
<1>7. Agreed'
  BY <1>1, <1>2, <1>3, <1>4, <1>6 DEF Agreed, Recorded, Told, Screened, Decided
<1>8. Unapproved'
  BY <1>1, <1>3, <1>4 DEF Unapproved
<1>9. Owed => Owed'
  BY <1>2, <1>4, <1>5, OwedKept
<1>10. Guarded => Guarded'
  <2>1. \A ct : Safe(ct)' = Safe(ct) /\ Dropping(ct)' = Dropping(ct)
    BY <1>1, <1>3, <1>4 DEF Safe, Dropping
  <2> QED
    BY <1>3, <1>4, <2>1 DEF Guarded
<1> QED
  BY <1>7, <1>8, <1>9, <1>10

LEMMA ShowKeepsStores ==
  ASSUME SInv, Agreed, Unapproved, Show
  PROVE  /\ Agreed' /\ Unapproved'
         /\ Owed /\ Guarded => (Owed /\ Guarded)'
<1> DEFINE c == Head(call)
<1>1. /\ Planned(call) = {c} \cup Planned(call') /\ c.do = "show"
      /\ screen' = c.ids
      /\ UNCHANGED <<ledger, items, traces, candidates>>
      /\ Committing("show")
  BY AtWork DEF Show, stores
<1> HIDE DEF c
<1>2. /\ Plans("append")' = {} /\ Plans("append") = {}
      /\ Entries' = Entries /\ RecordedIds' = RecordedIds
      /\ \A d \in (Plans("enqueue") \cup Plans("trace"))' :
           \E entry \in Entries' : entry.kind = "run" /\ entry.run_id = d.id
  BY <1>1, NoAppend
<1>3. \A kind : kind # "show" => Plans(kind)' = Plans(kind)
  BY <1>1 DEF Plans
<1>4. /\ \A id : ItemsOf(id)' = ItemsOf(id) /\ TracesOf(id)' = TracesOf(id)
      /\ \A status : ByStatus(status)' = ByStatus(status)
      /\ \A ct : InFlight(ct)' = InFlight(ct)
  BY <1>1, <1>3 DEF ItemsOf, TracesOf, ByStatus, InFlight
<1>5. Flagged' = Flagged
  BY <1>1, <1>3 DEF Flagged
<1>6. Offered' \subseteq Offered
  BY <1>1 DEF Offered, Offers
<1>7. Agreed'
  <2>1. DOMAIN items' \subseteq RecordedIds' /\ DOMAIN traces' \subseteq RecordedIds'
    BY <1>1, <1>2 DEF Agreed, Recorded
  <2>2. \A id : \A item \in ItemsOf(id)' : \E other \in ItemsOf(id) : SameLook(item, other)
    BY <1>4 DEF SameLook
  <2> QED
    BY <1>2, <1>4, <1>6, <2>1, <2>2, AgreedKept
<1>8. Unapproved'
  BY <1>1, <1>3, <1>4 DEF Unapproved
<1>9. Owed => Owed'
  BY <1>2, <1>4, <1>5, OwedKept
<1>10. Guarded => Guarded'
  <2>1. \A ct : Safe(ct)' = Safe(ct) /\ Dropping(ct)' = Dropping(ct)
    BY <1>1, <1>3, <1>4 DEF Safe, Dropping
  <2> QED
    BY <1>3, <1>4, <2>1 DEF Guarded
<1> QED
  BY <1>7, <1>8, <1>9, <1>10

LEMMA AllMarkedKeepsStores ==
  ASSUME SInv, Agreed, Unapproved, AllMarked
  PROVE  /\ Agreed' /\ Unapproved'
         /\ Owed /\ Guarded => (Owed /\ Guarded)'
<1> DEFINE c == Head(call)
<1>1. /\ Planned(call) = {c} \cup Planned(call') /\ c.do = "mark" /\ c.ids = {}
      /\ UNCHANGED <<ledger, items, traces, candidates, screen>>
      /\ Committing("mark")
  BY AtWork DEF AllMarked, Done, stores
<1> HIDE DEF c
<1>2. /\ Plans("append")' = {} /\ Plans("append") = {}
      /\ Entries' = Entries /\ RecordedIds' = RecordedIds
      /\ \A d \in (Plans("enqueue") \cup Plans("trace"))' :
           \E entry \in Entries' : entry.kind = "run" /\ entry.run_id = d.id
  BY <1>1, NoAppend
<1>3. /\ \A kind : kind # "mark" => Plans(kind)' = Plans(kind)
      /\ Plans("mark") = {c} \cup Plans("mark")'
  BY <1>1 DEF Plans
<1>4. /\ \A id : ItemsOf(id)' = ItemsOf(id) /\ TracesOf(id)' = TracesOf(id)
      /\ \A status : ByStatus(status)' = ByStatus(status)
      /\ \A ct : InFlight(ct)' = InFlight(ct)
  BY <1>1, <1>3 DEF ItemsOf, TracesOf, ByStatus, InFlight
<1>5. Flagged' = Flagged
  BY <1>1, <1>3 DEF Flagged
<1>6. Offered' \subseteq Offered
  BY <1>1 DEF Offered, Offers
<1>7. Agreed'
  <2>1. DOMAIN items' \subseteq RecordedIds' /\ DOMAIN traces' \subseteq RecordedIds'
    BY <1>1, <1>2 DEF Agreed, Recorded
  <2>2. \A id : \A item \in ItemsOf(id)' : \E other \in ItemsOf(id) : SameLook(item, other)
    BY <1>4 DEF SameLook
  <2> QED
    BY <1>2, <1>4, <1>6, <2>1, <2>2, AgreedKept
<1>8. Unapproved'
  BY <1>1, <1>3, <1>4 DEF Unapproved
<1>9. Owed => Owed'
  BY <1>2, <1>4, <1>5, OwedKept
<1>10. Guarded => Guarded'
  <2>1. \A ct : /\ Safe(ct)' = Safe(ct)
                /\ Dropping(ct) /\ InFlight(ct) # {} => Dropping(ct)'
    BY <1>1, <1>3, <1>4 DEF Safe, Dropping
  <2> QED
    BY <1>3, <1>4, <2>1 DEF Guarded
<1> QED
  BY <1>7, <1>8, <1>9, <1>10

LEMMA PlannedFirst ==
  ASSUME NEW rest \in Seq(Commit), NEW first \in Commit
  PROVE  Planned(<<first>> \o rest) = {first} \cup Planned(rest)
<1>1. <<first>> \in Seq(Commit) /\ Planned(<<first>>) = {first}
  BY PlannedOne
<1>2. Planned(<<first>> \o rest) = Planned(<<first>>) \cup Planned(rest)
  BY <1>1, PlannedConcat, ZenonT(40)
<1> QED
  BY <1>1, <1>2

\* Once downgrade_inflight has selected what is in flight, the marks are what
\* drops it.
LEMMA DowngradeKeepsStores ==
  ASSUME SInv, Agreed, Unapproved, DowngradeInflight
  PROVE  /\ Agreed' /\ Unapproved'
         /\ Owed /\ Guarded => (Owed /\ Guarded)'
<1> DEFINE c     == Head(call)
           first == [do |-> "mark", status |-> "pending", ids |-> InFlight(c.ct)]
<1>1. /\ Planned(call) = {c} \cup Planned(Tail(call)) /\ c.do = "downgrade"
      /\ call' = <<first>> \o Tail(call) /\ Tail(call) \in Seq(Commit)
      /\ UNCHANGED <<ledger, items, traces, candidates, screen>>
      /\ Committing("downgrade")
  BY AtWork DEF DowngradeInflight, stores
<1>2. /\ first \in Commit /\ first.do = "mark" /\ first.status = "pending"
      /\ first.ids = InFlight(c.ct)
  BY DEF Commit, InFlight, ByStatus, SInv, ServiceTypeOK, QueueTypeOK
<1> HIDE DEF c, first
<1>3. Planned(call') = {first} \cup Planned(Tail(call))
  BY <1>1, <1>2, PlannedFirst
<1>4. /\ Plans("append")' = {} /\ Plans("append") = {}
      /\ Entries' = Entries /\ RecordedIds' = RecordedIds
      /\ \A d \in (Plans("enqueue") \cup Plans("trace"))' :
           \E entry \in Entries' : entry.kind = "run" /\ entry.run_id = d.id
  <2>1. Planned(call') \subseteq Planned(call) \cup {d \in Commit : d.do = "mark"}
    BY <1>1, <1>2, <1>3
  <2> QED
    BY <1>1, <2>1, NoAppend
<1>5. /\ \A kind : kind # "mark" /\ kind # "downgrade" => Plans(kind)' = Plans(kind)
      /\ Plans("downgrade") = {c} \cup Plans("downgrade")'
      /\ Plans("mark")' = {first} \cup Plans("mark")
  BY <1>1, <1>2, <1>3 DEF Plans
<1>6. /\ \A id : ItemsOf(id)' = ItemsOf(id) /\ TracesOf(id)' = TracesOf(id)
      /\ \A status : ByStatus(status)' = ByStatus(status)
      /\ \A ct : InFlight(ct)' = InFlight(ct)
  BY <1>1, <1>5 DEF ItemsOf, TracesOf, ByStatus, InFlight
<1>7. Flagged' = Flagged
  BY <1>1, <1>5 DEF Flagged
<1>8. Offered' \subseteq Offered
  BY <1>1, <1>2, <1>3 DEF Offered, Offers, Approves
<1>9. Agreed'
  <2>1. DOMAIN items' \subseteq RecordedIds' /\ DOMAIN traces' \subseteq RecordedIds'
    BY <1>1, <1>4 DEF Agreed, Recorded
  <2>2. \A id : \A item \in ItemsOf(id)' : \E other \in ItemsOf(id) : SameLook(item, other)
    BY <1>6 DEF SameLook
  <2> QED
    BY <1>4, <1>6, <1>8, <2>1, <2>2, AgreedKept
<1>10. Unapproved'
  BY <1>5 DEF Unapproved
<1>11. Owed => Owed'
  BY <1>4, <1>6, <1>7, OwedKept
<1>12. Guarded => Guarded'
  <2>1. \A ct : /\ Safe(ct)' = Safe(ct)
                /\ Dropping(ct) => Dropping(ct)'
    BY <1>1, <1>2, <1>4, <1>5, <1>6 DEF Safe, Dropping
  <2> QED
    BY <1>5, <1>6, <2>1 DEF Guarded
<1> QED
  BY <1>9, <1>10, <1>11, <1>12

\* A mark writes one item: it takes it out of flight, and approves only what
\* was offered.
LEMMA OneMarked ==
  ASSUME SInv, MarkOne
  PROVE  LET c == Head(call)
         IN  /\ c \in Commit /\ c.do = "mark" /\ Planned(call) = {c} \cup Planned(Tail(call))
             /\ Committing("mark")
             /\ UNCHANGED <<ledger, traces, candidates, screen>>
             /\ \E id \in c.ids \cap DOMAIN items : \E first \in Commit :
                  /\ Planned(call') = {first} \cup Planned(Tail(call))
                  /\ first.do = "mark" /\ first.status = c.status
                  /\ first.ids = c.ids \ {id}
                  /\ DOMAIN items' = DOMAIN items
                  /\ \A key \in DOMAIN items : key # id => items'[key] = items[key]
                  /\ items'[id].status = c.status
                  /\ items'[id].campaign_type = items[id].campaign_type
                  /\ SameLook(items'[id], items[id])
<1> DEFINE c == Head(call)
<1>1. /\ c \in Commit /\ c.do = "mark" /\ Planned(call) = {c} \cup Planned(Tail(call))
      /\ Tail(call) \in Seq(Commit) /\ Committing("mark")
      /\ UNCHANGED <<ledger, traces, candidates, screen>>
  BY AtWork DEF MarkOne
<1>2. PICK id \in c.ids :
        /\ SetStatus(id, c.status)
        /\ call' = <<[c EXCEPT !.ids = c.ids \ {id}]>> \o Tail(call)
  BY DEF MarkOne
<1> HIDE DEF c
<1> DEFINE first == [c EXCEPT !.ids = c.ids \ {id}]
           item  == [items[id] EXCEPT !.status = c.status]
<1>3. /\ first \in Commit /\ first.do = "mark" /\ first.status = c.status
      /\ first.ids = c.ids \ {id}
  <2>1. /\ c.ids \in SUBSET RunIds
        /\ c \in [do : {"mark"}, ids : SUBSET RunIds, status : {"pending", "approved", "expired"}]
    BY <1>1 DEF Commit
  <2>2. c.ids \ {id} \in SUBSET RunIds
    BY <2>1
  <2>3. first \in Commit /\ first.do = "mark"
    BY <1>1, <2>2, CommitFields
  <2> QED
    BY <2>1, <2>3
<1>4. id \in DOMAIN items /\ Add(id, item)
  BY <1>2 DEF SetStatus
<1>5. /\ DOMAIN items' = DOMAIN items
      /\ \A key \in DOMAIN items : items'[key] = IF key = id THEN item ELSE items[key]
  <2> HIDE DEF item
  <2> QED
    BY <1>4 DEF Add
<1>6. items[id] \in QueueItem
  BY <1>4 DEF SInv, ServiceTypeOK, QueueTypeOK
<1>7. /\ item.status = c.status /\ item.campaign_type = items[id].campaign_type
      /\ SameLook(item, items[id])
  BY <1>6 DEF QueueItem, SameLook
<1> HIDE DEF first, item
<1>8. Planned(call') = {first} \cup Planned(Tail(call))
  BY <1>1, <1>2, <1>3, PlannedFirst DEF first
<1>9. /\ \A key \in DOMAIN items : key # id => items'[key] = items[key]
      /\ items'[id] = item
  BY <1>4, <1>5
<1> QED
  BY <1>1, <1>3, <1>4, <1>5, <1>7, <1>8, <1>9 DEF c

LEMMA MarkKeepsStores ==
  ASSUME SInv, Agreed, Unapproved, MarkOne
  PROVE  /\ Agreed' /\ Unapproved'
         /\ Owed /\ Guarded => (Owed /\ Guarded)'
<1> DEFINE c == Head(call)
<1>1. /\ c \in Commit /\ c.do = "mark" /\ Planned(call) = {c} \cup Planned(Tail(call))
      /\ Committing("mark")
      /\ UNCHANGED <<ledger, traces, candidates, screen>>
  BY OneMarked
<1>2. PICK id \in c.ids \cap DOMAIN items : \E first \in Commit :
        /\ Planned(call') = {first} \cup Planned(Tail(call))
        /\ first.do = "mark" /\ first.status = c.status
        /\ first.ids = c.ids \ {id}
        /\ DOMAIN items' = DOMAIN items
        /\ \A key \in DOMAIN items : key # id => items'[key] = items[key]
        /\ items'[id].status = c.status
        /\ items'[id].campaign_type = items[id].campaign_type
        /\ SameLook(items'[id], items[id])
  BY OneMarked
<1>3. PICK first \in Commit :
        /\ Planned(call') = {first} \cup Planned(Tail(call))
        /\ first.do = "mark" /\ first.status = c.status
        /\ first.ids = c.ids \ {id}
  BY <1>2
<1> HIDE DEF c
<1>4. /\ Plans("append")' = {} /\ Plans("append") = {}
      /\ Entries' = Entries /\ RecordedIds' = RecordedIds
      /\ \A d \in (Plans("enqueue") \cup Plans("trace"))' :
           \E entry \in Entries' : entry.kind = "run" /\ entry.run_id = d.id
  <2>1. Planned(call') \subseteq Planned(call) \cup {d \in Commit : d.do = "mark"}
    BY <1>1, <1>3
  <2> QED
    BY <1>1, <2>1, NoAppend
<1>5. /\ \A kind : kind # "mark" => Plans(kind)' = Plans(kind)
      /\ \A d \in Plans("mark")' : d \in Plans("mark") \/ d = first
      /\ \A d \in Plans("mark") : d \in Plans("mark")' \/ d = c
      /\ c \in Plans("mark") /\ first \in Plans("mark")'
  BY <1>1, <1>3 DEF Plans
<1>6. /\ \A key : \A item \in ItemsOf(key)' : \E other \in ItemsOf(key) : SameLook(item, other)
      /\ \A key : ItemsOf(key) # {} => ItemsOf(key)' # {}
  <2>1. Plans("enqueue")' = Plans("enqueue")
    BY <1>5
  <2>2. ASSUME NEW key, NEW item \in ItemsOf(key)'
        PROVE  \E other \in ItemsOf(key) : SameLook(item, other)
    <3>1. CASE item \in {d.item : d \in {e \in Plans("enqueue") : e.id = key}}
      BY <3>1 DEF ItemsOf, SameLook
    <3>2. CASE key \in DOMAIN items /\ item = items'[key]
      <4>1. items[key] \in ItemsOf(key)
        BY <3>2 DEF ItemsOf
      <4>2. SameLook(item, items[key])
        BY <1>2, <3>2 DEF SameLook
      <4> QED
        BY <4>1, <4>2
    <3> QED
      BY <1>2, <2>1, <2>2, <3>1, <3>2 DEF ItemsOf
  <2>3. \A key : ItemsOf(key) # {} => ItemsOf(key)' # {}
    BY <1>2, <2>1 DEF ItemsOf
  <2> QED
    BY <2>2, <2>3
<1>7. \A key : TracesOf(key)' = TracesOf(key)
  BY <1>1, <1>5 DEF TracesOf
<1>8. Flagged' = Flagged
  BY <1>1, <1>5 DEF Flagged
<1>9. Offered' \subseteq Offered
  BY <1>1, <1>3 DEF Offered, Offers, Approves
<1>10. Agreed'
  <2>1. DOMAIN items' \subseteq RecordedIds' /\ DOMAIN traces' \subseteq RecordedIds'
    BY <1>1, <1>2, <1>4 DEF Agreed, Recorded
  <2> QED
    BY <1>4, <1>6, <1>7, <1>9, <2>1, AgreedKept
<1>11. Unapproved'
  BY <1>5 DEF Unapproved
<1>12. Owed => Owed'
  BY <1>4, <1>6, <1>7, <1>8, OwedKept
<1>13. Guarded => Guarded'
  <2>1. \A ct : Safe(ct)' = Safe(ct)
    BY <1>1, <1>4 DEF Safe
  <2>2. \A ct : InFlight(ct)' \subseteq InFlight(ct) \ {id}
    <3>1. c.status \in {"pending", "approved", "expired"}
      BY <1>1, CommitFields
    <3> QED
      BY <1>2, <3>1 DEF InFlight, ByStatus
  <2>3. \A ct : Dropping(ct) => Dropping(ct)'
    BY <1>3, <1>5, <2>2 DEF Dropping
  <2> QED
    BY <1>5, <2>1, <2>2, <2>3 DEF Guarded
<1> QED
  BY <1>10, <1>11, <1>12, <1>13

-----------------------------------------------------------------------------
(***************************************************************************)
(* The calls.                                                              *)
(***************************************************************************)
Committed(entry) == [do |-> "append", entry |-> entry]

LEMMA AllCommitted ==
  ASSUME NEW es \in Seq(Entry), NEW rest \in Seq(Commit)
  PROVE  Planned(AppendAll(es) \o rest) =
           {Committed(entry) : entry \in Planned(es)} \cup Planned(rest)
<1>1. /\ AppendAll(es) \in Seq(Commit)
      /\ DOMAIN AppendAll(es) = DOMAIN es
      /\ \A k \in DOMAIN es : AppendAll(es)[k] = Committed(es[k])
  BY AppendAllTyped DEF AppendAll, Committed
<1>2. Planned(AppendAll(es)) = {Committed(entry) : entry \in Planned(es)}
  BY <1>1 DEF Planned
<1>3. Planned(AppendAll(es) \o rest) = Planned(AppendAll(es)) \cup Planned(rest)
  BY <1>1, PlannedConcat, ZenonT(40)
<1> QED
  BY <1>2, <1>3

\* A call in its first state: nothing else is planned, nothing is written yet.
LEMMA Begins ==
  ASSUME NEW es \in Seq(Entry), NEW rest \in Seq(Commit), Begin(es, rest)
  PROVE  /\ Planned(call) = {}
         /\ Planned(call') = {Committed(entry) : entry \in Planned(es)} \cup Planned(rest)
         /\ UNCHANGED <<ledger, items, traces, candidates, screen, ceiling, clock, crashes>>
<1>1. /\ call = <<>> /\ call' = AppendAll(es) \o rest
      /\ UNCHANGED <<ledger, items, traces, candidates, screen, ceiling, clock, crashes>>
  BY Zenon DEF Begin, stores
<1>2. Planned(call) = {}
  BY <1>1 DEF Planned
<1> QED
  BY <1>1, <1>2, AllCommitted, Zenon

\* The entries and the rest of a plan whose rest appends nothing.
LEMMA BegunPlans ==
  ASSUME NEW E, NEW R, Planned(call) = {}, \A c \in R : c.do # "append",
         Planned(call') = {Committed(entry) : entry \in E} \cup R,
         UNCHANGED ledger
  PROVE  /\ \A kind : Plans(kind) = {}
         /\ \A kind : kind # "append" => Plans(kind)' = {c \in R : c.do = kind}
         /\ Plans("append")' = {Committed(entry) : entry \in E}
         /\ Entries = {ledger[i] : i \in DOMAIN ledger}
         /\ Entries' = Entries \cup E
         /\ RecordedIds' = RecordedIds
         /\ \A entry \in Entries : entry.kind = "run" => entry.run_id \in RecordedIds
<1>1. \A entry : Committed(entry).do = "append" /\ Committed(entry).entry = entry
  BY DEF Committed
<1>2. /\ \A kind : Plans(kind) = {}
      /\ \A kind : kind # "append" => Plans(kind)' = {c \in R : c.do = kind}
      /\ Plans("append")' = {Committed(entry) : entry \in E}
  BY <1>1 DEF Plans
<1>3. {c.entry : c \in {Committed(entry) : entry \in E}} = E
  BY <1>1
<1>4. Entries = {ledger[i] : i \in DOMAIN ledger}
  BY <1>2 DEF Entries
<1>5. Entries' = Entries \cup E
  BY <1>2, <1>3, <1>4 DEF Entries
<1>6. RecordedIds' = RecordedIds
  BY DEF RecordedIds
<1>7. \A entry \in Entries : entry.kind = "run" => entry.run_id \in RecordedIds
  BY <1>4 DEF RecordedIds
<1> QED
  BY <1>2, <1>4, <1>5, <1>6, <1>7

LEMMA OnePlanned ==
  ASSUME NEW c \in Commit
  PROVE  <<c>> \in Seq(Commit) /\ Planned(<<c>>) = {c}
<1>1. <<c>> \in Seq(Commit)
  OBVIOUS
<1>2. Planned(<<c>>) = {c}
  BY PlannedOne, Zenon
<1> QED
  BY <1>1, <1>2

LEMMA FactPlanned ==
  ASSUME NEW fact \in Entry, NEW moved \in Seq(Entry)
  PROVE  /\ <<fact>> \o moved \in Seq(Entry)
         /\ Planned(<<fact>> \o moved) = {fact} \cup Planned(moved)
<1>1. <<fact>> \in Seq(Entry)
  OBVIOUS
<1>2. Planned(<<fact>>) = {fact}
  BY PlannedOne, Zenon
<1>3. Planned(<<fact>> \o moved) = Planned(<<fact>>) \cup Planned(moved)
  BY <1>1, PlannedConcat, Zenon
<1>4. <<fact>> \o moved \in Seq(Entry)
  BY <1>1, ConcatProperties
<1> QED
  BY <1>2, <1>3, <1>4

LEMMA BothPlanned ==
  ASSUME NEW s \in Seq(Commit), NEW t \in Seq(Commit)
  PROVE  s \o t \in Seq(Commit) /\ Planned(s \o t) = Planned(s) \cup Planned(t)
<1>1. s \o t \in Seq(Commit)
  BY ConcatProperties
<1> QED
  BY <1>1, PlannedConcat, Zenon

\* What a run is sent with, its type has: a tier, in good standing, and no
\* failure that would take it away.
LEMMA SentIsSafe ==
  ASSUME NEW log, Sound(log), NEW entry, MayFollow(log, entry), NEW ct \in CampaignTypes,
         IsAutoSend(entry, ct)
  PROVE  TierOf(log, ct) > ASSIST /\ StandingOf(log, ct) = "active"
<1>1. /\ entry.tier_at_decision \in Tier
      /\ Trusted(entry, TierOf(log, ct), StandingOf(log, ct))
      /\ TierOf(log, ct) \in Tier
  BY CurrentState DEF MayFollow, Sound, IsAutoSend, IsRun, Entry, RunEntry, OutcomeEntry,
                      TransitionEntry
<1>2. entry.tier_at_decision # ASSIST
  BY <1>1 DEF Trusted, CanAutosend, TierSegments, Tier, ASSIST, BOUNDED, SUPERVISED
<1> QED
  BY <1>1, <1>2 DEF Trusted, Tier, ASSIST, SUPERVISED

LEMMA RunMoves ==
  ASSUME SInv, NEW evaluation \in Evaluations
  PROVE  LET moved == RunTransition(ledger, evaluation, clock)
         IN  /\ moved \in Seq(Entry)
             /\ \A entry \in Planned(moved) :
                  /\ entry \in Entry /\ entry.kind = "transition"
                  /\ entry.campaign_type = evaluation.campaign_type
                  /\ entry.to_tier = ASSIST => RunDemotes(ledger, evaluation)
<1> DEFINE ct        == evaluation.campaign_type
           run       == RunFact(ledger, evaluation, clock)
           logged    == Append(ledger, run)
           moved     == RunTransition(ledger, evaluation, clock)
           demotion  == Demotion(ledger, ct, clock, "demotion_critical_presend")
           promotion == Promotion(logged, ct, clock)
<1>1. MayFollow(ledger, run) /\ MayMove(logged, moved)
  BY ReadState, RunPlan
<1>2. moved \in Seq(Entry) /\ Planned(moved) \subseteq Entry
  <2>1. moved = <<>> \/ \E entry \in Entry : moved = <<entry>>
    BY <1>1 DEF MayMove
  <2> HIDE DEF moved
  <2>2. CASE moved = <<>>
    BY <2>2 DEF Planned
  <2>3. ASSUME NEW entry \in Entry, moved = <<entry>>
        PROVE  moved \in Seq(Entry) /\ Planned(moved) \subseteq Entry
    BY <2>3, PlannedOne
  <2> QED
    BY <2>1, <2>2, <2>3
<1>3. /\ demotion.kind = "transition" /\ demotion.campaign_type = ct
      /\ promotion.kind = "transition" /\ promotion.campaign_type = ct
  BY DEF Demotion, Promotion, Transition
<1>4. promotion.to_tier # ASSIST
  <2>1. Sound(logged) /\ ct \in CampaignTypes
    BY <1>1, ReadState, SoundAppend, InputAssumption DEF Evaluation
  <2>2. TierOf(logged, ct) \in Tier
    BY <2>1, CurrentState DEF Sound
  <2> HIDE DEF logged
  <2> QED
    BY <2>2 DEF Promotion, Transition, Tier, ASSIST, SUPERVISED
<1> HIDE DEF demotion, promotion, logged
<1>5. \/ moved = <<>>
      \/ RunDemotes(ledger, evaluation) /\ moved = <<demotion>>
      \/ moved = <<promotion>>
  BY DEF RunTransition, demotion, promotion, logged
<1> HIDE DEF moved, ct
<1>6. \/ Planned(moved) = {}
      \/ RunDemotes(ledger, evaluation) /\ Planned(moved) = {demotion}
      \/ Planned(moved) = {promotion}
  <2>1. CASE moved = <<>>
    BY <2>1 DEF Planned
  <2> QED
    BY <1>5, <2>1, PlannedOne
<1> QED
  BY <1>2, <1>3, <1>4, <1>6 DEF moved, ct

\* The item and the trace of a run tell the same, and tell the decision.
LEMMA RunTells ==
  ASSUME NEW evaluation
  PROVE  /\ Matches(RunItem(evaluation), RunTrace(evaluation))
         /\ RunItem(evaluation).status # "approved"
         /\ RunTrace(evaluation).decision = RunFact(ledger, evaluation, clock).decision
  BY DEF Matches, RunItem, RunTrace, QueueItemFromDecision

LEMMA RunPlanned ==
  ASSUME SInv, NEW evaluation \in Evaluations, RecordRun(evaluation)
  PROVE  LET id    == evaluation.run_id
             ct    == evaluation.campaign_type
             run   == RunFact(ledger, evaluation, clock)
             moved == RunTransition(ledger, evaluation, clock)
             enq   == [do |-> "enqueue", id |-> id, item |-> RunItem(evaluation)]
             trace == [do |-> "trace", id |-> id, trace |-> RunTrace(evaluation)]
             down  == {c \in {[do |-> "downgrade", ct |-> ct]} : RunDemotes(ledger, evaluation)}
         IN  /\ id \notin RecordedIds
             /\ \E rest \in Seq(Commit) : /\ Begin(<<run>> \o moved, rest)
                                          /\ \A c \in Planned(rest) : c.do # "append"
             /\ Planned(call) = {}
             /\ Planned(call') = {Committed(entry) : entry \in {run} \cup Planned(moved)}
                                   \cup ({enq, trace} \cup down)
             /\ UNCHANGED <<ledger, items, traces, candidates, screen, ceiling, clock, crashes>>
<1> DEFINE id    == evaluation.run_id
           ct    == evaluation.campaign_type
           run   == RunFact(ledger, evaluation, clock)
           moved == RunTransition(ledger, evaluation, clock)
           enq   == [do |-> "enqueue", id |-> id, item |-> RunItem(evaluation)]
           trace == [do |-> "trace", id |-> id, trace |-> RunTrace(evaluation)]
           one   == [do |-> "downgrade", ct |-> ct]
           down  == DowngradeIf(RunDemotes(ledger, evaluation), ct)
           es    == <<run>> \o moved
           rest  == <<enq>> \o down \o <<trace>>
<1>1. Begin(es, rest) /\ id \notin RecordedIds
  BY Zenon DEF RecordRun
<1>2. id \in RunIds /\ ct \in CampaignTypes
  BY InputAssumption DEF Evaluation
<1>3. run \in Entry /\ moved \in Seq(Entry)
  BY ReadState, RunPlan, RunMoves DEF MayFollow
<1>4. enq \in Commit /\ trace \in Commit /\ one \in Commit
      /\ enq.do # "append" /\ trace.do # "append" /\ one.do # "append"
  BY <1>2, ReadState, RunItemTyped DEF Commit
<1> HIDE DEF run, moved, enq, trace, one, id, ct
<1>5. es \in Seq(Entry) /\ Planned(es) = {run} \cup Planned(moved)
  BY <1>3, FactPlanned, Zenon
<1>6. /\ down \in Seq(Commit)
      /\ Planned(down) = {c \in {one} : RunDemotes(ledger, evaluation)}
  <2>1. CASE RunDemotes(ledger, evaluation)
    <3>1. down = <<one>>
      BY <2>1 DEF DowngradeIf, one
    <3> HIDE DEF down
    <3> QED
      BY <1>4, <2>1, <3>1, PlannedOne
  <2>2. CASE ~RunDemotes(ledger, evaluation)
    <3>1. down = <<>>
      BY <2>2 DEF DowngradeIf
    <3> HIDE DEF down
    <3> QED
      BY <2>2, <3>1 DEF Planned
  <2> QED
    BY <2>1, <2>2
<1> HIDE DEF down
<1>7. rest \in Seq(Commit) /\ Planned(rest) = {enq, trace} \cup Planned(down)
  <2>1. /\ <<enq>> \in Seq(Commit) /\ Planned(<<enq>>) = {enq}
        /\ <<trace>> \in Seq(Commit) /\ Planned(<<trace>>) = {trace}
    BY <1>4, OnePlanned, Zenon
  <2>2. /\ <<enq>> \o down \in Seq(Commit)
        /\ Planned(<<enq>> \o down) = Planned(<<enq>>) \cup Planned(down)
    BY <1>6, <2>1, BothPlanned, Zenon
  <2> DEFINE first == <<enq>> \o down
             last  == <<trace>>
  <2>3. rest = first \o last
    OBVIOUS
  <2> HIDE DEF first, last, rest
  <2>4. rest \in Seq(Commit) /\ Planned(rest) = Planned(first) \cup Planned(last)
    BY <2>1, <2>2, <2>3, BothPlanned, Zenon DEF first, last
  <2> QED
    BY <2>1, <2>2, <2>4 DEF first, last
<1> HIDE DEF rest
<1>10. \A c \in Planned(rest) : c.do # "append"
  BY <1>4, <1>6, <1>7
<1>11. \E more \in Seq(Commit) : /\ Begin(<<run>> \o moved, more)
                                 /\ \A c \in Planned(more) : c.do # "append"
  BY <1>1, <1>7, <1>10
<1> HIDE DEF es
<1>8. /\ Planned(call) = {}
      /\ Planned(call') = {Committed(entry) : entry \in Planned(es)} \cup Planned(rest)
      /\ UNCHANGED <<ledger, items, traces, candidates, screen, ceiling, clock, crashes>>
  BY <1>1, <1>5, <1>7, Begins, Zenon
<1>9. Planned(call') = {Committed(entry) : entry \in {run} \cup Planned(moved)}
                         \cup ({enq, trace} \cup {c \in {one} : RunDemotes(ledger, evaluation)})
  BY <1>5, <1>6, <1>7, <1>8
<1> QED
  BY <1>1, <1>8, <1>9, <1>11 DEF run, moved, enq, trace, one, id, ct

LEMMA RunKeepsStores ==
  ASSUME SInv, Agreed, Unapproved, NEW evaluation \in Evaluations, RecordRun(evaluation)
  PROVE  /\ Agreed' /\ Unapproved'
         /\ Owed /\ Guarded => (Owed /\ Guarded)'
<1> DEFINE id    == evaluation.run_id
           type  == evaluation.campaign_type
           run   == RunFact(ledger, evaluation, clock)
           moved == RunTransition(ledger, evaluation, clock)
           item  == RunItem(evaluation)
           told  == RunTrace(evaluation)
           enq   == [do |-> "enqueue", id |-> id, item |-> item]
           trace == [do |-> "trace", id |-> id, trace |-> told]
           one   == [do |-> "downgrade", ct |-> type]
           down  == {c \in {one} : RunDemotes(ledger, evaluation)}
           E     == {run} \cup Planned(moved)
           R     == {enq, trace} \cup down
<1>1. /\ id \notin RecordedIds
      /\ Planned(call) = {}
      /\ Planned(call') = {Committed(entry) : entry \in E} \cup R
      /\ UNCHANGED <<ledger, items, traces, candidates, screen, ceiling, clock, crashes>>
  BY RunPlanned, Zenon
<1>2. /\ enq.do = "enqueue" /\ enq.id = id /\ enq.item = item
      /\ trace.do = "trace" /\ trace.id = id /\ trace.trace = told
      /\ one.do = "downgrade" /\ one.ct = type
  OBVIOUS
<1>3. /\ Matches(item, told) /\ item.status # "approved"
      /\ told.decision = run.decision
  BY RunTells
<1>4. /\ \A entry \in Planned(moved) :
           /\ entry.kind = "transition" /\ entry.campaign_type = type
           /\ entry.to_tier = ASSIST => RunDemotes(ledger, evaluation)
  BY RunMoves
<1>5. /\ run.kind = "run" /\ run.run_id = id /\ run.campaign_type = type
      /\ run.decision = "auto_send" => ~RunDemotes(ledger, evaluation)
  BY DEF RunFact, Decide, AutoSends, Passed, RunDemotes
<1>6. /\ item.campaign_type = type
      /\ item.status = "in_flight" => IsAutoSend(run, type)
  BY ReadState, RunItemTyped
<1>7. MayFollow(ledger, run) /\ Sound(ledger) /\ type \in CampaignTypes
  BY ReadState, RunPlan, InputAssumption DEF Evaluation
<1> HIDE DEF run, moved, item, told, enq, trace, one, id, type
<1>8. \A c \in R : c.do # "append"
  BY <1>2
<1> HIDE DEF E, R
<1>9. /\ \A kind : Plans(kind) = {}
      /\ \A kind : kind # "append" => Plans(kind)' = {c \in R : c.do = kind}
      /\ Plans("append")' = {Committed(entry) : entry \in E}
      /\ Entries = {ledger[i] : i \in DOMAIN ledger}
      /\ Entries' = Entries \cup E
      /\ RecordedIds' = RecordedIds
      /\ \A entry \in Entries : entry.kind = "run" => entry.run_id \in RecordedIds
  BY <1>1, <1>8, BegunPlans, Zenon
<1>10. /\ Plans("enqueue")' = {enq} /\ Plans("trace")' = {trace} /\ Plans("flag")' = {}
       /\ Plans("mark")' = {} /\ Plans("show")' = {}
       /\ RunDemotes(ledger, evaluation) => one \in Plans("downgrade")'
  BY <1>2, <1>9 DEF R
<1>11. DOMAIN items \subseteq RecordedIds /\ DOMAIN traces \subseteq RecordedIds
  BY DEF Agreed, Recorded
<1>12. /\ \A key : key # id => ItemsOf(key)' = ItemsOf(key) /\ TracesOf(key)' = TracesOf(key)
       /\ ItemsOf(id)' = {item} /\ TracesOf(id)' = {told}
  BY <1>1, <1>2, <1>9, <1>10, <1>11 DEF ItemsOf, TracesOf
<1>13. Offered' = Offered /\ id \notin Offered /\ Flagged' = Flagged
  <2>1. \A c \in Planned(call') : ~Offers(c)
    BY <1>1, <1>2 DEF Offers, Approves, Committed, R
  <2> QED
    BY <1>1, <1>9, <1>10, <2>1 DEF Agreed, Recorded, Offered, Flagged
<1>14. Agreed'
  <2>1. Recorded'
    <3>1. run \in Entries'
      BY <1>9 DEF E
    <3> QED
      BY <1>1, <1>2, <1>5, <1>9, <1>10, <1>11, <1>13, <3>1 DEF Agreed, Recorded
  <2>2. Told'
    BY <1>3, <1>12 DEF Agreed, Told
  <2>3. Screened'
    BY <1>12, <1>13 DEF Agreed, Screened
  <2>4. Decided'
    <3>1. \A entry \in Entries : entry.kind = "run" => entry.run_id # id
      BY <1>1, <1>9
    <3>2. \A entry \in E : entry.kind = "run" => entry = run
      BY <1>4 DEF E
    <3> QED
      BY <1>3, <1>5, <1>9, <1>12, <3>1, <3>2 DEF Agreed, Decided
  <2> QED
    BY <2>1, <2>2, <2>3, <2>4 DEF Agreed
<1>15. Unapproved'
  BY <1>2, <1>3, <1>10 DEF Unapproved
<1>16. Owed => Owed'
  <2>1. \A entry \in E : entry = run \/ entry.kind = "transition"
    BY <1>4 DEF E
  <2>2. \A entry \in Entries : entry.kind = "run" => entry.run_id # id
    BY <1>1, <1>9
  <2>3. ASSUME Owed, NEW entry \in Entries
        PROVE  /\ entry.kind = "run" => ItemsOf(entry.run_id)' # {} /\ TracesOf(entry.run_id)' # {}
               /\ entry.kind = "outcome" /\ entry.blind_spot => entry.run_id \in Flagged'
    BY <1>12, <1>13, <2>2, <2>3 DEF Owed
  <2>4. ASSUME NEW entry \in E
        PROVE  /\ entry.kind = "run" => ItemsOf(entry.run_id)' # {} /\ TracesOf(entry.run_id)' # {}
               /\ entry.kind = "outcome" /\ entry.blind_spot => entry.run_id \in Flagged'
    BY <1>5, <1>12, <2>1
  <2> QED
    BY <1>9, <2>3, <2>4 DEF Owed
<1>17. Guarded => Guarded'
  <2>1. \A c \in Plans("append")' : \E entry \in E : c.entry = entry
    BY <1>9 DEF Committed
  <2>2. ASSUME NEW ct \in CampaignTypes, TierOf(ledger, ct) > ASSIST,
               StandingOf(ledger, ct) = "active", ct # type \/ ~RunDemotes(ledger, evaluation)
        PROVE  Safe(ct)'
    <3>1. \A entry \in E : ~Lowers(entry, ct)
      BY <1>4, <1>5, <2>2 DEF E, Lowers, IsTransition
    <3> QED
      BY <1>1, <2>1, <2>2, <3>1 DEF Safe
  <2>3. \A ct : ~Dropping(ct)
    BY <1>9 DEF Dropping
  <2>4. RunDemotes(ledger, evaluation) => Dropping(type)'
    BY <1>2, <1>10 DEF Dropping
  <2>5. \A ct : InFlight(ct)' = InFlight(ct)
    BY <1>1 DEF InFlight, ByStatus
  <2>6. ASSUME item.status = "in_flight" PROVE Safe(type)'
    <3>1. IsAutoSend(run, type) /\ ~RunDemotes(ledger, evaluation)
      BY <1>5, <1>6, <2>6 DEF IsAutoSend
    <3>2. TierOf(ledger, type) > ASSIST /\ StandingOf(ledger, type) = "active"
      BY <1>7, <3>1, SentIsSafe
    <3> QED
      BY <1>7, <2>2, <3>1, <3>2
  <2>7. ASSUME Guarded, NEW ct \in CampaignTypes, InFlight(ct)' # {}
        PROVE  Safe(ct)' \/ Dropping(ct)'
    <3>1. Safe(ct)
      BY <2>3, <2>5, <2>7 DEF Guarded
    <3>2. TierOf(ledger, ct) > ASSIST /\ StandingOf(ledger, ct) = "active"
      BY <3>1 DEF Safe
    <3> QED
      BY <2>2, <2>4, <3>2
  <2> QED
    BY <1>2, <1>6, <1>10, <2>6, <2>7 DEF Guarded
<1> QED
  BY <1>14, <1>15, <1>16, <1>17

\* A call that queues nothing and traces nothing: what it appends and what it
\* does of the rest.
QuietWork(E, R) ==
  /\ \A entry \in E : entry.kind # "run"
  /\ \A c \in R : c.do \notin {"append", "enqueue", "trace"}
  /\ \A c \in R : Offers(c) =>
       /\ c.ids \subseteq RecordedIds
       /\ \A id \in c.ids \cap DOMAIN items : ClassifyLane(items[id]) = "batch"
  /\ \A entry \in E : entry.kind = "outcome" /\ entry.blind_spot =>
       \E c \in R : c.do = "flag" /\ c.id = entry.run_id
  /\ \A ct \in CampaignTypes :
       Safe(ct) => \/ \A entry \in E : ~Lowers(entry, ct)
                   \/ \E c \in R : c.do = "downgrade" /\ c.ct = ct

LEMMA QuietCallKeepsStores ==
  ASSUME SInv, Agreed, Unapproved, NEW E, NEW R, QuietWork(E, R),
         Planned(call) = {}, Planned(call') = {Committed(entry) : entry \in E} \cup R,
         UNCHANGED <<ledger, items, traces, candidates, screen>>
  PROVE  /\ Agreed' /\ Unapproved'
         /\ Owed /\ Guarded => (Owed /\ Guarded)'
<1>1. (\A c \in R : c.do # "append") /\ UNCHANGED ledger
  BY DEF QuietWork
<1>2. /\ \A kind : Plans(kind) = {}
      /\ \A kind : kind # "append" => Plans(kind)' = {c \in R : c.do = kind}
      /\ Plans("append")' = {Committed(entry) : entry \in E}
      /\ Entries = {ledger[i] : i \in DOMAIN ledger}
      /\ Entries' = Entries \cup E
      /\ RecordedIds' = RecordedIds
      /\ \A entry \in Entries : entry.kind = "run" => entry.run_id \in RecordedIds
  BY <1>1, BegunPlans, Zenon
<1>3. Plans("enqueue")' = {} /\ Plans("trace")' = {}
  BY <1>2 DEF QuietWork
<1>4. /\ \A id : ItemsOf(id)' = ItemsOf(id) /\ TracesOf(id)' = TracesOf(id)
      /\ \A id : ItemsOf(id) = {items[key] : key \in DOMAIN items \cap {id}}
      /\ \A status : ByStatus(status)' = ByStatus(status)
      /\ \A ct : InFlight(ct)' = InFlight(ct)
  BY <1>2, <1>3 DEF ItemsOf, TracesOf, ByStatus, InFlight
<1>5. Offered = screen
  BY DEF Offered
<1>6. Offered' = screen \cup UNION {c.ids : c \in {d \in R : Offers(d)}}
  <2>1. \A entry : ~Offers(Committed(entry))
    BY DEF Offers, Approves, Committed
  <2>2. {d \in Planned(call') : Offers(d)} = {d \in R : Offers(d)}
    BY <2>1
  <2> QED
    BY <2>2 DEF Offered
<1>7. Recorded'
  BY <1>2, <1>3, <1>5, <1>6 DEF QuietWork, Agreed, Recorded
<1>8. Told'
  BY <1>4 DEF Agreed, Told
<1>9. Screened'
  BY <1>4, <1>5, <1>6 DEF QuietWork, Agreed, Screened
<1>10. Decided'
  BY <1>2, <1>4 DEF QuietWork, Agreed, Decided
<1>11. Unapproved'
  BY <1>3 DEF Unapproved
<1>12. Owed => Owed'
  <2>1. Flagged \subseteq Flagged'
    BY <1>2 DEF Flagged
  <2>2. \A entry \in E : entry.kind = "outcome" /\ entry.blind_spot => entry.run_id \in Flagged'
    BY <1>2 DEF QuietWork, Flagged
  <2>3. \A entry \in E : entry.kind # "run"
    BY DEF QuietWork
  <2>4. ASSUME Owed, NEW entry \in Entries
        PROVE  /\ entry.kind = "run" => ItemsOf(entry.run_id)' # {} /\ TracesOf(entry.run_id)' # {}
               /\ entry.kind = "outcome" /\ entry.blind_spot => entry.run_id \in Flagged'
    BY <1>4, <2>1, <2>4 DEF Owed
  <2> QED
    BY <1>2, <2>2, <2>3, <2>4 DEF Owed
<1>13. Guarded => Guarded'
  <2>1. \A c \in Plans("append")' : \E entry \in E : c.entry = entry
    BY <1>2 DEF Committed
  <2>2. ASSUME NEW ct \in CampaignTypes, Safe(ct) PROVE Safe(ct)' \/ Dropping(ct)'
    <3>1. CASE \A entry \in E : ~Lowers(entry, ct)
      BY <2>1, <2>2, <3>1 DEF Safe
    <3>2. CASE \E c \in R : c.do = "downgrade" /\ c.ct = ct
      BY <1>2, <3>2 DEF Dropping
    <3> QED
      BY <2>2, <3>1, <3>2 DEF QuietWork
  <2>3. \A ct : ~Dropping(ct)
    BY <1>2 DEF Dropping
  <2> QED
    BY <1>3, <1>4, <2>2, <2>3 DEF Guarded
<1> QED
  BY <1>7, <1>8, <1>9, <1>10, <1>11, <1>12, <1>13 DEF Agreed

LEMMA OutcomeRest ==
  ASSUME NEW demoted, NEW ct \in CampaignTypes, NEW outcome, outcome.run_id \in RunIds
  PROVE  LET rest == DowngradeIf(demoted, ct) \o FlagIf(outcome)
         IN  /\ rest \in Seq(Commit)
             /\ Planned(rest) = {c \in {[do |-> "downgrade", ct |-> ct]} : demoted}
                                  \cup {c \in {[do |-> "flag", id |-> outcome.run_id]} :
                                          outcome.blind_spot}
<1> DEFINE one   == [do |-> "downgrade", ct |-> ct]
           flag  == [do |-> "flag", id |-> outcome.run_id]
           down  == DowngradeIf(demoted, ct)
           flags == FlagIf(outcome)
<1>1. one \in Commit /\ flag \in Commit
  BY DEF Commit
<1>2. down = (IF demoted THEN <<one>> ELSE <<>>) /\ flags = (IF outcome.blind_spot THEN <<flag>> ELSE <<>>)
  BY Zenon DEF DowngradeIf, FlagIf
<1> HIDE DEF one, flag, down, flags
<1>3. down \in Seq(Commit) /\ Planned(down) = {c \in {one} : demoted}
  <2>1. CASE demoted
    BY <1>1, <1>2, <2>1, OnePlanned
  <2>2. CASE ~demoted
    BY <1>2, <2>2 DEF Planned
  <2> QED
    BY <2>1, <2>2
<1>4. flags \in Seq(Commit) /\ Planned(flags) = {c \in {flag} : outcome.blind_spot}
  <2>1. CASE outcome.blind_spot
    BY <1>1, <1>2, <2>1, OnePlanned
  <2>2. CASE ~outcome.blind_spot
    BY <1>2, <2>2 DEF Planned
  <2> QED
    BY <2>1, <2>2
<1>5. /\ down \o flags \in Seq(Commit)
      /\ Planned(down \o flags) = Planned(down) \cup Planned(flags)
  BY <1>3, <1>4, BothPlanned, Zenon
<1>6. Planned(down \o flags) = {c \in {one} : demoted} \cup {c \in {flag} : outcome.blind_spot}
  BY <1>3, <1>4, <1>5, Zenon
<1> QED
  BY <1>5, <1>6, Zenon DEF one, flag, down, flags

LEMMA OutcomePlanned ==
  ASSUME SInv, NEW report \in Reports, ProcessOutcome(report)
  PROVE  LET ct       == report.campaign_type
             fact     == OutcomeFact(ledger, report, clock)
             demotion == Demotion(ledger, ct, clock, "demotion_deliverability")
             one      == [do |-> "downgrade", ct |-> ct]
             flag     == [do |-> "flag", id |-> fact.run_id]
         IN  /\ Planned(call) = {}
             /\ Planned(call') =
                  {Committed(entry) : entry \in
                     {fact} \cup {e \in {demotion} : ReportDemotes(ledger, report)}}
                  \cup ({c \in {one} : ReportDemotes(ledger, report)}
                          \cup {c \in {flag} : fact.blind_spot})
             /\ UNCHANGED <<ledger, items, traces, candidates, screen, ceiling, clock, crashes>>
<1> DEFINE ct       == report.campaign_type
           fact     == OutcomeFact(ledger, report, clock)
           moved    == OutcomeTransition(ledger, report, clock)
           demotion == Demotion(ledger, ct, clock, "demotion_deliverability")
           one      == [do |-> "downgrade", ct |-> ct]
           flag     == [do |-> "flag", id |-> fact.run_id]
           es       == <<fact>> \o moved
           rest     == DowngradeIf(ReportDemotes(ledger, report), ct) \o FlagIf(fact)
<1>1. Begin(es, rest)
  BY Zenon DEF ProcessOutcome
<1>2. /\ MayFollow(ledger, fact) /\ MayMove(Append(ledger, fact), moved)
      /\ fact.run_id \in RunIds
      /\ ct \in CampaignTypes
  BY ReadState, OutcomePlan, InputAssumption DEF Report
<1>3. fact.kind = "outcome" /\ fact.blind_spot \in BOOLEAN
  BY DEF OutcomeFact, Breached
<1>4. one \in Commit /\ flag \in Commit
      /\ one.do = "downgrade" /\ one.ct = ct /\ flag.do = "flag" /\ flag.id = fact.run_id
  BY <1>2 DEF Commit
<1>5. demotion.kind = "transition" /\ demotion.campaign_type = ct
  BY DEF Demotion, Transition
<1> HIDE DEF demotion
<1>6. /\ moved \in Seq(Entry)
      /\ Planned(moved) = {e \in {demotion} : ReportDemotes(ledger, report)}
  <2>1. CASE ReportDemotes(ledger, report)
    <3>1. moved = <<demotion>>
      BY <2>1 DEF OutcomeTransition, demotion
    <3>2. \E entry \in Entry : moved = <<entry>>
      BY <1>2, <3>1 DEF MayMove
    <3> HIDE DEF moved
    <3>3. moved \in Seq(Entry)
      BY <3>2
    <3> QED
      BY <2>1, <3>1, <3>3, PlannedOne
  <2>2. CASE ~ReportDemotes(ledger, report)
    <3>1. moved = <<>>
      BY <2>2 DEF OutcomeTransition
    <3> HIDE DEF moved
    <3> QED
      BY <2>2, <3>1 DEF Planned
  <2> QED
    BY <2>1, <2>2
<1>7. /\ rest \in Seq(Commit)
      /\ Planned(rest) = {c \in {one} : ReportDemotes(ledger, report)}
                           \cup {c \in {flag} : fact.blind_spot}
  <2> HIDE DEF fact
  <2> QED
    BY <1>2, OutcomeRest
<1> HIDE DEF moved, one, flag, fact, rest
<1>9. es \in Seq(Entry) /\ Planned(es) = {fact} \cup Planned(moved)
  BY <1>2, <1>6, FactPlanned, Zenon DEF MayFollow
<1> HIDE DEF es
<1> DEFINE E == Planned(es)
           R == Planned(rest)
<1>11. /\ Planned(call) = {}
       /\ Planned(call') = {Committed(entry) : entry \in E} \cup R
       /\ UNCHANGED <<ledger, items, traces, candidates, screen, ceiling, clock, crashes>>
  BY <1>1, <1>7, <1>9, Begins, Zenon
<1> QED
  BY <1>6, <1>7, <1>9, <1>11 DEF demotion, one, flag, fact

LEMMA OutcomeKeepsStores ==
  ASSUME SInv, Agreed, Unapproved, NEW report \in Reports, ProcessOutcome(report)
  PROVE  /\ Agreed' /\ Unapproved'
         /\ Owed /\ Guarded => (Owed /\ Guarded)'
<1> DEFINE ct       == report.campaign_type
           fact     == OutcomeFact(ledger, report, clock)
           demotion == Demotion(ledger, ct, clock, "demotion_deliverability")
           one      == [do |-> "downgrade", ct |-> ct]
           flag     == [do |-> "flag", id |-> fact.run_id]
           E == {fact} \cup {e \in {demotion} : ReportDemotes(ledger, report)}
           R == {c \in {one} : ReportDemotes(ledger, report)}
                  \cup {c \in {flag} : fact.blind_spot}
<1>3. fact.kind = "outcome" /\ fact.blind_spot \in BOOLEAN
  BY DEF OutcomeFact, Breached
<1>4. one.do = "downgrade" /\ one.ct = ct /\ flag.do = "flag" /\ flag.id = fact.run_id
  OBVIOUS
<1>5. demotion.kind = "transition" /\ demotion.campaign_type = ct
  BY DEF Demotion, Transition
<1>11. /\ Planned(call) = {}
       /\ Planned(call') = {Committed(entry) : entry \in E} \cup R
       /\ UNCHANGED <<ledger, items, traces, candidates, screen, ceiling, clock, crashes>>
  BY OutcomePlanned, Zenon
<1> HIDE DEF demotion, one, flag, fact
<1>12. /\ E = {fact} \cup {e \in {demotion} : ReportDemotes(ledger, report)}
       /\ R = {c \in {one} : ReportDemotes(ledger, report)} \cup {c \in {flag} : fact.blind_spot}
  OBVIOUS
<1> HIDE DEF E, R
<1>13. /\ \A entry \in E : \/ entry = fact
                           \/ entry = demotion /\ ReportDemotes(ledger, report)
       /\ \A c \in R : c.do \in {"downgrade", "flag"}
  BY <1>4, <1>12
<1>14. ReportDemotes(ledger, report) => one \in R
  BY <1>12
<1>15. fact.blind_spot => flag \in R
  BY <1>12
<1>16. \A c \in R : ~Offers(c)
  BY <1>13 DEF Offers, Approves
<1>17. \A entry \in E : entry.kind # "run"
  BY <1>3, <1>5, <1>13
<1>18. \A entry \in E : entry.kind = "outcome" /\ entry.blind_spot =>
         \E c \in R : c.do = "flag" /\ c.id = entry.run_id
  BY <1>4, <1>5, <1>13, <1>15
<1>19. \A type \in CampaignTypes :
         \/ \A entry \in E : ~Lowers(entry, type)
         \/ \E c \in R : c.do = "downgrade" /\ c.ct = type
  BY <1>3, <1>4, <1>5, <1>13, <1>14 DEF Lowers, IsTransition
<1>20. \A c \in R : c.do \notin {"append", "enqueue", "trace"}
  BY <1>13
<1>21. QuietWork(E, R)
  BY <1>16, <1>17, <1>18, <1>19, <1>20, Zenon DEF QuietWork
<1> QED
  BY <1>11, <1>21, QuietCallKeepsStores, Zenon

\* A failed challenge takes nothing from a type with something in flight: the
\* type is on probation already.
LEMMA ChallengeKeepsStores ==
  ASSUME SInv, Agreed, Unapproved, NEW ct \in CampaignTypes, NEW score, Challenge(ct, score)
  PROVE  /\ Agreed' /\ Unapproved'
         /\ Owed /\ Guarded => (Owed /\ Guarded)'
<1> DEFINE judged == ChallengeVerdict(ledger, ct, score, clock)
           es     == <<judged>>
           rest   == <<>>
<1>1. Begin(es, rest) /\ StandingOf(ledger, ct) = "probation"
  BY Zenon DEF Challenge
<1>2. MayFollow(ledger, judged)
  BY <1>1, ReadState, VerdictMayFollow
<1>3. judged.kind = "transition" /\ judged.campaign_type = ct
  BY DEF ChallengeVerdict, Transition
<1> HIDE DEF judged
<1>4. judged \in Entry
  BY <1>2, Zenon DEF MayFollow
<1>5. es \in Seq(Entry) /\ rest \in Seq(Commit)
  BY <1>4
<1>6. Planned(es) = {judged}
  BY <1>4, PlannedOne, Zenon
<1>7. Planned(rest) = {}
  BY DEF Planned
<1> HIDE DEF es, rest
<1>8. /\ Planned(call) = {}
      /\ Planned(call') = {Committed(entry) : entry \in Planned(es)} \cup Planned(rest)
      /\ UNCHANGED <<ledger, items, traces, candidates, screen, ceiling, clock, crashes>>
  BY <1>1, <1>5, Begins, Zenon
<1>9. ~Safe(ct)
  BY <1>1 DEF Safe
<1>10. \A type \in CampaignTypes : Safe(type) => ~Lowers(judged, type)
  BY <1>3, <1>9 DEF Lowers, IsTransition
<1>11. QuietWork(Planned(es), Planned(rest))
  BY <1>3, <1>6, <1>7, <1>10 DEF QuietWork
<1> QED
  BY <1>8, <1>11, QuietCallKeepsStores, Zenon

\* The queue's own calls append nothing.
LEMMA QueueCallBegins ==
  ASSUME NEW rest \in Seq(Commit), Begin(<<>>, rest)
  PROVE  /\ Planned(call) = {}
         /\ Planned(call') = {Committed(entry) : entry \in {}} \cup Planned(rest)
         /\ UNCHANGED <<ledger, items, traces, candidates, screen, ceiling, clock, crashes>>
<1> DEFINE es == <<>>
<1>1. es \in Seq(Entry)
  OBVIOUS
<1>2. Planned(es) = {}
  BY DEF Planned
<1>3. Begin(es, rest)
  OBVIOUS
<1> HIDE DEF es
<1>4. /\ Planned(call) = {}
      /\ Planned(call') = {Committed(entry) : entry \in Planned(es)} \cup Planned(rest)
      /\ UNCHANGED <<ledger, items, traces, candidates, screen, ceiling, clock, crashes>>
  BY <1>1, <1>3, Begins, Zenon
<1> QED
  BY <1>2, <1>4, Zenon

\* A refresh expires pending work only, and shows work of the batch lane.
LEMMA RefreshKeepsStores ==
  ASSUME SInv, Agreed, Unapproved, RefreshQueue
  PROVE  /\ Agreed' /\ Unapproved'
         /\ Owed /\ Guarded => (Owed /\ Guarded)'
<1> DEFINE mark == [do |-> "mark", ids |-> NewlyExpired(clock), status |-> "expired"]
           show == [do |-> "show", ids |-> LaneAt("batch", clock)]
           rest == <<mark, show>>
<1>1. Begin(<<>>, rest)
  BY DEF RefreshQueue
<1>2. DOMAIN items \subseteq RunIds /\ DOMAIN items \subseteq RecordedIds
  BY DEF SInv, ServiceTypeOK, QueueTypeOK, Agreed, Recorded
<1>3. /\ NewlyExpired(clock) \subseteq ByStatus("pending")
      /\ LaneAt("batch", clock) \subseteq DOMAIN items
      /\ \A id \in LaneAt("batch", clock) : ClassifyLane(items[id]) = "batch"
      /\ ByStatus("pending") \subseteq DOMAIN items
  BY DEF NewlyExpired, LaneAt, ByStatus
<1>4. mark \in Commit /\ show \in Commit
  BY <1>2, <1>3 DEF Commit
<1>5. /\ mark.do = "mark" /\ mark.ids = NewlyExpired(clock) /\ mark.status = "expired"
      /\ show.do = "show" /\ show.ids = LaneAt("batch", clock)
  OBVIOUS
<1> HIDE DEF mark, show
<1>6. rest \in Seq(Commit) /\ DOMAIN rest = {1, 2} /\ rest[1] = mark /\ rest[2] = show
  BY <1>4
<1> HIDE DEF rest
<1>7. Planned(rest) = {mark, show}
  BY <1>6 DEF Planned
<1>8. ~Offers(mark)
  BY <1>5 DEF Offers, Approves
<1>9. QuietWork({}, Planned(rest))
  BY <1>2, <1>3, <1>5, <1>7, <1>8 DEF QuietWork
<1>10. /\ Planned(call) = {}
       /\ Planned(call') = {Committed(entry) : entry \in {}} \cup Planned(rest)
       /\ UNCHANGED <<ledger, items, traces, candidates, screen, ceiling, clock, crashes>>
  BY <1>1, <1>6, QueueCallBegins, Zenon
<1> QED
  BY <1>9, <1>10, QuietCallKeepsStores, Zenon

\* Approve-all sends what the screen shows, however old it is.
LEMMA ApproveAllKeepsStores ==
  ASSUME SInv, Agreed, Unapproved, ApproveAll
  PROVE  /\ Agreed' /\ Unapproved'
         /\ Owed /\ Guarded => (Owed /\ Guarded)'
<1> DEFINE mark == [do |-> "mark", ids |-> screen, status |-> "approved"]
           rest == <<mark>>
<1>1. Begin(<<>>, rest)
  BY DEF ApproveAll
<1>2. /\ screen \subseteq RunIds /\ screen \subseteq RecordedIds
      /\ \A id \in screen : \A item \in ItemsOf(id) : ClassifyLane(item) = "batch"
  BY DEF SInv, ServiceTypeOK, Agreed, Recorded, Screened, Offered
<1>3. \A id \in DOMAIN items : items[id] \in ItemsOf(id)
  BY DEF ItemsOf
<1>4. mark \in Commit
  BY <1>2 DEF Commit
<1>5. mark.do = "mark" /\ mark.ids = screen /\ mark.status = "approved"
  OBVIOUS
<1> HIDE DEF mark
<1>6. rest \in Seq(Commit) /\ Planned(rest) = {mark}
  BY <1>4, OnePlanned
<1> HIDE DEF rest
<1>8. QuietWork({}, Planned(rest))
  BY <1>2, <1>3, <1>5, <1>6 DEF QuietWork
<1>9. /\ Planned(call) = {}
      /\ Planned(call') = {Committed(entry) : entry \in {}} \cup Planned(rest)
      /\ UNCHANGED <<ledger, items, traces, candidates, screen, ceiling, clock, crashes>>
  BY <1>1, <1>6, QueueCallBegins, Zenon
<1> QED
  BY <1>8, <1>9, QuietCallKeepsStores, Zenon

-----------------------------------------------------------------------------
(***************************************************************************)
(* The environment.  A crash drops the rest of the plan: what was to agree *)
(* still agrees, what was owed is lost.                                    *)
(***************************************************************************)
LEMMA CrashKeepsAgreed ==
  ASSUME Agreed, UNCHANGED <<ledger, items, traces, candidates, screen>>, call' = <<>>
  PROVE  Agreed' /\ Unapproved'
<1>1. Planned(call') = {}
  BY DEF Planned
<1>2. \A kind : Plans(kind)' = {}
  BY <1>1 DEF Plans
<1>3. /\ Entries' \subseteq Entries /\ Offered' \subseteq Offered
      /\ RecordedIds' = RecordedIds
  BY <1>1, <1>2 DEF Entries, Offered, RecordedIds
<1>4. \A id : ItemsOf(id)' \subseteq ItemsOf(id) /\ TracesOf(id)' \subseteq TracesOf(id)
  BY <1>2 DEF ItemsOf, TracesOf
<1>5. \A id : \A item \in ItemsOf(id)' : \E other \in ItemsOf(id) : SameLook(item, other)
  BY <1>4 DEF SameLook
<1>6. DOMAIN items' \subseteq RecordedIds' /\ DOMAIN traces' \subseteq RecordedIds'
  BY <1>3 DEF Agreed, Recorded
<1>7. \A c \in (Plans("enqueue") \cup Plans("trace"))' :
        \E entry \in Entries' : entry.kind = "run" /\ entry.run_id = c.id
  BY <1>2
<1>8. Agreed'
  BY <1>3, <1>4, <1>5, <1>6, <1>7, AgreedKept
<1>9. Unapproved'
  BY <1>1, <1>2 DEF Unapproved
<1> QED
  BY <1>8, <1>9

-----------------------------------------------------------------------------
LEMMA InitStores == ServiceInit => StoresInv
<1> SUFFICES ASSUME ServiceInit PROVE StoresInv
  OBVIOUS
<1>1. /\ ledger = <<>> /\ DOMAIN items = {} /\ DOMAIN traces = {} /\ candidates = {}
      /\ screen = {} /\ call = <<>>
  BY DEF ServiceInit, Init, QueueInit
<1>2. Planned(call) = {}
  BY <1>1 DEF Planned
<1>3. \A kind : Plans(kind) = {}
  BY <1>2 DEF Plans
<1>4. DOMAIN ledger = {}
  BY <1>1
<1>5. Entries = {}
  BY <1>3, <1>4 DEF Entries
<1>6. Offered = {} /\ \A id : ItemsOf(id) = {}
  BY <1>1, <1>2, <1>3 DEF Offered, ItemsOf
<1>7. \A ct : InFlight(ct) = {}
  BY <1>1 DEF InFlight, ByStatus
<1>8. Agreed
  BY <1>1, <1>3, <1>5, <1>6 DEF Agreed, Recorded, Told, Screened, Decided
<1>9. Unapproved
  BY <1>2, <1>3 DEF Unapproved
<1>10. Uncut
  BY <1>3, <1>5, <1>7 DEF Uncut, Owed, Guarded
<1> QED
  BY <1>8, <1>9, <1>10 DEF StoresInv

LEMMA NextStores == StoresInv /\ SInv /\ [ServiceNext]_svars => StoresInv'
<1> SUFFICES ASSUME StoresInv, SInv, [ServiceNext]_svars PROVE StoresInv'
  OBVIOUS
<1>1. Agreed /\ Unapproved /\ Uncut
  BY DEF StoresInv
<1>2. ASSUME Agreed', Unapproved', Owed /\ Guarded => (Owed /\ Guarded)', UNCHANGED crashes
      PROVE  StoresInv'
  BY <1>1, <1>2 DEF StoresInv, Uncut
<1>3. CASE \E evaluation \in Evaluations : RecordRun(evaluation)
  <2>1. UNCHANGED crashes
    BY <1>3 DEF RecordRun, Begin
  <2> QED
    BY <1>1, <1>2, <1>3, <2>1, RunKeepsStores
<1>4. CASE \E report \in Reports : ProcessOutcome(report)
  <2>1. UNCHANGED crashes
    BY <1>4 DEF ProcessOutcome, Begin
  <2> QED
    BY <1>1, <1>2, <1>4, <2>1, OutcomeKeepsStores
<1>5. CASE \E ct \in CampaignTypes, score \in Challenges : Challenge(ct, score)
  <2>1. UNCHANGED crashes
    BY <1>5 DEF Challenge, Begin
  <2> QED
    BY <1>1, <1>2, <1>5, <2>1, ChallengeKeepsStores
<1>6. CASE RefreshQueue \/ ApproveAll
  <2>1. UNCHANGED crashes
    BY <1>6 DEF RefreshQueue, ApproveAll, Begin
  <2> QED
    BY <1>1, <1>2, <1>6, <2>1, RefreshKeepsStores, ApproveAllKeepsStores
<1>7. CASE Step
  <2>1. UNCHANGED crashes
    BY <1>7 DEF Step, AppendEntry, Enqueue, DowngradeInflight, MarkOne, AllMarked,
                StoreTrace, FlagCandidate, Show, Done
  <2> QED
    BY <1>1, <1>2, <1>7, <2>1, AppendKeepsStores, EnqueueKeepsStores, DowngradeKeepsStores,
       MarkKeepsStores, AllMarkedKeepsStores, TraceKeepsStores, FlagKeepsStores,
       ShowKeepsStores DEF Step
<1>8. CASE Tick \/ RestartIdle \/ UNCHANGED svars
  <2>1. UNCHANGED <<ledger, items, traces, candidates, screen, call, crashes>>
    BY <1>8 DEF Tick, RestartIdle, Restart, svars, stores
  <2>2. Planned(call') = Planned(call)
    BY <2>1
  <2> QED
    BY <1>1, <1>2, <2>1, <2>2, PlannedOnly
<1>9. CASE Crash
  <2>1. /\ UNCHANGED <<ledger, items, traces, candidates, screen>> /\ call' = <<>>
        /\ crashes' = crashes + 1
    BY <1>9 DEF Crash, stores
  <2>2. crashes \in 0 .. MaxCrashes /\ MaxCrashes \in Nat
    BY ServiceAssumption DEF SInv, ServiceTypeOK
  <2>3. crashes' # 0
    BY <2>1, <2>2
  <2> QED
    BY <1>1, <2>1, <2>3, CrashKeepsAgreed DEF StoresInv, Uncut
<1> QED
  BY <1>3, <1>4, <1>5, <1>6, <1>7, <1>8, <1>9 DEF ServiceNext

\* What is stored or planned agrees, and as long as no call was cut off nothing
\* is owed and nothing unguarded.
THEOREM StoresInvariant == ServiceSpec => [](SInv /\ StoresInv)
<1>1. ServiceInit => SInv /\ StoresInv
  BY InitSInv, InitStores
<1>2. SInv /\ StoresInv /\ [ServiceNext]_svars => (SInv /\ StoresInv)'
  BY NextSInv, NextStores
<1> QED
  BY <1>1, <1>2, PTL DEF ServiceSpec

-----------------------------------------------------------------------------
(***************************************************************************)
(* Between calls nothing is planned, so what is stored or planned is what  *)
(* is stored.                                                              *)
(***************************************************************************)
LEMMA Idle ==
  ASSUME call = <<>>
  PROVE  /\ \A kind : Plans(kind) = {}
         /\ Entries = {ledger[i] : i \in DOMAIN ledger}
         /\ Flagged = candidates
         /\ \A id : /\ ItemsOf(id) = {items[key] : key \in DOMAIN items \cap {id}}
                    /\ TracesOf(id) = {traces[key] : key \in DOMAIN traces \cap {id}}
<1>1. Planned(call) = {}
  BY DEF Planned
<1>2. \A kind : Plans(kind) = {}
  BY <1>1 DEF Plans
<1> QED
  BY <1>2 DEF Entries, Flagged, ItemsOf, TracesOf

LEMMA AgreedWhenIdle == StoresInv => StoresAgree
<1> SUFFICES ASSUME StoresInv, call = <<>>, crashes = 0
             PROVE  /\ DOMAIN items = RecordedIds
                    /\ DOMAIN traces = RecordedIds
                    /\ \A i \in DOMAIN ledger :
                         /\ ledger[i].kind = "run" =>
                              traces[ledger[i].run_id].decision = ledger[i].decision
                         /\ ledger[i].kind = "outcome" /\ ledger[i].blind_spot =>
                              ledger[i].run_id \in candidates
  BY DEF StoresAgree
<1>1. Recorded /\ Decided /\ Owed
  BY DEF StoresInv, Agreed, Uncut
<1>2. /\ Entries = {ledger[i] : i \in DOMAIN ledger} /\ Flagged = candidates
      /\ \A id : /\ ItemsOf(id) = {items[key] : key \in DOMAIN items \cap {id}}
                 /\ TracesOf(id) = {traces[key] : key \in DOMAIN traces \cap {id}}
  BY Idle
<1>3. ASSUME NEW i \in DOMAIN ledger, ledger[i].kind = "run"
      PROVE  ledger[i].run_id \in DOMAIN items /\ ledger[i].run_id \in DOMAIN traces
  <2>1. ledger[i] \in Entries
    BY <1>2
  <2>2. ItemsOf(ledger[i].run_id) # {} /\ TracesOf(ledger[i].run_id) # {}
    BY <1>1, <1>3, <2>1 DEF Owed
  <2> QED
    BY <1>2, <2>2
<1>4. RecordedIds \subseteq DOMAIN items /\ RecordedIds \subseteq DOMAIN traces
  BY <1>3 DEF RecordedIds
<1>5. DOMAIN items \subseteq RecordedIds /\ DOMAIN traces \subseteq RecordedIds
  BY <1>1 DEF Recorded
<1>6. ASSUME NEW i \in DOMAIN ledger, ledger[i].kind = "run"
      PROVE  traces[ledger[i].run_id].decision = ledger[i].decision
  <2>1. ledger[i] \in Entries /\ traces[ledger[i].run_id] \in TracesOf(ledger[i].run_id)
    BY <1>2, <1>3, <1>6
  <2> QED
    BY <1>1, <1>6, <2>1 DEF Decided
<1>7. ASSUME NEW i \in DOMAIN ledger, ledger[i].kind = "outcome", ledger[i].blind_spot
      PROVE  ledger[i].run_id \in candidates
  <2>1. ledger[i] \in Entries
    BY <1>2
  <2> QED
    BY <1>1, <1>2, <1>7, <2>1 DEF Owed
<1> QED
  BY <1>4, <1>5, <1>6, <1>7

LEMMA TrustedWhenIdle == StoresInv => NothingInFlightUntrusted
<1> SUFFICES ASSUME StoresInv, call = <<>>, crashes = 0,
                    NEW ct \in CampaignTypes, InFlight(ct) # {}
             PROVE  TierOf(ledger, ct) > ASSIST /\ StandingOf(ledger, ct) = "active"
  BY DEF NothingInFlightUntrusted
<1>1. Safe(ct) \/ Dropping(ct)
  BY DEF StoresInv, Uncut, Guarded
<1>2. ~Dropping(ct)
  BY Idle DEF Dropping
<1> QED
  BY <1>1, <1>2 DEF Safe

\* Between calls, as long as none was cut off, the four stores agree on every
\* run (service.py:141-178): its queue item, its trace, the decision they tell
\* and the triage of its blind spot.
THEOREM StoresAlwaysAgree == ServiceSpec => []StoresAgree
  BY AgreedWhenIdle, StoresInvariant, PTL

\* Between calls, as long as none was cut off, a type that has lost its tier
\* or its standing has nothing in flight (docs/autonomy-model.md:104).
THEOREM DemotionEmptiesFlight == ServiceSpec => []NothingInFlightUntrusted
  BY TrustedWhenIdle, StoresInvariant, PTL

-----------------------------------------------------------------------------
(***************************************************************************)
(* What a step may do to the items.                                        *)
(***************************************************************************)
LEMMA ItemsWrittenBy ==
  ASSUME [ServiceNext]_svars
  PROVE  UNCHANGED items \/ Enqueue \/ MarkOne
<1>1. CASE Step
  BY <1>1 DEF Step, AppendEntry, DowngradeInflight, AllMarked, StoreTrace, FlagCandidate,
              Show, stores
<1>2. CASE ~Step
  BY <1>2 DEF ServiceNext, RecordRun, ProcessOutcome, Challenge, RefreshQueue, ApproveAll,
              Begin, Tick, Crash, RestartIdle, svars, stores
<1> QED
  BY <1>1, <1>2

\* An item queued is not an approved one.
LEMMA EnqueueApprovesNothing ==
  ASSUME SInv, StoresInv, Enqueue
  PROVE  \A id \in DOMAIN items : items'[id] = items[id] \/ items'[id].status # "approved"
<1> DEFINE c == Head(call)
<1>1. c \in Plans("enqueue") /\ Add(c.id, c.item)
  BY AtWork DEF Enqueue, Plans
<1> HIDE DEF c
<1>2. c.item.status # "approved"
  BY <1>1 DEF StoresInv, Unapproved
<1> QED
  BY <1>1, <1>2 DEF Add

\* The lane rule of the queue and the one of routing agree on a run both hold.
LEMMA LanesInLockstep ==
  ASSUME NEW item, NEW trace, Matches(item, trace), ClassifyLane(item) = "batch"
  PROVE  Lane(trace.evaluation, trace.blocked) = "batch"
  BY DEF Matches, ClassifyLane, Lane, JudgmentConstraints

LEMMA ApprovedAreRoutine ==
  ASSUME SInv, StoresInv, [ServiceNext]_svars
  PROVE  \A id \in DOMAIN items \cap DOMAIN traces :
           items[id].status # "approved" /\ items'[id].status = "approved" =>
             Lane(traces[id].evaluation, traces[id].blocked) = "batch"
<1> SUFFICES ASSUME NEW id \in DOMAIN items \cap DOMAIN traces,
                    items[id].status # "approved", items'[id].status = "approved"
             PROVE  Lane(traces[id].evaluation, traces[id].blocked) = "batch"
  OBVIOUS
<1>1. MarkOne
  BY ItemsWrittenBy, EnqueueApprovesNothing
<1> DEFINE c == Head(call)
<1>2. c \in Planned(call) /\ c.do = "mark"
  BY <1>1, OneMarked
<1>3. PICK marked \in c.ids \cap DOMAIN items :
        /\ \A key \in DOMAIN items : key # marked => items'[key] = items[key]
        /\ items'[marked].status = c.status
  BY <1>1, OneMarked
<1> HIDE DEF c
<1>4. id \in c.ids /\ c.status = "approved"
  BY <1>3
<1>5. id \in Offered
  BY <1>2, <1>4 DEF Offered, Offers, Approves
<1>6. items[id] \in ItemsOf(id) /\ traces[id] \in TracesOf(id)
  BY DEF ItemsOf, TracesOf
<1>7. ClassifyLane(items[id]) = "batch" /\ Matches(items[id], traces[id])
  BY <1>5, <1>6 DEF StoresInv, Agreed, Screened, Told
<1> QED
  BY <1>7, LanesInLockstep

\* Whatever approve-all approves, however old the screen it was sent from,
\* routing.py itself puts in the batch lane (lanes.py:23-25).
THEOREM ApproveAllIsRoutine == ServiceSpec => BulkApprovalsAreRoutine
<1>1. SInv /\ StoresInv /\ [ServiceNext]_svars =>
        [\A id \in DOMAIN items \cap DOMAIN traces :
           items[id].status # "approved" /\ items'[id].status = "approved" =>
             Lane(traces[id].evaluation, traces[id].blocked) = "batch"]_svars
  BY ApprovedAreRoutine
<1> QED
  BY <1>1, StoresInvariant, PTL DEF ServiceSpec, BulkApprovalsAreRoutine

-----------------------------------------------------------------------------
(***************************************************************************)
(* The ladder, one commit at a time.  A plan's transition is decided on    *)
(* the ledger as it will be when its turn comes, so each append taken by   *)
(* itself is a step of AutonomyLadder or none, and a crash cuts the ladder *)
(* between two of its steps.  Lawful says which tier and standing an entry *)
(* sets; Paced says the same of the cooldown.                              *)
(***************************************************************************)
Paced(log, entry) ==
  entry.kind = "transition" =>
    /\ entry.reason # "probation_passed" => entry.cooldown_after = 0
    /\ entry.reason = "promotion" => CooldownOf(log, entry.campaign_type) = 0

PacedPlan(log, plan) ==
  \A k \in DOMAIN plan : plan[k].do = "append" =>
    \/ k = 1 /\ Paced(log, plan[1].entry)
    \/ /\ k = 2 /\ plan[1].do = "append"
       /\ Paced(Append(log, plan[1].entry), plan[2].entry)

LEMMA PacedBegins ==
  ASSUME NEW log, NEW es \in Seq(Entry), NEW rest \in Seq(Commit), Len(es) <= 2,
         \A c \in Planned(rest) : c.do # "append",
         Len(es) >= 1 => MayFollow(log, es[1]) /\ Paced(log, es[1]),
         Len(es) = 2 => /\ MayFollow(Append(log, es[1]), es[2])
                        /\ Paced(Append(log, es[1]), es[2])
  PROVE  PacedPlan(log, AppendAll(es) \o rest)
<1> DEFINE plan == AppendAll(es) \o rest
<1>1. /\ \A k \in DOMAIN rest : rest[k].do # "append"
      /\ Len(es) >= 1 => MayFollow(log, es[1])
      /\ Len(es) = 2 => MayFollow(Append(log, es[1]), es[2])
  BY DEF Planned
<1>2. /\ DOMAIN plan = 1 .. Len(es) + Len(rest)
      /\ \A k \in 1 .. Len(es) : plan[k] = [do |-> "append", entry |-> es[k]]
      /\ \A k \in (Len(es) + 1) .. (Len(es) + Len(rest)) : plan[k] = rest[k - Len(es)]
  BY <1>1, PlanBegun, ZenonT(40)
<1> HIDE DEF plan
<1>3. Len(es) \in Nat /\ Len(rest) \in Nat /\ DOMAIN rest = 1 .. Len(rest)
  BY LenProperties
<1>4. ASSUME NEW k \in 1 .. Len(es) PROVE plan[k].do = "append" /\ plan[k].entry = es[k]
  <2>1. plan[k] = [do |-> "append", entry |-> es[k]]
    BY <1>2, Zenon
  <2> QED
    BY <2>1
<1>5. ASSUME NEW k \in DOMAIN plan, plan[k].do = "append" PROVE k \in 1 .. Len(es)
  <2> SUFFICES ASSUME k \in (Len(es) + 1) .. (Len(es) + Len(rest)) PROVE FALSE
    BY <1>2, <1>3
  <2>1. k - Len(es) \in DOMAIN rest /\ plan[k] = rest[k - Len(es)]
    BY <1>2, <1>3
  <2> QED
    BY <1>1, <1>5, <2>1
<1>6. ASSUME NEW k \in DOMAIN plan, plan[k].do = "append"
      PROVE  \/ k = 1 /\ Paced(log, plan[1].entry)
             \/ /\ k = 2 /\ plan[1].do = "append"
                /\ Paced(Append(log, plan[1].entry), plan[2].entry)
  <2>1. k \in 1 .. Len(es)
    BY <1>5, <1>6
  <2>2. CASE k = 1
    <3>1. Len(es) >= 1 /\ plan[1].entry = es[1]
      BY <1>3, <1>4, <2>1, <2>2
    <3> QED
      BY <2>2, <3>1
  <2>3. CASE k = 2
    <3>1. Len(es) = 2 /\ plan[1].do = "append" /\ plan[1].entry = es[1] /\ plan[2].entry = es[2]
      <4>1. Len(es) \in Nat /\ 2 \in 1 .. Len(es)
        BY <1>3, <2>1, <2>3, Zenon
      <4>2. \A n \in Nat : n <= 2 /\ 2 \in 1 .. n => n = 2 /\ 1 \in 1 .. n
        OBVIOUS
      <4>3. Len(es) = 2 /\ 1 \in 1 .. Len(es)
        BY <4>1, <4>2, Zenon
      <4> QED
        BY <1>4, <4>1, <4>3
    <3> QED
      BY <2>3, <3>1
  <2> QED
    BY <1>3, <2>1, <2>2, <2>3
<1> QED
  BY <1>6, Zenon DEF PacedPlan, plan

\* A fact is followed by the transition it calls for.
LEMMA PacedFactFirst ==
  ASSUME SInv, NEW fact, MayFollow(ledger, fact), fact.kind # "transition",
         NEW moved, MayMove(Append(ledger, fact), moved),
         \A entry \in Planned(moved) : Paced(Append(ledger, fact), entry),
         NEW rest \in Seq(Commit), \A c \in Planned(rest) : c.do # "append",
         Begin(<<fact>> \o moved, rest)
  PROVE  PacedPlan(ledger, call)'
<1> DEFINE es == <<fact>> \o moved
<1>1. call' = AppendAll(es) \o rest /\ ledger' = ledger
  BY Zenon DEF Begin, stores
<1>2. Sound(ledger) /\ fact \in Entry
  BY ReadState DEF MayFollow
<1>3. /\ es \in Seq(Entry) /\ Len(es) <= 2 /\ Len(es) >= 1 /\ es[1] = fact
      /\ MayFollow(ledger, es[1])
      /\ Len(es) = 2 => MayFollow(Append(ledger, es[1]), es[2])
  <2>1. es = <<fact>> \o moved
    OBVIOUS
  <2> HIDE DEF es
  <2> QED
    BY <1>2, <2>1, FactThenTransition, Zenon
<1>4. Len(es) = 2 => es[2] \in Planned(moved)
  <2>1. CASE moved = <<>>
    <3>1. es = <<fact>>
      BY <1>2, <2>1
    <3> HIDE DEF es
    <3> QED
      BY <3>1
  <2>2. ASSUME NEW entry \in Entry, moved = <<entry>> PROVE es[2] \in Planned(moved)
    <3>1. /\ <<fact>> \in Seq(Entry) /\ Len(<<fact>>) = 1
          /\ <<entry>> \in Seq(Entry) /\ Len(<<entry>>) = 1 /\ <<entry>>[1] = entry
      BY <1>2
    <3>2. es = <<fact>> \o <<entry>>
      BY <2>2
    <3> HIDE DEF es
    <3>3. es[2] = entry
      BY <3>1, <3>2, ConcatProperties
    <3>4. Planned(<<entry>>) = {entry}
      BY PlannedOne, Zenon
    <3> QED
      BY <2>2, <3>3, <3>4
  <2> QED
    BY <2>1, <2>2 DEF MayMove
<1> HIDE DEF es
<1>5. Paced(ledger, es[1])
  BY <1>3 DEF Paced
<1>6. Len(es) = 2 => Paced(Append(ledger, es[1]), es[2])
  BY <1>3, <1>4
<1>7. PacedPlan(ledger, AppendAll(es) \o rest)
  BY <1>3, <1>5, <1>6, PacedBegins, Zenon
<1> QED
  BY <1>1, <1>7, Zenon

LEMMA RunPaced ==
  ASSUME SInv, NEW evaluation \in Evaluations, RecordRun(evaluation)
  PROVE  PacedPlan(ledger, call)'
<1> DEFINE run    == RunFact(ledger, evaluation, clock)
           moved  == RunTransition(ledger, evaluation, clock)
           ct     == evaluation.campaign_type
           logged == Append(ledger, run)
<1>1. MayFollow(ledger, run) /\ MayMove(logged, moved)
  BY ReadState, RunPlan
<1>2. run.kind = "run" /\ run.campaign_type = ct
  BY DEF RunFact
<1>3. PICK rest \in Seq(Commit) : /\ Begin(<<run>> \o moved, rest)
                                  /\ \A c \in Planned(rest) : c.do # "append"
  BY RunPlanned
<1>4. \A entry \in Planned(moved) : Paced(logged, entry)
  <2> DEFINE demotion  == Demotion(ledger, ct, clock, "demotion_critical_presend")
             promotion == Promotion(logged, ct, clock)
  <2>1. /\ demotion.reason = "demotion_critical_presend" /\ demotion.cooldown_after = 0
        /\ promotion.reason = "promotion" /\ promotion.cooldown_after = 0
        /\ promotion.campaign_type = ct
    BY DEF Demotion, Promotion, Transition
  <2>2. RunPromotes(logged, run) => CooldownOf(logged, ct) = 0
    BY <1>2 DEF RunPromotes, MaybePromote, PromotionOpen, PromotionEligible
  <2>3. \/ moved = <<>>
        \/ moved = <<demotion>>
        \/ moved = <<promotion>> /\ RunPromotes(logged, run)
    BY Zenon DEF RunTransition
  <2> HIDE DEF moved, demotion, promotion, run
  <2>4. \A entry \in Planned(moved) : \/ entry = demotion
                                      \/ entry = promotion /\ RunPromotes(logged, run)
    BY <2>3 DEF Planned
  <2> QED
    BY <2>1, <2>2, <2>4 DEF Paced
<1>5. run.kind # "transition"
  BY <1>2
<1> HIDE DEF run, moved
<1> QED
  BY <1>1, <1>3, <1>4, <1>5, PacedFactFirst, Zenon

LEMMA OutcomePaced ==
  ASSUME SInv, NEW report \in Reports, ProcessOutcome(report)
  PROVE  PacedPlan(ledger, call)'
<1> DEFINE ct       == report.campaign_type
           fact     == OutcomeFact(ledger, report, clock)
           moved    == OutcomeTransition(ledger, report, clock)
           demotion == Demotion(ledger, ct, clock, "demotion_deliverability")
           rest     == DowngradeIf(ReportDemotes(ledger, report), ct) \o FlagIf(fact)
<1>1. Begin(<<fact>> \o moved, rest)
  BY Zenon DEF ProcessOutcome
<1>2. /\ MayFollow(ledger, fact) /\ MayMove(Append(ledger, fact), moved)
      /\ fact.run_id \in RunIds /\ ct \in CampaignTypes
  BY ReadState, OutcomePlan, InputAssumption DEF Report
<1>3. fact.kind # "transition"
  BY DEF OutcomeFact
<1>4. moved = <<>> \/ moved = <<demotion>>
  BY Zenon DEF OutcomeTransition
<1>5. demotion.reason = "demotion_deliverability" /\ demotion.cooldown_after = 0
  BY DEF Demotion, Transition
<1> HIDE DEF fact, moved, demotion
<1>6. \A entry \in Planned(moved) : Paced(Append(ledger, fact), entry)
  <2>1. \A entry \in Planned(moved) : entry = demotion
    BY <1>4 DEF Planned
  <2> QED
    BY <1>5, <2>1 DEF Paced
<1>7. /\ rest \in Seq(Commit)
      /\ Planned(rest) = {c \in {[do |-> "downgrade", ct |-> ct]} : ReportDemotes(ledger, report)}
                           \cup {c \in {[do |-> "flag", id |-> fact.run_id]} : fact.blind_spot}
  BY <1>2, OutcomeRest
<1> HIDE DEF rest
<1>8. \A c \in Planned(rest) : c.do # "append"
  BY <1>7
<1> QED
  BY <1>1, <1>2, <1>3, <1>6, <1>7, <1>8, PacedFactFirst, Zenon

LEMMA ChallengePaced ==
  ASSUME SInv, NEW ct \in CampaignTypes, NEW score, Challenge(ct, score)
  PROVE  PacedPlan(ledger, call)'
<1> DEFINE judged == ChallengeVerdict(ledger, ct, score, clock)
           es     == <<judged>>
           rest   == <<>>
<1>1. Begin(es, rest) /\ StandingOf(ledger, ct) = "probation"
  BY Zenon DEF Challenge
<1>2. MayFollow(ledger, judged)
  BY <1>1, ReadState, VerdictMayFollow
<1>3. Paced(ledger, judged)
  BY DEF ChallengeVerdict, Transition, Paced
<1> HIDE DEF judged
<1>4. judged \in Entry
  BY <1>2, Zenon DEF MayFollow
<1>5. es \in Seq(Entry) /\ Len(es) = 1 /\ es[1] = judged /\ rest \in Seq(Commit)
  BY <1>4
<1>6. \A c \in Planned(rest) : c.do # "append"
  BY DEF Planned
<1> HIDE DEF es, rest
<1>7. Len(es) <= 2 /\ Len(es) # 2
  BY <1>5
<1>8. PacedPlan(ledger, AppendAll(es) \o rest)
  BY <1>2, <1>3, <1>5, <1>6, <1>7, PacedBegins, Zenon
<1>9. call' = AppendAll(es) \o rest /\ ledger' = ledger
  BY <1>1, Zenon DEF Begin, stores
<1> QED
  BY <1>8, <1>9, Zenon

\* After its append a plan stays paced.
LEMMA PacedAfterAppend ==
  ASSUME SInv, PacedPlan(ledger, call), AppendEntry
  PROVE  PacedPlan(ledger, call)' /\ Paced(ledger, call[1].entry)
<1>1. /\ call \in Seq(Commit) /\ call # <<>> /\ Head(call) = call[1]
      /\ 1 \in DOMAIN call /\ call[1].do = "append"
  BY AtHead DEF AppendEntry
<1>2. ledger' = Append(ledger, call[1].entry) /\ call' = Tail(call)
  BY <1>1 DEF AppendEntry, Done
<1>3. Paced(ledger, call[1].entry)
  BY <1>1 DEF PacedPlan
<1>4. \A k \in DOMAIN call' : k \in Nat /\ k >= 1 /\ k + 1 \in DOMAIN call /\ call'[k] = call[k + 1]
  BY <1>1, <1>2, PlanTail
<1>5. ASSUME NEW k \in DOMAIN call', call'[k].do = "append"
      PROVE  k = 1 /\ Paced(ledger', call'[1].entry)
  <2>1. k \in Nat /\ k >= 1 /\ k + 1 \in DOMAIN call /\ call'[k] = call[k + 1]
    BY <1>4
  <2>2. /\ call[k + 1].do = "append" /\ k + 1 # 1
    BY <1>5, <2>1
  <2>3. k + 1 = 2 /\ Paced(Append(ledger, call[1].entry), call[2].entry)
    BY <2>1, <2>2 DEF PacedPlan
  <2>4. k = 1
    BY <2>1, <2>3
  <2> QED
    BY <1>2, <2>1, <2>3, <2>4
<1> QED
  BY <1>3, <1>5 DEF PacedPlan

\* No other commit leaves an append in the plan.
LEMMA PacedOtherwise ==
  ASSUME NEW log, Planned(call') \subseteq Planned(call) \cup {c \in Commit : c.do = "mark"},
         Plans("append") = {}
  PROVE  PacedPlan(log, call')
<1>1. \A c \in Planned(call') : c.do # "append"
  BY DEF Plans
<1> QED
  BY <1>1 DEF PacedPlan, Planned

LEMMA PacedCommit ==
  ASSUME SInv, PacedPlan(ledger, call), Step
  PROVE  PacedPlan(ledger, call)'
<1>1. CASE AppendEntry
  BY <1>1, PacedAfterAppend
<1>2. ASSUME NEW kind \in {"enqueue", "mark", "trace", "flag", "show"}, Committing(kind),
             call' = Tail(call)
      PROVE  PacedPlan(ledger, call)'
  <2>1. kind # "append"
    OBVIOUS
  <2>2. /\ Planned(call) = {Head(call)} \cup Planned(Tail(call))
        /\ Plans("append") = {}
    BY <1>2, <2>1, AtWork, Zenon
  <2>3. Planned(call') \subseteq Planned(call)
    BY <1>2, <2>2
  <2>4. Planned(call') \subseteq Planned(call) \cup {c \in Commit : c.do = "mark"}
    BY <2>3
  <2>5. \A log : PacedPlan(log, call')
    BY <2>2, <2>4, PacedOtherwise, Zenon
  <2> QED
    BY <2>5, Zenon
<1>3. CASE Enqueue \/ AllMarked \/ StoreTrace \/ FlagCandidate \/ Show
  BY <1>2, <1>3 DEF Enqueue, AllMarked, StoreTrace, FlagCandidate, Show, Done
<1>4. CASE MarkOne
  <2> DEFINE c == Head(call)
  <2>1. Planned(call) = {c} \cup Planned(Tail(call)) /\ Committing("mark")
    BY <1>4, OneMarked
  <2>2. \E first \in Commit : /\ Planned(call') = {first} \cup Planned(Tail(call))
                              /\ first.do = "mark"
    BY <1>4, OneMarked
  <2> HIDE DEF c
  <2>3. Planned(call') \subseteq Planned(call) \cup {d \in Commit : d.do = "mark"}
    BY <2>1, <2>2
  <2>4. "mark" # "append"
    OBVIOUS
  <2>5. Plans("append") = {}
    BY <2>1, <2>4, AtWork, Zenon
  <2>6. \A log : PacedPlan(log, call')
    BY <2>3, <2>5, PacedOtherwise, Zenon
  <2> QED
    BY <2>6, Zenon
<1>5. CASE DowngradeInflight
  <2> DEFINE c     == Head(call)
             first == [do |-> "mark", status |-> "pending", ids |-> InFlight(c.ct)]
  <2>1. /\ Planned(call) = {c} \cup Planned(Tail(call)) /\ Plans("append") = {}
        /\ call' = <<first>> \o Tail(call) /\ Tail(call) \in Seq(Commit)
    BY <1>5, AtWork DEF DowngradeInflight
  <2>2. first \in Commit /\ first.do = "mark"
    BY DEF Commit, InFlight, ByStatus, SInv, ServiceTypeOK, QueueTypeOK
  <2> HIDE DEF c, first
  <2>3. Planned(call') = {first} \cup Planned(Tail(call))
    BY <2>1, <2>2, PlannedFirst
  <2>4. Planned(call') \subseteq Planned(call) \cup {d \in Commit : d.do = "mark"}
    BY <2>1, <2>2, <2>3
  <2>5. \A log : PacedPlan(log, call')
    BY <2>1, <2>4, PacedOtherwise, Zenon
  <2> QED
    BY <2>5, Zenon
<1> QED
  BY <1>1, <1>3, <1>4, <1>5 DEF Step

LEMMA NextPaced == SInv /\ PacedPlan(ledger, call) /\ [ServiceNext]_svars => PacedPlan(ledger, call)'
<1> SUFFICES ASSUME SInv, PacedPlan(ledger, call), [ServiceNext]_svars
             PROVE  PacedPlan(ledger, call)'
  OBVIOUS
<1>1. CASE \E evaluation \in Evaluations : RecordRun(evaluation)
  BY <1>1, RunPaced
<1>2. CASE \E report \in Reports : ProcessOutcome(report)
  BY <1>2, OutcomePaced
<1>3. CASE \E ct \in CampaignTypes, score \in Challenges : Challenge(ct, score)
  BY <1>3, ChallengePaced
<1>4. CASE RefreshQueue \/ ApproveAll
  <2> DEFINE mark   == [do |-> "mark", ids |-> NewlyExpired(clock), status |-> "expired"]
             show   == [do |-> "show", ids |-> LaneAt("batch", clock)]
             sent   == [do |-> "mark", ids |-> screen, status |-> "approved"]
  <2>1. mark.do # "append" /\ show.do # "append" /\ sent.do # "append"
    OBVIOUS
  <2>2. Begin(<<>>, <<mark, show>>) \/ Begin(<<>>, <<sent>>)
    BY <1>4, Zenon DEF RefreshQueue, ApproveAll
  <2> HIDE DEF mark, show, sent
  <2>3. call' = <<>> \o <<mark, show>> \/ call' = <<>> \o <<sent>>
    BY <2>2 DEF Begin, AppendAll
  <2>4. call' = <<mark, show>> \/ call' = <<sent>>
    BY <2>3
  <2>5. \A k \in DOMAIN call' : call'[k].do # "append"
    BY <2>1, <2>4
  <2> QED
    BY <2>5 DEF PacedPlan
<1>5. CASE Step
  BY <1>5, PacedCommit
<1>6. CASE Tick \/ RestartIdle \/ UNCHANGED svars
  <2>1. UNCHANGED <<ledger, call>>
    BY <1>6 DEF Tick, RestartIdle, Restart, svars, stores
  <2> QED
    BY <2>1
<1>7. CASE Crash
  <2>1. call' = <<>>
    BY <1>7 DEF Crash
  <2> QED
    BY <2>1 DEF PacedPlan
<1> QED
  BY <1>1, <1>2, <1>3, <1>4, <1>5, <1>6, <1>7 DEF ServiceNext

\* A lawful and paced entry is a step of the ladder, or none.
LEMMA EntryClimbs ==
  ASSUME Sound(ledger), NEW entry, MayFollow(ledger, entry), Paced(ledger, entry),
         ledger' = Append(ledger, entry)
  PROVE  [Ladder!LadderNext]_(Ladder!state)
<1> DEFINE ct == entry.campaign_type
<1>1. Grounded(ledger) /\ entry \in Entry
  BY DEF Sound, MayFollow
<1>2. /\ ct \in CampaignTypes
      /\ entry.kind \in {"run", "transition", "outcome"}
      /\ entry.kind = "transition" => entry.to_tier \in Tier
  BY <1>1 DEF Entry, RunEntry, TransitionEntry, OutcomeEntry
<1>3. CASE entry.kind = "run"
  BY <1>2, <1>3, RunServes
<1>4. CASE entry.kind = "outcome"
  <2>1. \A type : ~IsTransition(entry, type) /\ ~IsRun(entry, type)
    BY <1>4 DEF IsTransition, IsRun
  <2>2. \A type \in CampaignTypes : StateKept(ledger, ledger', type)
    BY <1>1, <2>1, OtherEntryKeepsState, RunServesCooldown DEF StateKept
  <2> QED
    BY <2>2, KeptStutters
<1>5. CASE entry.kind = "transition"
  <2>1. IsTransition(entry, ct)
    BY <1>5 DEF IsTransition
  <2>2. \A type \in CampaignTypes : type # ct => StateKept(ledger, ledger', type)
    BY <1>1, OthersKept
  <2>3. Moved(ledger', ct, entry.to_tier, entry.standing_after, entry.cooldown_after)
    BY <1>1, <1>2, <2>1, TransitionSetsState DEF Moved
  <2>4. Ladder!Becomes(ct, entry.to_tier, entry.standing_after, entry.cooldown_after)
    BY <1>2, <2>2, <2>3, MovedBecomes
  <2>5. Follows(entry, TierOf(ledger, ct), StandingOf(ledger, ct))
    BY <1>2, <2>1 DEF MayFollow
  <2>6. TierOf(ledger, ct) \in Tier /\ CooldownOf(ledger, ct) \in Nat
    BY <1>1, <1>2, CurrentState
  <2>7. /\ entry.reason # "probation_passed" => entry.cooldown_after = 0
        /\ entry.reason = "promotion" => CooldownOf(ledger, ct) = 0
    BY <1>5 DEF Paced
  <2>8. CASE entry.reason = "promotion"
    <3>1. /\ StandingOf(ledger, ct) = "active" /\ CooldownOf(ledger, ct) = 0
          /\ entry.to_tier = TierOf(ledger, ct) + 1 /\ entry.standing_after = "active"
          /\ entry.cooldown_after = 0
      BY <2>5, <2>7, <2>8 DEF Follows
    <3>2. TierOf(ledger, ct) < 2 /\ CooldownOf(ledger, ct) <= 1
      BY <1>2, <1>5, <2>6, <3>1 DEF Tier, ASSIST, SUPERVISED
    <3>3. Ladder!Promote(ct)
      BY <1>2, <2>4, <3>1, <3>2 DEF Ladder!Promote
    <3> QED
      BY <1>2, <3>3 DEF Ladder!LadderNext
  <2>9. CASE entry.reason \in {"demotion_critical_presend", "demotion_deliverability"}
    <3>1. /\ TierOf(ledger, ct) > 0 /\ entry.to_tier = 0
          /\ entry.standing_after = "probation" /\ entry.cooldown_after = 0
      BY <2>5, <2>7, <2>9 DEF Follows, ASSIST
    <3>2. Ladder!Demote(ct)
      BY <1>2, <2>4, <3>1 DEF Ladder!Demote
    <3> QED
      BY <1>2, <3>2 DEF Ladder!LadderNext
  <2>10. CASE entry.reason = "probation_passed"
    <3>1. /\ StandingOf(ledger, ct) = "probation" /\ entry.to_tier = 1
          /\ entry.standing_after = "active" /\ entry.cooldown_after = CooldownRuns
      BY <2>5, <2>10 DEF Follows, BOUNDED
    <3>2. Ladder!Restore(ct)
      BY <1>2, <2>4, <3>1 DEF Ladder!Restore
    <3> QED
      BY <1>2, <3>2 DEF Ladder!LadderNext
  <2>11. CASE entry.reason = "probation_failed"
    <3>1. /\ StandingOf(ledger, ct) = "probation" /\ entry.to_tier = 0
          /\ entry.standing_after = "investigation_required" /\ entry.cooldown_after = 0
      BY <2>5, <2>7, <2>11 DEF Follows, ASSIST
    <3>2. Ladder!Condemn(ct)
      BY <1>2, <2>4, <3>1 DEF Ladder!Condemn
    <3> QED
      BY <1>2, <3>2 DEF Ladder!LadderNext
  <2> QED
    BY <2>5, <2>8, <2>9, <2>10, <2>11 DEF Follows
<1> QED
  BY <1>2, <1>3, <1>4, <1>5

LEMMA CommitClimbs ==
  ASSUME SInv, PacedPlan(ledger, call), [ServiceNext]_svars
  PROVE  [Ladder!LadderNext]_(Ladder!state)
<1>1. CASE AppendEntry
  <2>1. /\ call \in Seq(Commit) /\ call # <<>> /\ Head(call) = call[1]
        /\ call[1].do = "append"
    BY <1>1, AtHead DEF AppendEntry
  <2>2. MayFollow(ledger, call[1].entry)
    BY <2>1, ReadState, AppendDone
  <2>3. Paced(ledger, call[1].entry)
    BY <1>1, PacedAfterAppend
  <2>4. ledger' = Append(ledger, call[1].entry)
    BY <1>1, <2>1 DEF AppendEntry
  <2>5. Sound(ledger)
    BY ReadState
  <2> QED
    BY <2>2, <2>3, <2>4, <2>5, EntryClimbs, Zenon
<1>2. CASE ~AppendEntry
  <2>1. ledger' = ledger
    <3>1. CASE Step
      BY <1>2, <3>1 DEF Step, Enqueue, DowngradeInflight, MarkOne, AllMarked, StoreTrace,
                        FlagCandidate, Show, stores
    <3>2. CASE ~Step
      BY <3>2 DEF ServiceNext, RecordRun, ProcessOutcome, Challenge, RefreshQueue,
                  ApproveAll, Begin, Tick, Crash, RestartIdle, Restart, svars, stores
    <3> QED
      BY <3>1, <3>2
  <2> QED
    BY <2>1, KeptStutters DEF StateKept
<1> QED
  BY <1>1, <1>2

\* The service, whose calls commit one write at a time and may be cut off
\* between any two, implements the autonomy ladder of the controller alone.
THEOREM ServiceImplementsLadder == ServiceSpec => ImplementsLadder
<1>1. ServiceInit => Ladder!LadderInit
  BY LadderStart DEF ServiceInit
<1>2. ServiceInit => PacedPlan(ledger, call)
  BY DEF ServiceInit, PacedPlan
<1>3. SInv /\ PacedPlan(ledger, call) /\ [ServiceNext]_svars => PacedPlan(ledger, call)'
  BY NextPaced
<1>4. SInv /\ PacedPlan(ledger, call) /\ [ServiceNext]_svars => [Ladder!LadderNext]_(Ladder!state)
  BY CommitClimbs
<1> QED
  BY <1>1, <1>2, <1>3, <1>4, ServiceInvariant, PTL
     DEF ServiceSpec, ImplementsLadder, Ladder!LadderSpec

-----------------------------------------------------------------------------
(***************************************************************************)
(* What a demotion is to empty.  A call's entries are all of one type, its *)
(* downgrade is of that type, and its run is not a sent one; once the      *)
(* downgrade has selected, whatever the type still has in flight is among  *)
(* the ids left to mark.  None of this depends on earlier calls, so it     *)
(* holds after a crash as well.                                            *)
(***************************************************************************)
Drops(c) == c.do = "downgrade" \/ (c.do = "mark" /\ c.status = "pending")

\* The type of the entries still planned or, when all are appended, of the last.
Own(ct) ==
  IF Plans("append") = {}
    THEN ledger[Len(ledger)].campaign_type = ct
    ELSE \A c \in Plans("append") : c.entry.campaign_type = ct

Aimed ==
  \A c \in Planned(call) : Drops(c) =>
    /\ \A d \in Plans("enqueue") : d.item.status # "in_flight"
    /\ \E ct : /\ Own(ct)
               /\ c.do = "downgrade" => c.ct = ct
               /\ c.do = "mark" => InFlight(ct) \subseteq c.ids

\* A commit done that leaves no more in flight than there was.
LEMMA AimedTail ==
  ASSUME Aimed, UNCHANGED ledger, Plans("append") = {},
         Planned(call') \subseteq Planned(call),
         (\E c \in Planned(call) : Drops(c)) => \A ct : InFlight(ct)' \subseteq InFlight(ct)
  PROVE  Aimed'
<1>1. /\ \A kind : Plans(kind)' \subseteq Plans(kind)
      /\ \A ct : Own(ct)' = Own(ct)
  BY DEF Plans, Own
<1> SUFFICES ASSUME NEW c \in Planned(call'), Drops(c)
             PROVE  /\ \A d \in Plans("enqueue")' : d.item.status # "in_flight"
                    /\ \E ct : /\ Own(ct)'
                               /\ c.do = "downgrade" => c.ct = ct
                               /\ c.do = "mark" => InFlight(ct)' \subseteq c.ids
  BY DEF Aimed
<1>2. /\ \A d \in Plans("enqueue") : d.item.status # "in_flight"
      /\ \E ct : /\ Own(ct)
                 /\ c.do = "downgrade" => c.ct = ct
                 /\ c.do = "mark" => InFlight(ct) \subseteq c.ids
  BY DEF Aimed
<1>3. \A ct : InFlight(ct)' \subseteq InFlight(ct)
  OBVIOUS
<1> QED
  BY <1>1, <1>2, <1>3

LEMMA AimedAppend ==
  ASSUME SInv, Aimed, AppendEntry
  PROVE  Aimed'
<1> DEFINE h == Head(call)
<1>1. /\ Planned(call) = {h} \cup Planned(call') /\ h.do = "append"
      /\ ledger' = Append(ledger, h.entry) /\ UNCHANGED items
      /\ h \in Plans("append")
  BY AtWork DEF AppendEntry, Done, Plans
<1> HIDE DEF h
<1>2. /\ Plans("append") = {h} \cup Plans("append")'
      /\ \A kind : kind # "append" => Plans(kind)' = Plans(kind)
      /\ \A ct : InFlight(ct)' = InFlight(ct)
  BY <1>1 DEF Plans, InFlight, ByStatus
<1>3. ledger'[Len(ledger')] = h.entry
  <2>1. ledger \in Seq(Entry) /\ h \in Commit /\ h.entry \in Entry
    BY <1>1, ReadState, AtWork, CommitFields DEF AppendEntry, Sound, h
  <2> QED
    BY <1>1, <2>1, AppendProperties
<1>4. ASSUME NEW ct, Own(ct) PROVE Own(ct)'
  BY <1>1, <1>2, <1>3, <1>4 DEF Own
<1> QED
  BY <1>1, <1>2, <1>4 DEF Aimed

LEMMA AimedDowngrade ==
  ASSUME SInv, Aimed, DowngradeInflight
  PROVE  Aimed' /\ \E c \in Planned(call') : Drops(c)
<1> DEFINE c     == Head(call)
           first == [do |-> "mark", status |-> "pending", ids |-> InFlight(c.ct)]
<1>1. /\ Planned(call) = {c} \cup Planned(Tail(call)) /\ c.do = "downgrade"
      /\ call' = <<first>> \o Tail(call) /\ Tail(call) \in Seq(Commit)
      /\ Plans("append") = {}
      /\ UNCHANGED <<ledger, items>>
  BY AtWork DEF DowngradeInflight, stores
<1>2. /\ first \in Commit /\ first.do = "mark" /\ first.status = "pending"
      /\ first.ids = InFlight(c.ct)
  BY DEF Commit, InFlight, ByStatus, SInv, ServiceTypeOK, QueueTypeOK
<1> HIDE DEF c, first
<1>3. Planned(call') = {first} \cup Planned(Tail(call))
  BY <1>1, <1>2, PlannedFirst
<1>4. /\ Plans("append")' = {} /\ Plans("enqueue")' = Plans("enqueue")
      /\ \A ct : InFlight(ct)' = InFlight(ct)
  BY <1>1, <1>2, <1>3 DEF Plans, InFlight, ByStatus
<1>5. \A ct : Own(ct)' = Own(ct)
  BY <1>1, <1>4 DEF Own
<1>6. /\ \A d \in Plans("enqueue") : d.item.status # "in_flight"
      /\ Own(c.ct)
  BY <1>1 DEF Aimed, Drops
<1>7. ASSUME NEW d \in Planned(Tail(call)), Drops(d)
      PROVE  \E ct : /\ Own(ct)'
                     /\ d.do = "downgrade" => d.ct = ct
                     /\ d.do = "mark" => InFlight(ct)' \subseteq d.ids
  BY <1>1, <1>4, <1>5, <1>7 DEF Aimed
<1>8. \E ct : /\ Own(ct)'
              /\ first.do = "downgrade" => first.ct = ct
              /\ first.do = "mark" => InFlight(ct)' \subseteq first.ids
  <2>1. PICK ct : ct = c.ct
    OBVIOUS
  <2> QED
    BY <1>2, <1>4, <1>5, <1>6, <2>1
<1>9. Aimed'
  BY <1>3, <1>4, <1>6, <1>7, <1>8 DEF Aimed
<1> QED
  BY <1>2, <1>3, <1>9 DEF Drops

LEMMA AimedMark ==
  ASSUME SInv, Aimed, MarkOne
  PROVE  /\ Aimed'
         /\ (\E c \in Planned(call) : Drops(c)) => \E c \in Planned(call') : Drops(c)
<1> DEFINE c == Head(call)
<1>1. /\ c \in Commit /\ c.do = "mark" /\ Planned(call) = {c} \cup Planned(Tail(call))
      /\ Committing("mark") /\ UNCHANGED ledger
  BY OneMarked
<1>2. PICK id \in c.ids \cap DOMAIN items : \E first \in Commit :
        /\ Planned(call') = {first} \cup Planned(Tail(call))
        /\ first.do = "mark" /\ first.status = c.status
        /\ first.ids = c.ids \ {id}
        /\ DOMAIN items' = DOMAIN items
        /\ \A key \in DOMAIN items : key # id => items'[key] = items[key]
        /\ items'[id].status = c.status
        /\ items'[id].campaign_type = items[id].campaign_type
        /\ SameLook(items'[id], items[id])
  BY OneMarked
<1>3. PICK first \in Commit :
        /\ Planned(call') = {first} \cup Planned(Tail(call))
        /\ first.do = "mark" /\ first.status = c.status
        /\ first.ids = c.ids \ {id}
  BY <1>2
<1>4. c.status \in {"pending", "approved", "expired"} /\ Plans("append") = {}
  BY <1>1, CommitFields, AtWork
<1> HIDE DEF c
<1>5. \A ct : InFlight(ct)' \subseteq InFlight(ct) \ {id}
  BY <1>2, <1>4 DEF InFlight, ByStatus
<1>6. Plans("append")' = {} /\ Plans("enqueue")' = Plans("enqueue")
  BY <1>1, <1>3, <1>4 DEF Plans
<1>7. \A ct : Own(ct)' = Own(ct)
  BY <1>1, <1>4, <1>6 DEF Own
<1>8. Drops(first) <=> Drops(c)
  BY <1>1, <1>3 DEF Drops
<1>9. ASSUME NEW d \in Planned(Tail(call)), Drops(d)
      PROVE  \E ct : /\ Own(ct)'
                     /\ d.do = "downgrade" => d.ct = ct
                     /\ d.do = "mark" => InFlight(ct)' \subseteq d.ids
  BY <1>1, <1>5, <1>7, <1>9 DEF Aimed
<1>10. ASSUME Drops(first)
       PROVE  \E ct : Own(ct)' /\ InFlight(ct)' \subseteq first.ids
  BY <1>1, <1>3, <1>5, <1>7, <1>8, <1>10 DEF Aimed
<1>11. Aimed'
  BY <1>1, <1>3, <1>6, <1>8, <1>9, <1>10 DEF Aimed
<1> QED
  BY <1>1, <1>3, <1>8, <1>11

LEMMA AimedStep ==
  ASSUME SInv, Aimed, Step
  PROVE  Aimed'
<1>1. ASSUME NEW kind, kind # "append", Committing(kind), call' = Tail(call), UNCHANGED ledger,
             (\E c \in Planned(call) : Drops(c)) => \A ct : InFlight(ct)' \subseteq InFlight(ct)
      PROVE  Aimed'
  <2>1. Plans("append") = {} /\ Planned(call') \subseteq Planned(call)
    BY <1>1, AtWork
  <2> QED
    BY <1>1, <2>1, AimedTail
<1>2. CASE Enqueue
  <2> DEFINE h == Head(call)
  <2>1. h \in Plans("enqueue") /\ Add(h.id, h.item)
    BY <1>2, AtWork DEF Enqueue, Plans
  <2> HIDE DEF h
  <2>2. ASSUME NEW c \in Planned(call), Drops(c), NEW ct
        PROVE  InFlight(ct)' \subseteq InFlight(ct)
    <3>1. h.item.status # "in_flight"
      BY <2>1, <2>2 DEF Aimed
    <3> QED
      BY <2>1, <3>1 DEF Add, InFlight, ByStatus
  <2> QED
    BY <1>1, <1>2, <2>2 DEF Enqueue, Done
<1>3. CASE AllMarked \/ StoreTrace \/ FlagCandidate \/ Show
  <2>1. UNCHANGED <<ledger, items>> /\ call' = Tail(call)
    BY <1>3 DEF AllMarked, StoreTrace, FlagCandidate, Show, Done, stores
  <2>2. \A ct : InFlight(ct)' \subseteq InFlight(ct)
    BY <2>1 DEF InFlight, ByStatus
  <2>3. \E kind \in {"mark", "trace", "flag", "show"} : Committing(kind)
    BY <1>3 DEF AllMarked, StoreTrace, FlagCandidate, Show
  <2> QED
    BY <1>1, <2>1, <2>2, <2>3
<1> QED
  BY <1>2, <1>3, AimedAppend, AimedDowngrade, AimedMark DEF Step

\* What a call starts with: entries of one type, and a downgrade of that type.
OneType(E, R, type) ==
  /\ E # {} /\ \A entry \in E : entry.campaign_type = type
  /\ \A c \in R : c.do \in {"enqueue", "trace", "flag", "downgrade"}
  /\ \A c \in R : c.do = "downgrade" =>
       c.ct = type /\ \A d \in R : d.do = "enqueue" => d.item.status # "in_flight"

LEMMA AimedBegins ==
  ASSUME NEW E, NEW R, NEW type, OneType(E, R, type), Planned(call) = {}, UNCHANGED ledger,
         Planned(call') = {Committed(entry) : entry \in E} \cup R
  PROVE  Aimed'
<1>1. \A c \in R : c.do # "append"
  BY DEF OneType
<1>2. \A entry : Committed(entry).entry = entry /\ Committed(entry).do = "append"
  BY DEF Committed
<1>3. /\ \A kind : kind # "append" => Plans(kind)' = {c \in R : c.do = kind}
      /\ Plans("append")' = {Committed(entry) : entry \in E}
  BY <1>1, <1>2 DEF Plans
<1>4. Own(type)'
  <2>1. Plans("append")' # {} /\ \A c \in Plans("append")' : c.entry.campaign_type = type
    BY <1>2, <1>3 DEF OneType
  <2> QED
    BY <2>1 DEF Own
<1>5. ASSUME NEW c \in Planned(call'), Drops(c)
      PROVE  c \in R /\ c.do = "downgrade"
  BY <1>2, <1>5 DEF Drops, OneType
<1> QED
  BY <1>3, <1>4, <1>5 DEF Aimed, OneType

LEMMA AimedRun ==
  ASSUME SInv, NEW evaluation \in Evaluations, RecordRun(evaluation)
  PROVE  Aimed'
<1> DEFINE id    == evaluation.run_id
           type  == evaluation.campaign_type
           run   == RunFact(ledger, evaluation, clock)
           moved == RunTransition(ledger, evaluation, clock)
           item  == RunItem(evaluation)
           enq   == [do |-> "enqueue", id |-> id, item |-> item]
           trace == [do |-> "trace", id |-> id, trace |-> RunTrace(evaluation)]
           one   == [do |-> "downgrade", ct |-> type]
           down  == {c \in {one} : RunDemotes(ledger, evaluation)}
           E     == {run} \cup Planned(moved)
           R     == {enq, trace} \cup down
<1>1. /\ Planned(call) = {} /\ UNCHANGED ledger
      /\ Planned(call') = {Committed(entry) : entry \in E} \cup R
  BY RunPlanned, Zenon
<1>2. /\ enq.do = "enqueue" /\ enq.item = item /\ trace.do = "trace"
      /\ one.do = "downgrade" /\ one.ct = type
  OBVIOUS
<1>3. \A entry \in Planned(moved) : entry.campaign_type = type
  BY RunMoves
<1>4. /\ run.campaign_type = type
      /\ run.decision = "auto_send" => ~RunDemotes(ledger, evaluation)
  BY DEF RunFact, Decide, AutoSends, Passed, RunDemotes
<1>5. item.status = "in_flight" => IsAutoSend(run, type)
  BY ReadState, RunItemTyped
<1> HIDE DEF run, moved, item, enq, trace, one
<1>6. \A c \in R : c.do \in {"enqueue", "trace", "flag", "downgrade"}
  BY <1>2
<1>7. \A c \in R : c.do = "downgrade" =>
        c.ct = type /\ \A d \in R : d.do = "enqueue" => d.item.status # "in_flight"
  BY <1>2, <1>4, <1>5 DEF IsAutoSend
<1>8. E # {} /\ \A entry \in E : entry.campaign_type = type
  BY <1>3, <1>4
<1>9. OneType(E, R, type)
  BY <1>6, <1>7, <1>8, Zenon DEF OneType
<1> HIDE DEF E, R, type
<1> QED
  BY <1>1, <1>9, AimedBegins, Zenon

LEMMA AimedOutcome ==
  ASSUME SInv, NEW report \in Reports, ProcessOutcome(report)
  PROVE  Aimed'
<1> DEFINE ct       == report.campaign_type
           fact     == OutcomeFact(ledger, report, clock)
           demotion == Demotion(ledger, ct, clock, "demotion_deliverability")
           one      == [do |-> "downgrade", ct |-> ct]
           flag     == [do |-> "flag", id |-> fact.run_id]
           E == {fact} \cup {e \in {demotion} : ReportDemotes(ledger, report)}
           R == {c \in {one} : ReportDemotes(ledger, report)}
                  \cup {c \in {flag} : fact.blind_spot}
<1>1. /\ Planned(call) = {} /\ UNCHANGED ledger
      /\ Planned(call') = {Committed(entry) : entry \in E} \cup R
  BY OutcomePlanned, Zenon
<1>2. one.do = "downgrade" /\ one.ct = ct /\ flag.do = "flag"
  OBVIOUS
<1>3. fact.campaign_type = ct /\ demotion.campaign_type = ct
  BY DEF OutcomeFact, Demotion, Transition
<1> HIDE DEF fact, demotion, one, flag
<1>4. \A c \in R : c.do \in {"enqueue", "trace", "flag", "downgrade"}
  BY <1>2
<1>5. \A c \in R : c.do = "downgrade" =>
        c.ct = ct /\ \A d \in R : d.do = "enqueue" => d.item.status # "in_flight"
  BY <1>2
<1>6. E # {} /\ \A entry \in E : entry.campaign_type = ct
  BY <1>3
<1>7. OneType(E, R, ct)
  BY <1>4, <1>5, <1>6, Zenon DEF OneType
<1> HIDE DEF E, R, ct
<1> QED
  BY <1>1, <1>7, AimedBegins, Zenon

\* The other calls demote nothing they would have to downgrade.
LEMMA AimedOtherCall ==
  ASSUME SInv, \/ \E ct \in CampaignTypes, score \in Challenges : Challenge(ct, score)
               \/ RefreshQueue
               \/ ApproveAll
  PROVE  Aimed'
<1>1. SUFFICES \A c \in Planned(call') : ~Drops(c)
  BY DEF Aimed
<1>2. ASSUME NEW ct \in CampaignTypes, NEW score, Challenge(ct, score)
      PROVE  \A c \in Planned(call') : ~Drops(c)
  <2> DEFINE judged == ChallengeVerdict(ledger, ct, score, clock)
             es     == <<judged>>
             rest   == <<>>
  <2>1. Begin(es, rest) /\ StandingOf(ledger, ct) = "probation"
    BY <1>2, Zenon DEF Challenge
  <2>2. judged \in Entry
    BY <2>1, ReadState, VerdictMayFollow, Zenon DEF MayFollow
  <2>3. es \in Seq(Entry) /\ rest \in Seq(Commit) /\ Planned(rest) = {}
    BY <2>2 DEF Planned
  <2> HIDE DEF es, rest
  <2>4. Planned(call') = {Committed(entry) : entry \in Planned(es)} \cup Planned(rest)
    BY <2>1, <2>3, Begins, Zenon
  <2>5. \A entry : ~Drops(Committed(entry))
    BY DEF Drops, Committed
  <2> QED
    BY <2>3, <2>4, <2>5
<1>3. CASE RefreshQueue \/ ApproveAll
  <2> DEFINE mark   == [do |-> "mark", ids |-> NewlyExpired(clock), status |-> "expired"]
             show   == [do |-> "show", ids |-> LaneAt("batch", clock)]
             sent   == [do |-> "mark", ids |-> screen, status |-> "approved"]
  <2>1. ~Drops(mark) /\ ~Drops(show) /\ ~Drops(sent)
    BY DEF Drops
  <2>2. Begin(<<>>, <<mark, show>>) \/ Begin(<<>>, <<sent>>)
    BY <1>3, Zenon DEF RefreshQueue, ApproveAll
  <2> HIDE DEF mark, show, sent
  <2>3. call' = <<>> \o <<mark, show>> \/ call' = <<>> \o <<sent>>
    BY <2>2 DEF Begin, AppendAll
  <2>4. call' = <<mark, show>> \/ call' = <<sent>>
    BY <2>3
  <2> QED
    BY <2>1, <2>4 DEF Planned
<1> QED
  BY <1>2, <1>3

LEMMA InitAimed == ServiceInit => Aimed
<1> SUFFICES ASSUME ServiceInit PROVE Aimed
  OBVIOUS
<1>1. Planned(call) = {}
  BY DEF ServiceInit, Planned
<1> QED
  BY <1>1 DEF Aimed

LEMMA NextAimed == SInv /\ Aimed /\ [ServiceNext]_svars => Aimed'
<1> SUFFICES ASSUME SInv, Aimed, [ServiceNext]_svars PROVE Aimed'
  OBVIOUS
<1>1. CASE \/ \E evaluation \in Evaluations : RecordRun(evaluation)
           \/ \E report \in Reports : ProcessOutcome(report)
  BY <1>1, AimedRun, AimedOutcome
<1>2. CASE \/ \E ct \in CampaignTypes, score \in Challenges : Challenge(ct, score)
           \/ RefreshQueue
           \/ ApproveAll
  BY <1>2, AimedOtherCall
<1>3. CASE Step
  BY <1>3, AimedStep
<1>4. CASE Tick \/ RestartIdle \/ UNCHANGED svars
  <2>1. UNCHANGED <<ledger, items, call>>
    BY <1>4 DEF Tick, RestartIdle, Restart, svars, stores
  <2>2. /\ Planned(call') = Planned(call)
        /\ \A kind : Plans(kind)' = Plans(kind)
        /\ \A ct : InFlight(ct)' = InFlight(ct)
    BY <2>1 DEF Plans, InFlight, ByStatus
  <2>3. \A ct : Own(ct)' = Own(ct)
    BY <2>1, <2>2 DEF Own
  <2> QED
    BY <2>2, <2>3 DEF Aimed
<1>5. CASE Crash
  <2>1. Planned(call') = {}
    BY <1>5 DEF Crash, Planned
  <2> QED
    BY <2>1 DEF Aimed
<1> QED
  BY <1>1, <1>2, <1>3, <1>4, <1>5 DEF ServiceNext

\* The last id marked, nothing of the type is left in flight.
LEMMA DowngradeEnds ==
  ASSUME SInv, Aimed, [ServiceNext]_svars, Downgrading, ~Downgrading', crashes' = crashes
  PROVE  InFlight(ledger[Len(ledger)].campaign_type)' = {}
<1>1. /\ \E c \in Planned(call) : Drops(c)
      /\ \A c \in Planned(call') : ~Drops(c)
  BY DEF Downgrading, Planned, Drops
<1>2. call # <<>> /\ call' # call
  BY <1>1 DEF Planned
<1>3. Step
  <2>1. ~Crash
    BY ServiceAssumption DEF Crash, SInv, ServiceTypeOK
  <2> QED
    BY <1>2, <2>1 DEF ServiceNext, RecordRun, ProcessOutcome, Challenge, RefreshQueue,
                      ApproveAll, Begin, Tick, RestartIdle, svars
<1>4. ASSUME NEW kind, kind \notin {"downgrade", "mark"}, Committing(kind), call' = Tail(call)
      PROVE  FALSE
  <2>1. Planned(call) = {Head(call)} \cup Planned(call') /\ Head(call).do = kind
    BY <1>4, AtWork
  <2> QED
    BY <1>1, <1>4, <2>1 DEF Drops
<1>5. AllMarked
  <2>1. ~(AppendEntry \/ Enqueue \/ StoreTrace \/ FlagCandidate \/ Show)
    <3>1. \E kind \in {"append", "enqueue", "trace", "flag", "show"} :
            (AppendEntry \/ Enqueue \/ StoreTrace \/ FlagCandidate \/ Show) =>
              Committing(kind) /\ call' = Tail(call)
      BY DEF AppendEntry, Enqueue, StoreTrace, FlagCandidate, Show, Done
    <3> QED
      BY <1>4, <3>1
  <2> QED
    BY <1>1, <1>3, <2>1, AimedDowngrade, AimedMark DEF Step
<1> DEFINE c == Head(call)
<1>6. /\ Planned(call) = {c} \cup Planned(call') /\ c.do = "mark" /\ c.ids = {}
      /\ Plans("append") = {} /\ UNCHANGED <<ledger, items>>
  BY <1>5, AtWork DEF AllMarked, Done, stores
<1> HIDE DEF c
<1>7. Drops(c)
  BY <1>1, <1>6
<1>8. PICK ct : Own(ct) /\ InFlight(ct) \subseteq c.ids
  BY <1>6, <1>7 DEF Aimed
<1>9. ledger'[Len(ledger')].campaign_type = ct /\ InFlight(ct)' = {}
  BY <1>6, <1>8 DEF Own, InFlight, ByStatus
<1> QED
  BY <1>9

\* A demoting call that is not itself cut off leaves nothing of its type in
\* flight, whatever earlier downgrades cut off partway had left there
\* (store.py:131-144).
THEOREM DowngradesMakeUpForCrashes == ServiceSpec => DowngradesMakeUp
<1>1. ServiceInit => SInv /\ Aimed
  BY InitSInv, InitAimed
<1>2. SInv /\ Aimed /\ [ServiceNext]_svars => (SInv /\ Aimed)'
  BY NextSInv, NextAimed
<1>3. SInv /\ Aimed /\ [ServiceNext]_svars =>
        [Downgrading /\ ~Downgrading' /\ crashes' = crashes =>
           InFlight(ledger[Len(ledger)].campaign_type)' = {}]_svars
  BY DowngradeEnds
<1> QED
  BY <1>1, <1>2, <1>3, PTL DEF ServiceSpec, DowngradesMakeUp

=============================================================================
