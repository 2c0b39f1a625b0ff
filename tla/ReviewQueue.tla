----------------------------- MODULE ReviewQueue -----------------------------
(***************************************************************************)
(* The review queue (queue/): a mutable table of items keyed by run id,    *)
(* the two lanes its pending items are shown in, and the send window that  *)
(* closes on them.  Each write is a commit of its own, so the operations   *)
(* that write several items are loops over the commit actions below; the   *)
(* callers (Service.tla) run them.                                         *)
(*                                                                         *)
(* Scores, risk and the order within a lane are not modelled here.         *)
(***************************************************************************)
EXTENDS Routing

VARIABLE items    \* run id -> queue item, for the ids that have a row

ItemStatus == {"in_flight", "pending", "approved", "expired"}

QueueItem ==
  [campaign_type    : CampaignTypes,
   status           : ItemStatus,
   critical_flags   : SUBSET CRITICAL_DIMENSIONS,
   constraint_codes : SUBSET ConstraintCode,
   created_at       : Int,
   expires_at       : Int]

QueueTypeOK ==
  /\ DOMAIN items \subseteq RunIds
  /\ \A id \in DOMAIN items : items[id] \in QueueItem

QueueInit == items = [id \in {} |-> 0]

-----------------------------------------------------------------------------
(***************************************************************************)
(* Views.                                                                  *)
(***************************************************************************)

\* Fault: every clean run is taken to be in flight.
QueueItemFromDecisionFault(evaluation, decision, codes, now, window) ==
  [campaign_type    |-> evaluation.campaign_type,
   status           |-> IF Passed(evaluation) THEN "in_flight" ELSE "pending",
   critical_flags   |-> CriticalFailures(evaluation),
   constraint_codes |-> codes,
   created_at       |-> now,
   expires_at       |-> now + window]

\* A decision to send makes an item in flight, any other a pending one.
QueueItemFromDecision(evaluation, decision, codes, now, window) ==
  [campaign_type    |-> evaluation.campaign_type,
   status           |-> IF decision = "auto_send" THEN "in_flight" ELSE "pending",
   critical_flags   |-> CriticalFailures(evaluation),
   constraint_codes |-> codes,
   created_at       |-> now,
   expires_at       |-> now + window]

ByStatus(status) == {id \in DOMAIN items : items[id].status = status}

InFlight(ct) == {id \in ByStatus("in_flight") : items[id].campaign_type = ct}

\* A window of no length is closed from the start.
Expired(item, now) ==
  item.expires_at <= item.created_at \/ now >= item.expires_at

\* Fault: a discount above the ceiling is left out of lockstep with routing.
ClassifyLaneFault(item) ==
  IF \/ item.critical_flags # {}
     \/ item.constraint_codes \cap {"never_autonomous_segment"} # {}
    THEN "judgment"
    ELSE "batch"

ClassifyLane(item) ==
  IF \/ item.critical_flags # {}
     \/ item.constraint_codes
          \cap {"discount_exceeds_ceiling", "never_autonomous_segment"} # {}
    THEN "judgment"
    ELSE "batch"

\* Fault: whatever has its window behind it is expired, decided or not.
NewlyExpiredFault(now) == {id \in DOMAIN items : Expired(items[id], now)}

NewlyExpired(now) == {id \in ByStatus("pending") : Expired(items[id], now)}

LaneAt(lane, now) ==
  {id \in ByStatus("pending") \ NewlyExpired(now) : ClassifyLane(items[id]) = lane}

-----------------------------------------------------------------------------
(***************************************************************************)
(* Commits.                                                                *)
(***************************************************************************)
Add(id, item) ==
  items' = [key \in DOMAIN items \cup {id} |->
              IF key = id THEN item ELSE items[key]]

\* The code raises KeyError for an id that has no row.
SetStatus(id, status) ==
  /\ id \in DOMAIN items
  /\ Add(id, [items[id] EXCEPT !.status = status])
=============================================================================
