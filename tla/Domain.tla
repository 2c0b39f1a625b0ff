------------------------------- MODULE Domain -------------------------------
(***************************************************************************)
(* The vocabulary every part of the system shares: the tiers of the        *)
(* autonomy ladder, the audience bands a campaign may target, the quality  *)
(* dimensions a run is scored on, and the evaluation and the deliverability *)
(* report that are the controller's two inputs.  Translated from domain.py, *)
(* autonomy/tiers.py, records.py and config.py.                            *)
(*                                                                         *)
(* Names, ids and free text are opaque: a campaign type and a run id are   *)
(* elements of the sets below.  Scores are integers, in hundredths, and so *)
(* are rates, in any unit TriggerMax is given in: the code only compares   *)
(* them with thresholds.                                                   *)
(***************************************************************************)
EXTENDS Integers

CONSTANTS
  CampaignTypes,   \* autonomy is tracked separately for each of these
  RunIds,          \* identifiers a run may carry
  TriggerMax       \* config: the largest tolerated value of each metric

SegmentBand ==
  {"engaged_30d", "engaged_60d", "engaged_90d", "engaged_180d",
   "all_subscribers", "first_time_buyers", "lapsed"}

NEVER_AUTONOMOUS ==
  {"engaged_180d", "all_subscribers", "first_time_buyers", "lapsed"}

(***************************************************************************)
(* Tiers are ordered and compared as the integers of the IntEnum.          *)
(***************************************************************************)
ASSIST == 0
BOUNDED == 1
SUPERVISED == 2
Tier == ASSIST .. SUPERVISED

TierSegments ==
  [tier \in Tier |->
     CASE tier = ASSIST     -> {}
       [] tier = BOUNDED    -> {"engaged_30d"}
       [] tier = SUPERVISED -> {"engaged_30d", "engaged_60d", "engaged_90d"}]

CanAutosend(tier, segment) ==
  /\ segment \notin NEVER_AUTONOMOUS
  /\ segment \in TierSegments[tier]

Standing == {"active", "probation", "investigation_required"}

(***************************************************************************)
(* An evaluation.  Only the critical dimensions' verdicts and the brand    *)
(* voice score decide anything; a dimension the judges did not return is   *)
(* "missing", which counts as a failure, and a missing brand voice score   *)
(* is below every threshold (-1).                                          *)
(***************************************************************************)
CRITICAL_DIMENSIONS == {"segment_correctness", "claim_groundedness"}
BRAND_VOICE_PASS_THRESHOLD == 75

Evaluation ==
  [campaign_type : CampaignTypes,
   run_id        : RunIds,
   segment       : SegmentBand,
   discount_pct  : Nat,
   verdicts      : [CRITICAL_DIMENSIONS -> {"pass", "fail", "missing"}],
   brand_voice   : -1 .. 100]

CriticalFailures(evaluation) ==
  {d \in CRITICAL_DIMENSIONS : evaluation.verdicts[d] # "pass"}

Passed(evaluation) ==
  /\ CriticalFailures(evaluation) = {}
  /\ evaluation.brand_voice >= BRAND_VOICE_PASS_THRESHOLD

(***************************************************************************)
(* A deliverability report, and the thresholds a send may not exceed.      *)
(***************************************************************************)
Metric == {"spam_complaint_rate", "unsubscribe_rate", "bounce_rate"}

Report ==
  [campaign_type : CampaignTypes,
   run_id        : RunIds,
   rates         : [Metric -> Nat]]

CheckDeliverability(report) ==
  {m \in Metric : report.rates[m] > TriggerMax[m]}

Breached(report) == CheckDeliverability(report) # {}

ASSUME TriggerAssumption == TriggerMax \in [Metric -> Nat]
=============================================================================
