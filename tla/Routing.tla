------------------------------ MODULE Routing ------------------------------
(***************************************************************************)
(* The pure routing decision: what happens to one scored run, given the    *)
(* tier that governs its campaign type and the number of autonomous sends  *)
(* of the trailing day.  Translated from autonomy/routing.py and           *)
(* autonomy/constraints.py; it has no state.                               *)
(***************************************************************************)
EXTENDS Domain

CONSTANTS
  MaxDiscountPct,    \* config: discounts above this need a human
  MaxSendsPer24h     \* config: autonomous sends per type per 24 hours

ASSUME ConstraintsAssumption ==
  /\ MaxDiscountPct \in Nat \ {0}
  /\ MaxSendsPer24h \in Nat \ {0}

ConstraintCode ==
  {"never_autonomous_segment", "segment_not_eligible_for_tier",
   "discount_exceeds_ceiling", "rate_limit_exceeded"}

(***************************************************************************)
(* Each constraint check contributes its code when it blocks the send.  A  *)
(* never-autonomous band reports that alone, not the tier boundary too.    *)
(***************************************************************************)
CheckSegmentEligibility(tier, segment) ==
  {c \in {"never_autonomous_segment", "segment_not_eligible_for_tier"} :
     IF segment \in NEVER_AUTONOMOUS
       THEN c = "never_autonomous_segment"
       ELSE c = "segment_not_eligible_for_tier" /\ ~CanAutosend(tier, segment)}

CheckDiscount(discountPct) ==
  {c \in {"discount_exceeds_ceiling"} : discountPct > MaxDiscountPct}

\* Fault: the cap may be exceeded by one.
CheckRateLimitFault(sends) ==
  {c \in {"rate_limit_exceeded"} : sends > MaxSendsPer24h}

CheckRateLimit(sends) ==
  {c \in {"rate_limit_exceeded"} : sends >= MaxSendsPer24h}

Violations(evaluation, tier, sends) ==
  UNION {CheckSegmentEligibility(tier, evaluation.segment),
         CheckDiscount(evaluation.discount_pct),
         CheckRateLimit(sends)}

(***************************************************************************)
(* The evidence class of a run.  A quality failure takes precedence over a *)
(* constraint block; a clean run merely above the tier's audience is a     *)
(* success.                                                                *)
(***************************************************************************)
WilsonExcluding ==
  {"never_autonomous_segment", "discount_exceeds_ceiling", "rate_limit_exceeded"}

JudgmentConstraints ==
  {"never_autonomous_segment", "discount_exceeds_ceiling"}

OutcomeClass == {"quality_pass", "quality_failure", "constraint_block"}
Decision == {"auto_send", "human_review"}

Outcome(evaluation, codes) ==
  IF ~Passed(evaluation) THEN "quality_failure"
  ELSE IF codes \cap WilsonExcluding # {} THEN "constraint_block"
  ELSE "quality_pass"

AutoSends(evaluation, tier, sends) ==
  /\ Passed(evaluation)
  /\ Violations(evaluation, tier, sends) = {}
  /\ CanAutosend(tier, evaluation.segment)

(***************************************************************************)
(* The review lane of a run that is not sent: judgment for a critical      *)
(* failure or a serious constraint, batch otherwise.                       *)
(***************************************************************************)
Lane(evaluation, codes) ==
  IF CriticalFailures(evaluation) # {} \/ codes \cap JudgmentConstraints # {}
    THEN "judgment"
    ELSE "batch"

Decide(evaluation, tier, sends) ==
  [decision |-> IF AutoSends(evaluation, tier, sends)
                  THEN "auto_send" ELSE "human_review",
   outcome  |-> Outcome(evaluation, Violations(evaluation, tier, sends))]
=============================================================================
