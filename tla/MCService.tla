----------------------------- MODULE MCService -----------------------------
(***************************************************************************)
(* Small instances of Service for TLC: one campaign type and three runs.   *)
(* The first is clean; the second may also carry a discount that is a      *)
(* human's to approve, the third an ungrounded claim.  One successful run  *)
(* clears the gate, so three runs are enough to promote, send and demote.  *)
(***************************************************************************)
EXTENDS Service, TLC

CONSTANTS promo, r1, r2, r3

Triggers ==
  [m \in Metric |-> CASE m = "spam_complaint_rate" -> 8
                      [] m = "unsubscribe_rate" -> 30
                      [] m = "bounce_rate" -> 50]

Clean(id) ==
  [campaign_type |-> promo, run_id |-> id, segment |-> "engaged_30d",
   discount_pct |-> 0, brand_voice |-> 75,
   verdicts |-> [d \in CRITICAL_DIMENSIONS |-> "pass"]]

SmallEvaluations ==
  {Clean(r1), Clean(r2), Clean(r3),
   [Clean(r2) EXCEPT !.discount_pct = 26],
   [Clean(r3) EXCEPT !.verdicts["claim_groundedness"] = "fail"]}

\* A send that does well and one that breaches.
SmallReports ==
  {[campaign_type |-> promo, run_id |-> id, rates |-> [Triggers EXCEPT !["bounce_rate"] = rate]] :
     id \in RunIds, rate \in {50, 51}}

SmallGate ==
  [t \in ASSIST .. BOUNDED |-> [window |-> 3, min_runs |-> 1, percent |-> 20]]
SmallTimes == 0 .. MaxClock
SmallChallenges == {<<2, 2>>, <<1, 2>>}
=============================================================================
