---------------------------- MODULE MCController ----------------------------
(***************************************************************************)
(* Small instances of Controller for TLC.  The gates are small enough to   *)
(* be cleared within the bound, and real: at 20 percent the Wilson lower   *)
(* bound of 1/1 (0.2065), 2/2 (0.34), 2/3 (0.2077) and 3/3 (0.44) clears   *)
(* and that of 1/2 (0.09) and 1/3 (0.06) does not.                         *)
(***************************************************************************)
EXTENDS Controller, TLC

CONSTANTS promo, news, r1

Triggers ==
  [m \in Metric |-> CASE m = "spam_complaint_rate" -> 8
                      [] m = "unsubscribe_rate" -> 30
                      [] m = "bounce_rate" -> 50]

AllPass == [d \in CRITICAL_DIMENSIONS |-> "pass"]

Clean(ct, segment) ==
  [campaign_type |-> ct, run_id |-> r1, segment |-> segment,
   discount_pct |-> 0, verdicts |-> AllPass, brand_voice |-> 75]

\* A clean run for the first tier, one for the second, one to a band that is
\* never autonomous, an off-brand run, and an ungrounded claim.
LadderEvaluations(ct) ==
  {Clean(ct, "engaged_30d"), Clean(ct, "engaged_90d"), Clean(ct, "lapsed"),
   [Clean(ct, "engaged_30d") EXCEPT !.brand_voice = 74],
   [Clean(ct, "engaged_30d") EXCEPT !.verdicts["claim_groundedness"] = "fail"]}

\* Rates at the thresholds breach nothing; one above is a breach.
AtThresholds(ct) == [campaign_type |-> ct, run_id |-> r1, rates |-> Triggers]
Breach(ct) == [AtThresholds(ct) EXCEPT !.rates["bounce_rate"] = 51]

LadderEvals == LadderEvaluations(promo)
LadderReports == {AtThresholds(promo), Breach(promo)}
LadderGate ==
  (ASSIST :> [window |-> 3, min_runs |-> 1, percent |-> 20]) @@
  (BOUNDED :> [window |-> 3, min_runs |-> 2, percent |-> 20])
LadderChallenges == {<<2, 2>>, <<1, 2>>}

\* The rate limit: clean runs of two types at every timestamp.
RateEvals == {Clean(promo, "engaged_30d"), Clean(news, "engaged_30d")}
RateTimes == 0 .. 3

\* The boundaries of the shipped gates, which the tests and the reference table
\* (docs/open-questions.md:29-35) give in floats: of 50 runs 48 must succeed, of
\* a perfect record 22 runs are the fewest, and of 100 runs 98 for the second.
ASSUME BoundaryCounts ==
  /\ \A s \in 0 .. 50 : LowerBoundExceeds(s, 50, 85) <=> s >= 48
  /\ \A n \in 1 .. 50 : LowerBoundExceeds(n, n, 85) <=> n >= 22
  /\ \A s \in 0 .. 100 : LowerBoundExceeds(s, 100, 92) <=> s >= 98

TypeSymmetry == Permutations(CampaignTypes)
=============================================================================
