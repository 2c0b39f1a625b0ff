------------------------------ MODULE Simulator ------------------------------
(***************************************************************************)
(* The outcome simulator (outcomes/simulator.py): the rates a sent         *)
(* campaign is given, from its audience, its scores, the scenario and      *)
(* noise.  A pure function; the Gaussian draws of its content hash are the *)
(* argument z, one per metric.                                             *)
(*                                                                         *)
(* Rates are integers in units of 1e-8 inside, and 1e-6 once rounded for   *)
(* the ledger; scores are hundredths.  Every constant of the source is a   *)
(* whole number of these units.  Open and click rates and revenue decide   *)
(* nothing and are left out.                                               *)
(***************************************************************************)
EXTENDS Domain

Scenario == {"nominal", "judge_blindspot", "degrading"}

SPAM_THRESHOLD == 80000
UNSUB_THRESHOLD == 300000

Rates(spam, unsub, bounce) ==
  [m \in Metric |-> CASE m = "spam_complaint_rate" -> spam
                      [] m = "unsubscribe_rate" -> unsub
                      [] m = "bounce_rate" -> bounce]

Base ==
  [segment \in SegmentBand |->
     CASE segment = "engaged_30d"       -> Rates(20000, 120000, 200000)
       [] segment = "engaged_60d"       -> Rates(28000, 160000, 260000)
       [] segment = "engaged_90d"       -> Rates(36000, 200000, 320000)
       [] segment = "engaged_180d"      -> Rates(50000, 280000, 420000)
       [] segment = "all_subscribers"   -> Rates(60000, 320000, 480000)
       [] segment = "first_time_buyers" -> Rates(45000, 260000, 400000)
       [] segment = "lapsed"            -> Rates(70000, 360000, 500000)]

Spread == Rates(25000, 100000, 120000)

\* What a score short of perfect adds, for the metric it matters to.
Penalised(base, weak) ==
  Rates((base["spam_complaint_rate"]
           * (200 + 5 * weak["segment_correctness"] + 4 * weak["claim_groundedness"]))
          \div 200,
        (base["unsubscribe_rate"] * (40 + weak["brand_voice"])) \div 40,
        (base["bounce_rate"] * (200 + weak["claim_groundedness"])) \div 200)

Noisy(rates, z) ==
  [m \in Metric |-> IF rates[m] + z[m] * Spread[m] < 0
                      THEN 0 ELSE rates[m] + z[m] * Spread[m]]

\* Fault: the forced breach caps the noise instead of topping it.
WithScenarioFault(rates, scenario, step, last) ==
  IF scenario = "judge_blindspot"
    THEN [rates EXCEPT !["spam_complaint_rate"] = IF @ <= 112000 THEN @ ELSE 112000]
    ELSE rates

\* A judge blind spot is forced over the spam threshold; a degrading batch
\* drifts into breach, by step out of last.
WithScenario(rates, scenario, step, last) ==
  LET spam  == rates["spam_complaint_rate"]
      unsub == rates["unsubscribe_rate"]
  IN  CASE scenario = "nominal" -> rates
        [] scenario = "judge_blindspot" ->
             [rates EXCEPT !["spam_complaint_rate"] =
                IF spam >= (SPAM_THRESHOLD * 14) \div 10
                  THEN spam ELSE (SPAM_THRESHOLD * 14) \div 10]
        [] scenario = "degrading" ->
             [rates EXCEPT
                !["spam_complaint_rate"] =
                   spam + (step * SPAM_THRESHOLD * 3) \div (2 * last),
                !["unsubscribe_rate"] =
                   unsub + (step * UNSUB_THRESHOLD * 6) \div (5 * last)]

\* as_ledger_metrics: six decimals.
Rounded(rates) == [m \in Metric |-> (rates[m] + 50) \div 100]

Simulate(segment, weak, scenario, z, step, last) ==
  Rounded(WithScenario(Noisy(Penalised(Base[segment], weak), z), scenario, step, last))
=============================================================================
