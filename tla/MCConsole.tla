----------------------------- MODULE MCConsole -----------------------------
(***************************************************************************)
(* Two threads of the console serving up to four calls that simulate up to *)
(* three runs of one type.  The type starts on tier 1, with the run that   *)
(* took it there still waiting in the queue, to be approved or to expire.  *)
(* A blind-spot campaign breaches under either draw of the noise, a        *)
(* degrading batch of two starts clean and ends in a breach, and a         *)
(* degrading batch of one is clean; the three make a race of clean sends,  *)
(* and one of a clean send with a breach.                                  *)
(***************************************************************************)
EXTENDS Console, TLC

CONSTANTS promo, old, s0, s1, t1, t2

Triggers ==
  [m \in Metric |-> CASE m = "spam_complaint_rate" -> 800
                      [] m = "unsubscribe_rate" -> 3000
                      [] m = "bounce_rate" -> 5000]

PromoIds == [ct \in CampaignTypes |-> <<s0, s1>>]

Draws == {[m \in Metric |-> z] : z \in {-10, 0}}

SizesOf ==
  ("degrading" :> {1, 2}) @@ ("judge_blindspot" :> {2})

ThreadSymmetry == Permutations(Threads)

Seeded ==
  [campaign_type |-> promo, run_id |-> old, segment |-> "engaged_30d",
   discount_pct |-> 0, brand_voice |-> 75,
   verdicts |-> [d \in CRITICAL_DIMENSIONS |-> "pass"]]

SmallGate ==
  (ASSIST :> [window |-> 3, min_runs |-> 1, percent |-> 20]) @@
  (BOUNDED :> [window |-> 3, min_runs |-> 3, percent |-> 20])
=============================================================================
