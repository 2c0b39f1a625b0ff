----------------------------- MODULE MCHarness -----------------------------
(***************************************************************************)
(* Two goldens.  The first is authored clean and its model always answers  *)
(* the same; the rate-limit layer keeps it from being sent.  The second is *)
(* authored with a claim that fails.  Rendered faithfully it has the flaw, *)
(* and the judges may or may not see it; in production the composer        *)
(* refuses it in prose, grounds it, or lets a prohibited term slip, which  *)
(* two rounds of feedback may or may not repair.                           *)
(***************************************************************************)
EXTENDS Harness, TLC

CONSTANTS promo, id

Triggers == [m \in Metric |-> 0]

PlainBrief == [goal |-> "plain", campaign_type |-> promo,
               requested_segment |-> "engaged_30d", discount_pct |-> 0]
FlawedBrief == [PlainBrief EXCEPT !.goal = "flawed"]

SmallBriefs == {PlainBrief, FlawedBrief}

AllPass == [d \in GRADED |-> "pass"]

TwoGoldens ==
  <<[brief |-> PlainBrief, tier |-> BOUNDED, rate_limited |-> TRUE, expected |-> AllPass],
    [brief |-> FlawedBrief, tier |-> BOUNDED, rate_limited |-> FALSE,
     expected |-> [AllPass EXCEPT !["claim_groundedness"] = "fail"]]>>

AllLabelled == [c \in DOMAIN TwoGoldens |-> TwoGoldens[c].expected]

Texts == {"plain", "verbatim", "grounded", "slipped"}

Defects == [c \in Texts |-> IF c = "slipped" THEN {"prohibited_term"} ELSE {}]

Draft(copy) ==
  [gives |-> "content",
   content |-> [target_segment |-> "engaged_30d", discount_pct |-> 0, copy |-> copy]]
Says(verdict, score) ==
  [gives |-> "result", result |-> [verdict |-> verdict, score |-> score]]
Prose == [gives |-> "prose"]

ComposerSays(p) ==
  CASE p.goal = "plain" -> {Draft("plain")}
    [] p.faithful -> {Draft("verbatim")}
    [] ~p.faithful /\ p.goal = "flawed" /\ p.feedback = {} ->
         {Draft("grounded"), Draft("slipped"), Prose}
    [] OTHER -> {Draft("grounded"), Draft("slipped")}

JudgeSays(p) ==
  CASE p.to = "claim_groundedness" /\ p.copy = "verbatim" ->
         {Says("pass", 90), Says("fail", 10)}
    [] p.to = "brand_voice" /\ p.copy = "slipped" -> {Says("pass", 90), Prose}
    [] OTHER -> {Says("pass", 90)}

ModelAnswers(p) ==
  CASE p.to = "segment_analyst" -> {[gives |-> "band", band |-> "engaged_30d"]}
    [] p.to = "copy_composer" -> ComposerSays(p)
    [] OTHER -> JudgeSays(p)
=============================================================================
