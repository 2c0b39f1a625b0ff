---------------------------- MODULE Orchestrator ----------------------------
(***************************************************************************)
(* One campaign brief taken through the agents: the segment analyst        *)
(* resolves the audience, the copy composer writes a draft, Stage 1 checks *)
(* it by rule and the four judges score it; a draft that does not pass is  *)
(* composed again with feedback, up to a budget.  Translated from          *)
(* agents/orchestrator.py, agents/revision.py, the two generator agents,   *)
(* evals/deterministic.py and evals/judges.py.                             *)
(*                                                                         *)
(* Every step is one call of a language model.  Its prompt is a record of  *)
(* the parts the prompt is built from; its reply is one that parses, or    *)
(* prose, or the call raises.  A text is opaque: Stage 1 reads off a copy  *)
(* the defects the constant DefectsOf gives it.  Products, catalog facts   *)
(* and brand rules do not change while the program runs and are left out   *)
(* of the prompts, as is the reasoning a judge adds to its score.          *)
(***************************************************************************)
EXTENDS Routing, Sequences

CONSTANTS
  Briefs,       \* the campaign briefs
  Copies,       \* the texts a composer may write
  DefectsOf     \* what the rules of Stage 1 find wrong with each text

MAX_REVISIONS == 2

Defect == {"missing_field", "prohibited_term", "invalid_link", "unknown_product"}
BRAND_BLOCKING == {"missing_field", "prohibited_term", "invalid_link"}
CLAIM_BLOCKING == {"unknown_product"}

\* The judges, in the order they are called.
Judges == <<"segment_correctness", "claim_groundedness", "brand_voice", "structure_quality">>
Dimension == {Judges[i] : i \in DOMAIN Judges}

Brief == [goal : STRING, campaign_type : CampaignTypes,
          requested_segment : SegmentBand, discount_pct : Nat]

\* A draft; its copy stands for every text in it and the products it names.
CampaignContent == [target_segment : SegmentBand, discount_pct : Nat, copy : Copies]

DimensionResult == [verdict : {"pass", "fail"}, score : 0 .. 100]

NoContent == [copy |-> "none"]
Unscored == [verdict |-> "missing", score |-> -1]

ASSUME OrchestratorAssumption ==
  /\ \A b \in Briefs : b \in Brief
  /\ DefectsOf \in [Copies -> SUBSET Defect]

VARIABLE run    \* the brief in progress, or NoRun

-----------------------------------------------------------------------------
(***************************************************************************)
(* Stage 1, and how its findings override the judges.                      *)
(***************************************************************************)
Findings(content, tier) ==
  DefectsOf[content.copy]
    \cup {f \in {"segment_ineligible"} :
            CheckSegmentEligibility(tier, content.target_segment) # {}}
    \cup {f \in {"discount_over_ceiling"} : CheckDiscount(content.discount_pct) # {}}

\* Fault: an invalid product is left to the claim judge.
GatedFault(results, findings) ==
  IF findings \cap BRAND_BLOCKING = {} THEN results
  ELSE [results EXCEPT !["brand_voice"] = [verdict |-> "fail", score |-> @.score]]

Gated(results, findings) ==
  [d \in Dimension |->
     CASE d = "brand_voice" /\ findings \cap BRAND_BLOCKING # {} ->
            [verdict |-> "fail",
             score   |-> IF results[d].score < 40 THEN results[d].score ELSE 40]
       [] d = "claim_groundedness" /\ findings \cap CLAIM_BLOCKING # {} ->
            [verdict |-> "fail", score |-> 0]
       [] OTHER -> results[d]]

\* The controller's input: what the judges said, once Stage 1 is folded in.
EvaluationOf(brief, content, results) ==
  [campaign_type |-> brief.campaign_type,
   segment       |-> content.target_segment,
   discount_pct  |-> content.discount_pct,
   verdicts      |-> [d \in CRITICAL_DIMENSIONS |-> results[d].verdict],
   brand_voice   |-> results["brand_voice"].score]

Feedback ==
  [critical : SUBSET (CRITICAL_DIMENSIONS \X (-1 .. 100)),
   brand    : SUBSET (-1 .. 100),
   findings : SUBSET (Defect \cup {"segment_ineligible", "discount_over_ceiling"})]

BuildFeedback(brief, content, results, findings) ==
  LET failures == CriticalFailures(EvaluationOf(brief, content, results))
  IN  [critical |-> {<<d, results[d].score>> : d \in failures},
       brand    |-> {s \in {results["brand_voice"].score} : s < BRAND_VOICE_PASS_THRESHOLD},
       findings |-> findings]

-----------------------------------------------------------------------------
(***************************************************************************)
(* The prompts: no judge sees the feedback, the revision or how the draft  *)
(* was asked for, and all but the first see only the text.                 *)
(***************************************************************************)
ResolvePrompt(brief) ==
  [to |-> "segment_analyst", goal |-> brief.goal, campaign_type |-> brief.campaign_type,
   requested_segment |-> brief.requested_segment]

\* Fault: the composer always renders faithfully.
ComposePromptFault(r) ==
  [to |-> "copy_composer", faithful |-> TRUE, goal |-> r.brief.goal,
   campaign_type |-> r.brief.campaign_type, discount_pct |-> r.brief.discount_pct,
   segment |-> r.segment, feedback |-> r.feedback]

ComposePrompt(r) ==
  [to |-> "copy_composer", faithful |-> r.faithful, goal |-> r.brief.goal,
   campaign_type |-> r.brief.campaign_type, discount_pct |-> r.brief.discount_pct,
   segment |-> r.segment, feedback |-> r.feedback]

SegmentPrompt(brief, content) ==
  [to |-> "segment_correctness", copy |-> content.copy, requested |-> brief.requested_segment,
   target |-> content.target_segment, campaign_type |-> brief.campaign_type]

TextPrompt(d, content) == [to |-> d, copy |-> content.copy]

JudgePrompt(d, brief, content) ==
  IF d = "segment_correctness" THEN SegmentPrompt(brief, content) ELSE TextPrompt(d, content)

Prompt ==
  CASE run.at = "resolve" -> ResolvePrompt(run.brief)
    [] run.at = "compose" -> ComposePrompt(run)
    [] OTHER -> JudgePrompt(run.at, run.brief, run.content)

\* What a model may reply, by what the parser makes of it.
Reply ==
  [gives : {"band"}, band : SegmentBand]
    \cup [gives : {"content"}, content : CampaignContent]
    \cup [gives : {"result"}, result : DimensionResult]
    \cup [gives : {"prose"}]

-----------------------------------------------------------------------------
NoRun == [at |-> "none"]

NewRun(brief, tier, budget, faithful) ==
  [at |-> "resolve", brief |-> brief, tier |-> tier, budget |-> budget,
   faithful |-> faithful, segment |-> brief.requested_segment, content |-> NoContent,
   results |-> [d \in Dimension |-> Unscored], revisions |-> 0, feedback |-> {}]

InProgress == run.at \in {"resolve", "compose"} \cup Dimension

\* run() and run_eval(): only the second may ask for a faithful rendering.
Begin(brief, tier, budget, faithful) ==
  /\ ~InProgress
  /\ run' = NewRun(brief, tier, budget, faithful)

\* An exception leaves the orchestrator from wherever it was.
Raise ==
  /\ InProgress
  /\ run' = [run EXCEPT !.at = "refused"]

\* The analyst cannot invent a band: anything else falls back to the brief's.
Resolve(reply) ==
  /\ run.at = "resolve"
  /\ run' = [run EXCEPT !.at = "compose",
                        !.segment = IF reply.gives = "band" THEN reply.band ELSE @]

\* Fault: a revised draft keeps the verdicts of the one it replaces.
ComposeFault(reply) ==
  /\ run.at = "compose"
  /\ run' = IF reply.gives = "content"
              THEN [run EXCEPT !.at = IF run.revisions > 0 THEN "done" ELSE Judges[1],
                               !.content = reply.content]
              ELSE [run EXCEPT !.at = "refused"]

\* A draft that does not parse is an exception; a new one is scored afresh.
Compose(reply) ==
  /\ run.at = "compose"
  /\ run' = IF reply.gives = "content"
              THEN [run EXCEPT !.at = Judges[1],
                               !.content = reply.content,
                               !.results = [d \in Dimension |-> Unscored]]
              ELSE [run EXCEPT !.at = "refused"]

\* Fault: a revision is not counted against the budget.
ConcludedFault(r, results, findings) ==
  IF Passed(EvaluationOf(r.brief, r.content, Gated(results, findings))) \/ r.revisions >= r.budget
    THEN [r EXCEPT !.at = "done", !.results = Gated(results, findings)]
    ELSE [r EXCEPT !.at = "compose", !.results = Gated(results, findings),
                   !.feedback = {BuildFeedback(r.brief, r.content, Gated(results, findings), findings)}]

\* Fault: one revision too many.
ConcludedOver(r, results, findings) ==
  IF Passed(EvaluationOf(r.brief, r.content, Gated(results, findings))) \/ r.revisions > r.budget
    THEN [r EXCEPT !.at = "done", !.results = Gated(results, findings)]
    ELSE [r EXCEPT !.at = "compose", !.results = Gated(results, findings), !.revisions = @ + 1,
                   !.feedback = {BuildFeedback(r.brief, r.content, Gated(results, findings), findings)}]

\* The last judge has answered: the run is over, or the draft is revised.
Concluded(r, results, findings) ==
  LET gated == Gated(results, findings)
  IN  IF Passed(EvaluationOf(r.brief, r.content, gated)) \/ r.revisions >= r.budget
        THEN [r EXCEPT !.at = "done", !.results = gated]
        ELSE [r EXCEPT !.at = "compose",
                       !.results = gated,
                       !.revisions = @ + 1,
                       !.feedback = {BuildFeedback(r.brief, r.content, gated, findings)}]

Judge(reply) ==
  \E i \in DOMAIN Judges :
    /\ run.at = Judges[i]
    /\ run' = IF reply.gives # "result"
                THEN [run EXCEPT !.at = "refused"]
              ELSE IF i < Len(Judges)
                THEN [run EXCEPT !.at = Judges[i + 1], !.results[run.at] = reply.result]
              ELSE Concluded(run, [run.results EXCEPT ![run.at] = reply.result],
                             Findings(run.content, run.tier))

Answer(reply) == Resolve(reply) \/ Compose(reply) \/ Judge(reply)

OrchestratorInit == run = NoRun

OrchestratorNext ==
  \/ \E brief \in Briefs, tier \in Tier, budget \in Nat, faithful \in BOOLEAN :
       Begin(brief, tier, budget, faithful)
  \/ \E reply \in Reply : Answer(reply)
  \/ Raise

OrchestratorSpec == OrchestratorInit /\ [][OrchestratorNext]_run

-----------------------------------------------------------------------------
(***************************************************************************)
(* Properties.                                                             *)
(***************************************************************************)
Done == run.at = "done"

Run ==
  [at : {"resolve", "compose", "done", "refused"} \cup Dimension,
   brief : Briefs, tier : Tier, budget : Nat, faithful : BOOLEAN,
   segment : SegmentBand, content : CampaignContent \cup {NoContent},
   results : [Dimension -> DimensionResult \cup {Unscored}],
   revisions : Nat, feedback : SUBSET Feedback]

\* What the pipeline hands the controller is scored on every dimension, and
\* the loop has stopped at its budget or at a draft that passes
\* (orchestrator.py:128-155).
OrchestratorTypeOK ==
  run # NoRun =>
    /\ run \in Run
    /\ run.revisions <= run.budget
    /\ Done =>
         /\ run.content \in CampaignContent
         /\ \A d \in Dimension : run.results[d] \in DimensionResult
         /\ \/ run.revisions = run.budget
            \/ Passed(EvaluationOf(run.brief, run.content, run.results))

\* A draft with a defect Stage 1 finds is never cleared for an autonomous
\* send, whatever the judges said of it and however often it was revised
\* (deterministic.py:6-7, orchestrator.py:190-210).
BlockingNeverSent ==
  Done => \A sends \in 0 .. MaxSendsPer24h :
            Findings(run.content, run.tier) # {} =>
              ~AutoSends(EvaluationOf(run.brief, run.content, run.results), run.tier, sends)
=============================================================================
