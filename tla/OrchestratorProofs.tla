-------------------------- MODULE OrchestratorProofs --------------------------
(***************************************************************************)
(* What holds of the orchestrator for every brief, every constant and      *)
(* whatever the models reply or fail to reply: its type invariant, with    *)
(* the bound of the revision loop, and that a draft with a defect Stage 1  *)
(* finds is never cleared for an autonomous send.  Neither is inductive:   *)
(* a run that is over must be known to have been scored by every judge,    *)
(* and folded with the findings of the draft it ends with.                 *)
(***************************************************************************)
EXTENDS Orchestrator, TLAPS

\* The judges before the one that is asked have scored the draft.
ScoredSoFar(r) ==
  \A i \in 1 .. 4 :
    r.at = Judges[i] =>
      /\ r.content \in CampaignContent
      /\ \A j \in 1 .. 4 : j < i => r.results[Judges[j]] \in DimensionResult

\* The findings of a draft pull down the dimension they are about.
Pulled(results, findings) ==
  /\ findings \cap BRAND_BLOCKING # {} => results["brand_voice"].score <= 40
  /\ findings \cap CLAIM_BLOCKING # {} => results["claim_groundedness"].verdict = "fail"

\* What a run that is over hands on.
Concludes(r) ==
  r.at = "done" =>
    /\ r.content \in CampaignContent
    /\ r.results \in [Dimension -> DimensionResult]
    /\ \/ r.revisions = r.budget
       \/ Passed(EvaluationOf(r.brief, r.content, r.results))
    /\ Pulled(r.results, Findings(r.content, r.tier))

Sound(r) ==
  /\ r \in Run
  /\ r.revisions <= r.budget
  /\ ScoredSoFar(r)
  /\ Concludes(r)

IInv == run # NoRun => Sound(run)

LEMMA FourJudges ==
  /\ DOMAIN Judges = 1 .. 4 /\ Len(Judges) = 4
  /\ Judges[1] = "segment_correctness" /\ Judges[2] = "claim_groundedness"
  /\ Judges[3] = "brand_voice" /\ Judges[4] = "structure_quality"
  /\ Dimension = {"segment_correctness", "claim_groundedness", "brand_voice", "structure_quality"}
  /\ \A i, j \in 1 .. 4 : Judges[i] = Judges[j] => i = j
<1>1. DOMAIN Judges = 1 .. 4 /\ Len(Judges) = 4
  BY DEF Judges
<1>2. /\ Judges[1] = "segment_correctness" /\ Judges[2] = "claim_groundedness"
      /\ Judges[3] = "brand_voice" /\ Judges[4] = "structure_quality"
  BY DEF Judges
<1>3. 1 .. 4 = {1, 2, 3, 4}
  OBVIOUS
<1>4. \A i, j \in 1 .. 4 : Judges[i] = Judges[j] => i = j
  BY <1>2, <1>3
<1> QED
  BY <1>1, <1>2, <1>3, <1>4 DEF Dimension

\* A step out of place is no step: a run that has not begun or is over has a
\* place of its own.
LEMMA NoRunIsNowhere == NoRun.at = "none" /\ "none" \notin Dimension
BY FourJudges DEF NoRun

LEMMA GatedIsScored ==
  ASSUME NEW results \in [Dimension -> DimensionResult], NEW findings
  PROVE  /\ Gated(results, findings) \in [Dimension -> DimensionResult]
         /\ Pulled(Gated(results, findings), findings)
<1> DEFINE gated == Gated(results, findings)
<1>1. \A d \in Dimension : gated[d] \in DimensionResult
  BY DEF Gated, DimensionResult
<1>2. /\ findings \cap BRAND_BLOCKING # {} => gated["brand_voice"].score <= 40
      /\ findings \cap CLAIM_BLOCKING # {} => gated["claim_groundedness"].verdict = "fail"
  BY FourJudges DEF Gated, DimensionResult
<1>3. gated \in [Dimension -> DimensionResult]
  BY <1>1 DEF Gated
<1> QED
  BY <1>2, <1>3 DEF Pulled

LEMMA FindingsTyped ==
  ASSUME NEW content \in CampaignContent, NEW tier
  PROVE  Findings(content, tier) \subseteq
           Defect \cup {"segment_ineligible", "discount_over_ceiling"}
<1>1. DefectsOf[content.copy] \subseteq Defect
  BY OrchestratorAssumption DEF CampaignContent
<1> QED
  BY <1>1 DEF Findings

LEMMA FeedbackTyped ==
  ASSUME NEW brief, NEW content, NEW results \in [Dimension -> DimensionResult],
         NEW findings \in SUBSET (Defect \cup {"segment_ineligible", "discount_over_ceiling"})
  PROVE  BuildFeedback(brief, content, results, findings) \in Feedback
<1> DEFINE failures == CriticalFailures(EvaluationOf(brief, content, results))
           critical == {<<d, results[d].score>> : d \in failures}
           brand == {s \in {results["brand_voice"].score} : s < BRAND_VOICE_PASS_THRESHOLD}
<1>1. \A d \in Dimension : results[d].score \in 0 .. 100
  BY DEF DimensionResult
<1>2. failures \subseteq CRITICAL_DIMENSIONS /\ CRITICAL_DIMENSIONS \subseteq Dimension
  BY FourJudges DEF CriticalFailures, CRITICAL_DIMENSIONS
<1>3. critical \in SUBSET (CRITICAL_DIMENSIONS \X (-1 .. 100))
  <2> HIDE DEF failures
  <2>1. \A d \in failures : results[d].score \in -1 .. 100
    BY <1>1, <1>2
  <2> QED
    BY <1>2, <2>1
<1>4. brand \in SUBSET (-1 .. 100)
  BY <1>1, FourJudges
<1>5. BuildFeedback(brief, content, results, findings)
        = [critical |-> critical, brand |-> brand, findings |-> findings]
  BY DEF BuildFeedback
<1> HIDE DEF critical, brand, failures
<1> QED
  BY <1>3, <1>4, <1>5 DEF Feedback

\* When the last judge has answered, the next run record is typed and folded,
\* over or not.
LEMMA ConcludedKeeps ==
  ASSUME NEW r \in Run, r.revisions <= r.budget, r.content \in CampaignContent,
         NEW results \in [Dimension -> DimensionResult],
         NEW findings, findings = Findings(r.content, r.tier)
  PROVE  LET next == Concluded(r, results, findings)
         IN  /\ next \in Run
             /\ next.revisions <= next.budget
             /\ next.at \in {"done", "compose"}
             /\ next.content = r.content /\ next.tier = r.tier
             /\ next.results = Gated(results, findings)
             /\ next.at = "done" =>
                  \/ next.revisions = next.budget
                  \/ Passed(EvaluationOf(next.brief, next.content, next.results))
<1> DEFINE gated == Gated(results, findings)
           passed == Passed(EvaluationOf(r.brief, r.content, gated))
           feedback == BuildFeedback(r.brief, r.content, gated, findings)
           over == [r EXCEPT !.at = "done", !.results = gated]
           again == [r EXCEPT !.at = "compose", !.results = gated,
                              !.revisions = @ + 1, !.feedback = {feedback}]
<1>1. gated \in [Dimension -> DimensionResult]
  BY GatedIsScored
<1>2. findings \in SUBSET (Defect \cup {"segment_ineligible", "discount_over_ceiling"})
  BY FindingsTyped
<1>3. feedback \in Feedback
  BY <1>1, <1>2, FeedbackTyped
<1>4. Concluded(r, results, findings) = IF passed \/ r.revisions >= r.budget THEN over ELSE again
  BY DEF Concluded
<1> HIDE DEF gated, passed, feedback
<1>5. gated \in [Dimension -> DimensionResult \cup {Unscored}]
  BY <1>1
<1>6. CASE passed \/ r.revisions >= r.budget
  <2>1. Concluded(r, results, findings) = over
    BY <1>4, <1>6
  <2>2. /\ over \in Run /\ over.revisions = r.revisions /\ over.budget = r.budget
        /\ over.brief = r.brief /\ over.content = r.content /\ over.tier = r.tier
        /\ over.results = gated /\ over.at = "done"
    BY <1>5 DEF Run
  <2>3. r.revisions \in Nat /\ r.budget \in Nat
    BY DEF Run
  <2>4. passed \/ r.revisions = r.budget
    BY <1>6, <2>3
  <2> HIDE DEF over
  <2> QED
    BY <2>1, <2>2, <2>4 DEF gated, passed
<1>7. CASE ~(passed \/ r.revisions >= r.budget)
  <2>1. Concluded(r, results, findings) = again
    BY <1>4, <1>7
  <2>2. r.revisions \in Nat /\ r.budget \in Nat
    BY DEF Run
  <2>6. {feedback} \in SUBSET Feedback /\ r.revisions + 1 \in Nat
    BY <1>3, <2>2
  <2>3. again \in Run /\ again.revisions = r.revisions + 1 /\ again.budget = r.budget
    <3>1. again \in Run
      BY <1>5, <2>6 DEF Run
    <3>2. again.revisions = r.revisions + 1 /\ again.budget = r.budget
      BY DEF Run
    <3> QED
      BY <3>1, <3>2
  <2>4. /\ again.content = r.content /\ again.tier = r.tier
        /\ again.results = gated /\ again.at = "compose"
    BY DEF Run
  <2>5. r.revisions + 1 <= r.budget
    BY <1>7, <2>2
  <2> HIDE DEF again
  <2> QED
    BY <2>1, <2>3, <2>4, <2>5 DEF gated
<1> QED
  BY <1>6, <1>7

\* A place of a run, and what each leaves to show.
LEMMA ElsewhereIsSound ==
  ASSUME NEW r \in Run, r.revisions <= r.budget,
         r.at \in {"resolve", "compose", "refused"}
  PROVE  Sound(r)
<1>1. r.at # "done" /\ \A i \in 1 .. 4 : r.at # Judges[i]
  BY FourJudges
<1> QED
  BY <1>1 DEF Sound, ScoredSoFar, Concludes

LEMMA BeginSound ==
  ASSUME NEW brief \in Briefs, NEW tier \in Tier, NEW budget \in Nat, NEW faithful \in BOOLEAN
  PROVE  Sound(NewRun(brief, tier, budget, faithful))
<1> DEFINE r == NewRun(brief, tier, budget, faithful)
           unscored == [d \in Dimension |-> Unscored]
<1>1. brief.requested_segment \in SegmentBand
  BY OrchestratorAssumption DEF Brief
<1>2. unscored \in [Dimension -> DimensionResult \cup {Unscored}]
  OBVIOUS
<1>3. r \in Run
  <2> HIDE DEF unscored
  <2>1. r = [at |-> "resolve", brief |-> brief, tier |-> tier, budget |-> budget,
             faithful |-> faithful, segment |-> brief.requested_segment,
             content |-> NoContent, results |-> unscored, revisions |-> 0, feedback |-> {}]
    BY DEF NewRun, unscored
  <2> QED
    BY <1>1, <1>2, <2>1 DEF Run
<1>4. r.revisions <= r.budget /\ r.at = "resolve"
  BY DEF NewRun
<1> HIDE DEF r
<1>5. Sound(r)
  BY <1>3, <1>4, ElsewhereIsSound
<1> QED
  BY <1>5 DEF r

\* One reply taken in, or none: the analyst's, the composer's, a judge's.
LEMMA RaiseSound ==
  ASSUME Sound(run), Raise
  PROVE  Sound(run')
<1>1. run' \in Run /\ run'.at = "refused" /\ run'.revisions <= run'.budget
  BY DEF Raise, Run, Sound
<1> QED
  BY <1>1, ElsewhereIsSound

LEMMA ResolveSound ==
  ASSUME Sound(run), NEW reply \in Reply, Resolve(reply)
  PROVE  Sound(run')
<1> DEFINE segment == IF reply.gives = "band" THEN reply.band ELSE run.segment
<1>1. segment \in SegmentBand
  BY DEF Reply, Sound, Run
<1>2. run' = [run EXCEPT !.at = "compose", !.segment = segment]
  BY DEF Resolve, Sound, Run
<1> HIDE DEF segment
<1>3. run' \in Run /\ run'.at = "compose" /\ run'.revisions <= run'.budget
  BY <1>1, <1>2 DEF Sound, Run
<1> QED
  BY <1>3, ElsewhereIsSound

LEMMA ComposeSound ==
  ASSUME Sound(run), NEW reply \in Reply, Compose(reply)
  PROVE  Sound(run')
<1> DEFINE unscored == [d \in Dimension |-> Unscored]
<1>1. unscored \in [Dimension -> DimensionResult \cup {Unscored}]
  OBVIOUS
<1>2. CASE reply.gives = "content"
  <2>1. reply.content \in CampaignContent
    BY <1>2 DEF Reply
  <2>2. run' = [run EXCEPT !.at = Judges[1], !.content = reply.content, !.results = unscored]
    BY <1>2 DEF Compose
  <2> HIDE DEF unscored
  <2>3. /\ run' \in Run /\ run'.at = Judges[1] /\ run'.content = reply.content
        /\ run'.revisions <= run'.budget
    BY <1>1, <2>1, <2>2, FourJudges DEF Sound, Run
  <2>4. ScoredSoFar(run')
    BY <2>1, <2>3, FourJudges DEF ScoredSoFar
  <2>5. Concludes(run')
    BY <2>3, FourJudges DEF Concludes
  <2> QED
    BY <2>3, <2>4, <2>5 DEF Sound
<1>3. CASE reply.gives # "content"
  <2>1. run' \in Run /\ run'.at = "refused" /\ run'.revisions <= run'.budget
    BY <1>3 DEF Compose, Run, Sound
  <2> QED
    BY <2>1, ElsewhereIsSound
<1> QED
  BY <1>2, <1>3

LEMMA JudgeSound ==
  ASSUME Sound(run), NEW reply \in Reply, Judge(reply)
  PROVE  Sound(run')
<1>1. PICK i \in 1 .. 4 :
        /\ run.at = Judges[i]
        /\ run' = IF reply.gives # "result"
                    THEN [run EXCEPT !.at = "refused"]
                  ELSE IF i < 4
                    THEN [run EXCEPT !.at = Judges[i + 1], !.results[run.at] = reply.result]
                  ELSE Concluded(run, [run.results EXCEPT ![run.at] = reply.result],
                                 Findings(run.content, run.tier))
  BY FourJudges DEF Judge
<1> DEFINE results == [run.results EXCEPT ![run.at] = reply.result]
<1>2. /\ run \in Run /\ run.revisions <= run.budget /\ run.content \in CampaignContent
      /\ \A j \in 1 .. 4 : j < i => run.results[Judges[j]] \in DimensionResult
  BY <1>1 DEF Sound, ScoredSoFar
<1>3. run.at \in Dimension /\ run.results \in [Dimension -> DimensionResult \cup {Unscored}]
  BY <1>1, <1>2, FourJudges DEF Run
<1>4. CASE reply.gives # "result"
  <2>1. run' \in Run /\ run'.at = "refused" /\ run'.revisions <= run'.budget
    BY <1>1, <1>2, <1>4 DEF Run
  <2> QED
    BY <2>1, ElsewhereIsSound
<1>5. ASSUME reply.gives = "result"
      PROVE  /\ results \in [Dimension -> DimensionResult \cup {Unscored}]
             /\ \A j \in 1 .. 4 : j < i + 1 => results[Judges[j]] \in DimensionResult
  <2>1. reply.result \in DimensionResult
    BY <1>5 DEF Reply
  <2>2. results \in [Dimension -> DimensionResult \cup {Unscored}]
    BY <1>3, <2>1
  <2>3. ASSUME NEW j \in 1 .. 4, j < i + 1
        PROVE  results[Judges[j]] \in DimensionResult
    <3>1. Judges[j] \in Dimension
      BY FourJudges
    <3>2. CASE j = i
      BY <1>1, <1>3, <2>1, <3>1, <3>2
    <3>3. CASE j # i
      BY <1>2, <1>3, <2>1, <2>3, <3>1, <3>3
    <3> QED
      BY <3>2, <3>3
  <2> QED
    BY <2>2, <2>3
<1>6. CASE reply.gives = "result" /\ i < 4
  <2>1. run' = [run EXCEPT !.at = Judges[i + 1], !.results = results]
    BY <1>1, <1>2, <1>6 DEF Run
  <2>2. results \in [Dimension -> DimensionResult \cup {Unscored}]
    BY <1>5, <1>6
  <2>3. Judges[i + 1] \in Dimension /\ i + 1 \in 1 .. 4
    BY <1>6, FourJudges
  <2> HIDE DEF results
  <2>4. /\ run' \in Run /\ run'.at = Judges[i + 1] /\ run'.revisions <= run'.budget
        /\ run'.content = run.content /\ run'.results = results
    BY <1>2, <2>1, <2>2, <2>3 DEF Run
  <2>5. ASSUME NEW k \in 1 .. 4, run'.at = Judges[k]
        PROVE  k = i + 1
    BY <2>3, <2>4, <2>5, FourJudges
  <2>6. ScoredSoFar(run')
    BY <1>2, <1>5, <1>6, <2>4, <2>5 DEF ScoredSoFar
  <2>7. Concludes(run')
    BY <2>3, <2>4, FourJudges DEF Concludes
  <2> QED
    BY <2>4, <2>6, <2>7 DEF Sound
<1>7. CASE reply.gives = "result" /\ ~(i < 4)
  <2> DEFINE findings == Findings(run.content, run.tier)
             next == Concluded(run, results, findings)
  <2>1. results \in [Dimension -> DimensionResult]
    <3>1. \A d \in Dimension : \E j \in 1 .. 4 : d = Judges[j]
      BY FourJudges
    <3>2. \A d \in Dimension : results[d] \in DimensionResult
      BY <1>5, <1>7, <3>1
    <3> QED
      BY <1>5, <1>7, <3>2
  <2>2. run' = next
    BY <1>1, <1>7
  <2> HIDE DEF results
  <2>3. /\ next \in Run
        /\ next.revisions <= next.budget
        /\ next.at \in {"done", "compose"}
        /\ next.content = run.content /\ next.tier = run.tier
        /\ next.results = Gated(results, findings)
        /\ next.at = "done" =>
             \/ next.revisions = next.budget
             \/ Passed(EvaluationOf(next.brief, next.content, next.results))
    BY <1>2, <2>1, ConcludedKeeps
  <2>4. /\ Gated(results, findings) \in [Dimension -> DimensionResult]
        /\ Pulled(Gated(results, findings), findings)
    BY <2>1, GatedIsScored
  <2> HIDE DEF next
  <2>5. Concludes(next)
    BY <1>2, <2>3, <2>4 DEF Concludes, findings
  <2>6. ScoredSoFar(next)
    BY <2>3, FourJudges DEF ScoredSoFar
  <2> QED
    BY <2>2, <2>3, <2>5, <2>6 DEF Sound
<1> QED
  BY <1>4, <1>6, <1>7

\* At every place of a run what it holds is what that place needs
\* (orchestrator.py:128-210).
THEOREM Soundness == OrchestratorSpec => []IInv
<1>1. OrchestratorInit => IInv
  BY DEF OrchestratorInit, IInv
<1>2. IInv /\ [OrchestratorNext]_run => IInv'
  <2> SUFFICES ASSUME IInv, [OrchestratorNext]_run PROVE IInv'
    OBVIOUS
  <2>1. CASE UNCHANGED run
    BY <2>1 DEF IInv, Sound, ScoredSoFar, Concludes
  <2>2. CASE \E brief \in Briefs, tier \in Tier, budget \in Nat, faithful \in BOOLEAN :
               Begin(brief, tier, budget, faithful)
    <3>1. PICK brief \in Briefs, tier \in Tier, budget \in Nat, faithful \in BOOLEAN :
            run' = NewRun(brief, tier, budget, faithful)
      BY <2>2 DEF Begin
    <3>2. Sound(NewRun(brief, tier, budget, faithful))
      BY BeginSound
    <3> QED
      BY <3>1, <3>2 DEF IInv
  <2>3. ASSUME InProgress \/ \E reply \in Reply : Answer(reply)
        PROVE  Sound(run)
    <3>1. \A i \in DOMAIN Judges : Judges[i] \in Dimension
      BY DEF Dimension
    <3>2. run.at \in {"resolve", "compose"} \cup Dimension
      BY <2>3, <3>1 DEF InProgress, Answer, Resolve, Compose, Judge
    <3>3. run # NoRun
      BY <3>2, NoRunIsNowhere
    <3> QED
      BY <3>3 DEF IInv
  <2>4. CASE \E reply \in Reply : Answer(reply)
    <3>1. PICK reply \in Reply : Answer(reply)
      BY <2>4
    <3>2. Sound(run)
      BY <2>3, <2>4
    <3>3. CASE Resolve(reply)
      BY <3>2, <3>3, ResolveSound DEF IInv
    <3>4. CASE Compose(reply)
      BY <3>2, <3>4, ComposeSound DEF IInv
    <3>5. CASE Judge(reply)
      BY <3>2, <3>5, JudgeSound DEF IInv
    <3> QED
      BY <3>1, <3>3, <3>4, <3>5 DEF Answer
  <2>5. CASE Raise
    BY <2>3, <2>5, RaiseSound DEF IInv, Raise
  <2> QED
    BY <2>1, <2>2, <2>4, <2>5 DEF OrchestratorNext
<1> QED
  BY <1>1, <1>2, PTL DEF OrchestratorSpec

(***************************************************************************)
(* Whatever the models reply, the run record is well formed, the loop      *)
(* stays within its budget and stops at it or at a draft that passes, and  *)
(* what it hands on is scored in every dimension (orchestrator.py:128-155). *)
(***************************************************************************)
THEOREM OrchestratorTypeCorrect == OrchestratorSpec => []OrchestratorTypeOK
<1>1. IInv => OrchestratorTypeOK
  BY DEF IInv, Sound, Concludes, OrchestratorTypeOK, Done
<1> QED
  BY <1>1, Soundness, PTL

\* What blocks an autonomous send, finding by finding.
LEMMA FindingBlocks ==
  ASSUME NEW r, Sound(r), r.at = "done", Findings(r.content, r.tier) # {}, NEW sends
  PROVE  ~AutoSends(EvaluationOf(r.brief, r.content, r.results), r.tier, sends)
<1> DEFINE findings == Findings(r.content, r.tier)
           evaluation == EvaluationOf(r.brief, r.content, r.results)
<1>1. /\ r.content \in CampaignContent
      /\ r.results \in [Dimension -> DimensionResult]
      /\ Pulled(r.results, findings)
  BY DEF Sound, Concludes
<1>2. findings \subseteq Defect \cup {"segment_ineligible", "discount_over_ceiling"}
  BY <1>1, FindingsTyped
<1>3. evaluation.segment = r.content.target_segment /\ evaluation.discount_pct = r.content.discount_pct
  BY DEF EvaluationOf
<1>4. CASE findings \cap BRAND_BLOCKING # {}
  <2>1. r.results["brand_voice"].score <= 40 /\ r.results["brand_voice"].score \in 0 .. 100
    BY <1>1, <1>4, FourJudges DEF Pulled, DimensionResult
  <2>2. evaluation.brand_voice <= 40 /\ evaluation.brand_voice \in 0 .. 100
    BY <2>1 DEF EvaluationOf
  <2>3. ~Passed(evaluation)
    BY <2>2 DEF Passed, BRAND_VOICE_PASS_THRESHOLD
  <2> QED
    BY <2>3 DEF AutoSends
<1>5. CASE findings \cap CLAIM_BLOCKING # {}
  <2>1. evaluation.verdicts["claim_groundedness"] = "fail"
    BY <1>1, <1>5 DEF Pulled, EvaluationOf, CRITICAL_DIMENSIONS
  <2>2. "claim_groundedness" \in CriticalFailures(evaluation)
    BY <2>1 DEF CriticalFailures, CRITICAL_DIMENSIONS
  <2>3. ~Passed(evaluation)
    BY <2>2 DEF Passed
  <2> QED
    BY <2>3 DEF AutoSends
<1>6. CASE "segment_ineligible" \in findings
  <2>1. "segment_ineligible" \notin DefectsOf[r.content.copy]
    BY <1>1, OrchestratorAssumption DEF CampaignContent, Defect
  <2>2. CheckSegmentEligibility(r.tier, r.content.target_segment) # {}
    BY <1>6, <2>1 DEF Findings
  <2>3. Violations(evaluation, r.tier, sends) # {}
    BY <1>3, <2>2 DEF Violations
  <2> QED
    BY <2>3 DEF AutoSends
<1>7. CASE "discount_over_ceiling" \in findings
  <2>1. "discount_over_ceiling" \notin DefectsOf[r.content.copy]
    BY <1>1, OrchestratorAssumption DEF CampaignContent, Defect
  <2>2. CheckDiscount(r.content.discount_pct) # {}
    BY <1>7, <2>1 DEF Findings
  <2>3. Violations(evaluation, r.tier, sends) # {}
    BY <1>3, <2>2 DEF Violations
  <2> QED
    BY <2>3 DEF AutoSends
<1> QED
  BY <1>2, <1>4, <1>5, <1>6, <1>7 DEF Defect, BRAND_BLOCKING, CLAIM_BLOCKING

(***************************************************************************)
(* No judge can talk a draft past Stage 1: one with a finding is never     *)
(* cleared for an autonomous send, for every tier, ceiling and number of   *)
(* sends (deterministic.py:6-7).                                           *)
(***************************************************************************)
THEOREM NoJudgeOverridesStage1 == OrchestratorSpec => []BlockingNeverSent
<1>1. IInv => BlockingNeverSent
  <2> SUFFICES ASSUME IInv, Done, NEW sends \in 0 .. MaxSendsPer24h,
                      Findings(run.content, run.tier) # {}
               PROVE  ~AutoSends(EvaluationOf(run.brief, run.content, run.results),
                                 run.tier, sends)
    BY DEF BlockingNeverSent
  <2>1. Sound(run) /\ run.at = "done"
    BY NoRunIsNowhere DEF IInv, Done
  <2> QED
    BY <2>1, FindingBlocks
<1> QED
  BY <1>1, Soundness, PTL
=============================================================================
