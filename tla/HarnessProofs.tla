---------------------------- MODULE HarnessProofs ----------------------------
(***************************************************************************)
(* What holds of the evaluation harness for every list of goldens,         *)
(* whatever the models reply, and with any number of crashes, failed calls *)
(* and lost fixtures.  A reply never leaves the store under its prompt     *)
(* while a sweep is on, so what a run does from there on can be read off   *)
(* the store.  A set of run records stands for that reading: it holds the  *)
(* record a stage starts with, and with each one in progress the record    *)
(* its stored reply makes of it.  A stage that was recorded leaves such a  *)
(* set behind, and a replay of it never steps out of that set.             *)
(***************************************************************************)
EXTENDS Harness, OrchestratorProofs, SequenceTheorems, FiniteSetTheorems

Running(r) == r.at \in {"resolve", "compose"} \cup Dimension

PromptOf(r) ==
  CASE r.at = "resolve" -> ResolvePrompt(r.brief)
    [] r.at = "compose" -> ComposePrompt(r)
    [] OTHER -> JudgePrompt(r.at, r.brief, r.content)

\* What a reply makes of a run in progress.
Resolved(r, reply) ==
  [r EXCEPT !.at = "compose", !.segment = IF reply.gives = "band" THEN reply.band ELSE @]

Composed(r, reply) ==
  IF reply.gives = "content"
    THEN [r EXCEPT !.at = Judges[1], !.content = reply.content,
                   !.results = [d \in Dimension |-> Unscored]]
    ELSE [r EXCEPT !.at = "refused"]

JudgedBy(r, i, reply) ==
  IF reply.gives # "result" THEN [r EXCEPT !.at = "refused"]
  ELSE IF i < 4 THEN [r EXCEPT !.at = Judges[i + 1], !.results[r.at] = reply.result]
  ELSE Concluded(r, [r.results EXCEPT ![r.at] = reply.result], Findings(r.content, r.tier))

PlaceOf(r) == CHOOSE i \in 1 .. 4 : r.at = Judges[i]

Answered(r, reply) ==
  CASE r.at = "resolve" -> Resolved(r, reply)
    [] r.at = "compose" -> Composed(r, reply)
    [] OTHER -> JudgedBy(r, PlaceOf(r), reply)

Read(st, r) ==
  IF st[PromptOf(r)] = Torn THEN [r EXCEPT !.at = "refused"] ELSE Answered(r, st[PromptOf(r)])

\* One store keeps all that another holds.
Keeps(st, older) ==
  /\ DOMAIN older \subseteq DOMAIN st
  /\ \A p \in DOMAIN older : st[p] = older[p]

LEMMA PromptIsOfTheRun == Prompt = PromptOf(run)
BY DEF Prompt, PromptOf

LEMMA InProgressRuns == InProgress <=> Running(run)
BY DEF InProgress, Running

LEMMA AnswerIsAFunction ==
  ASSUME NEW reply, Answer(reply)
  PROVE  Running(run) /\ run' = Answered(run, reply)
<1>1. "resolve" \notin Dimension /\ "compose" \notin Dimension
  BY FourJudges
<1>2. CASE Resolve(reply)
  BY <1>1, <1>2 DEF Resolve, Running, Answered, Resolved
<1>3. CASE Compose(reply)
  BY <1>1, <1>3 DEF Compose, Running, Answered, Composed
<1>4. CASE Judge(reply)
  <2>1. PICK i \in 1 .. 4 : run.at = Judges[i] /\ run' = JudgedBy(run, i, reply)
    BY <1>4, FourJudges DEF Judge, JudgedBy
  <2>2. run.at \in Dimension
    BY <2>1, FourJudges
  <2>3. PlaceOf(run) = i
    BY <2>1, FourJudges DEF PlaceOf
  <2>4. Answered(run, reply) = JudgedBy(run, i, reply)
    BY <1>1, <2>2, <2>3 DEF Answered
  <2> QED
    BY <2>1, <2>2, <2>4 DEF Running
<1> QED
  BY <1>2, <1>3, <1>4 DEF Answer

LEMMA RaiseRefuses == Raise => Running(run) /\ run' = [run EXCEPT !.at = "refused"]
BY InProgressRuns DEF Raise

\* A reading depends on the one entry it reads.
LEMMA ReadingStays ==
  ASSUME NEW st, NEW older, Keeps(st, older), NEW r, PromptOf(r) \in DOMAIN older
  PROVE  PromptOf(r) \in DOMAIN st /\ Read(st, r) = Read(older, r)
BY DEF Keeps, Read

-----------------------------------------------------------------------------
(***************************************************************************)
(* The sweep and its run: what they are made of, and that they agree on    *)
(* the case.                                                               *)
(***************************************************************************)
GoodScores == {x \in Scored : x.refused <=> \E d \in GRADED : x.verdicts[d] = "missing"}

GoodStage == GoodScores \cup Routed

\* What stage s of a case may leave.
LeftIn(s) == IF s = 3 THEN Routed ELSE GoodScores

SweepRecord ==
  [client : {"recording", "replay"}, case : DOMAIN Goldens, stage : 1 .. 3,
   now : Seq(GoodStage), runs : Seq([1 .. 3 -> GoodStage])]

\* Everything a sweep holds is what its stage may leave.
Placed(sw) ==
  /\ \A s \in 1 .. Len(sw.now) : sw.now[s] \in LeftIn(s)
  /\ \A c \in 1 .. Len(sw.runs) : \A s \in 1 .. 3 : sw.runs[c][s] \in LeftIn(s)

SweepTyped ==
  \/ sweep = NoSweep
  \/ /\ sweep \in SweepRecord
     /\ Len(sweep.runs) = sweep.case - 1 /\ Len(sweep.now) = sweep.stage - 1
     /\ Placed(sweep)

Stocked == \A p \in DOMAIN store : store[p] \in Reply \cup {Torn}

FaultsTyped == faults \in [crashes : Nat, failures : Nat, losses : Nat, missed : BOOLEAN]

BudgetOf(s) == IF s = 3 THEN MAX_REVISIONS ELSE 0

\* A run of a stage of a case.
IsOf(r, c, s) ==
  /\ r.brief = Goldens[c].brief /\ r.tier = Goldens[c].tier
  /\ r.budget = BudgetOf(s) /\ r.faithful = (s = 1)

AtWork == run # NoRun => sweep \in SweepRecord /\ IsOf(run, sweep.case, sweep.stage)

HInv == IInv /\ SweepTyped /\ Stocked /\ FaultsTyped /\ AtWork

LEMMA NoSweepIsNone == NoSweep.client = "none" /\ NoSweep \notin SweepRecord
BY DEF NoSweep, SweepRecord

LEMMA SweepingIsTyped ==
  ASSUME SweepTyped
  PROVE  /\ Sweeping <=> sweep \in SweepRecord
         /\ Sweeping => /\ sweep \in SweepRecord /\ Placed(sweep)
                        /\ Len(sweep.runs) = sweep.case - 1 /\ Len(sweep.now) = sweep.stage - 1
BY NoSweepIsNone DEF SweepTyped, Sweeping, SweepRecord

LEMMA GoldenTyped ==
  ASSUME NEW c \in DOMAIN Goldens
  PROVE  Goldens[c] \in GoldenCase
BY HarnessAssumption, ElementOfSeq

LEMMA AGolden == 1 \in DOMAIN Goldens /\ DOMAIN Goldens = 1 .. Len(Goldens) /\ Len(Goldens) \in Nat \ {0}
<1>1. DOMAIN Goldens = 1 .. Len(Goldens) /\ Len(Goldens) \in Nat
  BY HarnessAssumption, LenProperties
<1>2. Len(Goldens) # 0
  BY HarnessAssumption, EmptySeq
<1> QED
  BY <1>1, <1>2

\* The step of a run that takes a reply in: from the store, or into it first.
Reading ==
  /\ Running(run)
  /\ Keeps(store', store) /\ PromptOf(run) \in DOMAIN store'
  /\ run' = Read(store', run)
  /\ UNCHANGED <<sweep, published, gate, faults>>

LEMMA NoReplyIsTorn == Torn \notin Reply
BY DEF Torn, Reply

LEMMA CachedReads ==
  ASSUME Cached, Stocked
  PROVE  Reading /\ store' = store /\ (Raise \/ \E reply \in Reply : Answer(reply))
<1>1. Running(run) /\ PromptOf(run) \in DOMAIN store /\ store' = store
      /\ UNCHANGED <<sweep, published, gate, faults>>
  BY InProgressRuns, PromptIsOfTheRun DEF Cached
<1>2. CASE store[PromptOf(run)] = Torn
  <2>1. Raise
    BY <1>2, PromptIsOfTheRun DEF Cached
  <2>2. run' = Read(store', run)
    BY <1>1, <1>2, <2>1, RaiseRefuses DEF Read
  <2> QED
    BY <1>1, <2>1, <2>2 DEF Reading, Keeps
<1>3. CASE store[PromptOf(run)] # Torn
  <2>1. Answer(store[PromptOf(run)]) /\ store[PromptOf(run)] \in Reply
    BY <1>1, <1>3, PromptIsOfTheRun DEF Cached, Stocked
  <2>2. run' = Read(store', run)
    BY <1>1, <1>3, <2>1, AnswerIsAFunction DEF Read
  <2> QED
    BY <1>1, <2>1, <2>2 DEF Reading, Keeps
<1> QED
  BY <1>2, <1>3

LEMMA LiveReads ==
  ASSUME Live
  PROVE  /\ Reading /\ sweep.client = "recording"
         /\ \E reply \in Reply \cap Answers(PromptOf(run)) :
              store' = Stored(PromptOf(run), reply) /\ Answer(reply)
<1>1. PICK reply \in Reply \cap Answers(PromptOf(run)) :
        store' = Stored(PromptOf(run), reply) /\ Answer(reply)
  BY PromptIsOfTheRun DEF Live
<1>2. /\ Running(run) /\ sweep.client = "recording" /\ PromptOf(run) \notin DOMAIN store
      /\ UNCHANGED <<sweep, published, gate, faults>>
  BY InProgressRuns, PromptIsOfTheRun DEF Live, Asks
<1>3. /\ Keeps(store', store) /\ PromptOf(run) \in DOMAIN store'
      /\ store'[PromptOf(run)] = reply
  BY <1>1, <1>2 DEF Stored, Keeps
<1>4. run' = Read(store', run)
  BY <1>1, <1>3, NoReplyIsTorn, AnswerIsAFunction DEF Read
<1> QED
  BY <1>1, <1>2, <1>3, <1>4 DEF Reading

\* What a run was begun with stays what it was begun with.
SameBrief(r, q) ==
  r.brief = q.brief /\ r.tier = q.tier /\ r.budget = q.budget /\ r.faithful = q.faithful

LEMMA ConcludedKeepsBrief ==
  ASSUME NEW r \in Run, NEW results, NEW findings
  PROVE  SameBrief(Concluded(r, results, findings), r)
<1> DEFINE gated == Gated(results, findings)
           passed == Passed(EvaluationOf(r.brief, r.content, gated))
           feedback == BuildFeedback(r.brief, r.content, gated, findings)
           over == [r EXCEPT !.at = "done", !.results = gated]
           again == [r EXCEPT !.at = "compose", !.results = gated,
                              !.revisions = @ + 1, !.feedback = {feedback}]
<1>1. Concluded(r, results, findings) = IF passed \/ r.revisions >= r.budget THEN over ELSE again
  BY DEF Concluded
<1> HIDE DEF gated, passed, feedback
<1>2. SameBrief(over, r)
  BY DEF Run, SameBrief
<1>3. SameBrief(again, r)
  BY DEF Run, SameBrief
<1> HIDE DEF over, again
<1> QED
  BY <1>1, <1>2, <1>3

LEMMA ReadKeepsBrief ==
  ASSUME NEW st, NEW r \in Run
  PROVE  SameBrief(Read(st, r), r)
<1> DEFINE reply == st[PromptOf(r)]
<1>1. SameBrief([r EXCEPT !.at = "refused"], r)
  BY DEF Run, SameBrief
<1>2. SameBrief(Answered(r, reply), r)
  <2> HIDE DEF reply
  <2>1. SameBrief(Resolved(r, reply), r)
    BY DEF Run, SameBrief, Resolved
  <2>2. SameBrief(Composed(r, reply), r)
    BY DEF Run, SameBrief, Composed
  <2>3. ASSUME NEW i
        PROVE  SameBrief(JudgedBy(r, i, reply), r)
    <3>1. CASE reply.gives # "result"
      BY <1>1, <3>1 DEF JudgedBy
    <3>2. CASE reply.gives = "result" /\ i < 4
      <4> DEFINE results == [r.results EXCEPT ![r.at] = reply.result]
      <4>1. JudgedBy(r, i, reply) = [r EXCEPT !.at = Judges[i + 1], !.results = results]
        BY <3>2 DEF JudgedBy, Run
      <4> HIDE DEF results
      <4> QED
        BY <4>1 DEF Run, SameBrief
    <3>3. CASE reply.gives = "result" /\ ~(i < 4)
      <4> DEFINE results == [r.results EXCEPT ![r.at] = reply.result]
      <4>1. JudgedBy(r, i, reply) = Concluded(r, results, Findings(r.content, r.tier))
        BY <3>3 DEF JudgedBy
      <4> HIDE DEF results
      <4> QED
        BY <4>1, ConcludedKeepsBrief
    <3> QED
      BY <3>1, <3>2, <3>3
  <2> QED
    BY <2>1, <2>2, <2>3 DEF Answered
<1> QED
  BY <1>1, <1>2 DEF Read

\* A reply or an exception leaves the run sound.
LEMMA StepKeepsSound ==
  ASSUME IInv, Raise \/ \E reply \in Reply : Answer(reply)
  PROVE  run # NoRun /\ Sound(run) /\ Sound(run')
<1>1. Running(run)
  BY AnswerIsAFunction, RaiseRefuses
<1>2. run # NoRun /\ Sound(run)
  BY <1>1, NoRunIsNowhere DEF Running, IInv
<1> QED
  BY <1>2, RaiseSound, ResolveSound, ComposeSound, JudgeSound DEF Answer

\* What a stage leaves is well formed.
LEMMA StageIsGood ==
  ASSUME IInv, run # NoRun, NEW golden
  PROVE  StageOf(golden) \in LeftIn(sweep.stage) /\ StageOf(golden) \in GoodStage
<1>1. GRADED \subseteq Dimension /\ "brand_voice" \in GRADED
  BY FourJudges DEF GRADED
<1>2. CASE sweep.stage = 3
  <2> DEFINE decision ==
               IF Done THEN Decide(EvaluationOf(run.brief, run.content, run.results), golden.tier,
                                   IF golden.rate_limited THEN 3 ELSE 0).decision
                       ELSE "human_review"
  <2>1. StageOf(golden) = [decision |-> decision]
    BY <1>2 DEF StageOf
  <2>2. decision \in Decision
    BY DEF Decide, Decision
  <2> HIDE DEF decision
  <2> QED
    BY <1>2, <2>1, <2>2 DEF LeftIn, GoodStage, Routed
<1>3. CASE sweep.stage # 3 /\ ~Done
  <2>1. StageOf(golden) = Refusal
    BY <1>3 DEF StageOf
  <2>2. Refusal \in GoodScores
    BY <1>1 DEF Refusal, GoodScores, Scored
  <2> QED
    BY <1>3, <2>1, <2>2 DEF LeftIn, GoodStage
<1>4. CASE sweep.stage # 3 /\ Done
  <2> DEFINE verdicts == [d \in GRADED |-> run.results[d].verdict]
  <2>1. StageOf(golden) = [refused |-> FALSE, verdicts |-> verdicts]
    BY <1>4 DEF StageOf
  <2>2. run.results \in [Dimension -> DimensionResult]
    BY <1>4 DEF IInv, Sound, Concludes, Done
  <2>3. \A d \in GRADED : verdicts[d] \in {"pass", "fail"}
    BY <1>1, <2>2 DEF DimensionResult
  <2>4. verdicts = [d \in GRADED |-> verdicts[d]]
    OBVIOUS
  <2> HIDE DEF verdicts
  <2>5. verdicts \in [GRADED -> {"pass", "fail", "missing"}]
    BY <2>3, <2>4
  <2>6. [refused |-> FALSE, verdicts |-> verdicts] \in GoodScores
    BY <2>3, <2>5 DEF GoodScores, Scored
  <2> QED
    BY <1>4, <2>1, <2>6 DEF LeftIn, GoodStage
<1> QED
  BY <1>2, <1>3, <1>4

LEMMA ReadingKeepsHInv ==
  ASSUME HInv, Reading, Stocked', Raise \/ \E reply \in Reply : Answer(reply)
  PROVE  HInv'
<1>1. run # NoRun /\ Sound(run) /\ Sound(run')
  BY StepKeepsSound DEF HInv
<1>2. IInv'
  BY <1>1 DEF IInv
<1>3. SweepTyped' /\ FaultsTyped'
  BY DEF HInv, Reading, SweepTyped, FaultsTyped
<1>4. AtWork'
  <2>1. run' = Read(store', run) /\ sweep' = sweep
    BY DEF Reading
  <2>2. SameBrief(run', run)
    BY <1>1, <2>1, ReadKeepsBrief DEF Sound
  <2>3. sweep \in SweepRecord /\ IsOf(run, sweep.case, sweep.stage)
    BY <1>1 DEF HInv, AtWork
  <2> QED
    BY <2>1, <2>2, <2>3 DEF AtWork, IsOf, SameBrief
<1> QED
  BY <1>2, <1>3, <1>4 DEF HInv

LEMMA CachedKeepsHInv == HInv /\ Cached => HInv'
<1> SUFFICES ASSUME HInv, Cached PROVE HInv'
  OBVIOUS
<1>1. Stocked
  BY DEF HInv
<1>2. Reading /\ store' = store /\ (Raise \/ \E reply \in Reply : Answer(reply))
  BY <1>1, CachedReads
<1>3. Stocked'
  BY <1>1, <1>2 DEF Stocked
<1> QED
  BY <1>2, <1>3, ReadingKeepsHInv

LEMMA LiveKeepsHInv == HInv /\ Live => HInv'
<1> SUFFICES ASSUME HInv, Live PROVE HInv'
  OBVIOUS
<1>1. Stocked
  BY DEF HInv
<1>2. PICK reply \in Reply \cap Answers(PromptOf(run)) :
        store' = Stored(PromptOf(run), reply) /\ Answer(reply)
  BY LiveReads
<1>3. Stocked'
  BY <1>1, <1>2 DEF Stocked, Stored
<1>4. Reading
  BY LiveReads
<1> QED
  BY <1>2, <1>3, <1>4, ReadingKeepsHInv

\* An exception that stores nothing: a miss, or a call that fails.
LEMMA FailureKeepsHInv ==
  ASSUME HInv, Missing \/ LiveFails
  PROVE  HInv'
<1>1. Raise /\ UNCHANGED <<store, sweep, published, gate>>
  BY DEF Missing, LiveFails
<1>2. run # NoRun /\ Sound(run) /\ Sound(run')
  BY <1>1, StepKeepsSound DEF HInv
<1>3. FaultsTyped'
  <2>1. FaultsTyped
    BY DEF HInv
  <2>2. CASE Missing
    <3>1. faults' = [faults EXCEPT !.missed = TRUE]
      BY <2>2 DEF Missing
    <3> QED
      BY <2>1, <3>1 DEF FaultsTyped
  <2>3. CASE LiveFails
    <3>1. faults' = [faults EXCEPT !.failures = @ + 1]
      BY <2>3 DEF LiveFails
    <3> QED
      BY <2>1, <3>1 DEF FaultsTyped
  <2> QED
    BY <2>2, <2>3
<1>4. SweepTyped' /\ Stocked'
  BY <1>1 DEF HInv, SweepTyped, Stocked
<1>5. AtWork'
  <2>1. sweep \in SweepRecord /\ IsOf(run, sweep.case, sweep.stage)
    BY <1>2 DEF HInv, AtWork
  <2>2. run' = [run EXCEPT !.at = "refused"] /\ run \in Run
    BY <1>1, <1>2, RaiseRefuses DEF Sound
  <2>3. SameBrief(run', run)
    BY <2>2 DEF Run, SameBrief
  <2> QED
    BY <1>1, <2>1, <2>3 DEF AtWork, IsOf, SameBrief
<1> QED
  BY <1>2, <1>3, <1>4, <1>5 DEF HInv, IInv

LEMMA BeginStageKeepsHInv ==
  ASSUME HInv, BeginStage
  PROVE  HInv' /\ sweep \in SweepRecord /\ IsOf(run', sweep.case, sweep.stage)
<1> DEFINE golden == Goldens[sweep.case]
<1>1. sweep \in SweepRecord /\ UNCHANGED <<store, sweep, published, gate, faults>>
  BY SweepingIsTyped DEF BeginStage, HInv
<1>2. run' = NewRun(golden.brief, golden.tier, BudgetOf(sweep.stage), sweep.stage = 1)
  BY DEF BeginStage, Begin, BudgetOf
<1>3. golden.brief \in Briefs /\ golden.tier \in Tier
  BY <1>1, GoldenTyped DEF SweepRecord, GoldenCase
<1>4. BudgetOf(sweep.stage) \in Nat /\ (sweep.stage = 1) \in BOOLEAN
  BY DEF BudgetOf, MAX_REVISIONS
<1>5. IsOf(run', sweep.case, sweep.stage)
  BY <1>2 DEF NewRun, IsOf
<1> HIDE DEF golden
<1>6. Sound(run')
  BY <1>2, <1>3, <1>4, BeginSound
<1>7. IInv'
  BY <1>6 DEF IInv
<1>8. AtWork'
  BY <1>1, <1>5 DEF AtWork
<1> QED
  BY <1>1, <1>5, <1>7, <1>8 DEF HInv, SweepTyped, Stocked, FaultsTyped

\* What the end of a stage makes of the sweep.
LEMMA EndStageLeaves ==
  ASSUME HInv, EndStage
  PROVE  LET left == StageOf(Goldens[sweep.case])
             now  == Append(sweep.now, left)
             runs == Append(sweep.runs, now)
         IN  /\ sweep \in SweepRecord /\ run # NoRun /\ ~Running(run) /\ Placed(sweep)
             /\ left \in GoodStage /\ left \in LeftIn(sweep.stage)
             /\ Len(sweep.runs) = sweep.case - 1 /\ Len(sweep.now) = sweep.stage - 1
             /\ run' = NoRun /\ store' = store /\ faults' = faults
             /\ now \in Seq(GoodStage) /\ Len(now) = sweep.stage
             /\ sweep.stage = 3 => /\ now \in [1 .. 3 -> GoodStage]
                                   /\ runs \in Seq([1 .. 3 -> GoodStage])
                                   /\ Len(runs) = sweep.case
<1> DEFINE left == StageOf(Goldens[sweep.case])
           now  == Append(sweep.now, left)
           runs == Append(sweep.runs, now)
<1>1. /\ sweep \in SweepRecord /\ Len(sweep.runs) = sweep.case - 1
      /\ Len(sweep.now) = sweep.stage - 1 /\ Placed(sweep)
  BY SweepingIsTyped DEF EndStage, HInv
<1>2. run # NoRun /\ ~Running(run) /\ run' = NoRun /\ store' = store /\ faults' = faults
  BY InProgressRuns DEF EndStage
<1>3. left \in GoodStage /\ left \in LeftIn(sweep.stage)
  BY <1>2, StageIsGood DEF HInv
<1>4. /\ sweep.now \in Seq(GoodStage) /\ sweep.runs \in Seq([1 .. 3 -> GoodStage])
      /\ sweep.stage \in 1 .. 3 /\ sweep.case \in DOMAIN Goldens
  BY <1>1 DEF SweepRecord
<1> HIDE DEF left
<1>5. now \in Seq(GoodStage) /\ Len(now) = sweep.stage
  BY <1>1, <1>3, <1>4, AppendProperties
<1>6. ASSUME sweep.stage = 3
      PROVE  /\ now \in [1 .. 3 -> GoodStage]
             /\ runs \in Seq([1 .. 3 -> GoodStage]) /\ Len(runs) = sweep.case
  <2>1. now \in [1 .. 3 -> GoodStage]
    BY <1>5, <1>6, LenProperties
  <2> HIDE DEF now
  <2>2. sweep.case \in Int
    BY <1>4, AGolden
  <2>3. runs \in Seq([1 .. 3 -> GoodStage]) /\ Len(runs) = Len(sweep.runs) + 1
    BY <1>4, <2>1, AppendProperties
  <2> QED
    BY <1>1, <2>1, <2>2, <2>3
<1> QED
  BY <1>1, <1>2, <1>3, <1>5, <1>6 DEF left

\* What the end of a stage adds.
LEMMA EndStageAppends ==
  ASSUME HInv, EndStage
  PROVE  LET left == StageOf(Goldens[sweep.case])
             now  == Append(sweep.now, left)
             runs == Append(sweep.runs, now)
         IN  /\ \A s \in 1 .. sweep.stage - 1 : now[s] = sweep.now[s]
             /\ now[sweep.stage] = left
             /\ sweep.stage = 3 => /\ \A c \in 1 .. sweep.case - 1 : runs[c] = sweep.runs[c]
                                   /\ runs[sweep.case] = now
<1> DEFINE left == StageOf(Goldens[sweep.case])
           now  == Append(sweep.now, left)
           runs == Append(sweep.runs, now)
<1>1. /\ sweep \in SweepRecord /\ left \in GoodStage
      /\ Len(sweep.runs) = sweep.case - 1 /\ Len(sweep.now) = sweep.stage - 1
      /\ sweep.stage = 3 => now \in [1 .. 3 -> GoodStage]
  BY EndStageLeaves
<1>2. /\ sweep.now \in Seq(GoodStage) /\ sweep.runs \in Seq([1 .. 3 -> GoodStage])
      /\ sweep.stage \in Int /\ sweep.case \in Int
  BY <1>1, AGolden DEF SweepRecord
<1> HIDE DEF left
<1>3. \A s \in 1 .. Len(sweep.now) : now[s] = sweep.now[s]
  BY <1>1, <1>2, AppendProperties
<1>4. now[Len(sweep.now) + 1] = left
  BY <1>1, <1>2, AppendProperties
<1> HIDE DEF now
<1>5. ASSUME sweep.stage = 3
      PROVE  /\ \A c \in 1 .. Len(sweep.runs) : runs[c] = sweep.runs[c]
             /\ runs[Len(sweep.runs) + 1] = now
  BY <1>1, <1>2, <1>5, AppendProperties
<1>6. Len(sweep.now) + 1 = sweep.stage /\ Len(sweep.runs) + 1 = sweep.case
  BY <1>1, <1>2
<1> HIDE DEF runs
<1>7. now[sweep.stage] = left
  BY <1>4, <1>6
<1>8. sweep.stage = 3 => runs[sweep.case] = now
  BY <1>5, <1>6
<1>9. \A s \in 1 .. sweep.stage - 1 : now[s] = sweep.now[s]
  BY <1>1, <1>3
<1>10. sweep.stage = 3 => \A c \in 1 .. sweep.case - 1 : runs[c] = sweep.runs[c]
  BY <1>1, <1>5
<1> QED
  BY <1>7, <1>8, <1>9, <1>10 DEF left, now, runs

LEMMA EndStageKeepsHInv ==
  ASSUME HInv, EndStage
  PROVE  HInv'
<1> DEFINE left == StageOf(Goldens[sweep.case])
           now  == Append(sweep.now, left)
           runs == Append(sweep.runs, now)
<1>1. /\ sweep \in SweepRecord
      /\ Len(sweep.runs) = sweep.case - 1 /\ Len(sweep.now) = sweep.stage - 1
      /\ run' = NoRun /\ store' = store /\ faults' = faults
      /\ now \in Seq(GoodStage) /\ Len(now) = sweep.stage
      /\ sweep.stage = 3 => runs \in Seq([1 .. 3 -> GoodStage]) /\ Len(runs) = sweep.case
  BY EndStageLeaves
<1>5. /\ \A s \in 1 .. sweep.stage : now[s] \in LeftIn(s)
      /\ sweep.stage = 3 =>
           \A c \in 1 .. sweep.case : \A s \in 1 .. 3 : runs[c][s] \in LeftIn(s)
  <2>1. /\ left \in LeftIn(sweep.stage) /\ Placed(sweep)
        /\ Len(sweep.runs) = sweep.case - 1 /\ Len(sweep.now) = sweep.stage - 1
    BY EndStageLeaves
  <2>2. /\ \A s \in 1 .. sweep.stage - 1 : now[s] = sweep.now[s]
        /\ now[sweep.stage] = left
        /\ sweep.stage = 3 => /\ \A c \in 1 .. sweep.case - 1 : runs[c] = sweep.runs[c]
                              /\ runs[sweep.case] = now
    BY EndStageAppends
  <2>3. sweep.stage \in Int /\ sweep.case \in Int
    BY <1>1, AGolden DEF SweepRecord
  <2> HIDE DEF left, now, runs
  <2>4. \A s \in 1 .. sweep.stage : s = sweep.stage \/ s \in 1 .. sweep.stage - 1
    BY <2>3
  <2>5. \A c \in 1 .. sweep.case : c = sweep.case \/ c \in 1 .. sweep.case - 1
    BY <2>3
  <2>6. \A s \in 1 .. sweep.stage : now[s] \in LeftIn(s)
    BY <2>1, <2>2, <2>4 DEF Placed
  <2> QED
    BY <2>1, <2>2, <2>5, <2>6 DEF Placed
<1>2. \/ /\ sweep.stage < 3
         /\ sweep' = [sweep EXCEPT !.stage = @ + 1, !.now = now]
      \/ /\ sweep.stage = 3 /\ sweep.case < Len(Goldens)
         /\ sweep' = [sweep EXCEPT !.stage = 1, !.now = <<>>, !.runs = runs, !.case = @ + 1]
      \/ sweep' = NoSweep
  BY DEF EndStage, Stages
<1> HIDE DEF now, runs
<1>3. SweepTyped'
  <2>1. CASE sweep.stage < 3 /\ sweep' = [sweep EXCEPT !.stage = @ + 1, !.now = now]
    <3>1. sweep.stage + 1 \in 1 .. 3 /\ sweep.stage + 1 - 1 = sweep.stage
      BY <1>1, <2>1 DEF SweepRecord
    <3>2. /\ sweep'.now = now /\ sweep'.stage = sweep.stage + 1 /\ sweep'.runs = sweep.runs
          /\ sweep'.case = sweep.case /\ sweep' \in SweepRecord
      BY <1>1, <2>1, <3>1 DEF SweepRecord
    <3>3. Placed(sweep)
      BY EndStageLeaves
    <3>4. Placed(sweep')
      BY <1>1, <1>5, <3>2, <3>3 DEF Placed
    <3> QED
      BY <1>1, <3>1, <3>2, <3>4 DEF SweepTyped
  <2>2. CASE /\ sweep.stage = 3 /\ sweep.case < Len(Goldens)
             /\ sweep' = [sweep EXCEPT !.stage = 1, !.now = <<>>, !.runs = runs, !.case = @ + 1]
    <3>1. sweep.case \in DOMAIN Goldens
      BY <1>1 DEF SweepRecord
    <3>2. sweep.case + 1 \in DOMAIN Goldens /\ sweep.case + 1 - 1 = sweep.case
      BY <2>2, <3>1, AGolden
    <3> DEFINE none == <<>>
    <3>3. none \in Seq(GoodStage) /\ Len(none) = 0
      BY EmptySeq
    <3>4. sweep' = [sweep EXCEPT !.stage = 1, !.now = none, !.runs = runs, !.case = @ + 1]
      BY <2>2
    <3> HIDE DEF none
    <3>5. /\ sweep'.now = none /\ sweep'.stage = 1 /\ sweep'.runs = runs
          /\ sweep'.case = sweep.case + 1
      BY <1>1, <3>4 DEF SweepRecord
    <3>6. sweep' \in SweepRecord
      <4>1. 1 \in 1 .. 3 /\ runs \in Seq([1 .. 3 -> GoodStage])
        BY <1>1, <2>2
      <4> DEFINE next == sweep.case + 1
      <4>2. next \in DOMAIN Goldens
        BY <3>2
      <4>3. sweep' = [sweep EXCEPT !.stage = 1, !.now = none, !.runs = runs, !.case = next]
        BY <3>4
      <4> HIDE DEF next
      <4> QED
        BY <1>1, <3>3, <4>1, <4>2, <4>3 DEF SweepRecord
    <3>7. Placed(sweep')
      BY <1>1, <1>5, <2>2, <3>3, <3>5 DEF Placed
    <3> QED
      BY <1>1, <2>2, <3>2, <3>3, <3>5, <3>6, <3>7 DEF SweepTyped
  <2>3. CASE sweep' = NoSweep
    BY <2>3 DEF SweepTyped
  <2> QED
    BY <1>2, <2>1, <2>2, <2>3
<1>4. IInv' /\ AtWork'
  BY <1>1 DEF IInv, AtWork
<1> QED
  BY <1>1, <1>3, <1>4 DEF HInv, Stocked, FaultsTyped

\* A sweep begins with its first case and nothing to show.
LEMMA NewSweepTyped ==
  ASSUME NEW client \in {"recording", "replay"}
  PROVE  LET new == NewSweep(client)
         IN  /\ new \in SweepRecord /\ Len(new.runs) = new.case - 1 /\ Len(new.now) = new.stage - 1
             /\ Placed(new)
             /\ new.client = client /\ new.case = 1 /\ new.stage = 1
<1>1. /\ <<>> \in Seq(GoodStage) /\ <<>> \in Seq([1 .. 3 -> GoodStage])
      /\ Len(<<>>) = 0 /\ 1 \in DOMAIN Goldens
  BY EmptySeq, AGolden
<1> QED
  BY <1>1 DEF NewSweep, SweepRecord, Placed

LEMMA NewSweepKeepsHInv ==
  ASSUME HInv, Record \/ CheckJudges
  PROVE  HInv' /\ run = NoRun
<1>1. /\ ~Sweeping /\ UNCHANGED <<run, store, faults>>
      /\ sweep' = NewSweep("recording") \/ sweep' = NewSweep("replay")
  BY DEF Record, CheckJudges
<1>2. run = NoRun
  BY <1>1, SweepingIsTyped DEF HInv, AtWork
<1>3. SweepTyped'
  BY <1>1, NewSweepTyped DEF SweepTyped
<1>4. IInv' /\ AtWork'
  BY <1>1, <1>2 DEF IInv, AtWork
<1> QED
  BY <1>1, <1>2, <1>3, <1>4 DEF HInv, Stocked, FaultsTyped

LEMMA CrashKeepsHInv ==
  ASSUME HInv, Crash
  PROVE  HInv'
<1>1. /\ run' = NoRun /\ sweep' = NoSweep /\ store' \in {store, Stored(Prompt, Torn)}
      /\ faults' = [faults EXCEPT !.crashes = @ + 1]
  BY DEF Crash
<1>2. Stocked'
  BY <1>1 DEF HInv, Stocked, Stored
<1>3. FaultsTyped'
  BY <1>1 DEF HInv, FaultsTyped
<1>4. IInv' /\ AtWork' /\ SweepTyped'
  BY <1>1 DEF IInv, AtWork, SweepTyped
<1> QED
  BY <1>2, <1>3, <1>4 DEF HInv

LEMMA LoseKeepsHInv ==
  ASSUME HInv, Lose
  PROVE  HInv' /\ run = NoRun
<1>1. /\ ~Sweeping /\ UNCHANGED <<run, sweep, published, gate>>
      /\ faults' = [faults EXCEPT !.losses = @ + 1]
      /\ \E p \in DOMAIN store : store' = [q \in DOMAIN store \ {p} |-> store[q]]
  BY DEF Lose
<1>2. run = NoRun
  BY <1>1, SweepingIsTyped DEF HInv, AtWork
<1>3. Stocked'
  BY <1>1 DEF HInv, Stocked
<1>4. FaultsTyped'
  BY <1>1 DEF HInv, FaultsTyped
<1>5. IInv' /\ AtWork' /\ SweepTyped'
  BY <1>1, <1>2 DEF HInv, IInv, AtWork, SweepTyped
<1> QED
  BY <1>2, <1>3, <1>4, <1>5 DEF HInv

LEMMA InitHInv == HarnessInit => HInv
<1> SUFFICES ASSUME HarnessInit PROVE HInv
  OBVIOUS
<1>1. run = NoRun /\ sweep = NoSweep /\ store = [p \in {} |-> Torn]
      /\ faults = [crashes |-> 0, failures |-> 0, losses |-> 0, missed |-> FALSE]
  BY DEF HarnessInit, OrchestratorInit
<1> QED
  BY <1>1 DEF HInv, IInv, SweepTyped, Stocked, FaultsTyped, AtWork

\* Where each action is one that was looked at above.
LEMMA Actions ==
  HarnessNext =>
    \/ Record \/ CheckJudges \/ BeginStage \/ Cached \/ Live
    \/ Missing \/ LiveFails \/ EndStage \/ Crash \/ Lose
BY DEF HarnessNext, Work

LEMMA NextHInv == HInv /\ [HarnessNext]_hvars => HInv'
<1> SUFFICES ASSUME HInv, [HarnessNext]_hvars PROVE HInv'
  OBVIOUS
<1>1. CASE UNCHANGED hvars
  BY <1>1 DEF hvars, HInv, IInv, SweepTyped, Stocked, FaultsTyped, AtWork
<1>2. CASE HarnessNext
  BY <1>2, Actions, NewSweepKeepsHInv, BeginStageKeepsHInv, CachedKeepsHInv, LiveKeepsHInv,
     FailureKeepsHInv, EndStageKeepsHInv, CrashKeepsHInv, LoseKeepsHInv
<1> QED
  BY <1>1, <1>2

\* Whatever is recorded, replayed, cut off or lost, a run in progress is sound
\* and is one of the sweep's case and stage, with that stage's budget and way
\* of rendering, and a file holds a reply or is cut off (fixtures.py:74-131,
\* llm.py:50-90).
THEOREM HarnessInvariant == HarnessSpec => []HInv
  BY InitHInv, NextHInv, PTL DEF HarnessSpec

(***************************************************************************)
(* Every case leaves its scores in the first two stages, flagged as        *)
(* refused just when they lack verdicts, and in the third a decision and   *)
(* nothing else, whatever fails on the way (fixtures.py:74-131).           *)
(***************************************************************************)
THEOREM HarnessTypeCorrect == HarnessSpec => []HarnessTypeOK
<1>1. HInv => HarnessTypeOK
  <2> SUFFICES ASSUME HInv PROVE HarnessTypeOK
    OBVIOUS
  <2>1. \A p \in DOMAIN store : store[p] \in Reply \cup {Torn}
    BY DEF HInv, Stocked
  <2>2. DOMAIN Stages = 1 .. 3
    BY DEF Stages
  <2>3. ASSUME Sweeping
        PROVE  /\ sweep.client \in {"recording", "replay"}
               /\ sweep.case \in DOMAIN Goldens /\ Len(sweep.runs) = sweep.case - 1
               /\ sweep.stage \in DOMAIN Stages /\ Len(sweep.now) = sweep.stage - 1
               /\ \A r \in Range(sweep.runs) : DOMAIN r = 1 .. 3
               /\ \A r \in {sweep.now} \cup Range(sweep.runs) : \A s \in DOMAIN r :
                    r[s] \in LeftIn(s)
    <3>1. /\ sweep \in SweepRecord /\ Placed(sweep)
          /\ Len(sweep.runs) = sweep.case - 1 /\ Len(sweep.now) = sweep.stage - 1
      BY <2>3, SweepingIsTyped DEF HInv
    <3>2. sweep.now \in Seq(GoodStage) /\ sweep.runs \in Seq([1 .. 3 -> GoodStage])
      BY <3>1 DEF SweepRecord
    <3>3. /\ DOMAIN sweep.now = 1 .. Len(sweep.now)
          /\ DOMAIN sweep.runs = 1 .. Len(sweep.runs)
      BY <3>2, LenProperties
    <3>4. \A s \in DOMAIN sweep.now : sweep.now[s] \in LeftIn(s)
      BY <3>1, <3>3 DEF Placed
    <3>5. ASSUME NEW r \in Range(sweep.runs)
          PROVE  DOMAIN r = 1 .. 3 /\ \A s \in 1 .. 3 : r[s] \in LeftIn(s)
      <4>1. PICK c \in 1 .. Len(sweep.runs) : r = sweep.runs[c]
        BY <3>3, <3>5 DEF Range
      <4>2. r \in [1 .. 3 -> GoodStage]
        BY <3>2, <4>1, ElementOfSeq
      <4> QED
        BY <3>1, <4>1, <4>2 DEF Placed
    <3> QED
      BY <2>2, <3>1, <3>4, <3>5 DEF SweepRecord
  <2>4. ASSUME NEW s, NEW x \in LeftIn(s)
        PROVE  IF s = 3 THEN x \in Routed
               ELSE /\ x \in Scored
                    /\ x.refused <=> \E d \in GRADED : x.verdicts[d] = "missing"
    BY DEF LeftIn, GoodScores
  <2> QED
    BY <2>1, <2>2, <2>3, <2>4 DEF HarnessTypeOK
<1> QED
  BY <1>1, HarnessInvariant, PTL

(***************************************************************************)
(* The orchestrator keeps its word in the harness too, where a run is also *)
(* cut short by misses, failures and crashes and its replies come from the *)
(* store: what it hands on is scored, its loop within the budget, and no   *)
(* draft with a finding is cleared (orchestrator.py:128-210).              *)
(***************************************************************************)
THEOREM HarnessRunsAreSound == HarnessSpec => [](OrchestratorTypeOK /\ BlockingNeverSent)
<1>1. HInv => OrchestratorTypeOK
  BY DEF HInv, IInv, Sound, Concludes, OrchestratorTypeOK, Done
<1>2. HInv => BlockingNeverSent
  <2> SUFFICES ASSUME HInv, Done, NEW sends \in 0 .. MaxSendsPer24h,
                      Findings(run.content, run.tier) # {}
               PROVE  ~AutoSends(EvaluationOf(run.brief, run.content, run.results),
                                 run.tier, sends)
    BY DEF BlockingNeverSent
  <2>1. Sound(run) /\ run.at = "done"
    BY NoRunIsNowhere DEF HInv, IInv, Done
  <2> QED
    BY <2>1, FindingBlocks
<1> QED
  BY <1>1, <1>2, HarnessInvariant, PTL

(***************************************************************************)
(* A full run that ends as its case authored is decided as the keyless     *)
(* gate decides the case, whatever the scores behind the verdicts, the     *)
(* tier, the ceiling and the cap (fixtures.py:92, gate.py:106).            *)
(***************************************************************************)
THEOREM RoutingsAgree == HarnessSpec => []RoutedAsAuthored
<1>1. RoutedAsAuthored
  <2> DEFINE golden   == Goldens[sweep.case]
             live     == EvaluationOf(run.brief, run.content, run.results)
             authored == EvaluationFromCase(golden)
             sends    == IF golden.rate_limited THEN 3 ELSE 0
  <2> SUFFICES ASSUME Sweeping, sweep.stage = 3, Done,
                      Passed(live) <=> Passed(authored), live.segment = authored.segment,
                      live.discount_pct = authored.discount_pct
               PROVE  StageOf(golden).decision = EvaluateRouting(golden).decision
    BY DEF RoutedAsAuthored
  <2>1. StageOf(golden).decision = Decide(live, golden.tier, sends).decision
    BY DEF StageOf
  <2>2. EvaluateRouting(golden) = Decide(authored, golden.tier, sends)
    BY DEF EvaluateRouting
  <2> HIDE DEF live, authored, sends, golden
  <2>3. AutoSends(live, golden.tier, sends) <=> AutoSends(authored, golden.tier, sends)
    BY DEF AutoSends, Violations
  <2> QED
    BY <2>1, <2>2, <2>3 DEF Decide
<1> QED
  BY <1>1, PTL

-----------------------------------------------------------------------------
(***************************************************************************)
(* What a reading makes of a run, by the place the run is at.              *)
(***************************************************************************)
LEMMA ReadByPlace ==
  ASSUME NEW st, NEW r \in Run, Running(r)
  PROVE  LET reply   == st[PromptOf(r)]
             results == [r.results EXCEPT ![r.at] = reply.result]
         IN  \/ Read(st, r) = [r EXCEPT !.at = "refused"]
             \/ r.at = "resolve" /\ Read(st, r) = Resolved(r, reply)
             \/ /\ r.at = "compose" /\ reply.gives = "content"
                /\ Read(st, r) = [r EXCEPT !.at = Judges[1], !.content = reply.content,
                                           !.results = [d \in Dimension |-> Unscored]]
             \/ \E i \in 1 .. 3 : /\ r.at = Judges[i] /\ PromptOf(r) = JudgePrompt(Judges[i], r.brief, r.content)
                                  /\ Read(st, r) = [r EXCEPT !.at = Judges[i + 1], !.results = results]
             \/ /\ r.at = Judges[4] /\ PromptOf(r) = JudgePrompt(Judges[4], r.brief, r.content)
                /\ Read(st, r) = Concluded(r, results, Findings(r.content, r.tier))
<1> DEFINE reply   == st[PromptOf(r)]
           results == [r.results EXCEPT ![r.at] = reply.result]
<1>1. "resolve" \notin Dimension /\ "compose" \notin Dimension
  BY FourJudges
<1>2. Read(st, r) = IF reply = Torn THEN [r EXCEPT !.at = "refused"] ELSE Answered(r, reply)
  BY DEF Read
<1>3. CASE r.at = "resolve"
  BY <1>2, <1>3 DEF Answered
<1>4. CASE r.at = "compose"
  BY <1>1, <1>2, <1>4 DEF Answered, Composed
<1>5. CASE r.at \in Dimension
  <2>1. PICK i \in 1 .. 4 : r.at = Judges[i]
    BY <1>5, FourJudges
  <2>2. PlaceOf(r) = i
    BY <2>1, FourJudges DEF PlaceOf
  <2>3. PromptOf(r) = JudgePrompt(Judges[i], r.brief, r.content)
    BY <1>1, <1>5, <2>1 DEF PromptOf
  <2>4. Answered(r, reply) = JudgedBy(r, i, reply)
    BY <1>1, <1>5, <2>2 DEF Answered
  <2>5. JudgedBy(r, i, reply)
          = IF reply.gives # "result" THEN [r EXCEPT !.at = "refused"]
            ELSE IF i < 4 THEN [r EXCEPT !.at = Judges[i + 1], !.results = results]
            ELSE Concluded(r, results, Findings(r.content, r.tier))
    BY DEF JudgedBy, Run
  <2> HIDE DEF reply, results
  <2>6. \/ i \in 1 .. 3 /\ i < 4
        \/ i = 4 /\ ~(i < 4)
    OBVIOUS
  <2>7. \/ Read(st, r) = [r EXCEPT !.at = "refused"]
        \/ i \in 1 .. 3 /\ Read(st, r) = [r EXCEPT !.at = Judges[i + 1], !.results = results]
        \/ i = 4 /\ Read(st, r) = Concluded(r, results, Findings(r.content, r.tier))
    BY <1>2, <2>4, <2>5, <2>6
  <2> QED
    BY <2>1, <2>3, <2>7 DEF reply, results
<1> QED
  BY <1>3, <1>4, <1>5 DEF Running

-----------------------------------------------------------------------------
(***************************************************************************)
(* Verdicts and drafts.                                                    *)
(***************************************************************************)
Entry(r, d) == JudgePrompt(d, r.brief, r.content)

\* The scores a run has are the replies stored for the draft it has.
Backed(st, r) ==
  /\ \A i \in 1 .. 4 : r.at = Judges[i] =>
       \A j \in 1 .. 4 : j < i =>
         /\ Entry(r, Judges[j]) \in DOMAIN st
         /\ r.results[Judges[j]] = st[Entry(r, Judges[j])].result
  /\ r.at = "done" =>
       /\ \A d \in Dimension : Entry(r, d) \in DOMAIN st
       /\ r.results = Gated([d \in Dimension |-> st[Entry(r, d)].result],
                            Findings(r.content, r.tier))

BackedRun == run # NoRun => Backed(store, run)

LEMMA BackedStays ==
  ASSUME NEW st, NEW older, Keeps(st, older), NEW r, Backed(older, r)
  PROVE  Backed(st, r)
<1>1. ASSUME NEW i \in 1 .. 4, r.at = Judges[i], NEW j \in 1 .. 4, j < i
      PROVE  /\ Entry(r, Judges[j]) \in DOMAIN st
             /\ r.results[Judges[j]] = st[Entry(r, Judges[j])].result
  BY <1>1 DEF Backed, Keeps
<1>2. ASSUME r.at = "done"
      PROVE  /\ \A d \in Dimension : Entry(r, d) \in DOMAIN st
             /\ r.results = Gated([d \in Dimension |-> st[Entry(r, d)].result],
                                  Findings(r.content, r.tier))
  <2>1. \A d \in Dimension : Entry(r, d) \in DOMAIN st /\ st[Entry(r, d)] = older[Entry(r, d)]
    BY <1>2 DEF Backed, Keeps
  <2>2. [d \in Dimension |-> st[Entry(r, d)].result] = [d \in Dimension |-> older[Entry(r, d)].result]
    BY <2>1
  <2> QED
    BY <1>2, <2>1, <2>2 DEF Backed
<1> QED
  BY <1>1, <1>2 DEF Backed

LEMMA NotScoringIsBacked ==
  ASSUME NEW st, NEW r, r.at \in {"resolve", "compose", "refused", "none", Judges[1]}
  PROVE  Backed(st, r)
<1>1. r.at # "done"
  BY FourJudges
<1>2. \A i, j \in 1 .. 4 : r.at = Judges[i] => ~(j < i)
  BY FourJudges
<1> QED
  BY <1>1, <1>2 DEF Backed

LEMMA ReadIsBacked ==
  ASSUME NEW st, NEW r, Sound(r), Running(r), Backed(st, r), PromptOf(r) \in DOMAIN st
  PROVE  Backed(st, Read(st, r))
<1> DEFINE reply   == st[PromptOf(r)]
           results == [r.results EXCEPT ![r.at] = reply.result]
           next    == Read(st, r)
<1>1. r \in Run /\ r.results \in [Dimension -> DimensionResult \cup {Unscored}]
  BY DEF Sound, Run
<1>2. CASE next = [r EXCEPT !.at = "refused"]
  <2>1. next.at = "refused"
    BY <1>1, <1>2 DEF Run
  <2> QED
    BY <2>1, NotScoringIsBacked
<1>3. CASE r.at = "resolve" /\ next = Resolved(r, reply)
  <2>1. next.at = "compose"
    BY <1>1, <1>3 DEF Run, Resolved
  <2> QED
    BY <2>1, NotScoringIsBacked
<1>4. CASE next = [r EXCEPT !.at = Judges[1], !.content = reply.content,
                            !.results = [d \in Dimension |-> Unscored]]
  <2>1. next.at = Judges[1]
    BY <1>1, <1>4 DEF Run
  <2> QED
    BY <2>1, NotScoringIsBacked
<1>5. ASSUME NEW i \in 1 .. 4, r.at = Judges[i], PromptOf(r) = JudgePrompt(Judges[i], r.brief, r.content)
      PROVE  \A j \in 1 .. 4 : j < i + 1 =>
               /\ Entry(r, Judges[j]) \in DOMAIN st
               /\ results[Judges[j]] = st[Entry(r, Judges[j])].result
  <2> SUFFICES ASSUME NEW j \in 1 .. 4, j < i + 1
               PROVE  /\ Entry(r, Judges[j]) \in DOMAIN st
                      /\ results[Judges[j]] = st[Entry(r, Judges[j])].result
    OBVIOUS
  <2>1. Judges[i] \in Dimension /\ Judges[j] \in Dimension
    BY FourJudges
  <2>2. CASE j = i
    BY <1>1, <1>5, <2>1, <2>2 DEF Entry
  <2>3. CASE j < i
    <3>1. Judges[j] # Judges[i]
      BY <2>3, FourJudges
    <3>2. results[Judges[j]] = r.results[Judges[j]]
      BY <1>1, <1>5, <2>1, <3>1
    <3> HIDE DEF results
    <3> QED
      BY <1>5, <2>3, <3>2 DEF Backed
  <2> QED
    BY <2>2, <2>3
<1>6. ASSUME NEW i \in 1 .. 3, r.at = Judges[i], PromptOf(r) = JudgePrompt(Judges[i], r.brief, r.content),
             next = [r EXCEPT !.at = Judges[i + 1], !.results = results]
      PROVE  Backed(st, next)
  <2>1. \A j \in 1 .. 4 : j < i + 1 =>
          /\ Entry(r, Judges[j]) \in DOMAIN st
          /\ results[Judges[j]] = st[Entry(r, Judges[j])].result
    BY <1>5, <1>6
  <2> HIDE DEF results
  <2>2. /\ next.at = Judges[i + 1] /\ next.results = results
        /\ next.brief = r.brief /\ next.content = r.content
    BY <1>1, <1>6 DEF Run
  <2>3. \A d : Entry(next, d) = Entry(r, d)
    BY <2>2 DEF Entry
  <2>4. next.at # "done" /\ i + 1 \in 1 .. 4
    BY <2>2, FourJudges
  <2>5. \A k \in 1 .. 4 : next.at = Judges[k] => k = i + 1
    BY <2>2, <2>4, FourJudges
  <2> HIDE DEF next
  <2> QED
    BY <2>1, <2>2, <2>3, <2>4, <2>5 DEF Backed
<1>7. ASSUME r.at = Judges[4], PromptOf(r) = JudgePrompt(Judges[4], r.brief, r.content),
             next = Concluded(r, results, Findings(r.content, r.tier))
      PROVE  Backed(st, next)
  <2> DEFINE findings == Findings(r.content, r.tier)
             replies == [d \in Dimension |-> st[Entry(r, d)].result]
  <2>1. /\ \A j \in 1 .. 4 : /\ Entry(r, Judges[j]) \in DOMAIN st
                             /\ results[Judges[j]] = st[Entry(r, Judges[j])].result
    <3>1. 4 \in 1 .. 4 /\ \A j \in 1 .. 4 : j < 4 + 1
      OBVIOUS
    <3> HIDE DEF results
    <3> QED
      BY <1>5, <1>7, <3>1 DEF results
  <2>2. \A d \in Dimension : /\ Entry(r, d) \in DOMAIN st
                             /\ results[d] = st[Entry(r, d)].result
    <3>1. \A d \in Dimension : \E j \in 1 .. 4 : d = Judges[j]
      BY FourJudges
    <3> HIDE DEF results
    <3> QED
      BY <2>1, <3>1
  <2>3. results = replies
    BY <1>1, <2>2
  <2> HIDE DEF results
  <2>4. CASE next.at = "done"
    <3>1. next.results = Gated(results, findings) /\ next.content = r.content
      BY <1>1, <1>7 DEF Concluded, Run
    <3>2. SameBrief(next, r)
      BY <1>1, <1>7, ConcludedKeepsBrief
    <3>3. \A d : Entry(next, d) = Entry(r, d)
      BY <3>1, <3>2 DEF Entry, SameBrief
    <3>4. [d \in Dimension |-> st[Entry(next, d)].result] = results
      BY <2>3, <3>3
    <3>5. Findings(next.content, next.tier) = findings
      BY <3>1, <3>2 DEF SameBrief
    <3>6. \A i \in 1 .. 4 : next.at # Judges[i]
      BY <2>4, FourJudges
    <3> HIDE DEF next, findings, replies
    <3> QED
      BY <2>2, <3>1, <3>3, <3>4, <3>5, <3>6 DEF Backed
  <2>5. CASE next.at # "done"
    <3>1. next.at = "compose"
      BY <1>1, <1>7, <2>5 DEF Concluded, Run
    <3> QED
      BY <3>1, NotScoringIsBacked
  <2> QED
    BY <2>4, <2>5
<1> QED
  BY <1>1, <1>2, <1>3, <1>4, <1>6, <1>7, ReadByPlace

\* What each action does to the run and the store, as far as a reading goes.
RunSteps ==
  \/ Reading
  \/ /\ Running(run) /\ run' = [run EXCEPT !.at = "refused"] /\ store' = store
     /\ UNCHANGED <<sweep, published, gate>>
  \/ run' = NoRun
  \/ run = NoRun /\ sweep \in SweepRecord /\ run'.at = "resolve" /\ UNCHANGED <<store, sweep, published, gate, faults>>

LEMMA ActionsStepRuns ==
  ASSUME HInv, HarnessNext
  PROVE  RunSteps
<1>1. CASE Record \/ CheckJudges
  BY <1>1, NewSweepKeepsHInv DEF RunSteps, Record, CheckJudges
<1>2. CASE BeginStage
  BY <1>2, BeginStageKeepsHInv DEF RunSteps, BeginStage, Begin, NewRun
<1>3. CASE Cached
  BY <1>3, CachedReads DEF RunSteps, HInv
<1>4. CASE Live
  BY <1>4, LiveReads DEF RunSteps
<1>5. CASE Missing \/ LiveFails
  BY <1>5, RaiseRefuses DEF RunSteps, Missing, LiveFails
<1>6. CASE EndStage \/ Crash
  BY <1>6 DEF RunSteps, EndStage, Crash
<1>7. CASE Lose
  BY <1>7, LoseKeepsHInv DEF RunSteps, Lose
<1> QED
  BY <1>1, <1>2, <1>3, <1>4, <1>5, <1>6, <1>7, Actions

LEMMA NextBacked == HInv /\ BackedRun /\ [HarnessNext]_hvars => BackedRun'
<1> SUFFICES ASSUME HInv, BackedRun, [HarnessNext]_hvars PROVE BackedRun'
  OBVIOUS
<1>1. CASE UNCHANGED hvars
  BY <1>1 DEF hvars, BackedRun, Backed, Entry
<1>2. ASSUME Running(run)
      PROVE  run # NoRun /\ Sound(run) /\ run \in Run /\ Backed(store, run)
  BY <1>2, NoRunIsNowhere DEF Running, HInv, IInv, BackedRun, Sound
<1>3. CASE Reading
  <2>1. /\ Sound(run) /\ Backed(store, run) /\ Running(run) /\ Keeps(store', store)
        /\ PromptOf(run) \in DOMAIN store' /\ run' = Read(store', run)
    BY <1>2, <1>3 DEF Reading
  <2>2. Backed(store', run)
    BY <2>1, BackedStays
  <2>3. Backed(store', Read(store', run))
    BY <2>1, <2>2, ReadIsBacked
  <2> QED
    BY <2>1, <2>3 DEF BackedRun
<1>4. CASE Running(run) /\ run' = [run EXCEPT !.at = "refused"]
  <2>1. run'.at = "refused"
    BY <1>2, <1>4 DEF Run
  <2>2. Backed(store', run')
    BY <2>1, NotScoringIsBacked
  <2> QED
    BY <2>2 DEF BackedRun
<1>5. CASE run' = NoRun
  BY <1>5 DEF BackedRun
<1>6. CASE run'.at = "resolve"
  <2>1. Backed(store', run')
    BY <1>6, NotScoringIsBacked
  <2> QED
    BY <2>1 DEF BackedRun
<1>7. CASE HarnessNext
  BY <1>3, <1>4, <1>5, <1>6, <1>7, ActionsStepRuns DEF RunSteps
<1> QED
  BY <1>1, <1>7

(***************************************************************************)
(* The verdicts a run ends with are what the judges said of the draft it   *)
(* ends with, and of no draft before it, Stage 1 folded in, through any    *)
(* number of revisions and whether the judges were asked or looked up      *)
(* (orchestrator.py:131-145).                                              *)
(***************************************************************************)
THEOREM VerdictsFollowTheDraft == HarnessSpec => []VerdictsAreOfTheDraft
<1>1. HarnessInit => BackedRun
  BY DEF HarnessInit, OrchestratorInit, BackedRun
<1>2. BackedRun => VerdictsAreOfTheDraft
  <2> SUFFICES ASSUME BackedRun, Done PROVE VerdictsAreOfTheDraft
    BY DEF VerdictsAreOfTheDraft
  <2>1. run.at = "done" /\ Backed(store, run)
    BY NoRunIsNowhere DEF BackedRun, Done
  <2> QED
    BY <2>1 DEF Backed, Entry, VerdictsAreOfTheDraft
<1> QED
  BY <1>1, <1>2, NextBacked, HarnessInvariant, PTL DEF HarnessSpec

-----------------------------------------------------------------------------
(***************************************************************************)
(* Two composers over one store.                                           *)
(***************************************************************************)
\* The models keep to what Verbatim stands for: asked for a text in production,
\* a composer does not write one of these.
VerbatimIsAskedFor ==
  \A p : p.to = "copy_composer" /\ p.faithful = FALSE =>
    \A reply \in Answers(p) : reply.gives = "content" => reply.content.copy \notin Verbatim

\* No reply stored for production, and no draft of a production run, is one.
PureStore ==
  \A p \in DOMAIN store :
    p.to = "copy_composer" /\ p.faithful = FALSE /\ store[p].gives = "content" =>
      store[p].content.copy \notin Verbatim

PureRun == run # NoRun /\ run.faithful = FALSE => run.content.copy \notin Verbatim

LEMMA NextPureStore ==
  ASSUME VerbatimIsAskedFor, PureStore, HInv, HarnessNext
  PROVE  PureStore'
<1>1. CASE store' = store
  BY <1>1 DEF PureStore
<1>2. CASE Live
  <2>1. PICK reply \in Reply \cap Answers(PromptOf(run)) : store' = Stored(PromptOf(run), reply)
    BY <1>2, LiveReads
  <2>2. SUFFICES ASSUME NEW p \in DOMAIN store', p.to = "copy_composer", p.faithful = FALSE,
                        store'[p].gives = "content"
                 PROVE  store'[p].content.copy \notin Verbatim
    BY DEF PureStore
  <2>3. CASE p = PromptOf(run)
    <3>1. store'[p] = reply
      BY <2>1, <2>3 DEF Stored
    <3> QED
      BY <2>1, <2>2, <2>3, <3>1 DEF VerbatimIsAskedFor
  <2>4. CASE p # PromptOf(run)
    <3>1. p \in DOMAIN store /\ store'[p] = store[p]
      BY <2>1, <2>4 DEF Stored
    <3> QED
      BY <2>2, <3>1 DEF PureStore
  <2> QED
    BY <2>3, <2>4
<1>3. CASE store' = Stored(Prompt, Torn)
  <2>1. SUFFICES ASSUME NEW p \in DOMAIN store', store'[p].gives = "content"
                 PROVE  p \in DOMAIN store /\ store'[p] = store[p]
    BY DEF PureStore
  <2>2. p # Prompt
    BY <1>3, <2>1 DEF Stored, Torn
  <2> QED
    BY <1>3, <2>2 DEF Stored
<1>4. CASE Lose
  <2>1. PICK q \in DOMAIN store : store' = [p \in DOMAIN store \ {q} |-> store[p]]
    BY <1>4 DEF Lose
  <2> QED
    BY <2>1 DEF PureStore
<1>5. CASE Cached
  BY <1>1, <1>5 DEF Cached
<1>6. CASE EndStage
  BY <1>1, <1>6 DEF EndStage
<1>7. CASE Crash
  BY <1>1, <1>3, <1>7 DEF Crash
<1>8. CASE Record \/ CheckJudges \/ BeginStage \/ Missing \/ LiveFails
  BY <1>1, <1>8 DEF Record, CheckJudges, BeginStage, Missing, LiveFails
<1> QED
  BY <1>2, <1>4, <1>5, <1>6, <1>7, <1>8, Actions

LEMMA ReadIsPure ==
  ASSUME NEW st, NEW r \in Run, Running(r), r.content.copy \notin Verbatim,
         LET reply == st[PromptOf(r)]
         IN  r.at = "compose" /\ reply.gives = "content" => reply.content.copy \notin Verbatim
  PROVE  Read(st, r).content.copy \notin Verbatim
<1> DEFINE reply   == st[PromptOf(r)]
           results == [r.results EXCEPT ![r.at] = reply.result]
           unscored == [d \in Dimension |-> Unscored]
           findings == Findings(r.content, r.tier)
           next    == Read(st, r)
<1>1. \/ next = [r EXCEPT !.at = "refused"]
      \/ r.at = "resolve" /\ next = Resolved(r, reply)
      \/ /\ r.at = "compose" /\ reply.gives = "content"
         /\ next = [r EXCEPT !.at = Judges[1], !.content = reply.content, !.results = unscored]
      \/ \E i \in 1 .. 3 : next = [r EXCEPT !.at = Judges[i + 1], !.results = results]
      \/ next = Concluded(r, results, findings)
  BY ReadByPlace
<1> HIDE DEF results, unscored, findings
<1>2. CASE next = [r EXCEPT !.at = "refused"]
  BY <1>2 DEF Run
<1>3. CASE next = Resolved(r, reply)
  BY <1>3 DEF Run, Resolved
<1>4. CASE /\ r.at = "compose" /\ reply.gives = "content"
           /\ next = [r EXCEPT !.at = Judges[1], !.content = reply.content, !.results = unscored]
  <2>1. next.content = reply.content
    BY <1>4 DEF Run
  <2> QED
    BY <1>4, <2>1
<1>5. CASE \E i \in 1 .. 3 : next = [r EXCEPT !.at = Judges[i + 1], !.results = results]
  BY <1>5 DEF Run
<1>6. CASE next = Concluded(r, results, findings)
  BY <1>6 DEF Run, Concluded
<1> QED
  BY <1>1, <1>2, <1>3, <1>4, <1>5, <1>6

LEMMA NextPureRun ==
  ASSUME VerbatimIsAskedFor, PureStore', PureRun, HInv, HarnessNext
  PROVE  PureRun'
<1>1. ASSUME Running(run)
      PROVE  run # NoRun /\ run \in Run
  BY <1>1, NoRunIsNowhere DEF Running, HInv, IInv, Sound
<1>2. CASE Reading
  <2>1. /\ Running(run) /\ run \in Run /\ run # NoRun
        /\ PromptOf(run) \in DOMAIN store' /\ run' = Read(store', run)
    BY <1>1, <1>2 DEF Reading
  <2>2. SUFFICES ASSUME run'.faithful = FALSE
                 PROVE  run'.content.copy \notin Verbatim
    BY DEF PureRun
  <2>3. run.faithful = FALSE
    BY <2>1, <2>2, ReadKeepsBrief DEF SameBrief
  <2>4. run.content.copy \notin Verbatim
    BY <2>1, <2>3 DEF PureRun
  <2>5. ASSUME run.at = "compose", store'[PromptOf(run)].gives = "content"
        PROVE  store'[PromptOf(run)].content.copy \notin Verbatim
    <3>1. PromptOf(run).to = "copy_composer" /\ PromptOf(run).faithful = FALSE
      BY <2>3, <2>5 DEF PromptOf, ComposePrompt
    <3> QED
      BY <2>1, <2>5, <3>1 DEF PureStore
  <2> QED
    BY <2>1, <2>4, <2>5, ReadIsPure
<1>3. CASE Running(run) /\ run' = [run EXCEPT !.at = "refused"]
  <2>1. run'.content = run.content /\ run'.faithful = run.faithful
    BY <1>1, <1>3 DEF Run
  <2> QED
    BY <1>1, <1>3, <2>1 DEF PureRun
<1>4. CASE run' = NoRun
  BY <1>4 DEF PureRun
<1>5. CASE BeginStage
  <2>1. run'.content = NoContent
    BY <1>5 DEF BeginStage, Begin, NewRun
  <2> QED
    BY <2>1, HarnessAssumption DEF PureRun
<1>6. CASE Record \/ CheckJudges \/ Lose
  BY <1>4, <1>6, NewSweepKeepsHInv, LoseKeepsHInv DEF Record, CheckJudges, Lose
<1>7. CASE Cached
  BY <1>2, <1>7, CachedReads DEF HInv
<1>8. CASE Live
  BY <1>2, <1>8, LiveReads
<1>9. CASE Missing \/ LiveFails
  BY <1>3, <1>9, RaiseRefuses DEF Missing, LiveFails
<1>10. CASE EndStage \/ Crash
  BY <1>4, <1>10 DEF EndStage, Crash
<1> QED
  BY <1>5, <1>6, <1>7, <1>8, <1>9, <1>10, Actions

(***************************************************************************)
(* The two ways to render share one cache and never each other's texts:    *)
(* as long as the model writes the verbatim ones only when asked to render *)
(* faithfully, no production run has one, whatever is recorded, torn, lost *)
(* or replayed (orchestrator.py:76-79).                                    *)
(***************************************************************************)
THEOREM ProductionKeepsItsTexts ==
  ASSUME VerbatimIsAskedFor
  PROVE  HarnessSpec => []ProductionNeverFaithful
<1>1. HarnessInit => PureStore /\ PureRun
  BY DEF HarnessInit, OrchestratorInit, PureStore, PureRun
<1>2. HInv /\ PureStore /\ PureRun /\ [HarnessNext]_hvars => (PureStore /\ PureRun)'
  <2> SUFFICES ASSUME HInv, PureStore, PureRun, [HarnessNext]_hvars PROVE PureStore' /\ PureRun'
    OBVIOUS
  <2>1. CASE UNCHANGED hvars
    BY <2>1 DEF hvars, PureStore, PureRun
  <2>2. CASE HarnessNext
    BY <2>2, NextPureStore, NextPureRun
  <2> QED
    BY <2>1, <2>2
<1>3. HInv /\ PureRun => ProductionNeverFaithful
  <2> SUFFICES ASSUME HInv, PureRun, run # NoRun, ~run.faithful
               PROVE  run.content.copy \notin Verbatim
    BY DEF ProductionNeverFaithful
  <2>1. run.faithful \in BOOLEAN
    BY DEF HInv, IInv, Sound, Run
  <2> QED
    BY <2>1 DEF PureRun
<1> QED
  BY <1>1, <1>2, <1>3, HarnessInvariant, PTL DEF HarnessSpec

-----------------------------------------------------------------------------
(***************************************************************************)
(* What a stage did, read off the store: a set of run records that holds   *)
(* the one it starts with and, with each one in progress, what its stored  *)
(* reply makes of it; the last one has yet to be read, or is the end.      *)
(***************************************************************************)
Follows(st, T, start, last) ==
  /\ start \in T
  /\ \A r \in T : \/ r = last
                  \/ Running(r) /\ PromptOf(r) \in DOMAIN st /\ Read(st, r) \in T

StartOf(c, s) == NewRun(Goldens[c].brief, Goldens[c].tier, BudgetOf(s), s = 1)

\* What a run at its end leaves of stage s of a case.
Left(r, s, golden) ==
  LET evaluation == EvaluationOf(r.brief, r.content, r.results)
      sends      == IF golden.rate_limited THEN 3 ELSE 0
  IN  IF s = 3
        THEN [decision |-> IF r.at = "done" THEN Decide(evaluation, golden.tier, sends).decision
                           ELSE "human_review"]
        ELSE IF r.at = "done"
          THEN [refused |-> FALSE, verdicts |-> [d \in GRADED |-> r.results[d].verdict]]
          ELSE Refusal

\* The set shows how stage s of case c came to leave what it left.
Settled(st, T, last, c, s, left) ==
  /\ Follows(st, T, StartOf(c, s), last)
  /\ ~Running(last)
  /\ Left(last, s, Goldens[c]) = left

LEMMA StageIsLeft == \A golden : StageOf(golden) = Left(run, sweep.stage, golden)
BY DEF StageOf, Left, Done

LEMMA FollowsStays ==
  ASSUME NEW st, NEW older, Keeps(st, older), NEW T, NEW start, NEW last,
         Follows(older, T, start, last)
  PROVE  Follows(st, T, start, last)
<1>1. ASSUME NEW r \in T, r # last
      PROVE  Running(r) /\ PromptOf(r) \in DOMAIN st /\ Read(st, r) \in T
  <2>1. Running(r) /\ PromptOf(r) \in DOMAIN older /\ Read(older, r) \in T
    BY <1>1 DEF Follows
  <2> QED
    BY <2>1, ReadingStays
<1> QED
  BY <1>1 DEF Follows

LEMMA FollowsOn ==
  ASSUME NEW st, NEW T, NEW start, NEW last, Follows(st, T, start, last),
         Running(last), PromptOf(last) \in DOMAIN st
  PROVE  Follows(st, T \cup {Read(st, last)}, start, Read(st, last))
BY DEF Follows

LEMMA FollowedOn ==
  ASSUME NEW st, NEW T, NEW start, NEW last, Follows(st, T, start, last), ~Running(last),
         NEW r \in T, Running(r)
  PROVE  PromptOf(r) \in DOMAIN st /\ Read(st, r) \in T
BY DEF Follows

LEMMA FollowedToTheEnd ==
  ASSUME NEW st, NEW T, NEW start, NEW last, Follows(st, T, start, last),
         NEW r \in T, ~Running(r)
  PROVE  r = last
BY DEF Follows

\* A recording nothing has gone wrong in.
Faithfully == sweep.client = "recording" /\ Undisturbed

Tracked ==
  run # NoRun /\ (run.at # "refused" \/ Faithfully) =>
    \E T : Follows(store, T, StartOf(sweep.case, sweep.stage), run)

LEMMA BeginStageStarts ==
  BeginStage => /\ run' = StartOf(sweep.case, sweep.stage) /\ run = NoRun /\ Sweeping
                /\ UNCHANGED <<store, sweep, published, gate, faults>>
BY DEF BeginStage, Begin, StartOf, BudgetOf

\* A call that fails is the end of the sweep's faithfulness.
LEMMA FailureIsNoticed ==
  ASSUME HInv, Missing \/ LiveFails
  PROVE  /\ Running(run) /\ run \in Run /\ run' = [run EXCEPT !.at = "refused"] /\ run'.at = "refused"
         /\ UNCHANGED <<store, sweep, published, gate>>
         /\ Missing => /\ sweep.client = "replay" /\ PromptOf(run) \notin DOMAIN store
                       /\ Undisturbed' <=> Undisturbed
         /\ LiveFails => sweep.client = "recording" /\ ~Undisturbed'
<1>1. Raise /\ UNCHANGED <<store, sweep, published, gate>>
  BY DEF Missing, LiveFails
<1>2. Running(run) /\ run' = [run EXCEPT !.at = "refused"]
  BY <1>1, RaiseRefuses
<1>3. run \in Run
  BY <1>2, NoRunIsNowhere DEF Running, HInv, IInv, Sound
<1>4. run'.at = "refused"
  BY <1>2, <1>3 DEF Run
<1>5. faults \in [crashes : Nat, failures : Nat, losses : Nat, missed : BOOLEAN]
  BY DEF HInv, FaultsTyped
<1>6. ASSUME Missing
      PROVE  /\ sweep.client = "replay" /\ PromptOf(run) \notin DOMAIN store
             /\ Undisturbed' <=> Undisturbed
  <2>1. /\ sweep.client = "replay" /\ PromptOf(run) \notin DOMAIN store
        /\ faults' = [faults EXCEPT !.missed = TRUE]
    BY <1>6, PromptIsOfTheRun DEF Missing
  <2>2. faults'.failures = faults.failures /\ faults'.losses = faults.losses
    BY <1>5, <2>1
  <2> QED
    BY <2>1, <2>2 DEF Undisturbed
<1>7. ASSUME LiveFails
      PROVE  sweep.client = "recording" /\ ~Undisturbed'
  <2>1. sweep.client = "recording" /\ faults' = [faults EXCEPT !.failures = @ + 1]
    BY <1>7 DEF LiveFails, Asks
  <2>2. faults'.failures = faults.failures + 1 /\ faults.failures \in Nat
    BY <1>5, <2>1
  <2> QED
    BY <2>1, <2>2 DEF Undisturbed
<1> QED
  BY <1>1, <1>2, <1>3, <1>4, <1>6, <1>7

LEMMA ReadingIsTracked ==
  ASSUME HInv, Tracked, Reading
  PROVE  \E T : Follows(store', T, StartOf(sweep'.case, sweep'.stage), run')
<1>1. /\ Running(run) /\ Keeps(store', store) /\ PromptOf(run) \in DOMAIN store'
      /\ run' = Read(store', run) /\ sweep' = sweep
  BY DEF Reading
<1>2. run # NoRun /\ run.at # "refused"
  BY <1>1, NoRunIsNowhere, FourJudges DEF Running
<1>3. PICK T : Follows(store, T, StartOf(sweep.case, sweep.stage), run)
  BY <1>2 DEF Tracked
<1>4. Follows(store', T, StartOf(sweep.case, sweep.stage), run)
  BY <1>1, <1>3, FollowsStays
<1>5. Follows(store', T \cup {Read(store', run)}, StartOf(sweep.case, sweep.stage), Read(store', run))
  BY <1>1, <1>4, FollowsOn
<1> QED
  BY <1>1, <1>5

LEMMA NextTracked == HInv /\ Tracked /\ [HarnessNext]_hvars => Tracked'
<1> SUFFICES ASSUME HInv, Tracked, [HarnessNext]_hvars PROVE Tracked'
  OBVIOUS
<1>1. CASE UNCHANGED hvars
  BY <1>1 DEF hvars, Tracked, Faithfully, Undisturbed
<1>2. CASE run' = NoRun
  BY <1>2 DEF Tracked
<1>3. CASE Record \/ CheckJudges \/ Lose
  BY <1>2, <1>3, NewSweepKeepsHInv, LoseKeepsHInv DEF Record, CheckJudges, Lose
<1>4. CASE BeginStage
  <2>1. run' = StartOf(sweep'.case, sweep'.stage)
    BY <1>4, BeginStageStarts
  <2>2. Follows(store', {run'}, StartOf(sweep'.case, sweep'.stage), run')
    BY <2>1 DEF Follows
  <2> QED
    BY <2>2 DEF Tracked
<1>5. CASE Cached
  BY <1>5, CachedReads, ReadingIsTracked DEF HInv, Tracked
<1>6. CASE Live
  BY <1>6, LiveReads, ReadingIsTracked DEF Tracked
<1>7. CASE Missing \/ LiveFails
  <2>1. run'.at = "refused" /\ sweep' = sweep /\ (sweep.client = "replay" \/ ~Undisturbed')
    BY <1>7, FailureIsNoticed
  <2>2. ~Faithfully'
    BY <2>1 DEF Faithfully
  <2> QED
    BY <2>1, <2>2 DEF Tracked
<1>8. CASE EndStage \/ Crash
  BY <1>2, <1>8 DEF EndStage, Crash
<1> QED
  BY <1>1, <1>3, <1>4, <1>5, <1>6, <1>7, <1>8, Actions

LEMMA InitTracked == HarnessInit => Tracked
BY DEF HarnessInit, OrchestratorInit, Tracked

-----------------------------------------------------------------------------
(***************************************************************************)
(* The full pipeline beside the single pass, until it revises.             *)
(***************************************************************************)
AsSingle(r) == [r EXCEPT !.budget = 0]

SinglePass ==
  sweep \in SweepRecord /\ sweep.stage = 3 /\ ~sweep.now[2].refused =>
    \E T, last :
      /\ Settled(store, T, last, sweep.case, 2, sweep.now[2])
      /\ run # NoRun /\ run.revisions = 0 /\ run.at # "refused" => AsSingle(run) \in T

\* Unless it is revised, what is read into a run does not depend on its budget.
LEMMA SingleReads ==
  ASSUME NEW st, NEW r \in Run, Running(r), r.budget = MAX_REVISIONS,
         Read(st, r).revisions = 0, Read(st, r).at # "refused"
  PROVE  /\ r.revisions = 0 /\ Running(AsSingle(r)) /\ PromptOf(AsSingle(r)) = PromptOf(r)
         /\ Read(st, AsSingle(r)) = AsSingle(Read(st, r))
<1> DEFINE q        == AsSingle(r)
           reply    == st[PromptOf(r)]
           results  == [r.results EXCEPT ![r.at] = reply.result]
           unscored == [d \in Dimension |-> Unscored]
           findings == Findings(r.content, r.tier)
           next     == Read(st, r)
<1>1. /\ q.at = r.at /\ q.brief = r.brief /\ q.tier = r.tier /\ q.faithful = r.faithful
      /\ q.segment = r.segment /\ q.content = r.content /\ q.results = r.results
      /\ q.revisions = r.revisions /\ q.feedback = r.feedback /\ q.budget = 0 /\ q \in Run
  BY DEF AsSingle, Run
<1> HIDE DEF q
<1>2. Running(q) /\ PromptOf(q) = PromptOf(r)
  BY <1>1 DEF Running, PromptOf, ComposePrompt
<1>3. "resolve" \notin Dimension /\ "compose" \notin Dimension
  BY FourJudges
<1>4. reply # Torn
  <2>1. CASE reply = Torn
    <3>1. next = [r EXCEPT !.at = "refused"]
      BY <2>1 DEF Read
    <3>2. next.at = "refused"
      BY <3>1 DEF Run
    <3> QED
      BY <3>2
  <2> QED
    BY <2>1
<1>5. next = Answered(r, reply) /\ Read(st, q) = Answered(q, reply)
  BY <1>2, <1>4 DEF Read
<1>6. CASE r.at = "resolve"
  <2>1. next = Resolved(r, reply) /\ Read(st, q) = Resolved(q, reply)
    BY <1>1, <1>5, <1>6 DEF Answered
  <2> DEFINE segment == IF reply.gives = "band" THEN reply.band ELSE r.segment
  <2>2. next = [r EXCEPT !.at = "compose", !.segment = segment]
    BY <2>1 DEF Resolved, Run
  <2>3. Read(st, q) = [q EXCEPT !.at = "compose", !.segment = segment]
    BY <1>1, <2>1 DEF Resolved, Run
  <2> HIDE DEF segment, next, reply
  <2>4. r.revisions = 0
    <3>1. next.revisions = r.revisions
      BY <2>2 DEF Run
    <3> QED
      BY <3>1 DEF next
  <2>5. Read(st, q) = AsSingle(next)
    BY <2>2, <2>3 DEF AsSingle, Run, q
  <2> QED
    BY <1>2, <2>4, <2>5 DEF next, q
<1>7. CASE r.at = "compose"
  <2>1. next = Composed(r, reply) /\ Read(st, q) = Composed(q, reply)
    BY <1>1, <1>3, <1>5, <1>7 DEF Answered
  <2>2. reply.gives = "content"
    <3>1. CASE reply.gives # "content"
      <4>1. next = [r EXCEPT !.at = "refused"]
        BY <2>1, <3>1 DEF Composed
      <4>2. next.at = "refused"
        BY <4>1 DEF Run
      <4> QED
        BY <4>2
    <3> QED
      BY <3>1
  <2>3. /\ next = [r EXCEPT !.at = Judges[1], !.content = reply.content, !.results = unscored]
        /\ Read(st, q) = [q EXCEPT !.at = Judges[1], !.content = reply.content, !.results = unscored]
    BY <2>1, <2>2 DEF Composed
  <2> HIDE DEF next, reply, unscored
  <2>4. r.revisions = 0
    <3>1. next.revisions = r.revisions
      BY <2>3 DEF Run
    <3> QED
      BY <3>1 DEF next
  <2>5. Read(st, q) = AsSingle(next)
    BY <2>3 DEF AsSingle, Run, q
  <2> QED
    BY <1>2, <2>4, <2>5 DEF next, q
<1>8. CASE r.at \in Dimension
  <2>1. PICK i \in 1 .. 4 : r.at = Judges[i]
    BY <1>8, FourJudges
  <2>2. PlaceOf(r) = i /\ PlaceOf(q) = i
    BY <1>1, <2>1, FourJudges DEF PlaceOf
  <2>3. next = JudgedBy(r, i, reply) /\ Read(st, q) = JudgedBy(q, i, reply)
    BY <1>1, <1>3, <1>5, <1>8, <2>2 DEF Answered
  <2>4. reply.gives = "result"
    <3>1. CASE reply.gives # "result"
      <4>1. next = [r EXCEPT !.at = "refused"]
        BY <2>3, <3>1 DEF JudgedBy
      <4>2. next.at = "refused"
        BY <4>1 DEF Run
      <4> QED
        BY <4>2
    <3> QED
      BY <3>1
  <2>5. CASE i < 4
    <3>1. next = [r EXCEPT !.at = Judges[i + 1], !.results = results]
      BY <2>3, <2>4, <2>5 DEF JudgedBy, Run
    <3>2. Read(st, q) = [q EXCEPT !.at = Judges[i + 1], !.results = results]
      BY <1>1, <2>3, <2>4, <2>5 DEF JudgedBy, Run
    <3> HIDE DEF next, reply, results
    <3>3. r.revisions = 0
      <4>1. next.revisions = r.revisions
        BY <3>1 DEF Run
      <4> QED
        BY <4>1 DEF next
    <3>4. Read(st, q) = AsSingle(next)
      BY <3>1, <3>2 DEF AsSingle, Run, q
    <3> QED
      BY <1>2, <3>3, <3>4 DEF next, q
  <2>6. CASE ~(i < 4)
    <3> DEFINE gated == Gated(results, findings)
               passed == Passed(EvaluationOf(r.brief, r.content, gated))
               feedback == BuildFeedback(r.brief, r.content, gated, findings)
               over(x) == [x EXCEPT !.at = "done", !.results = gated]
               again(x) == [x EXCEPT !.at = "compose", !.results = gated,
                                     !.revisions = @ + 1, !.feedback = {feedback}]
    <3>1. next = Concluded(r, results, findings)
      BY <2>3, <2>4, <2>6 DEF JudgedBy
    <3>2. Read(st, q) = Concluded(q, results, findings)
      BY <1>1, <2>3, <2>4, <2>6 DEF JudgedBy
    <3> HIDE DEF results, findings
    <3>3. next = IF passed \/ r.revisions >= r.budget THEN over(r) ELSE again(r)
      BY <3>1 DEF Concluded
    <3>4. Read(st, q) = IF passed \/ q.revisions >= q.budget THEN over(q) ELSE again(q)
      BY <1>1, <3>2 DEF Concluded
    <3> HIDE DEF gated, passed, feedback
    <3>5. over(r).revisions = r.revisions /\ again(r).revisions = r.revisions + 1
      BY DEF Run
    <3>6. r.revisions \in Nat
      BY DEF Run
    <3>7. next = over(r) /\ r.revisions = 0
      <4> HIDE DEF over, again
      <4>1. CASE next = over(r)
        <5>1. over(r).revisions = 0
          BY <4>1
        <5> QED
          BY <3>5, <4>1, <5>1
      <4>2. CASE next = again(r)
        <5>1. again(r).revisions = 0
          BY <4>2
        <5> QED
          BY <3>5, <3>6, <5>1
      <4> QED
        BY <3>3, <4>1, <4>2
    <3>8. q.revisions >= q.budget
      BY <1>1, <3>7
    <3>9. Read(st, q) = over(q)
      BY <3>4, <3>8
    <3> HIDE DEF next, reply
    <3>10. Read(st, q) = AsSingle(next)
      BY <3>7, <3>9 DEF AsSingle, Run, q
    <3> QED
      BY <1>2, <3>7, <3>10 DEF next, q
  <2> QED
    BY <2>5, <2>6
<1> QED
  BY <1>6, <1>7, <1>8 DEF Running

LEMMA SettledStays ==
  ASSUME NEW st, NEW older, Keeps(st, older), NEW T, NEW last, NEW c, NEW s, NEW left,
         Settled(older, T, last, c, s, left)
  PROVE  Settled(st, T, last, c, s, left)
BY FollowsStays DEF Settled

LEMMA SingleStart ==
  ASSUME NEW c
  PROVE  AsSingle(StartOf(c, 3)) = StartOf(c, 2)
<1>1. BudgetOf(2) = 0 /\ (3 = 1) = (2 = 1)
  BY DEF BudgetOf
<1> QED
  BY <1>1 DEF AsSingle, StartOf, NewRun

\* The single pass is at its end: what it left is followed from the store.
LEMMA EndOfSinglePass ==
  ASSUME HInv, Tracked, EndStage
  PROVE  SinglePass'
<1> DEFINE left == StageOf(Goldens[sweep.case])
           now  == Append(sweep.now, left)
<1>1. /\ sweep \in SweepRecord /\ run # NoRun /\ ~Running(run) /\ left \in GoodStage
      /\ Len(sweep.now) = sweep.stage - 1 /\ run' = NoRun /\ store' = store
  BY EndStageLeaves
<1>2. \/ /\ sweep.stage < 3
         /\ sweep' = [sweep EXCEPT !.stage = @ + 1, !.now = now]
      \/ \E runs : sweep' = [sweep EXCEPT !.stage = 1, !.now = <<>>, !.runs = runs, !.case = @ + 1]
      \/ sweep' = NoSweep
  BY DEF EndStage, Stages
<1> SUFFICES ASSUME sweep' \in SweepRecord, sweep'.stage = 3, ~sweep'.now[2].refused
             PROVE  \E T, last : Settled(store', T, last, sweep'.case, 2, sweep'.now[2])
  BY <1>1 DEF SinglePass
<1> HIDE DEF now
<1>3. sweep' = [sweep EXCEPT !.stage = @ + 1, !.now = now]
  <2>1. sweep' # NoSweep
    BY NoSweepIsNone
  <2>2. ASSUME NEW runs, sweep' = [sweep EXCEPT !.stage = 1, !.now = <<>>, !.runs = runs, !.case = @ + 1]
        PROVE  FALSE
    <3>1. sweep'.stage = 1
      BY <1>1, <2>2 DEF SweepRecord
    <3> QED
      BY <3>1
  <2> QED
    BY <1>2, <2>1, <2>2
<1>4. /\ sweep.stage + 1 = 3 /\ sweep.stage \in 1 .. 3 /\ sweep'.now = now /\ sweep'.case = sweep.case
      /\ sweep.now \in Seq(GoodStage)
  <2>1. sweep'.stage = sweep.stage + 1 /\ sweep'.now = now /\ sweep'.case = sweep.case
    BY <1>1, <1>3 DEF SweepRecord
  <2>2. sweep.stage \in 1 .. 3 /\ sweep.now \in Seq(GoodStage)
    BY <1>1 DEF SweepRecord
  <2> QED
    BY <2>1, <2>2
<1>5. sweep.stage = 2 /\ Len(sweep.now) + 1 = 2
  BY <1>1, <1>4
<1>6. now[2] = left
  <2> HIDE DEF left
  <2>1. now[Len(sweep.now) + 1] = left
    BY <1>1, <1>4, AppendProperties DEF now
  <2> QED
    BY <1>5, <2>1
<1>7. left = Left(run, 2, Goldens[sweep.case])
  BY <1>5, StageIsLeft
<1>8. run.at = "done"
  <2>1. ~left.refused
    BY <1>4, <1>6
  <2> QED
    BY <1>7, <2>1 DEF Left, Refusal
<1>9. PICK T : Follows(store, T, StartOf(sweep.case, 2), run)
  BY <1>1, <1>5, <1>8 DEF Tracked
<1>10. Settled(store, T, run, sweep.case, 2, left)
  BY <1>1, <1>7, <1>9 DEF Settled
<1> QED
  BY <1>1, <1>4, <1>6, <1>10

LEMMA ReadingKeepsSinglePass ==
  ASSUME HInv, SinglePass, Reading
  PROVE  SinglePass'
<1>1. /\ Running(run) /\ Keeps(store', store) /\ PromptOf(run) \in DOMAIN store'
      /\ run' = Read(store', run) /\ sweep' = sweep
  BY DEF Reading
<1>2. /\ run # NoRun /\ run.at # "refused" /\ run \in Run
      /\ sweep \in SweepRecord /\ IsOf(run, sweep.case, sweep.stage)
  BY <1>1, NoRunIsNowhere, FourJudges DEF Running, HInv, IInv, Sound, AtWork
<1> SUFFICES ASSUME sweep.stage = 3, ~sweep.now[2].refused
             PROVE  \E T, last :
                      /\ Settled(store', T, last, sweep.case, 2, sweep.now[2])
                      /\ run' # NoRun /\ run'.revisions = 0 /\ run'.at # "refused" => AsSingle(run') \in T
  BY <1>1 DEF SinglePass
<1>3. PICK T, last :
        /\ Settled(store, T, last, sweep.case, 2, sweep.now[2])
        /\ run # NoRun /\ run.revisions = 0 /\ run.at # "refused" => AsSingle(run) \in T
  BY <1>2 DEF SinglePass
<1>4. Settled(store', T, last, sweep.case, 2, sweep.now[2])
  BY <1>1, <1>3, SettledStays
<1>5. ASSUME run'.revisions = 0, run'.at # "refused"
      PROVE  AsSingle(run') \in T
  <2>1. run.budget = MAX_REVISIONS
    BY <1>2 DEF IsOf, BudgetOf
  <2>2. /\ run.revisions = 0 /\ Running(AsSingle(run))
        /\ Read(store', AsSingle(run)) = AsSingle(run')
    BY <1>1, <1>2, <1>5, <2>1, SingleReads
  <2>3. AsSingle(run) \in T
    BY <1>2, <1>3, <2>2
  <2> QED
    BY <1>4, <2>2, <2>3, FollowedOn DEF Settled
<1> QED
  BY <1>4, <1>5

LEMMA NextSinglePass == HInv /\ Tracked /\ SinglePass /\ [HarnessNext]_hvars => SinglePass'
<1> SUFFICES ASSUME HInv, Tracked, SinglePass, [HarnessNext]_hvars PROVE SinglePass'
  OBVIOUS
<1>1. CASE UNCHANGED hvars
  BY <1>1 DEF hvars, SinglePass
<1>2. CASE Record \/ CheckJudges
  <2>1. sweep'.stage = 1
    BY <1>2 DEF Record, CheckJudges, NewSweep
  <2> QED
    BY <2>1 DEF SinglePass
<1>3. CASE BeginStage
  <2>1. /\ run' = StartOf(sweep.case, sweep.stage) /\ run = NoRun
        /\ UNCHANGED <<store, sweep>>
    BY <1>3, BeginStageStarts
  <2>2. SUFFICES ASSUME sweep \in SweepRecord, sweep.stage = 3, ~sweep.now[2].refused
                 PROVE  \E T, last : /\ Settled(store, T, last, sweep.case, 2, sweep.now[2])
                                     /\ AsSingle(run') \in T
    BY <2>1 DEF SinglePass
  <2>3. PICK T, last : Settled(store, T, last, sweep.case, 2, sweep.now[2])
    BY <2>2 DEF SinglePass
  <2>4. AsSingle(run') = StartOf(sweep.case, 2)
    BY <2>1, <2>2, SingleStart
  <2> QED
    BY <2>3, <2>4 DEF Settled, Follows
<1>4. CASE Cached
  BY <1>4, CachedReads, ReadingKeepsSinglePass DEF HInv
<1>5. CASE Live
  BY <1>5, LiveReads, ReadingKeepsSinglePass
<1>6. CASE Missing \/ LiveFails
  <2>1. run'.at = "refused" /\ UNCHANGED <<store, sweep>>
    BY <1>6, FailureIsNoticed
  <2> QED
    BY <2>1 DEF SinglePass
<1>7. CASE EndStage
  BY <1>7, EndOfSinglePass
<1>8. CASE Crash
  BY <1>8, NoSweepIsNone DEF Crash, SinglePass
<1>9. CASE Lose
  BY <1>9, SweepingIsTyped DEF Lose, SinglePass, HInv
<1> QED
  BY <1>1, <1>2, <1>3, <1>4, <1>5, <1>6, <1>7, <1>8, <1>9, Actions

(***************************************************************************)
(* The full pipeline departs from the single pass by revising and by       *)
(* nothing else: unrevised it ends on the same verdicts, in a recording    *)
(* and in a replay, with live calls that fail and fixtures cut off         *)
(* (fixtures.py:107-121).                                                  *)
(***************************************************************************)
THEOREM UnrevisedIsSinglePass == HarnessSpec => []OnePassAgrees
<1>1. HarnessInit => SinglePass
  BY NoSweepIsNone DEF HarnessInit, SinglePass
<1>2. HInv /\ SinglePass => OnePassAgrees
  <2> SUFFICES ASSUME HInv, SinglePass, Sweeping, sweep.stage = 3, Done,
                      run.revisions = 0, ~sweep.now[2].refused
               PROVE  sweep.now[2].verdicts = [d \in GRADED |-> run.results[d].verdict]
    BY DEF OnePassAgrees
  <2>1. sweep \in SweepRecord
    BY SweepingIsTyped DEF HInv
  <2>2. run # NoRun /\ run.at = "done" /\ run \in Run
    BY NoRunIsNowhere DEF Done, HInv, IInv, Sound
  <2>3. PICK T, last : /\ Settled(store, T, last, sweep.case, 2, sweep.now[2])
                       /\ AsSingle(run) \in T
    BY <2>1, <2>2 DEF SinglePass
  <2>4. AsSingle(run).at = "done" /\ AsSingle(run).results = run.results
    BY <2>2 DEF AsSingle, Run
  <2>5. ~Running(AsSingle(run))
    BY <2>4, FourJudges DEF Running
  <2>6. AsSingle(run) = last
    BY <2>3, <2>5, FollowedToTheEnd DEF Settled
  <2>7. sweep.now[2] = Left(AsSingle(run), 2, Goldens[sweep.case])
    BY <2>3, <2>6 DEF Settled
  <2> QED
    BY <2>4, <2>7 DEF Left
<1>3. HarnessSpec => [](HInv /\ SinglePass)
  BY <1>1, InitTracked, NextTracked, NextSinglePass, HarnessInvariant, PTL DEF HarnessSpec
<1> QED
  BY <1>2, <1>3, PTL

-----------------------------------------------------------------------------
(***************************************************************************)
(* A recording and its replay.                                             *)
(***************************************************************************)
\* The store shows that stage s of case c leaves this.
Leaves(st, c, s, left) == \E T, last : Settled(st, T, last, c, s, left)

Recorded(st, runs) ==
  /\ runs \in Seq([1 .. 3 -> GoodStage]) /\ Len(runs) = Len(Goldens)
  /\ \A c \in DOMAIN Goldens : \A s \in 1 .. 3 : Leaves(st, c, s, runs[c][s])

\* What a faithful recording has so far can be read off the store.
RecordsSoFar ==
  sweep \in SweepRecord /\ Faithfully =>
    /\ \A c \in 1 .. sweep.case - 1 : \A s \in 1 .. 3 : Leaves(store, c, s, sweep.runs[c][s])
    /\ \A s \in 1 .. sweep.stage - 1 : Leaves(store, sweep.case, s, sweep.now[s])

\* A sweep in progress is a replay, agrees with the recording so far, and its
\* run is one that the recording went through.
Replays(runs) ==
  sweep \in SweepRecord =>
    /\ sweep.client = "replay"
    /\ \A c \in 1 .. sweep.case - 1 : sweep.runs[c] = runs[c]
    /\ \A s \in 1 .. sweep.stage - 1 : sweep.now[s] = runs[sweep.case][s]
    /\ run # NoRun =>
         \E T, last : /\ Settled(store, T, last, sweep.case, sweep.stage, runs[sweep.case][sweep.stage])
                      /\ run \in T

\* The published metrics are of a recording that the store still holds.
PublishedStands ==
  Undisturbed =>
    \A m \in published : \E runs : m = ComputeMetrics(runs) /\ Recorded(store, runs) /\ Replays(runs)

\* The gate speaks last, and of what was published.
GateStands ==
  /\ gate # {} => sweep \notin SweepRecord
  /\ \A g \in gate : \E runs : g = Verdict(ComputeMetrics(runs))
  /\ Undisturbed => \A g \in gate, m \in published : g.metrics = m

LEMMA LeavesStays ==
  ASSUME NEW st, NEW older, Keeps(st, older), NEW c, NEW s, NEW left, Leaves(older, c, s, left)
  PROVE  Leaves(st, c, s, left)
BY SettledStays DEF Leaves

LEMMA RecordedStays ==
  ASSUME NEW st, NEW older, Keeps(st, older), NEW runs, Recorded(older, runs)
  PROVE  Recorded(st, runs)
BY LeavesStays DEF Recorded

LEMMA EndStageRecords ==
  ASSUME HInv, Tracked, RecordsSoFar, Faithfully, EndStage
  PROVE  LET now  == Append(sweep.now, StageOf(Goldens[sweep.case]))
             runs == Append(sweep.runs, now)
         IN  /\ \A s \in 1 .. sweep.stage : Leaves(store, sweep.case, s, now[s])
             /\ sweep.stage = 3 => \A c \in 1 .. sweep.case : \A s \in 1 .. 3 : Leaves(store, c, s, runs[c][s])
<1> DEFINE left == StageOf(Goldens[sweep.case])
           now  == Append(sweep.now, left)
           runs == Append(sweep.runs, now)
<1>1. sweep \in SweepRecord /\ run # NoRun /\ ~Running(run)
  BY EndStageLeaves
<1>2. sweep.stage \in 1 .. 3 /\ sweep.case \in Int
  BY <1>1, AGolden DEF SweepRecord
<1>3. /\ \A s \in 1 .. sweep.stage - 1 : now[s] = sweep.now[s]
      /\ now[sweep.stage] = left
      /\ sweep.stage = 3 => /\ \A c \in 1 .. sweep.case - 1 : runs[c] = sweep.runs[c]
                            /\ runs[sweep.case] = now
  BY EndStageAppends
<1>4. left = Left(run, sweep.stage, Goldens[sweep.case])
  BY StageIsLeft
<1> HIDE DEF left, now, runs
<1>5. PICK T : Follows(store, T, StartOf(sweep.case, sweep.stage), run)
  BY <1>1 DEF Tracked
<1>6. Settled(store, T, run, sweep.case, sweep.stage, now[sweep.stage])
  BY <1>1, <1>3, <1>4, <1>5 DEF Settled
<1>7. Leaves(store, sweep.case, sweep.stage, now[sweep.stage])
  BY <1>6 DEF Leaves
<1>8. ASSUME NEW s \in 1 .. sweep.stage
      PROVE  Leaves(store, sweep.case, s, now[s])
  <2>1. CASE s = sweep.stage
    BY <1>7, <2>1
  <2>2. CASE s # sweep.stage
    <3>1. s \in 1 .. sweep.stage - 1
      BY <1>2, <2>2
    <3> QED
      BY <1>1, <1>3, <3>1 DEF RecordsSoFar
  <2> QED
    BY <2>1, <2>2
<1>9. ASSUME sweep.stage = 3, NEW c \in 1 .. sweep.case, NEW s \in 1 .. 3
      PROVE  Leaves(store, c, s, runs[c][s])
  <2>1. CASE c = sweep.case
    <3>1. Leaves(store, sweep.case, s, now[s])
      BY <1>8, <1>9
    <3> QED
      BY <1>3, <1>9, <2>1, <3>1
  <2>2. CASE c # sweep.case
    <3>1. c \in 1 .. sweep.case - 1
      BY <1>2, <2>2
    <3> QED
      BY <1>1, <1>3, <1>9, <3>1 DEF RecordsSoFar
  <2> QED
    BY <2>1, <2>2
<1> QED
  BY <1>8, <1>9 DEF now, runs, left

LEMMA EndStageReplays ==
  ASSUME HInv, EndStage, NEW rec, Recorded(store, rec), Replays(rec)
  PROVE  LET now  == Append(sweep.now, StageOf(Goldens[sweep.case]))
             runs == Append(sweep.runs, now)
         IN  /\ \A s \in 1 .. sweep.stage : now[s] = rec[sweep.case][s]
             /\ sweep.stage = 3 => \A c \in 1 .. sweep.case : runs[c] = rec[c]
<1> DEFINE left == StageOf(Goldens[sweep.case])
           now  == Append(sweep.now, left)
           runs == Append(sweep.runs, now)
<1>1. /\ sweep \in SweepRecord /\ run # NoRun /\ ~Running(run)
      /\ sweep.stage = 3 => now \in [1 .. 3 -> GoodStage]
  BY EndStageLeaves
<1>2. sweep.stage \in 1 .. 3 /\ sweep.case \in DOMAIN Goldens /\ DOMAIN Goldens \subseteq Int
  BY <1>1, AGolden DEF SweepRecord
<1>3. /\ \A s \in 1 .. sweep.stage - 1 : now[s] = sweep.now[s]
      /\ now[sweep.stage] = left
      /\ sweep.stage = 3 => /\ \A c \in 1 .. sweep.case - 1 : runs[c] = sweep.runs[c]
                            /\ runs[sweep.case] = now
  BY EndStageAppends
<1>4. left = Left(run, sweep.stage, Goldens[sweep.case])
  BY StageIsLeft
<1> HIDE DEF left, now, runs
<1>5. PICK T, last :
        /\ Settled(store, T, last, sweep.case, sweep.stage, rec[sweep.case][sweep.stage])
        /\ run \in T
  BY <1>1 DEF Replays
<1>6. run = last
  BY <1>1, <1>5, FollowedToTheEnd DEF Settled
<1>7. left = rec[sweep.case][sweep.stage]
  BY <1>4, <1>5, <1>6 DEF Settled
<1>8. ASSUME NEW s \in 1 .. sweep.stage
      PROVE  now[s] = rec[sweep.case][s]
  <2>1. CASE s = sweep.stage
    BY <1>3, <1>7, <2>1
  <2>2. CASE s # sweep.stage
    <3>1. s \in 1 .. sweep.stage - 1
      BY <1>2, <2>2
    <3> QED
      BY <1>1, <1>3, <3>1 DEF Replays
  <2> QED
    BY <2>1, <2>2
<1>9. ASSUME sweep.stage = 3, NEW c \in 1 .. sweep.case
      PROVE  runs[c] = rec[c]
  <2>1. CASE c = sweep.case
    <3>1. rec[sweep.case] \in [1 .. 3 -> GoodStage]
      <4>1. sweep.case \in 1 .. Len(rec) /\ rec \in Seq([1 .. 3 -> GoodStage])
        BY <1>2, AGolden DEF Recorded
      <4> QED
        BY <4>1, ElementOfSeq
    <3>2. now \in [1 .. 3 -> GoodStage] /\ \A s \in 1 .. 3 : now[s] = rec[sweep.case][s]
      BY <1>1, <1>8, <1>9
    <3>3. now = rec[sweep.case]
      BY <3>1, <3>2
    <3> QED
      BY <1>3, <1>9, <2>1, <3>3
  <2>2. CASE c # sweep.case
    <3>1. c \in 1 .. sweep.case - 1
      BY <1>2, <2>2
    <3> QED
      BY <1>1, <1>3, <1>9, <3>1 DEF Replays
  <2> QED
    BY <2>1, <2>2
<1> QED
  BY <1>8, <1>9 DEF now, runs, left

\* The three ways a stage can end.
LEMMA EndStageSteps ==
  ASSUME HInv, EndStage
  PROVE  LET now  == Append(sweep.now, StageOf(Goldens[sweep.case]))
             runs == Append(sweep.runs, now)
         IN  \/ /\ sweep.stage < 3 /\ sweep' \in SweepRecord
                /\ sweep'.stage - 1 = sweep.stage /\ sweep'.now = now /\ sweep'.case = sweep.case
                /\ sweep'.runs = sweep.runs /\ sweep'.client = sweep.client
                /\ UNCHANGED <<published, gate>>
             \/ /\ sweep.stage = 3 /\ sweep' \in SweepRecord
                /\ sweep'.stage = 1 /\ sweep'.case - 1 = sweep.case /\ sweep'.runs = runs
                /\ sweep'.client = sweep.client
                /\ UNCHANGED <<published, gate>>
             \/ /\ sweep.stage = 3 /\ sweep.case = Len(Goldens) /\ sweep' = NoSweep
                /\ runs \in Seq([1 .. 3 -> GoodStage]) /\ Len(runs) = Len(Goldens)
                /\ \/ /\ sweep.client = "recording"
                      /\ published' = {ComputeMetrics(runs)} /\ gate' = gate
                   \/ /\ sweep.client = "replay"
                      /\ gate' = {Verdict(ComputeMetrics(runs))} /\ published' = published
<1> DEFINE now  == Append(sweep.now, StageOf(Goldens[sweep.case]))
           runs == Append(sweep.runs, now)
<1>1. /\ sweep \in SweepRecord
      /\ sweep.stage = 3 => runs \in Seq([1 .. 3 -> GoodStage]) /\ Len(runs) = sweep.case
  BY EndStageLeaves
<1>2. \/ /\ sweep.stage < 3
         /\ sweep' = [sweep EXCEPT !.stage = @ + 1, !.now = now]
         /\ UNCHANGED <<published, gate>>
      \/ /\ sweep.stage = 3 /\ sweep.case < Len(Goldens)
         /\ sweep' = [sweep EXCEPT !.stage = 1, !.now = <<>>, !.runs = runs, !.case = @ + 1]
         /\ UNCHANGED <<published, gate>>
      \/ /\ sweep.stage = 3 /\ sweep.case = Len(Goldens) /\ sweep' = NoSweep
         /\ IF sweep.client = "recording"
              THEN published' = {ComputeMetrics(runs)} /\ gate' = gate
              ELSE gate' = {Verdict(ComputeMetrics(runs))} /\ published' = published
  BY DEF EndStage, Stages
<1> HIDE DEF now, runs
<1>3. sweep' = NoSweep \/ sweep' \in SweepRecord
  BY EndStageKeepsHInv DEF HInv, SweepTyped
<1>4. sweep.stage \in 1 .. 3 /\ sweep.case \in Int /\ sweep.client \in {"recording", "replay"}
  BY <1>1, AGolden DEF SweepRecord
<1>5. CASE /\ sweep.stage < 3
           /\ sweep' = [sweep EXCEPT !.stage = @ + 1, !.now = now]
           /\ UNCHANGED <<published, gate>>
  <2>1. /\ sweep'.stage = sweep.stage + 1 /\ sweep'.now = now /\ sweep'.case = sweep.case
        /\ sweep'.runs = sweep.runs /\ sweep'.client = sweep.client
    BY <1>1, <1>5 DEF SweepRecord
  <2>2. sweep' # NoSweep
    BY <1>4, <2>1, NoSweepIsNone
  <2>3. sweep'.stage - 1 = sweep.stage
    BY <1>4, <2>1
  <2> QED
    BY <1>3, <1>5, <2>1, <2>2, <2>3 DEF now
<1>6. CASE /\ sweep.stage = 3 /\ sweep.case < Len(Goldens)
           /\ sweep' = [sweep EXCEPT !.stage = 1, !.now = <<>>, !.runs = runs, !.case = @ + 1]
           /\ UNCHANGED <<published, gate>>
  <2> DEFINE none == <<>>
  <2>1. sweep' = [sweep EXCEPT !.stage = 1, !.now = none, !.runs = runs, !.case = @ + 1]
    BY <1>6
  <2> HIDE DEF none
  <2>2. /\ sweep'.stage = 1 /\ sweep'.case = sweep.case + 1
        /\ sweep'.runs = runs /\ sweep'.client = sweep.client
    BY <1>1, <2>1 DEF SweepRecord
  <2>3. sweep' # NoSweep
    BY <1>4, <2>2, NoSweepIsNone
  <2>4. sweep'.case - 1 = sweep.case
    BY <1>4, <2>2
  <2> QED
    BY <1>3, <1>6, <2>2, <2>3, <2>4 DEF now, runs
<1>7. CASE /\ sweep.stage = 3 /\ sweep.case = Len(Goldens) /\ sweep' = NoSweep
           /\ IF sweep.client = "recording"
                THEN published' = {ComputeMetrics(runs)} /\ gate' = gate
                ELSE gate' = {Verdict(ComputeMetrics(runs))} /\ published' = published
  BY <1>1, <1>4, <1>7 DEF now, runs
<1> QED
  BY <1>2, <1>5, <1>6, <1>7

LEMMA NextRecords == HInv /\ Tracked /\ RecordsSoFar /\ [HarnessNext]_hvars => RecordsSoFar'
<1> SUFFICES ASSUME HInv, Tracked, RecordsSoFar, [HarnessNext]_hvars, sweep' \in SweepRecord, Faithfully'
             PROVE  /\ \A c \in 1 .. sweep'.case - 1 : \A s \in 1 .. 3 :
                         Leaves(store', c, s, sweep'.runs[c][s])
                    /\ \A s \in 1 .. sweep'.stage - 1 : Leaves(store', sweep'.case, s, sweep'.now[s])
  BY DEF RecordsSoFar
<1>1. CASE /\ Keeps(store', store) /\ sweep' = sweep /\ Faithfully
  BY <1>1, LeavesStays DEF RecordsSoFar
<1>2. CASE UNCHANGED hvars
  BY <1>1, <1>2 DEF hvars, Keeps, Faithfully, Undisturbed
<1>3. CASE Record \/ CheckJudges
  <2>1. sweep'.case = 1 /\ sweep'.stage = 1
    BY <1>3 DEF Record, CheckJudges, NewSweep
  <2> QED
    BY <2>1
<1>4. CASE BeginStage
  BY <1>1, <1>4, BeginStageStarts DEF Keeps, Faithfully, Undisturbed
<1>5. CASE Reading
  BY <1>1, <1>5 DEF Reading, Faithfully, Undisturbed
<1>6. CASE Cached
  BY <1>5, <1>6, CachedReads DEF HInv
<1>7. CASE Live
  BY <1>5, <1>7, LiveReads
<1>8. CASE Missing \/ LiveFails
  BY <1>8, FailureIsNoticed DEF Faithfully
<1>9. CASE EndStage
  <2> DEFINE now  == Append(sweep.now, StageOf(Goldens[sweep.case]))
             runs == Append(sweep.runs, now)
  <2>1. store' = store /\ faults' = faults /\ sweep \in SweepRecord
    BY <1>9, EndStageLeaves
  <2>2. \/ /\ sweep.stage < 3 /\ sweep'.stage - 1 = sweep.stage /\ sweep'.now = now
           /\ sweep'.case = sweep.case /\ sweep'.runs = sweep.runs /\ sweep'.client = sweep.client
        \/ /\ sweep.stage = 3 /\ sweep'.stage = 1 /\ sweep'.case - 1 = sweep.case
           /\ sweep'.runs = runs /\ sweep'.client = sweep.client
    BY <1>9, NoSweepIsNone, EndStageSteps
  <2>3. Faithfully
    BY <2>1, <2>2 DEF Faithfully, Undisturbed
  <2>4. /\ \A s \in 1 .. sweep.stage : Leaves(store, sweep.case, s, now[s])
        /\ sweep.stage = 3 => \A c \in 1 .. sweep.case : \A s \in 1 .. 3 : Leaves(store, c, s, runs[c][s])
    BY <1>9, <2>3, EndStageRecords
  <2>5. \A c \in 1 .. sweep.case - 1 : \A s \in 1 .. 3 : Leaves(store, c, s, sweep.runs[c][s])
    BY <2>1, <2>3 DEF RecordsSoFar
  <2> HIDE DEF now, runs
  <2>6. CASE /\ sweep'.stage - 1 = sweep.stage /\ sweep'.now = now
             /\ sweep'.case = sweep.case /\ sweep'.runs = sweep.runs
    BY <2>1, <2>4, <2>5, <2>6
  <2>7. CASE /\ sweep.stage = 3 /\ sweep'.stage = 1 /\ sweep'.case - 1 = sweep.case
             /\ sweep'.runs = runs
    <3>1. 1 .. sweep'.stage - 1 = {}
      BY <2>7
    <3> QED
      BY <2>1, <2>4, <2>7, <3>1
  <2> QED
    BY <2>2, <2>6, <2>7
<1>10. CASE Crash
  BY <1>10, NoSweepIsNone DEF Crash
<1>11. CASE Lose
  BY <1>11, SweepingIsTyped DEF Lose, HInv
<1> QED
  BY <1>2, <1>3, <1>4, <1>6, <1>7, <1>8, <1>9, <1>10, <1>11, Actions

\* A reply taken in leaves the replay among the run records of the recording.
LEMMA ReadingReplays ==
  ASSUME HInv, Reading, NEW runs, Replays(runs)
  PROVE  Replays(runs)'
<1>1. /\ Running(run) /\ Keeps(store', store) /\ run' = Read(store', run) /\ sweep' = sweep
  BY DEF Reading
<1>2. run # NoRun /\ sweep \in SweepRecord
  BY <1>1, NoRunIsNowhere DEF Running, HInv, AtWork
<1>3. PICK T, last :
        /\ Settled(store, T, last, sweep.case, sweep.stage, runs[sweep.case][sweep.stage])
        /\ run \in T
  BY <1>2 DEF Replays
<1>4. Settled(store', T, last, sweep.case, sweep.stage, runs[sweep.case][sweep.stage])
  BY <1>1, <1>3, SettledStays
<1>5. run' \in T
  BY <1>1, <1>3, <1>4, FollowedOn DEF Settled
<1> QED
  BY <1>1, <1>2, <1>4, <1>5 DEF Replays

LEMMA EndStageKeepsReplay ==
  ASSUME HInv, EndStage, NEW rec, Recorded(store, rec), Replays(rec)
  PROVE  Replays(rec)'
<1> DEFINE now  == Append(sweep.now, StageOf(Goldens[sweep.case]))
           runs == Append(sweep.runs, now)
<1> SUFFICES ASSUME sweep' \in SweepRecord
             PROVE  /\ sweep'.client = "replay"
                    /\ \A c \in 1 .. sweep'.case - 1 : sweep'.runs[c] = rec[c]
                    /\ \A s \in 1 .. sweep'.stage - 1 : sweep'.now[s] = rec[sweep'.case][s]
  BY EndStageLeaves DEF Replays
<1>1. sweep \in SweepRecord
  BY EndStageLeaves
<1>2. \/ /\ sweep.stage < 3 /\ sweep'.stage - 1 = sweep.stage /\ sweep'.now = now
         /\ sweep'.case = sweep.case /\ sweep'.runs = sweep.runs /\ sweep'.client = sweep.client
      \/ /\ sweep.stage = 3 /\ sweep'.stage = 1 /\ sweep'.case - 1 = sweep.case
         /\ sweep'.runs = runs /\ sweep'.client = sweep.client
  BY NoSweepIsNone, EndStageSteps
<1>3. /\ \A s \in 1 .. sweep.stage : now[s] = rec[sweep.case][s]
      /\ sweep.stage = 3 => \A c \in 1 .. sweep.case : runs[c] = rec[c]
  BY EndStageReplays
<1>4. sweep.client = "replay" /\ \A c \in 1 .. sweep.case - 1 : sweep.runs[c] = rec[c]
  BY <1>1 DEF Replays
<1> HIDE DEF now, runs
<1>5. CASE /\ sweep'.stage - 1 = sweep.stage /\ sweep'.now = now
           /\ sweep'.case = sweep.case /\ sweep'.runs = sweep.runs /\ sweep'.client = sweep.client
  BY <1>3, <1>4, <1>5
<1>6. CASE /\ sweep.stage = 3 /\ sweep'.stage = 1 /\ sweep'.case - 1 = sweep.case
           /\ sweep'.runs = runs /\ sweep'.client = sweep.client
  <2>1. 1 .. sweep'.stage - 1 = {}
    BY <1>6
  <2> QED
    BY <1>3, <1>4, <1>6, <2>1
<1> QED
  BY <1>2, <1>5, <1>6

\* A sweep that has come to its end agrees with the recording in every case.
LEMMA LastStageReplays ==
  ASSUME HInv, EndStage, sweep' = NoSweep, NEW rec, Recorded(store, rec), Replays(rec)
  PROVE  /\ sweep.client = "replay" /\ published' = published
         /\ gate' = {Verdict(ComputeMetrics(rec))}
<1> DEFINE now  == Append(sweep.now, StageOf(Goldens[sweep.case]))
           runs == Append(sweep.runs, now)
<1>1. sweep \in SweepRecord /\ sweep.client = "replay"
  BY EndStageLeaves DEF Replays
<1>2. /\ sweep.stage = 3 /\ sweep.case = Len(Goldens)
      /\ runs \in Seq([1 .. 3 -> GoodStage]) /\ Len(runs) = Len(Goldens)
      /\ gate' = {Verdict(ComputeMetrics(runs))} /\ published' = published
  BY <1>1, NoSweepIsNone, EndStageSteps
<1>3. \A c \in 1 .. sweep.case : runs[c] = rec[c]
  BY <1>2, EndStageReplays
<1>4. rec \in Seq([1 .. 3 -> GoodStage]) /\ Len(rec) = Len(Goldens)
  BY DEF Recorded
<1> HIDE DEF runs
<1>5. runs = rec
  BY <1>2, <1>3, <1>4, SeqEqual
<1> QED
  BY <1>1, <1>2, <1>5

LEMMA NextPublished ==
  ASSUME HInv, Tracked, RecordsSoFar, PublishedStands, [HarnessNext]_hvars
  PROVE  PublishedStands'
<1> SUFFICES ASSUME Undisturbed', NEW m \in published'
             PROVE  \E runs : /\ m = ComputeMetrics(runs) /\ Recorded(store', runs)
                              /\ Replays(runs)'
  BY DEF PublishedStands
<1>1. ASSUME published' = published, Undisturbed, Keeps(store', store),
             \A runs : Recorded(store, runs) /\ Replays(runs) => Replays(runs)'
      PROVE  \E runs : m = ComputeMetrics(runs) /\ Recorded(store', runs) /\ Replays(runs)'
  <2>1. PICK runs : m = ComputeMetrics(runs) /\ Recorded(store, runs) /\ Replays(runs)
    BY <1>1 DEF PublishedStands
  <2>2. Recorded(store', runs)
    BY <1>1, <2>1, RecordedStays
  <2> QED
    BY <1>1, <2>1, <2>2
<1>2. ASSUME sweep' = NoSweep
      PROVE  \A runs : Replays(runs)'
  BY <1>2, NoSweepIsNone DEF Replays
<1>3. CASE UNCHANGED hvars
  BY <1>1, <1>3 DEF hvars, Keeps, Undisturbed, Replays
<1>4. CASE Record
  BY <1>4 DEF Record
<1>5. CASE CheckJudges
  <2>1. /\ sweep' = NewSweep("replay") /\ run' = NoRun /\ UNCHANGED <<store, published, faults>>
    BY <1>5, NewSweepKeepsHInv DEF CheckJudges
  <2>2. sweep'.client = "replay" /\ 1 .. sweep'.case - 1 = {} /\ 1 .. sweep'.stage - 1 = {}
    BY <2>1, NewSweepTyped
  <2>3. \A runs : Replays(runs)'
    BY <2>1, <2>2 DEF Replays
  <2> QED
    BY <1>1, <2>1, <2>3 DEF Keeps, Undisturbed
<1>6. CASE BeginStage
  <2>1. /\ run' = StartOf(sweep.case, sweep.stage) /\ sweep \in SweepRecord
        /\ UNCHANGED <<store, sweep, published, faults>>
    BY <1>6, BeginStageStarts, BeginStageKeepsHInv
  <2>2. ASSUME NEW runs, Recorded(store, runs), Replays(runs)
        PROVE  Replays(runs)'
    <3>1. sweep.case \in DOMAIN Goldens /\ sweep.stage \in 1 .. 3
      BY <2>1 DEF SweepRecord
    <3>2. PICK T, last : Settled(store, T, last, sweep.case, sweep.stage, runs[sweep.case][sweep.stage])
      BY <2>2, <3>1 DEF Recorded, Leaves
    <3>3. run' \in T
      BY <2>1, <3>2 DEF Settled, Follows
    <3> QED
      BY <2>1, <2>2, <3>2, <3>3 DEF Replays
  <2> QED
    BY <1>1, <2>1, <2>2 DEF Keeps, Undisturbed
<1>7. CASE Reading
  <2>1. published' = published /\ faults' = faults /\ Keeps(store', store)
    BY <1>7 DEF Reading
  <2> QED
    BY <1>1, <1>7, <2>1, ReadingReplays DEF Undisturbed
<1>8. CASE Cached
  BY <1>7, <1>8, CachedReads DEF HInv
<1>9. CASE Live
  BY <1>7, <1>9, LiveReads
<1>10. CASE Missing
  <2>1. /\ Running(run) /\ PromptOf(run) \notin DOMAIN store /\ Undisturbed /\ published' = published
    BY <1>10, FailureIsNoticed
  <2>2. PICK runs : Replays(runs)
    BY <2>1 DEF PublishedStands
  <2>3. run # NoRun /\ sweep \in SweepRecord
    BY <2>1, NoRunIsNowhere DEF Running, HInv, AtWork
  <2>4. PICK T, last :
          /\ Settled(store, T, last, sweep.case, sweep.stage, runs[sweep.case][sweep.stage])
          /\ run \in T
    BY <2>2, <2>3 DEF Replays
  <2> QED
    BY <2>1, <2>4, FollowedOn DEF Settled
<1>11. CASE LiveFails
  BY <1>11, FailureIsNoticed
<1>12. CASE EndStage
  <2>1. /\ store' = store /\ faults' = faults /\ sweep \in SweepRecord
    BY <1>12, EndStageLeaves
  <2>2. CASE published' = published
    BY <1>1, <1>12, <2>1, <2>2, EndStageKeepsReplay DEF Keeps, Undisturbed
  <2>3. CASE published' # published
    <3> DEFINE now  == Append(sweep.now, StageOf(Goldens[sweep.case]))
               runs == Append(sweep.runs, now)
    <3>1. /\ sweep.stage = 3 /\ sweep.case = Len(Goldens) /\ sweep' = NoSweep
          /\ runs \in Seq([1 .. 3 -> GoodStage]) /\ Len(runs) = Len(Goldens)
          /\ sweep.client = "recording" /\ published' = {ComputeMetrics(runs)}
      BY <1>12, <2>3, EndStageSteps
    <3>2. Faithfully
      BY <2>1, <3>1 DEF Faithfully, Undisturbed
    <3>3. \A c \in 1 .. sweep.case : \A s \in 1 .. 3 : Leaves(store, c, s, runs[c][s])
      BY <1>12, <3>1, <3>2, EndStageRecords
    <3> HIDE DEF runs
    <3>4. Recorded(store', runs)
      BY <2>1, <3>1, <3>3, AGolden DEF Recorded
    <3> QED
      BY <1>2, <3>1, <3>4
  <2> QED
    BY <2>2, <2>3
<1>13. CASE Crash
  <2>1. /\ sweep' = NoSweep /\ published' = published /\ Prompt \notin DOMAIN store
        /\ store' \in {store, Stored(Prompt, Torn)}
        /\ faults' = [faults EXCEPT !.crashes = @ + 1]
    BY <1>13 DEF Crash, Asks
  <2>2. Keeps(store', store)
    BY <2>1 DEF Keeps, Stored
  <2>3. Undisturbed
    <3>1. faults'.failures = faults.failures /\ faults'.losses = faults.losses
      BY <2>1 DEF HInv, FaultsTyped
    <3> QED
      BY <3>1 DEF Undisturbed
  <2> QED
    BY <1>1, <1>2, <2>1, <2>2, <2>3
<1>14. CASE Lose
  <2>1. faults' = [faults EXCEPT !.losses = @ + 1]
    BY <1>14 DEF Lose
  <2>2. faults'.losses = faults.losses + 1 /\ faults.losses \in Nat
    BY <2>1 DEF HInv, FaultsTyped
  <2> QED
    BY <2>2 DEF Undisturbed
<1> QED
  BY <1>3, <1>4, <1>5, <1>6, <1>8, <1>9, <1>10, <1>11, <1>12, <1>13, <1>14, Actions

LEMMA DisturbanceStays ==
  ASSUME HInv, HarnessNext, Undisturbed'
  PROVE  Undisturbed
<1>1. faults \in [crashes : Nat, failures : Nat, losses : Nat, missed : BOOLEAN]
  BY DEF HInv, FaultsTyped
<1>2. CASE faults' = faults
  BY <1>2 DEF Undisturbed
<1>3. CASE Missing \/ LiveFails
  BY <1>3, FailureIsNoticed
<1>4. CASE Crash
  <2>1. faults' = [faults EXCEPT !.crashes = @ + 1]
    BY <1>4 DEF Crash
  <2>2. faults'.failures = faults.failures /\ faults'.losses = faults.losses
    BY <1>1, <2>1
  <2> QED
    BY <2>2 DEF Undisturbed
<1>5. CASE Lose
  <2>1. faults' = [faults EXCEPT !.losses = @ + 1]
    BY <1>5 DEF Lose
  <2>2. faults'.losses = faults.losses + 1 /\ faults.losses \in Nat
    BY <1>1, <2>1
  <2> QED
    BY <2>2 DEF Undisturbed
<1>6. CASE Record \/ CheckJudges \/ BeginStage \/ Cached \/ Live \/ EndStage
  BY <1>2, <1>6 DEF Record, CheckJudges, BeginStage, Cached, Live, EndStage
<1> QED
  BY <1>3, <1>4, <1>5, <1>6, Actions

LEMMA NextGate ==
  ASSUME HInv, PublishedStands, GateStands, [HarnessNext]_hvars
  PROVE  GateStands'
<1>1. ASSUME gate' = gate, published' = published, Undisturbed' => Undisturbed,
             gate = {} \/ sweep' = sweep \/ sweep' = NoSweep
      PROVE  GateStands'
  <2>1. gate' # {} => sweep' \notin SweepRecord
    BY <1>1, NoSweepIsNone DEF GateStands
  <2>2. \A g \in gate' : \E runs : g = Verdict(ComputeMetrics(runs))'
    <3>1. \A runs : Verdict(ComputeMetrics(runs))' = Verdict(ComputeMetrics(runs))
      BY <1>1 DEF Verdict
    <3> QED
      BY <1>1, <3>1 DEF GateStands
  <2>3. Undisturbed' => \A g \in gate', m \in published' : g.metrics = m
    BY <1>1 DEF GateStands
  <2> QED
    BY <2>1, <2>2, <2>3 DEF GateStands
<1>2. CASE UNCHANGED hvars
  BY <1>1, <1>2 DEF hvars, Undisturbed
<1>3. CASE Record \/ CheckJudges
  BY <1>1, <1>3, DisturbanceStays DEF Record, CheckJudges, HarnessNext
<1>4. CASE BeginStage
  BY <1>1, <1>4, DisturbanceStays DEF BeginStage, HarnessNext, Work
<1>5. CASE Cached
  BY <1>1, <1>5, DisturbanceStays DEF Cached, HarnessNext, Work
<1>6. CASE Live
  BY <1>1, <1>6, DisturbanceStays DEF Live, HarnessNext, Work
<1>7. CASE Missing
  BY <1>1, <1>7, DisturbanceStays DEF Missing, HarnessNext, Work
<1>8. CASE LiveFails \/ Crash \/ Lose
  BY <1>1, <1>8, DisturbanceStays DEF LiveFails, Crash, Lose, HarnessNext
<1>9. CASE EndStage
  <2>1. sweep \in SweepRecord /\ gate = {} /\ faults' = faults /\ store' = store
    BY <1>9, EndStageLeaves DEF GateStands
  <2>2. CASE gate' = gate
    BY <2>1, <2>2 DEF GateStands
  <2>3. CASE gate' # gate
    <3> DEFINE runs == Append(sweep.runs, Append(sweep.now, StageOf(Goldens[sweep.case])))
    <3>1. sweep' = NoSweep /\ gate' = {Verdict(ComputeMetrics(runs))} /\ published' = published
      BY <1>9, <2>3, EndStageSteps
    <3> HIDE DEF runs
    <3>2. \A rec : Verdict(ComputeMetrics(rec))' = Verdict(ComputeMetrics(rec))
      BY <3>1 DEF Verdict
    <3>3. ASSUME Undisturbed', NEW g \in gate', NEW m \in published'
          PROVE  g.metrics = m
      <4>1. Undisturbed /\ m \in published
        BY <2>1, <3>1, <3>3 DEF Undisturbed
      <4>2. PICK rec : m = ComputeMetrics(rec) /\ Recorded(store, rec) /\ Replays(rec)
        BY <4>1 DEF PublishedStands
      <4>3. gate' = {Verdict(ComputeMetrics(rec))}
        BY <1>9, <3>1, <4>2, LastStageReplays
      <4> QED
        BY <3>3, <4>2, <4>3 DEF Verdict
    <3>4. \A g \in gate' : \E rec : g = Verdict(ComputeMetrics(rec))'
      BY <3>1, <3>2
    <3> QED
      BY <3>1, <3>3, <3>4, NoSweepIsNone DEF GateStands
  <2> QED
    BY <2>2, <2>3
<1> QED
  BY <1>2, <1>3, <1>4, <1>5, <1>6, <1>7, <1>8, <1>9, Actions

\* Everything about recordings and replays, together.
ReplayInv == Tracked /\ RecordsSoFar /\ PublishedStands /\ GateStands

LEMMA ReplayInvariant == HarnessSpec => []ReplayInv
<1>1. HarnessInit => ReplayInv
  BY InitTracked, NoSweepIsNone
  DEF HarnessInit, ReplayInv, RecordsSoFar, PublishedStands, GateStands
<1>2. HInv /\ ReplayInv /\ [HarnessNext]_hvars => ReplayInv'
  BY NextTracked, NextRecords, NextPublished, NextGate DEF ReplayInv
<1> QED
  BY <1>1, <1>2, HarnessInvariant, PTL DEF HarnessSpec

(***************************************************************************)
(* What was recorded is what replays: for any goldens, any replies and any *)
(* number of crashes in between, fixtures cut off included, a replay comes *)
(* to the metrics that were published, as long as no live call failed and  *)
(* no fixture went missing (fixtures.py:15-18).                            *)
(***************************************************************************)
THEOREM RecordingReplays == HarnessSpec => []ReplayReproduces
<1>1. ReplayInv => ReplayReproduces
  BY DEF ReplayInv, GateStands, ReplayReproduces
<1> QED
  BY <1>1, ReplayInvariant, PTL

-----------------------------------------------------------------------------
(***************************************************************************)
(* The gate's comparison.                                                  *)
(***************************************************************************)
LEMMA RateIsInt ==
  ASSUME NEW num \in Nat, NEW den \in Nat
  PROVE  Rate(num, den) \in Int
<1>1. CASE den = 0
  BY <1>1 DEF Rate
<1>2. CASE den # 0
  <2>1. 10000 * num \in Int /\ den > 0
    BY <1>2
  <2>2. (10000 * num) \div den \in Int /\ ((10000 * num) \div den) + 1 \in Int
    BY <2>1
  <2> QED
    BY <1>2, <2>2 DEF Rate
<1> QED
  BY <1>1, <1>2

\* The rates the gate compares are counts over counts, so they are integers
\* (of units) and comparable.
LEMMA MetricsAreRates ==
  ASSUME NEW runs
  PROVE  LET m == ComputeMetrics(runs)
         IN  m.accuracy \in Int /\ \A d \in GRADED : m.by_dimension[d] \in Int
<1> DEFINE cases  == DOMAIN Goldens
           judged == {c \in cases : ~runs[c][1].refused}
           match(D) == {p \in judged \X D : runs[p[1]][1].verdicts[p[2]] = Goldens[p[1]].expected[p[2]]}
<1>1. /\ ComputeMetrics(runs).accuracy = Rate(Cardinality(match(GRADED)), 3 * Cardinality(judged))
      /\ \A d \in GRADED : ComputeMetrics(runs).by_dimension[d]
                             = Rate(Cardinality(match({d})), Cardinality(judged))
  BY DEF ComputeMetrics
<1>2. IsFiniteSet(cases)
  <2>1. IsFiniteSet(1 .. Len(Goldens))
    BY AGolden, FS_Interval
  <2> QED
    BY <2>1, AGolden
<1>3. judged \subseteq cases
  OBVIOUS
<1> HIDE DEF cases
<1>4. IsFiniteSet(judged)
  BY <1>2, <1>3, FS_Subset
<1>5. \A D : match(D) \subseteq judged \X D
  OBVIOUS
<1> HIDE DEF judged, match
<1>6. ASSUME NEW D, IsFiniteSet(D)
      PROVE  Cardinality(match(D)) \in Nat
  <2>1. IsFiniteSet(judged \X D)
    BY <1>4, <1>6, FS_Product
  <2>2. IsFiniteSet(match(D))
    BY <1>5, <2>1, FS_Subset
  <2> QED
    BY <2>2, FS_CardinalityType
<1>7. Cardinality(judged) \in Nat /\ 3 * Cardinality(judged) \in Nat
  BY <1>4, FS_CardinalityType
<1>8. IsFiniteSet(GRADED) /\ \A d : IsFiniteSet({d})
  <2>1. \A d : IsFiniteSet({d})
    BY FS_Singleton
  <2>2. GRADED = {"segment_correctness"} \cup {"claim_groundedness"} \cup {"brand_voice"}
    BY DEF GRADED
  <2>3. IsFiniteSet({"segment_correctness"} \cup {"claim_groundedness"})
    BY <2>1, FS_Union
  <2> QED
    BY <2>1, <2>2, <2>3, FS_Union
<1>9. Rate(Cardinality(match(GRADED)), 3 * Cardinality(judged)) \in Int
  BY <1>6, <1>7, <1>8, RateIsInt
<1>10. \A d \in GRADED : Rate(Cardinality(match({d})), Cardinality(judged)) \in Int
  BY <1>6, <1>7, <1>8, RateIsInt
<1> QED
  BY <1>1, <1>9, <1>10

(***************************************************************************)
(* The gate does not cry wolf: undisturbed, it passes, also when nothing   *)
(* has been published to compare with (gate.py:258-281).                   *)
(***************************************************************************)
THEOREM GatePassesAReplay == HarnessSpec => []GatePassesUndisturbed
<1>1. GateStands => GatePassesUndisturbed
  <2> SUFFICES ASSUME GateStands, Undisturbed, NEW g \in gate
               PROVE  g.passed
    BY DEF GatePassesUndisturbed
  <2>1. PICK runs : g = Verdict(ComputeMetrics(runs))
    BY DEF GateStands
  <2>2. /\ g.metrics = ComputeMetrics(runs)
        /\ g.passed = \A baseline \in published : ~Regressed(g.metrics, baseline)
    BY <2>1 DEF Verdict
  <2>3. g.metrics.accuracy \in Int /\ \A d \in GRADED : g.metrics.by_dimension[d] \in Int
    BY <2>2, MetricsAreRates
  <2>4. ~Regressed(g.metrics, g.metrics)
    BY <2>3 DEF Regressed, JUDGE_TOLERANCE
  <2>5. \A baseline \in published : baseline = g.metrics
    BY DEF GateStands
  <2> QED
    BY <2>2, <2>4, <2>5
<1> QED
  BY <1>1, ReplayInvariant, PTL DEF ReplayInv

=============================================================================
