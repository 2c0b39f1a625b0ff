------------------------------- MODULE Ledger -------------------------------
(***************************************************************************)
(* The append-only ledger (autonomy/ledger.py): the entries it holds and   *)
(* what the controller reads from them.  The ledger is one sequence for    *)
(* all campaign types; an entry's index is its sequence number.            *)
(*                                                                         *)
(* The code folds the entries of a type into its TierState (reconstruct).  *)
(* Here the state of a type after the first k entries is given in closed   *)
(* form: its last transition says the tier and the standing, and the runs  *)
(* recorded since then use up the cooldown it set.  Reconstruct is the     *)
(* fold itself; ReplayIsFold in Controller compares the two.               *)
(***************************************************************************)
EXTENDS Routing, Sequences, FiniteSets

TransitionReason ==
  {"promotion", "demotion_critical_presend", "demotion_deliverability",
   "probation_passed", "probation_failed"}

RunEntry ==
  [kind : {"run"}, campaign_type : CampaignTypes, ts : Int, run_id : RunIds,
   decision : Decision, outcome : OutcomeClass, tier_at_decision : Tier,
   segment : SegmentBand]

TransitionEntry ==
  [kind : {"transition"}, campaign_type : CampaignTypes, ts : Int,
   reason : TransitionReason, from_tier : Tier, to_tier : Tier,
   standing_after : Standing, cooldown_after : Nat]

OutcomeEntry ==
  [kind : {"outcome"}, campaign_type : CampaignTypes, ts : Int,
   run_id : RunIds, breached : BOOLEAN, blind_spot : BOOLEAN]

Entry == RunEntry \cup TransitionEntry \cup OutcomeEntry

IsRun(entry, ct) == entry.kind = "run" /\ entry.campaign_type = ct
IsTransition(entry, ct) ==
  entry.kind = "transition" /\ entry.campaign_type = ct
IsAutoSend(entry, ct) == IsRun(entry, ct) /\ entry.decision = "auto_send"

-----------------------------------------------------------------------------
(***************************************************************************)
(* Reconstruction.                                                         *)
(***************************************************************************)
TransitionsUpTo(log, ct, k) == {i \in 1 .. k : IsTransition(log[i], ct)}

\* The index of the last transition of ct among the first k entries, 0 if
\* there is none.
LastTransition(log, ct, k) ==
  CHOOSE i \in TransitionsUpTo(log, ct, k) \cup {0} :
    \A j \in TransitionsUpTo(log, ct, k) : j <= i

RunsBetween(log, ct, i, k) == {j \in (i + 1) .. k : IsRun(log[j], ct)}

TierAt(log, ct, k) ==
  LET last == LastTransition(log, ct, k)
  IN  IF last = 0 THEN ASSIST ELSE log[last].to_tier

StandingAt(log, ct, k) ==
  LET last == LastTransition(log, ct, k)
  IN  IF last = 0 THEN "active" ELSE log[last].standing_after

\* Fault: only evidence-bearing runs use up the cooldown.
CooldownAtFault(log, ct, k) ==
  LET last == LastTransition(log, ct, k)
      used == Cardinality({j \in RunsBetween(log, ct, last, k) :
                             log[j].outcome # "constraint_block"})
  IN  IF last = 0 THEN 0
      ELSE IF log[last].cooldown_after <= used THEN 0
      ELSE log[last].cooldown_after - used

CooldownAt(log, ct, k) ==
  LET last == LastTransition(log, ct, k)
      used == IF StandingAt(log, ct, k) = "active"
                THEN Cardinality(RunsBetween(log, ct, last, k))
                ELSE 0
  IN  IF last = 0 THEN 0
      ELSE IF log[last].cooldown_after <= used THEN 0
      ELSE log[last].cooldown_after - used

\* The current state of a type, and whether it may be promoted at all.
TierOf(log, ct) == TierAt(log, ct, Len(log))
StandingOf(log, ct) == StandingAt(log, ct, Len(log))
CooldownOf(log, ct) == CooldownAt(log, ct, Len(log))

\* Fault: the cooldown is forgotten.
PromotionEligibleFault(log, ct) == StandingOf(log, ct) = "active"

PromotionEligible(log, ct) ==
  StandingOf(log, ct) = "active" /\ CooldownOf(log, ct) = 0

InitialState == [tier |-> ASSIST, standing |-> "active", cooldown |-> 0]

ReplayStep(state, entry) ==
  CASE entry.kind = "transition" ->
         [tier |-> entry.to_tier, standing |-> entry.standing_after,
          cooldown |-> entry.cooldown_after]
    [] /\ entry.kind = "run"
       /\ state.standing = "active"
       /\ state.cooldown > 0 -> [state EXCEPT !.cooldown = @ - 1]
    [] OTHER -> state

Reconstruct(log, ct) ==
  LET states[n \in 0 .. Len(log)] ==
        IF n = 0 THEN InitialState
        ELSE IF log[n].campaign_type = ct THEN ReplayStep(states[n - 1], log[n])
        ELSE states[n - 1]
  IN  states[Len(log)]

-----------------------------------------------------------------------------
(***************************************************************************)
(* Queries.                                                                *)
(***************************************************************************)

\* Fault: constraint blocks take up room in the window.
WilsonRunsFault(log, ct, window) ==
  LET runs == {i \in DOMAIN log : IsRun(log[i], ct)}
  IN  {i \in runs : Cardinality({j \in runs : j > i}) < window}

\* The last `window` runs of ct that are evidence (constraint blocks are
\* not), over the whole history of the type.
WilsonRuns(log, ct, window) ==
  LET evidence == {i \in DOMAIN log :
                     IsRun(log[i], ct) /\ log[i].outcome # "constraint_block"}
  IN  {i \in evidence : Cardinality({j \in evidence : j > i}) < window}

Successes(log, runs) == {i \in runs : log[i].outcome = "quality_pass"}

\* Fault: one limit for all types.
SendsSinceFault(log, ct, cutoff) ==
  {i \in DOMAIN log : log[i].kind = "run" /\ log[i].decision = "auto_send"
                       /\ log[i].ts >= cutoff}

\* The autonomous sends of ct stamped at or after the cutoff, however late.
SendsSince(log, ct, cutoff) ==
  {i \in DOMAIN log : IsAutoSend(log[i], ct) /\ log[i].ts >= cutoff}

\* The first run of ct recorded under run_id, 0 if there is none.
FindRun(log, ct, run_id) ==
  LET found == {i \in DOMAIN log :
                  IsRun(log[i], ct) /\ log[i].run_id = run_id}
  IN  CHOOSE i \in found \cup {0} :
        IF found = {} THEN i = 0 ELSE i # 0 /\ \A j \in found : i <= j
=============================================================================
