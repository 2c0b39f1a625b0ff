--------------------------- MODULE AutonomyLadder ---------------------------
(***************************************************************************)
(* What the ledger and the controller together promise about a campaign    *)
(* type's standing, with the evidence abstracted away: trust is gained one *)
(* step at a time and only while active and out of cooldown, is lost all   *)
(* at once, comes back only through a passed challenge and to the first    *)
(* tier, and a failed challenge is final.  The TierState of autonomy/      *)
(* tiers.py is the state; the controller is shown to implement this.       *)
(***************************************************************************)
EXTENDS Integers

CONSTANTS
  Types,      \* what autonomy is tracked for
  Cooldown    \* the runs to serve after a restoration

VARIABLES tier, standing, cooldown

state == <<tier, standing, cooldown>>

LadderInit ==
  /\ tier = [ct \in Types |-> 0]
  /\ standing = [ct \in Types |-> "active"]
  /\ cooldown = [ct \in Types |-> 0]

\* The standing of ct becomes the one given; no other type is touched.
Becomes(ct, newTier, newStanding, newCooldown) ==
  /\ tier' = [tier EXCEPT ![ct] = newTier]
  /\ standing' = [standing EXCEPT ![ct] = newStanding]
  /\ cooldown' = [cooldown EXCEPT ![ct] = newCooldown]

\* A run uses up one unit of cooldown.
Serve(ct) ==
  /\ standing[ct] = "active"
  /\ cooldown[ct] > 0
  /\ Becomes(ct, tier[ct], "active", cooldown[ct] - 1)

\* The run that serves the last unit of cooldown may itself be the one that
\* promotes.
Promote(ct) ==
  /\ standing[ct] = "active"
  /\ cooldown[ct] <= 1
  /\ tier[ct] < 2
  /\ Becomes(ct, tier[ct] + 1, "active", 0)

Demote(ct) ==
  /\ tier[ct] > 0
  /\ Becomes(ct, 0, "probation", 0)

Restore(ct) ==
  /\ standing[ct] = "probation"
  /\ Becomes(ct, 1, "active", Cooldown)

Condemn(ct) ==
  /\ standing[ct] = "probation"
  /\ Becomes(ct, 0, "investigation_required", 0)

LadderNext ==
  \E ct \in Types :
    Serve(ct) \/ Promote(ct) \/ Demote(ct) \/ Restore(ct) \/ Condemn(ct)

LadderSpec == LadderInit /\ [][LadderNext]_state

=============================================================================
