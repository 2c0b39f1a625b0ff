------------------------------- MODULE Stores -------------------------------
(***************************************************************************)
(* What the service keeps beside each other with no transaction around     *)
(* them: the ledger, the review queue, and the directory of runs flagged   *)
(* for triage.  Service.tla runs one call at a time over them and crashes; *)
(* Console.tla runs several calls at a time.                               *)
(***************************************************************************)
EXTENDS Controller, ReviewQueue

CONSTANT SendWindow    \* how long a queued item may wait

ASSUME WindowAssumption == SendWindow \in Nat \ {0}

VARIABLE candidates    \* the run ids flagged as blind spots for triage

RecordedIds == {ledger[i].run_id : i \in {j \in DOMAIN ledger : ledger[j].kind = "run"}}

\* The ledger is written first: whatever the queue holds in flight is an
\* autonomous send on record, wherever a call was cut off and whatever other
\* calls did meanwhile (service.py:155-163).
InFlightIsRecorded ==
  \A id \in ByStatus("in_flight") :
    \E i \in DOMAIN ledger :
      IsAutoSend(ledger[i], items[id].campaign_type) /\ ledger[i].run_id = id
=============================================================================
