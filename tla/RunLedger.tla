------------------------------ MODULE RunLedger ------------------------------
(***************************************************************************)
(* What the ingest pipeline promises to whoever reads a run: an atomic     *)
(* ledger.  A run is opened once with some tests queued; results are       *)
(* recorded, never taken back to queued and never deleted; the run settles *)
(* on a verdict once and after that the verdict can only be replaced by a  *)
(* strictly worse one.  Handlers, locks, retries, the clock and the        *)
(* watchdog are invisible at this level.                                   *)
(***************************************************************************)
EXTENDS Integers

CONSTANTS Tests, Outcomes, Verdicts, Severity(_)

VARIABLES status, results

lvars == <<status, results>>

Untouched == [t \in Tests |-> "none"]

Init == status = "absent" /\ results = Untouched

Open ==
    /\ status = "absent"
    /\ status' = "running"
    /\ results' \in [Tests -> {"queued", "none"}]

Record ==
    /\ status # "absent"
    /\ \A t \in Tests : results'[t] = results[t] \/ results'[t] \in Outcomes
    /\ results' \in [Tests -> Outcomes \cup {"queued", "none"}]
    /\ UNCHANGED status

Finish ==
    /\ status = "running"
    /\ status' \in Verdicts
    /\ UNCHANGED results

Worsen ==
    /\ status \in Verdicts
    /\ status' \in Verdicts
    /\ Severity(status) < Severity(status')
    /\ UNCHANGED results

Next == Open \/ Record \/ Finish \/ Worsen

Safety == Init /\ [][Next]_lvars

Spec == Safety /\ WF_lvars(Finish)
=============================================================================
