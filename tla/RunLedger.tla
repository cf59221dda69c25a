----------------------------- MODULE RunLedger -----------------------------
(***************************************************************************)
(* What provenance.runs promises of an ingest, whoever performs it: a run  *)
(* is opened once, rows are committed under it only while it is running,   *)
(* and it is closed at most once, for good, with a count that never        *)
(* exceeds what was committed and that is exact unless the run failed.     *)
(***************************************************************************)
EXTENDS Integers

CONSTANT Runs

VARIABLES
    run,      \* the run's status, "none" before it is opened
    rows,     \* rows committed under the run
    counted   \* rows_inserted + rows_updated of the closed run

ledger == <<run, rows, counted>>

Init ==
    /\ run = [r \in Runs |-> "none"]
    /\ rows = [r \in Runs |-> 0]
    /\ counted = [r \in Runs |-> 0]

Open(r) ==
    /\ run[r] = "none"
    /\ run' = [run EXCEPT ![r] = "running"]
    /\ UNCHANGED <<rows, counted>>

Commit(r) ==
    /\ run[r] = "running"
    /\ rows'[r] \in Nat /\ rows'[r] >= rows[r]
    /\ rows' = [rows EXCEPT ![r] = rows'[r]]
    /\ UNCHANGED <<run, counted>>

Close(r) ==
    /\ run[r] = "running"
    /\ \E s \in {"ok", "partial", "failed"}, n \in 0 .. rows[r] :
          /\ s # "failed" => n = rows[r]
          /\ run' = [run EXCEPT ![r] = s]
          /\ counted' = [counted EXCEPT ![r] = n]
    /\ UNCHANGED rows

Next == \E r \in Runs : Open(r) \/ Commit(r) \/ Close(r)

Spec == Init /\ [][Next]_ledger
=============================================================================
