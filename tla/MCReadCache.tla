---------------------------- MODULE MCReadCache ----------------------------
(* Small instances of ReadCache for TLC. *)
EXTENDS ReadCache, TLC

CONSTANTS t1, t2, e1

MCTables2 == {t1, t2}
MCEndpoints == {e1}
(* The endpoint joins the tables. *)
MCReadsJoin == [e \in {e1} |-> {t1, t2}]
(* Bound: one restart, timeout or lost message in a behaviour. *)
OneFault == faults.restarts + faults.timeouts + faults.losses <= 1
=============================================================================
