-------------------------- MODULE MCIngestRequests --------------------------
(* Small instances of IngestRequests for TLC: the values are in the .cfg files. *)
EXTENDS IngestRequests
=============================================================================
