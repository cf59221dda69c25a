---------------------------- MODULE MCSyncPlane ----------------------------
(* Small instances of SyncPlane for TLC. *)
EXTENDS SyncPlane, TLC

CONSTANTS k1, k2, va, vb

MCKeys == {k1, k2}
MCKey1 == {k1}
MCVals == {va, vb}
MCRuns2 == 1 .. 2
MCRuns3 == 1 .. 3
MCNone == {}
MCPruned == {2}
MCRejectOne == {<<k1, vb>>}
(* Push calls are interchangeable, and so are the target's request slots. *)
CallSymmetry == Permutations(Pushers) \cup Permutations(Slots)
=============================================================================
