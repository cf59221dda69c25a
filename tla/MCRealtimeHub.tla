--------------------------- MODULE MCRealtimeHub ---------------------------
(* A small instance of RealtimeHub for TLC. *)
EXTENDS RealtimeHub

CONSTANTS c1, c2, c3, i1, i2

MCConns == {c1, c2, c3}
(* A socket, a stream and the warm set. *)
MCKind == [c \in MCConns |-> CASE c = c1 -> "ws" [] c = c2 -> "sse" [] c = c3 -> "warm"]
MCIdentities == {i1, i2}
(* The two clients share one identity, the warm set has its own. *)
MCSubOf == [c \in MCConns |-> IF c = c3 THEN i2 ELSE i1]
MCInternal == {i2}
MCSymbols == {"x", "y"}
=============================================================================
