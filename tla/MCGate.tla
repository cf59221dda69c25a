------------------------------- MODULE MCGate -------------------------------
(* Instances of Gate: one client with a lum.id token; another with the same  *)
(* token, with one that only a WebSocket reads (the gate takes it for        *)
(* anonymous), with a malformed one, all from one address.                   *)
EXTENDS Gate

CONSTANTS r1, r2, pat, bad, addr

Hdr(a, b, p) == [apiKey |-> a, bearer |-> b, proto |-> p, ip |-> addr]
McHeaders ==
    [r \in {r1, r2} |->
       IF r = r1 THEN {Hdr(None, pat, None)}
       ELSE {Hdr(pat, None, None), Hdr(None, None, pat), Hdr(bad, None, None)}]
=============================================================================
