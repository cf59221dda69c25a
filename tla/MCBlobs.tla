------------------------------- MODULE MCBlobs -------------------------------
(* Instances of Blobs: two users and one content; the shadow's store keeps   *)
(* attributes, the primary's does not.                                       *)
EXTENDS Blobs

CONSTANTS png, html, u1, u2, s1

McPrefixOf == [t \in {png, html} |-> IF t = png THEN "images" ELSE "html"]

Req(m, site, who, t) == [mode |-> m, site |-> site, who |-> who, sha |-> s1, type |-> t]
McRequests ==
    {Req("shared", "primary", u1, png), Req("shared", "primary", u2, html),
     Req("private", "primary", u1, png), Req("private", "primary", u2, html),
     Req("private", "shadow", u1, png)}

(* Either both uploads and a shadow on its own, or one upload and a shadow    *)
(* that forwards its reads.                                                  *)
McLoads == {[uploads |-> Uploads, federate |-> FALSE]}
           \cup {[uploads |-> {u}, federate |-> TRUE] : u \in {CHOOSE u \in Uploads : TRUE}}

(* Paths: a shared key and a private one, each written plainly and otherwise, *)
(* a result, and a listing that one key fills.                               *)
McBlobPaths ==
    [key : {CasKey(png, s1), tenant_key(u1, s1)}, plain : BOOLEAN]
    \cup {[key |-> RetrievalKey("x1"), plain |-> TRUE]}
McListPaths == {[limit |-> 1]}
=============================================================================
