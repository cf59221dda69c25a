-------------------------- MODULE ReplicatedTable --------------------------
(***************************************************************************)
(* What replicating a table promises its producer, whoever performs it.    *)
(* The source commits versions of its rows, each newer than the ones the   *)
(* row had.  The replica takes versions in that order, leaving out what it *)
(* likes, and a row counts as delivered only while the replica has its     *)
(* newest payload, or refuses it.  What is delivered stays delivered until *)
(* the source commits again, and is not touched until then.                *)
(***************************************************************************)
EXTENDS Integers

CONSTANTS
    Keys,     \* the rows of the table
    NoVal,    \* the payload of an absent row
    Refused   \* <<key, payload>> pairs the replica does not take

VARIABLES
    history,   \* every version [key, val, run, wm] the source has committed
    replica,   \* the payload and run of each row at the replica
    delivered  \* the rows that count as delivered

table == <<history, replica, delivered>>

Init ==
    /\ history = {}
    /\ replica = [k \in Keys |-> [val |-> NoVal, run |-> 0]]
    /\ delivered = {}

Commit ==
    LET new == history' \ history IN
    /\ history \subseteq history' /\ new # {}
    /\ \A v, w \in new : v.key = w.key => v = w
    /\ \A v \in history, w \in new : v.key = w.key => v.wm < w.wm
    /\ delivered' = delivered \ {w.key : w \in new}
    /\ UNCHANGED replica

(* Newer than the version the replica has of the row. *)
Newer(w) ==
    replica[w.key].val # NoVal =>
      \A v \in history : v.key = w.key /\ v.run = replica[w.key].run => v.wm < w.wm

Takes(k, w) ==
    /\ w.key = k /\ Newer(w)
    /\ replica'[k] = [val |-> w.val, run |-> w.run]

Install ==
    /\ replica' = [k \in Keys |-> replica'[k]]
    /\ \A k \in Keys : replica'[k] = replica[k] \/ \E w \in history : Takes(k, w)
    /\ \A k \in delivered : replica'[k] = replica[k]
    /\ UNCHANGED <<history, delivered>>

Newest(w) == \A v \in history : v.key = w.key => v.wm <= w.wm

Confirm ==
    /\ delivered \subseteq delivered' /\ delivered' \subseteq Keys
    /\ \A k \in delivered' \ delivered : \E w \in history :
         /\ w.key = k /\ Newest(w)
         /\ replica[k].val = w.val \/ <<k, w.val>> \in Refused
    /\ UNCHANGED <<history, replica>>

Next == Commit \/ Install \/ Confirm

Spec == Init /\ [][Next]_table
=============================================================================
