-------------------------- MODULE SyncPlaneProofs --------------------------
(***************************************************************************)
(* Safety of the push plane for every table, batch size, number of pushes, *)
(* requests, retries and failures.                                         *)
(*                                                                         *)
(* The inductive invariant says what each stage of the protocol owes the   *)
(* next: who owns a request slot, what a page promises about the rows it   *)
(* covers, what a request has already done at each of its steps.           *)
(***************************************************************************)
EXTENDS SyncPlane, FiniteSetTheorems, TLAPS

(* A version is ledgered: its payload was applied under its run. *)
LedgeredAs(k, val, run) == \E b \in ledger : /\ b.run = run
                                             /\ b.rows[k] = val
                                             /\ val # NoVal
(* Every source row up to position q is ledgered, or was overtaken. *)
Covered(q) == \A k \in Keys :
    AtOrBefore(k, q) => LedgeredAs(k, src[k].val, src[k].run) \/ Overtaken(k)

(* A saved or held cursor: covered, and not ahead of the clock. *)
GoodCursor(q) == Covered(q) /\ q.wm <= clock

(* A page in progress: a row up to its end was already covered by the      *)
(* cursor it was read from, or is in the page unchanged, or was committed  *)
(* late; and the rows of the groups that are done are ledgered.            *)
OwesPage(st) ==
    /\ st.last.wm <= clock
    /\ \A k \in Keys :
         AtOrBefore(k, st.last) =>
            AtOrBefore(k, st.cur) \/ st.page[k] = src[k] \/ Overtaken(k)
    /\ \A k \in PageKeys(st.page) :
         st.page[k].run \notin st.todo =>
            LedgeredAs(k, st.page[k].val, st.page[k].run)

(* The requests of a push carry groups of its page. *)
OwnsRequests(st) ==
    /\ st.pc # "wait" => st.slot = {}
    /\ \A s \in st.slot : /\ req[s].pc # "idle"
                          /\ \E r \in Nat : req[s].batch = BatchOf(st.page, r)

GoodPush(st) ==
    /\ st.pc # "idle" => GoodCursor(st.cur)
    /\ st.pc \in {"post", "wait"} => OwesPage(st)
    /\ OwnsRequests(st)

(* No two rows of the table share a position. *)
UniquePlaces ==
    \A j, k \in Keys : Present(j) /\ Present(k) /\ Pos(src[j]) = Pos(src[k]) => j = k

(* The clock, and every row, carries the stamp of some commit. *)
Stamped == /\ clock = 0 \/ clock \in Stamps
           /\ \A k \in Keys : Present(k) => src[k].wm \in Stamps

SlotsDisjoint == \A p, q \in Pushers : p # q => push[p].slot \cap push[q].slot = {}
AckIsDurable == \A s \in Slots : req[s].pc = "ack" => req[s].batch \in ledger

CursorInv ==
    /\ TypeOK
    /\ \A k \in Keys : src[k].wm <= clock
    /\ Stamped
    /\ UniquePlaces
    /\ GoodCursor(cursor)
    /\ \A p \in Pushers : GoodPush(push[p])
    /\ SlotsDisjoint
    /\ AckIsDurable
-----------------------------------------------------------------------------
(* Subsets of the finite key set have a natural number of elements. *)
LEMMA CardNat == ASSUME NEW S \in SUBSET Keys PROVE Cardinality(S) \in Nat
  BY SyncConstants, FS_Subset, FS_CardinalityType

(* A group of a well-typed page is a well-typed batch. *)
LEMMA BatchOfType ==
    ASSUME NEW page \in [Keys -> Rows], NEW r \in Nat
    PROVE  BatchOf(page, r) \in Batches
  <1>1. \A k \in Keys : Cardinality({j \in Group(page, r) :
                            Before(Pos(page[j]), Pos(page[k]))}) \in Nat
    BY CardNat DEF Group, PageKeys
  <1>2. \A k \in Keys : page[k].val \in Vals \cup {NoVal}
    BY DEF Rows
  <1>. QED BY <1>1, <1>2 DEF BatchOf, Batches

(* The position of a row is a position. *)
LEMMA PosType == ASSUME NEW row \in Rows PROVE Pos(row) \in Positions
  BY DEF Pos, Rows, Positions

(* The initial state is well typed. *)
LEMMA TypeInit == Init => TypeOK
  BY SyncConstants DEF Init, TypeOK, Rows, NoRow, Positions, Start, PushStates,
     ReqStates, IdlePush, IdleReq, NoBatch, Batches

(* What a push becomes when it has started, read a page, sent a group,     *)
(* finished one of several or failed to, is well typed.                    *)
LEMMA PushTurns ==
    ASSUME NEW st \in PushStates, NEW page \in [Keys -> Rows], NEW last \in Positions,
           NEW todo \in SUBSET Nat, NEW slot \in SUBSET Slots, NEW n \in Nat
    PROVE  /\ [st EXCEPT !.pc = "read", !.cur = last] \in PushStates
           /\ [st EXCEPT !.pc = "post", !.page = page, !.last = last, !.todo = todo,
                         !.att = 0] \in PushStates
           /\ [st EXCEPT !.pc = "wait", !.att = n, !.slot = slot] \in PushStates
           /\ [st EXCEPT !.pc = "post", !.todo = todo, !.att = 0, !.slot = {}] \in PushStates
           /\ [st EXCEPT !.pc = "post", !.slot = {}] \in PushStates
  BY Zenon DEF PushStates

(* Every step keeps every variable well typed. *)
LEMMA TypeStep == TypeOK /\ [Next]_vars => TypeOK'
  <2>. SUFFICES ASSUME TypeOK, [Next]_vars PROVE TypeOK'
    OBVIOUS
  <2>. USE DEF TypeOK
  <2>i. IdlePush \in PushStates /\ IdleReq \in ReqStates
    BY SyncConstants DEF IdlePush, IdleReq, PushStates, ReqStates, NoRow, Rows,
       NoBatch, Batches, Positions, Start
  <2>p. \A p \in Pushers : push[p] \in PushStates
    OBVIOUS
  <2>b. \A p \in Pushers : \A state \in PushStates :
          Becomes(p, state) => push' \in [Pushers -> PushStates]
    BY DEF Becomes
  <2>1. ASSUME NEW K \in SUBSET Keys, NEW new \in [K -> Vals], NEW r \in Runs,
               NEW stamp \in 1 .. (clock + Lag), SourceWrite(new, r, stamp)
        PROVE  TypeOK'
    <3>. PICK at \in Placements(Changed(new)) : src' = Merged(new, r, stamp, at)
      BY <2>1 DEF SourceWrite
    <3>0. Changed(new) \in SUBSET Keys /\ Changed(new) \subseteq K
      BY DEF Changed
    <3>c. Cardinality(Changed(new)) \in Nat
      BY <3>0, CardNat
    <3>1. \A k \in Changed(new) : k \in K /\ k \in Keys /\ at[k] \in Nat
      BY <3>0, <3>c DEF Placements
    <3>2. r \in Nat /\ stamp \in Nat /\ Lag \in Nat
      BY SyncConstants
    <3>3. src' \in [Keys -> Rows]
      BY <3>1, <3>2 DEF Merged, Rows
    <3>4. \A k \in Changed(new) : src'[k] = [val |-> new[k], run |-> r, wm |-> stamp, tid |-> at[k]]
      BY <3>1 DEF Merged
    <3>5. \A k \in Changed(new) : Version(k, src'[k]) \in Versions
      <4>. TAKE k \in Changed(new)
      <4>1. new[k] \in Vals /\ k \in Keys
        BY <3>1
      <4>2. src'[k] = [val |-> new[k], run |-> r, wm |-> stamp, tid |-> at[k]]
        BY <3>4
      <4>. QED BY <4>1, <4>2, <3>2 DEF Version, Versions
    <3>6. log' \subseteq Versions
      BY <2>1, <3>5 DEF SourceWrite
    <3>7. clock' \in Nat /\ late' \subseteq Nat
      BY <2>1, <3>2 DEF SourceWrite
    <3>. QED BY <2>1, <3>3, <3>6, <3>7 DEF SourceWrite, tgtVars
  <2>2. ASSUME NEW p \in Pushers, StartPush(p) PROVE TypeOK'
    <3>1. [push[p] EXCEPT !.pc = "read", !.cur = cursor] \in PushStates
      BY <2>p, PushTurns
    <3>. QED BY <2>2, <3>1, <2>b DEF StartPush, srcVars, tgtVars
  <2>3. ASSUME NEW p \in Pushers, ReadPage(p) PROVE TypeOK'
    <3>. PICK K \in SUBSET Keys, m \in Keys :
           /\ m \in K
           /\ Becomes(p, [push[p] EXCEPT !.pc = "post", !.page = Snapshot(K),
                                         !.last = Pos(src[m]),
                                         !.todo = {src[k].run : k \in K},
                                         !.att = 0])
      BY <2>3 DEF ReadPage
    <3>1. Pos(src[m]) \in Positions
      BY PosType
    <3>2. \A k \in K : src[k].run \in Nat
      BY DEF Rows
    <3>t. {src[k].run : k \in K} \in SUBSET Nat
      BY <3>2
    <3>3. Snapshot(K) \in [Keys -> Rows]
      BY DEF Snapshot, Rows, NoRow
    <3>4. [push[p] EXCEPT !.pc = "post", !.page = Snapshot(K), !.last = Pos(src[m]),
                          !.todo = {src[k].run : k \in K}, !.att = 0] \in PushStates
      BY <2>p, <3>1, <3>t, <3>3, PushTurns
    <3>. QED BY <2>3, <3>4, <2>b DEF ReadPage, srcVars, tgtVars
  <2>4. ASSUME NEW p \in Pushers, Drained(p) PROVE TypeOK'
    BY <2>4, <2>i, <2>b DEF Drained, srcVars, tgtVars
  <2>5. ASSUME NEW p \in Pushers, NEW s \in Slots, Send(p, s) PROVE TypeOK'
    <3>. PICK r \in push[p].todo :
           req' = [req EXCEPT ![s] = [pc |-> "lookup", batch |-> BatchOf(push[p].page, r)]]
      BY <2>5 DEF Send
    <3>1. BatchOf(push[p].page, r) \in Batches
      BY BatchOfType DEF PushStates
    <3>2. req' \in [Slots -> ReqStates]
      BY <3>1 DEF ReqStates
    <3>3. [push[p] EXCEPT !.pc = "wait", !.att = @ + 1, !.slot = {s}] \in PushStates
      <4>1. push[p].att + 1 \in Nat /\ {s} \in SUBSET Slots
        BY DEF PushStates
      <4>. QED BY <2>p, <4>1, PushTurns
    <3>. QED BY <2>5, <3>2, <3>3, <2>b DEF Send, srcVars, tgtVars
  <2>6. ASSUME NEW p \in Pushers, NEW s \in Slots, ReceiveAck(p, s) PROVE TypeOK'
    <3>1. req' \in [Slots -> ReqStates]
      BY <2>6, <2>i DEF ReceiveAck
    <3>2. push' \in [Pushers -> PushStates] /\ cursor' \in Positions
      <4>1. CASE push[p].todo \ {req[s].batch.run} # {}
        <5>1. [push[p] EXCEPT !.pc = "post", !.todo = push[p].todo \ {req[s].batch.run},
                              !.att = 0, !.slot = {}] \in PushStates
          <6>1. push[p].todo \ {req[s].batch.run} \in SUBSET Nat
            BY DEF PushStates
          <6>. QED BY <2>p, <6>1, PushTurns
        <5>. QED BY <2>6, <4>1, <5>1, <2>b DEF ReceiveAck
      <4>2. CASE push[p].todo \ {req[s].batch.run} = {}
        <5>1. /\ [IdlePush EXCEPT !.pc = "read", !.cur = push[p].last] \in PushStates
              /\ push[p].last \in Positions
          BY <2>i DEF PushStates
        <5>. QED BY <2>6, <4>2, <5>1, <2>b DEF ReceiveAck
      <4>. QED BY <4>1, <4>2
    <3>. QED BY <2>6, <3>1, <3>2 DEF ReceiveAck, srcVars, tgtVars
  <2>7. ASSUME NEW p \in Pushers, AttemptFailed(p)
        PROVE  push' \in [Pushers -> PushStates] /\ cursor' \in Positions
    <3>1. [push[p] EXCEPT !.pc = "post", !.slot = {}] \in PushStates
      BY <2>p, PushTurns
    <3>2. push[p].cur \in Positions
      BY <2>p DEF PushStates
    <3>. QED BY <2>7, <3>1, <3>2, <2>i, <2>b DEF AttemptFailed
  <2>8. ASSUME NEW p \in Pushers, NEW s \in Slots, ReceiveError(p, s) PROVE TypeOK'
    BY <2>8, <2>7, <2>i DEF ReceiveError, srcVars, tgtVars
  <2>9. ASSUME NEW p \in Pushers, NEW s \in Slots, Timeout(p, s) PROVE TypeOK'
    BY <2>9, <2>7, <2>i DEF Timeout, srcVars, tgtVars
  <2>10. ASSUME NEW p \in Pushers, PushDies(p) PROVE TypeOK'
    <3>1. push' \in [Pushers -> PushStates]
      BY <2>10, <2>i, <2>b DEF PushDies
    <3>2. req' \in [Slots -> ReqStates]
      BY <2>10, <2>i DEF PushDies
    <3>3. faults' \in Nat
      BY <2>10 DEF PushDies
    <3>4. UNCHANGED <<src, clock, log, late, cursor, tgt, tgtRuns, ledger>>
      BY <2>10 DEF PushDies, srcVars, tgtVars
    <3>. QED BY <3>1, <3>2, <3>3, <3>4
  <2>11. ASSUME NEW s \in Slots, Lookup(s) PROVE TypeOK'
    BY <2>11 DEF Lookup, srcVars, tgtVars, ReqStates
  <2>12. ASSUME NEW s \in Slots, Preamble(s) PROVE TypeOK'
    <3>1. req[s].batch.run \in Nat
      BY DEF ReqStates, Batches
    <3>2. tgtRuns' \subseteq Nat
      BY <2>12, <3>1 DEF Preamble
    <3>3. req' \in [Slots -> ReqStates]
      BY <2>12 DEF Preamble, ReqStates
    <3>. QED BY <2>12, <3>2, <3>3 DEF Preamble, srcVars
  <2>13. ASSUME NEW s \in Slots, Apply(s) PROVE TypeOK'
    <3>1. tgt' \in [Keys -> [val : Vals \cup {NoVal}, run : Nat]]
      BY <2>13 DEF Apply, ReqStates, Batches
    <3>2. req' \in [Slots -> ReqStates]
      BY <2>13 DEF Apply, ReqStates
    <3>. QED BY <2>13, <3>1, <3>2 DEF Apply, srcVars
  <2>14. ASSUME NEW s \in Slots, WriteLedger(s) PROVE TypeOK'
    BY <2>14 DEF WriteLedger, srcVars, ReqStates
  <2>15. ASSUME NEW s \in Slots, RequestFails(s) PROVE TypeOK'
    BY <2>15 DEF RequestFails, srcVars, tgtVars, ReqStates
  <2>16. ASSUME NEW s \in Slots, ReplyDropped(s) PROVE TypeOK'
    BY <2>16, <2>i DEF ReplyDropped, srcVars, tgtVars
  <2>17. CASE UNCHANGED vars
    BY <2>17 DEF vars
  <2>. QED BY <2>1, <2>2, <2>3, <2>4, <2>5, <2>6, <2>8, <2>9, <2>10, <2>11, <2>12,
              <2>13, <2>14, <2>15, <2>16, <2>17
           DEF Next, Writes, PushStep, InboxStep, Fault

(* Every variable keeps its type, for every value of the constants. *)
THEOREM TypeCorrect == Spec => []TypeOK
  BY TypeInit, TypeStep, PTL DEF Spec
-----------------------------------------------------------------------------
(* A commit is not stamped like any other; with Lag = 1 it is the newest. *)
LEMMA StampIsNew ==
    ASSUME TypeOK, Stamped, NEW K \in SUBSET Keys, NEW new \in [K -> Vals],
           NEW r \in Runs, NEW stamp \in 1 .. (clock + Lag),
           SourceWrite(new, r, stamp)
    PROVE  /\ stamp \in Nat /\ clock \in Nat /\ stamp # clock
           /\ stamp + Lag > clock /\ stamp \notin Stamps
           /\ Lag = 1 => stamp > clock
  BY SyncConstants DEF SourceWrite, TypeOK, Stamped

(* What a write does at or before a position that is not past the newest   *)
(* stamp: a row there is as it was, or the commit landed behind it.        *)
LEMMA WriteLands ==
    ASSUME TypeOK, Stamped, NEW K \in SUBSET Keys, NEW new \in [K -> Vals],
           NEW r \in Runs, NEW stamp \in 1 .. (clock + Lag),
           SourceWrite(new, r, stamp),
           NEW q \in Positions, q.wm <= clock,
           NEW k \in Keys, AtOrBefore(k, q)'
    PROVE  \/ src'[k] = src[k] /\ AtOrBefore(k, q)
           \/ src'[k].wm = stamp /\ stamp <= q.wm /\ stamp < clock
  <1>1. PICK at : src' = Merged(new, r, stamp, at)
    BY DEF SourceWrite
  <1>2. stamp \in Nat /\ clock \in Nat /\ stamp # clock
    BY StampIsNew
  <1>3. CASE k \in Changed(new)
    <2>1. src'[k].wm = stamp
      BY <1>1, <1>3 DEF Merged
    <2>2. ~(q.wm < src'[k].wm)
      BY DEF AtOrBefore, Before, Pos
    <2>. QED BY <1>2, <2>1, <2>2 DEF Positions
  <1>4. CASE k \notin Changed(new)
    <2>1. src'[k] = src[k]
      BY <1>1, <1>4 DEF Merged
    <2>. QED BY <2>1 DEF AtOrBefore, Present
  <1>. QED BY <1>3, <1>4

(* With commits in the order of their watermarks, a write leaves every row *)
(* at or before an old position as it was: its rows get a newer watermark. *)
LEMMA WriteIsAhead ==
    ASSUME Lag = 1, TypeOK, Stamped, NEW K \in SUBSET Keys, NEW new \in [K -> Vals],
           NEW r \in Runs, NEW stamp \in 1 .. (clock + Lag),
           SourceWrite(new, r, stamp),
           NEW q \in Positions, q.wm <= clock,
           NEW k \in Keys, AtOrBefore(k, q)'
    PROVE  src'[k] = src[k] /\ AtOrBefore(k, q)
  <1>1. stamp \in Nat /\ clock \in Nat /\ stamp > clock
    BY StampIsNew
  <1>. QED BY <1>1, WriteLands

(* A row overtaken stays so while it is not written again. *)
LEMMA OvertakenStays ==
    ASSUME NEW k, src'[k] = src[k], log \subseteq log', late \subseteq late', Overtaken(k)
    PROVE  Overtaken(k)'
  BY DEF Overtaken

(* A commit that lands behind a position some push has reached overtakes   *)
(* the rows it writes: the newest stamp is that of an earlier commit.      *)
LEMMA LandsOvertaken ==
    ASSUME TypeOK, Stamped, NEW K \in SUBSET Keys, NEW new \in [K -> Vals],
           NEW r \in Runs, NEW stamp \in 1 .. (clock + Lag),
           SourceWrite(new, r, stamp),
           NEW q \in Reached, stamp <= q.wm, stamp < clock,
           NEW k \in Keys, src'[k].wm = stamp
    PROVE  Overtaken(k)'
  <1>1. stamp \in Nat /\ clock \in Nat /\ stamp + Lag > clock /\ Lag \in Nat
    BY StampIsNew, SyncConstants
  <1>2. clock \in Stamps
    BY <1>1 DEF Stamped
  <1>3. PICK w \in log : w.wm = clock
    BY <1>2 DEF Stamps
  <1>4. w \in log' /\ stamp \in late'
    BY DEF SourceWrite, LandsBehind
  <1>. QED BY <1>1, <1>3, <1>4 DEF Overtaken

(* Commits that land in order overtake nothing. *)
LEMMA InOrder == ASSUME TypeOK, Lag = 1, NEW k \in Keys PROVE ~Overtaken(k)
  BY DEF TypeOK, Versions, Rows, Overtaken

(* Rows stay covered when neither the table changes nor the ledger loses a *)
(* batch.                                                                  *)
LEMMA CoveredStays ==
    ASSUME UNCHANGED <<src, log, late>>, ledger \subseteq ledger', NEW q, Covered(q)
    PROVE  Covered(q)'
  BY DEF Covered, AtOrBefore, Present, LedgeredAs, Overtaken

(* A ledgered group ledgers each of its rows. *)
LEMMA GroupLedgered ==
    ASSUME NEW page, NEW k \in PageKeys(page), BatchOf(page, page[k].run) \in ledger
    PROVE  LedgeredAs(k, page[k].val, page[k].run)
  <1>1. k \in Group(page, page[k].run)
    BY DEF Group
  <1>2. k \in Keys /\ page[k].val # NoVal
    BY DEF PageKeys
  <1>3. /\ BatchOf(page, page[k].run).rows[k] = page[k].val
        /\ BatchOf(page, page[k].run).run = page[k].run
    BY <1>1, <1>2 DEF BatchOf
  <1>. QED BY <1>2, <1>3 DEF LedgeredAs

(* What a finished page covers: with its last group ledgered, every row up *)
(* to the end of the page is.                                              *)
LEMMA PageCovered ==
    ASSUME NEW st, OwesPage(st), Covered(st.cur), NEW r,
           BatchOf(st.page, r) \in ledger, st.todo \subseteq {r}
    PROVE  Covered(st.last)
  <1>. SUFFICES ASSUME NEW k \in Keys, AtOrBefore(k, st.last)
                PROVE  LedgeredAs(k, src[k].val, src[k].run) \/ Overtaken(k)
    BY DEF Covered
  <1>1. CASE AtOrBefore(k, st.cur)
    BY <1>1 DEF Covered
  <1>2. CASE st.page[k] = src[k]
    <2>1. k \in PageKeys(st.page)
      BY <1>2 DEF PageKeys, AtOrBefore, Present
    <2>2. CASE st.page[k].run \notin st.todo
      BY <1>2, <2>1, <2>2 DEF OwesPage
    <2>3. CASE st.page[k].run = r
      BY <1>2, <2>1, <2>3, GroupLedgered
    <2>. QED BY <2>2, <2>3
  <1>. QED BY <1>1, <1>2 DEF OwesPage

(* A step of the target: requests of live pushes move on, the ledger grows. *)
LEMMA InboxKeeps ==
    ASSUME CursorInv, TypeOK', UNCHANGED <<src, clock, log, late, cursor, push>>,
           ledger \subseteq ledger', AckIsDurable',
           \A p \in Pushers : \A s \in push[p].slot :
              req'[s].pc # "idle" /\ req'[s].batch = req[s].batch
    PROVE  CursorInv'
  <1>1. GoodCursor(cursor)'
    BY CoveredStays DEF CursorInv, GoodCursor
  <1>2. ASSUME NEW p \in Pushers PROVE GoodPush(push[p])'
    <2>1. GoodPush(push[p])
      BY DEF CursorInv
    <2>2. push[p].pc # "idle" => GoodCursor(push[p].cur)'
      BY <2>1, CoveredStays DEF GoodPush, GoodCursor
    <2>3. OwesPage(push[p]) => OwesPage(push[p])'
      BY DEF OwesPage, AtOrBefore, Present, LedgeredAs, Overtaken
    <2>4. OwnsRequests(push[p])'
      BY <2>1 DEF GoodPush, OwnsRequests
    <2>. QED BY <2>1, <2>2, <2>3, <2>4 DEF GoodPush
  <1>3. UniquePlaces' /\ Stamped'
    BY DEF CursorInv, UniquePlaces, Stamped, Stamps, Present
  <1>. QED BY <1>1, <1>2, <1>3 DEF CursorInv, SlotsDisjoint

(* A step of push p to state st: the others and their requests are alone. *)
LEMMA PushKeeps ==
    ASSUME CursorInv, TypeOK', UNCHANGED <<src, clock, log, late, ledger>>,
           NEW p \in Pushers, NEW st, Becomes(p, st),
           GoodCursor(cursor'), GoodPush(st)', AckIsDurable',
           \A q \in Pushers : q # p =>
              /\ push[q].slot \cap st.slot = {}
              /\ \A s \in push[q].slot : req'[s] = req[s]
    PROVE  CursorInv'
  <1>1. push'[p] = st /\ \A q \in Pushers : q # p => push'[q] = push[q]
    BY DEF Becomes, CursorInv, TypeOK
  <1>2. ASSUME NEW q \in Pushers, q # p PROVE GoodPush(push[q])'
    <2>1. GoodPush(push[q])
      BY DEF CursorInv
    <2>2. push[q].pc # "idle" => GoodCursor(push[q].cur)'
      BY <1>1, <1>2, <2>1, CoveredStays DEF GoodPush, GoodCursor
    <2>3. OwesPage(push[q]) => OwesPage(push[q])'
      BY <1>1, <1>2 DEF OwesPage, AtOrBefore, Present, LedgeredAs, Overtaken
    <2>4. OwnsRequests(push[q])'
      BY <1>1, <1>2, <2>1 DEF GoodPush, OwnsRequests
    <2>. QED BY <1>1, <1>2, <2>1, <2>2, <2>3, <2>4 DEF GoodPush
  <1>3. GoodCursor(cursor)'
    BY DEF GoodCursor, Covered, AtOrBefore, Present, LedgeredAs, Overtaken
  <1>4. GoodPush(push[p])'
    BY <1>1
  <1>5. SlotsDisjoint'
    BY <1>1 DEF CursorInv, SlotsDisjoint
  <1>6. UniquePlaces' /\ Stamped'
    BY DEF CursorInv, UniquePlaces, Stamped, Stamps, Present
  <1>. QED BY <1>2, <1>3, <1>4, <1>5, <1>6 DEF CursorInv

(* A source write: every position held anywhere stays covered. *)
LEMMA WriteKeeps ==
    ASSUME CursorInv, TypeOK',
           NEW K \in SUBSET Keys, NEW new \in [K -> Vals], NEW r \in Runs,
           NEW stamp \in 1 .. (clock + Lag), SourceWrite(new, r, stamp)
    PROVE  CursorInv'
  <1>. USE DEF CursorInv
  <1>0. /\ UNCHANGED <<cursor, push, req, ledger>>
        /\ clock <= clock' /\ stamp <= clock'
        /\ log \subseteq log' /\ late \subseteq late'
    BY SyncConstants DEF SourceWrite, tgtVars, TypeOK
  <1>a. ASSUME NEW q \in Positions, q \in Reached, q.wm <= clock,
               NEW k \in Keys, AtOrBefore(k, q)'
        PROVE  (src'[k] = src[k] /\ AtOrBefore(k, q)) \/ Overtaken(k)'
    BY <1>a, WriteLands, LandsOvertaken
  <1>1. ASSUME NEW q \in Positions, q \in Reached, GoodCursor(q) PROVE GoodCursor(q)'
    <2>1. \A k \in Keys : AtOrBefore(k, q)' =>
             (src'[k] = src[k] /\ AtOrBefore(k, q)) \/ Overtaken(k)'
      BY <1>1, <1>a DEF GoodCursor
    <2>2. Covered(q)'
      BY <1>0, <1>1, <2>1, OvertakenStays DEF GoodCursor, Covered, LedgeredAs
    <2>. QED BY <1>0, <1>1, <2>2 DEF GoodCursor, Positions, TypeOK
  <1>2. \A k \in Keys : src'[k].wm <= clock'
    <2>1. PICK at : src' = Merged(new, r, stamp, at)
      BY DEF SourceWrite
    <2>2. \A k \in Keys : src'[k].wm = stamp \/ src'[k] = src[k]
      BY <2>1 DEF Merged
    <2>3. \A k \in Keys : src[k].wm \in Nat /\ src[k].wm <= clock
      BY DEF TypeOK, Rows
    <2>4. clock \in Nat /\ clock' \in Nat
      BY DEF TypeOK
    <2>. HIDE DEF CursorInv
    <2>. QED BY <1>0, <2>2, <2>3, <2>4
  <1>3. ASSUME NEW p \in Pushers PROVE GoodPush(push[p])'
    <2>1. /\ push[p].cur \in Positions /\ push[p].cur \in Reached
          /\ push[p].last \in Positions /\ push[p].last \in Reached
      BY DEF TypeOK, PushStates, Reached
    <2>2. push[p].pc # "idle" => GoodCursor(push[p].cur)'
      BY <1>0, <1>1, <2>1 DEF GoodPush
    <2>3. ASSUME OwesPage(push[p]) PROVE OwesPage(push[p])'
      <3>1. \A k \in Keys : AtOrBefore(k, push[p].last)' =>
              (src'[k] = src[k] /\ AtOrBefore(k, push[p].last)) \/ Overtaken(k)'
        BY <1>0, <1>a, <2>1, <2>3 DEF OwesPage
      <3>2. \A k \in Keys : src'[k] = src[k] /\ AtOrBefore(k, push[p].cur)
              => AtOrBefore(k, push[p].cur)'
        BY <1>0 DEF AtOrBefore, Present
      <3>3. push[p].last.wm <= clock'
        BY <1>0, <2>1, <2>3 DEF OwesPage, Positions, TypeOK
      <3>4. \A k \in Keys : src'[k] = src[k] /\ Overtaken(k) => Overtaken(k)'
        BY <1>0, OvertakenStays
      <3>. QED BY <1>0, <2>3, <3>1, <3>2, <3>3, <3>4 DEF OwesPage, LedgeredAs
    <2>4. OwnsRequests(push[p])'
      BY <1>0 DEF GoodPush, OwnsRequests
    <2>. QED BY <1>0, <2>2, <2>3, <2>4 DEF GoodPush
  <1>4. GoodCursor(cursor)'
    BY <1>0, <1>1 DEF TypeOK, Reached
  <1>6. Stamped'
    <2>1. PICK at \in Placements(Changed(new)) : src' = Merged(new, r, stamp, at)
      BY DEF SourceWrite
    <2>2. stamp \in Stamps'
      <3>1. PICK k \in Changed(new) : k \in Keys
        BY DEF SourceWrite, Changed
      <3>2. Version(k, src'[k]) \in log' /\ Version(k, src'[k]).wm = stamp
        BY <2>1, <3>1 DEF SourceWrite, Merged, Version
      <3>. QED BY <3>2 DEF Stamps
    <2>3. Stamps \subseteq Stamps'
      BY <1>0 DEF Stamps
    <2>4. clock' = 0 \/ clock' \in Stamps'
      BY <2>2, <2>3 DEF Stamped, SourceWrite
    <2>5. \A k \in Keys : src'[k].wm = stamp \/ src'[k] = src[k]
      BY <2>1 DEF Merged
    <2>. QED BY <2>2, <2>3, <2>4, <2>5 DEF Stamped, Present
  <1>5. UniquePlaces'
    <2>. SUFFICES ASSUME NEW j \in Keys, NEW k \in Keys, Present(j)', Present(k)',
                         Pos(src'[j]) = Pos(src'[k])
                  PROVE  j = k
      BY DEF UniquePlaces
    <2>1. PICK at \in Placements(Changed(new)) : src' = Merged(new, r, stamp, at)
      BY DEF SourceWrite
    <2>2. src'[j].wm = src'[k].wm /\ src'[j].tid = src'[k].tid
      BY DEF Pos
    <2>3. \A i \in Keys :
             \/ i \in Changed(new) /\ src'[i].wm = stamp /\ src'[i].tid = at[i]
             \/ i \notin Changed(new) /\ src'[i] = src[i]
      BY <2>1 DEF Merged
    <2>4. stamp \notin Stamps
      BY DEF SourceWrite
    <2>5. \A i \in Keys : Present(i) => src[i].wm # stamp
      BY <2>4 DEF Stamped
    <2>6. CASE j \in Changed(new) /\ k \in Changed(new)
      BY <2>2, <2>3, <2>6 DEF Placements
    <2>7. CASE j \notin Changed(new) /\ k \notin Changed(new)
      BY <2>3, <2>7 DEF UniquePlaces, Present
    <2>. QED BY <2>2, <2>3, <2>5, <2>6, <2>7 DEF Present
  <1>. QED BY <1>0, <1>2, <1>3, <1>4, <1>5, <1>6 DEF SlotsDisjoint, AckIsDurable

(* Reading a page: it takes every row past the held cursor up to its end. *)
LEMMA ReadPageKeeps ==
    ASSUME CursorInv, TypeOK', NEW p \in Pushers, ReadPage(p)
    PROVE  CursorInv'
  <1>0. PICK K \in SUBSET Keys, m \in Keys :
          /\ m \in K
          /\ IsPage(K, push[p].cur)
          /\ \A k \in K : ~Before(Pos(src[m]), Pos(src[k]))
          /\ Becomes(p, [push[p] EXCEPT !.pc = "post", !.page = Snapshot(K),
                                        !.last = Pos(src[m]),
                                        !.todo = {src[k].run : k \in K},
                                        !.att = 0])
    BY DEF ReadPage
  <1>s. PICK st : st = [push[p] EXCEPT !.pc = "post", !.page = Snapshot(K),
                                       !.last = Pos(src[m]),
                                       !.todo = {src[k].run : k \in K},
                                       !.att = 0]
    OBVIOUS
  <1>1. /\ push[p] \in PushStates /\ GoodPush(push[p])
        /\ push[p].pc = "read"
        /\ UNCHANGED <<src, clock, log, late, cursor, req, tgt, tgtRuns, ledger>>
    BY DEF ReadPage, CursorInv, TypeOK, srcVars, tgtVars
  <1>2. /\ st.pc = "post" /\ st.page = Snapshot(K) /\ st.last = Pos(src[m])
        /\ st.cur = push[p].cur /\ st.slot = push[p].slot
        /\ st.todo = {src[k].run : k \in K}
    BY <1>1, <1>s DEF PushStates
  <1>3. st.slot = {}
    BY <1>1, <1>2 DEF GoodPush, OwnsRequests
  <1>4. OwesPage(st)
    <2>1. st.last.wm <= clock
      BY <1>2 DEF CursorInv, Pos
    <2>2. ASSUME NEW k \in Keys, AtOrBefore(k, st.last), ~AtOrBefore(k, st.cur)
          PROVE  st.page[k] = src[k]
      <3>1. k \in After(push[p].cur)
        BY <1>2, <2>2 DEF After, AtOrBefore
      <3>2. CASE Before(Pos(src[k]), Pos(src[m]))
        BY <1>0, <1>2, <3>1, <3>2 DEF IsPage, Snapshot
      <3>3. CASE ~Before(Pos(src[k]), Pos(src[m]))
        <4>1. src[k] \in Rows /\ src[m] \in Rows
          BY DEF CursorInv, TypeOK
        <4>2. src[k].wm = src[m].wm /\ src[k].tid = src[m].tid
          BY <1>2, <2>2, <3>3, <4>1 DEF AtOrBefore, Before, Pos, Rows
        <4>3. Present(k) /\ Present(m) /\ Pos(src[k]) = Pos(src[m])
          BY <1>0, <3>1, <4>2 DEF IsPage, After, Pos
        <4>. QED BY <1>0, <1>2, <4>3 DEF CursorInv, UniquePlaces, Snapshot
      <3>. QED BY <3>2, <3>3
    <2>3. ASSUME NEW k \in PageKeys(st.page) PROVE st.page[k].run \in st.todo
      BY <1>2, <2>3 DEF PageKeys, Snapshot, NoRow
    <2>. QED BY <2>1, <2>2, <2>3 DEF OwesPage
  <1>5. GoodPush(st)'
    <2>1. GoodCursor(st.cur) /\ OwesPage(st)
      BY <1>1, <1>2, <1>4 DEF GoodPush
    <2>2. GoodCursor(st.cur)'
      BY <1>1, <2>1, CoveredStays DEF GoodCursor
    <2>3. OwesPage(st)'
      BY <1>1, <2>1 DEF OwesPage, AtOrBefore, Present, LedgeredAs, Overtaken
    <2>. QED BY <1>2, <1>3, <2>2, <2>3 DEF GoodPush, OwnsRequests
  <1>6. AckIsDurable'
    BY <1>1 DEF CursorInv, AckIsDurable
  <1>7. Becomes(p, st)
    BY <1>0, <1>s
  <1>. QED BY <1>1, <1>3, <1>5, <1>6, <1>7, PushKeeps DEF CursorInv

(* The first state of a push and the state it ends in owe nothing. *)
LEMMA IdleIsGood == GoodPush(IdlePush)'
  BY DEF GoodPush, IdlePush, OwnsRequests

(* Starting a push (it adopts the saved cursor) keeps the cursor invariant. *)
LEMMA StartKeeps ==
    ASSUME CursorInv, TypeOK', NEW p \in Pushers, StartPush(p) \/ Drained(p)
    PROVE  CursorInv'
  <1>1. /\ UNCHANGED <<src, clock, log, late, cursor, req, tgt, tgtRuns, ledger>>
        /\ push[p] \in PushStates /\ GoodPush(push[p]) /\ GoodCursor(cursor)
        /\ push[p].pc # "wait"
    BY DEF StartPush, Drained, CursorInv, TypeOK, srcVars, tgtVars
  <1>2. AckIsDurable'
    BY <1>1 DEF CursorInv, AckIsDurable
  <1>3. CASE StartPush(p)
    <2>1. PICK st : st = [push[p] EXCEPT !.pc = "read", !.cur = cursor]
      OBVIOUS
    <2>2. st.pc = "read" /\ st.cur = cursor /\ st.slot = {}
      BY <1>1, <2>1 DEF PushStates, GoodPush, OwnsRequests
    <2>3. Covered(st.cur)'
      BY <1>1, <2>2, CoveredStays DEF GoodCursor
    <2>4. GoodPush(st)'
      BY <1>1, <2>2, <2>3 DEF GoodPush, GoodCursor, OwnsRequests
    <2>. QED BY <1>1, <1>2, <1>3, <2>1, <2>2, <2>4, PushKeeps DEF StartPush
  <1>4. CASE Drained(p)
    <2>1. PICK st : st = IdlePush
      OBVIOUS
    <2>2. st.slot = {} /\ GoodPush(st)'
      BY <2>1, IdleIsGood DEF IdlePush
    <2>. QED BY <1>1, <1>2, <1>4, <2>1, <2>2, PushKeeps DEF Drained
  <1>. QED BY <1>3, <1>4

(* Sending takes a free slot and puts a group of the page in it. *)
LEMMA SendKeeps ==
    ASSUME CursorInv, TypeOK', NEW p \in Pushers, NEW s \in Slots, Send(p, s)
    PROVE  CursorInv'
  <1>1. /\ UNCHANGED <<src, clock, log, late, cursor, tgt, tgtRuns, ledger>>
        /\ push[p] \in PushStates /\ GoodPush(push[p]) /\ GoodCursor(cursor)
        /\ push[p].pc = "post" /\ req[s].pc = "idle"
    BY DEF Send, CursorInv, TypeOK, srcVars, tgtVars
  <1>2. PICK r \in push[p].todo :
          req' = [req EXCEPT ![s] = [pc |-> "lookup", batch |-> BatchOf(push[p].page, r)]]
    BY DEF Send
  <1>3. /\ req'[s].pc = "lookup" /\ req'[s].batch = BatchOf(push[p].page, r)
        /\ \A t \in Slots : t # s => req'[t] = req[t]
        /\ r \in Nat
    BY <1>1, <1>2 DEF CursorInv, TypeOK, PushStates
  <1>4. PICK st : st = [push[p] EXCEPT !.pc = "wait", !.att = @ + 1, !.slot = {s}]
    OBVIOUS
  <1>5. /\ st.pc = "wait" /\ st.slot = {s} /\ st.cur = push[p].cur
        /\ st.page = push[p].page /\ st.last = push[p].last /\ st.todo = push[p].todo
    BY <1>1, <1>4 DEF PushStates
  <1>6. AckIsDurable'
    BY <1>1, <1>3 DEF CursorInv, AckIsDurable
  <1>7. \A q \in Pushers : /\ s \notin push[q].slot
                           /\ push[q].slot \subseteq Slots
    BY <1>1 DEF CursorInv, GoodPush, OwnsRequests, TypeOK, PushStates
  <1>8. GoodPush(st)'
    <2>1. Covered(st.cur)'
      BY <1>1, <1>5, CoveredStays DEF GoodPush, GoodCursor
    <2>2. OwesPage(st)'
      BY <1>1, <1>5 DEF GoodPush, OwesPage, AtOrBefore, Present, LedgeredAs, Overtaken
    <2>3. OwnsRequests(st)'
      BY <1>3, <1>5 DEF OwnsRequests
    <2>. QED BY <1>1, <1>5, <2>1, <2>2, <2>3 DEF GoodPush, GoodCursor
  <1>9. Becomes(p, st)
    BY <1>4 DEF Send
  <1>. QED BY <1>1, <1>3, <1>5, <1>6, <1>7, <1>8, <1>9, PushKeeps

(* The requests of other pushes, when push p gives up its own. *)
LEMMA OthersKeepTheirs ==
    ASSUME CursorInv, NEW p \in Pushers,
           \A t \in Slots : t \notin push[p].slot => req'[t] = req[t]
    PROVE  \A q \in Pushers : q # p => \A t \in push[q].slot : req'[t] = req[t]
  BY DEF CursorInv, SlotsDisjoint, TypeOK, PushStates

(* An ACK: the group is in the ledger, and after the last group so is the  *)
(* whole page: the cursor may move to its end.                             *)
LEMMA AckKeeps ==
    ASSUME CursorInv, TypeOK', NEW p \in Pushers, NEW s \in Slots, ReceiveAck(p, s)
    PROVE  CursorInv'
  <1>1. /\ UNCHANGED <<src, clock, log, late, tgt, tgtRuns, ledger>>
        /\ push[p] \in PushStates /\ GoodPush(push[p]) /\ GoodCursor(cursor)
        /\ push[p].pc = "wait" /\ s \in push[p].slot /\ req[s].pc = "ack"
        /\ GoodCursor(push[p].cur) /\ OwesPage(push[p])
    BY DEF ReceiveAck, IsAck, CursorInv, TypeOK, srcVars, tgtVars, GoodPush
  <1>2. /\ req'[s].pc = "idle"
        /\ \A t \in Slots : t # s => req'[t] = req[t]
    BY DEF ReceiveAck, CursorInv, TypeOK, IdleReq
  <1>3. AckIsDurable'
    BY <1>1, <1>2 DEF CursorInv, AckIsDurable
  <1>4. \A q \in Pushers : q # p => \A t \in push[q].slot : req'[t] = req[t]
    BY <1>1, <1>2, OthersKeepTheirs
  <1>5. PICK r \in Nat : req[s].batch = BatchOf(push[p].page, r)
    BY <1>1 DEF GoodPush, OwnsRequests
  <1>6. BatchOf(push[p].page, r) \in ledger /\ req[s].batch.run = r
    BY <1>1, <1>5 DEF CursorInv, AckIsDurable, BatchOf
  <1>7. CASE push[p].todo \ {r} # {}
    <2>1. PICK st : st = [push[p] EXCEPT !.pc = "post", !.todo = push[p].todo \ {r},
                                         !.att = 0, !.slot = {}]
      OBVIOUS
    <2>2. /\ st.pc = "post" /\ st.slot = {} /\ st.cur = push[p].cur
          /\ st.page = push[p].page /\ st.last = push[p].last
          /\ st.todo = push[p].todo \ {r}
      BY <1>1, <2>1 DEF PushStates
    <2>3. OwesPage(st)
      BY <1>1, <1>6, <2>2, GroupLedgered DEF OwesPage
    <2>4. OwesPage(st)'
      BY <1>1, <2>3 DEF OwesPage, AtOrBefore, Present, LedgeredAs, Overtaken
    <2>5. Covered(st.cur)'
      BY <1>1, <2>2, CoveredStays DEF GoodCursor
    <2>6. GoodPush(st)'
      BY <1>1, <2>2, <2>4, <2>5 DEF GoodPush, GoodCursor, OwnsRequests
    <2>7. Becomes(p, st) /\ cursor' = cursor
      BY <1>6, <1>7, <2>1 DEF ReceiveAck
    <2>. QED BY <1>1, <1>3, <1>4, <2>2, <2>6, <2>7, PushKeeps
  <1>8. CASE push[p].todo \ {r} = {}
    <2>1. PICK st : st = [IdlePush EXCEPT !.pc = "read", !.cur = push[p].last]
      OBVIOUS
    <2>2. st.pc = "read" /\ st.slot = {} /\ st.cur = push[p].last
      BY <2>1 DEF IdlePush
    <2>3. GoodCursor(push[p].last)
      BY <1>1, <1>6, <1>8, PageCovered DEF GoodCursor, OwesPage
    <2>4. Covered(st.cur)'
      BY <1>1, <2>2, <2>3, CoveredStays DEF GoodCursor
    <2>5. GoodPush(st)'
      BY <1>1, <2>2, <2>3, <2>4 DEF GoodPush, GoodCursor, OwnsRequests
    <2>6. Becomes(p, st) /\ cursor' = push[p].last
      BY <1>6, <1>8, <2>1 DEF ReceiveAck
    <2>. QED BY <1>1, <1>3, <1>4, <2>2, <2>3, <2>5, <2>6, PushKeeps
  <1>. QED BY <1>7, <1>8

(* A failed attempt: the group is tried again, or the push saves the held  *)
(* cursor and ends.                                                        *)
LEMMA FailureKeeps ==
    ASSUME CursorInv, TypeOK', NEW p \in Pushers, push[p].pc = "wait",
           AttemptFailed(p), UNCHANGED <<src, clock, log, late, ledger>>, AckIsDurable',
           \A t \in Slots : t \notin push[p].slot => req'[t] = req[t]
    PROVE  CursorInv'
  <1>1. /\ push[p] \in PushStates /\ GoodPush(push[p]) /\ GoodCursor(cursor)
        /\ GoodCursor(push[p].cur) /\ OwesPage(push[p])
    BY DEF CursorInv, TypeOK, GoodPush
  <1>2. \A q \in Pushers : q # p => \A t \in push[q].slot : req'[t] = req[t]
    BY OthersKeepTheirs
  <1>3. CASE push[p].att < MaxAttempts
    <2>1. PICK st : st = [push[p] EXCEPT !.pc = "post", !.slot = {}]
      OBVIOUS
    <2>2. /\ st.pc = "post" /\ st.slot = {} /\ st.cur = push[p].cur
          /\ st.page = push[p].page /\ st.last = push[p].last /\ st.todo = push[p].todo
      BY <1>1, <2>1 DEF PushStates
    <2>3. OwesPage(st)'
      BY <1>1, <2>2 DEF OwesPage, AtOrBefore, Present, LedgeredAs, Overtaken
    <2>4. Covered(st.cur)'
      BY <1>1, <2>2, CoveredStays DEF GoodCursor
    <2>5. GoodPush(st)'
      BY <1>1, <2>2, <2>3, <2>4 DEF GoodPush, GoodCursor, OwnsRequests
    <2>6. Becomes(p, st) /\ cursor' = cursor
      BY <1>3, <2>1 DEF AttemptFailed
    <2>. QED BY <1>1, <1>2, <2>2, <2>5, <2>6, PushKeeps
  <1>4. CASE ~(push[p].att < MaxAttempts)
    <2>1. PICK st : st = IdlePush
      OBVIOUS
    <2>2. st.slot = {} /\ GoodPush(st)'
      BY <2>1, IdleIsGood DEF IdlePush
    <2>3. Becomes(p, st) /\ cursor' = push[p].cur
      BY <1>4, <2>1 DEF AttemptFailed
    <2>. QED BY <1>1, <1>2, <2>2, <2>3, PushKeeps
  <1>. QED BY <1>3, <1>4

(* A push that dies saves nothing, and so keeps the cursor invariant. *)
LEMMA DiesKeeps ==
    ASSUME CursorInv, TypeOK', NEW p \in Pushers, PushDies(p)
    PROVE  CursorInv'
  <1>1. /\ UNCHANGED <<src, clock, log, late, ledger, cursor>>
        /\ GoodCursor(cursor)
        /\ Becomes(p, IdlePush)
    BY DEF PushDies, srcVars, tgtVars, CursorInv
  <1>2. \A t \in Slots : req'[t] = req[t] \/ (t \in push[p].slot /\ req'[t] = IdleReq)
    <2>1. CASE Linger
      BY <2>1 DEF PushDies
    <2>2. CASE ~Linger
      BY <2>2 DEF PushDies
    <2>. QED BY <2>1, <2>2
  <1>3. AckIsDurable'
    BY <1>1, <1>2 DEF CursorInv, AckIsDurable, IdleReq
  <1>4. \A q \in Pushers : q # p => \A t \in push[q].slot : req'[t] = req[t]
    BY <1>2, OthersKeepTheirs
  <1>5. PICK st : st = IdlePush
    OBVIOUS
  <1>6. st.slot = {} /\ GoodPush(st)'
    BY <1>5, IdleIsGood DEF IdlePush
  <1>. QED BY <1>1, <1>3, <1>4, <1>5, <1>6, PushKeeps

(* One step of a request at the target. *)
LEMMA RequestKeeps ==
    ASSUME CursorInv, TypeOK', NEW s \in Slots,
           \/ Lookup(s) \/ Preamble(s) \/ Apply(s) \/ WriteLedger(s)
           \/ RequestFails(s) \/ ReplyDropped(s)
    PROVE  CursorInv'
  <1>1. UNCHANGED <<src, clock, log, late, cursor, push>> /\ ledger \subseteq ledger'
    BY DEF Lookup, Preamble, Apply, WriteLedger, RequestFails, ReplyDropped,
           srcVars, tgtVars
  <1>2. \A t \in Slots : t # s => req'[t] = req[t]
    BY DEF Lookup, Preamble, Apply, WriteLedger, RequestFails, ReplyDropped,
           CursorInv, TypeOK
  <1>3. CASE ReplyDropped(s)
    <2>1. req'[s] = IdleReq /\ \A p \in Pushers : s \notin push[p].slot
      BY <1>3 DEF ReplyDropped, CursorInv, TypeOK
    <2>2. AckIsDurable'
      BY <1>1, <1>2, <2>1 DEF CursorInv, AckIsDurable, IdleReq
    <2>3. ASSUME NEW p \in Pushers, NEW t \in push[p].slot
          PROVE  req'[t].pc # "idle" /\ req'[t].batch = req[t].batch
      <3>1. t \in Slots /\ t # s
        BY <2>1 DEF CursorInv, TypeOK, PushStates
      <3>2. req[t].pc # "idle"
        BY DEF CursorInv, GoodPush, OwnsRequests
      <3>. QED BY <1>2, <3>1, <3>2
    <2>. QED BY <1>1, <2>2, <2>3, InboxKeeps
  <1>4. CASE \/ Lookup(s) \/ Preamble(s) \/ Apply(s) \/ WriteLedger(s)
             \/ RequestFails(s)
    <2>1. /\ req[s] \in ReqStates
          /\ \E c \in {"ack", "prov", "apply", "nack", "ledger"} :
                req' = [req EXCEPT ![s].pc = c]
      BY <1>4 DEF Lookup, Preamble, Apply, WriteLedger, RequestFails, CursorInv, TypeOK
    <2>2. req'[s].batch = req[s].batch /\ req'[s].pc # "idle"
      BY <2>1 DEF CursorInv, TypeOK, ReqStates
    <2>3. req'[s].pc = "ack" => req'[s].batch \in ledger'
      <3>1. CASE Lookup(s)
        BY <1>1, <2>1, <2>2, <3>1 DEF Lookup, CursorInv, TypeOK, ReqStates
      <3>2. CASE WriteLedger(s)
        BY <2>2, <3>2 DEF WriteLedger
      <3>3. CASE Preamble(s) \/ Apply(s) \/ RequestFails(s)
        BY <2>1, <3>3 DEF Preamble, Apply, RequestFails, CursorInv, TypeOK, ReqStates
      <3>. QED BY <1>4, <3>1, <3>2, <3>3
    <2>4. AckIsDurable'
      BY <1>1, <1>2, <2>3 DEF CursorInv, AckIsDurable
    <2>5. \A p \in Pushers : \A t \in push[p].slot :
             req'[t].pc # "idle" /\ req'[t].batch = req[t].batch
      BY <1>2, <2>2 DEF CursorInv, GoodPush, OwnsRequests, TypeOK, PushStates
    <2>. QED BY <1>1, <2>4, <2>5, InboxKeeps
  <1>. QED BY <1>3, <1>4

(* Every step of run_push, the inbox or a writer keeps the cursor invariant. *)
LEMMA CursorStep ==
    ASSUME CursorInv, [Next]_vars
    PROVE  CursorInv'
  <1>0. TypeOK'
    BY TypeStep DEF CursorInv
  <1>1. ASSUME NEW K \in SUBSET Keys, NEW new \in [K -> Vals], NEW r \in Runs,
               NEW stamp \in 1 .. (clock + Lag), SourceWrite(new, r, stamp)
        PROVE  CursorInv'
    BY <1>0, <1>1, WriteKeeps
  <1>2. ASSUME NEW p \in Pushers, NEW s \in Slots, ReceiveError(p, s) \/ Timeout(p, s)
        PROVE  CursorInv'
    <2>1. /\ push[p].pc = "wait" /\ s \in push[p].slot /\ AttemptFailed(p)
          /\ UNCHANGED <<src, clock, log, late, ledger>>
      BY <1>2 DEF ReceiveError, Timeout, srcVars, tgtVars
    <2>2. \A t \in Slots : req'[t] = req[t] \/ (t = s /\ req'[t] = IdleReq)
      <3>1. CASE ReceiveError(p, s)
        BY <3>1 DEF ReceiveError, CursorInv, TypeOK
      <3>2. CASE Timeout(p, s) /\ Linger
        BY <3>2 DEF Timeout
      <3>3. CASE Timeout(p, s) /\ ~Linger
        BY <3>3 DEF Timeout, CursorInv, TypeOK
      <3>. QED BY <1>2, <3>1, <3>2, <3>3
    <2>3. AckIsDurable'
      BY <2>1, <2>2 DEF CursorInv, AckIsDurable, IdleReq
    <2>. QED BY <1>0, <2>1, <2>2, <2>3, FailureKeeps
  <1>3. CASE UNCHANGED vars
    BY <1>3 DEF vars, CursorInv, TypeOK, UniquePlaces, Stamped, Stamps, Overtaken, GoodCursor, Covered, AtOrBefore,
       Present, LedgeredAs, GoodPush, OwesPage, OwnsRequests, SlotsDisjoint, AckIsDurable
  <1>. QED BY <1>0, <1>1, <1>2, <1>3, StartKeeps, ReadPageKeeps, SendKeeps, AckKeeps,
              DiesKeeps, RequestKeeps
           DEF Next, Writes, PushStep, InboxStep, Fault

(* The cursor invariant holds always. *)
LEMMA CursorInvariant == Spec => []CursorInv
<1>1. Init => CursorInv
  <2>. SUFFICES ASSUME Init PROVE CursorInv
    OBVIOUS
  <2>1. TypeOK
    BY TypeInit
  <2>2. \A k \in Keys : ~Present(k) /\ src[k].wm = 0
    BY DEF Init, NoRow, Present
  <2>3. GoodCursor(cursor)
    BY <2>2 DEF GoodCursor, Covered, AtOrBefore, Init, Start
  <2>4. \A p \in Pushers : GoodPush(push[p]) /\ push[p].slot = {}
    BY DEF Init, IdlePush, GoodPush, OwnsRequests
  <2>5. AckIsDurable
    BY DEF Init, AckIsDurable, IdleReq
  <2>7. Stamped
    BY <2>2 DEF Init, Stamped
  <2>6. \A k \in Keys : src[k].wm <= clock
    BY <2>2 DEF Init
  <2>. QED BY <2>1, <2>2, <2>3, <2>4, <2>5, <2>6, <2>7 DEF CursorInv, SlotsDisjoint, UniquePlaces
<1>2. CursorInv /\ [Next]_vars => CursorInv'
  BY CursorStep
<1>. QED BY <1>1, <1>2, PTL DEF Spec

(* No row at or before the saved cursor is missing from the ledger: the    *)
(* push cursor advances only on durable ACKs, under every interleaving of  *)
(* overlapping pushes, retries, late requests, timeouts and crashes.  The  *)
(* only rows it can leave behind are those of a commit that was overtaken: *)
(* stamped before a commit that a push read ahead of it.                   *)
THEOREM CursorIsSafe == Spec => []PastCursorIsLedgered
<1>1. CursorInv => PastCursorIsLedgered
  BY DEF CursorInv, GoodCursor, Covered, LedgeredAs, PastCursorIsLedgered, Ships, BatchKeys
<1>. QED BY <1>1, CursorInvariant, PTL

(* When commits land in the order of their watermarks there is no such     *)
(* exception: run_push leaves no row behind the saved cursor.              *)
THEOREM InOrderNothingIsMissed ==
    ASSUME Lag = 1
    PROVE  Spec => [](\A k \in Keys : AtOrBefore(k, cursor) => \E b \in ledger : Ships(b, k))
<1>1. TypeOK /\ PastCursorIsLedgered =>
        \A k \in Keys : AtOrBefore(k, cursor) => \E b \in ledger : Ships(b, k)
  BY InOrder DEF PastCursorIsLedgered
<1>. QED BY <1>1, TypeCorrect, CursorIsSafe, PTL
-----------------------------------------------------------------------------
(* The target's side.  Every copy of a row in flight (page, request) is a  *)
(* version the source had, and a request has done what its step implies.   *)
WasVersion(k, val, run) == \E w \in log : w.key = k /\ w.val = val /\ w.run = run
TrueRows == \A k \in Keys : Present(k) => WasVersion(k, src[k].val, src[k].run)
TruePage(page) == \A k \in PageKeys(page) : WasVersion(k, page[k].val, page[k].run)
TrueBatch(b) == \A k \in BatchKeys(b) : WasVersion(k, b.rows[k], b.run)
Backed(b) == /\ b.run \in tgtRuns
             /\ Accepted(b) # {}
             /\ \A k \in Accepted(b) : tgt[k].val # NoVal
GoodRequest(q) ==
    /\ TrueBatch(q.batch)
    /\ q.pc \in {"apply", "ledger"} => q.batch.run \in tgtRuns
    /\ q.pc = "ledger" => Backed(q.batch)

TargetInv ==
    /\ TypeOK
    /\ TrueRows
    /\ \A p \in Pushers : TruePage(push[p].page)
    /\ \A s \in Slots : GoodRequest(req[s])
    /\ LedgerIsBacked
    /\ TargetRowIsAVersion

(* A step that does not touch the target, and forgets no version. *)
LEMMA TargetUntouched ==
    ASSUME TargetInv, TypeOK', UNCHANGED tgtVars, log \subseteq log', TrueRows',
           \A p \in Pushers : TruePage(push[p].page)',
           \A s \in Slots : req'[s] = req[s] \/ GoodRequest(req[s])'
    PROVE  TargetInv'
  <1>1. ASSUME NEW s \in Slots PROVE GoodRequest(req[s])'
    <2>1. CASE req'[s] = req[s]
      <3>1. GoodRequest(req[s])
        BY DEF TargetInv
      <3>2. TrueBatch(req[s].batch)'
        BY <2>1, <3>1 DEF GoodRequest, TrueBatch, WasVersion
      <3>3. Backed(req[s].batch) => Backed(req[s].batch)'
        BY <2>1 DEF Backed, tgtVars
      <3>. QED BY <2>1, <3>1, <3>2, <3>3 DEF GoodRequest, tgtVars
    <2>. QED BY <2>1
  <1>2. LedgerIsBacked' /\ TargetRowIsAVersion'
    BY DEF TargetInv, LedgerIsBacked, TargetRowIsAVersion, tgtVars
  <1>. QED BY <1>1, <1>2 DEF TargetInv

(* The idle request and the idle page claim nothing of the target. *)
LEMMA IdleIsTrue == GoodRequest(IdleReq)' /\ TruePage(IdlePush.page)'
  BY DEF GoodRequest, IdleReq, NoBatch, TrueBatch, BatchKeys, TruePage, IdlePush,
         PageKeys, NoRow

(* Every step keeps the invariant behind LedgerIsBacked and TargetRowIsAVersion. *)
LEMMA TargetStep ==
    ASSUME TargetInv, [Next]_vars
    PROVE  TargetInv'
  <1>0. TypeOK'
    BY TypeStep DEF TargetInv
  <1>p. ASSUME UNCHANGED <<src, log, tgt, tgtRuns, ledger>>,
               NEW p \in Pushers, NEW st, Becomes(p, st),
               st.page \in {push[p].page, IdlePush.page},
               \A s \in Slots : req'[s] = req[s] \/ req'[s] = IdleReq
        PROVE  TargetInv'
    <2>1. TrueRows'
      BY <1>p DEF TargetInv, TrueRows, Present, WasVersion
    <2>2. \A q \in Pushers : push'[q].page \in {push[q].page, IdlePush.page}
      BY <1>p DEF Becomes, TargetInv, TypeOK
    <2>3. \A q \in Pushers : TruePage(push[q].page)'
      BY <1>p, <2>2, IdleIsTrue DEF TargetInv, TruePage, WasVersion
    <2>. QED BY <1>0, <1>p, <2>1, <2>3, IdleIsTrue, TargetUntouched DEF tgtVars
  <1>1. ASSUME NEW K \in SUBSET Keys, NEW new \in [K -> Vals], NEW r \in Runs,
               NEW stamp \in 1 .. (clock + Lag), SourceWrite(new, r, stamp)
        PROVE  TargetInv'
    <2>1. PICK at : src' = Merged(new, r, stamp, at)
      BY <1>1 DEF SourceWrite
    <2>2. /\ UNCHANGED <<tgtVars, push, req>>
          /\ log' = log \cup {Version(k, src'[k]) : k \in Changed(new)}
      BY <1>1 DEF SourceWrite
    <2>3. ASSUME NEW k \in Keys, Present(k)' PROVE WasVersion(k, src[k].val, src[k].run)'
      <3>1. CASE k \in Changed(new)
        <4>1. Version(k, src'[k]) \in log'
          BY <2>2, <3>1
        <4>. QED BY <4>1 DEF WasVersion, Version
      <3>2. CASE k \notin Changed(new)
        <4>1. src'[k] = src[k]
          BY <2>1, <3>2 DEF Merged
        <4>. QED BY <2>2, <2>3, <4>1 DEF TargetInv, TrueRows, Present, WasVersion
      <3>. QED BY <3>1, <3>2
    <2>4. TrueRows'
      BY <2>3 DEF TrueRows
    <2>5. \A p \in Pushers : TruePage(push[p].page)'
      BY <2>2 DEF TargetInv, TruePage, WasVersion
    <2>. QED BY <1>0, <2>2, <2>4, <2>5, TargetUntouched
  <1>2. ASSUME NEW p \in Pushers, StartPush(p) PROVE TargetInv'
    <2>1. PICK st : st = [push[p] EXCEPT !.pc = "read", !.cur = cursor]
      OBVIOUS
    <2>2. st.page = push[p].page
      BY <2>1 DEF TargetInv, TypeOK, PushStates
    <2>. QED BY <1>2, <1>p, <2>1, <2>2 DEF StartPush, srcVars, tgtVars
  <1>3. ASSUME NEW p \in Pushers, ReadPage(p) PROVE TargetInv'
    <2>1. PICK st : (\E K \in SUBSET Keys : st.page = Snapshot(K)) /\ Becomes(p, st)
      <3>1. PICK K \in SUBSET Keys, m \in Keys :
              Becomes(p, [push[p] EXCEPT !.pc = "post", !.page = Snapshot(K),
                                         !.last = Pos(src[m]),
                                         !.todo = {src[k].run : k \in K},
                                         !.att = 0])
        BY <1>3 DEF ReadPage
      <3>2. PICK st : st = [push[p] EXCEPT !.pc = "post", !.page = Snapshot(K),
                                           !.last = Pos(src[m]),
                                           !.todo = {src[k].run : k \in K},
                                           !.att = 0]
        OBVIOUS
      <3>3. st.page = Snapshot(K)
        BY <3>2 DEF TargetInv, TypeOK, PushStates
      <3>. QED BY <3>1, <3>2, <3>3
    <2>2. UNCHANGED <<src, log, tgt, tgtRuns, ledger, req>>
      BY <1>3 DEF ReadPage, srcVars, tgtVars
    <2>3. TrueRows'
      BY <2>2 DEF TargetInv, TrueRows, Present, WasVersion
    <2>4. push'[p] = st /\ \A q \in Pushers : q # p => push'[q] = push[q]
      BY <2>1 DEF Becomes, TargetInv, TypeOK
    <2>5. TruePage(st.page)'
      BY <2>1, <2>2 DEF TruePage, PageKeys, Snapshot, NoRow, TargetInv, TrueRows,
         Present, WasVersion
    <2>6. \A q \in Pushers : TruePage(push[q].page)'
      BY <2>2, <2>4, <2>5 DEF TargetInv, TruePage, WasVersion
    <2>. QED BY <1>0, <2>2, <2>3, <2>6, TargetUntouched DEF tgtVars
  <1>4. ASSUME NEW p \in Pushers, Drained(p) PROVE TargetInv'
    <2>1. PICK st : st = IdlePush
      OBVIOUS
    <2>. QED BY <1>4, <1>p, <2>1 DEF Drained, srcVars, tgtVars
  <1>5. ASSUME NEW p \in Pushers, NEW s \in Slots, Send(p, s) PROVE TargetInv'
    <2>1. PICK r \in push[p].todo :
            req' = [req EXCEPT ![s] = [pc |-> "lookup", batch |-> BatchOf(push[p].page, r)]]
      BY <1>5 DEF Send
    <2>2. /\ UNCHANGED <<src, log, tgt, tgtRuns, ledger>>
          /\ Becomes(p, [push[p] EXCEPT !.pc = "wait", !.att = @ + 1, !.slot = {s}])
      BY <1>5 DEF Send, srcVars, tgtVars
    <2>3. TrueRows'
      BY <2>2 DEF TargetInv, TrueRows, Present, WasVersion
    <2>4. \A q \in Pushers : push'[q].page = push[q].page
      BY <2>2 DEF Becomes, TargetInv, TypeOK, PushStates
    <2>5. \A q \in Pushers : TruePage(push[q].page)'
      BY <2>2, <2>4 DEF TargetInv, TruePage, WasVersion
    <2>6. /\ req'[s].pc = "lookup" /\ req'[s].batch = BatchOf(push[p].page, r)
          /\ \A t \in Slots : t # s => req'[t] = req[t]
      BY <2>1 DEF TargetInv, TypeOK
    <2>7. TrueBatch(BatchOf(push[p].page, r))
      BY DEF TargetInv, TruePage, TrueBatch, BatchKeys, BatchOf, Group, PageKeys
    <2>8. TrueBatch(req[s].batch)'
      BY <2>2, <2>6, <2>7 DEF TrueBatch, WasVersion
    <2>9. GoodRequest(req[s])'
      BY <2>6, <2>8 DEF GoodRequest
    <2>. QED BY <1>0, <2>2, <2>3, <2>5, <2>6, <2>9, TargetUntouched DEF tgtVars
  <1>6. ASSUME NEW p \in Pushers, NEW s \in Slots, ReceiveAck(p, s) PROVE TargetInv'
    <2>1. /\ UNCHANGED <<src, log, tgt, tgtRuns, ledger>>
          /\ req' = [req EXCEPT ![s] = IdleReq]
      BY <1>6 DEF ReceiveAck, srcVars, tgtVars
    <2>2. \A t \in Slots : req'[t] = req[t] \/ req'[t] = IdleReq
      BY <2>1 DEF TargetInv, TypeOK
    <2>3. CASE push[p].todo \ {req[s].batch.run} # {}
      <3>1. PICK st : st = [push[p] EXCEPT !.pc = "post",
                                           !.todo = push[p].todo \ {req[s].batch.run},
                                           !.att = 0, !.slot = {}]
        OBVIOUS
      <3>2. st.page = push[p].page
        BY <3>1 DEF TargetInv, TypeOK, PushStates
      <3>. QED BY <1>6, <1>p, <2>1, <2>2, <2>3, <3>1, <3>2 DEF ReceiveAck
    <2>4. CASE push[p].todo \ {req[s].batch.run} = {}
      <3>1. PICK st : st = [IdlePush EXCEPT !.pc = "read", !.cur = push[p].last]
        OBVIOUS
      <3>2. st.page = IdlePush.page
        BY <3>1 DEF IdlePush
      <3>. QED BY <1>6, <1>p, <2>1, <2>2, <2>4, <3>1, <3>2 DEF ReceiveAck
    <2>. QED BY <2>3, <2>4
  <1>7. ASSUME NEW p \in Pushers, AttemptFailed(p),
               UNCHANGED <<src, log, tgt, tgtRuns, ledger>>,
               \A s \in Slots : req'[s] = req[s] \/ req'[s] = IdleReq
        PROVE  TargetInv'
    <2>1. CASE push[p].att < MaxAttempts
      <3>1. PICK st : st = [push[p] EXCEPT !.pc = "post", !.slot = {}]
        OBVIOUS
      <3>2. st.page = push[p].page
        BY <3>1 DEF TargetInv, TypeOK, PushStates
      <3>. QED BY <1>7, <1>p, <2>1, <3>1, <3>2 DEF AttemptFailed
    <2>2. CASE ~(push[p].att < MaxAttempts)
      <3>1. PICK st : st = IdlePush
        OBVIOUS
      <3>. QED BY <1>7, <1>p, <2>2, <3>1 DEF AttemptFailed
    <2>. QED BY <2>1, <2>2
  <1>8. ASSUME NEW p \in Pushers, NEW s \in Slots, ReceiveError(p, s) \/ Timeout(p, s)
        PROVE  TargetInv'
    <2>1. AttemptFailed(p) /\ UNCHANGED <<src, log, tgt, tgtRuns, ledger>>
      BY <1>8 DEF ReceiveError, Timeout, srcVars, tgtVars
    <2>2. \A t \in Slots : req'[t] = req[t] \/ req'[t] = IdleReq
      <3>1. CASE ReceiveError(p, s)
        BY <3>1 DEF ReceiveError, TargetInv, TypeOK
      <3>2. CASE Timeout(p, s) /\ Linger
        BY <3>2 DEF Timeout
      <3>3. CASE Timeout(p, s) /\ ~Linger
        BY <3>3 DEF Timeout, TargetInv, TypeOK
      <3>. QED BY <1>8, <3>1, <3>2, <3>3
    <2>. QED BY <1>7, <2>1, <2>2
  <1>9. ASSUME NEW p \in Pushers, PushDies(p) PROVE TargetInv'
    <2>1. UNCHANGED <<src, log, tgt, tgtRuns, ledger>>
      BY <1>9 DEF PushDies, srcVars, tgtVars
    <2>2. \A t \in Slots : req'[t] = req[t] \/ req'[t] = IdleReq
      <3>1. CASE Linger
        BY <1>9, <3>1 DEF PushDies
      <3>2. CASE ~Linger
        BY <1>9, <3>2 DEF PushDies
      <3>. QED BY <3>1, <3>2
    <2>3. PICK st : st = IdlePush
      OBVIOUS
    <2>. QED BY <1>9, <1>p, <2>1, <2>2, <2>3 DEF PushDies
  <1>b. ASSUME tgtRuns \subseteq tgtRuns', NEW b,
               \A k \in Keys : tgt[k].val # NoVal => tgt'[k].val # NoVal,
               Backed(b)
        PROVE  Backed(b)'
    BY <1>b DEF Backed, Accepted, Rejected, BatchKeys
  <1>i. ASSUME UNCHANGED <<src, log, push>>, tgtRuns \subseteq tgtRuns',
               \A k \in Keys : tgt[k].val # NoVal => tgt'[k].val # NoVal,
               NEW s \in Slots, \A t \in Slots : t # s => req'[t] = req[t],
               GoodRequest(req[s])', LedgerIsBacked', TargetRowIsAVersion'
        PROVE  TargetInv'
    <2>1. TrueRows' /\ \A p \in Pushers : TruePage(push[p].page)'
      BY <1>i DEF TargetInv, TrueRows, Present, WasVersion, TruePage
    <2>2. ASSUME NEW t \in Slots, t # s PROVE GoodRequest(req[t])'
      <3>1. GoodRequest(req[t]) /\ req'[t] = req[t]
        BY <1>i, <2>2 DEF TargetInv
      <3>2. TrueBatch(req[t].batch)'
        BY <1>i, <3>1 DEF GoodRequest, TrueBatch, WasVersion
      <3>3. req[t].pc = "ledger" => Backed(req[t].batch)'
        BY <1>i, <1>b, <3>1 DEF GoodRequest, Backed
      <3>. QED BY <1>i, <3>1, <3>2, <3>3 DEF GoodRequest
    <2>. QED BY <1>0, <1>i, <2>1, <2>2 DEF TargetInv
  <1>k. ASSUME UNCHANGED <<tgt, tgtRuns, ledger, src, log, push>>, NEW s \in Slots,
               NEW c \in {"ack", "nack", "prov"}, req' = [req EXCEPT ![s].pc = c]
        PROVE  TargetInv'
    <2>1. req'[s].pc = c /\ req'[s].batch = req[s].batch
      BY <1>k DEF TargetInv, TypeOK, ReqStates
    <2>2. \A t \in Slots : t # s => req'[t] = req[t]
      BY <1>k DEF TargetInv, TypeOK
    <2>3. GoodRequest(req[s])'
      BY <1>k, <2>1 DEF TargetInv, GoodRequest, TrueBatch, WasVersion
    <2>4. LedgerIsBacked' /\ TargetRowIsAVersion'
      BY <1>k DEF TargetInv, LedgerIsBacked, TargetRowIsAVersion
    <2>. QED BY <1>k, <1>i, <2>2, <2>3, <2>4
  <1>10. ASSUME NEW s \in Slots, Lookup(s) PROVE TargetInv'
    BY <1>10, <1>k DEF Lookup, srcVars, tgtVars
  <1>11. ASSUME NEW s \in Slots, RequestFails(s) PROVE TargetInv'
    BY <1>11, <1>k DEF RequestFails, srcVars, tgtVars
  <1>12. ASSUME NEW s \in Slots, ReplyDropped(s) PROVE TargetInv'
    <2>1. /\ UNCHANGED <<src, log, push, tgt, tgtRuns, ledger>>
          /\ req' = [req EXCEPT ![s] = IdleReq]
      BY <1>12 DEF ReplyDropped, srcVars, tgtVars
    <2>2. req'[s] = IdleReq /\ \A t \in Slots : t # s => req'[t] = req[t]
      BY <2>1 DEF TargetInv, TypeOK
    <2>3. GoodRequest(req[s])'
      BY <2>2, IdleIsTrue
    <2>4. LedgerIsBacked' /\ TargetRowIsAVersion'
      BY <2>1 DEF TargetInv, LedgerIsBacked, TargetRowIsAVersion
    <2>. QED BY <1>i, <2>1, <2>2, <2>3, <2>4
  <1>13. ASSUME NEW s \in Slots, Preamble(s) PROVE TargetInv'
    <2>1. /\ UNCHANGED <<src, log, push, tgt, ledger>>
          /\ tgtRuns \subseteq tgtRuns'
      BY <1>13 DEF Preamble, srcVars
    <2>2. /\ req'[s].batch = req[s].batch
          /\ req'[s].pc = "nack" \/ (req'[s].pc = "apply" /\ req[s].batch.run \in tgtRuns')
          /\ \A t \in Slots : t # s => req'[t] = req[t]
      BY <1>13 DEF Preamble, TargetInv, TypeOK, ReqStates
    <2>3. GoodRequest(req[s])'
      BY <2>1, <2>2 DEF TargetInv, GoodRequest, TrueBatch, WasVersion
    <2>4. LedgerIsBacked' /\ TargetRowIsAVersion'
      BY <2>1 DEF TargetInv, LedgerIsBacked, TargetRowIsAVersion
    <2>. QED BY <1>i, <2>1, <2>2, <2>3, <2>4
  <1>14. ASSUME NEW s \in Slots, Apply(s) PROVE TargetInv'
    <2>. PICK b : b = req[s].batch
      OBVIOUS
    <2>1. /\ UNCHANGED <<src, log, push, tgtRuns, ledger>>
          /\ b.run \in tgtRuns /\ TrueBatch(b)
      BY <1>14 DEF Apply, srcVars, TargetInv, GoodRequest
    <2>2. \A k \in Keys : tgt'[k] = IF k \in Accepted(b) /\ tgt[k].val # b.rows[k]
                                    THEN [val |-> b.rows[k], run |-> b.run]
                                    ELSE tgt[k]
      BY <1>14 DEF Apply
    <2>3. \A k \in Accepted(b) : k \in Keys /\ k \in BatchKeys(b) /\ b.rows[k] # NoVal
      BY DEF Accepted, BatchKeys
    <2>4. /\ \A k \in Keys : tgt[k].val # NoVal => tgt'[k].val # NoVal
          /\ \A k \in Accepted(b) : tgt'[k].val # NoVal
      <3>1. ASSUME NEW k \in Keys
            PROVE  tgt[k].val # NoVal \/ k \in Accepted(b) => tgt'[k].val # NoVal
        <4>1. CASE k \in Accepted(b) /\ tgt[k].val # b.rows[k]
          <5>1. tgt'[k] = [val |-> b.rows[k], run |-> b.run]
            BY <2>2, <4>1
          <5>. QED BY <2>3, <4>1, <5>1
        <4>2. CASE ~(k \in Accepted(b) /\ tgt[k].val # b.rows[k])
          <5>1. tgt'[k] = tgt[k]
            BY <2>2, <4>2
          <5>. QED BY <2>3, <4>2, <5>1
        <4>. QED BY <4>1, <4>2
      <3>. QED BY <2>3, <3>1
    <2>5. /\ req'[s].batch = b
          /\ req'[s].pc = "nack" \/ (req'[s].pc = "ledger" /\ Accepted(b) # {})
          /\ \A t \in Slots : t # s => req'[t] = req[t]
      BY <1>14 DEF Apply, TargetInv, TypeOK, ReqStates
    <2>6. GoodRequest(req[s])'
      <3>1. TrueBatch(req[s].batch)'
        BY <2>1, <2>5 DEF TrueBatch, WasVersion
      <3>2. req'[s].pc = "ledger" => Backed(req[s].batch)'
        BY <2>1, <2>4, <2>5 DEF Backed, Accepted, Rejected, BatchKeys
      <3>. QED BY <2>1, <2>5, <3>1, <3>2 DEF GoodRequest
    <2>7. LedgerIsBacked'
      BY <2>1, <2>4 DEF TargetInv, LedgerIsBacked, Accepted, Rejected, BatchKeys
    <2>8. ASSUME NEW k \in Keys, tgt'[k].val # NoVal
          PROVE  tgt'[k].run \in tgtRuns /\ WasVersion(k, tgt'[k].val, tgt'[k].run)
      <3>1. CASE k \in Accepted(b) /\ tgt[k].val # b.rows[k]
        <4>1. tgt'[k] = [val |-> b.rows[k], run |-> b.run]
          BY <2>2, <3>1
        <4>. QED BY <2>1, <2>3, <3>1, <4>1 DEF TrueBatch
      <3>2. CASE ~(k \in Accepted(b) /\ tgt[k].val # b.rows[k])
        <4>1. tgt'[k] = tgt[k]
          BY <2>2, <3>2
        <4>. QED BY <2>8, <4>1 DEF TargetInv, TargetRowIsAVersion, WasVersion
      <3>. QED BY <3>1, <3>2
    <2>9. TargetRowIsAVersion'
      BY <2>1, <2>8 DEF TargetRowIsAVersion, WasVersion
    <2>. QED BY <1>i, <2>1, <2>4, <2>5, <2>6, <2>7, <2>9
  <1>15. ASSUME NEW s \in Slots, WriteLedger(s) PROVE TargetInv'
    <2>1. /\ UNCHANGED <<src, log, push, tgt, tgtRuns>>
          /\ ledger' = ledger \cup {req[s].batch}
          /\ Backed(req[s].batch)
      BY <1>15 DEF WriteLedger, srcVars, TargetInv, GoodRequest
    <2>2. /\ req'[s].pc = "ack" /\ req'[s].batch = req[s].batch
          /\ \A t \in Slots : t # s => req'[t] = req[t]
      BY <1>15 DEF WriteLedger, TargetInv, TypeOK, ReqStates
    <2>3. GoodRequest(req[s])'
      BY <2>1, <2>2 DEF TargetInv, GoodRequest, TrueBatch, WasVersion
    <2>4. LedgerIsBacked' /\ TargetRowIsAVersion'
      BY <2>1 DEF TargetInv, LedgerIsBacked, TargetRowIsAVersion, Backed
    <2>. QED BY <1>i, <2>1, <2>2, <2>3, <2>4
  <1>16. CASE UNCHANGED vars
    BY <1>0, <1>16 DEF vars, TargetInv, TypeOK, TrueRows, Present, WasVersion, TruePage,
       GoodRequest, TrueBatch, Backed, LedgerIsBacked, TargetRowIsAVersion
  <1>. QED BY <1>1, <1>2, <1>3, <1>4, <1>5, <1>6, <1>8, <1>9, <1>10, <1>11, <1>12, <1>13,
              <1>14, <1>15, <1>16
           DEF Next, Writes, PushStep, InboxStep, Fault

(* The invariant behind LedgerIsBacked and TargetRowIsAVersion holds always. *)
LEMMA TargetInvariant == Spec => []TargetInv
<1>1. Init => TargetInv
  <2>. SUFFICES ASSUME Init PROVE TargetInv
    OBVIOUS
  <2>1. TypeOK
    BY TypeInit
  <2>2. TrueRows
    BY DEF Init, TrueRows, Present, NoRow
  <2>3. \A p \in Pushers : TruePage(push[p].page)
    BY DEF Init, TruePage, PageKeys, IdlePush, NoRow
  <2>4. \A s \in Slots : GoodRequest(req[s])
    BY DEF Init, GoodRequest, IdleReq, NoBatch, TrueBatch, BatchKeys
  <2>5. LedgerIsBacked /\ TargetRowIsAVersion
    BY DEF Init, LedgerIsBacked, TargetRowIsAVersion
  <2>. QED BY <2>1, <2>2, <2>3, <2>4, <2>5 DEF TargetInv
<1>2. TargetInv /\ [Next]_vars => TargetInv'
  BY TargetStep
<1>. QED BY <1>1, <1>2, PTL DEF Spec

(* The ledger never says "applied" of a batch whose data is missing,       *)
(* whatever fails between the apply and the ledger row.                    *)
THEOREM LedgerIsSafe == Spec => []LedgerIsBacked
<1>1. TargetInv => LedgerIsBacked
  BY DEF TargetInv
<1>. QED BY <1>1, TargetInvariant, PTL

(* A target row is at all times one whole version of the source row, under *)
(* the run that wrote it, and that run is registered on the target         *)
(* (post_sync_apply upserts the run before it applies the rows).           *)
THEOREM LineageIsWhole == Spec => []LineageInv
<1>1. TypeOK /\ TargetInv => LineageInv
  BY DEF TargetInv, LineageInv
<1>. QED BY <1>1, TypeCorrect, TargetInvariant, PTL
-----------------------------------------------------------------------------
(***************************************************************************)
(* One push at a time.  When commits land in the order of their            *)
(* watermarks, a run commits once, one caller pushes the table, and the    *)
(* target drops a handler whose sender has given up, the target does not   *)
(* only hold versions of the source: it has every payload behind the       *)
(* cursor, and never goes back to an older one.                            *)
(***************************************************************************)
SolePush == /\ Lag = 1 /\ ~ReuseRuns /\ ~Linger
            /\ \A p, q \in Pushers : p = q

(* The history of the source: one version per row and watermark, one       *)
(* watermark per run, the present rows the last; the ledger repeats it.    *)
Chronicle ==
    /\ \A v, w \in log : v.key = w.key /\ v.wm = w.wm => v = w
    /\ \A v, w \in log : v.run = w.run => v.wm = w.wm
    /\ \A w \in log : w.wm <= src[w.key].wm
    /\ \A k \in Keys : Present(k) => Version(k, src[k]) \in log
    /\ \A b \in ledger : TrueBatch(b)

(* What the ledger has of the present source, the target has. *)
Delivered ==
    \A b \in ledger : \A k \in Accepted(b) : Ships(b, k) => tgt[k].val = src[k].val

(* A page on its way: none of its rows is older than the target's, and     *)
(* none is out of date when the present one is ledgered.                   *)
InStep(st) ==
    \A k \in PageKeys(st.page) :
      /\ Version(k, st.page[k]) \in log
      /\ \A w \in log : w.key = k /\ w.run = tgt[k].run /\ tgt[k].val # NoVal
                          => w.wm <= st.page[k].wm
      /\ \A b \in ledger : Ships(b, k) => /\ st.page[k].val = src[k].val
                                          /\ st.page[k].run = src[k].run

(* Every request has a sender, which waits for that one. *)
Attended ==
    /\ \A p \in Pushers : \A s, t \in push[p].slot : s = t
    /\ \A s \in Slots : req[s].pc # "idle" => \E p \in Pushers : s \in push[p].slot

(* A batch is on the target before it is ledgered. *)
AppliedFirst ==
    \A s \in Slots : req[s].pc = "ledger" =>
      \A k \in Accepted(req[s].batch) : tgt[k].val = req[s].batch.rows[k]

SoleInv ==
    /\ Chronicle
    /\ Delivered
    /\ \A p \in Pushers : push[p].pc \in {"post", "wait"} => InStep(push[p])
    /\ Attended
    /\ AppliedFirst

(* The whole invariant of this part. *)
SoloInv == CursorInv /\ TargetInv /\ SoleInv

(* What stays as it is keeps what it says. *)
LEMMA SoleFrame ==
    ASSUME UNCHANGED <<src, log, tgt, ledger>>
    PROVE  /\ Chronicle => Chronicle'
           /\ Delivered => Delivered'
           /\ \A st : InStep(st) => InStep(st)'
  <1>1. \A b, k : Ships(b, k)' <=> Ships(b, k)
    BY DEF Ships, BatchKeys
  <1>2. \A b : TrueBatch(b) => TrueBatch(b)'
    BY DEF TrueBatch, WasVersion
  <1>3. Chronicle => Chronicle'
    BY <1>2 DEF Chronicle, Present
  <1>. QED BY <1>1, <1>3 DEF Delivered, InStep

(* A step of a push to state st, which is in step with the target, and     *)
(* whose requests are the only ones.                                       *)
LEMMA SolePushTurn ==
    ASSUME SolePush, SoloInv, UNCHANGED <<src, log, tgt, ledger>>,
           NEW p \in Pushers, NEW st, Becomes(p, st),
           st.pc \in {"post", "wait"} => InStep(st),
           \A s, t \in st.slot : s = t,
           \A s \in Slots : /\ req'[s].pc # "idle" => s \in st.slot
                            /\ req'[s].pc = "ledger" => req'[s] = req[s]
    PROVE  SoleInv'
  <1>1. push' = [push EXCEPT ![p] = st] /\ push \in [Pushers -> PushStates]
    BY DEF Becomes, SoloInv, CursorInv, TypeOK
  <1>2. push'[p] = st /\ \A q \in Pushers : q = p
    BY <1>1 DEF SolePush
  <1>3. \A q \in Pushers : push'[q].pc \in {"post", "wait"} => InStep(push[q])'
    <2>1. InStep(st) => InStep(st)'
      BY SoleFrame
    <2>2. InStep(st)' => InStep(push[p])'
      BY <1>2 DEF InStep
    <2>. QED BY <1>2, <2>1, <2>2
  <1>4. Attended'
    BY <1>2 DEF Attended
  <1>5. AppliedFirst'
    BY DEF AppliedFirst, SoloInv, SoleInv, Accepted, Rejected, BatchKeys
  <1>. QED BY <1>3, <1>4, <1>5, SoleFrame DEF SoleInv, SoloInv

(* A step of a request that leaves the tables alone. *)
LEMMA SoleRequestTurn ==
    ASSUME SoloInv, UNCHANGED <<src, log, tgt, ledger, push>>,
           \A s \in Slots : /\ req'[s].pc # "idle" => req[s].pc # "idle"
                            /\ req'[s].pc = "ledger" => req'[s] = req[s]
    PROVE  SoleInv'
  <1>1. \A q \in Pushers : push'[q].pc \in {"post", "wait"} => InStep(push[q])'
    BY DEF SoloInv, SoleInv, InStep, Ships, BatchKeys
  <1>2. Attended'
    BY DEF SoloInv, SoleInv, Attended
  <1>3. AppliedFirst'
    BY DEF AppliedFirst, SoloInv, SoleInv, Accepted, Rejected, BatchKeys
  <1>. QED BY <1>1, <1>2, <1>3, SoleFrame DEF SoleInv, SoloInv

(* A commit: its rows are newer than everything, and under a run nobody    *)
(* has heard of.                                                           *)
LEMMA CommitShape ==
    ASSUME SolePush, SoloInv, NEW K \in SUBSET Keys, NEW new \in [K -> Vals],
           NEW r \in Runs, NEW stamp \in 1 .. (clock + Lag),
           SourceWrite(new, r, stamp)
    PROVE  /\ UNCHANGED <<cursor, push, req, tgt, ledger>>
           /\ log' = log \cup {Version(k, src'[k]) : k \in Changed(new)}
           /\ r \notin UsedRuns /\ stamp > clock /\ clock \in Nat /\ stamp \in Nat
           /\ Changed(new) \subseteq Keys /\ Changed(new) # {}
           /\ \A k \in Keys : IF k \in Changed(new)
                              THEN src'[k].wm = stamp /\ src'[k].run = r
                              ELSE src'[k] = src[k]
           /\ \A w \in log : w.wm <= clock /\ w.wm \in Nat /\ w.key \in Keys /\ w.run # r
           /\ \A w \in log' : \/ w \in log
                              \/ /\ w.key \in Changed(new) /\ w.run = r /\ w.wm = stamp
                                 /\ w = Version(w.key, src'[w.key])
  <1>1. PICK at : src' = Merged(new, r, stamp, at)
    BY DEF SourceWrite
  <1>2. /\ UNCHANGED <<cursor, push, req, tgt, ledger>>
        /\ log' = log \cup {Version(k, src'[k]) : k \in Changed(new)}
        /\ r \notin UsedRuns /\ stamp > clock /\ clock \in Nat /\ stamp \in Nat
    BY StampIsNew DEF SourceWrite, SolePush, tgtVars, SoloInv, CursorInv
  <1>3. /\ Changed(new) \subseteq Keys /\ Changed(new) # {}
        /\ \A k \in Keys : IF k \in Changed(new)
                           THEN src'[k].wm = stamp /\ src'[k].run = r
                           ELSE src'[k] = src[k]
    BY <1>1 DEF Changed, Merged, SourceWrite
  <1>4. \A w \in log : w.wm <= clock /\ w.wm \in Nat /\ w.key \in Keys /\ w.run # r
    <2>1. ASSUME NEW w \in log
          PROVE  w.wm <= clock /\ w.wm \in Nat /\ w.key \in Keys /\ w.run # r
      <3>1. w.wm \in Nat /\ w.key \in Keys
        BY DEF SoloInv, CursorInv, TypeOK, Versions
      <3>2. src[w.key].wm \in Nat /\ src[w.key].wm <= clock /\ w.wm <= src[w.key].wm
        BY <3>1 DEF SoloInv, CursorInv, TypeOK, Rows, SoleInv, Chronicle
      <3>. QED BY <1>2, <3>1, <3>2 DEF UsedRuns
    <2>. QED BY <2>1
  <1>5. \A w \in log' : \/ w \in log
                        \/ /\ w.key \in Changed(new) /\ w.run = r /\ w.wm = stamp
                           /\ w = Version(w.key, src'[w.key])
    BY <1>2, <1>3 DEF Version
  <1>. QED BY <1>2, <1>3, <1>4, <1>5

(* A commit keeps the invariant of this part. *)
LEMMA SoleWrite ==
    ASSUME SolePush, SoloInv, NEW K \in SUBSET Keys, NEW new \in [K -> Vals],
           NEW r \in Runs, NEW stamp \in 1 .. (clock + Lag),
           SourceWrite(new, r, stamp)
    PROVE  SoleInv'
  <1>2. /\ UNCHANGED <<push, req, tgt, ledger>>
        /\ log' = log \cup {Version(k, src'[k]) : k \in Changed(new)}
        /\ stamp > clock /\ clock \in Nat /\ stamp \in Nat
    BY CommitShape
  <1>3. /\ Changed(new) \subseteq Keys
        /\ \A k \in Keys : IF k \in Changed(new)
                           THEN src'[k].wm = stamp /\ src'[k].run = r
                           ELSE src'[k] = src[k]
    BY CommitShape
  <1>4. \A w \in log : w.wm <= clock /\ w.wm \in Nat /\ w.key \in Keys /\ w.run # r
    BY CommitShape
  <1>5. \A w \in log' : \/ w \in log
                        \/ /\ w.key \in Changed(new) /\ w.run = r /\ w.wm = stamp
                           /\ w = Version(w.key, src'[w.key])
    BY CommitShape
  <1>6. \A b \in ledger : \A k \in BatchKeys(b) : b.run # r
    <2>1. \A b \in ledger : TrueBatch(b)
      BY DEF SoloInv, SoleInv, Chronicle
    <2>. QED BY <1>4, <2>1 DEF TrueBatch, WasVersion
  <1>7. ASSUME NEW b \in ledger, NEW k \in Keys, Ships(b, k)'
        PROVE  Ships(b, k) /\ src'[k] = src[k]
    <2>1. k \in BatchKeys(b) /\ b.run = src'[k].run
      BY <1>7 DEF Ships, BatchKeys
    <2>2. src'[k] = src[k]
      BY <1>3, <1>6, <2>1
    <2>. QED BY <1>7, <2>2 DEF Ships, BatchKeys
  <1>8. Chronicle'
    <2>1. \A v, w \in log' : v.key = w.key /\ v.wm = w.wm => v = w
      BY <1>2, <1>4, <1>5 DEF SoloInv, SoleInv, Chronicle
    <2>2. \A v, w \in log' : v.run = w.run => v.wm = w.wm
      BY <1>4, <1>5 DEF SoloInv, SoleInv, Chronicle
    <2>3. ASSUME NEW w \in log' PROVE w.wm <= src'[w.key].wm
      <3>1. CASE w \in log /\ w.key \in Changed(new)
        BY <1>2, <1>3, <1>4, <3>1
      <3>2. CASE w \in log /\ w.key \notin Changed(new)
        BY <1>3, <1>4, <3>2 DEF SoloInv, SoleInv, Chronicle
      <3>3. CASE w \notin log
        BY <1>2, <1>3, <1>5, <3>3
      <3>. QED BY <3>1, <3>2, <3>3
    <2>4. \A k \in Keys : Present(k)' => Version(k, src'[k]) \in log'
      BY <1>2, <1>3 DEF SoloInv, SoleInv, Chronicle, Present
    <2>5. \A b \in ledger' : TrueBatch(b)'
      BY <1>2 DEF SoloInv, SoleInv, Chronicle, TrueBatch, WasVersion
    <2>. QED BY <2>1, <2>2, <2>3, <2>4, <2>5 DEF Chronicle
  <1>9. Delivered'
    BY <1>2, <1>7 DEF Delivered, SoloInv, SoleInv, Accepted, BatchKeys
  <1>10. ASSUME NEW p \in Pushers, InStep(push[p]) PROVE InStep(push[p])'
    <2>1. ASSUME NEW k \in PageKeys(push[p].page)
          PROVE  /\ Version(k, push[p].page[k]) \in log'
                 /\ \A w \in log' : w.key = k /\ w.run = tgt[k].run /\ tgt[k].val # NoVal
                                      => w.wm <= push[p].page[k].wm
                 /\ \A b \in ledger : Ships(b, k)' => /\ push[p].page[k].val = src'[k].val
                                                      /\ push[p].page[k].run = src'[k].run
      <3>1. k \in Keys
        BY DEF PageKeys
      <3>2. Version(k, push[p].page[k]) \in log'
        BY <1>2, <1>10 DEF InStep
      <3>3. tgt[k].val # NoVal => tgt[k].run # r
        BY <1>4, <3>1 DEF SoloInv, TargetInv, TargetRowIsAVersion
      <3>4. \A w \in log' : w.key = k /\ w.run = tgt[k].run /\ tgt[k].val # NoVal
                              => w.wm <= push[p].page[k].wm
        BY <1>5, <1>10, <3>3 DEF InStep
      <3>5. \A b \in ledger : Ships(b, k)' => /\ push[p].page[k].val = src'[k].val
                                              /\ push[p].page[k].run = src'[k].run
        BY <1>7, <1>10, <3>1 DEF InStep
      <3>. QED BY <3>2, <3>4, <3>5
    <2>. QED BY <1>2, <2>1 DEF InStep
  <1>11. Attended' /\ AppliedFirst'
    BY <1>2 DEF Attended, AppliedFirst, SoloInv, SoleInv, Accepted, Rejected, BatchKeys
  <1>. QED BY <1>2, <1>8, <1>9, <1>10, <1>11 DEF SoleInv, SoloInv

(* A page just read is the present source, which nothing is newer than. *)
LEMMA SoleRead ==
    ASSUME SolePush, SoloInv, NEW p \in Pushers, ReadPage(p)
    PROVE  SoleInv'
  <1>1. PICK K \in SUBSET Keys, m \in Keys :
          /\ IsPage(K, push[p].cur)
          /\ Becomes(p, [push[p] EXCEPT !.pc = "post", !.page = Snapshot(K),
                                        !.last = Pos(src[m]),
                                        !.todo = {src[k].run : k \in K},
                                        !.att = 0])
    BY DEF ReadPage
  <1>2. PICK st : st = [push[p] EXCEPT !.pc = "post", !.page = Snapshot(K),
                                       !.last = Pos(src[m]),
                                       !.todo = {src[k].run : k \in K},
                                       !.att = 0]
    OBVIOUS
  <1>3. st.page = Snapshot(K) /\ st.slot = push[p].slot
    BY <1>2 DEF SoloInv, CursorInv, TypeOK, PushStates
  <1>4. \A k \in PageKeys(st.page) : k \in Keys /\ st.page[k] = src[k] /\ Present(k)
    BY <1>3 DEF PageKeys, Snapshot, NoRow, Present
  <1>5. InStep(st)
    <2>1. ASSUME NEW k \in PageKeys(st.page)
          PROVE  /\ Version(k, st.page[k]) \in log
                 /\ \A w \in log : w.key = k => w.wm <= st.page[k].wm
      BY <1>4 DEF SoloInv, SoleInv, Chronicle
    <2>. QED BY <1>4, <2>1 DEF InStep
  <1>6. /\ \A s, t \in st.slot : s = t
        /\ \A s \in Slots : req[s].pc # "idle" => s \in st.slot
    BY <1>3 DEF SolePush, SoloInv, SoleInv, Attended
  <1>7. UNCHANGED <<src, log, tgt, ledger, req>>
    BY DEF ReadPage, srcVars, tgtVars
  <1>. QED BY <1>1, <1>2, <1>5, <1>6, <1>7, SolePushTurn

(* A push starts, or finds nothing more. *)
LEMMA SoleStart ==
    ASSUME SolePush, SoloInv, NEW p \in Pushers, StartPush(p) \/ Drained(p)
    PROVE  SoleInv'
  <1>1. UNCHANGED <<src, log, tgt, ledger, req>>
    BY DEF StartPush, Drained, srcVars, tgtVars
  <1>2. push[p].pc # "wait"
    BY DEF StartPush, Drained
  <1>3. push[p].slot = {}
    BY <1>2 DEF SoloInv, CursorInv, GoodPush, OwnsRequests
  <1>4. \A s \in Slots : req[s].pc = "idle"
    BY <1>3 DEF SolePush, SoloInv, SoleInv, Attended
  <1>5. PICK st : Becomes(p, st) /\ st.pc \in {"read", "idle"} /\ st.slot = {}
    <2>1. PICK st : st = [push[p] EXCEPT !.pc = "read", !.cur = cursor]
      OBVIOUS
    <2>2. st.pc = "read" /\ st.slot = {}
      BY <1>3, <2>1 DEF SoloInv, CursorInv, TypeOK, PushStates
    <2>3. PICK th : th = IdlePush
      OBVIOUS
    <2>4. th.pc = "idle" /\ th.slot = {}
      BY <2>3 DEF IdlePush
    <2>5. Becomes(p, st) \/ Becomes(p, th)
      BY <2>1, <2>3 DEF StartPush, Drained
    <2>. QED BY <2>2, <2>4, <2>5
  <1>. QED BY <1>1, <1>4, <1>5, SolePushTurn

(* A group is sent: its request is the only one. *)
LEMMA SoleSend ==
    ASSUME SolePush, SoloInv, NEW p \in Pushers, NEW s \in Slots, Send(p, s)
    PROVE  SoleInv'
  <1>1. UNCHANGED <<src, log, tgt, ledger>> /\ push[p].pc = "post"
    BY DEF Send, srcVars, tgtVars
  <1>2. push[p].slot = {}
    BY <1>1 DEF SoloInv, CursorInv, GoodPush, OwnsRequests
  <1>3. \A t \in Slots : req[t].pc = "idle"
    BY <1>2 DEF SolePush, SoloInv, SoleInv, Attended
  <1>4. req'[s].pc = "lookup" /\ \A t \in Slots : t # s => req'[t] = req[t]
    BY DEF Send, SoloInv, CursorInv, TypeOK
  <1>5. PICK st : st = [push[p] EXCEPT !.pc = "wait", !.att = @ + 1, !.slot = {s}]
    OBVIOUS
  <1>6. st.slot = {s} /\ st.page = push[p].page
    BY <1>5 DEF SoloInv, CursorInv, TypeOK, PushStates
  <1>7. InStep(push[p])
    BY <1>1 DEF SoloInv, SoleInv
  <1>8. InStep(st)
    BY <1>6, <1>7 DEF InStep
  <1>9. Becomes(p, st)
    BY <1>5 DEF Send
  <1>. QED BY <1>1, <1>3, <1>4, <1>6, <1>8, <1>9, SolePushTurn

(* An answer or a failure ends the only request; the push goes on with its *)
(* page, or lets go of it.                                                 *)
LEMMA SoleEnds ==
    ASSUME SolePush, SoloInv, UNCHANGED <<src, log, tgt, ledger>>, NEW p \in Pushers,
           push[p].pc = "wait", \A s \in push[p].slot : req'[s] = IdleReq,
           \A s \in Slots : s \notin push[p].slot => req'[s] = req[s],
           NEW st, Becomes(p, st), st.slot = {},
           st.pc = "post" => st.page = push[p].page, st.pc # "wait"
    PROVE  SoleInv'
  <1>1. InStep(push[p])
    BY DEF SoloInv, SoleInv
  <1>2. st.pc \in {"post", "wait"} => InStep(st)
    BY <1>1 DEF InStep
  <1>3. \A s \in Slots : req'[s].pc = "idle"
    <2>1. ASSUME NEW s \in Slots, s \notin push[p].slot PROVE req[s].pc = "idle"
      BY <2>1 DEF SolePush, SoloInv, SoleInv, Attended
    <2>. QED BY <2>1 DEF IdleReq
  <1>. QED BY <1>2, <1>3, SolePushTurn

(* The only request of a push. *)
LEMMA SoleSlot ==
    ASSUME SoloInv, NEW p \in Pushers, NEW s \in push[p].slot,
           req' = [req EXCEPT ![s] = IdleReq]
    PROVE  /\ \A t \in push[p].slot : req'[t] = IdleReq
           /\ \A t \in Slots : t \notin push[p].slot => req'[t] = req[t]
  <1>1. push[p].slot \subseteq Slots /\ req \in [Slots -> ReqStates]
    BY DEF SoloInv, CursorInv, TypeOK, PushStates
  <1>2. \A t \in push[p].slot : t = s
    BY DEF SoloInv, SoleInv, Attended
  <1>. QED BY <1>1, <1>2

(* A 2xx: the push goes on with the page, or with the next. *)
LEMMA SoleAck ==
    ASSUME SolePush, SoloInv, NEW p \in Pushers, NEW s \in Slots, ReceiveAck(p, s)
    PROVE  SoleInv'
  <1>1. /\ UNCHANGED <<src, log, tgt, ledger>> /\ push[p].pc = "wait" /\ s \in push[p].slot
        /\ req' = [req EXCEPT ![s] = IdleReq]
    BY DEF ReceiveAck, srcVars, tgtVars
  <1>2. PICK st : Becomes(p, st) /\ st.slot = {} /\ st.pc # "wait"
                  /\ (st.pc = "post" => st.page = push[p].page)
    <2>1. PICK st : st = [push[p] EXCEPT !.pc = "post",
                                         !.todo = push[p].todo \ {req[s].batch.run},
                                         !.att = 0, !.slot = {}]
      OBVIOUS
    <2>2. PICK th : th = [IdlePush EXCEPT !.pc = "read", !.cur = push[p].last]
      OBVIOUS
    <2>3. st.slot = {} /\ st.pc = "post" /\ st.page = push[p].page
      BY <2>1 DEF SoloInv, CursorInv, TypeOK, PushStates
    <2>4. th.slot = {} /\ th.pc = "read"
      BY <2>2 DEF IdlePush
    <2>5. Becomes(p, st) \/ Becomes(p, th)
      BY <2>1, <2>2 DEF ReceiveAck
    <2>. QED BY <2>3, <2>4, <2>5
  <1>. QED BY <1>1, <1>2, SoleSlot, SoleEnds

(* An attempt fails: the page again, or none. *)
LEMMA SoleFailure ==
    ASSUME SolePush, SoloInv, NEW p \in Pushers, NEW s \in Slots,
           ReceiveError(p, s) \/ Timeout(p, s)
    PROVE  SoleInv'
  <1>1. /\ UNCHANGED <<src, log, tgt, ledger>> /\ push[p].pc = "wait" /\ s \in push[p].slot
        /\ req' = [req EXCEPT ![s] = IdleReq] /\ AttemptFailed(p)
    BY DEF ReceiveError, Timeout, srcVars, tgtVars, SolePush
  <1>2. PICK st : Becomes(p, st) /\ st.slot = {} /\ st.pc # "wait"
                  /\ (st.pc = "post" => st.page = push[p].page)
    <2>1. PICK st : st = [push[p] EXCEPT !.pc = "post", !.slot = {}]
      OBVIOUS
    <2>2. PICK th : th = IdlePush
      OBVIOUS
    <2>3. st.slot = {} /\ st.pc = "post" /\ st.page = push[p].page
      BY <2>1 DEF SoloInv, CursorInv, TypeOK, PushStates
    <2>4. th.slot = {} /\ th.pc = "idle"
      BY <2>2 DEF IdlePush
    <2>5. Becomes(p, st) \/ Becomes(p, th)
      BY <1>1, <2>1, <2>2 DEF AttemptFailed
    <2>. QED BY <2>3, <2>4, <2>5
  <1>. QED BY <1>1, <1>2, SoleSlot, SoleEnds

(* A push dies, and its request with it. *)
LEMMA SoleDies ==
    ASSUME SolePush, SoloInv, NEW p \in Pushers, PushDies(p)
    PROVE  SoleInv'
  <1>1. /\ UNCHANGED <<src, log, tgt, ledger>> /\ Becomes(p, IdlePush)
        /\ req' = [s \in Slots |-> IF s \in push[p].slot THEN IdleReq ELSE req[s]]
    BY DEF PushDies, srcVars, tgtVars, SolePush
  <1>2. \A s \in Slots : req'[s].pc = "idle"
    BY <1>1 DEF IdleReq, SolePush, SoloInv, SoleInv, Attended
  <1>3. PICK st : st = IdlePush
    OBVIOUS
  <1>4. st.pc = "idle" /\ st.slot = {}
    BY <1>3 DEF IdlePush
  <1>. QED BY <1>1, <1>2, <1>3, <1>4, SolePushTurn

(* A request at work carries a group of the page of the push that waits. *)
LEMMA SoleSender ==
    ASSUME SolePush, SoloInv, NEW s \in Slots, req[s].pc # "idle"
    PROVE  \E p \in Pushers :
             /\ \A q \in Pushers : q = p
             /\ InStep(push[p])
             /\ \A t \in Slots : req[t].pc # "idle" =>
                  \A k \in BatchKeys(req[t].batch) :
                     /\ k \in PageKeys(push[p].page)
                     /\ req[t].batch.rows[k] = push[p].page[k].val
                     /\ req[t].batch.run = push[p].page[k].run
  <1>1. PICK p \in Pushers : s \in push[p].slot
    BY DEF SoloInv, SoleInv, Attended
  <1>2. \A q \in Pushers : q = p
    BY DEF SolePush
  <1>3. GoodPush(push[p])
    BY DEF SoloInv, CursorInv
  <1>4. InStep(push[p])
    BY <1>1, <1>3 DEF GoodPush, OwnsRequests, SoloInv, SoleInv
  <1>5. ASSUME NEW t \in Slots, req[t].pc # "idle", NEW k \in BatchKeys(req[t].batch)
        PROVE  /\ k \in PageKeys(push[p].page)
               /\ req[t].batch.rows[k] = push[p].page[k].val
               /\ req[t].batch.run = push[p].page[k].run
    <2>1. t \in push[p].slot
      BY <1>2, <1>5 DEF SoloInv, SoleInv, Attended
    <2>2. PICK r \in Nat : req[t].batch = BatchOf(push[p].page, r)
      BY <1>3, <2>1 DEF GoodPush, OwnsRequests
    <2>3. k \in Keys /\ BatchOf(push[p].page, r).rows[k] # NoVal
      BY <1>5, <2>2 DEF BatchKeys
    <2>4. /\ BatchOf(push[p].page, r).run = r
          /\ BatchOf(push[p].page, r).rows[k] =
               IF k \in Group(push[p].page, r) THEN push[p].page[k].val ELSE NoVal
      BY <2>3 DEF BatchOf
    <2>5. k \in Group(push[p].page, r)
      BY <2>3, <2>4
    <2>. QED BY <2>2, <2>4, <2>5 DEF Group
  <1>. QED BY <1>2, <1>4, <1>5

(* The rows of a batch that the target takes. *)
LEMMA AcceptedKeys ==
    ASSUME NEW b, NEW k \in Accepted(b)
    PROVE  k \in BatchKeys(b) /\ k \in Keys
  BY DEF Accepted, BatchKeys

(* A batch lands: nothing newer is overwritten, and nothing that the        *)
(* ledger has of the present source.                                        *)
LEMMA SoleApply ==
    ASSUME SolePush, SoloInv, NEW s \in Slots, Apply(s)
    PROVE  /\ SoleInv'
           /\ \A k \in Keys : tgt[k].val # NoVal /\ tgt'[k] # tgt[k] =>
                \A old \in StampsOf(k, tgt[k].run), new \in StampsOf(k, tgt'[k].run) :
                   old < new
  <1>1. req[s].pc # "idle"
    BY DEF Apply
  <1>2. PICK p \in Pushers :
             /\ \A q \in Pushers : q = p
             /\ InStep(push[p])
             /\ \A t \in Slots : req[t].pc # "idle" =>
                  \A k \in BatchKeys(req[t].batch) :
                     /\ k \in PageKeys(push[p].page)
                     /\ req[t].batch.rows[k] = push[p].page[k].val
                     /\ req[t].batch.run = push[p].page[k].run
    BY <1>1, SoleSender
  <1>. DEFINE page == push[p].page
              b == req[s].batch
  <1>3. /\ UNCHANGED <<src, log, push, ledger>>
        /\ \A k \in Keys : tgt'[k] = IF k \in Accepted(b) /\ tgt[k].val # b.rows[k]
                                     THEN [val |-> b.rows[k], run |-> b.run]
                                     ELSE tgt[k]
    BY DEF Apply, srcVars
  <1>4. /\ \A t \in Slots : t # s => req'[t] = req[t]
        /\ req'[s].batch = b /\ req'[s].pc \in {"nack", "ledger"}
    BY DEF Apply, SoloInv, CursorInv, TypeOK, ReqStates
  <1>5. \A k \in Keys : \/ tgt'[k] = tgt[k]
                        \/ /\ k \in PageKeys(page) /\ k \in Accepted(b)
                           /\ tgt'[k].val = page[k].val /\ tgt'[k].run = page[k].run
                           /\ tgt[k].val # page[k].val
    <2>1. ASSUME NEW k \in Keys, k \in Accepted(b), tgt[k].val # b.rows[k]
          PROVE  /\ k \in PageKeys(page)
                 /\ tgt'[k].val = page[k].val /\ tgt'[k].run = page[k].run
                 /\ tgt[k].val # page[k].val
      <3>1. /\ k \in PageKeys(page)
            /\ b.rows[k] = page[k].val /\ b.run = page[k].run
        BY <1>1, <1>2, <2>1, AcceptedKeys
      <3>2. tgt'[k] = [val |-> b.rows[k], run |-> b.run]
        BY <1>3, <2>1
      <3>. QED BY <2>1, <3>1, <3>2
    <2>. QED BY <1>3, <2>1
  <1>a. \A k \in Accepted(b) : tgt'[k].val = b.rows[k]
    <2>1. ASSUME NEW k \in Accepted(b) PROVE tgt'[k].val = b.rows[k]
      <3>1. CASE tgt[k].val = b.rows[k]
        BY <1>3, <3>1, AcceptedKeys
      <3>2. CASE tgt[k].val # b.rows[k]
        <4>1. tgt'[k] = [val |-> b.rows[k], run |-> b.run]
          BY <1>3, <3>2, AcceptedKeys
        <4>. QED BY <4>1
      <3>. QED BY <3>1, <3>2
    <2>. QED BY <2>1
  <1>6. \A k \in PageKeys(page) : \A w \in log :
           w.key = k /\ w.run = page[k].run => w.wm = page[k].wm /\ w = Version(k, page[k])
    <2>1. ASSUME NEW k \in PageKeys(page), NEW w \in log, w.key = k, w.run = page[k].run
          PROVE  w.wm = page[k].wm /\ w = Version(k, page[k])
      <3>1. PICK v : v = Version(k, page[k])
        OBVIOUS
      <3>2. v \in log /\ v.key = k /\ v.run = page[k].run /\ v.wm = page[k].wm
        BY <1>2, <3>1 DEF InStep, Version
      <3>. QED BY <2>1, <3>1, <3>2 DEF SoloInv, SoleInv, Chronicle
    <2>. QED BY <2>1
  <1>7. InStep(push[p])'
    <2>1. ASSUME NEW k \in PageKeys(page)
          PROVE  /\ Version(k, page[k]) \in log
                 /\ \A w \in log : w.key = k /\ w.run = tgt'[k].run /\ tgt'[k].val # NoVal
                                     => w.wm <= page[k].wm
                 /\ \A c \in ledger : Ships(c, k) => /\ page[k].val = src[k].val
                                                     /\ page[k].run = src[k].run
      <3>1. k \in Keys /\ page[k].wm \in Nat
        BY DEF PageKeys, SoloInv, CursorInv, TypeOK, PushStates, Rows
      <3>2. CASE tgt'[k] = tgt[k]
        BY <1>2, <3>2 DEF InStep
      <3>3. CASE tgt'[k].run = page[k].run
        BY <1>2, <1>6, <3>1, <3>3 DEF InStep
      <3>. QED BY <1>5, <3>1, <3>2, <3>3
    <2>2. \A c, k : Ships(c, k)' <=> Ships(c, k)
      BY <1>3 DEF Ships, BatchKeys
    <2>. QED BY <1>3, <2>1, <2>2 DEF InStep
  <1>8. Delivered'
    <2>1. ASSUME NEW c \in ledger, NEW k \in Accepted(c), Ships(c, k)
          PROVE  tgt'[k].val = src[k].val
      <3>1. k \in Keys /\ tgt[k].val = src[k].val
        BY <2>1, AcceptedKeys DEF SoloInv, SoleInv, Delivered
      <3>2. k \in PageKeys(page) => page[k].val = src[k].val
        BY <1>2, <2>1 DEF InStep
      <3>. QED BY <1>5, <3>1, <3>2
    <2>2. \A c, k : (Ships(c, k)' <=> Ships(c, k)) /\ Accepted(c)' = Accepted(c)
      BY <1>3 DEF Ships, BatchKeys, Accepted, Rejected
    <2>. QED BY <1>3, <2>1, <2>2 DEF Delivered
  <1>9. AppliedFirst'
    <2>1. ASSUME NEW t \in Slots, req'[t].pc = "ledger", NEW k \in Accepted(req'[t].batch)
          PROVE  tgt'[k].val = req'[t].batch.rows[k]
      <3>1. req'[t].batch = req[t].batch /\ req[t].pc # "idle"
        BY <1>1, <1>4, <2>1
      <3>2. k \in Keys /\ k \in BatchKeys(req[t].batch)
        BY <2>1, <3>1, AcceptedKeys
      <3>3. req[t].batch.rows[k] = page[k].val
        BY <1>2, <3>1, <3>2
      <3>4. CASE tgt'[k] = tgt[k]
        <4>1. CASE t = s
          BY <1>a, <2>1, <3>1, <4>1
        <4>2. CASE t # s
          BY <1>4, <2>1, <3>1, <3>4, <4>2 DEF SoloInv, SoleInv, AppliedFirst
        <4>. QED BY <4>1, <4>2
      <3>. QED BY <1>5, <3>1, <3>2, <3>3, <3>4
    <2>. QED BY <2>1 DEF AppliedFirst, Accepted, Rejected, BatchKeys
  <1>10. Attended'
    BY <1>1, <1>3, <1>4 DEF SoloInv, SoleInv, Attended
  <1>11. Chronicle'
    BY <1>3 DEF SoloInv, SoleInv, Chronicle, Present, TrueBatch, WasVersion
  <1>12. ASSUME NEW k \in Keys, tgt[k].val # NoVal, tgt'[k] # tgt[k],
                NEW old \in StampsOf(k, tgt[k].run), NEW new \in StampsOf(k, tgt'[k].run)
         PROVE  old < new
    <2>1. /\ k \in PageKeys(page) /\ tgt'[k].run = page[k].run /\ tgt[k].val # page[k].val
      BY <1>5, <1>12
    <2>2. PICK v \in log : v.key = k /\ v.run = tgt[k].run /\ v.wm = old
      BY DEF StampsOf
    <2>3. PICK w \in log : w.key = k /\ w.run = page[k].run /\ w.wm = new
      BY <2>1 DEF StampsOf
    <2>4. new = page[k].wm /\ w = Version(k, page[k])
      BY <1>6, <2>1, <2>3
    <2>5. old <= new
      BY <1>2, <1>12, <2>1, <2>2, <2>4 DEF InStep
    <2>6. old # new
      <3>1. SUFFICES ASSUME old = new PROVE FALSE
        OBVIOUS
      <3>2. v = w
        BY <2>2, <2>3, <3>1 DEF SoloInv, SoleInv, Chronicle
      <3>3. v.val = page[k].val
        BY <2>4, <3>2 DEF Version
      <3>4. PICK u \in log : u.key = k /\ u.val = tgt[k].val /\ u.run = tgt[k].run
        BY <1>12 DEF SoloInv, TargetInv, TargetRowIsAVersion
      <3>5. u.wm = v.wm
        BY <2>2, <3>4 DEF SoloInv, SoleInv, Chronicle
      <3>6. u = v
        BY <2>2, <3>4, <3>5 DEF SoloInv, SoleInv, Chronicle
      <3>. QED BY <2>1, <3>3, <3>4, <3>6
    <2>7. old \in Nat /\ new \in Nat
      BY <2>2, <2>3 DEF SoloInv, CursorInv, TypeOK, Versions
    <2>. QED BY <2>5, <2>6, <2>7
  <1>13. \A q \in Pushers : push'[q].pc \in {"post", "wait"} => InStep(push[q])'
    <2>1. \A q \in Pushers : push[q] = push[p]
      BY <1>2
    <2>2. \A q \in Pushers : InStep(push[q])'
      BY <1>2, <1>7
    <2>. QED BY <2>2
  <1>. QED BY <1>8, <1>9, <1>10, <1>11, <1>12, <1>13 DEF SoleInv

(* The ledger gains a batch of the page, which is on the target. *)
LEMMA SoleLedger ==
    ASSUME SolePush, SoloInv, NEW s \in Slots, WriteLedger(s)
    PROVE  SoleInv'
  <1>1. req[s].pc = "ledger"
    BY DEF WriteLedger
  <1>2. PICK p \in Pushers :
             /\ \A q \in Pushers : q = p
             /\ InStep(push[p])
             /\ \A t \in Slots : req[t].pc # "idle" =>
                  \A k \in BatchKeys(req[t].batch) :
                     /\ k \in PageKeys(push[p].page)
                     /\ req[t].batch.rows[k] = push[p].page[k].val
                     /\ req[t].batch.run = push[p].page[k].run
    BY <1>1, SoleSender
  <1>. DEFINE b == req[s].batch
  <1>3. UNCHANGED <<src, log, push, tgt>> /\ ledger' = ledger \cup {b}
    BY DEF WriteLedger, srcVars
  <1>4. /\ \A t \in Slots : t # s => req'[t] = req[t]
        /\ req'[s].pc = "ack"
    BY DEF WriteLedger, SoloInv, CursorInv, TypeOK, ReqStates
  <1>5. TrueBatch(b)
    BY DEF SoloInv, TargetInv, GoodRequest
  <1>6. Chronicle'
    BY <1>3, <1>5 DEF SoloInv, SoleInv, Chronicle, Present, TrueBatch, WasVersion
  <1>7. \A c, k : (Ships(c, k)' <=> Ships(c, k)) /\ Accepted(c)' = Accepted(c)
    BY <1>3 DEF Ships, BatchKeys, Accepted, Rejected
  <1>8. Delivered'
    <2>1. ASSUME NEW k \in Accepted(b), Ships(b, k) PROVE tgt[k].val = src[k].val
      BY <1>1, <2>1 DEF SoloInv, SoleInv, AppliedFirst, Ships
    <2>. QED BY <1>3, <1>7, <2>1 DEF Delivered, SoloInv, SoleInv
  <1>9. \A q \in Pushers : InStep(push[q])'
    <2>1. ASSUME NEW k, Ships(b, k)
          PROVE  push[p].page[k].val = src[k].val /\ push[p].page[k].run = src[k].run
      BY <1>1, <1>2, <2>1 DEF Ships
    <2>2. InStep(push[p])'
      BY <1>2, <1>3, <1>7, <2>1 DEF InStep
    <2>. QED BY <1>2, <2>2
  <1>10. Attended'
    BY <1>1, <1>3, <1>4 DEF SoloInv, SoleInv, Attended
  <1>11. AppliedFirst'
    BY <1>3, <1>4 DEF SoloInv, SoleInv, AppliedFirst, Accepted, Rejected, BatchKeys
  <1>. QED BY <1>6, <1>8, <1>9, <1>10, <1>11 DEF SoleInv

(* Every step of a sole push, its requests and the writers keeps the        *)
(* invariant of this part.                                                  *)
LEMMA SoleStep ==
    ASSUME SolePush, SoloInv, [Next]_vars
    PROVE  SoleInv'
  <1>r. ASSUME NEW s \in Slots, Lookup(s) \/ RequestFails(s) \/ ReplyDropped(s) \/ Preamble(s)
        PROVE  SoleInv'
    <2>1. UNCHANGED <<src, log, tgt, ledger, push>>
      BY <1>r DEF Lookup, RequestFails, ReplyDropped, Preamble, srcVars, tgtVars
    <2>2. \A t \in Slots : t # s => req'[t] = req[t]
      BY <1>r DEF Lookup, RequestFails, ReplyDropped, Preamble, SoloInv, CursorInv, TypeOK
    <2>3. req'[s].pc \in {"idle", "ack", "prov", "nack", "apply"}
      BY <1>r DEF Lookup, RequestFails, ReplyDropped, Preamble, SoloInv, CursorInv, TypeOK,
                  ReqStates, IdleReq
    <2>4. req'[s].pc # "idle" => req[s].pc # "idle"
      BY <1>r DEF Lookup, RequestFails, ReplyDropped, Preamble, SoloInv, CursorInv, TypeOK,
                  ReqStates, IdleReq
    <2>. QED BY <2>1, <2>2, <2>3, <2>4, SoleRequestTurn
  <1>w. ASSUME Writes PROVE SoleInv'
    BY <1>w, SoleWrite DEF Writes
  <1>p. ASSUME NEW p \in Pushers, PushStep(p) PROVE SoleInv'
    BY <1>p, SoleStart, SoleRead, SoleSend, SoleAck, SoleFailure DEF PushStep
  <1>i. ASSUME NEW s \in Slots, InboxStep(s) PROVE SoleInv'
    BY <1>i, <1>r, SoleApply, SoleLedger DEF InboxStep
  <1>f. ASSUME Fault PROVE SoleInv'
    BY <1>f, <1>r, SoleDies, SoleFailure DEF Fault
  <1>u. ASSUME UNCHANGED vars PROVE SoleInv'
    BY <1>u, SoleRequestTurn DEF vars
  <1>. QED BY <1>w, <1>p, <1>i, <1>f, <1>u DEF Next

(* It holds at the start, and then always. *)
LEMMA SoleInvariant == ASSUME SolePush PROVE Spec => []SoloInv
<1>1. Init => SoleInv
  <2>. SUFFICES ASSUME Init PROVE SoleInv
    OBVIOUS
  <2>1. Chronicle /\ Delivered
    BY DEF Init, NoRow, Present, Chronicle, Delivered
  <2>2. Attended /\ AppliedFirst /\ \A p \in Pushers : push[p].pc = "idle"
    BY DEF Init, IdleReq, IdlePush, Attended, AppliedFirst
  <2>. QED BY <2>1, <2>2 DEF SoleInv
<1>2. Spec => [](CursorInv /\ TargetInv)
  BY CursorInvariant, TargetInvariant, PTL DEF SolePush
<1>3. CursorInv /\ TargetInv /\ SoleInv /\ [Next]_vars => SoleInv'
  BY SoleStep DEF SoloInv
<1>4. Spec => []SoleInv
  BY <1>1, <1>2, <1>3, PTL DEF Spec
<1>. QED BY <1>2, <1>4, PTL DEF SoloInv

(* run_push and post_sync_apply: a payload the cursor has passed is on the *)
(* target, whatever was retried, timed out or died on the way: the ledger  *)
(* has its batch, so a batch is never acknowledged from the ledger alone   *)
(* while the target has another payload.                                   *)
THEOREM CaughtUp == ASSUME SolePush PROVE Spec => []TargetCaughtUp
<1>1. SoloInv => TargetCaughtUp
  <2>. SUFFICES ASSUME SoloInv, NEW k \in Keys, AtOrBefore(k, cursor),
                       <<k, src[k].val>> \notin Rejects
                PROVE  tgt[k].val = src[k].val
    BY DEF TargetCaughtUp
  <2>1. PICK b \in ledger : b.run = src[k].run /\ b.rows[k] = src[k].val /\ src[k].val # NoVal
    BY InOrder DEF SolePush, SoloInv, CursorInv, GoodCursor, Covered, LedgeredAs
  <2>2. k \in Accepted(b) /\ Ships(b, k)
    BY <2>1 DEF Accepted, Rejected, BatchKeys, Ships
  <2>. QED BY <2>1, <2>2 DEF SoloInv, SoleInv, Delivered
<1>. QED BY <1>1, SoleInvariant, PTL

(* post_sync_apply: a target row is replaced by newer versions only, also   *)
(* by the retry of a batch and by a page read before the row changed.       *)
THEOREM NeverRegresses == ASSUME SolePush PROVE Spec => TargetNeverRegresses
<1>1. SoloInv /\ [Next]_vars =>
        [\A k \in Keys :
          tgt[k].val # NoVal /\ tgt'[k] # tgt[k] =>
             \A old \in StampsOf(k, tgt[k].run), new \in StampsOf(k, tgt'[k].run) :
                old < new]_tgt
  <2>. SUFFICES ASSUME SoloInv, [Next]_vars, tgt' # tgt
                PROVE  \A k \in Keys :
                         tgt[k].val # NoVal /\ tgt'[k] # tgt[k] =>
                           \A old \in StampsOf(k, tgt[k].run), new \in StampsOf(k, tgt'[k].run) :
                              old < new
    OBVIOUS
  <2>1. PICK s \in Slots : Apply(s)
    BY DEF Next, Writes, SourceWrite, PushStep, StartPush, ReadPage, Drained, Send, ReceiveAck,
           ReceiveError, InboxStep, Lookup, Preamble, WriteLedger, ReplyDropped, Fault, Timeout,
           PushDies, RequestFails, tgtVars, vars
  <2>. QED BY <2>1, SoleApply
<1>. QED BY <1>1, SoleInvariant, PTL DEF Spec, TargetNeverRegresses

(***************************************************************************)
(* The push plane implements the abstract replicated table.  What the      *)
(* invariants above leave to say is how far a push has come: it holds the  *)
(* saved cursor, and its page lies beyond it.                              *)
(***************************************************************************)
OnItsWay(st) ==
    /\ st.cur = cursor
    /\ st.pc \in {"post", "wait"} =>
         /\ Before(st.cur, st.last)
         /\ \A k \in PageKeys(st.page) : ~AtOrBefore(k, st.cur)
Track == \A p \in Pushers : push[p].pc # "idle" => OnItsWay(push[p])

(* A step of the push alone. *)
LEMMA TrackTurn ==
    ASSUME SolePush, SoloInv, src' = src, NEW p \in Pushers, NEW st, Becomes(p, st),
           st.pc # "idle" => st.cur = cursor',
           st.pc \in {"post", "wait"} =>
              /\ Before(st.cur, st.last)
              /\ \A k \in PageKeys(st.page) : ~AtOrBefore(k, st.cur)
    PROVE  Track'
  <1>1. push' = [push EXCEPT ![p] = st] /\ push \in [Pushers -> PushStates]
    BY DEF Becomes, SoloInv, CursorInv, TypeOK
  <1>2. push'[p] = st /\ \A q \in Pushers : q = p
    BY <1>1 DEF SolePush
  <1>3. \A k, q : AtOrBefore(k, q)' <=> AtOrBefore(k, q)
    BY DEF AtOrBefore, Present
  <1>4. (push'[p].pc # "idle") => OnItsWay(push[p])'
    BY <1>2, <1>3 DEF OnItsWay, PageKeys
  <1>. QED BY <1>2, <1>4 DEF Track

(* The cursor of the table's only push is the saved one, and never behind  *)
(* what it has read.                                                       *)
LEMMA TrackStep == ASSUME SolePush, SoloInv, Track, [Next]_vars PROVE Track'
  <1>t. push \in [Pushers -> PushStates]
    BY DEF SoloInv, CursorInv, TypeOK
  <1>w. ASSUME Writes PROVE Track'
    <2>0. PICK K \in SUBSET Keys : \E new \in [K -> Vals] : \E r \in Runs :
            \E stamp \in 1 .. (clock + Lag) : SourceWrite(new, r, stamp)
      BY <1>w DEF Writes
    <2>1. PICK new \in [K -> Vals], r \in Runs, stamp \in 1 .. (clock + Lag) :
            SourceWrite(new, r, stamp)
      BY <2>0
    <2>2. UNCHANGED <<cursor, push>>
      BY <2>1 DEF SourceWrite
    <2>3. ASSUME NEW p \in Pushers, push[p].pc # "idle" PROVE OnItsWay(push[p])'
      <3>1. push[p].cur \in Positions /\ push[p].cur.wm <= clock /\ OnItsWay(push[p])
        BY <1>t, <2>3 DEF PushStates, Track, SoloInv, CursorInv, GoodPush, GoodCursor
      <3>2. \A k \in Keys : AtOrBefore(k, push[p].cur)' => AtOrBefore(k, push[p].cur)
        <4>1. PICK q \in Positions : q = push[p].cur
          BY <3>1
        <4>2. \A k \in Keys : AtOrBefore(k, q)' => AtOrBefore(k, q)
          BY <2>1, <3>1, <4>1, WriteIsAhead DEF SolePush, SoloInv, CursorInv
        <4>3. q = push'[p].cur
          BY <2>2, <4>1
        <4>. QED BY <4>1, <4>2, <4>3 DEF AtOrBefore, Present
      <3>. QED BY <2>2, <3>1, <3>2 DEF OnItsWay, PageKeys
    <2>. QED BY <2>2, <2>3 DEF Track
  <1>s. ASSUME NEW p \in Pushers, StartPush(p) \/ Drained(p) PROVE Track'
    <2>1. PICK st : st = [push[p] EXCEPT !.pc = "read", !.cur = cursor]
      OBVIOUS
    <2>2. st.pc = "read" /\ st.cur = cursor
      BY <1>t, <2>1 DEF PushStates
    <2>3. PICK th : th = IdlePush
      OBVIOUS
    <2>4. th.pc = "idle"
      BY <2>3 DEF IdlePush
    <2>5. UNCHANGED <<src, cursor>> /\ (Becomes(p, st) \/ Becomes(p, th))
      BY <1>s, <2>1, <2>3 DEF StartPush, Drained, srcVars
    <2>. QED BY <2>2, <2>4, <2>5, TrackTurn
  <1>r. ASSUME NEW p \in Pushers, ReadPage(p) PROVE Track'
    <2>1. PICK K \in SUBSET Keys, m \in Keys :
            /\ m \in K
            /\ IsPage(K, push[p].cur)
            /\ Becomes(p, [push[p] EXCEPT !.pc = "post", !.page = Snapshot(K),
                                          !.last = Pos(src[m]),
                                          !.todo = {src[k].run : k \in K},
                                          !.att = 0])
      BY <1>r DEF ReadPage
    <2>2. PICK st : st = [push[p] EXCEPT !.pc = "post", !.page = Snapshot(K),
                                         !.last = Pos(src[m]),
                                         !.todo = {src[k].run : k \in K},
                                         !.att = 0]
      OBVIOUS
    <2>3. /\ st.cur = push[p].cur /\ st.page = Snapshot(K) /\ st.last = Pos(src[m])
      BY <1>t, <2>2 DEF PushStates
    <2>4. \A k \in K : Before(push[p].cur, Pos(src[k]))
      BY <2>1 DEF IsPage, After
    <2>5. PageKeys(st.page) \subseteq K
      BY <2>3 DEF PageKeys, Snapshot, NoRow
    <2>6. Before(st.cur, st.last) /\ \A k \in PageKeys(st.page) : ~AtOrBefore(k, st.cur)
      <3>1. Before(st.cur, st.last)
        BY <2>1, <2>3, <2>4
      <3>2. \A k \in K : Before(st.cur, Pos(src[k]))
        BY <2>3, <2>4
      <3>. QED BY <2>5, <3>1, <3>2 DEF AtOrBefore
    <2>7. st.cur = cursor /\ UNCHANGED <<src, cursor>>
      BY <1>r, <2>3 DEF ReadPage, srcVars, Track, OnItsWay
    <2>. QED BY <2>1, <2>2, <2>6, <2>7, TrackTurn
  <1>p. ASSUME NEW p \in Pushers, push[p].pc \in {"post", "wait"}, src' = src,
               NEW st, Becomes(p, st), cursor' = cursor,
               st.cur = push[p].cur, st.page = push[p].page, st.last = push[p].last
        PROVE  Track'
    <2>1. OnItsWay(push[p])
      BY <1>p DEF Track
    <2>. QED BY <1>p, <2>1, TrackTurn DEF OnItsWay
  <1>d. ASSUME NEW p \in Pushers, NEW s \in Slots, Send(p, s) PROVE Track'
    <2>1. PICK st : st = [push[p] EXCEPT !.pc = "wait", !.att = @ + 1, !.slot = {s}]
      OBVIOUS
    <2>2. st.cur = push[p].cur /\ st.page = push[p].page /\ st.last = push[p].last
      BY <1>t, <2>1 DEF PushStates
    <2>3. push[p].pc = "post" /\ UNCHANGED <<src, cursor>> /\ Becomes(p, st)
      BY <1>d, <2>1 DEF Send, srcVars
    <2>. QED BY <1>p, <2>2, <2>3
  <1>a. ASSUME NEW p \in Pushers, NEW s \in Slots, ReceiveAck(p, s) PROVE Track'
    <2>1. PICK st : st = [push[p] EXCEPT !.pc = "post",
                                         !.todo = push[p].todo \ {req[s].batch.run},
                                         !.att = 0, !.slot = {}]
      OBVIOUS
    <2>2. st.cur = push[p].cur /\ st.page = push[p].page /\ st.last = push[p].last
      BY <1>t, <2>1 DEF PushStates
    <2>3. PICK th : th = [IdlePush EXCEPT !.pc = "read", !.cur = push[p].last]
      OBVIOUS
    <2>4. th.pc = "read" /\ th.cur = push[p].last
      BY <2>3 DEF IdlePush
    <2>5. /\ push[p].pc = "wait" /\ src' = src
          /\ \/ Becomes(p, st) /\ cursor' = cursor
             \/ Becomes(p, th) /\ cursor' = push[p].last
      BY <1>a, <2>1, <2>3 DEF ReceiveAck, srcVars
    <2>. QED BY <1>p, <2>2, <2>4, <2>5, TrackTurn
  <1>e. ASSUME NEW p \in Pushers, NEW s \in Slots, ReceiveError(p, s) \/ Timeout(p, s)
        PROVE  Track'
    <2>1. PICK st : st = [push[p] EXCEPT !.pc = "post", !.slot = {}]
      OBVIOUS
    <2>2. st.cur = push[p].cur /\ st.page = push[p].page /\ st.last = push[p].last
      BY <1>t, <2>1 DEF PushStates
    <2>3. PICK th : th = IdlePush
      OBVIOUS
    <2>4. th.pc = "idle"
      BY <2>3 DEF IdlePush
    <2>5. push[p].pc = "wait" /\ src' = src /\ AttemptFailed(p)
      BY <1>e DEF ReceiveError, Timeout, srcVars
    <2>6. \/ Becomes(p, st) /\ cursor' = cursor
          \/ Becomes(p, th)
      BY <2>1, <2>3, <2>5 DEF AttemptFailed
    <2>. QED BY <1>p, <2>2, <2>4, <2>5, <2>6, TrackTurn
  <1>x. ASSUME NEW p \in Pushers, PushDies(p) PROVE Track'
    <2>1. PICK th : th = IdlePush
      OBVIOUS
    <2>2. th.pc = "idle" /\ src' = src /\ Becomes(p, th)
      BY <1>x, <2>1 DEF IdlePush, PushDies, srcVars
    <2>. QED BY <2>2, TrackTurn
  <1>u. ASSUME UNCHANGED <<src, cursor, push>> PROVE Track'
    BY <1>u DEF Track, OnItsWay, AtOrBefore, Present, PageKeys
  <1>i. ASSUME NEW s \in Slots, InboxStep(s) \/ RequestFails(s) PROVE Track'
    BY <1>i, <1>u DEF InboxStep, RequestFails, Lookup, Preamble, Apply, WriteLedger,
                      ReplyDropped, srcVars
  <1>v. ASSUME UNCHANGED vars PROVE Track'
    BY <1>v, <1>u DEF vars
  <1>. QED BY <1>w, <1>s, <1>r, <1>d, <1>a, <1>e, <1>x, <1>i, <1>v DEF Next, PushStep, Fault

(* A commit of the source is a Commit of the table: new versions only, and *)
(* what they replace no longer counts as delivered.                        *)
LEMMA CommitMaps ==
    ASSUME SolePush, SoloInv, NEW K \in SUBSET Keys, NEW new \in [K -> Vals],
           NEW r \in Runs, NEW stamp \in 1 .. (clock + Lag),
           SourceWrite(new, r, stamp)
    PROVE  Table!Commit
  <1>1. /\ UNCHANGED <<cursor, tgt>>
        /\ log' = log \cup {Version(k, src'[k]) : k \in Changed(new)}
        /\ stamp > clock /\ clock \in Nat /\ stamp \in Nat
        /\ Changed(new) \subseteq Keys /\ Changed(new) # {}
        /\ \A w \in log : w.wm <= clock /\ w.wm \in Nat /\ w.run # r
    BY CommitShape
  <1>2. \A k \in Keys : IF k \in Changed(new)
                        THEN src'[k].wm = stamp /\ src'[k].run = r
                        ELSE src'[k] = src[k]
    BY CommitShape
  <1>3. \A w \in log' \ log : /\ w.key \in Changed(new) /\ w.wm = stamp
                              /\ w = Version(w.key, src'[w.key])
    BY CommitShape
  <1>4. \A k \in Changed(new) : /\ Version(k, src'[k]) \in log' \ log
                                /\ Version(k, src'[k]).key = k
    BY <1>1, <1>2 DEF Version
  <1>5. {w.key : w \in log' \ log} = Changed(new)
    BY <1>3, <1>4
  <1>6. \A v, w \in log' \ log : v.key = w.key => v = w
    BY <1>3
  <1>7. \A v \in log, w \in log' \ log : v.key = w.key => v.wm < w.wm
    BY <1>1, <1>3
  <1>8. \A k \in Keys : AtOrBefore(k, cursor)' <=> AtOrBefore(k, cursor) /\ k \notin Changed(new)
    <2>1. ASSUME NEW k \in Keys, AtOrBefore(k, cursor)'
          PROVE  AtOrBefore(k, cursor) /\ k \notin Changed(new)
      <3>1. PICK q \in Positions : q = cursor
        BY DEF SoloInv, CursorInv, TypeOK
      <3>2. AtOrBefore(k, q)'
        BY <1>1, <2>1, <3>1 DEF AtOrBefore, Present
      <3>3. src'[k] = src[k] /\ AtOrBefore(k, q)
        BY <3>1, <3>2, WriteIsAhead DEF SolePush, SoloInv, CursorInv, GoodCursor
      <3>4. k \notin Changed(new)
        <4>1. SUFFICES ASSUME k \in Changed(new) PROVE FALSE
          OBVIOUS
        <4>2. src[k].wm <= clock /\ src[k].wm \in Nat
          BY DEF SoloInv, CursorInv, TypeOK, Rows
        <4>. QED BY <1>1, <1>2, <3>3, <4>1, <4>2
      <3>. QED BY <3>1, <3>3, <3>4
    <2>2. ASSUME NEW k \in Keys, AtOrBefore(k, cursor), k \notin Changed(new)
          PROVE  AtOrBefore(k, cursor)'
      BY <1>1, <1>2, <2>2 DEF AtOrBefore, Present
    <2>. QED BY <2>1, <2>2
  <1>9. Passed' = Passed \ {w.key : w \in log' \ log}
    BY <1>5, <1>8 DEF Passed
  <1>10. log \subseteq log' /\ log' \ log # {}
    BY <1>1, <1>4
  <1>. QED BY <1>1, <1>6, <1>7, <1>9, <1>10 DEF Table!Commit

(* A batch that lands is an Install: each row it changes becomes a newer   *)
(* version, and none of them is behind the cursor.                         *)
LEMMA ApplyMaps ==
    ASSUME SolePush, SoloInv, Track, NEW s \in Slots, Apply(s)
    PROVE  Table!Install
  <1>1. req[s].pc # "idle" /\ UNCHANGED <<src, log, cursor>>
    BY DEF Apply, srcVars
  <1>2. PICK p \in Pushers :
             /\ \A q \in Pushers : q = p
             /\ InStep(push[p])
             /\ \A t \in Slots : req[t].pc # "idle" =>
                  \A k \in BatchKeys(req[t].batch) :
                     /\ k \in PageKeys(push[p].page)
                     /\ req[t].batch.rows[k] = push[p].page[k].val
                     /\ req[t].batch.run = push[p].page[k].run
    BY <1>1, SoleSender
  <1>. DEFINE page == push[p].page
              b == req[s].batch
  <1>3. push[p].pc = "wait" /\ OnItsWay(push[p])
    <2>1. push[p].slot # {}
      BY <1>1, <1>2 DEF SoloInv, SoleInv, Attended
    <2>. QED BY <2>1 DEF SoloInv, CursorInv, GoodPush, OwnsRequests, Track
  <1>4. \A k \in Keys : tgt'[k] = IF k \in Accepted(b) /\ tgt[k].val # b.rows[k]
                                  THEN [val |-> b.rows[k], run |-> b.run]
                                  ELSE tgt[k]
    BY DEF Apply
  <1>5. tgt' = [k \in Keys |-> tgt'[k]]
    BY DEF Apply
  <1>6. ASSUME NEW k \in Keys, tgt'[k] # tgt[k]
        PROVE  /\ k \in PageKeys(page)
               /\ tgt'[k] = [val |-> page[k].val, run |-> page[k].run]
    <2>1. k \in Accepted(b) /\ tgt'[k] = [val |-> b.rows[k], run |-> b.run]
      BY <1>4, <1>6
    <2>. QED BY <1>1, <1>2, <2>1, AcceptedKeys
  <1>7. ASSUME NEW k \in Keys, tgt'[k] # tgt[k]
        PROVE  \E w \in log : Table!Takes(k, w)
    <2>1. PICK w : w = Version(k, page[k])
      OBVIOUS
    <2>2. /\ w \in log /\ w.key = k /\ w.run = page[k].run /\ w.val = page[k].val
      BY <1>2, <1>6, <1>7, <2>1 DEF InStep, Version
    <2>3. tgt'[k] = [val |-> w.val, run |-> w.run] /\ tgt'[k].run = w.run
      BY <1>6, <1>7, <2>2
    <2>4. ASSUME tgt[k].val # NoVal, NEW v \in log, v.key = k, v.run = tgt[k].run
          PROVE  v.wm < w.wm
      <3>1. v.wm \in StampsOf(k, tgt[k].run)
        BY <2>4 DEF StampsOf
      <3>2. w.wm \in StampsOf(k, tgt'[k].run)
        BY <2>2, <2>3 DEF StampsOf
      <3>. QED BY <1>7, <2>4, <3>1, <3>2, SoleApply
    <2>5. Table!Newer(w)
      BY <2>2, <2>4 DEF Table!Newer
    <2>. QED BY <2>2, <2>3, <2>5 DEF Table!Takes
  <1>8. ASSUME NEW k \in Passed PROVE tgt'[k] = tgt[k]
    <2>1. k \in Keys /\ AtOrBefore(k, push[p].cur)
      BY <1>3 DEF Passed, OnItsWay
    <2>. QED BY <1>3, <1>6, <2>1 DEF OnItsWay
  <1>9. Passed' = Passed
    BY <1>1 DEF Passed, AtOrBefore, Present
  <1>. QED BY <1>1, <1>5, <1>7, <1>8, <1>9 DEF Table!Install

(* A cursor that moves is a Confirm: it passes more rows, all in their     *)
(* newest version, and the target has each or refuses it.                  *)
LEMMA CursorMaps ==
    ASSUME SoloInv, TargetCaughtUp', UNCHANGED <<src, log, tgt>>,
           cursor' = cursor \/ Before(cursor, cursor'), cursor' \in Positions
    PROVE  Table!Confirm
  <1>1. \A k \in Keys : AtOrBefore(k, cursor) => AtOrBefore(k, cursor)'
    <2>1. ASSUME NEW k \in Keys, AtOrBefore(k, cursor) PROVE AtOrBefore(k, cursor)'
      <3>1. cursor \in Positions /\ Pos(src[k]) \in Positions
        BY PosType DEF SoloInv, CursorInv, TypeOK
      <3>2. ~Before(cursor', Pos(src[k]))
        BY <2>1, <3>1 DEF AtOrBefore, Before, Positions
      <3>. QED BY <2>1, <3>2 DEF AtOrBefore, Present
    <2>. QED BY <2>1
  <1>2. Passed \subseteq Passed' /\ Passed' \subseteq Keys
    BY <1>1 DEF Passed
  <1>3. ASSUME NEW k \in Passed'
        PROVE  \E w \in log : /\ w.key = k /\ Table!Newest(w)
                              /\ tgt[k].val = w.val \/ <<k, w.val>> \in Rejects
    <2>1. k \in Keys /\ Present(k) /\ AtOrBefore(k, cursor)'
      BY <1>3 DEF Passed, AtOrBefore, Present
    <2>2. PICK w : w = Version(k, src[k])
      OBVIOUS
    <2>3. w \in log /\ w.key = k /\ w.val = src[k].val /\ w.wm = src[k].wm
      BY <2>1, <2>2 DEF SoloInv, SoleInv, Chronicle, Version
    <2>4. Table!Newest(w)
      BY <2>3 DEF Table!Newest, SoloInv, SoleInv, Chronicle
    <2>5. tgt[k].val = w.val \/ <<k, w.val>> \in Rejects
      BY <2>1, <2>3 DEF TargetCaughtUp
    <2>. QED BY <2>3, <2>4, <2>5
  <1>. QED BY <1>2, <1>3 DEF Table!Confirm

(* Each step of the plane is a step of the table or leaves it alone. *)
LEMMA StepMaps ==
    ASSUME SolePush, SoloInv, Track, SoloInv', TargetCaughtUp', [Next]_vars
    PROVE  [Table!Next]_(Table!table)
  <1>w. CASE Writes
    BY <1>w, CommitMaps DEF Writes, Table!Next
  <1>s. ASSUME UNCHANGED <<src, log, tgt, cursor>> PROVE [Table!Next]_(Table!table)
    BY <1>s DEF Table!table, Passed, AtOrBefore, Present
  <1>c. ASSUME NEW p \in Pushers, push[p].pc = "wait", UNCHANGED <<src, log, tgt>>,
               cursor' \in {cursor, push[p].cur, push[p].last}
        PROVE  [Table!Next]_(Table!table)
    <2>1. cursor' = cursor \/ Before(cursor, cursor')
      BY <1>c DEF Track, OnItsWay
    <2>2. cursor' \in Positions
      BY DEF SoloInv, CursorInv, TypeOK
    <2>. QED BY <1>c, <2>1, <2>2, CursorMaps DEF Table!Next
  <1>p. ASSUME NEW p \in Pushers, PushStep(p) PROVE [Table!Next]_(Table!table)
    <2>1. CASE StartPush(p) \/ ReadPage(p) \/ Drained(p) \/ \E s \in Slots : Send(p, s)
      BY <1>s, <2>1 DEF StartPush, ReadPage, Drained, Send, srcVars, tgtVars
    <2>2. ASSUME NEW s \in Slots, ReceiveAck(p, s) PROVE [Table!Next]_(Table!table)
      BY <1>c, <2>2 DEF ReceiveAck, srcVars, tgtVars
    <2>3. ASSUME NEW s \in Slots, ReceiveError(p, s) PROVE [Table!Next]_(Table!table)
      BY <1>c, <2>3 DEF ReceiveError, AttemptFailed, srcVars, tgtVars
    <2>. QED BY <1>p, <2>1, <2>2, <2>3 DEF PushStep
  <1>i. ASSUME NEW s \in Slots, InboxStep(s) PROVE [Table!Next]_(Table!table)
    <2>1. CASE Apply(s)
      BY <2>1, ApplyMaps DEF Table!Next
    <2>2. CASE Lookup(s) \/ Preamble(s) \/ WriteLedger(s) \/ ReplyDropped(s)
      BY <1>s, <2>2 DEF Lookup, Preamble, WriteLedger, ReplyDropped, srcVars, tgtVars
    <2>. QED BY <1>i, <2>1, <2>2 DEF InboxStep
  <1>f. ASSUME Fault PROVE [Table!Next]_(Table!table)
    <2>1. ASSUME NEW p \in Pushers, PushDies(p) PROVE [Table!Next]_(Table!table)
      BY <1>s, <2>1 DEF PushDies, srcVars, tgtVars
    <2>2. ASSUME NEW p \in Pushers, NEW s \in Slots, Timeout(p, s)
          PROVE  [Table!Next]_(Table!table)
      BY <1>c, <2>2 DEF Timeout, AttemptFailed, srcVars, tgtVars
    <2>3. ASSUME NEW s \in Slots, RequestFails(s) PROVE [Table!Next]_(Table!table)
      BY <1>s, <2>3 DEF RequestFails, srcVars, tgtVars
    <2>. QED BY <1>f, <2>1, <2>2, <2>3 DEF Fault
  <1>u. CASE UNCHANGED vars
    BY <1>s, <1>u DEF vars
  <1>. QED BY <1>w, <1>p, <1>i, <1>f, <1>u DEF Next

(* run_push and post_sync_apply together: between two commits of the        *)
(* source the target only takes newer versions, and a row the cursor has    *)
(* passed has arrived in its newest one and is not touched again.           *)
THEOREM PlaneReplicates == ASSUME SolePush PROVE Spec => Replicates
<1>1. Init => Table!Init
  <2>. SUFFICES ASSUME Init PROVE Table!Init
    OBVIOUS
  <2>1. Passed = {}
    BY DEF Init, Passed, AtOrBefore, Present, NoRow
  <2>. QED BY <2>1 DEF Init, Table!Init
<1>2. Init => Track
  BY DEF Init, Track, IdlePush
<1>3. Spec => []Track
  BY <1>2, TrackStep, SoleInvariant, PTL DEF Spec
<1>. QED BY <1>1, <1>3, StepMaps, SoleInvariant, CaughtUp, PTL DEF Spec, Replicates, Table!Spec
=============================================================================
