--------------------------- MODULE LlmPoolProofs ---------------------------
(***************************************************************************)
(* What the LLM gateway keeps true for any settings, any number of         *)
(* requests and backends and any outages: slots, metering, the one voice   *)
(* of a hedged stream, the honest model list and the spill by tier.        *)
(* Inductions over data go by the least counterexample (LeastNat), as the  *)
(* library's induction theorems take an operator.                          *)
(***************************************************************************)
EXTENDS LlmPool, FiniteSetTheorems, SequenceTheorems, WellFoundedInduction, TLAPS

(* A set of numbers has a least one: what the inductions over data below  *)
(* rest on.                                                                *)
LEMMA LeastNat ==
    ASSUME NEW T, T \subseteq Nat, T # {}
    PROVE  \E x \in T : \A y \in T : x <= y
  <1>. DEFINE R == {ss \in Nat \X Nat : ss[1] < ss[2]}
  <1>1. IsWellFoundedOn(R, Nat)
    BY NatLessThanWellFounded DEF OpToRel
  <1>. HIDE DEF R
  <1>2. PICK x \in T : \A y \in T : ~ (<<y, x>> \in R)
    BY <1>1, WFMin
  <1>3. ASSUME NEW y \in T PROVE x <= y
    <2>1. ~ (<<y, x>> \in R)
      BY <1>2
    <2>2. <<y, x>> \in R <=> y < x
      BY DEF R
    <2>. QED BY <2>1, <2>2
  <1>. QED BY <1>3

(* A run of numbers that starts outside a set and never enters it at a      *)
(* step is outside it: a set of counterexamples that has no least one.      *)
LEMMA NoLeast ==
    ASSUME NEW n \in Nat, NEW T, T \subseteq 0 .. n, 0 \notin T,
           \A k \in 1 .. n : k \in T => k - 1 \in T
    PROVE  T = {}
  <1>1. SUFFICES ASSUME T # {} PROVE FALSE
    OBVIOUS
  <1>2. PICK x \in T : \A y \in T : x <= y
    <2>1. T \subseteq Nat
      OBVIOUS
    <2>. QED BY <1>1, <2>1, LeastNat
  <1>3. x \in 1 .. n
    BY <1>2
  <1>. QED BY <1>2, <1>3

-----------------------------------------------------------------------------
(* A place is a pair of numbers in range, and an entry is at it. *)
LEMMA PlaceType ==
    ASSUME NEW rows \in Seq(Seq(Entries)), NEW p \in Places(rows)
    PROVE  /\ p \in Nat \X Nat /\ p = <<p[1], p[2]>>
           /\ p[1] \in 1 .. Len(rows) /\ p[2] \in 1 .. Len(rows[p[1]])
           /\ At(rows, p) \in Entries
  <1>1. PICK i \in DOMAIN rows : p \in {<<i, j>> : j \in DOMAIN rows[i]}
    BY DEF Places
  <1>2. PICK j \in DOMAIN rows[i] : p = <<i, j>>
    BY <1>1
  <1>3. i \in 1 .. Len(rows) /\ rows[i] \in Seq(Entries)
    BY <1>1
  <1>4. j \in 1 .. Len(rows[i]) /\ rows[i][j] \in Entries
    BY <1>2, <1>3
  <1>. QED BY <1>2, <1>3, <1>4 DEF At

(* Every pair in range is a place. *)
LEMMA PlaceIs ==
    ASSUME NEW rows \in Seq(Seq(Entries)), NEW i \in 1 .. Len(rows), NEW j \in 1 .. Len(rows[i])
    PROVE  <<i, j>> \in Places(rows)
  <1>1. rows[i] \in Seq(Entries)
    OBVIOUS
  <1>2. i \in DOMAIN rows /\ j \in DOMAIN rows[i]
    BY <1>1
  <1>. QED BY <1>2 DEF Places

(* A roster has finitely many entries. *)
LEMMA PlacesFinite ==
    ASSUME NEW rows \in Seq(Seq(Entries))
    PROVE  IsFiniteSet(Places(rows))
  <1>. DEFINE upTo(n) == {p \in Places(rows) : p[1] <= n}
              T == {n \in 0 .. Len(rows) : ~ IsFiniteSet(upTo(n))}
  <1>1. upTo(0) = {}
    BY PlaceType
  <1>2. 0 \notin T
    BY <1>1, FS_EmptySet
  <1>3. ASSUME NEW k \in 1 .. Len(rows), IsFiniteSet(upTo(k - 1)) PROVE IsFiniteSet(upTo(k))
    <2>. DEFINE row == {<<k, j>> : j \in 1 .. Len(rows[k])}
                f == [j \in 1 .. Len(rows[k]) |-> <<k, j>>]
    <2>1. Len(rows[k]) \in Nat
      OBVIOUS
    <2>2. f \in Surjection(1 .. Len(rows[k]), row)
      BY DEF Surjection
    <2>3. IsFiniteSet(row)
      BY <2>1, <2>2, FS_Interval, FS_Surjection
    <2>4. upTo(k) \subseteq upTo(k - 1) \cup row
      <3>1. ASSUME NEW p \in upTo(k) PROVE p \in upTo(k - 1) \cup row
        <4>1. p \in Places(rows) /\ p[1] <= k
          OBVIOUS
        <4>2. p = <<p[1], p[2]>> /\ p[1] \in Nat /\ p[2] \in 1 .. Len(rows[p[1]])
          BY <4>1, PlaceType
        <4>3. CASE p[1] = k
          BY <4>2, <4>3
        <4>4. CASE p[1] # k
          BY <4>1, <4>2, <4>4
        <4>. QED BY <4>3, <4>4
      <3>. QED BY <3>1
    <2>5. IsFiniteSet(upTo(k - 1) \cup row)
      BY <1>3, <2>3, FS_Union
    <2>. QED BY <2>4, <2>5, FS_Subset
  <1>4. T = {}
    <2>1. \A k \in 1 .. Len(rows) : k \in T => k - 1 \in T
      <3>1. ASSUME NEW k \in 1 .. Len(rows), k - 1 \notin T PROVE k \notin T
        <4>1. k - 1 \in 0 .. Len(rows)
          OBVIOUS
        <4>2. IsFiniteSet(upTo(k - 1))
          BY <3>1, <4>1
        <4>. QED BY <1>3, <4>2
      <3>. QED BY <3>1
    <2>2. T \subseteq 0 .. Len(rows) /\ Len(rows) \in Nat
      OBVIOUS
    <2>. HIDE DEF T
    <2>. QED BY <1>2, <2>1, <2>2, NoLeast
  <1>5. IsFiniteSet(upTo(Len(rows)))
    <2>1. Len(rows) \in 0 .. Len(rows)
      OBVIOUS
    <2>. QED BY <1>4, <2>1
  <1>6. upTo(Len(rows)) = Places(rows)
    BY PlaceType
  <1>. QED BY <1>5, <1>6

(* The order of the places is a strict one, and total. *)
LEMMA BeforeOrders ==
    ASSUME NEW p \in Nat \X Nat, NEW q \in Nat \X Nat, NEW o \in Nat \X Nat
    PROVE  /\ ~ Before(p, p)
           /\ Before(p, q) /\ Before(q, o) => Before(p, o)
           /\ p # q => Before(p, q) \/ Before(q, p)
  BY DEF Before

(* Every URL has a first place, and no two. *)
LEMMA FirstExists ==
    ASSUME NEW rows \in Seq(Seq(Entries)), NEW p \in Places(rows)
    PROVE  \E f \in Firsts(rows) : At(rows, f).url = At(rows, p).url
  <1>. DEFINE S == {q \in Places(rows) : At(rows, q).url = At(rows, p).url}
              I == {i \in Nat : \E q \in S : q[1] = i}
  <1>1. PICK i \in I : \A k \in I : i <= k
    <2>1. p[1] \in I
      BY PlaceType
    <2>2. I \subseteq Nat
      OBVIOUS
    <2>. HIDE DEF I
    <2>. QED BY <2>1, <2>2, LeastNat
  <1>. DEFINE J == {j \in Nat : \E q \in S : q[1] = i /\ q[2] = j}
  <1>2. PICK j \in J : \A k \in J : j <= k
    <2>1. PICK q \in S : q[1] = i
      OBVIOUS
    <2>2. q[2] \in J
      BY <2>1, PlaceType
    <2>3. J \subseteq Nat
      OBVIOUS
    <2>. HIDE DEF J
    <2>. QED BY <2>2, <2>3, LeastNat
  <1>3. PICK f \in S : f[1] = i /\ f[2] = j
    OBVIOUS
  <1>4. ASSUME NEW q \in Places(rows), Before(q, f), At(rows, q).url = At(rows, f).url
        PROVE  FALSE
    <2>1. q \in S /\ q \in Nat \X Nat /\ f \in Nat \X Nat
      BY <1>3, <1>4, PlaceType
    <2>2. q[1] \in I
      BY <2>1
    <2>3. i <= q[1]
      BY <1>1, <2>2
    <2>4. q[1] = i /\ q[2] < j
      BY <1>3, <1>4, <2>1, <2>3 DEF Before
    <2>5. q[2] \in J
      BY <2>1, <2>4
    <2>6. j <= q[2]
      BY <1>2, <2>5
    <2>. QED BY <2>1, <2>4, <2>6
  <1>. QED BY <1>3, <1>4 DEF Firsts

LEMMA FirstUnique ==
    ASSUME NEW rows \in Seq(Seq(Entries)), NEW p \in Firsts(rows), NEW q \in Firsts(rows),
           At(rows, p).url = At(rows, q).url
    PROVE  p = q
  <1>1. p \in Nat \X Nat /\ q \in Nat \X Nat
    BY PlaceType DEF Firsts
  <1>2. ~ Before(p, q) /\ ~ Before(q, p)
    BY DEF Firsts
  <1>. QED BY <1>1, <1>2, BeforeOrders

(* Of a finite set of places there is an n-th. *)
LEMMA NthIs ==
    ASSUME NEW ps, IsFiniteSet(ps), ps \subseteq Nat \X Nat, NEW n \in 1 .. Cardinality(ps)
    PROVE  Nth(ps, n) \in ps
  <1>. DEFINE less(p) == {q \in ps : Before(q, p)}
              N == Cardinality(ps)
              rank == [p \in ps |-> Cardinality(less(p))]
  <1>1. N \in Nat
    BY FS_CardinalityType
  <1>2. ASSUME NEW p \in ps PROVE IsFiniteSet(less(p)) /\ Cardinality(less(p)) \in 0 .. N - 1
    <2>1. p \notin less(p)
      BY BeforeOrders
    <2>2. IsFiniteSet(less(p)) /\ Cardinality(less(p)) <= N /\ Cardinality(less(p)) # N
      BY <2>1, FS_Subset
    <2>3. Cardinality(less(p)) \in Nat
      BY <2>2, FS_CardinalityType
    <2>. QED BY <1>1, <2>2, <2>3
  <1>3. ASSUME NEW p \in ps, NEW q \in ps, Before(p, q) PROVE rank[p] # rank[q]
    <2>1. less(p) \subseteq less(q) /\ p \in less(q) /\ p \notin less(p)
      BY <1>3, BeforeOrders
    <2>. QED BY <1>2, <2>1, FS_Subset
  <1>4. rank \in Injection(ps, 0 .. N - 1)
    <2>1. rank \in [ps -> 0 .. N - 1]
      BY <1>2
    <2>2. ASSUME NEW p \in ps, NEW q \in ps, rank[p] = rank[q] PROVE p = q
      BY <1>3, <2>2, BeforeOrders
    <2>. HIDE DEF rank
    <2>. QED BY <2>1, <2>2 DEF Injection, IsInjective
  <1>5. IsFiniteSet(0 .. N - 1) /\ Cardinality(0 .. N - 1) = N
    <2>. HIDE DEF N
    <2>1. N - 1 \in Int /\ 0 \in Int /\ (N - 1) - 0 + 1 = N /\ (0 > N - 1 <=> N = 0)
      BY <1>1
    <2>. QED BY <1>1, <2>1, FS_Interval
  <1>6. rank \in Surjection(ps, 0 .. N - 1)
    <2>. HIDE DEF rank
    <2>. QED BY <1>4, <1>5, FS_Injection
  <1>7. n - 1 \in 0 .. N - 1
    BY <1>1
  <1>8. PICK p \in ps : rank[p] = n - 1
    BY <1>6, <1>7 DEF Surjection
  <1>9. \E p_1 \in ps : Cardinality({q \in ps : Before(q, p_1)}) = n - 1
    BY <1>8
  <1>. QED BY <1>9 DEF Nth

(* intern_backends: the rows it sees, and what it makes of them. *)
LEMMA RowsType ==
    ASSUME NEW c, c.roster \in Seq(Rows), c.primary \in Seq(Entries)
    PROVE  /\ Roster(c) \in Seq(Seq(Entries)) /\ Len(Roster(c)) = Len(c.roster)
           /\ \A i \in 1 .. Len(c.roster) : Roster(c)[i] = c.roster[i].urls
           /\ InternOrder(c) \in Seq(Seq(Entries))
           /\ Len(InternOrder(c)) = Len(c.roster) + 1
           /\ \A i \in 1 .. Len(c.roster) : InternOrder(c)[i] = c.roster[i].urls
           /\ InternOrder(c)[Len(c.roster) + 1] = c.primary
  <1>1. Len(c.roster) \in Nat
    OBVIOUS
  <1>2. \A i \in 1 .. Len(c.roster) : c.roster[i].urls \in Seq(Entries)
    <2>1. \A i \in 1 .. Len(c.roster) : c.roster[i] \in Rows
      BY ElementOfSeq
    <2>. QED BY <2>1 DEF Rows
  <1>3. /\ Roster(c) \in Seq(Seq(Entries)) /\ Len(Roster(c)) = Len(c.roster)
        /\ \A i \in 1 .. Len(c.roster) : Roster(c)[i] = c.roster[i].urls
    BY <1>1, <1>2 DEF Roster
  <1>. QED BY <1>1, <1>3, AppendProperties DEF InternOrder

(* FirstOf finds the first entry of a URL that has one. *)
LEMMA FirstOfIs ==
    ASSUME NEW rows \in Seq(Seq(Entries)), NEW p \in Places(rows)
    PROVE  /\ FirstOf(rows, At(rows, p).url) \in Entries
           /\ FirstOf(rows, At(rows, p).url).url = At(rows, p).url
           /\ p \in Firsts(rows) => FirstOf(rows, At(rows, p).url) = At(rows, p)
  <1>. DEFINE b == At(rows, p).url
              f == CHOOSE q \in Firsts(rows) : At(rows, q).url = b
  <1>1. f \in Firsts(rows) /\ At(rows, f).url = b
    BY FirstExists
  <1>2. At(rows, f) \in Entries
    BY <1>1, PlaceType DEF Firsts
  <1>3. p \in Firsts(rows) => p = f
    BY <1>1, FirstUnique
  <1>. QED BY <1>1, <1>2, <1>3 DEF FirstOf

(* A URL of the roster keeps the handle that the roster gives it. *)
LEMMA RosterWins ==
    ASSUME NEW c, c.roster \in Seq(Rows),
           c.primary \in Seq(Entries), NEW p \in Places(Roster(c))
    PROVE  /\ p \in Places(InternOrder(c)) /\ At(InternOrder(c), p) = At(Roster(c), p)
           /\ FirstOf(InternOrder(c), At(Roster(c), p).url) = FirstOf(Roster(c), At(Roster(c), p).url)
  <1>. DEFINE rs == Roster(c)
              all == InternOrder(c)
  <1>1. /\ rs \in Seq(Seq(Entries)) /\ all \in Seq(Seq(Entries)) /\ Len(rs) \in Nat
        /\ Len(all) = Len(rs) + 1 /\ \A i \in 1 .. Len(rs) : all[i] = rs[i]
    <2>1. /\ rs \in Seq(Seq(Entries)) /\ Len(rs) = Len(c.roster)
          /\ \A i \in 1 .. Len(rs) : rs[i] = c.roster[i].urls
      BY RowsType
    <2>2. /\ all \in Seq(Seq(Entries)) /\ Len(all) = Len(c.roster) + 1
          /\ \A i \in 1 .. Len(c.roster) : all[i] = c.roster[i].urls
      BY RowsType
    <2>. HIDE DEF rs, all
    <2>. QED BY <2>1, <2>2
  <1>. HIDE DEF rs, all
  <1>2. ASSUME NEW q \in Places(rs) PROVE q \in Places(all) /\ At(all, q) = At(rs, q)
    <2>1. q = <<q[1], q[2]>> /\ q[1] \in 1 .. Len(rs) /\ q[2] \in 1 .. Len(rs[q[1]])
      BY <1>1, PlaceType
    <2>2. q[1] \in 1 .. Len(all) /\ all[q[1]] = rs[q[1]]
      BY <1>1, <2>1
    <2>. QED BY <1>1, <2>1, <2>2, PlaceIs DEF At
  <1>3. PICK f \in Firsts(rs) : At(rs, f).url = At(rs, p).url
    BY <1>1, FirstExists DEF rs
  <1>4. f \in Firsts(all)
    <2>1. f \in Places(rs) /\ f \in Places(all) /\ At(all, f) = At(rs, f)
      BY <1>2 DEF Firsts
    <2>2. ASSUME NEW q \in Places(all), Before(q, f) PROVE At(all, q).url # At(all, f).url
      <3>1. /\ q = <<q[1], q[2]>> /\ q[1] \in 1 .. Len(all) /\ q[2] \in 1 .. Len(all[q[1]])
            /\ q[1] \in Nat /\ f[1] \in 1 .. Len(rs)
        BY <1>1, <2>1, PlaceType
      <3>2. q[1] \in 1 .. Len(rs)
        BY <1>1, <2>2, <3>1 DEF Before
      <3>3. q \in Places(rs)
        BY <1>1, <3>1, <3>2, PlaceIs
      <3>. QED BY <1>2, <2>1, <2>2, <3>3 DEF Firsts
    <2>. QED BY <2>1, <2>2 DEF Firsts
  <1>5. f \in Places(rs) /\ f \in Places(all) /\ At(all, f) = At(rs, f)
    BY <1>2 DEF Firsts
  <1>6. FirstOf(rs, At(rs, f).url) = At(rs, f)
    BY <1>1, <1>3, <1>5, FirstOfIs
  <1>7. FirstOf(all, At(all, f).url) = At(all, f)
    BY <1>1, <1>4, <1>5, FirstOfIs
  <1>8. p \in Places(all) /\ At(all, p) = At(rs, p)
    BY <1>2 DEF rs
  <1>. QED BY <1>3, <1>5, <1>6, <1>7, <1>8 DEF rs, all

(* A listed model has a last row that is not empty. *)
LEMMA RowOfIs ==
    ASSUME NEW c, c.roster \in Seq(Rows),
           NEW m, NEW j \in DOMAIN c.roster, c.roster[j].model = m, c.roster[j].urls # << >>
    PROVE  /\ RowOf(c, m) \in DOMAIN c.roster
           /\ c.roster[RowOf(c, m)].model = m /\ c.roster[RowOf(c, m)].urls # << >>
  <1>. DEFINE n == Len(c.roster)
              rows == {i \in 1 .. n : c.roster[i].model = m /\ c.roster[i].urls # << >>}
              T == {k \in Nat : \E i \in rows : k = n - i}
  <1>1. n \in Nat /\ DOMAIN c.roster = 1 .. n
    OBVIOUS
  <1>. HIDE DEF n
  <1>d. \A i \in rows : n - i \in T
    BY <1>1
  <1>2. n - j \in T /\ T \subseteq Nat
    <2>1. j \in rows
      BY <1>1
    <2>. QED BY <1>d, <2>1
  <1>3. PICK k \in T : \A l \in T : k <= l
    <2>. HIDE DEF T
    <2>. QED BY <1>2, LeastNat
  <1>4. PICK i \in rows : k = n - i
    OBVIOUS
  <1>5. ASSUME NEW l \in rows PROVE l <= i
    <2>1. n - l \in T
      BY <1>d
    <2>2. k <= n - l
      BY <1>3, <2>1
    <2>. QED BY <1>1, <1>4, <2>2
  <1>6. ASSUME NEW l \in DOMAIN c.roster, l > i, c.roster[l].model = m
        PROVE  c.roster[l].urls = << >>
    <2>1. l \notin rows
      BY <1>1, <1>5, <1>6
    <2>. QED BY <1>1, <1>6, <2>1
  <1>. QED BY <1>1, <1>4, <1>6 DEF RowOf

-----------------------------------------------------------------------------
(* A sum of what a page of /metrics says is a number. *)
LEMMA TotalType ==
    ASSUME NEW e \in Seq(Lines), NEW fams
    PROVE  Total(e, fams) \in Nat
  <1>. DEFINE n == Len(e)
              add(i) == IF e[i].fam \in fams /\ e[i].val # Bad THEN e[i].val ELSE 0
              Sums(f, k) ==
                /\ f \in [0 .. k -> Nat] /\ f[0] = 0
                /\ \A i \in 1 .. k : f[i] = f[i - 1] + add(i)
              T == {k \in 0 .. n : ~ \E f : Sums(f, k)}
  <1>1. n \in Nat /\ \A i \in 1 .. n : add(i) \in Nat
    <2>1. \A i \in 1 .. n : e[i] \in Lines
      OBVIOUS
    <2>. QED BY <2>1 DEF Lines
  <1>. HIDE DEF add, n
  <1>2. 0 \notin T
    <2>1. Sums([i \in 0 .. 0 |-> 0], 0)
      OBVIOUS
    <2>. QED BY <2>1
  <1>3. ASSUME NEW k \in 1 .. n, NEW f, Sums(f, k - 1) PROVE \E g : Sums(g, k)
    <2>. DEFINE g == [i \in 0 .. k |-> IF i = k THEN f[k - 1] + add(k) ELSE f[i]]
    <2>1. f[k - 1] \in Nat /\ add(k) \in Nat /\ k \in Nat /\ k >= 1
      BY <1>1, <1>3
    <2>2. g \in [0 .. k -> Nat]
      BY <1>3, <2>1
    <2>3. g[0] = 0
      BY <1>3, <2>1
    <2>4. ASSUME NEW i \in 1 .. k PROVE g[i] = g[i - 1] + add(i)
      <3>1. CASE i = k
        BY <2>1, <3>1
      <3>2. CASE i # k
        <4>1. i \in 1 .. k - 1 /\ i - 1 \in 0 .. k /\ i - 1 # k
          BY <2>1, <3>2
        <4>2. f[i] = f[i - 1] + add(i)
          BY <1>3, <4>1
        <4>. QED BY <3>2, <4>1, <4>2
      <3>. QED BY <3>1, <3>2
    <2>. HIDE DEF g
    <2>. QED BY <2>2, <2>3, <2>4
  <1>4. T = {}
    <2>1. T \subseteq 0 .. n
      OBVIOUS
    <2>2. ASSUME NEW k \in 1 .. n, k \in T PROVE k - 1 \in T
      <3>1. k - 1 \in 0 .. n
        BY <1>1
      <3>2. ~ \E f : Sums(f, k - 1)
        BY <1>3, <2>2
      <3>. QED BY <3>1, <3>2
    <2>. HIDE DEF T
    <2>. QED BY <1>1, <1>2, <2>1, <2>2, NoLeast
  <1>5. PICK f : Sums(f, n)
    <2>1. n \in 0 .. n
      BY <1>1
    <2>. QED BY <1>4, <2>1
  <1>. DEFINE Step(g) == [i \in 0 .. n |-> IF i = 0 THEN 0 ELSE g[i - 1] + add(i)]
              sum == CHOOSE g : g = Step(g)
  <1>6. f = Step(f)
    <2>1. f \in [0 .. n -> Nat] /\ f[0] = 0 /\ \A i \in 1 .. n : f[i] = f[i - 1] + add(i)
      BY <1>5
    <2>2. \A i \in 0 .. n : f[i] = (IF i = 0 THEN 0 ELSE f[i - 1] + add(i))
      BY <1>1, <2>1
    <2>. QED BY <2>1, <2>2
  <1>7. sum = Step(sum)
    <2>. HIDE DEF Step
    <2>. QED BY <1>6
  <1>8. \A i \in 0 .. n : sum[i] = (IF i = 0 THEN 0 ELSE sum[i - 1] + add(i))
    <2>. HIDE DEF sum
    <2>. QED BY <1>7
  <1>. HIDE DEF sum
  <1>9. {i \in 0 .. n : sum[i] \notin Nat} = {}
    <2>. DEFINE U == {i \in 0 .. n : sum[i] \notin Nat}
    <2>1. 0 \notin U /\ U \subseteq 0 .. n
      BY <1>1, <1>8
    <2>2. \A k \in 1 .. n : k \in U => k - 1 \in U
      BY <1>1, <1>8
    <2>. HIDE DEF U
    <2>3. U = {}
      BY <1>1, <2>1, <2>2, NoLeast
    <2>. QED BY <2>3 DEF U
  <1>10. sum[n] \in Nat
    BY <1>1, <1>9
  <1>11. Total(e, fams) = sum[n]
    BY DEF Total, sum, n, add
  <1>. QED BY <1>10, <1>11

-----------------------------------------------------------------------------
(* What intern_backends makes of settings: the facts the rest rests on. *)
Built(d) ==
    /\ Len(d.all) \in Nat \ {0} /\ DOMAIN d.all = 1 .. Len(d.all)
    /\ \A i \in 1 .. Len(d.all) : d.all[i] \in Backends
    /\ d.primary \in Backends \cup {NoBackend}
    /\ \A m \in DOMAIN d.byModel : m \in Models /\ d.byModel[m] \in Seq(Backends)
    /\ d.config.metrics \subseteq Seq(Lines) /\ d.config.openrouter \in BOOLEAN

(* What the constants say of the settings. *)
LEMMA SettingsType ==
    ASSUME NEW name \in DOMAIN Configs
    PROVE  LET c == Configs[name]
           IN /\ c.roster \in Seq(Rows) /\ c.primary \in Seq(Entries) /\ Len(c.primary) <= 1
              /\ c.openrouter \in BOOLEAN /\ c.metrics \subseteq Seq(Lines)
              /\ c.primary # << >> \/ \E i \in DOMAIN c.roster : c.roster[i].urls # << >>
  BY LlmConstants

(* The URLs in the order of their first places: there is one, and each is *)
(* a backend.                                                              *)
LEMMA AllBuilt ==
    ASSUME NEW rows \in Seq(Seq(Entries)), NEW p \in Places(rows)
    PROVE  /\ Cardinality(Firsts(rows)) \in Nat \ {0}
           /\ \A n \in 1 .. Cardinality(Firsts(rows)) : At(rows, Nth(Firsts(rows), n)).url \in Backends
  <1>1. Firsts(rows) \subseteq Places(rows) /\ Places(rows) \subseteq Nat \X Nat
    BY PlaceType DEF Firsts
  <1>2. IsFiniteSet(Firsts(rows))
    BY <1>1, PlacesFinite, FS_Subset
  <1>3. Firsts(rows) # {}
    BY FirstExists
  <1>4. Cardinality(Firsts(rows)) \in Nat \ {0}
    BY <1>2, <1>3, FS_CardinalityType, FS_EmptySet
  <1>5. ASSUME NEW n \in 1 .. Cardinality(Firsts(rows))
        PROVE  At(rows, Nth(Firsts(rows), n)).url \in Backends
    <2>1. Nth(Firsts(rows), n) \in Places(rows)
      BY <1>1, <1>2, NthIs
    <2>2. At(rows, Nth(Firsts(rows), n)) \in Entries
      BY <2>1, PlaceType
    <2>. QED BY <2>2 DEF Entries
  <1>. QED BY <1>4, <1>5

(* intern_backends makes a pool of any settings. *)
LEMMA PoolBuilt ==
    ASSUME NEW name \in DOMAIN Configs
    PROVE  Deployments[name].config = Configs[name] /\ Built(Deployments[name])
  <1>. DEFINE c == Configs[name]
              d == Deployments[name]
              rows == InternOrder(c)
  <1>1. /\ c.roster \in Seq(Rows) /\ c.primary \in Seq(Entries) /\ Len(c.primary) <= 1
        /\ c.openrouter \in BOOLEAN /\ c.metrics \subseteq Seq(Lines)
        /\ c.primary # << >> \/ \E i \in DOMAIN c.roster : c.roster[i].urls # << >>
    BY SettingsType
  <1>. HIDE DEF c
  <1>2. d = Intern(c)
    BY DEF Deployments, c
  <1>. HIDE DEF d
  <1>3. /\ rows \in Seq(Seq(Entries)) /\ Len(rows) = Len(c.roster) + 1 /\ Len(c.roster) \in Nat
        /\ \A i \in 1 .. Len(c.roster) : rows[i] = c.roster[i].urls
        /\ rows[Len(c.roster) + 1] = c.primary
    BY <1>1, RowsType
  <1>. HIDE DEF rows
  <1>4. PICK p : p \in Places(rows)
    <2>1. ASSUME NEW i \in 1 .. Len(rows), rows[i] # << >> PROVE <<i, 1>> \in Places(rows)
      <3>1. rows[i] \in Seq(Entries)
        BY <1>3
      <3>2. 1 \in 1 .. Len(rows[i])
        BY <2>1, <3>1
      <3>. QED BY <1>3, <3>2, PlaceIs
    <2>2. CASE c.primary # << >>
      <3>1. Len(c.roster) + 1 \in 1 .. Len(rows)
        BY <1>3
      <3>. QED BY <1>3, <2>1, <2>2, <3>1
    <2>3. CASE \E i \in DOMAIN c.roster : c.roster[i].urls # << >>
      <3>1. PICK i \in DOMAIN c.roster : c.roster[i].urls # << >>
        BY <2>3
      <3>2. i \in 1 .. Len(c.roster) /\ i \in 1 .. Len(rows)
        BY <1>1, <1>3
      <3>. QED BY <1>3, <2>1, <3>1, <3>2
    <2>. QED BY <1>1, <2>2, <2>3
  <1>5. /\ Cardinality(Firsts(rows)) \in Nat \ {0}
        /\ \A n \in 1 .. Cardinality(Firsts(rows)) : At(rows, Nth(Firsts(rows), n)).url \in Backends
    BY <1>3, <1>4, AllBuilt
  <1>6. d.all = [n \in 1 .. Cardinality(Firsts(rows)) |-> At(rows, Nth(Firsts(rows), n)).url]
    BY <1>2 DEF Intern, rows
  <1>7. /\ Len(d.all) \in Nat \ {0} /\ DOMAIN d.all = 1 .. Len(d.all)
        /\ \A i \in 1 .. Len(d.all) : d.all[i] \in Backends
    <2>1. d.all \in Seq(Backends) /\ Len(d.all) = Cardinality(Firsts(rows))
      BY <1>5, <1>6
    <2>. QED BY <1>5, <2>1
  <1>8. d.primary \in Backends \cup {NoBackend}
    <2>1. d.primary = IF c.primary = << >> THEN NoBackend ELSE c.primary[1].url
      BY <1>2 DEF Intern
    <2>2. c.primary # << >> => c.primary[1] \in Entries
      BY <1>1
    <2>. QED BY <2>1, <2>2 DEF Entries
  <1>9. ASSUME NEW m \in DOMAIN d.byModel PROVE m \in Models /\ d.byModel[m] \in Seq(Backends)
    <2>. DEFINE us == c.roster[RowOf(c, m)].urls
                listed == {c.roster[i].model : i \in {j \in DOMAIN c.roster : c.roster[j].urls # << >>}}
    <2>1. d.byModel = [l \in listed |-> LET us_1 == c.roster[RowOf(c, l)].urls
                                         IN [i \in 1 .. Len(us_1) |-> us_1[i].url]]
      BY <1>2 DEF Intern
    <2>2. PICK j \in DOMAIN c.roster : m = c.roster[j].model /\ c.roster[j].urls # << >>
      BY <2>1
    <2>3. RowOf(c, m) \in DOMAIN c.roster
      BY <1>1, <2>2, RowOfIs
    <2>4. \A i \in DOMAIN c.roster : c.roster[i] \in Rows
      BY <1>1, ElementOfSeq
    <2>5. us \in Seq(Entries) /\ m \in Models
      BY <2>2, <2>3, <2>4 DEF Rows
    <2>6. \A i \in 1 .. Len(us) : us[i].url \in Backends
      <3>1. \A i \in 1 .. Len(us) : us[i] \in Entries
        BY <2>5, ElementOfSeq
      <3>. QED BY <3>1 DEF Entries
    <2>7. d.byModel[m] = [i \in 1 .. Len(us) |-> us[i].url]
      BY <2>1
    <2>. HIDE DEF us
    <2>8. Len(us) \in Nat
      BY <2>5
    <2>. QED BY <2>5, <2>6, <2>7, <2>8
  <1>10. d.config = c
    BY <1>2 DEF Intern
  <1>. QED BY <1>1, <1>7, <1>8, <1>9, <1>10 DEF Built, c, d

-----------------------------------------------------------------------------
(* The models a local backend serves, and the calls that may be metered.   *)
Served == {m \in (Models \cup {NoModel}) \ Claude : Handles(m) # << >>}
Cleared ==
    {p \in Requests \X Models :
       /\ deployment.config.openrouter /\ p[2] \in Mapped \ Claude
       /\ Handles(p[2]) = << >> => p[1] \in Admins}

(* A request holds a slot just while it is at a backend. *)
Holding == {"send", "trip", "close", "body", "stream", "drain"}
Placed(q) == q.at # NoBackend <=> q.pc \in Holding

(* A request that is or may be metered was cleared; one that is with the   *)
(* pool is for a model the pool serves.                                    *)
Metered(cleared, r, q) ==
    q.pc \in {"openrouter", "orstream"} \/ q.hedge # "off" => <<r, q.model>> \in cleared
Pooled(served, q) ==
    q.pc \in {"try"} \cup Holding /\ q.kind \in {"json", "stream"} => q.model \in served
Streams(q) == q.pc \in {"stream", "drain"} => q.kind = "stream"

(* The client has heard the winner, and in the drain the hedge alone. *)
OneSide(q) ==
    IF q.pc = "drain" THEN q.winner # "local" /\ q.heard \subseteq {"hedge"}
    ELSE q.heard \subseteq {q.winner}

Legs(bases, q) == q.owed \subseteq bases /\ q.got \subseteq bases

Sound(served, cleared, bases, r, q) ==
    /\ q \in RequestType
    /\ Placed(q) /\ Metered(cleared, r, q) /\ Pooled(served, q)
    /\ Streams(q) /\ OneSide(q) /\ Legs(bases, q)

(* The samples of a backend: the first is within a window of the last. *)
Sample == [age : 0 .. ThroughputWindow + 2, tokens : Nat, success : Nat \cup {Bad}, inflight : Nat]
InWindow(w) == w # << >> => w[1].age <= w[Len(w)].age + ThroughputWindow

PoolTypes ==
    /\ config \in DOMAIN Configs
    /\ inflight \in [Backends -> Nat]
    /\ healthy \in [Backends -> BOOLEAN]
    /\ failures \in [Backends -> 0 .. CircuitOpenAfter]
    /\ depth \in [Backends -> Nat \cup {-1}]
    /\ up \in [Backends -> BOOLEAN]
LoopTypes ==
    /\ prober \in [i : DOMAIN deployment.all, step : {"look", "asked", "trip", "close"}]
    /\ scraper \in [i : DOMAIN deployment.all, step : {"look", "asked"}]
Windows ==
    /\ window \in [Backends -> Seq(Sample)]
    /\ \A b \in Backends : InWindow(window[b])
AllSound ==
    /\ req \in [Requests -> RequestType]
    /\ \A r \in Requests : Sound(Served, Cleared, Bases, r, req[r])

IInv == PoolTypes /\ LoopTypes /\ Windows /\ AllSound /\ SlotsBalanced

-----------------------------------------------------------------------------
(* The settings do not change, nor does what is read off them. *)
LEMMA Settled ==
    ASSUME config' = config
    PROVE  /\ deployment' = deployment /\ Bases' = Bases
           /\ Served' = Served /\ Cleared' = Cleared
  BY DEF deployment, Bases, Served, Cleared, Handles, ByModel

(* The pool of the process is built from its settings. *)
LEMMA DeploymentBuilt ==
    ASSUME config \in DOMAIN Configs
    PROVE  Built(deployment) /\ deployment.config = Configs[config]
  BY PoolBuilt DEF deployment

(* The handles of a model are backends. *)
LEMMA HandlesType ==
    ASSUME config \in DOMAIN Configs, NEW m
    PROVE  Handles(m) \in Seq(Backends)
  <1>1. Built(deployment)
    BY DeploymentBuilt
  <1>2. CASE m \in DOMAIN ByModel
    BY <1>1, <1>2 DEF Handles, ByModel, Built
  <1>3. CASE /\ m \notin DOMAIN ByModel
             /\ (m # NoModel /\ DOMAIN ByModel # {}) \/ deployment.primary = NoBackend
    <2>1. Handles(m) = << >>
      BY <1>3 DEF Handles
    <2>. QED BY <2>1, EmptySeq
  <1>4. CASE /\ m \notin DOMAIN ByModel
             /\ ~ ((m # NoModel /\ DOMAIN ByModel # {}) \/ deployment.primary = NoBackend)
    <2>1. Handles(m) = <<deployment.primary>> /\ deployment.primary \in Backends
      BY <1>1, <1>4 DEF Handles, Built
    <2>. QED BY <2>1
  <1>. QED BY <1>2, <1>3, <1>4

(* A sorted order of the handles is a sequence of backends. *)
LEMMA TryOrdersType ==
    ASSUME config \in DOMAIN Configs, NEW m, NEW short, NEW s \in TryOrders(m, short)
    PROVE  s \in Seq(Backends)
  <1>. DEFINE hs == Handles(m)
              n == Len(hs)
  <1>1. hs \in Seq(Backends)
    BY HandlesType
  <1>2. n \in Nat
    BY <1>1
  <1>3. PICK p \in [1 .. n -> 1 .. n] : s = [i \in 1 .. n |-> hs[p[i]]]
    BY DEF TryOrders
  <1>. HIDE DEF n
  <1>4. ASSUME NEW i \in 1 .. n PROVE hs[p[i]] \in Backends
    <2>1. p[i] \in 1 .. Len(hs)
      BY <1>3 DEF n
    <2>. QED BY <1>1, <2>1, ElementOfSeq
  <1>. HIDE DEF hs
  <1>. QED BY <1>2, <1>3, <1>4

(* What is sent upstream at once was cleared, and what is sent to the pool *)
(* is for a model it serves.                                               *)
LEMMA VerdictIsSound ==
    ASSUME config \in DOMAIN Configs, NEW r \in Requests, NEW m \in Models \cup {NoModel}
    PROVE  /\ Verdict(m, r \in Admins) = "openrouter" => <<r, m>> \in Cleared
           /\ Verdict(m, r \in Admins) = "local" => m \in Served
           /\ OpenRouterServes(m) /\ m \in Served => <<r, m>> \in Cleared
  <1>1. Mapped \subseteq Models
    BY LlmConstants DEF Mapped
  <1>2. OpenRouterServes(m) => m \in Mapped /\ m \in Models /\ deployment.config.openrouter
    BY <1>1 DEF OpenRouterServes
  <1>3. Verdict(m, r \in Admins) = "openrouter"
        => m \notin Claude /\ OpenRouterServes(m) /\ (Handles(m) = << >> => r \in Admins)
    BY DEF Verdict, Overflows
  <1>4. Verdict(m, r \in Admins) = "local" => m \notin Claude /\ Handles(m) # << >>
    BY DEF Verdict
  <1>. QED BY <1>2, <1>3, <1>4 DEF Cleared, Served

-----------------------------------------------------------------------------
(* What a step of a request does with its slot. *)
Keeps(r, q) == q.at = req[r].at /\ inflight' = inflight
Drops(r, q) == q.at = NoBackend /\ inflight' = Release(req[r].at)
Takes(r, q) ==
    /\ req[r].at = NoBackend /\ q.at \in Backends
    /\ inflight' = [inflight EXCEPT ![q.at] = @ + 1]

Holders(b) == {r \in Requests : req[r].at = b}

(* A step of one request that keeps, drops or takes its slot keeps the balance. *)
LEMMA SlotsStep ==
    ASSUME SlotsBalanced, inflight \in [Backends -> Nat], req \in [Requests -> RequestType],
           NEW r \in Requests, NEW q \in RequestType, To(r, q),
           Keeps(r, q) \/ Drops(r, q) \/ Takes(r, q)
    PROVE  SlotsBalanced' /\ inflight' \in [Backends -> Nat]
  <1>1. IsFiniteSet(Requests) /\ NoBackend \notin Backends
    BY LlmConstants
  <1>2. /\ req' \in [Requests -> RequestType] /\ req'[r] = q
        /\ \A s \in Requests \ {r} : req'[s] = req[s]
    BY DEF To
  <1>3. req[r].at \in Backends \cup {NoBackend}
    BY DEF RequestType
  <1>4. ASSUME NEW b \in Backends
        PROVE  /\ IsFiniteSet(Holders(b)) /\ Cardinality(Holders(b)) = inflight[b]
               /\ Holders(b)' = (Holders(b) \ {r}) \cup (IF q.at = b THEN {r} ELSE {})
    <2>1. IsFiniteSet(Holders(b))
      BY <1>1, FS_Subset DEF Holders
    <2>2. Holders(b)' = (Holders(b) \ {r}) \cup (IF q.at = b THEN {r} ELSE {})
      BY <1>2 DEF Holders
    <2>. QED BY <2>1, <2>2 DEF SlotsBalanced, Holders
  <1>5. ASSUME \A b \in Backends : inflight'[b] = Cardinality(Holders(b)'),
               \A b \in Backends : IsFiniteSet(Holders(b)'),
               inflight' = [b \in Backends |-> inflight'[b]]
        PROVE  SlotsBalanced' /\ inflight' \in [Backends -> Nat]
    <2>1. \A b \in Backends : inflight'[b] \in Nat
      BY <1>5, FS_CardinalityType
    <2>. QED BY <1>5, <2>1 DEF SlotsBalanced, Holders
  <1>6. \A b \in Backends : IsFiniteSet(Holders(b)')
    <2>1. IsFiniteSet(Requests) /\ \A b \in Backends : Holders(b)' \in SUBSET Requests
      BY <1>1 DEF Holders
    <2>. QED BY <2>1, FS_Subset
  <1>7. CASE Keeps(r, q)
    <2>1. \A b \in Backends : Holders(b)' = Holders(b)
      BY <1>2, <1>7 DEF Holders, Keeps
    <2>. QED BY <1>4, <1>5, <1>6, <1>7, <2>1 DEF Keeps
  <1>8. CASE Takes(r, q)
    <2>1. ASSUME NEW b \in Backends PROVE inflight'[b] = Cardinality(Holders(b)')
      <3>1. CASE b = q.at
        <4>1. r \notin Holders(b) /\ Holders(b)' = Holders(b) \cup {r}
          BY <1>1, <1>4, <1>8, <3>1 DEF Holders, Takes
        <4>2. Cardinality(Holders(b)') = Cardinality(Holders(b)) + 1
          BY <1>4, <4>1, FS_AddElement
        <4>. QED BY <1>4, <1>8, <3>1, <4>2 DEF Takes
      <3>2. CASE b # q.at
        <4>1. Holders(b)' = Holders(b)
          BY <1>1, <1>4, <1>8, <3>2 DEF Holders, Takes
        <4>. QED BY <1>4, <1>8, <3>2, <4>1 DEF Takes
      <3>. QED BY <3>1, <3>2
    <2>2. inflight' = [b \in Backends |-> inflight'[b]]
      BY <1>8 DEF Takes
    <2>. QED BY <1>5, <1>6, <2>1, <2>2
  <1>9. CASE Drops(r, q)
    <2>1. ASSUME NEW b \in Backends PROVE inflight'[b] = Cardinality(Holders(b)')
      <3>1. CASE b = req[r].at
        <4>1. r \in Holders(b) /\ Holders(b)' = Holders(b) \ {r} /\ b # NoBackend
          BY <1>1, <1>4, <1>9, <3>1 DEF Holders, Drops
        <4>2. Cardinality(Holders(b)') = Cardinality(Holders(b)) - 1
          BY <1>4, <4>1, FS_RemoveElement
        <4>3. inflight' = [inflight EXCEPT ![b] = @ - 1]
          BY <1>9, <3>1, <4>1 DEF Drops, Release
        <4>. QED BY <1>4, <4>2, <4>3
      <3>2. CASE b # req[r].at
        <4>1. Holders(b)' = Holders(b)
          BY <1>1, <1>4, <1>9, <3>2 DEF Holders, Drops
        <4>2. inflight'[b] = inflight[b]
          BY <1>9, <3>2 DEF Drops, Release
        <4>. QED BY <1>4, <4>1, <4>2
      <3>. QED BY <3>1, <3>2
    <2>2. inflight' = [b \in Backends |-> inflight'[b]]
      BY <1>9 DEF Drops, Release
    <2>. QED BY <1>5, <1>6, <2>1, <2>2
  <1>. QED BY <1>7, <1>8, <1>9

(* A step of one request that leaves it sound, does its part with its slot *)
(* and types what else it changes.                                         *)
LEMMA RequestStep ==
    ASSUME IInv, NEW r \in Requests, NEW q, To(r, q),
           Sound(Served, Cleared, Bases, r, q),
           Keeps(r, q) \/ Drops(r, q) \/ Takes(r, q),
           healthy' \in [Backends -> BOOLEAN], failures' \in [Backends -> 0 .. CircuitOpenAfter],
           UNCHANGED <<depth, world, background>>
    PROVE  IInv'
  <1>1. config' = config
    BY DEF world
  <1>2. q \in RequestType
    BY DEF Sound
  <1>3. /\ req' \in [Requests -> RequestType] /\ req'[r] = q
        /\ \A s \in Requests \ {r} : req'[s] = req[s]
    BY <1>2 DEF To, IInv, AllSound
  <1>4. SlotsBalanced' /\ inflight' \in [Backends -> Nat]
    BY <1>2, SlotsStep DEF IInv, PoolTypes, AllSound
  <1>5. AllSound'
    <2>1. \A s \in Requests : Sound(Served, Cleared, Bases, s, req'[s])
      BY <1>3 DEF IInv, AllSound
    <2>2. Served' = Served /\ Cleared' = Cleared /\ Bases' = Bases
      BY <1>1, Settled
    <2>. QED BY <1>3, <2>1, <2>2 DEF AllSound
  <1>6. PoolTypes'
    BY <1>4 DEF IInv, PoolTypes, world
  <1>7. LoopTypes' /\ Windows'
    <2>1. deployment' = deployment
      BY <1>1, Settled
    <2>2. UNCHANGED <<prober, scraper, window>>
      BY DEF background
    <2>. QED BY <2>1, <2>2 DEF IInv, LoopTypes, Windows
  <1>. QED BY <1>4, <1>5, <1>6, <1>7 DEF IInv

-----------------------------------------------------------------------------
(* A request that is over is sound. *)
LEMMA FreshSound ==
    ASSUME NEW served, NEW cleared, NEW bases, NEW r
    PROVE  Sound(served, cleared, bases, r, Fresh) /\ Fresh.at = NoBackend
  <1>1. << >> \in Seq(Backends) /\ << >> \in Seq(Chunks)
    BY EmptySeq
  <1>2. Fresh \in RequestType
    BY <1>1 DEF Fresh, RequestType
  <1>. QED BY <1>2 DEF Fresh, Sound, Placed, Metered, Pooled, Streams, OneSide, Legs, Holding

(* The end of a request, whether it holds a slot or not. *)
LEMMA EndsStep ==
    ASSUME IInv, NEW r \in Requests, Ends(r), UNCHANGED quiet
    PROVE  IInv'
  <1>1. To(r, Fresh) /\ Drops(r, Fresh)
    BY FreshSound DEF Ends, Drops
  <1>2. /\ UNCHANGED <<depth, world, background>>
        /\ healthy' \in [Backends -> BOOLEAN] /\ failures' \in [Backends -> 0 .. CircuitOpenAfter]
    BY DEF quiet, IInv, PoolTypes
  <1>. QED BY <1>1, <1>2, FreshSound, RequestStep

(* The end of one that holds none. *)
LEMMA FreshStep ==
    ASSUME IInv, NEW r \in Requests, req[r].pc \notin Holding, To(r, Fresh),
           UNCHANGED <<pool, world, background>>
    PROVE  IInv'
  <1>1. req[r].at = NoBackend
    BY DEF IInv, AllSound, Sound, Placed
  <1>2. Keeps(r, Fresh)
    BY <1>1, FreshSound DEF Keeps, pool
  <1>3. /\ UNCHANGED <<depth, world, background>>
        /\ healthy' \in [Backends -> BOOLEAN] /\ failures' \in [Backends -> 0 .. CircuitOpenAfter]
    BY DEF pool, IInv, PoolTypes
  <1>. QED BY <1>2, <1>3, FreshSound, RequestStep

(* A step that keeps the pool as it is, and the slot of the request. *)
LEMMA QuietStep ==
    ASSUME IInv, NEW r \in Requests, NEW q, To(r, q), q.at = req[r].at,
           Sound(Served, Cleared, Bases, r, q), UNCHANGED <<pool, world, background>>
    PROVE  IInv'
  <1>1. Keeps(r, q)
    BY DEF Keeps, pool
  <1>2. /\ UNCHANGED <<depth, world, background>>
        /\ healthy' \in [Backends -> BOOLEAN] /\ failures' \in [Backends -> 0 .. CircuitOpenAfter]
    BY DEF pool, IInv, PoolTypes
  <1>. QED BY <1>1, <1>2, RequestStep

(* The count of failures stays within its bound. *)
LEMMA CountedType ==
    ASSUME IInv, NEW b \in Backends
    PROVE  Counted(b) \in 0 .. CircuitOpenAfter
  <1>1. CircuitOpenAfter \in Nat
    BY LlmConstants
  <1>. QED BY <1>1 DEF IInv, PoolTypes, Counted

(* The backend loop of the handlers. *)
LEMMA LoopStep ==
    ASSUME IInv, NEW r \in Requests, BackendLoop(r)
    PROVE  IInv'
  <1>. DEFINE o == req[r]
  <1>1. /\ Sound(Served, Cleared, Bases, r, o) /\ o \in RequestType
        /\ config \in DOMAIN Configs /\ NoBackend \notin Backends
        /\ CircuitOpenAfter \in Nat
    BY LlmConstants DEF IInv, AllSound, PoolTypes
  <1>2. /\ healthy \in [Backends -> BOOLEAN] /\ failures \in [Backends -> 0 .. CircuitOpenAfter]
    BY DEF IInv, PoolTypes
  <1>3. o.pc \in Holding => o.at \in Backends
    BY <1>1 DEF Sound, Placed, RequestType
  <1>4. o.pc \notin Holding => o.at = NoBackend
    BY <1>1 DEF Sound, Placed
  <1>. HIDE DEF o
  <1>5. CASE Try(r)
    <2>. DEFINE b == Head(o.left)
                q == [o EXCEPT !.pc = "send", !.at = b, !.left = Tail(@)]
    <2>1. /\ o.pc = "try" /\ o.left # << >> /\ inflight' = [inflight EXCEPT ![b] = @ + 1]
          /\ To(r, q) /\ UNCHANGED <<healthy, failures, depth, world, background>>
      BY <1>5 DEF Try, o
    <2>2. b \in Backends /\ Tail(o.left) \in Seq(Backends)
      BY <1>1, <2>1, HeadTailProperties DEF RequestType
    <2>. HIDE DEF b
    <2>3. Sound(Served, Cleared, Bases, r, q)
      <3>1. /\ q \in RequestType
            /\ q.pc = "send" /\ q.at = b /\ q.kind = o.kind /\ q.model = o.model
            /\ q.hedge = o.hedge /\ q.winner = o.winner /\ q.heard = o.heard
            /\ q.owed = o.owed /\ q.got = o.got
        BY <1>1, <2>2 DEF RequestType
      <3>. HIDE DEF q
      <3>. QED BY <1>1, <2>1, <2>2, <3>1
               DEF Sound, Placed, Metered, Pooled, Streams, OneSide, Legs, Holding
    <2>4. Takes(r, q)
      <3>1. o.at = NoBackend /\ q.at = b
        BY <1>1, <1>4, <2>1 DEF Holding, RequestType
      <3>. QED BY <2>1, <2>2, <3>1 DEF Takes, o
    <2>. HIDE DEF q
    <2>. QED BY <1>2, <2>1, <2>3, <2>4, RequestStep
  <1>6. ASSUME o.pc \in Holding, NextBackend(r), UNCHANGED <<depth, world, background>>,
               o.pc \in {"send", "trip"},
               healthy' \in [Backends -> BOOLEAN], failures' \in [Backends -> 0 .. CircuitOpenAfter]
        PROVE  IInv'
    <2>. DEFINE q == [o EXCEPT !.pc = "try", !.at = NoBackend]
    <2>1. To(r, q) /\ inflight' = Release(o.at)
      BY <1>6 DEF NextBackend, o
    <2>2. Sound(Served, Cleared, Bases, r, q) /\ q.at = NoBackend
      <3>1. /\ q \in RequestType
            /\ q.pc = "try" /\ q.at = NoBackend /\ q.kind = o.kind /\ q.model = o.model
            /\ q.hedge = o.hedge /\ q.winner = o.winner /\ q.heard = o.heard
            /\ q.owed = o.owed /\ q.got = o.got
        BY <1>1 DEF RequestType
      <3>. HIDE DEF q
      <3>. QED BY <1>1, <1>6, <3>1
               DEF Sound, Placed, Metered, Pooled, Streams, OneSide, Legs, Holding
    <2>3. Drops(r, q)
      BY <2>1, <2>2 DEF Drops, o
    <2>. HIDE DEF q
    <2>. QED BY <1>6, <2>1, <2>2, <2>3, RequestStep
  <1>7. CASE SendFails(r)
    <2>1. /\ o.pc = "send" /\ failures' = [failures EXCEPT ![o.at] = Counted(o.at)]
          /\ UNCHANGED <<healthy, depth, world, background>>
      BY <1>7 DEF SendFails, o
    <2>2. o.pc \in Holding /\ o.at \in Backends
      BY <1>3, <2>1 DEF Holding
    <2>3. failures' \in [Backends -> 0 .. CircuitOpenAfter]
      BY <1>2, <2>1, <2>2, CountedType
    <2>4. CASE NextBackend(r)
      BY <1>2, <1>6, <2>1, <2>2, <2>3, <2>4
    <2>5. CASE To(r, [o EXCEPT !.pc = "trip"]) /\ UNCHANGED inflight
      <3>. DEFINE q == [o EXCEPT !.pc = "trip"]
      <3>1. Sound(Served, Cleared, Bases, r, q) /\ q.at = o.at
        BY <1>1, <2>1
           DEF Sound, RequestType, Placed, Metered, Pooled, Streams, OneSide, Legs, Holding
      <3>2. Keeps(r, q)
        BY <2>5, <3>1 DEF Keeps, o
      <3>. HIDE DEF q
      <3>3. To(r, q)
        BY <2>5 DEF q
      <3>. QED BY <1>2, <2>1, <2>3, <3>1, <3>2, <3>3, RequestStep
    <2>. QED BY <1>7, <2>4, <2>5 DEF SendFails, o
  <1>8. CASE Trip(r)
    <2>1. /\ o.pc = "trip" /\ healthy' = [healthy EXCEPT ![o.at] = FALSE] /\ NextBackend(r)
          /\ UNCHANGED <<failures, depth, world, background>>
      BY <1>8 DEF Trip, o
    <2>2. healthy' \in [Backends -> BOOLEAN]
      BY <1>2, <2>1
    <2>3. o.pc \in Holding
      BY <2>1 DEF Holding
    <2>. QED BY <1>2, <1>6, <2>1, <2>2, <2>3
  <1>9. CASE SendOk(r)
    <2>. DEFINE q == [o EXCEPT !.pc = "close"]
    <2>1. /\ o.pc = "send" /\ failures' = [failures EXCEPT ![o.at] = 0] /\ To(r, q)
          /\ UNCHANGED <<inflight, healthy, depth, world, background>>
      BY <1>9 DEF SendOk, o
    <2>2. failures' \in [Backends -> 0 .. CircuitOpenAfter]
      <3>1. 0 \in 0 .. CircuitOpenAfter
        BY <1>1
      <3>. HIDE DEF q
      <3>. QED BY <1>2, <2>1, <3>1
    <2>3. Sound(Served, Cleared, Bases, r, q) /\ q.at = o.at
      BY <1>1, <2>1
         DEF Sound, RequestType, Placed, Metered, Pooled, Streams, OneSide, Legs, Holding
    <2>. HIDE DEF q
    <2>4. Keeps(r, q)
      BY <2>1, <2>3 DEF Keeps, o
    <2>. QED BY <1>2, <2>1, <2>2, <2>3, <2>4, RequestStep
  <1>10. CASE Close(r)
    <2>1. PICK next \in {"body", "stream"} :
            /\ next = "stream" => o.kind = "stream"
            /\ To(r, [o EXCEPT !.pc = next, !.left = << >>])
      BY <1>10 DEF Close, o
    <2>. DEFINE q == [o EXCEPT !.pc = next, !.left = << >>]
    <2>2. /\ o.pc = "close" /\ healthy' = [healthy EXCEPT ![o.at] = TRUE]
          /\ UNCHANGED <<inflight, failures, depth, world, background>>
      BY <1>10 DEF Close, o
    <2>3. healthy' \in [Backends -> BOOLEAN]
      BY <1>2, <2>2
    <2>4. << >> \in Seq(Backends)
      BY EmptySeq
    <2>5. Sound(Served, Cleared, Bases, r, q) /\ q.at = o.at
      BY <1>1, <2>1, <2>2, <2>4
         DEF Sound, RequestType, Placed, Metered, Pooled, Streams, OneSide, Legs, Holding
    <2>. HIDE DEF q
    <2>6. Keeps(r, q) /\ To(r, q)
      BY <2>1, <2>2, <2>5 DEF Keeps, o, q
    <2>. QED BY <1>2, <2>2, <2>3, <2>5, <2>6, RequestStep
  <1>11. CASE Body(r)
    BY <1>11, EndsStep DEF Body, quiet
  <1>12. CASE Exhausted(r)
    <2>1. o.pc = "try" /\ UNCHANGED <<pool, world, background>> /\ o.pc \notin Holding
      BY <1>12 DEF Exhausted, Holding, o
    <2>2. CASE Spills(r)
      <3>. DEFINE q == [o EXCEPT !.pc = "openrouter"]
      <3>1. To(r, q)
        BY <1>12, <2>2 DEF Exhausted, o
      <3>2. o.model \in Served
        BY <1>1, <2>1, <2>2 DEF Spills, Sound, Pooled, o
      <3>3. <<r, o.model>> \in Cleared
        BY <1>1, <2>2, <3>2, VerdictIsSound DEF Spills, RequestType, o
      <3>4. Sound(Served, Cleared, Bases, r, q) /\ q.at = o.at
        BY <1>1, <2>1, <3>3
           DEF Sound, RequestType, Placed, Metered, Pooled, Streams, OneSide, Legs, Holding
      <3>. HIDE DEF q
      <3>. QED BY <2>1, <3>1, <3>4, QuietStep DEF o
    <2>3. CASE ~ Spills(r)
      <3>1. To(r, Fresh)
        BY <1>12, <2>3 DEF Exhausted
      <3>. QED BY <2>1, <3>1, FreshStep DEF o
    <2>. QED BY <2>2, <2>3
  <1>. QED BY <1>5, <1>7, <1>8, <1>9, <1>10, <1>11, <1>12 DEF BackendLoop

(* The arrival of a request: what it becomes is sound. *)
LEMMA ResolveStep ==
    ASSUME IInv, NEW r \in Requests, Resolve(r)
    PROVE  IInv'
  <1>1. PICK ask \in deployment.config.asks[r], named \in Models \cup {NoModel}, short \in BOOLEAN :
          LET k == KindOf(ask[1], ask[2])
              m == ApplyDefaultModel(named, k)
              to == Dispatch(k, m, r \in Admins)
              asked == [Fresh EXCEPT !.kind = k, !.model = m]
          IN /\ k # "list" /\ ~Malformed(k, m)
             /\ \/ /\ to \in {"openrouter", "peer"}
                   /\ To(r, [asked EXCEPT !.pc = to])
                \/ /\ to = "local" /\ (k \in Binary => ~short)
                   /\ \E s \in TryOrders(m, short) : To(r, [asked EXCEPT !.pc = "try", !.left = s])
    BY DEF Resolve
  <1>. DEFINE k == KindOf(ask[1], ask[2])
              m == ApplyDefaultModel(named, k)
              to == Dispatch(k, m, r \in Admins)
  <1>2. k \in {"json", "stream", "bytes", "multipart", "list"}
    BY DEF KindOf
  <1>3. m \in Models \cup {NoModel}
    BY LlmConstants DEF ApplyDefaultModel
  <1>4. /\ req[r].pc = "done" /\ UNCHANGED <<pool, world, background>>
        /\ config \in DOMAIN Configs
    BY DEF Resolve, IInv, PoolTypes
  <1>5. req[r].at = NoBackend
    BY <1>4 DEF IInv, AllSound, Sound, Placed, Holding
  <1>6. /\ to = "openrouter" => <<r, m>> \in Cleared
        /\ to = "local" => m \in Served
    <2>1. to = "openrouter" => Verdict(m, r \in Admins) = "openrouter"
      BY DEF Dispatch
    <2>2. to = "local" => Verdict(m, r \in Admins) = "local"
      BY DEF Dispatch
    <2>. QED BY <1>3, <1>4, <2>1, <2>2, VerdictIsSound
  <1>7. << >> \in Seq(Backends) /\ << >> \in Seq(Chunks)
    BY EmptySeq
  <1>8. \/ to \in {"openrouter", "peer"} /\ To(r, [[Fresh EXCEPT !.kind = k, !.model = m] EXCEPT !.pc = to])
        \/ /\ to = "local"
           /\ \E s \in TryOrders(m, short) :
                To(r, [[Fresh EXCEPT !.kind = k, !.model = m] EXCEPT !.pc = "try", !.left = s])
    BY <1>1
  <1>. HIDE DEF k, m, to
  <1>9. CASE to \in {"openrouter", "peer"} /\ To(r, [[Fresh EXCEPT !.kind = k, !.model = m] EXCEPT !.pc = to])
    <2>. DEFINE q == [[Fresh EXCEPT !.kind = k, !.model = m] EXCEPT !.pc = to]
    <2>1. q = [Fresh EXCEPT !.kind = k, !.model = m, !.pc = to]
      BY DEF Fresh
    <2>2. Sound(Served, Cleared, Bases, r, q) /\ q.at = NoBackend
      BY <1>2, <1>3, <1>6, <1>7, <1>9
         DEF Fresh, Sound, RequestType, Placed, Metered, Pooled, Streams, OneSide, Legs, Holding
    <2>3. To(r, q)
      BY <1>9
    <2>. HIDE DEF q
    <2>. QED BY <1>4, <1>5, <2>2, <2>3, QuietStep
  <1>10. ASSUME to = "local", NEW s \in TryOrders(m, short),
                To(r, [[Fresh EXCEPT !.kind = k, !.model = m] EXCEPT !.pc = "try", !.left = s])
         PROVE  IInv'
    <2>. DEFINE q == [[Fresh EXCEPT !.kind = k, !.model = m] EXCEPT !.pc = "try", !.left = s]
    <2>1. s \in Seq(Backends)
      BY <1>4, <1>10, TryOrdersType
    <2>2. Sound(Served, Cleared, Bases, r, q) /\ q.at = NoBackend
      BY <1>2, <1>3, <1>6, <1>7, <1>10, <2>1
         DEF Fresh, Sound, RequestType, Placed, Metered, Pooled, Streams, OneSide, Legs, Holding
    <2>3. To(r, q)
      BY <1>10
    <2>. HIDE DEF q
    <2>. QED BY <1>4, <1>5, <2>2, <2>3, QuietStep
  <1>. QED BY <1>8, <1>9, <1>10

(* The legs of a model list are backends, or OpenRouter. *)
LEMMA BasesType ==
    ASSUME config \in DOMAIN Configs
    PROVE  Bases \subseteq Backends \cup {OpenRouter}
  <1>1. Built(deployment)
    BY DeploymentBuilt
  <1>2. deployment.primary \in Backends \cup {NoBackend}
    BY <1>1 DEF Built
  <1>3. \A i \in DOMAIN deployment.all : deployment.all[i] \in Backends
    BY <1>1 DEF Built
  <1>. QED BY <1>2, <1>3 DEF Bases

(* The model list, from its arrival to its last leg. *)
LEMMA ListStep ==
    ASSUME IInv, NEW r \in Requests, ListModels(r) \/ ListLeg(r) \/ ListEnds(r)
    PROVE  IInv'
  <1>. DEFINE o == req[r]
  <1>1. /\ Sound(Served, Cleared, Bases, r, o) /\ o \in RequestType /\ config \in DOMAIN Configs
    BY DEF IInv, AllSound, PoolTypes
  <1>2. << >> \in Seq(Backends) /\ << >> \in Seq(Chunks)
    BY EmptySeq
  <1>3. CASE ListModels(r)
    <2>1. o.pc = "done" /\ UNCHANGED <<pool, world, background>>
      BY <1>3 DEF ListModels
    <2>2. o.at = NoBackend
      BY <1>1, <2>1 DEF Sound, Placed, Holding
    <2>4. CASE To(r, [[Fresh EXCEPT !.kind = "list"] EXCEPT !.pc = "peer"])
      <3>. DEFINE q == [[Fresh EXCEPT !.kind = "list"] EXCEPT !.pc = "peer"]
      <3>2. Sound(Served, Cleared, Bases, r, q) /\ q.at = NoBackend
        BY <1>2
           DEF Fresh, Sound, RequestType, Placed, Metered, Pooled, Streams, OneSide, Legs, Holding
      <3>3. To(r, q)
        BY <2>4
      <3>. HIDE DEF q
      <3>. QED BY <2>1, <2>2, <3>2, <3>3, QuietStep DEF o
    <2>5. ASSUME NEW s \in TryOrders(NoModel, FALSE),
                 To(r, [[Fresh EXCEPT !.kind = "list"] EXCEPT !.pc = "try", !.left = s])
          PROVE  IInv'
      <3>. DEFINE q == [[Fresh EXCEPT !.kind = "list"] EXCEPT !.pc = "try", !.left = s]
      <3>2. s \in Seq(Backends)
        BY <1>1, <2>5, TryOrdersType
      <3>3. Sound(Served, Cleared, Bases, r, q) /\ q.at = NoBackend
        BY <1>2, <3>2
           DEF Fresh, Sound, RequestType, Placed, Metered, Pooled, Streams, OneSide, Legs, Holding
      <3>4. To(r, q)
        BY <2>5
      <3>. HIDE DEF q
      <3>. QED BY <2>1, <2>2, <3>3, <3>4, QuietStep DEF o
    <2>6. CASE To(r, [[Fresh EXCEPT !.kind = "list"] EXCEPT !.pc = "list", !.owed = Bases])
      <3>. DEFINE q == [[Fresh EXCEPT !.kind = "list"] EXCEPT !.pc = "list", !.owed = Bases]
      <3>1. Bases \subseteq Backends \cup {OpenRouter}
        BY <1>1, BasesType
      <3>2. Sound(Served, Cleared, Bases, r, q) /\ q.at = NoBackend
        BY <1>2, <3>1
           DEF Fresh, Sound, RequestType, Placed, Metered, Pooled, Streams, OneSide, Legs, Holding
      <3>3. To(r, q)
        BY <2>6
      <3>. HIDE DEF q
      <3>. QED BY <2>1, <2>2, <3>2, <3>3, QuietStep DEF o
    <2>. QED BY <1>3, <2>4, <2>5, <2>6 DEF ListModels
  <1>4. CASE ListLeg(r)
    <2>1. o.pc = "list" /\ UNCHANGED <<pool, world, background>>
      BY <1>4 DEF ListLeg
    <2>2. PICK b \in o.owed : \/ To(r, [o EXCEPT !.owed = @ \ {b}])
                              \/ To(r, [o EXCEPT !.owed = @ \ {b}, !.got = @ \cup {b}])
      BY <1>4 DEF ListLeg
    <2>. HIDE DEF o
    <2>3. CASE To(r, [o EXCEPT !.owed = @ \ {b}])
      <3>. DEFINE q == [o EXCEPT !.owed = @ \ {b}]
      <3>1. Sound(Served, Cleared, Bases, r, q) /\ q.at = o.at
        BY <1>1, <2>1
           DEF Sound, RequestType, Placed, Metered, Pooled, Streams, OneSide, Legs, Holding
      <3>2. To(r, q)
        BY <2>3
      <3>. HIDE DEF q
      <3>. QED BY <2>1, <3>1, <3>2, QuietStep DEF o
    <2>4. CASE To(r, [o EXCEPT !.owed = @ \ {b}, !.got = @ \cup {b}])
      <3>. DEFINE q == [o EXCEPT !.owed = @ \ {b}, !.got = @ \cup {b}]
      <3>1. Sound(Served, Cleared, Bases, r, q) /\ q.at = o.at
        <4>1. /\ q \in RequestType
              /\ q.pc = o.pc /\ q.at = o.at /\ q.kind = o.kind /\ q.model = o.model
              /\ q.hedge = o.hedge /\ q.winner = o.winner /\ q.heard = o.heard
              /\ q.owed = o.owed \ {b} /\ q.got = o.got \cup {b}
          BY <1>1 DEF RequestType
        <4>. HIDE DEF q
        <4>. QED BY <1>1, <4>1 DEF Sound, Placed, Metered, Pooled, Streams, OneSide, Legs
      <3>2. To(r, q)
        BY <2>4
      <3>. HIDE DEF q
      <3>. QED BY <2>1, <3>1, <3>2, QuietStep DEF o
    <2>. QED BY <2>2, <2>3, <2>4
  <1>5. CASE ListEnds(r)
    <2>1. o.pc \notin Holding /\ To(r, Fresh) /\ UNCHANGED <<pool, world, background>>
      BY <1>5 DEF ListEnds, Holding
    <2>. QED BY <2>1, FreshStep
  <1>. QED BY <1>3, <1>4, <1>5

(* What makes a request sound is in some of its fields. *)
LEMMA SoundAlike ==
    ASSUME NEW served, NEW cleared, NEW bases, NEW r, NEW o, NEW q \in RequestType,
           Sound(served, cleared, bases, r, o),
           q.pc = o.pc, q.at = o.at, q.kind = o.kind, q.model = o.model, q.hedge = o.hedge,
           q.winner = o.winner, q.heard = o.heard, q.owed = o.owed, q.got = o.got
    PROVE  Sound(served, cleared, bases, r, q)
  BY DEF Sound, Placed, Metered, Pooled, Streams, OneSide, Legs

(* The calls that are relayed or answered elsewhere, and a client that leaves. *)
LEMMA RelayStep ==
    ASSUME IInv, NEW r \in Requests,
           \/ ProxyJsonOpenRouter(r) \/ ProxyStreamOpenRouter(r)
           \/ ProxyJsonPeer(r) \/ ProxyStreamPeer(r) \/ RelayEnds(r)
           \/ Abandon(r) \/ Disconnect(r)
    PROVE  IInv'
  <1>. DEFINE o == req[r]
  <1>1. Sound(Served, Cleared, Bases, r, o) /\ o \in RequestType
    BY DEF IInv, AllSound
  <1>2. ASSUME o.pc \in {"openrouter", "peer", "orstream", "peerstream"}, To(r, Fresh),
               UNCHANGED <<pool, world, background>>
        PROVE  IInv'
    <2>1. o.pc \notin Holding
      BY <1>2 DEF Holding
    <2>. QED BY <1>2, <2>1, FreshStep
  <1>3. ASSUME NEW to \in {"orstream", "peerstream"}, To(r, [o EXCEPT !.pc = to]),
               to = "orstream" => o.pc = "openrouter", to = "peerstream" => o.pc = "peer",
               UNCHANGED <<pool, world, background>>
        PROVE  IInv'
    <2>. DEFINE q == [o EXCEPT !.pc = to]
    <2>1. o.pc \notin Holding
      BY <1>3 DEF Holding
    <2>. HIDE DEF o
    <2>2. Sound(Served, Cleared, Bases, r, q) /\ q.at = o.at
      BY <1>1, <1>3, <2>1
         DEF Sound, RequestType, Placed, Metered, Pooled, Streams, OneSide, Legs, Holding
    <2>3. To(r, q)
      BY <1>3
    <2>. HIDE DEF q
    <2>. QED BY <1>3, <2>2, <2>3, QuietStep DEF o
  <1>4. CASE ProxyJsonOpenRouter(r)
    BY <1>2, <1>4 DEF ProxyJsonOpenRouter
  <1>5. CASE ProxyStreamOpenRouter(r)
    BY <1>2, <1>3, <1>5 DEF ProxyStreamOpenRouter
  <1>6. CASE ProxyJsonPeer(r)
    BY <1>2, <1>6 DEF ProxyJsonPeer
  <1>7. CASE ProxyStreamPeer(r)
    BY <1>2, <1>3, <1>7 DEF ProxyStreamPeer
  <1>8. CASE RelayEnds(r)
    BY <1>2, <1>8 DEF RelayEnds, Relaying
  <1>9. CASE Abandon(r)
    BY <1>9, EndsStep DEF Abandon, quiet
  <1>10. CASE Disconnect(r)
    <2>. DEFINE q == [o EXCEPT !.gone = TRUE]
    <2>1. To(r, q) /\ UNCHANGED <<pool, world, background>>
      BY <1>10 DEF Disconnect
    <2>. HIDE DEF o
    <2>2. /\ q \in RequestType
          /\ q.pc = o.pc /\ q.at = o.at /\ q.kind = o.kind /\ q.model = o.model
          /\ q.hedge = o.hedge /\ q.winner = o.winner /\ q.heard = o.heard
          /\ q.owed = o.owed /\ q.got = o.got
      BY <1>1 DEF RequestType
    <2>. HIDE DEF q
    <2>3. Sound(Served, Cleared, Bases, r, q)
      BY <1>1, <2>2, SoundAlike
    <2>. QED BY <2>1, <2>2, <2>3, QuietStep DEF o
  <1>. QED BY <1>4, <1>5, <1>6, <1>7, <1>8, <1>9, <1>10

(* A chunk is forwarded, or finds the client gone: sound if the client may *)
(* hear that side.                                                         *)
LEMMA ForwardStep ==
    ASSUME IInv, NEW r \in Requests, NEW side \in {"local", "hedge"}, NEW c, NEW q,
           Sound(Served, Cleared, Bases, r, q), q.at = req[r].at,
           Data(c) => OneSide([q EXCEPT !.heard = @ \cup {side}]),
           Forward(r, side, c, q), UNCHANGED quiet
    PROVE  IInv'
  <1>. DEFINE p == [q EXCEPT !.heard = IF Data(c) THEN @ \cup {side} ELSE @]
  <1>1. CASE req[r].gone
    BY <1>1, EndsStep DEF Forward
  <1>2. CASE ~ req[r].gone
    <2>1. To(r, p) /\ UNCHANGED <<pool, world, background>>
      BY <1>2 DEF Forward, quiet, pool
    <2>2. q \in RequestType
      BY DEF Sound
    <2>3. p \in RequestType
      BY <2>2 DEF RequestType
    <2>4. /\ p.pc = q.pc /\ p.at = q.at /\ p.kind = q.kind /\ p.model = q.model
          /\ p.hedge = q.hedge /\ p.owed = q.owed /\ p.got = q.got /\ p.winner = q.winner
          /\ p.heard = IF Data(c) THEN q.heard \cup {side} ELSE q.heard
      BY <2>2 DEF RequestType
    <2>5. OneSide(p)
      <3>1. CASE Data(c)
        <4>1. p = [q EXCEPT !.heard = @ \cup {side}]
          BY <3>1
        <4>. QED BY <3>1, <4>1
      <3>2. CASE ~ Data(c)
        BY <2>4, <3>2 DEF OneSide, Sound
      <3>. QED BY <3>1, <3>2
    <2>. HIDE DEF p
    <2>6. Sound(Served, Cleared, Bases, r, p)
      BY <2>3, <2>4, <2>5 DEF Sound, Placed, Metered, Pooled, Streams, Legs
    <2>. QED BY <2>1, <2>4, <2>6, QuietStep
  <1>. QED BY <1>1, <1>2

(* The stream task and its two upstreams. *)
LEMMA StreamStep ==
    ASSUME IInv, NEW r \in Requests,
           \/ LocalChunk(r) \/ LocalEnds(r) \/ HedgeTask(r)
           \/ HedgeChunk(r) \/ HedgeTimer(r) \/ Keepalive(r) \/ Drain(r)
    PROVE  IInv'
  <1>. DEFINE o == req[r]
  <1>1. /\ Sound(Served, Cleared, Bases, r, o) /\ o \in RequestType
        /\ config \in DOMAIN Configs
    BY DEF IInv, AllSound, PoolTypes
  <1>2. CASE LocalChunk(r)
    <2>1. o.pc = "stream" /\ UNCHANGED quiet
      BY <1>2 DEF LocalChunk
    <2>2. PICK c \in Chunks :
            LET won == Won(r, "local", c)
                q == [o EXCEPT !.winner = won]
            IN IF LocalForwards(won) THEN Forward(r, "local", c, q)
               ELSE To(r, q) /\ UNCHANGED inflight
      BY <1>2 DEF LocalChunk
    <2>. DEFINE won == Won(r, "local", c)
                q == [o EXCEPT !.winner = won]
    <2>3. /\ won \in {"none", "local", "hedge"}
          /\ o.winner # "none" => won = o.winner
          /\ o.winner = "none" => won = IF Data(c) THEN "local" ELSE "none"
      BY <1>1 DEF Won, RequestType
    <2>. HIDE DEF o, won
    <2>4. Sound(Served, Cleared, Bases, r, q) /\ q.at = o.at
      BY <1>1, <2>1, <2>3
         DEF Sound, RequestType, Placed, Metered, Pooled, Streams, OneSide, Legs, Holding
    <2>5. CASE LocalForwards(won)
      <3>1. Forward(r, "local", c, q)
        BY <2>2, <2>5 DEF won, o
      <3>2. Data(c) => OneSide([q EXCEPT !.heard = @ \cup {"local"}])
        <4>1. ASSUME Data(c) PROVE won = "local"
          BY <1>1, <2>3, <2>5, <4>1 DEF LocalForwards, RequestType
        <4>. QED BY <1>1, <2>1, <2>4, <4>1 DEF OneSide, RequestType, Sound
      <3>. HIDE DEF q
      <3>. QED BY <2>1, <2>4, <3>1, <3>2, ForwardStep DEF o
    <2>6. CASE ~ LocalForwards(won)
      <3>1. To(r, q) /\ UNCHANGED <<pool, world, background>>
        BY <2>1, <2>2, <2>6 DEF won, o, quiet, pool
      <3>. HIDE DEF q
      <3>. QED BY <2>4, <3>1, QuietStep DEF o
    <2>. QED BY <2>5, <2>6
  <1>3. CASE HedgeChunk(r)
    <2>. DEFINE c == Head(o.hx)
                won == Won(r, "hedge", c)
                q == [o EXCEPT !.winner = won, !.hx = Tail(@)]
    <2>1. /\ o.pc = "stream" /\ o.hx # << >> /\ UNCHANGED quiet
          /\ IF won = "hedge" THEN Forward(r, "hedge", c, q) ELSE To(r, q) /\ UNCHANGED inflight
      BY <1>3 DEF HedgeChunk
    <2>2. /\ won \in {"none", "local", "hedge"}
          /\ o.winner # "none" => won = o.winner
          /\ o.winner = "none" => won = IF Data(c) THEN "hedge" ELSE "none"
      BY <1>1 DEF Won, RequestType
    <2>3. Tail(o.hx) \in Seq(Chunks)
      BY <1>1, <2>1, HeadTailProperties DEF RequestType
    <2>. HIDE DEF o, won, c
    <2>4. Sound(Served, Cleared, Bases, r, q) /\ q.at = o.at
      BY <1>1, <2>1, <2>2, <2>3
         DEF Sound, RequestType, Placed, Metered, Pooled, Streams, OneSide, Legs, Holding
    <2>5. CASE won = "hedge"
      <3>1. OneSide([q EXCEPT !.heard = @ \cup {"hedge"}])
        BY <1>1, <2>1, <2>4, <2>5 DEF OneSide, RequestType, Sound
      <3>2. Forward(r, "hedge", c, q)
        BY <2>1, <2>5
      <3>. HIDE DEF q
      <3>. QED BY <2>1, <2>4, <3>1, <3>2, ForwardStep DEF o
    <2>6. CASE won # "hedge"
      <3>1. To(r, q) /\ UNCHANGED <<pool, world, background>>
        BY <2>1, <2>6 DEF quiet, pool
      <3>. HIDE DEF q
      <3>. QED BY <2>4, <3>1, QuietStep DEF o
    <2>. QED BY <2>5, <2>6
  <1>4. CASE Drain(r)
    <2>1. o.pc = "drain" /\ UNCHANGED quiet
      BY <1>4 DEF Drain
    <2>2. CASE o.hx # << >> /\ Forward(r, "hedge", Head(o.hx), [o EXCEPT !.hx = Tail(@)])
      <3>. DEFINE c == Head(o.hx)
                  q == [o EXCEPT !.hx = Tail(@)]
      <3>1. Tail(o.hx) \in Seq(Chunks) /\ Forward(r, "hedge", c, q)
        BY <1>1, <2>2, HeadTailProperties DEF RequestType
      <3>. HIDE DEF o, c
      <3>2. Sound(Served, Cleared, Bases, r, q) /\ q.at = o.at
        BY <1>1, <2>1, <3>1
           DEF Sound, RequestType, Placed, Metered, Pooled, Streams, OneSide, Legs, Holding
      <3>3. OneSide([q EXCEPT !.heard = @ \cup {"hedge"}])
        BY <1>1, <2>1, <3>2 DEF OneSide, RequestType, Sound
      <3>. HIDE DEF q
      <3>. QED BY <2>1, <3>1, <3>2, <3>3, ForwardStep DEF o
    <2>3. CASE Ends(r)
      BY <2>1, <2>3, EndsStep
    <2>. QED BY <1>4, <2>2, <2>3 DEF Drain
  <1>5. CASE LocalEnds(r)
    <2>1. o.pc = "stream" /\ UNCHANGED quiet
      BY <1>5 DEF LocalEnds
    <2>2. CASE Ends(r)
      BY <2>1, <2>2, EndsStep
    <2>3. CASE o.winner # "local" /\ To(r, [o EXCEPT !.pc = "drain"]) /\ UNCHANGED inflight
      <3>. DEFINE q == [o EXCEPT !.pc = "drain"]
      <3>1. To(r, q) /\ UNCHANGED <<pool, world, background>>
        BY <2>1, <2>3 DEF quiet, pool
      <3>. HIDE DEF o
      <3>2. Sound(Served, Cleared, Bases, r, q) /\ q.at = o.at
        BY <1>1, <2>1, <2>3
           DEF Sound, RequestType, Placed, Metered, Pooled, Streams, OneSide, Legs, Holding
      <3>. HIDE DEF q
      <3>. QED BY <3>1, <3>2, QuietStep DEF o
    <2>. QED BY <1>5, <2>2, <2>3 DEF LocalEnds
  <1>6. CASE Keepalive(r)
    BY <1>6, EndsStep DEF Keepalive
  <1>7. CASE HedgeTimer(r)
    <2>. DEFINE q == [o EXCEPT !.hedge = "asked"]
    <2>1. /\ o.pc = "stream" /\ OpenRouterServes(o.model) /\ To(r, q)
          /\ UNCHANGED <<pool, world, background>>
      BY <1>7 DEF HedgeTimer
    <2>. HIDE DEF o
    <2>2. o.model \in Served
      BY <1>1, <2>1 DEF Sound, Streams, Pooled, Holding
    <2>3. <<r, o.model>> \in Cleared
      BY <1>1, <2>1, <2>2, VerdictIsSound DEF RequestType
    <2>4. Sound(Served, Cleared, Bases, r, q) /\ q.at = o.at
      BY <1>1, <2>1, <2>3
         DEF Sound, RequestType, Placed, Metered, Pooled, Streams, OneSide, Legs, Holding
    <2>. HIDE DEF q
    <2>. QED BY <2>1, <2>4, QuietStep DEF o
  <1>8. CASE HedgeTask(r)
    <2>1. o.hedge # "off" /\ UNCHANGED <<pool, world, background>>
      BY <1>8 DEF HedgeTask
    <2>2. ASSUME NEW h \in {"open", "closed"}, To(r, [o EXCEPT !.hedge = h]) PROVE IInv'
      <3>. DEFINE q == [o EXCEPT !.hedge = h]
      <3>1. To(r, q)
        BY <2>2
      <3>. HIDE DEF o
      <3>2. Sound(Served, Cleared, Bases, r, q) /\ q.at = o.at
        BY <1>1, <2>1, <2>2
           DEF Sound, RequestType, Placed, Metered, Pooled, Streams, OneSide, Legs, Holding
      <3>. HIDE DEF q
      <3>. QED BY <2>1, <3>1, <3>2, QuietStep DEF o
    <2>3. ASSUME NEW c \in Chunks, To(r, [o EXCEPT !.hx = Append(@, c)]) PROVE IInv'
      <3>. DEFINE q == [o EXCEPT !.hx = Append(@, c)]
      <3>1. To(r, q)
        BY <2>3
      <3>. HIDE DEF o
      <3>2. Append(o.hx, c) \in Seq(Chunks)
        BY <1>1, AppendProperties DEF RequestType
      <3>3. /\ q \in RequestType
            /\ q.pc = o.pc /\ q.at = o.at /\ q.kind = o.kind /\ q.model = o.model
            /\ q.hedge = o.hedge /\ q.winner = o.winner /\ q.heard = o.heard
            /\ q.owed = o.owed /\ q.got = o.got
        BY <1>1, <3>2 DEF RequestType
      <3>. HIDE DEF q
      <3>4. Sound(Served, Cleared, Bases, r, q)
        BY <1>1, <3>3, SoundAlike
      <3>. QED BY <2>1, <3>1, <3>3, <3>4, QuietStep DEF o
    <2>. QED BY <1>8, <2>2, <2>3 DEF HedgeTask
  <1>. QED BY <1>2, <1>3, <1>4, <1>5, <1>6, <1>7, <1>8

-----------------------------------------------------------------------------
(* The two background loops, and the backends. *)
(* A loop that goes on is at a backend again. *)
LEMMA OnwardIn ==
    ASSUME config \in DOMAIN Configs, NEW task, task.i \in DOMAIN deployment.all
    PROVE  Onward(task).i \in DOMAIN deployment.all /\ Onward(task).step = "look"
  <1>1. Len(deployment.all) \in Nat \ {0} /\ DOMAIN deployment.all = 1 .. Len(deployment.all)
    BY DeploymentBuilt DEF Built
  <1>. DEFINE n == Len(deployment.all)
  <1>2. Onward(task) = [i |-> IF task.i = n THEN 1 ELSE task.i + 1, step |-> "look"]
    BY DEF Onward
  <1>3. n \in Nat \ {0} /\ task.i \in 1 .. n
    BY <1>1
  <1>. HIDE DEF n
  <1>4. (IF task.i = n THEN 1 ELSE task.i + 1) \in 1 .. n
    BY <1>3
  <1>. QED BY <1>1, <1>2, <1>4 DEF n

(* The places of the loops are backends. *)
LEMMA AtBackend ==
    ASSUME IInv
    PROVE  /\ deployment.all[prober.i] \in Backends /\ deployment.all[scraper.i] \in Backends
           /\ prober.i \in DOMAIN deployment.all /\ scraper.i \in DOMAIN deployment.all
           /\ config \in DOMAIN Configs
  <1>1. Built(deployment) /\ config \in DOMAIN Configs
    BY DeploymentBuilt DEF IInv, PoolTypes
  <1>2. prober.i \in DOMAIN deployment.all /\ scraper.i \in DOMAIN deployment.all
    BY DEF IInv, LoopTypes
  <1>. QED BY <1>1, <1>2 DEF Built

(* A step of no request. *)
LEMMA BackgroundStep ==
    ASSUME IInv, UNCHANGED <<config, inflight, req>>,
           healthy' \in [Backends -> BOOLEAN], failures' \in [Backends -> 0 .. CircuitOpenAfter],
           depth' \in [Backends -> Nat \cup {-1}], up' \in [Backends -> BOOLEAN],
           prober' \in [i : DOMAIN deployment.all, step : {"look", "asked", "trip", "close"}],
           scraper' \in [i : DOMAIN deployment.all, step : {"look", "asked"}],
           Windows'
    PROVE  IInv'
  <1>1. /\ deployment' = deployment /\ Bases' = Bases
        /\ Served' = Served /\ Cleared' = Cleared
    BY Settled
  <1>2. PoolTypes'
    BY DEF IInv, PoolTypes
  <1>3. LoopTypes'
    BY <1>1 DEF LoopTypes
  <1>4. AllSound'
    BY <1>1 DEF IInv, AllSound
  <1>5. SlotsBalanced'
    BY DEF IInv, SlotsBalanced
  <1>. QED BY <1>2, <1>3, <1>4, <1>5 DEF IInv

(* A sample that ages stays a sample. *)
LEMMA SampleAges ==
    ASSUME NEW s \in Sample, NEW n, n = IF s.age <= ThroughputWindow + 1 THEN s.age + 1 ELSE s.age
    PROVE  [s EXCEPT !.age = n] \in Sample /\ [s EXCEPT !.age = n].age = n
  <1>1. ThroughputWindow \in Nat
    BY LlmConstants
  <1>2. n \in 0 .. ThroughputWindow + 2
    BY <1>1 DEF Sample
  <1>. QED BY <1>2 DEF Sample

(* A window that ages as one stays a window. *)
LEMMA AgedInWindow ==
    ASSUME NEW w \in Seq(Sample), InWindow(w)
    PROVE  Aged(w) \in Seq(Sample) /\ InWindow(Aged(w))
  <1>. DEFINE W == ThroughputWindow
              older(a) == IF a <= W + 1 THEN a + 1 ELSE a
              n == Len(w)
              v == Aged(w)
  <1>1. W \in Nat /\ n \in Nat /\ DOMAIN w = 1 .. n
    BY LlmConstants
  <1>2. v = [i \in 1 .. n |-> [w[i] EXCEPT !.age = older(w[i].age)]]
    BY <1>1 DEF Aged
  <1>3. \A i \in 1 .. n : w[i] \in Sample
    BY ElementOfSeq
  <1>. HIDE DEF n
  <1>4. \A i \in 1 .. n : v[i] \in Sample /\ v[i].age = older(w[i].age)
    <2>1. ASSUME NEW i \in 1 .. n PROVE v[i] \in Sample /\ v[i].age = older(w[i].age)
      <3>1. w[i] \in Sample
        BY <1>3
      <3>2. v[i] = [w[i] EXCEPT !.age = older(w[i].age)]
        BY <1>2
      <3>. HIDE DEF v
      <3>. QED BY <3>1, <3>2, SampleAges
    <2>. QED BY <2>1
  <1>5. v \in Seq(Sample) /\ Len(v) = n
    <2>1. \A i \in 1 .. n : [w[i] EXCEPT !.age = older(w[i].age)] \in Sample
      BY <1>2, <1>4
    <2>. HIDE DEF v
    <2>. QED BY <1>1, <1>2, <2>1
  <1>6. CASE n = 0
    <2>1. v = << >>
      BY <1>5, <1>6, EmptySeq
    <2>. QED BY <1>5, <2>1 DEF InWindow
  <1>7. CASE n > 0
    <2>1. /\ 1 \in 1 .. n /\ n \in 1 .. n
      BY <1>1, <1>7
    <2>2. /\ w[1].age \in 0 .. W + 2 /\ w[n].age \in 0 .. W + 2
      BY <1>3, <2>1 DEF Sample
    <2>3. w # << >>
      BY <1>7 DEF n
    <2>4. w[1].age <= w[n].age + W
      BY <2>3 DEF InWindow, n
    <2>5. older(w[1].age) <= older(w[n].age) + W
      <3>1. \A V \in Nat : \A a, b \in 0 .. V + 2 : a <= b + V =>
              (IF a <= V + 1 THEN a + 1 ELSE a) <= (IF b <= V + 1 THEN b + 1 ELSE b) + V
        OBVIOUS
      <3>. QED BY <1>1, <2>2, <2>4, <3>1
    <2>6. v[1].age <= v[n].age + W
      BY <1>4, <2>1, <2>5
    <2>. QED BY <1>5, <2>6 DEF InWindow
  <1>. QED BY <1>1, <1>6, <1>7

(* A push leaves a window: what is too old for the sample pushed is gone. *)
LEMMA PushInWindow ==
    ASSUME NEW w \in Seq(Sample), NEW c, c.tokens \in Nat, c.success \in Nat \cup {Bad},
           NEW k \in Nat
    PROVE  /\ PushThroughputSample(w, c, k) \in Seq(Sample)
           /\ InWindow(PushThroughputSample(w, c, k))
  <1>. DEFINE W == ThroughputWindow
              s == [age |-> 0, tokens |-> c.tokens, success |-> c.success, inflight |-> k]
              v == Append(w, s)
              n == Len(v)
              Young(i) == v[i].age <= W /\ \A j \in 1 .. i - 1 : v[j].age > W
              kept == CHOOSE i \in 1 .. n : Young(i)
              T == {i \in 1 .. n : v[i].age <= W}
  <1>1. W \in Nat /\ s \in Sample /\ s.age = 0
    BY LlmConstants DEF Sample
  <1>. HIDE DEF s
  <1>2. v \in Seq(Sample) /\ n = Len(w) + 1 /\ Len(w) \in Nat /\ v[n] = s
    BY <1>1, AppendProperties
  <1>3. \A i \in 1 .. n : v[i] \in Sample
    BY <1>2, ElementOfSeq
  <1>. HIDE DEF v, n
  <1>4. \A i \in 1 .. n : v[i].age \in Nat
    BY <1>1, <1>3 DEF Sample
  <1>5. n \in T /\ T \subseteq Nat
    BY <1>1, <1>2
  <1>6. PICK i \in T : \A j \in T : i <= j
    <2>. HIDE DEF T
    <2>. QED BY <1>5, LeastNat
  <1>7. i \in 1 .. n /\ Young(i)
    <2>1. ASSUME NEW j \in 1 .. i - 1 PROVE v[j].age > W
      <3>1. j \in 1 .. n /\ j \notin T
        BY <1>2, <1>6, <2>1
      <3>. QED BY <1>1, <1>4, <3>1
    <2>. QED BY <1>6, <2>1
  <1>8. kept \in 1 .. n /\ v[kept].age <= W
    <2>. HIDE DEF Young
    <2>1. kept \in 1 .. n /\ Young(kept)
      BY <1>7
    <2>. QED BY <2>1 DEF Young
  <1>9. PushThroughputSample(w, c, k) = SubSeq(v, kept, n)
    BY DEF PushThroughputSample, Evicted, v, n, s
  <1>. HIDE DEF kept
  <1>10. SubSeq(v, kept, n) \in Seq(Sample) /\ Len(SubSeq(v, kept, n)) = n - kept + 1
         /\ \A j \in 1 .. n - kept + 1 : SubSeq(v, kept, n)[j] = v[kept + j - 1]
    BY <1>2, <1>8, SubSeqProperties DEF n
  <1>11. /\ SubSeq(v, kept, n)[1] = v[kept]
         /\ SubSeq(v, kept, n)[n - kept + 1] = s
    <2>1. 1 \in 1 .. n - kept + 1 /\ n - kept + 1 \in 1 .. n - kept + 1
          /\ kept + 1 - 1 = kept /\ kept + (n - kept + 1) - 1 = n
      BY <1>2, <1>8
    <2>. QED BY <1>2, <1>10, <2>1
  <1>12. v[kept].age <= s.age + W
    BY <1>1, <1>8
  <1>. QED BY <1>9, <1>10, <1>11, <1>12 DEF InWindow

(* A depth is a number, or unknown. *)
LEMMA DepthType ==
    ASSUME NEW e \in Seq(Lines)
    PROVE  ParseNumRequestsWaiting(e) \in Nat \cup {-1}
  BY TotalType DEF ParseNumRequestsWaiting

(* The counters of a page are numbers. *)
LEMMA CountersType ==
    ASSUME NEW e \in Seq(Lines), NEW c \in ParseThroughputCounters(e)
    PROVE  c.tokens \in Nat /\ c.success \in Nat \cup {Bad}
  <1>1. Total(e, GenerationTokens) \in Nat /\ Total(e, {"success"}) \in Nat
    BY TotalType
  <1>2. c = [tokens |-> Total(e, GenerationTokens),
             success |-> IF Seen(e, {"success"}) THEN Total(e, {"success"}) ELSE Bad]
    BY DEF ParseThroughputCounters
  <1>. QED BY <1>1, <1>2

(* The end of a round keeps the windows. *)
LEMMA RoundOverWindows ==
    ASSUME NEW win \in [Backends -> Seq(Sample)], \A b \in Backends : InWindow(win[b]),
           window' = RoundOver(win)
    PROVE  Windows'
  <1>1. CASE window' = win
    BY <1>1 DEF Windows
  <1>2. CASE window' = [b \in Backends |-> Aged(win[b])]
    <2>1. \A b \in Backends : Aged(win[b]) \in Seq(Sample) /\ InWindow(Aged(win[b]))
      BY AgedInWindow
    <2>. QED BY <1>2, <2>1 DEF Windows
  <1>. QED BY <1>1, <1>2 DEF RoundOver

(* The prober keeps the invariant. *)
LEMMA ProberStep ==
    ASSUME IInv, Probe \/ Probed
    PROVE  IInv'
  <1>. DEFINE b == deployment.all[prober.i]
  <1>1. /\ b \in Backends /\ prober.i \in DOMAIN deployment.all /\ config \in DOMAIN Configs
    BY AtBackend
  <1>2. /\ healthy \in [Backends -> BOOLEAN] /\ failures \in [Backends -> 0 .. CircuitOpenAfter]
        /\ depth \in [Backends -> Nat \cup {-1}] /\ up \in [Backends -> BOOLEAN]
        /\ prober \in [i : DOMAIN deployment.all, step : {"look", "asked", "trip", "close"}]
        /\ scraper \in [i : DOMAIN deployment.all, step : {"look", "asked"}]
        /\ Windows
    BY DEF IInv, PoolTypes, LoopTypes
  <1>3. /\ Onward(prober) \in [i : DOMAIN deployment.all, step : {"look", "asked", "trip", "close"}]
        /\ \A s \in {"look", "asked", "trip", "close"} :
             [prober EXCEPT !.step = s] \in
               [i : DOMAIN deployment.all, step : {"look", "asked", "trip", "close"}]
    <2>1. Onward(prober).i \in DOMAIN deployment.all /\ Onward(prober).step = "look"
      BY <1>1, OnwardIn
    <2>2. Onward(prober) \in [i : DOMAIN deployment.all, step : {"look", "asked", "trip", "close"}]
      BY <2>1 DEF Onward
    <2>. QED BY <1>2, <2>2
  <1>4. UNCHANGED <<window>> => Windows'
    BY <1>2 DEF Windows
  <1>5. CASE Probe
    <2>1. prober' \in [i : DOMAIN deployment.all, step : {"look", "asked", "trip", "close"}]
      BY <1>3, <1>5 DEF Probe
    <2>2. UNCHANGED <<pool, world, scraper, window, req>>
      BY <1>5 DEF Probe
    <2>. QED BY <1>2, <1>4, <2>1, <2>2, BackgroundStep DEF pool, world
  <1>6. CASE Probed
    <2>1. UNCHANGED <<inflight, depth, world, scraper, window, req>>
      BY <1>6 DEF Probed
    <2>2. Counted(b) \in 0 .. CircuitOpenAfter /\ 0 \in 0 .. CircuitOpenAfter
      BY <1>1, CountedType, LlmConstants
    <2>3. \/ /\ failures' = [failures EXCEPT ![b] = 0] /\ healthy' = healthy
             /\ prober' = [prober EXCEPT !.step = "close"]
          \/ /\ failures' = [failures EXCEPT ![b] = Counted(b)] /\ healthy' = healthy
             /\ prober' = [prober EXCEPT !.step = "trip"] \/ prober' = Onward(prober)
          \/ /\ healthy' = [healthy EXCEPT ![b] = (prober.step = "close")]
             /\ failures' = failures /\ prober' = Onward(prober)
      BY <1>6 DEF Probed
    <2>4. prober' \in [i : DOMAIN deployment.all, step : {"look", "asked", "trip", "close"}]
      BY <1>3, <2>3
    <2>. HIDE DEF b
    <2>5. failures' \in [Backends -> 0 .. CircuitOpenAfter]
      BY <1>2, <2>2, <2>3
    <2>6. healthy' \in [Backends -> BOOLEAN]
      <3>1. CASE healthy' = healthy
        BY <1>2, <3>1
      <3>2. CASE healthy' = [healthy EXCEPT ![b] = (prober.step = "close")]
        BY <1>2, <3>2
      <3>. QED BY <2>3, <3>1, <3>2
    <2>. QED BY <1>2, <1>4, <2>1, <2>4, <2>5, <2>6, BackgroundStep DEF world
  <1>. QED BY <1>5, <1>6

(* The queue scraper keeps it. *)
LEMMA ScraperStep ==
    ASSUME IInv, Scrape \/ Scraped
    PROVE  IInv'
  <1>. DEFINE b == deployment.all[scraper.i]
  <1>1. /\ b \in Backends /\ scraper.i \in DOMAIN deployment.all /\ config \in DOMAIN Configs
    BY AtBackend
  <1>2. /\ healthy \in [Backends -> BOOLEAN] /\ failures \in [Backends -> 0 .. CircuitOpenAfter]
        /\ depth \in [Backends -> Nat \cup {-1}] /\ up \in [Backends -> BOOLEAN]
        /\ prober \in [i : DOMAIN deployment.all, step : {"look", "asked", "trip", "close"}]
        /\ scraper \in [i : DOMAIN deployment.all, step : {"look", "asked"}]
        /\ inflight \in [Backends -> Nat]
    BY DEF IInv, PoolTypes, LoopTypes
  <1>w. window \in [Backends -> Seq(Sample)] /\ \A x \in Backends : InWindow(window[x])
    BY DEF IInv, Windows
  <1>3. /\ Onward(scraper) \in [i : DOMAIN deployment.all, step : {"look", "asked"}]
        /\ [scraper EXCEPT !.step = "asked"] \in [i : DOMAIN deployment.all, step : {"look", "asked"}]
    <2>1. Onward(scraper).i \in DOMAIN deployment.all /\ Onward(scraper).step = "look"
      BY <1>1, OnwardIn
    <2>2. Onward(scraper) \in [i : DOMAIN deployment.all, step : {"look", "asked"}]
      BY <2>1 DEF Onward
    <2>. QED BY <1>2, <2>2
  <1>4. ASSUME scraper' \in [i : DOMAIN deployment.all, step : {"look", "asked"}],
               depth' \in [Backends -> Nat \cup {-1}], Windows',
               UNCHANGED <<inflight, healthy, failures, world, prober, req>>
        PROVE  IInv'
    BY <1>2, <1>4, BackgroundStep DEF world
  <1>5. CASE Scrape
    <2>1. UNCHANGED <<inflight, healthy, failures, world, prober, req>>
      BY <1>5 DEF Scrape
    <2>2. CASE healthy[b]
      <3>1. scraper' = [scraper EXCEPT !.step = "asked"] /\ UNCHANGED <<depth, window>>
        BY <1>5, <2>2 DEF Scrape
      <3>2. Windows'
        BY <1>w, <3>1 DEF Windows
      <3>. QED BY <1>2, <1>3, <1>4, <2>1, <3>1, <3>2
    <2>3. CASE ~ healthy[b]
      <3>1. depth' = [depth EXCEPT ![b] = -1] /\ scraper' = Onward(scraper)
            /\ window' = RoundOver(window)
        BY <1>5, <2>3 DEF Scrape
      <3>2. Windows'
        BY <1>w, <3>1, RoundOverWindows
      <3>3. depth' \in [Backends -> Nat \cup {-1}]
        BY <1>1, <1>2, <3>1
      <3>. QED BY <1>3, <1>4, <2>1, <3>1, <3>2, <3>3
    <2>. QED BY <2>2, <2>3
  <1>6. CASE Scraped
    <2>1. UNCHANGED <<inflight, healthy, failures, world, prober, req>> /\ scraper' = Onward(scraper)
      BY <1>6 DEF Scraped
    <2>2. PICK e \in deployment.config.metrics \cup {<< >>} :
            /\ depth' = [depth EXCEPT ![b] = ParseNumRequestsWaiting(e)]
            /\ LET cs == ParseThroughputCounters(e)
                   pushed == IF cs = {} THEN window[b]
                             ELSE PushThroughputSample(window[b], CHOOSE c \in cs : TRUE, inflight[b])
               IN window' = RoundOver([window EXCEPT ![b] = pushed])
      BY <1>6 DEF Scraped
    <2>. DEFINE cs == ParseThroughputCounters(e)
                c == CHOOSE x \in cs : TRUE
                pushed == IF cs = {} THEN window[b]
                          ELSE PushThroughputSample(window[b], c, inflight[b])
                win == [window EXCEPT ![b] = pushed]
    <2>e. window' = RoundOver(win)
      BY <2>2
    <2>3. e \in Seq(Lines)
      <3>1. deployment.config.metrics \subseteq Seq(Lines)
        BY <1>1, DeploymentBuilt DEF Built
      <3>. QED BY <3>1, EmptySeq
    <2>4. depth' \in [Backends -> Nat \cup {-1}]
      <3>1. ParseNumRequestsWaiting(e) \in Nat \cup {-1}
        BY <2>3, DepthType
      <3>. QED BY <1>1, <1>2, <2>2, <3>1
    <2>5. pushed \in Seq(Sample) /\ InWindow(pushed)
      <3>1. CASE cs = {}
        BY <1>1, <1>w, <3>1
      <3>2. CASE cs # {}
        <4>1. c \in cs
          BY <3>2
        <4>. HIDE DEF c
        <4>2. c.tokens \in Nat /\ c.success \in Nat \cup {Bad}
          BY <2>3, <4>1, CountersType
        <4>3. window[b] \in Seq(Sample) /\ inflight[b] \in Nat
          BY <1>1, <1>2, <1>w
        <4>. HIDE DEF cs, b
        <4>. QED BY <3>2, <4>2, <4>3, PushInWindow
      <3>. QED BY <3>1, <3>2
    <2>. HIDE DEF pushed
    <2>6. win \in [Backends -> Seq(Sample)] /\ \A x \in Backends : InWindow(win[x])
      BY <1>w, <2>5
    <2>. HIDE DEF win
    <2>7. Windows'
      BY <2>e, <2>6, RoundOverWindows
    <2>. QED BY <1>3, <1>4, <2>1, <2>4, <2>7
  <1>. QED BY <1>5, <1>6

(* An outage or a recovery keeps it. *)
LEMMA FlipStep ==
    ASSUME IInv, NEW b \in Flaky, Flip(b)
    PROVE  IInv'
  <1>1. Flaky \subseteq Backends
    BY LlmConstants
  <1>2. up' \in [Backends -> BOOLEAN]
    BY <1>1 DEF IInv, PoolTypes, Flip
  <1>3. UNCHANGED <<config, pool, background, req>>
    BY DEF Flip
  <1>4. UNCHANGED <<healthy, failures, depth, inflight, prober, scraper, window>>
    BY <1>3 DEF pool, background
  <1>5. Windows'
    BY <1>4 DEF IInv, Windows
  <1>. QED BY <1>2, <1>3, <1>4, <1>5, BackgroundStep DEF IInv, PoolTypes, LoopTypes

-----------------------------------------------------------------------------
(* The process starts in it. *)
LEMMA Initially ==
    ASSUME Init
    PROVE  IInv
  <1>1. config \in DOMAIN Configs /\ Len(deployment.all) \in Nat \ {0}
        /\ DOMAIN deployment.all = 1 .. Len(deployment.all)
    BY DeploymentBuilt DEF Init, Built
  <1>2. PoolTypes
    BY LlmConstants DEF Init, PoolTypes
  <1>3. LoopTypes
    <2>1. 1 \in DOMAIN deployment.all
      BY <1>1
    <2>. QED BY <2>1 DEF Init, LoopTypes
  <1>4. Windows
    <2>1. << >> \in Seq(Sample)
      BY EmptySeq
    <2>. QED BY <2>1 DEF Init, Windows, InWindow
  <1>5. AllSound
    <2>1. \A r \in Requests : req[r] = Fresh
      BY DEF Init
    <2>2. Fresh \in RequestType
      BY FreshSound DEF Sound
    <2>. QED BY <2>1, <2>2, FreshSound DEF Init, AllSound
  <1>6. SlotsBalanced
    <2>1. ASSUME NEW b \in Backends PROVE inflight[b] = Cardinality({r \in Requests : req[r].at = b})
      <3>1. {r \in Requests : req[r].at = b} = {}
        <4>1. NoBackend \notin Backends /\ \A r \in Requests : req[r].at = NoBackend
          BY FreshSound, LlmConstants DEF Init
        <4>. QED BY <4>1
      <3>2. inflight[b] = 0
        BY DEF Init
      <3>. QED BY <3>1, <3>2, FS_EmptySet
    <2>. QED BY <2>1 DEF SlotsBalanced
  <1>. QED BY <1>2, <1>3, <1>4, <1>5, <1>6 DEF IInv

(* Every step keeps it. *)
LEMMA Inductive ==
    IInv /\ [Next]_vars => IInv'
  <1>1. SUFFICES ASSUME IInv, [Next]_vars PROVE IInv'
    OBVIOUS
  <1>2. ASSUME NEW r \in Requests,
               Resolve(r) \/ Handler(r) \/ Upstream(r) \/ StreamTask(r) \/ Abandon(r) \/ Disconnect(r)
        PROVE  IInv'
    <2>1. CASE Resolve(r)
      BY <1>1, <2>1, ResolveStep
    <2>2. CASE Handler(r)
      BY <1>1, <2>2, LoopStep, RelayStep, ListStep
         DEF Handler, ProxyJson, ProxyStream, ProxyBytes, ProxyMultipart
    <2>3. CASE Upstream(r) \/ StreamTask(r)
      BY <1>1, <2>3, RelayStep, StreamStep DEF Upstream, StreamTask
    <2>4. CASE Abandon(r) \/ Disconnect(r)
      BY <1>1, <2>4, RelayStep
    <2>. QED BY <1>2, <2>1, <2>2, <2>3, <2>4
  <1>3. CASE Probe \/ Probed
    BY <1>1, <1>3, ProberStep
  <1>4. CASE Scrape \/ Scraped
    BY <1>1, <1>4, ScraperStep
  <1>5. ASSUME NEW b \in Flaky, Flip(b) PROVE IInv'
    BY <1>1, <1>5, FlipStep
  <1>6. CASE UNCHANGED vars
    <2>1. UNCHANGED <<config, inflight, req, healthy, failures, depth, up, prober, scraper, window>>
      BY <1>6 DEF vars, pool, world, background
    <2>2. Windows'
      BY <1>1, <2>1 DEF IInv, Windows
    <2>. QED BY <1>1, <2>1, <2>2, BackgroundStep DEF IInv, PoolTypes, LoopTypes
  <1>. QED BY <1>1, <1>2, <1>3, <1>4, <1>5, <1>6 DEF Next

(* The inductive invariant: types, windows, balanced slots, and every      *)
(* request sound.                                                          *)
THEOREM Inv == Spec => []IInv
  BY Initially, Inductive, PTL DEF Spec

-----------------------------------------------------------------------------
(* A window of samples has the type of TypeOK. *)
LEMMA SampleSeq ==
    ASSUME NEW w \in Seq(Sample)
    PROVE  w \in Seq([age : Nat, tokens : Nat, success : Nat \cup {Bad}, inflight : Nat])
  <1>. DEFINE S == [age : Nat, tokens : Nat, success : Nat \cup {Bad}, inflight : Nat]
  <1>1. ThroughputWindow \in Nat
    BY LlmConstants
  <1>2. Sample \subseteq S
    BY <1>1 DEF Sample
  <1>3. Len(w) \in Nat /\ w \in [1 .. Len(w) -> Sample]
    BY LenProperties
  <1>. DEFINE n == Len(w)
  <1>4. n \in Nat /\ w \in [1 .. n -> S]
    BY <1>2, <1>3
  <1>. HIDE DEF S, n
  <1>5. w \in Seq(S)
    BY <1>4
  <1>. QED BY <1>5 DEF S

(* A rate is over a window: its samples are the first and the last of one. *)
LEMMA RatesInWindow ==
    ASSUME IInv
    PROVE  RatesOfWindow
  <1>1. SUFFICES ASSUME NEW b \in Backends, NEW x \in ThroughputRates(b)
                 PROVE  x.elapsed \in 1 .. ThroughputWindow
    BY DEF RatesOfWindow
  <1>. DEFINE w == window[b]
              n == Len(w)
  <1>2. w \in Seq(Sample) /\ InWindow(w) /\ ThroughputWindow \in Nat
    BY LlmConstants DEF IInv, Windows
  <1>3. w # << >> /\ ~ (w[1].age <= w[n].age) /\ x.elapsed = w[1].age - w[n].age
    BY DEF ThroughputRates
  <1>. HIDE DEF w
  <1>4. 1 \in 1 .. n /\ n \in 1 .. n
    BY <1>2, <1>3, EmptySeq
  <1>5. w[1] \in Sample /\ w[n] \in Sample
    BY <1>2, <1>4, ElementOfSeq
  <1>6. w[1].age \in Nat /\ w[n].age \in Nat
    BY <1>2, <1>5 DEF Sample
  <1>7. w[1].age <= w[n].age + ThroughputWindow
    BY <1>2, <1>3 DEF InWindow
  <1>. QED BY <1>2, <1>3, <1>6, <1>7

(* The invariant is the pool's books and more. *)
LEMMA PoolImplied ==
    IInv => PoolInv
  <1>1. SUFFICES ASSUME IInv PROVE PoolInv
    OBVIOUS
  <1>2. \A b \in Backends :
          window[b] \in Seq([age : Nat, tokens : Nat, success : Nat \cup {Bad}, inflight : Nat])
    BY <1>1, SampleSeq DEF IInv, Windows
  <1>3. window \in [Backends -> Seq([age : Nat, tokens : Nat, success : Nat \cup {Bad},
                                    inflight : Nat])]
    BY <1>1, <1>2 DEF IInv, Windows
  <1>4. TypeOK
    BY <1>1, <1>3 DEF IInv, PoolTypes, LoopTypes, AllSound, TypeOK
  <1>. QED BY <1>1, <1>4, RatesInWindow DEF PoolInv, IInv

(* The pool's books hold whatever is retried, dropped, hedged or drained:  *)
(* the in-flight count of a backend is the number of requests that hold    *)
(* its slot, and a rate is over samples of one window.                     *)
THEOREM PoolSafe == Spec => []PoolInv
  BY Inv, PoolImplied, PTL

(* A metered call is for a mapped model that is not Claude's, and without  *)
(* local backends for a privileged caller only.                            *)
THEOREM MeteredSafe == Spec => []MeteredIsAllowed
  <1>1. ASSUME IInv PROVE MeteredIsAllowed
    BY <1>1 DEF IInv, AllSound, Sound, Metered, Cleared, MeteredIsAllowed
  <1>. QED BY <1>1, Inv, PTL

(* A hedged client hears one side only, however local answer, hedge, drain *)
(* and departure interleave.                                               *)
THEOREM VoiceSafe == Spec => []OneVoice
  <1>1. ASSUME IInv PROVE OneVoice
    <2>1. SUFFICES ASSUME NEW r \in Requests PROVE Cardinality(req[r].heard) <= 1
      BY DEF OneVoice
    <2>2. \E side : req[r].heard \subseteq {side}
      BY <1>1 DEF IInv, AllSound, Sound, OneSide
    <2>3. PICK side : req[r].heard \subseteq {side}
      BY <2>2
    <2>4. CASE req[r].heard = {}
      <3>1. Cardinality(req[r].heard) = 0
        BY <2>4, FS_EmptySet
      <3>. QED BY <3>1
    <2>5. CASE req[r].heard = {side}
      <3>1. Cardinality(req[r].heard) = 1
        BY <2>5, FS_Singleton
      <3>. QED BY <3>1
    <2>. QED BY <2>3, <2>4, <2>5
  <1>. QED BY <1>1, Inv, PTL

-----------------------------------------------------------------------------
(* The place of a leg in the order in which the lists are merged. *)
Place(x) ==
    IF x = OpenRouter THEN Len(deployment.all) + 1
    ELSE IF x = deployment.primary THEN 0
    ELSE CHOOSE i \in DOMAIN deployment.all : deployment.all[i] = x

(* Precedes compares places. *)
LEMMA PrecedesIs ==
    ASSUME NEW b, NEW c
    PROVE  Precedes(b, c) <=> Place(b) < Place(c)
  BY DEF Precedes, Place

(* No two legs have the same place. *)
LEMMA PlaceOrders ==
    ASSUME config \in DOMAIN Configs
    PROVE  /\ \A x \in Bases : Place(x) \in Nat
           /\ \A x, y \in Bases : Place(x) = Place(y) => x = y
  <1>1. /\ Len(deployment.all) \in Nat \ {0} /\ DOMAIN deployment.all = 1 .. Len(deployment.all)
        /\ \A i \in 1 .. Len(deployment.all) : deployment.all[i] \in Backends
        /\ deployment.primary \in Backends \cup {NoBackend}
    BY DeploymentBuilt DEF Built
  <1>2. OpenRouter \notin Backends
    BY LlmConstants
  <1>3. ASSUME NEW x \in Bases
        PROVE  \/ x = OpenRouter /\ Place(x) = Len(deployment.all) + 1
               \/ x # OpenRouter /\ x = deployment.primary /\ Place(x) = 0
               \/ /\ x # OpenRouter /\ x # deployment.primary
                  /\ Place(x) \in 1 .. Len(deployment.all) /\ deployment.all[Place(x)] = x
    <2>1. CASE x = OpenRouter
      BY <2>1 DEF Place
    <2>2. CASE x # OpenRouter /\ x = deployment.primary
      BY <2>2 DEF Place
    <2>3. CASE x # OpenRouter /\ x # deployment.primary
      <3>1. \E i \in DOMAIN deployment.all : deployment.all[i] = x
        BY <2>3 DEF Bases
      <3>2. Place(x) = CHOOSE i \in DOMAIN deployment.all : deployment.all[i] = x
        BY <2>3 DEF Place
      <3>. QED BY <1>1, <2>3, <3>1, <3>2
    <2>. QED BY <2>1, <2>2, <2>3
  <1>. DEFINE n == Len(deployment.all)
  <1>4. n \in Nat
    BY <1>1
  <1>5. ASSUME NEW x \in Bases PROVE Place(x) \in Nat
    BY <1>1, <1>3
  <1>6. ASSUME NEW x \in Bases, NEW y \in Bases, Place(x) = Place(y) PROVE x = y
    <2>1. \/ x = OpenRouter /\ Place(x) = n + 1
          \/ x = deployment.primary /\ Place(x) = 0
          \/ Place(x) \in 1 .. n /\ deployment.all[Place(x)] = x
      BY <1>3
    <2>2. \/ y = OpenRouter /\ Place(y) = n + 1
          \/ y = deployment.primary /\ Place(y) = 0
          \/ Place(y) \in 1 .. n /\ deployment.all[Place(y)] = y
      BY <1>3
    <2>. HIDE DEF n
    <2>. QED BY <1>4, <1>6, <2>1, <2>2
  <1>. QED BY <1>5, <1>6

(* What the merged list of any legs of a pool says. *)
LEMMA HonestList ==
    ASSUME IInv, NEW r \in Requests, NEW rev \in Reverses
    PROVE  LET list == Catalog(req[r].got, rev)
           IN /\ \A x, y \in list : x[1] = y[1] => x = y
              /\ \A x \in list : x[2] = OpenRouter /\ x[1] \notin Claude
                                   => Verdict(x[1], TRUE) # "refused"
              /\ \A b \in req[r].got \ {OpenRouter} : \A m \in Advertised[b] :
                   \E x \in list : x[1] = m
  <1>. DEFINE got == req[r].got
              list == Catalog(got, rev)
  <1>1. config \in DOMAIN Configs /\ got \subseteq Bases
    BY DEF IInv, PoolTypes, AllSound, Sound, Legs
  <1>2. /\ \A x \in Bases : Place(x) \in Nat
        /\ \A x, y \in Bases : Place(x) = Place(y) => x = y
    BY <1>1, PlaceOrders
  <1>. HIDE DEF got
  <1>3. \A x : x \in list <=>
          /\ x \in Models \X got /\ x[1] \in IdsOf(x[2], rev)
          /\ \A b \in got : x[1] \in IdsOf(b, rev) => ~ (Place(b) < Place(x[2]))
    BY PrecedesIs DEF Catalog
  <1>. HIDE DEF list
  <1>4. ASSUME NEW x \in list, NEW y \in list, x[1] = y[1] PROVE x = y
    <2>1. /\ x \in Models \X got /\ y \in Models \X got
          /\ ~ (Place(y[2]) < Place(x[2])) /\ ~ (Place(x[2]) < Place(y[2]))
      BY <1>3, <1>4
    <2>2. x[2] \in Bases /\ y[2] \in Bases
      BY <1>1, <2>1
    <2>3. x[2] = y[2]
      <3>1. Place(x[2]) \in Nat /\ Place(y[2]) \in Nat
        BY <1>2, <2>2
      <3>2. Place(x[2]) = Place(y[2])
        BY <2>1, <3>1
      <3>. QED BY <1>2, <2>2, <3>2
    <2>. QED BY <1>4, <2>1, <2>3
  <1>5. ASSUME NEW x \in list, x[2] = OpenRouter, x[1] \notin Claude
        PROVE  Verdict(x[1], TRUE) # "refused"
    <2>1. x[1] \in Mapped
      <3>1. x[1] \in IdsOf(OpenRouter, rev)
        BY <1>3, <1>5
      <3>. QED BY <3>1 DEF IdsOf, Reverses
    <2>2. deployment.config.openrouter
      <3>1. OpenRouter \in Bases
        BY <1>1, <1>3, <1>5
      <3>2. /\ deployment.primary \in Backends \cup {NoBackend}
            /\ \A i \in DOMAIN deployment.all : deployment.all[i] \in Backends
        BY <1>1, DeploymentBuilt DEF Built
      <3>3. OpenRouter \notin Backends
        BY LlmConstants
      <3>. QED BY <3>1, <3>2, <3>3 DEF Bases
    <2>3. OpenRouterServes(x[1])
      BY <2>1, <2>2 DEF OpenRouterServes
    <2>. QED BY <1>5, <2>3 DEF Verdict
  <1>6. ASSUME NEW b \in got \ {OpenRouter}, NEW m \in Advertised[b]
        PROVE  \E x \in list : x[1] = m
    <2>1. m \in Models /\ m \in IdsOf(b, rev)
      <3>1. b \in Backends \cup {OpenRouter}
        BY <1>1, BasesType
      <3>. QED BY <3>1, LlmConstants DEF IdsOf
    <2>. DEFINE T == {k \in Nat : \E c \in got : m \in IdsOf(c, rev) /\ k = Place(c)}
    <2>2. Place(b) \in T /\ T \subseteq Nat
      BY <1>1, <1>2, <2>1
    <2>3. PICK k \in T : \A l \in T : k <= l
      <3>. HIDE DEF T
      <3>. QED BY <2>2, LeastNat
    <2>4. PICK c \in got : m \in IdsOf(c, rev) /\ k = Place(c)
      OBVIOUS
    <2>5. ASSUME NEW d \in got, m \in IdsOf(d, rev) PROVE ~ (Place(d) < Place(c))
      <3>1. Place(d) \in T /\ Place(d) \in Nat /\ Place(c) \in Nat
        BY <1>1, <1>2, <2>5
      <3>2. Place(c) <= Place(d)
        BY <2>3, <2>4, <3>1
      <3>. QED BY <3>1, <3>2
    <2>6. <<m, c>> \in list
      BY <1>3, <2>1, <2>4, <2>5
    <2>. QED BY <2>6
  <1>. QED BY <1>4, <1>5, <1>6 DEF list, got

(* The model list names each id once, none of OpenRouter's that the        *)
(* gateway refuses, and all of every leg that answered.                    *)
THEOREM CatalogSafe == Spec => []CatalogHonest
  <1>1. ASSUME IInv PROVE CatalogHonest
    BY <1>1, HonestList DEF CatalogHonest
  <1>. QED BY <1>1, Inv, PTL

-----------------------------------------------------------------------------
(* Only an arrival puts a request on its way through the pool. *)
LEMMA OnlyArrivalsTry ==
    ASSUME IInv, [Next]_vars, NEW r \in Requests, req[r].pc = "done", req'[r].pc = "try"
    PROVE  Resolve(r) \/ ListModels(r)
  <1>1. req \in [Requests -> RequestType]
    BY DEF IInv, AllSound
  <1>2. ASSUME req' = req PROVE FALSE
    BY <1>2
  <1>3. ASSUME NEW s \in Requests, NEW q, To(s, q), s = r => q.pc # "try"
        PROVE  FALSE
    BY <1>1, <1>3 DEF To
  <1>4. ASSUME NEW s \in Requests, NEW q, To(s, q), req[s].pc # "done"
        PROVE  FALSE
    BY <1>1, <1>4 DEF To
  <1>e. ASSUME NEW s \in Requests, Ends(s) PROVE FALSE
    BY <1>3, <1>e DEF Ends, Fresh
  <1>5. ASSUME NEW s \in Requests, BackendLoop(s) PROVE FALSE
    <2>1. req[s].pc # "done"
      BY <1>5 DEF BackendLoop, Try, SendFails, Trip, SendOk, Close, Body, Exhausted
    <2>2. \E q : To(s, q)
      BY <1>5 DEF BackendLoop, Try, SendFails, Trip, SendOk, Close, Body, Exhausted, Ends,
                  NextBackend
    <2>. QED BY <1>4, <2>1, <2>2
  <1>6. ASSUME NEW s \in Requests,
               \/ ProxyJsonOpenRouter(s) \/ ProxyStreamOpenRouter(s)
               \/ ProxyJsonPeer(s) \/ ProxyStreamPeer(s) \/ RelayEnds(s)
               \/ ListLeg(s) \/ ListEnds(s) \/ Disconnect(s) \/ HedgeTimer(s)
        PROVE  FALSE
    <2>1. req[s].pc # "done"
      BY <1>6 DEF ProxyJsonOpenRouter, ProxyStreamOpenRouter, ProxyJsonPeer, ProxyStreamPeer,
                  RelayEnds, Relaying, ListLeg, ListEnds, Disconnect, HedgeTimer
    <2>2. \E q : To(s, q)
      BY <1>6 DEF ProxyJsonOpenRouter, ProxyStreamOpenRouter, ProxyJsonPeer, ProxyStreamPeer,
                  RelayEnds, ListLeg, ListEnds, Disconnect, HedgeTimer
    <2>. QED BY <1>4, <2>1, <2>2
  <1>7. ASSUME NEW s \in Requests, Abandon(s) \/ Keepalive(s) PROVE FALSE
    BY <1>e, <1>7 DEF Abandon, Keepalive
  <1>8. ASSUME NEW s \in Requests, LocalChunk(s) \/ LocalEnds(s) \/ HedgeChunk(s) \/ Drain(s)
        PROVE  FALSE
    <2>1. req[s].pc # "done"
      BY <1>8 DEF LocalChunk, LocalEnds, HedgeChunk, Drain
    <2>2. \E q : To(s, q)
      <3>1. ASSUME NEW side, NEW c, NEW q, Forward(s, side, c, q) PROVE \E p : To(s, p)
        BY <3>1 DEF Forward, Ends
      <3>2. Ends(s) => \E p : To(s, p)
        BY DEF Ends
      <3>3. CASE LocalChunk(s)
        BY <3>1, <3>3 DEF LocalChunk
      <3>4. CASE LocalEnds(s)
        BY <3>2, <3>4 DEF LocalEnds
      <3>5. CASE HedgeChunk(s)
        BY <3>1, <3>5 DEF HedgeChunk
      <3>6. CASE Drain(s)
        BY <3>1, <3>2, <3>6 DEF Drain
      <3>. QED BY <1>8, <3>3, <3>4, <3>5, <3>6
    <2>. QED BY <1>4, <2>1, <2>2
  <1>9. ASSUME NEW s \in Requests, HedgeTask(s) PROVE FALSE
    <2>1. PICK q : To(s, q) /\ q.pc = req[s].pc
      <3>1. \A h : [req[s] EXCEPT !.hedge = h].pc = req[s].pc
        BY <1>1 DEF RequestType
      <3>2. \A h : [req[s] EXCEPT !.hx = h].pc = req[s].pc
        BY <1>1 DEF RequestType
      <3>. QED BY <1>9, <3>1, <3>2 DEF HedgeTask
    <2>. QED BY <1>3, <2>1
  <1>10. ASSUME NEW s \in Requests, Resolve(s) \/ ListModels(s), s # r PROVE FALSE
    <2>1. \E q : To(s, q)
      BY <1>10 DEF Resolve, ListModels
    <2>. QED BY <1>3, <1>10, <2>1
  <1>11. ASSUME Probe \/ Probed \/ Scrape \/ Scraped \/ (\E b \in Flaky : Flip(b)) \/ UNCHANGED vars
         PROVE  FALSE
    BY <1>2, <1>11 DEF Probe, Probed, Scrape, Scraped, Flip, vars
  <1>12. ASSUME NEW s \in Requests,
                Resolve(s) \/ Handler(s) \/ Upstream(s) \/ StreamTask(s) \/ Abandon(s) \/ Disconnect(s)
         PROVE  Resolve(r) \/ ListModels(r)
    BY <1>5, <1>6, <1>7, <1>8, <1>9, <1>10, <1>12
       DEF Handler, ProxyJson, ProxyStream, ProxyBytes, ProxyMultipart, Upstream, StreamTask
  <1>. QED BY <1>11, <1>12 DEF Next

(* The handles of a model with several are URLs of its row of the roster,   *)
(* and keep the tier that the roster gives them.                           *)
LEMMA RosterHandles ==
    ASSUME config \in DOMAIN Configs, NEW m, Len(Handles(m)) > 1, NEW i \in 1 .. Len(Handles(m))
    PROVE  /\ deployment.own[Handles(m)[i]].tier = RosterTier(Handles(m)[i])
           /\ deployment.own[Handles(m)[i]].tier \in Nat
           /\ Handles(m)[i] \in Backends
  <1>. DEFINE c == Configs[config]
              d == deployment
              rows == InternOrder(c)
              b == Handles(m)[i]
              us == c.roster[RowOf(c, m)].urls
  <1>1. /\ c.roster \in Seq(Rows) /\ c.primary \in Seq(Entries)
    BY SettingsType
  <1>2. d = Intern(c) /\ d.config = c
    BY DeploymentBuilt DEF deployment, Deployments
  <1>3. Handles(m) = ByModel[m] /\ m \in DOMAIN ByModel
    <2>1. Len(<< >>) = 0 /\ Len(<<d.primary>>) = 1
      OBVIOUS
    <2>. QED BY <2>1 DEF Handles
  <1>. HIDE DEF c
  <1>4. PICK j \in DOMAIN c.roster : m = c.roster[j].model /\ c.roster[j].urls # << >>
    BY <1>2, <1>3 DEF Intern, ByModel
  <1>5. RowOf(c, m) \in DOMAIN c.roster
    BY <1>1, <1>4, RowOfIs
  <1>6. us \in Seq(Entries) /\ RowOf(c, m) \in 1 .. Len(c.roster)
    <2>1. c.roster[RowOf(c, m)] \in Rows
      BY <1>1, <1>5, ElementOfSeq
    <2>. QED BY <1>1, <1>5, <2>1 DEF Rows
  <1>7. Handles(m) = [n \in 1 .. Len(us) |-> us[n].url]
    BY <1>2, <1>3 DEF Intern, ByModel
  <1>. HIDE DEF us
  <1>8. i \in 1 .. Len(us) /\ b = us[i].url
    BY <1>6, <1>7
  <1>. HIDE DEF d, rows, b
  <1>. DEFINE p == <<RowOf(c, m), i>>
  <1>9. p \in Places(Roster(c)) /\ At(Roster(c), p).url = b
    <2>1. Roster(c) \in Seq(Seq(Entries)) /\ Len(Roster(c)) = Len(c.roster)
          /\ Roster(c)[RowOf(c, m)] = us
      BY <1>1, <1>6, RowsType DEF us
    <2>2. p \in Places(Roster(c))
      BY <1>6, <1>8, <2>1, PlaceIs
    <2>. QED BY <1>8, <2>1, <2>2 DEF At
  <1>. HIDE DEF p
  <1>10. /\ p \in Places(rows) /\ At(rows, p).url = b
         /\ FirstOf(rows, b) = FirstOf(Roster(c), b)
    BY <1>1, <1>9, RosterWins DEF rows
  <1>11. rows \in Seq(Seq(Entries))
    BY <1>1, RowsType DEF rows
  <1>12. FirstOf(rows, b) \in Entries /\ FirstOf(rows, b).url = b
    BY <1>10, <1>11, FirstOfIs
  <1>13. PICK f \in Firsts(rows) : At(rows, f).url = b
    BY <1>10, <1>11, FirstExists
  <1>14. d.own[b] = ParseSuffix(FirstOf(rows, b))
    BY <1>2, <1>13 DEF Intern, rows
  <1>15. ParseSuffix(FirstOf(rows, b)).tier \in Nat
    <2>1. FirstOf(rows, b).keys["tier"] \in Nat \cup {Bad}
      BY <1>12 DEF Entries, Keys
    <2>. QED BY <2>1 DEF ParseSuffix, Number
  <1>16. b \in Backends
    BY <1>12 DEF Entries
  <1>17. RosterTier(b) = ParseSuffix(FirstOf(Roster(c), b)).tier
    BY <1>2 DEF RosterTier, d
  <1>. QED BY <1>10, <1>14, <1>15, <1>16, <1>17 DEF b, d

(* Of two ready backends without a short-prompt preference the one of the  *)
(* lower tier sorts first.                                                 *)
LEMMA LowerTierFirst ==
    ASSUME IInv, NEW a \in Backends, NEW b \in Backends, NEW short \in BOOLEAN,
           healthy[b], ~ AtRoof(b), deployment.short[a].roof = 0, deployment.short[b].roof = 0,
           deployment.own[a].tier \in Nat, deployment.own[b].tier \in Nat,
           KeyLess(Rank(a, short), Rank(b, short)) \/ Rank(a, short) = Rank(b, short)
    PROVE  deployment.own[a].tier <= deployment.own[b].tier
  <1>1. inflight[a] \in Nat /\ inflight[b] \in Nat
    BY DEF IInv, PoolTypes
  <1>2. /\ EffectiveTier(a, short) = deployment.own[a].tier
        /\ EffectiveTier(b, short) = deployment.own[b].tier
    BY <1>1 DEF EffectiveTier
  <1>. DEFINE k == Rank(a, short)
              l == Rank(b, short)
  <1>3. /\ k[1] \in Nat /\ k[2] \in Nat /\ k[3] = deployment.own[a].tier
        /\ l[1] = 0 /\ l[2] = 0 /\ l[3] = deployment.own[b].tier
    BY <1>2 DEF Rank
  <1>. HIDE DEF k, l
  <1>4. CASE k = l
    BY <1>3, <1>4
  <1>5. CASE KeyLess(k, l)
    <2>1. PICK i \in 1 .. 4 : k[i] < l[i] /\ \A j \in 1 .. i - 1 : k[j] = l[j]
      BY <1>5 DEF KeyLess
    <2>2. i = 3 \/ i = 4
      BY <1>3, <2>1
    <2>3. CASE i = 3
      BY <1>3, <2>1, <2>3
    <2>4. CASE i = 4
      <3>1. 3 \in 1 .. i - 1
        BY <2>4
      <3>2. k[3] = l[3]
        BY <2>1, <3>1
      <3>. QED BY <1>3, <3>2
    <2>. QED BY <2>2, <2>3, <2>4
  <1>. QED BY <1>4, <1>5 DEF k, l

(* Every order in which a model's backends are tried spills by the roster's tier. *)
LEMMA OrderSpills ==
    ASSUME IInv, NEW m, NEW short \in BOOLEAN, NEW s \in TryOrders(m, short), Len(s) > 1,
           NEW i \in DOMAIN s, NEW j \in DOMAIN s,
           i < j, healthy[s[j]], ~ AtRoof(s[j]),
           deployment.short[s[i]].roof = 0, deployment.short[s[j]].roof = 0
    PROVE  RosterTier(s[i]) <= RosterTier(s[j])
  <1>. DEFINE hs == Handles(m)
              n == Len(hs)
              key == [x \in 1 .. n |-> Rank(hs[x], short)]
              goes(x, y) == KeyLess(key[x], key[y]) \/ (key[x] = key[y] /\ x < y)
  <1>1. hs \in Seq(Backends) /\ config \in DOMAIN Configs
    BY HandlesType DEF IInv, PoolTypes
  <1>2. n \in Nat
    BY <1>1
  <1>3. PICK p \in [1 .. n -> 1 .. n] :
          /\ s = [x \in 1 .. n |-> hs[p[x]]]
          /\ \A x, y \in 1 .. n : x < y => goes(p[x], p[y])
    BY DEF TryOrders
  <1>. HIDE DEF n
  <1>4. Len(s) = n /\ i \in 1 .. n /\ j \in 1 .. n
    BY <1>2, <1>3
  <1>5. s[i] = hs[p[i]] /\ s[j] = hs[p[j]] /\ p[i] \in 1 .. n /\ p[j] \in 1 .. n
    BY <1>3, <1>4
  <1>6. goes(p[i], p[j])
    BY <1>3, <1>4
  <1>7. KeyLess(Rank(s[i], short), Rank(s[j], short)) \/ Rank(s[i], short) = Rank(s[j], short)
    BY <1>5, <1>6
  <1>8. /\ deployment.own[s[i]].tier = RosterTier(s[i]) /\ deployment.own[s[i]].tier \in Nat
        /\ deployment.own[s[j]].tier = RosterTier(s[j]) /\ deployment.own[s[j]].tier \in Nat
        /\ s[i] \in Backends /\ s[j] \in Backends
    BY <1>1, <1>4, <1>5, RosterHandles DEF n
  <1>9. deployment.own[s[i]].tier <= deployment.own[s[j]].tier
    BY <1>7, <1>8, LowerTierFirst
  <1>. QED BY <1>8, <1>9

(* A request that is resolved tries a ready backend before any of a higher *)
(* tier, by the tier that the roster gives each URL.                       *)
THEOREM SpillSafe == Spec => SpillNotBalance
  <1>. DEFINE A == \A r \in Requests :
                req[r].pc = "done" /\ req'[r].pc = "try" /\ Len(req'[r].left) > 1 =>
                  LET s == req'[r].left
                  IN \A i, j \in DOMAIN s :
                       /\ i < j /\ healthy[s[j]] /\ ~AtRoof(s[j])
                       /\ deployment.short[s[i]].roof = 0 /\ deployment.short[s[j]].roof = 0
                       => RosterTier(s[i]) <= RosterTier(s[j])
  <1>1. ASSUME IInv, [Next]_vars PROVE [A]_vars
    <2>1. SUFFICES ASSUME NEW r \in Requests,
                          req[r].pc = "done", req'[r].pc = "try", Len(req'[r].left) > 1
                   PROVE  \E m : \E short \in BOOLEAN : req'[r].left \in TryOrders(m, short)
      BY <1>1, OrderSpills
    <2>2. \A q : To(r, q) => req'[r] = q
      BY <1>1 DEF To, IInv, AllSound
    <2>3. CASE Resolve(r)
      <3>1. PICK ask \in deployment.config.asks[r], named \in Models \cup {NoModel}, short \in BOOLEAN :
              LET k == KindOf(ask[1], ask[2])
                  m == ApplyDefaultModel(named, k)
                  to == Dispatch(k, m, r \in Admins)
                  asked == [Fresh EXCEPT !.kind = k, !.model = m]
              IN /\ k # "list" /\ ~Malformed(k, m)
                 /\ \/ /\ to \in {"openrouter", "peer"}
                       /\ To(r, [asked EXCEPT !.pc = to])
                    \/ /\ to = "local" /\ (k \in Binary => ~short)
                       /\ \E s \in TryOrders(m, short) : To(r, [asked EXCEPT !.pc = "try", !.left = s])
        BY <2>3 DEF Resolve
      <3>. DEFINE k == KindOf(ask[1], ask[2])
                  m == ApplyDefaultModel(named, k)
                  to == Dispatch(k, m, r \in Admins)
                  asked == [Fresh EXCEPT !.kind = k, !.model = m]
      <3>2. \/ to \in {"openrouter", "peer"} /\ To(r, [asked EXCEPT !.pc = to])
            \/ \E s \in TryOrders(m, short) : To(r, [asked EXCEPT !.pc = "try", !.left = s])
        BY <3>1
      <3>. HIDE DEF k, m, to
      <3>3. ASSUME to \in {"openrouter", "peer"}, To(r, [asked EXCEPT !.pc = to]) PROVE FALSE
        <4>1. req'[r].pc = to
          BY <2>2, <3>3 DEF Fresh
        <4>. QED BY <2>1, <3>3, <4>1
      <3>4. ASSUME NEW s \in TryOrders(m, short), To(r, [asked EXCEPT !.pc = "try", !.left = s])
            PROVE  req'[r].left = s
        BY <2>2, <3>4 DEF Fresh
      <3>. QED BY <3>2, <3>3, <3>4
    <2>4. CASE ListModels(r)
      <3>. DEFINE asked == [Fresh EXCEPT !.kind = "list"]
      <3>1. \/ To(r, [asked EXCEPT !.pc = "peer"])
            \/ \E s \in TryOrders(NoModel, FALSE) : To(r, [asked EXCEPT !.pc = "try", !.left = s])
            \/ To(r, [asked EXCEPT !.pc = "list", !.owed = Bases])
        BY <2>4 DEF ListModels
      <3>2. /\ ~ To(r, [asked EXCEPT !.pc = "peer"])
            /\ ~ To(r, [asked EXCEPT !.pc = "list", !.owed = Bases])
        BY <2>1, <2>2 DEF Fresh
      <3>3. ASSUME NEW s \in TryOrders(NoModel, FALSE), To(r, [asked EXCEPT !.pc = "try", !.left = s])
            PROVE  req'[r].left = s
        BY <2>2, <3>3 DEF Fresh
      <3>. QED BY <3>1, <3>2, <3>3
    <2>. QED BY <1>1, <2>1, <2>3, <2>4, OnlyArrivalsTry
  <1>2. Spec => [][A]_vars
    BY <1>1, Inv, PTL DEF Spec
  <1>. QED BY <1>2 DEF SpillNotBalance
=============================================================================
