------------------------- MODULE EventStreamProofs -------------------------
(***************************************************************************)
(* Proofs about EventStream, for every log and every setting of its limits.*)
(*                                                                         *)
(* The inductive invariant IInv names a row b after which the page misses  *)
(* nothing it was not told of.  Three accounts hang on it: what the page   *)
(* covers up to its client's position (PageFrom); what the frames on the   *)
(* wire will add, each in its turn (Gapless); and what the connection has  *)
(* written up to its cursor (Reaches).  b is always a window before some   *)
(* earlier end of the log, or lower (Early), and a connection that jumps,  *)
(* ahead or back, lands a window before a later end.                       *)
(* b moves down when older history arrives, and anew with a first          *)
(* connection, whose page is still empty.                                  *)
(***************************************************************************)
EXTENDS EventStream, FiniteSetTheorems, SequenceTheorems, WellFoundedInduction, TLAPS

-----------------------------------------------------------------------------
(* Natural numbers: the least element, induction and the greatest element, *)
(* for sets, from the well-foundedness of inclusion of finite sets.        *)

LEMMA LeastElement ==
  ASSUME NEW S \in SUBSET Nat, S # {}
  PROVE  \E m \in S : \A n \in S : m <= n
<1> DEFINE T == {0..n : n \in S}
<1>1. T \subseteq FiniteSubsetsOf(Nat) /\ T # {}
  <2>1. ASSUME NEW n \in S PROVE 0..n \in FiniteSubsetsOf(Nat)
    <3>1. IsFiniteSet(0..n)
      BY FS_Interval
    <3> QED BY <3>1 DEF FiniteSubsetsOf
  <2> QED BY <2>1
<1>2. PICK x \in T : \A y \in T : <<y, x>> \notin StrictSubsetOrdering(Nat)
  <2> HIDE DEF T
  <2> QED BY <1>1, FS_StrictSubsetOrderingWellFounded, WFMin
<1>3. PICK m \in S : x = 0..m
  OBVIOUS
<1>4. ASSUME NEW n \in S, ~(m <= n) PROVE FALSE
  <2>1. 0..n \in T /\ 0..n \subseteq 0..m /\ 0..n # 0..m
    BY <1>4
  <2>2. <<0..n, x>> \in StrictSubsetOrdering(Nat)
    BY <2>1, <1>3 DEF StrictSubsetOrdering
  <2> QED BY <2>1, <2>2, <1>2
<1> QED BY <1>4

LEMMA Induction ==
  ASSUME NEW S \in SUBSET Nat, 0 \in S, \A n \in S : n + 1 \in S
  PROVE  S = Nat
<1> SUFFICES ASSUME Nat \ S # {} PROVE FALSE
  OBVIOUS
<1>1. PICK m \in Nat \ S : \A n \in Nat \ S : m <= n
  <2>1. Nat \ S \in SUBSET Nat
    OBVIOUS
  <2> QED BY <2>1, LeastElement
<1>2. m - 1 \in S /\ (m - 1) + 1 = m
  BY <1>1
<1> QED BY <1>1, <1>2

LEMMA GreatestElement ==
  ASSUME NEW b \in Nat, NEW S \in SUBSET (0..b), S # {}
  PROVE  \E m \in S : \A n \in S : n <= m
<1> DEFINE B == {n \in Nat : \A k \in S : k <= n}
<1>1. PICK m \in B : \A n \in B : m <= n
  <2>1. B \in SUBSET Nat /\ b \in B
    OBVIOUS
  <2> HIDE DEF B
  <2> QED BY <2>1, LeastElement
<1>2. m \in S
  <2> SUFFICES ASSUME m \notin S PROVE FALSE
    OBVIOUS
  <2>1. \A k \in S : k \in Nat /\ k <= m /\ k # m
    OBVIOUS
  <2>2. m \in Nat /\ m # 0 /\ m - 1 \in Nat
    <3>1. PICK k \in S : TRUE
      OBVIOUS
    <3>2. m \in Nat /\ k \in Nat /\ k <= m /\ k # m
      BY <2>1
    <3> QED BY <3>2
  <2>3. \A k \in S : k <= m - 1
    BY <2>1, <2>2
  <2>4. m - 1 \in B
    BY <2>2, <2>3
  <2> QED BY <1>1, <2>4
<1> QED BY <1>2

-----------------------------------------------------------------------------
(* Sequences of events.                                                    *)

Strictly(xs) == \A i, j \in DOMAIN xs : i < j => xs[i] < xs[j]

LEMMA AscendingFact ==
  ASSUME NEW S \in SUBSET Nat, IsFiniteSet(S)
  PROVE  /\ Ascending(S) \in Seq(Nat) /\ Len(Ascending(S)) = Cardinality(S)
         /\ Strictly(Ascending(S)) /\ ToSet(Ascending(S)) = S
<1> DEFINE n == Cardinality(S)
           below(s) == {t \in S : t < s}
           rank == [s \in S |-> Cardinality(below(s))]
           xs == Ascending(S)
<1>1. n \in Nat
  BY FS_CardinalityType
<1>2. ASSUME NEW s \in S PROVE IsFiniteSet(below(s)) /\ rank[s] \in 0..(n - 1)
  <2>1. below(s) \in SUBSET (S \ {s})
    OBVIOUS
  <2>2. IsFiniteSet(S \ {s}) /\ Cardinality(S \ {s}) = n - 1
    BY FS_RemoveElement
  <2> HIDE DEF below, n
  <2>3. IsFiniteSet(below(s)) /\ Cardinality(below(s)) <= n - 1
    BY <2>1, <2>2, FS_Subset
  <2>4. Cardinality(below(s)) \in Nat
    BY <2>3, FS_CardinalityType
  <2> QED BY <1>1, <2>3, <2>4
<1>3. ASSUME NEW s \in S, NEW t \in S, s < t PROVE rank[s] < rank[t]
  <2>1. below(s) \cup {s} \in SUBSET below(t) /\ s \notin below(s)
    <3>1. s \in Nat /\ t \in Nat /\ \A r \in S : r \in Nat
      OBVIOUS
    <3>2. \A r \in S : r < s => r < t
      BY <1>3, <3>1
    <3>3. ~(s < s)
      BY <3>1
    <3> QED BY <1>3, <3>2, <3>3
  <2> HIDE DEF below
  <2>2. IsFiniteSet(below(s)) /\ IsFiniteSet(below(t))
    BY <1>2
  <2>3. Cardinality(below(s) \cup {s}) = Cardinality(below(s)) + 1
    BY <2>1, <2>2, FS_AddElement
  <2>4. Cardinality(below(s) \cup {s}) <= Cardinality(below(t))
    BY <2>1, <2>2, FS_Subset
  <2>5. Cardinality(below(s)) \in Nat /\ Cardinality(below(t)) \in Nat
    BY <2>2, FS_CardinalityType
  <2> QED BY <2>3, <2>4, <2>5
<1>4. \A s, t \in S : rank[s] = rank[t] => s = t
  <2> HIDE DEF rank
  <2> SUFFICES ASSUME NEW s \in S, NEW t \in S, rank[s] = rank[t], s # t PROVE FALSE
    OBVIOUS
  <2>1. s < t \/ t < s
    <3>1. s \in Nat /\ t \in Nat
      OBVIOUS
    <3> QED BY <3>1
  <2>2. rank[s] \in Nat /\ ~(rank[s] < rank[s])
    <3>1. rank[s] \in 0..(n - 1)
      BY <1>2
    <3> HIDE DEF n
    <3> QED BY <1>1, <3>1
  <2> QED BY <1>3, <2>1, <2>2
<1>5. \A i \in 0..(n - 1) : \E s \in S : rank[s] = i
  <2>1. rank \in [S -> 0..(n - 1)]
    <3>1. rank = [s \in S |-> rank[s]]
      OBVIOUS
    <3> HIDE DEF rank
    <3> QED BY <1>2, <3>1
  <2> HIDE DEF rank
  <2>2. rank \in Injection(S, 0..(n - 1))
    BY <1>4, <2>1 DEF Injection, IsInjective
  <2>3. IsFiniteSet(0..(n - 1)) /\ Cardinality(0..(n - 1)) = n
    <3> HIDE DEF n
    <3>1. n - 1 \in Int /\ 0 \in Int
      BY <1>1
    <3>2. /\ IsFiniteSet(0..(n - 1))
          /\ Cardinality(0..(n - 1)) = IF 0 > n - 1 THEN 0 ELSE (n - 1) - 0 + 1
      BY <3>1, FS_Interval
    <3> QED BY <1>1, <3>2
  <2>4. rank \in Surjection(S, 0..(n - 1))
    BY <2>2, <2>3, FS_Injection
  <2> QED BY <2>4 DEF Surjection
<1>6. ASSUME NEW i \in 1..n PROVE xs[i] \in S /\ rank[xs[i]] = i - 1
  <2>1. i - 1 \in 0..(n - 1)
    BY <1>1
  <2>2. PICK s \in S : rank[s] = i - 1
    BY <1>5, <2>1
  <2>3. \E t \in S : Cardinality(below(t)) = i - 1
    BY <2>2
  <2>4. xs[i] = CHOOSE t \in S : Cardinality(below(t)) = i - 1
    BY DEF Ascending
  <2> HIDE DEF xs, below
  <2>5. xs[i] \in S /\ Cardinality(below(xs[i])) = i - 1
    BY <2>3, <2>4
  <2> QED BY <2>5
<1>7. xs \in Seq(Nat) /\ Len(xs) = n /\ DOMAIN xs = 1..n
  <2>1. xs = [i \in 1..n |-> xs[i]]
    BY DEF Ascending
  <2> HIDE DEF xs, rank
  <2>2. xs \in [1..n -> Nat]
    BY <1>6, <2>1
  <2> HIDE DEF n
  <2>3. xs \in Seq(Nat)
    BY <1>1, <2>2
  <2> QED BY <1>1, <2>2, <2>3
<1> HIDE DEF xs, rank
<1>8. Strictly(xs)
  <2> SUFFICES ASSUME NEW i \in 1..n, NEW j \in 1..n, i < j PROVE xs[i] < xs[j]
    BY <1>7 DEF Strictly
  <2>1. /\ xs[i] \in S /\ rank[xs[i]] = i - 1
        /\ xs[j] \in S /\ rank[xs[j]] = j - 1
    BY <1>6
  <2>2. xs[i] \in Nat /\ xs[j] \in Nat /\ n \in Nat
    BY <1>1, <2>1
  <2>3. ~(xs[j] < xs[i])
    <3> SUFFICES ASSUME xs[j] < xs[i] PROVE FALSE
      OBVIOUS
    <3>1. rank[xs[j]] < rank[xs[i]]
      BY <1>3, <2>1
    <3> HIDE DEF n
    <3> QED BY <2>1, <2>2, <3>1
  <2>4. xs[i] # xs[j]
    <3> HIDE DEF n
    <3> QED BY <2>1, <2>2
  <2> QED BY <2>2, <2>3, <2>4
<1>9. ToSet(xs) = S
  <2>1. ASSUME NEW s \in S PROVE \E i \in 1..n : xs[i] = s
    <3>1. rank[s] \in 0..(n - 1) /\ rank[s] + 1 \in 1..n /\ (rank[s] + 1) - 1 = rank[s]
      <4>1. rank[s] \in 0..(n - 1)
        BY <1>2
      <4> HIDE DEF n
      <4> QED BY <1>1, <4>1
    <3>2. xs[rank[s] + 1] \in S /\ rank[xs[rank[s] + 1]] = rank[s]
      BY <1>6, <3>1
    <3> QED BY <1>4, <3>1, <3>2
  <2> QED BY <1>6, <1>7, <2>1 DEF ToSet
<1> QED BY <1>7, <1>8, <1>9 DEF xs

LEMMA MaxFact ==
  ASSUME NEW b \in Nat, NEW S \in SUBSET (0..b), S # {}
  PROVE  Max(S) \in S /\ \A n \in S : n <= Max(S)
<1>1. PICK m \in S : \A n \in S : n <= m
  BY GreatestElement
<1>2. \A n \in S : m >= n
  BY <1>1
<1> QED BY <1>1, <1>2 DEF Max

LEMMA MinFact ==
  ASSUME NEW S \in SUBSET Nat, S # {}
  PROVE  Min(S) \in S /\ \A n \in S : Min(S) <= n
<1>1. PICK m \in S : \A n \in S : m <= n
  BY LeastElement
<1> QED BY <1>1 DEF Min

\* What the concatenation of two sequences has at its places.
LEMMA Concatenated ==
  ASSUME NEW X, NEW v \in Seq(X), NEW w \in Seq(X)
  PROVE  /\ v \o w \in Seq(X) /\ Len(v \o w) = Len(v) + Len(w)
         /\ \A i \in DOMAIN v : i \in DOMAIN (v \o w) /\ (v \o w)[i] = v[i]
         /\ \A i \in DOMAIN w :
               Len(v) + i \in DOMAIN (v \o w) /\ (v \o w)[Len(v) + i] = w[i]
         /\ \A i \in DOMAIN (v \o w) :
               i \in DOMAIN v \/ \E k \in DOMAIN w : i = Len(v) + k
<1>1. v \o w \in Seq(X) /\ Len(v \o w) = Len(v) + Len(w) /\ Len(v) \in Nat /\ Len(w) \in Nat
  OBVIOUS
<1>2. ASSUME NEW i \in DOMAIN (v \o w), i \notin DOMAIN v
      PROVE  \E k \in DOMAIN w : i = Len(v) + k
  <2>1. i - Len(v) \in DOMAIN w /\ i = Len(v) + (i - Len(v))
    BY <1>1, <1>2
  <2> QED BY <2>1
<1> QED BY <1>1, <1>2

\* What the first n of the rows weigh.
Weighed(rows) ==
    CHOOSE f : f = [n \in 0..Len(rows) |->
                      IF n = 0 THEN 0 ELSE f[n - 1] + Size[rows[n]]]

LEMMA BytesFact ==
  ASSUME NEW rows \in Seq(Nat), \A i \in DOMAIN rows : rows[i] \in 1..MaxSeq
  PROVE  Bytes(rows) \in Nat /\ (rows = <<>> => Bytes(rows) = 0)
<1> DEFINE L == Len(rows)
           Def(f, n) == IF n = 0 THEN 0 ELSE f[n - 1] + Size[rows[n]]
           Upwards(f, n) == f[0] = 0 /\ \A i \in 1..n : f[i] = f[i - 1] + Size[rows[i]]
           S == {n \in Nat : n <= L => \E f \in [0..n -> Nat] : Upwards(f, n)}
           W == Weighed(rows)
           T == {n \in Nat : n <= L => W[n] \in Nat}
<1>1. L \in Nat /\ \A i \in 1..L : Size[rows[i]] \in Nat
  BY LimitsAssumption
<1>2. 0 \in S
  <2>1. [i \in 0..0 |-> 0] \in [0..0 -> Nat] /\ Upwards([i \in 0..0 |-> 0], 0)
    OBVIOUS
  <2> HIDE DEF Upwards
  <2> QED BY <2>1
<1>3. ASSUME NEW n \in S PROVE n + 1 \in S
  <2> SUFFICES ASSUME n + 1 <= L PROVE \E f \in [0..(n + 1) -> Nat] : Upwards(f, n + 1)
    <3> HIDE DEF Upwards, L
    <3> QED OBVIOUS
  <2>1. n \in Nat /\ n <= L /\ n + 1 \in 1..L
    BY <1>1
  <2>2. PICK f \in [0..n -> Nat] : Upwards(f, n)
    BY <2>1
  <2> DEFINE x == f[n] + Size[rows[n + 1]]
             g == [i \in 0..(n + 1) |-> IF i = n + 1 THEN x ELSE f[i]]
  <2>3. x \in Nat
    BY <1>1, <2>1
  <2> HIDE DEF x
  <2>4. g \in [0..(n + 1) -> Nat]
    BY <2>1, <2>3
  <2>5. g[0] = 0
    BY <2>1, <2>2
  <2>6. ASSUME NEW i \in 1..(n + 1) PROVE g[i] = g[i - 1] + Size[rows[i]]
    <3>1. CASE i = n + 1
      <4>1. g[i] = x /\ i - 1 = n /\ g[n] = f[n]
        BY <2>1, <3>1
      <4> HIDE DEF g
      <4> QED BY <3>1, <4>1 DEF x
    <3>2. CASE i # n + 1
      <4>1. i \in 1..n /\ g[i] = f[i] /\ g[i - 1] = f[i - 1]
        BY <2>1, <3>2
      <4> HIDE DEF g
      <4> QED BY <2>2, <4>1
    <3> QED BY <3>1, <3>2
  <2> HIDE DEF g
  <2>7. Upwards(g, n + 1)
    BY <2>5, <2>6
  <2> HIDE DEF Upwards
  <2> QED BY <2>4, <2>7
<1>4. S = Nat
  <2>1. S \in SUBSET Nat
    OBVIOUS
  <2> HIDE DEF S
  <2> QED BY <1>2, <1>3, <2>1, Induction
<1>5. PICK f \in [0..L -> Nat] : Upwards(f, L)
  <2>1. L \in S
    <3> HIDE DEF S, L
    <3> QED BY <1>1, <1>4
  <2> HIDE DEF Upwards, L
  <2> QED BY <2>1
<1>6. f = [n \in 0..L |-> Def(f, n)]
  <2>1. \A n \in 0..L : f[n] = Def(f, n)
    BY <1>1, <1>5
  <2> HIDE DEF Def, L
  <2> QED BY <1>5, <2>1
<1>7. W = [n \in 0..L |-> Def(W, n)]
  BY <1>6 DEF Weighed
<1>8. W[0] = 0 /\ \A n \in 1..L : W[n] = W[n - 1] + Size[rows[n]]
  <2>1. \A n \in 0..L : W[n] = Def(W, n)
    <3> HIDE DEF W, Def
    <3> QED BY <1>7
  <2>2. 0 \in 0..L /\ \A n \in 1..L : n \in 0..L /\ n # 0
    BY <1>1
  <2> HIDE DEF W, L
  <2> QED BY <2>1, <2>2
<1> HIDE DEF W
<1>9. T = Nat
  <2>1. 0 \in T
    BY <1>8
  <2>2. ASSUME NEW n \in T PROVE n + 1 \in T
    <3> SUFFICES ASSUME n + 1 <= L PROVE W[n + 1] \in Nat
      OBVIOUS
    <3>1. n \in Nat /\ n <= L /\ n + 1 \in 1..L /\ (n + 1) - 1 = n
      BY <1>1
    <3>2. W[n] \in Nat /\ W[n + 1] = W[n] + Size[rows[n + 1]]
      BY <1>8, <3>1
    <3> HIDE DEF L
    <3> QED BY <1>1, <3>1, <3>2
  <2>3. T \in SUBSET Nat
    OBVIOUS
  <2> HIDE DEF T
  <2> QED BY <2>1, <2>2, <2>3, Induction
<1>10. Bytes(rows) = W[L]
  BY DEF Bytes, Weighed, W
<1>11. W[L] \in Nat
  <2>1. L \in T
    BY <1>1, <1>9
  <2> HIDE DEF L
  <2> QED BY <1>1, <2>1
<1>12. rows = <<>> => L = 0
  OBVIOUS
<1> HIDE DEF L
<1> QED BY <1>8, <1>10, <1>11, <1>12

-----------------------------------------------------------------------------
(* The connection.                                                         *)

Frame == [kind : {"event", "truncated"}, seq : Nat]
Conn == [state : {"none", "open", "ended"}, cursor : Nat, pending : SUBSET Nat,
         blocked : BOOLEAN, over : BOOLEAN, budget : BOOLEAN, counted : Nat, bytes : Nat,
         pc : {"idle", "page", "cut", "tail"}, page : Seq(Nat), more : BOOLEAN,
         latest : Nat, wire : Seq(Frame)]

\* A connection's places in the log l.
Fits(l, c) ==
    /\ c.cursor <= Len(l) /\ c.latest <= Len(l) /\ c.counted <= Budget
    /\ c.bytes <= BudgetBytes
    /\ c.pending \subseteq (c.cursor + 1)..Len(l)
    /\ Cardinality(c.pending) <= MaxPending
    /\ \A i \in DOMAIN c.page : c.page[i] \in DOMAIN l
    /\ \A i \in DOMAIN c.wire :
          /\ c.wire[i].seq <= Len(l)
          /\ c.wire[i].kind = "event" => c.wire[i].seq \in DOMAIN l /\ l[c.wire[i].seq]

\* Before the i-th frame of w comes, a client that is at m knows of s, or that it is missing.
Before(w, m, i, s) ==
    \/ s <= m
    \/ \E j \in DOMAIN w :
          j < i /\ (w[j].seq = s \/ (w[j].kind = "truncated" /\ s <= w[j].seq))

\* From b on, a client that is at m and reads w learns of every event in its turn.
Gapless(l, w, b, m) ==
    \A i \in DOMAIN w :
        /\ b <= w[i].seq
        /\ w[i].kind = "event" =>
              /\ b < w[i].seq
              /\ \A s \in DOMAIN l : b < s /\ s < w[i].seq /\ l[s] => Before(w, m, i, s)
\* And then it has got as far as the cursor.
Reaches(l, w, b, m, cursor) ==
    /\ b <= cursor
    /\ \A s \in DOMAIN l : b < s /\ s <= cursor /\ l[s] => Before(w, m, Len(w) + 1, s)

LEMMA BeforeMore ==
  ASSUME NEW v \in Seq(Frame), NEW w \in Seq(Frame), NEW m, NEW i \in Nat, NEW k \in Nat,
         NEW s, i <= k, Before(v, m, i, s)
  PROVE  Before(v \o w, m, k, s)
<1>1. \A j \in DOMAIN v : j \in DOMAIN (v \o w) /\ (v \o w)[j] = v[j] /\ j \in Nat
  BY Concatenated
<1>2. \A j \in Nat : j < i => j < k
  OBVIOUS
<1> QED BY <1>1, <1>2 DEF Before

LEMMA EventsFollow ==
  ASSUME NEW l \in Seq(BOOLEAN), NEW w \in Seq(Frame), NEW fs \in Seq(Frame),
         NEW b \in Nat, NEW m \in Nat, NEW from \in Nat, NEW to \in Nat, from <= to,
         Gapless(l, w, b, m), Reaches(l, w, b, m, from),
         \A i \in DOMAIN fs : fs[i].kind = "event" /\ from < fs[i].seq,
         \A i, j \in DOMAIN fs : i < j => fs[i].seq < fs[j].seq,
         \A s \in DOMAIN l : from < s /\ s <= to /\ l[s] => \E i \in DOMAIN fs : fs[i].seq = s,
         \A i \in DOMAIN fs : fs[i].seq <= to
  PROVE  Gapless(l, w \o fs, b, m) /\ Reaches(l, w \o fs, b, m, to)
<1> DEFINE u == w \o fs
<1>1. /\ u \in Seq(Frame) /\ Len(u) = Len(w) + Len(fs) /\ Len(w) \in Nat /\ Len(fs) \in Nat
      /\ \A i \in DOMAIN w : i \in DOMAIN u /\ u[i] = w[i]
      /\ \A i \in DOMAIN fs : Len(w) + i \in DOMAIN u /\ u[Len(w) + i] = fs[i]
      /\ \A i \in DOMAIN u : i \in DOMAIN w \/ \E k \in DOMAIN fs : i = Len(w) + k
  BY Concatenated
<1>2. /\ DOMAIN w = 1..Len(w) /\ DOMAIN fs = 1..Len(fs) /\ DOMAIN l \subseteq Nat
      /\ \A i \in DOMAIN fs : fs[i].seq \in Nat
  <2>1. \A i \in DOMAIN fs : fs[i] \in Frame
    OBVIOUS
  <2>2. \A f \in Frame : f.seq \in Nat
    BY DEF Frame
  <2> QED BY <2>1, <2>2
<1>3. ASSUME NEW i \in DOMAIN fs, NEW s \in DOMAIN l, b < s, s < fs[i].seq, l[s]
      PROVE  Before(u, m, Len(w) + i, s)
  <2>1. CASE s <= from
    <3>1. Before(w, m, Len(w) + 1, s)
      BY <1>3, <2>1 DEF Reaches
    <3>2. Len(w) + 1 <= Len(w) + i /\ Len(w) + 1 \in Nat /\ Len(w) + i \in Nat
      BY <1>1, <1>2
    <3> QED BY <3>1, <3>2, BeforeMore
  <2>2. CASE from < s
    <3>1. s <= to
      BY <1>2, <1>3
    <3>2. PICK k \in DOMAIN fs : fs[k].seq = s
      BY <1>3, <2>2, <3>1
    <3>3. k < i
      <4>1. i \in Nat /\ k \in Nat /\ fs[i].seq \in Nat /\ fs[k].seq \in Nat
        BY <1>2
      <4>2. ~(i < k) /\ i # k
        BY <1>3, <3>2, <4>1
      <4> QED BY <4>1, <4>2
    <3>4. Len(w) + k \in DOMAIN u /\ u[Len(w) + k] = fs[k] /\ Len(w) + k < Len(w) + i
      BY <1>1, <1>2, <3>3
    <3> HIDE DEF u
    <3> QED BY <3>2, <3>4 DEF Before
  <2> QED BY <1>2, <2>1, <2>2
<1>4. Gapless(l, u, b, m)
  <2> SUFFICES ASSUME NEW i \in DOMAIN u
               PROVE  /\ b <= u[i].seq
                      /\ u[i].kind = "event" =>
                            /\ b < u[i].seq
                            /\ \A s \in DOMAIN l :
                                  b < s /\ s < u[i].seq /\ l[s] => Before(u, m, i, s)
    BY DEF Gapless
  <2>1. CASE i \in DOMAIN w
    <3>1. u[i] = w[i] /\ i \in Nat /\ i <= i
      BY <1>1, <1>2, <2>1
    <3>2. \A s : Before(w, m, i, s) => Before(u, m, i, s)
      BY <3>1, BeforeMore
    <3> HIDE DEF u
    <3> QED BY <2>1, <3>1, <3>2 DEF Gapless
  <2>2. ASSUME NEW k \in DOMAIN fs, i = Len(w) + k PROVE b < u[i].seq /\ u[i] = fs[k]
    <3>1. u[i] = fs[k] /\ from < fs[k].seq /\ b <= from
      BY <1>1, <2>2 DEF Reaches
    <3> QED BY <1>2, <3>1
  <2>3. ASSUME NEW k \in DOMAIN fs, i = Len(w) + k
        PROVE  \A s \in DOMAIN l : b < s /\ s < u[i].seq /\ l[s] => Before(u, m, i, s)
    BY <1>3, <2>2, <2>3
  <2>4. ASSUME NEW k \in DOMAIN fs, i = Len(w) + k PROVE b <= u[i].seq
    <3>1. b < u[i].seq /\ u[i].seq \in Nat
      BY <1>2, <2>2, <2>4
    <3> HIDE DEF u
    <3> QED BY <3>1
  <2> HIDE DEF u
  <2> QED BY <1>1, <2>1, <2>2, <2>3, <2>4
<1>5. Reaches(l, u, b, m, to)
  <2>1. b <= to
    BY DEF Reaches
  <2>2. ASSUME NEW s \in DOMAIN l, b < s, s <= to, l[s] PROVE Before(u, m, Len(u) + 1, s)
    <3>1. CASE s <= from
      <4>1. Before(w, m, Len(w) + 1, s)
        BY <2>2, <3>1 DEF Reaches
      <4>2. Len(w) + 1 <= Len(u) + 1 /\ Len(w) + 1 \in Nat /\ Len(u) + 1 \in Nat
        BY <1>1
      <4> QED BY <4>1, <4>2, BeforeMore
    <3>2. CASE from < s
      <4>1. PICK k \in DOMAIN fs : fs[k].seq = s
        BY <2>2, <3>2
      <4>2. Len(w) + k \in DOMAIN u /\ u[Len(w) + k] = fs[k] /\ Len(w) + k < Len(u) + 1
        BY <1>1, <1>2
      <4> HIDE DEF u
      <4> QED BY <4>1, <4>2 DEF Before
    <3> QED BY <1>2, <3>1, <3>2
  <2> HIDE DEF u
  <2> QED BY <2>1, <2>2 DEF Reaches
<1> QED BY <1>4, <1>5

-----------------------------------------------------------------------------
(* What the server does with a row: drain() and enqueue().                 *)

LEMMA OnceFact ==
  ASSUME NEW x
  PROVE  Once({x}) = x
BY DEF Once

Rows(c, k) == (c.cursor + 1)..(c.cursor + k)
Frames(c, k) == Ascending(Visible(Rows(c, k)))
Refused(c, k) == log[c.cursor + k] /\ Len(c.wire) + Len(Frames(c, k)) >= HighWater
May(c) == {k \in 0..Cardinality(c.pending) :
             Rows(c, k) \subseteq c.pending /\ \A j \in 1..(k - 1) : ~Refused(c, j)}
Sent(c, k) ==
    [c EXCEPT !.cursor = c.cursor + k, !.pending = c.pending \ Rows(c, k),
              !.wire = c.wire \o [i \in DOMAIN Frames(c, k) |-> Event(Frames(c, k)[i])],
              !.blocked = k > 0 /\ Refused(c, k)]

LEMMA DrainIs ==
  ASSUME NEW c, ~c.blocked
  PROVE  Drain(c) = Sent(c, Max(May(c)))
<1>1. Drain(c) = Once({Sent(c, k) : k \in {Max(May(c))}})
  BY DEF Drain, Rows, Frames, Refused, May, Sent
<1>2. {Sent(c, k) : k \in {Max(May(c))}} = {Sent(c, Max(May(c)))}
  OBVIOUS
<1> QED BY <1>1, <1>2, OnceFact

\* An interval has as many elements as it is long.
LEMMA Length ==
  ASSUME NEW a \in Nat, NEW k \in Nat
  PROVE  IsFiniteSet((a + 1)..(a + k)) /\ Cardinality((a + 1)..(a + k)) = k
<1>1. a + 1 \in Int /\ a + k \in Int
  OBVIOUS
<1>2. /\ IsFiniteSet((a + 1)..(a + k))
      /\ Cardinality((a + 1)..(a + k))
           = IF a + 1 > a + k THEN 0 ELSE (a + k) - (a + 1) + 1
  BY <1>1, FS_Interval
<1> QED BY <1>2

\* A set within (a, n] has at most n - a elements, and is finite.
LEMMA Within ==
  ASSUME NEW a \in Nat, NEW n \in Nat, NEW S \in SUBSET ((a + 1)..n)
  PROVE  /\ IsFiniteSet(S) /\ Cardinality(S) \in Nat
         /\ Cardinality(S) = 0 \/ a + Cardinality(S) <= n
<1>1. CASE n <= a
  <2>1. S = {}
    BY <1>1
  <2> QED BY <2>1, FS_EmptySet
<1>2. CASE a < n
  <2> DEFINE k == n - a
  <2>1. k \in Nat /\ n = a + k
    BY <1>2
  <2> HIDE DEF k
  <2>2. IsFiniteSet((a + 1)..(a + k)) /\ Cardinality((a + 1)..(a + k)) = k
    BY <2>1, Length
  <2>3. IsFiniteSet(S) /\ Cardinality(S) <= k
    BY <2>1, <2>2, FS_Subset
  <2>4. Cardinality(S) \in Nat
    BY <2>3, FS_CardinalityType
  <2> QED BY <2>1, <2>3, <2>4
<1> QED BY <1>1, <1>2

\* drain() writes the visible rows of a contiguous prefix of the buffer.
LEMMA DrainFact ==
  ASSUME log \in Seq(BOOLEAN), NEW c \in Conn, ~c.blocked,
         c.pending \subseteq (c.cursor + 1)..Len(log)
  PROVE  \E k \in Nat, fs \in Seq(Frame), blocked \in BOOLEAN :
           /\ Drain(c) = [c EXCEPT !.cursor = c.cursor + k, !.pending = c.pending \ Rows(c, k),
                                   !.wire = c.wire \o fs, !.blocked = blocked]
           /\ Rows(c, k) \subseteq c.pending
           /\ \A i \in DOMAIN fs : fs[i].kind = "event" /\ fs[i].seq \in Visible(Rows(c, k))
           /\ \A i, j \in DOMAIN fs : i < j => fs[i].seq < fs[j].seq
           /\ \A s \in Visible(Rows(c, k)) : \E i \in DOMAIN fs : fs[i].seq = s
<1> DEFINE n == Cardinality(c.pending)
           K == Max(May(c))
<1>1. /\ c.cursor \in Nat /\ Len(log) \in Nat /\ c.pending \in SUBSET Nat
      /\ IsFiniteSet(c.pending) /\ n \in Nat
  <2>1. c.cursor \in Nat /\ c.pending \in SUBSET Nat /\ Len(log) \in Nat
    BY DEF Conn
  <2>2. IsFiniteSet(c.pending) /\ Cardinality(c.pending) \in Nat
    BY <2>1, Within
  <2> QED BY <2>1, <2>2
<1>2. K \in May(c) /\ \A k \in May(c) : k <= K
  <2>1. 0 \in May(c)
    <3>1. Rows(c, 0) = {}
      BY <1>1 DEF Rows
    <3>2. 0 \in 0..n /\ 1..(0 - 1) = {}
      BY <1>1
    <3> QED BY <3>1, <3>2 DEF May
  <2>2. May(c) \in SUBSET (0..n)
    BY DEF May
  <2> HIDE DEF n
  <2> QED BY <1>1, <2>1, <2>2, MaxFact
<1>3. /\ K \in Nat /\ K \in 0..n /\ Rows(c, K) \subseteq c.pending
      /\ \A j \in 1..(K - 1) : ~Refused(c, j)
  <2> HIDE DEF K
  <2>1. /\ K \in 0..n /\ Rows(c, K) \subseteq c.pending
        /\ \A j \in 1..(K - 1) : ~Refused(c, j)
    BY <1>2 DEF May
  <2> HIDE DEF n
  <2> QED BY <1>1, <2>1
<1> DEFINE S == Visible(Rows(c, K))
           es == Frames(c, K)
           fs == [i \in DOMAIN es |-> Event(es[i])]
           blocked == K > 0 /\ Refused(c, K)
<1>4. Drain(c) = [c EXCEPT !.cursor = c.cursor + K, !.pending = c.pending \ Rows(c, K),
                           !.wire = c.wire \o fs, !.blocked = blocked]
  BY DrainIs DEF Sent
<1> HIDE DEF K
<1>5. /\ es \in Seq(Nat) /\ Len(es) = Cardinality(S) /\ Strictly(es) /\ ToSet(es) = S
      /\ DOMAIN es = 1..Len(es)
  <2>1. S \in SUBSET Nat /\ S \in SUBSET Rows(c, K)
    BY <1>1 DEF Visible, Rows
  <2>2. IsFiniteSet(Rows(c, K))
    BY <1>1, <1>3, Length DEF Rows
  <2>3. IsFiniteSet(S)
    BY <2>1, <2>2, FS_Subset
  <2> HIDE DEF S
  <2>4. es = Ascending(S)
    BY DEF Frames, S
  <2> HIDE DEF es
  <2> QED BY <2>1, <2>3, <2>4, AscendingFact
<1> HIDE DEF es
<1>6. /\ fs \in Seq(Frame) /\ DOMAIN fs = DOMAIN es
      /\ \A i \in DOMAIN es : fs[i] = Event(es[i])
  <2>1. \A s \in Nat : Event(s) \in Frame
    BY DEF Event, Frame
  <2>2. \A i \in DOMAIN es : es[i] \in Nat
    BY <1>5
  <2>3. fs \in [1..Len(es) -> Frame] /\ Len(es) \in Nat
    BY <1>5, <2>1, <2>2
  <2>4. fs \in Seq(Frame)
    BY <2>3
  <2> QED BY <1>5, <2>4
<1> HIDE DEF fs
<1>7. \A i \in DOMAIN fs : fs[i].kind = "event" /\ fs[i].seq = es[i]
  BY <1>6 DEF Event
<1>8. \A i \in DOMAIN fs : es[i] \in S
  BY <1>5, <1>6 DEF ToSet
<1>9. \A i, j \in DOMAIN fs : i < j => fs[i].seq < fs[j].seq
  BY <1>5, <1>6, <1>7 DEF Strictly
<1>10. \A s \in S : \E i \in DOMAIN fs : fs[i].seq = s
  <2>1. \A s \in S : \E i \in DOMAIN es : es[i] = s
    BY <1>5 DEF ToSet
  <2> QED BY <1>6, <1>7, <2>1
<1>11. blocked \in BOOLEAN
  OBVIOUS
<1> HIDE DEF blocked, n, S
<1>12. /\ \A i \in DOMAIN fs : fs[i].kind = "event" /\ fs[i].seq \in Visible(Rows(c, K))
       /\ \A s \in Visible(Rows(c, K)) : \E i \in DOMAIN fs : fs[i].seq = s
  BY <1>7, <1>8, <1>10 DEF S
<1> DEFINE Result(k, gs, refused) ==
             /\ Drain(c) = [c EXCEPT !.cursor = c.cursor + k,
                                     !.pending = c.pending \ Rows(c, k),
                                     !.wire = c.wire \o gs, !.blocked = refused]
             /\ Rows(c, k) \subseteq c.pending
             /\ \A i \in DOMAIN gs : gs[i].kind = "event" /\ gs[i].seq \in Visible(Rows(c, k))
             /\ \A i, j \in DOMAIN gs : i < j => gs[i].seq < gs[j].seq
             /\ \A s \in Visible(Rows(c, k)) : \E i \in DOMAIN gs : gs[i].seq = s
<1>13. Result(K, fs, blocked)
  BY <1>3, <1>4, <1>9, <1>12
<1>14. \E k \in Nat, gs \in Seq(Frame), refused \in BOOLEAN : Result(k, gs, refused)
  <2>1. K \in Nat /\ fs \in Seq(Frame)
    BY <1>3, <1>6
  <2> HIDE DEF Result
  <2> QED BY <1>11, <1>13, <2>1
<1> QED BY <1>14

-----------------------------------------------------------------------------
(* A connection that is being served keeps its promise.                    *)

\* An open connection whose client is at m and misses nothing after b.
Served(l, c, b, m) ==
    Fits(l, c) /\ Gapless(l, c.wire, b, m) /\ Reaches(l, c.wire, b, m, c.cursor)

\* The catch-up goes on where it was.
Keeps(c, d) ==
    /\ d.state = c.state /\ d.budget = c.budget /\ d.counted = c.counted /\ d.bytes = c.bytes
    /\ d.pc = c.pc /\ d.page = c.page /\ d.more = c.more /\ d.latest = c.latest

LEMMA ConnFields ==
  ASSUME NEW c \in Conn
  PROVE  /\ c.cursor \in Nat /\ c.pending \in SUBSET Nat /\ c.blocked \in BOOLEAN
         /\ c.over \in BOOLEAN /\ c.budget \in BOOLEAN /\ c.counted \in Nat
         /\ c.bytes \in Nat /\ c.page \in Seq(Nat) /\ c.latest \in Nat /\ c.wire \in Seq(Frame)
BY DEF Conn

LEMMA DrainKeeps ==
  ASSUME log \in Seq(BOOLEAN), NEW c \in Conn, NEW b \in Nat, NEW m \in Nat,
         Fits(log, c), Gapless(log, c.wire, b, m), Reaches(log, c.wire, b, m, c.cursor)
  PROVE  /\ Drain(c) \in Conn /\ Served(log, Drain(c), b, m) /\ Keeps(c, Drain(c))
<1>1. CASE c.blocked
  <2>1. Drain(c) = c
    BY <1>1 DEF Drain
  <2>2. Keeps(c, c)
    BY DEF Keeps
  <2>3. Served(log, c, b, m)
    BY DEF Served
  <2> QED BY <2>1, <2>2, <2>3
<1>2. CASE ~c.blocked
  <2>1. c.pending \subseteq (c.cursor + 1)..Len(log)
    BY DEF Fits
  <2>2. PICK k \in Nat, fs \in Seq(Frame), blocked \in BOOLEAN :
           /\ Drain(c) = [c EXCEPT !.cursor = c.cursor + k, !.pending = c.pending \ Rows(c, k),
                                   !.wire = c.wire \o fs, !.blocked = blocked]
           /\ Rows(c, k) \subseteq c.pending
           /\ \A i \in DOMAIN fs : fs[i].kind = "event" /\ fs[i].seq \in Visible(Rows(c, k))
           /\ \A i, j \in DOMAIN fs : i < j => fs[i].seq < fs[j].seq
           /\ \A s \in Visible(Rows(c, k)) : \E i \in DOMAIN fs : fs[i].seq = s
    BY <1>2, <2>1, DrainFact
  <2> DEFINE d == Drain(c)
  <2>3. /\ d \in Conn /\ d.cursor = c.cursor + k /\ d.pending = c.pending \ Rows(c, k)
        /\ d.wire = c.wire \o fs /\ d.blocked = blocked /\ d.over = c.over
        /\ d.state = c.state /\ d.budget = c.budget /\ d.counted = c.counted
        /\ d.bytes = c.bytes /\ d.pc = c.pc /\ d.page = c.page /\ d.more = c.more /\ d.latest = c.latest
    <3>1. /\ c.wire \o fs \in Seq(Frame) /\ c.cursor + k \in Nat
          /\ c.pending \ Rows(c, k) \in SUBSET Nat
      BY ConnFields, Concatenated
    <3> QED BY <2>2, <3>1 DEF Conn
  <2> HIDE DEF d
  <2>4. c.cursor \in Nat /\ Len(log) \in Nat /\ d.cursor \in Nat /\ c.cursor <= d.cursor
    <3>1. c.cursor \in Nat
      BY ConnFields
    <3> QED BY <2>3, <3>1
  <2>5. d.cursor <= Len(log)
    <3>1. CASE k = 0
      BY <2>3, <2>4, <3>1 DEF Fits
    <3>2. CASE k # 0
      <4>1. c.cursor + k \in Rows(c, k)
        BY <2>4, <3>2 DEF Rows
      <4>2. c.cursor + k \in (c.cursor + 1)..Len(log)
        BY <2>1, <2>2, <4>1
      <4> QED BY <2>3, <2>4, <4>2
    <3> QED BY <3>1, <3>2
  <2>6. d.pending \subseteq (d.cursor + 1)..Len(log)
    <3> SUFFICES ASSUME NEW s \in d.pending PROVE s \in (d.cursor + 1)..Len(log)
      OBVIOUS
    <3>1. s \in (c.cursor + 1)..Len(log) /\ s \notin (c.cursor + 1)..(c.cursor + k)
      BY <2>1, <2>3 DEF Rows
    <3> QED BY <2>3, <2>4, <3>1
  <2>7. Cardinality(d.pending) <= MaxPending
    <3>1. IsFiniteSet(c.pending) /\ Cardinality(c.pending) \in Nat
      BY <2>1, <2>4, Within
    <3>2. IsFiniteSet(d.pending) /\ Cardinality(d.pending) <= Cardinality(c.pending)
      BY <2>3, <3>1, FS_Subset
    <3>3. Cardinality(d.pending) \in Nat /\ MaxPending \in Nat
      BY <3>2, FS_CardinalityType, LimitsAssumption
    <3>4. Cardinality(c.pending) <= MaxPending
      BY DEF Fits
    <3> QED BY <3>1, <3>2, <3>3, <3>4
  <2>8. \A i \in DOMAIN fs : /\ fs[i].kind = "event" /\ fs[i].seq \in DOMAIN log
                             /\ log[fs[i].seq]
                             /\ c.cursor < fs[i].seq /\ fs[i].seq <= d.cursor
                             /\ fs[i].seq <= Len(log)
    <3> SUFFICES ASSUME NEW i \in DOMAIN fs
                 PROVE  /\ fs[i].kind = "event" /\ fs[i].seq \in DOMAIN log /\ log[fs[i].seq]
                        /\ c.cursor < fs[i].seq /\ fs[i].seq <= d.cursor
                        /\ fs[i].seq <= Len(log)
      OBVIOUS
    <3>1. fs[i].kind = "event" /\ fs[i].seq \in Rows(c, k) /\ log[fs[i].seq]
      BY <2>2 DEF Visible
    <3>2. fs[i].seq \in (c.cursor + 1)..(c.cursor + k)
      BY <3>1 DEF Rows
    <3>3. fs[i].seq \in Nat /\ c.cursor < fs[i].seq /\ fs[i].seq <= d.cursor
      BY <2>3, <2>4, <3>2
    <3>4. fs[i].seq <= Len(log) /\ fs[i].seq \in 1..Len(log)
      BY <2>4, <2>5, <3>3
    <3> QED BY <3>1, <3>3, <3>4
  <2>9. \A i \in DOMAIN d.wire :
          /\ d.wire[i].seq <= Len(log)
          /\ d.wire[i].kind = "event" => d.wire[i].seq \in DOMAIN log /\ log[d.wire[i].seq]
    <3> SUFFICES ASSUME NEW i \in DOMAIN d.wire
                 PROVE  /\ d.wire[i].seq <= Len(log)
                        /\ d.wire[i].kind = "event" =>
                              d.wire[i].seq \in DOMAIN log /\ log[d.wire[i].seq]
      OBVIOUS
    <3>1. c.wire \in Seq(Frame)
      BY ConnFields
    <3>2. CASE i \in DOMAIN c.wire
      <4>1. d.wire[i] = c.wire[i]
        BY <2>3, <3>1, <3>2, Concatenated
      <4> QED BY <3>2, <4>1 DEF Fits
    <3>3. ASSUME NEW j \in DOMAIN fs, i = Len(c.wire) + j
          PROVE  /\ d.wire[i].seq <= Len(log)
                 /\ d.wire[i].seq \in DOMAIN log /\ log[d.wire[i].seq]
      <4>1. d.wire[i] = fs[j]
        BY <2>3, <3>1, <3>3, Concatenated
      <4> QED BY <2>8, <4>1
    <3> QED BY <2>3, <3>1, <3>2, <3>3, Concatenated
  <2>10. Fits(log, d)
    BY <2>3, <2>5, <2>6, <2>7, <2>9 DEF Fits
  <2>12. Gapless(log, d.wire, b, m) /\ Reaches(log, d.wire, b, m, d.cursor)
    <3>1. \A s \in DOMAIN log : c.cursor < s /\ s <= d.cursor /\ log[s] =>
              \E i \in DOMAIN fs : fs[i].seq = s
      <4> SUFFICES ASSUME NEW s \in DOMAIN log, c.cursor < s, s <= d.cursor, log[s]
                   PROVE  \E i \in DOMAIN fs : fs[i].seq = s
        OBVIOUS
      <4>1. s \in (c.cursor + 1)..(c.cursor + k)
        BY <2>3, <2>4
      <4>2. s \in Visible(Rows(c, k))
        BY <4>1 DEF Visible, Rows
      <4> QED BY <2>2, <4>2
    <3>2. c.wire \in Seq(Frame)
      BY ConnFields
    <3>3. \A i \in DOMAIN fs : fs[i].kind = "event" /\ c.cursor < fs[i].seq
      BY <2>8
    <3>4. \A i \in DOMAIN fs : fs[i].seq <= d.cursor
      BY <2>8
    <3>5. \A i, j \in DOMAIN fs : i < j => fs[i].seq < fs[j].seq
      BY <2>2
    <3>6. /\ Gapless(log, c.wire \o fs, b, m)
          /\ Reaches(log, c.wire \o fs, b, m, d.cursor)
      BY <2>4, <3>1, <3>2, <3>3, <3>4, <3>5, EventsFollow
    <3> QED BY <2>3, <3>6
  <2>13. Keeps(c, d)
    BY <2>3 DEF Keeps
  <2>14. Served(log, d, b, m)
    BY <2>10, <2>12 DEF Served
  <2> QED BY <2>3, <2>13, <2>14 DEF d
<1> QED BY <1>1, <1>2, ConnFields

LEMMA EnqueueKeeps ==
  ASSUME log \in Seq(BOOLEAN), NEW c \in Conn, NEW b \in Nat, NEW m \in Nat,
         Served(log, c, b, m), NEW s \in DOMAIN log
  PROVE  /\ Enqueue(c, s) \in Conn /\ Served(log, Enqueue(c, s), b, m)
         /\ Keeps(c, Enqueue(c, s))
<1> DEFINE P == c.pending \cup {s}
           g == [c EXCEPT !.pending = P]
           full == Cardinality(P) > MaxPending \/ Bytes(Ascending(P)) > PendingBytes
           d == Enqueue(c, s)
<1>1. s \in Nat /\ s <= Len(log) /\ Len(log) \in Nat /\ c.cursor \in Nat
  BY ConnFields
<1>2. Fits(log, c) /\ Gapless(log, c.wire, b, m) /\ Reaches(log, c.wire, b, m, c.cursor)
  BY DEF Served
<1>3. CASE s <= c.cursor \/ s \in c.pending \/ c.over
  <2>1. d = c
    BY <1>3 DEF Enqueue
  <2> QED BY <2>1 DEF Keeps
<1>4. CASE ~(s <= c.cursor \/ s \in c.pending \/ c.over)
  <2>1. /\ g \in Conn /\ g.cursor = c.cursor /\ g.pending = P /\ g.wire = c.wire
        /\ g.state = c.state /\ g.budget = c.budget /\ g.counted = c.counted
        /\ g.bytes = c.bytes /\ g.pc = c.pc
        /\ g.page = c.page /\ g.more = c.more /\ g.latest = c.latest
    <3>1. P \in SUBSET Nat
      BY <1>1, ConnFields
    <3> QED BY <3>1 DEF Conn
  <2>2. P \in SUBSET ((c.cursor + 1)..Len(log))
    <3>1. c.pending \subseteq (c.cursor + 1)..Len(log)
      BY <1>2 DEF Fits
    <3>2. s \in (c.cursor + 1)..Len(log)
      BY <1>1, <1>4
    <3> QED BY <3>1, <3>2
  <2>3. d = IF full THEN [c EXCEPT !.pending = {}, !.over = TRUE] ELSE Drain(g)
    <3>1. g.pending = P
      BY <2>1
    <3> QED BY <1>4, <3>1 DEF Enqueue
  <2>4. ~full => Cardinality(P) <= MaxPending
    <3>1. Cardinality(P) \in Nat /\ MaxPending \in Nat
      BY <1>1, <2>2, Within, LimitsAssumption
    <3> QED BY <3>1
  <2> HIDE DEF g, d, P, full
  <2>5. CASE full
    <3>1. /\ d \in Conn /\ d.cursor = c.cursor /\ d.pending = {} /\ d.wire = c.wire
          /\ d.state = c.state /\ d.budget = c.budget /\ d.counted = c.counted
          /\ d.bytes = c.bytes /\ d.pc = c.pc
          /\ d.page = c.page /\ d.more = c.more /\ d.latest = c.latest
      BY <2>3, <2>5 DEF Conn
    <3>2. Cardinality({}) <= MaxPending
      BY FS_EmptySet, LimitsAssumption
    <3>3. Fits(log, d)
      BY <1>2, <3>1, <3>2 DEF Fits
    <3>4. Served(log, d, b, m) /\ Keeps(c, d)
      BY <1>2, <3>1, <3>3 DEF Served, Keeps
    <3> QED BY <3>1, <3>4 DEF d
  <2>6. CASE ~full
    <3>1. d = Drain(g)
      BY <2>3, <2>6
    <3>2. Fits(log, g)
      BY <1>2, <2>1, <2>2, <2>4, <2>6 DEF Fits
    <3>3. Gapless(log, g.wire, b, m) /\ Reaches(log, g.wire, b, m, g.cursor)
      BY <1>2, <2>1
    <3>4. d \in Conn /\ Served(log, d, b, m) /\ Keeps(g, d)
      BY <2>1, <3>1, <3>2, <3>3, DrainKeeps
    <3>5. Keeps(c, d)
      BY <2>1, <3>4 DEF Keeps
    <3> QED BY <3>4, <3>5 DEF d
  <2> QED BY <2>5, <2>6
<1> QED BY <1>3, <1>4

\* The connection after the first n of the rows.
After(c, rows) ==
    CHOOSE f : f = [n \in 0..Len(rows) |->
                      IF n = 0 THEN c ELSE Once({Enqueue(d, rows[n]) : d \in {f[n - 1]}})]

LEMMA EnqueueAllIs ==
  ASSUME NEW c, NEW rows \in Seq(Nat)
  PROVE  /\ EnqueueAll(c, rows) = After(c, rows)[Len(rows)]
         /\ After(c, rows)[0] = c
         /\ \A n \in 1..Len(rows) :
               After(c, rows)[n] = Enqueue(After(c, rows)[n - 1], rows[n])
<1> DEFINE L == Len(rows)
           Def(f, n) == IF n = 0 THEN c ELSE Once({Enqueue(d, rows[n]) : d \in {f[n - 1]}})
           \* the function up to n
           Upwards(f, n) == f[0] = c /\ \A i \in 1..n : f[i] = Enqueue(f[i - 1], rows[i])
           S == {n \in Nat : \E f : DOMAIN f = 0..n /\ Upwards(f, n)}
<1>1. L \in Nat
  OBVIOUS
<1>2. \A f, n : Def(f, n) = IF n = 0 THEN c ELSE Enqueue(f[n - 1], rows[n])
  <2>1. \A f, n : {Enqueue(d, rows[n]) : d \in {f[n - 1]}} = {Enqueue(f[n - 1], rows[n])}
    OBVIOUS
  <2> QED BY <2>1, OnceFact
<1>3. S = Nat
  <2>1. 0 \in S
    <3>1. DOMAIN [i \in 0..0 |-> c] = 0..0 /\ Upwards([i \in 0..0 |-> c], 0)
      OBVIOUS
    <3> QED BY <3>1
  <2>2. ASSUME NEW n \in S PROVE n + 1 \in S
    <3>1. PICK f : DOMAIN f = 0..n /\ Upwards(f, n)
      OBVIOUS
    <3> DEFINE g == [i \in 0..(n + 1) |->
                       IF i = n + 1 THEN Enqueue(f[n], rows[n + 1]) ELSE f[i]]
    <3>2. g[0] = c
      BY <3>1
    <3>3. ASSUME NEW i \in 1..(n + 1) PROVE g[i] = Enqueue(g[i - 1], rows[i])
      <4>1. CASE i = n + 1
        <5>1. g[i] = Enqueue(f[n], rows[n + 1]) /\ i - 1 = n
          BY <4>1
        <5>2. g[n] = f[n]
          OBVIOUS
        <5> HIDE DEF g
        <5> QED BY <4>1, <5>1, <5>2
      <4>2. CASE i # n + 1
        <5>1. i \in 1..n /\ i - 1 \in 0..n
          BY <4>2
        <5>2. g[i] = f[i] /\ g[i - 1] = f[i - 1]
          BY <5>1
        <5> HIDE DEF g
        <5> QED BY <3>1, <5>1, <5>2
      <4> QED BY <4>1, <4>2
    <3>4. DOMAIN g = 0..(n + 1)
      OBVIOUS
    <3> HIDE DEF g
    <3>5. Upwards(g, n + 1)
      BY <3>2, <3>3
    <3> HIDE DEF Upwards
    <3> QED BY <3>4, <3>5
  <2> HIDE DEF S
  <2>3. S \in SUBSET Nat
    BY DEF S
  <2> QED BY <2>1, <2>2, <2>3, Induction
<1>4. PICK f : DOMAIN f = 0..L /\ Upwards(f, L)
  BY <1>1, <1>3
<1> DEFINE g == [n \in 0..L |-> f[n]]
<1>5. g = [n \in 0..L |-> Def(g, n)]
  <2> SUFFICES ASSUME NEW n \in 0..L PROVE g[n] = Def(g, n)
    OBVIOUS
  <2>1. CASE n = 0
    BY <1>2, <1>4, <2>1
  <2>2. CASE n # 0
    <3>1. n \in 1..L /\ n - 1 \in 0..L
      BY <1>1, <2>2
    <3>2. g[n] = f[n] /\ g[n - 1] = f[n - 1] /\ f[n] = Enqueue(f[n - 1], rows[n])
      BY <1>4, <3>1
    <3> HIDE DEF g, Def, L
    <3> QED BY <1>2, <2>2, <3>2
  <2> QED BY <2>1, <2>2
<1>6. After(c, rows) = [n \in 0..L |-> Def(After(c, rows), n)]
  <2> HIDE DEF g
  <2> QED BY <1>5 DEF After
<1>7. EnqueueAll(c, rows) = After(c, rows)[L]
  BY DEF EnqueueAll, After
<1> DEFINE A == After(c, rows)
<1>8. \A n \in 0..L : A[n] = IF n = 0 THEN c ELSE Enqueue(A[n - 1], rows[n])
  <2> HIDE DEF A, Def
  <2>1. A = [n \in 0..L |-> Def(A, n)]
    BY <1>6 DEF A
  <2> QED BY <1>2, <2>1
<1>9. A[0] = c /\ \A n \in 1..L : A[n] = Enqueue(A[n - 1], rows[n])
  <2>1. 0 \in 0..L /\ \A n \in 1..L : n \in 0..L /\ n # 0
    BY <1>1
  <2> HIDE DEF A, L
  <2> QED BY <1>8, <2>1
<1> QED BY <1>7, <1>9

LEMMA EnqueueAllKeeps ==
  ASSUME log \in Seq(BOOLEAN), NEW c \in Conn, NEW b \in Nat, NEW m \in Nat,
         Served(log, c, b, m), NEW rows \in Seq(Nat),
         \A i \in DOMAIN rows : rows[i] \in DOMAIN log
  PROVE  /\ EnqueueAll(c, rows) \in Conn /\ Served(log, EnqueueAll(c, rows), b, m)
         /\ Keeps(c, EnqueueAll(c, rows))
<1> DEFINE A == After(c, rows)
           L == Len(rows)
           Good(n) == A[n] \in Conn /\ Served(log, A[n], b, m) /\ Keeps(c, A[n])
           S == {n \in Nat : n <= L => Good(n)}
<1>1. /\ EnqueueAll(c, rows) = A[L] /\ A[0] = c
      /\ \A n \in 1..L : A[n] = Enqueue(A[n - 1], rows[n])
  BY EnqueueAllIs
<1> HIDE DEF A
<1>2. L \in Nat /\ DOMAIN rows = 1..L /\ DOMAIN log \subseteq Nat
  OBVIOUS
<1>3. 0 \in S
  <2>1. Good(0)
    BY <1>1 DEF Keeps
  <2> QED BY <2>1
<1>4. ASSUME NEW n \in S PROVE n + 1 \in S
  <2> SUFFICES ASSUME n + 1 <= L PROVE Good(n + 1)
    OBVIOUS
  <2>1. n \in Nat /\ n + 1 \in 1..L /\ (n + 1) - 1 = n /\ n <= L
    BY <1>2
  <2>2. Good(n)
    BY <2>1
  <2>3. A[n + 1] = Enqueue(A[n], rows[n + 1])
    BY <1>1, <2>1
  <2>4. rows[n + 1] \in DOMAIN log
    BY <1>2, <2>1
  <2>5. A[n + 1] \in Conn /\ Served(log, A[n + 1], b, m) /\ Keeps(A[n], A[n + 1])
    BY <2>2, <2>3, <2>4, EnqueueKeeps
  <2>6. Keeps(c, A[n + 1])
    BY <2>2, <2>5 DEF Keeps
  <2> QED BY <2>5, <2>6
<1>5. S = Nat
  <2> HIDE DEF S
  <2>1. S \in SUBSET Nat
    BY DEF S
  <2> QED BY <1>3, <1>4, <2>1, Induction
<1>6. Good(L)
  <2>1. L \in S
    BY <1>2, <1>5
  <2> HIDE DEF Good, L
  <2> QED BY <1>2, <2>1
<1> QED BY <1>1, <1>2, <1>6

-----------------------------------------------------------------------------
(* The connection's handlers.                                              *)

\* b is a window before the end of a log that was n long, or lower.
Early(n, b) == b <= Monus(n, Window)

\* A replay that went over its budget will jump to a window before what was the end.
Goes(c, b) == c.pc = "cut" => Early(c.latest, b)

\* The connection c to a client that is at m and misses nothing after b.
Follows(l, c, b, m) ==
    /\ c \in Conn /\ Fits(l, c) /\ Gapless(l, c.wire, b, m) /\ Early(Len(l), b)
    /\ c.state = "open" => Served(l, c, b, m) /\ Goes(c, b)

LEMMA KeepsGoing ==
  ASSUME NEW c, NEW d, NEW b, Goes(c, b), Keeps(c, d)
  PROVE  Goes(d, b)
BY DEF Goes, Keeps

LEMMA ServedFollows ==
  ASSUME NEW l, NEW d \in Conn, NEW b, NEW m, Served(l, d, b, m), Goes(d, b),
         Early(Len(l), b)
  PROVE  Follows(l, d, b, m)
BY DEF Follows, Served

LEMMA UptoFact ==
  ASSUME NEW l \in Seq(BOOLEAN), NEW first \in Nat, NEW n \in Nat, NEW xs,
         xs = Interval(first + 1, Least(first + n, Len(l)))
  PROVE  /\ xs \in Seq(Nat) /\ xs = [i \in 1..Len(xs) |-> first + i]
         /\ \A i \in DOMAIN xs : xs[i] \in DOMAIN l
<1> DEFINE k == Monus(Least(first + n, Len(l)) + 1, first + 1)
<1>1. Len(l) \in Nat /\ Least(first + n, Len(l)) \in Nat /\ Least(first + n, Len(l)) <= Len(l)
  BY DEF Least
<1>2. k \in Nat /\ (k = 0 \/ first + k <= Len(l))
  BY <1>1 DEF Monus
<1>3. xs = [i \in 1..k |-> first + 1 + i - 1]
  BY DEF Interval
<1> HIDE DEF k
<1>4. \A i \in 1..k : first + 1 + i - 1 = first + i /\ first + i \in Nat
  BY <1>2
<1>5. xs = [i \in 1..k |-> first + i]
  BY <1>3, <1>4
<1>6. xs \in [1..k -> Nat]
  BY <1>4, <1>5
<1>7. xs \in Seq(Nat) /\ Len(xs) = k /\ DOMAIN xs = 1..k
  BY <1>2, <1>6
<1>8. ASSUME NEW i \in 1..k PROVE xs[i] \in DOMAIN l
  <2>1. xs[i] = first + i /\ first + i \in 1..Len(l)
    BY <1>1, <1>2, <1>5
  <2> QED BY <2>1
<1> QED BY <1>5, <1>7, <1>8

\* A truncation frame at t, which says that nothing up to t is going to come.
LEMMA TruncatedFollows ==
  ASSUME NEW l \in Seq(BOOLEAN), NEW w \in Seq(Frame), NEW b \in Nat, NEW m \in Nat,
         NEW t \in Nat, Gapless(l, w, b, m), b <= t
  PROVE  /\ Append(w, Truncated(t)) \in Seq(Frame)
         /\ Gapless(l, Append(w, Truncated(t)), b, m)
         /\ Reaches(l, Append(w, Truncated(t)), b, m, t)
<1> DEFINE f == Truncated(t)
           u == Append(w, f)
<1>1. f \in Frame /\ f.kind = "truncated" /\ f.seq = t
  BY DEF Truncated, Frame
<1> HIDE DEF f
<1>2. /\ u \in Seq(Frame) /\ Len(u) = Len(w) + 1 /\ Len(w) \in Nat
      /\ DOMAIN u = 1..(Len(w) + 1) /\ DOMAIN w = 1..Len(w)
      /\ u[Len(w) + 1] = f /\ \A i \in DOMAIN w : u[i] = w[i]
  BY <1>1
<1> HIDE DEF u
<1>3. \A i \in DOMAIN w : \A s : Before(w, m, i, s) => Before(u, m, i, s)
  <2>1. DOMAIN w \subseteq DOMAIN u
    BY <1>2
  <2> QED BY <1>2, <2>1 DEF Before
<1>4. Gapless(l, u, b, m)
  <2> SUFFICES ASSUME NEW i \in DOMAIN u
               PROVE  /\ b <= u[i].seq
                      /\ u[i].kind = "event" =>
                            /\ b < u[i].seq
                            /\ \A s \in DOMAIN l :
                                  b < s /\ s < u[i].seq /\ l[s] => Before(u, m, i, s)
    BY DEF Gapless
  <2>1. CASE i \in DOMAIN w
    <3>1. u[i] = w[i]
      BY <1>2, <2>1
    <3> QED BY <1>3, <2>1, <3>1 DEF Gapless
  <2>2. CASE i \notin DOMAIN w
    <3>1. u[i] = f
      BY <1>2, <2>2
    <3> QED BY <1>1, <3>1
  <2> QED BY <2>1, <2>2
<1>5. Reaches(l, u, b, m, t)
  <2> SUFFICES ASSUME NEW s \in DOMAIN l, s <= t PROVE Before(u, m, Len(u) + 1, s)
    BY DEF Reaches
  <2>1. /\ Len(w) + 1 \in DOMAIN u /\ Len(w) + 1 < Len(u) + 1
        /\ u[Len(w) + 1].kind = "truncated" /\ s <= u[Len(w) + 1].seq
    BY <1>1, <1>2
  <2> QED BY <2>1 DEF Before
<1> QED BY <1>2, <1>4, <1>5 DEF f, u

LEMMA TruncatedFits ==
  ASSUME NEW l \in Seq(BOOLEAN), NEW c \in Conn, Fits(l, c), NEW t \in Nat, t <= Len(l)
  PROVE  LET w == Append(c.wire, Truncated(t))
         IN  \A i \in DOMAIN w :
               /\ w[i].seq <= Len(l)
               /\ w[i].kind = "event" => w[i].seq \in DOMAIN l /\ l[w[i].seq]
<1> DEFINE w == Append(c.wire, Truncated(t))
<1>1. c.wire \in Seq(Frame)
  BY ConnFields
<1> SUFFICES ASSUME NEW i \in DOMAIN w
             PROVE  /\ w[i].seq <= Len(l)
                    /\ w[i].kind = "event" => w[i].seq \in DOMAIN l /\ l[w[i].seq]
  OBVIOUS
<1>2. CASE i \in DOMAIN c.wire
  <2>1. w[i] = c.wire[i]
    BY <1>1, <1>2
  <2> QED BY <1>2, <2>1 DEF Fits
<1>3. CASE i \notin DOMAIN c.wire
  <2>1. w[i] = Truncated(t)
    BY <1>1, <1>3
  <2> QED BY <2>1 DEF Truncated
<1> QED BY <1>2, <1>3

LEMMA NoConnectionIs ==
         /\ NoConnection \in Conn /\ NoConnection.state = "none" /\ NoConnection.cursor = 0
         /\ NoConnection.pending = {} /\ ~NoConnection.blocked /\ ~NoConnection.over
         /\ ~NoConnection.budget /\ NoConnection.counted = 0
         /\ NoConnection.bytes = 0 /\ NoConnection.pc = "idle"
         /\ NoConnection.page = <<>> /\ NoConnection.latest = 0 /\ NoConnection.wire = <<>>
<1>1. <<>> \in Seq(Nat) /\ <<>> \in Seq(Frame)
  OBVIOUS
<1> QED BY <1>1 DEF Conn, NoConnection

LEMMA PublishFollows ==
  ASSUME log \in Seq(BOOLEAN), NEW b \in Nat, NEW m \in Nat, Follows(log, conn, b, m),
         NEW s \in DOMAIN log, Publish(s)
  PROVE  Follows(log, conn', b, m)
<1>1. CASE conn.state = "open"
  <2>1. /\ conn' = Enqueue(conn, s) /\ conn \in Conn
        /\ Served(log, conn, b, m) /\ Goes(conn, b)
        /\ Early(Len(log), b)
    BY <1>1 DEF Publish, Follows
  <2>2. conn' \in Conn /\ Served(log, conn', b, m) /\ Keeps(conn, conn')
    BY <2>1, EnqueueKeeps
  <2> QED BY <2>1, <2>2, KeepsGoing, ServedFollows
<1>2. CASE conn.state # "open"
  BY <1>2 DEF Publish
<1> QED BY <1>1, <1>2

LEMMA ReadPageFollows ==
  ASSUME log \in Seq(BOOLEAN), NEW b \in Nat, NEW m \in Nat, Follows(log, conn, b, m),
         ReadPage
  PROVE  Follows(log, conn', b, m)
<1> DEFINE xs == Upto(conn.cursor, Chunk)
<1>1. /\ conn \in Conn /\ conn.state = "open" /\ ~conn.blocked /\ ~conn.over
      /\ Served(log, conn, b, m) /\ Early(Len(log), b)
  BY DEF ReadPage, Follows
<1>2. conn' = [conn EXCEPT !.pc = "page", !.page = xs,
                           !.more = conn.cursor + Chunk < Len(log)]
  BY DEF ReadPage
<1>3. conn.cursor \in Nat /\ Chunk \in Nat /\ Len(log) \in Nat /\ conn.counted \in Nat
  BY <1>1, ConnFields, LimitsAssumption
<1>4. /\ xs \in Seq(Nat) /\ xs = [i \in 1..Len(xs) |-> conn.cursor + i]
      /\ \A i \in DOMAIN xs : xs[i] \in DOMAIN log
  BY <1>3, UptoFact DEF Upto
<1> HIDE DEF xs
<1>5. /\ conn' \in Conn /\ conn'.cursor = conn.cursor /\ conn'.pending = conn.pending
      /\ conn'.wire = conn.wire /\ conn'.blocked = conn.blocked /\ conn'.over = conn.over
      /\ conn'.budget = conn.budget /\ conn'.counted = conn.counted
      /\ conn'.bytes = conn.bytes
      /\ conn'.pc = "page" /\ conn'.page = xs /\ conn'.latest = conn.latest
  <2>1. (conn.cursor + Chunk < Len(log)) \in BOOLEAN
    OBVIOUS
  <2> QED BY <1>1, <1>2, <1>4, <2>1 DEF Conn
<1>6. Fits(log, conn')
  BY <1>1, <1>4, <1>5 DEF Served, Fits
<1>7. Served(log, conn', b, m)
  BY <1>1, <1>5, <1>6 DEF Served
<1>8. Goes(conn', b)
  BY <1>5 DEF Goes
<1> QED BY <1>1, <1>5, <1>7, <1>8, ServedFollows

LEMMA CutReplayFollows ==
  ASSUME log \in Seq(BOOLEAN), NEW b \in Nat, NEW m \in Nat, Follows(log, conn, b, m),
         CutReplay
  PROVE  Follows(log, conn', b, m)
<1> DEFINE start == Monus(conn.latest, Window)
           xs == Upto(start, Window)
           w == Append(conn.wire, Truncated(start))
<1>1. /\ conn \in Conn /\ conn.state = "open" /\ conn.pc = "cut"
      /\ Served(log, conn, b, m) /\ Goes(conn, b) /\ Early(Len(log), b)
  BY DEF CutReplay, Follows
<1>2. conn' = [conn EXCEPT !.cursor = start, !.pending = {}, !.pc = "tail", !.latest = 0,
                           !.wire = w, !.page = xs]
  BY DEF CutReplay
<1>3. conn.latest \in Nat /\ Window \in Nat /\ conn.wire \in Seq(Frame) /\ Len(log) \in Nat
  BY <1>1, ConnFields, LimitsAssumption
<1>4. conn.latest <= Len(log) /\ b <= start
  BY <1>1 DEF Goes, Early, Served, Fits
<1>5. start \in Nat /\ start <= Len(log)
  BY <1>3, <1>4 DEF Monus
<1> HIDE DEF start
<1>6. xs \in Seq(Nat) /\ \A i \in DOMAIN xs : xs[i] \in DOMAIN log
  BY <1>3, <1>5, UptoFact DEF Upto
<1>7. w \in Seq(Frame) /\ Gapless(log, w, b, m) /\ Reaches(log, w, b, m, start)
  BY <1>1, <1>3, <1>4, <1>5, TruncatedFollows DEF Served
<1>8. \A i \in DOMAIN w : /\ w[i].seq <= Len(log)
                          /\ w[i].kind = "event" => w[i].seq \in DOMAIN log /\ log[w[i].seq]
  <2>1. Fits(log, conn)
    BY <1>1 DEF Served
  <2> QED BY <1>1, <1>5, <2>1, TruncatedFits
<1> HIDE DEF w, xs
<1>9. /\ conn' \in Conn /\ conn'.cursor = start /\ conn'.pending = {}
      /\ conn'.wire = w /\ conn'.over = conn.over
      /\ conn'.counted = conn.counted /\ conn'.bytes = conn.bytes
      /\ conn'.pc = "tail" /\ conn'.page = xs /\ conn'.latest = 0
  BY <1>1, <1>2, <1>5, <1>6, <1>7 DEF Conn
<1>10. Fits(log, conn')
  <2>1. Cardinality({}) <= MaxPending /\ 0 <= Len(log)
    BY <1>3, FS_EmptySet, LimitsAssumption
  <2>2. conn.counted <= Budget /\ conn.bytes <= BudgetBytes
    BY <1>1 DEF Served, Fits
  <2> QED BY <1>5, <1>6, <1>8, <1>9, <2>1, <2>2 DEF Fits
<1>11. Served(log, conn', b, m)
  BY <1>1, <1>7, <1>9, <1>10 DEF Served
<1>12. Goes(conn', b)
  BY <1>9 DEF Goes
<1> QED BY <1>1, <1>9, <1>11, <1>12, ServedFollows

LEMMA ReplayTailFollows ==
  ASSUME log \in Seq(BOOLEAN), NEW b \in Nat, NEW m \in Nat, Follows(log, conn, b, m),
         ReplayTail
  PROVE  Follows(log, conn', b, m)
<1> DEFINE d == EnqueueAll(conn, conn.page)
<1>1. /\ conn \in Conn /\ conn.state = "open"
      /\ Served(log, conn, b, m) /\ Early(Len(log), b)
  BY DEF ReplayTail, Follows
<1>2. conn' = [d EXCEPT !.pc = "idle", !.page = <<>>]
  BY DEF ReplayTail
<1>3. conn.page \in Seq(Nat) /\ \A i \in DOMAIN conn.page : conn.page[i] \in DOMAIN log
  BY <1>1, ConnFields DEF Served, Fits
<1>4. d \in Conn /\ Served(log, d, b, m) /\ Keeps(conn, d)
  BY <1>1, <1>3, EnqueueAllKeeps
<1> HIDE DEF d
<1>5. /\ conn' \in Conn /\ conn'.cursor = d.cursor /\ conn'.pending = d.pending
      /\ conn'.wire = d.wire /\ conn'.blocked = d.blocked /\ conn'.over = d.over
      /\ conn'.counted = d.counted /\ conn'.bytes = d.bytes
      /\ conn'.pc = "idle" /\ conn'.page = <<>> /\ conn'.latest = d.latest
  <2>1. <<>> \in Seq(Nat)
    OBVIOUS
  <2> QED BY <1>2, <1>4, <2>1 DEF Conn
<1>6. Fits(log, conn')
  BY <1>4, <1>5 DEF Served, Fits
<1>7. Served(log, conn', b, m)
  BY <1>4, <1>5, <1>6 DEF Served
<1>8. Goes(conn', b)
  BY <1>5 DEF Goes
<1> QED BY <1>1, <1>5, <1>7, <1>8, ServedFollows

LEMMA CutAndCloseFollows ==
  ASSUME log \in Seq(BOOLEAN), NEW b \in Nat, NEW m \in Nat, Follows(log, conn, b, m),
         CutAndClose
  PROVE  Follows(log, conn', b, m)
<1> DEFINE start == Monus(Len(log), Window)
           w == Append(conn.wire, Truncated(start))
<1>1. /\ conn \in Conn /\ conn.over /\ Served(log, conn, b, m) /\ Early(Len(log), b)
  BY DEF CutAndClose, Follows
<1>2. conn' = [NoConnection EXCEPT !.state = "ended", !.wire = w]
  BY DEF CutAndClose
<1>3. Window \in Nat /\ conn.wire \in Seq(Frame) /\ Len(log) \in Nat
  BY <1>1, ConnFields, LimitsAssumption
<1>4. b <= start
  BY <1>1 DEF Early
<1>5. start \in Nat /\ start <= Len(log)
  BY <1>3, <1>4 DEF Monus
<1> HIDE DEF start
<1>6. w \in Seq(Frame) /\ Gapless(log, w, b, m)
  BY <1>1, <1>3, <1>4, <1>5, TruncatedFollows DEF Served
<1>7. \A i \in DOMAIN w : /\ w[i].seq <= Len(log)
                          /\ w[i].kind = "event" => w[i].seq \in DOMAIN log /\ log[w[i].seq]
  <2>1. Fits(log, conn)
    BY <1>1 DEF Served
  <2> QED BY <1>1, <1>5, <2>1, TruncatedFits
<1> HIDE DEF w
<1>8. /\ conn' \in Conn /\ conn'.state = "ended" /\ conn'.cursor = 0 /\ conn'.pending = {}
      /\ conn'.wire = w /\ conn'.counted = 0 /\ conn'.bytes = 0 /\ conn'.page = <<>> /\ conn'.latest = 0
  BY <1>2, <1>6, NoConnectionIs DEF Conn
<1>9. Fits(log, conn')
  <2>1. Cardinality({}) <= MaxPending /\ 0 <= Len(log) /\ 0 <= Budget /\ 0 <= BudgetBytes
    BY <1>3, FS_EmptySet, LimitsAssumption
  <2> QED BY <1>7, <1>8, <2>1 DEF Fits
<1> QED BY <1>1, <1>6, <1>8, <1>9 DEF Follows

LEMMA UnblockFollows ==
  ASSUME log \in Seq(BOOLEAN), NEW b \in Nat, NEW m \in Nat, Follows(log, conn, b, m),
         Unblock
  PROVE  Follows(log, conn', b, m)
<1> DEFINE c == [conn EXCEPT !.blocked = FALSE]
<1>1. /\ conn \in Conn /\ Served(log, conn, b, m) /\ Goes(conn, b) /\ Early(Len(log), b)
      /\ conn' = Drain(c)
  BY DEF Unblock, Follows
<1>2. /\ c \in Conn /\ c.cursor = conn.cursor /\ c.pending = conn.pending
      /\ c.wire = conn.wire /\ c.over = conn.over
      /\ c.counted = conn.counted /\ c.bytes = conn.bytes
      /\ c.pc = conn.pc /\ c.page = conn.page /\ c.latest = conn.latest
  BY <1>1 DEF Conn
<1> HIDE DEF c
<1>3. Fits(log, c)
  BY <1>1, <1>2 DEF Served, Fits
<1>4. Gapless(log, c.wire, b, m) /\ Reaches(log, c.wire, b, m, c.cursor)
  BY <1>1, <1>2 DEF Served
<1>5. Goes(c, b)
  BY <1>1, <1>2 DEF Goes
<1>6. conn' \in Conn /\ Served(log, conn', b, m) /\ Keeps(c, conn')
  BY <1>1, <1>2, <1>3, <1>4, DrainKeeps
<1> QED BY <1>1, <1>2, <1>5, <1>6, KeepsGoing, ServedFollows

LEMMA PingFollows ==
  ASSUME log \in Seq(BOOLEAN), NEW b \in Nat, NEW m \in Nat, Follows(log, conn, b, m),
         Ping
  PROVE  Follows(log, conn', b, m)
<1>1. /\ conn \in Conn /\ Served(log, conn, b, m) /\ Goes(conn, b) /\ Early(Len(log), b)
      /\ conn' = [conn EXCEPT !.blocked = TRUE]
  BY DEF Ping, Follows
<1>2. /\ conn' \in Conn /\ conn'.cursor = conn.cursor /\ conn'.pending = conn.pending
      /\ conn'.wire = conn.wire /\ conn'.over = conn.over /\ conn'.blocked = TRUE
      /\ conn'.counted = conn.counted /\ conn'.bytes = conn.bytes
      /\ conn'.pc = conn.pc /\ conn'.page = conn.page /\ conn'.latest = conn.latest
  BY <1>1 DEF Conn
<1>3. Fits(log, conn')
  BY <1>1, <1>2 DEF Served, Fits
<1>4. Served(log, conn', b, m)
  BY <1>1, <1>2, <1>3 DEF Served
<1>5. Goes(conn', b)
  BY <1>1, <1>2 DEF Goes
<1> QED BY <1>1, <1>2, <1>4, <1>5, ServedFollows

\* A page is handed over as far as the budget goes, and counted.
LEMMA ReplayPageFollows ==
  ASSUME log \in Seq(BOOLEAN), Len(log) <= MaxSeq, NEW b \in Nat, NEW m \in Nat,
         Follows(log, conn, b, m), ReplayPage
  PROVE  Follows(log, conn', b, m)
<1> DEFINE L == Len(conn.page)
           bytes(k) == conn.bytes + Bytes(SubSeq(conn.page, 1, k))
           exceeding == {k \in DOMAIN conn.page :
                           conn.counted + k > Budget \/ bytes(k) > BudgetBytes}
           n == IF conn.budget /\ exceeding # {} THEN Min(exceeding) - 1 ELSE L
           rows == SubSeq(conn.page, 1, n)
           c == EnqueueAll(conn, rows)
           cutOff == n < L
           atEnd == /\ ~cutOff /\ ~c.blocked /\ ~c.over
                    /\ ~conn.more \/ conn.page = <<>>
           served == ~c.budget \/ cutOff \/ atEnd
<1>1. /\ conn \in Conn /\ conn.state = "open"
      /\ Served(log, conn, b, m) /\ Early(Len(log), b)
  BY DEF ReplayPage, Follows
<1>2. conn' = [c EXCEPT !.page = <<>>, !.more = FALSE,
                        !.pc = IF cutOff THEN "cut" ELSE "idle",
                        !.latest = IF cutOff THEN Len(log) ELSE 0,
                        !.budget = ~served,
                        !.counted = IF served THEN 0 ELSE c.counted + n,
                        !.bytes = IF served THEN 0 ELSE bytes(n)]
  BY DEF ReplayPage
<1>3. /\ conn.page \in Seq(Nat) /\ L \in Nat /\ Len(log) \in Nat /\ MaxSeq \in Nat
      /\ conn.counted \in Nat /\ conn.counted <= Budget /\ Budget \in Nat
      /\ conn.bytes \in Nat /\ conn.bytes <= BudgetBytes /\ BudgetBytes \in Nat
      /\ \A i \in DOMAIN conn.page : conn.page[i] \in DOMAIN log
  <2>1. conn.page \in Seq(Nat) /\ conn.counted \in Nat /\ conn.bytes \in Nat
    BY <1>1, ConnFields
  <2>2. /\ conn.counted <= Budget /\ conn.bytes <= BudgetBytes
        /\ \A i \in DOMAIN conn.page : conn.page[i] \in DOMAIN log
    BY <1>1 DEF Served, Fits
  <2>3. Budget \in Nat /\ BudgetBytes \in Nat /\ MaxSeq \in Nat
    BY LimitsAssumption
  <2>4. L \in Nat /\ Len(log) \in Nat
    BY <2>1
  <2> HIDE DEF L
  <2> QED BY <2>1, <2>2, <2>3, <2>4
<1>4. ASSUME NEW k \in Nat, k <= L PROVE bytes(k) \in Nat /\ bytes(0) = conn.bytes
  <2> DEFINE first == SubSeq(conn.page, 1, k)
  <2>1. first \in Seq(Nat) /\ \A i \in DOMAIN first : first[i] \in 1..MaxSeq
    <3>1. /\ first \in Seq(Nat) /\ DOMAIN first = 1..k
          /\ \A i \in 1..k : first[i] = conn.page[i] /\ i \in DOMAIN conn.page
      BY <1>3, <1>4
    <3>2. DOMAIN log \subseteq 1..MaxSeq
      BY <1>3
    <3> QED BY <1>3, <3>1, <3>2
  <2>2. Bytes(first) \in Nat
    <3> HIDE DEF first
    <3> QED BY <2>1, BytesFact
  <2>3. SubSeq(conn.page, 1, 0) = <<>> /\ Bytes(<<>>) = 0
    <3>1. <<>> \in Seq(Nat) /\ DOMAIN <<>> = {}
      OBVIOUS
    <3>2. SubSeq(conn.page, 1, 0) = <<>>
      BY <1>3
    <3>3. \A i \in DOMAIN <<>> : <<>>[i] \in 1..MaxSeq
      BY <3>1
    <3> QED BY <3>1, <3>2, <3>3, BytesFact
  <2> HIDE DEF first
  <2>4. conn.bytes + Bytes(first) \in Nat /\ conn.bytes + 0 = conn.bytes
    BY <1>3, <2>2
  <2> QED BY <2>3, <2>4 DEF first
<1> HIDE DEF bytes
<1>5. /\ n \in Nat /\ n <= L
      /\ conn.budget => n \notin exceeding
  <2>1. CASE conn.budget /\ exceeding # {}
    <3>1. DOMAIN conn.page = 1..L /\ exceeding \in SUBSET Nat /\ exceeding \subseteq 1..L
      BY <1>3
    <3> HIDE DEF exceeding
    <3>2. Min(exceeding) \in exceeding /\ \A k \in exceeding : Min(exceeding) <= k
      BY <2>1, <3>1, MinFact
    <3>3. n = Min(exceeding) - 1 /\ Min(exceeding) \in 1..L
      BY <2>1, <3>1, <3>2
    <3> HIDE DEF L, n
    <3> QED BY <1>3, <3>2, <3>3
  <2>2. CASE ~(conn.budget /\ exceeding # {})
    <3>1. n = L
      BY <2>2
    <3> HIDE DEF exceeding, n, L
    <3> QED BY <1>3, <2>2, <3>1
  <2> QED BY <2>1, <2>2
<1>6. conn.budget => conn.counted + n <= Budget /\ bytes(n) <= BudgetBytes
  <2> SUFFICES ASSUME conn.budget PROVE conn.counted + n <= Budget /\ bytes(n) <= BudgetBytes
    OBVIOUS
  <2>1. CASE n = 0
    <3>1. bytes(0) = conn.bytes
      BY <1>3, <1>4
    <3> HIDE DEF n
    <3> QED BY <1>3, <2>1, <3>1
  <2>2. CASE n # 0
    <3>1. n \in DOMAIN conn.page /\ bytes(n) \in Nat
      <4> HIDE DEF n
      <4> QED BY <1>3, <1>4, <1>5, <2>2
    <3>2. ~(conn.counted + n > Budget \/ bytes(n) > BudgetBytes)
      <4> HIDE DEF n
      <4> QED BY <1>5, <3>1
    <3> HIDE DEF n
    <3> QED BY <1>3, <1>5, <3>1, <3>2
  <2> QED BY <2>1, <2>2
<1> HIDE DEF exceeding
<1>7. /\ rows \in Seq(Nat) /\ DOMAIN rows = 1..n
      /\ \A i \in 1..n : rows[i] = conn.page[i] /\ i \in DOMAIN conn.page
  <2> HIDE DEF n
  <2> QED BY <1>3, <1>5
<1>8. \A i \in DOMAIN rows : rows[i] \in DOMAIN log
  BY <1>3, <1>7
<1> HIDE DEF rows
<1>9. c \in Conn /\ Served(log, c, b, m) /\ Keeps(conn, c)
  BY <1>1, <1>7, <1>8, EnqueueAllKeeps
<1> HIDE DEF c
<1>10. c.budget = conn.budget /\ c.counted = conn.counted /\ bytes(n) \in Nat
  BY <1>4, <1>5, <1>9 DEF Keeps
<1> HIDE DEF n, L
<1>11. served \in BOOLEAN /\ cutOff \in BOOLEAN
  OBVIOUS
<1>12. ~served => conn.budget
  BY <1>1, <1>9, <1>10, ConnFields
<1> HIDE DEF served
<1> DEFINE counted == IF served THEN 0 ELSE c.counted + n
           weight == IF served THEN 0 ELSE bytes(n)
           pc == IF cutOff THEN "cut" ELSE "idle"
           latest == IF cutOff THEN Len(log) ELSE 0
<1>13. /\ counted \in Nat /\ counted <= Budget /\ latest \in Nat /\ latest <= Len(log)
       /\ weight \in Nat /\ weight <= BudgetBytes
  BY <1>3, <1>5, <1>6, <1>10, <1>12
<1>14. pc \in {"idle", "page", "cut", "tail"} /\ (pc = "cut" => latest = Len(log))
  OBVIOUS
<1>15. conn' = [c EXCEPT !.page = <<>>, !.more = FALSE, !.pc = pc, !.latest = latest,
                         !.budget = ~served, !.counted = counted, !.bytes = weight]
  BY <1>2
<1> HIDE DEF counted, weight, pc, latest
<1>16. /\ conn' \in Conn /\ conn'.cursor = c.cursor /\ conn'.pending = c.pending
       /\ conn'.wire = c.wire /\ conn'.counted = counted /\ conn'.bytes = weight
       /\ conn'.pc = pc /\ conn'.page = <<>> /\ conn'.latest = latest
  <2>1. (~served) \in BOOLEAN
    BY <1>11
  <2>2. <<>> \in Seq(Nat)
    OBVIOUS
  <2> QED BY <1>9, <1>13, <1>14, <1>15, <2>1, <2>2 DEF Conn
<1>17. Fits(log, conn')
  BY <1>9, <1>13, <1>16 DEF Served, Fits
<1>18. Served(log, conn', b, m)
  BY <1>9, <1>16, <1>17 DEF Served
<1>19. Goes(conn', b)
  BY <1>1, <1>14, <1>16 DEF Goes
<1> QED BY <1>1, <1>16, <1>18, <1>19, ServedFollows

\* A new connection starts where its client is, or a window before the end.
LEMMA ConnectFollows ==
  ASSUME log \in Seq(BOOLEAN), NEW b \in Nat, NEW m \in Nat, m = client.maxSeq,
         m <= Len(log), Connect,
         m = 0 => b = Monus(Len(log), Window), m # 0 => b <= m /\ Early(Len(log), b)
  PROVE  Follows(log, conn', b, m)
<1> DEFINE cursor == IF m = 0 THEN Monus(Len(log), Window) ELSE m
<1>1. conn' = [NoConnection EXCEPT !.state = "open", !.cursor = cursor, !.budget = m # 0]
  BY DEF Connect
<1>2. Len(log) \in Nat /\ Window \in Nat /\ Budget \in Nat /\ BudgetBytes \in Nat
      /\ MaxPending \in Nat
  BY LimitsAssumption
<1>3. cursor \in Nat /\ cursor <= Len(log) /\ b <= cursor
  BY <1>2 DEF Monus
<1>4. \A s \in Nat : b < s /\ s <= cursor => s <= m
  BY <1>2 DEF Monus
<1> HIDE DEF cursor
<1>5. /\ conn' \in Conn /\ conn'.state = "open" /\ conn'.cursor = cursor
      /\ conn'.pending = {} /\ ~conn'.over /\ conn'.counted = 0 /\ conn'.bytes = 0 /\ conn'.pc = "idle"
      /\ conn'.page = <<>> /\ conn'.latest = 0 /\ conn'.wire = <<>>
  <2>1. (m # 0) \in BOOLEAN
    OBVIOUS
  <2> QED BY <1>1, <1>3, <2>1, NoConnectionIs DEF Conn
<1>6. Fits(log, conn')
  <2>1. Cardinality({}) <= MaxPending
    BY <1>2, FS_EmptySet
  <2> QED BY <1>2, <1>3, <1>5, <2>1 DEF Fits
<1>7. Gapless(log, conn'.wire, b, m) /\ Reaches(log, conn'.wire, b, m, conn'.cursor)
  <2>1. DOMAIN log \subseteq Nat
    OBVIOUS
  <2> QED BY <1>3, <1>4, <1>5, <2>1 DEF Gapless, Reaches, Before
<1>8. Served(log, conn', b, m)
  BY <1>5, <1>6, <1>7 DEF Served
<1>9. Goes(conn', b)
  BY <1>5 DEF Goes
<1>10. Early(Len(log), b)
  BY <1>2 DEF Early, Monus
<1> QED BY <1>5, <1>8, <1>9, <1>10, ServedFollows

\* Nothing on its way, nothing to keep.
LEMMA NoConnectionFollows ==
  ASSUME NEW l \in Seq(BOOLEAN), NEW b, NEW m, Early(Len(l), b)
  PROVE  Follows(l, NoConnection, b, m)
<1>1. Cardinality({}) <= MaxPending /\ 0 <= Budget /\ 0 <= BudgetBytes /\ 0 <= Len(l)
  BY FS_EmptySet, LimitsAssumption
<1> QED BY <1>1, NoConnectionIs DEF Follows, Fits, Gapless

\* A longer log changes nothing for a connection.
LEMMA AppendFollows ==
  ASSUME NEW l \in Seq(BOOLEAN), NEW v \in BOOLEAN, NEW b, NEW m, NEW c \in Conn,
         Follows(l, c, b, m), b \in Nat
  PROVE  Follows(Append(l, v), c, b, m)
<1> DEFINE k == Append(l, v)
<1>1. /\ k \in Seq(BOOLEAN) /\ Len(k) = Len(l) + 1 /\ Len(l) \in Nat
      /\ DOMAIN k = 1..(Len(l) + 1) /\ DOMAIN l = 1..Len(l)
      /\ \A s \in DOMAIN l : s \in DOMAIN k /\ k[s] = l[s]
      /\ \A s \in DOMAIN k : s <= Len(l) => s \in DOMAIN l
  OBVIOUS
<1> HIDE DEF k
<1>2. /\ c.cursor \in Nat /\ c.latest \in Nat /\ c.pending \in SUBSET Nat
      /\ \A i \in DOMAIN c.wire : c.wire[i].seq \in Nat
  <2>1. \A f \in Frame : f.seq \in Nat
    BY DEF Frame
  <2>2. \A i \in DOMAIN c.wire : c.wire[i] \in Frame
    BY ConnFields
  <2> QED BY <2>1, <2>2, ConnFields
<1>3. Fits(l, c)
  BY DEF Follows
<1>4. Fits(k, c)
  <2>1. c.cursor <= Len(k) /\ c.latest <= Len(k)
    BY <1>1, <1>2, <1>3 DEF Fits
  <2>2. c.pending \subseteq (c.cursor + 1)..Len(k)
    BY <1>1, <1>2, <1>3 DEF Fits
  <2>3. \A i \in DOMAIN c.page : c.page[i] \in DOMAIN k
    BY <1>1, <1>3 DEF Fits
  <2>4. \A i \in DOMAIN c.wire :
          /\ c.wire[i].seq <= Len(k)
          /\ c.wire[i].kind = "event" => c.wire[i].seq \in DOMAIN k /\ k[c.wire[i].seq]
    BY <1>1, <1>2, <1>3 DEF Fits
  <2> QED BY <1>3, <2>1, <2>2, <2>3, <2>4 DEF Fits
<1>5. Gapless(k, c.wire, b, m)
  <2> SUFFICES ASSUME NEW i \in DOMAIN c.wire
               PROVE  /\ b <= c.wire[i].seq
                      /\ c.wire[i].kind = "event" =>
                            /\ b < c.wire[i].seq
                            /\ \A s \in DOMAIN k :
                                 b < s /\ s < c.wire[i].seq /\ k[s] => Before(c.wire, m, i, s)
    BY DEF Gapless
  <2>1. c.wire[i].seq <= Len(l) /\ c.wire[i].seq \in Nat
    BY <1>2, <1>3 DEF Fits
  <2>2. \A s \in DOMAIN k : s < c.wire[i].seq => s \in DOMAIN l /\ k[s] = l[s]
    BY <1>1, <2>1
  <2> QED BY <2>2 DEF Follows, Gapless
<1>6. ASSUME Reaches(l, c.wire, b, m, c.cursor) PROVE Reaches(k, c.wire, b, m, c.cursor)
  <2>1. c.cursor <= Len(l)
    BY <1>3 DEF Fits
  <2>2. \A s \in DOMAIN k : s <= c.cursor => s \in DOMAIN l /\ k[s] = l[s]
    BY <1>1, <1>2, <2>1
  <2> QED BY <1>6, <2>2 DEF Reaches
<1>7. Early(Len(k), b)
  <2>1. Early(Len(l), b) /\ Window \in Nat
    BY LimitsAssumption DEF Follows
  <2> QED BY <1>1, <2>1 DEF Early, Monus
<1> QED BY <1>4, <1>5, <1>6, <1>7 DEF Follows, Served, k

\* The client takes a frame off the wire, and what it was told before it has.
LEMMA ReceiveFollows ==
  ASSUME log \in Seq(BOOLEAN), NEW b \in Nat, NEW m \in Nat, Follows(log, conn, b, m),
         Receive
  PROVE  /\ Follows(log, conn', b, Greatest(m, Head(conn.wire).seq))
         /\ Head(conn.wire) \in Frame /\ Head(conn.wire) = conn.wire[1]
         /\ 1 \in DOMAIN conn.wire
<1> DEFINE w == conn.wire
           f == Head(w)
           u == Tail(w)
           t == Greatest(m, f.seq)
<1>1. conn \in Conn /\ w \in Seq(Frame) /\ w # <<>> /\ conn' = [conn EXCEPT !.wire = u]
  BY ConnFields DEF Receive, Follows
<1>2. /\ f \in Frame /\ f = w[1] /\ u \in Seq(Frame) /\ Len(u) = Len(w) - 1
      /\ Len(w) \in Nat /\ Len(w) # 0 /\ DOMAIN w = 1..Len(w) /\ DOMAIN u = 1..(Len(w) - 1)
      /\ \A i \in DOMAIN u : i + 1 \in DOMAIN w /\ u[i] = w[i + 1]
  BY <1>1
<1>3. f.seq \in Nat /\ t \in Nat /\ m <= t /\ f.seq <= t
  BY <1>2 DEF Frame, Greatest
<1> HIDE DEF u, f, t, w
<1>4. ASSUME NEW i \in Nat, NEW s \in Nat, Before(w, m, i + 1, s) PROVE Before(u, t, i, s)
  <2>1. CASE s <= m
    BY <1>3, <2>1 DEF Before
  <2>2. ASSUME NEW j \in DOMAIN w, j < i + 1,
               w[j].seq = s \/ (w[j].kind = "truncated" /\ s <= w[j].seq)
        PROVE  Before(u, t, i, s)
    <3>1. CASE j = 1
      <4>1. s <= f.seq
        BY <1>2, <1>3, <2>2, <3>1
      <4>2. s <= t
        BY <1>3, <4>1
      <4> QED BY <4>2 DEF Before
    <3>2. CASE j # 1
      <4>1. j - 1 \in DOMAIN u /\ j - 1 < i /\ (j - 1) + 1 = j
        BY <1>2, <2>2, <3>2
      <4>2. u[j - 1] = w[j]
        BY <1>2, <4>1
      <4> QED BY <2>2, <4>1, <4>2 DEF Before
    <3> QED BY <3>1, <3>2
  <2> QED BY <1>4, <2>1, <2>2 DEF Before
<1>5. Gapless(log, u, b, t)
  <2> SUFFICES ASSUME NEW i \in DOMAIN u
               PROVE  /\ b <= u[i].seq
                      /\ u[i].kind = "event" =>
                            /\ b < u[i].seq
                            /\ \A s \in DOMAIN log :
                                 b < s /\ s < u[i].seq /\ log[s] => Before(u, t, i, s)
    BY DEF Gapless
  <2>1. Gapless(log, w, b, m) /\ DOMAIN log \subseteq Nat /\ i \in Nat
    BY <1>2 DEF Follows, w
  <2>2. i + 1 \in DOMAIN w /\ u[i] = w[i + 1]
    BY <1>2
  <2> QED BY <1>4, <2>1, <2>2 DEF Gapless
<1>6. ASSUME Reaches(log, w, b, m, conn.cursor) PROVE Reaches(log, u, b, t, conn.cursor)
  <2>1. DOMAIN log \subseteq Nat /\ Len(w) + 1 = (Len(u) + 1) + 1 /\ Len(u) + 1 \in Nat
    BY <1>2
  <2> QED BY <1>4, <1>6, <2>1 DEF Reaches
<1>7. /\ conn' \in Conn /\ conn'.cursor = conn.cursor /\ conn'.pending = conn.pending
      /\ conn'.wire = u /\ conn'.blocked = conn.blocked /\ conn'.over = conn.over
      /\ conn'.counted = conn.counted /\ conn'.bytes = conn.bytes
      /\ conn'.pc = conn.pc /\ conn'.page = conn.page /\ conn'.latest = conn.latest
      /\ conn'.state = conn.state
  BY <1>1, <1>2 DEF Conn
<1>8. Fits(log, conn')
  <2>1. Fits(log, conn)
    BY DEF Follows
  <2>2. \A i \in DOMAIN u :
          /\ u[i].seq <= Len(log)
          /\ u[i].kind = "event" => u[i].seq \in DOMAIN log /\ log[u[i].seq]
    BY <1>2, <2>1 DEF Fits, w
  <2> QED BY <1>7, <2>1, <2>2 DEF Fits
<1>9. ASSUME conn.state = "open" PROVE Served(log, conn', b, t) /\ Goes(conn', b)
  <2>1. Served(log, conn, b, m) /\ Goes(conn, b)
    BY <1>9 DEF Follows
  <2>2. Served(log, conn', b, t)
    BY <1>5, <1>6, <1>7, <1>8, <2>1 DEF Served, w
  <2>3. Goes(conn', b)
    BY <1>7, <2>1 DEF Goes
  <2> QED BY <2>2, <2>3
<1>10. Follows(log, conn', b, t)
  BY <1>5, <1>7, <1>8, <1>9 DEF Follows
<1> QED BY <1>2, <1>10 DEF t, f, w

-----------------------------------------------------------------------------
(* The page's sequences.                                                   *)

LEMMA FiniteRange ==
  ASSUME NEW xs \in Seq(Nat)
  PROVE  ToSet(xs) \in SUBSET Nat /\ IsFiniteSet(ToSet(xs))
<1> DEFINE n == Len(xs)
           D == 1..n
<1>1. n \in Nat /\ DOMAIN xs = D /\ \A i \in D : xs[i] \in Nat
  OBVIOUS
<1>2. IsFiniteSet(D)
  <2> HIDE DEF n
  <2> QED BY <1>1, FS_Interval
<1> HIDE DEF D
<1>3. IsFiniteSet({xs[i] : i \in D})
  <2> DEFINE T == {xs[i] : i \in D}
             f == [i \in D |-> xs[i]]
  <2>1. f \in Surjection(D, T)
    BY DEF Surjection
  <2> HIDE DEF T, f
  <2>2. IsFiniteSet(T)
    BY <1>2, <2>1, FS_Surjection
  <2> QED BY <2>2 DEF T
<1>4. ToSet(xs) = {xs[i] : i \in D}
  BY <1>1 DEF ToSet
<1> QED BY <1>1, <1>3, <1>4

\* mergeEventsBySeq keeps every event of both, in order and once.
LEMMA MergeFact ==
  ASSUME NEW xs \in Seq(Nat), NEW ys \in Seq(Nat), Strictly(xs), Strictly(ys)
  PROVE  /\ Merge(xs, ys) \in Seq(Nat) /\ Strictly(Merge(xs, ys))
         /\ ToSet(Merge(xs, ys)) = ToSet(xs) \cup ToSet(ys)
<1> DEFINE zs == xs \o ys
           apart == xs = <<>> \/ ys = <<>> \/ xs[Len(xs)] < ys[1]
<1>1. Merge(xs, ys) = Ascending(ToSet(xs) \cup ToSet(ys)) \/ (apart /\ Merge(xs, ys) = zs)
  BY DEF Merge
<1>2. CASE Merge(xs, ys) = Ascending(ToSet(xs) \cup ToSet(ys))
  <2>1. ToSet(xs) \cup ToSet(ys) \in SUBSET Nat /\ IsFiniteSet(ToSet(xs) \cup ToSet(ys))
    BY FiniteRange, FS_Union
  <2> QED BY <1>2, <2>1, AscendingFact
<1>3. ASSUME apart PROVE zs \in Seq(Nat) /\ Strictly(zs) /\ ToSet(zs) = ToSet(xs) \cup ToSet(ys)
  <2>1. /\ zs \in Seq(Nat)
        /\ \A i \in DOMAIN xs : i \in DOMAIN zs /\ zs[i] = xs[i]
        /\ \A i \in DOMAIN ys : Len(xs) + i \in DOMAIN zs /\ zs[Len(xs) + i] = ys[i]
        /\ \A i \in DOMAIN zs : i \in DOMAIN xs \/ \E k \in DOMAIN ys : i = Len(xs) + k
    BY Concatenated
  <2>2. /\ Len(xs) \in Nat /\ Len(ys) \in Nat
        /\ DOMAIN xs = 1..Len(xs) /\ DOMAIN ys = 1..Len(ys)
        /\ \A i \in DOMAIN xs : xs[i] \in Nat
        /\ \A i \in DOMAIN ys : ys[i] \in Nat
    OBVIOUS
  <2> HIDE DEF zs
  <2>3. ASSUME NEW i \in DOMAIN xs, NEW k \in DOMAIN ys PROVE xs[i] < ys[k]
    <3>1. Len(xs) \in DOMAIN xs /\ 1 \in DOMAIN ys
      BY <2>2
    <3>2. xs[Len(xs)] < ys[1]
      BY <1>3, <2>2, <3>1
    <3>3. xs[i] = xs[Len(xs)] \/ xs[i] < xs[Len(xs)]
      <4>1. i = Len(xs) \/ i < Len(xs)
        BY <2>2
      <4> QED BY <3>1, <4>1 DEF Strictly
    <3>4. ys[1] = ys[k] \/ ys[1] < ys[k]
      <4>1. k = 1 \/ 1 < k
        BY <2>2
      <4> QED BY <3>1, <4>1 DEF Strictly
    <3>5. xs[i] \in Nat /\ xs[Len(xs)] \in Nat /\ ys[1] \in Nat /\ ys[k] \in Nat
      BY <2>2, <3>1
    <3> QED BY <3>2, <3>3, <3>4, <3>5
  <2>4. ASSUME NEW i \in DOMAIN zs, NEW j \in DOMAIN zs, i < j PROVE zs[i] < zs[j]
    <3>1. CASE i \in DOMAIN xs /\ j \in DOMAIN xs
      BY <2>1, <2>4, <3>1 DEF Strictly
    <3>2. ASSUME i \in DOMAIN xs, NEW k \in DOMAIN ys, j = Len(xs) + k PROVE zs[i] < zs[j]
      BY <2>1, <2>3, <3>2
    <3>3. ASSUME NEW k \in DOMAIN ys, i = Len(xs) + k, j \in DOMAIN xs PROVE FALSE
      BY <2>2, <2>4, <3>3
    <3>4. ASSUME NEW k \in DOMAIN ys, NEW h \in DOMAIN ys, i = Len(xs) + k, j = Len(xs) + h
          PROVE  zs[i] < zs[j]
      <4>1. k < h
        BY <2>2, <2>4, <3>4
      <4>2. ys[k] < ys[h]
        BY <4>1 DEF Strictly
      <4> QED BY <2>1, <3>4, <4>2
    <3> QED BY <2>1, <3>1, <3>2, <3>3, <3>4
  <2>5. Strictly(zs)
    BY <2>4 DEF Strictly
  <2>6. ToSet(zs) = ToSet(xs) \cup ToSet(ys)
    <3>1. ASSUME NEW i \in DOMAIN zs PROVE zs[i] \in ToSet(xs) \cup ToSet(ys)
      BY <2>1 DEF ToSet
    <3>2. \A i \in DOMAIN xs : xs[i] \in ToSet(zs)
      <4> SUFFICES ASSUME NEW i \in DOMAIN xs PROVE xs[i] \in ToSet(zs)
        OBVIOUS
      <4>1. i \in DOMAIN zs /\ zs[i] = xs[i]
        BY <2>1
      <4> QED BY <4>1 DEF ToSet
    <3>3. \A i \in DOMAIN ys : ys[i] \in ToSet(zs)
      <4> SUFFICES ASSUME NEW i \in DOMAIN ys PROVE ys[i] \in ToSet(zs)
        OBVIOUS
      <4>1. Len(xs) + i \in DOMAIN zs /\ zs[Len(xs) + i] = ys[i]
        BY <2>1
      <4> QED BY <4>1 DEF ToSet
    <3>4. ToSet(zs) \subseteq ToSet(xs) \cup ToSet(ys)
      BY <3>1 DEF ToSet
    <3>5. ToSet(xs) \subseteq ToSet(zs)
      BY <3>2 DEF ToSet
    <3>6. ToSet(ys) \subseteq ToSet(zs)
      BY <3>3 DEF ToSet
    <3> QED BY <3>4, <3>5, <3>6
  <2> QED BY <2>1, <2>5, <2>6
<1> QED BY <1>1, <1>2, <1>3

\* What falls out of a window precedes what stays in it.
LEMMA NewestFact ==
  ASSUME NEW xs \in Seq(Nat), NEW size \in Nat, Strictly(xs)
  PROVE  /\ Newest(xs, size) \in Seq(Nat) /\ Strictly(Newest(xs, size))
         /\ Len(Newest(xs, size)) <= size /\ ToSet(Newest(xs, size)) \subseteq ToSet(xs)
         /\ size > 0 /\ xs # <<>> => Newest(xs, size) # <<>>
         /\ \A s \in ToSet(xs) \ ToSet(Newest(xs, size)), t \in ToSet(Newest(xs, size)) : s < t
<1> DEFINE n == Len(xs)
           k == Monus(n, size)
           ys == SubSeq(xs, k + 1, n)
<1>1. /\ n \in Nat /\ DOMAIN xs = 1..n /\ \A i \in 1..n : xs[i] \in Nat
      /\ ys = Newest(xs, size)
  BY DEF Newest
<1>2. k \in Nat /\ k <= n /\ n - k <= size /\ (size > 0 /\ n > 0 => k < n)
  <2> HIDE DEF n
  <2> QED BY <1>1 DEF Monus
<1> HIDE DEF k
<1>3. /\ ys \in Seq(Nat) /\ Len(ys) = n - k /\ DOMAIN ys = 1..(n - k)
      /\ \A i \in 1..(n - k) : ys[i] = xs[k + i] /\ k + i \in 1..n
  <2> HIDE DEF n
  <2>1. k + 1 \in Int /\ n \in Int /\ n - k \in Nat /\ n - (k + 1) + 1 = n - k
    BY <1>1, <1>2
  <2>2. \A i \in (k + 1)..n : xs[i] \in Nat
    <3>1. \A i \in (k + 1)..n : i \in 1..n
      BY <1>1, <1>2
    <3> QED BY <1>1, <3>1
  <2>3. /\ ys \in Seq(Nat) /\ Len(ys) = (IF k + 1 <= n THEN n - (k + 1) + 1 ELSE 0)
        /\ \A i \in 1..(n - (k + 1) + 1) : ys[i] = xs[k + 1 + i - 1]
    BY <2>1, <2>2, SubSeqProperties
  <2> HIDE DEF ys
  <2>4. Len(ys) = n - k
    BY <1>1, <1>2, <2>3
  <2>5. \A i \in 1..(n - k) : k + 1 + i - 1 = k + i /\ k + i \in 1..n
    BY <1>1, <1>2
  <2> QED BY <2>1, <2>3, <2>4, <2>5
<1> HIDE DEF ys
<1>4. Strictly(ys)
  <2> SUFFICES ASSUME NEW i \in 1..(n - k), NEW j \in 1..(n - k), i < j PROVE ys[i] < ys[j]
    BY <1>3 DEF Strictly
  <2>1. k + i < k + j
    BY <1>2
  <2>2. k + i \in DOMAIN xs /\ k + j \in DOMAIN xs
    BY <1>1, <1>3
  <2> QED BY <1>3, <2>1, <2>2 DEF Strictly
<1>5. ToSet(ys) \subseteq ToSet(xs)
  BY <1>1, <1>3 DEF ToSet
<1>6. size > 0 /\ xs # <<>> => ys # <<>>
  <2>1. xs # <<>> => n > 0
    BY <1>1
  <2>2. ys = <<>> => Len(ys) = 0
    OBVIOUS
  <2> HIDE DEF n
  <2> QED BY <1>1, <1>2, <1>3, <2>1, <2>2
<1>7. ASSUME NEW s \in ToSet(xs) \ ToSet(ys), NEW t \in ToSet(ys) PROVE s < t
  <2>1. PICK i \in 1..n : s = xs[i]
    BY <1>1 DEF ToSet
  <2>2. PICK j \in 1..(n - k) : t = ys[j]
    BY <1>3 DEF ToSet
  <2>3. ~(k < i)
    <3> SUFFICES ASSUME k < i PROVE FALSE
      OBVIOUS
    <3>1. i - k \in 1..(n - k) /\ k + (i - k) = i
      <4> HIDE DEF n
      <4> QED BY <1>1, <1>2
    <3>2. s = ys[i - k]
      BY <1>3, <2>1, <3>1
    <3>3. s \in ToSet(ys)
      BY <1>3, <3>1, <3>2 DEF ToSet
    <3> QED BY <1>7, <3>3
  <2>4. i < k + j
    <3> HIDE DEF n
    <3> QED BY <1>1, <1>2, <2>3
  <2>5. i \in DOMAIN xs /\ k + j \in DOMAIN xs /\ t = xs[k + j]
    BY <1>1, <1>3, <2>2
  <2> QED BY <2>1, <2>4, <2>5 DEF Strictly
<1>8. Len(ys) <= size
  <2> HIDE DEF n
  <2> QED BY <1>2, <1>3
<1> QED BY <1>1, <1>3, <1>4, <1>5, <1>6, <1>7, <1>8

-----------------------------------------------------------------------------
(* Reading backwards.                                                      *)

Lowest(before, k) == Greatest(1, Monus(before, k * EarlierPage))
Found(before, k) == Visible(Lowest(before, k)..(before - 1))
Full(before, k) == Cardinality(Found(before, k)) >= EarlierPage
Scans(before) ==
    Min({k \in 1..MaxScans : Full(before, k) \/ Lowest(before, k) = 1 \/ k = MaxScans})
Events(before) == Newest(Ascending(Found(before, Scans(before))), EarlierPage)

LEMMA BackwardIs ==
  ASSUME NEW before
  PROVE  /\ Backward(before).events = Events(before)
         /\ Backward(before).next =
              IF ~Full(before, Scans(before)) /\ Lowest(before, Scans(before)) = 1 THEN 0
              ELSE IF Events(before) # <<>> THEN Events(before)[1]
              ELSE Lowest(before, Scans(before))
BY DEF Backward, Lowest, Found, Full, Scans, Events

\* The answer holds every visible event from its first one up to the request's,
\* and where the next request starts leaves none out.
LEMMA BackwardFact ==
  ASSUME NEW before \in Nat, before # 0
  PROVE  LET events == Backward(before).events
             next == Backward(before).next
         IN /\ events \in Seq(Nat) /\ Strictly(events)
            /\ \A s \in ToSet(events) : 0 < s /\ s < before /\ log[s]
            /\ events # <<>> =>
                 /\ next \in {0, events[1]}
                 /\ \A s \in Nat :
                      events[1] <= s /\ s < before /\ log[s] => s \in ToSet(events)
            /\ events = <<>> =>
                 \/ next = 0
                 \/ /\ next \in 1..before
                    /\ \A s \in Nat : next <= s /\ s < before => ~log[s]
<1> DEFINE events == Backward(before).events
           next == Backward(before).next
           k == Scans(before)
           low == Lowest(before, k)
           S == Found(before, k)
           xs == Ascending(S)
<1>1. k \in Nat
  <2> DEFINE C == {h \in 1..MaxScans :
                     Full(before, h) \/ Lowest(before, h) = 1 \/ h = MaxScans}
  <2>1. MaxScans \in Nat /\ 0 < MaxScans
    BY LimitsAssumption
  <2>2. C \in SUBSET Nat /\ C # {}
    <3>1. MaxScans \in C
      BY <2>1
    <3> QED BY <3>1
  <2>3. k = Min(C)
    BY DEF Scans
  <2> HIDE DEF C, k
  <2>4. PICK h \in C : \A n \in C : h <= n
    BY <2>2, LeastElement
  <2>5. Min(C) \in C
    BY <2>4 DEF Min
  <2> QED BY <2>2, <2>3, <2>5
<1> HIDE DEF k
<1>2. low \in Nat /\ 0 < low /\ low <= before /\ EarlierPage \in Nat /\ EarlierPage > 0
  <2>1. EarlierPage \in Nat /\ EarlierPage > 0
    BY LimitsAssumption
  <2>2. k * EarlierPage \in Nat
    BY <1>1, <2>1
  <2>3. Monus(before, k * EarlierPage) \in Nat /\ Monus(before, k * EarlierPage) <= before
    BY <2>2 DEF Monus
  <2> QED BY <2>1, <2>3 DEF Lowest, Greatest
<1>3. S = {s \in low..(before - 1) : log[s]}
  BY DEF Found, Visible
<1> HIDE DEF low
<1>4. S \in SUBSET Nat /\ IsFiniteSet(S)
  <2>1. IsFiniteSet(low..(before - 1))
    BY <1>2, FS_Interval
  <2>2. S \in SUBSET (low..(before - 1))
    BY <1>3
  <2>3. IsFiniteSet(S)
    BY <2>1, <2>2, FS_Subset
  <2> QED BY <1>2, <2>2, <2>3
<1> HIDE DEF S
<1>5. /\ xs \in Seq(Nat) /\ Len(xs) = Cardinality(S) /\ Strictly(xs) /\ ToSet(xs) = S
  BY <1>4, AscendingFact
<1>6. /\ events = Newest(xs, EarlierPage)
      /\ next = 0 \/ next = (IF events # <<>> THEN events[1] ELSE low)
  BY BackwardIs DEF Events, low, S, k
<1> HIDE DEF xs, events, next
<1>7. /\ events \in Seq(Nat) /\ Strictly(events) /\ ToSet(events) \subseteq S
      /\ (xs # <<>> => events # <<>>)
      /\ \A s \in S \ ToSet(events), t \in ToSet(events) : s < t
  BY <1>2, <1>5, <1>6, NewestFact
<1>8. \A s \in ToSet(events) : 0 < s /\ s < before /\ log[s]
  <2> SUFFICES ASSUME NEW s \in S PROVE 0 < s /\ s < before /\ log[s]
    BY <1>7
  <2>1. s \in low..(before - 1) /\ log[s]
    BY <1>3
  <2> QED BY <1>2, <2>1
<1>9. ASSUME events # <<>>
      PROVE  /\ next \in {0, events[1]}
             /\ \A s \in Nat : events[1] <= s /\ s < before /\ log[s] => s \in ToSet(events)
  <2>1. next \in {0, events[1]}
    BY <1>6, <1>9
  <2>2. events[1] \in ToSet(events) /\ events[1] \in S
    <3>1. 1 \in DOMAIN events
      BY <1>7, <1>9
    <3> QED BY <1>7, <3>1 DEF ToSet
  <2>3. ASSUME NEW s \in Nat, events[1] <= s, s < before, log[s], s \notin ToSet(events)
        PROVE  FALSE
    <3>1. events[1] \in low..(before - 1)
      BY <1>3, <2>2
    <3>2. s \in low..(before - 1)
      BY <1>2, <2>3, <3>1
    <3>3. s < events[1]
      BY <1>3, <1>7, <2>2, <2>3, <3>2
    <3> QED BY <1>2, <2>3, <3>1, <3>3
  <2> QED BY <2>1, <2>3
<1>10. ASSUME events = <<>>, next # 0
       PROVE  next \in 1..before /\ \A s \in Nat : next <= s /\ s < before => ~log[s]
  <2>1. next = low
    BY <1>6, <1>10
  <2>2. S = {}
    <3>1. xs = <<>>
      BY <1>7, <1>10
    <3>2. ToSet(xs) = {}
      BY <3>1 DEF ToSet
    <3> QED BY <1>5, <3>2
  <2>3. ASSUME NEW s \in Nat, low <= s, s < before PROVE ~log[s]
    <3>1. s \in low..(before - 1)
      BY <1>2, <2>3
    <3> QED BY <1>3, <2>2, <3>1
  <2> QED BY <1>2, <2>1, <2>3
<1> QED BY <1>7, <1>8, <1>9, <1>10 DEF events, next

-----------------------------------------------------------------------------
(* The inductive invariant.                                                *)

\* On the page, or known to be missing from it.
Covered(s) == s \in ToSet(shown) \/ s <= cut \/ s \in letGo

Types ==
    /\ log \in Seq(BOOLEAN) /\ Len(log) <= MaxSeq /\ unheard \subseteq DOMAIN log
    /\ client \in [state : {"waiting", "connected", "left"}, maxSeq : 0..Len(log)]
    /\ shown \in Seq(Nat) /\ Strictly(shown) /\ ToSet(shown) \subseteq Visible(DOMAIN log)
    /\ Len(shown) <= ClientWindow + retain /\ retain \in 0..MaxEarlier
    /\ earlier \in 0..Len(log) /\ cut \in Nat
    /\ asked \subseteq [before : 1..Len(log), mine : BOOLEAN]

\* The page covers what follows b, as far as its client has got; what it asks
\* for next is within that.
PageFrom(b) ==
    /\ \A s \in DOMAIN log : b < s /\ s <= client.maxSeq /\ log[s] => Covered(s)
    /\ client.maxSeq # 0 => b <= client.maxSeq
    /\ \A s \in ToSet(shown) : b < s /\ s <= client.maxSeq
    /\ earlier # 0 => b < earlier /\ earlier <= client.maxSeq
    /\ \A q \in asked : q.mine => b < q.before /\ q.before <= client.maxSeq

IInv ==
    /\ Types
    /\ \E b \in 0..Len(log) : Follows(log, conn, b, client.maxSeq) /\ PageFrom(b)

LEMMA TypesKept ==
  ASSUME Types, UNCHANGED <<log, shown, retain, earlier, cut>>, unheard' \subseteq unheard,
         asked' \subseteq asked,
         client' \in [state : {"waiting", "connected", "left"}, maxSeq : 0..Len(log)]
  PROVE  Types'
BY DEF Types, Visible

LEMMA PageKept ==
  ASSUME NEW b \in Nat, PageFrom(b), UNCHANGED <<log, shown, earlier, cut, letGo>>,
         client'.maxSeq = client.maxSeq, asked' \subseteq asked
  PROVE  PageFrom(b)'
BY DEF PageFrom, Covered

LEMMA ConnectionStep ==
  ASSUME IInv, UNCHANGED <<log, client, shown, history, cut, letGo>>,
         unheard' \subseteq unheard,
         \A b \in Nat : Follows(log, conn, b, client.maxSeq)
                          => Follows(log, conn', b, client.maxSeq)
  PROVE  IInv'
<1>1. PICK b \in 0..Len(log) : Follows(log, conn, b, client.maxSeq) /\ PageFrom(b)
  BY DEF IInv
<1>2. /\ UNCHANGED <<log, shown, retain, earlier, cut, letGo>> /\ asked' = asked
      /\ client' = client
  BY DEF history
<1>3. Types'
  <2>1. client' \in [state : {"waiting", "connected", "left"}, maxSeq : 0..Len(log)]
    BY <1>2 DEF IInv, Types
  <2> QED BY <1>2, <2>1, TypesKept DEF IInv
<1>4. b \in Nat /\ b \in 0..Len(log)'
  BY <1>2 DEF IInv, Types
<1>5. PageFrom(b)'
  BY <1>1, <1>2, <1>4, PageKept
<1>6. Follows(log, conn', b, client.maxSeq)
  BY <1>1, <1>4
<1>7. Follows(log', conn', b, client'.maxSeq)
  BY <1>2, <1>6
<1> QED BY <1>3, <1>4, <1>5, <1>7 DEF IInv

LEMMA ConnectionSteps ==
  ASSUME IInv,
         \/ \E s \in unheard : Publish(s)
         \/ ReadPage \/ ReplayPage \/ CutReplay \/ ReplayTail \/ CutAndClose
         \/ Unblock \/ Ping
  PROVE  IInv'
<1>1. /\ log \in Seq(BOOLEAN) /\ Len(log) <= MaxSeq
      /\ client.maxSeq \in Nat /\ unheard \subseteq DOMAIN log
  BY DEF IInv, Types
<1>2. ASSUME NEW s \in unheard, Publish(s) PROVE IInv'
  <2>1. /\ UNCHANGED <<log, client, shown, history, cut, letGo>>
        /\ unheard' \subseteq unheard
    BY <1>2 DEF Publish
  <2>2. s \in DOMAIN log
    BY <1>1
  <2> QED BY <1>1, <1>2, <2>1, <2>2, PublishFollows, ConnectionStep
<1>3. CASE ReadPage
  <2>1. UNCHANGED <<log, client, shown, history, cut, letGo>> /\ unheard' \subseteq unheard
    BY <1>3 DEF ReadPage
  <2> QED BY <1>1, <1>3, <2>1, ReadPageFollows, ConnectionStep
<1>4. CASE ReplayPage
  <2>1. UNCHANGED <<log, client, shown, history, cut, letGo>> /\ unheard' \subseteq unheard
    BY <1>4 DEF ReplayPage
  <2> QED BY <1>1, <1>4, <2>1, ReplayPageFollows, ConnectionStep
<1>5. CASE CutReplay
  <2>1. UNCHANGED <<log, client, shown, history, cut, letGo>> /\ unheard' \subseteq unheard
    BY <1>5 DEF CutReplay
  <2> QED BY <1>1, <1>5, <2>1, CutReplayFollows, ConnectionStep
<1>6. CASE ReplayTail
  <2>1. UNCHANGED <<log, client, shown, history, cut, letGo>> /\ unheard' \subseteq unheard
    BY <1>6 DEF ReplayTail
  <2> QED BY <1>1, <1>6, <2>1, ReplayTailFollows, ConnectionStep
<1>7. CASE CutAndClose
  <2>1. UNCHANGED <<log, client, shown, history, cut, letGo>> /\ unheard' \subseteq unheard
    BY <1>7 DEF CutAndClose
  <2> QED BY <1>1, <1>7, <2>1, CutAndCloseFollows, ConnectionStep
<1>8. CASE Unblock
  <2>1. UNCHANGED <<log, client, shown, history, cut, letGo>> /\ unheard' \subseteq unheard
    BY <1>8 DEF Unblock
  <2> QED BY <1>1, <1>8, <2>1, UnblockFollows, ConnectionStep
<1>9. CASE Ping
  <2>1. UNCHANGED <<log, client, shown, history, cut, letGo>> /\ unheard' \subseteq unheard
    BY <1>9 DEF Ping
  <2> QED BY <1>1, <1>9, <2>1, PingFollows, ConnectionStep
<1> QED BY <1>2, <1>3, <1>4, <1>5, <1>6, <1>7, <1>8, <1>9

LEMMA AppendEventStep ==
  ASSUME IInv, NEW visible \in BOOLEAN, NEW here \in BOOLEAN, AppendEvent(visible, here)
  PROVE  IInv'
<1>1. PICK b \in 0..Len(log) : Follows(log, conn, b, client.maxSeq) /\ PageFrom(b)
  BY DEF IInv
<1>2. /\ log' = Append(log, visible) /\ Len(log) < MaxSeq
      /\ UNCHANGED <<conn, client, shown, retain, earlier, asked, cut, letGo>>
      /\ unheard' \subseteq unheard \cup {Len(log) + 1}
  BY DEF AppendEvent, history
<1>3. /\ log \in Seq(BOOLEAN) /\ unheard \subseteq DOMAIN log
      /\ ToSet(shown) \subseteq Visible(DOMAIN log)
  BY DEF IInv, Types
<1>4. /\ log' \in Seq(BOOLEAN) /\ Len(log') = Len(log) + 1 /\ Len(log) \in Nat
      /\ DOMAIN log = 1..Len(log) /\ DOMAIN log' = 1..(Len(log) + 1)
      /\ \A s \in DOMAIN log : log'[s] = log[s]
  BY <1>2, <1>3
<1>5. 0..Len(log) \subseteq 0..Len(log') /\ 1..Len(log) \subseteq 1..Len(log')
  BY <1>4
<1>6. Types'
  <2>1. unheard' \subseteq DOMAIN log'
    <3>1. Len(log) + 1 \in DOMAIN log' /\ DOMAIN log \subseteq DOMAIN log'
      BY <1>4
    <3> QED BY <1>2, <1>3, <3>1
  <2>2. ToSet(shown) \subseteq Visible(DOMAIN log)'
    <3>1. DOMAIN log \subseteq DOMAIN log'
      BY <1>4
    <3> QED BY <1>3, <1>4, <3>1 DEF Visible
  <2>3. Len(log') <= MaxSeq
    BY <1>2, <1>4, LimitsAssumption
  <2>4. client' \in [state : {"waiting", "connected", "left"}, maxSeq : 0..Len(log')]
    <3>1. client \in [state : {"waiting", "connected", "left"}, maxSeq : 0..Len(log)]
      BY DEF IInv, Types
    <3>2. 0..Len(log) \subseteq 0..Len(log')
      BY <1>5
    <3> HIDE DEF IInv
    <3> QED BY <1>2, <3>1, <3>2
  <2>5. asked' \subseteq [before : 1..Len(log'), mine : BOOLEAN]
    <3>1. asked \subseteq [before : 1..Len(log), mine : BOOLEAN]
      BY DEF IInv, Types
    <3> QED BY <1>2, <1>5, <3>1
  <2>6. earlier' \in 0..Len(log')
    BY <1>2, <1>5 DEF IInv, Types
  <2>7. /\ shown' \in Seq(Nat) /\ Strictly(shown') /\ Len(shown') <= ClientWindow + retain'
        /\ retain' \in 0..MaxEarlier /\ cut' \in Nat
    BY <1>2 DEF IInv, Types
  <2>8. ToSet(shown)' \subseteq Visible(DOMAIN log)'
    BY <1>2, <2>2
  <2> QED BY <1>4, <2>1, <2>3, <2>4, <2>5, <2>6, <2>7, <2>8 DEF Types
<1>7. b \in Nat /\ b \in 0..Len(log')
  BY <1>4
<1>8. Follows(log', conn', b, client'.maxSeq)
  <2>1. conn \in Conn
    BY <1>1 DEF Follows
  <2>2. Follows(Append(log, visible), conn, b, client.maxSeq)
    BY <1>1, <1>3, <1>7, <2>1, AppendFollows
  <2> QED BY <1>2, <2>2
<1>9. PageFrom(b)'
  <2>1. client.maxSeq <= Len(log) /\ client.maxSeq \in Nat
    BY <1>4 DEF IInv, Types
  <2>2. ASSUME NEW s \in DOMAIN log', b < s, s <= client.maxSeq, log'[s] PROVE Covered(s)'
    <3>1. s \in DOMAIN log
      BY <1>4, <2>1, <2>2
    <3>2. Covered(s)
      BY <1>1, <1>4, <2>2, <3>1 DEF PageFrom
    <3> QED BY <1>2, <3>2 DEF Covered
  <2> QED BY <1>1, <1>2, <2>2 DEF PageFrom
<1> QED BY <1>6, <1>7, <1>8, <1>9 DEF IInv

\* A page that has got nowhere holds and asks for nothing.
LEMMA EmptyPage ==
  ASSUME Types, NEW b \in Nat, PageFrom(b), client.maxSeq = 0
  PROVE  ToSet(shown) = {} /\ earlier = 0 /\ \A q \in asked : ~q.mine
<1>1. /\ ToSet(shown) \subseteq Nat /\ earlier \in Nat
      /\ \A q \in asked : q.before \in Nat
  <2>1. ToSet(shown) \subseteq Nat
    BY FiniteRange DEF Types
  <2>2. \A q \in asked : q.before \in 1..Len(log)
    BY DEF Types
  <2>3. earlier \in 0..Len(log) /\ Len(log) \in Nat
    BY DEF Types
  <2> QED BY <2>1, <2>2, <2>3
<1>2. \A s \in Nat : ~(b < s /\ s <= client.maxSeq)
  OBVIOUS
<1> QED BY <1>1, <1>2 DEF PageFrom

LEMMA ConnectStep ==
  ASSUME IInv, Connect
  PROVE  IInv'
<1>1. PICK b \in 0..Len(log) : Follows(log, conn, b, client.maxSeq) /\ PageFrom(b)
  BY DEF IInv
<1>2. /\ UNCHANGED <<log, unheard, shown, retain, earlier, asked, cut, letGo>>
      /\ client' = [client EXCEPT !.state = "connected"]
  BY DEF Connect, history
<1>3. /\ log \in Seq(BOOLEAN) /\ client.maxSeq \in Nat /\ client.maxSeq <= Len(log)
      /\ client' \in [state : {"waiting", "connected", "left"}, maxSeq : 0..Len(log)]
      /\ client'.maxSeq = client.maxSeq /\ Len(log) \in Nat /\ b \in Nat
  BY <1>2 DEF IInv, Types
<1>4. Types'
  BY <1>2, <1>3, TypesKept DEF IInv
<1>5. CASE client.maxSeq # 0
  <2>1. b <= client.maxSeq /\ Early(Len(log), b)
    BY <1>1, <1>5 DEF PageFrom, Follows
  <2>2. Follows(log, conn', b, client.maxSeq)
    BY <1>3, <1>5, <2>1, ConnectFollows
  <2>3. PageFrom(b)'
    BY <1>1, <1>2, <1>3, PageKept
  <2>4. Follows(log', conn', b, client'.maxSeq) /\ b \in 0..Len(log)'
    BY <1>2, <1>3, <2>2
  <2> QED BY <1>4, <2>3, <2>4 DEF IInv
<1>6. CASE client.maxSeq = 0
  <2>1. PICK e \in 0..Len(log) : e = Monus(Len(log), Window) /\ e \in Nat
    BY <1>3, LimitsAssumption DEF Monus
  <2>2. Follows(log, conn', e, client.maxSeq)
    BY <1>3, <1>6, <2>1, ConnectFollows
  <2>3. ToSet(shown) = {} /\ earlier = 0 /\ \A q \in asked : ~q.mine
    BY <1>1, <1>3, <1>6, EmptyPage DEF IInv
  <2>4. PageFrom(e)'
    <3>1. ~ \E s \in DOMAIN log : e < s /\ s <= client.maxSeq
      BY <1>3, <1>6, <2>1
    <3> QED BY <1>2, <1>3, <1>6, <2>3, <3>1 DEF PageFrom
  <2>5. Follows(log', conn', e, client'.maxSeq) /\ e \in 0..Len(log)'
    BY <1>2, <1>3, <2>1, <2>2
  <2> QED BY <1>4, <2>4, <2>5 DEF IInv
<1> QED BY <1>5, <1>6

LEMMA DisconnectSteps ==
  ASSUME IInv, EndOfStream \/ \E crash \in BOOLEAN : Break(crash)
  PROVE  IInv'
<1>1. PICK b \in 0..Len(log) : Follows(log, conn, b, client.maxSeq) /\ PageFrom(b)
  BY DEF IInv
<1>2. /\ UNCHANGED <<log, shown, retain, earlier, asked, cut, letGo>>
      /\ unheard' \subseteq unheard /\ conn' = NoConnection
      /\ client' = [client EXCEPT !.state = "waiting"]
  <2>1. CASE EndOfStream
    BY <2>1 DEF EndOfStream, history
  <2>2. CASE \E crash \in BOOLEAN : Break(crash)
    BY <2>2 DEF Break, history
  <2> QED BY <2>1, <2>2
<1>3. /\ client' \in [state : {"waiting", "connected", "left"}, maxSeq : 0..Len(log)]
      /\ client'.maxSeq = client.maxSeq /\ b \in Nat /\ log' \in Seq(BOOLEAN)
  BY <1>2 DEF IInv, Types
<1>4. Types'
  BY <1>2, <1>3, TypesKept DEF IInv
<1>5. PageFrom(b)'
  BY <1>1, <1>2, <1>3, PageKept
<1>6. Follows(log', conn', b, client'.maxSeq) /\ b \in 0..Len(log)'
  <2>1. Early(Len(log'), b)
    BY <1>1, <1>2 DEF Follows
  <2> QED BY <1>2, <1>3, <2>1, NoConnectionFollows
<1> QED BY <1>4, <1>5, <1>6 DEF IInv

LEMMA FreshSteps ==
  ASSUME IInv, Leave \/ Resubscribe
  PROVE  IInv'
<1>1. /\ UNCHANGED <<log, unheard>> /\ conn' = NoConnection /\ shown' = <<>> /\ retain' = 0
      /\ earlier' = 0 /\ cut' = 0 /\ client'.maxSeq = 0
      /\ client' \in [state : {"waiting", "connected", "left"}, maxSeq : {0}]
      /\ asked' \subseteq {[q EXCEPT !.mine = FALSE] : q \in asked}
  <2>1. CASE Leave
    BY <2>1 DEF Leave
  <2>2. CASE Resubscribe
    BY <2>2 DEF Resubscribe
  <2> QED BY <2>1, <2>2
<1>2. \A q \in asked' : q \in [before : 1..Len(log), mine : BOOLEAN] /\ ~q.mine
  <2>1. asked \subseteq [before : 1..Len(log), mine : BOOLEAN]
    BY DEF IInv, Types
  <2>2. \A q \in [before : 1..Len(log), mine : BOOLEAN] :
          /\ [q EXCEPT !.mine = FALSE] \in [before : 1..Len(log), mine : BOOLEAN]
          /\ ~[q EXCEPT !.mine = FALSE].mine
    OBVIOUS
  <2> QED BY <1>1, <2>1, <2>2
<1>3. log' \in Seq(BOOLEAN) /\ Len(log) \in Nat
  BY <1>1 DEF IInv, Types
<1>4. Types'
  <2>1. /\ <<>> \in Seq(Nat) /\ Strictly(<<>>) /\ Len(<<>>) = 0 /\ ToSet(<<>>) = {}
    BY DEF Strictly, ToSet
  <2>2. client' \in [state : {"waiting", "connected", "left"}, maxSeq : 0..Len(log')]
    BY <1>1, <1>3
  <2>3. Len(log) <= MaxSeq /\ unheard \subseteq DOMAIN log
    BY DEF IInv, Types
  <2>4. 0 <= ClientWindow + 0 /\ 0 \in 0..MaxEarlier /\ 0 \in 0..Len(log) /\ 0 \in Nat
    BY <1>3, LimitsAssumption
  <2>5. ToSet(shown)' \subseteq Visible(DOMAIN log)'
    BY <1>1, <2>1
  <2> QED BY <1>1, <1>2, <1>3, <2>1, <2>2, <2>3, <2>4, <2>5 DEF Types
<1>5. PageFrom(0)'
  <2>1. ToSet(shown)' = {}
    BY <1>1 DEF ToSet
  <2>2. ~ \E s \in DOMAIN log' : 0 < s /\ s <= client'.maxSeq
    BY <1>1, <1>3
  <2> QED BY <1>1, <1>2, <2>1, <2>2 DEF PageFrom
<1>6. Follows(log', conn', 0, client'.maxSeq) /\ 0 \in 0..Len(log)'
  <2>1. Early(Len(log'), 0)
    BY <1>3, <1>1, LimitsAssumption DEF Early, Monus
  <2> QED BY <1>1, <1>3, <2>1, NoConnectionFollows
<1> QED BY <1>4, <1>5, <1>6 DEF IInv

LEMMA ShowFact ==
  ASSUME NEW xs \in Seq(Nat), NEW kept \in Nat, Strictly(xs), Show(xs, kept)
  PROVE  /\ shown' \in Seq(Nat) /\ Strictly(shown') /\ Len(shown') <= ClientWindow + kept
         /\ ToSet(shown') \subseteq ToSet(xs) /\ letGo \subseteq letGo'
         /\ ToSet(xs) \subseteq ToSet(shown') \cup letGo'
<1>1. shown' = Newest(xs, ClientWindow + kept)
      /\ letGo' = letGo \cup (ToSet(xs) \ ToSet(shown'))
  BY DEF Show
<1>2. ClientWindow + kept \in Nat
  BY LimitsAssumption
<1> QED BY <1>1, <1>2, NewestFact

LEMMA One ==
  ASSUME NEW n \in Nat
  PROVE  <<n>> \in Seq(Nat) /\ Strictly(<<n>>) /\ ToSet(<<n>>) = {n}
<1>1. <<n>> \in Seq(Nat) /\ DOMAIN <<n>> = {1} /\ <<n>>[1] = n
  OBVIOUS
<1> QED BY <1>1 DEF Strictly, ToSet

LEMMA ReceiveStep ==
  ASSUME IInv, Receive
  PROVE  IInv'
<1> DEFINE f == Head(conn.wire)
           m == client.maxSeq
           t == Greatest(m, f.seq)
<1>1. PICK b \in 0..Len(log) : Follows(log, conn, b, m) /\ PageFrom(b)
  BY DEF IInv
<1>2. /\ log \in Seq(BOOLEAN) /\ m \in Nat /\ m <= Len(log) /\ b \in Nat /\ Len(log) \in Nat
      /\ DOMAIN log = 1..Len(log)
      /\ client \in [state : {"waiting", "connected", "left"}, maxSeq : 0..Len(log)]
  BY DEF IInv, Types
<1>3. /\ Follows(log, conn', b, t) /\ f \in Frame /\ f = conn.wire[1]
      /\ 1 \in DOMAIN conn.wire
  BY <1>1, <1>2, ReceiveFollows
<1>4. /\ UNCHANGED <<log, unheard, retain, earlier, asked>>
      /\ client' = [client EXCEPT !.maxSeq = t]
      /\ \/ f.kind = "event" /\ Show(Merge(shown, <<f.seq>>), retain) /\ cut' = cut
         \/ f.kind = "truncated" /\ cut' = Greatest(cut, f.seq) /\ shown' = shown
            /\ letGo' = letGo
  BY DEF Receive, history
<1>5. /\ f.seq \in Nat /\ f.seq <= Len(log) /\ b <= f.seq
      /\ (f.kind = "event" => /\ f.seq \in DOMAIN log /\ log[f.seq] /\ b < f.seq
                              /\ \A s \in DOMAIN log : b < s /\ s < f.seq /\ log[s] => s <= m)
  <2>1. f.seq \in Nat
    BY <1>3 DEF Frame
  <2>2. /\ f.seq <= Len(log)
        /\ (f.kind = "event" => f.seq \in DOMAIN log /\ log[f.seq])
    BY <1>1, <1>3 DEF Follows, Fits
  <2>3. /\ b <= f.seq
        /\ (f.kind = "event" =>
              /\ b < f.seq
              /\ \A s \in DOMAIN log :
                   b < s /\ s < f.seq /\ log[s] => Before(conn.wire, m, 1, s))
    BY <1>1, <1>3 DEF Follows, Gapless
  <2>4. \A s : Before(conn.wire, m, 1, s) => s <= m
    <3>1. conn.wire \in Seq(Frame)
      BY <1>1, ConnFields DEF Follows
    <3>2. \A j \in DOMAIN conn.wire : ~(j < 1)
      BY <3>1
    <3> QED BY <3>2 DEF Before
  <2> QED BY <2>1, <2>2, <2>3, <2>4
<1> HIDE DEF f
<1>6. t \in Nat /\ t \in 0..Len(log) /\ m <= t /\ f.seq <= t /\ (t = m \/ t = f.seq)
  BY <1>2, <1>5 DEF Greatest
<1> HIDE DEF t
<1>7. /\ client' \in [state : {"waiting", "connected", "left"}, maxSeq : 0..Len(log)]
      /\ client'.maxSeq = t
  BY <1>2, <1>4, <1>6
<1>8. /\ shown \in Seq(Nat) /\ Strictly(shown) /\ ToSet(shown) \subseteq Visible(DOMAIN log)
      /\ Len(shown) <= ClientWindow + retain /\ retain \in 0..MaxEarlier
      /\ earlier \in 0..Len(log) /\ cut \in Nat
      /\ asked \subseteq [before : 1..Len(log), mine : BOOLEAN]
      /\ Len(log) <= MaxSeq /\ unheard \subseteq DOMAIN log
  BY DEF IInv, Types
\* What the frame leaves: the page's new sequence, and what is covered now.
<1>9. /\ shown' \in Seq(Nat) /\ Strictly(shown') /\ Len(shown') <= ClientWindow + retain
      /\ ToSet(shown') \subseteq Visible(DOMAIN log) /\ cut' \in Nat
      /\ \A s \in ToSet(shown') : s \in ToSet(shown) \/ (s = f.seq /\ b < s)
      /\ \A s \in Nat : Covered(s) => Covered(s)'
      /\ \A s \in DOMAIN log : b < s /\ m < s /\ s <= t /\ log[s] => Covered(s)'
  <2>1. CASE f.kind = "event" /\ Show(Merge(shown, <<f.seq>>), retain) /\ cut' = cut
    <3> DEFINE xs == Merge(shown, <<f.seq>>)
    <3>1. /\ <<f.seq>> \in Seq(Nat) /\ Strictly(<<f.seq>>) /\ ToSet(<<f.seq>>) = {f.seq}
      BY <1>5, One
    <3>2. xs \in Seq(Nat) /\ Strictly(xs) /\ ToSet(xs) = ToSet(shown) \cup {f.seq}
      BY <1>8, <3>1, MergeFact
    <3> HIDE DEF xs
    <3>3. Show(xs, retain) /\ retain \in Nat
      BY <1>8, <2>1, LimitsAssumption DEF xs
    <3>4. /\ shown' \in Seq(Nat) /\ Strictly(shown') /\ Len(shown') <= ClientWindow + retain
          /\ ToSet(shown') \subseteq ToSet(xs) /\ letGo \subseteq letGo'
          /\ ToSet(xs) \subseteq ToSet(shown') \cup letGo'
      BY <3>2, <3>3, ShowFact
    <3>5. f.seq \in Visible(DOMAIN log) /\ b < f.seq
      BY <1>5, <2>1 DEF Visible
    <3>6. ToSet(shown') \subseteq Visible(DOMAIN log)
      BY <1>8, <3>2, <3>4, <3>5
    <3>7. \A s \in ToSet(shown') : s \in ToSet(shown) \/ (s = f.seq /\ b < s)
      BY <3>2, <3>4, <3>5
    <3>8. \A s \in Nat : Covered(s) => Covered(s)'
      <4> SUFFICES ASSUME NEW s \in Nat, Covered(s) PROVE Covered(s)'
        OBVIOUS
      <4>1. s \in ToSet(shown) => s \in ToSet(shown') \cup letGo'
        BY <3>2, <3>4
      <4>2. s \in letGo => s \in letGo'
        BY <3>4
      <4> QED BY <2>1, <4>1, <4>2 DEF Covered
    <3>9. ASSUME NEW s \in DOMAIN log, b < s, m < s, s <= t, log[s] PROVE Covered(s)'
      <4>1. s \in Nat /\ t = f.seq
        BY <1>2, <1>6, <3>9
      <4>2. s = f.seq
        BY <1>2, <1>5, <2>1, <3>9, <4>1
      <4>3. s \in ToSet(shown') \cup letGo'
        BY <3>2, <3>4, <4>2
      <4> QED BY <4>3 DEF Covered
    <3> QED BY <1>8, <2>1, <3>4, <3>6, <3>7, <3>8, <3>9
  <2>2. CASE /\ f.kind = "truncated" /\ cut' = Greatest(cut, f.seq) /\ shown' = shown
             /\ letGo' = letGo
    <3>1. cut' \in Nat /\ cut <= cut' /\ f.seq <= cut'
      BY <1>5, <1>8, <2>2 DEF Greatest
    <3>2. \A s \in Nat : Covered(s) => Covered(s)'
      <4> SUFFICES ASSUME NEW s \in Nat, Covered(s) PROVE Covered(s)'
        OBVIOUS
      <4>1. s <= cut => s <= cut'
        BY <1>8, <3>1
      <4> QED BY <2>2, <4>1 DEF Covered
    <3>3. ASSUME NEW s \in DOMAIN log, m < s, s <= t PROVE Covered(s)'
      <4>1. s \in Nat /\ t = f.seq
        BY <1>2, <1>6, <3>3
      <4>2. s <= cut'
        BY <1>5, <3>1, <3>3, <4>1
      <4> QED BY <4>2 DEF Covered
    <3> QED BY <1>8, <2>2, <3>1, <3>2, <3>3
  <2> QED BY <1>4, <2>1, <2>2
<1>10. Types'
  <2>1. ToSet(shown)' \subseteq Visible(DOMAIN log)'
    BY <1>4, <1>9 DEF Visible
  <2> QED BY <1>2, <1>4, <1>7, <1>8, <1>9, <2>1 DEF Types
<1>11. PageFrom(b)'
  <2>1. ASSUME NEW s \in DOMAIN log, b < s, s <= t, log[s] PROVE Covered(s)'
    <3>1. s \in Nat
      BY <1>2
    <3>2. CASE s <= m
      <4>1. Covered(s)
        BY <1>1, <2>1, <3>2 DEF PageFrom
      <4> QED BY <1>9, <3>1, <4>1
    <3>3. CASE m < s
      BY <1>9, <2>1, <3>3
    <3> QED BY <1>2, <3>1, <3>2, <3>3
  <2>2. b <= t
    BY <1>2, <1>5, <1>6
  <2>3. \A s \in ToSet(shown') : b < s /\ s <= t
    <3> SUFFICES ASSUME NEW s \in ToSet(shown') PROVE b < s /\ s <= t
      OBVIOUS
    <3>1. s \in Nat
      BY <1>9, FiniteRange
    <3>2. CASE s \in ToSet(shown)
      <4>1. b < s /\ s <= m
        BY <1>1, <3>2 DEF PageFrom
      <4> QED BY <1>2, <1>6, <3>1, <4>1
    <3>3. CASE s = f.seq /\ b < s
      BY <1>6, <3>3
    <3> QED BY <1>9, <3>2, <3>3
  <2>4. earlier # 0 => b < earlier /\ earlier <= t
    <3>1. earlier # 0 => b < earlier /\ earlier <= m
      BY <1>1 DEF PageFrom
    <3>2. earlier \in Nat
      BY <1>2, <1>8
    <3> QED BY <1>2, <1>6, <3>1, <3>2
  <2>5. \A q \in asked : q.mine => b < q.before /\ q.before <= t
    <3> SUFFICES ASSUME NEW q \in asked, q.mine PROVE b < q.before /\ q.before <= t
      OBVIOUS
    <3>1. q.before \in 1..Len(log)
      BY <1>8
    <3>2. b < q.before /\ q.before <= m
      BY <1>1 DEF PageFrom
    <3> QED BY <1>2, <1>6, <3>1, <3>2
  <2> QED BY <1>4, <1>7, <2>1, <2>2, <2>3, <2>4, <2>5 DEF PageFrom
<1>12. Follows(log', conn', b, client'.maxSeq) /\ b \in 0..Len(log)'
  BY <1>3, <1>4, <1>7
<1> QED BY <1>10, <1>11, <1>12 DEF IInv

LEMMA AskEarlierStep ==
  ASSUME IInv, AskEarlier
  PROVE  IInv'
<1> DEFINE oldest == IF shown = <<>> THEN 0 ELSE shown[1]
           before == IF earlier # 0 THEN earlier ELSE oldest
           q == [before |-> before, mine |-> TRUE]
<1>1. PICK b \in 0..Len(log) : Follows(log, conn, b, client.maxSeq) /\ PageFrom(b)
  BY DEF IInv
<1>2. /\ before > 1 /\ asked' = asked \cup {q}
      /\ UNCHANGED <<log, unheard, conn, client, shown, retain, earlier, cut, letGo>>
  BY DEF AskEarlier
<1>3. /\ Len(log) \in Nat /\ log \in Seq(BOOLEAN) /\ earlier \in 0..Len(log) /\ b \in Nat
      /\ client.maxSeq \in 0..Len(log) /\ client.maxSeq \in Nat
      /\ shown \in Seq(Nat)
  BY DEF IInv, Types
<1>4. before \in 1..Len(log) /\ b < before /\ before <= client.maxSeq
  <2>1. CASE earlier # 0
    <3>1. b < earlier /\ earlier <= client.maxSeq /\ before = earlier
      BY <1>1, <2>1 DEF PageFrom
    <3> QED BY <1>3, <2>1, <3>1
  <2>2. CASE earlier = 0
    <3>1. shown # <<>> /\ before = shown[1]
      BY <1>2, <2>2
    <3>2. 1 \in DOMAIN shown /\ shown[1] \in Nat
      BY <1>3, <3>1
    <3>3. b < shown[1] /\ shown[1] <= client.maxSeq
      BY <1>1, <3>2 DEF PageFrom, ToSet
    <3> QED BY <1>3, <3>1, <3>2, <3>3
  <2> QED BY <2>1, <2>2
<1> HIDE DEF before
<1>5. asked' \subseteq [before : 1..Len(log), mine : BOOLEAN]
  <2>1. q \in [before : 1..Len(log), mine : BOOLEAN]
    BY <1>4
  <2>2. asked \subseteq [before : 1..Len(log), mine : BOOLEAN]
    BY DEF IInv, Types
  <2> QED BY <1>2, <2>1, <2>2
<1>6. Types'
  BY <1>2, <1>5 DEF IInv, Types, Visible
<1>7. PageFrom(b)'
  <2>1. \A p \in asked' : p.mine => b < p.before /\ p.before <= client.maxSeq
    <3>1. q.before = before
      OBVIOUS
    <3>2. \A p \in asked : p.mine => b < p.before /\ p.before <= client.maxSeq
      BY <1>1 DEF PageFrom
    <3> HIDE DEF q
    <3> QED BY <1>2, <1>4, <3>1, <3>2
  <2> HIDE DEF q
  <2> QED BY <1>1, <1>2, <2>1 DEF PageFrom, Covered
<1>8. Follows(log', conn', b, client'.maxSeq) /\ b \in 0..Len(log)'
  BY <1>1, <1>2
<1> QED BY <1>6, <1>7, <1>8 DEF IInv

\* A page that covers more than it did asks no more of the connection.
LEMMA FollowsFromBelow ==
  ASSUME NEW l \in Seq(BOOLEAN), NEW c, NEW b \in Nat, NEW e \in Nat, NEW m \in Nat,
         Follows(l, c, b, m), e <= b, b <= m
  PROVE  Follows(l, c, e, m)
<1>1. /\ c \in Conn /\ Fits(l, c) /\ Gapless(l, c.wire, b, m) /\ Len(l) \in Nat
      /\ DOMAIN l \subseteq Nat /\ c.cursor \in Nat /\ c.latest \in Nat /\ c.counted \in Nat
      /\ \A i \in DOMAIN c.wire : c.wire[i].seq \in Nat
  <2>1. c \in Conn /\ Fits(l, c) /\ Gapless(l, c.wire, b, m)
    BY DEF Follows
  <2>2. \A f \in Frame : f.seq \in Nat
    BY DEF Frame
  <2>3. \A i \in DOMAIN c.wire : c.wire[i] \in Frame
    BY <2>1, ConnFields
  <2> QED BY <2>1, <2>2, <2>3, ConnFields
<1>2. ASSUME NEW s \in Nat, ~(b < s) PROVE \A i : Before(c.wire, m, i, s)
  <2>1. s <= m
    BY <1>2
  <2> QED BY <2>1 DEF Before
<1>3. Gapless(l, c.wire, e, m)
  <2> SUFFICES ASSUME NEW i \in DOMAIN c.wire
               PROVE  /\ e <= c.wire[i].seq
                      /\ c.wire[i].kind = "event" =>
                            /\ e < c.wire[i].seq
                            /\ \A s \in DOMAIN l :
                                 e < s /\ s < c.wire[i].seq /\ l[s] => Before(c.wire, m, i, s)
    BY DEF Gapless
  <2>1. e <= c.wire[i].seq
    BY <1>1 DEF Gapless
  <2>2. c.wire[i].kind = "event" => e < c.wire[i].seq
    BY <1>1 DEF Gapless
  <2>3. ASSUME c.wire[i].kind = "event", NEW s \in DOMAIN l, s < c.wire[i].seq, l[s]
        PROVE  Before(c.wire, m, i, s)
    BY <1>1, <1>2, <2>3 DEF Gapless
  <2> QED BY <2>1, <2>2, <2>3
<1>4. ASSUME Reaches(l, c.wire, b, m, c.cursor) PROVE Reaches(l, c.wire, e, m, c.cursor)
  <2>1. e <= c.cursor
    BY <1>1, <1>4 DEF Reaches
  <2>2. \A s \in DOMAIN l : s <= c.cursor /\ l[s] => Before(c.wire, m, Len(c.wire) + 1, s)
    BY <1>1, <1>2, <1>4 DEF Reaches
  <2> QED BY <2>1, <2>2 DEF Reaches
<1>5. \A n : Early(n, b) /\ Monus(n, Window) \in Nat => Early(n, e)
  BY DEF Early
<1>6. \A n \in Nat : Monus(n, Window) \in Nat
  BY LimitsAssumption DEF Monus
<1>7. Early(Len(l), e)
  BY <1>1, <1>5, <1>6 DEF Follows
<1>8. ASSUME Goes(c, b) PROVE Goes(c, e)
  BY <1>1, <1>5, <1>6, <1>8 DEF Goes
<1> QED BY <1>1, <1>3, <1>4, <1>7, <1>8 DEF Follows, Served

\* An answer extends the page downwards: it has every event from its lower end x
\* up to the request's, which the page covered already.
LEMMA AnswerEarlierStep ==
  ASSUME IInv, NEW q \in asked, AnswerEarlier(q)
  PROVE  IInv'
<1> DEFINE m == client.maxSeq
           events == Backward(q.before).events
           next == Backward(q.before).next
           merged == Merge(events, shown)
<1>1. PICK b \in 0..Len(log) : Follows(log, conn, b, m) /\ PageFrom(b)
  BY DEF IInv
<1>2. /\ q.mine /\ asked' = asked \ {q} /\ earlier' = next
      /\ \/ events = <<>> /\ UNCHANGED <<shown, letGo, retain>>
         \/ /\ events # <<>>
            /\ retain' = retain \/ retain' = Least(MaxEarlier, retain + Len(events))
            /\ Show(merged, retain')
      /\ UNCHANGED <<log, unheard, conn, client, cut>>
  BY DEF AnswerEarlier
<1>3. /\ log \in Seq(BOOLEAN) /\ Len(log) \in Nat /\ DOMAIN log = 1..Len(log)
      /\ m \in Nat /\ m <= Len(log) /\ b \in Nat
      /\ shown \in Seq(Nat) /\ Strictly(shown) /\ ToSet(shown) \subseteq Visible(DOMAIN log)
      /\ Len(shown) <= ClientWindow + retain /\ retain \in 0..MaxEarlier /\ cut \in Nat
      /\ asked \subseteq [before : 1..Len(log), mine : BOOLEAN]
      /\ Len(log) <= MaxSeq /\ unheard \subseteq DOMAIN log
      /\ client \in [state : {"waiting", "connected", "left"}, maxSeq : 0..Len(log)]
  BY DEF IInv, Types
<1>4. /\ q.before \in Nat /\ q.before # 0 /\ q.before <= Len(log)
      /\ b < q.before /\ q.before <= m
  <2>1. q.before \in 1..Len(log)
    BY <1>3
  <2>2. b < q.before /\ q.before <= m
    BY <1>1, <1>2 DEF PageFrom
  <2> QED BY <1>3, <2>1, <2>2
<1>5. /\ events \in Seq(Nat) /\ Strictly(events)
      /\ \A s \in ToSet(events) : 0 < s /\ s < q.before /\ log[s]
      /\ events # <<>> =>
           /\ next \in {0, events[1]}
           /\ \A s \in Nat : events[1] <= s /\ s < q.before /\ log[s] => s \in ToSet(events)
      /\ events = <<>> =>
           \/ next = 0
           \/ /\ next \in 1..q.before
              /\ \A s \in Nat : next <= s /\ s < q.before => ~log[s]
  BY <1>4, BackwardFact
<1> HIDE DEF events, next
<1>6. PICK x \in 1..q.before :
        /\ next \in {0, x}
        /\ \A s \in ToSet(events) : x <= s
        /\ \A s \in Nat : x <= s /\ s < q.before /\ log[s] => s \in ToSet(events)
  <2>1. CASE events # <<>>
    <3>1. /\ 1 \in DOMAIN events /\ events[1] \in ToSet(events) /\ events[1] \in Nat
          /\ DOMAIN events = 1..Len(events) /\ \A i \in DOMAIN events : events[i] \in Nat
      <4>1. 1 \in DOMAIN events
        BY <1>5, <2>1
      <4> QED BY <1>5, <4>1 DEF ToSet
    <3>2. events[1] \in 1..q.before
      BY <1>4, <1>5, <3>1
    <3>3. ASSUME NEW i \in DOMAIN events PROVE events[1] <= events[i]
      <4>1. i = 1 \/ 1 < i
        BY <1>5, <3>1
      <4>2. 1 < i => events[1] < events[i]
        BY <1>5, <3>1 DEF Strictly
      <4> QED BY <3>1, <4>1, <4>2
    <3>4. \A s \in ToSet(events) : events[1] <= s
      BY <3>3 DEF ToSet
    <3> QED BY <1>5, <2>1, <3>2, <3>4
  <2>2. CASE events = <<>> /\ next # 0
    <3>1. ToSet(events) = {}
      BY <2>2 DEF ToSet
    <3> QED BY <1>5, <2>2, <3>1
  <2>3. CASE events = <<>> /\ next = 0
    <3>1. ToSet(events) = {}
      BY <2>3 DEF ToSet
    <3>2. q.before \in 1..q.before /\ \A s \in Nat : ~(q.before <= s /\ s < q.before)
      BY <1>4
    <3> QED BY <2>3, <3>1, <3>2
  <2> QED BY <2>1, <2>2, <2>3
<1>7. PICK e \in 0..Len(log) : /\ e <= b /\ e < x /\ (e = b \/ e = x - 1) /\ e \in Nat
  <2>1. x \in Nat /\ x # 0 /\ x <= Len(log)
    BY <1>3, <1>4
  <2>2. CASE b < x
    BY <1>3, <2>1, <2>2
  <2>3. CASE ~(b < x)
    <3>1. x - 1 \in 0..Len(log) /\ x - 1 <= b /\ x - 1 < x
      BY <1>3, <2>1, <2>3
    <3> QED BY <3>1
  <2> QED BY <2>2, <2>3
\* What the answer leaves.
<1>8. /\ shown' \in Seq(Nat) /\ Strictly(shown') /\ Len(shown') <= ClientWindow + retain'
      /\ retain' \in 0..MaxEarlier
      /\ ToSet(shown') \subseteq ToSet(shown) \cup ToSet(events)
      /\ ToSet(shown) \cup ToSet(events) \subseteq ToSet(shown') \cup letGo'
      /\ letGo \subseteq letGo'
  <2>1. CASE events = <<>> /\ UNCHANGED <<shown, letGo, retain>>
    <3>1. ToSet(events) = {}
      BY <2>1 DEF ToSet
    <3> QED BY <1>3, <2>1, <3>1
  <2>2. CASE /\ events # <<>>
             /\ retain' = retain \/ retain' = Least(MaxEarlier, retain + Len(events))
             /\ Show(merged, retain')
    <3>1. retain' \in 0..MaxEarlier /\ retain' \in Nat
      <4>1. Len(events) \in Nat /\ retain \in Nat /\ MaxEarlier \in Nat /\ retain <= MaxEarlier
        BY <1>3, <1>5, LimitsAssumption
      <4>2. Least(MaxEarlier, retain + Len(events)) \in 0..MaxEarlier
        BY <4>1 DEF Least
      <4> QED BY <2>2, <4>1, <4>2
    <3>2. /\ merged \in Seq(Nat) /\ Strictly(merged)
          /\ ToSet(merged) = ToSet(events) \cup ToSet(shown)
      BY <1>3, <1>5, MergeFact
    <3>3. PICK xs \in Seq(Nat) : xs = merged
      BY <3>2
    <3>4. PICK kept \in Nat : kept = retain'
      BY <3>1
    <3>5. Strictly(xs) /\ Show(xs, kept) /\ ToSet(xs) = ToSet(events) \cup ToSet(shown)
      BY <2>2, <3>2, <3>3, <3>4
    <3>6. /\ shown' \in Seq(Nat) /\ Strictly(shown') /\ Len(shown') <= ClientWindow + kept
          /\ ToSet(shown') \subseteq ToSet(xs) /\ letGo \subseteq letGo'
          /\ ToSet(xs) \subseteq ToSet(shown') \cup letGo'
      BY <3>5, ShowFact
    <3> QED BY <3>1, <3>4, <3>5, <3>6
  <2> QED BY <1>2, <2>1, <2>2
<1>9. \A s \in ToSet(events) : s \in Visible(DOMAIN log) /\ s \in Nat
  <2> SUFFICES ASSUME NEW s \in ToSet(events) PROVE s \in Visible(DOMAIN log) /\ s \in Nat
    OBVIOUS
  <2>1. s \in Nat
    BY <1>5, FiniteRange
  <2>2. s \in 1..Len(log) /\ log[s]
    BY <1>3, <1>4, <1>5, <2>1
  <2> QED BY <1>3, <2>1, <2>2 DEF Visible
<1>10. earlier' \in 0..Len(log) /\ (earlier' # 0 => e < earlier' /\ earlier' <= m)
  <2>1. x \in Nat /\ x <= Len(log) /\ x <= m
    BY <1>3, <1>4
  <2>2. earlier' = 0 \/ earlier' = x
    BY <1>2, <1>6
  <2> QED BY <1>3, <1>7, <2>1, <2>2
<1>11. Types'
  <2>1. ToSet(shown)' \subseteq Visible(DOMAIN log)'
    BY <1>2, <1>3, <1>8, <1>9 DEF Visible
  <2> QED BY <1>2, <1>3, <1>8, <1>10, <2>1 DEF Types
<1>12. PageFrom(e)'
  <2>1. \A s \in Nat : Covered(s) => Covered(s)'
    <3> SUFFICES ASSUME NEW s \in Nat, Covered(s) PROVE Covered(s)'
      OBVIOUS
    <3>1. s \in ToSet(shown) => s \in ToSet(shown') \cup letGo'
      BY <1>8
    <3>2. s \in letGo => s \in letGo'
      BY <1>8
    <3> QED BY <1>2, <3>1, <3>2 DEF Covered
  <2>2. ASSUME NEW s \in DOMAIN log, e < s, s <= m, log[s] PROVE Covered(s)'
    <3>1. s \in Nat
      BY <1>3
    <3>2. CASE b < s
      <4>1. Covered(s)
        BY <1>1, <2>2, <3>2 DEF PageFrom
      <4> QED BY <2>1, <3>1, <4>1
    <3>3. CASE ~(b < s)
      <4>1. x <= s /\ s < q.before
        BY <1>3, <1>4, <1>7, <2>2, <3>1, <3>3
      <4>2. s \in ToSet(shown') \cup letGo'
        BY <1>6, <1>8, <2>2, <3>1, <4>1
      <4> QED BY <4>2 DEF Covered
    <3> QED BY <3>2, <3>3
  <2>3. e <= m
    BY <1>3, <1>4, <1>7
  <2>4. \A s \in ToSet(shown') : e < s /\ s <= m
    <3> SUFFICES ASSUME NEW s \in ToSet(shown') PROVE e < s /\ s <= m
      OBVIOUS
    <3>1. s \in Nat
      BY <1>8, FiniteRange
    <3>2. CASE s \in ToSet(shown)
      <4>1. b < s /\ s <= m
        BY <1>1, <3>2 DEF PageFrom
      <4> QED BY <1>3, <1>7, <3>1, <4>1
    <3>3. CASE s \in ToSet(events)
      <4>1. x <= s /\ s < q.before
        BY <1>5, <1>6, <3>3
      <4> QED BY <1>3, <1>4, <1>7, <3>1, <4>1
    <3> QED BY <1>8, <3>2, <3>3
  <2>5. \A p \in asked' : p.mine => e < p.before /\ p.before <= m
    <3> SUFFICES ASSUME NEW p \in asked, p.mine PROVE e < p.before /\ p.before <= m
      BY <1>2
    <3>1. p.before \in 1..Len(log)
      BY <1>3
    <3>2. b < p.before /\ p.before <= m
      BY <1>1 DEF PageFrom
    <3> QED BY <1>3, <1>7, <3>1, <3>2
  <2> QED BY <1>2, <1>10, <2>2, <2>3, <2>4, <2>5 DEF PageFrom
<1>13. Follows(log', conn', e, client'.maxSeq) /\ e \in 0..Len(log)'
  <2>1. b <= m
    BY <1>3, <1>4
  <2>2. Follows(log, conn, e, m)
    BY <1>1, <1>3, <1>7, <2>1, FollowsFromBelow
  <2> QED BY <1>2, <2>2
<1> QED BY <1>11, <1>12, <1>13 DEF IInv

LEMMA DropEarlierStep ==
  ASSUME IInv, NEW q \in asked, DropEarlier(q)
  PROVE  IInv'
<1>1. PICK b \in 0..Len(log) : Follows(log, conn, b, client.maxSeq) /\ PageFrom(b)
  BY DEF IInv
<1>2. /\ UNCHANGED <<log, conn, shown, retain, earlier, cut, letGo>>
      /\ client' = client /\ unheard' = unheard /\ asked' \subseteq asked
  BY DEF DropEarlier
<1>3. client' \in [state : {"waiting", "connected", "left"}, maxSeq : 0..Len(log)]
      /\ b \in Nat
  BY <1>2 DEF IInv, Types
<1>4. Types'
  BY <1>2, <1>3, TypesKept DEF IInv
<1>5. PageFrom(b)'
  BY <1>1, <1>2, <1>3, PageKept
<1>6. Follows(log', conn', b, client'.maxSeq) /\ b \in 0..Len(log)'
  BY <1>1, <1>2
<1> QED BY <1>4, <1>5, <1>6 DEF IInv

LEMMA InitInv == Init => IInv
<1> SUFFICES ASSUME Init PROVE IInv
  OBVIOUS
<1>1. /\ log = <<>> /\ unheard = {} /\ conn = NoConnection /\ shown = <<>> /\ retain = 0
      /\ client = [state |-> "waiting", maxSeq |-> 0] /\ earlier = 0 /\ asked = {} /\ cut = 0
  BY DEF Init
<1>2. /\ <<>> \in Seq(BOOLEAN) /\ Len(<<>>) = 0 /\ DOMAIN <<>> = {} /\ <<>> \in Seq(Nat)
      /\ Strictly(<<>>) /\ ToSet(<<>>) = {}
  BY DEF Strictly, ToSet
<1>3. Types
  <2>1. 0 <= MaxSeq /\ 0 <= ClientWindow + 0 /\ 0 \in 0..MaxEarlier /\ 0 \in 0..0 /\ 0 \in Nat
    BY LimitsAssumption
  <2> QED BY <1>1, <1>2, <2>1 DEF Types
<1>4. PageFrom(0)
  BY <1>1, <1>2 DEF PageFrom
<1>5. Follows(log, conn, 0, client.maxSeq)
  <2>1. Early(Len(<<>>), 0)
    BY <1>2, LimitsAssumption DEF Early, Monus
  <2> QED BY <1>1, <1>2, <2>1, NoConnectionFollows
<1>6. 0 \in 0..Len(log)
  BY <1>1, <1>2
<1> QED BY <1>3, <1>4, <1>5, <1>6 DEF IInv

LEMMA NextInv == IInv /\ [Next]_vars => IInv'
<1> SUFFICES ASSUME IInv, [Next]_vars PROVE IInv'
  OBVIOUS
<1>1. CASE UNCHANGED vars
  <2>1. /\ UNCHANGED <<log, client, shown, history, cut, letGo>> /\ unheard' \subseteq unheard
        /\ conn' = conn
    BY <1>1 DEF vars, history
  <2> QED BY <2>1, ConnectionStep
<1>2. ASSUME NEW visible \in BOOLEAN, NEW here \in BOOLEAN, AppendEvent(visible, here)
      PROVE  IInv'
  BY <1>2, AppendEventStep
<1>3. CASE \/ \E s \in unheard : Publish(s)
           \/ ReadPage \/ ReplayPage \/ CutReplay \/ ReplayTail \/ CutAndClose
           \/ Unblock \/ Ping
  BY <1>3, ConnectionSteps
<1>4. CASE Connect
  BY <1>4, ConnectStep
<1>5. CASE EndOfStream \/ \E crash \in BOOLEAN : Break(crash)
  BY <1>5, DisconnectSteps
<1>6. CASE Leave \/ Resubscribe
  BY <1>6, FreshSteps
<1>7. CASE Receive
  BY <1>7, ReceiveStep
<1>8. CASE AskEarlier
  BY <1>8, AskEarlierStep
<1>9. ASSUME NEW q \in asked, AnswerEarlier(q) \/ DropEarlier(q) PROVE IInv'
  BY <1>9, AnswerEarlierStep, DropEarlierStep
<1> QED BY <1>1, <1>2, <1>3, <1>4, <1>5, <1>6, <1>7, <1>8, <1>9 DEF Next

\* IInv holds in every state, whatever is appended, published, sent, lost or asked.
THEOREM Invariance == Spec => []IInv
<1> QED BY InitInv, NextInv, PTL DEF Spec

-----------------------------------------------------------------------------
(* What follows from it.                                                   *)

LEMMA InvTypes == IInv => TypeOK
<1> SUFFICES ASSUME IInv PROVE TypeOK
  OBVIOUS
<1>1. Types
  BY DEF IInv
<1>2. PICK b \in 0..Len(log) : Follows(log, conn, b, client.maxSeq) /\ PageFrom(b)
  BY DEF IInv
<1>3. conn \in Conn /\ Fits(log, conn)
  BY <1>2 DEF Follows
<1>4. log \in BoundedSeq(BOOLEAN, MaxSeq)
  <2>1. log \in [1..Len(log) -> BOOLEAN] /\ Len(log) \in 0..MaxSeq
    <3>1. MaxSeq \in Nat
      BY LimitsAssumption
    <3>2. log \in Seq(BOOLEAN) /\ Len(log) <= MaxSeq
      BY <1>1 DEF Types
    <3> QED BY <3>1, <3>2
  <2> QED BY <2>1 DEF BoundedSeq, SeqOf
<1>5. /\ conn.cursor \in 0..Len(log) /\ conn.counted \in 0..Budget
      /\ conn.bytes \in 0..BudgetBytes
      /\ conn.state \in {"none", "open", "ended"}
      /\ conn.pc \in {"idle", "page", "cut", "tail"}
  <2>1. /\ conn.cursor \in Nat /\ conn.counted \in Nat /\ Len(log) \in Nat /\ Budget \in Nat
        /\ conn.bytes \in Nat /\ BudgetBytes \in Nat
    BY <1>1, <1>3, ConnFields, LimitsAssumption DEF Types
  <2>2. /\ conn.cursor <= Len(log) /\ conn.counted <= Budget
        /\ conn.bytes <= BudgetBytes
    BY <1>3 DEF Fits
  <2>3. /\ conn.state \in {"none", "open", "ended"}
        /\ conn.pc \in {"idle", "page", "cut", "tail"}
    BY <1>3 DEF Conn
  <2> QED BY <2>1, <2>2, <2>3
<1>6. /\ conn.pending \subseteq (conn.cursor + 1)..Len(log)
      /\ Cardinality(conn.pending) <= MaxPending
  BY <1>3 DEF Fits
<1>7. ToSet(conn.page) \subseteq DOMAIN log
  BY <1>3 DEF Fits, ToSet
<1>8. \A i \in DOMAIN conn.wire :
        \/ conn.wire[i].kind = "event" /\ conn.wire[i].seq \in Visible(DOMAIN log)
        \/ conn.wire[i].kind = "truncated" /\ conn.wire[i].seq \in 0..Len(log)
  <2> SUFFICES ASSUME NEW i \in DOMAIN conn.wire
               PROVE  \/ /\ conn.wire[i].kind = "event"
                         /\ conn.wire[i].seq \in Visible(DOMAIN log)
                      \/ /\ conn.wire[i].kind = "truncated"
                         /\ conn.wire[i].seq \in 0..Len(log)
    OBVIOUS
  <2>1. conn.wire[i] \in Frame
    BY <1>3, ConnFields
  <2>2. conn.wire[i].kind \in {"event", "truncated"} /\ conn.wire[i].seq \in Nat
    BY <2>1 DEF Frame
  <2>3. /\ conn.wire[i].seq <= Len(log)
        /\ conn.wire[i].kind = "event" =>
              conn.wire[i].seq \in DOMAIN log /\ log[conn.wire[i].seq]
    BY <1>3 DEF Fits
  <2>4. Len(log) \in Nat
    BY <1>1 DEF Types
  <2> QED BY <2>2, <2>3, <2>4 DEF Visible
<1>9. client.state \in {"waiting", "connected", "left"} /\ client.maxSeq \in 0..Len(log)
  BY <1>1 DEF Types
<1> QED BY <1>1, <1>4, <1>5, <1>6, <1>7, <1>8, <1>9 DEF TypeOK, Types

LEMMA InvNothingSkipped == IInv => NothingSkipped
<1> SUFFICES ASSUME IInv PROVE NothingSkipped
  OBVIOUS
<1>1. PICK b \in 0..Len(log) : PageFrom(b)
  BY DEF IInv
<1>2. /\ shown \in Seq(Nat) /\ Strictly(shown) /\ log \in Seq(BOOLEAN)
      /\ client.maxSeq \in Nat /\ client.maxSeq <= Len(log) /\ b \in Nat /\ Len(log) \in Nat
      /\ DOMAIN shown = 1..Len(shown) /\ Len(shown) \in Nat /\ DOMAIN log = 1..Len(log)
  BY DEF IInv, Types
<1>3. ASSUME NEW i \in 1..(Len(shown) - 1) PROVE shown[i] < shown[i + 1]
  <2>1. i \in DOMAIN shown /\ i + 1 \in DOMAIN shown /\ i < i + 1
    BY <1>2
  <2> QED BY <1>2, <2>1 DEF Strictly
<1>4. ASSUME shown # <<>>, NEW s \in Visible(shown[1]..shown[Len(shown)]) PROVE Covered(s)
  <2>1. 1 \in DOMAIN shown /\ Len(shown) \in DOMAIN shown
    BY <1>2, <1>4
  <2>2. shown[1] \in Nat /\ shown[Len(shown)] \in Nat
    BY <1>2, <2>1
  <2>3. b < shown[1] /\ shown[Len(shown)] <= client.maxSeq
    BY <1>1, <2>1 DEF PageFrom, ToSet
  <2>4. s \in shown[1]..shown[Len(shown)] /\ log[s]
    BY DEF Visible
  <2>5. s \in DOMAIN log /\ b < s /\ s <= client.maxSeq
    BY <1>2, <2>2, <2>3, <2>4
  <2> QED BY <1>1, <2>4, <2>5 DEF PageFrom
<1> QED BY <1>3, <1>4 DEF NothingSkipped, Covered

\* The cursor of the connection (handleSessionEventsSse) stays within the log, its
\* buffer ahead of the cursor and within the cap, its frames are rows of the log;
\* the page (useSessionStream) holds visible events and no more than its window.
THEOREM TypeCorrect == Spec => []TypeOK
<1> QED BY Invariance, InvTypes, PTL

\* The page shows the events in the order of the log, each once, and misses none
\* between two of them but those a truncation announced or its window let go.
THEOREM NothingLost == Spec => []NothingSkipped
<1> QED BY Invariance, InvNothingSkipped, PTL
=============================================================================
