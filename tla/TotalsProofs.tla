----------------------------- MODULE TotalsProofs -----------------------------
(***************************************************************************)
(* What Total computes, for every number of amounts, and what sums over a   *)
(* finite set are: the facts about sums that the invariants of the ledgers  *)
(* and of the realized costs rest on. Induction over the length or the size *)
(* of the sum is carried out on the least counterexample, with the          *)
(* well-foundedness of < on Nat.                                            *)
(***************************************************************************)
EXTENDS Totals, Functions, FiniteSetTheorems, WellFoundedInduction, TLAPS

(* s lists the partial sums of c: s[i] = c[1] + ... + c[i]. *)
PartialSums(s, c, n) ==
  /\ s \in [0..n -> Nat]
  /\ s[0] = 0
  /\ \A i \in 1..n : s[i] = s[i - 1] + c[i]

(* A nonempty set of natural numbers has a least element. *)
LEMMA LeastElement ==
  ASSUME NEW T \in SUBSET Nat, T # {}
  PROVE  \E m \in T : \A k \in T : m <= k
<1>1. PICK m \in T : \A k \in T : ~(<<k, m>> \in OpToRel(<, Nat))
  BY NatLessThanWellFounded, WFMin, Zenon
<1>2. ASSUME NEW k \in T PROVE m <= k
  <2>1. ~(k < m)
    BY <1>1 DEF OpToRel
  <2>. QED BY <2>1
<1>. QED BY <1>2

(* The partial sums of natural numbers exist, however many there are. *)
LEMMA PartialSumsExist ==
  ASSUME NEW n \in Nat, NEW c \in [1..n -> Nat]
  PROVE  \E s : PartialSums(s, c, n)
<1> DEFINE T == {k \in 0..n : ~ \E s : PartialSums(s, c, k)}
<1>0. T \in SUBSET Nat
  OBVIOUS
<1>1. SUFFICES ASSUME T # {} PROVE FALSE
  <2>1. n \in 0..n
    OBVIOUS
  <2>. QED BY <2>1, Zenon
<1>2. PICK m \in T : \A k \in T : m <= k
  <2> HIDE DEF T
  <2>. QED BY <1>0, <1>1, LeastElement
<1>3. CASE m = 0
  <2>1. PartialSums([i \in 0..0 |-> 0], c, 0)
    BY DEF PartialSums
  <2>. QED BY <1>2, <1>3, <2>1
<1>4. CASE m # 0
  <2>1. m - 1 \in 0..n /\ m - 1 \notin T
    BY <1>2, <1>4
  <2>2. PICK s : PartialSums(s, c, m - 1)
    BY <2>1
  <2> DEFINE t == [i \in 0..m |-> IF i = m THEN s[m - 1] + c[m] ELSE s[i]]
  <2>3. m \in Nat \ {0} /\ m <= n
    BY <1>2, <1>4
  <2>4. /\ s \in [0..m - 1 -> Nat] /\ s[0] = 0
        /\ \A i \in 1..m - 1 : s[i] = s[i - 1] + c[i]
    BY <2>2 DEF PartialSums
  <2>5. t \in [0..m -> Nat]
    BY <2>3, <2>4
  <2>6. t[0] = 0
    BY <2>3, <2>4
  <2>7. ASSUME NEW i \in 1..m PROVE t[i] = t[i - 1] + c[i]
    BY <2>3, <2>4
  <2>8. PartialSums(t, c, m)
    BY <2>5, <2>6, <2>7 DEF PartialSums
  <2>. QED BY <1>2, <2>8
<1>. QED BY <1>3, <1>4

(* Total is the last partial sum. *)
LEMMA TotalIsLast ==
  ASSUME NEW n \in Nat, NEW c \in [1..n -> Nat], NEW s, PartialSums(s, c, n)
  PROVE  Total(c, n) = s[n]
<1> DEFINE Def(g) == g = [i \in 0..n |-> IF i = 0 THEN 0 ELSE g[i - 1] + c[i]]
           f == CHOOSE g : Def(g)
<1>1. Def(s)
  BY DEF PartialSums
<1>2. Def(f)
  BY <1>1
<1> DEFINE T == {k \in 0..n : f[k] # s[k]}
<1>3. T = {}
  <2> HIDE DEF f
  <2>1. SUFFICES ASSUME T # {} PROVE FALSE
    OBVIOUS
  <2>0. T \in SUBSET Nat
    OBVIOUS
  <2>2. PICK m \in T : \A k \in T : m <= k
    <3> HIDE DEF T
    <3>. QED BY <2>0, <2>1, LeastElement
  <2>3. m # 0
    BY <1>2, <2>2 DEF PartialSums
  <2>4. f[m - 1] = s[m - 1]
    BY <2>2, <2>3
  <2>. QED BY <1>2, <2>2, <2>3, <2>4 DEF PartialSums
<1>4. Total(c, n) = f[n]
  BY DEF Total
<1>. QED BY <1>3, <1>4

(* The partial sums never decrease. *)
LEMMA PartialSumsMonotone ==
  ASSUME NEW n \in Nat, NEW c \in [1..n -> Nat], NEW s, PartialSums(s, c, n),
         NEW i \in 0..n, NEW j \in i..n
  PROVE  s[i] <= s[j]
<1> DEFINE T == {k \in i..n : ~(s[i] <= s[k])}
<1>1. SUFFICES ASSUME T # {} PROVE FALSE
  OBVIOUS
<1>2. T \in SUBSET Nat
  OBVIOUS
<1>3. PICK m \in T : \A k \in T : m <= k
  <2> HIDE DEF T
  <2>. QED BY <1>1, <1>2, LeastElement
<1>4. m # i
  BY DEF PartialSums
<1>5. m - 1 \in i..n /\ m - 1 \notin T
  BY <1>3, <1>4
<1>6. s[i] <= s[m - 1]
  BY <1>5
<1>. QED BY <1>4, <1>5, <1>6 DEF PartialSums

(* A total of natural numbers is one, and no less than any of its terms. *)
LEMMA TotalBounds ==
  ASSUME NEW n \in Nat, NEW c \in [1..n -> Nat]
  PROVE  /\ Total(c, n) \in Nat
         /\ \A i \in 1..n : c[i] <= Total(c, n)
<1>1. PICK s : PartialSums(s, c, n)
  BY PartialSumsExist
<1>2. Total(c, n) = s[n]
  BY <1>1, TotalIsLast
<1>3. s[n] \in Nat
  BY <1>1 DEF PartialSums
<1>4. ASSUME NEW i \in 1..n PROVE c[i] <= s[n]
  <2>1. s[i] = s[i - 1] + c[i] /\ s[i - 1] \in Nat /\ s[i] \in Nat /\ c[i] \in Nat
    BY <1>1 DEF PartialSums
  <2>2. s[i] <= s[n]
    BY <1>1, PartialSumsMonotone
  <2>. QED BY <1>3, <2>1, <2>2
<1>. QED BY <1>2, <1>3, <1>4

(* Replacing one term changes the total by the difference. *)
LEMMA TotalReplace ==
  ASSUME NEW n \in Nat, NEW c \in [1..n -> Nat], NEW k \in 1..n, NEW v \in Nat
  PROVE  Total([c EXCEPT ![k] = v], n) = Total(c, n) - c[k] + v
<1> DEFINE d == [c EXCEPT ![k] = v]
<1>1. PICK s : PartialSums(s, c, n)
  BY PartialSumsExist
<1> DEFINE t == [i \in 0..n |-> IF i < k THEN s[i] ELSE s[i] - c[k] + v]
<1>2. /\ s \in [0..n -> Nat] /\ s[0] = 0
      /\ \A i \in 1..n : s[i] = s[i - 1] + c[i]
  BY <1>1 DEF PartialSums
<1>3. ASSUME NEW i \in k..n PROVE s[i] - c[k] \in Nat
  <2>1. s[k] = s[k - 1] + c[k] /\ s[k - 1] \in Nat /\ c[k] \in Nat /\ s[i] \in Nat
    BY <1>2
  <2>2. s[k] <= s[i]
    BY <1>1, PartialSumsMonotone
  <2>. QED BY <2>1, <2>2, SMTT(40)
<1>4. t \in [0..n -> Nat]
  <2>1. ASSUME NEW i \in 0..n PROVE t[i] \in Nat
    <3>1. CASE i < k  BY <1>2, <3>1
    <3>2. CASE ~(i < k)
      <4>1. i \in k..n
        BY <3>2
      <4>2. s[i] - c[k] \in Nat
        BY <1>3, <4>1
      <4>. QED BY <3>2, <4>2
    <3>. QED BY <3>1, <3>2
  <2>. QED BY <2>1
<1>5. t[0] = 0
  BY <1>2
<1>6. ASSUME NEW i \in 1..n PROVE t[i] = t[i - 1] + d[i]
  <2>1. /\ i \in 0..n /\ i - 1 \in 0..n
        /\ s[i] = s[i - 1] + c[i] /\ s[i] \in Nat /\ s[i - 1] \in Nat
        /\ c[i] \in Nat /\ c[k] \in Nat
    BY <1>2
  <2>2. d[i] = IF i = k THEN v ELSE c[i]
    OBVIOUS
  <2>3. /\ t[i] = IF i < k THEN s[i] ELSE s[i] - c[k] + v
        /\ t[i - 1] = IF i - 1 < k THEN s[i - 1] ELSE s[i - 1] - c[k] + v
    BY <2>1
  <2> HIDE DEF t, d
  <2>4. CASE i < k  BY <2>1, <2>2, <2>3, <2>4
  <2>5. CASE i = k  BY <2>1, <2>2, <2>3, <2>5
  <2>6. CASE i > k  BY <2>1, <2>2, <2>3, <2>6
  <2>. QED BY <2>4, <2>5, <2>6
<1>7. d \in [1..n -> Nat]
  OBVIOUS
<1>8. PartialSums(t, d, n)
  BY <1>4, <1>5, <1>6 DEF PartialSums
<1>9. Total(d, n) = t[n] /\ Total(c, n) = s[n]
  <2> HIDE DEF d, t
  <2>. QED BY <1>1, <1>7, <1>8, TotalIsLast
<1>. QED BY <1>2, <1>9

(* One more term is added. *)
LEMMA TotalExtend ==
  ASSUME NEW n \in Nat, NEW c \in [1..n -> Nat], NEW d \in [1..n + 1 -> Nat],
         \A i \in 1..n : d[i] = c[i]
  PROVE  Total(d, n + 1) = Total(c, n) + d[n + 1]
<1>1. PICK s : PartialSums(s, c, n)
  BY PartialSumsExist
<1> DEFINE t == [i \in 0..n + 1 |-> IF i = n + 1 THEN s[n] + d[n + 1] ELSE s[i]]
<1>2. /\ s \in [0..n -> Nat] /\ s[0] = 0
      /\ \A i \in 1..n : s[i] = s[i - 1] + c[i]
  BY <1>1 DEF PartialSums
<1>3. t \in [0..n + 1 -> Nat]
  BY <1>2
<1>4. t[0] = 0
  BY <1>2
<1>5. ASSUME NEW i \in 1..n + 1 PROVE t[i] = t[i - 1] + d[i]
  <2>1. t[i - 1] = s[i - 1]
    BY <1>2
  <2>2. CASE i = n + 1  BY <2>1, <2>2
  <2>3. CASE i # n + 1
    <3>1. i \in 1..n
      BY <2>3
    <3>2. t[i] = s[i]
      BY <2>3
    <3>. QED BY <1>2, <2>1, <3>1, <3>2
  <2>. QED BY <2>2, <2>3
<1>6. PartialSums(t, d, n + 1)
  BY <1>3, <1>4, <1>5 DEF PartialSums
<1>7. Total(d, n + 1) = t[n + 1] /\ Total(c, n) = s[n]
  <2> HIDE DEF t
  <2>1. n + 1 \in Nat
    OBVIOUS
  <2>. QED BY <1>1, <1>6, <2>1, TotalIsLast
<1>. QED BY <1>7
-----------------------------------------------------------------------------
(* Sums over ledgers: sequences of entries with natural amounts. *)
IsLedger(seq, Entry) == seq \in Seq(Entry) /\ \A e \in Entry : e.amount \in Nat

(* The shares of a ledger are natural numbers, one for each entry. *)
LEMMA SharesType ==
  ASSUME NEW Entry, NEW seq, IsLedger(seq, Entry), NEW id, NEW S
  PROVE  Len(seq) \in Nat /\ Shares(seq, id, S) \in [1..Len(seq) -> Nat]
<1>1. Len(seq) \in Nat /\ \A i \in 1..Len(seq) : seq[i] \in Entry
  BY DEF IsLedger
<1>2. ASSUME NEW i \in 1..Len(seq) PROVE Share(seq[i], id, S) \in Nat
  BY <1>1 DEF IsLedger, Share
<1>. QED BY <1>1, <1>2 DEF Shares

(* A sum over a ledger is a natural number, at least each entry's share. *)
LEMMA SumInBounds ==
  ASSUME NEW Entry, NEW seq, IsLedger(seq, Entry), NEW id, NEW S
  PROVE  /\ SumIn(seq, id, S) \in Nat
         /\ \A i \in 1..Len(seq) : Share(seq[i], id, S) <= SumIn(seq, id, S)
<1> DEFINE c == Shares(seq, id, S)
<1>1. Len(seq) \in Nat /\ c \in [1..Len(seq) -> Nat]
  BY SharesType
<1>2. \A i \in 1..Len(seq) : c[i] = Share(seq[i], id, S)
  BY DEF Shares
<1> HIDE DEF c
<1>3. Total(c, Len(seq)) \in Nat /\ \A i \in 1..Len(seq) : c[i] <= Total(c, Len(seq))
  BY <1>1, TotalBounds
<1>. QED BY <1>2, <1>3 DEF SumIn, c

(* An empty ledger sums to zero. *)
LEMMA SumInEmpty ==
  ASSUME NEW id, NEW S
  PROVE  SumIn(<<>>, id, S) = 0
<1> DEFINE c == Shares(<<>>, id, S)
<1>1. c \in [1..0 -> Nat] /\ Len(<<>>) = 0
  BY DEF Shares
<1>2. PartialSums([i \in 0..0 |-> 0], c, 0)
  BY DEF PartialSums
<1> HIDE DEF c
<1>3. Total(c, 0) = [i \in 0..0 |-> 0][0]
  BY <1>1, <1>2, TotalIsLast
<1>. QED BY <1>1, <1>3 DEF SumIn, c

(* An entry appended adds its share. *)
LEMMA SumInAppend ==
  ASSUME NEW Entry, NEW seq, IsLedger(seq, Entry), NEW e \in Entry, NEW id, NEW S
  PROVE  SumIn(Append(seq, e), id, S) = SumIn(seq, id, S) + Share(e, id, S)
<1> DEFINE n == Len(seq)
           longer == Append(seq, e)
           c == Shares(seq, id, S)
           d == Shares(longer, id, S)
<1>1. IsLedger(longer, Entry) /\ n \in Nat /\ Len(longer) = n + 1
  BY DEF IsLedger
<1>2. /\ \A i \in 1..n : longer[i] = seq[i]
      /\ longer[n + 1] = e
  BY DEF IsLedger
<1>3. c \in [1..n -> Nat] /\ d \in [1..n + 1 -> Nat]
  <2> HIDE DEF longer
  <2>. QED BY <1>1, SharesType
<1>4. (\A i \in 1..n : d[i] = c[i]) /\ d[n + 1] = Share(e, id, S)
  <2> HIDE DEF longer
  <2>. QED BY <1>1, <1>2 DEF Shares
<1> HIDE DEF c, d, longer
<1>5. Total(d, n + 1) = Total(c, n) + d[n + 1]
  BY <1>1, <1>3, <1>4, TotalExtend
<1>. QED BY <1>1, <1>4, <1>5 DEF SumIn, c, d, longer

(* other is seq with another entry in place k. *)
DiffersAt(seq, other, k) ==
  Len(other) = Len(seq) /\ \A i \in 1..Len(seq) : i # k => other[i] = seq[i]

(* An entry replaced takes its share away and brings the new one's. *)
LEMMA SumInReplace ==
  ASSUME NEW Entry, NEW seq, IsLedger(seq, Entry), NEW k \in 1..Len(seq),
         NEW other, IsLedger(other, Entry), DiffersAt(seq, other, k), NEW id, NEW S
  PROVE  SumIn(other, id, S)
           = SumIn(seq, id, S) - Share(seq[k], id, S) + Share(other[k], id, S)
<1> DEFINE n == Len(seq)
           e == other[k]
           c == Shares(seq, id, S)
           v == Share(e, id, S)
<1>1. n \in Nat /\ Len(other) = n
  BY DEF IsLedger, DiffersAt
<1>2. \A i \in 1..n : other[i] = IF i = k THEN e ELSE seq[i]
  BY DEF DiffersAt
<1>3. c \in [1..n -> Nat] /\ c[k] = Share(seq[k], id, S)
  <2>1. c \in [1..n -> Nat]
    BY SharesType, Zenon
  <2>. QED BY <2>1 DEF Shares
<1>4. v \in Nat
  <2>1. e \in Entry
    BY <1>1 DEF IsLedger
  <2>. QED BY <2>1 DEF IsLedger, Share
<1>5. Shares(other, id, S) = [c EXCEPT ![k] = v]
  BY <1>1, <1>2 DEF Shares
<1> HIDE DEF c, v
<1>6. Total([c EXCEPT ![k] = v], n) = Total(c, n) - c[k] + v
  BY <1>1, <1>3, <1>4, TotalReplace
<1>. QED BY <1>1, <1>3, <1>5, <1>6 DEF SumIn, c, v

(* A budget no entry names has a sum of zero. *)
LEMMA SumInAbsent ==
  ASSUME NEW Entry, NEW seq, IsLedger(seq, Entry), NEW id, NEW S,
         \A i \in 1..Len(seq) : seq[i].budget # id
  PROVE  SumIn(seq, id, S) = 0
<1> DEFINE c == Shares(seq, id, S)
           n == Len(seq)
<1>1. n \in Nat /\ c \in [1..n -> Nat]
  BY SharesType
<1>2. \A i \in 1..n : c[i] = 0
  BY DEF Shares, Share
<1>3. PartialSums([i \in 0..n |-> 0], c, n)
  BY <1>1, <1>2 DEF PartialSums
<1>4. Total(c, n) = 0
  <2> DEFINE z == [i \in 0..n |-> 0]
  <2>1. PartialSums(z, c, n) /\ z[n] = 0
    BY <1>1, <1>3
  <2> HIDE DEF z, c, n
  <2>. QED BY <1>1, <2>1, TotalIsLast
<1>. QED BY <1>4 DEF SumIn
-----------------------------------------------------------------------------
(***************************************************************************)
(* Sums over a finite set, which SumFunctionOnSet computes by taking one    *)
(* element after the other, in an order that is not specified.             *)
(***************************************************************************)

(* The element a sum takes next. *)
Chosen(s) == CHOOSE x \in s : TRUE

(* What holds of a set when it holds of the set without any one of its      *)
(* elements holds of every subset of a finite set. P is the set of the      *)
(* subsets it holds of.                                                    *)
LEMMA SubsetInduction ==
  ASSUME NEW T, IsFiniteSet(T), NEW P,
         \A S \in SUBSET T : (\A x \in S : S \ {x} \in P) => S \in P
  PROVE  \A S \in SUBSET T : S \in P
<1> DEFINE N == {Cardinality(S) : S \in {S \in SUBSET T : S \notin P}}
<1>1. SUFFICES ASSUME NEW R \in SUBSET T, R \notin P PROVE FALSE
  OBVIOUS
<1>2. \A S \in SUBSET T : IsFiniteSet(S) /\ Cardinality(S) \in Nat
  BY FS_Subset, FS_CardinalityType
<1>3. N \in SUBSET Nat /\ N # {}
  BY <1>1, <1>2
<1>4. PICK n \in N : \A m \in N : n <= m
  <2> HIDE DEF N
  <2>. QED BY <1>3, LeastElement
<1>5. PICK S \in SUBSET T : S \notin P /\ n = Cardinality(S)
  OBVIOUS
<1>6. PICK x \in S : S \ {x} \notin P
  BY <1>5
<1>7. S \ {x} \in SUBSET T /\ Cardinality(S \ {x}) = Cardinality(S) - 1
  BY <1>2, <1>6, FS_RemoveElement
<1>8. Cardinality(S) <= Cardinality(S) - 1
  BY <1>4, <1>5, <1>6, <1>7
<1>. QED BY <1>2, <1>8

(* g gives the sum of f over every set of D. *)
SumsOn(g, f, D) ==
  /\ g \in [D -> Nat]
  /\ \A s \in D : g[s] = IF s = {} THEN 0 ELSE f[Chosen(s)] + g[s \ {Chosen(s)}]

(* Such sums exist. *)
LEMMA SumsExist ==
  ASSUME NEW T, IsFiniteSet(T), NEW f \in [T -> Nat]
  PROVE  \E g : SumsOn(g, f, SUBSET T)
<1> DEFINE D(n) == {s \in SUBSET T : Cardinality(s) <= n}
           N == {n \in Nat : ~ \E g : SumsOn(g, f, D(n))}
<1>1. \A s \in SUBSET T : IsFiniteSet(s) /\ Cardinality(s) \in Nat /\ Cardinality(s) <= Cardinality(T)
  BY FS_Subset, FS_CardinalityType
<1>2. \A s \in SUBSET T : s # {} =>
        /\ Chosen(s) \in s /\ Chosen(s) \in T /\ s \ {Chosen(s)} \in SUBSET T
        /\ Cardinality(s \ {Chosen(s)}) = Cardinality(s) - 1
  BY <1>1, FS_RemoveElement DEF Chosen
<1>3. N = {}
  <2>1. SUFFICES ASSUME N # {} PROVE FALSE
    OBVIOUS
  <2>2. PICK n \in N : \A m \in N : n <= m
    <3>1. N \in SUBSET Nat
      OBVIOUS
    <3> HIDE DEF N
    <3>. QED BY <2>1, <3>1, LeastElement
  <2>3. CASE n = 0
    <3>1. \A s \in D(0) : s = {}
      BY <1>1, FS_EmptySet
    <3>2. SumsOn([s \in D(0) |-> 0], f, D(0))
      BY <3>1 DEF SumsOn
    <3>. QED BY <2>2, <2>3, <3>2
  <2>4. CASE n # 0
    <3>1. n - 1 \in Nat /\ n - 1 \notin N /\ n \in Nat
      <4>1. N \in SUBSET Nat
        OBVIOUS
      <4> HIDE DEF N
      <4>. QED BY <2>2, <2>4, <4>1
    <3>2. PICK g : SumsOn(g, f, D(n - 1))
      BY <3>1
    <3> DEFINE h == [s \in D(n) |-> IF s \in D(n - 1) THEN g[s] ELSE f[Chosen(s)] + g[s \ {Chosen(s)}]]
    <3>3. \A s \in D(n) : s # {} => s \ {Chosen(s)} \in D(n - 1)
      BY <1>1, <1>2, <3>1
    <3>4. {} \in D(n - 1)
      <4>1. Cardinality({}) <= n - 1
        BY <3>1, FS_EmptySet
      <4>. QED BY <4>1
    <3>5. D(n - 1) \subseteq D(n)
      BY <1>1, <3>1
    <3> HIDE DEF D
    <3>6. g \in [D(n - 1) -> Nat]
      BY <3>2 DEF SumsOn
    <3>7. \A s \in D(n) : s # {} => f[Chosen(s)] \in Nat
      BY <1>2 DEF D
    <3>8. h \in [D(n) -> Nat]
      <4>1. ASSUME NEW s \in D(n) PROVE h[s] \in Nat
        <5>1. CASE s \in D(n - 1)  BY <3>6, <5>1
        <5>2. CASE s \notin D(n - 1)
          <6>1. f[Chosen(s)] \in Nat /\ g[s \ {Chosen(s)}] \in Nat
            BY <3>3, <3>4, <3>6, <3>7, <5>2
          <6>. QED BY <5>2, <6>1
        <5>. QED BY <5>1, <5>2
      <4>. QED BY <4>1
    <3>9. \A s \in D(n) : h[s] = IF s = {} THEN 0 ELSE f[Chosen(s)] + h[s \ {Chosen(s)}]
      BY <3>2, <3>3, <3>4, <3>5 DEF SumsOn
    <3>10. SumsOn(h, f, D(n))
      <4> HIDE DEF h
      <4>. QED BY <3>8, <3>9 DEF SumsOn
    <3>. QED BY <2>2, <3>10
  <2>. QED BY <2>3, <2>4
<1>4. PICK c \in Nat : c = Cardinality(T)
  BY FS_CardinalityType
<1>5. D(c) = SUBSET T
  BY <1>1, <1>4
<1>. QED BY <1>3, <1>4, <1>5

(* SumFunctionOnSet computes them. *)
LEMMA SumIs ==
  ASSUME NEW T, IsFiniteSet(T), NEW f \in [T -> Nat], NEW g, SumsOn(g, f, SUBSET T),
         NEW S \in SUBSET T
  PROVE  SumFunctionOnSet(f, S) = g[S]
<1> DEFINE Rec(h) == [s \in SUBSET S |-> IF s = {} THEN 0 ELSE f[Chosen(s)] + h[s \ {Chosen(s)}]]
           iter == CHOOSE h : h = Rec(h)
<1>1. SumFunctionOnSet(f, S) = iter[S]
  BY DEF SumFunctionOnSet, FoldFunctionOnSet, MapThenFoldSet, Chosen
<1>2. \E h : h = Rec(h)
  <2> DEFINE h == [s \in SUBSET S |-> g[s]]
  <2>1. \A s \in SUBSET S : s \in SUBSET T /\ s \ {Chosen(s)} \in SUBSET S
    OBVIOUS
  <2>2. h = Rec(h)
    BY <2>1 DEF SumsOn
  <2>. QED BY <2>2
<1>3. iter = Rec(iter)
  <2> HIDE DEF Rec
  <2>. QED BY <1>2
<1> HIDE DEF iter
<1>4. \A s \in SUBSET S : iter[s] = IF s = {} THEN 0 ELSE f[Chosen(s)] + iter[s \ {Chosen(s)}]
  BY <1>3
<1> HIDE DEF Rec
<1> DEFINE P == {s \in SUBSET S : iter[s] = g[s]}
<1>5. ASSUME NEW s \in SUBSET S, \A x \in s : s \ {x} \in P PROVE s \in P
  <2>1. CASE s = {}
    BY <1>4, <2>1 DEF SumsOn
  <2>2. CASE s # {}
    <3>1. Chosen(s) \in s
      BY <2>2 DEF Chosen
    <3>. QED BY <1>4, <1>5, <2>2, <3>1 DEF SumsOn
  <2>. QED BY <2>1, <2>2
<1>6. IsFiniteSet(S)
  BY FS_Subset
<1> HIDE DEF P
<1>7. S \in P
  BY <1>5, <1>6, SubsetInduction
<1>. QED BY <1>1, <1>7 DEF P

(* A sum of natural numbers is one, and the sum of none is 0. *)
LEMMA SumNat ==
  ASSUME NEW T, IsFiniteSet(T), NEW f \in [T -> Nat]
  PROVE  /\ \A S \in SUBSET T : SumFunctionOnSet(f, S) \in Nat
         /\ SumFunctionOnSet(f, {}) = 0
<1>1. PICK g : SumsOn(g, f, SUBSET T)
  BY SumsExist
<1>2. \A S \in SUBSET T : SumFunctionOnSet(f, S) = g[S]
  BY <1>1, SumIs
<1>. QED BY <1>1, <1>2 DEF SumsOn

(* Any of the terms can be taken out of a sum. *)
LEMMA SumRemove ==
  ASSUME NEW T, IsFiniteSet(T), NEW f \in [T -> Nat], NEW S \in SUBSET T, NEW y \in S
  PROVE  SumFunctionOnSet(f, S) = f[y] + SumFunctionOnSet(f, S \ {y})
<1>1. PICK g : SumsOn(g, f, SUBSET T)
  BY SumsExist
<1>2. \A R \in SUBSET T : SumFunctionOnSet(f, R) = g[R]
  BY <1>1, SumIs
<1> DEFINE P == {s \in SUBSET T : \A x \in s : g[s] = f[x] + g[s \ {x}]}
<1>3. ASSUME NEW s \in SUBSET T, \A x \in s : s \ {x} \in P, NEW x \in s
      PROVE  g[s] = f[x] + g[s \ {x}]
  <2>1. PICK c \in s : c = Chosen(s)
    BY DEF Chosen
  <2>2. g[s] = f[c] + g[s \ {c}]
    BY <1>1, <2>1 DEF SumsOn
  <2>3. CASE x = c
    BY <2>2, <2>3
  <2>4. CASE x # c
    <3>1. (s \ {c}) \ {x} = (s \ {x}) \ {c}
      OBVIOUS
    <3>2. g[s \ {c}] = f[x] + g[(s \ {c}) \ {x}] /\ g[s \ {x}] = f[c] + g[(s \ {x}) \ {c}]
      BY <1>3, <2>4
    <3>3. /\ f[c] \in Nat /\ f[x] \in Nat /\ g[(s \ {x}) \ {c}] \in Nat
      BY <1>1 DEF SumsOn
    <3>4. PICK z \in Nat : z = g[(s \ {x}) \ {c}]
      BY <3>3
    <3>5. g[s] = f[c] + (f[x] + z) /\ g[s \ {x}] = f[c] + z
      BY <2>2, <3>1, <3>2, <3>4
    <3>. QED BY <3>3, <3>5
  <2>. QED BY <2>3, <2>4
<1>4. ASSUME NEW s \in SUBSET T, \A x \in s : s \ {x} \in P PROVE s \in P
  BY <1>3, <1>4
<1>5. S \in P
  <2> HIDE DEF P
  <2>. QED BY <1>4, SubsetInduction
<1>. QED BY <1>2, <1>5

(* A sum with larger terms is larger. *)
LEMMA SumMonotone ==
  ASSUME NEW T, IsFiniteSet(T), NEW f \in [T -> Nat],
         NEW U, IsFiniteSet(U), NEW h \in [U -> Nat],
         NEW R, R \in SUBSET T, R \in SUBSET U, \A x \in R : f[x] <= h[x]
  PROVE  SumFunctionOnSet(f, R) <= SumFunctionOnSet(h, R)
<1> DEFINE P == {S \in SUBSET R : SumFunctionOnSet(f, S) <= SumFunctionOnSet(h, S)}
<1>1. ASSUME NEW S \in SUBSET R, \A x \in S : S \ {x} \in P PROVE S \in P
  <2>1. CASE S = {}
    BY <2>1, SumNat
  <2>2. CASE S # {}
    <3>1. PICK x \in S : TRUE
      BY <2>2
    <3>2. /\ SumFunctionOnSet(f, S) = f[x] + SumFunctionOnSet(f, S \ {x})
          /\ SumFunctionOnSet(h, S) = h[x] + SumFunctionOnSet(h, S \ {x})
      BY SumRemove
    <3>3. /\ SumFunctionOnSet(f, S \ {x}) \in Nat /\ SumFunctionOnSet(h, S \ {x}) \in Nat
          /\ SumFunctionOnSet(f, S \ {x}) <= SumFunctionOnSet(h, S \ {x})
          /\ f[x] \in Nat /\ h[x] \in Nat /\ f[x] <= h[x]
      BY <1>1, SumNat
    <3>. QED BY <3>2, <3>3
  <2>. QED BY <2>1, <2>2
<1>2. R \in P
  <2>1. IsFiniteSet(R)
    BY FS_Subset
  <2> HIDE DEF P
  <2>. QED BY <1>1, <2>1, SubsetInduction
<1>. QED BY <1>2

(* Sums of the same terms are the same. *)
LEMMA SumSame ==
  ASSUME NEW T, IsFiniteSet(T), NEW f \in [T -> Nat],
         NEW U, IsFiniteSet(U), NEW h \in [U -> Nat],
         NEW R, R \in SUBSET T, R \in SUBSET U, \A x \in R : f[x] = h[x]
  PROVE  SumFunctionOnSet(f, R) = SumFunctionOnSet(h, R)
<1>1. \A x \in R : f[x] <= h[x] /\ h[x] <= f[x]
  OBVIOUS
<1>2. SumFunctionOnSet(f, R) <= SumFunctionOnSet(h, R)
  BY <1>1, SumMonotone
<1>3. SumFunctionOnSet(h, R) <= SumFunctionOnSet(f, R)
  BY <1>1, SumMonotone
<1>4. SumFunctionOnSet(f, R) \in Nat /\ SumFunctionOnSet(h, R) \in Nat
  BY SumNat
<1>. QED BY <1>2, <1>3, <1>4

(* The sum of two functions is the sum of their sums. *)
LEMMA SumPlus ==
  ASSUME NEW T, IsFiniteSet(T), NEW f \in [T -> Nat], NEW h \in [T -> Nat], NEW k \in [T -> Nat],
         \A x \in T : k[x] = f[x] + h[x]
  PROVE  SumFunctionOnSet(k, T) = SumFunctionOnSet(f, T) + SumFunctionOnSet(h, T)
<1> DEFINE P == {S \in SUBSET T :
                   SumFunctionOnSet(k, S) = SumFunctionOnSet(f, S) + SumFunctionOnSet(h, S)}
<1>1. ASSUME NEW S \in SUBSET T, \A x \in S : S \ {x} \in P PROVE S \in P
  <2>1. CASE S = {}
    BY <2>1, SumNat
  <2>2. CASE S # {}
    <3>1. PICK x \in S : TRUE
      BY <2>2
    <3>2. /\ SumFunctionOnSet(f, S) = f[x] + SumFunctionOnSet(f, S \ {x})
          /\ SumFunctionOnSet(h, S) = h[x] + SumFunctionOnSet(h, S \ {x})
          /\ SumFunctionOnSet(k, S) = k[x] + SumFunctionOnSet(k, S \ {x})
      BY SumRemove
    <3>3. /\ SumFunctionOnSet(f, S \ {x}) \in Nat /\ SumFunctionOnSet(h, S \ {x}) \in Nat
          /\ f[x] \in Nat /\ h[x] \in Nat /\ k[x] = f[x] + h[x]
      BY SumNat
    <3>4. SumFunctionOnSet(k, S \ {x}) = SumFunctionOnSet(f, S \ {x}) + SumFunctionOnSet(h, S \ {x})
      BY <1>1
    <3>. QED BY <3>2, <3>3, <3>4
  <2>. QED BY <2>1, <2>2
<1>2. T \in P
  <2> HIDE DEF P
  <2>1. \A S \in SUBSET T : (\A x \in S : S \ {x} \in P) => S \in P
    BY <1>1
  <2>2. \A S \in SUBSET T : S \in P
    BY <2>1, SubsetInduction, Zenon
  <2>. QED BY <2>2
<1>. QED BY <1>2

(* A sum over the values of an injective function is a sum over its domain. *)
LEMMA SumReindex ==
  ASSUME NEW T, IsFiniteSet(T), NEW f \in [T -> Nat],
         NEW A, IsFiniteSet(A), NEW m \in [A -> T], \A a, b \in A : m[a] = m[b] => a = b,
         NEW h \in [A -> Nat], \A a \in A : h[a] = f[m[a]]
  PROVE  SumFunctionOnSet(f, {m[a] : a \in A}) = SumFunctionOnSet(h, A)
<1> DEFINE Img(S) == {m[a] : a \in S}
           P == {S \in SUBSET A : SumFunctionOnSet(f, Img(S)) = SumFunctionOnSet(h, S)}
<1>1. ASSUME NEW S \in SUBSET A, \A x \in S : S \ {x} \in P PROVE S \in P
  <2>1. CASE S = {}
    <3>1. Img(S) = {}
      BY <2>1
    <3>. QED BY <2>1, <3>1, SumNat
  <2>2. CASE S # {}
    <3>1. PICK x \in S : TRUE
      BY <2>2
    <3>2. SumFunctionOnSet(h, S) = h[x] + SumFunctionOnSet(h, S \ {x})
      BY SumRemove
    <3>3. Img(S \ {x}) = Img(S) \ {m[x]} /\ m[x] \in Img(S) /\ Img(S) \in SUBSET T
      OBVIOUS
    <3>4. SumFunctionOnSet(f, Img(S)) = f[m[x]] + SumFunctionOnSet(f, Img(S) \ {m[x]})
      <4> HIDE DEF Img
      <4>. QED BY <3>3, SumRemove
    <3>5. SumFunctionOnSet(f, Img(S \ {x})) = SumFunctionOnSet(h, S \ {x})
      BY <1>1
    <3>6. h[x] = f[m[x]]
      OBVIOUS
    <3> HIDE DEF Img
    <3>7. SumFunctionOnSet(f, Img(S)) = SumFunctionOnSet(h, S)
      BY <3>2, <3>3, <3>4, <3>5, <3>6
    <3>. QED BY <3>7
  <2>. QED BY <2>1, <2>2
<1>2. A \in P
  <2> HIDE DEF P
  <2>. QED BY <1>1, SubsetInduction
<1>. QED BY <1>2

(* A sum splits into the sums over a part of the terms and over the rest. *)
LEMMA SumSplit ==
  ASSUME NEW T, IsFiniteSet(T), NEW f \in [T -> Nat], NEW A \in SUBSET T
  PROVE  SumFunctionOnSet(f, T) = SumFunctionOnSet(f, A) + SumFunctionOnSet(f, T \ A)
<1> DEFINE F(S) == SumFunctionOnSet(f, S)
           P == {S \in SUBSET T : F(S) = F(S \cap A) + F(S \ A)}
<1>0. \A S \in SUBSET T : F(S) \in Nat /\ \A x \in S : F(S) = f[x] + F(S \ {x})
  BY SumNat, SumRemove
<1>1. F({}) = 0
  BY SumNat
<1> HIDE DEF F
<1>2. ASSUME NEW S \in SUBSET T, \A x \in S : S \ {x} \in P
      PROVE  F(S) = F(S \cap A) + F(S \ A)
  <2>1. CASE S = {}
    <3>1. S \cap A = {} /\ S \ A = {}
      BY <2>1
    <3>. QED BY <1>1, <2>1, <3>1
  <2>2. CASE S # {}
    <3>1. PICK x \in S : TRUE
      BY <2>2
    <3>2. F(S \ {x}) = F((S \ {x}) \cap A) + F((S \ {x}) \ A)
      BY <1>2
    <3>3. F(S) = f[x] + F(S \ {x}) /\ f[x] \in Nat
      BY <1>0
    <3>4. F((S \ {x}) \cap A) \in Nat /\ F((S \ {x}) \ A) \in Nat
      BY <1>0
    <3>5. CASE x \in A
      <4>1. (S \ {x}) \cap A = (S \cap A) \ {x} /\ (S \ {x}) \ A = S \ A
        BY <3>5
      <4>2. F(S \cap A) = f[x] + F((S \cap A) \ {x})
        BY <1>0, <3>5
      <4>3. PICK u \in Nat, v \in Nat : u = F((S \ {x}) \cap A) /\ v = F((S \ {x}) \ A)
        BY <3>4
      <4>4. F(S) = f[x] + (u + v) /\ F(S \cap A) = f[x] + u /\ F(S \ A) = v
        BY <3>2, <3>3, <4>1, <4>2, <4>3
      <4>. QED BY <3>3, <4>4
    <3>6. CASE x \notin A
      <4>1. (S \ {x}) \ A = (S \ A) \ {x} /\ (S \ {x}) \cap A = S \cap A
        BY <3>6
      <4>2. F(S \ A) = f[x] + F((S \ A) \ {x})
        BY <1>0, <3>6
      <4>3. PICK u \in Nat, v \in Nat : u = F((S \ {x}) \cap A) /\ v = F((S \ {x}) \ A)
        BY <3>4
      <4>4. F(S) = f[x] + (u + v) /\ F(S \cap A) = u /\ F(S \ A) = f[x] + v
        BY <3>2, <3>3, <4>1, <4>2, <4>3
      <4>. QED BY <3>3, <4>4
    <3>. QED BY <3>5, <3>6
  <2>. QED BY <2>1, <2>2
<1>3. T \in P
  <2>1. ASSUME NEW S \in SUBSET T, \A x \in S : S \ {x} \in P PROVE S \in P
    BY <1>2, <2>1
  <2> HIDE DEF P
  <2>. QED BY <2>1, SubsetInduction
<1>4. T \cap A = A
  OBVIOUS
<1>. QED BY <1>3, <1>4 DEF F
=============================================================================
