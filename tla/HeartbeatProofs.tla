-------------------------- MODULE HeartbeatProofs ---------------------------
(***************************************************************************)
(* Theorems of Heartbeat, for every window, ceiling, wait and cadence.     *)
(*                                                                         *)
(* First what the ledger's operators do: pruning keeps what a limit reads  *)
(* and its order, a tick moves every count by one, the wait is a number    *)
(* up to the maximum.  Then the invariants, each on the ones before:       *)
(*   LockInv   whoever is between taking the lock and giving it back holds *)
(*             it, and the lock is as old as its beat;                     *)
(*   SpendInv  the ledger counts what the model was asked, but for the     *)
(*             beat about to be recorded, and a beat starts below both     *)
(*             ceilings;                                                   *)
(*   CauseInv  a cooldown has a refusal behind it, and nobody beats in it; *)
(*   TellInv   what is told for an instant is the mark of the hold that    *)
(*             ends then and the report of an exhausted account; no more   *)
(*             is mailed than told (MailedInv);                            *)
(*   PaceInv   the ledger's history ends as the calls do, and its cooldown *)
(*             outlasts what is left of every recorded beat's wait.        *)
(* The last four need a ledger that can be read and written, all but the  *)
(* types a machine that stays up and no third process: what a crash or a   *)
(* broken ledger does instead is for the other runs to show.               *)
(***************************************************************************)
EXTENDS Heartbeat, FiniteSetTheorems, WellFoundedInduction, TLAPS

-----------------------------------------------------------------------------
(* Numbers and places.                                                     *)

\* A set of naturals with a bound has a maximum.
LEMMA MaxIs ==
    ASSUME NEW S \in SUBSET Nat, NEW b \in Nat, S # {}, \A x \in S : x <= b
    PROVE  Max(S) \in S /\ \A x \in S : x <= Max(S)
<1> DEFINE Below == {n \in Nat : \E x \in S : n = b - x}
<1>1. Below \subseteq Nat /\ Below # {}
  <2>1. PICK x \in S : TRUE
    OBVIOUS
  <2>2. b - x \in Nat
    BY <2>1
  <2> QED BY <2>1, <2>2
<1> HIDE DEF Below
<1>2. PICK n \in Below : \A m \in Below : ~(<<m, n>> \in OpToRel(<, Nat))
  BY <1>1, NatLessThanWellFounded, WFMin
<1>3. \A m \in Below : ~(m < n)
  BY <1>1, <1>2 DEF OpToRel
<1> USE DEF Below
<1>4. PICK x \in S : n = b - x
  BY <1>2
<1>5. \A y \in S : y <= x
  <2> SUFFICES ASSUME NEW y \in S PROVE y <= x
    OBVIOUS
  <2>1. b - y \in Nat
    OBVIOUS
  <2>2. b - y \in Below
    BY <2>1
  <2>3. ~(b - y < n)
    BY <1>3, <2>2
  <2> HIDE DEF Below
  <2> QED BY <2>3, <1>4
<1>6. \E m \in S : \A y \in S : m >= y
  BY <1>5
<1>7. Max(S) \in S /\ \A y \in S : Max(S) >= y
  BY <1>6 DEF Max
<1> QED BY <1>7

LEMMA MinIs ==
    ASSUME NEW a \in Int, NEW b \in Int PROVE Min({a, b}) = IF a <= b THEN a ELSE b
<1>1. Min({a, b}) \in {a, b} /\ \A y \in {a, b} : Min({a, b}) <= y
  <2>1. \E x \in {a, b} : \A y \in {a, b} : x =< y
    BY SMT
  <2> QED BY <2>1 DEF Min
<1> QED BY <1>1

Top == Max({Window, Day, BackoffMax})

LEMMA TopIs ==
    /\ Top \in Nat /\ Window <= Top /\ Day <= Top /\ BackoffMax <= Top
    /\ Times = 0..Top
<1> DEFINE S == {Window, Day, BackoffMax}
<1>1. S \in SUBSET Nat /\ S # {} /\ \A x \in S : x <= Window + Day + BackoffMax
  BY ConstantsAssumption
<1>2. Window + Day + BackoffMax \in Nat
  BY ConstantsAssumption
<1>3. Max(S) \in S /\ \A x \in S : x <= Max(S)
  <2> HIDE DEF S
  <2> QED BY <1>1, <1>2, MaxIs
<1>4. Top = Max(S) /\ Times = 0..Top
  BY DEF Top, Times
<1>5. Top \in Nat /\ Window <= Top /\ Day <= Top /\ BackoffMax <= Top
  <2> HIDE DEF Top
  <2> QED BY <1>1, <1>3, <1>4
<1> QED BY <1>4, <1>5

\* The n-th place of a finite set of places: every n up to the size of the set
\* has one, later ones are larger, and each place is the n-th for its rank.
Rank(S, i) == Cardinality({j \in S : j <= i})

LEMMA RankGrows ==
    ASSUME NEW S \in SUBSET Int, IsFiniteSet(S), NEW i \in S, NEW k \in S, i < k
    PROVE  Rank(S, i) \in Nat /\ Rank(S, k) \in Nat /\ Rank(S, i) < Rank(S, k)
<1> DEFINE I == {j \in S : j <= i}
           K == {j \in S : j <= k}
<1>0. i \in Int /\ k \in Int /\ \A j \in S : j \in Int
  OBVIOUS
<1>1. K \in SUBSET S /\ I \in SUBSET K /\ k \in K /\ k \notin I
  <2>1. \A j \in S : j <= i => j <= k
    BY <1>0
  <2>2. ~(k <= i) /\ k <= k
    BY <1>0
  <2> QED BY <2>1, <2>2
<1> HIDE DEF I, K
<1>2. IsFiniteSet(K)
  BY <1>1, FS_Subset
<1>3. IsFiniteSet(I) /\ Cardinality(I) <= Cardinality(K) /\ (Cardinality(K) = Cardinality(I) => K = I)
  BY <1>1, <1>2, FS_Subset
<1>4. Cardinality(I) \in Nat /\ Cardinality(K) \in Nat
  BY <1>2, <1>3, FS_CardinalityType
<1>5. Rank(S, i) = Cardinality(I) /\ Rank(S, k) = Cardinality(K)
  BY DEF Rank, I, K
<1> QED BY <1>1, <1>3, <1>4, <1>5

LEMMA RankIs ==
    ASSUME NEW S \in SUBSET Int, IsFiniteSet(S), NEW i \in S
    PROVE  Rank(S, i) \in 1..Cardinality(S)
<1> DEFINE I == {j \in S : j <= i}
<1>1. I \in SUBSET S /\ i \in I
  OBVIOUS
<1> HIDE DEF I
<1>2. IsFiniteSet(I) /\ Cardinality(I) <= Cardinality(S)
  BY <1>1, FS_Subset
<1>3. Cardinality(I) \in Nat /\ Cardinality(S) \in Nat /\ Cardinality(I) # 0
  BY <1>1, <1>2, FS_CardinalityType, FS_EmptySet
<1>4. Rank(S, i) = Cardinality(I)
  BY DEF Rank, I
<1> QED BY <1>2, <1>3, <1>4

LEMMA NthIs ==
    ASSUME NEW S \in SUBSET Int, IsFiniteSet(S)
    PROVE  /\ \A n \in 1..Cardinality(S) : Nth(S, n) \in S /\ Rank(S, Nth(S, n)) = n
           /\ \A i \in S : Nth(S, Rank(S, i)) = i
<1> DEFINE N == Cardinality(S)
           r == [i \in S |-> Rank(S, i)]
<1>1. N \in Nat
  BY FS_CardinalityType
<1>2. \A i \in S : Rank(S, i) \in 1..N
  BY RankIs
<1>3. \A i, k \in S : Rank(S, i) = Rank(S, k) => i = k
  <2> SUFFICES ASSUME NEW i \in S, NEW k \in S, Rank(S, i) = Rank(S, k), i # k PROVE FALSE
    OBVIOUS
  <2>1. CASE i < k
    BY <2>1, RankGrows
  <2>2. CASE k < i
    BY <2>2, RankGrows
  <2> QED BY <2>1, <2>2
<1>4. r \in Injection(S, 1..N)
  BY <1>2, <1>3 DEF Injection, IsInjective
<1>5. IsFiniteSet(1..N) /\ Cardinality(1..N) = N
  BY <1>1, FS_Interval
<1>6. r \in Surjection(S, 1..N)
  <2> HIDE DEF r
  <2>1. Cardinality(S) = Cardinality(1..N)
    BY <1>5
  <2> QED BY <1>4, <1>5, <2>1, FS_Injection
<1>7. \A n \in 1..N : \E i \in S : Rank(S, i) = n
  <2>1. \A n \in 1..N : \E i \in S : r[i] = n
    BY <1>6 DEF Surjection
  <2> QED BY <2>1
<1>8. \A n \in 1..N : Nth(S, n) \in S /\ Rank(S, Nth(S, n)) = n
  <2> SUFFICES ASSUME NEW n \in 1..N PROVE Nth(S, n) \in S /\ Rank(S, Nth(S, n)) = n
    OBVIOUS
  <2>1. \E i \in S : Cardinality({j \in S : j <= i}) = n
    BY <1>7 DEF Rank
  <2>2. Nth(S, n) \in S /\ Cardinality({j \in S : j <= Nth(S, n)}) = n
    BY <2>1, Zenon DEF Nth
  <2> QED BY <2>2 DEF Rank
<1>9. \A i \in S : Nth(S, Rank(S, i)) = i
  BY <1>2, <1>3, <1>8
<1> QED BY <1>8, <1>9

LEMMA NthGrows ==
    ASSUME NEW S \in SUBSET Int, IsFiniteSet(S),
           NEW m \in 1..Cardinality(S), NEW n \in 1..Cardinality(S), m < n
    PROVE  Nth(S, m) < Nth(S, n)
<1> DEFINE i == Nth(S, m)
           k == Nth(S, n)
<1>1. i \in S /\ Rank(S, i) = m /\ k \in S /\ Rank(S, k) = n
  BY NthIs
<1> HIDE DEF i, k
<1>2. ~(k < i)
  BY <1>1, RankGrows
<1>3. i # k
  BY <1>1
<1>4. i < k
  BY <1>1, <1>2, <1>3
<1> QED BY <1>4 DEF i, k

\* In a set of places that holds all from the i-th on, the i-th has as many
\* after it as there are places left.
LEMMA TailRank ==
    ASSUME NEW L \in Nat, NEW S \in SUBSET (1..L), NEW i \in S, \A j \in i..L : j \in S
    PROVE  Rank(S, i) = Cardinality(S) - (L - i)
<1> DEFINE I == {j \in S : j <= i}
           J == (i + 1)..L
<1>0. i \in 1..L /\ i \in Nat
  OBVIOUS
<1>1. S = I \cup J /\ I \cap J = {}
  <2>1. \A j \in S : j \in 1..L
    OBVIOUS
  <2>2. ASSUME NEW j \in S PROVE j \in I \cup J
    BY <1>0, <2>1
  <2>3. ASSUME NEW j \in J PROVE j \in S /\ j \notin I
    <3>1. j \in i..L /\ ~(j <= i)
      BY <1>0
    <3> QED BY <3>1
  <2> HIDE DEF J
  <2> QED BY <2>2, <2>3
<1>2. IsFiniteSet(J) /\ Cardinality(J) = L - i
  <2>1. PICK n : n = i + 1
    OBVIOUS
  <2>2. n \in Int /\ L \in Int /\ (n > L => L - i = 0) /\ L - n + 1 = L - i
    BY <1>0, <2>1
  <2>3. IsFiniteSet(n..L) /\ Cardinality(n..L) = IF n > L THEN 0 ELSE L - n + 1
    BY <2>2, FS_Interval
  <2> QED BY <2>1, <2>2, <2>3
<1>3. IsFiniteSet(S)
  <2>1. IsFiniteSet(1..L)
    BY FS_Interval
  <2> QED BY <2>1, FS_Subset
<1>4. I \in SUBSET S
  OBVIOUS
<1>5. Rank(S, i) = Cardinality(I)
  BY DEF Rank
<1> HIDE DEF I, J
<1>6. IsFiniteSet(I)
  BY <1>3, <1>4, FS_Subset
<1>7. Cardinality(S) = Cardinality(I) + Cardinality(J) - Cardinality(I \cap J)
  BY <1>1, <1>2, <1>6, FS_Union
<1>8. Cardinality(I) \in Nat /\ Cardinality(I \cap J) = 0
  BY <1>1, <1>6, FS_CardinalityType, FS_EmptySet
<1> QED BY <1>0, <1>2, <1>5, <1>7, <1>8

\* What holds of each number where it holds of the one before holds of all.
LEMMA StaysIn ==
    ASSUME NEW L \in Nat, NEW f, NEW V,
           \A n \in 0..L : n <= 1 \/ f[n - 1] \in V => f[n] \in V
    PROVE  \A n \in 0..L : f[n] \in V
<1> DEFINE Wrong == {n \in 0..L : f[n] \notin V}
<1>1. Wrong = {}
  <2> SUFFICES ASSUME Wrong # {} PROVE FALSE
    OBVIOUS
  <2>1. Wrong \subseteq Nat
    OBVIOUS
  <2> HIDE DEF Wrong
  <2>2. PICK k \in Wrong : \A m \in Wrong : ~(<<m, k>> \in OpToRel(<, Nat))
    BY <2>1, NatLessThanWellFounded, WFMin
  <2>3. \A m \in Wrong : ~(m < k)
    BY <2>1, <2>2 DEF OpToRel
  <2>4. k \in 0..L /\ f[k] \notin V
    BY <2>2 DEF Wrong
  <2>5. k > 1 /\ f[k - 1] \notin V
    BY <2>4
  <2>6. k - 1 \in 0..L /\ k - 1 < k
    BY <2>4, <2>5
  <2> QED BY <2>3, <2>5, <2>6 DEF Wrong
<1> QED BY <1>1

\* A row of values, each made of the one before, exists.
IsRow(f, L, a, F) == \A n \in 0..L : f[n] = IF n <= 1 THEN a ELSE F[f[n - 1]]

LEMMA RowExists ==
    ASSUME NEW L \in Nat, NEW V, NEW a \in V, NEW F \in [V -> V]
    PROVE  \E f \in [0..L -> V] : IsRow(f, L, a, F)
<1> DEFINE UpTo(f, k) == \A n \in 0..L : n <= k => f[n] = IF n <= 1 THEN a ELSE F[f[n - 1]]
           made == [k \in 0..L |-> \E f \in [0..L -> V] : UpTo(f, k)]
<1>1. \A k \in 0..L : made[k] \in {TRUE}
  <2>1. ASSUME NEW k \in 0..L, k <= 1 \/ made[k - 1] \in {TRUE}
        PROVE  \E f \in [0..L -> V] : UpTo(f, k)
    <3>0. k \in Nat
      OBVIOUS
    <3>1. CASE k <= 1
      <4> DEFINE f == [n \in 0..L |-> a]
      <4>1. f \in [0..L -> V]
        OBVIOUS
      <4>2. UpTo(f, k)
        BY <3>0, <3>1
      <4> HIDE DEF f, UpTo
      <4> QED BY <4>1, <4>2
    <3>2. CASE k > 1
      <4>0. k - 1 \in 0..L
        BY <3>2
      <4>1. PICK f \in [0..L -> V] : UpTo(f, k - 1)
        <5> HIDE DEF UpTo
        <5> QED BY <2>1, <3>0, <3>2, <4>0
      <4> DEFINE g == [n \in 0..L |-> IF n = k THEN F[f[k - 1]] ELSE f[n]]
      <4>2. g \in [0..L -> V]
        BY <4>0
      <4>3. UpTo(g, k)
        <5> SUFFICES ASSUME NEW n \in 0..L, n <= k
                     PROVE  g[n] = IF n <= 1 THEN a ELSE F[g[n - 1]]
          OBVIOUS
        <5>1. CASE n = k
          <6>1. g[n] = F[f[k - 1]] /\ g[n - 1] = f[k - 1]
            BY <3>0, <4>0, <5>1
          <6> QED BY <3>2, <5>1, <6>1
        <5>2. CASE n # k
          <6>1. n <= k - 1 /\ n - 1 # k
            BY <3>0, <5>2
          <6>2. f[n] = IF n <= 1 THEN a ELSE F[f[n - 1]]
            BY <4>1, <6>1
          <6>3. g[n] = f[n] /\ (n > 1 => g[n - 1] = f[n - 1])
            BY <5>2, <6>1
          <6> QED BY <6>2, <6>3
        <5> QED BY <5>1, <5>2
      <4> HIDE DEF g, UpTo
      <4> QED BY <4>2, <4>3
    <3> QED BY <3>0, <3>1, <3>2
  <2> DEFINE good(k) == \E f \in [0..L -> V] : UpTo(f, k)
  <2>2. \A k \in 0..L : made[k] = good(k)
    OBVIOUS
  <2>3. \A k \in 0..L : k <= 1 \/ made[k - 1] \in {TRUE} => good(k)
    BY <2>1
  <2> HIDE DEF good, made
  <2>4. \A k \in 0..L : k <= 1 \/ made[k - 1] \in {TRUE} => made[k] \in {TRUE}
    BY <2>2, <2>3
  <2> QED BY <2>4, StaysIn
<1>2. PICK f \in [0..L -> V] : UpTo(f, L)
  <2>1. L \in 0..L
    OBVIOUS
  <2> HIDE DEF UpTo
  <2> QED BY <1>1, <2>1
<1>3. IsRow(f, L, a, F)
  BY <1>2 DEF IsRow
<1> QED BY <1>3

-----------------------------------------------------------------------------
(* The history of beats.                                                   *)

LEMMA HistoryIs ==
    ASSUME NEW beats \in Seq(Beats)
    PROVE  /\ Len(beats) \in Nat /\ DOMAIN beats = 1..Len(beats)
           /\ \A i \in DOMAIN beats : /\ beats[i] \in Beats
                                     /\ beats[i].age \in 0..Keep /\ beats[i].outcome \in Outcomes
<1>1. Len(beats) \in Nat /\ DOMAIN beats = 1..Len(beats) /\ \A i \in DOMAIN beats : beats[i] \in Beats
  OBVIOUS
<1> QED BY <1>1 DEF Beats

\* What is pruned is what is kept, in its order.
LEMMA PruneIs ==
    ASSUME NEW beats \in Seq(Beats)
    PROVE  /\ Kept(beats) \in SUBSET Int /\ IsFiniteSet(Kept(beats))
           /\ Kept(beats) \subseteq DOMAIN beats
           /\ DOMAIN prune(beats) = 1..Cardinality(Kept(beats)) /\ Cardinality(Kept(beats)) \in Nat
           /\ \A n \in DOMAIN prune(beats) : /\ Nth(Kept(beats), n) \in Kept(beats)
                                            /\ prune(beats)[n] = beats[Nth(Kept(beats), n)]
           /\ prune(beats) \in Seq(Beats)
<1> DEFINE K == Kept(beats)
<1>1. K \in SUBSET DOMAIN beats /\ DOMAIN beats = 1..Len(beats) /\ Len(beats) \in Nat
  BY HistoryIs DEF Kept
<1>2. IsFiniteSet(1..Len(beats))
  BY <1>1, FS_Interval
<1> HIDE DEF K
<1>3. IsFiniteSet(K) /\ Cardinality(K) \in Nat /\ K \in SUBSET Int
  <2>1. K \in SUBSET (1..Len(beats))
    BY <1>1
  <2>2. IsFiniteSet(K)
    BY <1>2, <2>1, FS_Subset
  <2>3. 1..Len(beats) \subseteq Int
    BY <1>1
  <2> QED BY <2>1, <2>2, <2>3, FS_CardinalityType
<1>4. prune(beats) = [n \in 1..Cardinality(K) |-> beats[Nth(K, n)]]
  BY DEF prune, K
<1>5. \A n \in 1..Cardinality(K) : Nth(K, n) \in K
  BY <1>3, NthIs
<1>6. prune(beats) \in Seq(Beats)
  <2>1. \A n \in 1..Cardinality(K) : beats[Nth(K, n)] \in Beats
    BY <1>1, <1>5, HistoryIs
  <2> QED BY <1>3, <1>4, <2>1
<1>7. /\ DOMAIN prune(beats) = 1..Cardinality(K)
      /\ \A n \in DOMAIN prune(beats) : prune(beats)[n] = beats[Nth(K, n)]
  BY <1>4
<1> QED BY <1>1, <1>3, <1>5, <1>6, <1>7 DEF K

Charged(beats, span) == {i \in DOMAIN beats : beats[i].age < span /\ Charges(beats[i].outcome)}

LEMMA ChargedIs ==
    ASSUME NEW beats \in Seq(Beats), NEW span
    PROVE  /\ Charged(beats, span) \in SUBSET DOMAIN beats /\ IsFiniteSet(Charged(beats, span))
           /\ countSince(beats, span) = Cardinality(Charged(beats, span))
           /\ countSince(beats, span) \in Nat
<1>1. Charged(beats, span) \in SUBSET (1..Len(beats))
  BY HistoryIs DEF Charged
<1>2. IsFiniteSet(1..Len(beats))
  BY HistoryIs, FS_Interval
<1>3. IsFiniteSet(Charged(beats, span))
  BY <1>1, <1>2, FS_Subset
<1>4. countSince(beats, span) = Cardinality(Charged(beats, span))
  BY DEF countSince, Charged
<1> QED BY <1>1, <1>3, <1>4, FS_CardinalityType, HistoryIs

\* No ceiling counts a beat that is dropped.
LEMMA PruneCounts ==
    ASSUME NEW beats \in Seq(Beats), NEW span \in Nat, span <= Keep
    PROVE  countSince(prune(beats), span) = countSince(beats, span)
<1> DEFINE K == Kept(beats)
           S == Charged(prune(beats), span)
           T == Charged(beats, span)
           f == [n \in S |-> Nth(K, n)]
<1>1. /\ K \in SUBSET Int /\ IsFiniteSet(K) /\ K \subseteq DOMAIN beats
      /\ DOMAIN prune(beats) = 1..Cardinality(K) /\ prune(beats) \in Seq(Beats)
      /\ \A n \in DOMAIN prune(beats) : Nth(K, n) \in K /\ prune(beats)[n] = beats[Nth(K, n)]
  BY PruneIs
<1>2. T \subseteq K
  BY HistoryIs, ConstantsAssumption DEF Charged, Kept
<1>3. \A n \in S : n \in 1..Cardinality(K) /\ Nth(K, n) \in T
  BY <1>1 DEF Charged
<1>4. \A i \in T : Rank(K, i) \in S /\ Nth(K, Rank(K, i)) = i
  <2> SUFFICES ASSUME NEW i \in T PROVE Rank(K, i) \in S /\ Nth(K, Rank(K, i)) = i
    OBVIOUS
  <2>1. i \in K
    BY <1>2
  <2> HIDE DEF K
  <2>2. Rank(K, i) \in 1..Cardinality(K) /\ Nth(K, Rank(K, i)) = i
    BY <1>1, <2>1, RankIs, NthIs
  <2> QED BY <1>1, <2>2 DEF Charged
<1>5. \A m, n \in S : Nth(K, m) = Nth(K, n) => m = n
  <2>1. \A n \in 1..Cardinality(K) : Rank(K, Nth(K, n)) = n
    BY <1>1, NthIs
  <2> QED BY <1>3, <2>1
<1> HIDE DEF K, S, T
<1>6. f \in Bijection(S, T)
  BY <1>3, <1>4, <1>5 DEF Bijection, Injection, Surjection, IsInjective
<1>7. ExistsBijection(S, T)
  BY <1>6 DEF ExistsBijection
<1>8. IsFiniteSet(S)
  BY <1>1, ChargedIs DEF S
<1>9. Cardinality(T) = Cardinality(S)
  BY <1>7, <1>8, FS_Bijection
<1> QED BY <1>1, <1>9, ChargedIs DEF S, T

LEMMA AgedIs ==
    ASSUME NEW beats \in Seq(Beats)
    PROVE  /\ Aged(beats) \in Seq(Beats) /\ DOMAIN Aged(beats) = DOMAIN beats
           /\ \A i \in DOMAIN beats :
                 /\ Aged(beats)[i].outcome = beats[i].outcome
                 /\ Aged(beats)[i].age = IF beats[i].age + 1 <= Keep THEN beats[i].age + 1 ELSE Keep
<1>1. ASSUME NEW i \in DOMAIN beats
      PROVE  /\ Aged(beats)[i].outcome = beats[i].outcome
             /\ Aged(beats)[i].age = IF beats[i].age + 1 <= Keep THEN beats[i].age + 1 ELSE Keep
             /\ Aged(beats)[i] \in Beats
  <2> DEFINE b == beats[i]
             a == Min({b.age + 1, Keep})
  <2>1. b \in Beats /\ b.age \in Int /\ b.age >= 0 /\ Keep \in Int /\ Keep >= 0
    <3>1. b \in Beats /\ b.age \in 0..Keep
      BY HistoryIs
    <3> HIDE DEF b
    <3> QED BY <3>1, ConstantsAssumption
  <2>2. Aged(beats)[i] = [b EXCEPT !.age = a]
    BY DEF Aged
  <2> HIDE DEF b
  <2>3. a = IF b.age + 1 <= Keep THEN b.age + 1 ELSE Keep
    BY <2>1, MinIs
  <2>4. a \in 0..Keep
    BY <2>1, <2>3
  <2> HIDE DEF a
  <2>5. [b EXCEPT !.age = a].outcome = b.outcome /\ [b EXCEPT !.age = a].age = a
        /\ [b EXCEPT !.age = a] \in Beats
    BY <2>1, <2>4 DEF Beats
  <2> QED BY <2>2, <2>3, <2>5 DEF b
<1>2. /\ DOMAIN Aged(beats) = DOMAIN beats /\ Len(beats) \in Nat /\ DOMAIN beats = 1..Len(beats)
      /\ Aged(beats) = [i \in DOMAIN beats |-> Aged(beats)[i]]
  BY HistoryIs DEF Aged
<1>3. Aged(beats) \in Seq(Beats)
  <2>1. Aged(beats) \in [1..Len(beats) -> Beats]
    BY <1>1, <1>2
  <2> QED BY <1>2, <2>1
<1> QED BY <1>1, <1>2, <1>3

\* A beat that was younger than a span is a tick later younger than the next.
LEMMA AgedCounts ==
    ASSUME NEW beats \in Seq(Beats), NEW span \in Nat, span + 1 <= Keep
    PROVE  countSince(Aged(beats), span + 1) = countSince(beats, span)
<1>1. Charged(Aged(beats), span + 1) = Charged(beats, span)
  <2>1. ASSUME NEW i \in DOMAIN beats
        PROVE  Aged(beats)[i].age < span + 1 <=> beats[i].age < span
    <3> DEFINE a == beats[i].age
               b == Aged(beats)[i].age
    <3>1. a \in 0..Keep /\ b = IF a + 1 <= Keep THEN a + 1 ELSE Keep
      BY AgedIs, HistoryIs
    <3> HIDE DEF a, b
    <3>2. a \in Nat /\ Keep \in Nat
      BY <3>1, ConstantsAssumption
    <3>3. b < span + 1 <=> a < span
      BY <3>1, <3>2
    <3> QED BY <3>3 DEF a, b
  <2> QED BY <2>1, AgedIs DEF Charged
<1> QED BY <1>1, AgedIs, ChargedIs

LEMMA NoneSinceNow == ASSUME NEW beats \in Seq(Beats) PROVE countSince(beats, 0) = 0
<1>1. Charged(beats, 0) = {}
  BY HistoryIs DEF Charged
<1> QED BY <1>1, ChargedIs, FS_EmptySet

LEMMA AppendCounts ==
    ASSUME NEW beats \in Seq(Beats), NEW o \in Outcomes, NEW span \in Nat \ {0}
    PROVE  /\ Append(beats, [age |-> 0, outcome |-> o]) \in Seq(Beats)
           /\ countSince(Append(beats, [age |-> 0, outcome |-> o]), span) =
                 countSince(beats, span) + (IF Charges(o) THEN 1 ELSE 0)
<1> DEFINE b == [age |-> 0, outcome |-> o]
           after == Append(beats, b)
           n == Len(beats) + 1
<1>1. b \in Beats /\ b.age = 0 /\ b.outcome = o
  BY ConstantsAssumption DEF Beats
<1> HIDE DEF b
<1>2. /\ after \in Seq(Beats) /\ DOMAIN after = DOMAIN beats \cup {n} /\ n \notin DOMAIN beats
      /\ after[n] = b /\ \A i \in DOMAIN beats : after[i] = beats[i]
  BY <1>1, HistoryIs
<1> HIDE DEF after, n
<1>3. Charged(after, span) = Charged(beats, span) \cup (IF Charges(o) THEN {n} ELSE {})
  BY <1>1, <1>2 DEF Charged
<1>4. n \notin Charged(beats, span) /\ IsFiniteSet(Charged(beats, span))
  BY <1>2, ChargedIs
<1>5. Cardinality(Charged(after, span)) =
        Cardinality(Charged(beats, span)) + (IF Charges(o) THEN 1 ELSE 0)
  <2>1. Cardinality(Charged(beats, span)) \in Nat
    BY <1>4, FS_CardinalityType
  <2>2. CASE Charges(o)
    BY <1>3, <1>4, <2>2, FS_AddElement
  <2>3. CASE ~Charges(o)
    <3>1. Charged(after, span) = Charged(beats, span)
      BY <1>3, <2>3
    <3> QED BY <2>1, <2>3, <3>1
  <2> QED BY <2>2, <2>3
<1> QED BY <1>2, <1>5, ChargedIs DEF b, after

-----------------------------------------------------------------------------
(* What Check and Record answer.                                           *)

\* The wait is a number up to the maximum, however long the row of refusals:
\* the function its definition describes exists, and stays within it.
Wait1 == Min({BackoffBase, BackoffMax})
WaitAfter(w) == Min({BackoffFactor * w, BackoffMax})

LEMMA WaitsAre ==
    Wait1 \in 0..BackoffMax /\ \A w \in 0..BackoffMax : WaitAfter(w) \in 0..BackoffMax
<1>1. BackoffBase \in Nat /\ BackoffMax \in Nat /\ BackoffFactor \in Nat
  BY ConstantsAssumption
<1>2. \A w \in 0..BackoffMax : BackoffFactor * w \in Nat
  BY <1>1
<1>3. \A a \in Nat : Min({a, BackoffMax}) \in 0..BackoffMax
  BY <1>1, MinIs
<1> QED BY <1>1, <1>2, <1>3 DEF Wait1, WaitAfter

LEMMA WaitExists ==
    ASSUME NEW L \in Nat
    PROVE  \E f : f = [n \in 0..L |-> IF n <= 1 THEN Wait1 ELSE WaitAfter(f[n - 1])]
<1> DEFINE V == 0..BackoffMax
           F == [w \in V |-> WaitAfter(w)]
<1>1. Wait1 \in V /\ F \in [V -> V] /\ \A w \in V : F[w] = WaitAfter(w)
  BY WaitsAre
<1> HIDE DEF V, F
<1>2. PICK f \in [0..L -> V] : IsRow(f, L, Wait1, F)
  BY <1>1, RowExists
<1>3. \A n \in 0..L : f[n] = IF n <= 1 THEN Wait1 ELSE F[f[n - 1]]
  BY <1>2 DEF IsRow
<1>4. \A n \in 0..L : n > 1 => f[n - 1] \in V
  BY <1>2
<1>5. \A n \in 0..L : f[n] = IF n <= 1 THEN Wait1 ELSE WaitAfter(f[n - 1])
  BY <1>1, <1>3, <1>4
<1>6. f = [n \in 0..L |-> f[n]]
  OBVIOUS
<1>7. f = [n \in 0..L |-> IF n <= 1 THEN Wait1 ELSE WaitAfter(f[n - 1])]
  BY <1>5, <1>6
<1> QED BY <1>7

LEMMA WaitStays ==
    ASSUME NEW L \in Nat, NEW f, f = [n \in 0..L |-> IF n <= 1 THEN Wait1 ELSE WaitAfter(f[n - 1])]
    PROVE  \A n \in 0..L : f[n] \in 0..BackoffMax
<1>1. \A n \in 0..L : f[n] = IF n <= 1 THEN Wait1 ELSE WaitAfter(f[n - 1])
  OBVIOUS
<1>2. \A n \in 0..L : n <= 1 \/ f[n - 1] \in 0..BackoffMax => f[n] \in 0..BackoffMax
  BY <1>1, WaitsAre
<1> QED BY <1>2, StaysIn

LEMMA BackoffIs ==
    ASSUME NEW beats \in Seq(Beats) PROVE backoffFor(beats) \in 0..BackoffMax
<1> DEFINE L == Len(beats)
           W == CHOOSE f : f = [n \in 0..L |-> IF n <= 1 THEN Wait1 ELSE WaitAfter(f[n - 1])]
           I == {i \in 1..L : beats[i].outcome # "ratelimit"}
<1>1. L \in Nat
  BY HistoryIs
<1>2. consecutiveRateLimits(beats) \in 0..L
  <2>1. I \in SUBSET Nat /\ \A i \in I : i <= L
    BY <1>1
  <2>2. I # {} => Max(I) \in I
    <3> HIDE DEF I, L
    <3> QED BY <1>1, <2>1, MaxIs
  <2>3. consecutiveRateLimits(beats) = L - (IF I # {} THEN Max(I) ELSE 0)
    BY DEF consecutiveRateLimits, SelectLastInSeq
  <2>4. (IF I # {} THEN Max(I) ELSE 0) \in 0..L
    BY <1>1, <2>1, <2>2
  <2> HIDE DEF I, L
  <2> QED BY <1>1, <2>3, <2>4
<1>3. backoffFor(beats) = W[consecutiveRateLimits(beats)]
  BY DEF backoffFor, Wait1, WaitAfter
<1> HIDE DEF L
<1>4. W = [n \in 0..L |-> IF n <= 1 THEN Wait1 ELSE WaitAfter(W[n - 1])]
  BY <1>1, WaitExists
<1> HIDE DEF W
<1>5. W[consecutiveRateLimits(beats)] \in 0..BackoffMax
  BY <1>1, <1>2, <1>4, WaitStays
<1> QED BY <1>3, <1>5

\* The window's oldest beat is in the window.
LEMMA OldestIs ==
    ASSUME NEW beats \in Seq(Beats), countSince(beats, Window) > 0
    PROVE  oldestInWindow(beats) \in 0..(Window - 1)
<1> DEFINE A == {b.age : b \in {c \in ToSet(beats) : c.age < Window /\ Charges(c.outcome)}}
<1>1. Charged(beats, Window) # {}
  BY ChargedIs, FS_EmptySet
<1>2. A # {}
  BY <1>1, HistoryIs DEF Charged, ToSet
<1>3. A \in SUBSET Nat /\ \A a \in A : a < Window
  BY HistoryIs, ConstantsAssumption DEF ToSet
<1> HIDE DEF A
<1>4. Max(A) \in A
  <2>1. Window \in Nat
    BY ConstantsAssumption
  <2>2. \A n \in Nat : n < Window => n <= Window
    BY <2>1
  <2>3. \A a \in A : a <= Window
    BY <1>3, <2>2, Zenon
  <2> QED BY <1>2, <1>3, <2>1, <2>3, MaxIs
<1>5. oldestInWindow(beats) = Max(A)
  BY Zenon DEF oldestInWindow, A
<1>6. \A a \in A : a \in 0..(Window - 1)
  BY <1>3, ConstantsAssumption
<1> QED BY <1>4, <1>5, <1>6

Ledgers == [beats : Seq(Beats), cooldown : Times, alerted : Times]

LEMMA RetryAfterIs ==
    ASSUME NEW l \in Ledgers, hour \in 0..(Day - 1)
    PROVE  /\ RetryAfter(l) \in Times
           /\ RetryAfter(l) = 0 => /\ l.cooldown = 0
                                   /\ countSince(l.beats, Window) < WindowBeats
                                   /\ countSince(l.beats, hour + 1) < DailyBeats
<1>1. l.beats \in Seq(Beats) /\ l.cooldown \in Nat /\ l.cooldown \in Times
  BY TopIs DEF Ledgers
<1>2. countSince(l.beats, Window) \in Nat /\ countSince(l.beats, hour + 1) \in Nat
  BY <1>1, ChargedIs
<1>3. CASE l.cooldown > 0
  BY <1>1, <1>3 DEF RetryAfter
<1>4. CASE l.cooldown = 0 /\ countSince(l.beats, Window) >= WindowBeats
  <2>1. countSince(l.beats, Window) > 0
    BY <1>2, <1>4, ConstantsAssumption
  <2>2. oldestInWindow(l.beats) \in 0..(Window - 1)
    BY <1>1, <2>1, OldestIs
  <2>3. RetryAfter(l) = Window - oldestInWindow(l.beats)
    BY <1>1, <1>4 DEF RetryAfter
  <2>4. RetryAfter(l) \in 1..Window
    BY <2>2, <2>3, ConstantsAssumption
  <2> QED BY <2>4, TopIs, ConstantsAssumption
<1>5. CASE /\ l.cooldown = 0 /\ countSince(l.beats, Window) < WindowBeats
           /\ countSince(l.beats, hour + 1) >= DailyBeats
  <2>1. RetryAfter(l) = Day - hour
    BY <1>1, <1>2, <1>5, ConstantsAssumption DEF RetryAfter
  <2> QED BY <2>1, TopIs, ConstantsAssumption
<1>6. CASE /\ l.cooldown = 0 /\ countSince(l.beats, Window) < WindowBeats
           /\ countSince(l.beats, hour + 1) < DailyBeats
  <2>1. RetryAfter(l) = 0
    BY <1>1, <1>2, <1>6, ConstantsAssumption DEF RetryAfter
  <2> QED BY <1>6, <2>1, TopIs
<1> QED BY SMTT(30), <1>1, <1>2, <1>3, <1>4, <1>5, <1>6, ConstantsAssumption

LEMMA RecordIs ==
    ASSUME NEW l \in Ledgers, NEW o \in Outcomes
    PROVE  /\ Record(l, o) \in Ledgers
           /\ Record(l, o).beats = Append(l.beats, [age |-> 0, outcome |-> o])
<1> DEFINE beats == Append(l.beats, [age |-> 0, outcome |-> o])
           wait == CASE o = "ratelimit" -> backoffFor(beats)
                     [] o = "exhausted" -> BackoffMax
                     [] o = "ok"        -> 0
                     [] o = "error"     -> l.cooldown
           mark == IF o = "ok" THEN 0 ELSE l.alerted
<1>1. l.beats \in Seq(Beats) /\ l.cooldown \in Times /\ l.alerted \in Times
  BY DEF Ledgers
<1>2. beats \in Seq(Beats)
  BY <1>1, AppendCounts, ConstantsAssumption
<1>3. Record(l, o) = [beats |-> beats, cooldown |-> wait, alerted |-> mark]
  BY DEF Record
<1>4. backoffFor(beats) \in Times /\ BackoffMax \in Times /\ 0 \in Times
  <2> HIDE DEF beats
  <2> QED BY <1>2, BackoffIs, TopIs, ConstantsAssumption
<1>5. wait \in Times /\ mark \in Times
  <2>1. o \in {"ok", "ratelimit", "error", "exhausted"}
    BY ConstantsAssumption
  <2> HIDE DEF beats
  <2> QED BY <1>1, <1>4, <2>1
<1> HIDE DEF beats, wait, mark
<1>6. Record(l, o) \in Ledgers /\ Record(l, o).beats = beats
  BY <1>2, <1>3, <1>5 DEF Ledgers
<1> QED BY <1>6 DEF beats

LEMMA SaveIs ==
    ASSUME NEW l \in Ledgers
    PROVE  /\ Save(l) \in Ledgers /\ Save(l).beats = prune(l.beats)
           /\ Save(l).cooldown = l.cooldown /\ Save(l).alerted = l.alerted
<1>1. prune(l.beats) \in Seq(Beats)
  BY PruneIs DEF Ledgers
<1>2. Save(l) = [l EXCEPT !.beats = prune(l.beats)]
  BY DEF Save
<1> QED BY <1>1, <1>2 DEF Ledgers

-----------------------------------------------------------------------------
(* Types.                                                                  *)

Runs == [pc : Pcs, up : 0..Stale, rest : 0..Cadence, outcome : Outcomes \cup {"none"}]

TypeInv ==
    /\ TypeOK
    /\ \A p \in Procs : proc[p].pc = "record" => proc[p].outcome \in Outcomes

LEMMA IdleIs ==
    ASSUME NEW rest \in 0..Cadence
    PROVE  Idle(rest) \in Runs /\ Idle(rest).pc = "idle" /\ Idle(rest).up = 0 /\ Idle(rest).rest = rest
BY ConstantsAssumption DEF Idle, Runs, Pcs

LEMMA GotoIs ==
    ASSUME TypeInv, NEW p \in Procs, NEW pc \in Pcs \ {"record"}, Goto(p, pc)
    PROVE  /\ proc' \in [Procs -> Runs]
           /\ proc'[p].pc = pc /\ proc'[p].up = proc[p].up /\ proc'[p].rest = proc[p].rest
           /\ \A q \in Procs \ {p} : proc'[q] = proc[q]
           /\ \A q \in Procs : proc'[q].pc = "record" => proc'[q].outcome \in Outcomes
<1>1. proc \in [Procs -> Runs]
  BY DEF TypeInv, TypeOK, Runs
<1>2. proc[p] \in Runs
  BY <1>1
<1>3. /\ [proc[p] EXCEPT !.pc = pc] \in Runs /\ [proc[p] EXCEPT !.pc = pc].pc = pc
      /\ [proc[p] EXCEPT !.pc = pc].up = proc[p].up
      /\ [proc[p] EXCEPT !.pc = pc].rest = proc[p].rest
  BY <1>2 DEF Runs
<1>4. proc' = [proc EXCEPT ![p] = [proc[p] EXCEPT !.pc = pc]]
  BY DEF Goto
<1> QED BY <1>1, <1>3, <1>4 DEF TypeInv

LEMMA StopIs ==
    ASSUME TypeInv, NEW p \in Procs, NEW rest \in 0..Cadence, proc' = [proc EXCEPT ![p] = Idle(rest)]
    PROVE  /\ proc' \in [Procs -> Runs] /\ proc'[p] = Idle(rest)
           /\ \A q \in Procs \ {p} : proc'[q] = proc[q]
           /\ \A q \in Procs : proc'[q].pc = "record" => proc'[q].outcome \in Outcomes
<1>1. proc \in [Procs -> Runs]
  BY DEF TypeInv, TypeOK, Runs
<1> QED BY <1>1, IdleIs DEF TypeInv

Tallies == [Times \ {0} -> 0..3]

LEMMA CountedIs ==
    ASSUME NEW f \in Tallies, NEW t \in Times \ {0}
    PROVE  /\ Counted(f, t) \in Tallies
           /\ f[t] < 3 => Counted(f, t)[t] = f[t] + 1
           /\ \A u \in (Times \ {0}) \ {t} : Counted(f, t)[u] = f[u]
           /\ \A g \in Tallies : f[t] <= g[t] => /\ f[t] <= Counted(g, t)[t]
                                               /\ Counted(f, t)[t] <= Counted(g, t)[t]
<1>1. f[t] \in 0..3 /\ Min({3, f[t] + 1}) = IF f[t] = 3 THEN 3 ELSE f[t] + 1
  <2>1. f[t] \in 0..3
    BY DEF Tallies
  <2> QED BY <2>1, MinIs
<1>2. \A g \in Tallies : g[t] \in 0..3 /\ Min({3, g[t] + 1}) = IF g[t] = 3 THEN 3 ELSE g[t] + 1
  <2>1. \A g \in Tallies : g[t] \in 0..3
    BY DEF Tallies
  <2> QED BY <2>1, MinIs
<1>3. \A g \in Tallies : Counted(g, t)[t] = IF g[t] = 3 THEN 3 ELSE g[t] + 1
  BY <1>2 DEF Counted, Tallies
<1>4. /\ Counted(f, t) \in Tallies
      /\ \A u \in (Times \ {0}) \ {t} : Counted(f, t)[u] = f[u]
  BY <1>1 DEF Counted, Tallies
<1>5. f[t] < 3 => Counted(f, t)[t] = f[t] + 1
  BY <1>1, <1>3
<1>6. ASSUME NEW g \in Tallies, f[t] <= g[t]
      PROVE  f[t] <= Counted(g, t)[t] /\ Counted(f, t)[t] <= Counted(g, t)[t]
  <2>1. g[t] \in 0..3 /\ f[t] \in 0..3
    BY <1>1, <1>2
  <2>2. Counted(g, t)[t] = (IF g[t] = 3 THEN 3 ELSE g[t] + 1) /\ Counted(f, t)[t] = IF f[t] = 3 THEN 3 ELSE f[t] + 1
    BY <1>3
  <2> QED BY <1>6, <2>1, <2>2
<1> QED BY <1>4, <1>5, <1>6

LEMMA AlertIs ==
    ASSUME TypeInv, NEW t \in Times \ {0}, Alert(t)
    PROVE  alerts' \in Tallies /\ mailed' \in Tallies
<1>1. alerts \in Tallies /\ mailed \in Tallies
  BY DEF TypeInv, TypeOK, Tallies
<1>2. Counted(alerts, t) \in Tallies /\ Counted(mailed, t) \in Tallies
  BY <1>1, CountedIs
<1> QED BY <1>1, <1>2 DEF Alert

LEMMA TypeParts ==
    TypeOK <=> /\ hour \in 0..(Day - 1) /\ lock \in [held : BOOLEAN, age : 0..Stale]
               /\ ledger \in Ledgers /\ proc \in [Procs -> Runs] /\ crashes \in 0..MaxCrashes
               /\ calls \in Seq(Beats) /\ alerts \in Tallies /\ mailed \in Tallies
BY DEF TypeOK, Ledgers, Runs, Tallies

LEMMA Locks == Free \in [held : BOOLEAN, age : 0..Stale] /\ Fresh \in [held : BOOLEAN, age : 0..Stale]
BY ConstantsAssumption DEF Free, Fresh

LEMMA EmptyIs == EmptyLedger \in Ledgers
BY TopIs DEF EmptyLedger, Ledgers

LEMMA NextHour ==
    ASSUME hour \in 0..(Day - 1) PROVE (hour + 1) % Day = IF hour + 1 = Day THEN 0 ELSE hour + 1
<1>1. hour \in Nat /\ Day \in Nat \ {0} /\ hour + 1 <= Day
  BY ConstantsAssumption
<1>2. CASE hour + 1 = Day
  BY <1>1, <1>2
<1>3. CASE hour + 1 < Day
  BY <1>1, <1>3
<1> QED BY <1>1, <1>2, <1>3

LEMMA TypeInit == Init => TypeInv
<1> SUFFICES ASSUME Init PROVE TypeInv
  OBVIOUS
<1>1. EmptyLedger \in Ledgers
  BY EmptyIs
<1>2. 0 \in 0..Cadence /\ 0 \in 0..MaxCrashes
  BY ConstantsAssumption
<1>3. proc \in [Procs -> Runs] /\ \A p \in Procs : proc[p].pc = "idle"
  BY <1>2, IdleIs DEF Init
<1>4. alerts \in Tallies /\ mailed \in Tallies
  BY DEF Init, Tallies
<1>5. TypeOK
  BY <1>1, <1>2, <1>3, <1>4, Locks, TypeParts DEF Init
<1> QED BY <1>3, <1>5 DEF TypeInv

LEMMA TypeStep == TypeInv /\ [Next]_vars => TypeInv'
<1> SUFFICES ASSUME TypeInv, [Next]_vars PROVE TypeInv'
  OBVIOUS
<1> DEFINE Typed == /\ proc' \in [Procs -> Runs]
                    /\ \A q \in Procs : proc'[q].pc = "record" => proc'[q].outcome \in Outcomes
           Rest == /\ hour' \in 0..(Day - 1) /\ lock' \in [held : BOOLEAN, age : 0..Stale]
                   /\ ledger' \in Ledgers /\ crashes' \in 0..MaxCrashes
                   /\ calls' \in Seq(Beats) /\ alerts' \in Tallies /\ mailed' \in Tallies
<1>0. /\ hour \in 0..(Day - 1) /\ lock \in [held : BOOLEAN, age : 0..Stale]
      /\ ledger \in Ledgers /\ proc \in [Procs -> Runs] /\ crashes \in 0..MaxCrashes
      /\ calls \in Seq(Beats) /\ alerts \in Tallies /\ mailed \in Tallies
  BY TypeParts DEF TypeInv
<1>cad. Cadence \in 0..Cadence /\ 0 \in 0..Cadence
  BY ConstantsAssumption
<1>q. SUFFICES Typed /\ Rest
  <2>1. TypeOK' <=> /\ hour' \in 0..(Day - 1) /\ lock' \in [held : BOOLEAN, age : 0..Stale]
                    /\ ledger' \in Ledgers /\ proc' \in [Procs -> Runs] /\ crashes' \in 0..MaxCrashes
                    /\ calls' \in Seq(Beats) /\ alerts' \in Tallies /\ mailed' \in Tallies
    BY DEF TypeOK, Ledgers, Runs, Tallies
  <2> QED BY <2>1 DEF TypeInv
<1>1. ASSUME NEW p \in Procs, Refuse(p) PROVE Typed /\ Rest
  <2>1. Typed
    BY <1>1, <1>cad, StopIs DEF Refuse
  <2>2. crashes' \in 0..MaxCrashes
    BY <1>0, <1>1, ConstantsAssumption DEF Refuse
  <2> QED BY <1>0, <1>1, <2>1, <2>2 DEF Refuse
<1>2. ASSUME NEW p \in Procs, TryLock(p) PROVE Typed /\ Rest
  <2>1. Typed
    <3>1. Goto(p, "check") \/ Goto(p, "stat")
      BY <1>2 DEF TryLock
    <3> QED BY <3>1, GotoIs DEF Pcs
  <2> QED BY <1>0, <1>2, <2>1, Locks DEF TryLock
<1>3. ASSUME NEW p \in Procs, StatLock(p) PROVE Typed /\ Rest
  <2>1. Typed
    <3>1. proc' = [proc EXCEPT ![p] = Idle(Cadence)] \/ Goto(p, "break")
      BY <1>3 DEF StatLock
    <3> QED BY <1>cad, <3>1, GotoIs, StopIs DEF Pcs
  <2> QED BY <1>0, <1>3, <2>1 DEF StatLock
<1>4. ASSUME NEW p \in Procs, BreakLock(p) PROVE Typed /\ Rest
  <2>1. Typed
    BY <1>4, GotoIs DEF BreakLock, Pcs
  <2> QED BY <1>0, <1>4, <2>1, Locks DEF BreakLock
<1>5. ASSUME NEW p \in Procs, RetakeLock(p) PROVE Typed /\ Rest
  <2>1. Typed
    BY <1>5, GotoIs DEF RetakeLock, Pcs
  <2> QED BY <1>0, <1>5, <2>1, Locks DEF RetakeLock
<1>6. ASSUME NEW p \in Procs, Proceed(p) PROVE Typed /\ Rest
  <2>1. Typed
    BY <1>6, GotoIs DEF Proceed, Pcs
  <2> QED BY <1>0, <1>6, <2>1 DEF Proceed
<1>7. ASSUME NEW p \in Procs, Hold(p) PROVE Typed /\ Rest
  <2> DEFINE key == RetryAfter(ledger)
  <2>1. Typed
    BY <1>7, GotoIs DEF Hold, Pcs
  <2>2. key \in Times \ {0}
    <3>1. key \in Times /\ key > 0
      BY <1>0, <1>7, RetryAfterIs DEF Hold
    <3> HIDE DEF key
    <3> QED BY <3>1
  <2>3. alerts' \in Tallies /\ mailed' \in Tallies
    <3>1. UNCHANGED <<alerts, mailed>> \/ Alert(key)
      BY <1>7 DEF Hold
    <3> HIDE DEF key
    <3> QED BY <1>0, <2>2, <3>1, AlertIs
  <2>4. ledger' \in Ledgers
    <3>1. ledger' = ledger \/ ledger' = Save([ledger EXCEPT !.alerted = key])
      BY <1>7 DEF Hold
    <3> HIDE DEF key
    <3>2. [ledger EXCEPT !.alerted = key] \in Ledgers
      BY <1>0, <2>2 DEF Ledgers
    <3> QED BY <1>0, <3>1, <3>2, SaveIs
  <2> QED BY <1>0, <1>7, <2>1, <2>3, <2>4 DEF Hold
<1>8. ASSUME NEW p \in Procs, EndBeat(p) PROVE Typed /\ Rest
  <2>1. PICK o \in Outcomes :
          /\ proc' = [proc EXCEPT ![p].pc = "record", ![p].outcome = o]
          /\ calls' = Append(calls, [age |-> 0, outcome |-> o])
    <3>1. Endings \subseteq Outcomes
      BY DEF Endings
    <3> QED BY <1>8, <3>1 DEF EndBeat
  <2>2. calls' \in Seq(Beats)
    BY <1>0, <2>1, AppendCounts, ConstantsAssumption
  <2> DEFINE r == [proc[p] EXCEPT !.pc = "record", !.outcome = o]
  <2>3. r \in Runs /\ r.outcome = o
    <3>1. proc[p] \in Runs
      BY <1>0
    <3> QED BY <3>1 DEF Runs, Pcs
  <2>4. proc' = [proc EXCEPT ![p] = r]
    BY <2>1
  <2> HIDE DEF r
  <2>5. Typed
    BY <1>0, <2>3, <2>4 DEF TypeInv
  <2> QED BY <1>0, <1>8, <2>2, <2>5 DEF EndBeat
<1>9. ASSUME NEW p \in Procs, RecordBeat(p) PROVE Typed /\ Rest
  <2>1. Typed
    BY <1>9, GotoIs DEF RecordBeat, Pcs
  <2>2. proc[p].outcome \in Outcomes
    BY <1>9 DEF RecordBeat, TypeInv
  <2>3. Loaded \subseteq Ledgers
    BY <1>0, EmptyIs DEF Loaded
  <2>4. ledger' \in Ledgers
    <3>1. ledger' = ledger \/ \E l \in Loaded : ledger' = Save(Record(l, proc[p].outcome))
      BY <1>9 DEF RecordBeat
    <3>2. \A l \in Loaded : Save(Record(l, proc[p].outcome)) \in Ledgers
      BY <2>2, <2>3, RecordIs, SaveIs
    <3> QED BY <1>0, <3>1, <3>2
  <2>5. alerts' \in Tallies /\ mailed' \in Tallies
    <3>1. UNCHANGED <<alerts, mailed>> \/ Alert(BackoffMax)
      BY <1>9 DEF RecordBeat
    <3>2. BackoffMax \in Times \ {0}
      BY TopIs, ConstantsAssumption
    <3> QED BY <1>0, <3>1, <3>2, AlertIs
  <2> QED BY <1>0, <1>9, <2>1, <2>4, <2>5 DEF RecordBeat
<1>10. ASSUME NEW p \in Procs, Leave(p) PROVE Typed /\ Rest
  <2>1. Typed
    BY <1>10, <1>cad, StopIs DEF Leave
  <2> QED BY <1>0, <1>10, <2>1, Locks DEF Leave
<1>11. ASSUME NEW p \in Procs, TimeOut(p) PROVE Typed /\ Rest
  <2>1. Typed
    BY <1>11, <1>cad, StopIs DEF TimeOut
  <2> QED BY <1>0, <1>11, <2>1, Locks DEF TimeOut
<1>12. ASSUME NEW p \in Procs, Crash(p) PROVE Typed /\ Rest
  <2>1. Typed
    BY <1>12, <1>cad, StopIs DEF Crash
  <2>2. crashes' \in 0..MaxCrashes
    BY <1>0, <1>12, ConstantsAssumption DEF Crash
  <2> QED BY <1>0, <1>12, <2>1, <2>2 DEF Crash
<1>13. ASSUME Tick PROVE Typed /\ Rest
  <2>1. hour' \in 0..(Day - 1)
    <3>1. hour' = IF hour + 1 = Day THEN 0 ELSE hour + 1
      BY <1>0, <1>13, NextHour DEF Tick
    <3> QED BY <1>0, <3>1, ConstantsAssumption
  <2>2. lock' \in [held : BOOLEAN, age : 0..Stale]
    <3> DEFINE a == Min({lock.age + 1, Stale})
    <3>1. a \in 0..Stale
      <4>1. lock.age + 1 \in Nat /\ Stale \in Nat
        BY <1>0, ConstantsAssumption
      <4> QED BY <4>1, MinIs
    <3>2. lock' = lock \/ lock' = [lock EXCEPT !.age = a]
      BY <1>13 DEF Tick
    <3> HIDE DEF a
    <3> QED BY <1>0, <3>1, <3>2
  <2>3. \A t \in Times : Less(t) \in Times
    BY TopIs DEF Less
  <2>4. ledger' \in Ledgers
    <3>1. Aged(ledger.beats) \in Seq(Beats) /\ ledger.cooldown \in Times /\ ledger.alerted \in Times
      BY <1>0, AgedIs DEF Ledgers
    <3>2. ledger' = [beats |-> Aged(ledger.beats), cooldown |-> Less(ledger.cooldown),
                     alerted |-> Less(ledger.alerted)]
      BY <1>13 DEF Tick
    <3> QED BY <2>3, <3>1, <3>2 DEF Ledgers
  <2>5. calls' \in Seq(Beats)
    BY <1>0, <1>13, AgedIs, PruneIs DEF Tick
  <2>6. alerts' \in Tallies /\ mailed' \in Tallies
    <3>1. ASSUME NEW f \in Tallies PROVE Sooner(f) \in Tallies
      BY DEF Sooner, Tallies
    <3> QED BY <1>0, <1>13, <3>1 DEF Tick
  <2>7. Typed
    <3>1. \A q \in Procs : /\ proc[q] \in Runs
                           /\ proc'[q] = [proc[q] EXCEPT !.up = IF proc[q].pc = "beating" THEN proc[q].up + 1 ELSE proc[q].up,
                                                         !.rest = Less(proc[q].rest)]
      BY <1>0, <1>13 DEF Tick
    <3>2. ASSUME NEW q \in Procs
          PROVE  proc'[q] \in Runs /\ proc'[q].pc = proc[q].pc /\ proc'[q].outcome = proc[q].outcome
      <4> DEFINE u == IF proc[q].pc = "beating" THEN proc[q].up + 1 ELSE proc[q].up
                 w == Less(proc[q].rest)
      <4>1. proc[q].up \in 0..Stale /\ proc[q].rest \in 0..Cadence
        BY <3>1 DEF Runs
      <4>2. proc[q].pc = "beating" => proc[q].up + 1 < Stale
        BY <1>13 DEF Tick
      <4>3. u \in 0..Stale
        BY <4>1, <4>2, ConstantsAssumption
      <4>4. w \in 0..Cadence
        BY <4>1, ConstantsAssumption DEF Less
      <4>5. proc'[q] = [proc[q] EXCEPT !.up = u, !.rest = w] /\ proc[q] \in Runs
        BY <3>1
      <4> HIDE DEF u, w
      <4> QED BY <4>3, <4>4, <4>5 DEF Runs
    <3>3. proc' = [q \in Procs |-> proc'[q]]
      BY <1>13 DEF Tick
    <3> QED BY <3>2, <3>3 DEF TypeInv
  <2> QED BY <1>0, <1>13, <2>1, <2>2, <2>4, <2>5, <2>6, <2>7 DEF Tick
<1>14. CASE UNCHANGED vars
  BY <1>0, <1>14 DEF vars, TypeInv
<1> QED BY <1>1, <1>2, <1>3, <1>4, <1>5, <1>6, <1>7, <1>8, <1>9, <1>10, <1>11, <1>12, <1>13, <1>14
    DEF Next, Step

LEMMA TypeInvHolds == Spec => []TypeInv
BY TypeInit, TypeStep, PTL DEF Spec

\* Every variable keeps its shape in every behaviour; ages, waits and mail
\* counts stay within their caps (ledger.go, backoffFor).
THEOREM HeartbeatTypes == Spec => []TypeOK
<1>1. TypeInv => TypeOK
  BY DEF TypeInv
<1> QED BY <1>1, TypeInvHolds, PTL

-----------------------------------------------------------------------------
(* The lock.  A machine that does not go down, two processes at most, and  *)
(* runs of one kind apart: with a third process, or with the lock a crash  *)
(* left, two runs do beat at once.                                         *)

TwoRuns == \A p, q, r \in Procs : p = q \/ q = r \/ p = r
Critical == {"check", "beating", "record", "leaving"}
Others(p) == Procs \ {p}
Resting(q) == proc[q].pc = "idle" /\ proc[q].rest > 0

LockInv ==
    /\ \A p \in Procs : proc[p].pc \in Critical =>
          /\ lock.held /\ lock.age = proc[p].up /\ proc[p].up < Stale
          /\ \A q \in Others(p) : proc[q].pc \in {"idle", "stat"}
    /\ lock.held => \E p \in Procs : proc[p].pc \in Critical
    /\ \A p \in Procs : proc[p].pc \notin Critical => proc[p].up = 0
    /\ \A p \in Procs : proc[p].pc \in {"break", "retake"} \/ (proc[p].pc = "stat" /\ ~lock.held) =>
          ~lock.held /\ \A q \in Others(p) : Resting(q)

LEMMA RunsApart ==
    ASSUME MaxCrashes = 0, Cadence > 0, TwoRuns, TypeInv, LockInv, [Next]_vars
    PROVE  LockInv'
<1>0. /\ lock \in [held : BOOLEAN, age : 0..Stale] /\ proc \in [Procs -> Runs] /\ crashes = 0
      /\ \A p \in Procs : proc[p].pc \in Pcs /\ proc[p].up \in Nat /\ proc[p].rest \in Nat
  <2>1. crashes \in 0..0 /\ lock \in [held : BOOLEAN, age : 0..Stale] /\ proc \in [Procs -> Runs]
    BY TypeParts DEF TypeInv
  <2> QED BY <2>1 DEF Runs
<1>cad. Cadence \in 0..Cadence /\ Idle(Cadence).pc = "idle" /\ Idle(Cadence).up = 0 /\ Idle(Cadence).rest > 0
  BY IdleIs, ConstantsAssumption
<1>free. ~Free.held /\ Fresh.held /\ Fresh.age = 0 /\ 0 < Stale
  BY ConstantsAssumption DEF Free, Fresh
<1>two. \A p, q, r \in Procs : q \in Others(p) /\ r \in Others(p) => q = r
  BY DEF TwoRuns, Others
\* A run that goes on with the lock in hand.
<1>on. ASSUME NEW p \in Procs, proc[p].pc \in Critical, UNCHANGED lock,
              proc'[p].pc \in Critical, proc'[p].up = proc[p].up,
              \A q \in Others(p) : proc'[q] = proc[q]
       PROVE  LockInv'
  <2>1. /\ lock.held /\ lock.age = proc[p].up /\ proc[p].up < Stale
        /\ \A q \in Others(p) : proc[q].pc \in {"idle", "stat"}
    BY <1>on DEF LockInv
  <2>2. \A q \in Procs : q = p \/ q \in Others(p)
    BY DEF Others
  <2> QED BY <1>on, <2>1, <2>2 DEF LockInv, Critical
\* A run that gives it back.
<1>off. ASSUME NEW p \in Procs, proc[p].pc \in Critical, lock' = Free, proc'[p] = Idle(Cadence),
               \A q \in Others(p) : proc'[q] = proc[q]
        PROVE  LockInv'
  <2>1. \A q \in Others(p) : proc[q].pc \in {"idle", "stat"} /\ proc[q].up = 0
    BY <1>off DEF LockInv, Critical, Others
  <2>2. \A q \in Procs : q = p \/ q \in Others(p)
    BY DEF Others
  <2>3. ~lock'.held /\ \A q \in Procs : proc'[q].pc \in {"idle", "stat"} /\ proc'[q].up = 0
    BY <1>off, <1>cad, <1>free, <2>1, <2>2
  <2>4. Resting(p)'
    BY <1>off, <1>cad DEF Resting
  <2>5. \A q \in Procs : proc'[q].pc = "stat" => \A r \in Others(q) : r = p
    <3> SUFFICES ASSUME NEW q \in Procs, proc'[q].pc = "stat", NEW r \in Others(q) PROVE r = p
      OBVIOUS
    <3>1. q \in Others(p) /\ p # q /\ r \in Procs /\ r # q
      BY <1>off, <1>cad, <2>2 DEF Others
    <3> QED BY <3>1 DEF TwoRuns
  <2> QED BY <2>3, <2>4, <2>5 DEF LockInv, Critical
<1>1. ASSUME NEW p \in Procs, Refuse(p) \/ Crash(p) PROVE FALSE
  BY <1>0, <1>1 DEF Refuse, Crash
<1>2. ASSUME NEW p \in Procs, TryLock(p) PROVE LockInv'
  <2>1. proc[p].pc = "idle" /\ proc[p].rest = 0 /\ proc[p].up = 0
    BY <1>2 DEF TryLock, LockInv, Critical
  <2>2. \A q \in Procs : q = p \/ q \in Others(p)
    BY DEF Others
  <2>3. CASE ~lock.held /\ lock' = Fresh /\ Goto(p, "check")
    <3>1. /\ proc'[p].pc = "check" /\ proc'[p].up = 0
          /\ \A q \in Others(p) : proc'[q] = proc[q]
      BY <2>1, <2>3, GotoIs DEF Pcs, Others
    <3>2. \A q \in Others(p) : p \in Others(q) /\ ~Resting(p)
      BY <2>1 DEF Others, Resting
    <3>3. \A q \in Others(p) : proc[q].pc = "idle"
      BY <1>0, <2>3, <3>2 DEF LockInv, Critical, Pcs, Others
    <3> QED BY <1>free, <2>2, <2>3, <3>1, <3>3 DEF LockInv, Critical, Others
  <2>4. CASE lock.held /\ Goto(p, "stat") /\ UNCHANGED lock
    <3>1. /\ proc'[p].pc = "stat" /\ proc'[p].up = 0
          /\ \A q \in Others(p) : proc'[q] = proc[q]
      BY <2>1, <2>4, GotoIs DEF Pcs, Others
    <3>2. \A q \in Procs : proc'[q].pc \in Critical <=> proc[q].pc \in Critical
      BY <2>1, <2>2, <3>1 DEF Critical
    <3> QED BY <2>1, <2>2, <2>4, <3>1, <3>2 DEF LockInv, Critical, Others
  <2> QED BY <1>2, <2>3, <2>4 DEF TryLock
<1>3. ASSUME NEW p \in Procs, StatLock(p) PROVE LockInv'
  <2>1. proc[p].pc = "stat" /\ UNCHANGED lock /\ proc[p].up = 0
    BY <1>3 DEF StatLock, LockInv, Critical
  <2>2. \A q \in Procs : q = p \/ q \in Others(p)
    BY DEF Others
  <2>3. CASE lock.held
    <3>1. PICK q \in Procs : proc[q].pc \in Critical
      BY <2>3 DEF LockInv
    <3>2. lock.age < Stale
      BY <3>1 DEF LockInv
    <3>3. proc' = [proc EXCEPT ![p] = Idle(Cadence)]
      BY <1>3, <2>3, <3>2 DEF StatLock
    <3>4. proc'[p] = Idle(Cadence) /\ \A r \in Others(p) : proc'[r] = proc[r]
      BY <1>cad, <3>3, StopIs DEF Others
    <3>5. \A r \in Procs : proc'[r].pc \in Critical <=> proc[r].pc \in Critical
      BY <1>cad, <2>1, <2>2, <3>4 DEF Critical
    <3> QED BY <1>cad, <2>1, <2>2, <2>3, <3>4, <3>5 DEF LockInv, Critical, Others
  <2>4. CASE ~lock.held
    <3>1. Goto(p, "break")
      BY <1>3, <2>4 DEF StatLock
    <3>2. proc'[p].pc = "break" /\ proc'[p].up = 0 /\ \A q \in Others(p) : proc'[q] = proc[q]
      BY <2>1, <3>1, GotoIs DEF Pcs, Others
    <3>3. \A q \in Others(p) : Resting(q)
      BY <2>1, <2>4 DEF LockInv
    <3> QED BY <2>1, <2>2, <2>4, <3>2, <3>3 DEF LockInv, Critical, Resting
  <2> QED BY <2>3, <2>4
<1>4. ASSUME NEW p \in Procs, BreakLock(p) PROVE LockInv'
  <2>1. ~lock.held /\ proc[p].up = 0 /\ \A q \in Others(p) : Resting(q) /\ q \in Procs
    BY <1>4 DEF BreakLock, LockInv, Critical, Others
  <2>2. \A q \in Procs : q = p \/ q \in Others(p)
    BY DEF Others
  <2>3. proc'[p].pc = "retake" /\ proc'[p].up = 0 /\ \A q \in Others(p) : proc'[q] = proc[q]
    BY <1>4, <2>1, GotoIs DEF BreakLock, Pcs, Others
  <2>4. ~lock'.held
    BY <1>4, <1>free DEF BreakLock
  <2>5. \A q \in Others(p) : proc[q].up = 0
    BY <2>1 DEF LockInv, Resting, Critical
  <2> QED BY <2>1, <2>2, <2>3, <2>4, <2>5 DEF LockInv, Critical, Resting
<1>5. ASSUME NEW p \in Procs, RetakeLock(p) PROVE LockInv'
  <2>1. ~lock.held /\ proc[p].up = 0 /\ \A q \in Others(p) : Resting(q) /\ q \in Procs
    BY <1>5 DEF RetakeLock, LockInv, Critical, Others
  <2>2. \A q \in Procs : q = p \/ q \in Others(p)
    BY DEF Others
  <2>3. proc'[p].pc = "check" /\ proc'[p].up = 0 /\ \A q \in Others(p) : proc'[q] = proc[q]
    BY <1>5, <2>1, GotoIs DEF RetakeLock, Pcs, Others
  <2>4. lock' = Fresh
    BY <1>5, <2>1 DEF RetakeLock
  <2>5. \A q \in Others(p) : proc[q].up = 0
    BY <2>1 DEF LockInv, Resting, Critical
  <2> QED BY <1>free, <2>1, <2>2, <2>3, <2>4, <2>5 DEF LockInv, Critical, Resting, Others
<1>6. ASSUME NEW p \in Procs, Proceed(p) \/ Hold(p) \/ RecordBeat(p) PROVE LockInv'
  <2>1. Goto(p, "beating") \/ Goto(p, "leaving")
    BY <1>6 DEF Proceed, Hold, RecordBeat
  <2>2. proc[p].pc \in Critical /\ UNCHANGED lock
    BY <1>6 DEF Proceed, Hold, RecordBeat, Critical
  <2>3. /\ proc'[p].pc \in Critical /\ proc'[p].up = proc[p].up
        /\ \A q \in Others(p) : proc'[q] = proc[q]
    BY <2>1, GotoIs DEF Pcs, Critical, Others
  <2> QED BY <1>on, <2>2, <2>3
<1>7. ASSUME NEW p \in Procs, EndBeat(p) PROVE LockInv'
  <2>1. PICK o : proc' = [proc EXCEPT ![p].pc = "record", ![p].outcome = o]
    BY <1>7 DEF EndBeat
  <2>2. proc[p].pc \in Critical /\ UNCHANGED lock
    BY <1>7 DEF EndBeat, Critical
  <2>3. /\ proc'[p].pc \in Critical /\ proc'[p].up = proc[p].up
        /\ \A q \in Others(p) : proc'[q] = proc[q]
    BY <1>0, <2>1 DEF Critical, Others, Runs
  <2> QED BY <1>on, <2>2, <2>3
<1>8. ASSUME NEW p \in Procs, Leave(p) \/ TimeOut(p) PROVE LockInv'
  <2>1. /\ proc[p].pc \in Critical /\ lock' = Free
        /\ proc' = [proc EXCEPT ![p] = Idle(Cadence)]
    BY <1>8 DEF Leave, TimeOut, Critical
  <2>2. proc'[p] = Idle(Cadence) /\ \A q \in Others(p) : proc'[q] = proc[q]
    BY <1>cad, <2>1, StopIs DEF Others
  <2> QED BY <1>off, <2>1, <2>2
<1>9. ASSUME Tick PROVE LockInv'
  <2>1. \A p \in Procs : \/ proc[p].pc = "idle"
                         \/ proc[p].pc = "beating" /\ proc[p].up + 1 < Stale
    BY <1>9 DEF Tick
  <2>2. ASSUME NEW p \in Procs
        PROVE  /\ proc'[p].pc = proc[p].pc
               /\ proc'[p].up = IF proc[p].pc = "beating" THEN proc[p].up + 1 ELSE proc[p].up
    <3>1. proc[p] \in Runs
      BY <1>0
    <3>2. proc'[p] = [proc[p] EXCEPT !.up = IF proc[p].pc = "beating" THEN proc[p].up + 1 ELSE proc[p].up,
                                     !.rest = Less(proc[p].rest)]
      BY <1>9 DEF Tick
    <3> QED BY <3>1, <3>2 DEF Runs
  <2>3. ASSUME NEW p \in Procs, proc[p].pc = "beating"
        PROVE  lock'.held /\ lock'.age = proc[p].up + 1
    <3>1. lock.held /\ lock.age = proc[p].up /\ proc[p].up + 1 < Stale
      BY <2>1, <2>3 DEF LockInv, Critical
    <3>2. Min({lock.age + 1, Stale}) = proc[p].up + 1
      <4>1. lock.age + 1 \in Int /\ Stale \in Int /\ lock.age + 1 <= Stale
        BY <1>0, <3>1, ConstantsAssumption
      <4> QED BY <3>1, <4>1, MinIs
    <3>3. lock' = [lock EXCEPT !.age = Min({lock.age + 1, Stale})]
      BY <1>9, <3>1 DEF Tick
    <3> QED BY <1>0, <3>1, <3>2, <3>3
  <2>4. \A p \in Procs : proc[p].pc \in Critical => proc[p].pc = "beating"
    BY <2>1 DEF Critical
  <2>5. lock'.held => lock.held
    BY <1>9 DEF Tick
  <2>6. \A p \in Procs : proc'[p].pc \notin {"stat", "break", "retake"}
    BY <2>1, <2>2
  <2>7. ASSUME NEW p \in Procs, proc'[p].pc \in Critical
        PROVE  /\ lock'.held /\ lock'.age = proc'[p].up /\ proc'[p].up < Stale
               /\ \A q \in Others(p) : proc'[q].pc \in {"idle", "stat"}
    <3>1. proc[p].pc = "beating" /\ proc'[p].up = proc[p].up + 1 /\ proc[p].up + 1 < Stale
      BY <2>1, <2>2, <2>4, <2>7
    <3>2. \A q \in Others(p) : proc[q].pc \in {"idle", "stat"} /\ q \in Procs
      BY <3>1 DEF LockInv, Critical, Others
    <3> QED BY <2>2, <2>3, <3>1, <3>2
  <2>8. lock'.held => \E p \in Procs : proc'[p].pc \in Critical
    BY <2>2, <2>5 DEF LockInv
  <2>9. \A p \in Procs : proc'[p].pc \notin Critical => proc'[p].up = 0
    BY <2>2 DEF LockInv, Critical
  <2> QED BY <2>6, <2>7, <2>8, <2>9 DEF LockInv
<1>10. CASE UNCHANGED vars
  BY <1>10 DEF vars, LockInv, Resting
<1> QED BY <1>1, <1>2, <1>3, <1>4, <1>5, <1>6, <1>7, <1>8, <1>9, <1>10 DEF Next, Step

LEMMA LockInvHolds == ASSUME MaxCrashes = 0, Cadence > 0, TwoRuns PROVE Spec => [](TypeInv /\ LockInv)
<1>1. Init => TypeInv /\ LockInv
  <2> SUFFICES ASSUME Init PROVE LockInv
    BY TypeInit
  <2>1. ~lock.held /\ \A p \in Procs : proc[p].pc = "idle" /\ proc[p].up = 0
    BY IdleIs, ConstantsAssumption DEF Init, Free
  <2> QED BY <2>1 DEF LockInv, Critical
<1>2. TypeInv /\ LockInv /\ [Next]_vars => (TypeInv /\ LockInv)'
  BY TypeStep, RunsApart
<1> QED BY <1>1, <1>2, PTL DEF Spec

\* The lock keeps the heartbeat from overlapping itself (run-checkin): of two
\* runs, however long one beats and wherever the other looks at its lock, one
\* at most is between taking it and giving it back.
THEOREM OneBeatHolds == ASSUME MaxCrashes = 0, Cadence > 0, TwoRuns PROVE Spec => []OneBeat
<1>1. LockInv => OneBeat
  <2> SUFFICES ASSUME LockInv, NEW p \in Procs, NEW q \in Procs,
                      {proc[p].pc, proc[q].pc} \subseteq Critical, p # q
               PROVE  FALSE
    BY DEF OneBeat, Critical
  <2>1. proc[q].pc \in {"idle", "stat"}
    BY DEF LockInv, Others
  <2> QED BY <2>1 DEF Critical
<1> QED BY <1>1, LockInvHolds, PTL
-----------------------------------------------------------------------------
(* The ceilings.  As long as the ledger can be read and written, it counts *)
(* what the model was really asked, but for the beat that is about to be   *)
(* recorded; and a beat starts only below both ceilings.                   *)

Owed(q) == proc[q].pc = "record" /\ Charges(proc[q].outcome)
Behind == IF \E q \in Procs : Owed(q) THEN 1 ELSE 0

SpendInv ==
    /\ \A s \in 1..Keep : countSince(calls, s) = countSince(ledger.beats, s) + Behind
    /\ \A p \in Procs : proc[p].pc = "beating" =>
          countSince(calls, Window) < WindowBeats /\ countSince(calls, hour + 1) < DailyBeats
    /\ countSince(calls, Window) <= WindowBeats
    /\ countSince(calls, hour + 1) <= DailyBeats

LEMMA CountGrows ==
    ASSUME NEW beats \in Seq(Beats), NEW s \in Nat, NEW t \in Nat, s <= t
    PROVE  countSince(beats, s) <= countSince(beats, t)
<1>1. \A i \in DOMAIN beats : beats[i].age < s => beats[i].age < t
  BY HistoryIs
<1>2. Charged(beats, s) \subseteq Charged(beats, t)
  BY <1>1 DEF Charged
<1> QED BY <1>2, ChargedIs, FS_Subset

\* A tick: what is younger than s was younger than s - 1.
LEMMA TickCounts ==
    ASSUME NEW beats \in Seq(Beats), NEW s \in 1..Keep
    PROVE  /\ countSince(Aged(beats), s) = countSince(beats, s - 1)
           /\ countSince(prune(Aged(beats)), s) = countSince(beats, s - 1)
<1>1. s - 1 \in Nat /\ s - 1 + 1 = s /\ s \in Nat /\ s <= Keep
  BY ConstantsAssumption
<1>2. countSince(Aged(beats), s - 1 + 1) = countSince(beats, s - 1)
  BY <1>1, AgedCounts
<1>3. countSince(prune(Aged(beats)), s) = countSince(Aged(beats), s)
  BY <1>1, AgedIs, PruneCounts
<1> QED BY <1>1, <1>2, <1>3

LEMMA Spans == Window \in 1..Keep /\ \A h \in 0..(Day - 1) : h + 1 \in 1..Keep
BY ConstantsAssumption

LEMMA SpendStep ==
    ASSUME MaxCrashes = 0, ~LedgerFails, TypeInv, LockInv, SpendInv, [Next]_vars
    PROVE  SpendInv'
<1>0. /\ hour \in 0..(Day - 1) /\ ledger \in Ledgers /\ proc \in [Procs -> Runs] /\ crashes = 0
      /\ calls \in Seq(Beats) /\ ledger.beats \in Seq(Beats)
      /\ \A p \in Procs : proc[p].pc = "record" => proc[p].outcome \in Outcomes
  <2>1. /\ hour \in 0..(Day - 1) /\ ledger \in Ledgers /\ proc \in [Procs -> Runs]
        /\ crashes \in 0..0 /\ calls \in Seq(Beats)
    BY TypeParts DEF TypeInv
  <2> QED BY <2>1 DEF Ledgers, TypeInv
<1>cad. Cadence \in 0..Cadence /\ Idle(Cadence).pc = "idle"
  BY IdleIs, ConstantsAssumption
<1>spans. Window \in 1..Keep /\ hour + 1 \in 1..Keep
  BY <1>0, Spans
<1>nat. ASSUME NEW s \in 1..Keep
        PROVE  countSince(calls, s) \in Nat /\ countSince(ledger.beats, s) \in Nat
  BY <1>0, ChargedIs
<1>alone. ASSUME NEW p \in Procs, proc[p].pc \in Critical
          PROVE  \A q \in Procs : q = p \/ proc[q].pc \in {"idle", "stat"}
  BY <1>alone DEF LockInv, Others
<1>two. WindowBeats \in Nat \ {0} /\ DailyBeats \in Nat \ {0}
  BY ConstantsAssumption
\* A step of a run that neither beats nor records leaves all counts alone.
<1>same. ASSUME NEW p \in Procs, proc[p].pc # "record", proc'[p].pc \notin {"record", "beating"},
                \A q \in Procs \ {p} : proc'[q] = proc[q], UNCHANGED <<hour, ledger, calls>>
         PROVE  SpendInv'
  <2>1. \A q \in Procs : Owed(q)' <=> Owed(q)
    BY <1>same DEF Owed
  <2>2. Behind' = Behind
    BY <2>1 DEF Behind
  <2> QED BY <1>same, <2>2 DEF SpendInv
<1>1. ASSUME NEW p \in Procs, Refuse(p) \/ Crash(p) PROVE FALSE
  BY <1>0, <1>1 DEF Refuse, Crash
<1>2. ASSUME NEW p \in Procs, TryLock(p) \/ StatLock(p) \/ BreakLock(p) \/ RetakeLock(p) PROVE SpendInv'
  <2>1. /\ proc[p].pc # "record" /\ UNCHANGED <<hour, ledger, calls>>
        /\ \/ \E pc \in {"check", "stat", "break", "retake"} : Goto(p, pc)
           \/ proc' = [proc EXCEPT ![p] = Idle(Cadence)]
    BY <1>2 DEF TryLock, StatLock, BreakLock, RetakeLock
  <2>2. CASE \E pc \in {"check", "stat", "break", "retake"} : Goto(p, pc)
    <3>1. PICK pc \in {"check", "stat", "break", "retake"} : Goto(p, pc)
      BY <2>2
    <3>2. proc'[p].pc = pc /\ \A q \in Procs \ {p} : proc'[q] = proc[q]
      BY <3>1, GotoIs DEF Pcs
    <3> QED BY <1>same, <2>1, <3>2
  <2>3. CASE proc' = [proc EXCEPT ![p] = Idle(Cadence)]
    <3>1. proc'[p].pc = "idle" /\ \A q \in Procs \ {p} : proc'[q] = proc[q]
      BY <2>3, <1>cad, StopIs
    <3> QED BY <1>same, <2>1, <3>1
  <2> QED BY <2>1, <2>2, <2>3
<1>3. ASSUME NEW p \in Procs, Leave(p) \/ TimeOut(p) PROVE SpendInv'
  <2>1. /\ proc[p].pc # "record" /\ UNCHANGED <<hour, ledger, calls>>
        /\ proc' = [proc EXCEPT ![p] = Idle(Cadence)]
    BY <1>3 DEF Leave, TimeOut
  <2>2. proc'[p].pc = "idle" /\ \A q \in Procs \ {p} : proc'[q] = proc[q]
    BY <2>1, <1>cad, StopIs
  <2> QED BY <1>same, <2>1, <2>2
<1>4. ASSUME NEW p \in Procs, Proceed(p) PROVE SpendInv'
  <2>1. /\ proc[p].pc = "check" /\ RetryAfter(ledger) = 0 /\ Goto(p, "beating")
        /\ UNCHANGED <<hour, ledger, calls>>
    BY <1>4 DEF Proceed
  <2>2. proc'[p].pc = "beating" /\ \A q \in Procs \ {p} : proc'[q] = proc[q]
    BY <2>1, GotoIs DEF Pcs
  <2>3. \A q \in Procs : ~Owed(q) /\ ~Owed(q)'
    BY <1>alone, <2>1, <2>2 DEF Owed, Critical
  <2>4. Behind = 0 /\ Behind' = 0
    BY <2>3 DEF Behind
  <2>5. countSince(ledger.beats, Window) < WindowBeats /\ countSince(ledger.beats, hour + 1) < DailyBeats
    BY <1>0, <2>1, RetryAfterIs
  <2>6. countSince(calls, Window) < WindowBeats /\ countSince(calls, hour + 1) < DailyBeats
    BY <1>spans, <1>nat, <2>4, <2>5 DEF SpendInv
  <2> QED BY <1>0, <2>1, <2>4, <2>6 DEF SpendInv
<1>5. ASSUME NEW p \in Procs, Hold(p) PROVE SpendInv'
  <2>1. /\ proc[p].pc = "check" /\ RetryAfter(ledger) > 0 /\ Goto(p, "leaving")
        /\ ledger' = Save([ledger EXCEPT !.alerted = RetryAfter(ledger)])
        /\ UNCHANGED <<hour, calls>>
    BY <1>5 DEF Hold
  <2>2. proc'[p].pc = "leaving" /\ \A q \in Procs \ {p} : proc'[q] = proc[q]
    BY <2>1, GotoIs DEF Pcs
  <2>3. \A q \in Procs : Owed(q)' <=> Owed(q)
    BY <2>1, <2>2 DEF Owed
  <2>4. Behind' = Behind
    BY <2>3 DEF Behind
  <2>5. [ledger EXCEPT !.alerted = RetryAfter(ledger)] \in Ledgers
    BY <1>0, RetryAfterIs DEF Ledgers
  <2>6. [ledger EXCEPT !.alerted = RetryAfter(ledger)].beats = ledger.beats
    BY <1>0 DEF Ledgers
  <2>7. ledger'.beats = prune(ledger.beats)
    BY <2>1, <2>5, <2>6, SaveIs
  <2>8. \A s \in 1..Keep : countSince(ledger'.beats, s) = countSince(ledger.beats, s)
    BY <1>0, <2>7, PruneCounts, ConstantsAssumption
  <2>9. \A q \in Procs : proc'[q].pc = "beating" => proc[q].pc = "beating"
    BY <2>2
  <2> QED BY <1>0, <2>1, <2>4, <2>8, <2>9 DEF SpendInv
<1>6. ASSUME NEW p \in Procs, EndBeat(p) PROVE SpendInv'
  <2>1. PICK o \in Endings : /\ proc' = [proc EXCEPT ![p].pc = "record", ![p].outcome = o]
                             /\ calls' = Append(calls, [age |-> 0, outcome |-> o])
    BY <1>6 DEF EndBeat
  <2>2. proc[p].pc = "beating" /\ UNCHANGED <<hour, ledger>> /\ o \in Outcomes
    BY <1>6, <2>1 DEF EndBeat, Endings
  <2>3. /\ proc'[p].pc = "record" /\ proc'[p].outcome = o
        /\ \A q \in Procs \ {p} : proc'[q] = proc[q] /\ proc[q].pc \in {"idle", "stat"}
    BY <1>0, <1>alone, <2>1, <2>2 DEF Runs, Critical
  <2>4. (\A q \in Procs : ~Owed(q)) /\ ((\E q \in Procs : Owed(q)') <=> Charges(o))
    BY <2>2, <2>3 DEF Owed
  <2>5. Behind = 0 /\ Behind' = IF Charges(o) THEN 1 ELSE 0
    BY <2>4 DEF Behind
  <2>6. ASSUME NEW s \in 1..Keep
        PROVE  countSince(calls', s) = countSince(calls, s) + (IF Charges(o) THEN 1 ELSE 0)
    BY <1>0, <2>1, <2>2, AppendCounts
  <2>7. ASSUME NEW s \in 1..Keep PROVE countSince(calls', s) = countSince(ledger'.beats, s) + Behind'
    BY <1>nat, <2>2, <2>5, <2>6 DEF SpendInv
  <2>8. countSince(calls, Window) < WindowBeats /\ countSince(calls, hour + 1) < DailyBeats
    BY <2>2 DEF SpendInv
  <2>9. countSince(calls', Window) <= WindowBeats /\ countSince(calls', hour' + 1) <= DailyBeats
    <3>1. UNCHANGED hour
      BY <2>2
    <3> QED BY <1>spans, <1>nat, <1>two, <2>6, <2>8, <3>1
  <2>10. \A q \in Procs : proc'[q].pc # "beating"
    BY <2>3
  <2> QED BY <2>7, <2>9, <2>10 DEF SpendInv
<1>7. ASSUME NEW p \in Procs, RecordBeat(p) PROVE SpendInv'
  <2> DEFINE o == proc[p].outcome
  <2>1. /\ proc[p].pc = "record" /\ Goto(p, "leaving") /\ ledger' = Save(Record(ledger, o))
        /\ UNCHANGED <<hour, calls>> /\ o \in Outcomes
    BY <1>0, <1>7 DEF RecordBeat, Loaded
  <2>2. /\ proc'[p].pc = "leaving"
        /\ \A q \in Procs \ {p} : proc'[q] = proc[q] /\ proc[q].pc \in {"idle", "stat"}
    BY <1>alone, <2>1, GotoIs DEF Pcs, Critical
  <2>3. (\A q \in Procs : ~Owed(q)') /\ ((\E q \in Procs : Owed(q)) <=> Charges(o))
    BY <2>1, <2>2 DEF Owed
  <2>4. Behind' = 0 /\ Behind = IF Charges(o) THEN 1 ELSE 0
    BY <2>3 DEF Behind
  <2>5. ledger'.beats = prune(Append(ledger.beats, [age |-> 0, outcome |-> o]))
    BY <1>0, <2>1, RecordIs, SaveIs
  <2> HIDE DEF o
  <2>6. ASSUME NEW s \in 1..Keep
        PROVE  countSince(ledger'.beats, s) = countSince(ledger.beats, s) + (IF Charges(o) THEN 1 ELSE 0)
    <3> DEFINE beats == Append(ledger.beats, [age |-> 0, outcome |-> o])
    <3>1. s \in Nat \ {0} /\ s \in Nat /\ s <= Keep
      BY ConstantsAssumption
    <3>2. beats \in Seq(Beats) /\ countSince(beats, s) = countSince(ledger.beats, s) + (IF Charges(o) THEN 1 ELSE 0)
      BY <1>0, <2>1, <3>1, AppendCounts
    <3> HIDE DEF beats
    <3>3. countSince(prune(beats), s) = countSince(beats, s)
      BY <3>1, <3>2, PruneCounts
    <3> QED BY <2>5, <3>2, <3>3 DEF beats
  <2>7. ASSUME NEW s \in 1..Keep PROVE countSince(calls', s) = countSince(ledger'.beats, s) + Behind'
    <3>1. UNCHANGED calls
      BY <2>1
    <3> QED BY <1>nat, <2>4, <2>6, <3>1 DEF SpendInv
  <2>8. \A q \in Procs : proc'[q].pc # "beating"
    BY <2>2
  <2> QED BY <2>1, <2>7, <2>8 DEF SpendInv
<1>8. ASSUME Tick PROVE SpendInv'
  <2>1. /\ hour' = (hour + 1) % Day /\ calls' = prune(Aged(calls))
        /\ ledger'.beats = Aged(ledger.beats)
        /\ \A p \in Procs : proc[p].pc # "record"
    BY <1>8 DEF Tick
  <2>2. \A p \in Procs : proc'[p].pc = proc[p].pc
    <3> SUFFICES ASSUME NEW p \in Procs PROVE proc'[p].pc = proc[p].pc
      OBVIOUS
    <3>1. proc[p] \in Runs
      BY <1>0
    <3>2. proc'[p] = [proc[p] EXCEPT !.up = IF proc[p].pc = "beating" THEN proc[p].up + 1 ELSE proc[p].up,
                                     !.rest = Less(proc[p].rest)]
      BY <1>8 DEF Tick
    <3> QED BY <3>1, <3>2 DEF Runs
  <2>3. Behind = 0 /\ Behind' = 0
    BY <2>1, <2>2 DEF Behind, Owed
  <2>4. ASSUME NEW s \in 1..Keep
        PROVE  /\ countSince(calls', s) = countSince(calls, s - 1)
               /\ countSince(calls', s) = countSince(ledger'.beats, s)
               /\ countSince(calls', s) \in Nat
    <3>1. countSince(calls', s) = countSince(calls, s - 1)
      BY <1>0, <2>1, TickCounts
    <3>2. countSince(ledger'.beats, s) = countSince(ledger.beats, s - 1)
      BY <1>0, <2>1, TickCounts
    <3>3. CASE s = 1
      <4>1. s - 1 = 0
        BY <3>3
      <4> QED BY <1>0, <3>1, <3>2, <4>1, NoneSinceNow
    <3>4. CASE s - 1 \in 1..Keep
      <4>1. countSince(calls, s - 1) = countSince(ledger.beats, s - 1)
        BY <1>nat, <2>3, <3>4 DEF SpendInv
      <4> QED BY <1>nat, <3>1, <3>2, <3>4, <4>1
    <3> QED BY <3>3, <3>4, ConstantsAssumption
  <2>5. countSince(calls', Window) <= countSince(calls, Window)
    <3>1. Window - 1 \in Nat /\ Window \in Nat /\ Window - 1 <= Window
      BY ConstantsAssumption
    <3> QED BY <1>0, <1>spans, <2>4, <3>1, CountGrows
  <2>6. hour' \in 0..(Day - 1) /\ (hour' = 0 \/ hour' = hour + 1)
    <3>1. hour' = IF hour + 1 = Day THEN 0 ELSE hour + 1
      BY <1>0, <2>1, NextHour
    <3>2. hour \in 0..(Day - 1) /\ Day \in Nat \ {0}
      BY <1>0, ConstantsAssumption
    <3> QED BY <3>1, <3>2
  <2>7. ASSUME NEW h \in 0..(Day - 1)
        PROVE  /\ h + 1 \in 1..Keep
               /\ countSince(calls', h + 1) = countSince(calls, h)
    <3>1. Day \in Nat \ {0} /\ Keep \in Nat /\ Day <= Keep /\ h \in Int
      BY ConstantsAssumption
    <3>2. PICK s \in 1..Keep : s = h + 1 /\ s - 1 = h
      BY <3>1
    <3>3. countSince(calls', s) = countSince(calls, s - 1)
      BY <2>4
    <3>4. countSince(calls', s) = countSince(calls, h)
      BY <3>2, <3>3, Zenon
    <3> QED BY <3>2, <3>4, Zenon
  <2>8. hour' + 1 \in 1..Keep /\ countSince(calls', hour' + 1) = countSince(calls, hour')
    BY <2>6, <2>7, Zenon
  <2>9. countSince(calls', hour' + 1) = 0 \/ countSince(calls', hour' + 1) = countSince(calls, hour + 1)
    BY <1>0, <2>6, <2>8, NoneSinceNow
  <2>10. /\ countSince(calls', Window) <= WindowBeats
         /\ countSince(calls', hour' + 1) <= DailyBeats
    BY <1>nat, <1>spans, <1>two, <2>4, <2>5, <2>8, <2>9 DEF SpendInv
  <2>11. ASSUME NEW p \in Procs, proc'[p].pc = "beating"
         PROVE  countSince(calls', Window) < WindowBeats /\ countSince(calls', hour' + 1) < DailyBeats
    <3>1. countSince(calls, Window) < WindowBeats /\ countSince(calls, hour + 1) < DailyBeats
      BY <2>2, <2>11 DEF SpendInv
    <3> QED BY <1>nat, <1>spans, <1>two, <2>4, <2>5, <2>9, <3>1
  <2>12. \A s \in 1..Keep : countSince(calls', s) = countSince(ledger'.beats, s) + Behind'
    BY <2>3, <2>4
  <2> QED BY <2>10, <2>11, <2>12 DEF SpendInv
<1>9. CASE UNCHANGED vars
  <2>1. Behind' = Behind
    BY <1>9 DEF vars, Behind, Owed
  <2> QED BY <1>9, <2>1 DEF vars, SpendInv
<1> QED BY <1>1, <1>2, <1>3, <1>4, <1>5, <1>6, <1>7, <1>8, <1>9 DEF Next, Step

LEMMA SpendInvHolds ==
    ASSUME MaxCrashes = 0, Cadence > 0, TwoRuns, ~LedgerFails
    PROVE  Spec => [](TypeInv /\ LockInv /\ SpendInv)
<1>1. Init => SpendInv
  <2> SUFFICES ASSUME Init PROVE SpendInv
    OBVIOUS
  <2>1. calls = <<>> /\ ledger.beats = <<>> /\ <<>> \in Seq(Beats) /\ \A p \in Procs : proc[p].pc = "idle"
    BY IdleIs, ConstantsAssumption DEF Init, EmptyLedger
  <2>2. \A s : countSince(<<>>, s) = 0
    <3>1. \A s : Charged(<<>>, s) = {}
      BY DEF Charged
    <3> QED BY <2>1, <3>1, ChargedIs, FS_EmptySet
  <2>3. Behind = 0
    BY <2>1 DEF Behind, Owed
  <2> QED BY <2>1, <2>2, <2>3, ConstantsAssumption DEF SpendInv
<1>2. TypeInv /\ LockInv /\ SpendInv /\ [Next]_vars => SpendInv'
  BY SpendStep
<1> QED BY <1>1, <1>2, LockInvHolds, PTL DEF Spec

LEMMA SpentIs == \A span : Spent(span) = countSince(calls, span)
BY DEF Spent, countSince, Charges

\* The ceilings hold of the quota really spent (budget.go, CanSpend), however
\* runs, refusals, midnights and pruning fall: on a machine that stays up, with
\* a ledger that can be read and written.
THEOREM SpendIsBounded ==
    ASSUME MaxCrashes = 0, Cadence > 0, TwoRuns, ~LedgerFails
    PROVE  Spec => []SpendBounded
<1>1. SpendInv => SpendBounded
  BY SpentIs DEF SpendInv, SpendBounded
<1> QED BY <1>1, SpendInvHolds, PTL
-----------------------------------------------------------------------------
(* What a hold is for.  Nobody beats during a cooldown; a cooldown has a   *)
(* refusal behind it that asked for at least as long, and no clean beat    *)
(* since.                                                                  *)

Refusal(i) ==
    /\ calls[i].outcome \in {"ratelimit", "exhausted"}
    /\ calls[i].age + ledger.cooldown <= BackoffMax
    /\ \A j \in DOMAIN calls : j > i => calls[j].outcome # "ok"

CauseInv ==
    /\ \A p \in Procs : proc[p].pc \in {"beating", "record"} => ledger.cooldown = 0
    /\ \A p \in Procs : proc[p].pc = "record" =>
          Len(calls) > 0 /\ calls[Len(calls)] = [age |-> 0, outcome |-> proc[p].outcome]
    /\ ledger.cooldown > 0 => \E i \in DOMAIN calls : Refusal(i)

\* A tick of a history: every beat that is left has its place of before, a
\* tick younger, in the same order; and every beat that is not too old is left.
LEMMA TickHistory ==
    ASSUME NEW beats \in Seq(Beats)
    PROVE  LET after == prune(Aged(beats)) IN
           /\ after \in Seq(Beats)
           /\ \E was \in [DOMAIN after -> DOMAIN beats] :
                 /\ \A n \in DOMAIN after : /\ after[n].outcome = beats[was[n]].outcome
                                            /\ after[n].age = beats[was[n]].age + 1
                 /\ \A m, n \in DOMAIN after : m < n => was[m] < was[n]
                 /\ \A i \in DOMAIN beats : beats[i].age + 1 < Keep => \E n \in DOMAIN after : was[n] = i
<1> DEFINE aged == Aged(beats)
           K == Kept(aged)
           after == prune(aged)
           was == [n \in DOMAIN after |-> Nth(K, n)]
<1>1. /\ aged \in Seq(Beats) /\ DOMAIN aged = DOMAIN beats
      /\ \A i \in DOMAIN beats :
            /\ aged[i].outcome = beats[i].outcome
            /\ aged[i].age = IF beats[i].age + 1 <= Keep THEN beats[i].age + 1 ELSE Keep
  BY AgedIs
<1>2. \A i \in DOMAIN beats : beats[i].age \in Nat
  BY HistoryIs
<1>3. Keep \in Nat
  BY ConstantsAssumption
<1> HIDE DEF aged
<1>4. K = {i \in DOMAIN beats : aged[i].age < Keep}
  BY <1>1 DEF Kept
<1>5. /\ K \in SUBSET Int /\ IsFiniteSet(K) /\ K \subseteq DOMAIN beats
      /\ DOMAIN after = 1..Cardinality(K) /\ Cardinality(K) \in Nat
      /\ \A n \in DOMAIN after : Nth(K, n) \in K /\ after[n] = aged[Nth(K, n)]
      /\ after \in Seq(Beats)
  BY <1>1, PruneIs
<1>6. \A i \in DOMAIN beats : aged[i].age < Keep => aged[i].age = beats[i].age + 1
  BY <1>1, <1>2, <1>3
<1>7. \A i \in DOMAIN beats : beats[i].age + 1 < Keep => i \in K
  BY <1>1, <1>2, <1>3, <1>4
<1>8. \A i \in K : Rank(K, i) \in 1..Cardinality(K) /\ Nth(K, Rank(K, i)) = i
  BY <1>5, NthIs, RankIs
<1> HIDE DEF K, after
<1>9. was \in [DOMAIN after -> DOMAIN beats] /\ \A n \in DOMAIN after : was[n] = Nth(K, n)
  BY <1>5
<1> HIDE DEF was
<1>10. ASSUME NEW n \in DOMAIN after
       PROVE  after[n].outcome = beats[was[n]].outcome /\ after[n].age = beats[was[n]].age + 1
  <2>1. was[n] \in K /\ was[n] \in DOMAIN beats /\ after[n] = aged[was[n]]
    BY <1>5, <1>9
  <2>2. aged[was[n]].age < Keep
    BY <1>4, <2>1
  <2> QED BY <1>1, <1>6, <2>1, <2>2
<1>11. ASSUME NEW m \in DOMAIN after, NEW n \in DOMAIN after, m < n PROVE was[m] < was[n]
  <2>1. m \in 1..Cardinality(K) /\ n \in 1..Cardinality(K)
    BY <1>5
  <2>2. Nth(K, m) < Nth(K, n)
    BY <1>5, <1>11, <2>1, NthGrows
  <2> QED BY <1>9, <2>2
<1>12. ASSUME NEW i \in DOMAIN beats, beats[i].age + 1 < Keep PROVE \E n \in DOMAIN after : was[n] = i
  BY <1>5, <1>7, <1>8, <1>9, <1>12
<1> QED BY <1>5, <1>9, <1>10, <1>11, <1>12 DEF after, aged

LEMMA RecordWaits ==
    ASSUME NEW l \in Ledgers, NEW o \in Outcomes
    PROVE  /\ o = "ok" => Record(l, o).cooldown = 0 /\ Record(l, o).alerted = 0
           /\ o # "ok" => Record(l, o).alerted = l.alerted
           /\ o = "error" => Record(l, o).cooldown = l.cooldown
           /\ o = "exhausted" => Record(l, o).cooldown = BackoffMax
           /\ o = "ratelimit" => Record(l, o).cooldown \in 0..BackoffMax
<1> DEFINE beats == Append(l.beats, [age |-> 0, outcome |-> o])
<1>1. beats \in Seq(Beats)
  BY AppendCounts, ConstantsAssumption DEF Ledgers
<1> HIDE DEF beats
<1>2. backoffFor(beats) \in 0..BackoffMax
  BY <1>1, BackoffIs
<1>3. Record(l, o) = [beats    |-> beats,
                      cooldown |-> CASE o = "ratelimit" -> backoffFor(beats)
                                     [] o = "exhausted" -> BackoffMax
                                     [] o = "ok"        -> 0
                                     [] o = "error"     -> l.cooldown,
                      alerted  |-> IF o = "ok" THEN 0 ELSE l.alerted]
  BY DEF Record, beats
<1>4. o \in {"ok", "ratelimit", "error", "exhausted"}
  BY ConstantsAssumption
<1> QED BY <1>2, <1>3, <1>4

LEMMA CauseStep ==
    ASSUME MaxCrashes = 0, ~LedgerFails, TypeInv, LockInv, CauseInv, [Next]_vars
    PROVE  CauseInv'
<1>0. /\ hour \in 0..(Day - 1) /\ ledger \in Ledgers /\ proc \in [Procs -> Runs] /\ crashes = 0
      /\ calls \in Seq(Beats) /\ ledger.beats \in Seq(Beats) /\ ledger.cooldown \in Nat
      /\ \A p \in Procs : proc[p].pc = "record" => proc[p].outcome \in Outcomes
  <2>1. /\ hour \in 0..(Day - 1) /\ ledger \in Ledgers /\ proc \in [Procs -> Runs]
        /\ crashes \in 0..0 /\ calls \in Seq(Beats)
    BY TypeParts DEF TypeInv
  <2> QED BY <2>1, TopIs DEF Ledgers, TypeInv
<1>cad. Cadence \in 0..Cadence /\ Idle(Cadence).pc = "idle"
  BY IdleIs, ConstantsAssumption
<1>max. BackoffMax \in Nat \ {0} /\ Keep \in Nat /\ BackoffMax <= Keep
  BY ConstantsAssumption
<1>len. Len(calls) \in Nat /\ DOMAIN calls = 1..Len(calls) /\ \A i \in DOMAIN calls : calls[i].age \in Nat
  BY <1>0, HistoryIs
<1>alone. ASSUME NEW p \in Procs, proc[p].pc \in Critical
          PROVE  \A q \in Procs : q = p \/ proc[q].pc \in {"idle", "stat"}
  BY <1>alone DEF LockInv, Others
\* A step that neither starts a beat nor touches the cooldown or the history.
<1>same. ASSUME NEW p \in Procs, proc'[p].pc \notin {"record", "beating"},
                \A q \in Procs \ {p} : proc'[q] = proc[q],
                ledger'.cooldown = ledger.cooldown, UNCHANGED calls
         PROVE  CauseInv'
  <2>1. \A i : Refusal(i)' <=> Refusal(i)
    BY <1>same DEF Refusal
  <2> QED BY <1>same, <2>1 DEF CauseInv
<1>1. ASSUME NEW p \in Procs, Refuse(p) \/ Crash(p) PROVE FALSE
  BY <1>0, <1>1 DEF Refuse, Crash
<1>2. ASSUME NEW p \in Procs, TryLock(p) \/ StatLock(p) \/ BreakLock(p) \/ RetakeLock(p) PROVE CauseInv'
  <2>1. /\ UNCHANGED <<hour, ledger, calls>>
        /\ \/ \E pc \in {"check", "stat", "break", "retake"} : Goto(p, pc)
           \/ proc' = [proc EXCEPT ![p] = Idle(Cadence)]
    BY <1>2 DEF TryLock, StatLock, BreakLock, RetakeLock
  <2>2. CASE \E pc \in {"check", "stat", "break", "retake"} : Goto(p, pc)
    <3>1. PICK pc \in {"check", "stat", "break", "retake"} : Goto(p, pc)
      BY <2>2
    <3>2. proc'[p].pc = pc /\ \A q \in Procs \ {p} : proc'[q] = proc[q]
      BY <3>1, GotoIs DEF Pcs
    <3> QED BY <1>same, <2>1, <3>2
  <2>3. CASE proc' = [proc EXCEPT ![p] = Idle(Cadence)]
    <3>1. proc'[p].pc = "idle" /\ \A q \in Procs \ {p} : proc'[q] = proc[q]
      BY <2>3, <1>cad, StopIs
    <3> QED BY <1>same, <2>1, <3>1
  <2> QED BY <2>1, <2>2, <2>3
<1>3. ASSUME NEW p \in Procs, Leave(p) \/ TimeOut(p) PROVE CauseInv'
  <2>1. UNCHANGED <<hour, ledger, calls>> /\ proc' = [proc EXCEPT ![p] = Idle(Cadence)]
    BY <1>3 DEF Leave, TimeOut
  <2>2. proc'[p].pc = "idle" /\ \A q \in Procs \ {p} : proc'[q] = proc[q]
    BY <2>1, <1>cad, StopIs
  <2> QED BY <1>same, <2>1, <2>2
<1>4. ASSUME NEW p \in Procs, Proceed(p) PROVE CauseInv'
  <2>1. /\ proc[p].pc = "check" /\ RetryAfter(ledger) = 0 /\ Goto(p, "beating")
        /\ UNCHANGED <<hour, ledger, calls>>
    BY <1>4 DEF Proceed
  <2>2. proc'[p].pc = "beating" /\ \A q \in Procs \ {p} : proc'[q] = proc[q]
    BY <2>1, GotoIs DEF Pcs
  <2>3. ledger.cooldown = 0
    BY <1>0, <2>1, RetryAfterIs
  <2> QED BY <2>1, <2>2, <2>3 DEF CauseInv
<1>5. ASSUME NEW p \in Procs, Hold(p) PROVE CauseInv'
  <2>1. /\ Goto(p, "leaving") /\ UNCHANGED <<hour, calls>>
        /\ ledger' = Save([ledger EXCEPT !.alerted = RetryAfter(ledger)])
    BY <1>5 DEF Hold
  <2>2. proc'[p].pc = "leaving" /\ \A q \in Procs \ {p} : proc'[q] = proc[q]
    BY <2>1, GotoIs DEF Pcs
  <2>3. /\ [ledger EXCEPT !.alerted = RetryAfter(ledger)] \in Ledgers
        /\ [ledger EXCEPT !.alerted = RetryAfter(ledger)].cooldown = ledger.cooldown
    BY <1>0, RetryAfterIs DEF Ledgers
  <2>4. ledger'.cooldown = ledger.cooldown
    BY <2>1, <2>3, SaveIs
  <2> QED BY <1>same, <2>1, <2>2, <2>4
<1>6. ASSUME NEW p \in Procs, EndBeat(p) PROVE CauseInv'
  <2>1. PICK o \in Endings : /\ proc' = [proc EXCEPT ![p].pc = "record", ![p].outcome = o]
                             /\ calls' = Append(calls, [age |-> 0, outcome |-> o])
    BY <1>6 DEF EndBeat
  <2>2. proc[p].pc = "beating" /\ UNCHANGED ledger /\ ledger.cooldown = 0
    BY <1>6 DEF EndBeat, CauseInv
  <2>3. /\ proc'[p].pc = "record" /\ proc'[p].outcome = o
        /\ \A q \in Procs \ {p} : proc'[q].pc \notin {"beating", "record"}
    BY <1>0, <1>alone, <2>1, <2>2 DEF Runs, Critical
  <2>4. o \in Outcomes
    BY <2>1 DEF Endings
  <2>5. [age |-> 0, outcome |-> o] \in Beats
    BY <2>4, <1>max DEF Beats
  <2>6. Len(calls') = Len(calls) + 1 /\ calls'[Len(calls) + 1] = [age |-> 0, outcome |-> o]
    BY <1>0, <2>1, <2>5
  <2>7. Len(calls') > 0 /\ calls'[Len(calls')] = [age |-> 0, outcome |-> o]
    BY <1>len, <2>6
  <2> QED BY <2>2, <2>3, <2>7 DEF CauseInv
<1>7. ASSUME NEW p \in Procs, RecordBeat(p) PROVE CauseInv'
  <2> DEFINE o == proc[p].outcome
  <2>1. /\ proc[p].pc = "record" /\ Goto(p, "leaving") /\ ledger' = Save(Record(ledger, o))
        /\ UNCHANGED calls /\ o \in Outcomes
    BY <1>0, <1>7 DEF RecordBeat, Loaded
  <2>2. /\ proc'[p].pc = "leaving"
        /\ \A q \in Procs : proc'[q].pc \notin {"beating", "record"}
    BY <1>alone, <2>1, GotoIs DEF Pcs, Critical
  <2>n. PICK n : n = Len(calls)
    OBVIOUS
  <2>3. n \in DOMAIN calls /\ calls[n].age = 0 /\ calls[n].outcome = o /\ ledger.cooldown = 0
    <3>1. n > 0 /\ calls[n] = [age |-> 0, outcome |-> o] /\ ledger.cooldown = 0
      BY <2>1, <2>n DEF CauseInv
    <3> QED BY <1>len, <2>n, <3>1
  <2>4. ledger'.cooldown = Record(ledger, o).cooldown
    BY <1>0, <2>1, RecordIs, SaveIs
  <2>5. o \in {"ok", "ratelimit", "error", "exhausted"}
    BY <2>1, ConstantsAssumption
  <2> HIDE DEF o
  <2>6. ledger'.cooldown > 0 => o \in {"ratelimit", "exhausted"} /\ ledger'.cooldown \in 0..BackoffMax
    BY <1>0, <1>max, <2>1, <2>3, <2>4, <2>5, RecordWaits
  <2>7. \A j \in DOMAIN calls : ~(j > n)
    BY <1>len, <2>n
  <2>8. calls'[n] = calls[n] /\ n \in DOMAIN calls' /\ \A j \in DOMAIN calls' : ~(j > n)
    BY <2>1, <2>3, <2>7
  <2>9. ledger'.cooldown > 0 => Refusal(n)'
    BY <1>max, <2>3, <2>6, <2>8 DEF Refusal
  <2> QED BY <2>2, <2>8, <2>9 DEF CauseInv
<1>8. ASSUME Tick PROVE CauseInv'
  <2>1. /\ calls' = prune(Aged(calls)) /\ ledger'.cooldown = Less(ledger.cooldown)
        /\ \A p \in Procs : proc[p].pc # "record"
    BY <1>8 DEF Tick
  <2>2. \A p \in Procs : proc'[p].pc = proc[p].pc
    <3> SUFFICES ASSUME NEW p \in Procs PROVE proc'[p].pc = proc[p].pc
      OBVIOUS
    <3>1. proc[p] \in Runs
      BY <1>0
    <3>2. proc'[p] = [proc[p] EXCEPT !.up = IF proc[p].pc = "beating" THEN proc[p].up + 1 ELSE proc[p].up,
                                     !.rest = Less(proc[p].rest)]
      BY <1>8 DEF Tick
    <3> QED BY <3>1, <3>2 DEF Runs
  <2>3. ASSUME ledger'.cooldown > 0 PROVE \E n \in DOMAIN calls' : Refusal(n)'
    <3>1. ledger.cooldown > 0 /\ ledger'.cooldown = ledger.cooldown - 1 /\ ledger.cooldown - 1 > 0
      BY <1>0, <2>1, <2>3 DEF Less
    <3>2. PICK i \in DOMAIN calls : Refusal(i)
      BY <3>1 DEF CauseInv
    <3>3. calls[i].age + 1 < Keep /\ calls[i].age + 1 + ledger'.cooldown <= BackoffMax
      <4>1. calls[i].age \in Nat /\ calls[i].age + ledger.cooldown <= BackoffMax
        BY <1>len, <3>2 DEF Refusal
      <4> QED BY <1>0, <1>max, <3>1, <4>1
    <3>4. PICK was \in [DOMAIN calls' -> DOMAIN calls] :
             /\ \A n \in DOMAIN calls' : /\ calls'[n].outcome = calls[was[n]].outcome
                                         /\ calls'[n].age = calls[was[n]].age + 1
             /\ \A m, n \in DOMAIN calls' : m < n => was[m] < was[n]
             /\ \A k \in DOMAIN calls : calls[k].age + 1 < Keep => \E n \in DOMAIN calls' : was[n] = k
      <4>1. calls' = prune(Aged(calls)) /\ calls \in Seq(Beats)
        BY <1>0, <2>1
      <4> QED BY <4>1, TickHistory
    <3>5. PICK n \in DOMAIN calls' : was[n] = i
      BY <3>3, <3>4
    <3>6. calls'[n].outcome \in {"ratelimit", "exhausted"} /\ calls'[n].age + ledger'.cooldown <= BackoffMax
      BY <3>2, <3>3, <3>4, <3>5 DEF Refusal
    <3>7. DOMAIN calls' \subseteq Int /\ DOMAIN calls \subseteq Int
      <4>1. calls' \in Seq(Beats)
        BY <1>0, <2>1, TickHistory
      <4> QED BY <4>1, <1>len, HistoryIs
    <3>8. ASSUME NEW m \in DOMAIN calls', m > n PROVE calls'[m].outcome # "ok"
      <4>1. m \in Int /\ n \in Int /\ n < m
        BY <3>7, <3>8
      <4>2. was[n] < was[m] /\ was[m] \in DOMAIN calls /\ was[m] \in Int /\ i \in Int
        BY <3>4, <3>7, <4>1
      <4>3. was[m] > i
        BY <3>5, <4>2
      <4> QED BY <3>2, <3>4, <4>2, <4>3 DEF Refusal
    <3> QED BY <3>6, <3>8 DEF Refusal
  <2>4. \A p \in Procs : proc'[p].pc = "beating" => ledger'.cooldown = 0
    BY <2>1, <2>2 DEF CauseInv, Less
  <2> QED BY <2>1, <2>2, <2>3, <2>4 DEF CauseInv
<1>9. CASE UNCHANGED vars
  <2>1. UNCHANGED <<ledger, calls, proc>>
    BY <1>9 DEF vars
  <2>2. \A i : Refusal(i)' <=> Refusal(i)
    BY <2>1 DEF Refusal
  <2> QED BY <2>1, <2>2 DEF CauseInv
<1> QED BY <1>1, <1>2, <1>3, <1>4, <1>5, <1>6, <1>7, <1>8, <1>9 DEF Next, Step

LEMMA CauseInvHolds ==
    ASSUME MaxCrashes = 0, Cadence > 0, TwoRuns, ~LedgerFails
    PROVE  Spec => [](TypeInv /\ LockInv /\ SpendInv /\ CauseInv)
<1>1. Init => CauseInv
  <2> SUFFICES ASSUME Init PROVE CauseInv
    OBVIOUS
  <2>1. ledger.cooldown = 0 /\ \A p \in Procs : proc[p].pc = "idle"
    BY IdleIs, ConstantsAssumption DEF Init, EmptyLedger
  <2> QED BY <2>1 DEF CauseInv
<1>2. TypeInv /\ LockInv /\ SpendInv /\ CauseInv /\ [Next]_vars => CauseInv'
  BY CauseStep
<1> QED BY <1>1, <1>2, SpendInvHolds, PTL DEF Spec

\* Of all steps, only cti-budget's denial sends a run home from its check.
LEMMA OnlyHoldDenies ==
    ASSUME TypeInv, MaxCrashes = 0, [Next]_vars, NEW p \in Procs, Denied(p)
    PROVE  Hold(p)
<1>0. proc \in [Procs -> Runs] /\ crashes = 0
  <2>1. proc \in [Procs -> Runs] /\ crashes \in 0..0
    BY TypeParts DEF TypeInv
  <2> QED BY <2>1
<1>1. proc[p].pc = "check" /\ proc'[p].pc = "leaving"
  BY DEF Denied
<1>2. ASSUME NEW q \in Procs, q # p, \E r : proc' = [proc EXCEPT ![q] = r] PROVE FALSE
  BY <1>0, <1>1, <1>2
<1>3. ~Tick /\ ~UNCHANGED vars
  BY <1>1 DEF Tick, vars
<1>4. PICK q \in Procs : Step(q)
  BY <1>0, <1>3 DEF Next, Refuse, Crash
<1>5. \E r : proc' = [proc EXCEPT ![q] = r]
  BY <1>4 DEF Step, TryLock, StatLock, BreakLock, RetakeLock, Proceed, Hold, EndBeat, RecordBeat,
              Leave, TimeOut, Goto
<1>6. Step(p)
  BY <1>2, <1>4, <1>5
<1>7. ~Goto(p, "beating")
  BY <1>1, GotoIs DEF Pcs
<1> QED BY <1>1, <1>6, <1>7
        DEF Step, TryLock, StatLock, BreakLock, RetakeLock, Proceed, EndBeat, RecordBeat, Leave, TimeOut

\* A beat is only held back for quota really spent or a refusal not lifted by a
\* clean beat since (budget.go, CanSpend and Record): a lane that merely breaks
\* is never held.
THEOREM HoldsHaveCause ==
    ASSUME MaxCrashes = 0, Cadence > 0, TwoRuns, ~LedgerFails
    PROVE  Spec => HoldsForCause
<1>1. ASSUME TypeInv, LockInv, SpendInv, CauseInv, [Next]_vars
      PROVE  \A p \in Procs : Denied(p) =>
                \/ Spent(Window) >= WindowBeats
                \/ Spent(hour + 1) >= DailyBeats
                \/ \E i \in DOMAIN calls :
                      /\ calls[i].outcome \in {"ratelimit", "exhausted"}
                      /\ calls[i].age < BackoffMax
                      /\ \A j \in (i + 1)..Len(calls) : calls[j].outcome # "ok"
  <2> SUFFICES ASSUME NEW p \in Procs, Denied(p)
               PROVE  \/ Spent(Window) >= WindowBeats
                      \/ Spent(hour + 1) >= DailyBeats
                      \/ \E i \in DOMAIN calls :
                            /\ calls[i].outcome \in {"ratelimit", "exhausted"}
                            /\ calls[i].age < BackoffMax
                            /\ \A j \in (i + 1)..Len(calls) : calls[j].outcome # "ok"
    OBVIOUS
  <2>1. proc[p].pc = "check" /\ RetryAfter(ledger) > 0
    BY <1>1, OnlyHoldDenies DEF Hold
  <2>2. hour \in 0..(Day - 1) /\ calls \in Seq(Beats) /\ ledger.beats \in Seq(Beats) /\ ledger.cooldown \in Nat
    BY <1>1, TopIs, TypeParts DEF TypeInv, Ledgers
  <2>3. Window \in 1..Keep /\ hour + 1 \in 1..Keep
    BY <2>2, Spans
  <2>4. \A q \in Procs : ~Owed(q)
    BY <1>1, <2>1 DEF LockInv, Others, Owed, Critical
  <2>5. Behind = 0
    BY <2>4 DEF Behind
  <2>6. \A s \in 1..Keep : /\ countSince(calls, s) \in Nat /\ countSince(ledger.beats, s) \in Nat
                           /\ countSince(calls, s) = countSince(ledger.beats, s) + 0
    BY <1>1, <2>2, <2>5, ChargedIs DEF SpendInv
  <2>7. \A s \in 1..Keep : Spent(s) = countSince(ledger.beats, s)
    BY <2>6, SpentIs
  <2>8. CASE ledger.cooldown > 0
    <3>1. PICK i \in DOMAIN calls : Refusal(i)
      BY <1>1, <2>8 DEF CauseInv
    <3>2. calls[i].age \in Nat /\ Len(calls) \in Nat /\ DOMAIN calls = 1..Len(calls) /\ BackoffMax \in Nat
      BY <2>2, HistoryIs, ConstantsAssumption
    <3>3. calls[i].age < BackoffMax
      BY <2>2, <2>8, <3>1, <3>2 DEF Refusal
    <3>4. \A j \in (i + 1)..Len(calls) : j \in DOMAIN calls /\ j > i
      BY <3>2
    <3> QED BY <3>1, <3>3, <3>4 DEF Refusal
  <2>9. CASE ~(ledger.cooldown > 0)
    <3>1. \/ countSince(ledger.beats, Window) >= WindowBeats
          \/ countSince(ledger.beats, hour + 1) >= DailyBeats
      BY <2>1, <2>9 DEF RetryAfter
    <3> QED BY <2>3, <2>7, <3>1
  <2> QED BY <2>8, <2>9
<1> QED BY <1>1, CauseInvHolds, PTL DEF Spec, HoldsForCause
-----------------------------------------------------------------------------
(* The mails of the gate.  The mark on a hold is the end the ledger still  *)
(* has for it, so no hold is marked twice; what a run was told to mail for *)
(* an instant is the mark and what recording an exhausted account told;    *)
(* and an account is found exhausted once at most in the longest wait.     *)

Exhausted(i) == calls[i].outcome = "exhausted"
Spoken(i, t) == Exhausted(i) /\ calls[i].age + t = BackoffMax
Recording == \E p \in Procs : proc[p].pc = "record"
Marks(t) == IF ledger.alerted = t THEN 1 ELSE 0
Reported(t) == IF \E i \in DOMAIN calls : Spoken(i, t) THEN 1 ELSE 0

TellInv ==
    /\ \A p \in Procs : proc[p].pc \in {"beating", "record"} => ledger.alerted = 0
    /\ ledger.alerted > 0 => RetryAfter(ledger) = ledger.alerted
    /\ \A i, j \in DOMAIN calls : /\ Exhausted(i) /\ calls[i].age < BackoffMax
                                  /\ Exhausted(j) /\ calls[j].age < BackoffMax
                                  => i = j
    /\ ~Recording =>
          /\ \A i \in DOMAIN calls : Exhausted(i) => calls[i].age + ledger.cooldown >= BackoffMax
          /\ \A t \in Times \ {0} : alerts[t] = Marks(t) + Reported(t)
    /\ Recording =>
          /\ \A t \in Times \ {0} : alerts[t] = 0
          /\ \A i \in DOMAIN calls : i # Len(calls) /\ Exhausted(i) => calls[i].age >= BackoffMax

Ages(beats) == {beats[i].age : i \in Charged(beats, Window)}

LEMMA AgesAre ==
    ASSUME NEW beats \in Seq(Beats)
    PROVE  /\ oldestInWindow(beats) = Max(Ages(beats))
           /\ Ages(beats) \in SUBSET Nat /\ \A a \in Ages(beats) : a < Window
           /\ countSince(beats, Window) > 0 => Ages(beats) # {}
<1> DEFINE A == {b.age : b \in {c \in ToSet(beats) : c.age < Window /\ Charges(c.outcome)}}
<1>1. oldestInWindow(beats) = Max(A)
  BY Zenon DEF oldestInWindow
<1>2. A = Ages(beats)
  BY DEF Ages, Charged, ToSet
<1>3. Ages(beats) \in SUBSET Nat /\ \A a \in Ages(beats) : a < Window
  BY HistoryIs DEF Ages, Charged
<1>4. countSince(beats, Window) > 0 => Charged(beats, Window) # {}
  BY ChargedIs, FS_EmptySet
<1> HIDE DEF A
<1> QED BY <1>1, <1>2, <1>3, <1>4 DEF Ages

\* Dropping what no limit reads leaves the gate's answer as it is.
LEMMA PruneRetry ==
    ASSUME NEW l \in Ledgers, NEW key, hour \in 0..(Day - 1)
    PROVE  RetryAfter(Save([l EXCEPT !.alerted = key])) = RetryAfter(l)
<1> DEFINE beats == l.beats
           after == Save([l EXCEPT !.alerted = key])
           K == Kept(beats)
<1>1. beats \in Seq(Beats) /\ after.beats = prune(beats) /\ after.cooldown = l.cooldown
  BY DEF Save, Ledgers
<1>2. \A s \in 1..Keep : countSince(prune(beats), s) = countSince(beats, s)
  BY <1>1, PruneCounts, ConstantsAssumption
<1>3. Window \in 1..Keep /\ hour + 1 \in 1..Keep
  BY Spans
<1>4. Ages(prune(beats)) = Ages(beats)
  <2>1. /\ K \in SUBSET Int /\ IsFiniteSet(K) /\ K \subseteq DOMAIN beats
        /\ DOMAIN prune(beats) = 1..Cardinality(K) /\ prune(beats) \in Seq(Beats)
        /\ \A n \in DOMAIN prune(beats) : Nth(K, n) \in K /\ prune(beats)[n] = beats[Nth(K, n)]
    BY <1>1, PruneIs
  <2>2. Charged(beats, Window) \subseteq K
    BY <1>1, HistoryIs, ConstantsAssumption DEF Charged, Kept
  <2> HIDE DEF K, beats
  <2>3. \A i \in K : Rank(K, i) \in DOMAIN prune(beats) /\ Nth(K, Rank(K, i)) = i
    BY <2>1, RankIs, NthIs
  <2>4. ASSUME NEW i \in Charged(beats, Window) PROVE beats[i].age \in Ages(prune(beats))
    <3>1. Rank(K, i) \in DOMAIN prune(beats) /\ prune(beats)[Rank(K, i)] = beats[i]
      BY <2>1, <2>2, <2>3
    <3> QED BY <3>1 DEF Ages, Charged
  <2>5. ASSUME NEW n \in Charged(prune(beats), Window) PROVE prune(beats)[n].age \in Ages(beats)
    BY <2>1 DEF Ages, Charged
  <2> QED BY <2>4, <2>5 DEF Ages
<1>5. oldestInWindow(prune(beats)) = oldestInWindow(beats)
  <2>1. prune(beats) \in Seq(Beats)
    BY <1>1, PruneIs
  <2> HIDE DEF beats
  <2> QED BY <1>1, <1>4, <2>1, AgesAre
<1>6. /\ countSince(after.beats, Window) = countSince(beats, Window)
      /\ countSince(after.beats, hour + 1) = countSince(beats, hour + 1)
      /\ oldestInWindow(after.beats) = oldestInWindow(beats)
  BY <1>1, <1>2, <1>3, <1>5
<1> HIDE DEF after
<1>7. RetryAfter(after) = RetryAfter(l)
  BY <1>1, <1>6 DEF RetryAfter
<1> QED BY <1>7 DEF after
\* A tick brings the end of a hold a tick nearer, whichever limit it is for.
LEMMA TickRetry ==
    ASSUME TypeInv, Tick, RetryAfter(ledger) > 1
    PROVE  RetryAfter(ledger)' = RetryAfter(ledger) - 1
<1> DEFINE beats == ledger.beats
           key == RetryAfter(ledger)
<1>0. /\ hour \in 0..(Day - 1) /\ ledger \in Ledgers /\ beats \in Seq(Beats) /\ ledger.cooldown \in Nat
  BY TopIs, TypeParts DEF TypeInv, Ledgers
<1>1. /\ hour' = IF hour + 1 = Day THEN 0 ELSE hour + 1
      /\ ledger'.beats = Aged(beats)
      /\ ledger'.cooldown = Less(ledger.cooldown)
  BY <1>0, NextHour DEF Tick
<1>2. Window \in 1..Keep /\ hour + 1 \in 1..Keep /\ Day \in Nat \ {0} /\ WindowBeats \in Nat /\ DailyBeats \in Nat
      /\ Window \in Nat /\ Keep \in Nat
  BY <1>0, Spans, ConstantsAssumption
<1>3. \A s \in Nat : countSince(beats, s) \in Nat /\ countSince(Aged(beats), s) \in Nat
  BY <1>0, AgedIs, ChargedIs
<1>4. countSince(Aged(beats), Window) = countSince(beats, Window - 1) /\ Window - 1 \in Nat
  BY <1>0, <1>2, TickCounts
<1>5. countSince(Aged(beats), Window) <= countSince(beats, Window)
  BY <1>0, <1>2, <1>4, CountGrows
<1> HIDE DEF beats
<1>6. RetryAfter(ledger) =
        IF ledger.cooldown > 0 THEN ledger.cooldown
        ELSE IF countSince(beats, Window) >= WindowBeats THEN Window - oldestInWindow(beats)
        ELSE IF countSince(beats, hour + 1) >= DailyBeats THEN Day - hour
        ELSE 0
  BY DEF RetryAfter, beats
<1>7. RetryAfter(ledger)' =
        IF ledger'.cooldown > 0 THEN ledger'.cooldown
        ELSE IF countSince(Aged(beats), Window) >= WindowBeats THEN Window - oldestInWindow(Aged(beats))
        ELSE IF countSince(Aged(beats), hour' + 1) >= DailyBeats THEN Day - hour'
        ELSE 0
  BY <1>1 DEF RetryAfter
<1>8. CASE ledger.cooldown > 0
  <2>1. ledger.cooldown > 1 /\ ledger'.cooldown = ledger.cooldown - 1
    BY <1>0, <1>1, <1>6, <1>8 DEF Less
  <2> QED BY <1>0, <1>6, <1>7, <1>8, <2>1
<1>9. CASE ledger.cooldown = 0 /\ countSince(beats, Window) >= WindowBeats
  <2> DEFINE old == oldestInWindow(beats)
             A == Ages(beats)
             B == Ages(Aged(beats))
  <2>1. countSince(beats, Window) > 0
    BY <1>2, <1>3, <1>9, ConstantsAssumption
  <2>2. old \in 0..(Window - 1) /\ old = Max(A) /\ A \in SUBSET Nat /\ A # {} /\ \A a \in A : a < Window
    BY <1>0, <2>1, OldestIs, AgesAre
  <2>3. old \in A /\ \A a \in A : a <= old
    <3> HIDE DEF A, old
    <3>1. \A a \in A : a <= Window
      BY <1>2, <2>2
    <3> QED BY <1>2, <2>2, <3>1, MaxIs
  <2>4. Window - old > 1
    BY <1>6, <1>9
  <2>5. \A a \in A : a < Window - 1
    BY <1>2, <2>2, <2>3, <2>4
  <2>6. Charged(beats, Window - 1) = Charged(beats, Window)
    <3>1. ASSUME NEW i \in DOMAIN beats, Charges(beats[i].outcome)
          PROVE  beats[i].age < Window - 1 <=> beats[i].age < Window
      <4>1. beats[i].age \in Nat
        BY <1>0, HistoryIs
      <4>2. beats[i].age < Window => beats[i].age \in A
        BY <3>1 DEF Ages, Charged
      <4> HIDE DEF A
      <4> QED BY <1>2, <2>5, <4>1, <4>2
    <3> QED BY <3>1 DEF Charged
  <2>7. countSince(Aged(beats), Window) >= WindowBeats
    BY <1>0, <1>4, <1>9, <2>6, ChargedIs
  <2>8. /\ Aged(beats) \in Seq(Beats) /\ DOMAIN Aged(beats) = DOMAIN beats
        /\ \A i \in DOMAIN beats : /\ Aged(beats)[i].outcome = beats[i].outcome
                                   /\ Aged(beats)[i].age = IF beats[i].age + 1 <= Keep THEN beats[i].age + 1 ELSE Keep
                                   /\ beats[i].age \in Nat
    BY <1>0, AgedIs, HistoryIs
  <2>9. Charged(Aged(beats), Window) = Charged(beats, Window - 1)
    <3>1. ASSUME NEW i \in DOMAIN beats PROVE Aged(beats)[i].age < Window <=> beats[i].age < Window - 1
      <4>1. beats[i].age \in Nat
        BY <2>8
      <4>2. Aged(beats)[i].age = IF beats[i].age + 1 <= Keep THEN beats[i].age + 1 ELSE Keep
        BY <2>8
      <4> QED BY <1>2, <4>1, <4>2
    <3> QED BY <2>8, <3>1 DEF Charged
  <2>10. \A i \in Charged(beats, Window) : i \in DOMAIN beats /\ beats[i].age \in A
    BY DEF Ages, Charged
  <2>11. ASSUME NEW i \in Charged(beats, Window) PROVE Aged(beats)[i].age = beats[i].age + 1
    <3>1. beats[i].age < Window - 1 /\ beats[i].age \in Nat
      BY <2>5, <2>8, <2>10
    <3>2. Aged(beats)[i].age = IF beats[i].age + 1 <= Keep THEN beats[i].age + 1 ELSE Keep
      BY <2>8, <2>10
    <3> QED BY <1>2, <3>1, <3>2
  <2>12. B = {a + 1 : a \in A}
    <3>1. B = {Aged(beats)[i].age : i \in Charged(beats, Window)}
      BY <2>6, <2>9 DEF Ages
    <3> QED BY <2>11, <3>1 DEF Ages
  <2>13. B \in SUBSET Nat /\ old + 1 \in B /\ \A b \in B : b <= old + 1
    <3> HIDE DEF A, B, old
    <3> QED BY <2>2, <2>3, <2>12
  <2>14. oldestInWindow(Aged(beats)) = old + 1
    <3>1. oldestInWindow(Aged(beats)) = Max(B)
      BY <2>8, AgesAre
    <3>2. old + 1 \in Nat
      BY <2>2
    <3> HIDE DEF B, old
    <3>3. Max(B) \in B /\ \A b \in B : b <= Max(B)
      BY <2>13, <3>2, MaxIs
    <3>4. Max(B) <= old + 1 /\ old + 1 <= Max(B) /\ Max(B) \in Nat
      BY <2>13, <3>3
    <3> QED BY <3>1, <3>2, <3>4
  <2>15. ledger'.cooldown = 0
    BY <1>1, <1>9 DEF Less
  <2>16. RetryAfter(ledger)' = Window - (old + 1) /\ RetryAfter(ledger) = Window - old
    BY <1>6, <1>7, <1>9, <2>7, <2>14, <2>15
  <2> QED BY <1>2, <2>2, <2>16
<1>10. CASE ledger.cooldown = 0 /\ ~(countSince(beats, Window) >= WindowBeats)
  <2>1. countSince(beats, hour + 1) >= DailyBeats /\ RetryAfter(ledger) = Day - hour
    BY <1>6, <1>10
  <2>2. hour' = hour + 1 /\ hour + 1 < Day
    BY <1>0, <1>1, <1>2, <2>1
  <2>3. ~(countSince(Aged(beats), Window) >= WindowBeats)
    BY <1>2, <1>3, <1>5, <1>10
  <2>4. PICK s \in 1..Keep : s = hour + 1 + 1 /\ s - 1 = hour + 1
    BY <1>0, <1>2, <2>2, ConstantsAssumption
  <2>5. countSince(Aged(beats), s) = countSince(beats, s - 1)
    BY <1>0, TickCounts
  <2>6. countSince(Aged(beats), hour' + 1) = countSince(beats, hour + 1)
    BY <2>2, <2>4, <2>5
  <2>7. ledger'.cooldown = 0
    BY <1>1, <1>10 DEF Less
  <2>8. RetryAfter(ledger)' = Day - hour'
    BY <1>7, <2>1, <2>3, <2>6, <2>7
  <2> QED BY <1>0, <1>2, <2>1, <2>2, <2>8
<1> QED BY <1>0, <1>8, <1>9, <1>10
LEMMA MarksAre ==
    ASSUME NEW t
    PROVE  Marks(t) \in 0..1 /\ Reported(t) \in 0..1 /\ (Marks(t) = 1 <=> ledger.alerted = t)
           /\ (Reported(t) = 1 <=> \E i \in DOMAIN calls : Spoken(i, t))
BY DEF Marks, Reported

LEMMA TellStep ==
    ASSUME MaxCrashes = 0, ~LedgerFails, TypeInv, LockInv, CauseInv, TellInv, [Next]_vars
    PROVE  TellInv'
<1>0. /\ hour \in 0..(Day - 1) /\ ledger \in Ledgers /\ proc \in [Procs -> Runs] /\ crashes = 0
      /\ calls \in Seq(Beats) /\ ledger.beats \in Seq(Beats) /\ ledger.cooldown \in Nat
      /\ ledger.alerted \in Nat /\ ledger.alerted \in Times /\ alerts \in Tallies
      /\ \A p \in Procs : proc[p].pc = "record" => proc[p].outcome \in Outcomes
  <2>1. /\ hour \in 0..(Day - 1) /\ ledger \in Ledgers /\ proc \in [Procs -> Runs]
        /\ crashes \in 0..0 /\ calls \in Seq(Beats) /\ alerts \in Tallies
    BY TypeParts DEF TypeInv
  <2> QED BY <2>1, TopIs DEF Ledgers, TypeInv
<1>cad. Cadence \in 0..Cadence /\ Idle(Cadence).pc = "idle"
  BY IdleIs, ConstantsAssumption
<1>max. /\ BackoffMax \in Nat \ {0} /\ Keep \in Nat /\ BackoffMax <= Keep /\ BackoffMax \in Times \ {0}
        /\ Top \in Nat /\ Times = 0..Top /\ BackoffMax <= Top
  BY TopIs, ConstantsAssumption
<1>len. /\ Len(calls) \in Nat /\ DOMAIN calls = 1..Len(calls)
        /\ \A i \in DOMAIN calls : calls[i].age \in Nat
  BY <1>0, HistoryIs
<1>alone. ASSUME NEW p \in Procs, proc[p].pc \in Critical
          PROVE  \A q \in Procs : q = p \/ proc[q].pc \in {"idle", "stat"}
  BY <1>alone DEF LockInv, Others
\* A step that neither starts, ends nor records a beat, nor touches what the
\* invariant relates.
<1>same. ASSUME NEW p \in Procs, proc[p].pc # "record", proc'[p].pc \notin {"record", "beating"},
                \A q \in Procs \ {p} : proc'[q] = proc[q], UNCHANGED <<hour, ledger, calls, alerts>>
         PROVE  TellInv'
  <2>1. Recording' <=> Recording
    BY <1>same DEF Recording
  <2>2. /\ \A i : (Exhausted(i)' <=> Exhausted(i)) /\ \A t : Spoken(i, t)' <=> Spoken(i, t)
        /\ RetryAfter(ledger)' = RetryAfter(ledger)
    BY <1>same DEF Exhausted, Spoken, RetryAfter
  <2>3. \A t : Marks(t)' = Marks(t) /\ Reported(t)' = Reported(t)
    BY <1>same, <2>2 DEF Marks, Reported
  <2>4. \A q \in Procs : proc'[q].pc \in {"beating", "record"} => ledger'.alerted = 0
    BY <1>same DEF TellInv
  <2> QED BY <1>same, <2>1, <2>2, <2>3, <2>4 DEF TellInv
<1>1. ASSUME NEW p \in Procs, Refuse(p) \/ Crash(p) PROVE FALSE
  BY <1>0, <1>1 DEF Refuse, Crash
<1>2. ASSUME NEW p \in Procs, TryLock(p) \/ StatLock(p) \/ BreakLock(p) \/ RetakeLock(p) PROVE TellInv'
  <2>1. /\ UNCHANGED <<hour, ledger, calls, alerts>> /\ proc[p].pc # "record"
        /\ \/ \E pc \in {"check", "stat", "break", "retake"} : Goto(p, pc)
           \/ proc' = [proc EXCEPT ![p] = Idle(Cadence)]
    BY <1>2 DEF TryLock, StatLock, BreakLock, RetakeLock
  <2>2. CASE \E pc \in {"check", "stat", "break", "retake"} : Goto(p, pc)
    <3>1. PICK pc \in {"check", "stat", "break", "retake"} : Goto(p, pc)
      BY <2>2
    <3>2. proc'[p].pc = pc /\ \A q \in Procs \ {p} : proc'[q] = proc[q]
      BY <3>1, GotoIs DEF Pcs
    <3> QED BY <1>same, <2>1, <3>2
  <2>3. CASE proc' = [proc EXCEPT ![p] = Idle(Cadence)]
    <3>1. proc'[p].pc = "idle" /\ \A q \in Procs \ {p} : proc'[q] = proc[q]
      BY <2>3, <1>cad, StopIs
    <3> QED BY <1>same, <2>1, <3>1
  <2> QED BY <2>1, <2>2, <2>3
<1>3. ASSUME NEW p \in Procs, Leave(p) \/ TimeOut(p) PROVE TellInv'
  <2>1. /\ UNCHANGED <<hour, ledger, calls, alerts>> /\ proc[p].pc # "record"
        /\ proc' = [proc EXCEPT ![p] = Idle(Cadence)]
    BY <1>3 DEF Leave, TimeOut
  <2>2. proc'[p].pc = "idle" /\ \A q \in Procs \ {p} : proc'[q] = proc[q]
    BY <2>1, <1>cad, StopIs
  <2> QED BY <1>same, <2>1, <2>2
<1>4. ASSUME NEW p \in Procs, Proceed(p) PROVE TellInv'
  <2>1. /\ proc[p].pc = "check" /\ RetryAfter(ledger) = 0 /\ Goto(p, "beating")
        /\ UNCHANGED <<hour, ledger, calls, alerts>>
    BY <1>4 DEF Proceed
  <2>2. proc'[p].pc = "beating" /\ \A q \in Procs \ {p} : proc'[q] = proc[q]
    BY <2>1, GotoIs DEF Pcs
  <2>3. ledger.alerted = 0
    BY <1>0, <2>1 DEF TellInv
  <2>4. ~Recording' /\ ~Recording
    BY <1>alone, <2>1, <2>2 DEF Recording, Critical
  <2>5. /\ \A i : (Exhausted(i)' <=> Exhausted(i)) /\ \A t : Spoken(i, t)' <=> Spoken(i, t)
        /\ RetryAfter(ledger)' = RetryAfter(ledger)
    BY <2>1 DEF Exhausted, Spoken, RetryAfter
  <2>6. \A t : Marks(t)' = Marks(t) /\ Reported(t)' = Reported(t)
    BY <2>1, <2>5 DEF Marks, Reported
  <2> QED BY <2>1, <2>3, <2>4, <2>5, <2>6 DEF TellInv
<1>5. ASSUME NEW p \in Procs, Hold(p) PROVE TellInv'
  <2> DEFINE key == RetryAfter(ledger)
  <2>1. /\ proc[p].pc = "check" /\ key > 0 /\ Goto(p, "leaving")
        /\ ledger' = Save([ledger EXCEPT !.alerted = key])
        /\ UNCHANGED <<hour, calls>>
        /\ IF ledger.alerted = key THEN UNCHANGED alerts ELSE alerts' = Counted(alerts, key)
    BY <1>5 DEF Hold, Alert
  <2>2. proc'[p].pc = "leaving" /\ \A q \in Procs \ {p} : proc'[q] = proc[q] /\ proc[q].pc \in {"idle", "stat"}
    BY <1>alone, <2>1, GotoIs DEF Pcs, Critical
  <2>3. ~Recording' /\ ~Recording /\ \A q \in Procs : proc'[q].pc \notin {"beating", "record"}
    BY <2>1, <2>2 DEF Recording
  <2>4. RetryAfter(ledger)' = key
    <3>1. RetryAfter(Save([ledger EXCEPT !.alerted = key])) = key
      BY <1>0, PruneRetry
    <3>2. RetryAfter(ledger') = key
      BY <2>1, <3>1
    <3>3. RetryAfter(ledger)' = RetryAfter(ledger')
      BY <2>1 DEF RetryAfter
    <3> QED BY <3>2, <3>3
  <2>5. key \in Times \ {0}
    BY <1>0, <2>1, RetryAfterIs
  <2> HIDE DEF key
  <2>6. ledger'.alerted = key /\ ledger'.cooldown = ledger.cooldown
    <3>1. [ledger EXCEPT !.alerted = key] \in Ledgers
      BY <1>0, <2>5 DEF Ledgers
    <3>2. /\ [ledger EXCEPT !.alerted = key].alerted = key
          /\ [ledger EXCEPT !.alerted = key].cooldown = ledger.cooldown
      BY <1>0 DEF Ledgers
    <3> QED BY <2>1, <3>1, <3>2, SaveIs
  <2>7. \A i : (Exhausted(i)' <=> Exhausted(i)) /\ \A t : Spoken(i, t)' <=> Spoken(i, t)
    BY <2>1 DEF Exhausted, Spoken
  <2>8. \A t : Reported(t)' = Reported(t)
    BY <2>1, <2>7 DEF Reported
  <2>9. \A t \in Times \ {0} : alerts[t] = Marks(t) + Reported(t)
    BY <2>3 DEF TellInv
  <2>10. ASSUME NEW t \in Times \ {0} PROVE alerts'[t] = Marks(t)' + Reported(t)'
    <3>1. Marks(t)' = IF key = t THEN 1 ELSE 0
      BY <2>6 DEF Marks
    <3>2. CASE ledger.alerted = key
      <4>1. Marks(t)' = Marks(t) /\ alerts' = alerts
        BY <2>1, <3>1, <3>2 DEF Marks
      <4> QED BY <2>8, <2>9, <4>1
    <3>3. CASE ledger.alerted # key
      <4>1. ledger.alerted = 0
        BY <1>0, <3>3 DEF TellInv, key
      <4>2. Marks(t) = 0
        BY <4>1 DEF Marks
      <4>3. alerts' = Counted(alerts, key)
        BY <2>1, <3>3
      <4>4. alerts[t] = Reported(t) /\ Reported(t) \in 0..1
        BY <2>9, <4>2, MarksAre
      <4>5. CASE key = t
        <5>1. alerts'[t] = alerts[t] + 1
          <6>1. alerts[t] < 3
            BY <4>4
          <6> QED BY <1>0, <4>3, <4>5, <6>1, CountedIs
        <5> QED BY <2>8, <3>1, <4>4, <4>5, <5>1
      <4>6. CASE key # t
        <5>1. alerts'[t] = alerts[t]
          BY <1>0, <2>5, <4>3, <4>6, CountedIs
        <5> QED BY <2>8, <3>1, <4>4, <4>6, <5>1
      <4> QED BY <4>5, <4>6
    <3> QED BY <3>2, <3>3
  <2>11. /\ \A i \in DOMAIN calls : Exhausted(i) => calls[i].age + ledger.cooldown >= BackoffMax
         /\ \A i, j \in DOMAIN calls : /\ Exhausted(i) /\ calls[i].age < BackoffMax
                                       /\ Exhausted(j) /\ calls[j].age < BackoffMax
                                       => i = j
    BY <2>3 DEF TellInv
  <2> QED BY <2>1, <2>3, <2>4, <2>6, <2>7, <2>10, <2>11 DEF TellInv
<1>6. ASSUME NEW p \in Procs, EndBeat(p) PROVE TellInv'
  <2>1. PICK o \in Endings : /\ proc' = [proc EXCEPT ![p].pc = "record", ![p].outcome = o]
                             /\ calls' = Append(calls, [age |-> 0, outcome |-> o])
    BY <1>6 DEF EndBeat
  <2>2. /\ proc[p].pc = "beating" /\ UNCHANGED <<hour, ledger, alerts>>
        /\ ledger.cooldown = 0 /\ ledger.alerted = 0
    BY <1>6 DEF EndBeat, CauseInv, TellInv
  <2>3. proc'[p].pc = "record"
    BY <1>0, <2>1, <2>2 DEF Runs
  <2>4. ~Recording /\ Recording'
    BY <1>alone, <2>2, <2>3 DEF Recording, Critical
  <2>5. [age |-> 0, outcome |-> o] \in Beats
    BY <2>1, <1>max DEF Beats, Endings
  <2>6. /\ Len(calls') = Len(calls) + 1 /\ DOMAIN calls' = DOMAIN calls \cup {Len(calls')}
        /\ \A i \in DOMAIN calls : calls'[i] = calls[i]
    <3>1. /\ calls' \in Seq(Beats) /\ Len(calls') = Len(calls) + 1
          /\ \A i \in 1..Len(calls) : calls'[i] = calls[i]
      BY <1>0, <2>1, <2>5
    <3>2. DOMAIN calls' = 1..Len(calls')
      BY <3>1, HistoryIs
    <3> QED BY <1>len, <3>1, <3>2
  <2>7. \A i \in DOMAIN calls : Exhausted(i) => calls[i].age >= BackoffMax
    BY <1>len, <1>max, <2>2, <2>4 DEF TellInv
  <2>8. \A i \in DOMAIN calls' : i # Len(calls') /\ Exhausted(i)' => calls'[i].age >= BackoffMax
    BY <2>6, <2>7 DEF Exhausted
  <2>9. ASSUME NEW i \in DOMAIN calls', Exhausted(i)', calls'[i].age < BackoffMax PROVE i = Len(calls')
    <3> SUFFICES ASSUME i # Len(calls') PROVE FALSE
      OBVIOUS
    <3>1. calls'[i].age >= BackoffMax /\ calls'[i].age \in Nat
      BY <1>len, <2>6, <2>8, <2>9
    <3> QED BY <1>max, <2>9, <3>1
  <2>10. ASSUME NEW t \in Times \ {0} PROVE alerts'[t] = 0
    <3>1. \A i \in DOMAIN calls : ~Spoken(i, t)
      <4> SUFFICES ASSUME NEW i \in DOMAIN calls, Spoken(i, t) PROVE FALSE
        OBVIOUS
      <4>1. calls[i].age >= BackoffMax /\ calls[i].age \in Nat /\ calls[i].age + t = BackoffMax
        BY <1>len, <2>7 DEF Spoken
      <4> QED BY <1>max, <4>1
    <3>2. Marks(t) = 0 /\ Reported(t) = 0
      BY <2>2, <3>1 DEF Marks, Reported
    <3>3. alerts[t] = Marks(t) + Reported(t)
      BY <2>4 DEF TellInv
    <3> QED BY <2>2, <3>2, <3>3
  <2> QED BY <2>2, <2>4, <2>8, <2>9, <2>10 DEF TellInv
<1>7. ASSUME NEW p \in Procs, RecordBeat(p) PROVE TellInv'
  <2> DEFINE o == proc[p].outcome
  <2>1. /\ proc[p].pc = "record" /\ Goto(p, "leaving") /\ ledger' = Save(Record(ledger, o))
        /\ UNCHANGED <<hour, calls>> /\ o \in Outcomes
        /\ IF o = "exhausted" THEN alerts' = Counted(alerts, BackoffMax) ELSE UNCHANGED alerts
    BY <1>0, <1>7 DEF RecordBeat, Loaded, Alert
  <2>2. /\ proc'[p].pc = "leaving"
        /\ \A q \in Procs : proc'[q].pc \notin {"beating", "record"}
    BY <1>alone, <2>1, GotoIs DEF Pcs, Critical
  <2>n. PICK n : n = Len(calls)
    OBVIOUS
  <2>3. n \in DOMAIN calls /\ calls[n].age = 0 /\ calls[n].outcome = o
    <3>1. n > 0 /\ calls[n] = [age |-> 0, outcome |-> o]
      BY <2>1, <2>n DEF CauseInv
    <3> QED BY <1>len, <2>n, <3>1
  <2>4. ledger'.cooldown = Record(ledger, o).cooldown /\ ledger'.alerted = Record(ledger, o).alerted
    BY <1>0, <2>1, RecordIs, SaveIs
  <2>5. ledger.alerted = 0 /\ Recording /\ ~Recording'
    BY <2>1, <2>2 DEF TellInv, Recording
  <2> HIDE DEF o
  <2>6. ledger'.alerted = 0 /\ (o = "exhausted" => ledger'.cooldown = BackoffMax) /\ ledger'.cooldown \in Nat
    <3>1. ledger'.cooldown \in Times
      BY <1>0, <2>1, RecordIs, SaveIs DEF Ledgers
    <3> QED BY <1>0, <1>max, <2>1, <2>4, <2>5, <3>1, RecordWaits
  <2>7. /\ \A t \in Times \ {0} : alerts[t] = 0
        /\ \A i \in DOMAIN calls : i # n /\ Exhausted(i) => calls[i].age >= BackoffMax
        /\ \A i, j \in DOMAIN calls : /\ Exhausted(i) /\ calls[i].age < BackoffMax
                                      /\ Exhausted(j) /\ calls[j].age < BackoffMax
                                      => i = j
    BY <2>5, <2>n DEF TellInv
  <2>8. \A i : (Exhausted(i)' <=> Exhausted(i)) /\ \A t : Spoken(i, t)' <=> Spoken(i, t)
    BY <2>1 DEF Exhausted, Spoken
  <2>9. ASSUME NEW i \in DOMAIN calls, Exhausted(i) PROVE calls[i].age + ledger'.cooldown >= BackoffMax
    <3>1. CASE i = n
      BY <1>max, <2>3, <2>6, <2>9, <3>1 DEF Exhausted
    <3>2. CASE i # n
      BY <1>max, <1>len, <2>6, <2>7, <2>9, <3>2
    <3> QED BY <3>1, <3>2
  <2>10. ASSUME NEW t \in Times \ {0}
         PROVE  (\E i \in DOMAIN calls : Spoken(i, t)) <=> (o = "exhausted" /\ t = BackoffMax)
    <3>1. ASSUME NEW i \in DOMAIN calls, Spoken(i, t) PROVE o = "exhausted" /\ t = BackoffMax
      <4>1. Exhausted(i) /\ calls[i].age + t = BackoffMax /\ calls[i].age \in Nat /\ t \in Nat \ {0}
        BY <1>len, <1>max, <3>1 DEF Spoken
      <4>2. ~(calls[i].age >= BackoffMax)
        BY <1>max, <4>1
      <4>3. i = n
        BY <2>7, <4>1, <4>2
      <4> QED BY <2>3, <4>1, <4>3 DEF Exhausted
    <3>2. ASSUME o = "exhausted", t = BackoffMax PROVE Spoken(n, t)
      BY <1>max, <2>3, <3>2 DEF Spoken, Exhausted
    <3> QED BY <2>3, <3>1, <3>2
  <2>11. ASSUME NEW t \in Times \ {0} PROVE alerts'[t] = Marks(t)' + Reported(t)'
    <3>1. Marks(t)' = 0
      BY <2>6 DEF Marks
    <3>2. Reported(t)' = IF o = "exhausted" /\ t = BackoffMax THEN 1 ELSE 0
      BY <2>1, <2>8, <2>10 DEF Reported
    <3>3. CASE o = "exhausted"
      <4>1. alerts' = Counted(alerts, BackoffMax)
        BY <2>1, <3>3
      <4>2. alerts[BackoffMax] = 0 /\ alerts[t] = 0
        BY <1>max, <2>7
      <4>3. alerts'[t] = IF t = BackoffMax THEN 1 ELSE 0
        <5>1. Counted(alerts, BackoffMax)[BackoffMax] = 1
          <6>1. alerts[BackoffMax] < 3 /\ BackoffMax \in Times \ {0} /\ alerts \in Tallies
            BY <1>0, <1>max, <4>2
          <6>2. Counted(alerts, BackoffMax)[BackoffMax] = alerts[BackoffMax] + 1
            BY <6>1, CountedIs
          <6> QED BY <4>2, <6>2
        <5>2. t # BackoffMax => Counted(alerts, BackoffMax)[t] = alerts[t]
          BY <1>0, <1>max, CountedIs
        <5> QED BY <4>1, <4>2, <5>1, <5>2
      <4> QED BY <3>1, <3>2, <3>3, <4>3
    <3>4. CASE o # "exhausted"
      BY <2>1, <2>7, <3>1, <3>2, <3>4
    <3> QED BY <3>3, <3>4
  <2> QED BY <2>1, <2>2, <2>5, <2>6, <2>7, <2>8, <2>9, <2>11 DEF TellInv
<1>8. ASSUME Tick PROVE TellInv'
  <2>1. /\ calls' = prune(Aged(calls)) /\ ledger'.cooldown = Less(ledger.cooldown)
        /\ ledger'.alerted = Less(ledger.alerted)
        /\ alerts' = Sooner(alerts)
        /\ \A p \in Procs : proc[p].pc # "record"
    BY <1>8 DEF Tick
  <2>2. \A p \in Procs : proc'[p].pc = proc[p].pc
    <3> SUFFICES ASSUME NEW p \in Procs PROVE proc'[p].pc = proc[p].pc
      OBVIOUS
    <3>1. proc[p] \in Runs
      BY <1>0
    <3>2. proc'[p] = [proc[p] EXCEPT !.up = IF proc[p].pc = "beating" THEN proc[p].up + 1 ELSE proc[p].up,
                                     !.rest = Less(proc[p].rest)]
      BY <1>8 DEF Tick
    <3> QED BY <3>1, <3>2 DEF Runs
  <2>3. ~Recording /\ ~Recording'
    BY <2>1, <2>2 DEF Recording
  <2>4. /\ \A i \in DOMAIN calls : Exhausted(i) => calls[i].age + ledger.cooldown >= BackoffMax
        /\ \A t \in Times \ {0} : alerts[t] = Marks(t) + Reported(t)
        /\ \A i, j \in DOMAIN calls : /\ Exhausted(i) /\ calls[i].age < BackoffMax
                                      /\ Exhausted(j) /\ calls[j].age < BackoffMax
                                      => i = j
    BY <2>3 DEF TellInv
  <2>5. PICK was \in [DOMAIN calls' -> DOMAIN calls] :
           /\ \A n \in DOMAIN calls' : /\ calls'[n].outcome = calls[was[n]].outcome
                                       /\ calls'[n].age = calls[was[n]].age + 1
           /\ \A m, n \in DOMAIN calls' : m < n => was[m] < was[n]
           /\ \A k \in DOMAIN calls : calls[k].age + 1 < Keep => \E n \in DOMAIN calls' : was[n] = k
    <3>1. calls' = prune(Aged(calls)) /\ calls \in Seq(Beats)
      BY <1>0, <2>1
    <3> QED BY <3>1, TickHistory
  <2>6. DOMAIN calls' \subseteq Int
    <3>1. calls' \in Seq(Beats)
      BY <1>0, <2>1, TickHistory
    <3> QED BY <3>1, HistoryIs
  <2>7. \A n \in DOMAIN calls' : /\ Exhausted(n)' <=> Exhausted(was[n])
                                 /\ was[n] \in DOMAIN calls /\ calls[was[n]].age \in Nat
                                 /\ calls'[n].age = calls[was[n]].age + 1
    BY <1>len, <2>5 DEF Exhausted
  <2>8. ASSUME NEW n \in DOMAIN calls', Exhausted(n)' PROVE calls'[n].age + ledger'.cooldown >= BackoffMax
    <3>1. calls[was[n]].age + ledger.cooldown >= BackoffMax
      BY <2>4, <2>7, <2>8
    <3>2. ledger'.cooldown \in Nat /\ ledger'.cooldown >= ledger.cooldown - 1
      BY <1>0, <2>1 DEF Less
    <3> QED BY <1>0, <1>max, <2>7, <3>1, <3>2
  <2>9. ASSUME NEW m \in DOMAIN calls', NEW n \in DOMAIN calls', Exhausted(m)', Exhausted(n)',
               calls'[m].age < BackoffMax, calls'[n].age < BackoffMax
        PROVE  m = n
    <3>1. calls[was[m]].age < BackoffMax /\ calls[was[n]].age < BackoffMax
      BY <1>max, <2>7, <2>9
    <3>2. was[m] = was[n]
      BY <2>4, <2>7, <2>9, <3>1
    <3>3. was[m] \in Int /\ ~(m < n) /\ ~(n < m)
      BY <1>len, <2>5, <2>7, <3>2
    <3> QED BY <2>6, <3>3
  <2>10. ledger'.alerted > 0 => RetryAfter(ledger)' = ledger'.alerted
    <3> SUFFICES ASSUME ledger'.alerted > 0 PROVE RetryAfter(ledger)' = ledger'.alerted
      OBVIOUS
    <3>1. ledger.alerted > 1 /\ ledger'.alerted = ledger.alerted - 1
      BY <1>0, <2>1 DEF Less
    <3>2. RetryAfter(ledger) = ledger.alerted /\ RetryAfter(ledger) > 1
      BY <1>0, <3>1 DEF TellInv
    <3>3. RetryAfter(ledger)' = RetryAfter(ledger) - 1
      BY <1>8, <3>2, TickRetry
    <3> QED BY <3>1, <3>2, <3>3
  <2>11. \A q \in Procs : proc'[q].pc \in {"beating", "record"} => ledger'.alerted = 0
    BY <2>1, <2>2 DEF TellInv, Less
  <2>12. ASSUME NEW t \in Times \ {0} PROVE alerts'[t] = Marks(t)' + Reported(t)'
    <3>t. t \in Nat \ {0} /\ t <= Top
      BY <1>max
    <3>1. alerts'[t] = IF t + 1 \in Times \ {0} THEN alerts[t + 1] ELSE 0
      BY <1>0, <2>1 DEF Sooner, Tallies
    <3>2. Marks(t)' = IF ledger.alerted = t + 1 THEN 1 ELSE 0
      BY <1>0, <2>1, <3>t DEF Marks, Less
    <3>3. (\E n \in DOMAIN calls' : Spoken(n, t)') <=> (\E i \in DOMAIN calls : Spoken(i, t + 1))
      <4>1. ASSUME NEW n \in DOMAIN calls' PROVE Spoken(n, t)' <=> Spoken(was[n], t + 1)
        <5>1. Spoken(n, t)' <=> Exhausted(was[n]) /\ calls[was[n]].age + 1 + t = BackoffMax
          BY <2>7 DEF Spoken
        <5>2. calls[was[n]].age + 1 + t = calls[was[n]].age + (t + 1)
          BY <2>7, <3>t
        <5> QED BY <5>1, <5>2 DEF Spoken
      <4>2. ASSUME NEW i \in DOMAIN calls, Spoken(i, t + 1) PROVE \E n \in DOMAIN calls' : was[n] = i
        <5>1. calls[i].age + 1 < Keep
          <6>1. calls[i].age \in Nat /\ calls[i].age + (t + 1) = BackoffMax
            BY <1>len, <4>2 DEF Spoken
          <6> QED BY <1>max, <3>t, <6>1
        <5> QED BY <2>5, <5>1
      <4>3. ASSUME NEW i \in DOMAIN calls, Spoken(i, t + 1) PROVE \E n \in DOMAIN calls' : Spoken(n, t)'
        <5>1. PICK n \in DOMAIN calls' : was[n] = i
          BY <4>2, <4>3
        <5> QED BY <4>1, <4>3, <5>1
      <4> QED BY <2>7, <4>1, <4>3
    <3>4. Reported(t)' = Reported(t + 1)
      BY <3>3 DEF Reported
    <3>5. CASE t + 1 \in Times
      <4>1. t + 1 \in Times \ {0}
        BY <3>t, <3>5
      <4>2. alerts[t + 1] = Marks(t + 1) + Reported(t + 1)
        BY <2>4, <4>1
      <4> QED BY <3>1, <3>2, <3>4, <4>1, <4>2 DEF Marks
    <3>6. CASE t + 1 \notin Times
      <4>1. t = Top
        BY <1>max, <3>t, <3>6
      <4>2. ledger.alerted # t + 1
        BY <1>0, <3>6
      <4>3. \A i \in DOMAIN calls : ~Spoken(i, t + 1)
        <5> SUFFICES ASSUME NEW i \in DOMAIN calls, Spoken(i, t + 1) PROVE FALSE
          OBVIOUS
        <5>1. calls[i].age \in Nat /\ calls[i].age + (t + 1) = BackoffMax
          BY <1>len DEF Spoken
        <5> QED BY <1>max, <3>t, <4>1, <5>1
      <4>4. Reported(t + 1) = 0
        BY <4>3 DEF Reported
      <4> QED BY <3>1, <3>2, <3>4, <3>6, <4>2, <4>4
    <3> QED BY <3>5, <3>6
  <2> QED BY <2>3, <2>8, <2>9, <2>10, <2>11, <2>12 DEF TellInv
<1>9. CASE UNCHANGED vars
  <2>1. UNCHANGED <<hour, ledger, calls, proc, alerts>>
    BY <1>9 DEF vars
  <2>2. /\ \A i : (Exhausted(i)' <=> Exhausted(i)) /\ \A t : Spoken(i, t)' <=> Spoken(i, t)
        /\ RetryAfter(ledger)' = RetryAfter(ledger) /\ (Recording' <=> Recording)
    BY <2>1 DEF Exhausted, Spoken, RetryAfter, Recording
  <2>3. \A t : Marks(t)' = Marks(t) /\ Reported(t)' = Reported(t)
    BY <2>1, <2>2 DEF Marks, Reported
  <2> QED BY <2>1, <2>2, <2>3 DEF TellInv
<1> QED BY <1>1, <1>2, <1>3, <1>4, <1>5, <1>6, <1>7, <1>8, <1>9 DEF Next, Step

\* No more is mailed than a run was told to mail.
MailedInv == \A t \in Times \ {0} : mailed[t] <= alerts[t]

LEMMA MailedStep ==
    ASSUME TypeInv, MailedInv, [Next]_vars
    PROVE  MailedInv'
<1>0. alerts \in Tallies /\ mailed \in Tallies
  BY TypeParts DEF TypeInv
<1>1. ASSUME UNCHANGED <<alerts, mailed>> PROVE MailedInv'
  BY <1>1 DEF MailedInv
<1>2. ASSUME NEW key \in Times \ {0}, Alert(key) PROVE MailedInv'
  <2> SUFFICES ASSUME NEW t \in Times \ {0} PROVE mailed'[t] <= alerts'[t]
    BY DEF MailedInv
  <2>1. mailed[t] <= alerts[t] /\ alerts' = Counted(alerts, key) /\ (mailed' = Counted(mailed, key) \/ mailed' = mailed)
    BY <1>2 DEF MailedInv, Alert
  <2>2. CASE t = key
    <3>1. mailed[key] <= Counted(alerts, key)[key] /\ Counted(mailed, key)[key] <= Counted(alerts, key)[key]
      BY <1>0, <2>1, <2>2, CountedIs
    <3> QED BY <2>1, <2>2, <3>1
  <2>3. CASE t # key
    <3>1. Counted(alerts, key)[t] = alerts[t] /\ Counted(mailed, key)[t] = mailed[t]
      BY <1>0, <2>3, CountedIs
    <3> QED BY <2>1, <3>1
  <2> QED BY <2>2, <2>3
<1>3. ASSUME NEW p \in Procs, Hold(p) PROVE MailedInv'
  <2>k. PICK key : key = RetryAfter(ledger)
    OBVIOUS
  <2>1. key > 0 /\ (UNCHANGED <<alerts, mailed>> \/ Alert(key))
    BY <1>3, <2>k DEF Hold
  <2>2. key \in Times \ {0}
    <3>1. hour \in 0..(Day - 1) /\ ledger \in Ledgers
      BY TypeParts DEF TypeInv
    <3>2. key \in Times
      BY <2>k, <3>1, RetryAfterIs
    <3> QED BY <2>1, <3>2
  <2> QED BY <1>1, <1>2, <2>1, <2>2
<1>4. ASSUME NEW p \in Procs, RecordBeat(p) PROVE MailedInv'
  <2>1. UNCHANGED <<alerts, mailed>> \/ Alert(BackoffMax)
    BY <1>4 DEF RecordBeat
  <2>2. BackoffMax \in Times \ {0}
    BY TopIs, ConstantsAssumption
  <2> QED BY <1>1, <1>2, <2>1, <2>2
<1>5. ASSUME NEW p \in Procs,
             \/ Refuse(p) \/ TryLock(p) \/ StatLock(p) \/ BreakLock(p) \/ RetakeLock(p) \/ Proceed(p)
             \/ EndBeat(p) \/ Leave(p) \/ TimeOut(p) \/ Crash(p)
      PROVE  MailedInv'
  <2>1. UNCHANGED <<alerts, mailed>>
    BY <1>5 DEF Refuse, TryLock, StatLock, BreakLock, RetakeLock, Proceed, EndBeat, Leave, TimeOut, Crash
  <2> QED BY <1>1, <2>1
<1>6. ASSUME Tick PROVE MailedInv'
  <2>1. alerts' = Sooner(alerts) /\ mailed' = Sooner(mailed)
    BY <1>6 DEF Tick
  <2>2. ASSUME NEW t \in Times \ {0} PROVE Sooner(mailed)[t] <= Sooner(alerts)[t]
    <3>1. \A f \in Tallies : Sooner(f)[t] = IF t + 1 \in Times \ {0} THEN f[t + 1] ELSE 0
      BY DEF Sooner, Tallies
    <3>2. t + 1 \in Times \ {0} => mailed[t + 1] <= alerts[t + 1]
      BY DEF MailedInv
    <3> QED BY <1>0, <3>1, <3>2
  <2> QED BY <2>1, <2>2 DEF MailedInv
<1>7. CASE UNCHANGED vars
  BY <1>1, <1>7 DEF vars
<1> QED BY <1>3, <1>4, <1>5, <1>6, <1>7 DEF Next, Step

LEMMA TellInvHolds ==
    ASSUME MaxCrashes = 0, Cadence > 0, TwoRuns, ~LedgerFails
    PROVE  Spec => [](TypeInv /\ LockInv /\ CauseInv /\ TellInv /\ MailedInv)
<1>1. Init => TellInv
  <2> SUFFICES ASSUME Init PROVE TellInv
    OBVIOUS
  <2>1. /\ ledger.cooldown = 0 /\ ledger.alerted = 0 /\ calls = <<>> /\ DOMAIN calls = {}
        /\ \A t \in Times \ {0} : alerts[t] = 0
        /\ \A p \in Procs : proc[p].pc = "idle"
    BY IdleIs, ConstantsAssumption DEF Init, EmptyLedger
  <2>2. ~Recording /\ \A t \in Times \ {0} : Marks(t) = 0 /\ Reported(t) = 0
    BY <2>1 DEF Recording, Marks, Reported
  <2> QED BY <2>1, <2>2 DEF TellInv
<1>2. Init => MailedInv
  BY DEF Init, MailedInv
<1>3. TypeInv /\ LockInv /\ CauseInv /\ TellInv /\ [Next]_vars => TellInv'
  BY TellStep
<1>4. TypeInv /\ MailedInv /\ [Next]_vars => MailedInv'
  BY MailedStep
<1> QED BY <1>1, <1>2, <1>3, <1>4, CauseInvHolds, PTL DEF Spec

\* The gate has every hold mailed, and once (cmd/cti-budget, runCheck): by the
\* time a denied run goes home a run was told to mail the denial's end exactly
\* once, not counting what recording an exhausted account told already, and no
\* more than that was mailed.
THEOREM GateMailsOnce ==
    ASSUME MaxCrashes = 0, Cadence > 0, TwoRuns, ~LedgerFails
    PROVE  Spec => GateTellsOnce
<1>1. ASSUME TypeInv, LockInv, CauseInv, TellInv, MailedInv, [Next]_vars
      PROVE  \A p \in Procs : Denied(p) =>
                LET key == RetryAfter(ledger)
                    exhausted == {i \in DOMAIN calls : /\ calls[i].outcome = "exhausted"
                                                      /\ calls[i].age + key = BackoffMax}
                    told == 1 + Cardinality(exhausted)
                IN alerts'[key] = told /\ mailed'[key] <= told
  <2> TAKE p \in Procs
  <2> HAVE Denied(p)
  <2>k. PICK key : key = RetryAfter(ledger)
    OBVIOUS
  <2> DEFINE exhausted == {i \in DOMAIN calls : /\ calls[i].outcome = "exhausted"
                                               /\ calls[i].age + key = BackoffMax}
  <2>1. Hold(p)
    BY <1>1, OnlyHoldDenies
  <2>2. /\ hour \in 0..(Day - 1) /\ ledger \in Ledgers /\ proc \in [Procs -> Runs] /\ calls \in Seq(Beats)
    BY <1>1, TypeParts DEF TypeInv
  <2>3. /\ proc[p].pc = "check" /\ key > 0 /\ Goto(p, "leaving") /\ UNCHANGED calls
        /\ ledger' = Save([ledger EXCEPT !.alerted = key])
    BY <1>1, <2>1, <2>k DEF Hold
  <2>4. key \in Times \ {0}
    BY <2>2, <2>3, <2>k, RetryAfterIs
  <2>5. ledger'.alerted = key
    <3>1. [ledger EXCEPT !.alerted = key] \in Ledgers /\ [ledger EXCEPT !.alerted = key].alerted = key
      BY <2>2, <2>4 DEF Ledgers
    <3> QED BY <2>3, <3>1, SaveIs
  <2>6. ~Recording'
    <3>1. proc'[p].pc = "leaving" /\ \A q \in Procs \ {p} : proc'[q] = proc[q] /\ proc[q].pc \in {"idle", "stat"}
      BY <1>1, <2>3, GotoIs DEF Pcs, LockInv, Others, Critical
    <3> QED BY <3>1 DEF Recording
  <2>7. TellInv'
    BY <1>1, TellStep
  <2>8. alerts'[key] = 1 + Reported(key)'
    <3>1. alerts'[key] = Marks(key)' + Reported(key)'
      BY <2>4, <2>6, <2>7 DEF TellInv
    <3>2. Marks(key)' = 1
      BY <2>5 DEF Marks
    <3> QED BY <3>1, <3>2
  <2>9. Reported(key)' = IF exhausted = {} THEN 0 ELSE 1
    BY <2>3 DEF Reported, Spoken, Exhausted
  <2>10. \A i, j \in exhausted : i = j
    <3> SUFFICES ASSUME NEW i \in exhausted, NEW j \in exhausted PROVE i = j
      OBVIOUS
    <3>1. /\ i \in DOMAIN calls /\ j \in DOMAIN calls /\ calls[i].age \in Nat /\ calls[j].age \in Nat
          /\ calls[i].age + key = BackoffMax /\ calls[j].age + key = BackoffMax
          /\ calls[i].outcome = "exhausted" /\ calls[j].outcome = "exhausted"
      BY <2>2, HistoryIs
    <3>2. key \in Nat \ {0} /\ BackoffMax \in Nat
      BY <2>4, TopIs, ConstantsAssumption
    <3>3. calls[i].age < BackoffMax /\ calls[j].age < BackoffMax
      BY <3>1, <3>2
    <3> QED BY <1>1, <3>1, <3>3 DEF TellInv, Exhausted
  <2> HIDE DEF exhausted
  <2>11. Cardinality(exhausted) = IF exhausted = {} THEN 0 ELSE 1
    <3>1. CASE exhausted = {}
      BY <3>1, FS_EmptySet
    <3>2. CASE exhausted # {}
      <4>1. PICK i : exhausted = {i}
        BY <2>10, <3>2
      <4> QED BY <4>1, FS_Singleton
    <3> QED BY <3>1, <3>2
  <2>12. alerts'[key] = 1 + Cardinality(exhausted)
    BY <2>8, <2>9, <2>11
  <2>13. mailed'[key] <= alerts'[key]
    BY <1>1, <2>4, MailedStep DEF MailedInv
  <2> QED BY <2>12, <2>13, <2>k DEF exhausted
<1> QED BY <1>1, TellInvHolds, PTL DEF Spec, GateTellsOnce

-----------------------------------------------------------------------------
(* Rows of refusals, and what they ask for.                                *)

\* The wait doubled without end: what it is, and that every row of waits which
\* doubles up to the maximum is no shorter where it is as long.
Doubled(n, i) ==
    LET doubled[m \in 0..i] == IF m <= 1 THEN BackoffBase ELSE BackoffFactor * doubled[m - 1]
    IN doubled[n]

LEMMA DoubledIs ==
    ASSUME NEW i \in Nat
    PROVE  \A n \in 0..i : /\ Doubled(n, i) \in Nat
                           /\ n <= 1 => Doubled(n, i) = BackoffBase
                           /\ n > 1 => Doubled(n, i) = BackoffFactor * Doubled(n - 1, i)
<1> DEFINE F == [w \in Nat |-> BackoffFactor * w]
           D == CHOOSE f : f = [m \in 0..i |-> IF m <= 1 THEN BackoffBase ELSE BackoffFactor * f[m - 1]]
<1>0. BackoffBase \in Nat /\ BackoffFactor \in Nat
  BY ConstantsAssumption
<1>1. F \in [Nat -> Nat] /\ \A w \in Nat : F[w] = BackoffFactor * w
  BY <1>0
<1>2. \E f : f = [m \in 0..i |-> IF m <= 1 THEN BackoffBase ELSE BackoffFactor * f[m - 1]]
  <2> HIDE DEF F
  <2>0. PICK f \in [0..i -> Nat] : IsRow(f, i, BackoffBase, F)
    BY <1>0, <1>1, RowExists
  <2>1. \A n \in 0..i : f[n] = IF n <= 1 THEN BackoffBase ELSE F[f[n - 1]]
    BY <2>0 DEF IsRow
  <2>2. \A n \in 0..i : n > 1 => f[n - 1] \in Nat
    BY <2>1
  <2>3. ASSUME NEW n \in 0..i
        PROVE  f[n] = IF n <= 1 THEN BackoffBase ELSE BackoffFactor * f[n - 1]
    <3>1. CASE n <= 1
      BY <2>1, <3>1
    <3>2. CASE n > 1
      <4>1. F[f[n - 1]] = BackoffFactor * f[n - 1]
        BY <1>1, <2>2, <3>2
      <4>2. f[n] = F[f[n - 1]] /\ ~(n <= 1)
        BY <2>1, <3>2
      <4> QED BY <4>1, <4>2, Zenon
    <3> QED BY <3>1, <3>2
  <2>4. f = [n \in 0..i |-> f[n]]
    OBVIOUS
  <2>5. f = [n \in 0..i |-> IF n <= 1 THEN BackoffBase ELSE BackoffFactor * f[n - 1]]
    BY <2>3, <2>4
  <2> QED BY <2>5
<1>3. D = [m \in 0..i |-> IF m <= 1 THEN BackoffBase ELSE BackoffFactor * D[m - 1]]
  BY <1>2
<1>4. \A n \in 0..i : Doubled(n, i) = D[n]
  BY DEF Doubled
<1> HIDE DEF D
<1>5. \A n \in 0..i : /\ n <= 1 => D[n] = BackoffBase
                      /\ n > 1 => D[n] = BackoffFactor * D[n - 1]
  BY <1>3
<1>6. \A n \in 0..i : D[n] \in Nat
  <2>1. ASSUME NEW n \in 0..i, n <= 1 \/ D[n - 1] \in Nat PROVE D[n] \in Nat
    <3>1. CASE n <= 1
      BY <1>0, <1>5, <3>1
    <3>2. CASE n > 1
      <4>1. PICK w : w = D[n - 1]
        OBVIOUS
      <4>2. w \in Nat /\ D[n] = BackoffFactor * w
        BY <1>5, <2>1, <3>2, <4>1
      <4>3. BackoffFactor * w \in Nat
        BY <1>0, <4>2
      <4> QED BY <4>2, <4>3
    <3> QED BY <3>1, <3>2
  <2> QED BY <2>1, StaysIn
<1>7. \A n \in 0..i : n > 1 => n - 1 \in 0..i
  OBVIOUS
<1> QED BY <1>4, <1>5, <1>6, <1>7

LEMMA WaitsGrow ==
    ASSUME NEW i \in Nat, NEW L \in Nat, NEW w,
           \A n \in 0..L : /\ w[n] \in Nat
                           /\ n <= 1 => w[n] >= BackoffMax \/ w[n] >= BackoffBase
                           /\ n > 1 => w[n] >= BackoffMax \/ w[n] >= BackoffFactor * w[n - 1]
    PROVE  \A n \in 0..L : \A m \in 0..i :
              m <= n => w[n] >= BackoffMax \/ w[n] >= Doubled(m, i)
<1> DEFINE Enough(n, m) == w[n] >= BackoffMax \/ w[n] >= Doubled(m, i)
           good == [n \in 0..L |-> \A m \in 0..i : m <= n => Enough(n, m)]
<1>0. BackoffBase \in Nat /\ BackoffMax \in Nat /\ BackoffFactor \in Nat /\ BackoffFactor >= 1
  BY ConstantsAssumption
<1>t. \A a \in Nat, b \in Nat : a >= b => BackoffFactor * a >= BackoffFactor * b
  <2> SUFFICES ASSUME NEW a \in Nat, NEW b \in Nat, a >= b PROVE BackoffFactor * a >= BackoffFactor * b
    OBVIOUS
  <2>1. PICK c \in Nat : a = b + c
    <3>1. a - b \in Nat /\ a = b + (a - b)
      OBVIOUS
    <3> QED BY <3>1
  <2>2. BackoffFactor * a = BackoffFactor * b + BackoffFactor * c /\ BackoffFactor * c \in Nat
        /\ BackoffFactor * b \in Nat
    BY <1>0, <2>1
  <2> QED BY <2>2
<1>u. \A a \in Nat : BackoffFactor * a \in Nat /\ BackoffFactor * a >= a
  <2> SUFFICES ASSUME NEW a \in Nat PROVE BackoffFactor * a \in Nat /\ BackoffFactor * a >= a
    OBVIOUS
  <2>1. PICK c \in Nat : BackoffFactor = c + 1
    <3>1. BackoffFactor - 1 \in Nat /\ BackoffFactor = BackoffFactor - 1 + 1
      BY <1>0
    <3> QED BY <3>1
  <2>2. (c + 1) * a = c * a + a /\ c * a \in Nat
    BY <2>1
  <2> QED BY <2>1, <2>2
<1>1. ASSUME NEW n \in 0..L, n <= 1 \/ \A m \in 0..i : m <= n - 1 => Enough(n - 1, m),
             NEW m \in 0..i, m <= n
      PROVE  Enough(n, m)
  <2>0. n \in Nat /\ m \in Nat /\ w[n] \in Nat /\ Doubled(m, i) \in Nat
    BY DoubledIs
  <2>1. CASE n <= 1
    <3>1. m <= 1
      BY <2>0, <2>1, <1>1
    <3> QED BY <2>1, <3>1, DoubledIs
  <2>2. CASE n > 1
    <3> DEFINE v == w[n - 1]
    <3>1. n - 1 \in 0..L /\ v \in Nat /\ (w[n] >= BackoffMax \/ w[n] >= BackoffFactor * v)
      BY <2>0, <2>2
    <3>2. v >= BackoffMax \/ v >= (IF m <= 1 THEN BackoffBase ELSE Doubled(m - 1, i))
      <4>1. CASE m <= 1
        <5>1. m <= n - 1
          BY <2>0, <2>2, <4>1
        <5>2. Enough(n - 1, m)
          BY <1>1, <2>2, <5>1
        <5> QED BY <4>1, <5>2, DoubledIs
      <4>2. CASE m > 1
        <5>1. m - 1 \in 0..i /\ m - 1 <= n - 1
          BY <2>0, <1>1, <4>2
        <5>2. Enough(n - 1, m - 1)
          BY <1>1, <2>2, <5>1
        <5> QED BY <2>0, <4>2, <5>2
      <4> QED BY <2>0, <4>1, <4>2
    <3>3. PICK d \in Nat : /\ v >= BackoffMax \/ v >= d
                           /\ BackoffFactor * d >= Doubled(m, i)
      <4>1. CASE m <= 1
        <5>1. Doubled(m, i) = BackoffBase
          BY <4>1, DoubledIs
        <5> QED BY <1>0, <1>u, <3>2, <4>1, <5>1
      <4>2. CASE m > 1
        <5>1. m - 1 \in 0..i
          BY <4>2
        <5>2. Doubled(m - 1, i) \in Nat /\ Doubled(m, i) = BackoffFactor * Doubled(m - 1, i)
          BY <4>2, <5>1, DoubledIs
        <5>3. BackoffFactor * Doubled(m - 1, i) >= Doubled(m, i)
          BY <2>0, <5>2
        <5>4. v >= BackoffMax \/ v >= Doubled(m - 1, i)
          BY <2>0, <3>2, <4>2
        <5> QED BY <5>2, <5>3, <5>4
      <4> QED BY <2>0, <4>1, <4>2
    <3> HIDE DEF v
    <3>4. PICK x \in Nat, y \in Nat : x = BackoffFactor * v /\ y = BackoffFactor * d
      BY <1>u, <3>1, <3>3
    <3>5. x >= v /\ (v >= d => x >= y) /\ y >= Doubled(m, i) /\ (w[n] >= BackoffMax \/ w[n] >= x)
      BY <1>t, <1>u, <3>1, <3>3, <3>4
    <3> QED BY <1>0, <2>0, <3>1, <3>3, <3>4, <3>5
  <2> QED BY <2>0, <2>1, <2>2
<1> DEFINE all(n) == \A m \in 0..i : m <= n => Enough(n, m)
<1>2. \A n \in 0..L : good[n] = all(n)
  OBVIOUS
<1>3. \A n \in 0..L : n <= 1 \/ all(n - 1) => all(n)
  BY <1>1
<1>4. \A n \in 0..L : n > 1 => n - 1 \in 0..L
  OBVIOUS
<1>5. \A n \in 0..L : all(n) <=> good[n] \in {TRUE}
  <2> HIDE DEF all, good
  <2>1. \A n \in 0..L : all(n) \in BOOLEAN
    BY DEF all
  <2> QED BY <1>2, <2>1
<1>6. \A n \in 0..L : good[n] \in {TRUE}
  <2> HIDE DEF all, good
  <2>1. \A n \in 0..L : n <= 1 \/ good[n - 1] \in {TRUE} => good[n] \in {TRUE}
    <3> SUFFICES ASSUME NEW n \in 0..L, n <= 1 \/ good[n - 1] \in {TRUE} PROVE good[n] \in {TRUE}
      OBVIOUS
    <3>1. n <= 1 \/ (n > 1 /\ n - 1 \in 0..L)
      BY <1>4
    <3>2. n <= 1 \/ all(n - 1)
      BY <1>5, <3>1
    <3> QED BY <1>3, <1>5, <3>2
  <2> QED BY <2>1, StaysIn
<1>7. \A n \in 0..L : all(n)
  <2> HIDE DEF all, good
  <2> QED BY <1>5, <1>6
<1> QED BY <1>7

\* The last beat up to the i-th that was not refused, and how many were since.
LastOther(beats, i) == Max({k \in 1..i : beats[k].outcome # "ratelimit"} \cup {0})
Streak(beats, i) == Cardinality({j \in 1..i : \A k \in j..i : beats[k].outcome = "ratelimit"})

LEMMA LastOtherIs ==
    ASSUME NEW beats, NEW i \in Nat
    PROVE  /\ LastOther(beats, i) \in 0..i
           /\ LastOther(beats, i) # 0 => beats[LastOther(beats, i)].outcome # "ratelimit"
           /\ \A k \in (LastOther(beats, i) + 1)..i : beats[k].outcome = "ratelimit"
<1> DEFINE I == {k \in 1..i : beats[k].outcome # "ratelimit"}
           S == I \cup {0}
<1>1. S \in SUBSET Nat /\ S # {} /\ \A x \in S : x <= i
  OBVIOUS
<1> HIDE DEF S
<1>2. PICK m : m = Max(S)
  OBVIOUS
<1>3. m \in S /\ \A x \in S : x <= m
  BY <1>1, <1>2, MaxIs
<1>4. LastOther(beats, i) = m
  BY <1>2 DEF LastOther, S
<1>5. m \in 0..i /\ (m # 0 => m \in I)
  BY <1>1, <1>3 DEF S
<1>6. \A k \in (m + 1)..i : k \notin S /\ k \in 1..i
  BY <1>3, <1>5
<1>7. \A k \in (m + 1)..i : beats[k].outcome = "ratelimit"
  BY <1>6 DEF S
<1> QED BY <1>4, <1>5, <1>7

LEMMA StreakIs ==
    ASSUME NEW beats, NEW i \in Nat
    PROVE  Streak(beats, i) = i - LastOther(beats, i) /\ Streak(beats, i) \in 0..i
<1> DEFINE A == {j \in 1..i : \A k \in j..i : beats[k].outcome = "ratelimit"}
<1>1. PICK m : m = LastOther(beats, i)
  OBVIOUS
<1>2. /\ m \in 0..i /\ (m # 0 => beats[m].outcome # "ratelimit")
      /\ \A k \in (m + 1)..i : beats[k].outcome = "ratelimit"
  BY <1>1, LastOtherIs
<1>3. A = (m + 1)..i
  <2>1. ASSUME NEW j \in A PROVE j \in (m + 1)..i
    <3>1. j \in 1..i /\ \A k \in j..i : beats[k].outcome = "ratelimit"
      OBVIOUS
    <3>2. CASE m >= j
      <4>1. m \in j..i /\ m # 0
        BY <1>2, <3>1, <3>2
      <4> QED BY <1>2, <3>1, <4>1
    <3> QED BY <1>2, <3>1, <3>2
  <2>2. ASSUME NEW j \in (m + 1)..i PROVE j \in A
    <3>1. j \in 1..i /\ \A k \in j..i : k \in (m + 1)..i
      BY <1>2
    <3> QED BY <1>2, <3>1
  <2> QED BY <2>1, <2>2
<1> HIDE DEF A
<1>4. Cardinality((m + 1)..i) = i - m
  <2>1. PICK n : n = m + 1
    OBVIOUS
  <2>2. n \in Int /\ i \in Int /\ (n > i => i - m = 0) /\ i - n + 1 = i - m
    BY <1>2, <2>1
  <2>3. Cardinality(n..i) = IF n > i THEN 0 ELSE i - n + 1
    BY <2>2, FS_Interval
  <2> QED BY <2>1, <2>2, <2>3
<1>5. Streak(beats, i) = Cardinality(A)
  BY DEF Streak, A
<1>6. Streak(beats, i) = i - m
  BY <1>3, <1>4, <1>5
<1> QED BY <1>1, <1>2, <1>6

\* What the ledger counts is the row of refusals its history ends with.
LEMMA RowIsStreak ==
    ASSUME NEW beats \in Seq(Beats)
    PROVE  consecutiveRateLimits(beats) = Streak(beats, Len(beats))
<1> DEFINE I == {k \in 1..Len(beats) : beats[k].outcome # "ratelimit"}
<1>0. Len(beats) \in Nat
  BY HistoryIs
<1>1. consecutiveRateLimits(beats) = Len(beats) - (IF I # {} THEN Max(I) ELSE 0)
  BY DEF consecutiveRateLimits, SelectLastInSeq
<1>2. (IF I # {} THEN Max(I) ELSE 0) = LastOther(beats, Len(beats))
  <2>1. CASE I = {}
    <3>1. I \cup {0} = {0}
      BY <2>1
    <3>2. Max({0}) = 0
      <4>1. {0} \in SUBSET Nat /\ {0} # {} /\ \A x \in {0} : x <= 0
        OBVIOUS
      <4>2. Max({0}) \in {0}
        BY <4>1, MaxIs
      <4> QED BY <4>2
    <3> HIDE DEF I
    <3>3. LastOther(beats, Len(beats)) = Max(I \cup {0})
      BY DEF LastOther, I
    <3> QED BY <2>1, <3>1, <3>2, <3>3
  <2>2. CASE I # {}
    <3>1. I \in SUBSET Nat /\ (\A x \in I : x <= Len(beats)) /\ \A x \in I : x >= 1
      BY <1>0
    <3>2. LastOther(beats, Len(beats)) = Max(I \cup {0})
      BY DEF LastOther
    <3> HIDE DEF I
    <3>3. Max(I) \in I /\ \A x \in I : x <= Max(I)
      BY <1>0, <2>2, <3>1, MaxIs
    <3>4. I \cup {0} \in SUBSET Nat /\ I \cup {0} # {} /\ \A x \in I \cup {0} : x <= Len(beats)
      BY <1>0, <3>1
    <3>5. Max(I \cup {0}) \in I \cup {0} /\ \A x \in I \cup {0} : x <= Max(I \cup {0})
      BY <1>0, <3>4, MaxIs
    <3>6. PICK a, b : a = Max(I) /\ b = Max(I \cup {0})
      OBVIOUS
    <3>7. a \in I /\ b \in I \cup {0} /\ (\A x \in I : x <= a) /\ \A x \in I \cup {0} : x <= b
      BY <3>3, <3>5, <3>6
    <3>8. a \in Nat /\ b \in Nat /\ a <= b /\ a >= 1
      BY <3>1, <3>4, <3>7
    <3>9. a = b
      BY <3>7, <3>8
    <3> QED BY <2>2, <3>2, <3>6, <3>9
  <2> QED BY <2>1, <2>2
<1> HIDE DEF I
<1>3. consecutiveRateLimits(beats) = Len(beats) - LastOther(beats, Len(beats))
  BY <1>1, <1>2
<1> QED BY <1>0, <1>3, StreakIs

\* A history that ends as another does has no longer a row at its end.
SameTail(after, m, beats, i) == \A k \in 0..(m - 1) : after[m - k].outcome = beats[i - k].outcome

LEMMA StreakShrinks ==
    ASSUME NEW beats, NEW i \in Nat, NEW after, NEW m \in 0..i, SameTail(after, m, beats, i)
    PROVE  Streak(after, m) <= Streak(beats, i)
<1>0. m \in Nat
  OBVIOUS
<1>1. PICK a, b : a = LastOther(after, m) /\ b = LastOther(beats, i)
  OBVIOUS
<1>2. /\ a \in 0..m /\ (\A k \in (a + 1)..m : after[k].outcome = "ratelimit")
      /\ b \in 0..i /\ (b # 0 => beats[b].outcome # "ratelimit")
  BY <1>0, <1>1, LastOtherIs
<1>3. Streak(after, m) = m - a /\ Streak(beats, i) = i - b
  BY <1>0, <1>1, StreakIs
<1>4. m - a <= i - b
  <2> SUFFICES ASSUME m - a > i - b PROVE FALSE
    BY <1>2
  <2>1. b # 0 /\ i - b \in 0..(m - 1) /\ m - (i - b) \in (a + 1)..m /\ i - (i - b) = b
    BY <1>2
  <2>2. PICK k : k = i - b
    OBVIOUS
  <2>3. k \in 0..(m - 1) /\ m - k \in (a + 1)..m /\ i - k = b
    BY <2>1, <2>2
  <2>4. after[m - k].outcome = beats[i - k].outcome
    BY <2>3 DEF SameTail
  <2>5. after[m - k].outcome = "ratelimit"
    BY <1>2, <2>3
  <2>6. beats[i - k].outcome # "ratelimit"
    BY <1>2, <2>1, <2>3
  <2> QED BY <2>4, <2>5, <2>6
<1> QED BY <1>3, <1>4

-----------------------------------------------------------------------------
(* What a beat asks for.                                                   *)

Asked(outcome, streak, i) ==
    CASE outcome = "ratelimit" -> Min({BackoffMax, Doubled(streak, i)})
      [] outcome = "exhausted" -> BackoffMax
      [] OTHER -> 0

LEMMA WaitIs == \A i : Wait(i) = Asked(calls[i].outcome, Streak(calls, i), i)
BY DEF Wait, Asked, Streak, Doubled

LEMMA AskedIs ==
    ASSUME NEW i \in Nat, NEW n \in 0..i, NEW o
    PROVE  /\ Asked(o, n, i) \in 0..BackoffMax
           /\ o = "ratelimit" => /\ Asked(o, n, i) <= Doubled(n, i)
                                 /\ Asked(o, n, i) = BackoffMax \/ Asked(o, n, i) = Doubled(n, i)
           /\ o = "exhausted" => Asked(o, n, i) = BackoffMax
           /\ o \notin {"ratelimit", "exhausted"} => Asked(o, n, i) = 0
<1>1. BackoffMax \in Nat /\ Doubled(n, i) \in Nat
  BY DoubledIs, ConstantsAssumption
<1>2. PICK d \in Nat : d = Doubled(n, i)
  BY <1>1
<1>3. PICK w : w = Min({BackoffMax, d})
  OBVIOUS
<1>4. w = IF BackoffMax <= d THEN BackoffMax ELSE d
  BY <1>1, <1>3, MinIs
<1>5. Asked(o, n, i) = IF o = "ratelimit" THEN w ELSE IF o = "exhausted" THEN BackoffMax ELSE 0
  BY <1>2, <1>3 DEF Asked
<1> QED BY <1>1, <1>2, <1>4, <1>5

\* Fewer refusals ask for no longer.
LEMMA AskedShrinks ==
    ASSUME NEW i \in Nat, NEW n \in 0..i, NEW j \in Nat, NEW m \in 0..j, m <= n, NEW o
    PROVE  Asked(o, m, j) <= Asked(o, n, i)
<1>0. BackoffBase \in Nat /\ BackoffMax \in Nat
  BY ConstantsAssumption
<1>1. Doubled(n, i) >= BackoffMax \/ Doubled(n, i) >= Doubled(m, j)
  <2> DEFINE w == [k \in 0..i |-> Doubled(k, i)]
  <2>1. \A k \in 0..i : /\ w[k] \in Nat
                        /\ k <= 1 => w[k] >= BackoffMax \/ w[k] >= BackoffBase
                        /\ k > 1 => w[k] >= BackoffMax \/ w[k] >= BackoffFactor * w[k - 1]
    <3> SUFFICES ASSUME NEW k \in 0..i
                 PROVE  /\ w[k] \in Nat
                        /\ k <= 1 => w[k] >= BackoffBase
                        /\ k > 1 => w[k] >= BackoffFactor * w[k - 1]
      OBVIOUS
    <3>1. w[k] = Doubled(k, i) /\ Doubled(k, i) \in Nat
      BY DoubledIs
    <3>2. k <= 1 => w[k] >= BackoffBase
      BY <1>0, <3>1, DoubledIs
    <3>3. k > 1 => w[k] >= BackoffFactor * w[k - 1]
      <4> SUFFICES ASSUME k > 1 PROVE w[k] >= BackoffFactor * w[k - 1]
        OBVIOUS
      <4>1. k - 1 \in 0..i /\ w[k - 1] = Doubled(k - 1, i)
        OBVIOUS
      <4>2. w[k] = BackoffFactor * w[k - 1] /\ w[k] \in Nat
        BY <3>1, <4>1, DoubledIs
      <4>3. PICK x : x = BackoffFactor * w[k - 1]
        OBVIOUS
      <4> QED BY <4>2, <4>3
    <3> QED BY <3>1, <3>2, <3>3
  <2>2. w[n] = Doubled(n, i)
    OBVIOUS
  <2> HIDE DEF w
  <2>3. w[n] >= BackoffMax \/ w[n] >= Doubled(m, j)
    BY <2>1, WaitsGrow
  <2> QED BY <2>2, <2>3
<1>2. /\ Asked(o, m, j) \in 0..BackoffMax /\ Asked(o, n, i) \in 0..BackoffMax
      /\ Doubled(n, i) \in Nat /\ Doubled(m, j) \in Nat
  BY AskedIs, DoubledIs
<1>3. CASE o = "ratelimit"
  <2>1. /\ Asked(o, m, j) <= Doubled(m, j)
        /\ Asked(o, n, i) = BackoffMax \/ Asked(o, n, i) = Doubled(n, i)
    BY <1>3, AskedIs
  <2> QED BY <1>0, <1>1, <1>2, <2>1
<1>4. CASE o # "ratelimit"
  <2>1. Asked(o, m, j) = Asked(o, n, i)
    BY <1>4, AskedIs
  <2> QED BY <1>2, <2>1
<1> QED BY <1>3, <1>4

\* The ledger's wait is as long as its row of refusals asks for.
LEMMA BackoffCovers ==
    ASSUME NEW beats \in Seq(Beats), NEW j \in Nat, NEW m \in 0..j, m <= Streak(beats, Len(beats))
    PROVE  backoffFor(beats) >= Asked("ratelimit", m, j)
<1> DEFINE L == Len(beats)
           W == CHOOSE f : f = [n \in 0..L |-> IF n <= 1 THEN Wait1 ELSE WaitAfter(f[n - 1])]
<1>0. L \in Nat /\ BackoffBase \in Nat /\ BackoffMax \in Nat /\ BackoffFactor \in Nat
  BY HistoryIs, ConstantsAssumption
<1>1. PICK s : s = Streak(beats, L)
  OBVIOUS
<1>2. s \in 0..L /\ m <= s /\ consecutiveRateLimits(beats) = s
  BY <1>0, <1>1, StreakIs, RowIsStreak
<1>3. backoffFor(beats) = W[s]
  BY <1>2 DEF backoffFor, Wait1, WaitAfter
<1> HIDE DEF L
<1>4. W = [n \in 0..L |-> IF n <= 1 THEN Wait1 ELSE WaitAfter(W[n - 1])]
  BY <1>0, WaitExists
<1> HIDE DEF W
<1>5. \A n \in 0..L : W[n] \in 0..BackoffMax
  BY <1>0, <1>4, WaitStays
<1>6. \A n \in 0..L : /\ W[n] \in Nat
                      /\ n <= 1 => W[n] >= BackoffMax \/ W[n] >= BackoffBase
                      /\ n > 1 => W[n] >= BackoffMax \/ W[n] >= BackoffFactor * W[n - 1]
  <2> SUFFICES ASSUME NEW n \in 0..L
               PROVE  /\ W[n] \in Nat
                      /\ n <= 1 => W[n] >= BackoffMax \/ W[n] >= BackoffBase
                      /\ n > 1 => W[n] >= BackoffMax \/ W[n] >= BackoffFactor * W[n - 1]
    OBVIOUS
  <2>1. W[n] \in Nat
    BY <1>0, <1>5
  <2>2. \A a \in Nat : \/ Min({a, BackoffMax}) >= BackoffMax
                       \/ Min({a, BackoffMax}) >= a
    BY <1>0, MinIs
  <2>3. CASE n <= 1
    <3>1. W[n] = Min({BackoffBase, BackoffMax})
      BY <1>4, <2>3 DEF Wait1
    <3>2. W[n] >= BackoffMax \/ W[n] >= BackoffBase
      BY <1>0, <2>2, <3>1
    <3> QED BY <2>1, <2>3, <3>2
  <2>4. CASE n > 1
    <3>1. PICK v : v = W[n - 1]
      OBVIOUS
    <3>2. n - 1 \in 0..L
      <4>1. n \in Nat /\ n <= L
        BY <1>0
      <4> QED BY <1>0, <2>4, <4>1
    <3>3. v \in Nat
      BY <1>0, <1>5, <3>1, <3>2
    <3>4. W[n] = Min({BackoffFactor * v, BackoffMax})
      <4>1. n \in Nat /\ ~(n <= 1)
        BY <1>0, <2>4
      <4>2. W[n] = WaitAfter(W[n - 1])
        BY <1>4, <4>1
      <4>3. W[n] = WaitAfter(v)
        BY <3>1, <4>2
      <4> QED BY <4>3 DEF WaitAfter
    <3>5. PICK x : x = BackoffFactor * v
      OBVIOUS
    <3>6. x \in Nat
      BY <1>0, <3>3, <3>5
    <3>7. W[n] >= BackoffMax \/ W[n] >= x
      BY <2>2, <3>4, <3>5, <3>6
    <3> QED BY <2>1, <2>4, <3>1, <3>5, <3>7
  <2> QED BY <2>3, <2>4
<1>7. W[s] >= BackoffMax \/ W[s] >= Doubled(m, j)
  BY <1>0, <1>2, <1>6, WaitsGrow
<1>8. Asked("ratelimit", m, j) \in 0..BackoffMax /\ Asked("ratelimit", m, j) <= Doubled(m, j)
      /\ Doubled(m, j) \in Nat /\ W[s] \in Nat
  BY <1>2, <1>6, AskedIs, DoubledIs
<1> QED BY <1>0, <1>3, <1>7, <1>8

-----------------------------------------------------------------------------
(* The end of a history.                                                   *)

\* Two histories whose last n beats are the same.
SameEnd(one, another, n) ==
    /\ n <= Len(one) /\ n <= Len(another)
    /\ \A k \in 0..(n - 1) : one[Len(one) - k] = another[Len(another) - k]

Sorted(beats) == \A i, j \in DOMAIN beats : i < j => beats[j].age <= beats[i].age

\* Pruning leaves the end that is young enough where it is.
LEMMA PruneEnd ==
    ASSUME NEW beats \in Seq(Beats), NEW n \in 0..Len(beats),
           \A k \in 0..(n - 1) : beats[Len(beats) - k].age < Keep
    PROVE  SameEnd(prune(beats), beats, n)
<1>1. PICK L, K, N : L = Len(beats) /\ K = Kept(beats) /\ N = Cardinality(Kept(beats))
  OBVIOUS
<1>2. /\ L \in Nat /\ N \in Nat /\ N = Cardinality(K) /\ DOMAIN beats = 1..L /\ K \in SUBSET (1..L)
      /\ K \in SUBSET Int /\ IsFiniteSet(K) /\ n \in 0..L
      /\ prune(beats) \in Seq(Beats) /\ DOMAIN prune(beats) = 1..N
      /\ \A m \in 1..N : prune(beats)[m] = beats[Nth(K, m)]
  BY <1>1, PruneIs, HistoryIs
<1>3. Len(prune(beats)) = N
  BY <1>2, HistoryIs
<1>4. ASSUME NEW k \in 0..(n - 1) PROVE L - k \in K
  <2>1. L - k \in 1..L /\ beats[L - k].age < Keep
    BY <1>1, <1>2
  <2>2. L - k \in Kept(beats)
    BY <1>2, <2>1 DEF Kept
  <2> QED BY <1>1, <2>2
<1>5. ASSUME NEW k \in 0..(n - 1) PROVE N - k \in 1..N /\ prune(beats)[N - k] = beats[L - k]
  <2>1. PICK i : i = L - k
    OBVIOUS
  <2>2. i \in K /\ i \in 1..L /\ L - i = k
    BY <1>2, <1>4, <2>1
  <2>3. \A j \in i..L : j \in K
    <3> SUFFICES ASSUME NEW j \in i..L PROVE j \in K
      OBVIOUS
    <3>1. L - j \in 0..(n - 1) /\ L - (L - j) = j
      BY <1>2, <2>1, <2>2
    <3> QED BY <1>4, <3>1
  <2>4. Rank(K, i) = N - k
    BY <1>2, <2>2, <2>3, TailRank
  <2>5. Rank(K, i) \in 1..N /\ Nth(K, Rank(K, i)) = i
    BY <1>2, <2>2, RankIs, NthIs
  <2> QED BY <1>2, <2>1, <2>4, <2>5
<1>6. n <= N
  <2>1. CASE n = 0
    BY <1>2, <2>1
  <2>2. CASE n > 0
    <3>1. n - 1 \in 0..(n - 1)
      BY <1>2, <2>2
    <3>2. N - (n - 1) \in 1..N
      BY <1>5, <3>1
    <3> QED BY <1>2, <3>2
  <2> QED BY <1>2, <2>1, <2>2
<1> QED BY <1>1, <1>2, <1>3, <1>5, <1>6 DEF SameEnd

\* Of a history that only gets younger, pruning leaves an end.
LEMMA PruneSorted ==
    ASSUME NEW beats \in Seq(Beats), Sorted(beats)
    PROVE  /\ SameEnd(prune(beats), beats, Len(prune(beats)))
           /\ \A m \in DOMAIN prune(beats) : prune(beats)[m].age < Keep
           /\ Sorted(prune(beats))
<1>1. PICK L, K, N : L = Len(beats) /\ K = Kept(beats) /\ N = Cardinality(Kept(beats))
  OBVIOUS
<1>2. /\ L \in Nat /\ N \in Nat /\ N = Cardinality(K) /\ DOMAIN beats = 1..L /\ K \in SUBSET (1..L)
      /\ K \in SUBSET Int /\ IsFiniteSet(K)
      /\ prune(beats) \in Seq(Beats) /\ DOMAIN prune(beats) = 1..N
      /\ \A m \in 1..N : Nth(K, m) \in K /\ prune(beats)[m] = beats[Nth(K, m)]
  BY <1>1, PruneIs, HistoryIs
<1>3. Len(prune(beats)) = N
  BY <1>2, HistoryIs
<1>4. \A i \in K : i \in 1..L /\ beats[i].age < Keep
  BY <1>1, <1>2 DEF Kept
<1>5. ASSUME NEW i \in K, NEW j \in i..L PROVE j \in K
  <2>1. j \in DOMAIN beats /\ i \in DOMAIN beats /\ (j = i \/ i < j)
    BY <1>2, <1>4
  <2>2. beats[j].age <= beats[i].age
    <3>1. beats[i].age \in Int
      <4>1. beats[i].age \in 0..Keep
        BY <2>1, HistoryIs
      <4> QED BY <4>1
    <3>2. CASE j = i
      BY <3>1, <3>2
    <3>3. CASE i < j
      BY <2>1, <3>3 DEF Sorted
    <3> QED BY <2>1, <3>2, <3>3
  <2>3. beats[j].age \in 0..Keep /\ beats[i].age \in 0..Keep /\ beats[i].age < Keep /\ Keep \in Nat
    BY <1>4, <2>1, HistoryIs, ConstantsAssumption
  <2>4. beats[j].age < Keep
    BY <2>2, <2>3
  <2> QED BY <1>1, <2>1, <2>4 DEF Kept
<1>6. ASSUME NEW m \in 1..N PROVE Nth(K, m) = L - (N - m)
  <2>1. PICK i : i = Nth(K, m)
    OBVIOUS
  <2>2. i \in K /\ i \in 1..L /\ Rank(K, i) = m
    BY <1>2, <1>4, <2>1, NthIs
  <2>3. Rank(K, i) = N - (L - i)
    BY <1>2, <1>5, <2>2, TailRank
  <2> QED BY <1>2, <2>1, <2>2, <2>3
<1>7. N <= L
  <2>1. IsFiniteSet(1..L) /\ Cardinality(1..L) = L
    BY <1>2, FS_Interval
  <2>2. PICK T : T = 1..L
    OBVIOUS
  <2>3. IsFiniteSet(T) /\ K \in SUBSET T /\ Cardinality(T) = L
    BY <1>2, <2>1, <2>2
  <2>4. Cardinality(K) <= Cardinality(T)
    BY <2>3, FS_Subset
  <2> QED BY <1>2, <2>3, <2>4
<1>8. \A k \in 0..(N - 1) : prune(beats)[N - k] = beats[L - k]
  <2> SUFFICES ASSUME NEW k \in 0..(N - 1) PROVE prune(beats)[N - k] = beats[L - k]
    OBVIOUS
  <2>1. PICK m : m = N - k
    OBVIOUS
  <2>2. m \in 1..N /\ L - (N - m) = L - k
    BY <1>2, <2>1
  <2>3. prune(beats)[m] = beats[L - k]
    BY <1>2, <1>6, <2>2
  <2> QED BY <2>1, <2>3
<1>9. Sorted(prune(beats))
  <2> SUFFICES ASSUME NEW m \in 1..N, NEW n \in 1..N, m < n
               PROVE  prune(beats)[n].age <= prune(beats)[m].age
    BY <1>2 DEF Sorted
  <2>1. Nth(K, m) < Nth(K, n)
    BY <1>2, NthGrows
  <2> QED BY <1>2, <2>1 DEF Sorted
<1> QED BY <1>1, <1>2, <1>3, <1>4, <1>7, <1>8, <1>9 DEF SameEnd

\* A tick keeps both: the order, and that an end is the same.
LEMMA AgedSorted ==
    ASSUME NEW beats \in Seq(Beats), Sorted(beats) PROVE Sorted(Aged(beats))
<1> SUFFICES ASSUME NEW i \in DOMAIN beats, NEW j \in DOMAIN beats, i < j
             PROVE  Aged(beats)[j].age <= Aged(beats)[i].age
  BY AgedIs DEF Sorted
<1>1. beats[j].age <= beats[i].age /\ beats[i].age \in Nat /\ beats[j].age \in Nat /\ Keep \in Nat
  BY HistoryIs, ConstantsAssumption DEF Sorted
<1>2. PICK a, b : a = Aged(beats)[i].age /\ b = Aged(beats)[j].age
  OBVIOUS
<1>3. /\ a = IF beats[i].age + 1 <= Keep THEN beats[i].age + 1 ELSE Keep
      /\ b = IF beats[j].age + 1 <= Keep THEN beats[j].age + 1 ELSE Keep
  BY <1>2, AgedIs
<1> QED BY <1>1, <1>2, <1>3

LEMMA AgedEnd ==
    ASSUME NEW one \in Seq(Beats), NEW another \in Seq(Beats), NEW n \in Nat, SameEnd(one, another, n)
    PROVE  SameEnd(Aged(one), Aged(another), n)
<1>1. /\ Len(Aged(one)) = Len(one) /\ Len(Aged(another)) = Len(another)
      /\ Len(one) \in Nat /\ Len(another) \in Nat
      /\ DOMAIN one = 1..Len(one) /\ DOMAIN another = 1..Len(another)
  <2>1. \A beats \in Seq(Beats) : /\ Aged(beats) \in Seq(Beats) /\ DOMAIN Aged(beats) = DOMAIN beats
                                  /\ Len(beats) \in Nat /\ DOMAIN beats = 1..Len(beats)
    BY AgedIs, HistoryIs
  <2>2. \A beats \in Seq(Beats) : Len(Aged(beats)) = Len(beats)
    BY <2>1
  <2> QED BY <2>1, <2>2
<1>2. ASSUME NEW k \in 0..(n - 1)
      PROVE  Aged(one)[Len(one) - k] = Aged(another)[Len(another) - k]
  <2>1. PICK i, j : i = Len(one) - k /\ j = Len(another) - k
    OBVIOUS
  <2>2. one[i] = another[j] /\ i \in DOMAIN one /\ j \in DOMAIN another
    BY <1>1, <2>1 DEF SameEnd
  <2>3. Aged(one)[i] = Aged(another)[j]
    BY <2>2 DEF Aged
  <2> QED BY <2>1, <2>3
<1> QED BY <1>1, <1>2 DEF SameEnd

LEMMA EndEnds ==
    ASSUME NEW one, NEW another, NEW third, NEW n \in Nat, NEW m \in 0..n,
           SameEnd(one, another, n), SameEnd(another, third, m), Len(one) \in Nat, Len(third) \in Nat
    PROVE  SameEnd(one, third, m)
BY DEF SameEnd

-----------------------------------------------------------------------------
(* Every beat's wait.  A shorter history asks for no longer, so pruning    *)
(* and a tick leave the waits covered; recording a refusal covers its own. *)

AskedBy(beats, i) == Asked(beats[i].outcome, Streak(beats, i), i)

LEMMA AskedByShrinks ==
    ASSUME NEW beats, NEW i \in Nat, NEW after, NEW m \in 1..i, SameTail(after, m, beats, i)
    PROVE  /\ AskedBy(after, m) \in Nat /\ AskedBy(beats, i) \in Nat
           /\ AskedBy(after, m) <= AskedBy(beats, i)
<1>1. m \in Nat /\ m \in 0..i /\ 0 \in 0..(m - 1) /\ m - 0 = m /\ i - 0 = i
  OBVIOUS
<1>2. after[m].outcome = beats[i].outcome
  BY <1>1 DEF SameTail
<1>3. Streak(after, m) \in 0..m /\ Streak(beats, i) \in 0..i /\ Streak(after, m) <= Streak(beats, i)
  BY <1>1, StreakIs, StreakShrinks
<1>4. PICK s, t, o : s = Streak(after, m) /\ t = Streak(beats, i) /\ o = beats[i].outcome
  OBVIOUS
<1>5. /\ Asked(o, s, m) <= Asked(o, t, i)
      /\ Asked(o, s, m) \in 0..BackoffMax /\ Asked(o, t, i) \in 0..BackoffMax
  BY <1>1, <1>3, <1>4, AskedShrinks, AskedIs
<1> QED BY <1>2, <1>4, <1>5, ConstantsAssumption DEF AskedBy

\* Pruning a history that ends as a young one does leaves it so.
LEMMA PruneYoung ==
    ASSUME NEW beats \in Seq(Beats), NEW young \in Seq(Beats), SameEnd(beats, young, Len(young)),
           \A i \in DOMAIN young : young[i].age < Keep
    PROVE  SameEnd(prune(beats), young, Len(young))
<1>1. /\ Len(young) \in Nat /\ DOMAIN young = 1..Len(young) /\ Len(beats) \in Nat
      /\ Len(young) <= Len(beats) /\ Len(prune(beats)) \in Nat
  BY HistoryIs, PruneIs DEF SameEnd
<1>2. ASSUME NEW k \in 0..(Len(young) - 1) PROVE beats[Len(beats) - k].age < Keep
  <2>1. beats[Len(beats) - k] = young[Len(young) - k] /\ Len(young) - k \in DOMAIN young
    BY <1>1 DEF SameEnd
  <2> QED BY <2>1
<1>3. SameEnd(prune(beats), beats, Len(young))
  BY <1>1, <1>2, PruneEnd
<1> QED BY <1>1, <1>3, EndEnds

LEMMA AppendEnd ==
    ASSUME NEW one \in Seq(Beats), NEW another \in Seq(Beats), NEW n \in 0..Len(another), NEW b \in Beats,
           SameEnd(one, another, n)
    PROVE  SameEnd(Append(one, b), Append(another, b), n + 1)
<1>0. Len(one) \in Nat /\ Len(another) \in Nat /\ n \in Nat /\ n <= Len(one) /\ n <= Len(another)
  BY HistoryIs DEF SameEnd
<1>1. \A beats \in Seq(Beats) : /\ Len(Append(beats, b)) = Len(beats) + 1
                                /\ Append(beats, b)[Len(beats) + 1] = b
                                /\ \A i \in 1..Len(beats) : Append(beats, b)[i] = beats[i]
  OBVIOUS
<1>2. PICK x, y : x = Append(one, b) /\ y = Append(another, b)
  OBVIOUS
<1>3. /\ Len(x) = Len(one) + 1 /\ x[Len(one) + 1] = b /\ \A i \in 1..Len(one) : x[i] = one[i]
      /\ Len(y) = Len(another) + 1 /\ y[Len(another) + 1] = b /\ \A i \in 1..Len(another) : y[i] = another[i]
  BY <1>1, <1>2
<1>4. ASSUME NEW k \in 0..n PROVE x[Len(one) + 1 - k] = y[Len(another) + 1 - k]
  <2>1. CASE k = 0
    <3>1. Len(one) + 1 - k = Len(one) + 1 /\ Len(another) + 1 - k = Len(another) + 1
      BY <1>0, <2>1
    <3> QED BY <1>3, <3>1
  <2>2. CASE k > 0
    <3>1. PICK j : j = k - 1
      OBVIOUS
    <3>2. /\ j \in 0..(n - 1) /\ Len(one) + 1 - k = Len(one) - j /\ Len(another) + 1 - k = Len(another) - j
          /\ Len(one) - j \in 1..Len(one) /\ Len(another) - j \in 1..Len(another)
      BY <1>0, <2>2, <3>1
    <3>3. one[Len(one) - j] = another[Len(another) - j]
      BY <3>2 DEF SameEnd
    <3> QED BY <1>3, <3>2, <3>3
  <2> QED BY <2>1, <2>2
<1>5. n + 1 <= Len(x) /\ n + 1 <= Len(y)
  BY <1>0, <1>3
<1>6. ASSUME NEW k \in 0..((n + 1) - 1) PROVE x[Len(x) - k] = y[Len(y) - k]
  <2>1. k \in 0..n
    BY <1>0
  <2> QED BY <1>3, <1>4, <2>1
<1> QED BY <1>2, <1>5, <1>6 DEF SameEnd

\* The calls are in the order they were made; the ledger's history, with the
\* beat about to be recorded, ends as they do; and the cooldown lasts for
\* whatever is left of every recorded beat's wait.
Known == IF Recording THEN Append(ledger.beats, calls[Len(calls)]) ELSE ledger.beats

PaceInv ==
    /\ Sorted(calls)
    /\ \A i \in DOMAIN calls : calls[i].age < Keep
    /\ SameEnd(Known, calls, Len(calls))
    /\ \A i \in DOMAIN calls : \/ Recording /\ i = Len(calls)
                               \/ calls[i].age + ledger.cooldown >= AskedBy(calls, i)

LEMMA PaceStep ==
    ASSUME MaxCrashes = 0, ~LedgerFails, TypeInv, LockInv, CauseInv, PaceInv, [Next]_vars
    PROVE  PaceInv'
<1>0. /\ hour \in 0..(Day - 1) /\ ledger \in Ledgers /\ proc \in [Procs -> Runs] /\ crashes = 0
      /\ calls \in Seq(Beats) /\ ledger.beats \in Seq(Beats) /\ ledger.cooldown \in Nat
      /\ \A p \in Procs : proc[p].pc = "record" => proc[p].outcome \in Outcomes
  <2>1. /\ hour \in 0..(Day - 1) /\ ledger \in Ledgers /\ proc \in [Procs -> Runs]
        /\ crashes \in 0..0 /\ calls \in Seq(Beats)
    BY TypeParts DEF TypeInv
  <2> QED BY <2>1, TopIs DEF Ledgers, TypeInv
<1>cad. Cadence \in 0..Cadence /\ Idle(Cadence).pc = "idle"
  BY IdleIs, ConstantsAssumption
<1>max. BackoffMax \in Nat \ {0} /\ Keep \in Nat /\ BackoffMax <= Keep /\ 0 < Keep
  BY ConstantsAssumption
<1>len. /\ Len(calls) \in Nat /\ DOMAIN calls = 1..Len(calls)
        /\ \A i \in DOMAIN calls : calls[i] \in Beats /\ calls[i].age \in Nat
        /\ Len(ledger.beats) \in Nat /\ DOMAIN ledger.beats = 1..Len(ledger.beats)
  BY <1>0, HistoryIs
<1>asked. \A i \in DOMAIN calls : AskedBy(calls, i) \in Nat
  <2> SUFFICES ASSUME NEW i \in DOMAIN calls PROVE AskedBy(calls, i) \in Nat
    OBVIOUS
  <2>1. i \in Nat /\ i \in 1..i /\ SameTail(calls, i, calls, i)
    BY <1>len DEF SameTail
  <2> QED BY <2>1, AskedByShrinks
<1>alone. ASSUME NEW p \in Procs, proc[p].pc \in Critical
          PROVE  \A q \in Procs : q = p \/ proc[q].pc \in {"idle", "stat"}
  BY <1>alone DEF LockInv, Others
\* A step that touches neither a history nor the cooldown.
<1>same. ASSUME NEW p \in Procs, proc[p].pc # "record", proc'[p].pc # "record",
                \A q \in Procs \ {p} : proc'[q] = proc[q], UNCHANGED <<ledger, calls>>
         PROVE  PaceInv'
  <2>1. Recording' <=> Recording
    BY <1>same DEF Recording
  <2>2. Known' = Known
    BY <1>same, <2>1 DEF Known
  <2> QED BY <1>same, <2>1, <2>2 DEF PaceInv
<1>1. ASSUME NEW p \in Procs, Refuse(p) \/ Crash(p) PROVE FALSE
  BY <1>0, <1>1 DEF Refuse, Crash
<1>2. ASSUME NEW p \in Procs, TryLock(p) \/ StatLock(p) \/ BreakLock(p) \/ RetakeLock(p) PROVE PaceInv'
  <2>1. /\ UNCHANGED <<hour, ledger, calls>> /\ proc[p].pc # "record"
        /\ \/ \E pc \in {"check", "stat", "break", "retake"} : Goto(p, pc)
           \/ proc' = [proc EXCEPT ![p] = Idle(Cadence)]
    BY <1>2 DEF TryLock, StatLock, BreakLock, RetakeLock
  <2>2. CASE \E pc \in {"check", "stat", "break", "retake"} : Goto(p, pc)
    <3>1. PICK pc \in {"check", "stat", "break", "retake"} : Goto(p, pc)
      BY <2>2
    <3>2. proc'[p].pc = pc /\ \A q \in Procs \ {p} : proc'[q] = proc[q]
      BY <3>1, GotoIs DEF Pcs
    <3> QED BY <1>same, <2>1, <3>2
  <2>3. CASE proc' = [proc EXCEPT ![p] = Idle(Cadence)]
    <3>1. proc'[p].pc = "idle" /\ \A q \in Procs \ {p} : proc'[q] = proc[q]
      BY <2>3, <1>cad, StopIs
    <3> QED BY <1>same, <2>1, <3>1
  <2> QED BY <2>1, <2>2, <2>3
<1>3. ASSUME NEW p \in Procs, Leave(p) \/ TimeOut(p) PROVE PaceInv'
  <2>1. /\ UNCHANGED <<hour, ledger, calls>> /\ proc' = [proc EXCEPT ![p] = Idle(Cadence)]
        /\ proc[p].pc # "record"
    BY <1>3 DEF Leave, TimeOut
  <2>2. proc'[p].pc = "idle" /\ \A q \in Procs \ {p} : proc'[q] = proc[q]
    BY <2>1, <1>cad, StopIs
  <2> QED BY <1>same, <2>1, <2>2
<1>4. ASSUME NEW p \in Procs, Proceed(p) PROVE PaceInv'
  <2>1. proc[p].pc = "check" /\ Goto(p, "beating") /\ UNCHANGED <<ledger, calls>>
    BY <1>4 DEF Proceed
  <2>2. proc'[p].pc = "beating" /\ \A q \in Procs \ {p} : proc'[q] = proc[q]
    BY <2>1, GotoIs DEF Pcs
  <2> QED BY <1>same, <2>1, <2>2
<1>5. ASSUME NEW p \in Procs, Hold(p) PROVE PaceInv'
  <2>1. /\ proc[p].pc = "check" /\ Goto(p, "leaving") /\ UNCHANGED <<hour, calls>>
        /\ ledger' = Save([ledger EXCEPT !.alerted = RetryAfter(ledger)])
    BY <1>5 DEF Hold
  <2>2. proc'[p].pc = "leaving" /\ \A q \in Procs \ {p} : proc'[q] = proc[q]
    BY <2>1, GotoIs DEF Pcs
  <2>3. ~Recording /\ ~Recording'
    BY <1>alone, <2>1, <2>2 DEF Recording, Critical
  <2>4. /\ [ledger EXCEPT !.alerted = RetryAfter(ledger)] \in Ledgers
        /\ [ledger EXCEPT !.alerted = RetryAfter(ledger)].cooldown = ledger.cooldown
        /\ [ledger EXCEPT !.alerted = RetryAfter(ledger)].beats = ledger.beats
    BY <1>0, RetryAfterIs DEF Ledgers
  <2>5. ledger'.cooldown = ledger.cooldown /\ ledger'.beats = prune(ledger.beats)
    BY <2>1, <2>4, SaveIs
  <2>6. SameEnd(ledger.beats, calls, Len(calls))
    BY <2>3 DEF PaceInv, Known
  <2>7. SameEnd(prune(ledger.beats), calls, Len(calls))
    BY <1>0, <1>len, <2>6, PruneYoung DEF PaceInv
  <2> QED BY <2>1, <2>3, <2>5, <2>7 DEF PaceInv, Known
<1>6. ASSUME NEW p \in Procs, EndBeat(p) PROVE PaceInv'
  <2>1. PICK o \in Endings : /\ proc' = [proc EXCEPT ![p].pc = "record", ![p].outcome = o]
                             /\ calls' = Append(calls, [age |-> 0, outcome |-> o])
    BY <1>6 DEF EndBeat
  <2>2. proc[p].pc = "beating" /\ UNCHANGED ledger
    BY <1>6 DEF EndBeat
  <2>3. proc'[p].pc = "record" /\ ~Recording /\ Recording'
    BY <1>0, <1>alone, <2>1, <2>2 DEF Runs, Critical, Recording
  <2>b. PICK b : b = [age |-> 0, outcome |-> o]
    OBVIOUS
  <2>4. b \in Beats /\ b.age = 0
    <3>1. o \in Outcomes
      BY <2>1 DEF Endings
    <3> QED BY <2>b, <3>1, <1>max DEF Beats
  <2>5. PICK n : n = Len(calls)
    OBVIOUS
  <2>6. /\ calls' \in Seq(Beats) /\ Len(calls') = n + 1 /\ calls'[n + 1] = b /\ DOMAIN calls' = 1..(n + 1)
        /\ \A i \in 1..n : calls'[i] = calls[i]
        /\ n \in Nat
    <3>1. calls' = Append(calls, b)
      BY <2>1, <2>b
    <3>2. /\ calls' \in Seq(Beats) /\ Len(calls') = n + 1 /\ calls'[n + 1] = b
          /\ \A i \in 1..n : calls'[i] = calls[i]
      BY <1>0, <1>len, <2>4, <2>5, <3>1
    <3> QED BY <1>len, <2>5, <3>2, HistoryIs
  <2>7. Sorted(calls')
    <3> SUFFICES ASSUME NEW i \in 1..(n + 1), NEW j \in 1..(n + 1), i < j
                 PROVE  calls'[j].age <= calls'[i].age
      BY <2>6 DEF Sorted
    <3>1. i \in 1..n /\ calls'[i] = calls[i] /\ calls[i].age \in Nat
      BY <1>len, <2>5, <2>6
    <3>2. CASE j = n + 1
      BY <2>4, <2>6, <3>1, <3>2
    <3>3. CASE j # n + 1
      <4>1. j \in 1..n /\ calls'[j] = calls[j]
        BY <2>6, <3>3
      <4> QED BY <1>len, <2>5, <3>1, <4>1 DEF PaceInv, Sorted
    <3> QED BY <3>2, <3>3
  <2>8. \A i \in DOMAIN calls' : calls'[i].age < Keep
    <3> SUFFICES ASSUME NEW i \in 1..(n + 1) PROVE calls'[i].age < Keep
      BY <2>6
    <3>1. i = n + 1 \/ i \in 1..n
      BY <2>6
    <3> QED BY <1>max, <1>len, <2>4, <2>5, <2>6, <3>1 DEF PaceInv
  <2>9. SameEnd(Append(ledger.beats, b), calls', n + 1)
    <3>1. SameEnd(ledger.beats, calls, n) /\ n \in 0..Len(calls)
      BY <2>3, <2>5, <2>6 DEF PaceInv, Known
    <3> QED BY <1>0, <2>1, <2>4, <2>b, <3>1, AppendEnd
  <2>10. ASSUME NEW i \in 1..n PROVE calls'[i].age + ledger.cooldown >= AskedBy(calls', i)
    <3>1. i \in Nat /\ i \in 1..i /\ SameTail(calls', i, calls, i)
      BY <2>6 DEF SameTail
    <3>2. AskedBy(calls', i) \in Nat /\ AskedBy(calls, i) \in Nat /\ AskedBy(calls', i) <= AskedBy(calls, i)
      BY <3>1, AskedByShrinks
    <3>3. calls[i].age + ledger.cooldown >= AskedBy(calls, i) /\ i \in DOMAIN calls
      BY <1>len, <2>3, <2>5 DEF PaceInv
    <3>4. calls'[i] = calls[i] /\ calls[i].age \in Nat
      BY <1>len, <2>6, <3>3
    <3> QED BY <1>0, <3>2, <3>3, <3>4
  <2>12. Known' = Append(ledger.beats, b)
    BY <2>2, <2>3, <2>6 DEF Known
  <2>13. \A i \in DOMAIN calls' : i \in 1..n \/ i = Len(calls')
    BY <2>6
  <2> QED BY <2>2, <2>3, <2>6, <2>7, <2>8, <2>9, <2>10, <2>12, <2>13 DEF PaceInv
<1>7. ASSUME NEW p \in Procs, RecordBeat(p) PROVE PaceInv'
  <2> DEFINE o == proc[p].outcome
  <2>1. /\ proc[p].pc = "record" /\ Goto(p, "leaving") /\ ledger' = Save(Record(ledger, o))
        /\ UNCHANGED calls /\ o \in Outcomes
    BY <1>0, <1>7 DEF RecordBeat, Loaded
  <2>2. Recording /\ ~Recording'
    <3>1. proc'[p].pc = "leaving" /\ \A q \in Procs : proc'[q].pc # "record"
      BY <1>alone, <2>1, GotoIs DEF Pcs, Critical
    <3> QED BY <2>1, <3>1 DEF Recording
  <2>n. PICK n, b : n = Len(calls) /\ b = [age |-> 0, outcome |-> o]
    OBVIOUS
  <2>3. n \in DOMAIN calls /\ calls[n] = b /\ b \in Beats /\ b.age = 0 /\ b.outcome = o /\ ledger.cooldown = 0
    <3>1. n > 0 /\ calls[n] = b /\ ledger.cooldown = 0
      BY <2>1, <2>n DEF CauseInv
    <3> QED BY <1>len, <2>n, <3>1
  <2>4. /\ ledger'.cooldown = Record(ledger, o).cooldown /\ ledger'.cooldown \in Nat
        /\ ledger'.beats = prune(Append(ledger.beats, b))
    <3>1. Record(ledger, o) \in Ledgers /\ Record(ledger, o).beats = Append(ledger.beats, b)
      BY <1>0, <2>1, <2>n, RecordIs
    <3>2. ledger' \in Ledgers
      BY <2>1, <3>1, SaveIs
    <3>3. PICK l : l = Record(ledger, o)
      OBVIOUS
    <3>4. l \in Ledgers /\ l.beats = Append(ledger.beats, b) /\ ledger' = Save(l)
      BY <2>1, <3>1, <3>3
    <3>5. ledger'.cooldown = l.cooldown /\ ledger'.beats = prune(l.beats)
      BY <3>4, SaveIs
    <3>6. ledger'.cooldown \in Nat
      BY <3>2, TopIs DEF Ledgers
    <3> QED BY <3>3, <3>4, <3>5, <3>6
  <2>5. PICK now : now = Append(ledger.beats, b)
    OBVIOUS
  <2>6. now \in Seq(Beats) /\ Len(now) \in Nat /\ SameEnd(now, calls, n)
    <3>1. now \in Seq(Beats)
      BY <1>0, <2>3, <2>5
    <3> QED BY <2>2, <2>3, <2>5, <2>n, <3>1, HistoryIs DEF PaceInv, Known
  <2>7. SameEnd(prune(now), calls, n)
    BY <1>0, <2>6, <2>n, PruneYoung DEF PaceInv
  <2>8. ASSUME o = "ratelimit" PROVE ledger'.cooldown = backoffFor(now)
    BY <2>4, <2>5, <2>8, <2>n DEF Record
  <2>9. ledger'.cooldown >= AskedBy(calls, n)
    <3>1. n \in Nat /\ Streak(calls, n) \in 0..n
      BY <1>len, <2>n, StreakIs
    <3>2. AskedBy(calls, n) = Asked(o, Streak(calls, n), n)
      BY <2>3 DEF AskedBy
    <3>3. CASE o = "ratelimit"
      <4>1. SameTail(calls, n, now, Len(now)) /\ n \in 0..Len(now)
        BY <1>len, <2>6, <2>n, <3>1 DEF SameEnd, SameTail
      <4>2. Streak(calls, n) <= Streak(now, Len(now))
        BY <2>6, <4>1, StreakShrinks
      <4>3. backoffFor(now) >= Asked("ratelimit", Streak(calls, n), n)
        BY <2>6, <3>1, <4>2, BackoffCovers
      <4> QED BY <2>8, <3>2, <3>3, <4>3
    <3>4. CASE o = "exhausted"
      <4>1. ledger'.cooldown = BackoffMax
        BY <1>0, <2>1, <2>4, <3>4, RecordWaits
      <4>2. Asked(o, Streak(calls, n), n) \in 0..BackoffMax
        BY <3>1, AskedIs
      <4> QED BY <1>max, <3>2, <4>1, <4>2
    <3>5. CASE o \notin {"ratelimit", "exhausted"}
      <4>1. Asked(o, Streak(calls, n), n) = 0
        BY <3>1, <3>5, AskedIs
      <4> QED BY <2>4, <3>2, <4>1
    <3> QED BY <3>3, <3>4, <3>5
  <2> HIDE DEF o
  <2>10. ASSUME NEW i \in DOMAIN calls PROVE calls[i].age + ledger'.cooldown >= AskedBy(calls, i)
    <3>1. AskedBy(calls, i) \in Nat /\ calls[i].age \in Nat
      BY <1>asked, <1>len
    <3>2. CASE i = n
      <4>1. calls[i].age = 0 /\ ledger'.cooldown >= AskedBy(calls, i)
        BY <2>3, <2>9, <3>2
      <4> QED BY <2>4, <3>1, <4>1
    <3>3. CASE i # n
      <4>1. calls[i].age + ledger.cooldown >= AskedBy(calls, i)
        BY <2>n, <3>3 DEF PaceInv
      <4> QED BY <2>3, <2>4, <3>1, <4>1
    <3> QED BY <3>2, <3>3
  <2> QED BY <2>1, <2>2, <2>4, <2>5, <2>7, <2>10, <2>n DEF PaceInv, Known
<1>8. ASSUME Tick PROVE PaceInv'
  <2>1. /\ calls' = prune(Aged(calls)) /\ ledger'.cooldown = Less(ledger.cooldown)
        /\ ledger'.beats = Aged(ledger.beats)
        /\ \A p \in Procs : proc[p].pc # "record"
    BY <1>8 DEF Tick
  <2>2. ~Recording /\ ~Recording'
    <3>1. ASSUME NEW p \in Procs PROVE proc'[p].pc = proc[p].pc
      <4>1. proc[p] \in Runs
        BY <1>0
      <4>2. proc'[p] = [proc[p] EXCEPT !.up = IF proc[p].pc = "beating" THEN proc[p].up + 1 ELSE proc[p].up,
                                       !.rest = Less(proc[p].rest)]
        BY <1>8 DEF Tick
      <4> QED BY <4>1, <4>2 DEF Runs
    <3> QED BY <2>1, <3>1 DEF Recording
  <2>3. PICK aged : aged = Aged(calls)
    OBVIOUS
  <2>4. /\ aged \in Seq(Beats) /\ Len(aged) = Len(calls) /\ Sorted(aged)
        /\ \A i \in DOMAIN calls :
              /\ aged[i].outcome = calls[i].outcome
              /\ aged[i].age = IF calls[i].age + 1 <= Keep THEN calls[i].age + 1 ELSE Keep
    <3>1. aged \in Seq(Beats) /\ DOMAIN aged = DOMAIN calls
      BY <1>0, <2>3, AgedIs
    <3>2. Len(aged) = Len(calls)
      BY <1>len, <3>1, HistoryIs
    <3> QED BY <1>0, <2>3, <3>1, <3>2, AgedIs, AgedSorted DEF PaceInv
  <2>5. /\ SameEnd(calls', aged, Len(calls')) /\ Sorted(calls')
        /\ \A i \in DOMAIN calls' : calls'[i].age < Keep
        /\ calls' \in Seq(Beats)
    BY <2>1, <2>3, <2>4, PruneSorted, PruneIs
  <2>6. PICK m, n, d : m = Len(calls') /\ n = Len(calls) /\ d = n - m
    OBVIOUS
  <2>7. /\ m \in Nat /\ n \in Nat /\ m <= n /\ d \in Nat /\ DOMAIN calls' = 1..m /\ DOMAIN calls = 1..n
        /\ \A k \in 0..(m - 1) : calls'[m - k] = aged[n - k]
    <3>1. m \in Nat /\ n \in Nat /\ DOMAIN calls' = 1..m /\ DOMAIN calls = 1..n
      BY <1>len, <2>5, <2>6, HistoryIs
    <3>2. m <= n /\ \A k \in 0..(m - 1) : calls'[m - k] = aged[n - k]
      <4>1. SameEnd(calls', aged, m) /\ Len(calls') = m /\ Len(aged) = n
        BY <2>4, <2>5, <2>6
      <4>2. m <= Len(aged) /\ \A k \in 0..(m - 1) : calls'[Len(calls') - k] = aged[Len(aged) - k]
        BY <4>1, Zenon DEF SameEnd
      <4>3. ASSUME NEW k \in 0..(m - 1) PROVE calls'[m - k] = aged[n - k]
        <5>1. calls'[Len(calls') - k] = aged[Len(aged) - k]
          BY <4>2
        <5> QED BY <4>1, <5>1, Zenon
      <4>4. m <= n
        BY <4>1, <4>2, Zenon
      <4> QED BY <4>3, <4>4, Zenon
    <3>3. m <= n
      BY <3>2, Zenon
    <3>4. d \in Nat
      BY <2>6, <3>1, <3>3
    <3> QED BY <3>1, <3>2, <3>4, Zenon
  <2>8. SameEnd(ledger'.beats, calls', m)
    <3>1. SameEnd(ledger.beats, calls, n)
      BY <2>2, <2>6 DEF PaceInv, Known
    <3>2. SameEnd(ledger'.beats, aged, n)
      BY <1>0, <2>1, <2>3, <2>7, <3>1, AgedEnd
    <3>3. SameEnd(aged, calls', m)
      BY <2>5, <2>6 DEF SameEnd
    <3>4. Len(ledger'.beats) \in Nat
      <4>1. ledger'.beats \in Seq(Beats)
        BY <1>0, <2>1, AgedIs
      <4> QED BY <4>1, HistoryIs
    <3> QED BY <2>6, <2>7, <3>2, <3>3, <3>4, EndEnds
  <2>9. ASSUME NEW i \in 1..m
        PROVE  /\ i + d \in DOMAIN calls
               /\ calls'[i].outcome = calls[i + d].outcome /\ calls'[i].age = calls[i + d].age + 1
    <3>1. PICK k : k = m - i
      OBVIOUS
    <3>2. k \in 0..(m - 1) /\ m - k = i /\ n - k = i + d /\ i + d \in 1..n
      <4>1. m \in Nat /\ n \in Nat /\ m <= n /\ d = n - m
        BY <2>6, <2>7, Zenon
      <4> QED BY <3>1, <4>1
    <3>3. calls'[i] = aged[i + d]
      BY <2>7, <3>2
    <3>4. PICK a : a = calls[i + d].age
      OBVIOUS
    <3>5. a \in Nat /\ aged[i + d].age = (IF a + 1 <= Keep THEN a + 1 ELSE Keep) /\ calls'[i].age < Keep
      BY <1>len, <2>4, <2>5, <2>7, <3>2, <3>4
    <3>6. aged[i + d].age = a + 1
      BY <1>max, <3>3, <3>5
    <3> QED BY <2>4, <2>7, <3>2, <3>3, <3>4, <3>6
  <2>10. ASSUME NEW i \in 1..m PROVE calls'[i].age + ledger'.cooldown >= AskedBy(calls', i)
    <3>1. PICK j : j = i + d
      OBVIOUS
    <3>2. j \in Nat /\ i \in 1..j /\ j \in DOMAIN calls
      BY <2>7, <2>9, <3>1
    <3>3. SameTail(calls', i, calls, j)
      <4> SUFFICES ASSUME NEW k \in 0..(i - 1) PROVE calls'[i - k].outcome = calls[j - k].outcome
        BY DEF SameTail
      <4>1. PICK h : h = i - k
        OBVIOUS
      <4>2. h \in 1..m /\ h + d = j - k
        BY <2>7, <3>1, <4>1
      <4> QED BY <2>9, <4>1, <4>2
    <3>4. AskedBy(calls', i) \in Nat /\ AskedBy(calls, j) \in Nat /\ AskedBy(calls', i) <= AskedBy(calls, j)
      BY <3>2, <3>3, AskedByShrinks
    <3>5. calls[j].age + ledger.cooldown >= AskedBy(calls, j) /\ calls[j].age \in Nat
      BY <1>len, <2>2, <3>2 DEF PaceInv
    <3>6. ledger'.cooldown \in Nat /\ ledger'.cooldown >= ledger.cooldown - 1
      BY <1>0, <2>1 DEF Less
    <3>7. calls'[i].age = calls[j].age + 1
      BY <2>9, <3>1
    <3> QED BY <1>0, <3>4, <3>5, <3>6, <3>7
  <2> QED BY <2>2, <2>5, <2>6, <2>7, <2>8, <2>10 DEF PaceInv, Known
<1>9. CASE UNCHANGED vars
  <2>1. UNCHANGED <<ledger, calls, proc>>
    BY <1>9 DEF vars
  <2>2. (Recording' <=> Recording) /\ Known' = Known
    BY <2>1 DEF Recording, Known
  <2> QED BY <2>1, <2>2 DEF PaceInv
<1> QED BY <1>1, <1>2, <1>3, <1>4, <1>5, <1>6, <1>7, <1>8, <1>9 DEF Next, Step

LEMMA PaceInvHolds ==
    ASSUME MaxCrashes = 0, Cadence > 0, TwoRuns, ~LedgerFails
    PROVE  Spec => [](TypeInv /\ LockInv /\ CauseInv /\ PaceInv)
<1>1. Init => PaceInv
  <2> SUFFICES ASSUME Init PROVE PaceInv
    OBVIOUS
  <2>1. /\ ledger.beats = <<>> /\ calls = <<>> /\ DOMAIN calls = {} /\ Len(calls) = 0
        /\ \A p \in Procs : proc[p].pc = "idle"
    BY IdleIs, ConstantsAssumption DEF Init, EmptyLedger
  <2>2. ~Recording
    BY <2>1 DEF Recording
  <2>3. SameEnd(<<>>, <<>>, 0)
    <3>1. Len(<<>>) = 0 /\ 0 - 1 = -1 /\ 0..(-1) = {}
      OBVIOUS
    <3> QED BY <3>1 DEF SameEnd
  <2> QED BY <2>1, <2>2, <2>3 DEF PaceInv, Known, Sorted
<1>2. TypeInv /\ LockInv /\ CauseInv /\ PaceInv /\ [Next]_vars => PaceInv'
  BY PaceStep
<1> QED BY <1>1, <1>2, CauseInvHolds, PTL DEF Spec

\* Of all steps, only cti-budget's leave starts a beat.
LEMMA OnlyProceedBeats ==
    ASSUME TypeInv, MaxCrashes = 0, [Next]_vars, NEW p \in Procs,
           proc[p].pc = "check", proc'[p].pc = "beating"
    PROVE  Proceed(p)
<1>0. proc \in [Procs -> Runs] /\ crashes = 0
  <2>1. proc \in [Procs -> Runs] /\ crashes \in 0..0
    BY TypeParts DEF TypeInv
  <2> QED BY <2>1
<1>2. ASSUME NEW q \in Procs, q # p, \E r : proc' = [proc EXCEPT ![q] = r] PROVE FALSE
  BY <1>0, <1>2
<1>3. ~Tick /\ ~UNCHANGED vars
  BY DEF Tick, vars
<1>4. PICK q \in Procs : Step(q)
  BY <1>0, <1>3 DEF Next, Refuse, Crash
<1>5. \E r : proc' = [proc EXCEPT ![q] = r]
  BY <1>4 DEF Step, TryLock, StatLock, BreakLock, RetakeLock, Proceed, Hold, EndBeat, RecordBeat,
              Leave, TimeOut, Goto
<1>6. Step(p)
  BY <1>2, <1>4, <1>5
<1>7. ~Goto(p, "leaving")
  BY GotoIs DEF Pcs
<1> QED BY <1>6, <1>7
        DEF Step, TryLock, StatLock, BreakLock, RetakeLock, Hold, EndBeat, RecordBeat, Leave, TimeOut

\* After every refusal the model is left alone for as long as its place in the
\* row of refusals asks (budget.go, Record and backoffFor), whichever process
\* is next to try.
THEOREM WaitsAreKept ==
    ASSUME MaxCrashes = 0, Cadence > 0, TwoRuns, ~LedgerFails
    PROVE  Spec => BacksOff
<1>1. ASSUME TypeInv, LockInv, CauseInv, PaceInv, [Next]_vars
      PROVE  \A p \in Procs : proc[p].pc = "check" /\ proc'[p].pc = "beating" =>
                \A i \in DOMAIN calls : calls[i].age >= Wait(i)
  <2> SUFFICES ASSUME NEW p \in Procs, proc[p].pc = "check", proc'[p].pc = "beating",
                      NEW i \in DOMAIN calls
               PROVE  calls[i].age >= Wait(i)
    OBVIOUS
  <2>1. RetryAfter(ledger) = 0
    BY <1>1, OnlyProceedBeats DEF Proceed
  <2>2. /\ hour \in 0..(Day - 1) /\ ledger \in Ledgers /\ calls \in Seq(Beats)
    BY <1>1, TypeParts DEF TypeInv
  <2>3. ledger.cooldown = 0
    BY <2>1, <2>2, RetryAfterIs
  <2>4. ~Recording
    BY <1>1 DEF LockInv, Others, Critical, Recording
  <2>5. calls[i].age + 0 >= AskedBy(calls, i) /\ calls[i].age \in Nat
    BY <1>1, <2>2, <2>3, <2>4, HistoryIs DEF PaceInv
  <2>6. Wait(i) = AskedBy(calls, i)
    BY WaitIs DEF AskedBy
  <2> QED BY <2>5, <2>6
<1> QED BY <1>1, PaceInvHolds, PTL DEF Spec, BacksOff
=============================================================================
