----------------------------- MODULE DataLemmas -----------------------------
(* Facts about numbers, finite sets and sequences that the proofs share.  The  *)
(* induction they need is that of the well-ordered naturals, stated over sets. *)
EXTENDS Integers, Sequences, FiniteSets, FiniteSetsExt, SequencesExt, FiniteSetTheorems, TLAPS

(* Every set of naturals with a member has a least one.                        *)
LEMMA NatLeast ==
    ASSUME NEW S \in SUBSET Nat, S # {}
    PROVE  \E m \in S : \A k \in S : m <= k
  <1> DEFINE R == OpToRel(<, Nat)
  <1>1. IsWellFoundedOn(R, Nat)
    BY NatLessThanWellFounded
  <1>2. \A x, y \in Nat : <<x, y>> \in R <=> x < y
    BY DEF OpToRel
  <1> HIDE DEF R
  <1>3. PICK m \in S : \A k \in S : ~(<<k, m>> \in R)
    BY <1>1, WFMin
  <1>4. ASSUME NEW k \in S PROVE m <= k
    <2>1. k \in Nat /\ m \in Nat
      OBVIOUS
    <2>2. ~(k < m)
      BY <1>2, <1>3, <2>1
    <2> QED
      BY <2>1, <2>2
  <1> QED
    BY <1>4

(* Induction: a set of naturals with 0 and with the successor of each of its   *)
(* members has them all.                                                       *)
LEMMA NatAll ==
    ASSUME NEW S \in SUBSET Nat, 0 \in S, \A n \in S : n + 1 \in S
    PROVE  S = Nat
  <1> SUFFICES ASSUME S # Nat PROVE FALSE
    OBVIOUS
  <1>1. PICK m \in Nat \ S : \A k \in Nat \ S : m <= k
    BY NatLeast, Nat \ S \in SUBSET Nat, Nat \ S # {}
  <1>2. m # 0 /\ m - 1 \in Nat /\ m - 1 \in S
    BY <1>1
  <1> QED
    BY <1>1, <1>2

(* Every bounded set of integers with a member has a greatest one.             *)
LEMMA IntGreatest ==
    ASSUME NEW S \in SUBSET Int, S # {}, NEW b \in Int, \A x \in S : x <= b
    PROVE  Max(S) \in S /\ \A x \in S : x <= Max(S)
  <1> DEFINE D == {n \in Nat : b - n \in S}
  <1>1. PICK x \in S : TRUE
    OBVIOUS
  <1>2. b - x \in Nat /\ b - (b - x) = x
    BY <1>1
  <1>3. D \in SUBSET Nat /\ D # {}
    BY <1>1, <1>2
  <1>4. PICK n \in D : \A k \in D : n <= k
    BY <1>3, NatLeast
  <1>5. ASSUME NEW y \in S PROVE y <= b - n
    <2>1. y \in Int /\ b - y \in Nat /\ b - (b - y) = y
      OBVIOUS
    <2>2. b - y \in D
      BY <2>1
    <2>3. n <= b - y /\ n \in Nat
      BY <1>4, <2>2
    <2> QED
      BY <2>1, <2>3
  <1>6. b - n \in S
    BY <1>4
  <1>7. \E m \in S : \A y \in S : m >= y
    BY <1>5, <1>6
  <1> QED
    BY <1>7 DEF Max

(* A finite set of integers is bounded.                                        *)
LEMMA FiniteBounded ==
    ASSUME NEW S \in SUBSET Int, IsFiniteSet(S)
    PROVE  \E b \in Int : \A x \in S : x <= b
  <1> DEFINE Bounded(T) == \E b \in Int : \A x \in T : x <= b
             N == {n \in Nat : \A T \in SUBSET Int :
                                  (IsFiniteSet(T) /\ Cardinality(T) = n) => Bounded(T)}
  <1>1. 0 \in N
    BY FS_EmptySet
  <1>2. ASSUME NEW n \in N PROVE n + 1 \in N
    <2>0. n \in Nat /\ (n + 1) - 1 = n
      OBVIOUS
    <2>1. ASSUME NEW T \in SUBSET Int, IsFiniteSet(T), Cardinality(T) = n + 1 PROVE Bounded(T)
      <3>1. T # {}
        BY <2>1, FS_EmptySet
      <3>2. PICK x \in T : TRUE
        BY <3>1
      <3>3. IsFiniteSet(T \ {x}) /\ Cardinality(T \ {x}) = n
        <4>1. IsFiniteSet(T \ {x}) /\ Cardinality(T \ {x}) = Cardinality(T) - 1
          BY <2>1, <3>2, FS_RemoveElement
        <4> QED
          BY <2>0, <2>1, <4>1
      <3>4. \A U \in SUBSET Int : (IsFiniteSet(U) /\ Cardinality(U) = n) => Bounded(U)
        BY <1>2
      <3>5. PICK b \in Int : \A y \in T \ {x} : y <= b
        BY <3>3, <3>4
      <3>6. \A y \in T : y <= (IF x <= b THEN b ELSE x)
        BY <3>5
      <3> QED
        BY <3>6
    <2> QED
      BY <2>1
  <1>3. N \in SUBSET Nat
    OBVIOUS
  <1>4. N = Nat
    <2> HIDE DEF N
    <2> QED
      BY <1>1, <1>2, <1>3, NatAll
  <1>5. Cardinality(S) \in Nat
    BY FS_CardinalityType
  <1> QED
    BY <1>4, <1>5

(* The greatest number of a finite set.                                        *)
LEMMA FiniteGreatest ==
    ASSUME NEW S \in SUBSET Int, S # {}, IsFiniteSet(S)
    PROVE  Max(S) \in S /\ \A x \in S : x <= Max(S)
  BY FiniteBounded, IntGreatest

LEMMA NatMin ==
    ASSUME NEW S \in SUBSET Nat, S # {}
    PROVE  Min(S) \in S /\ \A k \in S : Min(S) <= k
  <1>1. \E m \in S : \A k \in S : m <= k
    BY NatLeast
  <1> QED
    BY <1>1 DEF Min

(* What a recursive function on the naturals is given by: a step, repeated     *)
(* from a first value, determines a value for every number of steps.           *)
IterUpTo(X, step, x, n) ==
    {g \in [0 .. n -> X] : g[0] = x /\ \A k \in 0 .. n - 1 : g[k + 1] = step[g[k]]}

LEMMA IterAgree ==
    ASSUME NEW X, NEW step \in [X -> X], NEW x \in X, NEW m \in Nat, NEW n \in Nat,
           NEW g \in IterUpTo(X, step, x, m), NEW h \in IterUpTo(X, step, x, n),
           NEW j \in Nat, j <= m, j <= n
    PROVE  g[j] = h[j]
  <1> DEFINE N == {k \in Nat : (k <= m /\ k <= n) => g[k] = h[k]}
  <1>1. 0 \in N
    BY DEF IterUpTo
  <1>2. ASSUME NEW k \in N PROVE k + 1 \in N
    <2>0. k \in Nat /\ k + 1 \in Nat
      OBVIOUS
    <2>1. SUFFICES ASSUME k + 1 <= m, k + 1 <= n PROVE g[k + 1] = h[k + 1]
      BY <2>0
    <2>2. k \in 0 .. m - 1 /\ k \in 0 .. n - 1
      BY <2>0, <2>1
    <2>3. g[k + 1] = step[g[k]] /\ h[k + 1] = step[h[k]]
      BY <2>2 DEF IterUpTo
    <2>4. g[k] = h[k]
      BY <2>0, <2>1
    <2> QED
      BY <2>3, <2>4
  <1>3. N \in SUBSET Nat
    OBVIOUS
  <1> HIDE DEF N
  <1>4. N = Nat
    BY <1>1, <1>2, <1>3, NatAll
  <1> QED
    BY <1>4 DEF N

LEMMA IterExists ==
    ASSUME NEW X, NEW step \in [X -> X], NEW x \in X, NEW n \in Nat
    PROVE  IterUpTo(X, step, x, n) # {}
  <1> DEFINE N == {k \in Nat : IterUpTo(X, step, x, k) # {}}
  <1>1. 0 \in N
    <2>1. [i \in 0 .. 0 |-> x] \in IterUpTo(X, step, x, 0)
      BY DEF IterUpTo
    <2> QED
      BY <2>1
  <1>2. ASSUME NEW k \in N PROVE k + 1 \in N
    <2>0. k \in Nat /\ (k + 1) - 1 = k
      OBVIOUS
    <2>1. PICK g \in IterUpTo(X, step, x, k) : TRUE
      OBVIOUS
    <2>2. g \in [0 .. k -> X] /\ g[0] = x /\ \A i \in 0 .. k - 1 : g[i + 1] = step[g[i]]
      BY <2>1 DEF IterUpTo
    <2>3. PICK h : h = [i \in 0 .. k + 1 |-> IF i = k + 1 THEN step[g[k]] ELSE g[i]]
      OBVIOUS
    <2>4. h \in [0 .. k + 1 -> X] /\ h[0] = x
      BY <2>0, <2>2, <2>3
    <2>5. ASSUME NEW i \in 0 .. k PROVE h[i + 1] = step[h[i]]
      <3>1. CASE i = k
        BY <2>0, <2>3, <3>1
      <3>2. CASE i # k
        BY <2>0, <2>2, <2>3, <3>2
      <3> QED
        BY <3>1, <3>2
    <2>6. h \in IterUpTo(X, step, x, k + 1)
      BY <2>0, <2>4, <2>5 DEF IterUpTo
    <2> QED
      BY <2>0, <2>6
  <1>3. N \in SUBSET Nat
    OBVIOUS
  <1> HIDE DEF N
  <1>4. N = Nat
    BY <1>1, <1>2, <1>3, NatAll
  <1> QED
    BY <1>4 DEF N

Iterates(f, X, step, x) ==
    f \in [Nat -> X] /\ f[0] = x /\ \A n \in Nat : f[n + 1] = step[f[n]]

LEMMA NatIterates ==
    ASSUME NEW X, NEW step \in [X -> X], NEW x \in X
    PROVE  \E f : Iterates(f, X, step, x)
  <1> DEFINE G(n) == CHOOSE g : g \in IterUpTo(X, step, x, n)
  <1>1. \A n \in Nat : G(n) \in IterUpTo(X, step, x, n)
    BY IterExists
  <1> HIDE DEF G
  <1>2. PICK f : f = [n \in Nat |-> G(n)[n]]
    OBVIOUS
  <1>3. \A n \in Nat : G(n)[n] \in X
    BY <1>1 DEF IterUpTo
  <1>4. f[0] = x
    BY <1>1, <1>2 DEF IterUpTo
  <1>5. ASSUME NEW n \in Nat PROVE f[n + 1] = step[f[n]]
    <2>1. G(n + 1) \in IterUpTo(X, step, x, n + 1) /\ G(n) \in IterUpTo(X, step, x, n)
      BY <1>1
    <2>2. G(n + 1)[n + 1] = step[G(n + 1)[n]]
      BY <2>1 DEF IterUpTo
    <2>3. n + 1 \in Nat /\ n <= n + 1 /\ n <= n
      OBVIOUS
    <2>4. G(n + 1)[n] = G(n)[n]
      BY <2>1, <2>3, IterAgree
    <2> QED
      BY <1>2, <2>2, <2>4
  <1> QED
    BY <1>2, <1>3, <1>4, <1>5 DEF Iterates

(* What a function returns over a finite set is no more than the set.          *)
LEMMA FiniteImage ==
    ASSUME NEW S, IsFiniteSet(S), NEW f, DOMAIN f = S, f = [x \in S |-> f[x]]
    PROVE  /\ IsFiniteSet({f[x] : x \in S})
           /\ Cardinality({f[x] : x \in S}) <= Cardinality(S)
  <1>1. PICK T : T = {f[x] : x \in S}
    OBVIOUS
  <1>2. f \in [S -> T] /\ \A t \in T : \E x \in S : f[x] = t
    BY <1>1
  <1>3. f \in Surjection(S, T)
    BY <1>2 DEF Surjection
  <1> QED
    BY <1>1, <1>3, FS_Surjection

-----------------------------------------------------------------------------
(* Folds.  The recursive function a fold over a finite set is defined by: pick *)
(* names the element of a set that is taken next, step what is made of it and  *)
(* of the value for the others.                                                *)
FoldValue(pick, step, base, it, s) ==
    IF s = {} THEN base ELSE step[<<pick[s], it[s \ {pick[s]}]>>]
FoldParts(S, Y, pick, step, base) ==
    /\ IsFiniteSet(S) /\ base \in Y /\ step \in [S \X Y -> Y]
    /\ \A s \in SUBSET S : s # {} => pick[s] \in s
FoldIs(S, pick, step, base, it) ==
    it = [s \in SUBSET S |-> FoldValue(pick, step, base, it, s)]

LEMMA FoldExists ==
    ASSUME NEW S, NEW Y, NEW pick, NEW step, NEW base, FoldParts(S, Y, pick, step, base)
    PROVE  \E it \in [SUBSET S -> Y] : FoldIs(S, pick, step, base, it)
  <1> DEFINE Small(n) == {s \in SUBSET S : Cardinality(s) <= n}
             N == {n \in Nat : \E it \in [Small(n) -> Y] :
                                  \A s \in Small(n) : it[s] = FoldValue(pick, step, base, it, s)}
  <1>0. /\ \A s \in SUBSET S : IsFiniteSet(s) /\ Cardinality(s) \in Nat
        /\ \A s \in SUBSET S : s # {} => s \ {pick[s]} \in SUBSET S /\ pick[s] \in S
                                          /\ Cardinality(s \ {pick[s]}) = Cardinality(s) - 1
        /\ base \in Y /\ step \in [S \X Y -> Y]
    <2>1. \A s \in SUBSET S : IsFiniteSet(s) /\ Cardinality(s) \in Nat
      BY FS_Subset, FS_CardinalityType DEF FoldParts
    <2>2. ASSUME NEW s \in SUBSET S, s # {}
          PROVE  pick[s] \in s /\ Cardinality(s \ {pick[s]}) = Cardinality(s) - 1
      <3>1. pick[s] \in s /\ IsFiniteSet(s)
        BY <2>1, <2>2 DEF FoldParts
      <3> QED
        BY <3>1, FS_RemoveElement
    <2> QED
      BY <2>1, <2>2 DEF FoldParts
  <1>1. 0 \in N
    <2>1. \A s \in Small(0) : s = {}
      <3>1. ASSUME NEW s \in Small(0), s # {} PROVE FALSE
        <4>1. s \in SUBSET S /\ Cardinality(s) <= 0
          OBVIOUS
        <4>2. Cardinality(s) \in Nat /\ Cardinality(s) - 1 \in Nat
          BY <1>0, <3>1, <4>1
        <4> QED
          BY <4>1, <4>2
      <3> QED
        BY <3>1
    <2>2. [s \in Small(0) |-> base] \in [Small(0) -> Y]
      BY <1>0
    <2>3. \A s \in Small(0) : [t \in Small(0) |-> base][s]
                = FoldValue(pick, step, base, [t \in Small(0) |-> base], s)
      BY <2>1 DEF FoldValue
    <2> QED
      BY <2>2, <2>3
  <1>2. ASSUME NEW n \in N PROVE n + 1 \in N
    <2>0. n \in Nat /\ n + 1 \in Nat
      OBVIOUS
    <2>1. PICK old \in [Small(n) -> Y] :
              \A s \in Small(n) : old[s] = FoldValue(pick, step, base, old, s)
      OBVIOUS
    <2>2. PICK it : it = [s \in Small(n + 1) |-> FoldValue(pick, step, base, old, s)]
      OBVIOUS
    <2>3. ASSUME NEW s \in Small(n + 1), s # {}
          PROVE  s \ {pick[s]} \in Small(n) /\ pick[s] \in S
      <3>1. s \in SUBSET S /\ Cardinality(s) <= n + 1 /\ Cardinality(s) \in Nat
        BY <1>0
      <3>2. s \ {pick[s]} \in SUBSET S /\ Cardinality(s \ {pick[s]}) = Cardinality(s) - 1
            /\ pick[s] \in S
        BY <1>0, <2>3, <3>1
      <3> QED
        BY <2>0, <3>1, <3>2
    <2>4. ASSUME NEW s \in Small(n + 1) PROVE it[s] \in Y
      <3>1. CASE s = {}
        BY <1>0, <2>2, <3>1 DEF FoldValue
      <3>2. CASE s # {}
        <4>1. old[s \ {pick[s]}] \in Y /\ pick[s] \in S
          BY <2>3, <3>2
        <4>2. it[s] = step[<<pick[s], old[s \ {pick[s]}]>>]
          BY <2>2, <3>2 DEF FoldValue
        <4> QED
          BY <1>0, <4>1, <4>2
      <3> QED
        BY <3>1, <3>2
    <2>5. ASSUME NEW s \in Small(n) PROVE s \in Small(n + 1) /\ it[s] = old[s]
      <3>1. s \in SUBSET S /\ Cardinality(s) <= n /\ Cardinality(s) \in Nat
        BY <1>0
      <3>2. s \in Small(n + 1)
        BY <2>0, <3>1
      <3> QED
        BY <2>1, <2>2, <3>2
    <2>6. ASSUME NEW s \in Small(n + 1) PROVE it[s] = FoldValue(pick, step, base, it, s)
      <3>1. CASE s = {}
        BY <2>2, <3>1 DEF FoldValue
      <3>2. CASE s # {}
        <4>1. it[s \ {pick[s]}] = old[s \ {pick[s]}]
          BY <2>3, <2>5, <3>2
        <4> QED
          BY <2>2, <3>2, <4>1 DEF FoldValue
      <3> QED
        BY <3>1, <3>2
    <2>7. it \in [Small(n + 1) -> Y]
      BY <2>2, <2>4
    <2> HIDE DEF Small
    <2> QED
      BY <2>0, <2>6, <2>7
  <1>3. N \in SUBSET Nat
    OBVIOUS
  <1>4. N = Nat
    <2> HIDE DEF N
    <2> QED
      BY <1>1, <1>2, <1>3, NatAll
  <1>5. Cardinality(S) \in Nat /\ Cardinality(S) \in N
    BY <1>0, <1>4
  <1>6. PICK it \in [Small(Cardinality(S)) -> Y] :
            \A s \in Small(Cardinality(S)) : it[s] = FoldValue(pick, step, base, it, s)
    BY <1>5
  <1>7. Small(Cardinality(S)) = SUBSET S
    <2>1. ASSUME NEW s \in SUBSET S PROVE Cardinality(s) <= Cardinality(S)
      BY FS_Subset DEF FoldParts
    <2> QED
      BY <2>1
  <1> HIDE DEF Small, N
  <1>8. it \in [SUBSET S -> Y] /\ \A s \in SUBSET S : it[s] = FoldValue(pick, step, base, it, s)
    BY <1>6, <1>7
  <1> QED
    BY <1>8 DEF FoldIs

(* Two functions on the subsets of a finite set that agree on a set when they  *)
(* agree on what is left of it agree on all.                                   *)
FoldsAlike(S, pick, f, g) ==
    /\ IsFiniteSet(S) /\ (\A s \in SUBSET S : s # {} => pick[s] \in s)
    /\ f[{}] = g[{}]
    /\ \A s \in SUBSET S : (s # {} /\ f[s \ {pick[s]}] = g[s \ {pick[s]}]) => f[s] = g[s]

LEMMA FoldAgree ==
    ASSUME NEW S, NEW pick, NEW f, NEW g, FoldsAlike(S, pick, f, g)
    PROVE  \A s \in SUBSET S : f[s] = g[s]
  <1> DEFINE N == {n \in Nat : \A s \in SUBSET S : Cardinality(s) = n => f[s] = g[s]}
  <1>0. /\ \A s \in SUBSET S : IsFiniteSet(s) /\ Cardinality(s) \in Nat
        /\ \A s \in SUBSET S : s # {} => s \ {pick[s]} \in SUBSET S
                                          /\ Cardinality(s \ {pick[s]}) = Cardinality(s) - 1
    <2>1. \A s \in SUBSET S : IsFiniteSet(s) /\ Cardinality(s) \in Nat
      BY FS_Subset, FS_CardinalityType DEF FoldsAlike
    <2>2. ASSUME NEW s \in SUBSET S, s # {}
          PROVE  Cardinality(s \ {pick[s]}) = Cardinality(s) - 1
      <3>1. pick[s] \in s /\ IsFiniteSet(s)
        BY <2>1, <2>2 DEF FoldsAlike
      <3> QED
        BY <3>1, FS_RemoveElement
    <2> QED
      BY <2>1, <2>2
  <1>1. 0 \in N
    <2>1. ASSUME NEW s \in SUBSET S, Cardinality(s) = 0 PROVE f[s] = g[s]
      <3>1. s = {}
        <4>1. s # {} => Cardinality(s) - 1 \in Nat
          <5>1. SUFFICES ASSUME s # {} PROVE Cardinality(s) - 1 \in Nat
            OBVIOUS
          <5>2. s \ {pick[s]} \in SUBSET S /\ Cardinality(s \ {pick[s]}) = Cardinality(s) - 1
            BY <1>0, <5>1
          <5> QED
            BY <1>0, <5>2
        <4> QED
          BY <2>1, <4>1
      <3> QED
        BY <3>1 DEF FoldsAlike
    <2> QED
      BY <2>1
  <1>2. ASSUME NEW n \in N PROVE n + 1 \in N
    <2>0. n \in Nat /\ n + 1 \in Nat /\ (n + 1) - 1 = n /\ n + 1 # 0
      OBVIOUS
    <2>1. ASSUME NEW s \in SUBSET S, Cardinality(s) = n + 1 PROVE f[s] = g[s]
      <3>1. s # {}
        BY <2>0, <2>1, FS_EmptySet
      <3>2. s \ {pick[s]} \in SUBSET S /\ Cardinality(s \ {pick[s]}) = n
        BY <1>0, <2>0, <2>1, <3>1
      <3>3. f[s \ {pick[s]}] = g[s \ {pick[s]}]
        BY <3>2
      <3> QED
        BY <2>1, <3>1, <3>3 DEF FoldsAlike
    <2> QED
      BY <2>0, <2>1
  <1>3. N \in SUBSET Nat
    OBVIOUS
  <1>4. N = Nat
    <2> HIDE DEF N
    <2> QED
      BY <1>1, <1>2, <1>3, NatAll
  <1> QED
    BY <1>0, <1>4

-----------------------------------------------------------------------------
(* Sums.  The total of the parts of a finite set, taken in any order.          *)
Total(f) == FoldFunction(+, 0, f)
Sums(D, f, sum) ==
    /\ sum \in [SUBSET D -> Int] /\ sum[{}] = 0
    /\ \A s \in SUBSET D : \A x \in s : sum[s] = f[x] + sum[s \ {x}]

(* A sum taken in one order is that taken in any.                              *)
LEMMA SumOrder ==
    ASSUME NEW D, IsFiniteSet(D), NEW f \in [D -> Int], NEW sum \in [SUBSET D -> Int],
           sum[{}] = 0, NEW pick, \A s \in SUBSET D : s # {} => pick[s] \in s,
           \A s \in SUBSET D : s # {} => sum[s] = f[pick[s]] + sum[s \ {pick[s]}]
    PROVE  Sums(D, f, sum)
  <1> DEFINE N == {n \in Nat : \A s \in SUBSET D : Cardinality(s) = n =>
                                  \A x \in s : sum[s] = f[x] + sum[s \ {x}]}
  <1>0. /\ \A s \in SUBSET D : IsFiniteSet(s) /\ Cardinality(s) \in Nat
        /\ \A s \in SUBSET D : \A x \in s : s \ {x} \in SUBSET D
                                             /\ Cardinality(s \ {x}) = Cardinality(s) - 1
    BY FS_Subset, FS_CardinalityType, FS_RemoveElement
  <1>1. 0 \in N
    <2>1. ASSUME NEW s \in SUBSET D, Cardinality(s) = 0, NEW x \in s PROVE FALSE
      <3>1. Cardinality(s \ {x}) = Cardinality(s) - 1 /\ Cardinality(s \ {x}) \in Nat
        BY <1>0
      <3> QED
        BY <2>1, <3>1
    <2> QED
      BY <2>1
  <1>2. ASSUME NEW n \in N PROVE n + 1 \in N
    <2>0. n \in Nat /\ n + 1 \in Nat /\ (n + 1) - 1 = n
      OBVIOUS
    <2>1. ASSUME NEW s \in SUBSET D, Cardinality(s) = n + 1, NEW x \in s
          PROVE  sum[s] = f[x] + sum[s \ {x}]
      <3>1. PICK c : c = pick[s]
        OBVIOUS
      <3>2. c \in s /\ sum[s] = f[c] + sum[s \ {c}]
        BY <2>1, <3>1
      <3>3. CASE c = x
        BY <3>2, <3>3
      <3>4. CASE c # x
        <4>1. /\ s \ {c} \in SUBSET D /\ Cardinality(s \ {c}) = n /\ x \in s \ {c}
              /\ s \ {x} \in SUBSET D /\ Cardinality(s \ {x}) = n /\ c \in s \ {x}
          <5>1. x \in s \ {c} /\ c \in s \ {x}
            BY <2>1, <3>2, <3>4
          <5>2. /\ s \ {c} \in SUBSET D /\ Cardinality(s \ {c}) = Cardinality(s) - 1
                /\ s \ {x} \in SUBSET D /\ Cardinality(s \ {x}) = Cardinality(s) - 1
            BY <1>0, <2>1, <3>2
          <5> QED
            BY <2>0, <2>1, <5>1, <5>2
        <4>2. sum[s \ {c}] = f[x] + sum[(s \ {c}) \ {x}]
          BY <4>1
        <4>3. sum[s \ {x}] = f[c] + sum[(s \ {x}) \ {c}]
          BY <4>1
        <4>4. (s \ {c}) \ {x} = (s \ {x}) \ {c}
          OBVIOUS
        <4>5. f[x] \in Int /\ f[c] \in Int /\ sum[(s \ {x}) \ {c}] \in Int
          BY <2>1, <3>2
        <4>6. PICK t : t = sum[(s \ {x}) \ {c}]
          OBVIOUS
        <4>7. t \in Int /\ f[x] \in Int /\ f[c] \in Int /\ sum[s] = f[c] + (f[x] + t)
              /\ sum[s \ {x}] = f[c] + t
          BY <3>2, <4>2, <4>3, <4>4, <4>5, <4>6
        <4> HIDE DEF N
        <4> QED
          BY <4>7
      <3> QED
        BY <3>3, <3>4
    <2> QED
      BY <2>0, <2>1
  <1>3. N \in SUBSET Nat
    OBVIOUS
  <1>4. N = Nat
    <2> HIDE DEF N
    <2> QED
      BY <1>1, <1>2, <1>3, NatAll
  <1>5. ASSUME NEW s \in SUBSET D, NEW x \in s PROVE sum[s] = f[x] + sum[s \ {x}]
    <2>1. Cardinality(s) \in N
      BY <1>0, <1>4
    <2> QED
      BY <2>1
  <1> QED
    BY <1>5 DEF Sums

LEMMA TotalSums ==
    ASSUME NEW D, IsFiniteSet(D), NEW f \in [D -> Int]
    PROVE  \E sum : Sums(D, f, sum) /\ Total(f) = sum[D]
  <1>1. PICK pick : pick = [s \in SUBSET D |-> CHOOSE x \in s : TRUE]
    OBVIOUS
  <1>2. PICK step : step = [p \in D \X Int |-> f[p[1]] + p[2]]
    OBVIOUS
  <1>3. FoldParts(D, Int, pick, step, 0)
    BY <1>1, <1>2 DEF FoldParts
  <1>4. PICK it \in [SUBSET D -> Int] : FoldIs(D, pick, step, 0, it)
    BY <1>3, FoldExists
  <1>6. it[{}] = 0 /\ \A s \in SUBSET D : s # {} => it[s] = f[pick[s]] + it[s \ {pick[s]}]
    <2>1. ASSUME NEW s \in SUBSET D PROVE it[s] = FoldValue(pick, step, 0, it, s)
      BY <1>4 DEF FoldIs
    <2>2. ASSUME NEW s \in SUBSET D, s # {} PROVE it[s] = f[pick[s]] + it[s \ {pick[s]}]
      <3>1. pick[s] \in D /\ it[s \ {pick[s]}] \in Int
        BY <1>3, <2>2 DEF FoldParts
      <3> QED
        BY <1>2, <2>1, <2>2, <3>1 DEF FoldValue
    <2>3. it[{}] = 0
      BY <2>1 DEF FoldValue
    <2> QED
      BY <2>2, <2>3
  <1>7. Sums(D, f, it)
    BY <1>3, <1>6, SumOrder DEF FoldParts
  <1>8. Total(f) = it[D]
    <2> DEFINE Body(g) == [s \in SUBSET D |->
                              IF s = {} THEN 0
                              ELSE f[CHOOSE x \in s : TRUE] + g[s \ {CHOOSE x \in s : TRUE}]]
               sum == CHOOSE g : g = Body(g)
    <2>1. it = Body(it)
      <3>1. \A s \in SUBSET D :
               it[s] = IF s = {} THEN 0 ELSE f[CHOOSE x \in s : TRUE] + it[s \ {CHOOSE x \in s : TRUE}]
        BY <1>1, <1>6
      <3> QED
        BY <3>1
    <2>2. sum = Body(sum)
      <3>1. \E g : g = Body(g)
        BY <2>1
      <3> HIDE DEF Body
      <3> QED
        BY <3>1
    <2>3. \A s \in SUBSET D : sum[s] = IF s = {} THEN 0 ELSE f[pick[s]] + sum[s \ {pick[s]}]
      <3> HIDE DEF sum
      <3> QED
        BY <1>1, <2>2
    <2>4. Total(f) = sum[D]
      BY DEF Total, FoldFunction, FoldFunctionOnSet, MapThenFoldSet
    <2>5. \A s \in SUBSET D : s # {} => pick[s] \in s
      BY <1>3 DEF FoldParts
    <2> HIDE DEF sum, Body
    <2>6. \A s \in SUBSET D : sum[s] = it[s]
      <3>1. sum[{}] = it[{}]
        BY <1>6, <2>3
      <3>2. \A s \in SUBSET D :
               (s # {} /\ sum[s \ {pick[s]}] = it[s \ {pick[s]}]) => sum[s] = it[s]
        BY <1>6, <2>3
      <3>3. FoldsAlike(D, pick, sum, it)
        BY <2>5, <3>1, <3>2 DEF FoldsAlike
      <3> QED
        BY <3>3, FoldAgree
    <2> QED
      BY <2>4, <2>6
  <1> QED
    BY <1>7, <1>8

(* What a fold that adds up computes is a sum.                                 *)
FoldsSum(D, f, g) ==
    g = [s \in SUBSET D |-> IF s = {} THEN 0
                            ELSE f[CHOOSE x \in s : TRUE] + g[s \ {CHOOSE x \in s : TRUE}]]

LEMMA TotalFolds ==
    ASSUME NEW D, IsFiniteSet(D), NEW f \in [D -> Int]
    PROVE  /\ \E g : FoldsSum(D, f, g)
           /\ \A g : FoldsSum(D, f, g) => g[D] = Total(f)
  <1>1. PICK sum : Sums(D, f, sum) /\ Total(f) = sum[D]
    BY TotalSums
  <1>2. PICK pick : pick = [s \in SUBSET D |-> CHOOSE x \in s : TRUE]
    OBVIOUS
  <1>3. \A s \in SUBSET D : s # {} => pick[s] \in s
    BY <1>2
  <1>4. \A s \in SUBSET D : sum[s] = IF s = {} THEN 0 ELSE f[pick[s]] + sum[s \ {pick[s]}]
    BY <1>1, <1>3 DEF Sums
  <1>5. FoldsSum(D, f, sum)
    <2>1. \A s \in SUBSET D : sum[s] = IF s = {} THEN 0
                            ELSE f[CHOOSE x \in s : TRUE] + sum[s \ {CHOOSE x \in s : TRUE}]
      BY <1>2, <1>4
    <2>2. sum \in [SUBSET D -> Int]
      BY <1>1 DEF Sums
    <2> QED
      BY <2>1, <2>2 DEF FoldsSum
  <1>6. ASSUME NEW g, FoldsSum(D, f, g) PROVE g[D] = Total(f)
    <2>1. \A s \in SUBSET D : g[s] = IF s = {} THEN 0 ELSE f[pick[s]] + g[s \ {pick[s]}]
      BY <1>2, <1>6 DEF FoldsSum
    <2>2. g[{}] = sum[{}]
      BY <1>4, <2>1
    <2>3. \A s \in SUBSET D : (s # {} /\ g[s \ {pick[s]}] = sum[s \ {pick[s]}]) => g[s] = sum[s]
      BY <1>4, <2>1
    <2>4. \A s \in SUBSET D : g[s] = sum[s]
      <3>1. FoldsAlike(D, pick, g, sum)
        BY <1>3, <2>2, <2>3 DEF FoldsAlike
      <3> QED
        BY <3>1, FoldAgree
    <2> QED
      BY <1>1, <2>4
  <1> QED
    BY <1>5, <1>6

(* The sum over a part depends on the part only.                               *)
LEMMA SumsAgree ==
    ASSUME NEW D, NEW f, NEW sum, Sums(D, f, sum), NEW E, IsFiniteSet(E), E \subseteq D,
           NEW g, \A x \in E : g[x] = f[x], NEW part, Sums(E, g, part)
    PROVE  part[E] = sum[E]
  <1>1. PICK pick : pick = [s \in SUBSET E |-> CHOOSE x \in s : TRUE]
    OBVIOUS
  <1>2. \A s \in SUBSET E : s # {} => pick[s] \in s
    BY <1>1
  <1>3. part[{}] = sum[{}]
    BY DEF Sums
  <1>4. ASSUME NEW s \in SUBSET E, s # {}, part[s \ {pick[s]}] = sum[s \ {pick[s]}]
        PROVE  part[s] = sum[s]
    <2>1. pick[s] \in s /\ pick[s] \in E /\ s \in SUBSET D
      BY <1>2, <1>4
    <2>2. part[s] = g[pick[s]] + part[s \ {pick[s]}] /\ sum[s] = f[pick[s]] + sum[s \ {pick[s]}]
      BY <2>1 DEF Sums
    <2> QED
      BY <1>4, <2>1, <2>2
  <1>5. \A s \in SUBSET E : part[s] = sum[s]
    <2>1. FoldsAlike(E, pick, part, sum)
      BY <1>2, <1>3, <1>4 DEF FoldsAlike
    <2> QED
      BY <2>1, FoldAgree
  <1> QED
    BY <1>5

LEMMA TotalInt ==
    ASSUME NEW D, IsFiniteSet(D), NEW f \in [D -> Int]
    PROVE  Total(f) \in Int /\ (D = {} => Total(f) = 0)
  <1>1. PICK sum : Sums(D, f, sum) /\ Total(f) = sum[D]
    BY TotalSums
  <1> QED
    BY <1>1 DEF Sums

(* One part and the others.                                                    *)
LEMMA TotalSplit ==
    ASSUME NEW D, IsFiniteSet(D), NEW f \in [D -> Int], NEW k \in D
    PROVE  Total(f) = f[k] + Total([x \in D \ {k} |-> f[x]])
  <1>1. PICK sum : Sums(D, f, sum) /\ Total(f) = sum[D]
    BY TotalSums
  <1>2. PICK E : E = D \ {k}
    OBVIOUS
  <1>3. PICK g : g = [x \in E |-> f[x]]
    OBVIOUS
  <1>4. IsFiniteSet(E) /\ E \subseteq D
    BY <1>2, FS_Subset
  <1>5. g \in [E -> Int] /\ \A x \in E : g[x] = f[x]
    BY <1>3, <1>4
  <1>6. PICK part : Sums(E, g, part) /\ Total(g) = part[E]
    BY <1>4, <1>5, TotalSums
  <1>7. part[E] = sum[E]
    BY <1>1, <1>4, <1>5, <1>6, SumsAgree
  <1>8. sum[D] = f[k] + sum[E]
    BY <1>1, <1>2 DEF Sums
  <1> QED
    BY <1>1, <1>2, <1>3, <1>6, <1>7, <1>8

(* A part is put in, or in the place of a former one.                          *)
LEMMA TotalPut ==
    ASSUME NEW D, IsFiniteSet(D), NEW f \in [D -> Int], NEW k, NEW v \in Int, NEW g,
           g = [x \in D \cup {k} |-> IF x = k THEN v ELSE f[x]]
    PROVE  /\ IsFiniteSet(D \cup {k}) /\ g \in [D \cup {k} -> Int]
           /\ Total(g) = Total(f) - (IF k \in D THEN f[k] ELSE 0) + v
  <1>1. IsFiniteSet(D \cup {k}) /\ g \in [D \cup {k} -> Int] /\ g[k] = v
    BY FS_AddElement
  <1>2. PICK h : h = [x \in D \ {k} |-> f[x]]
    OBVIOUS
  <1>3. [x \in (D \cup {k}) \ {k} |-> g[x]] = h
    BY <1>2
  <1>4. Total(g) = v + Total(h)
    BY <1>1, <1>3, TotalSplit
  <1>5. IsFiniteSet(D \ {k}) /\ h \in [D \ {k} -> Int]
    BY <1>2, FS_Subset
  <1>6. Total(h) \in Int
    BY <1>5, TotalInt
  <1>7. CASE k \in D
    <2>1. Total(f) = f[k] + Total(h) /\ f[k] \in Int
      BY <1>2, <1>7, TotalSplit
    <2> QED
      BY <1>1, <1>4, <1>6, <1>7, <2>1
  <1>8. CASE k \notin D
    <2>1. h = f
      BY <1>2, <1>8
    <2> QED
      BY <1>1, <1>4, <1>6, <1>8, <2>1
  <1> QED
    BY <1>7, <1>8

(* Disjoint sets hold together what each of them holds.                        *)
LEMMA TotalParts ==
    ASSUME NEW F, IsFiniteSet(F), NEW r, \A x \in F : IsFiniteSet(r[x]),
           \A x, y \in F : x # y => r[x] \cap r[y] = {}
    PROVE  /\ IsFiniteSet(UNION {r[x] : x \in F})
           /\ Total([x \in F |-> Cardinality(r[x])]) = Cardinality(UNION {r[x] : x \in F})
  <1> DEFINE part(s) == [x \in s |-> Cardinality(r[x])]
             all(s) == UNION {r[x] : x \in s}
  <1>1. PICK pick : pick = [s \in SUBSET F |-> CHOOSE x \in s : TRUE]
    OBVIOUS
  <1>2. \A s \in SUBSET F : s # {} => pick[s] \in s
    BY <1>1
  <1>3. PICK f : f = [s \in SUBSET F |-> <<TRUE, Total(part(s))>>]
    OBVIOUS
  <1>4. PICK g : g = [s \in SUBSET F |-> <<IsFiniteSet(all(s)), Cardinality(all(s))>>]
    OBVIOUS
  <1>5. \A s \in SUBSET F : IsFiniteSet(s) /\ part(s) \in [s -> Int]
    <2>1. \A x \in F : Cardinality(r[x]) \in Int
      BY FS_CardinalityType
    <2>2. \A s \in SUBSET F : IsFiniteSet(s)
      BY FS_Subset
    <2> QED
      BY <2>1, <2>2
  <1>6. f[{}] = g[{}]
    <2>1. Total(part({})) = 0
      BY <1>5, TotalInt
    <2>2. all({}) = {} /\ IsFiniteSet({}) /\ Cardinality({}) = 0
      BY FS_EmptySet
    <2> HIDE DEF part, all
    <2> QED
      BY <1>3, <1>4, <2>1, <2>2
  <1>7. ASSUME NEW s \in SUBSET F, s # {}, f[s \ {pick[s]}] = g[s \ {pick[s]}]
        PROVE  f[s] = g[s]
    <2>1. PICK k : k = pick[s]
      OBVIOUS
    <2>2. PICK rest : rest = s \ {k}
      OBVIOUS
    <2>3. k \in s /\ k \in F /\ rest \in SUBSET F /\ k \notin rest
      BY <1>2, <1>7, <2>1, <2>2
    <2>4. IsFiniteSet(all(rest)) /\ Cardinality(all(rest)) = Total(part(rest))
      <3>1. f[rest] = g[rest]
        BY <1>7, <2>1, <2>2
      <3> HIDE DEF part, all
      <3> QED
        BY <1>3, <1>4, <2>3, <3>1
    <2>5. Total(part(s)) = Cardinality(r[k]) + Total(part(rest))
      <3>1. part(s)[k] = Cardinality(r[k]) /\ [x \in s \ {k} |-> part(s)[x]] = part(rest)
        BY <2>2, <2>3
      <3>2. IsFiniteSet(s) /\ part(s) \in [s -> Int]
        BY <1>5
      <3>3. PICK h : h = part(s)
        OBVIOUS
      <3> HIDE DEF part
      <3>4. Total(h) = h[k] + Total([x \in s \ {k} |-> h[x]])
        BY <2>3, <3>2, <3>3, TotalSplit
      <3> QED
        BY <3>1, <3>3, <3>4
    <2>6. all(s) = r[k] \cup all(rest) /\ r[k] \cap all(rest) = {}
      BY <2>2, <2>3
    <2>7. IsFiniteSet(r[k])
      BY <2>3
    <2> HIDE DEF part, all
    <2>8. IsFiniteSet(all(s))
      <3>1. IsFiniteSet(r[k] \cup all(rest))
        BY <2>4, <2>7, FS_Union
      <3> QED
        BY <2>6, <3>1
    <2>9. Cardinality(all(s)) = Cardinality(r[k]) + Cardinality(all(rest))
      <3>1. Cardinality(r[k] \cup all(rest))
              = Cardinality(r[k]) + Cardinality(all(rest)) - Cardinality(r[k] \cap all(rest))
        BY <2>4, <2>7, FS_Union
      <3>2. Cardinality(r[k] \cap all(rest)) = 0
        BY <2>6, FS_EmptySet
      <3>3. Cardinality(r[k]) \in Nat /\ Cardinality(all(rest)) \in Nat
        BY <2>4, <2>7, FS_CardinalityType
      <3> QED
        BY <2>6, <3>1, <3>2, <3>3
    <2> QED
      BY <1>3, <1>4, <2>4, <2>5, <2>8, <2>9
  <1> HIDE DEF part, all
  <1>8. f[F] = g[F]
    <2>1. \A s \in SUBSET F : (s # {} /\ f[s \ {pick[s]}] = g[s \ {pick[s]}]) => f[s] = g[s]
      BY <1>7
    <2>2. FoldsAlike(F, pick, f, g)
      BY <1>2, <1>6, <2>1 DEF FoldsAlike
    <2> QED
      BY <2>2, FoldAgree
  <1>9. IsFiniteSet(all(F)) /\ Cardinality(all(F)) = Total(part(F))
    BY <1>3, <1>4, <1>8
  <1> QED
    BY <1>9 DEF part, all

-----------------------------------------------------------------------------
(* Folds over sequences: a value for every number of elements taken.           *)
LastOf(seq, s) == seq[Max(s)]
FoldsLeft(Y, seq, step, base, g) ==
    /\ g[{}] = base
    /\ \A s \in SUBSET (1 .. Len(seq)) :
          (s # {} /\ g[s \ {Max(s)}] \in Y) => g[s] = step[<<g[s \ {Max(s)}], LastOf(seq, s)>>]
Runs(Y, seq, step, base, acc) ==
    /\ acc \in [0 .. Len(seq) -> Y] /\ acc[0] = base
    /\ \A k \in 1 .. Len(seq) : acc[k] = step[<<acc[k - 1], seq[k]>>]
(* g is what some run ends with.                                               *)
Ends(Y, seq, step, base, g) ==
    \E acc : Runs(Y, seq, step, base, acc) /\ acc[Len(seq)] = g[1 .. Len(seq)]

LEMMA PrefixSet ==
    ASSUME NEW n \in Nat
    PROVE  /\ \A s \in SUBSET (1 .. n) : s # {} => Max(s) \in s
           /\ \A k \in 1 .. n : Max(1 .. k) = k /\ (1 .. k) \ {k} = 1 .. k - 1
           /\ IsFiniteSet(1 .. n)
  <1>1. IsFiniteSet(1 .. n)
    BY FS_Interval
  <1>2. ASSUME NEW s \in SUBSET (1 .. n), s # {} PROVE Max(s) \in s /\ \A x \in s : x <= Max(s)
    <2>1. s \in SUBSET Int /\ \A x \in s : x <= n
      OBVIOUS
    <2> QED
      BY <1>2, <2>1, IntGreatest
  <1>3. ASSUME NEW k \in 1 .. n PROVE Max(1 .. k) = k
    <2>1. 1 .. k \in SUBSET (1 .. n) /\ 1 .. k # {} /\ k \in 1 .. k
      OBVIOUS
    <2>2. Max(1 .. k) \in 1 .. k /\ k <= Max(1 .. k)
      BY <1>2, <2>1
    <2> QED
      BY <2>2
  <1>4. \A k \in 1 .. n : (1 .. k) \ {k} = 1 .. k - 1
    OBVIOUS
  <1> QED
    BY <1>1, <1>2, <1>3, <1>4

LEMMA FoldLeftRuns ==
    ASSUME NEW A, NEW Y, NEW seq \in Seq(A), NEW step \in [Y \X A -> Y], NEW base \in Y
    PROVE  /\ \E g \in [SUBSET (1 .. Len(seq)) -> Y] : FoldsLeft(Y, seq, step, base, g)
           /\ \A g : FoldsLeft(Y, seq, step, base, g) => Ends(Y, seq, step, base, g)
  <1>1. PICK n : n = Len(seq)
    OBVIOUS
  <1>2. n \in Nat /\ \A i \in 1 .. n : seq[i] \in A
    BY <1>1
  <1>3. PICK S : S = 1 .. n
    OBVIOUS
  <1>4. PICK pick : pick = [s \in SUBSET S |-> Max(s)]
    OBVIOUS
  <1>5. PICK take : take = [p \in S \X Y |-> step[<<p[2], seq[p[1]]>>]]
    OBVIOUS
  <1>6. \A s \in SUBSET S : s # {} => Max(s) \in s
    BY <1>2, <1>3, PrefixSet
  <1>7. FoldParts(S, Y, pick, take, base)
    <2>1. take \in [S \X Y -> Y]
      <3>1. \A p \in S \X Y : <<p[2], seq[p[1]]>> \in Y \X A
        BY <1>2, <1>3
      <3> QED
        BY <1>5, <3>1
    <2>2. IsFiniteSet(S)
      BY <1>2, <1>3, PrefixSet
    <2> QED
      BY <1>4, <1>6, <2>1, <2>2 DEF FoldParts
  <1>8. PICK it \in [SUBSET S -> Y] : FoldIs(S, pick, take, base, it)
    BY <1>7, FoldExists
  <1>9. /\ it[{}] = base
        /\ \A s \in SUBSET S : s # {} => it[s] = step[<<it[s \ {Max(s)}], LastOf(seq, s)>>]
    <2>1. ASSUME NEW s \in SUBSET S PROVE it[s] = FoldValue(pick, take, base, it, s)
      BY <1>8 DEF FoldIs
    <2>2. ASSUME NEW s \in SUBSET S, s # {}
          PROVE  it[s] = step[<<it[s \ {Max(s)}], LastOf(seq, s)>>]
      <3>1. pick[s] = Max(s) /\ Max(s) \in S /\ it[s \ {Max(s)}] \in Y
        BY <1>4, <1>6, <2>2
      <3>2. it[s] = take[<<Max(s), it[s \ {Max(s)}]>>]
        BY <2>1, <2>2, <3>1 DEF FoldValue
      <3> QED
        BY <1>5, <3>1, <3>2 DEF LastOf
    <2>3. it[{}] = base
      BY <2>1 DEF FoldValue
    <2> QED
      BY <2>2, <2>3
  <1>10. FoldsLeft(Y, seq, step, base, it)
    BY <1>1, <1>3, <1>9 DEF FoldsLeft
  <1>11. ASSUME NEW g, FoldsLeft(Y, seq, step, base, g)
         PROVE  Ends(Y, seq, step, base, g)
    <2>1. g[{}] = it[{}]
      BY <1>9, <1>11 DEF FoldsLeft
    <2>2. ASSUME NEW s \in SUBSET S, s # {}, g[s \ {pick[s]}] = it[s \ {pick[s]}]
          PROVE  g[s] = it[s]
      <3>1. pick[s] = Max(s) /\ it[s \ {Max(s)}] \in Y
        BY <1>4, <1>6, <2>2
      <3>2. g[s] = step[<<g[s \ {Max(s)}], LastOf(seq, s)>>]
        BY <1>1, <1>3, <1>11, <2>2, <3>1 DEF FoldsLeft
      <3> QED
        BY <1>9, <2>2, <3>1, <3>2
    <2>3. \A s \in SUBSET S : g[s] = it[s]
      <3>1. IsFiniteSet(S) /\ \A s \in SUBSET S : s # {} => pick[s] \in s
        BY <1>7 DEF FoldParts
      <3> QED
        <4>1. \A s \in SUBSET S : (s # {} /\ g[s \ {pick[s]}] = it[s \ {pick[s]}]) => g[s] = it[s]
          BY <2>2
        <4>2. FoldsAlike(S, pick, g, it)
          BY <2>1, <3>1, <4>1 DEF FoldsAlike
        <4> QED
          BY <4>2, FoldAgree
    <2>4. PICK acc : acc = [k \in 0 .. n |-> it[1 .. k]]
      OBVIOUS
    <2>5. \A k \in 0 .. n : 1 .. k \in SUBSET S
      BY <1>2, <1>3
    <2>6. acc \in [0 .. n -> Y]
      BY <2>4, <2>5
    <2>7. acc[0] = base
      <3>1. 1 .. 0 = {} /\ 0 \in 0 .. n
        BY <1>2
      <3> QED
        BY <1>9, <2>4, <3>1
    <2>8. ASSUME NEW k \in 1 .. n PROVE acc[k] = step[<<acc[k - 1], seq[k]>>]
      <3>1. /\ Max(1 .. k) = k /\ (1 .. k) \ {k} = 1 .. k - 1
            /\ k \in 0 .. n /\ k - 1 \in 0 .. n /\ 1 .. k # {}
        <4>1. Max(1 .. k) = k /\ (1 .. k) \ {k} = 1 .. k - 1
          BY <1>2, PrefixSet
        <4>2. k \in 0 .. n /\ k - 1 \in 0 .. n /\ k \in 1 .. k
          BY <1>2
        <4> QED
          BY <4>1, <4>2
      <3>2. 1 .. k \in SUBSET S
        BY <2>5, <3>1
      <3>3. it[1 .. k] = step[<<it[(1 .. k) \ {Max(1 .. k)}], LastOf(seq, 1 .. k)>>]
        BY <1>9, <3>1, <3>2
      <3>4. it[1 .. k] = step[<<it[1 .. k - 1], seq[k]>>]
        BY <3>1, <3>3 DEF LastOf
      <3> QED
        BY <2>4, <3>1, <3>4
    <2>9. acc[n] = g[S]
      <3>1. n \in 0 .. n
        BY <1>2
      <3> QED
        BY <1>3, <2>3, <2>4, <3>1
    <2> QED
      BY <1>1, <1>3, <2>6, <2>7, <2>8, <2>9 DEF Runs, Ends
  <1> QED
    BY <1>1, <1>3, <1>10, <1>11

(* Two values that stay equal, element after element.                          *)
LEMMA RunsAlike ==
    ASSUME NEW n \in Nat, NEW p, NEW q, p[0] = q[0],
           \A k \in 1 .. n : p[k - 1] = q[k - 1] => p[k] = q[k]
    PROVE  p[n] = q[n]
  <1> DEFINE N == {k \in Nat : k <= n => p[k] = q[k]}
  <1>1. 0 \in N
    OBVIOUS
  <1>2. ASSUME NEW k \in N PROVE k + 1 \in N
    <2>1. CASE k + 1 <= n
      <3>1. k + 1 \in 1 .. n /\ k + 1 - 1 = k /\ p[k] = q[k]
        BY <1>2, <2>1
      <3>2. p[k + 1] = q[k + 1]
        BY <3>1
      <3> QED
        BY <1>2, <3>2
    <2>2. CASE ~(k + 1 <= n)
      BY <1>2, <2>2
    <2> QED
      BY <2>1, <2>2
  <1>3. N \in SUBSET Nat
    OBVIOUS
  <1>4. n \in N
    <2> HIDE DEF N
    <2> QED
      BY <1>1, <1>2, <1>3, NatAll
  <1> QED
    BY <1>4

(* A finite set written as a sequence: each of its members once.               *)
LEMMA SetToSeqFacts ==
    ASSUME NEW S, IsFiniteSet(S), NEW seq, seq = SetToSeq(S), NEW n, n = Cardinality(S)
    PROVE  /\ n \in Nat /\ seq \in [1 .. n -> S] /\ seq \in Seq(S) /\ Len(seq) = n
           /\ \A i, j \in 1 .. n : seq[i] = seq[j] => i = j
           /\ S = {seq[i] : i \in 1 .. n}
  <1>1. n \in Nat /\ ExistsBijection(1 .. n, S)
    BY FS_CardinalityType
  <1>2. \E f \in [1 .. n -> S] : IsInjective(f)
    BY <1>1 DEF ExistsBijection, Bijection, Injection, IsInjective
  <1>3. seq \in [1 .. n -> S] /\ IsInjective(seq)
    BY <1>2 DEF SetToSeq
  <1>4. \A i, j \in 1 .. n : seq[i] = seq[j] => i = j
    BY <1>3 DEF IsInjective
  <1>5. seq \in Injection(1 .. n, S)
    BY <1>3 DEF Injection, IsInjective
  <1>6. Cardinality(1 .. n) = n
    BY <1>1, FS_Interval
  <1>7. seq \in Surjection(1 .. n, S)
    BY <1>5, <1>6, FS_Injection
  <1>8. S = {seq[i] : i \in 1 .. n}
    BY <1>3, <1>7 DEF Surjection
  <1>9. seq \in Seq(S) /\ Len(seq) = n
    BY <1>1, <1>3
  <1> QED
    BY <1>1, <1>3, <1>4, <1>8, <1>9

(* One part more.                                                              *)
OnePartMore(A, x, f, v, g) ==
    /\ IsFiniteSet(A) /\ x \notin A /\ f \in [A -> Int] /\ v \in Int
    /\ g = [y \in A \cup {x} |-> IF y = x THEN v ELSE f[y]]

LEMMA TotalNext ==
    ASSUME NEW A, NEW x, NEW f, NEW v, NEW g, OnePartMore(A, x, f, v, g)
    PROVE  Total(g) = Total(f) + v /\ Total(g) \in Int /\ Total(f) \in Int
  <1>1. /\ IsFiniteSet(A) /\ x \notin A /\ f \in [A -> Int] /\ v \in Int
        /\ g = [y \in A \cup {x} |-> IF y = x THEN v ELSE f[y]]
    BY DEF OnePartMore
  <1>2. Total(g) = Total(f) - (IF x \in A THEN f[x] ELSE 0) + v
    BY <1>1, TotalPut
  <1>3. Total(f) \in Int
    BY <1>1, TotalInt
  <1> QED
    BY <1>1, <1>2, <1>3

(* Parts that do not overlap.                                                  *)
Disjoint(F, r) ==
    /\ IsFiniteSet(F) /\ \A x \in F : IsFiniteSet(r[x])
    /\ \A x, y \in F : x # y => r[x] \cap r[y] = {}

LEMMA DisjointTotal ==
    ASSUME NEW F, NEW r, Disjoint(F, r), NEW f, f = [x \in F |-> Cardinality(r[x])],
           NEW S, S = UNION {r[x] : x \in F}
    PROVE  Total(f) = Cardinality(S)
  <1>1. /\ IsFiniteSet(F) /\ \A x \in F : IsFiniteSet(r[x])
        /\ \A x, y \in F : x # y => r[x] \cap r[y] = {}
    BY DEF Disjoint
  <1>2. Total([x \in F |-> Cardinality(r[x])]) = Cardinality(UNION {r[x] : x \in F})
    BY <1>1, TotalParts
  <1> QED
    BY <1>2

(* The least number of a finite set.                                           *)
LEMMA FiniteLeast ==
    ASSUME NEW S \in SUBSET Int, S # {}, IsFiniteSet(S)
    PROVE  Min(S) \in S /\ \A x \in S : Min(S) <= x
  <1>1. PICK minus : minus = [x \in S |-> 0 - x]
    OBVIOUS
  <1>2. PICK T : T = {minus[x] : x \in S}
    OBVIOUS
  <1>3. IsFiniteSet(T) /\ T \in SUBSET Int /\ T # {}
    <2>1. DOMAIN minus = S /\ minus = [x \in S |-> minus[x]]
      BY <1>1
    <2>2. IsFiniteSet({minus[x] : x \in S})
      BY <2>1, FiniteImage
    <2>3. IsFiniteSet(T)
      BY <1>2, <2>2
    <2>4. \A x \in S : minus[x] \in Int
      BY <1>1
    <2>5. T \in SUBSET Int
      BY <1>2, <2>4
    <2>6. T # {}
      BY <1>2
    <2> QED
      BY <2>3, <2>5, <2>6
  <1>4. PICK b \in T : \A y \in T : y <= b
    BY <1>3, FiniteGreatest
  <1>5. PICK m \in S : b = 0 - m
    BY <1>1, <1>2
  <1>6. ASSUME NEW x \in S PROVE m <= x
    <2>1. 0 - x \in T /\ x \in Int /\ m \in Int
      BY <1>1, <1>2
    <2>2. 0 - x <= 0 - m
      BY <1>4, <1>5, <2>1
    <2> QED
      BY <2>1, <2>2
  <1>7. \E x \in S : \A y \in S : x <= y
    BY <1>6
  <1> QED
    BY <1>7 DEF Min

(* What a one-to-one function returns is as many as it is given.               *)
OneToOne(S, f) == f = [x \in S |-> f[x]] /\ \A x, y \in S : f[x] = f[y] => x = y

LEMMA OneToOneImage ==
    ASSUME NEW S, IsFiniteSet(S), NEW f, OneToOne(S, f), NEW T, T = {f[x] : x \in S}
    PROVE  IsFiniteSet(T) /\ Cardinality(T) = Cardinality(S)
  <1>1. f \in [S -> T] /\ (\A t \in T : \E x \in S : f[x] = t) /\ \A x, y \in S : f[x] = f[y] => x = y
    BY DEF OneToOne
  <1>2. f \in Surjection(S, T)
    BY <1>1 DEF Surjection
  <1>3. f \in Injection(S, T)
    BY <1>1 DEF Injection, IsInjective
  <1> QED
    BY <1>2, <1>3, FS_Surjection

(* A fold that adds up a field is a total.                                     *)
LEMMA PacketSum ==
    ASSUME NEW S, IsFiniteSet(S), NEW f \in [S -> Int], \A x \in S : f[x] = x.packets
    PROVE  MapThenSumSet(LAMBDA x : x.packets, S) = Total(f)
  <1> DEFINE Body(g) == [s \in SUBSET S |->
                              IF s = {} THEN 0
                              ELSE (CHOOSE x \in s : TRUE).packets + g[s \ {CHOOSE x \in s : TRUE}]]
             sum == CHOOSE g : g = Body(g)
  <1>1. \A g : g = Body(g) <=> FoldsSum(S, f, g)
    <2>1. ASSUME NEW g, NEW s \in SUBSET S, s # {}
          PROVE  (CHOOSE x \in s : TRUE).packets = f[CHOOSE x \in s : TRUE]
      <3>1. (CHOOSE x \in s : TRUE) \in s
        BY <2>1
      <3> QED
        BY <3>1
    <2>2. ASSUME NEW g
          PROVE  Body(g) = [s \in SUBSET S |-> IF s = {} THEN 0
                            ELSE f[CHOOSE x \in s : TRUE] + g[s \ {CHOOSE x \in s : TRUE}]]
      BY <2>1
    <2> QED
      BY <2>2 DEF FoldsSum
  <1>2. sum = Body(sum)
    <2>1. PICK g : FoldsSum(S, f, g)
      BY TotalFolds
    <2>2. g = Body(g)
      BY <1>1, <2>1
    <2> HIDE DEF Body
    <2> QED
      BY <2>2
  <1>3. FoldsSum(S, f, sum)
    BY <1>1, <1>2
  <1>4. sum[S] = Total(f)
    BY <1>3, TotalFolds
  <1>5. MapThenSumSet(LAMBDA x : x.packets, S) = sum[S]
    BY DEF MapThenSumSet, MapThenFoldSet
  <1> QED
    BY <1>4, <1>5
=============================================================================
