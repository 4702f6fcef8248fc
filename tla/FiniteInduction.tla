-------------------------- MODULE FiniteInduction --------------------------
(***************************************************************************)
(* Induction over finite sets and over numbers, a recursion with as many   *)
(* steps, sums, as MapThenSumSet folds them, and the lists that Ranking    *)
(* makes of sets.  The library's induction theorems take a predicate as a  *)
(* parameter; the two here take a set instead, a family of sets or of      *)
(* numbers, and every lemma about what a fold or a recursive function      *)
(* computes goes through one of them.                                      *)
(***************************************************************************)
EXTENDS Ranking, FiniteSetsExt, FiniteSetTheorems, FunctionTheorems, WellFoundedInduction,
        SequenceTheorems, TLAPS

(* The numbers between two are finitely many, and so are the places of a   *)
(* list.                                                                   *)
LEMMA IntervalFinite ==
  ASSUME NEW a \in Int, NEW b \in Int
  PROVE  IsFiniteSet(a .. b)
BY FS_Interval

LEMMA PlacesFinite ==
  ASSUME NEW s, DOMAIN s = 1 .. Len(s), Len(s) \in Nat
  PROVE  IsFiniteSet(DOMAIN s)
<1> DEFINE l == Len(s)
<1>1. l \in Nat /\ DOMAIN s = 1 .. l
  OBVIOUS
<1> HIDE DEF l
<1>2. IsFiniteSet(1 .. l)
  BY <1>1, IntervalFinite
<1> QED
  BY <1>1, <1>2

(* Of the finite sets of a family one has no smaller one in it.            *)
LEMMA LeastMember ==
  ASSUME NEW S, IsFiniteSet(S), NEW F, F \subseteq SUBSET S, F # {}
  PROVE  \E T \in F : \A U \in F : U \subseteq T => U = T
<1>1. IsWellFoundedOn(StrictSubsetOrdering(S), FiniteSubsetsOf(S))
  BY FS_StrictSubsetOrderingWellFounded
<1>2. F \subseteq FiniteSubsetsOf(S)
  BY FS_FiniteSubsetsOfFinite
<1>3. PICK T \in F : \A U \in F : ~(<<U, T>> \in StrictSubsetOrdering(S))
  BY <1>1, <1>2, WFMin
<1>4. \A U \in F : U \subseteq T => U = T
  BY <1>3 DEF StrictSubsetOrdering
<1> QED
  BY <1>3, <1>4

(* Induction over the subsets of a finite set, without a predicate as a    *)
(* parameter: a family that no set can be the smallest outside of.         *)
LEMMA SetInduction ==
  ASSUME NEW S, IsFiniteSet(S), NEW F,
         \A T \in SUBSET S : (\A U \in SUBSET T : U # T => U \in F) => T \in F
  PROVE  \A T \in SUBSET S : T \in F
<1> DEFINE Out == {T \in SUBSET S : T \notin F}
<1>1. SUFFICES ASSUME Out # {} PROVE FALSE
  OBVIOUS
<1>2. Out \subseteq SUBSET S
  OBVIOUS
<1>3. PICK T \in Out : \A U \in Out : U \subseteq T => U = T
  <2> HIDE DEF Out
  <2> QED
    BY <1>1, <1>2, LeastMember
<1>4. \A U \in SUBSET T : U # T => U \in F
  BY <1>3
<1> QED
  BY <1>3, <1>4

(* Induction over the numbers, from the subsets of an interval.            *)
LEMMA CountInduction ==
  ASSUME NEW N, 0 \in N, \A n \in Nat : n \in N => n + 1 \in N
  PROVE  \A n \in Nat : n \in N
<1> SUFFICES ASSUME NEW n \in Nat
             PROVE  n \in N
  OBVIOUS
<1>0. IsFiniteSet(1..n) /\ Cardinality(1..n) = n
  BY FS_Interval
<1> DEFINE D == 1..n
           F == {T \in SUBSET D : Cardinality(T) \in N}
<1>1. ASSUME NEW T \in SUBSET D, \A U \in SUBSET T : U # T => U \in F
      PROVE  T \in F
  <2>0. IsFiniteSet(T) /\ Cardinality(T) \in Nat
    BY <1>0, FS_Subset, FS_CardinalityType
  <2>1. CASE T = {}
    BY <2>1, FS_EmptySet
  <2>2. CASE T # {}
    <3>1. PICK x \in T : TRUE
      BY <2>2
    <3>2. Cardinality(T \ {x}) \in N
      BY <1>1, <3>1
    <3>3. Cardinality(T \ {x}) = Cardinality(T) - 1 /\ Cardinality(T) # 0
      BY <2>0, <3>1, FS_RemoveElement, FS_EmptySet
    <3>4. Cardinality(T \ {x}) \in Nat /\ Cardinality(T \ {x}) + 1 = Cardinality(T)
      BY <2>0, <3>3
    <3> QED
      BY <3>2, <3>4
  <2> QED
    BY <2>1, <2>2
<1>2. \A T \in SUBSET D : T \in F
  <2>1. IsFiniteSet(D)
    BY <1>0
  <2> HIDE DEF D, F
  <2> QED
    BY <1>1, <2>1, SetInduction
<1>3. D \in F
  BY <1>2
<1> QED
  BY <1>0, <1>3

(* A number of the naturals is the smallest of a set of them.              *)
LEMMA LeastNumber ==
  ASSUME NEW M \in SUBSET Nat, M # {}
  PROVE  \E m \in M : \A n \in M : m <= n
<1> SUFFICES ASSUME \A m \in M : \E n \in M : n < m
             PROVE  FALSE
  OBVIOUS
<1> DEFINE N == {k \in Nat : \A m \in M : k < m}
<1>1. 0 \in N
  OBVIOUS
<1>2. ASSUME NEW k \in Nat, k \in N
      PROVE  k + 1 \in N
  <2> SUFFICES ASSUME NEW m \in M
               PROVE  k + 1 < m
    OBVIOUS
  <2>1. PICK n \in M : n < m
    OBVIOUS
  <2> QED
    BY <1>2, <2>1
<1>3. \A k \in Nat : k \in N
  <2> HIDE DEF N
  <2> QED
    BY <1>1, <1>2, CountInduction
<1>4. PICK m \in M : TRUE
  OBVIOUS
<1>5. m < m
  BY <1>3
<1> QED
  BY <1>5

(* Numbers have a least one, and finitely many a greatest one.             *)
LEMMA LeastOf ==
  ASSUME NEW S, S \subseteq Nat, S # {}
  PROVE  Min(S) \in S /\ \A x \in S : Min(S) <= x
BY LeastNumber DEF Min

LEMMA GreatestOf ==
  ASSUME NEW S, S \subseteq Nat, S # {}, IsFiniteSet(S)
  PROVE  Max(S) \in S /\ \A x \in S : x <= Max(S)
<1> DEFINE F == {T \in SUBSET S : T # {} => \E y \in T : \A z \in T : z <= y}
<1>1. ASSUME NEW T \in SUBSET S, \A U \in SUBSET T : U # T => U \in F
      PROVE  T \in F
  <2> SUFFICES ASSUME T # {} PROVE \E y \in T : \A z \in T : z <= y
    OBVIOUS
  <2>1. PICK x \in T : TRUE
    OBVIOUS
  <2>2. CASE T \ {x} = {}
    <3>1. \A z \in T : z = x /\ z <= x
      BY <2>2
    <3> QED
      BY <3>1
  <2>3. CASE T \ {x} # {}
    <3>1. PICK y \in T \ {x} : \A z \in T \ {x} : z <= y
      <4>1. T \ {x} \in SUBSET T /\ T \ {x} # T
        BY <2>1
      <4> QED
        BY <1>1, <2>3, <4>1
    <3>2. CASE x <= y
      BY <3>1, <3>2
    <3>3. CASE ~(x <= y)
      <4>1. \A z \in T : z <= x
        BY <3>1, <3>3
      <4> QED
        BY <4>1
    <3> QED
      BY <3>2, <3>3
  <2> QED
    BY <2>2, <2>3
<1>2. \A T \in SUBSET S : T \in F
  <2> HIDE DEF F
  <2> QED
    BY <1>1, SetInduction
<1>3. \E y \in S : \A z \in S : y >= z
  BY <1>2
<1> QED
  BY <1>3 DEF Max

-----------------------------------------------------------------------------
(* A recursion.                                                            *)

\* m starts at b, and each of its n steps is F's.
Recurses(V, b, n, F, m) ==
  m \in [0 .. n -> V] /\ m[0] = b /\ \A i \in 1 .. n : m[i] = F[i][m[i - 1]]

(* A sequence of values each of which is made of the one before it exists. *)
LEMMA Recursion ==
  ASSUME NEW V, NEW b \in V, NEW n \in Nat, NEW F,
         \A i \in 1 .. n : \A v \in V : F[i][v] \in V
  PROVE  \E m : Recurses(V, b, n, F, m)
<1> DEFINE N == {k \in Nat : k <= n =>
                   \E m \in [0 .. k -> V] : m[0] = b /\ \A i \in 1 .. k : m[i] = F[i][m[i - 1]]}
<1>1. 0 \in N
  <2> DEFINE g0 == [i \in 0 .. 0 |-> b]
  <2>1. g0 \in [0 .. 0 -> V] /\ g0[0] = b
    OBVIOUS
  <2>2. \A i \in 1 .. 0 : g0[i] = F[i][g0[i - 1]]
    OBVIOUS
  <2> HIDE DEF g0
  <2>3. \E m \in [0 .. 0 -> V] : m[0] = b /\ \A i \in 1 .. 0 : m[i] = F[i][m[i - 1]]
    BY <2>1, <2>2
  <2> QED
    BY <2>3
<1>2. ASSUME NEW k \in Nat, k \in N
      PROVE  k + 1 \in N
  <2> SUFFICES ASSUME k + 1 <= n
               PROVE  \E m \in [0 .. k + 1 -> V] :
                        m[0] = b /\ \A i \in 1 .. k + 1 : m[i] = F[i][m[i - 1]]
    OBVIOUS
  <2>1. PICK m \in [0 .. k -> V] : m[0] = b /\ \A i \in 1 .. k : m[i] = F[i][m[i - 1]]
    BY <1>2
  <2>2. F[k + 1][m[k]] \in V
    <3>1. k + 1 \in 1 .. n /\ m[k] \in V
      BY <2>1
    <3> QED
      BY <3>1
  <2> DEFINE g == [i \in 0 .. k + 1 |-> IF i = k + 1 THEN F[k + 1][m[k]] ELSE m[i]]
  <2>3. g \in [0 .. k + 1 -> V]
    <3>1. ASSUME NEW i \in 0 .. k + 1
          PROVE  (IF i = k + 1 THEN F[k + 1][m[k]] ELSE m[i]) \in V
      BY <2>1, <2>2
    <3> QED
      BY <3>1
  <2>4. g[0] = b /\ g[k + 1] = F[k + 1][m[k]] /\ \A i \in 0 .. k : g[i] = m[i]
    BY <2>1
  <2>5. ASSUME NEW i \in 1 .. k + 1
        PROVE  g[i] = F[i][g[i - 1]]
    <3>1. CASE i = k + 1
      BY <2>4, <3>1
    <3>2. CASE i # k + 1
      <4>1. i \in 1 .. k /\ i - 1 \in 0 .. k /\ i \in 0 .. k
        BY <3>2
      <4> HIDE DEF g
      <4> QED
        BY <2>1, <2>4, <4>1
    <3> QED
      BY <3>1, <3>2
  <2> HIDE DEF g
  <2> QED
    BY <2>3, <2>4, <2>5
<1>3. \A k \in Nat : k \in N
  <2> HIDE DEF N
  <2> QED
    BY <1>1, <1>2, CountInduction
<1> QED
  BY <1>3 DEF Recurses

-----------------------------------------------------------------------------
(* The fold.                                                               *)

\* The element a fold over s takes first.
Pick(s) == CHOOSE x \in s : TRUE

\* g sums the weights w of every set of D, one element after the other.
Sums(g, D, w) == g = [s \in D |-> IF s = {} THEN 0 ELSE w[Pick(s)] + g[s \ {Pick(s)}]]

\* What the fold makes of S.
SumOf(w, S) == (CHOOSE g : Sums(g, SUBSET S, w))[S]

(* A set that is not empty gives an element.                               *)
LEMMA PickOf ==
  ASSUME NEW s, s # {}
  PROVE  Pick(s) \in s
BY DEF Pick

(* The recursion has a solution on every finite set.                       *)
LEMMA SumsExist ==
  ASSUME NEW w, NEW S, IsFiniteSet(S)
  PROVE  \E g : Sums(g, SUBSET S, w)
<1> DEFINE D(k) == {s \in SUBSET S : Cardinality(s) <= k}
           N == {k \in Nat : \E g : Sums(g, D(k), w)}
<1>0. \A s \in SUBSET S : IsFiniteSet(s) /\ Cardinality(s) \in Nat /\ Cardinality(s) <= Cardinality(S)
  BY FS_Subset, FS_CardinalityType
<1>1. 0 \in N
  <2>1. \A s \in D(0) : s = {}
    BY <1>0, FS_EmptySet
  <2>2. Sums([s \in D(0) |-> 0], D(0), w)
    BY <2>1 DEF Sums
  <2> QED
    BY <2>2
<1>2. ASSUME NEW k \in Nat, k \in N
      PROVE  k + 1 \in N
  <2>1. PICK g : Sums(g, D(k), w)
    BY <1>2
  <2>0. PICK h : h = [s \in D(k + 1) |-> IF s = {} THEN 0 ELSE w[Pick(s)] + g[s \ {Pick(s)}]]
    OBVIOUS
  <2>2. \A s \in D(k) : g[s] = IF s = {} THEN 0 ELSE w[Pick(s)] + g[s \ {Pick(s)}]
    BY <2>1 DEF Sums
  <2>3. D(k) \subseteq D(k + 1)
    BY <1>0
  <2>4. \A s \in D(k + 1) : s # {} => s \ {Pick(s)} \in D(k)
    BY <1>0, PickOf, FS_RemoveElement
  <2>5. \A s \in D(k) : h[s] = g[s]
    BY <2>0, <2>2, <2>3
  <2>6. h = [s \in D(k + 1) |-> IF s = {} THEN 0 ELSE w[Pick(s)] + h[s \ {Pick(s)}]]
    BY <2>0, <2>4, <2>5
  <2> HIDE DEF D
  <2>7. Sums(h, D(k + 1), w)
    BY <2>6 DEF Sums
  <2>8. k + 1 \in Nat /\ \E f : Sums(f, D(k + 1), w)
    BY <2>7
  <2> QED
    BY <2>8
<1>3. \A k \in Nat : k \in N
  <2> HIDE DEF N
  <2> QED
    BY <1>1, <1>2, CountInduction
<1>4. Cardinality(S) \in N /\ D(Cardinality(S)) = SUBSET S
  BY <1>0, <1>3
<1> QED
  BY <1>4

(* The sum of a set and of its subsets are of one recursion.               *)
LEMMA SumsAgree ==
  ASSUME NEW w, NEW S, IsFiniteSet(S), NEW T \in SUBSET S, NEW g, NEW h,
         Sums(g, SUBSET S, w), Sums(h, SUBSET T, w)
  PROVE  g[T] = h[T]
<1> DEFINE F == {s \in SUBSET T : g[s] = h[s]}
<1>0. IsFiniteSet(T)
  BY FS_Subset
<1>1. ASSUME NEW s \in SUBSET T, \A u \in SUBSET s : u # s => u \in F
      PROVE  s \in F
  <2>1. /\ g[s] = IF s = {} THEN 0 ELSE w[Pick(s)] + g[s \ {Pick(s)}]
        /\ h[s] = IF s = {} THEN 0 ELSE w[Pick(s)] + h[s \ {Pick(s)}]
    BY DEF Sums
  <2>2. s # {} => s \ {Pick(s)} \in F
    BY <1>1, PickOf
  <2> QED
    BY <2>1, <2>2
<1>2. \A s \in SUBSET T : s \in F
  <2> HIDE DEF F
  <2> QED
    BY <1>0, <1>1, SetInduction
<1> QED
  BY <1>2

(* What the fold makes of a set, by what it makes of the set without the   *)
(* element it takes first.                                                 *)
LEMMA SumStep ==
  ASSUME NEW w, NEW S, IsFiniteSet(S)
  PROVE  SumOf(w, S) = IF S = {} THEN 0 ELSE w[Pick(S)] + SumOf(w, S \ {Pick(S)})
<1> DEFINE g == CHOOSE g : Sums(g, SUBSET S, w)
           T == S \ {Pick(S)}
           h == CHOOSE h : Sums(h, SUBSET T, w)
<1>1. Sums(g, SUBSET S, w)
  BY SumsExist
<1>2. IsFiniteSet(T)
  BY FS_Subset
<1>3. Sums(h, SUBSET T, w)
  BY <1>2, SumsExist
<1>4. SumOf(w, S) = g[S] /\ SumOf(w, T) = h[T]
  BY DEF SumOf
<1> HIDE DEF g, h
<1>5. g[T] = h[T]
  BY <1>1, <1>3, SumsAgree
<1>6. g[S] = IF S = {} THEN 0 ELSE w[Pick(S)] + g[T]
  BY <1>1 DEF Sums
<1> QED
  BY <1>4, <1>5, <1>6

(* A sum of numbers is a number.                                           *)
LEMMA SumTyped ==
  ASSUME NEW w, NEW S, IsFiniteSet(S), \A x \in S : w[x] \in Nat
  PROVE  \A T \in SUBSET S : SumOf(w, T) \in Nat
<1> DEFINE F == {s \in SUBSET S : SumOf(w, s) \in Nat}
<1>1. ASSUME NEW s \in SUBSET S, \A u \in SUBSET s : u # s => u \in F
      PROVE  s \in F
  <2>0. IsFiniteSet(s)
    BY FS_Subset
  <2>1. SumOf(w, s) = IF s = {} THEN 0 ELSE w[Pick(s)] + SumOf(w, s \ {Pick(s)})
    BY <2>0, SumStep
  <2>2. s # {} => s \ {Pick(s)} \in F /\ Pick(s) \in S
    BY <1>1, PickOf
  <2> QED
    BY <2>1, <2>2
<1>2. \A s \in SUBSET S : s \in F
  <2> HIDE DEF F
  <2> QED
    BY <1>1, SetInduction
<1> QED
  BY <1>2

(* It does not matter which element is taken out first.                    *)
LEMMA SumAdd ==
  ASSUME NEW w, NEW S, IsFiniteSet(S), \A x \in S : w[x] \in Nat
  PROVE  \A T \in SUBSET S : \A x \in S \ T : SumOf(w, T \cup {x}) = w[x] + SumOf(w, T)
<1> DEFINE F == {s \in SUBSET S : \A x \in S \ s : SumOf(w, s \cup {x}) = w[x] + SumOf(w, s)}
<1>1. ASSUME NEW s \in SUBSET S, \A u \in SUBSET s : u # s => u \in F
      PROVE  s \in F
  <2> SUFFICES ASSUME NEW x \in S \ s
               PROVE  SumOf(w, s \cup {x}) = w[x] + SumOf(w, s)
    OBVIOUS
  <2> DEFINE p == Pick(s \cup {x})
             r == s \ {p}
  <2>0. IsFiniteSet(s \cup {x})
    BY FS_Subset
  <2>1. SumOf(w, s \cup {x}) = w[p] + SumOf(w, (s \cup {x}) \ {p})
    BY <2>0, SumStep
  <2>2. p \in s \cup {x}
    BY PickOf
  <2> HIDE DEF p
  <2>3. CASE p = x
    <3>1. (s \cup {x}) \ {p} = s
      BY <2>3
    <3> QED
      BY <2>1, <2>3, <3>1
  <2>4. CASE p # x
    <3>1. p \in s /\ (s \cup {x}) \ {p} = r \cup {x} /\ r \cup {p} = s
      BY <2>2, <2>4
    <3>2. r \in F
      BY <1>1, <3>1
    <3>3. SumOf(w, r \cup {x}) = w[x] + SumOf(w, r) /\ SumOf(w, s) = w[p] + SumOf(w, r)
      BY <3>1, <3>2
    <3>4. SumOf(w, r) \in Nat /\ w[p] \in Nat /\ w[x] \in Nat
      BY <3>1, SumTyped
    <3>5. SumOf(w, s \cup {x}) = w[p] + SumOf(w, r \cup {x})
      BY <2>1, <3>1
    <3> HIDE DEF r
    <3> QED
      BY <3>3, <3>4, <3>5
  <2> QED
    BY <2>3, <2>4
<1>2. \A s \in SUBSET S : s \in F
  <2> HIDE DEF F
  <2> QED
    BY <1>1, SetInduction
<1> QED
  BY <1>2

(* Two sets apart weigh what their union weighs.                           *)
LEMMA SumUnion ==
  ASSUME NEW w, NEW S, IsFiniteSet(S), \A x \in S : w[x] \in Nat,
         NEW A \in SUBSET S
  PROVE  \A B \in SUBSET (S \ A) : SumOf(w, A \cup B) = SumOf(w, A) + SumOf(w, B)
<1> DEFINE D == S \ A
           F == {s \in SUBSET D : SumOf(w, A \cup s) = SumOf(w, A) + SumOf(w, s)}
<1>0. IsFiniteSet(S \ A) /\ SumOf(w, {}) = 0 /\ SumOf(w, A) \in Nat
  BY FS_Subset, FS_EmptySet, SumStep, SumTyped
<1>1. ASSUME NEW s \in SUBSET D, \A u \in SUBSET s : u # s => u \in F
      PROVE  s \in F
  <2>1. CASE s = {}
    BY <1>0, <2>1
  <2>2. CASE s # {}
    <3>1. PICK x \in s : TRUE
      BY <2>2
    <3> DEFINE r == s \ {x}
    <3>2. r \in F /\ s = r \cup {x} /\ A \cup s = (A \cup r) \cup {x}
      BY <1>1, <3>1
    <3>3. SumOf(w, s) = w[x] + SumOf(w, r)
      BY <3>1, <3>2, SumAdd
    <3>4. SumOf(w, A \cup s) = w[x] + SumOf(w, A \cup r)
      <4>1. A \cup r \in SUBSET S /\ x \in S \ (A \cup r)
        BY <3>1
      <4> HIDE DEF r
      <4>2. SumOf(w, (A \cup r) \cup {x}) = w[x] + SumOf(w, A \cup r)
        BY <4>1, SumAdd
      <4> QED
        BY <3>2, <4>2
    <3>5. SumOf(w, r) \in Nat /\ w[x] \in Nat
      BY <3>1, SumTyped
    <3> QED
      BY <1>0, <3>2, <3>3, <3>4, <3>5
  <2> QED
    BY <2>1, <2>2
<1>2. \A s \in SUBSET D : s \in F
  <2>1. IsFiniteSet(D)
    BY <1>0
  <2> HIDE DEF D, F
  <2> QED
    BY <1>1, <2>1, SetInduction
<1> QED
  BY <1>2

(* A set weighs at least what a part of it weighs.                         *)
LEMMA SumGrows ==
  ASSUME NEW w, NEW S, IsFiniteSet(S), \A x \in S : w[x] \in Nat, NEW A \in SUBSET S, NEW B \in SUBSET A
  PROVE  SumOf(w, B) <= SumOf(w, A)
<1>1. A = B \cup (A \ B) /\ A \ B \in SUBSET (S \ B)
  OBVIOUS
<1>2. SumOf(w, A) = SumOf(w, B) + SumOf(w, A \ B)
  BY <1>1, SumUnion
<1> QED
  BY <1>2, SumTyped
-----------------------------------------------------------------------------
(* Orders.                                                                 *)

\* B orders S: it gives each member those before it.
Orders(B, S) ==
  /\ B \in [S -> SUBSET S]
  /\ \A x \in S : x \notin B[x]
  /\ \A x, y \in S : y \in B[x] => B[y] \subseteq B[x]
  /\ \A x, y \in S : x # y => x \in B[y] \/ y \in B[x]

\* r lists S as B orders it: a member's place is behind as many as come before.
Lists(r, B, S) ==
  /\ r \in Seq(S) /\ Len(r) = Cardinality(S) /\ Cardinality(S) \in Nat
  /\ \A x \in S : Cardinality(B[x]) + 1 \in 1 .. Len(r) /\ r[Cardinality(B[x]) + 1] = x
  /\ \A n \in 1 .. Len(r) : r[n] \in S /\ Cardinality(B[r[n]]) = n - 1
  /\ \A x, y \in S : y \in B[x] <=> Cardinality(B[y]) < Cardinality(B[x])

(* Each member of a finite set has a place of its own in its order, and    *)
(* every place is taken.                                                   *)
LEMMA InOrderLists ==
  ASSUME NEW S, IsFiniteSet(S), NEW B, Orders(B, S)
  PROVE  Lists(InOrder(B), B, S)
<1> DEFINE N == Cardinality(S)
           place == [x \in S |-> Cardinality(B[x]) + 1]
           r == InOrder(B)
<1>0. DOMAIN B = S
  BY DEF Orders
<1>1. N \in Nat
  BY FS_CardinalityType
<1>2. ASSUME NEW x \in S
      PROVE  IsFiniteSet(B[x]) /\ Cardinality(B[x]) \in Nat /\ Cardinality(B[x]) < N
  <2>1. B[x] \in SUBSET S /\ B[x] # S
    BY DEF Orders
  <2>2. IsFiniteSet(B[x]) /\ Cardinality(B[x]) <= N /\ Cardinality(B[x]) # N
    BY <2>1, FS_Subset
  <2>3. Cardinality(B[x]) \in Nat
    BY <2>2, FS_CardinalityType
  <2> QED
    BY <1>1, <2>2, <2>3
<1>3. ASSUME NEW x \in S, NEW y \in S, y \in B[x]
      PROVE  Cardinality(B[y]) < Cardinality(B[x])
  <2>1. B[y] \in SUBSET B[x] /\ B[y] # B[x]
    BY <1>3 DEF Orders
  <2>2. Cardinality(B[y]) <= Cardinality(B[x]) /\ Cardinality(B[y]) # Cardinality(B[x])
    BY <1>2, <2>1, FS_Subset
  <2> QED
    BY <1>2, <2>2
<1>4. ASSUME NEW x \in S, NEW y \in S, Cardinality(B[y]) < Cardinality(B[x])
      PROVE  y \in B[x]
  <2> SUFFICES ASSUME y \notin B[x]
               PROVE  FALSE
    OBVIOUS
  <2>1. x # y
    BY <1>2, <1>4
  <2>2. x \in B[y]
    BY <2>1 DEF Orders
  <2>3. Cardinality(B[x]) < Cardinality(B[y])
    BY <1>3, <2>2
  <2> QED
    BY <1>2, <1>4, <2>3
<1>5. ASSUME NEW x \in S, NEW y \in S, place[x] = place[y]
      PROVE  x = y
  <2>1. Cardinality(B[x]) = Cardinality(B[y])
    BY <1>2, <1>5
  <2>2. y \notin B[x] /\ x \notin B[y]
    BY <1>2, <1>3, <2>1
  <2> QED
    BY <2>2 DEF Orders
<1>6. place \in [S -> 1 .. N]
  BY <1>1, <1>2
<1>7. \A x \in S : place[x] = Cardinality(B[x]) + 1
  OBVIOUS
<1> HIDE DEF place
<1>8. place \in Injection(S, 1 .. N)
  BY <1>5, <1>6, Fun_IsInj
<1>9. IsFiniteSet(1 .. N) /\ Cardinality(1 .. N) = N
  BY <1>1, FS_Interval
<1>10. place \in Surjection(S, 1 .. N)
  BY <1>8, <1>9, FS_Injection
<1>11. \A n \in 1 .. N : \E x \in S : place[x] = n
  BY <1>10, Fun_SurjectionProperties
<1>12. ASSUME NEW n \in 1 .. N
       PROVE  r[n] \in S /\ Cardinality(B[r[n]]) = n - 1
  <2>1. r[n] = CHOOSE x \in S : Cardinality(B[x]) = n - 1
    BY <1>0 DEF InOrder
  <2>2. PICK x \in S : place[x] = n
    BY <1>11
  <2>3. Cardinality(B[x]) = n - 1
    BY <1>1, <1>2, <1>7, <2>2
  <2> HIDE DEF r
  <2> QED
    BY <2>1, <2>3
<1>13. r = [n \in 1 .. N |-> r[n]]
  BY <1>0 DEF InOrder
<1> HIDE DEF r
<1>14. r \in [1 .. N -> S]
  BY <1>12, <1>13
<1>15. r \in Seq(S) /\ Len(r) = N
  BY <1>1, <1>14
<1>16. ASSUME NEW x \in S
       PROVE  Cardinality(B[x]) + 1 \in 1 .. N /\ r[Cardinality(B[x]) + 1] = x
  <2> DEFINE n == Cardinality(B[x]) + 1
  <2>1. n \in 1 .. N
    BY <1>1, <1>2
  <2>2. r[n] \in S /\ Cardinality(B[r[n]]) = n - 1
    BY <1>12, <2>1
  <2>3. place[r[n]] = place[x]
    BY <1>2, <1>7, <2>2
  <2> QED
    BY <1>5, <2>1, <2>2, <2>3
<1>17. \A x, y \in S : y \in B[x] <=> Cardinality(B[y]) < Cardinality(B[x])
  BY <1>3, <1>4
<1> QED
  BY <1>1, <1>12, <1>15, <1>16, <1>17 DEF Lists, r

(* The members of a list are those of the set, each once.                  *)
LEMMA ListsOnce ==
  ASSUME NEW S, NEW B, NEW r, Lists(r, B, S)
  PROVE  /\ {r[n] : n \in 1 .. Len(r)} = S
         /\ \A m, n \in 1 .. Len(r) : r[m] = r[n] => m = n
<1>1. Len(r) \in Nat
  BY DEF Lists
<1>2. \A x \in S : \E n \in 1 .. Len(r) : r[n] = x
  BY DEF Lists
<1>3. \A n \in 1 .. Len(r) : r[n] \in S
  BY DEF Lists
<1>4. ASSUME NEW m \in 1 .. Len(r), NEW n \in 1 .. Len(r), r[m] = r[n]
      PROVE  m = n
  <2>1. Cardinality(B[r[m]]) = m - 1 /\ Cardinality(B[r[n]]) = n - 1
    BY DEF Lists
  <2> QED
    BY <1>1, <1>4, <2>1
<1> QED
  BY <1>2, <1>3, <1>4

\* r lists S, each member once.
Enumerates(r, S) ==
  /\ r \in Seq(S) /\ Len(r) = Cardinality(S) /\ Cardinality(S) \in Nat
  /\ \A x \in S : \E n \in 1 .. Len(r) : r[n] = x
  /\ \A m, n \in 1 .. Len(r) : r[m] = r[n] => m = n

(* A list of a set has each of its members once.                           *)
LEMMA ListsEnumerate ==
  ASSUME NEW S, NEW B, NEW r, Lists(r, B, S)
  PROVE  Enumerates(r, S)
<1>1. \A x \in S : \E n \in 1 .. Len(r) : r[n] = x
  BY DEF Lists
<1>2. \A m, n \in 1 .. Len(r) : r[m] = r[n] => m = n
  BY ListsOnce
<1>3. r \in Seq(S) /\ Len(r) = Cardinality(S) /\ Cardinality(S) \in Nat
  BY DEF Lists
<1> QED
  BY <1>1, <1>2, <1>3 DEF Enumerates

(* Numbers are ordered as they are.                                        *)
LEMMA NumbersOrdered ==
  ASSUME NEW S, S \subseteq Int
  PROVE  Orders([i \in S |-> {j \in S : j < i}], S)
<1> DEFINE B == [i \in S |-> {j \in S : j < i}]
<1>1. \A i \in S : B[i] = {j \in S : j < i}
  OBVIOUS
<1>2. B \in [S -> SUBSET S]
  OBVIOUS
<1> HIDE DEF B
<1>3. \A x \in S : x \notin B[x]
  BY <1>1
<1>4. \A x, y \in S : y \in B[x] => B[y] \subseteq B[x]
  <2> SUFFICES ASSUME NEW x \in S, NEW y \in S, y \in B[x], NEW z \in B[y]
               PROVE  z \in B[x]
    OBVIOUS
  <2>1. z \in S /\ z < y /\ y < x
    BY <1>1
  <2>2. x \in Int /\ y \in Int /\ z \in Int
    BY <2>1
  <2>3. z < x
    BY <2>1, <2>2
  <2> QED
    BY <1>1, <2>1, <2>3
<1>5. \A x, y \in S : x # y => x \in B[y] \/ y \in B[x]
  BY <1>1
<1>6. Orders(B, S)
  BY <1>2, <1>3, <1>4, <1>5 DEF Orders
<1> QED
  BY <1>6 DEF B

(* An order refined by a measure: by the measure first, then as it was.    *)
LEMMA MeasureOrdered ==
  ASSUME NEW S, NEW m \in [S -> Int], NEW B, Orders(B, S)
  PROVE  Orders([x \in S |-> {y \in S : m[y] < m[x] \/ (m[y] = m[x] /\ y \in B[x])}], S)
<1> DEFINE C == [x \in S |-> {y \in S : m[y] < m[x] \/ (m[y] = m[x] /\ y \in B[x])}]
<1>1. \A x \in S : C[x] = {y \in S : m[y] < m[x] \/ (m[y] = m[x] /\ y \in B[x])}
  OBVIOUS
<1>2. C \in [S -> SUBSET S]
  OBVIOUS
<1> HIDE DEF C
<1>3. \A x \in S : m[x] \in Int /\ x \notin B[x]
  BY DEF Orders
<1>4. \A x \in S : x \notin C[x]
  BY <1>1, <1>3
<1>5. ASSUME NEW x \in S, NEW y \in S, y \in C[x]
      PROVE  C[y] \subseteq C[x]
  <2> SUFFICES ASSUME NEW z \in C[y]
               PROVE  z \in C[x]
    OBVIOUS
  <2>1. z \in S /\ (m[z] < m[y] \/ (m[z] = m[y] /\ z \in B[y]))
    BY <1>1
  <2>2. m[y] < m[x] \/ (m[y] = m[x] /\ y \in B[x])
    BY <1>1, <1>5
  <2>3. m[x] \in Int /\ m[y] \in Int /\ m[z] \in Int
    BY <1>3, <2>1
  <2>4. CASE m[z] = m[y] /\ m[y] = m[x]
    <3>1. z \in B[y] /\ y \in B[x]
      BY <2>1, <2>2, <2>3, <2>4
    <3>2. z \in B[x]
      BY <3>1 DEF Orders
    <3> QED
      BY <1>1, <2>1, <2>4, <3>2
  <2>5. CASE ~(m[z] = m[y] /\ m[y] = m[x])
    <3>1. m[z] < m[x]
      BY <2>1, <2>2, <2>3, <2>5
    <3> QED
      BY <1>1, <2>1, <3>1
  <2> QED
    BY <2>4, <2>5
<1>6. ASSUME NEW x \in S, NEW y \in S, x # y
      PROVE  x \in C[y] \/ y \in C[x]
  <2>1. x \in B[y] \/ y \in B[x]
    BY <1>6 DEF Orders
  <2>2. m[x] \in Int /\ m[y] \in Int
    BY <1>3
  <2> QED
    BY <1>1, <2>1, <2>2
<1>7. Orders(C, S)
  BY <1>2, <1>4, <1>5, <1>6 DEF Orders
<1> QED
  BY <1>7 DEF C

(* Pairs of numbers are ordered by the first, then by the second.          *)
LEMMA RowsOrdered ==
  ASSUME NEW P, P \subseteq Int \X Int
  PROVE  Orders([p \in P |-> {r \in P : r[1] < p[1] \/ (r[1] = p[1] /\ r[2] < p[2])}], P)
<1> DEFINE C == [p \in P |-> {r \in P : r[1] < p[1] \/ (r[1] = p[1] /\ r[2] < p[2])}]
<1>1. \A p \in P : C[p] = {r \in P : r[1] < p[1] \/ (r[1] = p[1] /\ r[2] < p[2])}
  OBVIOUS
<1>2. C \in [P -> SUBSET P]
  OBVIOUS
<1> HIDE DEF C
<1>3. \A p \in P : p[1] \in Int /\ p[2] \in Int
  OBVIOUS
<1>4. \A p, r \in P : p[1] = r[1] /\ p[2] = r[2] => p = r
  OBVIOUS
<1>5. \A x \in P : x \notin C[x]
  BY <1>1, <1>3
<1>6. ASSUME NEW x \in P, NEW y \in P, y \in C[x]
      PROVE  C[y] \subseteq C[x]
  <2> SUFFICES ASSUME NEW z \in C[y]
               PROVE  z \in C[x]
    OBVIOUS
  <2>1. z \in P /\ (z[1] < y[1] \/ (z[1] = y[1] /\ z[2] < y[2]))
    BY <1>1
  <2>2. y[1] < x[1] \/ (y[1] = x[1] /\ y[2] < x[2])
    BY <1>1, <1>6
  <2>3. z[1] < x[1] \/ (z[1] = x[1] /\ z[2] < x[2])
    BY <1>3, <2>1, <2>2
  <2> QED
    BY <1>1, <2>1, <2>3
<1>7. ASSUME NEW x \in P, NEW y \in P, x # y
      PROVE  x \in C[y] \/ y \in C[x]
  <2>1. x[1] # y[1] \/ x[2] # y[2]
    BY <1>4, <1>7
  <2> QED
    BY <1>1, <1>3, <2>1
<1>8. Orders(C, P)
  BY <1>2, <1>5, <1>6, <1>7 DEF Orders
<1> QED
  BY <1>8 DEF C

\* Which place of the picked ones i is.
PlaceIn(S, i) == Cardinality({j \in S : j < i}) + 1

(* What is picked of a sequence: one element a place, in the order of the  *)
(* places.                                                                 *)
LEMMA PickedIs ==
  ASSUME NEW X, NEW s \in Seq(X), NEW S \in SUBSET (1 .. Len(s))
  PROVE  /\ IsFiniteSet(S) /\ Cardinality(S) \in Nat /\ Cardinality(S) <= Len(s)
         /\ Picked(s, S) \in Seq(X) /\ Len(Picked(s, S)) = Cardinality(S)
         /\ \A i \in S : PlaceIn(S, i) \in 1 .. Cardinality(S) /\ Picked(s, S)[PlaceIn(S, i)] = s[i]
         /\ \A n \in 1 .. Cardinality(S) : \E i \in S : PlaceIn(S, i) = n
         /\ \A i, j \in S : i < j <=> PlaceIn(S, i) < PlaceIn(S, j)
<1> DEFINE B == [i \in S |-> {j \in S : j < i}]
           r == InOrder(B)
           N == Cardinality(S)
<1>0. Len(s) \in Nat /\ s \in [1 .. Len(s) -> X]
  BY LenProperties
<1>1. IsFiniteSet(S) /\ N \in Nat /\ N <= Len(s)
  <2> DEFINE L == Len(s)
  <2>1. IsFiniteSet(1 .. L) /\ Cardinality(1 .. L) = L
    <3>1. L \in Nat
      BY <1>0
    <3> HIDE DEF L
    <3> QED
      BY <3>1, FS_Interval
  <2>2. IsFiniteSet(S) /\ N <= Len(s)
    BY <2>1, FS_Subset
  <2> QED
    BY <2>2, FS_CardinalityType
<1>2. Orders(B, S)
  BY <1>0, NumbersOrdered
<1>3. Lists(r, B, S)
  <2> HIDE DEF B
  <2> QED
    BY <1>1, <1>2, InOrderLists
<1>4. \A i \in S : B[i] = {j \in S : j < i}
  OBVIOUS
<1>5. Picked(s, S) = [n \in 1 .. N |-> s[r[n]]]
  BY DEF Picked
<1> HIDE DEF B, r
<1>6. \A n \in 1 .. N : r[n] \in S /\ Cardinality(B[r[n]]) = n - 1
  BY <1>3 DEF Lists
<1>7. \A i \in S : Cardinality(B[i]) + 1 \in 1 .. N /\ r[Cardinality(B[i]) + 1] = i
  BY <1>3 DEF Lists
<1>8. \A i \in S : PlaceIn(S, i) = Cardinality(B[i]) + 1
  BY <1>4 DEF PlaceIn
<1>9. Picked(s, S) \in [1 .. N -> X]
  BY <1>0, <1>5, <1>6
<1>10. Picked(s, S) \in Seq(X) /\ Len(Picked(s, S)) = N
  BY <1>1, <1>9
<1>11. \A i \in S : PlaceIn(S, i) \in 1 .. N /\ Picked(s, S)[PlaceIn(S, i)] = s[i]
  BY <1>5, <1>7, <1>8
<1>12. ASSUME NEW n \in 1 .. N
       PROVE  \E i \in S : PlaceIn(S, i) = n
  <2>1. r[n] \in S /\ PlaceIn(S, r[n]) = (n - 1) + 1
    BY <1>6, <1>8
  <2>2. PlaceIn(S, r[n]) = n
    BY <1>1, <2>1
  <2> QED
    BY <2>1, <2>2
<1>13. ASSUME NEW i \in S, NEW j \in S
       PROVE  i < j <=> PlaceIn(S, i) < PlaceIn(S, j)
  <2>1. i \in B[j] <=> Cardinality(B[i]) < Cardinality(B[j])
    BY <1>3 DEF Lists
  <2>2. Cardinality(B[i]) + 1 \in 1 .. N /\ Cardinality(B[j]) + 1 \in 1 .. N
    BY <1>7
  <2>3. IsFiniteSet(B[i]) /\ IsFiniteSet(B[j])
    BY <1>1, <1>4, FS_Subset
  <2>4. Cardinality(B[i]) \in Nat /\ Cardinality(B[j]) \in Nat
    BY <2>3, FS_CardinalityType
  <2> QED
    BY <1>4, <1>8, <2>1, <2>4
<1> QED
  BY <1>1, <1>10, <1>11, <1>12, <1>13

\* r is of s at the places of S, as at gives them.
PlacedAt(r, s, S, at) ==
  /\ at \in [1 .. Cardinality(S) -> S]
  /\ \A n \in 1 .. Cardinality(S) : r[n] = s[at[n]]
  /\ \A i \in S : \E n \in 1 .. Cardinality(S) : at[n] = i
  /\ \A m, n \in 1 .. Cardinality(S) : m < n => at[m] < at[n]

(* What is picked is picked at increasing places, every one of them.       *)
LEMMA PickedAt ==
  ASSUME NEW X, NEW s \in Seq(X), NEW S \in SUBSET (1 .. Len(s))
  PROVE  /\ Cardinality(S) \in Nat
         /\ Picked(s, S) \in Seq(X) /\ Len(Picked(s, S)) = Cardinality(S)
         /\ \E at : PlacedAt(Picked(s, S), s, S, at)
<1> DEFINE N == Cardinality(S)
           r == Picked(s, S)
           at == [n \in 1 .. N |-> CHOOSE i \in S : PlaceIn(S, i) = n]
<1>1. /\ N \in Nat /\ r \in Seq(X) /\ Len(r) = N
      /\ \A i \in S : PlaceIn(S, i) \in 1 .. N /\ r[PlaceIn(S, i)] = s[i]
      /\ \A n \in 1 .. N : \E i \in S : PlaceIn(S, i) = n
      /\ \A i, j \in S : i < j <=> PlaceIn(S, i) < PlaceIn(S, j)
  BY PickedIs
<1>0. \A i \in S : i \in Int
  BY LenProperties
<1>2. \A n \in 1 .. N : at[n] \in S /\ PlaceIn(S, at[n]) = n
  BY <1>1
<1>3. at \in [1 .. N -> S]
  BY <1>2
<1> HIDE DEF at, N, r
<1>4. \A n \in 1 .. N : r[n] = s[at[n]]
  BY <1>1, <1>2
<1>5. \A i \in S : \E n \in 1 .. N : at[n] = i
  <2> SUFFICES ASSUME NEW i \in S
               PROVE  \E n \in 1 .. N : at[n] = i
    OBVIOUS
  <2> DEFINE n == PlaceIn(S, i)
  <2>1. n \in 1 .. N
    BY <1>1
  <2>2. at[n] \in S /\ PlaceIn(S, at[n]) = n
    BY <1>2, <2>1
  <2>3. i \in Int /\ at[n] \in Int
    BY <1>0, <2>2
  <2>4. ~(i < at[n]) /\ ~(at[n] < i)
    <3>1. n \in Int
      BY <1>1, <2>1
    <3>2. ~(n < n)
      BY <3>1
    <3>3. (i < at[n] <=> n < n) /\ (at[n] < i <=> n < n)
      <4>1. PlaceIn(S, i) = n
        OBVIOUS
      <4> HIDE DEF n
      <4> QED
        BY <1>1, <2>2, <4>1
    <3> QED
      BY <3>2, <3>3
  <2>5. at[n] = i
    BY <2>3, <2>4
  <2> QED
    BY <2>1, <2>5
<1>6. ASSUME NEW m \in 1 .. N, NEW n \in 1 .. N, m < n
      PROVE  at[m] < at[n]
  <2>1. at[m] \in S /\ at[n] \in S /\ PlaceIn(S, at[m]) = m /\ PlaceIn(S, at[n]) = n
    BY <1>2
  <2>2. at[m] < at[n] <=> PlaceIn(S, at[m]) < PlaceIn(S, at[n])
    BY <1>1, <2>1
  <2> QED
    BY <1>6, <2>1, <2>2
<1>7. PlacedAt(r, s, S, at)
  BY <1>3, <1>4, <1>5, <1>6 DEF PlacedAt, N
<1> QED
  BY <1>1, <1>7 DEF N, r
-----------------------------------------------------------------------------
(* Renamings.                                                              *)

\* f gives each member of S one of T, one for one.
Renames(f, S, T) ==
  /\ \A x \in S : f[x] \in T
  /\ \A x, y \in S : f[x] = f[y] => x = y
  /\ \A z \in T : \E x \in S : f[x] = z

\* What f makes of A.
Renamed(f, A) == {f[x] : x \in A}

\* The list r with its members renamed.
ListRenamed(f, r) == [i \in 1 .. Len(r) |-> f[r[i]]]

(* A part is renamed as the whole is.                                      *)
LEMMA RenamesPart ==
  ASSUME NEW S, NEW T, NEW f, Renames(f, S, T), NEW A \in SUBSET S
  PROVE  Renames(f, A, Renamed(f, A)) /\ Renamed(f, A) \in SUBSET T
BY DEF Renames, Renamed

(* A renamed part is as large as it was.                                   *)
LEMMA RenamesCount ==
  ASSUME NEW S, IsFiniteSet(S), NEW T, NEW f, Renames(f, S, T), NEW A \in SUBSET S
  PROVE  /\ IsFiniteSet(Renamed(f, A))
         /\ Cardinality(Renamed(f, A)) = Cardinality(A)
<1> DEFINE M == Renamed(f, A)
           g == [x \in A |-> f[x]]
<1>1. IsFiniteSet(A)
  BY FS_Subset
<1>2. g \in [A -> M] /\ (\A a, b \in A : g[a] = g[b] => a = b) /\ \A z \in M : \E x \in A : g[x] = z
  BY DEF Renames, Renamed
<1> HIDE DEF M, g
<1>3. g \in Bijection(A, M)
  BY <1>2, Fun_IsBij
<1>4. ExistsBijection(A, M)
  BY <1>3 DEF ExistsBijection
<1>5. IsFiniteSet(M) /\ Cardinality(M) = Cardinality(A)
  BY <1>1, <1>4, FS_Bijection
<1> QED
  BY <1>5 DEF M

(* Where an order is renamed with its members, so is the list.             *)
LEMMA InOrderMoves ==
  ASSUME NEW S, IsFiniteSet(S), NEW B, Orders(B, S), NEW T, NEW f, Renames(f, S, T),
         NEW C \in [T -> SUBSET T], \A x, y \in S : f[y] \in C[f[x]] <=> y \in B[x]
  PROVE  InOrder(C) = ListRenamed(f, InOrder(B))
<1> DEFINE r == InOrder(B)
           s == InOrder(C)
           N == Cardinality(S)
<1>0. \A x \in S : f[x] \in T /\ B[x] \in SUBSET S
  BY DEF Renames, Orders
<1>1. Orders(C, T)
  <2>1. \A z \in T : z \notin C[z]
    <3> SUFFICES ASSUME NEW z \in T
                 PROVE  z \notin C[z]
      OBVIOUS
    <3>1. PICK x \in S : f[x] = z
      BY DEF Renames
    <3> QED
      BY <3>1 DEF Orders
  <2>2. ASSUME NEW a \in T, NEW b \in T, b \in C[a]
        PROVE  C[b] \subseteq C[a]
    <3> SUFFICES ASSUME NEW c \in C[b]
                 PROVE  c \in C[a]
      OBVIOUS
    <3>1. PICK x \in S : f[x] = a
      BY DEF Renames
    <3>2. PICK y \in S : f[y] = b
      BY DEF Renames
    <3>3. PICK z \in S : f[z] = c
      <4>1. c \in T
        OBVIOUS
      <4> QED
        BY <4>1 DEF Renames
    <3>4. y \in B[x] /\ z \in B[y]
      BY <2>2, <3>1, <3>2, <3>3
    <3>5. z \in B[x]
      BY <3>4 DEF Orders
    <3> QED
      BY <3>1, <3>3, <3>5
  <2>3. ASSUME NEW a \in T, NEW b \in T, a # b
        PROVE  a \in C[b] \/ b \in C[a]
    <3>1. PICK x \in S : f[x] = a
      BY DEF Renames
    <3>2. PICK y \in S : f[y] = b
      BY DEF Renames
    <3>3. x # y
      BY <2>3, <3>1, <3>2
    <3>4. x \in B[y] \/ y \in B[x]
      BY <3>3 DEF Orders
    <3> QED
      BY <3>1, <3>2, <3>4
  <2> QED
    BY <2>1, <2>2, <2>3 DEF Orders
<1>2. IsFiniteSet(T) /\ Cardinality(T) = N
  <2>1. Renamed(f, S) = T
    BY DEF Renames, Renamed
  <2> QED
    BY <2>1, RenamesCount
<1>3. Lists(r, B, S)
  BY InOrderLists
<1>4. Lists(s, C, T)
  BY <1>1, <1>2, InOrderLists
<1>5. ASSUME NEW x \in S
      PROVE  Cardinality(C[f[x]]) = Cardinality(B[x])
  <2>1. C[f[x]] = Renamed(f, B[x])
    <3>1. \A y \in B[x] : y \in S /\ f[y] \in C[f[x]]
      BY <1>0
    <3>2. ASSUME NEW z \in C[f[x]]
          PROVE  \E y \in B[x] : z = f[y]
      <4>1. z \in T
        BY <1>0
      <4>2. PICK y \in S : f[y] = z
        BY <4>1 DEF Renames
      <4> QED
        BY <4>2
    <3> QED
      BY <3>1, <3>2 DEF Renamed
  <2>2. B[x] \in SUBSET S
    BY <1>0
  <2> QED
    BY <2>1, <2>2, RenamesCount
<1>6. N \in Nat /\ Len(r) = N /\ Len(s) = N /\ s \in Seq(T)
  BY <1>2, <1>3, <1>4 DEF Lists
<1> HIDE DEF r, s, N
<1>7. ASSUME NEW n \in 1 .. N
      PROVE  s[n] = f[r[n]]
  <2>1. r[n] \in S /\ Cardinality(B[r[n]]) = n - 1
    BY <1>3, <1>6 DEF Lists
  <2>2. f[r[n]] \in T /\ Cardinality(C[f[r[n]]]) = n - 1
    BY <1>0, <1>5, <2>1
  <2>3. s[Cardinality(C[f[r[n]]]) + 1] = f[r[n]]
    BY <1>4, <2>2 DEF Lists
  <2>4. Cardinality(C[f[r[n]]]) + 1 = n
    BY <2>2, <1>6
  <2> QED
    BY <2>3, <2>4
<1>8. s = [n \in 1 .. N |-> s[n]]
  <2>1. s \in [1 .. N -> T]
    BY <1>6, LenProperties
  <2> QED
    BY <2>1
<1>9. s = ListRenamed(f, r)
  BY <1>6, <1>7, <1>8 DEF ListRenamed
<1> QED
  BY <1>9 DEF r, s

(* What weighs nothing sums to nothing.                                    *)
LEMMA SumZero ==
  ASSUME NEW w, NEW S, IsFiniteSet(S), \A x \in S : w[x] = 0
  PROVE  SumOf(w, S) = 0
<1> DEFINE F == {s \in SUBSET S : SumOf(w, s) = 0}
<1>0. SumOf(w, {}) = 0
  BY FS_EmptySet, SumStep
<1>1. ASSUME NEW s \in SUBSET S, \A u \in SUBSET s : u # s => u \in F
      PROVE  s \in F
  <2>1. CASE s = {}
    BY <1>0, <2>1
  <2>2. CASE s # {}
    <3>1. PICK x \in s : TRUE
      BY <2>2
    <3> DEFINE r == s \ {x}
    <3>2. r \in F /\ s = r \cup {x} /\ r \in SUBSET S /\ x \in S \ r
      BY <1>1, <3>1
    <3> HIDE DEF r
    <3>3. \A y \in S : w[y] \in Nat
      OBVIOUS
    <3>4. SumOf(w, r \cup {x}) = w[x] + SumOf(w, r)
      BY <3>2, <3>3, SumAdd
    <3>5. SumOf(w, s) = 0 + 0
      BY <3>2, <3>4
    <3> QED
      BY <3>5
  <2> QED
    BY <2>1, <2>2
<1>2. \A s \in SUBSET S : s \in F
  <2> HIDE DEF F
  <2> QED
    BY <1>1, SetInduction
<1> QED
  BY <1>2

(* Summands that are put elsewhere, among others that weigh nothing, sum   *)
(* to what they did.                                                       *)
LEMMA SumMoves ==
  ASSUME NEW w, NEW S, IsFiniteSet(S), NEW v, NEW T, IsFiniteSet(T), NEW g \in [S -> T],
         \A x, y \in S : g[x] = g[y] => x = y,
         \A x \in S : w[x] \in Nat /\ v[g[x]] = w[x],
         \A z \in T : v[z] \in Nat /\ ((\A x \in S : g[x] # z) => v[z] = 0)
  PROVE  SumOf(v, T) = SumOf(w, S)
<1> DEFINE at(s) == {g[x] : x \in s}
           F == {s \in SUBSET S : SumOf(v, at(s)) = SumOf(w, s)}
<1>0. SumOf(w, {}) = 0 /\ SumOf(v, {}) = 0
  BY FS_EmptySet, SumStep
<1>1. ASSUME NEW s \in SUBSET S, \A u \in SUBSET s : u # s => u \in F
      PROVE  s \in F
  <2>1. CASE s = {}
    <3>1. at(s) = {}
      BY <2>1
    <3> QED
      BY <1>0, <2>1, <3>1
  <2>2. CASE s # {}
    <3>1. PICK x \in s : TRUE
      BY <2>2
    <3> DEFINE r == s \ {x}
               ar == at(r)
    <3>2. r \in F /\ s = r \cup {x} /\ r \in SUBSET S /\ x \in S \ r
      BY <1>1, <3>1
    <3>3. at(s) = ar \cup {g[x]} /\ ar \in SUBSET T /\ g[x] \in T \ ar
      BY <3>1
    <3>4. SumOf(v, ar) = SumOf(w, r)
      BY <3>2
    <3> HIDE DEF r, ar, at
    <3>5. SumOf(w, r \cup {x}) = w[x] + SumOf(w, r)
      BY <3>2, SumAdd
    <3>6. SumOf(v, ar \cup {g[x]}) = v[g[x]] + SumOf(v, ar)
      BY <3>3, SumAdd
    <3>7. v[g[x]] = w[x]
      BY <3>2
    <3>8. SumOf(v, at(s)) = SumOf(w, s)
      BY <3>2, <3>3, <3>4, <3>5, <3>6, <3>7
    <3> QED
      BY <3>8
  <2> QED
    BY <2>1, <2>2
<1>2. \A s \in SUBSET S : s \in F
  <2> HIDE DEF F
  <2> QED
    BY <1>1, SetInduction
<1>3. SumOf(v, at(S)) = SumOf(w, S)
  BY <1>2
<1> DEFINE A == at(S)
           D == T \ A
<1>4. A \in SUBSET T /\ D \in SUBSET (T \ A) /\ T = A \cup D /\ \A z \in D : v[z] = 0
  OBVIOUS
<1>5. IsFiniteSet(D)
  BY FS_Subset
<1> HIDE DEF A, D
<1>6. SumOf(v, D) = 0
  BY <1>4, <1>5, SumZero
<1>7. SumOf(v, A \cup D) = SumOf(v, A) + SumOf(v, D)
  BY <1>4, SumUnion
<1>8. SumOf(v, A) \in Nat
  BY <1>4, SumTyped
<1>9. SumOf(v, T) = SumOf(v, A)
  BY <1>4, <1>6, <1>7, <1>8
<1> QED
  BY <1>3, <1>9 DEF A
=============================================================================
