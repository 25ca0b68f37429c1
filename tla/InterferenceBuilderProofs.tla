----------------------- MODULE InterferenceBuilderProofs -----------------------
(***************************************************************************)
(* Proofs about liveness and InterferenceBuilder: for every function in SSA *)
(* form whose definitions dominate their uses, the fixed point of MLIR's    *)
(* liveness analysis is liveness along paths, and of two values that are    *)
(* live together one is live where the other is defined; the backward scan  *)
(* builds the interference graph of such functions, and it is chordal.      *)
(***************************************************************************)
EXTENDS InterferenceBuilder, TLAPS, FiniteSetTheorems, WellFoundedInduction

-----------------------------------------------------------------------------
(* Functions that repeat a step until nothing changes. *)

(* f repeats the step F on D until it changes nothing. *)
Repeats(f, F, D) == f = [x \in D |-> IF F[x] = x THEN x ELSE f[F[x]]]

(* The step does not leave J; it only adds elements; it lowers a measure.   *)
Keeps(F, J)     == \A x \in J : F[x] \in J
Grows(F, D)     == \A P \in D : P \subseteq F[P]
Lowers(F, D, m) == m \in [D -> Nat] /\ \A x \in D : F[x] # x => m[F[x]] < m[x]

(* What f makes of x is in J and stays as it is.                            *)
Settles(f, F, J, x) == f[x] \in J /\ F[f[x]] = f[x]

(* There is a function that repeats the step F: it sends x to the element   *)
(* that every set closed under F has if it has x, and that F leaves alone.  *)
LEMMA RepetitionExists ==
  ASSUME NEW D, NEW F \in [D -> D]
  PROVE  \E f : Repeats(f, F, D)
<1>. DEFINE R(x) == {y \in D : \A J \in SUBSET D :
                       x \in J /\ (\A z \in J : F[z] \in J) => y \in J}
            Fix(x) == {y \in R(x) : F[y] = y}
            Pick(S) == CHOOSE y : y \in S
            f == [x \in D |-> Pick(Fix(x))]
<1>1. ASSUME NEW x \in D, F[x] = x
      PROVE  Fix(x) = {x}
  <2>1. x \in R(x)
    OBVIOUS
  <2>2. ASSUME NEW y \in R(x) PROVE y = x
    <3>1. {x} \in SUBSET D /\ \A z \in {x} : F[z] \in {x}
      BY <1>1
    <3>. QED  BY <3>1
  <2>. QED  BY <1>1, <2>1, <2>2
<1>2. ASSUME NEW x \in D, F[x] # x
      PROVE  Fix(x) = Fix(F[x])
  <2>1. ASSUME NEW y \in Fix(x) PROVE y \in R(F[x])
    <3>1. SUFFICES ASSUME NEW J \in SUBSET D, F[x] \in J, \A z \in J : F[z] \in J
                   PROVE  y \in J
      OBVIOUS
    <3>2. J \cup {x} \in SUBSET D /\ \A z \in J \cup {x} : F[z] \in J \cup {x}
      BY <3>1
    <3>3. y \in J \cup {x}
      BY <3>2
    <3>. QED  BY <1>2, <3>3
  <2>2. ASSUME NEW y \in Fix(F[x]) PROVE y \in R(x)
    OBVIOUS
  <2>. QED  BY <2>1, <2>2
<1>3. ASSUME NEW x \in D
      PROVE  f[x] = IF F[x] = x THEN x ELSE f[F[x]]
  <2>1. Pick({x}) = x
    OBVIOUS
  <2>2. f[x] = Pick(Fix(x)) /\ f[F[x]] = Pick(Fix(F[x]))
    OBVIOUS
  <2>. HIDE DEF f, Pick, Fix
  <2>. QED  BY <1>1, <1>2, <2>1, <2>2
<1>4. f = [x \in D |-> IF F[x] = x THEN x ELSE f[F[x]]]
  <2>. DEFINE g == [x \in D |-> IF F[x] = x THEN x ELSE f[F[x]]]
  <2>1. DOMAIN f = D /\ DOMAIN g = D /\ f = [x \in D |-> f[x]] /\ g = [x \in D |-> g[x]]
    OBVIOUS
  <2>2. \A x \in D : f[x] = g[x]
    BY <1>3
  <2>. HIDE DEF f, g
  <2>3. f = g
    BY <2>1, <2>2
  <2>. QED  BY <2>3 DEF g
<1>. HIDE DEF f
<1>. QED  BY <1>4 DEF Repeats

(* A nonempty set of natural numbers has a least element. *)
LEMMA LeastNatural ==
  ASSUME NEW S, S \subseteq Nat, S # {}
  PROVE  \E x \in S : \A y \in S : x <= y
<1>1. \E x \in S : \A y \in S : ~(<<y, x>> \in OpToRel(<, Nat))
  BY WFMin, NatLessThanWellFounded, Zenon
<1>2. \A x, y \in Nat : y < x => <<y, x>> \in OpToRel(<, Nat)
  BY DEF OpToRel
<1>3. \E x \in S : \A y \in S : ~(y < x)
  BY <1>1, <1>2, Zenon
<1>. QED  BY <1>3

(* If every step that changes something lowers a measure, the repetition    *)
(* ends where the step changes nothing, and never leaves a set of values    *)
(* that the step does not leave.                                            *)
LEMMA RepetitionEnds ==
  ASSUME NEW D, NEW F \in [D -> D],
         NEW m, Lowers(F, D, m), NEW f, Repeats(f, F, D),
         NEW J \in SUBSET D, Keeps(F, J), NEW a \in J
  PROVE  Settles(f, F, J, a)
<1>. USE DEF Lowers, Repeats, Keeps, Settles
<1>. DEFINE Good(x) == f[x] \in J /\ F[f[x]] = f[x]
            bad == {m[x] : x \in {y \in J : ~Good(y)}}
<1>1. SUFFICES ASSUME ~Good(a) PROVE FALSE
  OBVIOUS
<1>2. bad \subseteq Nat /\ m[a] \in bad
  <2>. HIDE DEF Good
  <2>. QED  BY <1>1
<1>3. PICK n \in bad : \A k \in bad : n <= k
  <2>. HIDE DEF bad
  <2>1. bad # {}
    BY <1>2
  <2>. QED  BY <1>2, <2>1, LeastNatural
<1>4. PICK x \in J : ~Good(x) /\ m[x] = n
  BY <1>3
<1>5. f[x] = IF F[x] = x THEN x ELSE f[F[x]]
  <2>1. \A y \in D : f[y] = IF F[y] = y THEN y ELSE f[F[y]]
    OBVIOUS
  <2>. QED  BY <2>1
<1>6. F[x] # x
  BY <1>4, <1>5
<1>7. ~Good(F[x]) /\ F[x] \in J
  BY <1>4, <1>5, <1>6
<1>8. m[F[x]] \in bad /\ m[F[x]] < n
  BY <1>4, <1>6, <1>7
<1>9. n \in Nat /\ m[F[x]] \in Nat
  BY <1>2, <1>7
<1>10. n <= m[F[x]]
  <2>. HIDE DEF bad
  <2>. QED  BY <1>3, <1>8
<1>. QED  BY <1>8, <1>9, <1>10

(* In particular for a step that only adds elements of a finite set.        *)
LEMMA SaturationEnds ==
  ASSUME NEW S, IsFiniteSet(S),
         NEW F \in [SUBSET S -> SUBSET S], Grows(F, SUBSET S),
         NEW f, Repeats(f, F, SUBSET S),
         NEW J \in SUBSET SUBSET S, Keeps(F, J), NEW A \in J
  PROVE  Settles(f, F, J, A)
<1>. DEFINE m == [P \in SUBSET S |-> Cardinality(S \ P)]
<1>1. ASSUME NEW P \in SUBSET S
      PROVE  /\ m[P] \in Nat
             /\ F[P] # P => m[F[P]] < m[P]
  <2>1. IsFiniteSet(S \ P) /\ IsFiniteSet(S \ F[P])
    BY FS_Subset
  <2>2. m[P] = Cardinality(S \ P) /\ m[F[P]] = Cardinality(S \ F[P])
    OBVIOUS
  <2>3. m[P] \in Nat /\ m[F[P]] \in Nat
    BY <2>1, <2>2, FS_CardinalityType
  <2>4. S \ F[P] \in SUBSET (S \ P)
    BY DEF Grows
  <2>5. m[F[P]] <= m[P] /\ (m[P] = m[F[P]] => S \ F[P] = S \ P)
    BY <2>1, <2>2, <2>4, FS_Subset
  <2>6. S \ F[P] = S \ P => F[P] = P
    BY DEF Grows
  <2>. HIDE DEF m
  <2>. QED  BY <2>3, <2>5, <2>6
<1>2. m \in [SUBSET S -> Nat]
  <2>1. m = [P \in SUBSET S |-> m[P]]
    OBVIOUS
  <2>. HIDE DEF m
  <2>. QED  BY <1>1, <2>1
<1>. HIDE DEF m
<1>3. Lowers(F, SUBSET S, m)
  BY <1>1, <1>2 DEF Lowers
<1>. QED  BY <1>3, RepetitionEnds

(* So what a set grows to is the least set that contains it and that the    *)
(* step leaves alone.                                                       *)
LEMMA SaturationLeast ==
  ASSUME NEW S, IsFiniteSet(S),
         NEW F \in [SUBSET S -> SUBSET S], Grows(F, SUBSET S),
         \A P, Q \in SUBSET S : P \subseteq Q => F[P] \subseteq F[Q],
         NEW f, Repeats(f, F, SUBSET S), NEW A \in SUBSET S
  PROVE  /\ f[A] \subseteq S
         /\ A \subseteq f[A]
         /\ F[f[A]] = f[A]
         /\ \A Q \in SUBSET S : A \subseteq Q /\ F[Q] = Q => f[A] \subseteq Q
<1>1. ASSUME NEW J \in SUBSET SUBSET S, Keeps(F, J), A \in J
      PROVE  f[A] \in J /\ F[f[A]] = f[A]
  <2>1. Settles(f, F, J, A)
    BY <1>1, SaturationEnds, Zenon
  <2>. QED  BY <2>1 DEF Settles
<1>2. f[A] \subseteq S /\ F[f[A]] = f[A]
  <2>. DEFINE J == SUBSET S
  <2>1. J \in SUBSET SUBSET S /\ Keeps(F, J) /\ A \in J
    BY DEF Keeps
  <2>. QED  BY <1>1, <2>1
<1>3. A \subseteq f[A]
  <2>. DEFINE J == {P \in SUBSET S : A \subseteq P}
  <2>1. J \in SUBSET SUBSET S /\ Keeps(F, J) /\ A \in J
    BY DEF Keeps, Grows
  <2>2. f[A] \in J
    BY <1>1, <2>1
  <2>. QED  BY <2>2
<1>4. ASSUME NEW Q \in SUBSET S, A \subseteq Q, F[Q] = Q
      PROVE  f[A] \subseteq Q
  <2>. DEFINE J == SUBSET Q
  <2>1. J \in SUBSET SUBSET S /\ A \in J
    BY <1>4
  <2>2. \A P \in J : F[P] \subseteq Q
    BY <1>4
  <2>3. Keeps(F, J)
    BY <2>2 DEF Keeps
  <2>. QED  BY <1>1, <2>1, <2>3
<1>. QED  BY <1>2, <1>3, <1>4

-----------------------------------------------------------------------------
(* Points. *)

LEMMA PointsFinite ==
  ASSUME NEW fn, IsSSA(fn)
  PROVE  IsFiniteSet(Points(fn))
<1>. DEFINE In(b) == {<<b, i>> : i \in 1..(Len(fn[b].ops) + 1)}
            g == [b \in 1..Len(fn) |-> In(b)]
            T == {g[b] : b \in 1..Len(fn)}
<1>1. Len(fn) \in Nat /\ \A b \in 1..Len(fn) : Len(fn[b].ops) \in Nat
  BY DEF IsSSA
<1>2. ASSUME NEW b \in 1..Len(fn) PROVE IsFiniteSet(In(b))
  <2>. DEFINE K == 1..(Len(fn[b].ops) + 1)
              h == [i \in K |-> <<b, i>>]
  <2>1. IsFiniteSet(K)
    <3>. DEFINE n == Len(fn[b].ops) + 1
    <3>1. n \in Int
      BY <1>1
    <3>. HIDE DEF n
    <3>2. IsFiniteSet(1..n)
      BY <3>1, FS_Interval
    <3>. QED  BY <3>2 DEF n
  <2>2. h \in Surjection(K, In(b))
    BY DEF Surjection
  <2>. HIDE DEF h, K, In
  <2>. QED  BY <2>1, <2>2, FS_Surjection
<1>3. IsFiniteSet(T)
  <2>1. IsFiniteSet(1..Len(fn))
    BY <1>1, FS_Interval
  <2>2. g \in Surjection(1..Len(fn), T)
    BY DEF Surjection
  <2>. HIDE DEF g, T
  <2>. QED  BY <2>1, <2>2, FS_Surjection
<1>4. \A U \in T : IsFiniteSet(U)
  BY <1>2
<1>5. Points(fn) = UNION T
  BY DEF Points
<1>. HIDE DEF T
<1>. QED  BY <1>3, <1>4, <1>5, FS_UNION

(* The set of live points contains the uses, is closed backwards, and is    *)
(* the least such set.                                                      *)
LEMMA LivePointsLeast ==
  ASSUME NEW fn, IsSSA(fn), NEW v
  PROVE  /\ LivePoints(fn, v) \subseteq Points(fn)
         /\ \A p \in Points(fn) : UsedAt(fn, p, v) => p \in LivePoints(fn, v)
         /\ ReachedFrom(fn, LivePoints(fn, v), v) \subseteq LivePoints(fn, v)
         /\ \A Q \in SUBSET Points(fn) :
              /\ \A p \in Points(fn) : UsedAt(fn, p, v) => p \in Q
              /\ ReachedFrom(fn, Q, v) \subseteq Q
              => LivePoints(fn, v) \subseteq Q
<1>. DEFINE S == Points(fn)
            G(P) == P \cup ReachedFrom(fn, P, v)
            F == [P \in SUBSET S |-> G(P)]
            start == {p \in S : UsedAt(fn, p, v)}
            closure == CHOOSE f : f = [P \in SUBSET S |-> IF G(P) = P THEN P ELSE f[G(P)]]
<1>1. LivePoints(fn, v) = closure[start]
  BY DEF LivePoints
<1>2. F \in [SUBSET S -> SUBSET S]
  BY DEF ReachedFrom
<1>3. \A P \in SUBSET S : F[P] = G(P)
  OBVIOUS
<1>4. \A f : Repeats(f, F, SUBSET S) <=>
             f = [P \in SUBSET S |-> IF G(P) = P THEN P ELSE f[G(P)]]
  BY <1>2, <1>3 DEF Repeats
<1>5. Repeats(closure, F, SUBSET S)
  <2>1. \E f : f = [P \in SUBSET S |-> IF G(P) = P THEN P ELSE f[G(P)]]
    <3>. HIDE DEF F, G
    <3>. QED  BY <1>2, <1>4, RepetitionExists
  <2>2. closure = [P \in SUBSET S |-> IF G(P) = P THEN P ELSE closure[G(P)]]
    <3>. HIDE DEF G
    <3>. QED  BY <2>1, Zenon
  <2>. HIDE DEF closure, F, G
  <2>. QED  BY <1>4, <2>2
<1>. HIDE DEF closure
<1>6. Grows(F, SUBSET S)
  BY DEF Grows
<1>7. \A P, Q \in SUBSET S : P \subseteq Q => F[P] \subseteq F[Q]
  BY DEF ReachedFrom
<1>8. start \in SUBSET S
  OBVIOUS
<1>9. IsFiniteSet(S)
  BY PointsFinite
<1>10. /\ closure[start] \subseteq S
       /\ start \subseteq closure[start]
       /\ F[closure[start]] = closure[start]
       /\ \A Q \in SUBSET S : start \subseteq Q /\ F[Q] = Q => closure[start] \subseteq Q
  <2>. HIDE DEF F, start, S
  <2>. QED  BY <1>2, <1>5, <1>6, <1>7, <1>8, <1>9, SaturationLeast
<1>11. \A Q \in SUBSET S : F[Q] = Q <=> ReachedFrom(fn, Q, v) \subseteq Q
  BY <1>3
<1>. DEFINE L == closure[start]
<1>12. \A Q \in SUBSET S : start \subseteq Q <=> (\A p \in S : UsedAt(fn, p, v) => p \in Q)
  OBVIOUS
<1>. HIDE DEF start, F, G
<1>13. ReachedFrom(fn, L, v) \subseteq L
  BY <1>10, <1>11
<1>14. \A p \in S : UsedAt(fn, p, v) => p \in L
  BY <1>10, <1>12
<1>15. \A Q \in SUBSET S : (\A p \in S : UsedAt(fn, p, v) => p \in Q) /\ ReachedFrom(fn, Q, v) \subseteq Q => L \subseteq Q
  BY <1>10, <1>11, <1>12
<1>. HIDE DEF L
<1>. QED  BY <1>1, <1>10, <1>13, <1>14, <1>15 DEF L

(* The points before a definition: the entry unless v is an argument of the *)
(* entry block, and what is reached from them without passing it.           *)
LEMMA AvoidingLeast ==
  ASSUME NEW fn, IsSSA(fn), NEW v
  PROVE  /\ Avoiding(fn, v) \subseteq Points(fn)
         /\ v \notin Arguments(fn[1]) => <<1, 1>> \in Avoiding(fn, v)
         /\ PassedTo(fn, Avoiding(fn, v), v) \subseteq Avoiding(fn, v)
         /\ \A Q \in SUBSET Points(fn) :
              /\ v \notin Arguments(fn[1]) => <<1, 1>> \in Q
              /\ PassedTo(fn, Q, v) \subseteq Q
              => Avoiding(fn, v) \subseteq Q
<1>. DEFINE S == Points(fn)
            G(P) == P \cup PassedTo(fn, P, v)
            F == [P \in SUBSET S |-> G(P)]
            start == {p \in {<<1, 1>>} : v \notin Arguments(fn[1])}
            closure == CHOOSE f : f = [P \in SUBSET S |-> IF G(P) = P THEN P ELSE f[G(P)]]
<1>1. Avoiding(fn, v) = closure[start]
  BY DEF Avoiding
<1>2. F \in [SUBSET S -> SUBSET S]
  BY DEF PassedTo
<1>3. \A P \in SUBSET S : F[P] = G(P)
  OBVIOUS
<1>4. \A f : Repeats(f, F, SUBSET S) <=>
             f = [P \in SUBSET S |-> IF G(P) = P THEN P ELSE f[G(P)]]
  BY <1>2, <1>3 DEF Repeats
<1>5. Repeats(closure, F, SUBSET S)
  <2>1. \E f : f = [P \in SUBSET S |-> IF G(P) = P THEN P ELSE f[G(P)]]
    <3>. HIDE DEF F, G
    <3>. QED  BY <1>2, <1>4, RepetitionExists
  <2>2. closure = [P \in SUBSET S |-> IF G(P) = P THEN P ELSE closure[G(P)]]
    <3>. HIDE DEF G
    <3>. QED  BY <2>1, Zenon
  <2>. HIDE DEF closure, F, G
  <2>. QED  BY <1>4, <2>2
<1>. HIDE DEF closure
<1>6. Grows(F, SUBSET S)
  BY DEF Grows
<1>7. \A P, Q \in SUBSET S : P \subseteq Q => F[P] \subseteq F[Q]
  BY DEF PassedTo
<1>8. start \in SUBSET S
  BY DEF Points, IsSSA
<1>9. IsFiniteSet(S)
  BY PointsFinite
<1>10. /\ closure[start] \subseteq S
       /\ start \subseteq closure[start]
       /\ F[closure[start]] = closure[start]
       /\ \A Q \in SUBSET S : start \subseteq Q /\ F[Q] = Q => closure[start] \subseteq Q
  <2>. HIDE DEF F, start, S
  <2>. QED  BY <1>2, <1>5, <1>6, <1>7, <1>8, <1>9, SaturationLeast
<1>11. \A Q \in SUBSET S : F[Q] = Q <=> PassedTo(fn, Q, v) \subseteq Q
  BY <1>3
<1>. DEFINE L == closure[start]
<1>12. \A Q \in SUBSET S : start \subseteq Q <=> (v \notin Arguments(fn[1]) => <<1, 1>> \in Q)
  OBVIOUS
<1>. HIDE DEF start, F, G
<1>13. PassedTo(fn, L, v) \subseteq L
  BY <1>10, <1>11
<1>14. v \notin Arguments(fn[1]) => <<1, 1>> \in L
  BY <1>10, <1>12
<1>15. \A Q \in SUBSET S : (v \notin Arguments(fn[1]) => <<1, 1>> \in Q) /\ PassedTo(fn, Q, v) \subseteq Q => L \subseteq Q
  BY <1>10, <1>11, <1>12
<1>. HIDE DEF L
<1>. QED  BY <1>1, <1>10, <1>13, <1>14, <1>15 DEF L

-----------------------------------------------------------------------------
(* Closed sets of points. *)

(* Counting up from a to n + 1 inside T, and down from n to 1.              *)
LEMMA CountUp ==
  ASSUME NEW n \in Nat, NEW a \in Nat, NEW T, a \in T,
         \A i \in a..n : i \in T => i + 1 \in T
  PROVE  \A i \in a..(n + 1) : i \in T
<1>. DEFINE bad == {i \in a..(n + 1) : i \notin T}
<1>1. SUFFICES ASSUME bad # {} PROVE FALSE
  OBVIOUS
<1>2. PICK k \in bad : \A i \in bad : k <= i
  <2>1. bad \subseteq Nat
    OBVIOUS
  <2>. HIDE DEF bad
  <2>. QED  BY <1>1, <2>1, LeastNatural
<1>3. k - 1 \in a..n /\ k - 1 \in T
  <2>1. k # a
    OBVIOUS
  <2>2. k - 1 \in a..n /\ k - 1 \notin bad
    BY <1>2, <2>1
  <2>. QED  BY <2>2
<1>4. (k - 1) + 1 \in T
  BY <1>3
<1>. QED  BY <1>4

LEMMA CountDown ==
  ASSUME NEW n \in Nat, NEW T, n \in T,
         \A i \in 1..(n - 1) : i + 1 \in T => i \in T
  PROVE  \A i \in 1..n : i \in T
<1>. DEFINE U == {i \in 0..(n - 1) : n - i \in T}
<1>1. SUFFICES ASSUME n # 0 PROVE \A i \in 0..(n - 1) : i \in U
  <2>1. ASSUME NEW i \in 1..n PROVE n - i \in 0..(n - 1) /\ n - (n - i) = i
    OBVIOUS
  <2>. QED  BY <2>1
<1>2. n - 2 \in Nat => \A i \in 0..(n - 2) : i \in U => i + 1 \in U
  <2>1. SUFFICES ASSUME n - 2 \in Nat, NEW i \in 0..(n - 2), i \in U PROVE i + 1 \in U
    OBVIOUS
  <2>2. n - (i + 1) \in 1..(n - 1) /\ (n - (i + 1)) + 1 = n - i
    BY <2>1
  <2>3. n - (i + 1) \in T
    BY <2>1, <2>2
  <2>. QED  BY <2>1, <2>3
<1>3. 0 \in U
  BY <1>1
<1>4. CASE n = 1
  BY <1>3, <1>4
<1>5. CASE n # 1
  <2>1. n - 2 \in Nat /\ (n - 2) + 1 = n - 1 /\ 0 \in Nat
    BY <1>1, <1>5
  <2>. HIDE DEF U
  <2>2. \A i \in 0..((n - 2) + 1) : i \in U
    BY <1>2, <1>3, <2>1, CountUp
  <2>. QED  BY <2>1, <2>2
<1>. QED  BY <1>4, <1>5

(* A set of points closed along, or against, the ways on which v is not     *)
(* defined.                                                                 *)
ForwardClosed(fn, P, v) ==
  \A b \in 1..Len(fn) :
    /\ \A s \in fn[b].succs :
         EndOf(fn, b) \in P /\ v \notin Arguments(fn[s]) => <<s, 1>> \in P
    /\ \A i \in 1..Len(fn[b].ops) :
         <<b, i>> \in P /\ v \notin fn[b].ops[i].results => <<b, i + 1>> \in P

BackwardClosed(fn, P, v) ==
  \A b \in 1..Len(fn) :
    /\ \A s \in fn[b].succs :
         <<s, 1>> \in P /\ v \notin Arguments(fn[s]) => EndOf(fn, b) \in P
    /\ \A i \in 1..Len(fn[b].ops) :
         <<b, i + 1>> \in P /\ v \notin fn[b].ops[i].results => <<b, i>> \in P

(* A set that has the uses of v.                                            *)
HasUses(fn, P, v) ==
  \A b \in 1..Len(fn) : \A i \in 1..Len(fn[b].ops) :
    v \in Uses(fn[b].ops[i]) => <<b, i>> \in P

(* The points of a block.                                                   *)
LEMMA PointsOfBlock ==
  ASSUME NEW fn, IsSSA(fn), NEW b \in 1..Len(fn)
  PROVE  /\ Len(fn[b].ops) \in Nat
         /\ b \in Nat
         /\ fn[b].succs \subseteq 1..Len(fn)
         /\ EndOf(fn, b) = <<b, Len(fn[b].ops) + 1>>
         /\ EndOf(fn, b) \in Points(fn)
         /\ \A i \in 1..(Len(fn[b].ops) + 1) : <<b, i>> \in Points(fn)
<1>1. Len(fn[b].ops) \in Nat /\ fn[b].succs \subseteq 1..Len(fn)
  BY DEF IsSSA
<1>2. \A i \in 1..(Len(fn[b].ops) + 1) : <<b, i>> \in Points(fn)
  BY <1>1 DEF Points
<1>3. Len(fn[b].ops) + 1 \in 1..(Len(fn[b].ops) + 1)
  BY <1>1
<1>. QED  BY <1>1, <1>2, <1>3 DEF EndOf

LEMMA PointOfBlock ==
  ASSUME NEW fn, IsSSA(fn), NEW p \in Points(fn)
  PROVE  \E b \in 1..Len(fn) :
           p = EndOf(fn, b) \/ \E i \in 1..Len(fn[b].ops) : p = <<b, i>>
<1>1. PICK b \in 1..Len(fn) : \E i \in 1..(Len(fn[b].ops) + 1) : p = <<b, i>>
  BY DEF Points
<1>2. PICK i \in 1..(Len(fn[b].ops) + 1) : p = <<b, i>>
  BY <1>1
<1>3. i = Len(fn[b].ops) + 1 \/ i \in 1..Len(fn[b].ops)
  BY PointsOfBlock
<1>. QED  BY <1>2, <1>3 DEF EndOf

(* What comes next, what is used and what survives at the end of a block    *)
(* and before one of its operations.                                        *)
LEMMA AtEnd ==
  ASSUME NEW fn, IsSSA(fn), NEW b \in 1..Len(fn), NEW v
  PROVE  /\ After(fn, EndOf(fn, b)) = {<<s, 1>> : s \in fn[b].succs}
         /\ ~UsedAt(fn, EndOf(fn, b), v)
         /\ \A s \in fn[b].succs :
              Survives(fn, EndOf(fn, b), <<s, 1>>, v) <=> v \notin Arguments(fn[s])
<1>1. EndOf(fn, b)[1] = b
  BY DEF EndOf
<1>2. \A s : v \notin Arguments(fn[s]) <=> \A k \in 1..Len(fn[s].args) : fn[s].args[k] # v
  BY DEF Arguments
<1>. QED  BY <1>1, <1>2 DEF After, UsedAt, Survives

LEMMA AtOperation ==
  ASSUME NEW fn, IsSSA(fn), NEW v, NEW b \in 1..Len(fn), NEW i \in 1..Len(fn[b].ops)
  PROVE  /\ After(fn, <<b, i>>) = {<<b, i + 1>>}
         /\ UsedAt(fn, <<b, i>>, v) <=> v \in Uses(fn[b].ops[i])
         /\ Survives(fn, <<b, i>>, <<b, i + 1>>, v) <=> v \notin fn[b].ops[i].results
<1>1. <<b, i>> # EndOf(fn, b)
  BY PointsOfBlock DEF EndOf
<1>. QED  BY <1>1 DEF After, UsedAt, Survives

LEMMA Backwards ==
  ASSUME NEW fn, IsSSA(fn), NEW P \in SUBSET Points(fn), NEW v
  PROVE  /\ ReachedFrom(fn, P, v) \subseteq P <=> BackwardClosed(fn, P, v)
         /\ (\A p \in Points(fn) : UsedAt(fn, p, v) => p \in P) <=> HasUses(fn, P, v)
<1>1. ASSUME ReachedFrom(fn, P, v) \subseteq P PROVE BackwardClosed(fn, P, v)
  <2>1. ASSUME NEW b \in 1..Len(fn), NEW s \in fn[b].succs,
               <<s, 1>> \in P, v \notin Arguments(fn[s])
        PROVE  EndOf(fn, b) \in P
    BY <1>1, <2>1, AtEnd, PointsOfBlock DEF ReachedFrom
  <2>2. ASSUME NEW b \in 1..Len(fn), NEW i \in 1..Len(fn[b].ops),
               <<b, i + 1>> \in P, v \notin fn[b].ops[i].results
        PROVE  <<b, i>> \in P
    <3>1. <<b, i>> \in Points(fn)
      BY PointsOfBlock
    <3>. QED  BY <1>1, <2>2, <3>1, AtOperation DEF ReachedFrom
  <2>. QED  BY <2>1, <2>2 DEF BackwardClosed
<1>2. ASSUME BackwardClosed(fn, P, v), NEW p \in ReachedFrom(fn, P, v)
      PROVE  p \in P
  <2>1. PICK q \in After(fn, p) \cap P : Survives(fn, p, q, v)
    BY DEF ReachedFrom
  <2>2. PICK b \in 1..Len(fn) :
          p = EndOf(fn, b) \/ \E i \in 1..Len(fn[b].ops) : p = <<b, i>>
    BY PointOfBlock DEF ReachedFrom
  <2>3. CASE p = EndOf(fn, b)
    <3>1. PICK s \in fn[b].succs : q = <<s, 1>>
      BY <2>1, <2>3, AtEnd
    <3>. QED  BY <1>2, <2>1, <2>3, <3>1, AtEnd DEF BackwardClosed
  <2>4. ASSUME NEW i \in 1..Len(fn[b].ops), p = <<b, i>> PROVE p \in P
    <3>1. q = <<b, i + 1>>
      <4>1. After(fn, <<b, i>>) = {<<b, i + 1>>}
        BY AtOperation
      <4>. QED  BY <2>1, <2>4, <4>1
    <3>. QED  BY <1>2, <2>1, <2>4, <3>1, AtOperation DEF BackwardClosed
  <2>. QED  BY <2>2, <2>3, <2>4
<1>3. ASSUME \A p \in Points(fn) : UsedAt(fn, p, v) => p \in P
      PROVE  HasUses(fn, P, v)
  <2>1. ASSUME NEW b \in 1..Len(fn), NEW i \in 1..Len(fn[b].ops),
               v \in Uses(fn[b].ops[i])
        PROVE  <<b, i>> \in P
    <3>1. <<b, i>> \in Points(fn)
      BY PointsOfBlock
    <3>. QED  BY <1>3, <2>1, <3>1, AtOperation
  <2>. QED  BY <2>1 DEF HasUses
<1>4. ASSUME HasUses(fn, P, v), NEW p \in Points(fn), UsedAt(fn, p, v)
      PROVE  p \in P
  <2>1. PICK b \in 1..Len(fn) :
          p = EndOf(fn, b) \/ \E i \in 1..Len(fn[b].ops) : p = <<b, i>>
    BY PointOfBlock
  <2>2. PICK i \in 1..Len(fn[b].ops) : p = <<b, i>>
    BY <1>4, <2>1, AtEnd
  <2>. QED  BY <1>4, <2>2, AtOperation DEF HasUses
<1>. QED  BY <1>1, <1>2, <1>3, <1>4

LEMMA Forwards ==
  ASSUME NEW fn, IsSSA(fn), NEW P \in SUBSET Points(fn), NEW v
  PROVE  PassedTo(fn, P, v) \subseteq P <=> ForwardClosed(fn, P, v)
<1>1. ASSUME PassedTo(fn, P, v) \subseteq P PROVE ForwardClosed(fn, P, v)
  <2>1. ASSUME NEW b \in 1..Len(fn), NEW s \in fn[b].succs,
               EndOf(fn, b) \in P, v \notin Arguments(fn[s])
        PROVE  <<s, 1>> \in P
    <3>1. <<s, 1>> \in Points(fn)
      <4>1. s \in 1..Len(fn)
        BY PointsOfBlock
      <4>2. 1 \in 1..(Len(fn[s].ops) + 1)
        BY <4>1, PointsOfBlock
      <4>. QED  BY <4>1, <4>2, PointsOfBlock
    <3>. QED  BY <1>1, <2>1, <3>1, AtEnd DEF PassedTo
  <2>2. ASSUME NEW b \in 1..Len(fn), NEW i \in 1..Len(fn[b].ops),
               <<b, i>> \in P, v \notin fn[b].ops[i].results
        PROVE  <<b, i + 1>> \in P
    <3>1. <<b, i + 1>> \in Points(fn)
      <4>1. i + 1 \in 1..(Len(fn[b].ops) + 1)
        BY PointsOfBlock
      <4>. QED  BY <4>1, PointsOfBlock
    <3>. QED  BY <1>1, <2>2, <3>1, AtOperation DEF PassedTo
  <2>. QED  BY <2>1, <2>2 DEF ForwardClosed
<1>2. ASSUME ForwardClosed(fn, P, v), NEW q \in PassedTo(fn, P, v)
      PROVE  q \in P
  <2>1. PICK p \in P : q \in After(fn, p) /\ Survives(fn, p, q, v)
    BY DEF PassedTo
  <2>2. PICK b \in 1..Len(fn) :
          p = EndOf(fn, b) \/ \E i \in 1..Len(fn[b].ops) : p = <<b, i>>
    BY PointOfBlock
  <2>3. CASE p = EndOf(fn, b)
    <3>1. PICK s \in fn[b].succs : q = <<s, 1>>
      BY <2>1, <2>3, AtEnd
    <3>. QED  BY <1>2, <2>1, <2>3, <3>1, AtEnd DEF ForwardClosed
  <2>4. ASSUME NEW i \in 1..Len(fn[b].ops), p = <<b, i>> PROVE q \in P
    <3>1. q = <<b, i + 1>>
      <4>1. After(fn, <<b, i>>) = {<<b, i + 1>>}
        BY AtOperation
      <4>. QED  BY <2>1, <2>4, <4>1
    <3>. QED  BY <1>2, <2>1, <2>4, <3>1, AtOperation DEF ForwardClosed
  <2>. QED  BY <2>2, <2>3, <2>4
<1>. QED  BY <1>1, <1>2

(* Live points and the points before the definition, as closed sets.        *)
LEMMA LiveClosed ==
  ASSUME NEW fn, IsSSA(fn), NEW v
  PROVE  /\ LivePoints(fn, v) \subseteq Points(fn)
         /\ HasUses(fn, LivePoints(fn, v), v)
         /\ BackwardClosed(fn, LivePoints(fn, v), v)
         /\ \A Q \in SUBSET Points(fn) :
              HasUses(fn, Q, v) /\ BackwardClosed(fn, Q, v) => LivePoints(fn, v) \subseteq Q
BY LivePointsLeast, Backwards

LEMMA AvoidingClosed ==
  ASSUME NEW fn, IsSSA(fn), NEW v
  PROVE  /\ Avoiding(fn, v) \subseteq Points(fn)
         /\ v \notin Arguments(fn[1]) => <<1, 1>> \in Avoiding(fn, v)
         /\ ForwardClosed(fn, Avoiding(fn, v), v)
         /\ \A Q \in SUBSET Points(fn) :
              /\ v \notin Arguments(fn[1]) => <<1, 1>> \in Q
              /\ ForwardClosed(fn, Q, v)
              => Avoiding(fn, v) \subseteq Q
BY AvoidingLeast, Forwards

(* The starts of blocks and the points around operations.                   *)
LEMMA PointsAround ==
  ASSUME NEW fn, IsSSA(fn), NEW b \in 1..Len(fn)
  PROVE  /\ <<b, 1>> \in Points(fn)
         /\ \A s \in fn[b].succs : s \in 1..Len(fn) /\ <<s, 1>> \in Points(fn)
         /\ \A i \in 1..Len(fn[b].ops) :
              /\ <<b, i>> \in Points(fn)
              /\ <<b, i + 1>> \in Points(fn)
              /\ i \in Nat
              /\ i + 1 \in 1..(Len(fn[b].ops) + 1)
<1>1. \A c \in 1..Len(fn) : <<c, 1>> \in Points(fn)
  <2>1. SUFFICES ASSUME NEW c \in 1..Len(fn) PROVE <<c, 1>> \in Points(fn)
    OBVIOUS
  <2>2. 1 \in 1..(Len(fn[c].ops) + 1)
    BY PointsOfBlock
  <2>. QED  BY <2>2, PointsOfBlock
<1>2. \A s \in fn[b].succs : s \in 1..Len(fn)
  BY PointsOfBlock
<1>3. ASSUME NEW i \in 1..Len(fn[b].ops)
      PROVE  i \in 1..(Len(fn[b].ops) + 1) /\ i + 1 \in 1..(Len(fn[b].ops) + 1) /\ i \in Nat
  BY PointsOfBlock
<1>. QED  BY <1>1, <1>2, <1>3, PointsOfBlock

(* What a set of points does not have is closed the other way.              *)
LEMMA Complement ==
  ASSUME NEW fn, IsSSA(fn), NEW P, NEW v
  PROVE  /\ ForwardClosed(fn, P, v) => BackwardClosed(fn, Points(fn) \ P, v)
         /\ BackwardClosed(fn, P, v) => ForwardClosed(fn, Points(fn) \ P, v)
<1>. DEFINE C == Points(fn) \ P
<1>1. ASSUME ForwardClosed(fn, P, v), NEW b \in 1..Len(fn)
      PROVE  /\ \A s \in fn[b].succs :
                  <<s, 1>> \in C /\ v \notin Arguments(fn[s]) => EndOf(fn, b) \in C
             /\ \A i \in 1..Len(fn[b].ops) :
                  <<b, i + 1>> \in C /\ v \notin fn[b].ops[i].results => <<b, i>> \in C
  BY <1>1, PointsOfBlock, PointsAround DEF ForwardClosed
<1>2. ASSUME BackwardClosed(fn, P, v), NEW b \in 1..Len(fn)
      PROVE  /\ \A s \in fn[b].succs :
                  EndOf(fn, b) \in C /\ v \notin Arguments(fn[s]) => <<s, 1>> \in C
             /\ \A i \in 1..Len(fn[b].ops) :
                  <<b, i>> \in C /\ v \notin fn[b].ops[i].results => <<b, i + 1>> \in C
  BY <1>2, PointsOfBlock, PointsAround DEF BackwardClosed
<1>. QED  BY <1>1, <1>2 DEF ForwardClosed, BackwardClosed

(* Every point is reached from the entry.                                   *)
LEMMA EveryPointReached ==
  ASSUME NEW fn, IsSSA(fn), EveryBlockReached(fn),
         NEW P \in SUBSET Points(fn), <<1, 1>> \in P,
         \A b \in 1..Len(fn) :
           /\ \A s \in fn[b].succs : EndOf(fn, b) \in P => <<s, 1>> \in P
           /\ \A i \in 1..Len(fn[b].ops) : <<b, i>> \in P => <<b, i + 1>> \in P
  PROVE  P = Points(fn)
<1>1. ASSUME NEW b \in 1..Len(fn), <<b, 1>> \in P
      PROVE  \A i \in 1..(Len(fn[b].ops) + 1) : <<b, i>> \in P
  <2>. DEFINE T == {i \in Nat : <<b, i>> \in P}
  <2>1. Len(fn[b].ops) \in Nat /\ 1 \in T
    BY <1>1, PointsOfBlock
  <2>2. \A i \in 1..Len(fn[b].ops) : i \in T => i + 1 \in T
    OBVIOUS
  <2>. HIDE DEF T
  <2>3. \A i \in 1..(Len(fn[b].ops) + 1) : i \in T
    BY <2>1, <2>2, CountUp
  <2>. QED  BY <2>3 DEF T
<1>. DEFINE B == {b \in 1..Len(fn) : <<b, 1>> \in P}
<1>2. 1 \in B
  BY DEF IsSSA
<1>3. ASSUME NEW b \in B PROVE fn[b].succs \subseteq B
  <2>1. Len(fn[b].ops) + 1 \in 1..(Len(fn[b].ops) + 1)
    BY PointsOfBlock
  <2>2. EndOf(fn, b) \in P
    BY <1>1, <2>1, PointsOfBlock
  <2>. QED  BY <2>2, PointsOfBlock
<1>4. B = 1..Len(fn)
  BY <1>2, <1>3 DEF EveryBlockReached
<1>5. ASSUME NEW p \in Points(fn) PROVE p \in P
  <2>1. PICK b \in 1..Len(fn) : \E i \in 1..(Len(fn[b].ops) + 1) : p = <<b, i>>
    BY DEF Points
  <2>2. b \in B
    BY <1>4
  <2>. QED  BY <1>1, <2>1, <2>2
<1>. QED  BY <1>5

(* A value that is live at a point is defined on every way to it.           *)
LEMMA LiveIsDefined ==
  ASSUME NEW fn, IsSSA(fn), UsesDominated(fn), NEW v \in FunctionValues(fn)
  PROVE  LivePoints(fn, v) \cap Avoiding(fn, v) = {}
<1>. DEFINE Q == Points(fn) \ Avoiding(fn, v)
<1>1. BackwardClosed(fn, Q, v)
  BY AvoidingClosed, Complement
<1>2. HasUses(fn, Q, v)
  BY AtOperation, PointsAround DEF HasUses, UsesDominated
<1>3. LivePoints(fn, v) \subseteq Q
  BY <1>1, <1>2, LiveClosed
<1>. QED  BY <1>3

-----------------------------------------------------------------------------
(* Definitions. *)

(* A value has one definition.                                              *)
LEMMA OneDefinition ==
  ASSUME NEW fn, IsSSA(fn), NEW v, NEW b \in 1..Len(fn), NEW c \in 1..Len(fn)
  PROVE  /\ v \in Arguments(fn[b]) =>
              /\ v \in FunctionValues(fn) /\ v \in Defs(fn[b]) \ OpDefs(fn[b])
              /\ c # b => v \notin Arguments(fn[c])
              /\ \A j \in 1..Len(fn[c].ops) : v \notin fn[c].ops[j].results
         /\ \A i \in 1..Len(fn[b].ops) : v \in fn[b].ops[i].results =>
              /\ v \in FunctionValues(fn) /\ v \in OpDefs(fn[b])
              /\ v \notin Arguments(fn[c])
              /\ \A j \in 1..Len(fn[c].ops) :
                   v \in fn[c].ops[j].results => c = b /\ j = i
<1>1. \A d \in 1..Len(fn) : \A j \in 1..Len(fn[d].ops) :
        v \in fn[d].ops[j].results => v \in OpDefs(fn[d])
  BY DEF OpDefs
<1>2. \A d \in 1..Len(fn) : Defs(fn[d]) = Arguments(fn[d]) \cup OpDefs(fn[d])
  BY DEF Defs
<1>3. \A d \in 1..Len(fn) : v \in Defs(fn[d]) => v \in FunctionValues(fn)
  BY DEF FunctionValues
<1>4. c # b => Defs(fn[b]) \cap Defs(fn[c]) = {}
  BY DEF IsSSA
<1>5. Arguments(fn[b]) \cap OpDefs(fn[b]) = {} /\ Arguments(fn[c]) \cap OpDefs(fn[c]) = {}
  BY DEF IsSSA
<1>6. \A i, j \in 1..Len(fn[b].ops) :
        i # j => fn[b].ops[i].results \cap fn[b].ops[j].results = {}
  BY DEF IsSSA
<1>7. ASSUME v \in Arguments(fn[b])
      PROVE  /\ v \in FunctionValues(fn) /\ v \in Defs(fn[b]) \ OpDefs(fn[b])
             /\ c # b => v \notin Arguments(fn[c])
             /\ \A j \in 1..Len(fn[c].ops) : v \notin fn[c].ops[j].results
  BY <1>1, <1>2, <1>3, <1>4, <1>5, <1>7
<1>8. ASSUME NEW i \in 1..Len(fn[b].ops), v \in fn[b].ops[i].results
      PROVE  /\ v \in FunctionValues(fn) /\ v \in OpDefs(fn[b])
             /\ v \notin Arguments(fn[c])
             /\ \A j \in 1..Len(fn[c].ops) :
                  v \in fn[c].ops[j].results => c = b /\ j = i
  <2>1. v \in OpDefs(fn[b]) /\ v \in Defs(fn[b])
    BY <1>1, <1>2, <1>8
  <2>2. v \notin Arguments(fn[c])
    BY <1>2, <1>4, <1>5, <2>1
  <2>3. ASSUME NEW j \in 1..Len(fn[c].ops), v \in fn[c].ops[j].results
        PROVE  c = b /\ j = i
    BY <1>1, <1>2, <1>4, <1>6, <1>8, <2>1, <2>3
  <2>. QED  BY <1>3, <2>1, <2>2, <2>3
<1>. QED  BY <1>7, <1>8

(* Just before the operation that defines v one has not passed it: some way *)
(* from the entry leads there.                                              *)
LEMMA BeforeDefinition ==
  ASSUME NEW fn, IsSSA(fn), EveryBlockReached(fn), NEW v,
         NEW b \in 1..Len(fn), NEW i \in 1..Len(fn[b].ops), v \in fn[b].ops[i].results
  PROVE  <<b, i>> \in Avoiding(fn, v)
<1>. DEFINE P == Avoiding(fn, v)
<1>1. SUFFICES ASSUME <<b, i>> \notin P PROVE FALSE
  OBVIOUS
<1>2. 1 \in 1..Len(fn)
  BY DEF IsSSA
<1>3. P \in SUBSET Points(fn) /\ ForwardClosed(fn, P, v)
  BY AvoidingClosed
<1>4. <<1, 1>> \in P
  BY <1>2, AvoidingClosed, OneDefinition
<1>5. ASSUME NEW c \in 1..Len(fn)
      PROVE  /\ \A s \in fn[c].succs : EndOf(fn, c) \in P => <<s, 1>> \in P
             /\ \A j \in 1..Len(fn[c].ops) : <<c, j>> \in P => <<c, j + 1>> \in P
  <2>1. \A s \in fn[c].succs : v \notin Arguments(fn[s])
    BY PointsAround, OneDefinition
  <2>2. ASSUME NEW j \in 1..Len(fn[c].ops), <<c, j>> \in P, v \in fn[c].ops[j].results
        PROVE  FALSE
    <3>1. c = b /\ j = i
      BY <2>2, OneDefinition
    <3>. QED  BY <1>1, <2>2, <3>1
  <2>. HIDE DEF P
  <2>. QED  BY <1>3, <2>1, <2>2 DEF ForwardClosed
<1>6. P = Points(fn)
  <2>. HIDE DEF P
  <2>. QED  BY <1>3, <1>4, <1>5, EveryPointReached
<1>7. <<b, i>> \in Points(fn)
  BY PointsAround
<1>. QED  BY <1>1, <1>6, <1>7

(* An argument of a block that is not the entry block: one gets to the end  *)
(* of some predecessor without passing its definition.                      *)
LEMMA BeforeBlock ==
  ASSUME NEW fn, IsSSA(fn), EveryBlockReached(fn), NEW v,
         NEW s \in 1..Len(fn), s # 1, v \in Arguments(fn[s])
  PROVE  \E b \in 1..Len(fn) : s \in fn[b].succs /\ EndOf(fn, b) \in Avoiding(fn, v)
<1>. DEFINE P == Avoiding(fn, v)
<1>1. SUFFICES ASSUME \A b \in 1..Len(fn) : s \in fn[b].succs => EndOf(fn, b) \notin P
               PROVE  FALSE
  OBVIOUS
<1>2. 1 \in 1..Len(fn)
  BY DEF IsSSA
<1>3. P \in SUBSET Points(fn) /\ ForwardClosed(fn, P, v)
  BY AvoidingClosed
<1>4. <<1, 1>> \in P
  BY <1>2, AvoidingClosed, OneDefinition
<1>5. ASSUME NEW c \in 1..Len(fn)
      PROVE  /\ \A t \in fn[c].succs : EndOf(fn, c) \in P => <<t, 1>> \in P
             /\ \A j \in 1..Len(fn[c].ops) : <<c, j>> \in P => <<c, j + 1>> \in P
  <2>1. ASSUME NEW t \in fn[c].succs, EndOf(fn, c) \in P, v \in Arguments(fn[t])
        PROVE  FALSE
    <3>1. t \in 1..Len(fn)
      BY PointsAround
    <3>2. t = s
      BY <2>1, <3>1, OneDefinition
    <3>. QED  BY <1>1, <2>1, <3>2
  <2>2. \A j \in 1..Len(fn[c].ops) : v \notin fn[c].ops[j].results
    BY OneDefinition
  <2>. HIDE DEF P
  <2>. QED  BY <1>3, <2>1, <2>2 DEF ForwardClosed
<1>6. P = Points(fn)
  <2>. HIDE DEF P
  <2>. QED  BY <1>3, <1>4, <1>5, EveryPointReached
<1>7. \A b \in 1..Len(fn) : s \notin fn[b].succs
  BY <1>1, <1>6, PointsOfBlock
<1>8. 1..Len(fn) \ {s} = 1..Len(fn)
  <2>. DEFINE B == 1..Len(fn) \ {s}
  <2>1. 1 \in B /\ \A b \in B : fn[b].succs \subseteq B
    BY <1>2, <1>7, PointsOfBlock
  <2>. QED  BY <2>1 DEF EveryBlockReached
<1>. QED  BY <1>8

(* Whoever gets to a point of a block without passing the definition passed *)
(* the points before it in the block the same way.                          *)
LEMMA AvoidingFromStart ==
  ASSUME NEW fn, IsSSA(fn), NEW v, NEW b \in 1..Len(fn),
         NEW j \in 1..(Len(fn[b].ops) + 1), <<b, j>> \in Avoiding(fn, v), NEW i \in 1..j
  PROVE  <<b, i>> \in Avoiding(fn, v)
<1>. DEFINE A == Avoiding(fn, v)
            Q == {p \in Points(fn) : \A k \in 1..p[2] : <<p[1], k>> \in A}
<1>1. \A c, k : <<c, k>> \in Q <=> <<c, k>> \in Points(fn) /\ \A l \in 1..k : <<c, l>> \in A
  OBVIOUS
<1>2. Q \subseteq A
  <2>1. ASSUME NEW p \in Q PROVE p \in A
    <3>1. PICK c \in 1..Len(fn) : \E k \in 1..(Len(fn[c].ops) + 1) : p = <<c, k>>
      BY DEF Points
    <3>2. PICK k \in 1..(Len(fn[c].ops) + 1) : p = <<c, k>>
      BY <3>1
    <3>3. k \in 1..k
      BY PointsOfBlock
    <3>. QED  BY <3>2, <3>3
  <2>. QED  BY <2>1
<1>3. v \notin Arguments(fn[1]) => <<1, 1>> \in Q
  <2>1. 1 \in 1..Len(fn)
    BY DEF IsSSA
  <2>2. \A l \in 1..1 : l = 1
    OBVIOUS
  <2>. HIDE DEF Q, A
  <2>3. v \notin Arguments(fn[1]) => <<1, 1>> \in A
    BY AvoidingClosed DEF A
  <2>. QED  BY <1>1, <2>1, <2>2, <2>3, PointsAround
<1>4. ForwardClosed(fn, Q, v)
  <2>1. ForwardClosed(fn, A, v)
    BY AvoidingClosed
  <2>2. ASSUME NEW c \in 1..Len(fn), NEW s \in fn[c].succs,
               EndOf(fn, c) \in Q, v \notin Arguments(fn[s])
        PROVE  <<s, 1>> \in Q
    <3>1. \A l \in 1..1 : l = 1
      OBVIOUS
    <3>. HIDE DEF Q, A
    <3>2. <<s, 1>> \in A
      BY <1>2, <2>1, <2>2 DEF ForwardClosed
    <3>. QED  BY <1>1, <3>1, <3>2, PointsAround
  <2>3. ASSUME NEW c \in 1..Len(fn), NEW k \in 1..Len(fn[c].ops),
               <<c, k>> \in Q, v \notin fn[c].ops[k].results
        PROVE  <<c, k + 1>> \in Q
    <3>. HIDE DEF Q, A
    <3>1. <<c, k + 1>> \in A /\ <<c, k + 1>> \in Points(fn) /\ k \in Nat
      BY <1>2, <2>1, <2>3, PointsAround DEF ForwardClosed
    <3>2. \A l \in 1..(k + 1) : l \in 1..k \/ l = k + 1
      BY <3>1
    <3>. QED  BY <1>1, <2>3, <3>1, <3>2
  <2>. HIDE DEF Q
  <2>. QED  BY <2>2, <2>3 DEF ForwardClosed
<1>5. A \subseteq Q
  <2>. HIDE DEF A
  <2>1. Q \in SUBSET Points(fn)
    OBVIOUS
  <2>. HIDE DEF Q
  <2>. QED  BY <1>3, <1>4, <2>1, AvoidingClosed DEF A
<1>. QED  BY <1>1, <1>5

(* Before it is defined a value is not live in the block of its definition; *)
(* so no operation uses its own results.                                    *)
LEMMA NotLiveBefore ==
  ASSUME NEW fn, IsSSA(fn), EveryBlockReached(fn), UsesDominated(fn), NEW v,
         NEW b \in 1..Len(fn), NEW i \in 1..Len(fn[b].ops), v \in fn[b].ops[i].results,
         NEW j \in 1..i
  PROVE  /\ <<b, j>> \notin LivePoints(fn, v)
         /\ v \notin Uses(fn[b].ops[j])
<1>1. v \in FunctionValues(fn)
  BY OneDefinition
<1>2. <<b, i>> \in Avoiding(fn, v)
  BY BeforeDefinition
<1>3. i \in 1..(Len(fn[b].ops) + 1) /\ j \in 1..Len(fn[b].ops)
  BY PointsOfBlock
<1>4. <<b, j>> \in Avoiding(fn, v)
  BY <1>2, <1>3, AvoidingFromStart
<1>5. <<b, j>> \notin LivePoints(fn, v)
  BY <1>1, <1>4, LiveIsDefined
<1>. QED  BY <1>3, <1>5, LiveClosed DEF HasUses

LEMMA EntryPoint ==
  ASSUME NEW fn, IsSSA(fn)
  PROVE  1 \in 1..Len(fn) /\ <<1, 1>> \in Points(fn)
<1>1. 1 \in 1..Len(fn)
  BY DEF IsSSA
<1>. QED  BY <1>1, PointsAround

(* The pairs in LiveAtDefinition.                                           *)
LEMMA PairsAtDefinition ==
  ASSUME NEW fn, NEW x, NEW y
  PROVE  <<x, y>> \in LiveAtDefinition(fn) <=>
           \E b \in 1..Len(fn) :
             \/ x \in Defs(fn[b]) \ OpDefs(fn[b]) /\ y \in LiveAt(fn, <<b, 1>>)
             \/ \E i \in 1..Len(fn[b].ops) :
                  /\ x \in fn[b].ops[i].results
                  /\ y \in Uses(fn[b].ops[i]) \cup LiveAt(fn, <<b, i + 1>>)
<1>. DEFINE AtStart(b) == (Defs(fn[b]) \ OpDefs(fn[b])) \X LiveAt(fn, <<b, 1>>)
            AtOp(b, i) == fn[b].ops[i].results \X
                            (Uses(fn[b].ops[i]) \cup LiveAt(fn, <<b, i + 1>>))
            AtOps(b)   == UNION {AtOp(b, i) : i \in 1..Len(fn[b].ops)}
<1>1. LiveAtDefinition(fn) = UNION {AtStart(b) \cup AtOps(b) : b \in 1..Len(fn)}
  BY DEF LiveAtDefinition
<1>2. \A b : <<x, y>> \in AtStart(b) <=>
              x \in Defs(fn[b]) \ OpDefs(fn[b]) /\ y \in LiveAt(fn, <<b, 1>>)
  OBVIOUS
<1>3. \A b, i : <<x, y>> \in AtOp(b, i) <=>
                 /\ x \in fn[b].ops[i].results
                 /\ y \in Uses(fn[b].ops[i]) \cup LiveAt(fn, <<b, i + 1>>)
  OBVIOUS
<1>. HIDE DEF AtStart, AtOp
<1>4. \A b : <<x, y>> \in AtOps(b) <=> \E i \in 1..Len(fn[b].ops) : <<x, y>> \in AtOp(b, i)
  OBVIOUS
<1>. HIDE DEF AtOps
<1>5. <<x, y>> \in LiveAtDefinition(fn) <=>
        \E b \in 1..Len(fn) : <<x, y>> \in AtStart(b) \/ <<x, y>> \in AtOps(b)
  BY <1>1
<1>. QED  BY <1>2, <1>3, <1>4, <1>5

(* A value that is live somewhere is live where it is defined: at the start *)
(* of the block that has it as an argument, or after the operation it is a  *)
(* result of.                                                               *)
LEMMA LiveWhereDefined ==
  ASSUME NEW fn, IsSSA(fn), EveryBlockReached(fn), UsesDominated(fn), NEW v,
         NEW b \in 1..Len(fn), LivePoints(fn, v) # {}
  PROVE  /\ v \in Arguments(fn[b]) => <<b, 1>> \in LivePoints(fn, v)
         /\ \A i \in 1..Len(fn[b].ops) :
              v \in fn[b].ops[i].results => <<b, i + 1>> \in LivePoints(fn, v)
<1>. DEFINE D == LivePoints(fn, v)
            X == Points(fn) \ D
<1>1. X # Points(fn)
  BY LiveClosed
<1>2. X \in SUBSET Points(fn) /\ ForwardClosed(fn, X, v)
  BY LiveClosed, Complement
<1>3. 1 \in 1..Len(fn) /\ <<1, 1>> \in Points(fn)
  BY EntryPoint
<1>4. v \in FunctionValues(fn) /\ v \notin Arguments(fn[1]) => <<1, 1>> \in X
  BY <1>3, AvoidingClosed, LiveIsDefined
<1>5. ASSUME v \in Arguments(fn[b]), <<b, 1>> \notin D
      PROVE  FALSE
  <2>1. <<b, 1>> \in X
    BY <1>5, PointsAround
  <2>2. <<1, 1>> \in X
    BY <1>3, <1>4, <1>5, <2>1, OneDefinition
  <2>. HIDE DEF X
  <2>3. ASSUME NEW c \in 1..Len(fn)
        PROVE  /\ \A s \in fn[c].succs : EndOf(fn, c) \in X => <<s, 1>> \in X
               /\ \A j \in 1..Len(fn[c].ops) : <<c, j>> \in X => <<c, j + 1>> \in X
    <3>1. \A s \in fn[c].succs : v \in Arguments(fn[s]) => s = b
      BY <1>5, PointsAround, OneDefinition
    <3>2. \A j \in 1..Len(fn[c].ops) : v \notin fn[c].ops[j].results
      BY <1>5, OneDefinition
    <3>. QED  BY <1>2, <2>1, <3>1, <3>2 DEF ForwardClosed
  <2>. QED  BY <1>1, <1>2, <2>2, <2>3, EveryPointReached
<1>6. ASSUME NEW i \in 1..Len(fn[b].ops), v \in fn[b].ops[i].results, <<b, i + 1>> \notin D
      PROVE  FALSE
  <2>1. <<b, i + 1>> \in X
    BY <1>6, PointsAround
  <2>2. <<1, 1>> \in X
    BY <1>3, <1>4, <1>6, OneDefinition
  <2>. HIDE DEF X
  <2>3. ASSUME NEW c \in 1..Len(fn)
        PROVE  /\ \A s \in fn[c].succs : EndOf(fn, c) \in X => <<s, 1>> \in X
               /\ \A j \in 1..Len(fn[c].ops) : <<c, j>> \in X => <<c, j + 1>> \in X
    <3>1. \A s \in fn[c].succs : v \notin Arguments(fn[s])
      BY <1>6, PointsAround, OneDefinition
    <3>2. \A j \in 1..Len(fn[c].ops) : v \in fn[c].ops[j].results => c = b /\ j = i
      BY <1>6, OneDefinition
    <3>. QED  BY <1>2, <2>1, <3>1, <3>2 DEF ForwardClosed
  <2>. QED  BY <1>1, <1>2, <2>2, <2>3, EveryPointReached
<1>. QED  BY <1>5, <1>6

(* Of two values that are ever live together one is live where the other is *)
(* defined.                                                                 *)
LEMMA OneLiveAtOther ==
  ASSUME NEW fn, IsSSA(fn), EveryBlockReached(fn), UsesDominated(fn),
         NEW v \in FunctionValues(fn), NEW w \in FunctionValues(fn),
         LivePoints(fn, v) \cap LivePoints(fn, w) # {}
  PROVE  <<v, w>> \in LiveAtDefinition(fn) \/ <<w, v>> \in LiveAtDefinition(fn)
<1>. DEFINE X == Points(fn) \ (LivePoints(fn, v) \cap LivePoints(fn, w))
            L(p) == p \in LivePoints(fn, v) \cap LivePoints(fn, w)
            Joined == <<v, w>> \in LiveAtDefinition(fn) \/ <<w, v>> \in LiveAtDefinition(fn)
<1>1. ASSUME NEW b \in 1..Len(fn), L(<<b, 1>>),
             v \in Arguments(fn[b]) \/ w \in Arguments(fn[b])
      PROVE  Joined
  <2>. HIDE DEF L
  <2>1. v \in LiveAt(fn, <<b, 1>>) /\ w \in LiveAt(fn, <<b, 1>>)
    BY <1>1 DEF L, LiveAt
  <2>2. \A x \in {v, w} : x \in Arguments(fn[b]) => x \in Defs(fn[b]) \ OpDefs(fn[b])
    BY OneDefinition
  <2>. QED  BY <1>1, <2>1, <2>2, PairsAtDefinition
<1>2. ASSUME NEW b \in 1..Len(fn), NEW i \in 1..Len(fn[b].ops), L(<<b, i + 1>>),
             v \in fn[b].ops[i].results \/ w \in fn[b].ops[i].results
      PROVE  Joined
  <2>. HIDE DEF L
  <2>1. v \in LiveAt(fn, <<b, i + 1>>) /\ w \in LiveAt(fn, <<b, i + 1>>)
    BY <1>2 DEF L, LiveAt
  <2>. QED  BY <1>2, <2>1, PairsAtDefinition
<1>. SUFFICES ASSUME ~Joined PROVE FALSE
  OBVIOUS
<1>. HIDE DEF Joined
<1>3. X # Points(fn) /\ X \in SUBSET Points(fn)
  BY LiveClosed
<1>4. \A p \in Points(fn) : p \in X <=> ~L(p)
  OBVIOUS
<1>5. BackwardClosed(fn, LivePoints(fn, v), v) /\ BackwardClosed(fn, LivePoints(fn, w), w)
  BY LiveClosed
<1>. HIDE DEF X
<1>6. 1 \in 1..Len(fn) /\ <<1, 1>> \in Points(fn)
  BY EntryPoint
<1>7. <<1, 1>> \in X
  <2>1. v \in Arguments(fn[1]) \/ <<1, 1>> \notin LivePoints(fn, v)
    BY AvoidingClosed, LiveIsDefined
  <2>. QED  BY <1>1, <1>4, <1>6, <2>1
<1>8. ASSUME NEW c \in 1..Len(fn)
      PROVE  /\ \A s \in fn[c].succs : EndOf(fn, c) \in X => <<s, 1>> \in X
             /\ \A j \in 1..Len(fn[c].ops) : <<c, j>> \in X => <<c, j + 1>> \in X
  <2>1. ASSUME NEW s \in fn[c].succs, L(<<s, 1>>) PROVE L(EndOf(fn, c))
    <3>1. v \notin Arguments(fn[s]) /\ w \notin Arguments(fn[s])
      <4>. HIDE DEF L
      <4>. QED  BY <1>1, <2>1, PointsAround
    <3>. QED  BY <1>5, <2>1, <3>1 DEF BackwardClosed
  <2>2. ASSUME NEW j \in 1..Len(fn[c].ops), L(<<c, j + 1>>) PROVE L(<<c, j>>)
    <3>1. v \notin fn[c].ops[j].results /\ w \notin fn[c].ops[j].results
      <4>. HIDE DEF L
      <4>. QED  BY <1>2, <2>2
    <3>. QED  BY <1>5, <2>2, <3>1 DEF BackwardClosed
  <2>. HIDE DEF L
  <2>. QED  BY <1>4, <2>1, <2>2, PointsAround, PointsOfBlock
<1>. QED  BY <1>3, <1>7, <1>8, EveryPointReached

(* What LiveFromDefinitions says of a function follows from its SSA form    *)
(* and from definitions dominating uses.                                    *)
THEOREM DefinitionsReach ==
  ASSUME NEW fn, IsSSA(fn), EveryBlockReached(fn), UsesDominated(fn)
  PROVE  LiveFromDefinitions(fn)
<1>1. ASSUME NEW p \in Points(fn), NEW v \in LiveAt(fn, p), NEW w \in LiveAt(fn, p)
      PROVE  <<v, w>> \in LiveAtDefinition(fn) \/ <<w, v>> \in LiveAtDefinition(fn)
  BY OneLiveAtOther DEF LiveAt
<1>2. ASSUME NEW p \in Points(fn), NEW b \in 1..Len(fn),
             NEW v \in Arguments(fn[b]) \cap LiveAt(fn, p)
      PROVE  v \in LiveAt(fn, <<b, 1>>)
  BY LiveWhereDefined DEF LiveAt
<1>. QED  BY <1>1, <1>2 DEF LiveFromDefinitions

(* Liveness before an operation, from liveness after it.                    *)
LEMMA LiveBeforeOperation ==
  ASSUME NEW fn, IsSSA(fn), NEW b \in 1..Len(fn), NEW i \in 1..Len(fn[b].ops)
  PROVE  LiveAt(fn, <<b, i>>) =
           Uses(fn[b].ops[i]) \cup (LiveAt(fn, <<b, i + 1>>) \ fn[b].ops[i].results)
<1>1. ASSUME NEW v \in Uses(fn[b].ops[i]) PROVE v \in LiveAt(fn, <<b, i>>)
  <2>1. v \in FunctionValues(fn)
    BY DEF IsSSA
  <2>. QED  BY <2>1, LiveClosed DEF LiveAt, HasUses
<1>2. ASSUME NEW v \in LiveAt(fn, <<b, i + 1>>) \ fn[b].ops[i].results
      PROVE  v \in LiveAt(fn, <<b, i>>)
  BY LiveClosed DEF LiveAt, BackwardClosed
<1>3. ASSUME NEW v \in LiveAt(fn, <<b, i>>), v \notin Uses(fn[b].ops[i])
      PROVE  v \in LiveAt(fn, <<b, i + 1>>) \ fn[b].ops[i].results
  <2>. DEFINE D == LivePoints(fn, v)
              Q == D \ {<<b, i>>}
  <2>1. SUFFICES ASSUME <<b, i + 1>> \notin D \/ v \in fn[b].ops[i].results PROVE FALSE
    BY DEF LiveAt
  <2>2. D \subseteq Points(fn) /\ HasUses(fn, D, v) /\ BackwardClosed(fn, D, v)
    BY LiveClosed
  <2>3. HasUses(fn, Q, v)
    BY <1>3, <2>2 DEF HasUses
  <2>4. BackwardClosed(fn, Q, v)
    <3>. HIDE DEF D
    <3>1. \A c \in 1..Len(fn) : EndOf(fn, c) # <<b, i>>
      BY PointsOfBlock
    <3>2. ASSUME NEW c \in 1..Len(fn), NEW s \in fn[c].succs,
                 <<s, 1>> \in Q, v \notin Arguments(fn[s])
          PROVE  EndOf(fn, c) \in Q
      BY <2>2, <3>1, <3>2 DEF BackwardClosed
    <3>3. ASSUME NEW c \in 1..Len(fn), NEW j \in 1..Len(fn[c].ops),
                 <<c, j + 1>> \in Q, v \notin fn[c].ops[j].results
          PROVE  <<c, j>> \in Q
      <4>1. <<c, j>> # <<b, i>>
        BY <2>1, <3>3
      <4>. QED  BY <2>2, <3>3, <4>1 DEF BackwardClosed
    <3>. HIDE DEF Q
    <3>. QED  BY <3>2, <3>3 DEF BackwardClosed
  <2>5. D \subseteq Q
    <3>1. Q \in SUBSET Points(fn)
      BY <2>2
    <3>. HIDE DEF Q
    <3>. QED  BY <2>3, <2>4, <3>1, LiveClosed
  <2>. QED  BY <2>5 DEF LiveAt
<1>. QED  BY <1>1, <1>2, <1>3

-----------------------------------------------------------------------------
(* The fixed point of MLIR's analysis.                                      *)

LEMMA FiniteImage ==
  ASSUME NEW S, IsFiniteSet(S), NEW f, DOMAIN f = S
  PROVE  IsFiniteSet({f[x] : x \in S})
<1>. DEFINE T == {f[x] : x \in S}
<1>1. [x \in S |-> f[x]] \in Surjection(S, T)
  BY DEF Surjection
<1>. QED  BY <1>1, FS_Surjection

LEMMA FiniteUpTo ==
  ASSUME NEW n \in Nat
  PROVE  IsFiniteSet(1..n)
BY FS_Interval

LEMMA ValuesFinite ==
  ASSUME NEW fn, IsSSA(fn)
  PROVE  IsFiniteSet(FunctionValues(fn))
<1>1. ASSUME NEW b \in 1..Len(fn) PROVE IsFiniteSet(Defs(fn[b]))
  <2>1. IsFiniteSet(Arguments(fn[b]))
    <3>. DEFINE f == [k \in 1..Len(fn[b].args) |-> fn[b].args[k]]
    <3>1. IsFiniteSet(1..Len(fn[b].args))
      BY FiniteUpTo DEF IsSSA
    <3>2. Arguments(fn[b]) = {f[k] : k \in 1..Len(fn[b].args)}
      BY DEF Arguments
    <3>3. DOMAIN f = 1..Len(fn[b].args)
      OBVIOUS
    <3>. HIDE DEF f
    <3>. QED  BY <3>1, <3>2, <3>3, FiniteImage
  <2>2. IsFiniteSet(OpDefs(fn[b]))
    <3>. DEFINE f == [i \in 1..Len(fn[b].ops) |-> fn[b].ops[i].results]
                T == {f[i] : i \in 1..Len(fn[b].ops)}
    <3>1. IsFiniteSet(1..Len(fn[b].ops))
      BY FiniteUpTo, PointsOfBlock
    <3>2. OpDefs(fn[b]) = UNION T
      BY DEF OpDefs
    <3>3. DOMAIN f = 1..Len(fn[b].ops)
      OBVIOUS
    <3>4. \A U \in T : IsFiniteSet(U)
      BY DEF IsSSA
    <3>. HIDE DEF f
    <3>5. IsFiniteSet(T)
      BY <3>1, <3>3, FiniteImage
    <3>. HIDE DEF T
    <3>. QED  BY <3>2, <3>4, <3>5, FS_UNION
  <2>. QED  BY <2>1, <2>2, FS_Union DEF Defs
<1>. DEFINE f == [b \in 1..Len(fn) |-> Defs(fn[b])]
            T == {f[b] : b \in 1..Len(fn)}
<1>2. IsFiniteSet(1..Len(fn))
  BY FiniteUpTo DEF IsSSA
<1>3. FunctionValues(fn) = UNION T /\ DOMAIN f = 1..Len(fn)
  BY DEF FunctionValues
<1>4. \A U \in T : IsFiniteSet(U)
  BY <1>1
<1>. HIDE DEF f
<1>5. IsFiniteSet(T)
  BY <1>2, <1>3, FiniteImage
<1>. HIDE DEF T
<1>. QED  BY <1>3, <1>4, <1>5, FS_UNION

(* Live-out sets for the blocks of a function.                              *)
Outs(fn) == [1..Len(fn) -> SUBSET FunctionValues(fn)]

LEMMA OpsOfFunction ==
  ASSUME NEW fn, IsSSA(fn), NEW b \in 1..Len(fn)
  PROVE  /\ Defs(fn[b]) \subseteq FunctionValues(fn)
         /\ OpUses(fn[b]) \subseteq FunctionValues(fn)
<1>1. \A i \in 1..Len(fn[b].ops) : Uses(fn[b].ops[i]) \subseteq FunctionValues(fn)
  BY DEF IsSSA
<1>. QED  BY <1>1 DEF FunctionValues, OpUses

LEMMA PassAdds ==
  ASSUME NEW fn, IsSSA(fn), NEW outs \in Outs(fn)
  PROVE  /\ PassToPredecessors(fn, outs) \in Outs(fn)
         /\ \A b \in 1..Len(fn) :
              PassToPredecessors(fn, outs)[b] =
                outs[b] \cup UNION {LiveInGiven(fn[s], outs[s]) : s \in fn[b].succs}
<1>1. \A b \in 1..Len(fn) : PassToPredecessors(fn, outs)[b] =
        outs[b] \cup UNION {LiveInGiven(fn[s], outs[s]) : s \in fn[b].succs}
  BY DEF PassToPredecessors
<1>2. ASSUME NEW b \in 1..Len(fn), NEW s \in fn[b].succs
      PROVE  LiveInGiven(fn[s], outs[s]) \subseteq FunctionValues(fn)
  <2>1. s \in 1..Len(fn)
    BY PointsAround
  <2>. QED  BY <2>1, OpsOfFunction DEF LiveInGiven, Outs
<1>3. \A b \in 1..Len(fn) : PassToPredecessors(fn, outs)[b] \in SUBSET FunctionValues(fn)
  BY <1>1, <1>2 DEF Outs
<1>4. PassToPredecessors(fn, outs)
        = [b \in 1..Len(fn) |-> PassToPredecessors(fn, outs)[b]]
  BY DEF PassToPredecessors
<1>. QED  BY <1>1, <1>3, <1>4 DEF Outs

(* LiveOuts is reached from the initial sets by passing values on, and it   *)
(* passes nothing on any more.                                              *)
LEMMA LiveOutsSettle ==
  ASSUME NEW fn, IsSSA(fn), NEW J \in SUBSET Outs(fn), InitialLiveOut(fn) \in J,
         \A outs \in J : PassToPredecessors(fn, outs) \in J
  PROVE  /\ LiveOuts(fn) \in J
         /\ PassToPredecessors(fn, LiveOuts(fn)) = LiveOuts(fn)
<1>. DEFINE D == Outs(fn)
            G(outs) == PassToPredecessors(fn, outs)
            F == [outs \in D |-> G(outs)]
            start == InitialLiveOut(fn)
            settled == CHOOSE f :
                         f = [outs \in D |-> IF G(outs) = outs THEN outs ELSE f[G(outs)]]
            Pairs == (1..Len(fn)) \X FunctionValues(fn)
            Missing(outs) == {q \in Pairs : q[2] \notin outs[q[1]]}
            m == [outs \in D |-> Cardinality(Missing(outs))]
<1>1. LiveOuts(fn) = settled[start]
  BY DEF LiveOuts, Outs
<1>2. F \in [D -> D]
  BY PassAdds
<1>3. \A outs \in D : F[outs] = G(outs)
  OBVIOUS
<1>4. \A f : Repeats(f, F, D) <=>
             f = [outs \in D |-> IF G(outs) = outs THEN outs ELSE f[G(outs)]]
  BY <1>2, <1>3 DEF Repeats
<1>5. Repeats(settled, F, D)
  <2>1. \E f : f = [outs \in D |-> IF G(outs) = outs THEN outs ELSE f[G(outs)]]
    <3>. HIDE DEF F, G, D
    <3>. QED  BY <1>2, <1>4, RepetitionExists
  <2>2. settled = [outs \in D |-> IF G(outs) = outs THEN outs ELSE settled[G(outs)]]
    <3>. HIDE DEF G, D
    <3>. QED  BY <2>1, Zenon
  <2>. HIDE DEF settled, F, G, D
  <2>. QED  BY <1>4, <2>2
<1>. HIDE DEF settled
<1>6. IsFiniteSet(Pairs)
  <2>1. IsFiniteSet(1..Len(fn))
    BY FiniteUpTo DEF IsSSA
  <2>. QED  BY <2>1, ValuesFinite, FS_Product
<1>7. ASSUME NEW outs \in D
      PROVE  /\ m[outs] \in Nat
             /\ F[outs] # outs => m[F[outs]] < m[outs]
  <2>. DEFINE more == F[outs]
  <2>1. more \in D /\ \A b \in 1..Len(fn) : outs[b] \subseteq more[b]
    BY <1>2, <1>3, PassAdds
  <2>. HIDE DEF more
  <2>2. m[outs] = Cardinality(Missing(outs)) /\ m[more] = Cardinality(Missing(more))
    BY <2>1
  <2>3. Missing(more) \in SUBSET Missing(outs)
    BY <2>1
  <2>4. Missing(outs) \in SUBSET Pairs
    OBVIOUS
  <2>5. Missing(more) = Missing(outs) => more = outs
    <3>1. ASSUME Missing(more) = Missing(outs), NEW b \in 1..Len(fn) PROVE more[b] = outs[b]
      <4>1. ASSUME NEW v \in more[b] PROVE v \in outs[b]
        <5>1. <<b, v>> \in Pairs
          BY <2>1 DEF Outs
        <5>2. <<b, v>> \notin Missing(more)
          OBVIOUS
        <5>. QED  BY <3>1, <5>1, <5>2
      <4>. QED  BY <2>1, <4>1
    <3>2. more = [b \in 1..Len(fn) |-> more[b]] /\ outs = [b \in 1..Len(fn) |-> outs[b]]
      BY <2>1 DEF Outs
    <3>. HIDE DEF Missing
    <3>. QED  BY <3>1, <3>2
  <2>. HIDE DEF Missing, m, Pairs
  <2>6. IsFiniteSet(Missing(outs))
    BY <1>6, <2>4, FS_Subset
  <2>7. m[outs] \in Nat /\ m[more] \in Nat /\ m[more] <= m[outs]
    BY <2>2, <2>3, <2>6, FS_Subset, FS_CardinalityType
  <2>8. m[more] = m[outs] => Missing(more) = Missing(outs)
    BY <2>2, <2>3, <2>6, FS_Subset
  <2>. QED  BY <2>5, <2>7, <2>8 DEF more
<1>8. m \in [D -> Nat]
  <2>1. m = [outs \in D |-> m[outs]]
    OBVIOUS
  <2>. HIDE DEF m
  <2>. QED  BY <1>7, <2>1
<1>9. Lowers(F, D, m)
  <2>. HIDE DEF m, F
  <2>. QED  BY <1>7, <1>8 DEF Lowers
<1>10. Keeps(F, J)
  BY <1>3 DEF Keeps
<1>. HIDE DEF m, F, G, start, D
<1>11. Settles(settled, F, J, start)
  <2>1. start \in J /\ J \in SUBSET D
    BY DEF start, D
  <2>. QED  BY <1>2, <1>5, <1>9, <1>10, <2>1, RepetitionEnds
<1>12. settled[start] \in D
  BY <1>11 DEF Settles, D
<1>. QED  BY <1>1, <1>3, <1>11, <1>12 DEF Settles, G

LEMMA InitialOuts ==
  ASSUME NEW fn, IsSSA(fn)
  PROVE  InitialLiveOut(fn) \in Outs(fn)
BY OpsOfFunction DEF InitialLiveOut, Outs

(* A value that another block uses is live at the end of the block of its   *)
(* definition.                                                              *)
LEMMA UsedElsewhere ==
  ASSUME NEW fn, IsSSA(fn), EveryBlockReached(fn), UsesDominated(fn),
         NEW b \in 1..Len(fn), NEW c \in 1..Len(fn), c # b,
         NEW v \in Defs(fn[b]), v \in OpUses(fn[c])
  PROVE  EndOf(fn, b) \in LivePoints(fn, v)
<1>. DEFINE D == LivePoints(fn, v)
            W == {p \in Points(fn) : p[1] # b => p \notin D}
<1>1. SUFFICES ASSUME EndOf(fn, b) \notin D PROVE FALSE
  OBVIOUS
<1>2. v \in FunctionValues(fn)
  BY OpsOfFunction
<1>3. /\ D \subseteq Points(fn) /\ HasUses(fn, D, v) /\ BackwardClosed(fn, D, v)
  BY LiveClosed
<1>4. PICK i \in 1..Len(fn[c].ops) : v \in Uses(fn[c].ops[i])
  BY DEF OpUses
<1>5. <<c, i>> \in D
  BY <1>3, <1>4 DEF HasUses
<1>6. \A d, k : <<d, k>> \in W <=> <<d, k>> \in Points(fn) /\ (d # b => <<d, k>> \notin D)
  OBVIOUS
<1>7. \A d \in 1..Len(fn) : d # b =>
        v \notin Arguments(fn[d]) /\ \A k \in 1..Len(fn[d].ops) : v \notin fn[d].ops[k].results
  <2>1. v \in Arguments(fn[b]) \/ \E k \in 1..Len(fn[b].ops) : v \in fn[b].ops[k].results
    BY DEF Defs, OpDefs
  <2>. QED  BY <2>1, OneDefinition
<1>8. W \in SUBSET Points(fn)
  OBVIOUS
<1>. HIDE DEF W
<1>9. <<1, 1>> \in W
  <2>1. 1 # b => <<1, 1>> \notin D
    <3>. HIDE DEF D
    <3>. QED  BY <1>2, <1>7, EntryPoint, AvoidingClosed, LiveIsDefined DEF D
  <2>. QED  BY <1>6, <2>1, EntryPoint
<1>10. ASSUME NEW d \in 1..Len(fn)
       PROVE  /\ \A s \in fn[d].succs : EndOf(fn, d) \in W => <<s, 1>> \in W
              /\ \A j \in 1..Len(fn[d].ops) : <<d, j>> \in W => <<d, j + 1>> \in W
  <2>. HIDE DEF D
  <2>1. ASSUME NEW s \in fn[d].succs, EndOf(fn, d) \in W PROVE <<s, 1>> \in W
    <3>1. EndOf(fn, d) \notin D
      BY <1>1, <1>6, <2>1 DEF EndOf
    <3>2. s \in 1..Len(fn) /\ <<s, 1>> \in Points(fn)
      BY PointsAround
    <3>3. s # b => <<s, 1>> \notin D
      BY <1>3, <1>7, <3>1, <3>2 DEF BackwardClosed
    <3>. QED  BY <1>6, <3>2, <3>3
  <2>2. ASSUME NEW j \in 1..Len(fn[d].ops), <<d, j>> \in W PROVE <<d, j + 1>> \in W
    <3>1. <<d, j + 1>> \in Points(fn)
      BY PointsAround
    <3>2. d # b => <<d, j + 1>> \notin D
      BY <1>3, <1>6, <1>7, <2>2 DEF BackwardClosed
    <3>. QED  BY <1>6, <3>1, <3>2
  <2>. QED  BY <2>1, <2>2
<1>11. W = Points(fn)
  BY <1>8, <1>9, <1>10, EveryPointReached
<1>. QED  BY <1>3, <1>5, <1>6, <1>11

(* What flows into a block flows from its start: a value that the block     *)
(* does not define and that it uses, or that is live at its end.            *)
LEMMA LiveThroughBlock ==
  ASSUME NEW fn, IsSSA(fn), NEW b \in 1..Len(fn), NEW v, v \notin OpDefs(fn[b]),
         v \in OpUses(fn[b]) \/ EndOf(fn, b) \in LivePoints(fn, v)
  PROVE  <<b, 1>> \in LivePoints(fn, v)
<1>. DEFINE D == LivePoints(fn, v)
            T == {i \in Nat : <<b, i>> \in D}
<1>1. HasUses(fn, D, v) /\ BackwardClosed(fn, D, v)
  BY LiveClosed
<1>2. Len(fn[b].ops) \in Nat
  BY PointsOfBlock
<1>3. \A i \in 1..Len(fn[b].ops) : v \notin fn[b].ops[i].results
  BY DEF OpDefs
<1>4. PICK n \in 1..(Len(fn[b].ops) + 1) : n \in T
  <2>1. CASE v \in OpUses(fn[b])
    <3>1. PICK i \in 1..Len(fn[b].ops) : v \in Uses(fn[b].ops[i])
      BY <2>1 DEF OpUses
    <3>2. i \in T /\ i \in 1..(Len(fn[b].ops) + 1)
      BY <1>1, <1>2, <3>1 DEF HasUses
    <3>. QED  BY <3>2
  <2>2. CASE EndOf(fn, b) \in D
    <3>1. Len(fn[b].ops) + 1 \in T
      BY <1>2, <2>2 DEF EndOf
    <3>. QED  BY <1>2, <3>1
  <2>. QED  BY <2>1, <2>2
<1>5. \A i \in 1..(n - 1) : i + 1 \in T => i \in T
  <2>1. \A i \in 1..(n - 1) : i \in 1..Len(fn[b].ops)
    BY <1>2
  <2>. HIDE DEF D
  <2>. QED  BY <1>1, <1>3, <2>1 DEF BackwardClosed
<1>6. n \in Nat /\ 1 \in 1..n
  BY <1>2
<1>. HIDE DEF T
<1>7. 1 \in T
  BY <1>4, <1>5, <1>6, CountDown
<1>. QED  BY <1>7 DEF T

(* What the analysis finds is live.                                         *)
LEMMA LiveOutsSound ==
  ASSUME NEW fn, IsSSA(fn), EveryBlockReached(fn), UsesDominated(fn)
  PROVE  /\ LiveOuts(fn) \in Outs(fn)
         /\ \A b \in 1..Len(fn) : LiveOuts(fn)[b] \subseteq LiveAt(fn, EndOf(fn, b))
<1>. DEFINE J == {outs \in Outs(fn) :
                    \A b \in 1..Len(fn) : outs[b] \subseteq LiveAt(fn, EndOf(fn, b))}
<1>1. InitialLiveOut(fn) \in J
  <2>1. ASSUME NEW b \in 1..Len(fn), NEW v \in InitialLiveOut(fn)[b]
        PROVE  v \in LiveAt(fn, EndOf(fn, b))
    <3>1. PICK c \in 1..Len(fn) \ {b} : v \in OpUses(fn[c])
      BY DEF InitialLiveOut
    <3>2. v \in Defs(fn[b]) /\ v \in FunctionValues(fn)
      BY OpsOfFunction DEF InitialLiveOut
    <3>. QED  BY <3>1, <3>2, UsedElsewhere DEF LiveAt
  <2>. QED  BY <2>1, InitialOuts
<1>2. ASSUME NEW outs \in J PROVE PassToPredecessors(fn, outs) \in J
  <2>1. ASSUME NEW b \in 1..Len(fn), NEW s \in fn[b].succs,
               NEW v \in LiveInGiven(fn[s], outs[s])
        PROVE  v \in LiveAt(fn, EndOf(fn, b))
    <3>1. s \in 1..Len(fn)
      BY PointsAround
    <3>2. /\ v \notin Arguments(fn[s]) /\ v \notin OpDefs(fn[s])
          /\ v \in OpUses(fn[s]) \/ v \in outs[s]
      BY DEF LiveInGiven, Defs
    <3>3. v \in FunctionValues(fn)
      BY <3>1, <3>2, OpsOfFunction DEF Outs
    <3>4. v \in OpUses(fn[s]) \/ EndOf(fn, s) \in LivePoints(fn, v)
      BY <3>1, <3>2 DEF LiveAt
    <3>5. <<s, 1>> \in LivePoints(fn, v)
      BY <3>1, <3>2, <3>4, LiveThroughBlock
    <3>6. EndOf(fn, b) \in LivePoints(fn, v)
      BY <3>2, <3>5, LiveClosed DEF BackwardClosed
    <3>. QED  BY <3>3, <3>6 DEF LiveAt
  <2>. QED  BY <2>1, PassAdds
<1>3. J \in SUBSET Outs(fn)
  OBVIOUS
<1>. HIDE DEF J
<1>4. LiveOuts(fn) \in J
  BY <1>1, <1>2, <1>3, LiveOutsSettle
<1>. QED  BY <1>4 DEF J

(* It finds everything that is live: the points from which its sets say     *)
(* that v is needed contain the uses and are closed backwards.              *)
LEMMA LiveOutsComplete ==
  ASSUME NEW fn, IsSSA(fn), EveryBlockReached(fn), UsesDominated(fn),
         NEW outs \in Outs(fn), PassToPredecessors(fn, outs) = outs,
         NEW b \in 1..Len(fn), NEW v \in LiveAt(fn, EndOf(fn, b))
  PROVE  v \in outs[b]
<1>. DEFINE Kept(c, i, j) == \A k \in i..(j - 1) : v \notin fn[c].ops[k].results
            UsedFrom(c, i) == \E j \in i..Len(fn[c].ops) :
                                v \in Uses(fn[c].ops[j]) /\ Kept(c, i, j)
            Leaves(c, i) == v \in outs[c] /\ Kept(c, i, Len(fn[c].ops) + 1)
            Q == {p \in Points(fn) : UsedFrom(p[1], p[2]) \/ Leaves(p[1], p[2])}
<1>1. \A c, i : <<c, i>> \in Q <=>
                <<c, i>> \in Points(fn) /\ (UsedFrom(c, i) \/ Leaves(c, i))
  OBVIOUS
<1>2. Q \in SUBSET Points(fn)
  OBVIOUS
<1>. HIDE DEF Q
<1>3. HasUses(fn, Q, v)
  <2>1. ASSUME NEW c \in 1..Len(fn), NEW i \in 1..Len(fn[c].ops), v \in Uses(fn[c].ops[i])
        PROVE  <<c, i>> \in Q
    <3>1. Kept(c, i, i) /\ i \in i..Len(fn[c].ops)
      BY PointsOfBlock
    <3>2. UsedFrom(c, i)
      BY <2>1, <3>1
    <3>. QED  BY <1>1, <3>2, PointsAround
  <2>. QED  BY <2>1 DEF HasUses
<1>4. ASSUME NEW c \in 1..Len(fn) PROVE EndOf(fn, c) \in Q <=> v \in outs[c]
  <2>. DEFINE n == Len(fn[c].ops)
  <2>1. n \in Nat
    BY PointsOfBlock
  <2>2. ~UsedFrom(c, n + 1) /\ Kept(c, n + 1, n + 1)
    BY <2>1
  <2>3. EndOf(fn, c) = <<c, n + 1>> /\ <<c, n + 1>> \in Points(fn)
    BY PointsOfBlock
  <2>. QED  BY <1>1, <2>2, <2>3
<1>5. ASSUME NEW c \in 1..Len(fn), NEW i \in 1..Len(fn[c].ops),
             <<c, i + 1>> \in Q, v \notin fn[c].ops[i].results
      PROVE  <<c, i>> \in Q
  <2>1. i \in Nat /\ Len(fn[c].ops) \in Nat
    BY PointsOfBlock
  <2>2. ASSUME NEW j \in Nat, Kept(c, i + 1, j) PROVE Kept(c, i, j)
    <3>1. \A k \in i..(j - 1) : k = i \/ k \in (i + 1)..(j - 1)
      BY <2>1
    <3>. QED  BY <1>5, <2>2, <3>1
  <2>3. UsedFrom(c, i + 1) => UsedFrom(c, i)
    <3>1. SUFFICES ASSUME NEW j \in (i + 1)..Len(fn[c].ops),
                          v \in Uses(fn[c].ops[j]), Kept(c, i + 1, j)
                   PROVE  UsedFrom(c, i)
      OBVIOUS
    <3>2. j \in Nat /\ j \in i..Len(fn[c].ops)
      BY <2>1
    <3>. HIDE DEF Kept
    <3>. QED  BY <2>2, <3>1, <3>2
  <2>4. Leaves(c, i + 1) => Leaves(c, i)
    <3>1. Len(fn[c].ops) + 1 \in Nat
      BY <2>1
    <3>. HIDE DEF Kept
    <3>. QED  BY <2>2, <3>1
  <2>. HIDE DEF UsedFrom, Leaves
  <2>. QED  BY <1>1, <1>5, <2>3, <2>4, PointsAround
<1>6. ASSUME NEW c \in 1..Len(fn), NEW s \in fn[c].succs,
             <<s, 1>> \in Q, v \notin Arguments(fn[s])
      PROVE  EndOf(fn, c) \in Q
  <2>1. s \in 1..Len(fn) /\ Len(fn[s].ops) \in Nat
    BY PointsAround, PointsOfBlock
  <2>2. SUFFICES v \in LiveInGiven(fn[s], outs[s])
    BY <1>4, PassAdds
  <2>3. v \notin OpDefs(fn[s]) /\ (v \in OpUses(fn[s]) \/ v \in outs[s])
    <3>1. CASE UsedFrom(s, 1)
      <4>1. PICK j \in 1..Len(fn[s].ops) : v \in Uses(fn[s].ops[j]) /\ Kept(s, 1, j)
        BY <3>1
      <4>2. ASSUME NEW k \in 1..Len(fn[s].ops), v \in fn[s].ops[k].results PROVE FALSE
        <5>1. k \notin 1..(j - 1)
          BY <4>1, <4>2
        <5>2. j \in 1..k
          BY <2>1, <5>1
        <5>. QED  BY <2>1, <4>1, <4>2, <5>2, NotLiveBefore
      <4>. QED  BY <4>1, <4>2 DEF OpDefs, OpUses
    <3>2. CASE Leaves(s, 1)
      <4>1. \A k \in 1..Len(fn[s].ops) : k \in 1..((Len(fn[s].ops) + 1) - 1)
        BY <2>1
      <4>2. v \in outs[s] /\ \A k \in 1..Len(fn[s].ops) : v \notin fn[s].ops[k].results
        BY <3>2, <4>1
      <4>. QED  BY <4>2 DEF OpDefs
    <3>. QED  BY <1>1, <1>6, <3>1, <3>2
  <2>. QED  BY <1>6, <2>3 DEF LiveInGiven, Defs
<1>7. BackwardClosed(fn, Q, v)
  BY <1>5, <1>6 DEF BackwardClosed
<1>8. LivePoints(fn, v) \subseteq Q
  BY <1>2, <1>3, <1>7, LiveClosed
<1>. QED  BY <1>4, <1>8 DEF LiveAt

(* MLIR's liveness, a fixed point over the blocks, is liveness along the    *)
(* paths of the function.                                                   *)
THEOREM LivenessExact ==
  ASSUME NEW fn, IsSSA(fn), EveryBlockReached(fn), UsesDominated(fn)
  PROVE  LivenessIsExact(fn)
<1>1. LiveOuts(fn) \in Outs(fn)
  BY LiveOutsSound
<1>2. PassToPredecessors(fn, LiveOuts(fn)) = LiveOuts(fn)
  <2>1. \A outs \in Outs(fn) : PassToPredecessors(fn, outs) \in Outs(fn)
    BY PassAdds
  <2>2. Outs(fn) \in SUBSET Outs(fn)
    OBVIOUS
  <2>. QED  BY <2>1, <2>2, InitialOuts, LiveOutsSettle
<1>3. ASSUME NEW b \in 1..Len(fn) PROVE LiveOuts(fn)[b] = LiveAt(fn, EndOf(fn, b))
  <2>. DEFINE outs == LiveOuts(fn)
  <2>1. outs[b] \subseteq LiveAt(fn, EndOf(fn, b))
    BY LiveOutsSound
  <2>2. outs \in Outs(fn) /\ PassToPredecessors(fn, outs) = outs
    BY <1>1, <1>2
  <2>. HIDE DEF outs
  <2>3. \A v \in LiveAt(fn, EndOf(fn, b)) : v \in outs[b]
    BY <2>2, LiveOutsComplete
  <2>4. outs[b] = LiveAt(fn, EndOf(fn, b))
    BY <2>1, <2>3
  <2>. QED  BY <2>4 DEF outs
<1>. QED  BY <1>3 DEF LivenessIsExact, getLiveOut

-----------------------------------------------------------------------------
(* Which of two values is defined first. *)

(* If v is live at all places where w is defined, the ways that avoid v     *)
(* avoid w.                                                                 *)
LEMMA AvoidsBoth ==
  ASSUME NEW fn, IsSSA(fn), NEW v, NEW w, w \notin Arguments(fn[1]),
         \A c \in 1..Len(fn) :
           /\ \A s \in fn[c].succs :
                w \in Arguments(fn[s]) /\ v \notin Arguments(fn[s])
                  => EndOf(fn, c) \notin Avoiding(fn, v)
           /\ \A j \in 1..Len(fn[c].ops) :
                w \in fn[c].ops[j].results => <<c, j>> \notin Avoiding(fn, v)
  PROVE  Avoiding(fn, v) \subseteq Avoiding(fn, w)
<1>. DEFINE A == Avoiding(fn, v)
            B == Avoiding(fn, w)
            Q == A \cap B
<1>1. /\ v \notin Arguments(fn[1]) => <<1, 1>> \in A
      /\ <<1, 1>> \in B
      /\ ForwardClosed(fn, A, v) /\ ForwardClosed(fn, B, w)
      /\ A \subseteq Points(fn)
  BY AvoidingClosed
<1>2. \A Q_1 \in SUBSET Points(fn) :
        /\ v \notin Arguments(fn[1]) => <<1, 1>> \in Q_1
        /\ ForwardClosed(fn, Q_1, v)
        => A \subseteq Q_1
  BY AvoidingClosed
<1>. HIDE DEF A, B
<1>3. ForwardClosed(fn, Q, v)
  <2>1. ASSUME NEW c \in 1..Len(fn)
        PROVE  /\ \A s \in fn[c].succs :
                    EndOf(fn, c) \in Q /\ v \notin Arguments(fn[s]) => <<s, 1>> \in Q
               /\ \A j \in 1..Len(fn[c].ops) :
                    <<c, j>> \in Q /\ v \notin fn[c].ops[j].results => <<c, j + 1>> \in Q
    BY <1>1 DEF ForwardClosed, A
  <2>. HIDE DEF Q
  <2>. QED  BY <2>1 DEF ForwardClosed
<1>4. A \subseteq Q
  BY <1>1, <1>2, <1>3
<1>. QED  BY <1>4 DEF A, B

(* Two values with the same definition are avoided alike.                   *)
LEMMA AvoidedAlike ==
  ASSUME NEW fn, IsSSA(fn), NEW v, NEW w,
         \A c \in 1..Len(fn) :
           /\ v \in Arguments(fn[c]) <=> w \in Arguments(fn[c])
           /\ \A j \in 1..Len(fn[c].ops) :
                v \in fn[c].ops[j].results <=> w \in fn[c].ops[j].results
  PROVE  Avoiding(fn, v) = Avoiding(fn, w)
<1>1. \A P : ForwardClosed(fn, P, v) <=> ForwardClosed(fn, P, w)
  BY PointsAround DEF ForwardClosed
<1>2. v \in Arguments(fn[1]) <=> w \in Arguments(fn[1])
  BY EntryPoint
<1>3. Avoiding(fn, v) \in SUBSET Points(fn) /\ Avoiding(fn, w) \in SUBSET Points(fn)
  BY AvoidingClosed
<1>4. Avoiding(fn, v) \subseteq Avoiding(fn, w)
  BY <1>1, <1>2, <1>3, AvoidingClosed
<1>5. Avoiding(fn, w) \subseteq Avoiding(fn, v)
  BY <1>1, <1>2, <1>3, AvoidingClosed
<1>. QED  BY <1>4, <1>5

(* v is live where w is defined, but w not where v is: then w is defined    *)
(* later than v, or at the same place and never live.                       *)
DefinedLater(fn, v, w) ==
  \/ Avoiding(fn, v) \subseteq Avoiding(fn, w) /\ Avoiding(fn, v) # Avoiding(fn, w)
  \/ /\ Avoiding(fn, v) = Avoiding(fn, w)
     /\ LivePoints(fn, w) = {} /\ LivePoints(fn, v) # {}

LEMMA LaterAtBlock ==
  ASSUME NEW fn, IsSSA(fn), EveryBlockReached(fn), UsesDominated(fn),
         NEW v \in FunctionValues(fn), NEW w \in FunctionValues(fn),
         NEW b \in 1..Len(fn), w \in Arguments(fn[b]), <<b, 1>> \in LivePoints(fn, v),
         <<v, w>> \notin LiveAtDefinition(fn)
  PROVE  DefinedLater(fn, v, w)
<1>1. CASE v \in Arguments(fn[b])
  <2>1. v \in Defs(fn[b]) \ OpDefs(fn[b])
    BY <1>1, OneDefinition
  <2>2. <<b, 1>> \notin LivePoints(fn, w)
    BY <2>1, PairsAtDefinition DEF LiveAt
  <2>3. LivePoints(fn, w) = {}
    BY <2>2, LiveWhereDefined
  <2>4. \A c \in 1..Len(fn) :
          /\ v \in Arguments(fn[c]) <=> w \in Arguments(fn[c])
          /\ \A j \in 1..Len(fn[c].ops) :
               v \in fn[c].ops[j].results <=> w \in fn[c].ops[j].results
    BY <1>1, OneDefinition
  <2>. QED  BY <2>3, <2>4, AvoidedAlike DEF DefinedLater
<1>2. CASE v \notin Arguments(fn[b])
  <2>1. BackwardClosed(fn, LivePoints(fn, v), v)
    BY LiveClosed
  <2>2. b # 1
    BY <1>2, AvoidingClosed, LiveIsDefined
  <2>3. \A c \in 1..Len(fn) : b \in fn[c].succs => EndOf(fn, c) \notin Avoiding(fn, v)
    BY <1>2, <2>1, LiveIsDefined DEF BackwardClosed
  <2>4. PICK a \in 1..Len(fn) : b \in fn[a].succs /\ EndOf(fn, a) \in Avoiding(fn, w)
    BY <2>2, BeforeBlock
  <2>5. /\ w \notin Arguments(fn[1])
        /\ \A c \in 1..Len(fn) :
             /\ \A s \in fn[c].succs :
                  w \in Arguments(fn[s]) /\ v \notin Arguments(fn[s])
                    => EndOf(fn, c) \notin Avoiding(fn, v)
             /\ \A j \in 1..Len(fn[c].ops) :
                  w \in fn[c].ops[j].results => <<c, j>> \notin Avoiding(fn, v)
    <3>1. w \notin Arguments(fn[1])
      BY <2>2, EntryPoint, OneDefinition
    <3>2. ASSUME NEW c \in 1..Len(fn), NEW s \in fn[c].succs, w \in Arguments(fn[s])
          PROVE  s = b
      BY <3>2, PointsAround, OneDefinition
    <3>3. \A c \in 1..Len(fn) : \A j \in 1..Len(fn[c].ops) : w \notin fn[c].ops[j].results
      BY OneDefinition
    <3>. QED  BY <2>3, <3>1, <3>2, <3>3
  <2>6. Avoiding(fn, v) \subseteq Avoiding(fn, w)
    BY <2>5, AvoidsBoth
  <2>. QED  BY <2>3, <2>4, <2>6 DEF DefinedLater
<1>. QED  BY <1>1, <1>2

LEMMA LaterAtOperation ==
  ASSUME NEW fn, IsSSA(fn), EveryBlockReached(fn), UsesDominated(fn),
         NEW v \in FunctionValues(fn), NEW w \in FunctionValues(fn),
         NEW b \in 1..Len(fn), NEW i \in 1..Len(fn[b].ops), w \in fn[b].ops[i].results,
         v \in Uses(fn[b].ops[i]) \/ <<b, i + 1>> \in LivePoints(fn, v),
         <<v, w>> \notin LiveAtDefinition(fn)
  PROVE  DefinedLater(fn, v, w)
<1>1. CASE v \in fn[b].ops[i].results
  <2>1. <<b, i + 1>> \notin LivePoints(fn, w)
    BY <1>1, PairsAtDefinition DEF LiveAt
  <2>2. LivePoints(fn, w) = {}
    BY <2>1, LiveWhereDefined
  <2>3. LivePoints(fn, v) # {}
    <3>1. i \in 1..i
      BY PointsAround
    <3>. QED  BY <1>1, <3>1, NotLiveBefore
  <2>4. \A c \in 1..Len(fn) :
          /\ v \in Arguments(fn[c]) <=> w \in Arguments(fn[c])
          /\ \A j \in 1..Len(fn[c].ops) :
               v \in fn[c].ops[j].results <=> w \in fn[c].ops[j].results
    BY <1>1, OneDefinition
  <2>. QED  BY <2>2, <2>3, <2>4, AvoidedAlike DEF DefinedLater
<1>2. CASE v \notin fn[b].ops[i].results
  <2>1. <<b, i>> \in LivePoints(fn, v)
    BY <1>2, LiveClosed DEF HasUses, BackwardClosed
  <2>2. <<b, i>> \notin Avoiding(fn, v)
    BY <2>1, LiveIsDefined
  <2>3. <<b, i>> \in Avoiding(fn, w)
    BY BeforeDefinition
  <2>4. /\ w \notin Arguments(fn[1])
        /\ \A c \in 1..Len(fn) :
             /\ \A s \in fn[c].succs : w \notin Arguments(fn[s])
             /\ \A j \in 1..Len(fn[c].ops) :
                  w \in fn[c].ops[j].results => <<c, j>> \notin Avoiding(fn, v)
    <3>1. w \notin Arguments(fn[1])
      BY EntryPoint, OneDefinition
    <3>2. \A c \in 1..Len(fn) : \A s \in fn[c].succs : w \notin Arguments(fn[s])
      BY PointsAround, OneDefinition
    <3>3. \A c \in 1..Len(fn) : \A j \in 1..Len(fn[c].ops) :
            w \in fn[c].ops[j].results => c = b /\ j = i
      BY OneDefinition
    <3>. QED  BY <2>2, <3>1, <3>2, <3>3
  <2>5. Avoiding(fn, v) \subseteq Avoiding(fn, w)
    BY <2>4, AvoidsBoth
  <2>. QED  BY <2>2, <2>3, <2>5 DEF DefinedLater
<1>. QED  BY <1>1, <1>2

LEMMA LiveAtLaterOne ==
  ASSUME NEW fn, IsSSA(fn), EveryBlockReached(fn), UsesDominated(fn),
         NEW v \in FunctionValues(fn), NEW w \in FunctionValues(fn),
         <<w, v>> \in LiveAtDefinition(fn), <<v, w>> \notin LiveAtDefinition(fn)
  PROVE  DefinedLater(fn, v, w)
<1>1. PICK b \in 1..Len(fn) :
        \/ w \in Defs(fn[b]) \ OpDefs(fn[b]) /\ v \in LiveAt(fn, <<b, 1>>)
        \/ \E i \in 1..Len(fn[b].ops) :
             /\ w \in fn[b].ops[i].results
             /\ v \in Uses(fn[b].ops[i]) \cup LiveAt(fn, <<b, i + 1>>)
  BY PairsAtDefinition
<1>2. CASE w \in Defs(fn[b]) \ OpDefs(fn[b]) /\ v \in LiveAt(fn, <<b, 1>>)
  BY <1>2, LaterAtBlock DEF Defs, LiveAt
<1>3. ASSUME NEW i \in 1..Len(fn[b].ops), w \in fn[b].ops[i].results,
             v \in Uses(fn[b].ops[i]) \cup LiveAt(fn, <<b, i + 1>>)
      PROVE  DefinedLater(fn, v, w)
  BY <1>3, LaterAtOperation DEF LiveAt
<1>. QED  BY <1>1, <1>2, <1>3

(* Among any values there is one that is defined last: where it is defined  *)
(* all those are live that are ever live together with it.                  *)
LEMMA LastDefined ==
  ASSUME NEW fn, IsSSA(fn), EveryBlockReached(fn), UsesDominated(fn),
         NEW S \in SUBSET FunctionValues(fn), S # {}
  PROVE  \E v \in S : \A w \in S :
           <<w, v>> \in LiveAtDefinition(fn) => <<v, w>> \in LiveAtDefinition(fn)
<1>. DEFINE size(v) == Cardinality(Points(fn) \ Avoiding(fn, v))
            m(v) == 2 * size(v) + (IF LivePoints(fn, v) = {} THEN 0 ELSE 1)
            T == {m(v) : v \in S}
<1>1. ASSUME NEW v
      PROVE  /\ IsFiniteSet(Points(fn) \ Avoiding(fn, v))
             /\ size(v) \in Nat /\ m(v) \in Nat
  <2>1. IsFiniteSet(Points(fn) \ Avoiding(fn, v))
    BY PointsFinite, FS_Subset
  <2>2. size(v) \in Nat
    BY <2>1, FS_CardinalityType
  <2>. QED  BY <2>1, <2>2
<1>2. PICK n \in T : \A k \in T : n <= k
  <2>1. T \subseteq Nat /\ T # {}
    BY <1>1
  <2>. HIDE DEF T
  <2>. QED  BY <2>1, LeastNatural
<1>3. PICK v \in S : m(v) = n
  OBVIOUS
<1>4. ASSUME NEW w \in S, DefinedLater(fn, v, w) PROVE FALSE
  <2>1. m(v) <= m(w)
    BY <1>2, <1>3
  <2>2. CASE Avoiding(fn, v) \subseteq Avoiding(fn, w) /\ Avoiding(fn, v) # Avoiding(fn, w)
    <3>. DEFINE V == Points(fn) \ Avoiding(fn, v)
                W == Points(fn) \ Avoiding(fn, w)
    <3>1. W \in SUBSET V /\ W # V
      BY <2>2, AvoidingClosed
    <3>2. IsFiniteSet(V) /\ size(v) = Cardinality(V) /\ size(w) = Cardinality(W)
      BY <1>1
    <3>3. size(v) \in Nat /\ size(w) \in Nat
      BY <1>1
    <3>. HIDE DEF V, W, size
    <3>4. size(w) <= size(v) /\ size(w) # size(v)
      BY <3>1, <3>2, FS_Subset
    <3>. QED  BY <2>1, <3>3, <3>4
  <2>3. CASE /\ Avoiding(fn, v) = Avoiding(fn, w)
             /\ LivePoints(fn, w) = {} /\ LivePoints(fn, v) # {}
    <3>1. size(v) = size(w) /\ size(v) \in Nat
      BY <1>1, <2>3
    <3>. HIDE DEF size
    <3>. QED  BY <2>1, <2>3, <3>1
  <2>. QED  BY <1>4, <2>2, <2>3 DEF DefinedLater
<1>5. \A w \in S : <<w, v>> \in LiveAtDefinition(fn) => <<v, w>> \in LiveAtDefinition(fn)
  BY <1>4, LiveAtLaterOne
<1>. QED  BY <1>5

-----------------------------------------------------------------------------
(* connect() *)

(* The pairs connect(g, R, L) joins are those of R and L, both ways round.  *)
Crossed(R, L, v, w) == v \in R /\ w \in L /\ v # w

LEMMA ConnectEdges ==
  ASSUME NEW g, NEW R, NEW L, NEW v, NEW w
  PROVE  w \in Entry(connect(g, R, L), v) <=>
           w \in Entry(g, v) \/ Crossed(R, L, v, w) \/ Crossed(R, L, w, v)
<1>. DEFINE linked == {r \in R : L \ {r} # {}} \cup {l \in L : R \ {l} # {}}
            h == [u \in DOMAIN g \cup linked |->
                    Entry(g, u) \cup (IF u \in R THEN L \ {u} ELSE {})
                                \cup (IF u \in L THEN R \ {u} ELSE {})]
<1>1. connect(g, R, L) = h
  BY DEF connect
<1>2. CASE v \in DOMAIN g \cup linked
  <2>1. Entry(h, v) = h[v]
    BY <1>2 DEF Entry
  <2>2. h[v] = Entry(g, v) \cup (IF v \in R THEN L \ {v} ELSE {})
                           \cup (IF v \in L THEN R \ {v} ELSE {})
    BY <1>2
  <2>. QED  BY <1>1, <2>1, <2>2 DEF Crossed
<1>3. CASE v \notin DOMAIN g \cup linked
  <2>1. Entry(h, v) = {} /\ Entry(g, v) = {}
    BY <1>3 DEF Entry
  <2>2. ~Crossed(R, L, v, w) /\ ~Crossed(R, L, w, v)
    BY <1>3 DEF Crossed
  <2>. QED  BY <1>1, <2>1, <2>2
<1>. QED  BY <1>2, <1>3

(* The graph stays an interference graph, and has no isolated nodes.        *)
LEMMA ConnectGraph ==
  ASSUME NEW g, NEW R, NEW L,
         IsInterferenceGraph(g),
         \A v \in DOMAIN g : g[v] # {}
  PROVE  /\ IsInterferenceGraph(connect(g, R, L))
         /\ \A v \in DOMAIN connect(g, R, L) : connect(g, R, L)[v] # {}
         /\ DOMAIN connect(g, R, L) \subseteq DOMAIN g \cup R \cup L
<1>. DEFINE linked == {r \in R : L \ {r} # {}} \cup {l \in L : R \ {l} # {}}
            h == [u \in DOMAIN g \cup linked |->
                    Entry(g, u) \cup (IF u \in R THEN L \ {u} ELSE {})
                                \cup (IF u \in L THEN R \ {u} ELSE {})]
<1>1. connect(g, R, L) = h /\ DOMAIN h = DOMAIN g \cup linked
  BY DEF connect
<1>2. /\ \A v \in DOMAIN g : g[v] \subseteq DOMAIN g /\ v \notin g[v]
      /\ \A v, w \in DOMAIN g : w \in g[v] <=> v \in g[w]
  BY DEF IsInterferenceGraph, IsClosed, IsSymmetric, IsIrreflexive
<1>3. \A v \in DOMAIN h : h[v] = Entry(h, v)
  BY DEF Entry
<1>4. ASSUME NEW v \in DOMAIN h, NEW w
      PROVE  w \in h[v] <=>
               w \in Entry(g, v) \/ Crossed(R, L, v, w) \/ Crossed(R, L, w, v)
  <2>1. h[v] = Entry(connect(g, R, L), v)
    BY <1>1, <1>3
  <2>. HIDE DEF h
  <2>. QED  BY <2>1, ConnectEdges
<1>5. \A v, w : Crossed(R, L, v, w) => v \in linked /\ w \in linked
  BY DEF Crossed
<1>6. \A v, w : w \in Entry(g, v) => v \in DOMAIN g /\ w \in DOMAIN g /\ v \in Entry(g, w) /\ v # w
  BY <1>2 DEF Entry
<1>7. \A v \in DOMAIN h : h[v] \subseteq DOMAIN h
  BY <1>1, <1>4, <1>5, <1>6
<1>8. IsClosed(h)
  BY <1>7 DEF IsClosed
<1>9. IsSymmetric(h)
  BY <1>4, <1>6 DEF IsSymmetric
<1>10. IsIrreflexive(h)
  BY <1>4, <1>6 DEF IsIrreflexive, Crossed
<1>11. ASSUME NEW v \in DOMAIN h
       PROVE  h[v] # {}
  <2>1. CASE v \in DOMAIN g
    BY <1>4, <2>1 DEF Entry
  <2>2. CASE v \in linked
    <3>1. \E w : Crossed(R, L, v, w) \/ Crossed(R, L, w, v)
      BY <2>2 DEF Crossed
    <3>. QED  BY <1>4, <3>1
  <2>. QED  BY <1>1, <2>1, <2>2
<1>. QED  BY <1>1, <1>8, <1>9, <1>10, <1>11 DEF IsInterferenceGraph

-----------------------------------------------------------------------------
(* The inductive invariant. *)

Counters ==
  /\ func \in Funcs
  /\ block \in 1..Len(func)
  /\ opsLeft \in 0..Len(func[block].ops)
  /\ argsDone \in 0..Len(func[block].args)
  /\ opsLeft > 0 => argsDone = 0

(* The edges the scan adds at an operation, and at an argument, where the   *)
(* arguments before it are no longer live.                                  *)
OpEdge(b, i, v, w) ==
  /\ v \in func[b].ops[i].results
  /\ w \in Uses(func[b].ops[i]) \cup LiveAt(func, <<b, i + 1>>)
  /\ v # w

ArgEdge(b, k, v, w) ==
  /\ v = func[b].args[k]
  /\ w \in LiveAt(func, <<b, 1>>)
  /\ \A j \in 1..k : w # func[b].args[j]

OpVisited(b, i)  == b > block \/ (b = block /\ i > opsLeft)
ArgVisited(b, k) == b > block \/ (b = block /\ k <= argsDone)

JoinedAtOp(v, w) ==
  \E b \in 1..Len(func) : \E i \in 1..Len(func[b].ops) :
    OpVisited(b, i) /\ OpEdge(b, i, v, w)

JoinedAtArg(v, w) ==
  \E b \in 1..Len(func) : \E k \in 1..Len(func[b].args) :
    ArgVisited(b, k) /\ ArgEdge(b, k, v, w)

Joined(v, w) == JoinedAtOp(v, w) \/ JoinedAtArg(v, w)

(* The edges are those of the places the scan has visited. *)
EdgesExact ==
  \A v, w \in FunctionValues(func) :
    w \in Entry(adjacency, v) <=> Joined(v, w) \/ Joined(w, v)

IInv ==
  /\ Counters
  /\ LiveNowExact
  /\ DOMAIN adjacency \subseteq FunctionValues(func)
  /\ IsInterferenceGraph(adjacency)
  /\ NoIsolatedNodes
  /\ EdgesExact

-----------------------------------------------------------------------------
(* The values of the function. *)

LEMMA OwnValues ==
  ASSUME NEW fn, NEW b \in 1..Len(fn)
  PROVE  /\ \A k \in 1..Len(fn[b].args) : fn[b].args[k] \in FunctionValues(fn)
         /\ \A i \in 1..Len(fn[b].ops) : fn[b].ops[i].results \subseteq FunctionValues(fn)
  BY DEF FunctionValues, Defs, Arguments, OpDefs

LEMMA LiveAreValues ==
  ASSUME NEW fn, NEW p
  PROVE  LiveAt(fn, p) \subseteq FunctionValues(fn)
  BY DEF LiveAt

(* What the assumptions say of the function that is scanned, and what       *)
(* follows from them for its liveness.                                      *)
LEMMA ScannedFunction ==
  ASSUME func \in Funcs
  PROVE  /\ IsSSA(func) /\ EveryBlockReached(func) /\ UsesDominated(func)
         /\ LivenessIsExact(func) /\ LiveFromDefinitions(func)
<1>1. IsSSA(func) /\ EveryBlockReached(func) /\ UsesDominated(func)
  BY FunctionsAssumption, DominanceAssumption
<1>. QED  BY <1>1, LivenessExact, DefinitionsReach

LEMMA InitInvariant == Init => IInv
<1>. SUFFICES ASSUME Init PROVE IInv
  OBVIOUS
<1>1. func \in Funcs /\ block = Len(func) /\ argsDone = 0
      /\ opsLeft = Len(func[block].ops) /\ adjacency = EmptyGraph
      /\ liveNow = getLiveOut(func, block)
  BY DEF Init
<1>2. IsSSA(func) /\ LivenessIsExact(func)
  BY <1>1, ScannedFunction
<1>3. block \in 1..Len(func) /\ Len(func[block].ops) \in Nat /\ Len(func[block].args) \in Nat
  BY <1>1, <1>2 DEF IsSSA
<1>4. Counters
  BY <1>1, <1>3 DEF Counters
<1>5. LiveNowExact
  <2>1. VisitedArgs = {}
    BY <1>1 DEF VisitedArgs
  <2>2. getLiveOut(func, block) = LiveAt(func, EndOf(func, block))
    BY <1>2, <1>3 DEF LivenessIsExact
  <2>3. EndOf(func, block) = Here
    BY <1>1 DEF EndOf, Here
  <2>. QED  BY <1>1, <2>1, <2>2, <2>3 DEF LiveNowExact
<1>6. DOMAIN adjacency = {}
  BY <1>1 DEF EmptyGraph
<1>7. IsInterferenceGraph(adjacency)
  BY <1>1 DEF EmptyGraph, IsInterferenceGraph, IsClosed, IsSymmetric, IsIrreflexive
<1>8. NoIsolatedNodes
  BY <1>6 DEF NoIsolatedNodes
<1>9. EdgesExact
  <2>1. \A b \in 1..Len(func) : \A i \in 1..Len(func[b].ops) : ~OpVisited(b, i)
    BY <1>1, <1>2, <1>3 DEF OpVisited, IsSSA
  <2>2. \A b \in 1..Len(func) : \A k \in 1..Len(func[b].args) : ~ArgVisited(b, k)
    BY <1>1, <1>2, <1>3 DEF ArgVisited, IsSSA
  <2>3. \A v, w : ~Joined(v, w)
    BY <2>1, <2>2 DEF Joined, JoinedAtOp, JoinedAtArg
  <2>. QED  BY <1>6, <2>3 DEF EdgesExact, Entry
<1>. QED  BY <1>4, <1>5, <1>6, <1>7, <1>8, <1>9 DEF IInv

-----------------------------------------------------------------------------
(* An operation: the scan has come to an operation with no argument of the  *)
(* block visited yet.                                                       *)
LEMMA VisitOpInvariant ==
  ASSUME IInv, VisitOp
  PROVE  IInv'
<1>. DEFINE op   == func[block].ops[opsLeft]
            live == liveNow \cup Uses(op)
            R    == op.results
<1>1. /\ opsLeft > 0 /\ opsLeft' = opsLeft - 1
      /\ func' = func /\ block' = block /\ argsDone' = argsDone
      /\ adjacency' = connect(adjacency, R, live)
      /\ liveNow' = live \ R
  BY DEF VisitOp
<1>2. IsSSA(func) /\ EveryBlockReached(func) /\ UsesDominated(func)
  BY ScannedFunction DEF IInv, Counters
<1>3. /\ block \in 1..Len(func) /\ opsLeft \in 1..Len(func[block].ops) /\ argsDone = 0
      /\ Len(func) \in Nat /\ Len(func[block].ops) \in Nat
      /\ argsDone \in 0..Len(func[block].args)
  BY <1>1, <1>2 DEF IInv, Counters, IsSSA
<1>4. Counters'
  BY <1>1, <1>3 DEF IInv, Counters
<1>5. VisitedArgs = {} /\ VisitedArgs' = {}
  BY <1>1, <1>3 DEF VisitedArgs
<1>6. liveNow = LiveAt(func, <<block, opsLeft + 1>>)
  BY <1>5 DEF IInv, LiveNowExact, Here
<1>7. LiveNowExact'
  <2>1. LiveAt(func, <<block, opsLeft>>) = Uses(op) \cup (liveNow \ R)
    BY <1>2, <1>3, <1>6, LiveBeforeOperation
  <2>2. Uses(op) \cap R = {}
    <3>1. opsLeft \in 1..opsLeft
      BY <1>3
    <3>. QED  BY <1>2, <1>3, <3>1, NotLiveBefore
  <2>3. Here' = <<block, opsLeft>>
    BY <1>1, <1>3 DEF Here
  <2>4. liveNow' = LiveAt(func, Here')
    BY <1>1, <2>1, <2>2, <2>3
  <2>. QED  BY <1>1, <1>5, <2>4 DEF LiveNowExact
<1>8. /\ R \subseteq FunctionValues(func)
      /\ live \subseteq FunctionValues(func)
  <2>1. Uses(op) \subseteq FunctionValues(func)
    BY <1>2, <1>3 DEF IsSSA
  <2>2. liveNow \subseteq FunctionValues(func)
    BY <1>6, LiveAreValues
  <2>. QED  BY <1>3, <2>1, <2>2, OwnValues
<1>. HIDE DEF op, live, R
<1>9. (DOMAIN adjacency \subseteq FunctionValues(func))'
      /\ IsInterferenceGraph(adjacency)' /\ NoIsolatedNodes'
  BY <1>1, <1>8, ConnectGraph DEF IInv, NoIsolatedNodes
<1>10. \A v, w : Crossed(R, live, v, w) <=> OpEdge(block, opsLeft, v, w)
  BY <1>6 DEF Crossed, OpEdge, R, live, op
<1>11. \A v, w : Joined(v, w)' <=> Joined(v, w) \/ OpEdge(block, opsLeft, v, w)
  <2>1. \A b, i, v, w : OpEdge(b, i, v, w)' <=> OpEdge(b, i, v, w)
    BY <1>1 DEF OpEdge
  <2>2. \A b \in 1..Len(func) : \A i \in 1..Len(func[b].ops) :
          OpVisited(b, i)' <=> OpVisited(b, i) \/ (b = block /\ i = opsLeft)
    BY <1>1, <1>2, <1>3 DEF OpVisited, IsSSA
  <2>3. \A v, w : JoinedAtOp(v, w)' <=> JoinedAtOp(v, w) \/ OpEdge(block, opsLeft, v, w)
    BY <1>1, <1>3, <2>1, <2>2 DEF JoinedAtOp
  <2>4. \A v, w : JoinedAtArg(v, w)' <=> JoinedAtArg(v, w)
    BY <1>1 DEF JoinedAtArg, ArgVisited, ArgEdge
  <2>. QED  BY <2>3, <2>4 DEF Joined
<1>12. EdgesExact'
  <2>1. ASSUME NEW v \in FunctionValues(func), NEW w \in FunctionValues(func)
        PROVE  w \in Entry(adjacency', v) <=> Joined(v, w)' \/ Joined(w, v)'
    <3>1. w \in Entry(adjacency, v) <=> Joined(v, w) \/ Joined(w, v)
      BY DEF IInv, EdgesExact
    <3>2. w \in Entry(adjacency', v) <=>
            \/ w \in Entry(adjacency, v)
            \/ Crossed(R, live, v, w) \/ Crossed(R, live, w, v)
      BY <1>1, ConnectEdges
    <3>. QED  BY <3>1, <3>2, <1>10, <1>11
  <2>. QED  BY <1>1, <2>1 DEF EdgesExact, Entry
<1>. QED  BY <1>4, <1>7, <1>9, <1>12 DEF IInv

-----------------------------------------------------------------------------
(* An argument: the arguments before it are not live any more. *)
LEMMA VisitArgInvariant ==
  ASSUME IInv, VisitArg
  PROVE  IInv'
<1>. DEFINE k   == argsDone + 1
            arg == func[block].args[k]
<1>1. /\ opsLeft = 0 /\ argsDone < Len(func[block].args) /\ argsDone' = k
      /\ func' = func /\ block' = block /\ opsLeft' = opsLeft
      /\ adjacency' = connect(adjacency, {arg}, liveNow)
      /\ liveNow' = liveNow \ {arg}
  BY DEF VisitArg
<1>2. IsSSA(func)
  BY ScannedFunction DEF IInv, Counters
<1>3. /\ block \in 1..Len(func) /\ k \in 1..Len(func[block].args) /\ argsDone \in Nat
      /\ Len(func) \in Nat /\ Len(func[block].args) \in Nat
  BY <1>1, <1>2 DEF IInv, Counters, IsSSA
<1>4. Counters'
  BY <1>1, <1>3 DEF IInv, Counters
<1>5. liveNow = LiveAt(func, <<block, 1>>) \ VisitedArgs
  BY <1>1 DEF IInv, LiveNowExact, Here
<1>6. VisitedArgs' = VisitedArgs \cup {arg}
  <2>1. 1..argsDone' = (1..argsDone) \cup {k}
    BY <1>1, <1>3
  <2>. QED  BY <1>1, <2>1 DEF VisitedArgs
<1>7. LiveNowExact'
  BY <1>1, <1>5, <1>6 DEF LiveNowExact, Here
<1>8. arg \in FunctionValues(func) /\ liveNow \subseteq FunctionValues(func)
  BY <1>3, <1>5, OwnValues, LiveAreValues
<1>9. (DOMAIN adjacency \subseteq FunctionValues(func))'
      /\ IsInterferenceGraph(adjacency)' /\ NoIsolatedNodes'
  <2>. DEFINE h == connect(adjacency, {arg}, liveNow)
  <2>. HIDE DEF arg
  <2>1. /\ IsInterferenceGraph(h) /\ \A v \in DOMAIN h : h[v] # {}
        /\ DOMAIN h \subseteq DOMAIN adjacency \cup {arg} \cup liveNow
    BY ConnectGraph DEF IInv, NoIsolatedNodes
  <2>2. adjacency' = h
    BY <1>1
  <2>. HIDE DEF h
  <2>3. DOMAIN h \subseteq FunctionValues(func)
    BY <1>8, <2>1 DEF IInv
  <2>4. IsInterferenceGraph(adjacency)' /\ NoIsolatedNodes'
    BY <2>1, <2>2 DEF NoIsolatedNodes, IsInterferenceGraph, IsClosed, IsSymmetric,
           IsIrreflexive
  <2>. QED  BY <1>1, <2>2, <2>3, <2>4
<1>10. \A v, w : Crossed({arg}, liveNow, v, w) <=> ArgEdge(block, k, v, w)
  <2>1. ASSUME NEW w
        PROVE  w \notin VisitedArgs \cup {arg} <=>
                 \A j \in 1..k : w # func[block].args[j]
    <3>1. 1..k = (1..argsDone) \cup {k}
      BY <1>3
    <3>. QED  BY <3>1 DEF VisitedArgs
  <2>. QED  BY <1>5, <2>1 DEF Crossed, ArgEdge
<1>. HIDE DEF arg, k
<1>11. \A v, w : Joined(v, w)' <=> Joined(v, w) \/ ArgEdge(block, k, v, w)
  <2>1. \A b, j, v, w : ArgEdge(b, j, v, w)' <=> ArgEdge(b, j, v, w)
    BY <1>1 DEF ArgEdge
  <2>2. \A b \in 1..Len(func) : \A j \in 1..Len(func[b].args) :
          ArgVisited(b, j)' <=> ArgVisited(b, j) \/ (b = block /\ j = k)
    BY <1>1, <1>2, <1>3 DEF ArgVisited, IsSSA, k
  <2>3. \A v, w : JoinedAtArg(v, w)' <=> JoinedAtArg(v, w) \/ ArgEdge(block, k, v, w)
    BY <1>1, <1>3, <2>1, <2>2 DEF JoinedAtArg
  <2>4. \A v, w : JoinedAtOp(v, w)' <=> JoinedAtOp(v, w)
    BY <1>1 DEF JoinedAtOp, OpVisited, OpEdge
  <2>. QED  BY <2>3, <2>4 DEF Joined
<1>12. EdgesExact'
  <2>1. ASSUME NEW v \in FunctionValues(func), NEW w \in FunctionValues(func)
        PROVE  w \in Entry(adjacency', v) <=> Joined(v, w)' \/ Joined(w, v)'
    <3>1. w \in Entry(adjacency, v) <=> Joined(v, w) \/ Joined(w, v)
      BY DEF IInv, EdgesExact
    <3>2. w \in Entry(adjacency', v) <=>
            \/ w \in Entry(adjacency, v)
            \/ Crossed({arg}, liveNow, v, w) \/ Crossed({arg}, liveNow, w, v)
      BY <1>1, ConnectEdges
    <3>. QED  BY <3>1, <3>2, <1>10, <1>11
  <2>. QED  BY <1>1, <2>1 DEF EdgesExact, Entry
<1>. QED  BY <1>4, <1>7, <1>9, <1>12 DEF IInv

(* The next block: what was visited stays visited, and nothing is new. *)
LEMMA NextBlockInvariant ==
  ASSUME IInv, NextBlock
  PROVE  IInv'
<1>1. /\ opsLeft = 0 /\ argsDone = Len(func[block].args) /\ block > 1
      /\ func' = func /\ block' = block - 1 /\ argsDone' = 0
      /\ opsLeft' = Len(func[block'].ops) /\ liveNow' = getLiveOut(func, block')
      /\ adjacency' = adjacency
  BY DEF NextBlock, BlockDone
<1>2. IsSSA(func) /\ LivenessIsExact(func)
  BY ScannedFunction DEF IInv, Counters
<1>3. /\ block \in 1..Len(func) /\ block' \in 1..Len(func) /\ Len(func) \in Nat
      /\ \A b \in 1..Len(func) :
           Len(func[b].ops) \in Nat /\ Len(func[b].args) \in Nat
  BY <1>1, <1>2 DEF IInv, Counters, IsSSA
<1>4. Counters'
  BY <1>1, <1>3 DEF IInv, Counters
<1>5. LiveNowExact'
  <2>1. VisitedArgs' = {}
    BY <1>1 DEF VisitedArgs
  <2>2. getLiveOut(func, block') = LiveAt(func, EndOf(func, block'))
    BY <1>2, <1>3 DEF LivenessIsExact
  <2>3. EndOf(func, block') = Here'
    BY <1>1 DEF EndOf, Here
  <2>. QED  BY <1>1, <2>1, <2>2, <2>3 DEF LiveNowExact
<1>6. \A v, w : Joined(v, w)' <=> Joined(v, w)
  <2>1. \A b \in 1..Len(func) : \A i \in 1..Len(func[b].ops) :
          OpVisited(b, i)' <=> OpVisited(b, i)
    BY <1>1, <1>3 DEF OpVisited
  <2>2. \A b \in 1..Len(func) : \A k \in 1..Len(func[b].args) :
          ArgVisited(b, k)' <=> ArgVisited(b, k)
    BY <1>1, <1>3 DEF ArgVisited
  <2>3. \A b, i, v, w : OpEdge(b, i, v, w)' <=> OpEdge(b, i, v, w)
    BY <1>1 DEF OpEdge
  <2>4. \A b, k, v, w : ArgEdge(b, k, v, w)' <=> ArgEdge(b, k, v, w)
    BY <1>1 DEF ArgEdge
  <2>5. \A v, w : JoinedAtOp(v, w)' <=> JoinedAtOp(v, w)
    BY <1>1, <2>1, <2>3 DEF JoinedAtOp
  <2>6. \A v, w : JoinedAtArg(v, w)' <=> JoinedAtArg(v, w)
    BY <1>1, <2>2, <2>4 DEF JoinedAtArg
  <2>. QED  BY <2>5, <2>6 DEF Joined
<1>7. EdgesExact'
  BY <1>1, <1>6 DEF IInv, EdgesExact, Entry
<1>8. (DOMAIN adjacency \subseteq FunctionValues(func))'
      /\ IsInterferenceGraph(adjacency)' /\ NoIsolatedNodes'
  BY <1>1 DEF IInv, NoIsolatedNodes, IsInterferenceGraph, IsClosed, IsSymmetric,
         IsIrreflexive
<1>. QED  BY <1>4, <1>5, <1>7, <1>8 DEF IInv

LEMMA StutterInvariant ==
  ASSUME IInv, UNCHANGED vars
  PROVE  IInv'
<1>1. /\ func' = func /\ block' = block /\ opsLeft' = opsLeft /\ argsDone' = argsDone
      /\ liveNow' = liveNow /\ adjacency' = adjacency
  BY DEF vars
<1>2. Counters' /\ LiveNowExact'
  BY <1>1 DEF IInv, Counters, LiveNowExact, Here, VisitedArgs
<1>3. \A v, w : Joined(v, w)' <=> Joined(v, w)
  BY <1>1 DEF Joined, JoinedAtOp, JoinedAtArg, OpVisited, ArgVisited, OpEdge, ArgEdge
<1>4. EdgesExact'
  BY <1>1, <1>3 DEF IInv, EdgesExact, Entry
<1>5. (DOMAIN adjacency \subseteq FunctionValues(func))'
      /\ IsInterferenceGraph(adjacency)' /\ NoIsolatedNodes'
  BY <1>1 DEF IInv, NoIsolatedNodes, IsInterferenceGraph, IsClosed, IsSymmetric,
         IsIrreflexive
<1>. QED  BY <1>2, <1>4, <1>5 DEF IInv

-----------------------------------------------------------------------------
(* Theorems. *)

LEMMA StepInvariant == IInv /\ [Next]_vars => IInv'
  BY VisitOpInvariant, VisitArgInvariant, NextBlockInvariant, StutterInvariant
     DEF Next, Finished

(* At every moment of the scan, in the middle of a block too, the set of    *)
(* live values is exact and the edges are those of the places visited.      *)
THEOREM Invariance == Spec => []IInv
  BY InitInvariant, StepInvariant, PTL DEF Spec

(* The edges form an interference graph over the function's values at every *)
(* moment of the constructor's loops.                                       *)
THEOREM TypeCorrect == Spec => []TypeOK
<1>1. IInv => TypeOK
  <2>. SUFFICES ASSUME IInv PROVE TypeOK
    OBVIOUS
  <2>1. liveNow \subseteq FunctionValues(func)
    BY LiveAreValues DEF IInv, LiveNowExact
  <2>. QED  BY <2>1 DEF IInv, TypeOK, Counters
<1>. QED  BY <1>1, Invariance, PTL

(* liveNow, which the constructor starts from MLIR's sets and updates in    *)
(* place, is the set of values live at this place of the function.          *)
THEOREM LiveNowCorrect == Spec => []LiveNowExact
<1>1. IInv => LiveNowExact
  BY DEF IInv
<1>. QED  BY <1>1, Invariance, PTL

(* adjacency gets an entry for a value only together with an edge. *)
THEOREM NoNodeAlone == Spec => []NoIsolatedNodes
<1>1. IInv => NoIsolatedNodes
  BY DEF IInv
<1>. QED  BY <1>1, Invariance, PTL

LEMMA JoinedIsJustified ==
  ASSUME Counters, NEW v, NEW w, Joined(v, w)
  PROVE  <<v, w>> \in LiveAtDefinition(func)
<1>1. CASE JoinedAtOp(v, w)
  <2>1. PICK b \in 1..Len(func) : \E i \in 1..Len(func[b].ops) : OpEdge(b, i, v, w)
    BY <1>1 DEF JoinedAtOp
  <2>2. PICK i \in 1..Len(func[b].ops) : OpEdge(b, i, v, w)
    BY <2>1
  <2>. QED  BY <2>2, PairsAtDefinition DEF OpEdge
<1>2. CASE JoinedAtArg(v, w)
  <2>1. PICK b \in 1..Len(func) : \E k \in 1..Len(func[b].args) : ArgEdge(b, k, v, w)
    BY <1>2 DEF JoinedAtArg
  <2>2. PICK k \in 1..Len(func[b].args) : ArgEdge(b, k, v, w)
    BY <2>1
  <2>3. v \in Arguments(func[b]) /\ w \in LiveAt(func, <<b, 1>>)
    BY <2>2 DEF ArgEdge, Arguments
  <2>4. v \notin OpDefs(func[b])
    BY <2>3, ScannedFunction DEF Counters, IsSSA
  <2>. QED  BY <2>3, <2>4, PairsAtDefinition DEF Defs
<1>. QED  BY <1>1, <1>2 DEF Joined

LEMMA JustifiedWhenBuilt == IInv => EdgesJustified
<1>. SUFFICES ASSUME IInv,
                     NEW v \in DOMAIN adjacency, NEW w \in adjacency[v]
              PROVE  \/ <<v, w>> \in LiveAtDefinition(func)
                     \/ <<w, v>> \in LiveAtDefinition(func)
  BY DEF EdgesJustified
<1>1. w \in DOMAIN adjacency /\ w \in Entry(adjacency, v)
  BY DEF IInv, IsInterferenceGraph, IsClosed, Entry
<1>2. Joined(v, w) \/ Joined(w, v)
  BY <1>1 DEF IInv, EdgesExact
<1>. QED  BY <1>2, JoinedIsJustified DEF IInv

(* No edge of the graph the constructor leaves is there without a reason.   *)
THEOREM EdgesAreJustified == Spec => []EdgesJustified
  BY JustifiedWhenBuilt, Invariance, PTL

(* What is live at a definition has been joined when the scan is over,      *)
(* except for two arguments of which the earlier one is not used.           *)
LEMMA EverythingJoined ==
  ASSUME Counters, Built, NEW v, NEW w, v # w,
         <<v, w>> \in LiveAtDefinition(func),
         \A b \in 1..Len(func) : v \in Arguments(func[b]) => v \in LiveAt(func, <<b, 1>>)
  PROVE  Joined(v, w) \/ Joined(w, v)
<1>1. block = 1 /\ opsLeft = 0 /\ argsDone = Len(func[1].args)
  BY DEF Built, BlockDone
<1>2. IsSSA(func)
  BY ScannedFunction DEF Counters
<1>3. \A b \in 1..Len(func) : \A i \in 1..Len(func[b].ops) : OpVisited(b, i)
  BY <1>1, <1>2 DEF OpVisited, IsSSA
<1>4. \A b \in 1..Len(func) : \A k \in 1..Len(func[b].args) : ArgVisited(b, k)
  BY <1>1, <1>2 DEF ArgVisited, IsSSA
<1>5. PICK b \in 1..Len(func) :
        \/ v \in Defs(func[b]) \ OpDefs(func[b]) /\ w \in LiveAt(func, <<b, 1>>)
        \/ \E i \in 1..Len(func[b].ops) :
             /\ v \in func[b].ops[i].results
             /\ w \in Uses(func[b].ops[i]) \cup LiveAt(func, <<b, i + 1>>)
  BY PairsAtDefinition
<1>6. CASE \E i \in 1..Len(func[b].ops) :
             /\ v \in func[b].ops[i].results
             /\ w \in Uses(func[b].ops[i]) \cup LiveAt(func, <<b, i + 1>>)
  BY <1>3, <1>6 DEF Joined, JoinedAtOp, OpEdge
<1>7. CASE v \in Defs(func[b]) \ OpDefs(func[b]) /\ w \in LiveAt(func, <<b, 1>>)
  <2>1. v \in Arguments(func[b]) /\ w \in LiveAt(func, <<b, 1>>)
    BY <1>7 DEF Defs
  <2>2. v \in LiveAt(func, <<b, 1>>)
    BY <2>1
  <2>3. PICK k \in 1..Len(func[b].args) : v = func[b].args[k]
    BY <2>1 DEF Arguments
  <2>4. CASE \A j \in 1..k : w # func[b].args[j]
    <3>1. ArgEdge(b, k, v, w)
      BY <2>1, <2>3, <2>4 DEF ArgEdge
    <3>. QED  BY <1>4, <3>1 DEF Joined, JoinedAtArg
  <2>5. CASE \E j \in 1..k : w = func[b].args[j]
    <3>1. PICK j \in 1..k : w = func[b].args[j]
      BY <2>5
    <3>2. Len(func[b].args) \in Nat /\ j \in 1..Len(func[b].args) /\ j < k
      BY <1>2, <2>3, <3>1 DEF IsSSA
    <3>3. \A l \in 1..j : v # func[b].args[l]
      BY <1>2, <2>3, <3>2 DEF IsSSA
    <3>4. ArgEdge(b, j, w, v)
      BY <2>2, <3>1, <3>3 DEF ArgEdge
    <3>. QED  BY <1>4, <3>2, <3>4 DEF Joined, JoinedAtArg
  <2>. QED  BY <2>4, <2>5
<1>. QED  BY <1>5, <1>6, <1>7

LEMMA CompleteWhenBuilt == IInv => EdgesComplete
<1>. SUFFICES ASSUME IInv, Built, NEW p \in Points(func),
                     NEW v \in LiveAt(func, p), NEW w \in LiveAt(func, p), v # w
              PROVE  w \in Entry(adjacency, v)
  BY DEF EdgesComplete
<1>1. LiveFromDefinitions(func)
  BY ScannedFunction DEF IInv, Counters
<1>2. /\ <<v, w>> \in LiveAtDefinition(func) \/ <<w, v>> \in LiveAtDefinition(func)
      /\ \A b \in 1..Len(func) : v \in Arguments(func[b]) => v \in LiveAt(func, <<b, 1>>)
      /\ \A b \in 1..Len(func) : w \in Arguments(func[b]) => w \in LiveAt(func, <<b, 1>>)
  BY <1>1 DEF LiveFromDefinitions
<1>3. Joined(v, w) \/ Joined(w, v)
  BY <1>2, EverythingJoined DEF IInv
<1>4. v \in FunctionValues(func) /\ w \in FunctionValues(func)
  BY LiveAreValues
<1>. QED  BY <1>3, <1>4 DEF IInv, EdgesExact

(* Values that are live at one and the same point of the function are       *)
(* connected in the graph that the constructor leaves, although of two      *)
(* arguments only one sees the other.                                       *)
THEOREM EdgesAreComplete == Spec => []EdgesComplete
  BY CompleteWhenBuilt, Invariance, PTL

-----------------------------------------------------------------------------
(* The graph is chordal. *)

(* The values that are live where v is defined, other than v, are connected *)
(* to each other: two of them are live together before the operation that   *)
(* defines v, or one is a result of the same operation.                     *)
LEMMA LiveAtOneDefinition ==
  ASSUME IInv, Built, NEW v, NEW u, NEW w, u # w,
         <<v, u>> \in LiveAtDefinition(func), <<v, w>> \in LiveAtDefinition(func)
  PROVE  w \in Entry(adjacency, u)
<1>1. IsSSA(func)
  BY ScannedFunction DEF IInv, Counters
<1>2. \A p \in Points(func) :
        u \in LiveAt(func, p) /\ w \in LiveAt(func, p) => w \in Entry(adjacency, u)
  BY CompleteWhenBuilt DEF IInv, EdgesComplete
<1>3. PICK b \in 1..Len(func) :
        \/ v \in Defs(func[b]) \ OpDefs(func[b]) /\ u \in LiveAt(func, <<b, 1>>)
        \/ \E i \in 1..Len(func[b].ops) :
             /\ v \in func[b].ops[i].results
             /\ u \in Uses(func[b].ops[i]) \cup LiveAt(func, <<b, i + 1>>)
  BY PairsAtDefinition
<1>4. PICK c \in 1..Len(func) :
        \/ v \in Defs(func[c]) \ OpDefs(func[c]) /\ w \in LiveAt(func, <<c, 1>>)
        \/ \E i \in 1..Len(func[c].ops) :
             /\ v \in func[c].ops[i].results
             /\ w \in Uses(func[c].ops[i]) \cup LiveAt(func, <<c, i + 1>>)
  BY PairsAtDefinition
<1>5. CASE v \in Defs(func[b]) \ OpDefs(func[b]) /\ u \in LiveAt(func, <<b, 1>>)
  <2>1. v \in Arguments(func[b])
    BY <1>5 DEF Defs
  <2>2. c = b /\ w \in LiveAt(func, <<c, 1>>)
    BY <1>1, <1>4, <2>1, OneDefinition DEF Defs
  <2>. QED  BY <1>1, <1>2, <1>5, <2>2, PointsAround
<1>6. ASSUME NEW i \in 1..Len(func[b].ops), v \in func[b].ops[i].results,
             u \in Uses(func[b].ops[i]) \cup LiveAt(func, <<b, i + 1>>)
      PROVE  w \in Entry(adjacency, u)
  <2>. DEFINE op   == func[b].ops[i]
              here == Uses(op) \cup LiveAt(func, <<b, i + 1>>)
  <2>1. v \notin Arguments(func[c])
    BY <1>1, <1>6, OneDefinition
  <2>2. PICK j \in 1..Len(func[c].ops) :
          /\ v \in func[c].ops[j].results
          /\ w \in Uses(func[c].ops[j]) \cup LiveAt(func, <<c, j + 1>>)
    BY <1>4, <2>1 DEF Defs
  <2>3. c = b /\ j = i
    BY <1>1, <1>6, <2>2, OneDefinition
  <2>4. u \in here /\ w \in here
    BY <1>6, <2>2, <2>3
  <2>5. CASE u \notin op.results /\ w \notin op.results
    <3>1. LiveAt(func, <<b, i>>) = Uses(op) \cup (LiveAt(func, <<b, i + 1>>) \ op.results)
      BY <1>1, LiveBeforeOperation
    <3>2. u \in LiveAt(func, <<b, i>>) /\ w \in LiveAt(func, <<b, i>>)
      BY <2>4, <2>5, <3>1
    <3>. QED  BY <1>1, <1>2, <3>2, PointsAround
  <2>6. ASSUME NEW x, NEW y, x # y, x \in op.results, y \in here
        PROVE  Joined(x, y) \/ Joined(y, x)
    <3>1. <<x, y>> \in LiveAtDefinition(func)
      BY <2>6, PairsAtDefinition
    <3>2. \A d \in 1..Len(func) : x \notin Arguments(func[d])
      BY <1>1, <2>6, OneDefinition
    <3>. QED  BY <2>6, <3>1, <3>2, EverythingJoined DEF IInv
  <2>7. CASE u \in op.results \/ w \in op.results
    <3>1. Joined(u, w) \/ Joined(w, u)
      BY <2>4, <2>6, <2>7
    <3>2. u \in FunctionValues(func) /\ w \in FunctionValues(func)
      <4>1. Uses(op) \subseteq FunctionValues(func)
        BY <1>1 DEF IsSSA
      <4>. QED  BY <2>4, <4>1, LiveAreValues
    <3>. QED  BY <3>1, <3>2 DEF IInv, EdgesExact
  <2>. QED  BY <2>5, <2>7
<1>. QED  BY <1>3, <1>5, <1>6

(* Among any nodes of the graph one, the last to be defined, has all its    *)
(* neighbours among them live at its definition.                            *)
LEMMA LastNode ==
  ASSUME IInv, Built, NEW S \in SUBSET DOMAIN adjacency, S # {}
  PROVE  \E v \in S : \A w \in adjacency[v] \cap S : <<v, w>> \in LiveAtDefinition(func)
<1>1. IsSSA(func) /\ EveryBlockReached(func) /\ UsesDominated(func)
  BY ScannedFunction DEF IInv, Counters
<1>2. S \in SUBSET FunctionValues(func)
  BY DEF IInv
<1>3. PICK v \in S : \A w \in S :
        <<w, v>> \in LiveAtDefinition(func) => <<v, w>> \in LiveAtDefinition(func)
  BY <1>1, <1>2, LastDefined
<1>4. ASSUME NEW w \in adjacency[v] \cap S PROVE <<v, w>> \in LiveAtDefinition(func)
  BY <1>3, JustifiedWhenBuilt DEF EdgesJustified
<1>. QED  BY <1>4

LEMMA ChordalWhenBuilt == IInv => BuiltGraphChordal
<1>. SUFFICES ASSUME IInv, Built, NEW S \in (SUBSET DOMAIN adjacency) \ {{}}
              PROVE  \E v \in S : Simplicial(adjacency, S, v)
  BY DEF BuiltGraphChordal, Chordal
<1>1. PICK v \in S :
        \A w \in adjacency[v] \cap S : <<v, w>> \in LiveAtDefinition(func)
  BY LastNode
<1>2. ASSUME NEW u \in adjacency[v] \cap S, NEW w \in adjacency[v] \cap S, u # w
      PROVE  w \in adjacency[u]
  <2>1. w \in Entry(adjacency, u)
    BY <1>1, <1>2, LiveAtOneDefinition
  <2>. QED  BY <2>1 DEF Entry
<1>. QED  BY <1>1, <1>2 DEF Simplicial

(* The graph of a function in SSA form is chordal: every part of it has a   *)
(* value whose neighbours are all connected, namely the one defined last.   *)
THEOREM GraphChordal == Spec => []BuiltGraphChordal
  BY ChordalWhenBuilt, Invariance, PTL
=============================================================================
