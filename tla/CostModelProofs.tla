---------------------------- MODULE CostModelProofs ----------------------------
(***************************************************************************)
(* Proofs about CostModel: the price of a word, for memories of every size, *)
(* and the cost of computing a value once more, for every function.         *)
(***************************************************************************)
EXTENDS CostModel, FiniteSetTheorems, WellFoundedInduction, TLAPS

(* Rounding down a sum loses at most one against rounding down its parts.   *)
LEMMA RoundedSum ==
  ASSUME NEW a \in Nat, NEW b \in Nat
  PROVE  (a + b) \div 512 - a \div 512 \in b \div 512 .. (b \div 512 + 1)
  OBVIOUS

LEMMA SquareOfNext ==
  ASSUME NEW w \in Nat
  PROVE  (w + 1) * (w + 1) = w * w + (2 * w + 1) /\ w * w \in Nat
  OBVIOUS

(* expansionCost() never overstates the price of the next word of memory,   *)
(* and understates it by at most one unit of gas, however large the memory  *)
(* has grown.                                                               *)
THEOREM EstimateIsClose ==
  ASSUME NEW mem, mem.nextOffset \in Nat
  PROVE  EstimateClose(mem)
<1>. DEFINE w == Words(mem)
            a == w * w
            b == 2 * w + 1
<1>1. w \in Nat
  BY DEF Words, WordSize
<1>2. a \in Nat /\ b \in Nat /\ (w + 1) * (w + 1) = a + b
  <2>. HIDE DEF w
  <2>. QED  BY <1>1, SquareOfNext
<1>3. (a + b) \div 512 - a \div 512 \in b \div 512 .. (b \div 512 + 1)
  <2>. HIDE DEF a, b
  <2>. QED  BY <1>2, RoundedSum
<1>4. MemoryGas(w) = a \div 512 + 3 * w
  BY DEF MemoryGas
<1>5. MemoryGas(w + 1) = (a + b) \div 512 + 3 * (w + 1)
  <2>. HIDE DEF w, a, b
  <2>. QED  BY <1>2 DEF MemoryGas
<1>6. expansionCost(mem) = 3 + b \div 512
  BY DEF expansionCost
<1>7. a \div 512 \in Int /\ b \div 512 \in Int /\ (a + b) \div 512 \in Int
  <2>. HIDE DEF a, b
  <2>. QED  BY <1>2
<1>8. expansionCost(mem) \in (MemoryGas(w + 1) - MemoryGas(w) - 1)..(MemoryGas(w + 1) - MemoryGas(w))
  <2>. HIDE DEF w, a, b
  <2>. QED  BY <1>1, <1>3, <1>4, <1>5, <1>6, <1>7
<1>. QED  BY <1>8 DEF EstimateClose

IsQuestion == question \in Questions

LEMMA OnlyQuestions == Spec => []IsQuestion
<1>1. Init => IsQuestion
  BY DEF Init, IsQuestion
<1>2. IsQuestion /\ [Next]_question => IsQuestion'
  BY DEF Next, IsQuestion
<1>. QED  BY <1>1, <1>2, PTL DEF Spec

(* In every question about a memory of any size the estimate is close.      *)
THEOREM PriceIsClose == Spec => []ExpansionCostClose
<1>1. IsQuestion => ExpansionCostClose
  <2>1. IsQuestion => question.memory \in Memories
    BY DEF IsQuestion, Questions
  <2>. QED  BY <2>1, MemoriesAssumption, EstimateIsClose DEF ExpansionCostClose
<1>. QED  BY <1>1, OnlyQuestions, PTL

-----------------------------------------------------------------------------
(* Induction, up to a bound and down from it.                               *)

LEMMA LeastNatural ==
  ASSUME NEW S, S \subseteq Nat, S # {}
  PROVE  \E x \in S : \A y \in S : x <= y
<1>1. \E x \in S : \A y \in S : ~(<<y, x>> \in OpToRel(<, Nat))
  BY WFMin, NatLessThanWellFounded, Zenon
<1>2. \A x, y \in Nat : y < x => <<y, x>> \in OpToRel(<, Nat)
  BY DEF OpToRel
<1>3. \E x \in S : \A y \in S : ~(y < x)
  BY <1>1, <1>2
<1>. QED  BY <1>3

LEMMA CountUp ==
  ASSUME NEW n \in Nat, NEW T, 0 \in T, \A i \in 0..(n - 1) : i \in T => i + 1 \in T
  PROVE  \A i \in 0..n : i \in T
<1>. DEFINE bad == {i \in 0..n : i \notin T}
<1>1. SUFFICES ASSUME bad # {} PROVE FALSE
  OBVIOUS
<1>2. PICK k \in bad : \A i \in bad : k <= i
  <2>1. bad \subseteq Nat
    OBVIOUS
  <2>. HIDE DEF bad
  <2>. QED  BY <1>1, <2>1, LeastNatural
<1>3. k - 1 \in 0..(n - 1) /\ k - 1 \notin bad
  <2>1. k # 0
    OBVIOUS
  <2>. QED  BY <1>2, <2>1
<1>4. (k - 1) + 1 \in T
  BY <1>3
<1>. QED  BY <1>4

-----------------------------------------------------------------------------
(* The tree that a value is computed from.                                  *)

(* value follows the way from v to the node.                                *)
IsWalk(q, v, node, value) ==
  /\ value[0] = v
  /\ \A i \in 1..Len(node) : value[i] = OperandOf(q, value[i - 1], node[i])

LEMMA WalkExists ==
  ASSUME NEW q, NEW v, NEW node, Len(node) \in Nat
  PROVE  \E value : IsWalk(q, v, node, value) /\ ValueAt(q, v, node) = value[Len(node)]
<1>. DEFINE N == Len(node)
            Upto(f, m) == f = [i \in 0..m |-> IF i = 0 THEN v
                                              ELSE OperandOf(q, f[i - 1], node[i])]
            T == {m \in 0..N : \E f : Upto(f, m)}
<1>1. 0 \in T
  <2>. DEFINE f == [i \in 0..0 |-> v]
  <2>1. Upto(f, 0)
    OBVIOUS
  <2>. HIDE DEF f
  <2>. QED  BY <2>1
<1>2. ASSUME NEW m \in 0..(N - 1), m \in T PROVE m + 1 \in T
  <2>1. PICK f : Upto(f, m)
    BY <1>2
  <2>. DEFINE g == [i \in 0..(m + 1) |-> IF i = m + 1 THEN OperandOf(q, f[m], node[m + 1])
                                         ELSE f[i]]
  <2>2. ASSUME NEW i \in 0..(m + 1)
        PROVE  g[i] = IF i = 0 THEN v ELSE OperandOf(q, g[i - 1], node[i])
    <3>1. CASE i = 0
      <4>1. f[0] = v /\ 0 # m + 1
        BY <2>1
      <4>. QED  BY <3>1, <4>1
    <3>2. CASE i # 0
      <4>1. i - 1 \in 0..m /\ i - 1 # m + 1
        BY <3>2
      <4>2. g[i - 1] = f[i - 1]
        BY <4>1
      <4>3. CASE i = m + 1
        BY <3>2, <4>2, <4>3
      <4>4. CASE i # m + 1
        <5>1. i \in 0..m /\ g[i] = f[i]
          BY <4>4
        <5>2. f[i] = OperandOf(q, f[i - 1], node[i])
          BY <2>1, <3>2, <5>1
        <5>. QED  BY <3>2, <4>2, <5>1, <5>2
      <4>. QED  BY <4>3, <4>4
    <3>. QED  BY <3>1, <3>2
  <2>3. Upto(g, m + 1)
    BY <2>2
  <2>4. m + 1 \in 0..N
    OBVIOUS
  <2>5. \E u : Upto(u, m + 1)
    <3>. HIDE DEF g, Upto
    <3>. QED  BY <2>3
  <2>. HIDE DEF g, Upto
  <2>. QED  BY <2>4, <2>5
<1>3. \E f : Upto(f, N)
  <2>1. N \in T
    <3>1. N \in 0..N
      OBVIOUS
    <3>. HIDE DEF T
    <3>. QED  BY <1>1, <1>2, <3>1, CountUp
  <2>. QED  BY <2>1
<1>. DEFINE value == CHOOSE f : Upto(f, N)
<1>4. Upto(value, N)
  BY <1>3
<1>5. ValueAt(q, v, node) = value[N]
  BY Zenon DEF ValueAt
<1>6. IsWalk(q, v, node, value)
  <2>. HIDE DEF value
  <2>. QED  BY <1>4 DEF IsWalk
<1>. QED  BY <1>5, <1>6

LEMMA WalksAgree ==
  ASSUME NEW q, NEW v, NEW node, Len(node) \in Nat, NEW f, NEW g,
         IsWalk(q, v, node, f), IsWalk(q, v, node, g)
  PROVE  \A i \in 0..Len(node) : f[i] = g[i]
<1>. DEFINE N == Len(node)
            T == {i \in 0..N : f[i] = g[i]}
<1>1. 0 \in T
  BY DEF IsWalk
<1>2. ASSUME NEW i \in 0..(N - 1), i \in T PROVE i + 1 \in T
  <2>1. i + 1 \in 1..N /\ (i + 1) - 1 = i /\ i + 1 \in 0..N
    OBVIOUS
  <2>2. f[i + 1] = OperandOf(q, f[i], node[i + 1])
    BY <2>1 DEF IsWalk
  <2>3. g[i + 1] = OperandOf(q, g[i], node[i + 1])
    BY <2>1 DEF IsWalk
  <2>4. f[i] = g[i]
    BY <1>2
  <2>. QED  BY <2>1, <2>2, <2>3, <2>4
<1>3. \A i \in 0..N : i \in T
  <2>1. N \in Nat
    OBVIOUS
  <2>. HIDE DEF T, N
  <2>. QED  BY <1>1, <1>2, <2>1, CountUp
<1>. QED  BY <1>3

(* The node below the k-th operand.                                         *)
Cons(k, node) == [i \in 1..(Len(node) + 1) |-> IF i = 1 THEN k ELSE node[i - 1]]

Paths(height) == UNION {[1..n -> 1..MaxOperands] : n \in 0..height}

LEMMA LengthOfPath ==
  ASSUME NEW n \in Nat, NEW X, NEW node \in [1..n -> X]
  PROVE  Len(node) = n
<1>1. node \in Seq(X)
  OBVIOUS
<1>. QED  BY <1>1

LEMMA ConsIs ==
  ASSUME NEW n \in Nat, NEW node \in [1..n -> 1..MaxOperands], NEW k \in 1..MaxOperands
  PROVE  /\ Cons(k, node) \in [1..(n + 1) -> 1..MaxOperands]
         /\ Len(Cons(k, node)) = n + 1
         /\ Cons(k, node)[1] = k
<1>1. Len(node) = n
  BY LengthOfPath
<1>2. Cons(k, node) = [i \in 1..(n + 1) |-> IF i = 1 THEN k ELSE node[i - 1]]
  BY <1>1 DEF Cons
<1>3. ASSUME NEW i \in 1..(n + 1), i # 1 PROVE i - 1 \in 1..n
  BY <1>3
<1>4. Cons(k, node) \in [1..(n + 1) -> 1..MaxOperands]
  BY <1>2, <1>3
<1>5. n + 1 \in Nat
  OBVIOUS
<1>6. Len(Cons(k, node)) = n + 1
  BY <1>4, <1>5, LengthOfPath
<1>7. Cons(k, node)[1] = k
  BY <1>2
<1>. QED  BY <1>4, <1>6, <1>7

LEMMA BehindCons ==
  ASSUME NEW n \in Nat, NEW node \in [1..n -> 1..MaxOperands], NEW k \in 1..MaxOperands,
         NEW i \in 1..n
  PROVE  Cons(k, node)[i + 1] = node[i]
<1>1. Len(node) = n
  BY LengthOfPath
<1>2. Cons(k, node) = [j \in 1..(n + 1) |-> IF j = 1 THEN k ELSE node[j - 1]]
  BY <1>1 DEF Cons
<1>3. i + 1 \in 1..(n + 1) /\ i + 1 # 1 /\ (i + 1) - 1 = i
  OBVIOUS
<1>. QED  BY <1>2, <1>3

LEMMA AtRoot ==
  ASSUME NEW q, NEW v, NEW node, Len(node) = 0
  PROVE  ValueAt(q, v, node) = v
BY WalkExists DEF IsWalk

LEMMA AtCons ==
  ASSUME NEW q, NEW v, NEW n \in Nat, NEW node \in [1..n -> 1..MaxOperands],
         NEW k \in 1..MaxOperands
  PROVE  ValueAt(q, v, Cons(k, node)) = ValueAt(q, OperandOf(q, v, k), node)
<1>. DEFINE c == Cons(k, node)
            w == OperandOf(q, v, k)
<1>1. /\ Len(node) = n
      /\ Len(c) = n + 1
      /\ c[1] = k
      /\ \A i \in 1..n : c[i + 1] = node[i]
  <2>1. Len(node) = n
    BY LengthOfPath
  <2>2. Len(Cons(k, node)) = n + 1
    BY ConsIs
  <2>3. Cons(k, node)[1] = k
    BY ConsIs
  <2>4. ASSUME NEW i \in 1..n PROVE Cons(k, node)[i + 1] = node[i]
    BY BehindCons
  <2>. QED  BY <2>1, <2>2, <2>3, <2>4
<1>. HIDE DEF c
<1>2. PICK f : IsWalk(q, v, c, f) /\ ValueAt(q, v, c) = f[n + 1]
  BY <1>1, WalkExists
<1>3. PICK g : IsWalk(q, w, node, g) /\ ValueAt(q, w, node) = g[n]
  <2>. HIDE DEF w
  <2>. QED  BY <1>1, WalkExists
<1>. DEFINE h == [i \in 0..n |-> f[i + 1]]
<1>4. IsWalk(q, w, node, h)
  <2>1. h[0] = w
    <3>1. 1 \in 1..(n + 1)
      OBVIOUS
    <3>2. f[1] = OperandOf(q, f[0], c[1]) /\ f[0] = v
      BY <1>1, <1>2, <3>1 DEF IsWalk
    <3>. QED  BY <1>1, <3>2
  <2>2. ASSUME NEW i \in 1..n PROVE h[i] = OperandOf(q, h[i - 1], node[i])
    <3>1. i + 1 \in 1..(n + 1) /\ (i + 1) - 1 = i /\ i \in 0..n /\ i - 1 \in 0..n
          /\ (i - 1) + 1 = i
      OBVIOUS
    <3>2. f[i + 1] = OperandOf(q, f[i], c[i + 1])
      BY <1>1, <1>2, <3>1 DEF IsWalk
    <3>3. h[i] = f[i + 1] /\ h[i - 1] = f[i]
      BY <3>1
    <3>. QED  BY <1>1, <3>2, <3>3
  <2>. HIDE DEF h, w
  <2>. QED  BY <1>1, <2>1, <2>2 DEF IsWalk
<1>5. h[n] = g[n]
  <2>. HIDE DEF h, w
  <2>1. \A i \in 0..Len(node) : h[i] = g[i]
    BY <1>1, <1>3, <1>4, WalksAgree
  <2>2. n \in 0..Len(node)
    BY <1>1
  <2>. QED  BY <2>1, <2>2
<1>6. h[n] = f[n + 1]
  OBVIOUS
<1>. QED  BY <1>2, <1>3, <1>5, <1>6 DEF c

(* Nothing is computed below a value that is on the stack.                  *)
LEMMA NothingBelow ==
  ASSUME NEW q, NoValue \notin DOMAIN q.defs, NEW v, v \notin DOMAIN q.defs \ q.currentStack,
         NEW n \in Nat, NEW node, Len(node) = n
  PROVE  ValueAt(q, v, node) \notin DOMAIN q.defs \ q.currentStack
<1>1. PICK f : IsWalk(q, v, node, f) /\ ValueAt(q, v, node) = f[n]
  BY WalkExists
<1>. DEFINE T == {i \in 0..n : f[i] \in {v, NoValue}}
<1>2. 0 \in T
  BY <1>1 DEF IsWalk
<1>3. ASSUME NEW i \in 0..(n - 1), i \in T PROVE i + 1 \in T
  <2>1. i + 1 \in 1..n /\ (i + 1) - 1 = i /\ i + 1 \in 0..n
    OBVIOUS
  <2>2. f[i + 1] = OperandOf(q, f[i], node[i + 1])
    BY <1>1, <2>1 DEF IsWalk
  <2>3. f[i] \notin DOMAIN q.defs \ q.currentStack
    BY <1>3
  <2>4. f[i + 1] = NoValue
    BY <2>2, <2>3 DEF OperandOf
  <2>. QED  BY <2>1, <2>4
<1>4. n \in T
  <2>1. n \in 0..n
    OBVIOUS
  <2>. HIDE DEF T
  <2>. QED  BY <1>2, <1>3, <2>1, CountUp
<1>. QED  BY <1>1, <1>4

LEMMA PathSplits ==
  ASSUME NEW height \in Nat, NEW node \in Paths(height)
  PROVE  \/ node = <<>>
         \/ \E k \in 1..MaxOperands : \E n \in 0..(height - 1) :
              \E sub \in [1..n -> 1..MaxOperands] : node = Cons(k, sub)
<1>1. PICK m \in 0..height : node \in [1..m -> 1..MaxOperands]
  BY DEF Paths
<1>2. CASE m = 0
  <2>1. node \in [{} -> 1..MaxOperands]
    BY <1>1, <1>2
  <2>. QED  BY <2>1
<1>3. CASE m # 0
  <2>. DEFINE n   == m - 1
              sub == [i \in 1..n |-> node[i + 1]]
  <2>1. n \in 0..(height - 1) /\ n + 1 = m
    BY <1>3
  <2>2. node[1] \in 1..MaxOperands
    BY <1>1, <1>3
  <2>3. sub \in [1..n -> 1..MaxOperands]
    BY <1>1
  <2>4. Len(sub) = n
    <3>. HIDE DEF sub
    <3>. QED  BY <2>1, <2>3, LengthOfPath
  <2>5. Cons(node[1], sub) = [i \in 1..m |-> IF i = 1 THEN node[1] ELSE sub[i - 1]]
    <3>. HIDE DEF sub, n
    <3>. QED  BY <2>1, <2>4 DEF Cons
  <2>6. ASSUME NEW i \in 1..m PROVE node[i] = IF i = 1 THEN node[1] ELSE sub[i - 1]
    <3>1. i # 1 => i - 1 \in 1..n /\ (i - 1) + 1 = i
      OBVIOUS
    <3>. QED  BY <3>1
  <2>7. node = Cons(node[1], sub)
    <3>. HIDE DEF sub, n
    <3>. QED  BY <1>1, <2>5, <2>6
  <2>. HIDE DEF sub, n
  <2>. QED  BY <2>1, <2>2, <2>3, <2>7
<1>. QED  BY <1>2, <1>3

LEMMA ConsInjective ==
  ASSUME NEW k \in 1..MaxOperands, NEW height \in Nat,
         NEW a \in Paths(height), NEW b \in Paths(height), Cons(k, a) = Cons(k, b)
  PROVE  a = b
<1>1. PICK m \in 0..height : a \in [1..m -> 1..MaxOperands]
  BY DEF Paths
<1>2. PICK n \in 0..height : b \in [1..n -> 1..MaxOperands]
  BY DEF Paths
<1>3. Len(Cons(k, a)) = m + 1 /\ \A i \in 1..m : Cons(k, a)[i + 1] = a[i]
  <2>0. m \in Nat
    OBVIOUS
  <2>1. Len(Cons(k, a)) = m + 1
    BY <2>0, <1>1, ConsIs
  <2>2. ASSUME NEW i \in 1..m PROVE Cons(k, a)[i + 1] = a[i]
    BY <2>0, <1>1, BehindCons
  <2>. QED  BY <2>1, <2>2
<1>4. Len(Cons(k, b)) = n + 1 /\ \A i \in 1..n : Cons(k, b)[i + 1] = b[i]
  <2>0. n \in Nat
    OBVIOUS
  <2>1. Len(Cons(k, b)) = n + 1
    BY <2>0, <1>2, ConsIs
  <2>2. ASSUME NEW i \in 1..n PROVE Cons(k, b)[i + 1] = b[i]
    BY <2>0, <1>2, BehindCons
  <2>. QED  BY <2>1, <2>2
<1>5. m = n
  BY <1>3, <1>4
<1>6. \A i \in 1..m : a[i] = b[i]
  BY <1>3, <1>4, <1>5
<1>. QED  BY <1>1, <1>2, <1>5, <1>6

(* v is computed by an operation on values of the function.                 *)
HasOperation(q, v) ==
  /\ NoValue \notin DOMAIN q.defs
  /\ v \in DOMAIN q.defs \ q.currentStack
  /\ q.defs[v] # Argument
  /\ \E m \in 0..MaxOperands : q.defs[v].operands \in [1..m -> DOMAIN q.defs]

OperandsOf(q, v) == q.defs[v].operands

LEMMA EmptyPath == <<>> \in Paths(0) /\ \A height \in Nat : <<>> \in Paths(height)
<1>1. <<>> \in [1..0 -> 1..MaxOperands]
  OBVIOUS
<1>2. \A height \in Nat : 0 \in 0..height
  OBVIOUS
<1>. QED  BY <1>1, <1>2 DEF Paths

LEMMA TreeIs ==
  ASSUME NEW q, NEW v, NEW height
  PROVE  Tree(q, v, height) =
           {node \in Paths(height) : ValueAt(q, v, node) \in DOMAIN q.defs \ q.currentStack}
BY Zenon DEF Tree, Paths

LEMMA RootInTree ==
  ASSUME NEW q, NEW v \in DOMAIN q.defs \ q.currentStack, NEW height \in Nat
  PROVE  /\ <<>> \in Tree(q, v, height)
         /\ Computed(q, v, <<>>) = Kind(q.defs[v])
<1>1. ValueAt(q, v, <<>>) = v
  BY AtRoot
<1>. QED  BY <1>1, EmptyPath, TreeIs DEF Computed

LEMMA PathBelow ==
  ASSUME NEW height \in Nat, NEW sub \in Paths(height), NEW k \in 1..MaxOperands
  PROVE  /\ Cons(k, sub) \in Paths(height + 1)
         /\ Len(Cons(k, sub)) = Len(sub) + 1
         /\ Len(sub) \in 0..height
         /\ Cons(k, sub)[1] = k
         /\ Cons(k, sub) # <<>>
<1>1. PICK n \in 0..height : sub \in [1..n -> 1..MaxOperands]
  BY DEF Paths
<1>2. Len(sub) = n
  BY <1>1, LengthOfPath
<1>3. Cons(k, sub) \in [1..(n + 1) -> 1..MaxOperands] /\ Len(Cons(k, sub)) = n + 1
      /\ Cons(k, sub)[1] = k
  <2>0. n \in Nat
    OBVIOUS
  <2>1. Cons(k, sub) \in [1..(n + 1) -> 1..MaxOperands]
    BY <2>0, <1>1, ConsIs
  <2>2. Len(Cons(k, sub)) = n + 1
    BY <1>1, ConsIs
  <2>3. Cons(k, sub)[1] = k
    BY <1>1, ConsIs
  <2>. QED  BY <2>1, <2>2, <2>3
<1>4. n + 1 \in 0..(height + 1)
  OBVIOUS
<1>5. Cons(k, sub) # <<>>
  BY <1>3
<1>. QED  BY <1>2, <1>3, <1>4, <1>5 DEF Paths

LEMMA OperandNumbers ==
  ASSUME NEW q, NEW v, HasOperation(q, v)
  PROVE  \E m \in 0..MaxOperands :
           /\ DOMAIN OperandsOf(q, v) = 1..m
           /\ Len(OperandsOf(q, v)) = m
           /\ \A k \in 1..m : /\ k \in 1..MaxOperands
                             /\ OperandsOf(q, v)[k] \in DOMAIN q.defs
                             /\ OperandOf(q, v, k) = OperandsOf(q, v)[k]
           /\ \A k \in (1..MaxOperands) \ (1..m) : OperandOf(q, v, k) = NoValue
<1>1. PICK m \in 0..MaxOperands : OperandsOf(q, v) \in [1..m -> DOMAIN q.defs]
  BY DEF HasOperation, OperandsOf
<1>2. m \in Nat /\ \A k \in 1..m : k \in 1..MaxOperands
  BY MaxOperandsAssumption
<1>3. Len(OperandsOf(q, v)) = m
  BY <1>1, <1>2, LengthOfPath
<1>4. DOMAIN OperandsOf(q, v) = 1..m
  BY <1>1
<1>5. \A k : OperandOf(q, v, k) = IF k \in 1..m THEN OperandsOf(q, v)[k] ELSE NoValue
  BY <1>4 DEF OperandOf, HasOperation, OperandsOf
<1>. QED  BY <1>1, <1>2, <1>3, <1>4, <1>5

LEMMA NodeBelow ==
  ASSUME NEW q, NEW v, HasOperation(q, v), NEW k \in DOMAIN OperandsOf(q, v),
         NEW height \in Nat, NEW sub \in Paths(height)
  PROVE  /\ k \in 1..MaxOperands
         /\ Cons(k, sub) \in Tree(q, v, height + 1)
              <=> sub \in Tree(q, OperandsOf(q, v)[k], height)
         /\ Computed(q, v, Cons(k, sub)) = Computed(q, OperandsOf(q, v)[k], sub)
<1>1. k \in 1..MaxOperands /\ OperandOf(q, v, k) = OperandsOf(q, v)[k]
  BY OperandNumbers
<1>2. PICK n \in 0..height : sub \in [1..n -> 1..MaxOperands]
  BY DEF Paths
<1>3. ValueAt(q, v, Cons(k, sub)) = ValueAt(q, OperandsOf(q, v)[k], sub)
  <2>1. n \in Nat
    OBVIOUS
  <2>. QED  BY <1>1, <1>2, <2>1, AtCons
<1>4. Cons(k, sub) \in Paths(height + 1)
  BY <1>1, PathBelow
<1>. QED  BY <1>1, <1>3, <1>4, TreeIs DEF Computed

LEMMA NodesOf ==
  ASSUME NEW q, NEW v, HasOperation(q, v), NEW height \in Nat,
         NEW node \in Tree(q, v, height + 1), node # <<>>
  PROVE  \E k \in DOMAIN OperandsOf(q, v) : \E sub \in Paths(height) : node = Cons(k, sub)
<1>1. node \in Paths(height + 1) /\ ValueAt(q, v, node) \in DOMAIN q.defs \ q.currentStack
  BY TreeIs
<1>2. \E k \in 1..MaxOperands : \E n \in 0..height :
        \E sub \in [1..n -> 1..MaxOperands] : node = Cons(k, sub)
  <2>1. height + 1 \in Nat /\ (height + 1) - 1 = height
    OBVIOUS
  <2>2. \E k \in 1..MaxOperands : \E n \in 0..((height + 1) - 1) :
          \E sub \in [1..n -> 1..MaxOperands] : node = Cons(k, sub)
    BY <1>1, <2>1, PathSplits, Zenon
  <2>. QED  BY <2>1, <2>2
<1>. PICK k \in 1..MaxOperands, n \in 0..height :
       \E sub \in [1..n -> 1..MaxOperands] : node = Cons(k, sub)
  BY <1>2
<1>. PICK sub \in [1..n -> 1..MaxOperands] : node = Cons(k, sub)
  OBVIOUS
<1>3. n \in Nat /\ sub \in Paths(height)
  <2>1. n \in Nat
    OBVIOUS
  <2>2. sub \in Paths(height)
    BY Zenon DEF Paths
  <2>. QED  BY <2>1, <2>2
<1>4. ValueAt(q, v, node) = ValueAt(q, OperandOf(q, v, k), sub)
  BY <1>3, AtCons
<1>5. k \in DOMAIN OperandsOf(q, v)
  <2>1. SUFFICES ASSUME k \notin DOMAIN OperandsOf(q, v) PROVE FALSE
    OBVIOUS
  <2>2. OperandOf(q, v, k) = NoValue
    BY <2>1, OperandNumbers
  <2>3. NoValue \notin DOMAIN q.defs
    BY DEF HasOperation
  <2>4. Len(sub) = n
    BY <1>3, LengthOfPath
  <2>5. ValueAt(q, NoValue, sub) \notin DOMAIN q.defs \ q.currentStack
    BY <1>3, <2>3, <2>4, NothingBelow
  <2>. QED  BY <1>1, <1>4, <2>2, <2>5
<1>. QED  BY <1>3, <1>5

(* Everything can run again if the operation itself can and what each of    *)
(* its operands takes.                                                      *)
LEMMA ComputableSplits ==
  ASSUME NEW q, NEW v, HasOperation(q, v), NEW height \in Nat
  PROVE  Computable(q, v, height + 1) <=>
           /\ Kind(q.defs[v]) \in DOMAIN Gas
           /\ \A k \in DOMAIN OperandsOf(q, v) : Computable(q, OperandsOf(q, v)[k], height)
<1>. DEFINE ops == OperandsOf(q, v)
<1>0. height + 1 \in Nat /\ v \in DOMAIN q.defs \ q.currentStack
  BY DEF HasOperation
<1>1. <<>> \in Tree(q, v, height + 1) /\ Computed(q, v, <<>>) = Kind(q.defs[v])
  BY <1>0, RootInTree
<1>2. ASSUME Computable(q, v, height + 1), NEW k \in DOMAIN ops
      PROVE  Computable(q, ops[k], height)
  <2>1. SUFFICES ASSUME NEW sub \in Tree(q, ops[k], height)
                 PROVE  Len(sub) < height /\ Computed(q, ops[k], sub) \in DOMAIN Gas
    BY DEF Computable
  <2>2. sub \in Paths(height)
    BY TreeIs
  <2>3. k \in 1..MaxOperands /\ Cons(k, sub) \in Tree(q, v, height + 1)
        /\ Computed(q, v, Cons(k, sub)) = Computed(q, ops[k], sub)
    BY <2>2, NodeBelow
  <2>4. Len(Cons(k, sub)) < height + 1 /\ Computed(q, v, Cons(k, sub)) \in DOMAIN Gas
    BY <1>2, <2>3 DEF Computable
  <2>5. Len(Cons(k, sub)) = Len(sub) + 1 /\ Len(sub) \in 0..height
    BY <2>2, <2>3, PathBelow
  <2>. QED  BY <2>3, <2>4, <2>5
<1>3. ASSUME Kind(q.defs[v]) \in DOMAIN Gas, \A k \in DOMAIN ops : Computable(q, ops[k], height)
      PROVE  Computable(q, v, height + 1)
  <2>1. SUFFICES ASSUME NEW node \in Tree(q, v, height + 1)
                 PROVE  Len(node) < height + 1 /\ Computed(q, v, node) \in DOMAIN Gas
    BY DEF Computable
  <2>2. CASE node = <<>>
    BY <1>1, <1>3, <2>2
  <2>3. CASE node # <<>>
    <3>1. PICK k \in DOMAIN ops, sub \in Paths(height) : node = Cons(k, sub)
      BY <2>3, NodesOf
    <3>2. k \in 1..MaxOperands /\ sub \in Tree(q, ops[k], height)
          /\ Computed(q, v, node) = Computed(q, ops[k], sub)
      BY <3>1, NodeBelow
    <3>3. Len(sub) < height /\ Computed(q, ops[k], sub) \in DOMAIN Gas
      BY <1>3, <3>2 DEF Computable
    <3>4. Len(node) = Len(sub) + 1 /\ Len(sub) \in 0..height
      BY <3>1, <3>2, PathBelow
    <3>. QED  BY <3>2, <3>3, <3>4
  <2>. QED  BY <2>2, <2>3
<1>4. Computable(q, v, height + 1) => Kind(q.defs[v]) \in DOMAIN Gas
  BY <1>1 DEF Computable
<1>. QED  BY <1>2, <1>3, <1>4

-----------------------------------------------------------------------------
(* The gas of a tree is that of its root and of its subtrees.               *)

RootUnits(q, v) == {<<>>} \X (1..Gas[Kind(q.defs[v])])

UnitsBelow(q, v, k, height) ==
  {<<Cons(k, x[1]), x[2]>> : x \in GasUnits(q, OperandsOf(q, v)[k], height)}

(* The gas of the operation and its first n operands.                       *)
UnitsUpto(q, v, n, height) ==
  RootUnits(q, v) \cup UNION {UnitsBelow(q, v, k, height) : k \in 1..n}

LEMMA UnitsAre ==
  ASSUME NEW q, NEW v, NEW height, NEW x
  PROVE  x \in GasUnits(q, v, height) <=>
           \E node \in Tree(q, v, height) :
             \E u \in 1..Gas[Computed(q, v, node)] : x = <<node, u>>
<1>1. \A node, A : x \in {node} \X A <=> \E u \in A : x = <<node, u>>
  OBVIOUS
<1>2. x \in GasUnits(q, v, height) <=>
        \E node \in Tree(q, v, height) : x \in {node} \X (1..Gas[Computed(q, v, node)])
  BY Zenon DEF GasUnits
<1>. QED  BY <1>1, <1>2, Zenon

LEMMA UnitsSplit ==
  ASSUME NEW q, NEW v, HasOperation(q, v), NEW height \in Nat
  PROVE  GasUnits(q, v, height + 1) = UnitsUpto(q, v, Len(OperandsOf(q, v)), height)
<1>. DEFINE ops == OperandsOf(q, v)
            N   == Len(ops)
<1>0. height + 1 \in Nat /\ v \in DOMAIN q.defs \ q.currentStack
  BY DEF HasOperation
<1>1. <<>> \in Tree(q, v, height + 1) /\ Computed(q, v, <<>>) = Kind(q.defs[v])
  BY <1>0, RootInTree
<1>2. DOMAIN ops = 1..N
  BY OperandNumbers
<1>3. ASSUME NEW x \in GasUnits(q, v, height + 1) PROVE x \in UnitsUpto(q, v, N, height)
  <2>. PICK node \in Tree(q, v, height + 1) :
         \E u \in 1..Gas[Computed(q, v, node)] : x = <<node, u>>
    BY <1>3, UnitsAre
  <2>1. PICK u \in 1..Gas[Computed(q, v, node)] : x = <<node, u>>
    OBVIOUS
  <2>2. CASE node = <<>>
    <3>1. x \in RootUnits(q, v)
      BY <1>1, <2>1, <2>2 DEF RootUnits
    <3>. QED  BY <3>1 DEF UnitsUpto
  <2>3. CASE node # <<>>
    <3>1. PICK k \in DOMAIN ops, sub \in Paths(height) : node = Cons(k, sub)
      BY <2>3, NodesOf
    <3>2. sub \in Tree(q, ops[k], height) /\ Computed(q, v, node) = Computed(q, ops[k], sub)
      BY <3>1, NodeBelow
    <3>3. <<sub, u>> \in GasUnits(q, ops[k], height)
      BY <2>1, <3>2, UnitsAre
    <3>4. x \in UnitsBelow(q, v, k, height)
      BY <2>1, <3>1, <3>3 DEF UnitsBelow
    <3>5. k \in 1..N
      BY <1>2
    <3>. QED  BY <3>4, <3>5 DEF UnitsUpto
  <2>. QED  BY <2>2, <2>3
<1>4. ASSUME NEW x \in UnitsUpto(q, v, N, height) PROVE x \in GasUnits(q, v, height + 1)
  <2>1. CASE x \in RootUnits(q, v)
    <3>1. PICK u \in 1..Gas[Kind(q.defs[v])] : x = <<<<>>, u>>
      BY <2>1 DEF RootUnits
    <3>. QED  BY <1>1, <3>1, UnitsAre
  <2>2. CASE x \notin RootUnits(q, v)
    <3>1. PICK k \in 1..N : x \in UnitsBelow(q, v, k, height)
      BY <2>2 DEF UnitsUpto
    <3>2. PICK y \in GasUnits(q, ops[k], height) : x = <<Cons(k, y[1]), y[2]>>
      BY <3>1 DEF UnitsBelow
    <3>. PICK sub \in Tree(q, ops[k], height) :
           \E u \in 1..Gas[Computed(q, ops[k], sub)] : y = <<sub, u>>
      BY <3>2, UnitsAre
    <3>3. PICK u \in 1..Gas[Computed(q, ops[k], sub)] : y = <<sub, u>>
      OBVIOUS
    <3>4. sub \in Paths(height) /\ k \in DOMAIN ops
      BY <1>2, TreeIs
    <3>5. Cons(k, sub) \in Tree(q, v, height + 1)
          /\ Computed(q, v, Cons(k, sub)) = Computed(q, ops[k], sub)
      BY <3>4, NodeBelow
    <3>6. x = <<Cons(k, sub), u>>
      BY <3>2, <3>3
    <3>. QED  BY <3>3, <3>5, <3>6, UnitsAre
  <2>. QED  BY <2>1, <2>2
<1>. QED  BY <1>3, <1>4

LEMMA UnitsMoved ==
  ASSUME NEW q, NEW v, HasOperation(q, v), NEW k \in DOMAIN OperandsOf(q, v),
         NEW height \in Nat, IsFiniteSet(GasUnits(q, OperandsOf(q, v)[k], height))
  PROVE  /\ IsFiniteSet(UnitsBelow(q, v, k, height))
         /\ Cardinality(UnitsBelow(q, v, k, height)) = TotalGas(q, OperandsOf(q, v)[k], height)
<1>. DEFINE S == GasUnits(q, OperandsOf(q, v)[k], height)
            U == UnitsBelow(q, v, k, height)
            f == [x \in S |-> <<Cons(k, x[1]), x[2]>>]
<1>1. ASSUME NEW x \in S PROVE x[1] \in Paths(height) /\ x = <<x[1], x[2]>>
  <2>1. PICK node \in Tree(q, OperandsOf(q, v)[k], height) : \E u : x = <<node, u>>
    BY UnitsAre
  <2>2. node \in Paths(height)
    BY TreeIs
  <2>. QED  BY <2>1, <2>2
<1>2. k \in 1..MaxOperands
  BY OperandNumbers
<1>3. ASSUME NEW x \in S, NEW y \in S, f[x] = f[y] PROVE x = y
  <2>1. Cons(k, x[1]) = Cons(k, y[1]) /\ x[2] = y[2]
    BY <1>3
  <2>2. x[1] = y[1]
    BY <1>1, <1>2, <2>1, ConsInjective
  <2>. QED  BY <1>1, <2>1, <2>2
<1>4. U = {f[x] : x \in S}
  BY DEF UnitsBelow
<1>5. f \in Bijection(S, U)
  <2>1. f \in [S -> U]
    BY <1>4
  <2>2. \A t \in U : \E x \in S : f[x] = t
    BY <1>4
  <2>. HIDE DEF f, S, U
  <2>. QED  BY <1>3, <2>1, <2>2 DEF Bijection, Injection, Surjection, IsInjective
<1>6. ExistsBijection(S, U)
  <2>. HIDE DEF f, S, U
  <2>. QED  BY <1>5 DEF ExistsBijection
<1>. QED  BY <1>6, FS_Bijection DEF TotalGas

(* One operand more adds its gas.                                           *)
LEMMA UnitsAdd ==
  ASSUME NEW q, NEW v, HasOperation(q, v), NEW height \in Nat,
         NEW n \in Nat, n + 1 \in DOMAIN OperandsOf(q, v),
         IsFiniteSet(UnitsUpto(q, v, n, height)),
         IsFiniteSet(GasUnits(q, OperandsOf(q, v)[n + 1], height))
  PROVE  /\ IsFiniteSet(UnitsUpto(q, v, n + 1, height))
         /\ Cardinality(UnitsUpto(q, v, n + 1, height)) =
              Cardinality(UnitsUpto(q, v, n, height))
              + TotalGas(q, OperandsOf(q, v)[n + 1], height)
<1>. DEFINE A == UnitsUpto(q, v, n, height)
            B == UnitsBelow(q, v, n + 1, height)
<1>1. UnitsUpto(q, v, n + 1, height) = A \cup B
  <2>1. 1..(n + 1) = (1..n) \cup {n + 1}
    OBVIOUS
  <2>. QED  BY <2>1 DEF UnitsUpto
<1>2. IsFiniteSet(B) /\ Cardinality(B) = TotalGas(q, OperandsOf(q, v)[n + 1], height)
  BY UnitsMoved
<1>3. ASSUME NEW k \in DOMAIN OperandsOf(q, v), NEW x \in UnitsBelow(q, v, k, height)
      PROVE  x[1] # <<>> /\ x[1][1] = k
  <2>1. PICK y \in GasUnits(q, OperandsOf(q, v)[k], height) : x = <<Cons(k, y[1]), y[2]>>
    BY <1>3 DEF UnitsBelow
  <2>2. PICK node \in Tree(q, OperandsOf(q, v)[k], height) : \E u : y = <<node, u>>
    BY UnitsAre
  <2>3. node \in Paths(height) /\ x[1] = Cons(k, node)
    BY <2>1, <2>2, TreeIs
  <2>4. k \in 1..MaxOperands
    BY OperandNumbers
  <2>. QED  BY <2>3, <2>4, PathBelow
<1>4. A \cap B = {}
  <2>1. SUFFICES ASSUME NEW x \in A, x \in B PROVE FALSE
    OBVIOUS
  <2>2. x[1] # <<>> /\ x[1][1] = n + 1
    BY <1>3, <2>1
  <2>3. CASE x \in RootUnits(q, v)
    BY <2>2, <2>3 DEF RootUnits
  <2>4. CASE x \notin RootUnits(q, v)
    <3>1. PICK k \in 1..n : x \in UnitsBelow(q, v, k, height)
      BY <2>1, <2>4 DEF UnitsUpto
    <3>2. k \in DOMAIN OperandsOf(q, v)
      <4>1. PICK m \in 0..MaxOperands : DOMAIN OperandsOf(q, v) = 1..m
        BY OperandNumbers
      <4>. QED  BY <4>1
    <3>3. x[1][1] = k
      BY <1>3, <3>1, <3>2
    <3>. QED  BY <2>2, <3>3
  <2>. QED  BY <2>3, <2>4
<1>. HIDE DEF A, B
<1>5. Cardinality(A) \in Nat /\ Cardinality(B) \in Nat
  BY <1>2, FS_CardinalityType DEF A
<1>6. IsFiniteSet(A \cup B)
      /\ Cardinality(A \cup B) = Cardinality(A) + Cardinality(B) - Cardinality(A \cap B)
  BY <1>2, FS_Union DEF A
<1>7. Cardinality(A \cap B) = 0
  BY <1>4, FS_EmptySet
<1>8. Cardinality(A \cup B) = Cardinality(A) + Cardinality(B)
  BY <1>5, <1>6, <1>7
<1>. QED  BY <1>1, <1>2, <1>6, <1>8 DEF A

LEMMA UnitsOfRoot ==
  ASSUME NEW q, NEW v, Kind(q.defs[v]) \in DOMAIN Gas, NEW height
  PROVE  /\ IsFiniteSet(UnitsUpto(q, v, 0, height))
         /\ Cardinality(UnitsUpto(q, v, 0, height)) = Gas[Kind(q.defs[v])]
<1>. DEFINE g == Gas[Kind(q.defs[v])]
<1>1. g \in Nat
  BY GasAssumption
<1>2. UnitsUpto(q, v, 0, height) = {<<>>} \X (1..g)
  <2>1. 1..0 = {}
    OBVIOUS
  <2>. QED  BY <2>1 DEF UnitsUpto, RootUnits
<1>. HIDE DEF g
<1>3. IsFiniteSet(1..g) /\ Cardinality(1..g) = g
  BY <1>1, FS_Interval
<1>4. IsFiniteSet({<<>>}) /\ Cardinality({<<>>}) = 1
  BY FS_Singleton
<1>5. IsFiniteSet({<<>>} \X (1..g))
  BY <1>3, <1>4, FS_Product
<1>6. Cardinality({<<>>} \X (1..g)) = Cardinality({<<>>}) * Cardinality(1..g)
  BY <1>3, <1>4, FS_Product
<1>7. Cardinality({<<>>} \X (1..g)) = g
  BY <1>1, <1>3, <1>4, <1>6
<1>. QED  BY <1>2, <1>5, <1>7 DEF g

-----------------------------------------------------------------------------
(* What is computed is finite.                                              *)

LEMMA OnTheStack ==
  ASSUME NEW q, NoValue \notin DOMAIN q.defs, NEW v \in q.currentStack, NEW height \in Nat
  PROVE  /\ Computable(q, v, height)
         /\ GasUnits(q, v, height) = {}
         /\ TotalGas(q, v, height) = 0
<1>1. Tree(q, v, height) = {}
  <2>1. SUFFICES ASSUME NEW node \in Tree(q, v, height) PROVE FALSE
    OBVIOUS
  <2>2. node \in Paths(height) /\ ValueAt(q, v, node) \in DOMAIN q.defs \ q.currentStack
    BY TreeIs
  <2>3. PICK n \in 0..height : node \in [1..n -> 1..MaxOperands]
    BY <2>2 DEF Paths
  <2>4. Len(node) = n /\ n \in Nat
    BY <2>3, LengthOfPath
  <2>. QED  BY <2>2, <2>4, NothingBelow
<1>2. GasUnits(q, v, height) = {}
  BY <1>1 DEF GasUnits
<1>. QED  BY <1>1, <1>2, FS_EmptySet DEF Computable, TotalGas

LEMMA OffTheStack ==
  ASSUME NEW q \in Questions, NEW v \in DOMAIN q.defs \ q.currentStack
  PROVE  /\ NoValue \notin DOMAIN q.defs
         /\ ~Computable(q, v, 0)
         /\ \A height \in Nat :
              Computable(q, v, height) => Kind(q.defs[v]) \in DOMAIN Gas
         /\ Kind(q.defs[v]) \in DOMAIN Gas =>
              /\ HasOperation(q, v)
              /\ canRecompute(q.defs[v].name)
              /\ opcodeCost(q.defs, v) = Gas[Kind(q.defs[v])]
              /\ Gas[Kind(q.defs[v])] \in Nat
         /\ Kind(q.defs[v]) \notin DOMAIN Gas =>
              (canRecompute(q.defs[v].name) => opcodeCost(q.defs, v) = NoCost)
<1>1. q.defs \in Functions
  BY DEF Questions
<1>2. NoValue \notin DOMAIN q.defs
  BY <1>1, FunctionsAssumption
<1>3. \A height \in Nat : /\ <<>> \in Tree(q, v, height)
                         /\ Computed(q, v, <<>>) = Kind(q.defs[v])
  BY RootInTree
<1>4. ~Computable(q, v, 0)
  <2>1. Len(<<>>) = 0 /\ 0 \in Nat
    OBVIOUS
  <2>. QED  BY <1>3, <2>1 DEF Computable
<1>5. \A height \in Nat : Computable(q, v, height) => Kind(q.defs[v]) \in DOMAIN Gas
  BY <1>3 DEF Computable
<1>6. ASSUME Kind(q.defs[v]) \in DOMAIN Gas PROVE HasOperation(q, v)
  <2>1. q.defs[v] # Argument
    BY <1>1, <1>6, GasAssumption
  <2>2. q.defs[v].operands \in UNION {[1..n -> DOMAIN q.defs] : n \in 0..MaxOperands}
    BY <1>1, <2>1, FunctionsAssumption
  <2>. QED  BY <1>2, <2>1, <2>2 DEF HasOperation
<1>. QED  BY <1>1, <1>2, <1>4, <1>5, <1>6, GasAssumption

LEMMA UnitsFinite ==
  ASSUME NEW q \in Questions, NEW v \in DOMAIN q.defs, HasOperation(q, v),
         Kind(q.defs[v]) \in DOMAIN Gas, NEW height \in Nat,
         NEW n \in 0..Len(OperandsOf(q, v)),
         \A k \in 1..n : IsFiniteSet(GasUnits(q, OperandsOf(q, v)[k], height))
  PROVE  /\ IsFiniteSet(UnitsUpto(q, v, n, height))
         /\ Cardinality(UnitsUpto(q, v, n, height)) \in Nat
<1>. DEFINE T == {i \in 0..n : IsFiniteSet(UnitsUpto(q, v, i, height))}
<1>0. PICK m \in 0..MaxOperands : DOMAIN OperandsOf(q, v) = 1..m /\ Len(OperandsOf(q, v)) = m
  BY OperandNumbers
<1>1. n \in Nat /\ n \in 0..n
  BY <1>0
<1>2. 0 \in T
  BY <1>1, UnitsOfRoot
<1>3. ASSUME NEW i \in 0..(n - 1), i \in T PROVE i + 1 \in T
  <2>1. i \in Nat /\ i + 1 \in 1..n /\ i + 1 \in 0..n
    BY <1>1
  <2>2. i + 1 \in DOMAIN OperandsOf(q, v)
    BY <1>0, <2>1
  <2>3. IsFiniteSet(UnitsUpto(q, v, i, height))
        /\ IsFiniteSet(GasUnits(q, OperandsOf(q, v)[i + 1], height))
    BY <1>3, <2>1
  <2>4. IsFiniteSet(UnitsUpto(q, v, i + 1, height))
    BY <2>1, <2>2, <2>3, UnitsAdd
  <2>. QED  BY <2>1, <2>4
<1>4. n \in T
  <2>. HIDE DEF T
  <2>. QED  BY <1>1, <1>2, <1>3, CountUp
<1>. QED  BY <1>4, FS_CardinalityType

LEMMA GasIsFinite ==
  ASSUME NEW q \in Questions, NEW bound \in Nat
  PROVE  \A height \in 0..bound : \A v \in DOMAIN q.defs :
           Computable(q, v, height) =>
             IsFiniteSet(GasUnits(q, v, height)) /\ TotalGas(q, v, height) \in Nat
<1>. DEFINE T == {height \in 0..bound : \A v \in DOMAIN q.defs :
                    Computable(q, v, height) => IsFiniteSet(GasUnits(q, v, height))}
<1>0. q.defs \in Functions /\ NoValue \notin DOMAIN q.defs
  BY FunctionsAssumption DEF Questions
<1>1. 0 \in T
  <2>1. SUFFICES ASSUME NEW v \in DOMAIN q.defs, Computable(q, v, 0)
                 PROVE  IsFiniteSet(GasUnits(q, v, 0))
    OBVIOUS
  <2>2. v \in q.currentStack
    BY <2>1, OffTheStack
  <2>3. 0 \in Nat
    OBVIOUS
  <2>4. GasUnits(q, v, 0) = {}
    BY <1>0, <2>2, <2>3, OnTheStack
  <2>. QED  BY <2>4, FS_EmptySet
<1>2. ASSUME NEW height \in 0..(bound - 1), height \in T PROVE height + 1 \in T
  <2>0. height \in Nat /\ height + 1 \in Nat /\ height + 1 \in 0..bound
    OBVIOUS
  <2>1. SUFFICES ASSUME NEW v \in DOMAIN q.defs, Computable(q, v, height + 1)
                 PROVE  IsFiniteSet(GasUnits(q, v, height + 1))
    BY <2>0
  <2>2. CASE v \in q.currentStack
    BY <1>0, <2>0, <2>2, OnTheStack, FS_EmptySet
  <2>3. CASE v \notin q.currentStack
    <3>1. Kind(q.defs[v]) \in DOMAIN Gas /\ HasOperation(q, v)
      BY <2>0, <2>1, <2>3, OffTheStack
    <3>2. PICK m \in 0..MaxOperands :
            /\ DOMAIN OperandsOf(q, v) = 1..m
            /\ Len(OperandsOf(q, v)) = m
            /\ \A k \in 1..m : OperandsOf(q, v)[k] \in DOMAIN q.defs
      BY <3>1, OperandNumbers
    <3>3. \A k \in 1..m : Computable(q, OperandsOf(q, v)[k], height)
      BY <2>0, <2>1, <3>1, <3>2, ComputableSplits
    <3>4. \A k \in 1..m : IsFiniteSet(GasUnits(q, OperandsOf(q, v)[k], height))
      BY <1>2, <3>2, <3>3
    <3>5. m \in 0..Len(OperandsOf(q, v))
      BY <3>2
    <3>6. IsFiniteSet(UnitsUpto(q, v, m, height))
      BY <2>0, <3>1, <3>4, <3>5, UnitsFinite
    <3>. QED  BY <2>0, <3>1, <3>2, <3>6, UnitsSplit
  <2>. QED  BY <2>2, <2>3
<1>3. \A height \in 0..bound : height \in T
  <2>. HIDE DEF T
  <2>. QED  BY <1>1, <1>2, CountUp
<1>. QED  BY <1>3, FS_CardinalityType DEF TotalGas

-----------------------------------------------------------------------------
(* The recursion.                                                           *)

(* What a call for v should answer, height levels above MAX_DEPTH, when so  *)
(* much has been spent.                                                     *)
Expected(q, v, height, spent, threshold) ==
  IF v \in q.currentStack THEN 0
  ELSE IF /\ Computable(q, v, height)
          /\ spent + TotalGas(q, v, height) < threshold
       THEN TotalGas(q, v, height) ELSE None

Answers(impl, q, v, depth, height, threshold) ==
  \A spent \in Nat :
    impl[Call(v, depth, spent)] = Expected(q, v, height, spent, threshold)

(* cost follows an operation and its operands.                              *)
IsCost(impl, operands, gas, threshold, call, cost) ==
  /\ cost[0] = IF Affordable(call.accumulatedCost + gas, threshold) THEN gas ELSE None
  /\ \A k \in 1..Len(operands) :
       cost[k] = addOperand(impl, operands[k], threshold, call, cost[k - 1])

LEMMA CostRecursion ==
  ASSUME NEW impl, NEW operands, Len(operands) \in Nat, NEW gas, NEW threshold, NEW call
  PROVE  \E cost :
           /\ IsCost(impl, operands, gas, threshold, call, cost)
           /\ costWithOperands(impl, operands, gas, threshold, call) = cost[Len(operands)]
<1>. DEFINE N == Len(operands)
            a == IF Affordable(call.accumulatedCost + gas, threshold) THEN gas ELSE None
            Upto(f, m) == f = [k \in 0..m |->
              IF k = 0
              THEN IF Affordable(call.accumulatedCost + gas, threshold) THEN gas ELSE None
              ELSE addOperand(impl, operands[k], threshold, call, f[k - 1])]
            T == {m \in 0..N : \E f : Upto(f, m)}
<1>1. 0 \in T
  <2>. DEFINE f == [i \in 0..0 |-> a]
  <2>1. Upto(f, 0)
    OBVIOUS
  <2>. HIDE DEF f
  <2>. QED  BY <2>1
<1>2. ASSUME NEW m \in 0..(N - 1), m \in T PROVE m + 1 \in T
  <2>1. PICK f : Upto(f, m)
    BY <1>2
  <2>. DEFINE g == [i \in 0..(m + 1) |->
                      IF i = m + 1
                      THEN addOperand(impl, operands[m + 1], threshold, call, f[m])
                      ELSE f[i]]
  <2>2. ASSUME NEW i \in 0..(m + 1)
        PROVE  g[i] = IF i = 0 THEN a
                      ELSE addOperand(impl, operands[i], threshold, call, g[i - 1])
    <3>. HIDE DEF a
    <3>1. CASE i = 0
      <4>1. f[0] = a /\ 0 # m + 1
        BY <2>1 DEF a
      <4>. QED  BY <3>1, <4>1
    <3>2. CASE i # 0
      <4>1. i - 1 \in 0..m /\ i - 1 # m + 1
        BY <3>2
      <4>2. g[i - 1] = f[i - 1]
        BY <4>1
      <4>3. CASE i = m + 1
        BY <3>2, <4>2, <4>3
      <4>4. CASE i # m + 1
        <5>1. i \in 0..m /\ g[i] = f[i]
          BY <4>4
        <5>2. f[i] = addOperand(impl, operands[i], threshold, call, f[i - 1])
          BY <2>1, <3>2, <5>1
        <5>. QED  BY <3>2, <4>2, <5>1, <5>2
      <4>. QED  BY <4>3, <4>4
    <3>. QED  BY <3>1, <3>2
  <2>3. Upto(g, m + 1)
    BY <2>2
  <2>4. m + 1 \in 0..N
    OBVIOUS
  <2>5. \E u : Upto(u, m + 1)
    <3>. HIDE DEF g, Upto
    <3>. QED  BY <2>3
  <2>. HIDE DEF g, Upto
  <2>. QED  BY <2>4, <2>5
<1>3. \E f : Upto(f, N)
  <2>1. N \in T
    <3>1. N \in 0..N
      OBVIOUS
    <3>. HIDE DEF T
    <3>. QED  BY <1>1, <1>2, <3>1, CountUp
  <2>. QED  BY <2>1
<1>. DEFINE cost == CHOOSE f : Upto(f, N)
<1>4. Upto(cost, N)
  BY <1>3
<1>5. costWithOperands(impl, operands, gas, threshold, call) = cost[N]
  BY Zenon DEF costWithOperands
<1>6. IsCost(impl, operands, gas, threshold, call, cost)
  <2>. HIDE DEF cost
  <2>. QED  BY <1>4 DEF IsCost
<1>. QED  BY <1>5, <1>6

(* One operand: the budget is exceeded just when the sum is too dear.       *)
LEMMA OneOperand ==
  ASSUME NEW q \in Questions, NEW height \in Nat, NEW threshold \in Int, NEW impl,
         NEW call, call.accumulatedCost \in Nat, NEW w \in DOMAIN q.defs,
         Answers(impl, q, w, call.depth + 1, height, threshold),
         NEW before \in Nat, call.accumulatedCost + before < threshold
  PROVE  addOperand(impl, w, threshold, call, before) =
           IF /\ Computable(q, w, height)
              /\ call.accumulatedCost + (before + TotalGas(q, w, height)) < threshold
           THEN before + TotalGas(q, w, height) ELSE None
<1>. DEFINE budget == call.accumulatedCost + before
            total  == TotalGas(q, w, height)
            answer == Expected(q, w, height, budget, threshold)
<1>1. budget \in Nat /\ before # None
  BY DEF None
<1>2. impl[Call(w, call.depth + 1, budget)] = answer
  BY <1>1 DEF Answers
<1>3. addOperand(impl, w, threshold, call, before) =
        IF answer # None /\ budget + answer < threshold THEN before + answer ELSE None
  <2>. HIDE DEF answer
  <2>. QED  BY <1>1, <1>2 DEF addOperand, OperandBudget, Affordable
<1>4. Computable(q, w, height) => total \in Nat
  <2>1. height \in 0..height
    OBVIOUS
  <2>. QED  BY <2>1, GasIsFinite
<1>5. CASE w \in q.currentStack
  <2>1. NoValue \notin DOMAIN q.defs
    BY FunctionsAssumption DEF Questions
  <2>2. Computable(q, w, height) /\ total = 0
    BY <1>5, <2>1, OnTheStack
  <2>3. answer = 0
    BY <1>5 DEF Expected
  <2>. HIDE DEF answer, total
  <2>. QED  BY <1>3, <2>2, <2>3 DEF None, total
<1>6. CASE w \notin q.currentStack
  <2>1. answer = IF Computable(q, w, height) /\ budget + total < threshold
                 THEN total ELSE None
    BY <1>6 DEF Expected
  <2>. HIDE DEF answer, total
  <2>2. CASE Computable(q, w, height) /\ budget + total < threshold
    <3>1. answer = total /\ total \in Nat
      BY <1>4, <2>1, <2>2
    <3>. QED  BY <1>1, <1>3, <2>2, <3>1 DEF None, total
  <2>3. CASE ~(Computable(q, w, height) /\ budget + total < threshold)
    <3>1. answer = None
      BY <2>1, <2>3
    <3>2. ~(/\ Computable(q, w, height)
            /\ call.accumulatedCost + (before + total) < threshold)
      BY <1>4, <2>3
    <3>. QED  BY <1>3, <3>1, <3>2 DEF total
  <2>. QED  BY <2>2, <2>3
<1>. QED  BY <1>5, <1>6

LEMMA AllOperands ==
  ASSUME NEW q \in Questions, NEW height \in Nat, NEW threshold \in Int, NEW impl,
         NEW v \in DOMAIN q.defs, HasOperation(q, v), Kind(q.defs[v]) \in DOMAIN Gas,
         NEW call, call.accumulatedCost \in Nat,
         \A w \in DOMAIN q.defs : Answers(impl, q, w, call.depth + 1, height, threshold)
  PROVE  costWithOperands(impl, OperandsOf(q, v), Gas[Kind(q.defs[v])], threshold, call) =
           IF /\ Computable(q, v, height + 1)
              /\ call.accumulatedCost + TotalGas(q, v, height + 1) < threshold
           THEN TotalGas(q, v, height + 1) ELSE None
<1>. DEFINE ops == OperandsOf(q, v)
            gas == Gas[Kind(q.defs[v])]
            acc == call.accumulatedCost
            C(n) == \A k \in 1..n : Computable(q, ops[k], height)
            U(n) == Cardinality(UnitsUpto(q, v, n, height))
<1>1. PICK m \in 0..MaxOperands :
        /\ DOMAIN ops = 1..m
        /\ Len(ops) = m
        /\ \A k \in 1..m : ops[k] \in DOMAIN q.defs
  BY OperandNumbers
<1>2. m \in Nat
  BY MaxOperandsAssumption
<1>3. PICK cost :
        /\ costWithOperands(impl, ops, gas, threshold, call) = cost[m]
        /\ cost[0] = IF Affordable(acc + gas, threshold) THEN gas ELSE None
        /\ \A k \in 1..m : cost[k] = addOperand(impl, ops[k], threshold, call, cost[k - 1])
  <2>. HIDE DEF ops, gas, acc
  <2>1. Len(ops) \in Nat
    BY <1>1, <1>2
  <2>2. PICK cost : /\ IsCost(impl, ops, gas, threshold, call, cost)
                    /\ costWithOperands(impl, ops, gas, threshold, call) = cost[Len(ops)]
    BY <2>1, CostRecursion
  <2>. QED  BY <1>1, <2>2 DEF IsCost, acc
<1>4. ASSUME NEW n \in 0..m, C(n) PROVE IsFiniteSet(UnitsUpto(q, v, n, height)) /\ U(n) \in Nat
  <2>1. ASSUME NEW k \in 1..n PROVE IsFiniteSet(GasUnits(q, ops[k], height))
    <3>1. k \in 1..m /\ height \in 0..height
      BY <1>2
    <3>. QED  BY <1>1, <1>4, <3>1, GasIsFinite
  <2>2. n \in 0..Len(OperandsOf(q, v))
    BY <1>1
  <2>. QED  BY <2>1, <2>2, UnitsFinite
<1>. DEFINE Right(n) == cost[n] = IF C(n) /\ acc + U(n) < threshold THEN U(n) ELSE None
            T == {n \in 0..m : Right(n)}
<1>5. 0 \in T
  <2>1. U(0) = gas
    BY UnitsOfRoot
  <2>2. C(0) /\ 0 \in 0..m
    BY <1>2
  <2>. HIDE DEF C, U, gas, acc
  <2>. QED  BY <1>3, <2>1, <2>2 DEF Affordable
<1>6. ASSUME NEW n \in 0..(m - 1), n \in T PROVE n + 1 \in T
  <2>1. n \in 0..m /\ n + 1 \in 1..m /\ n + 1 \in 0..m /\ (n + 1) - 1 = n /\ n \in Nat
    BY <1>2
  <2>2. ops[n + 1] \in DOMAIN q.defs /\ n + 1 \in DOMAIN OperandsOf(q, v)
    BY <1>1, <2>1
  <2>3. cost[n + 1] = addOperand(impl, ops[n + 1], threshold, call, cost[n])
    BY <1>3, <2>1
  <2>4. C(n + 1) <=> C(n) /\ Computable(q, ops[n + 1], height)
    <3>1. 1..(n + 1) = (1..n) \cup {n + 1}
      BY <2>1
    <3>. QED  BY <3>1
  <2>. DEFINE total == TotalGas(q, ops[n + 1], height)
  <2>5. ASSUME C(n + 1) PROVE U(n + 1) = U(n) + total /\ U(n) \in Nat /\ total \in Nat
    <3>1. height \in 0..height
      OBVIOUS
    <3>2. C(n) /\ Computable(q, ops[n + 1], height)
      BY <2>4, <2>5
    <3>3. IsFiniteSet(GasUnits(q, ops[n + 1], height)) /\ total \in Nat
      BY <2>2, <3>1, <3>2, GasIsFinite
    <3>4. IsFiniteSet(UnitsUpto(q, v, n, height)) /\ U(n) \in Nat
      BY <1>4, <2>1, <3>2
    <3>5. U(n + 1) = U(n) + total
      BY <2>1, <2>2, <3>3, <3>4, UnitsAdd
    <3>. QED  BY <3>3, <3>4, <3>5
  <2>6. C(n) => U(n) \in Nat
    BY <1>4, <2>1
  <2>7. Right(n)
    BY <1>6
  <2>8. CASE C(n) /\ acc + U(n) < threshold
    <3>1. cost[n] = U(n) /\ U(n) \in Nat
      BY <2>6, <2>7, <2>8
    <3>2. addOperand(impl, ops[n + 1], threshold, call, U(n)) =
            IF Computable(q, ops[n + 1], height) /\ acc + (U(n) + total) < threshold
            THEN U(n) + total ELSE None
      <4>. DEFINE w == ops[n + 1]
                  b == U(n)
      <4>1. w \in DOMAIN q.defs /\ b \in Nat /\ call.accumulatedCost + b < threshold
        BY <2>2, <2>8, <3>1
      <4>. HIDE DEF w, b
      <4>2. Answers(impl, q, w, call.depth + 1, height, threshold)
        BY <4>1
      <4>3. addOperand(impl, w, threshold, call, b) =
              IF Computable(q, w, height) /\ acc + (b + TotalGas(q, w, height)) < threshold
              THEN b + TotalGas(q, w, height) ELSE None
        BY <4>1, <4>2, OneOperand
      <4>. QED  BY <4>3 DEF w, b
    <3>. HIDE DEF C, U, total, acc, ops
    <3>3. Right(n + 1)
      BY <2>3, <2>4, <2>5, <2>8, <3>1, <3>2
    <3>. QED  BY <2>1, <3>3
  <2>9. CASE ~(C(n) /\ acc + U(n) < threshold)
    <3>1. cost[n] = None
      BY <2>7, <2>9
    <3>2. cost[n + 1] = None
      BY <2>3, <3>1 DEF addOperand
    <3>3. ~(C(n + 1) /\ acc + U(n + 1) < threshold)
      <4>1. acc \in Nat
        OBVIOUS
      <4>. HIDE DEF C, U, total, acc, ops
      <4>. QED  BY <2>4, <2>5, <2>9, <4>1
    <3>4. Right(n + 1)
      <4>. HIDE DEF C, U, acc
      <4>. QED  BY <3>2, <3>3
    <3>. QED  BY <2>1, <3>4
  <2>. QED  BY <2>8, <2>9
<1>7. Right(m)
  <2>1. m \in 0..m
    BY <1>2
  <2>2. m \in T
    <3>. HIDE DEF T
    <3>. QED  BY <1>2, <1>5, <1>6, <2>1, CountUp
  <2>. QED  BY <2>2
<1>8. C(m) <=> Computable(q, v, height + 1)
  BY <1>1, ComputableSplits
<1>9. U(m) = TotalGas(q, v, height + 1)
  BY <1>1, UnitsSplit DEF TotalGas
<1>. HIDE DEF C, U, ops, gas
<1>. QED  BY <1>3, <1>7, <1>8, <1>9 DEF ops, gas

LEMMA CallFields ==
  ASSUME NEW v, NEW depth, NEW spent
  PROVE  /\ Call(v, depth, spent).v = v
         /\ Call(v, depth, spent).depth = depth
         /\ Call(v, depth, spent).accumulatedCost = spent
BY DEF Call

LEMMA DepthIs == MAX_DEPTH \in Nat /\ MAX_DEPTH > 0
BY DEF MAX_DEPTH

(* The same for all calls at a depth whose subtrees have that height.       *)
AllAnswered(impl, q, depth, height, threshold) ==
  \A v \in DOMAIN q.defs : Answers(impl, q, v, depth, height, threshold)

(* If the answers for operands are right, so is that for the value.         *)
LEMMA OneLevel ==
  ASSUME NEW q \in Questions, NEW threshold \in Int, NEW impl,
         NEW depth \in Nat, NEW height \in Nat, depth + height + 1 = MAX_DEPTH,
         AllAnswered(impl, q, depth + 1, height, threshold),
         NEW v \in DOMAIN q.defs, NEW spent \in Nat
  PROVE  costOfCall(impl, q.defs, q.currentStack, threshold, Call(v, depth, spent))
           = Expected(q, v, height + 1, spent, threshold)
<1>. DEFINE call  == Call(v, depth, spent)
            kind  == Kind(q.defs[v])
            gas   == opcodeCost(q.defs, v)
            total == TotalGas(q, v, height + 1)
            fits  == Computable(q, v, height + 1) /\ spent + total < threshold
            answer == costOfCall(impl, q.defs, q.currentStack, threshold, call)
<1>1. call.v = v /\ call.depth = depth /\ call.accumulatedCost = spent
  BY CallFields
<1>2. answer = IF v \in q.currentStack THEN 0
               ELSE IF /\ depth < MAX_DEPTH
                       /\ spent < threshold
                       /\ canRecompute(q.defs[v].name)
                       /\ gas # NoCost
                    THEN costWithOperands(impl, q.defs[v].operands, gas, threshold, call)
                    ELSE None
  <2>. HIDE DEF call
  <2>. QED  BY <1>1, Zenon DEF costOfCall, WithinDepth, Affordable
<1>. DEFINE expected == Expected(q, v, height + 1, spent, threshold)
<1>3. expected = IF v \in q.currentStack THEN 0 ELSE IF fits THEN total ELSE None
  BY DEF Expected
<1>. HIDE DEF call, answer, expected
<1>4. depth < MAX_DEPTH /\ height + 1 \in 0..MAX_DEPTH /\ height + 1 \in Nat
  BY DepthIs
<1>5. Computable(q, v, height + 1) => total \in Nat
  BY <1>4, DepthIs, GasIsFinite
<1>6. ASSUME v \in q.currentStack PROVE answer = expected
  BY <1>2, <1>6, <1>3
<1>7. ASSUME v \notin q.currentStack /\ kind \notin DOMAIN Gas PROVE answer = expected
  <2>1. canRecompute(q.defs[v].name) => gas = NoCost
    BY <1>7, OffTheStack
  <2>2. ~Computable(q, v, height + 1)
    BY <1>4, <1>7, OffTheStack
  <2>. QED  BY <1>2, <1>7, <1>3, <2>1, <2>2
<1>8. ASSUME v \notin q.currentStack /\ kind \in DOMAIN Gas PROVE answer = expected
  <2>1. HasOperation(q, v) /\ canRecompute(q.defs[v].name) /\ gas = Gas[kind] /\ Gas[kind] \in Nat
    BY <1>8, OffTheStack
  <2>2. gas # NoCost
    BY <2>1 DEF NoCost
  <2>3. call.accumulatedCost \in Nat
    BY <1>1
  <2>4. costWithOperands(impl, q.defs[v].operands, gas, threshold, call)
          = IF fits THEN total ELSE None
    <3>1. \A w \in DOMAIN q.defs : Answers(impl, q, w, call.depth + 1, height, threshold)
      BY <1>1 DEF AllAnswered
    <3>2. costWithOperands(impl, OperandsOf(q, v), Gas[Kind(q.defs[v])], threshold, call) =
            IF /\ Computable(q, v, height + 1)
               /\ call.accumulatedCost + TotalGas(q, v, height + 1) < threshold
            THEN TotalGas(q, v, height + 1) ELSE None
      BY <1>8, <2>1, <2>3, <3>1, AllOperands
    <3>. QED  BY <1>1, <2>1, <3>2 DEF OperandsOf
  <2>5. ~(spent < threshold) => ~fits
    BY <1>5
  <2>6. answer = IF fits THEN total ELSE None
    <3>. HIDE DEF fits, total, gas, answer
    <3>. QED  BY <1>2, <1>4, <1>8, <2>1, <2>2, <2>4, <2>5
  <2>. QED  BY <1>2, <1>8, <1>3, <2>6
<1>9. answer = expected
  BY <1>6, <1>7, <1>8
<1>. QED  BY <1>9 DEF answer, call, expected

(* The recursion has a solution: what the calls should answer.              *)
LEMMA RecursionSolved ==
  ASSUME NEW q \in Questions, NEW threshold \in Int
  PROVE  LET impl == recomputeCostImpl(q.defs, q.currentStack, threshold)
         IN  impl = [call \in Calls(q.defs) |->
                       costOfCall(impl, q.defs, q.currentStack, threshold, call)]
<1>. DEFINE Solves(f) == f = [call \in Calls(q.defs) |->
                                costOfCall(f, q.defs, q.currentStack, threshold, call)]
            E == [call \in Calls(q.defs) |->
                    IF call.depth < MAX_DEPTH
                    THEN Expected(q, call.v, MAX_DEPTH - call.depth, call.accumulatedCost,
                                  threshold)
                    ELSE IF call.v \in q.currentStack THEN 0 ELSE None]
<1>1. ASSUME NEW v \in DOMAIN q.defs, NEW depth \in Nat, NEW spent \in Nat
      PROVE  E[Call(v, depth, spent)] =
               IF depth < MAX_DEPTH
               THEN Expected(q, v, MAX_DEPTH - depth, spent, threshold)
               ELSE IF v \in q.currentStack THEN 0 ELSE None
  <2>1. Call(v, depth, spent) \in Calls(q.defs)
    BY DEF Call, Calls
  <2>. QED  BY <2>1, CallFields
<1>2. ASSUME NEW call \in Calls(q.defs)
      PROVE  E[call] = costOfCall(E, q.defs, q.currentStack, threshold, call)
  <2>. DEFINE v == call.v
              depth == call.depth
              spent == call.accumulatedCost
  <2>1. v \in DOMAIN q.defs /\ depth \in Nat /\ spent \in Nat /\ call = Call(v, depth, spent)
    BY DEF Calls, Call
  <2>. HIDE DEF v, depth, spent, E
  <2>2. CASE depth < MAX_DEPTH
    <3>. DEFINE height == MAX_DEPTH - (depth + 1)
    <3>1. height \in Nat /\ depth + height + 1 = MAX_DEPTH /\ height + 1 = MAX_DEPTH - depth
          /\ (depth + 1 < MAX_DEPTH \/ (height = 0 /\ ~(depth + 1 < MAX_DEPTH)))
          /\ depth + 1 \in Nat
      BY <2>1, <2>2, DepthIs
    <3>2. ASSUME NEW w \in DOMAIN q.defs PROVE Answers(E, q, w, depth + 1, height, threshold)
      <4>1. SUFFICES ASSUME NEW s \in Nat
                     PROVE  E[Call(w, depth + 1, s)] = Expected(q, w, height, s, threshold)
        BY DEF Answers
      <4>2. CASE depth + 1 < MAX_DEPTH
        BY <1>1, <3>1, <4>2
      <4>3. CASE ~(depth + 1 < MAX_DEPTH)
        <5>1. E[Call(w, depth + 1, s)] = IF w \in q.currentStack THEN 0 ELSE None
          BY <1>1, <3>1, <4>3
        <5>2. w \notin q.currentStack => ~Computable(q, w, 0)
          BY OffTheStack
        <5>3. height = 0
          BY <3>1, <4>3
        <5>. HIDE DEF height
        <5>. QED  BY <5>1, <5>2, <5>3 DEF Expected
      <4>. QED  BY <4>2, <4>3
    <3>. HIDE DEF height
    <3>3. costOfCall(E, q.defs, q.currentStack, threshold, Call(v, depth, spent))
            = Expected(q, v, height + 1, spent, threshold)
      <4>1. /\ v \in DOMAIN q.defs /\ spent \in Nat
            /\ depth \in Nat /\ height \in Nat /\ depth + height + 1 = MAX_DEPTH
        BY <2>1, <3>1
      <4>2. AllAnswered(E, q, depth + 1, height, threshold)
        BY <3>2 DEF AllAnswered
      <4>. QED  BY <4>1, <4>2, OneLevel
    <3>. QED  BY <1>1, <2>1, <2>2, <3>1, <3>3
  <2>3. CASE ~(depth < MAX_DEPTH)
    <3>1. E[call] = IF v \in q.currentStack THEN 0 ELSE None
      BY <1>1, <2>1, <2>3
    <3>. QED  BY <2>3, <3>1 DEF costOfCall, WithinDepth, v, depth
  <2>. QED  BY <2>2, <2>3
<1>3. Solves(E)
  <2>1. E = [call \in Calls(q.defs) |-> E[call]]
    OBVIOUS
  <2>. HIDE DEF E
  <2>. QED  BY <1>2, <2>1
<1>4. Solves(CHOOSE f : Solves(f))
  <2>. HIDE DEF E
  <2>1. \E f : Solves(f)
    BY <1>3
  <2>. HIDE DEF Solves
  <2>. QED  BY <2>1
<1>. QED  BY <1>4, Zenon DEF recomputeCostImpl

(* From MAX_DEPTH up to the first call, the answers are right.              *)
LEMMA CallsAnswered ==
  ASSUME NEW q \in Questions, NEW threshold \in Int, NEW v \in DOMAIN q.defs
  PROVE  recomputeCostImpl(q.defs, q.currentStack, threshold)[Call(v, 0, 0)]
           = Expected(q, v, MAX_DEPTH, 0, threshold)
<1>. DEFINE impl == recomputeCostImpl(q.defs, q.currentStack, threshold)
            T == {i \in 0..MAX_DEPTH :
                    \A w \in DOMAIN q.defs : Answers(impl, q, w, MAX_DEPTH - i, i, threshold)}
<1>1. ASSUME NEW w \in DOMAIN q.defs, NEW depth \in Nat, NEW spent \in Nat
      PROVE  impl[Call(w, depth, spent)] =
               costOfCall(impl, q.defs, q.currentStack, threshold, Call(w, depth, spent))
  <2>1. impl = [call \in Calls(q.defs) |->
                  costOfCall(impl, q.defs, q.currentStack, threshold, call)]
    BY RecursionSolved
  <2>2. Call(w, depth, spent) \in Calls(q.defs)
    BY DEF Call, Calls
  <2>. HIDE DEF impl
  <2>. QED  BY <2>1, <2>2
<1>. HIDE DEF impl
<1>2. 0 \in T
  <2>1. ASSUME NEW w \in DOMAIN q.defs PROVE Answers(impl, q, w, MAX_DEPTH, 0, threshold)
    <3>1. SUFFICES ASSUME NEW spent \in Nat
                   PROVE  impl[Call(w, MAX_DEPTH, spent)] = Expected(q, w, 0, spent, threshold)
      BY DEF Answers
    <3>2. impl[Call(w, MAX_DEPTH, spent)] = IF w \in q.currentStack THEN 0 ELSE None
      <4>1. Call(w, MAX_DEPTH, spent).v = w /\ Call(w, MAX_DEPTH, spent).depth = MAX_DEPTH
        BY CallFields
      <4>2. ~WithinDepth(MAX_DEPTH)
        BY DepthIs DEF WithinDepth
      <4>3. impl[Call(w, MAX_DEPTH, spent)] =
              costOfCall(impl, q.defs, q.currentStack, threshold, Call(w, MAX_DEPTH, spent))
        BY <1>1, DepthIs
      <4>. QED  BY <4>1, <4>2, <4>3 DEF costOfCall
    <3>3. w \notin q.currentStack => ~Computable(q, w, 0)
      BY OffTheStack
    <3>. QED  BY <3>2, <3>3 DEF Expected
  <2>2. 0 \in 0..MAX_DEPTH /\ MAX_DEPTH - 0 = MAX_DEPTH
    BY DepthIs
  <2>. QED  BY <2>1, <2>2
<1>3. ASSUME NEW i \in 0..(MAX_DEPTH - 1), i \in T PROVE i + 1 \in T
  <2>1. PICK height \in Nat : height = i
    OBVIOUS
  <2>2. PICK depth \in Nat : depth = MAX_DEPTH - (i + 1)
    BY DepthIs
  <2>3. depth + height + 1 = MAX_DEPTH
    BY <2>1, <2>2, DepthIs
  <2>4. AllAnswered(impl, q, depth + 1, height, threshold)
    <3>1. depth + 1 = MAX_DEPTH - i
      BY <2>2, DepthIs
    <3>. QED  BY <1>3, <2>1, <3>1 DEF AllAnswered
  <2>5. ASSUME NEW w \in DOMAIN q.defs PROVE Answers(impl, q, w, depth, height + 1, threshold)
    <3>1. ASSUME NEW spent \in Nat
          PROVE  impl[Call(w, depth, spent)] = Expected(q, w, height + 1, spent, threshold)
      <4>1. impl[Call(w, depth, spent)] =
              costOfCall(impl, q.defs, q.currentStack, threshold, Call(w, depth, spent))
        BY <1>1
      <4>2. costOfCall(impl, q.defs, q.currentStack, threshold, Call(w, depth, spent))
              = Expected(q, w, height + 1, spent, threshold)
        BY <2>3, <2>4, OneLevel
      <4>. QED  BY <4>1, <4>2
    <3>. QED  BY <3>1 DEF Answers
  <2>6. i + 1 \in 0..MAX_DEPTH
    BY DepthIs
  <2>. QED  BY <2>1, <2>2, <2>5, <2>6
<1>4. MAX_DEPTH \in T
  <2>1. MAX_DEPTH \in 0..MAX_DEPTH
    BY DepthIs
  <2>. HIDE DEF T
  <2>. QED  BY <1>2, <1>3, <2>1, DepthIs, CountUp
<1>5. Answers(impl, q, v, 0, MAX_DEPTH, threshold)
  <2>1. MAX_DEPTH - MAX_DEPTH = 0
    BY DepthIs
  <2>. QED  BY <1>4, <2>1
<1>. QED  BY <1>5 DEF Answers, impl

(* What keeping the value in memory costs is more than nothing.             *)
LEMMA SpillGasIs ==
  ASSUME NEW q \in Questions
  PROVE  /\ spillMemoryCost(hasFreeSlots(q.memory), expansionCost(q.memory)) = SpillGas(q)
         /\ SpillGas(q) \in Nat
         /\ SpillGas(q) > 0
<1>1. expansionCost(q.memory) \in Nat
  <2>1. q.memory.nextOffset \in Nat
    BY MemoriesAssumption DEF Questions
  <2>2. Words(q.memory) \in Nat
    BY <2>1 DEF Words, WordSize
  <2>. QED  BY <2>2 DEF expansionCost
<1>2. spillMemoryCost(hasFreeSlots(q.memory), expansionCost(q.memory)) = SpillGas(q)
  BY GasAssumption DEF spillMemoryCost, hasFreeSlots, SpillGas
<1>. QED  BY <1>1, <1>2 DEF SpillGas, WordGas

(* recomputeCost() answers with the gas of all operations that have to run  *)
(* again exactly when each may, none is MAX_DEPTH levels down and together  *)
(* they cost less than a word of memory, whatever the function, the stack   *)
(* and the memory: handing the budget down operand by operand never rejects *)
(* a computation that is cheap enough, nor lets a dearer one through.       *)
THEOREM CostIsExact == Spec => []CostExact
<1>1. ASSUME IsQuestion PROVE CostExact
  <2>. DEFINE q == question
              v == question.v
              total == TotalGas(q, v, MAX_DEPTH)
              feasible == Computable(q, v, MAX_DEPTH) /\ total < SpillGas(q)
  <2>1. q \in Questions
    BY <1>1 DEF IsQuestion
  <2>2. v \in DOMAIN q.defs /\ NoValue \notin DOMAIN q.defs
    <3>1. q.defs \in Functions /\ v \in Asked
      BY <2>1 DEF Questions
    <3>. QED  BY <3>1, FunctionsAssumption
  <2>3. SpillGas(q) \in Nat /\ SpillGas(q) > 0
    BY <2>1, SpillGasIs
  <2>4. Answer = Expected(q, v, MAX_DEPTH, 0, SpillGas(q))
    <3>1. Answer = recomputeCostImpl(q.defs, q.currentStack, SpillGas(q))[Call(v, 0, 0)]
      BY <2>1, SpillGasIs DEF Answer, recomputeCost
    <3>2. SpillGas(q) \in Int
      BY <2>3
    <3>. HIDE DEF q, v
    <3>. QED  BY <2>1, <2>2, <3>1, <3>2, CallsAnswered
  <2>. HIDE DEF q, v
  <2>5. Computable(q, v, MAX_DEPTH) => total \in Nat
    <3>1. MAX_DEPTH \in 0..MAX_DEPTH
      BY DepthIs
    <3>. QED  BY <2>1, <2>2, <3>1, DepthIs, GasIsFinite
  <2>6. CASE v \in q.currentStack
    <3>1. Computable(q, v, MAX_DEPTH) /\ total = 0
      BY <2>2, <2>6, DepthIs, OnTheStack
    <3>. QED  BY <2>3, <2>4, <2>6, <3>1 DEF Expected, CostExact, q, v
  <2>7. CASE v \notin q.currentStack
    <3>1. Answer = IF feasible THEN total ELSE None
      <4>1. Answer = IF Computable(q, v, MAX_DEPTH) /\ 0 + total < SpillGas(q)
                     THEN total ELSE None
        BY <2>4, <2>7 DEF Expected
      <4>. HIDE DEF total
      <4>. QED  BY <2>5, <4>1
    <3>. QED  BY <3>1 DEF CostExact, q, v
  <2>. QED  BY <2>6, <2>7
<1>2. IsQuestion => CostExact
  BY <1>1
<1>. QED  BY <1>2, OnlyQuestions, PTL

=============================================================================
