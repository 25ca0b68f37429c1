------------------------ MODULE StackAllocatorProofs ------------------------
(***************************************************************************)
(* Proofs about StackAllocator, for every set of values, every reach of the *)
(* stack instructions and every set of allocation problems.                 *)
(***************************************************************************)
EXTENDS StackAllocator, TLAPS, FiniteSetTheorems, FunctionTheorems,
        SequenceTheorems, WellFoundedInduction

-----------------------------------------------------------------------------
(* Facts about the operators the specification is built from. *)

(* Locations of different kinds are different, and carry what they say. *)
LEMMA LocationKinds ==
  /\ ~Assigned(Unassigned) /\ ~IsStack(Unassigned) /\ ~IsSpilled(Unassigned)
  /\ Assigned(RecomputeLoc) /\ ~IsStack(RecomputeLoc) /\ ~IsSpilled(RecomputeLoc)
  /\ \A c : /\ Assigned(StackLoc(c)) /\ IsStack(StackLoc(c))
            /\ ~IsSpilled(StackLoc(c)) /\ StackLoc(c).color = c
  /\ \A o : /\ Assigned(SpilledLoc(o)) /\ IsSpilled(SpilledLoc(o))
            /\ ~IsStack(SpilledLoc(o)) /\ SpilledLoc(o).memOffset = o
  BY DEF Assigned, IsStack, IsSpilled, Unassigned, RecomputeLoc, StackLoc,
         SpilledLoc

LEMMA LocationCases ==
  ASSUME NEW loc \in Locations
  PROVE  /\ IsStack(loc) => loc = StackLoc(loc.color) /\ loc.color \in Colors
         /\ IsSpilled(loc) => /\ loc = SpilledLoc(loc.memOffset)
                              /\ loc.memOffset \in WordOffsets
         /\ ~Assigned(loc) => loc = Unassigned
         /\ IsStack(loc) \/ IsSpilled(loc) => Assigned(loc)
<1>1. CASE loc = Unassigned
  BY <1>1, LocationKinds
<1>2. CASE loc = RecomputeLoc
  BY <1>2, LocationKinds
<1>3. CASE \E c \in Colors : loc = StackLoc(c)
  BY <1>3, LocationKinds
<1>4. CASE \E o \in WordOffsets : loc = SpilledLoc(o)
  BY <1>4, LocationKinds
<1>. QED  BY <1>1, <1>2, <1>3, <1>4 DEF Locations, StackLocs, SpilledLocs

(* In an interference graph removeNode takes the node out of the domain and *)
(* out of every neighbourhood, and does nothing else.                       *)
LEMMA RemoveNode ==
  ASSUME NEW g, IsInterferenceGraph(g), NEW v \in DOMAIN g
  PROVE  /\ removeNode(g, v) = [w \in DOMAIN g \ {v} |-> g[w] \ {v}]
         /\ IsInterferenceGraph(removeNode(g, v))
<1>1. g \in [DOMAIN g -> SUBSET DOMAIN g] /\ v \notin g[v]
  BY DEF IsInterferenceGraph, IsClosed, IsIrreflexive
<1>2. (DOMAIN g \cup g[v]) \ {v} = DOMAIN g \ {v}
  BY <1>1
<1>3. \A w \in DOMAIN g \ {v} :
        (IF w \in g[v] THEN Entry(g, w) \ {v} ELSE g[w]) = g[w] \ {v}
  BY <1>1 DEF Entry, IsInterferenceGraph, IsSymmetric
<1>4. removeNode(g, v) = [w \in DOMAIN g \ {v} |-> g[w] \ {v}]
  BY <1>2, <1>3 DEF removeNode
<1>5. IsInterferenceGraph([w \in DOMAIN g \ {v} |-> g[w] \ {v}])
  BY <1>1 DEF IsInterferenceGraph, IsClosed, IsSymmetric, IsIrreflexive
<1>. QED  BY <1>4, <1>5

(* A set written as the image of a finite set is finite and no larger. *)
LEMMA FiniteImage ==
  ASSUME NEW S, IsFiniteSet(S), NEW f, DOMAIN f = S
  PROVE  /\ IsFiniteSet({f[x] : x \in S})
         /\ Cardinality({f[x] : x \in S}) <= Cardinality(S)
<1>. DEFINE T == {f[x] : x \in S}
            g == [x \in S |-> f[x]]
<1>1. g \in Surjection(S, T)
  BY DEF Surjection
<1>. QED  BY <1>1, FS_Surjection

(* A finite set has subsets of every size up to its own. *)
LEMMA SubsetOfSize ==
  ASSUME NEW T, IsFiniteSet(T), NEW n \in Nat, n <= Cardinality(T)
  PROVE  \E U \in SUBSET T : IsFiniteSet(U) /\ Cardinality(U) = n
<1>1. Cardinality(T) \in Nat /\ ExistsBijection(1..Cardinality(T), T)
  BY FS_CardinalityType
<1>2. PICK f \in Bijection(1..Cardinality(T), T) : TRUE
  BY <1>1 DEF ExistsBijection
<1>3. /\ f \in [1..Cardinality(T) -> T]
      /\ \A i, j \in 1..Cardinality(T) : f[i] = f[j] => i = j
  BY <1>2, Fun_BijectionProperties
<1>. DEFINE U == {f[i] : i \in 1..n}
            g == [i \in 1..n |-> f[i]]
<1>4. 1..n \subseteq 1..Cardinality(T)
  BY <1>1
<1>5. U \in SUBSET T
  BY <1>3, <1>4
<1>6. g \in Bijection(1..n, U)
  <2>1. g \in [1..n -> U] /\ \A t \in U : \E i \in 1..n : g[i] = t
    OBVIOUS
  <2>2. \A i, j \in 1..n : g[i] = g[j] => i = j
    BY <1>3, <1>4
  <2>. QED  BY <2>1, <2>2, Fun_IsBij
<1>7. IsFiniteSet(1..n) /\ Cardinality(1..n) = n
  BY FS_Interval
<1>8. ExistsBijection(1..n, U)
  BY <1>6 DEF ExistsBijection
<1>9. IsFiniteSet(U) /\ Cardinality(U) = n
  BY <1>7, <1>8, FS_Bijection
<1>. QED  BY <1>5, <1>9

(* Where every value of a part of a chordal graph has n neighbours in the   *)
(* part, n + 1 values of it interfere pairwise: a simplicial value and n of *)
(* its neighbours.                                                          *)
LEMMA CliqueInCore ==
  ASSUME NEW g, IsInterferenceGraph(g), Chordal(g), NEW n \in Nat,
         NEW S \in SUBSET DOMAIN g, S # {}, IsFiniteSet(S),
         \A v \in S : Cardinality(g[v] \cap S) >= n
  PROVE  \E clique \in SUBSET DOMAIN g :
           /\ Cardinality(clique) = n + 1
           /\ \A v, w \in clique : v # w => w \in g[v]
<1>1. PICK v \in S : Simplicial(g, S, v)
  BY DEF Chordal
<1>2. g[v] \cap S \in SUBSET S /\ v \notin g[v]
  BY DEF IsInterferenceGraph, IsIrreflexive
<1>3. IsFiniteSet(g[v] \cap S) /\ Cardinality(g[v] \cap S) \in Nat
  BY <1>2, FS_Subset, FS_CardinalityType
<1>4. PICK U \in SUBSET (g[v] \cap S) : IsFiniteSet(U) /\ Cardinality(U) = n
  <2>. DEFINE T == g[v] \cap S
  <2>1. IsFiniteSet(T) /\ n <= Cardinality(T)
    BY <1>3
  <2>. HIDE DEF T
  <2>2. \E U \in SUBSET T : IsFiniteSet(U) /\ Cardinality(U) = n
    BY <2>1, SubsetOfSize
  <2>. QED  BY <2>2 DEF T
<1>5. Cardinality(U \cup {v}) = n + 1
  BY <1>2, <1>4, FS_AddElement
<1>6. \A u, w \in U \cup {v} : u # w => w \in g[u]
  <2>1. \A u, w \in U : u # w => w \in g[u]
    BY <1>1 DEF Simplicial
  <2>2. \A u \in U : u \in g[v] /\ u \in DOMAIN g
    OBVIOUS
  <2>3. \A u \in U : v \in g[u]
    BY <2>2 DEF IsInterferenceGraph, IsSymmetric
  <2>. QED  BY <2>1, <2>2, <2>3
<1>7. U \cup {v} \in SUBSET DOMAIN g
  OBVIOUS
<1>. QED  BY <1>5, <1>6, <1>7

(* A nonempty set of natural numbers has a least element. *)
LEMMA LeastNatural ==
  ASSUME NEW S, S \subseteq Nat, S # {}
  PROVE  \E x \in S : \A y \in S : x <= y
<1>1. \E x \in S : \A y \in S : ~(<<y, x>> \in OpToRel(<, Nat))
  BY WFMin, NatLessThanWellFounded, Zenon
<1>2. \A x, y \in Nat : y < x => <<y, x>> \in OpToRel(<, Nat)
  BY DEF OpToRel
<1>3. \E x \in S : \A y \in S : ~(y < x)
  BY <1>1, <1>2, Zenon
<1>. QED  BY <1>3

(* LowestFree terminates: of the n + 1 colours from 0 to n one at least is  *)
(* missing in a set of n colours.                                           *)
LEMMA LowestFreeIsFree ==
  ASSUME NEW used, IsFiniteSet(used)
  PROVE  /\ LowestFree(used) \in 0..Cardinality(used)
         /\ LowestFree(used) \notin used
<1>. DEFINE n == Cardinality(used)
            free == {c \in 0..n : c \notin used}
<1>1. n \in Nat
  BY FS_CardinalityType
<1>2. IsFiniteSet(0..n) /\ Cardinality(0..n) = n + 1
  BY <1>1, FS_Interval
<1>3. free # {}
  <2>1. SUFFICES ASSUME 0..n \subseteq used PROVE FALSE
    OBVIOUS
  <2>2. Cardinality(0..n) <= n
    BY <2>1, FS_Subset
  <2>. QED  BY <1>1, <1>2, <2>2
<1>4. \E c \in free : \A d \in free : c <= d
  <2>1. free \subseteq Nat
    BY <1>1
  <2>. HIDE DEF free
  <2>. QED  BY <1>3, <2>1, LeastNatural
<1>5. PICK c \in free : \A d \in free : c <= d
  BY <1>4
<1>6. c \notin used /\ \A d \in 0..(c - 1) : d \in used
  BY <1>1, <1>5
<1>. QED  BY <1>5, <1>6 DEF LowestFree

(* A sequence without its last element. *)
LEMMA DropLast ==
  ASSUME NEW S, NEW s \in Seq(S), Len(s) > 0
  PROVE  /\ SubSeq(s, 1, Len(s) - 1) \in Seq(S)
         /\ Len(SubSeq(s, 1, Len(s) - 1)) = Len(s) - 1
         /\ \A i \in 1..(Len(s) - 1) : SubSeq(s, 1, Len(s) - 1)[i] = s[i]
<1>. DEFINE m == Len(s) - 1
            t == SubSeq(s, 1, m)
<1>1. m \in Int /\ m >= 0 /\ \A i \in 1..m : s[i] \in S
  OBVIOUS
<1>2. /\ t \in Seq(S)
      /\ Len(t) = IF 1 <= m THEN m - 1 + 1 ELSE 0
      /\ \A i \in 1..(m - 1 + 1) : t[i] = s[1 + i - 1]
  <2>. HIDE DEF m
  <2>. QED  BY <1>1, SubSeqProperties
<1>3. Len(t) = m /\ \A i \in 1..m : t[i] = s[i]
  <2>. HIDE DEF m, t
  <2>. QED  BY <1>1, <1>2
<1>. QED  BY <1>2, <1>3, Zenon

-----------------------------------------------------------------------------
(* The inductive invariant. *)

(* What is left of the graph is the subgraph of the input on the values     *)
(* that are neither on the stack nor placed; while anything is left, every  *)
(* other value is on the stack and no word has been freed.                  *)
GraphInv ==
  /\ \A v \in DOMAIN graph : graph[v] = input.interference[v] \cap DOMAIN graph
  /\ DOMAIN graph \cap OnStack = {}
  /\ \A v \in DOMAIN graph : ~Assigned(assignment[v])
  /\ Simplifying => /\ DOMAIN input.interference \subseteq DOMAIN graph \cup OnStack
                    /\ memAllocator.freeList = <<>>

(* A value is pushed once; its snapshot lacks exactly the neighbours below  *)
(* it on the stack, and is small unless the value was spilled.              *)
StackInv ==
  /\ \A i, j \in 1..Len(simplificationStack) :
       simplificationStack[i] = simplificationStack[j] => i = j
  /\ \A i \in 1..Len(simplificationStack) :
       neighborSnapshot[simplificationStack[i]] =
         input.interference[simplificationStack[i]]
           \ {simplificationStack[j] : j \in 1..i}

DegreeInv ==
  \A v \in OnStack :
    ~Assigned(assignment[v]) => Cardinality(neighborSnapshot[v]) < StackReach

(* A coloured value has left the stack, and no value is lost on the way. *)
PlacedInv ==
  /\ \A v \in Values : IsStack(assignment[v]) => v \notin OnStack
  /\ Placed \subseteq DOMAIN input.interference
  /\ DOMAIN input.interference \subseteq DOMAIN graph \cup OnStack \cup Placed

(* Every word given out lies below the high-water mark. *)
OffsetInv ==
  \A v \in Spilled : assignment[v].memOffset < memAllocator.nextOffset

IInv ==
  /\ TypeOK
  /\ GraphInv
  /\ StackInv
  /\ DegreeInv
  /\ PlacedInv
  /\ OffsetInv
  /\ WordPerSpill
  /\ SpilledSlotsDistinct
  /\ ColorWithinReach
  /\ ProperColoring
  /\ SpillOnlyInCore
  /\ SpillOnlyUnderPressure

-----------------------------------------------------------------------------
LEMMA InputFacts ==
  ASSUME TypeOK
  PROVE  /\ IsProblem(input)
         /\ DOMAIN input.interference \subseteq Values
         /\ input.interference \in
              [DOMAIN input.interference -> SUBSET DOMAIN input.interference]
         /\ \A v, w \in DOMAIN input.interference :
              w \in input.interference[v] <=> v \in input.interference[w]
         /\ \A v \in DOMAIN input.interference : v \notin input.interference[v]
         /\ \A S \in SUBSET DOMAIN input.interference :
              IsFiniteSet(S) /\ Cardinality(S) \in Nat
<1>1. IsProblem(input)
  BY InputsAssumption DEF TypeOK
<1>2. DOMAIN input.interference \subseteq Values
  BY <1>1 DEF IsProblem
<1>3. \A S \in SUBSET DOMAIN input.interference :
        IsFiniteSet(S) /\ Cardinality(S) \in Nat
  BY <1>2, ValuesAssumption, FS_Subset, FS_CardinalityType
<1>. QED
  BY <1>1, <1>2, <1>3 DEF IsProblem, IsInterferenceGraph, IsClosed,
                         IsSymmetric, IsIrreflexive

LEMMA InitInv == Init => IInv
<1>. SUFFICES ASSUME Init PROVE IInv
  OBVIOUS
<1>. USE DEF Init
<1>1. IsProblem(input)
  BY InputsAssumption
<1>2. /\ \A v \in Values : assignment[v] = Unassigned
      /\ OnStack = {} /\ Placed = {} /\ Spilled = {}
      /\ simplificationStack = <<>> /\ Len(simplificationStack) = 0
  BY LocationKinds DEF OnStack, Placed, Spilled
<1>3. memAllocator.nextOffset = 0 /\ memAllocator.freeList = <<>>
  BY DEF NewMemory
<1>4. Cardinality(Values) \in Nat /\ Cardinality(Spilled) = 0
  BY <1>2, ValuesAssumption, FS_CardinalityType, FS_EmptySet
<1>5. TypeOK
  <2>1. 0 \in WordOffsets
    BY <1>4 DEF WordOffsets, WordSize
  <2>2. assignment \in [Values -> Locations]
    BY DEF Locations
  <2>. QED
    BY <1>1, <1>2, <1>3, <2>1, <2>2 DEF TypeOK, IsProblem
<1>6. GraphInv /\ StackInv /\ DegreeInv /\ PlacedInv
  <2>1. DOMAIN graph \subseteq Values /\ graph \in [DOMAIN graph -> SUBSET DOMAIN graph]
    BY <1>1 DEF IsProblem, IsInterferenceGraph, IsClosed
  <2>. QED
    BY <1>2, <1>3, <2>1, LocationKinds
    DEF GraphInv, StackInv, DegreeInv, PlacedInv, getValues
<1>7. OffsetInv /\ WordPerSpill /\ SpilledSlotsDistinct
  BY <1>2, <1>3, <1>4, LocationKinds
  DEF OffsetInv, WordPerSpill, SpilledSlotsDistinct, WordSize
<1>8. /\ ColorWithinReach /\ ProperColoring
      /\ SpillOnlyInCore /\ SpillOnlyUnderPressure
  BY <1>1, <1>2, LocationKinds
  DEF ColorWithinReach, ProperColoring, SpillOnlyInCore, SpillOnlyUnderPressure,
      IsProblem, IsInterferenceGraph, IsClosed
<1>. QED  BY <1>5, <1>6, <1>7, <1>8 DEF IInv

-----------------------------------------------------------------------------
(* What taking a value off the graph and pushing it does, whether or not it *)
(* is spilled at the same time.                                             *)
LEMMA RemoveStep ==
  ASSUME IInv, NEW v \in DOMAIN graph, Remove(v)
  PROVE  /\ v \in DOMAIN input.interference /\ v \notin OnStack
         /\ input' = input
         /\ DOMAIN graph' = DOMAIN graph \ {v}
         /\ IsInterferenceGraph(graph')
         /\ \A w \in DOMAIN graph' :
              graph'[w] = input.interference[w] \cap DOMAIN graph'
         /\ OnStack' = OnStack \cup {v}
         /\ simplificationStack' \in Seq(DOMAIN input.interference)
         /\ neighborSnapshot' \in [Values -> SUBSET DOMAIN input.interference]
         /\ neighborSnapshot'[v] = graph[v]
         /\ \A w \in OnStack : neighborSnapshot'[w] = neighborSnapshot[w]
         /\ StackInv'
<1>. DEFINE I == input.interference
            stack == simplificationStack
            n == Len(simplificationStack)
<1>1. /\ TypeOK /\ GraphInv /\ StackInv /\ Simplifying
      /\ v \in DOMAIN I /\ v \in Values
  BY InputFacts DEF IInv, TypeOK, Simplifying, getValues
<1>2. /\ input' = input
      /\ neighborSnapshot' = [neighborSnapshot EXCEPT ![v] = graph[v]]
      /\ stack' = Append(stack, v)
      /\ graph' = removeNode(graph, v)
  BY DEF Remove
<1>3. /\ graph' = [w \in DOMAIN graph \ {v} |-> graph[w] \ {v}]
      /\ IsInterferenceGraph(graph')
  <2>1. IsInterferenceGraph(graph)
    BY <1>1 DEF TypeOK
  <2>2. /\ removeNode(graph, v) = [w \in DOMAIN graph \ {v} |-> graph[w] \ {v}]
        /\ IsInterferenceGraph(removeNode(graph, v))
    BY <2>1, RemoveNode
  <2>. QED  BY <1>2, <2>2
<1>4. \A w \in DOMAIN graph' : graph'[w] = I[w] \cap DOMAIN graph'
  BY <1>1, <1>3 DEF GraphInv
<1>5. stack \in Seq(DOMAIN I) /\ n \in Nat
  BY <1>1 DEF TypeOK
<1>6. /\ stack' \in Seq(DOMAIN I)
      /\ Len(stack') = n + 1 /\ stack'[n + 1] = v
      /\ \A i \in 1..n : stack'[i] = stack[i]
  BY <1>1, <1>2, <1>5
<1>7. v \notin OnStack /\ OnStack' = OnStack \cup {v}
  BY <1>1, <1>5, <1>6 DEF GraphInv, OnStack
<1>8. /\ neighborSnapshot' \in [Values -> SUBSET DOMAIN I]
      /\ neighborSnapshot'[v] = graph[v]
      /\ \A w \in Values \ {v} : neighborSnapshot'[w] = neighborSnapshot[w]
  <2>1. graph[v] \subseteq DOMAIN I
    BY <1>1, InputFacts DEF GraphInv, TypeOK
  <2>. QED  BY <1>1, <1>2, <2>1 DEF TypeOK
<1>9. OnStack \subseteq Values
  BY <1>1, <1>5, InputFacts DEF OnStack
<1>10. StackInv'
  <2>1. \A i \in 1..n : stack[i] \in OnStack
    BY DEF OnStack
  <2>2. \A i, j \in 1..Len(stack') : stack'[i] = stack'[j] => i = j
    BY <1>1, <1>5, <1>6, <1>7, <2>1 DEF StackInv
  <2>3. ASSUME NEW i \in 1..n
        PROVE  neighborSnapshot'[stack'[i]]
                 = I[stack'[i]] \ {stack'[j] : j \in 1..i}
    <3>1. stack'[i] = stack[i] /\ \A j \in 1..i : stack'[j] = stack[j]
      BY <1>5, <1>6
    <3>2. neighborSnapshot'[stack[i]] = neighborSnapshot[stack[i]]
      BY <1>7, <1>8, <1>9, <2>1
    <3>. QED  BY <1>1, <3>1, <3>2 DEF StackInv
  <2>4. neighborSnapshot'[v] = I[v] \ {stack'[j] : j \in 1..(n + 1)}
    <3>1. {stack'[j] : j \in 1..(n + 1)} = OnStack \cup {v}
      BY <1>6, <1>7 DEF OnStack
    <3>2. I[v] \subseteq DOMAIN graph \cup OnStack
      BY <1>1, InputFacts DEF GraphInv
    <3>3. graph[v] = I[v] \cap DOMAIN graph
      BY <1>1 DEF GraphInv
    <3>4. v \notin I[v] /\ DOMAIN graph \cap OnStack = {}
      BY <1>1, InputFacts DEF GraphInv
    <3>. QED  BY <1>8, <3>1, <3>2, <3>3, <3>4
  <2>5. ASSUME NEW i \in 1..Len(stack')
        PROVE  neighborSnapshot'[stack'[i]]
                 = input'.interference[stack'[i]] \ {stack'[j] : j \in 1..i}
    <3>1. i \in 1..n \/ i = n + 1
      BY <1>5, <1>6
    <3>. QED  BY <1>2, <1>6, <2>3, <2>4, <3>1
  <2>. QED  BY <2>2, <2>5 DEF StackInv
<1>. QED
  BY <1>1, <1>2, <1>3, <1>4, <1>6, <1>7, <1>8, <1>9, <1>10

(* What popping a value does. *)
LEMMA PopStep ==
  ASSUME IInv, Selecting, Pop
  PROVE  /\ Top \in OnStack /\ Top \in DOMAIN input.interference
         /\ input' = input /\ graph' = graph /\ DOMAIN graph = {}
         /\ neighborSnapshot' = neighborSnapshot
         /\ OnStack' = OnStack \ {Top}
         /\ simplificationStack' \in Seq(DOMAIN input.interference)
         /\ neighborSnapshot[Top] = input.interference[Top] \ OnStack
         /\ StackInv'
<1>. DEFINE stack == simplificationStack
            n == Len(simplificationStack)
<1>1. /\ stack \in Seq(DOMAIN input.interference) /\ n \in Nat /\ n > 0
      /\ StackInv
  BY DEF IInv, TypeOK, Selecting
<1>2. /\ stack' = SubSeq(stack, 1, n - 1)
      /\ input' = input /\ graph' = graph /\ neighborSnapshot' = neighborSnapshot
  BY DEF Pop
<1>3. /\ stack' \in Seq(DOMAIN input.interference)
      /\ Len(stack') = n - 1
      /\ \A i \in 1..(n - 1) : stack'[i] = stack[i]
  BY <1>1, <1>2, DropLast
<1>4. Top = stack[n] /\ n \in 1..n
  BY <1>1 DEF Top
<1>5. \A i \in 1..(n - 1) : stack[i] # Top
  BY <1>1, <1>4 DEF StackInv
<1>6. OnStack' = OnStack \ {Top} /\ Top \in OnStack
  BY <1>1, <1>3, <1>4, <1>5 DEF OnStack
<1>7. neighborSnapshot[Top] = input.interference[Top] \ OnStack
  BY <1>1, <1>4 DEF StackInv, OnStack
<1>8. StackInv'
  <2>1. \A i, j \in 1..Len(stack') : stack'[i] = stack'[j] => i = j
    BY <1>1, <1>3 DEF StackInv
  <2>2. ASSUME NEW i \in 1..Len(stack')
        PROVE  neighborSnapshot'[stack'[i]]
                 = input'.interference[stack'[i]] \ {stack'[j] : j \in 1..i}
    <3>1. i \in 1..n /\ stack'[i] = stack[i] /\ \A j \in 1..i : stack'[j] = stack[j]
      BY <1>1, <1>3
    <3>2. {stack'[j] : j \in 1..i} = {stack[j] : j \in 1..i}
      BY <3>1
    <3>3. neighborSnapshot[stack[i]]
            = input.interference[stack[i]] \ {stack[j] : j \in 1..i}
      BY <1>1, <3>1 DEF StackInv
    <3>. QED  BY <1>2, <3>1, <3>2, <3>3
  <2>. QED  BY <2>1, <2>2 DEF StackInv
<1>9. DOMAIN graph = {}
  BY DEF Selecting, Simplifying, getValues
<1>10. Top \in DOMAIN input.interference
  BY <1>1, <1>4
<1>. QED  BY <1>2, <1>3, <1>6, <1>7, <1>8, <1>9, <1>10

-----------------------------------------------------------------------------
(* One lemma per action of the first loop. *)

LEMMA RemoveLowDegreeInv == IInv /\ RemoveLowDegree => IInv'
<1>. SUFFICES ASSUME IInv, NEW v \in LowDegree, Remove(v),
                     UNCHANGED <<assignment, memAllocator>>
              PROVE  IInv'
  BY DEF RemoveLowDegree
<1>. DEFINE I == input.interference
<1>1. /\ v \in DOMAIN graph /\ Cardinality(graph[v]) < StackReach
      /\ TypeOK /\ GraphInv /\ DegreeInv /\ PlacedInv
  BY DEF LowDegree, getValues, IInv
<1>2. /\ v \in DOMAIN I /\ v \notin OnStack /\ v \in Values
      /\ input' = input
      /\ DOMAIN graph' = DOMAIN graph \ {v}
      /\ IsInterferenceGraph(graph')
      /\ \A w \in DOMAIN graph' : graph'[w] = I[w] \cap DOMAIN graph'
      /\ OnStack' = OnStack \cup {v}
      /\ simplificationStack' \in Seq(DOMAIN I)
      /\ neighborSnapshot' \in [Values -> SUBSET DOMAIN I]
      /\ neighborSnapshot'[v] = graph[v]
      /\ \A w \in OnStack : neighborSnapshot'[w] = neighborSnapshot[w]
      /\ StackInv'
  BY <1>1, RemoveStep, InputFacts
<1>3. assignment' = assignment /\ memAllocator' = memAllocator
  OBVIOUS
<1>4. TypeOK'
  BY <1>1, <1>2, <1>3 DEF TypeOK
<1>5. GraphInv'
  BY <1>1, <1>2, <1>3 DEF GraphInv, Simplifying, getValues
<1>6. DegreeInv'
  BY <1>1, <1>2, <1>3 DEF DegreeInv
<1>7. PlacedInv'
  <2>1. ~IsStack(assignment[v])
    BY <1>1, <1>2, LocationCases DEF GraphInv, TypeOK
  <2>. QED  BY <1>1, <1>2, <1>3, <2>1 DEF PlacedInv, Placed
<1>8. (OffsetInv /\ WordPerSpill /\ SpilledSlotsDistinct)'
  BY <1>3 DEF IInv, OffsetInv, WordPerSpill, SpilledSlotsDistinct, Spilled
<1>9. /\ (ColorWithinReach /\ ProperColoring)'
      /\ (SpillOnlyInCore /\ SpillOnlyUnderPressure)'
  <2>1. ColorWithinReach' /\ ProperColoring'
    BY <1>2, <1>3 DEF IInv, ColorWithinReach, ProperColoring
  <2>2. Placed' = Placed
    BY <1>3 DEF Placed
  <2>3. SpillOnlyInCore' /\ SpillOnlyUnderPressure'
    BY <1>2, <1>3, <2>2 DEF IInv, SpillOnlyInCore, SpillOnlyUnderPressure
  <2>. QED  BY <2>1, <2>3
<1>. QED  BY <1>2, <1>4, <1>5, <1>6, <1>7, <1>8, <1>9 DEF IInv

(* What the two spilling actions share: the whole of what is left of the    *)
(* graph is a core that contains the value.                                 *)
LEMMA SpillStep ==
  ASSUME IInv, MustSpill, NEW v \in lower_spill_cost, Remove(v),
         NEW loc \in Locations, Assigned(loc), ~IsStack(loc),
         assignment' = [assignment EXCEPT ![v] = loc]
  PROVE  /\ v \in Values \ Placed /\ v \in DOMAIN graph
         /\ input' = input /\ StackInv'
         /\ assignment' \in [Values -> Locations]
         /\ \A w \in Values \ {v} : assignment'[w] = assignment[w]
         /\ assignment'[v] = loc
         /\ IsInterferenceGraph(graph') /\ DOMAIN graph' \subseteq DOMAIN graph
         /\ simplificationStack' \in Seq(DOMAIN input.interference)
         /\ neighborSnapshot' \in [Values -> SUBSET DOMAIN input.interference]
         /\ memAllocator.freeList = <<>>
         /\ memAllocator'.freeList = <<>> => GraphInv'
         /\ DegreeInv' /\ PlacedInv'
         /\ ColorWithinReach' /\ ProperColoring'
         /\ SpillOnlyInCore' /\ SpillOnlyUnderPressure'
<1>. DEFINE I == input.interference
<1>1. /\ v \in DOMAIN graph /\ ~Assigned(assignment[v])
      /\ TypeOK /\ GraphInv /\ DegreeInv /\ PlacedInv
  BY DEF lower_spill_cost, getValues, IInv
<1>2. /\ v \in DOMAIN I /\ v \notin OnStack /\ v \in Values
      /\ input' = input
      /\ DOMAIN graph' = DOMAIN graph \ {v}
      /\ IsInterferenceGraph(graph')
      /\ \A w \in DOMAIN graph' : graph'[w] = I[w] \cap DOMAIN graph'
      /\ OnStack' = OnStack \cup {v}
      /\ simplificationStack' \in Seq(DOMAIN I)
      /\ neighborSnapshot' \in [Values -> SUBSET DOMAIN I]
      /\ neighborSnapshot'[v] = graph[v]
      /\ \A w \in OnStack : neighborSnapshot'[w] = neighborSnapshot[w]
      /\ StackInv'
  BY <1>1, RemoveStep, InputFacts
<1>3. /\ assignment' \in [Values -> Locations]
      /\ \A w \in Values \ {v} : assignment'[w] = assignment[w]
      /\ assignment'[v] = loc
  BY <1>1, <1>2 DEF TypeOK
<1>4. Placed' = Placed \cup {v}
  BY <1>2, <1>3 DEF Placed
<1>5. memAllocator.freeList = <<>> /\ DOMAIN I \subseteq DOMAIN graph \cup OnStack
  BY <1>1 DEF GraphInv, MustSpill
<1>6. memAllocator'.freeList = <<>> => GraphInv'
  <2>1. DOMAIN graph \subseteq Values
    BY <1>1, InputFacts DEF TypeOK
  <2>. QED
    BY <1>1, <1>2, <1>3, <1>5, <2>1 DEF GraphInv, Simplifying, getValues
<1>7. DegreeInv'
  <2>1. OnStack \subseteq Values \ {v}
    BY <1>1, <1>2, InputFacts DEF TypeOK, OnStack
  <2>. QED  BY <1>1, <1>2, <1>3, <2>1 DEF DegreeInv
<1>8. PlacedInv'
  BY <1>1, <1>2, <1>3, <1>4 DEF PlacedInv
<1>9. ColorWithinReach' /\ ProperColoring'
  <2>1. \A w \in DOMAIN I : w \in Values /\ I[w] \subseteq Values
    BY <1>1, InputFacts
  <2>. QED
    BY <1>2, <1>3, <2>1 DEF IInv, ColorWithinReach, ProperColoring
<1>10. SpillOnlyInCore' /\ SpillOnlyUnderPressure'
  <2>1. /\ DOMAIN graph \in SUBSET DOMAIN I
        /\ \A w \in DOMAIN graph :
             Cardinality(I[w] \cap DOMAIN graph) >= StackReach
    <3>1. \A w \in DOMAIN graph : ~(Cardinality(graph[w]) < StackReach)
      BY DEF MustSpill, LowDegree, getValues
    <3>2. \A w \in DOMAIN graph : graph[w] = I[w] \cap DOMAIN graph
      BY <1>1 DEF GraphInv
    <3>3. \A w \in DOMAIN graph : Cardinality(graph[w]) \in Nat
      BY <1>1, <3>2, InputFacts DEF TypeOK
    <3>4. \A w \in DOMAIN graph : Cardinality(graph[w]) >= StackReach
      BY <3>1, <3>3, StackReachAssumption
    <3>. QED  BY <1>1, <3>2, <3>4 DEF TypeOK
  <2>2. \A w \in Placed : w \in Values \ {v}
    BY <1>1 DEF Placed
  <2>3. SpillOnlyInCore'
    BY <1>1, <1>2, <1>3, <1>4, <2>1, <2>2 DEF IInv, SpillOnlyInCore
  <2>4. SpillOnlyUnderPressure'
    <3>1. SUFFICES ASSUME Chordal(I)
                   PROVE  \E clique \in SUBSET DOMAIN I :
                            /\ Cardinality(clique) = StackReach + 1
                            /\ \A x, w \in clique : x # w => w \in I[x]
      BY <1>2 DEF SpillOnlyUnderPressure
    <3>2. IsInterferenceGraph(I) /\ StackReach \in Nat
      BY <1>1, InputFacts, StackReachAssumption DEF IsProblem
    <3>3. IsFiniteSet(DOMAIN graph) /\ DOMAIN graph # {}
      BY <1>1, <2>1, InputFacts
    <3>. QED  BY <2>1, <3>1, <3>2, <3>3, CliqueInCore
  <2>. QED  BY <2>3, <2>4
<1>. QED
  BY <1>1, <1>2, <1>3, <1>5, <1>6, <1>7, <1>8, <1>9, <1>10 DEF Placed

(* Spilled values are finitely many, and one that is not spilled yet leaves *)
(* room for one more word.                                                  *)
LEMMA RoomForOneMore ==
  ASSUME NEW v \in Values, ~IsSpilled(assignment[v])
  PROVE  /\ IsFiniteSet(Spilled) /\ Cardinality(Spilled) \in Nat
         /\ Cardinality(Spilled \cup {v}) = Cardinality(Spilled) + 1
         /\ Cardinality(Values) \in Nat
         /\ Cardinality(Spilled) + 1 <= Cardinality(Values)
<1>1. IsFiniteSet(Spilled) /\ Spilled \subseteq Values /\ v \notin Spilled
  BY ValuesAssumption, FS_Subset DEF Spilled
<1>2. Cardinality(Spilled \cup {v}) = Cardinality(Spilled) + 1
  BY <1>1, FS_AddElement
<1>3. Spilled \cup {v} \in SUBSET Values
  BY <1>1
<1>4. Cardinality(Spilled \cup {v}) <= Cardinality(Values)
  BY <1>3, ValuesAssumption, FS_Subset
<1>. QED  BY <1>1, <1>2, <1>4, ValuesAssumption, FS_CardinalityType

LEMMA SpillToMemoryInv == IInv /\ SpillToMemory => IInv'
<1>. DEFINE offset == allocatedOffset(memAllocator)
            loc == SpilledLoc(offset)
<1>. SUFFICES ASSUME IInv, MustSpill, NEW v \in lower_spill_cost, Remove(v),
                     assignment' = [assignment EXCEPT ![v] = loc],
                     memAllocator' = allocate(memAllocator)
              PROVE  IInv'
  BY DEF SpillToMemory
<1>1. TypeOK /\ GraphInv /\ WordPerSpill /\ OffsetInv /\ SpilledSlotsDistinct
  BY DEF IInv
<1>2. memAllocator.freeList = <<>>
  BY <1>1 DEF GraphInv, MustSpill
<1>3. /\ offset = memAllocator.nextOffset
      /\ memAllocator'.nextOffset = memAllocator.nextOffset + WordSize
      /\ memAllocator'.freeList = <<>>
  <2>1. /\ offset = memAllocator.nextOffset
        /\ allocate(memAllocator) =
             [memAllocator EXCEPT !.nextOffset = @ + WordSize]
    BY <1>2 DEF allocatedOffset, allocate, hasFreeSlots
  <2>. QED  BY <1>1, <1>2, <2>1 DEF TypeOK
<1>4. loc \in Locations /\ Assigned(loc) /\ ~IsStack(loc)
  BY <1>1, <1>3, LocationKinds DEF TypeOK, Locations, SpilledLocs
<1>. HIDE DEF loc
<1>5. /\ v \in Values \ Placed /\ v \in DOMAIN graph
      /\ input' = input /\ StackInv'
      /\ assignment' \in [Values -> Locations]
      /\ \A w \in Values \ {v} : assignment'[w] = assignment[w]
      /\ assignment'[v] = loc
      /\ IsInterferenceGraph(graph') /\ DOMAIN graph' \subseteq DOMAIN graph
      /\ simplificationStack' \in Seq(DOMAIN input.interference)
      /\ neighborSnapshot' \in [Values -> SUBSET DOMAIN input.interference]
      /\ GraphInv' /\ DegreeInv' /\ PlacedInv'
      /\ ColorWithinReach' /\ ProperColoring'
      /\ SpillOnlyInCore' /\ SpillOnlyUnderPressure'
  BY <1>3, <1>4, SpillStep
<1>6. IsSpilled(loc) /\ loc.memOffset = memAllocator.nextOffset
  BY <1>3, LocationKinds DEF loc
<1>7. /\ ~IsSpilled(assignment[v])
      /\ Spilled' = Spilled \cup {v} /\ v \notin Spilled
  <2>1. ~IsSpilled(assignment[v])
    BY <1>1, <1>5, LocationCases DEF Placed, TypeOK
  <2>. QED  BY <1>5, <1>6, <2>1 DEF Spilled
<1>8. /\ Cardinality(Spilled) \in Nat
      /\ Cardinality(Spilled') = Cardinality(Spilled) + 1
      /\ Cardinality(Spilled) + 1 \in 0..Cardinality(Values)
  <2>1. /\ Cardinality(Spilled) \in Nat
        /\ Cardinality(Spilled \cup {v}) = Cardinality(Spilled) + 1
        /\ Cardinality(Values) \in Nat
        /\ Cardinality(Spilled) + 1 <= Cardinality(Values)
    BY <1>5, <1>7, RoomForOneMore
  <2>. QED  BY <1>7, <2>1
<1>9. /\ memAllocator.nextOffset = WordSize * Cardinality(Spilled)
      /\ memAllocator'.nextOffset = WordSize * (Cardinality(Spilled) + 1)
  BY <1>1, <1>3, <1>8 DEF WordPerSpill, WordSize
<1>10. WordPerSpill'
  BY <1>8, <1>9 DEF WordPerSpill
<1>11. TypeOK'
  <2>1. memAllocator'.nextOffset \in WordOffsets
    BY <1>8, <1>9 DEF WordOffsets
  <2>. QED  BY <1>1, <1>3, <1>5, <2>1 DEF TypeOK
<1>12. \A w \in Spilled : /\ assignment'[w] = assignment[w]
                          /\ assignment[w].memOffset < memAllocator.nextOffset
                          /\ assignment[w].memOffset \in Nat
  <2>1. \A w \in Spilled : w \in Values \ {v} /\ IsSpilled(assignment[w])
    BY <1>7 DEF Spilled
  <2>2. \A w \in Spilled : assignment[w].memOffset \in WordOffsets
    BY <1>1, <2>1, LocationCases DEF TypeOK
  <2>3. WordOffsets \subseteq Nat
    BY <1>8 DEF WordOffsets, WordSize
  <2>. QED  BY <1>1, <1>5, <2>1, <2>2, <2>3 DEF OffsetInv
<1>13. memAllocator.nextOffset \in Nat
  BY <1>8, <1>9 DEF WordSize
<1>14. OffsetInv'
  BY <1>3, <1>5, <1>6, <1>7, <1>12, <1>13 DEF OffsetInv, WordSize
<1>15. SpilledSlotsDistinct'
  <2>1. \A w \in Spilled : assignment'[w].memOffset # assignment'[v].memOffset
    BY <1>5, <1>6, <1>12, <1>13
  <2>2. \A w \in Values : IsSpilled(assignment'[w]) => w \in Spilled \cup {v}
    BY <1>7 DEF Spilled
  <2>3. \A w, u \in Spilled : assignment[w] = assignment[u] => w = u
    BY <1>1 DEF SpilledSlotsDistinct, Spilled
  <2>. QED  BY <1>12, <2>1, <2>2, <2>3 DEF SpilledSlotsDistinct
<1>. QED
  BY <1>5, <1>10, <1>11, <1>14, <1>15 DEF IInv

LEMMA SpillToRecomputeInv == IInv /\ SpillToRecompute => IInv'
<1>. SUFFICES ASSUME IInv, MustSpill, NEW v \in lower_spill_cost, Remove(v),
                     assignment' = [assignment EXCEPT ![v] = RecomputeLoc],
                     memAllocator' = memAllocator
              PROVE  IInv'
  BY DEF SpillToRecompute
<1>1. TypeOK /\ WordPerSpill /\ OffsetInv /\ SpilledSlotsDistinct
  BY DEF IInv
<1>2. /\ RecomputeLoc \in Locations /\ Assigned(RecomputeLoc)
      /\ ~IsStack(RecomputeLoc) /\ ~IsSpilled(RecomputeLoc)
  BY LocationKinds DEF Locations
<1>3. /\ v \in Values \ Placed
      /\ input' = input /\ StackInv'
      /\ assignment' \in [Values -> Locations]
      /\ \A w \in Values \ {v} : assignment'[w] = assignment[w]
      /\ assignment'[v] = RecomputeLoc
      /\ IsInterferenceGraph(graph') /\ DOMAIN graph' \subseteq DOMAIN graph
      /\ simplificationStack' \in Seq(DOMAIN input.interference)
      /\ neighborSnapshot' \in [Values -> SUBSET DOMAIN input.interference]
      /\ GraphInv' /\ DegreeInv' /\ PlacedInv'
      /\ ColorWithinReach' /\ ProperColoring'
      /\ SpillOnlyInCore' /\ SpillOnlyUnderPressure'
  BY <1>2, SpillStep
<1>4. ~IsSpilled(assignment[v])
  BY <1>1, <1>3, LocationCases DEF Placed, TypeOK
<1>5. /\ Spilled' = Spilled
      /\ \A w \in Spilled : assignment'[w] = assignment[w]
  BY <1>2, <1>3, <1>4 DEF Spilled
<1>6. TypeOK'
  BY <1>1, <1>3 DEF TypeOK
<1>7. OffsetInv' /\ WordPerSpill'
  BY <1>1, <1>5 DEF OffsetInv, WordPerSpill
<1>8. SpilledSlotsDistinct'
  BY <1>1, <1>2, <1>3 DEF SpilledSlotsDistinct
<1>. QED  BY <1>3, <1>6, <1>7, <1>8 DEF IInv

-----------------------------------------------------------------------------
(* The second loop. *)

LEMMA SkipAssignedInv == IInv /\ SkipAssigned => IInv'
<1>. SUFFICES ASSUME IInv, Selecting, Assigned(assignment[Top]), Pop,
                     UNCHANGED <<assignment, memAllocator>>
              PROVE  IInv'
  BY DEF SkipAssigned
<1>1. /\ TypeOK /\ GraphInv /\ DegreeInv /\ PlacedInv
  BY DEF IInv
<1>2. /\ Top \in OnStack /\ Top \in DOMAIN input.interference
      /\ input' = input /\ graph' = graph /\ DOMAIN graph = {}
      /\ neighborSnapshot' = neighborSnapshot
      /\ OnStack' = OnStack \ {Top}
      /\ simplificationStack' \in Seq(DOMAIN input.interference)
      /\ StackInv'
  BY PopStep
<1>3. assignment' = assignment /\ memAllocator' = memAllocator
  OBVIOUS
<1>4. Placed' = Placed /\ Top \in Placed
  BY <1>1, <1>2, <1>3, InputFacts DEF Placed
<1>5. TypeOK'
  BY <1>1, <1>2, <1>3 DEF TypeOK
<1>6. GraphInv' /\ DegreeInv' /\ PlacedInv'
  BY <1>1, <1>2, <1>3, <1>4
  DEF GraphInv, DegreeInv, PlacedInv, Simplifying, getValues
<1>7. (OffsetInv /\ WordPerSpill /\ SpilledSlotsDistinct)'
  BY <1>3 DEF IInv, OffsetInv, WordPerSpill, SpilledSlotsDistinct, Spilled
<1>8. (ColorWithinReach /\ ProperColoring)'
  BY <1>2, <1>3 DEF IInv, ColorWithinReach, ProperColoring
<1>9. SpillOnlyInCore' /\ SpillOnlyUnderPressure'
  BY <1>2, <1>3, <1>4 DEF IInv, SpillOnlyInCore, SpillOnlyUnderPressure
<1>. QED  BY <1>2, <1>5, <1>6, <1>7, <1>8, <1>9 DEF IInv

(* The words freed while a value is coloured are words that were given out. *)
LEMMA FreedWords ==
  ASSUME TypeOK, NEW v \in Values, NEW freed \in Orderings(DeadOffsets(v))
  PROVE  freed \in Seq(WordOffsets)
<1>. DEFINE dead == {s \in input.deadAt[v] : IsSpilled(assignment[s])}
<1>1. dead \subseteq Values
  BY InputFacts DEF IsProblem
<1>2. IsFiniteSet(dead)
  BY <1>1, ValuesAssumption, FS_Subset
<1>3. \A s \in dead : assignment[s].memOffset \in WordOffsets
  BY <1>1, LocationCases DEF TypeOK
<1>4. DeadOffsets(v) \subseteq WordOffsets
  BY <1>3 DEF DeadOffsets
<1>5. IsFiniteSet(DeadOffsets(v))
  <2>. DEFINE f == [s \in dead |-> assignment[s].memOffset]
  <2>1. DeadOffsets(v) = {f[s] : s \in dead}
    BY DEF DeadOffsets
  <2>. HIDE DEF dead
  <2>2. DOMAIN f = dead
    OBVIOUS
  <2>. HIDE DEF f
  <2>. QED  BY <1>2, <2>1, <2>2, FiniteImage
<1>6. Cardinality(DeadOffsets(v)) \in Nat
  BY <1>5, FS_CardinalityType
<1>. QED  BY <1>4, <1>6 DEF Orderings

(* The neighbours of a value that was not spilled leave a colour within     *)
(* reach, and the lowest free colour is one that no neighbour has.          *)
LEMMA ColorFits ==
  ASSUME TypeOK, NEW v \in Values,
         Cardinality(neighborSnapshot[v]) < StackReach
  PROVE  /\ LowestFree(usedColors(v)) \in Colors
         /\ LowestFree(usedColors(v)) < StackReach
         /\ \A w \in neighborSnapshot[v] : IsStack(assignment[w])
              => assignment[w].color # LowestFree(usedColors(v))
<1>. DEFINE used == usedColors(v)
            colored == {m \in neighborSnapshot[v] : IsStack(assignment[m])}
            f == [n \in colored |-> assignment[n].color]
<1>1. /\ neighborSnapshot[v] \in SUBSET DOMAIN input.interference
      /\ IsFiniteSet(neighborSnapshot[v])
      /\ Cardinality(neighborSnapshot[v]) \in Nat
  BY InputFacts DEF TypeOK
<1>2. /\ IsFiniteSet(colored)
      /\ Cardinality(colored) <= Cardinality(neighborSnapshot[v])
      /\ Cardinality(colored) \in Nat
  <2>1. colored \in SUBSET neighborSnapshot[v]
    OBVIOUS
  <2>. HIDE DEF colored
  <2>. QED  BY <1>1, <2>1, FS_Subset, FS_CardinalityType
<1>3. IsFiniteSet(used) /\ Cardinality(used) <= Cardinality(colored)
  <2>1. used = {f[n] : n \in colored}
    BY DEF usedColors
  <2>2. DOMAIN f = colored
    OBVIOUS
  <2>. HIDE DEF f, used, colored
  <2>. QED  BY <1>2, <2>1, <2>2, FiniteImage
<1>4. Cardinality(used) \in Nat
  BY <1>3, FS_CardinalityType
<1>5. LowestFree(used) \in 0..Cardinality(used) /\ LowestFree(used) \notin used
  <2>. HIDE DEF used
  <2>. QED  BY <1>3, LowestFreeIsFree
<1>6. \A w \in neighborSnapshot[v] :
        IsStack(assignment[w]) => assignment[w].color \in used
  BY DEF usedColors
<1>7. LowestFree(used) < StackReach /\ LowestFree(used) \in Colors
  <2>. HIDE DEF used, colored
  <2>. QED
    BY <1>1, <1>2, <1>3, <1>4, <1>5, StackReachAssumption DEF Colors
<1>. QED  BY <1>5, <1>6, <1>7

LEMMA SelectColorInv == IInv /\ SelectColor => IInv'
<1>. DEFINE color == LowestFree(usedColors(Top))
            I == input.interference
<1>. SUFFICES ASSUME IInv, Selecting, ~Assigned(assignment[Top]), Pop,
                     NEW freed \in Orderings(DeadOffsets(Top)),
                     memAllocator' = freeAll(memAllocator, freed),
                     assignment' = [assignment EXCEPT ![Top] = StackLoc(color)]
              PROVE  IInv'
  BY DEF SelectColor
<1>1. /\ TypeOK /\ GraphInv /\ DegreeInv /\ PlacedInv
      /\ OffsetInv /\ WordPerSpill /\ SpilledSlotsDistinct
      /\ ColorWithinReach /\ ProperColoring /\ SpillOnlyInCore
  BY DEF IInv
<1>2. /\ Top \in OnStack /\ Top \in DOMAIN I
      /\ input' = input /\ graph' = graph /\ DOMAIN graph = {}
      /\ neighborSnapshot' = neighborSnapshot
      /\ OnStack' = OnStack \ {Top}
      /\ simplificationStack' \in Seq(DOMAIN I)
      /\ neighborSnapshot[Top] = I[Top] \ OnStack
      /\ StackInv'
  BY PopStep
<1>3. Top \in Values /\ DOMAIN I \subseteq Values /\ OnStack \subseteq Values
  BY <1>1, <1>2, InputFacts DEF OnStack, TypeOK
<1>4. /\ color \in Colors /\ color < StackReach
      /\ \A w \in I[Top] \ OnStack : IsStack(assignment[w])
           => assignment[w].color # color
  <2>1. Cardinality(neighborSnapshot[Top]) < StackReach
    BY <1>1, <1>2 DEF DegreeInv
  <2>. QED  BY <1>1, <1>2, <1>3, <2>1, ColorFits
<1>. HIDE DEF color
<1>5. /\ StackLoc(color) \in Locations /\ Assigned(StackLoc(color))
      /\ IsStack(StackLoc(color)) /\ ~IsSpilled(StackLoc(color))
      /\ StackLoc(color).color = color
  BY <1>4, LocationKinds DEF Locations, StackLocs
<1>6. /\ assignment' \in [Values -> Locations]
      /\ assignment'[Top] = StackLoc(color)
      /\ \A w \in Values \ {Top} : assignment'[w] = assignment[w]
  BY <1>1, <1>3, <1>5 DEF TypeOK
<1>7. ~IsSpilled(assignment[Top]) /\ ~IsStack(assignment[Top])
  BY <1>1, <1>3, LocationCases DEF TypeOK
<1>8. /\ Placed' = Placed \cup {Top} /\ Top \notin Placed
      /\ Spilled' = Spilled /\ Top \notin Spilled
  BY <1>3, <1>5, <1>6, <1>7 DEF Placed, Spilled
<1>9. /\ memAllocator'.nextOffset = memAllocator.nextOffset
      /\ memAllocator'.freeList \in Seq(WordOffsets)
  <2>1. freed \in Seq(WordOffsets)
    BY <1>1, <1>3, FreedWords
  <2>. QED  BY <1>1, <2>1 DEF TypeOK, freeAll
<1>10. TypeOK'
  BY <1>1, <1>2, <1>6, <1>9 DEF TypeOK
<1>11. GraphInv' /\ DegreeInv' /\ PlacedInv'
  BY <1>1, <1>2, <1>3, <1>5, <1>6, <1>8
  DEF GraphInv, DegreeInv, PlacedInv, Simplifying, getValues
<1>12. OffsetInv' /\ WordPerSpill' /\ SpilledSlotsDistinct'
  <2>1. OffsetInv' /\ WordPerSpill'
    BY <1>1, <1>6, <1>8, <1>9 DEF OffsetInv, WordPerSpill, Spilled
  <2>2. SpilledSlotsDistinct'
    BY <1>1, <1>5, <1>6 DEF SpilledSlotsDistinct
  <2>. QED  BY <2>1, <2>2
<1>13. ColorWithinReach'
  BY <1>1, <1>4, <1>5, <1>6 DEF ColorWithinReach
<1>14. ProperColoring'
  <2>1. ASSUME NEW w \in I[Top], IsStack(assignment'[w])
        PROVE  /\ assignment'[w].color # assignment'[Top].color
               /\ Top # w
    <3>1. w \in Values \ {Top}
      BY <1>1, <1>2, <1>3, InputFacts
    <3>2. w \notin OnStack
      BY <1>1, <1>6, <2>1, <3>1 DEF PlacedInv
    <3>. QED  BY <1>4, <1>5, <1>6, <2>1, <3>1, <3>2
  <2>2. ASSUME NEW v \in DOMAIN I, NEW w \in I[v],
               IsStack(assignment'[v]), IsStack(assignment'[w])
        PROVE  assignment'[v].color # assignment'[w].color
    <3>1. v \in Values /\ w \in DOMAIN I /\ w \in Values /\ v \in I[w]
      BY <1>1, <1>3, InputFacts
    <3>2. CASE v # Top /\ w # Top
      BY <1>1, <1>6, <2>2, <3>1, <3>2 DEF ProperColoring
    <3>3. CASE v = Top
      BY <2>1, <2>2, <3>3
    <3>4. CASE w = Top
      BY <2>1, <2>2, <3>1, <3>4
    <3>. QED  BY <3>2, <3>3, <3>4
  <2>. QED  BY <1>2, <2>2 DEF ProperColoring
<1>15. SpillOnlyInCore' /\ SpillOnlyUnderPressure'
  <2>1. \A w \in Placed : w \in Values \ {Top}
    BY <1>8 DEF Placed
  <2>2. SpillOnlyInCore'
    BY <1>1, <1>2, <1>5, <1>6, <1>8, <2>1 DEF SpillOnlyInCore
  <2>3. SpillOnlyUnderPressure'
    BY <1>1, <1>2, <1>5, <1>6, <1>8, <2>1 DEF IInv, SpillOnlyUnderPressure
  <2>. QED  BY <2>2, <2>3
<1>. QED
  BY <1>1, <1>2, <1>10, <1>11, <1>12, <1>13, <1>14, <1>15 DEF IInv

LEMMA NextInv == IInv /\ [Next]_vars => IInv'
<1>. SUFFICES ASSUME IInv, [Next]_vars PROVE IInv'
  OBVIOUS
<1>1. CASE RemoveLowDegree
  BY <1>1, RemoveLowDegreeInv
<1>2. CASE SpillToMemory
  BY <1>2, SpillToMemoryInv
<1>3. CASE SpillToRecompute
  BY <1>3, SpillToRecomputeInv
<1>4. CASE SkipAssigned
  BY <1>4, SkipAssignedInv
<1>5. CASE SelectColor
  BY <1>5, SelectColorInv
<1>6. CASE UNCHANGED vars
  <2>1. /\ TypeOK' /\ GraphInv' /\ StackInv' /\ DegreeInv' /\ PlacedInv'
    BY <1>6 DEF IInv, vars, TypeOK, GraphInv, StackInv, DegreeInv, PlacedInv,
                OnStack, Placed, Simplifying, getValues
  <2>2. /\ OffsetInv' /\ WordPerSpill' /\ SpilledSlotsDistinct'
        /\ ColorWithinReach' /\ ProperColoring'
        /\ SpillOnlyInCore' /\ SpillOnlyUnderPressure'
    BY <1>6 DEF IInv, vars, OffsetInv, WordPerSpill, SpilledSlotsDistinct,
                ColorWithinReach, ProperColoring, SpillOnlyInCore,
                SpillOnlyUnderPressure, Spilled, Placed
  <2>. QED  BY <2>1, <2>2 DEF IInv
<1>. QED
  BY <1>1, <1>2, <1>3, <1>4, <1>5, <1>6 DEF Next, Returned

(* IInv, which ties the graph, the stack, the snapshots, the degrees and    *)
(* the offsets together, is an inductive invariant of run().                *)
THEOREM Invariance == Spec => []IInv
  BY InitInv, NextInv, PTL DEF Spec

-----------------------------------------------------------------------------
(* The theorems. *)

(* Every reachable state is well typed: in particular what is left of the   *)
(* graph is always an interference graph, and colours fit a uint8_t.        *)
THEOREM TypeCorrect == Spec => []TypeOK
<1>1. IInv => TypeOK
  BY DEF IInv
<1>. QED  BY <1>1, Invariance, PTL

(* Values that interfere never share a stack colour. *)
THEOREM ColoringCorrect == Spec => []ProperColoring
<1>1. IInv => ProperColoring
  BY DEF IInv
<1>. QED  BY <1>1, Invariance, PTL

(* Every colour is within reach of DUP and SWAP. *)
THEOREM ColorsReachable == Spec => []ColorWithinReach
<1>1. IInv => ColorWithinReach
  BY DEF IInv
<1>. QED  BY <1>1, Invariance, PTL

(* No two spilled values share a memory word, however the words of dead     *)
(* values are freed.                                                        *)
THEOREM SlotsDistinct == Spec => []SpilledSlotsDistinct
<1>1. IInv => SpilledSlotsDistinct
  BY DEF IInv
<1>. QED  BY <1>1, Invariance, PTL

(* The snapshot of the value about to be popped is the set of its           *)
(* neighbours that have left the stack.                                     *)
THEOREM SnapshotsExact == Spec => []SnapshotExact
<1>1. IInv => SnapshotExact
  <2>. SUFFICES ASSUME IInv, Selecting PROVE SnapshotExact
    BY DEF SnapshotExact
  <2>1. /\ simplificationStack \in Seq(DOMAIN input.interference)
        /\ Len(simplificationStack) \in 1..Len(simplificationStack)
    BY DEF IInv, TypeOK, Selecting
  <2>. QED  BY <2>1 DEF IInv, StackInv, OnStack, Top, SnapshotExact
<1>. QED  BY <1>1, Invariance, PTL

(* run() returns a location for every value of the graph. *)
THEOREM NothingIsLost == Spec => []AllPlacedWhenDone
<1>1. IInv => AllPlacedWhenDone
  BY DEF IInv, PlacedInv, AllPlacedWhenDone, Done, Simplifying, getValues,
         OnStack
<1>. QED  BY <1>1, Invariance, PTL

(* A value is spilled or left to recompute only if it belongs to a set of   *)
(* values that all interfere with StackReach others of the set.             *)
THEOREM SpillsJustified == Spec => []SpillOnlyInCore
<1>1. IInv => SpillOnlyInCore
  BY DEF IInv
<1>. QED  BY <1>1, Invariance, PTL

(* On a chordal graph a value is spilled or left to recompute only if       *)
(* StackReach + 1 values interfere pairwise.                                *)
THEOREM SpillsUnderPressure == Spec => []SpillOnlyUnderPressure
<1>1. IInv => SpillOnlyUnderPressure
  BY DEF IInv
<1>. QED  BY <1>1, Invariance, PTL

(* Memory grows by exactly one word per spilled value. *)
THEOREM MemoryPerSpill == Spec => []WordPerSpill
<1>1. IInv => WordPerSpill
  BY DEF IInv
<1>. QED  BY <1>1, Invariance, PTL

-----------------------------------------------------------------------------
(* What a step does to the locations.  The five facts feed the action       *)
(* properties and the refinement.                                           *)

LEMMA RemoveLowDegreeLocations ==
  ASSUME RemoveLowDegree
  PROVE  UNCHANGED <<input, assignment, memAllocator>>
  BY DEF RemoveLowDegree, Remove

LEMMA SpillLocations ==
  ASSUME IInv, SpillToMemory
  PROVE  \E v \in DOMAIN input.interference, offset \in WordOffsets :
           /\ assignment[v] = Unassigned
           /\ \A w \in Values : assignment[w] # SpilledLoc(offset)
           /\ assignment' = [assignment EXCEPT ![v] = SpilledLoc(offset)]
           /\ memAllocator.freeList = <<>> /\ memAllocator'.freeList = <<>>
           /\ input' = input
<1>1. PICK v \in lower_spill_cost :
        /\ Remove(v)
        /\ assignment' =
             [assignment EXCEPT ![v] = SpilledLoc(allocatedOffset(memAllocator))]
        /\ memAllocator' = allocate(memAllocator)
  BY DEF SpillToMemory
<1>2. TypeOK /\ GraphInv /\ OffsetInv /\ Simplifying
  BY DEF IInv, SpillToMemory, MustSpill
<1>3. v \in DOMAIN input.interference /\ v \in Values /\ ~Assigned(assignment[v])
  BY <1>2, InputFacts DEF lower_spill_cost, getValues, TypeOK
<1>4. assignment[v] = Unassigned
  BY <1>2, <1>3, LocationCases DEF TypeOK
<1>5. memAllocator.freeList = <<>>
  BY <1>2 DEF GraphInv
<1>6. /\ allocatedOffset(memAllocator) = memAllocator.nextOffset
      /\ memAllocator'.freeList = <<>>
  <2>1. /\ allocatedOffset(memAllocator) = memAllocator.nextOffset
        /\ allocate(memAllocator) =
             [memAllocator EXCEPT !.nextOffset = @ + WordSize]
    BY <1>5 DEF allocatedOffset, allocate, hasFreeSlots
  <2>. QED  BY <1>1, <1>5, <2>1
<1>7. \A w \in Values : assignment[w] # SpilledLoc(memAllocator.nextOffset)
  <2>1. SUFFICES ASSUME NEW w \in Values,
                        assignment[w] = SpilledLoc(memAllocator.nextOffset)
                 PROVE  FALSE
    OBVIOUS
  <2>2. w \in Spilled /\ assignment[w].memOffset = memAllocator.nextOffset
    BY <2>1, LocationKinds DEF Spilled
  <2>3. memAllocator.nextOffset \in Nat
    BY <1>2, ValuesAssumption, FS_CardinalityType DEF TypeOK, WordOffsets, WordSize
  <2>. QED  BY <1>2, <2>2, <2>3 DEF OffsetInv
<1>. QED
  BY <1>1, <1>2, <1>3, <1>4, <1>5, <1>6, <1>7 DEF Remove, TypeOK

LEMMA RecomputeLocations ==
  ASSUME IInv, SpillToRecompute
  PROVE  \E v \in DOMAIN input.interference \cap input.recomputable :
           /\ assignment[v] = Unassigned
           /\ assignment' = [assignment EXCEPT ![v] = RecomputeLoc]
           /\ UNCHANGED <<memAllocator, input>>
<1>1. PICK v \in lower_spill_cost \cap input.recomputable :
        /\ Remove(v)
        /\ assignment' = [assignment EXCEPT ![v] = RecomputeLoc]
        /\ UNCHANGED memAllocator
  BY DEF SpillToRecompute
<1>2. TypeOK
  BY DEF IInv
<1>3. v \in DOMAIN input.interference /\ v \in Values /\ ~Assigned(assignment[v])
  BY <1>1, <1>2, InputFacts DEF lower_spill_cost, getValues, TypeOK
<1>4. assignment[v] = Unassigned
  BY <1>2, <1>3, LocationCases DEF TypeOK
<1>. QED  BY <1>1, <1>3, <1>4 DEF Remove

LEMMA SkipLocations ==
  ASSUME SkipAssigned
  PROVE  UNCHANGED <<input, assignment, memAllocator>>
  BY DEF SkipAssigned, Pop

LEMMA SelectLocations ==
  ASSUME IInv, SelectColor
  PROVE  \E v \in DOMAIN input.interference, c \in 0..(StackReach - 1) :
           /\ assignment[v] = Unassigned
           /\ \A w \in input.interference[v] : assignment[w] # StackLoc(c)
           /\ assignment' = [assignment EXCEPT ![v] = StackLoc(c)]
           /\ Len(memAllocator'.freeList) >= Len(memAllocator.freeList)
           /\ input' = input
<1>1. PICK freed \in Orderings(DeadOffsets(Top)) :
        memAllocator' = freeAll(memAllocator, freed)
  BY DEF SelectColor
<1>2. /\ Selecting /\ ~Assigned(assignment[Top]) /\ Pop
      /\ assignment' =
           [assignment EXCEPT ![Top] = StackLoc(LowestFree(usedColors(Top)))]
  BY DEF SelectColor
<1>3. /\ Top \in OnStack /\ Top \in DOMAIN input.interference
      /\ input' = input
      /\ neighborSnapshot[Top] = input.interference[Top] \ OnStack
  BY <1>2, PopStep
<1>4. TypeOK /\ DegreeInv /\ PlacedInv /\ Top \in Values
  BY <1>3, InputFacts DEF IInv
<1>5. assignment[Top] = Unassigned
  BY <1>2, <1>4, LocationCases DEF TypeOK
<1>. DEFINE c == LowestFree(usedColors(Top))
<1>6. /\ c \in Colors /\ c < StackReach
      /\ \A w \in neighborSnapshot[Top] :
           IsStack(assignment[w]) => assignment[w].color # c
  <2>1. Cardinality(neighborSnapshot[Top]) < StackReach
    BY <1>2, <1>3, <1>4 DEF DegreeInv
  <2>. QED  BY <1>4, <2>1, ColorFits
<1>. HIDE DEF c
<1>7. \A w \in input.interference[Top] : assignment[w] # StackLoc(c)
  <2>1. SUFFICES ASSUME NEW w \in input.interference[Top],
                        assignment[w] = StackLoc(c)
                 PROVE  FALSE
    OBVIOUS
  <2>2. IsStack(assignment[w]) /\ assignment[w].color = c
    BY <2>1, LocationKinds
  <2>3. w \in Values /\ w \notin OnStack
    BY <1>3, <1>4, <2>2, InputFacts DEF PlacedInv
  <2>. QED  BY <1>3, <1>6, <2>2, <2>3
<1>8. Len(memAllocator'.freeList) >= Len(memAllocator.freeList)
  <2>1. freed \in Seq(WordOffsets) /\ memAllocator.freeList \in Seq(WordOffsets)
    BY <1>1, <1>4, FreedWords DEF TypeOK
  <2>2. memAllocator'.freeList = memAllocator.freeList \o freed
    BY <1>1, <1>4 DEF freeAll, TypeOK
  <2>. QED  BY <2>1, <2>2
<1>9. c \in 0..(StackReach - 1)
  BY <1>6, StackReachAssumption DEF Colors
<1>. QED
  BY <1>2, <1>3, <1>5, <1>7, <1>8, <1>9 DEF c

(* A location, once given, is final. *)
THEOREM LocationsStay == Spec => LocationsAreFinal
<1>. DEFINE Final == \A v \in Placed : assignment'[v] = assignment[v]
<1>1. ASSUME IInv, [Next]_vars PROVE Final
  <2>. SUFFICES ASSUME NEW v \in Placed PROVE assignment'[v] = assignment[v]
    OBVIOUS
  <2>1. v \in Values /\ assignment[v] # Unassigned
    BY LocationKinds DEF Placed
  <2>2. assignment \in [Values -> Locations]
    BY <1>1 DEF IInv, TypeOK
  <2>3. CASE RemoveLowDegree
    BY <2>3, RemoveLowDegreeLocations
  <2>4. CASE SpillToMemory
    BY <1>1, <2>1, <2>2, <2>4, SpillLocations
  <2>5. CASE SpillToRecompute
    BY <1>1, <2>1, <2>2, <2>5, RecomputeLocations
  <2>6. CASE SkipAssigned
    BY <2>6, SkipLocations
  <2>7. CASE SelectColor
    BY <1>1, <2>1, <2>2, <2>7, SelectLocations
  <2>8. CASE UNCHANGED vars
    BY <2>8 DEF vars
  <2>. QED
    BY <1>1, <2>3, <2>4, <2>5, <2>6, <2>7, <2>8 DEF Next, Returned
<1>2. IInv /\ [Next]_vars => [Final]_vars
  BY <1>1
<1>. QED
  BY <1>2, Invariance, PTL DEF Spec, LocationsAreFinal

(* Once a word has been freed no value is given memory any more. *)
THEOREM FreedWordsStayFree == Spec => NoAllocationAfterFree
<1>. DEFINE Kept ==
       /\ Len(memAllocator'.freeList) >= Len(memAllocator.freeList)
       /\ hasFreeSlots(memAllocator) => Spilled' = Spilled
<1>1. ASSUME IInv, [Next]_vars PROVE Kept
  <2>1. Len(memAllocator.freeList) \in Nat
    BY <1>1 DEF IInv, TypeOK
  <2>2. CASE UNCHANGED <<assignment, memAllocator>>
    BY <2>1, <2>2 DEF Spilled
  <2>3. CASE SpillToMemory
    BY <1>1, <2>1, <2>3, SpillLocations DEF hasFreeSlots
  <2>4. CASE SpillToRecompute
    <3>1. PICK v \in DOMAIN input.interference \cap input.recomputable :
            /\ assignment[v] = Unassigned
            /\ assignment' = [assignment EXCEPT ![v] = RecomputeLoc]
            /\ UNCHANGED <<memAllocator, input>>
      BY <1>1, <2>4, RecomputeLocations
    <3>2. Spilled' = Spilled
      BY <1>1, <3>1, LocationKinds DEF Spilled, IInv, TypeOK
    <3>. QED  BY <2>1, <3>1, <3>2
  <2>5. CASE SelectColor
    <3>1. PICK v \in DOMAIN input.interference, c \in 0..(StackReach - 1) :
            /\ assignment[v] = Unassigned
            /\ assignment' = [assignment EXCEPT ![v] = StackLoc(c)]
            /\ Len(memAllocator'.freeList) >= Len(memAllocator.freeList)
      BY <1>1, <2>5, SelectLocations
    <3>2. Spilled' = Spilled
      BY <1>1, <3>1, LocationKinds DEF Spilled, IInv, TypeOK
    <3>. QED  BY <3>1, <3>2
  <2>6. CASE RemoveLowDegree \/ SkipAssigned \/ Returned \/ UNCHANGED vars
    BY <2>2, <2>6, RemoveLowDegreeLocations, SkipLocations DEF Returned, vars
  <2>. QED
    BY <1>1, <2>3, <2>4, <2>5, <2>6 DEF Next
<1>2. IInv /\ [Next]_vars => [Kept]_vars
  BY <1>1
<1>. QED
  BY <1>2, Invariance, PTL DEF Spec, NoAllocationAfterFree

(* run() implements the safety part of the abstract allocation: each step   *)
(* gives one value a location the abstract specification allows, or none.   *)
THEOREM Refinement == Spec => Alloc!SafeSpec
<1>1. Init => Alloc!Init
  BY InputsAssumption
  DEF Init, Alloc!Init, IsProblem, IsInterferenceGraph, IsClosed,
      Alloc!Unassigned, Unassigned
<1>2. ASSUME IInv, [Next]_vars PROVE [Alloc!Next]_(Alloc!vars)
  <2>1. CASE UNCHANGED <<input, assignment, memAllocator>>
    BY <2>1 DEF Alloc!vars
  <2>2. CASE SpillToMemory
    BY <1>2, <2>2, SpillLocations
    DEF Alloc!Next, Alloc!Place, Alloc!PlaceInMemory, Alloc!SpilledLoc, SpilledLoc,
        Alloc!Unassigned, Unassigned
  <2>3. CASE SpillToRecompute
    BY <1>2, <2>3, RecomputeLocations
    DEF Alloc!Next, Alloc!Place, Alloc!LeaveToRecompute, Alloc!RecomputeLoc,
        RecomputeLoc, Alloc!Unassigned, Unassigned
  <2>4. CASE SelectColor
    BY <1>2, <2>4, SelectLocations
    DEF Alloc!Next, Alloc!Place, Alloc!PlaceOnStack, Alloc!StackLoc, StackLoc,
        Alloc!Unassigned, Unassigned
  <2>5. CASE RemoveLowDegree \/ SkipAssigned \/ Returned \/ UNCHANGED vars
    BY <2>1, <2>5, RemoveLowDegreeLocations, SkipLocations DEF Returned, vars
  <2>. QED
    BY <1>2, <2>2, <2>3, <2>4, <2>5 DEF Next
<1>. QED
  BY <1>1, <1>2, Invariance, PTL DEF Spec, Alloc!SafeSpec
=============================================================================
