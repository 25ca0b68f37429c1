----------------------- MODULE AllocationPipelineProofs -----------------------
(***************************************************************************)
(* Proofs about AllocationPipeline: what the invariants of its two phases,  *)
(* proved in InterferenceBuilderProofs and StackAllocatorProofs, give for   *)
(* the whole way from a function to the locations of its values.            *)
(***************************************************************************)
EXTENDS AllocationPipeline, InterferenceBuilderProofs, FiniteSetTheorems

(* The allocator once more, now with what is proved about it. *)
AP == INSTANCE StackAllocatorProofs WITH Inputs <- Problems

LEMMA AllocatorAssumptions ==
  /\ StackReach \in 1..256
  /\ AP!IsFiniteSet(Values)
  /\ \A p \in Problems : AP!IsProblem(p)
<1>1. AP!IsFiniteSet(Values)
  BY FiniteAssumption DEF IsFiniteSet, AP!IsFiniteSet
<1>2. ASSUME NEW p \in Problems PROVE AP!IsProblem(p)
  <2>1. /\ p.interference \in UNION {[D -> SUBSET D] : D \in SUBSET Values}
        /\ p.useCounts \in [Values -> Nat]
        /\ p.recomputable \in SUBSET Values
        /\ p.deadAt \in [Values -> SUBSET Values]
        /\ IsInterferenceGraph(p.interference)
    BY DEF Problems
  <2>2. DOMAIN p.interference \subseteq Values
    BY <2>1
  <2>. QED
    BY <2>1, <2>2 DEF AP!IsProblem, IsInterferenceGraph, AP!IsInterferenceGraph,
       IsClosed, AP!IsClosed, IsSymmetric, AP!IsSymmetric, IsIrreflexive, AP!IsIrreflexive
<1>. QED  BY <1>1, <1>2, ReachAssumption

LEMMA AllocatorInit == AP!Init => AP!IInv
<1>1. AP!StackReachAssumption
  BY AllocatorAssumptions DEF AP!StackReachAssumption
<1>2. AP!ValuesAssumption
  BY AllocatorAssumptions DEF AP!ValuesAssumption
<1>3. AP!InputsAssumption
  BY AllocatorAssumptions DEF AP!InputsAssumption
<1>. QED  BY <1>1, <1>2, <1>3, AP!InitInv

LEMMA AllocatorStep == AP!IInv /\ [AP!Next]_(AP!vars) => AP!IInv'
<1>1. AP!StackReachAssumption
  BY AllocatorAssumptions DEF AP!StackReachAssumption
<1>2. AP!ValuesAssumption
  BY AllocatorAssumptions DEF AP!ValuesAssumption
<1>3. AP!InputsAssumption
  BY AllocatorAssumptions DEF AP!InputsAssumption
<1>. QED  BY <1>1, <1>2, <1>3, AP!NextInv

-----------------------------------------------------------------------------
(* The steps of the pipeline's allocator are those of the one the theorems  *)
(* are about: both are the same module for the same constants.              *)

LEMMA SameFirstLoop ==
  /\ Allocator!RemoveLowDegree => AP!RemoveLowDegree
  /\ Allocator!SpillToMemory => AP!SpillToMemory
  /\ Allocator!SpillToRecompute => AP!SpillToRecompute
<1>1. Allocator!RemoveLowDegree => AP!RemoveLowDegree
  BY DEF
     Allocator!RemoveLowDegree, AP!RemoveLowDegree,
     Allocator!LowDegree, AP!LowDegree, Allocator!getValues,
     AP!getValues, Allocator!Cardinality, AP!Cardinality,
     Allocator!Remove, AP!Remove, Allocator!removeNode, AP!removeNode,
     Allocator!Entry, AP!Entry
<1>2. Allocator!MustSpill => AP!MustSpill
  BY DEF
     Allocator!MustSpill, AP!MustSpill, Allocator!Simplifying,
     AP!Simplifying, Allocator!LowDegree, AP!LowDegree,
     Allocator!getValues, AP!getValues, Allocator!Cardinality,
     AP!Cardinality
<1>3. Allocator!lower_spill_cost = AP!lower_spill_cost
  BY DEF
     Allocator!lower_spill_cost, AP!lower_spill_cost,
     Allocator!spill_cost, AP!spill_cost, Allocator!Assigned,
     AP!Assigned, Allocator!getValues, AP!getValues,
     Allocator!Cardinality, AP!Cardinality
<1>4. ASSUME NEW v PROVE Allocator!Remove(v) => AP!Remove(v)
  BY DEF
     Allocator!Remove, AP!Remove, Allocator!removeNode, AP!removeNode,
     Allocator!Entry, AP!Entry
<1>5. Allocator!SpillToMemory => AP!SpillToMemory
  BY <1>2, <1>3, <1>4 DEF
     Allocator!SpillToMemory, AP!SpillToMemory, Allocator!SpilledLoc,
     AP!SpilledLoc, Allocator!allocate, AP!allocate,
     Allocator!allocatedOffset, AP!allocatedOffset,
     Allocator!hasFreeSlots, AP!hasFreeSlots, Allocator!WordSize,
     AP!WordSize
<1>6. Allocator!SpillToRecompute => AP!SpillToRecompute
  BY <1>2, <1>3, <1>4 DEF
     Allocator!SpillToRecompute, AP!SpillToRecompute,
     Allocator!RecomputeLoc, AP!RecomputeLoc
<1>. QED  BY <1>1, <1>5, <1>6

LEMMA SameSecondLoop ==
  /\ Allocator!SkipAssigned => AP!SkipAssigned
  /\ Allocator!SelectColor => AP!SelectColor
<1>1. Allocator!SkipAssigned => AP!SkipAssigned
  BY DEF
     Allocator!SkipAssigned, AP!SkipAssigned, Allocator!Selecting,
     AP!Selecting, Allocator!Simplifying, AP!Simplifying,
     Allocator!getValues, AP!getValues, Allocator!Top, AP!Top,
     Allocator!Pop, AP!Pop, Allocator!Assigned, AP!Assigned
<1>2. Allocator!SelectColor => AP!SelectColor
  BY DEF
     Allocator!SelectColor, AP!SelectColor, Allocator!Selecting,
     AP!Selecting, Allocator!Simplifying, AP!Simplifying,
     Allocator!getValues, AP!getValues, Allocator!Top, AP!Top,
     Allocator!Pop, AP!Pop, Allocator!Assigned, AP!Assigned,
     Allocator!Cardinality, AP!Cardinality, Allocator!LowestFree,
     AP!LowestFree, Allocator!usedColors, AP!usedColors,
     Allocator!StackLoc, AP!StackLoc, Allocator!IsStack, AP!IsStack,
     Allocator!IsSpilled, AP!IsSpilled, Allocator!Orderings,
     AP!Orderings, Allocator!freeAll, AP!freeAll,
     Allocator!DeadOffsets, AP!DeadOffsets
<1>. QED  BY <1>1, <1>2

LEMMA SameNext == Allocator!Next => [AP!Next]_(AP!vars)
  BY SameFirstLoop, SameSecondLoop
  DEF Allocator!Next, AP!Next, Allocator!Returned, Allocator!vars, AP!vars

-----------------------------------------------------------------------------
(* The problem the constructor's graph poses is one the allocator takes.    *)

(* Uses are counted place by place, and there are finitely many places.     *)
LEMMA UseCounts ==
  ASSUME NEW fn \in Funcs, NEW v
  PROVE  getUseCount(fn, v) \in Nat
<1>. DEFINE In(b, i) == {<<b, i, k>> : k \in {j \in 1..Len(fn[b].ops[i].operands) :
                                             fn[b].ops[i].operands[j] = v}}
            InOps == [b \in 1..Len(fn) |-> {In(b, i) : i \in 1..Len(fn[b].ops)}]
            InBlocks == {UNION InOps[b] : b \in 1..Len(fn)}
<1>1. /\ Len(fn) \in Nat
      /\ \A b \in 1..Len(fn) :
           /\ Len(fn[b].ops) \in Nat
           /\ \A i \in 1..Len(fn[b].ops) : Len(fn[b].ops[i].operands) \in Nat
  BY FunctionsAssumption DEF IsSSA
<1>2. ASSUME NEW b \in 1..Len(fn), NEW i \in 1..Len(fn[b].ops)
      PROVE  IsFiniteSet(In(b, i))
  <2>. DEFINE K == {j \in 1..Len(fn[b].ops[i].operands) :
                      fn[b].ops[i].operands[j] = v}
              f == [k \in K |-> <<b, i, k>>]
  <2>1. IsFiniteSet(1..Len(fn[b].ops[i].operands))
    <3>1. Len(fn[b].ops[i].operands) \in Nat
      BY <1>1
    <3>. QED  BY <3>1, FiniteUpTo
  <2>2. IsFiniteSet(K)
    BY <2>1, FS_Subset
  <2>3. IsFiniteSet({f[k] : k \in K})
    <3>1. DOMAIN f = K
      OBVIOUS
    <3>. HIDE DEF f, K
    <3>. QED  BY <2>2, <3>1, FiniteImage
  <2>4. {f[k] : k \in K} = In(b, i)
    OBVIOUS
  <2>. QED  BY <2>3, <2>4
<1>. HIDE DEF In
<1>3. ASSUME NEW b \in 1..Len(fn)
      PROVE  IsFiniteSet(UNION InOps[b])
  <2>. DEFINE f == [i \in 1..Len(fn[b].ops) |-> In(b, i)]
  <2>1. IsFiniteSet(1..Len(fn[b].ops))
    <3>1. Len(fn[b].ops) \in Nat
      BY <1>1
    <3>. QED  BY <3>1, FiniteUpTo
  <2>2. IsFiniteSet({f[i] : i \in 1..Len(fn[b].ops)})
    <3>1. DOMAIN f = 1..Len(fn[b].ops)
      OBVIOUS
    <3>. HIDE DEF f
    <3>. QED  BY <2>1, <3>1, FiniteImage
  <2>3. InOps[b] = {f[i] : i \in 1..Len(fn[b].ops)}
    OBVIOUS
  <2>4. \A S \in InOps[b] : IsFiniteSet(S)
    BY <1>2
  <2>. HIDE DEF f, InOps
  <2>. QED  BY <2>2, <2>3, <2>4, FS_UNION
<1>4. IsFiniteSet(InBlocks)
  <2>. DEFINE f == [b \in 1..Len(fn) |-> UNION InOps[b]]
  <2>1. IsFiniteSet(1..Len(fn)) /\ DOMAIN f = 1..Len(fn)
    BY <1>1, FiniteUpTo
  <2>2. InBlocks = {f[b] : b \in 1..Len(fn)}
    OBVIOUS
  <2>. HIDE DEF f, InBlocks
  <2>. QED  BY <2>1, <2>2, FiniteImage
<1>5. IsFiniteSet(UNION InBlocks)
  <2>1. \A S \in InBlocks : IsFiniteSet(S)
    BY <1>3
  <2>. HIDE DEF InBlocks
  <2>. QED  BY <1>4, <2>1, FS_UNION
<1>6. UsePlaces(fn, v) = UNION InBlocks
  BY DEF UsePlaces, In
<1>. QED  BY <1>5, <1>6, FS_CardinalityType DEF getUseCount

LEMMA ProblemPosed ==
  ASSUME IInv
  PROVE  ProblemOf(func, adjacency) \in Problems
<1>. DEFINE p == ProblemOf(func, adjacency)
<1>1. func \in Funcs /\ FunctionValues(func) \subseteq Values
  BY FuncsAssumption DEF IInv, Counters
<1>2. adjacency \in UNION {[D -> SUBSET D] : D \in SUBSET Values}
  <2>1. DOMAIN adjacency \in SUBSET Values
    BY <1>1 DEF IInv
  <2>2. adjacency \in [DOMAIN adjacency -> SUBSET DOMAIN adjacency]
    BY DEF IInv, IsInterferenceGraph, IsClosed
  <2>. QED  BY <2>1, <2>2
<1>3. p.useCounts \in [Values -> Nat]
  BY <1>1, UseCounts DEF ProblemOf
<1>4. p.recomputable \in SUBSET Values
  <2>1. Recomputable(func) \subseteq FunctionValues(func)
    BY DEF Recomputable
  <2>. QED  BY <1>1, <2>1 DEF ProblemOf
<1>5. p.deadAt \in [Values -> SUBSET Values]
  <2>1. \A v : DeadWhereDefined(func, v) \subseteq FunctionValues(func)
    BY DEF DeadWhereDefined
  <2>. QED  BY <1>1, <2>1 DEF ProblemOf
<1>6. p.interference = adjacency /\ IsInterferenceGraph(adjacency)
  BY DEF ProblemOf, IInv
<1>7. p = [interference |-> p.interference, useCounts |-> p.useCounts,
           recomputable |-> p.recomputable, deadAt |-> p.deadAt]
  BY DEF ProblemOf
<1>. HIDE DEF p
<1>. QED  BY <1>2, <1>3, <1>4, <1>5, <1>6, <1>7 DEF Problems, p

-----------------------------------------------------------------------------
(* The inductive invariant: the builder's holds throughout, the allocator's *)
(* once it runs, and the allocator works on the graph of the finished scan. *)
PipelineInv ==
  /\ IInv
  /\ \/ /\ phase = "build"
        /\ simplificationStack = <<>>
        /\ neighborSnapshot = [v \in Values |-> {}]
        /\ assignment = [v \in Values |-> Unassigned]
        /\ memAllocator = AP!NewMemory
     \/ /\ phase = "allocate"
        /\ Built
        /\ input = ProblemOf(func, adjacency)
        /\ AP!IInv

LEMMA PipelineInitInv == PipelineInit => PipelineInv
  BY InitInvariant
  DEF PipelineInit, PipelineInv, Allocator!NewMemory, AP!NewMemory

LEMMA BuildInv == PipelineInv /\ Build => PipelineInv'
<1>. SUFFICES ASSUME PipelineInv, Build PROVE PipelineInv'
  OBVIOUS
<1>1. phase = "build" /\ phase' = phase /\ UNCHANGED allocVars
  BY DEF Build
<1>2. IInv'
  BY VisitOpInvariant, VisitArgInvariant, NextBlockInvariant DEF Build, PipelineInv
<1>. QED  BY <1>1, <1>2 DEF PipelineInv, allocVars, AP!NewMemory

LEMMA AllocatorInitNext == (AP!Init)' => (AP!IInv)'
  BY AllocatorInit, PTL

LEMMA StartInv == PipelineInv /\ StartAllocation => PipelineInv'
<1>. SUFFICES ASSUME PipelineInv, StartAllocation PROVE PipelineInv'
  OBVIOUS
<1>1. /\ phase = "build" /\ Built /\ phase' = "allocate"
      /\ input' = ProblemOf(func, adjacency) /\ graph' = adjacency
      /\ UNCHANGED <<simplificationStack, neighborSnapshot, assignment,
                     memAllocator, vars>>
  BY DEF StartAllocation
<1>2. IInv' /\ Built' /\ (input = ProblemOf(func, adjacency))'
  BY <1>1, StutterInvariant DEF PipelineInv, vars, Built, BlockDone
<1>3. input' \in Problems /\ graph' = input'.interference
  BY <1>1, ProblemPosed DEF PipelineInv, ProblemOf
<1>4. (AP!Init)'
  BY <1>1, <1>3 DEF PipelineInv, AP!Init, AP!NewMemory, AP!Unassigned, Unassigned,
     AP!WordSize
<1>5. (AP!IInv)'
  BY <1>4, AllocatorInitNext
<1>. QED  BY <1>1, <1>2, <1>5 DEF PipelineInv

LEMMA AllocateInv == PipelineInv /\ Allocate => PipelineInv'
<1>. SUFFICES ASSUME PipelineInv, Allocate PROVE PipelineInv'
  OBVIOUS
<1>1. phase = "allocate" /\ Allocator!Next /\ UNCHANGED <<phase, vars>>
  BY DEF Allocate
<1>2. AP!IInv /\ Built /\ input = ProblemOf(func, adjacency)
  BY <1>1 DEF PipelineInv
<1>3. (AP!IInv)'
  BY <1>1, <1>2, SameNext, AllocatorStep
<1>4. input' = input
  BY <1>1 DEF Allocator!Next, Allocator!RemoveLowDegree, Allocator!SpillToMemory,
     Allocator!SpillToRecompute, Allocator!SkipAssigned, Allocator!SelectColor,
     Allocator!Returned, Allocator!Remove, Allocator!Pop, Allocator!vars
<1>5. IInv' /\ Built' /\ (input = ProblemOf(func, adjacency))'
  BY <1>1, <1>2, <1>4, StutterInvariant DEF PipelineInv, vars, Built, BlockDone
<1>. QED  BY <1>1, <1>3, <1>5 DEF PipelineInv

LEMMA PipelineStutter == PipelineInv /\ UNCHANGED pipelineVars => PipelineInv'
<1>. SUFFICES ASSUME PipelineInv, UNCHANGED pipelineVars PROVE PipelineInv'
  OBVIOUS
<1>1. phase' = phase /\ UNCHANGED allocVars /\ UNCHANGED vars
  BY DEF pipelineVars
<1>2. IInv'
  BY <1>1, StutterInvariant DEF PipelineInv
<1>3. UNCHANGED AP!vars
  BY <1>1 DEF allocVars, AP!vars
<1>4. AP!IInv => (AP!IInv)'
  BY <1>3, AllocatorStep
<1>. QED
  BY <1>1, <1>2, <1>4 DEF PipelineInv, allocVars, vars, Built, BlockDone, AP!NewMemory

(* The two phases keep their invariants, and nothing of the scan's result   *)
(* changes once the allocator has it.                                       *)
THEOREM PipelineInvariance == PipelineSpec => []PipelineInv
<1>1. PipelineInv /\ [PipelineNext]_pipelineVars => PipelineInv'
  BY BuildInv, StartInv, AllocateInv, PipelineStutter DEF PipelineNext
<1>. QED  BY <1>1, PipelineInitInv, PTL DEF PipelineSpec

-----------------------------------------------------------------------------
(* The theorems. *)

(* Values of the function that are ever live together interfere in the      *)
(* problem the allocator has solved.                                        *)
LEMMA LiveInterfere ==
  ASSUME PipelineInv, Allocated,
         NEW v \in FunctionValues(func), NEW w \in FunctionValues(func),
         v # w, <<func, v, w>> \in LiveTogether
  PROVE  /\ AP!IInv
         /\ v \in DOMAIN input.interference
         /\ w \in input.interference[v]
<1>1. AP!IInv /\ Built /\ input = ProblemOf(func, adjacency) /\ IInv
  BY DEF PipelineInv, Allocated
<1>2. PICK p \in Points(func) : p \in LivePoints(func, v) /\ p \in LivePoints(func, w)
  BY DEF LiveTogether
<1>3. v \in LiveAt(func, p) /\ w \in LiveAt(func, p)
  BY <1>2 DEF LiveAt
<1>4. w \in Entry(adjacency, v)
  BY <1>1, <1>3, CompleteWhenBuilt DEF EdgesComplete
<1>5. input.interference = adjacency
  BY <1>1 DEF ProblemOf
<1>. QED  BY <1>1, <1>4, <1>5 DEF Entry

(* Two values that are live at one point of a function never share a stack  *)
(* colour or a memory word when both classes are done, whatever the         *)
(* function, the reach of the stack instructions and the choices made.      *)
THEOREM LiveNeverShare == PipelineSpec => []LiveValuesApart
<1>1. PipelineInv => LiveValuesApart
  <2>. SUFFICES ASSUME PipelineInv, Allocated,
                       NEW v \in FunctionValues(func), NEW w \in FunctionValues(func),
                       v # w, <<func, v, w>> \in LiveTogether,
                       IsStack(assignment[v]) \/ IsSpilled(assignment[v]),
                       assignment[v] = assignment[w]
                PROVE  FALSE
    BY DEF LiveValuesApart
  <2>1. AP!IInv /\ v \in DOMAIN input.interference /\ w \in input.interference[v]
    BY LiveInterfere
  <2>2. AP!ProperColoring /\ AP!SpilledSlotsDistinct
    BY <2>1 DEF AP!IInv
  <2>3. v \in Values /\ w \in Values
    BY FuncsAssumption DEF PipelineInv, IInv, Counters
  <2>4. CASE IsStack(assignment[v])
    BY <2>1, <2>2, <2>4 DEF AP!ProperColoring, IsStack, AP!IsStack
  <2>5. CASE IsSpilled(assignment[v])
    BY <2>2, <2>3, <2>5 DEF AP!SpilledSlotsDistinct, IsSpilled, AP!IsSpilled
  <2>. QED  BY <2>4, <2>5
<1>. QED  BY <1>1, PipelineInvariance, PTL

(* A value that leaves the allocator without a location is never live       *)
(* beside another.                                                          *)
THEOREM LiveValuesPlaced == PipelineSpec => []UnplacedLiveAlone
<1>1. PipelineInv => UnplacedLiveAlone
  <2>. SUFFICES ASSUME PipelineInv, Allocated,
                       NEW v \in FunctionValues(func), NEW w \in FunctionValues(func),
                       v # w, <<func, v, w>> \in LiveTogether
                PROVE  Assigned(assignment[v])
    BY DEF UnplacedLiveAlone
  <2>1. AP!IInv /\ v \in DOMAIN input.interference
    BY LiveInterfere
  <2>2. DOMAIN input.interference \subseteq DOMAIN graph \cup AP!OnStack \cup AP!Placed
    BY <2>1 DEF AP!IInv, AP!PlacedInv
  <2>3. DOMAIN graph = {} /\ simplificationStack = <<>>
    BY DEF Allocated, Allocator!Done, Allocator!Simplifying, Allocator!getValues
  <2>4. AP!OnStack = {}
    BY <2>3 DEF AP!OnStack
  <2>. QED  BY <2>1, <2>2, <2>3, <2>4 DEF AP!Placed, Assigned, AP!Assigned
<1>. QED  BY <1>1, PipelineInvariance, PTL

-----------------------------------------------------------------------------
(* Spilling and pressure. *)

(* Values of the function that interfere pairwise are all needed at one     *)
(* place: where the last of them is defined.                                *)
LEMMA CliqueUnderPressure ==
  ASSUME IInv, Built, NEW clique \in SUBSET DOMAIN adjacency, clique # {},
         \A v, w \in clique : v # w => w \in adjacency[v]
  PROVE  \E n \in Pressures[func] \cap Nat : Cardinality(clique) <= n
<1>1. IsSSA(func) /\ func \in Funcs
  BY ScannedFunction DEF IInv, Counters
<1>2. PICK v \in clique :
        \A w \in adjacency[v] \cap clique : <<v, w>> \in LiveAtDefinition(func)
  BY LastNode
<1>3. \A w \in clique \ {v} : <<v, w>> \in LiveAtDefinition(func)
  BY <1>2
<1>4. v \in FunctionValues(func)
  BY DEF IInv
<1>. DEFINE AtStart(b) == LiveAt(func, <<b, 1>>) \cup (Defs(func[b]) \ OpDefs(func[b]))
            AtOp(b, i) == func[b].ops[i].results \cup Uses(func[b].ops[i])
                            \cup LiveAt(func, <<b, i + 1>>)
<1>5. /\ \A b \in 1..Len(func) : Cardinality(AtStart(b)) \in Pressures[func]
      /\ \A b \in 1..Len(func) : \A i \in 1..Len(func[b].ops) :
           Cardinality(AtOp(b, i)) \in Pressures[func]
  <2>. DEFINE OfOps(b) == {Cardinality(AtOp(b, i)) : i \in 1..Len(func[b].ops)}
              OfBlock(b) == {Cardinality(AtStart(b))} \cup OfOps(b)
  <2>1. Pressures[func] = UNION {OfBlock(b) : b \in 1..Len(func)}
    BY <1>1 DEF Pressures
  <2>2. \A b \in 1..Len(func) : OfBlock(b) \subseteq Pressures[func]
    <3>. HIDE DEF OfBlock
    <3>. QED  BY <2>1
  <2>3. \A b : /\ Cardinality(AtStart(b)) \in OfBlock(b)
               /\ \A i \in 1..Len(func[b].ops) : Cardinality(AtOp(b, i)) \in OfBlock(b)
    <3>. HIDE DEF AtStart, AtOp
    <3>. QED  OBVIOUS
  <2>. HIDE DEF OfBlock, AtStart, AtOp
  <2>. QED  BY <2>2, <2>3
<1>6. \A b \in 1..Len(func) :
        /\ AtStart(b) \in SUBSET FunctionValues(func)
        /\ \A i \in 1..Len(func[b].ops) : AtOp(b, i) \in SUBSET FunctionValues(func)
  <2>1. \A b \in 1..Len(func) : Defs(func[b]) \subseteq FunctionValues(func)
    BY <1>1, OpsOfFunction
  <2>2. \A b \in 1..Len(func) : \A i \in 1..Len(func[b].ops) :
          Uses(func[b].ops[i]) \subseteq FunctionValues(func)
    BY <1>1 DEF IsSSA
  <2>. QED  BY <2>1, <2>2, LiveAreValues, OwnValues
<1>7. ASSUME NEW P \in SUBSET FunctionValues(func), clique \subseteq P,
             Cardinality(P) \in Pressures[func]
      PROVE  \E n \in Pressures[func] \cap Nat : Cardinality(clique) <= n
  <2>1. IsFiniteSet(P)
    BY <1>1, ValuesFinite, FS_Subset
  <2>2. Cardinality(clique) <= Cardinality(P) /\ Cardinality(P) \in Nat
    BY <1>7, <2>1, FS_Subset, FS_CardinalityType
  <2>. QED  BY <1>7, <2>2
<1>. HIDE DEF AtStart, AtOp
<1>8. PICK b \in 1..Len(func) :
        v \in Arguments(func[b]) \/ \E i \in 1..Len(func[b].ops) : v \in func[b].ops[i].results
  BY <1>4 DEF FunctionValues, Defs, OpDefs
<1>9. CASE v \in Arguments(func[b])
  <2>1. clique \subseteq AtStart(b)
    <3>1. v \in Defs(func[b]) \ OpDefs(func[b])
      BY <1>1, <1>9, OneDefinition
    <3>2. ASSUME NEW w \in clique \ {v} PROVE w \in LiveAt(func, <<b, 1>>)
      <4>1. PICK c \in 1..Len(func) :
              \/ v \in Defs(func[c]) \ OpDefs(func[c]) /\ w \in LiveAt(func, <<c, 1>>)
              \/ \E i \in 1..Len(func[c].ops) :
                   /\ v \in func[c].ops[i].results
                   /\ w \in Uses(func[c].ops[i]) \cup LiveAt(func, <<c, i + 1>>)
        BY <1>3, PairsAtDefinition
      <4>. QED  BY <1>1, <1>9, <4>1, OneDefinition DEF Defs
    <3>. QED  BY <3>1, <3>2 DEF AtStart
  <2>. QED  BY <1>5, <1>6, <1>7, <2>1
<1>10. ASSUME NEW i \in 1..Len(func[b].ops), v \in func[b].ops[i].results
       PROVE  \E n \in Pressures[func] \cap Nat : Cardinality(clique) <= n
  <2>1. clique \subseteq AtOp(b, i)
    <3>1. ASSUME NEW w \in clique \ {v}
          PROVE  w \in Uses(func[b].ops[i]) \cup LiveAt(func, <<b, i + 1>>)
      <4>1. PICK c \in 1..Len(func) :
              \/ v \in Defs(func[c]) \ OpDefs(func[c]) /\ w \in LiveAt(func, <<c, 1>>)
              \/ \E j \in 1..Len(func[c].ops) :
                   /\ v \in func[c].ops[j].results
                   /\ w \in Uses(func[c].ops[j]) \cup LiveAt(func, <<c, j + 1>>)
        BY <1>3, PairsAtDefinition
      <4>2. v \notin Arguments(func[c])
        BY <1>1, <1>10, OneDefinition
      <4>3. PICK j \in 1..Len(func[c].ops) :
              /\ v \in func[c].ops[j].results
              /\ w \in Uses(func[c].ops[j]) \cup LiveAt(func, <<c, j + 1>>)
        BY <4>1, <4>2 DEF Defs
      <4>4. \A d \in 1..Len(func) : \A k \in 1..Len(func[d].ops) :
              v \in func[d].ops[k].results => d = b /\ k = i
        BY <1>1, <1>10, OneDefinition
      <4>. QED  BY <4>3, <4>4
    <3>. QED  BY <1>10, <3>1 DEF AtOp
  <2>. QED  BY <1>5, <1>6, <1>7, <2>1
<1>. QED  BY <1>8, <1>9, <1>10

(* A function that nowhere needs more values at once than the stack reaches *)
(* is allocated without memory and without recomputation: the allocator     *)
(* would have found more values interfering pairwise, the last of them      *)
(* defined where all are needed.                                            *)
THEOREM NoNeedlessSpill == PipelineSpec => []FitsOnStack
<1>1. PipelineInv => FitsOnStack
  <2>. SUFFICES ASSUME PipelineInv, Allocated, \A n \in Pressures[func] : n <= StackReach,
                       NEW v \in Values, Assigned(assignment[v]), ~IsStack(assignment[v])
                PROVE  FALSE
    BY DEF FitsOnStack
  <2>1. AP!IInv /\ Built /\ input = ProblemOf(func, adjacency) /\ IInv
    BY DEF PipelineInv, Allocated
  <2>2. input.interference = adjacency
    BY <2>1 DEF ProblemOf
  <2>3. AP!Chordal(input.interference)
    <3>1. Chordal(adjacency)
      BY <2>1, ChordalWhenBuilt DEF BuiltGraphChordal
    <3>2. \A S, x : Simplicial(adjacency, S, x) <=> AP!Simplicial(adjacency, S, x)
      BY DEF Simplicial, AP!Simplicial
    <3>3. AP!Chordal(adjacency)
      BY <3>1, <3>2 DEF Chordal, AP!Chordal
    <3>. QED  BY <2>2, <3>3
  <2>4. v \in AP!Placed /\ ~AP!IsStack(assignment[v])
    BY DEF AP!Placed, Assigned, AP!Assigned, IsStack, AP!IsStack
  <2>5. AP!SpillOnlyUnderPressure
    BY <2>1 DEF AP!IInv
  <2>6. PICK clique \in SUBSET DOMAIN adjacency :
          /\ AP!Cardinality(clique) = StackReach + 1
          /\ \A x, y \in clique : x # y => y \in adjacency[x]
    BY <2>2, <2>3, <2>4, <2>5 DEF AP!SpillOnlyUnderPressure
  <2>7. Cardinality(clique) = StackReach + 1
    BY <2>6 DEF Cardinality, AP!Cardinality
  <2>8. StackReach \in Nat /\ clique # {}
    BY <2>7, ReachAssumption, FS_EmptySet
  <2>9. PICK n \in Pressures[func] \cap Nat : Cardinality(clique) <= n
    BY <2>1, <2>6, <2>8, CliqueUnderPressure
  <2>10. n <= StackReach
    BY <2>9
  <2>. QED  BY <2>7, <2>8, <2>9, <2>10
<1>. QED  BY <1>1, PipelineInvariance, PTL
=============================================================================
