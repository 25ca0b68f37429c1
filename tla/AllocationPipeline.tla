-------------------------- MODULE AllocationPipeline --------------------------
(***************************************************************************)
(* From a function to locations for its values: the constructor of the      *)
(* interference graph runs to its end, and the stack allocator then takes   *)
(* the graph and the liveness information from it.  This is the order in    *)
(* which a client has to use the classes (runAllocation in the tests).      *)
(***************************************************************************)
EXTENDS InterferenceBuilder, ValueLocation

CONSTANTS
  Values,       \* the SSA values of all functions of Funcs
  StackReach    \* as in StackAllocator

ASSUME FuncsAssumption  == \A fn \in Funcs : FunctionValues(fn) \subseteq Values
ASSUME ReachAssumption  == StackReach \in 1..256
ASSUME FiniteAssumption == IsFiniteSet(Values)

VARIABLES
  phase,               \* "build", then "allocate"
  input,               \* the allocator's variables
  graph,
  simplificationStack,
  neighborSnapshot,
  assignment,
  memAllocator

allocVars == <<input, graph, simplificationStack, neighborSnapshot, assignment,
               memAllocator>>

pipelineVars == <<phase, allocVars, vars>>

-----------------------------------------------------------------------------
(* What the allocator asks of the function. *)

(* Values that EVMCostModel can find a cost for with nothing on the stack:  *)
(* no block argument, nor more than five levels, in their computation.      *)
Recomputable(fn) ==
  LET within[depth \in 0..5] ==
        IF depth = 0 THEN {}
        ELSE LET below == within[depth - 1]
             IN  UNION {UNION {fn[b].ops[i].results :
                                 i \in {j \in 1..Len(fn[b].ops) :
                                          Uses(fn[b].ops[j]) \subseteq below}}
                          : b \in 1..Len(fn)}
  IN  {v \in FunctionValues(fn) : v \in within[5]}

(* The values that count as dead where v is defined. *)
DeadWhereDefined(fn, v) ==
  {w \in FunctionValues(fn) :
     \E b \in 1..Len(fn) :
       \/ \E i \in 1..Len(fn[b].ops) :
            v \in fn[b].ops[i].results /\ isDeadAfter(fn, b, i, w)
       \/ /\ v \in Defs(fn[b]) \ OpDefs(fn[b])
          /\ w \notin getLiveOut(fn, b)}

ProblemOf(fn, g) ==
  [interference |-> g,
   useCounts    |-> [v \in Values |-> getUseCount(fn, v)],
   recomputable |-> Recomputable(fn),
   deadAt       |-> [v \in Values |-> DeadWhereDefined(fn, v)]]

(* The allocation problems over the values. *)
Problems ==
  {p \in [interference : UNION {[D -> SUBSET D] : D \in SUBSET Values},
          useCounts    : [Values -> Nat],
          recomputable : SUBSET Values,
          deadAt       : [Values -> SUBSET Values]] :
     IsInterferenceGraph(p.interference)}

Allocator == INSTANCE StackAllocator WITH Inputs <- Problems

-----------------------------------------------------------------------------
PipelineInit ==
  /\ Init
  /\ phase = "build"
  /\ input = ProblemOf(func, EmptyGraph)
  /\ graph = EmptyGraph
  /\ simplificationStack = <<>>
  /\ neighborSnapshot = [v \in Values |-> {}]
  /\ assignment = [v \in Values |-> Unassigned]
  /\ memAllocator = Allocator!NewMemory

Build ==
  /\ phase = "build"
  /\ VisitOp \/ VisitArg \/ NextBlock
  /\ UNCHANGED <<phase, allocVars>>

StartAllocation ==
  /\ phase = "build"
  /\ Built
  /\ phase' = "allocate"
  /\ input' = ProblemOf(func, adjacency)
  /\ graph' = adjacency
  /\ UNCHANGED <<simplificationStack, neighborSnapshot, assignment,
                 memAllocator, vars>>

Allocate ==
  /\ phase = "allocate"
  /\ Allocator!Next
  /\ UNCHANGED <<phase, vars>>

PipelineNext ==
  \/ Build
  \/ StartAllocation
  \/ Allocate

PipelineSpec == PipelineInit /\ [][PipelineNext]_pipelineVars

-----------------------------------------------------------------------------
(* Properties. *)

(* Two values are live at one point of a function. *)
LiveTogether ==
  {t \in {<<fn, v, w>> : fn \in Funcs, v, w \in Values} :
     Points(t[1]) \cap LivePoints(t[1], t[2]) \cap LivePoints(t[1], t[3]) # {}}

Allocated == phase = "allocate" /\ Allocator!Done

(* Two values that are live at one point of the function never share their  *)
(* storage, neither a stack colour nor a memory word.  It joins liveness,   *)
(* the backward scan and the two loops of the allocator.                    *)
LiveValuesApart ==
  Allocated =>
    \A v, w \in FunctionValues(func) :
      /\ v # w /\ <<func, v, w>> \in LiveTogether
      /\ IsStack(assignment[v]) \/ IsSpilled(assignment[v])
      => assignment[v] # assignment[w]

(* A value whose name never reaches the allocator, because the graph has no *)
(* entry for it, is never live beside another value: leaving it where it    *)
(* was computed, on top of the stack, loses nothing.                        *)
UnplacedLiveAlone ==
  Allocated =>
    \A v, w \in FunctionValues(func) :
      v # w /\ <<func, v, w>> \in LiveTogether => Assigned(assignment[v])

(* How many values are needed at once where an operation runs, or at the    *)
(* start of a block.                                                        *)
Pressures ==
  [fn \in Funcs |->
     UNION {
       {Cardinality(LiveAt(fn, <<b, 1>>) \cup (Defs(fn[b]) \ OpDefs(fn[b])))} \cup
       {Cardinality(fn[b].ops[i].results \cup Uses(fn[b].ops[i])
                    \cup LiveAt(fn, <<b, i + 1>>)) : i \in 1..Len(fn[b].ops)}
       : b \in 1..Len(fn)}]

(* A function in which no more values than the stack reaches are ever       *)
(* needed at once keeps them all on the stack: no memory, no recomputation. *)
FitsOnStack ==
  Allocated /\ (\A n \in Pressures[func] : n <= StackReach) =>
    \A v \in Values : Assigned(assignment[v]) => IsStack(assignment[v])
=============================================================================
