--------------------------- MODULE StackAllocator ---------------------------
(***************************************************************************)
(* StackAllocator::run() (StackAllocation/StackAllocator.cpp): graph        *)
(* colouring in the manner of Chaitin.  The first loop empties the          *)
(* interference graph: it removes a value with fewer than 16 neighbours if  *)
(* there is one, and otherwise gives the cheapest value a memory word or    *)
(* marks it for recomputation before removing it.  The second loop pops the *)
(* removed values and gives each one that has no location yet the lowest    *)
(* colour its recorded neighbours leave free.                               *)
(*                                                                          *)
(* Each iteration of a loop is one step.  The containers iterated over are  *)
(* DenseMaps, whose order is unspecified: where the code takes the first    *)
(* value that satisfies a condition, the model takes any.                   *)
(***************************************************************************)
EXTENDS InterferenceGraph, MemoryAllocator, ValueLocation

CONSTANTS
  Values,       \* the SSA values of the function
  StackReach,   \* 16 in the code
  Inputs        \* the allocation problems run() may be called on

(***************************************************************************)
(* An allocation problem: the interference graph, the use counts, the       *)
(* values for which EVMCostModel::recomputeCost can return a cost, and for  *)
(* each value the values that are dead where it is defined.                 *)
(***************************************************************************)
IsProblem(p) ==
  /\ IsInterferenceGraph(p.interference)
  /\ DOMAIN p.interference \subseteq Values
  /\ p.useCounts \in [Values -> Nat]
  /\ p.recomputable \subseteq Values
  /\ p.deadAt \in [Values -> SUBSET Values]

ASSUME StackReachAssumption == StackReach \in 1..256  \* colours are uint8_t
ASSUME ValuesAssumption     == IsFiniteSet(Values)
ASSUME InputsAssumption     == \A p \in Inputs : IsProblem(p)

VARIABLES
  input,               \* the problem being solved, never changed
  graph,               \* what is left of the interference graph
  simplificationStack, \* the values removed from it, last one on top
  neighborSnapshot,    \* a removed value's neighbours at its removal
  assignment,          \* the locations given so far
  memAllocator         \* the words used by spilled values

vars == <<input, graph, simplificationStack, neighborSnapshot, assignment,
          memAllocator>>

Init ==
  /\ input \in Inputs
  /\ graph = input.interference
  /\ simplificationStack = <<>>
  /\ neighborSnapshot = [v \in Values |-> {}]
  /\ assignment = [v \in Values |-> Unassigned]
  /\ memAllocator = NewMemory

Simplifying == getValues(graph) # {}

(* Variant of Selecting: values are popped while the graph is not empty. *)
stackNotEmpty == simplificationStack # <<>>

Selecting   == ~Simplifying /\ simplificationStack # <<>>
Done        == ~Simplifying /\ simplificationStack = <<>>

-----------------------------------------------------------------------------
(* First loop: simplification. *)

(* Variants of LowDegree, off by one in each direction. *)
degreeAtMostReach == {v \in getValues(graph) : Cardinality(graph[v]) <= StackReach}
degreeBelowReachByTwo == {v \in getValues(graph) : Cardinality(graph[v]) + 1 < StackReach}

LowDegree == {v \in getValues(graph) : Cardinality(graph[v]) < StackReach}

spill_cost(v) == input.useCounts[v] \div Cardinality(graph[v])

(* lower_spill_cost(): a value of least cost among those without location. *)
lower_spill_cost ==
  LET candidates == {v \in getValues(graph) : ~Assigned(assignment[v])}
  IN  {v \in candidates : \A w \in candidates : spill_cost(v) <= spill_cost(w)}

(* Variant of Remove that takes the snapshot after removeNode(). *)
snapshotAfterRemoval(v) ==
  /\ graph' = removeNode(graph, v)
  /\ neighborSnapshot' = [neighborSnapshot EXCEPT ![v] = Entry(graph', v)]
  /\ simplificationStack' = Append(simplificationStack, v)
  /\ UNCHANGED input

Remove(v) ==
  /\ neighborSnapshot' = [neighborSnapshot EXCEPT ![v] = graph[v]]
  /\ simplificationStack' = Append(simplificationStack, v)
  /\ graph' = removeNode(graph, v)
  /\ UNCHANGED input

RemoveLowDegree ==
  \E v \in LowDegree :
    /\ Remove(v)
    /\ UNCHANGED <<assignment, memAllocator>>

(* No value has few enough neighbours. *)
MustSpill == Simplifying /\ LowDegree = {}

SpillToMemory ==
  /\ MustSpill
  /\ \E v \in lower_spill_cost :
       /\ Remove(v)
       /\ assignment' =
            [assignment EXCEPT ![v] = SpilledLoc(allocatedOffset(memAllocator))]
       /\ memAllocator' = allocate(memAllocator)

(* Variant of SpillToRecompute that allocates a word before it decides. *)
allocateThenRecompute ==
  /\ MustSpill
  /\ \E v \in lower_spill_cost \cap input.recomputable :
       /\ Remove(v)
       /\ assignment' = [assignment EXCEPT ![v] = RecomputeLoc]
       /\ memAllocator' = allocate(memAllocator)

(* The cost model keeps a reference to the constructor's by-value ForkSpec  *)
(* parameter, which is gone when run() reads it, so the gas figures it      *)
(* compares are unspecified: a recomputable value takes either outcome.     *)
SpillToRecompute ==
  /\ MustSpill
  /\ \E v \in lower_spill_cost \cap input.recomputable :
       /\ Remove(v)
       /\ assignment' = [assignment EXCEPT ![v] = RecomputeLoc]
       /\ UNCHANGED memAllocator

-----------------------------------------------------------------------------
(* Second loop: selection. *)

Top == simplificationStack[Len(simplificationStack)]

(* Variant of Pop that leaves the value on the stack. *)
peek == UNCHANGED <<simplificationStack, input, graph, neighborSnapshot>>

Pop ==
  /\ simplificationStack' =
       SubSeq(simplificationStack, 1, Len(simplificationStack) - 1)
  /\ UNCHANGED <<input, graph, neighborSnapshot>>

(* Variant of SkipAssigned that skips every value. *)
skipAny ==
  /\ Selecting
  /\ Pop
  /\ UNCHANGED <<assignment, memAllocator>>

SkipAssigned ==
  /\ Selecting
  /\ Assigned(assignment[Top])
  /\ Pop
  /\ UNCHANGED <<assignment, memAllocator>>

(* Variant of usedColors that asks the graph, by then empty, instead of the *)
(* snapshot.                                                                *)
usedColorsInGraph(v) ==
  {assignment[n].color : n \in {m \in Entry(graph, v) : IsStack(assignment[m])}}

usedColors(v) ==
  {assignment[n].color :
     n \in {m \in neighborSnapshot[v] : IsStack(assignment[m])}}

(* Variant of LowestFree that counts the used colours. *)
nextColor(used) == Cardinality(used)

(* The first colour from 0 that is not used. *)
LowestFree(used) ==
  CHOOSE c \in 0..Cardinality(used) :
    c \notin used /\ \A d \in 0..(c - 1) : d \in used

(* The words of the spilled values that are dead where v is defined, freed  *)
(* again for every value that is coloured at such a place.                  *)
DeadOffsets(v) ==
  {assignment[s].memOffset :
     s \in {t \in input.deadAt[v] : IsSpilled(assignment[t])}}

Orderings(S) ==
  {s \in [1..Cardinality(S) -> S] : \A i, j \in 1..Cardinality(S) :
                                      s[i] = s[j] => i = j}

(* Variant of SelectColor without the test for an assigned location. *)
colorAny ==
  /\ Selecting
  /\ UNCHANGED memAllocator
  /\ assignment' =
       [assignment EXCEPT ![Top] = StackLoc(LowestFree(usedColors(Top)))]
  /\ Pop

SelectColor ==
  /\ Selecting
  /\ ~Assigned(assignment[Top])
  /\ \E freed \in Orderings(DeadOffsets(Top)) :
       memAllocator' = freeAll(memAllocator, freed)
  /\ assignment' =
       [assignment EXCEPT ![Top] = StackLoc(LowestFree(usedColors(Top)))]
  /\ Pop

(* run() has returned. *)
Returned == Done /\ UNCHANGED vars

Next ==
  \/ RemoveLowDegree
  \/ SpillToMemory
  \/ SpillToRecompute
  \/ SkipAssigned
  \/ SelectColor
  \/ Returned

(* run() is a sequential function: it goes on as long as it can. *)
Fairness == WF_vars(Next)

Spec == Init /\ [][Next]_vars /\ Fairness

-----------------------------------------------------------------------------
(* Properties. *)

Colors      == 0..255          \* StackLoc::color is a uint8_t
WordOffsets == {WordSize * i : i \in 0..Cardinality(Values)}
Locations   == {Unassigned, RecomputeLoc} \cup StackLocs(Colors)
                                          \cup SpilledLocs(WordOffsets)

OnStack == {simplificationStack[i] : i \in 1..Len(simplificationStack)}
Placed  == {v \in Values : Assigned(assignment[v])}
Spilled == {v \in Values : IsSpilled(assignment[v])}

(* Type correctness.  What is left of the graph stays an interference graph *)
(* (removeNode erases both directions of every edge), so operator[] in      *)
(* removeNode never brings back a removed value; a colour fits a uint8_t;   *)
(* and memory never grows past one word per value.                          *)
TypeOK ==
  /\ input \in Inputs
  /\ DOMAIN graph \subseteq DOMAIN input.interference
  /\ IsInterferenceGraph(graph)
  /\ simplificationStack \in Seq(DOMAIN input.interference)
  /\ neighborSnapshot \in [Values -> SUBSET DOMAIN input.interference]
  /\ assignment \in [Values -> Locations]
  /\ memAllocator.nextOffset \in WordOffsets
  /\ memAllocator.freeList \in Seq(WordOffsets)

(* Values that interfere never share a stack colour, at any point of the    *)
(* run: the snapshots taken while the graph was being emptied still name    *)
(* every coloured neighbour when a value is popped.                         *)
ProperColoring ==
  \A v \in DOMAIN input.interference :
    \A w \in input.interference[v] :
      IsStack(assignment[v]) /\ IsStack(assignment[w])
        => assignment[v].color # assignment[w].color

(* Every colour is one that DUP and SWAP reach.  run() only tests degrees   *)
(* while it removes values; that this bounds the colours it chooses much    *)
(* later is the point of the two loops.                                     *)
ColorWithinReach ==
  \A v \in Values : IsStack(assignment[v]) => assignment[v].color < StackReach

(* No two spilled values share a memory word.  run() frees words it never   *)
(* checked to be dead for good, once per coloured value, so one word can be *)
(* on the free list many times: handing one out again would break this.     *)
SpilledSlotsDistinct ==
  \A v, w \in Values :
    /\ IsSpilled(assignment[v])
    /\ IsSpilled(assignment[w])
    /\ assignment[v] = assignment[w]
    => v = w

(* The comment at the snapshot: "these are exactly the neighbors that will  *)
(* be already colored when we pop" the value.  When a value is popped, its  *)
(* snapshot is the set of its neighbours that have left the stack again.    *)
SnapshotExact ==
  Selecting => neighborSnapshot[Top] = input.interference[Top] \ OnStack

(* When run() returns, every value of the graph has a location.             *)
AllPlacedWhenDone == Done => DOMAIN input.interference \subseteq Placed

(* A value is taken off the stack only under pressure: it belongs to a set  *)
(* of values each of which interferes with StackReach others of the set.    *)
SpillOnlyInCore ==
  \A v \in Placed : ~IsStack(assignment[v]) =>
    \E core \in SUBSET DOMAIN input.interference :
      /\ v \in core
      /\ \A w \in core :
           Cardinality(input.interference[w] \cap core) >= StackReach

(* On the graphs of functions, which are chordal, spilling has a simpler    *)
(* cause: a value is taken off the stack only if StackReach + 1 values are  *)
(* live at once, that is, interfere pairwise.                               *)
SpillOnlyUnderPressure ==
  (\E v \in Placed : ~IsStack(assignment[v])) /\ Chordal(input.interference) =>
    \E clique \in SUBSET DOMAIN input.interference :
      /\ Cardinality(clique) = StackReach + 1
      /\ \A v, w \in clique : v # w => w \in input.interference[v]

(* Memory grows by one word for each spilled value and by nothing else.     *)
WordPerSpill == memAllocator.nextOffset = WordSize * Cardinality(Spilled)

(* Once a word has been freed no value is given memory any more: the free   *)
(* list never shrinks and, if it is not empty, the high-water mark stays.   *)
NoAllocationAfterFree ==
  [][/\ Len(memAllocator'.freeList) >= Len(memAllocator.freeList)
     /\ hasFreeSlots(memAllocator) => Spilled' = Spilled]_vars

(* A location, once given, is final: popping a value that was spilled does  *)
(* not colour it, and a coloured value is never spilled later.              *)
LocationsAreFinal ==
  [][\A v \in Placed : assignment'[v] = assignment[v]]_vars

(* run() returns: the first loop always finds a value to remove (the assert *)
(* on lower_spill_cost), the second always finds a free colour.             *)
Terminates == <>Done

(* run() implements the abstract allocation of locations.                   *)
Alloc == INSTANCE LocationAssignment WITH
  MemOffsets   <- WordOffsets,
  interference <- input.interference,
  recomputable <- input.recomputable

ImplementsLocationAssignment == Alloc!Spec
=============================================================================
