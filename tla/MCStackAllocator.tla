-------------------------- MODULE MCStackAllocator --------------------------
(***************************************************************************)
(* Small allocation problems for StackAllocator.  Function values are       *)
(* numbers so that use counts and deadness can be derived from them.        *)
(***************************************************************************)
EXTENDS StackAllocator

FourValues == 1..4
FiveValues == 1..5

(* The graph with the given edges; a value without edges has no entry, as   *)
(* in the graphs the InterferenceGraph constructor builds.                  *)
GraphOf(edges) ==
  [v \in UNION edges |-> {w \in UNION edges : w # v /\ {v, w} \in edges}]

Edges(S) == {{v, w} : v, w \in S} \ {{v} : v \in S}

(* The interference graph of an SSA function is chordal (BuiltGraphChordal *)
(* of InterferenceBuilder).                                                 *)
ChordalGraphs(S) == {g \in {GraphOf(E) : E \in SUBSET Edges(S)} : Chordal(g)}

(* Use counts: a clear order of spill costs, and ties everywhere. *)
Rising  == [v \in Values |-> 4 * v]
Uniform == [v \in Values |-> 1]

(* Deadness: nothing dies, and values die in the order of their numbers. *)
NeverDead == [v \in Values |-> {}]
DeadInOrder == [v \in Values |-> {w \in Values : w < v}]
AllDead == [v \in Values |-> Values \ {v}]

Problems(graphs, counts, recomputables, deads) ==
  [interference : graphs, useCounts : counts, recomputable : recomputables,
   deadAt : deads]

FourValueProblems ==
  Problems(ChordalGraphs(FourValues), {Rising, Uniform},
           {{}, {1, 3}, FourValues}, {NeverDead, DeadInOrder, AllDead})

(* Here several values are spilled one after the other. *)
FiveValueProblems ==
  Problems(ChordalGraphs(FiveValues), {Rising}, {{2}}, {DeadInOrder})

SmallProblems == FourValueProblems \cup FiveValueProblems
=============================================================================
