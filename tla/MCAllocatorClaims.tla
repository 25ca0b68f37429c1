-------------------------- MODULE MCAllocatorClaims --------------------------
(***************************************************************************)
(* A statement that a test makes about the allocator, checked on an         *)
(* allocation problem on which run() need not do what is stated.            *)
(***************************************************************************)
EXTENDS StackAllocator

Problem(graph0, counts) ==
  [interference |-> graph0, useCounts |-> counts, recomputable |-> {},
   deadAt |-> [v \in Values |-> {}]]

(***************************************************************************)
(* The function of the test SpillCostHeuristic_LowUsageSpilledFirst with as *)
(* many constants as the stack holds and one more (the test has 17): all    *)
(* constants are added up, constants[1] twice.  1..N are the constants,     *)
(* N + k is the k-th sum, defined where it, the constants not added yet and *)
(* constant 2 are live.                                                     *)
(***************************************************************************)
N == StackReach + 1

HeuristicValues == 1..(2 * N)

Sum(k) == N + k

OperandsAndLiveAt(k) ==
  IF k = 1 THEN 1..N ELSE {Sum(k - 1), 2} \cup ((k + 1)..N)

Interfering(v, w) ==
  \/ v # w /\ v \in 1..N /\ w \in 1..N
  \/ \E k \in 1..N : v = Sum(k) /\ w \in OperandsAndLiveAt(k)

HeuristicProblem ==
  Problem([v \in HeuristicValues |->
             {w \in HeuristicValues : Interfering(v, w) \/ Interfering(w, v)}],
          [v \in HeuristicValues |-> IF v = 2 THEN 2 ELSE 1])

HeuristicInputs == {HeuristicProblem}

(* The test's words about constants[0] and constants[1], used once and      *)
(* twice: "consts[1] should NOT be the sole non-stack value while consts[0] *)
(* gets a stack location".  spill_cost divides integers, so both cost 0 and *)
(* the order of a DenseMap decides.                                         *)
HigherUsageNotSpilledInstead ==
  Done => ~(~IsStack(assignment[2]) /\ IsStack(assignment[1]))

=============================================================================
