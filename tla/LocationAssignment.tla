-------------------------- MODULE LocationAssignment --------------------------
(***************************************************************************)
(* What the stack allocator promises its caller, without how: the values of *)
(* the interference graph are given locations one at a time, each once and  *)
(* for good; a stack colour is within reach of DUP/SWAP and differs from    *)
(* the colours of the interfering values, a memory word belongs to one      *)
(* value, and only a recomputable value is left without storage.  Every     *)
(* value of the graph is placed in the end.                                 *)
(***************************************************************************)
EXTENDS ValueLocation

CONSTANTS
  Values,       \* the SSA values of the function
  StackReach,   \* how deep DUP and SWAP reach: 16
  MemOffsets    \* the memory words available to spilled values

VARIABLES
  interference, \* the interference graph, never changed
  recomputable, \* the values that can be computed again, never changed
  assignment    \* the location of each value

vars == <<interference, recomputable, assignment>>

Init ==
  /\ interference \in [DOMAIN interference -> SUBSET DOMAIN interference]
  /\ DOMAIN interference \subseteq Values
  /\ recomputable \subseteq Values
  /\ assignment = [v \in Values |-> Unassigned]

PlaceOnStack(v) ==
  \E c \in 0..(StackReach - 1) :
    /\ \A w \in interference[v] : assignment[w] # StackLoc(c)
    /\ assignment' = [assignment EXCEPT ![v] = StackLoc(c)]

PlaceInMemory(v) ==
  \E offset \in MemOffsets :
    /\ \A w \in Values : assignment[w] # SpilledLoc(offset)
    /\ assignment' = [assignment EXCEPT ![v] = SpilledLoc(offset)]

LeaveToRecompute(v) ==
  /\ v \in recomputable
  /\ assignment' = [assignment EXCEPT ![v] = RecomputeLoc]

Place(v) ==
  /\ assignment[v] = Unassigned
  /\ PlaceOnStack(v) \/ PlaceInMemory(v) \/ LeaveToRecompute(v)
  /\ UNCHANGED <<interference, recomputable>>

Next == \E v \in DOMAIN interference : Place(v)

SafeSpec == Init /\ [][Next]_vars

(* Something is placed as long as something can be. *)
Spec == SafeSpec /\ WF_vars(Next)
=============================================================================
