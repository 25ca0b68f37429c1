---------------------------- MODULE ValueLocation ----------------------------
(***************************************************************************)
(* ValueLocation (StackAllocation/StackAllocator.h): where a value lives.   *)
(* The DenseMap from values to locations is a total function here, absent   *)
(* keys mapped to Unassigned.  RecomputeLoc carries the defining operation, *)
(* which the value determines, so it is left out.                           *)
(***************************************************************************)
EXTENDS Naturals

Unassigned         == [kind |-> "unassigned"]
StackLoc(color)    == [kind |-> "stack", color |-> color]
SpilledLoc(offset) == [kind |-> "spilled", memOffset |-> offset]
RecomputeLoc       == [kind |-> "recompute"]

Assigned(loc)    == loc.kind # "unassigned"
IsStack(loc)     == loc.kind = "stack"
IsSpilled(loc)   == loc.kind = "spilled"
IsRecompute(loc) == loc.kind = "recompute"

StackLocs(Colors)    == {StackLoc(c) : c \in Colors}
SpilledLocs(Offsets) == {SpilledLoc(o) : o \in Offsets}
=============================================================================
