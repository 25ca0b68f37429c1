------------------------- MODULE InterferenceBuilder -------------------------
(***************************************************************************)
(* The constructor of InterferenceGraph (Analysis/InterferenceGraph.cpp):   *)
(* one backward scan over the function that keeps the set of live values    *)
(* and adds an edge between every value and the values live where it is     *)
(* defined.  Each operation and each block argument is one step.            *)
(***************************************************************************)
EXTENDS LivenessReference, InterferenceGraph

CONSTANT Funcs   \* the functions the graph is built for

ASSUME FunctionsAssumption == \A fn \in Funcs : IsSSA(fn)

ASSUME DominanceAssumption ==
  \A fn \in Funcs : EveryBlockReached(fn) /\ UsesDominated(fn)

VARIABLES
  func,       \* the function, never changed
  block,      \* the block being scanned; blocks are taken last to first
  opsLeft,    \* how many of its operations, from the first, remain
  argsDone,   \* how many of its arguments have been visited
  liveNow,    \* the values live at this place of the scan
  adjacency   \* the graph built so far

vars == <<func, block, opsLeft, argsDone, liveNow, adjacency>>

Init ==
  /\ func \in Funcs
  /\ block = Len(func)
  /\ opsLeft = Len(func[block].ops)
  /\ argsDone = 0
  /\ liveNow = getLiveOut(func, block)
  /\ adjacency = EmptyGraph

(* Variant of VisitOp that leaves the results live. *)
keepResultsLive ==
  /\ opsLeft > 0
  /\ LET op   == func[block].ops[opsLeft]
         live == liveNow \cup Uses(op)
     IN  /\ adjacency' = connect(adjacency, op.results, live)
         /\ liveNow' = live
  /\ opsLeft' = opsLeft - 1
  /\ UNCHANGED <<func, block, argsDone>>

VisitOp ==
  /\ opsLeft > 0
  /\ LET op   == func[block].ops[opsLeft]
         live == liveNow \cup Uses(op)
     IN  /\ adjacency' = connect(adjacency, op.results, live)
         /\ liveNow' = live \ op.results
  /\ opsLeft' = opsLeft - 1
  /\ UNCHANGED <<func, block, argsDone>>

(* Variant of VisitArg that takes the argument out without connecting it. *)
dropArg ==
  /\ opsLeft = 0
  /\ argsDone < Len(func[block].args)
  /\ liveNow' = liveNow \ {func[block].args[argsDone + 1]}
  /\ argsDone' = argsDone + 1
  /\ UNCHANGED <<func, block, opsLeft, adjacency>>

(* An argument is connected to what is live and then is no longer live, so  *)
(* of two arguments the first one sees the second but not the reverse: two  *)
(* arguments are connected if the later one is used.                        *)
VisitArg ==
  /\ opsLeft = 0
  /\ argsDone < Len(func[block].args)
  /\ LET arg == func[block].args[argsDone + 1]
     IN  /\ adjacency' = connect(adjacency, {arg}, liveNow)
         /\ liveNow' = liveNow \ {arg}
  /\ argsDone' = argsDone + 1
  /\ UNCHANGED <<func, block, opsLeft>>

BlockDone == opsLeft = 0 /\ argsDone = Len(func[block].args)

(* Variant of NextBlock that carries the live values over from the block    *)
(* scanned before.                                                          *)
keepLiveNow ==
  /\ BlockDone
  /\ block > 1
  /\ block' = block - 1
  /\ opsLeft' = Len(func[block'].ops)
  /\ argsDone' = 0
  /\ UNCHANGED <<func, liveNow, adjacency>>

NextBlock ==
  /\ BlockDone
  /\ block > 1
  /\ block' = block - 1
  /\ opsLeft' = Len(func[block'].ops)
  /\ argsDone' = 0
  /\ liveNow' = getLiveOut(func, block')
  /\ UNCHANGED <<func, adjacency>>

Built == BlockDone /\ block = 1

Finished == Built /\ UNCHANGED vars

Next ==
  \/ VisitOp
  \/ VisitArg
  \/ NextBlock
  \/ Finished

Spec == Init /\ [][Next]_vars /\ WF_vars(Next)

-----------------------------------------------------------------------------
(* Properties. *)

(* The place the scan has reached, as a point of the function. *)
Here == <<block, opsLeft + 1>>

VisitedArgs == {func[block].args[k] : k \in 1..argsDone}

(* Type correctness.  At every moment of the scan the edges so far form an  *)
(* interference graph: both directions are present and no value is its own  *)
(* neighbour, even for an operation with several results.                   *)
TypeOK ==
  /\ func \in Funcs
  /\ block \in 1..Len(func)
  /\ opsLeft \in 0..Len(func[block].ops)
  /\ argsDone \in 0..Len(func[block].args)
  /\ liveNow \subseteq FunctionValues(func)
  /\ DOMAIN adjacency \subseteq FunctionValues(func)
  /\ IsInterferenceGraph(adjacency)

(* The scan's set of live values, started from the fixed point and updated  *)
(* operation by operation, is the set of values live along paths from here. *)
LiveNowExact == liveNow = LiveAt(func, Here) \ VisitedArgs

(* Values that are live at one and the same point of the function are       *)
(* connected, whichever blocks they come from.                              *)
EdgesComplete ==
  Built => \A p \in Points(func) :
             \A v, w \in LiveAt(func, p) : v # w => w \in Entry(adjacency, v)

(* No edge is there without a reason: one of its two values is live where   *)
(* the other is defined.                                                    *)
EdgesJustified ==
  Built => LET reasons == LiveAtDefinition(func)
           IN  \A v \in DOMAIN adjacency : \A w \in adjacency[v] :
                 <<v, w>> \in reasons \/ <<w, v>> \in reasons

(* A value without neighbours has no entry, and so gets no location later.  *)
(* The graph's tests state it: such values "don't appear in the graph".     *)
NoIsolatedNodes == \A v \in DOMAIN adjacency : adjacency[v] # {}

(* Live ranges of SSA values are subtrees of the dominator tree, so the     *)
(* graph is chordal.  This is why a value is spilled only where more values *)
(* are live than the stack reaches.                                         *)
BuiltGraphChordal == Built => Chordal(adjacency)
=============================================================================
