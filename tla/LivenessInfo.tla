----------------------------- MODULE LivenessInfo -----------------------------
(***************************************************************************)
(* LivenessInfo (Analysis/LivenessInfo.{h,cpp}): use counts, and MLIR's     *)
(* liveness analysis behind it, for a function given as a value.            *)
(*                                                                          *)
(* A function is a sequence of blocks; the first one is the entry block.  A *)
(* block is a record                                                        *)
(*   args  the block arguments, in order                                    *)
(*   ops   the operations, in order, each a record of the set of its        *)
(*         results and the sequence of its operands                         *)
(*   succs the indices of the successor blocks                              *)
(* Operations carry no nested regions here: scf is lowered to cf first.     *)
(***************************************************************************)
EXTENDS Naturals, Sequences, FiniteSets

Uses(op)         == {op.operands[k] : k \in 1..Len(op.operands)}
Arguments(block) == {block.args[k] : k \in 1..Len(block.args)}

OpUses(block) == UNION {Uses(block.ops[i]) : i \in 1..Len(block.ops)}
OpDefs(block) == UNION {block.ops[i].results : i \in 1..Len(block.ops)}
Defs(block)   == Arguments(block) \cup OpDefs(block)

FunctionValues(fn) == UNION {Defs(fn[b]) : b \in 1..Len(fn)}

-----------------------------------------------------------------------------
(* mlir::Liveness.  A value used outside its block starts live-out of it;   *)
(* live-in sets are then passed to the predecessors until nothing changes.  *)

InitialLiveOut(fn) ==
  [b \in 1..Len(fn) |->
     {v \in Defs(fn[b]) : \E c \in 1..Len(fn) \ {b} : v \in OpUses(fn[c])}]

LiveInGiven(block, out) == (OpUses(block) \cup out) \ Defs(block)

PassToPredecessors(fn, outs) ==
  [b \in 1..Len(fn) |->
     outs[b] \cup UNION {LiveInGiven(fn[s], outs[s]) : s \in fn[b].succs}]

LiveOuts(fn) ==
  LET settled[outs \in [1..Len(fn) -> SUBSET FunctionValues(fn)]] ==
        LET more == PassToPredecessors(fn, outs)
        IN  IF more = outs THEN outs ELSE settled[more]
  IN  settled[InitialLiveOut(fn)]

getLiveOut(fn, b) == LiveOuts(fn)[b]

getLiveIn(fn, b) == LiveInGiven(fn[b], getLiveOut(fn, b))

(* isDeadAfter(v, op) for the i-th operation of block b: v does not leave   *)
(* the block and no later operation of the block uses it.                   *)
isDeadAfter(fn, b, i, v) ==
  /\ v \notin getLiveOut(fn, b)
  /\ \A j \in (i + 1)..Len(fn[b].ops) : v \notin Uses(fn[b].ops[j])

-----------------------------------------------------------------------------
(* The constructor's walk counts an operand once for each of its places. *)
UsePlaces(fn, v) ==
  UNION {UNION {{<<b, i, k>> : k \in {j \in 1..Len(fn[b].ops[i].operands) :
                                        fn[b].ops[i].operands[j] = v}}
                  : i \in 1..Len(fn[b].ops)}
           : b \in 1..Len(fn)}

getUseCount(fn, v) == Cardinality(UsePlaces(fn, v))
=============================================================================
