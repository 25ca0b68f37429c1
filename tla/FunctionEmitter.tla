---------------------------- MODULE FunctionEmitter ----------------------------
(***************************************************************************)
(* How EVMEmitter (CodeGen/EVMEmitter.cpp) emits the operations of a        *)
(* function: it brings the operands of each operation to the top of the     *)
(* stack, as far as it can, following the values' locations and its own     *)
(* record of what is on the stack.                                          *)
(*                                                                          *)
(* An operation is a record as in LivenessInfo, with its name:              *)
(*   constant     arith.constant, with its value                            *)
(*   cf.br        with the block it goes to                                 *)
(*   cf.cond_br   with a block and a number of arguments for each outcome;  *)
(*                the condition is the first operand                        *)
(*   func.call    with the entry label of the callee and its results in     *)
(*                order                                                     *)
(*   func.return                                                            *)
(*   any other    as in OpcodeMapper                                        *)
(* Blocks are numbered in reverse post-order, the order of emission.        *)
(*                                                                          *)
(* What the emitter changes is one record: the stream, the tracker, and     *)
(* whether pop() has been called on an empty tracker, which is undefined.   *)
(***************************************************************************)
EXTENDS BytecodeStream, StackTracker, LivenessInfo, ValueLocation, OpcodeMapper

Emitter(stream) ==
  [stream |-> stream, stackTracker |-> NewTracker, undefined |-> FALSE]

(* stackTracker.reset(), at the start of a function. *)
ResetTracker(emitter) == [emitter EXCEPT !.stackTracker = NewTracker]

Write(emitter, instrs) == [emitter EXCEPT !.stream = emitAll(@, instrs)]

Push(emitter, v) == [emitter EXCEPT !.stackTracker = trackerPush(@, v)]

Pop(emitter) ==
  IF emitter.stackTracker = <<>> THEN [emitter EXCEPT !.undefined = TRUE]
  ELSE [emitter EXCEPT !.stackTracker = trackerPop(@)]

(* Variant of PopOperands that pops once, whatever the number of operands. *)
popOnce(emitter, op) == IF op.operands = <<>> THEN emitter ELSE Pop(emitter)

(* One pop() for each operand. *)
PopOperands(emitter, op) ==
  LET left == Len(emitter.stackTracker) - Len(op.operands)
  IN  [emitter EXCEPT !.stackTracker = SubSeq(@, 1, left),
                      !.undefined = @ \/ left < 0]

(* What emission reads: the function's kind, visibility and body, the label *)
(* of its first block, and the locations of its values.                     *)
Unit(func, firstLabel, layout) ==
  [kind |-> func.kind, visibility |-> func.visibility, body |-> func.body,
   firstLabel |-> firstLabel, layout |-> layout]

(* Before anything is emitted, all blocks of all functions get their labels *)
(* in order.                                                                *)
BlocksBefore(functions, f) ==
  Cardinality(UNION {{g} \X (1..Len(functions[g].body)) : g \in 1..(f - 1)})

Labelled(functions) ==
  [NewStream EXCEPT !.nextLabelID = BlocksBefore(functions, Len(functions) + 1)]

EntryLabel(functions, f) == BlocksBefore(functions, f)

UnitOf(functions, f, layout) ==
  Unit(functions[f], EntryLabel(functions, f), layout)

BlockLabel(unit, b) == unit.firstLabel + b - 1

OpAt(unit, at) == unit.body[at[1]].ops[at[2]]

Places(unit) ==
  UNION {{b} \X (1..Len(unit.body[b].ops)) : b \in 1..Len(unit.body)}

(* Where the operation is that computes v. *)
DefinedAt(unit, v) == CHOOSE at \in Places(unit) : v \in OpAt(unit, at).results

ValuesOf(functions) == UNION {FunctionValues(functions[f].body) : f \in 1..Len(functions)}

DefiningOp(functions, v) ==
  LET f == CHOOSE g \in 1..Len(functions) : v \in FunctionValues(functions[g].body)
      u == [body |-> functions[f].body]
  IN  OpAt(u, DefinedAt(u, v))

LastOp(block) == block.ops[Len(block.ops)]

(* The value that a call of the function returns for one of its results. *)
ReturnedFor(functions, op, result) ==
  LET callee == CHOOSE f \in 1..Len(functions) : EntryLabel(functions, f) = op.callee
      k      == CHOOSE i \in 1..Len(op.returns) : op.returns[i] = result
  IN  LastOp(functions[callee].body[1]).operands[k]

(* The operation that computes v, or that v is an argument. *)
DefinerIn(unit, v) ==
  IF \E b \in 1..Len(unit.body) : v \in OpDefs(unit.body[b])
  THEN OpAt(unit, DefinedAt(unit, v)) ELSE [name |-> "argument"]

OpcodeOf(unit, op) ==
  getOpcode(op, [k \in 1..Len(op.operands) |-> DefinerIn(unit, op.operands[k])])

-----------------------------------------------------------------------------
(* Operands. *)

(* A value on the stack.  It is copied if it is needed again and not on     *)
(* top; otherwise it is left where it is.                                   *)
emitStackValue(unit, emitter, v, at) ==
  LET depth == findDepth(emitter.stackTracker, v)
  IN  IF depth > 0 /\ ~isDeadAfter(unit.body, at[1], at[2], v)
      THEN Write([emitter EXCEPT !.stackTracker = trackerDup(@, depth)],
                 <<OpcodeInstr(DUP1 + depth)>>)
      ELSE emitter

emitSpilledValue(emitter, v, offset) ==
  Push(Write(emitter, <<PushInstr(offset), OpcodeInstr(MLOAD)>>), v)

(* The result of an operation: stored if it is spilled.  The SWAP puts the  *)
(* value where MSTORE takes the address from.                               *)
emitResult(unit, emitter, result) ==
  LET loc == unit.layout[result]
  IN  IF IsSpilled(loc)
      THEN Write(emitter, <<PushInstr(loc.memOffset), OpcodeInstr(SWAP1),
                            OpcodeInstr(MSTORE)>>)
      ELSE Push(emitter, result)

(* The opcode of an operation whose operands have been scheduled. *)
emitOpcode(unit, emitter, op) ==
  LET opcode  == OpcodeOf(unit, op)
      written == PopOperands(Write(emitter, <<OpcodeInstr(Opcode[opcode])>>), op)
  IN  CASE opcode = NoOpcode -> emitter
        [] opcode # NoOpcode /\ op.results = {} -> written
        [] opcode # NoOpcode /\ op.results # {} ->
             emitResult(unit, written, CHOOSE r \in op.results : TRUE)

(* Variant of operandOrder that takes the first operand first. *)
operandsInOrder(op) == op.operands

(* The order in which scheduleOperands() brings operands: the last first. *)
operandOrder(op) == Reverse(op.operands)

(* emitValue() and emitRecompute() call each other.  Which values they      *)
(* bring to the top and which operations they emit again, one step after    *)
(* the other, does not depend on the emitter.                               *)
Bring(v, at)  == [does |-> "bring", value |-> v, at |-> at]
EmitAgain(at) == [does |-> "emit", at |-> at]

Recomputed(unit) ==
  {v \in FunctionValues(unit.body) : IsRecompute(unit.layout[v])}

(* The steps that bring a value which is needed at a place; again has those *)
(* of the values that are computed again.                                   *)
valueSteps(unit, again, v, at) ==
  IF IsRecompute(unit.layout[v]) THEN again[v] ELSE <<Bring(v, at)>>

allSteps(unit, again, values, at) ==
  FlattenSeq([k \in 1..Len(values) |-> valueSteps(unit, again, values[k], at)])

(* An operation computed again asks for its operands as dead or live as     *)
(* they are where it stands, not where its result is needed.                *)
emitRecompute(unit) ==
  LET again[v \in Recomputed(unit)] ==
        LET at == DefinedAt(unit, v)
        IN  allSteps(unit, again, operandOrder(OpAt(unit, at)), at)
            \o <<EmitAgain(at)>>
  IN  again

(* emitValue(), but for what is computed again. *)
emitHeld(unit, emitter, v, at) ==
  LET loc == unit.layout[v]
  IN  CASE IsStack(loc)   -> emitStackValue(unit, emitter, v, at)
        [] IsSpilled(loc) -> emitSpilledValue(emitter, v, loc.memOffset)
        [] OTHER          -> emitter

emitStep(unit, emitter, step) ==
  IF step.does = "emit" THEN emitOpcode(unit, emitter, OpAt(unit, step.at))
  ELSE emitHeld(unit, emitter, step.value, step.at)

emitSteps(unit, emitter, steps) ==
  LET after[n \in 0..Len(steps)] ==
        IF n = 0 THEN emitter ELSE emitStep(unit, after[n - 1], steps[n])
  IN  after[Len(steps)]

(* emitValue() for each of some values. *)
emitValues(unit, emitter, values, at) ==
  emitSteps(unit, emitter, allSteps(unit, emitRecompute(unit), values, at))

scheduleOperands(unit, emitter, op, at) ==
  emitValues(unit, emitter, operandOrder(op), at)

-----------------------------------------------------------------------------
(* Operations. *)

(* A constant is pushed wherever its location says it lives. *)
emitConstant(emitter, op) ==
  Write(Push(emitter, CHOOSE r \in op.results : TRUE), <<PushInstr(op.value)>>)

emitJumpWith(unit, emitter, values, at, b, jump) ==
  Write(emitValues(unit, emitter, values, at),
        <<LabelRefInstr(BlockLabel(unit, b)), OpcodeInstr(jump)>>)

emitBranch(unit, emitter, op, at) ==
  emitJumpWith(unit, emitter, op.operands, at, op.dest, JUMP)

emitCondBranch(unit, emitter, op, at) ==
  LET arguments == Tail(op.operands)
      condition == emitValues(unit, emitter, <<Head(op.operands)>>, at)
      taken     == emitJumpWith(unit, condition, SubSeq(arguments, 1, op.trueArgs),
                                at, op.trueDest, JUMPI)
  IN  emitJumpWith(unit, taken,
                   SubSeq(arguments, op.trueArgs + 1, Len(arguments)),
                   at, op.falseDest, JUMP)

(* The arguments stay on the tracker, under the results. *)
emitCall(unit, emitter, op, at) ==
  LET scheduled == scheduleOperands(unit, emitter, op, at)
      retLabel  == createdLabel(scheduled.stream)
      returned  == Write([scheduled EXCEPT !.stream = createLabel(@)],
                     <<LabelRefInstr(retLabel), LabelRefInstr(op.callee),
                       OpcodeInstr(JUMP), LabelDefInstr(retLabel),
                       OpcodeInstr(JUMPDEST)>>)
  IN  [returned EXCEPT !.stackTracker = @ \o op.returns]

(* Stores n values, the last of them, which is on top, at the end. *)
StoreResults(n) ==
  [k \in 1..(2 * n) |-> IF k % 2 = 1 THEN PushInstr(32 * (n - 1 - k \div 2))
                        ELSE OpcodeInstr(MSTORE)]

(* Exchanges the last of n results with the return label below them. *)
SwapReturnLabel(n) == IF n = 0 THEN <<>> ELSE <<OpcodeInstr(SWAP1 + n - 1)>>

(* The operands of a constructor's return are ignored; an internal function *)
(* jumps back to its caller; an external one returns its values to the      *)
(* caller of the contract.                                                  *)
emitReturn(unit, emitter, op, at) ==
  LET n         == Len(op.operands)
      scheduled == emitValues(unit, emitter, op.operands, at)
  IN  CASE unit.kind = "constructor" -> emitter
        [] unit.kind # "constructor" /\ unit.visibility = "internal" ->
             Write(scheduled, SwapReturnLabel(n) \o <<OpcodeInstr(JUMP)>>)
        [] unit.kind # "constructor" /\ unit.visibility = "external" ->
             PopOperands(
               Write(scheduled, StoreResults(n) \o
                       <<PushInstr(32 * n), PushInstr(0), OpcodeInstr(RETURN)>>),
               op)

emitOp(unit, emitter, at) ==
  LET op == OpAt(unit, at)
  IN  CASE op.name = "cf.br"       -> emitBranch(unit, emitter, op, at)
        [] op.name = "cf.cond_br"  -> emitCondBranch(unit, emitter, op, at)
        [] op.name = "func.return" -> emitReturn(unit, emitter, op, at)
        [] op.name = "constant"    -> emitConstant(emitter, op)
        [] op.name = "func.call"   -> emitCall(unit, emitter, op, at)
        [] OTHER                   ->
             emitOpcode(unit, scheduleOperands(unit, emitter, op, at), op)

emitOps(unit, emitter, b) ==
  FoldLeft(LAMBDA e, i : emitOp(unit, e, <<b, i>>), emitter,
           [i \in 1..Len(unit.body[b].ops) |-> i])

markBlock(unit, emitter, b) ==
  Write(emitter, <<LabelDefInstr(BlockLabel(unit, b)), OpcodeInstr(JUMPDEST)>>)

emitBlock(unit, emitter, b) == emitOps(unit, markBlock(unit, emitter, b), b)

emitFunction(unit, emitter) ==
  FoldLeft(LAMBDA e, b : emitBlock(unit, e, b), ResetTracker(emitter),
           [b \in 1..Len(unit.body) |-> b])
=============================================================================
