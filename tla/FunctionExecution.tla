--------------------------- MODULE FunctionExecution ---------------------------
(***************************************************************************)
(* A contract's functions, emitted one operation at a time by EVMEmitter    *)
(* and then run.  The first function is external and is the one that is     *)
(* called; it may call the others, which are internal.                      *)
(*                                                                          *)
(* A program is a record of the functions and of the locations of their     *)
(* values.                                                                  *)
(***************************************************************************)
EXTENDS FunctionEmitter, StackMachine, EVMOps

LOCAL INSTANCE Functions      \* Range

CONSTANT Programs   \* the programs that are emitted

-----------------------------------------------------------------------------
(* What MLIR has verified of a program when it is emitted, and which        *)
(* programs this module is about.                                           *)

Terminators ==
  {"cf.br", "cf.cond_br", "func.return", "stop", "return", "revert", "invalid",
   "selfdestruct"}

CallPlaces(functions) ==
  UNION {UNION {{<<f, b, i>> : i \in {j \in 1..Len(functions[f].body[b].ops) :
                                       functions[f].body[b].ops[j].name = "func.call"}}
                  : b \in 1..Len(functions[f].body)}
           : f \in 1..Len(functions)}

(* The branches of the operation lead to blocks of its function; a call is  *)
(* one of an internal function, and gives what each return of it returns.   *)
GoesSomewhere(functions, f, op) ==
  LET blocks == 1..Len(functions[f].body)
  IN  /\ op.name = "cf.br" => op.dest \in blocks
      /\ op.name = "cf.cond_br" =>
           /\ op.trueDest \in blocks /\ op.falseDest \in blocks
           /\ op.operands # <<>> /\ op.trueArgs \in 0..(Len(op.operands) - 1)
      /\ op.name = "func.call" =>
           /\ op.returns \in Seq(FunctionValues(functions[f].body))
           /\ \E g \in 2..Len(functions) :
                /\ op.callee = EntryLabel(functions, g)
                /\ \A b \in 1..Len(functions[g].body) :
                     LET last == LastOp(functions[g].body[b])
                     IN  last.name = "func.return" => Len(last.operands) = Len(op.returns)

(* Each operation uses values of its function; the last one of a block, and *)
(* no other, is a terminator.                                               *)
BlockVerified(functions, f, b) ==
  LET ops == functions[f].body[b].ops
  IN  /\ Len(ops) \in Nat \ {0}
      /\ \A i \in 1..Len(ops) :
           /\ ops[i].operands \in Seq(FunctionValues(functions[f].body))
           /\ ops[i].name \in Terminators <=> i = Len(ops)
           /\ ops[i].name \in Terminators => ops[i].results = {}
           /\ ops[i].name = "constant" => ops[i].operands = <<>> /\ ops[i].results # {}
           /\ GoesSomewhere(functions, f, ops[i])

Before(place, other) ==
  \/ place[1] < other[1]
  \/ place[1] = other[1] /\ place[2] < other[2]

(* A value that is computed again is the result of an operation, and those  *)
(* that are computed again for it stand before it.                          *)
RecomputationEnds(unit) ==
  \A v \in Recomputed(unit) :
    /\ \E at \in Places(unit) : v \in OpAt(unit, at).results
    /\ \A u \in Uses(OpAt(unit, DefinedAt(unit, v))) \cap Recomputed(unit) :
         Before(DefinedAt(unit, u), DefinedAt(unit, v))

FunctionVerified(functions, f, layout) ==
  /\ functions[f].kind # "constructor"
  /\ functions[f].visibility = IF f = 1 THEN "external" ELSE "internal"
  /\ Len(functions[f].body) \in Nat \ {0}
  /\ \A b \in 1..Len(functions[f].body) : BlockVerified(functions, f, b)
  /\ RecomputationEnds(UnitOf(functions, f, layout))

(* Labels have 16 bits. *)
Verified(p) ==
  /\ Len(p.functions) \in Nat \ {0}
  /\ \A f \in 1..Len(p.functions) : FunctionVerified(p.functions, f, p.layout)
  /\ BlocksBefore(p.functions, Len(p.functions) + 1)
       + Cardinality(CallPlaces(p.functions)) < LabelCount

ASSUME ProgramsAssumption == \A p \in Programs : Verified(p)

-----------------------------------------------------------------------------
VARIABLES
  program,   \* the program, never changed
  at,        \* the next operation: function, block, operation
  emitter,   \* the emitter
  emittedAt, \* history: for each operation, the first and the last of its
             \* instructions, and the tracker before and after its emission
  path       \* history: the labels that the machine has passed, in order

emissionVars == <<program, at, emitter, emittedAt>>
vars == <<emissionVars, machineVars, path>>

Functions == program.functions

UnitAt(f) == UnitOf(Functions, f, program.layout)

Init ==
  /\ program \in Programs
  /\ at = <<1, 1, 0>>
  /\ emitter = Emitter(Labelled(program.functions))
  /\ emittedAt = [place \in {} |-> 0]
  /\ path = <<>>
  /\ MachineIdle

Emitting == at[1] <= Len(Functions)

(* The block's label and JUMPDEST; the tracker is reset for a function.     *)
BeginBlock ==
  /\ Emitting
  /\ at[3] = 0
  /\ emitter' = markBlock(UnitAt(at[1]),
                          IF at[2] = 1 THEN ResetTracker(emitter) ELSE emitter,
                          at[2])
  /\ at' = <<at[1], at[2], 1>>
  /\ UNCHANGED <<program, emittedAt, machineVars, path>>

EmitOp ==
  /\ Emitting
  /\ at[3] \in 1..Len(Functions[at[1]].body[at[2]].ops)
  /\ emitter' = emitOp(UnitAt(at[1]), emitter, <<at[2], at[3]>>)
  /\ at' = <<at[1], at[2], at[3] + 1>>
  /\ emittedAt' = [place \in DOMAIN emittedAt \cup {at} |->
                     IF place = at
                     THEN [start |-> Len(emitter.stream.instructions) + 1,
                           end |-> Len(emitter'.stream.instructions),
                           tracker |-> emitter.stackTracker,
                           after |-> emitter'.stackTracker]
                     ELSE emittedAt[place]]
  /\ UNCHANGED <<program, machineVars, path>>

EndBlock ==
  /\ Emitting
  /\ at[3] > Len(Functions[at[1]].body[at[2]].ops)
  /\ at' = IF at[2] < Len(Functions[at[1]].body) THEN <<at[1], at[2] + 1, 0>>
           ELSE <<at[1] + 1, 1, 0>>
  /\ UNCHANGED <<program, emitter, emittedAt, machineVars, path>>

Code == emitter.stream.instructions

(* The emitter has returned; what it does after a pop() of an empty tracker *)
(* is undefined, and nothing is said about it.                              *)
Call ==
  /\ ~Emitting
  /\ ~emitter.undefined
  /\ StartAt(Code, 0)
  /\ path' = <<0>>
  /\ UNCHANGED emissionVars

Run ==
  /\ RunInstruction(Code)
  /\ path' = IF pc' # pc /\ Code[pc'].kind = "labelDef"
             THEN Append(path, Code[pc'].label) ELSE path
  /\ UNCHANGED emissionVars

Over ==
  /\ ~Emitting
  /\ emitter.undefined \/ outcome \notin {"waiting", "running"}
  /\ UNCHANGED vars

Next ==
  \/ BeginBlock
  \/ EmitOp
  \/ EndBlock
  \/ Call
  \/ Run
  \/ Over

Spec == Init /\ [][Next]_vars

-----------------------------------------------------------------------------
(* What the functions mean. *)

ControlOps == {"cf.br", "cf.cond_br", "func.call", "func.return"}

IsPlain(op) == op.name \notin ControlOps \cup {"constant"}

(* What is passed for the k-th argument of block b. *)
PassedTo(op, b, k) ==
  CASE op.name = "cf.br" -> op.operands[k]
    [] op.name = "cf.cond_br" /\ op.trueDest = b -> op.operands[1 + k]
    [] op.name = "cf.cond_br" /\ op.trueDest # b -> op.operands[1 + op.trueArgs + k]

(* The block that control has come from to block b of the first function,   *)
(* whose labels are 0, 1, ...                                               *)
CameFrom(b) ==
  LET entered == CHOOSE n \in 1..Len(path) : path[n] = b - 1
      before  == SelectLastInSubSeq(path, 1, entered - 1,
                   LAMBDA l : l < Len(Functions[1].body)
                              /\ b \in Functions[1].body[l + 1].succs)
  IN  path[before] + 1

Definers(op) == [k \in 1..Len(op.operands) |-> DefiningOp(Functions, op.operands[k])]

OpcodeFor(op) == getOpcode(op, Definers(op))

(* The operands that the opcode is for: ISZERO and NOT stand for a          *)
(* comparison with zero and a xor with all ones.                            *)
AppliedTo(op) ==
  LET other(value) ==
        3 - CHOOSE k \in ConstantOperands(Definers(op), value) : TRUE
  IN  CASE OpcodeFor(op) = "ISZERO" -> <<op.operands[other(0)]>>
        [] OpcodeFor(op) = "NOT"    -> <<op.operands[other(AllOnes)]>>
        [] OTHER                    -> op.operands

(* The word a value stands for, on the path that has been taken. *)
Meaning[v \in ValuesOf(Functions)] ==
  IF \E b \in 1..Len(Functions[1].body) : v \in Range(Functions[1].body[b].args)
  THEN LET b == CHOOSE c \in 1..Len(Functions[1].body) :
                  v \in Range(Functions[1].body[c].args)
           k == CHOOSE i \in 1..Len(Functions[1].body[b].args) :
                  Functions[1].body[b].args[i] = v
       IN  Meaning[PassedTo(LastOp(Functions[1].body[CameFrom(b)]), b, k)]
  ELSE LET op == DefiningOp(Functions, v)
       IN  CASE op.name = "constant"  -> Number(op.value)
             [] op.name = "func.call" -> Meaning[ReturnedFor(Functions, op, v)]
             [] IsPlain(op) ->
                  IF OpcodeFor(op) = NoOpcode THEN <<"nothing">>
                  ELSE Apply(Opcode[OpcodeFor(op)],
                             [k \in 1..Len(AppliedTo(op)) |-> Meaning[AppliedTo(op)[k]]])

-----------------------------------------------------------------------------
(* Functions whose values are where the emitter needs them. *)

ComputedAgain(v) == IsRecompute(program.layout[v])

(* On the stack, or computed again by an operation that may be.  (A         *)
(* constant may not: see BytesMissing.)                                     *)
WellPlaced(v) ==
  \/ IsStack(program.layout[v])
  \/ /\ ComputedAgain(v)
     /\ v \in UNION {OpDefs(Functions[1].body[b]) : b \in 1..Len(Functions[1].body)}
     /\ IsPlain(DefiningOp(Functions, v))
     /\ canRecompute(DefiningOp(Functions, v).name)

(* The opcode takes the operands as they are, and gives a word if the       *)
(* operation has a result.                                                  *)
Fits(unit, op) ==
  IsPlain(op) =>
    IF OpcodeOf(unit, op) = NoOpcode THEN op.operands = <<>> /\ op.results = {}
    ELSE LET opcode == Opcode[OpcodeOf(unit, op)]
         IN  /\ Takes(opcode) = Len(op.operands)
             /\ IF op.results = {}
                THEN opcode \in DOMAIN Consumes \cup DOMAIN Ends \cup {MSTORE}
                ELSE opcode \in DOMAIN Computes \cup {MLOAD}

(* v can be brought to the top of the stack, which holds rest and has items *)
(* on top: it is on the stack, but not on top, and needed again after the   *)
(* operation at place; or it is computed again, and its operands can be     *)
(* brought as where it was first computed.                                  *)
CanBring(unit, place, v, items, rest) ==
  LET can[w \in FunctionValues(unit.body), where \in Places(unit),
          s \in Seq(FunctionValues(unit.body))] ==
        IF ComputedAgain(w)
        THEN LET from    == DefinedAt(unit, w)
                 fetched == operandOrder(OpAt(unit, from))
             IN  \A j \in 1..Len(fetched) :
                   can[fetched[j], from, s \o SubSeq(fetched, 1, j - 1)]
        ELSE /\ w \in Range(rest) \cap OpDefs(unit.body[where[1]])
             /\ s # <<>> => w # s[Len(s)]
             /\ ~isDeadAfter(unit.body, where[1], where[2], w)
  IN  can[v, place, items]

(* The stack after an operation, and whether it and all operations before   *)
(* it have found their operands in place.  In place means: the operands     *)
(* used for the last time are the operation's last ones and lie on top, the *)
(* last operand lowest; the others can be brought.  What a call was given   *)
(* stays on the stack, under its results.                                   *)
AfterOp(unit, place, before) ==
  LET op      == OpAt(unit, place)
      n       == Len(op.operands)
      brought == {k \in 1..n :
                    \/ ComputedAgain(op.operands[k])
                    \/ ~isDeadAfter(unit.body, place[1], place[2], op.operands[k])}
      first   == Cardinality(brought)
      dying   == Reverse(SubSeq(op.operands, first + 1, n))
      rest    == SubSeq(before.items, 1, Len(before.items) - Len(dying))
      inPlace == /\ Fits(unit, op)
                 /\ brought = 1..first
                 /\ before.items = rest \o dying
                 /\ \A k \in 1..first :
                      CanBring(unit, place, op.operands[k],
                               rest \o Reverse(SubSeq(op.operands, k + 1, n)), rest)
      results == IF op.name = "func.call" THEN op.returns ELSE SetToSeq(op.results)
      left    == IF op.name = "func.call"
                 THEN before.items \o Reverse(SubSeq(op.operands, 1, first))
                 ELSE rest
  IN  [inPlace |-> before.inPlace /\ inPlace, items |-> left \o results]

EndsInControl(block) == LastOp(block).name \in ControlOps

(* What a block has on the stack in the end, or before it hands on control. *)
AtEnd(unit, b) ==
  LET block == unit.body[b]
      n     == IF EndsInControl(block) THEN Len(block.ops) - 1 ELSE Len(block.ops)
      items == IF b = 1 THEN <<>> ELSE block.args
  IN  FoldLeft(LAMBDA s, i : AfterOp(unit, <<b, i>>, s),
               [inPlace |-> TRUE, items |-> items], [i \in 1..n |-> i])

OnTop(values, items) ==
  LET spare == Len(items) - Len(values)
  IN  spare >= 0 /\ SubSeq(items, spare + 1, Len(items)) = values

(* The values that are returned or passed on are on top in their order; a   *)
(* condition is above those that are passed in either case, and not needed  *)
(* any more.                                                                *)
HandsOn(unit, b, items) ==
  LET last == LastOp(unit.body[b])
      n    == Len(last.operands)
      ifTrue  == SubSeq(last.operands, 2, 1 + last.trueArgs)
      ifFalse == SubSeq(last.operands, 2 + last.trueArgs, n)
  IN  /\ \A k \in 1..n : ~ComputedAgain(last.operands[k])
      /\ IF last.name = "cf.cond_br"
         THEN /\ OnTop(ifTrue \o <<last.operands[1]>>, items)
              /\ OnTop(ifFalse \o <<last.operands[1]>>, items)
              /\ isDeadAfter(unit.body, b, Len(unit.body[b].ops), last.operands[1])
         ELSE OnTop(last.operands, items)

(* Each block uses the values it computes or is passed, in place.  A block  *)
(* with arguments is emitted right after one that passes them, for it takes *)
(* what it is passed off the tracker.  An internal function leaves nothing  *)
(* but its result.                                                          *)
InPlace(f) ==
  LET unit == UnitAt(f)
  IN  \A b \in 1..Len(unit.body) :
        LET block == unit.body[b]
            atEnd == AtEnd(unit, b)
        IN  /\ atEnd.inPlace
            /\ b > 1 /\ block.args # <<>> => b \in unit.body[b - 1].succs
            /\ EndsInControl(block) => HandsOn(unit, b, atEnd.items)
            /\ unit.visibility = "internal" =>
                 Len(unit.body) = 1 /\ atEnd.items = LastOp(block).operands
                                    /\ Len(atEnd.items) <= 1

-----------------------------------------------------------------------------
(* Properties. *)

(* The EVM finds the code as it was written, all of it.                     *)
CodeRead == \A i \in 1..Len(Code) : IsRead(Code[i])

(* The functions of which that may not be true.  A constant that is         *)
(* computed again is written as PUSH32 without the 32 bytes that it takes   *)
(* (zero as PUSH0, which takes none), and the opcode of the SWAP for more   *)
(* than 112 results does not fit in a byte.                                 *)
BytesMissing(unit) ==
  \/ \E v \in Recomputed(unit) :
       LET op == OpAt(unit, DefinedAt(unit, v))
       IN  op.name = "constant" /\ op.value # 0
  \/ \E place \in Places(unit) :
       LET op == OpAt(unit, place)
       IN  op.name = "func.return" /\ Len(op.operands) > 112

(* Type correctness; every label the stream holds has been created, and no  *)
(* label is defined twice; only where bytes are missing is the code not     *)
(* read as it was written; and as long as the machine runs (which it does   *)
(* until it comes to such a place), it does not leave the code.             *)
TypeOK ==
  /\ at[1] \in 1..(Len(Functions) + 1)
  /\ \A k \in 1..Len(emitter.stackTracker) :
       emitter.stackTracker[k] \in ValuesOf(Functions)
  /\ \A i \in 1..Len(Code) :
       /\ Code[i].kind \in {"opcode", "push", "labelRef", "labelDef"}
       /\ Code[i].kind \in {"labelRef", "labelDef"} =>
            Code[i].label < emitter.stream.nextLabelID
       /\ Code[i].kind = "labelDef" =>
            \A j \in 1..(i - 1) : Code[j] # Code[i]
  /\ CodeRead \/ \E f \in 1..Len(Functions) : BytesMissing(UnitAt(f))
  /\ outcome \in {"waiting", "running", "stopped", "returned", "exception", "unknown"}
  /\ outcome \in {"running", "returned"} => pc \in 1..Len(Code)

(* A function that is one straight line, whose operations have opcodes that *)
(* take their operands; SWAP16 is the last SWAP.                            *)
Regular(f) ==
  LET unit == UnitAt(f)
  IN  \A b \in 1..Len(unit.body) : \A i \in 1..Len(unit.body[b].ops) :
        LET op == unit.body[b].ops[i]
        IN  /\ op.name # "cf.cond_br"
            /\ op.name = "cf.br" => op.dest = b + 1
            /\ f > 1 /\ op.name = "func.return" => Len(op.operands) <= 16
            /\ op.name # "invalid" => Fits(unit, op)

(* Internal functions have just what they return on the stack in the end.   *)
OnlyResultsLeft ==
  \A place \in DOMAIN emittedAt :
    LET op == OpAt(UnitAt(place[1]), <<place[2], place[3]>>)
    IN  place[1] > 1 /\ op.name = "func.return" =>
          Len(emittedAt[place].after) = Len(op.operands)

(* The emitter's tracker is right about the EVM's stack: whenever the       *)
(* machine comes to an operation of the function that was called, there are *)
(* as many values on the stack as the tracker held when the operation was   *)
(* emitted, above the selector the dispatcher leaves.  Functions with a     *)
(* cf.cond_br are left out, for its condition stays on the tracker, and so  *)
(* are those with an ISZERO or NOT, for which two operands are scheduled,   *)
(* and those that call a function which returns something else than the     *)
(* values its return is for.  Where the EVM does not find the code as it    *)
(* was written, the machine is not running any more.                        *)
TrackerExact ==
  (\A f \in 1..Len(Functions) : Regular(f)) /\ OnlyResultsLeft =>
    \A place \in DOMAIN emittedAt :
      /\ outcome = "running"
      /\ place[1] = 1
      /\ pc = emittedAt[place].start
      => Len(stack) = Len(emittedAt[place].tracker) + 1

(* The place whose code the machine is in, and the operation there. *)
CurrentPlace ==
  LET begun == {place \in DOMAIN emittedAt :
                  emittedAt[place].start \in 1..pc /\ pc <= emittedAt[place].end}
  IN  CHOOSE place \in begun : TRUE

Current == OpAt(UnitAt(CurrentPlace[1]), <<CurrentPlace[2], CurrentPlace[3]>>)

(* The values of the return that ended the execution are in the memory that *)
(* is returned.                                                             *)
ReturnsItsValues ==
  LET values == Current.operands
  IN  /\ stack[1] = Number(0)
      /\ stack[2] = Number(32 * Len(values))
      /\ \A k \in 1..Len(values) : Stored(Number(32 * (k - 1))) = Meaning[values[k]]

(* The machine is about to execute an operation that has no result, on      *)
(* other words than those its operands stand for.                           *)
Misled ==
  /\ outcome = "running"
  /\ \E place \in DOMAIN emittedAt :
       LET op == OpAt(UnitAt(place[1]), <<place[2], place[3]>>)
           n  == Len(op.operands)
       IN  /\ pc = emittedAt[place].end
           /\ IsPlain(op)
           /\ op.results = {}
           /\ OpcodeFor(op) # NoOpcode
           /\ SubSeq(stack, 1, n) # [k \in 1..n |-> Meaning[op.operands[k]]]

(* The emitter or the execution has gone wrong: a word is missing, a jump   *)
(* leads astray, the EVM reads something else than what was written, a      *)
(* wrong value is returned, or a wrong one is stored, logged or sent.       *)
WentWrong ==
  \/ emitter.undefined
  \/ outcome \in {"exception", "unknown"}
  \/ Misled
  \/ outcome = "returned" /\ Current.name = "func.return" /\ ~ReturnsItsValues

(* A program that keeps its values on the stack or computes them again, and *)
(* whose operations find their operands in place (emitValue relies on it    *)
(* where it copies nothing) does what it should: it never goes wrong.       *)
InPlaceIsCorrect ==
  WentWrong => ~(/\ \A v \in ValuesOf(Functions) : WellPlaced(v)
                 /\ \A f \in 1..Len(Functions) : InPlace(f))

(* The operations are computed as the dialect describes them, for any       *)
(* program: a function returns the values of its return.                    *)
ReturnsTheRightValues ==
  outcome = "returned" /\ Current.name = "func.return" => ReturnsItsValues
=============================================================================
