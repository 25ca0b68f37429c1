---------------------------- MODULE BytecodeWriter ----------------------------
(***************************************************************************)
(* A BytecodeStream and a client that calls its operations in any order.    *)
(* The client refers only to labels it has created, possibly before it      *)
(* defines them; it may define a label again.                               *)
(***************************************************************************)
EXTENDS BytecodeStream, EVMCode

CONSTANTS
  Opcodes,          \* opcodes the client emits, no PUSH among them: one that
                    \* is emitted by itself takes the bytes that follow it
  PushValues,       \* values it pushes
  MaxInstructions,  \* bound on the length of the stream
  MaxLabels         \* bound on the labels created

ASSUME OpcodesAssumption    == Opcodes \subseteq (0..255) \ (PUSH0..PUSH32)
ASSUME PushValuesAssumption == PushValues \subseteq 0..(256 ^ 3 - 1)
ASSUME LabelsAssumption     == MaxLabels \in 0..(LabelCount - 1)
ASSUME LengthAssumption     == MaxInstructions \in Nat

VARIABLE stream

Labels == 0..(stream.nextLabelID - 1)

Init == stream = NewStream

HasRoom == Len(stream.instructions) < MaxInstructions

Emit ==
  \E opcode \in Opcodes :
    /\ HasRoom
    /\ stream' = emit(stream, opcode)

EmitPush ==
  \E value \in PushValues :
    /\ HasRoom
    /\ stream' = emitPush(stream, value)

CreateLabel ==
  /\ stream.nextLabelID < MaxLabels
  /\ stream' = createLabel(stream)

EmitJumpTarget ==
  \E label \in Labels :
    /\ HasRoom
    /\ stream' = emitJumpTarget(stream, label)

DefineLabel ==
  \E label \in Labels :
    /\ HasRoom
    /\ stream' = defineLabel(stream, label)

Next ==
  \/ Emit
  \/ EmitPush
  \/ CreateLabel
  \/ EmitJumpTarget
  \/ DefineLabel

Spec == Init /\ [][Next]_stream

-----------------------------------------------------------------------------
(* Properties. *)

Instructions ==
  [kind : {"opcode"}, opcode : Opcodes] \cup
  [kind : {"push"}, value : PushValues] \cup
  [kind : {"labelRef", "labelDef"}, label : Labels]

(* Type correctness: every label in the stream has been created. *)
TypeOK ==
  /\ stream.nextLabelID \in 0..MaxLabels
  /\ Len(stream.instructions) \in 0..MaxInstructions
  /\ \A i \in 1..Len(stream.instructions) :
       stream.instructions[i] \in Instructions

IsCode(instr) == instr.kind # "labelDef"

(* How many of the first n instructions of the stream are in the code.      *)
Rank(n) == Cardinality({i \in 1..n : IsCode(stream.instructions[i])})

(* Where in the code the label points: at the first instruction emitted     *)
(* after its last definition, or at the end of the code.                    *)
PointsAt(label, starts, code) ==
  LET instrs == stream.instructions
      def    == CHOOSE i \in 1..Len(instrs) :
                  /\ instrs[i] = LabelDefInstr(label)
                  /\ \A j \in (i + 1)..Len(instrs) : instrs[j] # instrs[i]
  IN  IF Rank(def - 1) < Len(starts) THEN starts[Rank(def - 1) + 1] ELSE Len(code)

(* No reference is to an undefined label, for which finalize() throws, and  *)
(* the offsets fit into 16 bits.                                            *)
Finalizable ==
  CanFinalize(stream) /\ Len(finalize(stream)) < 256 ^ 2

(* An EVM that reads the finalized bytes finds the instructions that were   *)
(* emitted, in order and nothing else, with the values that were pushed and *)
(* with every label reference pointing at the instruction its label marks.  *)
(* It covers the choice of the shortest PUSH, PUSH0 for zero, and the       *)
(* patching of references whose labels come later.  EVMEmitter does emit a  *)
(* PUSH32 by itself, for a constant that is computed again; such streams    *)
(* are not among those written here (FunctionExecution's BytesMissing).     *)
RoundTrip ==
  Finalizable =>
    LET instrs == stream.instructions
        code   == finalize(stream)
        starts == Boundaries(code)
    IN  /\ Len(starts) = Rank(Len(instrs))
        /\ \A i \in {j \in 1..Len(instrs) : IsCode(instrs[j])} :
             LET byte == Byte(code, starts[Rank(i)])
                 word == Operand(code, starts[Rank(i)])
             IN  CASE instrs[i].kind = "opcode" -> byte = instrs[i].opcode
                   [] instrs[i].kind = "push" ->
                        byte \in PUSH0..PUSH32 /\ word = instrs[i].value
                   [] instrs[i].kind = "labelRef" ->
                        /\ byte = PUSH2
                        /\ word = PointsAt(instrs[i].label, starts, code)

(* Of the PUSH instructions that hold a value the shortest one is used: the *)
(* operand has no leading zero byte.                                        *)
NoLeadingZero ==
  Finalizable =>
    LET instrs == stream.instructions
        code   == finalize(stream)
        starts == Boundaries(code)
    IN  \A i \in 1..Len(instrs) :
          LET pc == starts[Rank(i)]
          IN  instrs[i].kind = "push" /\ OperandSize(Byte(code, pc)) > 0
                => Byte(code, pc + 1) # 0
=============================================================================
