---------------------------- MODULE BytecodeStream ----------------------------
(***************************************************************************)
(* BytecodeStream (CodeGen/BytecodeStream.{h,cpp}): a list of instructions  *)
(* with symbolic labels that finalize() turns into bytes.  The class is a   *)
(* value, modelled by operators over one record.                            *)
(*                                                                          *)
(* Bound: pushed values are below 2^24 (32-byte words in the code).         *)
(***************************************************************************)
EXTENDS Opcode, Sequences, FiniteSets, SequencesExt

OpcodeInstr(opcode)  == [kind |-> "opcode", opcode |-> opcode]
PushInstr(value)     == [kind |-> "push", value |-> value]
LabelRefInstr(label) == [kind |-> "labelRef", label |-> label]
LabelDefInstr(label) == [kind |-> "labelDef", label |-> label]

NewStream == [instructions |-> <<>>, nextLabelID |-> 0]

emitAll(stream, instrs) == [stream EXCEPT !.instructions = @ \o instrs]

emit(stream, opcode)         == emitAll(stream, <<OpcodeInstr(opcode)>>)
emitPush(stream, value)      == emitAll(stream, <<PushInstr(value)>>)
emitJumpTarget(stream, label) == emitAll(stream, <<LabelRefInstr(label)>>)
defineLabel(stream, label)   == emitAll(stream, <<LabelDefInstr(label)>>)

LabelCount == 65536   \* a label is a uint16_t

(* createLabel() returns the old nextLabelID. *)
createdLabel(stream) == stream.nextLabelID

(* Variant of createLabel with a one-bit counter. *)
labelsWrap(stream) == [stream EXCEPT !.nextLabelID = (@ + 1) % 2]

createLabel(stream) == [stream EXCEPT !.nextLabelID = (@ + 1) % LabelCount]

-----------------------------------------------------------------------------
(* finalize(). *)

(* Variant of numBytes that keeps a byte for zero. *)
atLeastOneByte(value) ==
  CHOOSE n \in 1..3 : /\ value < 256 ^ n
                      /\ n > 1 => value >= 256 ^ (n - 1)

(* How many of the 32 bytes are left without the leading zeros. *)
numBytes(value) ==
  CHOOSE n \in 0..3 : /\ value < 256 ^ n
                      /\ n > 0 => value >= 256 ^ (n - 1)

(* The low n bytes of a value, most significant first. *)
LowBytes(value, n) == [i \in 1..n |-> (value \div 256 ^ (n - i)) % 256]

(* Variant of EncodedSize that forgets the opcode of a label reference. *)
sizeOfOperand(instr) ==
  CASE instr.kind = "opcode"   -> 1
    [] instr.kind = "push"     -> 1 + numBytes(instr.value)
    [] instr.kind = "labelRef" -> 2
    [] instr.kind = "labelDef" -> 0

(* The bytes an instruction takes. *)
EncodedSize(instr) ==
  CASE instr.kind = "opcode"   -> 1
    [] instr.kind = "push"     -> 1 + numBytes(instr.value)
    [] instr.kind = "labelRef" -> 3
    [] instr.kind = "labelDef" -> 0

(* bytecode.size() when the first pass comes to the i-th instruction. *)
OffsetOf(instrs, i) ==
  Cardinality(UNION {{j} \X (1..EncodedSize(instrs[j])) : j \in 1..(i - 1)})

(* labelOffsets: a second definition of a label replaces the first. *)
labelOffset(instrs, label) ==
  OffsetOf(instrs, SelectLastInSeq(instrs, LAMBDA instr : instr = LabelDefInstr(label)))

(* What the two passes write for an instruction. *)
Encode(instrs, i) ==
  LET instr == instrs[i]
  IN  CASE instr.kind = "opcode"   -> <<instr.opcode>>
        [] instr.kind = "push"     ->
             LET n == numBytes(instr.value)
             IN  <<PUSH0 + n>> \o LowBytes(instr.value, n)
        [] instr.kind = "labelRef" ->
             <<PUSH2>> \o LowBytes(labelOffset(instrs, instr.label), 2)
        [] instr.kind = "labelDef" -> <<>>

(* labelOffsets.at() throws for a label that is referenced and not defined. *)
CanFinalize(stream) ==
  LET defined == {i \in 1..Len(stream.instructions) :
                    stream.instructions[i].kind = "labelDef"}
  IN  \A i \in 1..Len(stream.instructions) :
        stream.instructions[i].kind = "labelRef" =>
          \E j \in defined :
            stream.instructions[j].label = stream.instructions[i].label

finalize(stream) ==
  FlattenSeq([i \in 1..Len(stream.instructions) |-> Encode(stream.instructions, i)])
=============================================================================
