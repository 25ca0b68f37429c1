------------------------------- MODULE EVMCode -------------------------------
(***************************************************************************)
(* How the EVM reads code, which is external to this repository.  Program   *)
(* counters start at 0.  The bytes after a PUSH are its operand and never   *)
(* executed, so a JUMPDEST among them is no destination.                    *)
(***************************************************************************)
EXTENDS Opcode, Sequences, FiniteSets

Byte(code, pc) == IF pc < Len(code) THEN code[pc + 1] ELSE STOP

OperandSize(byte) == IF byte \in PUSH1..PUSH32 THEN byte - PUSH0 ELSE 0

NextPC(code, pc) == pc + 1 + OperandSize(Byte(code, pc))

(* The operand of the PUSH at pc. *)
Operand(code, pc) ==
  LET value[n \in 0..OperandSize(Byte(code, pc))] ==
        IF n = 0 THEN 0
        ELSE LET high == value[n - 1] IN 256 * high + Byte(code, pc + n)
  IN  value[OperandSize(Byte(code, pc))]

(* The program counters of the code's instructions, in order. *)
Boundaries(code) ==
  LET from[pc \in Nat] ==
        IF pc >= Len(code) THEN <<>> ELSE <<pc>> \o from[NextPC(code, pc)]
  IN  from[0]

Jumpdests(code) ==
  LET starts == Boundaries(code)
  IN  {pc \in {starts[i] : i \in 1..Len(starts)} : Byte(code, pc) = JUMPDEST}
=============================================================================
