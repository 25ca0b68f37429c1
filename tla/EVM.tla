---------------------------------- MODULE EVM ----------------------------------
(***************************************************************************)
(* The part of the EVM that the code of a contract's skeleton needs, one    *)
(* action for each kind of instruction.  The EVM is revm, a dependency; it  *)
(* is modelled from what the emitted code asks of it.                       *)
(*                                                                          *)
(* Words are naturals.  The two words read from the calldata that are too   *)
(* large for that are opaque, negative numbers: HeadWord, the first 32      *)
(* bytes, of which SHR by 0xE0 takes the selector, and the arguments.       *)
(* Gas and the limit of 1024 stack items are left out: the code has no      *)
(* loop.                                                                    *)
(***************************************************************************)
EXTENDS EVMCode, Integers

VARIABLES
  code,      \* the code that is run
  jumpdests, \* its valid jump destinations, found when it is loaded
  calldata,  \* the selector a caller asks for
  pc,        \* the program counter
  stack,     \* the operand stack, its top first
  memory,    \* the memory that has been written, from address 0
  outcome    \* "running", or how the execution has ended

evmVars == <<code, jumpdests, calldata, pc, stack, memory, outcome>>

HeadWord   == -1
ArgWord(i) == -2 - i   \* i counts from 0

CalldataWord(offset) == IF offset = 0 THEN HeadWord ELSE ArgWord((offset - 4) \div 32)

Idle ==
  /\ code = <<>>
  /\ jumpdests = {}
  /\ calldata = 0
  /\ pc = 0
  /\ stack = <<>>
  /\ memory = <<>>
  /\ outcome = "none"

(* Execution of some code begins. *)
Start(newCode, selector) ==
  /\ code' = newCode
  /\ jumpdests' = Jumpdests(newCode)
  /\ calldata' = selector
  /\ pc' = 0
  /\ stack' = <<>>
  /\ memory' = <<>>
  /\ outcome' = "running"

(* Nothing is executed any more. *)
Clear ==
  /\ code' = <<>>
  /\ jumpdests' = {}
  /\ calldata' = 0
  /\ pc' = 0
  /\ stack' = <<>>
  /\ memory' = <<>>
  /\ outcome' = "none"

Current == Byte(code, pc)

(* The instruction at pc has n operands on the stack. *)
Executes(byte, n) == outcome = "running" /\ Current = byte /\ Len(stack) >= n

Drop(n) == SubSeq(stack, n + 1, Len(stack))

GoOn(newStack) ==
  /\ stack' = newStack
  /\ pc' = NextPC(code, pc)
  /\ UNCHANGED <<code, jumpdests, calldata, memory, outcome>>

End(how) ==
  /\ outcome' = how
  /\ UNCHANGED <<code, jumpdests, calldata, pc, stack, memory>>

-----------------------------------------------------------------------------
ExecPush ==
  /\ outcome = "running"
  /\ Current \in PUSH0..PUSH32
  /\ GoOn(<<Operand(code, pc)>> \o stack)

ExecDup1 == Executes(DUP1, 1) /\ GoOn(<<stack[1]>> \o stack)

Flag(condition) == IF condition THEN 1 ELSE 0

ExecSwap1 ==
  /\ Executes(SWAP1, 2)
  /\ GoOn(<<stack[2], stack[1]>> \o Drop(2))

ExecLt == Executes(LT, 2) /\ GoOn(<<Flag(stack[1] < stack[2])>> \o Drop(2))

ExecEq == Executes(EQ, 2) /\ GoOn(<<Flag(stack[1] = stack[2])>> \o Drop(2))

ExecShr ==
  /\ Executes(SHR, 2)
  /\ stack[1] = \hE0 /\ stack[2] = HeadWord
  /\ GoOn(<<calldata>> \o Drop(2))

ExecCalldataload ==
  /\ Executes(CALLDATALOAD, 1)
  /\ GoOn(<<CalldataWord(stack[1])>> \o Drop(1))

ExecJumpdest == Executes(JUMPDEST, 0) /\ GoOn(stack)

JumpTo(dest, newStack) ==
  IF dest \in jumpdests
  THEN /\ pc' = dest
       /\ stack' = newStack
       /\ UNCHANGED <<code, jumpdests, calldata, memory, outcome>>
  ELSE End("exception")

ExecJump == Executes(JUMP, 1) /\ JumpTo(stack[1], Drop(1))

ExecJumpi ==
  /\ Executes(JUMPI, 2)
  /\ IF stack[2] # 0 THEN JumpTo(stack[1], Drop(2)) ELSE GoOn(Drop(2))

(* Copies stack[3] bytes of the code from stack[2] on to memory at address  *)
(* stack[1].                                                                *)
ExecCodecopy ==
  /\ Executes(CODECOPY, 3)
  /\ memory' = [i \in 1..(stack[1] + stack[3]) |->
                  IF i > stack[1] THEN Byte(code, stack[2] + i - 1 - stack[1])
                  ELSE IF i <= Len(memory) THEN memory[i] ELSE 0]
  /\ pc' = NextPC(code, pc)
  /\ stack' = Drop(3)
  /\ UNCHANGED <<code, jumpdests, calldata, outcome>>

(* The 32 bytes of a word, and of the opaque words none that is used. *)
WordBytes(word) ==
  [i \in 1..32 |-> IF i <= 29 THEN 0 ELSE (word \div 256 ^ (32 - i)) % 256]

ExecMstore ==
  /\ Executes(MSTORE, 2)
  /\ LET bytes == WordBytes(stack[2])
         size  == IF Len(memory) > stack[1] + 32 THEN Len(memory) ELSE stack[1] + 32
     IN  memory' = [i \in 1..size |->
                      IF i - stack[1] \in 1..32 THEN bytes[i - stack[1]]
                      ELSE IF i <= Len(memory) THEN memory[i] ELSE 0]
  /\ pc' = NextPC(code, pc)
  /\ stack' = Drop(2)
  /\ UNCHANGED <<code, jumpdests, calldata, outcome>>

(* STOP, and the STOPs that follow the end of every code. *)
ExecStop == Executes(STOP, 0) /\ End("stopped")

ExecReturn == Executes(RETURN, 2) /\ End("returned")

(* The bytes RETURN returns. *)
Output == [i \in 1..stack[2] |->
             IF stack[1] + i <= Len(memory) THEN memory[stack[1] + i] ELSE 0]

ExecRevert == Executes(REVERT, 2) /\ End("reverted")

(* How many operands an instruction of the contract's skeleton takes. *)
Needs(byte) ==
  CASE byte \in {STOP, JUMPDEST} \cup PUSH0..PUSH32 -> 0
    [] byte \in {DUP1, CALLDATALOAD, JUMP} -> 1
    [] byte \in {SWAP1, LT, EQ, SHR, MSTORE, JUMPI, RETURN, REVERT} -> 2
    [] byte = CODECOPY -> 3
    [] OTHER -> 1024 \* no instruction

(* INVALID, an unknown opcode, or too few operands. *)
ExecException ==
  /\ outcome = "running"
  /\ Len(stack) < Needs(Current)
  /\ End("exception")

Execute ==
  \/ ExecPush
  \/ ExecDup1
  \/ ExecSwap1
  \/ ExecLt
  \/ ExecEq
  \/ ExecShr
  \/ ExecCalldataload
  \/ ExecJumpdest
  \/ ExecJump
  \/ ExecJumpi
  \/ ExecCodecopy
  \/ ExecMstore
  \/ ExecStop
  \/ ExecReturn
  \/ ExecRevert
  \/ ExecException
=============================================================================
