------------------------------ MODULE StackMachine ------------------------------
(***************************************************************************)
(* The EVM as the emitter of functions sees it: it runs the instructions of *)
(* a BytecodeStream, with labels for jump destinations, and computes terms  *)
(* instead of numbers.  External, as EVM.                                   *)
(*                                                                          *)
(* An EVM that runs the finalized bytes finds just these instructions       *)
(* (BytecodeWriter), unless one of them is a raw PUSH opcode, which takes   *)
(* the bytes of those that follow as its operand.  The machine goes as far  *)
(* as the code before the first of these: its outcome is "unknown" then.    *)
(*                                                                          *)
(* A word is a tuple: <<"number", n>>, <<"label", l>>, <<"selector">>, or   *)
(* "apply" with an opcode and the words it was applied to.  What an opcode  *)
(* reads besides its operands, and what it changes besides the stack, is    *)
(* left out, but for MLOAD and MSTORE.                                      *)
(***************************************************************************)
EXTENDS BytecodeStream, Integers

LOCAL INSTANCE Functions   \* Range

VARIABLES
  pc,       \* the index of the next instruction
  stack,    \* the operand stack, its top first
  memory,   \* the words stored, by address
  outcome   \* "waiting", "running", or how the execution has ended
            \* or been lost sight of

machineVars == <<pc, stack, memory, outcome>>

Number(n) == <<"number", n>>
Label(l)  == <<"label", l>>
Selector  == <<"selector">>

(* The opcodes that compute a word, by how many they take: none, one, ...   *)
Computing ==
  <<{"ADDRESS", "ORIGIN", "CALLER", "CALLVALUE", "CALLDATASIZE", "CODESIZE", "GASPRICE",
     "RETURNDATASIZE", "COINBASE", "TIMESTAMP", "NUMBER", "PREVRANDAO", "GASLIMIT",
     "CHAINID", "SELFBALANCE", "BASEFEE", "BLOBBASEFEE", "PC", "MSIZE", "GAS"},
    {"ISZERO", "NOT", "CLZ", "BALANCE", "CALLDATALOAD", "EXTCODESIZE", "EXTCODEHASH",
     "BLOCKHASH", "BLOBHASH", "SLOAD", "TLOAD"},
    {"ADD", "MUL", "SUB", "DIV", "SDIV", "MOD", "SMOD", "EXP", "SIGNEXTEND", "LT", "GT",
     "SLT", "SGT", "EQ", "AND", "OR", "XOR", "BYTE", "SHL", "SHR", "SAR", "KECCAK256"},
    {"ADDMOD", "MULMOD", "CREATE"}, {"CREATE2"}, {},
    {"DELEGATECALL", "STATICCALL"}, {"CALL", "CALLCODE"}>>

(* Those that only take words, and those of them that end the execution.    *)
Consuming ==
  <<{}, {"POP"}, {"SSTORE", "TSTORE", "MSTORE8", "LOG0"},
    {"CALLDATACOPY", "CODECOPY", "RETURNDATACOPY", "MCOPY", "LOG1"},
    {"EXTCODECOPY", "LOG2"}, {"LOG3"}, {"LOG4"}>>

Ending == <<{"STOP"}, {"SELFDESTRUCT"}, {"RETURN", "REVERT"}>>

Arities(rows) ==
  [opcode \in {Opcode[name] : name \in UNION Range(rows)} |->
     (CHOOSE n \in 1..Len(rows) : \E name \in rows[n] : Opcode[name] = opcode) - 1]

Computes == Arities(Computing)
Consumes == Arities(Consuming)
Ends     == Arities(Ending)

Apply(opcode, words) == <<"apply", opcode>> \o words

MachineIdle ==
  /\ pc = 0
  /\ stack = <<>>
  /\ memory = [address \in {} |-> Number(0)]
  /\ outcome = "waiting"

(* An opcode of one byte that does not take those that follow.              *)
IsRead(instr) == instr.kind = "opcode" => instr.opcode \in (0..255) \ PushOpcodes

(* The EVM finds the first i instructions as they were written.             *)
ReadUpTo(code, i) == \A j \in 1..i : IsRead(code[j])

LabelIndex(code, l) == CHOOSE i \in 1..Len(code) : code[i] = LabelDefInstr(l)

(* The dispatcher has jumped to l and left the selector behind. *)
StartAt(code, l) ==
  /\ outcome = "waiting"
  /\ pc' = LabelIndex(code, l)
  /\ stack' = <<Selector>>
  /\ outcome' = "running"
  /\ UNCHANGED memory

Running(code) == outcome = "running" /\ pc \in 1..Len(code)

IsOpcode(code, n, opcode) ==
  /\ Running(code)
  /\ code[pc] = OpcodeInstr(opcode)
  /\ Len(stack) >= n

Below(n) == SubSeq(stack, n + 1, Len(stack))

Continue(newStack) ==
  /\ stack' = newStack
  /\ pc' = pc + 1
  /\ UNCHANGED <<memory, outcome>>

Halt(how) ==
  /\ outcome' = how
  /\ UNCHANGED <<pc, stack, memory>>

RunMark(code) ==
  /\ Running(code)
  /\ code[pc].kind = "labelDef" \/ code[pc] = OpcodeInstr(JUMPDEST)
  /\ Continue(stack)

RunPush(code) ==
  \/ /\ Running(code) /\ code[pc].kind = "push"
     /\ Continue(<<Number(code[pc].value)>> \o stack)
  \/ /\ IsOpcode(code, 0, PUSH0)
     /\ Continue(<<Number(0)>> \o stack)
  \/ /\ Running(code) /\ code[pc].kind = "labelRef"
     /\ Continue(<<Label(code[pc].label)>> \o stack)

RunDup(code) ==
  \E n \in 1..16 :
    /\ IsOpcode(code, n, DUP1 + n - 1)
    /\ Continue(<<stack[n]>> \o stack)

RunSwap(code) ==
  \E n \in 1..16 :
    /\ IsOpcode(code, n + 1, SWAP1 + n - 1)
    /\ Continue([stack EXCEPT ![1] = stack[n + 1], ![n + 1] = stack[1]])

RunCompute(code) ==
  \E opcode \in DOMAIN Computes :
    /\ IsOpcode(code, Computes[opcode], opcode)
    /\ Continue(<<Apply(opcode, SubSeq(stack, 1, Computes[opcode]))>>
                \o Below(Computes[opcode]))

RunConsume(code) ==
  \E opcode \in DOMAIN Consumes :
    /\ IsOpcode(code, Consumes[opcode], opcode)
    /\ Continue(Below(Consumes[opcode]))

Stored(address) == IF address \in DOMAIN memory THEN memory[address] ELSE Number(0)

RunMload(code) ==
  /\ IsOpcode(code, 1, MLOAD)
  /\ Continue(<<Stored(stack[1])>> \o Below(1))

RunMstore(code) ==
  /\ IsOpcode(code, 2, MSTORE)
  /\ memory' = [address \in DOMAIN memory \cup {stack[1]} |->
                  IF address = stack[1] THEN stack[2] ELSE memory[address]]
  /\ stack' = Below(2)
  /\ pc' = pc + 1
  /\ UNCHANGED outcome

RunJump(code) ==
  /\ IsOpcode(code, 1, JUMP)
  /\ stack[1][1] = "label"
  /\ pc' = LabelIndex(code, stack[1][2])
  /\ stack' = Below(1)
  /\ UNCHANGED <<memory, outcome>>

(* The condition is not known: the jump is taken or not. *)
RunJumpi(code) ==
  /\ IsOpcode(code, 2, JUMPI)
  /\ stack[1][1] = "label"
  /\ pc' \in {pc + 1, LabelIndex(code, stack[1][2])}
  /\ stack' = Below(2)
  /\ UNCHANGED <<memory, outcome>>

RunEnd(code) ==
  \E opcode \in DOMAIN Ends :
    /\ IsOpcode(code, Ends[opcode], opcode)
    /\ Halt(IF opcode = RETURN THEN "returned" ELSE "stopped")

(* The words an opcode needs; the machine stops at any other one.           *)
Takes(opcode) ==
  CASE opcode \in DOMAIN Computes     -> Computes[opcode]
    [] opcode \in DOMAIN Consumes     -> Consumes[opcode]
    [] opcode \in DOMAIN Ends         -> Ends[opcode]
    [] opcode \in DupOpcodes          -> opcode - DUP1 + 1
    [] opcode \in SwapOpcodes         -> opcode - SWAP1 + 2
    [] opcode \in {MLOAD, JUMP}       -> 1
    [] opcode \in {MSTORE, JUMPI}      -> 2
    [] opcode \in {JUMPDEST, PUSH0}   -> 0
    [] OTHER                          -> 1024

(* Too few words, a jump to no label, INVALID or an opcode not assigned.    *)
RunTrap(code) ==
  /\ Running(code)
  /\ code[pc].kind = "opcode"
  /\ \/ Len(stack) < Takes(code[pc].opcode)
     \/ /\ code[pc].opcode \in {JUMP, JUMPI}
        /\ stack # <<>>
        /\ stack[1][1] # "label"
  /\ Halt("exception")

(* Where the machine is, bytes are missing, or there were some missing      *)
(* before: the EVM goes on inside of instructions, or takes a label for     *)
(* data.  Nothing is said of what it does.                                  *)
RunUnread(code) ==
  /\ Running(code)
  /\ ~ReadUpTo(code, pc)
  /\ Halt("unknown")

RunRead(code) ==
  \/ RunMark(code)
  \/ RunPush(code)
  \/ RunDup(code)
  \/ RunSwap(code)
  \/ RunCompute(code)
  \/ RunConsume(code)
  \/ RunMload(code)
  \/ RunMstore(code)
  \/ RunJump(code)
  \/ RunJumpi(code)
  \/ RunEnd(code)
  \/ RunTrap(code)

RunInstruction(code) ==
  \/ ReadUpTo(code, pc) /\ RunRead(code)
  \/ RunUnread(code)
=============================================================================
