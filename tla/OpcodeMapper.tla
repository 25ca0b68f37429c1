------------------------------ MODULE OpcodeMapper ------------------------------
(***************************************************************************)
(* getOpcode() (CodeGen/OpcodeMapper.cpp): the opcode for an operation.     *)
(*                                                                          *)
(* An operation is a record with its name, without that of its dialect, its *)
(* operands, the predicate of a cmpi and the value of a constant.  The      *)
(* value of a word with all bits set is AllOnes.                            *)
(***************************************************************************)
EXTENDS Opcode, FiniteSets

NoOpcode == "none"   \* std::nullopt
AllOnes  == -1

(* Operations with an opcode of their own: those of arith and math, those   *)
(* of the EVM dialect that compute, read the environment, use memory and    *)
(* storage, and those that call or end the execution.                       *)
ArithOpcodes ==
  [addi |-> "ADD", muli |-> "MUL", subi |-> "SUB", divui |-> "DIV", divsi |-> "SDIV",
   remui |-> "MOD", remsi |-> "SMOD", andi |-> "AND", ori |-> "OR", shli |-> "SHL",
   shrui |-> "SHR", shrsi |-> "SAR", ctlz |-> "CLZ", addmod |-> "ADDMOD",
   mulmod |-> "MULMOD", exp |-> "EXP", signextend |-> "SIGNEXTEND", byte |-> "BYTE",
   keccak256 |-> "KECCAK256", stop |-> "STOP"]

EnvironmentOpcodes ==
  [address |-> "ADDRESS", balance |-> "BALANCE", origin |-> "ORIGIN",
   caller |-> "CALLER", callvalue |-> "CALLVALUE", calldataload |-> "CALLDATALOAD",
   calldatasize |-> "CALLDATASIZE", calldatacopy |-> "CALLDATACOPY",
   codesize |-> "CODESIZE", codecopy |-> "CODECOPY", gasprice |-> "GASPRICE",
   extcodesize |-> "EXTCODESIZE", extcodecopy |-> "EXTCODECOPY",
   returndatasize |-> "RETURNDATASIZE", returndatacopy |-> "RETURNDATACOPY",
   extcodehash |-> "EXTCODEHASH", blockhash |-> "BLOCKHASH", coinbase |-> "COINBASE",
   timestamp |-> "TIMESTAMP", number |-> "NUMBER", prevrandao |-> "PREVRANDAO",
   gaslimit |-> "GASLIMIT", chainid |-> "CHAINID", selfbalance |-> "SELFBALANCE",
   basefee |-> "BASEFEE", blobhash |-> "BLOBHASH", blobbasefee |-> "BLOBBASEFEE"]

MachineOpcodes ==
  [mload |-> "MLOAD", mstore |-> "MSTORE", mstore8 |-> "MSTORE8", sload |-> "SLOAD",
   sstore |-> "SSTORE", pc |-> "PC", msize |-> "MSIZE", gas |-> "GAS",
   tload |-> "TLOAD", tstore |-> "TSTORE", mcopy |-> "MCOPY", log0 |-> "LOG0",
   log1 |-> "LOG1", log2 |-> "LOG2", log3 |-> "LOG3", log4 |-> "LOG4"]

CallOpcodes ==
  [create |-> "CREATE", call |-> "CALL", callcode |-> "CALLCODE", return |-> "RETURN",
   delegatecall |-> "DELEGATECALL", create2 |-> "CREATE2",
   staticcall |-> "STATICCALL", revert |-> "REVERT", invalid |-> "INVALID",
   selfdestruct |-> "SELFDESTRUCT"]

FixedOpcodes ==
  Joined(Joined(ArithOpcodes, EnvironmentOpcodes), Joined(MachineOpcodes, CallOpcodes))

(* What an operand is may decide: definers has for each operand of op the   *)
(* operation that computes it, or that it is a block argument.              *)
IsConstant(op, value) == op.name = "constant" /\ op.value = value

ConstantOperands(definers, value) == {k \in 1..2 : IsConstant(definers[k], value)}

ComparisonOpcode(op, definers) ==
  CASE op.predicate \in {"ult", "ugt", "slt", "sgt"} ->
         [ult |-> "LT", ugt |-> "GT", slt |-> "SLT", sgt |-> "SGT"][op.predicate]
    [] op.predicate = "eq" ->
         IF Cardinality(ConstantOperands(definers, 0)) = 1 THEN "ISZERO" ELSE "EQ"
    [] OTHER -> NoOpcode

(* A xor with all ones, whichever operand that is, becomes NOT. *)
XorOpcode(definers) ==
  IF ConstantOperands(definers, AllOnes) # {} THEN "NOT" ELSE "XOR"

getOpcode(op, definers) ==
  CASE op.name = "constant"           -> IF op.value = 0 THEN "PUSH0" ELSE "PUSH32"
    [] op.name = "cmpi"               -> ComparisonOpcode(op, definers)
    [] op.name = "xori"               -> XorOpcode(definers)
    [] op.name \in DOMAIN FixedOpcodes -> FixedOpcodes[op.name]
    [] OTHER                          -> NoOpcode
=============================================================================
