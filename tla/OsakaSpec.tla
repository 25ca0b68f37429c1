------------------------------- MODULE OsakaSpec -------------------------------
(***************************************************************************)
(* The gas table of the Osaka fork (CodeGen/OsakaSpec.cpp), section by      *)
(* section: the static gas of an opcode, the least and the most it may      *)
(* cost, and whether that depends on more than the opcode.  An opcode       *)
(* without a row has an uninitialised one in the code.                      *)
(***************************************************************************)
EXTENDS Opcode, TLC

Unbounded == -1   \* UINT32_MAX

OpcodeInfo(static, max) ==
  [staticGas |-> static, minGas |-> static, maxGas |-> max,
   hasDynamicComponent |-> max # static]

Rows(codes, static, max) == [code \in codes |-> OpcodeInfo(static, max)]

Codes(names) == {Opcode[name] : name \in names}

(* Opcodes that cost what their static gas says. *)
Flat(gas, names) == Rows(Codes(names), gas, gas)

(* Opcodes that also pay for access, for memory or for what they are given. *)
Dynamic(static, max, names) == Rows(Codes(names), static, max)

Arithmetic ==
  Flat(0, {"STOP"})
  @@ Flat(3, {"ADD", "SUB"})
  @@ Flat(5, {"MUL", "DIV", "SDIV", "MOD", "SMOD", "SIGNEXTEND"})
  @@ Flat(8, {"ADDMOD", "MULMOD"})
  @@ Dynamic(10, 10 + 50 * 32, {"EXP"})

ComparisonAndLogic ==
  Flat(3, {"LT", "GT", "SLT", "SGT", "EQ", "ISZERO", "AND", "OR", "XOR", "NOT",
           "BYTE", "SHL", "SHR", "SAR"})
  @@ Flat(5, {"CLZ"})
  @@ Dynamic(30, Unbounded, {"KECCAK256"})

EnvironmentalInformation ==
  Flat(2, {"ADDRESS", "ORIGIN", "CALLER", "CALLVALUE", "CALLDATASIZE", "CODESIZE",
           "GASPRICE", "RETURNDATASIZE"})
  @@ Flat(3, {"CALLDATALOAD"})
  @@ Dynamic(100, 2600, {"BALANCE", "EXTCODESIZE", "EXTCODEHASH"})
  @@ Dynamic(100, Unbounded, {"EXTCODECOPY"})
  @@ Dynamic(3, Unbounded, {"CALLDATACOPY", "CODECOPY", "RETURNDATACOPY"})

BlockInformation ==
  Flat(2, {"COINBASE", "TIMESTAMP", "NUMBER", "PREVRANDAO", "GASLIMIT", "CHAINID",
           "BASEFEE", "BLOBBASEFEE"})
  @@ Flat(3, {"BLOBHASH"})
  @@ Flat(5, {"SELFBALANCE"})
  @@ Flat(20, {"BLOCKHASH"})

StackMemoryStorageAndFlow ==
  Flat(1, {"JUMPDEST"})
  @@ Flat(2, {"POP", "PC", "MSIZE", "GAS", "PUSH0"})
  @@ Flat(8, {"JUMP"})
  @@ Flat(10, {"JUMPI"})
  @@ Flat(100, {"TLOAD", "TSTORE"})
  @@ Dynamic(3, Unbounded, {"MLOAD", "MSTORE", "MSTORE8", "MCOPY"})
  @@ Dynamic(100, 2100, {"SLOAD"})
  @@ Dynamic(100, 2100 + 20000, {"SSTORE"})

PushRows == Rows(PushOpcodes, 3, 3)
DupRows  == Rows(DupOpcodes, 3, 3)
SwapRows == Rows(SwapOpcodes, 3, 3)

Logging ==
  LET topics == [LOG0 |-> 0, LOG1 |-> 1, LOG2 |-> 2, LOG3 |-> 3, LOG4 |-> 4]
  IN  [code \in Codes(DOMAIN topics) |->
         OpcodeInfo(375 + 375 * (code - Opcode["LOG0"]), Unbounded)]

SystemOperations ==
  Dynamic(32000, Unbounded, {"CREATE", "CREATE2"})
  @@ Dynamic(100, Unbounded, {"CALL", "CALLCODE", "DELEGATECALL", "STATICCALL"})
  @@ Dynamic(0, Unbounded, {"RETURN", "REVERT", "INVALID"})
  @@ Dynamic(5000, 5000 + 2600 + 25000, {"SELFDESTRUCT"})

opcodes ==
  Arithmetic @@ ComparisonAndLogic @@ EnvironmentalInformation @@ BlockInformation
  @@ StackMemoryStorageAndFlow @@ PushRows @@ DupRows @@ SwapRows @@ Logging
  @@ SystemOperations
=============================================================================
