-------------------------------- MODULE Opcode --------------------------------
(***************************************************************************)
(* The opcodes (CodeGen/Opcode.h): all of them by name, row by row as they  *)
(* are numbered, and those that the emitter writes itself as constants.     *)
(***************************************************************************)
EXTENDS Integers, Sequences

(* The entries of both tables. *)
Joined(f, g) ==
  [name \in DOMAIN f \cup DOMAIN g |-> IF name \in DOMAIN f THEN f[name] ELSE g[name]]

(* Some names, numbered from first on. *)
Row(first, names) ==
  [name \in {names[i] : i \in 1..Len(names)} |->
     first - 1 + CHOOSE i \in 1..Len(names) : names[i] = name]

ArithmeticRow ==
  Row(\h00, <<"STOP", "ADD", "MUL", "SUB", "DIV", "SDIV", "MOD", "SMOD",
              "ADDMOD", "MULMOD", "EXP", "SIGNEXTEND">>)

ComparisonRow ==
  Row(\h10, <<"LT", "GT", "SLT", "SGT", "EQ", "ISZERO", "AND", "OR", "XOR",
              "NOT", "BYTE", "SHL", "SHR", "SAR", "CLZ">>)

KeccakRow == Row(\h20, <<"KECCAK256">>)

EnvironmentRow ==
  Row(\h30, <<"ADDRESS", "BALANCE", "ORIGIN", "CALLER", "CALLVALUE",
              "CALLDATALOAD", "CALLDATASIZE", "CALLDATACOPY", "CODESIZE",
              "CODECOPY", "GASPRICE", "EXTCODESIZE", "EXTCODECOPY",
              "RETURNDATASIZE", "RETURNDATACOPY", "EXTCODEHASH">>)

BlockRow ==
  Row(\h40, <<"BLOCKHASH", "COINBASE", "TIMESTAMP", "NUMBER", "PREVRANDAO",
              "GASLIMIT", "CHAINID", "SELFBALANCE", "BASEFEE", "BLOBHASH",
              "BLOBBASEFEE">>)

MachineRow ==
  Row(\h50, <<"POP", "MLOAD", "MSTORE", "MSTORE8", "SLOAD", "SSTORE", "JUMP",
              "JUMPI", "PC", "MSIZE", "GAS", "JUMPDEST", "TLOAD", "TSTORE",
              "MCOPY", "PUSH0">>)

LogRow == Row(\hA0, <<"LOG0", "LOG1", "LOG2", "LOG3", "LOG4">>)

CallRow ==
  Row(\hF0, <<"CREATE", "CALL", "CALLCODE", "RETURN", "DELEGATECALL", "CREATE2">>)

EndRow ==
  [STATICCALL |-> \hFA, REVERT |-> \hFD, INVALID |-> \hFE, SELFDESTRUCT |-> \hFF]

PUSH1  == \h60
PUSH2  == \h61
PUSH32 == \h7F
DUP1   == \h80
DUP16  == \h8F
SWAP1  == \h90
SWAP16 == \h9F

PushOpcodes == PUSH1..PUSH32
DupOpcodes  == DUP1..DUP16
SwapOpcodes == SWAP1..SWAP16

Opcode ==
  Joined(Joined(Joined(ArithmeticRow, ComparisonRow), Joined(KeccakRow, EnvironmentRow)),
         Joined(Joined(Joined(BlockRow, MachineRow), [PUSH32 |-> PUSH32]),
                Joined(Joined(LogRow, CallRow), EndRow)))

STOP         == \h00
LT           == \h10
EQ           == \h14
SHR          == \h1C
CALLDATALOAD == \h35
CODECOPY     == \h39
MLOAD        == \h51
MSTORE       == \h52
JUMP         == \h56
JUMPI        == \h57
JUMPDEST     == \h5B
PUSH0        == \h5F
RETURN       == \hF3
REVERT       == \hFD
INVALID      == \hFE
=============================================================================
