--------------------------------- MODULE EVMOps ---------------------------------
(***************************************************************************)
(* The effects that the operations declare to MLIR: those of the EVM        *)
(* dialect by getEffects() (Dialect/EVM/EVMOps.cpp) or by the trait Pure    *)
(* (EVMOps.td), those of arith and math, which are Pure as well.            *)
(*                                                                          *)
(* An effect is a triple of the operation's name, "Read" or "Write", and    *)
(* the resource (EVMResources.h).  "Default" is MLIR's DefaultResource, and *)
(* stands for the accounts.                                                 *)
(***************************************************************************)

Resources ==
  {"Default", "Storage", "TransientStorage", "Memory", "Log", "ReturnData"}

Declares(names, reads, writes) ==
  (names \X {"Read"} \X reads) \cup (names \X {"Write"} \X writes)

StateEffects ==
  Declares({"inline_bytecode"}, Resources, Resources)
  \cup Declares({"sload"}, {"Storage"}, {})
  \cup Declares({"sstore"}, {}, {"Storage"})
  \cup Declares({"tload"}, {"TransientStorage"}, {})
  \cup Declares({"tstore"}, {}, {"TransientStorage"})
  \cup Declares({"mload", "msize", "keccak256"}, {"Memory"}, {})
  \cup Declares({"mstore", "mstore8", "calldatacopy"}, {}, {"Memory"})
  \cup Declares({"mcopy"}, {"Memory"}, {"Memory"})

AccountEffects ==
  Declares({"selfbalance", "balance", "extcodesize", "extcodehash"}, {"Default"}, {})
  \cup Declares({"codecopy"}, {}, {"Memory"})
  \cup Declares({"extcodecopy"}, {"Default"}, {"Memory"})
  \cup Declares({"returndatasize"}, {"ReturnData"}, {})
  \cup Declares({"returndatacopy"}, {"ReturnData"}, {"Memory"})

LogEffects == Declares({"log0", "log1", "log2", "log3", "log4"}, {"Memory"}, {"Log"})

(* Variant of CallEffects in which a creation only reads. *)
creationReads ==
  Declares({"call", "delegatecall", "callcode"}, {"Memory", "Default"},
           {"Memory", "ReturnData", "Default"})
  \cup Declares({"delegatecall", "callcode"}, {"Storage"}, {"Storage"})
  \cup Declares({"staticcall"}, {"Memory", "Default"}, {"Memory", "ReturnData"})
  \cup Declares({"create", "create2"}, {"Memory"}, {})

CallEffects ==
  Declares({"call", "delegatecall", "callcode"}, {"Memory", "Default"},
           {"Memory", "ReturnData", "Default"})
  \cup Declares({"delegatecall", "callcode"}, {"Storage"}, {"Storage"})
  \cup Declares({"staticcall"}, {"Memory", "Default"}, {"Memory", "ReturnData"})
  \cup Declares({"create", "create2"}, {"Memory"}, {"Default"})

EndEffects ==
  Declares({"return", "revert"}, {"Memory"}, {"ReturnData"})
  \cup Declares({"selfdestruct"}, {"Default"}, {"Default"})

Effects == StateEffects \cup AccountEffects \cup LogEffects \cup CallEffects \cup EndEffects

PureOps ==
  {"addmod", "mulmod", "exp", "signextend", "byte", "calldataload", "calldatasize",
   "caller", "callvalue", "origin", "gasprice", "address", "codesize", "number",
   "timestamp", "coinbase", "gaslimit", "basefee", "prevrandao", "chainid",
   "blobbasefee", "blockhash", "blobhash"}

PureArithOps ==
  {"constant", "addi", "muli", "subi", "divui", "divsi", "remui", "remsi", "cmpi",
   "andi", "ori", "xori", "shli", "shrui", "shrsi", "ctlz"}

Declaring(kind) == {e[1] : e \in {f \in Effects : f[2] = kind}}

Readers == Declaring("Read")
Writers == Declaring("Write")

declaresRead(name)  == name \in Readers
declaresWrite(name) == name \in Writers

(* MemoryEffectOpInterface: gas, pc, stop and invalid do not have it, nor   *)
(* has func.call.                                                           *)
hasInterface(name) == name \in PureOps \cup PureArithOps \cup Readers \cup Writers

hasNoEffect(name) == ~declaresRead(name) /\ ~declaresWrite(name)

onlyReads(name) == declaresRead(name) /\ ~declaresWrite(name)

(* Variant of canRecompute that accepts operations which read. *)
recomputeReaders(name) == hasInterface(name) /\ ~declaresWrite(name)

(* EVMCostModel::canRecompute(), and isMemoryEffectFree() of MLIR. *)
canRecompute(name) == hasInterface(name) /\ hasNoEffect(name)
=============================================================================
