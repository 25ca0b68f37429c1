--------------------------- MODULE MCDialectExecution ---------------------------
(***************************************************************************)
(* Blocks made of two operations, in any order and repeated, over all the   *)
(* operations there are.  The second one needs more memory than the first.  *)
(***************************************************************************)
EXTENDS DialectExecution

Names ==
  Readers \cup Writers \cup PureOps \cup {"addi", "constant", "gas", "pc"}

On(name, operands) == [name |-> name, operands |-> operands]

Ends == {"return", "revert", "selfdestruct"}

(* Calls and creations may change every part.  For each part there is an    *)
(* operation that reads it.  (callcode and create2 declare and do the same  *)
(* as delegatecall and create.)                                             *)
Calls == {"call", "callcode", "delegatecall", "create", "create2", "inline_bytecode"}

PartReaders == {"sload", "tload", "mload", "balance", "returndatasize", "gas", "caller"}

(* The first operation declares no write. *)
Pairs ==
  {{On(n, 1), On(m, 2)} : n \in Names \ Writers, m \in Names \ (Ends \cup Calls)}
  \cup {{On(n, 1), On(m, 2)} : n \in PartReaders, m \in {"call", "create"}}
  \cup {{On(n, 1), On(m, 2)} :
          n \in {"sload", "tload"}, m \in {"delegatecall", "inline_bytecode"}}

Bits == {0, 1}

Memory == {{On("msize", 0), On("mload", 1)}}
=============================================================================
