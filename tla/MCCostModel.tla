------------------------------ MODULE MCCostModel ------------------------------
(***************************************************************************)
(* The cost model asked about the last of seven values that each use the    *)
(* value before: long enough for MAX_DEPTH, dear enough for every threshold.*)
(***************************************************************************)
EXTENDS CostModel

Op(name, operands) == [name |-> name, operands |-> operands]

(* How value v may be computed: from nothing, or from the value before it,  *)
(* once, twice, or with the argument.                                       *)
Definitions(v) ==
  {Op("caller", <<>>), Op("calldataload", <<v - 1>>), Op("addi", <<v - 1, v - 1>>),
   Op("muli", <<1, v - 1>>)}

Pure ==
  {<<Argument, Op("constant", <<>>) @@ [value |-> 1], d3, d4, d5, d6, d7>> :
     d3 \in Definitions(3), d4 \in Definitions(4), d5 \in Definitions(5),
     d6 \in Definitions(6), d7 \in Definitions(7)}

(* An operation that reads the state, a comparison with and one without an  *)
(* opcode, or a dear operation.                                             *)
MCFunctions ==
  Pure \cup {[defs EXCEPT ![3] = Op("sload", <<2>>)] : defs \in Pure}
       \cup {[defs EXCEPT ![5] = Op("cmpi", <<4, 4>>) @@ [predicate |-> p]] :
                defs \in Pure, p \in {"ne", "eq"}}
       \cup {[defs EXCEPT ![4] = Op("blockhash", <<3>>)] : defs \in Pure}

MCAsked  == {7}
MCStacks == {{}, {1}, {1, 2}}

(* Memories with and without a free word: empty, of 22 words, where the     *)
(* EVM's rounding differs from the code's, and so large that words are dear.*)
MCMemories ==
  [nextOffset : {0, 22 * WordSize, 10000 * WordSize}, freeList : {<<>>, <<0>>}]

(* The gas of the opcodes in the Yellow Paper, and nothing for operations  *)
(* that may not run again.                                                  *)
MCGas ==
  LET named == [caller |-> 2, constant |-> 3, calldataload |-> 3, addi |-> 3,
                muli |-> 5, blockhash |-> 20]
  IN  [kind \in {<<name, "">> : name \in DOMAIN named} |-> named[kind[1]]]
      @@ (<<"cmpi", "eq">> :> 3) @@ (<<"constant", "zero">> :> 2)
=============================================================================
