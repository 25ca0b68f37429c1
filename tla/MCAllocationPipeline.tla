------------------------- MODULE MCAllocationPipeline -------------------------
(***************************************************************************)
(* Functions whose values exceed a stack of two, on a straight line, across *)
(* a diamond and around a loop.                                             *)
(***************************************************************************)
EXTENDS AllocationPipeline

LOCAL INSTANCE SequencesExt   \* SetToSeq

Operands(S, n) == {SetToSeq(T) : T \in {U \in SUBSET S : Cardinality(U) <= n}}

Op(results, operands)   == [results |-> results, operands |-> operands]
Block(args, ops, succs) == [args |-> args, ops |-> ops, succs |-> succs]

(* Constant 2, and values computed from it and the argument. *)
StraightLines ==
  {<<Block(<<1>>, <<Op({2}, <<>>), Op({3}, o3), Op({4}, o4), Op({5}, o5),
                    Op({}, o6)>>, {})>> :
     o3 \in {<<>>, <<1, 2>>}, o4 \in {<<1>>, <<3>>},
     o5 \in {<<4>>, <<2, 3>>}, o6 \in Operands({1, 2, 5}, 2)}

(* Both arms pass a value for the argument 5 of the last block. *)
Diamonds ==
  {<<Block(<<1, 2>>, <<Op({3}, <<>>), Op({}, <<1>>)>>, {2, 3}),
     Block(<<>>, <<Op({}, o4)>>, {4}),
     Block(<<>>, <<Op({4}, <<2, 3>>), Op({}, <<4>>)>>, {4}),
     Block(<<5>>, <<Op({}, o5)>>, {})>> :
     o4 \in {<<2>>, <<3>>}, o5 \in Operands({1, 2, 3, 5}, 2)}

(* A loop with two arguments; constant 2 is needed in it or after it. *)
Loops ==
  {<<Block(<<1>>, <<Op({2}, <<>>), Op({}, <<1, 2>>)>>, {2}),
     Block(<<3, 4>>, <<Op({5}, o5), Op({}, o6)>>, {2, 3}),
     Block(<<>>, <<Op({}, o7)>>, {})>> :
     o5 \in Operands({2, 3, 4}, 2), o6 \in Operands({3, 5}, 2),
     o7 \in {<<2>>, <<5>>}}

SmallFunctions == StraightLines \cup Diamonds \cup Loops

FiveValues == 1..5
=============================================================================
