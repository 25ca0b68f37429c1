------------------------ MODULE MCInterferenceBuilder ------------------------
(***************************************************************************)
(* Small SSA functions for InterferenceBuilder: a straight line, a diamond  *)
(* whose last block takes arguments, and a loop.  Values are numbers, and   *)
(* an operation uses only values that dominate it.                          *)
(***************************************************************************)
EXTENDS InterferenceBuilder

LOCAL INSTANCE SequencesExt   \* SetToSeq

(* Up to n operands chosen from S. *)
Operands(S, n) == {SetToSeq(T) : T \in {U \in SUBSET S : Cardinality(U) <= n}}

Op(results, operands)   == [results |-> results, operands |-> operands]
Block(args, ops, succs) == [args |-> args, ops |-> ops, succs |-> succs]

(* A function of one argument; operation 3 may have the two results 3, 4. *)
StraightLines ==
  {<<Block(<<1>>, <<Op({2}, o2), Op(r3, o3), Op({5}, o5), Op({}, o6)>>, {})>> :
     o2 \in Operands({1}, 1), o3 \in Operands({1, 2}, 2), r3 \in {{3}, {3, 4}},
     o5 \in Operands({1, 2, 3}, 2), o6 \in Operands({2, 3, 5}, 2)}

(* Block 2 goes straight to block 4, block 3 computes something first; both *)
(* pass one value for argument 5 and one for argument 6.                    *)
Diamonds ==
  {<<Block(<<1, 2>>, <<Op({3}, o3), Op({}, <<3>>)>>, {2, 3}),
     Block(<<>>, <<Op({}, <<1, 3>>)>>, {4}),
     Block(<<>>, <<Op({4}, o4), Op({}, <<4, p4>>)>>, {4}),
     Block(<<5, 6>>, <<Op({7}, o7), Op({}, o8)>>, {})>> :
     o3 \in Operands({1, 2}, 1), o4 \in Operands({1, 2, 3}, 1),
     p4 \in {1, 4}, o7 \in Operands({2, 5, 6}, 2), o8 \in Operands({1, 6, 7}, 1)}

(* Block 2 is a loop with two arguments. *)
Loops ==
  {<<Block(<<1>>, <<Op({2}, <<1>>), Op({}, <<1, 2>>)>>, {2}),
     Block(<<3, 4>>, <<Op({5}, o5), Op({}, o6)>>, {2, 3}),
     Block(<<>>, <<Op({6}, o7), Op({}, <<6>>)>>, {})>> :
     o5 \in Operands({1, 2, 3, 4}, 2), o6 \in Operands({3, 4, 5}, 2),
     o7 \in Operands({1, 4, 5}, 1)}

SmallFunctions == StraightLines \cup Diamonds \cup Loops
=============================================================================
