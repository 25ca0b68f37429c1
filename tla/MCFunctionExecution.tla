-------------------------- MODULE MCFunctionExecution --------------------------
(***************************************************************************)
(* Small programs for FunctionExecution.  Values are numbers.               *)
(***************************************************************************)
EXTENDS FunctionExecution

LOCAL INSTANCE SequencesExt   \* BoundedSeq

Op(name, results, operands) == [name |-> name, results |-> results, operands |-> operands]

Constant(r, value) == Op("constant", {r}, <<>>) @@ [value |-> value]

(* The operation with as many operands as there are given; the values that  *)
(* they compute may be computed again.                                      *)
Plain(r, operands) ==
  Op(<<"caller", "calldataload", "exp", "addmod">>[Len(operands) + 1], {r}, operands)

Effect(operands) == Op(<<"sload", "sstore", "calldatacopy">>[Len(operands)], {}, operands)

(* Ways to end the execution. *)
End(operands) ==
  {Op(name, {}, operands) :
     name \in <<{"stop", "invalid"}, {"selfdestruct"}, {"return", "revert"}>>[Len(operands) + 1]}

Return(operands) == Op("func.return", {}, operands)

BranchWith(b, operands) == Op("cf.br", {}, operands) @@ [dest |-> b]

Branch(b) == BranchWith(b, <<>>)

CondBranchWith(condition, ifTrue, trueOperands, ifFalse, falseOperands) ==
  Op("cf.cond_br", {}, <<condition>> \o trueOperands \o falseOperands)
  @@ [trueDest |-> ifTrue, trueArgs |-> Len(trueOperands), falseDest |-> ifFalse]

CondBranch(condition, ifTrue, ifFalse) ==
  CondBranchWith(condition, ifTrue, <<>>, ifFalse, <<>>)

CallTo(f, operands, returns) ==
  Op("func.call", {returns[k] : k \in 1..Len(returns)}, operands)
  @@ [callee |-> f - 1, returns |-> returns]

BlockOf(args, ops, succs) == [args |-> args, ops |-> ops, succs |-> succs]

Block(ops, succs) == BlockOf(<<>>, ops, succs)

Function(visibility, body) ==
  [kind |-> "function", visibility |-> visibility, body |-> body]

OnStack == [v \in 1..8 |-> StackLoc(0)]

(* All but one on the stack. *)
Mixed == {[OnStack EXCEPT ![v] = loc] : v \in 1..4, loc \in {SpilledLoc(32), RecomputeLoc}}

Operands(S, low, high) ==
  {s \in BoundedSeq(S, high) : Len(s) >= low}

Body(a, b, returned) ==
  <<Constant(1, 0), Constant(2, 7), Plain(3, a), Plain(4, b), Return(returned)>>

(* Two constants and two operations, in one block. *)
OneBlock ==
  {<<Function("external", <<Block(Body(a, b, r), {})>>)>> :
     a \in Operands({1, 2}, 1, 2), b \in Operands({1, 2, 3}, 1, 3),
     r \in Operands({1, 2, 3, 4}, 0, 2)}

(* The same in two blocks, the second one entered from the first. *)
TwoBlocks ==
  {<<Function("external",
       <<Block(<<Constant(1, 0), Plain(2, a), Branch(2)>>, {2}),
         Block(<<Constant(3, 7), Plain(4, b), Plain(5, c), Return(<<5>>)>>, {})>>)>> :
     a \in Operands({1}, 0, 2), b \in Operands({1, 2, 3}, 1, 2), c \in Operands({2, 3, 4}, 1, 2)}

(* The second constant comes from an internal function, which ignores the   *)
(* arguments it is called with.                                             *)
WithCall ==
  {<<Function("external",
       <<Block(<<Constant(1, 0), CallTo(2, c, <<2>>), Plain(3, a), Return(r)>>, {})>>),
     Function("internal",
       <<BlockOf(SubSeq(<<5, 6>>, 1, Len(c)), <<Constant(4, 7), Return(<<4>>)>>, {})>>)>> :
     c \in Operands({1}, 0, 2), a \in Operands({1, 2}, 1, 3),
     r \in Operands({1, 2, 3}, 0, 2)}

(* Two outcomes of a condition, one of which computes something. *)
Conditionals ==
  {<<Function("external",
       <<Block(<<Constant(1, 0), CondBranch(1, 3, 2)>>, {2, 3}),
         Block(<<Constant(2, 7), Plain(3, a), Return(r)>>, {}),
         Block(<<Constant(4, 9), last>>, {})>>)>> :
     a \in Operands({1, 2}, 1, 2), r \in Operands({1, 2, 3}, 0, 2),
     last \in End(<<>>) \cup {Return(<<4>>)}}

(* Operations without a result, before a return or as the last one. *)
Effecting ==
  {<<Function("external",
       <<Block(<<Constant(1, 0), Constant(2, 7), Plain(3, a)>> \o last, {})>>)>> :
     a \in Operands({1, 2}, 1, 2),
     last \in {<<Effect(e), Return(r)>> : e \in Operands({1, 2, 3}, 2, 3), r \in {<<>>, <<3>>}}
             \cup UNION {{<<end>> : end \in End(e)} : e \in Operands({1, 2, 3}, 0, 2)}}

(* Values passed to a block that is entered from one block only, ... *)
Passing ==
  UNION {{<<Function("external",
              <<Block(<<Constant(1, 0), Constant(2, 7), Plain(3, a), BranchWith(2, p)>>, {2}),
                BlockOf(SubSeq(<<5, 6>>, 1, Len(p)),
                        <<Constant(4, 9), Plain(7, c), Return(<<7>>)>>, {})>>)>> :
            a \in Operands({1, 2}, 1, 2), c \in Operands(4..(4 + Len(p)), 1, 3)} :
         p \in Operands({1, 2, 3}, 1, 2)}

(* ... from two blocks, one of which may be passed a value itself, ... *)
Triangles ==
  {<<Function("external",
       <<Block(<<Constant(1, 0), Constant(2, 7), Plain(3, a),
                 CondBranchWith(c, 3, <<p>>, 2, q)>>, {2, 3}),
         BlockOf(SubSeq(<<5>>, 1, Len(q)),
                 <<Constant(4, 9), BranchWith(3, <<4 + Len(q)>>)>>, {3}),
         BlockOf(<<6>>, <<Plain(7, <<6>>), Return(<<7>>)>>, {})>>)>> :
     a \in Operands({1, 2}, 1, 2), c \in 1..3, p \in 1..3,
     q \in Operands({1, 2, 3}, 0, 1)}

(* ... or to one or both outcomes of a condition. *)
Diamonds ==
  {<<Function("external",
       <<Block(<<Constant(1, 0), Constant(2, 7), Plain(3, a),
                 CondBranchWith(3, 3, p, 2, q)>>, {2, 3}),
         BlockOf(SubSeq(<<4, 5>>, 1, Len(q)),
                 <<Plain(6, SubSeq(<<5, 4>>, 3 - Len(q), 2)), Return(<<6>>)>>, {}),
         BlockOf(SubSeq(<<7>>, 1, Len(p)),
                 <<Op(IF p = <<>> THEN "stop" ELSE "selfdestruct", {}, SubSeq(<<7>>, 1, Len(p)))>>,
                 {})>>)>> :
     a \in {<<>>, <<1>>, <<2>>}, p \in Operands({1, 2}, 0, 1), q \in Operands({1, 2, 3}, 1, 2)}

(* Comparisons, also with zero, and exclusive or, also with all ones. *)
Comparisons ==
  {<<Function("external",
       <<Block(<<Constant(1, 0), Constant(2, AllOnes), Plain(3, a), compare,
                 Plain(5, c), Return(<<5>>)>>, {})>>)>> :
     a \in {<<1>>, <<2>>},
     compare \in {Op("cmpi", {4}, <<x, y>>) @@ [predicate |-> p] :
                    x \in 1..3, y \in 1..3, p \in {"ult", "eq", "ne"}}
                \cup {Op("xori", {4}, <<x, y>>) : x \in 1..3, y \in 1..3},
     c \in Operands({1, 2, 3, 4}, 2, 2)}

(* Three operations, some of whose results are computed again for each use. *)
Chains ==
  {<<Function("external",
       <<Block(<<Constant(1, 0), Constant(2, 7), Plain(3, a), Plain(4, b), Plain(5, c),
                 Return(<<5>>)>>, {})>>)>> :
     a \in Operands({1, 2}, 0, 2), b \in Operands({1, 2, 3}, 0, 2),
     c \in Operands({1, 2, 3, 4}, 1, 2)}

Recomputing ==
  {[v \in 1..8 |-> IF v \in S THEN RecomputeLoc ELSE StackLoc(0)] : S \in {{3}, {4}, {3, 4}}}

Given(programs, layouts) == [functions : programs, layout : layouts]

SmallPrograms ==
  Given(OneBlock \cup Effecting \cup Passing \cup Triangles \cup Diamonds \cup Comparisons,
        {OnStack})
  \cup Given(TwoBlocks \cup WithCall \cup Conditionals, {OnStack} \cup Mixed)
  \cup Given(Chains, Recomputing)

(* The function of test/Dialect/EVM/exp.mlir. *)
ExpPrograms ==
  Given({<<Function("external",
             <<Block(<<Constant(1, 2), Constant(2, 10), Plain(3, <<1, 2>>),
                       Return(<<3>>)>>, {})>>)>>}, {OnStack})

(* Seventeen values that are returned, the last of them spilled. *)
SpillPrograms ==
  Given({<<Function("external",
             <<Block([v \in 1..17 |-> Op("selfbalance", {v}, <<>>)]
                     \o <<Return([v \in 1..17 |-> v])>>, {})>>)>>},
        {[v \in 1..17 |-> IF v = 17 THEN SpilledLoc(0) ELSE StackLoc(v - 1)]})

(* A constant that is computed again where it is needed, and returned.      *)
ConstantPrograms ==
  Given({<<Function("external", <<Block(<<Constant(1, 7), Return(<<1>>)>>, {})>>)>>},
        {[v \in 1..1 |-> RecomputeLoc]})
=============================================================================
