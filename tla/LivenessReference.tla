-------------------------- MODULE LivenessReference --------------------------
(***************************************************************************)
(* What LivenessInfo takes for granted of a function, its SSA form, and a   *)
(* reference definition of liveness, along the paths of the function and    *)
(* without the block summaries and the fixed point of LivenessInfo.         *)
(*                                                                          *)
(* A point <<b, i>> lies just before the i-th operation of block b; the     *)
(* point <<b, Len(ops) + 1>> lies after its terminator.                     *)
(***************************************************************************)
EXTENDS LivenessInfo

(* Functions in SSA form, as MLIR verifies it: there is a block, operands   *)
(* are values of the function, and no value is defined twice.               *)
IsSSA(fn) ==
  /\ Len(fn) \in Nat \ {0}
  /\ \A b \in 1..Len(fn) :
       /\ Len(fn[b].args) \in Nat
       /\ Len(fn[b].ops) \in Nat
       /\ fn[b].succs \subseteq 1..Len(fn)
       /\ \A j, k \in 1..Len(fn[b].args) : fn[b].args[j] = fn[b].args[k] => j = k
       /\ Arguments(fn[b]) \cap OpDefs(fn[b]) = {}
       /\ \A c \in 1..Len(fn) \ {b} : Defs(fn[b]) \cap Defs(fn[c]) = {}
       /\ \A i \in 1..Len(fn[b].ops) :
            LET op == fn[b].ops[i]
            IN  /\ Len(op.operands) \in Nat
                /\ Uses(op) \subseteq FunctionValues(fn)
                /\ IsFiniteSet(op.results)
                /\ \A j \in 1..Len(fn[b].ops) \ {i} :
                     op.results \cap fn[b].ops[j].results = {}

(* No part of the function is out of reach of its entry block. *)
EveryBlockReached(fn) ==
  \A B \in SUBSET (1..Len(fn)) :
    1 \in B /\ (\A b \in B : fn[b].succs \subseteq B) => B = 1..Len(fn)

-----------------------------------------------------------------------------
(* Points, and how control passes them. *)

Points(fn) ==
  UNION {{<<b, i>> : i \in 1..(Len(fn[b].ops) + 1)} : b \in 1..Len(fn)}

EndOf(fn, b) == <<b, Len(fn[b].ops) + 1>>

(* The points control reaches next. *)
After(fn, p) ==
  IF p = EndOf(fn, p[1]) THEN {<<s, 1>> : s \in fn[p[1]].succs}
  ELSE {<<p[1], p[2] + 1>>}

UsedAt(fn, p, v) ==
  p # EndOf(fn, p[1]) /\ v \in Uses(fn[p[1]].ops[p[2]])

(* v is not defined anew on the way from p to the next point q. *)
Survives(fn, p, q, v) ==
  IF p = EndOf(fn, p[1])
  THEN \A k \in 1..Len(fn[q[1]].args) : fn[q[1]].args[k] # v
  ELSE v \notin fn[p[1]].ops[p[2]].results

(* The points control reaches from the entry before v is defined. *)
PassedTo(fn, P, v) ==
  {q \in Points(fn) : \E p \in P : q \in After(fn, p) /\ Survives(fn, p, q, v)}

Avoiding(fn, v) ==
  LET closure[P \in SUBSET Points(fn)] ==
        LET more == P \cup PassedTo(fn, P, v)
        IN  IF more = P THEN P ELSE closure[more]
  IN  closure[{p \in {<<1, 1>>} : v \notin Arguments(fn[1])}]

(* Definitions dominate uses, as MLIR verifies it: no way through the       *)
(* function comes to a use without passing the definition.                  *)
UsesDominated(fn) ==
  \A v \in FunctionValues(fn) : \A p \in Avoiding(fn, v) : ~UsedAt(fn, p, v)

-----------------------------------------------------------------------------
(* Liveness. *)

(* The points from which a use of v is reached before v is defined: the     *)
(* smallest set that contains the uses and is closed backwards.             *)
ReachedFrom(fn, P, v) ==
  {p \in Points(fn) : \E q \in After(fn, p) \cap P : Survives(fn, p, q, v)}

LivePoints(fn, v) ==
  LET closure[P \in SUBSET Points(fn)] ==
        LET more == P \cup ReachedFrom(fn, P, v)
        IN  IF more = P THEN P ELSE closure[more]
  IN  closure[{p \in Points(fn) : UsedAt(fn, p, v)}]

LiveAt(fn, p) == {v \in FunctionValues(fn) : p \in LivePoints(fn, v)}

(* MLIR's liveness is exact: what it says is live at the end of a block is  *)
(* live there along the paths of the function.                              *)
LivenessIsExact(fn) ==
  \A b \in 1..Len(fn) : getLiveOut(fn, b) = LiveAt(fn, EndOf(fn, b))

(* The pairs <<v, w>> such that w is live where v is defined: after the      *)
(* defining operation, as one of its operands, or at the start of the block *)
(* that has v as an argument.                                               *)
LiveAtDefinition(fn) ==
  UNION {
    (Defs(fn[b]) \ OpDefs(fn[b])) \X LiveAt(fn, <<b, 1>>) \cup
    UNION {fn[b].ops[i].results \X
             (Uses(fn[b].ops[i]) \cup LiveAt(fn, <<b, i + 1>>))
             : i \in 1..Len(fn[b].ops)}
    : b \in 1..Len(fn)}

(* Of two values that are ever live together one is live where the other is *)
(* defined, and an argument that is ever live is live at the start of its   *)
(* block.                                                                   *)
LiveFromDefinitions(fn) ==
  \A p \in Points(fn) : LET live == LiveAt(fn, p) IN
    /\ \A v, w \in live :
         v # w => \/ <<v, w>> \in LiveAtDefinition(fn)
                  \/ <<w, v>> \in LiveAtDefinition(fn)
    /\ \A b \in 1..Len(fn) : \A v \in Arguments(fn[b]) \cap live :
         v \in LiveAt(fn, <<b, 1>>)
=============================================================================
