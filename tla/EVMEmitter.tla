------------------------------ MODULE EVMEmitter ------------------------------
(***************************************************************************)
(* The skeleton of a contract as EVMEmitter (CodeGen/EVMEmitter.cpp) lays   *)
(* it out: dispatcher and functions in the runtime code, constructor and    *)
(* return of the runtime code in the deployment code.                       *)
(*                                                                          *)
(* A module is a sequence of functions.  A function is a record of its      *)
(* kind, its visibility, its selector and its body, as in FunctionEmitter.  *)
(***************************************************************************)
EXTENDS BinarySearchDispatcher, FunctionEmitter

LOCAL INSTANCE SequencesExt   \* FoldLeft, SelectInSeq, SelectLastInSeq

NoSelector == -1   \* a function without evm.selector

(* What verifyOperationAttribute demands of each function, and verifyModule *)
(* of the module.                                                           *)
VerifiedFunction(f) ==
  f.visibility = "internal" => f.kind = "function" /\ f.selector = NoSelector

AtMostOne(module, kind) ==
  \A i, j \in 1..Len(module) :
    module[i].kind = kind /\ module[j].kind = kind => i = j

Verified(module) ==
  /\ \A i \in 1..Len(module) : VerifiedFunction(module[i])
  /\ AtMostOne(module, "constructor")
  /\ AtMostOne(module, "fallback")

-----------------------------------------------------------------------------
(* The runtime code. *)

IsEntry(f) ==
  /\ f.selector # NoSelector
  /\ f.visibility = "external"
  /\ f.kind = "function"

Entry(module, i) ==
  [selector |-> module[i].selector, label |-> EntryLabel(module, i),
   args |-> Len(module[i].body[1].args)]

DispatchEntries(module) ==
  LET indices == SelectSeq([i \in 1..Len(module) |-> i],
                           LAMBDA i : IsEntry(module[i]))
  IN  [k \in 1..Len(indices) |-> Entry(module, indices[k])]

(* A fallback counts only if it has a selector. *)
FallbackLabel(module) ==
  LET i == SelectLastInSeq(module, LAMBDA f : f.kind = "fallback"
                                              /\ f.selector # NoSelector)
  IN  IF i = 0 THEN NoLabel ELSE EntryLabel(module, i)

(* The dispatcher has sorted its entries into the given order. *)
emitRuntime(module, layout, sorted) ==
  LET dispatch == emitBinarySearch(sorted, emitSelectorLoad(Labelled(module)),
                                   FallbackLabel(module))
  IN  FoldLeft(LAMBDA e, f : emitFunction(UnitOf(module, f, layout), e),
               Emitter(dispatch), [f \in 1..Len(module) |-> f]).stream

-----------------------------------------------------------------------------
(* The deployment code. *)

(* The blocks of the constructor, the first of them without a label.  The   *)
(* labels are those of the runtime code's stream.                           *)
emitConstructor(unit, emitter) ==
  FoldLeft(LAMBDA e, b : IF b = 1 THEN emitOps(unit, e, 1) ELSE emitBlock(unit, e, b),
           ResetTracker(emitter), [b \in 1..Len(unit.body) |-> b])

ConstructorCode(module, layout) ==
  LET i == SelectInSeq(module, LAMBDA f : f.kind = "constructor")
  IN  IF i = 0 THEN NewStream
      ELSE emitConstructor(UnitOf(module, i, layout), Emitter(NewStream)).stream

(* Variant of CopyRuntime with destination and source swapped. *)
copySwapped(runtimeStart, runtimeSize) ==
  <<PushInstr(runtimeSize), PushInstr(0), LabelRefInstr(runtimeStart),
    OpcodeInstr(CODECOPY)>>

CopyRuntime(runtimeStart, runtimeSize) ==
  <<PushInstr(runtimeSize), LabelRefInstr(runtimeStart), PushInstr(0),
    OpcodeInstr(CODECOPY)>>

(* After the code of the constructor: the runtime code is copied and         *)
(* returned.                                                                *)
DeployAfter(constructed, runtimeSize) ==
  LET runtimeStart == createdLabel(constructed)
  IN  emitAll(createLabel(constructed),
        CopyRuntime(runtimeStart, runtimeSize)
        \o <<PushInstr(runtimeSize), PushInstr(0), OpcodeInstr(RETURN),
             LabelDefInstr(runtimeStart)>>)

emitDeploy(module, layout, runtimeSize) ==
  DeployAfter(ConstructorCode(module, layout), runtimeSize)

emitModule(module, layout, sorted) ==
  LET runtime == finalize(emitRuntime(module, layout, sorted))
  IN  [runtimeBytecode |-> runtime,
       deployBytecode  |-> finalize(emitDeploy(module, layout, Len(runtime)))]
=============================================================================
