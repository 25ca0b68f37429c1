------------------------- MODULE DialectExecutionProofs -------------------------
(***************************************************************************)
(* The declared effects of the operations are sound for CSE and for         *)
(* recomputation, whatever a part of the state may hold and whatever a      *)
(* block is made of: the properties of DialectExecution as theorems.        *)
(***************************************************************************)
EXTENDS DialectExecution, TLAPS

(* What a row of the table of effects contributes. *)
LEMMA DeclaredRow ==
  ASSUME NEW names, NEW reads, NEW writes, NEW name \in names
  PROVE  /\ \A r \in reads : <<name, "Read", r>> \in Declares(names, reads, writes)
         /\ \A r \in writes : <<name, "Write", r>> \in Declares(names, reads, writes)
BY DEF Declares

(* And nothing else. *)
LEMMA OnlyDeclared ==
  ASSUME NEW names, NEW reads, NEW writes, NEW e \in Declares(names, reads, writes)
  PROVE  e[1] \in names
BY DEF Declares

LEMMA Declared ==
  ASSUME NEW kind, NEW name, NEW r, <<name, kind, r>> \in Effects
  PROVE  name \in Declaring(kind)
BY DEF Declaring

(* The operations that change a part of the state with a name declare a     *)
(* write of something.                                                      *)
LEMMA ChangersWrite ==
  ASSUME NEW name, NEW part, <<name, part>> \in Changes
  PROVE  declaresWrite(name)
<1> USE Declared, DeclaredRow DEF declaresWrite, Writers, Effects
<1>1. name \in {"sstore", "tstore", "mstore", "mstore8", "calldatacopy", "mcopy",
                "inline_bytecode"} => declaresWrite(name)
  <2>1. \A n \in {"inline_bytecode"} : <<n, "Write", "Log">> \in StateEffects
    BY DEF StateEffects, Resources
  <2>2. \A n \in {"sstore"} : <<n, "Write", "Storage">> \in StateEffects
    BY DEF StateEffects
  <2>3. \A n \in {"tstore"} : <<n, "Write", "TransientStorage">> \in StateEffects
    BY DEF StateEffects
  <2>4. \A n \in {"mstore", "mstore8", "calldatacopy"} :
          <<n, "Write", "Memory">> \in StateEffects
    BY DEF StateEffects
  <2>5. \A n \in {"mcopy"} : <<n, "Write", "Memory">> \in StateEffects
    BY DEF StateEffects
  <2> QED BY <2>1, <2>2, <2>3, <2>4, <2>5
<1>2. name \in {"codecopy", "extcodecopy", "returndatacopy"} => declaresWrite(name)
  <2>1. \A n \in {"codecopy", "extcodecopy", "returndatacopy"} :
          <<n, "Write", "Memory">> \in AccountEffects
    BY DEF AccountEffects
  <2> QED BY <2>1
<1>3. name \in {"log0", "log1", "log2", "log3", "log4"} => declaresWrite(name)
  <2>1. \A n \in {"log0", "log1", "log2", "log3", "log4"} :
          <<n, "Write", "Log">> \in LogEffects
    BY DEF LogEffects
  <2> QED BY <2>1
<1>4. name \in {"call", "callcode", "delegatecall", "staticcall", "create", "create2"}
      => declaresWrite(name)
  <2>1. \A n \in {"call", "callcode", "delegatecall", "staticcall"} :
          <<n, "Write", "Memory">> \in CallEffects
    BY DEF CallEffects
  <2>2. \A n \in {"create", "create2"} : <<n, "Write", "Default">> \in CallEffects
    BY DEF CallEffects
  <2> QED BY <2>1, <2>2
<1> QED BY <1>1, <1>2, <1>3, <1>4 DEF Changes

(* An operation whose result depends on the state declares a read, unless   *)
(* it is evm.gas or evm.pc, which do not tell their effects.                *)
LEMMA UsersRead ==
  ASSUME NEW name, NEW part, <<name, part>> \in Uses
  PROVE  declaresRead(name) \/ (name \in {"gas", "pc"} /\ part = "Machine")
<1> USE Declared, DeclaredRow DEF declaresRead, Readers, Effects
<1>1. name \in {"sload", "tload", "mload", "keccak256", "mcopy", "inline_bytecode"}
      => declaresRead(name)
  <2>1. \A n \in {"inline_bytecode"} : <<n, "Read", "Log">> \in StateEffects
    BY DEF StateEffects, Resources
  <2>2. \A n \in {"sload"} : <<n, "Read", "Storage">> \in StateEffects
    BY DEF StateEffects
  <2>3. \A n \in {"tload"} : <<n, "Read", "TransientStorage">> \in StateEffects
    BY DEF StateEffects
  <2>4. \A n \in {"mload", "msize", "keccak256"} : <<n, "Read", "Memory">> \in StateEffects
    BY DEF StateEffects
  <2>5. \A n \in {"mcopy"} : <<n, "Read", "Memory">> \in StateEffects
    BY DEF StateEffects
  <2> QED BY <2>1, <2>2, <2>3, <2>4, <2>5
<1>2. name \in {"selfbalance", "balance", "extcodesize", "extcodehash", "extcodecopy",
                "returndatasize", "returndatacopy"} => declaresRead(name)
  <2>1. \A n \in {"selfbalance", "balance", "extcodesize", "extcodehash"} :
          <<n, "Read", "Default">> \in AccountEffects
    BY DEF AccountEffects
  <2>2. \A n \in {"extcodecopy"} : <<n, "Read", "Default">> \in AccountEffects
    BY DEF AccountEffects
  <2>3. \A n \in {"returndatasize"} : <<n, "Read", "ReturnData">> \in AccountEffects
    BY DEF AccountEffects
  <2>4. \A n \in {"returndatacopy"} : <<n, "Read", "ReturnData">> \in AccountEffects
    BY DEF AccountEffects
  <2> QED BY <2>1, <2>2, <2>3, <2>4
<1>3. name \in {"log0", "log1", "log2", "log3", "log4"} => declaresRead(name)
  <2>1. \A n \in {"log0", "log1", "log2", "log3", "log4"} :
          <<n, "Read", "Memory">> \in LogEffects
    BY DEF LogEffects
  <2> QED BY <2>1
<1>4. name \in {"call", "callcode", "delegatecall", "staticcall", "create", "create2"}
      => declaresRead(name)
  <2>1. \A n \in {"call", "callcode", "delegatecall"} :
          <<n, "Read", "Memory">> \in CallEffects
    BY DEF CallEffects
  <2>2. \A n \in {"staticcall"} : <<n, "Read", "Memory">> \in CallEffects
    BY DEF CallEffects
  <2>3. \A n \in {"create", "create2"} : <<n, "Read", "Memory">> \in CallEffects
    BY DEF CallEffects
  <2> QED BY <2>1, <2>2, <2>3
<1> QED BY <1>1, <1>2, <1>3, <1>4 DEF Uses

LEMMA GasAndPcHaveNoInterface ==
  ASSUME NEW name \in {"gas", "pc"}
  PROVE  ~hasInterface(name)
<1>1. \A e \in Effects : e[1] # name
  <2>1. \A e \in StateEffects : e[1] # name
    BY OnlyDeclared DEF StateEffects
  <2>2. \A e \in AccountEffects : e[1] # name
    BY OnlyDeclared DEF AccountEffects
  <2>3. \A e \in LogEffects : e[1] # name
    BY OnlyDeclared DEF LogEffects
  <2>4. \A e \in CallEffects : e[1] # name
    BY OnlyDeclared DEF CallEffects
  <2>5. \A e \in EndEffects : e[1] # name
    BY OnlyDeclared DEF EndEffects
  <2> QED BY <2>1, <2>2, <2>3, <2>4, <2>5 DEF Effects
<1>2. name \notin Readers /\ name \notin Writers
  BY <1>1 DEF Readers, Writers, Declaring
<1>3. name \notin PureOps \cup PureArithOps
  BY DEF PureOps, PureArithOps
<1> QED BY <1>2, <1>3 DEF hasInterface

(* "Machine" is read by operations that declare a write, and by gas and pc. *)
LEMMA MachineReaders ==
  ASSUME NEW name, <<name, "Machine">> \in Uses
  PROVE  declaresWrite(name) \/ name \in {"gas", "pc"}
<1>1. name \in {"gas", "pc", "call", "callcode", "delegatecall", "staticcall", "create",
                "create2", "inline_bytecode"}
  BY DEF Uses
<1>2. name \in {"call", "callcode", "delegatecall", "staticcall"}
      => <<name, "Memory">> \in Changes
  BY DEF Changes, Resources
<1>3. name \in {"create", "create2", "inline_bytecode"} => <<name, "Log">> \in Changes
  BY DEF Changes, Resources
<1> QED BY <1>1, <1>2, <1>3, ChangersWrite

-----------------------------------------------------------------------------
(* What follows for a step. *)

(* An operation without effects reads nothing. *)
LEMMA PureReadsNothing ==
  ASSUME NEW op, NEW state, NEW other, canRecompute(op.name)
  PROVE  Read(op, state) = Read(op, other)
<1>1. \A part \in Parts : <<op.name, part>> \notin Uses
  BY UsersRead, GasAndPcHaveNoInterface DEF canRecompute, hasNoEffect
<1> QED BY <1>1 DEF Read

(* Two states that agree on the resources are the same to an operation that *)
(* declares reads only.                                                     *)
LEMMA ReadersReadResources ==
  ASSUME NEW op, NEW state, NEW other, onlyReads(op.name),
         \A part \in Resources : state[part] = other[part]
  PROVE  Read(op, state) = Read(op, other)
<1>1. hasInterface(op.name)
  BY DEF onlyReads, declaresRead, hasInterface
<1>2. <<op.name, "Machine">> \notin Uses
  BY <1>1, MachineReaders, GasAndPcHaveNoInterface DEF onlyReads
<1> QED BY <1>2 DEF Read, Parts

(* An operation that declares no write leaves the resources as they are. *)
LEMMA QuietKeepsResources ==
  ASSUME NEW op, ~declaresWrite(op.name), NEW new \in [Changed(op) -> Contents],
         NEW state \in [Parts -> Contents], NEW part \in Resources
  PROVE  After(state, new)[part] = state[part]
<1>1. <<op.name, part>> \notin Changes
  BY ChangersWrite
<1>2. part \notin Changed(op)
  BY <1>1 DEF Changed, Resources
<1> QED BY <1>2 DEF After, Parts

LEMMA AfterType ==
  ASSUME NEW op, NEW new \in [Changed(op) -> Contents], NEW state \in [Parts -> Contents]
  PROVE  After(state, new) \in [Parts -> Contents]
BY DEF After, Changed

LEMMA SizeAfterGrows ==
  ASSUME NEW op \in [name : STRING, operands : Nat], NEW size \in Nat,
         NEW smaller \in 0..size
  PROVE  /\ SizeAfter(op, size) \in Nat
         /\ smaller \in 0..SizeAfter(op, size)
         /\ SizeAfter(op, smaller) \in 0..SizeAfter(op, size)
         /\ smaller <= SizeAfter(op, smaller)
BY DEF SizeAfter

-----------------------------------------------------------------------------
(* The inductive invariant: the two EVMs agree on all resources, and what   *)
(* is known of an operation that can be merged is what it would read now.   *)
Agree == \A part \in Resources : optimized[part] = world[part]

KnownCurrent ==
  \A op \in DOMAIN known :
    Mergeable(op) => known[op].read = Read(op, optimized)

IInv == TypeOK /\ Agree /\ KnownCurrent

LEMMA InitInvariant == Init => IInv
<1> SUFFICES ASSUME Init PROVE IInv
  OBVIOUS
<1>1. TypeOK
  BY DEF Init, TypeOK
<1>2. Agree /\ KnownCurrent
  BY DEF Init, Agree, KnownCurrent
<1> QED BY <1>1, <1>2 DEF IInv

LEMMA RemoveInvariant ==
  ASSUME IInv, NEW op \in ops, NEW new \in [Changed(op) -> Contents],
         ~declaresWrite(op.name), Remove(op, new)
  PROVE  IInv'
<1> op \in [name : STRING, operands : Nat]
  BY VocabulariesAssumption DEF IInv, TypeOK
<1>1. TypeOK'
  <2>1. world' \in [Parts -> Contents]
    BY AfterType DEF IInv, TypeOK, Remove, ExecuteAsWritten
  <2>2. worldSize' \in Nat /\ optimizedSize' \in 0..worldSize'
    BY SizeAfterGrows DEF IInv, TypeOK, Remove, ExecuteAsWritten
  <2> QED BY <2>1, <2>2 DEF IInv, TypeOK, Remove
<1>2. Agree'
  BY QuietKeepsResources DEF IInv, TypeOK, Agree, Remove, ExecuteAsWritten
<1>3. KnownCurrent'
  BY DEF IInv, KnownCurrent, Mergeable, Remove
<1> QED BY <1>1, <1>2, <1>3 DEF IInv

LEMMA KeepInvariant ==
  ASSUME IInv, NEW op \in ops, NEW new \in [Changed(op) -> Contents], Keep(op, new)
  PROVE  IInv'
<1> op \in [name : STRING, operands : Nat]
  BY VocabulariesAssumption DEF IInv, TypeOK
<1> DEFINE learned == IF declaresWrite(op.name) THEN {} ELSE {op}
           entry   == [read |-> Read(op, optimized), size |-> optimizedSize,
                       clean |-> ~MayWrite(op)]
<1>0. /\ DOMAIN known' = DOMAIN known \cup learned
      /\ \A other \in DOMAIN known' :
           known'[other] = IF other = op THEN entry
                           ELSE [known[other] EXCEPT !.clean = @ /\ ~MayWrite(op)]
  BY DEF Keep, Seen
<1>1. world' \in [Parts -> Contents] /\ optimized' \in [Parts -> Contents]
  BY AfterType DEF IInv, TypeOK, Keep, ExecuteAsWritten
<1>2. /\ worldSize' \in Nat
      /\ optimizedSize' \in 0..worldSize'
      /\ optimizedSize \in 0..optimizedSize'
  BY SizeAfterGrows DEF IInv, TypeOK, Keep, ExecuteAsWritten
<1>3. TypeOK'
  <2>1. DOMAIN known' \subseteq ops'
    BY <1>0 DEF IInv, TypeOK, Keep
  <2>2. ASSUME NEW other \in DOMAIN known'
        PROVE  /\ known'[other].read = Read(other, known'[other].read)
               /\ known'[other].clean \in BOOLEAN
               /\ known'[other].size \in 0..optimizedSize'
    <3>1. CASE other = op
      <4>1. known'[other] = entry
        BY <1>0, <2>2, <3>1
      <4>2. entry.clean \in BOOLEAN /\ entry.size \in 0..optimizedSize'
        BY <1>2 DEF MayWrite, declaresWrite, hasInterface
      <4>3. Read(op, optimized) = Read(op, Read(op, optimized))
        BY DEF Read
      <4> QED BY <3>1, <4>1, <4>2, <4>3
    <3>2. CASE other # op
      <4>1. other \in DOMAIN known
        BY <1>0, <3>2
      <4>2. known'[other] = [known[other] EXCEPT !.clean = @ /\ ~MayWrite(op)]
        BY <1>0, <2>2, <3>2
      <4>3. /\ known[other].read = Read(other, known[other].read)
            /\ known[other].clean \in BOOLEAN
            /\ known[other].size \in 0..optimizedSize
        BY <4>1 DEF IInv, TypeOK
      <4> QED BY <1>2, <4>2, <4>3 DEF IInv, TypeOK
    <3> QED BY <3>1, <3>2
  <2>3. ops' \in Vocabularies
    BY DEF IInv, TypeOK, Keep
  <2> QED BY <1>1, <1>2, <2>1, <2>2, <2>3 DEF TypeOK
<1>4. Agree'
  BY DEF IInv, TypeOK, Agree, Keep, ExecuteAsWritten, After, Parts
<1>5. KnownCurrent'
  <2> SUFFICES ASSUME NEW other \in DOMAIN known', Mergeable(other)'
               PROVE  known'[other].read = Read(other, optimized')
    BY DEF KnownCurrent, Read
  <2>0. ASSUME ~declaresWrite(op.name), NEW part \in Resources
        PROVE  optimized'[part] = optimized[part]
    <3>1. optimized \in [Parts -> Contents] /\ optimized' = After(optimized, new)
      BY DEF IInv, TypeOK, Keep
    <3> QED BY <2>0, <3>1, QuietKeepsResources
  <2>1. CASE other = op
    <3>0. known'[other] = entry
      BY <1>0, <2>1
    <3>1. known'[other].read = Read(op, optimized)
      BY <3>0
    <3>2. CASE canRecompute(op.name)
      BY <3>1, <3>2, <2>1, PureReadsNothing
    <3>3. CASE onlyReads(op.name)
      <4>1. \A part \in Resources : optimized'[part] = optimized[part]
        BY <2>0, <3>3 DEF onlyReads
      <4> QED BY <3>1, <3>3, <4>1, <2>1, ReadersReadResources
    <3> QED BY <2>1, <3>2, <3>3 DEF Mergeable
  <2>2. CASE other # op
    <3>1. other \in DOMAIN known
      BY <1>0, <2>2
    <3>2. known'[other] = [known[other] EXCEPT !.clean = @ /\ ~MayWrite(op)]
      BY <1>0, <2>2
    <3>3. known'[other].read = known[other].read
      BY <3>2
    <3>4. CASE canRecompute(other.name)
      <4>1. known[other].read = Read(other, optimized)
        BY <3>1, <3>4 DEF IInv, KnownCurrent, Mergeable
      <4> QED BY <3>3, <3>4, <4>1, PureReadsNothing
    <3>5. CASE onlyReads(other.name) /\ known'[other].clean
      <4>1. known'[other].clean = (known[other].clean /\ ~MayWrite(op))
        <5> HIDE DEF MayWrite
        <5>1. known[other].read = Read(other, known[other].read)
              /\ known[other].clean \in BOOLEAN
          BY <3>1 DEF IInv, TypeOK
        <5> QED BY <3>2, <5>1
      <4>2. known[other].read = Read(other, optimized)
        BY <3>1, <3>5, <4>1 DEF IInv, KnownCurrent, Mergeable
      <4>3. \A part \in Resources : optimized'[part] = optimized[part]
        <5>1. known[other].clean \in BOOLEAN
          BY <3>1 DEF IInv, TypeOK
        <5>2. ~declaresWrite(op.name)
          BY <3>5, <4>1, <5>1 DEF MayWrite
        <5> QED BY <2>0, <5>2
      <4> QED BY <3>3, <3>5, <4>2, <4>3, ReadersReadResources
    <3> QED BY <3>4, <3>5 DEF Mergeable
  <2> QED BY <2>1, <2>2
<1> QED BY <1>3, <1>4, <1>5 DEF IInv

-----------------------------------------------------------------------------
(* An operation that can be merged declares no write. *)
LEMMA MergeableIsQuiet ==
  ASSUME NEW op, Mergeable(op)
  PROVE  ~declaresWrite(op.name)
BY DEF Mergeable, canRecompute, hasNoEffect, onlyReads

(* The invariant holds in every state: what CSE concludes from the declared *)
(* effects is true of the EVM.                                              *)
THEOREM Invariance == Spec => []IInv
<1>1. Init => IInv
  BY InitInvariant
<1>2. IInv /\ [Next]_vars => IInv'
  <2> SUFFICES ASSUME IInv, [Next]_vars PROVE IInv'
    OBVIOUS
  <2>1. CASE Next
    <3>0. PICK op \in ops : \E new \in [Changed(op) -> Contents] :
            Drop(op, new) \/ Merge(op, new) \/ Keep(op, new)
      BY <2>1 DEF Next
    <3>1. PICK new \in [Changed(op) -> Contents] :
            Drop(op, new) \/ Merge(op, new) \/ Keep(op, new)
      BY <3>0
    <3>2. CASE Drop(op, new)
      BY <3>2, RemoveInvariant DEF Drop, Droppable
    <3>3. CASE Merge(op, new)
      BY <3>3, RemoveInvariant, MergeableIsQuiet DEF Merge
    <3>4. CASE Keep(op, new)
      BY <3>4, KeepInvariant
    <3> QED BY <3>1, <3>2, <3>3, <3>4
  <2>2. CASE UNCHANGED vars
    BY <2>2 DEF vars, IInv, TypeOK, Agree, KnownCurrent, Mergeable
  <2> QED BY <2>1, <2>2
<1> QED BY <1>1, <1>2, PTL DEF Spec

(* The variables keep their types, and an operation is known only from an   *)
(* execution of that operation.                                             *)
THEOREM TypeCorrect == Spec => []TypeOK
<1>1. IInv => TypeOK
  BY DEF IInv
<1> QED BY <1>1, Invariance, PTL

(* emitRecompute() never gives another result than the operation gave where *)
(* it stands, whatever calls, creations and stores lie between.             *)
THEOREM RecomputationIsRepeatable == Spec => []RecomputationRepeats
<1>1. IInv => RecomputationRepeats
  <2> SUFFICES ASSUME IInv, NEW op \in DOMAIN known, canRecompute(op.name)
               PROVE  known[op].read = Read(op, world)
    BY DEF RecomputationRepeats
  <2>1. known[op].read = Read(op, optimized)
    BY DEF IInv, KnownCurrent, Mergeable
  <2> QED BY <2>1, PureReadsNothing
<1> QED BY <1>1, Invariance, PTL

(* CSE replaces a result only by the one the operation would have.          *)
THEOREM MergingIsSound == Spec => []MergedResultsRight
<1>1. IInv => MergedResultsRight
  <2> SUFFICES ASSUME IInv, NEW op \in DOMAIN known, Mergeable(op)
               PROVE  known[op].read = Read(op, world)
    BY DEF MergedResultsRight
  <2>1. known[op].read = Read(op, optimized)
    BY DEF IInv, KnownCurrent
  <2>2. canRecompute(op.name) \/ onlyReads(op.name)
    BY DEF Mergeable
  <2> QED BY <2>1, <2>2, PureReadsNothing, ReadersReadResources DEF IInv, Agree
<1> QED BY <1>1, Invariance, PTL

(* Whatever CSE removes, the operations that are left read what they would  *)
(* have read.                                                               *)
THEOREM RemovalIsUnseen == Spec => []RemainingSeeTheSame
<1>1. IInv => RemainingSeeTheSame
  BY DEF IInv, Agree, RemainingSeeTheSame, Read, Parts
<1> QED BY <1>1, Invariance, PTL
=============================================================================
