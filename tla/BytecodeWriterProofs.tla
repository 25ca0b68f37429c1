------------------------- MODULE BytecodeWriterProofs -------------------------
(***************************************************************************)
(* Proofs about BytecodeWriter: the discipline of labels, and what an EVM   *)
(* reads in the finalized bytes, for streams of every length and any number *)
(* of labels that 16 bits can tell apart.                                   *)
(***************************************************************************)
EXTENDS BytecodeWriter, FiniteSetTheorems, WellFoundedInduction, TLAPS

(* The invariant says in addition that a stream is a record of a sequence   *)
(* and a counter, which TypeOK takes for granted.                           *)
IInv ==
  /\ TypeOK
  /\ stream \in [instructions : Seq(Instructions), nextLabelID : Nat]

(* What is appended is an instruction; there is room for it.                *)
LEMMA AppendInvariant ==
  ASSUME IInv, HasRoom, NEW instr \in Instructions,
         stream' = emitAll(stream, <<instr>>)
  PROVE  IInv'
<1>1. /\ stream'.instructions = stream.instructions \o <<instr>>
      /\ stream'.nextLabelID = stream.nextLabelID
      /\ stream' = [instructions |-> stream'.instructions,
                    nextLabelID |-> stream'.nextLabelID]
  BY DEF emitAll, IInv
<1>2. Instructions' = Instructions
  BY <1>1 DEF Instructions, Labels
<1>3. stream'.instructions \in Seq(Instructions)
  BY <1>1 DEF IInv
<1>4. Len(stream'.instructions) = Len(stream.instructions) + 1
  BY <1>1 DEF IInv
<1>5. Len(stream'.instructions) \in 0..MaxInstructions
  BY <1>4, LengthAssumption DEF IInv, TypeOK, HasRoom
<1>6. \A i \in 1..Len(stream'.instructions) : stream'.instructions[i] \in Instructions
  BY <1>3
<1>. QED
  BY <1>1, <1>2, <1>3, <1>5, <1>6 DEF IInv, TypeOK

LEMMA LabelCountIsNatural == LabelCount \in Nat \ {0}
BY SMT DEF LabelCount

(* A new label is none of those before it, which all remain.                *)
LEMMA CreateLabelInvariant ==
  ASSUME IInv, CreateLabel
  PROVE  IInv'
<1>1. /\ stream.nextLabelID \in Nat
      /\ stream.nextLabelID < MaxLabels
      /\ MaxLabels \in 0..(LabelCount - 1)
  BY LabelsAssumption DEF IInv, CreateLabel
<1>2. (stream.nextLabelID + 1) % LabelCount = stream.nextLabelID + 1
  BY <1>1, LabelCountIsNatural, SMT
<1>3. /\ stream'.instructions = stream.instructions
      /\ stream'.nextLabelID = stream.nextLabelID + 1
      /\ stream' = [instructions |-> stream'.instructions,
                    nextLabelID |-> stream'.nextLabelID]
  BY <1>2 DEF CreateLabel, createLabel, IInv
<1>4. Labels \subseteq Labels'
  BY <1>1, <1>3 DEF Labels
<1>5. Instructions \subseteq Instructions'
  BY <1>4 DEF Instructions
<1>6. stream'.instructions \in Seq(Instructions')
  BY <1>3, <1>5 DEF IInv
<1>. QED
  BY <1>1, <1>3, <1>5, <1>6 DEF IInv, TypeOK

(* The invariant is inductive.                                              *)
THEOREM Invariance == Spec => []IInv
<1>1. Init => IInv
  BY LengthAssumption, LabelsAssumption, LabelCountIsNatural DEF Init, NewStream, IInv, TypeOK
<1>2. IInv /\ [Next]_stream => IInv'
  <2>. SUFFICES ASSUME IInv, [Next]_stream PROVE IInv'
    OBVIOUS
  <2>1. CASE Emit
    <3>1. PICK opcode \in Opcodes : HasRoom /\ stream' = emit(stream, opcode)
      BY <2>1 DEF Emit
    <3>2. OpcodeInstr(opcode) \in Instructions
      BY DEF OpcodeInstr, Instructions
    <3>. QED
      BY <3>1, <3>2, AppendInvariant DEF emit
  <2>2. CASE EmitPush
    <3>1. PICK value \in PushValues : HasRoom /\ stream' = emitPush(stream, value)
      BY <2>2 DEF EmitPush
    <3>2. PushInstr(value) \in Instructions
      BY DEF PushInstr, Instructions
    <3>. QED
      BY <3>1, <3>2, AppendInvariant DEF emitPush
  <2>3. CASE CreateLabel
    BY <2>3, CreateLabelInvariant
  <2>4. CASE EmitJumpTarget
    <3>1. PICK label \in Labels : HasRoom /\ stream' = emitJumpTarget(stream, label)
      BY <2>4 DEF EmitJumpTarget
    <3>2. LabelRefInstr(label) \in Instructions
      BY DEF LabelRefInstr, Instructions
    <3>. QED
      BY <3>1, <3>2, AppendInvariant DEF emitJumpTarget
  <2>5. CASE DefineLabel
    <3>1. PICK label \in Labels : HasRoom /\ stream' = defineLabel(stream, label)
      BY <2>5 DEF DefineLabel
    <3>2. LabelDefInstr(label) \in Instructions
      BY DEF LabelDefInstr, Instructions
    <3>. QED
      BY <3>1, <3>2, AppendInvariant DEF defineLabel
  <2>6. CASE UNCHANGED stream
    BY <2>6 DEF IInv, TypeOK, Instructions, Labels
  <2>. QED
    BY <2>1, <2>2, <2>3, <2>4, <2>5, <2>6 DEF Next
<1>. QED
  BY <1>1, <1>2, PTL DEF Spec

(* Every label in a stream has been created before, so that no reference is *)
(* ever to a label that createLabel() has yet to hand out for another use.  *)
THEOREM TypeCorrect == Spec => []TypeOK
<1>1. IInv => TypeOK
  BY DEF IInv
<1>. QED
  BY <1>1, Invariance, PTL

-----------------------------------------------------------------------------
(* Induction, up to a bound and down from it.                               *)

LEMMA LeastNatural ==
  ASSUME NEW S, S \subseteq Nat, S # {}
  PROVE  \E x \in S : \A y \in S : x <= y
<1>1. \E x \in S : \A y \in S : ~(<<y, x>> \in OpToRel(<, Nat))
  BY WFMin, NatLessThanWellFounded, Zenon
<1>2. \A x, y \in Nat : y < x => <<y, x>> \in OpToRel(<, Nat)
  BY DEF OpToRel
<1>3. \E x \in S : \A y \in S : ~(y < x)
  BY <1>1, <1>2
<1>. QED  BY <1>3

LEMMA CountUp ==
  ASSUME NEW n \in Nat, NEW T, 1 \in T, \A i \in 1..(n - 1) : i \in T => i + 1 \in T
  PROVE  \A i \in 1..n : i \in T
<1>. DEFINE bad == {i \in 1..n : i \notin T}
<1>1. SUFFICES ASSUME bad # {} PROVE FALSE
  OBVIOUS
<1>2. PICK k \in bad : \A i \in bad : k <= i
  <2>1. bad \subseteq Nat
    OBVIOUS
  <2>. HIDE DEF bad
  <2>. QED  BY <1>1, <2>1, LeastNatural
<1>3. k - 1 \in 1..(n - 1) /\ k - 1 \notin bad
  <2>1. k # 1
    OBVIOUS
  <2>. QED  BY <1>2, <2>1
<1>4. (k - 1) + 1 \in T
  BY <1>3
<1>. QED  BY <1>4

LEMMA CountDown ==
  ASSUME NEW n \in Nat, NEW T, n \in T, \A i \in 0..(n - 1) : i + 1 \in T => i \in T
  PROVE  \A i \in 0..n : i \in T
<1>. DEFINE U == {i \in 1..(n + 1) : n + 1 - i \in T}
<1>1. 1 \in U
  OBVIOUS
<1>2. ASSUME NEW i \in 1..((n + 1) - 1), i \in U PROVE i + 1 \in U
  <2>1. n - i \in 0..(n - 1) /\ (n - i) + 1 = n + 1 - i /\ n + 1 - (i + 1) = n - i
    OBVIOUS
  <2>. QED  BY <1>2, <2>1
<1>3. \A i \in 1..(n + 1) : i \in U
  <2>. HIDE DEF U
  <2>. QED  BY <1>1, <1>2, CountUp
<1>4. ASSUME NEW i \in 0..n PROVE n + 1 - i \in 1..(n + 1) /\ n + 1 - (n + 1 - i) = i
  OBVIOUS
<1>. QED  BY <1>3, <1>4

(* A function is defined by what it is at 1 and how it goes on from there.  *)
Recursive(f, N, D, a, step) ==
  /\ f \in [1..N -> D]
  /\ f[1] = a
  /\ \A i \in 2..N : f[i] = step[i][f[i - 1]]

LEMMA RecursionUpTo ==
  ASSUME NEW N \in Nat \ {0}, NEW D, NEW a \in D, NEW step \in [1..N -> [D -> D]]
  PROVE  \E f : Recursive(f, N, D, a, step)
<1>. DEFINE Upto(f, n) == f[1] = a /\ \A i \in 2..n : f[i] = step[i][f[i - 1]]
            T == {n \in 1..N : \E f \in [1..n -> D] : Upto(f, n)}
<1>1. 1 \in T
  <2>. DEFINE g == [i \in 1..1 |-> a]
  <2>1. g \in [1..1 -> D] /\ Upto(g, 1) /\ 1 \in 1..N
    OBVIOUS
  <2>. HIDE DEF g
  <2>. QED  BY <2>1
<1>2. ASSUME NEW n \in 1..(N - 1), n \in T PROVE n + 1 \in T
  <2>1. PICK f \in [1..n -> D] : Upto(f, n)
    BY <1>2
  <2>. DEFINE g == [i \in 1..(n + 1) |-> IF i = n + 1 THEN step[n + 1][f[n]] ELSE f[i]]
  <2>2. step[n + 1][f[n]] \in D
    <3>1. n + 1 \in 1..N /\ n \in 1..n
      OBVIOUS
    <3>2. step[n + 1] \in [D -> D] /\ f[n] \in D
      BY <3>1
    <3>. QED  BY <3>2
  <2>3. g \in [1..(n + 1) -> D]
    BY <2>2
  <2>4. g[1] = a
    BY <2>1
  <2>5. ASSUME NEW i \in 2..(n + 1) PROVE g[i] = step[i][g[i - 1]]
    <3>1. i \in 1..(n + 1) /\ i - 1 \in 1..(n + 1) /\ i - 1 # n + 1
      OBVIOUS
    <3>2. g[i - 1] = f[i - 1]
      BY <3>1
    <3>3. CASE i = n + 1
      <4>1. g[i] = step[n + 1][f[n]] /\ i - 1 = n
        BY <3>1, <3>3
      <4>. HIDE DEF g
      <4>. QED  BY <3>2, <3>3, <4>1
    <3>4. CASE i # n + 1
      <4>1. i \in 2..n /\ g[i] = f[i]
        BY <3>1, <3>4
      <4>. HIDE DEF g
      <4>. QED  BY <2>1, <3>2, <4>1
    <3>. QED  BY <3>3, <3>4
  <2>. HIDE DEF g
  <2>6. n + 1 \in 1..N
    OBVIOUS
  <2>. QED  BY <2>3, <2>4, <2>5, <2>6
<1>3. N \in Nat /\ N \in 1..N
  OBVIOUS
<1>. HIDE DEF T
<1>4. N \in T
  BY <1>1, <1>2, <1>3, CountUp
<1>. QED  BY <1>4 DEF T, Recursive

-----------------------------------------------------------------------------
(* Sequences laid end to end.                                               *)

(* f joins the sequences one by one.                                        *)
Joins(f, N, part, S) ==
  /\ f \in [1..N -> Seq(S)]
  /\ f[1] = part[1]
  /\ \A i \in 2..N : f[i] = f[i - 1] \o part[i]

LEMMA JoinExists ==
  ASSUME NEW S, NEW N \in Nat \ {0}, NEW part \in [1..N -> Seq(S)]
  PROVE  \E f : Joins(f, N, part, S)
<1>. DEFINE D == Seq(S)
            step == [i \in 1..N |-> [x \in D |-> x \o part[i]]]
<1>1. step \in [1..N -> [D -> D]] /\ part[1] \in D
  OBVIOUS
<1>2. PICK f : Recursive(f, N, D, part[1], step)
  <2>. HIDE DEF step, D
  <2>. QED  BY <1>1, RecursionUpTo
<1>3. ASSUME NEW i \in 2..N PROVE step[i][f[i - 1]] = f[i - 1] \o part[i]
  <2>1. i \in 1..N /\ i - 1 \in 1..N
    OBVIOUS
  <2>2. f[i - 1] \in D
    BY <1>2, <2>1 DEF Recursive
  <2>. QED  BY <2>1, <2>2
<1>4. Joins(f, N, part, S)
  <2>. HIDE DEF step
  <2>. QED  BY <1>2, <1>3 DEF Joins, Recursive
<1>. QED  BY <1>4

(* FlattenSeq is the last of the joined sequences.                          *)
LEMMA FlattenSteps ==
  ASSUME NEW S, NEW seqs \in Seq(Seq(S)), Len(seqs) # 0
  PROVE  \E f : Joins(f, Len(seqs), seqs, S) /\ FlattenSeq(seqs) = f[Len(seqs)]
<1>. DEFINE N == Len(seqs)
            Step(f) == [i \in 1..N |-> IF i = 1 THEN seqs[i] ELSE f[i - 1] \o seqs[i]]
            flatten == CHOOSE f : f = Step(f)
<1>1. N \in Nat \ {0} /\ seqs \in [1..N -> Seq(S)]
  OBVIOUS
<1>2. FlattenSeq(seqs) = flatten[N]
  BY <1>1 DEF FlattenSeq
<1>. HIDE DEF N
<1>3. ASSUME NEW f, Joins(f, N, seqs, S) PROVE f = Step(f)
  <2>1. \A i \in 1..N : f[i] = IF i = 1 THEN seqs[i] ELSE f[i - 1] \o seqs[i]
    <3>1. ASSUME NEW i \in 1..N PROVE i = 1 \/ i \in 2..N
      BY <1>1
    <3>. QED  BY <1>3, <3>1 DEF Joins
  <2>2. f \in [1..N -> Seq(S)]
    BY <1>3 DEF Joins
  <2>. QED  BY <2>1, <2>2
<1>4. flatten = Step(flatten)
  <2>1. \E f : f = Step(f)
    BY <1>1, <1>3, JoinExists
  <2>. QED  BY <2>1, Zenon
<1>. HIDE DEF flatten
<1>5. \A i \in 1..N : flatten[i] = IF i = 1 THEN seqs[i] ELSE flatten[i - 1] \o seqs[i]
  BY <1>4
<1>6. 1 \in 1..N /\ flatten[1] = seqs[1]
  BY <1>1, <1>5
<1>7. ASSUME NEW i \in 2..N PROVE flatten[i] = flatten[i - 1] \o seqs[i]
  <2>1. i \in 1..N /\ i # 1
    BY <1>1
  <2>. QED  BY <1>5, <2>1
<1>8. flatten \in [1..N -> Seq(S)]
  <2>. DEFINE U == {i \in 1..N : flatten[i] \in Seq(S)}
  <2>1. 1 \in U
    BY <1>1, <1>6
  <2>2. ASSUME NEW i \in 1..(N - 1), i \in U PROVE i + 1 \in U
    <3>1. i + 1 \in 2..N /\ (i + 1) - 1 = i /\ i + 1 \in 1..N
      BY <1>1
    <3>2. flatten[i + 1] = flatten[i] \o seqs[i + 1]
      BY <1>7, <3>1
    <3>3. flatten[i] \in Seq(S) /\ seqs[i + 1] \in Seq(S)
      BY <1>1, <2>2, <3>1
    <3>4. flatten[i] \o seqs[i + 1] \in Seq(S)
      BY <3>3
    <3>. QED  BY <3>1, <3>2, <3>4
  <2>3. \A i \in 1..N : i \in U
    <3>1. N \in Nat
      BY <1>1
    <3>. HIDE DEF U
    <3>. QED  BY <2>1, <2>2, <3>1, CountUp
  <2>4. \A i \in 1..N : flatten[i] \in Seq(S)
    BY <2>3
  <2>. QED  BY <1>4, <2>4
<1>. QED  BY <1>2, <1>6, <1>7, <1>8 DEF Joins, N

(* The elements of the first n sequences lie where the offsets say.         *)
Placed(joined, part, off, n) ==
  /\ Len(joined) = off[n + 1]
  /\ \A i \in 1..n : \A k \in 1..Len(part[i]) :
       off[i] + k \in 1..Len(joined) /\ joined[off[i] + k] = part[i][k]

LEMMA ConcatPlaces ==
  ASSUME NEW S, NEW s \in Seq(S), NEW t \in Seq(S)
  PROVE  /\ Len(s) \in Nat /\ Len(t) \in Nat
         /\ Len(s \o t) = Len(s) + Len(t)
         /\ \A p \in 1..Len(s) : (s \o t)[p] = s[p]
         /\ \A k \in 1..Len(t) : (s \o t)[Len(s) + k] = t[k]
OBVIOUS

LEMMA JoinsPlaced ==
  ASSUME NEW S, NEW N \in Nat \ {0}, NEW part \in [1..N -> Seq(S)],
         NEW f, Joins(f, N, part, S), NEW off, off[1] = 0,
         \A i \in 1..N : off[i] \in Nat /\ off[i + 1] = off[i] + Len(part[i])
  PROVE  Placed(f[N], part, off, N)
<1>. DEFINE T == {n \in 1..N : Placed(f[n], part, off, n)}
<1>1. 1 \in T
  <2>1. f[1] = part[1] /\ 1 \in 1..N /\ part[1] \in Seq(S)
    BY DEF Joins
  <2>2. off[1 + 1] = Len(part[1]) /\ Len(part[1]) \in Nat
    BY <2>1
  <2>3. Placed(f[1], part, off, 1)
    BY <2>1, <2>2 DEF Placed
  <2>. QED  BY <2>1, <2>3
<1>2. ASSUME NEW n \in 1..(N - 1), n \in T PROVE n + 1 \in T
  <2>1. n + 1 \in 1..N /\ n + 1 \in 2..N /\ (n + 1) - 1 = n /\ n \in 1..N
    OBVIOUS
  <2>. DEFINE a == f[n]
              b == part[n + 1]
  <2>2. f[n + 1] = a \o b /\ a \in Seq(S) /\ b \in Seq(S)
    BY <2>1 DEF Joins
  <2>3. Placed(a, part, off, n) /\ Len(a) = off[n + 1]
    BY <1>2 DEF Placed
  <2>4. /\ Len(a) \in Nat /\ Len(b) \in Nat
        /\ Len(f[n + 1]) = Len(a) + Len(b)
        /\ \A p \in 1..Len(a) : f[n + 1][p] = a[p]
        /\ \A k \in 1..Len(b) : f[n + 1][Len(a) + k] = b[k]
    <3>. HIDE DEF a, b
    <3>1. /\ Len(a) \in Nat /\ Len(b) \in Nat
          /\ Len(a \o b) = Len(a) + Len(b)
          /\ \A p \in 1..Len(a) : (a \o b)[p] = a[p]
          /\ \A k \in 1..Len(b) : (a \o b)[Len(a) + k] = b[k]
      BY <2>2, ConcatPlaces
    <3>. QED  BY <2>2, <3>1, Zenon
  <2>5. ASSUME NEW i \in 1..(n + 1), NEW k \in 1..Len(part[i])
        PROVE  off[i] + k \in 1..Len(f[n + 1]) /\ f[n + 1][off[i] + k] = part[i][k]
    <3>1. CASE i = n + 1
      <4>1. k \in 1..Len(b) /\ part[i] = b /\ off[i] = Len(a)
        BY <2>3, <3>1
      <4>2. f[n + 1][Len(a) + k] = b[k]
        <5>. HIDE DEF a, b
        <5>. QED  BY <2>4, <4>1
      <4>3. Len(a) + k \in 1..Len(f[n + 1])
        <5>. HIDE DEF a, b
        <5>. QED  BY <2>4, <4>1
      <4>. HIDE DEF a, b
      <4>. QED  BY <4>1, <4>2, <4>3, Zenon
    <3>2. CASE i # n + 1
      <4>1. i \in 1..n
        BY <3>2
      <4>2. off[i] + k \in 1..Len(a) /\ a[off[i] + k] = part[i][k]
        BY <2>3, <4>1 DEF Placed
      <4>3. f[n + 1][off[i] + k] = a[off[i] + k]
        BY <2>4, <4>2, Zenon
      <4>4. off[i] + k \in 1..Len(f[n + 1])
        <5>. HIDE DEF a, b
        <5>1. \A p \in 1..Len(a) : p \in 1..Len(f[n + 1])
          BY <2>4
        <5>. QED  BY <4>2, <5>1, Zenon
      <4>. QED  BY <4>2, <4>3, <4>4, Zenon
    <3>. QED  BY <3>1, <3>2
  <2>6. Len(f[n + 1]) = off[(n + 1) + 1]
    <3>1. off[(n + 1) + 1] = off[n + 1] + Len(part[n + 1])
      BY <2>1
    <3>. QED  BY <2>3, <2>4, <3>1
  <2>. QED  BY <2>1, <2>5, <2>6 DEF Placed
<1>3. N \in Nat /\ N \in 1..N
  OBVIOUS
<1>. HIDE DEF T
<1>4. N \in T
  BY <1>1, <1>2, <1>3, CountUp
<1>. QED  BY <1>4 DEF T

LEMMA Flattened ==
  ASSUME NEW S, NEW seqs \in Seq(Seq(S)), NEW off, off[1] = 0,
         \A i \in 1..Len(seqs) : off[i] \in Nat /\ off[i + 1] = off[i] + Len(seqs[i])
  PROVE  /\ FlattenSeq(seqs) \in Seq(S)
         /\ Placed(FlattenSeq(seqs), seqs, off, Len(seqs))
<1>1. CASE Len(seqs) = 0
  <2>1. FlattenSeq(seqs) = seqs /\ seqs = <<>>
    BY <1>1 DEF FlattenSeq
  <2>. QED  BY <1>1, <2>1 DEF Placed
<1>2. CASE Len(seqs) # 0
  <2>1. PICK f : Joins(f, Len(seqs), seqs, S) /\ FlattenSeq(seqs) = f[Len(seqs)]
    BY <1>2, FlattenSteps
  <2>2. Len(seqs) \in Nat \ {0} /\ seqs \in [1..Len(seqs) -> Seq(S)]
    BY <1>2
  <2>3. Placed(f[Len(seqs)], seqs, off, Len(seqs))
    BY <2>1, <2>2, JoinsPlaced
  <2>4. f[Len(seqs)] \in Seq(S)
    BY <2>1, <2>2 DEF Joins
  <2>. QED  BY <2>1, <2>3, <2>4
<1>. QED  BY <1>1, <1>2

-----------------------------------------------------------------------------
(* The bytes of one instruction.                                            *)

Words24 == 0..(256 ^ 3 - 1)

AnyInstruction ==
  [kind : {"opcode"}, opcode : (0..255) \ (PUSH0..PUSH32)] \cup
  [kind : {"push"}, value : Words24] \cup
  [kind : {"labelRef", "labelDef"}, label : Nat]

LEMMA Powers == 256 ^ 0 = 1 /\ 256 ^ 1 = 256 /\ 256 ^ 2 = 65536 /\ 256 ^ 3 = 256 * 65536
BY SMT

LEMMA Words24Natural == Words24 \subseteq Nat
<1>1. \A n \in Nat : 0..n \subseteq Nat
  OBVIOUS
<1>2. 256 ^ 3 - 1 \in Nat
  BY Powers, SMT
<1>. QED  BY <1>1, <1>2, Zenon DEF Words24

LEMMA BytesNatural == 0..255 \subseteq Nat
<1>1. \A n \in Nat : 0..n \subseteq Nat
  OBVIOUS
<1>2. 255 \in Nat
  OBVIOUS
<1>. QED  BY <1>1, <1>2

(* numBytes() is the least number of bytes that hold the value.             *)
LEMMA NumBytes ==
  ASSUME NEW value \in Words24
  PROVE  /\ numBytes(value) \in 0..3
         /\ value < 256 ^ numBytes(value)
         /\ numBytes(value) > 0 => value >= 256 ^ (numBytes(value) - 1)
<1>. DEFINE Fits(n) == value < 256 ^ n /\ (n > 0 => value >= 256 ^ (n - 1))
<1>1. \E n \in 0..3 : Fits(n)
  <2>1. CASE value < 1
    <3>1. Fits(0)
      BY <2>1, SMT
    <3>. QED  BY <3>1
  <2>2. CASE value >= 1 /\ value < 256
    <3>1. Fits(1)
      BY <2>2, SMT
    <3>. QED  BY <3>1
  <2>3. CASE value >= 256 /\ value < 65536
    <3>1. Fits(2)
      BY <2>3, SMT
    <3>. QED  BY <3>1
  <2>4. CASE value >= 65536
    <3>1. Fits(3)
      BY <2>4, SMT DEF Words24
    <3>. QED  BY <3>1
  <2>. HIDE DEF Fits
  <2>. QED  BY <2>1, <2>2, <2>3, <2>4, SMT DEF Words24
<1>2. numBytes(value) = CHOOSE n \in 0..3 : Fits(n)
  BY Zenon DEF numBytes
<1>. HIDE DEF Fits
<1>3. numBytes(value) \in 0..3 /\ Fits(numBytes(value))
  BY <1>1, <1>2, Zenon
<1>. QED  BY <1>3, Zenon DEF Fits

(* A PUSH with the low n bytes of a value.                                  *)
PushBytes(value, n) == <<PUSH0 + n>> \o LowBytes(value, n)

LEMMA PushBytesAre ==
  ASSUME NEW value \in Nat, NEW n \in 0..3
  PROVE  /\ PushBytes(value, n) \in Seq(Nat)
         /\ Len(PushBytes(value, n)) = n + 1
         /\ PushBytes(value, n)[1] = PUSH0 + n
         /\ \A k \in 1..n : PushBytes(value, n)[k + 1] = LowBytes(value, n)[k]
<1>1. LowBytes(value, n) \in Seq(Nat) /\ Len(LowBytes(value, n)) = n
  <2>1. ASSUME NEW i \in 1..n PROVE (value \div 256 ^ (n - i)) % 256 \in Nat
    <3>1. n - i = 0 \/ n - i = 1 \/ n - i = 2
      OBVIOUS
    <3>2. 256 ^ (n - i) \in {1, 256, 65536}
      <4>1. CASE n - i = 0
        BY <4>1, SMT
      <4>2. CASE n - i = 1
        BY <4>2, SMT
      <4>3. CASE n - i = 2
        BY <4>3, SMT
      <4>. QED  BY <3>1, <4>1, <4>2, <4>3
    <3>. QED  BY <3>2, SMT
  <2>. QED  BY <2>1 DEF LowBytes
<1>2. <<PUSH0 + n>> \in Seq(Nat) /\ Len(<<PUSH0 + n>>) = 1 /\ <<PUSH0 + n>>[1] = PUSH0 + n
  BY DEF PUSH0
<1>. DEFINE t == LowBytes(value, n)
            s == <<PUSH0 + n>>
<1>3. /\ s \o t \in Seq(Nat)
      /\ Len(s \o t) = n + 1
      /\ (s \o t)[1] = s[1]
      /\ \A k \in 1..n : (s \o t)[k + 1] = t[k]
  <2>. HIDE DEF s, t
  <2>1. /\ Len(s \o t) = Len(s) + Len(t)
        /\ \A p \in 1..Len(s) : (s \o t)[p] = s[p]
        /\ \A k \in 1..Len(t) : (s \o t)[Len(s) + k] = t[k]
    BY <1>1, <1>2, ConcatPlaces DEF s, t
  <2>2. Len(s) = 1 /\ Len(t) = n /\ s \in Seq(Nat) /\ t \in Seq(Nat)
    BY <1>1, <1>2 DEF s, t
  <2>3. \A k \in 1..n : 1 + k = k + 1
    OBVIOUS
  <2>. QED  BY <2>1, <2>2, <2>3
<1>. QED  BY <1>2, <1>3, Zenon DEF PushBytes

(* The operand that is read after a PUSH of no more than three bytes.       *)
LEMMA OperandRead ==
  ASSUME NEW code, NEW pc \in Nat, NEW n \in 0..3,
         OperandSize(Byte(code, pc)) = n,
         \A k \in 1..n : Byte(code, pc + k) \in Nat
  PROVE  Operand(code, pc) =
           CASE n = 0 -> 0
             [] n = 1 -> Byte(code, pc + 1)
             [] n = 2 -> 256 * Byte(code, pc + 1) + Byte(code, pc + 2)
             [] n = 3 -> 256 * (256 * Byte(code, pc + 1) + Byte(code, pc + 2))
                         + Byte(code, pc + 3)
<1>. DEFINE B(k) == Byte(code, pc + k)
            Step(f) == [m \in 0..n |-> IF m = 0 THEN 0
                                       ELSE LET high == f[m - 1] IN 256 * high + B(m)]
            value == CHOOSE f : f = Step(f)
            g == [m \in 0..n |-> CASE m = 0 -> 0
                                   [] m = 1 -> B(1)
                                   [] m = 2 -> 256 * B(1) + B(2)
                                   [] m = 3 -> 256 * (256 * B(1) + B(2)) + B(3)]
<1>1. Operand(code, pc) = value[n]
  BY DEF Operand
<1>. HIDE DEF B
<1>2. g = Step(g)
  <2>1. ASSUME NEW m \in 0..n PROVE g[m] = Step(g)[m]
    <3>0. \A k \in 1..n : B(k) \in Nat
      BY DEF B
    <3>1. CASE m = 0
      BY <3>1
    <3>2. CASE m = 1
      BY <3>0, <3>2
    <3>3. CASE m = 2
      BY <3>3
    <3>4. CASE m = 3
      BY <3>4
    <3>. QED  BY <3>1, <3>2, <3>3, <3>4
  <2>2. g = [m \in 0..n |-> g[m]] /\ Step(g) = [m \in 0..n |-> Step(g)[m]]
    OBVIOUS
  <2>. HIDE DEF g, Step
  <2>. QED  BY <2>1, <2>2
<1>3. value = Step(value)
  <2>1. \E f : f = Step(f)
    BY <1>2
  <2>. QED  BY <2>1, Zenon
<1>. HIDE DEF value
<1>4. \A m \in 0..n : value[m] = IF m = 0 THEN 0 ELSE 256 * value[m - 1] + B(m)
  BY <1>3
<1>5. \A k \in 1..n : B(k) \in Nat
  BY DEF B
<1>6. value[0] = 0
  BY <1>4
<1>7. n >= 1 => value[1] = B(1)
  BY <1>4, <1>5, <1>6
<1>8. n >= 2 => value[2] = 256 * B(1) + B(2)
  BY <1>4, <1>7
<1>9. n >= 3 => value[3] = 256 * (256 * B(1) + B(2)) + B(3)
  BY <1>4, <1>8
<1>. QED  BY <1>1, <1>6, <1>7, <1>8, <1>9 DEF B

LEMMA Division ==
  ASSUME NEW v \in Nat
  PROVE  /\ v \div 256 \in Nat
         /\ v % 256 \in 0..255
         /\ v = 256 * (v \div 256) + (v % 256)
BY SMT

LEMMA TwoBytes ==
  ASSUME NEW v \in Nat, v < 65536
  PROVE  /\ (v \div 256) % 256 \in Nat /\ v % 256 \in Nat
         /\ 256 * ((v \div 256) % 256) + (v % 256) = v
<1>. DEFINE q == v \div 256
            r == v % 256
<1>1. q \in Nat /\ r \in 0..255 /\ v = 256 * q + r
  BY Division
<1>. HIDE DEF q, r
<1>2. q < 256
  BY <1>1, SMT
<1>3. q % 256 = q
  BY <1>1, <1>2, SMT
<1>4. q % 256 \in Nat /\ 256 * (q % 256) + r = v /\ r \in Nat
  BY <1>1, <1>3, SMT
<1>. QED  BY <1>4 DEF q, r

LEMMA ThreeBytes ==
  ASSUME NEW v \in Nat, v < 256 * 65536
  PROVE  /\ (v \div 65536) % 256 \in Nat /\ (v \div 256) % 256 \in Nat /\ v % 256 \in Nat
         /\ 256 * (256 * ((v \div 65536) % 256) + ((v \div 256) % 256)) + (v % 256) = v
<1>. DEFINE q == v \div 256
            r == v % 256
            t == q \div 256
<1>1. q \in Nat /\ r \in 0..255 /\ v = 256 * q + r
  BY Division
<1>2. t \in Nat /\ q % 256 \in 0..255 /\ q = 256 * t + (q % 256)
  <2>. HIDE DEF q
  <2>. QED  BY <1>1, Division
<1>. HIDE DEF q, r, t
<1>3. q < 65536
  BY <1>1, SMT
<1>4. t < 256
  BY <1>1, <1>2, <1>3, SMT
<1>5. t % 256 = t
  BY <1>2, <1>4, SMT
<1>6. v \div 65536 = t
  BY <1>1, <1>2, SMT
<1>7. 256 * (256 * (t % 256) + (q % 256)) + r = v
  BY <1>1, <1>2, <1>5, SMT
<1>8. t % 256 \in Nat /\ q % 256 \in Nat /\ r \in Nat
  BY <1>1, <1>2, <1>5, SMT
<1>. QED  BY <1>6, <1>7, <1>8 DEF q, r

(* The bytes of a sequence of bytes lie in the code from pc on.             *)
LiesAt(code, bytes, pc) ==
  /\ code \in Seq(Nat)
  /\ pc \in Nat
  /\ pc + Len(bytes) <= Len(code)
  /\ \A k \in 1..Len(bytes) : code[pc + k] = bytes[k]

LEMMA BytesRead ==
  ASSUME NEW code, NEW bytes \in Seq(Nat), NEW pc, LiesAt(code, bytes, pc),
         NEW k \in 1..Len(bytes)
  PROVE  Byte(code, pc + (k - 1)) = bytes[k]
<1>1. pc \in Nat /\ Len(code) \in Nat /\ Len(bytes) \in Nat
  BY DEF LiesAt
<1>2. pc + (k - 1) < Len(code) /\ (pc + (k - 1)) + 1 = pc + k
  BY <1>1 DEF LiesAt
<1>. QED  BY <1>2 DEF Byte, LiesAt

(* An EVM that comes to a PUSH of the low bytes of a value reads the value  *)
(* and goes on after them.                                                  *)
LEMMA PushRead ==
  ASSUME NEW code, NEW pc, NEW n \in 0..3, NEW value \in Nat, value < 256 ^ n,
         LiesAt(code, PushBytes(value, n), pc)
  PROVE  /\ Byte(code, pc) = PUSH0 + n
         /\ OperandSize(Byte(code, pc)) = n
         /\ NextPC(code, pc) = pc + (n + 1)
         /\ Operand(code, pc) = value
         /\ n > 0 /\ value >= 256 ^ (n - 1) => Byte(code, pc + 1) # 0
<1>. DEFINE bytes == PushBytes(value, n)
<1>1. /\ bytes \in Seq(Nat) /\ Len(bytes) = n + 1 /\ bytes[1] = PUSH0 + n
      /\ \A k \in 1..n : bytes[k + 1] = LowBytes(value, n)[k]
  BY PushBytesAre
<1>2. pc \in Nat
  BY DEF LiesAt
<1>. HIDE DEF bytes
<1>3. \A k \in 1..(n + 1) : Byte(code, pc + (k - 1)) = bytes[k]
  <2>1. LiesAt(code, bytes, pc)
    BY DEF bytes
  <2>. QED  BY <1>1, <2>1, BytesRead
<1>4. Byte(code, pc) = PUSH0 + n
  <2>1. 1 \in 1..(n + 1) /\ pc + (1 - 1) = pc
    BY <1>2
  <2>. QED  BY <1>1, <1>3, <2>1
<1>5. \A k \in 1..n : Byte(code, pc + k) = (value \div 256 ^ (n - k)) % 256
  <2>1. ASSUME NEW k \in 1..n PROVE Byte(code, pc + k) = LowBytes(value, n)[k]
    <3>1. k + 1 \in 1..(n + 1) /\ pc + ((k + 1) - 1) = pc + k
      BY <1>2
    <3>. QED  BY <1>1, <1>3, <3>1
  <2>. QED  BY <2>1 DEF LowBytes
<1>6. OperandSize(Byte(code, pc)) = n
  BY <1>4 DEF OperandSize, PUSH0, PUSH1, PUSH32
<1>7. NextPC(code, pc) = pc + (n + 1)
  <2>1. NextPC(code, pc) = pc + 1 + n
    BY <1>6 DEF NextPC
  <2>. QED  BY <1>2, <2>1
<1>8. /\ Operand(code, pc) = value
      /\ n > 0 /\ value >= 256 ^ (n - 1) => Byte(code, pc + 1) # 0
  <2>. DEFINE B(k) == Byte(code, pc + k)
  <2>1. ASSUME \A k \in 1..n : B(k) \in Nat
        PROVE  Operand(code, pc) = CASE n = 0 -> 0
                                     [] n = 1 -> B(1)
                                     [] n = 2 -> 256 * B(1) + B(2)
                                     [] n = 3 -> 256 * (256 * B(1) + B(2)) + B(3)
    BY <1>2, <1>6, <2>1, OperandRead
  <2>2. \A k \in 1..n : B(k) = (value \div 256 ^ (n - k)) % 256
    BY <1>5
  <2>. HIDE DEF B
  <2>3. CASE n = 0
    BY <2>1, <2>3, Powers, SMT
  <2>4. CASE n = 1
    <3>1. B(1) = value
      <4>1. B(1) = (value \div 256 ^ 0) % 256
        BY <2>2, <2>4
      <4>. QED  BY <2>4, <4>1, SMT
    <3>2. Operand(code, pc) = value
      BY <2>1, <2>4, <3>1, SMT
    <3>3. value >= 256 ^ (n - 1) => B(1) # 0
      BY <2>4, <3>1, SMT
    <3>. QED  BY <3>2, <3>3 DEF B
  <2>5. CASE n = 2
    <3>1. B(1) = (value \div 256) % 256 /\ B(2) = value % 256 /\ value < 65536
      <4>1. B(1) = (value \div 256 ^ (2 - 1)) % 256 /\ B(2) = (value \div 256 ^ (2 - 2)) % 256
        BY <2>2, <2>5, SMT
      <4>. QED  BY <2>5, <4>1, SMT
    <3>2. B(1) \in Nat /\ B(2) \in Nat /\ 256 * B(1) + B(2) = value
      BY <3>1, TwoBytes
    <3>3. value >= 256 => B(1) # 0
      BY <3>1, SMT
    <3>4. value >= 256 ^ (n - 1) => value >= 256
      BY <2>5, SMT
    <3>5. Operand(code, pc) = value
      BY <2>1, <2>5, <3>2, SMT
    <3>. QED  BY <3>3, <3>4, <3>5 DEF B
  <2>6. CASE n = 3
    <3>1. /\ B(1) = (value \div 65536) % 256 /\ B(2) = (value \div 256) % 256
          /\ B(3) = value % 256 /\ value < 256 * 65536
      <4>1. /\ B(1) = (value \div 256 ^ (3 - 1)) % 256
            /\ B(2) = (value \div 256 ^ (3 - 2)) % 256
            /\ B(3) = (value \div 256 ^ (3 - 3)) % 256
        BY <2>2, <2>6, SMT
      <4>. QED  BY <2>6, <4>1, SMT
    <3>2. /\ B(1) \in Nat /\ B(2) \in Nat /\ B(3) \in Nat
          /\ 256 * (256 * B(1) + B(2)) + B(3) = value
      BY <3>1, ThreeBytes
    <3>3. value >= 65536 => B(1) # 0
      BY <3>1, SMT
    <3>4. value >= 256 ^ (n - 1) => value >= 65536
      BY <2>6, SMT
    <3>5. Operand(code, pc) = value
      BY <2>1, <2>6, <3>2, SMT
    <3>. QED  BY <3>3, <3>4, <3>5 DEF B
  <2>. QED  BY <2>3, <2>4, <2>5, <2>6, SMT
<1>. QED  BY <1>4, <1>6, <1>7, <1>8

-----------------------------------------------------------------------------
(* Where the instructions lie.                                              *)

LEMMA SizeOfKinds ==
  ASSUME NEW instr \in AnyInstruction
  PROVE  /\ EncodedSize(instr) \in 0..4
         /\ IsCode(instr) => EncodedSize(instr) > 0
         /\ ~IsCode(instr) => EncodedSize(instr) = 0
<1>1. CASE instr \in [kind : {"opcode"}, opcode : (0..255) \ (PUSH0..PUSH32)]
  BY <1>1 DEF EncodedSize, IsCode
<1>2. CASE instr \in [kind : {"push"}, value : Words24]
  <2>1. numBytes(instr.value) \in 0..3
    BY <1>2, NumBytes
  <2>. QED  BY <1>2, <2>1 DEF EncodedSize, IsCode
<1>3. CASE instr \in [kind : {"labelRef", "labelDef"}, label : Nat]
  BY <1>3 DEF EncodedSize, IsCode
<1>. QED  BY <1>1, <1>2, <1>3 DEF AnyInstruction

(* The offset of an instruction is that of the one before and its size.     *)
LEMMA OffsetSteps ==
  ASSUME NEW instrs \in Seq(AnyInstruction)
  PROVE  /\ OffsetOf(instrs, 1) = 0
         /\ \A i \in 1..(Len(instrs) + 1) : OffsetOf(instrs, i) \in Nat
         /\ \A i \in 1..Len(instrs) :
              OffsetOf(instrs, i + 1) = OffsetOf(instrs, i) + EncodedSize(instrs[i])
<1>. DEFINE N == Len(instrs)
            Size(j) == EncodedSize(instrs[j])
            Piece(j) == {j} \X (1..Size(j))
            Before(i) == UNION {Piece(j) : j \in 1..(i - 1)}
            T == {i \in 1..(N + 1) : IsFiniteSet(Before(i))}
<1>1. N \in Nat /\ \A j \in 1..N : Size(j) \in Nat
  BY SizeOfKinds
<1>2. \A i : OffsetOf(instrs, i) = Cardinality(Before(i))
  BY Zenon DEF OffsetOf
<1>. HIDE DEF N, Size
<1>3. ASSUME NEW j \in 1..N
      PROVE  IsFiniteSet(Piece(j)) /\ Cardinality(Piece(j)) = Size(j)
  <2>. DEFINE f == [k \in 1..Size(j) |-> <<j, k>>]
  <2>1. IsFiniteSet(1..Size(j)) /\ Cardinality(1..Size(j)) = Size(j)
    BY <1>1, FS_Interval
  <2>2. f \in Bijection(1..Size(j), Piece(j))
    BY DEF Bijection, Injection, Surjection, IsInjective
  <2>3. ExistsBijection(1..Size(j), Piece(j))
    BY <2>2, Zenon DEF ExistsBijection
  <2>. HIDE DEF Piece
  <2>. QED  BY <2>1, <2>3, FS_Bijection
<1>4. Before(1) = {}
  OBVIOUS
<1>5. ASSUME NEW i \in 1..N PROVE Before(i + 1) = Before(i) \cup Piece(i)
  <2>1. 1..((i + 1) - 1) = 1..(i - 1) \cup {i}
    BY <1>1
  <2>. QED  BY <2>1
<1>6. ASSUME NEW i \in 1..N PROVE Before(i) \cap Piece(i) = {}
  OBVIOUS
<1>. HIDE DEF Before, Piece
<1>7. \A i \in 1..(N + 1) : i \in T
  <2>1. 1 \in T
    <3>1. 1 \in 1..(N + 1)
      BY <1>1
    <3>. QED  BY <1>4, <3>1, FS_EmptySet
  <2>2. ASSUME NEW i \in 1..((N + 1) - 1), i \in T PROVE i + 1 \in T
    <3>1. i \in 1..N /\ IsFiniteSet(Before(i)) /\ i + 1 \in 1..(N + 1)
      BY <1>1, <2>2
    <3>2. IsFiniteSet(Before(i) \cup Piece(i))
      BY <1>3, <3>1, FS_Union
    <3>. QED  BY <1>5, <3>1, <3>2
  <2>3. N + 1 \in Nat
    BY <1>1
  <2>. HIDE DEF T
  <2>. QED  BY <2>1, <2>2, <2>3, CountUp
<1>8. ASSUME NEW i \in 1..N
      PROVE  Cardinality(Before(i + 1)) = Cardinality(Before(i)) + Size(i)
  <2>1. IsFiniteSet(Before(i))
    BY <1>1, <1>7
  <2>2. /\ Cardinality(Before(i) \cup Piece(i))
           = Cardinality(Before(i)) + Cardinality(Piece(i)) - Cardinality(Before(i) \cap Piece(i))
        /\ Cardinality(Before(i)) \in Nat
    BY <1>3, <2>1, FS_Union, FS_CardinalityType
  <2>3. Cardinality(Before(i) \cap Piece(i)) = 0
    BY <1>6, FS_EmptySet
  <2>4. Cardinality(Piece(i)) = Size(i) /\ Size(i) \in Nat
    BY <1>1, <1>3
  <2>5. Cardinality(Before(i + 1)) = Cardinality(Before(i) \cup Piece(i))
    BY <1>5, Zenon
  <2>. QED  BY <2>2, <2>3, <2>4, <2>5, SMT
<1>9. ASSUME NEW i \in 1..(N + 1) PROVE Cardinality(Before(i)) \in Nat
  BY <1>7, FS_CardinalityType
<1>10. Cardinality(Before(1)) = 0
  BY <1>4, FS_EmptySet
<1>. QED  BY <1>2, <1>8, <1>9, <1>10 DEF N, Size

LEMMA OffsetsGrow ==
  ASSUME NEW instrs \in Seq(AnyInstruction), NEW i \in 1..(Len(instrs) + 1)
  PROVE  \A k \in i..(Len(instrs) + 1) : OffsetOf(instrs, i) <= OffsetOf(instrs, k)
<1>. DEFINE N == Len(instrs)
            T == {k \in 1..(N + 1) : i <= k => OffsetOf(instrs, i) <= OffsetOf(instrs, k)}
<1>1. N \in Nat /\ \A k \in 1..N : EncodedSize(instrs[k]) \in Nat
  BY SizeOfKinds
<1>2. /\ \A k \in 1..(N + 1) : OffsetOf(instrs, k) \in Nat
      /\ \A k \in 1..N : OffsetOf(instrs, k + 1) = OffsetOf(instrs, k) + EncodedSize(instrs[k])
  BY OffsetSteps
<1>. HIDE DEF N
<1>3. i \in 1..(N + 1)
  BY DEF N
<1>4. 1 \in T
  <2>1. 1 \in 1..(N + 1)
    BY <1>1
  <2>2. 1 <= i /\ (i <= 1 => i = 1)
    BY <1>3
  <2>3. OffsetOf(instrs, 1) \in Nat
    BY <1>2, <2>1
  <2>. QED  BY <2>1, <2>2, <2>3
<1>5. ASSUME NEW k \in 1..((N + 1) - 1), k \in T PROVE k + 1 \in T
  <2>1. k \in 1..N /\ k + 1 \in 1..(N + 1) /\ k \in 1..(N + 1)
    BY <1>1
  <2>2. /\ OffsetOf(instrs, k + 1) = OffsetOf(instrs, k) + EncodedSize(instrs[k])
        /\ OffsetOf(instrs, k) \in Nat /\ OffsetOf(instrs, i) \in Nat
        /\ EncodedSize(instrs[k]) \in Nat /\ OffsetOf(instrs, k + 1) \in Nat
    BY <1>1, <1>2, <1>3, <2>1
  <2>3. CASE i <= k
    <3>1. OffsetOf(instrs, i) <= OffsetOf(instrs, k)
      BY <1>5, <2>3
    <3>2. OffsetOf(instrs, i) <= OffsetOf(instrs, k + 1)
      BY <2>2, <3>1
    <3>. QED  BY <2>1, <3>2
  <2>4. CASE ~(i <= k)
    <3>1. i <= k + 1 => i = k + 1
      BY <1>3, <2>1, <2>4
    <3>2. i <= k + 1 => OffsetOf(instrs, i) <= OffsetOf(instrs, k + 1)
      BY <2>2, <3>1
    <3>. QED  BY <2>1, <3>2
  <2>. QED  BY <2>3, <2>4
<1>6. \A k \in 1..(N + 1) : k \in T
  <2>1. N + 1 \in Nat
    BY <1>1
  <2>. HIDE DEF T
  <2>. QED  BY <1>4, <1>5, <2>1, CountUp
<1>7. \A k \in i..(N + 1) : k \in 1..(N + 1) /\ i <= k
  BY <1>1, <1>3
<1>. QED  BY <1>6, <1>7 DEF N

(* The last definition of a label.                                          *)
LEMMA LastDefinition ==
  ASSUME NEW instrs \in Seq(AnyInstruction), NEW label,
         \E j \in 1..Len(instrs) : instrs[j] = LabelDefInstr(label)
  PROVE  \E def \in 1..Len(instrs) :
           /\ instrs[def] = LabelDefInstr(label)
           /\ labelOffset(instrs, label) = OffsetOf(instrs, def)
           /\ def = CHOOSE i \in 1..Len(instrs) :
                      /\ instrs[i] = LabelDefInstr(label)
                      /\ \A j \in (i + 1)..Len(instrs) : instrs[j] # instrs[i]
<1>. DEFINE N == Len(instrs)
            I == {i \in 1..N : instrs[i] = LabelDefInstr(label)}
            Away(i) == N - i
            M == {N - i : i \in I}
<1>1. N \in Nat /\ I \subseteq 1..N /\ I # {}
  OBVIOUS
<1>2. PICK def \in I : \A i \in I : i <= def
  <2>1. M \subseteq Nat /\ M # {}
    BY <1>1
  <2>2. PICK m \in M : \A k \in M : m <= k
    <3>. HIDE DEF M
    <3>. QED  BY <2>1, LeastNatural
  <2>3. PICK d \in I : m = N - d
    OBVIOUS
  <2>4. ASSUME NEW i \in I PROVE i <= d
    <3>1. N - d <= N - i
      BY <2>2, <2>3
    <3>. QED  BY <1>1, <3>1
  <2>. QED  BY <2>4
<1>3. \A x \in I : (\A y \in I : x >= y) => x = def
  BY <1>1, <1>2
<1>4. (CHOOSE x \in I : \A y \in I : x >= y) = def
  <2>1. \A y \in I : def >= y
    BY <1>1, <1>2
  <2>. HIDE DEF I
  <2>. QED  BY <1>2, <1>3, <2>1, Zenon
<1>5. labelOffset(instrs, label) = OffsetOf(instrs, def)
  <2>1. labelOffset(instrs, label) = OffsetOf(instrs, CHOOSE x \in I : \A y \in I : x >= y)
    BY <1>1 DEF labelOffset, SelectLastInSeq, Max
  <2>. HIDE DEF I
  <2>. QED  BY <1>4, <2>1
<1>6. ASSUME NEW i \in 1..N, instrs[i] = LabelDefInstr(label)
      PROVE  (\A j \in (i + 1)..N : instrs[j] # instrs[i]) <=> i = def
  <2>1. i \in I /\ def \in 1..N /\ instrs[def] = instrs[i]
    BY <1>6
  <2>2. ASSUME \A j \in (i + 1)..N : instrs[j] # instrs[i] PROVE i = def
    <3>1. i <= def /\ ~(def \in (i + 1)..N)
      BY <1>2, <2>1, <2>2
    <3>. QED  BY <2>1, <3>1
  <2>3. ASSUME i = def, NEW j \in (i + 1)..N PROVE instrs[j] # instrs[i]
    <3>1. j \in 1..N /\ ~(j <= def)
      BY <2>3
    <3>. QED  BY <1>2, <1>6, <3>1
  <2>. QED  BY <2>2, <2>3
<1>7. def = CHOOSE i \in 1..N : /\ instrs[i] = LabelDefInstr(label)
                                /\ \A j \in (i + 1)..N : instrs[j] # instrs[i]
  <2>1. def \in 1..N /\ instrs[def] = LabelDefInstr(label)
    OBVIOUS
  <2>. HIDE DEF I
  <2>. QED  BY <1>6, <2>1, Zenon
<1>. QED  BY <1>2, <1>5, <1>7

-----------------------------------------------------------------------------
(* The code of a stream.                                                    *)

LEMMA InstructionsTyped ==
  ASSUME IInv
  PROVE  stream.instructions \in Seq(AnyInstruction)
<1>1. Opcodes \subseteq (0..255) \ (PUSH0..PUSH32) /\ PushValues \subseteq Words24
  BY OpcodesAssumption, PushValuesAssumption DEF Words24
<1>2. Labels \subseteq Nat
  BY DEF Labels
<1>3. Instructions \subseteq AnyInstruction
  <2>. SUFFICES ASSUME NEW x \in Instructions PROVE x \in AnyInstruction
    OBVIOUS
  <2>1. CASE x \in [kind : {"opcode"}, opcode : Opcodes]
    <3>1. x \in [kind : {"opcode"}, opcode : (0..255) \ (PUSH0..PUSH32)]
      BY <1>1, <2>1
    <3>. QED  BY <3>1, Zenon DEF AnyInstruction
  <2>2. CASE x \in [kind : {"push"}, value : PushValues]
    <3>1. x \in [kind : {"push"}, value : Words24]
      BY <1>1, <2>2
    <3>. QED  BY <3>1, Zenon DEF AnyInstruction
  <2>3. CASE x \in [kind : {"labelRef", "labelDef"}, label : Labels]
    <3>1. x \in [kind : {"labelRef", "labelDef"}, label : Nat]
      BY <1>2, <2>3
    <3>. QED  BY <3>1, Zenon DEF AnyInstruction
  <2>. QED  BY <2>1, <2>2, <2>3, Zenon DEF Instructions
<1>4. \A i \in 1..Len(stream.instructions) : stream.instructions[i] \in AnyInstruction
  BY <1>3 DEF IInv, TypeOK
<1>. QED  BY <1>4 DEF IInv

LEMMA ReferencesDefined ==
  ASSUME IInv, CanFinalize(stream), NEW i \in 1..Len(stream.instructions),
         stream.instructions[i].kind = "labelRef"
  PROVE  \E j \in 1..Len(stream.instructions) :
           stream.instructions[j] = LabelDefInstr(stream.instructions[i].label)
<1>. DEFINE instrs == stream.instructions
<1>1. PICK j \in 1..Len(instrs) : instrs[j].kind = "labelDef" /\ instrs[j].label = instrs[i].label
  BY DEF CanFinalize
<1>2. instrs[j] \in AnyInstruction
  BY InstructionsTyped
<1>. HIDE DEF instrs
<1>3. instrs[j] \in [kind : {"labelRef", "labelDef"}, label : Nat]
  BY <1>1, <1>2 DEF AnyInstruction
<1>4. instrs[j] = [kind |-> instrs[j].kind, label |-> instrs[j].label]
  BY <1>3
<1>. QED  BY <1>1, <1>4 DEF LabelDefInstr, instrs

(* What finalize() writes for an instruction.                               *)
LEMMA Encodings ==
  ASSUME IInv, CanFinalize(stream), NEW i \in 1..Len(stream.instructions)
  PROVE  LET instrs == stream.instructions
             bytes  == Encode(instrs, i)
         IN  /\ bytes \in Seq(Nat)
             /\ Len(bytes) = EncodedSize(instrs[i])
             /\ instrs[i].kind \in {"opcode", "push", "labelRef", "labelDef"}
             /\ instrs[i].kind = "opcode" =>
                  /\ bytes = <<instrs[i].opcode>>
                  /\ instrs[i].opcode \in (0..255) \ (PUSH0..PUSH32)
             /\ instrs[i].kind = "push" =>
                  /\ bytes = PushBytes(instrs[i].value, numBytes(instrs[i].value))
                  /\ instrs[i].value \in Words24
             /\ instrs[i].kind = "labelRef" =>
                  /\ bytes = PushBytes(labelOffset(instrs, instrs[i].label), 2)
                  /\ labelOffset(instrs, instrs[i].label) \in Nat
<1>. DEFINE instrs == stream.instructions
            instr  == instrs[i]
            bytes  == Encode(instrs, i)
<1>1. instrs \in Seq(AnyInstruction) /\ instr \in AnyInstruction
  BY InstructionsTyped
<1>2. \A v \in Nat, n \in 0..3 : PushBytes(v, n) \in Seq(Nat) /\ Len(PushBytes(v, n)) = n + 1
  BY PushBytesAre
<1>3. CASE instr \in [kind : {"opcode"}, opcode : (0..255) \ (PUSH0..PUSH32)]
  <2>1. bytes = <<instr.opcode>> /\ EncodedSize(instr) = 1
    BY <1>3 DEF Encode, EncodedSize
  <2>2. instr.kind = "opcode" /\ instr.opcode \in (0..255) \ (PUSH0..PUSH32)
    BY <1>3
  <2>. HIDE DEF instr, bytes
  <2>3. bytes \in Seq(Nat) /\ Len(bytes) = 1
    <3>1. \A x \in Nat : <<x>> \in Seq(Nat) /\ Len(<<x>>) = 1
      OBVIOUS
    <3>2. instr.opcode \in Nat
      BY <2>2, BytesNatural, Zenon
    <3>. QED  BY <2>1, <3>1, <3>2, Zenon
  <2>. QED  BY <2>1, <2>2, <2>3 DEF instr, bytes
<1>4. CASE instr \in [kind : {"push"}, value : Words24]
  <2>1. instr.kind = "push" /\ instr.value \in Words24 /\ instr.value \in Nat
    <3>1. Words24 \subseteq Nat
      BY Words24Natural
    <3>2. instr.kind = "push" /\ instr.value \in Words24
      BY <1>4
    <3>. QED  BY <3>1, <3>2
  <2>2. numBytes(instr.value) \in 0..3
    BY <2>1, NumBytes
  <2>3. bytes = PushBytes(instr.value, numBytes(instr.value))
    BY <2>1 DEF Encode, PushBytes
  <2>4. EncodedSize(instr) = 1 + numBytes(instr.value)
    BY <2>1 DEF EncodedSize
  <2>5. bytes \in Seq(Nat) /\ Len(bytes) = EncodedSize(instr)
    <3>. DEFINE n == numBytes(instr.value)
    <3>. HIDE DEF instr, bytes, n
    <3>1. bytes = PushBytes(instr.value, n) /\ EncodedSize(instr) = 1 + n /\ n \in 0..3
      BY <2>2, <2>3, <2>4 DEF n
    <3>2. bytes \in Seq(Nat) /\ Len(bytes) = n + 1
      BY <1>2, <2>1, <3>1, Zenon
    <3>3. n + 1 = 1 + n
      BY <3>1
    <3>. QED  BY <3>1, <3>2, <3>3, Zenon
  <2>. HIDE DEF bytes
  <2>. QED  BY <2>1, <2>3, <2>5 DEF bytes
<1>5. CASE instr \in [kind : {"labelRef", "labelDef"}, label : Nat] /\ instr.kind = "labelRef"
  <2>1. PICK def \in 1..Len(instrs) :
          labelOffset(instrs, instr.label) = OffsetOf(instrs, def)
    <3>1. \E j \in 1..Len(instrs) : instrs[j] = LabelDefInstr(instr.label)
      BY <1>5, ReferencesDefined
    <3>. HIDE DEF instrs, instr
    <3>. QED  BY <1>1, <3>1, LastDefinition
  <2>2. labelOffset(instrs, instr.label) \in Nat
    <3>1. def \in 1..(Len(instrs) + 1)
      BY <1>1
    <3>. HIDE DEF instrs, instr
    <3>. QED  BY <1>1, <2>1, <3>1, OffsetSteps
  <2>3. bytes = PushBytes(labelOffset(instrs, instr.label), 2)
    <3>1. bytes = <<PUSH2>> \o LowBytes(labelOffset(instrs, instr.label), 2)
      BY <1>5 DEF Encode
    <3>2. PUSH2 = PUSH0 + 2
      BY SMT DEF PUSH2, PUSH0
    <3>. HIDE DEF bytes, instr, instrs
    <3>. QED  BY <3>1, <3>2, Zenon DEF PushBytes
  <2>4. EncodedSize(instr) = 3
    BY <1>5 DEF EncodedSize
  <2>5. bytes \in Seq(Nat) /\ Len(bytes) = 3
    <3>. HIDE DEF instr, bytes, instrs
    <3>. QED  BY <1>2, <2>2, <2>3
  <2>. HIDE DEF bytes
  <2>. QED  BY <1>5, <2>2, <2>3, <2>4, <2>5 DEF bytes
<1>6. CASE instr \in [kind : {"labelRef", "labelDef"}, label : Nat] /\ instr.kind = "labelDef"
  <2>1. bytes = <<>> /\ EncodedSize(instr) = 0
    BY <1>6 DEF Encode, EncodedSize
  <2>. HIDE DEF bytes
  <2>2. bytes \in Seq(Nat) /\ Len(bytes) = 0
    BY <2>1
  <2>. QED  BY <1>6, <2>1, <2>2 DEF bytes
<1>. QED  BY <1>1, <1>3, <1>4, <1>5, <1>6 DEF AnyInstruction

(* The bytes of an instruction lie at its offset.                           *)
LEMMA CodeLies ==
  ASSUME IInv, CanFinalize(stream)
  PROVE  LET instrs == stream.instructions
             code   == finalize(stream)
         IN  /\ code \in Seq(Nat)
             /\ Len(code) = OffsetOf(instrs, Len(instrs) + 1)
             /\ \A i \in 1..Len(instrs) : IsCode(instrs[i]) =>
                  LiesAt(code, Encode(instrs, i), OffsetOf(instrs, i))
<1>. DEFINE instrs == stream.instructions
            code   == finalize(stream)
            N      == Len(instrs)
            seqs   == [i \in 1..N |-> Encode(instrs, i)]
            off    == [i \in 1..(N + 1) |-> OffsetOf(instrs, i)]
<1>1. N \in Nat
  BY InstructionsTyped
<1>2. \A i \in 1..N : seqs[i] \in Seq(Nat) /\ Len(seqs[i]) = EncodedSize(instrs[i])
  BY Encodings
<1>3. seqs \in Seq(Seq(Nat)) /\ Len(seqs) = N
  <2>1. \A i \in 1..N : Encode(instrs, i) \in Seq(Nat)
    BY <1>2
  <2>. HIDE DEF N
  <2>. QED  BY <1>1, <2>1
<1>4. /\ OffsetOf(instrs, 1) = 0
      /\ \A i \in 1..(N + 1) : OffsetOf(instrs, i) \in Nat
      /\ \A i \in 1..N : OffsetOf(instrs, i + 1) = OffsetOf(instrs, i) + EncodedSize(instrs[i])
  BY InstructionsTyped, OffsetSteps
<1>5. code = FlattenSeq(seqs)
  BY DEF finalize
<1>. HIDE DEF instrs, code, N, seqs
<1>6. /\ off[1] = 0
      /\ \A i \in 1..N : off[i] \in Nat /\ off[i + 1] = off[i] + Len(seqs[i])
  <2>1. 1 \in 1..(N + 1) /\ \A i \in 1..N : i \in 1..(N + 1) /\ i + 1 \in 1..(N + 1)
    BY <1>1
  <2>. QED  BY <1>2, <1>4, <2>1
<1>7. code \in Seq(Nat) /\ Placed(code, seqs, off, N)
  <2>. HIDE DEF off
  <2>1. \A i \in 1..Len(seqs) : off[i] \in Nat /\ off[i + 1] = off[i] + Len(seqs[i])
    BY <1>3, <1>6
  <2>2. FlattenSeq(seqs) \in Seq(Nat) /\ Placed(FlattenSeq(seqs), seqs, off, Len(seqs))
    BY <1>3, <1>6, <2>1, Flattened
  <2>. QED  BY <1>3, <1>5, <2>2
<1>8. Len(code) = OffsetOf(instrs, N + 1)
  <2>1. N + 1 \in 1..(N + 1)
    BY <1>1
  <2>. QED  BY <1>7, <2>1 DEF Placed
<1>9. ASSUME NEW i \in 1..N, IsCode(instrs[i])
      PROVE  LiesAt(code, Encode(instrs, i), OffsetOf(instrs, i))
  <2>1. off[i] = OffsetOf(instrs, i) /\ OffsetOf(instrs, i) \in Nat /\ seqs[i] = Encode(instrs, i)
    <3>1. i \in 1..(N + 1)
      BY <1>1
    <3>. QED  BY <1>4, <3>1 DEF seqs
  <2>. HIDE DEF off
  <2>2. Len(seqs[i]) \in Nat \ {0}
    <3>1. instrs[i] \in AnyInstruction
      BY InstructionsTyped DEF instrs, N
    <3>2. EncodedSize(instrs[i]) \in 0..4 /\ EncodedSize(instrs[i]) > 0
      BY <1>9, <3>1, SizeOfKinds
    <3>. QED  BY <1>2, <3>2
  <2>3. \A k \in 1..Len(seqs[i]) : off[i] + k \in 1..Len(code) /\ code[off[i] + k] = seqs[i][k]
    BY <1>7 DEF Placed
  <2>4. off[i] + Len(seqs[i]) <= Len(code)
    <3>1. Len(code) \in Nat
      BY <1>7
    <3>2. off[i] + Len(seqs[i]) \in 1..Len(code)
      BY <2>2, <2>3
    <3>. QED  BY <3>1, <3>2
  <2>. QED  BY <1>7, <2>1, <2>3, <2>4 DEF LiesAt
<1>. QED  BY <1>7, <1>8, <1>9 DEF instrs, code, N

(* What finalize() has written for an instruction is read back.             *)
InstructionRead(i, code) ==
  LET instr == stream.instructions[i]
      pc    == OffsetOf(stream.instructions, i)
  IN  /\ NextPC(code, pc) = OffsetOf(stream.instructions, i + 1)
      /\ pc < Len(code)
      /\ instr.kind = "opcode" => Byte(code, pc) = instr.opcode
      /\ instr.kind = "push" =>
           /\ Byte(code, pc) \in PUSH0..PUSH32
           /\ Operand(code, pc) = instr.value
           /\ OperandSize(Byte(code, pc)) > 0 => Byte(code, pc + 1) # 0
      /\ instr.kind = "labelRef" =>
           /\ Byte(code, pc) = PUSH2
           /\ Operand(code, pc) = labelOffset(stream.instructions, instr.label)

LEMMA ReadsBack ==
  ASSUME IInv, CanFinalize(stream), Len(finalize(stream)) < 256 ^ 2,
         NEW i \in 1..Len(stream.instructions), IsCode(stream.instructions[i])
  PROVE  InstructionRead(i, finalize(stream))
<1>. DEFINE instrs == stream.instructions
            instr  == instrs[i]
            code   == finalize(stream)
            bytes  == Encode(instrs, i)
            pc     == OffsetOf(instrs, i)
<1>1. /\ bytes \in Seq(Nat)
      /\ Len(bytes) = EncodedSize(instr)
      /\ instr.kind \in {"opcode", "push", "labelRef", "labelDef"}
      /\ instr.kind = "opcode" =>
           bytes = <<instr.opcode>> /\ instr.opcode \in (0..255) \ (PUSH0..PUSH32)
      /\ instr.kind = "push" =>
           bytes = PushBytes(instr.value, numBytes(instr.value)) /\ instr.value \in Words24
      /\ instr.kind = "labelRef" =>
           /\ bytes = PushBytes(labelOffset(instrs, instr.label), 2)
           /\ labelOffset(instrs, instr.label) \in Nat
  BY Encodings
<1>2. LiesAt(code, bytes, pc) /\ pc \in Nat
  <2>1. LiesAt(code, bytes, pc)
    BY CodeLies
  <2>. QED  BY <2>1 DEF LiesAt
<1>3. OffsetOf(instrs, i + 1) = pc + Len(bytes) /\ Len(bytes) \in Nat \ {0}
  <2>1. instr \in AnyInstruction /\ instrs \in Seq(AnyInstruction)
    BY InstructionsTyped
  <2>2. EncodedSize(instr) \in Nat \ {0}
    BY <2>1, SizeOfKinds
  <2>3. OffsetOf(instrs, i + 1) = OffsetOf(instrs, i) + EncodedSize(instrs[i])
    BY <2>1, OffsetSteps
  <2>. QED  BY <1>1, <2>2, <2>3
<1>4. pc < Len(code)
  <2>1. code \in Seq(Nat) /\ pc + Len(bytes) <= Len(code)
    BY <1>2 DEF LiesAt
  <2>2. Len(code) \in Nat
    BY <2>1
  <2>. HIDE DEF code, bytes, pc
  <2>. QED  BY <1>2, <1>3, <2>1, <2>2
<1>5. instr.kind \in {"opcode", "push", "labelRef"}
  BY <1>1 DEF IsCode
<1>6. instr.kind = "labelRef" => labelOffset(instrs, instr.label) < 256 ^ 2
  <2>1. SUFFICES ASSUME instr.kind = "labelRef" PROVE labelOffset(instrs, instr.label) < 256 ^ 2
    OBVIOUS
  <2>2. instrs \in Seq(AnyInstruction) /\ Len(instrs) \in Nat
    BY InstructionsTyped
  <2>3. PICK def \in 1..Len(instrs) :
          labelOffset(instrs, instr.label) = OffsetOf(instrs, def)
    <3>1. \E j \in 1..Len(instrs) : instrs[j] = LabelDefInstr(instr.label)
      BY <2>1, ReferencesDefined
    <3>. HIDE DEF instrs, instr
    <3>. QED  BY <2>2, <3>1, LastDefinition
  <2>4. OffsetOf(instrs, def) <= Len(code)
    <3>1. Len(code) = OffsetOf(instrs, Len(instrs) + 1)
      BY CodeLies
    <3>2. \A k \in def..(Len(instrs) + 1) : OffsetOf(instrs, def) <= OffsetOf(instrs, k)
      <4>1. instrs \in Seq(AnyInstruction) /\ def \in 1..(Len(instrs) + 1)
        BY <2>2
      <4>. HIDE DEF instrs
      <4>. QED  BY <4>1, OffsetsGrow
    <3>3. Len(instrs) + 1 \in def..(Len(instrs) + 1)
      BY <2>2
    <3>. HIDE DEF instrs, code
    <3>. QED  BY <3>1, <3>2, <3>3
  <2>5. OffsetOf(instrs, def) \in Nat /\ Len(code) \in Nat
    <3>1. def \in 1..(Len(instrs) + 1)
      BY <2>2
    <3>2. OffsetOf(instrs, def) \in Nat
      BY <2>2, <3>1, OffsetSteps
    <3>3. code \in Seq(Nat)
      BY CodeLies
    <3>. QED  BY <3>2, <3>3
  <2>6. Len(code) < 256 ^ 2
    OBVIOUS
  <2>. HIDE DEF instrs, instr, code
  <2>. QED  BY <2>3, <2>4, <2>5, <2>6, Powers, SMT
<1>. HIDE DEF instr, code, bytes, pc
<1>7. CASE instr.kind = "opcode"
  <2>1. bytes = <<instr.opcode>> /\ instr.opcode \in (0..255) \ (PUSH0..PUSH32)
    BY <1>1, <1>7
  <2>2. Len(bytes) = 1 /\ bytes[1] = instr.opcode
    BY <2>1
  <2>3. Byte(code, pc) = instr.opcode
    <3>1. 1 \in 1..Len(bytes) /\ pc + (1 - 1) = pc
      BY <1>2, <2>2
    <3>2. \A k \in 1..Len(bytes) : Byte(code, pc + (k - 1)) = bytes[k]
      <4>1. bytes \in Seq(Nat) /\ LiesAt(code, bytes, pc)
        BY <1>1, <1>2
      <4>. QED  BY <4>1, BytesRead
    <3>. QED  BY <2>2, <3>1, <3>2
  <2>4. OperandSize(Byte(code, pc)) = 0
    BY <2>1, <2>3 DEF OperandSize, PUSH0, PUSH1, PUSH32
  <2>5. NextPC(code, pc) = pc + Len(bytes)
    BY <1>2, <2>2, <2>4 DEF NextPC
  <2>. QED  BY <1>3, <1>4, <1>7, <2>3, <2>5 DEF InstructionRead, instr, pc, code
<1>8. CASE instr.kind = "push"
  <2>. DEFINE value == instr.value
              n     == numBytes(value)
  <2>1. bytes = PushBytes(value, n) /\ value \in Words24 /\ value \in Nat
    BY <1>1, <1>8, Words24Natural
  <2>2. n \in 0..3 /\ value < 256 ^ n /\ (n > 0 => value >= 256 ^ (n - 1))
    BY <2>1, NumBytes
  <2>. HIDE DEF value, n
  <2>3. /\ Byte(code, pc) = PUSH0 + n
        /\ OperandSize(Byte(code, pc)) = n
        /\ NextPC(code, pc) = pc + (n + 1)
        /\ Operand(code, pc) = value
        /\ n > 0 /\ value >= 256 ^ (n - 1) => Byte(code, pc + 1) # 0
    BY <1>2, <2>1, <2>2, PushRead
  <2>4. Len(bytes) = n + 1
    BY <2>1, <2>2, PushBytesAre
  <2>5. PUSH0 + n \in PUSH0..PUSH32
    BY <2>2 DEF PUSH0, PUSH32
  <2>6. /\ NextPC(code, pc) = pc + Len(bytes)
        /\ Byte(code, pc) \in PUSH0..PUSH32
        /\ Operand(code, pc) = value
        /\ OperandSize(Byte(code, pc)) > 0 => Byte(code, pc + 1) # 0
    BY <2>2, <2>3, <2>4, <2>5, Zenon
  <2>. QED  BY <1>3, <1>4, <1>8, <2>6 DEF InstructionRead, instr, pc, code, value
<1>9. CASE instr.kind = "labelRef"
  <2>. DEFINE value == labelOffset(instrs, instr.label)
  <2>1. bytes = PushBytes(value, 2) /\ value \in Nat /\ value < 256 ^ 2
    BY <1>1, <1>6, <1>9
  <2>. HIDE DEF value
  <2>2. /\ Byte(code, pc) = PUSH0 + 2
        /\ NextPC(code, pc) = pc + (2 + 1)
        /\ Operand(code, pc) = value
    <3>1. 2 \in 0..3
      OBVIOUS
    <3>. QED  BY <1>2, <2>1, <3>1, PushRead
  <2>3. Len(bytes) = 2 + 1
    <3>1. 2 \in 0..3
      OBVIOUS
    <3>. QED  BY <2>1, <3>1, PushBytesAre
  <2>4. Byte(code, pc) = PUSH2
    BY <2>2 DEF PUSH0, PUSH2
  <2>5. NextPC(code, pc) = pc + Len(bytes)
    BY <2>2, <2>3
  <2>. QED  BY <1>3, <1>4, <1>9, <2>2, <2>4, <2>5 DEF InstructionRead, instr, pc, code, value
<1>. QED  BY <1>5, <1>7, <1>8, <1>9 DEF code

-----------------------------------------------------------------------------
(* What the EVM makes of the code.                                          *)

(* The recursion from[] of Boundaries, from pc = m on.                      *)
StartsFrom(from, code, m) ==
  /\ from \in [Nat -> Seq(Nat)]
  /\ \A pc \in Nat : pc >= m =>
       from[pc] = IF pc >= Len(code) THEN <<>> ELSE <<pc>> \o from[NextPC(code, pc)]

LEMMA NextIsLater ==
  ASSUME NEW code, NEW pc \in Nat
  PROVE  NextPC(code, pc) \in Nat /\ NextPC(code, pc) > pc
<1>1. OperandSize(Byte(code, pc)) \in Nat
  <2>1. ASSUME NEW b \in PUSH1..PUSH32 PROVE b - PUSH0 \in Nat
    BY DEF PUSH0, PUSH1, PUSH32
  <2>. QED  BY <2>1, Zenon DEF OperandSize
<1>. QED  BY <1>1 DEF NextPC

LEMMA BoundariesExist ==
  ASSUME NEW code \in Seq(Nat)
  PROVE  \E from : StartsFrom(from, code, 0) /\ Boundaries(code) = from[0]
<1>. DEFINE L == Len(code)
            T == {m \in 0..L : \E from : StartsFrom(from, code, m)}
            Step(f) == [pc \in Nat |->
                          IF pc >= L THEN <<>> ELSE <<pc>> \o f[NextPC(code, pc)]]
            from == CHOOSE f : f = Step(f)
<1>1. L \in Nat
  OBVIOUS
<1>. HIDE DEF L
<1>2. L \in T
  <2>. DEFINE g == [pc \in Nat |-> <<>>]
  <2>1. g \in [Nat -> Seq(Nat)] /\ \A pc \in Nat : g[pc] = <<>>
    OBVIOUS
  <2>. HIDE DEF g
  <2>2. StartsFrom(g, code, L)
    BY <2>1 DEF StartsFrom, L
  <2>. QED  BY <1>1, <2>2
<1>3. ASSUME NEW m \in 0..(L - 1), m + 1 \in T PROVE m \in T
  <2>1. PICK f : StartsFrom(f, code, m + 1)
    BY <1>3
  <2>. DEFINE g == [f EXCEPT ![m] = <<m>> \o f[NextPC(code, m)]]
  <2>2. m \in Nat /\ m < L /\ f \in [Nat -> Seq(Nat)]
    BY <1>1, <2>1 DEF StartsFrom
  <2>3. NextPC(code, m) \in Nat /\ NextPC(code, m) # m
    BY <2>2, NextIsLater
  <2>4. <<m>> \o f[NextPC(code, m)] \in Seq(Nat)
    <3>1. <<m>> \in Seq(Nat) /\ f[NextPC(code, m)] \in Seq(Nat)
      BY <2>2, <2>3
    <3>. QED  BY <3>1
  <2>5. g \in [Nat -> Seq(Nat)] /\ g[m] = <<m>> \o f[NextPC(code, m)]
        /\ \A pc \in Nat : pc # m => g[pc] = f[pc]
    BY <2>2, <2>4
  <2>. HIDE DEF g
  <2>6. ASSUME NEW pc \in Nat, pc >= m
        PROVE  g[pc] = IF pc >= L THEN <<>> ELSE <<pc>> \o g[NextPC(code, pc)]
    <3>1. CASE pc = m
      <4>1. ~(pc >= L) /\ g[NextPC(code, m)] = f[NextPC(code, m)]
        <5>1. ~(m >= L)
          BY <1>1, <2>2
        <5>. QED  BY <2>3, <2>5, <3>1, <5>1, Zenon
      <4>. QED  BY <2>5, <3>1, <4>1, Zenon
    <3>2. CASE pc # m
      <4>1. pc >= m + 1
        BY <2>2, <2>6, <3>2
      <4>2. NextPC(code, pc) \in Nat /\ NextPC(code, pc) # m
        <5>1. NextPC(code, pc) \in Nat /\ NextPC(code, pc) > pc
          BY NextIsLater
        <5>. QED  BY <2>2, <2>6, <5>1
      <4>3. g[pc] = f[pc] /\ g[NextPC(code, pc)] = f[NextPC(code, pc)]
        BY <2>5, <3>2, <4>2
      <4>4. f[pc] = IF pc >= L THEN <<>> ELSE <<pc>> \o f[NextPC(code, pc)]
        BY <2>1, <4>1 DEF StartsFrom, L
      <4>. QED  BY <4>3, <4>4, Zenon
    <3>. QED  BY <3>1, <3>2
  <2>7. StartsFrom(g, code, m)
    BY <2>5, <2>6 DEF StartsFrom, L
  <2>8. m \in 0..L
    BY <1>1
  <2>. QED  BY <2>7, <2>8
<1>4. 0 \in T
  <2>1. \A i \in 0..L : i \in T
    <3>. HIDE DEF T
    <3>. QED  BY <1>1, <1>2, <1>3, CountDown
  <2>2. 0 \in 0..L
    BY <1>1
  <2>. QED  BY <2>1, <2>2
<1>5. PICK f : StartsFrom(f, code, 0)
  BY <1>4
<1>6. f = Step(f)
  <2>1. f \in [Nat -> Seq(Nat)]
    BY <1>5 DEF StartsFrom
  <2>2. \A pc \in Nat : f[pc] = IF pc >= L THEN <<>> ELSE <<pc>> \o f[NextPC(code, pc)]
    <3>1. \A pc \in Nat : pc >= 0
      OBVIOUS
    <3>. QED  BY <1>5, <3>1, Zenon DEF StartsFrom, L
  <2>. QED  BY <2>1, <2>2
<1>7. from = Step(from)
  <2>1. \E h : h = Step(h)
    BY <1>6
  <2>. QED  BY <2>1, Zenon
<1>8. Boundaries(code) = from[0]
  BY Zenon DEF Boundaries, L
<1>. HIDE DEF from
<1>9. /\ from = [pc \in Nat |-> from[pc]]
      /\ \A pc \in Nat : from[pc] = IF pc >= L THEN <<>> ELSE <<pc>> \o from[NextPC(code, pc)]
  BY <1>7, Zenon
<1>10. \A pc \in Nat : from[pc] \in Seq(Nat)
  <2>. DEFINE U == {m \in 0..L : \A pc \in Nat : pc >= m => from[pc] \in Seq(Nat)}
  <2>0. L \in Nat
    BY <1>1 DEF L
  <2>1. L \in U
    <3>1. \A pc \in Nat : pc >= L => from[pc] = <<>>
      BY <1>9, Zenon
    <3>2. <<>> \in Seq(Nat)
      OBVIOUS
    <3>3. L \in 0..L
      BY <2>0
    <3>. QED  BY <3>1, <3>2, <3>3, Zenon
  <2>2. ASSUME NEW m \in 0..(L - 1), m + 1 \in U PROVE m \in U
    <3>1. m \in Nat /\ m \in 0..L /\ ~(m >= L)
      BY <2>0
    <3>2. NextPC(code, m) \in Nat /\ NextPC(code, m) >= m + 1
      BY <3>1, NextIsLater
    <3>3. from[NextPC(code, m)] \in Seq(Nat)
      BY <2>2, <3>2
    <3>4. from[m] = <<m>> \o from[NextPC(code, m)]
      BY <1>9, <3>1, Zenon
    <3>5. from[m] \in Seq(Nat)
      <4>1. <<m>> \in Seq(Nat)
        BY <3>1
      <4>. QED  BY <3>3, <3>4, <4>1
    <3>6. ASSUME NEW pc \in Nat, pc >= m PROVE from[pc] \in Seq(Nat)
      <4>1. pc = m \/ pc >= m + 1
        BY <3>1, <3>6
      <4>. QED  BY <2>2, <3>5, <4>1
    <3>. QED  BY <3>1, <3>6
  <2>3. \A i \in 0..L : i \in U
    <3>. HIDE DEF U
    <3>. QED  BY <2>0, <2>1, <2>2, CountDown
  <2>4. 0 \in U /\ \A pc \in Nat : pc >= 0
    <3>1. 0 \in 0..L
      BY <2>0
    <3>. QED  BY <2>3, <3>1
  <2>. QED  BY <2>4, Zenon
<1>11. StartsFrom(from, code, 0)
  <2>1. from \in [Nat -> Seq(Nat)]
    BY <1>9, <1>10
  <2>. QED  BY <1>9, <2>1, Zenon DEF StartsFrom, L
<1>. QED  BY <1>8, <1>11

LEMMA RankSteps ==
  ASSUME IInv
  PROVE  /\ Rank(0) = 0
         /\ \A i \in 0..Len(stream.instructions) : Rank(i) \in Nat
         /\ \A i \in 1..Len(stream.instructions) :
              Rank(i) = Rank(i - 1) + (IF IsCode(stream.instructions[i]) THEN 1 ELSE 0)
         /\ \A i, j \in 0..Len(stream.instructions) : i <= j => Rank(i) <= Rank(j)
<1>. DEFINE instrs == stream.instructions
            N == Len(instrs)
            Codes(n) == {i \in 1..n : IsCode(instrs[i])}
<1>1. N \in Nat
  BY InstructionsTyped
<1>2. \A n : Rank(n) = Cardinality(Codes(n))
  BY Zenon DEF Rank
<1>. HIDE DEF N
<1>3. ASSUME NEW n \in 0..N PROVE IsFiniteSet(Codes(n))
  <2>1. IsFiniteSet(1..n)
    BY FS_Interval
  <2>2. Codes(n) \in SUBSET (1..n)
    OBVIOUS
  <2>. HIDE DEF Codes
  <2>. QED  BY <2>1, <2>2, FS_Subset
<1>4. Codes(0) = {}
  OBVIOUS
<1>5. ASSUME NEW i \in 1..N
      PROVE  /\ IsCode(instrs[i]) => Codes(i) = Codes(i - 1) \cup {i}
             /\ ~IsCode(instrs[i]) => Codes(i) = Codes(i - 1)
             /\ i \notin Codes(i - 1)
  <2>1. 1..i = 1..(i - 1) \cup {i} /\ i \notin 1..(i - 1)
    OBVIOUS
  <2>. QED  BY <2>1, Zenon
<1>6. ASSUME NEW i \in 0..N, NEW j \in 0..N, i <= j PROVE Codes(i) \in SUBSET Codes(j)
  <2>1. 1..i \subseteq 1..j
    BY <1>6
  <2>. QED  BY <2>1, Zenon
<1>. HIDE DEF Codes, instrs
<1>7. Rank(0) = 0
  BY <1>2, <1>4, FS_EmptySet
<1>8. \A i \in 0..N : Rank(i) \in Nat
  BY <1>2, <1>3, FS_CardinalityType
<1>9. ASSUME NEW i \in 1..N
      PROVE  Rank(i) = Rank(i - 1) + (IF IsCode(instrs[i]) THEN 1 ELSE 0)
  <2>1. i - 1 \in 0..N
    BY <1>1
  <2>2. IsFiniteSet(Codes(i - 1)) /\ Rank(i - 1) \in Nat
    BY <1>3, <1>8, <2>1
  <2>3. Cardinality(Codes(i - 1) \cup {i}) = Cardinality(Codes(i - 1)) + 1
    BY <1>5, <2>2, FS_AddElement
  <2>4. CASE IsCode(instrs[i])
    <3>1. Rank(i) = Rank(i - 1) + 1
      BY <1>2, <1>5, <2>3, <2>4, Zenon
    <3>. QED  BY <2>4, <3>1
  <2>5. CASE ~IsCode(instrs[i])
    <3>1. Rank(i) = Rank(i - 1)
      BY <1>2, <1>5, <2>5, Zenon
    <3>. QED  BY <2>2, <2>5, <3>1
  <2>. QED  BY <2>4, <2>5
<1>10. ASSUME NEW i \in 0..N, NEW j \in 0..N, i <= j PROVE Rank(i) <= Rank(j)
  BY <1>2, <1>3, <1>6, <1>10, FS_Subset
<1>. QED  BY <1>7, <1>8, <1>9, <1>10 DEF instrs, N

(* The EVM's instructions are those of the stream that are in the code.     *)
LEMMA StartsAre ==
  ASSUME IInv, CanFinalize(stream), Len(finalize(stream)) < 256 ^ 2
  PROVE  LET instrs == stream.instructions
             starts == Boundaries(finalize(stream))
         IN  /\ Len(starts) = Rank(Len(instrs))
             /\ \A i \in 1..Len(instrs) : IsCode(instrs[i]) =>
                  Rank(i) \in 1..Len(starts) /\ starts[Rank(i)] = OffsetOf(instrs, i)
<1>. DEFINE instrs == stream.instructions
            N == Len(instrs)
            code == finalize(stream)
            off(i) == OffsetOf(instrs, i)
<1>1. N \in Nat /\ \A i \in 1..(N + 1) : off(i) \in Nat
  BY InstructionsTyped, OffsetSteps
<1>2. code \in Seq(Nat) /\ Len(code) = off(N + 1)
  BY CodeLies
<1>3. PICK from : StartsFrom(from, code, 0) /\ Boundaries(code) = from[0]
  <2>. HIDE DEF code
  <2>. QED  BY <1>2, BoundariesExist
<1>4. ASSUME NEW i \in 1..N
      PROVE  /\ IsCode(instrs[i]) =>
                  NextPC(code, off(i)) = off(i + 1) /\ off(i) < Len(code)
             /\ ~IsCode(instrs[i]) => off(i + 1) = off(i)
  <2>1. CASE IsCode(instrs[i])
    BY <2>1, ReadsBack DEF InstructionRead
  <2>2. CASE ~IsCode(instrs[i])
    <3>1. EncodedSize(instrs[i]) = 0 /\ off(i) \in Nat
      <4>1. instrs[i] \in AnyInstruction /\ i \in 1..(N + 1)
        BY InstructionsTyped
      <4>. QED  BY <1>1, <2>2, <4>1, SizeOfKinds
    <3>2. off(i + 1) = off(i) + EncodedSize(instrs[i])
      BY InstructionsTyped, OffsetSteps
    <3>. HIDE DEF off, instrs
    <3>. QED  BY <2>2, <3>1, <3>2
  <2>. QED  BY <2>1, <2>2
<1>5. /\ Rank(0) = 0
      /\ \A i \in 0..N : Rank(i) \in Nat
      /\ \A i \in 1..N : IsCode(instrs[i]) => Rank(i) = Rank(i - 1) + 1
      /\ \A i \in 1..N : ~IsCode(instrs[i]) => Rank(i) = Rank(i - 1)
      /\ \A i, j \in 0..N : i <= j => Rank(i) <= Rank(j)
  <2>1. \A i \in 1..N : i - 1 \in 0..N
    BY <1>1
  <2>. HIDE DEF N, instrs
  <2>2. /\ Rank(0) = 0
        /\ \A i \in 0..N : Rank(i) \in Nat
        /\ \A i \in 1..N : Rank(i) = Rank(i - 1) + (IF IsCode(instrs[i]) THEN 1 ELSE 0)
        /\ \A i, j \in 0..N : i <= j => Rank(i) <= Rank(j)
    BY RankSteps DEF N, instrs
  <2>. QED  BY <2>1, <2>2
<1>6. off(1) = 0
  BY InstructionsTyped, OffsetSteps
<1>. HIDE DEF instrs, N, code, off
<1>7. /\ \A pc \in Nat : from[pc] \in Seq(Nat)
      /\ \A pc \in Nat : pc >= Len(code) => from[pc] = <<>>
      /\ \A pc \in Nat : pc < Len(code) => from[pc] = <<pc>> \o from[NextPC(code, pc)]
  <2>1. Len(code) \in Nat
    BY <1>2
  <2>2. \A pc \in Nat : pc >= 0 /\ (pc < Len(code) => ~(pc >= Len(code)))
    BY <2>1
  <2>3. \A pc \in Nat : from[pc] = IF pc >= Len(code) THEN <<>> ELSE <<pc>> \o from[NextPC(code, pc)]
    BY <1>3, <2>2, Zenon DEF StartsFrom
  <2>. QED  BY <1>3, <2>2, <2>3 DEF StartsFrom
<1>. DEFINE Marks(i) ==
              /\ Len(from[off(i + 1)]) = Rank(N) - Rank(i)
              /\ \A j \in (i + 1)..N : IsCode(instrs[j]) =>
                   /\ Rank(j) - Rank(i) \in 1..(Rank(N) - Rank(i))
                   /\ from[off(i + 1)][Rank(j) - Rank(i)] = off(j)
            T == {i \in 0..N : Marks(i)}
<1>8. N \in T
  <2>1. N \in 0..N /\ N + 1 \in 1..(N + 1) /\ (N + 1)..N = {} /\ Rank(N) \in Nat
    BY <1>1, <1>5
  <2>2. from[off(N + 1)] = <<>>
    <3>1. off(N + 1) \in Nat /\ off(N + 1) >= Len(code)
      BY <1>1, <1>2, <2>1
    <3>. QED  BY <1>7, <3>1
  <2>3. Len(from[off(N + 1)]) = Rank(N) - Rank(N)
    BY <2>1, <2>2
  <2>. QED  BY <2>1, <2>3
<1>9. ASSUME NEW i \in 0..(N - 1), i + 1 \in T PROVE i \in T
  <2>. DEFINE a == i + 1
  <2>1. a \in 1..N /\ a \in 1..(N + 1) /\ a + 1 \in 1..(N + 1) /\ i = a - 1 /\ i \in 0..N /\ a \in 0..N
    BY <1>1
  <2>2. Marks(a) /\ off(a) \in Nat /\ off(a + 1) \in Nat
    BY <1>1, <1>9, <2>1
  <2>3. Rank(i) \in Nat /\ Rank(a) \in Nat /\ Rank(N) \in Nat /\ Rank(a) <= Rank(N)
    <3>1. N \in 0..N /\ a <= N
      BY <1>1, <2>1
    <3>. QED  BY <1>5, <2>1, <3>1
  <2>4. CASE ~IsCode(instrs[a])
    <3>1. off(a + 1) = off(i + 1) /\ Rank(a) = Rank(i)
      BY <1>4, <1>5, <2>1, <2>4
    <3>2. ASSUME NEW j \in (i + 1)..N, IsCode(instrs[j]) PROVE j \in (a + 1)..N
      <4>1. j # a
        BY <2>4, <3>2
      <4>. QED  BY <2>1, <4>1
    <3>. HIDE DEF a
    <3>. QED  BY <2>1, <2>2, <3>1, <3>2
  <2>5. CASE IsCode(instrs[a])
    <3>1. Rank(a) = Rank(i) + 1 /\ from[off(a)] = <<off(a)>> \o from[off(a + 1)]
      BY <1>4, <1>5, <1>7, <2>1, <2>2, <2>5
    <3>. DEFINE s == from[off(a + 1)]
                t == from[off(a)]
    <3>2. s \in Seq(Nat) /\ Len(s) = Rank(N) - Rank(a) /\ t = <<off(a)>> \o s
      BY <1>7, <2>2, <3>1
    <3>3. /\ Len(t) = Len(s) + 1
          /\ t[1] = off(a)
          /\ \A k \in 1..Len(s) : t[k + 1] = s[k]
      <4>. HIDE DEF s, t, a
      <4>. QED  BY <2>2, <3>2
    <3>4. Len(t) = Rank(N) - Rank(i)
      <4>. HIDE DEF s, t, a
      <4>. QED  BY <2>3, <3>1, <3>2, <3>3
    <3>5. ASSUME NEW j \in (i + 1)..N, IsCode(instrs[j])
          PROVE  /\ Rank(j) - Rank(i) \in 1..(Rank(N) - Rank(i))
                 /\ t[Rank(j) - Rank(i)] = off(j)
      <4>1. CASE j = a
        <5>1. Rank(j) - Rank(i) = 1 /\ 1 \in 1..(Rank(N) - Rank(i))
          <6>. HIDE DEF a
          <6>. QED  BY <2>3, <3>1, <4>1
        <5>. HIDE DEF s, t, a
        <5>. QED  BY <3>3, <4>1, <5>1
      <4>2. CASE j # a
        <5>1. j \in (a + 1)..N /\ j \in 0..N
          BY <2>1, <4>2
        <5>2. Rank(j) - Rank(a) \in 1..(Rank(N) - Rank(a)) /\ s[Rank(j) - Rank(a)] = off(j)
          <6>. HIDE DEF a
          <6>. QED  BY <2>2, <3>5, <5>1
        <5>3. Rank(j) \in Nat /\ Rank(j) - Rank(i) = (Rank(j) - Rank(a)) + 1
              /\ Rank(j) - Rank(i) \in 1..(Rank(N) - Rank(i))
          <6>1. Rank(j) \in Nat
            BY <1>5, <5>1
          <6>2. \A p, q, r \in Nat : p - (q + 1) \in 1..(r - (q + 1)) =>
                  p - q = (p - (q + 1)) + 1 /\ p - q \in 1..(r - q)
            OBVIOUS
          <6>3. Rank(j) - (Rank(i) + 1) \in 1..(Rank(N) - (Rank(i) + 1))
            BY <3>1, <5>2
          <6>4. /\ Rank(j) - Rank(i) = (Rank(j) - (Rank(i) + 1)) + 1
                /\ Rank(j) - Rank(i) \in 1..(Rank(N) - Rank(i))
            BY <2>3, <6>1, <6>2, <6>3
          <6>. QED  BY <3>1, <6>1, <6>4
        <5>. HIDE DEF s, t, a
        <5>4. Rank(j) - Rank(a) \in 1..Len(s)
          BY <3>2, <5>2
        <5>. QED  BY <3>3, <5>2, <5>3, <5>4
      <4>. QED  BY <4>1, <4>2
    <3>. QED  BY <2>1, <3>4, <3>5
  <2>. QED  BY <2>4, <2>5
<1>10. 0 \in T
  <2>1. \A i \in 0..N : i \in T
    <3>. HIDE DEF T
    <3>. QED  BY <1>1, <1>8, <1>9, CountDown
  <2>2. 0 \in 0..N
    BY <1>1
  <2>. QED  BY <2>1, <2>2
<1>11. Boundaries(code) = from[off(0 + 1)]
  BY <1>3, <1>6
<1>12. N \in 0..N /\ Rank(N) \in Nat /\ Rank(N) - Rank(0) = Rank(N)
  BY <1>1, <1>5
<1>13. Len(Boundaries(code)) = Rank(N)
  BY <1>10, <1>11, <1>12
<1>14. ASSUME NEW j \in 1..N, IsCode(instrs[j])
       PROVE  Rank(j) \in 1..Rank(N) /\ Boundaries(code)[Rank(j)] = off(j)
  <2>1. j \in (0 + 1)..N /\ j \in 0..N
    OBVIOUS
  <2>2. Rank(j) - Rank(0) = Rank(j)
    BY <1>5, <2>1
  <2>3. Rank(j) - Rank(0) \in 1..(Rank(N) - Rank(0)) /\ from[off(0 + 1)][Rank(j) - Rank(0)] = off(j)
    BY <1>10, <1>14, <2>1
  <2>. QED  BY <1>11, <1>12, <2>2, <2>3
<1>. QED  BY <1>13, <1>14 DEF instrs, N, code, off

(* After the n-th instruction the code goes on with the next instruction    *)
(* that is in the code, if there is one.                                    *)
LEMMA GoesOn ==
  ASSUME IInv, NEW n \in 0..Len(stream.instructions)
  PROVE  LET instrs == stream.instructions
             N      == Len(instrs)
         IN  \/ Rank(n) = Rank(N) /\ OffsetOf(instrs, n + 1) = OffsetOf(instrs, N + 1)
             \/ \E j \in 1..N : /\ IsCode(instrs[j])
                                /\ Rank(j) = Rank(n) + 1
                                /\ OffsetOf(instrs, j) = OffsetOf(instrs, n + 1)
<1>. DEFINE instrs == stream.instructions
            N == Len(instrs)
            off(i) == OffsetOf(instrs, i)
            On(i) == \/ Rank(i) = Rank(N) /\ off(i + 1) = off(N + 1)
                     \/ \E j \in 1..N : /\ IsCode(instrs[j])
                                        /\ Rank(j) = Rank(i) + 1
                                        /\ off(j) = off(i + 1)
            T == {i \in 0..N : On(i)}
<1>1. N \in Nat
  BY InstructionsTyped
<1>2. ASSUME NEW i \in 1..N, ~IsCode(instrs[i])
      PROVE  Rank(i) = Rank(i - 1) /\ off(i + 1) = off(i)
  <2>1. EncodedSize(instrs[i]) = 0 /\ i \in 1..(N + 1) /\ i - 1 \in 0..N
    <3>1. instrs[i] \in AnyInstruction
      BY InstructionsTyped
    <3>. QED  BY <1>1, <1>2, <3>1, SizeOfKinds
  <2>2. off(i) \in Nat /\ off(i + 1) = off(i) + EncodedSize(instrs[i])
    BY <2>1, InstructionsTyped, OffsetSteps
  <2>3. Rank(i - 1) \in Nat /\ Rank(i) = Rank(i - 1) + (IF IsCode(instrs[i]) THEN 1 ELSE 0)
    BY <2>1, RankSteps
  <2>. HIDE DEF off, instrs
  <2>. QED  BY <1>2, <2>1, <2>2, <2>3
<1>3. ASSUME NEW i \in 1..N, IsCode(instrs[i]) PROVE Rank(i) = Rank(i - 1) + 1
  BY <1>3, RankSteps
<1>. HIDE DEF instrs, N, off
<1>4. N \in T
  BY <1>1
<1>5. ASSUME NEW i \in 0..(N - 1), i + 1 \in T PROVE i \in T
  <2>1. i + 1 \in 1..N /\ (i + 1) - 1 = i /\ i \in 0..N
    BY <1>1
  <2>2. CASE IsCode(instrs[i + 1])
    <3>1. Rank(i + 1) = Rank(i) + 1
      BY <1>3, <2>1, <2>2
    <3>. QED  BY <2>1, <2>2, <3>1
  <2>3. CASE ~IsCode(instrs[i + 1])
    <3>1. Rank(i + 1) = Rank(i) /\ off((i + 1) + 1) = off(i + 1)
      BY <1>2, <2>1, <2>3
    <3>2. On(i + 1)
      BY <1>5
    <3>. QED  BY <2>1, <3>1, <3>2
  <2>. QED  BY <2>2, <2>3
<1>6. \A i \in 0..N : i \in T
  <2>. HIDE DEF T
  <2>. QED  BY <1>1, <1>4, <1>5, CountDown
<1>7. n \in T
  BY <1>6 DEF N, instrs
<1>. QED  BY <1>7 DEF instrs, N, off

(* A reference points at what its label marks.                              *)
LEMMA ReferencePointsAt ==
  ASSUME IInv, CanFinalize(stream), Len(finalize(stream)) < 256 ^ 2,
         NEW i \in 1..Len(stream.instructions), stream.instructions[i].kind = "labelRef"
  PROVE  labelOffset(stream.instructions, stream.instructions[i].label)
           = PointsAt(stream.instructions[i].label,
                      Boundaries(finalize(stream)), finalize(stream))
<1>. DEFINE instrs == stream.instructions
            label  == instrs[i].label
            code   == finalize(stream)
            starts == Boundaries(code)
            N      == Len(instrs)
            off(k) == OffsetOf(instrs, k)
<1>1. \E j \in 1..N : instrs[j] = LabelDefInstr(label)
  BY ReferencesDefined
<1>2. N \in Nat /\ instrs \in Seq(AnyInstruction)
  BY InstructionsTyped
<1>3. PICK def \in 1..N :
        /\ instrs[def] = LabelDefInstr(label)
        /\ labelOffset(instrs, label) = off(def)
        /\ def = CHOOSE k \in 1..N : /\ instrs[k] = LabelDefInstr(label)
                                     /\ \A j \in (k + 1)..N : instrs[j] # instrs[k]
  <2>. HIDE DEF instrs, label
  <2>. QED  BY <1>1, <1>2, LastDefinition
<1>4. PointsAt(label, starts, code) =
        IF Rank(def - 1) < Len(starts) THEN starts[Rank(def - 1) + 1] ELSE Len(code)
  <2>. DEFINE d == CHOOSE k \in 1..N : /\ instrs[k] = LabelDefInstr(label)
                                       /\ \A j \in (k + 1)..N : instrs[j] # instrs[k]
  <2>. HIDE DEF label, starts, code
  <2>1. PointsAt(label, starts, code) =
          IF Rank(d - 1) < Len(starts) THEN starts[Rank(d - 1) + 1] ELSE Len(code)
    BY Zenon DEF PointsAt
  <2>2. d = def
    BY <1>3, Zenon
  <2>. HIDE DEF d
  <2>. QED  BY <2>1, <2>2, Zenon
<1>5. /\ Len(starts) = Rank(N)
      /\ \A j \in 1..N : IsCode(instrs[j]) =>
           Rank(j) \in 1..Len(starts) /\ starts[Rank(j)] = off(j)
  BY StartsAre
<1>6. Len(code) = off(N + 1)
  BY CodeLies
<1>7. def - 1 \in 0..N /\ (def - 1) + 1 = def
  BY <1>2
<1>8. \/ Rank(def - 1) = Rank(N) /\ off((def - 1) + 1) = off(N + 1)
      \/ \E j \in 1..N : /\ IsCode(instrs[j])
                         /\ Rank(j) = Rank(def - 1) + 1
                         /\ off(j) = off((def - 1) + 1)
  BY <1>7, GoesOn
<1>9. Rank(def - 1) \in Nat /\ Rank(N) \in Nat
  <2>1. N \in 0..N
    BY <1>2
  <2>. QED  BY <1>7, <2>1, RankSteps
<1>. HIDE DEF instrs, label, code, starts, N, off
<1>10. CASE Rank(def - 1) = Rank(N) /\ off((def - 1) + 1) = off(N + 1)
  <2>1. ~(Rank(def - 1) < Len(starts))
    BY <1>5, <1>9, <1>10
  <2>2. PointsAt(label, starts, code) = off(def)
    BY <1>4, <1>6, <1>7, <1>10, <2>1, Zenon
  <2>. QED  BY <1>3, <2>2, Zenon DEF label, instrs, starts, code
<1>11. ASSUME NEW j \in 1..N, IsCode(instrs[j]), Rank(j) = Rank(def - 1) + 1,
              off(j) = off((def - 1) + 1)
       PROVE  PointsAt(label, starts, code) = off(def)
  <2>1. Rank(j) \in 1..Len(starts) /\ starts[Rank(j)] = off(j)
    BY <1>5, <1>11
  <2>2. Rank(def - 1) < Len(starts)
    BY <1>5, <1>9, <1>11, <2>1
  <2>. QED  BY <1>4, <1>7, <1>11, <2>1, <2>2, Zenon
<1>12. PointsAt(label, starts, code) = off(def) => labelOffset(instrs, label) = PointsAt(label, starts, code)
  BY <1>3, Zenon
<1>. QED  BY <1>8, <1>10, <1>11, <1>12 DEF label, instrs, starts, code

(* An EVM that reads the finalized bytes finds exactly the instructions of  *)
(* the stream, with their values and with references to the instructions    *)
(* that the labels mark, for streams of every length.                       *)
THEOREM ReadsAsWritten == Spec => []RoundTrip
<1>1. ASSUME IInv PROVE RoundTrip
  <2>. DEFINE instrs == stream.instructions
              code   == finalize(stream)
              starts == Boundaries(code)
  <2>1. SUFFICES ASSUME CanFinalize(stream), Len(code) < 256 ^ 2
                 PROVE  RoundTrip
    BY DEF RoundTrip, Finalizable
  <2>2. /\ Len(starts) = Rank(Len(instrs))
        /\ \A i \in 1..Len(instrs) : IsCode(instrs[i]) => starts[Rank(i)] = OffsetOf(instrs, i)
    BY <1>1, <2>1, StartsAre
  <2>3. ASSUME NEW i \in 1..Len(instrs), IsCode(instrs[i])
        PROVE  LET byte == Byte(code, starts[Rank(i)])
                   word == Operand(code, starts[Rank(i)])
               IN  CASE instrs[i].kind = "opcode" -> byte = instrs[i].opcode
                     [] instrs[i].kind = "push" ->
                          byte \in PUSH0..PUSH32 /\ word = instrs[i].value
                     [] instrs[i].kind = "labelRef" ->
                          /\ byte = PUSH2
                          /\ word = PointsAt(instrs[i].label, starts, code)
    <3>1. InstructionRead(i, code) /\ starts[Rank(i)] = OffsetOf(instrs, i)
      BY <1>1, <2>1, <2>2, <2>3, ReadsBack
    <3>2. instrs[i].kind \in {"opcode", "push", "labelRef"}
      <4>1. instrs[i].kind \in {"opcode", "push", "labelRef", "labelDef"}
        BY <1>1, <2>1, Encodings
      <4>. HIDE DEF instrs
      <4>. QED  BY <2>3, <4>1 DEF IsCode
    <3>3. instrs[i].kind = "labelRef" =>
            labelOffset(instrs, instrs[i].label) = PointsAt(instrs[i].label, starts, code)
      BY <1>1, <2>1, ReferencePointsAt
    <3>4. /\ instrs[i].kind = "opcode" => Byte(code, starts[Rank(i)]) = instrs[i].opcode
          /\ instrs[i].kind = "push" =>
               /\ Byte(code, starts[Rank(i)]) \in PUSH0..PUSH32
               /\ Operand(code, starts[Rank(i)]) = instrs[i].value
          /\ instrs[i].kind = "labelRef" =>
               /\ Byte(code, starts[Rank(i)]) = PUSH2
               /\ Operand(code, starts[Rank(i)]) = PointsAt(instrs[i].label, starts, code)
      <4>. HIDE DEF starts, code
      <4>. QED  BY <3>1, <3>3, Zenon DEF InstructionRead
    <3>. HIDE DEF instrs, starts, code
    <3>. QED  BY <3>2, <3>4
  <2>. QED  BY <2>2, <2>3 DEF RoundTrip
<1>. QED  BY <1>1, Invariance, PTL

(* No PUSH of the stream could be shorter, whatever the values.             *)
THEOREM ShortestPush == Spec => []NoLeadingZero
<1>1. ASSUME IInv PROVE NoLeadingZero
  <2>. DEFINE instrs == stream.instructions
              code   == finalize(stream)
              starts == Boundaries(code)
  <2>1. SUFFICES ASSUME CanFinalize(stream), Len(code) < 256 ^ 2,
                        NEW i \in 1..Len(instrs), instrs[i].kind = "push",
                        OperandSize(Byte(code, starts[Rank(i)])) > 0
                 PROVE  Byte(code, starts[Rank(i)] + 1) # 0
    BY DEF NoLeadingZero, Finalizable
  <2>2. IsCode(instrs[i])
    BY <2>1 DEF IsCode
  <2>3. InstructionRead(i, code) /\ starts[Rank(i)] = OffsetOf(instrs, i)
    BY <1>1, <2>1, <2>2, ReadsBack, StartsAre
  <2>. HIDE DEF starts, code
  <2>. QED  BY <2>1, <2>3, Zenon DEF InstructionRead
<1>. QED  BY <1>1, Invariance, PTL
=============================================================================
