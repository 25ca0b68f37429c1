---------------------------- MODULE TrackerProofs ----------------------------
(***************************************************************************)
(* Proofs about FunctionExecution, continued: the emitter's tracker is      *)
(* right about the stack of the machine that runs the code.                 *)
(***************************************************************************)
EXTENDS FunctionExecutionProofs

-----------------------------------------------------------------------------
(* TrackerExact.  Code can be annotated: before each instruction and at the *)
(* end, which function it belongs to, how many words that function has on   *)
(* the stack, and which labels the emitter has pushed above them, or that   *)
(* the label to return to lies on top.                                      *)

Note(h, f, to, l, r) == [h |-> h, f |-> f, to |-> to, l |-> l, r |-> r]

Spot(h, f)          == Note(h, f, "none", 0, 0)
Holding(h, f, l)    == Note(h, f, "one", l, 0)
Calling(h, f, l, r) == Note(h, f, "two", l, r)
Leaving(h, f)       == Note(h, f, "back", 0, 0)

LEMMA NoteFields ==
  ASSUME NEW h, NEW f, NEW l, NEW r
  PROVE  /\ Spot(h, f).h = h /\ Spot(h, f).f = f /\ Spot(h, f).to = "none"
         /\ Spot(h, f).l = 0 /\ Spot(h, f).r = 0
         /\ Holding(h, f, l).h = h /\ Holding(h, f, l).f = f /\ Holding(h, f, l).to = "one"
         /\ Holding(h, f, l).l = l /\ Holding(h, f, l).r = 0
         /\ Calling(h, f, l, r).h = h /\ Calling(h, f, l, r).f = f
         /\ Calling(h, f, l, r).to = "two" /\ Calling(h, f, l, r).l = l
         /\ Calling(h, f, l, r).r = r
         /\ Leaving(h, f).h = h /\ Leaving(h, f).f = f /\ Leaving(h, f).to = "back"
         /\ Leaving(h, f).l = 0 /\ Leaving(h, f).r = 0
BY DEF Spot, Holding, Calling, Leaving, Note

Noted(a) == a.h \in Nat /\ a.l \in Nat /\ a.r \in Nat

LEMMA SpotIsNoted == ASSUME NEW h \in Nat, NEW f PROVE Noted(Spot(h, f))
BY NoteFields DEF Noted

(* Each return of the function returns n values; one of them does. *)
ReturnsAre(functions, f, n) ==
  \A b \in 1..Len(functions[f].body) :
    LastOp(functions[f].body[b]).name = "func.return"
      => Len(LastOp(functions[f].body[b]).operands) = n

Returns(functions, f, n) ==
  \E b \in 1..Len(functions[f].body) :
    /\ LastOp(functions[f].body[b]).name = "func.return"
    /\ Len(LastOp(functions[f].body[b]).operands) = n

(* How an instruction leads from one note to the next: as any             *)
(* instruction that is neither a label nor a jump,                          *)
Straight(instr, a, b) ==
  /\ a.to = "none"
  /\ instr.kind = "push" \/ (instr.kind = "opcode" /\ instr.opcode \notin {JUMP, JUMPI})
  /\ GoesOn(instr) => b = Spot(b.h, a.f) /\ Flow(instr, a.h, b.h)

(* as a label, *)
Marks(instr, a, b) == instr.kind = "labelDef" /\ a.to = "none" /\ b = a

(* as a reference to one, *)
Refers(instr, a, b) ==
  /\ instr.kind = "labelRef"
  /\ \/ a.to = "none" /\ b = Holding(a.h, a.f, instr.label)
     \/ a.to = "one" /\ b = Calling(a.h, a.f, instr.label, a.l)

(* as a jump to the label that comes next, *)
Branches(instr, next, a, b) ==
  /\ instr = OpcodeInstr(JUMP)
  /\ a.to = "one"
  /\ next = LabelDefInstr(a.l)
  /\ b = Spot(a.h, a.f)

(* as a call, which returns to the label that comes next, *)
Calls(functions, instr, next, a, b) ==
  /\ instr = OpcodeInstr(JUMP)
  /\ a.to = "two"
  /\ next = LabelDefInstr(a.r)
  /\ \E g \in 2..Len(functions) : \E n \in Nat :
       /\ a.l = EntryLabel(functions, g)
       /\ ReturnsAre(functions, g, n)
       /\ b = Spot(a.h + n, a.f)

(* as the exchange of the last result with the label to return to,          *)
Swaps(instr, a, b) ==
  /\ a.to = "none"
  /\ a.f # 1
  /\ a.h \in 1..16
  /\ instr = OpcodeInstr(SWAP1 + a.h - 1)
  /\ b = Leaving(a.h, a.f)

(* or as the jump to it. *)
Leaves(functions, instr, a) ==
  /\ instr = OpcodeInstr(JUMP)
  /\ a.f # 1
  /\ Returns(functions, a.f, a.h)
  /\ a.to = "back" \/ (a.to = "none" /\ a.h = 0)

Goes(functions, instr, next, a, b) ==
  \/ Straight(instr, a, b)
  \/ Marks(instr, a, b)
  \/ Refers(instr, a, b)
  \/ Branches(instr, next, a, b)
  \/ Calls(functions, instr, next, a, b)
  \/ Swaps(instr, a, b)
  \/ Leaves(functions, instr, a)

(* After the last instruction the label open is expected; none if it is     *)
(* Closed.                                                                  *)
Closed == -1

Following(code, k, open) == IF k < Len(code) THEN code[k + 1] ELSE LabelDefInstr(open)

Annotated(functions, code, as, open) ==
  /\ \A k \in 1..(Len(code) + 1) : Noted(as[k])
  /\ \A k \in 1..Len(code) :
       Goes(functions, code[k], Following(code, k, open), as[k], as[k + 1])

LEMMA ClosedIs == ASSUME NEW l \in Nat PROVE LabelDefInstr(Closed) # LabelDefInstr(l)
<1>1. Closed # l
  BY DEF Closed
<1>. QED  BY <1>1, LabelDefsDiffer

LEMMA AnyNext ==
  ASSUME NEW functions, NEW instr, NEW a, NEW b, Noted(a),
         Goes(functions, instr, LabelDefInstr(Closed), a, b), NEW next
  PROVE  Goes(functions, instr, next, a, b)
<1>1. ~Branches(instr, LabelDefInstr(Closed), a, b)
  BY ClosedIs DEF Noted, Branches
<1>2. ~Calls(functions, instr, LabelDefInstr(Closed), a, b)
  BY ClosedIs DEF Noted, Calls
<1>. QED  BY <1>1, <1>2 DEF Goes

NotesJoined(functions, s, t, f, g, open, as) ==
  /\ Annotated(functions, s \o t, as, open)
  /\ \A k \in 1..(Len(s) + 1) : as[k] = f[k]
  /\ \A k \in 1..(Len(t) + 1) : as[Len(s) + k] = g[k]

(* Annotated code is joined where the notes agree; a label that is expected *)
(* has to come.                                                             *)
LEMMA NotesJoin ==
  ASSUME NEW functions, NEW s, IsSequence(s), NEW t, IsSequence(t), NEW f, NEW g,
         NEW o, NEW open, Annotated(functions, s, f, o), Annotated(functions, t, g, open),
         f[Len(s) + 1] = g[1],
         o = Closed \/ (Len(t) >= 1 /\ t[1] = LabelDefInstr(o))
  PROVE  \E as : NotesJoined(functions, s, t, f, g, open, as)
<1>. DEFINE a == Len(s)
            b == Len(t)
            code == s \o t
            as == [k \in 1..(a + b + 1) |-> IF k <= a THEN f[k] ELSE g[k - a]]
<1>1. a \in Nat /\ b \in Nat
  BY SequenceIs
<1>2. Len(code) = a + b
  BY Concatenation
<1>3. \A k \in 1..a : code[k] = s[k]
  BY Concatenation
<1>4. \A k \in 1..b : code[a + k] = t[k]
  BY Concatenation
<1>5. f[a + 1] = g[1]
  OBVIOUS
<1>6. (\A k \in 1..(a + 1) : Noted(f[k]))
      /\ (\A k \in 1..a : Goes(functions, s[k], Following(s, k, o), f[k], f[k + 1]))
  BY DEF Annotated
<1>7. (\A k \in 1..(b + 1) : Noted(g[k]))
      /\ (\A k \in 1..b : Goes(functions, t[k], Following(t, k, open), g[k], g[k + 1]))
  BY DEF Annotated
<1>8. \A k \in 1..a : Following(s, k, o) = IF k < a THEN s[k + 1] ELSE LabelDefInstr(o)
  BY DEF Following
<1>9. \A k \in 1..b : Following(t, k, open) = IF k < b THEN t[k + 1] ELSE LabelDefInstr(open)
  BY DEF Following
<1>10. \A k \in 1..(a + b) :
         Following(code, k, open) = IF k < a + b THEN code[k + 1] ELSE LabelDefInstr(open)
  <2>. HIDE DEF code, a, b
  <2>. QED  BY <1>2 DEF Following
<1>11. o = Closed \/ (b >= 1 /\ t[1] = LabelDefInstr(o))
  OBVIOUS
<1>. HIDE DEF a, b, code
<1>12. \A k \in 1..a : k \in 1..(a + b + 1) /\ k <= a
  BY <1>1
<1>. HIDE DEF as
<1>13. /\ \A k \in 1..a : as[k] = f[k]
       /\ \A k \in 1..(b + 1) : as[a + k] = g[k]
  <2>1. ASSUME NEW k \in 1..a PROVE as[k] = f[k]
    BY <1>12, ZenonT(20) DEF as
  <2>2. ASSUME NEW k \in 1..(b + 1) PROVE as[a + k] = g[k]
    <3>. DEFINE n == a + k
    <3>1. n \in 1..(a + b + 1) /\ ~(n <= a) /\ n - a = k
      BY <1>1
    <3>. HIDE DEF n
    <3>2. as[n] = g[n - a]
      BY <3>1, ZenonT(20) DEF as
    <3>. QED  BY <3>1, <3>2 DEF n
  <2>. QED  BY <2>1, <2>2
<1>14. \A k \in 1..(a + 1) : as[k] = f[k]
  <2>1. 1 \in 1..(b + 1) /\ \A k \in 1..(a + 1) : k \in 1..a \/ k = a + 1
    BY <1>1
  <2>2. as[a + 1] = f[a + 1]
    BY <1>5, <1>13, <2>1
  <2>. QED  BY <1>13, <2>1, <2>2
<1>15. ASSUME NEW k \in 1..(a + b + 1) PROVE Noted(as[k])
  <2>1. CASE k <= a
    <3>1. k \in 1..(a + 1)
      BY <1>1, <2>1
    <3>. QED  BY <1>6, <1>14, <3>1
  <2>2. CASE k > a
    <3>1. k - a \in 1..(b + 1) /\ a + (k - a) = k
      BY <1>1, <2>2
    <3>2. as[a + (k - a)] = g[k - a]
      BY <1>13, <3>1
    <3>. QED  BY <1>7, <3>1, <3>2
  <2>3. k <= a \/ k > a
    BY <1>1
  <2>. QED  BY <2>1, <2>2, <2>3
<1>16. ASSUME NEW k \in 1..(a + b)
       PROVE  Goes(functions, code[k], Following(code, k, open), as[k], as[k + 1])
  <2>1. CASE k < a
    <3>1. k \in 1..a /\ k + 1 \in 1..a /\ k \in 1..(a + 1) /\ k + 1 \in 1..(a + 1) /\ k < a + b
      BY <1>1, <2>1
    <3>2. Following(code, k, open) = s[k + 1] /\ Following(s, k, o) = s[k + 1]
      BY <1>3, <1>8, <1>10, <2>1, <3>1
    <3>3. code[k] = s[k] /\ as[k] = f[k] /\ as[k + 1] = f[k + 1]
      BY <1>3, <1>14, <3>1
    <3>4. Goes(functions, s[k], Following(s, k, o), f[k], f[k + 1])
      BY <1>6, <3>1
    <3>. QED  BY <3>2, <3>3, <3>4
  <2>2. CASE k = a
    <3>1. k \in 1..a /\ k \in 1..(a + 1) /\ k + 1 \in 1..(a + 1)
      BY <1>1, <2>2
    <3>2. code[k] = s[k] /\ as[k] = f[k] /\ as[k + 1] = f[k + 1] /\ Noted(f[k])
      BY <1>3, <1>6, <1>14, <3>1
    <3>3. Goes(functions, s[k], LabelDefInstr(o), f[k], f[k + 1])
      <4>1. Following(s, k, o) = LabelDefInstr(o)
        BY <1>1, <1>8, <2>2, <3>1
      <4>2. Goes(functions, s[k], Following(s, k, o), f[k], f[k + 1])
        BY <1>6, <3>1
      <4>. QED  BY <4>1, <4>2
    <3>4. CASE o = Closed
      <4>1. Goes(functions, s[k], Following(code, k, open), f[k], f[k + 1])
        BY <3>2, <3>3, <3>4, AnyNext
      <4>. QED  BY <3>2, <4>1
    <3>5. CASE b >= 1 /\ t[1] = LabelDefInstr(o)
      <4>1. 1 \in 1..b /\ k < a + b
        BY <1>1, <2>2, <3>5
      <4>2. Following(code, k, open) = t[1]
        BY <1>4, <1>10, <2>2, <4>1
      <4>. QED  BY <3>2, <3>3, <3>5, <4>2
    <3>. QED  BY <1>11, <3>4, <3>5
  <2>3. CASE k > a
    <3>. DEFINE j == k - a
    <3>1. j \in 1..b /\ j \in 1..(b + 1) /\ j + 1 \in 1..(b + 1) /\ a + j = k /\ a + (j + 1) = k + 1
          /\ (k < a + b <=> j < b) /\ (j < b => j + 1 \in 1..b)
      BY <1>1, <2>3
    <3>. HIDE DEF j
    <3>2. code[k] = t[j] /\ as[k] = g[j] /\ as[k + 1] = g[j + 1]
      <4>1. code[a + j] = t[j]
        BY <1>4, <3>1
      <4>2. as[a + j] = g[j]
        BY <1>13, <3>1
      <4>3. as[a + (j + 1)] = g[j + 1]
        BY <1>13, <3>1
      <4>. QED  BY <3>1, <4>1, <4>2, <4>3
    <3>3. Following(code, k, open) = Following(t, j, open)
      <4>1. CASE j < b
        <5>1. code[a + (j + 1)] = t[j + 1]
          BY <1>4, <3>1, <4>1
        <5>. QED  BY <1>9, <1>10, <3>1, <4>1, <5>1
      <4>2. CASE ~(j < b)
        BY <1>9, <1>10, <3>1, <4>2
      <4>. QED  BY <4>1, <4>2
    <3>4. Goes(functions, t[j], Following(t, j, open), g[j], g[j + 1])
      BY <1>7, <3>1
    <3>. QED  BY <3>2, <3>3, <3>4
  <2>4. k < a \/ k = a \/ k > a
    BY <1>1
  <2>. QED  BY <2>1, <2>2, <2>3, <2>4
<1>17. Annotated(functions, code, as, open)
  BY <1>2, <1>15, <1>16 DEF Annotated
<1>18. NotesJoined(functions, s, t, f, g, open, as)
  BY <1>13, <1>14, <1>17 DEF NotesJoined, a, b, code
<1>. QED  BY <1>18

NotedAnew(functions, code, as, b, as2) ==
  /\ Annotated(functions, code, as2, Closed)
  /\ \A k \in 1..Len(code) : as2[k] = as[k]
  /\ as2[Len(code) + 1] = b

(* Where code has ended, the note at the end can be any.                    *)
LEMMA NoteAnew ==
  ASSUME NEW functions, NEW code, IsSequence(code), Ended(code), NEW as,
         Annotated(functions, code, as, Closed), NEW b, Noted(b)
  PROVE  \E as2 : NotedAnew(functions, code, as, b, as2)
<1>. DEFINE n == Len(code)
            as2 == [k \in 1..(n + 1) |-> IF k <= n THEN as[k] ELSE b]
<1>1. n \in Nat /\ n >= 1
  BY SequenceIs DEF Ended
<1>2. PICK opcode : opcode \notin Moves \cup {JUMPI} /\ code[n] = OpcodeInstr(opcode)
  BY DEF Ended
<1>3. (\A k \in 1..(n + 1) : Noted(as[k]))
      /\ (\A k \in 1..n : Goes(functions, code[k], Following(code, k, Closed), as[k], as[k + 1]))
  BY DEF Annotated
<1>4. \A k \in 1..(n + 1) : as2[k] = IF k <= n THEN as[k] ELSE b
  OBVIOUS
<1>5. Following(code, n, Closed) = LabelDefInstr(Closed)
  BY <1>1 DEF Following
<1>. HIDE DEF n, as2
<1>6. (\A k \in 1..n : as2[k] = as[k]) /\ as2[n + 1] = b
  <2>1. (\A k \in 1..n : k \in 1..(n + 1) /\ k <= n) /\ n + 1 \in 1..(n + 1) /\ ~(n + 1 <= n)
    BY <1>1
  <2>. QED  BY <1>4, <2>1, ZenonT(20)
<1>7. \A k \in 1..(n + 1) : Noted(as2[k])
  BY <1>1, <1>3, <1>4
<1>8. Goes(functions, code[n], LabelDefInstr(Closed), as[n], as[n + 1]) /\ Noted(as[n])
  <2>1. n \in 1..n /\ n \in 1..(n + 1)
    BY <1>1
  <2>. QED  BY <1>3, <1>5, <2>1
<1>9. Goes(functions, code[n], LabelDefInstr(Closed), as[n], b)
  <2>. DEFINE instr == code[n]
              x == as[n]
              y == as[n + 1]
              last == LabelDefInstr(Closed)
  <2>1. instr = OpcodeInstr(opcode)
    BY <1>2
  <2>2. \A o : OpcodeInstr(o).kind = "opcode" /\ OpcodeInstr(o).opcode = o
    BY DEF OpcodeInstr
  <2>3. instr.kind = "opcode" /\ instr.opcode = opcode /\ ~GoesOn(instr)
    BY <1>2, <2>1, <2>2 DEF GoesOn
  <2>4. Goes(functions, instr, last, x, y)
    BY <1>8
  <2>5. ~Branches(instr, last, x, y) /\ ~Calls(functions, instr, last, x, y)
    BY <1>8, ClosedIs DEF Noted, Branches, Calls
  <2>6. ~Swaps(instr, x, y)
    <3>1. ASSUME x.h \in 1..16, instr = OpcodeInstr(SWAP1 + x.h - 1) PROVE FALSE
      <4>. DEFINE h == x.h
                  swap == SWAP1 + h - 1
      <4>0. h \in 1..16
        BY <3>1
      <4>. HIDE DEF h
      <4>1. swap \in SwapOpcodes
        BY <4>0, WrittenNumbers
      <4>. HIDE DEF swap
      <4>2. opcode = swap
        BY <2>2, <2>3, <3>1 DEF h, swap
      <4>3. swap \in Moves
        BY <4>1 DEF Moves, Exchanging
      <4>. QED  BY <1>2, <4>2, <4>3
    <3>. QED  BY <3>1 DEF Swaps
  <2>7. ~Marks(instr, x, y) /\ ~Refers(instr, x, y)
    BY <2>3 DEF Marks, Refers
  <2>. HIDE DEF instr, x, y, last
  <2>8. Straight(instr, x, y) => Straight(instr, x, b)
    BY <2>3 DEF Straight
  <2>9. Straight(instr, x, b) \/ Leaves(functions, instr, x)
    BY <2>4, <2>5, <2>6, <2>7, <2>8 DEF Goes
  <2>. QED  BY <2>9 DEF Goes, instr, x, last
<1>10. ASSUME NEW k \in 1..n
       PROVE  Goes(functions, code[k], Following(code, k, Closed), as2[k], as2[k + 1])
  <2>1. CASE k < n
    <3>1. k + 1 \in 1..n
      BY <1>1, <2>1
    <3>. QED  BY <1>3, <1>6, <3>1
  <2>2. CASE k = n
    BY <1>5, <1>6, <1>9, <2>2
  <2>. QED  BY <1>1, <2>1, <2>2
<1>11. Annotated(functions, code, as2, Closed)
  BY <1>7, <1>10 DEF Annotated, n
<1>12. NotedAnew(functions, code, as, b, as2)
  BY <1>6, <1>11 DEF NotedAnew, n
<1>. QED  BY <1>12

-----------------------------------------------------------------------------
(* What the emitter appends can be annotated, from so many words on the     *)
(* stack to so many.                                                        *)
Walks(functions, frag, f, h, h2, open) ==
  \E as :
    /\ Annotated(functions, frag, as, open)
    /\ as[1] = Spot(h, f)
    /\ as[Len(frag) + 1] = Spot(h2, f)

LEMMA WalksJoin ==
  ASSUME NEW functions, NEW s, IsSequence(s), NEW t, IsSequence(t), NEW f,
         NEW h, NEW m, NEW h2, NEW o, NEW open,
         Walks(functions, s, f, h, m, o), Walks(functions, t, f, m, h2, open),
         o = Closed \/ (Len(t) >= 1 /\ t[1] = LabelDefInstr(o))
  PROVE  Walks(functions, s \o t, f, h, h2, open)
<1>1. PICK x : /\ Annotated(functions, s, x, o)
               /\ x[1] = Spot(h, f) /\ x[Len(s) + 1] = Spot(m, f)
  BY DEF Walks
<1>2. PICK y : /\ Annotated(functions, t, y, open)
               /\ y[1] = Spot(m, f) /\ y[Len(t) + 1] = Spot(h2, f)
  BY DEF Walks
<1>3. PICK as : NotesJoined(functions, s, t, x, y, open, as)
  <2>1. x[Len(s) + 1] = y[1]
    BY <1>1, <1>2
  <2>. QED  BY <1>1, <1>2, <2>1, NotesJoin
<1>4. Len(s) \in Nat /\ Len(t) \in Nat /\ Len(s \o t) = Len(s) + Len(t)
  BY SequenceIs, Concatenation
<1>5. 1 \in 1..(Len(s) + 1) /\ Len(t) + 1 \in 1..(Len(t) + 1)
      /\ Len(s \o t) + 1 = Len(s) + (Len(t) + 1)
  BY <1>4
<1>6. as[1] = Spot(h, f) /\ as[Len(s \o t) + 1] = Spot(h2, f)
  BY <1>1, <1>2, <1>3, <1>5 DEF NotesJoined
<1>. QED  BY <1>3, <1>6 DEF Walks, NotesJoined

LEMMA KindsOf ==
  /\ \A v : PushInstr(v).kind = "push"
  /\ \A o : OpcodeInstr(o).kind = "opcode" /\ OpcodeInstr(o).opcode = o
  /\ \A l : LabelRefInstr(l).kind = "labelRef" /\ LabelRefInstr(l).label = l
  /\ \A l : LabelDefInstr(l).kind = "labelDef" /\ LabelDefInstr(l).label = l
BY DEF PushInstr, OpcodeInstr, LabelRefInstr, LabelDefInstr

LEMMA FlowGoes ==
  ASSUME NEW functions, NEW instr, Ordinary(instr), NEW f, NEW h \in Nat, NEW h2 \in Nat,
         Flow(instr, h, h2), NEW next
  PROVE  Goes(functions, instr, next, Spot(h, f), Spot(h2, f))
<1>1. Spot(h, f).h = h /\ Spot(h, f).f = f /\ Spot(h, f).to = "none" /\ Spot(h2, f).h = h2
  BY NoteFields
<1>2. instr.kind = "push" \/ instr.kind = "opcode"
  BY KindsOf DEF Ordinary
<1>3. instr.kind = "opcode" => instr.opcode \notin {JUMP, JUMPI}
  BY DEF Flow
<1>4. Straight(instr, Spot(h, f), Spot(h2, f))
  BY <1>1, <1>2, <1>3 DEF Straight
<1>. QED  BY <1>4 DEF Goes

LEMMA FlowsWalk ==
  ASSUME NEW functions, NEW frag, IsSequence(frag), NEW f, NEW h, NEW h2,
         \A k \in 1..Len(frag) : Ordinary(frag[k]), Flows(frag, h, h2)
  PROVE  Walks(functions, frag, f, h, h2, Closed)
<1>. DEFINE n == Len(frag)
<1>0. n \in Nat
  BY SequenceIs
<1>1. PICK hs : Flowing(frag, hs, h, h2)
  BY DEF Flows
<1>2. hs \in [1..(n + 1) -> Nat] /\ hs[1] = h /\ hs[n + 1] = h2
      /\ \A k \in 1..n : Flow(frag[k], hs[k], hs[k + 1])
  BY <1>1 DEF Flowing
<1>. HIDE DEF n
<1>. DEFINE as == [k \in 1..(n + 1) |-> Spot(hs[k], f)]
<1>3. \A k \in 1..(n + 1) : as[k] = Spot(hs[k], f) /\ hs[k] \in Nat
  BY <1>2
<1>. HIDE DEF as
<1>4. 1 \in 1..(n + 1) /\ n + 1 \in 1..(n + 1)
      /\ \A k \in 1..n : k \in 1..(n + 1) /\ k + 1 \in 1..(n + 1)
  BY <1>0
<1>5. \A k \in 1..(n + 1) : Noted(as[k])
  BY <1>3, SpotIsNoted
<1>6. ASSUME NEW k \in 1..n
      PROVE  Goes(functions, frag[k], Following(frag, k, Closed), as[k], as[k + 1])
  <2>1. Ordinary(frag[k])
    BY DEF n
  <2>2. as[k] = Spot(hs[k], f) /\ as[k + 1] = Spot(hs[k + 1], f)
        /\ hs[k] \in Nat /\ hs[k + 1] \in Nat
    BY <1>3, <1>4
  <2>3. Flow(frag[k], hs[k], hs[k + 1])
    BY <1>2
  <2>. QED  BY <2>1, <2>2, <2>3, FlowGoes
<1>7. Annotated(functions, frag, as, Closed)
  BY <1>5, <1>6 DEF Annotated, n
<1>8. as[1] = Spot(h, f) /\ as[n + 1] = Spot(h2, f)
  BY <1>2, <1>3, <1>4
<1>. QED  BY <1>7, <1>8 DEF Walks, n

(* Two instructions, with notes a, b and c. *)
LEMMA TwoWalk ==
  ASSUME NEW functions, NEW frag, IsSequence(frag), Len(frag) = 2, NEW open,
         NEW f, NEW h \in Nat, NEW h2 \in Nat, NEW b, Noted(b),
         Goes(functions, frag[1], frag[2], Spot(h, f), b),
         Goes(functions, frag[2], LabelDefInstr(open), b, Spot(h2, f))
  PROVE  Walks(functions, frag, f, h, h2, open)
<1>. DEFINE as == <<Spot(h, f), b, Spot(h2, f)>>
<1>1. as[1] = Spot(h, f) /\ as[2] = b /\ as[3] = Spot(h2, f)
  OBVIOUS
<1>. HIDE DEF as
<1>2. \A k \in 1..3 : Noted(as[k])
  <2>1. Noted(Spot(h, f)) /\ Noted(Spot(h2, f))
    BY SpotIsNoted
  <2>2. \A k \in 1..3 : k = 1 \/ k = 2 \/ k = 3
    OBVIOUS
  <2>. QED  BY <1>1, <2>1, <2>2
<1>3. Following(frag, 1, open) = frag[2] /\ Following(frag, 2, open) = LabelDefInstr(open)
  BY DEF Following
<1>4. \A k \in 1..2 : Goes(functions, frag[k], Following(frag, k, open), as[k], as[k + 1])
  <2>1. Goes(functions, frag[1], Following(frag, 1, open), as[1], as[2])
    BY <1>1, <1>3
  <2>2. Goes(functions, frag[2], Following(frag, 2, open), as[2], as[3])
    BY <1>1, <1>3
  <2>3. \A k \in 1..2 : \/ k = 1 /\ k + 1 = 2
                        \/ k = 2 /\ k + 1 = 3
    OBVIOUS
  <2>. QED  BY <2>1, <2>2, <2>3
<1>5. Annotated(functions, frag, as, open)
  <2>1. Len(frag) + 1 = 3
    OBVIOUS
  <2>. QED  BY <1>2, <1>4, <2>1 DEF Annotated
<1>6. as[1] = Spot(h, f) /\ as[Len(frag) + 1] = Spot(h2, f)
  <2>1. Len(frag) + 1 = 3
    OBVIOUS
  <2>. QED  BY <1>1, <2>1
<1>. QED  BY <1>5, <1>6 DEF Walks

(* An opcode that moves no words. *)
LEMMA JumpdestGoes ==
  ASSUME NEW functions, NEW f, NEW h \in Nat, NEW next
  PROVE  Goes(functions, OpcodeInstr(JUMPDEST), next, Spot(h, f), Spot(h, f))
<1>1. Flow(OpcodeInstr(JUMPDEST), h, h)
  <2>1. JUMPDEST \notin {JUMP, JUMPI} /\ Takes(JUMPDEST) = 0 /\ Gives(JUMPDEST) = 0
    BY WrittenNumbers, WrittenMoves
  <2>. HIDE DEF Takes
  <2>2. JUMPDEST \in Moves => Takes(JUMPDEST) <= h /\ h + Takes(JUMPDEST) = h + Gives(JUMPDEST)
    BY <2>1
  <2>. QED  BY <2>1, <2>2, OpcodeFlows
<1>2. Ordinary(OpcodeInstr(JUMPDEST))
  BY DEF Ordinary
<1>. QED  BY <1>1, <1>2, FlowGoes

LEMMA LabelGoes ==
  ASSUME NEW functions, NEW f, NEW h, NEW l, NEW next
  PROVE  Goes(functions, LabelDefInstr(l), next, Spot(h, f), Spot(h, f))
BY KindsOf, NoteFields DEF Goes, Marks

LEMMA BlockWalks ==
  ASSUME NEW functions, NEW l, NEW f, NEW h \in Nat
  PROVE  Walks(functions, BlockWords(l), f, h, h, Closed)
<1>1. IsSequence(BlockWords(l)) /\ Len(BlockWords(l)) = 2
      /\ BlockWords(l)[1] = LabelDefInstr(l) /\ BlockWords(l)[2] = OpcodeInstr(JUMPDEST)
  BY BlockWordsAre
<1>2. Goes(functions, BlockWords(l)[1], BlockWords(l)[2], Spot(h, f), Spot(h, f))
  BY <1>1, LabelGoes
<1>3. Goes(functions, BlockWords(l)[2], LabelDefInstr(Closed), Spot(h, f), Spot(h, f))
  BY <1>1, JumpdestGoes
<1>. QED  BY <1>1, <1>2, <1>3, SpotIsNoted, TwoWalk

(* A branch to the label that comes next. *)
LEMMA BranchWalks ==
  ASSUME NEW functions, NEW l \in Nat, NEW f, NEW h \in Nat
  PROVE  Walks(functions, JumpTo(l, JUMP), f, h, h, l)
<1>1. IsSequence(JumpTo(l, JUMP)) /\ Len(JumpTo(l, JUMP)) = 2
      /\ JumpTo(l, JUMP)[1] = LabelRefInstr(l) /\ JumpTo(l, JUMP)[2] = OpcodeInstr(JUMP)
  BY Tuples DEF JumpTo
<1>2. Noted(Holding(h, f, l))
  BY NoteFields DEF Noted
<1>3. Goes(functions, LabelRefInstr(l), OpcodeInstr(JUMP), Spot(h, f), Holding(h, f, l))
  <2>1. Refers(LabelRefInstr(l), Spot(h, f), Holding(h, f, l))
    BY KindsOf, NoteFields DEF Refers
  <2>. QED  BY <2>1 DEF Goes
<1>4. Goes(functions, OpcodeInstr(JUMP), LabelDefInstr(l), Holding(h, f, l), Spot(h, f))
  <2>1. Branches(OpcodeInstr(JUMP), LabelDefInstr(l), Holding(h, f, l), Spot(h, f))
    BY NoteFields DEF Branches
  <2>. QED  BY <2>1 DEF Goes
<1>. QED  BY <1>1, <1>2, <1>3, <1>4, TwoWalk

(* The jump back of an internal function that returns n values. *)
LEMMA JumpBackWalks ==
  ASSUME NEW functions, NEW f, f # 1, NEW n \in 0..16, Returns(functions, f, n)
  PROVE  Walks(functions, JumpBack(n), f, n, n, Closed)
<1>0. JumpBack(n) = IF n = 0 THEN <<OpcodeInstr(JUMP)>>
                    ELSE <<OpcodeInstr(SWAP1 + n - 1), OpcodeInstr(JUMP)>>
  BY JumpBackIs
<1>1. CASE n = 0
  <2>1. JumpBack(n) = <<OpcodeInstr(JUMP)>>
    BY <1>0, <1>1
  <2>. DEFINE as == [k \in 1..2 |-> Spot(0, f)]
  <2>2. \A k \in 1..2 : as[k] = Spot(0, f)
    OBVIOUS
  <2>. HIDE DEF as
  <2>3. Len(<<OpcodeInstr(JUMP)>>) = 1 /\ <<OpcodeInstr(JUMP)>>[1] = OpcodeInstr(JUMP)
    OBVIOUS
  <2>4. Leaves(functions, OpcodeInstr(JUMP), Spot(0, f))
    BY <1>1, NoteFields DEF Leaves
  <2>5. \A next : Goes(functions, OpcodeInstr(JUMP), next, Spot(0, f), Spot(0, f))
    BY <2>4 DEF Goes
  <2>6. (\A k \in 1..2 : Noted(as[k])) /\ as[1] = Spot(0, f) /\ as[2] = Spot(0, f)
    <3>1. 1 \in 1..2 /\ 2 \in 1..2 /\ Noted(Spot(0, f))
      BY SpotIsNoted
    <3>. QED  BY <2>2, <3>1
  <2>7. Annotated(functions, <<OpcodeInstr(JUMP)>>, as, Closed)
    <3>1. \A k \in 1..1 : k = 1 /\ k + 1 = 2
      OBVIOUS
    <3>2. 1 + 1 = 2
      OBVIOUS
    <3>3. \A k \in 1..1 : Goes(functions, <<OpcodeInstr(JUMP)>>[k],
                               Following(<<OpcodeInstr(JUMP)>>, k, Closed), as[k], as[k + 1])
      BY <2>3, <2>5, <2>6, <3>1
    <3>. QED  BY <2>3, <2>6, <3>2, <3>3 DEF Annotated
  <2>8. Len(JumpBack(n)) + 1 = 2 /\ Annotated(functions, JumpBack(n), as, Closed)
    BY <2>1, <2>3, <2>7
  <2>9. as[1] = Spot(n, f) /\ as[Len(JumpBack(n)) + 1] = Spot(n, f)
    BY <1>1, <2>6, <2>8
  <2>. QED  BY <2>8, <2>9 DEF Walks
<1>2. CASE n # 0
  <2>1. n \in 1..16 /\ n \in Nat
    BY <1>2
  <2>2. IsSequence(JumpBack(n)) /\ Len(JumpBack(n)) = 2
        /\ JumpBack(n)[1] = OpcodeInstr(SWAP1 + n - 1) /\ JumpBack(n)[2] = OpcodeInstr(JUMP)
    <3>1. JumpBack(n) = <<OpcodeInstr(SWAP1 + n - 1), OpcodeInstr(JUMP)>>
      BY <1>0, <1>2
    <3>2. \A x, y : IsSequence(<<x, y>>) /\ Len(<<x, y>>) = 2 /\ <<x, y>>[1] = x /\ <<x, y>>[2] = y
      BY Tuples
    <3>. QED  BY <3>1, <3>2
  <2>3. Noted(Leaving(n, f))
    BY <2>1, NoteFields DEF Noted
  <2>4. Swaps(OpcodeInstr(SWAP1 + n - 1), Spot(n, f), Leaving(n, f))
    BY <2>1, NoteFields DEF Swaps
  <2>5. Leaves(functions, OpcodeInstr(JUMP), Leaving(n, f))
    BY NoteFields DEF Leaves
  <2>6. Goes(functions, JumpBack(n)[1], JumpBack(n)[2], Spot(n, f), Leaving(n, f))
    BY <2>2, <2>4 DEF Goes
  <2>7. Goes(functions, JumpBack(n)[2], LabelDefInstr(Closed), Leaving(n, f), Spot(n, f))
    BY <2>2, <2>5 DEF Goes
  <2>. QED  BY <2>1, <2>2, <2>3, <2>6, <2>7, TwoWalk
<1>. QED  BY <1>1, <1>2

(* A call of a function that returns n values. *)
LEMMA CallWalks ==
  ASSUME NEW functions, NEW f, NEW h \in Nat, NEW ret \in Nat, NEW callee \in Nat,
         NEW g \in 2..Len(functions), callee = EntryLabel(functions, g),
         NEW n \in Nat, ReturnsAre(functions, g, n)
  PROVE  Walks(functions, CallWords(ret, callee), f, h, h + n, Closed)
<1>. DEFINE w  == CallWords(ret, callee)
            a  == Spot(h, f)
            b  == Holding(h, f, ret)
            c  == Calling(h, f, callee, ret)
            d  == Spot(h + n, f)
            as == <<a, b, c, d, d, d>>
<1>1. IsSequence(w) /\ Len(w) = 5 /\ w[1] = LabelRefInstr(ret) /\ w[2] = LabelRefInstr(callee)
      /\ w[3] = OpcodeInstr(JUMP) /\ w[4] = LabelDefInstr(ret) /\ w[5] = OpcodeInstr(JUMPDEST)
  BY CallWordsAre
<1>2. h + n \in Nat
  OBVIOUS
<1>3. Noted(a) /\ Noted(b) /\ Noted(c) /\ Noted(d)
  <2>1. Noted(a) /\ Noted(d)
    BY <1>2, SpotIsNoted
  <2>2. b.h = h /\ b.l = ret /\ b.r = 0 /\ c.h = h /\ c.l = callee /\ c.r = ret
    BY NoteFields
  <2>3. callee \in Nat /\ 0 \in Nat
    OBVIOUS
  <2>. HIDE DEF a, b, c, d
  <2>. QED  BY <2>1, <2>2, <2>3 DEF Noted
<1>4. Goes(functions, LabelRefInstr(ret), LabelRefInstr(callee), a, b)
  <2>1. Refers(LabelRefInstr(ret), a, b)
    BY KindsOf, NoteFields DEF Refers
  <2>. QED  BY <2>1 DEF Goes
<1>5. Goes(functions, LabelRefInstr(callee), OpcodeInstr(JUMP), b, c)
  <2>1. Refers(LabelRefInstr(callee), b, c)
    <3>1. b.to = "one" /\ b.h = h /\ b.f = f /\ b.l = ret
      BY NoteFields
    <3>2. LabelRefInstr(callee).kind = "labelRef" /\ LabelRefInstr(callee).label = callee
      BY KindsOf
    <3>. QED  BY <3>1, <3>2 DEF Refers
  <2>. QED  BY <2>1 DEF Goes
<1>6. Goes(functions, OpcodeInstr(JUMP), LabelDefInstr(ret), c, d)
  <2>1. c.to = "two" /\ c.h = h /\ c.f = f /\ c.l = callee /\ c.r = ret
    BY NoteFields
  <2>2. Calls(functions, OpcodeInstr(JUMP), LabelDefInstr(ret), c, d)
    BY <2>1 DEF Calls
  <2>. QED  BY <2>2 DEF Goes
<1>7. Goes(functions, LabelDefInstr(ret), OpcodeInstr(JUMPDEST), d, d)
  BY LabelGoes
<1>8. Goes(functions, OpcodeInstr(JUMPDEST), LabelDefInstr(Closed), d, d)
  BY <1>2, JumpdestGoes
<1>9. as[1] = a /\ as[2] = b /\ as[3] = c /\ as[4] = d /\ as[5] = d /\ as[6] = d
  OBVIOUS
<1>. HIDE DEF w, a, b, c, d, as
<1>10. \A k \in 1..6 : Noted(as[k])
  <2>1. \A k \in 1..6 : k = 1 \/ k = 2 \/ k = 3 \/ k = 4 \/ k = 5 \/ k = 6
    OBVIOUS
  <2>. QED  BY <1>3, <1>9, <2>1
<1>11. /\ Following(w, 1, Closed) = w[2] /\ Following(w, 2, Closed) = w[3]
       /\ Following(w, 3, Closed) = w[4] /\ Following(w, 4, Closed) = w[5]
       /\ Following(w, 5, Closed) = LabelDefInstr(Closed)
  BY <1>1 DEF Following
<1>12. \A k \in 1..5 : Goes(functions, w[k], Following(w, k, Closed), as[k], as[k + 1])
  <2>1. \A k \in 1..5 : \/ k = 1 /\ k + 1 = 2
                        \/ k = 2 /\ k + 1 = 3
                        \/ k = 3 /\ k + 1 = 4
                        \/ k = 4 /\ k + 1 = 5
                        \/ k = 5 /\ k + 1 = 6
    OBVIOUS
  <2>2. /\ Goes(functions, w[1], Following(w, 1, Closed), as[1], as[2])
        /\ Goes(functions, w[2], Following(w, 2, Closed), as[2], as[3])
        /\ Goes(functions, w[3], Following(w, 3, Closed), as[3], as[4])
        /\ Goes(functions, w[4], Following(w, 4, Closed), as[4], as[5])
        /\ Goes(functions, w[5], Following(w, 5, Closed), as[5], as[6])
    BY <1>1, <1>4, <1>5, <1>6, <1>7, <1>8, <1>9, <1>11
  <2>. QED  BY <2>1, <2>2
<1>13. Annotated(functions, w, as, Closed)
  <2>1. Len(w) = 5 /\ Len(w) + 1 = 6
    BY <1>1
  <2>. QED  BY <1>10, <1>12, <2>1 DEF Annotated
<1>14. Walks(functions, w, f, h, h + n, Closed)
  <2>1. Len(w) + 1 = 6
    BY <1>1
  <2>2. as[1] = Spot(h, f) /\ as[Len(w) + 1] = Spot(h + n, f)
    BY <1>9, <2>1 DEF a, d
  <2>. QED  BY <1>13, <2>2 DEF Walks
<1>. QED  BY <1>14 DEF w

-----------------------------------------------------------------------------
(* What is appended for an operation can be annotated, if the program is    *)
(* regular and no operand has been missing.                                 *)
Walked(functions, f, open, e, e2) ==
  \E frag :
    /\ IsSequence(frag)
    /\ Instrs(e2) = Instrs(e) \o frag
    /\ Walks(functions, frag, f, Len(e.stackTracker), Len(e2.stackTracker), open)

LEMMA AdvanceWalked ==
  ASSUME NEW functions, NEW V, NEW exact, exact, NEW f, NEW e, NEW e2,
         Advance(V, exact, e, e2), ~e2.undefined
  PROVE  Walked(functions, f, Closed, e, e2)
<1>. DEFINE h == Len(e.stackTracker)
            h2 == Len(e2.stackTracker)
<1>1. PICK frag :
        /\ IsSequence(frag)
        /\ Instrs(e2) = Instrs(e) \o frag
        /\ \A k \in 1..Len(frag) : Ordinary(frag[k])
        /\ Flows(frag, h, h2)
  BY DEF Advance
<1>. HIDE DEF h, h2
<1>2. Walks(functions, frag, f, h, h2, Closed)
  BY <1>1, FlowsWalk
<1>. QED  BY <1>1, <1>2 DEF Walked, h, h2

LEMMA WalkedOn ==
  ASSUME NEW functions, NEW V, NEW exact, exact, NEW f, NEW e, IsEmitter(V, e), NEW m, NEW e2,
         Advance(V, exact, e, m), ~m.undefined,
         NEW more, IsSequence(more), Instrs(e2) = Instrs(m) \o more, NEW open,
         Walks(functions, more, f, Len(m.stackTracker), Len(e2.stackTracker), open)
  PROVE  Walked(functions, f, open, e, e2)
<1>. DEFINE h == Len(e.stackTracker)
            k == Len(m.stackTracker)
            h2 == Len(e2.stackTracker)
<1>1. Walked(functions, f, Closed, e, m)
  BY AdvanceWalked
<1>2. PICK frag :
        /\ IsSequence(frag)
        /\ Instrs(m) = Instrs(e) \o frag
        /\ Walks(functions, frag, f, h, k, Closed)
  BY <1>1 DEF Walked
<1>3. Walks(functions, more, f, k, h2, open)
  OBVIOUS
<1>4. IsSequence(Instrs(e))
  BY DEF IsEmitter
<1>. HIDE DEF h, k, h2
<1>5. Walks(functions, frag \o more, f, h, h2, open)
  <2>1. Closed = Closed \/ (Len(more) >= 1 /\ more[1] = LabelDefInstr(Closed))
    OBVIOUS
  <2>. QED  BY <1>2, <1>3, <2>1, WalksJoin
<1>6. Instrs(e2) = Instrs(e) \o (frag \o more)
  BY <1>2, <1>4, ConcatenationsAssociate
<1>7. IsSequence(frag \o more)
  BY <1>2, Concatenation
<1>. QED  BY <1>5, <1>6, <1>7 DEF Walked, h, h2

(* What a regular program is made of. *)
RegularOp(unit, f, b, op) ==
  /\ op.name # "cf.cond_br"
  /\ op.name = "cf.br" => op.dest = b + 1
  /\ f > 1 /\ op.name = "func.return" => Len(op.operands) <= 16
  /\ op.name # "invalid" => Fits(unit, op)

RegularProgram(p) ==
  \A f \in 1..Len(p.functions) : \A b \in 1..Len(p.functions[f].body) :
    \A i \in 1..Len(p.functions[f].body[b].ops) :
      RegularOp(UnitOf(p.functions, f, p.layout), f, b, p.functions[f].body[b].ops[i])

LEMMA RegularIs ==
  ASSUME \A f \in 1..Len(Functions) : Regular(f)
  PROVE  RegularProgram(program)
<1>. DEFINE F == program.functions
<1>1. Functions = F
  BY DEF Functions
<1>2. ASSUME NEW f \in 1..Len(F), NEW b \in 1..Len(F[f].body), NEW i \in 1..Len(F[f].body[b].ops)
      PROVE  RegularOp(UnitOf(F, f, program.layout), f, b, F[f].body[b].ops[i])
  <2>. DEFINE unit == UnitAt(f)
              op == unit.body[b].ops[i]
  <2>1. unit = UnitOf(F, f, program.layout) /\ unit.body = F[f].body
    BY <1>1, UnitFields DEF UnitAt
  <2>2. Regular(f)
    BY <1>1, <1>2
  <2>3. b \in 1..Len(unit.body) /\ i \in 1..Len(unit.body[b].ops)
    BY <1>2, <2>1
  <2>. HIDE DEF unit
  <2>4. /\ op.name # "cf.cond_br"
        /\ op.name = "cf.br" => op.dest = b + 1
        /\ f > 1 /\ op.name = "func.return" => Len(op.operands) <= 16
        /\ op.name # "invalid" => Fits(unit, op)
    BY <2>2, <2>3, Zenon DEF Regular, unit
  <2>5. RegularOp(unit, f, b, op)
    BY <2>4, Zenon DEF RegularOp
  <2>. QED  BY <2>1, <2>5
<1>. QED  BY <1>2, Zenon DEF RegularProgram

LEMMA RegularUnit ==
  ASSUME NEW p, Verified(p), RegularProgram(p), NEW f \in 1..Len(p.functions), NEW exact
  PROVE  GoodUnit(UnitOf(p.functions, f, p.layout), ValuesOf(p.functions), exact)
<1>. DEFINE F == p.functions
            unit == UnitOf(F, f, p.layout)
<1>1. unit.body = F[f].body
  BY UnitFields
<1>2. ASSUME NEW place \in Places(unit), OpAt(unit, place).name # "invalid"
      PROVE  Fits(unit, OpAt(unit, place))
  <2>1. PICK b \in 1..Len(unit.body) : \E i \in 1..Len(unit.body[b].ops) : place = <<b, i>>
    BY PlaceIs
  <2>2. PICK i \in 1..Len(unit.body[b].ops) : place = <<b, i>>
    BY <2>1
  <2>3. OpAt(unit, place) = F[f].body[b].ops[i]
    BY <1>1, <2>2 DEF OpAt
  <2>4. b \in 1..Len(F[f].body) /\ i \in 1..Len(F[f].body[b].ops)
    BY <1>1
  <2>5. RegularOp(unit, f, b, F[f].body[b].ops[i])
    BY <2>4, Zenon DEF RegularProgram
  <2>. HIDE DEF unit
  <2>6. RegularOp(unit, f, b, OpAt(unit, place))
    BY <2>3, <2>5
  <2>. QED  BY <1>2, <2>6, Zenon DEF RegularOp
<1>3. exact => RegularOps(unit)
  BY <1>2, Zenon DEF RegularOps
<1>. QED  BY <1>3, VerifiedUnit

LEMMA WrittenIs ==
  ASSUME NEW V, NEW m, IsEmitter(V, m), NEW more, IsSequence(more), NEW e2, e2 = Write(m, more)
  PROVE  /\ Instrs(e2) = Instrs(m) \o more
         /\ e2.stackTracker = m.stackTracker
         /\ e2.undefined = m.undefined
BY WriteIs

(* A branch, whose label has to come next. *)
LEMMA BranchWalked ==
  ASSUME NEW unit, NEW V, NEW exact, exact, GoodUnit(unit, V, exact),
         NEW e, IsEmitter(V, e), NEW place \in Places(unit),
         NEW op, op = OpAt(unit, place), NEW l \in Nat, l = BlockLabel(unit, op.dest),
         ~emitBranch(unit, e, op, place).undefined, NEW functions, NEW f
  PROVE  LET e2 == emitBranch(unit, e, op, place)
         IN  Walked(functions, f, l, e, e2) /\ Len(Instrs(e2)) > Len(Instrs(e))
<1>. DEFINE m == emitValues(unit, e, op.operands, place)
            more == JumpTo(l, JUMP)
            e2 == emitBranch(unit, e, op, place)
<1>1. op.operands \in Seq(FunctionValues(unit.body))
  BY DEF GoodUnit
<1>2. Advance(V, exact, e, m)
  BY <1>1, EmitValues
<1>3. e2 = Write(m, more)
  BY Zenon DEF emitBranch, emitJumpWith, JumpTo
<1>4. ~e2.undefined
  OBVIOUS
<1>. HIDE DEF m, e2
<1>5. IsEmitter(V, m) /\ Len(m.stackTracker) \in Nat
  BY <1>2 DEF Advance, IsEmitter
<1>6. IsSequence(more) /\ Ended(more)
  <2>. DEFINE next == l + 1
              jump == JUMP
  <2>1. l \in 0..(next - 1)
    OBVIOUS
  <2>. HIDE DEF next, jump
  <2>2. IsSequence(JumpTo(l, jump)) /\ (jump = JUMP => Ended(JumpTo(l, jump)))
    BY <2>1, JumpToIs
  <2>. QED  BY <2>2 DEF jump
<1>7. Walks(functions, more, f, Len(m.stackTracker), Len(m.stackTracker), l)
  BY <1>5, BranchWalks
<1>. HIDE DEF more
<1>8. Instrs(e2) = Instrs(m) \o more /\ e2.stackTracker = m.stackTracker /\ ~m.undefined
  <2>1. /\ Instrs(e2) = Instrs(m) \o more
        /\ e2.stackTracker = m.stackTracker
        /\ e2.undefined = m.undefined
    BY <1>3, <1>5, <1>6, WrittenIs
  <2>. QED  BY <1>4, <2>1
<1>9. Walked(functions, f, l, e, e2)
  <2>1. Walks(functions, more, f, Len(m.stackTracker), Len(e2.stackTracker), l)
    BY <1>7, <1>8
  <2>. QED  BY <1>2, <1>6, <1>8, <2>1, WalkedOn
<1>10. Len(Instrs(e2)) > Len(Instrs(e))
  <2>1. Len(Instrs(m) \o more) > Len(Instrs(e))
    BY <1>2, <1>6, Longer
  <2>. QED  BY <1>8, <2>1
<1>. QED  BY <1>9, <1>10 DEF e2

(* The return of an internal function that has its results and nothing else *)
(* on the stack.                                                            *)
LEMMA ReturnWalked ==
  ASSUME NEW unit, NEW V, NEW exact, exact, GoodUnit(unit, V, exact),
         NEW e, IsEmitter(V, e), NEW place \in Places(unit),
         NEW op, op = OpAt(unit, place),
         unit.kind # "constructor", unit.visibility = "internal",
         NEW n \in 0..16, n = Len(op.operands),
         ~emitReturn(unit, e, op, place).undefined,
         Len(emitReturn(unit, e, op, place).stackTracker) = n,
         NEW functions, NEW f, f # 1, Returns(functions, f, n)
  PROVE  LET e2 == emitReturn(unit, e, op, place)
         IN  Walked(functions, f, Closed, e, e2) /\ Len(Instrs(e2)) > Len(Instrs(e))
<1>. DEFINE m == emitValues(unit, e, op.operands, place)
            more == JumpBack(n)
            e2 == emitReturn(unit, e, op, place)
<1>1. op.operands \in Seq(FunctionValues(unit.body))
  BY DEF GoodUnit
<1>2. Advance(V, exact, e, m)
  BY <1>1, EmitValues
<1>3. e2 = Write(m, more)
  BY InternalReturnIs
<1>4. ~e2.undefined /\ Len(e2.stackTracker) = n /\ n \in Nat
  OBVIOUS
<1>. HIDE DEF m, e2
<1>5. IsEmitter(V, m)
  BY <1>2 DEF Advance
<1>6. IsSequence(more) /\ Ended(more)
  BY <1>4, JumpBackIs
<1>7. Walks(functions, more, f, n, n, Closed)
  BY JumpBackWalks
<1>. HIDE DEF more
<1>8. Instrs(e2) = Instrs(m) \o more /\ e2.stackTracker = m.stackTracker /\ ~m.undefined
  <2>1. /\ Instrs(e2) = Instrs(m) \o more
        /\ e2.stackTracker = m.stackTracker
        /\ e2.undefined = m.undefined
    BY <1>3, <1>5, <1>6, WrittenIs
  <2>. QED  BY <1>4, <2>1
<1>9. Walked(functions, f, Closed, e, e2)
  <2>1. Walks(functions, more, f, Len(m.stackTracker), Len(e2.stackTracker), Closed)
    BY <1>4, <1>7, <1>8
  <2>. QED  BY <1>2, <1>6, <1>8, <2>1, WalkedOn
<1>10. Len(Instrs(e2)) > Len(Instrs(e))
  <2>1. Len(Instrs(m) \o more) > Len(Instrs(e))
    BY <1>2, <1>6, Longer
  <2>. QED  BY <1>8, <2>1
<1>. QED  BY <1>9, <1>10 DEF e2

(* A call. *)
LEMMA CallWalked ==
  ASSUME NEW V, NEW exact, exact, NEW e, IsEmitter(V, e), NEW m, NEW op, NEW e2,
         CallAdded(V, exact, e, m, op, e2), ~e2.undefined,
         e.stream.nextLabelID \in Nat, op.callee \in Nat, op.returns \in Seq(V),
         NEW functions, NEW f, NEW g \in 2..Len(functions),
         op.callee = EntryLabel(functions, g), ReturnsAre(functions, g, Len(op.returns))
  PROVE  Walked(functions, f, Closed, e, e2)
<1>. DEFINE more == CallWords(e.stream.nextLabelID, op.callee)
            h == Len(m.stackTracker)
            n == Len(op.returns)
<1>1. Advance(V, exact, e, m) /\ Instrs(e2) = Instrs(m) \o more /\ ~m.undefined
      /\ e2.stackTracker = m.stackTracker \o op.returns
  BY DEF CallAdded
<1>2. m.stackTracker \in Seq(V)
  BY <1>1 DEF Advance, IsEmitter
<1>3. Len(e2.stackTracker) = h + n /\ h \in Nat /\ n \in Nat
  BY <1>1, <1>2
<1>. HIDE DEF h, n
<1>4. Walks(functions, more, f, h, h + n, Closed)
  <2>1. ReturnsAre(functions, g, n)
    BY DEF n
  <2>. QED  BY <1>3, <2>1, CallWalks
<1>5. IsSequence(more)
  BY CallWordsAre
<1>. HIDE DEF more
<1>6. Walks(functions, more, f, Len(m.stackTracker), Len(e2.stackTracker), Closed)
  BY <1>3, <1>4 DEF h
<1>. QED  BY <1>1, <1>5, <1>6, WalkedOn

(* The emission of an operation of a regular program.  A label has to come  *)
(* next only after the branch at the end of a block, that of the next       *)
(* block.                                                                   *)
OpWalked(functions, f, b, isLast, e, e2) ==
  \E open :
    /\ Walked(functions, f, open, e, e2)
    /\ \/ open = Closed
       \/ isLast /\ b < Len(functions[f].body) /\ open = EntryLabel(functions, f) + b

OpGood(functions, f, b, i, e, e2) ==
  LET isLast == i = OpsIn(functions, f, b)
  IN  /\ OpWalked(functions, f, b, isLast, e, e2)
      /\ isLast => Len(Instrs(e2)) > Len(Instrs(e))

LEMMA EmittedOpWalks ==
  ASSUME NEW p, Verified(p), RegularProgram(p), NEW f, NEW b, NEW i, OpIn(p.functions, f, b, i),
         NEW e, IsEmitter(ValuesOf(p.functions), e), e.stream.nextLabelID \in Nat,
         ~EmittedOp(p, e, f, b, i).undefined,
         f > 1 /\ OpName(p.functions, f, b, i) = "func.return"
           => Len(EmittedOp(p, e, f, b, i).stackTracker)
                = Len(p.functions[f].body[b].ops[i].operands)
  PROVE  OpGood(p.functions, f, b, i, e, EmittedOp(p, e, f, b, i))
<1>. DEFINE functions == p.functions
            unit == UnitOf(functions, f, p.layout)
            V == ValuesOf(functions)
            place == <<b, i>>
            op == functions[f].body[b].ops[i]
            isLast == i = Len(functions[f].body[b].ops)
            e2 == EmittedOp(p, e, f, b, i)
            exact == TRUE
<1>. HIDE DEF unit, place, exact, e2, V
<1>0. f \in 1..Len(functions) /\ b \in 1..Len(functions[f].body)
      /\ i \in 1..Len(functions[f].body[b].ops)
  BY DEF OpIn
<1>1. GoodUnit(unit, V, exact) /\ exact
  <2>1. exact
    BY DEF exact
  <2>. QED  BY <1>0, <2>1, RegularUnit DEF unit, V
<1>2. unit.body = functions[f].body /\ unit.kind = functions[f].kind
      /\ unit.visibility = functions[f].visibility
  BY UnitFields DEF unit
<1>3. place \in Places(unit)
  BY <1>0, <1>2, PlaceIs DEF place
<1>4. op = OpAt(unit, place)
  BY <1>2 DEF OpAt, place
<1>5. OpVerified(functions, f, isLast, op)
  BY <1>0, VerifiedOp, Zenon
<1>6. RegularOp(unit, f, b, op)
  BY <1>0, Zenon DEF RegularProgram, unit
<1>7. unit.kind # "constructor" /\ unit.visibility = IF f = 1 THEN "external" ELSE "internal"
  BY <1>0, <1>2 DEF Verified, FunctionVerified
<1>8. IsEmitter(V, e)
  BY DEF V
<1>20. LastOp(functions[f].body[b]) = op \/ ~isLast
  BY DEF LastOp
<1>22. b \in 1..Len(functions[f].body) /\ f \in 1..Len(functions) /\ Shape(functions)
  BY <1>0, VerifiedShape
<1>23. f > 1 /\ op.name = "func.return" => Len(e2.stackTracker) = Len(op.operands)
  BY DEF OpName, e2
<1>24. op.name = "func.call" => OpName(p.functions, f, b, i) = "func.call"
  BY DEF OpName
<1>12. e2 = CASE op.name = "cf.br"       -> emitBranch(unit, e, op, place)
              [] op.name = "cf.cond_br"  -> emitCondBranch(unit, e, op, place)
              [] op.name = "func.return" -> emitReturn(unit, e, op, place)
              [] op.name = "constant"    -> emitConstant(e, op)
              [] op.name = "func.call"   -> emitCall(unit, e, op, place)
              [] OTHER                   ->
                   emitOpcode(unit, scheduleOperands(unit, e, op, place), op)
  <2>1. e2 = emitOp(unit, e, place)
    BY DEF e2, EmittedOp, unit, place
  <2>. HIDE DEF op
  <2>. QED  BY <1>4, <2>1, Zenon DEF emitOp
<1>25. op.name = "func.call" => \E m : CallAdded(V, exact, e, m, op, e2)
  <2>1. ASSUME OpName(p.functions, f, b, i) = "func.call"
        PROVE  \E m : CallAdded(ValuesOf(p.functions), exact, e, m,
                                p.functions[f].body[b].ops[i], EmittedOp(p, e, f, b, i))
    BY <1>1, <2>1, EmittedCallIs DEF unit, V
  <2>. QED  BY <1>24, <2>1, Zenon DEF V, e2
<1>26. op.name = "func.call" => op.callee \in Nat /\ op.returns \in Seq(V)
  <2>1. ASSUME OpName(p.functions, f, b, i) = "func.call"
        PROVE  p.functions[f].body[b].ops[i].callee \in Nat
               /\ p.functions[f].body[b].ops[i].returns \in Seq(ValuesOf(p.functions))
    BY <2>1, CalleeLabel
  <2>. QED  BY <1>24, <2>1, Zenon DEF V
<1>13. ~e2.undefined
  BY DEF e2
<1>. DEFINE done == /\ OpWalked(functions, f, b, isLast, e, e2)
                    /\ isLast => Len(Instrs(e2)) > Len(Instrs(e))
<1>28. SUFFICES done
  BY Zenon DEF OpGood, OpsIn, functions, isLast, e2
<1>. HIDE DEF op, isLast, functions
<1>9. /\ op.operands \in Seq(FunctionValues(functions[f].body))
      /\ op.name \in Terminators <=> isLast
      /\ op.name \in Terminators => op.results = {}
      /\ op.name = "constant" => op.operands = <<>> /\ op.results # {}
      /\ GoesSomewhere(functions, f, op)
  BY <1>5, Zenon DEF OpVerified
<1>10. /\ op.name # "cf.cond_br"
       /\ op.name = "cf.br" => op.dest = b + 1
       /\ f > 1 /\ op.name = "func.return" => Len(op.operands) <= 16
  BY <1>6, Zenon DEF RegularOp
<1>11. GoodOp(unit, V, exact, op)
  BY <1>1, <1>3, <1>4, Zenon DEF GoodUnit
<1>14. ASSUME NEW open, Walked(functions, f, open, e, e2),
              open = Closed \/ (isLast /\ b < Len(functions[f].body)
                                 /\ open = EntryLabel(functions, f) + b)
       PROVE  OpWalked(functions, f, b, isLast, e, e2)
  BY <1>14 DEF OpWalked
<1>15. CASE op.name = "cf.br"
  <2>. DEFINE l == EntryLabel(functions, f) + b
  <2>1. b + 1 \in 1..Len(functions[f].body) /\ op.dest = b + 1
    <3>1. op.dest \in 1..Len(functions[f].body)
      BY <1>9, <1>15, Zenon DEF GoesSomewhere
    <3>. QED  BY <1>10, <1>15, <3>1
  <2>2. l = BlockLabel(unit, op.dest) /\ l \in Nat
    <3>1. /\ BlockLabel(unit, b + 1) = BlocksBefore(functions, f) + (b + 1) - 1
          /\ BlocksBefore(functions, f) \in Nat
      BY <1>22, <2>1, BlockLabels DEF unit
    <3>. DEFINE x == BlocksBefore(functions, f)
    <3>2. x \in Nat /\ b \in Nat
      BY <1>22, <3>1
    <3>. HIDE DEF x
    <3>3. x + (b + 1) - 1 = x + b /\ x + b \in Nat
      BY <3>2
    <3>. QED  BY <2>1, <3>1, <3>3 DEF x, EntryLabel
  <2>3. b < Len(functions[f].body)
    <3>. DEFINE m == Len(functions[f].body)
    <3>1. m \in Nat /\ b \in Nat /\ b + 1 \in 1..m
      BY <1>22, <2>1 DEF Shape
    <3>. HIDE DEF m
    <3>2. b < m
      BY <3>1
    <3>. QED  BY <3>2 DEF m
  <2>4. isLast
    BY <1>9, <1>15 DEF Terminators
  <2>5. e2 = emitBranch(unit, e, op, place)
    BY <1>12, <1>15
  <2>. HIDE DEF l
  <2>6. Walked(functions, f, l, e, e2) /\ Len(Instrs(e2)) > Len(Instrs(e))
    BY <1>1, <1>3, <1>4, <1>8, <1>13, <2>2, <2>5, BranchWalked
  <2>7. OpWalked(functions, f, b, isLast, e, e2)
    BY <1>14, <2>3, <2>4, <2>6 DEF l
  <2>. QED  BY <2>6, <2>7
<1>16. CASE op.name = "func.return" /\ f = 1
  <2>1. unit.visibility = "external"
    BY <1>7, <1>16
  <2>2. e2 = emitReturn(unit, e, op, place)
    BY <1>12, <1>16
  <2>3. Advance(V, exact, e, e2) /\ Len(Instrs(e2)) > Len(Instrs(e))
    BY <1>1, <1>3, <1>4, <1>7, <1>8, <2>1, <2>2, EmitExternalReturn
  <2>4. Walked(functions, f, Closed, e, e2)
    BY <1>1, <1>13, <2>3, AdvanceWalked
  <2>5. OpWalked(functions, f, b, isLast, e, e2)
    BY <1>14, <2>4
  <2>. QED  BY <2>3, <2>5
<1>17. CASE op.name = "func.return" /\ f # 1
  <2>. DEFINE n == Len(op.operands)
  <2>1. unit.visibility = "internal" /\ unit.kind # "constructor"
    BY <1>7, <1>17
  <2>2. e2 = emitReturn(unit, e, op, place)
    BY <1>12, <1>17
  <2>3. n \in 0..16
    <3>1. f > 1 /\ n \in Nat
      BY <1>9, <1>17, <1>22
    <3>2. n <= 16
      BY <1>10, <1>17, <3>1
    <3>. HIDE DEF n
    <3>. QED  BY <3>1, <3>2
  <2>4. Len(e2.stackTracker) = n
    <3>1. f > 1
      BY <1>17, <1>22
    <3>. QED  BY <1>17, <1>23, <3>1
  <2>5. Returns(functions, f, n)
    <3>1. LastOp(functions[f].body[b]) = op
      BY <1>9, <1>17, <1>20 DEF Terminators
    <3>2. b \in 1..Len(functions[f].body) /\ LastOp(functions[f].body[b]).name = "func.return"
          /\ Len(LastOp(functions[f].body[b]).operands) = n
      BY <1>17, <1>22, <3>1
    <3>. QED  BY <3>2, Zenon DEF Returns
  <2>6. n = Len(op.operands)
    OBVIOUS
  <2>. HIDE DEF n
  <2>7. Walked(functions, f, Closed, e, e2) /\ Len(Instrs(e2)) > Len(Instrs(e))
    BY <1>1, <1>3, <1>4, <1>8, <1>13, <1>17, <2>1, <2>2, <2>3, <2>4, <2>5, <2>6, ReturnWalked
  <2>8. OpWalked(functions, f, b, isLast, e, e2)
    BY <1>14, <2>7
  <2>. QED  BY <2>7, <2>8
<1>18. CASE op.name = "constant"
  <2>1. op.results \subseteq V /\ op.results # {}
    BY <1>9, <1>11, <1>18 DEF GoodOp
  <2>2. e2 = emitConstant(e, op)
    BY <1>12, <1>18
  <2>3. Advance(V, exact, e, e2)
    BY <1>8, <2>1, <2>2, EmitConstant
  <2>4. Walked(functions, f, Closed, e, e2)
    BY <1>1, <1>13, <2>3, AdvanceWalked
  <2>5. OpWalked(functions, f, b, isLast, e, e2)
    BY <1>14, <2>4
  <2>6. ~isLast
    BY <1>9, <1>18 DEF Terminators
  <2>. QED  BY <2>5, <2>6
<1>19. CASE op.name = "func.call"
  <2>1. PICK m : CallAdded(V, exact, e, m, op, e2)
    BY <1>19, <1>25
  <2>2. op.callee \in Nat /\ op.returns \in Seq(V)
    BY <1>19, <1>26
  <2>3. PICK g \in 2..Len(functions) :
          /\ op.callee = EntryLabel(functions, g)
          /\ ReturnsAre(functions, g, Len(op.returns))
    <3>1. PICK g \in 2..Len(functions) :
            /\ op.callee = EntryLabel(functions, g)
            /\ \A c \in 1..Len(functions[g].body) :
                 LastOp(functions[g].body[c]).name = "func.return"
                   => Len(LastOp(functions[g].body[c]).operands) = Len(op.returns)
      BY <1>9, <1>19, Zenon DEF GoesSomewhere
    <3>. QED  BY <3>1, Zenon DEF ReturnsAre
  <2>4. Walked(functions, f, Closed, e, e2)
    BY <1>1, <1>8, <1>13, <2>1, <2>2, <2>3, CallWalked
  <2>5. OpWalked(functions, f, b, isLast, e, e2)
    BY <1>14, <2>4
  <2>6. ~isLast
    BY <1>9, <1>19 DEF Terminators
  <2>. QED  BY <2>5, <2>6
<1>27. CASE op.name \notin {"cf.br", "func.return", "constant", "func.call"}
  <2>. DEFINE r == emitOpcode(unit, scheduleOperands(unit, e, op, place), op)
  <2>1. e2 = r
    <3>. HIDE DEF r
    <3>. QED  BY <1>10, <1>12, <1>27 DEF r
  <2>2. /\ Advance(V, exact, e, r)
        /\ op.name \in {"stop", "return", "revert", "invalid", "selfdestruct"} /\ op.results = {}
             => Ended(Instrs(r)) /\ Len(Instrs(r)) > Len(Instrs(e))
    BY <1>1, <1>3, <1>4, <1>8, EmitPlain
  <2>. HIDE DEF r
  <2>3. Walked(functions, f, Closed, e, e2)
    BY <1>1, <1>13, <2>1, <2>2, AdvanceWalked
  <2>4. OpWalked(functions, f, b, isLast, e, e2)
    BY <1>14, <2>3
  <2>5. ASSUME isLast PROVE Len(Instrs(e2)) > Len(Instrs(e))
    <3>1. op.name \in Terminators /\ op.results = {}
      BY <1>9, <2>5
    <3>2. op.name \in {"stop", "return", "revert", "invalid", "selfdestruct"}
      BY <1>10, <1>27, <3>1 DEF Terminators
    <3>. QED  BY <2>1, <2>2, <3>1, <3>2
  <2>. QED  BY <2>4, <2>5
<1>. HIDE DEF done
<1>. QED  BY <1>15, <1>16, <1>17, <1>18, <1>19, <1>27

-----------------------------------------------------------------------------
(* The annotation while code is emitted at pos, for functions F: h values   *)
(* are on the tracker.                                                      *)

StillOpen(F, pos) == pos[1] <= Len(F) /\ pos[3] \in 1..OpsIn(F, pos[1], pos[2])

BegunAt(F, pos) == BlocksBefore(F, pos[1]) + pos[2] - (IF pos[3] = 0 THEN 1 ELSE 0)

(* A label has to come next after the end of a block that is not the last.  *)
OpenGood(F, pos, open) ==
  \/ open = Closed
  \/ /\ open = BegunAt(F, pos)
     /\ pos[1] <= Len(F)
     /\ \/ pos[3] = 0 /\ pos[2] > 1
        \/ pos[3] = OpsIn(F, pos[1], pos[2]) + 1 /\ pos[2] < BlocksIn(F, pos[1])

(* Within a function the note is about as many words as the tracker holds.  *)
SpotHere(F, code, h, pos, as) ==
  /\ pos[1] <= Len(F) /\ (pos[2] # 1 \/ pos[3] # 0) => as[Len(code) + 1] = Spot(h, pos[1])
  /\ pos = <<1, 1, 0>> => as[Len(code) + 1] = Spot(0, 1)

EntryNoted(F, code, as, g) ==
  \E k \in 1..Len(code) : code[k] = LabelDefInstr(EntryLabel(F, g)) /\ as[k] = Spot(0, g)

EntriesNoted(F, code, pos, as) ==
  \A g \in 1..Len(F) :
    g < pos[1] \/ (g = pos[1] /\ (pos[2] # 1 \/ pos[3] # 0)) => EntryNoted(F, code, as, g)

PlaceNoted(limit, emission, f, as) ==
  /\ emission.start \in 1..limit
  /\ as[emission.start] = Spot(Len(emission.tracker), f)

PlacesNoted(F, code, emitted, pos, as) ==
  \A place \in DOMAIN emitted :
    PlaceNoted(IF StillOpen(F, pos) THEN Len(code) + 1 ELSE Len(code),
               emitted[place], place[1], as)

NotesGood(F, code, h, emitted, pos, as, open) ==
  /\ IsSequence(code)
  /\ Annotated(F, code, as, open)
  /\ OpenGood(F, pos, open)
  /\ SpotHere(F, code, h, pos, as)
  /\ EntriesNoted(F, code, pos, as)
  /\ PlacesNoted(F, code, emitted, pos, as)

Noteworthy(F, code, h, emitted, pos) ==
  \E as : \E open : NotesGood(F, code, h, emitted, pos, as, open)

(* Code to which code is added. *)
Extends(code, as, code2, as2) ==
  /\ Len(code) \in Nat /\ Len(code2) \in Nat
  /\ Len(code) <= Len(code2)
  /\ \A k \in 1..Len(code) : code2[k] = code[k] /\ as2[k] = as[k]

LEMMA EntryKept ==
  ASSUME NEW F, NEW code, NEW as, NEW code2, NEW as2, Extends(code, as, code2, as2),
         NEW g, EntryNoted(F, code, as, g)
  PROVE  EntryNoted(F, code2, as2, g)
<1>1. PICK k \in 1..Len(code) : code[k] = LabelDefInstr(EntryLabel(F, g)) /\ as[k] = Spot(0, g)
  BY DEF EntryNoted
<1>2. code2[k] = LabelDefInstr(EntryLabel(F, g)) /\ as2[k] = Spot(0, g)
  BY <1>1 DEF Extends
<1>3. k \in 1..Len(code2)
  <2>. DEFINE m == Len(code)
              n == Len(code2)
  <2>1. m \in Nat /\ n \in Nat /\ m <= n /\ k \in 1..m
    BY DEF Extends
  <2>. HIDE DEF m, n
  <2>2. k \in 1..n
    BY <2>1
  <2>. QED  BY <2>2 DEF n
<1>. QED  BY <1>2, <1>3 DEF EntryNoted

JoinedTo(F, code, frag, as, as2, b, open) ==
  /\ IsSequence(code \o frag)
  /\ Annotated(F, code \o frag, as2, open)
  /\ Extends(code, as, code \o frag, as2)
  /\ as2[Len(code) + 1] = as[Len(code) + 1]
  /\ as2[Len(code \o frag) + 1] = b

LEMMA Joins ==
  ASSUME NEW F, NEW code, IsSequence(code), NEW frag, IsSequence(frag),
         NEW as, NEW o, Annotated(F, code, as, o), NEW f, NEW h, NEW h2, NEW open,
         as[Len(code) + 1] = Spot(h, f), Walks(F, frag, f, h, h2, open),
         o = Closed \/ (Len(frag) >= 1 /\ frag[1] = LabelDefInstr(o))
  PROVE  \E as2 : JoinedTo(F, code, frag, as, as2, Spot(h2, f), open)
<1>1. PICK g : /\ Annotated(F, frag, g, open)
               /\ g[1] = Spot(h, f)
               /\ g[Len(frag) + 1] = Spot(h2, f)
  BY DEF Walks
<1>2. as[Len(code) + 1] = g[1]
  BY <1>1
<1>3. PICK as2 : NotesJoined(F, code, frag, as, g, open, as2)
  BY <1>1, <1>2, NotesJoin
<1>. DEFINE a == Len(code)
            b == Len(frag)
            n == Len(code \o frag)
<1>4. a \in Nat /\ b \in Nat
  BY SequenceIs
<1>5. n = a + b /\ IsSequence(code \o frag) /\ \A k \in 1..a : (code \o frag)[k] = code[k]
  BY Concatenation
<1>6. /\ Annotated(F, code \o frag, as2, open)
      /\ \A k \in 1..(a + 1) : as2[k] = as[k]
      /\ \A k \in 1..(b + 1) : as2[a + k] = g[k]
  BY <1>3 DEF NotesJoined
<1>. HIDE DEF a, b, n
<1>7. \A k \in 1..a : k \in 1..(a + 1)
  BY <1>4
<1>8. a + 1 \in 1..(a + 1) /\ b + 1 \in 1..(b + 1) /\ n + 1 = a + (b + 1) /\ n \in Nat /\ a <= n
  BY <1>4, <1>5
<1>9. as2[a + 1] = as[a + 1]
  BY <1>6, <1>8
<1>10. as2[n + 1] = Spot(h2, f)
  <2>1. as2[a + (b + 1)] = g[b + 1]
    BY <1>6, <1>8
  <2>2. g[b + 1] = Spot(h2, f)
    BY <1>1 DEF b
  <2>. QED  BY <1>8, <2>1, <2>2
<1>11. Extends(code, as, code \o frag, as2)
  BY <1>4, <1>5, <1>6, <1>7, <1>8 DEF Extends, a, n
<1>. QED  BY <1>5, <1>6, <1>9, <1>10, <1>11 DEF JoinedTo, a, n

(* A place that is noted stays so. *)
LEMMA PlaceKept ==
  ASSUME NEW code, NEW as, NEW code2, NEW as2, Extends(code, as, code2, as2),
         NEW emission, NEW f, PlaceNoted(Len(code), emission, f, as), NEW limit \in Nat,
         Len(code2) <= limit
  PROVE  PlaceNoted(limit, emission, f, as2)
<1>. DEFINE k == emission.start
            m == Len(code)
            n == Len(code2)
<1>1. k \in 1..m /\ as[k] = Spot(Len(emission.tracker), f)
  BY DEF PlaceNoted
<1>2. m \in Nat /\ n \in Nat /\ m <= n /\ n <= limit /\ \A j \in 1..m : as2[j] = as[j]
  BY DEF Extends
<1>. HIDE DEF m, n, k
<1>3. k \in 1..limit
  BY <1>1, <1>2
<1>4. as2[k] = as[k]
  BY <1>1, <1>2
<1>. QED  BY <1>1, <1>3, <1>4 DEF PlaceNoted, k

(* A block is begun: the note before it is that of its function's start, or *)
(* goes on from the block before.                                           *)
LEMMA BeginNoted ==
  ASSUME NEW F, NEW f \in 1..Len(F), NEW b \in Nat, b >= 1,
         Len(F) \in Nat, OpsIn(F, f, b) \in Nat, OpsIn(F, f, b) >= 1,
         BlocksBefore(F, f) \in Nat,
         NEW code, NEW h \in Nat, NEW emitted, NEW h2 \in Nat,
         b = 1 => h2 = 0, b # 1 => h2 = h,
         b = 1 => f = 1 \/ Ended(code),
         Noteworthy(F, code, h, emitted, <<f, b, 0>>),
         NEW l, l = BlocksBefore(F, f) + b - 1
  PROVE  Noteworthy(F, code \o BlockWords(l), h2, emitted, <<f, b, 1>>)
<1>. DEFINE pos == <<f, b, 0>>
            pos2 == <<f, b, 1>>
            frag == BlockWords(l)
            code2 == code \o frag
            ops == OpsIn(F, f, b)
<1>1. PICK as, open : NotesGood(F, code, h, emitted, pos, as, open)
  BY DEF Noteworthy
<1>2. /\ IsSequence(code) /\ Annotated(F, code, as, open)
      /\ OpenGood(F, pos, open) /\ SpotHere(F, code, h, pos, as)
      /\ EntriesNoted(F, code, pos, as) /\ PlacesNoted(F, code, emitted, pos, as)
  BY <1>1 DEF NotesGood
<1>3. pos[1] = f /\ pos[2] = b /\ pos[3] = 0 /\ pos2[1] = f /\ pos2[2] = b /\ pos2[3] = 1
  OBVIOUS
<1>4. f <= Len(F) /\ f \in Nat /\ l \in Nat
  OBVIOUS
<1>5. BegunAt(F, pos) = l /\ (b = 1 => l = EntryLabel(F, f))
  <2>1. BegunAt(F, pos) = BlocksBefore(F, f) + b - 1
    BY <1>3 DEF BegunAt
  <2>. DEFINE x == BlocksBefore(F, f)
  <2>2. x \in Nat /\ l = x + b - 1
    OBVIOUS
  <2>. HIDE DEF x
  <2>3. b = 1 => l = x
    BY <2>2
  <2>. QED  BY <2>1, <2>3 DEF x, EntryLabel
<1>6. /\ IsSequence(frag) /\ Len(frag) = 2 /\ frag[1] = LabelDefInstr(l)
  BY BlockWordsAre
<1>7. ~StillOpen(F, pos) /\ StillOpen(F, pos2)
  <2>1. ~(0 \in 1..ops) /\ 1 \in 1..ops
    OBVIOUS
  <2>. QED  BY <1>3, <1>4, <2>1 DEF StillOpen
<1>8. open = Closed \/ (b > 1 /\ open = l)
  <2>1. 0 # ops + 1
    OBVIOUS
  <2>. QED  BY <1>2, <1>3, <1>5, <2>1 DEF OpenGood
<1>. HIDE DEF pos, pos2, frag, code2
<1>9. \E as1 : /\ Annotated(F, code, as1, open)
               /\ as1[Len(code) + 1] = Spot(h2, f)
               /\ \A k \in 1..Len(code) : as1[k] = as[k]
  <2>1. CASE b # 1
    <3>1. as[Len(code) + 1] = Spot(h2, f)
      BY <1>2, <1>3, <1>4, <2>1 DEF SpotHere
    <3>. QED  BY <1>2, <3>1
  <2>2. CASE b = 1 /\ f = 1
    <3>1. pos = <<1, 1, 0>>
      BY <2>2 DEF pos
    <3>2. as[Len(code) + 1] = Spot(h2, f)
      BY <1>2, <2>2, <3>1 DEF SpotHere
    <3>. QED  BY <1>2, <3>2
  <2>3. CASE b = 1 /\ Ended(code)
    <3>1. open = Closed
      BY <1>8, <2>3
    <3>2. Annotated(F, code, as, Closed)
      BY <1>2, <3>1
    <3>. DEFINE spot == Spot(h2, f)
    <3>3. Noted(spot)
      BY SpotIsNoted
    <3>. HIDE DEF spot
    <3>5. IsSequence(code) /\ Ended(code)
      BY <1>2, <2>3
    <3>4. PICK as1 : NotedAnew(F, code, as, spot, as1)
      BY <3>2, <3>3, <3>5, NoteAnew
    <3>6. /\ Annotated(F, code, as1, Closed)
          /\ as1[Len(code) + 1] = spot
          /\ \A k \in 1..Len(code) : as1[k] = as[k]
      BY <3>4 DEF NotedAnew
    <3>. QED  BY <3>1, <3>6 DEF spot
  <2>. QED  BY <2>1, <2>2, <2>3
<1>10. PICK as1 : /\ Annotated(F, code, as1, open)
                  /\ as1[Len(code) + 1] = Spot(h2, f)
                  /\ \A k \in 1..Len(code) : as1[k] = as[k]
  BY <1>9
<1>11. Walks(F, frag, f, h2, h2, Closed)
  BY BlockWalks DEF frag
<1>12. open = Closed \/ (Len(frag) >= 1 /\ frag[1] = LabelDefInstr(open))
  BY <1>6, <1>8
<1>13. PICK as2 : JoinedTo(F, code, frag, as1, as2, Spot(h2, f), Closed)
  BY <1>2, <1>6, <1>10, <1>11, <1>12, Joins
<1>14. /\ IsSequence(code2) /\ Annotated(F, code2, as2, Closed)
       /\ Extends(code, as1, code2, as2)
       /\ as2[Len(code) + 1] = Spot(h2, f) /\ as2[Len(code2) + 1] = Spot(h2, f)
  BY <1>10, <1>13 DEF JoinedTo, code2
<1>15. Extends(code, as, code2, as2)
  BY <1>10, <1>14 DEF Extends
<1>16. OpenGood(F, pos2, Closed)
  BY DEF OpenGood
<1>17. SpotHere(F, code2, h2, pos2, as2)
  <2>1. pos2 # <<1, 1, 0>>
    BY <1>3
  <2>. QED  BY <1>3, <1>14, <2>1 DEF SpotHere
<1>18. EntriesNoted(F, code2, pos2, as2)
  <2>1. ASSUME NEW g \in 1..Len(F), g < f \/ g = f PROVE EntryNoted(F, code2, as2, g)
    <3>1. CASE g < f \/ b # 1
      <4>1. EntryNoted(F, code, as, g)
        BY <1>2, <1>3, <2>1, <3>1 DEF EntriesNoted
      <4>. QED  BY <1>15, <4>1, EntryKept
    <3>2. CASE g = f /\ b = 1
      <4>. DEFINE k == Len(code) + 1
      <4>1. k \in 1..Len(code2) /\ code2[k] = LabelDefInstr(l)
        <5>. DEFINE a == Len(code)
                    n == Len(code2)
                    m == Len(frag)
        <5>1. a \in Nat
          BY <1>2, SequenceIs
        <5>6. IsSequence(code) /\ IsSequence(frag)
          BY <1>2, <1>6
        <5>7. n = a + m
          BY <5>6, Concatenation DEF code2
        <5>8. \A i \in 1..m : code2[a + i] = frag[i]
          BY <5>6, Concatenation DEF code2
        <5>2. n = a + m /\ \A i \in 1..m : code2[a + i] = frag[i]
          BY <5>7, <5>8
        <5>3. m = 2 /\ k = a + 1
          BY <1>6
        <5>. HIDE DEF a, n, m, k
        <5>4. 1 \in 1..m /\ k \in 1..n
          BY <5>1, <5>2, <5>3
        <5>5. code2[a + 1] = frag[1]
          BY <5>2, <5>4
        <5>. QED  BY <1>6, <5>3, <5>4, <5>5 DEF n
      <4>2. l = EntryLabel(F, g) /\ h2 = 0
        BY <1>5, <3>2
      <4>3. as2[k] = Spot(0, g)
        BY <1>14, <3>2, <4>2
      <4>. HIDE DEF k
      <4>. QED  BY <4>1, <4>2, <4>3 DEF EntryNoted
    <3>. QED  BY <2>1, <3>1, <3>2
  <2>. QED  BY <1>3, <2>1 DEF EntriesNoted
<1>19. PlacesNoted(F, code2, emitted, pos2, as2)
  <2>1. ASSUME NEW place \in DOMAIN emitted
        PROVE  PlaceNoted(Len(code2) + 1, emitted[place], place[1], as2)
    <3>1. PlaceNoted(Len(code), emitted[place], place[1], as)
      BY <1>2, <1>7 DEF PlacesNoted
    <3>. DEFINE limit == Len(code2) + 1
    <3>2. limit \in Nat /\ Len(code2) <= limit
      BY <1>15 DEF Extends
    <3>. HIDE DEF limit
    <3>3. PlaceNoted(limit, emitted[place], place[1], as2)
      BY <1>15, <3>1, <3>2, PlaceKept
    <3>. QED  BY <3>3 DEF limit
  <2>. QED  BY <1>7, <2>1 DEF PlacesNoted
<1>20. NotesGood(F, code2, h2, emitted, pos2, as2, Closed)
  BY <1>14, <1>16, <1>17, <1>18, <1>19 DEF NotesGood
<1>. QED  BY <1>20 DEF Noteworthy, code2, frag, pos2

(* A block has ended. *)
LEMMA EndNoted ==
  ASSUME NEW F, NEW f \in 1..Len(F), NEW b \in 1..BlocksIn(F, f), NEW i,
         Len(F) \in Nat, BlocksIn(F, f) \in Nat, OpsIn(F, f, b) \in Nat, OpsIn(F, f, b) >= 1,
         i = OpsIn(F, f, b) + 1, BlocksBefore(F, f) \in Nat,
         NEW code, NEW h, NEW emitted, Noteworthy(F, code, h, emitted, <<f, b, i>>),
         NEW pos2, pos2 = IF b < BlocksIn(F, f) THEN <<f, b + 1, 0>> ELSE <<f + 1, 1, 0>>
  PROVE  Noteworthy(F, code, h, emitted, pos2)
<1>. DEFINE pos == <<f, b, i>>
            n == Len(F)
            m == BlocksIn(F, f)
            ops == OpsIn(F, f, b)
<1>1. PICK as, open : NotesGood(F, code, h, emitted, pos, as, open)
  BY DEF Noteworthy
<1>2. /\ IsSequence(code) /\ Annotated(F, code, as, open)
      /\ OpenGood(F, pos, open) /\ SpotHere(F, code, h, pos, as)
      /\ EntriesNoted(F, code, pos, as) /\ PlacesNoted(F, code, emitted, pos, as)
  BY <1>1 DEF NotesGood
<1>3. pos[1] = f /\ pos[2] = b /\ pos[3] = i
  OBVIOUS
<1>4. /\ pos2[3] = 0
      /\ \/ b < m /\ pos2[1] = f /\ pos2[2] = b + 1
         \/ ~(b < m) /\ pos2[1] = f + 1 /\ pos2[2] = 1
  <2>1. CASE b < m
    <3>1. pos2 = <<f, b + 1, 0>>
      BY <2>1
    <3>. QED  BY <2>1, <3>1
  <2>2. CASE ~(b < m)
    <3>1. pos2 = <<f + 1, 1, 0>>
      BY <2>2
    <3>. QED  BY <2>2, <3>1
  <2>. QED  BY <2>1, <2>2
<1>5. i # 0 /\ ~(i \in 1..ops) /\ f <= n /\ f \in Nat /\ b \in Nat /\ b >= 1
  OBVIOUS
<1>. HIDE DEF pos, n, m
<1>6. ~StillOpen(F, pos)
  BY <1>3, <1>5 DEF StillOpen
<1>7. ~StillOpen(F, pos2)
  <2>1. ~(\E k \in Nat : 0 \in 1..k) /\ \A k : ~(0 \in 1..k)
    OBVIOUS
  <2>. QED  BY <1>4, <2>1 DEF StillOpen
<1>8. OpenGood(F, pos2, open)
  <2>1. CASE open = Closed
    BY <2>1 DEF OpenGood
  <2>2. CASE open = BegunAt(F, pos) /\ b < m
    <3>. DEFINE x == BlocksBefore(F, f)
    <3>1. BegunAt(F, pos) = x + b - 0
      BY <1>3, <1>5 DEF BegunAt
    <3>2. BegunAt(F, pos2) = x + (b + 1) - 1
      BY <1>4, <2>2 DEF BegunAt
    <3>3. x \in Nat
      OBVIOUS
    <3>. HIDE DEF x
    <3>4. x + b - 0 = x + (b + 1) - 1 /\ b + 1 > 1
      BY <1>5, <3>3
    <3>. QED  BY <1>4, <1>5, <2>2, <3>1, <3>2, <3>4 DEF OpenGood, n
  <2>. QED  BY <1>2, <1>3, <1>5, <2>1, <2>2 DEF OpenGood, m
<1>9. SpotHere(F, code, h, pos2, as)
  <2>1. as[Len(code) + 1] = Spot(h, f)
    BY <1>2, <1>3, <1>5 DEF SpotHere, n
  <2>2. pos2 # <<1, 1, 0>>
    <3>1. b + 1 # 1 /\ f + 1 # 1
      BY <1>5
    <3>. QED  BY <1>4, <3>1
  <2>. QED  BY <1>4, <2>1, <2>2 DEF SpotHere
<1>10. EntriesNoted(F, code, pos2, as)
  <2>1. ASSUME NEW g \in 1..Len(F),
               g < pos2[1] \/ (g = pos2[1] /\ (pos2[2] # 1 \/ pos2[3] # 0))
        PROVE  EntryNoted(F, code, as, g)
    <3>1. g < f \/ g = f
      <4>1. g \in Nat
        BY <2>1
      <4>. QED  BY <1>4, <1>5, <2>1, <4>1
    <3>. QED  BY <1>2, <1>3, <1>5, <2>1, <3>1 DEF EntriesNoted
  <2>. QED  BY <2>1 DEF EntriesNoted
<1>11. PlacesNoted(F, code, emitted, pos2, as)
  BY <1>2, <1>6, <1>7 DEF PlacesNoted
<1>12. NotesGood(F, code, h, emitted, pos2, as, open)
  BY <1>2, <1>8, <1>9, <1>10, <1>11 DEF NotesGood
<1>. QED  BY <1>12 DEF Noteworthy

(* An operation has been emitted. *)
LEMMA OpNoted ==
  ASSUME NEW F, NEW f \in 1..Len(F), NEW b \in 1..BlocksIn(F, f), NEW i \in 1..OpsIn(F, f, b),
         Len(F) \in Nat, BlocksIn(F, f) \in Nat, OpsIn(F, f, b) \in Nat,
         BlocksBefore(F, f) \in Nat,
         NEW e, NEW e2, OpWalked(F, f, b, i = OpsIn(F, f, b), e, e2),
         i = OpsIn(F, f, b) => Len(Instrs(e2)) > Len(Instrs(e)),
         NEW emitted, NEW emitted2, DOMAIN emitted2 = DOMAIN emitted \cup {<<f, b, i>>},
         \A place \in DOMAIN emitted : emitted2[place] = emitted[place],
         emitted2[<<f, b, i>>].start = Len(Instrs(e)) + 1,
         emitted2[<<f, b, i>>].tracker = e.stackTracker,
         Noteworthy(F, Instrs(e), Len(e.stackTracker), emitted, <<f, b, i>>)
  PROVE  Noteworthy(F, Instrs(e2), Len(e2.stackTracker), emitted2, <<f, b, i + 1>>)
<1>. DEFINE pos == <<f, b, i>>
            pos2 == <<f, b, i + 1>>
            code == Instrs(e)
            code2 == Instrs(e2)
            h == Len(e.stackTracker)
            h2 == Len(e2.stackTracker)
            ops == OpsIn(F, f, b)
            m == BlocksIn(F, f)
<1>1. PICK as, old : NotesGood(F, code, h, emitted, pos, as, old)
  BY DEF Noteworthy
<1>2. /\ IsSequence(code) /\ Annotated(F, code, as, old)
      /\ OpenGood(F, pos, old) /\ SpotHere(F, code, h, pos, as)
      /\ EntriesNoted(F, code, pos, as) /\ PlacesNoted(F, code, emitted, pos, as)
  BY <1>1 DEF NotesGood
<1>3. pos[1] = f /\ pos[2] = b /\ pos[3] = i /\ pos2[1] = f /\ pos2[2] = b /\ pos2[3] = i + 1
  OBVIOUS
<1>4. f <= Len(F) /\ i # 0 /\ i + 1 # 0 /\ ops \in Nat /\ i \in Nat /\ i \in 1..ops /\ b \in Nat
      /\ i # ops + 1
  OBVIOUS
<1>5. PICK open :
        /\ Walked(F, f, open, e, e2)
        /\ \/ open = Closed
           \/ i = ops /\ b < m /\ open = EntryLabel(F, f) + b
  BY DEF OpWalked, BlocksIn
<1>6. PICK frag :
        /\ IsSequence(frag)
        /\ code2 = code \o frag
        /\ Walks(F, frag, f, h, h2, open)
  BY <1>5 DEF Walked
<1>18. i = ops => Len(code2) > Len(code)
  OBVIOUS
<1>. DEFINE start == Len(code) + 1
<1>19. /\ DOMAIN emitted2 = DOMAIN emitted \cup {pos}
       /\ \A place \in DOMAIN emitted : emitted2[place] = emitted[place]
       /\ emitted2[pos].start = start
       /\ Len(emitted2[pos].tracker) = h
  OBVIOUS
<1>. HIDE DEF pos, pos2, code, code2, h, h2, ops, m
<1>7. old = Closed
  BY <1>2, <1>3, <1>4 DEF OpenGood, ops
<1>8. as[Len(code) + 1] = Spot(h, f)
  BY <1>2, <1>3, <1>4 DEF SpotHere
<1>9. PICK as2 : JoinedTo(F, code, frag, as, as2, Spot(h2, f), open)
  BY <1>2, <1>6, <1>7, <1>8, Joins
<1>10. /\ IsSequence(code2) /\ Annotated(F, code2, as2, open)
       /\ Extends(code, as, code2, as2)
       /\ as2[Len(code) + 1] = Spot(h, f) /\ as2[Len(code2) + 1] = Spot(h2, f)
  BY <1>6, <1>8, <1>9 DEF JoinedTo
<1>11. OpenGood(F, pos2, open)
  <2>1. CASE open = Closed
    BY <2>1 DEF OpenGood
  <2>2. CASE i = ops /\ b < m /\ open = EntryLabel(F, f) + b
    <3>. DEFINE x == BlocksBefore(F, f)
    <3>1. BegunAt(F, pos2) = x + b - 0
      BY <1>3, <1>4 DEF BegunAt
    <3>2. x \in Nat
      OBVIOUS
    <3>3. open = x + b
      BY <2>2 DEF EntryLabel
    <3>. HIDE DEF x
    <3>4. x + b - 0 = x + b
      BY <1>4, <3>2
    <3>. QED  BY <1>3, <1>4, <2>2, <3>1, <3>3, <3>4 DEF OpenGood, ops, m
  <2>. QED  BY <1>5, <2>1, <2>2
<1>12. SpotHere(F, code2, h2, pos2, as2)
  <2>1. pos2 # <<1, 1, 0>>
    BY <1>3, <1>4
  <2>. QED  BY <1>3, <1>10, <2>1 DEF SpotHere
<1>13. EntriesNoted(F, code2, pos2, as2)
  <2>1. ASSUME NEW g \in 1..Len(F), g < f \/ g = f PROVE EntryNoted(F, code2, as2, g)
    <3>1. EntryNoted(F, code, as, g)
      BY <1>2, <1>3, <1>4, <2>1 DEF EntriesNoted
    <3>. QED  BY <1>10, <3>1, EntryKept
  <2>. QED  BY <1>3, <2>1 DEF EntriesNoted
<1>14. StillOpen(F, pos) /\ (StillOpen(F, pos2) <=> i # ops)
  <2>1. i # ops <=> i + 1 \in 1..ops
    BY <1>4
  <2>2. i \in 1..ops
    BY <1>4
  <2>. QED  BY <1>3, <1>4, <2>1, <2>2 DEF StillOpen, ops
<1>. DEFINE limit == IF StillOpen(F, pos2) THEN Len(code2) + 1 ELSE Len(code2)
<1>15. /\ limit \in Nat
       /\ Len(code) \in Nat
       /\ Len(code) + 1 <= limit
       /\ Len(code2) <= limit
  <2>. DEFINE c == Len(code)
              d == Len(code2)
  <2>1. c \in Nat /\ d \in Nat /\ c <= d /\ (i = ops => d > c)
    BY <1>10, <1>18 DEF Extends
  <2>2. limit = IF i # ops THEN d + 1 ELSE d
    BY <1>14
  <2>. HIDE DEF c, d, limit
  <2>3. limit \in Nat /\ c + 1 <= limit /\ d <= limit
    BY <2>1, <2>2
  <2>. QED  BY <2>1, <2>3 DEF c, d
<1>16. ASSUME NEW place \in DOMAIN emitted2
       PROVE  PlaceNoted(limit, emitted2[place], place[1], as2)
  <2>. HIDE DEF limit
  <2>1. CASE place \in DOMAIN emitted
    <3>1. PlaceNoted(Len(code) + 1, emitted[place], place[1], as)
      BY <1>2, <1>14, <2>1 DEF PlacesNoted
    <3>. DEFINE s == emitted[place].start
                a == Len(code)
    <3>2. s \in 1..(a + 1) /\ as[s] = Spot(Len(emitted[place].tracker), place[1])
      BY <3>1 DEF PlaceNoted
    <3>3. (\A k \in 1..a : as2[k] = as[k]) /\ as2[a + 1] = as[a + 1]
      BY <1>8, <1>10 DEF Extends
    <3>4. a \in Nat /\ a + 1 <= limit /\ limit \in Nat
      BY <1>15
    <3>. HIDE DEF s, a
    <3>5. s \in 1..limit /\ (s \in 1..a \/ s = a + 1)
      BY <3>2, <3>4
    <3>6. as2[s] = as[s]
      BY <3>3, <3>5
    <3>7. PlaceNoted(limit, emitted[place], place[1], as2)
      BY <3>2, <3>5, <3>6 DEF PlaceNoted, s
    <3>. QED  BY <1>19, <2>1, <3>7
  <2>2. CASE place = pos
    <3>1. start \in 1..limit
      <4>. DEFINE a == Len(code)
      <4>1. a \in Nat /\ a + 1 <= limit /\ limit \in Nat
        BY <1>15
      <4>. HIDE DEF a
      <4>2. a + 1 \in 1..limit
        BY <4>1
      <4>. QED  BY <4>2 DEF a
    <3>2. as2[start] = Spot(h, f)
      BY <1>10
    <3>. QED  BY <1>3, <1>19, <2>2, <3>1, <3>2 DEF PlaceNoted
  <2>. QED  BY <1>16, <1>19, <2>1, <2>2
<1>17. PlacesNoted(F, code2, emitted2, pos2, as2)
  BY <1>16 DEF PlacesNoted
<1>20. NotesGood(F, code2, h2, emitted2, pos2, as2, open)
  BY <1>10, <1>11, <1>12, <1>13, <1>17 DEF NotesGood
<1>. QED  BY <1>20 DEF Noteworthy, code2, h2, pos2

-----------------------------------------------------------------------------
(* The steps of emission keep the code annotated.                           *)

Notes == Noteworthy(Functions, Code, Len(emitter.stackTracker), emittedAt, at)

LEMMA StillUndefined ==
  ASSUME IInv, EmitOp, emitter.undefined
  PROVE  emitter'.undefined
<1>. DEFINE p == program
            f == at[1]
            b == at[2]
            i == at[3]
            V == ValuesOf(p.functions)
            e2 == EmittedOp(p, emitter, f, b, i)
<1>1. e2 = emitter'
  BY EmitOpFacts DEF UnitAt, Functions, EmittedOp
<1>2. OpIn(p.functions, f, b, i) /\ Verified(p)
  BY OpHereIs DEF OpIn
<1>3. IsEmitter(V, emitter)
  BY DEF IInv, StreamGood, Functions
<1>4. emitter.stream.nextLabelID \in Nat /\ Total(p.functions) <= emitter.stream.nextLabelID
  BY NextLabelIs DEF IInv, NextLabel, Functions
<1>. HIDE DEF p, f, b, i
<1>5. CASE OpName(p.functions, f, b, i) = "func.call"
  <2>. DEFINE exact == FALSE
              unit == UnitOf(p.functions, f, p.layout)
  <2>1. f \in 1..Len(p.functions)
    BY <1>2 DEF OpIn
  <2>2. ~exact
    OBVIOUS
  <2>. HIDE DEF exact, e2
  <2>3. GoodUnit(unit, V, exact)
    BY <1>2, <2>1, <2>2, VerifiedUnit
  <2>. DEFINE op == p.functions[f].body[b].ops[i]
  <2>4. \E m : CallAdded(V, exact, emitter, m, op, EmittedOp(p, emitter, f, b, i))
    BY <1>2, <1>3, <1>5, <2>3, EmittedCallIs
  <2>. HIDE DEF op, V
  <2>5. PICK m : CallAdded(V, exact, emitter, m, op, e2)
    BY <2>4 DEF e2
  <2>6. emitter.undefined => m.undefined
    BY <2>5 DEF CallAdded, Advance
  <2>7. e2.undefined = m.undefined
    BY <2>5 DEF CallAdded
  <2>8. e2.undefined
    BY <2>6, <2>7
  <2>. QED  BY <1>1, <2>8
<1>6. CASE OpName(p.functions, f, b, i) # "func.call"
  <2>1. Adds(V, emitter, e2)
    BY <1>2, <1>3, <1>4, <1>6, EmittedOpAdds
  <2>. HIDE DEF e2, V
  <2>2. e2.undefined
    BY <2>1 DEF Adds
  <2>. QED  BY <1>1, <2>2
<1>. QED  BY <1>5, <1>6

LEMMA ResultsLeft ==
  ASSUME OnlyResultsLeft', program' = program, NEW place, place \in DOMAIN emittedAt'
  PROVE  LET op == OpAt(UnitAt(place[1]), <<place[2], place[3]>>)
         IN  place[1] > 1 /\ op.name = "func.return"
               => Len(emittedAt'[place].after) = Len(op.operands)
<1>. DEFINE op == OpAt(UnitAt(place[1]), <<place[2], place[3]>>)
<1>1. op' = op
  BY DEF UnitAt, Functions
<1>2. place[1] > 1 /\ op'.name = "func.return" => Len(emittedAt'[place].after) = Len(op'.operands)
  BY Zenon DEF OnlyResultsLeft
<1>. HIDE DEF op
<1>3. place[1] > 1 /\ op.name = "func.return" => Len(emittedAt'[place].after) = Len(op.operands)
  BY <1>1, <1>2
<1>. QED  BY <1>3 DEF op

LEMMA EmitOpNotes ==
  ASSUME IInv, EmitOp, Notes, \A f \in 1..Len(Functions) : Regular(f), OnlyResultsLeft',
         ~emitter'.undefined
  PROVE  Notes'
<1>. DEFINE F == Functions
            p == program
            f == at[1]
            b == at[2]
            i == at[3]
            e == emitter
            e2 == emitter'
            made == EmittedOp(p, e, f, b, i)
            V == ValuesOf(p.functions)
            ops == OpsIn(F, f, b)
<1>1. /\ Emitting /\ i \in 1..ops /\ at' = <<f, b, i + 1>>
      /\ F' = F /\ program' = program
      /\ DOMAIN emittedAt' = DOMAIN emittedAt \cup {at}
      /\ at \notin DOMAIN emittedAt
  BY EmitOpFacts
<1>2. /\ f \in 1..Len(F) /\ b \in 1..BlocksIn(F, f) /\ ops \in Nat /\ Len(F) \in Nat
      /\ BlocksIn(F, f) \in Nat /\ BlocksBefore(F, f) \in Nat /\ at = <<f, b, i>>
  BY <1>1, Here
<1>3. e2 = made
  BY EmitOpFacts DEF UnitAt, Functions, EmittedOp
<1>4. OpIn(p.functions, f, b, i) /\ Verified(p)
  BY OpHereIs DEF OpIn
<1>5. IsEmitter(V, e)
  BY DEF IInv, StreamGood, Functions
<1>6. e.stream.nextLabelID \in Nat
  BY NextLabelIs DEF IInv, NextLabel, Functions
<1>7. RegularProgram(p)
  BY RegularIs
<1>8. /\ emittedAt'[at].start = Len(Instrs(e)) + 1
      /\ emittedAt'[at].tracker = e.stackTracker
      /\ emittedAt'[at].after = e2.stackTracker
      /\ \A place \in DOMAIN emittedAt : emittedAt'[place] = emittedAt[place]
  <2>. DEFINE new == [start |-> Len(emitter.stream.instructions) + 1,
                      end |-> Len(emitter'.stream.instructions),
                      tracker |-> emitter.stackTracker,
                      after |-> emitter'.stackTracker]
  <2>1. emittedAt' = [place \in DOMAIN emittedAt \cup {at} |->
                        IF place = at THEN new ELSE emittedAt[place]]
    BY DEF EmitOp
  <2>2. /\ new.start = Len(Instrs(e)) + 1 /\ new.tracker = e.stackTracker
        /\ new.after = e2.stackTracker
    BY DEF Instrs
  <2>. HIDE DEF new
  <2>3. emittedAt'[at] = new
    BY <2>1
  <2>4. \A place \in DOMAIN emittedAt : emittedAt'[place] = emittedAt[place]
    BY <1>1, <2>1
  <2>. QED  BY <2>2, <2>3, <2>4
<1>9. f > 1 /\ OpName(p.functions, f, b, i) = "func.return"
        => Len(made.stackTracker) = Len(p.functions[f].body[b].ops[i].operands)
  <2>. DEFINE op == OpAt(UnitAt(f), <<b, i>>)
  <2>1. op = p.functions[f].body[b].ops[i]
    BY UnitFields DEF OpAt, UnitAt, Functions
  <2>2. at \in DOMAIN emittedAt'
    BY <1>1
  <2>3. f > 1 /\ op.name = "func.return" => Len(emittedAt'[at].after) = Len(op.operands)
    BY <1>1, <2>2, ResultsLeft
  <2>. HIDE DEF op
  <2>4. OpName(p.functions, f, b, i) = op.name
    BY <2>1 DEF OpName
  <2>. QED  BY <1>3, <1>8, <2>1, <2>3, <2>4
<1>10. ~made.undefined
  BY <1>3
<1>11. Noteworthy(F, Instrs(e), Len(e.stackTracker), emittedAt, <<f, b, i>>)
  BY <1>2 DEF Notes, Code, Instrs
<1>18. F = p.functions
  BY DEF Functions
<1>19. /\ DOMAIN emittedAt' = DOMAIN emittedAt \cup {<<f, b, i>>}
       /\ emittedAt'[<<f, b, i>>].start = Len(Instrs(e)) + 1
       /\ emittedAt'[<<f, b, i>>].tracker = e.stackTracker
       /\ \A place \in DOMAIN emittedAt : emittedAt'[place] = emittedAt[place]
  BY <1>1, <1>2, <1>8
<1>. HIDE DEF p, f, b, i, V, e2, F, ops
<1>12. OpGood(p.functions, f, b, i, e, made)
  <2>1. IsEmitter(ValuesOf(p.functions), e)
    BY <1>5 DEF V
  <2>. HIDE DEF e
  <2>2. e.stream.nextLabelID \in Nat
    BY <1>6 DEF e
  <2>. QED  BY <1>4, <1>7, <1>9, <1>10, <2>1, <2>2, EmittedOpWalks
<1>. HIDE DEF made, e
<1>13. OpWalked(F, f, b, i = OpsIn(F, f, b), e, e2)
  BY <1>3, <1>12, <1>18, Zenon DEF OpGood
<1>14. i = OpsIn(F, f, b) => Len(Instrs(e2)) > Len(Instrs(e))
  BY <1>3, <1>12, <1>18 DEF OpGood
<1>20. i \in 1..OpsIn(F, f, b) /\ OpsIn(F, f, b) \in Nat
  BY <1>1, <1>2 DEF ops
<1>. DEFINE emitted2 == emittedAt'
<1>21. /\ DOMAIN emitted2 = DOMAIN emittedAt \cup {<<f, b, i>>}
       /\ emitted2[<<f, b, i>>].start = Len(Instrs(e)) + 1
       /\ emitted2[<<f, b, i>>].tracker = e.stackTracker
       /\ \A place \in DOMAIN emittedAt : emitted2[place] = emittedAt[place]
  BY <1>19
<1>. HIDE DEF emitted2
<1>15. Noteworthy(F, Instrs(e2), Len(e2.stackTracker), emitted2, <<f, b, i + 1>>)
  BY <1>2, <1>11, <1>13, <1>14, <1>20, <1>21, OpNoted
<1>16. Noteworthy(F', Instrs(emitter'), Len(emitter'.stackTracker), emittedAt', at')
  BY <1>1, <1>15 DEF e2, emitted2
<1>. QED  BY <1>16 DEF Notes, Code, Instrs, F

LEMMA BeginNotes ==
  ASSUME IInv, BeginBlock, Notes
  PROVE  Notes'
<1>. DEFINE F == Functions
            f == at[1]
            b == at[2]
            unit == UnitAt(f)
            V == ValuesOf(F)
            e0 == IF b = 1 THEN ResetTracker(emitter) ELSE emitter
            h == Len(emitter.stackTracker)
            h2 == Len(e0.stackTracker)
            l == BlocksBefore(F, f) + b - 1
<1>1. /\ Emitting /\ at[3] = 0 /\ at' = <<f, b, 1>> /\ emitter' = markBlock(unit, e0, b)
      /\ program' = program /\ emittedAt' = emittedAt
  BY DEF BeginBlock
<1>2. F' = F
  BY <1>1 DEF Functions
<1>3. /\ f \in 1..Len(F) /\ b \in 1..BlocksIn(F, f) /\ b \in Nat
      /\ OpsIn(F, f, b) \in Nat /\ OpsIn(F, f, b) >= 1
      /\ BlocksBefore(F, f) \in Nat /\ Len(F) \in Nat /\ BlocksIn(F, f) \in Nat
      /\ at = <<f, b, at[3]>>
  BY <1>1, Here
<1>4. IsEmitter(V, emitter)
  BY DEF IInv, StreamGood
<1>5. /\ IsEmitter(V, e0) /\ Instrs(e0) = Code
      /\ b = 1 => h2 = 0
      /\ b # 1 => h2 = h
  <2>1. CASE b = 1
    <3>1. ResetTracker(emitter).stackTracker = <<>>
      BY <1>4 DEF ResetTracker, NewTracker, IsEmitter
    <3>2. Len(<<>>) = 0
      OBVIOUS
    <3>. QED  BY <1>4, <2>1, <3>1, <3>2, ResetIs DEF Code, Instrs
  <2>2. CASE b # 1
    BY <1>4, <2>2 DEF Code, Instrs
  <2>. QED  BY <2>1, <2>2
<1>6. h \in Nat /\ h2 \in Nat
  BY <1>4, <1>5 DEF IsEmitter
<1>. HIDE DEF e0, V
<1>7. Instrs(emitter') = Code \o BlockWords(l) /\ emitter'.stackTracker = e0.stackTracker
  <2>. DEFINE e2 == markBlock(unit, e0, b)
              lb == BlockLabel(unit, b)
  <2>4. IsEmitter(V, e0)
    BY <1>5
  <2>. HIDE DEF unit, b
  <2>5. Instrs(e2) = Instrs(e0) \o BlockWords(lb)
    BY <2>4, MarkBlock
  <2>6. e2.stackTracker = e0.stackTracker
    BY <2>4, MarkBlock
  <2>1. Instrs(e2) = Instrs(e0) \o BlockWords(lb) /\ e2.stackTracker = e0.stackTracker
    BY <2>5, <2>6
  <2>2. lb = l
    <3>1. b \in 1..Len(F[f].body) /\ Shape(F)
      BY <1>3, ProgramShape DEF BlocksIn, IInv
    <3>. QED  BY <1>3, <3>1, BlockLabels DEF UnitAt, unit
  <2>3. emitter' = e2
    BY <1>1
  <2>. HIDE DEF e2, lb, l
  <2>. QED  BY <1>5, <2>1, <2>2, <2>3
<1>8. b = 1 => f = 1 \/ Ended(Code)
  <2>1. ~(0 \in 1..OpsIn(F, f, b))
    BY <1>3
  <2>2. at = <<1, 1, 0>> \/ Ended(Code)
    BY <1>1, <2>1 DEF IInv, EndGood
  <2>3. at = <<1, 1, 0>> => f = 1
    OBVIOUS
  <2>. QED  BY <2>2, <2>3
<1>9. Noteworthy(F, Code, h, emittedAt, <<f, b, 0>>)
  BY <1>1, <1>3 DEF Notes
<1>10. b >= 1
  BY <1>3
<1>. HIDE DEF f, b, F, h, h2, l
<1>11. Noteworthy(F, Code \o BlockWords(l), h2, emittedAt, <<f, b, 1>>)
  BY <1>3, <1>5, <1>6, <1>8, <1>9, <1>10, BeginNoted DEF l
<1>12. Len(emitter'.stackTracker) = h2
  BY <1>7 DEF h2
<1>13. Noteworthy(F', Instrs(emitter'), Len(emitter'.stackTracker), emittedAt', at')
  BY <1>1, <1>2, <1>7, <1>11, <1>12
<1>. QED  BY <1>13 DEF Notes, Code, Instrs, F

LEMMA EndNotes ==
  ASSUME IInv, EndBlock, Notes
  PROVE  Notes'
<1>. DEFINE F == Functions
            f == at[1]
            b == at[2]
            i == at[3]
            h == Len(emitter.stackTracker)
<1>1. /\ Emitting /\ i > OpsIn(F, f, b)
      /\ at' = IF b < BlocksIn(F, f) THEN <<f, b + 1, 0>> ELSE <<f + 1, 1, 0>>
      /\ emitter' = emitter
      /\ program' = program /\ emittedAt' = emittedAt
  BY DEF EndBlock, BlocksIn, OpsIn
<1>2. F' = F /\ Code' = Code
  BY <1>1 DEF Functions, Code
<1>3. /\ f \in 1..Len(F) /\ b \in 1..BlocksIn(F, f)
      /\ OpsIn(F, f, b) \in Nat /\ OpsIn(F, f, b) >= 1
      /\ BlocksBefore(F, f) \in Nat /\ Len(F) \in Nat /\ BlocksIn(F, f) \in Nat
      /\ i \in 0..(OpsIn(F, f, b) + 1) /\ at = <<f, b, i>>
  BY <1>1, Here
<1>4. i = OpsIn(F, f, b) + 1
  <2>. DEFINE o == OpsIn(F, f, b)
  <2>1. o \in Nat /\ i > o /\ i \in 0..(o + 1)
    BY <1>1, <1>3
  <2>. HIDE DEF o, i
  <2>2. i = o + 1
    BY <2>1
  <2>. QED  BY <2>2 DEF o
<1>5. Noteworthy(F, Code, h, emittedAt, <<f, b, i>>)
  BY <1>3 DEF Notes
<1>. DEFINE pos2 == at'
<1>6. pos2 = IF b < BlocksIn(F, f) THEN <<f, b + 1, 0>> ELSE <<f + 1, 1, 0>>
  BY <1>1
<1>. HIDE DEF F, f, b, i, h, pos2
<1>7. Noteworthy(F, Code, h, emittedAt, pos2)
  BY <1>3, <1>4, <1>5, <1>6, EndNoted
<1>8. Noteworthy(F', Code', Len(emitter'.stackTracker), emittedAt', at')
  BY <1>1, <1>2, <1>7 DEF h, pos2
<1>. QED  BY <1>8 DEF Notes, F

-----------------------------------------------------------------------------
(* The machine in annotated code.  Its stack consists of frames, one for    *)
(* each call that has not returned: the words of the function called, above *)
(* the label that it returns to.  base is the number of words below them.   *)

(* The p-th word from below. *)
Low(st, p) == st[Len(st) + 1 - p]

Height(a) == a.h + (CASE a.to = "one" -> 1 [] a.to = "two" -> 2 [] OTHER -> 0)

(* What is on top of the function's words. *)
Topped(a, ret, st) ==
  /\ a.to = "one"  => st[1] = Label(a.l)
  /\ a.to = "two"  => st[1] = Label(a.l) /\ st[2] = Label(a.r)
  /\ a.to = "back" => st[1] = Label(ret)

Stacked(fr, m, a, st) ==
  /\ IsSequence(st)
  /\ a.f = fr[m].f
  /\ Len(st) = fr[m].base + Height(a)
  /\ Topped(a, fr[m].ret, st)
  /\ \A j \in 2..m : j # m \/ a.to # "back" => Low(st, fr[j].base) = Label(fr[j].ret)

(* Where frame j returns to: the results are words of the frame below. *)
ReturnsTo(code, as, fr, j) ==
  \E k \in 1..Len(code) : \E x \in Nat :
    /\ code[k] = LabelDefInstr(fr[j].ret)
    /\ as[k] = Spot(x, fr[j - 1].f)
    /\ x + fr[j - 1].base + 1 = fr[j].base + fr[j].n

Frames(F, code, as, fr, m) ==
  /\ m \in Nat /\ m >= 1
  /\ fr[1].f = 1 /\ fr[1].base = 1
  /\ \A j \in 1..m : fr[j].base \in Nat /\ fr[j].base >= 1
  /\ \A i \in 1..m : \A j \in 1..m : i < j => fr[i].base < fr[j].base
  /\ \A j \in 2..m : /\ fr[j].f \in 2..Len(F)
                     /\ ReturnsAre(F, fr[j].f, fr[j].n)
                     /\ ReturnsTo(code, as, fr, j)

Located(F, code, as, fr, m, c, st) ==
  /\ Frames(F, code, as, fr, m)
  /\ c \in 1..Len(code)
  /\ Stacked(fr, m, as[c], st)

(* t words have been taken off the stack and g put there. *)
Shifted(st, st2, t, g) ==
  /\ IsSequence(st2)
  /\ t \in Nat /\ g \in Nat
  /\ t <= Len(st)
  /\ Len(st2) + t = Len(st) + g
  /\ \A p \in 1..(Len(st) - t) : Low(st2, p) = Low(st, p)

LEMMA Heights ==
  ASSUME NEW a, Noted(a)
  PROVE  /\ Height(a) \in Nat
         /\ a.to \in {"none", "back"} => Height(a) = a.h
         /\ a.to = "one" => Height(a) = a.h + 1
         /\ a.to = "two" => Height(a) = a.h + 2
<1>1. a.h \in Nat
  BY DEF Noted
<1>2. a.to \in {"none", "back"} => Height(a) = a.h
  BY <1>1 DEF Height
<1>3. a.to = "one" => Height(a) = a.h + 1
  BY DEF Height
<1>4. a.to = "two" => Height(a) = a.h + 2
  BY DEF Height
<1>5. a.to \notin {"one", "two"} => Height(a) = a.h + 0
  BY DEF Height
<1>6. Height(a) \in Nat
  BY <1>1, <1>3, <1>4, <1>5
<1>. QED  BY <1>2, <1>3, <1>4, <1>6

(* Within a function. *)
LEMMA Shifts ==
  ASSUME NEW F, NEW code, NEW as, NEW fr, NEW m, Frames(F, code, as, fr, m),
         NEW a, Noted(a), NEW st, Stacked(fr, m, a, st), a.to # "back",
         NEW st2, NEW t, NEW g, Shifted(st, st2, t, g), t <= Height(a),
         NEW b, Noted(b), Height(b) + t = Height(a) + g, b.f = a.f, b.to # "back",
         Topped(b, fr[m].ret, st2)
  PROVE  Stacked(fr, m, b, st2)
<1>. DEFINE base == fr[m].base
            n == Len(st)
            n2 == Len(st2)
            x == Height(a)
            y == Height(b)
<1>1. m \in Nat /\ m >= 1 /\ base \in Nat
  <2>1. m \in Nat /\ m >= 1
    BY DEF Frames
  <2>2. m \in 1..m
    BY <2>1
  <2>. QED  BY <2>1, <2>2 DEF Frames
<1>2. x \in Nat /\ y \in Nat
  BY Heights
<1>3. t \in Nat /\ g \in Nat /\ t <= n /\ n2 + t = n + g /\ n = base + x /\ t <= x
      /\ y + t = x + g
  BY DEF Shifted, Stacked
<1>4. n2 \in Nat /\ IsSequence(st2)
  BY SequenceIs DEF Shifted
<1>5. ASSUME NEW j \in 2..m PROVE Low(st2, fr[j].base) = Label(fr[j].ret)
  <2>1. j \in 1..m /\ (j = m \/ j < m)
    BY <1>1
  <2>. DEFINE p == fr[j].base
  <2>2. p \in Nat /\ p >= 1 /\ (j < m => p < base)
    <3>1. m \in 1..m
      BY <1>1
    <3>. QED  BY <2>1, <3>1 DEF Frames
  <2>3. j = m => p = base
    OBVIOUS
  <2>4. Low(st, p) = Label(fr[j].ret)
    BY DEF Stacked
  <2>. HIDE DEF p, base, n, n2, x, y
  <2>5. p \in 1..(n - t)
    BY <1>1, <1>2, <1>3, <2>1, <2>2, <2>3
  <2>6. Low(st2, p) = Low(st, p)
    BY <2>5 DEF Shifted, n
  <2>. QED  BY <2>4, <2>6 DEF p
<1>6. b.f = fr[m].f
  BY DEF Stacked
<1>7. n2 = base + y
  <2>. HIDE DEF base, n, n2, x, y
  <2>. QED  BY <1>1, <1>2, <1>3, <1>4
<1>. QED  BY <1>4, <1>5, <1>6, <1>7 DEF Stacked

(* One word on top. *)
LEMMA OneMore ==
  ASSUME NEW st, IsSequence(st), NEW w
  PROVE  /\ Shifted(st, <<w>> \o st, 0, 1)
         /\ (<<w>> \o st)[1] = w
         /\ Len(st) >= 1 => (<<w>> \o st)[2] = st[1]
<1>. DEFINE n == Len(st)
            st2 == <<w>> \o st
            one == <<w>>
            n2 == Len(st2)
<1>1. n \in Nat
  BY SequenceIs
<1>2. IsSequence(one) /\ Len(one) = 1 /\ one[1] = w
  BY Tuples
<1>. HIDE DEF one
<1>8. st2 = one \o st
  BY DEF one
<1>. HIDE DEF st2
<1>3. IsSequence(st2) /\ n2 = 1 + n
  <2>1. IsSequence(one \o st)
    BY <1>2, Concatenation
  <2>2. Len(one \o st) = Len(one) + Len(st)
    BY <1>2, Concatenation
  <2>. QED  BY <1>2, <1>8, <2>1, <2>2
<1>4. st2[1] = w
  <2>1. 1 \in 1..Len(one)
    BY <1>2
  <2>2. st2[1] = one[1]
    BY <1>2, <1>8, <2>1, Concatenation
  <2>. QED  BY <1>2, <2>2
<1>5. \A i \in 1..n : st2[1 + i] = st[i]
  <2>2. IsSequence(one)
    BY <1>2
  <2>1. \A i \in 1..Len(st) : (one \o st)[Len(one) + i] = st[i]
    BY <2>2, Concatenation
  <2>. QED  BY <1>2, <1>8, <2>1
<1>. HIDE DEF n, n2
<1>6. n >= 1 => st2[2] = st[1]
  <2>1. n >= 1 => 1 \in 1..n
    BY <1>1
  <2>2. n >= 1 => st2[1 + 1] = st[1]
    BY <1>5, <2>1
  <2>3. 1 + 1 = 2
    OBVIOUS
  <2>. QED  BY <2>2, <2>3
<1>7. ASSUME NEW p \in 1..(n - 0) PROVE Low(st2, p) = Low(st, p)
  <2>. DEFINE i == n + 1 - p
  <2>1. i \in 1..n /\ n2 + 1 - p = 1 + i
    BY <1>1, <1>3
  <2>. HIDE DEF i
  <2>2. st2[1 + i] = st[i]
    BY <1>5, <2>1
  <2>3. st2[n2 + 1 - p] = st[i]
    BY <2>1, <2>2
  <2>. QED  BY <2>3 DEF Low, i, n, n2
<1>9. Shifted(st, st2, 0, 1)
  <2>1. 0 <= n /\ n2 + 0 = n + 1
    BY <1>1, <1>3
  <2>. QED  BY <1>3, <1>7, <2>1 DEF Shifted, n, n2
<1>. QED  BY <1>4, <1>6, <1>9 DEF st2, n

(* Some words fewer. *)
LEMMA SomeFewer ==
  ASSUME NEW st, IsSequence(st), NEW t \in Nat, t <= Len(st)
  PROVE  /\ Shifted(st, SubSeq(st, t + 1, Len(st)), t, 0)
         /\ t = 1 /\ Len(st) >= 2 => SubSeq(st, t + 1, Len(st))[1] = st[2]
<1>. DEFINE n == Len(st)
            st2 == SubSeq(st, t + 1, n)
            n2 == Len(st2)
<1>1. n \in Nat /\ t <= n
  BY SequenceIs
<1>2. IsSequence(st2) /\ n2 = n - (t + 1) + 1
      /\ \A i \in 1..(n - (t + 1) + 1) : st2[i] = st[(t + 1) + i - 1]
  <2>1. t + 1 \in Nat /\ t + 1 >= 1 /\ n <= Len(st) /\ t + 1 <= n + 1
    BY <1>1
  <2>. HIDE DEF n
  <2>2. n \in Nat
    BY <1>1
  <2>. DEFINE u == t + 1
  <2>3. u \in Nat /\ u >= 1 /\ u <= n + 1
    BY <2>1
  <2>. HIDE DEF u
  <2>4. IsSequence(SubSeq(st, u, n))
    BY <2>1, <2>2, <2>3, Part
  <2>5. Len(SubSeq(st, u, n)) = n - u + 1
    BY <2>1, <2>2, <2>3, Part
  <2>6. \A i \in 1..(n - u + 1) : SubSeq(st, u, n)[i] = st[u + i - 1]
    BY <2>1, <2>2, <2>3, Part
  <2>. QED  BY <2>4, <2>5, <2>6 DEF u
<1>. HIDE DEF n, n2, st2
<1>3. n2 = n - t /\ n2 \in Nat
  BY <1>1, <1>2
<1>4. ASSUME NEW i \in 1..(n - t) PROVE st2[i] = st[t + i]
  <2>1. i \in 1..(n - (t + 1) + 1) /\ (t + 1) + i - 1 = t + i
    BY <1>1
  <2>. QED  BY <1>2, <2>1
<1>5. ASSUME NEW p \in 1..(n - t) PROVE Low(st2, p) = Low(st, p)
  <2>. DEFINE i == n2 + 1 - p
  <2>1. i \in 1..(n - t) /\ t + i = n + 1 - p
    BY <1>1, <1>3
  <2>. HIDE DEF i
  <2>2. st2[i] = st[n + 1 - p]
    BY <1>4, <2>1
  <2>. QED  BY <2>2 DEF Low, i, n, n2
<1>6. Shifted(st, st2, t, 0)
  <2>1. n2 + t = n + 0
    BY <1>1, <1>3
  <2>. QED  BY <1>1, <1>2, <1>5, <2>1 DEF Shifted, n, n2
<1>7. t = 1 /\ n >= 2 => st2[1] = st[2]
  <2>1. t = 1 /\ n >= 2 => 1 \in 1..(n - t) /\ t + 1 = 2
    BY <1>1
  <2>. QED  BY <1>4, <2>1
<1>. QED  BY <1>6, <1>7 DEF st2, n

(* How the instructions shift the stack. *)
LEMMA ShiftsMore ==
  ASSUME NEW st, NEW st2, NEW t, NEW g, Shifted(st, st2, t, g), IsSequence(st),
         NEW d \in Nat, t + d <= Len(st)
  PROVE  Shifted(st, st2, t + d, g + d)
<1>. DEFINE n == Len(st)
            n2 == Len(st2)
<1>1. n \in Nat /\ n2 \in Nat /\ t \in Nat /\ g \in Nat /\ t + d <= n /\ n2 + t = n + g
  BY SequenceIs DEF Shifted
<1>2. \A p \in 1..(n - t) : Low(st2, p) = Low(st, p)
  BY DEF Shifted
<1>. HIDE DEF n, n2
<1>3. t + d \in Nat /\ g + d \in Nat /\ n2 + (t + d) = n + (g + d)
  BY <1>1
<1>4. \A p \in 1..(n - (t + d)) : p \in 1..(n - t)
  BY <1>1
<1>5. \A p \in 1..(n - (t + d)) : Low(st2, p) = Low(st, p)
  BY <1>2, <1>4
<1>. QED  BY <1>1, <1>3, <1>5 DEF Shifted, n, n2

LEMMA ShiftsBoth ==
  ASSUME NEW st, NEW mid, NEW st2, NEW t, NEW g, IsSequence(st),
         Shifted(st, mid, t, 0), Shifted(mid, st2, 0, g)
  PROVE  Shifted(st, st2, t, g)
<1>. DEFINE n == Len(st)
            k == Len(mid)
            n2 == Len(st2)
<1>1. n \in Nat /\ n2 \in Nat /\ k \in Nat /\ t \in Nat /\ g \in Nat /\ t <= n
      /\ k + t = n + 0 /\ n2 + 0 = k + g
  BY SequenceIs DEF Shifted
<1>2. \A p \in 1..(n - t) : Low(mid, p) = Low(st, p)
  BY DEF Shifted
<1>3. \A p \in 1..(k - 0) : Low(st2, p) = Low(mid, p)
  BY DEF Shifted
<1>. HIDE DEF n, n2, k
<1>4. n2 + t = n + g /\ \A p \in 1..(n - t) : p \in 1..(k - 0)
  BY <1>1
<1>5. \A p \in 1..(n - t) : Low(st2, p) = Low(st, p)
  BY <1>2, <1>3, <1>4
<1>6. IsSequence(st2)
  BY DEF Shifted
<1>. QED  BY <1>1, <1>4, <1>5, <1>6 DEF Shifted, n, n2

LEMMA SwapShifts ==
  ASSUME NEW st, IsSequence(st), NEW n \in Nat, n >= 1, Len(st) >= n + 1,
         NEW st2, st2 = [st EXCEPT ![1] = st[n + 1], ![n + 1] = st[1]]
  PROVE  Shifted(st, st2, n + 1, n + 1) /\ st2[1] = st[n + 1]
<1>. DEFINE len == Len(st)
            S == {st[i] : i \in 1..Len(st)}
<1>1. len \in Nat /\ st \in Seq(S) /\ DOMAIN st = 1..len
  BY SequenceIs
<1>2. len >= n + 1
  OBVIOUS
<1>. HIDE DEF len
<1>3. 1 \in 1..len /\ n + 1 \in 1..len /\ 1 # n + 1
  BY <1>1, <1>2
<1>4. st[1] \in S /\ st[n + 1] \in S
  BY <1>3 DEF len
<1>. HIDE DEF S
<1>5. st2 \in Seq(S) /\ Len(st2) = len
  BY <1>1, <1>3, <1>4 DEF len
<1>6. \A i \in 1..len : i # 1 /\ i # n + 1 => st2[i] = st[i]
  BY <1>1, <1>3
<1>7. st2[1] = st[n + 1]
  BY <1>1, <1>3
<1>8. ASSUME NEW p \in 1..(len - (n + 1)) PROVE Low(st2, p) = Low(st, p)
  <2>. DEFINE i == len + 1 - p
  <2>1. i \in 1..len /\ i # 1 /\ i # n + 1
    BY <1>1, <1>2
  <2>. HIDE DEF i
  <2>2. st2[i] = st[i]
    BY <1>6, <2>1
  <2>. QED  BY <1>5, <2>2 DEF Low, i, len
<1>9. n + 1 \in Nat /\ n + 1 <= len
  BY <1>1, <1>2
<1>10. IsSequence(st2)
  BY <1>5 DEF IsSequence
<1>. QED  BY <1>5, <1>7, <1>8, <1>9, <1>10 DEF Shifted, len

(* What an instruction does after which the machine still runs. *)
Jumped(code, st, c2, st2) ==
  /\ Len(st) >= 1
  /\ st2 = SubSeq(st, 2, Len(st))
  /\ code[c2] = LabelDefInstr(st[1][2])

RanOpcode(opcode, st, st2) ==
  /\ Shifted(st, st2, Takes(opcode), Gives(opcode))
  /\ \A n \in 1..16 : opcode = SWAP1 + n - 1 => st2[1] = st[n + 1]

Ran(code, c, st, c2, st2) ==
  \/ /\ c2 = c + 1
     /\ \/ code[c].kind = "push" /\ Shifted(st, st2, 0, 1)
        \/ code[c].kind = "labelRef" /\ st2 = <<Label(code[c].label)>> \o st
        \/ code[c].kind = "labelDef" /\ st2 = st
        \/ \E opcode \in Moves : code[c] = OpcodeInstr(opcode) /\ RanOpcode(opcode, st, st2)
  \/ code[c] = OpcodeInstr(JUMP) /\ Jumped(code, st, c2, st2)
  \/ code[c] = OpcodeInstr(JUMPI)

(* An opcode that is no SWAP. *)
LEMMA PlainOpcodeRan ==
  ASSUME NEW st, NEW st2, NEW opcode, opcode \notin SwapOpcodes,
         NEW t, NEW g, t = Takes(opcode), g = Gives(opcode), Shifted(st, st2, t, g)
  PROVE  RanOpcode(opcode, st, st2)
<1>1. ASSUME NEW n \in 1..16 PROVE opcode # SWAP1 + n - 1
  BY SwapMoves
<1>. QED  BY <1>1 DEF RanOpcode

(* Words are taken and one is put on top. *)
LEMMA Computed ==
  ASSUME NEW st, IsSequence(st), NEW t \in Nat, t <= Len(st), NEW w
  PROVE  Shifted(st, <<w>> \o SubSeq(st, t + 1, Len(st)), t, 1)
<1>. DEFINE mid == SubSeq(st, t + 1, Len(st))
<1>1. Shifted(st, mid, t, 0)
  BY SomeFewer
<1>. HIDE DEF mid
<1>2. IsSequence(mid)
  BY <1>1 DEF Shifted
<1>3. Shifted(mid, <<w>> \o mid, 0, 1)
  BY <1>2, OneMore
<1>4. Shifted(st, <<w>> \o mid, t, 1)
  BY <1>1, <1>3, ShiftsBoth
<1>. QED  BY <1>4 DEF mid

LEMMA MarkRan ==
  ASSUME IsSequence(stack), RunMark(Code)
  PROVE  Ran(Code, pc, stack, pc', stack')
<1>1. stack' = stack /\ pc' = pc + 1
  BY DEF RunMark, Continue
<1>2. CASE Code[pc].kind = "labelDef"
  BY <1>1, <1>2 DEF Ran
<1>3. CASE Code[pc] = OpcodeInstr(JUMPDEST)
  <2>1. Len(stack) \in Nat
    BY SequenceIs
  <2>2. Shifted(stack, stack, 0, 0)
    BY <2>1 DEF Shifted
  <2>3. 0 = Takes(JUMPDEST) /\ 0 = Gives(JUMPDEST)
    BY WrittenMoves
  <2>4. JUMPDEST \notin SwapOpcodes
    BY WrittenNumbers
  <2>5. RanOpcode(JUMPDEST, stack, stack)
    BY <2>2, <2>3, <2>4, PlainOpcodeRan
  <2>6. JUMPDEST \in Moves
    BY DEF Moves
  <2>. QED  BY <1>1, <1>3, <2>5, <2>6 DEF Ran
<1>. QED  BY <1>2, <1>3 DEF RunMark

LEMMA PushRan ==
  ASSUME IsSequence(stack), RunPush(Code)
  PROVE  Ran(Code, pc, stack, pc', stack')
<1>1. pc' = pc + 1
  BY DEF RunPush, Continue
<1>2. CASE Code[pc].kind = "push" /\ stack' = <<Number(Code[pc].value)>> \o stack
  <2>1. Shifted(stack, stack', 0, 1)
    BY <1>2, OneMore
  <2>. QED  BY <1>1, <1>2, <2>1 DEF Ran
<1>3. CASE Code[pc] = OpcodeInstr(PUSH0) /\ stack' = <<Number(0)>> \o stack
  <2>1. Shifted(stack, stack', 0, 1)
    BY <1>3, OneMore
  <2>2. 0 = Takes(PUSH0) /\ 1 = Gives(PUSH0)
    BY WrittenMoves
  <2>3. PUSH0 \notin SwapOpcodes
    BY WrittenNumbers
  <2>4. RanOpcode(PUSH0, stack, stack')
    BY <2>1, <2>2, <2>3, PlainOpcodeRan
  <2>5. PUSH0 \in Moves
    BY DEF Moves
  <2>. QED  BY <1>1, <1>3, <2>4, <2>5 DEF Ran
<1>4. CASE Code[pc].kind = "labelRef" /\ stack' = <<Label(Code[pc].label)>> \o stack
  BY <1>1, <1>4 DEF Ran
<1>. QED  BY <1>2, <1>3, <1>4 DEF RunPush, IsOpcode, Continue

LEMMA DupRan ==
  ASSUME IsSequence(stack), RunDup(Code)
  PROVE  Ran(Code, pc, stack, pc', stack')
<1>1. PICK n \in 1..16 : IsOpcode(Code, n, DUP1 + n - 1) /\ Continue(<<stack[n]>> \o stack)
  BY DEF RunDup
<1>. DEFINE opcode == DUP1 + n - 1
            st2 == <<stack[n]>> \o stack
<1>2. /\ opcode \in DupOpcodes /\ Takes(opcode) = n /\ Gives(opcode) = n + 1
      /\ Code[pc] = OpcodeInstr(opcode) /\ Len(stack) >= n /\ stack' = st2 /\ pc' = pc + 1
  BY <1>1, DupMoves DEF IsOpcode, Continue
<1>3. Shifted(stack, st2, 0, 1)
  BY OneMore
<1>. HIDE DEF opcode, st2
<1>4. Shifted(stack, st2, n, n + 1)
  <2>1. 0 + n <= Len(stack) /\ n \in Nat /\ 0 + n = n /\ 1 + n = n + 1
    BY <1>2
  <2>2. Shifted(stack, st2, 0 + n, 1 + n)
    BY <1>3, <2>1, ShiftsMore
  <2>. QED  BY <2>1, <2>2
<1>5. opcode \notin SwapOpcodes /\ opcode \in Moves
  <2>1. opcode \notin SwapOpcodes
    BY <1>2, WrittenNumbers
  <2>. QED  BY <1>2, <2>1 DEF Moves, Exchanging
<1>6. RanOpcode(opcode, stack, st2)
  <2>. DEFINE g == n + 1
  <2>1. n = Takes(opcode) /\ g = Gives(opcode) /\ Shifted(stack, st2, n, g)
    BY <1>2, <1>4
  <2>. HIDE DEF g
  <2>. QED  BY <1>5, <2>1, PlainOpcodeRan
<1>. QED  BY <1>2, <1>5, <1>6 DEF Ran

LEMMA SwapRan ==
  ASSUME IsSequence(stack), RunSwap(Code)
  PROVE  Ran(Code, pc, stack, pc', stack')
<1>1. PICK n \in 1..16 :
        /\ IsOpcode(Code, n + 1, SWAP1 + n - 1)
        /\ Continue([stack EXCEPT ![1] = stack[n + 1], ![n + 1] = stack[1]])
  BY DEF RunSwap
<1>. DEFINE opcode == SWAP1 + n - 1
            st2 == [stack EXCEPT ![1] = stack[n + 1], ![n + 1] = stack[1]]
<1>2. /\ Code[pc] = OpcodeInstr(opcode) /\ Len(stack) >= n + 1 /\ stack' = st2 /\ pc' = pc + 1
  BY <1>1, Zenon DEF IsOpcode, Continue
<1>3. opcode \in SwapOpcodes /\ Takes(opcode) = n + 1 /\ Gives(opcode) = n + 1
  BY SwapMoves
<1>4. n \in Nat /\ n >= 1
  OBVIOUS
<1>5. Shifted(stack, st2, n + 1, n + 1) /\ st2[1] = stack[n + 1]
  <2>1. Len(stack) >= n + 1
    BY <1>2
  <2>2. Shifted(stack, st2, n + 1, n + 1)
    BY <1>4, <2>1, SwapShifts
  <2>3. st2[1] = stack[n + 1]
    BY <1>4, <2>1, SwapShifts
  <2>. QED  BY <2>2, <2>3
<1>. HIDE DEF st2
<1>6. ASSUME NEW i \in 1..16, opcode = SWAP1 + i - 1 PROVE st2[1] = stack[i + 1]
  <2>1. i = n
    BY <1>6, WrittenNumbers
  <2>. QED  BY <1>5, <2>1
<1>. HIDE DEF opcode
<1>7. RanOpcode(opcode, stack, st2)
  <2>1. Shifted(stack, st2, Takes(opcode), Gives(opcode))
    BY <1>3, <1>5
  <2>. QED  BY <1>6, <2>1 DEF RanOpcode
<1>8. opcode \in Moves
  BY <1>3 DEF Moves, Exchanging
<1>. QED  BY <1>2, <1>7, <1>8 DEF Ran

LEMMA ComputeRan ==
  ASSUME IsSequence(stack), RunCompute(Code)
  PROVE  Ran(Code, pc, stack, pc', stack')
<1>1. PICK opcode \in DOMAIN Computes :
        /\ IsOpcode(Code, Computes[opcode], opcode)
        /\ Continue(<<Apply(opcode, SubSeq(stack, 1, Computes[opcode]))>>
                    \o Below(Computes[opcode]))
  BY DEF RunCompute
<1>. DEFINE n == Computes[opcode]
            w == Apply(opcode, SubSeq(stack, 1, n))
<1>2. n \in Nat /\ Takes(opcode) = n /\ Gives(opcode) = 1 /\ opcode \in Moves
  BY ComputeMoves DEF Moves
<1>3. opcode \notin SwapOpcodes
  BY ClassesApart DEF Exchanging
<1>4. Code[pc] = OpcodeInstr(opcode) /\ Len(stack) >= n /\ pc' = pc + 1
      /\ stack' = <<w>> \o SubSeq(stack, n + 1, Len(stack))
  BY <1>1 DEF IsOpcode, Continue, Below
<1>. HIDE DEF n, w
<1>5. n <= Len(stack)
  BY <1>2, <1>4, SequenceIs
<1>6. Shifted(stack, stack', n, 1)
  <2>1. Shifted(stack, <<w>> \o SubSeq(stack, n + 1, Len(stack)), n, 1)
    BY <1>2, <1>5, Computed
  <2>. QED  BY <1>4, <2>1
<1>7. RanOpcode(opcode, stack, stack')
  <2>1. n = Takes(opcode) /\ 1 = Gives(opcode)
    BY <1>2
  <2>. QED  BY <1>3, <1>6, <2>1, PlainOpcodeRan
<1>. QED  BY <1>2, <1>4, <1>7 DEF Ran

LEMMA ConsumeRan ==
  ASSUME IsSequence(stack), RunConsume(Code)
  PROVE  Ran(Code, pc, stack, pc', stack')
<1>1. PICK opcode \in DOMAIN Consumes :
        IsOpcode(Code, Consumes[opcode], opcode) /\ Continue(Below(Consumes[opcode]))
  BY DEF RunConsume
<1>. DEFINE n == Consumes[opcode]
<1>2. n \in Nat /\ Takes(opcode) = n /\ Gives(opcode) = 0 /\ opcode \in Moves
  BY ConsumeMoves DEF Moves
<1>3. opcode \notin SwapOpcodes
  BY ClassesApart DEF Exchanging
<1>4. Code[pc] = OpcodeInstr(opcode) /\ Len(stack) >= n /\ pc' = pc + 1
      /\ stack' = SubSeq(stack, n + 1, Len(stack))
  BY <1>1 DEF IsOpcode, Continue, Below
<1>. HIDE DEF n
<1>5. n <= Len(stack)
  BY <1>2, <1>4, SequenceIs
<1>6. Shifted(stack, stack', n, 0)
  <2>1. Shifted(stack, SubSeq(stack, n + 1, Len(stack)), n, 0)
    BY <1>2, <1>5, SomeFewer
  <2>. QED  BY <1>4, <2>1
<1>7. RanOpcode(opcode, stack, stack')
  <2>1. n = Takes(opcode) /\ 0 = Gives(opcode)
    BY <1>2
  <2>. QED  BY <1>3, <1>6, <2>1, PlainOpcodeRan
<1>. QED  BY <1>2, <1>4, <1>7 DEF Ran

LEMMA MemoryRan ==
  ASSUME IsSequence(stack), RunMload(Code) \/ RunMstore(Code)
  PROVE  Ran(Code, pc, stack, pc', stack')
<1>0. Len(stack) \in Nat
  BY SequenceIs
<1>1. CASE RunMload(Code)
  <2>. DEFINE w == Stored(stack[1])
  <2>1. Code[pc] = OpcodeInstr(MLOAD) /\ Len(stack) >= 1 /\ pc' = pc + 1
        /\ stack' = <<w>> \o SubSeq(stack, 1 + 1, Len(stack))
    BY <1>1 DEF RunMload, IsOpcode, Continue, Below
  <2>. HIDE DEF w
  <2>2. 1 <= Len(stack) /\ 1 \in Nat
    BY <1>0, <2>1
  <2>3. Shifted(stack, <<w>> \o SubSeq(stack, 1 + 1, Len(stack)), 1, 1)
    BY <2>2, Computed
  <2>4. Shifted(stack, stack', 1, 1)
    BY <2>1, <2>3
  <2>5. 1 = Takes(MLOAD) /\ 1 = Gives(MLOAD)
    BY WrittenMoves
  <2>6. MLOAD \notin SwapOpcodes
    BY WrittenNumbers
  <2>7. MLOAD \in Moves
    BY DEF Moves
  <2>8. RanOpcode(MLOAD, stack, stack')
    BY <2>4, <2>5, <2>6, PlainOpcodeRan
  <2>. QED  BY <2>1, <2>7, <2>8 DEF Ran
<1>2. CASE RunMstore(Code)
  <2>1. Code[pc] = OpcodeInstr(MSTORE) /\ Len(stack) >= 2 /\ pc' = pc + 1
        /\ stack' = SubSeq(stack, 2 + 1, Len(stack))
    BY <1>2 DEF RunMstore, IsOpcode, Below
  <2>2. 2 <= Len(stack) /\ 2 \in Nat
    BY <1>0, <2>1
  <2>3. Shifted(stack, SubSeq(stack, 2 + 1, Len(stack)), 2, 0)
    BY <2>2, SomeFewer
  <2>4. Shifted(stack, stack', 2, 0)
    BY <2>1, <2>3
  <2>5. 2 = Takes(MSTORE) /\ 0 = Gives(MSTORE)
    BY WrittenMoves
  <2>6. MSTORE \notin SwapOpcodes
    BY WrittenNumbers
  <2>7. MSTORE \in Moves
    BY DEF Moves
  <2>8. RanOpcode(MSTORE, stack, stack')
    BY <2>4, <2>5, <2>6, PlainOpcodeRan
  <2>. QED  BY <2>1, <2>7, <2>8 DEF Ran
<1>. QED  BY <1>1, <1>2

LEMMA JumpRan ==
  ASSUME NEW next, CodeGood(next), MachineGood(next), RunJump(Code)
  PROVE  Ran(Code, pc, stack, pc', stack')
<1>1. /\ Code[pc] = OpcodeInstr(JUMP) /\ Len(stack) >= 1 /\ stack[1][1] = "label"
      /\ pc' = LabelIndex(Code, stack[1][2]) /\ stack' = Below(1)
  BY DEF RunJump, IsOpcode
<1>2. Len(stack) \in Nat
  BY SequenceIs DEF MachineGood, GoodWords
<1>3. stack[1][2] \in 0..(next - 1)
  BY <1>1, <1>2 DEF MachineGood, GoodWords, GoodWord
<1>4. Code[pc'] = LabelDefInstr(stack[1][2])
  BY <1>1, <1>3, LabelLeads
<1>5. stack' = SubSeq(stack, 2, Len(stack))
  <2>1. 1 + 1 = 2
    OBVIOUS
  <2>. QED  BY <1>1, <2>1 DEF Below
<1>6. Jumped(Code, stack, pc', stack')
  BY <1>1, <1>4, <1>5 DEF Jumped
<1>. QED  BY <1>1, <1>6 DEF Ran

LEMMA RunRan ==
  ASSUME NEW next, CodeGood(next), MachineGood(next), RunInstruction(Code),
         outcome' = "running"
  PROVE  Ran(Code, pc, stack, pc', stack')
<1>1. IsSequence(stack)
  BY DEF MachineGood, GoodWords
<1>2. CASE RunJumpi(Code)
  <2>1. Code[pc] = OpcodeInstr(JUMPI)
    BY <1>2 DEF RunJumpi, IsOpcode
  <2>. QED  BY <2>1 DEF Ran
<1>3. ~RunEnd(Code) /\ ~RunTrap(Code) /\ ~RunUnread(Code)
  BY DEF RunEnd, RunTrap, RunUnread, Halt
<1>. QED  BY <1>1, <1>2, <1>3, MarkRan, PushRan, DupRan, SwapRan, ComputeRan, ConsumeRan,
             MemoryRan, JumpRan DEF RunInstruction, RunRead

-----------------------------------------------------------------------------
(* Each instruction leads from where the machine is to where it is then.    *)

CodeNoted(F, code, as) ==
  /\ Len(code) \in Nat /\ Len(F) \in Nat
  /\ Annotated(F, code, as, Closed)
  /\ \A g \in 1..Len(F) : EntryNoted(F, code, as, g)
  /\ \A i \in 1..Len(code) : \A j \in 1..Len(code) : \A l :
       code[i] = LabelDefInstr(l) /\ code[j] = LabelDefInstr(l) => i = j

LocatedSome(F, code, as, c, st) == \E fr : \E m : Located(F, code, as, fr, m, c, st)

LEMMA NotesHere ==
  ASSUME NEW F, NEW code, NEW as, CodeNoted(F, code, as), NEW c \in 1..Len(code)
  PROVE  /\ Noted(as[c]) /\ Noted(as[c + 1])
         /\ Goes(F, code[c], Following(code, c, Closed), as[c], as[c + 1])
<1>. DEFINE n == Len(code)
<1>1. n \in Nat /\ Annotated(F, code, as, Closed)
  BY DEF CodeNoted
<1>2. (\A k \in 1..(n + 1) : Noted(as[k]))
      /\ \A k \in 1..n : Goes(F, code[k], Following(code, k, Closed), as[k], as[k + 1])
  BY <1>1 DEF Annotated
<1>3. c \in 1..n
  OBVIOUS
<1>. HIDE DEF n
<1>4. c \in 1..(n + 1) /\ c + 1 \in 1..(n + 1)
  BY <1>1, <1>3
<1>. QED  BY <1>2, <1>3, <1>4

LEMMA GoesOnHere ==
  ASSUME NEW F, NEW code, NEW as, CodeNoted(F, code, as), NEW fr, NEW m, NEW c, NEW st,
         Located(F, code, as, fr, m, c, st), as[c].to # "back",
         NEW st2, NEW t, NEW g, Shifted(st, st2, t, g), t <= Height(as[c]),
         c + 1 \in 1..Len(code), Height(as[c + 1]) + t = Height(as[c]) + g,
         as[c + 1].f = as[c].f, as[c + 1].to # "back", Topped(as[c + 1], fr[m].ret, st2)
  PROVE  LocatedSome(F, code, as, c + 1, st2)
<1>1. Frames(F, code, as, fr, m) /\ c \in 1..Len(code) /\ Stacked(fr, m, as[c], st)
  BY DEF Located
<1>2. Noted(as[c]) /\ Noted(as[c + 1])
  BY <1>1, NotesHere
<1>. DEFINE a == as[c]
            b == as[c + 1]
<1>3. /\ Noted(a) /\ Stacked(fr, m, a, st) /\ a.to # "back" /\ t <= Height(a)
      /\ Noted(b) /\ Height(b) + t = Height(a) + g /\ b.f = a.f /\ b.to # "back"
      /\ Topped(b, fr[m].ret, st2)
  BY <1>1, <1>2
<1>. HIDE DEF a, b
<1>4. Stacked(fr, m, b, st2)
  BY <1>1, <1>3, Shifts
<1>5. Located(F, code, as, fr, m, c + 1, st2)
  BY <1>1, <1>4 DEF Located, b
<1>. QED  BY <1>5 DEF LocatedSome

(* Where the machine is, what it does and what is noted there. *)
Stepping(F, code, as, fr, m, c, st, c2, st2) ==
  /\ CodeNoted(F, code, as)
  /\ Located(F, code, as, fr, m, c, st)
  /\ Ran(code, c, st, c2, st2)
  /\ c2 \in 1..Len(code)

LEMMA SteppingIs ==
  ASSUME NEW F, NEW code, NEW as, NEW fr, NEW m, NEW c, NEW st, NEW c2, NEW st2,
         Stepping(F, code, as, fr, m, c, st, c2, st2)
  PROVE  /\ CodeNoted(F, code, as) /\ Len(code) \in Nat
         /\ Located(F, code, as, fr, m, c, st)
         /\ Ran(code, c, st, c2, st2)
         /\ c \in 1..Len(code) /\ c2 \in 1..Len(code)
         /\ Noted(as[c]) /\ Noted(as[c + 1])
         /\ Height(as[c]) \in Nat /\ as[c].h \in Nat /\ as[c].l \in Nat /\ as[c].r \in Nat
         /\ IsSequence(st) /\ Len(st) \in Nat
         /\ Stacked(fr, m, as[c], st)
         /\ m \in Nat /\ m >= 1 /\ fr[m].base \in Nat /\ fr[m].base >= 1
         /\ Frames(F, code, as, fr, m)
<1>1. CodeNoted(F, code, as) /\ Located(F, code, as, fr, m, c, st) /\ Ran(code, c, st, c2, st2)
      /\ c2 \in 1..Len(code)
  BY DEF Stepping
<1>2. c \in 1..Len(code) /\ Stacked(fr, m, as[c], st) /\ Frames(F, code, as, fr, m)
  BY <1>1 DEF Located
<1>3. Noted(as[c]) /\ Noted(as[c + 1])
  BY <1>1, <1>2, NotesHere
<1>4. Height(as[c]) \in Nat /\ as[c].h \in Nat /\ as[c].l \in Nat /\ as[c].r \in Nat
  BY <1>3, Heights DEF Noted
<1>5. IsSequence(st) /\ Len(st) \in Nat
  BY <1>2, SequenceIs DEF Stacked
<1>6. m \in Nat /\ m >= 1
  BY <1>2 DEF Frames
<1>7. m \in 1..m
  BY <1>6
<1>8. fr[m].base \in Nat /\ fr[m].base >= 1
  BY <1>2, <1>7 DEF Frames
<1>9. Len(code) \in Nat
  BY <1>1 DEF CodeNoted
<1>. QED  BY <1>1, <1>2, <1>3, <1>4, <1>5, <1>6, <1>8, <1>9

(* An instruction that is neither a label nor a jump. *)
LEMMA StraightStays ==
  ASSUME NEW F, NEW code, NEW as, NEW fr, NEW m, NEW c, NEW st, NEW c2, NEW st2,
         Stepping(F, code, as, fr, m, c, st, c2, st2),
         Straight(code[c], as[c], as[c + 1])
  PROVE  LocatedSome(F, code, as, c2, st2)
<1>. DEFINE instr == code[c]
            a == as[c]
            b == as[c + 1]
<1>1. /\ CodeNoted(F, code, as) /\ Located(F, code, as, fr, m, c, st)
      /\ Ran(code, c, st, c2, st2) /\ c2 \in 1..Len(code)
      /\ Noted(a) /\ Noted(b) /\ Height(a) \in Nat /\ a.h \in Nat
  BY SteppingIs
<1>2. /\ a.to = "none"
      /\ instr.kind = "push" \/ (instr.kind = "opcode" /\ instr.opcode \notin {JUMP, JUMPI})
      /\ GoesOn(instr) => b = Spot(b.h, a.f) /\ Flow(instr, a.h, b.h)
  BY DEF Straight
<1>3. c2 = c + 1 /\ \E t \in Nat : \E g \in Nat :
        /\ Shifted(st, st2, t, g)
        /\ GoesOn(instr)
        /\ Flow(instr, a.h, b.h) => t <= a.h /\ b.h + t = a.h + g
  <2>1. CASE c2 = c + 1 /\ instr.kind = "push" /\ Shifted(st, st2, 0, 1)
    <3>1. GoesOn(instr)
      BY <2>1 DEF GoesOn
    <3>2. Flow(instr, a.h, b.h) => b.h = a.h + 1
      BY <2>1 DEF Flow
    <3>3. b.h \in Nat
      BY <1>1 DEF Noted
    <3>. HIDE DEF instr, a, b
    <3>4. Flow(instr, a.h, b.h) => 0 <= a.h /\ b.h + 0 = a.h + 1
      BY <1>1, <3>2, <3>3
    <3>. QED  BY <2>1, <3>1, <3>4
  <2>2. ASSUME c2 = c + 1, NEW opcode \in Moves, instr = OpcodeInstr(opcode),
               RanOpcode(opcode, st, st2)
        PROVE  \E t \in Nat : \E g \in Nat :
                 /\ Shifted(st, st2, t, g)
                 /\ GoesOn(instr)
                 /\ Flow(instr, a.h, b.h) => t <= a.h /\ b.h + t = a.h + g
    <3>1. instr.kind = "opcode" /\ instr.opcode = opcode
      BY <2>2, KindsOf
    <3>2. GoesOn(instr)
      BY <3>1 DEF GoesOn
    <3>. DEFINE t == Takes(opcode)
                g == Gives(opcode)
    <3>3. Shifted(st, st2, t, g) /\ t \in Nat /\ g \in Nat
      BY <2>2 DEF RanOpcode, Shifted
    <3>4. Flow(instr, a.h, b.h) => t <= a.h /\ b.h + t = a.h + g
      BY <2>2, <3>1 DEF Flow
    <3>. HIDE DEF instr, a, b, t, g
    <3>. QED  BY <3>2, <3>3, <3>4
  <2>3. instr # OpcodeInstr(JUMP) /\ instr # OpcodeInstr(JUMPI)
        /\ instr.kind # "labelRef" /\ instr.kind # "labelDef"
    BY <1>2, KindsOf
  <2>. QED  BY <1>1, <2>1, <2>2, <2>3 DEF Ran
<1>4. PICK t \in Nat, g \in Nat :
        /\ Shifted(st, st2, t, g)
        /\ GoesOn(instr)
        /\ Flow(instr, a.h, b.h) => t <= a.h /\ b.h + t = a.h + g
  BY <1>3
<1>5. b = Spot(b.h, a.f) /\ t <= a.h /\ b.h + t = a.h + g
  BY <1>2, <1>4
<1>6. b.to = "none" /\ b.f = a.f
  <2>. HIDE DEF instr, a, b
  <2>. QED  BY <1>5, NoteFields
<1>7. Height(a) = a.h /\ Height(b) = b.h
  BY <1>1, <1>2, <1>6, Heights
<1>8. Topped(b, fr[m].ret, st2)
  BY <1>6 DEF Topped
<1>9. a.to # "back" /\ b.to # "back" /\ t <= Height(a) /\ Height(b) + t = Height(a) + g
  BY <1>2, <1>5, <1>6, <1>7
<1>10. c + 1 \in 1..Len(code)
  BY <1>1, <1>3
<1>11. LocatedSome(F, code, as, c + 1, st2)
  BY <1>1, <1>4, <1>6, <1>8, <1>9, <1>10, GoesOnHere
<1>. QED  BY <1>3, <1>11

(* A label. *)
LEMMA MarksStays ==
  ASSUME NEW F, NEW code, NEW as, NEW fr, NEW m, NEW c, NEW st, NEW c2, NEW st2,
         Stepping(F, code, as, fr, m, c, st, c2, st2),
         Marks(code[c], as[c], as[c + 1])
  PROVE  LocatedSome(F, code, as, c2, st2)
<1>. DEFINE instr == code[c]
            a == as[c]
            b == as[c + 1]
<1>1. /\ CodeNoted(F, code, as) /\ Located(F, code, as, fr, m, c, st)
      /\ Ran(code, c, st, c2, st2) /\ c2 \in 1..Len(code)
      /\ Noted(a) /\ Height(a) \in Nat /\ IsSequence(st) /\ Len(st) \in Nat
  BY SteppingIs
<1>2. instr.kind = "labelDef" /\ a.to = "none" /\ b = a
  BY DEF Marks
<1>3. c2 = c + 1 /\ st2 = st
  <2>1. \A o : instr # OpcodeInstr(o)
    BY <1>2, KindsOf
  <2>. QED  BY <1>1, <1>2, <2>1 DEF Ran
<1>4. Shifted(st, st2, 0, 0)
  BY <1>1, <1>3 DEF Shifted
<1>5. Topped(b, fr[m].ret, st2)
  BY <1>2 DEF Topped
<1>6. a.to # "back" /\ b.to # "back" /\ 0 <= Height(a) /\ Height(b) + 0 = Height(a) + 0
      /\ b.f = a.f
  <2>. HIDE DEF instr, a, b
  <2>. QED  BY <1>1, <1>2
<1>7. c + 1 \in 1..Len(code)
  BY <1>1, <1>3
<1>8. LocatedSome(F, code, as, c + 1, st2)
  BY <1>1, <1>4, <1>5, <1>6, <1>7, GoesOnHere
<1>. QED  BY <1>3, <1>8

(* A reference to a label. *)
LEMMA RefersStays ==
  ASSUME NEW F, NEW code, NEW as, NEW fr, NEW m, NEW c, NEW st, NEW c2, NEW st2,
         Stepping(F, code, as, fr, m, c, st, c2, st2),
         Refers(code[c], as[c], as[c + 1])
  PROVE  LocatedSome(F, code, as, c2, st2)
<1>. DEFINE instr == code[c]
            a == as[c]
            b == as[c + 1]
            l == instr.label
<1>1. /\ CodeNoted(F, code, as) /\ Located(F, code, as, fr, m, c, st)
      /\ Ran(code, c, st, c2, st2) /\ c2 \in 1..Len(code)
      /\ Noted(a) /\ Noted(b) /\ Height(a) \in Nat /\ IsSequence(st) /\ Len(st) \in Nat
      /\ a.h \in Nat /\ Stacked(fr, m, a, st) /\ fr[m].base \in Nat
  BY SteppingIs
<1>2. instr.kind = "labelRef"
      /\ \/ a.to = "none" /\ b = Holding(a.h, a.f, l)
         \/ a.to = "one" /\ b = Calling(a.h, a.f, l, a.l)
  BY DEF Refers
<1>3. c2 = c + 1 /\ st2 = <<Label(l)>> \o st
  <2>1. \A o : instr # OpcodeInstr(o)
    BY <1>2, KindsOf
  <2>. QED  BY <1>1, <1>2, <2>1 DEF Ran
<1>4. Shifted(st, st2, 0, 1) /\ st2[1] = Label(l) /\ (Len(st) >= 1 => st2[2] = st[1])
  BY <1>1, <1>3, OneMore
<1>. HIDE DEF l
<1>5. /\ b.to # "back" /\ b.f = a.f /\ Height(b) + 0 = Height(a) + 1
      /\ Topped(b, fr[m].ret, st2)
  <2>1. CASE a.to = "none" /\ b = Holding(a.h, a.f, l)
    <3>1. b.to = "one" /\ b.f = a.f /\ b.h = a.h /\ b.l = l
      <4>. HIDE DEF a, b
      <4>. QED  BY <2>1, NoteFields
    <3>2. Height(b) = b.h + 1 /\ Height(a) = a.h
      BY <1>1, <2>1, <3>1, Heights
    <3>3. Topped(b, fr[m].ret, st2)
      BY <1>4, <3>1 DEF Topped
    <3>. HIDE DEF a, b
    <3>4. Height(b) + 0 = Height(a) + 1
      BY <1>1, <3>1, <3>2
    <3>. QED  BY <3>1, <3>3, <3>4
  <2>2. CASE a.to = "one" /\ b = Calling(a.h, a.f, l, a.l)
    <3>1. b.to = "two" /\ b.f = a.f /\ b.h = a.h /\ b.l = l /\ b.r = a.l
      <4>. HIDE DEF a, b
      <4>. QED  BY <2>2, NoteFields
    <3>2. Height(b) = b.h + 2 /\ Height(a) = a.h + 1
      BY <1>1, <2>2, <3>1, Heights
    <3>3. st[1] = Label(a.l) /\ Len(st) = fr[m].base + Height(a)
      BY <1>1, <2>2 DEF Stacked, Topped
    <3>. HIDE DEF a, b
    <3>4. Len(st) >= 1 /\ Height(b) + 0 = Height(a) + 1
      BY <1>1, <3>1, <3>2, <3>3
    <3>5. Topped(b, fr[m].ret, st2)
      BY <1>4, <3>1, <3>3, <3>4 DEF Topped
    <3>. QED  BY <3>1, <3>4, <3>5
  <2>. QED  BY <1>2, <2>1, <2>2
<1>6. a.to # "back" /\ 0 <= Height(a)
  <2>. HIDE DEF instr, a, b
  <2>. QED  BY <1>1, <1>2
<1>7. c + 1 \in 1..Len(code)
  BY <1>1, <1>3
<1>8. LocatedSome(F, code, as, c + 1, st2)
  BY <1>1, <1>4, <1>5, <1>6, <1>7, GoesOnHere
<1>. QED  BY <1>3, <1>8

(* A jump. *)
LEMMA JumpIs ==
  ASSUME NEW code, NEW c, NEW st, NEW c2, NEW st2, Ran(code, c, st, c2, st2),
         code[c] = OpcodeInstr(JUMP)
  PROVE  Jumped(code, st, c2, st2)
<1>1. code[c].kind = "opcode" /\ code[c].opcode = JUMP
  BY KindsOf
<1>2. \A opcode \in Moves : code[c] # OpcodeInstr(opcode)
  BY <1>1, KindsOf, JumpsApart
<1>3. code[c] # OpcodeInstr(JUMPI)
  BY <1>1, KindsOf, WrittenNumbers
<1>. QED  BY <1>1, <1>2, <1>3 DEF Ran

(* The label that comes next. *)
LEMMA NextLabelComes ==
  ASSUME NEW F, NEW code, NEW as, CodeNoted(F, code, as), NEW c \in 1..Len(code),
         NEW l \in Nat, Following(code, c, Closed) = LabelDefInstr(l)
  PROVE  c + 1 \in 1..Len(code) /\ code[c + 1] = LabelDefInstr(l)
<1>. DEFINE n == Len(code)
<1>1. n \in Nat /\ c \in 1..n
  BY DEF CodeNoted
<1>2. c < n
  <2>1. LabelDefInstr(Closed) # LabelDefInstr(l)
    BY ClosedIs
  <2>. QED  BY <2>1 DEF Following
<1>3. code[c + 1] = LabelDefInstr(l)
  BY <1>2 DEF Following
<1>. HIDE DEF n
<1>4. c + 1 \in 1..n
  BY <1>1, <1>2
<1>. QED  BY <1>3, <1>4 DEF n

(* The jump of a branch. *)
LEMMA BranchesStays ==
  ASSUME NEW F, NEW code, NEW as, NEW fr, NEW m, NEW c, NEW st, NEW c2, NEW st2,
         Stepping(F, code, as, fr, m, c, st, c2, st2),
         Branches(code[c], Following(code, c, Closed), as[c], as[c + 1])
  PROVE  LocatedSome(F, code, as, c2, st2)
<1>. DEFINE a == as[c]
            b == as[c + 1]
<1>1. /\ CodeNoted(F, code, as) /\ Located(F, code, as, fr, m, c, st)
      /\ Ran(code, c, st, c2, st2) /\ c \in 1..Len(code) /\ c2 \in 1..Len(code)
      /\ Noted(a) /\ Noted(b) /\ Height(a) \in Nat /\ IsSequence(st) /\ Len(st) \in Nat
      /\ a.h \in Nat /\ a.l \in Nat /\ Stacked(fr, m, a, st)
  BY SteppingIs
<1>2. code[c] = OpcodeInstr(JUMP) /\ a.to = "one"
      /\ Following(code, c, Closed) = LabelDefInstr(a.l) /\ b = Spot(a.h, a.f)
  BY DEF Branches
<1>3. Len(st) >= 1 /\ st2 = SubSeq(st, 2, Len(st)) /\ code[c2] = LabelDefInstr(st[1][2])
  BY <1>1, <1>2, JumpIs DEF Jumped
<1>4. c + 1 \in 1..Len(code) /\ code[c + 1] = LabelDefInstr(a.l)
  BY <1>1, <1>2, NextLabelComes
<1>5. st[1] = Label(a.l) /\ Label(a.l)[2] = a.l
  BY <1>1, <1>2 DEF Stacked, Topped, Label
<1>6. c2 = c + 1
  BY <1>1, <1>3, <1>4, <1>5 DEF CodeNoted
<1>7. Shifted(st, st2, 1, 0)
  <2>1. 1 <= Len(st) /\ 1 \in Nat /\ 1 + 1 = 2
    BY <1>1, <1>3
  <2>2. Shifted(st, SubSeq(st, 1 + 1, Len(st)), 1, 0)
    BY <1>1, <2>1, SomeFewer
  <2>. QED  BY <1>3, <2>1, <2>2
<1>8. b.to = "none" /\ b.f = a.f /\ b.h = a.h
  <2>. HIDE DEF a, b
  <2>. QED  BY <1>2, NoteFields
<1>9. Height(a) = a.h + 1 /\ Height(b) = b.h
  BY <1>1, <1>2, <1>8, Heights
<1>10. 1 <= Height(a) /\ Height(b) + 1 = Height(a) + 0
  <2>. HIDE DEF a, b
  <2>. QED  BY <1>1, <1>8, <1>9
<1>11. Topped(b, fr[m].ret, st2)
  BY <1>8 DEF Topped
<1>12. a.to # "back" /\ b.to # "back"
  BY <1>2, <1>8
<1>13. LocatedSome(F, code, as, c + 1, st2)
  BY <1>1, <1>4, <1>7, <1>8, <1>10, <1>11, <1>12, GoesOnHere
<1>. QED  BY <1>6, <1>13

(* A label is defined at k; the word on top is taken off the stack. *)
Defines(code, k, l) == k \in 1..Len(code) /\ code[k] = LabelDefInstr(l)

TookTop(st, st2) ==
  Len(st) >= 1 /\ Shifted(st, st2, 1, 0) /\ (Len(st) >= 2 => st2[1] = st[2])

(* A jump takes the label off the stack and goes there. *)
LEMMA JumpsTo ==
  ASSUME NEW F, NEW code, NEW as, NEW fr, NEW m, NEW c, NEW st, NEW c2, NEW st2,
         Stepping(F, code, as, fr, m, c, st, c2, st2), code[c] = OpcodeInstr(JUMP),
         NEW l, st[1] = Label(l), NEW k, Defines(code, k, l)
  PROVE  c2 = k /\ TookTop(st, st2)
<1>1. CodeNoted(F, code, as) /\ Ran(code, c, st, c2, st2) /\ c2 \in 1..Len(code)
      /\ IsSequence(st) /\ Len(st) \in Nat
  BY SteppingIs
<1>2. Len(st) >= 1 /\ st2 = SubSeq(st, 2, Len(st)) /\ code[c2] = LabelDefInstr(st[1][2])
  BY <1>1, JumpIs DEF Jumped
<1>3. st[1][2] = l
  BY DEF Label
<1>4. c2 = k
  BY <1>1, <1>2, <1>3 DEF CodeNoted, Defines
<1>5. 1 <= Len(st) /\ 1 \in Nat /\ 1 + 1 = 2
  BY <1>1, <1>2
<1>6. /\ Shifted(st, SubSeq(st, 1 + 1, Len(st)), 1, 0)
      /\ 1 = 1 /\ Len(st) >= 2 => SubSeq(st, 1 + 1, Len(st))[1] = st[2]
  BY <1>1, <1>5, SomeFewer
<1>. QED  BY <1>2, <1>4, <1>5, <1>6 DEF TookTop

(* The labels to return to that lie below the words that are taken stay. *)
LowerStay(fr, m, a, st, st2, t) ==
  \A j \in 2..m : \A p : (j # m \/ a.to # "back") /\ p = fr[j].base /\ p + t <= Len(st)
    => Low(st2, p) = Label(fr[j].ret)

LEMMA LabelsStay ==
  ASSUME NEW F, NEW code, NEW as, NEW fr, NEW m, Frames(F, code, as, fr, m),
         NEW a, NEW st, Stacked(fr, m, a, st),
         NEW st2, NEW t, NEW g, Shifted(st, st2, t, g)
  PROVE  LowerStay(fr, m, a, st, st2, t)
<1>. DEFINE n == Len(st)
<1>1. m \in Nat /\ t \in Nat
  BY DEF Frames, Shifted
<1>2. n \in Nat
  BY SequenceIs DEF Stacked
<1>3. ASSUME NEW j \in 2..m, j # m \/ a.to # "back", NEW p, p = fr[j].base, p + t <= n
      PROVE  Low(st2, p) = Label(fr[j].ret)
  <2>1. j \in 1..m
    BY <1>1
  <2>2. p \in Nat /\ p >= 1
    BY <1>3, <2>1 DEF Frames
  <2>3. Low(st, p) = Label(fr[j].ret)
    BY <1>3 DEF Stacked
  <2>. HIDE DEF n
  <2>4. p \in 1..(n - t)
    BY <1>1, <1>2, <1>3, <2>2
  <2>5. Low(st2, p) = Low(st, p)
    BY <2>4 DEF Shifted, n
  <2>. QED  BY <2>3, <2>5
<1>. QED  BY <1>3 DEF LowerStay

(* Frames lie above one another. *)
LEMMA FramesRise ==
  ASSUME NEW F, NEW code, NEW as, NEW fr, NEW m, Frames(F, code, as, fr, m), NEW j \in 1..m
  PROVE  fr[j].base \in Nat /\ fr[j].base >= 1 /\ (j # m => fr[j].base + 1 <= fr[m].base)
<1>1. m \in Nat /\ m >= 1
  BY DEF Frames
<1>2. m \in 1..m /\ (j # m => j < m)
  BY <1>1
<1>3. fr[j].base \in Nat /\ fr[j].base >= 1 /\ fr[m].base \in Nat
      /\ (j < m => fr[j].base < fr[m].base)
  BY <1>2 DEF Frames
<1>. DEFINE p == fr[j].base
            q == fr[m].base
<1>4. p \in Nat /\ p >= 1 /\ q \in Nat /\ (j # m => p < q)
  BY <1>2, <1>3
<1>. HIDE DEF p, q
<1>5. p \in Nat /\ p >= 1 /\ (j # m => p + 1 <= q)
  BY <1>4
<1>. QED  BY <1>5 DEF p, q

(* The frame of a call. *)
WithFrame(fr, m, frame) == [j \in 1..(m + 1) |-> IF j = m + 1 THEN frame ELSE fr[j]]

LEMMA WithFrameIs ==
  ASSUME NEW fr, NEW m \in Nat, m >= 1, NEW frame
  PROVE  /\ WithFrame(fr, m, frame)[m + 1] = frame
         /\ \A j \in 1..m : WithFrame(fr, m, frame)[j] = fr[j]
         /\ \A j \in 1..(m + 1) : j = m + 1 \/ (j \in 1..m /\ j # m + 1)
         /\ \A j \in 2..(m + 1) : j = m + 1 \/ (j \in 2..m /\ j # m + 1 /\ j - 1 \in 1..m)
         /\ \A j \in 2..m : j \in 1..m /\ j - 1 \in 1..m
         /\ m \in 1..m /\ m + 1 \in Nat /\ m + 1 >= 1 /\ (m + 1) - 1 = m /\ 1 \in 1..m
<1>1. \A j \in 1..(m + 1) : WithFrame(fr, m, frame)[j] = IF j = m + 1 THEN frame ELSE fr[j]
  BY DEF WithFrame
<1>2. m + 1 \in 1..(m + 1) /\ \A j \in 1..m : j \in 1..(m + 1) /\ j # m + 1
  OBVIOUS
<1>3. WithFrame(fr, m, frame)[m + 1] = frame /\ \A j \in 1..m : WithFrame(fr, m, frame)[j] = fr[j]
  BY <1>1, <1>2
<1>4. /\ \A j \in 1..(m + 1) : j = m + 1 \/ (j \in 1..m /\ j # m + 1)
      /\ \A j \in 2..(m + 1) : j = m + 1 \/ (j \in 2..m /\ j # m + 1 /\ j - 1 \in 1..m)
      /\ \A j \in 2..m : j \in 1..m /\ j - 1 \in 1..m
  OBVIOUS
<1>5. m \in 1..m /\ m + 1 \in Nat /\ m + 1 >= 1 /\ (m + 1) - 1 = m /\ 1 \in 1..m
  OBVIOUS
<1>. QED  BY <1>3, <1>4, <1>5

LEMMA FramesWith ==
  ASSUME NEW F, NEW code, NEW as, NEW fr, NEW m, Frames(F, code, as, fr, m),
         NEW base \in Nat, NEW g \in 2..Len(F), NEW n \in Nat, NEW ret,
         fr[m].base < base, ReturnsAre(F, g, n),
         NEW k \in 1..Len(code), code[k] = LabelDefInstr(ret),
         NEW x \in Nat, as[k] = Spot(x, fr[m].f), x + fr[m].base + 1 = base + n
  PROVE  Frames(F, code, as,
                WithFrame(fr, m, [base |-> base, f |-> g, n |-> n, ret |-> ret]), m + 1)
<1>. DEFINE frame == [base |-> base, f |-> g, n |-> n, ret |-> ret]
            fr2 == WithFrame(fr, m, frame)
            m2 == m + 1
<1>1. m \in Nat /\ m >= 1
  BY DEF Frames
<1>2. /\ fr2[m2] = frame /\ \A j \in 1..m : fr2[j] = fr[j]
      /\ \A j \in 1..m2 : j = m2 \/ (j \in 1..m /\ j # m2)
      /\ \A j \in 2..m2 : j = m2 \/ (j \in 2..m /\ j # m2 /\ j - 1 \in 1..m)
      /\ \A j \in 2..m : j \in 1..m /\ j - 1 \in 1..m
      /\ m \in 1..m /\ m2 \in Nat /\ m2 >= 1 /\ m2 - 1 = m /\ 1 \in 1..m
  BY <1>1, WithFrameIs
<1>3. frame.base = base /\ frame.f = g /\ frame.n = n /\ frame.ret = ret
  OBVIOUS
<1>. HIDE DEF frame, fr2
<1>4. fr2[1].f = 1 /\ fr2[1].base = 1
  BY <1>2 DEF Frames
<1>5. ASSUME NEW j \in 1..m2 PROVE fr2[j].base \in Nat /\ fr2[j].base >= 1
  <2>1. CASE j = m2
    <3>1. fr[m].base \in Nat
      BY <1>2 DEF Frames
    <3>2. base >= 1
      BY <3>1
    <3>. QED  BY <1>2, <1>3, <2>1, <3>2
  <2>2. CASE j \in 1..m
    BY <1>2, <2>2 DEF Frames
  <2>. HIDE DEF m2
  <2>. QED  BY <1>2, <2>1, <2>2
<1>6. ASSUME NEW i \in 1..m2, NEW j \in 1..m2, i < j PROVE fr2[i].base < fr2[j].base
  <2>1. i \in 1..m
    BY <1>1, <1>6
  <2>2. CASE j = m2
    <3>1. fr[i].base \in Nat /\ fr[m].base \in Nat /\ (i # m => fr[i].base + 1 <= fr[m].base)
      BY <1>2, <2>1, FramesRise
    <3>. DEFINE p == fr[i].base
                q == fr[m].base
    <3>2. p \in Nat /\ q \in Nat /\ (p = q \/ p + 1 <= q) /\ q < base
      BY <3>1
    <3>. HIDE DEF p, q
    <3>3. p < base
      BY <3>2
    <3>. QED  BY <1>2, <1>3, <2>1, <2>2, <3>3 DEF p
  <2>3. CASE j \in 1..m
    <3>1. fr[i].base < fr[j].base
      BY <1>6, <2>1, <2>3 DEF Frames
    <3>. QED  BY <1>2, <2>1, <2>3, <3>1
  <2>. HIDE DEF m2
  <2>. QED  BY <1>2, <2>2, <2>3
<1>7. ASSUME NEW j \in 2..m2
      PROVE  /\ fr2[j].f \in 2..Len(F)
             /\ ReturnsAre(F, fr2[j].f, fr2[j].n)
             /\ ReturnsTo(code, as, fr2, j)
  <2>1. CASE j = m2
    <3>1. fr2[j].f = g /\ fr2[j].n = n /\ fr2[j].ret = ret /\ fr2[j].base = base
          /\ j - 1 = m /\ fr2[j - 1] = fr[m]
      BY <1>2, <1>3, <2>1
    <3>2. ReturnsTo(code, as, fr2, j)
      BY <3>1 DEF ReturnsTo
    <3>. QED  BY <3>1, <3>2
  <2>2. CASE j \in 2..m
    <3>1. fr2[j] = fr[j] /\ fr2[j - 1] = fr[j - 1]
      BY <1>2, <2>2
    <3>2. /\ fr[j].f \in 2..Len(F)
          /\ ReturnsAre(F, fr[j].f, fr[j].n)
          /\ ReturnsTo(code, as, fr, j)
      BY <2>2 DEF Frames
    <3>3. ReturnsTo(code, as, fr2, j)
      BY <3>1, <3>2, Zenon DEF ReturnsTo
    <3>. QED  BY <3>1, <3>2, <3>3
  <2>. HIDE DEF m2
  <2>. QED  BY <1>2, <2>1, <2>2
<1>8. Frames(F, code, as, fr2, m2)
  <2>. HIDE DEF m2
  <2>. QED  BY <1>2, <1>4, <1>5, <1>6, <1>7 DEF Frames
<1>. QED  BY <1>8 DEF fr2, frame

(* A call. *)
LEMMA CallsStays ==
  ASSUME NEW F, NEW code, NEW as, NEW fr, NEW m, NEW c, NEW st, NEW c2, NEW st2,
         Stepping(F, code, as, fr, m, c, st, c2, st2),
         Calls(F, code[c], Following(code, c, Closed), as[c], as[c + 1])
  PROVE  LocatedSome(F, code, as, c2, st2)
<1>. DEFINE a == as[c]
            q == fr[m].base
            ret == a.r
            base == q + a.h + 1
<1>1. /\ CodeNoted(F, code, as) /\ Located(F, code, as, fr, m, c, st)
      /\ Frames(F, code, as, fr, m)
      /\ c \in 1..Len(code) /\ c2 \in 1..Len(code)
      /\ Noted(a) /\ Height(a) \in Nat /\ IsSequence(st) /\ Len(st) \in Nat
      /\ a.h \in Nat /\ a.l \in Nat /\ a.r \in Nat /\ Stacked(fr, m, a, st)
      /\ q \in Nat /\ q >= 1 /\ m \in Nat /\ m >= 1
  BY SteppingIs
<1>2. PICK g \in 2..Len(F), n \in Nat :
        /\ code[c] = OpcodeInstr(JUMP) /\ a.to = "two"
        /\ Following(code, c, Closed) = LabelDefInstr(a.r)
        /\ a.l = EntryLabel(F, g)
        /\ ReturnsAre(F, g, n)
        /\ as[c + 1] = Spot(a.h + n, a.f)
  BY DEF Calls
<1>3. PICK k \in 1..Len(code) :
        code[k] = LabelDefInstr(EntryLabel(F, g)) /\ as[k] = Spot(0, g)
  <2>1. g \in 1..Len(F)
    BY <1>1 DEF CodeNoted
  <2>. QED  BY <1>1, <2>1 DEF CodeNoted, EntryNoted
<1>4. st[1] = Label(a.l) /\ st[2] = Label(ret) /\ a.f = fr[m].f /\ Len(st) = q + Height(a)
  BY <1>1, <1>2 DEF Stacked, Topped
<1>5. c2 = k /\ Shifted(st, st2, 1, 0) /\ (Len(st) >= 2 => st2[1] = st[2])
  <2>. SUFFICES c2 = k /\ TookTop(st, st2)
    BY DEF TookTop
  <2>. DEFINE l == a.l
  <2>1. code[c] = OpcodeInstr(JUMP) /\ st[1] = Label(l) /\ Defines(code, k, l)
    BY <1>2, <1>3, <1>4 DEF Defines
  <2>. HIDE DEF a, l, ret, base
  <2>. QED  BY <2>1, JumpsTo, Zenon
<1>6. c + 1 \in 1..Len(code) /\ code[c + 1] = LabelDefInstr(ret)
  BY <1>1, <1>2, NextLabelComes
<1>7. Height(a) = a.h + 2
  BY <1>1, <1>2, Heights
<1>8. Len(st2) + 1 = Len(st) + 0 /\ IsSequence(st2) /\ Len(st2) \in Nat
  BY <1>5, SequenceIs DEF Shifted
<1>9. base \in Nat /\ q < base /\ Len(st2) = base /\ Len(st) >= 2 /\ Len(st) = base + 1
      /\ a.h + n \in Nat /\ (a.h + n) + q + 1 = base + n
  <2>. DEFINE x == a.h
              y == Height(a)
              len == Len(st)
              len2 == Len(st2)
  <2>1. /\ x \in Nat /\ y = x + 2 /\ len \in Nat /\ len2 \in Nat /\ len2 + 1 = len + 0
        /\ len = q + y /\ q \in Nat
    BY <1>1, <1>4, <1>7, <1>8
  <2>. HIDE DEF x, y, len, len2, q
  <2>2. /\ q + x + 1 \in Nat /\ q < q + x + 1 /\ len2 = q + x + 1 /\ len >= 2
        /\ len = (q + x + 1) + 1
        /\ x + n \in Nat /\ (x + n) + q + 1 = (q + x + 1) + n
    BY <2>1
  <2>. QED  BY <2>2 DEF x, len, len2
<1>. DEFINE frame == [base |-> base, f |-> g, n |-> n, ret |-> ret]
            fr2 == WithFrame(fr, m, frame)
<1>10. Frames(F, code, as, fr2, m + 1)
  <2>. DEFINE x == a.h + n
              k2 == c + 1
  <2>1. as[k2] = Spot(x, fr[m].f) /\ k2 \in 1..Len(code) /\ code[k2] = LabelDefInstr(ret)
        /\ x \in Nat /\ x + fr[m].base + 1 = base + n /\ fr[m].base < base /\ base \in Nat
        /\ ReturnsAre(F, g, n)
    BY <1>2, <1>4, <1>6, <1>9
  <2>. HIDE DEF x, k2, base, ret
  <2>. QED  BY <1>1, <2>1, FramesWith
<1>11. /\ fr2[m + 1] = frame /\ \A j \in 1..m : fr2[j] = fr[j]
       /\ \A j \in 2..(m + 1) : j = m + 1 \/ (j \in 2..m /\ j # m + 1 /\ j - 1 \in 1..m)
       /\ \A j \in 2..m : j \in 1..m
  <2>. HIDE DEF frame
  <2>. QED  BY <1>1, WithFrameIs
<1>12. frame.base = base /\ frame.f = g /\ frame.ret = ret
  OBVIOUS
<1>. HIDE DEF a, base, ret, q, frame, fr2
<1>13. Low(st2, base) = Label(ret)
  <2>1. Len(st2) + 1 - base = 1
    BY <1>9
  <2>. QED  BY <1>4, <1>5, <1>9, <2>1 DEF Low
<1>14. LowerStay(fr, m, a, st, st2, 1)
  BY <1>1, <1>5, LabelsStay
<1>15. ASSUME NEW j \in 2..(m + 1) PROVE Low(st2, fr2[j].base) = Label(fr2[j].ret)
  <2>1. CASE j = m + 1
    BY <1>11, <1>12, <1>13, <2>1
  <2>2. CASE j \in 2..m
    <3>1. j \in 1..m /\ fr2[j] = fr[j]
      BY <1>11, <2>2
    <3>2. fr[j].base \in Nat /\ (j # m => fr[j].base + 1 <= q)
      BY <1>1, <3>1, FramesRise DEF q
    <3>. DEFINE p == fr[j].base
    <3>3. p = fr[j].base /\ p \in Nat /\ (p = q \/ p + 1 <= q)
      BY <3>2 DEF q
    <3>. HIDE DEF p
    <3>4. p + 1 <= Len(st)
      <4>1. /\ p \in Nat /\ (p = q \/ p + 1 <= q) /\ q \in Nat /\ base \in Nat /\ q < base
            /\ Len(st) = base + 1
        BY <1>1, <1>9, <3>3
      <4>. QED  BY <4>1
    <3>5. a.to # "back"
      BY <1>2
    <3>6. Low(st2, p) = Label(fr[j].ret)
      BY <1>14, <2>2, <3>3, <3>4, <3>5 DEF LowerStay
    <3>. QED  BY <3>1, <3>3, <3>6
  <2>. QED  BY <1>11, <2>1, <2>2
<1>16. Stacked(fr2, m + 1, Spot(0, g), st2)
  <2>. DEFINE b == Spot(0, g)
  <2>1. b.f = g /\ b.h = 0 /\ b.to = "none" /\ Noted(b)
    BY NoteFields, SpotIsNoted
  <2>2. Height(b) = 0
    BY <2>1, Heights
  <2>. HIDE DEF b
  <2>3. Len(st2) = fr2[m + 1].base + Height(b) /\ b.f = fr2[m + 1].f
    BY <1>9, <1>11, <1>12, <2>1, <2>2
  <2>4. Topped(b, fr2[m + 1].ret, st2)
    BY <2>1 DEF Topped
  <2>5. Stacked(fr2, m + 1, b, st2)
    BY <1>8, <1>15, <2>3, <2>4 DEF Stacked
  <2>. QED  BY <2>5 DEF b
<1>17. Located(F, code, as, fr2, m + 1, c2, st2)
  BY <1>1, <1>3, <1>5, <1>10, <1>16 DEF Located
<1>. QED  BY <1>17 DEF LocatedSome

(* The exchange of the last result with the label to return to. *)
LEMMA SwapsStays ==
  ASSUME NEW F, NEW code, NEW as, NEW fr, NEW m, NEW c, NEW st, NEW c2, NEW st2,
         Stepping(F, code, as, fr, m, c, st, c2, st2),
         Swaps(code[c], as[c], as[c + 1])
  PROVE  LocatedSome(F, code, as, c2, st2)
<1>. DEFINE a == as[c]
            b == as[c + 1]
            h == a.h
            q == fr[m].base
            opcode == SWAP1 + h - 1
<1>1. /\ CodeNoted(F, code, as) /\ Located(F, code, as, fr, m, c, st)
      /\ Frames(F, code, as, fr, m) /\ Ran(code, c, st, c2, st2)
      /\ c \in 1..Len(code) /\ c2 \in 1..Len(code)
      /\ Noted(a) /\ IsSequence(st) /\ Len(st) \in Nat
      /\ Stacked(fr, m, a, st) /\ Noted(b)
      /\ q \in Nat /\ q >= 1 /\ m \in Nat /\ m >= 1
  BY SteppingIs
<1>2. a.to = "none" /\ a.f # 1 /\ h \in 1..16 /\ code[c] = OpcodeInstr(opcode)
      /\ b = Leaving(h, a.f)
  BY DEF Swaps
<1>3. b.h = h /\ b.f = a.f /\ b.to = "back"
  <2>. HIDE DEF a, b, h
  <2>. QED  BY <1>2, NoteFields
<1>. HIDE DEF a, b, h, q, opcode
<1>4. Height(a) = h /\ Height(b) = h
  BY <1>1, <1>2, <1>3, Heights DEF h
<1>5. a.f = fr[m].f /\ Len(st) = q + h
  BY <1>1, <1>4 DEF Stacked, q
<1>6. m # 1 /\ m \in 2..m
  <2>1. m # 1
    BY <1>1, <1>2, <1>5 DEF Frames
  <2>. QED  BY <1>1, <2>1
<1>7. h \in Nat /\ h >= 1 /\ h \in 1..16
  BY <1>2
<1>8. opcode \in SwapOpcodes /\ Takes(opcode) = h + 1 /\ Gives(opcode) = h + 1
  BY <1>7, SwapMoves DEF opcode
<1>9. c2 = c + 1 /\ RanOpcode(opcode, st, st2)
  <2>1. code[c].kind = "opcode" /\ code[c].opcode = opcode
    BY <1>2, KindsOf
  <2>2. opcode # JUMP /\ opcode # JUMPI
    BY <1>8, WrittenNumbers
  <2>3. code[c] # OpcodeInstr(JUMP) /\ code[c] # OpcodeInstr(JUMPI)
    BY <2>1, <2>2, KindsOf
  <2>4. \A o : code[c] = OpcodeInstr(o) => o = opcode
    BY <2>1, KindsOf
  <2>. QED  BY <1>1, <2>1, <2>3, <2>4 DEF Ran
<1>10. Shifted(st, st2, h + 1, h + 1) /\ st2[1] = st[h + 1]
  BY <1>7, <1>8, <1>9 DEF RanOpcode, opcode
<1>11. Len(st2) = Len(st) /\ IsSequence(st2)
  <2>1. IsSequence(st2) /\ Len(st2) + (h + 1) = Len(st) + (h + 1)
    BY <1>10 DEF Shifted
  <2>2. Len(st2) \in Nat
    BY <2>1, SequenceIs
  <2>. QED  BY <1>1, <1>7, <2>1, <2>2
<1>12. st2[1] = Label(fr[m].ret)
  <2>1. Low(st, q) = Label(fr[m].ret)
    BY <1>1, <1>2, <1>6 DEF Stacked, q
  <2>2. Len(st) + 1 - q = h + 1
    <3>1. q \in Nat /\ h \in Nat /\ Len(st) = q + h
      BY <1>1, <1>5, <1>7
    <3>. QED  BY <3>1
  <2>. QED  BY <1>10, <2>1, <2>2 DEF Low
<1>13. LowerStay(fr, m, a, st, st2, h + 1)
  BY <1>1, <1>10, LabelsStay
<1>14. ASSUME NEW j \in 2..m, j # m PROVE Low(st2, fr[j].base) = Label(fr[j].ret)
  <2>. DEFINE p == fr[j].base
  <2>1. j \in 1..m
    BY <1>1
  <2>2. p = fr[j].base /\ p \in Nat /\ p + 1 <= q
    BY <1>1, <1>14, <2>1, FramesRise DEF q
  <2>. HIDE DEF p
  <2>3. p + (h + 1) <= Len(st)
    <3>1. q \in Nat /\ h \in Nat /\ Len(st) = q + h /\ p \in Nat /\ p + 1 <= q
      BY <1>1, <1>5, <1>7, <2>2
    <3>. QED  BY <3>1
  <2>4. Low(st2, p) = Label(fr[j].ret)
    BY <1>13, <1>14, <2>2, <2>3 DEF LowerStay
  <2>. QED  BY <2>2, <2>4
<1>15. Topped(b, fr[m].ret, st2)
  BY <1>3, <1>12 DEF Topped
<1>16. b.f = fr[m].f /\ Len(st2) = fr[m].base + Height(b)
  BY <1>3, <1>4, <1>5, <1>11 DEF q
<1>17. Stacked(fr, m, b, st2)
  BY <1>3, <1>11, <1>14, <1>15, <1>16 DEF Stacked
<1>18. Located(F, code, as, fr, m, c2, st2)
  BY <1>1, <1>9, <1>17 DEF Located, b
<1>. QED  BY <1>18 DEF LocatedSome

LEMMA FewerFrames ==
  ASSUME NEW F, NEW code, NEW as, NEW fr, NEW m, Frames(F, code, as, fr, m), m # 1
  PROVE  Frames(F, code, as, fr, m - 1)
<1>1. m \in Nat /\ m >= 1
  BY DEF Frames
<1>2. m - 1 \in Nat /\ m - 1 >= 1 /\ (\A j \in 1..(m - 1) : j \in 1..m)
      /\ \A j \in 2..(m - 1) : j \in 2..m
  BY <1>1
<1>. DEFINE k == m - 1
<1>3. k \in Nat /\ k >= 1 /\ (\A j \in 1..k : j \in 1..m) /\ \A j \in 2..k : j \in 2..m
  BY <1>2
<1>. HIDE DEF k
<1>4. Frames(F, code, as, fr, k)
  BY <1>3 DEF Frames
<1>. QED  BY <1>4 DEF k

(* The jump to the label to return to. *)
LEMMA LeavesStays ==
  ASSUME NEW F, NEW code, NEW as, NEW fr, NEW m, NEW c, NEW st, NEW c2, NEW st2,
         Stepping(F, code, as, fr, m, c, st, c2, st2),
         Leaves(F, code[c], as[c])
  PROVE  LocatedSome(F, code, as, c2, st2)
<1>. DEFINE a == as[c]
            h == a.h
            q == fr[m].base
            l == fr[m].ret
            o == m - 1
<1>1. /\ CodeNoted(F, code, as) /\ Located(F, code, as, fr, m, c, st)
      /\ Frames(F, code, as, fr, m)
      /\ c \in 1..Len(code) /\ c2 \in 1..Len(code)
      /\ Noted(a) /\ h \in Nat /\ IsSequence(st) /\ Len(st) \in Nat
      /\ Stacked(fr, m, a, st)
      /\ q \in Nat /\ q >= 1 /\ m \in Nat /\ m >= 1
  BY SteppingIs
<1>2. code[c] = OpcodeInstr(JUMP) /\ a.f # 1 /\ Returns(F, a.f, h)
      /\ (a.to = "back" \/ (a.to = "none" /\ h = 0))
  BY DEF Leaves
<1>. HIDE DEF a, h, q, l
<1>3. Height(a) = h
  BY <1>1, <1>2, Heights DEF h
<1>4. a.f = fr[m].f /\ Len(st) = q + h
  BY <1>1, <1>3 DEF Stacked, q
<1>5. m # 1 /\ m \in 2..m /\ o \in Nat /\ o >= 1 /\ o \in 1..m /\ o # m /\ m - 1 = o
  <2>1. m # 1
    BY <1>1, <1>2, <1>4 DEF Frames
  <2>. QED  BY <1>1, <2>1
<1>6. st[1] = Label(l)
  <2>1. CASE a.to = "back"
    BY <1>1, <2>1 DEF Stacked, Topped, l
  <2>2. CASE a.to = "none" /\ h = 0
    <3>1. Low(st, q) = Label(l)
      BY <1>1, <1>5, <2>2 DEF Stacked, q, l
    <3>2. Len(st) + 1 - q = 1
      BY <1>1, <1>4, <2>2
    <3>. QED  BY <3>1, <3>2 DEF Low
  <2>. QED  BY <1>2, <2>1, <2>2
<1>7. ReturnsAre(F, fr[m].f, fr[m].n) /\ ReturnsTo(code, as, fr, m)
  BY <1>1, <1>5 DEF Frames
<1>8. h = fr[m].n
  BY <1>2, <1>4, <1>7 DEF Returns, ReturnsAre
<1>. HIDE DEF o
<1>9. PICK k \in 1..Len(code), x \in Nat :
        /\ code[k] = LabelDefInstr(l)
        /\ as[k] = Spot(x, fr[o].f)
        /\ x + fr[o].base + 1 = q + h
  BY <1>5, <1>7, <1>8 DEF ReturnsTo, l, q
<1>10. c2 = k /\ TookTop(st, st2)
  <2>1. Defines(code, k, l)
    BY <1>9 DEF Defines
  <2>. QED  BY <1>2, <1>6, <2>1, JumpsTo, Zenon
<1>11. Shifted(st, st2, 1, 0) /\ IsSequence(st2) /\ Len(st2) + 1 = Len(st) + 0
  BY <1>10 DEF TookTop, Shifted
<1>12. LowerStay(fr, m, a, st, st2, 1)
  BY <1>1, <1>11, LabelsStay
<1>13. \A j \in 2..o : j \in 2..m /\ j # m /\ j \in 1..m
  BY <1>1, <1>5
<1>14. ASSUME NEW j \in 2..o PROVE Low(st2, fr[j].base) = Label(fr[j].ret)
  <2>. DEFINE p == fr[j].base
  <2>1. p = fr[j].base /\ p \in Nat /\ p + 1 <= q
    BY <1>1, <1>13, FramesRise DEF q
  <2>. HIDE DEF p
  <2>2. p + 1 <= Len(st)
    BY <1>1, <1>4, <2>1
  <2>3. Low(st2, p) = Label(fr[j].ret)
    BY <1>12, <1>13, <2>1, <2>2 DEF LowerStay
  <2>. QED  BY <2>1, <2>3
<1>15. Stacked(fr, o, Spot(x, fr[o].f), st2)
  <2>. DEFINE b == Spot(x, fr[o].f)
              r == fr[o].base
  <2>1. b.f = fr[o].f /\ b.h = x /\ b.to = "none" /\ Noted(b)
    BY NoteFields, SpotIsNoted
  <2>2. Height(b) = x
    BY <2>1, Heights
  <2>. HIDE DEF b
  <2>3. r \in Nat /\ x + r + 1 = q + h
    BY <1>1, <1>5, <1>9, FramesRise
  <2>4. Len(st2) \in Nat
    BY <1>11, SequenceIs
  <2>. HIDE DEF r
  <2>5. Len(st2) = r + x
    BY <1>1, <1>4, <1>11, <2>3, <2>4
  <2>6. Len(st2) = fr[o].base + Height(b)
    BY <2>2, <2>5 DEF r
  <2>7. Topped(b, fr[o].ret, st2)
    BY <2>1 DEF Topped
  <2>8. Stacked(fr, o, b, st2)
    BY <1>11, <1>14, <2>1, <2>6, <2>7 DEF Stacked
  <2>. QED  BY <2>8 DEF b
<1>16. Frames(F, code, as, fr, o)
  BY <1>1, <1>5, FewerFrames
<1>17. Located(F, code, as, fr, o, c2, st2)
  BY <1>1, <1>9, <1>10, <1>15, <1>16 DEF Located
<1>. QED  BY <1>17 DEF LocatedSome

LEMMA StepStays ==
  ASSUME NEW F, NEW code, NEW as, CodeNoted(F, code, as), NEW c, NEW st,
         LocatedSome(F, code, as, c, st), NEW c2, NEW st2, Ran(code, c, st, c2, st2),
         c2 \in 1..Len(code)
  PROVE  LocatedSome(F, code, as, c2, st2)
<1>1. PICK fr, m : Located(F, code, as, fr, m, c, st)
  BY DEF LocatedSome
<1>2. Stepping(F, code, as, fr, m, c, st, c2, st2)
  BY <1>1 DEF Stepping
<1>3. c \in 1..Len(code)
  BY <1>1 DEF Located
<1>4. Goes(F, code[c], Following(code, c, Closed), as[c], as[c + 1])
  BY <1>3, NotesHere
<1>. QED  BY <1>2, <1>4, StraightStays, MarksStays, RefersStays, BranchesStays, CallsStays,
             SwapsStays, LeavesStays DEF Goes

-----------------------------------------------------------------------------
(* The inductive invariant for TrackerExact: IInv, and, as long as it is    *)
(* about the functions emitted, that the code can be annotated and that the *)
(* running machine is where and as the notes say.                           *)
Straightened == \A f \in 1..Len(Functions) : Regular(f)

Sound == Straightened /\ OnlyResultsLeft /\ ~emitter.undefined

Placed(F, code, h, emitted, pos, result, c, st) ==
  \E as : \E open :
    /\ NotesGood(F, code, h, emitted, pos, as, open)
    /\ result = "running" => LocatedSome(F, code, as, c, st)

Tracked == Placed(Functions, Code, Len(emitter.stackTracker), emittedAt, at, outcome, pc, stack)

JInv ==
  /\ IInv
  /\ emitter.undefined => outcome = "waiting"
  /\ Sound => Tracked

LEMMA TrackedIsNoted == Tracked => Notes
BY DEF Tracked, Placed, Notes, Noteworthy

LEMMA NotedIsTracked == Notes /\ outcome # "running" => Tracked
BY DEF Tracked, Placed, Notes, Noteworthy

(* Initially. *)
LEMMA InitNotes == Init => Notes
<1>. SUFFICES ASSUME Init PROVE Notes
  OBVIOUS
<1>1. Code = <<>> /\ at = <<1, 1, 0>> /\ DOMAIN emittedAt = {}
  BY DEF Init, Code, Emitter, Labelled, NewStream
<1>. DEFINE as == [k \in 1..1 |-> Spot(0, 1)]
            F == Functions
            h == Len(emitter.stackTracker)
<1>2. as[1] = Spot(0, 1) /\ Noted(as[1])
  BY SpotIsNoted
<1>. HIDE DEF as, F, h
<1>3. IsSequence(<<>>) /\ Len(<<>>) = 0
  BY Tuples
<1>4. Annotated(F, <<>>, as, Closed)
  <2>1. \A k \in 1..(0 + 1) : k = 1
    OBVIOUS
  <2>2. \A k \in 1..0 : FALSE
    OBVIOUS
  <2>. QED  BY <1>2, <1>3, <2>1, <2>2 DEF Annotated
<1>5. at[1] = 1 /\ at[2] = 1 /\ at[3] = 0 /\ 0 + 1 = 1
  BY <1>1
<1>6. SpotHere(F, <<>>, h, at, as)
  BY <1>2, <1>3, <1>5 DEF SpotHere
<1>7. EntriesNoted(F, <<>>, at, as)
  <2>1. \A g \in 1..Len(F) : ~(g < 1)
    OBVIOUS
  <2>. QED  BY <1>5, <2>1 DEF EntriesNoted
<1>8. PlacesNoted(F, <<>>, emittedAt, at, as)
  BY <1>1 DEF PlacesNoted
<1>9. NotesGood(F, <<>>, h, emittedAt, at, as, Closed)
  BY <1>3, <1>4, <1>6, <1>7, <1>8 DEF NotesGood, OpenGood
<1>. QED  BY <1>1, <1>9 DEF Notes, Noteworthy, F, h

LEMMA InitTracked == Init => JInv
<1>. SUFFICES ASSUME Init PROVE JInv
  OBVIOUS
<1>1. IInv /\ Notes
  BY InitInvariant, InitNotes
<1>2. outcome = "waiting"
  BY DEF Init, MachineIdle
<1>. QED  BY <1>1, <1>2, NotedIsTracked DEF JInv

(* What is true of the functions after an operation is emitted was true     *)
(* before.                                                                  *)
LEMMA StraightBefore ==
  ASSUME program' = program, Straightened'
  PROVE  Straightened
<1>1. Functions' = Functions
  BY DEF Functions
<1>2. ASSUME NEW f \in 1..Len(Functions) PROVE Regular(f)
  <2>1. Regular(f)'
    BY <1>1 DEF Straightened
  <2>2. UnitAt(f)' = UnitAt(f)
    BY <1>1 DEF UnitAt
  <2>. QED  BY <2>1, <2>2, Zenon DEF Regular
<1>. QED  BY <1>2 DEF Straightened

LEMMA SoundBeforeOp ==
  ASSUME IInv, EmitOp, Sound'
  PROVE  Sound
<1>1. /\ program' = program
      /\ DOMAIN emittedAt' = DOMAIN emittedAt \cup {at}
      /\ at \notin DOMAIN emittedAt
  BY EmitOpFacts
<1>2. Straightened' /\ OnlyResultsLeft' /\ ~emitter'.undefined
  BY DEF Sound
<1>3. Straightened
  BY <1>1, <1>2, StraightBefore
<1>4. ~emitter.undefined
  BY <1>2, StillUndefined
<1>5. ASSUME NEW place \in DOMAIN emittedAt
      PROVE  LET op == OpAt(UnitAt(place[1]), <<place[2], place[3]>>)
             IN  place[1] > 1 /\ op.name = "func.return" =>
                   Len(emittedAt[place].after) = Len(op.operands)
  <2>1. place \in DOMAIN emittedAt' /\ place # at
    BY <1>1
  <2>2. emittedAt'[place] = emittedAt[place]
    BY <1>1, <2>1 DEF EmitOp
  <2>3. LET op == OpAt(UnitAt(place[1]), <<place[2], place[3]>>)
        IN  place[1] > 1 /\ op.name = "func.return" =>
              Len(emittedAt'[place].after) = Len(op.operands)
    BY <1>1, <1>2, <2>1, ResultsLeft
  <2>. QED  BY <2>2, <2>3
<1>6. OnlyResultsLeft
  BY <1>5, Zenon DEF OnlyResultsLeft
<1>. QED  BY <1>3, <1>4, <1>6 DEF Sound

LEMMA SoundBefore ==
  ASSUME program' = program, emittedAt' = emittedAt,
         emitter'.undefined = emitter.undefined, Sound'
  PROVE  Sound
<1>1. Straightened' /\ OnlyResultsLeft' /\ ~emitter'.undefined
  BY DEF Sound
<1>2. Straightened
  BY <1>1, StraightBefore
<1>3. OnlyResultsLeft
  BY <1>1 DEF OnlyResultsLeft, UnitAt, Functions
<1>. QED  BY <1>1, <1>2, <1>3 DEF Sound

(* The steps of emission. *)
LEMMA EmissionWaits ==
  ASSUME JInv, Emitting, UNCHANGED machineVars
  PROVE  outcome' = "waiting"
BY DEF JInv, IInv, RunGood, machineVars

LEMMA EmitOpTracked ==
  ASSUME JInv, EmitOp
  PROVE  Sound' => Tracked'
<1>. SUFFICES ASSUME Sound' PROVE Tracked'
  OBVIOUS
<1>1. IInv /\ Emitting /\ UNCHANGED machineVars
  BY EmitOpFacts DEF JInv
<1>2. Sound
  BY <1>1, SoundBeforeOp
<1>3. Notes
  BY <1>2, TrackedIsNoted DEF JInv
<1>4. Notes'
  BY <1>1, <1>2, <1>3, EmitOpNotes DEF Sound, Straightened
<1>5. outcome' # "running"
  BY <1>1, EmissionWaits
<1>. QED  BY <1>4, <1>5 DEF Tracked, Placed, Notes, Noteworthy

LEMMA BeginTracked ==
  ASSUME JInv, BeginBlock
  PROVE  Sound' => Tracked'
<1>. SUFFICES ASSUME Sound' PROVE Tracked'
  OBVIOUS
<1>1. /\ IInv /\ Emitting /\ UNCHANGED machineVars
      /\ program' = program /\ emittedAt' = emittedAt
  BY DEF JInv, BeginBlock
<1>2. emitter'.undefined = emitter.undefined
  BY DEF BeginBlock, markBlock, Write, ResetTracker
<1>3. Sound
  BY <1>1, <1>2, SoundBefore
<1>4. Notes
  BY <1>3, TrackedIsNoted DEF JInv
<1>5. Notes'
  BY <1>1, <1>4, BeginNotes
<1>6. outcome' # "running"
  BY <1>1, EmissionWaits
<1>. QED  BY <1>5, <1>6 DEF Tracked, Placed, Notes, Noteworthy

LEMMA EndTracked ==
  ASSUME JInv, EndBlock
  PROVE  Sound' => Tracked'
<1>. SUFFICES ASSUME Sound' PROVE Tracked'
  OBVIOUS
<1>1. /\ IInv /\ Emitting /\ UNCHANGED machineVars
      /\ program' = program /\ emittedAt' = emittedAt /\ emitter' = emitter
  BY DEF JInv, EndBlock
<1>2. Sound
  BY <1>1, SoundBefore
<1>3. Notes
  BY <1>2, TrackedIsNoted DEF JInv
<1>4. Notes'
  BY <1>1, <1>3, EndNotes
<1>5. outcome' # "running"
  BY <1>1, EmissionWaits
<1>. QED  BY <1>4, <1>5 DEF Tracked, Placed, Notes, Noteworthy

(* When everything has been emitted. *)
LEMMA CodeIsNoted ==
  ASSUME IInv, ~Emitting, NEW as, NEW open,
         NotesGood(Functions, Code, Len(emitter.stackTracker), emittedAt, at, as, open)
  PROVE  CodeNoted(Functions, Code, as)
<1>. DEFINE n == Len(Functions)
            f == at[1]
<1>1. n \in Nat /\ f \in 1..(n + 1) /\ ~(f <= n)
  BY ProgramShape DEF IInv, AtGood, Emitting
<1>2. open = Closed
  BY <1>1 DEF NotesGood, OpenGood
<1>3. IsSequence(Code) /\ Annotated(Functions, Code, as, Closed)
  BY <1>2 DEF NotesGood
<1>4. Len(Code) \in Nat
  BY <1>3, SequenceIs
<1>5. \A g \in 1..n : EntryNoted(Functions, Code, as, g)
  <2>1. ASSUME NEW g \in 1..n PROVE g < f
    <3>. HIDE DEF n, f
    <3>. QED  BY <1>1
  <2>. QED  BY <2>1 DEF NotesGood, EntriesNoted
<1>6. CodeIs(Code, NextLabel, DefinedLabels)
  BY DEF IInv, StreamGood
<1>7. ASSUME NEW i \in 1..Len(Code), NEW j \in 1..Len(Code), NEW l,
             Code[i] = LabelDefInstr(l), Code[j] = LabelDefInstr(l)
      PROVE  i = j
  <2>1. ~Known(Code[i], NextLabel)
    BY <1>7, KnownDefinesNothing
  <2>2. PICK k \in DefinedLabels : Code[i] = LabelDefInstr(k)
    BY <1>6, <2>1 DEF CodeIs
  <2>3. k = l
    BY <1>7, <2>2, LabelDefsDiffer
  <2>. QED  BY <1>6, <1>7, <2>2, <2>3 DEF CodeIs
<1>. QED  BY <1>1, <1>3, <1>4, <1>5, <1>7 DEF CodeNoted

(* The machine starts at the first function. *)
LEMMA FirstFrame ==
  ASSUME NEW F, NEW code, NEW as, CodeNoted(F, code, as), Len(F) >= 1,
         NEW c \in 1..Len(code), code[c] = LabelDefInstr(0), NEW w
  PROVE  LocatedSome(F, code, as, c, <<w>>)
<1>. DEFINE fr == [j \in 1..1 |-> [base |-> 1, f |-> 1, n |-> 0, ret |-> 0]]
            st == <<w>>
            b == Spot(0, 1)
<1>1. fr[1].f = 1 /\ fr[1].base = 1
  OBVIOUS
<1>2. IsSequence(st) /\ Len(st) = 1
  BY Tuples
<1>. HIDE DEF fr, st
<1>3. 1 \in 1..Len(F)
  BY DEF CodeNoted
<1>4. PICK k \in 1..Len(code) : code[k] = LabelDefInstr(EntryLabel(F, 1)) /\ as[k] = Spot(0, 1)
  BY <1>3 DEF CodeNoted, EntryNoted
<1>5. EntryLabel(F, 1) = 0
  BY BlocksBeforeFirst DEF EntryLabel
<1>6. as[c] = b
  <2>1. k = c
    BY <1>4, <1>5 DEF CodeNoted
  <2>. QED  BY <1>4, <2>1
<1>7. b.f = 1 /\ b.h = 0 /\ b.to = "none" /\ Noted(b)
  BY NoteFields, SpotIsNoted
<1>8. Height(b) = 0
  BY <1>7, Heights
<1>. HIDE DEF b
<1>9. (\A j \in 1..1 : j = 1) /\ (\A j \in 2..1 : FALSE) /\ 1 \in Nat /\ 1 >= 1 /\ ~(1 < 1)
  OBVIOUS
<1>10. Frames(F, code, as, fr, 1)
  BY <1>1, <1>9 DEF Frames
<1>11. Topped(b, fr[1].ret, st)
  BY <1>7 DEF Topped
<1>12. Len(st) = fr[1].base + Height(b) /\ b.f = fr[1].f
  BY <1>1, <1>2, <1>7, <1>8
<1>13. Stacked(fr, 1, b, st)
  BY <1>2, <1>9, <1>11, <1>12 DEF Stacked
<1>14. Located(F, code, as, fr, 1, c, st)
  BY <1>6, <1>10, <1>13 DEF Located
<1>. QED  BY <1>14 DEF LocatedSome, st

LEMMA CallTracked ==
  ASSUME JInv, Call
  PROVE  Sound' => Tracked'
<1>. SUFFICES ASSUME Sound' PROVE Tracked'
  OBVIOUS
<1>1. /\ IInv /\ ~Emitting /\ UNCHANGED emissionVars
      /\ pc' = LabelIndex(Code, 0) /\ stack' = <<Selector>>
  BY DEF JInv, Call, StartAt
<1>2. /\ program' = program /\ at' = at /\ emitter' = emitter /\ emittedAt' = emittedAt
  BY <1>1 DEF emissionVars
<1>3. Sound
  BY <1>2, SoundBefore
<1>4. PICK as, open :
        NotesGood(Functions, Code, Len(emitter.stackTracker), emittedAt, at, as, open)
  BY <1>3 DEF JInv, Tracked, Placed
<1>5. CodeNoted(Functions, Code, as)
  BY <1>1, <1>4, CodeIsNoted
<1>6. CodeGood(NextLabel) /\ 0 \in 0..(NextLabel - 1)
  BY <1>1, AllEmitted
<1>7. LabelIndex(Code, 0) \in 1..Len(Code) /\ Code[LabelIndex(Code, 0)] = LabelDefInstr(0)
  BY <1>6, LabelLeads
<1>8. Len(Functions) >= 1
  BY <1>1, ProgramShape DEF IInv
<1>9. LocatedSome(Functions, Code, as, pc', stack')
  <2>1. pc' \in 1..Len(Code) /\ Code[pc'] = LabelDefInstr(0)
    BY <1>1, <1>7
  <2>. QED  BY <1>1, <1>5, <1>8, <2>1, FirstFrame
<1>10. Functions' = Functions /\ Code' = Code
  BY <1>2 DEF Functions, Code
<1>11. Placed(Functions, Code, Len(emitter.stackTracker), emittedAt, at, outcome', pc', stack')
  BY <1>4, <1>9 DEF Placed
<1>. QED  BY <1>2, <1>10, <1>11 DEF Tracked

LEMMA RunTracked ==
  ASSUME JInv, Run, IInv'
  PROVE  Sound' => Tracked'
<1>. SUFFICES ASSUME Sound' PROVE Tracked'
  OBVIOUS
<1>1. IInv /\ RunInstruction(Code) /\ UNCHANGED emissionVars
  BY DEF JInv, Run
<1>2. /\ program' = program /\ at' = at /\ emitter' = emitter /\ emittedAt' = emittedAt
  BY <1>1 DEF emissionVars
<1>3. Sound
  BY <1>2, SoundBefore
<1>4. Functions' = Functions /\ Code' = Code
  BY <1>2 DEF Functions, Code
<1>5. outcome = "running"
  BY <1>1, RunsRunning
<1>6. ~Emitting /\ MachineGood(NextLabel)
  BY <1>1, <1>5 DEF IInv, RunGood
<1>7. CodeGood(NextLabel)
  BY <1>1, <1>6, AllEmitted
<1>8. PICK as, open :
        /\ NotesGood(Functions, Code, Len(emitter.stackTracker), emittedAt, at, as, open)
        /\ LocatedSome(Functions, Code, as, pc, stack)
  BY <1>3, <1>5 DEF JInv, Tracked, Placed
<1>9. CodeNoted(Functions, Code, as)
  BY <1>1, <1>6, <1>8, CodeIsNoted
<1>10. ASSUME outcome' = "running" PROVE LocatedSome(Functions, Code, as, pc', stack')
  <2>1. Ran(Code, pc, stack, pc', stack')
    BY <1>1, <1>6, <1>7, <1>10, RunRan
  <2>2. pc' \in 1..Len(Code)
    BY <1>4, <1>10 DEF IInv, RunGood
  <2>. QED  BY <1>8, <1>9, <2>1, <2>2, StepStays
<1>11. Placed(Functions, Code, Len(emitter.stackTracker), emittedAt, at, outcome', pc', stack')
  BY <1>8, <1>10 DEF Placed
<1>. QED  BY <1>2, <1>4, <1>11 DEF Tracked

LEMMA StutterTracked ==
  ASSUME JInv, UNCHANGED vars
  PROVE  Sound' => Tracked'
<1>. SUFFICES ASSUME Sound' PROVE Tracked'
  OBVIOUS
<1>1. /\ program' = program /\ at' = at /\ emitter' = emitter /\ emittedAt' = emittedAt
      /\ outcome' = outcome /\ pc' = pc /\ stack' = stack
  BY DEF vars, emissionVars, machineVars
<1>2. Sound
  BY <1>1, SoundBefore
<1>3. Functions' = Functions /\ Code' = Code
  BY <1>1 DEF Functions, Code
<1>. QED  BY <1>1, <1>2, <1>3 DEF JInv, Tracked

(* Where the emission is undefined, the machine waits. *)
LEMMA UndefinedWaits ==
  ASSUME JInv, [Next]_vars
  PROVE  emitter'.undefined => outcome' = "waiting"
<1>1. CASE Emitting /\ UNCHANGED machineVars
  BY <1>1, EmissionWaits
<1>2. CASE Call
  BY <1>2 DEF Call, emissionVars
<1>3. CASE Run
  <2>1. outcome = "running" /\ emitter' = emitter
    BY <1>3, RunsRunning DEF Run, emissionVars
  <2>. QED  BY <2>1 DEF JInv
<1>4. CASE UNCHANGED vars
  BY <1>4 DEF JInv, vars, emissionVars, machineVars
<1>. QED  BY <1>1, <1>2, <1>3, <1>4 DEF Next, BeginBlock, EmitOp, EndBlock, Over

LEMMA NextTracked == JInv /\ [Next]_vars => JInv'
<1>. SUFFICES ASSUME JInv, [Next]_vars PROVE JInv'
  OBVIOUS
<1>1. IInv'
  BY NextKeeps DEF JInv
<1>2. emitter'.undefined => outcome' = "waiting"
  BY UndefinedWaits
<1>3. Sound' => Tracked'
  BY <1>1, BeginTracked, EmitOpTracked, EndTracked, CallTracked, RunTracked, StutterTracked
     DEF Next, Over
<1>. QED  BY <1>1, <1>2, <1>3 DEF JInv

(* In every state the code is annotated, and the machine, while it runs on  *)
(* code that the EVM finds as it was written, is as noted.                  *)
THEOREM CodeAnnotated == Spec => []JInv
BY InitTracked, NextTracked, PTL DEF Spec

(* The words of the first function and the selector. *)
AboveSelector(st, h) == Len(st) = h + 1

(* The frame of the first function is the lowest one. *)
LEMMA FirstIsLowest ==
  ASSUME NEW F, NEW code, NEW as, NEW c, NEW st, LocatedSome(F, code, as, c, st),
         NEW h \in Nat, as[c] = Spot(h, 1)
  PROVE  AboveSelector(st, h)
<1>. DEFINE a == as[c]
<1>1. PICK fr, m : Located(F, code, as, fr, m, c, st)
  BY DEF LocatedSome
<1>2. Frames(F, code, as, fr, m) /\ Stacked(fr, m, a, st)
  BY <1>1 DEF Located
<1>3. a = Spot(h, 1)
  OBVIOUS
<1>. HIDE DEF a
<1>4. a.h = h /\ a.f = 1 /\ a.to = "none" /\ Noted(a)
  BY <1>3, NoteFields, SpotIsNoted
<1>5. Height(a) = h /\ fr[m].f = 1 /\ Len(st) = fr[m].base + Height(a)
  BY <1>2, <1>4, Heights DEF Stacked
<1>6. m = 1
  <2>1. m \in Nat /\ m >= 1
    BY <1>2 DEF Frames
  <2>2. ASSUME m # 1 PROVE FALSE
    <3>1. m \in 2..m
      BY <2>1, <2>2
    <3>2. fr[m].f \in 2..Len(F)
      BY <1>2, <3>1 DEF Frames
    <3>. QED  BY <1>5, <3>2
  <2>. QED  BY <2>2
<1>7. fr[m].base = 1
  BY <1>2, <1>6 DEF Frames
<1>. QED  BY <1>5, <1>7 DEF AboveSelector

LEMMA TrackedIsExact == JInv => TrackerExact
<1>. SUFFICES ASSUME JInv, Straightened, OnlyResultsLeft, NEW place \in DOMAIN emittedAt,
                     outcome = "running", place[1] = 1, pc = emittedAt[place].start
              PROVE  Len(stack) = Len(emittedAt[place].tracker) + 1
  BY DEF TrackerExact, Straightened
<1>1. Sound
  BY DEF Sound, JInv
<1>2. PICK as, open :
        /\ NotesGood(Functions, Code, Len(emitter.stackTracker), emittedAt, at, as, open)
        /\ LocatedSome(Functions, Code, as, pc, stack)
  BY <1>1 DEF JInv, Tracked, Placed
<1>. DEFINE h == Len(emittedAt[place].tracker)
<1>3. as[pc] = Spot(h, 1)
  BY <1>2 DEF NotesGood, PlacesNoted, PlaceNoted
<1>4. h \in Nat
  <2>1. CodeNoted(Functions, Code, as)
    <3>1. IInv /\ ~Emitting
      BY DEF JInv, IInv, RunGood
    <3>. QED  BY <1>2, <3>1, CodeIsNoted
  <2>2. pc \in 1..Len(Code)
    BY <1>2 DEF LocatedSome, Located
  <2>3. Noted(as[pc])
    BY <2>1, <2>2, NotesHere
  <2>. HIDE DEF h
  <2>. QED  BY <1>3, <2>3, NoteFields DEF Noted
<1>. HIDE DEF h
<1>5. Len(stack) = h + 1
  <2>1. LocatedSome(Functions, Code, as, pc, stack)
    BY <1>2
  <2>. DEFINE F == Functions
              code == Code
  <2>. HIDE DEF F, code
  <2>2. LocatedSome(F, code, as, pc, stack)
    BY <2>1 DEF F, code
  <2>3. AboveSelector(stack, h)
    BY <1>3, <1>4, <2>2, FirstIsLowest, Zenon
  <2>. QED  BY <2>3 DEF AboveSelector
<1>. QED  BY <1>5 DEF h

(* TrackerExact, for any programs: whenever the machine comes to an         *)
(* operation of the function that was called, and bytes have been missing   *)
(* nowhere before it, the stack holds the selector and as many words as the *)
(* emitter's tracker held there.  By CodeFound bytes are missing only if a  *)
(* constant other than zero is computed again (or more than 112 values are  *)
(* returned); for all other programs this is so in whole executions.        *)
THEOREM TrackerIsExact == Spec => []TrackerExact
<1>1. Spec => []JInv
  BY CodeAnnotated
<1>. QED  BY <1>1, TrackedIsExact, PTL
=============================================================================
