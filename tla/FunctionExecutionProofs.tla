----------------------- MODULE FunctionExecutionProofs -----------------------
(***************************************************************************)
(* Proofs about FunctionExecution: for all programs that satisfy            *)
(* ProgramsAssumption, of any size.                                         *)
(***************************************************************************)
EXTENDS FunctionExecution, FiniteSetTheorems, SequenceTheorems,
        WellFoundedInduction, TLAPS

-----------------------------------------------------------------------------
(* Opcodes.  Different names have different numbers: those of a row because *)
(* a row numbers its names, those of different rows because the rows do not *)
(* overlap.                                                                 *)

LEMMA RowNumbers ==
  ASSUME NEW first \in Nat, NEW names, Len(names) \in Nat,
         NEW name \in DOMAIN Row(first, names)
  PROVE  /\ Row(first, names)[name] \in first..(first - 1 + Len(names))
         /\ names[Row(first, names)[name] - first + 1] = name
<1>. DEFINE i == CHOOSE j \in 1..Len(names) : names[j] = name
<1>1. name \in {names[j] : j \in 1..Len(names)} /\ Row(first, names)[name] = first - 1 + i
  BY DEF Row
<1>2. i \in 1..Len(names) /\ names[i] = name
  BY <1>1
<1>3. Row(first, names)[name] - first + 1 = i
  <2>. HIDE DEF i
  <2>. QED  BY <1>1, <1>2
<1>. HIDE DEF i
<1>. QED  BY <1>1, <1>2, <1>3

LEMMA RowInjective ==
  ASSUME NEW first \in Nat, NEW names, Len(names) \in Nat,
         NEW x \in DOMAIN Row(first, names), NEW y \in DOMAIN Row(first, names),
         Row(first, names)[x] = Row(first, names)[y]
  PROVE  x = y
BY RowNumbers

(* f holds different numbers between low and high.                          *)
Numbers(f, low, high) ==
  /\ \A x \in DOMAIN f : f[x] \in low..high
  /\ \A x, y \in DOMAIN f : f[x] = f[y] => x = y

LEMMA RowIsNumbers ==
  ASSUME NEW first \in Nat, NEW last \in Nat, NEW names,
         Len(names) \in Nat, first - 1 + Len(names) <= last
  PROVE  Numbers(Row(first, names), first, last)
<1>1. ASSUME NEW x \in DOMAIN Row(first, names)
      PROVE  Row(first, names)[x] \in first..last
  BY RowNumbers
<1>. QED  BY <1>1, RowInjective DEF Numbers

LEMMA NumbersJoin ==
  ASSUME NEW f, NEW g, NEW a \in Nat, NEW b \in Nat, NEW c \in Nat, NEW d \in Nat,
         Numbers(f, a, b), Numbers(g, c, d), a <= b, b < c, c <= d
  PROVE  Numbers(Joined(f, g), a, d)
<1>. DEFINE h == Joined(f, g)
<1>1. /\ DOMAIN h = DOMAIN f \cup DOMAIN g
      /\ \A x \in DOMAIN f : h[x] = f[x]
      /\ \A x \in DOMAIN h : x \notin DOMAIN f => x \in DOMAIN g /\ h[x] = g[x]
  BY DEF Joined
<1>. HIDE DEF h
<1>2. ASSUME NEW x \in DOMAIN f PROVE h[x] \in a..b /\ h[x] \in a..d /\ h[x] < c
  BY <1>1 DEF Numbers
<1>3. ASSUME NEW x \in DOMAIN h, x \notin DOMAIN f PROVE h[x] \in c..d /\ h[x] \in a..d /\ h[x] >= c
  <2>1. x \in DOMAIN g /\ h[x] = g[x]
    BY <1>1, <1>3
  <2>2. h[x] \in c..d
    BY <2>1 DEF Numbers
  <2>. QED  BY <2>2
<1>4. ASSUME NEW x \in DOMAIN h PROVE h[x] \in a..d
  BY <1>2, <1>3
<1>5. ASSUME NEW x \in DOMAIN h, NEW y \in DOMAIN h, h[x] = h[y] PROVE x = y
  <2>1. CASE x \in DOMAIN f /\ y \in DOMAIN f
    BY <1>1, <1>5, <2>1 DEF Numbers
  <2>2. CASE x \notin DOMAIN f /\ y \notin DOMAIN f
    BY <1>1, <1>5, <2>2 DEF Numbers
  <2>3. CASE x \in DOMAIN f /\ y \notin DOMAIN f
    BY <1>2, <1>3, <1>5, <2>3
  <2>4. CASE x \notin DOMAIN f /\ y \in DOMAIN f
    BY <1>2, <1>3, <1>5, <2>4
  <2>. QED  BY <2>1, <2>2, <2>3, <2>4
<1>6. Numbers(h, a, d)
  BY <1>4, <1>5 DEF Numbers
<1>. QED  BY <1>6 DEF h

LEMMA OpcodeNumbers ==
  /\ \A x \in DOMAIN Opcode : Opcode[x] \in 0..255 /\ Opcode[x] \notin 128..159
                              /\ (x # "PUSH32" => Opcode[x] \notin 96..127)
  /\ \A x, y \in DOMAIN Opcode : Opcode[x] = Opcode[y] => x = y
<1>1. Numbers(ArithmeticRow, 0, 15)
  <2>. DEFINE names == <<"STOP", "ADD", "MUL", "SUB", "DIV", "SDIV", "MOD", "SMOD",
                       "ADDMOD", "MULMOD", "EXP", "SIGNEXTEND">>
  <2>1. Len(names) = 12 /\ ArithmeticRow = Row(0, names)
    BY DEF ArithmeticRow
  <2>. HIDE DEF names
  <2>2. 0 \in Nat /\ 15 \in Nat /\ Len(names) \in Nat /\ 0 - 1 + Len(names) <= 15
    BY <2>1
  <2>. QED  BY <2>1, <2>2, RowIsNumbers, Zenon
<1>2. Numbers(ComparisonRow, 16, 31)
  <2>. DEFINE names == <<"LT", "GT", "SLT", "SGT", "EQ", "ISZERO", "AND", "OR", "XOR",
                       "NOT", "BYTE", "SHL", "SHR", "SAR", "CLZ">>
  <2>1. Len(names) = 15 /\ ComparisonRow = Row(16, names)
    BY DEF ComparisonRow
  <2>. HIDE DEF names
  <2>2. 16 \in Nat /\ 31 \in Nat /\ Len(names) \in Nat /\ 16 - 1 + Len(names) <= 31
    BY <2>1
  <2>. QED  BY <2>1, <2>2, RowIsNumbers, Zenon
<1>3. Numbers(KeccakRow, 32, 32)
  <2>. DEFINE names == <<"KECCAK256">>
  <2>1. Len(names) = 1 /\ KeccakRow = Row(32, names)
    BY DEF KeccakRow
  <2>. HIDE DEF names
  <2>2. 32 \in Nat /\ 32 \in Nat /\ Len(names) \in Nat /\ 32 - 1 + Len(names) <= 32
    BY <2>1
  <2>. QED  BY <2>1, <2>2, RowIsNumbers, Zenon
<1>4. Numbers(EnvironmentRow, 48, 63)
  <2>. DEFINE names == <<"ADDRESS", "BALANCE", "ORIGIN", "CALLER", "CALLVALUE",
                       "CALLDATALOAD", "CALLDATASIZE", "CALLDATACOPY", "CODESIZE",
                       "CODECOPY", "GASPRICE", "EXTCODESIZE", "EXTCODECOPY",
                       "RETURNDATASIZE", "RETURNDATACOPY", "EXTCODEHASH">>
  <2>1. Len(names) = 16 /\ EnvironmentRow = Row(48, names)
    BY DEF EnvironmentRow
  <2>. HIDE DEF names
  <2>2. 48 \in Nat /\ 63 \in Nat /\ Len(names) \in Nat /\ 48 - 1 + Len(names) <= 63
    BY <2>1
  <2>3. Numbers(Row(48, names), 48, 63)
    BY <2>2, RowIsNumbers, Zenon
  <2>. QED  BY <2>1, <2>3, Zenon
<1>5. Numbers(BlockRow, 64, 79)
  <2>. DEFINE names == <<"BLOCKHASH", "COINBASE", "TIMESTAMP", "NUMBER", "PREVRANDAO",
                       "GASLIMIT", "CHAINID", "SELFBALANCE", "BASEFEE", "BLOBHASH",
                       "BLOBBASEFEE">>
  <2>1. Len(names) = 11 /\ BlockRow = Row(64, names)
    BY DEF BlockRow
  <2>. HIDE DEF names
  <2>2. 64 \in Nat /\ 79 \in Nat /\ Len(names) \in Nat /\ 64 - 1 + Len(names) <= 79
    BY <2>1
  <2>3. Numbers(Row(64, names), 64, 79)
    BY <2>2, RowIsNumbers, Zenon
  <2>. QED  BY <2>1, <2>3, Zenon
<1>6. Numbers(MachineRow, 80, 95)
  <2>. DEFINE names == <<"POP", "MLOAD", "MSTORE", "MSTORE8", "SLOAD", "SSTORE", "JUMP",
                       "JUMPI", "PC", "MSIZE", "GAS", "JUMPDEST", "TLOAD", "TSTORE",
                       "MCOPY", "PUSH0">>
  <2>1. Len(names) = 16 /\ MachineRow = Row(80, names)
    BY DEF MachineRow
  <2>. HIDE DEF names
  <2>2. 80 \in Nat /\ 95 \in Nat /\ Len(names) \in Nat /\ 80 - 1 + Len(names) <= 95
    BY <2>1
  <2>3. Numbers(Row(80, names), 80, 95)
    BY <2>2, RowIsNumbers, Zenon
  <2>. QED  BY <2>1, <2>3, Zenon
<1>7. Numbers([PUSH32 |-> PUSH32], 127, 127)
  BY DEF Numbers, PUSH32
<1>8. Numbers(LogRow, 160, 164)
  <2>. DEFINE names == <<"LOG0", "LOG1", "LOG2", "LOG3", "LOG4">>
  <2>1. Len(names) = 5 /\ LogRow = Row(160, names)
    BY DEF LogRow
  <2>. HIDE DEF names
  <2>2. 160 \in Nat /\ 164 \in Nat /\ Len(names) \in Nat /\ 160 - 1 + Len(names) <= 164
    BY <2>1
  <2>3. Numbers(Row(160, names), 160, 164)
    BY <2>2, RowIsNumbers, Zenon
  <2>. QED  BY <2>1, <2>3, Zenon
<1>9. Numbers(CallRow, 240, 249)
  <2>. DEFINE names == <<"CREATE", "CALL", "CALLCODE", "RETURN", "DELEGATECALL", "CREATE2">>
              first == 240
              last == 249
  <2>1. Len(names) = 6 /\ CallRow = Row(first, names)
    BY DEF CallRow
  <2>. HIDE DEF names
  <2>2. first \in Nat /\ last \in Nat /\ Len(names) \in Nat /\ first - 1 + Len(names) <= last
    BY <2>1
  <2>. HIDE DEF first, last
  <2>3. Numbers(Row(first, names), first, last)
    BY <2>2, RowIsNumbers, Zenon
  <2>4. Numbers(CallRow, first, last)
    BY <2>1, <2>3, Zenon
  <2>. QED  BY <2>4 DEF first, last
<1>10. Numbers(EndRow, 250, 255)
  BY DEF Numbers, EndRow
<1>. DEFINE low  == Joined(Joined(ArithmeticRow, ComparisonRow), Joined(KeccakRow, EnvironmentRow))
            mid  == Joined(Joined(BlockRow, MachineRow), [PUSH32 |-> PUSH32])
            high == Joined(Joined(LogRow, CallRow), EndRow)
<1>11. Numbers(low, 0, 63)
  <2>1. Numbers(Joined(ArithmeticRow, ComparisonRow), 0, 31)
    BY <1>1, <1>2, NumbersJoin
  <2>2. Numbers(Joined(KeccakRow, EnvironmentRow), 32, 63)
    BY <1>3, <1>4, NumbersJoin
  <2>. QED  BY <2>1, <2>2, NumbersJoin
<1>19. Numbers(Joined(BlockRow, MachineRow), 64, 95)
  BY <1>5, <1>6, NumbersJoin
<1>12. Numbers(mid, 64, 127)
  BY <1>19, <1>7, NumbersJoin
<1>20. ASSUME NEW x \in DOMAIN mid, x # "PUSH32" PROVE mid[x] \in 64..95
  <2>. DEFINE rows == Joined(BlockRow, MachineRow)
              push == [PUSH32 |-> PUSH32]
  <2>1. x \in DOMAIN rows => mid[x] = rows[x]
    BY DEF Joined
  <2>2. x \in DOMAIN rows
    <3>1. DOMAIN mid = DOMAIN rows \cup DOMAIN push
      BY DEF Joined
    <3>2. DOMAIN push = {"PUSH32"}
      OBVIOUS
    <3>. HIDE DEF mid, rows, push
    <3>. QED  BY <1>20, <3>1, <3>2
  <2>. HIDE DEF mid
  <2>. QED  BY <1>19, <2>1, <2>2 DEF Numbers
<1>13. Numbers(high, 160, 255)
  <2>1. Numbers(Joined(LogRow, CallRow), 160, 249)
    BY <1>8, <1>9, NumbersJoin
  <2>. QED  BY <2>1, <1>10, NumbersJoin
<1>14. Opcode = Joined(low, Joined(mid, high))
  BY DEF Opcode
<1>. HIDE DEF low, mid, high
<1>15. Numbers(Joined(mid, high), 64, 255)
  BY <1>12, <1>13, NumbersJoin
<1>16. Numbers(Opcode, 0, 255)
  BY <1>11, <1>14, <1>15, NumbersJoin
<1>17. ASSUME NEW x \in DOMAIN Opcode
       PROVE  /\ Opcode[x] \in 0..255 /\ Opcode[x] \notin 128..159
              /\ x # "PUSH32" => Opcode[x] \notin 96..127
  <2>1. CASE x \in DOMAIN low
    <3>1. Opcode[x] = low[x]
      BY <1>14, <1>17, <2>1 DEF Joined
    <3>. QED  BY <1>11, <2>1, <3>1 DEF Numbers
  <2>2. CASE x \notin DOMAIN low /\ x \in DOMAIN mid
    <3>1. Opcode[x] = mid[x]
      BY <1>14, <1>17, <2>2 DEF Joined
    <3>. QED  BY <1>12, <1>20, <2>2, <3>1 DEF Numbers
  <2>3. CASE x \notin DOMAIN low /\ x \notin DOMAIN mid
    <3>1. x \in DOMAIN high /\ Opcode[x] = high[x]
      BY <1>14, <1>17, <2>3 DEF Joined
    <3>. QED  BY <1>13, <3>1 DEF Numbers
  <2>. QED  BY <2>1, <2>2, <2>3
<1>18. \A x, y \in DOMAIN Opcode : Opcode[x] = Opcode[y] => x = y
  BY <1>16 DEF Numbers
<1>. QED  BY <1>17, <1>18

(* The names in the rows. *)
LEMMA RowNames ==
  ASSUME NEW first, NEW names
  PROVE  DOMAIN Row(first, names) = {names[i] : i \in 1..Len(names)}
BY DEF Row

LEMMA ArithmeticRowNames ==
  DOMAIN ArithmeticRow = {"STOP", "ADD", "MUL", "SUB", "DIV", "SDIV", "MOD",
                          "SMOD", "ADDMOD", "MULMOD", "EXP", "SIGNEXTEND"}
<1>. DEFINE names ==
              <<"STOP", "ADD", "MUL", "SUB", "DIV", "SDIV", "MOD", "SMOD",
                "ADDMOD", "MULMOD", "EXP", "SIGNEXTEND">>
<1>1. DOMAIN ArithmeticRow = {names[i] : i \in 1..12}
  <2>1. ArithmeticRow = Row(0, names) /\ Len(names) = 12
    BY DEF ArithmeticRow
  <2>. HIDE DEF names
  <2>2. DOMAIN Row(0, names) = {names[i] : i \in 1..Len(names)}
    BY RowNames
  <2>. QED  BY <2>1, <2>2
<1>. QED  BY <1>1

LEMMA ComparisonRowNames ==
  DOMAIN ComparisonRow = {"LT", "GT", "SLT", "SGT", "EQ", "ISZERO", "AND", "OR",
                          "XOR", "NOT", "BYTE", "SHL", "SHR", "SAR", "CLZ"}
<1>. DEFINE names ==
              <<"LT", "GT", "SLT", "SGT", "EQ", "ISZERO", "AND", "OR", "XOR",
                "NOT", "BYTE", "SHL", "SHR", "SAR", "CLZ">>
<1>1. DOMAIN ComparisonRow = {names[i] : i \in 1..15}
  <2>1. ComparisonRow = Row(16, names) /\ Len(names) = 15
    BY DEF ComparisonRow
  <2>. HIDE DEF names
  <2>2. DOMAIN Row(16, names) = {names[i] : i \in 1..Len(names)}
    BY RowNames
  <2>. QED  BY <2>1, <2>2
<1>. QED  BY <1>1

LEMMA KeccakRowNames ==
  DOMAIN KeccakRow = {"KECCAK256"}
<1>. DEFINE names ==
              <<"KECCAK256">>
<1>1. DOMAIN KeccakRow = {names[i] : i \in 1..1}
  <2>1. KeccakRow = Row(32, names) /\ Len(names) = 1
    BY DEF KeccakRow
  <2>. HIDE DEF names
  <2>2. DOMAIN Row(32, names) = {names[i] : i \in 1..Len(names)}
    BY RowNames
  <2>. QED  BY <2>1, <2>2
<1>. QED  BY <1>1

LEMMA EnvironmentRowNames ==
  DOMAIN EnvironmentRow = {"ADDRESS", "BALANCE", "ORIGIN", "CALLER", "CALLVALUE",
                           "CALLDATALOAD", "CALLDATASIZE", "CALLDATACOPY",
                           "CODESIZE", "CODECOPY", "GASPRICE", "EXTCODESIZE",
                           "EXTCODECOPY", "RETURNDATASIZE", "RETURNDATACOPY",
                           "EXTCODEHASH"}
<1>. DEFINE names ==
              <<"ADDRESS", "BALANCE", "ORIGIN", "CALLER", "CALLVALUE",
                "CALLDATALOAD", "CALLDATASIZE", "CALLDATACOPY", "CODESIZE",
                "CODECOPY", "GASPRICE", "EXTCODESIZE", "EXTCODECOPY",
                "RETURNDATASIZE", "RETURNDATACOPY", "EXTCODEHASH">>
<1>1. DOMAIN EnvironmentRow = {names[i] : i \in 1..16}
  <2>1. EnvironmentRow = Row(48, names) /\ Len(names) = 16
    BY DEF EnvironmentRow
  <2>. HIDE DEF names
  <2>2. DOMAIN Row(48, names) = {names[i] : i \in 1..Len(names)}
    BY RowNames
  <2>. QED  BY <2>1, <2>2
<1>. QED  BY <1>1

LEMMA BlockRowNames ==
  DOMAIN BlockRow = {"BLOCKHASH", "COINBASE", "TIMESTAMP", "NUMBER", "PREVRANDAO",
                     "GASLIMIT", "CHAINID", "SELFBALANCE", "BASEFEE", "BLOBHASH",
                     "BLOBBASEFEE"}
<1>. DEFINE names ==
              <<"BLOCKHASH", "COINBASE", "TIMESTAMP", "NUMBER", "PREVRANDAO",
                "GASLIMIT", "CHAINID", "SELFBALANCE", "BASEFEE", "BLOBHASH",
                "BLOBBASEFEE">>
<1>1. DOMAIN BlockRow = {names[i] : i \in 1..11}
  <2>1. BlockRow = Row(64, names) /\ Len(names) = 11
    BY DEF BlockRow
  <2>. HIDE DEF names
  <2>2. DOMAIN Row(64, names) = {names[i] : i \in 1..Len(names)}
    BY RowNames
  <2>. QED  BY <2>1, <2>2
<1>. QED  BY <1>1

LEMMA MachineRowNames ==
  DOMAIN MachineRow = {"POP", "MLOAD", "MSTORE", "MSTORE8", "SLOAD", "SSTORE",
                       "JUMP", "JUMPI", "PC", "MSIZE", "GAS", "JUMPDEST", "TLOAD",
                       "TSTORE", "MCOPY", "PUSH0"}
<1>. DEFINE names ==
              <<"POP", "MLOAD", "MSTORE", "MSTORE8", "SLOAD", "SSTORE", "JUMP",
                "JUMPI", "PC", "MSIZE", "GAS", "JUMPDEST", "TLOAD", "TSTORE",
                "MCOPY", "PUSH0">>
<1>1. DOMAIN MachineRow = {names[i] : i \in 1..16}
  <2>1. MachineRow = Row(80, names) /\ Len(names) = 16
    BY DEF MachineRow
  <2>. HIDE DEF names
  <2>2. DOMAIN Row(80, names) = {names[i] : i \in 1..Len(names)}
    BY RowNames
  <2>. QED  BY <2>1, <2>2
<1>. QED  BY <1>1

LEMMA LogRowNames ==
  DOMAIN LogRow = {"LOG0", "LOG1", "LOG2", "LOG3", "LOG4"}
<1>. DEFINE names ==
              <<"LOG0", "LOG1", "LOG2", "LOG3", "LOG4">>
<1>1. DOMAIN LogRow = {names[i] : i \in 1..5}
  <2>1. LogRow = Row(160, names) /\ Len(names) = 5
    BY DEF LogRow
  <2>. HIDE DEF names
  <2>2. DOMAIN Row(160, names) = {names[i] : i \in 1..Len(names)}
    BY RowNames
  <2>. QED  BY <2>1, <2>2
<1>. QED  BY <1>1

LEMMA CallRowNames ==
  DOMAIN CallRow = {"CREATE", "CALL", "CALLCODE", "RETURN", "DELEGATECALL",
                    "CREATE2"}
<1>. DEFINE names ==
              <<"CREATE", "CALL", "CALLCODE", "RETURN", "DELEGATECALL", "CREATE2">>
<1>1. DOMAIN CallRow = {names[i] : i \in 1..6}
  <2>. DEFINE first == 240
  <2>1. CallRow = Row(first, names) /\ Len(names) = 6
    BY DEF CallRow
  <2>. HIDE DEF names, first
  <2>2. DOMAIN Row(first, names) = {names[i] : i \in 1..Len(names)}
    BY RowNames
  <2>. QED  BY <2>1, <2>2
<1>. QED  BY <1>1


-----------------------------------------------------------------------------
(* The classes of opcodes.                                                  *)

ComputingNames == UNION {Computing[n] : n \in 1..8}
ConsumingNames == UNION {Consuming[n] : n \in 1..7}
EndingNames    == UNION {Ending[n] : n \in 1..3}

LEMMA Classes ==
  /\ DOMAIN Computes = {Opcode[name] : name \in ComputingNames}
  /\ DOMAIN Consumes = {Opcode[name] : name \in ConsumingNames}
  /\ DOMAIN Ends = {Opcode[name] : name \in EndingNames}
<1>1. ASSUME NEW rows, NEW n \in Nat, DOMAIN rows = 1..n
      PROVE  DOMAIN Arities(rows) = {Opcode[name] : name \in UNION {rows[k] : k \in 1..n}}
  BY <1>1 DEF Arities, Range
<1>2. DOMAIN Computing = 1..8 /\ DOMAIN Consuming = 1..7 /\ DOMAIN Ending = 1..3
  BY DEF Computing, Consuming, Ending
<1>3. DOMAIN Computes = {Opcode[name] : name \in ComputingNames}
  BY <1>1, <1>2 DEF Computes, ComputingNames
<1>4. DOMAIN Consumes = {Opcode[name] : name \in ConsumingNames}
  BY <1>1, <1>2 DEF Consumes, ConsumingNames
<1>5. DOMAIN Ends = {Opcode[name] : name \in EndingNames}
  BY <1>1, <1>2 DEF Ends, EndingNames
<1>. QED  BY <1>3, <1>4, <1>5

LEMMA ArityBound ==
  ASSUME NEW rows, Len(rows) \in Nat, DOMAIN rows = 1..Len(rows),
         NEW x \in DOMAIN Arities(rows)
  PROVE  Arities(rows)[x] \in 0..(Len(rows) - 1)
<1>1. PICK name \in UNION Range(rows) : Opcode[name] = x
  BY DEF Arities
<1>2. PICK k \in 1..Len(rows) : name \in rows[k]
  BY <1>1 DEF Range
<1>. DEFINE row == CHOOSE m \in 1..Len(rows) : \E nm \in rows[m] : Opcode[nm] = x
<1>3. row \in 1..Len(rows)
  BY <1>1, <1>2
<1>4. Arities(rows)[x] = row - 1
  BY DEF Arities
<1>. HIDE DEF row
<1>. QED  BY <1>3, <1>4

LEMMA ArityNumbers ==
  /\ \A x \in DOMAIN Computes : Computes[x] \in 0..7
  /\ \A x \in DOMAIN Consumes : Consumes[x] \in 0..6
  /\ \A x \in DOMAIN Ends : Ends[x] \in 0..2
<1>1. ASSUME NEW x \in DOMAIN Computes PROVE Computes[x] \in 0..7
  <2>1. Len(Computing) \in Nat /\ DOMAIN Computing = 1..Len(Computing) /\ Len(Computing) = 8
    BY DEF Computing
  <2>2. Arities(Computing)[x] \in 0..(Len(Computing) - 1)
    <3>1. x \in DOMAIN Arities(Computing)
      BY <1>1 DEF Computes
    <3>. QED  BY <2>1, <3>1, ArityBound, Zenon
  <2>. QED  BY <2>1, <2>2 DEF Computes
<1>2. ASSUME NEW x \in DOMAIN Consumes PROVE Consumes[x] \in 0..6
  <2>1. Len(Consuming) \in Nat /\ DOMAIN Consuming = 1..Len(Consuming) /\ Len(Consuming) = 7
    BY DEF Consuming
  <2>2. Arities(Consuming)[x] \in 0..(Len(Consuming) - 1)
    <3>1. x \in DOMAIN Arities(Consuming)
      BY <1>2 DEF Consumes
    <3>. QED  BY <2>1, <3>1, ArityBound, Zenon
  <2>. QED  BY <2>1, <2>2 DEF Consumes
<1>3. ASSUME NEW x \in DOMAIN Ends PROVE Ends[x] \in 0..2
  <2>1. Len(Ending) \in Nat /\ DOMAIN Ending = 1..Len(Ending) /\ Len(Ending) = 3
    BY DEF Ending
  <2>2. Arities(Ending)[x] \in 0..(Len(Ending) - 1)
    <3>1. x \in DOMAIN Arities(Ending)
      BY <1>3 DEF Ends
    <3>. QED  BY <2>1, <3>1, ArityBound, Zenon
  <2>. QED  BY <2>1, <2>2 DEF Ends
<1>. QED  BY <1>1, <1>2, <1>3

(* Two tables, joined. *)
LEMMA JoinedNames ==
  ASSUME NEW f, NEW g
  PROVE  DOMAIN Joined(f, g) = DOMAIN f \cup DOMAIN g
BY DEF Joined

LEMMA JoinedLeft ==
  ASSUME NEW f, NEW g, NEW x, x \in DOMAIN f
  PROVE  x \in DOMAIN Joined(f, g) /\ Joined(f, g)[x] = f[x]
BY DEF Joined

LEMMA JoinedRight ==
  ASSUME NEW f, NEW g, NEW x, x \in DOMAIN g, x \notin DOMAIN f
  PROVE  x \in DOMAIN Joined(f, g) /\ Joined(f, g)[x] = g[x]
BY DEF Joined

LEMMA OpcodeRows ==
  DOMAIN Opcode =
    UNION {DOMAIN ArithmeticRow, DOMAIN ComparisonRow, DOMAIN KeccakRow,
           DOMAIN EnvironmentRow, DOMAIN BlockRow, DOMAIN MachineRow, {"PUSH32"},
           DOMAIN LogRow, DOMAIN CallRow, DOMAIN EndRow}
<1>. DEFINE low  == Joined(Joined(ArithmeticRow, ComparisonRow), Joined(KeccakRow, EnvironmentRow))
            push == [PUSH32 |-> PUSH32]
            mid  == Joined(Joined(BlockRow, MachineRow), push)
            high == Joined(Joined(LogRow, CallRow), EndRow)
<1>1. Opcode = Joined(low, Joined(mid, high))
  BY DEF Opcode
<1>2. DOMAIN push = {"PUSH32"}
  OBVIOUS
<1>. HIDE DEF push
<1>3. DOMAIN low = UNION {DOMAIN ArithmeticRow, DOMAIN ComparisonRow, DOMAIN KeccakRow,
                          DOMAIN EnvironmentRow}
  <2>1. DOMAIN Joined(ArithmeticRow, ComparisonRow) = DOMAIN ArithmeticRow \cup DOMAIN ComparisonRow
    BY JoinedNames
  <2>2. DOMAIN Joined(KeccakRow, EnvironmentRow) = DOMAIN KeccakRow \cup DOMAIN EnvironmentRow
    BY JoinedNames
  <2>3. DOMAIN low = DOMAIN Joined(ArithmeticRow, ComparisonRow) \cup DOMAIN Joined(KeccakRow, EnvironmentRow)
    BY JoinedNames
  <2>. QED  BY <2>1, <2>2, <2>3
<1>4. DOMAIN mid = UNION {DOMAIN BlockRow, DOMAIN MachineRow, {"PUSH32"}}
  <2>1. DOMAIN Joined(BlockRow, MachineRow) = DOMAIN BlockRow \cup DOMAIN MachineRow
    BY JoinedNames
  <2>2. DOMAIN mid = DOMAIN Joined(BlockRow, MachineRow) \cup DOMAIN push
    BY JoinedNames
  <2>. QED  BY <1>2, <2>1, <2>2
<1>5. DOMAIN high = UNION {DOMAIN LogRow, DOMAIN CallRow, DOMAIN EndRow}
  <2>1. DOMAIN Joined(LogRow, CallRow) = DOMAIN LogRow \cup DOMAIN CallRow
    BY JoinedNames
  <2>2. DOMAIN high = DOMAIN Joined(LogRow, CallRow) \cup DOMAIN EndRow
    BY JoinedNames
  <2>. QED  BY <2>1, <2>2
<1>6. DOMAIN Opcode = DOMAIN low \cup (DOMAIN mid \cup DOMAIN high)
  <2>. HIDE DEF low, mid, high
  <2>1. DOMAIN Joined(mid, high) = DOMAIN mid \cup DOMAIN high
    BY JoinedNames
  <2>2. DOMAIN Joined(low, Joined(mid, high)) = DOMAIN low \cup DOMAIN Joined(mid, high)
    BY JoinedNames
  <2>. QED  BY <1>1, <2>1, <2>2
<1>. HIDE DEF low, mid, high
<1>. QED  BY <1>3, <1>4, <1>5, <1>6

NamedOpcodes ==
  {"MLOAD", "MSTORE", "JUMP", "JUMPI", "JUMPDEST", "PUSH0", "RETURN", "INVALID"}

LEMMA OpcodeNames ==
  /\ ComputingNames \subseteq DOMAIN Opcode
  /\ ConsumingNames \subseteq DOMAIN Opcode
  /\ EndingNames \subseteq DOMAIN Opcode
  /\ NamedOpcodes \subseteq DOMAIN Opcode
<1>2. DOMAIN EndRow = {"STATICCALL", "REVERT", "INVALID", "SELFDESTRUCT"}
  BY DEF EndRow
<1>3. ComputingNames \subseteq DOMAIN Opcode
  BY OpcodeRows, <1>2, ArithmeticRowNames, ComparisonRowNames, KeccakRowNames, EnvironmentRowNames,
     BlockRowNames, MachineRowNames, CallRowNames DEF ComputingNames, Computing
<1>4. ConsumingNames \subseteq DOMAIN Opcode
  BY OpcodeRows, EnvironmentRowNames, MachineRowNames, LogRowNames DEF ConsumingNames, Consuming
<1>5. EndingNames \subseteq DOMAIN Opcode
  BY OpcodeRows, <1>2, ArithmeticRowNames, CallRowNames DEF EndingNames, Ending
<1>6. NamedOpcodes \subseteq DOMAIN Opcode
  BY OpcodeRows, <1>2, MachineRowNames, CallRowNames DEF NamedOpcodes
<1>. QED  BY <1>3, <1>4, <1>5, <1>6

LEMMA NamesApart ==
  /\ ComputingNames \cap ConsumingNames = {}
  /\ ComputingNames \cap EndingNames = {}
  /\ ConsumingNames \cap EndingNames = {}
  /\ NamedOpcodes \cap (ComputingNames \cup ConsumingNames) = {}
  /\ NamedOpcodes \cap EndingNames = {"RETURN"}
<1>1. EndingNames = {"STOP", "SELFDESTRUCT", "RETURN", "REVERT"}
  BY DEF EndingNames, Ending
<1>2. ConsumingNames =
        {"POP", "SSTORE", "TSTORE", "MSTORE8", "LOG0", "CALLDATACOPY", "CODECOPY",
         "RETURNDATACOPY", "MCOPY", "LOG1", "EXTCODECOPY", "LOG2", "LOG3", "LOG4"}
  BY DEF ConsumingNames, Consuming
<1>3. \A name \in ComputingNames : name \notin ConsumingNames
  BY <1>2 DEF ComputingNames, Computing
<1>4. \A name \in ComputingNames : name \notin EndingNames
  BY <1>1 DEF ComputingNames, Computing
<1>5. \A name \in ComputingNames : name \notin NamedOpcodes
  BY DEF ComputingNames, Computing, NamedOpcodes
<1>6. ConsumingNames \cap (EndingNames \cup NamedOpcodes) = {}
  BY <1>1, <1>2 DEF NamedOpcodes
<1>7. NamedOpcodes \cap EndingNames = {"RETURN"}
  BY <1>1 DEF NamedOpcodes
<1>. QED  BY <1>3, <1>4, <1>5, <1>6, <1>7

LEMMA RowOpcode ==
  /\ \A name \in DOMAIN MachineRow : Opcode[name] = MachineRow[name]
  /\ \A name \in DOMAIN CallRow : Opcode[name] = CallRow[name]
  /\ \A name \in DOMAIN EndRow : Opcode[name] = EndRow[name]
<1>. DEFINE low  == Joined(Joined(ArithmeticRow, ComparisonRow), Joined(KeccakRow, EnvironmentRow))
            push == [PUSH32 |-> PUSH32]
            machine == Joined(BlockRow, MachineRow)
            mid  == Joined(machine, push)
            calls == Joined(LogRow, CallRow)
            high == Joined(calls, EndRow)
<1>1. Opcode = Joined(low, Joined(mid, high))
  BY DEF Opcode
<1>2. DOMAIN push = {"PUSH32"}
  OBVIOUS
<1>. HIDE DEF push
<1>3. DOMAIN EndRow = {"STATICCALL", "REVERT", "INVALID", "SELFDESTRUCT"}
  BY DEF EndRow
<1>4. DOMAIN low = (DOMAIN ArithmeticRow \cup DOMAIN ComparisonRow)
                   \cup (DOMAIN KeccakRow \cup DOMAIN EnvironmentRow)
  <2>1. DOMAIN Joined(ArithmeticRow, ComparisonRow) = DOMAIN ArithmeticRow \cup DOMAIN ComparisonRow
    BY JoinedNames
  <2>2. DOMAIN Joined(KeccakRow, EnvironmentRow) = DOMAIN KeccakRow \cup DOMAIN EnvironmentRow
    BY JoinedNames
  <2>3. DOMAIN low = DOMAIN Joined(ArithmeticRow, ComparisonRow) \cup DOMAIN Joined(KeccakRow, EnvironmentRow)
    BY JoinedNames
  <2>. QED  BY <2>1, <2>2, <2>3
<1>5. ASSUME NEW name \in DOMAIN MachineRow \cup DOMAIN CallRow \cup DOMAIN EndRow
      PROVE  name \notin DOMAIN low
  <2>1. name \notin DOMAIN ArithmeticRow
    BY <1>3, ArithmeticRowNames, MachineRowNames, CallRowNames
  <2>2. name \notin DOMAIN ComparisonRow
    BY <1>3, ComparisonRowNames, MachineRowNames, CallRowNames
  <2>3. name \notin DOMAIN KeccakRow
    BY <1>3, KeccakRowNames, MachineRowNames, CallRowNames
  <2>4. name \notin DOMAIN EnvironmentRow
    BY <1>3, EnvironmentRowNames, MachineRowNames, CallRowNames
  <2>. HIDE DEF low
  <2>. QED  BY <1>4, <2>1, <2>2, <2>3, <2>4
<1>6. DOMAIN machine = DOMAIN BlockRow \cup DOMAIN MachineRow
  BY JoinedNames
<1>7. DOMAIN calls = DOMAIN LogRow \cup DOMAIN CallRow
  BY JoinedNames
<1>. HIDE DEF low, machine, calls
<1>8. DOMAIN mid = DOMAIN machine \cup {"PUSH32"}
  BY <1>2, JoinedNames
<1>9. ASSUME NEW name \in DOMAIN MachineRow PROVE Opcode[name] = MachineRow[name]
  <2>1. name \notin DOMAIN BlockRow
    BY BlockRowNames, MachineRowNames
  <2>2. name \in DOMAIN machine /\ machine[name] = MachineRow[name]
    BY <1>9, <2>1, JoinedRight DEF machine
  <2>3. name \in DOMAIN mid /\ mid[name] = MachineRow[name]
    BY <2>2, JoinedLeft
  <2>. HIDE DEF mid, high
  <2>4. name \in DOMAIN Joined(mid, high) /\ Joined(mid, high)[name] = MachineRow[name]
    BY <2>3, JoinedLeft
  <2>5. name \notin DOMAIN low
    BY <1>5, <1>9
  <2>. QED  BY <1>1, <2>4, <2>5, JoinedRight
<1>10. ASSUME NEW name \in DOMAIN CallRow \cup DOMAIN EndRow PROVE name \notin DOMAIN mid
  <2>1. name \notin DOMAIN BlockRow
    BY <1>3, BlockRowNames, CallRowNames
  <2>2. name \notin DOMAIN MachineRow
    BY <1>3, MachineRowNames, CallRowNames
  <2>3. name # "PUSH32"
    BY <1>3, CallRowNames
  <2>. HIDE DEF mid
  <2>. QED  BY <1>6, <1>8, <2>1, <2>2, <2>3
<1>11. ASSUME NEW name \in DOMAIN CallRow PROVE Opcode[name] = CallRow[name]
  <2>1. name \notin DOMAIN LogRow
    BY LogRowNames, CallRowNames
  <2>2. name \in DOMAIN calls /\ calls[name] = CallRow[name]
    BY <1>11, <2>1, JoinedRight DEF calls
  <2>3. name \in DOMAIN high /\ high[name] = CallRow[name]
    BY <2>2, JoinedLeft
  <2>. HIDE DEF mid, high
  <2>4. name \in DOMAIN Joined(mid, high) /\ Joined(mid, high)[name] = CallRow[name]
    BY <1>10, <1>11, <2>3, JoinedRight
  <2>5. name \notin DOMAIN low
    BY <1>5, <1>11
  <2>. QED  BY <1>1, <2>4, <2>5, JoinedRight
<1>12. ASSUME NEW name \in DOMAIN EndRow PROVE Opcode[name] = EndRow[name]
  <2>1. name \notin DOMAIN LogRow
    BY <1>3, LogRowNames
  <2>2. name \notin DOMAIN CallRow
    BY <1>3, CallRowNames
  <2>3. name \notin DOMAIN calls
    BY <1>7, <2>1, <2>2
  <2>4. name \in DOMAIN high /\ high[name] = EndRow[name]
    BY <1>12, <2>3, JoinedRight
  <2>. HIDE DEF mid, high
  <2>5. name \in DOMAIN Joined(mid, high) /\ Joined(mid, high)[name] = EndRow[name]
    BY <1>10, <1>12, <2>4, JoinedRight
  <2>6. name \notin DOMAIN low
    BY <1>5, <1>12
  <2>. QED  BY <1>1, <2>5, <2>6, JoinedRight
<1>. QED  BY <1>9, <1>11, <1>12

LEMMA RowAt ==
  ASSUME NEW first \in Nat, NEW names, Len(names) \in Nat, NEW i \in 1..Len(names),
         \A j, k \in 1..Len(names) : names[j] = names[k] => j = k
  PROVE  /\ names[i] \in DOMAIN Row(first, names)
         /\ Row(first, names)[names[i]] = first - 1 + i
<1>1. names[i] \in DOMAIN Row(first, names)
  <2>1. names[i] \in {names[j] : j \in 1..Len(names)}
    OBVIOUS
  <2>. QED  BY <2>1, RowNames
<1>2. /\ Row(first, names)[names[i]] \in first..(first - 1 + Len(names))
      /\ names[Row(first, names)[names[i]] - first + 1] = names[i]
  BY <1>1, RowNumbers
<1>3. Row(first, names)[names[i]] - first + 1 \in 1..Len(names)
  BY <1>2
<1>4. Row(first, names)[names[i]] - first + 1 = i
  BY <1>2, <1>3
<1>. QED  BY <1>1, <1>2, <1>4

LEMMA MachineNumbers ==
  ASSUME NEW i \in 1..16, NEW name,
         name = <<"POP", "MLOAD", "MSTORE", "MSTORE8", "SLOAD", "SSTORE", "JUMP", "JUMPI",
                  "PC", "MSIZE", "GAS", "JUMPDEST", "TLOAD", "TSTORE", "MCOPY", "PUSH0">>[i]
  PROVE  Opcode[name] = 79 + i
<1>. DEFINE row == <<"POP", "MLOAD", "MSTORE", "MSTORE8", "SLOAD", "SSTORE", "JUMP",
                       "JUMPI", "PC", "MSIZE", "GAS", "JUMPDEST", "TLOAD", "TSTORE",
                       "MCOPY", "PUSH0">>
            base == 80
<1>1. MachineRow = Row(base, row) /\ Len(row) = 16 /\ base \in Nat /\ base = 80
      /\ Len(row) \in Nat
  BY DEF MachineRow
<1>2. \A j, k \in 1..16 : row[j] = row[k] => j = k
  OBVIOUS
<1>3. name = row[i]
  OBVIOUS
<1>. HIDE DEF row, base
<1>4. /\ base \in Nat /\ Len(row) \in Nat /\ i \in 1..Len(row)
      /\ \A j, k \in 1..Len(row) : row[j] = row[k] => j = k
  BY <1>1, <1>2
<1>5. row[i] \in DOMAIN Row(base, row) /\ Row(base, row)[row[i]] = base - 1 + i
  BY <1>4, RowAt, Zenon
<1>6. Opcode[row[i]] = Row(base, row)[row[i]]
  BY <1>1, <1>5, RowOpcode
<1>. QED  BY <1>1, <1>3, <1>5, <1>6

LEMMA CallNumbers ==
  ASSUME NEW i \in 1..6, NEW name,
         name = <<"CREATE", "CALL", "CALLCODE", "RETURN", "DELEGATECALL", "CREATE2">>[i]
  PROVE  Opcode[name] = 239 + i
<1>. DEFINE row == <<"CREATE", "CALL", "CALLCODE", "RETURN", "DELEGATECALL", "CREATE2">>
            base == 240
<1>1. CallRow = Row(base, row) /\ Len(row) = 6 /\ base \in Nat /\ base = 240
      /\ Len(row) \in Nat
  BY DEF CallRow
<1>2. \A j, k \in 1..6 : row[j] = row[k] => j = k
  OBVIOUS
<1>3. name = row[i]
  OBVIOUS
<1>. HIDE DEF row, base
<1>4. /\ base \in Nat /\ Len(row) \in Nat /\ i \in 1..Len(row)
      /\ \A j, k \in 1..Len(row) : row[j] = row[k] => j = k
  BY <1>1, <1>2
<1>5. row[i] \in DOMAIN Row(base, row) /\ Row(base, row)[row[i]] = base - 1 + i
  BY <1>4, RowAt, Zenon
<1>6. Opcode[row[i]] = Row(base, row)[row[i]]
  BY <1>1, <1>5, RowOpcode
<1>. QED  BY <1>1, <1>3, <1>5, <1>6

(* The opcodes that the emitter writes by number have their row' numbers. *)
LEMMA NamedNumbers ==
  /\ Opcode["MLOAD"] = MLOAD
  /\ Opcode["MSTORE"] = MSTORE
  /\ Opcode["JUMP"] = JUMP
  /\ Opcode["JUMPI"] = JUMPI
  /\ Opcode["JUMPDEST"] = JUMPDEST
  /\ Opcode["PUSH0"] = PUSH0
  /\ Opcode["RETURN"] = RETURN
  /\ Opcode["INVALID"] = INVALID
<1>. DEFINE names == <<"POP", "MLOAD", "MSTORE", "MSTORE8", "SLOAD", "SSTORE", "JUMP", "JUMPI",
                       "PC", "MSIZE", "GAS", "JUMPDEST", "TLOAD", "TSTORE", "MCOPY", "PUSH0">>
            calls == <<"CREATE", "CALL", "CALLCODE", "RETURN", "DELEGATECALL", "CREATE2">>
<1>1. \A i \in 1..16 : Opcode[names[i]] = 79 + i
  BY MachineNumbers
<1>2. \A i \in 1..6 : Opcode[calls[i]] = 239 + i
  BY CallNumbers
<1>3. /\ names[2] = "MLOAD" /\ names[3] = "MSTORE" /\ names[7] = "JUMP" /\ names[8] = "JUMPI"
      /\ names[12] = "JUMPDEST" /\ names[16] = "PUSH0"
  OBVIOUS
<1>4. calls[4] = "RETURN"
  OBVIOUS
<1>. HIDE DEF names, calls
<1>5. Opcode["MLOAD"] = MLOAD
  BY <1>1, <1>3 DEF MLOAD
<1>6. Opcode["MSTORE"] = MSTORE
  BY <1>1, <1>3 DEF MSTORE
<1>7. Opcode["JUMP"] = JUMP
  BY <1>1, <1>3 DEF JUMP
<1>8. Opcode["JUMPI"] = JUMPI
  BY <1>1, <1>3 DEF JUMPI
<1>9. Opcode["JUMPDEST"] = JUMPDEST
  BY <1>1, <1>3 DEF JUMPDEST
<1>10. Opcode["PUSH0"] = PUSH0
  BY <1>1, <1>3 DEF PUSH0
<1>11. Opcode["RETURN"] = RETURN
  BY <1>2, <1>4 DEF RETURN
<1>12. Opcode["INVALID"] = INVALID
  <2>1. "INVALID" \in DOMAIN EndRow /\ EndRow["INVALID"] = INVALID
    BY DEF EndRow, INVALID
  <2>. QED  BY <2>1, RowOpcode
<1>. QED  BY <1>5, <1>6, <1>7, <1>8, <1>9, <1>10, <1>11, <1>12

-----------------------------------------------------------------------------
(* Sequences of anything.                                                   *)

IsSequence(s) == \E S : s \in Seq(S)

LEMMA SequenceIs ==
  ASSUME NEW s, IsSequence(s)
  PROVE  Len(s) \in Nat /\ DOMAIN s = 1..Len(s) /\ s \in Seq({s[i] : i \in 1..Len(s)})
<1>1. PICK S : s \in Seq(S)
  BY DEF IsSequence
<1>2. Len(s) \in Nat /\ s \in [1..Len(s) -> S] /\ DOMAIN s = 1..Len(s)
  BY <1>1
<1>3. s \in [1..Len(s) -> {s[i] : i \in 1..Len(s)}]
  BY <1>2
<1>. QED  BY <1>2, <1>3

LEMMA OneAlphabet ==
  ASSUME NEW s, IsSequence(s), NEW t, IsSequence(t)
  PROVE  \E S : s \in Seq(S) /\ t \in Seq(S)
<1>. DEFINE S == {s[i] : i \in 1..Len(s)}
            T == {t[i] : i \in 1..Len(t)}
            U == S \cup T
<1>1. s \in Seq(S) /\ t \in Seq(T)
  BY SequenceIs
<1>2. S \subseteq U /\ T \subseteq U
  OBVIOUS
<1>. HIDE DEF S, T, U
<1>3. s \in Seq(U) /\ t \in Seq(U)
  BY <1>1, <1>2, SeqMonotonic
<1>. QED  BY <1>3

LEMMA Concatenation ==
  ASSUME NEW s, IsSequence(s), NEW t, IsSequence(t)
  PROVE  /\ IsSequence(s \o t)
         /\ Len(s \o t) = Len(s) + Len(t)
         /\ \A i \in 1..Len(s) : (s \o t)[i] = s[i]
         /\ \A i \in 1..Len(t) : (s \o t)[Len(s) + i] = t[i]
<1>1. PICK S : s \in Seq(S) /\ t \in Seq(S)
  BY OneAlphabet
<1>2. IsSequence(s \o t)
  <2>1. s \o t \in Seq(S)
    BY <1>1
  <2>. QED  BY <2>1 DEF IsSequence
<1>3. Len(s \o t) = Len(s) + Len(t)
  BY <1>1
<1>4. \A i \in 1..Len(s) : (s \o t)[i] = s[i]
  BY <1>1
<1>5. ASSUME NEW i \in 1..Len(t) PROVE (s \o t)[Len(s) + i] = t[i]
  <2>1. Len(s) \in Nat /\ Len(t) \in Nat
    BY <1>1
  <2>2. Len(s) + i \in 1..(Len(s) + Len(t)) /\ ~(Len(s) + i <= Len(s)) /\ Len(s) + i - Len(s) = i
    BY <2>1
  <2>. QED  BY <1>1, <2>2
<1>. QED  BY <1>2, <1>3, <1>4, <1>5

LEMMA ConcatenationsAssociate ==
  ASSUME NEW s, IsSequence(s), NEW t, IsSequence(t), NEW u, IsSequence(u)
  PROVE  (s \o t) \o u = s \o (t \o u)
<1>1. PICK S : s \in Seq(S) /\ t \in Seq(S)
  BY OneAlphabet
<1>2. PICK T : u \in Seq(T)
  BY DEF IsSequence
<1>. DEFINE U == S \cup T
<1>3. S \subseteq U /\ T \subseteq U
  OBVIOUS
<1>. HIDE DEF U
<1>4. s \in Seq(U) /\ t \in Seq(U) /\ u \in Seq(U)
  BY <1>1, <1>2, <1>3, SeqMonotonic
<1>. QED  BY <1>4, ConcatAssociative

LEMMA NothingAdded ==
  ASSUME NEW s, IsSequence(s)
  PROVE  s \o <<>> = s /\ <<>> \o s = s
<1>1. PICK S : s \in Seq(S)
  BY DEF IsSequence
<1>. QED  BY <1>1, ConcatEmptySeq

LEMMA Part ==
  ASSUME NEW s, IsSequence(s), NEW m \in Nat, NEW n \in Nat, m >= 1, n <= Len(s), m <= n + 1
  PROVE  /\ IsSequence(SubSeq(s, m, n))
         /\ Len(SubSeq(s, m, n)) = n - m + 1
         /\ \A i \in 1..(n - m + 1) : SubSeq(s, m, n)[i] = s[m + i - 1]
<1>1. PICK S : s \in Seq(S)
  BY DEF IsSequence
<1>2. \A i \in m..n : s[i] \in S
  BY <1>1
<1>3. SubSeq(s, m, n) \in Seq(S)
  BY <1>2, SubSeqProperties
<1>4. Len(SubSeq(s, m, n)) = n - m + 1
  BY <1>2, SubSeqProperties
<1>5. \A i \in 1..(n - m + 1) : SubSeq(s, m, n)[i] = s[m + i - 1]
  BY <1>2, SubSeqProperties
<1>6. IsSequence(SubSeq(s, m, n))
  BY <1>3 DEF IsSequence
<1>. QED  BY <1>4, <1>5, <1>6

LEMMA AllButTheLast ==
  ASSUME NEW V, NEW t \in Seq(V), NEW k \in Nat
  PROVE  /\ SubSeq(t, 1, Len(t) - k) \in Seq(V)
         /\ k <= Len(t) => Len(SubSeq(t, 1, Len(t) - k)) = Len(t) - k
<1>1. CASE k <= Len(t)
  <2>. DEFINE l == Len(t) - k
  <2>1. l \in 0..Len(t)
    BY <1>1
  <2>. HIDE DEF l
  <2>. QED  BY <2>1 DEF l
<1>2. CASE ~(k <= Len(t))
  <2>1. SubSeq(t, 1, Len(t) - k) = <<>>
    BY <1>2
  <2>. QED  BY <2>1, <1>2
<1>. QED  BY <1>1, <1>2

LEMMA Tuples ==
  ASSUME NEW a, NEW b, NEW c
  PROVE  IsSequence(<<>>) /\ IsSequence(<<a>>) /\ IsSequence(<<a, b>>) /\ IsSequence(<<a, b, c>>)
<1>1. <<>> \in Seq({}) /\ <<a>> \in Seq({a}) /\ <<a, b>> \in Seq({a, b})
      /\ <<a, b, c>> \in Seq({a, b, c})
  OBVIOUS
<1>. QED  BY <1>1 DEF IsSequence

LEMMA Pairs ==
  ASSUME NEW a, NEW b
  PROVE  <<a>> \o <<b>> = <<a, b>>
<1>. DEFINE S == {a, b}
            one == <<a>>
            two == <<b>>
            both == <<a, b>>
            all == one \o two
<1>1. one \in Seq(S) /\ two \in Seq(S) /\ both \in Seq(S)
  OBVIOUS
<1>2. Len(one) = 1 /\ Len(two) = 1 /\ Len(both) = 2
  OBVIOUS
<1>3. one[1] = both[1] /\ two[1] = both[2]
  OBVIOUS
<1>. HIDE DEF one, two, both, S
<1>4. all \in Seq(S)
  BY <1>1
<1>5. Len(all) = Len(both)
  <2>1. Len(one \o two) = Len(one) + Len(two)
    BY <1>1
  <2>2. Len(one) + Len(two) = Len(both)
    BY <1>2
  <2>. QED  BY <2>1, <2>2, Zenon
<1>6. \A i \in 1..Len(one) : (one \o two)[i] = one[i]
  BY <1>1
<1>7. \A i \in 1..Len(two) : (one \o two)[Len(one) + i] = two[i]
  BY <1>1
<1>8. all[1] = both[1] /\ all[2] = both[2]
  <2>1. (one \o two)[1] = one[1]
    BY <1>2, <1>6
  <2>2. (one \o two)[1 + 1] = two[1]
    BY <1>2, <1>7
  <2>3. 1 + 1 = 2
    OBVIOUS
  <2>. QED  BY <2>1, <2>2, <2>3, <1>3, Zenon
<1>. HIDE DEF all
<1>9. \A i \in 1..2 : all[i] = both[i]
  BY <1>8
<1>10. \A i \in 1..Len(all) : all[i] = both[i]
  BY <1>2, <1>5, <1>9
<1>11. all = both
  BY <1>1, <1>4, <1>5, <1>10, SeqEqual
<1>. QED  BY <1>11 DEF one, two, both, all

LEMMA Triples ==
  ASSUME NEW a, NEW b, NEW c
  PROVE  <<a, b>> \o <<c>> = <<a, b, c>>
<1>. DEFINE S == {a, b, c}
            one == <<a, b>>
            two == <<c>>
            both == <<a, b, c>>
            all == one \o two
<1>1. one \in Seq(S) /\ two \in Seq(S) /\ both \in Seq(S)
  OBVIOUS
<1>2. Len(one) = 2 /\ Len(two) = 1 /\ Len(both) = 3
  OBVIOUS
<1>3. one[1] = both[1] /\ one[2] = both[2] /\ two[1] = both[3]
  OBVIOUS
<1>. HIDE DEF one, two, both, S
<1>4. all \in Seq(S)
  BY <1>1
<1>5. Len(all) = Len(both)
  <2>1. Len(one \o two) = Len(one) + Len(two)
    BY <1>1
  <2>2. Len(one) + Len(two) = Len(both)
    BY <1>2
  <2>. QED  BY <2>1, <2>2, Zenon
<1>6. \A i \in 1..Len(one) : (one \o two)[i] = one[i]
  BY <1>1
<1>7. \A i \in 1..Len(two) : (one \o two)[Len(one) + i] = two[i]
  BY <1>1
<1>8. all[1] = both[1] /\ all[2] = both[2] /\ all[3] = both[3]
  <2>1. (one \o two)[1] = one[1] /\ (one \o two)[2] = one[2]
    BY <1>2, <1>6
  <2>2. (one \o two)[2 + 1] = two[1]
    BY <1>2, <1>7
  <2>3. 2 + 1 = 3
    OBVIOUS
  <2>. QED  BY <2>1, <2>2, <2>3, <1>3, Zenon
<1>. HIDE DEF all
<1>9. \A i \in 1..3 : all[i] = both[i]
  BY <1>8
<1>10. \A i \in 1..Len(all) : all[i] = both[i]
  BY <1>2, <1>5, <1>9
<1>11. all = both
  BY <1>1, <1>4, <1>5, <1>10, SeqEqual
<1>. QED  BY <1>11 DEF one, two, both, all

-----------------------------------------------------------------------------
(* Induction and recursion, up to a bound.                                  *)

LEMMA LeastNatural ==
  ASSUME NEW S, S \subseteq Nat, S # {}
  PROVE  \E x \in S : \A y \in S : x <= y
<1>. DEFINE R == OpToRel(<, Nat)
<1>1. IsWellFoundedOn(R, Nat)
  BY NatLessThanWellFounded
<1>2. \A x, y \in Nat : y < x => <<y, x>> \in R
  BY DEF OpToRel
<1>. HIDE DEF R
<1>4. \E x \in S : \A y \in S : ~(<<y, x>> \in R)
  BY <1>1, WFMin
<1>3. \E x \in S : \A y \in S : ~(y < x)
  BY <1>2, <1>4
<1>. QED  BY <1>3

LEMMA CountUp ==
  ASSUME NEW n \in Nat, NEW T, 0 \in T, \A i \in 0..(n - 1) : i \in T => i + 1 \in T
  PROVE  \A i \in 0..n : i \in T
<1>. DEFINE bad == {i \in 0..n : i \notin T}
<1>1. SUFFICES ASSUME bad # {} PROVE FALSE
  OBVIOUS
<1>2. PICK k \in bad : \A i \in bad : k <= i
  <2>1. bad \subseteq Nat
    OBVIOUS
  <2>. HIDE DEF bad
  <2>. QED  BY <1>1, <2>1, LeastNatural
<1>3. k - 1 \in 0..(n - 1) /\ k - 1 \notin bad
  <2>1. k # 0
    OBVIOUS
  <2>. QED  BY <1>2, <2>1
<1>4. (k - 1) + 1 \in T
  BY <1>3
<1>. QED  BY <1>4

(* A function is defined by what it is at 0 and how it goes on from there.  *)
Recursive(f, N, D, a, step) ==
  /\ f \in [0..N -> D]
  /\ f[0] = a
  /\ \A i \in 1..N : f[i] = step[i][f[i - 1]]

LEMMA RecursionUpTo ==
  ASSUME NEW N \in Nat, NEW D, NEW a \in D, NEW step \in [1..N -> [D -> D]]
  PROVE  \E f : Recursive(f, N, D, a, step)
<1>. DEFINE Upto(f, n) == f[0] = a /\ \A i \in 1..n : f[i] = step[i][f[i - 1]]
            T == {n \in 0..N : \E f \in [0..n -> D] : Upto(f, n)}
<1>1. 0 \in T
  <2>. DEFINE g == [i \in 0..0 |-> a]
  <2>1. g \in [0..0 -> D] /\ Upto(g, 0) /\ 0 \in 0..N
    OBVIOUS
  <2>. HIDE DEF g
  <2>. QED  BY <2>1
<1>2. ASSUME NEW n \in 0..(N - 1), n \in T PROVE n + 1 \in T
  <2>1. PICK f \in [0..n -> D] : Upto(f, n)
    BY <1>2
  <2>. DEFINE g == [i \in 0..(n + 1) |-> IF i = n + 1 THEN step[n + 1][f[n]] ELSE f[i]]
  <2>2. step[n + 1][f[n]] \in D
    <3>1. n + 1 \in 1..N /\ n \in 0..n
      OBVIOUS
    <3>2. step[n + 1] \in [D -> D] /\ f[n] \in D
      BY <3>1
    <3>. QED  BY <3>2
  <2>3. g \in [0..(n + 1) -> D]
    BY <2>2
  <2>4. g[0] = a
    BY <2>1
  <2>5. ASSUME NEW i \in 1..(n + 1) PROVE g[i] = step[i][g[i - 1]]
    <3>1. i \in 0..(n + 1) /\ i - 1 \in 0..(n + 1) /\ i - 1 # n + 1
      OBVIOUS
    <3>2. g[i - 1] = f[i - 1]
      BY <3>1
    <3>3. CASE i = n + 1
      <4>1. g[i] = step[n + 1][f[n]] /\ i - 1 = n
        BY <3>1, <3>3
      <4>. HIDE DEF g
      <4>. QED  BY <3>2, <3>3, <4>1
    <3>4. CASE i # n + 1
      <4>1. i \in 1..n /\ g[i] = f[i]
        BY <3>1, <3>4
      <4>. HIDE DEF g
      <4>. QED  BY <2>1, <3>2, <4>1
    <3>. QED  BY <3>3, <3>4
  <2>. HIDE DEF g
  <2>6. n + 1 \in 0..N
    OBVIOUS
  <2>. QED  BY <2>3, <2>4, <2>5, <2>6
<1>3. N \in Nat /\ N \in 0..N
  OBVIOUS
<1>. HIDE DEF T
<1>4. N \in T
  BY <1>1, <1>2, <1>3, CountUp
<1>. QED  BY <1>4 DEF T, Recursive

LEMMA Flattened ==
  ASSUME NEW S, NEW seqs \in Seq(Seq(S))
  PROVE  FlattenSeq(seqs) \in Seq(S)
<1>. DEFINE N == Len(seqs)
            D == Seq(S)
            Step(f) == [i \in 1..N |-> IF i = 1 THEN seqs[i] ELSE f[i - 1] \o seqs[i]]
            flatten == CHOOSE f : f = Step(f)
            append == [i \in 1..N |-> [x \in D |-> x \o seqs[i]]]
<1>1. N \in Nat /\ seqs \in [1..N -> D]
  OBVIOUS
<1>2. CASE N = 0
  <2>1. FlattenSeq(seqs) = seqs
    BY <1>2 DEF FlattenSeq
  <2>2. seqs = <<>>
    BY <1>2
  <2>. QED  BY <2>1, <2>2
<1>3. CASE N # 0
  <2>1. FlattenSeq(seqs) = flatten[N]
    BY <1>1, <1>3 DEF FlattenSeq
  <2>2. append \in [1..N -> [D -> D]] /\ <<>> \in D
    BY <1>1
  <2>3. PICK f : Recursive(f, N, D, <<>>, append)
    <3>. HIDE DEF append, D, N
    <3>. QED  BY <1>1, <2>2, RecursionUpTo
  <2>. DEFINE g == [i \in 1..N |-> f[i]]
  <2>. HIDE DEF N
  <2>4. f \in [0..N -> D]
    BY <2>3 DEF Recursive
  <2>5. ASSUME NEW i \in 1..N PROVE f[i] = f[i - 1] \o seqs[i]
    <3>1. i - 1 \in 0..N
      BY <1>1
    <3>2. f[i - 1] \in D
      BY <2>4, <3>1
    <3>3. f[i] = append[i][f[i - 1]]
      BY <2>3 DEF Recursive
    <3>. HIDE DEF D
    <3>. QED  BY <3>2, <3>3
  <2>6. ASSUME NEW i \in 1..N PROVE g[i] = IF i = 1 THEN seqs[i] ELSE g[i - 1] \o seqs[i]
    <3>1. CASE i = 1
      <4>1. f[i] = <<>> \o seqs[i]
        <5>1. f[0] = <<>>
          BY <2>3 DEF Recursive
        <5>2. f[i] = f[i - 1] \o seqs[i]
          BY <2>5
        <5>3. i - 1 = 0
          BY <3>1
        <5>. QED  BY <5>1, <5>2, <5>3
      <4>2. seqs[i] \in Seq(S)
        BY <1>1
      <4>. QED  BY <3>1, <4>1, <4>2, ConcatEmptySeq
    <3>2. CASE i # 1
      <4>1. i - 1 \in 1..N
        BY <1>1, <3>2
      <4>. QED  BY <2>5, <3>2, <4>1
    <3>. QED  BY <3>1, <3>2
  <2>7. g = Step(g)
    BY <2>6
  <2>8. flatten = Step(flatten)
    <3>1. \E h : h = Step(h)
      <4>. HIDE DEF g, Step
      <4>. QED  BY <2>7
    <3>. QED  BY <3>1, Zenon
  <2>. HIDE DEF flatten
  <2>9. ASSUME NEW i \in 1..N PROVE flatten[i] = IF i = 1 THEN seqs[i] ELSE flatten[i - 1] \o seqs[i]
    BY <2>8
  <2>. DEFINE T == {i \in 0..N : i # 0 => flatten[i] \in Seq(S)}
  <2>10. 0 \in T
    BY <1>1
  <2>11. ASSUME NEW i \in 0..(N - 1), i \in T PROVE i + 1 \in T
    <3>1. i + 1 \in 1..N /\ i + 1 \in 0..N /\ (i + 1) - 1 = i
      BY <1>1
    <3>2. seqs[i + 1] \in Seq(S)
      BY <1>1, <3>1
    <3>3. CASE i = 0
      <4>1. flatten[i + 1] = seqs[i + 1]
        BY <2>9, <3>1, <3>3
      <4>. QED  BY <3>1, <3>2, <4>1
    <3>4. CASE i # 0
      <4>1. flatten[i + 1] = flatten[i] \o seqs[i + 1]
        <5>1. i + 1 # 1
          BY <3>4
        <5>. QED  BY <2>9, <3>1, <5>1
      <4>2. flatten[i] \in Seq(S)
        BY <2>11, <3>4
      <4>3. flatten[i + 1] \in Seq(S)
        BY <3>2, <4>1, <4>2
      <4>. QED  BY <3>1, <4>3
    <3>. QED  BY <3>3, <3>4
  <2>12. N \in T
    <3>1. N \in 0..N
      BY <1>1
    <3>. HIDE DEF T
    <3>. QED  BY <1>1, <2>10, <2>11, <3>1, CountUp
  <2>. QED  BY <1>3, <2>1, <2>12
<1>. QED  BY <1>2, <1>3

-----------------------------------------------------------------------------
(* What an opcode takes off the stack and puts there.                       *)

Written == {MLOAD, MSTORE, JUMP, JUMPI, JUMPDEST, PUSH0, INVALID}
Exchanging == DupOpcodes \cup SwapOpcodes

LEMMA NumbersOf ==
  ASSUME NEW names, names \subseteq DOMAIN Opcode, NEW others, others \subseteq DOMAIN Opcode,
         names \cap others = {}
  PROVE  {Opcode[name] : name \in names} \cap {Opcode[name] : name \in others} = {}
BY OpcodeNumbers

LEMMA WrittenNumbers ==
  /\ MLOAD = 81 /\ MSTORE = 82 /\ JUMP = 86 /\ JUMPI = 87 /\ JUMPDEST = 91 /\ PUSH0 = 95
  /\ RETURN = 243 /\ INVALID = 254
  /\ DUP1 = 128 /\ SWAP1 = 144 /\ DupOpcodes = 128..143 /\ SwapOpcodes = 144..159
BY DEF MLOAD, MSTORE, JUMP, JUMPI, JUMPDEST, PUSH0, RETURN, INVALID, DUP1, SWAP1, DupOpcodes,
       SwapOpcodes, DUP16, SWAP16

LEMMA ClassesApart ==
  /\ DOMAIN Computes \cap DOMAIN Consumes = {}
  /\ DOMAIN Computes \cap DOMAIN Ends = {}
  /\ DOMAIN Consumes \cap DOMAIN Ends = {}
  /\ Written \cap (DOMAIN Computes \cup DOMAIN Consumes \cup DOMAIN Ends) = {}
  /\ Exchanging \cap (DOMAIN Computes \cup DOMAIN Consumes \cup DOMAIN Ends) = {}
  /\ Exchanging \cap Written = {}
<1>1. DOMAIN Computes \cap DOMAIN Consumes = {}
  BY Classes, OpcodeNames, NamesApart, NumbersOf
<1>2. DOMAIN Computes \cap DOMAIN Ends = {}
  BY Classes, OpcodeNames, NamesApart, NumbersOf
<1>3. DOMAIN Consumes \cap DOMAIN Ends = {}
  BY Classes, OpcodeNames, NamesApart, NumbersOf
<1>. DEFINE names == NamedOpcodes \ {"RETURN"}
<1>4. names \subseteq DOMAIN Opcode
  BY OpcodeNames
<1>5. Written \subseteq {Opcode[name] : name \in names}
  BY NamedNumbers DEF Written, NamedOpcodes
<1>6. names \cap (ComputingNames \cup ConsumingNames \cup EndingNames) = {}
  BY NamesApart
<1>. HIDE DEF names
<1>7. Written \cap DOMAIN Computes = {}
  BY <1>4, <1>5, <1>6, Classes, OpcodeNames, NumbersOf
<1>8. Written \cap DOMAIN Consumes = {}
  BY <1>4, <1>5, <1>6, Classes, OpcodeNames, NumbersOf
<1>9. Written \cap DOMAIN Ends = {}
  BY <1>4, <1>5, <1>6, Classes, OpcodeNames, NumbersOf
<1>10. Exchanging = 128..159
  BY WrittenNumbers DEF Exchanging
<1>11. Exchanging \cap (DOMAIN Computes \cup DOMAIN Consumes \cup DOMAIN Ends) = {}
  BY <1>10, Classes, OpcodeNames, OpcodeNumbers
<1>12. Exchanging \cap Written = {}
  BY <1>10, WrittenNumbers DEF Written
<1>. QED  BY <1>1, <1>2, <1>3, <1>7, <1>8, <1>9, <1>11, <1>12

LEMMA ReturnEnds == RETURN \in DOMAIN Ends
<1>1. "RETURN" \in EndingNames
  BY DEF EndingNames, Ending
<1>. QED  BY <1>1, Classes, NamedNumbers

(* The opcodes after which the machine goes on with the next instruction,   *)
(* and those of them that are no jump.                                      *)
Moves ==
  DOMAIN Computes \cup DOMAIN Consumes \cup Exchanging \cup {MLOAD, MSTORE, JUMPDEST, PUSH0}

Gives(opcode) ==
  CASE opcode \in DOMAIN Computes  -> 1
    [] opcode \in DOMAIN Consumes  -> 0
    [] opcode \in DupOpcodes       -> opcode - DUP1 + 2
    [] opcode \in SwapOpcodes      -> opcode - SWAP1 + 2
    [] opcode \in {MLOAD, PUSH0}   -> 1
    [] opcode \in {MSTORE, JUMPDEST} -> 0

LEMMA JumpsApart == JUMP \notin Moves /\ JUMPI \notin Moves /\ INVALID \notin Moves
BY ClassesApart, WrittenNumbers DEF Moves, Written

LEMMA EndsApart == DOMAIN Ends \cap (Moves \cup Written) = {}
BY ClassesApart DEF Moves, Written

LEMMA ComputeMoves ==
  ASSUME NEW opcode \in DOMAIN Computes
  PROVE  Takes(opcode) = Computes[opcode] /\ Gives(opcode) = 1 /\ Computes[opcode] \in Nat
<1>1. Takes(opcode) = Computes[opcode]
  BY ClassesApart DEF Takes, Written, Exchanging
<1>2. Gives(opcode) = 1
  BY ClassesApart DEF Gives, Written, Exchanging
<1>. QED  BY <1>1, <1>2, ArityNumbers

LEMMA ConsumeMoves ==
  ASSUME NEW opcode \in DOMAIN Consumes
  PROVE  Takes(opcode) = Consumes[opcode] /\ Gives(opcode) = 0 /\ Consumes[opcode] \in Nat
<1>1. opcode \notin DOMAIN Computes /\ opcode \notin DOMAIN Ends /\ opcode \notin Written
      /\ opcode \notin Exchanging
  BY ClassesApart
<1>2. Takes(opcode) = Consumes[opcode]
  BY <1>1 DEF Takes, Written, Exchanging
<1>3. Gives(opcode) = 0
  BY <1>1 DEF Gives, Written, Exchanging
<1>. QED  BY <1>2, <1>3, ArityNumbers

LEMMA DupMoves ==
  ASSUME NEW n \in 1..16
  PROVE  /\ DUP1 + n - 1 \in DupOpcodes
         /\ Takes(DUP1 + n - 1) = n
         /\ Gives(DUP1 + n - 1) = n + 1
<1>. DEFINE opcode == DUP1 + n - 1
<1>1. opcode \in DupOpcodes /\ opcode \notin SwapOpcodes /\ opcode - DUP1 + 1 = n
      /\ opcode - DUP1 + 2 = n + 1
  BY WrittenNumbers
<1>2. opcode \in Exchanging
  BY <1>1 DEF Exchanging
<1>. HIDE DEF opcode
<1>3. opcode \notin DOMAIN Computes /\ opcode \notin DOMAIN Consumes /\ opcode \notin DOMAIN Ends
      /\ opcode \notin Written
  BY <1>2, ClassesApart
<1>4. Takes(opcode) = n
  BY <1>1, <1>3 DEF Takes, Written
<1>5. Gives(opcode) = n + 1
  BY <1>1, <1>3 DEF Gives, Written
<1>. QED  BY <1>1, <1>4, <1>5 DEF opcode

LEMMA SwapMoves ==
  ASSUME NEW n \in 1..16
  PROVE  /\ SWAP1 + n - 1 \in SwapOpcodes
         /\ Takes(SWAP1 + n - 1) = n + 1
         /\ Gives(SWAP1 + n - 1) = n + 1
<1>. DEFINE opcode == SWAP1 + n - 1
<1>1. opcode \in SwapOpcodes /\ opcode \notin DupOpcodes /\ opcode - SWAP1 + 2 = n + 1
  BY WrittenNumbers
<1>2. opcode \in Exchanging
  BY <1>1 DEF Exchanging
<1>. HIDE DEF opcode
<1>3. opcode \notin DOMAIN Computes /\ opcode \notin DOMAIN Consumes /\ opcode \notin DOMAIN Ends
      /\ opcode \notin Written
  BY <1>2, ClassesApart
<1>4. Takes(opcode) = n + 1
  BY <1>1, <1>3 DEF Takes, Written
<1>5. Gives(opcode) = n + 1
  BY <1>1, <1>3 DEF Gives, Written
<1>. QED  BY <1>1, <1>4, <1>5 DEF opcode

LEMMA WrittenMoves ==
  /\ Takes(MLOAD) = 1 /\ Gives(MLOAD) = 1
  /\ Takes(MSTORE) = 2 /\ Gives(MSTORE) = 0
  /\ Takes(JUMPDEST) = 0 /\ Gives(JUMPDEST) = 0
  /\ Takes(PUSH0) = 0 /\ Gives(PUSH0) = 1
  /\ Takes(JUMP) = 1 /\ Takes(JUMPI) = 2
<1>1. ASSUME NEW opcode \in Written
      PROVE  opcode \notin DOMAIN Computes \cup DOMAIN Consumes \cup DOMAIN Ends
                           \cup DupOpcodes \cup SwapOpcodes
  BY ClassesApart DEF Exchanging
<1>2. Takes(MLOAD) = 1 /\ Gives(MLOAD) = 1
  BY <1>1, WrittenNumbers DEF Written, Takes, Gives
<1>3. Takes(MSTORE) = 2 /\ Gives(MSTORE) = 0
  BY <1>1, WrittenNumbers DEF Written, Takes, Gives
<1>4. Takes(JUMPDEST) = 0 /\ Gives(JUMPDEST) = 0
  BY <1>1, WrittenNumbers DEF Written, Takes, Gives
<1>5. Takes(PUSH0) = 0 /\ Gives(PUSH0) = 1
  BY <1>1, WrittenNumbers DEF Written, Takes, Gives
<1>6. Takes(JUMP) = 1 /\ Takes(JUMPI) = 2
  BY <1>1, WrittenNumbers DEF Written, Takes
<1>. QED  BY <1>2, <1>3, <1>4, <1>5, <1>6

-----------------------------------------------------------------------------
(* How high the stack is before and after an instruction that is neither a  *)
(* label nor a jump.  Nothing is said about an opcode after which the       *)
(* machine stops.                                                           *)

Flow(instr, h, h2) ==
  \/ /\ instr.kind = "push"
     /\ h2 = h + 1
  \/ /\ instr.kind = "opcode"
     /\ instr.opcode \notin {JUMP, JUMPI}
     /\ instr.opcode \in Moves =>
          Takes(instr.opcode) <= h /\ h2 + Takes(instr.opcode) = h + Gives(instr.opcode)

(* hs are the heights before each of the instructions and after the last.   *)
Flowing(frag, hs, h, h2) ==
  /\ hs \in [1..(Len(frag) + 1) -> Nat]
  /\ hs[1] = h
  /\ hs[Len(frag) + 1] = h2
  /\ \A k \in 1..Len(frag) : Flow(frag[k], hs[k], hs[k + 1])

Flows(frag, h, h2) == \E hs : Flowing(frag, hs, h, h2)

LEMMA FlowsNone == ASSUME NEW h \in Nat PROVE Flows(<<>>, h, h)
<1>. DEFINE hs == [k \in 1..1 |-> h]
<1>1. Len(<<>>) = 0
  OBVIOUS
<1>2. hs \in [1..(0 + 1) -> Nat] /\ hs[1] = h /\ hs[0 + 1] = h
  OBVIOUS
<1>. HIDE DEF hs
<1>3. Flowing(<<>>, hs, h, h)
  BY <1>1, <1>2 DEF Flowing
<1>. QED  BY <1>3 DEF Flows

LEMMA FlowsOne ==
  ASSUME NEW instr, NEW h \in Nat, NEW h2 \in Nat, Flow(instr, h, h2)
  PROVE  Flows(<<instr>>, h, h2)
<1>. DEFINE hs == [k \in 1..2 |-> IF k = 1 THEN h ELSE h2]
<1>1. Len(<<instr>>) = 1 /\ <<instr>>[1] = instr
  OBVIOUS
<1>2. hs \in [1..(1 + 1) -> Nat] /\ hs[1] = h /\ hs[1 + 1] = h2
  OBVIOUS
<1>. HIDE DEF hs
<1>3. Flowing(<<instr>>, hs, h, h2)
  BY <1>1, <1>2 DEF Flowing
<1>. QED  BY <1>3 DEF Flows

LEMMA FlowsJoin ==
  ASSUME NEW s, IsSequence(s), NEW t, IsSequence(t), NEW h, NEW m, NEW h2,
         Flows(s, h, m), Flows(t, m, h2)
  PROVE  Flows(s \o t, h, h2)
<1>1. PICK f : Flowing(s, f, h, m)
  BY DEF Flows
<1>2. PICK g : Flowing(t, g, m, h2)
  BY DEF Flows
<1>. DEFINE a == Len(s)
            b == Len(t)
            hs == [k \in 1..(a + b + 1) |-> IF k <= a THEN f[k] ELSE g[k - a]]
<1>3. a \in Nat /\ b \in Nat
  BY SequenceIs
<1>4. Len(s \o t) = a + b
  BY Concatenation
<1>5. \A i \in 1..a : (s \o t)[i] = s[i]
  BY Concatenation
<1>6. \A i \in 1..b : (s \o t)[a + i] = t[i]
  BY Concatenation
<1>7. f \in [1..(a + 1) -> Nat] /\ g \in [1..(b + 1) -> Nat] /\ f[a + 1] = m /\ g[1] = m
      /\ f[1] = h /\ g[b + 1] = h2
  BY <1>1, <1>2 DEF Flowing
<1>. HIDE DEF a, b
<1>8. hs \in [1..(a + b + 1) -> Nat]
  <2>1. ASSUME NEW k \in 1..(a + b + 1) PROVE hs[k] \in Nat
    <3>1. CASE k <= a
      <4>1. k \in 1..(a + 1)
        BY <1>3, <3>1
      <4>. QED  BY <1>7, <3>1, <4>1
    <3>2. CASE ~(k <= a)
      <4>1. k - a \in 1..(b + 1)
        BY <1>3, <3>2
      <4>. QED  BY <1>7, <3>2, <4>1
    <3>. QED  BY <3>1, <3>2
  <2>. QED  BY <2>1
<1>9. \A k \in 1..(a + 1) : hs[k] = f[k]
  <2>1. ASSUME NEW k \in 1..(a + 1) PROVE hs[k] = f[k]
    <3>1. k \in 1..(a + b + 1)
      BY <1>3
    <3>2. CASE k <= a
      BY <3>1, <3>2
    <3>3. CASE k = a + 1
      <4>1. ~(k <= a) /\ k - a = 1
        BY <1>3, <3>3
      <4>. QED  BY <1>7, <3>1, <3>3, <4>1
    <3>. QED  BY <1>3, <3>2, <3>3
  <2>. QED  BY <2>1
<1>10. \A k \in 1..(b + 1) : hs[a + k] = g[k]
  <2>1. ASSUME NEW k \in 1..(b + 1) PROVE hs[a + k] = g[k]
    <3>. DEFINE i == a + k
    <3>1. i \in 1..(a + b + 1) /\ ~(i <= a) /\ i - a = k
      BY <1>3
    <3>. HIDE DEF i
    <3>2. hs[i] = g[i - a]
      BY <3>1
    <3>. QED  BY <3>1, <3>2 DEF i
  <2>. QED  BY <2>1
<1>. HIDE DEF hs
<1>11. ASSUME NEW k \in 1..(a + b) PROVE Flow((s \o t)[k], hs[k], hs[k + 1])
  <2>1. CASE k <= a
    <3>1. k \in 1..a /\ k \in 1..(a + 1) /\ k + 1 \in 1..(a + 1)
      BY <1>3, <2>1
    <3>2. Flow(s[k], f[k], f[k + 1])
      BY <1>1, <3>1 DEF Flowing, a
    <3>. QED  BY <1>5, <1>9, <3>1, <3>2
  <2>2. CASE ~(k <= a)
    <3>. DEFINE j == k - a
    <3>1. j \in 1..b /\ j \in 1..(b + 1) /\ j + 1 \in 1..(b + 1) /\ a + j = k /\ a + (j + 1) = k + 1
      BY <1>3, <2>2
    <3>. HIDE DEF j
    <3>2. Flow(t[j], g[j], g[j + 1])
      BY <1>2, <3>1 DEF Flowing, b
    <3>3. (s \o t)[k] = t[j]
      BY <1>6, <3>1
    <3>4. hs[k] = g[j] /\ hs[k + 1] = g[j + 1]
      BY <1>10, <3>1
    <3>. QED  BY <3>2, <3>3, <3>4
  <2>. QED  BY <2>1, <2>2
<1>12. hs[1] = h /\ hs[a + b + 1] = h2
  <2>1. 1 \in 1..(a + 1) /\ b + 1 \in 1..(b + 1) /\ a + (b + 1) = a + b + 1
    BY <1>3
  <2>. QED  BY <1>7, <1>9, <1>10, <2>1
<1>13. Flowing(s \o t, hs, h, h2)
  BY <1>4, <1>8, <1>11, <1>12 DEF Flowing
<1>. QED  BY <1>13 DEF Flows

LEMMA FlowsFrom ==
  ASSUME NEW s, NEW h, NEW h2, IsSequence(s), Flows(s, h, h2)
  PROVE  h \in Nat /\ h2 \in Nat
<1>1. PICK hs : Flowing(s, hs, h, h2)
  BY DEF Flows
<1>2. Len(s) \in Nat
  BY SequenceIs
<1>. QED  BY <1>1, <1>2 DEF Flowing

(* The instructions whose height is known.                                  *)
LEMMA PushFlows ==
  ASSUME NEW v, NEW h \in Nat
  PROVE  Flow(PushInstr(v), h, h + 1)
BY DEF Flow, PushInstr

LEMMA OpcodeFlows ==
  ASSUME NEW opcode, opcode \notin {JUMP, JUMPI}, NEW h \in Nat, NEW h2 \in Nat,
         opcode \in Moves => Takes(opcode) <= h /\ h2 + Takes(opcode) = h + Gives(opcode)
  PROVE  Flow(OpcodeInstr(opcode), h, h2)
BY DEF Flow, OpcodeInstr

-----------------------------------------------------------------------------
(* The emitter's record.                                                    *)

Record(instrs, next, tracker, undefined) ==
  [stream |-> [instructions |-> instrs, nextLabelID |-> next],
   stackTracker |-> tracker, undefined |-> undefined]

LEMMA RecordFields ==
  ASSUME NEW s, NEW n, NEW t, NEW u
  PROVE  /\ Record(s, n, t, u).stream.instructions = s
         /\ Record(s, n, t, u).stream.nextLabelID = n
         /\ Record(s, n, t, u).stackTracker = t
         /\ Record(s, n, t, u).undefined = u
BY DEF Record

Instrs(e) == e.stream.instructions

IsRecord(e) == e = Record(Instrs(e), e.stream.nextLabelID, e.stackTracker, e.undefined)

LEMMA RecordIs ==
  ASSUME NEW s, NEW n, NEW t, NEW u
  PROVE  IsRecord(Record(s, n, t, u)) /\ Instrs(Record(s, n, t, u)) = s
BY RecordFields DEF IsRecord, Instrs

LEMMA WriteRecord ==
  ASSUME NEW s, NEW n, NEW t, NEW u, NEW more
  PROVE  Write(Record(s, n, t, u), more) = Record(s \o more, n, t, u)
<1>. DEFINE old == [instructions |-> s, nextLabelID |-> n]
            new == [instructions |-> s \o more, nextLabelID |-> n]
<1>1. emitAll(old, more) = new
  <2>1. old.instructions = s
    OBVIOUS
  <2>2. emitAll(old, more) = [old EXCEPT !.instructions = s \o more]
    BY <2>1, Zenon DEF emitAll
  <2>. DEFINE x == s \o more
  <2>3. [old EXCEPT !.instructions = x] = [instructions |-> x, nextLabelID |-> n]
    <3>. HIDE DEF x
    <3>. QED  OBVIOUS
  <2>. QED  BY <2>2, <2>3
<1>. HIDE DEF old, new
<1>2. Write([stream |-> old, stackTracker |-> t, undefined |-> u], more)
        = [stream |-> new, stackTracker |-> t, undefined |-> u]
  BY <1>1 DEF Write
<1>. QED  BY <1>2 DEF Record, old, new

LEMMA PushRecord ==
  ASSUME NEW s, NEW n, NEW t, NEW u, NEW v
  PROVE  Push(Record(s, n, t, u), v) = Record(s, n, Append(t, v), u)
<1>. DEFINE stream == [instructions |-> s, nextLabelID |-> n]
<1>. HIDE DEF stream
<1>1. Push([stream |-> stream, stackTracker |-> t, undefined |-> u], v)
        = [stream |-> stream, stackTracker |-> Append(t, v), undefined |-> u]
  BY DEF Push, trackerPush
<1>. QED  BY <1>1 DEF Record, stream

LEMMA PopRecord ==
  ASSUME NEW s, NEW n, NEW t, NEW u, NEW op
  PROVE  PopOperands(Record(s, n, t, u), op) =
           Record(s, n, SubSeq(t, 1, Len(t) - Len(op.operands)),
                  u \/ Len(t) - Len(op.operands) < 0)
<1>. DEFINE stream == [instructions |-> s, nextLabelID |-> n]
            left   == Len(t) - Len(op.operands)
<1>. HIDE DEF stream
<1>1. PopOperands([stream |-> stream, stackTracker |-> t, undefined |-> u], op)
        = [stream |-> stream, stackTracker |-> SubSeq(t, 1, left), undefined |-> u \/ left < 0]
  <2>. DEFINE e == [stream |-> stream, stackTracker |-> t, undefined |-> u]
              x == SubSeq(t, 1, left)
              y == u \/ left < 0
  <2>1. e.stackTracker = t /\ e.undefined = u
    OBVIOUS
  <2>2. [e EXCEPT !.stackTracker = x, !.undefined = y]
          = [stream |-> stream, stackTracker |-> x, undefined |-> y]
    <3>. HIDE DEF x, y
    <3>1. [e EXCEPT !.stackTracker = x] = [stream |-> stream, stackTracker |-> x, undefined |-> u]
      OBVIOUS
    <3>2. [[stream |-> stream, stackTracker |-> x, undefined |-> u] EXCEPT !.undefined = y]
            = [stream |-> stream, stackTracker |-> x, undefined |-> y]
      OBVIOUS
    <3>3. [e EXCEPT !.stackTracker = x, !.undefined = y]
            = [[e EXCEPT !.stackTracker = x] EXCEPT !.undefined = y]
      OBVIOUS
    <3>. QED  BY <3>1, <3>2, <3>3
  <2>. HIDE DEF e
  <2>3. PopOperands(e, op) = [e EXCEPT !.stackTracker = x, !.undefined = y]
    BY <2>1, Zenon DEF PopOperands
  <2>. QED  BY <2>2, <2>3 DEF e
<1>. QED  BY <1>1 DEF Record, stream

LEMMA ResetRecord ==
  ASSUME NEW s, NEW n, NEW t, NEW u
  PROVE  ResetTracker(Record(s, n, t, u)) = Record(s, n, <<>>, u)
BY DEF ResetTracker, Record, NewTracker

LEMMA TrackRecord ==
  ASSUME NEW s, NEW n, NEW t, NEW u, NEW x
  PROVE  [Record(s, n, t, u) EXCEPT !.stackTracker = x] = Record(s, n, x, u)
<1>. DEFINE stream == [instructions |-> s, nextLabelID |-> n]
<1>. HIDE DEF stream
<1>1. [[stream |-> stream, stackTracker |-> t, undefined |-> u] EXCEPT !.stackTracker = x]
        = [stream |-> stream, stackTracker |-> x, undefined |-> u]
  OBVIOUS
<1>. QED  BY <1>1 DEF Record, stream

-----------------------------------------------------------------------------
(* What emission does that writes no label: it appends instructions that    *)
(* are no labels, and keeps track of the stack's height if it is exact.     *)

Ordinary(instr) ==
  \/ \E v : instr = PushInstr(v)
  \/ \E opcode : instr = OpcodeInstr(opcode)

IsEmitter(V, e) ==
  /\ IsRecord(e)
  /\ e.stackTracker \in Seq(V)
  /\ IsSequence(Instrs(e))

Advance(V, exact, e, e2) ==
  /\ IsEmitter(V, e2)
  /\ e2.stream.nextLabelID = e.stream.nextLabelID
  /\ e.undefined => e2.undefined
  /\ \E frag :
       /\ IsSequence(frag)
       /\ Instrs(e2) = Instrs(e) \o frag
       /\ \A k \in 1..Len(frag) : Ordinary(frag[k])
       /\ exact /\ ~e2.undefined => Flows(frag, Len(e.stackTracker), Len(e2.stackTracker))

LEMMA AdvanceBy ==
  ASSUME NEW V, NEW exact, NEW s, IsSequence(s), NEW n, NEW t \in Seq(V), NEW u,
         NEW frag, IsSequence(frag), \A k \in 1..Len(frag) : Ordinary(frag[k]),
         NEW t2 \in Seq(V), NEW u2, u => u2,
         exact /\ ~u2 => Flows(frag, Len(t), Len(t2))
  PROVE  Advance(V, exact, Record(s, n, t, u), Record(s \o frag, n, t2, u2))
<1>. DEFINE e  == Record(s, n, t, u)
            e2 == Record(s \o frag, n, t2, u2)
<1>1. Instrs(e) = s /\ e.stream.nextLabelID = n /\ e.stackTracker = t /\ e.undefined = u
  BY RecordFields DEF Instrs
<1>2. /\ Instrs(e2) = s \o frag /\ e2.stream.nextLabelID = n
      /\ e2.stackTracker = t2 /\ e2.undefined = u2 /\ IsRecord(e2)
  <2>. DEFINE s2 == s \o frag
  <2>. HIDE DEF s2
  <2>1. /\ Record(s2, n, t2, u2).stream.instructions = s2
        /\ Record(s2, n, t2, u2).stream.nextLabelID = n
        /\ Record(s2, n, t2, u2).stackTracker = t2
        /\ Record(s2, n, t2, u2).undefined = u2
    BY RecordFields
  <2>2. IsRecord(Record(s2, n, t2, u2))
    BY RecordIs
  <2>. QED  BY <2>1, <2>2 DEF Instrs, s2
<1>3. IsSequence(s \o frag)
  BY Concatenation
<1>. HIDE DEF e, e2
<1>4. IsEmitter(V, e2)
  BY <1>2, <1>3 DEF IsEmitter
<1>5. Advance(V, exact, e, e2)
  BY <1>1, <1>2, <1>4 DEF Advance
<1>. QED  BY <1>5 DEF e, e2

LEMMA AdvanceNothing ==
  ASSUME NEW V, NEW exact, NEW e, IsEmitter(V, e)
  PROVE  Advance(V, exact, e, e)
<1>1. IsSequence(<<>>) /\ Len(<<>>) = 0
  BY Tuples
<1>2. Instrs(e) \o <<>> = Instrs(e)
  BY NothingAdded DEF IsEmitter
<1>3. Flows(<<>>, Len(e.stackTracker), Len(e.stackTracker))
  <2>1. Len(e.stackTracker) \in Nat
    BY DEF IsEmitter
  <2>. QED  BY <2>1, FlowsNone
<1>4. \E frag :
        /\ IsSequence(frag)
        /\ Instrs(e) = Instrs(e) \o frag
        /\ \A k \in 1..Len(frag) : Ordinary(frag[k])
        /\ exact /\ ~e.undefined => Flows(frag, Len(e.stackTracker), Len(e.stackTracker))
  <2>. DEFINE none == <<>>
  <2>1. \A k \in 1..Len(none) : Ordinary(none[k])
    BY <1>1
  <2>. HIDE DEF none
  <2>. QED  BY <1>1, <1>2, <1>3, <2>1 DEF none
<1>. QED  BY <1>4 DEF Advance

LEMMA AdvanceTwice ==
  ASSUME NEW V, NEW exact, NEW e, NEW e2, NEW e3, IsEmitter(V, e),
         Advance(V, exact, e, e2), Advance(V, exact, e2, e3)
  PROVE  Advance(V, exact, e, e3)
<1>1. PICK f : /\ IsSequence(f)
               /\ Instrs(e2) = Instrs(e) \o f
               /\ \A k \in 1..Len(f) : Ordinary(f[k])
               /\ exact /\ ~e2.undefined =>
                    Flows(f, Len(e.stackTracker), Len(e2.stackTracker))
  BY DEF Advance
<1>2. PICK g : /\ IsSequence(g)
               /\ Instrs(e3) = Instrs(e2) \o g
               /\ \A k \in 1..Len(g) : Ordinary(g[k])
               /\ exact /\ ~e3.undefined =>
                    Flows(g, Len(e2.stackTracker), Len(e3.stackTracker))
  BY DEF Advance
<1>3. IsSequence(f \o g) /\ Len(f \o g) = Len(f) + Len(g)
  BY <1>1, <1>2, Concatenation
<1>4. Instrs(e3) = Instrs(e) \o (f \o g)
  BY <1>1, <1>2, ConcatenationsAssociate DEF IsEmitter
<1>5. ASSUME NEW k \in 1..Len(f \o g) PROVE Ordinary((f \o g)[k])
  <2>1. Len(f) \in Nat /\ Len(g) \in Nat
    BY <1>1, <1>2, SequenceIs
  <2>2. CASE k <= Len(f)
    <3>1. k \in 1..Len(f)
      BY <2>1, <2>2, <1>3
    <3>2. (f \o g)[k] = f[k]
      BY <1>1, <1>2, <3>1, Concatenation
    <3>. QED  BY <1>1, <3>1, <3>2
  <2>3. CASE ~(k <= Len(f))
    <3>. DEFINE j == k - Len(f)
    <3>1. j \in 1..Len(g) /\ Len(f) + j = k
      BY <2>1, <2>3, <1>3
    <3>. HIDE DEF j
    <3>2. (f \o g)[Len(f) + j] = g[j]
      BY <1>1, <1>2, <3>1, Concatenation
    <3>. QED  BY <1>2, <3>1, <3>2
  <2>. QED  BY <2>2, <2>3
<1>6. e2.undefined => e3.undefined
  BY DEF Advance
<1>7. ASSUME exact, ~e3.undefined
      PROVE  Flows(f \o g, Len(e.stackTracker), Len(e3.stackTracker))
  BY <1>1, <1>2, <1>6, <1>7, FlowsJoin
<1>8. IsEmitter(V, e3) /\ e3.stream.nextLabelID = e.stream.nextLabelID
      /\ (e.undefined => e3.undefined)
  BY DEF Advance
<1>. QED  BY <1>3, <1>4, <1>5, <1>7, <1>8 DEF Advance

-----------------------------------------------------------------------------
(* Values that are on the stack or in memory.                               *)

LEMMA DepthFound ==
  ASSUME NEW V, NEW t \in Seq(V), NEW v, findDepth(t, v) > 0
  PROVE  /\ findDepth(t, v) \in 1..15
         /\ findDepth(t, v) < Len(t)
         /\ t[Len(t) - findDepth(t, v)] \in V
<1>. DEFINE limit  == SearchLimit(t)
            depths == {d \in 0..(limit - 1) : t[Len(t) - d] = v}
            depth  == findDepth(t, v)
<1>1. Len(t) \in Nat
  OBVIOUS
<1>2. limit \in 0..16 /\ limit <= Len(t)
  <2>1. Len(t) % 256 \in 0..255 /\ Len(t) % 256 <= Len(t)
    <3>. DEFINE l == Len(t)
    <3>. HIDE DEF l
    <3>1. l \in Nat => l % 256 \in 0..255 /\ l % 256 <= l
      OBVIOUS
    <3>. QED  BY <1>1, <3>1 DEF l
  <2>. DEFINE m == Len(t) % 256
  <2>2. limit = IF m < 16 THEN m ELSE 16
    BY DEF SearchLimit
  <2>. HIDE DEF m, limit
  <2>3. m \in 0..255 /\ m <= Len(t)
    BY <2>1 DEF m
  <2>. QED  BY <1>1, <2>2, <2>3
<1>3. depths # {}
  <2>1. depths = {} => depth = NotFound
    BY DEF findDepth
  <2>. QED  BY <2>1 DEF NotFound
<1>4. depth \in depths
  <2>1. depth = CHOOSE d \in depths : \A c \in depths : d <= c
    BY <1>3 DEF findDepth
  <2>2. depths \subseteq Nat
    BY <1>2
  <2>. HIDE DEF depths, depth
  <2>3. \E d \in depths : \A c \in depths : d <= c
    BY <1>3, <2>2, LeastNatural
  <2>. QED  BY <2>1, <2>3
<1>5. depth \in 0..(limit - 1) /\ depth > 0
  BY <1>4
<1>. HIDE DEF depth, limit
<1>6. depth \in 1..15 /\ depth < Len(t) /\ Len(t) - depth \in 1..Len(t)
  BY <1>1, <1>2, <1>5
<1>7. t[Len(t) - depth] \in V
  BY <1>6, ElementOfSeq
<1>. QED  BY <1>6, <1>7 DEF depth

LEMMA EmitStackValue ==
  ASSUME NEW V, NEW exact, NEW e, IsEmitter(V, e), NEW unit, NEW v, NEW at0
  PROVE  Advance(V, exact, e, emitStackValue(unit, e, v, at0))
<1>. DEFINE s == Instrs(e)
            n == e.stream.nextLabelID
            t == e.stackTracker
            u == e.undefined
            depth == findDepth(t, v)
<1>1. e = Record(s, n, t, u) /\ t \in Seq(V) /\ IsSequence(s)
  BY DEF IsEmitter, IsRecord
<1>2. CASE depth > 0 /\ ~isDeadAfter(unit.body, at0[1], at0[2], v)
  <2>. DEFINE t2 == Append(t, t[Len(t) - depth])
              frag == <<OpcodeInstr(DUP1 + depth)>>
  <2>1. depth \in 1..15 /\ depth < Len(t) /\ t[Len(t) - depth] \in V /\ Len(t) \in Nat
    BY <1>1, <1>2, DepthFound
  <2>2. emitStackValue(unit, e, v, at0) =
          Write([e EXCEPT !.stackTracker = trackerDup(@, depth)], frag)
    BY <1>2, Zenon DEF emitStackValue
  <2>3. trackerDup(t, depth) = t2
    <3>. HIDE DEF depth, t, t2
    <3>1. ~(depth >= Len(t))
      BY <2>1
    <3>. USE DEF t2
    <3>. QED  BY <3>1 DEF trackerDup
  <2>4. emitStackValue(unit, e, v, at0) = Record(s \o frag, n, t2, u)
    <3>. HIDE DEF depth, frag, t2, s, n, u
    <3>1. emitStackValue(unit, e, v, at0) = Write([e EXCEPT !.stackTracker = t2], frag)
      BY <2>2, <2>3
    <3>. HIDE DEF t
    <3>2. [e EXCEPT !.stackTracker = t2] = Record(s, n, t2, u)
      BY <1>1, TrackRecord
    <3>. QED  BY <3>1, <3>2, WriteRecord
  <2>5. t2 \in Seq(V) /\ Len(t2) = Len(t) + 1
    BY <1>1, <2>1
  <2>6. IsSequence(frag) /\ Len(frag) = 1 /\ frag[1] = OpcodeInstr(DUP1 + depth)
    BY Tuples
  <2>7. Flows(frag, Len(t), Len(t2))
    <3>. DEFINE k == depth + 1
                opcode == DUP1 + k - 1
    <3>0. DUP1 \in Nat
      BY WrittenNumbers
    <3>. HIDE DEF depth, t
    <3>1. k \in 1..16 /\ opcode = DUP1 + depth /\ k <= Len(t)
      BY <2>1, <3>0
    <3>2. opcode \in DupOpcodes /\ Takes(opcode) = k /\ Gives(opcode) = k + 1
      <4>. HIDE DEF k
      <4>. QED  BY <3>1, DupMoves
    <3>3. opcode \notin {JUMP, JUMPI}
      BY <3>2, WrittenNumbers
    <3>4. Takes(opcode) <= Len(t) /\ Len(t2) + Takes(opcode) = Len(t) + Gives(opcode)
      <4>. HIDE DEF t2
      <4>. QED  BY <2>1, <2>5, <3>1, <3>2
    <3>5. Len(t) \in Nat /\ Len(t2) \in Nat
      BY <2>1, <2>5
    <3>. HIDE DEF opcode, k, t2
    <3>6. Flow(OpcodeInstr(opcode), Len(t), Len(t2))
      BY <3>3, <3>4, <3>5, OpcodeFlows
    <3>7. Flows(<<OpcodeInstr(opcode)>>, Len(t), Len(t2))
      BY <3>5, <3>6, FlowsOne
    <3>. QED  BY <3>1, <3>7
  <2>8. \A k \in 1..Len(frag) : Ordinary(frag[k])
    BY <2>6 DEF Ordinary
  <2>. HIDE DEF frag, t2, s, n, t, u
  <2>9. Advance(V, exact, Record(s, n, t, u), Record(s \o frag, n, t2, u))
    BY <1>1, <2>5, <2>6, <2>7, <2>8, AdvanceBy
  <2>. QED  BY <1>1, <2>4, <2>9
<1>3. CASE ~(depth > 0 /\ ~isDeadAfter(unit.body, at0[1], at0[2], v))
  <2>1. emitStackValue(unit, e, v, at0) = e
    BY <1>3, Zenon DEF emitStackValue
  <2>. QED  BY <2>1, AdvanceNothing
<1>. QED  BY <1>2, <1>3

LEMMA EmitSpilledValue ==
  ASSUME NEW V, NEW exact, NEW e, IsEmitter(V, e), NEW v \in V, NEW offset
  PROVE  Advance(V, exact, e, emitSpilledValue(e, v, offset))
<1>. DEFINE s == Instrs(e)
            n == e.stream.nextLabelID
            t == e.stackTracker
            u == e.undefined
            frag == <<PushInstr(offset), OpcodeInstr(MLOAD)>>
            t2 == Append(t, v)
<1>1. e = Record(s, n, t, u) /\ t \in Seq(V) /\ IsSequence(s)
  BY DEF IsEmitter, IsRecord
<1>2. t2 \in Seq(V) /\ Len(t2) = Len(t) + 1 /\ Len(t) \in Nat
  BY <1>1
<1>3. emitSpilledValue(e, v, offset) = Record(s \o frag, n, t2, u)
  <2>. HIDE DEF s, n, t, u, frag
  <2>1. emitSpilledValue(e, v, offset) = Push(Write(e, frag), v)
    BY Zenon DEF emitSpilledValue, frag
  <2>2. Write(e, frag) = Record(s \o frag, n, t, u)
    BY <1>1, WriteRecord
  <2>. QED  BY <2>1, <2>2, PushRecord
<1>4. IsSequence(frag) /\ Len(frag) = 2
      /\ frag[1] = PushInstr(offset) /\ frag[2] = OpcodeInstr(MLOAD)
  BY Tuples
<1>5. \A k \in 1..Len(frag) : Ordinary(frag[k])
  BY <1>4 DEF Ordinary
<1>6. Flows(frag, Len(t), Len(t2))
  <2>. DEFINE h == Len(t)
  <2>1. h \in Nat /\ Len(t2) = h + 1
    BY <1>2
  <2>. HIDE DEF h, t, t2
  <2>2. Flow(PushInstr(offset), h, h + 1)
    BY <2>1, PushFlows
  <2>3. Flow(OpcodeInstr(MLOAD), h + 1, h + 1)
    <3>1. MLOAD \notin {JUMP, JUMPI}
      BY WrittenNumbers
    <3>. QED  BY <2>1, <3>1, WrittenMoves, OpcodeFlows
  <2>4. Flows(<<PushInstr(offset)>>, h, h + 1) /\ Flows(<<OpcodeInstr(MLOAD)>>, h + 1, h + 1)
    BY <2>1, <2>2, <2>3, FlowsOne
  <2>5. frag = <<PushInstr(offset)>> \o <<OpcodeInstr(MLOAD)>>
    OBVIOUS
  <2>6. IsSequence(<<PushInstr(offset)>>) /\ IsSequence(<<OpcodeInstr(MLOAD)>>)
    BY Tuples
  <2>7. Flows(frag, h, h + 1)
    BY <2>4, <2>5, <2>6, FlowsJoin
  <2>. QED  BY <2>1, <2>7 DEF h
<1>. HIDE DEF s, n, t, u, frag, t2
<1>7. Advance(V, exact, Record(s, n, t, u), Record(s \o frag, n, t2, u))
  BY <1>1, <1>2, <1>4, <1>5, <1>6, AdvanceBy
<1>. QED  BY <1>1, <1>3, <1>7

-----------------------------------------------------------------------------
(* Operations that have an opcode.                                          *)

(* What the emitter makes of the operation takes as many words as it has    *)
(* operands, and gives one for its result; or nothing comes after it.       *)
Exactly(unit, op) ==
  \/ OpcodeOf(unit, op) = NoOpcode
  \/ op.name = "constant" /\ op.operands = <<>> /\ op.results # {}
  \/ op.name = "invalid" /\ op.results = {}
  \/ IsPlain(op) /\ Fits(unit, op)

LEMMA Push32Apart == "PUSH32" \in DOMAIN Opcode /\ Opcode["PUSH32"] \notin Moves \cup {JUMP, JUMPI}
<1>1. "PUSH32" \in DOMAIN Opcode
  BY OpcodeRows
<1>2. "PUSH32" \notin ComputingNames \cup ConsumingNames
  BY DEF ComputingNames, Computing, ConsumingNames, Consuming
<1>3. {"PUSH32"} \cap (ComputingNames \cup ConsumingNames) = {}
  BY <1>2
<1>4. Opcode["PUSH32"] \notin DOMAIN Computes /\ Opcode["PUSH32"] \notin DOMAIN Consumes
  <2>1. {Opcode[name] : name \in {"PUSH32"}} \cap {Opcode[name] : name \in ComputingNames} = {}
    BY <1>1, <1>3, OpcodeNames, NumbersOf
  <2>2. {Opcode[name] : name \in {"PUSH32"}} \cap {Opcode[name] : name \in ConsumingNames} = {}
    BY <1>1, <1>3, OpcodeNames, NumbersOf
  <2>. QED  BY <2>1, <2>2, Classes
<1>5. Opcode["PUSH32"] \notin Exchanging
  <2>1. Opcode["PUSH32"] \notin 128..159
    BY <1>1, OpcodeNumbers
  <2>. QED  BY <2>1, WrittenNumbers DEF Exchanging
<1>6. Opcode["PUSH32"] \notin {MLOAD, MSTORE, JUMPDEST, PUSH0, JUMP, JUMPI}
  <2>1. {"PUSH32"} \cap (NamedOpcodes \ {"RETURN"}) = {}
    BY DEF NamedOpcodes
  <2>2. {Opcode[name] : name \in {"PUSH32"}}
          \cap {Opcode[name] : name \in NamedOpcodes \ {"RETURN"}} = {}
    BY <1>1, <2>1, OpcodeNames, NumbersOf
  <2>3. {MLOAD, MSTORE, JUMPDEST, PUSH0, JUMP, JUMPI}
          \subseteq {Opcode[name] : name \in NamedOpcodes \ {"RETURN"}}
    BY NamedNumbers DEF NamedOpcodes
  <2>. QED  BY <2>2, <2>3
<1>. QED  BY <1>1, <1>4, <1>5, <1>6 DEF Moves

(* The operations that are terminators and have an opcode.                  *)
LEMMA EndingOpcodes ==
  ASSUME NEW unit, NEW op, op.name \in {"stop", "return", "revert", "invalid", "selfdestruct"}
  PROVE  /\ OpcodeOf(unit, op) # NoOpcode
         /\ Opcode[OpcodeOf(unit, op)] \in DOMAIN Ends \cup {INVALID}
<1>. DEFINE plain  == Joined(ArithOpcodes, EnvironmentOpcodes)
            others == Joined(MachineOpcodes, CallOpcodes)
<1>1. DOMAIN plain = DOMAIN ArithOpcodes \cup DOMAIN EnvironmentOpcodes
  BY JoinedNames
<1>2. FixedOpcodes["stop"] = "STOP" /\ "stop" \in DOMAIN FixedOpcodes
  <2>1. "stop" \in DOMAIN ArithOpcodes /\ ArithOpcodes["stop"] = "STOP"
    BY DEF ArithOpcodes
  <2>2. "stop" \in DOMAIN plain /\ plain["stop"] = "STOP"
    BY <2>1, JoinedLeft
  <2>. QED  BY <2>2, JoinedLeft DEF FixedOpcodes
<1>3. ASSUME NEW name \in {"return", "revert", "invalid", "selfdestruct"}
      PROVE  FixedOpcodes[name] = CallOpcodes[name] /\ name \in DOMAIN FixedOpcodes
  <2>1. name \notin DOMAIN ArithOpcodes /\ name \notin DOMAIN EnvironmentOpcodes
        /\ name \notin DOMAIN MachineOpcodes
    BY DEF ArithOpcodes, EnvironmentOpcodes, MachineOpcodes
  <2>2. name \in DOMAIN CallOpcodes
    BY DEF CallOpcodes
  <2>3. name \in DOMAIN others /\ others[name] = CallOpcodes[name]
    BY <2>1, <2>2, JoinedRight
  <2>4. name \notin DOMAIN plain
    BY <1>1, <2>1
  <2>. QED  BY <2>3, <2>4, JoinedRight DEF FixedOpcodes
<1>4. OpcodeOf(unit, op) = FixedOpcodes[op.name]
  <2>1. op.name \in DOMAIN FixedOpcodes
    BY <1>2, <1>3
  <2>2. op.name # "constant" /\ op.name # "cmpi" /\ op.name # "xori"
    OBVIOUS
  <2>3. \A definers : getOpcode(op, definers) = FixedOpcodes[op.name]
    BY <2>1, <2>2 DEF getOpcode
  <2>. QED  BY <2>3 DEF OpcodeOf
<1>5. OpcodeOf(unit, op) \in {"STOP", "RETURN", "REVERT", "INVALID", "SELFDESTRUCT"}
  BY <1>2, <1>3, <1>4 DEF CallOpcodes
<1>6. {"STOP", "RETURN", "REVERT", "SELFDESTRUCT"} \subseteq EndingNames
  BY DEF EndingNames, Ending
<1>7. \A name \in EndingNames : Opcode[name] \in DOMAIN Ends
  BY Classes
<1>. QED  BY <1>5, <1>6, <1>7, NamedNumbers DEF NoOpcode

LEMMA InvalidOpcode ==
  ASSUME NEW unit, NEW op, op.name = "invalid"
  PROVE  Opcode[OpcodeOf(unit, op)] = INVALID
<1>. DEFINE plain  == Joined(ArithOpcodes, EnvironmentOpcodes)
            others == Joined(MachineOpcodes, CallOpcodes)
<1>1. DOMAIN plain = DOMAIN ArithOpcodes \cup DOMAIN EnvironmentOpcodes
  BY JoinedNames
<1>2. "invalid" \notin DOMAIN ArithOpcodes /\ "invalid" \notin DOMAIN EnvironmentOpcodes
      /\ "invalid" \notin DOMAIN MachineOpcodes /\ "invalid" \in DOMAIN CallOpcodes
      /\ CallOpcodes["invalid"] = "INVALID"
  BY DEF ArithOpcodes, EnvironmentOpcodes, MachineOpcodes, CallOpcodes
<1>3. "invalid" \in DOMAIN others /\ others["invalid"] = "INVALID"
  BY <1>2, JoinedRight
<1>4. "invalid" \notin DOMAIN plain
  BY <1>1, <1>2
<1>5. "invalid" \in DOMAIN FixedOpcodes /\ FixedOpcodes["invalid"] = "INVALID"
  BY <1>3, <1>4, JoinedRight DEF FixedOpcodes
<1>6. \A definers : getOpcode(op, definers) = "INVALID"
  BY <1>5 DEF getOpcode
<1>. QED  BY <1>6, NamedNumbers DEF OpcodeOf

LEMMA ConstantOpcodes ==
  ASSUME NEW unit, NEW op, op.name = "constant"
  PROVE  Opcode[OpcodeOf(unit, op)] \in {PUSH0, Opcode["PUSH32"]}
<1>1. \A definers : getOpcode(op, definers) \in {"PUSH0", "PUSH32"}
  <2>1. "constant" \notin DOMAIN FixedOpcodes
    <3>. DEFINE plain  == Joined(ArithOpcodes, EnvironmentOpcodes)
                others == Joined(MachineOpcodes, CallOpcodes)
    <3>1. DOMAIN plain = DOMAIN ArithOpcodes \cup DOMAIN EnvironmentOpcodes
          /\ DOMAIN others = DOMAIN MachineOpcodes \cup DOMAIN CallOpcodes
          /\ DOMAIN Joined(plain, others) = DOMAIN plain \cup DOMAIN others
      BY JoinedNames
    <3>2. "constant" \notin DOMAIN ArithOpcodes /\ "constant" \notin DOMAIN EnvironmentOpcodes
          /\ "constant" \notin DOMAIN MachineOpcodes /\ "constant" \notin DOMAIN CallOpcodes
      BY DEF ArithOpcodes, EnvironmentOpcodes, MachineOpcodes, CallOpcodes
    <3>. QED  BY <3>1, <3>2 DEF FixedOpcodes
  <2>2. \A definers : getOpcode(op, definers) = IF op.value = 0 THEN "PUSH0" ELSE "PUSH32"
    BY <2>1 DEF getOpcode
  <2>. QED  BY <2>2
<1>. QED  BY <1>1, NamedNumbers DEF OpcodeOf

LEMMA OpcodeExact ==
  ASSUME NEW unit, NEW op, OpcodeOf(unit, op) # NoOpcode, Exactly(unit, op),
         NEW h \in Nat, NEW h2 \in Nat, Len(op.operands) \in Nat, Len(op.operands) <= h,
         h2 + Len(op.operands) = h + (IF op.results = {} THEN 0 ELSE 1)
  PROVE  Flow(OpcodeInstr(Opcode[OpcodeOf(unit, op)]), h, h2)
<1>. DEFINE opcode == Opcode[OpcodeOf(unit, op)]
<1>1. CASE op.name = "constant" /\ op.operands = <<>> /\ op.results # {}
  <2>1. Len(op.operands) = 0 /\ h2 = h + 1
    BY <1>1
  <2>2. opcode \notin {JUMP, JUMPI}
    BY <1>1, ConstantOpcodes, Push32Apart, WrittenNumbers
  <2>3. opcode \in Moves => Takes(opcode) = 0 /\ Gives(opcode) = 1
    BY <1>1, ConstantOpcodes, Push32Apart, WrittenMoves
  <2>. HIDE DEF opcode
  <2>4. Flow(OpcodeInstr(opcode), h, h2)
    BY <2>1, <2>2, <2>3, OpcodeFlows
  <2>. QED  BY <2>4 DEF opcode
<1>2. CASE op.name = "invalid" /\ op.results = {}
  <2>1. opcode = INVALID /\ INVALID \notin Moves /\ INVALID \notin {JUMP, JUMPI}
    BY <1>2, InvalidOpcode, JumpsApart, WrittenNumbers
  <2>. HIDE DEF opcode
  <2>2. Flow(OpcodeInstr(opcode), h, h2)
    BY <2>1, OpcodeFlows
  <2>. QED  BY <2>2 DEF opcode
<1>3. CASE IsPlain(op) /\ Fits(unit, op)
  <2>1. /\ Takes(opcode) = Len(op.operands)
        /\ IF op.results = {} THEN opcode \in DOMAIN Consumes \cup DOMAIN Ends \cup {MSTORE}
           ELSE opcode \in DOMAIN Computes \cup {MLOAD}
    BY <1>3 DEF Fits
  <2>2. opcode \notin {JUMP, JUMPI}
    BY <2>1, ClassesApart, WrittenNumbers DEF Written
  <2>3. opcode \in Moves => Gives(opcode) = IF op.results = {} THEN 0 ELSE 1
    BY <2>1, ConsumeMoves, ComputeMoves, WrittenMoves, EndsApart
  <2>. HIDE DEF opcode
  <2>4. Flow(OpcodeInstr(opcode), h, h2)
    BY <2>1, <2>2, <2>3, OpcodeFlows
  <2>. QED  BY <2>4 DEF opcode
<1>. QED  BY <1>1, <1>2, <1>3 DEF Exactly

LEMMA EmitOpcode ==
  ASSUME NEW V, NEW exact, NEW e, IsEmitter(V, e), NEW unit, NEW op,
         op.results \subseteq V, Len(op.operands) \in Nat, exact => Exactly(unit, op)
  PROVE  Advance(V, exact, e, emitOpcode(unit, e, op))
<1>. DEFINE s == Instrs(e)
            n == e.stream.nextLabelID
            t == e.stackTracker
            u == e.undefined
            k == Len(op.operands)
            instr == OpcodeInstr(Opcode[OpcodeOf(unit, op)])
            left == Len(t) - k
            tp == SubSeq(t, 1, left)
            up == u \/ left < 0
            h2 == left + (IF op.results = {} THEN 0 ELSE 1)
            written == PopOperands(Write(e, <<instr>>), op)
<1>1. e = Record(s, n, t, u)
  BY DEF IsEmitter, IsRecord
<1>4. t \in Seq(V) /\ IsSequence(s) /\ Len(t) \in Nat /\ k \in Nat
  BY DEF IsEmitter
<1>. HIDE DEF s, n, t, u, k
<1>5. tp \in Seq(V) /\ (k <= Len(t) => Len(tp) = left)
  BY <1>4, AllButTheLast
<1>6. ~up => k <= Len(t) /\ ~u
  BY <1>4
<1>2. CASE OpcodeOf(unit, op) = NoOpcode
  <2>1. emitOpcode(unit, e, op) = e
    BY <1>2 DEF emitOpcode
  <2>. QED  BY <2>1, AdvanceNothing
<1>3. ASSUME OpcodeOf(unit, op) # NoOpcode
      PROVE  Advance(V, exact, e, emitOpcode(unit, e, op))
  <2>1. written = Record(s \o <<instr>>, n, tp, up)
    <3>. HIDE DEF instr
    <3>1. Write(e, <<instr>>) = Record(s \o <<instr>>, n, t, u)
      BY <1>1, WriteRecord
    <3>. QED  BY <3>1, PopRecord DEF k
  <2>2. tp \in Seq(V) /\ (~up => Len(tp) = left)
    <3>. HIDE DEF up, tp, left
    <3>. QED  BY <1>5, <1>6
  <2>3. ASSUME exact, ~up PROVE Flow(instr, Len(t), h2)
    <3>1. k <= Len(t) /\ h2 + k = Len(t) + (IF op.results = {} THEN 0 ELSE 1) /\ h2 \in Nat
      <4>1. k <= Len(t)
        BY <1>6, <2>3
      <4>. HIDE DEF up
      <4>. QED  BY <1>4, <4>1
    <3>. HIDE DEF t, h2
    <3>2. Len(op.operands) <= Len(t)
          /\ h2 + Len(op.operands) = Len(t) + (IF op.results = {} THEN 0 ELSE 1)
      BY <3>1 DEF k
    <3>3. Len(op.operands) \in Nat
      BY <1>4 DEF k
    <3>. QED  BY <1>4, <1>3, <2>3, <3>1, <3>2, <3>3, OpcodeExact
  <2>4. ASSUME exact, ~up PROVE Flows(<<instr>>, Len(t), h2)
    <3>1. Len(t) \in Nat /\ h2 \in Nat
      <4>1. k <= Len(t)
        BY <1>6, <2>4
      <4>. HIDE DEF up
      <4>. QED  BY <1>4, <4>1
    <3>. HIDE DEF t, h2, instr, up
    <3>. QED  BY <2>3, <2>4, <3>1, FlowsOne
  <2>5. IsSequence(<<instr>>) /\ Len(<<instr>>) = 1 /\ Ordinary(<<instr>>[1])
    BY Tuples DEF Ordinary
  <2>6. \A i \in 1..Len(<<instr>>) : Ordinary(<<instr>>[i])
    <3>. DEFINE one == <<instr>>
    <3>. HIDE DEF one
    <3>. QED  BY <2>5 DEF one
  <2>7. CASE op.results = {}
    <3>1. emitOpcode(unit, e, op) = written
      BY <1>3, <2>7 DEF emitOpcode
    <3>2. exact /\ ~up => Flows(<<instr>>, Len(t), Len(tp))
      <4>1. ASSUME exact, ~up PROVE h2 = Len(tp)
        <5>. HIDE DEF up, tp
        <5>. QED  BY <1>4, <2>2, <2>7, <4>1
      <4>. HIDE DEF h2, tp, up, t, instr
      <4>. QED  BY <2>4, <4>1
    <3>3. u => up
      OBVIOUS
    <3>. HIDE DEF s, n, t, u, instr, tp, up, written
    <3>4. Advance(V, exact, Record(s, n, t, u), Record(s \o <<instr>>, n, tp, up))
      BY <1>4, <2>2, <2>5, <2>6, <3>2, <3>3, AdvanceBy
    <3>. QED  BY <1>1, <2>1, <3>1, <3>4
  <2>8. ASSUME op.results # {}
        PROVE  Advance(V, exact, e, emitOpcode(unit, e, op))
    <3>. DEFINE r == CHOOSE r \in op.results : TRUE
                loc == unit.layout[r]
    <3>1. r \in V
      BY <2>8
    <3>2. emitOpcode(unit, e, op) = emitResult(unit, written, r)
      BY <1>3, <2>8 DEF emitOpcode
    <3>. HIDE DEF r, written
    <3>3. CASE ~IsSpilled(loc)
      <4>. DEFINE t2 == Append(tp, r)
      <4>1. emitResult(unit, written, r) = Push(written, r)
        BY <3>3, Zenon DEF emitResult
      <4>2. t2 \in Seq(V) /\ (~up => Len(t2) = h2)
        <5>. HIDE DEF tp, up, r
        <5>. QED  BY <1>4, <2>2, <2>8, <3>1
      <4>3. exact /\ ~up => Flows(<<instr>>, Len(t), Len(t2))
        <5>. HIDE DEF h2, t2, up, t, instr
        <5>. QED  BY <2>4, <4>2
      <4>4. u => up
        OBVIOUS
      <4>. HIDE DEF s, n, t, u, instr, tp, up, t2
      <4>5. Advance(V, exact, Record(s, n, t, u), Record(s \o <<instr>>, n, t2, up))
        BY <1>4, <2>5, <2>6, <4>2, <4>3, <4>4, AdvanceBy
      <4>6. Push(written, r) = Record(s \o <<instr>>, n, t2, up)
        BY <2>1, PushRecord DEF t2
      <4>. QED  BY <1>1, <3>2, <4>1, <4>5, <4>6
    <3>4. CASE IsSpilled(loc)
      <4>. DEFINE p == PushInstr(loc.memOffset)
                  store == <<p, OpcodeInstr(SWAP1), OpcodeInstr(MSTORE)>>
                  frag == <<instr>> \o store
      <4>1. emitResult(unit, written, r) = Write(written, store)
        BY <3>4, Zenon DEF emitResult
      <4>2. IsSequence(store) /\ Len(store) = 3 /\ store[1] = p /\ store[2] = OpcodeInstr(SWAP1)
            /\ store[3] = OpcodeInstr(MSTORE)
        BY Tuples
      <4>3. \A i \in 1..3 : Ordinary(store[i])
        BY <4>2 DEF Ordinary
      <4>4. ASSUME NEW h \in Nat, h = left + 1, left \in Nat
            PROVE  Flows(store, h, left)
        <5>. HIDE DEF left
        <5>1. Flow(p, h, h + 1)
          BY PushFlows
        <5>2. Flow(OpcodeInstr(SWAP1), h + 1, h + 1)
          <6>1. SWAP1 + 1 - 1 = SWAP1 /\ 1 \in 1..16 /\ SWAP1 \notin {JUMP, JUMPI}
            BY WrittenNumbers
          <6>2. Takes(SWAP1) = 2 /\ Gives(SWAP1) = 2
            BY <6>1, SwapMoves
          <6>. QED  BY <4>4, <6>1, <6>2, OpcodeFlows
        <5>3. Flow(OpcodeInstr(MSTORE), h + 1, left)
          <6>1. MSTORE \notin {JUMP, JUMPI}
            BY WrittenNumbers
          <6>. QED  BY <4>4, <6>1, WrittenMoves, OpcodeFlows
        <5>. HIDE DEF p
        <5>4. Flows(<<p>>, h, h + 1) /\ Flows(<<OpcodeInstr(SWAP1)>>, h + 1, h + 1)
              /\ Flows(<<OpcodeInstr(MSTORE)>>, h + 1, left)
          BY <4>4, <5>1, <5>2, <5>3, FlowsOne
        <5>5. IsSequence(<<p>>) /\ IsSequence(<<OpcodeInstr(SWAP1)>>)
              /\ IsSequence(<<OpcodeInstr(MSTORE)>>)
          BY Tuples
        <5>6. Flows(<<p>> \o <<OpcodeInstr(SWAP1)>>, h, h + 1)
              /\ IsSequence(<<p>> \o <<OpcodeInstr(SWAP1)>>)
          BY <5>4, <5>5, FlowsJoin, Concatenation
        <5>7. Flows((<<p>> \o <<OpcodeInstr(SWAP1)>>) \o <<OpcodeInstr(MSTORE)>>, h, left)
          BY <5>4, <5>5, <5>6, FlowsJoin
        <5>8. store = (<<p>> \o <<OpcodeInstr(SWAP1)>>) \o <<OpcodeInstr(MSTORE)>>
          OBVIOUS
        <5>. QED  BY <5>7, <5>8
      <4>. HIDE DEF store
      <4>5. exact /\ ~up => Flows(frag, Len(t), Len(tp))
        <5>1. ASSUME exact, ~up PROVE h2 \in Nat /\ h2 = left + 1 /\ left \in Nat /\ Len(tp) = left
          <6>1. k <= Len(t)
            BY <1>6, <5>1
          <6>. HIDE DEF up, tp
          <6>. QED  BY <1>4, <2>2, <2>8, <5>1, <6>1
        <5>. HIDE DEF h2, tp, up, t, instr, left
        <5>. QED  BY <2>4, <2>5, <4>2, <4>4, <5>1, FlowsJoin
      <4>6. IsSequence(frag) /\ Len(frag) = 4
        <5>. HIDE DEF instr
        <5>. DEFINE one == <<instr>>
        <5>1. IsSequence(one) /\ Len(one) = 1
          BY <2>5
        <5>. HIDE DEF one
        <5>2. IsSequence(one \o store) /\ Len(one \o store) = 4
          <6>1. IsSequence(store) /\ Len(store) = 3
            BY <4>2
          <6>2. IsSequence(one \o store) /\ Len(one \o store) = Len(one) + Len(store)
            BY <5>1, <6>1, Concatenation, Zenon
          <6>. QED  BY <5>1, <6>1, <6>2
        <5>. QED  BY <5>2, Zenon DEF one, frag
      <4>7. \A i \in 1..Len(frag) : Ordinary(frag[i])
        <5>. HIDE DEF instr
        <5>1. frag[1] = instr /\ \A i \in 1..3 : frag[1 + i] = store[i]
          <6>1. <<instr>>[1] = instr
            OBVIOUS
          <6>. DEFINE one == <<instr>>
          <6>2. IsSequence(one) /\ Len(one) = 1 /\ one[1] = instr
            BY <2>5, <6>1
          <6>. HIDE DEF one
          <6>3. (one \o store)[1] = instr /\ \A i \in 1..3 : (one \o store)[1 + i] = store[i]
            <7>1. IsSequence(store) /\ Len(store) = 3
              BY <4>2
            <7>6. IsSequence(one) /\ IsSequence(store)
              BY <6>2, <7>1
            <7>7. \A i \in 1..Len(one) : (one \o store)[i] = one[i]
              BY <7>6, Concatenation
            <7>2. \A i \in 1..Len(store) : (one \o store)[Len(one) + i] = store[i]
              BY <7>6, Concatenation
            <7>3. 1 \in 1..Len(one)
              BY <6>2
            <7>4. (one \o store)[1] = instr
              BY <6>2, <7>7, <7>3, Zenon
            <7>5. \A i \in 1..3 : (one \o store)[1 + i] = store[i]
              BY <6>2, <7>1, <7>2, Zenon
            <7>. QED  BY <7>4, <7>5
          <6>. QED  BY <6>3, Zenon DEF one, frag
        <5>2. ASSUME NEW i \in 1..4 PROVE Ordinary(frag[i])
          <6>. HIDE DEF frag
          <6>1. CASE i = 1
            BY <2>5, <5>1, <6>1
          <6>2. CASE i > 1
            <7>1. i - 1 \in 1..3 /\ 1 + (i - 1) = i
              BY <6>2
            <7>. QED  BY <4>3, <5>1, <7>1
          <6>. QED  BY <6>1, <6>2
        <5>. HIDE DEF frag
        <5>. QED  BY <4>6, <5>2
      <4>8. u => up
        OBVIOUS
      <4>9. Write(written, store) = Record(s \o frag, n, tp, up)
        <5>. HIDE DEF s, n, t, tp, up, instr
        <5>1. Write(written, store) = Record((s \o <<instr>>) \o store, n, tp, up)
          BY <2>1, WriteRecord
        <5>. DEFINE one == <<instr>>
        <5>2. IsSequence(one)
          BY <2>5
        <5>. HIDE DEF one
        <5>3. (s \o one) \o store = s \o (one \o store)
          <6>1. IsSequence(s) /\ IsSequence(store)
            BY <1>4, <4>2
          <6>. HIDE DEF store
          <6>. QED  BY <6>1, <5>2, ConcatenationsAssociate
        <5>. QED  BY <5>1, <5>3, Zenon DEF one, frag
      <4>. HIDE DEF s, n, t, u, instr, tp, up, frag
      <4>10. Advance(V, exact, Record(s, n, t, u), Record(s \o frag, n, tp, up))
        BY <1>4, <2>2, <4>5, <4>6, <4>7, <4>8, AdvanceBy
      <4>. QED  BY <1>1, <3>2, <4>1, <4>9, <4>10
    <3>. QED  BY <3>3, <3>4
  <2>. QED  BY <2>7, <2>8
<1>. QED  BY <1>2, <1>3

-----------------------------------------------------------------------------
(* Bringing values, one step after the other.                               *)

GoodOp(unit, V, exact, op) ==
  /\ op.results \subseteq V
  /\ Len(op.operands) \in Nat
  /\ exact => Exactly(unit, op)

GoodStep(unit, V, exact, step) ==
  \/ step.does = "emit" /\ GoodOp(unit, V, exact, OpAt(unit, step.at))
  \/ step.does = "bring" /\ step.value \in V

LEMMA EmitStep ==
  ASSUME NEW V, NEW exact, NEW e, IsEmitter(V, e), NEW unit, NEW step,
         GoodStep(unit, V, exact, step)
  PROVE  Advance(V, exact, e, emitStep(unit, e, step))
<1>1. ASSUME step.does = "emit", GoodOp(unit, V, exact, OpAt(unit, step.at))
      PROVE  Advance(V, exact, e, emitStep(unit, e, step))
  <2>. DEFINE op == OpAt(unit, step.at)
  <2>1. emitStep(unit, e, step) = emitOpcode(unit, e, op)
    BY <1>1, Zenon DEF emitStep
  <2>2. op.results \subseteq V /\ Len(op.operands) \in Nat /\ (exact => Exactly(unit, op))
    BY <1>1, Zenon DEF GoodOp
  <2>. HIDE DEF op
  <2>3. Advance(V, exact, e, emitOpcode(unit, e, op))
    BY <2>2, EmitOpcode
  <2>. QED  BY <2>1, <2>3
<1>2. ASSUME step.does = "bring", step.value \in V
      PROVE  Advance(V, exact, e, emitStep(unit, e, step))
  <2>. DEFINE v == step.value
              loc == unit.layout[v]
  <2>1. emitStep(unit, e, step) = emitHeld(unit, e, v, step.at)
    <3>1. step.does # "emit"
      BY <1>2
    <3>. QED  BY <3>1, Zenon DEF emitStep
  <2>2. v \in V
    BY <1>2
  <2>. HIDE DEF v
  <2>3. CASE loc.kind = "stack"
    <3>1. emitHeld(unit, e, v, step.at) = emitStackValue(unit, e, v, step.at)
      BY <2>3 DEF emitHeld, IsStack, IsSpilled
    <3>. QED  BY <2>1, <3>1, EmitStackValue
  <2>4. CASE loc.kind = "spilled"
    <3>1. emitHeld(unit, e, v, step.at) = emitSpilledValue(e, v, loc.memOffset)
      BY <2>4 DEF emitHeld, IsStack, IsSpilled
    <3>. QED  BY <2>1, <2>2, <3>1, EmitSpilledValue
  <2>5. CASE loc.kind \notin {"stack", "spilled"}
    <3>1. emitHeld(unit, e, v, step.at) = e
      BY <2>5 DEF emitHeld, IsStack, IsSpilled
    <3>. QED  BY <2>1, <3>1, AdvanceNothing
  <2>. QED  BY <2>3, <2>4, <2>5
<1>. QED  BY <1>1, <1>2 DEF GoodStep

(* The emitters between the steps. *)
Between(unit, e, steps, n, f) ==
  /\ f = [i \in 0..n |-> f[i]]
  /\ f[0] = e
  /\ \A i \in 1..n : f[i] = emitStep(unit, f[i - 1], steps[i])

LEMMA BetweenExists ==
  ASSUME NEW unit, NEW e, NEW steps, Len(steps) \in Nat
  PROVE  \E f : Between(unit, e, steps, Len(steps), f)
<1>. DEFINE N == Len(steps)
            T == {n \in 0..N : \E f : Between(unit, e, steps, n, f)}
<1>1. 0 \in T
  <2>. DEFINE g == [i \in 0..0 |-> e]
  <2>1. g[0] = e /\ g = [i \in 0..0 |-> g[i]]
    OBVIOUS
  <2>. HIDE DEF g
  <2>2. Between(unit, e, steps, 0, g)
    BY <2>1 DEF Between
  <2>. QED  BY <2>2
<1>2. ASSUME NEW n \in 0..(N - 1), n \in T PROVE n + 1 \in T
  <2>1. PICK f : Between(unit, e, steps, n, f)
    BY <1>2
  <2>. DEFINE next == emitStep(unit, f[n], steps[n + 1])
              g == [i \in 0..(n + 1) |-> IF i <= n THEN f[i] ELSE next]
  <2>2. g = [i \in 0..(n + 1) |-> g[i]]
    OBVIOUS
  <2>3. \A i \in 0..n : g[i] = f[i]
    OBVIOUS
  <2>4. g[n + 1] = next
    <3>. HIDE DEF next
    <3>. QED  OBVIOUS
  <2>. HIDE DEF g
  <2>5. g[0] = e
    BY <2>1, <2>3 DEF Between
  <2>6. ASSUME NEW i \in 1..(n + 1) PROVE g[i] = emitStep(unit, g[i - 1], steps[i])
    <3>1. CASE i = n + 1
      <4>1. g[i - 1] = f[n]
        BY <2>3, <3>1
      <4>2. g[i] = next
        BY <2>4, <3>1
      <4>. QED  BY <3>1, <4>1, <4>2
    <3>2. CASE i # n + 1
      <4>1. i \in 1..n /\ i \in 0..n /\ i - 1 \in 0..n
        BY <3>2
      <4>2. f[i] = emitStep(unit, f[i - 1], steps[i])
        BY <2>1, <4>1 DEF Between
      <4>. QED  BY <2>3, <4>1, <4>2
    <3>. QED  BY <3>1, <3>2
  <2>. HIDE DEF next
  <2>7. Between(unit, e, steps, n + 1, g)
    BY <2>2, <2>5, <2>6 DEF Between
  <2>8. n + 1 \in 0..N
    OBVIOUS
  <2>. QED  BY <2>7, <2>8
<1>. HIDE DEF T
<1>3. N \in Nat
  OBVIOUS
<1>. HIDE DEF N
<1>4. \A n \in 0..N : n \in T
  BY <1>1, <1>2, <1>3, CountUp
<1>5. N \in T
  BY <1>3, <1>4
<1>. QED  BY <1>5 DEF T, N

LEMMA EmitStepsIs ==
  ASSUME NEW unit, NEW e, NEW steps, Len(steps) \in Nat
  PROVE  \E f : /\ Between(unit, e, steps, Len(steps), f)
                /\ emitSteps(unit, e, steps) = f[Len(steps)]
<1>. DEFINE N == Len(steps)
            Step(f) == [n \in 0..N |-> IF n = 0 THEN e ELSE emitStep(unit, f[n - 1], steps[n])]
            after == CHOOSE f : f = Step(f)
<1>1. PICK f : Between(unit, e, steps, N, f)
  BY BetweenExists
<1>2. f = Step(f)
  <2>1. \A n \in 0..N : f[n] = IF n = 0 THEN e ELSE emitStep(unit, f[n - 1], steps[n])
    BY <1>1 DEF Between
  <2>2. f = [n \in 0..N |-> f[n]]
    BY <1>1 DEF Between
  <2>. QED  BY <2>1, <2>2
<1>3. after = Step(after)
  <2>. HIDE DEF Step
  <2>. QED  BY <1>2
<1>4. emitSteps(unit, e, steps) = after[N]
  BY DEF emitSteps
<1>5. Between(unit, e, steps, N, after)
  <2>. HIDE DEF after
  <2>1. N \in Nat
    OBVIOUS
  <2>2. after = [n \in 0..N |-> IF n = 0 THEN e ELSE emitStep(unit, after[n - 1], steps[n])]
    BY <1>3
  <2>3. after[0] = e
    BY <2>1, <2>2
  <2>4. \A n \in 1..N : after[n] = emitStep(unit, after[n - 1], steps[n])
    BY <2>1, <2>2
  <2>5. after = [n \in 0..N |-> after[n]]
    BY <2>2
  <2>. QED  BY <2>3, <2>4, <2>5 DEF Between
<1>. QED  BY <1>4, <1>5

LEMMA EmitSteps ==
  ASSUME NEW V, NEW exact, NEW e, IsEmitter(V, e), NEW unit, NEW steps, Len(steps) \in Nat,
         \A i \in 1..Len(steps) : GoodStep(unit, V, exact, steps[i])
  PROVE  Advance(V, exact, e, emitSteps(unit, e, steps))
<1>. DEFINE N == Len(steps)
<1>1. PICK f : Between(unit, e, steps, N, f) /\ emitSteps(unit, e, steps) = f[N]
  BY EmitStepsIs
<1>. DEFINE T == {n \in 0..N : Advance(V, exact, e, f[n])}
<1>2. 0 \in T
  <2>1. f[0] = e
    BY <1>1 DEF Between
  <2>. QED  BY <2>1, AdvanceNothing
<1>3. ASSUME NEW n \in 0..(N - 1), n \in T PROVE n + 1 \in T
  <2>1. n + 1 \in 1..N /\ (n + 1) - 1 = n /\ n + 1 \in 0..N
    OBVIOUS
  <2>2. f[n + 1] = emitStep(unit, f[n], steps[n + 1])
    BY <1>1, <2>1 DEF Between
  <2>3. Advance(V, exact, e, f[n]) /\ IsEmitter(V, f[n])
    BY <1>3 DEF Advance
  <2>4. GoodStep(unit, V, exact, steps[n + 1])
    BY <2>1
  <2>5. Advance(V, exact, f[n], f[n + 1])
    BY <2>2, <2>3, <2>4, EmitStep
  <2>6. Advance(V, exact, e, f[n + 1])
    BY <2>3, <2>5, AdvanceTwice
  <2>. QED  BY <2>1, <2>6
<1>. HIDE DEF T
<1>4. N \in Nat
  OBVIOUS
<1>. HIDE DEF N
<1>5. \A n \in 0..N : n \in T
  BY <1>2, <1>3, <1>4, CountUp
<1>6. N \in T
  BY <1>4, <1>5
<1>. QED  BY <1>1, <1>6 DEF T

-----------------------------------------------------------------------------
(* What is computed again.                                                  *)

LEMMA UnionUpTo ==
  ASSUME NEW n \in Nat, NEW sets, \A i \in 1..n : IsFiniteSet(sets[i])
  PROVE  IsFiniteSet(UNION {sets[i] : i \in 1..n})
<1>. DEFINE U(m) == UNION {sets[i] : i \in 1..m}
            T == {m \in 0..n : IsFiniteSet(U(m))}
<1>1. 0 \in T
  <2>1. U(0) = {}
    OBVIOUS
  <2>2. IsFiniteSet({})
    BY FS_EmptySet
  <2>. HIDE DEF U
  <2>. QED  BY <2>1, <2>2
<1>2. ASSUME NEW m \in 0..(n - 1), m \in T PROVE m + 1 \in T
  <2>1. U(m + 1) = U(m) \cup sets[m + 1]
    <3>1. 1..(m + 1) = 1..m \cup {m + 1}
      OBVIOUS
    <3>. QED  BY <3>1
  <2>2. m + 1 \in 1..n /\ m + 1 \in 0..n
    OBVIOUS
  <2>. HIDE DEF U
  <2>3. IsFiniteSet(U(m)) /\ IsFiniteSet(sets[m + 1])
    BY <1>2, <2>2
  <2>4. IsFiniteSet(U(m) \cup sets[m + 1])
    BY <2>3, FS_Union
  <2>. QED  BY <2>1, <2>2, <2>4
<1>. HIDE DEF T
<1>3. \A m \in 0..n : m \in T
  BY <1>1, <1>2, CountUp
<1>4. n \in T
  BY <1>3
<1>. QED  BY <1>4 DEF T

LEMMA PlacesFinite ==
  ASSUME NEW unit, Len(unit.body) \in Nat,
         \A b \in 1..Len(unit.body) : Len(unit.body[b].ops) \in Nat
  PROVE  IsFiniteSet(Places(unit))
<1>. DEFINE n == Len(unit.body)
            sets == [b \in 1..n |-> {b} \X (1..Len(unit.body[b].ops))]
<1>1. ASSUME NEW b \in 1..n PROVE IsFiniteSet(sets[b])
  <2>. DEFINE m == Len(unit.body[b].ops)
  <2>1. m \in Nat
    OBVIOUS
  <2>. HIDE DEF m
  <2>2. IsFiniteSet({b}) /\ IsFiniteSet(1..m)
    <3>1. IsFiniteSet({b})
      BY FS_Singleton
    <3>2. 1 \in Int /\ m \in Int
      BY <2>1
    <3>3. IsFiniteSet(1..m)
      BY <3>2, FS_Interval
    <3>. QED  BY <3>1, <3>3
  <2>3. IsFiniteSet({b} \X (1..m))
    BY <2>2, FS_Product
  <2>. QED  BY <2>3 DEF m
<1>2. Places(unit) = UNION {sets[b] : b \in 1..n}
  BY DEF Places
<1>. HIDE DEF sets
<1>3. IsFiniteSet(UNION {sets[b] : b \in 1..n})
  BY <1>1, UnionUpTo
<1>. QED  BY <1>2, <1>3

(* A place's rank: how many places of the function are before it.           *)
Earlier(unit, place) == {other \in Places(unit) : Before(other, place)}
Rank(unit, place) == Cardinality(Earlier(unit, place))

LEMMA PlaceIs ==
  ASSUME NEW unit, NEW place
  PROVE  place \in Places(unit) <=>
           \E b \in 1..Len(unit.body) : \E i \in 1..Len(unit.body[b].ops) : place = <<b, i>>
BY DEF Places

LEMMA RankOrders ==
  ASSUME NEW unit, Len(unit.body) \in Nat,
         \A b \in 1..Len(unit.body) : Len(unit.body[b].ops) \in Nat,
         NEW place \in Places(unit)
  PROVE  /\ Rank(unit, place) \in 0..Cardinality(Places(unit))
         /\ \A other \in Places(unit) :
              Before(other, place) => Rank(unit, other) < Rank(unit, place)
<1>1. IsFiniteSet(Places(unit))
  BY PlacesFinite
<1>2. \A other : Earlier(unit, other) \in SUBSET Places(unit)
  BY DEF Earlier
<1>3. \A other : IsFiniteSet(Earlier(unit, other))
                 /\ Rank(unit, other) <= Cardinality(Places(unit))
  BY <1>1, <1>2, FS_Subset DEF Rank
<1>4. \A other : Rank(unit, other) \in Nat
  BY <1>3, FS_CardinalityType DEF Rank
<1>5. Cardinality(Places(unit)) \in Nat
  BY <1>1, FS_CardinalityType
<1>6. ASSUME NEW other \in Places(unit), Before(other, place)
      PROVE  Rank(unit, other) < Rank(unit, place)
  <2>1. \A p \in Places(unit) : p[1] \in Nat /\ p[2] \in Nat
    BY PlaceIs
  <2>2. Earlier(unit, other) \subseteq Earlier(unit, place)
    BY <1>6, <2>1 DEF Earlier, Before
  <2>3. other \in Earlier(unit, place) /\ other \notin Earlier(unit, other)
    BY <1>6, <2>1 DEF Earlier, Before
  <2>4. Cardinality(Earlier(unit, other)) <= Cardinality(Earlier(unit, place))
        /\ (Cardinality(Earlier(unit, place)) = Cardinality(Earlier(unit, other))
             => Earlier(unit, place) = Earlier(unit, other))
    BY <1>3, <2>2, FS_Subset
  <2>. QED  BY <1>4, <2>3, <2>4 DEF Rank
<1>. QED  BY <1>3, <1>4, <1>5, <1>6

(* What emission relies on of a function.                                   *)
GoodUnit(unit, V, exact) ==
  /\ Len(unit.body) \in Nat
  /\ \A b \in 1..Len(unit.body) : Len(unit.body[b].ops) \in Nat
  /\ FunctionValues(unit.body) \subseteq V
  /\ \A place \in Places(unit) :
       /\ OpAt(unit, place).operands \in Seq(FunctionValues(unit.body))
       /\ GoodOp(unit, V, exact, OpAt(unit, place))
  /\ RecomputationEnds(unit)

Steps(unit) ==
  {Bring(v, place) : v \in FunctionValues(unit.body), place \in Places(unit)}
    \cup {EmitAgain(DefinedAt(unit, v)) : v \in Recomputed(unit)}

LEMMA StepsGood ==
  ASSUME NEW unit, NEW V, NEW exact, GoodUnit(unit, V, exact), NEW step \in Steps(unit)
  PROVE  GoodStep(unit, V, exact, step)
<1>1. CASE step \in {Bring(v, place) : v \in FunctionValues(unit.body), place \in Places(unit)}
  <2>1. step.does = "bring" /\ step.value \in FunctionValues(unit.body)
    BY <1>1 DEF Bring
  <2>. QED  BY <2>1 DEF GoodStep, GoodUnit
<1>2. CASE step \in {EmitAgain(DefinedAt(unit, v)) : v \in Recomputed(unit)}
  <2>1. PICK v \in Recomputed(unit) : step = EmitAgain(DefinedAt(unit, v))
    BY <1>2
  <2>2. \E place \in Places(unit) : v \in OpAt(unit, place).results
    BY DEF GoodUnit, RecomputationEnds
  <2>3. DefinedAt(unit, v) \in Places(unit)
    BY <2>2 DEF DefinedAt
  <2>4. step.does = "emit" /\ step.at \in Places(unit)
    BY <2>1, <2>3 DEF EmitAgain
  <2>. QED  BY <2>4 DEF GoodStep, GoodUnit
<1>. QED  BY <1>1, <1>2 DEF Steps

(* One round of the definition of emitRecompute.                            *)
Round(unit, again, v) ==
  LET place == DefinedAt(unit, v)
  IN  allSteps(unit, again, operandOrder(OpAt(unit, place)), place) \o <<EmitAgain(place)>>

LEMMA OperandOrder ==
  ASSUME NEW op, NEW S, op.operands \in Seq(S)
  PROVE  /\ operandOrder(op) \in Seq(S)
         /\ Len(operandOrder(op)) = Len(op.operands)
         /\ \A k \in 1..Len(operandOrder(op)) : operandOrder(op)[k] \in Uses(op)
<1>. DEFINE s == op.operands
            n == Len(s)
            r == [i \in 1..n |-> s[(n - i) + 1]]
<1>1. operandOrder(op) = r
  BY DEF operandOrder, Reverse
<1>2. n \in Nat /\ \A i \in 1..n : s[i] \in S
  OBVIOUS
<1>3. \A i \in 1..n : (n - i) + 1 \in 1..n
  BY <1>2
<1>4. r \in Seq(S) /\ Len(r) = n
  <2>. HIDE DEF n
  <2>1. r \in [1..n -> S]
    BY <1>2, <1>3
  <2>. HIDE DEF r
  <2>. QED  BY <1>2, <2>1
<1>5. \A k \in 1..n : r[k] \in Uses(op)
  <2>1. Uses(op) = {s[k] : k \in 1..n}
    BY DEF Uses
  <2>. HIDE DEF n, s
  <2>. QED  BY <1>3, <2>1
<1>. HIDE DEF r
<1>. QED  BY <1>1, <1>4, <1>5

LEMMA AllSteps ==
  ASSUME NEW unit, NEW again, NEW values \in Seq(FunctionValues(unit.body)),
         NEW place \in Places(unit),
         \A k \in 1..Len(values) :
           values[k] \in Recomputed(unit) => again[values[k]] \in Seq(Steps(unit))
  PROVE  allSteps(unit, again, values, place) \in Seq(Steps(unit))
<1>. DEFINE n == Len(values)
            seqs == [k \in 1..n |-> valueSteps(unit, again, values[k], place)]
<1>1. n \in Nat /\ \A k \in 1..n : values[k] \in FunctionValues(unit.body)
  OBVIOUS
<1>2. ASSUME NEW k \in 1..n PROVE seqs[k] \in Seq(Steps(unit))
  <2>. DEFINE v == values[k]
  <2>1. v \in FunctionValues(unit.body)
    BY <1>1
  <2>2. seqs[k] = valueSteps(unit, again, v, place)
    OBVIOUS
  <2>. HIDE DEF seqs
  <2>3. CASE IsRecompute(unit.layout[v])
    <3>1. v \in Recomputed(unit)
      BY <2>1, <2>3 DEF Recomputed
    <3>2. seqs[k] = again[v]
      BY <2>2, <2>3 DEF valueSteps
    <3>. QED  BY <3>1, <3>2
  <2>4. CASE ~IsRecompute(unit.layout[v])
    <3>1. seqs[k] = <<Bring(v, place)>>
      BY <2>2, <2>4 DEF valueSteps
    <3>2. Bring(v, place) \in Steps(unit)
      BY <2>1 DEF Steps
    <3>. QED  BY <3>1, <3>2
  <2>. QED  BY <2>3, <2>4
<1>3. seqs \in Seq(Seq(Steps(unit)))
  <2>1. seqs \in [1..n -> Seq(Steps(unit))]
    BY <1>2
  <2>. HIDE DEF seqs, n
  <2>. QED  BY <1>1, <2>1
<1>4. allSteps(unit, again, values, place) = FlattenSeq(seqs)
  BY Zenon DEF allSteps
<1>. QED  BY <1>3, <1>4, Flattened

(* f and g have the same steps for those of the values that are computed    *)
(* again.                                                                   *)
SameFor(unit, values, f, g) ==
  \A k \in 1..Len(values) : values[k] \in Recomputed(unit) => f[values[k]] = g[values[k]]

LEMMA AllStepsDependOn ==
  ASSUME NEW unit, NEW f, NEW g, NEW values, values \in Seq(FunctionValues(unit.body)),
         SameFor(unit, values, f, g), NEW place
  PROVE  allSteps(unit, f, values, place) = allSteps(unit, g, values, place)
<1>1. ASSUME NEW k \in 1..Len(values)
      PROVE  valueSteps(unit, f, values[k], place) = valueSteps(unit, g, values[k], place)
  <2>1. values[k] \in FunctionValues(unit.body)
    OBVIOUS
  <2>. QED  BY <2>1 DEF valueSteps, Recomputed, SameFor
<1>2. [k \in 1..Len(values) |-> valueSteps(unit, f, values[k], place)]
        = [k \in 1..Len(values) |-> valueSteps(unit, g, values[k], place)]
  BY <1>1
<1>. QED  BY <1>2 DEF allSteps

(* A value computed again, and the values that are computed again for it.   *)
LEMMA RecomputedIs ==
  ASSUME NEW unit, NEW V, NEW exact, GoodUnit(unit, V, exact), NEW v \in Recomputed(unit)
  PROVE  /\ DefinedAt(unit, v) \in Places(unit)
         /\ v \in FunctionValues(unit.body)
         /\ \A u \in Uses(OpAt(unit, DefinedAt(unit, v))) \cap Recomputed(unit) :
              Rank(unit, DefinedAt(unit, u)) < Rank(unit, DefinedAt(unit, v))
<1>1. ASSUME NEW w \in Recomputed(unit) PROVE DefinedAt(unit, w) \in Places(unit)
  <2>1. \E place \in Places(unit) : w \in OpAt(unit, place).results
    BY <1>1 DEF GoodUnit, RecomputationEnds
  <2>. QED  BY <2>1 DEF DefinedAt
<1>2. ASSUME NEW u \in Uses(OpAt(unit, DefinedAt(unit, v))) \cap Recomputed(unit)
      PROVE  Rank(unit, DefinedAt(unit, u)) < Rank(unit, DefinedAt(unit, v))
  <2>1. Before(DefinedAt(unit, u), DefinedAt(unit, v))
    BY <1>2 DEF GoodUnit, RecomputationEnds
  <2>2. Len(unit.body) \in Nat /\ \A b \in 1..Len(unit.body) : Len(unit.body[b].ops) \in Nat
    BY DEF GoodUnit
  <2>3. DefinedAt(unit, u) \in Places(unit) /\ DefinedAt(unit, v) \in Places(unit)
    BY <1>1, <1>2
  <2>. QED  BY <2>1, <2>2, <2>3, RankOrders
<1>3. v \in FunctionValues(unit.body)
  BY DEF Recomputed
<1>. QED  BY <1>1, <1>2, <1>3

LEMMA RoundSteps ==
  ASSUME NEW unit, NEW V, NEW exact, GoodUnit(unit, V, exact), NEW v \in Recomputed(unit), NEW f,
         \A u \in Uses(OpAt(unit, DefinedAt(unit, v))) \cap Recomputed(unit) :
           f[u] \in Seq(Steps(unit))
  PROVE  Round(unit, f, v) \in Seq(Steps(unit))
<1>. DEFINE place == DefinedAt(unit, v)
            op == OpAt(unit, place)
            order == operandOrder(op)
<1>1. place \in Places(unit)
  BY RecomputedIs
<1>2. op.operands \in Seq(FunctionValues(unit.body))
  BY <1>1 DEF GoodUnit
<1>3. order \in Seq(FunctionValues(unit.body)) /\ \A k \in 1..Len(order) : order[k] \in Uses(op)
  BY <1>2, OperandOrder
<1>4. \A k \in 1..Len(order) : order[k] \in Recomputed(unit) => f[order[k]] \in Seq(Steps(unit))
  BY <1>3
<1>5. EmitAgain(place) \in Steps(unit)
  BY <1>1 DEF Steps
<1>6. Round(unit, f, v) = allSteps(unit, f, order, place) \o <<EmitAgain(place)>>
  BY Zenon DEF Round
<1>. HIDE DEF order, op, place
<1>7. allSteps(unit, f, order, place) \in Seq(Steps(unit))
  BY <1>1, <1>3, <1>4, AllSteps
<1>. QED  BY <1>5, <1>6, <1>7

LEMMA RoundDependsOn ==
  ASSUME NEW unit, NEW V, NEW exact, GoodUnit(unit, V, exact), NEW v \in Recomputed(unit),
         NEW f, NEW g,
         \A u \in Uses(OpAt(unit, DefinedAt(unit, v))) \cap Recomputed(unit) : f[u] = g[u]
  PROVE  Round(unit, f, v) = Round(unit, g, v)
<1>. DEFINE place == DefinedAt(unit, v)
            op == OpAt(unit, place)
            order == operandOrder(op)
<1>1. place \in Places(unit)
  BY RecomputedIs
<1>2. op.operands \in Seq(FunctionValues(unit.body))
  BY <1>1 DEF GoodUnit
<1>3. order \in Seq(FunctionValues(unit.body)) /\ \A k \in 1..Len(order) : order[k] \in Uses(op)
  BY <1>2, OperandOrder
<1>4. SameFor(unit, order, f, g)
  BY <1>3 DEF SameFor
<1>. HIDE DEF order, op, place
<1>5. order \in Seq(FunctionValues(unit.body))
  BY <1>3
<1>7. allSteps(unit, f, order, place) = allSteps(unit, g, order, place)
  BY <1>4, <1>5, AllStepsDependOn
<1>. QED  BY <1>7 DEF Round, order, op, place

(* The rounds settle: a value has its steps after as many rounds as its     *)
(* rank.                                                                    *)
LEMMA RoundsSettle ==
  ASSUME NEW unit, NEW V, NEW exact, GoodUnit(unit, V, exact)
  PROVE  \E f : f = [v \in Recomputed(unit) |-> Round(unit, f, v)]
<1>. DEFINE R == Recomputed(unit)
            N == Cardinality(Places(unit)) + 1
            D == [R -> Seq(Steps(unit))]
            rank(v) == Rank(unit, DefinedAt(unit, v))
            next == [f \in D |-> [v \in R |-> Round(unit, f, v)]]
            step == [i \in 1..(N + 1) |-> next]
            none == [v \in R |-> <<>>]
<1>1. \A v \in R : rank(v) \in 0..(N - 1)
  <2>1. ASSUME NEW v \in R PROVE rank(v) \in 0..(N - 1)
    <3>1. DefinedAt(unit, v) \in Places(unit)
      BY RecomputedIs
    <3>2. Len(unit.body) \in Nat /\ \A b \in 1..Len(unit.body) : Len(unit.body[b].ops) \in Nat
      BY DEF GoodUnit
    <3>3. Rank(unit, DefinedAt(unit, v)) \in 0..Cardinality(Places(unit))
      BY <3>1, <3>2, RankOrders
    <3>4. Cardinality(Places(unit)) \in Nat
      BY <3>2, PlacesFinite, FS_CardinalityType
    <3>. QED  BY <3>3, <3>4
  <2>. QED  BY <2>1
<1>2. N \in Nat
  <2>1. Len(unit.body) \in Nat /\ \A b \in 1..Len(unit.body) : Len(unit.body[b].ops) \in Nat
    BY DEF GoodUnit
  <2>2. Cardinality(Places(unit)) \in Nat
    BY <2>1, PlacesFinite, FS_CardinalityType
  <2>. QED  BY <2>2
<1>. HIDE DEF N
<1>3. next \in [D -> D]
  <2>1. ASSUME NEW f \in D, NEW v \in R PROVE Round(unit, f, v) \in Seq(Steps(unit))
    <3>1. \A u \in Uses(OpAt(unit, DefinedAt(unit, v))) \cap Recomputed(unit) :
            f[u] \in Seq(Steps(unit))
      BY <2>1
    <3>. QED  BY <3>1, RoundSteps
  <2>2. ASSUME NEW f \in D PROVE [v \in R |-> Round(unit, f, v)] \in D
    BY <2>1
  <2>. HIDE DEF D
  <2>. QED  BY <2>2
<1>4. step \in [1..(N + 1) -> [D -> D]]
  <2>. HIDE DEF next, D
  <2>. QED  BY <1>3
<1>5. none \in D
  OBVIOUS
<1>6. PICK stage : Recursive(stage, N + 1, D, none, step)
  <2>1. N + 1 \in Nat
    BY <1>2
  <2>. HIDE DEF step, D, none
  <2>. QED  BY <1>4, <1>5, <2>1, RecursionUpTo
<1>7. /\ \A n \in 0..(N + 1) : stage[n] \in D
      /\ \A n \in 1..(N + 1) : stage[n] = next[stage[n - 1]]
  <2>1. \A n \in 1..(N + 1) : step[n] = next
    OBVIOUS
  <2>. HIDE DEF D, next, step, none
  <2>. QED  BY <1>6, <2>1 DEF Recursive
<1>8. \A n \in 1..(N + 1) : \A v \in R : stage[n][v] = Round(unit, stage[n - 1], v)
  <2>1. ASSUME NEW n \in 1..(N + 1), NEW v \in R
        PROVE  stage[n][v] = Round(unit, stage[n - 1], v)
    <3>1. stage[n - 1] \in D /\ stage[n] = next[stage[n - 1]]
      <4>1. n - 1 \in 0..(N + 1)
        BY <1>2
      <4>. HIDE DEF D, next
      <4>. QED  BY <1>7, <4>1
    <3>. DEFINE f == stage[n - 1]
    <3>. HIDE DEF f
    <3>2. f \in D => next[f] = [w \in R |-> Round(unit, f, w)]
      <4>. HIDE DEF D
      <4>. QED  OBVIOUS
    <3>. HIDE DEF D, next
    <3>3. stage[n] = [w \in R |-> Round(unit, f, w)]
      BY <3>1, <3>2 DEF f
    <3>. QED  BY <3>3 DEF f
  <2>. QED  BY <2>1
<1>. DEFINE T == {n \in 0..N : \A v \in R : rank(v) < n => stage[n + 1][v] = stage[n][v]}
<1>9. 0 \in T
  <2>1. \A v \in R : ~(rank(v) < 0)
    BY <1>1, <1>2
  <2>. HIDE DEF rank, R
  <2>. QED  BY <1>2, <2>1
<1>10. ASSUME NEW n \in 0..(N - 1), n \in T PROVE n + 1 \in T
  <2>1. n + 1 \in 0..N /\ n + 1 \in 1..(N + 1) /\ (n + 1) - 1 = n
        /\ n + 2 \in 1..(N + 1) /\ (n + 2) - 1 = n + 1 /\ (n + 1) + 1 = n + 2
    BY <1>2
  <2>2. ASSUME NEW v \in R, rank(v) < n + 1 PROVE stage[n + 2][v] = stage[n + 1][v]
    <3>1. ASSUME NEW u \in Uses(OpAt(unit, DefinedAt(unit, v))) \cap Recomputed(unit)
          PROVE  stage[n + 1][u] = stage[n][u]
      <4>1. rank(u) < rank(v)
        BY <3>1, RecomputedIs
      <4>2. rank(u) < n
        <5>1. rank(u) \in Nat /\ rank(v) \in Nat /\ n \in Nat
          BY <1>1, <1>2, <3>1
        <5>. HIDE DEF rank
        <5>. QED  BY <2>2, <4>1, <5>1
      <4>. QED  BY <1>10, <3>1, <4>2
    <3>2. Round(unit, stage[n + 1], v) = Round(unit, stage[n], v)
      BY <3>1, RoundDependsOn
    <3>3. stage[n + 2][v] = Round(unit, stage[n + 1], v)
          /\ stage[n + 1][v] = Round(unit, stage[n], v)
      <4>. HIDE DEF R
      <4>. QED  BY <1>8, <2>1
    <3>. QED  BY <3>2, <3>3
  <2>. HIDE DEF R, rank
  <2>. QED  BY <2>1, <2>2
<1>11. \A n \in 0..N : n \in T
  <2>. HIDE DEF T
  <2>. QED  BY <1>2, <1>9, <1>10, CountUp
<1>12. \A v \in R : stage[N + 1][v] = stage[N][v]
  <2>1. N \in T
    BY <1>2, <1>11
  <2>2. ASSUME NEW v \in R PROVE rank(v) < N
    <3>1. rank(v) \in 0..(N - 1)
      BY <1>1
    <3>. HIDE DEF rank
    <3>. QED  BY <1>2, <3>1
  <2>. HIDE DEF R, rank
  <2>. QED  BY <2>1, <2>2
<1>13. stage[N] = [v \in R |-> Round(unit, stage[N], v)]
  <2>1. N + 1 \in 1..(N + 1) /\ (N + 1) - 1 = N /\ N \in 0..(N + 1)
    BY <1>2
  <2>2. stage[N] \in D
    BY <1>7, <2>1
  <2>3. \A v \in R : stage[N][v] = Round(unit, stage[N], v)
    <3>. HIDE DEF R
    <3>. QED  BY <1>8, <1>12, <2>1
  <2>4. stage[N] = [v \in R |-> stage[N][v]]
    BY <2>2
  <2>. HIDE DEF R, D
  <2>. QED  BY <2>3, <2>4
<1>. QED  BY <1>13

(* The steps of a value that is computed again are steps of the function.   *)
LEMMA RecomputeSteps ==
  ASSUME NEW unit, NEW V, NEW exact, GoodUnit(unit, V, exact)
  PROVE  \A v \in Recomputed(unit) : emitRecompute(unit)[v] \in Seq(Steps(unit))
<1>. DEFINE R == Recomputed(unit)
            Def(f) == [v \in R |-> Round(unit, f, v)]
            again == CHOOSE f : f = Def(f)
            N == Cardinality(Places(unit)) + 1
            rank(v) == Rank(unit, DefinedAt(unit, v))
            T == {n \in 0..N : \A v \in R : rank(v) < n => again[v] \in Seq(Steps(unit))}
<1>1. emitRecompute(unit) = again
  BY DEF emitRecompute, Round
<1>2. again = Def(again)
  <2>1. \E f : f = Def(f)
    BY RoundsSettle
  <2>. HIDE DEF Def
  <2>. QED  BY <2>1
<1>. HIDE DEF again
<1>3. \A v \in R : again[v] = Round(unit, again, v)
  <2>1. again = [v \in R |-> Round(unit, again, v)]
    BY <1>2
  <2>. HIDE DEF R
  <2>. QED  BY <2>1
<1>4. Len(unit.body) \in Nat /\ \A b \in 1..Len(unit.body) : Len(unit.body[b].ops) \in Nat
  BY DEF GoodUnit
<1>5. N \in Nat
  <2>1. Cardinality(Places(unit)) \in Nat
    BY <1>4, PlacesFinite, FS_CardinalityType
  <2>. QED  BY <2>1
<1>6. ASSUME NEW v \in R PROVE rank(v) \in 0..(N - 1)
  <2>1. DefinedAt(unit, v) \in Places(unit)
    BY RecomputedIs
  <2>2. Rank(unit, DefinedAt(unit, v)) \in 0..Cardinality(Places(unit))
    BY <1>4, <2>1, RankOrders
  <2>3. Cardinality(Places(unit)) \in Nat
    BY <1>4, PlacesFinite, FS_CardinalityType
  <2>. QED  BY <2>2, <2>3
<1>. HIDE DEF N
<1>7. 0 \in T
  <2>1. \A v \in R : ~(rank(v) < 0)
    BY <1>5, <1>6
  <2>. HIDE DEF rank, R
  <2>. QED  BY <1>5, <2>1
<1>8. ASSUME NEW n \in 0..(N - 1), n \in T PROVE n + 1 \in T
  <2>1. ASSUME NEW v \in R, rank(v) < n + 1 PROVE again[v] \in Seq(Steps(unit))
    <3>1. ASSUME NEW u \in Uses(OpAt(unit, DefinedAt(unit, v))) \cap Recomputed(unit)
          PROVE  again[u] \in Seq(Steps(unit))
      <4>1. rank(u) < rank(v)
        BY <3>1, RecomputedIs
      <4>2. rank(u) < n
        <5>1. rank(u) \in Nat /\ rank(v) \in Nat /\ n \in Nat
          BY <1>5, <1>6, <3>1
        <5>. HIDE DEF rank
        <5>. QED  BY <2>1, <4>1, <5>1
      <4>. QED  BY <1>8, <3>1, <4>2
    <3>2. Round(unit, again, v) \in Seq(Steps(unit))
      BY <3>1, RoundSteps
    <3>. QED  BY <1>3, <3>2
  <2>2. n + 1 \in 0..N
    BY <1>5
  <2>. HIDE DEF R, rank
  <2>. QED  BY <2>1, <2>2
<1>9. \A n \in 0..N : n \in T
  <2>. HIDE DEF T
  <2>. QED  BY <1>5, <1>7, <1>8, CountUp
<1>10. ASSUME NEW v \in R PROVE again[v] \in Seq(Steps(unit))
  <2>1. N \in T
    BY <1>5, <1>9
  <2>2. rank(v) < N
    <3>1. rank(v) \in 0..(N - 1)
      BY <1>6
    <3>. HIDE DEF rank
    <3>. QED  BY <1>5, <3>1
  <2>. HIDE DEF rank, R
  <2>. QED  BY <2>1, <2>2
<1>. QED  BY <1>1, <1>10

(* Bringing values writes no label, and keeps track of the stack.           *)
LEMMA EmitValues ==
  ASSUME NEW unit, NEW V, NEW exact, GoodUnit(unit, V, exact), NEW e, IsEmitter(V, e),
         NEW values \in Seq(FunctionValues(unit.body)), NEW place \in Places(unit)
  PROVE  Advance(V, exact, e, emitValues(unit, e, values, place))
<1>. DEFINE steps == allSteps(unit, emitRecompute(unit), values, place)
<1>1. steps \in Seq(Steps(unit))
  BY RecomputeSteps, AllSteps
<1>2. emitValues(unit, e, values, place) = emitSteps(unit, e, steps)
  BY DEF emitValues
<1>. HIDE DEF steps
<1>3. Len(steps) \in Nat
  BY <1>1
<1>4. \A i \in 1..Len(steps) : GoodStep(unit, V, exact, steps[i])
  <2>1. \A i \in 1..Len(steps) : steps[i] \in Steps(unit)
    BY <1>1
  <2>. QED  BY <2>1, StepsGood
<1>5. Advance(V, exact, e, emitSteps(unit, e, steps))
  BY <1>3, <1>4, EmitSteps
<1>. QED  BY <1>2, <1>5

LEMMA ScheduleOperands ==
  ASSUME NEW unit, NEW V, NEW exact, GoodUnit(unit, V, exact), NEW e, IsEmitter(V, e),
         NEW place \in Places(unit)
  PROVE  Advance(V, exact, e, scheduleOperands(unit, e, OpAt(unit, place), place))
<1>1. OpAt(unit, place).operands \in Seq(FunctionValues(unit.body))
  BY DEF GoodUnit
<1>2. operandOrder(OpAt(unit, place)) \in Seq(FunctionValues(unit.body))
  BY <1>1, OperandOrder
<1>3. Advance(V, exact, e, emitValues(unit, e, operandOrder(OpAt(unit, place)), place))
  BY <1>2, EmitValues
<1>. QED  BY <1>3 DEF scheduleOperands

-----------------------------------------------------------------------------
(* Operations that jump.                                                    *)

Known(instr, next) ==
  Ordinary(instr) \/ \E l \in 0..(next - 1) : instr = LabelRefInstr(l)

(* Instructions have been appended that define no label.                    *)
Adds(V, e, e2) ==
  /\ IsEmitter(V, e2)
  /\ e2.stream.nextLabelID = e.stream.nextLabelID
  /\ e.undefined => e2.undefined
  /\ \E frag :
       /\ IsSequence(frag)
       /\ Instrs(e2) = Instrs(e) \o frag
       /\ \A k \in 1..Len(frag) : Known(frag[k], e.stream.nextLabelID)

(* The machine does not go on after the last instruction.                   *)
Ended(code) ==
  /\ Len(code) >= 1
  /\ \E opcode : opcode \notin Moves \cup {JUMPI} /\ code[Len(code)] = OpcodeInstr(opcode)

LEMMA AdvanceAdds ==
  ASSUME NEW V, NEW exact, NEW e, NEW e2, Advance(V, exact, e, e2)
  PROVE  Adds(V, e, e2)
<1>1. PICK frag : /\ IsSequence(frag)
                  /\ Instrs(e2) = Instrs(e) \o frag
                  /\ \A k \in 1..Len(frag) : Ordinary(frag[k])
  BY DEF Advance
<1>2. \A k \in 1..Len(frag) : Known(frag[k], e.stream.nextLabelID)
  BY <1>1 DEF Known
<1>. QED  BY <1>1, <1>2 DEF Advance, Adds

LEMMA AddsTwice ==
  ASSUME NEW V, NEW e, NEW e2, NEW e3, IsEmitter(V, e), Adds(V, e, e2), Adds(V, e2, e3)
  PROVE  Adds(V, e, e3)
<1>. DEFINE next == e.stream.nextLabelID
<1>1. PICK f : /\ IsSequence(f)
               /\ Instrs(e2) = Instrs(e) \o f
               /\ \A k \in 1..Len(f) : Known(f[k], next)
  BY DEF Adds
<1>2. PICK g : /\ IsSequence(g)
               /\ Instrs(e3) = Instrs(e2) \o g
               /\ \A k \in 1..Len(g) : Known(g[k], next)
  BY DEF Adds
<1>3. IsSequence(f \o g) /\ Len(f \o g) = Len(f) + Len(g)
  BY <1>1, <1>2, Concatenation
<1>4. Instrs(e3) = Instrs(e) \o (f \o g)
  <2>1. IsSequence(Instrs(e))
    BY DEF IsEmitter
  <2>2. (Instrs(e) \o f) \o g = Instrs(e) \o (f \o g)
    BY <1>1, <1>2, <2>1, ConcatenationsAssociate
  <2>. QED  BY <1>1, <1>2, <2>2
<1>5. ASSUME NEW k \in 1..Len(f \o g) PROVE Known((f \o g)[k], next)
  <2>1. Len(f) \in Nat /\ Len(g) \in Nat
    BY <1>1, <1>2, SequenceIs
  <2>2. CASE k <= Len(f)
    <3>1. k \in 1..Len(f)
      BY <2>1, <2>2, <1>3
    <3>2. (f \o g)[k] = f[k]
      BY <1>1, <1>2, <3>1, Concatenation
    <3>. QED  BY <1>1, <3>1, <3>2
  <2>3. CASE ~(k <= Len(f))
    <3>. DEFINE j == k - Len(f)
    <3>1. j \in 1..Len(g) /\ Len(f) + j = k
      BY <2>1, <2>3, <1>3
    <3>. HIDE DEF j
    <3>2. (f \o g)[Len(f) + j] = g[j]
      BY <1>1, <1>2, <3>1, Concatenation
    <3>. QED  BY <1>2, <3>1, <3>2
  <2>. QED  BY <2>2, <2>3
<1>6. IsEmitter(V, e3) /\ e3.stream.nextLabelID = next /\ (e.undefined => e3.undefined)
  BY DEF Adds
<1>. QED  BY <1>3, <1>4, <1>5, <1>6 DEF Adds

LEMMA WriteIs ==
  ASSUME NEW V, NEW e, IsEmitter(V, e), NEW frag, IsSequence(frag)
  PROVE  /\ IsEmitter(V, Write(e, frag))
         /\ Instrs(Write(e, frag)) = Instrs(e) \o frag
         /\ Write(e, frag).stream.nextLabelID = e.stream.nextLabelID
         /\ Write(e, frag).stackTracker = e.stackTracker
         /\ Write(e, frag).undefined = e.undefined
<1>. DEFINE s == Instrs(e)
            n == e.stream.nextLabelID
            t == e.stackTracker
            u == e.undefined
            s2 == s \o frag
<1>1. e = Record(s, n, t, u)
  BY DEF IsEmitter, IsRecord
<1>2. t \in Seq(V) /\ IsSequence(s)
  BY DEF IsEmitter
<1>. HIDE DEF s, n, t, u
<1>3. Write(e, frag) = Record(s2, n, t, u)
  BY <1>1, WriteRecord
<1>4. IsSequence(s2)
  BY <1>2, Concatenation
<1>. HIDE DEF s2
<1>5. Instrs(Write(e, frag)) = s2 /\ IsRecord(Write(e, frag))
  BY <1>3, RecordIs
<1>6. /\ Write(e, frag).stream.nextLabelID = n
      /\ Write(e, frag).stackTracker = t
      /\ Write(e, frag).undefined = u
  BY <1>3, RecordFields
<1>7. IsEmitter(V, Write(e, frag))
  BY <1>2, <1>4, <1>5, <1>6 DEF IsEmitter
<1>. QED  BY <1>5, <1>6, <1>7 DEF s, n, t, u, s2

LEMMA WriteAdds ==
  ASSUME NEW V, NEW e, IsEmitter(V, e), NEW frag, IsSequence(frag),
         \A k \in 1..Len(frag) : Known(frag[k], e.stream.nextLabelID)
  PROVE  Adds(V, e, Write(e, frag))
<1>1. /\ IsEmitter(V, Write(e, frag))
      /\ Instrs(Write(e, frag)) = Instrs(e) \o frag
      /\ Write(e, frag).stream.nextLabelID = e.stream.nextLabelID
      /\ Write(e, frag).undefined = e.undefined
  BY WriteIs
<1>. QED  BY <1>1 DEF Adds

LEMMA EndedBy ==
  ASSUME NEW s, IsSequence(s), NEW frag, IsSequence(frag), Ended(frag)
  PROVE  Ended(s \o frag)
<1>. DEFINE m == Len(s)
            n == Len(frag)
<1>1. m \in Nat /\ n \in Nat
  BY SequenceIs
<1>2. n >= 1
  BY DEF Ended
<1>3. Len(s \o frag) = m + n
  BY Concatenation
<1>4. n \in 1..n
  BY <1>1, <1>2
<1>5. (s \o frag)[m + n] = frag[n]
  BY <1>4, Concatenation
<1>6. m + n >= 1
  BY <1>1, <1>2
<1>. HIDE DEF m, n
<1>7. PICK opcode : opcode \notin Moves \cup {JUMPI} /\ frag[n] = OpcodeInstr(opcode)
  BY DEF Ended, n
<1>. QED  BY <1>3, <1>5, <1>6, <1>7 DEF Ended

LEMMA Longer ==
  ASSUME NEW V, NEW exact, NEW e, IsEmitter(V, e), NEW m, Advance(V, exact, e, m),
         NEW frag, IsSequence(frag), Ended(frag)
  PROVE  Len(Instrs(m) \o frag) > Len(Instrs(e))
<1>1. PICK part : IsSequence(part) /\ Instrs(m) = Instrs(e) \o part
  BY DEF Advance
<1>2. IsSequence(Instrs(e)) /\ IsSequence(Instrs(m))
  BY DEF IsEmitter, Advance
<1>3. Len(Instrs(m)) = Len(Instrs(e)) + Len(part) /\ Len(Instrs(e)) \in Nat /\ Len(part) \in Nat
  BY <1>1, <1>2, Concatenation, SequenceIs
<1>4. Len(Instrs(m) \o frag) = Len(Instrs(m)) + Len(frag) /\ Len(frag) \in Nat
  BY <1>2, Concatenation, SequenceIs
<1>5. Len(frag) >= 1
  BY DEF Ended
<1>. QED  BY <1>3, <1>4, <1>5

LEMMA JumpEnds ==
  ASSUME NEW s, IsSequence(s)
  PROVE  Ended(s \o <<OpcodeInstr(JUMP)>>)
<1>. DEFINE one == <<OpcodeInstr(JUMP)>>
<1>1. Len(one) = 1 /\ one[1] = OpcodeInstr(JUMP) /\ IsSequence(one)
  BY Tuples
<1>2. JUMP \notin Moves \cup {JUMPI}
  BY JumpsApart, WrittenNumbers
<1>. HIDE DEF one
<1>3. Ended(one)
  BY <1>1, <1>2 DEF Ended
<1>. QED  BY <1>1, <1>3, EndedBy DEF one

(* A jump to a block, after some values have been brought.                  *)
JumpTo(l, jump) == <<LabelRefInstr(l), OpcodeInstr(jump)>>

LEMMA JumpToIs ==
  ASSUME NEW l, NEW jump, NEW next, l \in 0..(next - 1)
  PROVE  /\ IsSequence(JumpTo(l, jump)) /\ Len(JumpTo(l, jump)) = 2
         /\ JumpTo(l, jump)[1] = LabelRefInstr(l) /\ JumpTo(l, jump)[2] = OpcodeInstr(jump)
         /\ \A k \in 1..Len(JumpTo(l, jump)) : Known(JumpTo(l, jump)[k], next)
         /\ jump = JUMP => Ended(JumpTo(l, jump))
<1>. DEFINE frag == JumpTo(l, jump)
<1>1. IsSequence(frag) /\ Len(frag) = 2 /\ frag[1] = LabelRefInstr(l)
      /\ frag[2] = OpcodeInstr(jump)
  BY Tuples DEF JumpTo
<1>2. \A k \in 1..Len(frag) : Known(frag[k], next)
  BY <1>1 DEF Known, Ordinary
<1>3. jump = JUMP => Ended(frag)
  BY <1>1, JumpsApart, WrittenNumbers DEF Ended
<1>. QED  BY <1>1, <1>2, <1>3

LEMMA EmitJumpWith ==
  ASSUME NEW unit, NEW V, NEW exact, GoodUnit(unit, V, exact), NEW e, IsEmitter(V, e),
         NEW values \in Seq(FunctionValues(unit.body)), NEW place \in Places(unit),
         NEW b, NEW jump, BlockLabel(unit, b) \in 0..(e.stream.nextLabelID - 1)
  PROVE  /\ Adds(V, e, emitJumpWith(unit, e, values, place, b, jump))
         /\ jump = JUMP => Ended(Instrs(emitJumpWith(unit, e, values, place, b, jump)))
<1>. DEFINE m == emitValues(unit, e, values, place)
            frag == JumpTo(BlockLabel(unit, b), jump)
            e2 == Write(m, frag)
<1>1. Advance(V, exact, e, m)
  BY EmitValues
<1>2. Adds(V, e, m) /\ IsEmitter(V, m) /\ m.stream.nextLabelID = e.stream.nextLabelID
  BY <1>1, AdvanceAdds DEF Advance
<1>3. emitJumpWith(unit, e, values, place, b, jump) = e2
  BY DEF emitJumpWith, JumpTo
<1>. HIDE DEF m
<1>4. /\ IsSequence(frag)
      /\ \A k \in 1..Len(frag) : Known(frag[k], e.stream.nextLabelID)
      /\ jump = JUMP => Ended(frag)
  BY JumpToIs
<1>. HIDE DEF frag
<1>5. Adds(V, m, e2)
  BY <1>2, <1>4, WriteAdds
<1>6. Adds(V, e, e2)
  <2>. HIDE DEF e2
  <2>. QED  BY <1>2, <1>5, AddsTwice
<1>7. Instrs(e2) = Instrs(m) \o frag /\ IsSequence(Instrs(m))
  BY <1>2, <1>4, WriteIs DEF IsEmitter
<1>8. jump = JUMP => Ended(Instrs(e2))
  <2>. HIDE DEF e2
  <2>. QED  BY <1>4, <1>7, EndedBy
<1>. QED  BY <1>3, <1>6, <1>8

LEMMA EmitBranch ==
  ASSUME NEW unit, NEW V, NEW exact, GoodUnit(unit, V, exact), NEW e, IsEmitter(V, e),
         NEW place \in Places(unit),
         BlockLabel(unit, OpAt(unit, place).dest) \in 0..(e.stream.nextLabelID - 1)
  PROVE  /\ Adds(V, e, emitBranch(unit, e, OpAt(unit, place), place))
         /\ Ended(Instrs(emitBranch(unit, e, OpAt(unit, place), place)))
<1>. DEFINE op == OpAt(unit, place)
            b == op.dest
<1>1. op.operands \in Seq(FunctionValues(unit.body))
  BY DEF GoodUnit
<1>2. emitBranch(unit, e, op, place) = emitJumpWith(unit, e, op.operands, place, b, JUMP)
  BY Zenon DEF emitBranch
<1>. HIDE DEF op
<1>3. BlockLabel(unit, b) \in 0..(e.stream.nextLabelID - 1)
  BY DEF op
<1>4. /\ Adds(V, e, emitJumpWith(unit, e, op.operands, place, b, JUMP))
      /\ Ended(Instrs(emitJumpWith(unit, e, op.operands, place, b, JUMP)))
  <2>. HIDE DEF b
  <2>. QED  BY <1>1, <1>3, EmitJumpWith
<1>. QED  BY <1>2, <1>4 DEF op

LEMMA EmitCondBranch ==
  ASSUME NEW unit, NEW V, NEW exact, GoodUnit(unit, V, exact), NEW e, IsEmitter(V, e),
         NEW place \in Places(unit), NEW op, op = OpAt(unit, place),
         op.operands # <<>>, op.trueArgs \in 0..(Len(op.operands) - 1),
         BlockLabel(unit, op.trueDest) \in 0..(e.stream.nextLabelID - 1),
         BlockLabel(unit, op.falseDest) \in 0..(e.stream.nextLabelID - 1)
  PROVE  /\ Adds(V, e, emitCondBranch(unit, e, op, place))
         /\ Ended(Instrs(emitCondBranch(unit, e, op, place)))
<1>. DEFINE next == e.stream.nextLabelID
            FV == FunctionValues(unit.body)
            operands == op.operands
            arguments == Tail(operands)
            head == <<Head(operands)>>
            first == SubSeq(arguments, 1, op.trueArgs)
            second == SubSeq(arguments, op.trueArgs + 1, Len(arguments))
            condition == emitValues(unit, e, head, place)
            taken == emitJumpWith(unit, condition, first, place, op.trueDest, JUMPI)
            e2 == emitJumpWith(unit, taken, second, place, op.falseDest, JUMP)
<1>1. operands \in Seq(FV)
  BY DEF GoodUnit
<1>2. operands # <<>> /\ op.trueArgs \in 0..(Len(operands) - 1)
  OBVIOUS
<1>3. emitCondBranch(unit, e, op, place) = e2
  BY Zenon DEF emitCondBranch
<1>. HIDE DEF operands, FV
<1>4. head \in Seq(FV) /\ arguments \in Seq(FV) /\ Len(arguments) = Len(operands) - 1
  BY <1>1, <1>2
<1>5. first \in Seq(FV) /\ second \in Seq(FV)
  <2>1. op.trueArgs \in 0..Len(arguments)
    BY <1>2, <1>4
  <2>. DEFINE k == op.trueArgs
  <2>. HIDE DEF arguments, k
  <2>. DEFINE n == Len(arguments)
  <2>4. n \in Nat /\ (\A i \in 1..n : arguments[i] \in FV) /\ k \in 0..n
    BY <1>4, <2>1 DEF k
  <2>. HIDE DEF n
  <2>5. k \in Int /\ k + 1 \in Int /\ n \in Int /\ 1 \in Int
        /\ (\A i \in 1..k : i \in 1..n) /\ \A i \in (k + 1)..n : i \in 1..n
    BY <2>4
  <2>2. SubSeq(arguments, 1, k) \in Seq(FV)
    BY <2>4, <2>5, SubSeqProperties
  <2>3. SubSeq(arguments, k + 1, Len(arguments)) \in Seq(FV)
    <3>1. SubSeq(arguments, k + 1, n) \in Seq(FV)
      BY <2>4, <2>5, SubSeqProperties
    <3>. QED  BY <3>1 DEF n
  <2>. QED  BY <2>2, <2>3 DEF k
<1>. HIDE DEF head, first, second, arguments
<1>6. Advance(V, exact, e, condition)
  <2>1. head \in Seq(FunctionValues(unit.body))
    BY <1>4 DEF FV
  <2>. QED  BY <2>1, EmitValues
<1>7. Adds(V, e, condition) /\ IsEmitter(V, condition)
      /\ condition.stream.nextLabelID = e.stream.nextLabelID
  BY <1>6, AdvanceAdds DEF Advance
<1>. HIDE DEF condition
<1>8. Adds(V, condition, taken)
  <2>. DEFINE dest == op.trueDest
  <2>1. BlockLabel(unit, dest) \in 0..(condition.stream.nextLabelID - 1)
    BY <1>7
  <2>2. first \in Seq(FunctionValues(unit.body))
    BY <1>5 DEF FV
  <2>. HIDE DEF dest
  <2>3. Adds(V, condition, emitJumpWith(unit, condition, first, place, dest, JUMPI))
    BY <1>7, <2>1, <2>2, EmitJumpWith
  <2>. QED  BY <2>3 DEF dest
<1>9. Adds(V, e, taken) /\ IsEmitter(V, taken)
      /\ taken.stream.nextLabelID = e.stream.nextLabelID
  <2>1. IsEmitter(V, taken) /\ taken.stream.nextLabelID = e.stream.nextLabelID
    BY <1>7, <1>8 DEF Adds
  <2>. HIDE DEF taken
  <2>2. Adds(V, e, taken)
    BY <1>7, <1>8, AddsTwice
  <2>. QED  BY <2>1, <2>2
<1>. HIDE DEF taken
<1>10. Adds(V, taken, e2) /\ Ended(Instrs(e2))
  <2>. DEFINE dest == op.falseDest
  <2>1. BlockLabel(unit, dest) \in 0..(taken.stream.nextLabelID - 1)
    BY <1>9
  <2>2. second \in Seq(FunctionValues(unit.body))
    BY <1>5 DEF FV
  <2>. HIDE DEF dest
  <2>3. /\ Adds(V, taken, emitJumpWith(unit, taken, second, place, dest, JUMP))
        /\ Ended(Instrs(emitJumpWith(unit, taken, second, place, dest, JUMP)))
    BY <1>9, <2>1, <2>2, EmitJumpWith
  <2>. QED  BY <2>3 DEF dest
<1>. HIDE DEF e2
<1>11. Adds(V, e, e2)
  BY <1>9, <1>10, AddsTwice
<1>. QED  BY <1>3, <1>10, <1>11

-----------------------------------------------------------------------------
(* Returns, constants, and operations with an opcode.                       *)

LEMMA Halves ==
  ASSUME NEW k \in Nat, k >= 1
  PROVE  \E m \in Nat : \/ k = 2 * m + 1 /\ k % 2 = 1 /\ k \div 2 = m
                            /\ (k + 1) % 2 = 0 /\ (k + 1) \div 2 = m + 1
                        \/ k = 2 * m + 2 /\ k % 2 = 0 /\ k \div 2 = m + 1
                            /\ (k + 1) % 2 = 1 /\ (k + 1) \div 2 = m + 1
<1>1. CASE k % 2 = 1
  <2>. DEFINE m == k \div 2
  <2>1. m \in Nat /\ k = 2 * m + 1 /\ (k + 1) % 2 = 0 /\ (k + 1) \div 2 = m + 1
    BY <1>1
  <2>. HIDE DEF m
  <2>2. k % 2 = 1 /\ k \div 2 = m
    BY <1>1 DEF m
  <2>. QED  BY <2>1, <2>2
<1>2. CASE k % 2 = 0
  <2>. DEFINE m == k \div 2 - 1
  <2>1. m \in Nat /\ k = 2 * m + 2 /\ (k + 1) % 2 = 1 /\ (k + 1) \div 2 = m + 1
        /\ k \div 2 = m + 1
    BY <1>2
  <2>. HIDE DEF m
  <2>. QED  BY <1>2, <2>1
<1>. QED  BY <1>1, <1>2

LEMMA StoreResultsIs ==
  ASSUME NEW n \in Nat
  PROVE  /\ IsSequence(StoreResults(n))
         /\ Len(StoreResults(n)) = 2 * n
         /\ \A k \in 1..(2 * n) : Ordinary(StoreResults(n)[k])
         /\ \A k \in 1..(2 * n) : StoreResults(n)[k] =
              IF k % 2 = 1 THEN PushInstr(32 * (n - 1 - k \div 2)) ELSE OpcodeInstr(MSTORE)
<1>. DEFINE s == StoreResults(n)
            N == 2 * n
            item(k) == IF k % 2 = 1 THEN PushInstr(32 * (n - 1 - k \div 2))
                       ELSE OpcodeInstr(MSTORE)
<1>1. s = [k \in 1..N |-> item(k)]
  BY DEF StoreResults
<1>2. N \in Nat
  OBVIOUS
<1>3. \A k \in 1..N : Ordinary(item(k))
  BY DEF Ordinary
<1>. HIDE DEF s, item, N
<1>4. s \in Seq({item(k) : k \in 1..N}) /\ Len(s) = N
  <2>. DEFINE X == {item(k) : k \in 1..N}
  <2>1. s \in [1..N -> X]
    BY <1>1
  <2>. HIDE DEF X
  <2>2. s \in Seq(X) /\ Len(s) = N
    BY <1>2, <2>1
  <2>. QED  BY <2>2 DEF X
<1>5. IsSequence(s)
  BY <1>4 DEF IsSequence
<1>6. \A k \in 1..N : s[k] = item(k)
  BY <1>1
<1>7. \A k \in 1..N : Ordinary(s[k])
  BY <1>3, <1>6
<1>. QED  BY <1>4, <1>5, <1>6, <1>7 DEF s, N, item

LEMMA StoreResultsFlows ==
  ASSUME NEW n \in Nat, NEW h \in Nat, n <= h
  PROVE  Flows(StoreResults(n), h, h - n)
<1>. DEFINE frag == StoreResults(n)
            N == 2 * n
            hs == [k \in 1..(N + 1) |->
                     IF k % 2 = 1 THEN h - k \div 2 ELSE h - k \div 2 + 2]
<1>1. Len(frag) = N
  BY StoreResultsIs
<1>2. ASSUME NEW k \in 1..N
      PROVE  hs[k] \in Nat /\ hs[k + 1] \in Nat /\ Flow(frag[k], hs[k], hs[k + 1])
  <2>1. frag[k] = IF k % 2 = 1 THEN PushInstr(32 * (n - 1 - k \div 2)) ELSE OpcodeInstr(MSTORE)
    BY StoreResultsIs
  <2>2. k \in Nat /\ k >= 1 /\ k + 1 \in 1..(N + 1) /\ k \in 1..(N + 1)
    OBVIOUS
  <2>3. PICK m \in Nat : \/ k = 2 * m + 1 /\ k % 2 = 1 /\ k \div 2 = m
                             /\ (k + 1) % 2 = 0 /\ (k + 1) \div 2 = m + 1
                         \/ k = 2 * m + 2 /\ k % 2 = 0 /\ k \div 2 = m + 1
                             /\ (k + 1) % 2 = 1 /\ (k + 1) \div 2 = m + 1
    BY <2>2, Halves
  <2>4. m < n
    BY <2>3
  <2>. HIDE DEF frag
  <2>5. CASE k = 2 * m + 1 /\ k % 2 = 1 /\ k \div 2 = m
               /\ (k + 1) % 2 = 0 /\ (k + 1) \div 2 = m + 1
    <3>1. hs[k] = h - m /\ hs[k + 1] = h - (m + 1) + 2
      BY <2>2, <2>5
    <3>. HIDE DEF hs
    <3>2. hs[k] \in Nat /\ hs[k + 1] = hs[k] + 1
      BY <2>4, <3>1
    <3>3. \E v : frag[k] = PushInstr(v)
      BY <2>1, <2>5
    <3>4. Flow(frag[k], hs[k], hs[k + 1])
      BY <3>2, <3>3, PushFlows
    <3>. QED  BY <3>2, <3>4
  <2>6. CASE k = 2 * m + 2 /\ k % 2 = 0 /\ k \div 2 = m + 1
               /\ (k + 1) % 2 = 1 /\ (k + 1) \div 2 = m + 1
    <3>1. hs[k] = h - (m + 1) + 2 /\ hs[k + 1] = h - (m + 1)
      BY <2>2, <2>6
    <3>. HIDE DEF hs
    <3>2. hs[k] \in Nat /\ hs[k + 1] \in Nat /\ 2 <= hs[k] /\ hs[k + 1] + 2 = hs[k] + 0
      BY <2>4, <3>1
    <3>3. frag[k] = OpcodeInstr(MSTORE)
      BY <2>1, <2>6
    <3>4. MSTORE \notin {JUMP, JUMPI}
      BY WrittenNumbers
    <3>5. Flow(OpcodeInstr(MSTORE), hs[k], hs[k + 1])
      BY <3>2, <3>4, WrittenMoves, OpcodeFlows
    <3>. QED  BY <3>2, <3>3, <3>5
  <2>. QED  BY <2>3, <2>5, <2>6
<1>3. hs[1] = h
  <2>1. 1 \in 1..(N + 1) /\ 1 % 2 = 1 /\ 1 \div 2 = 0
    OBVIOUS
  <2>. QED  BY <2>1
<1>4. hs[N + 1] = h - n
  <2>1. N + 1 \in 1..(N + 1) /\ (N + 1) % 2 = 1 /\ (N + 1) \div 2 = n
    OBVIOUS
  <2>. QED  BY <2>1
<1>5. hs \in [1..(N + 1) -> Nat]
  <2>1. ASSUME NEW k \in 1..(N + 1) PROVE hs[k] \in Nat
    <3>1. CASE k = N + 1
      <4>. HIDE DEF hs
      <4>. QED  BY <1>4, <3>1
    <3>2. CASE k # N + 1
      <4>1. k \in 1..N
        BY <3>2
      <4>. HIDE DEF hs
      <4>. QED  BY <1>2, <4>1
    <3>. QED  BY <3>1, <3>2
  <2>. QED  BY <2>1
<1>. HIDE DEF hs, frag, N
<1>6. Flowing(frag, hs, h, h - n)
  BY <1>1, <1>2, <1>3, <1>4, <1>5 DEF Flowing
<1>. QED  BY <1>6 DEF Flows, frag

(* A return of an external function.                                        *)
ReturnWords(n) == StoreResults(n) \o <<PushInstr(32 * n), PushInstr(0), OpcodeInstr(RETURN)>>

LEMMA ReturnWordsIs ==
  ASSUME NEW n \in Nat
  PROVE  /\ IsSequence(ReturnWords(n))
         /\ \A k \in 1..Len(ReturnWords(n)) : Ordinary(ReturnWords(n)[k])
         /\ Ended(ReturnWords(n))
<1>. DEFINE s == StoreResults(n)
            t == <<PushInstr(32 * n), PushInstr(0), OpcodeInstr(RETURN)>>
            N == 2 * n
<1>1. IsSequence(s) /\ Len(s) = N /\ (\A k \in 1..N : Ordinary(s[k])) /\ N \in Nat
  BY StoreResultsIs
<1>2. IsSequence(t) /\ Len(t) = 3 /\ t[1] = PushInstr(32 * n) /\ t[2] = PushInstr(0)
      /\ t[3] = OpcodeInstr(RETURN)
  BY Tuples
<1>3. \A k \in 1..3 : Ordinary(t[k])
  BY <1>2 DEF Ordinary
<1>. HIDE DEF s, t, N
<1>4. Ended(t)
  <2>1. RETURN \notin Moves \cup {JUMPI}
    BY ReturnEnds, EndsApart, WrittenNumbers
  <2>. QED  BY <1>2, <2>1 DEF Ended
<1>5. IsSequence(s \o t) /\ Len(s \o t) = N + 3
  <2>1. IsSequence(s \o t) /\ Len(s \o t) = Len(s) + Len(t)
    BY <1>1, <1>2, Concatenation, Zenon
  <2>. QED  BY <1>1, <1>2, <2>1, Zenon
<1>6. ASSUME NEW k \in 1..(N + 3) PROVE Ordinary((s \o t)[k])
  <2>1. CASE k <= N
    <3>1. k \in 1..Len(s)
      BY <1>1, <2>1
    <3>3. \A i \in 1..Len(s) : (s \o t)[i] = s[i]
      BY <1>1, <1>2, Concatenation, Zenon
    <3>2. (s \o t)[k] = s[k]
      BY <3>1, <3>3, Zenon
    <3>. QED  BY <1>1, <2>1, <3>2
  <2>2. CASE ~(k <= N)
    <3>. DEFINE j == k - N
    <3>1. j \in 1..3 /\ N + j = k
      BY <1>1, <2>2
    <3>. HIDE DEF j
    <3>2. j \in 1..Len(t)
      BY <1>2, <3>1
    <3>4. \A i \in 1..Len(t) : (s \o t)[Len(s) + i] = t[i]
      <4>1. IsSequence(s) /\ IsSequence(t)
        BY <1>1, <1>2
      <4>. QED  BY <4>1, Concatenation
    <3>3. (s \o t)[Len(s) + j] = t[j]
      BY <3>2, <3>4, Zenon
    <3>. QED  BY <1>1, <1>3, <3>1, <3>3
  <2>. QED  BY <2>1, <2>2
<1>7. Ended(s \o t)
  BY <1>1, <1>2, <1>4, EndedBy
<1>8. ReturnWords(n) = s \o t
  BY DEF ReturnWords, s, t
<1>. QED  BY <1>5, <1>6, <1>7, <1>8

LEMMA ReturnWordsFlow ==
  ASSUME NEW n \in Nat, NEW h \in Nat, n <= h
  PROVE  Flows(ReturnWords(n), h, h - n)
<1>. DEFINE h2 == h - n
            a == PushInstr(32 * n)
            b == PushInstr(0)
            c == OpcodeInstr(RETURN)
<1>1. h2 \in Nat
  OBVIOUS
<1>2. Flows(StoreResults(n), h, h2)
  BY StoreResultsFlows
<1>. HIDE DEF h2
<1>3. Flow(a, h2, h2 + 1) /\ Flow(b, h2 + 1, (h2 + 1) + 1)
  BY <1>1, PushFlows
<1>4. Flow(c, (h2 + 1) + 1, h2)
  <2>1. RETURN \notin Moves /\ RETURN \notin {JUMP, JUMPI}
    BY ReturnEnds, EndsApart, WrittenNumbers
  <2>. QED  BY <1>1, <2>1, OpcodeFlows
<1>. HIDE DEF a, b, c
<1>5. Flows(<<a>>, h2, h2 + 1) /\ Flows(<<b>>, h2 + 1, (h2 + 1) + 1)
      /\ Flows(<<c>>, (h2 + 1) + 1, h2)
  BY <1>1, <1>3, <1>4, FlowsOne
<1>6. IsSequence(<<a>>) /\ IsSequence(<<b>>) /\ IsSequence(<<c>>)
  BY Tuples
<1>7. Flows(<<a>> \o <<b>>, h2, (h2 + 1) + 1) /\ IsSequence(<<a>> \o <<b>>)
  BY <1>5, <1>6, FlowsJoin, Concatenation
<1>8. Flows((<<a>> \o <<b>>) \o <<c>>, h2, h2) /\ IsSequence((<<a>> \o <<b>>) \o <<c>>)
  BY <1>5, <1>6, <1>7, FlowsJoin, Concatenation
<1>9. (<<a>> \o <<b>>) \o <<c>> = <<a, b, c>>
  <2>1. <<a>> \o <<b>> = <<a, b>>
    BY Pairs, Zenon
  <2>2. <<a, b>> \o <<c>> = <<a, b, c>>
    BY Triples, Zenon
  <2>. QED  BY <2>1, <2>2, Zenon
<1>10. Flows(<<a, b, c>>, h2, h2) /\ IsSequence(<<a, b, c>>)
  BY <1>8, <1>9
<1>11. IsSequence(StoreResults(n))
  BY StoreResultsIs
<1>12. Flows(StoreResults(n) \o <<a, b, c>>, h, h2)
  BY <1>2, <1>10, <1>11, FlowsJoin
<1>. QED  BY <1>12 DEF ReturnWords, a, b, c, h2

LEMMA EmitExternalReturn ==
  ASSUME NEW unit, NEW V, NEW exact, GoodUnit(unit, V, exact), NEW e, IsEmitter(V, e),
         NEW place \in Places(unit), NEW op, op = OpAt(unit, place),
         unit.kind # "constructor", unit.visibility = "external"
  PROVE  /\ Advance(V, exact, e, emitReturn(unit, e, op, place))
         /\ Ended(Instrs(emitReturn(unit, e, op, place)))
         /\ Len(Instrs(emitReturn(unit, e, op, place))) > Len(Instrs(e))
<1>. DEFINE n == Len(op.operands)
            m == emitValues(unit, e, op.operands, place)
            e2 == PopOperands(Write(m, ReturnWords(n)), op)
<1>1. op.operands \in Seq(FunctionValues(unit.body)) /\ n \in Nat
  BY DEF GoodUnit
<1>2. emitReturn(unit, e, op, place) = e2
  <2>1. unit.visibility # "internal"
    OBVIOUS
  <2>. QED  BY <2>1 DEF emitReturn, ReturnWords
<1>3. Advance(V, exact, e, m) /\ IsEmitter(V, m)
  <2>1. Advance(V, exact, e, m)
    BY <1>1, EmitValues
  <2>. HIDE DEF m
  <2>. QED  BY <2>1 DEF Advance
<1>. HIDE DEF m
<1>. DEFINE s == Instrs(m)
            next == m.stream.nextLabelID
            t == m.stackTracker
            u == m.undefined
            frag == ReturnWords(n)
            t2 == SubSeq(t, 1, Len(t) - n)
            u2 == u \/ Len(t) - n < 0
<1>4. m = Record(s, next, t, u)
  BY <1>3 DEF IsEmitter, IsRecord
<1>5. t \in Seq(V) /\ IsSequence(s) /\ Len(t) \in Nat
  BY <1>3 DEF IsEmitter
<1>6. IsSequence(frag) /\ (\A k \in 1..Len(frag) : Ordinary(frag[k])) /\ Ended(frag)
  BY <1>1, ReturnWordsIs
<1>. HIDE DEF s, next, t, u, frag
<1>7. e2 = Record(s \o frag, next, t2, u2)
  <2>1. Write(m, frag) = Record(s \o frag, next, t, u)
    BY <1>4, WriteRecord
  <2>2. PopOperands(Record(s \o frag, next, t, u), op)
          = Record(s \o frag, next, SubSeq(t, 1, Len(t) - Len(op.operands)),
                   u \/ Len(t) - Len(op.operands) < 0)
    BY PopRecord
  <2>. QED  BY <2>1, <2>2 DEF frag
<1>. HIDE DEF n
<1>8. t2 \in Seq(V) /\ (n <= Len(t) => Len(t2) = Len(t) - n)
  BY <1>1, <1>5, AllButTheLast
<1>9. ~u2 => n <= Len(t) /\ ~u
  BY <1>1, <1>5
<1>10. exact /\ ~u2 => Flows(frag, Len(t), Len(t2))
  <2>1. ASSUME exact, ~u2 PROVE Flows(frag, Len(t), Len(t2))
    <3>1. n <= Len(t) /\ Len(t2) = Len(t) - n
      BY <1>8, <1>9, <2>1
    <3>. DEFINE h == Len(t)
    <3>2. h \in Nat /\ n <= h
      BY <1>5, <3>1
    <3>. HIDE DEF h
    <3>3. Flows(ReturnWords(n), h, h - n)
      BY <1>1, <3>2, ReturnWordsFlow
    <3>. QED  BY <3>1, <3>3 DEF frag, h
  <2>. QED  BY <2>1
<1>11. u => u2
  OBVIOUS
<1>. HIDE DEF t2, u2
<1>12. Advance(V, exact, Record(s, next, t, u), Record(s \o frag, next, t2, u2))
  BY <1>5, <1>6, <1>8, <1>10, <1>11, AdvanceBy
<1>. HIDE DEF e2
<1>13. Advance(V, exact, e, e2)
  BY <1>3, <1>4, <1>7, <1>12, AdvanceTwice
<1>14. Instrs(e2) = s \o frag
  BY <1>7, RecordIs
<1>15. Ended(Instrs(e2))
  BY <1>5, <1>6, <1>14, EndedBy
<1>16. Len(Instrs(e2)) > Len(Instrs(e))
  <2>1. Len(Instrs(m) \o frag) > Len(Instrs(e))
    BY <1>3, <1>6, Longer
  <2>. QED  BY <1>14, <2>1 DEF s
<1>. QED  BY <1>2, <1>13, <1>15, <1>16

(* A return of an internal function.                                        *)
JumpBack(n) == SwapReturnLabel(n) \o <<OpcodeInstr(JUMP)>>

LEMMA JumpBackIs ==
  ASSUME NEW n \in Nat
  PROVE  /\ IsSequence(JumpBack(n))
         /\ \A k \in 1..Len(JumpBack(n)) : Ordinary(JumpBack(n)[k])
         /\ Ended(JumpBack(n))
         /\ JumpBack(n) = IF n = 0 THEN <<OpcodeInstr(JUMP)>>
                          ELSE <<OpcodeInstr(SWAP1 + n - 1), OpcodeInstr(JUMP)>>
<1>. DEFINE swap == OpcodeInstr(SWAP1 + n - 1)
            jump == OpcodeInstr(JUMP)
            two == <<swap, jump>>
            one == <<jump>>
<1>1. JumpBack(n) = IF n = 0 THEN one ELSE two
  <2>1. CASE n = 0
    <3>1. SwapReturnLabel(n) = <<>>
      BY <2>1 DEF SwapReturnLabel
    <3>2. <<>> \o <<jump>> = <<jump>>
      OBVIOUS
    <3>. QED  BY <2>1, <3>1, <3>2 DEF JumpBack
  <2>2. CASE n # 0
    <3>1. SwapReturnLabel(n) = <<swap>>
      BY <2>2 DEF SwapReturnLabel
    <3>. HIDE DEF swap, jump
    <3>2. <<swap>> \o <<jump>> = <<swap, jump>>
      BY Pairs
    <3>. QED  BY <2>2, <3>1, <3>2 DEF JumpBack, jump
  <2>. QED  BY <2>1, <2>2
<1>2. /\ IsSequence(one) /\ Len(one) = 1 /\ one[1] = jump
      /\ IsSequence(two) /\ Len(two) = 2 /\ two[1] = swap /\ two[2] = jump
  BY Tuples
<1>3. Ordinary(swap) /\ Ordinary(jump)
  BY DEF Ordinary
<1>4. (\A k \in 1..Len(one) : Ordinary(one[k])) /\ \A k \in 1..Len(two) : Ordinary(two[k])
  <2>. HIDE DEF one, two
  <2>. QED  BY <1>2, <1>3
<1>5. Ended(one) /\ Ended(two)
  <2>1. JUMP \notin Moves \cup {JUMPI}
    BY JumpsApart, WrittenNumbers
  <2>. HIDE DEF one, two
  <2>. QED  BY <1>2, <2>1 DEF Ended
<1>6. IsSequence(JumpBack(n))
  <2>. HIDE DEF one, two
  <2>. QED  BY <1>1, <1>2
<1>7. Ended(JumpBack(n))
  <2>. HIDE DEF one, two
  <2>. QED  BY <1>1, <1>5
<1>8. \A k \in 1..Len(JumpBack(n)) : Ordinary(JumpBack(n)[k])
  <2>. HIDE DEF one, two
  <2>. QED  BY <1>1, <1>4
<1>. QED  BY <1>1, <1>6, <1>7, <1>8

LEMMA InternalReturnIs ==
  ASSUME NEW unit, NEW e, NEW op, NEW place,
         unit.kind # "constructor", unit.visibility = "internal"
  PROVE  emitReturn(unit, e, op, place)
           = Write(emitValues(unit, e, op.operands, place), JumpBack(Len(op.operands)))
<1>1. unit.visibility # "external"
  OBVIOUS
<1>. QED  BY <1>1 DEF emitReturn, JumpBack

LEMMA EmitConstant ==
  ASSUME NEW V, NEW exact, NEW e, IsEmitter(V, e), NEW op,
         op.results \subseteq V, op.results # {}
  PROVE  Advance(V, exact, e, emitConstant(e, op))
<1>. DEFINE s == Instrs(e)
            n == e.stream.nextLabelID
            t == e.stackTracker
            u == e.undefined
            r == CHOOSE r \in op.results : TRUE
            instr == PushInstr(op.value)
            t2 == Append(t, r)
            frag == <<instr>>
<1>1. e = Record(s, n, t, u)
  BY DEF IsEmitter, IsRecord
<1>2. t \in Seq(V) /\ IsSequence(s) /\ Len(t) \in Nat
  BY DEF IsEmitter
<1>3. r \in V
  OBVIOUS
<1>4. emitConstant(e, op) = Write(Push(e, r), frag)
  BY Zenon DEF emitConstant
<1>. HIDE DEF s, n, t, u, r
<1>5. t2 \in Seq(V) /\ Len(t2) = Len(t) + 1
  BY <1>2, <1>3
<1>6. emitConstant(e, op) = Record(s \o frag, n, t2, u)
  <2>. HIDE DEF frag
  <2>1. Push(e, r) = Record(s, n, t2, u)
    BY <1>1, PushRecord
  <2>. QED  BY <1>4, <2>1, WriteRecord
<1>7. IsSequence(frag) /\ Len(frag) = 1 /\ frag[1] = instr
  BY Tuples
<1>8. \A k \in 1..Len(frag) : Ordinary(frag[k])
  <2>1. Ordinary(instr)
    BY DEF Ordinary
  <2>. HIDE DEF frag, instr
  <2>. QED  BY <1>7, <2>1
<1>9. Flows(frag, Len(t), Len(t2))
  <2>1. Flow(instr, Len(t), Len(t) + 1)
    BY <1>2, PushFlows
  <2>2. Len(t) + 1 \in Nat
    BY <1>2
  <2>. HIDE DEF instr
  <2>. QED  BY <1>2, <1>5, <2>1, <2>2, FlowsOne
<1>10. exact /\ ~u => Flows(frag, Len(t), Len(t2))
  BY <1>9
<1>. HIDE DEF t2, frag
<1>11. Advance(V, exact, Record(s, n, t, u), Record(s \o frag, n, t2, u))
  BY <1>2, <1>5, <1>7, <1>8, <1>10, AdvanceBy
<1>. QED  BY <1>1, <1>6, <1>11

LEMMA EmitPlain ==
  ASSUME NEW unit, NEW V, NEW exact, GoodUnit(unit, V, exact), NEW e, IsEmitter(V, e),
         NEW place \in Places(unit), NEW op, op = OpAt(unit, place)
  PROVE  LET e2 == emitOpcode(unit, scheduleOperands(unit, e, op, place), op)
         IN  /\ Advance(V, exact, e, e2)
             /\ op.name \in {"stop", "return", "revert", "invalid", "selfdestruct"}
                  /\ op.results = {}
                  => Ended(Instrs(e2)) /\ Len(Instrs(e2)) > Len(Instrs(e))
<1>. DEFINE m == scheduleOperands(unit, e, op, place)
            e2 == emitOpcode(unit, m, op)
<1>1. Advance(V, exact, e, m) /\ IsEmitter(V, m)
  <2>1. Advance(V, exact, e, m)
    BY ScheduleOperands
  <2>. HIDE DEF m
  <2>. QED  BY <2>1 DEF Advance
<1>. HIDE DEF m
<1>2. op.results \subseteq V /\ Len(op.operands) \in Nat /\ (exact => Exactly(unit, op))
  BY DEF GoodUnit, GoodOp
<1>3. Advance(V, exact, m, e2)
  BY <1>1, <1>2, EmitOpcode
<1>4. Advance(V, exact, e, e2)
  <2>. HIDE DEF e2
  <2>. QED  BY <1>1, <1>3, AdvanceTwice
<1>5. ASSUME op.name \in {"stop", "return", "revert", "invalid", "selfdestruct"}, op.results = {}
      PROVE  Ended(Instrs(e2)) /\ Len(Instrs(e2)) > Len(Instrs(e))
  <2>. DEFINE opcode == Opcode[OpcodeOf(unit, op)]
              one == <<OpcodeInstr(opcode)>>
              s == Instrs(m)
              next == m.stream.nextLabelID
              t == m.stackTracker
              u == m.undefined
  <2>1. OpcodeOf(unit, op) # NoOpcode /\ opcode \in DOMAIN Ends \cup {INVALID}
    BY <1>5, EndingOpcodes
  <2>2. opcode \notin Moves \cup {JUMPI}
    BY <2>1, EndsApart, JumpsApart, WrittenNumbers DEF Written
  <2>3. IsSequence(one) /\ Len(one) = 1 /\ one[1] = OpcodeInstr(opcode)
    BY Tuples
  <2>4. Ended(one)
    <3>. HIDE DEF one, opcode
    <3>. QED  BY <2>2, <2>3 DEF Ended
  <2>5. e2 = PopOperands(Write(m, one), op)
    <3>. HIDE DEF m
    <3>. QED  BY <1>5, <2>1 DEF emitOpcode
  <2>6. m = Record(s, next, t, u)
    BY <1>1 DEF IsEmitter, IsRecord
  <2>7. IsSequence(s)
    BY <1>1 DEF IsEmitter
  <2>. HIDE DEF one, s, next, t, u, e2
  <2>8. Write(m, one) = Record(s \o one, next, t, u)
    BY <2>6, WriteRecord
  <2>9. PopOperands(Record(s \o one, next, t, u), op)
          = Record(s \o one, next, SubSeq(t, 1, Len(t) - Len(op.operands)),
                   u \/ Len(t) - Len(op.operands) < 0)
    BY PopRecord
  <2>10. Instrs(e2) = s \o one
    <3>. DEFINE s2 == s \o one
                t2 == SubSeq(t, 1, Len(t) - Len(op.operands))
                u2 == u \/ Len(t) - Len(op.operands) < 0
    <3>1. e2 = Record(s2, next, t2, u2)
      BY <2>5, <2>8, <2>9
    <3>. HIDE DEF s2, t2, u2
    <3>2. Instrs(e2) = s2
      BY <3>1, RecordIs
    <3>. QED  BY <3>2 DEF s2
  <2>11. Ended(Instrs(e2))
    BY <2>3, <2>4, <2>7, <2>10, EndedBy
  <2>12. Len(Instrs(m) \o one) > Len(Instrs(e))
    BY <1>1, <2>3, <2>4, Longer
  <2>. QED  BY <2>10, <2>11, <2>12 DEF s
<1>. QED  BY <1>4, <1>5 DEF m

-----------------------------------------------------------------------------
(* Calls, and the start of a block.                                         *)

CallWords(ret, callee) ==
  <<LabelRefInstr(ret), LabelRefInstr(callee), OpcodeInstr(JUMP), LabelDefInstr(ret),
    OpcodeInstr(JUMPDEST)>>

LEMMA CallWordsAre ==
  ASSUME NEW ret, NEW callee
  PROVE  /\ IsSequence(CallWords(ret, callee)) /\ Len(CallWords(ret, callee)) = 5
         /\ CallWords(ret, callee)[1] = LabelRefInstr(ret)
         /\ CallWords(ret, callee)[2] = LabelRefInstr(callee)
         /\ CallWords(ret, callee)[3] = OpcodeInstr(JUMP)
         /\ CallWords(ret, callee)[4] = LabelDefInstr(ret)
         /\ CallWords(ret, callee)[5] = OpcodeInstr(JUMPDEST)
<1>. DEFINE a == LabelRefInstr(ret)
            b == LabelRefInstr(callee)
            c == OpcodeInstr(JUMP)
            d == LabelDefInstr(ret)
            f == OpcodeInstr(JUMPDEST)
            words == <<a, b, c, d, f>>
<1>1. words \in Seq({a, b, c, d, f})
  <2>. HIDE DEF a, b, c, d, f
  <2>. QED  OBVIOUS
<1>2. Len(words) = 5 /\ words[1] = a /\ words[2] = b /\ words[3] = c /\ words[4] = d /\ words[5] = f
  OBVIOUS
<1>3. CallWords(ret, callee) = words
  BY DEF CallWords
<1>. HIDE DEF words, a, b, c, d, f
<1>4. IsSequence(words)
  BY <1>1 DEF IsSequence
<1>. QED  BY <1>2, <1>3, <1>4 DEF a, b, c, d, f

LEMMA CreateRecord ==
  ASSUME NEW s, NEW n, NEW t, NEW u
  PROVE  [Record(s, n, t, u) EXCEPT !.stream = createLabel(@)]
           = Record(s, (n + 1) % LabelCount, t, u)
<1>. DEFINE old == [instructions |-> s, nextLabelID |-> n]
            l == (n + 1) % LabelCount
            new == [instructions |-> s, nextLabelID |-> l]
<1>1. createLabel(old) = new
  <2>1. old.nextLabelID = n
    OBVIOUS
  <2>2. createLabel(old) = [old EXCEPT !.nextLabelID = l]
    BY <2>1, Zenon DEF createLabel
  <2>. HIDE DEF l
  <2>3. [old EXCEPT !.nextLabelID = l] = [instructions |-> s, nextLabelID |-> l]
    OBVIOUS
  <2>. QED  BY <2>2, <2>3
<1>. HIDE DEF old, new, l
<1>2. [[stream |-> old, stackTracker |-> t, undefined |-> u] EXCEPT !.stream = createLabel(@)]
        = [stream |-> new, stackTracker |-> t, undefined |-> u]
  BY <1>1
<1>. QED  BY <1>2 DEF Record, old, new, l

(* The operands of the call op have been scheduled, which has given m, and  *)
(* the call has been emitted.                                               *)
CallAdded(V, exact, e, m, op, e2) ==
  /\ Advance(V, exact, e, m)
  /\ IsEmitter(V, e2)
  /\ Instrs(e2) = Instrs(m) \o CallWords(e.stream.nextLabelID, op.callee)
  /\ e2.stream.nextLabelID = (e.stream.nextLabelID + 1) % LabelCount
  /\ e2.stackTracker = m.stackTracker \o op.returns
  /\ e2.undefined = m.undefined

LEMMA EmitCall ==
  ASSUME NEW unit, NEW V, NEW exact, GoodUnit(unit, V, exact), NEW e, IsEmitter(V, e),
         NEW place \in Places(unit), NEW op, op = OpAt(unit, place), op.returns \in Seq(V)
  PROVE  \E m : CallAdded(V, exact, e, m, op, emitCall(unit, e, op, place))
<1>. DEFINE m == scheduleOperands(unit, e, op, place)
            e2 == emitCall(unit, e, op, place)
            next == e.stream.nextLabelID
<1>1. Advance(V, exact, e, m) /\ IsEmitter(V, m) /\ m.stream.nextLabelID = next
  <2>1. Advance(V, exact, e, m)
    BY ScheduleOperands
  <2>. HIDE DEF m
  <2>. QED  BY <2>1 DEF Advance
<1>. DEFINE words == CallWords(next, op.callee)
            made == [m EXCEPT !.stream = createLabel(@)]
            returned == Write(made, words)
<1>2. e2 = [returned EXCEPT !.stackTracker = @ \o op.returns]
  <2>1. createdLabel(m.stream) = next
    BY <1>1 DEF createdLabel
  <2>. QED  BY <2>1, Zenon DEF emitCall, CallWords
<1>. HIDE DEF m, e2
<1>. DEFINE s == Instrs(m)
            t == m.stackTracker
            u == m.undefined
            l == (next + 1) % LabelCount
            t2 == t \o op.returns
            s2 == s \o words
<1>3. m = Record(s, next, t, u)
  BY <1>1 DEF IsEmitter, IsRecord
<1>4. t \in Seq(V) /\ IsSequence(s)
  BY <1>1 DEF IsEmitter
<1>5. IsSequence(words)
  BY CallWordsAre
<1>. HIDE DEF s, t, u, words
<1>6. made = Record(s, l, t, u)
  <2>. HIDE DEF next
  <2>. QED  BY <1>3, CreateRecord
<1>. HIDE DEF made, l
<1>7. returned = Record(s2, l, t, u)
  BY <1>6, WriteRecord
<1>8. IsSequence(s2)
  BY <1>4, <1>5, Concatenation
<1>. HIDE DEF returned, s2
<1>9. [returned EXCEPT !.stackTracker = @ \o op.returns]
        = [returned EXCEPT !.stackTracker = t2]
  <2>1. returned.stackTracker = t
    BY <1>7, RecordFields
  <2>. QED  BY <2>1
<1>10. t2 \in Seq(V)
  BY <1>4
<1>. HIDE DEF t2
<1>15. e2 = Record(s2, l, t2, u)
  <2>1. [Record(s2, l, t, u) EXCEPT !.stackTracker = t2] = Record(s2, l, t2, u)
    BY TrackRecord
  <2>. QED  BY <1>2, <1>7, <1>9, <2>1
<1>11. /\ Instrs(e2) = s2 /\ IsRecord(e2) /\ e2.stream.nextLabelID = l
       /\ e2.stackTracker = t2 /\ e2.undefined = u
  BY <1>15, RecordIs, RecordFields
<1>12. IsEmitter(V, e2)
  BY <1>8, <1>10, <1>11 DEF IsEmitter
<1>13. /\ Instrs(e2) = Instrs(m) \o CallWords(next, op.callee)
       /\ e2.stream.nextLabelID = (next + 1) % LabelCount
       /\ e2.stackTracker = m.stackTracker \o op.returns
       /\ e2.undefined = m.undefined
  BY <1>11 DEF s2, s, words, l, t2, t, u
<1>14. CallAdded(V, exact, e, m, op, e2)
  BY <1>1, <1>12, <1>13 DEF CallAdded
<1>. QED  BY <1>14 DEF e2

(* The first instructions of a block.                                       *)
BlockWords(l) == <<LabelDefInstr(l), OpcodeInstr(JUMPDEST)>>

LEMMA BlockWordsAre ==
  ASSUME NEW l
  PROVE  /\ IsSequence(BlockWords(l)) /\ Len(BlockWords(l)) = 2
         /\ BlockWords(l)[1] = LabelDefInstr(l) /\ BlockWords(l)[2] = OpcodeInstr(JUMPDEST)
BY Tuples DEF BlockWords

LEMMA MarkBlock ==
  ASSUME NEW unit, NEW V, NEW e, IsEmitter(V, e), NEW b
  PROVE  LET e2 == markBlock(unit, e, b)
         IN  /\ IsEmitter(V, e2)
             /\ Instrs(e2) = Instrs(e) \o BlockWords(BlockLabel(unit, b))
             /\ e2.stream.nextLabelID = e.stream.nextLabelID
             /\ e2.stackTracker = e.stackTracker
             /\ e2.undefined = e.undefined
<1>. DEFINE frag == BlockWords(BlockLabel(unit, b))
<1>1. markBlock(unit, e, b) = Write(e, frag)
  BY DEF markBlock, BlockWords
<1>2. IsSequence(frag)
  BY BlockWordsAre
<1>. HIDE DEF frag
<1>3. /\ IsEmitter(V, Write(e, frag))
      /\ Instrs(Write(e, frag)) = Instrs(e) \o frag
      /\ Write(e, frag).stream.nextLabelID = e.stream.nextLabelID
      /\ Write(e, frag).stackTracker = e.stackTracker
      /\ Write(e, frag).undefined = e.undefined
  BY <1>2, WriteIs
<1>. QED  BY <1>1, <1>3 DEF frag

LEMMA ResetIs ==
  ASSUME NEW V, NEW e, IsEmitter(V, e)
  PROVE  /\ IsEmitter(V, ResetTracker(e))
         /\ Instrs(ResetTracker(e)) = Instrs(e)
         /\ ResetTracker(e).stream.nextLabelID = e.stream.nextLabelID
         /\ ResetTracker(e).stackTracker = <<>>
         /\ ResetTracker(e).undefined = e.undefined
<1>. DEFINE s == Instrs(e)
            n == e.stream.nextLabelID
            t == e.stackTracker
            u == e.undefined
            none == <<>>
<1>1. e = Record(s, n, t, u)
  BY DEF IsEmitter, IsRecord
<1>2. IsSequence(s)
  BY DEF IsEmitter
<1>3. none \in Seq(V)
  OBVIOUS
<1>. HIDE DEF s, n, t, u
<1>4. ResetTracker(e) = Record(s, n, none, u)
  BY <1>1, ResetRecord
<1>. HIDE DEF none
<1>5. /\ Instrs(ResetTracker(e)) = s /\ IsRecord(ResetTracker(e))
      /\ ResetTracker(e).stream.nextLabelID = n /\ ResetTracker(e).stackTracker = none
      /\ ResetTracker(e).undefined = u
  BY <1>4, RecordIs, RecordFields
<1>6. IsEmitter(V, ResetTracker(e))
  BY <1>2, <1>3, <1>5 DEF IsEmitter
<1>. QED  BY <1>5, <1>6 DEF s, n, u, none

-----------------------------------------------------------------------------
(* The labels of blocks and the places of calls.                            *)

Shape(functions) ==
  /\ Len(functions) \in Nat
  /\ \A f \in 1..Len(functions) : Len(functions[f].body) \in Nat

LEMMA RectangleSize ==
  ASSUME NEW g, NEW n \in Nat
  PROVE  IsFiniteSet({g} \X (1..n)) /\ Cardinality({g} \X (1..n)) = n
<1>1. IsFiniteSet({g}) /\ Cardinality({g}) = 1
  BY FS_Singleton
<1>2. 1 \in Int /\ n \in Int
  OBVIOUS
<1>3. IsFiniteSet(1..n)
  BY <1>2, FS_Interval
<1>4. Cardinality(1..n) = n
  <2>1. Cardinality(1..n) = IF 1 > n THEN 0 ELSE n - 1 + 1
    BY <1>2, FS_Interval
  <2>. QED  BY <2>1
<1>. DEFINE A == {g}
            B == 1..n
<1>5. IsFiniteSet(A) /\ IsFiniteSet(B) /\ Cardinality(A) = 1 /\ Cardinality(B) = n
  BY <1>1, <1>3, <1>4
<1>. HIDE DEF A, B
<1>6. IsFiniteSet(A \X B) /\ Cardinality(A \X B) = Cardinality(A) * Cardinality(B)
  BY <1>5, FS_Product
<1>7. IsFiniteSet(A \X B) /\ Cardinality(A \X B) = n
  BY <1>5, <1>6
<1>. QED  BY <1>7 DEF A, B

BlocksOf(functions, f) == UNION {{g} \X (1..Len(functions[g].body)) : g \in 1..(f - 1)}

LEMMA BlocksOfFinite ==
  ASSUME NEW functions, Shape(functions), NEW f \in 1..(Len(functions) + 1)
  PROVE  IsFiniteSet(BlocksOf(functions, f)) /\ BlocksBefore(functions, f) \in Nat
<1>. DEFINE n == f - 1
            sets == [g \in 1..n |-> {g} \X (1..Len(functions[g].body))]
<1>1. n \in Nat /\ \A g \in 1..n : Len(functions[g].body) \in Nat
  BY DEF Shape
<1>2. \A g \in 1..n : IsFiniteSet(sets[g])
  BY <1>1, RectangleSize
<1>3. BlocksOf(functions, f) = UNION {sets[g] : g \in 1..n}
  BY DEF BlocksOf
<1>. HIDE DEF sets, n
<1>4. IsFiniteSet(UNION {sets[g] : g \in 1..n})
  BY <1>1, <1>2, UnionUpTo
<1>5. BlocksBefore(functions, f) = Cardinality(BlocksOf(functions, f))
  BY DEF BlocksBefore, BlocksOf
<1>. QED  BY <1>3, <1>4, <1>5, FS_CardinalityType

LEMMA BlocksBeforeFirst == ASSUME NEW functions PROVE BlocksBefore(functions, 1) = 0
<1>1. BlocksOf(functions, 1) = {}
  BY DEF BlocksOf
<1>2. BlocksBefore(functions, 1) = Cardinality(BlocksOf(functions, 1))
  BY DEF BlocksBefore, BlocksOf
<1>. QED  BY <1>1, <1>2, FS_EmptySet

LEMMA BlocksBeforeNext ==
  ASSUME NEW functions, Shape(functions), NEW f \in 1..Len(functions)
  PROVE  BlocksBefore(functions, f + 1) = BlocksBefore(functions, f) + Len(functions[f].body)
<1>. DEFINE n == Len(functions[f].body)
            old == BlocksOf(functions, f)
            new == {f} \X (1..n)
<1>1. n \in Nat /\ f \in 1..(Len(functions) + 1) /\ f + 1 \in 1..(Len(functions) + 1)
  BY DEF Shape
<1>2. IsFiniteSet(old) /\ BlocksBefore(functions, f) \in Nat
  BY <1>1, BlocksOfFinite
<1>3. IsFiniteSet(new) /\ Cardinality(new) = n
  <2>. HIDE DEF n
  <2>. QED  BY <1>1, RectangleSize
<1>4. BlocksOf(functions, f + 1) = old \cup new
  <2>1. 1..(f + 1 - 1) = 1..(f - 1) \cup {f}
    BY <1>1
  <2>. QED  BY <2>1 DEF BlocksOf
<1>5. old \cap new = {}
  <2>1. ASSUME NEW x \in old PROVE x \notin new
    <3>1. PICK g \in 1..(f - 1) : x \in {g} \X (1..Len(functions[g].body))
      BY DEF BlocksOf
    <3>2. x[1] = g
      BY <3>1
    <3>. QED  BY <3>2, <1>1
  <2>. QED  BY <2>1
<1>6. /\ BlocksBefore(functions, f) = Cardinality(old)
      /\ BlocksBefore(functions, f + 1) = Cardinality(old \cup new)
  BY <1>4 DEF BlocksBefore, BlocksOf
<1>. HIDE DEF old, new
<1>7. Cardinality(old \cup new) = Cardinality(old) + Cardinality(new) - Cardinality(old \cap new)
  BY <1>2, <1>3, FS_Union
<1>8. Cardinality(old \cap new) = 0
  BY <1>5, FS_EmptySet
<1>. HIDE DEF n
<1>9. BlocksBefore(functions, f + 1) = BlocksBefore(functions, f) + n
  BY <1>1, <1>2, <1>3, <1>6, <1>7, <1>8
<1>. QED  BY <1>9 DEF n

LEMMA BlocksBeforeGrows ==
  ASSUME NEW functions, Shape(functions), NEW f \in 1..(Len(functions) + 1)
  PROVE  BlocksBefore(functions, f) <= BlocksBefore(functions, Len(functions) + 1)
<1>. DEFINE last == Len(functions) + 1
            n == last - f
            T == {i \in 0..n : BlocksBefore(functions, f) <= BlocksBefore(functions, f + i)}
<1>1. Len(functions) \in Nat /\ n \in Nat /\ f + 0 = f /\ f + n = last /\ 0 \in 0..n
  BY DEF Shape
<1>2. BlocksBefore(functions, f) \in Nat
  BY BlocksOfFinite
<1>3. 0 \in T
  BY <1>1, <1>2
<1>4. ASSUME NEW i \in 0..(n - 1), i \in T PROVE i + 1 \in T
  <2>. DEFINE g == f + i
  <2>1. g \in 1..Len(functions) /\ g + 1 = f + (i + 1) /\ i + 1 \in 0..n
    BY <1>1
  <2>2. g \in 1..(Len(functions) + 1)
    BY <2>1, <1>1
  <2>. HIDE DEF g
  <2>3. BlocksBefore(functions, g + 1) = BlocksBefore(functions, g) + Len(functions[g].body)
    BY <2>1, BlocksBeforeNext
  <2>4. BlocksBefore(functions, g) \in Nat /\ Len(functions[g].body) \in Nat
    BY <2>1, <2>2, BlocksOfFinite DEF Shape
  <2>5. BlocksBefore(functions, f) <= BlocksBefore(functions, g)
    BY <1>4 DEF g
  <2>6. BlocksBefore(functions, f) <= BlocksBefore(functions, g + 1)
    BY <1>2, <2>3, <2>4, <2>5
  <2>7. BlocksBefore(functions, f) <= BlocksBefore(functions, f + (i + 1))
    BY <2>1, <2>6
  <2>. QED  BY <2>1, <2>7
<1>. HIDE DEF T
<1>5. \A i \in 0..n : i \in T
  BY <1>1, <1>3, <1>4, CountUp
<1>6. n \in T
  BY <1>1, <1>5
<1>. QED  BY <1>1, <1>6 DEF T

(* The label of a block is one of those given before emission.              *)
LEMMA BlockLabels ==
  ASSUME NEW functions, Shape(functions), NEW f \in 1..Len(functions), NEW layout,
         NEW b \in 1..Len(functions[f].body)
  PROVE  /\ BlockLabel(UnitOf(functions, f, layout), b) = BlocksBefore(functions, f) + b - 1
         /\ BlocksBefore(functions, f) \in Nat
         /\ BlocksBefore(functions, f) + b <= BlocksBefore(functions, Len(functions) + 1)
         /\ BlocksBefore(functions, Len(functions) + 1) \in Nat
<1>1. BlockLabel(UnitOf(functions, f, layout), b) = BlocksBefore(functions, f) + b - 1
  BY DEF BlockLabel, UnitOf, Unit, EntryLabel
<1>2. f \in 1..(Len(functions) + 1) /\ f + 1 \in 1..(Len(functions) + 1)
      /\ Len(functions) + 1 \in 1..(Len(functions) + 1) /\ Len(functions[f].body) \in Nat
  BY DEF Shape
<1>3. /\ BlocksBefore(functions, f) \in Nat /\ BlocksBefore(functions, f + 1) \in Nat
      /\ BlocksBefore(functions, Len(functions) + 1) \in Nat
  BY <1>2, BlocksOfFinite
<1>4. BlocksBefore(functions, f + 1) = BlocksBefore(functions, f) + Len(functions[f].body)
  BY BlocksBeforeNext
<1>5. BlocksBefore(functions, f + 1) <= BlocksBefore(functions, Len(functions) + 1)
  BY <1>2, BlocksBeforeGrows
<1>6. BlocksBefore(functions, f) + b <= BlocksBefore(functions, Len(functions) + 1)
  <2>. DEFINE m == Len(functions[f].body)
              x == BlocksBefore(functions, f)
              y == BlocksBefore(functions, f + 1)
              z == BlocksBefore(functions, Len(functions) + 1)
  <2>1. x \in Nat /\ y \in Nat /\ z \in Nat /\ m \in Nat /\ y = x + m /\ y <= z /\ b \in 1..m
    BY <1>2, <1>3, <1>4, <1>5
  <2>. HIDE DEF m, x, y, z
  <2>2. x + b <= z
    BY <2>1
  <2>. QED  BY <2>2 DEF x, z
<1>. QED  BY <1>1, <1>3, <1>6

LEMMA TriplesFinite ==
  ASSUME NEW f, NEW b, NEW n \in Nat
  PROVE  IsFiniteSet({<<f, b, i>> : i \in 1..n})
<1>. DEFINE U(m) == {<<f, b, i>> : i \in 1..m}
            T == {m \in 0..n : IsFiniteSet(U(m))}
<1>1. 0 \in T
  <2>1. U(0) = {}
    OBVIOUS
  <2>. HIDE DEF U
  <2>. QED  BY <2>1, FS_EmptySet
<1>2. ASSUME NEW m \in 0..(n - 1), m \in T PROVE m + 1 \in T
  <2>1. U(m + 1) = U(m) \cup {<<f, b, m + 1>>}
    <3>1. 1..(m + 1) = 1..m \cup {m + 1}
      OBVIOUS
    <3>. QED  BY <3>1
  <2>2. m + 1 \in 0..n
    OBVIOUS
  <2>. HIDE DEF U
  <2>3. IsFiniteSet(U(m))
    BY <1>2
  <2>. DEFINE x == <<f, b, m + 1>>
  <2>. HIDE DEF x
  <2>4. IsFiniteSet(U(m) \cup {x})
    BY <2>3, FS_AddElement
  <2>. QED  BY <2>1, <2>2, <2>4 DEF x
<1>. HIDE DEF T
<1>3. \A m \in 0..n : m \in T
  BY <1>1, <1>2, CountUp
<1>4. n \in T
  BY <1>3
<1>. QED  BY <1>4 DEF T

CallsIn(functions, f, b) ==
  {<<f, b, i>> : i \in {j \in 1..Len(functions[f].body[b].ops) :
                          functions[f].body[b].ops[j].name = "func.call"}}

LEMMA CallPlacesFinite ==
  ASSUME NEW functions, Shape(functions),
         \A f \in 1..Len(functions) : \A b \in 1..Len(functions[f].body) :
           Len(functions[f].body[b].ops) \in Nat
  PROVE  IsFiniteSet(CallPlaces(functions))
<1>1. ASSUME NEW f \in 1..Len(functions), NEW b \in 1..Len(functions[f].body)
      PROVE  IsFiniteSet(CallsIn(functions, f, b))
  <2>. DEFINE n == Len(functions[f].body[b].ops)
              all == {<<f, b, i>> : i \in 1..n}
  <2>1. n \in Nat
    OBVIOUS
  <2>2. CallsIn(functions, f, b) \in SUBSET all
    BY DEF CallsIn
  <2>3. IsFiniteSet(all)
    <3>. HIDE DEF n
    <3>. QED  BY <2>1, TriplesFinite
  <2>. HIDE DEF all
  <2>. QED  BY <2>2, <2>3, FS_Subset
<1>2. ASSUME NEW f \in 1..Len(functions)
      PROVE  IsFiniteSet(UNION {CallsIn(functions, f, b) : b \in 1..Len(functions[f].body)})
  <2>. DEFINE n == Len(functions[f].body)
              sets == [b \in 1..n |-> CallsIn(functions, f, b)]
  <2>1. n \in Nat /\ \A b \in 1..n : IsFiniteSet(sets[b])
    BY <1>1 DEF Shape
  <2>2. {CallsIn(functions, f, b) : b \in 1..n} = {sets[b] : b \in 1..n}
    OBVIOUS
  <2>. HIDE DEF n, sets
  <2>3. IsFiniteSet(UNION {sets[b] : b \in 1..n})
    BY <2>1, UnionUpTo
  <2>. QED  BY <2>2, <2>3 DEF n
<1>. DEFINE n == Len(functions)
            sets == [f \in 1..n |->
                       UNION {CallsIn(functions, f, b) : b \in 1..Len(functions[f].body)}]
<1>3. n \in Nat /\ \A f \in 1..n : IsFiniteSet(sets[f])
  BY <1>2 DEF Shape
<1>4. CallPlaces(functions) = UNION {sets[f] : f \in 1..n}
  BY DEF CallPlaces, CallsIn
<1>. HIDE DEF n, sets
<1>5. IsFiniteSet(UNION {sets[f] : f \in 1..n})
  BY <1>3, UnionUpTo
<1>. QED  BY <1>4, <1>5

-----------------------------------------------------------------------------
(* What MLIR has verified of a program is what emission relies on.          *)

LEMMA VerifiedShape ==
  ASSUME NEW p, Verified(p)
  PROVE  /\ Shape(p.functions)
         /\ Len(p.functions) >= 1
         /\ \A f \in 1..Len(p.functions) :
              /\ Len(p.functions[f].body) >= 1
              /\ \A b \in 1..Len(p.functions[f].body) :
                   /\ Len(p.functions[f].body[b].ops) \in Nat
                   /\ Len(p.functions[f].body[b].ops) >= 1
<1>. DEFINE functions == p.functions
<1>1. Len(functions) \in Nat \ {0}
      /\ \A f \in 1..Len(functions) : FunctionVerified(functions, f, p.layout)
  BY DEF Verified
<1>2. ASSUME NEW f \in 1..Len(functions)
      PROVE  /\ Len(functions[f].body) \in Nat \ {0}
             /\ \A b \in 1..Len(functions[f].body) : BlockVerified(functions, f, b)
  BY <1>1 DEF FunctionVerified
<1>3. ASSUME NEW f \in 1..Len(functions), NEW b \in 1..Len(functions[f].body)
      PROVE  Len(functions[f].body[b].ops) \in Nat /\ Len(functions[f].body[b].ops) >= 1
  <2>1. Len(functions[f].body[b].ops) \in Nat \ {0}
    BY <1>2 DEF BlockVerified
  <2>. QED  BY <2>1
<1>4. Shape(functions)
  BY <1>1, <1>2 DEF Shape
<1>5. Len(functions) >= 1
  BY <1>1
<1>6. \A f \in 1..Len(functions) : Len(functions[f].body) >= 1
  BY <1>2
<1>. QED  BY <1>3, <1>4, <1>5, <1>6

(* What is verified of an operation.                                        *)
OpVerified(functions, f, isLast, op) ==
  /\ op.operands \in Seq(FunctionValues(functions[f].body))
  /\ op.name \in Terminators <=> isLast
  /\ op.name \in Terminators => op.results = {}
  /\ op.name = "constant" => op.operands = <<>> /\ op.results # {}
  /\ GoesSomewhere(functions, f, op)

LEMMA VerifiedOp ==
  ASSUME NEW p, Verified(p), NEW f \in 1..Len(p.functions),
         NEW b \in 1..Len(p.functions[f].body), NEW i \in 1..Len(p.functions[f].body[b].ops)
  PROVE  OpVerified(p.functions, f, i = Len(p.functions[f].body[b].ops),
                    p.functions[f].body[b].ops[i])
<1>1. FunctionVerified(p.functions, f, p.layout)
  BY DEF Verified
<1>2. BlockVerified(p.functions, f, b)
  BY <1>1 DEF FunctionVerified
<1>. QED  BY <1>2, Zenon DEF BlockVerified, OpVerified

RegularOps(unit) ==
  \A place \in Places(unit) :
    OpAt(unit, place).name # "invalid" => Fits(unit, OpAt(unit, place))

LEMMA UnitFields ==
  ASSUME NEW functions, NEW f, NEW layout
  PROVE  /\ UnitOf(functions, f, layout).body = functions[f].body
         /\ UnitOf(functions, f, layout).kind = functions[f].kind
         /\ UnitOf(functions, f, layout).visibility = functions[f].visibility
BY DEF UnitOf, Unit

LEMMA ControlHasNoOpcode ==
  ASSUME NEW unit, NEW op, op.name \in ControlOps
  PROVE  OpcodeOf(unit, op) = NoOpcode
<1>1. op.name \notin DOMAIN FixedOpcodes
  <2>1. op.name \notin DOMAIN ArithOpcodes
    BY DEF ControlOps, ArithOpcodes
  <2>2. op.name \notin DOMAIN EnvironmentOpcodes
    BY DEF ControlOps, EnvironmentOpcodes
  <2>3. op.name \notin DOMAIN MachineOpcodes
    BY DEF ControlOps, MachineOpcodes
  <2>4. op.name \notin DOMAIN CallOpcodes
    BY DEF ControlOps, CallOpcodes
  <2>. DEFINE plain  == Joined(ArithOpcodes, EnvironmentOpcodes)
              others == Joined(MachineOpcodes, CallOpcodes)
  <2>5. DOMAIN plain = DOMAIN ArithOpcodes \cup DOMAIN EnvironmentOpcodes
        /\ DOMAIN others = DOMAIN MachineOpcodes \cup DOMAIN CallOpcodes
        /\ DOMAIN Joined(plain, others) = DOMAIN plain \cup DOMAIN others
    BY JoinedNames
  <2>. QED  BY <2>1, <2>2, <2>3, <2>4, <2>5 DEF FixedOpcodes
<1>2. op.name \notin {"constant", "cmpi", "xori"}
  BY DEF ControlOps
<1>3. \A definers : getOpcode(op, definers) = NoOpcode
  BY <1>1, <1>2, Zenon DEF getOpcode
<1>. QED  BY <1>3 DEF OpcodeOf

LEMMA VerifiedUnit ==
  ASSUME NEW p, Verified(p), NEW f \in 1..Len(p.functions), NEW exact,
         exact => RegularOps(UnitOf(p.functions, f, p.layout))
  PROVE  GoodUnit(UnitOf(p.functions, f, p.layout), ValuesOf(p.functions), exact)
<1>. DEFINE functions == p.functions
            unit == UnitOf(functions, f, p.layout)
            V == ValuesOf(functions)
<1>1. unit.body = functions[f].body
  BY UnitFields
<1>2. /\ Len(unit.body) \in Nat
      /\ \A b \in 1..Len(unit.body) : Len(unit.body[b].ops) \in Nat
  BY <1>1, VerifiedShape DEF Shape
<1>3. FunctionValues(unit.body) \subseteq V
  BY <1>1 DEF ValuesOf
<1>4. RecomputationEnds(unit)
  BY DEF Verified, FunctionVerified
<1>5. ASSUME NEW place \in Places(unit)
      PROVE  /\ OpAt(unit, place).operands \in Seq(FunctionValues(unit.body))
             /\ GoodOp(unit, V, exact, OpAt(unit, place))
  <2>9. PICK b \in 1..Len(unit.body) : \E i \in 1..Len(unit.body[b].ops) : place = <<b, i>>
    BY PlaceIs
  <2>1. PICK i \in 1..Len(unit.body[b].ops) : place = <<b, i>>
    BY <2>9
  <2>. DEFINE op == OpAt(unit, place)
  <2>2. op = functions[f].body[b].ops[i]
    BY <1>1, <2>1 DEF OpAt
  <2>. DEFINE isLast == i = Len(functions[f].body[b].ops)
  <2>3. OpVerified(functions, f, isLast, op)
    <3>1. b \in 1..Len(functions[f].body)
      BY <1>1
    <3>2. i \in 1..Len(functions[f].body[b].ops)
      BY <1>1
    <3>3. OpVerified(functions, f, isLast, functions[f].body[b].ops[i])
      BY <3>1, <3>2, VerifiedOp, Zenon
    <3>. QED  BY <2>2, <3>3
  <2>. HIDE DEF isLast
  <2>10. /\ op.operands \in Seq(FunctionValues(functions[f].body))
         /\ op.name = "constant" => op.operands = <<>> /\ op.results # {}
         /\ op.name \in Terminators => op.results = {}
    <3>. HIDE DEF op, functions
    <3>. QED  BY <2>3, Zenon DEF OpVerified
  <2>4. op.operands \in Seq(FunctionValues(unit.body))
    BY <1>1, <2>10
  <2>5. op.results \subseteq V
    <3>1. op.results \subseteq OpDefs(unit.body[b])
      BY <1>1, <2>1, <2>2 DEF OpDefs
    <3>2. OpDefs(unit.body[b]) \subseteq FunctionValues(unit.body)
      BY <2>1 DEF FunctionValues, Defs
    <3>. QED  BY <3>1, <3>2, <1>3
  <2>6. ASSUME exact PROVE Exactly(unit, op)
    <3>1. op.name # "invalid" => Fits(unit, op)
      BY <2>6 DEF RegularOps
    <3>2. CASE op.name \in ControlOps
      <4>. HIDE DEF op, unit
      <4>. QED  BY <3>2, ControlHasNoOpcode DEF Exactly
    <3>3. CASE op.name = "constant"
      <4>1. op.operands = <<>> /\ op.results # {}
        BY <3>3, <2>10
      <4>. HIDE DEF op, unit
      <4>. QED  BY <3>3, <4>1 DEF Exactly
    <3>4. CASE op.name = "invalid"
      <4>1. op.results = {}
        BY <3>4, <2>10 DEF Terminators
      <4>. HIDE DEF op, unit
      <4>. QED  BY <3>4, <4>1 DEF Exactly
    <3>5. CASE op.name \notin ControlOps \cup {"constant", "invalid"}
      <4>. HIDE DEF op, unit
      <4>. QED  BY <3>1, <3>5 DEF Exactly, IsPlain
    <3>. HIDE DEF op
    <3>. QED  BY <3>2, <3>3, <3>4, <3>5
  <2>7. Len(op.operands) \in Nat
    BY <2>4
  <2>. HIDE DEF op, unit, V
  <2>8. GoodOp(unit, V, exact, op)
    BY <2>5, <2>6, <2>7 DEF GoodOp
  <2>. QED  BY <2>4, <2>8 DEF op
<1>. HIDE DEF unit, V
<1>6. \A place \in Places(unit) :
        /\ OpAt(unit, place).operands \in Seq(FunctionValues(unit.body))
        /\ GoodOp(unit, V, exact, OpAt(unit, place))
  BY <1>5
<1>7. GoodUnit(unit, V, exact)
  BY <1>2, <1>3, <1>4, <1>6, Zenon DEF GoodUnit
<1>. QED  BY <1>7 DEF unit, V

-----------------------------------------------------------------------------
(* The emission of an operation that is no call: no label is defined, and   *)
(* the machine does not go on after the last one of a block.                *)

Total(functions) == BlocksBefore(functions, Len(functions) + 1)

LEMMA EmitOpAdds ==
  ASSUME NEW p, Verified(p), NEW f \in 1..Len(p.functions),
         NEW b \in 1..Len(p.functions[f].body), NEW i \in 1..Len(p.functions[f].body[b].ops),
         NEW e, IsEmitter(ValuesOf(p.functions), e),
         e.stream.nextLabelID \in Nat, Total(p.functions) <= e.stream.nextLabelID,
         p.functions[f].body[b].ops[i].name # "func.call"
  PROVE  LET e2 == emitOp(UnitOf(p.functions, f, p.layout), e, <<b, i>>)
         IN  /\ Adds(ValuesOf(p.functions), e, e2)
             /\ i = Len(p.functions[f].body[b].ops) => Ended(Instrs(e2))
<1>. DEFINE functions == p.functions
            unit == UnitOf(functions, f, p.layout)
            V == ValuesOf(functions)
            place == <<b, i>>
            op == OpAt(unit, place)
            next == e.stream.nextLabelID
            isLast == i = Len(functions[f].body[b].ops)
            e2 == emitOp(unit, e, place)
<1>1. GoodUnit(unit, V, FALSE)
  BY VerifiedUnit
<1>2. unit.body = functions[f].body /\ unit.kind = functions[f].kind
      /\ unit.visibility = functions[f].visibility
  BY UnitFields
<1>3. place \in Places(unit)
  BY <1>2, PlaceIs
<1>4. op = functions[f].body[b].ops[i]
  BY <1>2 DEF OpAt
<1>5. OpVerified(functions, f, isLast, op)
  <2>1. OpVerified(functions, f, i = Len(p.functions[f].body[b].ops), functions[f].body[b].ops[i])
    BY VerifiedOp, Zenon
  <2>. QED  BY <2>1, <1>4
<1>6. ASSUME NEW c \in 1..Len(functions[f].body) PROVE BlockLabel(unit, c) \in 0..(next - 1)
  <2>1. Shape(functions)
    BY VerifiedShape
  <2>2. /\ BlockLabel(unit, c) = BlocksBefore(functions, f) + c - 1
        /\ BlocksBefore(functions, f) \in Nat
        /\ BlocksBefore(functions, f) + c <= Total(functions)
        /\ Total(functions) \in Nat
    BY <2>1, BlockLabels DEF Total
  <2>. DEFINE x == BlocksBefore(functions, f)
              y == Total(functions)
              l == BlockLabel(unit, c)
              m == Len(functions[f].body)
  <2>3. l = x + c - 1 /\ x \in Nat /\ x + c <= y /\ y \in Nat /\ y <= next /\ next \in Nat
        /\ c \in 1..m /\ m \in Nat
    BY <2>1, <2>2 DEF Shape
  <2>. HIDE DEF x, y, l, next, m
  <2>4. l \in 0..(next - 1)
    BY <2>3
  <2>. QED  BY <2>4 DEF l
<1>7. unit.kind # "constructor" /\ unit.visibility = IF f = 1 THEN "external" ELSE "internal"
  BY <1>2 DEF Verified, FunctionVerified
<1>8. IsEmitter(V, e) /\ op.name # "func.call"
  BY <1>4
<1>9. /\ op.operands \in Seq(FunctionValues(functions[f].body))
      /\ op.name \in Terminators <=> isLast
      /\ op.name \in Terminators => op.results = {}
      /\ op.name = "constant" => op.operands = <<>> /\ op.results # {}
      /\ GoesSomewhere(functions, f, op)
  <2>. HIDE DEF op, functions, isLast
  <2>. QED  BY <1>5, Zenon DEF OpVerified
<1>10. Len(op.operands) \in Nat
  BY <1>9
<1>11. GoodOp(unit, V, FALSE, op)
  BY <1>1, <1>3, Zenon DEF GoodUnit
<1>12. emitOp(unit, e, place) =
         CASE op.name = "cf.br"       -> emitBranch(unit, e, op, place)
           [] op.name = "cf.cond_br"  -> emitCondBranch(unit, e, op, place)
           [] op.name = "func.return" -> emitReturn(unit, e, op, place)
           [] op.name = "constant"    -> emitConstant(e, op)
           [] op.name = "func.call"   -> emitCall(unit, e, op, place)
           [] OTHER                   ->
                emitOpcode(unit, scheduleOperands(unit, e, op, place), op)
  BY Zenon DEF emitOp
<1>. DEFINE blocks == 1..Len(functions[f].body)
<1>13. /\ op.name = "cf.br" => op.dest \in blocks
       /\ op.name = "cf.cond_br" =>
            /\ op.trueDest \in blocks /\ op.falseDest \in blocks
            /\ op.operands # <<>> /\ op.trueArgs \in 0..(Len(op.operands) - 1)
  <2>. HIDE DEF op, functions
  <2>. QED  BY <1>9, Zenon DEF GoesSomewhere
<1>. HIDE DEF unit, V, place, e2, isLast
<1>14. CASE op.name = "cf.br"
  <2>1. BlockLabel(unit, op.dest) \in 0..(next - 1)
    BY <1>6, <1>13, <1>14
  <2>2. /\ Adds(V, e, emitBranch(unit, e, op, place))
        /\ Ended(Instrs(emitBranch(unit, e, op, place)))
    BY <2>1, <1>1, <1>3, <1>8, EmitBranch
  <2>3. emitOp(unit, e, place) = emitBranch(unit, e, op, place)
    <3>. HIDE DEF op
    <3>. QED  BY <1>12, <1>14
  <2>. HIDE DEF op
  <2>. QED  BY <2>2, <2>3 DEF e2, unit, V, place, isLast
<1>15. CASE op.name = "cf.cond_br"
  <2>1. BlockLabel(unit, op.trueDest) \in 0..(next - 1)
        /\ BlockLabel(unit, op.falseDest) \in 0..(next - 1)
    BY <1>6, <1>13, <1>15
  <2>2. op.operands # <<>> /\ op.trueArgs \in 0..(Len(op.operands) - 1)
    BY <1>13, <1>15
  <2>3. op = OpAt(unit, place)
    OBVIOUS
  <2>. HIDE DEF op
  <2>4. /\ Adds(V, e, emitCondBranch(unit, e, op, place))
        /\ Ended(Instrs(emitCondBranch(unit, e, op, place)))
    BY <2>1, <2>2, <2>3, <1>1, <1>3, <1>8, EmitCondBranch
  <2>5. emitOp(unit, e, place) = emitCondBranch(unit, e, op, place)
    BY <1>12, <1>15
  <2>. QED  BY <2>4, <2>5 DEF e2, unit, V, place, isLast
<1>16. CASE op.name = "func.return"
  <2>. DEFINE r == emitReturn(unit, e, op, place)
  <2>1. op = OpAt(unit, place)
    OBVIOUS
  <2>2. emitOp(unit, e, place) = r
    <3>. HIDE DEF op
    <3>. QED  BY <1>12, <1>16
  <2>. HIDE DEF op
  <2>3. ASSUME f = 1 PROVE Adds(V, e, r) /\ Ended(Instrs(r))
    <3>1. unit.visibility = "external"
      BY <1>7, <2>3
    <3>2. Advance(V, FALSE, e, r) /\ Ended(Instrs(r))
      BY <3>1, <2>1, <1>1, <1>3, <1>7, <1>8, EmitExternalReturn
    <3>. HIDE DEF r
    <3>. QED  BY <3>2, AdvanceAdds
  <2>4. ASSUME f # 1 PROVE Adds(V, e, r) /\ Ended(Instrs(r))
    <3>1. unit.visibility = "internal"
      BY <1>7, <2>4
    <3>. DEFINE n == Len(op.operands)
                back == JumpBack(n)
    <3>. DEFINE m == emitValues(unit, e, op.operands, place)
    <3>2. Advance(V, FALSE, e, m) /\ r = Write(m, JumpBack(n))
      <4>1. op.operands \in Seq(FunctionValues(unit.body))
        BY <1>2, <1>9
      <4>2. Advance(V, FALSE, e, m)
        BY <4>1, <1>1, <1>3, <1>8, EmitValues
      <4>3. emitReturn(unit, e, op, place) = Write(m, JumpBack(n))
        BY <3>1, <1>7, InternalReturnIs
      <4>. QED  BY <4>2, <4>3
    <3>. HIDE DEF r, m
    <3>3. Adds(V, e, m) /\ IsEmitter(V, m) /\ m.stream.nextLabelID = next
      <4>1. Adds(V, e, m)
        BY <3>2, AdvanceAdds
      <4>. QED  BY <3>2, <4>1 DEF Advance
    <3>4. n \in Nat
      BY <1>10
    <3>. HIDE DEF n
    <3>5. /\ IsSequence(back)
          /\ \A k \in 1..Len(back) : Ordinary(back[k])
          /\ Ended(back)
      BY <3>4, JumpBackIs
    <3>6. \A k \in 1..Len(back) : Known(back[k], m.stream.nextLabelID)
      BY <3>5 DEF Known
    <3>7. r = Write(m, back)
      BY <3>2
    <3>. HIDE DEF back
    <3>8. Adds(V, m, r)
      BY <3>3, <3>5, <3>6, <3>7, WriteAdds
    <3>9. Adds(V, e, r)
      BY <3>3, <3>8, <1>8, AddsTwice
    <3>10. Instrs(r) = Instrs(m) \o back
      <4>1. IsEmitter(V, m) /\ IsSequence(back)
        BY <3>3, <3>5
      <4>2. Instrs(Write(m, back)) = Instrs(m) \o back
        BY <4>1, WriteIs
      <4>. QED  BY <3>7, <4>2
    <3>11. Ended(Instrs(m) \o back)
      BY <3>3, <3>5, EndedBy DEF IsEmitter
    <3>. QED  BY <3>9, <3>10, <3>11
  <2>. HIDE DEF r
  <2>. QED  BY <2>2, <2>3, <2>4 DEF e2, unit, V, place, isLast
<1>17. CASE op.name = "constant"
  <2>1. op.results \subseteq V /\ op.results # {}
    BY <1>9, <1>11, <1>17 DEF GoodOp
  <2>2. Advance(V, FALSE, e, emitConstant(e, op))
    BY <2>1, <1>8, EmitConstant
  <2>3. Adds(V, e, emitConstant(e, op))
    BY <2>2, AdvanceAdds
  <2>4. emitOp(unit, e, place) = emitConstant(e, op)
    <3>. HIDE DEF op
    <3>. QED  BY <1>12, <1>17
  <2>5. ~isLast
    BY <1>9, <1>17 DEF Terminators
  <2>. HIDE DEF op
  <2>. QED  BY <2>3, <2>4, <2>5 DEF e2, unit, V, place, isLast
<1>18. CASE op.name \notin {"cf.br", "cf.cond_br", "func.return", "constant"}
  <2>. DEFINE r == emitOpcode(unit, scheduleOperands(unit, e, op, place), op)
  <2>1. op = OpAt(unit, place)
    OBVIOUS
  <2>2. emitOp(unit, e, place) = r
    <3>. HIDE DEF op, r
    <3>1. op.name \notin {"cf.br", "cf.cond_br", "func.return", "constant", "func.call"}
      BY <1>18, <1>8
    <3>. QED  BY <1>12, <3>1 DEF r
  <2>. HIDE DEF op
  <2>3. /\ Advance(V, FALSE, e, r)
        /\ op.name \in {"stop", "return", "revert", "invalid", "selfdestruct"}
             /\ op.results = {} => Ended(Instrs(r))
    BY <2>1, <1>1, <1>3, <1>8, EmitPlain
  <2>. HIDE DEF r
  <2>4. Adds(V, e, r)
    BY <2>3, AdvanceAdds
  <2>5. ASSUME isLast PROVE Ended(Instrs(r))
    <3>1. op.name \in Terminators /\ op.results = {}
      BY <1>9, <2>5
    <3>2. op.name \in {"stop", "return", "revert", "invalid", "selfdestruct"}
      BY <3>1, <1>18 DEF Terminators
    <3>. QED  BY <3>1, <3>2, <2>3
  <2>. QED  BY <2>2, <2>4, <2>5 DEF e2, unit, V, place, isLast
<1>. HIDE DEF op
<1>. QED  BY <1>14, <1>15, <1>16, <1>17, <1>18

OpIn(functions, f, b, i) ==
  /\ f \in 1..Len(functions)
  /\ b \in 1..Len(functions[f].body)
  /\ i \in 1..Len(functions[f].body[b].ops)

EmittedOp(p, e, f, b, i) == emitOp(UnitOf(p.functions, f, p.layout), e, <<b, i>>)

OpName(functions, f, b, i) == functions[f].body[b].ops[i].name

LEMMA EmittedOpAdds ==
  ASSUME NEW p, Verified(p), NEW f, NEW b, NEW i, OpIn(p.functions, f, b, i),
         NEW e, IsEmitter(ValuesOf(p.functions), e),
         e.stream.nextLabelID \in Nat, Total(p.functions) <= e.stream.nextLabelID,
         OpName(p.functions, f, b, i) # "func.call"
  PROVE  /\ Adds(ValuesOf(p.functions), e, EmittedOp(p, e, f, b, i))
         /\ i = Len(p.functions[f].body[b].ops) => Ended(Instrs(EmittedOp(p, e, f, b, i)))
<1>. DEFINE e2 == emitOp(UnitOf(p.functions, f, p.layout), e, <<b, i>>)
<1>1. f \in 1..Len(p.functions)
  BY DEF OpIn
<1>2. b \in 1..Len(p.functions[f].body)
  BY DEF OpIn
<1>3. i \in 1..Len(p.functions[f].body[b].ops)
  BY DEF OpIn
<1>4. p.functions[f].body[b].ops[i].name # "func.call"
  BY DEF OpName
<1>5. Adds(ValuesOf(p.functions), e, e2)
  BY <1>1, <1>2, <1>3, <1>4, EmitOpAdds, Zenon
<1>6. i = Len(p.functions[f].body[b].ops) => Ended(Instrs(e2))
  BY <1>1, <1>2, <1>3, <1>4, EmitOpAdds, Zenon
<1>. QED  BY <1>5, <1>6 DEF EmittedOp

-----------------------------------------------------------------------------
(* The labels that code defines, each of them once.                         *)

CodeIs(code, next, defined) ==
  /\ IsSequence(code)
  /\ \A i \in 1..Len(code) :
       Known(code[i], next) \/ \E l \in defined : code[i] = LabelDefInstr(l)
  /\ \A l \in defined : \E i \in 1..Len(code) : code[i] = LabelDefInstr(l)
  /\ \A l \in defined : \A i \in 1..Len(code) : \A j \in 1..Len(code) :
       code[i] = LabelDefInstr(l) /\ code[j] = LabelDefInstr(l) => i = j

LEMMA KnownDefinesNothing ==
  ASSUME NEW instr, NEW next, Known(instr, next), NEW l
  PROVE  instr # LabelDefInstr(l)
BY DEF Known, Ordinary, PushInstr, OpcodeInstr, LabelRefInstr, LabelDefInstr

LEMMA KnownGrows ==
  ASSUME NEW instr, NEW n \in Nat, NEW m \in Nat, n <= m, Known(instr, n)
  PROVE  Known(instr, m)
<1>1. \A l \in 0..(n - 1) : l \in 0..(m - 1)
  OBVIOUS
<1>. QED  BY <1>1 DEF Known

LEMMA LabelDefsDiffer ==
  ASSUME NEW l, NEW k, LabelDefInstr(l) = LabelDefInstr(k)
  PROVE  l = k
BY DEF LabelDefInstr

LEMMA CodeJoined ==
  ASSUME NEW code, NEW frag, NEW n \in Nat, NEW m \in Nat, n <= m, NEW D, NEW E,
         CodeIs(code, n, D), CodeIs(frag, m, E), D \cap E = {}
  PROVE  CodeIs(code \o frag, m, D \cup E)
<1>. DEFINE s == code \o frag
            c == Len(code)
            g == Len(frag)
<1>1. IsSequence(code) /\ IsSequence(frag)
  BY DEF CodeIs
<1>2. c \in Nat /\ g \in Nat
  BY <1>1, SequenceIs
<1>3. IsSequence(s) /\ Len(s) = c + g
  BY <1>1, Concatenation
<1>4. \A i \in 1..c : s[i] = code[i]
  BY <1>1, Concatenation
<1>5. \A k \in 1..g : s[c + k] = frag[k]
  BY <1>1, Concatenation
<1>6. /\ \A i \in 1..c : Known(code[i], n) \/ \E l \in D : code[i] = LabelDefInstr(l)
      /\ \A l \in D : \E i \in 1..c : code[i] = LabelDefInstr(l)
      /\ \A l \in D : \A i \in 1..c : \A j \in 1..c :
           code[i] = LabelDefInstr(l) /\ code[j] = LabelDefInstr(l) => i = j
  BY DEF CodeIs
<1>7. /\ \A i \in 1..g : Known(frag[i], m) \/ \E l \in E : frag[i] = LabelDefInstr(l)
      /\ \A l \in E : \E i \in 1..g : frag[i] = LabelDefInstr(l)
      /\ \A l \in E : \A i \in 1..g : \A j \in 1..g :
           frag[i] = LabelDefInstr(l) /\ frag[j] = LabelDefInstr(l) => i = j
  BY DEF CodeIs
<1>. HIDE DEF s, c, g
<1>8. ASSUME NEW i \in 1..(c + g), ~(i \in 1..c)
      PROVE  i - c \in 1..g /\ s[i] = frag[i - c]
  <2>. DEFINE k == i - c
  <2>1. k \in 1..g /\ c + k = i
    BY <1>2, <1>8
  <2>. HIDE DEF k
  <2>2. s[i] = frag[k]
    BY <1>5, <2>1
  <2>. QED  BY <2>1, <2>2 DEF k
<1>9. ASSUME NEW i \in 1..(c + g)
      PROVE  Known(s[i], m) \/ \E l \in D \cup E : s[i] = LabelDefInstr(l)
  <2>1. CASE i \in 1..c
    <3>1. s[i] = code[i]
      BY <1>4, <2>1
    <3>2. CASE Known(code[i], n)
      BY <3>1, <3>2, KnownGrows
    <3>3. CASE \E l \in D : code[i] = LabelDefInstr(l)
      BY <3>1, <3>3
    <3>. QED  BY <1>6, <2>1, <3>2, <3>3
  <2>2. CASE ~(i \in 1..c)
    BY <1>7, <1>8, <2>2
  <2>. QED  BY <2>1, <2>2
<1>10. ASSUME NEW l \in D \cup E PROVE \E i \in 1..(c + g) : s[i] = LabelDefInstr(l)
  <2>1. CASE l \in D
    <3>1. PICK i \in 1..c : code[i] = LabelDefInstr(l)
      BY <1>6, <2>1
    <3>2. i \in 1..(c + g)
      BY <1>2
    <3>. QED  BY <1>4, <3>1, <3>2
  <2>2. CASE l \in E
    <3>1. PICK k \in 1..g : frag[k] = LabelDefInstr(l)
      BY <1>7, <2>2
    <3>2. c + k \in 1..(c + g)
      BY <1>2
    <3>. QED  BY <1>5, <3>1, <3>2
  <2>. QED  BY <2>1, <2>2
<1>11. ASSUME NEW l \in D, NEW i \in 1..(c + g), s[i] = LabelDefInstr(l)
       PROVE  i \in 1..c /\ code[i] = LabelDefInstr(l)
  <2>1. SUFFICES ASSUME ~(i \in 1..c) PROVE FALSE
    BY <1>4, <1>11
  <2>2. i - c \in 1..g /\ frag[i - c] = LabelDefInstr(l)
    BY <1>8, <1>11, <2>1
  <2>3. ~Known(frag[i - c], m)
    BY <2>2, KnownDefinesNothing
  <2>4. PICK k \in E : frag[i - c] = LabelDefInstr(k)
    BY <1>7, <2>2, <2>3
  <2>. QED  BY <2>2, <2>4, LabelDefsDiffer
<1>12. ASSUME NEW l \in E, NEW i \in 1..(c + g), s[i] = LabelDefInstr(l)
       PROVE  i - c \in 1..g /\ frag[i - c] = LabelDefInstr(l)
  <2>1. SUFFICES ASSUME i \in 1..c PROVE FALSE
    BY <1>8, <1>12
  <2>2. code[i] = LabelDefInstr(l)
    BY <1>4, <1>12, <2>1
  <2>3. ~Known(code[i], n)
    BY <2>2, KnownDefinesNothing
  <2>4. PICK k \in D : code[i] = LabelDefInstr(k)
    BY <1>6, <2>1, <2>3
  <2>. QED  BY <2>2, <2>4, LabelDefsDiffer
<1>13. ASSUME NEW l \in D \cup E, NEW i \in 1..(c + g), NEW j \in 1..(c + g),
              s[i] = LabelDefInstr(l), s[j] = LabelDefInstr(l)
       PROVE  i = j
  <2>1. CASE l \in D
    BY <1>6, <1>11, <1>13, <2>1
  <2>2. CASE l \in E
    <3>. DEFINE x == i - c
                y == j - c
    <3>1. x \in 1..g /\ frag[x] = LabelDefInstr(l) /\ y \in 1..g /\ frag[y] = LabelDefInstr(l)
      BY <1>12, <1>13, <2>2
    <3>. HIDE DEF x, y
    <3>2. x = y
      BY <1>7, <2>2, <3>1
    <3>. QED  BY <1>2, <3>2 DEF x, y
  <2>. QED  BY <2>1, <2>2
<1>14. CodeIs(s, m, D \cup E)
  BY <1>3, <1>9, <1>10, <1>13 DEF CodeIs
<1>. QED  BY <1>14 DEF s

LEMMA NothingDefined ==
  ASSUME NEW frag, IsSequence(frag), NEW next, \A k \in 1..Len(frag) : Known(frag[k], next)
  PROVE  CodeIs(frag, next, {})
BY DEF CodeIs

(* Code to which instructions are added that define no label. *)
LEMMA AddsCode ==
  ASSUME NEW V, NEW e, NEW e2, Adds(V, e, e2), NEW D, e.stream.nextLabelID \in Nat,
         CodeIs(Instrs(e), e.stream.nextLabelID, D)
  PROVE  CodeIs(Instrs(e2), e2.stream.nextLabelID, D)
<1>. DEFINE n == e.stream.nextLabelID
            none == {}
<1>1. PICK frag : /\ IsSequence(frag)
                  /\ Instrs(e2) = Instrs(e) \o frag
                  /\ \A k \in 1..Len(frag) : Known(frag[k], n)
  BY DEF Adds
<1>2. e2.stream.nextLabelID = n
  BY DEF Adds
<1>. HIDE DEF n
<1>3. CodeIs(frag, n, none)
  BY <1>1, NothingDefined
<1>4. D \cap none = {} /\ D \cup none = D /\ n \in Nat /\ n <= n /\ CodeIs(Instrs(e), n, D)
  BY DEF n
<1>. HIDE DEF none
<1>5. CodeIs(Instrs(e) \o frag, n, D \cup none)
  BY <1>3, <1>4, CodeJoined
<1>. QED  BY <1>1, <1>2, <1>4, <1>5

LEMMA BlockWordsDefine ==
  ASSUME NEW l, NEW next
  PROVE  CodeIs(BlockWords(l), next, {l})
<1>. DEFINE words == BlockWords(l)
            jumpdest == OpcodeInstr(JUMPDEST)
<1>1. IsSequence(words) /\ Len(words) = 2 /\ words[1] = LabelDefInstr(l) /\ words[2] = jumpdest
  BY BlockWordsAre
<1>. HIDE DEF words
<1>2. Known(jumpdest, next)
  BY DEF Known, Ordinary
<1>3. jumpdest # LabelDefInstr(l)
  BY <1>2, KnownDefinesNothing
<1>. HIDE DEF jumpdest
<1>4. \A i \in 1..Len(words) : Known(words[i], next) \/ \E k \in {l} : words[i] = LabelDefInstr(k)
  BY <1>1, <1>2
<1>5. \A k \in {l} : \E i \in 1..Len(words) : words[i] = LabelDefInstr(k)
  BY <1>1
<1>6. \A k \in {l} : \A i \in 1..Len(words) : \A j \in 1..Len(words) :
        words[i] = LabelDefInstr(k) /\ words[j] = LabelDefInstr(k) => i = j
  BY <1>1, <1>3
<1>7. CodeIs(words, next, {l})
  BY <1>1, <1>4, <1>5, <1>6 DEF CodeIs
<1>. QED  BY <1>7 DEF words

LEMMA CallWordsDefine ==
  ASSUME NEW ret \in Nat, NEW callee \in Nat, NEW next \in Nat, ret < next, callee < next
  PROVE  CodeIs(CallWords(ret, callee), next, {ret})
<1>. DEFINE words == CallWords(ret, callee)
            a == LabelRefInstr(ret)
            b == LabelRefInstr(callee)
            c == OpcodeInstr(JUMP)
            d == LabelDefInstr(ret)
            f == OpcodeInstr(JUMPDEST)
<1>1. IsSequence(words) /\ Len(words) = 5 /\ words[1] = a /\ words[2] = b /\ words[3] = c
      /\ words[4] = d /\ words[5] = f
  BY CallWordsAre
<1>. HIDE DEF words
<1>2. ret \in 0..(next - 1) /\ callee \in 0..(next - 1)
  OBVIOUS
<1>3. Known(a, next) /\ Known(b, next) /\ Known(c, next) /\ Known(f, next)
  <2>1. Known(a, next) /\ Known(b, next)
    BY <1>2 DEF Known
  <2>2. Known(c, next) /\ Known(f, next)
    BY DEF Known, Ordinary
  <2>. QED  BY <2>1, <2>2
<1>4. a # d /\ b # d /\ c # d /\ f # d
  BY <1>3, KnownDefinesNothing
<1>5. \A k \in {ret} : LabelDefInstr(k) = d
  OBVIOUS
<1>. HIDE DEF a, b, c, d, f
<1>6. \A i \in 1..5 : i = 1 \/ i = 2 \/ i = 3 \/ i = 4 \/ i = 5
  OBVIOUS
<1>7. \A i \in 1..5 : Known(words[i], next) \/ words[i] = d
  BY <1>1, <1>3, <1>6
<1>8. \A i \in 1..5 : words[i] = d => i = 4
  BY <1>1, <1>4, <1>6
<1>9. \A i \in 1..Len(words) :
        Known(words[i], next) \/ \E k \in {ret} : words[i] = LabelDefInstr(k)
  BY <1>1, <1>5, <1>7
<1>10. \A k \in {ret} : \E i \in 1..Len(words) : words[i] = LabelDefInstr(k)
  BY <1>1, <1>5
<1>11. \A k \in {ret} : \A i \in 1..Len(words) : \A j \in 1..Len(words) :
         words[i] = LabelDefInstr(k) /\ words[j] = LabelDefInstr(k) => i = j
  BY <1>1, <1>5, <1>8
<1>12. CodeIs(words, next, {ret})
  BY <1>1, <1>9, <1>10, <1>11 DEF CodeIs
<1>. QED  BY <1>12 DEF words

-----------------------------------------------------------------------------
(* The machine: it stays within the code, and the labels among its words    *)
(* are labels that the code defines.                                        *)

GoodWord(w, next) == w[1] = "label" => w[2] \in 0..(next - 1)

GoodWords(words, next) ==
  /\ IsSequence(words)
  /\ \A k \in 1..Len(words) : GoodWord(words[k], next)

GoodMemory(store, next) == \A address \in DOMAIN store : GoodWord(store[address], next)

LEMMA AppliedIsGood ==
  ASSUME NEW next, NEW opcode, NEW words, IsSequence(words)
  PROVE  GoodWord(Apply(opcode, words), next)
<1>. DEFINE head == <<"apply", opcode>>
<1>1. IsSequence(head)
  BY Tuples
<1>2. Len(head) = 2 /\ head[1] = "apply"
  OBVIOUS
<1>. HIDE DEF head
<1>3. 1 \in 1..Len(head)
  BY <1>2
<1>4. (head \o words)[1] = head[1]
  BY <1>1, <1>3, Concatenation
<1>5. Apply(opcode, words) = head \o words
  BY DEF Apply, head
<1>6. Apply(opcode, words)[1] = "apply"
  BY <1>2, <1>4, <1>5
<1>. QED  BY <1>6 DEF GoodWord

LEMMA OnTopIsGood ==
  ASSUME NEW next, NEW words, GoodWords(words, next), NEW w, GoodWord(w, next)
  PROVE  /\ GoodWords(<<w>> \o words, next)
         /\ Len(<<w>> \o words) = Len(words) + 1
<1>. DEFINE one == <<w>>
            s == one \o words
<1>1. IsSequence(one)
  BY Tuples
<1>2. Len(one) = 1 /\ one[1] = w
  OBVIOUS
<1>. HIDE DEF one
<1>3. IsSequence(words)
  BY DEF GoodWords
<1>4. IsSequence(s) /\ Len(s) = 1 + Len(words)
  <2>1. IsSequence(s) /\ Len(s) = Len(one) + Len(words)
    BY <1>1, <1>3, Concatenation
  <2>. QED  BY <1>2, <2>1
<1>5. Len(words) \in Nat
  BY <1>3, SequenceIs
<1>6. \A i \in 1..Len(one) : s[i] = one[i]
  BY <1>1, <1>3, Concatenation
<1>7. \A i \in 1..Len(words) : s[Len(one) + i] = words[i]
  BY <1>1, <1>3, Concatenation
<1>. HIDE DEF s
<1>8. ASSUME NEW k \in 1..Len(s) PROVE GoodWord(s[k], next)
  <2>1. CASE k = 1
    BY <1>2, <1>6, <2>1
  <2>2. CASE k # 1
    <3>. DEFINE j == k - 1
    <3>1. j \in 1..Len(words) /\ k = 1 + j
      BY <1>4, <1>5, <2>2
    <3>. HIDE DEF j
    <3>2. s[k] = words[j]
      BY <1>2, <1>7, <3>1
    <3>. QED  BY <3>1, <3>2 DEF GoodWords
  <2>. QED  BY <2>1, <2>2
<1>9. GoodWords(s, next) /\ Len(s) = Len(words) + 1
  BY <1>4, <1>5, <1>8 DEF GoodWords
<1>. QED  BY <1>9 DEF s, one

LEMMA PartIsGood ==
  ASSUME NEW next, NEW words, GoodWords(words, next), NEW m \in Nat, NEW n \in Nat,
         m >= 1, n <= Len(words), m <= n + 1
  PROVE  GoodWords(SubSeq(words, m, n), next)
<1>. DEFINE s == SubSeq(words, m, n)
<1>1. IsSequence(words)
  BY DEF GoodWords
<1>2. /\ IsSequence(s) /\ Len(s) = n - m + 1
      /\ \A i \in 1..(n - m + 1) : s[i] = words[m + i - 1]
  BY <1>1, Part
<1>3. Len(words) \in Nat
  BY <1>1, SequenceIs
<1>. HIDE DEF s
<1>4. ASSUME NEW k \in 1..Len(s) PROVE GoodWord(s[k], next)
  <2>1. m + k - 1 \in 1..Len(words) /\ k \in 1..(n - m + 1)
    BY <1>2, <1>3
  <2>2. s[k] = words[m + k - 1]
    BY <1>2, <2>1
  <2>. QED  BY <2>1, <2>2 DEF GoodWords
<1>. QED  BY <1>2, <1>4 DEF GoodWords, s

LEMMA BelowIsGood ==
  ASSUME NEW next, GoodWords(stack, next), NEW n \in Nat, Len(stack) >= n
  PROVE  GoodWords(Below(n), next) /\ GoodWords(SubSeq(stack, 1, n), next)
<1>1. Len(stack) \in Nat
  BY SequenceIs DEF GoodWords
<1>2. GoodWords(SubSeq(stack, n + 1, Len(stack)), next)
  BY <1>1, PartIsGood
<1>3. GoodWords(SubSeq(stack, 1, n), next)
  BY <1>1, PartIsGood
<1>. QED  BY <1>2, <1>3 DEF Below

LEMMA SwapIsGood ==
  ASSUME NEW next, NEW words, GoodWords(words, next), NEW n \in Nat, n >= 1, Len(words) >= n + 1
  PROVE  GoodWords([words EXCEPT ![1] = words[n + 1], ![n + 1] = words[1]], next)
<1>. DEFINE N == Len(words)
            a == words[1]
            b == words[n + 1]
            first == [words EXCEPT ![1] = b]
            both == [first EXCEPT ![n + 1] = a]
            S == {words[i] : i \in 1..N}
<1>1. N \in Nat /\ DOMAIN words = 1..N /\ words \in Seq(S)
  BY SequenceIs DEF GoodWords
<1>2. words \in [1..N -> S]
  BY <1>1
<1>3. 1 \in 1..N /\ n + 1 \in 1..N /\ a \in S /\ b \in S
  BY <1>1
<1>4. GoodWord(a, next) /\ GoodWord(b, next) /\ \A k \in 1..N : GoodWord(words[k], next)
  BY <1>3 DEF GoodWords
<1>. HIDE DEF N, a, b, S
<1>5. first \in [1..N -> S] /\ \A k \in 1..N : first[k] = IF k = 1 THEN b ELSE words[k]
  BY <1>2, <1>3
<1>. HIDE DEF first
<1>6. both \in [1..N -> S] /\ \A k \in 1..N : both[k] = IF k = n + 1 THEN a ELSE first[k]
  BY <1>3, <1>5
<1>. HIDE DEF both
<1>7. both \in Seq(S) /\ Len(both) = N
  BY <1>1, <1>6
<1>8. \A k \in 1..N : GoodWord(both[k], next)
  BY <1>4, <1>5, <1>6
<1>9. GoodWords(both, next)
  BY <1>7, <1>8 DEF GoodWords, IsSequence
<1>10. [words EXCEPT ![1] = b, ![n + 1] = a] = both
  BY DEF both, first
<1>. QED  BY <1>9, <1>10 DEF a, b

LEMMA WordsGrow ==
  ASSUME NEW n \in Nat, NEW m \in Nat, n <= m
  PROVE  /\ \A w : GoodWord(w, n) => GoodWord(w, m)
         /\ \A words : GoodWords(words, n) => GoodWords(words, m)
         /\ \A store : GoodMemory(store, n) => GoodMemory(store, m)
<1>1. \A l : l \in 0..(n - 1) => l \in 0..(m - 1)
  OBVIOUS
<1>2. \A w : GoodWord(w, n) => GoodWord(w, m)
  BY <1>1 DEF GoodWord
<1>3. \A words : GoodWords(words, n) => GoodWords(words, m)
  BY <1>2 DEF GoodWords
<1>4. \A store : GoodMemory(store, n) => GoodMemory(store, m)
  BY <1>2 DEF GoodMemory
<1>. QED  BY <1>2, <1>3, <1>4

MachineGood(next) == GoodWords(stack, next) /\ GoodMemory(memory, next)

(* What is needed of the code. *)
CodeGood(next) ==
  /\ next \in Nat
  /\ IsSequence(Code)
  /\ Ended(Code)
  /\ CodeIs(Code, next, 0..(next - 1))

(* An instruction that is not the last one. *)
GoesOn(instr) == instr.kind = "opcode" => instr.opcode \in Moves \cup {JUMPI}

LEMMA NotTheLast ==
  ASSUME NEW next, CodeGood(next), pc \in 1..Len(Code), GoesOn(Code[pc])
  PROVE  pc + 1 \in 1..Len(Code)
<1>1. Len(Code) \in Nat
  BY SequenceIs DEF CodeGood
<1>2. PICK opcode : opcode \notin Moves \cup {JUMPI} /\ Code[Len(Code)] = OpcodeInstr(opcode)
  BY DEF CodeGood, Ended
<1>3. ~GoesOn(OpcodeInstr(opcode))
  BY <1>2 DEF GoesOn, OpcodeInstr
<1>4. pc # Len(Code)
  BY <1>2, <1>3
<1>. QED  BY <1>1, <1>4

LEMMA LabelLeads ==
  ASSUME NEW next, CodeGood(next), NEW l \in 0..(next - 1)
  PROVE  LabelIndex(Code, l) \in 1..Len(Code) /\ Code[LabelIndex(Code, l)] = LabelDefInstr(l)
<1>1. \E i \in 1..Len(Code) : Code[i] = LabelDefInstr(l)
  BY DEF CodeGood, CodeIs
<1>. QED  BY <1>1 DEF LabelIndex

(* An instruction that changes the stack, and after which the next runs.    *)
Continued(next) ==
  /\ GoodWords(stack', next)
  /\ pc' = pc + 1
  /\ UNCHANGED outcome
  /\ pc + 1 \in 1..Len(Code)

LEMMA MarkContinues ==
  ASSUME NEW next, CodeGood(next), MachineGood(next), RunMark(Code)
  PROVE  Continued(next) /\ GoodMemory(memory', next)
<1>1. GoesOn(Code[pc])
  BY DEF RunMark, GoesOn, OpcodeInstr, Moves
<1>2. pc + 1 \in 1..Len(Code)
  BY <1>1, NotTheLast DEF RunMark, Running
<1>. QED  BY <1>2 DEF RunMark, Continue, MachineGood, Continued

LEMMA PushContinues ==
  ASSUME NEW next, CodeGood(next), MachineGood(next), RunPush(Code)
  PROVE  Continued(next) /\ GoodMemory(memory', next)
<1>1. /\ pc \in 1..Len(Code) /\ UNCHANGED <<outcome, memory>> /\ pc' = pc + 1
  BY DEF RunPush, Running, IsOpcode, Continue
<1>2. CASE Code[pc].kind = "push" /\ stack' = <<Number(Code[pc].value)>> \o stack
  <2>1. pc + 1 \in 1..Len(Code)
    BY <1>1, <1>2, NotTheLast DEF GoesOn
  <2>2. GoodWord(Number(Code[pc].value), next)
    BY DEF GoodWord, Number
  <2>3. GoodWords(stack', next)
    BY <1>2, <2>2, OnTopIsGood DEF MachineGood
  <2>. QED  BY <1>1, <2>1, <2>3 DEF Continued, MachineGood
<1>3. CASE Code[pc] = OpcodeInstr(PUSH0) /\ stack' = <<Number(0)>> \o stack
  <2>1. GoesOn(Code[pc])
    BY <1>3 DEF GoesOn, OpcodeInstr, Moves
  <2>2. pc + 1 \in 1..Len(Code)
    BY <1>1, <2>1, NotTheLast
  <2>3. GoodWord(Number(0), next)
    BY DEF GoodWord, Number
  <2>4. GoodWords(stack', next)
    BY <1>3, <2>3, OnTopIsGood DEF MachineGood
  <2>. QED  BY <1>1, <2>2, <2>4 DEF Continued, MachineGood
<1>4. CASE Code[pc].kind = "labelRef" /\ stack' = <<Label(Code[pc].label)>> \o stack
  <2>1. pc + 1 \in 1..Len(Code)
    BY <1>1, <1>4, NotTheLast DEF GoesOn
  <2>2. GoodWord(Label(Code[pc].label), next)
    <3>1. Known(Code[pc], next) \/ \E l \in 0..(next - 1) : Code[pc] = LabelDefInstr(l)
      BY <1>1 DEF CodeGood, CodeIs
    <3>2. Code[pc].label \in 0..(next - 1)
      <4>1. \A v : Code[pc] # PushInstr(v)
        BY <1>4 DEF PushInstr
      <4>2. \A opcode : Code[pc] # OpcodeInstr(opcode)
        BY <1>4 DEF OpcodeInstr
      <4>3. \A l : Code[pc] # LabelDefInstr(l)
        BY <1>4 DEF LabelDefInstr
      <4>4. PICK l \in 0..(next - 1) : Code[pc] = LabelRefInstr(l)
        BY <3>1, <4>1, <4>2, <4>3 DEF Known, Ordinary
      <4>5. Code[pc].label = l
        BY <4>4 DEF LabelRefInstr
      <4>. QED  BY <4>5
    <3>. QED  BY <3>2 DEF GoodWord, Label
  <2>3. GoodWords(stack', next)
    BY <1>4, <2>2, OnTopIsGood DEF MachineGood
  <2>. QED  BY <1>1, <2>1, <2>3 DEF Continued, MachineGood
<1>. QED  BY <1>2, <1>3, <1>4 DEF RunPush, IsOpcode, Continue

LEMMA OpcodeContinues ==
  ASSUME NEW next, CodeGood(next), NEW n, NEW opcode \in Moves \cup {JUMPI},
         IsOpcode(Code, n, opcode)
  PROVE  pc + 1 \in 1..Len(Code)
<1>1. pc \in 1..Len(Code) /\ Code[pc] = OpcodeInstr(opcode)
  BY DEF IsOpcode, Running
<1>2. GoesOn(Code[pc])
  BY <1>1 DEF GoesOn, OpcodeInstr
<1>. QED  BY <1>1, <1>2, NotTheLast

LEMMA DupContinues ==
  ASSUME NEW next, CodeGood(next), MachineGood(next), RunDup(Code)
  PROVE  Continued(next) /\ GoodMemory(memory', next)
<1>1. PICK n \in 1..16 : IsOpcode(Code, n, DUP1 + n - 1) /\ Continue(<<stack[n]>> \o stack)
  BY DEF RunDup
<1>2. DUP1 + n - 1 \in Moves
  BY DupMoves DEF Moves, Exchanging
<1>. DEFINE opcode == DUP1 + n - 1
<1>3. opcode \in Moves \cup {JUMPI} /\ IsOpcode(Code, n, opcode)
  BY <1>1, <1>2
<1>. HIDE DEF opcode
<1>4. pc + 1 \in 1..Len(Code)
  BY <1>3, OpcodeContinues
<1>5. n \in 1..Len(stack)
  <2>1. Len(stack) \in Nat /\ Len(stack) >= n
    BY <1>1, SequenceIs DEF IsOpcode, MachineGood, GoodWords
  <2>. QED  BY <2>1
<1>6. GoodWord(stack[n], next)
  BY <1>5 DEF MachineGood, GoodWords
<1>7. GoodWords(<<stack[n]>> \o stack, next)
  BY <1>6, OnTopIsGood DEF MachineGood
<1>. QED  BY <1>1, <1>4, <1>7 DEF Continue, Continued, MachineGood

LEMMA SwapContinues ==
  ASSUME NEW next, CodeGood(next), MachineGood(next), RunSwap(Code)
  PROVE  Continued(next) /\ GoodMemory(memory', next)
<1>1. PICK n \in 1..16 :
        /\ IsOpcode(Code, n + 1, SWAP1 + n - 1)
        /\ Continue([stack EXCEPT ![1] = stack[n + 1], ![n + 1] = stack[1]])
  BY DEF RunSwap
<1>2. SWAP1 + n - 1 \in Moves
  BY SwapMoves DEF Moves, Exchanging
<1>. DEFINE opcode == SWAP1 + n - 1
            m == n + 1
<1>3. opcode \in Moves \cup {JUMPI} /\ IsOpcode(Code, m, opcode)
  BY <1>1, <1>2
<1>4. n \in Nat /\ n >= 1 /\ Len(stack) >= n + 1
  <2>1. Len(stack) >= n + 1
    BY <1>1, Zenon DEF IsOpcode
  <2>. QED  BY <2>1
<1>. HIDE DEF opcode, m
<1>5. pc + 1 \in 1..Len(Code)
  BY <1>3, OpcodeContinues
<1>6. GoodWords([stack EXCEPT ![1] = stack[n + 1], ![n + 1] = stack[1]], next)
  BY <1>4, SwapIsGood DEF MachineGood
<1>. QED  BY <1>1, <1>5, <1>6 DEF Continue, Continued, MachineGood

LEMMA ComputeContinues ==
  ASSUME NEW next, CodeGood(next), MachineGood(next), RunCompute(Code)
  PROVE  Continued(next) /\ GoodMemory(memory', next)
<1>1. PICK opcode \in DOMAIN Computes :
        /\ IsOpcode(Code, Computes[opcode], opcode)
        /\ Continue(<<Apply(opcode, SubSeq(stack, 1, Computes[opcode]))>>
                    \o Below(Computes[opcode]))
  BY DEF RunCompute
<1>. DEFINE n == Computes[opcode]
            words == SubSeq(stack, 1, n)
            w == Apply(opcode, words)
<1>2. n \in Nat /\ opcode \in Moves \cup {JUMPI}
  BY ComputeMoves DEF Moves
<1>3. IsOpcode(Code, n, opcode) /\ Len(stack) >= n
  BY <1>1 DEF IsOpcode
<1>4. stack' = <<w>> \o Below(n) /\ pc' = pc + 1 /\ UNCHANGED <<memory, outcome>>
  BY <1>1 DEF Continue
<1>. HIDE DEF n
<1>5. pc + 1 \in 1..Len(Code)
  BY <1>2, <1>3, OpcodeContinues
<1>6. GoodWords(Below(n), next) /\ GoodWords(words, next)
  BY <1>2, <1>3, BelowIsGood DEF MachineGood
<1>. HIDE DEF words
<1>7. GoodWord(w, next)
  BY <1>6, AppliedIsGood DEF GoodWords
<1>. HIDE DEF w
<1>8. GoodWords(<<w>> \o Below(n), next)
  BY <1>6, <1>7, OnTopIsGood
<1>. QED  BY <1>4, <1>5, <1>8 DEF Continued, MachineGood

LEMMA ConsumeContinues ==
  ASSUME NEW next, CodeGood(next), MachineGood(next), RunConsume(Code)
  PROVE  Continued(next) /\ GoodMemory(memory', next)
<1>1. PICK opcode \in DOMAIN Consumes :
        IsOpcode(Code, Consumes[opcode], opcode) /\ Continue(Below(Consumes[opcode]))
  BY DEF RunConsume
<1>. DEFINE n == Consumes[opcode]
<1>2. n \in Nat /\ opcode \in Moves \cup {JUMPI}
  BY ConsumeMoves DEF Moves
<1>3. IsOpcode(Code, n, opcode) /\ Len(stack) >= n
  BY <1>1 DEF IsOpcode
<1>4. stack' = Below(n) /\ pc' = pc + 1 /\ UNCHANGED <<memory, outcome>>
  BY <1>1 DEF Continue
<1>. HIDE DEF n
<1>5. pc + 1 \in 1..Len(Code)
  BY <1>2, <1>3, OpcodeContinues
<1>6. GoodWords(Below(n), next)
  BY <1>2, <1>3, BelowIsGood DEF MachineGood
<1>. QED  BY <1>4, <1>5, <1>6 DEF Continued, MachineGood

LEMMA MloadContinues ==
  ASSUME NEW next, CodeGood(next), MachineGood(next), RunMload(Code)
  PROVE  Continued(next) /\ GoodMemory(memory', next)
<1>. DEFINE w == Stored(stack[1])
<1>1. IsOpcode(Code, 1, MLOAD) /\ Len(stack) >= 1
  BY DEF RunMload, IsOpcode
<1>2. stack' = <<w>> \o Below(1) /\ pc' = pc + 1 /\ UNCHANGED <<memory, outcome>>
  BY DEF RunMload, Continue
<1>3. MLOAD \in Moves \cup {JUMPI}
  BY DEF Moves
<1>4. pc + 1 \in 1..Len(Code)
  BY <1>1, <1>3, OpcodeContinues
<1>5. GoodWord(w, next)
  <2>1. GoodWord(Number(0), next)
    BY DEF GoodWord, Number
  <2>. QED  BY <2>1 DEF MachineGood, GoodMemory, Stored
<1>. HIDE DEF w
<1>6. GoodWords(Below(1), next)
  BY <1>1, BelowIsGood DEF MachineGood
<1>7. GoodWords(<<w>> \o Below(1), next)
  BY <1>5, <1>6, OnTopIsGood
<1>. QED  BY <1>2, <1>4, <1>7 DEF Continued, MachineGood

LEMMA MstoreContinues ==
  ASSUME NEW next, CodeGood(next), MachineGood(next), RunMstore(Code)
  PROVE  Continued(next) /\ GoodMemory(memory', next)
<1>1. IsOpcode(Code, 2, MSTORE) /\ Len(stack) >= 2
  BY DEF RunMstore, IsOpcode
<1>2. stack' = Below(2) /\ pc' = pc + 1 /\ UNCHANGED outcome
  BY DEF RunMstore
<1>3. MSTORE \in Moves \cup {JUMPI}
  BY DEF Moves
<1>4. pc + 1 \in 1..Len(Code)
  BY <1>1, <1>3, OpcodeContinues
<1>5. GoodWords(Below(2), next)
  BY <1>1, BelowIsGood DEF MachineGood
<1>6. GoodWord(stack[2], next)
  <2>1. Len(stack) \in Nat
    BY SequenceIs DEF MachineGood, GoodWords
  <2>. QED  BY <1>1, <2>1 DEF MachineGood, GoodWords
<1>7. memory' = [address \in DOMAIN memory \cup {stack[1]} |->
                   IF address = stack[1] THEN stack[2] ELSE memory[address]]
  BY DEF RunMstore
<1>8. GoodMemory(memory', next)
  <2>1. \A address \in DOMAIN memory : GoodWord(memory[address], next)
    BY DEF MachineGood, GoodMemory
  <2>. QED  BY <1>6, <1>7, <2>1 DEF GoodMemory
<1>. QED  BY <1>2, <1>4, <1>5, <1>8 DEF Continued

(* A jump leads to a label that is defined. *)
LEMMA JumpLands ==
  ASSUME NEW next, CodeGood(next), MachineGood(next), RunJump(Code)
  PROVE  /\ GoodWords(stack', next) /\ UNCHANGED <<memory, outcome>>
         /\ pc' \in 1..Len(Code)
<1>1. Len(stack) >= 1 /\ stack[1][1] = "label" /\ pc' = LabelIndex(Code, stack[1][2])
      /\ stack' = Below(1) /\ UNCHANGED <<memory, outcome>>
  BY DEF RunJump, IsOpcode
<1>2. Len(stack) \in Nat
  BY SequenceIs DEF MachineGood, GoodWords
<1>3. stack[1][2] \in 0..(next - 1)
  BY <1>1, <1>2 DEF MachineGood, GoodWords, GoodWord
<1>4. pc' \in 1..Len(Code)
  BY <1>1, <1>3, LabelLeads
<1>5. GoodWords(Below(1), next)
  BY <1>1, BelowIsGood DEF MachineGood
<1>. QED  BY <1>1, <1>4, <1>5

LEMMA JumpiLands ==
  ASSUME NEW next, CodeGood(next), MachineGood(next), RunJumpi(Code)
  PROVE  /\ GoodWords(stack', next) /\ UNCHANGED <<memory, outcome>>
         /\ pc' \in 1..Len(Code)
<1>1. Len(stack) >= 2 /\ stack[1][1] = "label"
      /\ pc' \in {pc + 1, LabelIndex(Code, stack[1][2])}
      /\ stack' = Below(2) /\ UNCHANGED <<memory, outcome>> /\ IsOpcode(Code, 2, JUMPI)
  BY DEF RunJumpi, IsOpcode
<1>2. Len(stack) \in Nat
  BY SequenceIs DEF MachineGood, GoodWords
<1>3. stack[1][2] \in 0..(next - 1)
  BY <1>1, <1>2 DEF MachineGood, GoodWords, GoodWord
<1>4. LabelIndex(Code, stack[1][2]) \in 1..Len(Code)
  BY <1>3, LabelLeads
<1>5. pc + 1 \in 1..Len(Code)
  BY <1>1, OpcodeContinues
<1>6. GoodWords(Below(2), next)
  BY <1>1, BelowIsGood DEF MachineGood
<1>. QED  BY <1>1, <1>4, <1>5, <1>6

(* Every instruction is run by a machine that is running.                   *)
LEMMA RunsRunning ==
  ASSUME RunInstruction(Code)
  PROVE  outcome = "running" /\ pc \in 1..Len(Code)
BY DEF RunInstruction, RunRead, RunUnread, RunMark, RunPush, RunDup, RunSwap, RunCompute,
       RunConsume, RunMload, RunMstore, RunJump, RunJumpi, RunEnd, RunTrap, IsOpcode, Running

LEMMA RunKeeps ==
  ASSUME NEW next, CodeGood(next), MachineGood(next), RunInstruction(Code)
  PROVE  /\ GoodWords(stack', next) /\ GoodMemory(memory', next)
         /\ outcome = "running"
         /\ outcome' \in {"running", "stopped", "returned", "exception", "unknown"}
         /\ outcome' \in {"running", "returned"} => pc' \in 1..Len(Code)
<1>1. outcome = "running" /\ pc \in 1..Len(Code)
  BY RunsRunning
<1>2. ASSUME Continued(next), GoodMemory(memory', next)
      PROVE  /\ GoodWords(stack', next) /\ GoodMemory(memory', next)
             /\ outcome' = "running" /\ pc' \in 1..Len(Code)
  BY <1>1, <1>2 DEF Continued
<1>3. CASE RunMark(Code)
  BY <1>1, <1>2, <1>3, MarkContinues
<1>4. CASE RunPush(Code)
  BY <1>1, <1>2, <1>4, PushContinues
<1>5. CASE RunDup(Code)
  BY <1>1, <1>2, <1>5, DupContinues
<1>6. CASE RunSwap(Code)
  BY <1>1, <1>2, <1>6, SwapContinues
<1>7. CASE RunCompute(Code)
  BY <1>1, <1>2, <1>7, ComputeContinues
<1>8. CASE RunConsume(Code)
  BY <1>1, <1>2, <1>8, ConsumeContinues
<1>9. CASE RunMload(Code)
  BY <1>1, <1>2, <1>9, MloadContinues
<1>10. CASE RunMstore(Code)
  BY <1>1, <1>2, <1>10, MstoreContinues
<1>11. CASE RunJump(Code)
  BY <1>1, <1>11, JumpLands DEF MachineGood
<1>12. CASE RunJumpi(Code)
  BY <1>1, <1>12, JumpiLands DEF MachineGood
<1>13. CASE RunEnd(Code)
  BY <1>1, <1>13 DEF RunEnd, Halt, MachineGood
<1>14. CASE RunTrap(Code)
  BY <1>1, <1>14 DEF RunTrap, Halt, MachineGood
<1>15. CASE RunUnread(Code)
  BY <1>1, <1>15 DEF RunUnread, Halt, MachineGood
<1>. QED  BY <1>3, <1>4, <1>5, <1>6, <1>7, <1>8, <1>9, <1>10, <1>11, <1>12, <1>13, <1>14, <1>15
          DEF RunInstruction, RunRead

-----------------------------------------------------------------------------
(* The inductive invariant for TypeOK.                                      *)

NextLabel == emitter.stream.nextLabelID

Precedes(place, other) ==
  \/ place[1] < other[1]
  \/ place[1] = other[1] /\ place[2] < other[2]
  \/ place[1] = other[1] /\ place[2] = other[2] /\ place[3] < other[3]

(* How many blocks a function has, and how many operations a block.         *)
BlocksIn(functions, f) == Len(functions[f].body)
OpsIn(functions, f, b) == Len(functions[f].body[b].ops)

(* Emission is at an operation, at the start or at the end of a block, or   *)
(* has ended.                                                               *)
AtGood ==
  /\ at \in Nat \X Nat \X Nat
  /\ at[1] \in 1..(Len(Functions) + 1)
  /\ Emitting => /\ at[2] \in 1..BlocksIn(Functions, at[1])
                 /\ at[3] \in 0..(OpsIn(Functions, at[1], at[2]) + 1)
  /\ ~Emitting => at[2] = 1 /\ at[3] = 0

(* The operations emitted come before that one. *)
PassedGood ==
  \A place \in DOMAIN emittedAt : place \in Nat \X Nat \X Nat /\ Precedes(place, at)

(* The blocks whose labels have been defined, and the calls emitted.        *)
Begun == BlocksBefore(Functions, at[1]) + at[2] - (IF at[3] = 0 THEN 1 ELSE 0)

Called == CallPlaces(Functions) \cap DOMAIN emittedAt

(* The labels defined: those of these blocks, and one for each call.        *)
DefinedLabels == (0..(Begun - 1)) \cup (Total(Functions)..(NextLabel - 1))

StreamGood ==
  /\ IsEmitter(ValuesOf(Functions), emitter)
  /\ NextLabel = Total(Functions) + Cardinality(Called)
  /\ CodeIs(Code, NextLabel, DefinedLabels)

(* After a block the machine does not go on. *)
EndGood ==
  \/ at = <<1, 1, 0>>
  \/ Emitting /\ at[3] \in 1..OpsIn(Functions, at[1], at[2])
  \/ Ended(Code)

RunGood ==
  /\ Emitting => outcome = "waiting"
  /\ outcome \in {"waiting", "running", "stopped", "returned", "exception", "unknown"}
  /\ outcome \in {"running", "returned"} => pc \in 1..Len(Code)
  /\ MachineGood(NextLabel)

IInv ==
  /\ Verified(program)
  /\ AtGood
  /\ PassedGood
  /\ StreamGood
  /\ EndGood
  /\ RunGood

(* Of the program. *)
LEMMA ProgramShape ==
  ASSUME Verified(program)
  PROVE  /\ Len(Functions) \in Nat /\ Len(Functions) >= 1
         /\ Shape(Functions)
         /\ \A f \in 1..Len(Functions) :
              /\ BlocksIn(Functions, f) \in Nat
              /\ BlocksIn(Functions, f) >= 1
              /\ \A b \in 1..BlocksIn(Functions, f) :
                   /\ OpsIn(Functions, f, b) \in Nat
                   /\ OpsIn(Functions, f, b) >= 1
         /\ IsFiniteSet(CallPlaces(Functions))
         /\ Total(Functions) \in Nat
         /\ Total(Functions) + Cardinality(CallPlaces(Functions)) < LabelCount
<1>. DEFINE F == Functions
<1>1. Shape(F) /\ Len(F) >= 1
      /\ \A f \in 1..Len(F) :
           /\ BlocksIn(F, f) >= 1
           /\ \A b \in 1..BlocksIn(F, f) : OpsIn(F, f, b) \in Nat
                                           /\ OpsIn(F, f, b) >= 1
  BY VerifiedShape DEF Functions, BlocksIn, OpsIn
<1>2. Len(F) \in Nat /\ \A f \in 1..Len(F) : BlocksIn(F, f) \in Nat
  BY <1>1 DEF Shape, BlocksIn
<1>3. IsFiniteSet(CallPlaces(F))
  BY <1>1, CallPlacesFinite DEF BlocksIn, OpsIn
<1>4. Total(F) + Cardinality(CallPlaces(F)) < LabelCount
  BY DEF Verified, Total, Functions
<1>5. Len(F) + 1 \in 1..(Len(F) + 1)
  BY <1>2
<1>6. Total(F) \in Nat
  BY <1>1, <1>5, BlocksOfFinite DEF Total
<1>. HIDE DEF F
<1>7. \A f \in 1..Len(F) :
        /\ BlocksIn(F, f) \in Nat
        /\ BlocksIn(F, f) >= 1
        /\ \A b \in 1..BlocksIn(F, f) : OpsIn(F, f, b) \in Nat
                                        /\ OpsIn(F, f, b) >= 1
  BY <1>1, <1>2
<1>. QED  BY <1>1, <1>2, <1>3, <1>4, <1>6, <1>7 DEF F

LEMMA CalledFinite ==
  ASSUME Verified(program)
  PROVE  /\ IsFiniteSet(Called) /\ Cardinality(Called) \in Nat
         /\ Cardinality(Called) <= Cardinality(CallPlaces(Functions))
         /\ Cardinality(CallPlaces(Functions)) \in Nat
<1>1. IsFiniteSet(CallPlaces(Functions))
  BY ProgramShape
<1>2. Called \in SUBSET CallPlaces(Functions)
  BY DEF Called
<1>3. IsFiniteSet(Called) /\ Cardinality(Called) <= Cardinality(CallPlaces(Functions))
  BY <1>1, <1>2, FS_Subset
<1>. QED  BY <1>1, <1>3, FS_CardinalityType

LEMMA NextLabelIs ==
  ASSUME Verified(program), StreamGood
  PROVE  NextLabel \in Nat /\ Total(Functions) <= NextLabel
<1>1. NextLabel = Total(Functions) + Cardinality(Called)
  BY DEF StreamGood
<1>2. Total(Functions) \in Nat /\ Cardinality(Called) \in Nat
  BY ProgramShape, CalledFinite
<1>. QED  BY <1>1, <1>2

-----------------------------------------------------------------------------
(* Initially.                                                               *)

LEMMA InitInvariant == Init => IInv
<1>. SUFFICES ASSUME Init PROVE IInv
  OBVIOUS
<1>1. Verified(program)
  BY ProgramsAssumption DEF Init
<1>2. at = <<1, 1, 0>> /\ DOMAIN emittedAt = {}
  BY DEF Init
<1>3. /\ Len(Functions) \in Nat /\ Len(Functions) >= 1 /\ Shape(Functions)
      /\ BlocksIn(Functions, 1) \in Nat /\ BlocksIn(Functions, 1) >= 1
      /\ OpsIn(Functions, 1, 1) \in Nat
      /\ Total(Functions) \in Nat
  <2>1. /\ Len(Functions) \in Nat /\ Len(Functions) >= 1 /\ Shape(Functions)
        /\ Total(Functions) \in Nat
    BY <1>1, ProgramShape
  <2>2. 1 \in 1..Len(Functions)
    BY <2>1
  <2>3. BlocksIn(Functions, 1) \in Nat /\ BlocksIn(Functions, 1) >= 1
    BY <1>1, <2>2, ProgramShape
  <2>4. 1 \in 1..BlocksIn(Functions, 1)
    BY <2>3
  <2>5. OpsIn(Functions, 1, 1) \in Nat
    BY <1>1, <2>2, <2>4, ProgramShape
  <2>. QED  BY <2>1, <2>3, <2>5
<1>4. at[1] = 1 /\ at[2] = 1 /\ at[3] = 0 /\ at \in Nat \X Nat \X Nat
  BY <1>2
<1>5. Emitting
  BY <1>3, <1>4 DEF Emitting
<1>6. AtGood
  BY <1>3, <1>4, <1>5 DEF AtGood
<1>7. PassedGood
  BY <1>2 DEF PassedGood
<1>8. Begun = 0
  BY <1>4, BlocksBeforeFirst DEF Begun
<1>. DEFINE total == Total(Functions)
            none == <<>>
            no == FALSE
<1>9. emitter = Record(none, total, none, no)
  <2>1. Labelled(program.functions) = [instructions |-> none, nextLabelID |-> total]
    BY DEF Labelled, NewStream, Total, Functions
  <2>. HIDE DEF total
  <2>2. emitter = [stream |-> [instructions |-> none, nextLabelID |-> total],
                   stackTracker |-> none, undefined |-> FALSE]
    BY <2>1 DEF Init, Emitter, NewTracker
  <2>. QED  BY <2>2 DEF Record
<1>. HIDE DEF total
<1>10. none \in Seq(ValuesOf(Functions)) /\ IsSequence(none) /\ Len(none) = 0
  <2>1. IsSequence(none)
    BY Tuples
  <2>. QED  BY <2>1
<1>. HIDE DEF none, no
<1>11. /\ IsRecord(emitter) /\ Instrs(emitter) = none /\ NextLabel = total
       /\ emitter.stackTracker = none
  BY <1>9, RecordIs, RecordFields DEF NextLabel
<1>12. IsEmitter(ValuesOf(Functions), emitter) /\ Code = none
  BY <1>10, <1>11 DEF IsEmitter, Code, Instrs
<1>13. Called = {} /\ Cardinality(Called) = 0
  <2>1. Called = {}
    BY <1>2 DEF Called
  <2>. QED  BY <2>1, FS_EmptySet
<1>14. total \in Nat /\ total = Total(Functions)
  BY <1>3 DEF total
<1>15. DefinedLabels = {}
  BY <1>8, <1>11, <1>14 DEF DefinedLabels
<1>16. CodeIs(none, total, {})
  BY <1>10, NothingDefined
<1>17. StreamGood
  <2>1. NextLabel = Total(Functions) + Cardinality(Called)
    BY <1>11, <1>13, <1>14
  <2>2. CodeIs(Code, NextLabel, DefinedLabels)
    BY <1>11, <1>12, <1>15, <1>16
  <2>. QED  BY <1>12, <2>1, <2>2 DEF StreamGood
<1>18. EndGood
  BY <1>2 DEF EndGood
<1>19. RunGood
  <2>1. stack = <<>> /\ DOMAIN memory = {} /\ outcome = "waiting"
    BY DEF Init, MachineIdle
  <2>2. IsSequence(stack) /\ Len(stack) = 0
    BY <2>1, Tuples
  <2>3. MachineGood(NextLabel)
    BY <2>1, <2>2 DEF MachineGood, GoodWords, GoodMemory
  <2>. QED  BY <2>1, <2>3 DEF RunGood
<1>. QED  BY <1>1, <1>6, <1>7, <1>17, <1>18, <1>19 DEF IInv

-----------------------------------------------------------------------------
(* Each step keeps the invariant.                                           *)

LEMMA EmissionRuns ==
  ASSUME RunGood, Emitting, UNCHANGED machineVars,
         NextLabel \in Nat, NextLabel' \in Nat, NextLabel <= NextLabel'
  PROVE  RunGood'
<1>1. stack' = stack /\ memory' = memory /\ outcome' = outcome /\ outcome = "waiting"
  BY DEF RunGood, machineVars
<1>2. GoodWords(stack, NextLabel) /\ GoodMemory(memory, NextLabel)
  BY DEF RunGood, MachineGood
<1>. DEFINE n == NextLabel
            m == NextLabel'
<1>3. n \in Nat /\ m \in Nat /\ n <= m /\ GoodWords(stack, n) /\ GoodMemory(memory, n)
  BY <1>2
<1>. HIDE DEF n, m
<1>4. GoodWords(stack, m) /\ GoodMemory(memory, m)
  BY <1>3, WordsGrow
<1>5. GoodWords(stack', m) /\ GoodMemory(memory', m)
  BY <1>1, <1>4
<1>6. MachineGood(NextLabel)'
  BY <1>5 DEF MachineGood, m
<1>. QED  BY <1>1, <1>6 DEF RunGood

(* What is known where an operation is emitted, or a block begun. *)
LEMMA Here ==
  ASSUME IInv, Emitting
  PROVE  /\ at[1] \in 1..Len(Functions)
         /\ at[2] \in 1..BlocksIn(Functions, at[1])
         /\ at[3] \in 0..(OpsIn(Functions, at[1], at[2]) + 1)
         /\ at = <<at[1], at[2], at[3]>>
         /\ OpsIn(Functions, at[1], at[2]) \in Nat
         /\ OpsIn(Functions, at[1], at[2]) >= 1
         /\ BlocksBefore(Functions, at[1]) \in Nat
         /\ BlocksBefore(Functions, at[1]) + at[2] <= Total(Functions)
         /\ Total(Functions) \in Nat
         /\ at[1] \in Nat /\ at[2] \in Nat /\ at[3] \in Nat
         /\ Len(Functions) \in Nat /\ BlocksIn(Functions, at[1]) \in Nat
<1>1. Verified(program) /\ AtGood
  BY DEF IInv
<1>2. Len(Functions) \in Nat /\ Shape(Functions)
  BY <1>1, ProgramShape
<1>3. at[1] \in 1..Len(Functions)
  BY <1>1, <1>2 DEF AtGood, Emitting
<1>4. /\ at[2] \in 1..BlocksIn(Functions, at[1])
      /\ at[3] \in 0..(OpsIn(Functions, at[1], at[2]) + 1)
  BY <1>1 DEF AtGood
<1>5. at = <<at[1], at[2], at[3]>>
  BY <1>1 DEF AtGood
<1>6. /\ OpsIn(Functions, at[1], at[2]) \in Nat
      /\ OpsIn(Functions, at[1], at[2]) >= 1
  BY <1>1, <1>3, <1>4, ProgramShape
<1>7. /\ BlocksBefore(Functions, at[1]) \in Nat
      /\ BlocksBefore(Functions, at[1]) + at[2] <= Total(Functions)
      /\ Total(Functions) \in Nat
  BY <1>2, <1>3, <1>4, BlockLabels DEF Total, BlocksIn
<1>8. at[1] \in Nat /\ at[2] \in Nat /\ at[3] \in Nat
  BY <1>1 DEF AtGood
<1>9. BlocksIn(Functions, at[1]) \in Nat
  BY <1>1, <1>3, ProgramShape
<1>. QED  BY <1>2, <1>3, <1>4, <1>5, <1>6, <1>7, <1>8, <1>9

LEMMA BeginBlockKeeps == IInv /\ BeginBlock => IInv'
<1>. SUFFICES ASSUME IInv, BeginBlock PROVE IInv'
  OBVIOUS
<1>. DEFINE F == Functions
            f == at[1]
            b == at[2]
            e0 == IF b = 1 THEN ResetTracker(emitter) ELSE emitter
            V == ValuesOf(F)
            l == BlockLabel(UnitAt(f), b)
            n == NextLabel
            total == Total(F)
<1>1. /\ Emitting /\ at[3] = 0 /\ at' = <<f, b, 1>>
      /\ emitter' = markBlock(UnitAt(f), e0, b)
      /\ program' = program /\ emittedAt' = emittedAt /\ UNCHANGED machineVars
  BY DEF BeginBlock
<1>2. F' = F
  BY <1>1 DEF Functions
<1>3. /\ f \in 1..Len(F) /\ b \in 1..BlocksIn(F, f) /\ f \in Nat /\ b \in Nat
      /\ OpsIn(F, f, b) \in Nat /\ OpsIn(F, f, b) >= 1
      /\ BlocksBefore(F, f) \in Nat /\ BlocksBefore(F, f) + b <= total /\ total \in Nat
      /\ Len(F) \in Nat /\ BlocksIn(F, f) \in Nat
  BY <1>1, Here
<1>4. at'[1] = f /\ at'[2] = b /\ at'[3] = 1
  BY <1>1
<1>20. at[1] = f /\ at[2] = b
  OBVIOUS
<1>. HIDE DEF f, b
<1>5. Verified(program)'
  BY <1>1 DEF IInv
<1>6. Emitting' /\ AtGood'
  <2>1. Emitting'
    BY <1>1, <1>2, <1>4, <1>20 DEF Emitting
  <2>2. at' \in Nat \X Nat \X Nat
    BY <1>1, <1>3
  <2>. DEFINE m == Len(F)
              k == BlocksIn(F, f)
              o == OpsIn(F, f, b)
  <2>3. f \in 1..(m + 1) /\ b \in 1..k /\ 1 \in 0..(o + 1)
    <3>1. f \in 1..m /\ m \in Nat /\ b \in 1..k /\ o \in Nat
      BY <1>3
    <3>. HIDE DEF m, k, o
    <3>. QED  BY <3>1
  <2>. QED  BY <1>2, <1>4, <2>1, <2>2, <2>3 DEF AtGood
<1>7. PassedGood'
  <2>1. ASSUME NEW place \in DOMAIN emittedAt
        PROVE  place \in Nat \X Nat \X Nat /\ Precedes(place, at')
    <3>1. place \in Nat \X Nat \X Nat /\ Precedes(place, at)
      BY DEF IInv, PassedGood
    <3>2. place[3] \in Nat
      BY <3>1
    <3>3. Precedes(place, at')
      BY <1>1, <1>4, <1>20, <3>1, <3>2 DEF Precedes
    <3>. QED  BY <3>1, <3>3
  <2>. QED  BY <1>1, <2>1 DEF PassedGood
<1>8. IsEmitter(V, emitter) /\ CodeIs(Code, n, DefinedLabels) /\ n = total + Cardinality(Called)
  BY DEF IInv, StreamGood
<1>9. n \in Nat /\ total <= n
  BY NextLabelIs DEF IInv
<1>10. IsEmitter(V, e0) /\ Instrs(e0) = Code /\ e0.stream.nextLabelID = n
  <2>1. CASE b = 1
    BY <1>8, <2>1, ResetIs DEF Code, Instrs, NextLabel
  <2>2. CASE b # 1
    BY <1>8, <2>2 DEF Code, Instrs, NextLabel
  <2>. QED  BY <2>1, <2>2
<1>. HIDE DEF e0
<1>11. /\ IsEmitter(V, emitter')
       /\ Instrs(emitter') = Code \o BlockWords(l)
       /\ emitter'.stream.nextLabelID = n
  <2>. DEFINE u == UnitAt(f)
              e2 == markBlock(u, e0, b)
  <2>1. /\ IsEmitter(V, e2)
        /\ Instrs(e2) = Instrs(e0) \o BlockWords(l)
        /\ e2.stream.nextLabelID = e0.stream.nextLabelID
    <3>. HIDE DEF V
    <3>1. IsEmitter(V, e0)
      BY <1>10
    <3>2. IsEmitter(V, e2)
      BY <3>1, MarkBlock
    <3>3. Instrs(e2) = Instrs(e0) \o BlockWords(l)
      BY <3>1, MarkBlock
    <3>4. e2.stream.nextLabelID = e0.stream.nextLabelID
      BY <3>1, MarkBlock
    <3>. QED  BY <3>2, <3>3, <3>4
  <2>2. emitter' = e2
    BY <1>1 DEF e0
  <2>. HIDE DEF e2
  <2>. QED  BY <1>10, <2>1, <2>2
<1>12. l = Begun /\ l \in Nat /\ l < total /\ Begun' = l + 1
  <2>1. l = BlocksBefore(F, f) + b - 1
    BY <1>3, BlockLabels, ProgramShape DEF UnitAt, IInv, BlocksIn
  <2>2. Begun = BlocksBefore(F, f) + b - 1
    BY <1>1, <1>20 DEF Begun
  <2>3. Begun' = BlocksBefore(F', at'[1]) + at'[2] - (IF at'[3] = 0 THEN 1 ELSE 0)
    BY DEF Begun
  <2>4. Begun' = BlocksBefore(F, f) + b
    BY <1>2, <1>3, <1>4, <2>3
  <2>. DEFINE x == BlocksBefore(F, f)
  <2>5. x \in Nat /\ x + b <= total /\ l = x + b - 1 /\ Begun = x + b - 1 /\ Begun' = x + b
        /\ b \in Nat /\ b >= 1 /\ total \in Nat
    BY <1>3, <2>1, <2>2, <2>4
  <2>. HIDE DEF x, total, l
  <2>. QED  BY <2>5
<1>13. NextLabel' = n /\ Code' = Instrs(emitter')
  BY <1>11 DEF NextLabel, Code, Instrs
<1>14. CodeIs(Code', n, DefinedLabels \cup {l})
  <2>. DEFINE D == DefinedLabels
              E == {l}
  <2>1. CodeIs(BlockWords(l), n, E)
    BY BlockWordsDefine
  <2>2. D \cap E = {}
    <3>1. D = (0..(l - 1)) \cup (total..(n - 1))
      BY <1>12 DEF DefinedLabels
    <3>2. l \in Nat /\ l < total /\ total \in Nat /\ n \in Nat
      BY <1>3, <1>9, <1>12
    <3>. HIDE DEF D, l, total, n
    <3>. QED  BY <3>1, <3>2
  <2>. HIDE DEF D, E
  <2>3. CodeIs(Code, n, D) /\ n <= n
    BY <1>8, <1>9 DEF D
  <2>4. CodeIs(Code \o BlockWords(l), n, D \cup E)
    BY <1>9, <2>1, <2>2, <2>3, CodeJoined
  <2>. QED  BY <1>11, <1>13, <2>4 DEF D, E
<1>15. DefinedLabels' = DefinedLabels \cup {l}
  <2>1. DefinedLabels' = (0..(Begun' - 1)) \cup (Total(F')..(NextLabel' - 1))
    BY DEF DefinedLabels
  <2>2. DefinedLabels' = (0..l) \cup (total..(n - 1))
    BY <1>2, <1>12, <1>13, <2>1
  <2>3. DefinedLabels = (0..(l - 1)) \cup (total..(n - 1))
    BY <1>12 DEF DefinedLabels
  <2>4. 0..l = (0..(l - 1)) \cup {l}
    BY <1>12
  <2>. QED  BY <2>2, <2>3, <2>4
<1>16. Called' = Called
  BY <1>1, <1>2 DEF Called
<1>17. StreamGood'
  <2>1. IsEmitter(ValuesOf(F'), emitter')
    BY <1>2, <1>11
  <2>2. NextLabel' = Total(F') + Cardinality(Called')
    BY <1>2, <1>8, <1>13, <1>16
  <2>3. CodeIs(Code', NextLabel', DefinedLabels')
    BY <1>13, <1>14, <1>15
  <2>. QED  BY <2>1, <2>2, <2>3 DEF StreamGood
<1>18. EndGood'
  BY <1>2, <1>3, <1>4, <1>6 DEF EndGood
<1>19. RunGood'
  BY <1>1, <1>9, <1>13, EmissionRuns DEF IInv
<1>. QED  BY <1>5, <1>6, <1>7, <1>17, <1>18, <1>19 DEF IInv

LEMMA EndBlockKeeps == IInv /\ EndBlock => IInv'
<1>. SUFFICES ASSUME IInv, EndBlock PROVE IInv'
  OBVIOUS
<1>. DEFINE F == Functions
            f == at[1]
            b == at[2]
<1>1. /\ Emitting /\ at[3] > OpsIn(F, f, b)
      /\ at' = IF b < BlocksIn(F, f) THEN <<f, b + 1, 0>> ELSE <<f + 1, 1, 0>>
      /\ emitter' = emitter
      /\ program' = program /\ emittedAt' = emittedAt /\ UNCHANGED machineVars
  BY DEF EndBlock, BlocksIn, OpsIn
<1>2. F' = F /\ Code' = Code /\ NextLabel' = NextLabel
  BY <1>1 DEF Functions, Code, NextLabel
<1>3. /\ f \in 1..Len(F) /\ b \in 1..BlocksIn(F, f) /\ f \in Nat /\ b \in Nat
      /\ OpsIn(F, f, b) \in Nat /\ OpsIn(F, f, b) >= 1
      /\ BlocksBefore(F, f) \in Nat /\ Len(F) \in Nat /\ BlocksIn(F, f) \in Nat
      /\ at[3] \in 0..(OpsIn(F, f, b) + 1)
  BY <1>1, Here
<1>4. Verified(program) /\ Verified(program)' /\ Shape(F) /\ Len(F) \in Nat
      /\ BlocksIn(F, f) \in Nat
  <2>1. Verified(program)
    BY DEF IInv
  <2>2. Shape(F) /\ Len(F) \in Nat
    BY <2>1, ProgramShape
  <2>. QED  BY <1>1, <1>3, <2>1, <2>2 DEF Shape, BlocksIn
<1>5. at[3] # 0 /\ at # <<1, 1, 0>> /\ ~(at[3] \in 1..OpsIn(F, f, b))
  <2>. DEFINE i == at[3]
              o == OpsIn(F, f, b)
  <2>1. i > o /\ o \in Nat /\ o >= 1 /\ i \in 0..(o + 1)
    BY <1>1, <1>3
  <2>2. at = <<1, 1, 0>> => i = 0
    OBVIOUS
  <2>. HIDE DEF i, o
  <2>3. i # 0 /\ ~(i \in 1..o)
    BY <2>1
  <2>4. at # <<1, 1, 0>>
    BY <2>2, <2>3
  <2>. QED  BY <2>3, <2>4 DEF i, o
<1>6. Ended(Code)
  BY <1>5 DEF IInv, EndGood
<1>17. at[1] = f /\ at[2] = b
  OBVIOUS
<1>. HIDE DEF f, b
<1>7. at' \in Nat \X Nat \X Nat /\ at'[3] = 0
      /\ \/ b < BlocksIn(F, f) /\ at'[1] = f /\ at'[2] = b + 1
         \/ b = BlocksIn(F, f) /\ at'[1] = f + 1 /\ at'[2] = 1
  <2>1. CASE b < BlocksIn(F, f)
    <3>1. at' = <<f, b + 1, 0>>
      BY <1>1, <2>1
    <3>2. b + 1 \in Nat
      BY <1>3
    <3>. QED  BY <1>3, <2>1, <3>1, <3>2
  <2>2. CASE ~(b < BlocksIn(F, f))
    <3>1. at' = <<f + 1, 1, 0>>
      BY <1>1, <2>2
    <3>2. f + 1 \in Nat /\ b = BlocksIn(F, f)
      BY <1>3, <2>2
    <3>. QED  BY <3>1, <3>2
  <2>. QED  BY <2>1, <2>2
<1>8. AtGood'
  <2>1. CASE b < BlocksIn(F, f) /\ at'[1] = f /\ at'[2] = b + 1
    <3>1. at'[2] \in 1..BlocksIn(F, f)
      BY <1>3, <1>4, <2>1
    <3>2. f \in 1..(Len(F) + 1)
      BY <1>3, <1>4
    <3>3. OpsIn(F, f, b + 1) \in Nat
      BY <1>3, <1>4, <2>1, <3>1, ProgramShape
    <3>4. 0 \in 0..(OpsIn(F, f, b + 1) + 1)
      BY <3>3
    <3>5. Emitting'
      BY <1>2, <1>3, <2>1 DEF Emitting
    <3>. QED  BY <1>2, <1>7, <2>1, <3>1, <3>2, <3>4, <3>5 DEF AtGood
  <2>2. CASE b = BlocksIn(F, f) /\ at'[1] = f + 1 /\ at'[2] = 1
    <3>1. f + 1 \in 1..(Len(F) + 1)
      BY <1>3, <1>4
    <3>2. ASSUME Emitting'
          PROVE  1 \in 1..BlocksIn(F, f + 1) /\ 0 \in 0..(OpsIn(F, f + 1, 1) + 1)
      <4>1. f + 1 \in 1..Len(F)
        BY <1>2, <1>4, <2>2, <3>1, <3>2 DEF Emitting
      <4>2. BlocksIn(F, f + 1) \in Nat /\ BlocksIn(F, f + 1) >= 1
        BY <1>4, <4>1, ProgramShape
      <4>3. 1 \in 1..BlocksIn(F, f + 1)
        BY <4>2
      <4>4. OpsIn(F, f + 1, 1) \in Nat
        BY <1>4, <4>1, <4>3, ProgramShape
      <4>. QED  BY <4>3, <4>4
    <3>. QED  BY <1>2, <1>7, <2>2, <3>1, <3>2 DEF AtGood
  <2>. QED  BY <1>7, <2>1, <2>2
<1>9. PassedGood'
  <2>1. ASSUME NEW place \in DOMAIN emittedAt
        PROVE  place \in Nat \X Nat \X Nat /\ Precedes(place, at')
    <3>1. place \in Nat \X Nat \X Nat /\ Precedes(place, at)
      BY DEF IInv, PassedGood
    <3>2. place[1] \in Nat /\ place[2] \in Nat
      BY <3>1
    <3>3. \/ place[1] < f
          \/ place[1] = f /\ (place[2] < b \/ place[2] = b)
      BY <1>17, <3>1 DEF Precedes
    <3>4. Precedes(place, at')
      <4>. DEFINE x == place[1]
                  y == place[2]
                  z == at'[1]
                  w == at'[2]
      <4>3. x \in Nat /\ y \in Nat /\ f \in Nat /\ b \in Nat
        BY <1>3, <3>2
      <4>4. x < f \/ (x = f /\ (y < b \/ y = b))
        BY <3>3
      <4>5. (x < z \/ (x = z /\ y < w)) => Precedes(place, at')
        BY DEF Precedes
      <4>1. CASE at'[1] = f /\ at'[2] = b + 1
        <5>1. z = f /\ w = b + 1
          BY <4>1
        <5>. HIDE DEF x, y, z, w
        <5>. QED  BY <4>3, <4>4, <4>5, <5>1
      <4>2. CASE at'[1] = f + 1
        <5>1. z = f + 1
          BY <4>2
        <5>. HIDE DEF x, y, z, w
        <5>. QED  BY <4>3, <4>4, <4>5, <5>1
      <4>. QED  BY <1>7, <4>1, <4>2
    <3>. QED  BY <3>1, <3>4
  <2>. QED  BY <1>1, <2>1 DEF PassedGood
<1>10. Begun' = Begun
  <2>1. Begun = BlocksBefore(F, f) + b
    BY <1>3, <1>5, <1>17 DEF Begun
  <2>2. Begun' = BlocksBefore(F', at'[1]) + at'[2] - (IF at'[3] = 0 THEN 1 ELSE 0)
    BY DEF Begun
  <2>3. Begun' = BlocksBefore(F, at'[1]) + at'[2] - 1
    BY <1>2, <1>7, <2>2
  <2>4. BlocksBefore(F, f + 1) = BlocksBefore(F, f) + BlocksIn(F, f)
    BY <1>3, <1>4, BlocksBeforeNext DEF BlocksIn
  <2>5. CASE at'[1] = f /\ at'[2] = b + 1
    BY <1>3, <2>1, <2>3, <2>5
  <2>6. CASE b = BlocksIn(F, f) /\ at'[1] = f + 1 /\ at'[2] = 1
    BY <1>3, <2>1, <2>3, <2>4, <2>6
  <2>. QED  BY <1>7, <2>5, <2>6
<1>11. Called' = Called
  BY <1>1, <1>2 DEF Called
<1>12. DefinedLabels' = DefinedLabels
  BY <1>2, <1>10 DEF DefinedLabels
<1>13. StreamGood'
  BY <1>1, <1>2, <1>11, <1>12 DEF IInv, StreamGood
<1>14. EndGood'
  BY <1>2, <1>6 DEF EndGood
<1>15. NextLabel \in Nat
  BY NextLabelIs DEF IInv
<1>16. RunGood'
  BY <1>1, <1>2, <1>15, EmissionRuns DEF IInv
<1>. QED  BY <1>4, <1>8, <1>9, <1>13, <1>14, <1>16 DEF IInv

-----------------------------------------------------------------------------
(* An operation is emitted.                                                 *)

LEMMA EmitOpFacts ==
  ASSUME IInv, EmitOp
  PROVE  /\ Emitting /\ Emitting'
         /\ at[3] \in 1..OpsIn(Functions, at[1], at[2])
         /\ at' = <<at[1], at[2], at[3] + 1>>
         /\ emitter' = emitOp(UnitAt(at[1]), emitter, <<at[2], at[3]>>)
         /\ program' = program /\ Functions' = Functions
         /\ DOMAIN emittedAt' = DOMAIN emittedAt \cup {at}
         /\ UNCHANGED machineVars
         /\ at \notin DOMAIN emittedAt
         /\ Verified(program)' /\ AtGood' /\ PassedGood' /\ Begun' = Begun
<1>. DEFINE F == Functions
            f == at[1]
            b == at[2]
            i == at[3]
            o == OpsIn(F, f, b)
            k == BlocksIn(F, f)
            n == Len(F)
<1>1. /\ Emitting /\ i \in 1..o /\ at' = <<f, b, i + 1>>
      /\ emitter' = emitOp(UnitAt(f), emitter, <<b, i>>)
      /\ program' = program /\ DOMAIN emittedAt' = DOMAIN emittedAt \cup {at}
      /\ UNCHANGED machineVars
  BY DEF EmitOp, OpsIn
<1>2. F' = F
  BY <1>1 DEF Functions
<1>3. /\ f \in 1..n /\ b \in 1..k /\ f \in Nat /\ b \in Nat /\ i \in Nat
      /\ o \in Nat /\ o >= 1 /\ n \in Nat /\ k \in Nat /\ at = <<f, b, i>>
  BY <1>1, Here
<1>4. at'[1] = f /\ at'[2] = b /\ at'[3] = i + 1
  BY <1>1
<1>5. at[1] = f /\ at[2] = b /\ at[3] = i
  OBVIOUS
<1>. HIDE DEF f, b, i
<1>6. Verified(program)'
  BY <1>1 DEF IInv
<1>7. Emitting'
  BY <1>1, <1>2, <1>4, <1>5 DEF Emitting
<1>8. AtGood'
  <2>1. at' \in Nat \X Nat \X Nat
    <3>1. i + 1 \in Nat
      BY <1>3
    <3>. QED  BY <1>1, <1>3, <3>1
  <2>2. f \in 1..(n + 1) /\ i + 1 \in 0..(o + 1)
    <3>1. f \in 1..n /\ n \in Nat /\ i \in 1..o /\ o \in Nat
      BY <1>1, <1>3
    <3>. HIDE DEF n, o
    <3>. QED  BY <3>1
  <2>. QED  BY <1>2, <1>3, <1>4, <1>7, <2>1, <2>2 DEF AtGood
<1>9. ASSUME NEW place \in DOMAIN emittedAt
      PROVE  place \in Nat \X Nat \X Nat /\ Precedes(place, at') /\ place # at
  <2>. DEFINE x == place[1]
              y == place[2]
              z == place[3]
  <2>1. place \in Nat \X Nat \X Nat /\ Precedes(place, at)
    BY DEF IInv, PassedGood
  <2>2. x \in Nat /\ y \in Nat /\ z \in Nat
    BY <2>1
  <2>3. x < f \/ (x = f /\ y < b) \/ (x = f /\ y = b /\ z < i)
    BY <2>1, <1>5 DEF Precedes
  <2>4. (x < f \/ (x = f /\ y < b) \/ (x = f /\ y = b /\ z < i + 1)) => Precedes(place, at')
    BY <1>4 DEF Precedes
  <2>5. place = at => x = f /\ y = b /\ z = i
    BY <1>5
  <2>. HIDE DEF x, y, z
  <2>6. Precedes(place, at')
    BY <1>3, <2>2, <2>3, <2>4
  <2>7. place # at
    BY <1>3, <2>2, <2>3, <2>5
  <2>. QED  BY <2>1, <2>6, <2>7
<1>10. at \in Nat \X Nat \X Nat /\ Precedes(at, at')
  <2>1. i < i + 1
    BY <1>3
  <2>. QED  BY <1>3, <1>4, <1>5, <2>1 DEF Precedes
<1>11. PassedGood'
  BY <1>1, <1>9, <1>10 DEF PassedGood
<1>12. at \notin DOMAIN emittedAt
  BY <1>9
<1>13. Begun' = Begun
  <2>1. Begun = BlocksBefore(F, f) + b - (IF i = 0 THEN 1 ELSE 0)
    BY <1>5 DEF Begun
  <2>2. Begun' = BlocksBefore(F', at'[1]) + at'[2] - (IF at'[3] = 0 THEN 1 ELSE 0)
    BY DEF Begun
  <2>3. i # 0 /\ i + 1 # 0
    <3>1. i \in 1..o /\ o \in Nat
      BY <1>1, <1>3
    <3>. HIDE DEF o
    <3>. QED  BY <3>1
  <2>4. Begun = BlocksBefore(F, f) + b - 0
    BY <2>1, <2>3
  <2>5. Begun' = BlocksBefore(F, f) + b - 0
    BY <1>2, <1>4, <2>2, <2>3
  <2>. QED  BY <2>4, <2>5
<1>. QED  BY <1>1, <1>2, <1>5, <1>6, <1>7, <1>8, <1>11, <1>12, <1>13

(* The operation that is emitted. *)
OpHere == Functions[at[1]].body[at[2]].ops[at[3]]

LEMMA OpHereIs ==
  ASSUME IInv, EmitOp
  PROVE  /\ at[1] \in 1..Len(program.functions)
         /\ at[2] \in 1..Len(program.functions[at[1]].body)
         /\ at[3] \in 1..Len(program.functions[at[1]].body[at[2]].ops)
         /\ at[3] \in 1..Len(Functions[at[1]].body[at[2]].ops)
         /\ Verified(program)
<1>1. Emitting /\ at[3] \in 1..OpsIn(Functions, at[1], at[2])
  BY EmitOpFacts
<1>2. at[1] \in 1..Len(Functions) /\ at[2] \in 1..BlocksIn(Functions, at[1])
  BY <1>1, Here
<1>. QED  BY <1>1, <1>2 DEF IInv, Functions, BlocksIn, OpsIn

LEMMA CallHere ==
  ASSUME IInv, EmitOp
  PROVE  at \in CallPlaces(Functions) <=> OpHere.name = "func.call"
<1>. DEFINE F == Functions
            f == at[1]
            b == at[2]
            i == at[3]
<1>1. f \in 1..Len(F) /\ b \in 1..Len(F[f].body) /\ i \in 1..Len(F[f].body[b].ops)
  BY OpHereIs DEF Functions
<1>2. at = <<f, b, i>>
  BY EmitOpFacts, Here
<1>. HIDE DEF F, f, b, i
<1>3. ASSUME at \in CallPlaces(F)
      PROVE  F[f].body[b].ops[i].name = "func.call"
  <2>1. PICK g \in 1..Len(F) :
          at \in UNION {{<<g, c, j>> : j \in {h \in 1..Len(F[g].body[c].ops) :
                                                F[g].body[c].ops[h].name = "func.call"}}
                         : c \in 1..Len(F[g].body)}
    BY <1>3 DEF CallPlaces
  <2>2. PICK c \in 1..Len(F[g].body) :
          at \in {<<g, c, j>> : j \in {h \in 1..Len(F[g].body[c].ops) :
                                         F[g].body[c].ops[h].name = "func.call"}}
    BY <2>1
  <2>3. PICK j \in {h \in 1..Len(F[g].body[c].ops) :
                      F[g].body[c].ops[h].name = "func.call"} : at = <<g, c, j>>
    BY <2>2
  <2>4. g = f /\ c = b /\ j = i
    BY <1>2, <2>3
  <2>. QED  BY <2>3, <2>4
<1>4. ASSUME F[f].body[b].ops[i].name = "func.call"
      PROVE  at \in CallPlaces(F)
  <2>1. i \in {h \in 1..Len(F[f].body[b].ops) : F[f].body[b].ops[h].name = "func.call"}
    BY <1>1, <1>4
  <2>2. at \in {<<f, b, j>> : j \in {h \in 1..Len(F[f].body[b].ops) :
                                       F[f].body[b].ops[h].name = "func.call"}}
    BY <1>2, <2>1
  <2>. QED  BY <1>1, <2>2 DEF CallPlaces
<1>5. OpHere = F[f].body[b].ops[i]
  BY DEF OpHere, F, f, b, i
<1>. QED  BY <1>3, <1>4, <1>5 DEF F

LEMMA OtherOpKeeps ==
  ASSUME IInv, EmitOp, OpHere.name # "func.call"
  PROVE  IInv'
<1>. DEFINE F == Functions
            f == at[1]
            b == at[2]
            i == at[3]
            o == OpsIn(F, f, b)
            V == ValuesOf(F)
            n == NextLabel
            D == DefinedLabels
<1>1. /\ Emitting /\ Emitting' /\ i \in 1..o /\ at' = <<f, b, i + 1>>
      /\ emitter' = emitOp(UnitAt(f), emitter, <<b, i>>)
      /\ program' = program /\ F' = F /\ UNCHANGED machineVars
      /\ DOMAIN emittedAt' = DOMAIN emittedAt \cup {at}
      /\ Verified(program)' /\ AtGood' /\ PassedGood' /\ Begun' = Begun
  BY EmitOpFacts
<1>2. n \in Nat /\ Total(F) <= n
  BY NextLabelIs DEF IInv
<1>3. IsEmitter(V, emitter) /\ CodeIs(Code, n, D) /\ n = Total(F) + Cardinality(Called)
  BY DEF IInv, StreamGood
<1>4. Adds(V, emitter, emitter') /\ (i = o => Ended(Code'))
  <2>. DEFINE p == program
              e2 == EmittedOp(p, emitter, f, b, i)
  <2>1. OpName(p.functions, f, b, i) # "func.call"
    BY DEF OpHere, OpName, Functions
  <2>2. e2 = emitter'
    BY <1>1 DEF UnitAt, Functions, EmittedOp
  <2>3. OpIn(p.functions, f, b, i) /\ Verified(p)
    BY OpHereIs DEF OpIn
  <2>4. F = p.functions /\ V = ValuesOf(p.functions) /\ o = Len(p.functions[f].body[b].ops)
        /\ n = emitter.stream.nextLabelID
    BY DEF Functions, OpsIn, NextLabel
  <2>. HIDE DEF p, f, b, i, n, V, F, o
  <2>5. /\ IsEmitter(ValuesOf(p.functions), emitter)
        /\ emitter.stream.nextLabelID \in Nat
        /\ Total(p.functions) <= emitter.stream.nextLabelID
    BY <1>2, <1>3, <2>4
  <2>6. Adds(ValuesOf(p.functions), emitter, e2)
        /\ (i = Len(p.functions[f].body[b].ops) => Ended(Instrs(e2)))
    BY <2>1, <2>3, <2>5, EmittedOpAdds
  <2>. HIDE DEF e2
  <2>. QED  BY <2>2, <2>4, <2>6 DEF Code, Instrs
<1>6. IsEmitter(V, emitter') /\ NextLabel' = n
  BY <1>4 DEF Adds, NextLabel
<1>7. CodeIs(Code', n, D)
  <2>1. CodeIs(Instrs(emitter), emitter.stream.nextLabelID, D)
        /\ emitter.stream.nextLabelID \in Nat
    BY <1>2, <1>3 DEF Code, Instrs, NextLabel
  <2>. HIDE DEF D, V
  <2>2. CodeIs(Instrs(emitter'), emitter'.stream.nextLabelID, D)
    BY <1>4, <2>1, AddsCode
  <2>. QED  BY <1>6, <2>2 DEF Code, Instrs, NextLabel
<1>8. Called' = Called
  <2>1. at \notin CallPlaces(F)
    BY CallHere
  <2>. QED  BY <1>1, <2>1 DEF Called
<1>9. DefinedLabels' = D
  BY <1>1, <1>6 DEF DefinedLabels
<1>10. StreamGood'
  <2>1. IsEmitter(ValuesOf(F'), emitter')
    BY <1>1, <1>6
  <2>2. NextLabel' = Total(F') + Cardinality(Called')
    BY <1>1, <1>3, <1>6, <1>8
  <2>3. CodeIs(Code', NextLabel', DefinedLabels')
    BY <1>6, <1>7, <1>9
  <2>. QED  BY <2>1, <2>2, <2>3 DEF StreamGood
<1>11. EndGood'
  <2>1. at'[1] = f /\ at'[2] = b /\ at'[3] = i + 1
    BY <1>1
  <2>2. o \in Nat
    BY <1>1, Here
  <2>3. i = o \/ i + 1 \in 1..o
    <3>1. i \in 1..o
      BY <1>1
    <3>. HIDE DEF i, o
    <3>. QED  BY <2>2, <3>1
  <2>. QED  BY <1>1, <1>4, <2>1, <2>3 DEF EndGood
<1>12. RunGood'
  <2>1. NextLabel' = NextLabel /\ NextLabel \in Nat
    BY <1>2, <1>6
  <2>. QED  BY <1>1, <2>1, EmissionRuns DEF IInv
<1>. QED  BY <1>1, <1>10, <1>11, <1>12 DEF IInv

(* A call goes to a block's label. *)
LEMMA CalleeLabel ==
  ASSUME NEW p, Verified(p), NEW f, NEW b, NEW i, OpIn(p.functions, f, b, i),
         OpName(p.functions, f, b, i) = "func.call"
  PROVE  LET op == p.functions[f].body[b].ops[i]
         IN  /\ op.returns \in Seq(ValuesOf(p.functions))
             /\ op.callee \in Nat
             /\ op.callee < Total(p.functions)
             /\ i < Len(p.functions[f].body[b].ops)
<1>. DEFINE F == p.functions
            op == F[f].body[b].ops[i]
            o == Len(F[f].body[b].ops)
            isLast == i = o
<1>1. f \in 1..Len(F) /\ b \in 1..Len(F[f].body) /\ i \in 1..o
  BY DEF OpIn
<1>2. OpVerified(F, f, isLast, op)
  BY <1>1, VerifiedOp, Zenon
<1>3. op.name = "func.call"
  BY DEF OpName
<1>4. Shape(F) /\ o \in Nat
      /\ \A g \in 1..Len(F) : Len(F[g].body) >= 1 /\ Len(F[g].body) \in Nat
  BY <1>1, VerifiedShape DEF Shape
<1>. HIDE DEF F, op, isLast
<1>5. GoesSomewhere(F, f, op) /\ (op.name \in Terminators <=> isLast)
  BY <1>2 DEF OpVerified
<1>6. /\ op.returns \in Seq(FunctionValues(F[f].body))
      /\ \E g \in 2..Len(F) : op.callee = EntryLabel(F, g)
  BY <1>3, <1>5 DEF GoesSomewhere
<1>7. op.returns \in Seq(ValuesOf(F))
  <2>1. FunctionValues(F[f].body) \subseteq ValuesOf(F)
    BY <1>1 DEF ValuesOf
  <2>. QED  BY <1>6, <2>1
<1>8. op.callee \in Nat /\ op.callee < Total(F)
  <2>1. PICK g \in 2..Len(F) : op.callee = EntryLabel(F, g)
    BY <1>6
  <2>2. g \in 1..Len(F)
    BY <2>1, <1>4 DEF Shape
  <2>3. 1 \in 1..Len(F[g].body)
    BY <2>2, <1>4
  <2>4. /\ BlocksBefore(F, g) \in Nat
        /\ BlocksBefore(F, g) + 1 <= BlocksBefore(F, Len(F) + 1)
        /\ BlocksBefore(F, Len(F) + 1) \in Nat
    BY <2>2, <2>3, <1>4, BlockLabels
  <2>. QED  BY <2>1, <2>4 DEF EntryLabel, Total
<1>9. i < o
  <2>1. op.name \notin Terminators
    BY <1>3 DEF Terminators
  <2>2. i # o
    BY <1>5, <2>1 DEF isLast
  <2>. HIDE DEF o
  <2>. QED  BY <1>1, <1>4, <2>2
<1>. QED  BY <1>7, <1>8, <1>9 DEF F, op

(* What the emission of a call does. *)
LEMMA EmittedCallIs ==
  ASSUME NEW p, Verified(p), NEW f, NEW b, NEW i, OpIn(p.functions, f, b, i),
         NEW e, IsEmitter(ValuesOf(p.functions), e),
         OpName(p.functions, f, b, i) = "func.call",
         NEW exact, GoodUnit(UnitOf(p.functions, f, p.layout), ValuesOf(p.functions), exact)
  PROVE  \E m : CallAdded(ValuesOf(p.functions), exact, e, m,
                          p.functions[f].body[b].ops[i], EmittedOp(p, e, f, b, i))
<1>. DEFINE F == p.functions
            unit == UnitOf(F, f, p.layout)
            place == <<b, i>>
            op == F[f].body[b].ops[i]
            V == ValuesOf(F)
            next == e.stream.nextLabelID
            e2 == EmittedOp(p, e, f, b, i)
<1>1. f \in 1..Len(F) /\ b \in 1..Len(F[f].body) /\ i \in 1..Len(F[f].body[b].ops)
  BY DEF OpIn
<1>3. unit.body = F[f].body
  BY UnitFields
<1>4. place \in Places(unit)
  BY <1>1, <1>3, PlaceIs
<1>5. op = OpAt(unit, place)
  BY <1>3 DEF OpAt
<1>6. op.returns \in Seq(V)
  BY CalleeLabel
<1>7. op.name = "func.call"
  BY DEF OpName
<1>8. e2 = emitCall(unit, e, op, place)
  <2>1. EmittedOp(p, e, f, b, i) = emitOp(unit, e, place)
    BY DEF EmittedOp
  <2>. HIDE DEF unit, place, op
  <2>2. emitOp(unit, e, place) = emitCall(unit, e, op, place)
    BY <1>5, <1>7 DEF emitOp
  <2>. QED  BY <2>1, <2>2
<1>9. GoodUnit(unit, V, exact)
  OBVIOUS
<1>. HIDE DEF unit, place, op, V, e2, next, F
<1>10. IsEmitter(V, e)
  BY DEF V, F
<1>11. \E m : CallAdded(V, exact, e, m, op, emitCall(unit, e, op, place))
  BY <1>4, <1>5, <1>6, <1>9, <1>10, EmitCall
<1>12. \E m : CallAdded(V, exact, e, m, op, e2)
  BY <1>8, <1>11
<1>. QED  BY <1>12 DEF V, e2, op, F

LEMMA CallOpKeeps ==
  ASSUME IInv, EmitOp, OpHere.name = "func.call"
  PROVE  IInv'
<1>. DEFINE F == Functions
            f == at[1]
            b == at[2]
            i == at[3]
            o == OpsIn(F, f, b)
            V == ValuesOf(F)
            n == NextLabel
            m1 == n + 1
            D == DefinedLabels
            c == OpHere.callee
            no == FALSE
<1>1. /\ Emitting /\ Emitting' /\ i \in 1..o /\ at' = <<f, b, i + 1>>
      /\ emitter' = emitOp(UnitAt(f), emitter, <<b, i>>)
      /\ program' = program /\ F' = F /\ UNCHANGED machineVars
      /\ DOMAIN emittedAt' = DOMAIN emittedAt \cup {at} /\ at \notin DOMAIN emittedAt
      /\ Verified(program)' /\ AtGood' /\ PassedGood' /\ Begun' = Begun
  BY EmitOpFacts
<1>2. n \in Nat /\ Total(F) <= n
  BY NextLabelIs DEF IInv
<1>3. IsEmitter(V, emitter) /\ CodeIs(Code, n, D) /\ n = Total(F) + Cardinality(Called)
  BY DEF IInv, StreamGood
<1>4. /\ \E m : CallAdded(V, no, emitter, m, OpHere, emitter')
      /\ c \in Nat /\ c < Total(F) /\ i < o
  <2>. DEFINE p == program
              op == p.functions[f].body[b].ops[i]
              e2 == EmittedOp(p, emitter, f, b, i)
  <2>1. OpName(p.functions, f, b, i) = "func.call"
    BY DEF OpHere, OpName, Functions
  <2>2. e2 = emitter' /\ op = OpHere
    BY <1>1 DEF UnitAt, Functions, EmittedOp, OpHere
  <2>3. OpIn(p.functions, f, b, i) /\ Verified(p)
    BY OpHereIs DEF OpIn
  <2>4. F = p.functions /\ V = ValuesOf(p.functions) /\ o = Len(p.functions[f].body[b].ops)
        /\ n = emitter.stream.nextLabelID
    BY DEF Functions, OpsIn, NextLabel
  <2>. HIDE DEF p, f, b, i, n, V, F, o
  <2>5. IsEmitter(ValuesOf(p.functions), emitter)
    BY <1>3, <2>4
  <2>6. \E m : CallAdded(ValuesOf(p.functions), no, emitter, m, op, e2)
    <3>1. f \in 1..Len(p.functions) /\ (no => RegularOps(UnitOf(p.functions, f, p.layout)))
      BY <2>3 DEF OpIn
    <3>. HIDE DEF no
    <3>2. GoodUnit(UnitOf(p.functions, f, p.layout), ValuesOf(p.functions), no)
      BY <2>3, <3>1, VerifiedUnit
    <3>. QED  BY <2>1, <2>3, <2>5, <3>2, EmittedCallIs
  <2>7. op.callee \in Nat /\ op.callee < Total(p.functions)
        /\ i < Len(p.functions[f].body[b].ops)
    BY <2>1, <2>3, CalleeLabel
  <2>. HIDE DEF e2, op
  <2>. QED  BY <2>2, <2>4, <2>6, <2>7
<1>5. /\ Called' = Called \cup {at} /\ Cardinality(Called') = Cardinality(Called) + 1
      /\ m1 < LabelCount /\ Cardinality(Called) \in Nat
  <2>1. at \in CallPlaces(F) /\ at \notin Called
    BY <1>1, CallHere DEF Called
  <2>2. Called' = Called \cup {at}
    BY <1>1, <2>1 DEF Called
  <2>3. /\ IsFiniteSet(Called) /\ Cardinality(Called) \in Nat
        /\ IsFiniteSet(CallPlaces(F)) /\ Cardinality(CallPlaces(F)) \in Nat
        /\ Total(F) + Cardinality(CallPlaces(F)) < LabelCount
        /\ Total(F) \in Nat
    BY CalledFinite, ProgramShape DEF IInv
  <2>4. Cardinality(Called \cup {at}) = Cardinality(Called) + 1
    BY <2>1, <2>3, FS_AddElement
  <2>5. Called \cup {at} \in SUBSET CallPlaces(F)
    BY <2>1 DEF Called
  <2>6. Cardinality(Called \cup {at}) <= Cardinality(CallPlaces(F))
    BY <2>3, <2>5, FS_Subset
  <2>. DEFINE x == Cardinality(Called)
              y == Cardinality(CallPlaces(F))
              t == Total(F)
  <2>7. x + 1 <= y /\ t + y < LabelCount /\ n = t + x /\ x \in Nat /\ y \in Nat /\ t \in Nat
    BY <1>3, <2>3, <2>4, <2>6
  <2>. HIDE DEF x, y, t, n
  <2>8. n + 1 < LabelCount
    BY <2>7 DEF LabelCount
  <2>. QED  BY <2>2, <2>3, <2>4, <2>8
<1>6. m1 % LabelCount = m1 /\ m1 \in Nat
  <2>. HIDE DEF n
  <2>. QED  BY <1>2, <1>5 DEF LabelCount
<1>7. PICK m : /\ Adds(V, emitter, m)
               /\ IsEmitter(V, emitter')
               /\ Instrs(emitter') = Instrs(m) \o CallWords(n, c)
               /\ emitter'.stream.nextLabelID = m1 % LabelCount
  <2>1. PICK m : CallAdded(V, no, emitter, m, OpHere, emitter')
    BY <1>4
  <2>. HIDE DEF no
  <2>2. Adds(V, emitter, m)
    BY <2>1, AdvanceAdds DEF CallAdded
  <2>. HIDE DEF V
  <2>3. /\ IsEmitter(V, emitter')
        /\ Instrs(emitter') = Instrs(m) \o CallWords(n, c)
        /\ emitter'.stream.nextLabelID = m1 % LabelCount
    BY <2>1, Zenon DEF CallAdded, NextLabel
  <2>. QED  BY <2>2, <2>3
<1>8. NextLabel' = m1
  BY <1>6, <1>7 DEF NextLabel
<1>9. CodeIs(Instrs(m), n, D)
  <2>1. CodeIs(Instrs(emitter), emitter.stream.nextLabelID, D)
        /\ emitter.stream.nextLabelID \in Nat
    BY <1>2, <1>3 DEF Code, Instrs, NextLabel
  <2>2. m.stream.nextLabelID = n
    BY <1>7 DEF Adds, NextLabel
  <2>. HIDE DEF D, V, n
  <2>3. CodeIs(Instrs(m), m.stream.nextLabelID, D)
    BY <1>7, <2>1, AddsCode
  <2>. QED  BY <2>2, <2>3
<1>10. CodeIs(Code', m1, D \cup {n})
  <2>. DEFINE E == {n}
              words == CallWords(n, c)
              t == Total(F)
  <2>1. n \in Nat /\ c \in Nat /\ m1 \in Nat /\ n < m1 /\ c < m1 /\ n <= m1
    <3>1. n \in Nat /\ c \in Nat /\ t <= n /\ c < t /\ t \in Nat
      BY <1>2, <1>4, ProgramShape DEF IInv
    <3>. HIDE DEF n, c, t
    <3>. QED  BY <3>1
  <2>2. D \cap E = {}
    <3>1. D = (0..(Begun - 1)) \cup (t..(n - 1))
      BY DEF DefinedLabels
    <3>2. Begun \in Int /\ Begun <= t
      <4>. DEFINE x == BlocksBefore(F, f)
                  g == Begun
      <4>1. /\ x \in Nat /\ x + b <= t /\ t \in Nat /\ b \in Nat
            /\ g = x + b - (IF i = 0 THEN 1 ELSE 0)
        BY <1>1, Here DEF Begun
      <4>. HIDE DEF x, t, g, b, i
      <4>2. g \in Int /\ g <= t
        BY <4>1
      <4>. QED  BY <4>2 DEF g
    <3>3. t <= n /\ n \in Nat /\ t \in Nat
      BY <1>2, ProgramShape DEF IInv
    <3>. DEFINE g == Begun
    <3>4. D = (0..(g - 1)) \cup (t..(n - 1)) /\ g \in Int /\ g <= t
      BY <3>1, <3>2
    <3>. HIDE DEF D, n, t, g
    <3>. QED  BY <3>3, <3>4
  <2>. HIDE DEF n, m1, c, D
  <2>3. CodeIs(words, m1, E)
    BY <2>1, CallWordsDefine
  <2>. HIDE DEF words, E
  <2>4. CodeIs(Instrs(m) \o words, m1, D \cup E)
    BY <1>9, <2>1, <2>2, <2>3, CodeJoined
  <2>. QED  BY <1>7, <2>4 DEF words, E, Code, Instrs
<1>11. DefinedLabels' = D \cup {n}
  <2>. DEFINE t == Total(F)
              g == Begun
  <2>1. DefinedLabels' = (0..(Begun' - 1)) \cup (Total(F')..(NextLabel' - 1))
    BY DEF DefinedLabels
  <2>2. DefinedLabels' = (0..(g - 1)) \cup (t..(m1 - 1))
    BY <1>1, <1>8, <2>1
  <2>3. D = (0..(g - 1)) \cup (t..(n - 1))
    BY DEF DefinedLabels
  <2>4. t..(m1 - 1) = (t..(n - 1)) \cup {n}
    <3>1. t <= n /\ n \in Nat /\ t \in Nat
      BY <1>2, ProgramShape DEF IInv
    <3>. HIDE DEF t, n
    <3>. QED  BY <3>1
  <2>. HIDE DEF D, t, g, n, m1
  <2>. QED  BY <2>2, <2>3, <2>4
<1>12. StreamGood'
  <2>1. IsEmitter(ValuesOf(F'), emitter')
    BY <1>1, <1>7
  <2>2. NextLabel' = Total(F') + Cardinality(Called')
    <3>. DEFINE t == Total(F)
                x == Cardinality(Called)
    <3>1. NextLabel' = n + 1 /\ n = t + x /\ Cardinality(Called') = x + 1 /\ Total(F') = t
      BY <1>1, <1>3, <1>5, <1>8
    <3>2. t \in Nat /\ x \in Nat
      BY <1>5, ProgramShape DEF IInv
    <3>. HIDE DEF t, x, n
    <3>. QED  BY <3>1, <3>2
  <2>3. CodeIs(Code', NextLabel', DefinedLabels')
    BY <1>8, <1>10, <1>11
  <2>. QED  BY <2>1, <2>2, <2>3 DEF StreamGood
<1>13. EndGood'
  <2>1. at'[1] = f /\ at'[2] = b /\ at'[3] = i + 1
    BY <1>1
  <2>2. o \in Nat
    BY <1>1, Here
  <2>3. i + 1 \in 1..o
    <3>1. i \in 1..o /\ i < o
      BY <1>1, <1>4
    <3>. HIDE DEF i, o
    <3>. QED  BY <2>2, <3>1
  <2>. QED  BY <1>1, <2>1, <2>3 DEF EndGood
<1>14. RunGood'
  <2>1. NextLabel' \in Nat /\ NextLabel \in Nat /\ NextLabel <= NextLabel'
    BY <1>2, <1>6, <1>8
  <2>. QED  BY <1>1, <2>1, EmissionRuns DEF IInv
<1>. QED  BY <1>1, <1>12, <1>13, <1>14 DEF IInv

-----------------------------------------------------------------------------
(* The EVM finds the code as it was written: no instruction that the        *)
(* emitter writes takes the bytes of those that follow, but for the PUSH32  *)
(* of a constant that is computed again.                                    *)

AllRead(s) == IsSequence(s) /\ \A i \in 1..Len(s) : IsRead(s[i])

Legible(e) == IsRecord(e) /\ AllRead(Instrs(e))

LEMMA ReadInstrs ==
  /\ \A v : IsRead(PushInstr(v))
  /\ \A l : IsRead(LabelRefInstr(l)) /\ IsRead(LabelDefInstr(l))
  /\ \A opcode \in (0..255) \ PushOpcodes : IsRead(OpcodeInstr(opcode))
BY DEF IsRead, PushInstr, LabelRefInstr, LabelDefInstr, OpcodeInstr

LEMMA WrittenRead ==
  /\ PushOpcodes = 96..127
  /\ \A opcode \in {MLOAD, MSTORE, JUMP, JUMPI, JUMPDEST, RETURN} : IsRead(OpcodeInstr(opcode))
  /\ \A n \in 1..112 : IsRead(OpcodeInstr(SWAP1 + n - 1))
  /\ \A depth \in 1..15 : IsRead(OpcodeInstr(DUP1 + depth))
<1>1. PushOpcodes = 96..127
  BY DEF PushOpcodes, PUSH1, PUSH32
<1>2. \A opcode \in {MLOAD, MSTORE, JUMP, JUMPI, JUMPDEST, RETURN} :
        opcode \in (0..255) \ PushOpcodes
  BY <1>1, WrittenNumbers
<1>3. \A n \in 1..112 : SWAP1 + n - 1 \in (0..255) \ PushOpcodes
  BY <1>1, WrittenNumbers
<1>4. \A depth \in 1..15 : DUP1 + depth \in (0..255) \ PushOpcodes
  BY <1>1, WrittenNumbers
<1>5. \A opcode \in (0..255) \ PushOpcodes : IsRead(OpcodeInstr(opcode))
  BY ReadInstrs
<1>6. \A opcode \in {MLOAD, MSTORE, JUMP, JUMPI, JUMPDEST, RETURN} : IsRead(OpcodeInstr(opcode))
  BY <1>2, <1>5
<1>7. \A n \in 1..112 : IsRead(OpcodeInstr(SWAP1 + n - 1))
  BY <1>3, <1>5
<1>8. \A depth \in 1..15 : IsRead(OpcodeInstr(DUP1 + depth))
  BY <1>4, <1>5
<1>. QED  BY <1>1, <1>6, <1>7, <1>8

(* The numbers of the opcodes that are looked up by name. *)
LEMMA NamedRead ==
  ASSUME NEW name \in DOMAIN Opcode, name # "PUSH32"
  PROVE  IsRead(OpcodeInstr(Opcode[name]))
<1>1. Opcode[name] \in 0..255 /\ Opcode[name] \notin 96..127
  BY OpcodeNumbers
<1>2. Opcode[name] \in (0..255) \ PushOpcodes
  BY <1>1, WrittenRead
<1>. QED  BY <1>2, ReadInstrs

LEMMA EitherNames ==
  ASSUME NEW S, NEW f, NEW g, \A x \in DOMAIN f : f[x] \in S, \A x \in DOMAIN g : g[x] \in S
  PROVE  \A x \in DOMAIN Joined(f, g) : Joined(f, g)[x] \in S
BY DEF Joined

(* An operation's opcode is PUSH32 if it is a constant other than zero.     *)
LEMMA FixedNames ==
  \A x \in DOMAIN FixedOpcodes : FixedOpcodes[x] \in DOMAIN Opcode \ {"PUSH32"}
<1>. DEFINE S == DOMAIN Opcode \ {"PUSH32"}
<1>0. DOMAIN EndRow = {"STATICCALL", "REVERT", "INVALID", "SELFDESTRUCT"}
  BY DEF EndRow
<1>1. \A x \in DOMAIN ArithOpcodes : ArithOpcodes[x] \in S
  <2>1. \A x \in DOMAIN ArithOpcodes : ArithOpcodes[x] \in
          {"ADD", "MUL", "SUB", "DIV", "SDIV", "MOD", "SMOD", "AND", "OR", "SHL", "SHR", "SAR",
           "CLZ", "ADDMOD", "MULMOD", "EXP", "SIGNEXTEND", "BYTE", "KECCAK256", "STOP"}
    BY DEF ArithOpcodes
  <2>2. {"ADD", "MUL", "SUB", "DIV", "SDIV", "MOD", "SMOD", "AND", "OR", "SHL", "SHR", "SAR",
         "CLZ", "ADDMOD", "MULMOD", "EXP", "SIGNEXTEND", "BYTE", "KECCAK256", "STOP"}
          \subseteq S
    BY OpcodeRows, ArithmeticRowNames, ComparisonRowNames, KeccakRowNames
  <2>. HIDE DEF S
  <2>. QED  BY <2>1, <2>2
<1>2. \A x \in DOMAIN EnvironmentOpcodes : EnvironmentOpcodes[x] \in S
  <2>. DEFINE names ==
         {"ADDRESS", "BALANCE", "ORIGIN", "CALLER", "CALLVALUE", "CALLDATALOAD",
          "CALLDATASIZE", "CALLDATACOPY", "CODESIZE", "CODECOPY", "GASPRICE", "EXTCODESIZE",
          "EXTCODECOPY", "RETURNDATASIZE", "RETURNDATACOPY", "EXTCODEHASH", "BLOCKHASH",
          "COINBASE", "TIMESTAMP", "NUMBER", "PREVRANDAO", "GASLIMIT", "CHAINID",
          "SELFBALANCE", "BASEFEE", "BLOBHASH", "BLOBBASEFEE"}
  <2>1. \A x \in DOMAIN EnvironmentOpcodes : EnvironmentOpcodes[x] \in names
    BY DEF EnvironmentOpcodes
  <2>2. names \subseteq S
    BY OpcodeRows, EnvironmentRowNames, BlockRowNames
  <2>. HIDE DEF S, names
  <2>. QED  BY <2>1, <2>2
<1>3. \A x \in DOMAIN MachineOpcodes : MachineOpcodes[x] \in S
  <2>. DEFINE names ==
         {"MLOAD", "MSTORE", "MSTORE8", "SLOAD", "SSTORE", "PC", "MSIZE", "GAS", "TLOAD",
          "TSTORE", "MCOPY", "LOG0", "LOG1", "LOG2", "LOG3", "LOG4"}
  <2>1. \A x \in DOMAIN MachineOpcodes : MachineOpcodes[x] \in names
    BY DEF MachineOpcodes
  <2>2. names \subseteq S
    BY OpcodeRows, MachineRowNames, LogRowNames
  <2>. HIDE DEF S, names
  <2>. QED  BY <2>1, <2>2
<1>4. \A x \in DOMAIN CallOpcodes : CallOpcodes[x] \in S
  <2>. DEFINE names ==
         {"CREATE", "CALL", "CALLCODE", "RETURN", "DELEGATECALL", "CREATE2", "STATICCALL",
          "REVERT", "INVALID", "SELFDESTRUCT"}
  <2>1. \A x \in DOMAIN CallOpcodes : CallOpcodes[x] \in names
    BY DEF CallOpcodes
  <2>2. names \subseteq S
    BY OpcodeRows, <1>0, CallRowNames
  <2>. HIDE DEF S, names
  <2>. QED  BY <2>1, <2>2
<1>. HIDE DEF S
<1>5. \A x \in DOMAIN Joined(ArithOpcodes, EnvironmentOpcodes) :
        Joined(ArithOpcodes, EnvironmentOpcodes)[x] \in S
  BY <1>1, <1>2, EitherNames
<1>6. \A x \in DOMAIN Joined(MachineOpcodes, CallOpcodes) :
        Joined(MachineOpcodes, CallOpcodes)[x] \in S
  BY <1>3, <1>4, EitherNames
<1>7. \A x \in DOMAIN FixedOpcodes : FixedOpcodes[x] \in S
  BY <1>5, <1>6, EitherNames DEF FixedOpcodes
<1>. QED  BY <1>7 DEF S

LEMMA ChosenApart ==
  "constant" \notin DOMAIN FixedOpcodes /\ "cmpi" \notin DOMAIN FixedOpcodes
  /\ "xori" \notin DOMAIN FixedOpcodes
<1>. DEFINE plain  == Joined(ArithOpcodes, EnvironmentOpcodes)
            others == Joined(MachineOpcodes, CallOpcodes)
            three  == {"constant", "cmpi", "xori"}
<1>1. DOMAIN plain = DOMAIN ArithOpcodes \cup DOMAIN EnvironmentOpcodes
      /\ DOMAIN others = DOMAIN MachineOpcodes \cup DOMAIN CallOpcodes
      /\ DOMAIN Joined(plain, others) = DOMAIN plain \cup DOMAIN others
  BY JoinedNames
<1>2. \A x \in three : x \notin DOMAIN ArithOpcodes /\ x \notin DOMAIN EnvironmentOpcodes
                      /\ x \notin DOMAIN MachineOpcodes /\ x \notin DOMAIN CallOpcodes
  BY DEF ArithOpcodes, EnvironmentOpcodes, MachineOpcodes, CallOpcodes
<1>. QED  BY <1>1, <1>2 DEF FixedOpcodes

ReadOp(unit, op) ==
  OpcodeOf(unit, op) = NoOpcode \/ IsRead(OpcodeInstr(Opcode[OpcodeOf(unit, op)]))

LEMMA OpcodeRead ==
  ASSUME NEW unit, NEW op, ~(op.name = "constant" /\ op.value # 0)
  PROVE  ReadOp(unit, op)
<1>. DEFINE S == DOMAIN Opcode \ {"PUSH32"}
<1>1. {"PUSH0", "LT", "GT", "SLT", "SGT", "ISZERO", "EQ", "NOT", "XOR"} \subseteq S
  BY OpcodeRows, ComparisonRowNames, MachineRowNames
<1>. HIDE DEF S
<1>2. ASSUME NEW definers PROVE getOpcode(op, definers) \in S \cup {NoOpcode}
  <2>1. CASE op.name = "constant"
    <3>1. getOpcode(op, definers) = "PUSH0"
      BY <2>1, ChosenApart DEF getOpcode
    <3>. QED  BY <1>1, <3>1
  <2>2. CASE op.name = "cmpi"
    <3>1. getOpcode(op, definers) = ComparisonOpcode(op, definers)
      BY <2>2, ChosenApart DEF getOpcode
    <3>2. CASE op.predicate \in {"ult", "ugt", "slt", "sgt"}
      <4>. DEFINE table == [ult |-> "LT", ugt |-> "GT", slt |-> "SLT", sgt |-> "SGT"]
      <4>1. ComparisonOpcode(op, definers) = table[op.predicate]
        BY <3>2 DEF ComparisonOpcode
      <4>2. table[op.predicate] \in {"LT", "GT", "SLT", "SGT"}
        BY <3>2
      <4>. QED  BY <1>1, <3>1, <4>1, <4>2
    <3>3. CASE op.predicate = "eq"
      <4>1. ComparisonOpcode(op, definers) \in {"ISZERO", "EQ"}
        BY <3>3 DEF ComparisonOpcode
      <4>. QED  BY <1>1, <3>1, <4>1
    <3>4. CASE op.predicate \notin {"ult", "ugt", "slt", "sgt", "eq"}
      <4>1. ComparisonOpcode(op, definers) = NoOpcode
        BY <3>4 DEF ComparisonOpcode
      <4>. QED  BY <3>1, <4>1
    <3>. QED  BY <3>2, <3>3, <3>4
  <2>3. CASE op.name = "xori"
    <3>1. getOpcode(op, definers) \in {"NOT", "XOR"}
      BY <2>3, ChosenApart DEF getOpcode, XorOpcode
    <3>. QED  BY <1>1, <3>1
  <2>4. CASE op.name \notin {"constant", "cmpi", "xori"}
    <3>1. getOpcode(op, definers) = IF op.name \in DOMAIN FixedOpcodes
                                    THEN FixedOpcodes[op.name] ELSE NoOpcode
      BY <2>4 DEF getOpcode
    <3>2. op.name \in DOMAIN FixedOpcodes => FixedOpcodes[op.name] \in S
      BY FixedNames DEF S
    <3>. QED  BY <3>1, <3>2
  <2>. QED  BY <2>1, <2>2, <2>3, <2>4
<1>3. OpcodeOf(unit, op) \in S \cup {NoOpcode}
  BY <1>2, Zenon DEF OpcodeOf
<1>4. \A name \in S : IsRead(OpcodeInstr(Opcode[name]))
  BY NamedRead DEF S
<1>. QED  BY <1>3, <1>4 DEF ReadOp

LEMMA ReadTuples ==
  ASSUME NEW a, NEW b, NEW c, IsRead(a), IsRead(b), IsRead(c)
  PROVE  AllRead(<<a>>) /\ AllRead(<<a, b>>) /\ AllRead(<<a, b, c>>)
<1>1. IsSequence(<<a>>) /\ IsSequence(<<a, b>>) /\ IsSequence(<<a, b, c>>)
  BY Tuples
<1>2. \A i \in 1..Len(<<a>>) : IsRead(<<a>>[i])
  OBVIOUS
<1>3. \A i \in 1..Len(<<a, b>>) : IsRead(<<a, b>>[i])
  OBVIOUS
<1>4. \A i \in 1..Len(<<a, b, c>>) : IsRead(<<a, b, c>>[i])
  OBVIOUS
<1>. QED  BY <1>1, <1>2, <1>3, <1>4 DEF AllRead

LEMMA ReadJoined ==
  ASSUME NEW s, NEW t, AllRead(s), AllRead(t)
  PROVE  AllRead(s \o t)
<1>1. IsSequence(s) /\ IsSequence(t) /\ Len(s) \in Nat /\ Len(t) \in Nat
  BY SequenceIs DEF AllRead
<1>2. /\ IsSequence(s \o t) /\ Len(s \o t) = Len(s) + Len(t)
      /\ \A i \in 1..Len(s) : (s \o t)[i] = s[i]
      /\ \A i \in 1..Len(t) : (s \o t)[Len(s) + i] = t[i]
  BY <1>1, Concatenation
<1>3. ASSUME NEW i \in 1..Len(s \o t) PROVE IsRead((s \o t)[i])
  <2>1. CASE i <= Len(s)
    <3>1. i \in 1..Len(s)
      BY <1>1, <1>2, <2>1
    <3>. QED  BY <1>2, <3>1 DEF AllRead
  <2>2. CASE ~(i <= Len(s))
    <3>. DEFINE j == i - Len(s)
    <3>1. j \in 1..Len(t) /\ Len(s) + j = i
      BY <1>1, <1>2, <2>2
    <3>. HIDE DEF j
    <3>2. (s \o t)[Len(s) + j] = t[j]
      BY <1>2, <3>1
    <3>3. IsRead(t[j])
      BY <3>1 DEF AllRead
    <3>. QED  BY <3>1, <3>2, <3>3
  <2>. QED  BY <2>1, <2>2
<1>. QED  BY <1>2, <1>3 DEF AllRead

(* Emitters whose code is read, and what the emitter does to them.          *)
LEMMA LegibleIs ==
  ASSUME NEW e, Legible(e)
  PROVE  \E s : \E n : \E t : \E u : e = Record(s, n, t, u) /\ AllRead(s)
BY DEF Legible, IsRecord

LEMMA LegibleRecord ==
  ASSUME NEW s, AllRead(s), NEW n, NEW t, NEW u
  PROVE  Legible(Record(s, n, t, u))
BY RecordIs DEF Legible

LEMMA LegibleWrite ==
  ASSUME NEW e, Legible(e), NEW frag, AllRead(frag)
  PROVE  Legible(Write(e, frag))
<1>1. PICK s, n, t, u : e = Record(s, n, t, u) /\ AllRead(s)
  BY LegibleIs
<1>2. Write(e, frag) = Record(s \o frag, n, t, u)
  BY <1>1, WriteRecord
<1>. QED  BY <1>1, <1>2, ReadJoined, LegibleRecord

LEMMA LegibleTracks ==
  ASSUME NEW e, Legible(e), NEW x, NEW v, NEW op
  PROVE  /\ Legible([e EXCEPT !.stackTracker = x])
         /\ Legible(Push(e, v))
         /\ Legible(PopOperands(e, op))
         /\ Legible(ResetTracker(e))
<1>1. PICK s, n, t, u : e = Record(s, n, t, u) /\ AllRead(s)
  BY LegibleIs
<1>. DEFINE t2 == Append(t, v)
            t3 == SubSeq(t, 1, Len(t) - Len(op.operands))
            u3 == u \/ Len(t) - Len(op.operands) < 0
<1>2. [e EXCEPT !.stackTracker = x] = Record(s, n, x, u)
  BY <1>1, TrackRecord
<1>3. Push(e, v) = Record(s, n, t2, u)
  BY <1>1, PushRecord
<1>4. PopOperands(e, op) = Record(s, n, t3, u3)
  BY <1>1, PopRecord
<1>5. ResetTracker(e) = Record(s, n, <<>>, u)
  BY <1>1, ResetRecord
<1>. HIDE DEF t2, t3, u3
<1>6. \A y : \A z : Legible(Record(s, n, y, z))
  BY <1>1, LegibleRecord
<1>. QED  BY <1>2, <1>3, <1>4, <1>5, <1>6

LEMMA StackValueLegible ==
  ASSUME NEW V, NEW e, IsEmitter(V, e), Legible(e), NEW unit, NEW v, NEW at0
  PROVE  Legible(emitStackValue(unit, e, v, at0))
<1>. DEFINE depth == findDepth(e.stackTracker, v)
<1>1. CASE depth > 0 /\ ~isDeadAfter(unit.body, at0[1], at0[2], v)
  <2>. DEFINE x == trackerDup(e.stackTracker, depth)
              m == [e EXCEPT !.stackTracker = x]
              instr == OpcodeInstr(DUP1 + depth)
  <2>1. emitStackValue(unit, e, v, at0) = Write(m, <<instr>>)
    BY <1>1, Zenon DEF emitStackValue
  <2>2. depth \in 1..15
    BY <1>1, DepthFound DEF IsEmitter
  <2>. HIDE DEF depth, x
  <2>3. IsRead(instr)
    BY <2>2, WrittenRead
  <2>4. Legible(m)
    BY LegibleTracks
  <2>. HIDE DEF instr, m
  <2>5. AllRead(<<instr>>)
    BY <2>3, ReadTuples
  <2>. QED  BY <2>1, <2>4, <2>5, LegibleWrite
<1>2. CASE ~(depth > 0 /\ ~isDeadAfter(unit.body, at0[1], at0[2], v))
  BY <1>2, Zenon DEF emitStackValue
<1>. QED  BY <1>1, <1>2

LEMMA SpilledValueLegible ==
  ASSUME NEW e, Legible(e), NEW v, NEW offset
  PROVE  Legible(emitSpilledValue(e, v, offset))
<1>. DEFINE frag == <<PushInstr(offset), OpcodeInstr(MLOAD)>>
<1>1. IsRead(PushInstr(offset)) /\ IsRead(OpcodeInstr(MLOAD))
  BY ReadInstrs, WrittenRead
<1>2. AllRead(frag)
  BY <1>1, ReadTuples
<1>. HIDE DEF frag
<1>3. Legible(Write(e, frag))
  BY <1>2, LegibleWrite
<1>4. Legible(Push(Write(e, frag), v))
  BY <1>3, LegibleTracks
<1>. QED  BY <1>4 DEF emitSpilledValue, frag

LEMMA OpcodeLegible ==
  ASSUME NEW e, Legible(e), NEW unit, NEW op, ReadOp(unit, op)
  PROVE  Legible(emitOpcode(unit, e, op))
<1>. DEFINE instr   == OpcodeInstr(Opcode[OpcodeOf(unit, op)])
            written == PopOperands(Write(e, <<instr>>), op)
            r       == CHOOSE x \in op.results : TRUE
            offset  == unit.layout[r].memOffset
            store   == <<PushInstr(offset), OpcodeInstr(SWAP1), OpcodeInstr(MSTORE)>>
<1>1. CASE OpcodeOf(unit, op) = NoOpcode
  BY <1>1 DEF emitOpcode
<1>2. ASSUME OpcodeOf(unit, op) # NoOpcode PROVE Legible(emitOpcode(unit, e, op))
  <2>1. IsRead(instr)
    BY <1>2 DEF ReadOp
  <2>2. emitOpcode(unit, e, op) =
          IF op.results = {} THEN written ELSE emitResult(unit, written, r)
    BY <1>2 DEF emitOpcode
  <2>3. emitResult(unit, written, r) =
          IF IsSpilled(unit.layout[r]) THEN Write(written, store) ELSE Push(written, r)
    BY Zenon DEF emitResult
  <2>. HIDE DEF instr, r
  <2>4. AllRead(<<instr>>)
    BY <2>1, ReadTuples
  <2>5. Legible(Write(e, <<instr>>))
    BY <2>4, LegibleWrite
  <2>6. Legible(written)
    <3>. DEFINE m == Write(e, <<instr>>)
    <3>. HIDE DEF m
    <3>. QED  BY <2>5, LegibleTracks DEF m
  <2>. HIDE DEF written
  <2>7. IsRead(PushInstr(offset)) /\ IsRead(OpcodeInstr(SWAP1)) /\ IsRead(OpcodeInstr(MSTORE))
    <3>1. SWAP1 + 1 - 1 = SWAP1
      BY WrittenNumbers
    <3>2. IsRead(OpcodeInstr(SWAP1 + 1 - 1))
      BY WrittenRead
    <3>. HIDE DEF offset
    <3>. QED  BY <3>1, <3>2, ReadInstrs, WrittenRead
  <2>8. AllRead(store)
    BY <2>7, ReadTuples
  <2>. HIDE DEF store
  <2>9. Legible(Write(written, store)) /\ Legible(Push(written, r))
    BY <2>6, <2>8, LegibleWrite, LegibleTracks
  <2>. QED  BY <2>2, <2>3, <2>6, <2>9
<1>. QED  BY <1>1, <1>2

ReadStep(unit, step) == step.does = "emit" => ReadOp(unit, OpAt(unit, step.at))

LEMMA StepLegible ==
  ASSUME NEW V, NEW e, IsEmitter(V, e), Legible(e), NEW unit, NEW step, ReadStep(unit, step)
  PROVE  Legible(emitStep(unit, e, step))
<1>1. ASSUME step.does = "emit" PROVE Legible(emitStep(unit, e, step))
  <2>. DEFINE op == OpAt(unit, step.at)
  <2>1. emitStep(unit, e, step) = emitOpcode(unit, e, op)
    BY <1>1, Zenon DEF emitStep
  <2>2. ReadOp(unit, op)
    BY <1>1 DEF ReadStep
  <2>. HIDE DEF op
  <2>. QED  BY <2>1, <2>2, OpcodeLegible
<1>2. ASSUME step.does # "emit" PROVE Legible(emitStep(unit, e, step))
  <2>. DEFINE v == step.value
              loc == unit.layout[v]
  <2>1. emitStep(unit, e, step) = emitHeld(unit, e, v, step.at)
    BY <1>2, Zenon DEF emitStep
  <2>2. emitHeld(unit, e, v, step.at) \in
          {emitStackValue(unit, e, v, step.at), emitSpilledValue(e, v, loc.memOffset), e}
    <3>1. CASE loc.kind = "stack"
      BY <3>1 DEF emitHeld, IsStack, IsSpilled
    <3>2. CASE loc.kind = "spilled"
      BY <3>2 DEF emitHeld, IsStack, IsSpilled
    <3>3. CASE loc.kind \notin {"stack", "spilled"}
      BY <3>3 DEF emitHeld, IsStack, IsSpilled
    <3>. QED  BY <3>1, <3>2, <3>3
  <2>. HIDE DEF v, loc
  <2>3. Legible(emitStackValue(unit, e, v, step.at))
    BY StackValueLegible
  <2>4. Legible(emitSpilledValue(e, v, loc.memOffset))
    BY SpilledValueLegible
  <2>. QED  BY <2>1, <2>2, <2>3, <2>4
<1>. QED  BY <1>1, <1>2

LEMMA StepsLegible ==
  ASSUME NEW V, NEW e, IsEmitter(V, e), Legible(e), NEW unit, NEW steps, Len(steps) \in Nat,
         \A i \in 1..Len(steps) : GoodStep(unit, V, FALSE, steps[i]) /\ ReadStep(unit, steps[i])
  PROVE  Legible(emitSteps(unit, e, steps))
<1>. DEFINE N == Len(steps)
<1>1. PICK f : Between(unit, e, steps, N, f) /\ emitSteps(unit, e, steps) = f[N]
  BY EmitStepsIs
<1>. DEFINE T == {n \in 0..N : IsEmitter(V, f[n]) /\ Legible(f[n])}
<1>2. 0 \in T
  BY <1>1 DEF Between
<1>3. ASSUME NEW n \in 0..(N - 1), n \in T PROVE n + 1 \in T
  <2>1. n + 1 \in 1..N /\ (n + 1) - 1 = n /\ n + 1 \in 0..N
    OBVIOUS
  <2>2. f[n + 1] = emitStep(unit, f[n], steps[n + 1])
    BY <1>1, <2>1 DEF Between
  <2>3. IsEmitter(V, f[n]) /\ Legible(f[n])
    BY <1>3
  <2>4. GoodStep(unit, V, FALSE, steps[n + 1]) /\ ReadStep(unit, steps[n + 1])
    BY <2>1
  <2>5. Advance(V, FALSE, f[n], f[n + 1])
    BY <2>2, <2>3, <2>4, EmitStep
  <2>6. Legible(f[n + 1])
    BY <2>2, <2>3, <2>4, StepLegible
  <2>. QED  BY <2>1, <2>5, <2>6 DEF Advance
<1>. HIDE DEF T
<1>4. N \in Nat
  OBVIOUS
<1>. HIDE DEF N
<1>5. \A n \in 0..N : n \in T
  BY <1>2, <1>3, <1>4, CountUp
<1>6. N \in T
  BY <1>4, <1>5
<1>. QED  BY <1>1, <1>6 DEF T

(* The steps that bring values are read if all constants that are computed  *)
(* again are zero.                                                          *)
LEMMA StepsRead ==
  ASSUME NEW unit, NEW V, GoodUnit(unit, V, FALSE), ~BytesMissing(unit), NEW step \in Steps(unit)
  PROVE  ReadStep(unit, step)
<1>1. CASE step \in {Bring(v, place) : v \in FunctionValues(unit.body), place \in Places(unit)}
  BY <1>1 DEF Bring, ReadStep
<1>2. CASE step \in {EmitAgain(DefinedAt(unit, v)) : v \in Recomputed(unit)}
  <2>1. PICK v \in Recomputed(unit) : step = EmitAgain(DefinedAt(unit, v))
    BY <1>2
  <2>. DEFINE op == OpAt(unit, DefinedAt(unit, v))
  <2>2. ~(op.name = "constant" /\ op.value # 0)
    BY DEF BytesMissing
  <2>3. OpAt(unit, step.at) = op
    BY <2>1 DEF EmitAgain
  <2>. HIDE DEF op
  <2>4. ReadOp(unit, op)
    BY <2>2, OpcodeRead
  <2>. QED  BY <2>3, <2>4 DEF ReadStep
<1>. QED  BY <1>1, <1>2 DEF Steps

LEMMA ValuesLegible ==
  ASSUME NEW unit, NEW V, GoodUnit(unit, V, FALSE), ~BytesMissing(unit),
         NEW e, IsEmitter(V, e), Legible(e),
         NEW values \in Seq(FunctionValues(unit.body)), NEW place \in Places(unit)
  PROVE  LET m == emitValues(unit, e, values, place)
         IN  IsEmitter(V, m) /\ Legible(m)
<1>. DEFINE steps == allSteps(unit, emitRecompute(unit), values, place)
            m == emitValues(unit, e, values, place)
<1>1. steps \in Seq(Steps(unit))
  BY RecomputeSteps, AllSteps
<1>2. m = emitSteps(unit, e, steps)
  BY DEF emitValues
<1>. HIDE DEF steps
<1>3. Len(steps) \in Nat /\ \A i \in 1..Len(steps) : steps[i] \in Steps(unit)
  BY <1>1
<1>4. \A i \in 1..Len(steps) : GoodStep(unit, V, FALSE, steps[i]) /\ ReadStep(unit, steps[i])
  BY <1>3, StepsGood, StepsRead
<1>5. Legible(m)
  BY <1>2, <1>3, <1>4, StepsLegible
<1>6. Advance(V, FALSE, e, m)
  BY EmitValues
<1>. HIDE DEF m
<1>7. IsEmitter(V, m)
  BY <1>6 DEF Advance
<1>. QED  BY <1>5, <1>7 DEF m

-----------------------------------------------------------------------------
(* Each operation is emitted as instructions that the EVM finds.            *)

LEMMA ReadByParts ==
  ASSUME NEW s, IsSequence(s), \A i \in 1..Len(s) : IsRead(s[i])
  PROVE  AllRead(s)
BY DEF AllRead

LEMMA JumpLegible ==
  ASSUME NEW unit, NEW V, GoodUnit(unit, V, FALSE), ~BytesMissing(unit),
         NEW e, IsEmitter(V, e), Legible(e),
         NEW values \in Seq(FunctionValues(unit.body)), NEW place \in Places(unit),
         NEW b, NEW jump \in {JUMP, JUMPI}
  PROVE  LET m == emitJumpWith(unit, e, values, place, b, jump)
         IN  IsEmitter(V, m) /\ Legible(m)
<1>. DEFINE brought == emitValues(unit, e, values, place)
            ref == LabelRefInstr(BlockLabel(unit, b))
            instr == OpcodeInstr(jump)
            frag == <<ref, instr>>
            m == emitJumpWith(unit, e, values, place, b, jump)
<1>1. IsEmitter(V, brought) /\ Legible(brought)
  BY ValuesLegible
<1>2. m = Write(brought, frag)
  BY DEF emitJumpWith
<1>3. IsRead(ref) /\ IsRead(instr)
  BY ReadInstrs, WrittenRead
<1>. HIDE DEF brought, ref, instr, m
<1>4. AllRead(frag) /\ IsSequence(frag)
  BY <1>3, ReadTuples DEF AllRead
<1>. HIDE DEF frag
<1>5. IsEmitter(V, Write(brought, frag)) /\ Legible(Write(brought, frag))
  BY <1>1, <1>4, WriteIs, LegibleWrite
<1>. QED  BY <1>2, <1>5 DEF m

LEMMA CondBranchLegible ==
  ASSUME NEW unit, NEW V, GoodUnit(unit, V, FALSE), ~BytesMissing(unit),
         NEW e, IsEmitter(V, e), Legible(e), NEW place \in Places(unit),
         NEW op, op = OpAt(unit, place),
         op.operands # <<>>, op.trueArgs \in 0..(Len(op.operands) - 1)
  PROVE  Legible(emitCondBranch(unit, e, op, place))
<1>. DEFINE operands == op.operands
            FV == FunctionValues(unit.body)
            arguments == Tail(operands)
            head == <<Head(operands)>>
            first == SubSeq(arguments, 1, op.trueArgs)
            second == SubSeq(arguments, op.trueArgs + 1, Len(arguments))
            condition == emitValues(unit, e, head, place)
            taken == emitJumpWith(unit, condition, first, place, op.trueDest, JUMPI)
            e2 == emitJumpWith(unit, taken, second, place, op.falseDest, JUMP)
<1>1. operands \in Seq(FV)
  BY DEF GoodUnit
<1>2. operands # <<>> /\ op.trueArgs \in 0..(Len(operands) - 1)
  OBVIOUS
<1>3. emitCondBranch(unit, e, op, place) = e2
  BY Zenon DEF emitCondBranch
<1>. HIDE DEF operands, FV
<1>4. head \in Seq(FV) /\ arguments \in Seq(FV) /\ Len(arguments) = Len(operands) - 1
  BY <1>1, <1>2
<1>5. first \in Seq(FV) /\ second \in Seq(FV)
  <2>1. op.trueArgs \in 0..Len(arguments)
    BY <1>2, <1>4
  <2>. DEFINE k == op.trueArgs
              n == Len(arguments)
  <2>. HIDE DEF arguments, k
  <2>2. n \in Nat /\ (\A i \in 1..n : arguments[i] \in FV) /\ k \in 0..n
    BY <1>4, <2>1 DEF k
  <2>. HIDE DEF n
  <2>3. k \in Int /\ k + 1 \in Int /\ n \in Int /\ 1 \in Int
        /\ (\A i \in 1..k : i \in 1..n) /\ \A i \in (k + 1)..n : i \in 1..n
    BY <2>2
  <2>4. SubSeq(arguments, 1, k) \in Seq(FV) /\ SubSeq(arguments, k + 1, n) \in Seq(FV)
    BY <2>2, <2>3, SubSeqProperties
  <2>. QED  BY <2>4 DEF k, n
<1>. HIDE DEF head, first, second, arguments
<1>6. IsEmitter(V, condition) /\ Legible(condition)
  BY <1>4, ValuesLegible DEF FV
<1>. HIDE DEF condition
<1>7. IsEmitter(V, taken) /\ Legible(taken)
  BY <1>5, <1>6, JumpLegible DEF FV
<1>. HIDE DEF taken
<1>8. Legible(e2)
  BY <1>5, <1>7, JumpLegible DEF FV
<1>. QED  BY <1>3, <1>8

LEMMA CallLegible ==
  ASSUME NEW unit, NEW V, GoodUnit(unit, V, FALSE), ~BytesMissing(unit),
         NEW e, IsEmitter(V, e), Legible(e), NEW place \in Places(unit),
         NEW op, op = OpAt(unit, place)
  PROVE  Legible(emitCall(unit, e, op, place))
<1>. DEFINE m == scheduleOperands(unit, e, op, place)
            label == createdLabel(m.stream)
            words == CallWords(label, op.callee)
            made == [m EXCEPT !.stream = createLabel(@)]
            returned == Write(made, words)
<1>1. Legible(m)
  <2>1. operandOrder(op) \in Seq(FunctionValues(unit.body))
    BY OperandOrder DEF GoodUnit
  <2>. QED  BY <2>1, ValuesLegible DEF scheduleOperands
<1>2. emitCall(unit, e, op, place) = [returned EXCEPT !.stackTracker = @ \o op.returns]
  BY Zenon DEF emitCall, CallWords
<1>. HIDE DEF m, label
<1>3. Legible(made)
  <2>1. PICK s, n, t, u : m = Record(s, n, t, u) /\ AllRead(s)
    BY <1>1, LegibleIs
  <2>2. made = Record(s, (n + 1) % LabelCount, t, u)
    BY <2>1, CreateRecord
  <2>. QED  BY <2>1, <2>2, LegibleRecord
<1>. HIDE DEF made
<1>4. AllRead(words)
  <2>1. /\ IsSequence(words) /\ Len(words) = 5
        /\ words[1] = LabelRefInstr(label) /\ words[2] = LabelRefInstr(op.callee)
        /\ words[3] = OpcodeInstr(JUMP) /\ words[4] = LabelDefInstr(label)
        /\ words[5] = OpcodeInstr(JUMPDEST)
    BY CallWordsAre
  <2>. HIDE DEF words
  <2>2. IsRead(words[1]) /\ IsRead(words[2]) /\ IsRead(words[3]) /\ IsRead(words[4])
        /\ IsRead(words[5])
    BY <2>1, ReadInstrs, WrittenRead
  <2>3. \A i \in 1..Len(words) : IsRead(words[i])
    BY <2>1, <2>2
  <2>. QED  BY <2>1, <2>3 DEF AllRead
<1>. HIDE DEF words
<1>5. Legible(returned)
  BY <1>3, <1>4, LegibleWrite
<1>. HIDE DEF returned
<1>6. Legible([returned EXCEPT !.stackTracker = returned.stackTracker \o op.returns])
  <2>. DEFINE x == returned.stackTracker \o op.returns
  <2>. HIDE DEF x
  <2>1. Legible([returned EXCEPT !.stackTracker = x])
    BY <1>5, LegibleTracks
  <2>. QED  BY <2>1 DEF x
<1>. QED  BY <1>2, <1>6

LEMMA ReturnLegible ==
  ASSUME NEW unit, NEW V, GoodUnit(unit, V, FALSE), ~BytesMissing(unit),
         NEW e, IsEmitter(V, e), Legible(e), NEW place \in Places(unit),
         NEW op, op = OpAt(unit, place), op.name = "func.return",
         unit.kind # "constructor", unit.visibility \in {"internal", "external"}
  PROVE  Legible(emitReturn(unit, e, op, place))
<1>. DEFINE n == Len(op.operands)
            m == emitValues(unit, e, op.operands, place)
<1>1. op.operands \in Seq(FunctionValues(unit.body))
  BY DEF GoodUnit
<1>2. n \in Nat
  BY <1>1
<1>3. Legible(m)
  BY <1>1, ValuesLegible
<1>4. n <= 112
  <2>1. ~(n > 112)
    BY DEF BytesMissing
  <2>. HIDE DEF n
  <2>. QED  BY <1>2, <2>1
<1>5. CASE unit.visibility = "internal"
  <2>1. emitReturn(unit, e, op, place) = Write(m, JumpBack(n))
    BY <1>5, InternalReturnIs
  <2>. DEFINE swap == OpcodeInstr(SWAP1 + n - 1)
              jump == OpcodeInstr(JUMP)
  <2>. HIDE DEF m, n
  <2>2. JumpBack(n) = IF n = 0 THEN <<jump>> ELSE <<swap, jump>>
    BY <1>2, JumpBackIs
  <2>3. IsRead(jump) /\ (n # 0 => IsRead(swap))
    <3>1. n # 0 => n \in 1..112
      BY <1>2, <1>4
    <3>. QED  BY <3>1, WrittenRead
  <2>. HIDE DEF swap, jump
  <2>4. AllRead(JumpBack(n))
    <3>1. CASE n = 0
      BY <2>2, <2>3, <3>1, ReadTuples
    <3>2. CASE n # 0
      BY <2>2, <2>3, <3>2, ReadTuples
    <3>. QED  BY <3>1, <3>2
  <2>. QED  BY <2>1, <2>4, <1>3, LegibleWrite
<1>6. CASE unit.visibility = "external"
  <2>. DEFINE size == PushInstr(32 * n)
              zero == PushInstr(0)
              ret == OpcodeInstr(RETURN)
              written == Write(m, ReturnWords(n))
  <2>1. emitReturn(unit, e, op, place) = PopOperands(written, op)
    <3>1. unit.visibility # "internal"
      BY <1>6
    <3>. QED  BY <1>6, <3>1 DEF emitReturn, ReturnWords
  <2>. HIDE DEF m, n
  <2>2. IsRead(size) /\ IsRead(zero) /\ IsRead(ret)
    BY ReadInstrs, WrittenRead
  <2>3. ReturnWords(n) = StoreResults(n) \o <<size, zero, ret>>
    BY DEF ReturnWords
  <2>. HIDE DEF size, zero, ret
  <2>4. AllRead(<<size, zero, ret>>)
    BY <2>2, ReadTuples
  <2>5. AllRead(StoreResults(n))
    <3>1. /\ IsSequence(StoreResults(n)) /\ Len(StoreResults(n)) = 2 * n
          /\ \A k \in 1..(2 * n) : StoreResults(n)[k] =
               IF k % 2 = 1 THEN PushInstr(32 * (n - 1 - k \div 2)) ELSE OpcodeInstr(MSTORE)
      BY <1>2, StoreResultsIs
    <3>2. ASSUME NEW k \in 1..(2 * n) PROVE IsRead(StoreResults(n)[k])
      <4>. DEFINE address == 32 * (n - 1 - k \div 2)
                  odd == k % 2 = 1
      <4>1. StoreResults(n)[k] = IF odd THEN PushInstr(address) ELSE OpcodeInstr(MSTORE)
        BY <3>1
      <4>. HIDE DEF address, odd
      <4>2. IsRead(PushInstr(address)) /\ IsRead(OpcodeInstr(MSTORE))
        BY ReadInstrs, WrittenRead
      <4>. QED  BY <4>1, <4>2
    <3>. QED  BY <3>1, <3>2, ReadByParts
  <2>6. AllRead(ReturnWords(n))
    BY <2>3, <2>4, <2>5, ReadJoined
  <2>7. Legible(written)
    BY <2>6, <1>3, LegibleWrite
  <2>. HIDE DEF written
  <2>. QED  BY <2>1, <2>7, LegibleTracks
<1>. QED  BY <1>5, <1>6

LEMMA ConstantLegible ==
  ASSUME NEW e, Legible(e), NEW op
  PROVE  Legible(emitConstant(e, op))
<1>. DEFINE r == CHOOSE r \in op.results : TRUE
            instr == PushInstr(op.value)
<1>1. emitConstant(e, op) = Write(Push(e, r), <<instr>>)
  BY Zenon DEF emitConstant
<1>2. IsRead(instr)
  BY ReadInstrs
<1>. HIDE DEF r, instr
<1>3. AllRead(<<instr>>) /\ Legible(Push(e, r))
  BY <1>2, ReadTuples, LegibleTracks
<1>. DEFINE m == Push(e, r)
            frag == <<instr>>
<1>. HIDE DEF m, frag
<1>4. Legible(Write(m, frag))
  BY <1>3, LegibleWrite DEF m, frag
<1>. QED  BY <1>1, <1>4 DEF m, frag

LEMMA PlainLegible ==
  ASSUME NEW unit, NEW V, GoodUnit(unit, V, FALSE), ~BytesMissing(unit),
         NEW e, IsEmitter(V, e), Legible(e), NEW place \in Places(unit),
         NEW op, op = OpAt(unit, place), op.name # "constant"
  PROVE  Legible(emitOpcode(unit, scheduleOperands(unit, e, op, place), op))
<1>. DEFINE m == scheduleOperands(unit, e, op, place)
<1>1. Legible(m)
  <2>1. operandOrder(op) \in Seq(FunctionValues(unit.body))
    BY OperandOrder DEF GoodUnit
  <2>. QED  BY <2>1, ValuesLegible DEF scheduleOperands
<1>. HIDE DEF m
<1>2. ReadOp(unit, op)
  BY OpcodeRead
<1>3. Legible(emitOpcode(unit, m, op))
  BY <1>1, <1>2, OpcodeLegible
<1>. QED  BY <1>3 DEF m

LEMMA MarkLegible ==
  ASSUME NEW e, Legible(e), NEW unit, NEW b
  PROVE  Legible(markBlock(unit, e, b))
<1>. DEFINE mark == LabelDefInstr(BlockLabel(unit, b))
            dest == OpcodeInstr(JUMPDEST)
<1>1. markBlock(unit, e, b) = Write(e, <<mark, dest>>)
  BY DEF markBlock
<1>2. IsRead(mark) /\ IsRead(dest)
  BY ReadInstrs, WrittenRead
<1>. HIDE DEF mark, dest
<1>3. AllRead(<<mark, dest>>)
  BY <1>2, ReadTuples
<1>. QED  BY <1>1, <1>3, LegibleWrite

LEMMA EmitOpLegible ==
  ASSUME NEW p, Verified(p), NEW f \in 1..Len(p.functions),
         NEW b \in 1..Len(p.functions[f].body), NEW i \in 1..Len(p.functions[f].body[b].ops),
         NEW e, IsEmitter(ValuesOf(p.functions), e), Legible(e),
         ~BytesMissing(UnitOf(p.functions, f, p.layout))
  PROVE  Legible(emitOp(UnitOf(p.functions, f, p.layout), e, <<b, i>>))
<1>. DEFINE functions == p.functions
            unit == UnitOf(functions, f, p.layout)
            V == ValuesOf(functions)
            place == <<b, i>>
            op == OpAt(unit, place)
            isLast == i = Len(functions[f].body[b].ops)
<1>1. GoodUnit(unit, V, FALSE) /\ ~BytesMissing(unit) /\ IsEmitter(V, e)
  BY VerifiedUnit
<1>2. unit.body = functions[f].body /\ unit.kind = functions[f].kind
      /\ unit.visibility = functions[f].visibility
  BY UnitFields
<1>3. place \in Places(unit)
  BY <1>2, PlaceIs
<1>4. op = functions[f].body[b].ops[i]
  BY <1>2 DEF OpAt
<1>5. OpVerified(functions, f, isLast, op)
  <2>1. OpVerified(functions, f, i = Len(p.functions[f].body[b].ops), functions[f].body[b].ops[i])
    BY VerifiedOp, Zenon
  <2>. QED  BY <2>1, <1>4
<1>6. unit.kind # "constructor" /\ unit.visibility \in {"internal", "external"}
  BY <1>2 DEF Verified, FunctionVerified
<1>7. op.name = "cf.cond_br" =>
        op.operands # <<>> /\ op.trueArgs \in 0..(Len(op.operands) - 1)
  <2>1. GoesSomewhere(functions, f, op)
    <3>. HIDE DEF op, functions, isLast
    <3>. QED  BY <1>5, Zenon DEF OpVerified
  <2>. HIDE DEF op, functions
  <2>. QED  BY <2>1, Zenon DEF GoesSomewhere
<1>8. emitOp(unit, e, place) =
        CASE op.name = "cf.br"       -> emitBranch(unit, e, op, place)
          [] op.name = "cf.cond_br"  -> emitCondBranch(unit, e, op, place)
          [] op.name = "func.return" -> emitReturn(unit, e, op, place)
          [] op.name = "constant"    -> emitConstant(e, op)
          [] op.name = "func.call"   -> emitCall(unit, e, op, place)
          [] OTHER                   ->
               emitOpcode(unit, scheduleOperands(unit, e, op, place), op)
  BY Zenon DEF emitOp
<1>9. op = OpAt(unit, place)
  OBVIOUS
<1>. HIDE DEF unit, V, place, op
<1>10. CASE op.name = "cf.br"
  <2>1. op.operands \in Seq(FunctionValues(unit.body))
    BY <1>1, <1>3, <1>9 DEF GoodUnit
  <2>2. Legible(emitJumpWith(unit, e, op.operands, place, op.dest, JUMP))
    BY <2>1, <1>1, <1>3, JumpLegible
  <2>. QED  BY <2>2, <1>8, <1>10 DEF emitBranch, unit, V, place
<1>11. CASE op.name = "cf.cond_br"
  <2>1. Legible(emitCondBranch(unit, e, op, place))
    BY <1>1, <1>3, <1>7, <1>9, <1>11, CondBranchLegible
  <2>. QED  BY <2>1, <1>8, <1>11 DEF unit, place
<1>12. CASE op.name = "func.return"
  <2>1. Legible(emitReturn(unit, e, op, place))
    BY <1>1, <1>3, <1>6, <1>9, <1>12, ReturnLegible
  <2>. QED  BY <2>1, <1>8, <1>12 DEF unit, place
<1>13. CASE op.name = "constant"
  <2>1. Legible(emitConstant(e, op))
    BY ConstantLegible
  <2>. QED  BY <2>1, <1>8, <1>13 DEF unit, place
<1>14. CASE op.name = "func.call"
  <2>1. Legible(emitCall(unit, e, op, place))
    BY <1>1, <1>3, <1>9, CallLegible
  <2>. QED  BY <2>1, <1>8, <1>14 DEF unit, place
<1>15. CASE op.name \notin {"cf.br", "cf.cond_br", "func.return", "constant", "func.call"}
  <2>1. Legible(emitOpcode(unit, scheduleOperands(unit, e, op, place), op))
    BY <1>1, <1>3, <1>9, <1>15, PlainLegible
  <2>. QED  BY <2>1, <1>8, <1>15 DEF unit, place
<1>. QED  BY <1>10, <1>11, <1>12, <1>13, <1>14, <1>15

(* The EVM finds all of the code as it was written, if bytes are missing of *)
(* no function.  This is kept by itself, given IInv.                        *)
SomeMissing == \E f \in 1..Len(Functions) : BytesMissing(UnitAt(f))

ReadGood == SomeMissing \/ Legible(emitter)

LEMMA InitRead == Init => ReadGood
<1>. SUFFICES ASSUME Init PROVE Legible(emitter)
  BY DEF ReadGood
<1>. DEFINE none == <<>>
            total == BlocksBefore(program.functions, Len(program.functions) + 1)
            no == FALSE
<1>1. emitter = Record(none, total, none, no)
  <2>1. Labelled(program.functions) = [instructions |-> none, nextLabelID |-> total]
    BY DEF Labelled, NewStream
  <2>. HIDE DEF total
  <2>2. emitter = [stream |-> [instructions |-> none, nextLabelID |-> total],
                   stackTracker |-> none, undefined |-> FALSE]
    BY <2>1 DEF Init, Emitter, NewTracker
  <2>. QED  BY <2>2 DEF Record
<1>2. AllRead(none)
  <2>1. IsSequence(none) /\ Len(none) = 0
    BY Tuples
  <2>. HIDE DEF none
  <2>. QED  BY <2>1 DEF AllRead
<1>. HIDE DEF none, total, no
<1>. QED  BY <1>1, <1>2, LegibleRecord

LEMMA ReadStays ==
  ASSUME ReadGood, program' = program, Legible(emitter) => Legible(emitter')
  PROVE  ReadGood'
<1>1. SomeMissing' = SomeMissing
  BY DEF SomeMissing, Functions, UnitAt
<1>. QED  BY <1>1 DEF ReadGood

LEMMA BeginBlockRead ==
  ASSUME ReadGood, BeginBlock
  PROVE  ReadGood'
<1>1. program' = program
      /\ emitter' = markBlock(UnitAt(at[1]),
                              IF at[2] = 1 THEN ResetTracker(emitter) ELSE emitter, at[2])
  BY DEF BeginBlock
<1>2. ASSUME Legible(emitter) PROVE Legible(emitter')
  <2>. DEFINE e == IF at[2] = 1 THEN ResetTracker(emitter) ELSE emitter
  <2>1. Legible(ResetTracker(emitter))
    BY <1>2, LegibleTracks
  <2>2. Legible(e)
    BY <1>2, <2>1
  <2>. HIDE DEF e
  <2>3. Legible(markBlock(UnitAt(at[1]), e, at[2]))
    BY <2>2, MarkLegible
  <2>. QED  BY <1>1, <2>3 DEF e
<1>. QED  BY <1>1, <1>2, ReadStays

LEMMA EmitOpRead ==
  ASSUME IInv, ReadGood, EmitOp
  PROVE  ReadGood'
<1>. DEFINE f == at[1]
            b == at[2]
            i == at[3]
<1>1. /\ emitter' = emitOp(UnitAt(f), emitter, <<b, i>>)
      /\ program' = program
  BY EmitOpFacts
<1>2. /\ f \in 1..Len(program.functions)
      /\ b \in 1..Len(program.functions[f].body)
      /\ i \in 1..Len(program.functions[f].body[b].ops)
      /\ Verified(program)
  BY OpHereIs
<1>. HIDE DEF f, b, i
<1>3. IsEmitter(ValuesOf(program.functions), emitter)
  BY DEF IInv, StreamGood, Functions
<1>4. UnitAt(f) = UnitOf(program.functions, f, program.layout)
  BY DEF UnitAt, Functions
<1>5. ASSUME ~SomeMissing, Legible(emitter) PROVE Legible(emitter')
  <2>1. ~BytesMissing(UnitOf(program.functions, f, program.layout))
    BY <1>2, <1>4, <1>5 DEF SomeMissing, Functions
  <2>2. Legible(emitOp(UnitOf(program.functions, f, program.layout), emitter, <<b, i>>))
    BY <1>2, <1>3, <1>5, <2>1, EmitOpLegible
  <2>. QED  BY <1>1, <1>4, <2>2
<1>6. SomeMissing' = SomeMissing
  BY <1>1 DEF SomeMissing, Functions, UnitAt
<1>. QED  BY <1>5, <1>6 DEF ReadGood

LEMMA NextRead == IInv /\ ReadGood /\ [Next]_vars => ReadGood'
<1>. SUFFICES ASSUME IInv, ReadGood, [Next]_vars PROVE ReadGood'
  OBVIOUS
<1>1. CASE BeginBlock
  BY <1>1, BeginBlockRead
<1>2. CASE EmitOp
  BY <1>2, EmitOpRead
<1>3. CASE EndBlock \/ Call \/ Run \/ Over \/ UNCHANGED vars
  <2>1. program' = program /\ emitter' = emitter
    BY <1>3 DEF EndBlock, Call, Run, Over, vars, emissionVars
  <2>. QED  BY <2>1, ReadStays
<1>. QED  BY <1>1, <1>2, <1>3 DEF Next

(* The code, of which TypeOK speaks.                                        *)
LEMMA ReadCode ==
  ASSUME ReadGood
  PROVE  CodeRead \/ \E f \in 1..Len(Functions) : BytesMissing(UnitAt(f))
BY DEF ReadGood, SomeMissing, Legible, AllRead, CodeRead, Code, Instrs

-----------------------------------------------------------------------------
(* When everything has been emitted, all labels that have been created are  *)
(* defined, so that every jump of the machine leads to a label.             *)

LEMMA AllEmitted ==
  ASSUME IInv, ~Emitting
  PROVE  CodeGood(NextLabel) /\ 0 \in 0..(NextLabel - 1)
<1>. DEFINE F == Functions
            n == NextLabel
            t == Total(F)
            m == Len(F)
            g == Begun
            D == DefinedLabels
<1>1. Verified(program) /\ AtGood /\ EndGood /\ StreamGood
  BY DEF IInv
<1>2. n \in Nat /\ t <= n /\ t \in Nat /\ m \in Nat /\ m >= 1
  BY <1>1, NextLabelIs, ProgramShape
<1>3. at[1] = m + 1 /\ at[2] = 1 /\ at[3] = 0
  <2>. DEFINE f == at[1]
  <2>1. f \in 1..(m + 1) /\ ~(f <= m)
    BY <1>1 DEF AtGood, Emitting
  <2>2. f = m + 1
    <3>. HIDE DEF f, m
    <3>. QED  BY <1>2, <2>1
  <2>. QED  BY <1>1, <2>2 DEF AtGood
<1>4. at # <<1, 1, 0>>
  <2>1. at = <<1, 1, 0>> => at[1] = 1
    OBVIOUS
  <2>2. m + 1 # 1
    <3>. HIDE DEF m
    <3>. QED  BY <1>2
  <2>. QED  BY <1>3, <2>1, <2>2
<1>5. Ended(Code)
  BY <1>1, <1>4 DEF EndGood
<1>6. g = t
  <2>. DEFINE x == BlocksBefore(F, m + 1)
  <2>1. g = x + 1 - 1
    BY <1>3 DEF Begun
  <2>2. x = t
    BY DEF Total
  <2>. HIDE DEF g, x, t
  <2>. QED  BY <1>2, <2>1, <2>2
<1>7. D = 0..(n - 1)
  <2>1. D = (0..(g - 1)) \cup (t..(n - 1))
    BY DEF DefinedLabels
  <2>. HIDE DEF D, g, t, n
  <2>. QED  BY <1>2, <1>6, <2>1
<1>8. CodeIs(Code, n, 0..(n - 1))
  BY <1>1, <1>7 DEF StreamGood
<1>9. IsSequence(Code)
  BY <1>8 DEF CodeIs
<1>10. t >= 1
  <2>1. 1 \in 1..Len(F) /\ Shape(F)
    BY <1>1, <1>2, ProgramShape
  <2>2. 1 \in 1..Len(F[1].body)
    BY <1>1, <2>1, ProgramShape DEF BlocksIn
  <2>3. /\ BlocksBefore(F, 1) \in Nat
        /\ BlocksBefore(F, 1) + 1 <= BlocksBefore(F, Len(F) + 1)
    BY <2>1, <2>2, BlockLabels
  <2>4. t = BlocksBefore(F, Len(F) + 1)
    BY DEF Total
  <2>. DEFINE x == BlocksBefore(F, 1)
  <2>5. x \in Nat /\ x + 1 <= t
    BY <2>3, <2>4
  <2>. HIDE DEF x, t
  <2>. QED  BY <1>2, <2>5
<1>11. 0 \in 0..(n - 1)
  <2>. HIDE DEF n, t
  <2>. QED  BY <1>2, <1>10
<1>. QED  BY <1>2, <1>5, <1>8, <1>9, <1>11 DEF CodeGood

(* Nothing is emitted: what is known of the emission stays true. *)
LEMMA EmissionStays ==
  ASSUME IInv, UNCHANGED emissionVars, RunGood'
  PROVE  IInv'
<1>1. program' = program /\ at' = at /\ emitter' = emitter /\ emittedAt' = emittedAt
  BY DEF emissionVars
<1>2. Functions' = Functions /\ NextLabel' = NextLabel /\ Code' = Code
  BY <1>1 DEF Functions, NextLabel, Code
<1>3. Emitting' = Emitting
  BY <1>1, <1>2 DEF Emitting
<1>4. Verified(program)'
  BY <1>1 DEF IInv
<1>5. AtGood'
  BY <1>1, <1>2, <1>3 DEF IInv, AtGood
<1>6. PassedGood'
  BY <1>1 DEF IInv, PassedGood
<1>7. Called' = Called /\ Begun' = Begun
  BY <1>1, <1>2 DEF Called, Begun
<1>8. DefinedLabels' = DefinedLabels
  BY <1>2, <1>7 DEF DefinedLabels
<1>9. StreamGood'
  BY <1>1, <1>2, <1>7, <1>8 DEF IInv, StreamGood
<1>10. EndGood'
  BY <1>1, <1>2, <1>3 DEF IInv, EndGood
<1>. QED  BY <1>4, <1>5, <1>6, <1>9, <1>10 DEF IInv

LEMMA CallKeeps == IInv /\ Call => IInv'
<1>. SUFFICES ASSUME IInv, Call PROVE IInv'
  OBVIOUS
<1>1. /\ ~Emitting /\ UNCHANGED emissionVars
      /\ pc' = LabelIndex(Code, 0) /\ stack' = <<Selector>> /\ outcome' = "running"
      /\ memory' = memory
  BY DEF Call, StartAt
<1>2. Emitting' = Emitting /\ Code' = Code /\ NextLabel' = NextLabel
  BY <1>1 DEF emissionVars, Emitting, Functions, Code, NextLabel
<1>. DEFINE n == NextLabel
<1>3. CodeGood(n) /\ 0 \in 0..(n - 1)
  BY <1>1, AllEmitted
<1>4. LabelIndex(Code, 0) \in 1..Len(Code)
  BY <1>3, LabelLeads
<1>5. GoodWords(stack', n)
  <2>1. stack' = <<Selector>>
    BY <1>1
  <2>2. IsSequence(stack') /\ Len(stack') = 1 /\ stack'[1] = Selector
    BY <2>1, Tuples
  <2>3. Selector[1] # "label"
    BY DEF Selector
  <2>. HIDE DEF n
  <2>. QED  BY <2>2, <2>3 DEF GoodWords, GoodWord
<1>6. GoodMemory(memory', n)
  BY <1>1 DEF IInv, RunGood, MachineGood
<1>7. MachineGood(NextLabel)'
  BY <1>2, <1>5, <1>6 DEF MachineGood
<1>8. RunGood'
  BY <1>1, <1>2, <1>4, <1>7 DEF RunGood
<1>. QED  BY <1>1, <1>8, EmissionStays

LEMMA RunStepKeeps == IInv /\ Run => IInv'
<1>. SUFFICES ASSUME IInv, Run PROVE IInv'
  OBVIOUS
<1>1. RunInstruction(Code) /\ UNCHANGED emissionVars
  BY DEF Run
<1>2. Emitting' = Emitting /\ Code' = Code /\ NextLabel' = NextLabel
  BY <1>1 DEF emissionVars, Emitting, Functions, Code, NextLabel
<1>3. outcome = "running"
  BY <1>1, RunsRunning
<1>4. ~Emitting /\ MachineGood(NextLabel)
  BY <1>3 DEF IInv, RunGood
<1>. DEFINE n == NextLabel
<1>5. CodeGood(n) /\ MachineGood(n)
  BY <1>4, AllEmitted
<1>6. /\ GoodWords(stack', n) /\ GoodMemory(memory', n)
      /\ outcome' \in {"running", "stopped", "returned", "exception", "unknown"}
      /\ outcome' \in {"running", "returned"} => pc' \in 1..Len(Code)
  <2>. HIDE DEF n
  <2>. QED  BY <1>1, <1>5, RunKeeps
<1>7. MachineGood(NextLabel)'
  BY <1>2, <1>6 DEF MachineGood
<1>8. RunGood'
  BY <1>2, <1>4, <1>6, <1>7 DEF RunGood
<1>. QED  BY <1>1, <1>8, EmissionStays

LEMMA StutterKeeps == IInv /\ UNCHANGED vars => IInv'
<1>. SUFFICES ASSUME IInv, UNCHANGED vars PROVE IInv'
  OBVIOUS
<1>1. UNCHANGED emissionVars /\ UNCHANGED machineVars
  BY DEF vars
<1>2. Emitting' = Emitting /\ Code' = Code /\ NextLabel' = NextLabel
  BY <1>1 DEF emissionVars, Emitting, Functions, Code, NextLabel
<1>3. stack' = stack /\ memory' = memory /\ outcome' = outcome /\ pc' = pc
  BY <1>1 DEF machineVars
<1>4. RunGood'
  BY <1>2, <1>3 DEF IInv, RunGood, MachineGood
<1>. QED  BY <1>1, <1>4, EmissionStays

LEMMA NextKeeps == IInv /\ [Next]_vars => IInv'
<1>. SUFFICES ASSUME IInv, [Next]_vars PROVE IInv'
  OBVIOUS
<1>1. CASE BeginBlock
  BY <1>1, BeginBlockKeeps
<1>2. CASE EmitOp
  BY <1>2, CallOpKeeps, OtherOpKeeps
<1>3. CASE EndBlock
  BY <1>3, EndBlockKeeps
<1>4. CASE Call
  BY <1>4, CallKeeps
<1>5. CASE Run
  BY <1>5, RunStepKeeps
<1>6. CASE Over
  BY <1>6, StutterKeeps DEF Over
<1>7. CASE UNCHANGED vars
  BY <1>7, StutterKeeps
<1>. QED  BY <1>1, <1>2, <1>3, <1>4, <1>5, <1>6, <1>7 DEF Next

(* In every state the emitter's stream, its tracker and the machine, as far *)
(* as it is followed, are in order: IInv, from which TypeOK follows.        *)
THEOREM Invariant == Spec => []IInv
BY InitInvariant, NextKeeps, PTL DEF Spec

(* The EVM finds the code as it was written, in any program but for those   *)
(* which BytesMissing names: with a constant other than zero among what is  *)
(* computed again, or a return of more than 112 values.                     *)
THEOREM CodeFound == Spec => []ReadGood
BY Invariant, InitRead, NextRead, PTL DEF Spec

LEMMA InvariantTypes == IInv /\ ReadGood => TypeOK
<1>. SUFFICES ASSUME IInv, ReadGood PROVE TypeOK
  OBVIOUS
<1>. DEFINE V == ValuesOf(Functions)
            n == NextLabel
            D == DefinedLabels
            t == Total(Functions)
<1>1. at[1] \in 1..(Len(Functions) + 1)
  BY DEF IInv, AtGood
<1>2. IsEmitter(V, emitter) /\ CodeIs(Code, n, D)
  BY DEF IInv, StreamGood
<1>3. \A k \in 1..Len(emitter.stackTracker) : emitter.stackTracker[k] \in V
  <2>1. emitter.stackTracker \in Seq(V)
    BY <1>2 DEF IsEmitter
  <2>. HIDE DEF V
  <2>. QED  BY <2>1
<1>4. n \in Nat /\ t <= n /\ t \in Nat
  BY NextLabelIs, ProgramShape DEF IInv
<1>5. D \subseteq 0..(n - 1)
  <2>. DEFINE g == Begun
  <2>1. g \in Int /\ g <= t
    <3>1. CASE Emitting
      <4>. DEFINE x == BlocksBefore(Functions, at[1])
                  b == at[2]
                  i == at[3]
      <4>1. /\ x \in Nat /\ x + b <= t /\ b \in Nat
            /\ g = x + b - (IF i = 0 THEN 1 ELSE 0)
        BY <3>1, Here DEF Begun
      <4>. HIDE DEF x, t, g, b, i
      <4>. QED  BY <1>4, <4>1
    <3>2. CASE ~Emitting
      <4>. DEFINE f == at[1]
                  m == Len(Functions)
                  x == BlocksBefore(Functions, f)
      <4>1. f \in 1..(m + 1) /\ ~(f <= m) /\ at[2] = 1 /\ at[3] = 0 /\ m \in Nat
        BY <3>2, ProgramShape DEF IInv, AtGood, Emitting
      <4>2. f = m + 1
        <5>. HIDE DEF f, m
        <5>. QED  BY <4>1
      <4>3. x = t
        BY <4>2 DEF Total
      <4>4. g = x + 1 - 1
        BY <4>1 DEF Begun
      <4>. HIDE DEF x, t, g
      <4>. QED  BY <1>4, <4>3, <4>4
    <3>. QED  BY <3>1, <3>2
  <2>2. D = (0..(g - 1)) \cup (t..(n - 1))
    BY DEF DefinedLabels
  <2>. HIDE DEF D, g, t, n
  <2>. QED  BY <1>4, <2>1, <2>2
<1>. HIDE DEF n, D
<1>6. ASSUME NEW i \in 1..Len(Code)
      PROVE  /\ Code[i].kind \in {"opcode", "push", "labelRef", "labelDef"}
             /\ Code[i].kind \in {"labelRef", "labelDef"} => Code[i].label < n
             /\ Code[i].kind = "labelDef" => \A j \in 1..(i - 1) : Code[j] # Code[i]
  <2>1. CASE Known(Code[i], n)
    <3>1. CASE Ordinary(Code[i])
      <4>1. Code[i].kind = "push" \/ Code[i].kind = "opcode"
        <5>1. \A v : PushInstr(v).kind = "push"
          BY DEF PushInstr
        <5>2. \A opcode : OpcodeInstr(opcode).kind = "opcode"
          BY DEF OpcodeInstr
        <5>. QED  BY <3>1, <5>1, <5>2 DEF Ordinary
      <4>. QED  BY <4>1
    <3>2. CASE \E l \in 0..(n - 1) : Code[i] = LabelRefInstr(l)
      BY <1>4, <3>2 DEF LabelRefInstr
    <3>. QED  BY <2>1, <3>1, <3>2 DEF Known
  <2>2. CASE \E l \in D : Code[i] = LabelDefInstr(l)
    <3>1. PICK l \in D : Code[i] = LabelDefInstr(l)
      BY <2>2
    <3>2. Code[i].kind = "labelDef" /\ Code[i].label = l
      BY <3>1 DEF LabelDefInstr
    <3>3. l < n
      BY <1>4, <1>5
    <3>4. ASSUME NEW j \in 1..(i - 1) PROVE Code[j] # Code[i]
      <4>1. IsSequence(Code)
        BY <1>2 DEF CodeIs
      <4>2. Len(Code) \in Nat
        BY <4>1, SequenceIs
      <4>3. j \in 1..Len(Code) /\ j # i
        BY <4>2
      <4>4. Code[i] = LabelDefInstr(l) /\ Code[j] = LabelDefInstr(l) => i = j
        BY <1>2, <4>3 DEF CodeIs
      <4>. QED  BY <3>1, <4>3, <4>4
    <3>. QED  BY <3>2, <3>3, <3>4
  <2>. QED  BY <1>2, <2>1, <2>2 DEF CodeIs
<1>7. outcome \in {"waiting", "running", "stopped", "returned", "exception", "unknown"}
      /\ (outcome \in {"running", "returned"} => pc \in 1..Len(Code))
  BY DEF IInv, RunGood
<1>8. CodeRead \/ \E f \in 1..Len(Functions) : BytesMissing(UnitAt(f))
  BY ReadCode
<1>. QED  BY <1>1, <1>3, <1>6, <1>7, <1>8 DEF TypeOK, n, NextLabel

(* TypeOK, for any programs: all labels that the stream holds have been     *)
(* created and none is defined twice; the EVM finds the code as it was      *)
(* written, unless a constant other than zero is computed again or more     *)
(* than 112 values are returned; and as long as the machine has come to no  *)
(* place where bytes are missing, it jumps only to where a label is and     *)
(* does not leave the code.                                                 *)
THEOREM TypeCorrect == Spec => []TypeOK
BY Invariant, CodeFound, InvariantTypes, PTL
=============================================================================
