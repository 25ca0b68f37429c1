\* JUMPDEST and JUMP
\* values of zero to three bytes, with zero bytes inside and with bytes that
\* read as JUMPDEST or PUSH2: 0, JUMPDEST, 256 * PUSH2, 65536 * JUMPDEST + PUSH32
CONSTANTS
  Opcodes = {91, 86}
  PushValues = {0, 91, 24832, 5963903}
  MaxInstructions = 5
  MaxLabels = 2
SPECIFICATION Spec
INVARIANTS
  TypeOK
  RoundTrip
  NoLeadingZero
CHECK_DEADLOCK FALSE
