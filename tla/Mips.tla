-------------------------------- MODULE Mips --------------------------------
(***************************************************************************)
(* The interpreter of cpu.rs: one instruction of the guest's MIPS32        *)
(* processor as a function of its state.  Instructions are decoded records.*)
(* Here are the instructions a block of the JIT may hold; those that make  *)
(* every block end before them (BREAK, SYSCALL, TEQ and unknown ones) have *)
(* a name and no effect in this module.                                    *)
(***************************************************************************)
EXTENDS AddressSpace, Sequences

CONSTANTS
    GprCount,       \* general registers; the last one is the link register
    JumpRegion      \* bytes that J and JAL can reach: the low 28 bits

HI == GprCount
LO == GprCount + 1
Link == GprCount - 1
Registers == 0 .. LO

Shifts == {"SLL", "SRL", "SRA"}
VariableShifts == {"SLLV", "SRLV", "SRAV"}
Arithmetic == {"ADD", "ADDU", "SUB", "SUBU", "AND", "OR", "XOR", "NOR", "SLT", "SLTU", "MUL"}
Moves == {"MOVZ", "MOVN", "MFHI", "MFLO"}
Counts == {"CLZ", "CLO"}
Immediates == {"ADDI", "ADDIU", "SLTI", "SLTIU", "ANDI", "ORI", "XORI", "LUI"}
Pairs == {"MULT", "MULTU", "DIV", "DIVU", "MADD", "MADDU", "MSUB", "MSUBU"}
MovesTo == {"MTHI", "MTLO"}
Idle == {"SYNC", "PREF"}
Loads == {"LB", "LH", "LW", "LBU", "LHU", "LL", "LWL", "LWR"}
Stores == {"SB", "SH", "SW", "SC", "SWL", "SWR"}
Jumps == {"J", "JAL", "JR", "JALR"}
Compares == {"BLTZ", "BGEZ", "BLTZAL", "BGEZAL", "BEQ", "BNE", "BLEZ", "BGTZ"}
Others == {"REGIMM", "BREAK", "SYSCALL", "TEQ", "UNKNOWN"}

Operations == UNION {Shifts, VariableShifts, Arithmetic, Moves, Counts, Immediates, Pairs,
                     MovesTo, Idle, Loads, Stores, Jumps, Compares, Others}
Instructions == [op : Operations, rs : 0 .. Link, rt : 0 .. Link, rd : 0 .. Link,
                 imm : 0 .. Half - 1]

\* J and JAL keep the upper part of the pc: a word is a whole number of the
\* regions they jump within.
ASSUME MipsAssumption ==
    /\ GprCount \in Nat /\ GprCount >= 2
    /\ JumpRegion \in Nat \ {0} /\ Word % JumpRegion = 0
    /\ Bits <= Half

Write(r, register, value) == IF register = 0 THEN r ELSE [r EXCEPT ![register] = value]

SignedImmediate(i) == SignExtend(i.imm, Half)
UpperImmediate(i) == Wrap(i.imm * Half)
Amount(i, r) == (IF i.op \in Shifts THEN i.imm ELSE r[i.rs]) % Bits

\* The second operand of the three-operand instructions and their immediate forms.
Operand(i, r) ==
    IF i.op \in {"ANDI", "ORI", "XORI"} THEN i.imm
    ELSE IF i.op \in Immediates THEN SignedImmediate(i) ELSE r[i.rt]

Destination(i) == IF i.op \in Immediates THEN i.rt ELSE i.rd

Result(i, r) ==
    LET a == r[i.rs]
        b == Operand(i, r)
    IN  CASE i.op \in {"SLL", "SLLV"} -> Shl(r[i.rt], Amount(i, r))
          [] i.op \in {"SRL", "SRLV"} -> Shr(r[i.rt], Amount(i, r))
          [] i.op \in {"SRA", "SRAV"} -> Sar(r[i.rt], Amount(i, r))
          [] i.op \in {"ADD", "ADDU", "ADDI", "ADDIU"} -> Wrap(a + b)
          [] i.op \in {"SUB", "SUBU"} -> Wrap(a - b)
          [] i.op \in {"AND", "ANDI"} -> And(a, b)
          [] i.op \in {"OR", "ORI"} -> Or(a, b)
          [] i.op \in {"XOR", "XORI"} -> Xor(a, b)
          [] i.op = "NOR" -> Complement(Or(a, b))
          [] i.op \in {"SLT", "SLTI"} -> Truth(Signed(a) < Signed(b))
          [] i.op \in {"SLTU", "SLTIU"} -> Truth(a < b)
          [] i.op = "LUI" -> UpperImmediate(i)
          [] i.op = "MUL" -> Wrap(Signed(a) * Signed(b))
          [] i.op = "CLZ" -> Clz(a)
          [] i.op = "CLO" -> Clz(Complement(a))
          [] i.op = "MFHI" -> r[HI]
          [] i.op = "MFLO" -> r[LO]
          [] OTHER -> a                                     \* MOVZ, MOVN

\* MOVZ and MOVN leave the destination alone when their condition fails.
Writes(i, r) ==
    \/ i.op \in UNION {Shifts, VariableShifts, Arithmetic, Counts, Immediates, {"MFHI", "MFLO"}}
    \/ i.op = "MOVZ" /\ r[i.rt] = 0
    \/ i.op = "MOVN" /\ r[i.rt] # 0

\* The instructions with a double-word result.  MADD and MSUB read their
\* operands as unsigned numbers, as MADDU and MSUBU do.
Divides(i, r) ==
    /\ r[i.rt] # 0
    /\ i.op = "DIV" => ~(Signed(r[i.rs]) = Signed(Word \div 2) /\ Signed(r[i.rt]) = -1)

DoubleWord(i, r) ==
    LET a == r[i.rs]
        b == r[i.rt]
        sum == Pair(r[HI], r[LO])
    IN  CASE i.op = "MULT" -> Signed(a) * Signed(b)
          [] i.op = "MULTU" -> a * b
          [] i.op \in {"MADD", "MADDU"} -> sum + a * b
          [] OTHER -> sum - a * b

Divided(i, r) ==
    IF ~Divides(i, r) THEN r
    ELSE IF i.op = "DIV"
    THEN [r EXCEPT ![LO] = Wrap(Quotient(Signed(r[i.rs]), Signed(r[i.rt]))),
                   ![HI] = Wrap(Remainder(Signed(r[i.rs]), Signed(r[i.rt])))]
    ELSE [r EXCEPT ![LO] = r[i.rs] \div r[i.rt], ![HI] = r[i.rs] % r[i.rt]]

Computed(i, r) ==
    IF Writes(i, r) THEN Write(r, Destination(i), Result(i, r))
    ELSE IF i.op \in {"DIV", "DIVU"} THEN Divided(i, r)
    ELSE IF i.op \in Pairs
    THEN [r EXCEPT ![LO] = LowWord(DoubleWord(i, r)), ![HI] = HighWord(DoubleWord(i, r))]
    ELSE IF i.op = "MTHI" THEN [r EXCEPT ![HI] = r[i.rs]]
    ELSE IF i.op = "MTLO" THEN [r EXCEPT ![LO] = r[i.rs]]
    ELSE r

(***************************************************************************)
(* Branches: pc is already the address of the delay slot.                  *)
(***************************************************************************)
Linking == {"JAL", "JALR", "BLTZAL", "BGEZAL"}

Linked(i, pc, r) ==
    IF i.op \in Linking
    THEN Write(r, IF i.op = "JALR" THEN i.rd ELSE Link, Wrap(pc + 4))
    ELSE r

\* REGIMM branches read their register after the link is written, JALR before.
Taken(i, r) ==
    CASE i.op \in Jumps -> TRUE
      [] i.op \in {"BLTZ", "BLTZAL"} -> Signed(r[i.rs]) < 0
      [] i.op \in {"BGEZ", "BGEZAL"} -> Signed(r[i.rs]) >= 0
      [] i.op = "BEQ" -> r[i.rs] = r[i.rt]
      [] i.op = "BNE" -> r[i.rs] # r[i.rt]
      [] i.op = "BLEZ" -> Signed(r[i.rs]) <= 0
      [] i.op = "BGTZ" -> Signed(r[i.rs]) > 0
      [] OTHER -> FALSE

JumpTarget(i, pc) == (pc - (pc % JumpRegion)) + ((4 * i.imm) % JumpRegion)

Target(i, pc, r) ==
    CASE i.op \in {"JR", "JALR"} -> r[i.rs]
      [] i.op \in {"J", "JAL"} -> JumpTarget(i, Wrap(pc - 4))
      [] OTHER -> Wrap(pc + 4 * SignedImmediate(i))

(***************************************************************************)
(* Loads and stores.  LWL, LWR, SWL and SWR access the aligned word that   *)
(* holds the byte addressed and merge a part of it.                        *)
(***************************************************************************)
Unaligned == {"LWL", "LWR", "SWL", "SWR"}
Width(i) ==
    CASE i.op \in {"LB", "LBU", "SB"} -> 1
      [] i.op \in {"LH", "LHU", "SH"} -> 2
      [] OTHER -> 4

EffectiveAddress(i, r) == Wrap(r[i.rs] + SignedImmediate(i))
Accessed(i, address) == IF i.op \in Unaligned THEN address - (address % 4) ELSE address

\* What n bytes are worth.
Power == [n \in 0 .. 4 |-> CASE n = 0 -> 1 [] n = 1 -> Base [] n = 2 -> Half
                             [] n = 3 -> Half * Base [] n = 4 -> Word]

Loaded(i, value, byte, old) ==
    CASE i.op = "LB" -> SignExtend(value, Base)
      [] i.op = "LH" -> SignExtend(value, Half)
      [] i.op = "LWL" -> Wrap(value * Power[3 - byte]) + (old % Power[3 - byte])
      [] i.op = "LWR" -> (value \div Power[byte]) + (old - (old % Power[4 - byte]))
      [] OTHER -> value

Stored(i, value, byte, old) ==
    CASE i.op = "SWL" -> (old - (old % Power[byte + 1])) + (value \div Power[3 - byte])
      [] i.op = "SWR" -> (old % Power[byte]) + Wrap(value * Power[byte])
      [] OTHER -> value

(***************************************************************************)
(* The processor and one step of it.  An access that Locate sends          *)
(* elsewhere is not defined here.                                          *)
(***************************************************************************)
Cpus == [r : [Registers -> Words], pc : Words, branch_delay : BOOLEAN,
         branch_target : Words, count : Nat, memory : Memories]

ExecuteBranch(i, c) ==
    LET linked == Linked(i, c.pc, c.r)
        read == IF i.op = "JALR" THEN c.r ELSE linked
    IN  IF Taken(i, read)
        THEN [c EXCEPT !.r = linked, !.branch_delay = TRUE,
                       !.branch_target = Target(i, c.pc, read)]
        ELSE [c EXCEPT !.r = linked]

ExecuteMemory(i, c) ==
    LET address == EffectiveAddress(i, c.r)
        place == Locate(Accessed(i, address), Width(i))
        value == ReadAt(c.memory, place, Width(i))
    IN  IF i.op \in Loads
        THEN [c EXCEPT !.r = Write(c.r, i.rt, Loaded(i, value, address % 4, c.r[i.rt]))]
        ELSE [c EXCEPT !.memory = WriteAt(c.memory, place, Width(i),
                                          Stored(i, c.r[i.rt], address % 4, value)),
                       !.r = IF i.op = "SC" THEN Write(c.r, i.rt, 1) ELSE c.r]

Execute(i, c) ==
    IF i.op \in Jumps \cup Compares THEN ExecuteBranch(i, c)
    ELSE IF i.op \in Loads \cup Stores THEN ExecuteMemory(i, c)
    ELSE [c EXCEPT !.r = Computed(i, c.r)]

\* After the instruction in a delay slot the processor goes to the target.
Step(i, c) ==
    LET done == Execute(i, [c EXCEPT !.pc = Wrap(c.pc + 4), !.count = c.count + 1])
    IN  IF c.branch_delay
        THEN [done EXCEPT !.branch_delay = FALSE, !.pc = done.branch_target]
        ELSE done
=============================================================================
