------------------------------ MODULE Lowering ------------------------------
(***************************************************************************)
(* A compiled block next to the interpreter.  The JIT translates a block   *)
(* of instructions (jit.rs, lower_block) into code that keeps registers in *)
(* values, loads and stores RAM and the framebuffer directly, and leaves   *)
(* through an exit that stores the dirty registers and pc and returns the  *)
(* number of instructions completed.  The machine here runs that code one  *)
(* guest instruction at a time, and the interpreter (module Mips) runs the *)
(* same instructions from the same state, so that each exit can be         *)
(* compared with the state the interpreter is in.                          *)
(***************************************************************************)
EXTENDS Mips

CONSTANTS
    Blocks,         \* the blocks compiled
    Starts,         \* the states they are entered in: pc, registers and memory
    None            \* a register that has no value yet, an exit not taken yet

ASSUME LoweringAssumption ==
    /\ Blocks \subseteq Seq(Instructions)
    /\ Starts \subseteq [pc : Words, r : {r \in [Registers -> Words] : r[0] = 0},
                         memory : Memories]
    /\ None \notin Words
    /\ None \notin [pc : Words, completed : Nat]

VARIABLES
    block,          \* the instructions being compiled, from pc start
    start,
    index,          \* instructions completed by the emitted code
    native,         \* the registers in memory, the values and the guest's memory
    exit,           \* pc and count returned, or None
    cpu             \* the interpreter

vars == <<block, start, index, native, exit, cpu>>

(***************************************************************************)
(* What the lowering supports.                                             *)
(***************************************************************************)
ControlFlow == Jumps \cup Compares \cup {"REGIMM"}
LowerableBranch == Jumps \cup Compares
MemoryInstructions == Loads \cup Stores
RegisterInstructions ==
    UNION {Shifts, VariableShifts, Arithmetic, Moves, Counts, Immediates, Pairs, MovesTo, Idle}

Straight(i) == i.op \in MemoryInstructions \cup RegisterInstructions

\* How far a block can be compiled, decided before it is: the JIT gives a block
\* up for good when this is too short.
Stops(b) == {k \in 1 .. Len(b) : ~Straight(b[k])}

MutCandidateAnyDelaySlot(b) ==
    IF Stops(b) = {} THEN Len(b)
    ELSE LET stop == CHOOSE k \in Stops(b) : \A j \in Stops(b) : k <= j
         IN  IF b[stop].op \in LowerableBranch /\ stop < Len(b) THEN stop + 1 ELSE stop - 1

CandidateInstructionCount(b) ==
    IF Stops(b) = {} THEN Len(b)
    ELSE LET stop == CHOOSE k \in Stops(b) : \A j \in Stops(b) : k <= j
         IN  IF /\ b[stop].op \in LowerableBranch
                /\ stop < Len(b)
                /\ b[stop + 1].op \in RegisterInstructions
             THEN stop + 1 ELSE stop - 1

(***************************************************************************)
(* Registers of the emitted code.  A register is loaded at its first use,  *)
(* R0 is the constant zero, and a write only marks the value dirty.        *)
(***************************************************************************)
Fetch(n, registers) ==
    [n EXCEPT !.values = [x \in Registers |->
        IF x \in registers \ {0} /\ n.values[x] = None THEN n.registers[x] ELSE n.values[x]]]

Value(n, register) == IF register = 0 THEN 0 ELSE n.values[register]

WriteSpecialRegister(n, register, value) ==
    [n EXCEPT !.values[register] = value, !.dirty[register] = TRUE]
WriteRegister(n, register, value) ==
    IF register = 0 THEN n ELSE WriteSpecialRegister(n, register, value)

MutWriteI64Pair(n, value) ==
    WriteSpecialRegister(WriteSpecialRegister(n, LO, value), HI, HighWord(value))

WriteI64Pair(n, value) ==
    WriteSpecialRegister(WriteSpecialRegister(n, LO, LowWord(value)), HI, HighWord(value))

\* The registers an instruction's code reads.
Sources(i) ==
    CASE i.op \in Shifts -> {i.rt}
      [] i.op \in {"MOVZ", "MOVN"} -> {i.rs, i.rt, i.rd}
      [] i.op = "MFHI" -> {HI}
      [] i.op = "MFLO" -> {LO}
      [] i.op \in {"MULT", "MULTU"} -> {i.rs, i.rt}
      [] i.op \in Pairs \ {"MULT", "MULTU"} -> {i.rs, i.rt, HI, LO}
      [] i.op \in Idle \cup {"LUI", "J", "JAL"} -> {}
      [] i.op \in VariableShifts \cup Arithmetic \cup Stores \cup {"LWL", "LWR", "BEQ", "BNE"}
            -> {i.rs, i.rt}
      [] OTHER -> {i.rs}

(***************************************************************************)
(* Register instructions.                                                  *)
(***************************************************************************)
LoweredResult(i, n) ==
    LET a == Value(n, i.rs)
        b == Value(n, i.rt)
        shift == b                        \* the value shifted
        immediate == SignedImmediate(i)
    IN  CASE i.op = "SLL" -> Shl(shift, i.imm % Bits)
          [] i.op = "SRL" -> Shr(shift, i.imm % Bits)
          [] i.op = "SRA" -> Sar(shift, i.imm % Bits)
          [] i.op = "SLLV" -> Shl(shift, a % Bits)
          [] i.op = "SRLV" -> Shr(shift, a % Bits)
          [] i.op = "SRAV" -> Sar(shift, a % Bits)
          [] i.op = "MOVZ" -> IF b = 0 THEN a ELSE Value(n, i.rd)
          [] i.op = "MOVN" -> IF b # 0 THEN a ELSE Value(n, i.rd)
          [] i.op = "MFHI" -> n.values[HI]
          [] i.op = "MFLO" -> n.values[LO]
          [] i.op \in {"ADD", "ADDU"} -> Wrap(a + b)
          [] i.op \in {"SUB", "SUBU"} -> Wrap(a - b)
          [] i.op = "AND" -> And(a, b)
          [] i.op = "OR" -> Or(a, b)
          [] i.op = "XOR" -> Xor(a, b)
          [] i.op = "NOR" -> Complement(Or(a, b))
          [] i.op = "SLT" -> Truth(Signed(a) < Signed(b))
          [] i.op = "SLTU" -> Truth(a < b)
          [] i.op = "MUL" -> Wrap(a * b)
          [] i.op = "CLZ" -> Clz(a)
          [] i.op = "CLO" -> Clz(Complement(a))
          [] i.op \in {"ADDI", "ADDIU"} -> Wrap(a + immediate)
          [] i.op = "SLTI" -> Truth(Signed(a) < Signed(immediate))
          [] i.op = "SLTIU" -> Truth(a < immediate)
          [] i.op = "ANDI" -> And(a, i.imm)
          [] i.op = "ORI" -> Or(a, i.imm)
          [] i.op = "XORI" -> Xor(a, i.imm)
          [] i.op = "LUI" -> UpperImmediate(i)

MutInvalidDivision(i, n) == Value(n, i.rt) = 0

\* A division always runs: an invalid one divides by one, and its results are
\* replaced by the old HI and LO.
InvalidDivision(i, n) ==
    \/ Value(n, i.rt) = 0
    \/ i.op = "DIV" /\ Value(n, i.rs) = Word \div 2 /\ Value(n, i.rt) = Word - 1

LowerDivision(i, n) ==
    LET invalid == InvalidDivision(i, n)
        a == Value(n, i.rs)
        d == IF invalid THEN 1 ELSE Value(n, i.rt)
        quotient == IF i.op = "DIV" THEN Wrap(Quotient(Signed(a), Signed(d))) ELSE a \div d
        remainder == IF i.op = "DIV" THEN Wrap(Remainder(Signed(a), Signed(d))) ELSE a % d
        withLow == WriteSpecialRegister(n, LO, IF invalid THEN n.values[LO] ELSE quotient)
    IN  WriteSpecialRegister(withLow, HI, IF invalid THEN n.values[HI] ELSE remainder)

LoweredDoubleWord(i, n) ==
    LET a == Value(n, i.rs)
        b == Value(n, i.rt)
        accumulator == Pair(n.values[HI], n.values[LO])
    IN  CASE i.op = "MULT" -> Signed(a) * Signed(b)
          [] i.op = "MULTU" -> a * b
          [] i.op \in {"MADD", "MADDU"} -> accumulator + a * b
          [] i.op \in {"MSUB", "MSUBU"} -> accumulator - a * b

LowerRegisterInstruction(i, m) ==
    LET n == Fetch(m, Sources(i))
    IN  IF i.op \in Idle THEN n
        ELSE IF i.op \in {"DIV", "DIVU"} THEN LowerDivision(i, n)
        ELSE IF i.op \in Pairs THEN WriteI64Pair(n, LoweredDoubleWord(i, n))
        ELSE IF i.op = "MTHI" THEN WriteSpecialRegister(n, HI, Value(n, i.rs))
        ELSE IF i.op = "MTLO" THEN WriteSpecialRegister(n, LO, Value(n, i.rs))
        ELSE WriteRegister(n, IF i.op \in Immediates THEN i.rt ELSE i.rd, LoweredResult(i, n))

(***************************************************************************)
(* Branches.  The link is written before a REGIMM branch reads its         *)
(* register and after JALR does.                                           *)
(***************************************************************************)
LoweredCondition(i, n) ==
    LET source == Value(n, i.rs)
    IN  CASE i.op \in {"BLTZ", "BLTZAL"} -> Negative(source)
          [] i.op \in {"BGEZ", "BGEZAL"} -> ~Negative(source)
          [] i.op = "BEQ" -> source = Value(n, i.rt)
          [] i.op = "BNE" -> source # Value(n, i.rt)
          [] i.op = "BLEZ" -> Negative(source) \/ source = 0
          [] i.op = "BGTZ" -> ~Negative(source) /\ source # 0

LowerBranch(i, m, pc) ==
    LET fallthrough == Wrap(pc + 8)
        read == Fetch(m, Sources(i))
        linked == IF i.op \in {"BLTZAL", "BGEZAL", "JAL"}
                  THEN WriteRegister(m, Link, fallthrough) ELSE m
        n == Fetch(linked, Sources(i))
    IN  CASE i.op = "JR" -> [native |-> read, target |-> Value(read, i.rs)]
          [] i.op = "JALR" -> [native |-> WriteRegister(read, i.rd, fallthrough),
                               target |-> Value(read, i.rs)]
          [] i.op \in {"J", "JAL"} -> [native |-> n, target |-> JumpTarget(i, pc)]
          [] OTHER -> [native |-> n,
                       target |-> IF LoweredCondition(i, n)
                                  THEN Wrap(pc + 4 + 4 * SignedImmediate(i))
                                  ELSE fallthrough]

(***************************************************************************)
(* Loads and stores: RAM, then the framebuffer through any alias, then out *)
(* of the block.                                                           *)
(***************************************************************************)
LoweredTranslate(address) ==
    IF address \div Segment \in {4, 5} THEN address % Segment ELSE address

MutAliasesOfFirstByte(address, width) == {a \in Aliases : Wrap(address - a) < MapSize}

LoweredAliases(address, width) ==
    {a \in Aliases : Wrap(address - a) <= MapSize - width}

LoweredLocate(address, width) ==
    IF LoweredTranslate(address) <= RamSize - width THEN Ram(LoweredTranslate(address))
    ELSE IF LoweredAliases(address, width) # {}
    THEN LET a == CHOOSE x \in LoweredAliases(address, width) : TRUE
         IN  Framebuffer(Wrap(address - a))
    ELSE Elsewhere

LoweredAddress(i, m) == Wrap(Value(Fetch(m, Sources(i)), i.rs) + SignedImmediate(i))
LoweredPlace(i, m) == LoweredLocate(Accessed(i, LoweredAddress(i, m)), Width(i))

\* The four cases of an unaligned access, for the byte of the word addressed.
SelectByteCase(byte, cases) == cases[byte + 1]

MergeLeft(value, old, n) == Wrap(value * Power[n]) + (old % Power[n])
MergeRight(value, old, n) == (value \div Power[n]) + (old - (old % Power[4 - n]))

LoadCases(i, value, old) ==
    IF i.op = "LWL"
    THEN <<MergeLeft(value, old, 3), MergeLeft(value, old, 2), MergeLeft(value, old, 1), value>>
    ELSE <<value, MergeRight(value, old, 1), MergeRight(value, old, 2), MergeRight(value, old, 3)>>

StoreCases(i, value, old) ==
    IF i.op = "SWL"
    THEN <<MergeRight(value, old, 3), MergeRight(value, old, 2), MergeRight(value, old, 1), value>>
    ELSE <<value, MergeLeft(value, old, 1), MergeLeft(value, old, 2), MergeLeft(value, old, 3)>>

LoweredLoad(i, n, value, byte) ==
    CASE i.op = "LB" -> SignExtend(value, Base)
      [] i.op = "LH" -> SignExtend(value, Half)
      [] i.op \in {"LWL", "LWR"} -> SelectByteCase(byte, LoadCases(i, value, Value(n, i.rt)))
      [] OTHER -> value

LoweredStore(i, n, value, byte) ==
    IF i.op \in {"SWL", "SWR"}
    THEN SelectByteCase(byte, StoreCases(i, Value(n, i.rt), value))
    ELSE Value(n, i.rt)

\* The code of an access that stays in RAM or the framebuffer.
LowerMemoryInstruction(i, m) ==
    LET n == Fetch(m, Sources(i))
        place == LoweredPlace(i, m)
        byte == LoweredAddress(i, m) % 4
        value == ReadAt(n.memory, place, Width(i))
    IN  IF i.op \in Loads
        THEN WriteRegister(n, i.rt, LoweredLoad(i, n, value, byte))
        ELSE LET stored == [n EXCEPT !.memory =
                              WriteAt(@, place, Width(i), LoweredStore(i, n, value, byte))]
             IN  IF i.op = "SC" THEN WriteRegister(stored, i.rt, 1) ELSE stored

(***************************************************************************)
(* The block.                                                              *)
(***************************************************************************)
Pc == Wrap(start + 4 * index)
Running == exit = None
Here == block[index + 1]
AtEnd == index = Len(block)

Flushed(n) ==
    [n EXCEPT !.registers = [x \in Registers |->
        IF x # 0 /\ n.dirty[x] THEN n.values[x] ELSE n.registers[x]]]

EmitExit(n, pc, completed) ==
    /\ native' = Flushed(n)
    /\ exit' = [pc |-> pc, completed |-> completed]

Init ==
    /\ block \in Blocks
    /\ index = 0
    /\ exit = None
    /\ \E s \in Starts :
          /\ start = s.pc
          /\ native = [registers |-> s.r, memory |-> s.memory,
                       values |-> [x \in Registers |-> None],
                       dirty |-> [x \in Registers |-> FALSE]]
          /\ cpu = [r |-> s.r, pc |-> s.pc, branch_delay |-> FALSE, branch_target |-> 0,
                    count |-> 0, memory |-> s.memory]

Continue ==
    /\ index' = index + 1
    /\ UNCHANGED <<block, start, exit>>

RegisterStep ==
    /\ Running /\ ~AtEnd
    /\ Here.op \in RegisterInstructions
    /\ native' = LowerRegisterInstruction(Here, native)
    /\ cpu' = Step(Here, cpu)
    /\ Continue

MemoryStep ==
    /\ Running /\ ~AtEnd
    /\ Here.op \in MemoryInstructions
    /\ LoweredPlace(Here, native) # Elsewhere
    /\ native' = LowerMemoryInstruction(Here, native)
    /\ cpu' = Step(Here, cpu)
    /\ Continue

\* The slow path of an access: the block returns before the instruction.
BailOut ==
    /\ Running /\ ~AtEnd
    /\ Here.op \in MemoryInstructions
    /\ LoweredPlace(Here, native) = Elsewhere
    /\ EmitExit(Fetch(native, Sources(Here)), Pc, index)
    /\ UNCHANGED <<block, start, index, cpu>>

\* A branch is compiled together with its delay slot, and only when that holds
\* a register instruction.
BranchFits ==
    /\ Here.op \in LowerableBranch
    /\ index + 1 < Len(block)
    /\ block[index + 2].op \in RegisterInstructions

BranchStep ==
    /\ Running /\ ~AtEnd
    /\ BranchFits
    /\ LET branch == LowerBranch(Here, native, Pc)
           delay == block[index + 2]
       IN  /\ EmitExit(LowerRegisterInstruction(delay, branch.native), branch.target, index + 2)
           /\ cpu' = Step(delay, Step(Here, cpu))
    /\ index' = index + 2
    /\ UNCHANGED <<block, start>>

\* The block ends before an instruction that it cannot hold.  A block without
\* an instruction is not compiled.
EndBlock ==
    /\ Running
    /\ IF AtEnd THEN TRUE ELSE ~Straight(Here) /\ ~BranchFits
    /\ index # 0
    /\ EmitExit(native, Pc, index)
    /\ UNCHANGED <<block, start, index, cpu>>

Next == RegisterStep \/ MemoryStep \/ BailOut \/ BranchStep \/ EndBlock

Spec == Init /\ [][Next]_vars

(***************************************************************************)
(* Properties                                                              *)
(***************************************************************************)
Natives == [registers : [Registers -> Words], values : [Registers -> Words \cup {None}],
            dirty : [Registers -> BOOLEAN], memory : Memories]

\* Every register, address and byte keeps the width it has in the program.
TypeOK ==
    /\ block \in Seq(Instructions)
    /\ start \in Words
    /\ index \in 0 .. Len(block)
    /\ native \in Natives
    /\ exit \in [pc : Words, completed : Nat] \cup {None}
    /\ cpu \in Cpus

\* A block leaves the machine as the interpreter does after as many
\* instructions as the block says it completed: registers, memory and pc, and
\* no branch waits for its delay slot.  This holds at the exit of a slow
\* memory access, of a branch and at the end of the block.
ExitAgrees ==
    exit # None =>
        /\ native.registers = cpu.r
        /\ native.memory = cpu.memory
        /\ exit.pc = cpu.pc
        /\ exit.completed = cpu.count
        /\ ~cpu.branch_delay

\* While the block runs, an access leaves it exactly when the interpreter finds
\* the address neither in RAM nor in the framebuffer, and otherwise goes to the
\* same byte: a store that runs over the end of a mapping must not go through.
AccessAgrees ==
    Running /\ ~AtEnd /\ Here.op \in MemoryInstructions =>
        LoweredPlace(Here, native) =
            Locate(Accessed(Here, EffectiveAddress(Here, cpu.r)), Width(Here))

\* The number of instructions that decides whether a block is worth compiling
\* is the number the compiled block holds: no exit reports more (the caller
\* compared its limit with that number), and only a slow access reports fewer.
CandidateAgrees ==
    exit # None =>
        /\ exit.completed <= CandidateInstructionCount(block)
        /\ \/ exit.completed = CandidateInstructionCount(block)
           \/ ~AtEnd /\ Here.op \in MemoryInstructions
=============================================================================
