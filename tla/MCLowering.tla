----------------------------- MODULE MCLowering -----------------------------
(***************************************************************************)
(* Bytes of four values, so words of eight bits: every address of the map, *)
(* a segment of 32, RAM of 8, four aliases of a framebuffer of 4, and the  *)
(* signed and unsigned boundaries are within reach of a few registers.     *)
(***************************************************************************)
EXTENDS Lowering

B == INSTANCE Bitwise

MCAnd(a, b) == B!&(a, b)
MCOr(a, b) == B!|(a, b)
MCXor(a, b) == B!^^(a, b)

Pow2 == <<1, 2, 4, 8, 16, 32, 64, 128, 256>>
MCShl(a, n) == (a * Pow2[n + 1]) % 256
MCShr(a, n) == a \div Pow2[n + 1]
MCSar(a, n) == ((IF a < 128 THEN a ELSE a - 256) \div Pow2[n + 1]) % 256
MCClz(a) == CHOOSE n \in 0 .. 8 : a < Pow2[9 - n] /\ (n = 8 \/ a >= Pow2[8 - n])

MCAliases == {16, 20, 144, 148}

I(op, rs, rt, rd, imm) == [op |-> op, rs |-> rs, rt |-> rt, rd |-> rd, imm |-> imm]

\* Registers that differ, that coincide, R0 and the link register.
Forms == {<<1, 2, 1>>, <<2, 1, 3>>, <<3, 3, 0>>}
Every == {I(op, f[1], f[2], f[3], imm) : op \in Operations, f \in Forms, imm \in {1, 14}}

\* What comes before: a value kept dirty, a pair, a load, a store.
Prefixes == {I("ADDIU", 1, 1, 0, 1), I("ADDU", 1, 2, 2, 0), I("MULT", 1, 2, 0, 0),
             I("LW", 0, 1, 0, 2), I("SB", 0, 2, 0, 3), I("ORI", 2, 0, 0, 3), I("LUI", 0, 3, 0, 9)}
Delays == {I("ADDIU", 1, 1, 0, 15), I("MFLO", 0, 0, 3, 0), I("MOVN", 1, 2, 3, 0),
           I("DIV", 1, 2, 0, 0), I("SLT", 3, 1, 2, 0), I("LB", 1, 2, 0, 0), I("J", 0, 0, 0, 3)}
Branches == {i \in Every : i.op \in ControlFlow}
Accesses == {I(op, rs, 2, 0, imm) : op \in MemoryInstructions, rs \in {1, 2}, imm \in {0, 1, 13}}

MCBlocks ==
    {<<i>> : i \in Every}
    \cup {<<p, i>> : p \in Prefixes, i \in Every \ Branches}
    \cup {<<b, d>> : b \in Branches, d \in Delays}
    \cup {<<p, b, d>> : p \in Prefixes, b \in Branches, d \in Delays}
    \cup {<<p, a, I("SUBU", 2, 1, 1, 0)>> : p \in Prefixes, a \in Accesses}

Bank(a, b) == <<0, a, b, 9, 200, 7>>
Banks == {Bank(3, 129), Bank(128, 255), Bank(0, 5), Bank(17, 146), Bank(255, 1), Bank(163, 21)}
MCStarts ==
    {[pc |-> IF b[2] > 100 THEN 248 ELSE 12, r |-> [x \in 0 .. 5 |-> b[x + 1]],
      memory |-> [ram |-> [x \in 0 .. 7 |-> (x + 3) % 4],
                  framebuffer |-> [x \in 0 .. 3 |-> (3 * x + 2) % 4]]] : b \in Banks}
=============================================================================
