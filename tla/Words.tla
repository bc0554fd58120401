------------------------------- MODULE Words -------------------------------
(***************************************************************************)
(* Machine words of the guest and of the code the JIT emits.  A word has   *)
(* four bytes of Base values each (the program: Base = 256); the number of *)
(* bits only matters to shifts and to the bitwise operators, which are     *)
(* constants: Rust's operators in the interpreter, Cranelift's             *)
(* instructions in a compiled block.                                       *)
(***************************************************************************)
EXTENDS Integers

CONSTANTS
    Base,           \* values of a byte
    Bits,           \* bits of a word
    And(_, _), Or(_, _), Xor(_, _),
    Shl(_, _),      \* shift left, drops the bits shifted out
    Shr(_, _),      \* shift right, fills with zeros
    Sar(_, _),      \* shift right, fills with the sign
    Clz(_)          \* number of leading zeros

Half == Base * Base                 \* values of a half word
Word == Half * Half
Words == 0 .. Word - 1

ASSUME WordAssumption ==
    /\ Base \in Nat \ {0, 1}
    /\ Bits \in Nat \ {0}
    /\ \A a, b \in Words :
          {And(a, b), Or(a, b), Xor(a, b)} \subseteq Words
    /\ \A a \in Words, n \in 0 .. Bits - 1 :
          {Shl(a, n), Shr(a, n), Sar(a, n), Clz(a)} \subseteq Words

Wrap(x) == x % Word
Truth(condition) == IF condition THEN 1 ELSE 0
Complement(a) == Word - 1 - a
Negative(a) == a >= Word \div 2
Signed(a) == IF Negative(a) THEN a - Word ELSE a

\* The size values of a narrow integer, as a word: `as i8 as i32 as u32`.
SignExtend(v, size) == IF v >= size \div 2 THEN Wrap(v - size) ELSE v

\* Rust's division rounds to zero, \div rounds down.
Magnitude(x) == IF x < 0 THEN -x ELSE x
Quotient(n, d) ==
    LET q == Magnitude(n) \div Magnitude(d)
    IN  IF (n < 0) = (d < 0) THEN q ELSE -q
Remainder(n, d) == n - d * Quotient(n, d)

\* A double word and its halves; arithmetic on it wraps at 64 bits.
Pair(high, low) == high * Word + low
HighWord(x) == Wrap(x \div Word)
LowWord(x) == Wrap(x)
=============================================================================
