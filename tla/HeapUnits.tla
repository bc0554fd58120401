----------------------------- MODULE HeapUnits ------------------------------
(***************************************************************************)
(* The units and the requests of the guest heap                            *)
(* (crates/dingooemu-core/src/memory.rs).  Every block is a whole number   *)
(* of 4-byte words, so addresses and block sizes are counted in words; the *)
(* sizes the guest asks for are in bytes.                                  *)
(***************************************************************************)
EXTENDS Integers

CONSTANTS
  HeapBase,   \* first word of the heap (16 MB)
  RamEnd,     \* first word after RAM (RAM_SIZE)
  MaxU32,     \* u32::MAX, where the rounding of a size overflows
  Sizes,      \* byte sizes the guest asks for
  Data        \* values of a word; RAM is zeroed

ASSUME HeapAssumption ==
  /\ HeapBase \in Nat \ {0} /\ RamEnd \in Nat /\ HeapBase <= RamEnd
  /\ MaxU32 \in Nat
  /\ Sizes \subseteq 0..MaxU32
  /\ 0 \in Data

Null == 0
Pointers == HeapBase..(RamEnd - 1)

\* A size whose rounding does not overflow, and the words it takes.
Valid(size) == size > 0 /\ size + 3 <= MaxU32
Words(size) == (size + 3) \div 4

\* What the guest asks for: the function it calls and the arguments it passes.
Request(op, p, size) == [op |-> op, pointer |-> p, size |-> size]
NoRequest == Request("none", Null, 0)
Requests ==
  [op : {"none", "malloc", "free", "realloc"}, pointer : Pointers \cup {Null}, size : Sizes \cup {0}]

=============================================================================
