---------------------------- MODULE AddressSpace ----------------------------
(***************************************************************************)
(* The part of the guest's address space that plain loads and stores       *)
(* reach: RAM, seen at its physical addresses and through the segments     *)
(* KSEG0 and KSEG1, and the LCD framebuffer behind its aliases.            *)
(* Every other address is a peripheral or a fault, which this module keeps *)
(* together as Elsewhere: memory.rs tries them after RAM and framebuffer.  *)
(***************************************************************************)
EXTENDS Words

CONSTANTS
    Segment,        \* size of a segment; KSEG0 and KSEG1 are the fifth and sixth
    RamSize, MapSize,
    Aliases         \* first addresses of the framebuffer's aliases

Widths == {1, 2, 4}

ASSUME SpaceAssumption ==
    /\ Segment \in Nat \ {0} /\ 6 * Segment <= Word
    /\ RamSize \in Nat /\ RamSize >= 4
    /\ MapSize \in Nat /\ MapSize >= 4
    /\ Aliases \subseteq Words
    /\ \A a, b \in Aliases : a # b => Wrap(a - b) >= MapSize

Translate(address) ==
    IF address \in 4 * Segment .. 5 * Segment - 1 THEN address - 4 * Segment
    ELSE IF address \in 5 * Segment .. 6 * Segment - 1 THEN address - 5 * Segment
    ELSE address

Elsewhere == [region |-> "elsewhere", offset |-> 0]
Ram(offset) == [region |-> "ram", offset |-> offset]
Framebuffer(offset) == [region |-> "framebuffer", offset |-> offset]

\* The alias whose mapping holds the first byte is the only one looked at: an
\* access that runs over its end is not in the framebuffer.
FramebufferOffset(address, alias) == Wrap(address - alias)
Mapped(address) == {a \in Aliases : FramebufferOffset(address, a) < MapSize}

Locate(address, width) ==
    IF Translate(address) + width <= RamSize THEN Ram(Translate(address))
    ELSE IF \E a \in Mapped(address) : FramebufferOffset(address, a) + width <= MapSize
    THEN Framebuffer(FramebufferOffset(address, CHOOSE a \in Mapped(address) : TRUE))
    ELSE Elsewhere

\* Little-endian values of one, two or four bytes, at an offset of a region.
Bytes(region, offset, width) ==
    CASE width = 1 -> region[offset]
      [] width = 2 -> region[offset] + Base * region[offset + 1]
      [] width = 4 -> region[offset] + Base * region[offset + 1]
                        + Half * region[offset + 2] + Half * Base * region[offset + 3]

Digit(value, k) ==
    CASE k = 0 -> value % Base
      [] k = 1 -> (value \div Base) % Base
      [] k = 2 -> (value \div Half) % Base
      [] k = 3 -> (value \div (Half * Base)) % Base

WithBytes(region, offset, width, value) ==
    [b \in DOMAIN region |->
        IF b \in offset .. offset + width - 1 THEN Digit(value, b - offset) ELSE region[b]]

Byte == 0 .. Base - 1
Memories == [ram : [0 .. RamSize - 1 -> Byte], framebuffer : [0 .. MapSize - 1 -> Byte]]

ReadAt(memory, place, width) == Bytes(memory[place.region], place.offset, width)
WriteAt(memory, place, width, value) ==
    [memory EXCEPT ![place.region] = WithBytes(@, place.offset, width, value)]
=============================================================================
