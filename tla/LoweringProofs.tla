--------------------------- MODULE LoweringProofs ---------------------------
(***************************************************************************)
(* Proofs that a compiled block does what the interpreter does, for every  *)
(* width of a word, every address map, every block and every state it is   *)
(* entered in.                                                             *)
(***************************************************************************)
EXTENDS Lowering, NaturalFacts, TLAPS

-----------------------------------------------------------------------------
(* Words.                                                                  *)

LEMMA WordFacts ==
  /\ Base \in Nat /\ Base >= 2
  /\ Half \in Nat /\ Half >= 4 /\ Half = Base * Base
  /\ Word \in Nat /\ Word >= 16 /\ Word = Half * Half /\ Half <= Word
<1>1. Base \in Nat /\ Base >= 2
  BY WordAssumption
<1>2. Half \in Nat /\ Half >= 4 /\ Half = Base * Base
  BY <1>1 DEF Half
<1>3. QED
  BY <1>1, <1>2 DEF Word

LEMMA WrapType ==
  ASSUME NEW x \in Int
  PROVE  Wrap(x) \in Words
BY WordFacts DEF Wrap, Words

LEMMA WrapWord ==
  ASSUME NEW x \in Words
  PROVE  Wrap(x) = x
BY WordFacts DEF Wrap, Words

\* Whole words added to a number are lost.
LEMMA WrapShift ==
  ASSUME NEW x \in Int, NEW k \in Int
  PROVE  Wrap(x + Word * k) = Wrap(x)
<1>1. Word \in Nat \ {0}
  BY WordFacts
<1>2. x = Word * (x \div Word) + (x % Word) /\ x % Word \in 0 .. Word - 1 /\ x \div Word \in Int
  BY <1>1
<1>3. x + Word * k = Word * (x \div Word + k) + (x % Word) /\ x \div Word + k \in Int
  BY <1>1, <1>2
<1>4. QED
  BY <1>1, <1>2, <1>3, QuotientUnique DEF Wrap

LEMMA WrapAdd ==
  ASSUME NEW x \in Int, NEW y \in Int
  PROVE  Wrap(Wrap(x) + y) = Wrap(x + y)
<1>1. Word \in Nat \ {0}
  BY WordFacts
<1>2. x = Word * (x \div Word) + Wrap(x) /\ Wrap(x) \in Int /\ x \div Word \in Int
  BY <1>1 DEF Wrap
<1>3. x + y = (Wrap(x) + y) + Word * (x \div Word) /\ Wrap(x) + y \in Int
  BY <1>1, <1>2
<1>4. QED
  BY <1>2, <1>3, WrapShift

LEMMA SignedFacts ==
  ASSUME NEW a \in Words
  PROVE  /\ Signed(a) \in Int /\ a \in Int
         /\ Signed(a) < 0 <=> Negative(a)
         /\ Signed(a) = 0 <=> a = 0
         /\ \E k \in {0, 1} : Signed(a) = a - Word * k
         /\ \A b \in Words : Signed(a) = Signed(b) => a = b
BY WordFacts DEF Words, Signed, Negative

LEMMA MinusOne == Word - 1 \in Words /\ Signed(Word - 1) = -1 /\ Word \div 2 \in Words
BY WordFacts DEF Words, Signed, Negative

\* The low word of a product does not depend on the signs of its factors.
LEMMA SignedProduct ==
  ASSUME NEW a \in Words, NEW b \in Words
  PROVE  Wrap(Signed(a) * Signed(b)) = Wrap(a * b)
<1>1. Word \in Nat /\ a \in Int /\ b \in Int
  BY WordFacts, SignedFacts
<1>2. PICK j \in {0, 1} : Signed(a) = a - Word * j
  BY SignedFacts
<1>3. PICK k \in {0, 1} : Signed(b) = b - Word * k
  BY SignedFacts
<1> DEFINE m == Word * j * k - a * k - b * j
<1>4. m \in Int /\ a * b \in Int
  BY <1>1
<1>5. Signed(a) * Signed(b) = a * b + Word * m
  <2>1. (a - Word * j) * (b - Word * k) = a * b + Word * m
    BY <1>1
  <2>2. QED
    BY <1>2, <1>3, <2>1
<1>6. QED
  <2> HIDE DEF m
  <2> QED BY <1>4, <1>5, WrapShift

LEMMA SignExtendType ==
  ASSUME NEW v \in Words, NEW size \in Int
  PROVE  SignExtend(v, size) \in Words
<1>1. v - size \in Int
  BY WordFacts DEF Words
<1>2. QED
  BY <1>1, WrapType DEF SignExtend

LEMMA ComplementType ==
  ASSUME NEW a \in Words
  PROVE  Complement(a) \in Words
BY WordFacts DEF Words, Complement

-----------------------------------------------------------------------------
(* The address space.                                                      *)

\* The segment number the emitted code compares is that of KSEG0 and KSEG1.
LEMMA TranslateAgrees ==
  ASSUME NEW address \in Words
  PROVE  LoweredTranslate(address) = Translate(address) /\ Translate(address) \in Nat
<1>1. Segment \in Nat \ {0} /\ address \in Nat
  BY WordFacts, SpaceAssumption DEF Words
<1>2. address = Segment * (address \div Segment) + (address % Segment)
      /\ address % Segment \in 0 .. Segment - 1 /\ address \div Segment \in Int
  BY <1>1
<1>3. CASE address \in 4 * Segment .. 5 * Segment - 1
  <2>1. address = Segment * 4 + (address - 4 * Segment)
        /\ address - 4 * Segment \in 0 .. Segment - 1
    BY <1>1, <1>3
  <2>2. address \div Segment = 4 /\ address % Segment = address - 4 * Segment
    BY <1>1, <2>1, QuotientUnique
  <2>3. QED
    BY <1>3, <2>1, <2>2 DEF LoweredTranslate, Translate
<1>4. CASE address \in 5 * Segment .. 6 * Segment - 1
  <2>1. address = Segment * 5 + (address - 5 * Segment)
        /\ address - 5 * Segment \in 0 .. Segment - 1
    BY <1>1, <1>4
  <2>2. address \div Segment = 5 /\ address % Segment = address - 5 * Segment
    BY <1>1, <2>1, QuotientUnique
  <2>3. ~(address \in 4 * Segment .. 5 * Segment - 1)
    BY <1>1, <1>4
  <2>4. QED
    BY <1>4, <2>1, <2>2, <2>3 DEF LoweredTranslate, Translate
<1>5. CASE /\ ~(address \in 4 * Segment .. 5 * Segment - 1)
           /\ ~(address \in 5 * Segment .. 6 * Segment - 1)
  <2>1. address \div Segment # 4
    BY <1>1, <1>2, <1>5
  <2>2. address \div Segment # 5
    BY <1>1, <1>2, <1>5
  <2>3. QED
    BY <1>1, <1>5, <2>1, <2>2 DEF LoweredTranslate, Translate
<1>6. QED
  BY <1>3, <1>4, <1>5

\* Two mappings of the framebuffer hold no address in common.
LEMMA OneAlias ==
  ASSUME NEW address \in Words, NEW a \in Mapped(address), NEW b \in Mapped(address)
  PROVE  a = b
<1>1. /\ Word \in Nat \ {0} /\ address \in 0 .. Word - 1
      /\ a \in 0 .. Word - 1 /\ b \in 0 .. Word - 1 /\ MapSize \in Nat
      /\ a \in Aliases /\ b \in Aliases
      /\ (address - a) % Word < MapSize /\ (address - b) % Word < MapSize
  BY WordFacts, SpaceAssumption DEF Words, Mapped, FramebufferOffset, Wrap
<1>2. ASSUME NEW x \in 0 .. Word - 1, NEW y \in 0 .. Word - 1
      PROVE  (x - y) % Word = IF x >= y THEN x - y ELSE x - y + Word
  <2>1. CASE x >= y
    BY <1>1, <1>2, <2>1
  <2>2. CASE x < y
    <3> DEFINE r == x - y + Word
    <3>1. x - y = Word * (-1) + r /\ r \in 0 .. Word - 1 /\ -1 \in Int
      BY <1>1, <1>2, <2>2
    <3>2. (Word * (-1) + r) % Word = r
      <4> HIDE DEF r
      <4> QED BY <1>1, <3>1, QuotientUnique
    <3>3. QED
      BY <2>2, <3>1, <3>2
  <2>3. QED
    BY <1>1, <2>1, <2>2
<1>3. a # b => (a - b) % Word >= MapSize /\ (b - a) % Word >= MapSize
  BY <1>1, SpaceAssumption DEF Wrap
<1>4. QED
  BY <1>1, <1>2, <1>3

\* The emitted code goes to the byte the interpreter goes to.
LEMMA LocateAgrees ==
  ASSUME NEW address \in Words, NEW width \in Widths
  PROVE  LoweredLocate(address, width) = Locate(address, width)
<1>1. /\ LoweredTranslate(address) = Translate(address) /\ Translate(address) \in Nat
      /\ RamSize \in Nat /\ MapSize \in Nat /\ width \in Nat /\ width >= 1
  BY TranslateAgrees, SpaceAssumption DEF Widths
<1>2. \A a \in Aliases : Wrap(address - a) \in Nat
  <2>1. \A a \in Aliases : address - a \in Int
    BY WordFacts, SpaceAssumption DEF Words
  <2>2. QED
    BY <2>1, WrapType, WordFacts DEF Words
<1>3. LoweredAliases(address, width) =
        {a \in Mapped(address) : FramebufferOffset(address, a) + width <= MapSize}
  BY <1>1, <1>2 DEF LoweredAliases, Mapped, FramebufferOffset
<1>4. (LoweredTranslate(address) <= RamSize - width) = (Translate(address) + width <= RamSize)
  BY <1>1
<1>5. CASE LoweredAliases(address, width) = {}
  BY <1>1, <1>3, <1>4, <1>5 DEF LoweredLocate, Locate
<1>6. CASE LoweredAliases(address, width) # {}
  <2>1. PICK a \in LoweredAliases(address, width) : TRUE
    BY <1>6
  <2>2. a \in Mapped(address) /\ FramebufferOffset(address, a) + width <= MapSize
    BY <1>3, <2>1
  <2>3. \A x \in Mapped(address) : x = a
    BY <2>2, OneAlias
  <2>4. (CHOOSE x \in Mapped(address) : TRUE) = a
    BY <2>2, <2>3
  <2>5. (CHOOSE x \in LoweredAliases(address, width) : TRUE) = a
    BY <1>3, <2>1, <2>3
  <2>6. QED
    BY <1>1, <1>4, <1>6, <2>2, <2>4, <2>5 DEF LoweredLocate, Locate, FramebufferOffset
<1>7. QED
  BY <1>5, <1>6

\* A place that holds all the bytes of an access.
Place(p, width) ==
  /\ p.offset \in Nat
  /\ \/ p.region = "ram" /\ p.offset + width <= RamSize
     \/ p.region = "framebuffer" /\ p.offset + width <= MapSize

LEMMA LocateType ==
  ASSUME NEW address \in Words, NEW width \in Widths, Locate(address, width) # Elsewhere
  PROVE  Place(Locate(address, width), width)
<1>1. Translate(address) \in Nat /\ width \in Nat
  BY TranslateAgrees DEF Widths
<1>2. CASE Translate(address) + width <= RamSize
  BY <1>1, <1>2 DEF Locate, Place, Ram
<1>3. CASE ~(Translate(address) + width <= RamSize)
  <2>1. PICK a \in Mapped(address) : FramebufferOffset(address, a) + width <= MapSize
    BY <1>3 DEF Locate
  <2>2. (CHOOSE x \in Mapped(address) : TRUE) = a
    BY OneAlias
  <2>3. FramebufferOffset(address, a) \in Nat
    <3>1. address - a \in Int
      BY WordFacts, SpaceAssumption DEF Words, Mapped
    <3>2. QED
      BY <3>1, WrapType DEF FramebufferOffset, Words
  <2>4. QED
    BY <1>3, <2>1, <2>2, <2>3 DEF Locate, Place, Framebuffer
<1>4. QED
  BY <1>2, <1>3

LEMMA RegionType ==
  ASSUME NEW memory \in Memories, NEW width \in Widths, NEW p, Place(p, width)
  PROVE  \E size \in Nat : /\ memory[p.region] \in [0 .. size - 1 -> Byte]
                           /\ p.offset \in Nat /\ p.offset + width <= size
BY SpaceAssumption DEF Memories, Place

\* The value of up to four bytes is a word.
LEMMA BytesType ==
  ASSUME NEW size \in Nat, NEW region \in [0 .. size - 1 -> Byte], NEW width \in Widths,
         NEW offset \in Nat, offset + width <= size
  PROVE  Bytes(region, offset, width) \in Words
<1>1. /\ Base \in Nat /\ Base >= 2 /\ Half = Base * Base /\ Word = Half * Half
      /\ Half \in Nat /\ Word \in Nat /\ Base <= Half /\ Half <= Word
  BY WordFacts
<1>2. \A k \in 0 .. width - 1 : region[offset + k] \in 0 .. Base - 1
  BY DEF Byte, Widths
<1> DEFINE b(k) == region[offset + k]
<1>3. CASE width = 1
  <2>1. region[offset] \in 0 .. Base - 1
    BY <1>2, <1>3
  <2>2. QED
    BY <1>1, <1>3, <2>1 DEF Bytes, Words
<1>4. ASSUME NEW x \in 0 .. Base - 1, NEW y \in 0 .. Base - 1
      PROVE  x + Base * y \in 0 .. Half - 1
  <2>1. Base * y \in Int /\ Base * y <= Base * (Base - 1) /\ Base * y >= 0
    BY <1>1, <1>4
  <2>2. QED
    BY <1>1, <1>4, <2>1
<1>5. CASE width = 2
  <2>1. region[offset] \in 0 .. Base - 1 /\ region[offset + 1] \in 0 .. Base - 1
    BY <1>2, <1>5
  <2>2. region[offset] + Base * region[offset + 1] \in 0 .. Half - 1
    BY <1>4, <2>1
  <2>3. QED
    BY <1>1, <1>5, <2>2 DEF Bytes, Words
<1>6. CASE width = 4
  <2>1. /\ region[offset] \in 0 .. Base - 1 /\ region[offset + 1] \in 0 .. Base - 1
        /\ region[offset + 2] \in 0 .. Base - 1 /\ region[offset + 3] \in 0 .. Base - 1
    BY <1>2, <1>6
  <2> DEFINE low == region[offset] + Base * region[offset + 1]
             high == region[offset + 2] + Base * region[offset + 3]
  <2>2. low \in 0 .. Half - 1 /\ high \in 0 .. Half - 1
    BY <1>4, <2>1
  <2>3. Bytes(region, offset, width) = low + Half * high
    <3>1. Half * (region[offset + 2] + Base * region[offset + 3])
            = Half * region[offset + 2] + Half * Base * region[offset + 3]
      BY <1>1, <2>1
    <3>2. /\ Half * region[offset + 2] \in Int /\ Half * Base * region[offset + 3] \in Int
          /\ Base * region[offset + 1] \in Int
      BY <1>1, <2>1
    <3>3. QED
      BY <1>6, <2>1, <3>1, <3>2 DEF Bytes
  <2> HIDE DEF low, high
  <2>4. Half * high \in Int /\ Half * high <= Half * (Half - 1) /\ Half * high >= 0
    BY <1>1, <2>2
  <2>5. low + Half * high \in 0 .. Word - 1
    BY <1>1, <2>2, <2>4
  <2>6. QED
    BY <2>3, <2>5 DEF Words
<1>7. QED
  BY <1>3, <1>5, <1>6 DEF Widths

LEMMA ReadType ==
  ASSUME NEW memory \in Memories, NEW width \in Widths, NEW p, Place(p, width)
  PROVE  ReadAt(memory, p, width) \in Words
BY RegionType, BytesType DEF ReadAt

LEMMA DigitType ==
  ASSUME NEW value \in Int, NEW k \in 0 .. 3
  PROVE  Digit(value, k) \in Byte
<1>1. Base \in Nat \ {0} /\ Half \in Nat \ {0} /\ Half * Base \in Nat \ {0}
  BY WordFacts
<1>2. value \div Base \in Int /\ value \div Half \in Int /\ value \div (Half * Base) \in Int
  BY <1>1
<1>3. \A x \in Int : x % Base \in Byte
  BY <1>1 DEF Byte
<1>4. QED
  BY <1>2, <1>3 DEF Digit

LEMMA WriteType ==
  ASSUME NEW memory \in Memories, NEW width \in Widths, NEW p, Place(p, width),
         NEW value \in Int
  PROVE  WriteAt(memory, p, width, value) \in Memories
<1>1. ASSUME NEW size \in Nat, NEW region \in [0 .. size - 1 -> Byte], NEW offset \in Nat
      PROVE  WithBytes(region, offset, width, value) \in [0 .. size - 1 -> Byte]
  <2>1. ASSUME NEW b \in 0 .. size - 1, b \in offset .. offset + width - 1
        PROVE  b - offset \in 0 .. 3
    BY <2>1 DEF Widths
  <2>2. QED
    BY <2>1, DigitType DEF WithBytes
<1>2. RamSize \in Nat /\ MapSize \in Nat /\ p.offset \in Nat
  BY SpaceAssumption DEF Place
<1>3. CASE p.region = "ram"
  BY <1>1, <1>2, <1>3 DEF WriteAt, Memories
<1>4. CASE p.region = "framebuffer"
  BY <1>1, <1>2, <1>4 DEF WriteAt, Memories
<1>5. QED
  BY <1>3, <1>4 DEF Place

-----------------------------------------------------------------------------
(* Registers, in memory and in values.                                     *)

RegistersOK(r) == r \in [Registers -> Words] /\ r[0] = 0

\* Memory and values together are the registers r of the interpreter: a value
\* is that of its register, and one that memory does not have is dirty.
Agrees(n, r) ==
  /\ n \in Natives /\ ~n.dirty[0]
  /\ \A x \in Registers :
       /\ n.values[x] # None => n.values[x] = r[x]
       /\ n.dirty[x] => n.values[x] # None
       /\ ~n.dirty[x] => n.registers[x] = r[x]

LEMMA RegisterFacts ==
  /\ 0 \in Registers /\ HI \in Registers \ {0} /\ LO \in Registers \ {0} /\ HI # LO
  /\ Link \in 0 .. Link /\ Link # 0 /\ 0 .. Link \subseteq Registers
  /\ HI \notin 0 .. Link /\ LO \notin 0 .. Link
BY MipsAssumption DEF HI, LO, Link, Registers

LEMMA InstructionFacts ==
  ASSUME NEW i \in Instructions
  PROVE  /\ i.rs \in 0 .. Link /\ i.rt \in 0 .. Link /\ i.rd \in 0 .. Link
         /\ i.rs \in Registers /\ i.rt \in Registers /\ i.rd \in Registers
         /\ i.op \in Operations /\ i.imm \in Words /\ i.imm \in Nat
         /\ SignedImmediate(i) \in Words /\ UpperImmediate(i) \in Words
<1>1. /\ i.rs \in 0 .. Link /\ i.rt \in 0 .. Link /\ i.rd \in 0 .. Link
      /\ i.op \in Operations /\ i.imm \in 0 .. Half - 1
  BY DEF Instructions
<1>2. i.imm \in Words /\ i.imm \in Nat /\ Half \in Int /\ i.imm * Half \in Int
  BY <1>1, WordFacts DEF Words
<1>3. SignedImmediate(i) \in Words /\ UpperImmediate(i) \in Words
  BY <1>2, SignExtendType, WrapType DEF SignedImmediate, UpperImmediate
<1>4. QED
  BY <1>1, <1>2, <1>3, RegisterFacts

LEMMA WordsNotNone == None \notin Words
BY LoweringAssumption

\* Loading registers at their first use loads what the interpreter has.
LEMMA FetchAgrees ==
  ASSUME NEW r, RegistersOK(r), NEW n, Agrees(n, r), NEW S \in SUBSET Registers
  PROVE  /\ Agrees(Fetch(n, S), r)
         /\ Fetch(n, S).memory = n.memory
         /\ \A x \in S : Value(Fetch(n, S), x) = r[x]
         /\ \A x \in S \ {0} : Fetch(n, S).values[x] = r[x]
         /\ \A x \in Registers : n.values[x] # None => Fetch(n, S).values[x] = r[x]
<1> DEFINE new == [x \in Registers |->
                     IF x \in S \ {0} /\ n.values[x] = None THEN n.registers[x] ELSE n.values[x]]
           f == Fetch(n, S)
<1>1. n \in Natives
  BY DEF Agrees
<1>2. /\ f.values = new /\ f.registers = n.registers /\ f.dirty = n.dirty
      /\ f.memory = n.memory
      /\ new \in [Registers -> Words \cup {None}] => f \in Natives
  BY <1>1 DEF Fetch, Natives
<1>3. /\ n.registers \in [Registers -> Words]
      /\ n.values \in [Registers -> Words \cup {None}]
      /\ n.dirty \in [Registers -> BOOLEAN]
  BY <1>1 DEF Natives
<1>4. new \in [Registers -> Words \cup {None}]
  BY <1>3
<1>5. \A x \in Registers : r[x] \in Words /\ r[x] # None
  BY WordsNotNone DEF RegistersOK
<1>6. \A x \in Registers :
        /\ new[x] # None => new[x] = r[x]
        /\ n.dirty[x] => new[x] # None
        /\ x \in S \ {0} => new[x] = r[x]
        /\ n.values[x] # None => new[x] = r[x]
  <2>1. \A x \in Registers :
          /\ n.values[x] # None => n.values[x] = r[x]
          /\ n.dirty[x] => n.values[x] # None
          /\ ~n.dirty[x] => n.registers[x] = r[x]
    BY DEF Agrees
  <2>2. QED
    BY <1>5, <2>1
<1> HIDE DEF new, f
<1>7. Agrees(f, r)
  BY <1>2, <1>4, <1>6 DEF Agrees
<1>8. \A x \in S : Value(f, x) = r[x]
  BY <1>2, <1>6 DEF Value, RegistersOK
<1>9. QED
  BY <1>2, <1>6, <1>7, <1>8 DEF f

\* A write changes the same register on both sides.
LEMMA WriteSpecialAgrees ==
  ASSUME NEW r, RegistersOK(r), NEW n, Agrees(n, r),
         NEW x \in Registers \ {0}, NEW v \in Words
  PROVE  /\ Agrees(WriteSpecialRegister(n, x, v), [r EXCEPT ![x] = v])
         /\ RegistersOK([r EXCEPT ![x] = v])
         /\ WriteSpecialRegister(n, x, v).memory = n.memory
         /\ WriteSpecialRegister(n, x, v).values[x] = v
         /\ \A y \in Registers \ {x} :
              WriteSpecialRegister(n, x, v).values[y] = n.values[y]
<1> DEFINE w == WriteSpecialRegister(n, x, v)
           s == [r EXCEPT ![x] = v]
<1>1. n \in Natives
  BY DEF Agrees
<1>2. /\ n.registers \in [Registers -> Words]
      /\ n.values \in [Registers -> Words \cup {None}]
      /\ n.dirty \in [Registers -> BOOLEAN]
  BY <1>1 DEF Natives
<1>3. /\ w.registers = n.registers /\ w.memory = n.memory
      /\ w.values = [n.values EXCEPT ![x] = v] /\ w.dirty = [n.dirty EXCEPT ![x] = TRUE]
      /\ w \in Natives
  BY <1>1 DEF WriteSpecialRegister, Natives
<1>4. RegistersOK(s) /\ s[x] = v /\ \A y \in Registers : y # x => s[y] = r[y]
  BY RegisterFacts DEF RegistersOK
<1>5. \A y \in Registers :
        /\ w.values[y] = IF y = x THEN v ELSE n.values[y]
        /\ w.dirty[y] = IF y = x THEN TRUE ELSE n.dirty[y]
  BY <1>2, <1>3
<1> HIDE DEF w, s
<1>6. Agrees(w, s)
  BY <1>3, <1>4, <1>5, RegisterFacts, WordsNotNone DEF Agrees
<1>7. QED
  BY <1>3, <1>4, <1>5, <1>6 DEF w, s

LEMMA WriteAgrees ==
  ASSUME NEW r, RegistersOK(r), NEW n, Agrees(n, r),
         NEW x \in 0 .. Link, NEW v \in Words
  PROVE  /\ Agrees(WriteRegister(n, x, v), Write(r, x, v))
         /\ RegistersOK(Write(r, x, v))
         /\ WriteRegister(n, x, v).memory = n.memory
<1>1. CASE x = 0
  BY <1>1 DEF WriteRegister, Write
<1>2. CASE x # 0
  BY <1>2, RegisterFacts, WriteSpecialAgrees DEF WriteRegister, Write
<1>3. QED
  BY <1>1, <1>2

LEMMA SourcesType ==
  ASSUME NEW i \in Instructions
  PROVE  Sources(i) \subseteq Registers
BY InstructionFacts, RegisterFacts DEF Sources

\* What an exit stores is the registers of the interpreter.
LEMMA FlushedAgrees ==
  ASSUME NEW r, RegistersOK(r), NEW n, Agrees(n, r)
  PROVE  /\ Flushed(n).registers = r /\ Flushed(n).memory = n.memory
         /\ Flushed(n) \in Natives
<1> DEFINE new == [x \in Registers |->
                     IF x # 0 /\ n.dirty[x] THEN n.values[x] ELSE n.registers[x]]
<1>1. n \in Natives
  BY DEF Agrees
<1>2. \A x \in Registers : new[x] = r[x]
  BY DEF Agrees
<1>3. new = r /\ new \in [Registers -> Words]
  BY <1>2 DEF RegistersOK
<1>4. Flushed(n) = [n EXCEPT !.registers = new]
  BY DEF Flushed
<1>5. QED
  <2> HIDE DEF new
  <2> QED BY <1>1, <1>3, <1>4 DEF Natives

-----------------------------------------------------------------------------
(* Register instructions.                                                  *)

\* The instructions whose result is one word.
OneWord == UNION {Shifts, VariableShifts, Arithmetic, Moves, Counts, Immediates}

\* The emitted code has read what the instruction reads.
Ready(i, n, r) ==
  /\ \A x \in Sources(i) : Value(n, x) = r[x]
  /\ \A x \in Sources(i) \ {0} : n.values[x] = r[x]

LEMMA OneWordKinds ==
  ASSUME NEW i \in Instructions, i.op \in OneWord
  PROVE  \/ i.op \in Shifts
         \/ i.op \in VariableShifts
         \/ i.op \in {"ADD", "ADDU", "SUB", "SUBU"}
         \/ i.op \in {"AND", "OR", "XOR", "NOR"}
         \/ i.op \in {"SLT", "SLTU", "MUL"}
         \/ i.op \in {"MOVZ", "MOVN"}
         \/ i.op \in {"MFHI", "MFLO"}
         \/ i.op \in Counts
         \/ i.op \in {"ADDI", "ADDIU", "SLTI", "SLTIU"}
         \/ i.op \in {"ANDI", "ORI", "XORI", "LUI"}
BY DEF OneWord, Arithmetic, Moves, Immediates

LEMMA ResultAgrees ==
  ASSUME NEW r, RegistersOK(r), NEW i \in Instructions, i.op \in OneWord,
         NEW n, Ready(i, n, r)
  PROVE  LoweredResult(i, n) = IF Writes(i, r) THEN Result(i, r) ELSE r[i.rd]
<1>0. /\ r[i.rs] \in Words /\ r[i.rt] \in Words /\ r[i.rd] \in Words
      /\ SignedImmediate(i) \in Words
  BY InstructionFacts DEF RegistersOK
<1>1. CASE i.op \in Shifts
  <2>1. Sources(i) = {i.rt} /\ Writes(i, r)
    BY <1>1 DEF Sources, Writes, VariableShifts, Shifts, Pairs, Idle, Arithmetic, Counts,
                Immediates, Stores
  <2>2. Value(n, i.rt) = r[i.rt]
    BY <2>1 DEF Ready
  <2>3. QED
    BY <1>1, <2>1, <2>2 DEF LoweredResult, Result, Amount, Shifts
<1>2. CASE i.op \in VariableShifts
  <2>1. Sources(i) = {i.rs, i.rt} /\ Writes(i, r)
    BY <1>2 DEF Sources, Writes, VariableShifts, Shifts, Pairs, Idle
  <2>2. Value(n, i.rt) = r[i.rt] /\ Value(n, i.rs) = r[i.rs]
    BY <2>1 DEF Ready
  <2>3. QED
    BY <1>2, <2>1, <2>2 DEF LoweredResult, Result, Amount, Shifts, VariableShifts
<1>3. CASE i.op \in {"ADD", "ADDU", "SUB", "SUBU"} \cup {"AND", "OR", "XOR", "NOR"}
                      \cup {"SLT", "SLTU", "MUL"}
  <2>1. Sources(i) = {i.rs, i.rt} /\ Writes(i, r)
    BY <1>3 DEF Sources, Writes, VariableShifts, Shifts, Pairs, Idle, Arithmetic
  <2>2. Value(n, i.rt) = r[i.rt] /\ Value(n, i.rs) = r[i.rs]
    BY <2>1 DEF Ready
  <2>3. Operand(i, r) = r[i.rt]
    BY <1>3 DEF Operand, Immediates
  <2>4. CASE i.op \in {"ADD", "ADDU", "SUB", "SUBU"}
    BY <2>1, <2>2, <2>3, <2>4 DEF LoweredResult, Result
  <2>5. CASE i.op \in {"AND", "OR", "XOR", "NOR"}
    BY <2>1, <2>2, <2>3, <2>5 DEF LoweredResult, Result
  <2>6. CASE i.op \in {"SLT", "SLTU"}
    BY <2>1, <2>2, <2>3, <2>6 DEF LoweredResult, Result
  <2>7. CASE i.op = "MUL"
    <3>1. Wrap(Signed(r[i.rs]) * Signed(r[i.rt])) = Wrap(r[i.rs] * r[i.rt])
      BY <1>0, SignedProduct
    <3>2. QED
      BY <2>1, <2>2, <2>3, <2>7, <3>1 DEF LoweredResult, Result
  <2>8. QED
    BY <1>3, <2>4, <2>5, <2>6, <2>7
<1>4. CASE i.op \in {"MOVZ", "MOVN"}
  <2>1. Sources(i) = {i.rs, i.rt, i.rd}
    BY <1>4 DEF Sources, Writes, VariableShifts, Shifts, Pairs, Idle, Arithmetic, Counts,
                Immediates, Stores
  <2>2. Value(n, i.rt) = r[i.rt] /\ Value(n, i.rs) = r[i.rs] /\ Value(n, i.rd) = r[i.rd]
    BY <2>1 DEF Ready
  <2>3. /\ Writes(i, r) <=> (IF i.op = "MOVZ" THEN r[i.rt] = 0 ELSE r[i.rt] # 0)
        /\ Result(i, r) = r[i.rs]
    BY <1>4 DEF Writes, Result, Shifts, VariableShifts, Arithmetic, Counts, Immediates
  <2>4. QED
    BY <1>4, <2>2, <2>3 DEF LoweredResult
<1>5. CASE i.op \in {"MFHI", "MFLO"}
  <2>1. Sources(i) = {IF i.op = "MFHI" THEN HI ELSE LO} /\ Writes(i, r)
    BY <1>5 DEF Sources, Writes, VariableShifts, Shifts, Pairs, Idle, Arithmetic, Counts,
                Immediates, Stores
  <2>2. n.values[IF i.op = "MFHI" THEN HI ELSE LO] = r[IF i.op = "MFHI" THEN HI ELSE LO]
    BY <2>1, RegisterFacts DEF Ready
  <2>3. QED
    BY <1>5, <2>1, <2>2 DEF LoweredResult, Result
<1>6. CASE i.op \in Counts \cup {"ADDI", "ADDIU", "SLTI", "SLTIU"} \cup {"ANDI", "ORI", "XORI"}
  <2>1. Sources(i) = {i.rs} /\ Writes(i, r)
    BY <1>6 DEF Sources, Writes, VariableShifts, Shifts, Pairs, Idle, Arithmetic, Counts,
                Immediates, Stores
  <2>2. Value(n, i.rs) = r[i.rs]
    BY <2>1 DEF Ready
  <2>3. QED
    BY <1>6, <2>1, <2>2 DEF LoweredResult, Result, Operand, Immediates, Counts
<1>7. CASE i.op = "LUI"
  BY <1>7 DEF LoweredResult, Result, Writes, Immediates
<1>8. QED
  BY <1>1, <1>2, <1>3, <1>4, <1>5, <1>6, <1>7, OneWordKinds

LEMMA ResultType ==
  ASSUME NEW r, RegistersOK(r), NEW i \in Instructions, i.op \in OneWord
  PROVE  Result(i, r) \in Words
<1>0. /\ r[i.rs] \in Words /\ r[i.rt] \in Words /\ r[HI] \in Words /\ r[LO] \in Words
      /\ SignedImmediate(i) \in Words /\ UpperImmediate(i) \in Words /\ i.imm \in Words
  BY InstructionFacts, RegisterFacts DEF RegistersOK
<1>1. Operand(i, r) \in Words
  BY <1>0 DEF Operand
<1>2. Amount(i, r) \in 0 .. Bits - 1
  <2>1. i.imm \in Int /\ r[i.rs] \in Int /\ Bits \in Nat \ {0}
    BY <1>0, WordFacts, WordAssumption DEF Words
  <2>2. QED
    BY <2>1 DEF Amount
<1>3. 0 \in Words /\ 1 \in Words
  BY WordFacts DEF Words
<1>4. \A a, b \in Words : /\ And(a, b) \in Words /\ Or(a, b) \in Words
                          /\ Xor(a, b) \in Words /\ Complement(Or(a, b)) \in Words
  <2>1. \A a, b \in Words : /\ And(a, b) \in Words /\ Or(a, b) \in Words
                            /\ Xor(a, b) \in Words
    BY WordAssumption
  <2>2. QED
    BY <2>1, ComplementType
<1>5. \A a \in Words, k \in 0 .. Bits - 1 :
        Shl(a, k) \in Words /\ Shr(a, k) \in Words /\ Sar(a, k) \in Words /\ Clz(a) \in Words
  BY WordAssumption
<1>6. \A a, b \in Words : /\ Wrap(a + b) \in Words /\ Wrap(a - b) \in Words
                          /\ Wrap(Signed(a) * Signed(b)) \in Words
  <2>1. \A a, b \in Words : a + b \in Int /\ a - b \in Int /\ Signed(a) * Signed(b) \in Int
    BY WordFacts, SignedFacts DEF Words
  <2>2. QED
    BY <2>1, WrapType
<1>7. \A a \in Words : Clz(a) \in Words
  BY <1>2, <1>5
<1>8. CASE i.op \in Shifts \cup VariableShifts
  BY <1>0, <1>2, <1>5, <1>8 DEF Result, Shifts, VariableShifts
<1>9. CASE i.op \in {"ADD", "ADDU", "SUB", "SUBU", "ADDI", "ADDIU", "MUL"}
  BY <1>0, <1>1, <1>6, <1>9 DEF Result
<1>10. CASE i.op \in {"AND", "OR", "XOR", "NOR", "ANDI", "ORI", "XORI"}
  BY <1>0, <1>1, <1>4, <1>10 DEF Result
<1>11. CASE i.op \in {"SLT", "SLTI", "SLTU", "SLTIU"}
  BY <1>3, <1>11 DEF Result, Truth
<1>12. CASE i.op \in Counts
  BY <1>0, <1>7, <1>12, ComplementType DEF Result, Counts
<1>13. CASE i.op \in {"LUI", "MFHI", "MFLO", "MOVZ", "MOVN"}
  BY <1>0, <1>13 DEF Result
<1>14. QED
  BY <1>8, <1>9, <1>10, <1>11, <1>12, <1>13, OneWordKinds

\* HI and LO are written together.
LEMMA PairAgrees ==
  ASSUME NEW r, RegistersOK(r), NEW n, Agrees(n, r), NEW low \in Words, NEW high \in Words
  PROVE  /\ Agrees(WriteSpecialRegister(WriteSpecialRegister(n, LO, low), HI, high),
                   [r EXCEPT ![LO] = low, ![HI] = high])
         /\ RegistersOK([r EXCEPT ![LO] = low, ![HI] = high])
         /\ WriteSpecialRegister(WriteSpecialRegister(n, LO, low), HI, high).memory = n.memory
<1> DEFINE one == WriteSpecialRegister(n, LO, low)
           s == [r EXCEPT ![LO] = low]
<1>1. HI \in Registers \ {0} /\ LO \in Registers \ {0}
  BY RegisterFacts
<1>2. Agrees(one, s) /\ RegistersOK(s) /\ one.memory = n.memory
  BY <1>1, WriteSpecialAgrees
<1>3. [r EXCEPT ![LO] = low, ![HI] = high] = [s EXCEPT ![HI] = high]
  OBVIOUS
<1>4. QED
  <2> HIDE DEF one, s
  <2>1. /\ Agrees(WriteSpecialRegister(one, HI, high), [s EXCEPT ![HI] = high])
        /\ RegistersOK([s EXCEPT ![HI] = high])
        /\ WriteSpecialRegister(one, HI, high).memory = one.memory
    BY <1>1, <1>2, WriteSpecialAgrees
  <2>2. QED
    BY <1>2, <1>3, <2>1 DEF one

LEMMA DivisionTypes ==
  ASSUME NEW a \in Words, NEW d \in Words, d # 0
  PROVE  /\ Quotient(Signed(a), Signed(d)) \in Int
         /\ Remainder(Signed(a), Signed(d)) \in Int
         /\ a \div d \in Words /\ a % d \in Words
<1>1. /\ Signed(a) \in Int /\ Signed(d) \in Int /\ Signed(d) # 0
      /\ a \in Nat /\ d \in Nat \ {0} /\ a < Word /\ Word \in Nat
  BY SignedFacts, WordFacts DEF Words
<1>2. \A x \in Int, y \in Int : y # 0 => Magnitude(x) \in Int /\ Magnitude(y) \in Nat \ {0}
  BY DEF Magnitude
<1>3. \A x \in Int, y \in Nat \ {0} : x \div y \in Int
  OBVIOUS
<1>4. Magnitude(Signed(a)) \div Magnitude(Signed(d)) \in Int
  BY <1>1, <1>2, <1>3
<1>5. Quotient(Signed(a), Signed(d)) \in Int
  BY <1>4 DEF Quotient
<1>6. Remainder(Signed(a), Signed(d)) \in Int
  BY <1>1, <1>5 DEF Remainder
<1>7. a % d \in 0 .. d - 1 /\ a \div d \in Int /\ a = d * (a \div d) + (a % d)
  BY <1>1
<1>8. a \div d >= 0 /\ a \div d <= a
  BY <1>1, <1>7
<1>9. QED
  BY <1>1, <1>5, <1>6, <1>7, <1>8 DEF Words

\* The two registers DIV and DIVU write, as the interpreter computes them.
LEMMA DivisionAgrees ==
  ASSUME NEW r, RegistersOK(r), NEW i \in Instructions, i.op \in {"DIV", "DIVU"},
         NEW n, Agrees(n, r), Ready(i, n, r)
  PROVE  /\ Agrees(LowerDivision(i, n), Divided(i, r)) /\ RegistersOK(Divided(i, r))
         /\ LowerDivision(i, n).memory = n.memory
<1>0. /\ r[i.rs] \in Words /\ r[i.rt] \in Words /\ r[HI] \in Words /\ r[LO] \in Words
      /\ r \in [Registers -> Words] /\ HI \in Registers /\ LO \in Registers /\ HI # LO
  BY InstructionFacts, RegisterFacts DEF RegistersOK
<1>1. Sources(i) = {i.rs, i.rt, HI, LO}
  BY DEF Sources, VariableShifts, Shifts, Pairs, Idle, Arithmetic, Stores
<1>2. /\ Value(n, i.rs) = r[i.rs] /\ Value(n, i.rt) = r[i.rt]
      /\ n.values[HI] = r[HI] /\ n.values[LO] = r[LO]
  BY <1>1, RegisterFacts DEF Ready
<1> DEFINE a == r[i.rs]
           b == r[i.rt]
<1>3. InvalidDivision(i, n) <=> ~Divides(i, r)
  <2>1. Signed(a) = Signed(Word \div 2) <=> a = Word \div 2
    BY <1>0, MinusOne, SignedFacts
  <2>2. Signed(b) = -1 <=> b = Word - 1
    BY <1>0, MinusOne, SignedFacts
  <2>3. QED
    BY <1>2, <2>1, <2>2 DEF InvalidDivision, Divides
<1> DEFINE quotient == IF i.op = "DIV" THEN Wrap(Quotient(Signed(a), Signed(b))) ELSE a \div b
           remainder == IF i.op = "DIV" THEN Wrap(Remainder(Signed(a), Signed(b))) ELSE a % b
           low == IF Divides(i, r) THEN quotient ELSE r[LO]
           high == IF Divides(i, r) THEN remainder ELSE r[HI]
<1>4. low \in Words /\ high \in Words
  <2>1. CASE Divides(i, r)
    <3>1. b # 0
      BY <2>1 DEF Divides
    <3>2. /\ Quotient(Signed(a), Signed(b)) \in Int /\ Remainder(Signed(a), Signed(b)) \in Int
          /\ a \div b \in Words /\ a % b \in Words
      BY <1>0, <3>1, DivisionTypes
    <3>3. QED
      BY <2>1, <3>2, WrapType
  <2>2. CASE ~Divides(i, r)
    BY <1>0, <2>2
  <2>3. QED
    BY <2>1, <2>2
<1>5. Divided(i, r) = [r EXCEPT ![LO] = low, ![HI] = high]
  <2>1. CASE Divides(i, r)
    BY <2>1 DEF Divided
  <2>2. CASE ~Divides(i, r)
    <3>1. low = r[LO] /\ high = r[HI] /\ Divided(i, r) = r
      BY <2>2 DEF Divided
    <3>2. [r EXCEPT ![LO] = r[LO], ![HI] = r[HI]] = r
      BY <1>0
    <3>3. QED
      <4> HIDE DEF low, high
      <4> QED BY <3>1, <3>2
  <2>3. QED
    BY <2>1, <2>2
<1>6. LowerDivision(i, n) = WriteSpecialRegister(WriteSpecialRegister(n, LO, low), HI, high)
  BY <1>2, <1>3 DEF LowerDivision
<1>7. QED
  <2> HIDE DEF a, b, quotient, remainder, low, high
  <2>1. /\ Agrees(WriteSpecialRegister(WriteSpecialRegister(n, LO, low), HI, high),
                  [r EXCEPT ![LO] = low, ![HI] = high])
        /\ RegistersOK([r EXCEPT ![LO] = low, ![HI] = high])
        /\ WriteSpecialRegister(WriteSpecialRegister(n, LO, low), HI, high).memory = n.memory
    BY <1>4, PairAgrees
  <2>2. QED
    BY <1>5, <1>6, <2>1

LEMMA DoubleWordAgrees ==
  ASSUME NEW r, RegistersOK(r), NEW i \in Instructions,
         i.op \in {"MULT", "MULTU", "MADD", "MADDU", "MSUB", "MSUBU"},
         NEW n, Ready(i, n, r)
  PROVE  LoweredDoubleWord(i, n) = DoubleWord(i, r) /\ DoubleWord(i, r) \in Int
<1>0. /\ r[i.rs] \in Words /\ r[i.rt] \in Words /\ r[HI] \in Words /\ r[LO] \in Words
  BY InstructionFacts, RegisterFacts DEF RegistersOK
<1>1. /\ Signed(r[i.rs]) * Signed(r[i.rt]) \in Int /\ r[i.rs] * r[i.rt] \in Int
      /\ Pair(r[HI], r[LO]) \in Int
  <2>1. Signed(r[i.rs]) \in Int /\ Signed(r[i.rt]) \in Int
    BY <1>0, SignedFacts
  <2>2. r[i.rs] \in Int /\ r[i.rt] \in Int /\ r[HI] \in Int /\ r[LO] \in Int /\ Word \in Int
    BY <1>0, WordFacts DEF Words
  <2>3. QED
    BY <2>1, <2>2 DEF Pair
<1>2. CASE i.op \in {"MULT", "MULTU"}
  <2>1. Sources(i) = {i.rs, i.rt}
    BY <1>2 DEF Sources, VariableShifts, Shifts, Pairs, Idle, Arithmetic, Stores
  <2>2. Value(n, i.rs) = r[i.rs] /\ Value(n, i.rt) = r[i.rt]
    BY <2>1 DEF Ready
  <2>3. QED
    BY <1>1, <1>2, <2>2 DEF LoweredDoubleWord, DoubleWord
<1>3. CASE i.op \in {"MADD", "MADDU", "MSUB", "MSUBU"}
  <2>1. Sources(i) = {i.rs, i.rt, HI, LO}
    BY <1>3 DEF Sources, VariableShifts, Shifts, Pairs, Idle, Arithmetic, Stores
  <2>2. /\ Value(n, i.rs) = r[i.rs] /\ Value(n, i.rt) = r[i.rt]
        /\ n.values[HI] = r[HI] /\ n.values[LO] = r[LO]
    BY <2>1, RegisterFacts DEF Ready
  <2>3. QED
    BY <1>1, <1>3, <2>2 DEF LoweredDoubleWord, DoubleWord
<1>4. QED
  BY <1>2, <1>3

\* Every register instruction: the registers agree before and after it.
LEMMA RegisterAgrees ==
  ASSUME NEW r, RegistersOK(r), NEW i \in Instructions, i.op \in RegisterInstructions,
         NEW m, Agrees(m, r)
  PROVE  /\ Agrees(LowerRegisterInstruction(i, m), Computed(i, r))
         /\ RegistersOK(Computed(i, r))
         /\ LowerRegisterInstruction(i, m).memory = m.memory
<1> DEFINE n == Fetch(m, Sources(i))
<1>1. Agrees(n, r) /\ n.memory = m.memory /\ Ready(i, n, r)
  BY SourcesType, FetchAgrees DEF Ready
<1>2. i.rd \in 0 .. Link /\ i.rt \in 0 .. Link /\ r[i.rs] \in Words /\ i.rs \in Registers
  BY InstructionFacts DEF RegistersOK
<1> HIDE DEF n
<1> DEFINE Goal == /\ Agrees(LowerRegisterInstruction(i, m), Computed(i, r))
                   /\ RegistersOK(Computed(i, r))
                   /\ LowerRegisterInstruction(i, m).memory = m.memory
<1>3. CASE i.op \in OneWord
  <2> DEFINE d == IF i.op \in Immediates THEN i.rt ELSE i.rd
             v == LoweredResult(i, n)
  <2>1. LowerRegisterInstruction(i, m) = WriteRegister(n, d, v)
    BY <1>3 DEF LowerRegisterInstruction, n, OneWord, Idle, Pairs, Shifts, VariableShifts,
                Arithmetic, Moves, Counts, Immediates
  <2>2. d = Destination(i) /\ d \in 0 .. Link
    BY <1>2 DEF Destination
  <2>3. CASE Writes(i, r)
    <3>1. v = Result(i, r) /\ v \in Words
      BY <1>1, <1>3, <2>3, ResultAgrees, ResultType
    <3>2. Computed(i, r) = Write(r, d, v)
      BY <2>2, <2>3, <3>1 DEF Computed
    <3>3. QED
      <4> HIDE DEF d, v
      <4> QED BY <1>1, <2>1, <2>2, <3>1, <3>2, WriteAgrees
  <2>4. CASE ~Writes(i, r)
    <3>1. i.op \in {"MOVZ", "MOVN"} /\ d = i.rd
      BY <1>3, <2>4 DEF OneWord, Writes, Moves, Immediates
    <3>2. v = r[i.rd] /\ v \in Words
      BY <1>1, <1>2, <1>3, <2>4, RegisterFacts, ResultAgrees DEF RegistersOK
    <3>3. Computed(i, r) = r
      BY <2>4, <3>1 DEF Computed, Pairs
    <3>4. Write(r, d, v) = r
      BY <1>2, <3>1, <3>2 DEF Write, RegistersOK
    <3>5. QED
      <4> HIDE DEF d, v
      <4> QED BY <1>1, <2>1, <2>2, <3>2, <3>3, <3>4, WriteAgrees
  <2>5. QED
    BY <2>3, <2>4
<1>4. CASE i.op \in {"DIV", "DIVU"}
  <2>1. LowerRegisterInstruction(i, m) = LowerDivision(i, n)
    BY <1>4 DEF LowerRegisterInstruction, n, Idle
  <2>2. Computed(i, r) = Divided(i, r)
    BY <1>4 DEF Computed, Writes, Shifts, VariableShifts, Arithmetic, Counts, Immediates
  <2>3. QED
    BY <1>1, <1>4, <2>1, <2>2, DivisionAgrees
<1>5. CASE i.op \in {"MULT", "MULTU", "MADD", "MADDU", "MSUB", "MSUBU"}
  <2> DEFINE x == DoubleWord(i, r)
  <2>1. x = LoweredDoubleWord(i, n) /\ x \in Int
    BY <1>1, <1>5, DoubleWordAgrees
  <2>2. LowerRegisterInstruction(i, m) = WriteI64Pair(n, LoweredDoubleWord(i, n))
    BY <1>5 DEF LowerRegisterInstruction, n, Idle, Pairs
  <2>3. Computed(i, r) = [r EXCEPT ![LO] = LowWord(x), ![HI] = HighWord(x)]
    BY <1>5 DEF Computed, Writes, Shifts, VariableShifts, Arithmetic, Counts, Immediates, Pairs
  <2>4. LowWord(x) \in Words /\ HighWord(x) \in Words
    <3> HIDE DEF x
    <3>1. Word \in Nat \ {0}
      BY WordFacts
    <3>2. x \div Word \in Int
      BY <2>1, <3>1
    <3>3. QED
      BY <2>1, <3>2, WrapType DEF LowWord, HighWord
  <2>5. QED
    <3> DEFINE low == LowWord(x)
               high == HighWord(x)
    <3>1. LowerRegisterInstruction(i, m)
            = WriteSpecialRegister(WriteSpecialRegister(n, LO, low), HI, high)
      BY <2>1, <2>2 DEF WriteI64Pair
    <3> HIDE DEF x, low, high
    <3>2. /\ Agrees(WriteSpecialRegister(WriteSpecialRegister(n, LO, low), HI, high),
                    [r EXCEPT ![LO] = low, ![HI] = high])
          /\ RegistersOK([r EXCEPT ![LO] = low, ![HI] = high])
          /\ WriteSpecialRegister(WriteSpecialRegister(n, LO, low), HI, high).memory = n.memory
      BY <1>1, <2>4, PairAgrees DEF low, high
    <3>3. QED
      BY <1>1, <2>3, <3>1, <3>2 DEF low, high
<1>6. CASE i.op \in MovesTo
  <2>1. Sources(i) = {i.rs}
    BY <1>6 DEF Sources, VariableShifts, Shifts, Pairs, Idle, Arithmetic, Stores, MovesTo
  <2>2. Value(n, i.rs) = r[i.rs]
    BY <1>1, <2>1 DEF Ready
  <2> DEFINE d == IF i.op = "MTHI" THEN HI ELSE LO
  <2>3. LowerRegisterInstruction(i, m) = WriteSpecialRegister(n, d, r[i.rs])
    BY <1>6, <2>2 DEF LowerRegisterInstruction, n, Idle, Pairs, MovesTo
  <2>4. Computed(i, r) = [r EXCEPT ![d] = r[i.rs]]
    BY <1>6 DEF Computed, Writes, Shifts, VariableShifts, Arithmetic, Counts, Immediates,
                Pairs, MovesTo
  <2>5. d \in Registers \ {0}
    BY RegisterFacts
  <2>6. QED
    <3> DEFINE v == r[i.rs]
    <3>1. v \in Words
      BY InstructionFacts DEF RegistersOK
    <3> HIDE DEF d, v
    <3>2. /\ Agrees(WriteSpecialRegister(n, d, v), [r EXCEPT ![d] = v])
          /\ RegistersOK([r EXCEPT ![d] = v])
          /\ WriteSpecialRegister(n, d, v).memory = n.memory
      BY <1>1, <2>5, <3>1, WriteSpecialAgrees
    <3>3. QED
      BY <1>1, <2>3, <2>4, <3>2 DEF v
<1>7. CASE i.op \in Idle
  <2>1. LowerRegisterInstruction(i, m) = n
    BY <1>7 DEF LowerRegisterInstruction, n
  <2>2. Computed(i, r) = r
    BY <1>7 DEF Computed, Writes, Shifts, VariableShifts, Arithmetic, Counts, Immediates,
                Pairs, Idle
  <2>3. QED
    BY <1>1, <2>1, <2>2
<1>8. \/ i.op \in OneWord
      \/ i.op \in {"DIV", "DIVU"}
      \/ i.op \in {"MULT", "MULTU", "MADD", "MADDU", "MSUB", "MSUBU"}
      \/ i.op \in MovesTo
      \/ i.op \in Idle
  BY DEF RegisterInstructions, OneWord, Pairs
<1>9. QED
  BY <1>3, <1>4, <1>5, <1>6, <1>7, <1>8

-----------------------------------------------------------------------------
(* Branches.                                                               *)

LEMMA JumpTargetType ==
  ASSUME NEW i \in Instructions, NEW pc \in Words
  PROVE  JumpTarget(i, pc) \in Words
<1> DEFINE q == pc \div JumpRegion
           k == Word \div JumpRegion
           rest == (4 * i.imm) % JumpRegion
<1>1. JumpRegion \in Nat \ {0} /\ Word \in Nat /\ Word % JumpRegion = 0
      /\ pc \in 0 .. Word - 1 /\ i.imm \in Nat
  BY MipsAssumption, WordFacts, InstructionFacts DEF Words
<1>2. /\ pc = JumpRegion * q + (pc % JumpRegion) /\ pc % JumpRegion \in 0 .. JumpRegion - 1
      /\ Word = JumpRegion * k /\ rest \in 0 .. JumpRegion - 1
      /\ q \in Int /\ k \in Int
  BY <1>1
<1>3. JumpTarget(i, pc) = JumpRegion * q + rest
  BY <1>1, <1>2 DEF JumpTarget
<1> HIDE DEF q, k, rest
<1>4. q >= 0 /\ q + 1 <= k
  BY <1>1, <1>2
<1>5. /\ JumpRegion * q >= 0 /\ JumpRegion * q \in Int
      /\ JumpRegion * q + JumpRegion <= JumpRegion * k
  BY <1>1, <1>2, <1>4
<1>6. QED
  BY <1>1, <1>2, <1>3, <1>5 DEF Words

\* The addresses the lowering computes from that of the branch, and the
\* interpreter from that of the delay slot.
LEMMA BranchAddresses ==
  ASSUME NEW pc \in Words, NEW d \in Int
  PROVE  /\ Wrap(Wrap(pc + 4) + 4) = Wrap(pc + 8)
         /\ Wrap(Wrap(pc + 4) - 4) = pc
         /\ Wrap(Wrap(pc + 4) + d) = Wrap(pc + 4 + d)
<1>1. pc \in Int /\ pc + 4 \in Int /\ -4 \in Int /\ 4 \in Int
  BY WordFacts DEF Words
<1>2. Wrap(Wrap(pc + 4) + 4) = Wrap((pc + 4) + 4)
  BY <1>1, WrapAdd
<1>3. Wrap(Wrap(pc + 4) + (-4)) = Wrap((pc + 4) + (-4))
  BY <1>1, WrapAdd
<1>4. Wrap(Wrap(pc + 4) + d) = Wrap((pc + 4) + d)
  BY <1>1, WrapAdd
<1>5. (pc + 4) + 4 = pc + 8 /\ (pc + 4) + (-4) = pc
  BY <1>1
<1>6. Wrap(pc + 4) \in Int
  BY <1>1, WrapType, WordFacts DEF Words
<1>7. Wrap(pc + 4) + (-4) = Wrap(pc + 4) - 4
  BY <1>6
<1>8. QED
  BY <1>2, <1>3, <1>4, <1>5, <1>7, WrapWord

LEMMA ConditionAgrees ==
  ASSUME NEW r, RegistersOK(r), NEW i \in Instructions, i.op \in Compares,
         NEW n, \A x \in Sources(i) : Value(n, x) = r[x]
  PROVE  LoweredCondition(i, n) <=> Taken(i, r)
<1>1. r[i.rs] \in Words
  BY InstructionFacts DEF RegistersOK
<1>2. /\ Negative(r[i.rs]) <=> Signed(r[i.rs]) < 0
      /\ r[i.rs] = 0 <=> Signed(r[i.rs]) = 0
      /\ Signed(r[i.rs]) \in Int
  BY <1>1, SignedFacts
<1>3. CASE i.op \in {"BEQ", "BNE"}
  <2>1. Sources(i) = {i.rs, i.rt}
    BY <1>3 DEF Sources, VariableShifts, Shifts, Pairs, Idle, Arithmetic, Stores
  <2>2. Value(n, i.rs) = r[i.rs] /\ Value(n, i.rt) = r[i.rt]
    BY <2>1
  <2>3. QED
    BY <1>3, <2>2 DEF LoweredCondition, Taken, Jumps
<1>4. CASE i.op \in {"BLTZ", "BGEZ", "BLTZAL", "BGEZAL", "BLEZ", "BGTZ"}
  <2>1. Sources(i) = {i.rs}
    BY <1>4 DEF Sources, VariableShifts, Shifts, Pairs, Idle, Arithmetic, Stores
  <2>2. Value(n, i.rs) = r[i.rs]
    BY <2>1
  <2>3. CASE i.op \in {"BLTZ", "BLTZAL"}
    BY <1>2, <2>2, <2>3 DEF LoweredCondition, Taken, Jumps
  <2>4. CASE i.op \in {"BGEZ", "BGEZAL"}
    <3>1. LoweredCondition(i, n) <=> ~Negative(r[i.rs])
      BY <2>2, <2>4 DEF LoweredCondition, Negative
    <3>2. Taken(i, r) <=> Signed(r[i.rs]) >= 0
      BY <2>4 DEF Taken, Jumps
    <3>3. QED
      BY <1>2, <3>1, <3>2
  <2>5. CASE i.op \in {"BLEZ", "BGTZ"}
    <3>1. LoweredCondition(i, n) <=> IF i.op = "BLEZ"
                                     THEN Negative(r[i.rs]) \/ r[i.rs] = 0
                                     ELSE ~Negative(r[i.rs]) /\ r[i.rs] # 0
      BY <2>2, <2>5 DEF LoweredCondition, Negative
    <3>2. Taken(i, r) <=> IF i.op = "BLEZ" THEN Signed(r[i.rs]) <= 0 ELSE Signed(r[i.rs]) > 0
      BY <2>5 DEF Taken, Jumps
    <3>3. QED
      BY <1>2, <3>1, <3>2
  <2>6. QED
    BY <1>4, <2>3, <2>4, <2>5
<1>5. QED
  BY <1>3, <1>4 DEF Compares

\* The registers after a branch, and where the delay slot is followed from.
BranchedTo(i, r, pc) ==
  LET linked == Linked(i, Wrap(pc + 4), r)
      read == IF i.op = "JALR" THEN r ELSE linked
  IN  IF Taken(i, read) THEN Target(i, Wrap(pc + 4), read) ELSE Wrap(pc + 8)

LEMMA BranchAgrees ==
  ASSUME NEW r, RegistersOK(r), NEW i \in Instructions, i.op \in LowerableBranch,
         NEW m, Agrees(m, r), NEW pc \in Words
  PROVE  /\ Agrees(LowerBranch(i, m, pc).native, Linked(i, Wrap(pc + 4), r))
         /\ RegistersOK(Linked(i, Wrap(pc + 4), r))
         /\ LowerBranch(i, m, pc).native.memory = m.memory
         /\ LowerBranch(i, m, pc).target = BranchedTo(i, r, pc)
         /\ BranchedTo(i, r, pc) \in Words
<1> DEFINE fall == Wrap(pc + 8)
           after == Linked(i, Wrap(pc + 4), r)
           read == Fetch(m, Sources(i))
           linked == IF i.op \in {"BLTZAL", "BGEZAL", "JAL"}
                     THEN WriteRegister(m, Link, fall) ELSE m
           n == Fetch(linked, Sources(i))
           b == LowerBranch(i, m, pc)
           d == 4 * SignedImmediate(i)
<1>1. /\ r[i.rs] \in Words /\ SignedImmediate(i) \in Words /\ i.rd \in 0 .. Link
      /\ Link \in 0 .. Link
  BY InstructionFacts, RegisterFacts DEF RegistersOK
<1>2. d \in Int /\ pc \in Int /\ pc + 8 \in Int /\ pc + 4 + d \in Int
  BY <1>1, WordFacts DEF Words
<1>3. fall \in Words /\ Wrap(pc + 4 + d) \in Words
  BY <1>2, WrapType
<1>4. /\ Wrap(Wrap(pc + 4) + 4) = fall /\ Wrap(Wrap(pc + 4) - 4) = pc
      /\ Wrap(Wrap(pc + 4) + d) = Wrap(pc + 4 + d)
  <2> HIDE DEF d
  <2> QED BY <1>2, BranchAddresses
<1>5. Sources(i) \in SUBSET Registers
  BY SourcesType
<1>6. /\ Agrees(read, r) /\ read.memory = m.memory
      /\ \A x \in Sources(i) : Value(read, x) = r[x]
  BY <1>5, FetchAgrees
<1>7. CASE i.op = "JR"
  <2>1. Sources(i) = {i.rs}
    BY <1>7 DEF Sources, VariableShifts, Shifts, Pairs, Idle, Arithmetic, Stores
  <2>2. b.native = read /\ b.target = r[i.rs]
    BY <1>6, <1>7, <2>1 DEF LowerBranch
  <2>3. after = r /\ BranchedTo(i, r, pc) = r[i.rs]
    BY <1>7 DEF Linked, Linking, BranchedTo, Taken, Jumps, Target
  <2>4. QED
    BY <1>1, <1>6, <2>2, <2>3
<1>8. CASE i.op = "JALR"
  <2>1. Sources(i) = {i.rs}
    BY <1>8 DEF Sources, VariableShifts, Shifts, Pairs, Idle, Arithmetic, Stores
  <2>2. b.native = WriteRegister(read, i.rd, fall) /\ b.target = r[i.rs]
    BY <1>6, <1>8, <2>1 DEF LowerBranch
  <2>3. after = Write(r, i.rd, fall) /\ BranchedTo(i, r, pc) = r[i.rs]
    BY <1>4, <1>8 DEF Linked, Linking, BranchedTo, Taken, Jumps, Target
  <2>4. /\ Agrees(WriteRegister(read, i.rd, fall), Write(r, i.rd, fall))
        /\ RegistersOK(Write(r, i.rd, fall))
        /\ WriteRegister(read, i.rd, fall).memory = read.memory
    <3> HIDE DEF read, fall
    <3> QED BY <1>1, <1>3, <1>6, WriteAgrees
  <2>5. QED
    BY <1>1, <1>6, <2>2, <2>3, <2>4
<1>9. Agrees(linked, IF i.op \in {"BLTZAL", "BGEZAL", "JAL"} THEN Write(r, Link, fall) ELSE r)
      /\ RegistersOK(IF i.op \in {"BLTZAL", "BGEZAL", "JAL"} THEN Write(r, Link, fall) ELSE r)
      /\ linked.memory = m.memory
  <2> HIDE DEF fall
  <2> QED BY <1>1, <1>3, WriteAgrees
<1>10. CASE i.op \notin {"JR", "JALR"}
  <2>1. after = IF i.op \in {"BLTZAL", "BGEZAL", "JAL"} THEN Write(r, Link, fall) ELSE r
    BY <1>4, <1>10 DEF Linked, Linking
  <2>2. Agrees(linked, after) /\ RegistersOK(after)
    BY <1>9, <2>1
  <2>3. /\ Agrees(n, after) /\ n.memory = linked.memory
        /\ \A x \in Sources(i) : Value(n, x) = after[x]
    <3> HIDE DEF linked, after
    <3> QED BY <1>5, <2>2, FetchAgrees
  <2>4. b.native = n
    BY <1>10 DEF LowerBranch
  <2>5. CASE i.op \in {"J", "JAL"}
    <3>1. b.target = JumpTarget(i, pc)
      BY <2>5 DEF LowerBranch
    <3>2. BranchedTo(i, r, pc) = JumpTarget(i, pc)
      BY <1>4, <2>5 DEF BranchedTo, Taken, Jumps, Target
    <3>3. QED
      BY <1>9, <2>2, <2>3, <2>4, <3>1, <3>2, JumpTargetType
  <2>6. CASE i.op \in Compares
    <3>1. LoweredCondition(i, n) <=> Taken(i, after)
      <4> HIDE DEF n, after
      <4> QED BY <2>2, <2>3, <2>6, ConditionAgrees
    <3>2. b.target = IF LoweredCondition(i, n) THEN Wrap(pc + 4 + d) ELSE fall
      BY <2>6 DEF LowerBranch, Compares
    <3>3. BranchedTo(i, r, pc) = IF Taken(i, after) THEN Wrap(pc + 4 + d) ELSE fall
      BY <1>4, <2>6 DEF BranchedTo, Target, Compares
    <3>4. QED
      BY <1>3, <1>9, <2>2, <2>3, <2>4, <3>1, <3>2, <3>3
  <2>7. QED
    BY <1>10, <2>5, <2>6 DEF LowerableBranch, Jumps
<1>11. QED
  BY <1>7, <1>8, <1>10

-----------------------------------------------------------------------------
(* Loads and stores.                                                       *)

LEMMA PowerFacts ==
  /\ Power[0] = 1 /\ Power[4] = Word
  /\ \A k \in 0 .. 4 : /\ Power[k] \in Nat \ {0} /\ Power[4 - k] \in Nat \ {0}
                       /\ Power[k] * Power[4 - k] = Word
<1>1. /\ Base \in Nat \ {0} /\ Half \in Nat \ {0} /\ Word \in Nat \ {0}
      /\ Half = Base * Base /\ Word = Half * Half
  BY WordFacts
<1>2. /\ Power[0] = 1 /\ Power[1] = Base /\ Power[2] = Half /\ Power[3] = Half * Base
      /\ Power[4] = Word
  BY DEF Power
<1>3. Half * Base \in Nat \ {0} /\ Base * (Half * Base) = Word /\ (Half * Base) * Base = Word
  BY <1>1
<1>4. ASSUME NEW k \in 0 .. 4
      PROVE  /\ Power[k] \in Nat \ {0} /\ Power[4 - k] \in Nat \ {0}
             /\ Power[k] * Power[4 - k] = Word
  <2>1. CASE k = 0
    BY <1>1, <1>2, <2>1
  <2>2. CASE k = 1
    BY <1>1, <1>2, <1>3, <2>2
  <2>3. CASE k = 2
    BY <1>1, <1>2, <2>3
  <2>4. CASE k = 3
    BY <1>1, <1>2, <1>3, <2>4
  <2>5. CASE k = 4
    BY <1>1, <1>2, <2>5
  <2>6. QED
    BY <2>1, <2>2, <2>3, <2>4, <2>5
<1>5. QED
  BY <1>2, <1>4

\* A factor can be taken out of a remainder.
LEMMA ScaledRemainder ==
  ASSUME NEW p \in Nat \ {0}, NEW q \in Nat \ {0}, NEW v \in Nat
  PROVE  (v * p) % (p * q) = p * (v % q)
<1> DEFINE d == v \div q
           e == v % q
           w == p * q
<1>1. v = q * d + e /\ e \in 0 .. q - 1 /\ d \in Int
  OBVIOUS
<1>2. w \in Nat \ {0}
  OBVIOUS
<1> HIDE DEF d, e
<1>3. p * e <= p * (q - 1) /\ p * e >= 0 /\ p * e \in Int
  BY <1>1
<1>4. p * (q - 1) = w - p
  OBVIOUS
<1>5. p * e \in 0 .. w - 1
  BY <1>2, <1>3, <1>4
<1>6. v * p = w * d + p * e
  BY <1>1
<1>7. QED
  <2> HIDE DEF w
  <2>1. (w * d + p * e) % w = p * e
    <3> DEFINE x == p * e
    <3> HIDE DEF x
    <3>1. x \in 0 .. w - 1
      BY <1>5 DEF x
    <3>2. (w * d + x) % w = x
      BY <1>1, <1>2, <3>1, QuotientUnique
    <3>3. QED
      BY <3>2 DEF x
  <2>2. QED
    BY <1>6, <2>1 DEF w, e

\* The parts of two words that an unaligned access puts together are a word.
LEMMA MergeTypes ==
  ASSUME NEW k \in 0 .. 4, NEW v \in Words, NEW old \in Words
  PROVE  MergeLeft(v, old, k) \in Words /\ MergeRight(v, old, k) \in Words
<1> DEFINE p == Power[k]
           q == Power[4 - k]
<1>1. p \in Nat \ {0} /\ q \in Nat \ {0} /\ p * q = Word
  BY PowerFacts
<1>2. v \in 0 .. p * q - 1 /\ old \in 0 .. p * q - 1 /\ v \in Nat
  BY <1>1, WordFacts DEF Words
<1>3. /\ MergeLeft(v, old, k) = ((v * p) % (p * q)) + (old % p)
      /\ MergeRight(v, old, k) = (v \div p) + (old - (old % q))
  BY <1>1 DEF MergeLeft, MergeRight, Wrap
<1> HIDE DEF p, q
<1>4. ((v * p) % (p * q)) + (old % p) \in 0 .. p * q - 1
  <2>1. (v * p) % (p * q) = p * (v % q)
    BY <1>1, <1>2, ScaledRemainder
  <2>2. v % q \in 0 .. q - 1 /\ old % p \in 0 .. p - 1
    BY <1>1, <1>2
  <2>3. p * (v % q) <= p * (q - 1) /\ p * (v % q) >= 0 /\ p * (v % q) \in Int
    BY <1>1, <2>2
  <2>4. p * (q - 1) = p * q - p
    BY <1>1
  <2>5. QED
    BY <1>1, <2>1, <2>2, <2>3, <2>4
<1>5. (v \div p) + (old - (old % q)) \in 0 .. p * q - 1
  <2>1. v \div p \in 0 .. q - 1
    BY <1>1, <1>2
  <2>2. old \div q \in 0 .. p - 1
    BY <1>1, <1>2
  <2>3. old - (old % q) = q * (old \div q)
    BY <1>1, <1>2
  <2>4. q * (old \div q) <= q * (p - 1) /\ q * (old \div q) >= 0 /\ q * (old \div q) \in Int
    BY <1>1, <2>2
  <2>5. q * (p - 1) = p * q - q
    BY <1>1
  <2>6. QED
    BY <1>1, <2>1, <2>3, <2>4, <2>5
<1>6. QED
  BY <1>1, <1>3, <1>4, <1>5 DEF Words

LEMMA MergeNothing ==
  ASSUME NEW v \in Words, NEW old \in Words
  PROVE  MergeLeft(v, old, 0) = v /\ MergeRight(v, old, 0) = v
<1>1. Power[0] = 1 /\ Power[4] = Word /\ v \in Nat /\ old \in 0 .. Word - 1 /\ Word \in Nat
  BY PowerFacts, WordFacts DEF Words
<1>2. v * 1 = v /\ v \div 1 = v /\ old % 1 = 0 /\ old % Word = old
  BY <1>1
<1>3. MergeLeft(v, old, 0) = Wrap(v) + 0
  BY <1>1, <1>2 DEF MergeLeft
<1>4. MergeRight(v, old, 0) = v + (old - old)
  BY <1>1, <1>2 DEF MergeRight
<1>5. QED
  BY <1>1, <1>3, <1>4, WrapWord

\* What an instruction loads is a word, the same on both sides.
LEMMA LoadAgrees ==
  ASSUME NEW i \in Instructions, i.op \in Loads, NEW value \in Words, NEW old \in Words,
         NEW byte \in 0 .. 3,
         NEW n, i.op \in {"LWL", "LWR"} => Value(n, i.rt) = old
  PROVE  /\ LoweredLoad(i, n, value, byte) = Loaded(i, value, byte, old)
         /\ Loaded(i, value, byte, old) \in Words
<1>1. MergeLeft(value, old, 0) = value /\ MergeRight(value, old, 0) = value
  BY MergeNothing
<1>2. byte = 0 \/ byte = 1 \/ byte = 2 \/ byte = 3
  OBVIOUS
<1>3. CASE i.op = "LWL"
  <2>1. LoweredLoad(i, n, value, byte) = MergeLeft(value, old, 3 - byte)
    BY <1>1, <1>2, <1>3 DEF LoweredLoad, SelectByteCase, LoadCases
  <2>2. Loaded(i, value, byte, old) = MergeLeft(value, old, 3 - byte)
    BY <1>3 DEF Loaded, MergeLeft
  <2>3. 3 - byte \in 0 .. 4
    OBVIOUS
  <2>4. QED
    BY <2>1, <2>2, <2>3, MergeTypes
<1>4. CASE i.op = "LWR"
  <2>1. LoweredLoad(i, n, value, byte) = MergeRight(value, old, byte)
    BY <1>1, <1>2, <1>4 DEF LoweredLoad, SelectByteCase, LoadCases
  <2>2. Loaded(i, value, byte, old) = MergeRight(value, old, byte)
    BY <1>4 DEF Loaded, MergeRight
  <2>3. byte \in 0 .. 4
    OBVIOUS
  <2>4. QED
    BY <2>1, <2>2, <2>3, MergeTypes
<1>5. CASE i.op \notin {"LWL", "LWR"}
  <2>1. Base \in Int /\ Half \in Int
    BY WordFacts
  <2>2. SignExtend(value, Base) \in Words /\ SignExtend(value, Half) \in Words
    BY <2>1, SignExtendType
  <2>3. QED
    BY <1>5, <2>2 DEF LoweredLoad, Loaded
<1>6. QED
  BY <1>3, <1>4, <1>5

LEMMA StoreAgrees ==
  ASSUME NEW i \in Instructions, i.op \in Stores, NEW value \in Words, NEW old \in Words,
         NEW byte \in 0 .. 3, NEW n, Value(n, i.rt) = value
  PROVE  /\ LoweredStore(i, n, old, byte) = Stored(i, value, byte, old)
         /\ Stored(i, value, byte, old) \in Words
<1>1. MergeLeft(value, old, 0) = value /\ MergeRight(value, old, 0) = value
  BY MergeNothing
<1>2. byte = 0 \/ byte = 1 \/ byte = 2 \/ byte = 3
  OBVIOUS
<1>3. CASE i.op = "SWL"
  <2>1. LoweredStore(i, n, old, byte) = MergeRight(value, old, 3 - byte)
    BY <1>1, <1>2, <1>3 DEF LoweredStore, SelectByteCase, StoreCases
  <2>2. 3 - byte \in 0 .. 4 /\ 4 - (3 - byte) = byte + 1 /\ byte + 1 \in 0 .. 4
    OBVIOUS
  <2>3. Stored(i, value, byte, old) = MergeRight(value, old, 3 - byte)
    <3>1. Power[3 - byte] \in Nat \ {0} /\ Power[byte + 1] \in Nat \ {0}
      BY <2>2, PowerFacts
    <3>2. /\ old % Power[byte + 1] \in Int /\ value \div Power[3 - byte] \in Int
          /\ old \in Int
      BY <3>1, WordFacts DEF Words
    <3>3. Stored(i, value, byte, old)
            = (old - (old % Power[byte + 1])) + (value \div Power[3 - byte])
      BY <1>3 DEF Stored
    <3>4. MergeRight(value, old, 3 - byte)
            = (value \div Power[3 - byte]) + (old - (old % Power[byte + 1]))
      BY <2>2 DEF MergeRight
    <3>5. QED
      BY <3>2, <3>3, <3>4
  <2>4. QED
    BY <2>1, <2>2, <2>3, MergeTypes
<1>4. CASE i.op = "SWR"
  <2>1. LoweredStore(i, n, old, byte) = MergeLeft(value, old, byte)
    BY <1>1, <1>2, <1>4 DEF LoweredStore, SelectByteCase, StoreCases
  <2>2. byte \in 0 .. 4
    OBVIOUS
  <2>3. Stored(i, value, byte, old) = MergeLeft(value, old, byte)
    <3>1. Power[byte] \in Nat \ {0}
      BY <2>2, PowerFacts
    <3>2. value * Power[byte] \in Int /\ old \in Int
      BY <3>1, WordFacts DEF Words
    <3>3. old % Power[byte] \in Int /\ Wrap(value * Power[byte]) \in Int
      BY <3>1, <3>2, WrapType, WordFacts DEF Words
    <3>4. QED
      BY <1>4, <3>3 DEF Stored, MergeLeft
  <2>4. QED
    BY <2>1, <2>2, <2>3, MergeTypes
<1>5. CASE i.op \notin {"SWL", "SWR"}
  BY <1>5 DEF LoweredStore, Stored
<1>6. QED
  BY <1>3, <1>4, <1>5

\* An access finds its byte where the interpreter does.
LEMMA PlaceAgrees ==
  ASSUME NEW r, RegistersOK(r), NEW i \in Instructions, i.op \in MemoryInstructions,
         NEW m, Agrees(m, r)
  PROVE  /\ LoweredAddress(i, m) = EffectiveAddress(i, r) /\ EffectiveAddress(i, r) \in Words
         /\ Accessed(i, EffectiveAddress(i, r)) \in Words /\ Width(i) \in Widths
         /\ LoweredPlace(i, m) = Locate(Accessed(i, EffectiveAddress(i, r)), Width(i))
<1> DEFINE n == Fetch(m, Sources(i))
           address == EffectiveAddress(i, r)
<1>1. Sources(i) \in SUBSET Registers
  BY SourcesType
<1>2. i.rs \in Sources(i)
  BY DEF Sources, VariableShifts, Shifts, Pairs, Idle, Arithmetic, MemoryInstructions, Loads
<1>3. Value(n, i.rs) = r[i.rs]
  BY <1>1, <1>2, FetchAgrees
<1>4. r[i.rs] \in Words /\ SignedImmediate(i) \in Words
  BY InstructionFacts DEF RegistersOK
<1>5. address \in Words
  <2>1. r[i.rs] + SignedImmediate(i) \in Int
    BY <1>4, WordFacts DEF Words
  <2>2. QED
    BY <2>1, WrapType DEF EffectiveAddress
<1>6. LoweredAddress(i, m) = address
  BY <1>3 DEF LoweredAddress, EffectiveAddress
<1> HIDE DEF address
<1>7. Accessed(i, address) \in Words
  BY <1>5, WordFacts DEF Accessed, Words
<1>8. Width(i) \in Widths
  BY DEF Width, Widths
<1>9. LoweredLocate(Accessed(i, address), Width(i)) = Locate(Accessed(i, address), Width(i))
  BY <1>7, <1>8, LocateAgrees
<1>10. QED
  BY <1>5, <1>6, <1>7, <1>8, <1>9 DEF LoweredPlace, address

\* An access that stays in the block does what the interpreter does.
LEMMA MemoryAgrees ==
  ASSUME NEW r, RegistersOK(r), NEW i \in Instructions, i.op \in MemoryInstructions,
         NEW m, Agrees(m, r), LoweredPlace(i, m) # Elsewhere,
         NEW c \in Cpus, c.r = r, c.memory = m.memory
  PROVE  /\ Agrees(LowerMemoryInstruction(i, m), ExecuteMemory(i, c).r)
         /\ RegistersOK(ExecuteMemory(i, c).r)
         /\ LowerMemoryInstruction(i, m).memory = ExecuteMemory(i, c).memory
         /\ ExecuteMemory(i, c).memory \in Memories
<1> DEFINE n == Fetch(m, Sources(i))
           address == EffectiveAddress(i, r)
           place == LoweredPlace(i, m)
           width == Width(i)
           byte == address % 4
           value == ReadAt(c.memory, place, width)
           old == r[i.rt]
           e == ExecuteMemory(i, c)
           l == LowerMemoryInstruction(i, m)
<1>1. /\ LoweredAddress(i, m) = address /\ address \in Words
      /\ Accessed(i, address) \in Words /\ width \in Widths
      /\ place = Locate(Accessed(i, address), width)
  BY PlaceAgrees
<1>2. Place(place, width)
  <2> HIDE DEF address, width
  <2> QED BY <1>1, LocateType DEF place
<1>3. c.memory \in Memories /\ c.memory = n.memory /\ Agrees(n, r)
  <2>1. Sources(i) \in SUBSET Registers
    BY SourcesType
  <2>2. QED
    BY <2>1, FetchAgrees DEF Cpus
<1>4. value \in Words /\ old \in Words /\ byte \in 0 .. 3 /\ i.rt \in 0 .. Link
  <2>1. byte \in 0 .. 3
    BY <1>1, WordFacts DEF Words
  <2>2. value \in Words
    <3> HIDE DEF place, width
    <3> QED BY <1>1, <1>2, <1>3, ReadType
  <2>3. QED
    BY <2>1, <2>2, InstructionFacts DEF RegistersOK
<1>5. i.op \in {"LWL", "LWR"} \cup Stores => Value(n, i.rt) = old
  <2>1. i.op \in {"LWL", "LWR"} \cup Stores => i.rt \in Sources(i)
    BY DEF Sources, VariableShifts, Shifts, Pairs, Idle, Arithmetic, Stores
  <2>2. QED
    BY <2>1, SourcesType, FetchAgrees
<1>6. CASE i.op \in Loads
  <2> DEFINE v == Loaded(i, value, byte, old)
  <2>1. l = WriteRegister(n, i.rt, LoweredLoad(i, n, value, byte))
    BY <1>1, <1>3, <1>6 DEF LowerMemoryInstruction
  <2>2. LoweredLoad(i, n, value, byte) = v /\ v \in Words
    <3> HIDE DEF value, byte, old, n
    <3> QED BY <1>4, <1>5, <1>6, LoadAgrees
  <2>3. e = [c EXCEPT !.r = Write(r, i.rt, v)]
    BY <1>1, <1>6 DEF ExecuteMemory
  <2> HIDE DEF v, n, e, l
  <2>4. /\ Agrees(WriteRegister(n, i.rt, v), Write(r, i.rt, v))
        /\ RegistersOK(Write(r, i.rt, v))
        /\ WriteRegister(n, i.rt, v).memory = n.memory
    BY <1>3, <1>4, <2>2, WriteAgrees
  <2>5. e.r = Write(r, i.rt, v) /\ e.memory = c.memory
    BY <2>3 DEF Cpus
  <2>6. QED
    BY <1>3, <2>1, <2>2, <2>4, <2>5 DEF e, l
<1>7. CASE i.op \in Stores
  <2> DEFINE v == Stored(i, old, byte, value)
             new == WriteAt(c.memory, place, width, v)
             stored == [n EXCEPT !.memory = new]
  <2>0. i.op \notin Loads
    BY <1>7 DEF Stores, Loads
  <2>1. LoweredStore(i, n, value, byte) = v /\ v \in Words
    <3> HIDE DEF value, byte, old, n
    <3> QED BY <1>4, <1>5, <1>7, StoreAgrees
  <2>2. l = IF i.op = "SC" THEN WriteRegister(stored, i.rt, 1) ELSE stored
    <3>1. LowerMemoryInstruction(i, m) =
            LET s == [n EXCEPT !.memory =
                        WriteAt(n.memory, place, width,
                                LoweredStore(i, n, ReadAt(n.memory, place, width),
                                             LoweredAddress(i, m) % 4))]
            IN  IF i.op = "SC" THEN WriteRegister(s, i.rt, 1) ELSE s
      BY <1>7, <2>0 DEF LowerMemoryInstruction
    <3>2. QED
      BY <1>1, <1>3, <2>1, <3>1
  <2>3. e = [c EXCEPT !.memory = new, !.r = IF i.op = "SC" THEN Write(r, i.rt, 1) ELSE r]
    BY <1>1, <2>0 DEF ExecuteMemory
  <2>4. new \in Memories
    <3>1. v \in Int
      BY <2>1, WordFacts DEF Words
    <3> HIDE DEF place, width, v
    <3> QED BY <1>1, <1>2, <1>3, <3>1, WriteType
  <2>5. Agrees(stored, r) /\ stored.memory = new
    <3> HIDE DEF new, n
    <3>1. n \in Natives
      BY <1>3 DEF Agrees
    <3>2. /\ stored \in Natives /\ stored.memory = new /\ stored.registers = n.registers
          /\ stored.values = n.values /\ stored.dirty = n.dirty
      BY <2>4, <3>1 DEF Natives
    <3> HIDE DEF stored
    <3>3. QED
      BY <1>3, <3>2 DEF Agrees
  <2>6. 1 \in Words
    BY WordFacts DEF Words
  <2> HIDE DEF new, stored, v, n, e, l
  <2>7. /\ Agrees(WriteRegister(stored, i.rt, 1), Write(r, i.rt, 1))
        /\ RegistersOK(Write(r, i.rt, 1))
        /\ WriteRegister(stored, i.rt, 1).memory = stored.memory
    BY <1>4, <2>5, <2>6, WriteAgrees
  <2>8. e.r = (IF i.op = "SC" THEN Write(r, i.rt, 1) ELSE r) /\ e.memory = new
    BY <2>3 DEF Cpus
  <2>9. QED
    BY <2>2, <2>4, <2>5, <2>7, <2>8 DEF e, l
<1>8. QED
  BY <1>6, <1>7 DEF MemoryInstructions

-----------------------------------------------------------------------------
(* Steps of the interpreter.                                               *)

\* What an instruction that is not in a delay slot leaves.
LEMMA StraightStep ==
  ASSUME NEW c \in Cpus, ~c.branch_delay, NEW i, Straight(i)
  PROVE  LET s == [c EXCEPT !.pc = Wrap(c.pc + 4), !.count = c.count + 1]
         IN  /\ s \in Cpus /\ s.r = c.r /\ s.memory = c.memory
             /\ i.op \in MemoryInstructions => Step(i, c) = ExecuteMemory(i, s)
             /\ i.op \in RegisterInstructions => Step(i, c) = [s EXCEPT !.r = Computed(i, c.r)]
<1> DEFINE pc == Wrap(c.pc + 4)
           count == c.count + 1
           s == [c EXCEPT !.pc = pc, !.count = count]
<1>1. pc \in Words /\ count \in Nat
  <2>1. c.pc + 4 \in Int /\ c.count \in Nat
    BY WordFacts DEF Cpus, Words
  <2>2. QED
    BY <2>1, WrapType
<1>2. s \in Cpus /\ s.r = c.r /\ s.memory = c.memory /\ s.branch_delay = c.branch_delay
  <2> HIDE DEF pc, count
  <2> QED BY <1>1 DEF Cpus
<1>3. Step(i, c) = Execute(i, s)
  BY DEF Step
<1> HIDE DEF s
<1>4. i.op \in MemoryInstructions => Execute(i, s) = ExecuteMemory(i, s)
  BY DEF Execute, MemoryInstructions, Loads, Stores, Jumps, Compares
<1>5. i.op \in RegisterInstructions => Execute(i, s) = [s EXCEPT !.r = Computed(i, c.r)]
  BY <1>2 DEF Execute, RegisterInstructions, Loads, Stores, Jumps, Compares, Shifts,
              VariableShifts, Arithmetic, Moves, Counts, Immediates, Pairs, MovesTo, Idle
<1>6. QED
  BY <1>2, <1>3, <1>4, <1>5 DEF s

\* A branch and the instruction in its delay slot, compiled together.
LEMMA BranchThenDelay ==
  ASSUME NEW c \in Cpus, ~c.branch_delay, RegistersOK(c.r),
         NEW i \in Instructions, i.op \in LowerableBranch,
         NEW delay \in Instructions, delay.op \in RegisterInstructions,
         NEW m, Agrees(m, c.r), m.memory = c.memory
  PROVE  LET b == LowerBranch(i, m, c.pc)
             l == LowerRegisterInstruction(delay, b.native)
             s == Step(delay, Step(i, c))
         IN  /\ Agrees(l, s.r) /\ RegistersOK(s.r) /\ l.memory = s.memory
             /\ b.target = s.pc /\ b.target \in Words
             /\ ~s.branch_delay /\ s.count = c.count + 2 /\ s \in Cpus
<1> DEFINE pc == c.pc
           p == Wrap(pc + 4)
           r == c.r
           linked == Linked(i, p, r)
           read == IF i.op = "JALR" THEN r ELSE linked
           taken == Taken(i, read)
           to == BranchedTo(i, r, pc)
           after == Computed(delay, linked)
           b == LowerBranch(i, m, pc)
           l == LowerRegisterInstruction(delay, b.native)
           c1 == Step(i, c)
           s == Step(delay, c1)
<1>1. pc \in Words /\ p \in Words /\ Wrap(p + 4) = Wrap(pc + 8) /\ c.count \in Nat
      /\ c.memory \in Memories /\ c.branch_target \in Words
  <2>1. pc \in Words /\ pc + 4 \in Int
    BY WordFacts DEF Cpus, Words
  <2>2. QED
    BY <2>1, BranchAddresses, WrapType DEF Cpus
<1>2. /\ Agrees(b.native, linked) /\ RegistersOK(linked) /\ b.native.memory = m.memory
      /\ b.target = to /\ to \in Words
  <2> HIDE DEF pc
  <2> QED BY <1>1, BranchAgrees DEF r
<1>3. Agrees(l, after) /\ RegistersOK(after) /\ l.memory = b.native.memory
  <2> HIDE DEF linked, b
  <2> QED BY <1>2, RegisterAgrees
<1>4. to = IF taken THEN Target(i, p, read) ELSE Wrap(pc + 8)
  BY DEF BranchedTo
<1>5. LET c0 == [c EXCEPT !.pc = p, !.count = c.count + 1]
      IN  c1 = IF taken THEN [c0 EXCEPT !.r = linked, !.branch_delay = TRUE,
                                        !.branch_target = Target(i, p, read)]
               ELSE [c0 EXCEPT !.r = linked]
  <2> DEFINE c0 == [c EXCEPT !.pc = p, !.count = c.count + 1]
  <2>1. c0.pc = p /\ c0.r = r
    BY DEF Cpus
  <2>2. c1 = Execute(i, c0)
    BY DEF Step
  <2>3. Execute(i, c0) = ExecuteBranch(i, c0)
    BY DEF Execute, LowerableBranch
  <2> HIDE DEF c0, p, r
  <2>4. QED
    BY <2>1, <2>2, <2>3 DEF ExecuteBranch, c0
<1> HIDE DEF linked, taken, to, after, b, l, p, r, pc, read
<1> DEFINE waits == IF taken THEN TRUE ELSE FALSE
           at == IF taken THEN to ELSE c.branch_target
           next == Wrap(p + 4)
           one == c.count + 1
           two == c.count + 2
<1>6. c1 = [r |-> linked, pc |-> p, branch_delay |-> waits, branch_target |-> at,
            count |-> one, memory |-> c.memory]
  <2> HIDE DEF one
  <2>1. CASE taken
    BY <1>4, <1>5, <2>1 DEF Cpus, one
  <2>2. CASE ~taken
    BY <1>5, <2>2 DEF Cpus, one
  <2>3. QED
    BY <2>1, <2>2
<1>7. s = [r |-> after, pc |-> IF taken THEN to ELSE next, branch_delay |-> FALSE,
           branch_target |-> at, count |-> two, memory |-> c.memory]
  <2> DEFINE d0 == [c1 EXCEPT !.pc = Wrap(c1.pc + 4), !.count = c1.count + 1]
             d1 == [d0 EXCEPT !.r = Computed(delay, d0.r)]
  <2>1. Execute(delay, d0) = d1
    <3> HIDE DEF d0
    <3> QED BY DEF Execute, RegisterInstructions, Loads, Stores, Jumps, Compares, Shifts,
                   VariableShifts, Arithmetic, Moves, Counts, Immediates, Pairs, MovesTo, Idle
  <2>2. s = IF c1.branch_delay
            THEN [d1 EXCEPT !.branch_delay = FALSE, !.pc = d1.branch_target] ELSE d1
    BY <2>1 DEF Step
  <2>3. Wrap(c1.pc + 4) = next /\ c1.count + 1 = two
    BY <1>1, <1>6
  <2>4. d0 = [c1 EXCEPT !.pc = next, !.count = two]
    BY <2>3
  <2>5. d1 = [d0 EXCEPT !.r = Computed(delay, d0.r)]
    OBVIOUS
  <2> HIDE DEF c1, waits, at, next, one, two, d0, d1
  <2>6. /\ d0 = [r |-> linked, pc |-> next, branch_delay |-> waits, branch_target |-> at,
                 count |-> two, memory |-> c.memory]
        /\ d1 = [r |-> after, pc |-> next, branch_delay |-> waits, branch_target |-> at,
                 count |-> two, memory |-> c.memory]
    <3>1. d0 = [r |-> linked, pc |-> next, branch_delay |-> waits, branch_target |-> at,
                count |-> two, memory |-> c.memory]
      BY <1>6, <2>4
    <3>2. d0.r = linked
      BY <3>1
    <3>3. QED
      BY <2>5, <3>1, <3>2 DEF after
  <2>7. c1.branch_delay = waits
    BY <1>6
  <2> HIDE DEF s
  <2>8. CASE taken
    <3>1. waits = TRUE /\ at = to
      BY <2>8 DEF waits, at
    <3>2. s = [d1 EXCEPT !.branch_delay = FALSE, !.pc = d1.branch_target]
      BY <2>2, <2>7, <3>1
    <3>3. QED
      BY <2>6, <2>8, <3>1, <3>2
  <2>9. CASE ~taken
    <3>1. waits = FALSE
      BY <2>9 DEF waits
    <3>2. s = d1
      BY <2>2, <2>7, <3>1
    <3>3. QED
      BY <2>6, <2>9, <3>1, <3>2
  <2>10. QED
    BY <2>8, <2>9
<1>8. s.pc = to
  BY <1>1, <1>4, <1>7
<1>9. s \in Cpus /\ s.count = c.count + 2 /\ ~s.branch_delay /\ s.r = after
      /\ s.memory = c.memory
  <2>1. after \in [Registers -> Words]
    BY <1>3 DEF RegistersOK
  <2>2. (IF taken THEN to ELSE next) \in Words /\ at \in Words /\ two \in Nat
    BY <1>1, <1>2, <1>8, <1>7
  <2> HIDE DEF s, next, at, two
  <2>3. QED
    BY <1>1, <1>7, <2>1, <2>2 DEF Cpus, two
<1>10. QED
  BY <1>2, <1>3, <1>8, <1>9 DEF b, l, c1, pc, r

-----------------------------------------------------------------------------
(* The number of instructions a block will hold.                           *)

\* Where the first instruction that is not straight is, is where a block stops.
LEMMA StopHere ==
  ASSUME NEW b \in Seq(Instructions), NEW k \in 1 .. Len(b), ~Straight(b[k]),
         \A j \in 1 .. k - 1 : Straight(b[j])
  PROVE  /\ Stops(b) # {}
         /\ (CHOOSE x \in Stops(b) : \A y \in Stops(b) : x <= y) = k
<1>1. k \in Stops(b) /\ Stops(b) \subseteq Nat
  BY DEF Stops
<1>2. ASSUME NEW y \in Stops(b) PROVE k <= y
  <2>1. y \in 1 .. Len(b) /\ ~Straight(b[y]) /\ Len(b) \in Nat
    BY DEF Stops
  <2>2. y \notin 1 .. k - 1
    BY <2>1
  <2>3. QED
    BY <2>1, <2>2
<1>3. \A x \in Stops(b) : (\A y \in Stops(b) : x <= y) => x = k
  BY <1>1, <1>2
<1>4. QED
  BY <1>1, <1>2, <1>3

\* A block is no shorter than the straight instructions it begins with.
LEMMA CandidateAtLeast ==
  ASSUME NEW b \in Seq(Instructions), NEW n \in 0 .. Len(b),
         \A j \in 1 .. n : Straight(b[j])
  PROVE  n <= CandidateInstructionCount(b)
<1>1. Len(b) \in Nat
  OBVIOUS
<1>2. CASE Stops(b) = {}
  BY <1>1, <1>2 DEF CandidateInstructionCount
<1>3. CASE Stops(b) # {}
  <2> DEFINE least == CHOOSE x \in Stops(b) : \A y \in Stops(b) : x <= y
  <2>1. Stops(b) \subseteq Nat
    BY DEF Stops
  <2>2. \E x \in Stops(b) : \A y \in Stops(b) : x <= y
    <3> DEFINE S == Stops(b)
    <3>1. S \subseteq Nat /\ S # {}
      BY <1>3, <2>1
    <3> HIDE DEF S
    <3>2. \E x \in S : \A y \in S : x <= y
      BY <3>1, LeastNatural
    <3>3. QED
      BY <3>2 DEF S
  <2>3. least \in Stops(b)
    BY <2>2
  <2>4. least \in 1 .. Len(b) /\ least \notin 1 .. n
    BY <2>3 DEF Stops
  <2>5. CandidateInstructionCount(b) \in {least + 1, least - 1}
    BY <1>3 DEF CandidateInstructionCount
  <2>6. QED
    <3> HIDE DEF least
    <3> QED BY <1>1, <2>4, <2>5
<1>4. QED
  BY <1>2, <1>3

-----------------------------------------------------------------------------
(* The invariant: while the block runs, the interpreter is where the block *)
(* is, and every instruction completed is a straight one.                  *)

Follows ==
  /\ Agrees(native, cpu.r) /\ RegistersOK(cpu.r)
  /\ native.memory = cpu.memory
  /\ cpu.pc = Pc /\ cpu.count = index /\ ~cpu.branch_delay
  /\ \A k \in 1 .. index : Straight(block[k])

LoweringInv == TypeOK /\ (Running => Follows) /\ ExitAgrees /\ CandidateAgrees

LEMMA InvInit == Init => LoweringInv
<1> SUFFICES ASSUME Init PROVE LoweringInv
  OBVIOUS
<1>1. PICK s \in Starts :
        /\ start = s.pc
        /\ native = [registers |-> s.r, memory |-> s.memory,
                     values |-> [x \in Registers |-> None],
                     dirty |-> [x \in Registers |-> FALSE]]
        /\ cpu = [r |-> s.r, pc |-> s.pc, branch_delay |-> FALSE, branch_target |-> 0,
                  count |-> 0, memory |-> s.memory]
  BY DEF Init
<1>2. s.pc \in Words /\ RegistersOK(s.r) /\ s.memory \in Memories
  BY LoweringAssumption DEF RegistersOK
<1>3. block \in Seq(Instructions) /\ index = 0 /\ exit = None
  BY LoweringAssumption DEF Init
<1>4. 0 \in Words /\ Wrap(s.pc + 4 * 0) = s.pc
  <2>1. s.pc \in Int /\ 0 \in Words
    BY <1>2, WordFacts DEF Words
  <2>2. s.pc + 4 * 0 = s.pc
    BY <2>1
  <2>3. QED
    BY <1>2, <2>1, <2>2, WrapWord
<1>5. native \in Natives /\ cpu \in Cpus
  BY <1>1, <1>2, <1>4 DEF Natives, Cpus, RegistersOK
<1>6. Agrees(native, cpu.r)
  BY <1>1, <1>2, <1>5, RegisterFacts DEF Agrees, RegistersOK
<1>7. TypeOK
  BY <1>1, <1>2, <1>3, <1>5 DEF TypeOK
<1>8. Follows
  BY <1>1, <1>2, <1>3, <1>4, <1>6 DEF Follows, Pc
<1>9. QED
  BY <1>3, <1>7, <1>8 DEF LoweringInv, ExitAgrees, CandidateAgrees

\* What an exit leaves.
LEMMA ExitEffect ==
  ASSUME NEW r, RegistersOK(r), NEW n, Agrees(n, r),
         NEW pc \in Words, NEW completed \in Nat, EmitExit(n, pc, completed)
  PROVE  /\ native' \in Natives /\ native'.registers = r /\ native'.memory = n.memory
         /\ exit' # None /\ exit' \in [pc : Words, completed : Nat]
         /\ exit'.pc = pc /\ exit'.completed = completed
<1>1. exit' = [pc |-> pc, completed |-> completed] /\ exit' \in [pc : Words, completed : Nat]
  BY DEF EmitExit
<1>2. exit' # None
  BY <1>1, LoweringAssumption
<1>3. QED
  BY <1>1, <1>2, FlushedAgrees DEF EmitExit

\* The address of the next instruction.
LEMMA NextPc ==
  ASSUME NEW s \in Words, NEW k \in Nat
  PROVE  /\ Wrap(s + 4 * k) \in Words
         /\ Wrap(Wrap(s + 4 * k) + 4) = Wrap(s + 4 * (k + 1))
<1>1. s + 4 * k \in Int /\ 4 \in Int
  BY WordFacts DEF Words
<1>2. Wrap(Wrap(s + 4 * k) + 4) = Wrap((s + 4 * k) + 4)
  BY <1>1, WrapAdd
<1>3. (s + 4 * k) + 4 = s + 4 * (k + 1)
  BY WordFacts DEF Words
<1>4. QED
  BY <1>1, <1>2, <1>3, WrapType

LEMMA RegisterStepKeeps ==
  ASSUME LoweringInv, RegisterStep
  PROVE  LoweringInv'
<1> DEFINE i == Here
           s == [cpu EXCEPT !.pc = Wrap(cpu.pc + 4), !.count = cpu.count + 1]
<1>1. /\ TypeOK /\ Running /\ Follows /\ index # Len(block)
      /\ i.op \in RegisterInstructions
      /\ native' = LowerRegisterInstruction(i, native) /\ cpu' = Step(i, cpu)
      /\ index' = index + 1 /\ block' = block /\ start' = start /\ exit' = exit
  BY DEF LoweringInv, RegisterStep, Continue, AtEnd
<1>2. /\ block \in Seq(Instructions) /\ index \in 0 .. Len(block) /\ Len(block) \in Nat
      /\ cpu \in Cpus /\ start \in Words
  BY <1>1 DEF TypeOK
<1>3. index + 1 \in 1 .. Len(block) /\ i \in Instructions
  BY <1>1, <1>2 DEF Here
<1>4. Straight(i)
  BY <1>1 DEF Straight
<1>5. /\ Agrees(native, cpu.r) /\ RegistersOK(cpu.r) /\ native.memory = cpu.memory
      /\ cpu.pc = Pc /\ cpu.count = index /\ ~cpu.branch_delay
      /\ \A k \in 1 .. index : Straight(block[k])
  BY <1>1 DEF Follows
<1>6. /\ s \in Cpus /\ s.r = cpu.r /\ s.memory = cpu.memory
      /\ cpu' = [s EXCEPT !.r = Computed(i, cpu.r)]
  BY <1>1, <1>2, <1>4, <1>5, StraightStep
<1>7. /\ Agrees(native', Computed(i, cpu.r)) /\ RegistersOK(Computed(i, cpu.r))
      /\ native'.memory = native.memory
  BY <1>1, <1>3, <1>5, RegisterAgrees
<1>8. s.pc = Wrap(start + 4 * (index + 1)) /\ s.count = index + 1
      /\ s.branch_delay = cpu.branch_delay
  <2>1. Wrap(cpu.pc + 4) = Wrap(start + 4 * (index + 1))
    BY <1>2, <1>5, NextPc DEF Pc
  <2>2. QED
    BY <1>2, <1>5, <2>1 DEF Cpus
<1> HIDE DEF s, i
<1>9. /\ cpu' \in Cpus /\ cpu'.r = Computed(i, cpu.r) /\ cpu'.memory = s.memory
      /\ cpu'.pc = s.pc /\ cpu'.count = s.count /\ cpu'.branch_delay = s.branch_delay
  BY <1>6, <1>7 DEF Cpus, RegistersOK
<1>10. \A k \in 1 .. index' : Straight(block'[k])
  BY <1>1, <1>2, <1>4, <1>5 DEF i, Here
<1>11. TypeOK'
  BY <1>1, <1>2, <1>3, <1>7, <1>9 DEF TypeOK, Agrees
<1>12. Follows'
  BY <1>1, <1>5, <1>6, <1>7, <1>8, <1>9, <1>10 DEF Follows, Pc
<1>13. exit' = None
  BY <1>1 DEF Running
<1>14. QED
  BY <1>11, <1>12, <1>13 DEF LoweringInv, ExitAgrees, CandidateAgrees

LEMMA MemoryStepKeeps ==
  ASSUME LoweringInv, MemoryStep
  PROVE  LoweringInv'
<1> DEFINE i == Here
           s == [cpu EXCEPT !.pc = Wrap(cpu.pc + 4), !.count = cpu.count + 1]
           e == ExecuteMemory(i, s)
<1>1. /\ TypeOK /\ Running /\ Follows /\ index # Len(block)
      /\ i.op \in MemoryInstructions /\ LoweredPlace(i, native) # Elsewhere
      /\ native' = LowerMemoryInstruction(i, native) /\ cpu' = Step(i, cpu)
      /\ index' = index + 1 /\ block' = block /\ start' = start /\ exit' = exit
  BY DEF LoweringInv, MemoryStep, Continue, AtEnd
<1>2. /\ block \in Seq(Instructions) /\ index \in 0 .. Len(block) /\ Len(block) \in Nat
      /\ cpu \in Cpus /\ start \in Words
  BY <1>1 DEF TypeOK
<1>3. index + 1 \in 1 .. Len(block) /\ i \in Instructions
  BY <1>1, <1>2 DEF Here
<1>4. Straight(i)
  BY <1>1 DEF Straight
<1>5. /\ Agrees(native, cpu.r) /\ RegistersOK(cpu.r) /\ native.memory = cpu.memory
      /\ cpu.pc = Pc /\ cpu.count = index /\ ~cpu.branch_delay
      /\ \A k \in 1 .. index : Straight(block[k])
  BY <1>1 DEF Follows
<1>6. s \in Cpus /\ s.r = cpu.r /\ s.memory = cpu.memory /\ cpu' = e
  BY <1>1, <1>2, <1>4, <1>5, StraightStep
<1>7. /\ Agrees(native', e.r) /\ RegistersOK(e.r) /\ native'.memory = e.memory
      /\ e.memory \in Memories
  <2> HIDE DEF s, i
  <2> QED BY <1>1, <1>3, <1>5, <1>6, MemoryAgrees
<1>8. s.pc = Wrap(start + 4 * (index + 1)) /\ s.count = index + 1
      /\ s.branch_delay = cpu.branch_delay
  <2>1. Wrap(cpu.pc + 4) = Wrap(start + 4 * (index + 1))
    BY <1>2, <1>5, NextPc DEF Pc
  <2>2. QED
    BY <1>2, <1>5, <2>1 DEF Cpus
<1> HIDE DEF s, i
<1>9. /\ e \in Cpus
      /\ e.pc = s.pc /\ e.count = s.count /\ e.branch_delay = s.branch_delay
  <2>1. \E r, m : e = [s EXCEPT !.r = r] \/ e = [s EXCEPT !.memory = m, !.r = r]
    BY DEF ExecuteMemory
  <2>2. e = [r |-> e.r, pc |-> s.pc, branch_delay |-> s.branch_delay,
             branch_target |-> s.branch_target, count |-> s.count, memory |-> e.memory]
    BY <1>6, <2>1 DEF Cpus
  <2>3. QED
    BY <1>6, <1>7, <2>2 DEF Cpus, RegistersOK
<1>10. \A k \in 1 .. index' : Straight(block'[k])
  BY <1>1, <1>2, <1>4, <1>5 DEF i, Here
<1> HIDE DEF e
<1>11. TypeOK'
  BY <1>1, <1>2, <1>3, <1>6, <1>7, <1>9 DEF TypeOK, Agrees
<1>12. Follows'
  BY <1>1, <1>5, <1>6, <1>7, <1>8, <1>9, <1>10 DEF Follows, Pc
<1>13. exit' = None
  BY <1>1 DEF Running
<1>14. QED
  BY <1>11, <1>12, <1>13 DEF LoweringInv, ExitAgrees, CandidateAgrees

LEMMA BailOutKeeps ==
  ASSUME LoweringInv, BailOut
  PROVE  LoweringInv'
<1> DEFINE n == Fetch(native, Sources(Here))
<1>1. /\ TypeOK /\ Running /\ Follows /\ index # Len(block)
      /\ Here.op \in MemoryInstructions /\ EmitExit(n, Pc, index)
      /\ index' = index /\ block' = block /\ start' = start /\ cpu' = cpu
  BY DEF LoweringInv, BailOut, AtEnd
<1>2. /\ block \in Seq(Instructions) /\ index \in 0 .. Len(block) /\ Len(block) \in Nat
      /\ cpu \in Cpus /\ start \in Words /\ index \in Nat
  BY <1>1 DEF TypeOK
<1>3. /\ Agrees(native, cpu.r) /\ RegistersOK(cpu.r) /\ native.memory = cpu.memory
      /\ cpu.pc = Pc /\ cpu.count = index /\ ~cpu.branch_delay
      /\ \A k \in 1 .. index : Straight(block[k])
  BY <1>1 DEF Follows
<1>4. Agrees(n, cpu.r) /\ n.memory = native.memory
  <2>1. Here \in Instructions
    BY <1>1, <1>2 DEF Here
  <2>2. Sources(Here) \in SUBSET Registers
    BY <2>1, SourcesType
  <2>3. QED
    BY <1>3, <2>2, FetchAgrees
<1>5. Pc \in Words
  BY <1>2, NextPc DEF Pc
<1>6. /\ native' \in Natives /\ native'.registers = cpu.r /\ native'.memory = n.memory
      /\ exit' # None /\ exit' \in [pc : Words, completed : Nat]
      /\ exit'.pc = Pc /\ exit'.completed = index
  <2> HIDE DEF n
  <2> QED BY <1>1, <1>2, <1>3, <1>4, <1>5, ExitEffect
<1>7. TypeOK' /\ ~Running' /\ ExitAgrees'
  BY <1>1, <1>2, <1>3, <1>4, <1>6 DEF TypeOK, Running, ExitAgrees
<1>8. CandidateAgrees'
  <2>1. index <= CandidateInstructionCount(block)
    BY <1>2, <1>3, CandidateAtLeast
  <2>2. ~AtEnd' /\ Here'.op \in MemoryInstructions
    BY <1>1 DEF AtEnd, Here
  <2>3. exit'.completed <= CandidateInstructionCount(block')
    BY <1>1, <1>6, <2>1
  <2>4. QED
    BY <2>2, <2>3 DEF CandidateAgrees
<1>9. QED
  BY <1>7, <1>8 DEF LoweringInv

LEMMA BranchStepKeeps ==
  ASSUME LoweringInv, BranchStep
  PROVE  LoweringInv'
<1> DEFINE i == Here
           delay == block[index + 2]
           b == LowerBranch(i, native, Pc)
           l == LowerRegisterInstruction(delay, b.native)
           s == Step(delay, Step(i, cpu))
<1>1. /\ TypeOK /\ Running /\ Follows
      /\ i.op \in LowerableBranch /\ index + 1 < Len(block)
      /\ delay.op \in RegisterInstructions
      /\ EmitExit(l, b.target, index + 2) /\ cpu' = s
      /\ index' = index + 2 /\ block' = block /\ start' = start
  BY DEF LoweringInv, BranchStep, BranchFits
<1>2. /\ block \in Seq(Instructions) /\ index \in 0 .. Len(block) /\ Len(block) \in Nat
      /\ cpu \in Cpus /\ start \in Words
  BY <1>1 DEF TypeOK
<1>3. index + 1 \in 1 .. Len(block) /\ index + 2 \in 1 .. Len(block) /\ index + 2 \in Nat
  BY <1>1, <1>2
<1>4. i \in Instructions /\ delay \in Instructions
  BY <1>2, <1>3 DEF Here
<1>5. /\ Agrees(native, cpu.r) /\ RegistersOK(cpu.r) /\ native.memory = cpu.memory
      /\ cpu.pc = Pc /\ cpu.count = index /\ ~cpu.branch_delay
      /\ \A k \in 1 .. index : Straight(block[k])
  BY <1>1 DEF Follows
<1>6. /\ Agrees(l, s.r) /\ RegistersOK(s.r) /\ l.memory = s.memory
      /\ b.target = s.pc /\ b.target \in Words
      /\ ~s.branch_delay /\ s.count = index + 2 /\ s \in Cpus
  <2>1. LET bb == LowerBranch(i, native, cpu.pc)
            ll == LowerRegisterInstruction(delay, bb.native)
        IN  /\ Agrees(ll, s.r) /\ RegistersOK(s.r) /\ ll.memory = s.memory
            /\ bb.target = s.pc /\ bb.target \in Words
            /\ ~s.branch_delay /\ s.count = cpu.count + 2 /\ s \in Cpus
    <3> HIDE DEF i, delay
    <3> QED BY <1>1, <1>2, <1>4, <1>5, BranchThenDelay
  <2>2. QED
    BY <1>5, <2>1
<1>7. /\ native' \in Natives /\ native'.registers = s.r /\ native'.memory = l.memory
      /\ exit' # None /\ exit' \in [pc : Words, completed : Nat]
      /\ exit'.pc = b.target /\ exit'.completed = index + 2
  <2> HIDE DEF l, b, s
  <2> QED BY <1>1, <1>3, <1>6, ExitEffect
<1>8. TypeOK' /\ ~Running' /\ ExitAgrees'
  <2> HIDE DEF l, b, s
  <2> QED BY <1>1, <1>2, <1>3, <1>6, <1>7 DEF TypeOK, Running, ExitAgrees
<1>9. CandidateAgrees'
  <2>1. ~Straight(i)
    BY <1>1 DEF Straight, LowerableBranch, Jumps, Compares, MemoryInstructions, Loads, Stores,
                RegisterInstructions, Shifts, VariableShifts, Arithmetic, Moves, Counts,
                Immediates, Pairs, MovesTo, Idle
  <2> DEFINE k == index + 1
             least == CHOOSE x \in Stops(block) : \A y \in Stops(block) : x <= y
  <2>2. k \in 1 .. Len(block) /\ ~Straight(block[k]) /\ \A j \in 1 .. k - 1 : Straight(block[j])
    BY <1>2, <1>3, <1>5, <2>1 DEF Here
  <2>3. Stops(block) # {} /\ least = k
    <3> HIDE DEF k
    <3> QED BY <1>2, <2>2, StopHere
  <2>4. CandidateInstructionCount(block) = k + 1
    <3>1. /\ block[least].op \in LowerableBranch /\ least < Len(block)
          /\ block[least + 1].op \in RegisterInstructions
      <4>1. k + 1 = index + 2
        BY <1>2
      <4>2. QED
        BY <1>1, <2>3, <4>1 DEF Here
    <3> HIDE DEF k
    <3>2. QED
      BY <2>3, <3>1 DEF CandidateInstructionCount
  <2>5. exit'.completed = CandidateInstructionCount(block') /\ exit'.completed \in Int
    BY <1>1, <1>2, <1>7, <2>4
  <2>6. QED
    BY <2>5 DEF CandidateAgrees
<1>10. QED
  BY <1>8, <1>9 DEF LoweringInv

LEMMA EndBlockKeeps ==
  ASSUME LoweringInv, EndBlock
  PROVE  LoweringInv'
<1>1. /\ TypeOK /\ Running /\ Follows
      /\ IF AtEnd THEN TRUE ELSE ~Straight(Here) /\ ~BranchFits
      /\ EmitExit(native, Pc, index)
      /\ index' = index /\ block' = block /\ start' = start /\ cpu' = cpu
  BY DEF LoweringInv, EndBlock
<1>2. /\ block \in Seq(Instructions) /\ index \in 0 .. Len(block) /\ Len(block) \in Nat
      /\ cpu \in Cpus /\ start \in Words /\ index \in Nat
  BY <1>1 DEF TypeOK
<1>3. /\ Agrees(native, cpu.r) /\ RegistersOK(cpu.r) /\ native.memory = cpu.memory
      /\ cpu.pc = Pc /\ cpu.count = index /\ ~cpu.branch_delay
      /\ \A k \in 1 .. index : Straight(block[k])
  BY <1>1 DEF Follows
<1>4. Pc \in Words
  BY <1>2, NextPc DEF Pc
<1>5. /\ native' \in Natives /\ native'.registers = cpu.r /\ native'.memory = native.memory
      /\ exit' # None /\ exit' \in [pc : Words, completed : Nat]
      /\ exit'.pc = Pc /\ exit'.completed = index
  BY <1>1, <1>2, <1>3, <1>4, ExitEffect
<1>6. TypeOK' /\ ~Running' /\ ExitAgrees'
  BY <1>1, <1>2, <1>3, <1>5 DEF TypeOK, Running, ExitAgrees
<1>7. CandidateInstructionCount(block) = index
  <2>1. CASE AtEnd
    <3>1. Stops(block) = {}
      BY <1>2, <1>3, <2>1 DEF Stops, AtEnd
    <3>2. QED
      BY <2>1, <3>1 DEF CandidateInstructionCount, AtEnd
  <2>2. CASE ~AtEnd
    <3> DEFINE k == index + 1
               least == CHOOSE x \in Stops(block) : \A y \in Stops(block) : x <= y
    <3>1. k \in 1 .. Len(block) /\ ~Straight(block[k])
          /\ \A j \in 1 .. k - 1 : Straight(block[j])
      <4>1. k \in 1 .. Len(block) /\ k - 1 = index
        BY <1>2, <2>2 DEF AtEnd
      <4>2. ~Straight(block[k])
        BY <1>1, <2>2 DEF Here
      <4>3. QED
        BY <1>3, <4>1, <4>2
    <3>2. Stops(block) # {} /\ least = k
      <4> HIDE DEF k
      <4> QED BY <1>2, <3>1, StopHere
    <3>3. ~(/\ block[least].op \in LowerableBranch /\ least < Len(block)
            /\ block[least + 1].op \in RegisterInstructions)
      <4>1. k + 1 = index + 2
        BY <1>2
      <4>2. QED
        BY <1>1, <2>2, <3>2, <4>1 DEF Here, BranchFits
    <3>4. CandidateInstructionCount(block) = k - 1
      <4> HIDE DEF k
      <4> QED BY <3>2, <3>3 DEF CandidateInstructionCount
    <3>5. QED
      BY <1>2, <3>4
  <2>3. QED
    BY <2>1, <2>2
<1>8. CandidateAgrees'
  <2>1. exit'.completed = CandidateInstructionCount(block') /\ exit'.completed \in Int
    BY <1>1, <1>2, <1>5, <1>7
  <2>2. QED
    BY <2>1 DEF CandidateAgrees
<1>9. QED
  BY <1>6, <1>8 DEF LoweringInv

LEMMA InvNext == LoweringInv /\ [Next]_vars => LoweringInv'
<1> SUFFICES ASSUME LoweringInv, [Next]_vars PROVE LoweringInv'
  OBVIOUS
<1>1. CASE RegisterStep
  BY <1>1, RegisterStepKeeps
<1>2. CASE MemoryStep
  BY <1>2, MemoryStepKeeps
<1>3. CASE BailOut
  BY <1>3, BailOutKeeps
<1>4. CASE BranchStep
  BY <1>4, BranchStepKeeps
<1>5. CASE EndBlock
  BY <1>5, EndBlockKeeps
<1>6. CASE UNCHANGED vars
  BY <1>6 DEF vars, LoweringInv, TypeOK, Running, Follows, ExitAgrees, CandidateAgrees,
              AtEnd, Here, Pc
<1>7. QED
  BY <1>1, <1>2, <1>3, <1>4, <1>5, <1>6 DEF Next

LEMMA LoweringInvHolds == Spec => []LoweringInv
<1>1. Init => LoweringInv
  BY InvInit
<1>2. LoweringInv /\ [Next]_vars => LoweringInv'
  BY InvNext
<1>3. QED
  BY <1>1, <1>2, PTL DEF Spec

-----------------------------------------------------------------------------
(* The properties of the specification.                                    *)

\* The emitted code keeps the width of every register, address and byte, for
\* every width of a byte and every block.
THEOREM LoweringTypeOK == Spec => []TypeOK
<1>1. LoweringInv => TypeOK
  BY DEF LoweringInv
<1>2. QED
  BY <1>1, LoweringInvHolds, PTL

\* Every exit of every block leaves the machine as the interpreter does after
\* as many instructions.
THEOREM ExitAgreesHolds == Spec => []ExitAgrees
<1>1. LoweringInv => ExitAgrees
  BY DEF LoweringInv
<1>2. QED
  BY <1>1, LoweringInvHolds, PTL

\* An access leaves the block exactly when it is neither in RAM nor in the
\* framebuffer, and goes to the interpreter's byte otherwise.
THEOREM AccessAgreesHolds == Spec => []AccessAgrees
<1>1. LoweringInv => AccessAgrees
  <2> SUFFICES ASSUME LoweringInv, Running, ~AtEnd, Here.op \in MemoryInstructions
               PROVE  LoweredPlace(Here, native) =
                        Locate(Accessed(Here, EffectiveAddress(Here, cpu.r)), Width(Here))
    BY DEF AccessAgrees
  <2>1. Here \in Instructions
    <3>1. block \in Seq(Instructions) /\ index \in 0 .. Len(block) /\ index # Len(block)
      BY DEF LoweringInv, TypeOK, AtEnd
    <3>2. index + 1 \in 1 .. Len(block)
      BY <3>1
    <3>3. QED
      BY <3>1, <3>2 DEF Here
  <2>2. Agrees(native, cpu.r) /\ RegistersOK(cpu.r)
    BY DEF LoweringInv, Follows
  <2>3. QED
    BY <2>1, <2>2, PlaceAgrees
<1>2. QED
  BY <1>1, LoweringInvHolds, PTL

\* The number that decides whether a block is worth compiling is the number of
\* instructions the compiled block holds.
THEOREM CandidateAgreesHolds == Spec => []CandidateAgrees
<1>1. LoweringInv => CandidateAgrees
  BY DEF LoweringInv
<1>2. QED
  BY <1>1, LoweringInvHolds, PTL

=============================================================================
