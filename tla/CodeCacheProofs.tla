--------------------------- MODULE CodeCacheProofs ---------------------------
(***************************************************************************)
(* Proofs about CodeCache, for code, caches and budgets of any size.  The  *)
(* caches are safe for one reason: whatever is in one was read from the    *)
(* guest's code, holds no boundary after its first word, and has since     *)
(* changed only where the history says so.                                 *)
(***************************************************************************)
EXTENDS CodeCache, NaturalFacts, SequenceTheorems, TLAPS

\* No boundary after the first word: a stop is only ever at a block's start.
Whole(s, content) ==
  \A k \in 1 .. Len(content) - 1 : ~IsInstructionBlockBoundary(Plus(s, k))

Sound(s, content) == SameCode(s, content) /\ Whole(s, content)

Contents == {c \in Seq(Kinds) : Len(c) <= MaxBlockLen}

BlocksInv ==
  /\ blocks \in [0 .. Slots - 1 -> [start : Addresses, content : Contents]]
  /\ \A slot \in 0 .. Slots - 1 : Sound(blocks[slot].start, blocks[slot].content)

\* A block is given up in time, and only what was hot has a function.
EntryOK(s, entry) ==
  /\ entry \in [hits : 0 .. HotThreshold, failed : BOOLEAN, zero_exits : 0 .. MaxZeroExits,
                block : Blocks \cup {None}]
  /\ ~entry.failed => entry.zero_exits < MaxZeroExits
  /\ entry.block # None => /\ compiled
                           /\ entry.block.module = module
                           /\ ~entry.failed
                           /\ entry.hits = HotThreshold
                           /\ Sound(s, entry.block.content)

EntriesInv ==
  /\ DOMAIN entries \subseteq Addresses
  /\ Cardinality(DOMAIN entries) <= MaxEntries
  /\ entries = [s \in DOMAIN entries |-> entries[s]]
  /\ \A s \in DOMAIN entries : EntryOK(s, entries[s])

FastInv ==
  /\ fast \in [0 .. FastSlots - 1 -> [start : Addresses, block : Blocks \cup {None}]]
  /\ \A s \in Addresses : FastHit(s) => fast[FastSlot(s)].block = EntryOf(s).block

JitTypes ==
  /\ module \in {0, 1, None} /\ compiled \in BOOLEAN /\ enabled \in BOOLEAN
  /\ budget \in 0 .. MaxCompiles

CodeTypes == code \in [Addresses -> Kinds] /\ written \subseteq Addresses

GuestTypes ==
  /\ cheats \in UNION {[s -> Kinds] : s \in SUBSET Patched}
  /\ cpu \in [pc : Addresses, delay : BOOLEAN]
  /\ active \in Contexts /\ args \in BOOLEAN /\ fresh \in BOOLEAN

FrameTypes ==
  /\ remaining \in 0 .. Quantum
  /\ phase \in {"host", "slice", "native", "lookup", "compile", "interpret"}
  /\ call \in [start : Addresses, done : 0 .. Quantum, attempted : BOOLEAN]

\* What a step within a call of run_cached_instruction_block relies on: nothing
\* is compiled twice, and a chain of blocks has not passed a stop.
Cold == ~Available \/ EntryOf(call.start).block = None
PhaseInv ==
  /\ phase = "native" =>
        /\ ~cpu.delay
        /\ call.done <= remaining
        /\ call.done = 0 => cpu.pc = call.start
        /\ call.done # 0 => ~HasStop(cpu.pc, active, args)
  /\ phase = "lookup" /\ ~cpu.delay /\ ~call.attempted => Cold
  /\ phase = "compile" => Cold
  /\ phase \in {"compile", "interpret"} => Cached(call.start)

\* After the host changed the code there is nothing that could be stale.
FreshInv ==
  fresh => /\ phase = "host"
           /\ DOMAIN entries = {}
           /\ \A slot \in 0 .. Slots - 1 : blocks[slot].content = <<>>

IInv ==
  /\ BlocksInv /\ EntriesInv /\ FastInv /\ JitTypes /\ CodeTypes /\ GuestTypes /\ FrameTypes
  /\ PhaseInv /\ FreshInv /\ NothingSkipped

-----------------------------------------------------------------------------
(* Addresses, slots and blocks.                                            *)

\* The bounds are what the assumption says, one by one.
LEMMA Bounds ==
  /\ N \in Nat /\ N > 0 /\ 0 \in Addresses /\ IsFiniteSet(Addresses)
  /\ Hooks \subseteq Addresses /\ Targets \subseteq Addresses /\ Stores \subseteq Addresses
  /\ Patched \subseteq Addresses
  /\ Slots \in Nat /\ Slots > 0 /\ FastSlots \in Nat /\ FastSlots > 0
  /\ MinCompiledLen \in Nat /\ MinCompiledLen > 0
  /\ HotThreshold \in Nat /\ HotThreshold > 0
  /\ MaxEntries \in Nat /\ MaxEntries > 0 /\ MaxZeroExits \in Nat /\ MaxZeroExits > 0
  /\ MaxCompiles \in Nat /\ MaxCompiles > 0 /\ Quantum \in Nat /\ Quantum > 0
  /\ MaxBlockLen \in Nat /\ MaxBlockLen > 0
<1>1. IsFiniteSet(0 .. N - 1)
  BY CacheAssumption, FS_Interval
<1> QED
  BY <1>1, CacheAssumption DEF Addresses

\* Addresses wrap around.
LEMMA PlusType ==
  ASSUME NEW a \in Addresses, NEW n \in Nat
  PROVE  Plus(a, n) \in Addresses
<1>1. N \in Nat /\ N > 0 /\ a + n \in Int
  BY Bounds DEF Addresses
<1>2. (a + n) % N \in 0 .. N - 1
  BY <1>1
<1> QED
  BY <1>2 DEF Plus, Addresses

LEMMA PlusZero ==
  ASSUME NEW a \in Addresses
  PROVE  Plus(a, 0) = a
<1>1. N \in Nat /\ N > 0 /\ a \in Int /\ a >= 0 /\ a < N
  BY Bounds DEF Addresses
<1>2. (a + 0) % N = a
  BY <1>1
<1> QED
  BY <1>2 DEF Plus

\* Every address has its slots.
LEMMA SlotType ==
  ASSUME NEW s \in Addresses
  PROVE  BlockSlot(s) \in 0 .. Slots - 1 /\ FastSlot(s) \in 0 .. FastSlots - 1
<1>1. s \in Int /\ Slots \in Nat /\ Slots > 0 /\ FastSlots \in Nat /\ FastSlots > 0
  BY Bounds DEF Addresses
<1>2. s % Slots \in 0 .. Slots - 1
  BY <1>1
<1>3. s % FastSlots \in 0 .. FastSlots - 1
  BY <1>1
<1> QED
  BY <1>2, <1>3 DEF BlockSlot, FastSlot

\* What a compiled block holds, said of sequences.
LEMMA BlockType ==
  /\ \A b \in Blocks : b.content \in Contents /\ Len(b.content) >= 1
  /\ \A c \in Contents, m \in {0, 1} :
        Len(c) >= 1 => [content |-> c, module |-> m] \in Blocks
  /\ None \notin Blocks
<1>1. ASSUME NEW b \in Blocks PROVE b.content \in Contents /\ Len(b.content) >= 1
  <2>1. PICK n \in 1 .. MaxBlockLen : b.content \in [1 .. n -> Kinds]
    BY DEF Blocks
  <2>2. n \in Nat /\ n >= 1 /\ n <= MaxBlockLen
    BY Bounds
  <2>3. b.content \in Seq(Kinds)
    BY <2>1, <2>2, SeqDef
  <2>4. Len(b.content) = n
    BY <2>1, <2>2, <2>3, LenProperties
  <2> QED
    BY <2>2, <2>3, <2>4 DEF Contents
<1>2. ASSUME NEW c \in Contents, NEW m \in {0, 1}, Len(c) >= 1
      PROVE  [content |-> c, module |-> m] \in Blocks
  <2>1. c \in Seq(Kinds) /\ Len(c) \in 1 .. MaxBlockLen /\ c \in [1 .. Len(c) -> Kinds]
    BY <1>2, Bounds, LenProperties DEF Contents
  <2>2. c \in UNION {[1 .. n -> Kinds] : n \in 1 .. MaxBlockLen}
    BY <2>1
  <2> QED
    BY <2>2 DEF Blocks
<1>3. Blocks \subseteq [content : Seq(Kinds), module : {0, 1}]
  <2>1. ASSUME NEW b \in Blocks PROVE b \in [content : Seq(Kinds), module : {0, 1}]
    <3>1. b.content \in Seq(Kinds) /\ b = [content |-> b.content, module |-> b.module]
          /\ b.module \in {0, 1}
      BY <1>1 DEF Blocks, Contents
    <3> QED
      BY <3>1
  <2> QED
    BY <2>1
<1>4. None \notin Blocks
  BY <1>3, CacheAssumption
<1> QED
  BY <1>1, <1>2, <1>4

\* fetch_instruction_block reads the guest's code and stops at a boundary.
LEMMA FetchedSound ==
  ASSUME CodeTypes, NEW s \in Addresses
  PROVE  /\ Fetched(s) \in [start : Addresses, content : Contents]
         /\ Fetched(s).start = s
         /\ Fetched(s).content # <<>>
         /\ Sound(s, Fetched(s).content)
<1> DEFINE Stop(n) == /\ \A k \in 1 .. n - 1 : ~IsInstructionBlockBoundary(Plus(s, k))
                      /\ n = MaxBlockLen \/ IsInstructionBlockBoundary(Plus(s, n))
           len == BlockLen(s)
           content == [k \in 1 .. len |-> code[Plus(s, k - 1)]]
<1>1. \E n \in 1 .. MaxBlockLen : Stop(n)
  <2>1. CASE \E n \in 1 .. MaxBlockLen : IsInstructionBlockBoundary(Plus(s, n))
    <3> DEFINE T == {n \in 1 .. MaxBlockLen : IsInstructionBlockBoundary(Plus(s, n))}
    <3>1. T \subseteq Nat /\ T # {} /\ T \subseteq 1 .. MaxBlockLen
      BY <2>1, Bounds
    <3>2. PICK n \in T : \A m \in T : n <= m
      <4> HIDE DEF T
      <4> QED
        BY <3>1, LeastNatural
    <3>3. \A k \in 1 .. n - 1 : ~IsInstructionBlockBoundary(Plus(s, k))
      BY <3>1, <3>2, Bounds
    <3> QED
      BY <3>1, <3>2, <3>3
  <2>2. CASE ~\E n \in 1 .. MaxBlockLen : IsInstructionBlockBoundary(Plus(s, n))
    <3>1. MaxBlockLen \in 1 .. MaxBlockLen
      BY Bounds
    <3>2. \A k \in 1 .. MaxBlockLen - 1 : k \in 1 .. MaxBlockLen
      BY Bounds
    <3> QED
      BY <2>2, <3>1, <3>2
  <2> QED
    BY <2>1, <2>2
<1>2. len \in 1 .. MaxBlockLen /\ Stop(len)
  BY <1>1 DEF BlockLen
<1>3. len \in Nat /\ len >= 1 /\ len <= MaxBlockLen
  BY <1>2, Bounds
<1> HIDE DEF len
<1>4. \A k \in 1 .. len : Plus(s, k - 1) \in Addresses
  BY <1>3, PlusType
<1>5. content \in [1 .. len -> Kinds]
  BY <1>4 DEF CodeTypes
<1>6. content \in Seq(Kinds)
  BY <1>3, <1>5, SeqDef
<1>7. Len(content) = len
  BY <1>3, <1>6, LenProperties
<1>8. content \in Contents /\ content # <<>>
  BY <1>3, <1>6, <1>7 DEF Contents
<1>9. SameCode(s, content)
  BY <1>7 DEF SameCode
<1>10. Whole(s, content)
  BY <1>2, <1>7 DEF Whole
<1>11. Fetched(s) = [start |-> s, content |-> content]
  BY DEF Fetched, len
<1> HIDE DEF content
<1> QED
  BY <1>8, <1>9, <1>10, <1>11 DEF Sound

\* A candidate is a first part of its block.
LEMMA CandidateBounds ==
  ASSUME NEW b \in Seq(Kinds)
  PROVE  CandidateInstructionCount(b) \in 0 .. Len(b)
<1>1. CASE "branch" \notin Range(b)
  BY <1>1, LenProperties DEF CandidateInstructionCount
<1>2. CASE "branch" \in Range(b)
  <2> DEFINE I == {i \in 1 .. Len(b) : b[i] = "branch"}
             k == SelectInSeq(b, LAMBDA kind : kind = "branch")
  <2>1. I # {} /\ I \subseteq Nat /\ I \subseteq 1 .. Len(b)
    BY <1>2, LenProperties DEF Range
  <2>2. PICK x \in I : \A y \in I : x <= y
    <3> HIDE DEF I
    <3> QED
      BY <2>1, LeastNatural
  <2>3. k = Min(I)
    BY <2>1 DEF SelectInSeq
  <2>4. Min(I) \in I
    BY <2>2 DEF Min
  <2>5. k \in 1 .. Len(b)
    BY <2>1, <2>3, <2>4
  <2> HIDE DEF I
  <2> QED
    BY <1>2, <2>5, LenProperties DEF CandidateInstructionCount
<1> QED
  BY <1>1, <1>2

\* A first part of sound content is sound.
LEMMA PartSound ==
  ASSUME NEW s, NEW c \in Contents, Sound(s, c), NEW n \in 1 .. Len(c)
  PROVE  /\ SubSeq(c, 1, n) \in Contents
         /\ Len(SubSeq(c, 1, n)) = n
         /\ Sound(s, SubSeq(c, 1, n))
<1>1. c \in Seq(Kinds) /\ Len(c) \in Nat /\ Len(c) <= MaxBlockLen
  BY LenProperties DEF Contents
<1>2. /\ SubSeq(c, 1, n) \in Seq(Kinds)
      /\ Len(SubSeq(c, 1, n)) = n
      /\ \A k \in 1 .. n : SubSeq(c, 1, n)[k] = c[k]
  BY <1>1, SubSeqProperties
<1>3. n \in Nat /\ n <= Len(c)
  BY <1>1
<1>4. SubSeq(c, 1, n) \in Contents
  BY <1>1, <1>2, <1>3, Bounds DEF Contents
<1>5. SameCode(s, SubSeq(c, 1, n))
  BY <1>1, <1>2, <1>3 DEF Sound, SameCode
<1>6. Whole(s, SubSeq(c, 1, n))
  BY <1>1, <1>2, <1>3 DEF Sound, Whole
<1> QED
  BY <1>2, <1>4, <1>5, <1>6 DEF Sound

-----------------------------------------------------------------------------
(* What a step may do to the caches.                                       *)

\* Code changes only where the history says so.
Marked ==
  /\ written \subseteq written'
  /\ \A a \in Addresses : code'[a] = code[a] \/ a \in written'

\* Sound content stays sound.
LEMMA StaysSound ==
  ASSUME Marked, NEW s \in Addresses, NEW c \in Contents, Sound(s, c)
  PROVE  Sound(s, c)'
<1>1. Len(c) \in Nat
  BY LenProperties DEF Contents
<1>2. \A k \in 1 .. Len(c) : Plus(s, k - 1) \in Addresses
  BY <1>1, PlusType
<1>3. SameCode(s, c)'
  BY <1>2 DEF Sound, SameCode, Marked
<1>4. Whole(s, c)'
  BY DEF Sound, Whole
<1> QED
  BY <1>3, <1>4 DEF Sound

LEMMA KeptBlocks ==
  ASSUME BlocksInv, Marked, UNCHANGED blocks
  PROVE  BlocksInv'
<1>1. ASSUME NEW slot \in 0 .. Slots - 1
      PROVE  Sound(blocks[slot].start, blocks[slot].content)'
  <2>1. PICK s \in Addresses, c \in Contents : s = blocks[slot].start /\ c = blocks[slot].content
    BY DEF BlocksInv
  <2>2. Sound(s, c)
    BY <2>1 DEF BlocksInv
  <2>3. Sound(s, c)'
    BY <2>2, StaysSound
  <2>4. s = blocks[slot].start' /\ c = blocks[slot].content'
    BY <2>1
  <2> QED
    BY <2>3, <2>4
<1> QED
  BY <1>1 DEF BlocksInv

\* An entry keeps what it promises as long as its module lives.
LEMMA KeptEntry ==
  ASSUME Marked, UNCHANGED module, compiled => compiled', NEW s \in Addresses, NEW e, EntryOK(s, e)
  PROVE  EntryOK(s, e)'
<1>1. CASE e.block = None
  BY <1>1 DEF EntryOK
<1>2. CASE e.block # None
  <2>1. e.block \in Blocks
    BY <1>2 DEF EntryOK
  <2>2. Sound(s, e.block.content)'
    BY <1>2, <2>1, BlockType, StaysSound DEF EntryOK
  <2> QED
    BY <1>2, <2>2 DEF EntryOK
<1> QED
  BY <1>1, <1>2

LEMMA KeptEntries ==
  ASSUME EntriesInv, Marked, UNCHANGED <<entries, module>>, compiled => compiled'
  PROVE  EntriesInv'
<1>1. \A s \in DOMAIN entries : s \in Addresses /\ EntryOK(s, entries[s])
  BY DEF EntriesInv
<1>2. ASSUME NEW s \in DOMAIN entries PROVE EntryOK(s, entries[s])'
  <2>1. PICK e : e = entries[s]
    OBVIOUS
  <2>2. EntryOK(s, e)'
    BY <1>1, <2>1, KeptEntry
  <2> QED
    BY <2>1, <2>2
<1> QED
  BY <1>2 DEF EntriesInv

\* The table gets or changes one entry.
LEMMA ChangedEntries ==
  ASSUME EntriesInv, Marked, UNCHANGED module, compiled => compiled',
         NEW s \in Addresses, NEW e, EntryOK(s, e)',
         entries' = With(s, e), s \in DOMAIN entries \/ ~Full
  PROVE  EntriesInv'
<1>1. DOMAIN entries' = DOMAIN entries \cup {s}
  BY DEF With
<1>2. DOMAIN entries' \subseteq Addresses /\ IsFiniteSet(DOMAIN entries)
  BY <1>1, Bounds, FS_Subset DEF EntriesInv
<1>3. Cardinality(DOMAIN entries') <= MaxEntries
  <2>1. CASE s \in DOMAIN entries
    <3>1. DOMAIN entries' = DOMAIN entries
      BY <1>1, <2>1
    <3> QED
      BY <3>1 DEF EntriesInv
  <2>2. CASE s \notin DOMAIN entries
    <3>1. Cardinality(DOMAIN entries) \in Nat
      BY <1>2, FS_CardinalityType
    <3>2. Cardinality(DOMAIN entries \cup {s}) = Cardinality(DOMAIN entries) + 1
      BY <1>2, <2>2, FS_AddElement
    <3>3. ~(Cardinality(DOMAIN entries) >= MaxEntries)
      BY <2>2 DEF Full
    <3> QED
      BY <1>1, <3>1, <3>2, <3>3, Bounds
  <2> QED
    BY <2>1, <2>2
<1>4. entries' = [a \in DOMAIN entries' |-> entries'[a]]
  BY DEF With
<1>5. ASSUME NEW a \in DOMAIN entries' PROVE EntryOK(a, entries[a])'
  <2>1. CASE a = s
    <3>1. entries'[a] = e
      BY <1>1, <2>1 DEF With
    <3> QED
      BY <2>1, <3>1
  <2>2. CASE a # s
    <3>1. a \in DOMAIN entries /\ a \in Addresses
      BY <1>1, <1>2, <2>2
    <3>2. PICK f : f = entries[a]
      OBVIOUS
    <3>3. entries'[a] = f
      BY <1>1, <2>2, <3>1, <3>2 DEF With
    <3>4. EntryOK(a, f)'
      BY <3>1, <3>2, KeptEntry DEF EntriesInv
    <3> QED
      BY <3>3, <3>4
  <2> QED
    BY <2>1, <2>2
<1> QED
  BY <1>2, <1>3, <1>4, <1>5 DEF EntriesInv

\* An update in place is one of these.
LEMMA InPlace ==
  ASSUME NEW s \in DOMAIN entries, NEW e
  PROVE  [entries EXCEPT ![s] = e] = With(s, e)
BY DEF With

\* What EntryOf answers after a change.
LEMMA ChangedEntryOf ==
  ASSUME NEW s, NEW e, entries' = With(s, e)
  PROVE  /\ EntryOf(s)' = e
         /\ \A a : a # s => EntryOf(a)' = EntryOf(a)
BY DEF With, EntryOf, NewEntry

LEMMA KeptFast ==
  ASSUME FastInv, UNCHANGED fast, \A s \in Addresses : EntryOf(s).block' = EntryOf(s).block
  PROVE  FastInv'
BY DEF FastInv, FastHit

\* The front is told what the table has.
LEMMA ChangedFast ==
  ASSUME FastInv, NEW s \in Addresses, NEW b \in Blocks \cup {None}, fast' = FastWith(s, b),
         EntryOf(s).block' = b,
         \A a \in Addresses : a # s => EntryOf(a).block' = EntryOf(a).block
  PROVE  FastInv'
<1>1. FastSlot(s) \in 0 .. FastSlots - 1 /\ [start |-> s, block |-> b] \in
        [start : Addresses, block : Blocks \cup {None}]
  BY SlotType
<1>2. fast' \in [0 .. FastSlots - 1 -> [start : Addresses, block : Blocks \cup {None}]]
  BY <1>1 DEF FastInv, FastWith
<1>3. ASSUME NEW a \in Addresses, FastHit(a)'
      PROVE  fast'[FastSlot(a)].block = EntryOf(a).block'
  <2>1. CASE FastSlot(a) = FastSlot(s)
    <3>1. fast'[FastSlot(a)] = [start |-> s, block |-> b]
      BY <1>1, <2>1 DEF FastInv, FastWith
    <3> QED
      BY <1>3, <3>1 DEF FastHit
  <2>2. CASE FastSlot(a) # FastSlot(s)
    <3>1. fast'[FastSlot(a)] = fast[FastSlot(a)] /\ a # s
      BY <2>2, SlotType DEF FastInv, FastWith
    <3> QED
      BY <1>3, <3>1 DEF FastHit, FastInv
  <2> QED
    BY <2>1, <2>2
<1> QED
  BY <1>2, <1>3 DEF FastInv, FastSlot

\* Empty caches agree with everything.
LEMMA EmptyCaches ==
  ASSUME blocks' = NoBlocks, entries' = [a \in {} |-> NewEntry], fast' = NoFast
  PROVE  /\ BlocksInv' /\ EntriesInv' /\ FastInv'
         /\ DOMAIN entries' = {}
         /\ \A slot \in 0 .. Slots - 1 : blocks'[slot].content = <<>>
<1>1. <<>> \in Contents /\ Len(<<>>) = 0
  BY Bounds DEF Contents
<1>2. Sound(0, <<>>)'
  BY <1>1 DEF Sound, SameCode, Whole
<1>3. \A slot \in 0 .. Slots - 1 : blocks'[slot] = [start |-> 0, content |-> <<>>]
  BY DEF NoBlocks
<1>4. blocks' \in [0 .. Slots - 1 -> [start : Addresses, content : Contents]]
  BY <1>1, Bounds DEF NoBlocks
<1>5. BlocksInv'
  BY <1>2, <1>3, <1>4 DEF BlocksInv
<1>6. DOMAIN entries' = {}
  OBVIOUS
<1>7. EntriesInv'
  BY <1>6, Bounds, FS_EmptySet DEF EntriesInv
<1>8. FastInv'
  BY <1>6, SlotType, Bounds DEF FastInv, NoFast, EntryOf, NewEntry
<1> QED
  BY <1>3, <1>5, <1>6, <1>7, <1>8

LEMMA KeptCaches ==
  ASSUME BlocksInv, EntriesInv, FastInv, CodeTypes, Marked,
         UNCHANGED <<blocks, entries, fast, module, compiled>>
  PROVE  BlocksInv' /\ EntriesInv' /\ FastInv'
<1>1. EntriesInv' /\ BlocksInv'
  BY KeptEntries, KeptBlocks
<1>2. FastInv'
  BY KeptFast DEF EntryOf
<1> QED
  BY <1>1, <1>2

LEMMA SameCode_Marked ==
  ASSUME UNCHANGED <<code, written>>
  PROVE  Marked
BY DEF Marked

LEMMA ClearedCaches ==
  ASSUME JitTypes, ClearInstructionCache
  PROVE  /\ BlocksInv' /\ EntriesInv' /\ FastInv' /\ JitTypes'
         /\ written' = {}
         /\ DOMAIN entries' = {}
         /\ \A slot \in 0 .. Slots - 1 : blocks'[slot].content = <<>>
<1>1. MaxCompiles \in 0 .. MaxCompiles
  BY Bounds
<1>2. module' \in {0, 1, None}
  <2>1. CASE compiled /\ module # None
    <3>1. module \in {0, 1} /\ module' \in {1 - module, None}
      BY <2>1 DEF JitTypes, ClearInstructionCache, ClearJit
    <3>2. 1 - module \in {0, 1}
      BY <3>1
    <3> QED
      BY <3>1, <3>2
  <2>2. CASE ~(compiled /\ module # None)
    BY <2>2 DEF JitTypes, ClearInstructionCache, ClearJit
  <2> QED
    BY <2>1, <2>2
<1>3. JitTypes'
  BY <1>1, <1>2 DEF JitTypes, ClearInstructionCache, ClearJit
<1> QED
  BY <1>3, EmptyCaches DEF ClearInstructionCache, ClearJit

LEMMA ReplacedCaches ==
  ASSUME Replacement
  PROVE  /\ BlocksInv' /\ EntriesInv' /\ FastInv' /\ JitTypes'
         /\ written' = {}
         /\ DOMAIN entries' = {}
         /\ \A slot \in 0 .. Slots - 1 : blocks'[slot].content = <<>>
<1>1. MaxCompiles \in 0 .. MaxCompiles
  BY Bounds
<1>2. JitTypes'
  BY <1>1 DEF JitTypes, Replacement
<1> QED
  BY <1>2, EmptyCaches DEF Replacement

\* The guest's stores are marked.
LEMMA EffectsMarked ==
  ASSUME CodeTypes, NEW kinds, Effects(kinds)
  PROVE  Marked /\ CodeTypes'
<1>1. CASE UNCHANGED <<code, written>>
  BY <1>1 DEF Marked, CodeTypes
<1>2. ASSUME NEW a \in Stores, NEW kind \in NewKinds,
             code' = [code EXCEPT ![a] = kind], written' = written \cup {a}
      PROVE  Marked /\ CodeTypes'
  <2>1. a \in Addresses /\ kind \in Kinds
    BY Bounds, CacheAssumption
  <2> QED
    BY <1>2, <2>1 DEF Marked, CodeTypes
<1> QED
  BY <1>1, <1>2 DEF Effects

\* A sound block runs through no stop, if its start was handled or is none.
LEMMA PassedNothing ==
  ASSUME NothingSkipped, NEW s \in Addresses, NEW c \in Contents, Sound(s, c),
         NEW k \in 1 .. Len(c), NEW first \in BOOLEAN, Passed(s, k, first),
         first \/ ~HasStop(s, active, args)
  PROVE  NothingSkipped'
<1>1. Len(c) \in Nat /\ k \in Nat /\ k <= Len(c)
  BY LenProperties DEF Contents
<1>2. ASSUME NEW o \in (IF first THEN 1 ELSE 0) .. k - 1
      PROVE  ~HasStop(Plus(s, o), active, args)
  <2>1. CASE o = 0
    <3>1. ~first
      BY <1>2, <2>1
    <3> QED
      BY <2>1, <3>1, PlusZero
  <2>2. CASE o # 0
    <3>1. o \in 1 .. Len(c) - 1
      BY <1>1, <1>2, <2>2
    <3>2. Plus(s, o) \notin Boundaries
      BY <3>1 DEF Sound, Whole, IsInstructionBlockBoundary
    <3> QED
      BY <3>2 DEF Boundaries, HasStop
  <2> QED
    BY <2>1, <2>2
<1>3. missed' = missed
  BY <1>2 DEF Passed
<1> QED
  BY <1>3 DEF NothingSkipped

-----------------------------------------------------------------------------
(* The initial states and the host's steps.                                *)

LEMMA InitIInv == Init => IInv
<1> SUFFICES ASSUME Init PROVE IInv
  OBVIOUS
<1>1. <<>> \in Contents /\ Len(<<>>) = 0
  BY Bounds DEF Contents
<1>2. \A slot \in 0 .. Slots - 1 : blocks[slot] = [start |-> 0, content |-> <<>>]
  BY DEF Init, NoBlocks
<1>3. BlocksInv
  <2>1. Sound(0, <<>>)
    BY <1>1 DEF Sound, SameCode, Whole
  <2>2. blocks \in [0 .. Slots - 1 -> [start : Addresses, content : Contents]]
    BY <1>1, Bounds DEF Init, NoBlocks
  <2> QED
    BY <1>2, <2>1, <2>2 DEF BlocksInv
<1>4. DOMAIN entries = {}
  BY DEF Init
<1>5. EntriesInv
  BY <1>4, Bounds, FS_EmptySet DEF Init, EntriesInv
<1>6. FastInv
  BY <1>4, SlotType, Bounds DEF Init, FastInv, NoFast, EntryOf, NewEntry
<1>7. JitTypes /\ CodeTypes /\ FrameTypes /\ PhaseInv /\ NothingSkipped
  <2>1. MaxCompiles \in 0 .. MaxCompiles /\ 0 \in 0 .. Quantum
    BY Bounds
  <2>2. JitTypes
    BY <2>1 DEF Init, JitTypes
  <2>3. CodeTypes
    BY CacheAssumption DEF Init, CodeTypes
  <2>4. FrameTypes
    BY <2>1, Bounds DEF Init, FrameTypes
  <2>5. PhaseInv /\ NothingSkipped
    BY DEF Init, PhaseInv, NothingSkipped
  <2> QED
    BY <2>2, <2>3, <2>4, <2>5
<1>8. GuestTypes
  <2>1. cheats \in [{} -> Kinds]
    BY DEF Init
  <2>2. cheats \in UNION {[s -> Kinds] : s \in SUBSET Patched}
    BY <2>1
  <2> QED
    BY <2>2, Bounds DEF Init, GuestTypes, Contexts
<1>9. FreshInv
  BY <1>2, <1>4 DEF Init, FreshInv
<1> QED
  BY <1>3, <1>5, <1>6, <1>7, <1>8, <1>9 DEF IInv

\* Rules keep to the addresses that may be patched.
LEMMA CheatTypes ==
  ASSUME GuestTypes
  PROVE  /\ DOMAIN cheats \subseteq Patched
         /\ \A a \in DOMAIN cheats : cheats[a] \in Kinds
         /\ \A a \in Patched, kind \in Kinds :
               /\ [b \in DOMAIN cheats \cup {a} |-> IF b = a THEN kind ELSE cheats[b]]
                     \in UNION {[s -> Kinds] : s \in SUBSET Patched}
               /\ [b \in DOMAIN cheats \ {a} |-> cheats[b]]
                     \in UNION {[s -> Kinds] : s \in SUBSET Patched}
<1>1. PICK s \in SUBSET Patched : cheats \in [s -> Kinds]
  BY DEF GuestTypes
<1>2. DOMAIN cheats = s /\ \A a \in s : cheats[a] \in Kinds
  BY <1>1
<1>3. ASSUME NEW a \in Patched, NEW kind \in Kinds
      PROVE  /\ [b \in s \cup {a} |-> IF b = a THEN kind ELSE cheats[b]]
                   \in [s \cup {a} -> Kinds]
             /\ [b \in s \ {a} |-> cheats[b]] \in [s \ {a} -> Kinds]
             /\ s \cup {a} \in SUBSET Patched /\ s \ {a} \in SUBSET Patched
  BY <1>2
<1>4. ASSUME NEW a \in Patched, NEW kind \in Kinds
      PROVE  /\ [b \in s \cup {a} |-> IF b = a THEN kind ELSE cheats[b]]
                   \in UNION {[t -> Kinds] : t \in SUBSET Patched}
             /\ [b \in s \ {a} |-> cheats[b]] \in UNION {[t -> Kinds] : t \in SUBSET Patched}
  <2> DEFINE f == [b \in s \cup {a} |-> IF b = a THEN kind ELSE cheats[b]]
             g == [b \in s \ {a} |-> cheats[b]]
  <2>1. f \in [s \cup {a} -> Kinds] /\ g \in [s \ {a} -> Kinds]
        /\ s \cup {a} \in SUBSET Patched /\ s \ {a} \in SUBSET Patched
    BY <1>3
  <2> HIDE DEF f, g
  <2>2. f \in UNION {[t -> Kinds] : t \in SUBSET Patched}
    BY <2>1
  <2>3. g \in UNION {[t -> Kinds] : t \in SUBSET Patched}
    BY <2>1
  <2> QED
    BY <2>2, <2>3 DEF f, g
<1> QED
  BY <1>1, <1>2, <1>4

\* SetCheat and ClearCheats clear the caches, Reset and UnserializeState
\* replace them.
LEMMA HostInv ==
  ASSUME IInv, SetCheat \/ ClearCheats \/ Reset \/ UnserializeState
  PROVE  IInv'
<1> USE DEF IInv
<1>1. /\ BlocksInv' /\ EntriesInv' /\ FastInv' /\ JitTypes'
      /\ written' = {}
      /\ DOMAIN entries' = {}
      /\ \A slot \in 0 .. Slots - 1 : blocks'[slot].content = <<>>
  BY ClearedCaches, ReplacedCaches DEF SetCheat, ClearCheats, Reset, UnserializeState
<1>2. phase = "host" /\ UNCHANGED <<frame, missed, cpu>>
  BY DEF SetCheat, ClearCheats, Reset, UnserializeState, AtHost, guest
<1>3. CodeTypes'
  BY <1>1, CacheAssumption
     DEF CodeTypes, SetCheat, ClearCheats, Reset, UnserializeState, guest
<1>4. cheats' \in UNION {[s -> Kinds] : s \in SUBSET Patched}
  <2>1. CASE SetCheat
    BY <2>1, CheatTypes, CacheAssumption DEF SetCheat
  <2>2. CASE ClearCheats
    <3>1. cheats' \in [{} -> Kinds]
      BY <2>2 DEF ClearCheats
    <3> QED
      BY <3>1
  <2>3. CASE Reset \/ UnserializeState
    BY <2>3 DEF Reset, UnserializeState, GuestTypes
  <2> QED
    BY <2>1, <2>2, <2>3
<1>5. active' = active /\ args' \in BOOLEAN /\ fresh' = TRUE
  BY DEF SetCheat, ClearCheats, Reset, UnserializeState, Replacement, GuestTypes, guest, frame
<1>6. GuestTypes'
  BY <1>2, <1>4, <1>5 DEF GuestTypes
<1>7. FrameTypes' /\ PhaseInv' /\ NothingSkipped'
  BY <1>2 DEF FrameTypes, PhaseInv, NothingSkipped, frame
<1>8. FreshInv'
  BY <1>1, <1>2 DEF FreshInv, frame
<1> QED
  BY <1>1, <1>3, <1>6, <1>7, <1>8

LEMMA SetJitEnabledInv ==
  ASSUME IInv, SetJitEnabled
  PROVE  IInv'
<1> USE DEF IInv, SetJitEnabled, history, frame
<1>1. BlocksInv' /\ EntriesInv' /\ FastInv'
  BY KeptCaches, SameCode_Marked
<1>2. JitTypes' /\ CodeTypes' /\ GuestTypes' /\ FrameTypes' /\ NothingSkipped' /\ FreshInv'
  BY DEF JitTypes, CodeTypes, GuestTypes, FrameTypes, NothingSkipped, FreshInv
<1>3. PhaseInv'
  BY DEF PhaseInv, AtHost
<1> QED
  BY <1>1, <1>2, <1>3

\* A context goes on somewhere.
LEMMA Resumed ==
  ASSUME GuestTypes, FrameTypes, NEW context \in Contexts, NEW words, Resume(context, words),
         UNCHANGED <<cheats, args, call>>, fresh' \in BOOLEAN
  PROVE  GuestTypes' /\ FrameTypes' /\ PhaseInv'
<1>1. cpu' \in [pc : Addresses, delay : BOOLEAN]
  BY DEF Resume, MoveTo
<1>2. GuestTypes'
  BY <1>1 DEF GuestTypes, Resume
<1>3. FrameTypes' /\ PhaseInv'
  BY Bounds DEF FrameTypes, PhaseInv, Resume
<1> QED
  BY <1>2, <1>3

\* apply_cheats changes code: after the host's changes there is nothing in
\* the caches, and later the change is marked.
LEMMA BeginFrameInv ==
  ASSUME IInv, BeginFrame
  PROVE  IInv'
<1> USE DEF IInv
<1>1. code' \in [Addresses -> Kinds]
  BY CheatTypes DEF BeginFrame, CodeTypes
<1>2. CodeTypes'
  BY <1>1, CheatTypes, Bounds DEF BeginFrame, CodeTypes
<1>3. JitTypes'
  BY Bounds DEF BeginFrame, JitTypes
<1>4. BlocksInv' /\ EntriesInv'
  <2>1. CASE ~fresh
    <3>1. Marked
      BY <2>1 DEF Marked, BeginFrame
    <3> QED
      BY <3>1, KeptBlocks, KeptEntries DEF BeginFrame
  <2>2. CASE fresh
    <3>1. EntriesInv'
      BY <2>2 DEF BeginFrame, FreshInv, EntriesInv
    <3>2. ASSUME NEW slot \in 0 .. Slots - 1
          PROVE  Sound(blocks[slot].start, blocks[slot].content)'
      <4>1. blocks'[slot].content = <<>> /\ Len(<<>>) = 0
        BY <2>2 DEF BeginFrame, FreshInv
      <4> QED
        BY <4>1 DEF Sound, SameCode, Whole
    <3>3. BlocksInv'
      BY <3>2 DEF BlocksInv, BeginFrame
    <3> QED
      BY <3>1, <3>3
  <2> QED
    BY <2>1, <2>2
<1>5. FastInv'
  BY KeptFast DEF BeginFrame, EntryOf
<1>6. GuestTypes' /\ FrameTypes' /\ PhaseInv'
  BY Resumed DEF BeginFrame, Contexts
<1>7. FreshInv' /\ NothingSkipped'
  BY DEF BeginFrame, FreshInv, NothingSkipped
<1> QED
  BY <1>2, <1>3, <1>4, <1>5, <1>6, <1>7

-----------------------------------------------------------------------------
(* The steps of a slice, and what the steps of a frame share.              *)

\* In a frame nothing is fresh.
LEMMA NeverFresh ==
  ASSUME FreshInv, phase # "host", UNCHANGED fresh
  PROVE  FreshInv'
BY DEF FreshInv

\* A call that is over has used no more than was left.
LEMMA Returned ==
  ASSUME FrameTypes, NEW done \in Nat, done <= remaining, ReturnWith(done)
  PROVE  FrameTypes' /\ PhaseInv'
<1>1. remaining \in Nat /\ Quantum \in Nat
  BY Bounds DEF FrameTypes
<1>2. remaining - done \in 0 .. Quantum
  BY <1>1 DEF FrameTypes
<1>3. FrameTypes'
  BY <1>2, Bounds DEF FrameTypes, ReturnWith
<1>4. PhaseInv'
  BY DEF PhaseInv, ReturnWith
<1> QED
  BY <1>3, <1>4

LEMMA NextSliceInv ==
  ASSUME IInv, NextSlice
  PROVE  IInv'
<1> USE DEF IInv
<1>1. BlocksInv' /\ EntriesInv' /\ FastInv'
  BY KeptCaches, SameCode_Marked DEF NextSlice, jit, history
<1>2. JitTypes' /\ CodeTypes' /\ NothingSkipped'
  BY DEF NextSlice, jit, history, JitTypes, CodeTypes, NothingSkipped
<1>3. FreshInv'
  BY NeverFresh DEF NextSlice, SliceOver, history
<1>4. GuestTypes' /\ FrameTypes' /\ PhaseInv'
  <2>1. CASE active = "main"
    BY <2>1, Resumed DEF NextSlice, Contexts, history, GuestTypes
  <2>2. CASE active # "main"
    <3>1. GuestTypes'
      <4>1. [pc |-> 0, delay |-> FALSE] \in [pc : Addresses, delay : BOOLEAN]
        BY Bounds
      <4>2. cpu' \in [pc : Addresses, delay : BOOLEAN] /\ active' = "main"
        BY <2>2, <4>1 DEF NextSlice, MoveTo
      <4> QED
        BY <4>2 DEF NextSlice, GuestTypes, Contexts, history
    <3>2. FrameTypes' /\ PhaseInv'
      BY <2>2, Bounds DEF NextSlice, FrameTypes, PhaseInv
    <3> QED
      BY <3>1, <3>2
  <2> QED
    BY <2>1, <2>2
<1> QED
  BY <1>1, <1>2, <1>3, <1>4

LEMMA DispatchInv ==
  ASSUME IInv, NEW invalidates \in BOOLEAN, Dispatch(invalidates)
  PROVE  IInv'
<1> USE DEF IInv
<1>1. /\ BlocksInv' /\ EntriesInv' /\ FastInv' /\ JitTypes'
      /\ CodeTypes'
  <2>1. CASE invalidates
    BY <2>1, ClearedCaches DEF Dispatch, CodeTypes
  <2>2. CASE ~invalidates
    BY <2>2, KeptCaches, SameCode_Marked DEF Dispatch, CodeTypes, JitTypes, jit
  <2> QED
    BY <2>1, <2>2
<1>2. GuestTypes'
  <2>1. cpu' \in [pc : Addresses, delay : BOOLEAN]
    BY Bounds DEF Dispatch, MoveTo, GuestTypes
  <2> QED
    BY <2>1 DEF Dispatch, GuestTypes
<1>3. FrameTypes' /\ PhaseInv'
  <2>1. remaining \in Nat /\ remaining # 0 /\ Quantum \in Nat /\ remaining <= Quantum
    BY Bounds DEF Dispatch, InSlice, FrameTypes
  <2>2. remaining' \in 0 .. Quantum
    BY <2>1 DEF Dispatch
  <2> QED
    BY <2>2 DEF Dispatch, InSlice, FrameTypes, PhaseInv
<1>4. FreshInv' /\ NothingSkipped'
  BY NeverFresh DEF Dispatch, InSlice, NothingSkipped
<1> QED
  BY <1>1, <1>2, <1>3, <1>4

LEMMA EnterBlockInv ==
  ASSUME IInv, EnterBlock
  PROVE  IInv'
<1> USE DEF IInv
<1>1. BlocksInv' /\ EntriesInv' /\ FastInv'
  BY KeptCaches, SameCode_Marked DEF EnterBlock, jit, history
<1>2. JitTypes' /\ CodeTypes' /\ GuestTypes' /\ NothingSkipped'
  BY DEF EnterBlock, jit, history, JitTypes, CodeTypes, GuestTypes, NothingSkipped
<1>3. FreshInv'
  BY NeverFresh DEF EnterBlock, InSlice, history
<1>4. FrameTypes' /\ PhaseInv'
  <2>1. cpu.pc \in Addresses /\ remaining \in Nat /\ 0 \in 0 .. Quantum
    BY Bounds DEF GuestTypes, FrameTypes
  <2>2. call'.start = cpu.pc /\ call'.done = 0 /\ ~call'.attempted
    BY DEF EnterBlock
  <2>3. FrameTypes'
    BY <2>1 DEF EnterBlock, FrameTypes
  <2>4. PhaseInv'
    BY <2>1, <2>2 DEF EnterBlock, PhaseInv
  <2> QED
    BY <2>3, <2>4
<1> QED
  BY <1>1, <1>2, <1>3, <1>4

-----------------------------------------------------------------------------
(* execute_compiled.                                                       *)

\* A new entry is in order, too.
LEMMA EntryOfOK ==
  ASSUME EntriesInv, NEW s \in Addresses
  PROVE  EntryOK(s, EntryOf(s))
<1>1. CASE s \in DOMAIN entries
  BY <1>1 DEF EntryOf, EntriesInv
<1>2. CASE s \notin DOMAIN entries
  BY <1>2, Bounds DEF EntryOf, EntryOK, NewEntry
<1> QED
  BY <1>1, <1>2

\* What is found is the table's, and sound.
LEMMA FoundSound ==
  ASSUME EntriesInv, FastInv, GuestTypes, Found # None
  PROVE  /\ cpu.pc \in Addresses /\ cpu.pc \in DOMAIN entries
         /\ EntryOf(cpu.pc) = entries[cpu.pc]
         /\ Found = entries[cpu.pc].block
         /\ EntryOK(cpu.pc, entries[cpu.pc])
         /\ Found \in Blocks /\ Found.content \in Contents
         /\ Len(Found.content) \in Nat /\ Len(Found.content) >= 1
         /\ Sound(cpu.pc, Found.content)
<1>1. cpu.pc \in Addresses
  BY DEF GuestTypes
<1>2. Found = EntryOf(cpu.pc).block
  BY <1>1 DEF Found, FindBlock, FastInv
<1>3. cpu.pc \in DOMAIN entries
  BY <1>2 DEF EntryOf, NewEntry
<1>4. EntryOf(cpu.pc) = entries[cpu.pc] /\ EntryOK(cpu.pc, entries[cpu.pc])
  BY <1>3 DEF EntryOf, EntriesInv
<1>5. Found \in Blocks /\ Sound(cpu.pc, Found.content)
  BY <1>2, <1>4 DEF EntryOK
<1>6. Found.content \in Contents /\ Len(Found.content) >= 1
  BY <1>5, BlockType
<1>7. Len(Found.content) \in Nat
  BY <1>6, LenProperties DEF Contents
<1> QED
  BY <1>1, <1>2, <1>3, <1>4, <1>5, <1>6, <1>7

\* A chain that stops before its first block goes on in the block cache.
LEMMA Stopped ==
  ASSUME FrameTypes, PhaseInv, AtNative, NEW attempted \in BOOLEAN,
         StopChain(call.done, attempted), UNCHANGED <<cpu, active, args>>,
         ~attempted /\ call.done = 0 => Cold'
  PROVE  FrameTypes' /\ PhaseInv'
<1>1. CASE call.done # 0
  <2>1. call.done \in Nat /\ call.done <= remaining
    BY Bounds DEF FrameTypes, PhaseInv, AtNative
  <2>2. ReturnWith(call.done)
    BY <1>1 DEF StopChain
  <2>3. PICK done \in Nat : done = call.done
    BY <2>1
  <2> QED
    BY <2>1, <2>2, <2>3, Returned
<1>2. CASE call.done = 0
  <2>1. phase' = "lookup" /\ call' = [call EXCEPT !.attempted = attempted]
        /\ UNCHANGED remaining
    BY <1>2 DEF StopChain
  <2>2. FrameTypes'
    BY <2>1 DEF FrameTypes
  <2>3. call'.attempted = attempted
    BY <2>1 DEF FrameTypes
  <2>4. PhaseInv'
    BY <1>2, <2>1, <2>3 DEF PhaseInv
  <2> QED
    BY <2>2, <2>4
<1> QED
  BY <1>1, <1>2

LEMMA NativeMissingInv ==
  ASSUME IInv, NativeMissing
  PROVE  IInv'
<1> USE DEF IInv
<1>1. BlocksInv' /\ EntriesInv' /\ FastInv'
  BY KeptCaches, SameCode_Marked DEF NativeMissing, jit, history, guest
<1>2. JitTypes' /\ CodeTypes' /\ GuestTypes' /\ NothingSkipped'
  BY DEF NativeMissing, jit, history, guest, JitTypes, CodeTypes, GuestTypes, NothingSkipped
<1>3. FreshInv'
  BY NeverFresh DEF NativeMissing, AtNative, history
<1>4. ASSUME call.done = 0 PROVE Cold'
  <2>1. cpu.pc = call.start /\ cpu.pc \in Addresses
    BY <1>4 DEF NativeMissing, AtNative, PhaseInv, GuestTypes
  <2>2. ~Available \/ EntryOf(call.start).block = None
    BY <2>1 DEF NativeMissing, Found, FindBlock, FastInv
  <2>3. call'.start = call.start
    BY <1>4 DEF NativeMissing, StopChain, FrameTypes
  <2> QED
    BY <2>2, <2>3 DEF NativeMissing, jit, Cold, Available, EntryOf
<1>5. FrameTypes' /\ PhaseInv'
  <2>1. PICK attempted \in BOOLEAN : attempted = call.attempted
    BY DEF FrameTypes
  <2> QED
    BY <1>4, <2>1, Stopped DEF NativeMissing, guest
<1> QED
  BY <1>1, <1>2, <1>3, <1>5

LEMMA NativeTooLongInv ==
  ASSUME IInv, NativeTooLong
  PROVE  IInv'
<1> USE DEF IInv
<1>1. Marked
  BY SameCode_Marked DEF NativeTooLong, history, guest
<1>2. BlocksInv' /\ EntriesInv'
  BY <1>1, KeptBlocks, KeptEntries DEF NativeTooLong
<1>3. FastInv'
  <2>1. PICK s \in Addresses, b \in Blocks : s = cpu.pc /\ b = Found
    BY FoundSound DEF NativeTooLong
  <2>2. fast' = FastWith(s, b) /\ EntryOf(s).block = b
    BY <2>1, FoundSound DEF NativeTooLong
  <2>3. \A a \in Addresses : EntryOf(a).block' = EntryOf(a).block
    BY DEF NativeTooLong, EntryOf
  <2> QED
    BY <2>2, <2>3, ChangedFast
<1>4. JitTypes' /\ CodeTypes' /\ GuestTypes' /\ NothingSkipped'
  BY DEF NativeTooLong, history, guest, JitTypes, CodeTypes, GuestTypes, NothingSkipped
<1>5. FreshInv'
  BY NeverFresh DEF NativeTooLong, AtNative, history
<1>6. FrameTypes' /\ PhaseInv'
  BY Stopped DEF NativeTooLong, guest
<1> QED
  BY <1>2, <1>3, <1>4, <1>5, <1>6

\* One more exit without an instruction: the entry is given up in time.
LEMMA CountedOK ==
  ASSUME NEW s, NEW e, EntryOK(s, e), e.block # None
  PROVE  EntryOK(s, Counted(e)) /\ Counted(e).block \in Blocks \cup {None}
<1> DEFINE one == [e EXCEPT !.zero_exits = @ + 1]
<1>1. e.zero_exits \in Nat /\ e.zero_exits < MaxZeroExits /\ MaxZeroExits \in Nat /\ ~e.failed
  BY Bounds DEF EntryOK
<1>2. e.zero_exits + 1 \in 0 .. MaxZeroExits
  BY <1>1
<1>3. e.hits \in 0 .. HotThreshold /\ e.failed \in BOOLEAN /\ e.block \in Blocks \cup {None}
  BY DEF EntryOK
<1>4. one = [hits |-> e.hits, failed |-> e.failed, zero_exits |-> e.zero_exits + 1,
             block |-> e.block]
  BY DEF EntryOK
<1>5. CASE GivesUp(one)
  <2>1. Counted(e) = [hits |-> e.hits, failed |-> TRUE, zero_exits |-> e.zero_exits + 1,
                      block |-> None]
    BY <1>4, <1>5 DEF Counted
  <2> HIDE DEF one
  <2> QED
    BY <1>2, <1>3, <2>1 DEF EntryOK
<1>6. CASE ~GivesUp(one)
  <2>1. Counted(e) = [hits |-> e.hits, failed |-> e.failed, zero_exits |-> e.zero_exits + 1,
                      block |-> e.block]
    BY <1>4, <1>6 DEF Counted
  <2>2. e.zero_exits + 1 < MaxZeroExits
    BY <1>1, <1>4, <1>6 DEF GivesUp
  <2> HIDE DEF one
  <2> QED
    BY <1>2, <1>3, <2>1, <2>2 DEF EntryOK
<1> QED
  BY <1>5, <1>6

LEMMA NativeZeroInv ==
  ASSUME IInv, NativeZero
  PROVE  IInv'
<1> USE DEF IInv
<1>1. Marked
  BY SameCode_Marked DEF NativeZero, history, guest
<1>2. BlocksInv'
  BY <1>1, KeptBlocks DEF NativeZero
<1>3. PICK s, e : s \in DOMAIN entries /\ s = cpu.pc /\ e = Counted(entries[s])
  BY FoundSound DEF NativeZero
<1>4. s \in Addresses /\ EntryOK(s, e) /\ e.block \in Blocks \cup {None}
      /\ EntryOf(s) = entries[s]
  <2>1. PICK f : f = entries[s]
    OBVIOUS
  <2>2. EntryOK(s, f) /\ f.block # None
    BY <1>3, <2>1, FoundSound DEF NativeZero
  <2> QED
    BY <1>3, <2>1, <2>2, CountedOK, FoundSound DEF NativeZero
<1>5. entries' = With(s, e)
  <2>1. entries' = [entries EXCEPT ![s] = e]
    BY <1>3 DEF NativeZero
  <2> QED
    BY <1>3, <2>1, InPlace
<1>6. EntryOK(s, e)'
  <2>1. UNCHANGED <<module, compiled>>
    BY DEF NativeZero
  <2> HIDE DEF IInv
  <2> QED
    BY <1>1, <1>4, <2>1, KeptEntry
<1>7. EntriesInv'
  BY <1>1, <1>3, <1>4, <1>5, <1>6, ChangedEntries DEF NativeZero
<1>8. FastInv'
  <2>1. fast' = FastWith(s, e.block)
    BY <1>3, <1>4 DEF NativeZero
  <2> QED
    BY <1>4, <1>5, <2>1, ChangedEntryOf, ChangedFast
<1>9. JitTypes' /\ CodeTypes' /\ GuestTypes' /\ NothingSkipped'
  BY DEF NativeZero, history, guest, JitTypes, CodeTypes, GuestTypes, NothingSkipped
<1>10. FreshInv'
  BY NeverFresh DEF NativeZero, AtNative, history
<1>11. FrameTypes' /\ PhaseInv'
  BY Stopped DEF NativeZero, guest
<1> QED
  BY <1>2, <1>7, <1>8, <1>9, <1>10, <1>11

\* What native code may complete of a block, and where it goes on.
LEMMA CompletedPart ==
  ASSUME NEW c \in Contents, NEW k \in Completions(c) \ {0}
  PROVE  k \in 1 .. Len(c) /\ k \in Nat
<1>1. Len(c) \in Nat
  BY LenProperties DEF Contents
<1> QED
  BY <1>1 DEF Completions

LEMMA NativeRunInv ==
  ASSUME IInv, NativeRun
  PROVE  IInv'
<1> USE DEF IInv
<1>1. PICK s \in DOMAIN entries, b \in Blocks : s = cpu.pc /\ b = Found
  BY FoundSound DEF NativeRun
<1>2. /\ s \in Addresses /\ EntryOf(s) = entries[s] /\ b = entries[s].block
      /\ EntryOK(s, entries[s]) /\ b.content \in Contents /\ Sound(s, b.content)
      /\ Len(b.content) \in Nat
  BY <1>1, FoundSound DEF NativeRun
<1>3. PICK k \in Completions(b.content) \ {0}, pc \in Addresses :
         /\ MoveTo(pc, FALSE)
         /\ Effects({b.content[o] : o \in 1 .. k})
         /\ Passed(s, k, call.done = 0)
         /\ IF call.done + k >= remaining \/ JitChainExitRequired(pc)
            THEN ReturnWith(call.done + k)
            ELSE /\ call' = [call EXCEPT !.done = @ + k, !.attempted = TRUE]
                 /\ UNCHANGED <<phase, remaining>>
  BY <1>1 DEF NativeRun
<1>4. k \in 1 .. Len(b.content) /\ k \in Nat /\ k # 0 /\ k <= Len(b.content)
  BY <1>2, CompletedPart
<1>5. Marked /\ CodeTypes'
  BY <1>3, EffectsMarked
<1>6. BlocksInv'
  BY <1>5, KeptBlocks DEF NativeRun
<1>7. PICK e : e = [entries[s] EXCEPT !.zero_exits = 0]
  OBVIOUS
<1>8. EntryOK(s, e) /\ e.block = b
  <2>1. e.block = b /\ e.failed = entries[s].failed /\ e.hits = entries[s].hits
        /\ e.zero_exits = 0
    BY <1>2, <1>7 DEF EntryOK
  <2>2. e \in [hits : 0 .. HotThreshold, failed : BOOLEAN, zero_exits : 0 .. MaxZeroExits,
               block : Blocks \cup {None}]
    BY <1>2, <1>7, Bounds DEF EntryOK
  <2> QED
    BY <1>2, <2>1, <2>2, Bounds DEF EntryOK
<1>9. entries' = With(s, e)
  <2>1. entries' = [entries EXCEPT ![s] = e]
    BY <1>1, <1>7 DEF NativeRun
  <2> QED
    BY <2>1, InPlace
<1>10. EntriesInv'
  <2>1. EntryOK(s, e)'
    BY <1>2, <1>5, <1>8, KeptEntry DEF NativeRun
  <2> QED
    BY <1>2, <1>5, <1>9, <2>1, ChangedEntries DEF NativeRun
<1>11. FastInv'
  <2>1. fast' = FastWith(s, b)
    BY <1>1 DEF NativeRun
  <2> QED
    BY <1>2, <1>8, <1>9, <2>1, ChangedEntryOf, ChangedFast
<1>12. JitTypes'
  BY DEF NativeRun, JitTypes
<1>13. GuestTypes'
  <2>1. cpu' \in [pc : Addresses, delay : BOOLEAN]
    BY <1>3 DEF MoveTo
  <2> QED
    BY <2>1 DEF NativeRun, GuestTypes
<1>14. FreshInv'
  BY NeverFresh DEF NativeRun, AtNative
<1>15. NothingSkipped'
  <2>1. call.done = 0 \/ ~HasStop(s, active, args)
    BY <1>1 DEF NativeRun, AtNative, PhaseInv
  <2>2. PICK first \in BOOLEAN : first = (call.done = 0)
    OBVIOUS
  <2> QED
    BY <1>2, <1>3, <1>4, <2>1, <2>2, PassedNothing
<1>16. FrameTypes' /\ PhaseInv'
  <2>1. call.done \in Nat /\ remaining \in Nat /\ Quantum \in Nat /\ remaining <= Quantum
        /\ call.done <= remaining
    BY Bounds DEF FrameTypes, NativeRun, AtNative, PhaseInv
  <2>2. Len(b.content) <= remaining - call.done
    BY <1>1 DEF NativeRun, Limit
  <2>3. call.done + k \in Nat /\ call.done + k <= remaining /\ call.done + k # 0
    BY <1>2, <1>4, <2>1, <2>2
  <2>4. CASE call.done + k >= remaining \/ JitChainExitRequired(pc)
    <3>1. PICK done \in Nat : done = call.done + k
      BY <2>3
    <3> QED
      BY <1>3, <2>3, <2>4, <3>1, Returned
  <2>5. CASE ~(call.done + k >= remaining \/ JitChainExitRequired(pc))
    <3>1. call' = [call EXCEPT !.done = @ + k, !.attempted = TRUE] /\ UNCHANGED <<phase, remaining>>
      BY <1>3, <2>5
    <3>2. call.done + k \in 0 .. Quantum
      BY <2>1, <2>3
    <3>3. call'.done = call.done + k /\ call'.attempted = TRUE
      BY <3>1 DEF FrameTypes
    <3>4. FrameTypes'
      BY <3>1, <3>2 DEF FrameTypes
    <3>5. cpu'.pc = pc /\ ~cpu'.delay /\ ~HasStop(pc, active, args)
      BY <1>3, <2>5 DEF MoveTo, JitChainExitRequired
    <3>6. phase' = "native" /\ UNCHANGED <<active, args>>
      BY <3>1 DEF NativeRun, AtNative
    <3>7. PhaseInv'
      BY <2>3, <3>1, <3>3, <3>5, <3>6 DEF PhaseInv, HasStop
    <3> QED
      BY <3>4, <3>7
  <2> QED
    BY <2>4, <2>5
<1> QED
  BY <1>5, <1>6, <1>10, <1>11, <1>12, <1>13, <1>14, <1>15, <1>16

-----------------------------------------------------------------------------
(* The block cache and the interpreter.                                    *)

LEMMA EnsureInstructionBlockInv ==
  ASSUME IInv, EnsureInstructionBlock
  PROVE  IInv'
<1> USE DEF IInv
<1>1. Marked
  BY SameCode_Marked DEF EnsureInstructionBlock, history, guest
<1>2. call.start \in Addresses /\ BlockSlot(call.start) \in 0 .. Slots - 1
  BY SlotType DEF FrameTypes
<1>3. ASSUME Cached(call.start) PROVE BlocksInv' /\ Cached(call.start)'
  <2>1. UNCHANGED blocks
    BY <1>3 DEF EnsureInstructionBlock
  <2>2. BlocksInv'
    BY <1>1, <2>1, KeptBlocks
  <2>3. Cached(call.start)'
    BY <1>3, <2>1 DEF EnsureInstructionBlock, GoTo, Cached, BlockSlot
  <2> QED
    BY <2>2, <2>3
<1>4. ASSUME ~Cached(call.start) PROVE BlocksInv' /\ Cached(call.start)'
  <2>1. PICK s, f : s \in Addresses /\ s = call.start /\ f = Fetched(s)
    BY <1>2
  <2>2. f \in [start : Addresses, content : Contents] /\ f.start = s /\ f.content # <<>>
        /\ Sound(s, f.content)
    BY <2>1, FetchedSound
  <2>3. blocks' = [blocks EXCEPT ![BlockSlot(s)] = f]
    BY <1>4, <2>1 DEF EnsureInstructionBlock
  <2>4. blocks' \in [0 .. Slots - 1 -> [start : Addresses, content : Contents]]
    BY <1>2, <2>1, <2>2, <2>3 DEF BlocksInv
  <2>5. ASSUME NEW slot \in 0 .. Slots - 1
        PROVE  Sound(blocks[slot].start, blocks[slot].content)'
    <3>1. PICK t \in Addresses, c \in Contents : t = blocks'[slot].start /\ c = blocks'[slot].content
      BY <2>4
    <3>2. Sound(t, c)
      BY <2>1, <2>2, <2>3, <3>1 DEF BlocksInv
    <3>3. Sound(t, c)'
      BY <1>1, <3>2, StaysSound
    <3> QED
      BY <3>1, <3>3
  <2>6. BlocksInv'
    BY <2>4, <2>5 DEF BlocksInv
  <2>7. Cached(call.start)'
    <3>1. blocks'[BlockSlot(s)] = f /\ call'.start = s
      BY <1>2, <2>1, <2>3 DEF BlocksInv, EnsureInstructionBlock, GoTo
    <3> QED
      BY <2>2, <3>1 DEF Cached, BlockSlot
  <2> QED
    BY <2>6, <2>7
<1>5. BlocksInv' /\ Cached(call.start)'
  BY <1>3, <1>4
<1>6. EntriesInv' /\ FastInv'
  BY <1>1, KeptEntries, KeptFast DEF EnsureInstructionBlock, jit, EntryOf
<1>7. JitTypes' /\ CodeTypes' /\ GuestTypes' /\ NothingSkipped'
  BY DEF EnsureInstructionBlock, jit, history, guest, JitTypes, CodeTypes, GuestTypes,
         NothingSkipped
<1>8. FreshInv'
  BY NeverFresh DEF EnsureInstructionBlock, history
<1>9. FrameTypes'
  BY DEF EnsureInstructionBlock, GoTo, FrameTypes
<1>10. PhaseInv'
  <2>1. CASE cpu.delay \/ call.attempted
    BY <1>5, <2>1 DEF EnsureInstructionBlock, GoTo, PhaseInv
  <2>2. CASE ~(cpu.delay \/ call.attempted)
    <3>1. Cold
      BY <2>2 DEF EnsureInstructionBlock, PhaseInv
    <3>2. Cold'
      BY <3>1 DEF EnsureInstructionBlock, GoTo, Cold, jit, Available, EntryOf
    <3> QED
      BY <1>5, <2>2, <3>2 DEF EnsureInstructionBlock, GoTo, PhaseInv
  <2> QED
    BY <2>1, <2>2
<1> QED
  BY <1>5, <1>6, <1>7, <1>8, <1>9, <1>10

\* The cached block of the call is sound.
LEMMA ContentSound ==
  ASSUME BlocksInv, FrameTypes, Cached(call.start)
  PROVE  /\ call.start \in Addresses /\ Content \in Contents
         /\ Len(Content) \in Nat /\ Sound(call.start, Content)
<1>1. call.start \in Addresses /\ BlockSlot(call.start) \in 0 .. Slots - 1
  BY SlotType DEF FrameTypes
<1>2. blocks[BlockSlot(call.start)].start = call.start
  BY DEF Cached
<1>3. Content \in Contents /\ Sound(call.start, Content)
  BY <1>1, <1>2 DEF BlocksInv, Content
<1>4. Len(Content) \in Nat
  BY <1>3, LenProperties DEF Contents
<1> QED
  BY <1>1, <1>3, <1>4

LEMMA InterpretInv ==
  ASSUME IInv, Interpret
  PROVE  IInv'
<1> USE DEF IInv
<1>1. PICK s \in Addresses, c \in Contents : s = call.start /\ c = Content
  BY ContentSound DEF Interpret, PhaseInv
<1>2. Sound(s, c) /\ Len(c) \in Nat
  BY <1>1, ContentSound DEF Interpret, PhaseInv
<1>3. PICK k \in 1 .. Longest, pc \in Addresses, delay \in BOOLEAN :
         /\ MoveTo(pc, delay)
         /\ Effects({c[o] : o \in 1 .. k})
         /\ Passed(s, k, TRUE)
         /\ ReturnWith(k)
  BY <1>1 DEF Interpret
<1>4. k \in 1 .. Len(c) /\ k \in Nat /\ k <= remaining
  <2>1. remaining \in Nat
    BY Bounds DEF FrameTypes
  <2>2. Longest \in Nat /\ Longest <= Len(c) /\ Longest <= remaining
    BY <1>1, <1>2, <2>1 DEF Longest
  <2> QED
    BY <1>2, <2>1, <2>2
<1>5. Marked /\ CodeTypes'
  BY <1>3, EffectsMarked
<1>6. BlocksInv' /\ EntriesInv' /\ FastInv'
  BY <1>5, KeptCaches DEF Interpret, jit
<1>7. JitTypes'
  BY DEF Interpret, jit, JitTypes
<1>8. GuestTypes'
  <2>1. cpu' \in [pc : Addresses, delay : BOOLEAN]
    BY <1>3 DEF MoveTo
  <2> QED
    BY <2>1 DEF Interpret, GuestTypes
<1>9. FreshInv'
  BY NeverFresh DEF Interpret
<1>10. NothingSkipped'
  BY <1>2, <1>3, <1>4, PassedNothing
<1>11. FrameTypes' /\ PhaseInv'
  BY <1>3, <1>4, Returned
<1> QED
  BY <1>5, <1>6, <1>7, <1>8, <1>9, <1>10, <1>11

-----------------------------------------------------------------------------
(* JitEngine.execute.                                                      *)

\* An entry that was counted is in order and has no block: otherwise
\* execute_compiled would have found it.
LEMMA CountingOK ==
  ASSUME EntriesInv, FrameTypes, PhaseInv, Eligible
  PROVE  /\ call.start \in Addresses
         /\ EntryOK(call.start, Counting)
         /\ Counting.block = None /\ EntryOf(call.start).block = None
         /\ Counting.hits \in 0 .. HotThreshold
         /\ ~Counting.failed
         /\ Counting.zero_exits < MaxZeroExits
         /\ call.start \in DOMAIN entries \/ ~Full
<1>1. call.start \in Addresses
  BY DEF FrameTypes
<1>2. PICK e : e = EntryOf(call.start)
  OBVIOUS
<1>3. EntryOK(call.start, e) /\ e.block = None /\ ~e.failed
  BY <1>1, <1>2, EntryOfOK DEF Eligible, AtCompile, PhaseInv, Cold
<1>4. Counting = [e EXCEPT !.hits = IF @ = HotThreshold THEN @ ELSE @ + 1]
  BY <1>2 DEF Counting, Hit
<1>5. (IF e.hits = HotThreshold THEN e.hits ELSE e.hits + 1) \in 0 .. HotThreshold
  BY <1>3, Bounds DEF EntryOK
<1>6. /\ Counting.block = None /\ ~Counting.failed
      /\ Counting.hits \in 0 .. HotThreshold
      /\ Counting.zero_exits = e.zero_exits
      /\ Counting \in [hits : 0 .. HotThreshold, failed : BOOLEAN,
                       zero_exits : 0 .. MaxZeroExits, block : Blocks \cup {None}]
  BY <1>3, <1>4, <1>5 DEF EntryOK
<1> QED
  BY <1>1, <1>2, <1>3, <1>6 DEF EntryOK, Eligible, Known

\* A refused block goes on in the interpreter; the table may have changed.
LEMMA RefusedInv ==
  ASSUME IInv, AtCompile, Refuse, budget' \in 0 .. MaxCompiles,
         \/ UNCHANGED entries
         \/ \E s, e :
               /\ s \in Addresses
               /\ entries' = With(s, e)
               /\ EntryOK(s, e)
               /\ e.block = EntryOf(s).block
               /\ s \in DOMAIN entries \/ ~Full
  PROVE  IInv'
<1> USE DEF IInv
<1>1. Marked
  BY SameCode_Marked DEF Refuse, history, guest
<1>2. BlocksInv'
  BY <1>1, KeptBlocks DEF Refuse
<1>3. EntriesInv' /\ FastInv'
  <2>1. CASE UNCHANGED entries
    BY <1>1, <2>1, KeptEntries, KeptFast DEF Refuse, EntryOf
  <2>2. ASSUME NEW s \in Addresses, NEW e, entries' = With(s, e), EntryOK(s, e),
               e.block = EntryOf(s).block, s \in DOMAIN entries \/ ~Full
        PROVE  EntriesInv' /\ FastInv'
    <3>1. EntryOK(s, e)'
      BY <1>1, <2>2, KeptEntry DEF Refuse
    <3>2. EntriesInv'
      BY <1>1, <2>2, <3>1, ChangedEntries DEF Refuse
    <3>3. FastInv'
      BY <2>2, ChangedEntryOf, KeptFast DEF Refuse
    <3> QED
      BY <3>2, <3>3
  <2> QED
    BY <2>1, <2>2
<1>4. JitTypes' /\ CodeTypes' /\ GuestTypes' /\ NothingSkipped'
  BY DEF Refuse, history, guest, JitTypes, CodeTypes, GuestTypes, NothingSkipped
<1>5. FreshInv'
  BY NeverFresh DEF Refuse, AtCompile, history
<1>6. FrameTypes' /\ PhaseInv'
  BY DEF Refuse, GoTo, FrameTypes, PhaseInv, AtCompile, Cached, BlockSlot
<1> QED
  BY <1>2, <1>3, <1>4, <1>5, <1>6

LEMMA RefusalsInv ==
  ASSUME IInv, Decline \/ StayCold \/ TooShort \/ CompileFails
  PROVE  IInv'
<1>1. budget \in 0 .. MaxCompiles /\ MaxCompiles \in Nat
  BY Bounds DEF IInv, JitTypes
<1>2. CASE Decline
  BY <1>1, <1>2, RefusedInv DEF Decline
<1>3. ASSUME Eligible, Refuse, budget' \in 0 .. MaxCompiles,
             \/ entries' = With(call.start, Counting)
             \/ entries' = With(call.start, [Counting EXCEPT !.failed = TRUE])
      PROVE  IInv'
  <2>1. PICK s, e : s \in Addresses /\ s = call.start /\ e = Counting
    BY <1>3, CountingOK DEF IInv
  <2>2. /\ EntryOK(s, e) /\ e.block = None /\ EntryOf(s).block = None
        /\ s \in DOMAIN entries \/ ~Full
    BY <1>3, <2>1, CountingOK DEF IInv
  <2>3. EntryOK(s, [e EXCEPT !.failed = TRUE]) /\ [e EXCEPT !.failed = TRUE].block = None
    BY <2>2 DEF EntryOK
  <2>4. \E x : entries' = With(s, x) /\ EntryOK(s, x) /\ x.block = None
    BY <1>3, <2>1, <2>2, <2>3
  <2> QED
    BY <1>3, <2>1, <2>2, <2>4, RefusedInv DEF Eligible
<1>4. CASE StayCold
  BY <1>1, <1>3, <1>4 DEF StayCold
<1>5. CASE TooShort
  BY <1>1, <1>3, <1>5 DEF TooShort
<1>6. CASE CompileFails
  <2>1. budget - 1 \in 0 .. MaxCompiles
    BY <1>1, <1>6 DEF CompileFails, Compilable, Hot
  <2> QED
    BY <1>3, <1>6, <2>1 DEF CompileFails, Compilable
<1> QED
  BY <1>2, <1>4, <1>5, <1>6

\* What is compiled is a sound part of the cached block.
LEMMA NativeSound ==
  ASSUME BlocksInv, EntriesInv, FrameTypes, PhaseInv, JitTypes, Compilable
  PROVE  /\ Native \in Blocks /\ Native.module = module
         /\ Native.content \in Contents
         /\ Len(Native.content) \in Nat
         /\ Sound(call.start, Native.content)
<1>1. Cached(call.start)
  BY DEF Compilable, Eligible, AtCompile, PhaseInv
<1>2. PICK s, c, n :
         /\ s \in Addresses /\ c \in Contents
         /\ s = call.start /\ c = Content /\ n = CandidateInstructionCount(c)
  BY <1>1, ContentSound
<1>3. Sound(s, c) /\ Len(c) \in Nat
  BY <1>1, <1>2, ContentSound
<1>4. n \in 1 .. Len(c)
  <2>1. n \in 0 .. Len(c)
    BY <1>2, CandidateBounds DEF Contents
  <2>2. n >= MinCompiledLen
    BY <1>2 DEF Compilable
  <2> QED
    BY <1>3, <2>1, <2>2, Bounds
<1>5. SubSeq(c, 1, n) \in Contents /\ Len(SubSeq(c, 1, n)) = n /\ Sound(s, SubSeq(c, 1, n))
  BY <1>2, <1>3, <1>4, PartSound
<1>6. n \in Nat /\ n >= 1
  BY <1>3, <1>4
<1>7. module \in {0, 1}
  BY DEF JitTypes, Compilable, Eligible, Available
<1>8. Native = [content |-> SubSeq(c, 1, n), module |-> module]
  BY <1>2 DEF Native
<1>9. Native \in Blocks
  BY <1>5, <1>6, <1>7, <1>8, BlockType
<1> QED
  BY <1>2, <1>5, <1>6, <1>8, <1>9

\* A compiled block goes into the table and its front.
LEMMA CompileInv ==
  ASSUME IInv, Compile, Marked, UNCHANGED module
  PROVE  BlocksInv' /\ EntriesInv' /\ FastInv' /\ JitTypes'
<1> USE DEF IInv
<1>1. PICK s, e, b :
         /\ s \in Addresses /\ b \in Blocks
         /\ s = call.start /\ e = [Counting EXCEPT !.block = Native] /\ b = Native
  BY CountingOK, NativeSound DEF Compile, Compilable
<1>2. /\ e.block = b /\ ~e.failed /\ e.hits = Counting.hits
      /\ e.zero_exits = Counting.zero_exits /\ e.zero_exits < MaxZeroExits
      /\ e \in [hits : 0 .. HotThreshold, failed : BOOLEAN, zero_exits : 0 .. MaxZeroExits,
                block : Blocks \cup {None}]
  BY <1>1, CountingOK DEF Compile, Compilable, EntryOK
<1>3. e.hits = HotThreshold
  <2>1. Counting.hits \in 0 .. HotThreshold /\ Counting.hits >= HotThreshold
    BY CountingOK DEF Compile, Compilable, Hot
  <2> QED
    BY <1>2, <2>1, Bounds
<1>4. Sound(s, b.content)' /\ b.module = module
  <2>1. b.content \in Contents /\ Sound(s, b.content) /\ b.module = module
    BY <1>1, NativeSound DEF Compile
  <2> QED
    BY <1>1, <2>1, StaysSound
<1>5. EntryOK(s, e)'
  BY <1>2, <1>3, <1>4 DEF EntryOK, Compile
<1>6. entries' = With(s, e) /\ fast' = FastWith(s, b) /\ compiled' = TRUE
  BY <1>1 DEF Compile
<1>7. s \in DOMAIN entries \/ ~Full
  BY <1>1, CountingOK DEF Compile, Compilable
<1>8. EntriesInv'
  BY <1>1, <1>5, <1>6, <1>7, ChangedEntries
<1>9. FastInv'
  BY <1>1, <1>2, <1>6, ChangedEntryOf, ChangedFast
<1>10. BlocksInv'
  BY KeptBlocks DEF Compile
<1>11. JitTypes'
  <2>1. budget - 1 \in 0 .. MaxCompiles
    BY Bounds DEF JitTypes, Compile, Compilable, Hot
  <2> QED
    BY <2>1 DEF JitTypes, Compile
<1> QED
  BY <1>8, <1>9, <1>10, <1>11

LEMMA CompileOnlyInv ==
  ASSUME IInv, CompileOnly
  PROVE  IInv'
<1> USE DEF IInv
<1>1. Marked
  BY SameCode_Marked DEF CompileOnly
<1>2. BlocksInv' /\ EntriesInv' /\ FastInv' /\ JitTypes'
  BY <1>1, CompileInv DEF CompileOnly, Compile
<1>3. CodeTypes' /\ GuestTypes' /\ NothingSkipped'
  BY DEF CompileOnly, Compile, CodeTypes, GuestTypes, NothingSkipped
<1>4. FreshInv'
  BY NeverFresh DEF CompileOnly, Compile, Compilable, Eligible, AtCompile
<1>5. FrameTypes' /\ PhaseInv'
  BY DEF CompileOnly, Compile, Compilable, Eligible, GoTo, FrameTypes, PhaseInv, AtCompile,
         Cached, BlockSlot
<1> QED
  BY <1>2, <1>3, <1>4, <1>5

LEMMA CompileAndRunInv ==
  ASSUME IInv, CompileAndRun
  PROVE  IInv'
<1> USE DEF IInv
<1>1. PICK s \in Addresses, c \in Contents : s = call.start /\ c = Native.content
  BY NativeSound DEF CompileAndRun, Compile, FrameTypes
<1>2. Sound(s, c) /\ Len(c) \in Nat
  BY <1>1, NativeSound DEF CompileAndRun, Compile
<1>3. PICK k \in Completions(c) \ {0}, pc \in Addresses :
         /\ MoveTo(pc, FALSE)
         /\ Effects({c[o] : o \in 1 .. k})
         /\ Passed(s, k, TRUE)
         /\ ReturnWith(k)
  BY <1>1 DEF CompileAndRun
<1>4. k \in 1 .. Len(c) /\ k \in Nat /\ k <= remaining
  <2>1. remaining \in Nat /\ Len(c) <= remaining
    BY <1>1, Bounds DEF FrameTypes, CompileAndRun
  <2>2. k \in 1 .. Len(c) /\ k \in Nat
    BY CompletedPart
  <2> QED
    BY <1>2, <2>1, <2>2
<1>5. Marked /\ CodeTypes'
  BY <1>3, EffectsMarked
<1>6. BlocksInv' /\ EntriesInv' /\ FastInv' /\ JitTypes'
  BY <1>5, CompileInv DEF CompileAndRun, Compile
<1>7. GuestTypes'
  <2>1. cpu' \in [pc : Addresses, delay : BOOLEAN]
    BY <1>3 DEF MoveTo
  <2> QED
    BY <2>1 DEF CompileAndRun, Compile, GuestTypes
<1>8. FreshInv'
  BY NeverFresh DEF CompileAndRun, Compile, Compilable, Eligible, AtCompile
<1>9. NothingSkipped'
  BY <1>2, <1>3, <1>4, PassedNothing
<1>10. FrameTypes' /\ PhaseInv'
  BY <1>3, <1>4, Returned
<1> QED
  BY <1>5, <1>6, <1>7, <1>8, <1>9, <1>10

-----------------------------------------------------------------------------
(* The theorems.                                                           *)

LEMMA StepInv == IInv /\ [Next]_vars => IInv'
<1> SUFFICES ASSUME IInv, [Next]_vars PROVE IInv'
  OBVIOUS
<1>1. CASE UNCHANGED vars
  <2>1. UNCHANGED <<blocks, entries, fast, module, compiled, code, written, fresh>>
    BY <1>1 DEF vars, jit, guest, history
  <2>2. BlocksInv' /\ EntriesInv' /\ FastInv'
    BY <2>1, KeptCaches, SameCode_Marked DEF IInv
  <2>3. JitTypes' /\ CodeTypes' /\ GuestTypes' /\ FrameTypes' /\ NothingSkipped'
    BY <1>1 DEF IInv, vars, jit, guest, frame, history, JitTypes, CodeTypes, GuestTypes,
                FrameTypes, NothingSkipped
  <2>4. FreshInv'
    BY <1>1 DEF IInv, vars, jit, frame, history, FreshInv
  <2>5. PhaseInv'
    BY <1>1 DEF IInv, vars, jit, guest, frame, PhaseInv, Cold, Available, EntryOf, HasStop,
                Cached, BlockSlot
  <2> QED
    BY <2>2, <2>3, <2>4, <2>5 DEF IInv
<1>2. CASE Host
  BY <1>2, HostInv, SetJitEnabledInv, BeginFrameInv DEF Host
<1>3. CASE DispatchHook \/ IcacheInvalidateAll
  BY <1>3, DispatchInv DEF DispatchHook, IcacheInvalidateAll
<1>4. CASE NextSlice \/ EnterBlock
  BY <1>4, NextSliceInv, EnterBlockInv
<1>5. CASE NativeMissing \/ NativeTooLong \/ NativeZero \/ NativeRun
  BY <1>5, NativeMissingInv, NativeTooLongInv, NativeZeroInv, NativeRunInv
<1>6. CASE EnsureInstructionBlock \/ Interpret
  BY <1>6, EnsureInstructionBlockInv, InterpretInv
<1>7. CASE Decline \/ StayCold \/ TooShort \/ CompileFails \/ CompileOnly \/ CompileAndRun
  BY <1>7, RefusalsInv, CompileOnlyInv, CompileAndRunInv
<1> QED
  BY <1>1, <1>2, <1>3, <1>4, <1>5, <1>6, <1>7 DEF Next, Run

LEMMA Invariant == Spec => []IInv
BY InitIInv, StepInv, PTL DEF Spec

\* The table never has more than MAX_COMPILED_BLOCKS entries, the budget never
\* goes below zero and a slice is never overdrawn.
THEOREM TypeCorrect == Spec => []TypeOK
<1>1. IInv => TypeOK
  <2> SUFFICES ASSUME IInv PROVE TypeOK
    OBVIOUS
  <2>1. ASSUME NEW slot \in 0 .. Slots - 1
        PROVE  /\ blocks[slot].start \in Addresses
               /\ Len(blocks[slot].content) <= MaxBlockLen
               /\ Range(blocks[slot].content) \subseteq Kinds
    <3>1. blocks[slot].start \in Addresses /\ blocks[slot].content \in Contents
      BY DEF IInv, BlocksInv
    <3>2. PICK c \in Seq(Kinds) : c = blocks[slot].content /\ Len(c) <= MaxBlockLen
      BY <3>1 DEF Contents
    <3>3. Range(c) \subseteq Kinds
      BY LenProperties DEF Range
    <3> QED
      BY <3>1, <3>2, <3>3
  <2>2. \A s \in DOMAIN entries :
          entries[s] \in [hits : 0 .. HotThreshold, failed : BOOLEAN,
                          zero_exits : 0 .. MaxZeroExits, block : Blocks \cup {None}]
    BY DEF IInv, EntriesInv, EntryOK
  <2>3. DOMAIN entries \subseteq Addresses /\ Cardinality(DOMAIN entries) <= MaxEntries
    BY DEF IInv, EntriesInv
  <2>4. fast \in [0 .. FastSlots - 1 -> [start : Addresses, block : Blocks \cup {None}]]
    BY DEF IInv, FastInv
  <2>5. missed \subseteq Addresses
    BY DEF IInv, NothingSkipped
  <2> QED
    BY <2>1, <2>2, <2>3, <2>4, <2>5
       DEF TypeOK, IInv, JitTypes, CodeTypes, GuestTypes, FrameTypes
<1> QED
  BY <1>1, Invariant, PTL

\* JitEngine answers from its fast front what the table would answer, and no
\* function outlives its module.
THEOREM CachesAgreeHolds == Spec => []CachesAgree
<1>1. IInv => CachesAgree
  BY DEF IInv, FastInv, EntriesInv, EntryOK, CachesAgree
<1> QED
  BY <1>1, Invariant, PTL

\* clear_instruction_cache and replace_state leave no old code in any cache.
THEOREM CoherentHolds == Spec => []Coherent
<1>1. IInv => Coherent
  BY DEF IInv, BlocksInv, EntriesInv, EntryOK, Sound, Coherent
<1> QED
  BY <1>1, Invariant, PTL

\* The boundaries of the blocks and the exits of the chain stop every context
\* at an import, at the task return and at the start-up check.
THEOREM NothingSkippedHolds == Spec => []NothingSkipped
<1>1. IInv => NothingSkipped
  BY DEF IInv
<1> QED
  BY <1>1, Invariant, PTL

-----------------------------------------------------------------------------
(* A frame makes progress with every step.                                 *)

\* How far a call of run_cached_instruction_block still is from its end.
Part ==
  CASE phase = "slice"   -> 4
    [] phase = "native"  -> 3
    [] phase = "lookup"  -> 2
    [] phase = "compile" -> 1
    [] OTHER             -> 0

\* What is left to do in a frame: the task's slice, the instructions of this
\* slice, those a chain of compiled blocks may still complete, and the parts of
\* the call.
Work == << IF active = "main" THEN 1 ELSE 0, remaining, Quantum - call.done, Part >>

\* Only a chain of compiled blocks has completed something within a call.
ChainInv == phase # "native" => call.done = 0

LEMMA PartType == Part \in Nat
  BY DEF Part

LEMMA WorkType ==
  ASSUME FrameTypes
  PROVE  Work \in Quads
<1>1. remaining \in Nat /\ Quantum - call.done \in Nat
  <2>1. Quantum \in Nat /\ remaining \in 0 .. Quantum /\ call.done \in 0 .. Quantum
    BY Bounds DEF FrameTypes
  <2>2. QED
    BY <2>1
<1> DEFINE turn == IF active = "main" THEN 1 ELSE 0
<1>2. turn \in Nat
  OBVIOUS
<1>3. Work = <<turn, remaining, Quantum - call.done, Part>>
  BY DEF Work
<1> HIDE DEF turn
<1>4. QED
  BY <1>1, <1>2, <1>3, PartType DEF Quads

\* The four ways in which there is less to do.
Less ==
  \/ active = "main" /\ active' = "task"
  \/ active' = active /\ remaining' < remaining
  \/ active' = active /\ remaining' = remaining /\ call'.done > call.done
  \/ /\ active' = active /\ remaining' = remaining /\ call'.done = call.done
     /\ Part' < Part

LEMMA LessWork ==
  ASSUME FrameTypes, FrameTypes', Less
  PROVE  Descends(Work', Work)
<1> DEFINE turn == IF active = "main" THEN 1 ELSE 0
           left == Quantum - call.done
<1>0. Work = <<turn, remaining, left, Part>> /\ Work' = <<turn', remaining', left', Part'>>
  BY DEF Work
<1>1. CASE active = "main" /\ active' = "task"
  <2>1. turn' < turn
    BY <1>1
  <2> HIDE DEF turn, left
  <2>2. 1 \in DOMAIN Work /\ Work'[1] < Work[1] /\ \A m \in 1 .. 1 - 1 : Work'[m] = Work[m]
    BY <1>0, <2>1
  <2>3. QED
    BY <2>2 DEF Descends
<1>2. CASE active' = active /\ remaining' < remaining
  <2>1. turn' = turn
    BY <1>2
  <2> HIDE DEF turn, left
  <2>2. 2 \in DOMAIN Work /\ Work'[2] < Work[2] /\ \A m \in 1 .. 2 - 1 : Work'[m] = Work[m]
    BY <1>0, <1>2, <2>1
  <2>3. QED
    BY <2>2 DEF Descends
<1>3. CASE active' = active /\ remaining' = remaining /\ call'.done > call.done
  <2>1. turn' = turn
    BY <1>3
  <2>2. left' < left
    <3>1. \A n, a, b \in Int : b > a => n - b < n - a
      OBVIOUS
    <3>2. Quantum \in Int /\ call.done \in Int /\ call'.done \in Int
      BY Bounds DEF FrameTypes
    <3>3. QED
      BY <1>3, <3>1, <3>2
  <2> HIDE DEF turn, left
  <2>3. 3 \in DOMAIN Work /\ Work'[3] < Work[3] /\ \A m \in 1 .. 3 - 1 : Work'[m] = Work[m]
    BY <1>0, <1>3, <2>1, <2>2
  <2>4. QED
    BY <2>3 DEF Descends
<1>4. CASE /\ active' = active /\ remaining' = remaining /\ call'.done = call.done
           /\ Part' < Part
  <2>1. turn' = turn /\ left' = left
    BY <1>4
  <2> HIDE DEF turn, left
  <2>2. 4 \in DOMAIN Work /\ Work'[4] < Work[4] /\ \A m \in 1 .. 4 - 1 : Work'[m] = Work[m]
    BY <1>0, <1>4, <2>1
  <2>3. QED
    BY <2>2 DEF Descends
<1>5. QED
  BY <1>1, <1>2, <1>3, <1>4 DEF Less

LEMMA CallEnds ==
  ASSUME FrameTypes, NEW done \in Nat, done # 0, done <= remaining, ReturnWith(done)
  PROVE  remaining' < remaining /\ call'.done = 0
<1>1. remaining \in Nat
  BY Bounds DEF FrameTypes
<1>2. QED
  BY <1>1 DEF ReturnWith

\* A chain that stops has used something or goes on in the block cache.
LEMMA StoppedChain ==
  ASSUME FrameTypes, PhaseInv, AtNative, NEW attempted, UNCHANGED active,
         StopChain(call.done, attempted)
  PROVE  Less /\ ChainInv'
<1>1. CASE call.done # 0
  <2>1. PICK done \in Nat : done = call.done /\ done <= remaining
    BY <1>1 DEF FrameTypes, PhaseInv, AtNative
  <2>2. ReturnWith(done)
    BY <1>1, <2>1 DEF StopChain
  <2>3. remaining' < remaining /\ call'.done = 0
    BY <1>1, <2>1, <2>2, CallEnds
  <2>4. QED
    BY <2>3 DEF Less, ChainInv
<1>2. CASE call.done = 0
  <2>1. /\ phase' = "lookup" /\ remaining' = remaining
        /\ call' = [call EXCEPT !.attempted = attempted]
    BY <1>2 DEF StopChain
  <2>2. call'.done = 0
    BY <1>2, <2>1 DEF FrameTypes
  <2>3. Part = 3 /\ Part' = 2
    BY <2>1 DEF Part, AtNative
  <2>4. QED
    BY <1>2, <2>1, <2>2, <2>3 DEF Less, ChainInv
<1>3. QED
  BY <1>1, <1>2

LEMMA SliceProgress ==
  ASSUME IInv, ChainInv, NextSlice \/ DispatchHook \/ IcacheInvalidateAll \/ EnterBlock
  PROVE  AtHost' \/ (Less /\ ChainInv')
<1>0. remaining \in Nat /\ active \in Contexts
  BY Bounds DEF IInv, FrameTypes, GuestTypes
<1>1. CASE NextSlice
  <2>1. CASE active = "main"
    <3>1. active' = "task" /\ phase' = "slice" /\ call' = call /\ phase = "slice"
      BY <1>1, <2>1 DEF NextSlice, Resume, SliceOver
    <3>2. QED
      BY <2>1, <3>1 DEF Less, ChainInv
  <2>2. CASE active # "main"
    BY <1>1, <2>2 DEF NextSlice, AtHost
  <2>3. QED
    BY <2>1, <2>2
<1>2. CASE DispatchHook \/ IcacheInvalidateAll
  <2>1. PICK done \in {1, remaining} : remaining' = remaining - done
    BY <1>2 DEF DispatchHook, IcacheInvalidateAll, Dispatch
  <2>2. remaining # 0 /\ active' = active /\ phase' = phase /\ call' = call /\ phase = "slice"
    BY <1>2 DEF DispatchHook, IcacheInvalidateAll, Dispatch, InSlice
  <2>3. remaining' < remaining
    BY <1>0, <2>1, <2>2
  <2>4. QED
    BY <2>2, <2>3 DEF Less, ChainInv
<1>3. CASE EnterBlock
  <2>1. /\ call'.done = 0 /\ phase = "slice" /\ phase' \in {"lookup", "native"}
        /\ active' = active /\ remaining' = remaining
    BY <1>3 DEF EnterBlock, InSlice
  <2>2. Part' < Part
    BY <2>1 DEF Part
  <2>3. QED
    BY <2>1, <2>2 DEF Less, ChainInv
<1>4. QED
  BY <1>1, <1>2, <1>3

LEMMA NativeProgress ==
  ASSUME IInv, NativeMissing \/ NativeTooLong \/ NativeZero \/ NativeRun
  PROVE  Less /\ ChainInv'
<1> USE DEF IInv
<1>1. CASE NativeMissing \/ NativeTooLong \/ NativeZero
  <2>1. AtNative /\ active' = active
    BY <1>1 DEF NativeMissing, NativeTooLong, NativeZero
  <2>2. StopChain(call.done, call.attempted) \/ StopChain(call.done, TRUE)
    BY <1>1 DEF NativeMissing, NativeTooLong, NativeZero
  <2>3. QED
    BY <2>1, <2>2, StoppedChain
<1>2. CASE NativeRun
  <2>1. /\ Found # None /\ Found.content \in Contents
        /\ Len(Found.content) <= remaining - call.done
        /\ AtNative /\ active' = active
    BY <1>2, FoundSound DEF NativeRun, Limit
  <2>2. PICK k \in Completions(Found.content) \ {0}, pc \in Addresses :
          IF call.done + k >= remaining \/ JitChainExitRequired(pc)
          THEN ReturnWith(call.done + k)
          ELSE /\ call' = [call EXCEPT !.done = @ + k, !.attempted = TRUE]
               /\ UNCHANGED <<phase, remaining>>
    BY <1>2 DEF NativeRun
  <2>3. k \in 1 .. Len(Found.content) /\ k \in Nat
    BY <2>1, CompletedPart
  <2>4. call.done \in Nat /\ remaining \in Nat
    BY Bounds DEF FrameTypes
  <2>5. Len(Found.content) \in Nat
    BY <2>1, LenProperties DEF Contents
  <2>6. call.done + k \in Nat /\ call.done + k # 0 /\ call.done + k <= remaining
        /\ call.done + k > call.done
    BY <2>1, <2>3, <2>4, <2>5
  <2>7. CASE ReturnWith(call.done + k)
    <3>1. remaining' < remaining /\ call'.done = 0
      <4>1. PICK done \in Nat : done = call.done + k
        BY <2>6
      <4>2. QED
        BY <2>6, <2>7, <4>1, CallEnds
    <3>2. QED
      BY <2>1, <3>1 DEF Less, ChainInv
  <2>8. CASE /\ call' = [call EXCEPT !.done = @ + k, !.attempted = TRUE]
             /\ UNCHANGED <<phase, remaining>>
    <3>1. call'.done = call.done + k
      BY <2>8 DEF FrameTypes
    <3>2. phase' = "native" /\ remaining' = remaining
      BY <2>1, <2>8 DEF AtNative
    <3>3. QED
      BY <2>1, <2>6, <3>1, <3>2 DEF Less, ChainInv
  <2>9. QED
    BY <2>2, <2>7, <2>8
<1>3. QED
  BY <1>1, <1>2

LEMMA LookupProgress ==
  ASSUME ChainInv, EnsureInstructionBlock \/ Decline \/ StayCold \/ TooShort \/ CompileFails
                   \/ CompileOnly
  PROVE  Less /\ ChainInv'
<1>1. active' = active /\ remaining' = remaining /\ call' = call
  BY DEF EnsureInstructionBlock, Decline, StayCold, TooShort, CompileFails, CompileOnly,
         Compile, Refuse, GoTo
<1>2. \/ phase = "lookup" /\ phase' \in {"compile", "interpret"}
      \/ phase = "compile" /\ phase' = "interpret"
  BY DEF EnsureInstructionBlock, Decline, StayCold, TooShort, CompileFails, CompileOnly,
         Compile, Refuse, GoTo, Compilable, Eligible, AtCompile
<1>3. Part' < Part
  BY <1>2 DEF Part
<1>4. QED
  BY <1>1, <1>2, <1>3 DEF Less, ChainInv

LEMMA BlockProgress ==
  ASSUME IInv, CompileAndRun \/ Interpret
  PROVE  Less /\ ChainInv'
<1> USE DEF IInv
<1>1. active' = active
  BY DEF CompileAndRun, Compile, Interpret
<1>2. \E k \in Nat : k # 0 /\ k <= remaining /\ ReturnWith(k)
  <2>0. remaining \in Nat
    BY Bounds DEF FrameTypes
  <2>1. CASE CompileAndRun
    <3>1. PICK c \in Contents : c = Native.content
      BY <2>1, NativeSound DEF CompileAndRun, Compile
    <3>2. Len(c) \in Nat /\ Len(c) <= remaining
      BY <2>1, <3>1, LenProperties DEF CompileAndRun, Contents
    <3>3. PICK k \in Completions(c) \ {0} : ReturnWith(k)
      BY <2>1, <3>1 DEF CompileAndRun
    <3>4. k \in 1 .. Len(c) /\ k \in Nat
      BY CompletedPart
    <3>5. QED
      BY <2>0, <3>2, <3>3, <3>4
  <2>2. CASE Interpret
    <3>1. Len(Content) \in Nat
      BY <2>2, ContentSound DEF Interpret, PhaseInv
    <3>2. PICK k \in 1 .. Longest : ReturnWith(k)
      BY <2>2 DEF Interpret
    <3>3. Longest \in Nat /\ Longest <= remaining
      BY <2>0, <3>1 DEF Longest
    <3>4. QED
      BY <2>0, <3>2, <3>3
  <2>3. QED
    BY <2>1, <2>2
<1>3. remaining' < remaining /\ call'.done = 0
  BY <1>2, CallEnds
<1>4. QED
  BY <1>1, <1>3 DEF Less, ChainInv

LEMMA RunProgress ==
  ASSUME IInv, ChainInv, Run
  PROVE  AtHost' \/ (Less /\ ChainInv')
BY SliceProgress, NativeProgress, LookupProgress, BlockProgress DEF Run

LEMMA ChainNext == IInv /\ ChainInv /\ [Next]_vars => ChainInv'
<1> SUFFICES ASSUME IInv, ChainInv, [Next]_vars PROVE ChainInv'
  OBVIOUS
<1>1. CASE Run
  <2>1. CASE NextSlice
    BY <2>1 DEF NextSlice, Resume, SliceOver, ChainInv
  <2>2. CASE ~NextSlice
    <3>1. ~AtHost'
      BY <1>1, <2>2
         DEF Run, DispatchHook, IcacheInvalidateAll, Dispatch, EnterBlock, NativeMissing,
             NativeTooLong, NativeZero, NativeRun, EnsureInstructionBlock, Decline, StayCold,
             TooShort, CompileFails, CompileOnly, CompileAndRun, Compile, Interpret, InSlice,
             StopChain, ReturnWith, GoTo, Refuse, AtHost, AtNative
    <3>2. QED
      BY <1>1, <3>1, RunProgress
  <2>3. QED
    BY <2>1, <2>2
<1>2. CASE Host
  BY <1>2 DEF Host, SetJitEnabled, SetCheat, ClearCheats, Reset, UnserializeState, BeginFrame,
              Resume, frame, AtHost, ChainInv
<1>3. CASE UNCHANGED vars
  BY <1>3 DEF vars, frame, ChainInv
<1>4. QED
  BY <1>1, <1>2, <1>3 DEF Next

\* A frame cannot go on for ever: whatever the caches hold and whichever way a
\* block falls back, each step of run_active_cpu_slice and of what it calls
\* ends the frame or leaves less to do, in an order in which nothing goes on
\* descending (LeastQuad).
THEOREM FrameProgress ==
  Spec => [][~AtHost => \/ AtHost'
                        \/ Work \in Quads /\ Work' \in Quads /\ Descends(Work', Work)]_vars
<1> DEFINE Step == ~AtHost => \/ AtHost'
                              \/ Work \in Quads /\ Work' \in Quads /\ Descends(Work', Work)
<1>1. Init => ChainInv
  BY DEF Init, ChainInv
<1>2. IInv => FrameTypes /\ Work \in Quads
  BY WorkType DEF IInv
<1>3. IInv /\ ChainInv /\ (FrameTypes /\ Work \in Quads)' /\ [Next]_vars => [Step]_vars
  <2> SUFFICES ASSUME IInv, ChainInv, FrameTypes', (Work \in Quads)', Next, ~AtHost, ~AtHost'
               PROVE  Work \in Quads /\ Work' \in Quads /\ Descends(Work', Work)
    OBVIOUS
  <2>1. Run
    BY DEF Next, Host, SetJitEnabled, SetCheat, ClearCheats, Reset, UnserializeState, BeginFrame
  <2>2. FrameTypes /\ Work \in Quads /\ Less
    BY <1>2, <2>1, RunProgress
  <2>3. QED
    BY <2>2, LessWork
<1>4. QED
  BY <1>1, <1>2, <1>3, ChainNext, Invariant, PTL DEF Spec

=============================================================================
