------------------------------ MODULE HeapSpec ------------------------------
(***************************************************************************)
(* What the guest heap promises (crates/dingooemu-core/src/memory.rs:      *)
(* malloc, free, realloc): a map from the pointers the guest holds to the  *)
(* data of their blocks.  A request gets the lowest place where it fits    *)
(* and fails only when it fits nowhere; no call touches the data of a      *)
(* block it does not own.  How free memory is kept is left to Heap.        *)
(* The guest makes one call at a time.  What it asked for stays visible    *)
(* until the call returns, so every answer is judged against its request.  *)
(***************************************************************************)
EXTENDS HeapUnits, Sequences, FiniteSetsExt, Functions

VARIABLES
  blocks,   \* live pointer -> the words of its block
  request,  \* the call the guest is in, or NoRequest
  result    \* what that call returns

vars == <<blocks, request, result>>

Live == DOMAIN blocks

\* The places where n words are free.
Fits(n) ==
  {p \in Pointers :
     /\ p + n <= RamEnd
     /\ \A q \in Live : p + n <= q \/ q + Len(blocks[q]) <= p}

Without(p) == Restrict(blocks, Live \ {p})
With(f, p, data) == [q \in DOMAIN f \cup {p} |-> IF q = p THEN data ELSE f[q]]

Init == blocks = << >> /\ request = NoRequest /\ result = Null

\* A new block holds whatever the memory held.
Allocate(n) ==
  \E data \in [1..n -> Data] :
    /\ result' = Min(Fits(n))
    /\ blocks' = With(blocks, result', data)

Fail == result' = Null /\ UNCHANGED blocks

Malloc(size) ==
  \/ Valid(size) /\ Fits(Words(size)) # {} /\ Allocate(Words(size))
  \/ ~Valid(size) /\ Fail
  \/ Valid(size) /\ Fits(Words(size)) = {} /\ Fail

\* A pointer that is not live is ignored.
Free(p) == blocks' = Without(p) /\ result' = Null

\* The new block keeps as much of the old block's data as it has room for.
\* A block that grows moves: it is placed while the old one is still live.
Resize(p, n) ==
  \/ /\ n <= Len(blocks[p])
     /\ result' = p
     /\ blocks' = With(blocks, p, SubSeq(blocks[p], 1, n))
  \/ /\ n > Len(blocks[p]) /\ Fits(n) # {}
     /\ \E data \in [1..n -> Data] :
          /\ SubSeq(data, 1, Len(blocks[p])) = blocks[p]
          /\ result' = Min(Fits(n))
          /\ blocks' = With(Without(p), result', data)
  \/ n > Len(blocks[p]) /\ Fits(n) = {} /\ Fail

Realloc(p, size) ==
  \/ p = Null /\ Malloc(size)
  \/ p # Null /\ size = 0 /\ Free(p)
  \/ p # Null /\ size # 0 /\ (p \notin Live \/ ~Valid(size)) /\ Fail
  \/ p \in Live /\ Valid(size) /\ Resize(p, Words(size))

\* The guest writes a word of a block it holds.
Write(p) ==
  /\ \E i \in DOMAIN blocks[p], d \in Data :
       blocks' = [blocks EXCEPT ![p] = [@ EXCEPT ![i] = d]]
  /\ UNCHANGED <<request, result>>

\* One call of the guest, with what it asked for.
Call ==
  /\ request = NoRequest
  /\ \/ \E size \in Sizes : request' = Request("malloc", Null, size) /\ Malloc(size)
     \/ \E p \in Pointers \cup {Null} : request' = Request("free", p, 0) /\ Free(p)
     \/ \E p \in Pointers \cup {Null}, size \in Sizes :
          request' = Request("realloc", p, size) /\ Realloc(p, size)

Return ==
  /\ request # NoRequest
  /\ request' = NoRequest /\ result' = Null
  /\ UNCHANGED blocks

Next ==
  \/ Call \/ Return
  \/ request = NoRequest /\ \E p \in Live : Write(p)

Spec == Init /\ [][Next]_vars

=============================================================================
