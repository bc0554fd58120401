-------------------------------- MODULE Heap --------------------------------
(***************************************************************************)
(* The guest heap of dingooemu-core (crates/dingooemu-core/src/memory.rs): *)
(* a bump pointer, the sizes of the live blocks, and the free blocks below *)
(* the pointer, sorted by address.  The two loops of free are steps of     *)
(* their own; nothing else runs meanwhile.  The request of the guest and   *)
(* the answer are kept until the call returns: the code keeps them in the  *)
(* argument and result registers, and HeapSpec relates the two.            *)
(***************************************************************************)
EXTENDS HeapUnits, Sequences, FiniteSetsExt, Functions

VARIABLES
  heap_ptr,      \* first word never given out, or given back
  allocations,   \* address -> size
  free_blocks,   \* sequence of [addr, size], sorted by address
  ram,           \* the words of the heap
  step,          \* "idle" between calls, else the loop of free that runs
  index,         \* where the merging loop of free is
  request,       \* the call the guest is in, or NoRequest
  result         \* what that call returns

heap == <<heap_ptr, allocations, free_blocks, ram>>
vars == <<heap, step, index, request, result>>

Block(a, n) == [addr |-> a, size |-> n]
Live == DOMAIN allocations
Forget(f, p) == Restrict(f, DOMAIN f \ {p})
Keep(f, p, n) == [q \in DOMAIN f \cup {p} |-> IF q = p THEN n ELSE f[q]]

\* partition_point: the place of address p in a free list.
Place(s, p) == Cardinality({i \in DOMAIN s : s[i].addr < p}) + 1

Inserted(s, i, b) == SubSeq(s, 1, i - 1) \o <<b>> \o SubSeq(s, i, Len(s))
Deleted(s, i) == SubSeq(s, 1, i - 1) \o SubSeq(s, i + 1, Len(s))

Init ==
  /\ heap_ptr = HeapBase
  /\ allocations = << >> /\ free_blocks = << >>
  /\ ram = [a \in Pointers |-> 0]
  /\ step = "idle" /\ index = 1
  /\ request = NoRequest /\ result = Null

-----------------------------------------------------------------------------
(* malloc: the first free block that is large enough, else the bump        *)
(* pointer.                                                                *)

Large(n) == {i \in DOMAIN free_blocks : free_blocks[i].size >= n}

\* The place of the n words that malloc gives out.
MutFound(n) ==
  IF Large(n) # {} THEN free_blocks[Min(Large(n))].addr ELSE heap_ptr
Found(n) ==
  IF Large(n) # {} THEN free_blocks[Min(Large(n))].addr
  ELSE IF heap_ptr + n <= RamEnd THEN heap_ptr ELSE Null

\* The free list after that: the front of the free block is taken.
MutRest(n) ==
  IF Large(n) = {} THEN free_blocks ELSE Deleted(free_blocks, Min(Large(n)))
Rest(n) ==
  IF Large(n) = {} THEN free_blocks
  ELSE LET i == Min(Large(n))
           b == free_blocks[i]
       IN  IF b.size = n THEN Deleted(free_blocks, i)
           ELSE [free_blocks EXCEPT ![i] = Block(b.addr + n, b.size - n)]

Bump(n) == heap_ptr' = IF Large(n) = {} THEN heap_ptr + n ELSE heap_ptr

Fail == result' = Null /\ UNCHANGED <<heap, step, index>>

Malloc(size) ==
  IF Valid(size) /\ Found(Words(size)) # Null
  THEN /\ result' = Found(Words(size))
       /\ allocations' = Keep(allocations, result', Words(size))
       /\ free_blocks' = Rest(Words(size))
       /\ Bump(Words(size))
       /\ UNCHANGED <<ram, step, index>>
  ELSE Fail

-----------------------------------------------------------------------------
(* free: the block goes into the free list, touching blocks are merged     *)
(* from the one before it onwards, and what touches the bump pointer is    *)
(* given back to it.                                                       *)

\* Block p, of n words, which is not allocated any more, enters free list s.
Release(s, p, n) ==
  /\ free_blocks' = Inserted(s, Place(s, p), Block(p, n))
  /\ index' = IF Place(s, p) = 1 THEN 1 ELSE Place(s, p) - 1
  /\ step' = "merge"

Free(p) ==
  /\ result' = Null
  /\ IF p \in Live
     THEN /\ allocations' = Forget(allocations, p)
          /\ Release(free_blocks, p, allocations[p])
          /\ UNCHANGED <<heap_ptr, ram>>
     ELSE UNCHANGED <<heap, step, index>>

EndOf(b) == b.addr + b.size

MutMergeStep ==
  /\ step = "merge"
  /\ step' = "trim"
  /\ UNCHANGED <<heap_ptr, allocations, ram, request, result, free_blocks, index>>
MergeStep ==
  /\ step = "merge"
  /\ IF index < Len(free_blocks)
     THEN LET b == free_blocks[index]
              next == free_blocks[index + 1]
          IN  /\ IF EndOf(b) = next.addr
                 THEN /\ free_blocks' = Deleted([free_blocks EXCEPT ![index].size = @ + next.size],
                                                index + 1)
                      /\ index' = index
                 ELSE index' = index + 1 /\ UNCHANGED free_blocks
              /\ step' = step
     ELSE step' = "trim" /\ UNCHANGED <<free_blocks, index>>
  /\ UNCHANGED <<heap_ptr, allocations, ram, request, result>>

TrimStep ==
  /\ step = "trim"
  /\ LET n == Len(free_blocks)
     IN  IF n > 0 /\ EndOf(free_blocks[n]) = heap_ptr
         THEN /\ heap_ptr' = free_blocks[n].addr
              /\ free_blocks' = SubSeq(free_blocks, 1, n - 1)
              /\ UNCHANGED <<step, index>>
         ELSE step' = "idle" /\ index' = 1 /\ UNCHANGED <<heap_ptr, free_blocks>>
  /\ UNCHANGED <<allocations, ram, request, result>>

-----------------------------------------------------------------------------
(* realloc: smaller in place, larger in a new block.                       *)

\* The tail becomes a block for a moment and is freed.
Shrink(p, n) ==
  /\ result' = p
  /\ IF n < allocations[p]
     THEN /\ allocations' = Keep(allocations, p, n)
          /\ Release(free_blocks, p + n, allocations[p] - n)
          /\ UNCHANGED <<heap_ptr, ram>>
     ELSE UNCHANGED <<heap, step, index>>

\* RAM after the words of block p are copied to q.
Copied(p, q) ==
  [a \in Pointers |->
     IF a \in q..(q + allocations[p] - 1) THEN ram[p + a - q] ELSE ram[a]]

\* malloc, the copy, and free of the old block.
Grow(p, n) ==
  /\ Found(n) # Null
  /\ result' = Found(n)
  /\ allocations' = Keep(Forget(allocations, p), result', n)
  /\ ram' = Copied(p, result')
  /\ Bump(n)
  /\ Release(Rest(n), p, allocations[p])

MutRealloc(p, size) ==
  \/ p = Null /\ Malloc(size)
  \/ p # Null /\ size = 0 /\ Free(p)
  \/ p # Null /\ size # 0 /\ (p \notin Live \/ ~Valid(size)) /\ Fail
  \/ p \in Live /\ Valid(size) /\ Words(size) <= allocations[p] /\ Shrink(p, Words(size))
  \/ p \in Live /\ Valid(size) /\ Words(size) > allocations[p] /\ Grow(p, Words(size))
  \/ /\ p \in Live /\ Valid(size) /\ Words(size) > allocations[p]
     /\ Found(Words(size)) = Null /\ Free(p)
Realloc(p, size) ==
  \/ p = Null /\ Malloc(size)
  \/ p # Null /\ size = 0 /\ Free(p)
  \/ p # Null /\ size # 0 /\ (p \notin Live \/ ~Valid(size)) /\ Fail
  \/ p \in Live /\ Valid(size) /\ Words(size) <= allocations[p] /\ Shrink(p, Words(size))
  \/ p \in Live /\ Valid(size) /\ Words(size) > allocations[p] /\ Grow(p, Words(size))
  \/ /\ p \in Live /\ Valid(size) /\ Words(size) > allocations[p]
     /\ Found(Words(size)) = Null /\ Fail

\* The guest writes a word of a block it holds.
Write(p) ==
  /\ \E i \in 0..(allocations[p] - 1), d \in Data : ram' = [ram EXCEPT ![p + i] = d]
  /\ UNCHANGED <<heap_ptr, allocations, free_blocks, step, index, request, result>>

\* The handlers of the imports: the arguments are read, the memory is called.
Call ==
  /\ step = "idle" /\ request = NoRequest
  /\ \/ \E size \in Sizes : request' = Request("malloc", Null, size) /\ Malloc(size)
     \/ \E p \in Pointers \cup {Null} : request' = Request("free", p, 0) /\ Free(p)
     \/ \E p \in Pointers \cup {Null}, size \in Sizes :
          request' = Request("realloc", p, size) /\ Realloc(p, size)

\* The handler is done and the guest has the answer.
Return ==
  /\ step = "idle" /\ request # NoRequest
  /\ request' = NoRequest /\ result' = Null
  /\ UNCHANGED <<heap, step, index>>

\* Between two calls the guest runs.
GuestWrites == step = "idle" /\ request = NoRequest /\ \E p \in Live : Write(p)

Next == Call \/ MergeStep \/ TrimStep \/ Return \/ GuestWrites

Spec == Init /\ [][Next]_vars

-----------------------------------------------------------------------------
(* Properties.                                                             *)

TypeOK ==
  /\ heap_ptr \in HeapBase..RamEnd
  /\ free_blocks \in Seq([addr : Pointers, size : 1..(RamEnd - HeapBase)])
  /\ \A p \in Live : p \in Pointers /\ allocations[p] \in 1..(RamEnd - HeapBase)
  /\ ram \in [Pointers -> Data]
  /\ step \in {"idle", "merge", "trim"}
  /\ index \in 1..(Len(free_blocks) + 1)
  /\ request \in Requests /\ result \in Pointers \cup {Null}

\* The words of a live and of a free block.
LiveWords(p) == p..(p + allocations[p] - 1)
FreeWords(i) == free_blocks[i].addr..(EndOf(free_blocks[i]) - 1)

\* Nothing is lost and nothing is given out twice: the live and the free blocks
\* tile the heap below the bump pointer, also between the steps of free.
Tiled ==
  /\ \A a \in HeapBase..(heap_ptr - 1) :
       \/ \E p \in Live : a \in LiveWords(p)
       \/ \E i \in DOMAIN free_blocks : a \in FreeWords(i)
  /\ \A p \in Live :
       /\ p + allocations[p] <= heap_ptr
       /\ \A q \in Live \ {p} : LiveWords(p) \cap LiveWords(q) = {}
       /\ \A i \in DOMAIN free_blocks : LiveWords(p) \cap FreeWords(i) = {}
  /\ \A i \in DOMAIN free_blocks : EndOf(free_blocks[i]) <= heap_ptr

\* Between calls free memory is in as few pieces as it can be: the free list is
\* sorted, no two free blocks touch and none touches the bump pointer.
Coalesced ==
  step = "idle" =>
    \A i \in DOMAIN free_blocks :
      /\ \A j \in DOMAIN free_blocks :
           i < j => EndOf(free_blocks[i]) < free_blocks[j].addr
      /\ EndOf(free_blocks[i]) < heap_ptr

\* The heap keeps its promise: it answers each request with the lowest address
\* where that request fits, whatever calls came before, fails only when it fits
\* nowhere, and keeps the data of every live block through malloc, free and
\* realloc, also of the block that a failed realloc was to replace.
Blocks == [p \in Live |-> [i \in 1..allocations[p] |-> ram[p + i - 1]]]
Promise == INSTANCE HeapSpec WITH blocks <- Blocks
KeepsPromise == Promise!Spec

=============================================================================
