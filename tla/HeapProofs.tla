----------------------------- MODULE HeapProofs -----------------------------
(***************************************************************************)
(* Proofs about Heap, for RAM and requests of any size.  What a step does  *)
(* to the free list, to the live blocks and to the bump pointer is stated  *)
(* of these three alone (Layout), for the parts of malloc, free and        *)
(* realloc; the steps of Heap are put together from them.                  *)
(***************************************************************************)
EXTENDS Heap, NaturalFacts, SequenceTheorems, TLAPS

FreeBlock == [addr : Pointers, size : 1..(RamEnd - HeapBase)]

\* The parts of the layout: types, order, and that nothing overlaps.
LayoutTypes(s, al, hp) ==
  /\ s \in Seq(FreeBlock)
  /\ \A p \in DOMAIN al : p \in Pointers /\ al[p] \in 1..(RamEnd - HeapBase)
  /\ hp \in HeapBase..RamEnd
Sorted(s) ==
  \A i \in DOMAIN s : \A j \in DOMAIN s : i < j => EndOf(s[i]) <= s[j].addr
Below(s, al, hp) ==
  /\ \A i \in DOMAIN s : EndOf(s[i]) <= hp
  /\ \A p \in DOMAIN al : p + al[p] <= hp
Apart(s, al) ==
  /\ \A p \in DOMAIN al : \A q \in DOMAIN al \ {p} : p + al[p] <= q \/ q + al[q] <= p
  /\ \A p \in DOMAIN al : \A i \in DOMAIN s : p + al[p] <= s[i].addr \/ EndOf(s[i]) <= p
InLive(al, a) == \E p \in DOMAIN al : p <= a /\ a < p + al[p]
InFree(s, a) == \E i \in DOMAIN s : s[i].addr <= a /\ a < EndOf(s[i])
Covered(s, al, hp) ==
  \A a \in HeapBase..(hp - 1) : InLive(al, a) \/ InFree(s, a)

Layout(s, al, hp) ==
  LayoutTypes(s, al, hp) /\ Sorted(s) /\ Below(s, al, hp) /\ Apart(s, al) /\ Covered(s, al, hp)

-----------------------------------------------------------------------------
(* Units and sequences.                                                    *)

LEMMA Units ==
  /\ HeapBase \in Nat /\ HeapBase > 0 /\ RamEnd \in Nat /\ HeapBase <= RamEnd /\ MaxU32 \in Nat
  /\ Pointers \subseteq Nat /\ Null \notin Pointers
  /\ \A a \in Nat : HeapBase <= a /\ a < RamEnd <=> a \in Pointers
BY HeapAssumption DEF Pointers, Null

\* A valid size takes at least one word.
LEMMA WordsPositive ==
  ASSUME NEW size \in Sizes, Valid(size)
  PROVE  Words(size) \in Nat /\ Words(size) >= 1
<1>1. size \in Nat /\ size > 0
  BY HeapAssumption DEF Valid
<1> QED
  BY <1>1 DEF Words

\* What is known of a free block.
LEMMA BlockFacts ==
  ASSUME NEW s \in Seq(FreeBlock), NEW i \in DOMAIN s
  PROVE  /\ i \in Nat /\ i >= 1 /\ i <= Len(s)
         /\ s[i] \in FreeBlock
         /\ s[i].addr \in Nat /\ s[i].addr >= HeapBase /\ s[i].addr < RamEnd
         /\ s[i].size \in Nat /\ s[i].size >= 1 /\ s[i].size <= RamEnd - HeapBase
         /\ EndOf(s[i]) = s[i].addr + s[i].size /\ EndOf(s[i]) \in Nat
<1>1. Len(s) \in Nat /\ i \in 1..Len(s) /\ s[i] \in FreeBlock
  BY LenProperties
<1>2. s[i].addr \in Pointers /\ s[i].size \in 1..(RamEnd - HeapBase)
  BY <1>1 DEF FreeBlock
<1>3. s[i].addr \in Nat /\ s[i].addr >= HeapBase /\ s[i].addr < RamEnd
  BY <1>2, Units DEF Pointers
<1>4. s[i].size \in Nat /\ s[i].size >= 1 /\ s[i].size <= RamEnd - HeapBase
  BY <1>2, Units
<1> QED
  BY <1>1, <1>3, <1>4 DEF EndOf

LEMMA DeletedElements ==
  ASSUME NEW S, NEW s \in Seq(S), NEW i \in 1..Len(s)
  PROVE  /\ Deleted(s, i) \in Seq(S)
         /\ Len(Deleted(s, i)) = Len(s) - 1
         /\ \A j \in 1..(i - 1) : Deleted(s, i)[j] = s[j]
         /\ \A j \in i..(Len(s) - 1) : Deleted(s, i)[j] = s[j + 1]
<1>1. Len(s) \in Nat /\ i \in Nat /\ i >= 1 /\ i <= Len(s)
  BY LenProperties
<1> DEFINE a == SubSeq(s, 1, i - 1)
           b == SubSeq(s, i + 1, Len(s))
<1>2. /\ a \in Seq(S) /\ Len(a) = i - 1 /\ \A j \in 1..(i - 1) : a[j] = s[j]
  BY <1>1
<1>3. /\ b \in Seq(S) /\ Len(b) = Len(s) - i /\ \A j \in 1..(Len(s) - i) : b[j] = s[i + j]
  BY <1>1
<1>4. Deleted(s, i) = a \o b
  BY DEF Deleted
<1> HIDE DEF a, b
<1>5. /\ a \o b \in Seq(S) /\ Len(a \o b) = Len(a) + Len(b)
      /\ \A j \in 1..(Len(a) + Len(b)) : (a \o b)[j] = IF j <= Len(a) THEN a[j] ELSE b[j - Len(a)]
  BY <1>2, <1>3, ConcatProperties
<1>6. ASSUME NEW j \in i..(Len(s) - 1) PROVE (a \o b)[j] = s[j + 1]
  <2>1. j - (i - 1) \in 1..(Len(s) - i) /\ j \in 1..(Len(a) + Len(b)) /\ ~(j <= Len(a))
    BY <1>1, <1>2, <1>3
  <2>2. (a \o b)[j] = b[j - (i - 1)]
    BY <1>2, <1>5, <2>1
  <2>3. i + (j - (i - 1)) = j + 1
    BY <1>1
  <2> QED
    BY <1>3, <2>1, <2>2, <2>3
<1>7. ASSUME NEW j \in 1..(i - 1) PROVE (a \o b)[j] = s[j]
  BY <1>1, <1>2, <1>3, <1>5
<1> QED
  BY <1>1, <1>2, <1>3, <1>4, <1>5, <1>6, <1>7

LEMMA InsertedElements ==
  ASSUME NEW S, NEW s \in Seq(S), NEW i \in 1..(Len(s) + 1), NEW x \in S
  PROVE  /\ Inserted(s, i, x) \in Seq(S)
         /\ Len(Inserted(s, i, x)) = Len(s) + 1
         /\ \A j \in 1..(i - 1) : Inserted(s, i, x)[j] = s[j]
         /\ Inserted(s, i, x)[i] = x
         /\ \A j \in (i + 1)..(Len(s) + 1) : Inserted(s, i, x)[j] = s[j - 1]
<1>1. Len(s) \in Nat /\ i \in Nat /\ i >= 1 /\ i <= Len(s) + 1
  BY LenProperties
<1> DEFINE a == SubSeq(s, 1, i - 1)
           b == SubSeq(s, i, Len(s))
           c == a \o <<x>>
<1>2. a \in Seq(S) /\ Len(a) = i - 1 /\ \A j \in 1..(i - 1) : a[j] = s[j]
  BY <1>1
<1>3. b \in Seq(S) /\ Len(b) = Len(s) - i + 1 /\ \A j \in 1..(Len(s) - i + 1) : b[j] = s[i + j - 1]
  BY <1>1
<1>4. <<x>> \in Seq(S) /\ Len(<<x>>) = 1 /\ <<x>>[1] = x
  OBVIOUS
<1> HIDE DEF a, b
<1>5. c \in Seq(S) /\ Len(c) = i /\ c[i] = x /\ \A j \in 1..(i - 1) : c[j] = s[j]
  <2>1. /\ c \in Seq(S) /\ Len(c) = Len(a) + Len(<<x>>)
        /\ \A j \in 1..(Len(a) + Len(<<x>>)) : c[j] = IF j <= Len(a) THEN a[j] ELSE <<x>>[j - Len(a)]
    BY <1>2, <1>4, ConcatProperties
  <2>2. Len(a) + Len(<<x>>) = i
    BY <1>1, <1>2, <1>4
  <2>3. c[i] = <<x>>[i - (i - 1)] /\ i - (i - 1) = 1
    BY <1>1, <1>2, <2>1, <2>2
  <2>4. \A j \in 1..(i - 1) : j \in 1..i /\ c[j] = a[j]
    BY <1>1, <1>2, <2>1, <2>2
  <2> QED
    BY <1>2, <1>4, <2>1, <2>2, <2>3, <2>4
<1>6. Inserted(s, i, x) = c \o b
  BY DEF Inserted, a, b
<1> HIDE DEF c
<1>7. /\ c \o b \in Seq(S) /\ Len(c \o b) = Len(c) + Len(b)
      /\ \A j \in 1..(Len(c) + Len(b)) : (c \o b)[j] = IF j <= Len(c) THEN c[j] ELSE b[j - Len(c)]
  BY <1>3, <1>5, ConcatProperties
<1>8. ASSUME NEW j \in (i + 1)..(Len(s) + 1) PROVE (c \o b)[j] = s[j - 1]
  <2>1. j - i \in 1..(Len(s) - i + 1) /\ j \in 1..(Len(c) + Len(b)) /\ ~(j <= Len(c))
    BY <1>1, <1>3, <1>5
  <2>2. (c \o b)[j] = b[j - i]
    BY <1>5, <1>7, <2>1
  <2>3. i + (j - i) - 1 = j - 1
    BY <1>1
  <2> QED
    BY <1>3, <2>1, <2>2, <2>3
<1>9. ASSUME NEW j \in 1..i PROVE (c \o b)[j] = c[j]
  BY <1>1, <1>3, <1>5, <1>7
<1>10. \A j \in 1..(i - 1) : j \in 1..i
  BY <1>1
<1>11. i \in 1..i /\ Len(c) + Len(b) = Len(s) + 1
  BY <1>1, <1>3, <1>5
<1> QED
  BY <1>5, <1>6, <1>7, <1>8, <1>9, <1>10, <1>11

\* An element of a list without its i-th one is an element of the list, in the
\* same order.
From(j, i) == IF j < i THEN j ELSE j + 1
LEMMA DeletedMap ==
  ASSUME NEW S, NEW s \in Seq(S), NEW i \in DOMAIN s
  PROVE  /\ Deleted(s, i) \in Seq(S)
         /\ \A j \in DOMAIN Deleted(s, i) :
               From(j, i) \in DOMAIN s \ {i} /\ Deleted(s, i)[j] = s[From(j, i)]
         /\ \A j, k \in DOMAIN Deleted(s, i) : j < k => From(j, i) < From(k, i)
         /\ \A k \in DOMAIN s \ {i} : \E j \in DOMAIN Deleted(s, i) : Deleted(s, i)[j] = s[k]
<1> DEFINE t == Deleted(s, i)
<1>1. Len(s) \in Nat /\ i \in 1..Len(s) /\ i \in Nat /\ DOMAIN s = 1..Len(s)
  BY LenProperties, SMTT(30)
<1>2. /\ t \in Seq(S) /\ Len(t) = Len(s) - 1
      /\ \A j \in 1..(i - 1) : t[j] = s[j]
      /\ \A j \in i..(Len(s) - 1) : t[j] = s[j + 1]
  BY <1>1, DeletedElements
<1> HIDE DEF t
<1>3. DOMAIN t = 1..(Len(s) - 1)
  BY <1>2, LenProperties
<1>4. ASSUME NEW j \in DOMAIN t PROVE From(j, i) \in DOMAIN s \ {i} /\ t[j] = s[From(j, i)]
  <2>1. CASE j < i
    BY <1>1, <1>2, <1>3, <2>1 DEF From
  <2>2. CASE ~(j < i)
    <3>1. j \in i..(Len(s) - 1) /\ j + 1 \in 1..Len(s) /\ j + 1 # i
      BY <1>1, <1>3, <2>2
    <3> QED
      BY <1>1, <1>2, <2>2, <3>1 DEF From
  <2> QED
    BY <2>1, <2>2
<1>5. \A j, k \in DOMAIN t : j < k => From(j, i) < From(k, i)
  BY <1>1, <1>3 DEF From
<1>6. ASSUME NEW k \in DOMAIN s \ {i} PROVE \E j \in DOMAIN t : t[j] = s[k]
  <2>1. CASE k < i
    <3>1. k \in 1..(i - 1) /\ k \in DOMAIN t
      BY <1>1, <1>3, <2>1
    <3> QED
      BY <1>2, <3>1
  <2>2. CASE ~(k < i)
    <3>1. k - 1 \in i..(Len(s) - 1) /\ k - 1 \in DOMAIN t /\ (k - 1) + 1 = k
      BY <1>1, <1>3, <2>2
    <3> QED
      BY <1>2, <3>1
  <2> QED
    BY <2>1, <2>2
<1> QED
  BY <1>2, <1>4, <1>5, <1>6 DEF t

\* An element of a list with a new i-th one is that one or an element of the
\* list, in the same order.
Before(j, i) == IF j < i THEN j ELSE j - 1
LEMMA InsertedMap ==
  ASSUME NEW S, NEW s \in Seq(S), NEW i \in 1..(Len(s) + 1), NEW x \in S
  PROVE  /\ Inserted(s, i, x) \in Seq(S)
         /\ i \in DOMAIN Inserted(s, i, x) /\ Inserted(s, i, x)[i] = x
         /\ \A j \in DOMAIN Inserted(s, i, x) \ {i} :
               Before(j, i) \in DOMAIN s /\ Inserted(s, i, x)[j] = s[Before(j, i)]
         /\ \A k \in DOMAIN s : \E j \in DOMAIN Inserted(s, i, x) : Inserted(s, i, x)[j] = s[k]
<1> DEFINE t == Inserted(s, i, x)
<1>1. Len(s) \in Nat /\ i \in Nat /\ i >= 1 /\ i <= Len(s) + 1 /\ DOMAIN s = 1..Len(s)
  BY LenProperties
<1>2. /\ t \in Seq(S)
      /\ Len(t) = Len(s) + 1
      /\ \A j \in 1..(i - 1) : t[j] = s[j]
      /\ t[i] = x
      /\ \A j \in (i + 1)..(Len(s) + 1) : t[j] = s[j - 1]
  <2>1. i \in 1..(Len(s) + 1) /\ s \in Seq(S) /\ x \in S
    OBVIOUS
  <2> QED
    BY ONLY <2>1, InsertedElements, SMTT(30)
<1> HIDE DEF t
<1>3. DOMAIN t = 1..(Len(s) + 1)
  BY <1>2, LenProperties
<1>4. ASSUME NEW j \in DOMAIN t \ {i} PROVE Before(j, i) \in DOMAIN s /\ t[j] = s[Before(j, i)]
  <2>1. CASE j < i
    BY <1>1, <1>2, <1>3, <2>1 DEF Before
  <2>2. CASE ~(j < i)
    <3>1. j \in (i + 1)..(Len(s) + 1) /\ j - 1 \in 1..Len(s)
      BY <1>1, <1>3, <2>2
    <3> QED
      BY <1>1, <1>2, <2>2, <3>1 DEF Before
  <2> QED
    BY <2>1, <2>2
<1>5. ASSUME NEW k \in DOMAIN s PROVE \E j \in DOMAIN t : t[j] = s[k]
  <2>1. CASE k < i
    <3>1. k \in 1..(i - 1) /\ k \in DOMAIN t
      BY <1>1, <1>3, <2>1
    <3> QED
      BY <1>2, <3>1
  <2>2. CASE ~(k < i)
    <3>1. k + 1 \in (i + 1)..(Len(s) + 1) /\ k + 1 \in DOMAIN t /\ (k + 1) - 1 = k
      BY <1>1, <1>3, <2>2
    <3> QED
      BY <1>2, <3>1
  <2> QED
    BY <2>1, <2>2
<1> QED
  BY <1>1, <1>2, <1>3, <1>4, <1>5 DEF t

\* partition_point finds where the addresses below p end.
LEMMA PlaceFacts ==
  ASSUME NEW s \in Seq(FreeBlock), Sorted(s), NEW p \in Nat
  PROVE  /\ Place(s, p) \in 1..(Len(s) + 1)
         /\ \A i \in DOMAIN s : i < Place(s, p) <=> s[i].addr < p
<1> DEFINE L == {i \in DOMAIN s : s[i].addr < p}
           T == 1..(Len(s) + 1) \ L
<1>1. Len(s) \in Nat /\ DOMAIN s = 1..Len(s)
  BY LenProperties
<1>2. T \subseteq Nat /\ T # {}
  <2>1. Len(s) + 1 \in T
    BY <1>1
  <2> QED
    BY <1>1, <2>1
<1>3. PICK x \in T : \A y \in T : x <= y
  <2> HIDE DEF T
  <2> QED
    BY <1>2, LeastNatural
<1>4. x \in 1..(Len(s) + 1) /\ x \notin L /\ x \in Nat
  BY <1>1, <1>3
<1>5. ASSUME NEW i \in DOMAIN s, i < x PROVE i \in L
  BY <1>1, <1>3, <1>4, <1>5
<1>6. ASSUME NEW i \in DOMAIN s, ~(i < x) PROVE i \notin L
  <2>1. CASE i = x
    BY <1>4, <2>1
  <2>2. CASE i # x
    <3>1. x \in DOMAIN s /\ x < i
      BY <1>1, <1>4, <1>6, <2>2
    <3>2. ~(s[x].addr < p) /\ EndOf(s[x]) <= s[i].addr
      BY <1>4, <3>1 DEF Sorted
    <3> QED
      BY <3>1, <3>2, BlockFacts, SMTT(30)
  <2> QED
    BY <2>1, <2>2
<1>7. L = 1..(x - 1)
  BY <1>1, <1>4, <1>5, <1>6
<1>8. Cardinality(L) = x - 1
  <2>1. x - 1 \in Int /\ 1 \in Int
    BY <1>4
  <2>2. Cardinality(1..(x - 1)) = IF 1 > x - 1 THEN 0 ELSE (x - 1) - 1 + 1
    BY <2>1, FS_Interval
  <2>3. Cardinality(1..(x - 1)) = x - 1
    BY <1>4, <2>2
  <2> HIDE DEF L
  <2> QED
    BY <1>7, <2>3, Zenon
<1>9. Place(s, p) = x
  BY <1>4, <1>8 DEF Place
<1> HIDE DEF L
<1> QED
  BY <1>4, <1>5, <1>6, <1>9 DEF L

LEMMA KeepFacts ==
  ASSUME NEW al, NEW p, NEW n
  PROVE  /\ DOMAIN Keep(al, p, n) = DOMAIN al \cup {p}
         /\ Keep(al, p, n)[p] = n
         /\ \A q \in DOMAIN al \ {p} : Keep(al, p, n)[q] = al[q]
BY DEF Keep

LEMMA KeepNew ==
  ASSUME NEW al, NEW p, p \notin DOMAIN al, NEW n
  PROVE  /\ DOMAIN Keep(al, p, n) = DOMAIN al \cup {p}
         /\ Keep(al, p, n)[p] = n
         /\ \A q \in DOMAIN al : q # p /\ Keep(al, p, n)[q] = al[q]
BY DEF Keep

LEMMA ForgetFacts ==
  ASSUME NEW al, NEW p
  PROVE  /\ DOMAIN Forget(al, p) = DOMAIN al \ {p}
         /\ \A q \in DOMAIN al \ {p} : Forget(al, p)[q] = al[q]
BY DEF Forget, Restrict

\* What is known of a live block.
LEMMA LiveFacts ==
  ASSUME NEW s, NEW al, NEW hp, LayoutTypes(s, al, hp), NEW p \in DOMAIN al
  PROVE  /\ p \in Nat /\ p \in Pointers /\ p >= HeapBase /\ p < RamEnd
         /\ al[p] \in Nat /\ al[p] >= 1 /\ al[p] <= RamEnd - HeapBase
         /\ hp \in Nat /\ hp >= HeapBase /\ hp <= RamEnd
<1>1. p \in Pointers /\ al[p] \in 1..(RamEnd - HeapBase) /\ hp \in HeapBase..RamEnd
  BY DEF LayoutTypes
<1>2. HeapBase \in Nat /\ RamEnd \in Nat
  BY Units
<1> QED
  BY <1>1, <1>2 DEF Pointers

-----------------------------------------------------------------------------
(* The parts of malloc.                                                    *)

\* A free block that fits exactly becomes a live one.
LEMMA TakeWhole ==
  ASSUME NEW s, NEW al, NEW hp, Layout(s, al, hp), NEW i \in DOMAIN s
  PROVE  Layout(Deleted(s, i), Keep(al, s[i].addr, s[i].size), hp)
<1> DEFINE t == Deleted(s, i)
           q == s[i].addr
           n == s[i].size
           bl == Keep(al, q, n)
<1>1. s \in Seq(FreeBlock) /\ LayoutTypes(s, al, hp)
  BY DEF Layout, LayoutTypes
<1>2. /\ q \in Nat /\ q \in Pointers /\ n \in Nat /\ n >= 1 /\ n \in 1..(RamEnd - HeapBase)
      /\ EndOf(s[i]) = q + n
  BY <1>1, BlockFacts DEF FreeBlock
<1>3. /\ t \in Seq(FreeBlock)
      /\ \A j \in DOMAIN t : From(j, i) \in DOMAIN s \ {i} /\ t[j] = s[From(j, i)]
      /\ \A j, k \in DOMAIN t : j < k => From(j, i) < From(k, i)
      /\ \A k \in DOMAIN s \ {i} : \E j \in DOMAIN t : t[j] = s[k]
  BY <1>1, DeletedMap
<1>4. q \notin DOMAIN al
  <2> SUFFICES ASSUME q \in DOMAIN al PROVE FALSE
    OBVIOUS
  <2>1. al[q] \in Nat /\ al[q] >= 1
    BY <1>1, LiveFacts
  <2>2. q + al[q] <= q \/ q + n <= q
    BY <1>2 DEF Layout, Apart
  <2> QED
    BY <1>2, <2>1, <2>2
<1>5. /\ DOMAIN bl = DOMAIN al \cup {q} /\ bl[q] = n
      /\ \A p \in DOMAIN al : p # q /\ bl[p] = al[p]
  BY ONLY <1>4, KeepNew
<1> HIDE DEF t, bl, q, n
<1>6. LayoutTypes(t, bl, hp)
  BY <1>1, <1>2, <1>3, <1>5 DEF LayoutTypes
<1>7. Sorted(t)
  BY <1>3 DEF Layout, Sorted
<1>8. Below(t, bl, hp)
  BY <1>2, <1>3, <1>5 DEF Layout, Below
<1>9. Apart(t, bl)
  <2>1. \A p \in DOMAIN al : p + al[p] <= q \/ q + n <= p
    BY <1>2 DEF Layout, Apart, q
  <2>2. \A p \in DOMAIN bl : \A r \in DOMAIN bl \ {p} : p + bl[p] <= r \/ r + bl[r] <= p
    BY <1>5, <2>1 DEF Layout, Apart
  <2>3. ASSUME NEW j \in DOMAIN t PROVE q + n <= t[j].addr \/ EndOf(t[j]) <= q
    <3>1. PICK k \in DOMAIN s : k # i /\ t[j] = s[k]
      BY <1>3
    <3>2. k \in Nat /\ i \in Nat
      BY <1>1, BlockFacts
    <3> QED
      BY <1>2, <3>1, <3>2 DEF Layout, Sorted, q
  <2>4. \A p \in DOMAIN al : \A j \in DOMAIN t : p + al[p] <= t[j].addr \/ EndOf(t[j]) <= p
    BY <1>3 DEF Layout, Apart
  <2>5. \A p \in DOMAIN bl : \A j \in DOMAIN t : p + bl[p] <= t[j].addr \/ EndOf(t[j]) <= p
    BY <1>5, <2>3, <2>4
  <2> QED
    BY <2>2, <2>5 DEF Apart
<1>10. Covered(t, bl, hp)
  <2> SUFFICES ASSUME NEW a \in HeapBase..(hp - 1) PROVE InLive(bl, a) \/ InFree(t, a)
    BY DEF Covered
  <2>1. CASE InLive(al, a)
    BY <1>5, <2>1 DEF InLive
  <2>2. ASSUME NEW k \in DOMAIN s, s[k].addr <= a, a < EndOf(s[k])
        PROVE  InLive(bl, a) \/ InFree(t, a)
    <3>1. CASE k = i
      BY <1>2, <1>5, <2>2, <3>1 DEF InLive, q
    <3>2. CASE k # i
      BY <1>3, <2>2, <3>2 DEF InFree
    <3> QED
      BY <3>1, <3>2
  <2> QED
    BY <2>1, <2>2 DEF Layout, Covered, InFree
<1> QED
  BY <1>6, <1>7, <1>8, <1>9, <1>10 DEF Layout, t, bl, q, n

\* The front of a larger one does.
LEMMA TakePart ==
  ASSUME NEW s, NEW al, NEW hp, Layout(s, al, hp), NEW i \in DOMAIN s,
         NEW n \in Nat, n >= 1, n < s[i].size
  PROVE  Layout([s EXCEPT ![i] = Block(s[i].addr + n, s[i].size - n)], Keep(al, s[i].addr, n), hp)
<1> DEFINE q == s[i].addr
           b == Block(s[i].addr + n, s[i].size - n)
           t == [s EXCEPT ![i] = b]
           bl == Keep(al, q, n)
<1>1. s \in Seq(FreeBlock) /\ LayoutTypes(s, al, hp)
  BY DEF Layout, LayoutTypes
<1>2. /\ q \in Nat /\ q \in Pointers /\ q >= HeapBase /\ s[i].size \in Nat
      /\ s[i].size <= RamEnd - HeapBase
      /\ EndOf(s[i]) = q + s[i].size /\ EndOf(s[i]) \in Nat
  BY <1>1, BlockFacts DEF FreeBlock
<1>3. EndOf(s[i]) <= hp /\ hp \in Nat /\ hp <= RamEnd
  BY Units DEF Layout, Below, LayoutTypes
<1>4. /\ b.addr = q + n /\ EndOf(b) = EndOf(s[i]) /\ b \in FreeBlock
      /\ n \in 1..(RamEnd - HeapBase)
  <2>1. b.addr = q + n /\ b.size = s[i].size - n
    BY DEF Block
  <2>2. q + n \in Pointers /\ s[i].size - n \in 1..(RamEnd - HeapBase)
    BY <1>2, <1>3, Units DEF Pointers
  <2>3. EndOf(b) = EndOf(s[i])
    BY <1>2, <2>1 DEF EndOf
  <2>4. n \in 1..(RamEnd - HeapBase)
    BY <1>2, Units
  <2> QED
    BY <2>1, <2>2, <2>3, <2>4 DEF Block, FreeBlock
<1>5. /\ t \in Seq(FreeBlock) /\ DOMAIN t = DOMAIN s /\ t[i] = b
      /\ \A j \in DOMAIN s \ {i} : t[j] = s[j]
  <2> HIDE DEF b
  <2> QED
    BY <1>1, <1>4, ExceptSeq
<1>6. q \notin DOMAIN al
  <2> SUFFICES ASSUME q \in DOMAIN al PROVE FALSE
    OBVIOUS
  <2>1. al[q] \in Nat /\ al[q] >= 1
    BY <1>1, LiveFacts
  <2>2. q + al[q] <= q \/ q + s[i].size <= q
    BY <1>2 DEF Layout, Apart
  <2> QED
    BY <1>2, <2>1, <2>2
<1>7. /\ DOMAIN bl = DOMAIN al \cup {q} /\ bl[q] = n
      /\ \A p \in DOMAIN al : p # q /\ bl[p] = al[p]
  BY ONLY <1>6 DEF Keep
<1>8. \A j \in DOMAIN s : j \in Nat /\ s[j].addr \in Nat /\ EndOf(s[j]) \in Nat
  BY <1>1, BlockFacts
<1> HIDE DEF t, bl, q, b
<1>9. LayoutTypes(t, bl, hp)
  BY <1>1, <1>2, <1>4, <1>5, <1>7 DEF LayoutTypes
<1>10. Sorted(t)
  <2>1. ASSUME NEW j \in DOMAIN s
        PROVE  EndOf(t[j]) = EndOf(s[j]) /\ s[j].addr <= t[j].addr /\ t[j].addr \in Nat
    <3>1. CASE j = i
      BY <1>2, <1>4, <1>5, <3>1 DEF q
    <3>2. CASE j # i
      BY <1>5, <1>8, <3>2
    <3> QED
      BY <3>1, <3>2
  <2>2. \A j \in DOMAIN s : \A k \in DOMAIN s : j < k => EndOf(s[j]) <= s[k].addr
    BY DEF Layout, Sorted
  <2> QED
    BY <1>5, <1>8, <2>1, <2>2 DEF Sorted
<1>11. Below(t, bl, hp)
  <2>1. q + n <= hp
    BY <1>2, <1>3
  <2> QED
    BY <1>4, <1>5, <1>7, <2>1 DEF Layout, Below
<1>12. Apart(t, bl)
  <2>1. \A p \in DOMAIN al : p \in Nat /\ al[p] \in Nat
    BY <1>1, LiveFacts
  <2>2. \A p \in DOMAIN al : p + al[p] <= q \/ q + s[i].size <= p
    BY <1>2 DEF Layout, Apart, q
  <2>3. \A p \in DOMAIN al : p + al[p] <= q \/ q + n <= p
    BY <1>2, <2>1, <2>2
  <2>4. \A p \in DOMAIN bl : \A r \in DOMAIN bl \ {p} : p + bl[p] <= r \/ r + bl[r] <= p
    BY <1>7, <2>3 DEF Layout, Apart
  <2>5. ASSUME NEW j \in DOMAIN t PROVE q + n <= t[j].addr \/ EndOf(t[j]) <= q
    <3>1. CASE j = i
      BY <1>2, <1>4, <1>5, <3>1
    <3>2. CASE j # i
      <4>1. EndOf(s[i]) <= s[j].addr \/ EndOf(s[j]) <= q
        BY <1>5, <1>8, <3>2 DEF Layout, Sorted, q
      <4> QED
        BY <1>2, <1>5, <1>8, <3>2, <4>1
    <3> QED
      BY <3>1, <3>2
  <2>6. ASSUME NEW p \in DOMAIN al, NEW j \in DOMAIN t
        PROVE  p + al[p] <= t[j].addr \/ EndOf(t[j]) <= p
    <3>1. (p + al[p] <= s[j].addr \/ EndOf(s[j]) <= p) /\ j \in DOMAIN s
      BY <1>5 DEF Layout, Apart
    <3>2. CASE j = i
      BY <1>2, <1>4, <1>5, <2>1, <3>1, <3>2 DEF q
    <3>3. CASE j # i
      BY <1>5, <3>1, <3>3
    <3> QED
      BY <3>2, <3>3
  <2>7. \A p \in DOMAIN bl : \A j \in DOMAIN t : p + bl[p] <= t[j].addr \/ EndOf(t[j]) <= p
    BY <1>7, <2>5, <2>6
  <2> QED
    BY <2>4, <2>7 DEF Apart
<1>13. Covered(t, bl, hp)
  <2> SUFFICES ASSUME NEW a \in HeapBase..(hp - 1) PROVE InLive(bl, a) \/ InFree(t, a)
    BY DEF Covered
  <2>1. CASE InLive(al, a)
    BY <1>7, <2>1 DEF InLive
  <2>2. ASSUME NEW k \in DOMAIN s, s[k].addr <= a, a < EndOf(s[k])
        PROVE  InLive(bl, a) \/ InFree(t, a)
    <3>1. CASE k = i /\ a < q + n
      BY <1>7, <2>2, <3>1 DEF InLive, q
    <3>2. CASE k = i /\ ~(a < q + n)
      <4>1. b.addr <= a /\ a < EndOf(b)
        BY <1>2, <1>3, <1>4, <2>2, <3>2, Units
      <4> QED
        BY <1>5, <3>2, <4>1 DEF InFree
    <3>3. CASE k # i
      BY <1>5, <2>2, <3>3 DEF InFree
    <3> QED
      BY <3>1, <3>2, <3>3
  <2> QED
    BY <2>1, <2>2 DEF Layout, Covered, InFree
<1> QED
  BY <1>9, <1>10, <1>11, <1>12, <1>13 DEF Layout, t, bl, q, b

\* The bump pointer moves up behind a new block.
LEMMA TakeTop ==
  ASSUME NEW s, NEW al, NEW hp, Layout(s, al, hp), NEW n \in Nat, n >= 1, hp + n <= RamEnd
  PROVE  Layout(s, Keep(al, hp, n), hp + n)
<1> DEFINE bl == Keep(al, hp, n)
<1>1. LayoutTypes(s, al, hp) /\ s \in Seq(FreeBlock)
  BY DEF Layout, LayoutTypes
<1>2. hp \in Nat /\ hp >= HeapBase /\ hp \in Pointers /\ n \in 1..(RamEnd - HeapBase)
      /\ hp + n \in HeapBase..RamEnd
  BY <1>1, Units DEF LayoutTypes, Pointers
<1>3. \A p \in DOMAIN al : p \in Nat /\ al[p] \in Nat /\ al[p] >= 1 /\ p + al[p] <= hp
  BY <1>1, LiveFacts DEF Layout, Below
<1>4. hp \notin DOMAIN al
  BY <1>2, <1>3
<1>5. /\ DOMAIN bl = DOMAIN al \cup {hp} /\ bl[hp] = n
      /\ \A p \in DOMAIN al : p # hp /\ bl[p] = al[p]
  BY ONLY <1>4 DEF Keep
<1>6. \A j \in DOMAIN s : EndOf(s[j]) \in Nat /\ EndOf(s[j]) <= hp
  BY <1>1, BlockFacts DEF Layout, Below
<1> HIDE DEF bl
<1>7. LayoutTypes(s, bl, hp + n)
  BY <1>1, <1>2, <1>5 DEF LayoutTypes
<1>8. Below(s, bl, hp + n)
  BY <1>2, <1>3, <1>5, <1>6 DEF Below
<1>9. Apart(s, bl)
  <2>1. \A p \in DOMAIN bl : \A r \in DOMAIN bl \ {p} : p + bl[p] <= r \/ r + bl[r] <= p
    BY <1>3, <1>5 DEF Layout, Apart
  <2>2. \A p \in DOMAIN bl : \A i \in DOMAIN s : p + bl[p] <= s[i].addr \/ EndOf(s[i]) <= p
    BY <1>5, <1>6 DEF Layout, Apart
  <2> QED
    BY ONLY <2>1, <2>2 DEF Apart
<1>10. Covered(s, bl, hp + n)
  <2> SUFFICES ASSUME NEW a \in HeapBase..((hp + n) - 1) PROVE InLive(bl, a) \/ InFree(s, a)
    BY Zenon DEF Covered
  <2>1. CASE a < hp
    <3>1. a \in HeapBase..(hp - 1)
      BY <1>2, <2>1, Units
    <3> QED
      BY <1>5, <3>1 DEF Layout, Covered, InLive
  <2>2. CASE ~(a < hp)
    <3>1. hp <= a /\ a < hp + n
      BY <1>2, <2>2, Units
    <3> QED
      BY <1>5, <3>1 DEF InLive
  <2> QED
    BY <2>1, <2>2
<1> QED
  BY <1>7, <1>8, <1>9, <1>10 DEF Layout, bl
-----------------------------------------------------------------------------
(* The parts of free.                                                      *)

\* A live block becomes a free one.
LEMMA Give ==
  ASSUME NEW s, NEW al, NEW hp, Layout(s, al, hp), NEW p \in DOMAIN al
  PROVE  Layout(Inserted(s, Place(s, p), Block(p, al[p])), Forget(al, p), hp)
<1> DEFINE i == Place(s, p)
           b == Block(p, al[p])
           t == Inserted(s, i, b)
           fl == Forget(al, p)
<1>1. s \in Seq(FreeBlock) /\ LayoutTypes(s, al, hp) /\ Sorted(s)
  BY DEF Layout, LayoutTypes
<1>2. /\ p \in Nat /\ p \in Pointers /\ al[p] \in Nat /\ al[p] >= 1
      /\ al[p] \in 1..(RamEnd - HeapBase)
  BY <1>1, LiveFacts DEF LayoutTypes
<1>3. b \in FreeBlock /\ b.addr = p /\ EndOf(b) = p + al[p]
  BY <1>2 DEF Block, EndOf, FreeBlock
<1>4. i \in 1..(Len(s) + 1) /\ i \in Nat /\ \A j \in DOMAIN s : j < i <=> s[j].addr < p
  <2>1. i \in 1..(Len(s) + 1) /\ \A j \in DOMAIN s : j < i <=> s[j].addr < p
    BY <1>1, <1>2, PlaceFacts
  <2> QED
    BY <2>1
<1> HIDE DEF i, b
<1>5. /\ t \in Seq(FreeBlock) /\ i \in DOMAIN t /\ t[i] = b
      /\ \A j \in DOMAIN t \ {i} : Before(j, i) \in DOMAIN s /\ t[j] = s[Before(j, i)]
      /\ \A k \in DOMAIN s : \E j \in DOMAIN t : t[j] = s[k]
  <2>1. i \in 1..(Len(s) + 1) /\ s \in Seq(FreeBlock) /\ b \in FreeBlock
    BY <1>1, <1>3, <1>4
  <2> QED
    BY ONLY <2>1, InsertedMap, SMTT(30)
<1>6. DOMAIN fl = DOMAIN al \ {p} /\ \A q \in DOMAIN fl : q \in DOMAIN al /\ fl[q] = al[q]
  BY ForgetFacts
<1> HIDE DEF t, fl
<1>7. \A j \in DOMAIN s : /\ j \in Nat /\ s[j].addr \in Nat /\ EndOf(s[j]) \in Nat
                          /\ EndOf(s[j]) > s[j].addr
  BY <1>1, BlockFacts
<1>8. \A j \in DOMAIN s : p + al[p] <= s[j].addr \/ EndOf(s[j]) <= p
  BY DEF Layout, Apart
<1>9. \A j \in DOMAIN t : j \in Nat
  BY <1>5, BlockFacts
<1>10. LayoutTypes(t, fl, hp)
  BY <1>1, <1>5, <1>6 DEF LayoutTypes
<1>11. Sorted(t)
  <2> SUFFICES ASSUME NEW j \in DOMAIN t, NEW k \in DOMAIN t, j < k PROVE EndOf(t[j]) <= t[k].addr
    BY DEF Sorted
  <2>1. CASE j # i /\ k # i
    <3>1. Before(j, i) < Before(k, i)
      BY <1>4, <1>9, <2>1 DEF Before
    <3> QED
      BY <1>1, <1>5, <2>1, <3>1 DEF Sorted
  <2>2. CASE j = i
    <3>1. k # i /\ ~(Before(k, i) < i) /\ Before(k, i) \in DOMAIN s /\ t[k] = s[Before(k, i)]
      BY <1>4, <1>5, <1>9, <2>2 DEF Before
    <3>2. ~(s[Before(k, i)].addr < p)
      BY <1>4, <3>1
    <3> QED
      BY <1>2, <1>3, <1>5, <1>7, <1>8, <2>2, <3>1, <3>2
  <2>3. CASE k = i
    <3>1. j # i /\ Before(j, i) < i /\ Before(j, i) \in DOMAIN s /\ t[j] = s[Before(j, i)]
      BY <1>4, <1>5, <1>9, <2>3 DEF Before
    <3>2. s[Before(j, i)].addr < p
      BY <1>4, <3>1
    <3> QED
      BY <1>2, <1>3, <1>5, <1>7, <1>8, <2>3, <3>1, <3>2
  <2> QED
    BY <2>1, <2>2, <2>3
<1>12. Below(t, fl, hp)
  BY <1>3, <1>5, <1>6 DEF Layout, Below
<1>13. Apart(t, fl)
  <2>1. \A q \in DOMAIN fl : \A r \in DOMAIN fl \ {q} : q + fl[q] <= r \/ r + fl[r] <= q
    BY <1>6 DEF Layout, Apart
  <2>2. ASSUME NEW q \in DOMAIN fl, NEW j \in DOMAIN t PROVE q + fl[q] <= t[j].addr \/ EndOf(t[j]) <= q
    <3>1. CASE j = i
      BY <1>3, <1>5, <1>6, <3>1 DEF Layout, Apart
    <3>2. CASE j # i
      BY <1>5, <1>6, <3>2 DEF Layout, Apart
    <3> QED
      BY <3>1, <3>2
  <2> QED
    BY <2>1, <2>2 DEF Apart
<1>14. Covered(t, fl, hp)
  <2> SUFFICES ASSUME NEW a \in HeapBase..(hp - 1) PROVE InLive(fl, a) \/ InFree(t, a)
    BY DEF Covered
  <2>1. ASSUME NEW q \in DOMAIN al, q <= a, a < q + al[q] PROVE InLive(fl, a) \/ InFree(t, a)
    <3>1. CASE q = p
      BY <1>3, <1>5, <2>1, <3>1 DEF InFree
    <3>2. CASE q # p
      BY <1>6, <2>1, <3>2 DEF InLive
    <3> QED
      BY <3>1, <3>2
  <2>2. ASSUME NEW k \in DOMAIN s, s[k].addr <= a, a < EndOf(s[k]) PROVE InFree(t, a)
    BY <1>5, <2>2 DEF InFree
  <2> QED
    BY <2>1, <2>2 DEF Layout, Covered, InFree, InLive
<1> QED
  BY <1>10, <1>11, <1>12, <1>13, <1>14 DEF Layout, t, fl, i, b

\* A live block becomes two, the second of which is about to be freed.
LEMMA Split ==
  ASSUME NEW s, NEW al, NEW hp, Layout(s, al, hp), NEW p \in DOMAIN al,
         NEW n \in Nat, n >= 1, n < al[p]
  PROVE  /\ Layout(s, Keep(Keep(al, p, n), p + n, al[p] - n), hp)
         /\ p + n \notin DOMAIN al
<1> DEFINE q == p + n
           m == al[p] - n
           kl == Keep(al, p, n)
           bl == Keep(kl, q, m)
<1>1. LayoutTypes(s, al, hp) /\ s \in Seq(FreeBlock)
  BY DEF Layout, LayoutTypes
<1>2. \A r \in DOMAIN al : /\ r \in Nat /\ r \in Pointers /\ r >= HeapBase
                           /\ al[r] \in Nat /\ al[r] >= 1 /\ r + al[r] <= hp
  BY <1>1, LiveFacts DEF Layout, Below
<1>3. hp \in Nat /\ hp <= RamEnd /\ RamEnd \in Nat /\ HeapBase \in Nat
      /\ al[p] \in Nat /\ al[p] <= RamEnd - HeapBase
  BY <1>1, LiveFacts, Units
<1>4. /\ q \in Nat /\ m \in Nat /\ m >= 1 /\ q + m = p + al[p] /\ q # p
      /\ q \in Pointers /\ n \in 1..(RamEnd - HeapBase) /\ m \in 1..(RamEnd - HeapBase)
  BY <1>2, <1>3 DEF Pointers
<1>5. \A r \in DOMAIN al \ {p} : p + al[p] <= r \/ r + al[r] <= p
  BY DEF Layout, Apart
<1>6. q \notin DOMAIN al
  BY <1>2, <1>4, <1>5
<1>7. /\ DOMAIN kl = DOMAIN al /\ kl[p] = n
      /\ \A r \in DOMAIN al \ {p} : kl[r] = al[r]
  <2>1. p \in DOMAIN al
    OBVIOUS
  <2> QED
    BY ONLY <2>1 DEF Keep
<1> HIDE DEF q, m, kl
<1>8. /\ DOMAIN bl = DOMAIN kl \cup {q} /\ bl[q] = m
      /\ \A r \in DOMAIN kl : r # q /\ bl[r] = kl[r]
  BY ONLY <1>6, <1>7 DEF Keep
<1> HIDE DEF bl
<1>9. /\ DOMAIN bl = DOMAIN al \cup {q} /\ bl[q] = m /\ bl[p] = n
      /\ \A r \in DOMAIN al \ {p} : bl[r] = al[r]
  BY <1>7, <1>8
<1>10. LayoutTypes(s, bl, hp)
  BY <1>1, <1>4, <1>9 DEF LayoutTypes
<1>11. Below(s, bl, hp)
  <2>1. q + m <= hp /\ p + n <= hp
    BY <1>2, <1>3, <1>4
  <2> QED
    BY <1>9, <2>1 DEF Layout, Below
<1>12. Apart(s, bl)
  <2>1. q = p + n
    BY DEF q
  <2>2. ASSUME NEW r \in DOMAIN al \ {p}
        PROVE  /\ p + n <= r \/ r + bl[r] <= p
               /\ q + m <= r \/ r + bl[r] <= q
    BY <1>2, <1>3, <1>4, <1>5, <1>9, <2>1
  <2>3. \A r \in DOMAIN al \ {p} : \A u \in DOMAIN al \ {p, r} : r + bl[r] <= u \/ u + bl[u] <= r
    BY <1>9 DEF Layout, Apart
  <2>4. \A r \in DOMAIN bl : \A u \in DOMAIN bl \ {r} : r + bl[r] <= u \/ u + bl[u] <= r
    <3> SUFFICES ASSUME NEW r \in DOMAIN bl, NEW u \in DOMAIN bl, u # r
                 PROVE  r + bl[r] <= u \/ u + bl[u] <= r
      OBVIOUS
    <3>1. CASE r \notin {p, q} /\ u \notin {p, q}
      BY <1>9, <2>3, <3>1
    <3>2. CASE r \in {p, q} /\ u \notin {p, q}
      BY <1>9, <2>2, <3>2
    <3>3. CASE r \notin {p, q} /\ u \in {p, q}
      BY <1>9, <2>2, <3>3
    <3>4. CASE r \in {p, q} /\ u \in {p, q}
      BY <1>2, <1>4, <1>9, <2>1, <3>4
    <3> QED
      BY <3>1, <3>2, <3>3, <3>4
  <2>5. ASSUME NEW r \in DOMAIN bl, NEW i \in DOMAIN s PROVE r + bl[r] <= s[i].addr \/ EndOf(s[i]) <= r
    <3>1. \A u \in DOMAIN al : u + al[u] <= s[i].addr \/ EndOf(s[i]) <= u
      BY DEF Layout, Apart
    <3>2. s[i].addr \in Nat /\ EndOf(s[i]) \in Nat
      BY <1>1, BlockFacts
    <3>3. CASE r \notin {p, q}
      BY <1>9, <3>1, <3>3
    <3>4. CASE r \in {p, q}
      BY <1>2, <1>4, <1>9, <2>1, <3>1, <3>2, <3>4
    <3> QED
      BY <3>3, <3>4
  <2> QED
    BY ONLY <2>4, <2>5 DEF Apart
<1>13. Covered(s, bl, hp)
  <2> SUFFICES ASSUME NEW a \in HeapBase..(hp - 1) PROVE InLive(bl, a) \/ InFree(s, a)
    BY DEF Covered
  <2>1. a \in Nat
    BY <1>3
  <2>2. ASSUME NEW r \in DOMAIN al, r <= a, a < r + al[r] PROVE InLive(bl, a)
    <3>1. CASE r # p
      BY <1>9, <2>2, <3>1 DEF InLive
    <3>2. CASE r = p /\ a < q
      BY <1>9, <2>2, <3>2 DEF InLive, q
    <3>3. CASE r = p /\ ~(a < q)
      BY <1>4, <1>9, <2>1, <2>2, <3>3 DEF InLive
    <3> QED
      BY <3>1, <3>2, <3>3
  <2> QED
    BY <2>2 DEF Layout, Covered, InLive
<1> QED
  BY <1>6, <1>10, <1>11, <1>12, <1>13 DEF Layout, bl, kl, q, m

\* The free list with two touching blocks made one, at index i.
Merged(s, i) == Deleted([s EXCEPT ![i].size = @ + s[i + 1].size], i + 1)

\* What the elements of that list are.
LEMMA MergedElements ==
  ASSUME NEW s \in Seq(FreeBlock), NEW i \in DOMAIN s, i + 1 \in DOMAIN s,
         EndOf(s[i]) = s[i + 1].addr, EndOf(s[i + 1]) <= RamEnd
  PROVE  /\ Merged(s, i) \in Seq(FreeBlock)
         /\ Len(Merged(s, i)) = Len(s) - 1
         /\ i \in DOMAIN Merged(s, i)
         /\ Merged(s, i)[i].addr = s[i].addr
         /\ EndOf(Merged(s, i)[i]) = EndOf(s[i + 1])
         /\ \A j \in DOMAIN Merged(s, i) \ {i} :
              From(j, i + 1) \in DOMAIN s \ {i, i + 1} /\ Merged(s, i)[j] = s[From(j, i + 1)]
         /\ \A k \in DOMAIN s \ {i, i + 1} : \E j \in DOMAIN Merged(s, i) : Merged(s, i)[j] = s[k]
<1> DEFINE b == [addr |-> s[i].addr, size |-> s[i].size + s[i + 1].size]
           u == [s EXCEPT ![i] = b]
           t == Deleted(u, i + 1)
<1>1. Len(s) \in Nat /\ DOMAIN s = 1..Len(s) /\ i \in Nat /\ i >= 1 /\ i + 1 <= Len(s)
  BY LenProperties
<1>2. /\ s[i].addr \in Nat /\ s[i].size \in Nat /\ s[i].size >= 1 /\ s[i].addr >= HeapBase
      /\ s[i].addr \in Pointers
      /\ EndOf(s[i]) = s[i].addr + s[i].size
      /\ s[i + 1].addr \in Nat /\ s[i + 1].size \in Nat /\ s[i + 1].size >= 1
      /\ EndOf(s[i + 1]) = s[i + 1].addr + s[i + 1].size
      /\ s[i] \in FreeBlock
  <2>1. /\ s[i].addr \in Nat /\ s[i].size \in Nat /\ s[i].size >= 1 /\ s[i].addr >= HeapBase
        /\ s[i] \in FreeBlock /\ EndOf(s[i]) = s[i].addr + s[i].size
    BY BlockFacts
  <2>2. s[i].addr \in Pointers
    BY <2>1 DEF FreeBlock
  <2>3. /\ s[i + 1].addr \in Nat /\ s[i + 1].size \in Nat /\ s[i + 1].size >= 1
        /\ EndOf(s[i + 1]) = s[i + 1].addr + s[i + 1].size
    BY BlockFacts
  <2> QED
    BY <2>1, <2>2, <2>3
<1>3. b \in FreeBlock /\ b.addr = s[i].addr /\ EndOf(b) = EndOf(s[i + 1])
  <2>1. s[i].size + s[i + 1].size \in 1..(RamEnd - HeapBase)
    <3>1. /\ s[i].addr + s[i].size + s[i + 1].size <= RamEnd
          /\ HeapBase <= s[i].addr /\ RamEnd \in Nat /\ HeapBase \in Nat
      BY <1>2, Units
    <3> QED
      BY <1>2, <3>1, SMTT(30)
  <2>2. b.addr = s[i].addr /\ b.size = s[i].size + s[i + 1].size
    OBVIOUS
  <2>3. EndOf(b) = EndOf(s[i + 1])
    BY <1>2, <2>2 DEF EndOf
  <2>4. b \in FreeBlock
    BY <1>2, <2>1 DEF FreeBlock
  <2> QED
    BY <2>2, <2>3, <2>4
<1>4. [s EXCEPT ![i].size = @ + s[i + 1].size] = u
  <2>1. [s[i] EXCEPT !.size = @ + s[i + 1].size] = b
    BY <1>2, SMTT(30) DEF FreeBlock
  <2> HIDE DEF b
  <2> QED
    BY <2>1
<1> HIDE DEF b
<1>5. /\ u \in Seq(FreeBlock) /\ Len(u) = Len(s) /\ DOMAIN u = DOMAIN s /\ u[i] = b
      /\ \A j \in DOMAIN s \ {i} : u[j] = s[j]
  BY <1>3, ExceptSeq
<1> HIDE DEF u
<1>6. /\ t \in Seq(FreeBlock)
      /\ \A j \in DOMAIN t : From(j, i + 1) \in DOMAIN u \ {i + 1} /\ t[j] = u[From(j, i + 1)]
      /\ \A k \in DOMAIN u \ {i + 1} : \E j \in DOMAIN t : t[j] = u[k]
  <2>1. u \in Seq(FreeBlock) /\ i + 1 \in DOMAIN u
    BY <1>5, SMTT(30)
  <2> QED
    BY ONLY <2>1, DeletedMap, SMTT(30)
<1>7. Len(t) = Len(s) - 1 /\ DOMAIN t = 1..(Len(s) - 1)
  <2>1. u \in Seq(FreeBlock) /\ i + 1 \in 1..Len(u)
    BY <1>1, <1>5
  <2>2. Len(t) = Len(u) - 1
    BY ONLY <2>1, DeletedElements, SMTT(30)
  <2>3. Len(t) = Len(s) - 1
    BY <1>5, <2>2
  <2>4. DOMAIN t = 1..Len(t)
    BY <1>6, LenProperties
  <2> QED
    BY <2>3, <2>4
<1>8. Merged(s, i) = t
  BY <1>4 DEF Merged
<1> HIDE DEF t
<1>9. i \in DOMAIN t /\ t[i] = b
  <2>1. i \in DOMAIN t /\ From(i, i + 1) = i
    BY <1>1, <1>7 DEF From
  <2> QED
    BY <1>5, <1>6, <2>1
<1>10. ASSUME NEW j \in DOMAIN t \ {i}
       PROVE  From(j, i + 1) \in DOMAIN s \ {i, i + 1} /\ t[j] = s[From(j, i + 1)]
  <2>1. From(j, i + 1) # i
    BY <1>1, <1>7 DEF From
  <2> QED
    BY <1>5, <1>6, <2>1
<1>11. ASSUME NEW k \in DOMAIN s \ {i, i + 1} PROVE \E j \in DOMAIN t : t[j] = s[k]
  BY <1>5, <1>6
<1> QED
  BY <1>3, <1>6, <1>7, <1>8, <1>9, <1>10, <1>11

LEMMA Merge ==
  ASSUME NEW s, NEW al, NEW hp, Layout(s, al, hp), NEW i \in DOMAIN s, i + 1 \in DOMAIN s,
         EndOf(s[i]) = s[i + 1].addr
  PROVE  Layout(Merged(s, i), al, hp)
<1> DEFINE t == Merged(s, i)
<1>1. /\ LayoutTypes(s, al, hp) /\ s \in Seq(FreeBlock) /\ Sorted(s) /\ EndOf(s[i + 1]) <= hp
      /\ hp \in Nat /\ hp <= RamEnd
  BY Units DEF Layout, LayoutTypes, Below
<1>2. \A j \in DOMAIN s : /\ j \in Nat /\ s[j].addr \in Nat /\ EndOf(s[j]) \in Nat
                          /\ EndOf(s[j]) > s[j].addr
  BY <1>1, BlockFacts, SMTT(30)
<1>3. EndOf(s[i + 1]) <= RamEnd
  BY <1>1, <1>2, Units
<1>4. /\ t \in Seq(FreeBlock)
      /\ i \in DOMAIN t /\ t[i].addr = s[i].addr /\ EndOf(t[i]) = EndOf(s[i + 1])
      /\ \A j \in DOMAIN t \ {i} :
           From(j, i + 1) \in DOMAIN s \ {i, i + 1} /\ t[j] = s[From(j, i + 1)]
      /\ \A k \in DOMAIN s \ {i, i + 1} : \E j \in DOMAIN t : t[j] = s[k]
  <2>1. s \in Seq(FreeBlock) /\ i \in DOMAIN s /\ i + 1 \in DOMAIN s
        /\ EndOf(s[i]) = s[i + 1].addr /\ EndOf(s[i + 1]) <= RamEnd
    BY <1>1, <1>3
  <2> QED
    BY ONLY <2>1, MergedElements, SMTT(30)
<1> HIDE DEF t
<1>5. \A j \in DOMAIN t : j \in Nat /\ t[j].addr \in Nat /\ EndOf(t[j]) \in Nat
  BY <1>4, BlockFacts
<1>6. LayoutTypes(t, al, hp)
  BY <1>1, <1>4 DEF LayoutTypes
<1>7. Sorted(t)
  <2> SUFFICES ASSUME NEW j \in DOMAIN t, NEW k \in DOMAIN t, j < k PROVE EndOf(t[j]) <= t[k].addr
    BY DEF Sorted
  <2>1. CASE j # i /\ k # i
    <3>1. From(j, i + 1) < From(k, i + 1)
      BY <1>2, <1>5 DEF From
    <3> QED
      BY <1>1, <1>4, <2>1, <3>1 DEF Sorted
  <2>2. CASE j = i
    <3>1. k # i /\ i + 1 < From(k, i + 1)
      BY <1>2, <1>5, <2>2 DEF From
    <3> QED
      BY <1>1, <1>4, <2>2, <3>1 DEF Sorted
  <2>3. CASE k = i
    <3>1. j # i /\ From(j, i + 1) < i
      BY <1>2, <1>5, <2>3 DEF From
    <3> QED
      BY <1>1, <1>4, <2>3, <3>1 DEF Sorted
  <2> QED
    BY <2>1, <2>2, <2>3
<1>8. Below(t, al, hp)
  <2>1. ASSUME NEW j \in DOMAIN t PROVE EndOf(t[j]) <= hp
    BY <1>4 DEF Layout, Below
  <2> QED
    BY <2>1 DEF Layout, Below
<1>9. Apart(t, al)
  <2>1. ASSUME NEW q \in DOMAIN al, NEW j \in DOMAIN t PROVE q + al[q] <= t[j].addr \/ EndOf(t[j]) <= q
    <3>1. \A k \in DOMAIN s : q + al[q] <= s[k].addr \/ EndOf(s[k]) <= q
      BY DEF Layout, Apart
    <3>2. q \in Nat /\ al[q] \in Nat /\ al[q] >= 1
      BY <1>1, LiveFacts
    <3>3. CASE j = i
      BY <1>2, <1>4, <3>1, <3>2, <3>3
    <3>4. CASE j # i
      BY <1>4, <3>1, <3>4
    <3> QED
      BY <3>3, <3>4
  <2> QED
    BY <2>1 DEF Layout, Apart
<1>10. Covered(t, al, hp)
  <2> SUFFICES ASSUME NEW a \in HeapBase..(hp - 1) PROVE InLive(al, a) \/ InFree(t, a)
    BY DEF Covered
  <2>1. a \in Nat
    BY <1>1, Units
  <2>2. ASSUME NEW k \in DOMAIN s, s[k].addr <= a, a < EndOf(s[k]) PROVE InFree(t, a)
    <3>1. CASE k \in {i, i + 1}
      <4>1. t[i].addr <= a /\ a < EndOf(t[i])
        BY <1>2, <1>4, <2>1, <2>2, <3>1
      <4> QED
        BY <1>4, <4>1 DEF InFree
    <3>2. CASE k \notin {i, i + 1}
      BY <1>4, <2>2, <3>2 DEF InFree
    <3> QED
      BY <3>1, <3>2
  <2> QED
    BY <2>2 DEF Layout, Covered, InFree
<1> QED
  BY <1>6, <1>7, <1>8, <1>9, <1>10 DEF Layout, t

\* The last free block, which ends at the bump pointer, goes back to it.
LEMMA Trim ==
  ASSUME NEW s, NEW al, NEW hp, Layout(s, al, hp), Len(s) > 0, EndOf(s[Len(s)]) = hp
  PROVE  Layout(SubSeq(s, 1, Len(s) - 1), al, s[Len(s)].addr)
<1> DEFINE n == Len(s)
           t == SubSeq(s, 1, n - 1)
           top == s[n].addr
<1>1. LayoutTypes(s, al, hp) /\ s \in Seq(FreeBlock) /\ Sorted(s)
  BY DEF Layout, LayoutTypes
<1>2. n \in Nat /\ n \in DOMAIN s /\ DOMAIN s = 1..n
  BY <1>1, LenProperties
<1>3. \A j \in DOMAIN s : /\ j \in Nat /\ s[j].addr \in Nat /\ EndOf(s[j]) \in Nat
                          /\ EndOf(s[j]) > s[j].addr
                          /\ s[j].addr >= HeapBase /\ s[j].addr < RamEnd
  BY <1>1, BlockFacts
<1>4. t \in Seq(FreeBlock) /\ DOMAIN t = 1..(n - 1) /\ \A j \in DOMAIN t : t[j] = s[j]
  BY <1>1, <1>2
<1> HIDE DEF t, n
<1>5. /\ \A j \in DOMAIN t : j \in DOMAIN s /\ j < n /\ t[j] = s[j]
      /\ \A j \in DOMAIN s : j # n => j \in DOMAIN t
  BY <1>2, <1>4
<1>6. LayoutTypes(t, al, top)
  <2>1. top \in HeapBase..RamEnd
    BY <1>2, <1>3, Units
  <2> QED
    BY <1>1, <1>4, <2>1 DEF LayoutTypes
<1>7. Sorted(t)
  BY <1>1, <1>5 DEF Sorted
<1>8. Below(t, al, top)
  <2>1. \A j \in DOMAIN t : EndOf(t[j]) <= top
    BY <1>1, <1>2, <1>5 DEF Sorted
  <2>2. ASSUME NEW p \in DOMAIN al PROVE p + al[p] <= top
    <3>1. p \in Nat /\ al[p] \in Nat /\ al[p] >= 1
      BY <1>1, LiveFacts
    <3>2. p + al[p] <= s[n].addr \/ EndOf(s[n]) <= p
      BY <1>2 DEF Layout, Apart
    <3>3. p + al[p] <= hp /\ EndOf(s[n]) = hp
      BY DEF Layout, Below, n
    <3> QED
      BY <1>2, <1>3, <3>1, <3>2, <3>3
  <2> QED
    BY <2>1, <2>2 DEF Below
<1>9. Apart(t, al)
  BY <1>5 DEF Layout, Apart
<1>10. Covered(t, al, top)
  <2> SUFFICES ASSUME NEW a \in HeapBase..(top - 1) PROVE InLive(al, a) \/ InFree(t, a)
    BY DEF Covered
  <2>1. a \in Nat /\ a < top /\ a \in HeapBase..(hp - 1)
    <3>1. top \in Nat /\ top < hp /\ hp \in Nat
      BY <1>2, <1>3 DEF n
    <3> QED
      BY <3>1, Units
  <2>2. ASSUME NEW k \in DOMAIN s, s[k].addr <= a, a < EndOf(s[k]) PROVE InFree(t, a)
    <3>1. k # n
      BY <1>2, <1>3, <2>1, <2>2
    <3> QED
      BY <1>5, <2>2, <3>1 DEF InFree
  <2> QED
    BY <2>1, <2>2 DEF Layout, Covered, InFree
<1> QED
  BY <1>6, <1>7, <1>8, <1>9, <1>10 DEF Layout, t, n

-----------------------------------------------------------------------------
(* The inductive invariant.                                                *)

\* No free block before place k touches a later one, and none touches the bump
\* pointer.
Separate(s, k) ==
  \A i \in DOMAIN s : \A j \in DOMAIN s : i < j /\ i < k => EndOf(s[i]) < s[j].addr
Clear(s, hp) == \A i \in DOMAIN s : EndOf(s[i]) < hp

\* The merging loop has the blocks before index behind it; the trimming loop has
\* all of them, and after it has removed one no other touches the bump pointer.
Progress ==
  /\ step \in {"idle", "merge", "trim"}
  /\ index \in Nat /\ index >= 1
  /\ step = "merge" => index <= Len(free_blocks) /\ Separate(free_blocks, index)
  /\ step # "merge" => Separate(free_blocks, Len(free_blocks))
  /\ step = "trim" =>
       \/ index <= Len(free_blocks)
       \/ index <= Len(free_blocks) + 1 /\ Clear(free_blocks, heap_ptr)
  /\ step = "idle" => index = 1 /\ Clear(free_blocks, heap_ptr)

Contents == ram \in [Pointers -> Data] /\ result \in Pointers \cup {Null}

HeapInv ==
  /\ Layout(free_blocks, allocations, heap_ptr)
  /\ Contents
  /\ Progress

\* The free block that malloc takes is the first that is large enough.
LEMMA FirstLarge ==
  ASSUME free_blocks \in Seq(FreeBlock), NEW n, Large(n) # {}
  PROVE  /\ Min(Large(n)) \in DOMAIN free_blocks /\ free_blocks[Min(Large(n))].size >= n
         /\ \A i \in Large(n) : Min(Large(n)) <= i
<1>1. Large(n) \subseteq Nat
  BY LenProperties DEF Large
<1>2. PICK i \in Large(n) : \A j \in Large(n) : i <= j
  <2> HIDE DEF Large
  <2> QED
    BY <1>1, LeastNatural
<1>3. Min(Large(n)) \in Large(n) /\ \A j \in Large(n) : Min(Large(n)) <= j
  BY <1>2 DEF Min
<1> QED
  BY <1>3 DEF Large

\* The bump pointer after malloc.
Top(n) == IF Large(n) = {} THEN heap_ptr + n ELSE heap_ptr

\* malloc takes the words it gives out from the free ones or from the top.
LEMMA Allocates ==
  ASSUME Layout(free_blocks, allocations, heap_ptr), NEW n \in Nat, n >= 1, Found(n) # Null
  PROVE  /\ Layout(Rest(n), Keep(allocations, Found(n), n), Top(n))
         /\ Found(n) \in Pointers /\ Found(n) + n <= RamEnd
         /\ Found(n) \notin Live
<1>1. LayoutTypes(free_blocks, allocations, heap_ptr) /\ free_blocks \in Seq(FreeBlock)
  BY DEF Layout, LayoutTypes
<1>2. heap_ptr \in Nat /\ heap_ptr >= HeapBase /\ heap_ptr <= RamEnd
  BY <1>1, Units DEF LayoutTypes
<1>3. \A p \in Live : /\ p \in Nat /\ allocations[p] \in Nat /\ allocations[p] >= 1
                      /\ p + allocations[p] <= heap_ptr
  BY <1>1, LiveFacts DEF Layout, Below, Live
<1>4. CASE Large(n) = {}
  <2>1. Found(n) = heap_ptr /\ heap_ptr + n <= RamEnd
    BY <1>4 DEF Found
  <2>2. Rest(n) = free_blocks /\ Top(n) = heap_ptr + n
    BY <1>4 DEF Rest, Top
  <2>3. Layout(free_blocks, Keep(allocations, heap_ptr, n), heap_ptr + n)
    BY <2>1, TakeTop
  <2>4. heap_ptr \in Pointers /\ heap_ptr \notin Live
    BY <1>2, <1>3, <2>1, Units DEF Pointers
  <2> QED
    BY <2>1, <2>2, <2>3, <2>4
<1>5. CASE Large(n) # {}
  <2> DEFINE i == Min(Large(n))
  <2>1. i \in DOMAIN free_blocks /\ free_blocks[i].size >= n
    BY <1>1, <1>5, FirstLarge
  <2>2. Found(n) = free_blocks[i].addr /\ Top(n) = heap_ptr
    BY <1>5 DEF Found, Top
  <2>3. Rest(n) = IF free_blocks[i].size = n THEN Deleted(free_blocks, i)
                  ELSE [free_blocks EXCEPT ![i] = Block(free_blocks[i].addr + n, free_blocks[i].size - n)]
    BY <1>5 DEF Rest
  <2> HIDE DEF i
  <2>4. /\ free_blocks[i].addr \in Pointers /\ free_blocks[i].addr \in Nat
        /\ free_blocks[i].size \in Nat
        /\ EndOf(free_blocks[i]) = free_blocks[i].addr + free_blocks[i].size
        /\ EndOf(free_blocks[i]) <= heap_ptr
    BY <1>1, <2>1, BlockFacts DEF FreeBlock, Layout, Below
  <2>5. free_blocks[i].addr + n <= RamEnd
    BY <1>2, <2>1, <2>4, Units
  <2>6. free_blocks[i].addr \notin Live
    <3> SUFFICES ASSUME free_blocks[i].addr \in Live PROVE FALSE
      OBVIOUS
    <3> DEFINE q == free_blocks[i].addr
    <3>1. q + allocations[q] <= q \/ EndOf(free_blocks[i]) <= q
      BY <2>1 DEF Layout, Apart, Live
    <3> QED
      BY <1>3, <2>1, <2>4, <3>1
  <2>7. CASE free_blocks[i].size = n
    <3>1. Layout(Deleted(free_blocks, i), Keep(allocations, free_blocks[i].addr, free_blocks[i].size),
                 heap_ptr)
      BY <2>1, TakeWhole
    <3> QED
      BY <2>2, <2>3, <2>4, <2>5, <2>6, <2>7, <3>1
  <2>8. CASE free_blocks[i].size # n
    <3>1. n < free_blocks[i].size
      BY <2>1, <2>4, <2>8
    <3>2. Layout([free_blocks EXCEPT ![i] = Block(free_blocks[i].addr + n, free_blocks[i].size - n)],
                 Keep(allocations, free_blocks[i].addr, n), heap_ptr)
      BY <2>1, <3>1, TakePart
    <3> QED
      BY <2>2, <2>3, <2>4, <2>5, <2>6, <2>8, <3>2
  <2> QED
    BY <2>7, <2>8
<1> QED
  BY <1>4, <1>5

\* What is left of a free list without touching blocks has none either.
LEMMA RestSeparate ==
  ASSUME Layout(free_blocks, allocations, heap_ptr), NEW n \in Nat, n >= 1, Found(n) # Null,
         Separate(free_blocks, Len(free_blocks)), Clear(free_blocks, heap_ptr)
  PROVE  Separate(Rest(n), Len(Rest(n))) /\ Clear(Rest(n), Top(n))
<1>1. free_blocks \in Seq(FreeBlock) /\ heap_ptr \in Nat
  BY Units DEF Layout, LayoutTypes
<1>2. \A j \in DOMAIN free_blocks : /\ j \in Nat /\ j <= Len(free_blocks) /\ Len(free_blocks) \in Nat
                                    /\ free_blocks[j].addr \in Nat /\ EndOf(free_blocks[j]) \in Nat
  BY <1>1, BlockFacts, LenProperties
<1>3. \A i \in DOMAIN free_blocks : \A j \in DOMAIN free_blocks :
        i < j => EndOf(free_blocks[i]) < free_blocks[j].addr
  BY <1>2 DEF Separate
<1>4. CASE Large(n) = {}
  <2>1. Rest(n) = free_blocks /\ Top(n) = heap_ptr + n
    BY <1>4 DEF Rest, Top
  <2> QED
    BY <1>1, <1>2, <2>1 DEF Clear
<1>5. CASE Large(n) # {}
  <2> DEFINE i == Min(Large(n))
             b == free_blocks[i]
  <2>1. i \in DOMAIN free_blocks /\ b.size >= n
    BY <1>1, <1>5, FirstLarge
  <2>2. Top(n) = heap_ptr
    BY <1>5 DEF Top
  <2>3. Rest(n) = IF b.size = n THEN Deleted(free_blocks, i)
                  ELSE [free_blocks EXCEPT ![i] = Block(b.addr + n, b.size - n)]
    BY <1>5 DEF Rest
  <2> HIDE DEF i
  <2>4. b.size \in Nat /\ b.addr \in Nat /\ EndOf(b) = b.addr + b.size
    BY <1>1, <2>1, BlockFacts
  <2>5. CASE b.size = n
    <3>1. /\ \A j \in DOMAIN Rest(n) : From(j, i) \in DOMAIN free_blocks
                                       /\ Rest(n)[j] = free_blocks[From(j, i)]
          /\ \A j, k \in DOMAIN Rest(n) : j < k => From(j, i) < From(k, i)
      <4>1. /\ free_blocks \in Seq(FreeBlock) /\ i \in DOMAIN free_blocks
            /\ Rest(n) = Deleted(free_blocks, i)
        BY <1>1, <2>1, <2>3, <2>5
      <4> DEFINE t == Deleted(free_blocks, i)
      <4>2. /\ \A j \in DOMAIN t : From(j, i) \in DOMAIN free_blocks \ {i}
                                 /\ t[j] = free_blocks[From(j, i)]
            /\ \A j, k \in DOMAIN t : j < k => From(j, i) < From(k, i)
        BY ONLY <4>1, DeletedMap, SMTT(30)
      <4> QED
        BY <4>1, <4>2
    <3> QED
      BY <1>3, <2>2, <3>1 DEF Separate, Clear
  <2>6. CASE b.size # n
    <3> DEFINE c == Block(b.addr + n, b.size - n)
    <3>1. c.addr = b.addr + n /\ EndOf(c) = EndOf(b)
      <4>1. c.addr = b.addr + n /\ c.size = b.size - n
        BY DEF Block
      <4> QED
        BY <2>4, <4>1 DEF EndOf
    <3> HIDE DEF c
    <3>2. /\ DOMAIN Rest(n) = DOMAIN free_blocks
          /\ \A j \in DOMAIN free_blocks : Rest(n)[j] = IF j = i THEN c ELSE free_blocks[j]
      BY <1>1, <2>3, <2>6 DEF c
    <3>3. \A j \in DOMAIN free_blocks :
            /\ EndOf(Rest(n)[j]) = EndOf(free_blocks[j])
            /\ Rest(n)[j].addr \in Nat /\ free_blocks[j].addr <= Rest(n)[j].addr
      BY <1>2, <2>4, <3>1, <3>2, SMTT(30)
    <3> QED
      BY <1>2, <1>3, <2>2, <3>2, <3>3 DEF Separate, Clear
  <2> QED
    BY <2>5, <2>6
<1> QED
  BY <1>4, <1>5

\* A block enters a free list without touching blocks: only it, and the one
\* before it, from where the merging loop starts, can touch the next one.
LEMMA ReleaseSeparate ==
  ASSUME NEW s, NEW al, NEW hp, Layout(s, al, hp), NEW p \in DOMAIN al, NEW b \in FreeBlock,
         b.addr = p, Separate(s, Len(s))
  PROVE  /\ Separate(Inserted(s, Place(s, p), b), IF Place(s, p) = 1 THEN 1 ELSE Place(s, p) - 1)
         /\ Place(s, p) \in Nat /\ Place(s, p) >= 1
         /\ Place(s, p) <= Len(Inserted(s, Place(s, p), b))
<1> DEFINE i == Place(s, p)
           t == Inserted(s, i, b)
<1>1. s \in Seq(FreeBlock) /\ LayoutTypes(s, al, hp) /\ Sorted(s) /\ p \in Nat
  BY Units DEF Layout, LayoutTypes
<1>2. i \in 1..(Len(s) + 1) /\ i \in Nat /\ i >= 1 /\ \A j \in DOMAIN s : j < i <=> s[j].addr < p
  <2>1. i \in 1..(Len(s) + 1) /\ \A j \in DOMAIN s : j < i <=> s[j].addr < p
    BY <1>1, PlaceFacts
  <2> QED
    BY <2>1
<1> HIDE DEF i
<1>3. /\ t \in Seq(FreeBlock) /\ t[i] = b /\ Len(t) = Len(s) + 1
      /\ \A j \in DOMAIN t \ {i} : Before(j, i) \in DOMAIN s /\ t[j] = s[Before(j, i)]
  <2>1. i \in 1..(Len(s) + 1) /\ s \in Seq(FreeBlock)
    BY <1>1, <1>2
  <2>2. b \in FreeBlock
    OBVIOUS
  <2>3. /\ t \in Seq(FreeBlock) /\ t[i] = b
        /\ \A j \in DOMAIN t \ {i} : Before(j, i) \in DOMAIN s /\ t[j] = s[Before(j, i)]
    BY ONLY <2>1, <2>2, InsertedMap, SMTT(30)
  <2>4. Len(t) = Len(s) + 1
    BY ONLY <2>1, <2>2, InsertedElements, SMTT(30)
  <2> QED
    BY <2>3, <2>4
<1> HIDE DEF t
<1>4. \A j \in DOMAIN s : j \in Nat /\ j <= Len(s) /\ s[j].addr \in Nat /\ EndOf(s[j]) \in Nat
  BY <1>1, BlockFacts
<1>5. \A j \in DOMAIN t : j \in Nat /\ j >= 1
  BY <1>3, BlockFacts
<1>6. Separate(t, IF i = 1 THEN 1 ELSE i - 1)
  <2> SUFFICES ASSUME NEW j \in DOMAIN t, NEW k \in DOMAIN t, j < k, j < i - 1
               PROVE  EndOf(t[j]) < t[k].addr
    BY <1>2, <1>5 DEF Separate
  <2>1. Before(j, i) = j /\ j \in DOMAIN s /\ t[j] = s[j]
    BY <1>2, <1>3, <1>5 DEF Before
  <2>2. \A m \in DOMAIN s : j < m => EndOf(s[j]) < s[m].addr
    BY <1>4, <2>1 DEF Separate
  <2>3. CASE k = i
    <3>1. j + 1 \in DOMAIN s /\ j + 1 < i /\ j < j + 1
      BY <1>1, <1>2, <1>5, LenProperties
    <3>2. EndOf(s[j]) < s[j + 1].addr /\ s[j + 1].addr < p
      BY <1>2, <2>2, <3>1
    <3> QED
      BY <1>1, <1>3, <1>4, <2>1, <2>3, <3>1, <3>2
  <2>4. CASE k # i
    <3>1. j < Before(k, i)
      BY <1>2, <1>5, <2>4 DEF Before
    <3> QED
      BY <1>3, <2>1, <2>2, <2>4, <3>1
  <2> QED
    BY <2>3, <2>4
<1>7. i <= Len(t)
  BY <1>2, <1>3
<1> QED
  BY <1>2, <1>6, <1>7 DEF i, t

LEMMA InitInv == Init => HeapInv
<1> SUFFICES ASSUME Init PROVE HeapInv
  OBVIOUS
<1>1. /\ heap_ptr = HeapBase /\ allocations = << >> /\ free_blocks = << >>
      /\ ram = [a \in Pointers |-> 0] /\ step = "idle" /\ index = 1 /\ result = Null
  BY DEF Init
<1>2. DOMAIN allocations = {} /\ DOMAIN free_blocks = {} /\ free_blocks \in Seq(FreeBlock)
      /\ Len(free_blocks) = 0
  BY <1>1
<1>3. Layout(free_blocks, allocations, heap_ptr)
  <2>1. LayoutTypes(free_blocks, allocations, heap_ptr)
    BY <1>1, <1>2, Units DEF LayoutTypes
  <2>2. Covered(free_blocks, allocations, heap_ptr)
    BY <1>1, Units DEF Covered
  <2> QED
    BY <1>2, <2>1, <2>2 DEF Layout, Sorted, Below, Apart
<1>4. Contents
  BY <1>1, HeapAssumption DEF Contents
<1>5. Progress
  BY <1>1, <1>2 DEF Progress, Separate, Clear
<1> QED
  BY <1>3, <1>4, <1>5 DEF HeapInv

\* Between calls.
LEMMA IdleFacts ==
  ASSUME HeapInv, step = "idle"
  PROVE  /\ Layout(free_blocks, allocations, heap_ptr)
         /\ Separate(free_blocks, Len(free_blocks)) /\ Clear(free_blocks, heap_ptr)
         /\ index = 1
BY DEF HeapInv, Progress

\* malloc has no loop behind it.
LEMMA MallocLayout ==
  ASSUME HeapInv, step = "idle", NEW size \in Sizes, Malloc(size)
  PROVE  HeapInv'
<1> DEFINE n == Words(size)
<1>1. CASE Valid(size) /\ Found(n) # Null
  <2>1. /\ result' = Found(n) /\ allocations' = Keep(allocations, Found(n), n)
        /\ free_blocks' = Rest(n) /\ heap_ptr' = Top(n)
        /\ ram' = ram /\ step' = "idle" /\ index' = index
    BY <1>1 DEF Malloc, Bump, Top
  <2>2. n \in Nat /\ n >= 1
    BY <1>1, WordsPositive
  <2> HIDE DEF n
  <2>3. /\ Layout(free_blocks, allocations, heap_ptr)
        /\ Separate(free_blocks, Len(free_blocks)) /\ Clear(free_blocks, heap_ptr)
        /\ index = 1
    BY IdleFacts
  <2>4. Layout(Rest(n), Keep(allocations, Found(n), n), Top(n)) /\ Found(n) \in Pointers
    BY <1>1, <2>2, <2>3, Allocates
  <2>5. Separate(Rest(n), Len(Rest(n))) /\ Clear(Rest(n), Top(n))
    BY <1>1, <2>2, <2>3, RestSeparate
  <2>6. Contents'
    BY <2>1, <2>4 DEF HeapInv, Contents
  <2>7. Progress'
    BY <2>1, <2>3, <2>5 DEF Progress
  <2> QED
    BY <2>1, <2>4, <2>6, <2>7 DEF HeapInv
<1>2. CASE ~(Valid(size) /\ Found(n) # Null)
  <2>1. Fail
    BY <1>2 DEF Malloc
  <2> QED
    BY <2>1 DEF Fail, heap, HeapInv, Contents, Progress
<1> QED
  BY <1>1, <1>2

\* A live block of a layout without touching free blocks is released.
LEMMA Released ==
  ASSUME NEW s, NEW al, NEW hp, Layout(s, al, hp), Separate(s, Len(s)), NEW p \in DOMAIN al,
         Release(s, p, al[p]), allocations' = Forget(al, p), heap_ptr' = hp
  PROVE  Layout(free_blocks', allocations', heap_ptr') /\ Progress'
<1> DEFINE i == Place(s, p)
           b == Block(p, al[p])
<1>1. /\ free_blocks' = Inserted(s, i, b) /\ index' = IF i = 1 THEN 1 ELSE i - 1
      /\ step' = "merge"
  BY DEF Release
<1>2. Layout(free_blocks', allocations', heap_ptr')
  BY <1>1, Give
<1>3. b \in FreeBlock /\ b.addr = p
  BY DEF Layout, LayoutTypes, Block, FreeBlock
<1> HIDE DEF b
<1>4. /\ Separate(Inserted(s, i, b), IF i = 1 THEN 1 ELSE i - 1)
      /\ i \in Nat /\ i >= 1 /\ i <= Len(Inserted(s, i, b))
  BY <1>3, ReleaseSeparate
<1> HIDE DEF i
<1>5. Len(free_blocks') \in Nat
  BY <1>2, LenProperties DEF Layout, LayoutTypes
<1>6. Progress'
  BY <1>1, <1>4, <1>5 DEF Progress
<1> QED
  BY <1>2, <1>6

LEMMA FreeLayout ==
  ASSUME HeapInv, step = "idle", NEW p \in Pointers \cup {Null}, Free(p)
  PROVE  HeapInv'
<1>1. Layout(free_blocks, allocations, heap_ptr) /\ Separate(free_blocks, Len(free_blocks))
  BY IdleFacts
<1>2. CASE p \in Live
  <2>1. /\ result' = Null /\ allocations' = Forget(allocations, p)
        /\ Release(free_blocks, p, allocations[p]) /\ heap_ptr' = heap_ptr /\ ram' = ram
    BY <1>2 DEF Free
  <2>2. Layout(free_blocks', allocations', heap_ptr') /\ Progress'
    BY <1>1, <1>2, <2>1, Released DEF Live
  <2> QED
    BY <2>1, <2>2 DEF HeapInv, Contents
<1>3. CASE p \notin Live
  BY <1>3 DEF Free, heap, HeapInv, Contents, Progress
<1> QED
  BY <1>2, <1>3

LEMMA ShrinkLayout ==
  ASSUME HeapInv, step = "idle", NEW p \in Live, NEW n \in Nat, n >= 1, n <= allocations[p],
         Shrink(p, n)
  PROVE  HeapInv'
<1>1. Layout(free_blocks, allocations, heap_ptr) /\ Separate(free_blocks, Len(free_blocks))
  BY IdleFacts
<1>2. p \in Pointers /\ result' = p
  BY <1>1 DEF Layout, LayoutTypes, Live, Shrink
<1>3. CASE n < allocations[p]
  <2> DEFINE kl == Keep(allocations, p, n)
             m == allocations[p] - n
             al == Keep(kl, p + n, m)
  <2>1. Layout(free_blocks, al, heap_ptr) /\ p + n \notin DOMAIN allocations
    BY <1>1, <1>3, Split DEF Live
  <2>2. p + n \in DOMAIN al /\ al[p + n] = m
    BY DEF Keep
  <2>3. Forget(al, p + n) = kl
    <3>1. DOMAIN kl = DOMAIN allocations
      BY DEF Live, Keep
    <3>2. kl = [q \in DOMAIN kl |-> kl[q]]
      BY DEF Keep
    <3> HIDE DEF kl, m
    <3>3. DOMAIN al \ {p + n} = DOMAIN kl
      BY <2>1, <3>1 DEF Keep
    <3>4. \A q \in DOMAIN kl : al[q] = kl[q]
      BY <2>1, <3>1 DEF Keep
    <3> QED
      BY <3>2, <3>3, <3>4 DEF Forget, Restrict
  <2>4. /\ allocations' = kl /\ Release(free_blocks, p + n, m)
        /\ heap_ptr' = heap_ptr /\ ram' = ram
    BY <1>3 DEF Shrink
  <2> HIDE DEF al, kl, m
  <2>5. Layout(free_blocks', allocations', heap_ptr') /\ Progress'
    BY <1>1, <2>1, <2>2, <2>3, <2>4, Released
  <2> QED
    BY <1>2, <2>4, <2>5 DEF HeapInv, Contents
<1>4. CASE ~(n < allocations[p])
  BY <1>2, <1>4 DEF Shrink, heap, HeapInv, Contents, Progress
<1> QED
  BY <1>3, <1>4

LEMMA GrowLayout ==
  ASSUME HeapInv, step = "idle", NEW p \in Live, NEW n \in Nat, n >= 1, n > allocations[p],
         Grow(p, n)
  PROVE  HeapInv'
<1>1. /\ Layout(free_blocks, allocations, heap_ptr)
      /\ Separate(free_blocks, Len(free_blocks)) /\ Clear(free_blocks, heap_ptr)
  BY IdleFacts
<1>2. /\ Found(n) # Null /\ result' = Found(n) /\ ram' = Copied(p, Found(n))
      /\ allocations' = Keep(Forget(allocations, p), Found(n), n)
      /\ heap_ptr' = Top(n) /\ Release(Rest(n), p, allocations[p])
  BY DEF Grow, Bump, Top
<1> DEFINE q == Found(n)
           al == Keep(allocations, q, n)
<1>3. /\ Layout(Rest(n), al, Top(n)) /\ q \in Pointers /\ q + n <= RamEnd
      /\ q \notin DOMAIN allocations
  BY <1>1, <1>2, Allocates DEF Live
<1>4. Separate(Rest(n), Len(Rest(n)))
  BY <1>1, <1>2, RestSeparate
<1> HIDE DEF q
<1>5. p \in DOMAIN al /\ al[p] = allocations[p] /\ p # q
  BY <1>3 DEF Keep, Live
<1>6. Forget(al, p) = Keep(Forget(allocations, p), q, n)
  BY <1>5 DEF Forget, Restrict, Keep
<1> HIDE DEF al
<1>7. Layout(free_blocks', allocations', heap_ptr') /\ Progress'
  BY <1>2, <1>3, <1>4, <1>5, <1>6, Released DEF q
<1>8. Contents'
  <2>1. /\ p \in Nat /\ p >= HeapBase /\ allocations[p] \in Nat /\ p + allocations[p] <= heap_ptr
        /\ heap_ptr \in Nat /\ heap_ptr <= RamEnd
    BY <1>1, LiveFacts DEF Layout, Below, Live
  <2>2. q \in Nat /\ q >= HeapBase /\ HeapBase \in Nat /\ RamEnd \in Nat
    BY <1>3, Units DEF Pointers
  <2>3. \A a \in Pointers : a \in q..(q + allocations[p] - 1) => p + a - q \in Pointers
    BY <2>1, <2>2 DEF Pointers
  <2>4. Copied(p, q) \in [Pointers -> Data]
    BY <2>3 DEF Copied, HeapInv, Contents
  <2> QED
    BY <1>2, <1>3, <2>4 DEF Contents, q
<1> QED
  BY <1>7, <1>8 DEF HeapInv

LEMMA WriteLayout ==
  ASSUME HeapInv, NEW p \in Live, Write(p)
  PROVE  HeapInv'
<1>1. PICK i \in 0..(allocations[p] - 1) : \E d \in Data : ram' = [ram EXCEPT ![p + i] = d]
  BY DEF Write
<1>2. PICK d \in Data : ram' = [ram EXCEPT ![p + i] = d]
  BY <1>1
<1>3. UNCHANGED <<heap_ptr, allocations, free_blocks, step, index, request, result>>
  BY DEF Write
<1>4. ram' \in [Pointers -> Data]
  BY <1>2 DEF HeapInv, Contents
<1> QED
  BY <1>3, <1>4 DEF HeapInv, Contents, Progress

\* The merging loop.
LEMMA MergeLayout ==
  ASSUME HeapInv, MergeStep
  PROVE  HeapInv'
<1> DEFINE s == free_blocks
           i == index
<1>1. /\ step = "merge" /\ heap_ptr' = heap_ptr /\ allocations' = allocations
      /\ ram' = ram /\ result' = result
  BY DEF MergeStep
<1>2. /\ Layout(s, allocations, heap_ptr) /\ s \in Seq(FreeBlock) /\ Sorted(s)
      /\ i \in Nat /\ i >= 1 /\ i <= Len(s) /\ Separate(s, i)
  BY <1>1 DEF HeapInv, Progress, Layout, LayoutTypes
<1>3. Len(s) \in Nat /\ DOMAIN s = 1..Len(s)
  BY <1>2, LenProperties
<1>4. \A j \in DOMAIN s : /\ j \in Nat /\ s[j].addr \in Nat /\ EndOf(s[j]) \in Nat
                          /\ s[j].addr < EndOf(s[j])
  BY <1>2, BlockFacts
<1>5. Contents'
  BY <1>1 DEF HeapInv, Contents
<1> HIDE DEF s, i
<1>6. CASE i < Len(s) /\ EndOf(s[i]) = s[i + 1].addr
  <2>1. free_blocks' = Merged(s, i) /\ index' = i /\ step' = "merge"
    BY <1>1, <1>6 DEF MergeStep, Merged, s, i
  <2>2. i \in DOMAIN s /\ i + 1 \in DOMAIN s
    BY <1>2, <1>3, <1>6
  <2>3. Layout(Merged(s, i), allocations, heap_ptr)
    BY <1>2, <1>6, <2>2, Merge
  <2>4. EndOf(s[i + 1]) <= RamEnd
    <3>1. EndOf(s[i + 1]) <= heap_ptr /\ heap_ptr \in Nat /\ heap_ptr <= RamEnd
      BY <1>2, <2>2, Units DEF Layout, Below, LayoutTypes
    <3> QED
      BY <1>4, <2>2, <3>1, Units
  <2> DEFINE t == Merged(s, i)
  <2>5. /\ Len(t) = Len(s) - 1
        /\ t \in Seq(FreeBlock)
        /\ i \in DOMAIN t /\ t[i].addr = s[i].addr
        /\ \A j \in DOMAIN t \ {i} :
             From(j, i + 1) \in DOMAIN s \ {i, i + 1} /\ t[j] = s[From(j, i + 1)]
    <3>1. s \in Seq(FreeBlock) /\ i \in DOMAIN s /\ i + 1 \in DOMAIN s
          /\ EndOf(s[i]) = s[i + 1].addr /\ EndOf(s[i + 1]) <= RamEnd
      BY <1>2, <1>6, <2>2, <2>4
    <3> QED
      BY ONLY <3>1, MergedElements, SMTT(30)
  <2> HIDE DEF t
  <2>6. Separate(t, i)
    <3> SUFFICES ASSUME NEW j \in DOMAIN t, NEW k \in DOMAIN t, j < k, j < i
                 PROVE  EndOf(t[j]) < t[k].addr
      BY DEF Separate
    <3>1. j \in Nat /\ k \in Nat
      BY <2>5, BlockFacts
    <3>2. j \in DOMAIN s /\ t[j] = s[j]
      BY <1>2, <2>5, <3>1 DEF From
    <3>3. CASE k = i
      BY <1>2, <2>2, <2>5, <3>2, <3>3 DEF Separate
    <3>4. CASE k # i
      <4>1. j < From(k, i + 1) /\ From(k, i + 1) \in DOMAIN s /\ t[k] = s[From(k, i + 1)]
        BY <1>2, <2>5, <3>1, <3>4 DEF From
      <4> QED
        BY <1>2, <3>2, <4>1 DEF Separate
    <3> QED
      BY <3>3, <3>4
  <2>7. i <= Len(t)
    BY <1>2, <1>3, <1>6, <2>5
  <2>8. Progress'
    BY <1>2, <2>1, <2>6, <2>7 DEF Progress, t
  <2> QED
    BY <1>1, <1>5, <2>1, <2>3, <2>8 DEF HeapInv
<1>7. CASE i < Len(s) /\ EndOf(s[i]) # s[i + 1].addr
  <2>1. free_blocks' = s /\ index' = i + 1 /\ step' = "merge"
    BY <1>1, <1>7 DEF MergeStep, s, i
  <2>2. i \in DOMAIN s /\ i + 1 \in DOMAIN s
    BY <1>2, <1>3, <1>7
  <2>3. Separate(s, i + 1)
    <3> SUFFICES ASSUME NEW j \in DOMAIN s, NEW k \in DOMAIN s, j < k, j < i + 1
                 PROVE  EndOf(s[j]) < s[k].addr
      BY DEF Separate
    <3>1. CASE j < i
      BY <1>2, <3>1 DEF Separate
    <3>2. CASE j = i
      <4>1. EndOf(s[i]) <= s[i + 1].addr
        BY <1>2, <2>2 DEF Sorted
      <4>2. CASE k = i + 1
        BY <1>4, <1>7, <2>2, <3>2, <4>1, <4>2
      <4>3. CASE i + 1 < k
        <5>1. EndOf(s[i + 1]) <= s[k].addr
          BY <1>2, <2>2, <4>3 DEF Sorted
        <5> QED
          BY <1>4, <2>2, <3>2, <4>1, <5>1
      <4> QED
        BY <1>2, <1>4, <3>2, <4>2, <4>3
    <3> QED
      BY <1>2, <1>4, <3>1, <3>2
  <2>4. Progress'
    BY <1>2, <1>3, <1>7, <2>1, <2>3 DEF Progress
  <2> QED
    BY <1>1, <1>2, <1>5, <2>1, <2>4 DEF HeapInv
<1>8. CASE ~(i < Len(s))
  <2>1. free_blocks' = s /\ index' = i /\ step' = "trim"
    BY <1>1, <1>8 DEF MergeStep, s, i
  <2>2. Separate(s, Len(s)) /\ i <= Len(s)
    <3>1. i = Len(s)
      <4>1. i \in Nat /\ Len(s) \in Nat /\ i <= Len(s) /\ ~(i < Len(s))
        BY <1>2, <1>3, <1>8
      <4> QED
        BY ONLY <4>1
    <3> QED
      BY <1>2, <3>1
  <2>3. Progress'
    BY <1>2, <2>1, <2>2 DEF Progress
  <2> QED
    BY <1>1, <1>2, <1>5, <2>1, <2>3 DEF HeapInv
<1> QED
  BY <1>6, <1>7, <1>8

\* The trimming loop.
LEMMA TrimLayout ==
  ASSUME HeapInv, TrimStep
  PROVE  HeapInv'
<1> DEFINE s == free_blocks
           n == Len(s)
<1>1. step = "trim" /\ allocations' = allocations /\ ram' = ram /\ result' = result
  BY DEF TrimStep
<1>2. /\ Layout(s, allocations, heap_ptr) /\ s \in Seq(FreeBlock) /\ Separate(s, n)
      /\ index \in Nat /\ index >= 1
      /\ index <= n \/ (index <= n + 1 /\ Clear(s, heap_ptr))
  <2>1. Layout(s, allocations, heap_ptr) /\ s \in Seq(FreeBlock)
    BY DEF HeapInv, Layout, LayoutTypes
  <2>2. Progress
    BY DEF HeapInv
  <2>3. Separate(s, n)
    BY <1>1, <2>2 DEF Progress
  <2>4. /\ index \in Nat /\ index >= 1
        /\ index <= n \/ (index <= n + 1 /\ Clear(s, heap_ptr))
    BY <1>1, <2>2 DEF Progress
  <2> QED
    BY <2>1, <2>3, <2>4
<1>3. n \in Nat /\ DOMAIN s = 1..n /\ heap_ptr \in Nat
  BY <1>2, LenProperties, Units DEF Layout, LayoutTypes
<1>4. \A j \in DOMAIN s : /\ j \in Nat /\ s[j].addr \in Nat /\ EndOf(s[j]) \in Nat
                          /\ s[j].addr < EndOf(s[j]) /\ EndOf(s[j]) <= heap_ptr
  BY <1>2, BlockFacts, SMTT(30) DEF Layout, Below
<1>5. Contents'
  BY <1>1 DEF HeapInv, Contents
<1> HIDE DEF s, n
<1>6. CASE n > 0 /\ EndOf(s[n]) = heap_ptr
  <2> DEFINE t == SubSeq(s, 1, n - 1)
  <2>1. /\ heap_ptr' = s[n].addr /\ free_blocks' = t /\ step' = "trim" /\ index' = index
    BY <1>1, <1>6 DEF TrimStep, s, n
  <2>2. Layout(t, allocations, s[n].addr)
    BY <1>2, <1>6, Trim DEF n
  <2>3. /\ Len(t) = n - 1 /\ DOMAIN t = 1..(n - 1)
        /\ \A j \in DOMAIN t : j \in DOMAIN s /\ j < n /\ t[j] = s[j]
    BY <1>2, <1>3, <1>6 DEF n
  <2> HIDE DEF t
  <2>4. Separate(t, Len(t))
    BY <1>2, <1>3, <2>3 DEF Separate
  <2>5. n \in DOMAIN s
    BY <1>3, <1>6
  <2>6. Clear(t, s[n].addr)
    BY <1>2, <2>3, <2>5 DEF Separate, Clear
  <2>7. index <= n
    <3>1. ~Clear(s, heap_ptr)
      BY <1>3, <1>6, <2>5 DEF Clear
    <3> QED
      BY <1>2, <3>1
  <2>8. index <= Len(t) + 1
    BY <1>2, <1>3, <2>3, <2>7
  <2>9. Progress'
    BY <1>2, <2>1, <2>4, <2>6, <2>8 DEF Progress
  <2> QED
    BY <1>1, <1>5, <2>1, <2>2, <2>9 DEF HeapInv
<1>7. CASE ~(n > 0 /\ EndOf(s[n]) = heap_ptr)
  <2>1. /\ heap_ptr' = heap_ptr /\ free_blocks' = s /\ step' = "idle" /\ index' = 1
    BY <1>1, <1>7 DEF TrimStep, s, n
  <2>2. Clear(s, heap_ptr)
    <3> SUFFICES ASSUME NEW j \in DOMAIN s PROVE EndOf(s[j]) < heap_ptr
      BY DEF Clear
    <3>1. n \in DOMAIN s /\ n > 0 /\ j <= n
      BY <1>3
    <3>2. EndOf(s[n]) < heap_ptr
      BY <1>3, <1>4, <1>7, <3>1
    <3>3. CASE j = n
      BY <3>2, <3>3
    <3>4. CASE j < n
      <4>1. EndOf(s[j]) < s[n].addr
        BY <1>2, <3>1, <3>4 DEF Separate
      <4> QED
        BY <1>3, <1>4, <3>1, <3>2, <4>1
    <3> QED
      BY <1>3, <1>4, <3>1, <3>3, <3>4
  <2>3. Progress'
    BY <1>2, <2>1, <2>2 DEF Progress, n
  <2> QED
    BY <1>1, <1>2, <1>5, <2>1, <2>3 DEF HeapInv
<1> QED
  BY <1>6, <1>7

LEMMA ReallocLayout ==
  ASSUME HeapInv, step = "idle", NEW p \in Pointers \cup {Null}, NEW size \in Sizes, Realloc(p, size)
  PROVE  HeapInv'
<1>1. CASE Malloc(size)
  BY <1>1, MallocLayout
<1>2. CASE Free(p)
  BY <1>2, FreeLayout
<1>3. CASE Fail
  BY <1>3 DEF Fail, heap, HeapInv, Contents, Progress
<1> DEFINE n == Words(size)
<1>4. ASSUME p \in Live, Valid(size)
      PROVE  n \in Nat /\ n >= 1 /\ allocations[p] \in Nat
  <2>1. LayoutTypes(free_blocks, allocations, heap_ptr)
    BY DEF HeapInv, Layout
  <2> QED
    BY <1>4, <2>1, WordsPositive, LiveFacts DEF Live
<1> HIDE DEF n
<1>5. CASE p \in Live /\ Valid(size) /\ n <= allocations[p] /\ Shrink(p, n)
  BY <1>4, <1>5, ShrinkLayout
<1>6. CASE p \in Live /\ Valid(size) /\ n > allocations[p] /\ Grow(p, n)
  BY <1>4, <1>6, GrowLayout
<1> QED
  BY <1>1, <1>2, <1>3, <1>5, <1>6 DEF Realloc, n

LEMMA NextInv == HeapInv /\ [Next]_vars => HeapInv'
<1> SUFFICES ASSUME HeapInv, [Next]_vars PROVE HeapInv'
  OBVIOUS
<1>1. ASSUME step = "idle", NEW size \in Sizes, Malloc(size) PROVE HeapInv'
  BY <1>1, MallocLayout
<1>2. ASSUME step = "idle", NEW p \in Pointers \cup {Null}, Free(p) PROVE HeapInv'
  BY <1>2, FreeLayout
<1>3. ASSUME step = "idle", NEW p \in Pointers \cup {Null}, NEW size \in Sizes, Realloc(p, size)
      PROVE  HeapInv'
  BY <1>3, ReallocLayout
<1>4. ASSUME NEW p \in Live, Write(p) PROVE HeapInv'
  BY <1>4, WriteLayout
<1>5. CASE MergeStep
  BY <1>5, MergeLayout
<1>6. CASE TrimStep
  BY <1>6, TrimLayout
<1>7. CASE Return \/ UNCHANGED vars
  BY <1>7 DEF Return, vars, heap, HeapInv, Contents, Progress
<1> QED
  BY <1>1, <1>2, <1>3, <1>4, <1>5, <1>6, <1>7 DEF Next, Call, GuestWrites

LEMMA Invariance == Spec => []HeapInv
BY InitInv, NextInv, PTL DEF Spec

-----------------------------------------------------------------------------
(* The invariants of the runs.                                             *)

\* What the guest asked for is one of the calls it can make.
Asked == request \in Requests

LEMMA RequestTyped == Spec => []Asked
<1>1. \A op \in {"none", "malloc", "free", "realloc"}, p \in Pointers \cup {Null}, size \in Sizes \cup {0} :
        Request(op, p, size) \in Requests
  BY DEF Request, Requests
<1>2. NoRequest \in Requests
  BY <1>1 DEF NoRequest
<1>3. Init => Asked
  BY <1>2 DEF Init, Asked
<1>4. Asked /\ [Next]_vars => Asked'
  <2> SUFFICES ASSUME request \in Requests, [Next]_vars PROVE request' \in Requests
    BY DEF Asked
  <2>1. CASE Call
    BY <1>1, <2>1 DEF Call
  <2>2. CASE Return
    BY <1>2, <2>2 DEF Return
  <2>3. CASE MergeStep \/ TrimStep \/ GuestWrites \/ UNCHANGED vars
    BY <2>3 DEF MergeStep, TrimStep, GuestWrites, Write, vars
  <2> QED
    BY <2>1, <2>2, <2>3 DEF Next
<1> QED
  BY <1>3, <1>4, PTL DEF Spec

LEMMA TypesFollow == HeapInv /\ Asked => TypeOK
<1> SUFFICES ASSUME HeapInv, request \in Requests PROVE TypeOK
  BY DEF Asked
<1>1. LayoutTypes(free_blocks, allocations, heap_ptr) /\ Len(free_blocks) \in Nat
  BY LenProperties DEF HeapInv, Layout, LayoutTypes
<1>2. index \in 1..(Len(free_blocks) + 1)
  <2>1. index \in Nat /\ index >= 1 /\ index <= Len(free_blocks) + 1
    BY <1>1 DEF HeapInv, Progress
  <2> QED
    BY <1>1, <2>1
<1> QED
  BY <1>1, <1>2 DEF HeapInv, Progress, Contents, TypeOK, LayoutTypes, FreeBlock, Live

\* The types of the heap: every free block lies in RAM and holds at least one
\* word, and no loop of free runs past the free list.
THEOREM TypeCorrect == Spec => []TypeOK
BY Invariance, RequestTyped, TypesFollow, PTL

LEMMA TilingFollows == HeapInv => Tiled
<1> SUFFICES ASSUME HeapInv PROVE Tiled
  OBVIOUS
<1> DEFINE al == allocations
           s == free_blocks
<1>1. /\ LayoutTypes(s, al, heap_ptr) /\ s \in Seq(FreeBlock) /\ Below(s, al, heap_ptr)
      /\ Apart(s, al) /\ Covered(s, al, heap_ptr)
  BY DEF HeapInv, Layout, LayoutTypes
<1>2. \A p \in Live : p \in Nat /\ al[p] \in Nat
  BY <1>1, LiveFacts DEF Live
<1>3. \A i \in DOMAIN s : s[i].addr \in Nat /\ EndOf(s[i]) \in Nat
  BY <1>1, BlockFacts
<1>4. ASSUME NEW a \in HeapBase..(heap_ptr - 1)
      PROVE  (\E p \in Live : a \in LiveWords(p)) \/ \E i \in DOMAIN s : a \in FreeWords(i)
  <2>1. a \in Nat
    BY Units
  <2>2. CASE InLive(al, a)
    BY <1>2, <2>1, <2>2 DEF InLive, Live, LiveWords
  <2>3. CASE InFree(s, a)
    BY <1>3, <2>1, <2>3 DEF InFree, FreeWords
  <2> QED
    BY <1>1, <2>2, <2>3 DEF Covered
<1>5. ASSUME NEW p \in Live
      PROVE  /\ p + al[p] <= heap_ptr
             /\ \A q \in Live \ {p} : LiveWords(p) \cap LiveWords(q) = {}
             /\ \A i \in DOMAIN s : LiveWords(p) \cap FreeWords(i) = {}
  <2>1. p + al[p] <= heap_ptr
    BY <1>1 DEF Below, Live
  <2>2. ASSUME NEW q \in Live \ {p} PROVE LiveWords(p) \cap LiveWords(q) = {}
    <3>1. p + al[p] <= q \/ q + al[q] <= p
      BY <1>1 DEF Apart, Live
    <3> QED
      BY <1>2, <3>1 DEF LiveWords
  <2>3. ASSUME NEW i \in DOMAIN s PROVE LiveWords(p) \cap FreeWords(i) = {}
    <3>1. p + al[p] <= s[i].addr \/ EndOf(s[i]) <= p
      BY <1>1 DEF Apart, Live
    <3> QED
      BY <1>2, <1>3, <3>1 DEF LiveWords, FreeWords
  <2> QED
    BY <2>1, <2>2, <2>3
<1>6. \A i \in DOMAIN s : EndOf(s[i]) <= heap_ptr
  BY <1>1 DEF Below
<1> QED
  BY <1>4, <1>5, <1>6 DEF Tiled

\* The live and the free blocks tile the heap below the bump pointer: nothing is
\* lost and nothing is given out twice.
THEOREM TiledHolds == Spec => []Tiled
BY Invariance, TilingFollows, PTL

LEMMA CoalescingFollows == HeapInv => Coalesced
<1> SUFFICES ASSUME HeapInv, step = "idle",
                    NEW i \in DOMAIN free_blocks
             PROVE  /\ \A j \in DOMAIN free_blocks :
                         i < j => EndOf(free_blocks[i]) < free_blocks[j].addr
                    /\ EndOf(free_blocks[i]) < heap_ptr
  BY DEF Coalesced
<1>1. Separate(free_blocks, Len(free_blocks)) /\ Clear(free_blocks, heap_ptr)
  BY IdleFacts
<1>2. free_blocks \in Seq(FreeBlock)
  BY DEF HeapInv, Layout, LayoutTypes
<1>3. \A j \in DOMAIN free_blocks : j \in Nat /\ j <= Len(free_blocks)
  BY <1>2, BlockFacts
<1>4. Len(free_blocks) \in Nat
  BY <1>2, LenProperties
<1> QED
  BY <1>1, <1>3, <1>4 DEF Separate, Clear

\* Between calls no two free blocks touch and none touches the bump pointer: the
\* merging loop, which starts only one block before the freed one, has reached
\* every pair that can touch, and so has the trimming loop.
THEOREM CoalescedHolds == Spec => []Coalesced
BY Invariance, CoalescingFollows, PTL

-----------------------------------------------------------------------------
(* The promise.                                                            *)

\* The words of a live block are in RAM.
LEMMA LiveInRam ==
  ASSUME HeapInv, NEW p \in Live
  PROVE  /\ p \in Nat /\ p \in Pointers /\ allocations[p] \in Nat /\ allocations[p] >= 1
         /\ p + allocations[p] <= heap_ptr
         /\ heap_ptr \in Nat /\ heap_ptr >= HeapBase /\ heap_ptr <= RamEnd
         /\ \A i \in 1..allocations[p] : p + i - 1 \in Pointers
<1>1. LayoutTypes(free_blocks, allocations, heap_ptr) /\ Below(free_blocks, allocations, heap_ptr)
  BY DEF HeapInv, Layout
<1>2. /\ p \in Nat /\ p \in Pointers /\ p >= HeapBase /\ allocations[p] \in Nat /\ allocations[p] >= 1
      /\ heap_ptr \in Nat /\ heap_ptr >= HeapBase /\ heap_ptr <= RamEnd
  BY <1>1, LiveFacts DEF Live
<1>3. p + allocations[p] <= heap_ptr
  BY <1>1 DEF Below, Live
<1>4. \A i \in 1..allocations[p] : p + i - 1 \in Pointers
  BY <1>2, <1>3, Units DEF Pointers
<1> QED
  BY <1>2, <1>3, <1>4

\* What the promise sees of a live block.
LEMMA BlocksFacts ==
  ASSUME HeapInv
  PROVE  /\ Promise!Live = Live /\ DOMAIN Blocks = Live
         /\ \A p \in Live :
              /\ Blocks[p] = [i \in 1..allocations[p] |-> ram[p + i - 1]]
              /\ Blocks[p] \in Seq(Data) /\ Len(Blocks[p]) = allocations[p]
<1>1. Promise!Live = Live /\ DOMAIN Blocks = Live
  BY DEF Promise!Live, Blocks
<1>2. ASSUME NEW p \in Live
      PROVE  /\ Blocks[p] = [i \in 1..allocations[p] |-> ram[p + i - 1]]
             /\ Blocks[p] \in Seq(Data) /\ Len(Blocks[p]) = allocations[p]
  <2>1. Blocks[p] = [i \in 1..allocations[p] |-> ram[p + i - 1]]
    BY DEF Blocks
  <2>2. \A i \in 1..allocations[p] : ram[p + i - 1] \in Data
    BY LiveInRam DEF HeapInv, Contents
  <2>3. allocations[p] \in Nat
    BY LiveInRam
  <2> QED
    BY <2>1, <2>2, <2>3
<1> QED
  BY <1>1, <1>2

LEMMA FitsFacts ==
  ASSUME HeapInv, NEW n
  PROVE  Promise!Fits(n) =
           {p \in Pointers : /\ p + n <= RamEnd
                             /\ \A q \in Live : p + n <= q \/ q + allocations[q] <= p}
<1>1. /\ Promise!Live = Live /\ Promise!Pointers = Pointers
      /\ \A q \in Live : Len(Blocks[q]) = allocations[q]
  BY BlocksFacts DEF Promise!Pointers, Pointers
<1>2. Promise!Fits(n) =
        {p \in Promise!Pointers :
           /\ p + n <= RamEnd
           /\ \A q \in Promise!Live : p + n <= q \/ q + Len(Blocks[q]) <= p}
  BY DEF Promise!Fits
<1> QED
  BY <1>1, <1>2

\* The place that malloc finds is the lowest where the request fits, and it finds
\* one when there is one: free memory that does not belong to one free block is
\* interrupted by a live one.
LEMMA FoundIsLowest ==
  ASSUME HeapInv, step = "idle", NEW n \in Nat, n >= 1
  PROVE  /\ Found(n) # Null => Found(n) \in Promise!Fits(n)
         /\ \A p \in Promise!Fits(n) : Found(n) # Null /\ Found(n) <= p
<1> DEFINE s == free_blocks
<1>1. /\ Layout(s, allocations, heap_ptr) /\ Separate(s, Len(s)) /\ Clear(s, heap_ptr)
      /\ s \in Seq(FreeBlock)
  BY IdleFacts DEF Layout, LayoutTypes
<1>2. \A i \in DOMAIN s : /\ i \in Nat /\ i <= Len(s) /\ s[i].addr \in Nat /\ s[i].addr \in Pointers
                          /\ s[i].size \in Nat
                          /\ EndOf(s[i]) \in Nat /\ EndOf(s[i]) = s[i].addr + s[i].size
                          /\ s[i].addr < EndOf(s[i]) /\ EndOf(s[i]) < heap_ptr
  <2> HIDE DEF s
  <2> TAKE i \in DOMAIN s
  <2>1. /\ i \in Nat /\ i <= Len(s) /\ s[i] \in FreeBlock
        /\ s[i].addr \in Nat /\ s[i].size \in Nat /\ s[i].size >= 1
        /\ EndOf(s[i]) \in Nat /\ EndOf(s[i]) = s[i].addr + s[i].size
    BY <1>1, BlockFacts
  <2>2. s[i].addr \in Pointers
    BY <2>1 DEF FreeBlock
  <2>3. EndOf(s[i]) < heap_ptr
    BY <1>1 DEF Clear
  <2> QED
    BY <2>1, <2>2, <2>3
<1>3. /\ heap_ptr \in Nat /\ heap_ptr >= HeapBase /\ heap_ptr <= RamEnd
      /\ HeapBase \in Nat /\ RamEnd \in Nat /\ HeapBase > 0
  BY <1>1, Units DEF Layout, LayoutTypes
<1>4. \A q \in Live : /\ q \in Nat /\ allocations[q] \in Nat /\ allocations[q] >= 1
                      /\ q + allocations[q] <= heap_ptr
  BY LiveInRam
<1>5. \A q \in Live : \A i \in DOMAIN s : q + allocations[q] <= s[i].addr \/ EndOf(s[i]) <= q
  BY <1>1 DEF Layout, Apart, Live
<1>6. \A i \in DOMAIN s : \A j \in DOMAIN s : i < j => EndOf(s[i]) < s[j].addr
  <2>1. Len(s) \in Nat
    BY <1>1, LenProperties
  <2> QED
    BY <1>1, <1>2, <2>1 DEF Separate
<1>7. \A p \in Pointers : p \in Nat /\ p >= HeapBase
  BY <1>3 DEF Pointers
<1> DEFINE F == {p \in Pointers : /\ p + n <= RamEnd
                                  /\ \A q \in Live : p + n <= q \/ q + allocations[q] <= p}
<1>8. Promise!Fits(n) = F
  BY FitsFacts
<1>9. Found(n) # Null => Found(n) \in F
  <2> SUFFICES ASSUME Found(n) # Null PROVE Found(n) \in F
    OBVIOUS
  <2>1. Found(n) \in Pointers /\ Found(n) + n <= RamEnd
    BY <1>1, Allocates
  <2>2. ASSUME NEW q \in Live PROVE Found(n) + n <= q \/ q + allocations[q] <= Found(n)
    <3>1. CASE Large(n) = {}
      BY <1>3, <1>4, <3>1 DEF Found
    <3>2. CASE Large(n) # {}
      <4> DEFINE i == Min(Large(n))
      <4>1. Found(n) = s[i].addr
        BY <3>2 DEF Found
      <4>2. i \in DOMAIN s /\ s[i].size >= n
        BY <1>1, <3>2, FirstLarge
      <4> HIDE DEF i, s
      <4> QED
        BY <1>2, <1>4, <1>5, <4>1, <4>2
    <3> QED
      BY <3>1, <3>2
  <2> QED
    BY <2>1, <2>2
<1>10. ASSUME NEW p \in F PROVE Found(n) # Null /\ Found(n) <= p
  <2>1. /\ p \in Pointers /\ p \in Nat /\ p >= HeapBase /\ p + n <= RamEnd
        /\ \A q \in Live : p + n <= q \/ q + allocations[q] <= p
    BY <1>7
  <2> HIDE DEF F
  <2>2. ASSUME Large(n) # {}
        PROVE  /\ Min(Large(n)) \in DOMAIN s /\ Found(n) = s[Min(Large(n))].addr
               /\ Found(n) \in Nat /\ Found(n) < heap_ptr /\ Found(n) # Null
    <3>1. Min(Large(n)) \in DOMAIN s
      BY <1>1, <2>2, FirstLarge
    <3>2. Found(n) = s[Min(Large(n))].addr
      BY <2>2 DEF Found
    <3>3. Found(n) \in Nat /\ Found(n) < heap_ptr /\ Found(n) \in Pointers
      <4> HIDE DEF s
      <4> QED
        BY <1>2, <1>3, <3>1, <3>2
    <3> QED
      BY <3>1, <3>2, <3>3, Units
  <2>3. CASE p >= heap_ptr
    <3>1. CASE Large(n) = {}
      <4>1. Found(n) = heap_ptr
        BY <1>3, <2>1, <2>3, <3>1 DEF Found
      <4> QED
        BY <1>3, <2>3, <4>1, Units DEF Null
    <3>2. CASE Large(n) # {}
      BY <1>3, <2>1, <2>2, <2>3, <3>2
    <3> QED
      BY <3>1, <3>2
  <2>4. CASE p < heap_ptr
    <3>1. \A a \in HeapBase..(heap_ptr - 1) :
            \/ \E q \in Live : q <= a /\ a < q + allocations[q]
            \/ \E i \in DOMAIN s : s[i].addr <= a /\ a < EndOf(s[i])
      BY <1>1 DEF Layout, Covered, InLive, InFree, Live
    <3> HIDE DEF s
    <3>2. ~\E q \in Live : q <= p /\ p < q + allocations[q]
      BY <1>4, <2>1
    <3>3. p \in HeapBase..(heap_ptr - 1)
      BY <1>3, <2>1, <2>4
    <3>4. PICK i \in DOMAIN s : s[i].addr <= p /\ p < EndOf(s[i])
      BY <3>1, <3>2, <3>3
    <3> DEFINE e == EndOf(s[i])
    <3>5. e \in Nat /\ p < e /\ e < heap_ptr /\ e \in HeapBase..(heap_ptr - 1)
      BY <1>2, <1>3, <2>1, <3>4
    <3>6. p + n <= e
      <4> SUFFICES ASSUME e < p + n PROVE FALSE
        BY <2>1, <3>5
      <4>1. ~\E q \in Live : q <= e /\ e < q + allocations[q]
        BY <1>4, <2>1, <3>5
      <4>2. PICK j \in DOMAIN s : s[j].addr <= e /\ e < EndOf(s[j])
        BY <3>1, <3>5, <4>1
      <4>3. i < j \/ j < i
        BY <1>2, <3>5, <4>2
      <4> QED
        BY <1>2, <1>6, <2>1, <3>4, <3>5, <4>2, <4>3
    <3>7. s[i].size >= n
      BY <1>2, <2>1, <3>4, <3>6
    <3>8. i \in Large(n)
      BY <3>7 DEF Large, s
    <3>9. Min(Large(n)) <= i
      BY <1>1, <3>8, FirstLarge DEF s
    <3>10. s[Min(Large(n))].addr <= s[i].addr
      <4>1. Min(Large(n)) \in DOMAIN s
        BY <2>2, <3>8
      <4>2. Min(Large(n)) = i \/ Min(Large(n)) < i
        BY <1>2, <3>9, <4>1
      <4> HIDE DEF Large
      <4> DEFINE m == Min(Large(n))
      <4>3. m \in DOMAIN s /\ (m = i \/ m < i)
        BY <4>1, <4>2
      <4> HIDE DEF m
      <4>4. s[m].addr <= s[i].addr
        BY <1>2, <1>6, <4>3
      <4> QED
        BY <4>4 DEF m
    <3>11. Large(n) # {}
      BY <3>8
    <3>12. /\ Found(n) = s[Min(Large(n))].addr /\ Found(n) \in Nat /\ Found(n) # Null
      BY <2>2, <3>11
    <3> QED
      BY <1>2, <2>1, <3>4, <3>10, <3>12
  <2> QED
    BY <1>3, <2>1, <2>3, <2>4
<1> QED
  BY <1>8, <1>9, <1>10

\* malloc and the promise agree on whether and where a request is placed.
LEMMA FoundKept ==
  ASSUME HeapInv, step = "idle", NEW n \in Nat, n >= 1
  PROVE  /\ Found(n) = Null <=> Promise!Fits(n) = {}
         /\ Found(n) # Null => Found(n) = Promise!Min(Promise!Fits(n))
<1> DEFINE F == Promise!Fits(n)
<1>1. /\ Found(n) # Null => Found(n) \in F
      /\ \A p \in F : Found(n) # Null /\ Found(n) <= p
  BY FoundIsLowest
<1>2. \A p \in F : p \in Nat
  BY FitsFacts, Units
<1> HIDE DEF F
<1>3. ASSUME Found(n) # Null PROVE Found(n) = Promise!Min(F)
  <2>1. Found(n) \in F /\ \A p \in F : Found(n) <= p
    BY <1>1, <1>3
  <2>2. \A x \in F : (\A p \in F : x <= p) => x = Found(n)
    BY <1>2, <2>1
  <2> QED
    BY <2>1, <2>2 DEF Promise!Min
<1> QED
  BY <1>1, <1>3 DEF F

\* The promise's requests and places are those of the code.
LEMMA SameUnits ==
  /\ Promise!Null = Null /\ Promise!Pointers = Pointers
  /\ \A size : Promise!Valid(size) <=> Valid(size)
  /\ \A size : Promise!Words(size) = Words(size)
  /\ \A op, p, size : Promise!Request(op, p, size) = Request(op, p, size)
  /\ Promise!NoRequest = NoRequest
BY DEF Promise!Null, Null, Promise!Pointers, Pointers, Promise!Valid, Valid, Promise!Words, Words,
       Promise!Request, Request, Promise!NoRequest, NoRequest

LEMMA InitKept == Init => Promise!Init
<1> SUFFICES ASSUME Init PROVE Promise!Init
  OBVIOUS
<1>1. allocations = << >> /\ request = NoRequest /\ result = Null
  BY DEF Init
<1>2. Live = {}
  BY <1>1 DEF Live
<1>3. Blocks = << >>
  BY <1>2 DEF Blocks
<1> QED
  BY <1>1, <1>3, SameUnits DEF Promise!Init

LEMMA FailKept ==
  ASSUME Fail
  PROVE  Promise!Fail
<1>1. result' = Null /\ allocations' = allocations /\ ram' = ram
  BY DEF Fail, heap
<1>2. Blocks' = Blocks
  BY <1>1 DEF Blocks, Live
<1> QED
  BY <1>1, <1>2, SameUnits DEF Promise!Fail

\* A call that leaves RAM alone leaves the data of every block alone that it
\* leaves allocated as it is.
LEMMA SameWords ==
  ASSUME NEW q \in Live, q \in Live', allocations'[q] = allocations[q],
         \A i \in 1..allocations[q] : ram'[q + i - 1] = ram[q + i - 1]
  PROVE  Blocks'[q] = Blocks[q]
<1>1. Blocks'[q] = [i \in 1..allocations'[q] |-> ram'[q + i - 1]]
  BY DEF Blocks
<1>2. Blocks[q] = [i \in 1..allocations[q] |-> ram[q + i - 1]]
  BY DEF Blocks
<1> QED
  BY <1>1, <1>2

LEMMA MallocKept ==
  ASSUME HeapInv, step = "idle", NEW size \in Sizes, Malloc(size)
  PROVE  Promise!Malloc(size)
<1> DEFINE n == Words(size)
<1>1. Valid(size) => n \in Nat /\ n >= 1
  BY WordsPositive
<1>2. /\ Promise!Words(size) = n
      /\ Promise!Valid(size) <=> Valid(size)
  BY SameUnits
<1> HIDE DEF n
<1>3. CASE Valid(size) /\ Found(n) # Null
  <2> DEFINE r == Found(n)
             data == [i \in 1..n |-> ram[r + i - 1]]
  <2>1. /\ result' = r /\ allocations' = Keep(allocations, r, n) /\ ram' = ram
    BY <1>3 DEF Malloc, n
  <2>2. Layout(free_blocks, allocations, heap_ptr)
    BY DEF HeapInv
  <2>3. r \in Pointers /\ r + n <= RamEnd /\ r \notin Live
    BY <1>1, <1>3, <2>2, Allocates
  <2>4. r = Promise!Min(Promise!Fits(n)) /\ Promise!Fits(n) # {}
    BY <1>1, <1>3, FoundKept
  <2> HIDE DEF r
  <2>5. data \in [1..n -> Data]
    <3>1. \A i \in 1..n : r + i - 1 \in Pointers
      BY <1>1, <1>3, <2>3, Units DEF Pointers
    <3> QED
      BY <3>1 DEF HeapInv, Contents
  <2>6. /\ Live' = Live \cup {r} /\ allocations'[r] = n
        /\ \A q \in Live : q # r /\ allocations'[q] = allocations[q]
    BY <2>1, <2>3 DEF Live, Keep
  <2>7. Blocks'[r] = data
    BY <2>1, <2>6 DEF Blocks
  <2> HIDE DEF data
  <2>8. \A q \in Live : Blocks'[q] = Blocks[q]
    BY <2>1, <2>6, SameWords
  <2>9. Blocks' = Promise!With(Blocks, r, data)
    <3>1. DOMAIN Blocks = Live /\ Blocks' = [q \in Live \cup {r} |-> Blocks'[q]]
      BY <2>6 DEF Blocks
    <3>2. Promise!With(Blocks, r, data) = [q \in Live \cup {r} |-> IF q = r THEN data ELSE Blocks[q]]
      BY <3>1 DEF Promise!With
    <3> QED
      BY <2>7, <2>8, <3>1, <3>2
  <2>10. Promise!Allocate(n)
    BY <2>1, <2>4, <2>5, <2>9 DEF Promise!Allocate
  <2> QED
    BY <1>2, <1>3, <2>4, <2>10 DEF Promise!Malloc
<1>4. CASE ~(Valid(size) /\ Found(n) # Null)
  <2>1. Promise!Fail
    BY <1>4, FailKept DEF Malloc, n
  <2>2. Valid(size) => Promise!Fits(n) = {}
    BY <1>1, <1>4, FoundKept
  <2> QED
    BY <1>2, <2>1, <2>2 DEF Promise!Malloc
<1> QED
  BY <1>3, <1>4

LEMMA FreeKept ==
  ASSUME HeapInv, step = "idle", NEW p \in Pointers \cup {Null}, Free(p)
  PROVE  Promise!Free(p)
<1>1. result' = Null /\ ram' = ram
  BY DEF Free, heap
<1>2. Live' = Live \ {p} /\ \A q \in Live \ {p} : allocations'[q] = allocations[q]
  <2>1. CASE p \in Live
    <3>1. allocations' = Forget(allocations, p)
      BY <2>1 DEF Free
    <3> QED
      BY <3>1 DEF Forget, Restrict, Live
  <2>2. CASE p \notin Live
    <3>1. allocations' = allocations
      BY <2>2 DEF Free, heap
    <3> QED
      BY <2>2, <3>1 DEF Live
  <2> QED
    BY <2>1, <2>2
<1>3. \A q \in Live' : Blocks'[q] = Blocks[q]
  BY <1>1, <1>2, SameWords
<1>4. Blocks' = [q \in Live' |-> Blocks'[q]] /\ DOMAIN Blocks = Live /\ Promise!Live = Live
  BY DEF Blocks, Promise!Live
<1>5. Promise!Without(p) = [q \in Live \ {p} |-> Blocks[q]]
  BY <1>4 DEF Promise!Without, Promise!Restrict
<1>6. Blocks' = Promise!Without(p)
  BY <1>2, <1>3, <1>4, <1>5
<1> QED
  BY <1>1, <1>6, SameUnits DEF Promise!Free

LEMMA ShrinkKept ==
  ASSUME HeapInv, step = "idle", NEW p \in Live, NEW n \in Nat, n >= 1, n <= allocations[p],
         Shrink(p, n)
  PROVE  Promise!Resize(p, n)
<1>1. result' = p /\ ram' = ram /\ allocations[p] \in Nat
  BY LiveInRam DEF Shrink, heap
<1>2. Live' = Live /\ allocations'[p] = n /\ \A q \in Live \ {p} : allocations'[q] = allocations[q]
  <2>1. CASE n < allocations[p]
    <3>1. allocations' = Keep(allocations, p, n)
      BY <2>1 DEF Shrink
    <3> QED
      BY <3>1 DEF Keep, Live
  <2>2. CASE ~(n < allocations[p])
    <3>1. allocations' = allocations /\ n = allocations[p]
      BY <1>1, <2>2 DEF Shrink, heap
    <3> QED
      BY <3>1 DEF Live
  <2> QED
    BY <2>1, <2>2
<1>3. \A q \in Live \ {p} : Blocks'[q] = Blocks[q]
  BY <1>1, <1>2, SameWords
<1>4. /\ Blocks[p] = [i \in 1..allocations[p] |-> ram[p + i - 1]]
      /\ Blocks[p] \in Seq(Data) /\ Len(Blocks[p]) = allocations[p]
      /\ DOMAIN Blocks = Live
  BY BlocksFacts
<1>5. Blocks'[p] = [i \in 1..n |-> ram[p + i - 1]]
  BY <1>1, <1>2 DEF Blocks
<1>6. SubSeq(Blocks[p], 1, n) = [i \in 1..n |-> ram[p + i - 1]]
  <2> DEFINE b == Blocks[p]
  <2>1. SubSeq(b, 1, n) = [i \in 1..n |-> b[i]]
    <3> HIDE DEF b
    <3>1. b \in Seq(Data) /\ Len(b) = allocations[p]
      BY <1>4 DEF b
    <3> QED
      BY <1>1, <3>1
  <2>2. \A i \in 1..n : b[i] = ram[p + i - 1]
    BY <1>1, <1>4
  <2> HIDE DEF b
  <2> QED
    BY <2>1, <2>2 DEF b
<1>7. Blocks' = [q \in Live' |-> Blocks'[q]]
  BY DEF Blocks
<1>8. Promise!With(Blocks, p, SubSeq(Blocks[p], 1, n)) =
        [q \in Live \cup {p} |-> IF q = p THEN SubSeq(Blocks[p], 1, n) ELSE Blocks[q]]
  BY <1>4 DEF Promise!With
<1>9. Blocks' = Promise!With(Blocks, p, SubSeq(Blocks[p], 1, n))
  <2>1. Live \cup {p} = Live /\ Live' = Live
    BY <1>2
  <2>2. \A q \in Live : Blocks'[q] = IF q = p THEN SubSeq(Blocks[p], 1, n) ELSE Blocks[q]
    <3>1. Blocks'[p] = SubSeq(Blocks[p], 1, n)
      BY <1>5, <1>6
    <3> QED
      BY <1>3, <3>1
  <2> QED
    BY <1>7, <1>8, <2>1, <2>2
<1> QED
  BY <1>1, <1>4, <1>9 DEF Promise!Resize

LEMMA GrowKept ==
  ASSUME HeapInv, step = "idle", NEW p \in Live, NEW n \in Nat, n >= 1, n > allocations[p],
         Grow(p, n)
  PROVE  Promise!Resize(p, n)
<1> DEFINE r == Found(n)
           data == [i \in 1..n |-> ram'[r + i - 1]]
<1>1. /\ r # Null /\ result' = r /\ ram' = Copied(p, r)
      /\ allocations' = Keep(Forget(allocations, p), r, n)
  BY DEF Grow
<1>2. r = Promise!Min(Promise!Fits(n)) /\ Promise!Fits(n) # {} /\ r \in Promise!Fits(n)
  BY <1>1, FoundKept, FoundIsLowest
<1>3. Layout(free_blocks, allocations, heap_ptr)
  BY DEF HeapInv
<1>4. r \in Pointers /\ r + n <= RamEnd /\ r \notin Live /\ r \in Nat /\ r >= HeapBase
  BY <1>1, <1>3, Allocates, Units DEF Pointers
<1>5. \A q \in Live : r + n <= q \/ q + allocations[q] <= r
  BY <1>2, FitsFacts
<1>6. \A q \in Live : /\ q \in Nat /\ allocations[q] \in Nat /\ allocations[q] >= 1
                      /\ \A i \in 1..allocations[q] : q + i - 1 \in Pointers
  BY LiveInRam
<1> HIDE DEF r
<1>7. /\ Live' = (Live \ {p}) \cup {r} /\ allocations'[r] = n /\ r # p
      /\ \A q \in Live \ {p} : q # r /\ allocations'[q] = allocations[q]
  BY <1>1, <1>4 DEF Live, Keep, Forget, Restrict
<1>8. \A i \in 1..n : r + i - 1 \in Pointers
  BY <1>4, Units DEF Pointers
<1>9. data \in [1..n -> Data]
  <2>1. ram' \in [Pointers -> Data]
    <3>1. HeapInv'
      BY GrowLayout
    <3> QED
      BY <3>1 DEF HeapInv, Contents
  <2> QED
    BY <1>8, <2>1
<1>10. \A a \in Pointers :
         ram'[a] = IF a \in r..(r + allocations[p] - 1) THEN ram[p + a - r] ELSE ram[a]
  BY <1>1 DEF Copied
<1>11. \A q \in Live \ {p} : Blocks'[q] = Blocks[q]
  <2> TAKE q \in Live \ {p}
  <2>1. ASSUME NEW i \in 1..allocations[q] PROVE ram'[q + i - 1] = ram[q + i - 1]
    <3>1. q + i - 1 \in Pointers /\ i \in Nat /\ i >= 1 /\ i <= allocations[q]
      BY <1>6
    <3>2. ~(q + i - 1 \in r..(r + allocations[p] - 1))
      BY <1>4, <1>5, <1>6, <3>1
    <3> QED
      BY <1>10, <3>1, <3>2
  <2> QED
    BY <1>7, <2>1, SameWords
<1>12. Blocks'[r] = data
  BY <1>7 DEF Blocks
<1>13. /\ Blocks[p] = [i \in 1..allocations[p] |-> ram[p + i - 1]]
       /\ Len(Blocks[p]) = allocations[p] /\ DOMAIN Blocks = Live /\ Promise!Live = Live
  BY BlocksFacts
<1>14. SubSeq(data, 1, Len(Blocks[p])) = Blocks[p]
  <2>1. ASSUME NEW i \in 1..allocations[p] PROVE data[i] = ram[p + i - 1]
    <3>1. i \in 1..n /\ i \in Nat /\ i >= 1 /\ i <= allocations[p]
      BY <1>6
    <3>2. data[i] = ram'[r + i - 1]
      BY <3>1
    <3>3. r + i - 1 \in Pointers /\ r + i - 1 \in r..(r + allocations[p] - 1)
      BY <1>4, <1>6, <1>8, <3>1
    <3>4. p + (r + i - 1) - r = p + i - 1
      BY <1>4, <1>6, <3>1
    <3> HIDE DEF data
    <3> QED
      BY <1>10, <3>2, <3>3, <3>4
  <2> HIDE DEF data
  <2>2. SubSeq(data, 1, allocations[p]) = [i \in 1..allocations[p] |-> data[i]]
    <3>1. data \in Seq(Data) /\ Len(data) = n
      BY <1>9
    <3> QED
      BY <1>6, <3>1
  <2> QED
    BY <1>13, <2>1, <2>2
<1> HIDE DEF data
<1>15. Promise!Without(p) = [q \in Live \ {p} |-> Blocks[q]]
  BY <1>13 DEF Promise!Without, Promise!Restrict
<1>16. Blocks' = Promise!With(Promise!Without(p), r, data)
  <2>1. Blocks' = [q \in Live' |-> Blocks'[q]]
    BY DEF Blocks
  <2> DEFINE f == Promise!Without(p)
  <2>2. DOMAIN f = Live \ {p} /\ \A q \in Live \ {p} : f[q] = Blocks[q]
    BY <1>15
  <2> HIDE DEF f
  <2>3. Promise!With(f, r, data) = [q \in (Live \ {p}) \cup {r} |-> IF q = r THEN data ELSE f[q]]
    BY <2>2 DEF Promise!With
  <2>4. Blocks' = Promise!With(f, r, data)
    BY <1>7, <1>11, <1>12, <2>1, <2>2, <2>3
  <2> QED
    BY <2>4 DEF f
<1> QED
  BY <1>1, <1>2, <1>9, <1>13, <1>14, <1>16 DEF Promise!Resize

LEMMA WriteKept ==
  ASSUME HeapInv, NEW p \in Live, Write(p)
  PROVE  Promise!Write(p)
<1>1. PICK k \in 0..(allocations[p] - 1) : \E d \in Data : ram' = [ram EXCEPT ![p + k] = d]
  BY DEF Write
<1>2. PICK d \in Data : ram' = [ram EXCEPT ![p + k] = d]
  BY <1>1
<1>3. allocations' = allocations /\ request' = request /\ result' = result /\ Live' = Live
  BY DEF Write, Live
<1>4. \A q \in Live : /\ q \in Nat /\ allocations[q] \in Nat
                      /\ \A i \in 1..allocations[q] : q + i - 1 \in Pointers
  BY LiveInRam
<1>5. \A q \in Live \ {p} : p + allocations[p] <= q \/ q + allocations[q] <= p
  BY DEF HeapInv, Layout, Apart, Live
<1>6. k \in Nat /\ k <= allocations[p] - 1 /\ k + 1 \in 1..allocations[p]
  BY <1>4
<1>7. \A a \in Pointers : ram'[a] = IF a = p + k THEN d ELSE ram[a]
  BY <1>2 DEF HeapInv, Contents
<1>8. \A q \in Live \ {p} : Blocks'[q] = Blocks[q]
  <2> TAKE q \in Live \ {p}
  <2>1. ASSUME NEW i \in 1..allocations[q] PROVE ram'[q + i - 1] = ram[q + i - 1]
    <3>1. q + i - 1 \in Pointers /\ q + i - 1 # p + k
      BY <1>4, <1>5, <1>6
    <3> QED
      BY <1>7, <3>1
  <2> QED
    BY <1>3, <2>1, SameWords
<1>9. /\ Blocks[p] = [i \in 1..allocations[p] |-> ram[p + i - 1]] /\ DOMAIN Blocks = Live
      /\ Promise!Live = Live
  BY BlocksFacts
<1>10. Blocks'[p] = [Blocks[p] EXCEPT ![k + 1] = d]
  <2>1. Blocks'[p] = [i \in 1..allocations[p] |-> ram'[p + i - 1]]
    BY <1>3 DEF Blocks
  <2>2. ASSUME NEW i \in 1..allocations[p]
        PROVE  ram'[p + i - 1] = IF i = k + 1 THEN d ELSE ram[p + i - 1]
    <3>1. p + i - 1 \in Pointers /\ (p + i - 1 = p + k <=> i = k + 1)
      BY <1>4, <1>6
    <3> QED
      BY <1>7, <3>1
  <2> DEFINE b == Blocks[p]
  <2>3. b = [i \in 1..allocations[p] |-> ram[p + i - 1]]
    BY <1>9
  <2> HIDE DEF b
  <2>4. [b EXCEPT ![k + 1] = d] = [i \in 1..allocations[p] |-> IF i = k + 1 THEN d ELSE ram[p + i - 1]]
    BY <2>3
  <2> QED
    BY <2>1, <2>2, <2>4 DEF b
<1>11. Blocks' = [q \in Live |-> Blocks'[q]] /\ Blocks = [q \in Live |-> Blocks[q]]
  BY <1>3 DEF Blocks
<1>12. Blocks' = [Blocks EXCEPT ![p] = [@ EXCEPT ![k + 1] = d]]
  BY <1>8, <1>10, <1>11
<1>13. k + 1 \in DOMAIN Blocks[p]
  BY <1>6, <1>9
<1> QED
  BY <1>3, <1>12, <1>13 DEF Promise!Write

LEMMA ReallocKept ==
  ASSUME HeapInv, step = "idle", NEW p \in Pointers \cup {Null}, NEW size \in Sizes, Realloc(p, size)
  PROVE  Promise!Realloc(p, size)
<1> DEFINE n == Words(size)
<1>1. /\ Promise!Live = Live /\ Promise!Null = Null /\ Promise!Words(size) = n
      /\ Promise!Valid(size) <=> Valid(size)
  BY SameUnits, BlocksFacts
<1>2. ASSUME p \in Live, Valid(size)
      PROVE  /\ n \in Nat /\ n >= 1 /\ allocations[p] \in Nat
             /\ p # Null /\ Len(Blocks[p]) = allocations[p]
  BY <1>2, WordsPositive, LiveInRam, BlocksFacts, Units
<1> HIDE DEF n
<1>3. CASE p = Null /\ Malloc(size)
  BY <1>1, <1>3, MallocKept DEF Promise!Realloc
<1>4. CASE p # Null /\ size = 0 /\ Free(p)
  BY <1>1, <1>4, FreeKept DEF Promise!Realloc
<1>5. CASE p # Null /\ size # 0 /\ (p \notin Live \/ ~Valid(size)) /\ Fail
  BY <1>1, <1>5, FailKept DEF Promise!Realloc
<1>6. CASE p \in Live /\ Valid(size) /\ n <= allocations[p] /\ Shrink(p, n)
  <2>1. Promise!Resize(p, n)
    BY <1>2, <1>6, ShrinkKept
  <2> QED
    BY <1>1, <1>6, <2>1 DEF Promise!Realloc
<1>7. CASE p \in Live /\ Valid(size) /\ n > allocations[p] /\ Grow(p, n)
  <2>1. Promise!Resize(p, n)
    BY <1>2, <1>7, GrowKept
  <2> QED
    BY <1>1, <1>7, <2>1 DEF Promise!Realloc
<1>8. CASE p \in Live /\ Valid(size) /\ n > allocations[p] /\ Found(n) = Null /\ Fail
  <2>1. Promise!Fits(n) = {} /\ Promise!Fail
    BY <1>2, <1>8, FoundKept, FailKept
  <2>2. Promise!Resize(p, n)
    BY <1>2, <1>8, <2>1 DEF Promise!Resize
  <2> QED
    BY <1>1, <1>8, <2>2 DEF Promise!Realloc
<1> QED
  BY <1>3, <1>4, <1>5, <1>6, <1>7, <1>8 DEF Realloc, n

\* A call answers, in the promise as in the code, the request the guest made.
LEMMA CallKept == ASSUME HeapInv, Call PROVE Promise!Call
<1>1. /\ Promise!Null = Null /\ Promise!Pointers = Pointers
      /\ Promise!NoRequest = NoRequest
      /\ \A op, p, size : Promise!Request(op, p, size) = Request(op, p, size)
  BY SameUnits
<1>2. step = "idle" /\ request = NoRequest
  BY DEF Call
<1>3. ASSUME NEW size \in Sizes, request' = Request("malloc", Null, size), Malloc(size)
      PROVE  Promise!Call
  <2>1. Promise!Malloc(size)
    BY <1>2, <1>3, MallocKept
  <2> QED
    BY <1>1, <1>2, <1>3, <2>1 DEF Promise!Call
<1>4. ASSUME NEW p \in Pointers \cup {Null}, request' = Request("free", p, 0), Free(p)
      PROVE  Promise!Call
  <2>1. Promise!Free(p)
    BY <1>2, <1>4, FreeKept
  <2> QED
    BY <1>1, <1>2, <1>4, <2>1 DEF Promise!Call
<1>5. ASSUME NEW p \in Pointers \cup {Null}, NEW size \in Sizes,
             request' = Request("realloc", p, size), Realloc(p, size)
      PROVE  Promise!Call
  <2>1. Promise!Realloc(p, size)
    BY <1>2, <1>5, ReallocKept
  <2> QED
    BY <1>1, <1>2, <1>5, <2>1 DEF Promise!Call
<1> QED
  BY <1>3, <1>4, <1>5 DEF Call

LEMMA StepKept == HeapInv /\ [Next]_vars => [Promise!Next]_(Promise!vars)
<1> SUFFICES ASSUME HeapInv, [Next]_vars PROVE Promise!Next \/ UNCHANGED Promise!vars
  OBVIOUS
<1>1. CASE Call
  BY <1>1, CallKept DEF Promise!Next
<1>2. CASE GuestWrites
  <2>1. PICK p \in Live : Write(p)
    BY <1>2 DEF GuestWrites
  <2>2. Promise!Write(p) /\ p \in Promise!Live /\ request = Promise!NoRequest
    BY <1>2, <2>1, WriteKept, BlocksFacts, SameUnits DEF GuestWrites
  <2> QED
    BY <2>2 DEF Promise!Next
<1>3. CASE Return
  <2>1. allocations' = allocations /\ ram' = ram
    BY <1>3 DEF Return, heap
  <2>2. Blocks' = Blocks
    BY <2>1 DEF Blocks, Live
  <2>3. Promise!Return
    BY <1>3, <2>2, SameUnits DEF Return, Promise!Return
  <2> QED
    BY <2>3 DEF Promise!Next
<1>4. CASE MergeStep \/ TrimStep \/ UNCHANGED vars
  <2>1. allocations' = allocations /\ ram' = ram /\ request' = request /\ result' = result
    BY <1>4 DEF MergeStep, TrimStep, vars, heap
  <2>2. Blocks' = Blocks
    BY <2>1 DEF Blocks, Live
  <2> QED
    BY <2>1, <2>2 DEF Promise!vars
<1> QED
  BY <1>1, <1>2, <1>3, <1>4 DEF Next

\* The heap implements its promise: whatever calls came before, the answer to a
\* request is the lowest address where that request fits, a failure is answered
\* only to a request that fits nowhere or is none, and malloc, free and realloc
\* keep the data of every live block, of a failed realloc's block too.
THEOREM Refinement == Spec => KeepsPromise
<1>1. Init => Promise!Init
  BY InitKept
<1>2. HeapInv /\ [Next]_vars => [Promise!Next]_(Promise!vars)
  BY StepKept
<1>3. Spec => Promise!Spec
  BY <1>1, <1>2, Invariance, PTL DEF Spec, Promise!Spec
<1> QED
  BY <1>3 DEF KeepsPromise

=============================================================================
