------------------------ MODULE DataStructuresProofs ------------------------
(***************************************************************************)
(* What the operators of DataStructures compute, for every width of a      *)
(* cell: the facts about bitmaps and slots that the proofs about the       *)
(* channel rest on; and that the bit operations of the code compute the    *)
(* same.                                                                   *)
(***************************************************************************)
EXTENDS PipelinedOutOfOrderBitmap, SequenceTheorems, WellFoundedInduction, TLAPS

\* The slot of a key is one of the slots of the queue.
LEMMA SlotType ==
    ASSUME NEW key \in Nat
    PROVE  SlotOf(key) \in Slots
  BY CellAssumption DEF SlotOf, Slots

\* A non-empty set of naturals has a minimum.
LEMMA MinOfNaturals ==
    ASSUME NEW S \in SUBSET Nat, S # {}
    PROVE  Min(S) \in S /\ \A x \in S : Min(S) <= x
  <1>1. PICK x \in S : \A y \in S : ~ (<<y, x>> \in OpToRel(<, Nat))
    BY WFMin, NatLessThanWellFounded, Zenon
  <1>2. \A y \in S : ~ (y < x)
    <2>1. TAKE y \in S
    <2>2. x \in Nat /\ y \in Nat
      OBVIOUS
    <2>3. <<y, x>> \in OpToRel(<, Nat) <=> y < x
      BY <2>2, Zenon DEF OpToRel
    <2> QED
      BY <1>1, <2>3
  <1>3. \A y \in S : x <= y
    BY <1>2
  <1> QED
    BY <1>3 DEF Min

\* The shift of a bitmap whose ones lie in the cell: nextEmpty moves to the
\* first zero, over ones only, and the ones after it stay.
LEMMA AdvanceLemma ==
    ASSUME NEW e \in Nat, NEW marks \in SUBSET Nat,
           \A i \in marks : e <= i /\ i <= e + MAX_CELL_BITS - 1,
           NEW q, q = POOOAdvance(e, marks)
    PROVE  /\ q \in PipelinedOutOfOrder
           /\ e <= q.nextEmpty
           /\ q.nextEmpty \notin marks
           /\ \A i \in e .. q.nextEmpty - 1 : i \in marks
           /\ q.bitmap = {i \in marks : i > q.nextEmpty}
  <1> DEFINE free == (e .. e + MAX_CELL_BITS) \ marks
             first == Min(free)
  <1>1. free \in SUBSET Nat /\ e + MAX_CELL_BITS \in free
    BY CellAssumption
  <1>2. first \in free /\ \A x \in free : first <= x
    <2> HIDE DEF free
    <2> QED
      BY <1>1, MinOfNaturals
  <1>3. first \in Nat /\ e <= first /\ first <= e + MAX_CELL_BITS /\ first \notin marks
    BY <1>2, CellAssumption
  <1>4. \A i \in e .. first - 1 : i \in marks
    <2> SUFFICES ASSUME NEW i \in e .. first - 1, i \notin marks
                 PROVE  FALSE
      OBVIOUS
    <2>1. i \in e .. e + MAX_CELL_BITS /\ i < first
      BY <1>3, CellAssumption
    <2>2. first <= i
      BY <1>2, <2>1
    <2> QED
      BY <1>3, <2>1, <2>2
  <1>5. q = [nextEmpty |-> first, bitmap |-> {i \in marks : i > first}]
    BY DEF POOOAdvance
  <1> HIDE DEF first, free
  <1>6. q.nextEmpty = first /\ q.bitmap = {i \in marks : i > first}
    BY <1>5
  <1>7. q \in PipelinedOutOfOrder
    <2>1. {i \in marks : i > first} \in SUBSET Nat
      OBVIOUS
    <2> QED
      BY <1>3, <1>5, <2>1 DEF PipelinedOutOfOrder
  <1> QED
    BY <1>3, <1>4, <1>6, <1>7

\* POOO::set adds one mark, removes none, and leaves the bits after nextEmpty.
LEMMA SetLemma ==
    ASSUME NEW p \in PipelinedOutOfOrder, NEW n \in Nat,
           POOOSettable(p, n),
           \A i \in p.bitmap : p.nextEmpty < i /\ i <= POOOMaxSettableBit(p),
           NEW q, q = POOOSet(p, n)
    PROVE  /\ q \in PipelinedOutOfOrder
           /\ p.nextEmpty <= q.nextEmpty
           /\ \A i \in q.bitmap : q.nextEmpty < i /\ (i \in p.bitmap \/ i = n)
           /\ \A i \in Nat : POOOMarked(q, i) <=> POOOMarked(p, i) \/ i = n
  <1> DEFINE marks == p.bitmap \cup {n}
  <1>0. p.nextEmpty \in Nat /\ p.bitmap \in SUBSET Nat
    BY DEF PipelinedOutOfOrder
  <1>1. CASE n < p.nextEmpty
    <2>1. q = p
      BY <1>1 DEF POOOSet
    <2> QED
      BY <1>0, <1>1, <2>1 DEF POOOMarked
  <1>2. CASE ~ (n < p.nextEmpty)
    <2>1. q = POOOAdvance(p.nextEmpty, marks)
      BY <1>2 DEF POOOSet
    <2>2. \A i \in marks : p.nextEmpty <= i /\ i <= p.nextEmpty + MAX_CELL_BITS - 1
      BY <1>0, <1>2 DEF POOOSettable, POOOMaxSettableBit
    <2>3. /\ q \in PipelinedOutOfOrder
          /\ p.nextEmpty <= q.nextEmpty
          /\ q.nextEmpty \notin marks
          /\ \A i \in p.nextEmpty .. q.nextEmpty - 1 : i \in marks
          /\ q.bitmap = {i \in marks : i > q.nextEmpty}
      <3>1. marks \in SUBSET Nat
        BY <1>0
      <3> HIDE DEF marks
      <3> QED
        BY <1>0, <2>1, <2>2, <3>1, AdvanceLemma
    <2>4. q.nextEmpty \in Nat
      BY <2>3 DEF PipelinedOutOfOrder
    <2>5. \A i \in Nat : POOOMarked(q, i) <=> POOOMarked(p, i) \/ i = n
      <3> SUFFICES ASSUME NEW i \in Nat
                   PROVE  POOOMarked(q, i) <=> i < p.nextEmpty \/ i \in marks
        BY DEF POOOMarked
      <3>1. CASE i < q.nextEmpty
        BY <3>1, <1>0, <2>3, <2>4 DEF POOOMarked
      <3>2. CASE i = q.nextEmpty
        BY <3>2, <1>0, <2>3, <2>4 DEF POOOMarked
      <3>3. CASE i > q.nextEmpty
        BY <3>3, <1>0, <2>3, <2>4 DEF POOOMarked
      <3> QED
        BY <3>1, <3>2, <3>3, <2>4
    <2>6. \A i \in q.bitmap : q.nextEmpty < i /\ (i \in p.bitmap \/ i = n)
      BY <1>0, <2>3, <2>4
    <2> QED
      BY <2>3, <2>5, <2>6
  <1> QED
    BY <1>1, <1>2

\* Two keys of one window share no slot: two multiples of the width that are
\* apart are at least the width apart.
LEMMA OneKeyPerSlot ==
    ASSUME NEW e \in Nat, NEW a \in Nat, NEW b \in Nat, SlotOf(a) = SlotOf(b),
           e <= a, a <= e + MAX_CELL_BITS - 1, e <= b, b <= e + MAX_CELL_BITS - 1
    PROVE  a = b
  <1>1. ASSUME NEW x \in Nat
        PROVE  /\ x = MAX_CELL_BITS * (x \div MAX_CELL_BITS) + SlotOf(x)
               /\ x \div MAX_CELL_BITS \in Int
               /\ SlotOf(x) \in Int
    BY CellAssumption DEF SlotOf
  <1>2. ASSUME NEW i \in Int, NEW j \in Int
        PROVE  MAX_CELL_BITS * (i - j) = MAX_CELL_BITS * i - MAX_CELL_BITS * j
    BY CellAssumption
  <1>3. ASSUME NEW k \in Int
        PROVE  \/ k <= -1 /\ MAX_CELL_BITS * k <= - MAX_CELL_BITS
               \/ k = 0 /\ MAX_CELL_BITS * k = 0
               \/ k >= 1 /\ MAX_CELL_BITS * k >= MAX_CELL_BITS
    <2>1. CASE k <= -1
      BY <2>1, CellAssumption
    <2>2. CASE k = 0
      BY <2>2, CellAssumption
    <2>3. CASE k >= 1
      BY <2>3, CellAssumption
    <2> QED
      BY <2>1, <2>2, <2>3
  <1> DEFINE i == a \div MAX_CELL_BITS
             j == b \div MAX_CELL_BITS
  <1>4. i \in Int /\ j \in Int /\ i - j \in Int
    BY <1>1
  <1>5. MAX_CELL_BITS * (i - j) = MAX_CELL_BITS * i - MAX_CELL_BITS * j
    BY <1>2, <1>4
  <1>6. /\ a = MAX_CELL_BITS * i + SlotOf(a)
        /\ b = MAX_CELL_BITS * j + SlotOf(b)
        /\ SlotOf(a) \in Int
    BY <1>1
  <1>7. MAX_CELL_BITS * i \in Int /\ MAX_CELL_BITS * j \in Int
    BY <1>4, CellAssumption
  <1> HIDE DEF i, j
  <1>8. a - b = MAX_CELL_BITS * (i - j)
    BY <1>5, <1>6, <1>7
  <1>9. /\ a - b <= MAX_CELL_BITS - 1
        /\ b - a <= MAX_CELL_BITS - 1
    BY CellAssumption
  <1> DEFINE d == MAX_CELL_BITS * (i - j)
  <1>10. d <= - MAX_CELL_BITS \/ d = 0 \/ d >= MAX_CELL_BITS
    BY <1>3, <1>4
  <1>11. a - b = d
    BY <1>8
  <1> HIDE DEF d
  <1> QED
    BY ONLY <1>9, <1>10, <1>11, CellAssumption, a \in Nat, b \in Nat

\* Marking what is marked already changes nothing.
LEMMA SetMarkedIsIdentity ==
    ASSUME NEW p \in PipelinedOutOfOrder, NEW n \in Nat, POOOMarked(p, n),
           \A i \in p.bitmap : p.nextEmpty < i
    PROVE  POOOSet(p, n) = p
  <1>0. p.nextEmpty \in Nat /\ p.bitmap \in SUBSET Nat
    BY DEF PipelinedOutOfOrder
  <1>1. CASE n < p.nextEmpty
    BY <1>1 DEF POOOSet
  <1>2. CASE ~ (n < p.nextEmpty)
    <2> DEFINE free == (p.nextEmpty .. p.nextEmpty + MAX_CELL_BITS) \ p.bitmap
    <2>1. p.bitmap \cup {n} = p.bitmap
      BY <1>2 DEF POOOMarked
    <2>2. free \in SUBSET Nat /\ p.nextEmpty \in free /\ \A x \in free : p.nextEmpty <= x
      BY <1>0, CellAssumption
    <2>3. Min(free) = p.nextEmpty
      <3> DEFINE m == Min(free)
      <3> HIDE DEF free
      <3>1. m \in free /\ \A x \in free : m <= x
        BY <2>2, MinOfNaturals
      <3>2. m \in Nat /\ m <= p.nextEmpty /\ p.nextEmpty <= m
        BY <2>2, <3>1
      <3> QED
        BY <1>0, <3>2
    <2>4. {i \in p.bitmap : i > p.nextEmpty} = p.bitmap
      BY <1>0
    <2>5. POOOSet(p, n) = [nextEmpty |-> p.nextEmpty, bitmap |-> p.bitmap]
      BY <1>2, <2>1, <2>3, <2>4 DEF POOOSet, POOOAdvance
    <2> QED
      BY <2>5 DEF PipelinedOutOfOrder
  <1> QED
    BY <1>1, <1>2
-----------------------------------------------------------------------------
(* The bit operations of PipelinedOutOfOrderBitmap                          *)

\* The contents of a cell: as many bits as it has.
CellBits == [1 .. MAX_CELL_BITS -> {0, 1}]

\* The nonces that the ones of a cell stand for.
OnesAt(e, slice) == {i \in e .. e + MAX_CELL_BITS - 1 : slice[i - e + 1] = 1}

\* A cell is a sequence of bits.
LEMMA CellIsSequence ==
    ASSUME NEW slice \in CellBits
    PROVE  slice \in Seq({0, 1}) /\ Len(slice) = MAX_CELL_BITS
  BY CellAssumption DEF CellBits

\* A sequence of bits of that length is a cell.
LEMMA SequenceIsCell ==
    ASSUME NEW slice \in Seq({0, 1}), Len(slice) = MAX_CELL_BITS
    PROVE  slice \in CellBits
  BY LenProperties DEF CellBits

\* A run of equal bits.
LEMMA BitsAre ==
    ASSUME NEW bit \in {0, 1}, NEW n \in Nat
    PROVE  /\ Bits(bit, n) \in Seq({0, 1})
           /\ Len(Bits(bit, n)) = n
           /\ \A i \in 1 .. n : Bits(bit, n)[i] = bit
  BY DEF Bits

\* r is the m bits of a with the n bits of b after them.
IsJoin(r, a, m, b, n) ==
    /\ r \in Seq({0, 1})
    /\ Len(r) = m + n
    /\ \A i \in 1 .. m + n : r[i] = IF i <= m THEN a[i] ELSE b[i - m]

\* Two runs of bits, one after the other.
LEMMA Joined ==
    ASSUME NEW a \in Seq({0, 1}), NEW b \in Seq({0, 1})
    PROVE  IsJoin(a \o b, a, Len(a), b, Len(b))
  BY ConcatProperties, Zenon DEF IsJoin

\* r is the cell with the bits after the first k, up to `last`, set.
IsSpliced(r, slice, k, last) ==
    /\ r \in CellBits
    /\ \A i \in 1 .. MAX_CELL_BITS :
           r[i] = IF k < i /\ i <= last THEN 1 ELSE slice[i]

\* Cutting the first and the last bits, and putting a run between them.
LEMMA Spliced ==
    ASSUME NEW slice \in CellBits, NEW k \in 0 .. MAX_CELL_BITS,
           NEW last \in k .. MAX_CELL_BITS, NEW middle \in Seq({0, 1}),
           Len(middle) = last - k, \A i \in 1 .. last - k : middle[i] = 1,
           NEW r, r = ScutFirst(slice, k) \o middle \o ScutLast(slice, MAX_CELL_BITS - last)
    PROVE  IsSpliced(r, slice, k, last)
  <1> DEFINE head == SubSeq(slice, 1, k)
             tail == SubSeq(slice, last + 1, MAX_CELL_BITS)
  <1>0. k \in Int /\ last \in Int /\ 0 <= k /\ k <= last /\ last <= MAX_CELL_BITS
        /\ MAX_CELL_BITS \in Int
    BY CellAssumption
  <1>1. ScutFirst(slice, k) = head /\ ScutLast(slice, MAX_CELL_BITS - last) = tail
    <2>1. MAX_CELL_BITS - (MAX_CELL_BITS - last) + 1 = last + 1
      BY <1>0
    <2> QED
      BY <2>1, CellIsSequence DEF ScutFirst, ScutLast
  <1>2. \A i \in 1 .. MAX_CELL_BITS : slice[i] \in {0, 1}
    BY DEF CellBits
  <1>3. /\ head \in Seq({0, 1}) /\ Len(head) = k
        /\ \A i \in 1 .. k : head[i] = slice[i]
    <2>1. \A i \in 1 .. k : slice[i] \in {0, 1}
      BY <1>0, <1>2
    <2>2. /\ head \in Seq({0, 1})
          /\ Len(head) = IF 1 <= k THEN k - 1 + 1 ELSE 0
          /\ \A i \in 1 .. k - 1 + 1 : head[i] = slice[1 + i - 1]
      BY <1>0, <2>1, SubSeqProperties
    <2> HIDE DEF head
    <2> QED
      BY <1>0, <2>2
  <1>4. /\ tail \in Seq({0, 1}) /\ Len(tail) = MAX_CELL_BITS - last
        /\ \A i \in 1 .. MAX_CELL_BITS - last : tail[i] = slice[last + i]
    <2>1. \A i \in last + 1 .. MAX_CELL_BITS : slice[i] \in {0, 1}
      BY <1>0, <1>2
    <2>2. /\ tail \in Seq({0, 1})
          /\ Len(tail) = IF last + 1 <= MAX_CELL_BITS THEN MAX_CELL_BITS - (last + 1) + 1 ELSE 0
          /\ \A i \in 1 .. MAX_CELL_BITS - (last + 1) + 1 : tail[i] = slice[last + 1 + i - 1]
      BY <1>0, <2>1, SubSeqProperties
    <2> HIDE DEF tail
    <2> QED
      BY <1>0, <2>2
  <1> HIDE DEF head, tail
  <1> DEFINE front == head \o middle
  <1>5. /\ front \in Seq({0, 1}) /\ Len(front) = last
        /\ \A i \in 1 .. last : front[i] = IF i <= k THEN slice[i] ELSE 1
    <2>1. /\ front \in Seq({0, 1})
          /\ Len(front) = k + (last - k)
          /\ \A i \in 1 .. k + (last - k) : front[i] = IF i <= k THEN head[i] ELSE middle[i - k]
      <3>1. head \in Seq({0, 1}) /\ Len(head) = k
        BY <1>3
      <3>2. IsJoin(front, head, Len(head), middle, Len(middle))
        BY <3>1, Joined
      <3>3. IsJoin(front, head, k, middle, last - k)
        BY <3>1, <3>2, Zenon
      <3> HIDE DEF front
      <3> QED
        BY <3>3, Zenon DEF IsJoin
    <2> HIDE DEF front
    <2>2. k + (last - k) = last
      BY <1>0
    <2>3. ASSUME NEW i \in 1 .. last
          PROVE  front[i] = IF i <= k THEN slice[i] ELSE 1
      <3>1. front[i] = IF i <= k THEN head[i] ELSE middle[i - k]
        BY <2>1, <2>2
      <3>2. CASE i <= k
        BY <1>0, <1>3, <3>1, <3>2
      <3>3. CASE ~ (i <= k)
        BY <1>0, <3>1, <3>3
      <3> QED
        BY <3>2, <3>3
    <2> QED
      BY <2>1, <2>2, <2>3
  <1> HIDE DEF front
  <1>6. /\ r \in Seq({0, 1})
        /\ Len(r) = last + (MAX_CELL_BITS - last)
        /\ \A i \in 1 .. last + (MAX_CELL_BITS - last) : r[i] = IF i <= last THEN front[i] ELSE tail[i - last]
    <2>1. r = front \o tail
      BY <1>1 DEF front
    <2>2. /\ front \in Seq({0, 1}) /\ Len(front) = last
          /\ tail \in Seq({0, 1}) /\ Len(tail) = MAX_CELL_BITS - last
      BY <1>4, <1>5
    <2>3. IsJoin(r, front, Len(front), tail, Len(tail))
      BY <2>1, <2>2, Joined, Zenon
    <2>4. IsJoin(r, front, last, tail, MAX_CELL_BITS - last)
      BY <2>2, <2>3, Zenon
    <2> QED
      BY <2>4, Zenon DEF IsJoin
  <1>7. Len(r) = MAX_CELL_BITS
    BY <1>0, <1>6
  <1>8. r \in CellBits
    BY <1>6, <1>7, SequenceIsCell
  <1>9. ASSUME NEW i \in 1 .. MAX_CELL_BITS
        PROVE  r[i] = IF k < i /\ i <= last THEN 1 ELSE slice[i]
    <2>1. CASE i <= last
      <3>1. r[i] = front[i] /\ i \in 1 .. last
        BY <1>0, <1>6, <2>1
      <3>2. front[i] = IF i <= k THEN slice[i] ELSE 1
        BY <1>5, <3>1
      <3>3. CASE i <= k
        <4>1. ~ (k < i)
          BY <1>0, <3>3
        <4> QED
          BY <3>1, <3>2, <3>3, <4>1, Zenon
      <3>4. CASE ~ (i <= k)
        <4>1. k < i
          BY <1>0, <3>4
        <4> QED
          BY <2>1, <3>1, <3>2, <3>4, <4>1, Zenon
      <3> QED
        BY <3>3, <3>4
    <2>2. CASE ~ (i <= last)
      <3>1. r[i] = tail[i - last] /\ i - last \in 1 .. MAX_CELL_BITS - last
        BY <1>0, <1>6, <2>2
      <3>2. last + (i - last) = i
        BY <1>0
      <3> QED
        BY <1>4, <2>2, <3>1, <3>2
    <2> QED
      BY <2>1, <2>2
  <1> QED
    BY <1>8, <1>9, Zenon DEF IsSpliced

\* ldones: a cell starts with as many ones as the shift of its set of ones
\* moves nextEmpty.
LEMMA LeadingOnesAre ==
    ASSUME NEW e \in Nat, NEW slice \in CellBits,
           NEW q, q = POOOAdvance(e, OnesAt(e, slice))
    PROVE  /\ q.nextEmpty \in Nat
           /\ LeadingOnes(slice) \in 0 .. MAX_CELL_BITS
           /\ q.nextEmpty = e + LeadingOnes(slice)
           /\ q.nextEmpty \notin OnesAt(e, slice)
           /\ q.bitmap = {i \in OnesAt(e, slice) : i > q.nextEmpty}
  <1> DEFINE marks == OnesAt(e, slice)
             ones == q.nextEmpty - e
             Leading == {k \in 0 .. Len(slice) : \A i \in 1 .. k : slice[i] = 1}
  <1>1. /\ q \in PipelinedOutOfOrder
        /\ e <= q.nextEmpty
        /\ q.nextEmpty \notin marks
        /\ \A i \in e .. q.nextEmpty - 1 : i \in marks
        /\ q.bitmap = {i \in marks : i > q.nextEmpty}
    <2>1. marks \in SUBSET Nat /\ \A i \in marks : e <= i /\ i <= e + MAX_CELL_BITS - 1
      BY CellAssumption DEF OnesAt
    <2> HIDE DEF marks
    <2>2. q = POOOAdvance(e, marks)
      BY DEF marks
    <2> QED
      BY <2>1, <2>2, AdvanceLemma
  <1>2. q.nextEmpty \in Nat /\ ones \in Nat
    BY <1>1 DEF PipelinedOutOfOrder
  <1>3. MAX_CELL_BITS \in Nat /\ Len(slice) = MAX_CELL_BITS
    BY CellAssumption, CellIsSequence
  <1>4. \A i \in marks : i \in Nat /\ e <= i /\ i <= e + MAX_CELL_BITS - 1 /\ slice[i - e + 1] = 1
    BY <1>3 DEF OnesAt
  <1>5. ASSUME NEW i \in 1 .. MAX_CELL_BITS
        PROVE  slice[i] = 1 <=> e + i - 1 \in marks
    <2>1. e + i - 1 \in e .. e + MAX_CELL_BITS - 1 /\ (e + i - 1) - e + 1 = i
      BY <1>3
    <2> QED
      BY <2>1, Zenon DEF OnesAt
  <1> HIDE DEF marks
  <1>6. ones <= MAX_CELL_BITS
    <2>1. SUFFICES ASSUME ones > MAX_CELL_BITS
                   PROVE  FALSE
      BY <1>2, <1>3
    <2>2. e + MAX_CELL_BITS \in e .. q.nextEmpty - 1
      BY <1>2, <1>3, <2>1
    <2>3. e + MAX_CELL_BITS \in marks
      BY <1>1, <2>2
    <2> QED
      BY <1>3, <1>4, <2>3
  <1>7. ones \in Leading
    <2>1. ASSUME NEW i \in 1 .. ones
          PROVE  slice[i] = 1
      <3>1. i \in 1 .. MAX_CELL_BITS /\ e + i - 1 \in e .. q.nextEmpty - 1
        BY <1>2, <1>3, <1>6
      <3>2. e + i - 1 \in marks
        BY <1>1, <3>1
      <3> QED
        BY <1>5, <3>1, <3>2
    <2>2. ones \in 0 .. Len(slice)
      BY <1>2, <1>3, <1>6
    <2> QED
      BY <2>1, <2>2
  <1>8. \A k \in Leading : k \in Nat /\ k <= ones
    <2> SUFFICES ASSUME NEW k \in Leading, k > ones
                 PROVE  FALSE
      BY <1>2, <1>3
    <2>1. k \in 0 .. MAX_CELL_BITS /\ \A i \in 1 .. k : slice[i] = 1
      BY <1>3
    <2>2. ones + 1 \in 1 .. k /\ ones + 1 \in 1 .. MAX_CELL_BITS
      BY <1>2, <1>3, <2>1
    <2>3. slice[ones + 1] = 1
      BY <2>1, <2>2
    <2>4. e + (ones + 1) - 1 \in marks
      BY <1>5, <2>2, <2>3
    <2>5. e + (ones + 1) - 1 = q.nextEmpty
      BY <1>2
    <2> QED
      BY <1>1, <2>4, <2>5
  <1>9. LeadingOnes(slice) = ones
    <2>1. LeadingOnes(slice) = CHOOSE x \in Leading : \A y \in Leading : x >= y
      BY DEF LeadingOnes, Max
    <2> HIDE DEF Leading
    <2>2. \A y \in Leading : ones >= y
      BY <1>2, <1>8
    <2> DEFINE m == CHOOSE x \in Leading : \A y \in Leading : x >= y
    <2>3. m \in Leading /\ \A y \in Leading : m >= y
      BY <1>7, <2>2
    <2> HIDE DEF m
    <2>4. m \in Nat /\ m <= ones /\ m >= ones
      BY <1>7, <1>8, <2>3
    <2>5. m = ones
      BY <1>2, <2>4
    <2> QED
      BY <2>1, <2>5 DEF m
  <1>10. ones \in 0 .. MAX_CELL_BITS /\ q.nextEmpty = e + ones
    BY <1>2, <1>3, <1>6
  <1> QED
    BY <1>1, <1>2, <1>9, <1>10 DEF marks

\* Shifting the leading ones out and filling up with zeroes: every bit moves
\* down by their number.
LEMMA Shifted ==
    ASSUME NEW e \in Nat, NEW slice \in CellBits,
           NEW ones \in 0 .. MAX_CELL_BITS, ones = LeadingOnes(slice),
           NEW r, r = BuildShifted(e, slice)
    PROVE  /\ r = [nextEmpty |-> e + ones, bitmap |-> r.bitmap]
           /\ r.bitmap \in CellBits
           /\ \A i \in 1 .. MAX_CELL_BITS :
                  r.bitmap[i] = IF i <= MAX_CELL_BITS - ones THEN slice[i + ones] ELSE 0
  <1> DEFINE rest == SubSeq(slice, ones + 1, MAX_CELL_BITS)
             all == rest \o Bits(0, ones)
  <1>0. ones \in Nat /\ ones <= MAX_CELL_BITS /\ MAX_CELL_BITS \in Nat
        /\ MAX_CELL_BITS - ones \in Nat
    BY CellAssumption
  <1>1. r = [nextEmpty |-> e + ones, bitmap |-> all]
    <2>1. Len(slice) = MAX_CELL_BITS
      BY CellIsSequence
    <2>2. MAX_CELL_BITS - (MAX_CELL_BITS - ones) + 1 = ones + 1
      BY <1>0
    <2>3. ScutLast(slice, Len(slice) - ones) = rest
      BY <2>1, <2>2 DEF ScutLast
    <2> QED
      BY <2>3 DEF BuildShifted
  <1>2. /\ rest \in Seq({0, 1}) /\ Len(rest) = MAX_CELL_BITS - ones
        /\ \A i \in 1 .. MAX_CELL_BITS - ones : rest[i] = slice[i + ones]
    <2>1. \A i \in ones + 1 .. MAX_CELL_BITS : slice[i] \in {0, 1}
      BY <1>0 DEF CellBits
    <2>2. /\ rest \in Seq({0, 1})
          /\ Len(rest) = IF ones + 1 <= MAX_CELL_BITS THEN MAX_CELL_BITS - (ones + 1) + 1 ELSE 0
          /\ \A i \in 1 .. MAX_CELL_BITS - (ones + 1) + 1 : rest[i] = slice[ones + 1 + i - 1]
      BY <1>0, <2>1, SubSeqProperties
    <2> HIDE DEF rest
    <2> QED
      BY <1>0, <2>2
  <1> HIDE DEF rest
  <1>3. /\ Bits(0, ones) \in Seq({0, 1}) /\ Len(Bits(0, ones)) = ones
        /\ \A i \in 1 .. ones : Bits(0, ones)[i] = 0
    BY <1>0, BitsAre
  <1>4. IsJoin(all, rest, MAX_CELL_BITS - ones, Bits(0, ones), ones)
    <2>1. IsJoin(all, rest, Len(rest), Bits(0, ones), Len(Bits(0, ones)))
      BY <1>2, <1>3, Joined, Zenon
    <2> HIDE DEF all
    <2> QED
      BY <1>2, <1>3, <2>1, Zenon
  <1> HIDE DEF all
  <1>5. MAX_CELL_BITS - ones + ones = MAX_CELL_BITS
    BY <1>0
  <1>6. /\ all \in Seq({0, 1}) /\ Len(all) = MAX_CELL_BITS
        /\ \A i \in 1 .. MAX_CELL_BITS :
               all[i] = IF i <= MAX_CELL_BITS - ones THEN rest[i] ELSE Bits(0, ones)[i - (MAX_CELL_BITS - ones)]
    BY <1>4, <1>5, Zenon DEF IsJoin
  <1>7. all \in CellBits
    BY <1>6, SequenceIsCell
  <1>8. ASSUME NEW i \in 1 .. MAX_CELL_BITS
        PROVE  all[i] = IF i <= MAX_CELL_BITS - ones THEN slice[i + ones] ELSE 0
    <2>1. CASE i <= MAX_CELL_BITS - ones
      <3>1. i \in 1 .. MAX_CELL_BITS - ones
        BY <1>0, <2>1
      <3>2. all[i] = rest[i]
        BY <1>6, <2>1, Zenon
      <3> QED
        BY <1>2, <2>1, <3>1, <3>2, Zenon
    <2>2. CASE ~ (i <= MAX_CELL_BITS - ones)
      <3>1. i - (MAX_CELL_BITS - ones) \in 1 .. ones
        BY <1>0, <2>2
      <3>2. all[i] = Bits(0, ones)[i - (MAX_CELL_BITS - ones)]
        BY <1>6, <2>2, Zenon
      <3> QED
        BY <1>3, <2>2, <3>1, <3>2, Zenon
    <2> QED
      BY <2>1, <2>2
  <1>9. r.bitmap = all /\ r = [nextEmpty |-> e + ones, bitmap |-> r.bitmap]
    BY <1>1
  <1> QED
    BY <1>7, <1>8, <1>9

\* What holds of the object between calls.
IsBitmap(p) ==
    /\ p \in [nextEmpty : Nat, bitmap : CellBits]
    /\ p.bitmap[1] = 0

\* The object as DataStructures sees it, in one piece.
LEMMA AsSetIs ==
    ASSUME NEW p
    PROVE  AsSet(p) = [nextEmpty |-> p.nextEmpty, bitmap |-> OnesAt(p.nextEmpty, p.bitmap)]
  BY DEF AsSet, OnesAt, InCell, IsBitSet

\* The shift by bits is the shift by sets.
LEMMA ShiftIsExact ==
    ASSUME NEW e \in Nat, NEW slice \in CellBits, NEW r, r = BuildShifted(e, slice)
    PROVE  IsBitmap(r) /\ AsSet(r) = POOOAdvance(e, OnesAt(e, slice))
  <1> DEFINE q == POOOAdvance(e, OnesAt(e, slice))
             ones == LeadingOnes(slice)
  <1>1. /\ ones \in 0 .. MAX_CELL_BITS
        /\ q.nextEmpty = e + ones
        /\ e + ones \notin OnesAt(e, slice)
        /\ q.bitmap = {i \in OnesAt(e, slice) : i > e + ones}
    <2>1. /\ q.nextEmpty \in Nat /\ ones \in 0 .. MAX_CELL_BITS
          /\ q.nextEmpty = e + ones
          /\ q.nextEmpty \notin OnesAt(e, slice)
          /\ q.bitmap = {i \in OnesAt(e, slice) : i > q.nextEmpty}
      BY LeadingOnesAre
    <2> HIDE DEF q, ones
    <2> QED
      BY <2>1
  <1>2. q = [nextEmpty |-> q.nextEmpty, bitmap |-> q.bitmap]
    BY DEF POOOAdvance
  <1> HIDE DEF q, ones
  <1>3. /\ r = [nextEmpty |-> e + ones, bitmap |-> r.bitmap]
        /\ r.bitmap \in CellBits
        /\ \A i \in 1 .. MAX_CELL_BITS :
               r.bitmap[i] = IF i <= MAX_CELL_BITS - ones THEN slice[i + ones] ELSE 0
    <2>1. ones = LeadingOnes(slice)
      BY DEF ones
    <2> QED
      BY <1>1, <2>1, Shifted
  <1> DEFINE bitmap == r.bitmap
  <1>4. r = [nextEmpty |-> e + ones, bitmap |-> bitmap] /\ r.nextEmpty = e + ones
    BY <1>3
  <1>5. /\ bitmap \in CellBits
        /\ \A i \in 1 .. MAX_CELL_BITS :
               bitmap[i] = IF i <= MAX_CELL_BITS - ones THEN slice[i + ones] ELSE 0
    BY <1>3
  <1>6. MAX_CELL_BITS \in Nat \ {0} /\ ones \in Nat /\ ones <= MAX_CELL_BITS
    BY <1>1, CellAssumption
  <1> HIDE DEF bitmap
  <1>7. bitmap[1] = 0
    <2>1. CASE ones < MAX_CELL_BITS
      <3>1. 1 \in 1 .. MAX_CELL_BITS /\ 1 <= MAX_CELL_BITS - ones
        BY <1>6, <2>1
      <3>2. bitmap[1] = slice[1 + ones]
        BY <1>5, <3>1
      <3>3. e + ones \in e .. e + MAX_CELL_BITS - 1 /\ (e + ones) - e + 1 = 1 + ones
        BY <1>6, <2>1
      <3>4. slice[1 + ones] # 1
        BY <1>1, <3>3, Zenon DEF OnesAt
      <3>5. 1 + ones \in 1 .. MAX_CELL_BITS
        BY <1>6, <2>1
      <3>6. slice[1 + ones] \in {0, 1}
        BY <3>5, Zenon DEF CellBits
      <3> QED
        BY <3>2, <3>4, <3>6
    <2>2. CASE ~ (ones < MAX_CELL_BITS)
      <3>1. 1 \in 1 .. MAX_CELL_BITS /\ ~ (1 <= MAX_CELL_BITS - ones)
        BY <1>6, <2>2
      <3> QED
        BY <1>5, <3>1
    <2> QED
      BY <2>1, <2>2
  <1>8. OnesAt(e + ones, bitmap) = {i \in OnesAt(e, slice) : i > e + ones}
    <2>1. ASSUME NEW i \in OnesAt(e + ones, bitmap)
          PROVE  i \in OnesAt(e, slice) /\ i > e + ones
      <3>1. i \in e + ones .. e + ones + MAX_CELL_BITS - 1 /\ bitmap[i - (e + ones) + 1] = 1
        BY DEF OnesAt
      <3> DEFINE k == i - (e + ones) + 1
      <3>2. k \in 1 .. MAX_CELL_BITS /\ bitmap[k] = 1
        BY <1>6, <3>1
      <3>3. k + ones = i - e + 1 /\ i \in Int
        BY <1>6, <3>1
      <3>4. k # 1
        BY <1>7, <3>2
      <3>5. i # e + ones
        BY <1>6, <3>4
      <3> HIDE DEF k
      <3>6. k <= MAX_CELL_BITS - ones /\ slice[k + ones] = 1
        BY <1>5, <3>2
      <3>7. i \in e .. e + MAX_CELL_BITS - 1 /\ i > e + ones
        BY <1>6, <3>1, <3>2, <3>3, <3>5, <3>6
      <3>8. slice[i - e + 1] = 1
        BY <3>3, <3>6
      <3> QED
        BY <3>7, <3>8, Zenon DEF OnesAt
    <2>2. ASSUME NEW i \in OnesAt(e, slice), i > e + ones
          PROVE  i \in OnesAt(e + ones, bitmap)
      <3>1. i \in e .. e + MAX_CELL_BITS - 1 /\ slice[i - e + 1] = 1
        BY DEF OnesAt
      <3> DEFINE k == i - (e + ones) + 1
      <3>2. k \in 1 .. MAX_CELL_BITS /\ k <= MAX_CELL_BITS - ones /\ k + ones = i - e + 1
        BY <1>6, <2>2, <3>1
      <3>3. i \in e + ones .. e + ones + MAX_CELL_BITS - 1
        BY <1>6, <2>2, <3>1
      <3>4. bitmap[k] = slice[k + ones]
        <4> HIDE DEF k
        <4> QED
          BY <1>5, <3>2
      <3>5. bitmap[k] = 1
        BY <3>1, <3>2, <3>4, Zenon
      <3> QED
        BY <3>3, <3>5, Zenon DEF OnesAt
    <2> QED
      BY <2>1, <2>2
  <1>9. AsSet(r) = [nextEmpty |-> e + ones, bitmap |-> OnesAt(e + ones, bitmap)]
    BY <1>4, AsSetIs DEF bitmap
  <1>10. AsSet(r) = q
    BY <1>1, <1>2, <1>8, <1>9, Zenon
  <1>11. IsBitmap(r)
    <2>1. e + ones \in Nat
      BY <1>6
    <2>2. r \in [nextEmpty : Nat, bitmap : CellBits]
      BY <1>4, <1>5, <2>1
    <2> QED
      BY <1>7, <2>2 DEF IsBitmap, bitmap
  <1> QED
    BY <1>10, <1>11 DEF q

\* set, bit by bit, marks its index and nothing else.
LEMMA SetIsExact ==
    ASSUME NEW p, IsBitmap(p), NEW index \in Nat, index <= POOOMaxSettableBit(p)
    PROVE  /\ IsBitmap(BitmapSet(p, index))
           /\ AsSet(BitmapSet(p, index)) = POOOSet(AsSet(p), index)
  <1> DEFINE e == p.nextEmpty
             k == index - e
             slice == ScutFirst(p.bitmap, k) \o <<1>> \o ScutLast(p.bitmap, MAX_CELL_BITS - k - 1)
  <1>1. e \in Nat /\ p.bitmap \in CellBits /\ MAX_CELL_BITS \in Nat \ {0}
    BY CellAssumption DEF IsBitmap
  <1>2. AsSet(p) = [nextEmpty |-> e, bitmap |-> OnesAt(e, p.bitmap)]
    BY AsSetIs
  <1>3. CASE index < e
    <2>1. BitmapSet(p, index) = p
      BY <1>3 DEF BitmapSet
    <2>2. POOOSet(AsSet(p), index) = AsSet(p)
      BY <1>2, <1>3 DEF POOOSet
    <2> QED
      BY <2>1, <2>2
  <1>4. CASE ~ (index < e)
    <2>1. BitmapSet(p, index) = BuildShifted(e, slice)
      BY <1>4 DEF BitmapSet
    <2>2. POOOSet(AsSet(p), index) = POOOAdvance(e, OnesAt(e, p.bitmap) \cup {index})
      BY <1>2, <1>4 DEF POOOSet
    <2>3. k \in 0 .. MAX_CELL_BITS /\ k + 1 \in k .. MAX_CELL_BITS
          /\ MAX_CELL_BITS - k - 1 = MAX_CELL_BITS - (k + 1) /\ (k + 1) - k = 1
      BY <1>1, <1>4 DEF POOOMaxSettableBit
    <2>4. <<1>> \in Seq({0, 1}) /\ Len(<<1>>) = 1 /\ \A i \in 1 .. 1 : <<1>>[i] = 1
      OBVIOUS
    <2>5. slice = ScutFirst(p.bitmap, k) \o <<1>> \o ScutLast(p.bitmap, MAX_CELL_BITS - (k + 1))
      BY <2>3
    <2> DEFINE bits == p.bitmap
    <2>6. /\ slice \in CellBits
          /\ \A i \in 1 .. MAX_CELL_BITS :
                 slice[i] = IF k < i /\ i <= k + 1 THEN 1 ELSE bits[i]
      <3> DEFINE one == <<1>>
      <3>1. one \in Seq({0, 1}) /\ Len(one) = (k + 1) - k /\ \A i \in 1 .. (k + 1) - k : one[i] = 1
        <4>1. one \in Seq({0, 1}) /\ Len(one) = 1 /\ \A i \in 1 .. 1 : one[i] = 1
          BY <2>4
        <4> HIDE DEF one, k
        <4> QED
          BY <2>3, <4>1, Zenon
      <3>2. slice = ScutFirst(bits, k) \o one \o ScutLast(bits, MAX_CELL_BITS - (k + 1))
        BY <2>5
      <3>3. bits \in CellBits
        BY <1>1
      <3> HIDE DEF one, k, slice, bits
      <3>4. IsSpliced(slice, bits, k, k + 1)
        BY <2>3, <3>1, <3>2, <3>3, Spliced, Zenon
      <3> QED
        BY <3>4, Zenon DEF IsSpliced
    <2>7. OnesAt(e, slice) = OnesAt(e, bits) \cup {index}
      <3>1. index \in e .. e + MAX_CELL_BITS - 1 /\ index - e + 1 = k + 1
        BY <1>1, <1>4 DEF POOOMaxSettableBit
      <3> HIDE DEF slice, bits
      <3>2. ASSUME NEW i \in e .. e + MAX_CELL_BITS - 1
            PROVE  slice[i - e + 1] = 1 <=> bits[i - e + 1] = 1 \/ i = index
        <4>1. i - e + 1 \in 1 .. MAX_CELL_BITS
          BY <1>1
        <4>2. slice[i - e + 1] = IF k < i - e + 1 /\ i - e + 1 <= k + 1 THEN 1 ELSE bits[i - e + 1]
          BY <2>6, <4>1
        <4>3. k < i - e + 1 /\ i - e + 1 <= k + 1 <=> i = index
          BY <1>1
        <4> QED
          BY <4>2, <4>3
      <3> HIDE DEF e, k
      <3> QED
        BY <3>1, <3>2 DEF OnesAt
    <2> HIDE DEF slice, e
    <2>8. IsBitmap(BuildShifted(e, slice)) /\ AsSet(BuildShifted(e, slice)) = POOOAdvance(e, OnesAt(e, slice))
      BY <1>1, <2>6, ShiftIsExact
    <2> QED
      BY <2>1, <2>2, <2>7, <2>8
  <1> QED
    BY <1>3, <1>4

\* unsafeSetBits, bit by bit, marks its half-open range and nothing else.
LEMMA RangeIsExact ==
    ASSUME NEW p, IsBitmap(p), NEW start \in InCell(p), NEW end \in Int,
           start <= end, end - 1 <= POOOMaxSettableBit(p)
    PROVE  /\ IsBitmap(BitmapUnsafeSetBits(p, start, end))
           /\ AsSet(BitmapUnsafeSetBits(p, start, end)) = POOOUnsafeSetBits(AsSet(p), start, end)
  <1> DEFINE e == p.nextEmpty
             bits == p.bitmap
             k == start - e
             last == end - e
             run == Bits(1, end - start)
             slice == ScutFirst(bits, k) \o run \o ScutLast(bits, MAX_CELL_BITS - last)
  <1>1. e \in Nat /\ bits \in CellBits /\ MAX_CELL_BITS \in Nat \ {0}
    BY CellAssumption DEF IsBitmap
  <1>2. AsSet(p) = [nextEmpty |-> e, bitmap |-> OnesAt(e, bits)]
    BY AsSetIs
  <1>3. BitmapUnsafeSetBits(p, start, end) = BuildShifted(e, slice)
    BY DEF BitmapUnsafeSetBits
  <1>4. POOOUnsafeSetBits(AsSet(p), start, end) = POOOAdvance(e, OnesAt(e, bits) \cup (start .. end - 1))
    BY <1>2 DEF POOOUnsafeSetBits
  <1>5. /\ start \in Nat /\ e <= start /\ start <= e + MAX_CELL_BITS - 1
        /\ end <= e + MAX_CELL_BITS /\ end - start \in Nat
    BY <1>1 DEF InCell, POOOMaxSettableBit
  <1>6. /\ k \in 0 .. MAX_CELL_BITS /\ last \in k .. MAX_CELL_BITS
        /\ end - start = last - k
    BY <1>1, <1>5
  <1>7. run \in Seq({0, 1}) /\ Len(run) = last - k /\ \A i \in 1 .. last - k : run[i] = 1
    <2>1. run \in Seq({0, 1}) /\ Len(run) = end - start /\ \A i \in 1 .. end - start : run[i] = 1
      BY <1>5, BitsAre
    <2> HIDE DEF run, last, k
    <2> QED
      BY <1>6, <2>1, Zenon
  <1>8. /\ slice \in CellBits
        /\ \A i \in 1 .. MAX_CELL_BITS :
               slice[i] = IF k < i /\ i <= last THEN 1 ELSE bits[i]
    <2>1. slice = ScutFirst(bits, k) \o run \o ScutLast(bits, MAX_CELL_BITS - last)
      OBVIOUS
    <2> HIDE DEF run, last, k, slice, bits
    <2>2. IsSpliced(slice, bits, k, last)
      BY <1>1, <1>6, <1>7, <2>1, Spliced, Zenon
    <2> QED
      BY <2>2, Zenon DEF IsSpliced
  <1>9. OnesAt(e, slice) = OnesAt(e, bits) \cup (start .. end - 1)
    <2>1. start .. end - 1 \subseteq e .. e + MAX_CELL_BITS - 1
      BY <1>1, <1>5
    <2> HIDE DEF slice, bits
    <2>2. ASSUME NEW i \in e .. e + MAX_CELL_BITS - 1
          PROVE  slice[i - e + 1] = 1 <=> bits[i - e + 1] = 1 \/ i \in start .. end - 1
      <3>1. i - e + 1 \in 1 .. MAX_CELL_BITS
        BY <1>1
      <3>2. slice[i - e + 1] = IF k < i - e + 1 /\ i - e + 1 <= last THEN 1 ELSE bits[i - e + 1]
        BY <1>8, <3>1
      <3>3. (k < i - e + 1 /\ i - e + 1 <= last) <=> i \in start .. end - 1
        BY <1>1, <1>5
      <3> QED
        BY <3>2, <3>3
    <2> HIDE DEF e
    <2> QED
      BY <2>1, <2>2 DEF OnesAt
  <1> HIDE DEF slice, e
  <1>10. IsBitmap(BuildShifted(e, slice)) /\ AsSet(BuildShifted(e, slice)) = POOOAdvance(e, OnesAt(e, slice))
    BY <1>1, <1>8, ShiftIsExact
  <1> QED
    BY <1>3, <1>4, <1>9, <1>10

\* Between calls the object is a cell of bits that starts with a zero.
LEMMA BitmapStaysWellFormed == BitmapSpec => []IsBitmap(self)
  <1>1. BitmapInit => IsBitmap(self)
    <2> SUFFICES ASSUME BitmapInit
                 PROVE  IsBitmap(self)
      OBVIOUS
    <2>1. Bits(0, MAX_CELL_BITS) \in CellBits /\ Bits(0, MAX_CELL_BITS)[1] = 0
      BY CellAssumption DEF Bits, CellBits
    <2> QED
      BY <2>1 DEF BitmapInit, IsBitmap
  <1>2. IsBitmap(self) /\ [BitmapNext]_self => IsBitmap(self)'
    <2> SUFFICES ASSUME IsBitmap(self), [BitmapNext]_self
                 PROVE  IsBitmap(self')
      OBVIOUS
    <2>0. self.nextEmpty \in Nat /\ MAX_CELL_BITS \in Nat
      BY CellAssumption DEF IsBitmap
    <2>1. ASSUME NEW index \in 1 .. MaxIndex, Mark(index)
          PROVE  IsBitmap(self')
      <3>1. index \in Nat /\ index <= POOOMaxSettableBit(self)
        BY <2>0, <2>1, CellAssumption DEF Mark, InCell, POOOMaxSettableBit
      <3> QED
        BY <2>1, <3>1, SetIsExact DEF Mark
    <2>2. ASSUME NEW start \in 1 .. MaxIndex, NEW end \in 1 .. MaxIndex, MarkRange(start, end)
          PROVE  IsBitmap(self')
      BY <2>2, RangeIsExact DEF MarkRange
    <2>3. CASE UNCHANGED self
      BY <2>3
    <2> QED
      BY <2>1, <2>2, <2>3 DEF BitmapNext
  <1> QED
    BY <1>1, <1>2, PTL DEF BitmapSpec

\* The bit operations of PipelinedOutOfOrder.fc compute, for a cell of any
\* width, the sets that the channel and the connection rely on.
THEOREM BitsAreExact == BitmapSpec => []MarksAreExact
  <1>1. ASSUME IsBitmap(self)
        PROVE  MarksAreExact
    <2>0. self.nextEmpty \in Nat /\ self.bitmap[1] = 0 /\ MAX_CELL_BITS \in Nat
      BY <1>1, CellAssumption DEF IsBitmap
    <2>1. ASSUME NEW index \in 1 .. POOOMaxSettableBit(self)
          PROVE  AsSet(BitmapSet(self, index)) = POOOSet(AsSet(self), index)
      <3>1. index \in Nat /\ index <= POOOMaxSettableBit(self)
        BY <2>0 DEF POOOMaxSettableBit
      <3> QED
        BY <1>1, <3>1, SetIsExact
    <2>2. ASSUME NEW start \in InCell(self),
                 NEW end \in InCell(self) \cup {self.nextEmpty + MAX_CELL_BITS}, start <= end
          PROVE  AsSet(BitmapUnsafeSetBits(self, start, end))
                     = POOOUnsafeSetBits(AsSet(self), start, end)
      <3>1. end \in Int /\ end - 1 <= POOOMaxSettableBit(self)
        BY <2>0 DEF InCell, POOOMaxSettableBit
      <3> QED
        BY <1>1, <2>2, <3>1, RangeIsExact
    <2>3. ~ IsBitSet(self, self.nextEmpty)
      <3>1. self.nextEmpty - self.nextEmpty + 1 = 1
        BY <2>0
      <3> QED
        BY <2>0, <3>1 DEF IsBitSet
    <2> QED
      BY <2>1, <2>2, <2>3 DEF MarksAreExact
  <1> QED
    BY <1>1, BitmapStaysWellFormed, PTL
=============================================================================
