---------------------- MODULE PipelinedOutOfOrderBitmap ----------------------
(***************************************************************************)
(* PipelinedOutOfOrder.fc bit by bit: a cell of MAX_CELL_BITS bits whose   *)
(* first bit stands for nextEmpty. set and unsafeSetBits cut the cell in   *)
(* three, put ones in the middle, and shift the leading ones out, filling  *)
(* up with zeroes. DataStructures says what the channel relies on; the     *)
(* properties below compare the two after every sequence of calls.         *)
(***************************************************************************)
EXTENDS DataStructures, Sequences

CONSTANT MaxIndex   \* bound: the largest nonce ever marked

ASSUME BitmapAssumption == MaxIndex \in Nat

VARIABLE self       \* the POOO object: [nextEmpty, bitmap]

Bits(bit, length) == [i \in 1 .. length |-> bit]

\* The first `length` bits, and the last; more than there are is a throw.
ScutFirst(slice, length) == SubSeq(slice, 1, length)
ScutLast(slice, length)  == SubSeq(slice, Len(slice) - length + 1, Len(slice))

\* ldones: how many ones the slice starts with.
LeadingOnes(slice) ==
    Max({k \in 0 .. Len(slice) : \A i \in 1 .. k : slice[i] = 1})

BuildShifted(nextEmpty, slice) ==
    LET ones == LeadingOnes(slice)
    IN  [nextEmpty |-> nextEmpty + ones,
         bitmap    |-> ScutLast(slice, Len(slice) - ones) \o Bits(0, ones)]

IsBitSet(p, absoluteIdx) == p.bitmap[absoluteIdx - p.nextEmpty + 1] = 1

BitmapSet(p, absoluteIndex) ==
    LET index == absoluteIndex - p.nextEmpty
    IN  IF absoluteIndex < p.nextEmpty THEN p
        ELSE BuildShifted(p.nextEmpty,
                ScutFirst(p.bitmap, index) \o <<1>>
                    \o ScutLast(p.bitmap, MAX_CELL_BITS - index - 1))

\* Mutant: the end of the range is marked too.
BitmapUnsafeSetBitsClosed(p, start, end) ==
    BuildShifted(p.nextEmpty,
        ScutFirst(p.bitmap, start - p.nextEmpty) \o Bits(1, end - start + 1)
            \o ScutLast(p.bitmap, MAX_CELL_BITS - (end - p.nextEmpty) - 1))

BitmapUnsafeSetBits(p, start, end) ==
    BuildShifted(p.nextEmpty,
        ScutFirst(p.bitmap, start - p.nextEmpty) \o Bits(1, end - start)
            \o ScutLast(p.bitmap, MAX_CELL_BITS - (end - p.nextEmpty)))

BitmapInit == self = [nextEmpty |-> 1, bitmap |-> Bits(0, MAX_CELL_BITS)]

\* The indices for which neither cut asks for more bits than the cell has.
InCell(p) == p.nextEmpty .. p.nextEmpty + MAX_CELL_BITS - 1

Mark(index) ==
    /\ index < self.nextEmpty \/ index \in InCell(self)
    /\ self' = BitmapSet(self, index)

MarkRange(start, end) ==
    /\ start \in InCell(self)
    /\ start <= end
    /\ end - 1 <= POOOMaxSettableBit(self)
    /\ self' = BitmapUnsafeSetBits(self, start, end)

BitmapNext ==
    \/ \E index \in 1 .. MaxIndex : Mark(index)
    \/ \E start, end \in 1 .. MaxIndex : MarkRange(start, end)

BitmapSpec == BitmapInit /\ [][BitmapNext]_self

-----------------------------------------------------------------------------
(* Properties *)

\* The object as DataStructures sees it: the positions of the ones.
AsSet(p) ==
    [nextEmpty |-> p.nextEmpty,
     bitmap    |-> {i \in InCell(p) : IsBitSet(p, i)}]

\* In any bitmap that calls can lead to, the cuts and shifts of set and
\* unsafeSetBits mark exactly their index or half-open range, and nextEmpty is
\* really empty afterwards: the short circuits of the channel rest on that.
MarksAreExact ==
    /\ \A index \in 1 .. POOOMaxSettableBit(self) :
           AsSet(BitmapSet(self, index)) = POOOSet(AsSet(self), index)
    /\ \A start \in InCell(self), end \in InCell(self) \cup {self.nextEmpty + MAX_CELL_BITS} :
           start <= end =>
               AsSet(BitmapUnsafeSetBits(self, start, end))
                   = POOOUnsafeSetBits(AsSet(self), start, end)
    /\ ~ IsBitSet(self, self.nextEmpty)
=============================================================================
