--------------------------- MODULE DataStructures ---------------------------
(***************************************************************************)
(* The two fixed-size containers of ton/lz-framework/src/funC++/           *)
(* dataStructures that the channel and the ULN connection keep in their    *)
(* contract storage:                                                       *)
(*                                                                         *)
(*   - PipelinedOutOfOrder (POOO): the set of nonces already marked, kept  *)
(*     as the first unmarked nonce and a one-cell bitmap of the marks at   *)
(*     and after it;                                                       *)
(*   - DeterministicInsertionCircularQueue (DICQ): a map from keys to an   *)
(*     object and a status with one slot per residue modulo MAX_CELL_BITS. *)
(*                                                                         *)
(* A POOO is a record [nextEmpty, bitmap] whose bitmap holds the absolute  *)
(* positions of the ones; PipelinedOutOfOrderBitmap keeps the cell bit by  *)
(* bit and checks that it computes what the operators below say. A DICQ is *)
(* a function from slots to leaves; the 4-ary tree of cells is data.       *)
(***************************************************************************)
EXTENDS Integers, FiniteSetsExt

CONSTANTS
    MAX_CELL_BITS,  \* bits of a cell, the width of every window: 1023 on TON
    EmptyCell       \* the cell with no bits and no references

ASSUME CellAssumption == MAX_CELL_BITS \in Nat \ {0}

-----------------------------------------------------------------------------
(* PipelinedOutOfOrder *)

PipelinedOutOfOrder == [nextEmpty : Nat, bitmap : SUBSET Nat]

POOONew == [nextEmpty |-> 1, bitmap |-> {}]

POOOMaxSettableBit(p) == p.nextEmpty + MAX_CELL_BITS - 1

POOOIsBitSet(p, index) == index \in p.bitmap

\* An index the bitmap has a bit for, or one that is already behind it.
POOOSettable(p, index) == index <= POOOMaxSettableBit(p)

\* Dropping the leading ones of the bitmap: nextEmpty becomes the first zero.
POOOAdvance(nextEmpty, marks) ==
    LET first == Min((nextEmpty .. nextEmpty + MAX_CELL_BITS) \ marks)
    IN  [nextEmpty |-> first, bitmap |-> {i \in marks : i > first}]

POOOSet(p, index) ==
    IF index < p.nextEmpty
    THEN p
    ELSE POOOAdvance(p.nextEmpty, p.bitmap \cup {index})

POOOUnsafeSetBits(p, start, end) ==
    POOOAdvance(p.nextEmpty, p.bitmap \cup (start .. end - 1))

\* Every nonce marked so far, the prefix included.
POOOMarked(p, index) == index < p.nextEmpty \/ index \in p.bitmap

-----------------------------------------------------------------------------
(* DeterministicInsertionCircularQueue *)

InvalidKey == -1

\* What get reports of a slot that holds nothing.
Vacant == [key |-> InvalidKey, status |-> "invalid", object |-> EmptyCell]

Slots == 0 .. MAX_CELL_BITS - 1
SlotOf(key) == key % MAX_CELL_BITS

DICQCreate == [slot \in Slots |-> Vacant]

\* get returns the leaf of the key's slot, whoever's key it holds.
DICQGet(queue, key) == queue[SlotOf(key)]

DICQExists(queue, key) == DICQGet(queue, key).key # InvalidKey

DICQSet(queue, key, object, status) ==
    [queue EXCEPT ![SlotOf(key)] =
        [key |-> key, status |-> status, object |-> object]]

DICQDelete(queue, key) == [queue EXCEPT ![SlotOf(key)] = Vacant]
=============================================================================
