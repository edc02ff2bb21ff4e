------------------------ MODULE ChannelReceiveProofs ------------------------
(***************************************************************************)
(* Proofs about ChannelReceive for every width of the window, every number *)
(* of nonces, packets, connections and configurations. First the changes   *)
(* of the storage one by one (each preserves StorageInv and leaves the     *)
(* other nonces alone), then the actions, then the theorems.               *)
(***************************************************************************)
EXTENDS ChannelReceive, DataStructuresProofs

-----------------------------------------------------------------------------
(* The storage *)

LeafType == [key    : Nat \cup {InvalidKey},
             status : {"invalid", "committed", "executing"},
             object : Messages \cup {EmptyCell}]

\* The components of a storage record and of a POOO.
LEMMA StorageComponents ==
    ASSUME NEW s \in Storage
    PROVE  /\ s.commitPOOO \in PipelinedOutOfOrder
           /\ s.executePOOO \in PipelinedOutOfOrder
           /\ s.commitPOOO.nextEmpty \in Nat
           /\ s.commitPOOO.bitmap \in SUBSET Nat
           /\ s.executePOOO.nextEmpty \in Nat
           /\ s.executePOOO.bitmap \in SUBSET Nat
           /\ s.executionQueue \in [Slots -> LeafType]
  BY DEF Storage, PipelinedOutOfOrder, LeafType

\* A nonce that passes the window check is not marked by the execution bitmap
\* and fits the commit bitmap, which starts at or after it.
LEMMA CommittableFits ==
    ASSUME NEW s, StorageInv(s), NEW n \in Nat, OptimizedNonceCommittable(s, n)
    PROVE  /\ POOOSettable(s.commitPOOO, n)
           /\ ~ POOOMarked(s.executePOOO, n)
  BY StorageComponents, CellAssumption
     DEF StorageInv, FrontiersOrdered, OptimizedNonceCommittable, POOOSettable,
         POOOMaxSettableBit, POOOMarked, POOOIsBitSet

\* Committing a nonce inside the window moves the commit frontier only over
\* committed nonces and keeps the marks beyond it inside the window.
LEMMA CommitFrontiers ==
    ASSUME NEW s, StorageInv(s), NEW n \in Nat, OptimizedNonceCommittable(s, n),
           NEW p, p = POOOSet(s.commitPOOO, n)
    PROVE  /\ p \in PipelinedOutOfOrder
           /\ s.commitPOOO.nextEmpty <= p.nextEmpty
           /\ \A i \in p.bitmap :
                 p.nextEmpty < i /\ i <= POOOMaxSettableBit(s.executePOOO)
           /\ \A i \in Nat : POOOMarked(p, i) <=> POOOMarked(s.commitPOOO, i) \/ i = n
  <1>1. /\ s.commitPOOO \in PipelinedOutOfOrder
        /\ s.commitPOOO.nextEmpty \in Nat
        /\ s.executePOOO.nextEmpty \in Nat
        /\ s.commitPOOO.bitmap \in SUBSET Nat
    BY StorageComponents DEF StorageInv
  <1>2. \A i \in s.commitPOOO.bitmap :
           /\ s.commitPOOO.nextEmpty < i
           /\ i <= POOOMaxSettableBit(s.executePOOO)
           /\ i <= POOOMaxSettableBit(s.commitPOOO)
    BY <1>1, CellAssumption DEF StorageInv, FrontiersOrdered, POOOMaxSettableBit
  <1>3. /\ p \in PipelinedOutOfOrder
        /\ s.commitPOOO.nextEmpty <= p.nextEmpty
        /\ \A i \in p.bitmap : p.nextEmpty < i /\ (i \in s.commitPOOO.bitmap \/ i = n)
        /\ \A i \in Nat : POOOMarked(p, i) <=> POOOMarked(s.commitPOOO, i) \/ i = n
    BY <1>1, <1>2, CommittableFits, SetLemma
  <1>4. n <= POOOMaxSettableBit(s.executePOOO)
    BY DEF OptimizedNonceCommittable
  <1> QED
    BY <1>2, <1>3, <1>4

\* A new leaf for nonce n, in the slot of n; the leaves of other slots, and so
\* every executing nonce but n, are as before.
LEMMA CommitPreserves ==
    ASSUME NEW s, StorageInv(s), NEW n \in Nat, OptimizedNonceCommittable(s, n),
           NEW message \in Messages \cup {EmptyCell},
           NEW t, t = CommitPacket(s, n, message)
    PROVE  /\ StorageInv(t)
           /\ t.executePOOO = s.executePOOO
           /\ t.executionQueue = DICQSet(s.executionQueue, n, message, "committed")
  <1> DEFINE p == POOOSet(s.commitPOOO, n)
             q == DICQSet(s.executionQueue, n, message, "committed")
             leaf == [key |-> n, status |-> "committed", object |-> message]
  <1>1. /\ s \in Storage
        /\ s.commitPOOO.nextEmpty \in Nat
        /\ s.executePOOO.nextEmpty \in Nat
        /\ s.executePOOO.bitmap \in SUBSET Nat
        /\ s.executionQueue \in [Slots -> LeafType]
    BY StorageComponents DEF StorageInv
  <1>2. /\ p \in PipelinedOutOfOrder
        /\ s.commitPOOO.nextEmpty <= p.nextEmpty
        /\ \A i \in p.bitmap :
              p.nextEmpty < i /\ i <= POOOMaxSettableBit(s.executePOOO)
        /\ \A i \in Nat : POOOMarked(p, i) <=> POOOMarked(s.commitPOOO, i) \/ i = n
    BY CommitFrontiers
  <1>3. p.nextEmpty \in Nat
    BY <1>2 DEF PipelinedOutOfOrder
  <1>4. SlotOf(n) \in Slots
    BY SlotType
  <1>5. leaf \in LeafType
    BY DEF LeafType
  <1>6. /\ q \in [Slots -> LeafType]
        /\ q[SlotOf(n)] = leaf
        /\ \A slot \in Slots : slot # SlotOf(n) => q[slot] = s.executionQueue[slot]
    BY <1>1, <1>4, <1>5 DEF DICQSet
  <1> HIDE DEF p, q, leaf
  <1>7. t = [s EXCEPT !.commitPOOO = p, !.executionQueue = q]
    BY DEF CommitPacket, p, q
  <1>8. /\ t \in Storage
        /\ t.commitPOOO = p
        /\ t.executePOOO = s.executePOOO
        /\ t.executionQueue = q
    BY <1>1, <1>2, <1>6, <1>7 DEF Storage, LeafType
  <1>9. FrontiersOrdered(t)
    BY <1>1, <1>2, <1>3, <1>8 DEF StorageInv, FrontiersOrdered
  <1>10. ASSUME NEW slot \in Slots
         PROVE  LeafInWindow(t, slot)
    <2>1. CASE slot = SlotOf(n)
      BY <2>1, <1>2, <1>6, <1>8 DEF LeafInWindow, leaf, OptimizedNonceCommittable, POOOIsBitSet
    <2>2. CASE slot # SlotOf(n)
      <3>1. LeafInWindow(s, slot)
        BY DEF StorageInv
      <3>2. t.executionQueue[slot] = s.executionQueue[slot]
        BY <2>2, <1>6, <1>8
      <3>3. CASE s.executionQueue[slot] = Vacant
        BY <3>2, <3>3 DEF LeafInWindow
      <3>4. CASE s.executionQueue[slot] # Vacant
        BY <1>1, <1>2, <1>3, <1>8, <3>1, <3>2, <3>4 DEF LeafInWindow
      <3> QED
        BY <3>3, <3>4
    <2> QED
      BY <2>1, <2>2
  <1> QED
    BY <1>8, <1>9, <1>10 DEF StorageInv, q

\* Changing the status of the packet that the slot of n holds for n.
LEMMA SetStatusPreserves ==
    ASSUME NEW s, StorageInv(s), NEW n \in Nat, Leaf(s, n).key = n,
           NEW status \in {"committed", "executing"},
           status = "executing" => n < s.commitPOOO.nextEmpty,
           NEW t, t = SetStatus(s, n, status)
    PROVE  /\ StorageInv(t)
           /\ t.commitPOOO = s.commitPOOO
           /\ t.executePOOO = s.executePOOO
           /\ t.executionQueue = DICQSet(s.executionQueue, n, Leaf(s, n).object, status)
  <1> DEFINE leaf == [key |-> n, status |-> status, object |-> Leaf(s, n).object]
             q    == DICQSet(s.executionQueue, n, Leaf(s, n).object, status)
  <1>1. /\ s \in Storage
        /\ s.executionQueue \in [Slots -> LeafType]
        /\ SlotOf(n) \in Slots
    BY StorageComponents, SlotType DEF StorageInv
  <1>2. Leaf(s, n) = s.executionQueue[SlotOf(n)] /\ Leaf(s, n) \in LeafType
    BY <1>1 DEF Leaf, DICQGet
  <1>3. leaf \in LeafType
    BY <1>2 DEF LeafType
  <1>4. /\ q \in [Slots -> LeafType]
        /\ q[SlotOf(n)] = leaf
        /\ \A slot \in Slots : slot # SlotOf(n) => q[slot] = s.executionQueue[slot]
    BY <1>1, <1>3 DEF DICQSet
  <1>5. leaf.key = n /\ leaf.status = status
    OBVIOUS
  <1> HIDE DEF q, leaf
  <1>6. t = [s EXCEPT !.executionQueue = q]
    BY DEF SetStatus, q
  <1>7. /\ t \in Storage
        /\ t.commitPOOO = s.commitPOOO
        /\ t.executePOOO = s.executePOOO
        /\ t.executionQueue = q
    BY <1>1, <1>4, <1>6 DEF Storage, LeafType
  <1>8. FrontiersOrdered(t)
    BY <1>7 DEF StorageInv, FrontiersOrdered
  <1>9. ASSUME NEW slot \in Slots
        PROVE  LeafInWindow(t, slot)
    <2>1. LeafInWindow(s, slot)
      BY DEF StorageInv
    <2>2. CASE slot = SlotOf(n)
      <3>1. s.executionQueue[slot].key = n /\ s.executionQueue[slot] # Vacant
        BY <1>2, <2>2 DEF Vacant, InvalidKey
      <3> QED
        BY <1>4, <1>5, <1>7, <2>1, <2>2, <3>1 DEF LeafInWindow
    <2>3. CASE slot # SlotOf(n)
      BY <1>4, <1>7, <2>1, <2>3 DEF LeafInWindow
    <2> QED
      BY <2>2, <2>3
  <1> QED
    BY <1>7, <1>8, <1>9 DEF StorageInv, q

\* Executing a packet: the execution window moves on, but not past the commit
\* frontier nor past a packet that is still in the queue.
LEMMA MarkExecutedPreserves ==
    ASSUME NEW s, StorageInv(s), NEW n \in Nat, IsExecuting(s, n),
           NEW t, t = MarkExecuted(s, n)
    PROVE  /\ StorageInv(t)
           /\ t.commitPOOO = s.commitPOOO
           /\ t.executionQueue = DICQDelete(s.executionQueue, n)
           /\ \A i \in Nat :
                 POOOMarked(t.executePOOO, i) <=> POOOMarked(s.executePOOO, i) \/ i = n
  <1> DEFINE p == POOOSet(s.executePOOO, n)
             q == DICQDelete(s.executionQueue, n)
  <1>1. /\ s \in Storage
        /\ s.commitPOOO.nextEmpty \in Nat
        /\ s.commitPOOO.bitmap \in SUBSET Nat
        /\ s.executePOOO \in PipelinedOutOfOrder
        /\ s.executePOOO.nextEmpty \in Nat
        /\ s.executePOOO.bitmap \in SUBSET Nat
        /\ s.executionQueue \in [Slots -> LeafType]
        /\ SlotOf(n) \in Slots
    BY StorageComponents, SlotType DEF StorageInv
  <1>2. /\ n <= POOOMaxSettableBit(s.executePOOO)
        /\ n < s.commitPOOO.nextEmpty
    <2>1. LeafInWindow(s, SlotOf(n)) /\ s.executionQueue[SlotOf(n)] # Vacant
      BY <1>1 DEF StorageInv, IsExecuting, Leaf, DICQGet, Vacant
    <2> QED
      BY <2>1 DEF LeafInWindow, IsExecuting, Leaf, DICQGet
  <1>3. \A i \in s.executePOOO.bitmap :
           /\ s.executePOOO.nextEmpty < i
           /\ i < s.commitPOOO.nextEmpty
           /\ i <= POOOMaxSettableBit(s.executePOOO)
    BY DEF StorageInv, FrontiersOrdered
  <1>4. /\ p \in PipelinedOutOfOrder
        /\ s.executePOOO.nextEmpty <= p.nextEmpty
        /\ \A i \in p.bitmap : p.nextEmpty < i /\ (i \in s.executePOOO.bitmap \/ i = n)
        /\ \A i \in Nat : POOOMarked(p, i) <=> POOOMarked(s.executePOOO, i) \/ i = n
    BY <1>1, <1>2, <1>3, SetLemma DEF POOOSettable
  <1>5. p.nextEmpty \in Nat /\ p.bitmap \in SUBSET Nat
    BY <1>4 DEF PipelinedOutOfOrder
  <1>6. p.nextEmpty <= s.commitPOOO.nextEmpty
    <2> SUFFICES ASSUME s.commitPOOO.nextEmpty < p.nextEmpty
                 PROVE  FALSE
      BY <1>1, <1>5
    <2>1. POOOMarked(p, s.commitPOOO.nextEmpty)
      BY DEF POOOMarked
    <2>2. ~ POOOMarked(s.executePOOO, s.commitPOOO.nextEmpty)
      BY <1>1, <1>3 DEF POOOMarked, StorageInv, FrontiersOrdered
    <2> QED
      BY <1>1, <1>2, <1>4, <2>1, <2>2
  <1>7. /\ q \in [Slots -> LeafType]
        /\ q[SlotOf(n)] = Vacant
        /\ \A slot \in Slots : slot # SlotOf(n) => q[slot] = s.executionQueue[slot]
    BY <1>1 DEF DICQDelete, LeafType, Vacant
  <1> HIDE DEF p, q
  <1>8. t = [s EXCEPT !.executePOOO = p, !.executionQueue = q]
    BY DEF MarkExecuted, p, q
  <1>9. /\ t \in Storage
        /\ t.commitPOOO = s.commitPOOO
        /\ t.executePOOO = p
        /\ t.executionQueue = q
    BY <1>1, <1>4, <1>7, <1>8 DEF Storage, LeafType
  <1>10. POOOMaxSettableBit(s.executePOOO) <= POOOMaxSettableBit(p)
    BY <1>1, <1>4, <1>5, CellAssumption DEF POOOMaxSettableBit
  <1>11. POOOMaxSettableBit(s.executePOOO) \in Nat /\ POOOMaxSettableBit(p) \in Nat
    BY <1>1, <1>5, CellAssumption DEF POOOMaxSettableBit
  <1>12. FrontiersOrdered(t)
    <2>1. \A i \in p.bitmap : i < s.commitPOOO.nextEmpty /\ i <= POOOMaxSettableBit(p)
      BY <1>1, <1>2, <1>3, <1>4, <1>5, <1>10, <1>11
    <2>2. \A i \in s.commitPOOO.bitmap :
             s.commitPOOO.nextEmpty < i /\ i <= POOOMaxSettableBit(p)
      BY <1>1, <1>10, <1>11 DEF StorageInv, FrontiersOrdered
    <2>3. p.nextEmpty >= 1
      BY <1>1, <1>4, <1>5 DEF StorageInv, FrontiersOrdered
    <2> QED
      BY <1>4, <1>6, <1>9, <2>1, <2>2, <2>3 DEF FrontiersOrdered
  <1>13. ASSUME NEW slot \in Slots
         PROVE  LeafInWindow(t, slot)
    <2>1. CASE slot = SlotOf(n)
      BY <1>7, <1>9, <2>1 DEF LeafInWindow
    <2>2. CASE slot # SlotOf(n)
      <3> DEFINE leaf == s.executionQueue[slot]
      <3>1. LeafInWindow(s, slot) /\ t.executionQueue[slot] = leaf
        BY <1>7, <1>9, <2>2 DEF StorageInv
      <3>2. CASE leaf = Vacant
        BY <3>1, <3>2 DEF LeafInWindow
      <3>3. CASE leaf # Vacant
        <4>1. /\ leaf.key \in Nat
              /\ leaf.key # n
              /\ leaf.key <= POOOMaxSettableBit(s.executePOOO)
              /\ ~ POOOMarked(s.executePOOO, leaf.key)
          BY <1>1, <2>2, <3>1, <3>3 DEF LeafInWindow, POOOMarked
        <4>2. ~ POOOMarked(p, leaf.key)
          BY <1>4, <4>1
        <4>3. /\ leaf.key >= p.nextEmpty
              /\ leaf.key \notin p.bitmap
              /\ leaf.key <= POOOMaxSettableBit(p)
          BY <1>5, <1>10, <1>11, <4>1, <4>2 DEF POOOMarked
        <4> QED
          BY <1>9, <3>1, <3>3, <4>3 DEF LeafInWindow
      <3> QED
        BY <3>2, <3>3
    <2> QED
      BY <2>1, <2>2
  <1> QED
    BY <1>4, <1>9, <1>12, <1>13 DEF StorageInv, q

\* Nilify: the nonce is committed, its slot is emptied.
LEMMA NilifyPreserves ==
    ASSUME NEW s, StorageInv(s), NEW n \in Nat, OptimizedNonceCommittable(s, n),
           NEW t, t = [CommitFakePacket(s, n) EXCEPT
                          !.executionQueue = DICQDelete(s.executionQueue, n)]
    PROVE  /\ StorageInv(t)
           /\ t.executePOOO = s.executePOOO
           /\ t.executionQueue = DICQDelete(s.executionQueue, n)
  <1> DEFINE c == CommitPacket(s, n, EmptyCell)
             q == DICQDelete(s.executionQueue, n)
  <1>1. StorageInv(c) /\ c.executePOOO = s.executePOOO
        /\ c.executionQueue = DICQSet(s.executionQueue, n, EmptyCell, "committed")
    BY CommitPreserves
  <1>2. /\ s.executionQueue \in [Slots -> LeafType]
        /\ SlotOf(n) \in Slots
        /\ c \in Storage
    BY <1>1, StorageComponents, SlotType DEF StorageInv
  <1>3. /\ q \in [Slots -> LeafType]
        /\ q[SlotOf(n)] = Vacant
        /\ \A slot \in Slots : slot # SlotOf(n) => q[slot] = c.executionQueue[slot]
    BY <1>1, <1>2 DEF DICQDelete, DICQSet, LeafType, Vacant
  <1>4. t = [c EXCEPT !.executionQueue = q]
    BY DEF CommitFakePacket
  <1> HIDE DEF c, q
  <1>5. /\ t \in Storage
        /\ t.commitPOOO = c.commitPOOO
        /\ t.executePOOO = c.executePOOO
        /\ t.executionQueue = q
    BY <1>2, <1>3, <1>4 DEF Storage, LeafType
  <1>6. FrontiersOrdered(t)
    BY <1>1, <1>5 DEF StorageInv, FrontiersOrdered
  <1>7. ASSUME NEW slot \in Slots
        PROVE  LeafInWindow(t, slot)
    BY <1>1, <1>3, <1>5 DEF StorageInv, LeafInWindow
  <1> QED
    BY <1>1, <1>5, <1>6, <1>7 DEF StorageInv, q

\* A packet that is executing is not executed, and is in the committed prefix.
LEMMA ExecutingIsLive ==
    ASSUME NEW s, StorageInv(s), NEW n \in Nat, Leaf(s, n).key = n
    PROVE  /\ ~ POOOMarked(s.executePOOO, n)
           /\ n >= s.executePOOO.nextEmpty
           /\ n <= POOOMaxSettableBit(s.executePOOO)
           /\ POOOMarked(s.commitPOOO, n)
           /\ IsExecuting(s, n) => n < s.commitPOOO.nextEmpty
  <1>1. /\ SlotOf(n) \in Slots
        /\ s.executePOOO.nextEmpty \in Nat
    BY SlotType, StorageComponents DEF StorageInv
  <1>2. LeafInWindow(s, SlotOf(n)) /\ s.executionQueue[SlotOf(n)] # Vacant
    BY <1>1 DEF StorageInv, Leaf, DICQGet, Vacant, InvalidKey
  <1> QED
    BY <1>1, <1>2 DEF LeafInWindow, Leaf, DICQGet, POOOMarked, IsExecuting

\* A change of the slot of n touches no other executing nonce, when the slot
\* belongs to n or to a packet that is not executing.
KeepsOthers(s, t, n) ==
    \A k \in Nat \ {n} :
        IsExecuting(s, k) => IsExecuting(t, k) /\ Leaf(t, k).object = Leaf(s, k).object

LEMMA OthersKeepExecuting ==
    ASSUME NEW s, StorageInv(s), NEW n \in Nat, NEW t,
           Leaf(s, n).status # "executing" \/ Leaf(s, n).key = n
    PROVE  /\ \A object, status :
                 t.executionQueue = DICQSet(s.executionQueue, n, object, status)
                     => KeepsOthers(s, t, n)
           /\ t.executionQueue = DICQDelete(s.executionQueue, n) => KeepsOthers(s, t, n)
  <1>1. /\ s.executionQueue \in [Slots -> LeafType]
        /\ SlotOf(n) \in Slots
    BY StorageComponents, SlotType DEF StorageInv
  <1>2. ASSUME NEW k \in Nat \ {n}, IsExecuting(s, k)
        PROVE  SlotOf(k) # SlotOf(n) /\ SlotOf(k) \in Slots
    BY <1>2, SlotType DEF IsExecuting, Leaf, DICQGet
  <1>3. ASSUME NEW object, NEW status,
               t.executionQueue = DICQSet(s.executionQueue, n, object, status)
        PROVE  KeepsOthers(s, t, n)
    BY <1>1, <1>2, <1>3 DEF KeepsOthers, IsExecuting, Leaf, DICQGet, DICQSet
  <1>4. ASSUME t.executionQueue = DICQDelete(s.executionQueue, n)
        PROVE  KeepsOthers(s, t, n)
    BY <1>1, <1>2, <1>4 DEF KeepsOthers, IsExecuting, Leaf, DICQGet, DICQDelete
  <1> QED
    BY <1>3, <1>4

\* What a change of the slot of n makes of n.
LEMMA OwnLeaf ==
    ASSUME NEW s, StorageInv(s), NEW n \in Nat, NEW t, NEW object, NEW status
    PROVE  /\ t.executionQueue = DICQSet(s.executionQueue, n, object, status)
                 => Leaf(t, n) = [key |-> n, status |-> status, object |-> object]
           /\ t.executionQueue = DICQDelete(s.executionQueue, n)
                 => Leaf(t, n) = Vacant
  BY StorageComponents, SlotType DEF StorageInv, Leaf, DICQGet, DICQSet, DICQDelete

\* A real packet put into a slot, or a slot emptied, keeps the packets real.
LEMMA RealPacketsPreserved ==
    ASSUME NEW s, StorageInv(s), RealPackets(s), NEW n \in Nat, NEW t
    PROVE  /\ \A object \in Messages : \A status :
                 t.executionQueue = DICQSet(s.executionQueue, n, object, status)
                     => RealPackets(t)
           /\ t.executionQueue = DICQDelete(s.executionQueue, n) => RealPackets(t)
  <1>1. /\ s.executionQueue \in [Slots -> LeafType]
        /\ SlotOf(n) \in Slots
    BY StorageComponents, SlotType DEF StorageInv
  <1> QED
    BY <1>1 DEF RealPackets, DICQSet, DICQDelete, Vacant

\* The two versions of the committable test agree: the short circuit asks of
\* the first unexecuted nonce what the general test asks of every nonce.
LEMMA CommittableTests ==
    ASSUME NEW s, StorageInv(s), NEW n
    PROVE  NonceCommittable(s, n) <=> OptimizedNonceCommittable(s, n)
  <1>1. s.executePOOO.nextEmpty \in Nat
    BY StorageComponents DEF StorageInv
  <1>2. ~ POOOIsBitSet(s.executePOOO, s.executePOOO.nextEmpty)
    BY <1>1 DEF StorageInv, FrontiersOrdered, POOOIsBitSet
  <1>3. s.executePOOO.nextEmpty <= POOOMaxSettableBit(s.executePOOO)
    BY <1>1, CellAssumption DEF POOOMaxSettableBit
  <1> QED
    BY <1>1, <1>2, <1>3 DEF NonceCommittable, OptimizedNonceCommittable

-----------------------------------------------------------------------------
(* The messages in flight *)

\* A step that touches no message, delivery or burn of nonce k, and neither
\* unmarks k nor takes an executing k out of its slot.
Untouched(k) ==
    /\ \A message \in Messages \cup {EmptyCell} :
           Execute(k, message) \in toOApp' => Execute(k, message) \in toOApp
    /\ \A success \in BOOLEAN :
           Callback(k, success) \in toChannel' <=> Callback(k, success) \in toChannel
    /\ deliveries'[k] = deliveries[k]
    /\ k \in burned' <=> k \in burned
    /\ POOOMarked(storage.executePOOO, k) => POOOMarked(storage'.executePOOO, k)
    /\ IsExecuting(storage, k) =>
           /\ IsExecuting(storage', k)
           /\ Leaf(storage', k).object = Leaf(storage, k).object

LEMMA InFlightFrame ==
    ASSUME NEW k \in Nonces, InFlightInv(k), Untouched(k)
    PROVE  InFlightInv(k)'
  BY DEF InFlightInv, Untouched, Execute, Callback

\* Nothing is in flight of a nonce that is neither executing nor executed,
\* and it has not been delivered.
LEMMA WaitingIsQuiet ==
    ASSUME NEW n \in Nonces, IInv, ~ IsExecuting(storage, n),
           ~ POOOMarked(storage.executePOOO, n)
    PROVE  /\ n \notin burned
           /\ deliveries[n] = 0
           /\ \A message \in Messages \cup {EmptyCell} : Execute(n, message) \notin toOApp
           /\ \A success \in BOOLEAN : Callback(n, success) \notin toChannel
  BY DEF IInv, InFlightInv

\* What a step has to show, once the storage is right.
LEMMA StepInv ==
    ASSUME IInv, StorageInv(storage'), RealPackets(storage'),
           now' \in 0 .. MaxTime, toOApp' \subseteq ToOApp, toChannel' \subseteq ToChannel,
           reply' \in Reply, deliveries' \in [Nonces -> Nat], burned' \subseteq Nonces,
           \A k \in Nonces : Untouched(k) \/ InFlightInv(k)'
    PROVE  IInv'
  <1>1. TypeOK'
    BY DEF StorageInv, TypeOK
  <1>2. \A k \in Nonces : InFlightInv(k)'
    BY InFlightFrame DEF IInv
  <1> QED
    BY <1>1, <1>2 DEF IInv

LEMMA InitInv == ASSUME Init PROVE IInv
  <1>1. /\ POOONew \in PipelinedOutOfOrder
        /\ DICQCreate \in [Slots -> LeafType]
    BY DEF POOONew, PipelinedOutOfOrder, DICQCreate, LeafType, Vacant
  <1>2. storage \in Storage
    BY <1>1 DEF Init, Storage, LeafType
  <1>3. TypeOK
    BY <1>2, ChannelReceiveAssumption
       DEF Init, TypeOK, Reply, NoReply, ToOApp, ToChannel
  <1>4. FrontiersOrdered(storage)
    BY DEF Init, FrontiersOrdered, POOONew
  <1>5. \A slot \in Slots : storage.executionQueue[slot] = Vacant
    BY DEF Init, DICQCreate
  <1>6. StorageInv(storage) /\ RealPackets(storage)
    BY <1>2, <1>4, <1>5 DEF StorageInv, LeafInWindow, RealPackets, Vacant
  <1>7. \A nonce \in Nonces : InFlightInv(nonce)
    BY DEF Init, InFlightInv
  <1> QED
    BY <1>3, <1>6, <1>7 DEF IInv

-----------------------------------------------------------------------------
(* The steps of the channel that change its storage *)

LEMMA CommitStep ==
    ASSUME IInv, NEW n \in Nonces, NEW message \in Messages, NEW connection \in Connections,
           ChannelCommitPacket(n, message, connection)
    PROVE  IInv'
  <1>1. /\ StorageInv(storage)
        /\ RealPackets(storage)
        /\ TypeOK
        /\ n \in Nat
        /\ storage.executePOOO.nextEmpty \in Nat
    BY StorageComponents DEF IInv, Nonces, StorageInv
  <1>2. reply' \in Reply
    BY <1>1 DEF ChannelCommitPacket, Reply, NoReply, CommitCallback, TypeOK
  <1>3. CASE OptimizedNonceCommittable(storage, n)
    <2>1. storage' = CommitPacket(storage, n, message)
      BY <1>3 DEF ChannelCommitPacket
    <2>2. /\ StorageInv(storage')
          /\ storage'.executePOOO = storage.executePOOO
          /\ storage'.executionQueue =
                 DICQSet(storage.executionQueue, n, message, "committed")
      BY <1>1, <1>3, <2>1, CommitPreserves
    <2>3. RealPackets(storage')
      BY <1>1, <2>2, RealPacketsPreserved
    <2>4. Leaf(storage, n).status # "executing"
      BY <1>3 DEF OptimizedNonceCommittable
    <2>5. KeepsOthers(storage, storage', n)
      BY <1>1, <2>2, <2>4, OthersKeepExecuting
    <2>6. ASSUME NEW k \in Nonces
          PROVE  Untouched(k)
      <3>1. IsExecuting(storage, k) => k # n
        BY <2>4 DEF IsExecuting
      <3> QED
        BY <2>2, <2>5, <3>1 DEF KeepsOthers, Untouched, ChannelCommitPacket, Nonces
    <2> QED
      BY <1>1, <1>2, <2>2, <2>3, <2>6, StepInv DEF ChannelCommitPacket, TypeOK
  <1>4. CASE ~ OptimizedNonceCommittable(storage, n)
    <2>1. storage' = storage
      BY <1>4 DEF ChannelCommitPacket
    <2>2. \A k \in Nonces : Untouched(k)
      BY <2>1 DEF Untouched, ChannelCommitPacket
    <2> QED
      BY <1>1, <1>2, <2>1, <2>2, StepInv DEF ChannelCommitPacket, TypeOK
  <1> QED
    BY <1>3, <1>4

LEMMA LockStep ==
    ASSUME IInv, NEW n \in Nonces, LzReceiveLock(n)
    PROVE  IInv'
  <1> DEFINE object == Leaf(storage, n).object
  <1>1. /\ StorageInv(storage)
        /\ RealPackets(storage)
        /\ TypeOK
        /\ n \in Nat
    BY DEF IInv, Nonces
  <1>2. /\ reply' \in Reply
        /\ toChannel' \subseteq ToChannel
    BY <1>1 DEF LzReceiveLock, Reply, NoReply, TypeOK
  <1>3. \A k \in Nonces : \A success \in BOOLEAN :
            Callback(k, success) \in toChannel' <=> Callback(k, success) \in toChannel
    BY DEF LzReceiveLock, Callback
  <1>4. CASE Lockable(storage, n)
    <2>1. /\ Leaf(storage, n).key = n
          /\ Leaf(storage, n).status = "committed"
          /\ n < storage.commitPOOO.nextEmpty
      BY <1>4 DEF Lockable
    <2>2. /\ storage' = SetStatus(storage, n, "executing")
          /\ toOApp' = toOApp \cup {Execute(n, object)}
      BY <1>4 DEF LzReceiveLock, LockIfLockable, Execute
    <2>3. /\ StorageInv(storage')
          /\ storage'.executePOOO = storage.executePOOO
          /\ storage'.executionQueue = DICQSet(storage.executionQueue, n, object, "executing")
      BY <1>1, <2>1, <2>2, SetStatusPreserves
    <2>4. object \in Messages
      BY <1>1, <2>1, SlotType DEF RealPackets, Leaf, DICQGet, InvalidKey
    <2>5. RealPackets(storage')
      BY <1>1, <2>3, <2>4, RealPacketsPreserved
    <2>6. /\ n \notin burned
          /\ deliveries[n] = 0
          /\ \A message \in Messages \cup {EmptyCell} : Execute(n, message) \notin toOApp
          /\ \A success \in BOOLEAN : Callback(n, success) \notin toChannel
      <3>1. ~ IsExecuting(storage, n)
        BY <2>1 DEF IsExecuting
      <3>2. ~ POOOMarked(storage.executePOOO, n)
        BY <1>1, <2>1, ExecutingIsLive
      <3> QED
        BY <3>1, <3>2, WaitingIsQuiet
    <2>7. KeepsOthers(storage, storage', n)
      BY <1>1, <2>1, <2>3, OthersKeepExecuting
    <2>8. ASSUME NEW k \in Nonces, k # n
          PROVE  Untouched(k)
      BY <1>3, <2>2, <2>3, <2>7, <2>8
         DEF KeepsOthers, Untouched, LzReceiveLock, Execute, Nonces
    <2>9. InFlightInv(n)'
      <3>1. IsExecuting(storage', n) /\ Leaf(storage', n).object = object
        BY <1>1, <2>3, OwnLeaf DEF IsExecuting
      <3>2. /\ deliveries'[n] = 0
            /\ n \notin burned'
            /\ \A success \in BOOLEAN : Callback(n, success) \notin toChannel'
        BY <1>3, <2>6 DEF LzReceiveLock
      <3>3. \A message \in Messages \cup {EmptyCell} :
               Execute(n, message) \in toOApp' => message = object
        BY <2>2, <2>6 DEF Execute
      <3> QED
        BY <3>1, <3>2, <3>3 DEF InFlightInv
    <2>10. toOApp' \subseteq ToOApp
      BY <1>1, <2>2, <2>4 DEF TypeOK, ToOApp, Execute
    <2> QED
      BY <1>1, <1>2, <2>3, <2>5, <2>8, <2>9, <2>10, StepInv DEF LzReceiveLock, TypeOK
  <1>5. CASE ~ Lockable(storage, n)
    <2>1. storage' = storage /\ toOApp' = toOApp
      BY <1>5 DEF LzReceiveLock, LockIfLockable
    <2>2. \A k \in Nonces : Untouched(k)
      BY <1>3, <2>1 DEF Untouched, LzReceiveLock
    <2> QED
      BY <1>1, <1>2, <2>1, <2>2, StepInv DEF LzReceiveLock, TypeOK
  <1> QED
    BY <1>4, <1>5

LEMMA CallbackStep ==
    ASSUME IInv, NEW n \in Nonces, NEW success \in BOOLEAN,
           LzReceiveExecuteCallback(n, success)
    PROVE  IInv'
  <1>1. /\ StorageInv(storage)
        /\ RealPackets(storage)
        /\ TypeOK
        /\ n \in Nat
        /\ InFlightInv(n)
    BY DEF IInv, Nonces
  <1>2. /\ Callback(n, success) \in toChannel
        /\ toChannel' = toChannel \ {Callback(n, success)}
    BY DEF LzReceiveExecuteCallback, Callback
  <1>3. /\ deliveries[n] = IF success THEN 1 ELSE 0
        /\ n \in burned \/ IsExecuting(storage, n)
        /\ \A message \in Messages \cup {EmptyCell} : Execute(n, message) \notin toOApp
    BY <1>1, <1>2 DEF InFlightInv
  <1>4. \A other \in BOOLEAN : Callback(n, other) \notin toChannel'
    <2>1. ASSUME NEW other \in BOOLEAN, Callback(n, other) \in toChannel, other # success
          PROVE  FALSE
      <3>1. deliveries[n] = IF other THEN 1 ELSE 0
        BY <1>1, <2>1 DEF InFlightInv
      <3> QED
        BY <1>3, <2>1, <3>1
    <2> QED
      BY <1>2, <2>1
  <1>5. ASSUME NEW k \in Nonces, k # n, NEW other \in BOOLEAN
        PROVE  Callback(k, other) \in toChannel' <=> Callback(k, other) \in toChannel
    BY <1>2, <1>5 DEF Callback
  <1>6. /\ reply' \in Reply
        /\ toChannel' \subseteq ToChannel
    BY <1>1, <1>2 DEF LzReceiveExecuteCallback, Reply, NoReply, TypeOK
  <1>7. ASSUME POOOMarked(storage.executePOOO, n) => POOOMarked(storage'.executePOOO, n),
               success => POOOMarked(storage'.executePOOO, n)
        PROVE  InFlightInv(n)'
    <2>1. /\ deliveries' = deliveries
          /\ burned' = burned
          /\ toOApp' = toOApp
      BY DEF LzReceiveExecuteCallback
    <2>2. /\ deliveries'[n] \in {0, 1}
          /\ deliveries'[n] = 1 => success
      BY <1>3, <2>1
    <2>3. n \in burned => POOOMarked(storage.executePOOO, n)
      BY <1>1 DEF InFlightInv
    <2>4. \A message \in Messages \cup {EmptyCell} : Execute(n, message) \notin toOApp'
      BY <1>3, <2>1
    <2> QED
      BY <1>4, <1>7, <2>1, <2>2, <2>3, <2>4 DEF InFlightInv
  <1>8. CASE ~ IsExecuting(storage, n)
    <2>1. storage' = storage
      BY <1>8 DEF LzReceiveExecuteCallback
    <2>2. InFlightInv(n)'
      BY <1>1, <1>3, <1>7, <1>8, <2>1 DEF InFlightInv
    <2>3. \A k \in Nonces \ {n} : Untouched(k)
      BY <1>5, <2>1 DEF Untouched, LzReceiveExecuteCallback
    <2> QED
      BY <1>1, <1>6, <2>1, <2>2, <2>3, StepInv DEF LzReceiveExecuteCallback, TypeOK
  <1>9. CASE IsExecuting(storage, n) /\ success
    <2>1. storage' = MarkExecuted(storage, n)
      BY <1>9 DEF LzReceiveExecuteCallback
    <2>2. /\ StorageInv(storage')
          /\ storage'.executionQueue = DICQDelete(storage.executionQueue, n)
          /\ \A i \in Nat : POOOMarked(storage'.executePOOO, i)
                              <=> POOOMarked(storage.executePOOO, i) \/ i = n
      BY <1>1, <1>9, <2>1, MarkExecutedPreserves
    <2>3. RealPackets(storage')
      BY <1>1, <2>2, RealPacketsPreserved
    <2>4. KeepsOthers(storage, storage', n)
      BY <1>1, <1>9, <2>2, OthersKeepExecuting DEF IsExecuting
    <2>5. InFlightInv(n)'
      BY <1>1, <1>7, <2>2
    <2>6. ASSUME NEW k \in Nonces, k # n
          PROVE  Untouched(k)
      BY <1>5, <2>2, <2>4, <2>6
         DEF Untouched, KeepsOthers, LzReceiveExecuteCallback, Nonces
    <2> QED
      BY <1>1, <1>6, <2>2, <2>3, <2>5, <2>6, StepInv DEF LzReceiveExecuteCallback, TypeOK
  <1>10. CASE IsExecuting(storage, n) /\ ~ success
    <2> DEFINE object == Leaf(storage, n).object
    <2>1. /\ storage' = SetStatus(storage, n, "committed")
          /\ Leaf(storage, n).key = n
      BY <1>10 DEF LzReceiveExecuteCallback, IsExecuting
    <2>2. /\ StorageInv(storage')
          /\ storage'.executePOOO = storage.executePOOO
          /\ storage'.executionQueue = DICQSet(storage.executionQueue, n, object, "committed")
      BY <1>1, <2>1, SetStatusPreserves
    <2>3. object \in Messages
      BY <1>1, <2>1, SlotType DEF RealPackets, Leaf, DICQGet, InvalidKey
    <2>4. RealPackets(storage')
      BY <1>1, <2>2, <2>3, RealPacketsPreserved
    <2>5. KeepsOthers(storage, storage', n)
      BY <1>1, <2>1, <2>2, OthersKeepExecuting
    <2>6. InFlightInv(n)'
      BY <1>7, <1>10, <2>2
    <2>7. ASSUME NEW k \in Nonces, k # n
          PROVE  Untouched(k)
      BY <1>5, <2>2, <2>5, <2>7
         DEF Untouched, KeepsOthers, LzReceiveExecuteCallback, Nonces
    <2> QED
      BY <1>1, <1>6, <2>2, <2>4, <2>6, <2>7, StepInv DEF LzReceiveExecuteCallback, TypeOK
  <1> QED
    BY <1>8, <1>9, <1>10

LEMMA NilifyStep ==
    ASSUME IInv, NEW n \in Nonces, Nilify(n)
    PROVE  IInv'
  <1>1. /\ StorageInv(storage)
        /\ RealPackets(storage)
        /\ TypeOK
        /\ n \in Nat
    BY DEF IInv, Nonces
  <1>2. OptimizedNonceCommittable(storage, n)
    BY <1>1, CommittableTests DEF Nilify
  <1>3. /\ StorageInv(storage')
        /\ storage'.executePOOO = storage.executePOOO
        /\ storage'.executionQueue = DICQDelete(storage.executionQueue, n)
    BY <1>1, <1>2, NilifyPreserves DEF Nilify
  <1>4. RealPackets(storage')
    BY <1>1, <1>3, RealPacketsPreserved
  <1>5. Leaf(storage, n).status # "executing"
    BY <1>2 DEF OptimizedNonceCommittable
  <1>6. KeepsOthers(storage, storage', n)
    BY <1>1, <1>3, <1>5, OthersKeepExecuting
  <1>7. ASSUME NEW k \in Nonces
        PROVE  Untouched(k)
    <2>1. IsExecuting(storage, k) => k # n
      BY <1>5 DEF IsExecuting
    <2> QED
      BY <1>3, <1>6, <2>1 DEF KeepsOthers, Untouched, Nilify, Nonces
  <1>8. reply' \in Reply
    BY DEF Nilify, Reply, NoReply
  <1> QED
    BY <1>1, <1>3, <1>4, <1>7, <1>8, StepInv DEF Nilify, TypeOK

\* The fake packet and its lock change nothing but the slot of the nonce, and
\* the execution empties that.
LEMMA BurnStep ==
    ASSUME IInv, NEW n \in Nonces, Burn(n)
    PROVE  IInv'
  <1> DEFINE c == CommitFakePacket(storage, n)
             l == LockIfLockable(c, n)
  <1>1. /\ StorageInv(storage)
        /\ RealPackets(storage)
        /\ TypeOK
        /\ n \in Nat
        /\ InFlightInv(n)
    BY DEF IInv, Nonces
  <1>2. /\ StorageInv(c)
        /\ c.executePOOO = storage.executePOOO
        /\ \/ OptimizedNonceCommittable(storage, n)
              /\ c.executionQueue = DICQSet(storage.executionQueue, n, EmptyCell, "committed")
           \/ c = storage
    BY <1>1, CommitPreserves DEF CommitFakePacket
  <1>3. /\ StorageInv(l)
        /\ l.executePOOO = storage.executePOOO
        /\ \/ Lockable(c, n) /\ l.executionQueue =
                  DICQSet(c.executionQueue, n, Leaf(c, n).object, "executing")
           \/ l = c
    <2>1. CASE Lockable(c, n)
      <3>1. l = SetStatus(c, n, "executing")
        BY <2>1 DEF LockIfLockable
      <3>2. Leaf(c, n).key = n /\ n < c.commitPOOO.nextEmpty
        BY <2>1 DEF Lockable
      <3> HIDE DEF c, l
      <3> QED
        BY <1>1, <1>2, <2>1, <3>1, <3>2, SetStatusPreserves
    <2>2. CASE ~ Lockable(c, n)
      BY <1>2, <2>2 DEF LockIfLockable
    <2> QED
      BY <2>1, <2>2
  <1>4. /\ IsExecuting(l, n)
        /\ storage' = MarkExecuted(l, n)
        /\ burned' = burned \cup {n}
        /\ UNCHANGED <<now, toOApp, toChannel, deliveries>>
    BY DEF Burn
  <1> HIDE DEF c, l
  <1>5. /\ StorageInv(storage')
        /\ storage'.executionQueue = DICQDelete(l.executionQueue, n)
        /\ \A i \in Nat : POOOMarked(storage'.executePOOO, i)
                            <=> POOOMarked(storage.executePOOO, i) \/ i = n
    BY <1>1, <1>3, <1>4, MarkExecutedPreserves
  <1>6. storage'.executionQueue = DICQDelete(storage.executionQueue, n)
    <2>1. /\ storage.executionQueue \in [Slots -> LeafType]
          /\ SlotOf(n) \in Slots
      BY <1>1, StorageComponents, SlotType DEF StorageInv
    <2> QED
      BY <1>2, <1>3, <1>5, <2>1 DEF DICQDelete, DICQSet
  <1>7. Leaf(storage, n).status # "executing" \/ Leaf(storage, n).key = n
    <2>1. CASE OptimizedNonceCommittable(storage, n)
      BY <2>1 DEF OptimizedNonceCommittable
    <2>2. CASE c = storage
      BY <1>3, <1>4, <2>2 DEF Lockable, IsExecuting
    <2> QED
      BY <1>2, <2>1, <2>2
  <1>8. KeepsOthers(storage, storage', n)
    BY <1>1, <1>6, <1>7, OthersKeepExecuting
  <1>9. RealPackets(storage')
    BY <1>1, <1>6, RealPacketsPreserved
  <1>10. InFlightInv(n)'
    BY <1>1, <1>4, <1>5 DEF InFlightInv
  <1>11. ASSUME NEW k \in Nonces, k # n
         PROVE  Untouched(k)
    BY <1>4, <1>5, <1>8, <1>11 DEF Untouched, KeepsOthers, Nonces
  <1>12. reply' \in Reply
    BY DEF Burn, Reply, NoReply
  <1> QED
    BY <1>1, <1>4, <1>5, <1>9, <1>10, <1>11, <1>12, StepInv DEF TypeOK

-----------------------------------------------------------------------------
(* The steps of the OApp, and those that only send a message *)

LEMMA OAppExecuteStep ==
    ASSUME IInv, NEW n \in Nonces, NEW message \in Messages \cup {EmptyCell},
           NEW outcome \in OAppOutcomes, OAppLzReceiveExecute(n, message, outcome)
    PROVE  IInv'
  <1>1. /\ StorageInv(storage)
        /\ RealPackets(storage)
        /\ TypeOK
        /\ InFlightInv(n)
    BY DEF IInv
  <1>2. /\ Execute(n, message) \in toOApp
        /\ toOApp' = toOApp \ {Execute(n, message)}
        /\ UNCHANGED <<storage, now, burned>>
    BY DEF OAppLzReceiveExecute, Execute
  <1>3. /\ deliveries[n] = 0
        /\ \A success \in BOOLEAN : Callback(n, success) \notin toChannel
        /\ n \in burned \/ IsExecuting(storage, n)
        /\ \A other \in Messages \cup {EmptyCell} : Execute(n, other) \notin toOApp'
    BY <1>1, <1>2 DEF InFlightInv
  <1>4. CASE outcome = "success"
    <2>1. /\ toChannel' = toChannel \cup {Callback(n, TRUE)}
          /\ deliveries' = [deliveries EXCEPT ![n] = @ + 1]
      BY <1>4 DEF OAppLzReceiveExecute, Callback
    <2>2. /\ deliveries' \in [Nonces -> Nat]
          /\ deliveries'[n] = 1
          /\ \A k \in Nonces \ {n} : deliveries'[k] = deliveries[k]
      BY <1>1, <1>3, <2>1 DEF TypeOK
    <2>3. Callback(n, TRUE) \in toChannel' /\ Callback(n, FALSE) \notin toChannel'
      BY <1>3, <2>1 DEF Callback
    <2>4. InFlightInv(n)'
      <3>1. n \in burned => POOOMarked(storage.executePOOO, n)
        BY <1>1 DEF InFlightInv
      <3>2. ASSUME NEW success \in BOOLEAN, Callback(n, success) \in toChannel'
            PROVE  success = TRUE
        BY <2>3, <3>2
      <3>3. \A success \in BOOLEAN :
               Callback(n, success) \in toChannel' =>
                   deliveries'[n] = IF success THEN 1 ELSE 0
        BY <2>2, <3>2
      <3> QED
        BY <1>2, <1>3, <2>2, <2>3, <3>1, <3>3 DEF InFlightInv
    <2>5. ASSUME NEW k \in Nonces, k # n
          PROVE  Untouched(k)
      BY <1>2, <2>1, <2>2, <2>5 DEF Untouched, Callback, Execute
    <2>6. /\ toChannel' \subseteq ToChannel
          /\ toOApp' \subseteq ToOApp
          /\ reply' \in Reply
      <3>1. Callback(n, TRUE) \in ToChannel
        BY DEF ToChannel, Callback
      <3>2. reply' \in Reply
        BY DEF OAppLzReceiveExecute, Reply, NoReply
      <3> QED
        BY <1>1, <1>2, <2>1, <3>1, <3>2 DEF TypeOK
    <2> QED
      BY <1>1, <1>2, <2>2, <2>4, <2>5, <2>6, StepInv DEF TypeOK
  <1>5. CASE outcome # "success"
    <2>1. /\ deliveries' = deliveries
          /\ toChannel' = toChannel \/ toChannel' = toChannel \cup {Callback(n, FALSE)}
      BY <1>5 DEF OAppLzReceiveExecute, Callback
    <2>2. InFlightInv(n)'
      <3>1. \A success \in BOOLEAN :
                Callback(n, success) \in toChannel' => success = FALSE
        BY <1>3, <2>1 DEF Callback
      <3>2. \A success \in BOOLEAN :
                Callback(n, success) \in toChannel' =>
                    deliveries'[n] = IF success THEN 1 ELSE 0
        BY <1>3, <2>1, <3>1
      <3> QED
        BY <1>1, <1>2, <1>3, <2>1, <3>2 DEF InFlightInv
    <2>3. ASSUME NEW k \in Nonces, k # n
          PROVE  Untouched(k)
      BY <1>2, <2>1, <2>3 DEF Untouched, Callback, Execute
    <2>4. /\ toChannel' \subseteq ToChannel
          /\ toOApp' \subseteq ToOApp
          /\ reply' \in Reply
      <3>1. Callback(n, FALSE) \in ToChannel
        BY DEF ToChannel, Callback
      <3>2. reply' \in Reply
        BY DEF OAppLzReceiveExecute, Reply, NoReply
      <3> QED
        BY <1>1, <1>2, <2>1, <3>1, <3>2 DEF TypeOK
    <2> QED
      BY <1>1, <1>2, <2>1, <2>2, <2>3, <2>4, StepInv DEF TypeOK
  <1> QED
    BY <1>4, <1>5

\* A step that leaves the queue, the bitmaps, the execute requests, the
\* callbacks and the history as they are.
LEMMA QuietStep ==
    ASSUME IInv, storage' \in Storage,
           storage'.commitPOOO = storage.commitPOOO,
           storage'.executePOOO = storage.executePOOO,
           storage'.executionQueue = storage.executionQueue,
           \A nonce \in Nonces : \A message \in Messages \cup {EmptyCell} :
               Execute(nonce, message) \in toOApp' => Execute(nonce, message) \in toOApp,
           \A nonce \in Nonces : \A success \in BOOLEAN :
               Callback(nonce, success) \in toChannel'
                   <=> Callback(nonce, success) \in toChannel,
           toOApp' \subseteq ToOApp, toChannel' \subseteq ToChannel,
           now' \in 0 .. MaxTime, reply' \in Reply,
           UNCHANGED <<deliveries, burned>>
    PROVE  IInv'
  <1>1. StorageInv(storage) /\ RealPackets(storage) /\ TypeOK
    BY DEF IInv
  <1>2. StorageInv(storage')
    BY <1>1 DEF StorageInv, FrontiersOrdered, LeafInWindow
  <1>3. RealPackets(storage')
    BY <1>1 DEF RealPackets
  <1>4. \A k \in Nonces : Untouched(k)
    BY DEF Untouched, IsExecuting, Leaf
  <1> QED
    BY <1>1, <1>2, <1>3, <1>4, StepInv DEF TypeOK

LEMMA OtherSteps ==
    ASSUME IInv,
           \/ \E config \in OAppConfigs : SetEpConfigOApp(config)
           \/ \E nonce \in Nonces : LzReceivePrepare(nonce)
           \/ \E nonce \in Nonces, connection \in Connections :
                  NotifyPacketExecuted(nonce, connection)
           \/ \E connection \in Connections : SyncMsglibConnection(connection)
           \/ \E nonce \in Nonces : OAppLzReceivePrepare(nonce)
           \/ Tick
           \/ UNCHANGED vars
    PROVE  IInv'
  <1>1. /\ TypeOK
        /\ storage \in Storage
        /\ storage.commitPOOO.nextEmpty \in Nat
        /\ storage.executePOOO.nextEmpty \in Nat
    BY StorageComponents DEF IInv, TypeOK
  <1>2. CASE \E config \in OAppConfigs : SetEpConfigOApp(config)
    <2>1. PICK config \in OAppConfigs : SetEpConfigOApp(config)
      BY <1>2
    <2>2. storage' = [storage EXCEPT !.epConfigOApp = config]
      BY <2>1 DEF SetEpConfigOApp
    <2>3. /\ storage' \in Storage
          /\ storage'.commitPOOO = storage.commitPOOO
          /\ storage'.executePOOO = storage.executePOOO
          /\ storage'.executionQueue = storage.executionQueue
      BY <1>1, <2>2 DEF Storage
    <2> QED
      BY <1>1, <2>1, <2>3, QuietStep DEF SetEpConfigOApp, TypeOK, Reply, NoReply
  <1>3. CASE \E nonce \in Nonces : LzReceivePrepare(nonce)
    <2>1. PICK nonce \in Nonces : LzReceivePrepare(nonce)
      BY <1>3
    <2> QED
      BY <1>1, <2>1, QuietStep
         DEF LzReceivePrepare, TypeOK, ToOApp, Reply, NoReply, Execute
  <1>4. CASE \E nonce \in Nonces, connection \in Connections :
                 NotifyPacketExecuted(nonce, connection)
    <2>1. PICK nonce \in Nonces, connection \in Connections :
              NotifyPacketExecuted(nonce, connection)
      BY <1>4
    <2>2. reply' \in Reply
      BY <1>1, <2>1 DEF NotifyPacketExecuted, Reply, CommitCallback, Nonces
    <2> QED
      BY <1>1, <2>1, <2>2, QuietStep DEF NotifyPacketExecuted, TypeOK
  <1>5. CASE \E connection \in Connections : SyncMsglibConnection(connection)
    <2>1. PICK connection \in Connections : SyncMsglibConnection(connection)
      BY <1>5
    <2>2. reply' \in Reply
      BY <1>1, <2>1 DEF SyncMsglibConnection, Reply
    <2> QED
      BY <1>1, <2>1, <2>2, QuietStep DEF SyncMsglibConnection, TypeOK
  <1>6. CASE \E nonce \in Nonces : OAppLzReceivePrepare(nonce)
    <2>1. PICK nonce \in Nonces : OAppLzReceivePrepare(nonce)
      BY <1>6
    <2> QED
      BY <1>1, <2>1, QuietStep
         DEF OAppLzReceivePrepare, TypeOK, ToChannel, Reply, NoReply, Callback
  <1>7. CASE Tick
    BY <1>1, <1>7, ChannelReceiveAssumption, QuietStep DEF Tick, TypeOK, Reply, NoReply
  <1>8. CASE UNCHANGED vars
    BY <1>1, <1>8, QuietStep DEF vars, TypeOK
  <1> QED
    BY <1>2, <1>3, <1>4, <1>5, <1>6, <1>7, <1>8

LEMMA NextInv == ASSUME IInv, [Next]_vars PROVE IInv'
  BY CommitStep, LockStep, CallbackStep, NilifyStep, BurnStep, OAppExecuteStep,
     OtherSteps DEF Next

-----------------------------------------------------------------------------
(* The theorems *)

\* The inductive invariant holds in every reachable state: with any window,
\* any number of nonces, packets and connections, and messages between the
\* channel and the OApp in any order.
THEOREM Invariance == Spec => []IInv
  BY InitInv, NextInv, PTL DEF Spec

\* Every variable keeps its type.
THEOREM TypeCorrect == Spec => []TypeOK
  <1>1. IInv => TypeOK
    BY DEF IInv
  <1> QED
    BY <1>1, Invariance, PTL

\* No interleaving of locks, callbacks, failures, nilify and burn makes the
\* OApp execute a nonce twice (lzReceiveLock, lzReceiveExecuteCallback).
THEOREM AtMostOnceDelivery == Spec => []DeliveredAtMostOnce
  <1>1. IInv => DeliveredAtMostOnce
    <2>1. \A nonce \in Nonces : InFlightInv(nonce) => deliveries[nonce] <= 1
      BY DEF InFlightInv
    <2> QED
      BY <2>1 DEF IInv, DeliveredAtMostOnce
  <1> QED
    BY <1>1, Invariance, PTL

\* A packet is executed, burned or locked only behind the commit frontier.
THEOREM ExecutionFollowsCommits == Spec => []ExecutedOnlyInCommittedPrefix
  <1>1. IInv => ExecutedOnlyInCommittedPrefix
    <2> SUFFICES ASSUME IInv, NEW n \in Nonces,
                        POOOMarked(storage.executePOOO, n) \/ IsExecuting(storage, n)
                 PROVE  n < storage.commitPOOO.nextEmpty
      BY DEF ExecutedOnlyInCommittedPrefix
    <2>1. StorageInv(storage) /\ n \in Nat
      BY DEF IInv, Nonces
    <2>2. /\ storage.commitPOOO.nextEmpty \in Nat
          /\ storage.executePOOO.nextEmpty \in Nat
      BY <2>1, StorageComponents DEF StorageInv
    <2>3. CASE IsExecuting(storage, n)
      BY <2>1, <2>3, ExecutingIsLive DEF IsExecuting
    <2>4. CASE POOOMarked(storage.executePOOO, n)
      BY <2>1, <2>2, <2>4 DEF StorageInv, FrontiersOrdered, POOOMarked
    <2> QED
      BY <2>3, <2>4
  <1> QED
    BY <1>1, Invariance, PTL

\* Every entry of the execution queue is in its slot and in the window, so
\* that no two live nonces share a slot.
THEOREM QueueInWindow == Spec => []QueueHoldsTheWindow
  <1>1. IInv => QueueHoldsTheWindow
    <2> SUFFICES ASSUME IInv, NEW slot \in Slots,
                        storage.executionQueue[slot].key # InvalidKey
                 PROVE  LET leaf == storage.executionQueue[slot]
                        IN  /\ SlotOf(leaf.key) = slot
                            /\ leaf.key >= storage.executePOOO.nextEmpty
                            /\ leaf.key <= POOOMaxSettableBit(storage.executePOOO)
                            /\ ~ POOOMarked(storage.executePOOO, leaf.key)
                            /\ POOOMarked(storage.commitPOOO, leaf.key)
      BY DEF QueueHoldsTheWindow
    <2>1. StorageInv(storage)
      BY DEF IInv
    <2>2. /\ LeafInWindow(storage, slot)
          /\ storage.executionQueue[slot] # Vacant
      BY <2>1 DEF StorageInv, Vacant
    <2>3. storage.executePOOO.nextEmpty \in Nat
      BY <2>1, StorageComponents DEF StorageInv
    <2> QED
      BY <2>2, <2>3 DEF LeafInWindow, POOOMarked
  <1> QED
    BY <1>1, Invariance, PTL

\* The commit bitmap never overruns on a nonce that passed the window check.
THEOREM CommitNeverOverruns == Spec => []CommitBitmapNeverOverrun
  <1>1. IInv => CommitBitmapNeverOverrun
    BY CommittableFits DEF IInv, CommitBitmapNeverOverrun, Nonces
  <1> QED
    BY <1>1, Invariance, PTL

\* The short circuit of _nonceCommittable changes no answer.
THEOREM ShortCircuitIsExact == Spec => []CommittableTestsAgree
  <1>1. IInv => CommittableTestsAgree
    BY CommittableTests DEF IInv, CommittableTestsAgree
  <1> QED
    BY <1>1, Invariance, PTL

\* What the OApp executes is what the queue holds as executing.
THEOREM ExecutesWhatWasCommitted == Spec => []ExecuteMatchesQueue
  <1>1. IInv => ExecuteMatchesQueue
    <2> SUFFICES ASSUME IInv, NEW request \in toOApp, request.op = "LZ_RECEIVE_EXECUTE"
                 PROVE  \/ request.nonce \in burned
                        \/ /\ IsExecuting(storage, request.nonce)
                           /\ Leaf(storage, request.nonce).object = request.message
      BY DEF ExecuteMatchesQueue
    <2>1. /\ request.nonce \in Nonces
          /\ request.message \in Messages \cup {EmptyCell}
          /\ request = Execute(request.nonce, request.message)
      BY DEF IInv, TypeOK, ToOApp, Execute
    <2>2. InFlightInv(request.nonce)
      BY <2>1 DEF IInv
    <2> QED
      BY <2>1, <2>2 DEF InFlightInv
  <1> QED
    BY <1>1, Invariance, PTL

\* An executed delivery is recorded, or its callback will find its packet.
THEOREM DeliveriesAreRecorded == Spec => []DeliveryIsRecorded
  <1>1. IInv => DeliveryIsRecorded
    BY DEF IInv, InFlightInv, DeliveryIsRecorded, Callback
  <1> QED
    BY <1>1, Invariance, PTL

\* The fake packet of nilify and burn is gone at the end of their step.
THEOREM NoFakePackets == Spec => []FakePacketNeverQueued
  <1>1. IInv => FakePacketNeverQueued
    BY DEF IInv, RealPackets, FakePacketNeverQueued
  <1> QED
    BY <1>1, Invariance, PTL

-----------------------------------------------------------------------------
(* What a change of the storage does to its nonce, and leaves of the others: *)
(* what the action properties and the refinements below are proved from.     *)

\* The execute bitmap marks only what is behind the commit frontier.
LEMMA ExecutedIsCommitted ==
    ASSUME NEW s, StorageInv(s), NEW n \in Nat, POOOMarked(s.executePOOO, n)
    PROVE  n < s.commitPOOO.nextEmpty
  <1>1. s.commitPOOO.nextEmpty \in Nat /\ s.executePOOO.nextEmpty \in Nat
    BY StorageComponents DEF StorageInv
  <1> QED
    BY <1>1 DEF StorageInv, FrontiersOrdered, POOOMarked

\* The slot of a nonce of the window holds that nonce or nothing: any other
\* live nonce is in the window too, and has a slot of its own.
LEMMA SlotIsOwn ==
    ASSUME NEW s, StorageInv(s), NEW n \in Nat, n >= s.executePOOO.nextEmpty,
           n <= POOOMaxSettableBit(s.executePOOO)
    PROVE  \/ Leaf(s, n) = Vacant
           \/ Leaf(s, n).key = n /\ Leaf(s, n).status \in {"committed", "executing"}
  <1> DEFINE leaf == s.executionQueue[SlotOf(n)]
  <1>1. SlotOf(n) \in Slots /\ s.executePOOO.nextEmpty \in Nat
    BY SlotType, StorageComponents DEF StorageInv
  <1>2. LeafInWindow(s, SlotOf(n))
    BY <1>1 DEF StorageInv
  <1>3. CASE leaf # Vacant
    <2>1. /\ leaf.key \in Nat
          /\ SlotOf(leaf.key) = SlotOf(n)
          /\ leaf.key >= s.executePOOO.nextEmpty
          /\ leaf.key <= POOOMaxSettableBit(s.executePOOO)
          /\ leaf.status \in {"committed", "executing"}
      BY <1>2, <1>3 DEF LeafInWindow
    <2> HIDE DEF leaf
    <2>2. leaf.key = n
      BY <1>1, <2>1, OneKeyPerSlot DEF POOOMaxSettableBit
    <2> QED
      BY <2>1, <2>2 DEF leaf, Leaf, DICQGet
  <1> QED
    BY <1>3 DEF Leaf, DICQGet

\* A nonce that the window has room for, or is past, and that cannot be
\* committed is committed already.
LEMMA UncommittableIsCommitted ==
    ASSUME NEW s, StorageInv(s), NEW n \in Nat,
           n <= POOOMaxSettableBit(s.executePOOO), ~ OptimizedNonceCommittable(s, n)
    PROVE  POOOMarked(s.commitPOOO, n)
  <1>1. s.commitPOOO.nextEmpty \in Nat /\ s.executePOOO.nextEmpty \in Nat
    BY StorageComponents DEF StorageInv
  <1>2. CASE POOOMarked(s.executePOOO, n)
    BY <1>2, ExecutedIsCommitted DEF POOOMarked
  <1>3. CASE ~ POOOMarked(s.executePOOO, n)
    <2>1. n >= s.executePOOO.nextEmpty /\ Leaf(s, n).status = "executing"
      BY <1>1, <1>3 DEF OptimizedNonceCommittable, POOOMarked, POOOIsBitSet
    <2>2. Leaf(s, n).key = n
      BY <2>1, SlotIsOwn DEF Vacant
    <2> QED
      BY <2>2, ExecutingIsLive
  <1> QED
    BY <1>2, <1>3

\* A change from s to t that concerns nonce n only.
OnlyChanges(s, t, n) ==
    /\ \A k \in Nat \ {n} :
           /\ POOOMarked(t.commitPOOO, k) <=> POOOMarked(s.commitPOOO, k)
           /\ POOOMarked(t.executePOOO, k) <=> POOOMarked(s.executePOOO, k)
    /\ Leaf(s, n).key \in {n, InvalidKey}
    /\ Leaf(t, n).key \in {n, InvalidKey}
    /\ \A slot \in Slots \ {SlotOf(n)} : t.executionQueue[slot] = s.executionQueue[slot]

\* The queue part of OnlyChanges: a leaf put into the slot of n, or removed.
LEMMA OneSlotSet ==
    ASSUME NEW s, StorageInv(s), NEW n \in Nat, NEW t,
           NEW object, NEW status \in {"committed", "executing"},
           t.executionQueue = DICQSet(s.executionQueue, n, object, status)
    PROVE  /\ Leaf(t, n) = [key |-> n, status |-> status, object |-> object]
           /\ Leaf(t, n).key = n
           /\ \A slot \in Slots \ {SlotOf(n)} :
                  t.executionQueue[slot] = s.executionQueue[slot]
  BY StorageComponents, SlotType DEF StorageInv, DICQSet, Leaf, DICQGet

LEMMA OneSlotDeleted ==
    ASSUME NEW s, StorageInv(s), NEW n \in Nat, NEW t,
           t.executionQueue = DICQDelete(s.executionQueue, n)
    PROVE  /\ Leaf(t, n) = Vacant
           /\ Leaf(t, n).key = InvalidKey
           /\ \A slot \in Slots \ {SlotOf(n)} :
                  t.executionQueue[slot] = s.executionQueue[slot]
  BY StorageComponents, SlotType DEF StorageInv, DICQDelete, Leaf, DICQGet, Vacant

LEMMA CommitEffect ==
    ASSUME NEW s, StorageInv(s), NEW n \in Nat, OptimizedNonceCommittable(s, n),
           NEW message \in Messages \cup {EmptyCell},
           NEW t, t = CommitPacket(s, n, message)
    PROVE  /\ OnlyChanges(s, t, n)
           /\ t.commitPOOO = POOOSet(s.commitPOOO, n)
           /\ t.executePOOO = s.executePOOO
           /\ POOOMarked(t.commitPOOO, n)
           /\ ~ POOOMarked(s.executePOOO, n)
           /\ Leaf(s, n) # Vacant => Leaf(s, n).key = n /\ Leaf(s, n).status = "committed"
           /\ Leaf(t, n) = [key |-> n, status |-> "committed", object |-> message]
  <1>1. /\ t.executePOOO = s.executePOOO
        /\ t.executionQueue = DICQSet(s.executionQueue, n, message, "committed")
    BY CommitPreserves
  <1>2. t.commitPOOO = POOOSet(s.commitPOOO, n)
    BY DEF CommitPacket, StorageInv, Storage
  <1>3. \A i \in Nat : POOOMarked(t.commitPOOO, i) <=> POOOMarked(s.commitPOOO, i) \/ i = n
    BY <1>2, CommitFrontiers
  <1>4. Leaf(s, n) # Vacant => Leaf(s, n).key = n /\ Leaf(s, n).status = "committed"
    <2>1. /\ n >= s.executePOOO.nextEmpty
          /\ n <= POOOMaxSettableBit(s.executePOOO)
          /\ Leaf(s, n).status # "executing"
      BY DEF OptimizedNonceCommittable
    <2> QED
      BY <2>1, SlotIsOwn
  <1>5. Leaf(s, n).key \in {n, InvalidKey}
    BY <1>4 DEF Vacant
  <1>6. /\ Leaf(t, n) = [key |-> n, status |-> "committed", object |-> message]
        /\ Leaf(t, n).key = n
        /\ \A slot \in Slots \ {SlotOf(n)} : t.executionQueue[slot] = s.executionQueue[slot]
    BY <1>1, OneSlotSet
  <1>7. OnlyChanges(s, t, n)
    BY <1>1, <1>3, <1>5, <1>6 DEF OnlyChanges
  <1> QED
    BY <1>1, <1>2, <1>3, <1>4, <1>6, <1>7, CommittableFits

LEMMA NilifyEffect ==
    ASSUME NEW s, StorageInv(s), NEW n \in Nat, OptimizedNonceCommittable(s, n),
           NEW t, t = [CommitFakePacket(s, n) EXCEPT
                          !.executionQueue = DICQDelete(s.executionQueue, n)]
    PROVE  /\ OnlyChanges(s, t, n)
           /\ t.commitPOOO = POOOSet(s.commitPOOO, n)
           /\ t.executePOOO = s.executePOOO
           /\ POOOMarked(t.commitPOOO, n)
           /\ ~ POOOMarked(s.executePOOO, n)
           /\ Leaf(s, n) # Vacant => Leaf(s, n).key = n /\ Leaf(s, n).status = "committed"
           /\ Leaf(t, n) = Vacant
  <1> DEFINE c == CommitPacket(s, n, EmptyCell)
  <1>1. /\ t.executePOOO = s.executePOOO
        /\ t.executionQueue = DICQDelete(s.executionQueue, n)
    BY NilifyPreserves
  <1>2. /\ OnlyChanges(s, c, n)
        /\ c.commitPOOO = POOOSet(s.commitPOOO, n)
        /\ POOOMarked(c.commitPOOO, n)
        /\ ~ POOOMarked(s.executePOOO, n)
        /\ Leaf(s, n) # Vacant => Leaf(s, n).key = n /\ Leaf(s, n).status = "committed"
    BY CommitEffect
  <1>3. t.commitPOOO = c.commitPOOO
    <2>1. c \in Storage
      BY CommitPreserves DEF StorageInv
    <2> HIDE DEF c
    <2>2. t = [c EXCEPT !.executionQueue = DICQDelete(s.executionQueue, n)]
      BY DEF CommitFakePacket, c
    <2> QED
      BY <2>1, <2>2 DEF Storage
  <1> HIDE DEF c
  <1>4. Leaf(s, n).key \in {n, InvalidKey}
    BY <1>2 DEF Vacant
  <1>5. /\ Leaf(t, n) = Vacant
        /\ Leaf(t, n).key = InvalidKey
        /\ \A slot \in Slots \ {SlotOf(n)} : t.executionQueue[slot] = s.executionQueue[slot]
    <2>1. t.executionQueue = DICQDelete(s.executionQueue, n)
      BY <1>1
    <2> QED
      BY ONLY <2>1, StorageInv(s), n \in Nat, OneSlotDeleted
  <1>6. OnlyChanges(s, t, n)
    BY <1>1, <1>2, <1>3, <1>4, <1>5 DEF OnlyChanges
  <1> QED
    BY <1>1, <1>2, <1>3, <1>5, <1>6

LEMMA SetStatusEffect ==
    ASSUME NEW s, StorageInv(s), NEW n \in Nat, Leaf(s, n).key = n,
           NEW status \in {"committed", "executing"},
           status = "executing" => n < s.commitPOOO.nextEmpty,
           NEW t, t = SetStatus(s, n, status)
    PROVE  /\ OnlyChanges(s, t, n)
           /\ t.commitPOOO = s.commitPOOO
           /\ t.executePOOO = s.executePOOO
           /\ Leaf(t, n) = [key |-> n, status |-> status, object |-> Leaf(s, n).object]
  <1>1. /\ t.commitPOOO = s.commitPOOO
        /\ t.executePOOO = s.executePOOO
        /\ t.executionQueue = DICQSet(s.executionQueue, n, Leaf(s, n).object, status)
    BY SetStatusPreserves
  <1>2. /\ Leaf(t, n) = [key |-> n, status |-> status, object |-> Leaf(s, n).object]
        /\ Leaf(t, n).key = n
        /\ \A slot \in Slots \ {SlotOf(n)} : t.executionQueue[slot] = s.executionQueue[slot]
    BY <1>1, OneSlotSet
  <1> QED
    BY <1>1, <1>2 DEF OnlyChanges

LEMMA MarkExecutedEffect ==
    ASSUME NEW s, StorageInv(s), NEW n \in Nat, IsExecuting(s, n),
           NEW t, t = MarkExecuted(s, n)
    PROVE  /\ OnlyChanges(s, t, n)
           /\ t.commitPOOO = s.commitPOOO
           /\ t.executePOOO = POOOSet(s.executePOOO, n)
           /\ POOOMarked(t.executePOOO, n)
           /\ Leaf(t, n) = Vacant
  <1>1. /\ t.commitPOOO = s.commitPOOO
        /\ t.executionQueue = DICQDelete(s.executionQueue, n)
        /\ \A i \in Nat :
              POOOMarked(t.executePOOO, i) <=> POOOMarked(s.executePOOO, i) \/ i = n
    BY MarkExecutedPreserves
  <1>2. t.executePOOO = POOOSet(s.executePOOO, n)
    BY DEF MarkExecuted, StorageInv, Storage
  <1>3. Leaf(s, n).key \in {n, InvalidKey}
    BY DEF IsExecuting
  <1>4. /\ Leaf(t, n) = Vacant
        /\ Leaf(t, n).key = InvalidKey
        /\ \A slot \in Slots \ {SlotOf(n)} : t.executionQueue[slot] = s.executionQueue[slot]
    BY <1>1, OneSlotDeleted
  <1> QED
    BY <1>1, <1>2, <1>3, <1>4 DEF OnlyChanges

\* Burn as one change: the nonce is committed, if it was not, and executed;
\* it is at most the first one that was not committed.
LEMMA BurnEffect ==
    ASSUME NEW s, StorageInv(s), NEW n \in Nat,
           NEW l, l = LockIfLockable(CommitFakePacket(s, n), n), IsExecuting(l, n),
           NEW t, t = MarkExecuted(l, n)
    PROVE  /\ OnlyChanges(s, t, n)
           /\ t.commitPOOO = POOOSet(s.commitPOOO, n)
           /\ t.executePOOO = POOOSet(s.executePOOO, n)
           /\ POOOMarked(t.commitPOOO, n)
           /\ POOOMarked(t.executePOOO, n)
           /\ Leaf(s, n) # Vacant => Leaf(s, n).key = n
           /\ Leaf(t, n) = Vacant
           /\ n <= s.commitPOOO.nextEmpty
           /\ n >= s.executePOOO.nextEmpty
           /\ n <= POOOMaxSettableBit(s.executePOOO)
           /\ ~ POOOMarked(s.executePOOO, n)
  <1> DEFINE c == CommitFakePacket(s, n)
  <1>1. /\ s.commitPOOO \in PipelinedOutOfOrder
        /\ s.commitPOOO.nextEmpty \in Nat
        /\ s.executePOOO.nextEmpty \in Nat
        /\ \A i \in s.commitPOOO.bitmap : s.commitPOOO.nextEmpty < i
    BY StorageComponents DEF StorageInv, FrontiersOrdered
  <1>2. /\ StorageInv(c)
        /\ OnlyChanges(s, c, n)
        /\ c.commitPOOO = POOOSet(s.commitPOOO, n)
        /\ c.executePOOO = s.executePOOO
        /\ POOOMarked(c.commitPOOO, n)
        /\ Leaf(s, n) # Vacant => Leaf(s, n).key = n
        /\ ~ IsExecuting(s, n) => ~ IsExecuting(c, n)
        /\ Lockable(c, n) \/ IsExecuting(c, n) => n <= s.commitPOOO.nextEmpty
    <2>1. CASE OptimizedNonceCommittable(s, n)
      <3>1. c = CommitPacket(s, n, EmptyCell)
        BY <2>1 DEF CommitFakePacket
      <3> HIDE DEF c
      <3>2. /\ StorageInv(c)
            /\ OnlyChanges(s, c, n)
            /\ c.commitPOOO = POOOSet(s.commitPOOO, n)
            /\ c.executePOOO = s.executePOOO
            /\ POOOMarked(c.commitPOOO, n)
            /\ Leaf(s, n) # Vacant => Leaf(s, n).key = n
        BY <2>1, <3>1, CommitPreserves, CommitEffect
      <3>3. Leaf(c, n).status = "committed"
        BY <2>1, <3>1, CommitEffect
      <3>4. ASSUME Lockable(c, n)
            PROVE  n <= s.commitPOOO.nextEmpty
        <4> SUFFICES ASSUME s.commitPOOO.nextEmpty < n
                     PROVE  FALSE
          BY <1>1
        <4>1. c.commitPOOO.nextEmpty \in Nat /\ n < c.commitPOOO.nextEmpty
          BY <3>2, <3>4, StorageComponents DEF StorageInv, Lockable
        <4>2. POOOMarked(c.commitPOOO, s.commitPOOO.nextEmpty)
          BY <1>1, <4>1 DEF POOOMarked
        <4>3. POOOMarked(s.commitPOOO, s.commitPOOO.nextEmpty)
          BY <1>1, <3>2, <4>2 DEF OnlyChanges
        <4> QED
          BY <1>1, <4>3 DEF POOOMarked
      <3> QED
        BY <3>2, <3>3, <3>4 DEF IsExecuting
    <2>2. CASE ~ OptimizedNonceCommittable(s, n)
      <3>1. c = s
        BY <2>2 DEF CommitFakePacket
      <3> HIDE DEF c
      <3>2. Leaf(s, n).key = n
        BY <3>1 DEF LockIfLockable, Lockable, IsExecuting, c
      <3>3. POOOMarked(s.commitPOOO, n)
        BY <3>2, ExecutingIsLive
      <3>4. POOOSet(s.commitPOOO, n) = s.commitPOOO
        BY <1>1, <3>3, SetMarkedIsIdentity
      <3>5. Lockable(s, n) \/ IsExecuting(s, n) => n < s.commitPOOO.nextEmpty
        BY <3>2, ExecutingIsLive DEF Lockable
      <3>6. OnlyChanges(s, s, n)
        BY <3>2 DEF OnlyChanges
      <3> QED
        BY <1>1, <3>1, <3>2, <3>3, <3>4, <3>5, <3>6
    <2> QED
      BY <2>1, <2>2
  <1> HIDE DEF c
  <1>3. /\ StorageInv(l)
        /\ OnlyChanges(c, l, n)
        /\ l.commitPOOO = c.commitPOOO
        /\ l.executePOOO = c.executePOOO
        /\ Lockable(c, n) \/ IsExecuting(c, n)
    <2>1. CASE Lockable(c, n)
      <3>1. l = SetStatus(c, n, "executing") /\ Leaf(c, n).key = n /\ n < c.commitPOOO.nextEmpty
        BY <2>1 DEF LockIfLockable, Lockable, c
      <3> QED
        BY <1>2, <2>1, <3>1, SetStatusPreserves, SetStatusEffect
    <2>2. CASE ~ Lockable(c, n)
      <3>1. l = c
        BY <2>2 DEF LockIfLockable, c
      <3> QED
        BY <1>2, <3>1 DEF OnlyChanges, IsExecuting
    <2> QED
      BY <2>1, <2>2
  <1>4. /\ OnlyChanges(l, t, n)
        /\ t.commitPOOO = l.commitPOOO
        /\ t.executePOOO = POOOSet(l.executePOOO, n)
        /\ POOOMarked(t.executePOOO, n)
        /\ Leaf(t, n) = Vacant
    BY <1>3, MarkExecutedEffect
  <1>5. OnlyChanges(s, t, n)
    BY <1>2, <1>3, <1>4 DEF OnlyChanges
  <1>6. /\ ~ POOOMarked(l.executePOOO, n)
        /\ n >= l.executePOOO.nextEmpty
        /\ n <= POOOMaxSettableBit(l.executePOOO)
    BY <1>3, ExecutingIsLive DEF IsExecuting
  <1> QED
    BY <1>2, <1>3, <1>4, <1>5, <1>6

\* The same of the steps, to be cited by the proofs about steps.
LEMMA LiveStorage ==
    ASSUME IInv, NEW n \in Nonces
    PROVE  /\ StorageInv(storage)
           /\ n \in Nat
           /\ storage.commitPOOO.nextEmpty \in Nat
           /\ storage.executePOOO.nextEmpty \in Nat
  BY StorageComponents DEF IInv, StorageInv, Nonces

LEMMA NilifyActs ==
    ASSUME IInv, NEW n \in Nonces, Nilify(n)
    PROVE  /\ OptimizedNonceCommittable(storage, n)
           /\ OnlyChanges(storage, storage', n)
           /\ storage'.commitPOOO = POOOSet(storage.commitPOOO, n)
           /\ storage'.executePOOO = storage.executePOOO
           /\ POOOMarked(storage'.commitPOOO, n)
           /\ ~ POOOMarked(storage.executePOOO, n)
           /\ Leaf(storage, n) # Vacant =>
                  Leaf(storage, n).key = n /\ Leaf(storage, n).status = "committed"
           /\ Leaf(storage', n) = Vacant
  <1>1. OptimizedNonceCommittable(storage, n)
    BY LiveStorage, CommittableTests DEF Nilify
  <1> DEFINE t == [CommitFakePacket(storage, n) EXCEPT
                       !.executionQueue = DICQDelete(storage.executionQueue, n)]
  <1>2. storage' = t
    BY DEF Nilify
  <1>3. /\ OnlyChanges(storage, t, n)
        /\ t.commitPOOO = POOOSet(storage.commitPOOO, n)
        /\ t.executePOOO = storage.executePOOO
        /\ POOOMarked(t.commitPOOO, n)
        /\ ~ POOOMarked(storage.executePOOO, n)
        /\ Leaf(storage, n) # Vacant =>
               Leaf(storage, n).key = n /\ Leaf(storage, n).status = "committed"
        /\ Leaf(t, n) = Vacant
    BY <1>1, LiveStorage, NilifyEffect
  <1> HIDE DEF t
  <1> QED
    BY <1>1, <1>2, <1>3

LEMMA BurnActs ==
    ASSUME IInv, NEW n \in Nonces, Burn(n)
    PROVE  /\ OnlyChanges(storage, storage', n)
           /\ storage'.commitPOOO = POOOSet(storage.commitPOOO, n)
           /\ storage'.executePOOO = POOOSet(storage.executePOOO, n)
           /\ POOOMarked(storage'.commitPOOO, n)
           /\ POOOMarked(storage'.executePOOO, n)
           /\ Leaf(storage, n) # Vacant => Leaf(storage, n).key = n
           /\ Leaf(storage', n) = Vacant
           /\ n <= storage.commitPOOO.nextEmpty
           /\ n >= storage.executePOOO.nextEmpty
           /\ n <= POOOMaxSettableBit(storage.executePOOO)
           /\ ~ POOOMarked(storage.executePOOO, n)
  <1> DEFINE l == LockIfLockable(CommitFakePacket(storage, n), n)
  <1>1. IsExecuting(l, n) /\ storage' = MarkExecuted(l, n)
    BY DEF Burn
  <1> HIDE DEF l
  <1>2. l = LockIfLockable(CommitFakePacket(storage, n), n)
    BY DEF l
  <1> QED
    BY <1>1, <1>2, LiveStorage, BurnEffect

-----------------------------------------------------------------------------
(* The answers to the msglib connections *)

LEMMA CallbackMeansCommittedStep ==
    ASSUME IInv, CallbackMeansCommitted, [Next]_vars
    PROVE  CallbackMeansCommitted'
  <1>1. ASSUME NEW n \in Nonces, NEW message \in Messages, NEW connection \in Connections,
               ChannelCommitPacket(n, message, connection)
        PROVE  CallbackMeansCommitted'
    <2>1. StorageInv(storage) /\ n \in Nat
      BY LiveStorage
    <2>2. CASE n <= POOOMaxSettableBit(storage.executePOOO)
      <3>1. POOOMarked(storage'.commitPOOO, n)
        <4>1. CASE OptimizedNonceCommittable(storage, n)
          BY <1>1, <2>1, <4>1, CommitEffect DEF ChannelCommitPacket
        <4>2. CASE ~ OptimizedNonceCommittable(storage, n)
          BY <1>1, <2>1, <2>2, <4>2, UncommittableIsCommitted DEF ChannelCommitPacket
        <4> QED
          BY <4>1, <4>2
      <3>2. reply'.nonce = n
        BY <1>1, <2>2 DEF ChannelCommitPacket, CommitCallback
      <3> QED
        BY <3>1, <3>2 DEF CallbackMeansCommitted
    <2>3. CASE ~ (n <= POOOMaxSettableBit(storage.executePOOO))
      BY <1>1, <2>3 DEF ChannelCommitPacket, NoReply, CallbackMeansCommitted
    <2> QED
      BY <2>2, <2>3
  <1>2. ASSUME NEW n \in Nonces, NEW connection \in Connections,
               NotifyPacketExecuted(n, connection)
        PROVE  CallbackMeansCommitted'
    <2>1. POOOMarked(storage.commitPOOO, n)
      BY <1>2 DEF NotifyPacketExecuted, ViewExecutionStatus
    <2> QED
      BY <1>2, <2>1 DEF NotifyPacketExecuted, CommitCallback, CallbackMeansCommitted
  <1>3. ASSUME reply' = NoReply
        PROVE  CallbackMeansCommitted'
    BY <1>3 DEF NoReply, CallbackMeansCommitted
  <1>4. ASSUME NEW connection \in Connections, SyncMsglibConnection(connection)
        PROVE  CallbackMeansCommitted'
    BY <1>4 DEF SyncMsglibConnection, CallbackMeansCommitted
  <1>5. CASE UNCHANGED vars
    BY <1>5 DEF vars, CallbackMeansCommitted
  <1>6. CASE Next
    BY <1>1, <1>2, <1>3, <1>4, <1>6
       DEF Next, SetEpConfigOApp, LzReceivePrepare, LzReceiveLock, LzReceiveExecuteCallback,
           Nilify, Burn, OAppLzReceivePrepare, OAppLzReceiveExecute, Tick
  <1> QED
    BY <1>5, <1>6

\* A connection that is told that a nonce is committed may drop it: it is
\* committed, or was just committed, or is executed (channelCommitPacket,
\* notifyPacketExecuted).
THEOREM CallbacksAreTrue == Spec => []CallbackMeansCommitted
  <1>1. Init => CallbackMeansCommitted
    BY DEF Init, NoReply, CallbackMeansCommitted
  <1>2. IInv /\ CallbackMeansCommitted /\ [Next]_vars => CallbackMeansCommitted'
    BY CallbackMeansCommittedStep
  <1> QED
    BY <1>1, <1>2, Invariance, PTL DEF Spec

-----------------------------------------------------------------------------
(* The queue, from step to step *)

\* What PacketNeverEvicted says of one slot.
NotEvicted(slot) ==
    LET before == storage.executionQueue[slot]
        after  == storage'.executionQueue[slot]
    IN  before.key # InvalidKey /\ after.key # before.key =>
            /\ after = Vacant
            /\ \/ POOOMarked(storage'.executePOOO, before.key)
               \/ before.status = "committed"

\* A step that changes one nonce, whose slot is given to it or emptied.
LEMMA NotEvictedByChange ==
    ASSUME NEW n \in Nat, OnlyChanges(storage, storage', n), NEW slot \in Slots,
           \/ Leaf(storage', n).key = n
           \/ /\ Leaf(storage', n) = Vacant
              /\ \/ POOOMarked(storage'.executePOOO, n)
                 \/ Leaf(storage, n) # Vacant => Leaf(storage, n).status = "committed"
    PROVE  NotEvicted(slot)
  <1>1. CASE slot # SlotOf(n)
    BY <1>1 DEF OnlyChanges, NotEvicted
  <1>2. CASE slot = SlotOf(n)
    BY <1>2 DEF OnlyChanges, NotEvicted, Leaf, DICQGet, Vacant
  <1> QED
    BY <1>1, <1>2

LEMMA NotEvictedStep ==
    ASSUME IInv, [Next]_vars, NEW slot \in Slots
    PROVE  NotEvicted(slot)
  <1>1. StorageInv(storage)
    BY DEF IInv
  <1>2. ASSUME storage'.executionQueue = storage.executionQueue
        PROVE  NotEvicted(slot)
    BY <1>2 DEF NotEvicted
  <1>3. ASSUME NEW n \in Nonces, NEW message \in Messages, NEW connection \in Connections,
               ChannelCommitPacket(n, message, connection)
        PROVE  NotEvicted(slot)
    <2>1. CASE OptimizedNonceCommittable(storage, n)
      <3>1. storage' = CommitPacket(storage, n, message)
        BY <1>3, <2>1 DEF ChannelCommitPacket
      <3>2. OnlyChanges(storage, storage', n) /\ Leaf(storage', n).key = n
        BY <1>1, <2>1, <3>1, LiveStorage, CommitEffect
      <3> QED
        BY <3>2, LiveStorage, NotEvictedByChange
    <2>2. CASE ~ OptimizedNonceCommittable(storage, n)
      BY <1>2, <1>3, <2>2 DEF ChannelCommitPacket
    <2> QED
      BY <2>1, <2>2
  <1>4. ASSUME NEW n \in Nonces, LzReceiveLock(n)
        PROVE  NotEvicted(slot)
    <2>1. CASE Lockable(storage, n)
      <3>1. /\ storage' = SetStatus(storage, n, "executing")
            /\ Leaf(storage, n).key = n
            /\ n < storage.commitPOOO.nextEmpty
        BY <1>4, <2>1 DEF LzReceiveLock, LockIfLockable, Lockable
      <3>2. OnlyChanges(storage, storage', n) /\ Leaf(storage', n).key = n
        BY <1>1, <3>1, LiveStorage, SetStatusEffect
      <3> QED
        BY <3>2, LiveStorage, NotEvictedByChange
    <2>2. CASE ~ Lockable(storage, n)
      BY <1>2, <1>4, <2>2 DEF LzReceiveLock, LockIfLockable
    <2> QED
      BY <2>1, <2>2
  <1>5. ASSUME NEW n \in Nonces, NEW success \in BOOLEAN,
               LzReceiveExecuteCallback(n, success)
        PROVE  NotEvicted(slot)
    <2>1. CASE IsExecuting(storage, n) /\ success
      <3>1. storage' = MarkExecuted(storage, n)
        BY <1>5, <2>1 DEF LzReceiveExecuteCallback
      <3>2. /\ OnlyChanges(storage, storage', n)
            /\ Leaf(storage', n) = Vacant
            /\ POOOMarked(storage'.executePOOO, n)
        BY <1>1, <2>1, <3>1, LiveStorage, MarkExecutedEffect
      <3> QED
        BY <3>2, LiveStorage, NotEvictedByChange
    <2>2. CASE IsExecuting(storage, n) /\ ~ success
      <3>1. storage' = SetStatus(storage, n, "committed") /\ Leaf(storage, n).key = n
        BY <1>5, <2>2 DEF LzReceiveExecuteCallback, IsExecuting
      <3>2. OnlyChanges(storage, storage', n) /\ Leaf(storage', n).key = n
        BY <1>1, <3>1, LiveStorage, SetStatusEffect
      <3> QED
        BY <3>2, LiveStorage, NotEvictedByChange
    <2>3. CASE ~ IsExecuting(storage, n)
      BY <1>2, <1>5, <2>3 DEF LzReceiveExecuteCallback
    <2> QED
      BY <2>1, <2>2, <2>3
  <1>6. ASSUME NEW n \in Nonces, Nilify(n)
        PROVE  NotEvicted(slot)
    <2>1. /\ OnlyChanges(storage, storage', n)
          /\ Leaf(storage', n) = Vacant
          /\ Leaf(storage, n) # Vacant => Leaf(storage, n).status = "committed"
      BY <1>6, NilifyActs
    <2> QED
      BY <2>1, LiveStorage, NotEvictedByChange
  <1>7. ASSUME NEW n \in Nonces, Burn(n)
        PROVE  NotEvicted(slot)
    <2>1. /\ OnlyChanges(storage, storage', n)
          /\ Leaf(storage', n) = Vacant
          /\ POOOMarked(storage'.executePOOO, n)
      BY <1>7, BurnActs
    <2> QED
      BY <2>1, LiveStorage, NotEvictedByChange
  <1>8. ASSUME NEW config \in OAppConfigs, SetEpConfigOApp(config)
        PROVE  NotEvicted(slot)
    BY <1>1, <1>2, <1>8 DEF SetEpConfigOApp, StorageInv, Storage
  <1>9. CASE UNCHANGED vars
    BY <1>2, <1>9 DEF vars
  <1>10. CASE Next
    BY <1>2, <1>3, <1>4, <1>5, <1>6, <1>7, <1>8, <1>10
       DEF Next, LzReceivePrepare, NotifyPacketExecuted, SyncMsglibConnection,
           OAppLzReceivePrepare, OAppLzReceiveExecute, Tick
  <1> QED
    BY <1>9, <1>10

\* No packet is evicted to make room for another nonce: a packet leaves the
\* queue by being executed or burned, or, unless it is executing, by nilify.
THEOREM NeverEvicted == Spec => PacketNeverEvicted
  <1>1. IInv /\ [Next]_vars => [\A slot \in Slots : NotEvicted(slot)]_vars
    BY NotEvictedStep
  <1>2. (\A slot \in Slots : NotEvicted(slot)) <=>
        \A slot \in Slots :
           LET before == storage.executionQueue[slot]
               after  == storage'.executionQueue[slot]
           IN  before.key # InvalidKey /\ after.key # before.key =>
                   /\ after = Vacant
                   /\ \/ POOOMarked(storage'.executePOOO, before.key)
                      \/ before.status = "committed"
    BY DEF NotEvicted
  <1> QED
    BY <1>1, <1>2, Invariance, PTL DEF Spec, PacketNeverEvicted

-----------------------------------------------------------------------------
(* The frontiers that a connection sees: every step is a step of             *)
(* ChannelFrontiers for each connection, whatever it does to the queue       *)

\* The operators of the instance are those of the channel.
LEMMA SeenOperators ==
    ASSUME NEW connection \in Connections, NEW p, NEW n
    PROVE  /\ Seen(connection)!POOOSet(p, n) = POOOSet(p, n)
           /\ Seen(connection)!POOOMaxSettableBit(p) = POOOMaxSettableBit(p)
           /\ Seen(connection)!POOOIsBitSet(p, n) <=> POOOIsBitSet(p, n)
           /\ Seen(connection)!POOOMarked(p, n) <=> POOOMarked(p, n)
           /\ Seen(connection)!Nonces = Nonces
           /\ Seen(connection)!POOONew = POOONew
  BY DEF Seen!POOOSet, Seen!POOOAdvance, Seen!Min, POOOSet, POOOAdvance, Min,
         Seen!POOOMaxSettableBit, POOOMaxSettableBit, Seen!POOOIsBitSet, POOOIsBitSet,
         Seen!POOOMarked, POOOMarked, Seen!Nonces, Nonces, Seen!POOONew, POOONew

\* In the window and not executed, which is to ask of a nonce what the channel
\* asks, but for its execution.
LEMMA SeenOpen ==
    ASSUME NEW connection \in Connections, NEW n \in Nat, StorageInv(storage)
    PROVE  /\ Seen(connection)!Open(n) <=>
                  /\ n >= storage.executePOOO.nextEmpty
                  /\ n <= POOOMaxSettableBit(storage.executePOOO)
                  /\ ~ POOOMarked(storage.executePOOO, n)
           /\ OptimizedNonceCommittable(storage, n) => Seen(connection)!Open(n)
           /\ ~ OptimizedNonceCommittable(storage, n) /\ Seen(connection)!Open(n) =>
                  POOOMarked(storage.commitPOOO, n)
  <1>1. storage.executePOOO.nextEmpty \in Nat
    BY StorageComponents DEF StorageInv
  <1>2. Seen(connection)!Open(n) <=>
            /\ n >= storage.executePOOO.nextEmpty
            /\ n <= POOOMaxSettableBit(storage.executePOOO)
            /\ ~ POOOIsBitSet(storage.executePOOO, n)
    BY SeenOperators DEF Seen!Open
  <1>3. n >= storage.executePOOO.nextEmpty =>
            (POOOIsBitSet(storage.executePOOO, n) <=> POOOMarked(storage.executePOOO, n))
    BY <1>1 DEF POOOIsBitSet, POOOMarked
  <1>4. OptimizedNonceCommittable(storage, n) => Seen(connection)!Open(n)
    BY <1>2 DEF OptimizedNonceCommittable
  <1>5. ~ OptimizedNonceCommittable(storage, n) /\ Seen(connection)!Open(n) =>
            POOOMarked(storage.commitPOOO, n)
    BY <1>2, UncommittableIsCommitted
  <1> QED
    BY <1>2, <1>3, <1>4, <1>5

\* A step that sends the connection nothing
SilentTo(connection) == AnswerTo(connection)' = Seen(connection)!NoAnswer

LEMMA SilentSteps ==
    ASSUME NEW connection \in Connections
    PROVE  /\ reply' = NoReply => SilentTo(connection)
           /\ reply'.to # connection => SilentTo(connection)
  <1>1. NullAddress # connection
    BY ChannelReceiveAssumption
  <1> QED
    BY <1>1 DEF NoReply, SilentTo, AnswerTo, Seen!NoAnswer

\* What a change of the frontiers looks like to a connection that is sent
\* nothing: no change, a commit of another's, an execution or a burn.
LEMMA SeenNoChange ==
    ASSUME NEW connection \in Connections, SilentTo(connection),
           storage'.commitPOOO = storage.commitPOOO,
           storage'.executePOOO = storage.executePOOO
    PROVE  Seen(connection)!FrontiersNext
  <1>1. Seen(connection)!Other
    BY DEF Seen!Other, SilentTo
  <1> QED
    BY <1>1 DEF Seen!FrontiersNext

LEMMA SeenCommit ==
    ASSUME NEW connection \in Connections, NEW n \in Nonces, StorageInv(storage),
           SilentTo(connection), OptimizedNonceCommittable(storage, n),
           storage'.commitPOOO = POOOSet(storage.commitPOOO, n),
           storage'.executePOOO = storage.executePOOO
    PROVE  Seen(connection)!FrontiersNext
  <1>1. n \in Nat /\ n \in Seen(connection)!Nonces
    BY DEF Nonces, Seen!Nonces
  <1>2. Seen(connection)!CommitSilently(n)
    BY <1>1, SeenOpen, SeenOperators DEF Seen!CommitSilently, SilentTo
  <1> QED
    BY <1>1, <1>2 DEF Seen!FrontiersNext

LEMMA SeenExecution ==
    ASSUME NEW connection \in Connections, NEW n \in Nonces, StorageInv(storage),
           SilentTo(connection), n <= storage.commitPOOO.nextEmpty,
           n >= storage.executePOOO.nextEmpty,
           n <= POOOMaxSettableBit(storage.executePOOO),
           ~ POOOMarked(storage.executePOOO, n),
           storage'.commitPOOO = POOOSet(storage.commitPOOO, n),
           storage'.executePOOO = POOOSet(storage.executePOOO, n)
    PROVE  Seen(connection)!FrontiersNext
  <1>1. n \in Nat /\ n \in Seen(connection)!Nonces
    BY DEF Nonces, Seen!Nonces
  <1>2. Seen(connection)!Open(n)
    BY <1>1, SeenOpen
  <1>3. Seen(connection)!ExecuteNonce(n)
    BY <1>2, SeenOperators DEF Seen!ExecuteNonce, SilentTo
  <1> QED
    BY <1>1, <1>3 DEF Seen!FrontiersNext

LEMMA SeenStep ==
    ASSUME IInv, Next, NEW connection \in Connections
    PROVE  Seen(connection)!FrontiersNext
  <1>1. StorageInv(storage)
    BY DEF IInv
  <1>2. ASSUME storage'.commitPOOO = storage.commitPOOO,
               storage'.executePOOO = storage.executePOOO,
               SilentTo(connection)
        PROVE  Seen(connection)!FrontiersNext
    BY <1>2, SeenNoChange
  <1>3. ASSUME NEW n \in Nonces, NEW message \in Messages, NEW presenter \in Connections,
               ChannelCommitPacket(n, message, presenter)
        PROVE  Seen(connection)!FrontiersNext
    <2> DEFINE committable == OptimizedNonceCommittable(storage, n)
    <2>1. /\ n \in Nat
          /\ storage.commitPOOO \in PipelinedOutOfOrder
          /\ \A i \in storage.commitPOOO.bitmap : storage.commitPOOO.nextEmpty < i
      BY <1>1, LiveStorage, StorageComponents DEF StorageInv, FrontiersOrdered
    <2>2. /\ committable => storage'.commitPOOO = POOOSet(storage.commitPOOO, n)
          /\ ~ committable => storage'.commitPOOO = storage.commitPOOO
          /\ storage'.executePOOO = storage.executePOOO
      <3>1. CASE committable
        <4>1. storage' = CommitPacket(storage, n, message)
          BY <1>3, <3>1 DEF ChannelCommitPacket
        <4> QED
          BY <1>1, <2>1, <3>1, <4>1, CommitEffect
      <3>2. CASE ~ committable
        BY <1>3, <3>2 DEF ChannelCommitPacket
      <3> QED
        BY <3>1, <3>2
    <2>3. CASE presenter = connection
      <3>1. storage'.commitPOOO = IF Seen(connection)!Open(n)
                                  THEN POOOSet(storage.commitPOOO, n)
                                  ELSE storage.commitPOOO
        <4>1. CASE committable
          BY <1>1, <2>1, <2>2, <4>1, SeenOpen
        <4>2. CASE ~ committable /\ Seen(connection)!Open(n)
          <5>1. POOOSet(storage.commitPOOO, n) = storage.commitPOOO
            BY <1>1, <2>1, <4>2, SeenOpen, SetMarkedIsIdentity
          <5> QED
            BY <2>2, <4>2, <5>1
        <4>3. CASE ~ committable /\ ~ Seen(connection)!Open(n)
          BY <2>2, <4>3
        <4> QED
          BY <4>1, <4>2, <4>3
      <3>2. AnswerTo(connection)' =
               IF n <= POOOMaxSettableBit(storage.executePOOO)
               THEN Seen(connection)!CallbackAnswer(n) ELSE Seen(connection)!NoAnswer
        <4>1. CASE n <= POOOMaxSettableBit(storage.executePOOO)
          <5>1. reply' = CommitCallback(connection, n, storage.executePOOO.nextEmpty)
            BY <1>3, <2>3, <4>1 DEF ChannelCommitPacket
          <5> QED
            BY <4>1, <5>1 DEF AnswerTo, CommitCallback, Seen!CallbackAnswer
        <4>2. CASE ~ (n <= POOOMaxSettableBit(storage.executePOOO))
          BY <1>3, <4>2, SilentSteps DEF ChannelCommitPacket, SilentTo
        <4> QED
          BY <4>1, <4>2
      <3>3. Seen(connection)!CommitAndAnswer(n)
        BY <2>2, <3>1, <3>2, SeenOperators DEF Seen!CommitAndAnswer
      <3>4. n \in Seen(connection)!Nonces
        BY DEF Nonces, Seen!Nonces
      <3> QED
        BY <3>3, <3>4 DEF Seen!FrontiersNext
    <2>4. CASE presenter # connection
      <3>1. SilentTo(connection)
        BY <1>3, <2>4, SilentSteps DEF ChannelCommitPacket, CommitCallback
      <3> QED
        BY <1>1, <1>2, <2>2, <3>1, SeenCommit
    <2> QED
      BY <2>3, <2>4
  <1>4. ASSUME NEW n \in Nonces, LzReceiveLock(n)
        PROVE  Seen(connection)!FrontiersNext
    <2>1. /\ storage'.commitPOOO = storage.commitPOOO
          /\ storage'.executePOOO = storage.executePOOO
      <3>1. CASE Lockable(storage, n)
        <4>1. /\ storage' = SetStatus(storage, n, "executing")
              /\ Leaf(storage, n).key = n
              /\ n < storage.commitPOOO.nextEmpty
          BY <1>4, <3>1 DEF LzReceiveLock, LockIfLockable, Lockable
        <4> QED
          BY <1>1, <4>1, LiveStorage, SetStatusEffect
      <3>2. CASE ~ Lockable(storage, n)
        BY <1>4, <3>2 DEF LzReceiveLock, LockIfLockable
      <3> QED
        BY <3>1, <3>2
    <2> QED
      BY <1>2, <1>4, <2>1, SilentSteps DEF LzReceiveLock
  <1>5. ASSUME NEW n \in Nonces, NEW success \in BOOLEAN,
               LzReceiveExecuteCallback(n, success)
        PROVE  Seen(connection)!FrontiersNext
    <2>1. SilentTo(connection)
      BY <1>5, SilentSteps DEF LzReceiveExecuteCallback
    <2>2. CASE IsExecuting(storage, n) /\ success
      <3>1. storage' = MarkExecuted(storage, n)
        BY <1>5, <2>2 DEF LzReceiveExecuteCallback
      <3>2. /\ storage'.commitPOOO = storage.commitPOOO
            /\ storage'.executePOOO = POOOSet(storage.executePOOO, n)
        BY <1>1, <2>2, <3>1, LiveStorage, MarkExecutedEffect
      <3>3. /\ ~ POOOMarked(storage.executePOOO, n)
            /\ n >= storage.executePOOO.nextEmpty
            /\ n <= POOOMaxSettableBit(storage.executePOOO)
            /\ n < storage.commitPOOO.nextEmpty
        BY <1>1, <2>2, LiveStorage, ExecutingIsLive DEF IsExecuting
      <3>4. POOOSet(storage.commitPOOO, n) = storage.commitPOOO
        BY <3>3 DEF POOOSet
      <3>5. n <= storage.commitPOOO.nextEmpty
        BY <3>3, LiveStorage
      <3> QED
        BY <1>1, <2>1, <3>2, <3>3, <3>4, <3>5, SeenExecution
    <2>3. CASE IsExecuting(storage, n) /\ ~ success
      <3>1. storage' = SetStatus(storage, n, "committed") /\ Leaf(storage, n).key = n
        BY <1>5, <2>3 DEF LzReceiveExecuteCallback, IsExecuting
      <3> QED
        BY <1>1, <1>2, <2>1, <3>1, LiveStorage, SetStatusEffect
    <2>4. CASE ~ IsExecuting(storage, n)
      BY <1>2, <1>5, <2>1, <2>4 DEF LzReceiveExecuteCallback
    <2> QED
      BY <2>2, <2>3, <2>4
  <1>6. ASSUME NEW n \in Nonces, Nilify(n)
        PROVE  Seen(connection)!FrontiersNext
    <2>1. /\ OptimizedNonceCommittable(storage, n)
          /\ storage'.commitPOOO = POOOSet(storage.commitPOOO, n)
          /\ storage'.executePOOO = storage.executePOOO
      BY <1>6, NilifyActs
    <2>2. SilentTo(connection)
      BY <1>6, SilentSteps DEF Nilify
    <2> QED
      BY <1>1, <2>1, <2>2, SeenCommit
  <1>7. ASSUME NEW n \in Nonces, Burn(n)
        PROVE  Seen(connection)!FrontiersNext
    <2>1. /\ storage'.commitPOOO = POOOSet(storage.commitPOOO, n)
          /\ storage'.executePOOO = POOOSet(storage.executePOOO, n)
          /\ n <= storage.commitPOOO.nextEmpty
          /\ n >= storage.executePOOO.nextEmpty
          /\ n <= POOOMaxSettableBit(storage.executePOOO)
          /\ ~ POOOMarked(storage.executePOOO, n)
      BY <1>7, BurnActs
    <2>2. SilentTo(connection)
      BY <1>7, SilentSteps DEF Burn
    <2> QED
      BY <1>1, <2>1, <2>2, SeenExecution
  <1>8. ASSUME NEW n \in Nonces, NEW asker \in Connections, NotifyPacketExecuted(n, asker)
        PROVE  Seen(connection)!FrontiersNext
    <2>1. CASE asker = connection
      <3>1. POOOMarked(storage.executePOOO, n)
        BY <1>8 DEF NotifyPacketExecuted, ViewExecutionStatus
      <3>2. AnswerTo(connection)' = Seen(connection)!CallbackAnswer(n)
        BY <1>8, <2>1 DEF NotifyPacketExecuted, AnswerTo, CommitCallback, Seen!CallbackAnswer
      <3>3. Seen(connection)!NotifyExecuted(n)
        BY <1>8, <3>1, <3>2, SeenOperators DEF NotifyPacketExecuted, Seen!NotifyExecuted
      <3>4. n \in Seen(connection)!Nonces
        BY DEF Nonces, Seen!Nonces
      <3> QED
        BY <3>3, <3>4 DEF Seen!FrontiersNext
    <2>2. CASE asker # connection
      BY <1>2, <1>8, <2>2, SilentSteps DEF NotifyPacketExecuted, CommitCallback
    <2> QED
      BY <2>1, <2>2
  <1>9. ASSUME NEW asker \in Connections, SyncMsglibConnection(asker)
        PROVE  Seen(connection)!FrontiersNext
    <2>1. CASE asker = connection
      <3> DEFINE c == storage.commitPOOO.nextEmpty
                 e == storage.executePOOO.nextEmpty
      <3>0. AnswerTo(connection)' =
               [op |-> "MSGLIB_CONNECTION_SYNC_CHANNEL_STATE", nonce |-> c, firstUnexecuted |-> e]
        <4>1. /\ reply'.op = "MSGLIB_CONNECTION_SYNC_CHANNEL_STATE"
              /\ reply'.to = connection
              /\ reply'.nonce = c
              /\ reply'.firstUnexecuted = e
          BY <1>9, <2>1 DEF SyncMsglibConnection
        <4> HIDE DEF c, e
        <4> QED
          BY <4>1 DEF AnswerTo
      <3>1. Seen(connection)!Synchronize
        BY <1>9, <3>0 DEF SyncMsglibConnection, Seen!Synchronize, Seen!SyncAnswer
      <3> QED
        BY <3>1 DEF Seen!FrontiersNext
    <2>2. CASE asker # connection
      BY <1>2, <1>9, <2>2, SilentSteps DEF SyncMsglibConnection
    <2> QED
      BY <2>1, <2>2
  <1>10. ASSUME NEW config \in OAppConfigs, SetEpConfigOApp(config)
         PROVE  Seen(connection)!FrontiersNext
    BY <1>1, <1>2, <1>10, SilentSteps DEF SetEpConfigOApp, StorageInv, Storage
  <1>11. ASSUME reply' = NoReply, UNCHANGED storage
         PROVE  Seen(connection)!FrontiersNext
    BY <1>2, <1>11, SilentSteps
  <1> QED
    BY <1>3, <1>4, <1>5, <1>6, <1>7, <1>8, <1>9, <1>10, <1>11
       DEF Next, LzReceivePrepare, OAppLzReceivePrepare, OAppLzReceiveExecute, Tick

\* The channel, with its execution queue, its OApp and its owner, shows each
\* msglib connection nothing that ChannelFrontiers does not allow; so what is
\* proved of UlnConnection, which is built on ChannelFrontiers, is not about a
\* channel that cannot be.
THEOREM RefinesChannelFrontiers == Spec => ImplementsChannelFrontiers
  <1>1. Init => \A connection \in Connections : Seen(connection)!FrontiersInit
    <2> SUFFICES ASSUME Init, NEW connection \in Connections
                 PROVE  Seen(connection)!FrontiersInit
      OBVIOUS
    <2>1. reply = NoReply /\ storage.commitPOOO = POOONew /\ storage.executePOOO = POOONew
      BY DEF Init
    <2>2. connection # NullAddress
      BY ChannelReceiveAssumption
    <2>3. AnswerTo(connection) = Seen(connection)!NoAnswer
      BY <2>1, <2>2 DEF AnswerTo, NoReply, Seen!NoAnswer
    <2> QED
      BY <2>1, <2>3, SeenOperators DEF Seen!FrontiersInit
  <1>2. ASSUME IInv, [Next]_vars
        PROVE  [\A connection \in Connections :
                   [Seen(connection)!FrontiersNext]_(Seen(connection)!frontiers)]_vars
    BY <1>2, SeenStep
  <1> QED
    BY <1>1, <1>2, Invariance, PTL DEF Spec, ImplementsChannelFrontiers

-----------------------------------------------------------------------------
(* The promise of InboundNonces: every step of the channel or of the OApp    *)
(* is a step of one nonce, or changes nothing that InboundNonces speaks of   *)

\* The refinement mapping, as functions of the nonce.
StatusMap == [nonce \in Nonces |-> InboundStatus(nonce)]
PacketMap == [nonce \in Nonces |-> InboundPacket(nonce)]

InboundUnchanged == StatusMap' = StatusMap /\ PacketMap' = PacketMap

\* The slot of a nonce is its own before and after the change of another.
LEMMA OthersLeaf ==
    ASSUME NEW s, StorageInv(s), NEW n \in Nat, NEW t, OnlyChanges(s, t, n),
           NEW k \in Nat \ {n}
    PROVE  \/ Leaf(t, k) = Leaf(s, k)
           \/ Leaf(s, k).key # k /\ Leaf(t, k).key # k
  <1>1. SlotOf(k) \in Slots /\ InvalidKey # k
    BY SlotType DEF InvalidKey
  <1>2. CASE SlotOf(k) # SlotOf(n)
    BY <1>1, <1>2 DEF OnlyChanges, Leaf, DICQGet
  <1>3. CASE SlotOf(k) = SlotOf(n)
    BY <1>1, <1>3 DEF OnlyChanges, Leaf, DICQGet
  <1> QED
    BY <1>2, <1>3

\* So the mapping of every other nonce stays.
LEMMA MapChanges ==
    ASSUME IInv, NEW n \in Nonces, OnlyChanges(storage, storage', n)
    PROVE  /\ StatusMap' = [StatusMap EXCEPT ![n] = InboundStatus(n)']
           /\ PacketMap' = [PacketMap EXCEPT ![n] = InboundPacket(n)']
  <1>1. StorageInv(storage) /\ n \in Nat
    BY LiveStorage
  <1>2. ASSUME NEW k \in Nonces, k # n
        PROVE  InboundStatus(k)' = InboundStatus(k) /\ InboundPacket(k)' = InboundPacket(k)
    <2>1. k \in Nat \ {n}
      BY <1>2 DEF Nonces
    <2>2. \/ Leaf(storage', k) = Leaf(storage, k)
          \/ Leaf(storage, k).key # k /\ Leaf(storage', k).key # k
      BY <1>1, <2>1, OthersLeaf
    <2>3. /\ POOOMarked(storage'.commitPOOO, k) <=> POOOMarked(storage.commitPOOO, k)
          /\ POOOMarked(storage'.executePOOO, k) <=> POOOMarked(storage.executePOOO, k)
      BY <2>1 DEF OnlyChanges
    <2>4. IsExecuting(storage', k) <=> IsExecuting(storage, k)
      BY <2>2 DEF IsExecuting
    <2> QED
      BY <2>2, <2>3, <2>4 DEF InboundStatus, InboundPacket
  <1> QED
    BY <1>2 DEF StatusMap, PacketMap

\* A storage that changes in its configuration only maps to the same.
LEMMA MapUnchanged ==
    ASSUME storage'.commitPOOO = storage.commitPOOO,
           storage'.executePOOO = storage.executePOOO,
           storage'.executionQueue = storage.executionQueue
    PROVE  InboundUnchanged
  <1>1. ASSUME NEW k \in Nonces
        PROVE  InboundStatus(k)' = InboundStatus(k) /\ InboundPacket(k)' = InboundPacket(k)
    BY DEF InboundStatus, InboundPacket, IsExecuting, Leaf
  <1> QED
    BY <1>1 DEF InboundUnchanged, StatusMap, PacketMap

\* Behind the commit frontier every nonce is committed.
LEMMA PrefixIsCommitted ==
    ASSUME StorageInv(storage), NEW n \in Nat, NEW bound \in Nat, bound <= MaxNonce,
           bound < storage.commitPOOO.nextEmpty
    PROVE  \A k \in 1 .. bound : StatusMap[k] # "uncommitted"
  <1> SUFFICES ASSUME NEW k \in 1 .. bound
               PROVE  StatusMap[k] # "uncommitted"
    OBVIOUS
  <1>1. storage.commitPOOO.nextEmpty \in Nat
    BY StorageComponents DEF StorageInv
  <1>2. k \in Nonces /\ POOOMarked(storage.commitPOOO, k)
    BY <1>1, ChannelReceiveAssumption DEF Nonces, POOOMarked
  <1> QED
    BY <1>2 DEF StatusMap, InboundStatus

\* A commit, and the commit without a packet by which a nonce is withdrawn.
LEMMA CommitRefines ==
    ASSUME IInv, NEW n \in Nonces, NEW message, OnlyChanges(storage, storage', n),
           POOOMarked(storage'.commitPOOO, n), ~ POOOMarked(storage.executePOOO, n),
           storage'.executePOOO = storage.executePOOO,
           ~ IsExecuting(storage, n), ~ IsExecuting(storage', n),
           InboundPacket(n)' = message, UNCHANGED deliveries
    PROVE  Inbound!Commit(n, message)
  <1>1. StatusMap[n] \in {"uncommitted", "committed"}
    BY DEF StatusMap, InboundStatus
  <1>2. InboundStatus(n)' = "committed"
    BY DEF InboundStatus
  <1>3. /\ StatusMap' = [StatusMap EXCEPT ![n] = "committed"]
        /\ PacketMap' = [PacketMap EXCEPT ![n] = message]
    BY <1>2, MapChanges
  <1> QED
    BY <1>1, <1>3 DEF Inbound!Commit, StatusMap, PacketMap

\* The end of a nonce.
LEMMA FinishRefines ==
    ASSUME IInv, NEW n \in Nonces, OnlyChanges(storage, storage', n),
           n <= storage.commitPOOO.nextEmpty, ~ POOOMarked(storage.executePOOO, n),
           POOOMarked(storage'.commitPOOO, n), POOOMarked(storage'.executePOOO, n),
           Leaf(storage', n) = Vacant, UNCHANGED deliveries
    PROVE  Inbound!Finish(n)
  <1>1. /\ StorageInv(storage)
        /\ n \in Nat
        /\ n >= 1
        /\ n <= MaxNonce
        /\ storage.commitPOOO.nextEmpty \in Nat
    BY LiveStorage, ChannelReceiveAssumption DEF Nonces
  <1>2. StatusMap[n] # "executed"
    BY DEF StatusMap, InboundStatus
  <1>3. \A k \in 1 .. n - 1 : StatusMap[k] # "uncommitted"
    <2>1. n - 1 \in Nat /\ n - 1 <= MaxNonce /\ n - 1 < storage.commitPOOO.nextEmpty
      BY <1>1, ChannelReceiveAssumption
    <2> QED
      BY <1>1, <2>1, PrefixIsCommitted
  <1>4. InboundStatus(n)' = "executed"
    BY DEF InboundStatus
  <1>5. InboundPacket(n)' = EmptyCell
    BY DEF InboundPacket, Vacant
  <1>6. /\ StatusMap' = [StatusMap EXCEPT ![n] = "executed"]
        /\ PacketMap' = [PacketMap EXCEPT ![n] = EmptyCell]
    BY <1>4, <1>5, MapChanges
  <1> QED
    BY <1>2, <1>3, <1>6 DEF Inbound!Finish, StatusMap, PacketMap

\* A locked packet starts, and a failed one is committed again.
LEMMA StartRefines ==
    ASSUME IInv, NEW n \in Nonces, Lockable(storage, n), UNCHANGED deliveries,
           storage' = SetStatus(storage, n, "executing")
    PROVE  Inbound!Start(n)
  <1>1. /\ StorageInv(storage)
        /\ n \in Nat
        /\ n <= MaxNonce
        /\ Leaf(storage, n).key = n
        /\ Leaf(storage, n).status = "committed"
        /\ n < storage.commitPOOO.nextEmpty
    BY LiveStorage, ChannelReceiveAssumption DEF Nonces, Lockable
  <1>2. /\ OnlyChanges(storage, storage', n)
        /\ storage'.commitPOOO = storage.commitPOOO
        /\ storage'.executePOOO = storage.executePOOO
        /\ Leaf(storage', n) =
               [key |-> n, status |-> "executing", object |-> Leaf(storage, n).object]
    BY <1>1, SetStatusEffect
  <1>3. POOOMarked(storage.commitPOOO, n) /\ ~ POOOMarked(storage.executePOOO, n)
    BY <1>1, ExecutingIsLive
  <1>4. StatusMap[n] = "committed"
    BY <1>1, <1>3 DEF StatusMap, InboundStatus, IsExecuting
  <1>5. PacketMap[n] # EmptyCell
    <2>1. Leaf(storage, n).object \in Messages
      BY <1>1, SlotType DEF IInv, RealPackets, Leaf, DICQGet, InvalidKey
    <2> QED
      BY <1>1, <2>1, ChannelReceiveAssumption DEF PacketMap, InboundPacket
  <1>6. \A k \in 1 .. n : StatusMap[k] # "uncommitted"
    BY <1>1, PrefixIsCommitted
  <1>7. InboundStatus(n)' = "executing"
    BY <1>2, <1>3 DEF InboundStatus, IsExecuting
  <1>8. InboundPacket(n)' = InboundPacket(n)
    BY <1>1, <1>2 DEF InboundPacket
  <1>9. /\ StatusMap' = [StatusMap EXCEPT ![n] = "executing"]
        /\ PacketMap' = PacketMap
    <2>1. PacketMap' = [PacketMap EXCEPT ![n] = InboundPacket(n)]
      BY <1>2, <1>8, MapChanges
    <2> QED
      BY <1>2, <1>7, <2>1, MapChanges DEF PacketMap
  <1> QED
    BY <1>4, <1>5, <1>6, <1>9
       DEF Inbound!Start, Inbound!PrefixCommitted, StatusMap, PacketMap

LEMMA FailRefines ==
    ASSUME IInv, NEW n \in Nonces, IsExecuting(storage, n), deliveries[n] = 0,
           UNCHANGED deliveries, storage' = SetStatus(storage, n, "committed")
    PROVE  Inbound!Fail(n)
  <1>1. StorageInv(storage) /\ n \in Nat /\ Leaf(storage, n).key = n
    BY LiveStorage DEF IsExecuting
  <1>2. /\ OnlyChanges(storage, storage', n)
        /\ storage'.commitPOOO = storage.commitPOOO
        /\ storage'.executePOOO = storage.executePOOO
        /\ Leaf(storage', n) =
               [key |-> n, status |-> "committed", object |-> Leaf(storage, n).object]
    BY <1>1, SetStatusEffect
  <1>3. POOOMarked(storage.commitPOOO, n) /\ ~ POOOMarked(storage.executePOOO, n)
    BY <1>1, ExecutingIsLive
  <1>4. StatusMap[n] = "executing"
    BY <1>3 DEF StatusMap, InboundStatus
  <1>5. InboundStatus(n)' = "committed"
    BY <1>2, <1>3 DEF InboundStatus, IsExecuting
  <1>6. InboundPacket(n)' = InboundPacket(n)
    BY <1>1, <1>2 DEF InboundPacket
  <1>7. /\ StatusMap' = [StatusMap EXCEPT ![n] = "committed"]
        /\ PacketMap' = PacketMap
    <2>1. PacketMap' = [PacketMap EXCEPT ![n] = InboundPacket(n)]
      BY <1>2, <1>6, MapChanges
    <2> QED
      BY <1>2, <1>5, <2>1, MapChanges DEF PacketMap
  <1> QED
    BY <1>4, <1>7 DEF Inbound!Fail, StatusMap, PacketMap

\* What is delivered was executing, or was burned while it was executing.
LEMMA DeliverRefines ==
    ASSUME IInv, NEW n \in Nonces, NEW message \in Messages \cup {EmptyCell},
           Execute(n, message) \in toOApp, UNCHANGED storage,
           deliveries' = [deliveries EXCEPT ![n] = @ + 1]
    PROVE  Inbound!Deliver(n)
  <1>1. /\ StorageInv(storage)
        /\ n \in Nat
        /\ InFlightInv(n)
        /\ deliveries \in [Nonces -> Nat]
    BY LiveStorage DEF IInv, TypeOK
  <1>2. /\ deliveries[n] = 0
        /\ POOOMarked(storage.executePOOO, n) \/ IsExecuting(storage, n)
    BY <1>1 DEF InFlightInv
  <1>3. POOOMarked(storage.commitPOOO, n)
    <2>1. CASE POOOMarked(storage.executePOOO, n)
      BY <1>1, <2>1, ExecutedIsCommitted DEF POOOMarked
    <2>2. CASE IsExecuting(storage, n)
      BY <1>1, <2>2, ExecutingIsLive DEF IsExecuting
    <2> QED
      BY <1>2, <2>1, <2>2
  <1>4. StatusMap[n] \in {"executing", "executed"}
    BY <1>2, <1>3 DEF StatusMap, InboundStatus
  <1>5. deliveries' = [deliveries EXCEPT ![n] = 1]
    BY <1>1, <1>2
  <1>6. StatusMap' = StatusMap /\ PacketMap' = PacketMap
    BY MapUnchanged DEF InboundUnchanged
  <1> QED
    BY <1>2, <1>4, <1>5, <1>6 DEF Inbound!Deliver, StatusMap, PacketMap

LEMMA InboundStep ==
    ASSUME IInv, [Next]_vars
    PROVE  [Inbound!InboundNext]_(Inbound!inboundVars)
  <1>1. StorageInv(storage)
    BY DEF IInv
  <1>2. ASSUME storage'.commitPOOO = storage.commitPOOO,
               storage'.executePOOO = storage.executePOOO,
               storage'.executionQueue = storage.executionQueue,
               deliveries' = deliveries
        PROVE  [Inbound!InboundNext]_(Inbound!inboundVars)
    BY <1>2, MapUnchanged DEF InboundUnchanged, Inbound!inboundVars, StatusMap, PacketMap
  <1>3. ASSUME NEW n \in Nonces,
               \/ \E message \in Messages : Inbound!Commit(n, message)
               \/ Inbound!Withdraw(n)
               \/ Inbound!Start(n)
               \/ Inbound!Deliver(n)
               \/ Inbound!Fail(n)
               \/ Inbound!Finish(n)
        PROVE  [Inbound!InboundNext]_(Inbound!inboundVars)
    <2>1. n \in Inbound!InboundNonce
      BY DEF Nonces, Inbound!InboundNonce
    <2> QED
      BY <1>3, <2>1 DEF Inbound!InboundNext
  <1>4. ASSUME NEW n \in Nonces, NEW message \in Messages, NEW connection \in Connections,
               ChannelCommitPacket(n, message, connection)
        PROVE  [Inbound!InboundNext]_(Inbound!inboundVars)
    <2>1. CASE OptimizedNonceCommittable(storage, n)
      <3>1. /\ storage' = CommitPacket(storage, n, message)
            /\ UNCHANGED deliveries
        BY <1>4, <2>1 DEF ChannelCommitPacket
      <3>2. /\ OnlyChanges(storage, storage', n)
            /\ storage'.executePOOO = storage.executePOOO
            /\ POOOMarked(storage'.commitPOOO, n)
            /\ ~ POOOMarked(storage.executePOOO, n)
            /\ Leaf(storage', n) =
                   [key |-> n, status |-> "committed", object |-> message]
        BY <1>1, <2>1, <3>1, LiveStorage, CommitEffect
      <3>3. /\ ~ IsExecuting(storage, n)
            /\ ~ IsExecuting(storage', n)
            /\ InboundPacket(n)' = message
        BY <2>1, <3>2 DEF OptimizedNonceCommittable, IsExecuting, InboundPacket
      <3>4. Inbound!Commit(n, message)
        BY <3>1, <3>2, <3>3, CommitRefines
      <3> QED
        BY <1>3, <3>4
    <2>2. CASE ~ OptimizedNonceCommittable(storage, n)
      BY <1>2, <1>4, <2>2 DEF ChannelCommitPacket
    <2> QED
      BY <2>1, <2>2
  <1>5. ASSUME NEW n \in Nonces, LzReceiveLock(n)
        PROVE  [Inbound!InboundNext]_(Inbound!inboundVars)
    <2>1. CASE Lockable(storage, n)
      <3>1. Inbound!Start(n)
        BY <1>5, <2>1, StartRefines DEF LzReceiveLock, LockIfLockable
      <3> QED
        BY <1>3, <3>1
    <2>2. CASE ~ Lockable(storage, n)
      BY <1>2, <1>5, <2>2 DEF LzReceiveLock, LockIfLockable
    <2> QED
      BY <2>1, <2>2
  <1>6. ASSUME NEW n \in Nonces, NEW success \in BOOLEAN,
               LzReceiveExecuteCallback(n, success)
        PROVE  [Inbound!InboundNext]_(Inbound!inboundVars)
    <2>1. /\ Callback(n, success) \in toChannel
          /\ UNCHANGED deliveries
      BY <1>6 DEF LzReceiveExecuteCallback, Callback
    <2>2. CASE IsExecuting(storage, n) /\ success
      <3>1. storage' = MarkExecuted(storage, n)
        BY <1>6, <2>2 DEF LzReceiveExecuteCallback
      <3>2. /\ OnlyChanges(storage, storage', n)
            /\ storage'.commitPOOO = storage.commitPOOO
            /\ POOOMarked(storage'.executePOOO, n)
            /\ Leaf(storage', n) = Vacant
        BY <1>1, <2>2, <3>1, LiveStorage, MarkExecutedEffect
      <3>3. /\ ~ POOOMarked(storage.executePOOO, n)
            /\ POOOMarked(storage.commitPOOO, n)
            /\ n < storage.commitPOOO.nextEmpty
        BY <1>1, <2>2, LiveStorage, ExecutingIsLive DEF IsExecuting
      <3>4. n <= storage.commitPOOO.nextEmpty
        BY <3>3, LiveStorage
      <3>5. Inbound!Finish(n)
        BY <2>1, <3>2, <3>3, <3>4, FinishRefines
      <3> QED
        BY <1>3, <3>5
    <2>3. CASE IsExecuting(storage, n) /\ ~ success
      <3>1. deliveries[n] = 0
        BY <2>1, <2>3 DEF IInv, InFlightInv
      <3>2. Inbound!Fail(n)
        BY <1>6, <2>1, <2>3, <3>1, FailRefines DEF LzReceiveExecuteCallback
      <3> QED
        BY <1>3, <3>2
    <2>4. CASE ~ IsExecuting(storage, n)
      BY <1>2, <1>6, <2>4 DEF LzReceiveExecuteCallback
    <2> QED
      BY <2>2, <2>3, <2>4
  <1>7. ASSUME NEW n \in Nonces, Nilify(n)
        PROVE  [Inbound!InboundNext]_(Inbound!inboundVars)
    <2>1. /\ OnlyChanges(storage, storage', n)
          /\ storage'.executePOOO = storage.executePOOO
          /\ POOOMarked(storage'.commitPOOO, n)
          /\ ~ POOOMarked(storage.executePOOO, n)
          /\ OptimizedNonceCommittable(storage, n)
          /\ Leaf(storage', n) = Vacant
      BY <1>7, NilifyActs
    <2>2. /\ ~ IsExecuting(storage, n)
          /\ ~ IsExecuting(storage', n)
          /\ InboundPacket(n)' = EmptyCell
      BY <2>1 DEF OptimizedNonceCommittable, IsExecuting, InboundPacket, Vacant
    <2>3. UNCHANGED deliveries
      BY <1>7 DEF Nilify
    <2>4. Inbound!Withdraw(n)
      BY <2>1, <2>2, <2>3, CommitRefines DEF Inbound!Withdraw
    <2> QED
      BY <1>3, <2>4
  <1>8. ASSUME NEW n \in Nonces, Burn(n)
        PROVE  [Inbound!InboundNext]_(Inbound!inboundVars)
    <2>1. UNCHANGED deliveries
      BY <1>8 DEF Burn
    <2>2. Inbound!Finish(n)
      BY <1>8, <2>1, BurnActs, FinishRefines
    <2> QED
      BY <1>3, <2>2
  <1>9. ASSUME NEW n \in Nonces, NEW message \in Messages \cup {EmptyCell},
               NEW outcome \in OAppOutcomes, OAppLzReceiveExecute(n, message, outcome)
        PROVE  [Inbound!InboundNext]_(Inbound!inboundVars)
    <2>1. Execute(n, message) \in toOApp /\ UNCHANGED storage
      BY <1>9 DEF OAppLzReceiveExecute, Execute
    <2>2. CASE outcome = "success"
      <3>1. Inbound!Deliver(n)
        BY <1>9, <2>1, <2>2, DeliverRefines DEF OAppLzReceiveExecute
      <3> QED
        BY <1>3, <3>1
    <2>3. CASE outcome # "success"
      BY <1>2, <1>9, <2>1, <2>3 DEF OAppLzReceiveExecute
    <2> QED
      BY <2>2, <2>3
  <1>10. ASSUME NEW config \in OAppConfigs, SetEpConfigOApp(config)
         PROVE  [Inbound!InboundNext]_(Inbound!inboundVars)
    BY <1>1, <1>2, <1>10 DEF SetEpConfigOApp, StorageInv, Storage
  <1>11. ASSUME UNCHANGED storage, UNCHANGED deliveries
         PROVE  [Inbound!InboundNext]_(Inbound!inboundVars)
    BY <1>2, <1>11
  <1>12. CASE UNCHANGED vars
    BY <1>11, <1>12 DEF vars
  <1>13. CASE Next
    BY <1>4, <1>5, <1>6, <1>7, <1>8, <1>9, <1>10, <1>11, <1>13
       DEF Next, LzReceivePrepare, OAppLzReceivePrepare, NotifyPacketExecuted,
           SyncMsglibConnection, Tick
  <1> QED
    BY <1>12, <1>13

\* The channel implements the nonce-by-nonce promise of InboundNonces: packets
\* start after all their predecessors are committed, are delivered at most
\* once and only while they are executing or burned, fail without having been
\* delivered, and are executed for good.
THEOREM RefinesInboundNonces == Spec => ImplementsInboundNonces
  <1>1. Init => Inbound!InboundInit
    <2> SUFFICES ASSUME Init
                 PROVE  Inbound!InboundInit
      OBVIOUS
    <2>1. ASSUME NEW n \in Nonces
          PROVE  InboundStatus(n) = "uncommitted" /\ InboundPacket(n) = EmptyCell
      <3>1. /\ storage.commitPOOO = POOONew
            /\ storage.executionQueue = DICQCreate
        BY DEF Init
      <3>2. n \in Nat /\ n >= 1 /\ SlotOf(n) \in Slots
        BY ChannelReceiveAssumption, SlotType DEF Nonces
      <3>3. ~ POOOMarked(storage.commitPOOO, n)
        BY <3>1, <3>2 DEF POOOMarked, POOONew
      <3>4. Leaf(storage, n) = Vacant
        BY <3>1, <3>2 DEF Leaf, DICQGet, DICQCreate
      <3> QED
        BY <3>3, <3>4 DEF InboundStatus, InboundPacket, Vacant
    <2>2. Nonces = Inbound!InboundNonce
      BY DEF Nonces, Inbound!InboundNonce
    <2>3. deliveries = [n \in Inbound!InboundNonce |-> 0]
      BY <2>2 DEF Init
    <2> QED
      BY <2>1, <2>2, <2>3 DEF Inbound!InboundInit
  <1>2. IInv /\ [Next]_vars => [Inbound!InboundNext]_(Inbound!inboundVars)
    BY InboundStep
  <1> QED
    BY <1>1, <1>2, Invariance, PTL DEF Spec, ImplementsInboundNonces, Inbound!InboundSpec
=============================================================================
