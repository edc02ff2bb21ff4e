------------------------ MODULE UlnConnectionProofs ------------------------
(***************************************************************************)
(* Proofs about UlnConnection, for every set of DVNs, every configuration  *)
(* with an honest quorum, every width of the bitmaps and every length of   *)
(* the queues: only final packets are forwarded, and the connection's copy *)
(* of the channel's frontiers is never ahead of the channel, never goes    *)
(* back and never misses a sync.                                           *)
(***************************************************************************)
EXTENDS UlnConnection, DataStructuresProofs, FiniteSetTheorems

Callback == "MSGLIB_CONNECTION_COMMIT_PACKET_CALLBACK"
Sync == "MSGLIB_CONNECTION_SYNC_CHANNEL_STATE"

-----------------------------------------------------------------------------
(* Bitmaps *)

\* POOO::set of a settable index adds one mark and stays in the cell.
LEMMA SetStep ==
    ASSUME NEW p \in PipelinedOutOfOrder, InWindow(p),
           NEW n \in Nat, n <= POOOMaxSettableBit(p),
           NEW q, q = POOOSet(p, n)
    PROVE  /\ q \in PipelinedOutOfOrder /\ InWindow(q)
           /\ p.nextEmpty <= q.nextEmpty
           /\ \A i \in Nat : POOOMarked(q, i) <=> POOOMarked(p, i) \/ i = n
  <1>1. /\ q \in PipelinedOutOfOrder
        /\ p.nextEmpty <= q.nextEmpty
        /\ \A i \in q.bitmap : q.nextEmpty < i /\ (i \in p.bitmap \/ i = n)
        /\ \A i \in Nat : POOOMarked(q, i) <=> POOOMarked(p, i) \/ i = n
    BY SetLemma DEF POOOSettable, InWindow
  <1>2. /\ p.nextEmpty \in Nat /\ q.nextEmpty \in Nat
        /\ p.bitmap \in SUBSET Nat /\ q.bitmap \in SUBSET Nat
    BY <1>1 DEF PipelinedOutOfOrder
  <1>3. InWindow(q)
    BY <1>1, <1>2, CellAssumption DEF InWindow, POOOMaxSettableBit
  <1> QED
    BY <1>1, <1>3

\* unsafeSetBits from the first zero, with a run of ones that the cell holds.
LEMMA FillStep ==
    ASSUME NEW p \in PipelinedOutOfOrder, InWindow(p),
           NEW end \in Nat, p.nextEmpty <= end, end <= p.nextEmpty + MAX_CELL_BITS,
           NEW q, q = POOOUnsafeSetBits(p, p.nextEmpty, end)
    PROVE  /\ q \in PipelinedOutOfOrder /\ InWindow(q)
           /\ end <= q.nextEmpty
           /\ \A i \in Nat : POOOMarked(q, i) <=> POOOMarked(p, i) \/ i < end
  <1> DEFINE marks == p.bitmap \cup (p.nextEmpty .. end - 1)
  <1>0. p.nextEmpty \in Nat /\ p.bitmap \in SUBSET Nat
    BY DEF PipelinedOutOfOrder
  <1>1. q = POOOAdvance(p.nextEmpty, marks)
    BY DEF POOOUnsafeSetBits
  <1>2. marks \in SUBSET Nat
    BY <1>0
  <1>3. \A i \in marks : p.nextEmpty <= i /\ i <= p.nextEmpty + MAX_CELL_BITS - 1
    BY <1>0, CellAssumption DEF InWindow, POOOMaxSettableBit
  <1>4. /\ q \in PipelinedOutOfOrder
        /\ p.nextEmpty <= q.nextEmpty
        /\ q.nextEmpty \notin marks
        /\ \A i \in p.nextEmpty .. q.nextEmpty - 1 : i \in marks
        /\ q.bitmap = {i \in marks : i > q.nextEmpty}
    <2> HIDE DEF marks
    <2> QED
      BY <1>0, <1>1, <1>2, <1>3, AdvanceLemma
  <1>5. q.nextEmpty \in Nat
    BY <1>4 DEF PipelinedOutOfOrder
  <1>6. end <= q.nextEmpty
    BY <1>0, <1>4, <1>5
  <1>7. InWindow(q)
    BY <1>0, <1>3, <1>4, <1>5, CellAssumption DEF InWindow, POOOMaxSettableBit
  <1>8. \A i \in Nat : POOOMarked(q, i) <=> POOOMarked(p, i) \/ i < end
    <2> SUFFICES ASSUME NEW i \in Nat
                 PROVE  POOOMarked(q, i) <=> i < p.nextEmpty \/ i \in marks
      BY <1>0 DEF POOOMarked
    <2>1. CASE i < q.nextEmpty
      BY <2>1, <1>0, <1>4, <1>5 DEF POOOMarked
    <2>2. CASE i = q.nextEmpty
      BY <2>2, <1>0, <1>4, <1>5 DEF POOOMarked
    <2>3. CASE i > q.nextEmpty
      BY <2>3, <1>0, <1>4, <1>5 DEF POOOMarked
    <2> QED
      BY <2>1, <2>2, <2>3, <1>5
  <1> QED
    BY <1>4, <1>6, <1>7, <1>8

\* A sync whose frontier the copy does not have yet fits, whichever base it
\* starts from, and marks everything before that frontier.
LEMMA SyncStep ==
    ASSUME NEW p \in PipelinedOutOfOrder, InWindow(p),
           NEW n \in Nat, ~ POOOMarked(p, n),
           NEW q, q = SyncCommits(p, n)
    PROVE  /\ SyncSettable(p, n)
           /\ q \in PipelinedOutOfOrder /\ InWindow(q)
           /\ p.nextEmpty <= q.nextEmpty
           /\ \A i \in Nat : POOOMarked(q, i) <=> POOOMarked(p, i) \/ i < n
  <1> DEFINE base == SyncBase(p, n)
  <1>0. p.nextEmpty \in Nat /\ p.bitmap \in SUBSET Nat
    BY DEF PipelinedOutOfOrder
  <1>1. p.nextEmpty <= n
    BY <1>0 DEF POOOMarked
  <1>2. POOOMaxSettableBit(p) \in Nat /\ POOOMaxSettableBit(p) = p.nextEmpty + MAX_CELL_BITS - 1
    BY <1>0, CellAssumption DEF POOOMaxSettableBit
  <1>3. /\ base \in PipelinedOutOfOrder /\ InWindow(base)
        /\ p.nextEmpty <= base.nextEmpty
        /\ base.nextEmpty <= n /\ n <= base.nextEmpty + MAX_CELL_BITS
        /\ \A i \in Nat : POOOMarked(base, i) \/ i < n <=> POOOMarked(p, i) \/ i < n
    <2>1. CASE n > POOOMaxSettableBit(p) + MAX_CELL_BITS - 1
      <3>1. base = [nextEmpty |-> n, bitmap |-> {}]
        BY <2>1 DEF SyncBase, POOONew
      <3>2. base \in PipelinedOutOfOrder /\ base.nextEmpty = n /\ base.bitmap = {}
        BY <3>1 DEF PipelinedOutOfOrder
      <3>3. \A i \in Nat : POOOMarked(p, i) => i < n
        BY <2>1, <1>0, <1>2, CellAssumption DEF POOOMarked, InWindow
      <3> QED
        BY <3>2, <3>3, <1>1, CellAssumption DEF InWindow, POOOMarked
    <2>2. CASE /\ ~ (n > POOOMaxSettableBit(p) + MAX_CELL_BITS - 1)
               /\ n > POOOMaxSettableBit(p)
      <3>1. base = POOOUnsafeSetBits(p, p.nextEmpty, POOOMaxSettableBit(p))
        BY <2>2 DEF SyncBase
      <3>2. p.nextEmpty <= POOOMaxSettableBit(p) /\ POOOMaxSettableBit(p) <= p.nextEmpty + MAX_CELL_BITS
        BY <1>0, <1>2, CellAssumption
      <3> HIDE DEF base
      <3>3. /\ base \in PipelinedOutOfOrder /\ InWindow(base)
            /\ POOOMaxSettableBit(p) <= base.nextEmpty
            /\ \A i \in Nat : POOOMarked(base, i) <=> POOOMarked(p, i) \/ i < POOOMaxSettableBit(p)
        BY <3>1, <3>2, <1>2, FillStep
      <3>4. base.nextEmpty \in Nat /\ base.bitmap \in SUBSET Nat
        BY <3>3 DEF PipelinedOutOfOrder
      <3>5. ~ POOOMarked(base, n)
        BY <3>3, <2>2, <1>2
      <3>6. base.nextEmpty <= n
        BY <3>4, <3>5 DEF POOOMarked
      <3>7. \A i \in Nat : POOOMarked(base, i) \/ i < n <=> POOOMarked(p, i) \/ i < n
        BY <3>3, <2>2, <1>2
      <3> QED
        BY <3>2, <3>3, <3>4, <3>6, <3>7, <2>2, <1>0, <1>2, CellAssumption
    <2>3. CASE ~ (n > POOOMaxSettableBit(p))
      <3>1. base = p
        BY <2>3, <1>2, CellAssumption DEF SyncBase
      <3> QED
        BY <3>1, <2>3, <1>0, <1>1, <1>2, CellAssumption
    <2> QED
      BY <2>1, <2>2, <2>3
  <1>4. q = POOOUnsafeSetBits(base, base.nextEmpty, n)
    BY DEF SyncCommits
  <1>5. SyncSettable(p, n)
    BY <1>3 DEF SyncSettable, UnsafeSettable
  <1> HIDE DEF base
  <1>6. /\ q \in PipelinedOutOfOrder /\ InWindow(q)
        /\ n <= q.nextEmpty
        /\ \A i \in Nat : POOOMarked(q, i) <=> POOOMarked(base, i) \/ i < n
    BY <1>3, <1>4, FillStep
  <1>7. q.nextEmpty \in Nat /\ base.nextEmpty \in Nat
    BY <1>3, <1>6 DEF PipelinedOutOfOrder
  <1> QED
    BY <1>0, <1>1, <1>3, <1>5, <1>6, <1>7

\* MarksWithin compares the marks of two bitmaps, prefix and ones together.
LEMMA Within ==
    ASSUME NEW p \in PipelinedOutOfOrder, NEW q \in PipelinedOutOfOrder, InWindow(q)
    PROVE  MarksWithin(p, q) <=> \A i \in Nat : POOOMarked(p, i) => POOOMarked(q, i)
  <1>0. /\ p.nextEmpty \in Nat /\ p.bitmap \in SUBSET Nat
        /\ q.nextEmpty \in Nat /\ q.bitmap \in SUBSET Nat
    BY DEF PipelinedOutOfOrder
  <1>1. ASSUME MarksWithin(p, q), NEW i \in Nat, POOOMarked(p, i)
        PROVE  POOOMarked(q, i)
    BY <1>0, <1>1 DEF MarksWithin, POOOMarked
  <1>2. ASSUME \A i \in Nat : POOOMarked(p, i) => POOOMarked(q, i)
        PROVE  MarksWithin(p, q)
    <2>1. ~ POOOMarked(q, q.nextEmpty)
      BY <1>0 DEF InWindow, POOOMarked
    <2>2. ~ (q.nextEmpty < p.nextEmpty)
      BY <1>0, <1>2, <2>1 DEF POOOMarked
    <2>3. \A i \in p.bitmap : POOOMarked(q, i)
      BY <1>0, <1>2 DEF POOOMarked
    <2> QED
      BY <1>0, <2>2, <2>3 DEF MarksWithin
  <1> QED
    BY <1>1, <1>2

-----------------------------------------------------------------------------
(* Components *)

LEMMA StorageComponents ==
    ASSUME NEW s \in Storage
    PROVE  /\ s.firstUnexecutedNonce \in Nat
           /\ s.commitPOOO \in PipelinedOutOfOrder
           /\ s.hashLookups \in [Nonces -> [DVNs -> Attestation \cup {NoAttestation}]]
           /\ s.ulnReceiveConfigOApp \in OAppConfigs \cup {NewWithDefaults}
  BY DEF Storage

LEMMA FromUlnComponents ==
    ASSUME NEW m \in FromUln
    PROVE  /\ m.default \in DefaultConfigs \cup {NewWithDefaults}
           /\ m.nonce \in Nonces
           /\ m.op = "ULN_CONNECTION_VERIFY" => m.dvn \in DVNs /\ m.attestation \in Attestation
           /\ m.op = "ULN_CONNECTION_COMMIT_PACKET" => m.packet \in Packets
  BY DEF FromUln

LEMMA FromChannelComponents ==
    ASSUME NEW m \in FromChannel
    PROVE  m.op \in {Callback, Sync} /\ m.nonce \in Nat /\ m.firstUnexecuted \in Nat
  BY DEF FromChannel, Callback, Sync

LEMMA NoncesAreNaturals == Nonces \subseteq Nat
  BY FrontiersAssumption DEF Nonces

\* The head and the tail of a queue that has a message.
LEMMA HeadAndTail ==
    ASSUME NEW S, NEW queue \in Seq(S), queue # <<>>
    PROVE  /\ 1 \in DOMAIN queue /\ Head(queue) = queue[1] /\ Head(queue) \in S
           /\ Tail(queue) \in Seq(S)
           /\ DOMAIN Tail(queue) = 1 .. Len(queue) - 1
           /\ DOMAIN queue = 1 .. Len(queue)
           /\ \A i \in DOMAIN Tail(queue) : i + 1 \in DOMAIN queue /\ Tail(queue)[i] = queue[i + 1]
  OBVIOUS

LEMMA Appended ==
    ASSUME NEW S, NEW queue \in Seq(S), NEW m \in S
    PROVE  /\ Append(queue, m) \in Seq(S)
           /\ DOMAIN Append(queue, m) = 1 .. Len(queue) + 1
           /\ DOMAIN queue = 1 .. Len(queue)
           /\ \A i \in DOMAIN queue : Append(queue, m)[i] = queue[i]
           /\ Append(queue, m)[Len(queue) + 1] = m
  OBVIOUS

LEMMA NewWithDefaultsIsSanitized == Sanitized(NewWithDefaults)
  <1>1. Null # {}
    BY UlnConnectionAssumption
  <1> QED
    BY <1>1 DEF Sanitized, NewWithDefaults

LEMMA NewWithDefaultsType == NewWithDefaults \in UlnReceiveConfig
  BY DEF NewWithDefaults, UlnReceiveConfig

\* A configuration that resolves to a valid one has lists of DVNs and a number
\* of confirmations.
LEMMA ResolvedType ==
    ASSUME NEW custom \in UlnReceiveConfig, NEW default \in UlnReceiveConfig,
           NEW config, config = Resolve(custom, default), IsValid(config)
    PROVE  /\ config.requiredDVNs \in SUBSET DVNs
           /\ config.optionalDVNs \in SUBSET DVNs
           /\ config.optionalDVNThreshold \in Nat
           /\ config.confirmations \in Nat
  <1>1. /\ custom.requiredDVNs \in (SUBSET DVNs) \cup {Null}
        /\ custom.optionalDVNs \in (SUBSET DVNs) \cup {Null}
        /\ custom.optionalDVNThreshold \in Nat
        /\ custom.confirmations \in Nat \cup {Null}
    BY DEF UlnReceiveConfig
  <1>2. /\ default.requiredDVNs \in (SUBSET DVNs) \cup {Null}
        /\ default.optionalDVNs \in (SUBSET DVNs) \cup {Null}
        /\ default.optionalDVNThreshold \in Nat
        /\ default.confirmations \in Nat \cup {Null}
    BY DEF UlnReceiveConfig
  <1>3. config.requiredDVNs = Else(custom.requiredDVNs, default.requiredDVNs)
    BY DEF Resolve
  <1>4. config.optionalDVNs = Else(custom.optionalDVNs, default.optionalDVNs)
    BY DEF Resolve
  <1>5. config.optionalDVNThreshold = IF custom.optionalDVNs = Null
                                      THEN default.optionalDVNThreshold
                                      ELSE custom.optionalDVNThreshold
    BY DEF Resolve
  <1>6. config.confirmations =
            IF custom.confirmations = Null
            THEN IF default.confirmations = Null THEN 0 ELSE default.confirmations
            ELSE custom.confirmations
    BY DEF Resolve
  <1>7. config.requiredDVNs # Null /\ config.optionalDVNs # Null
    BY DEF IsValid
  <1>8. config.requiredDVNs \in SUBSET DVNs
    BY <1>1, <1>2, <1>3, <1>7 DEF Else
  <1>9. config.optionalDVNs \in SUBSET DVNs
    BY <1>1, <1>2, <1>4, <1>7 DEF Else
  <1>10. config.optionalDVNThreshold \in Nat
    BY <1>1, <1>2, <1>5
  <1>11. config.confirmations \in Nat
    BY <1>1, <1>2, <1>6
  <1> QED
    BY <1>8, <1>9, <1>10, <1>11

\* A packet that every quorum with an honest member attests is the final one.
LEMMA QuorumIsHonest ==
    ASSUME NEW s \in Storage, NEW config, NEW nonce \in Nonces, NEW packet \in Packets,
           config.optionalDVNs \in SUBSET DVNs, config.requiredDVNs \in SUBSET DVNs,
           config.optionalDVNThreshold \in Nat, config.confirmations \in Nat,
           HasHonestQuorum(config), Committable(s, config, nonce, packet),
           \A dvn \in DVNs :
               HasAttestation(s, nonce, dvn) => MayAttest(dvn, s.hashLookups[nonce][dvn])
    PROVE  packet = FinalPacket
  <1>1. ASSUME NEW dvn \in HonestDVNs, Verified(s, config, nonce, packet, dvn)
        PROVE  packet = FinalPacket
    <2>1. dvn \in DVNs
      BY UlnConnectionAssumption
    <2>2. /\ HasAttestation(s, nonce, dvn)
          /\ s.hashLookups[nonce][dvn].hash = packet
          /\ s.hashLookups[nonce][dvn].confirmations >= config.confirmations
      BY <1>1 DEF Verified
    <2>3. s.hashLookups[nonce][dvn] \in Attestation
      BY <2>1, <2>2, StorageComponents DEF HasAttestation
    <2>4. s.hashLookups[nonce][dvn].confirmations \in Nat
      BY <2>3, UlnConnectionAssumption DEF Attestation
    <2>5. s.hashLookups[nonce][dvn].confirmations >= Finality
      BY <2>2, <2>4, UlnConnectionAssumption DEF HasHonestQuorum
    <2>6. MayAttest(dvn, s.hashLookups[nonce][dvn])
      BY <2>1, <2>2
    <2> QED
      BY <1>1, <2>2, <2>5, <2>6 DEF MayAttest
  <1>2. CASE config.requiredDVNs \cap HonestDVNs # {}
    <2>1. PICK dvn \in HonestDVNs : dvn \in config.requiredDVNs
      BY <1>2
    <2>2. Verified(s, config, nonce, packet, dvn)
      BY <2>1 DEF Committable
    <2> QED
      BY <1>1, <2>1, <2>2
  <1>3. CASE config.optionalDVNThreshold > Cardinality(config.optionalDVNs \ HonestDVNs)
    <2> DEFINE verified == {dvn \in config.optionalDVNs : Verified(s, config, nonce, packet, dvn)}
               others   == config.optionalDVNs \ HonestDVNs
    <2>1. Cardinality(verified) >= config.optionalDVNThreshold
      BY DEF Committable
    <2>2. IsFiniteSet(others) /\ IsFiniteSet(verified)
      <3>1. others \in SUBSET DVNs /\ verified \in SUBSET DVNs
        OBVIOUS
      <3> HIDE DEF others, verified
      <3> QED
        BY <3>1, FS_Subset, UlnConnectionAssumption
    <2>3. ~ (verified \subseteq others)
      <3>1. Cardinality(others) \in Nat /\ Cardinality(verified) \in Nat
        BY <2>2, FS_CardinalityType
      <3>2. Cardinality(verified) > Cardinality(others)
        BY <1>3, <2>1, <3>1
      <3>3. verified \subseteq others => Cardinality(verified) <= Cardinality(others)
        BY <2>2, FS_Subset
      <3> HIDE DEF others, verified
      <3> QED
        BY <3>1, <3>2, <3>3
    <2>4. PICK dvn \in verified : dvn \notin others
      BY <2>3
    <2> QED
      BY <1>1, <2>4
  <1> QED
    BY <1>2, <1>3 DEF HasHonestQuorum

-----------------------------------------------------------------------------
(* What the steps leave alone *)

\* A step of the ULN or of its messages, which touches neither the frontiers,
\* nor the connection's copy of them, nor the answers on their way.
LEMMA ChannelSideKept ==
    ASSUME IInv, UNCHANGED <<commits, executes, fromChannel>>,
           storage'.firstUnexecutedNonce = storage.firstUnexecutedNonce,
           storage'.commitPOOO = storage.commitPOOO
    PROVE  BitmapsAreNested' /\ AnswersAreTrue'
  <1>1. BitmapsAreNested'
    BY DEF IInv, BitmapsAreNested
  <1>2. AnswersAreTrue'
    BY DEF IInv, AnswersAreTrue, AnswerIsTrue
  <1> QED
    BY <1>1, <1>2

\* A step after which what is on record was on record before.
LEMMA RecordShrinks ==
    ASSUME IInv, storage' \in Storage,
           storage.firstUnexecutedNonce <= storage'.firstUnexecutedNonce,
           \A nonce \in Nonces, dvn \in DVNs :
               HasAttestation(storage', nonce, dvn) =>
                   storage'.hashLookups[nonce][dvn] = storage.hashLookups[nonce][dvn]
    PROVE  /\ LookupsInRange'
           /\ \A nonce \in Nonces, dvn \in DVNs :
                  HasAttestation(storage', nonce, dvn) =>
                      MayAttest(dvn, storage'.hashLookups[nonce][dvn])
  <1>1. \A nonce \in Nonces, dvn \in DVNs :
            HasAttestation(storage', nonce, dvn) => HasAttestation(storage, nonce, dvn)
    BY DEF HasAttestation
  <1>2. LookupNonces(storage') \subseteq LookupNonces(storage)
    BY <1>1 DEF LookupNonces
  <1>3. /\ storage.firstUnexecutedNonce \in Nat /\ storage'.firstUnexecutedNonce \in Nat
        /\ MAX_HASH_LOOKUPS \in Nat
    BY StorageComponents, UlnConnectionAssumption DEF IInv, TypeOK
  <1>4. LookupNonces(storage) \subseteq Nat
    BY NoncesAreNaturals DEF LookupNonces
  <1>5. LookupsInRange'
    <2>1. \A nonce \in LookupNonces(storage) :
              nonce < storage.firstUnexecutedNonce + MAX_HASH_LOOKUPS
      BY DEF IInv, LookupsInRange
    <2>2. \A nonce \in LookupNonces(storage') :
              nonce < storage'.firstUnexecutedNonce + MAX_HASH_LOOKUPS
      BY <1>2, <1>3, <1>4, <2>1
    <2> QED
      BY <2>2 DEF LookupsInRange
  <1>6. \A nonce \in Nonces, dvn \in DVNs :
            HasAttestation(storage', nonce, dvn) =>
                MayAttest(dvn, storage'.hashLookups[nonce][dvn])
    BY <1>1 DEF IInv, HonestOnRecord
  <1> QED
    BY <1>5, <1>6

\* A message of the ULN that has arrived is gone, the others are as they were.
LEMMA UlnMessageTaken ==
    ASSUME IInv, fromUln # <<>>, fromUln' = Tail(fromUln),
           Sanitized(storage'.ulnReceiveConfigOApp), UNCHANGED defaultConfig,
           \A nonce \in Nonces, dvn \in DVNs :
               HasAttestation(storage', nonce, dvn) =>
                   MayAttest(dvn, storage'.hashLookups[nonce][dvn])
    PROVE  fromUln' \in Seq(FromUln) /\ HonestOnRecord'
  <1>1. fromUln \in Seq(FromUln)
    BY DEF IInv, TypeOK
  <1>2. /\ fromUln' \in Seq(FromUln)
        /\ \A i \in DOMAIN fromUln' : i + 1 \in DOMAIN fromUln /\ fromUln'[i] = fromUln[i + 1]
    BY <1>1, HeadAndTail
  <1>3. \A i \in DOMAIN fromUln :
            /\ Sanitized(fromUln[i].default)
            /\ fromUln[i].op = "ULN_CONNECTION_VERIFY" =>
                   MayAttest(fromUln[i].dvn, fromUln[i].attestation)
    BY DEF IInv, HonestOnRecord
  <1>4. \A i \in DOMAIN fromUln' :
            /\ Sanitized(fromUln'[i].default)
            /\ fromUln'[i].op = "ULN_CONNECTION_VERIFY" =>
                   MayAttest(fromUln'[i].dvn, fromUln'[i].attestation)
    BY <1>2, <1>3
  <1>5. Sanitized(defaultConfig')
    BY DEF IInv, HonestOnRecord
  <1> QED
    BY <1>2, <1>4, <1>5 DEF HonestOnRecord

\* What the channel sends now is in order after all that is true of it.
LEMMA SentInOrder ==
    ASSUME NEW m \in FromChannel, NEW later \in FromChannel,
           NEW copy, NEW committed, NEW executed,
           AnswerIsTrue(m, copy, committed, executed),
           ~ POOOMarked(committed, committed.nextEmpty),
           later.firstUnexecuted = executed.nextEmpty,
           later.op = Sync => later.nonce = committed.nextEmpty
    PROVE  InOrder(m, later)
  <1>1. m.firstUnexecuted <= later.firstUnexecuted
    BY DEF AnswerIsTrue
  <1>2. m.op \in {Callback, Sync}
    BY FromChannelComponents
  <1>3. m.op = Sync /\ later.op = Sync => m.nonce <= later.nonce
    BY DEF AnswerIsTrue, Sync
  <1>4. m.op = Callback => POOOMarked(committed, m.nonce)
    BY DEF AnswerIsTrue, Callback
  <1>5. m.op = Callback /\ later.op = Sync => m.nonce # later.nonce
    BY <1>4
  <1> QED
    BY <1>1, <1>2, <1>3, <1>5 DEF InOrder, Sync, Callback

\* A step of the channel: it only adds marks, and what it answers is true.
LEMMA ChannelGrows ==
    ASSUME IInv, UNCHANGED storage,
           commits' \in PipelinedOutOfOrder, executes' \in PipelinedOutOfOrder,
           InWindow(commits'), InWindow(executes'),
           \A i \in Nat : POOOMarked(commits, i) => POOOMarked(commits', i),
           \A i \in Nat : POOOMarked(executes', i) => POOOMarked(commits', i),
           executes.nextEmpty <= executes'.nextEmpty,
           \/ fromChannel' = fromChannel
           \/ /\ fromChannel' = Append(fromChannel, answer')
              /\ answer' \in FromChannel
              /\ answer'.firstUnexecuted = executes'.nextEmpty
              /\ answer'.op = Callback => POOOMarked(commits', answer'.nonce)
              /\ answer'.op = Sync => answer'.nonce = commits'.nextEmpty
    PROVE  fromChannel' \in Seq(FromChannel) /\ BitmapsAreNested' /\ AnswersAreTrue'
  <1>1. /\ commits \in PipelinedOutOfOrder /\ executes \in PipelinedOutOfOrder
        /\ storage \in Storage /\ fromChannel \in Seq(FromChannel)
        /\ storage.commitPOOO \in PipelinedOutOfOrder
        /\ storage.firstUnexecutedNonce \in Nat
    BY StorageComponents DEF IInv, TypeOK
  <1>2. /\ commits.nextEmpty \in Nat /\ commits'.nextEmpty \in Nat
        /\ executes.nextEmpty \in Nat /\ executes'.nextEmpty \in Nat
        /\ commits'.bitmap \in SUBSET Nat
    BY <1>1 DEF PipelinedOutOfOrder
  <1>3. \A i \in Nat : POOOMarked(storage.commitPOOO, i) => POOOMarked(commits, i)
    <2>1. InWindow(commits) /\ MarksWithin(storage.commitPOOO, commits)
      BY DEF IInv, BitmapsAreNested
    <2> QED
      BY <1>1, <2>1, Within
  <1>4. MarksWithin(storage.commitPOOO, commits')
    <2>1. \A i \in Nat : POOOMarked(storage.commitPOOO, i) => POOOMarked(commits', i)
      BY <1>3
    <2> QED
      BY <1>1, <2>1, Within
  <1>5. MarksWithin(executes', commits')
    BY Within
  <1>6. storage.firstUnexecutedNonce <= executes'.nextEmpty
    <2>1. storage.firstUnexecutedNonce <= executes.nextEmpty
      BY DEF IInv, BitmapsAreNested
    <2> QED
      BY <1>1, <1>2, <2>1
  <1>7. BitmapsAreNested'
    <2>1. InWindow(storage'.commitPOOO)
      BY DEF IInv, BitmapsAreNested
    <2> QED
      BY <1>4, <1>5, <1>6, <2>1 DEF BitmapsAreNested
  <1>8. commits.nextEmpty <= commits'.nextEmpty
    <2>1. MarksWithin(commits, commits')
      BY <1>1, Within
    <2> QED
      BY <2>1 DEF MarksWithin
  <1>9. ASSUME NEW m \in FromChannel, AnswerIsTrue(m, storage, commits, executes)
        PROVE  AnswerIsTrue(m, storage, commits', executes')
    <2>1. m.op \in {Callback, Sync} /\ m.nonce \in Nat /\ m.firstUnexecuted \in Nat
      BY FromChannelComponents
    <2>2. m.firstUnexecuted <= executes'.nextEmpty
      BY <1>2, <1>9, <2>1 DEF AnswerIsTrue
    <2>3. m.op = Sync => m.nonce <= commits'.nextEmpty
      BY <1>2, <1>8, <1>9, <2>1 DEF AnswerIsTrue, Sync
    <2>4. m.op = Callback => POOOMarked(commits', m.nonce)
      BY <1>9, <2>1 DEF AnswerIsTrue, Callback
    <2> QED
      BY <1>9, <2>2, <2>3, <2>4 DEF AnswerIsTrue, Callback, Sync
  <1>10. /\ \A i \in DOMAIN fromChannel : AnswerIsTrue(fromChannel[i], storage, commits, executes)
         /\ \A i, j \in DOMAIN fromChannel : i < j => InOrder(fromChannel[i], fromChannel[j])
    BY DEF IInv, AnswersAreTrue
  <1>11. \A i \in DOMAIN fromChannel :
             /\ fromChannel[i] \in FromChannel
             /\ AnswerIsTrue(fromChannel[i], storage, commits', executes')
    BY <1>1, <1>9, <1>10
  <1>12. CASE fromChannel' = fromChannel
    BY <1>1, <1>7, <1>10, <1>11, <1>12 DEF AnswersAreTrue
  <1>13. CASE /\ fromChannel' = Append(fromChannel, answer')
              /\ answer' \in FromChannel
              /\ answer'.firstUnexecuted = executes'.nextEmpty
              /\ answer'.op = Callback => POOOMarked(commits', answer'.nonce)
              /\ answer'.op = Sync => answer'.nonce = commits'.nextEmpty
    <2> DEFINE last == Len(fromChannel) + 1
    <2>1. /\ fromChannel' \in Seq(FromChannel)
          /\ DOMAIN fromChannel' = 1 .. last /\ DOMAIN fromChannel = 1 .. last - 1 /\ last \in Nat
          /\ \A i \in DOMAIN fromChannel : fromChannel'[i] = fromChannel[i]
          /\ fromChannel'[last] = answer'
      BY <1>1, <1>13, Appended
    <2>2. answer'.op \in {Callback, Sync} /\ answer'.nonce \in Nat /\ answer'.firstUnexecuted \in Nat
      BY <1>13, FromChannelComponents
    <2>3. ~ POOOMarked(commits', commits'.nextEmpty)
      BY <1>2 DEF InWindow, POOOMarked
    <2>4. AnswerIsTrue(answer', storage, commits', executes')
      <3>1. answer'.op = Sync => ~ POOOMarked(storage.commitPOOO, answer'.nonce)
        BY <1>2, <1>3, <1>13, <2>3
      <3>2. answer'.op = Sync => answer'.nonce <= commits'.nextEmpty
        BY <1>2, <1>13
      <3>3. executes'.nextEmpty <= executes'.nextEmpty
        BY <1>2
      <3> QED
        BY <1>6, <1>13, <3>1, <3>2, <3>3 DEF AnswerIsTrue, Callback, Sync
    <2>5. ASSUME NEW i \in DOMAIN fromChannel
          PROVE  InOrder(fromChannel[i], answer')
      BY <1>11, <1>13, <2>3, SentInOrder
    <2>6. \A i \in DOMAIN fromChannel' : AnswerIsTrue(fromChannel'[i], storage', commits', executes')
      BY <1>11, <2>1, <2>4
    <2>7. ASSUME NEW i \in DOMAIN fromChannel', NEW j \in DOMAIN fromChannel', i < j
          PROVE  InOrder(fromChannel'[i], fromChannel'[j])
      <3>1. i \in DOMAIN fromChannel
        BY <2>1, <2>7
      <3>2. CASE j \in DOMAIN fromChannel
        BY <1>10, <2>1, <2>7, <3>1, <3>2
      <3>3. CASE j = last
        BY <2>1, <2>5, <3>1, <3>3
      <3> QED
        BY <2>1, <3>2, <3>3
    <2> QED
      BY <1>7, <2>1, <2>6, <2>7 DEF AnswersAreTrue
  <1> QED
    BY <1>12, <1>13

-----------------------------------------------------------------------------
(* The initial states *)

LEMMA InitOK == Init => IInv
  <1> SUFFICES ASSUME Init PROVE IInv
    OBVIOUS
  <1>1. /\ commits = [nextEmpty |-> 1, bitmap |-> {}]
        /\ executes = [nextEmpty |-> 1, bitmap |-> {}]
        /\ defaultConfig = NewWithDefaults
        /\ fromUln = <<>> /\ fromChannel = <<>> /\ toEndpoint = {}
    BY DEF Init, FrontiersInit, POOONew
  <1>2. PICK config \in OAppConfigs \cup {NewWithDefaults} :
            /\ Sanitized(config)
            /\ storage = [firstUnexecutedNonce |-> 1,
                          commitPOOO           |-> POOONew,
                          hashLookups          |-> [nonce \in Nonces |-> NoLookups],
                          ulnReceiveConfigOApp |-> config]
    BY DEF Init
  <1>3. commits \in PipelinedOutOfOrder /\ executes \in PipelinedOutOfOrder
    BY <1>1 DEF PipelinedOutOfOrder
  <1>4. [nonce \in Nonces |-> NoLookups] \in [Nonces -> [DVNs -> Attestation \cup {NoAttestation}]]
    BY DEF NoLookups
  <1>5. storage \in Storage
    <2>1. POOONew \in PipelinedOutOfOrder
      BY <1>1, <1>3 DEF POOONew
    <2> QED
      BY <1>2, <1>4, <2>1 DEF Storage
  <1>6. TypeOK
    <2>1. fromUln \in Seq(FromUln) /\ fromChannel \in Seq(FromChannel)
      BY <1>1
    <2> QED
      BY <1>1, <1>3, <1>5, <2>1 DEF TypeOK
  <1>7. /\ storage.firstUnexecutedNonce = 1
        /\ storage.commitPOOO = [nextEmpty |-> 1, bitmap |-> {}]
        /\ storage.ulnReceiveConfigOApp = config
        /\ \A nonce \in Nonces : storage.hashLookups[nonce] = NoLookups
    BY <1>2 DEF POOONew
  <1>8. BitmapsAreNested
    BY <1>1, <1>7 DEF BitmapsAreNested, InWindow, MarksWithin
  <1>9. AnswersAreTrue
    BY <1>1 DEF AnswersAreTrue
  <1>10. \A nonce \in Nonces, dvn \in DVNs : ~ HasAttestation(storage, nonce, dvn)
    BY <1>7 DEF HasAttestation, NoLookups
  <1>11. HonestOnRecord
    BY <1>1, <1>2, <1>7, <1>10, NewWithDefaultsIsSanitized DEF HonestOnRecord
  <1>12. LookupsInRange
    BY <1>10 DEF LookupsInRange, LookupNonces
  <1>13. OnlyFinalPacketsForwarded
    BY <1>1 DEF OnlyFinalPacketsForwarded
  <1> QED
    BY <1>6, <1>8, <1>9, <1>11, <1>12, <1>13 DEF IInv

-----------------------------------------------------------------------------
(* The steps of the ULN *)

LEMMA ToConnectionStep ==
    ASSUME IInv, NEW m \in FromUln, ToConnection(m), m.default = defaultConfig,
           m.op = "ULN_CONNECTION_VERIFY" => MayAttest(m.dvn, m.attestation)
    PROVE  IInv'
  <1>1. /\ fromUln \in Seq(FromUln) /\ fromUln' = Append(fromUln, m)
        /\ UNCHANGED <<commits, executes, storage, defaultConfig, fromChannel, toEndpoint>>
    BY DEF IInv, TypeOK, ToConnection, Other
  <1>2. BitmapsAreNested' /\ AnswersAreTrue'
    BY <1>1, ChannelSideKept
  <1>3. /\ fromUln' \in Seq(FromUln)
        /\ \A i \in DOMAIN fromUln' : IF i \in DOMAIN fromUln THEN fromUln'[i] = fromUln[i]
                                                              ELSE fromUln'[i] = m
    <2>1. /\ fromUln' \in Seq(FromUln)
          /\ DOMAIN fromUln' = 1 .. Len(fromUln) + 1 /\ DOMAIN fromUln = 1 .. Len(fromUln)
          /\ \A i \in DOMAIN fromUln : fromUln'[i] = fromUln[i]
          /\ fromUln'[Len(fromUln) + 1] = m
      BY <1>1, Appended
    <2>2. Len(fromUln) \in Nat
      BY <1>1
    <2>3. \A i \in DOMAIN fromUln' : i \in DOMAIN fromUln \/ i = Len(fromUln) + 1
      BY <2>1, <2>2
    <2> QED
      BY <2>1, <2>3
  <1>4. TypeOK'
    BY <1>1, <1>3 DEF IInv, TypeOK
  <1>5. HonestOnRecord'
    <2>1. \A i \in DOMAIN fromUln :
              /\ Sanitized(fromUln[i].default)
              /\ fromUln[i].op = "ULN_CONNECTION_VERIFY" =>
                     MayAttest(fromUln[i].dvn, fromUln[i].attestation)
      BY DEF IInv, HonestOnRecord
    <2>2. Sanitized(m.default)
      BY DEF IInv, HonestOnRecord
    <2>3. \A i \in DOMAIN fromUln' :
              /\ Sanitized(fromUln'[i].default)
              /\ fromUln'[i].op = "ULN_CONNECTION_VERIFY" =>
                     MayAttest(fromUln'[i].dvn, fromUln'[i].attestation)
      BY <1>3, <2>1, <2>2
    <2> QED
      BY <1>1, <2>3 DEF IInv, HonestOnRecord
  <1>6. LookupsInRange' /\ OnlyFinalPacketsForwarded'
    BY <1>1 DEF IInv, LookupsInRange, OnlyFinalPacketsForwarded
  <1> QED
    BY <1>2, <1>4, <1>5, <1>6 DEF IInv

LEMMA UlnVerifyStep ==
    ASSUME IInv, NEW nonce \in Nonces, NEW dvn \in DVNs, NEW attestation \in Attestation,
           UlnVerify(nonce, dvn, attestation)
    PROVE  IInv'
  <1> DEFINE m == [op |-> "ULN_CONNECTION_VERIFY", default |-> defaultConfig,
                   nonce |-> nonce, dvn |-> dvn, attestation |-> attestation]
  <1>1. m \in FromUln
    BY DEF IInv, TypeOK, FromUln
  <1>2. ToConnection(m) /\ MayAttest(dvn, attestation)
    BY DEF UlnVerify
  <1>3. m.default = defaultConfig /\ m.dvn = dvn /\ m.attestation = attestation
    OBVIOUS
  <1> HIDE DEF m
  <1> QED
    BY <1>1, <1>2, <1>3, ToConnectionStep

LEMMA UlnCommitPacketStep ==
    ASSUME IInv, NEW nonce \in Nonces, NEW packet \in Packets, NEW hasCommitGas \in BOOLEAN,
           UlnCommitPacket(nonce, packet, hasCommitGas)
    PROVE  IInv'
  <1> DEFINE m == [op |-> "ULN_CONNECTION_COMMIT_PACKET", default |-> defaultConfig,
                   nonce |-> nonce, packet |-> packet, hasCommitGas |-> hasCommitGas]
  <1>1. m \in FromUln
    BY DEF IInv, TypeOK, FromUln
  <1>2. ToConnection(m)
    BY DEF UlnCommitPacket
  <1>3. m.default = defaultConfig /\ m.op # "ULN_CONNECTION_VERIFY"
    OBVIOUS
  <1> HIDE DEF m
  <1> QED
    BY <1>1, <1>2, <1>3, ToConnectionStep

LEMMA UlnGarbageCollectStep ==
    ASSUME IInv, NEW nonce \in Nonces, UlnGarbageCollectInvalidAttestations(nonce)
    PROVE  IInv'
  <1> DEFINE m == [op |-> "GARBAGE_COLLECT_INVALID_ATTESTATIONS", default |-> defaultConfig,
                   nonce |-> nonce]
  <1>1. m \in FromUln
    BY DEF IInv, TypeOK, FromUln
  <1>2. ToConnection(m)
    BY DEF UlnGarbageCollectInvalidAttestations
  <1>3. m.default = defaultConfig /\ m.op # "ULN_CONNECTION_VERIFY"
    OBVIOUS
  <1> HIDE DEF m
  <1> QED
    BY <1>1, <1>2, <1>3, ToConnectionStep

LEMMA SetDefaultStep ==
    ASSUME IInv, NEW config \in DefaultConfigs, SetDefaultUlnReceiveConfig(config)
    PROVE  IInv'
  <1>1. /\ Sanitized(config) /\ defaultConfig' = config
        /\ UNCHANGED <<commits, executes, storage, fromUln, fromChannel, toEndpoint>>
    BY DEF SetDefaultUlnReceiveConfig, Other
  <1>2. BitmapsAreNested' /\ AnswersAreTrue'
    BY <1>1, ChannelSideKept
  <1>3. TypeOK'
    BY <1>1 DEF IInv, TypeOK
  <1>4. HonestOnRecord'
    BY <1>1 DEF IInv, HonestOnRecord
  <1>5. LookupsInRange' /\ OnlyFinalPacketsForwarded'
    BY <1>1 DEF IInv, LookupsInRange, OnlyFinalPacketsForwarded
  <1> QED
    BY <1>2, <1>3, <1>4, <1>5 DEF IInv

-----------------------------------------------------------------------------
(* The steps of the connection *)

\* Deleting the lookups of a nonce deletes nothing else, and adds nothing.
LEMMA DeleteLemma ==
    ASSUME NEW s \in Storage, NEW nonce \in Nat,
           NEW t, t = DeleteNonceAttestations(s, nonce)
    PROVE  /\ t \in Storage
           /\ t.firstUnexecutedNonce = s.firstUnexecutedNonce
           /\ t.commitPOOO = s.commitPOOO
           /\ t.ulnReceiveConfigOApp = s.ulnReceiveConfigOApp
           /\ \A n \in Nonces : IF n = nonce THEN t.hashLookups[n] = NoLookups
                                             ELSE t.hashLookups[n] = s.hashLookups[n]
           /\ \A n \in Nonces, dvn \in DVNs :
                  HasAttestation(t, n, dvn) => t.hashLookups[n][dvn] = s.hashLookups[n][dvn]
  <1>1. CASE nonce \in Nonces
    <2>1. t = [s EXCEPT !.hashLookups[nonce] = NoLookups]
      BY <1>1 DEF DeleteNonceAttestations
    <2>2. NoLookups \in [DVNs -> Attestation \cup {NoAttestation}]
      BY DEF NoLookups
    <2>3. t \in Storage
      BY <1>1, <2>1, <2>2 DEF Storage
    <2>4. /\ t.firstUnexecutedNonce = s.firstUnexecutedNonce
          /\ t.commitPOOO = s.commitPOOO
          /\ t.ulnReceiveConfigOApp = s.ulnReceiveConfigOApp
          /\ t.hashLookups = [s.hashLookups EXCEPT ![nonce] = NoLookups]
      BY <2>1 DEF Storage
    <2>5. \A n \in Nonces : IF n = nonce THEN t.hashLookups[n] = NoLookups
                                         ELSE t.hashLookups[n] = s.hashLookups[n]
      BY <2>4, StorageComponents
    <2>6. \A n \in Nonces, dvn \in DVNs :
              HasAttestation(t, n, dvn) => t.hashLookups[n][dvn] = s.hashLookups[n][dvn]
      BY <2>5 DEF HasAttestation, NoLookups
    <2> QED
      BY <2>3, <2>4, <2>5, <2>6
  <1>2. CASE nonce \notin Nonces
    BY <1>2 DEF DeleteNonceAttestations
  <1> QED
    BY <1>1, <1>2

LEMMA VerifyStep ==
    ASSUME IInv, UlnConnectionVerify
    PROVE  IInv'
  <1> DEFINE m == Head(fromUln)
  <1>1. /\ fromUln # <<>> /\ m.op = "ULN_CONNECTION_VERIFY" /\ fromUln' = Tail(fromUln)
        /\ storage' = IF InVerifyRange(storage, m.nonce) /\ IsDvnConfigured(storage, m.default, m.dvn)
                      THEN SetHashLookup(storage, m.nonce, m.dvn, m.attestation)
                      ELSE storage
        /\ UNCHANGED <<commits, executes, defaultConfig, fromChannel, toEndpoint>>
    BY DEF UlnConnectionVerify, Arrives, Other
  <1>2. storage \in Storage /\ fromUln \in Seq(FromUln)
    BY DEF IInv, TypeOK
  <1>3. m \in FromUln /\ MayAttest(m.dvn, m.attestation)
    <2>1. m \in FromUln /\ m = fromUln[1] /\ 1 \in DOMAIN fromUln
      BY <1>1, <1>2, HeadAndTail
    <2> QED
      BY <1>1, <2>1 DEF IInv, HonestOnRecord
  <1> HIDE DEF m
  <1>4. m.nonce \in Nonces /\ m.dvn \in DVNs /\ m.attestation \in Attestation
    BY <1>1, <1>3, FromUlnComponents
  <1>5. /\ storage.hashLookups \in [Nonces -> [DVNs -> Attestation \cup {NoAttestation}]]
        /\ storage.firstUnexecutedNonce \in Nat
    BY <1>2, StorageComponents
  <1>6. CASE /\ InVerifyRange(storage, m.nonce)
             /\ storage' = [storage EXCEPT !.hashLookups[m.nonce][m.dvn] = m.attestation]
    <2>1. storage' \in Storage
      BY <1>2, <1>4, <1>6 DEF Storage
    <2>2. /\ storage'.firstUnexecutedNonce = storage.firstUnexecutedNonce
          /\ storage'.commitPOOO = storage.commitPOOO
          /\ storage'.ulnReceiveConfigOApp = storage.ulnReceiveConfigOApp
          /\ storage'.hashLookups = [storage.hashLookups EXCEPT ![m.nonce][m.dvn] = m.attestation]
      BY <1>2, <1>6 DEF Storage
    <2>3. \A nonce \in Nonces, dvn \in DVNs :
              storage'.hashLookups[nonce][dvn] = IF nonce = m.nonce /\ dvn = m.dvn
                                                 THEN m.attestation
                                                 ELSE storage.hashLookups[nonce][dvn]
      BY <1>4, <1>5, <2>2
    <2>4. \A nonce \in Nonces, dvn \in DVNs :
              HasAttestation(storage', nonce, dvn) =>
                  MayAttest(dvn, storage'.hashLookups[nonce][dvn])
      <3>1. \A nonce \in Nonces, dvn \in DVNs :
                HasAttestation(storage, nonce, dvn) =>
                    MayAttest(dvn, storage.hashLookups[nonce][dvn])
        BY DEF IInv, HonestOnRecord
      <3>2. TAKE nonce \in Nonces, dvn \in DVNs
      <3>3. CASE nonce = m.nonce /\ dvn = m.dvn
        BY <1>3, <2>3, <3>3
      <3>4. CASE ~ (nonce = m.nonce /\ dvn = m.dvn)
        BY <2>3, <3>1, <3>4 DEF HasAttestation
      <3> QED
        BY <3>3, <3>4
    <2>5. LookupsInRange'
      <3>1. \A nonce \in LookupNonces(storage') : nonce \in LookupNonces(storage) \/ nonce = m.nonce
        BY <2>3 DEF LookupNonces, HasAttestation
      <3>2. m.nonce < storage.firstUnexecutedNonce + MAX_HASH_LOOKUPS
        BY <1>6 DEF InVerifyRange
      <3>3. \A nonce \in LookupNonces(storage') :
                nonce < storage'.firstUnexecutedNonce + MAX_HASH_LOOKUPS
        BY <2>2, <3>1, <3>2 DEF IInv, LookupsInRange
      <3> QED
        BY <3>3 DEF LookupsInRange
    <2>6. Sanitized(storage'.ulnReceiveConfigOApp)
      BY <2>2 DEF IInv, HonestOnRecord
    <2>7. fromUln' \in Seq(FromUln) /\ HonestOnRecord'
      BY <1>1, <2>4, <2>6, UlnMessageTaken
    <2>8. BitmapsAreNested' /\ AnswersAreTrue'
      BY <1>1, <2>2, ChannelSideKept
    <2>9. TypeOK' /\ OnlyFinalPacketsForwarded'
      BY <1>1, <2>1, <2>7 DEF IInv, TypeOK, OnlyFinalPacketsForwarded
    <2> QED
      BY <2>5, <2>7, <2>8, <2>9 DEF IInv
  <1>7. CASE storage' = storage
    <2>1. fromUln' \in Seq(FromUln) /\ HonestOnRecord'
      <3>1. /\ Sanitized(storage'.ulnReceiveConfigOApp)
            /\ \A nonce \in Nonces, dvn \in DVNs :
                   HasAttestation(storage', nonce, dvn) =>
                       MayAttest(dvn, storage'.hashLookups[nonce][dvn])
        BY <1>7 DEF IInv, HonestOnRecord
      <3> QED
        BY <1>1, <3>1, UlnMessageTaken
    <2>2. BitmapsAreNested' /\ AnswersAreTrue'
      BY <1>1, <1>7, ChannelSideKept
    <2>3. TypeOK' /\ LookupsInRange' /\ OnlyFinalPacketsForwarded'
      BY <1>1, <1>7, <2>1 DEF IInv, TypeOK, LookupsInRange, OnlyFinalPacketsForwarded
    <2> QED
      BY <2>1, <2>2, <2>3 DEF IInv
  <1> QED
    BY <1>1, <1>6, <1>7 DEF SetHashLookup

LEMMA CommitPacketStep ==
    ASSUME IInv, UlnConnectionCommitPacket
    PROVE  IInv'
  <1> DEFINE m      == Head(fromUln)
             config == Resolve(storage.ulnReceiveConfigOApp, m.default)
  <1>1. /\ fromUln # <<>> /\ m.op = "ULN_CONNECTION_COMMIT_PACKET" /\ fromUln' = Tail(fromUln)
        /\ UNCHANGED <<commits, executes, storage, defaultConfig, fromChannel>>
    BY DEF UlnConnectionCommitPacket, Arrives, Other
  <1>2. /\ storage \in Storage /\ fromUln \in Seq(FromUln)
        /\ toEndpoint \subseteq ToEndpoint
    BY DEF IInv, TypeOK
  <1>3. m \in FromUln /\ Sanitized(m.default)
    <2>1. m \in FromUln /\ m = fromUln[1] /\ 1 \in DOMAIN fromUln
      BY <1>1, <1>2, HeadAndTail
    <2> QED
      BY <2>1 DEF IInv, HonestOnRecord
  <1>4. \/ toEndpoint' = toEndpoint
        \/ /\ IsValid(config)
           /\ Committable(storage, config, m.nonce, m.packet)
           /\ toEndpoint' = toEndpoint \cup {[nonce |-> m.nonce, packet |-> m.packet]}
    BY DEF UlnConnectionCommitPacket
  <1> HIDE DEF m
  <1>5. /\ m.nonce \in Nonces /\ m.packet \in Packets
        /\ m.default \in DefaultConfigs \cup {NewWithDefaults}
        /\ m.default \in UlnReceiveConfig
    BY <1>1, <1>3, FromUlnComponents, NewWithDefaultsType, UlnConnectionAssumption
  <1>6. /\ storage.ulnReceiveConfigOApp \in OAppConfigs \cup {NewWithDefaults}
        /\ storage.ulnReceiveConfigOApp \in UlnReceiveConfig
        /\ Sanitized(storage.ulnReceiveConfigOApp)
    BY <1>2, StorageComponents, NewWithDefaultsType, UlnConnectionAssumption
       DEF IInv, HonestOnRecord
  <1>7. IsValid(config) /\ Committable(storage, config, m.nonce, m.packet)
            => m.packet = FinalPacket
    <2> HAVE IsValid(config) /\ Committable(storage, config, m.nonce, m.packet)
    <2>1. HasHonestQuorum(config)
      BY <1>3, <1>5, <1>6, HonestQuorums
    <2>2. \A dvn \in DVNs : HasAttestation(storage, m.nonce, dvn) =>
                                MayAttest(dvn, storage.hashLookups[m.nonce][dvn])
      BY <1>5 DEF IInv, HonestOnRecord
    <2>3. /\ config.requiredDVNs \in SUBSET DVNs /\ config.optionalDVNs \in SUBSET DVNs
          /\ config.optionalDVNThreshold \in Nat /\ config.confirmations \in Nat
      BY <1>5, <1>6, ResolvedType
    <2> HIDE DEF config
    <2> QED
      BY <1>2, <1>5, <2>1, <2>2, <2>3, QuorumIsHonest
  <1> HIDE DEF config
  <1>8. toEndpoint' \subseteq ToEndpoint /\ OnlyFinalPacketsForwarded'
    BY <1>2, <1>4, <1>5, <1>7 DEF IInv, OnlyFinalPacketsForwarded, ToEndpoint
  <1>9. fromUln' \in Seq(FromUln) /\ HonestOnRecord'
    <2>1. /\ Sanitized(storage'.ulnReceiveConfigOApp)
          /\ \A nonce \in Nonces, dvn \in DVNs :
                 HasAttestation(storage', nonce, dvn) =>
                     MayAttest(dvn, storage'.hashLookups[nonce][dvn])
      BY <1>1 DEF IInv, HonestOnRecord
    <2> QED
      BY <1>1, <2>1, UlnMessageTaken
  <1>10. BitmapsAreNested' /\ AnswersAreTrue'
    BY <1>1, ChannelSideKept
  <1>11. TypeOK' /\ LookupsInRange'
    BY <1>1, <1>8, <1>9 DEF IInv, TypeOK, LookupsInRange
  <1> QED
    BY <1>8, <1>9, <1>10, <1>11 DEF IInv

LEMMA GarbageCollectInvalidStep ==
    ASSUME IInv, GarbageCollectInvalidAttestations
    PROVE  IInv'
  <1> DEFINE m == Head(fromUln)
  <1>1. /\ fromUln # <<>> /\ fromUln' = Tail(fromUln)
        /\ UNCHANGED <<commits, executes, defaultConfig, fromChannel, toEndpoint>>
        /\ \/ storage' = storage
           \/ storage' = DeleteNonceAttestations(storage, m.nonce)
    BY DEF GarbageCollectInvalidAttestations, Arrives, Other, EvictAttestations
  <1>2. storage \in Storage /\ fromUln \in Seq(FromUln)
    BY DEF IInv, TypeOK
  <1>3. m \in FromUln
    BY <1>1, <1>2, HeadAndTail
  <1> HIDE DEF m
  <1>4. m.nonce \in Nat
    BY <1>3, FromUlnComponents, NoncesAreNaturals
  <1>5. /\ storage' \in Storage
        /\ storage'.firstUnexecutedNonce = storage.firstUnexecutedNonce
        /\ storage'.commitPOOO = storage.commitPOOO
        /\ storage'.ulnReceiveConfigOApp = storage.ulnReceiveConfigOApp
        /\ \A n \in Nonces, dvn \in DVNs :
               HasAttestation(storage', n, dvn) =>
                   storage'.hashLookups[n][dvn] = storage.hashLookups[n][dvn]
    <2>1. CASE storage' = storage
      BY <1>2, <2>1
    <2>2. CASE storage' = DeleteNonceAttestations(storage, m.nonce)
      <3>1. PICK nonce \in Nat : storage' = DeleteNonceAttestations(storage, nonce)
        BY <1>4, <2>2
      <3> QED
        BY <1>2, <3>1, DeleteLemma
    <2> QED
      BY <1>1, <2>1, <2>2
  <1>6. storage.firstUnexecutedNonce <= storage'.firstUnexecutedNonce
    BY <1>2, <1>5, StorageComponents
  <1>7. /\ LookupsInRange'
        /\ \A nonce \in Nonces, dvn \in DVNs :
               HasAttestation(storage', nonce, dvn) =>
                   MayAttest(dvn, storage'.hashLookups[nonce][dvn])
    BY <1>5, <1>6, RecordShrinks
  <1>8. fromUln' \in Seq(FromUln) /\ HonestOnRecord'
    <2>1. Sanitized(storage'.ulnReceiveConfigOApp)
      BY <1>5 DEF IInv, HonestOnRecord
    <2> QED
      BY <1>1, <1>7, <2>1, UlnMessageTaken
  <1>9. BitmapsAreNested' /\ AnswersAreTrue'
    BY <1>1, <1>5, ChannelSideKept
  <1>10. TypeOK' /\ OnlyFinalPacketsForwarded'
    BY <1>1, <1>5, <1>8 DEF IInv, TypeOK, OnlyFinalPacketsForwarded
  <1> QED
    BY <1>7, <1>8, <1>9, <1>10 DEF IInv

LEMMA GarbageCollectExecutedStep ==
    ASSUME IInv, GarbageCollectExecutedNonces
    PROVE  IInv'
  <1>1. UNCHANGED <<commits, executes, defaultConfig, fromUln, fromChannel, toEndpoint>>
    BY DEF GarbageCollectExecutedNonces, Other
  <1>2. PICK nonce \in Nonces : storage' = DeleteNonceAttestations(storage, nonce)
    BY DEF GarbageCollectExecutedNonces, LookupNonces
  <1>3. storage \in Storage /\ nonce \in Nat
    BY NoncesAreNaturals DEF IInv, TypeOK
  <1>4. /\ storage' \in Storage
        /\ storage'.firstUnexecutedNonce = storage.firstUnexecutedNonce
        /\ storage'.commitPOOO = storage.commitPOOO
        /\ storage'.ulnReceiveConfigOApp = storage.ulnReceiveConfigOApp
        /\ \A n \in Nonces, dvn \in DVNs :
               HasAttestation(storage', n, dvn) =>
                   storage'.hashLookups[n][dvn] = storage.hashLookups[n][dvn]
    BY <1>2, <1>3, DeleteLemma
  <1>5. storage.firstUnexecutedNonce <= storage'.firstUnexecutedNonce
    BY <1>3, <1>4, StorageComponents
  <1>6. /\ LookupsInRange'
        /\ \A n \in Nonces, dvn \in DVNs :
               HasAttestation(storage', n, dvn) => MayAttest(dvn, storage'.hashLookups[n][dvn])
    BY <1>4, <1>5, RecordShrinks
  <1>7. HonestOnRecord'
    BY <1>1, <1>4, <1>6 DEF IInv, HonestOnRecord
  <1>8. BitmapsAreNested' /\ AnswersAreTrue'
    BY <1>1, <1>4, ChannelSideKept
  <1>9. TypeOK' /\ OnlyFinalPacketsForwarded'
    BY <1>1, <1>4 DEF IInv, TypeOK, OnlyFinalPacketsForwarded
  <1> QED
    BY <1>6, <1>7, <1>8, <1>9 DEF IInv

LEMMA SetOAppConfigStep ==
    ASSUME IInv, NEW config \in OAppConfigs, SetOAppUlnReceiveConfig(config)
    PROVE  IInv'
  <1>1. /\ UNCHANGED <<commits, executes, defaultConfig, fromUln, fromChannel, toEndpoint>>
        /\ Sanitized(config)
        /\ storage' = [storage EXCEPT !.ulnReceiveConfigOApp = config]
    BY DEF SetOAppUlnReceiveConfig, Other
  <1>2. storage \in Storage
    BY DEF IInv, TypeOK
  <1>3. /\ storage' \in Storage
        /\ storage'.firstUnexecutedNonce = storage.firstUnexecutedNonce
        /\ storage'.commitPOOO = storage.commitPOOO
        /\ storage'.ulnReceiveConfigOApp = config
        /\ storage'.hashLookups = storage.hashLookups
    BY <1>1, <1>2 DEF Storage
  <1>4. storage.firstUnexecutedNonce <= storage'.firstUnexecutedNonce
    BY <1>2, <1>3, StorageComponents
  <1>5. /\ LookupsInRange'
        /\ \A n \in Nonces, dvn \in DVNs :
               HasAttestation(storage', n, dvn) => MayAttest(dvn, storage'.hashLookups[n][dvn])
    BY <1>3, <1>4, RecordShrinks
  <1>6. HonestOnRecord'
    BY <1>1, <1>3, <1>5 DEF IInv, HonestOnRecord
  <1>7. BitmapsAreNested' /\ AnswersAreTrue'
    BY <1>1, <1>3, ChannelSideKept
  <1>8. TypeOK' /\ OnlyFinalPacketsForwarded'
    BY <1>1, <1>3 DEF IInv, TypeOK, OnlyFinalPacketsForwarded
  <1> QED
    BY <1>5, <1>6, <1>7, <1>8 DEF IInv

-----------------------------------------------------------------------------
(* The answers of the channel, as the connection takes them *)

\* What the connection makes of the answer at the head of the queue: the marks
\* it adds are those that the answer tells of.
NewCopy(m, copy, next) ==
    /\ next \in PipelinedOutOfOrder /\ InWindow(next)
    /\ copy.nextEmpty <= next.nextEmpty
    /\ \A i \in Nat : POOOMarked(next, i) =>
           \/ POOOMarked(copy, i)
           \/ m.op = Callback /\ i = m.nonce
           \/ m.op = Sync /\ i < m.nonce

LEMMA AnswerTaken ==
    ASSUME IInv, fromChannel # <<>>, fromChannel' = Tail(fromChannel),
           UNCHANGED <<commits, executes>>, storage' \in Storage,
           NewCopy(Head(fromChannel), storage.commitPOOO, storage'.commitPOOO),
           storage'.firstUnexecutedNonce = Head(fromChannel).firstUnexecuted
    PROVE  /\ fromChannel' \in Seq(FromChannel) /\ BitmapsAreNested' /\ AnswersAreTrue'
           /\ storage.firstUnexecutedNonce <= storage'.firstUnexecutedNonce
  <1> DEFINE m == Head(fromChannel)
  <1>1. /\ commits \in PipelinedOutOfOrder /\ executes \in PipelinedOutOfOrder
        /\ storage \in Storage /\ fromChannel \in Seq(FromChannel)
        /\ storage.commitPOOO \in PipelinedOutOfOrder
        /\ commits.nextEmpty \in Nat
    BY StorageComponents DEF IInv, TypeOK, PipelinedOutOfOrder
  <1>2. /\ 1 \in DOMAIN fromChannel /\ m = fromChannel[1] /\ m \in FromChannel
        /\ fromChannel' \in Seq(FromChannel)
        /\ \A i \in DOMAIN fromChannel' :
               i \in Nat /\ i + 1 \in DOMAIN fromChannel /\ fromChannel'[i] = fromChannel[i + 1]
        /\ \A i \in DOMAIN fromChannel' : 1 < i + 1
    BY <1>1, HeadAndTail
  <1>3. /\ \A i \in DOMAIN fromChannel : AnswerIsTrue(fromChannel[i], storage, commits, executes)
        /\ \A i, j \in DOMAIN fromChannel : i < j => InOrder(fromChannel[i], fromChannel[j])
    BY DEF IInv, AnswersAreTrue
  <1>4. AnswerIsTrue(m, storage, commits, executes)
    BY <1>2, <1>3
  <1>5. NewCopy(m, storage.commitPOOO, storage'.commitPOOO)
        /\ storage'.firstUnexecutedNonce = m.firstUnexecuted
    OBVIOUS
  <1> HIDE DEF m
  <1>6. m.op \in {Callback, Sync} /\ m.nonce \in Nat /\ m.firstUnexecuted \in Nat
    BY <1>2, FromChannelComponents
  <1>7. \A i \in Nat : POOOMarked(storage'.commitPOOO, i) => POOOMarked(commits, i)
    <2>1. \A i \in Nat : POOOMarked(storage.commitPOOO, i) => POOOMarked(commits, i)
      BY <1>1, Within DEF IInv, BitmapsAreNested
    <2>2. m.op = Callback => POOOMarked(commits, m.nonce)
      BY <1>4 DEF AnswerIsTrue, Callback
    <2>3. m.op = Sync => m.nonce <= commits.nextEmpty
      BY <1>4 DEF AnswerIsTrue, Sync
    <2>4. \A i \in Nat : m.op = Sync /\ i < m.nonce => POOOMarked(commits, i)
      BY <1>1, <1>6, <2>3 DEF POOOMarked
    <2> QED
      BY <1>5, <2>1, <2>2, <2>4 DEF NewCopy
  <1>8. BitmapsAreNested'
    <2>1. InWindow(commits) /\ InWindow(executes) /\ MarksWithin(executes, commits)
      BY DEF IInv, BitmapsAreNested
    <2>2. storage'.commitPOOO \in PipelinedOutOfOrder /\ InWindow(storage'.commitPOOO)
      BY <1>5 DEF NewCopy
    <2>3. MarksWithin(storage'.commitPOOO, commits)
      BY <1>1, <1>7, <2>1, <2>2, Within
    <2>4. storage'.firstUnexecutedNonce <= executes.nextEmpty
      BY <1>4, <1>5 DEF AnswerIsTrue
    <2> QED
      BY <2>1, <2>2, <2>3, <2>4 DEF BitmapsAreNested
  <1>9. ASSUME NEW later \in FromChannel,
               AnswerIsTrue(later, storage, commits, executes), InOrder(m, later)
        PROVE  AnswerIsTrue(later, storage', commits, executes)
    <2>1. later.op \in {Callback, Sync} /\ later.nonce \in Nat /\ later.firstUnexecuted \in Nat
      BY FromChannelComponents
    <2>2. storage'.firstUnexecutedNonce <= later.firstUnexecuted
      BY <1>5, <1>9 DEF InOrder
    <2>3. later.op = Sync => ~ POOOMarked(storage'.commitPOOO, later.nonce)
      <3> SUFFICES ASSUME later.op = Sync, POOOMarked(storage'.commitPOOO, later.nonce)
                   PROVE  FALSE
        OBVIOUS
      <3>1. ~ POOOMarked(storage.commitPOOO, later.nonce)
        BY <1>9 DEF AnswerIsTrue, Sync
      <3>2. IF m.op = Sync THEN m.nonce <= later.nonce ELSE m.nonce # later.nonce
        BY <1>9 DEF InOrder, Sync
      <3>3. \/ m.op = Callback /\ later.nonce = m.nonce
            \/ m.op = Sync /\ later.nonce < m.nonce
        BY <1>5, <2>1, <3>1 DEF NewCopy
      <3> QED
        BY <1>6, <2>1, <3>2, <3>3 DEF Callback, Sync
    <2> QED
      BY <1>9, <2>2, <2>3 DEF AnswerIsTrue, Sync
  <1>10. \A i \in DOMAIN fromChannel' : AnswerIsTrue(fromChannel'[i], storage', commits, executes)
    <2> TAKE i \in DOMAIN fromChannel'
    <2>1. /\ fromChannel'[i] \in FromChannel
          /\ AnswerIsTrue(fromChannel'[i], storage, commits, executes)
          /\ InOrder(m, fromChannel'[i])
      BY <1>1, <1>2, <1>3
    <2> QED
      BY <1>9, <2>1
  <1>11. \A i, j \in DOMAIN fromChannel' : i < j => InOrder(fromChannel'[i], fromChannel'[j])
    BY <1>2, <1>3
  <1>12. AnswersAreTrue'
    BY <1>10, <1>11 DEF AnswersAreTrue
  <1>13. storage.firstUnexecutedNonce <= storage'.firstUnexecutedNonce
    BY <1>4, <1>5 DEF AnswerIsTrue
  <1> QED
    BY <1>2, <1>8, <1>12, <1>13

LEMMA CallbackStep ==
    ASSUME IInv, MsglibConnectionCommitPacketCallback
    PROVE  IInv'
  <1> DEFINE m       == Head(fromChannel)
             deleted == DeleteNonceAttestations(storage, m.nonce)
  <1>1. /\ fromChannel # <<>> /\ m.op = Callback /\ fromChannel' = Tail(fromChannel)
        /\ storage' = [deleted EXCEPT !.commitPOOO = MarkCommitted(@, m.nonce),
                                      !.firstUnexecutedNonce = m.firstUnexecuted]
        /\ UNCHANGED <<commits, executes, defaultConfig, fromUln, toEndpoint>>
    BY DEF MsglibConnectionCommitPacketCallback, Arrives, Other, Callback
  <1>2. /\ storage \in Storage /\ fromChannel \in Seq(FromChannel)
        /\ storage.commitPOOO \in PipelinedOutOfOrder
    BY StorageComponents DEF IInv, TypeOK
  <1>3. m \in FromChannel
    BY <1>1, <1>2, HeadAndTail
  <1>4. m.nonce \in Nat /\ m.firstUnexecuted \in Nat
    BY <1>3, FromChannelComponents
  <1> HIDE DEF m
  <1>5. PICK nonce \in Nat : nonce = m.nonce
    BY <1>4
  <1>6. /\ deleted \in Storage
        /\ deleted.commitPOOO = storage.commitPOOO
        /\ deleted.ulnReceiveConfigOApp = storage.ulnReceiveConfigOApp
        /\ \A n \in Nonces, dvn \in DVNs :
               HasAttestation(deleted, n, dvn) =>
                   deleted.hashLookups[n][dvn] = storage.hashLookups[n][dvn]
    <2>1. deleted = DeleteNonceAttestations(storage, nonce)
      BY <1>5
    <2> HIDE DEF deleted
    <2> QED
      BY <1>2, <2>1, DeleteLemma
  <1> HIDE DEF deleted
  <1>7. NewCopy(m, storage.commitPOOO, MarkCommitted(storage.commitPOOO, m.nonce))
    <2> DEFINE p == storage.commitPOOO
               q == MarkCommitted(p, m.nonce)
    <2>1. p \in PipelinedOutOfOrder /\ InWindow(p)
      BY <1>2 DEF IInv, BitmapsAreNested
    <2>2. CASE m.nonce <= POOOMaxSettableBit(p)
      <3>1. q = POOOSet(p, m.nonce)
        BY <2>2 DEF MarkCommitted
      <3> HIDE DEF p, q
      <3>2. NewCopy(m, p, q)
        BY <1>1, <1>4, <2>1, <2>2, <3>1, SetStep DEF NewCopy
      <3> QED
        BY <3>2 DEF p, q
    <2>3. CASE ~ (m.nonce <= POOOMaxSettableBit(p))
      <3>1. q = p
        BY <2>3 DEF MarkCommitted
      <3>2. p.nextEmpty <= p.nextEmpty
        BY <2>1 DEF PipelinedOutOfOrder
      <3> QED
        BY <2>1, <3>1, <3>2 DEF NewCopy
    <2> QED
      BY <2>2, <2>3
  <1>8. /\ storage' \in Storage
        /\ storage'.commitPOOO = MarkCommitted(storage.commitPOOO, m.nonce)
        /\ storage'.firstUnexecutedNonce = m.firstUnexecuted
        /\ storage'.ulnReceiveConfigOApp = storage.ulnReceiveConfigOApp
        /\ storage'.hashLookups = deleted.hashLookups
    BY <1>1, <1>4, <1>6, <1>7 DEF Storage, NewCopy
  <1>9. /\ fromChannel' \in Seq(FromChannel) /\ BitmapsAreNested' /\ AnswersAreTrue'
        /\ storage.firstUnexecutedNonce <= storage'.firstUnexecutedNonce
    BY <1>1, <1>7, <1>8, AnswerTaken DEF m
  <1>10. /\ LookupsInRange'
        /\ \A n \in Nonces, dvn \in DVNs :
               HasAttestation(storage', n, dvn) => MayAttest(dvn, storage'.hashLookups[n][dvn])
    <2>1. \A n \in Nonces, dvn \in DVNs :
              HasAttestation(storage', n, dvn) =>
                  storage'.hashLookups[n][dvn] = storage.hashLookups[n][dvn]
      BY <1>6, <1>8 DEF HasAttestation
    <2> QED
      BY <1>8, <1>9, <2>1, RecordShrinks
  <1>11. HonestOnRecord'
    BY <1>1, <1>8, <1>10 DEF IInv, HonestOnRecord
  <1>12. TypeOK' /\ OnlyFinalPacketsForwarded'
    BY <1>1, <1>8, <1>9 DEF IInv, TypeOK, OnlyFinalPacketsForwarded
  <1> QED
    BY <1>9, <1>10, <1>11, <1>12 DEF IInv

\* A sync at the head of the queue fits the copy that it meets.
LEMMA SyncFits ==
    ASSUME IInv, Arrives(fromChannel, Sync)
    PROVE  /\ SyncSettable(storage.commitPOOO, Head(fromChannel).nonce)
           /\ NewCopy(Head(fromChannel), storage.commitPOOO,
                      SyncCommits(storage.commitPOOO, Head(fromChannel).nonce))
  <1> DEFINE m == Head(fromChannel)
  <1>1. /\ storage.commitPOOO \in PipelinedOutOfOrder /\ InWindow(storage.commitPOOO)
        /\ fromChannel \in Seq(FromChannel)
    BY StorageComponents DEF IInv, TypeOK, BitmapsAreNested
  <1>2. fromChannel # <<>> /\ m.op = Sync
    BY DEF Arrives
  <1>3. m \in FromChannel /\ m = fromChannel[1] /\ 1 \in DOMAIN fromChannel
    BY <1>1, <1>2, HeadAndTail
  <1>4. AnswerIsTrue(m, storage, commits, executes)
    BY <1>3 DEF IInv, AnswersAreTrue
  <1> HIDE DEF m
  <1>5. m.nonce \in Nat
    BY <1>3, FromChannelComponents
  <1>6. ~ POOOMarked(storage.commitPOOO, m.nonce)
    BY <1>2, <1>4 DEF AnswerIsTrue, Sync
  <1>7. /\ SyncSettable(storage.commitPOOO, m.nonce)
        /\ NewCopy(m, storage.commitPOOO, SyncCommits(storage.commitPOOO, m.nonce))
    BY <1>1, <1>2, <1>5, <1>6, SyncStep DEF NewCopy
  <1> QED
    BY <1>7 DEF m

LEMMA SyncChannelStateStep ==
    ASSUME IInv, MsglibConnectionSyncChannelState
    PROVE  IInv'
  <1> DEFINE m == Head(fromChannel)
  <1>1. /\ Arrives(fromChannel, Sync) /\ fromChannel # <<>> /\ fromChannel' = Tail(fromChannel)
        /\ UNCHANGED <<commits, executes, defaultConfig, fromUln, toEndpoint>>
    BY DEF MsglibConnectionSyncChannelState, Arrives, Other, Sync
  <1>2. /\ SyncSettable(storage.commitPOOO, m.nonce)
        /\ NewCopy(m, storage.commitPOOO, SyncCommits(storage.commitPOOO, m.nonce))
    BY <1>1, SyncFits
  <1>3. storage' = [storage EXCEPT !.commitPOOO = SyncCommits(@, m.nonce),
                                   !.firstUnexecutedNonce = m.firstUnexecuted]
    BY <1>2 DEF MsglibConnectionSyncChannelState, SyncState
  <1>4. /\ storage \in Storage /\ fromChannel \in Seq(FromChannel)
    BY DEF IInv, TypeOK
  <1>5. m \in FromChannel
    BY <1>1, <1>4, HeadAndTail
  <1> HIDE DEF m
  <1>6. m.firstUnexecuted \in Nat
    BY <1>5, FromChannelComponents
  <1>7. /\ storage' \in Storage
        /\ storage'.commitPOOO = SyncCommits(storage.commitPOOO, m.nonce)
        /\ storage'.firstUnexecutedNonce = m.firstUnexecuted
        /\ storage'.ulnReceiveConfigOApp = storage.ulnReceiveConfigOApp
        /\ storage'.hashLookups = storage.hashLookups
    BY <1>2, <1>3, <1>4, <1>6 DEF Storage, NewCopy
  <1>8. /\ fromChannel' \in Seq(FromChannel) /\ BitmapsAreNested' /\ AnswersAreTrue'
        /\ storage.firstUnexecutedNonce <= storage'.firstUnexecutedNonce
    BY <1>1, <1>2, <1>7, AnswerTaken DEF m
  <1>9. /\ LookupsInRange'
        /\ \A n \in Nonces, dvn \in DVNs :
               HasAttestation(storage', n, dvn) => MayAttest(dvn, storage'.hashLookups[n][dvn])
    BY <1>7, <1>8, RecordShrinks
  <1>10. HonestOnRecord'
    BY <1>1, <1>7, <1>9 DEF IInv, HonestOnRecord
  <1>11. TypeOK' /\ OnlyFinalPacketsForwarded'
    BY <1>1, <1>7, <1>8 DEF IInv, TypeOK, OnlyFinalPacketsForwarded
  <1> QED
    BY <1>8, <1>9, <1>10, <1>11 DEF IInv

-----------------------------------------------------------------------------
(* The steps of the channel *)

\* What a step of the channel leaves alone outside of the channel.
LEMMA ChannelStep ==
    ASSUME IInv, UNCHANGED <<storage, defaultConfig, fromUln>>,
           toEndpoint' \subseteq toEndpoint,
           commits' \in PipelinedOutOfOrder, executes' \in PipelinedOutOfOrder,
           fromChannel' \in Seq(FromChannel), BitmapsAreNested', AnswersAreTrue'
    PROVE  IInv'
  <1>1. TypeOK'
    BY DEF IInv, TypeOK
  <1>2. HonestOnRecord' /\ LookupsInRange'
    BY DEF IInv, HonestOnRecord, LookupsInRange
  <1>3. OnlyFinalPacketsForwarded'
    BY DEF IInv, OnlyFinalPacketsForwarded
  <1> QED
    BY <1>1, <1>2, <1>3 DEF IInv

\* The bitmaps of the channel, in the words of the lemmas about them.
LEMMA ChannelBitmaps ==
    ASSUME IInv
    PROVE  /\ commits \in PipelinedOutOfOrder /\ executes \in PipelinedOutOfOrder
           /\ InWindow(commits) /\ InWindow(executes)
           /\ commits.nextEmpty \in Nat /\ executes.nextEmpty \in Nat
           /\ executes.nextEmpty <= commits.nextEmpty
           /\ \A i \in Nat : POOOMarked(executes, i) => POOOMarked(commits, i)
  <1>1. /\ commits \in PipelinedOutOfOrder /\ executes \in PipelinedOutOfOrder
        /\ InWindow(commits) /\ InWindow(executes) /\ MarksWithin(executes, commits)
    BY DEF IInv, TypeOK, BitmapsAreNested
  <1> QED
    BY <1>1, Within DEF PipelinedOutOfOrder, MarksWithin

LEMMA CommitStep ==
    ASSUME IInv, NEW nonce \in Nonces, NEW packet \in Packets,
           ChannelCommitPacket(nonce, packet)
    PROVE  IInv'
  <1>0. nonce \in Nat
    BY NoncesAreNaturals
  <1>1. /\ commits' = IF Open(nonce) THEN POOOSet(commits, nonce) ELSE commits
        /\ answer' = IF nonce <= POOOMaxSettableBit(executes)
                     THEN CallbackAnswer(nonce) ELSE NoAnswer
        /\ UNCHANGED <<executes, storage, defaultConfig, fromUln>>
        /\ fromChannel' = IF answer' = NoAnswer THEN fromChannel ELSE Append(fromChannel, answer')
        /\ toEndpoint' \subseteq toEndpoint
    BY DEF ChannelCommitPacket, CommitAndAnswer, SendAnswer
  <1>2. /\ commits \in PipelinedOutOfOrder /\ executes \in PipelinedOutOfOrder
        /\ InWindow(commits) /\ InWindow(executes)
        /\ commits.nextEmpty \in Nat /\ executes.nextEmpty \in Nat
        /\ executes.nextEmpty <= commits.nextEmpty
        /\ \A i \in Nat : POOOMarked(executes, i) => POOOMarked(commits, i)
    BY ChannelBitmaps
  <1>3. /\ commits' \in PipelinedOutOfOrder /\ InWindow(commits')
        /\ \A i \in Nat : POOOMarked(commits, i) => POOOMarked(commits', i)
        /\ Open(nonce) => POOOMarked(commits', nonce)
    <2>1. CASE Open(nonce)
      <3>1. nonce <= POOOMaxSettableBit(commits)
        BY <1>0, <1>2, <2>1, CellAssumption DEF Open, POOOMaxSettableBit
      <3> QED
        BY <1>0, <1>1, <1>2, <2>1, <3>1, SetStep
    <2>2. CASE ~ Open(nonce)
      BY <1>1, <1>2, <2>2
    <2> QED
      BY <2>1, <2>2
  <1>4. nonce <= POOOMaxSettableBit(executes) => POOOMarked(commits', nonce)
    <2>1. nonce <= POOOMaxSettableBit(executes) => Open(nonce) \/ POOOMarked(executes, nonce)
      BY <1>0, <1>2 DEF Open, POOOMarked, POOOIsBitSet
    <2> QED
      BY <1>0, <1>2, <1>3, <2>1
  <1>5. \/ fromChannel' = fromChannel
        \/ /\ fromChannel' = Append(fromChannel, answer')
           /\ answer' \in FromChannel
           /\ answer'.firstUnexecuted = executes'.nextEmpty
           /\ answer'.op = Callback => POOOMarked(commits', answer'.nonce)
           /\ answer'.op = Sync => answer'.nonce = commits'.nextEmpty
    BY <1>0, <1>1, <1>2, <1>4 DEF CallbackAnswer, FromChannel, Callback, Sync
  <1>6. fromChannel' \in Seq(FromChannel) /\ BitmapsAreNested' /\ AnswersAreTrue'
    <2>1. executes.nextEmpty <= executes'.nextEmpty
      BY <1>1, <1>2
    <2> QED
      BY <1>1, <1>2, <1>3, <1>5, <2>1, ChannelGrows
  <1> QED
    BY <1>1, <1>2, <1>3, <1>6, ChannelStep

LEMMA RejectStep ==
    ASSUME IInv, NEW nonce \in Nonces, NEW packet \in Packets,
           ChannelRejectsPacket(nonce, packet)
    PROVE  IInv'
  <1>1. /\ UNCHANGED <<commits, executes, storage, defaultConfig, fromUln, fromChannel>>
        /\ toEndpoint' \subseteq toEndpoint
    BY DEF ChannelRejectsPacket, Other
  <1>2. BitmapsAreNested' /\ AnswersAreTrue'
    BY <1>1, ChannelSideKept
  <1>3. commits' \in PipelinedOutOfOrder /\ executes' \in PipelinedOutOfOrder
        /\ fromChannel' \in Seq(FromChannel)
    BY <1>1 DEF IInv, TypeOK
  <1> QED
    BY <1>1, <1>2, <1>3, ChannelStep

LEMMA ElsewhereStep ==
    ASSUME IInv, NEW nonce \in Nonces, ChannelCommitsElsewhere(nonce)
    PROVE  IInv'
  <1>0. nonce \in Nat
    BY NoncesAreNaturals
  <1>1. /\ Open(nonce) /\ commits' = POOOSet(commits, nonce)
        /\ UNCHANGED <<executes, storage, defaultConfig, fromUln, fromChannel, toEndpoint>>
    BY DEF ChannelCommitsElsewhere, CommitSilently, SendAnswer
  <1>2. /\ commits \in PipelinedOutOfOrder /\ executes \in PipelinedOutOfOrder
        /\ InWindow(commits) /\ InWindow(executes)
        /\ commits.nextEmpty \in Nat /\ executes.nextEmpty \in Nat
        /\ executes.nextEmpty <= commits.nextEmpty
        /\ \A i \in Nat : POOOMarked(executes, i) => POOOMarked(commits, i)
    BY ChannelBitmaps
  <1>3. nonce <= POOOMaxSettableBit(commits)
    BY <1>0, <1>1, <1>2, CellAssumption DEF Open, POOOMaxSettableBit
  <1>4. /\ commits' \in PipelinedOutOfOrder /\ InWindow(commits')
        /\ \A i \in Nat : POOOMarked(commits, i) => POOOMarked(commits', i)
    BY <1>0, <1>1, <1>2, <1>3, SetStep
  <1>5. executes.nextEmpty <= executes'.nextEmpty
    BY <1>1, <1>2
  <1>6. fromChannel' \in Seq(FromChannel) /\ BitmapsAreNested' /\ AnswersAreTrue'
    BY <1>1, <1>2, <1>4, <1>5, ChannelGrows
  <1> QED
    BY <1>1, <1>2, <1>4, <1>6, ChannelStep

LEMMA ExecuteStep ==
    ASSUME IInv, NEW nonce \in Nonces, ChannelExecutes(nonce)
    PROVE  IInv'
  <1>0. nonce \in Nat
    BY NoncesAreNaturals
  <1>1. /\ Open(nonce) /\ commits' = POOOSet(commits, nonce)
        /\ executes' = POOOSet(executes, nonce)
        /\ UNCHANGED <<storage, defaultConfig, fromUln, fromChannel, toEndpoint>>
    BY DEF ChannelExecutes, ExecuteNonce, SendAnswer
  <1>2. /\ commits \in PipelinedOutOfOrder /\ executes \in PipelinedOutOfOrder
        /\ InWindow(commits) /\ InWindow(executes)
        /\ commits.nextEmpty \in Nat /\ executes.nextEmpty \in Nat
        /\ executes.nextEmpty <= commits.nextEmpty
        /\ \A i \in Nat : POOOMarked(executes, i) => POOOMarked(commits, i)
    BY ChannelBitmaps
  <1>3. nonce <= POOOMaxSettableBit(executes) /\ nonce <= POOOMaxSettableBit(commits)
    BY <1>0, <1>1, <1>2, CellAssumption DEF Open, POOOMaxSettableBit
  <1>4. /\ commits' \in PipelinedOutOfOrder /\ InWindow(commits')
        /\ \A i \in Nat : POOOMarked(commits', i) <=> POOOMarked(commits, i) \/ i = nonce
    BY <1>0, <1>1, <1>2, <1>3, SetStep
  <1>5. /\ executes' \in PipelinedOutOfOrder /\ InWindow(executes')
        /\ executes.nextEmpty <= executes'.nextEmpty
        /\ \A i \in Nat : POOOMarked(executes', i) <=> POOOMarked(executes, i) \/ i = nonce
    BY <1>0, <1>1, <1>2, <1>3, SetStep
  <1>6. \A i \in Nat : POOOMarked(executes', i) => POOOMarked(commits', i)
    BY <1>2, <1>4, <1>5
  <1>7. fromChannel' \in Seq(FromChannel) /\ BitmapsAreNested' /\ AnswersAreTrue'
    BY <1>1, <1>4, <1>5, <1>6, ChannelGrows
  <1> QED
    BY <1>1, <1>4, <1>5, <1>7, ChannelStep

\* A notification or a sync changes nothing in the channel.
LEMMA AnswerStep ==
    ASSUME IInv,
           UNCHANGED <<commits, executes, storage, defaultConfig, fromUln, toEndpoint>>,
           fromChannel' = Append(fromChannel, answer'), answer' \in FromChannel,
           answer'.firstUnexecuted = executes.nextEmpty,
           answer'.op = Callback => POOOMarked(commits, answer'.nonce),
           answer'.op = Sync => answer'.nonce = commits.nextEmpty
    PROVE  IInv'
  <1>1. /\ commits' \in PipelinedOutOfOrder /\ executes' \in PipelinedOutOfOrder
        /\ InWindow(commits') /\ InWindow(executes')
        /\ executes.nextEmpty <= executes'.nextEmpty
        /\ \A i \in Nat : POOOMarked(executes', i) => POOOMarked(commits', i)
    BY ChannelBitmaps
  <1>2. fromChannel' \in Seq(FromChannel) /\ BitmapsAreNested' /\ AnswersAreTrue'
    BY <1>1, ChannelGrows
  <1> QED
    BY <1>1, <1>2, ChannelStep

LEMMA NotifyStep ==
    ASSUME IInv, NEW nonce \in Nonces, NotifyPacketExecuted(nonce)
    PROVE  IInv'
  <1>1. /\ POOOMarked(executes, nonce) /\ answer' = CallbackAnswer(nonce)
        /\ UNCHANGED <<commits, executes, storage, defaultConfig, fromUln, toEndpoint>>
        /\ fromChannel' = IF answer' = NoAnswer THEN fromChannel ELSE Append(fromChannel, answer')
    BY DEF NotifyPacketExecuted, NotifyExecuted, SendAnswer
  <1>2. /\ nonce \in Nat /\ executes.nextEmpty \in Nat /\ POOOMarked(commits, nonce)
    BY <1>1, NoncesAreNaturals, ChannelBitmaps
  <1>3. /\ answer' \in FromChannel /\ answer' # NoAnswer
        /\ answer'.op = Callback /\ answer'.op # Sync
        /\ answer'.nonce = nonce /\ answer'.firstUnexecuted = executes.nextEmpty
    BY <1>1, <1>2 DEF CallbackAnswer, FromChannel, NoAnswer, Callback, Sync
  <1> QED
    BY <1>1, <1>2, <1>3, AnswerStep

LEMMA SynchronizeStep ==
    ASSUME IInv, SyncMsglibConnection
    PROVE  IInv'
  <1>1. /\ answer' = SyncAnswer
        /\ UNCHANGED <<commits, executes, storage, defaultConfig, fromUln, toEndpoint>>
        /\ fromChannel' = IF answer' = NoAnswer THEN fromChannel ELSE Append(fromChannel, answer')
    BY DEF SyncMsglibConnection, Synchronize, SendAnswer
  <1>2. /\ commits.nextEmpty \in Nat /\ executes.nextEmpty \in Nat
    BY ChannelBitmaps
  <1>3. /\ answer' \in FromChannel /\ answer' # NoAnswer
        /\ answer'.op = Sync /\ answer'.op # Callback
        /\ answer'.nonce = commits.nextEmpty /\ answer'.firstUnexecuted = executes.nextEmpty
    BY <1>1, <1>2 DEF SyncAnswer, FromChannel, NoAnswer, Callback, Sync
  <1> QED
    BY <1>1, <1>2, <1>3, AnswerStep

-----------------------------------------------------------------------------
(* Every step *)

LEMMA NextOK == IInv /\ [Next]_vars => IInv'
  <1> SUFFICES ASSUME IInv, [Next]_vars
               PROVE  IInv'
    OBVIOUS
  <1>1. CASE UNCHANGED vars
    <2>1. UNCHANGED <<commits, executes, storage, defaultConfig, fromUln, fromChannel, toEndpoint>>
      BY <1>1 DEF vars, frontiers
    <2>2. BitmapsAreNested' /\ AnswersAreTrue'
      BY <2>1, ChannelSideKept
    <2> QED
      BY <2>1, <2>2 DEF IInv, TypeOK, HonestOnRecord, LookupsInRange, OnlyFinalPacketsForwarded
  <1>2. CASE \E nonce \in Nonces, dvn \in DVNs, attestation \in Attestation :
                 UlnVerify(nonce, dvn, attestation)
    BY <1>2, UlnVerifyStep
  <1>3. CASE \E nonce \in Nonces, packet \in Packets, hasCommitGas \in BOOLEAN :
                 UlnCommitPacket(nonce, packet, hasCommitGas)
    BY <1>3, UlnCommitPacketStep
  <1>4. CASE \E nonce \in Nonces : UlnGarbageCollectInvalidAttestations(nonce)
    BY <1>4, UlnGarbageCollectStep
  <1>5. CASE \E config \in DefaultConfigs : SetDefaultUlnReceiveConfig(config)
    BY <1>5, SetDefaultStep
  <1>6. CASE UlnConnectionVerify
    BY <1>6, VerifyStep
  <1>7. CASE UlnConnectionCommitPacket
    BY <1>7, CommitPacketStep
  <1>8. CASE GarbageCollectInvalidAttestations
    BY <1>8, GarbageCollectInvalidStep
  <1>9. CASE GarbageCollectExecutedNonces
    BY <1>9, GarbageCollectExecutedStep
  <1>10. CASE \E config \in OAppConfigs : SetOAppUlnReceiveConfig(config)
    BY <1>10, SetOAppConfigStep
  <1>11. CASE MsglibConnectionCommitPacketCallback
    BY <1>11, CallbackStep
  <1>12. CASE MsglibConnectionSyncChannelState
    BY <1>12, SyncChannelStateStep
  <1>13. CASE \E nonce \in Nonces, packet \in Packets :
                  ChannelCommitPacket(nonce, packet) \/ ChannelRejectsPacket(nonce, packet)
    BY <1>13, CommitStep, RejectStep
  <1>14. CASE \E nonce \in Nonces : ChannelCommitsElsewhere(nonce)
    BY <1>14, ElsewhereStep
  <1>15. CASE \E nonce \in Nonces : ChannelExecutes(nonce)
    BY <1>15, ExecuteStep
  <1>16. CASE \E nonce \in Nonces : NotifyPacketExecuted(nonce)
    BY <1>16, NotifyStep
  <1>17. CASE SyncMsglibConnection
    BY <1>17, SynchronizeStep
  <1> QED
    BY <1>1, <1>2, <1>3, <1>4, <1>5, <1>6, <1>7, <1>8, <1>9, <1>10, <1>11, <1>12,
       <1>13, <1>14, <1>15, <1>16, <1>17 DEF Next

\* The steps that change the connection's storage
LEMMA StorageMoves ==
    ASSUME [Next]_vars
    PROVE  \/ storage' = storage
           \/ UlnConnectionVerify
           \/ GarbageCollectInvalidAttestations
           \/ GarbageCollectExecutedNonces
           \/ \E config \in OAppConfigs : SetOAppUlnReceiveConfig(config)
           \/ MsglibConnectionCommitPacketCallback
           \/ MsglibConnectionSyncChannelState
  BY DEF Next, vars, UlnVerify, UlnCommitPacket, UlnGarbageCollectInvalidAttestations,
         ToConnection, SetDefaultUlnReceiveConfig, UlnConnectionCommitPacket,
         ChannelCommitPacket, ChannelRejectsPacket, ChannelCommitsElsewhere,
         ChannelExecutes, NotifyPacketExecuted, SyncMsglibConnection, SendAnswer

\* Only an answer of the channel moves the connection's copy.
LEMMA CopyMoves ==
    ASSUME IInv, [Next]_vars
    PROVE  \/ MsglibConnectionCommitPacketCallback
           \/ MsglibConnectionSyncChannelState
           \/ /\ storage'.firstUnexecutedNonce = storage.firstUnexecutedNonce
              /\ storage'.commitPOOO = storage.commitPOOO
  <1>1. storage \in Storage /\ fromUln \in Seq(FromUln)
    BY DEF IInv, TypeOK
  <1>2. ASSUME NEW nonce \in Nat, storage' = DeleteNonceAttestations(storage, nonce)
        PROVE  /\ storage'.firstUnexecutedNonce = storage.firstUnexecutedNonce
               /\ storage'.commitPOOO = storage.commitPOOO
    BY <1>1, <1>2, DeleteLemma
  <1>3. CASE storage' = storage
    BY <1>3
  <1>4. CASE UlnConnectionVerify /\ storage' # storage
    <2>1. \E nonce, dvn, attestation :
              storage' = [storage EXCEPT !.hashLookups[nonce][dvn] = attestation]
      BY <1>4 DEF UlnConnectionVerify, SetHashLookup
    <2> QED
      BY <1>1, <2>1 DEF Storage
  <1>5. CASE GarbageCollectInvalidAttestations /\ storage' # storage
    <2>1. fromUln # <<>> /\ storage' = DeleteNonceAttestations(storage, Head(fromUln).nonce)
      BY <1>5 DEF GarbageCollectInvalidAttestations, Arrives, EvictAttestations
    <2>2. Head(fromUln) \in FromUln
      BY <1>1, <2>1, HeadAndTail
    <2>3. Head(fromUln).nonce \in Nat
      BY <2>2, FromUlnComponents, NoncesAreNaturals
    <2>4. PICK nonce \in Nat : storage' = DeleteNonceAttestations(storage, nonce)
      BY <2>1, <2>3
    <2> QED
      BY <1>2, <2>4
  <1>6. CASE GarbageCollectExecutedNonces
    <2>1. PICK nonce \in Nonces : storage' = DeleteNonceAttestations(storage, nonce)
      BY <1>6 DEF GarbageCollectExecutedNonces, LookupNonces
    <2> QED
      BY <1>2, <2>1, NoncesAreNaturals
  <1>7. CASE \E config \in OAppConfigs : SetOAppUlnReceiveConfig(config)
    <2>1. PICK config \in OAppConfigs : SetOAppUlnReceiveConfig(config)
      BY <1>7
    <2>2. storage' = [storage EXCEPT !.ulnReceiveConfigOApp = config]
      BY <2>1 DEF SetOAppUlnReceiveConfig
    <2> QED
      BY <1>1, <2>2 DEF Storage
  <1> QED
    BY <1>3, <1>4, <1>5, <1>6, <1>7, StorageMoves

\* A callback deletes the attestations of its nonce, and marks it as far as
\* the copy reaches.
LEMMA CallbackMoves ==
    ASSUME IInv, MsglibConnectionCommitPacketCallback
    PROVE  /\ storage'.firstUnexecutedNonce = Head(fromChannel).firstUnexecuted
           /\ \E nonce \in Nat :
                  /\ POOOMarked(commits, nonce)
                  /\ storage'.commitPOOO = MarkCommitted(storage.commitPOOO, nonce)
                  /\ storage'.hashLookups = DeleteNonceAttestations(storage, nonce).hashLookups
  <1>1. /\ fromChannel \in Seq(FromChannel) /\ storage \in Storage
        /\ fromChannel # <<>> /\ Head(fromChannel).op = Callback
    BY DEF IInv, TypeOK, MsglibConnectionCommitPacketCallback, Arrives, Callback
  <1>2. PICK m \in FromChannel :
            m = Head(fromChannel) /\ m = fromChannel[1] /\ 1 \in DOMAIN fromChannel
    BY <1>1, HeadAndTail
  <1>3. PICK nonce \in Nat : nonce = m.nonce
    BY FromChannelComponents
  <1>4. POOOMarked(commits, nonce)
    BY <1>1, <1>2, <1>3 DEF IInv, AnswersAreTrue, AnswerIsTrue, Callback
  <1> DEFINE deleted == DeleteNonceAttestations(storage, nonce)
  <1>5. deleted \in Storage /\ deleted.commitPOOO = storage.commitPOOO
    BY <1>1, DeleteLemma
  <1>6. storage' = [deleted EXCEPT !.commitPOOO = MarkCommitted(@, nonce),
                                   !.firstUnexecutedNonce = m.firstUnexecuted]
    BY <1>2, <1>3 DEF MsglibConnectionCommitPacketCallback
  <1> HIDE DEF deleted
  <1>7. /\ storage'.commitPOOO = MarkCommitted(storage.commitPOOO, nonce)
        /\ storage'.hashLookups = deleted.hashLookups
        /\ storage'.firstUnexecutedNonce = m.firstUnexecuted
    BY <1>5, <1>6 DEF Storage
  <1> QED
    BY <1>2, <1>4, <1>7 DEF deleted

\* A sync takes the first unexecuted nonce as it is, and extends the commits.
LEMMA SyncMoves ==
    ASSUME IInv, MsglibConnectionSyncChannelState
    PROVE  /\ storage'.firstUnexecutedNonce = Head(fromChannel).firstUnexecuted
           /\ storage'.commitPOOO = SyncCommits(storage.commitPOOO, Head(fromChannel).nonce)
           /\ storage'.hashLookups = storage.hashLookups
  <1>1. storage \in Storage /\ Arrives(fromChannel, Sync)
    BY DEF IInv, TypeOK, MsglibConnectionSyncChannelState, Sync
  <1>2. SyncSettable(storage.commitPOOO, Head(fromChannel).nonce)
    BY <1>1, SyncFits
  <1>3. storage' = [storage EXCEPT !.commitPOOO = SyncCommits(@, Head(fromChannel).nonce),
                                   !.firstUnexecutedNonce = Head(fromChannel).firstUnexecuted]
    BY <1>2 DEF MsglibConnectionSyncChannelState, SyncState
  <1> QED
    BY <1>1, <1>3 DEF Storage

\* Only callbacks and collections take attestations from the record.
LEMMA RecordMoves ==
    ASSUME IInv, [Next]_vars, NEW nonce \in Nonces, NEW dvn \in DVNs,
           HasAttestation(storage, nonce, dvn), ~ HasAttestation(storage', nonce, dvn)
    PROVE  \/ MsglibConnectionCommitPacketCallback
           \/ GarbageCollectExecutedNonces
           \/ GarbageCollectInvalidAttestations
  <1>1. storage \in Storage /\ fromUln \in Seq(FromUln)
    BY DEF IInv, TypeOK
  <1>2. storage' # storage /\ storage'.hashLookups # storage.hashLookups
    BY DEF HasAttestation
  <1>3. ~ UlnConnectionVerify
    <2> SUFFICES ASSUME UlnConnectionVerify PROVE FALSE
      OBVIOUS
    <2>1. fromUln # <<>> /\ Head(fromUln).op = "ULN_CONNECTION_VERIFY"
      BY DEF UlnConnectionVerify, Arrives
    <2>2. Head(fromUln) \in FromUln
      BY <1>1, <2>1, HeadAndTail
    <2>3. PICK m \in FromUln : m = Head(fromUln)
      BY <2>2
    <2>4. m.nonce \in Nonces /\ m.dvn \in DVNs /\ m.attestation \in Attestation
      BY <2>1, <2>3, FromUlnComponents
    <2>5. storage' = [storage EXCEPT !.hashLookups[m.nonce][m.dvn] = m.attestation]
      BY <1>2, <2>3 DEF UlnConnectionVerify, SetHashLookup
    <2>6. storage'.hashLookups = [storage.hashLookups EXCEPT ![m.nonce][m.dvn] = m.attestation]
      BY <1>1, <2>5 DEF Storage
    <2>7. m.attestation # NoAttestation
      BY <2>4, UlnConnectionAssumption DEF Attestation, NoAttestation
    <2>8. storage'.hashLookups[nonce][dvn] \in {m.attestation, storage.hashLookups[nonce][dvn]}
      BY <1>1, <2>4, <2>6, StorageComponents
    <2> QED
      BY <2>7, <2>8 DEF HasAttestation
  <1>4. ~ MsglibConnectionSyncChannelState
    BY <1>2, SyncMoves
  <1>5. ~ \E config \in OAppConfigs : SetOAppUlnReceiveConfig(config)
    <2> SUFFICES ASSUME NEW config \in OAppConfigs, SetOAppUlnReceiveConfig(config) PROVE FALSE
      OBVIOUS
    <2>1. storage' = [storage EXCEPT !.ulnReceiveConfigOApp = config]
      BY DEF SetOAppUlnReceiveConfig
    <2> QED
      BY <1>1, <1>2, <2>1 DEF Storage
  <1> QED
    BY <1>2, <1>3, <1>4, <1>5, StorageMoves

-----------------------------------------------------------------------------
(* The theorems *)

\* The invariant the theorems below follow from: nested bitmaps, answers that
\* are true and in order, an honest record and a bounded range of lookups.
THEOREM InductiveInvariant == Spec => []IInv
  <1>1. Init => IInv
    BY InitOK
  <1>2. IInv /\ [Next]_vars => IInv'
    BY NextOK
  <1> QED
    BY <1>1, <1>2, PTL DEF Spec

\* Every variable keeps its type: the connection's storage and the three kinds
\* of messages in flight.
THEOREM TypeCorrect == Spec => []TypeOK
  <1>1. IInv => TypeOK
    BY DEF IInv
  <1> QED
    BY <1>1, InductiveInvariant, PTL

\* A packet leaves for the channel only if the source chain finally has it,
\* whatever the other DVNs attest, for every configuration with an honest
\* quorum and every order of its changes with the messages in flight.
THEOREM OnlyFinalPackets == Spec => []OnlyFinalPacketsForwarded
  <1>1. IInv => OnlyFinalPacketsForwarded
    BY DEF IInv
  <1> QED
    BY <1>1, InductiveInvariant, PTL

\* Nothing is attested further ahead than the frontier of the channel allows,
\* for every number of lookups and every delay of the answers.
THEOREM LookupsStayNear == Spec => []LookupsNeverFarAhead
  <1>1. IInv => LookupsNeverFarAhead
    <2> SUFFICES ASSUME IInv, NEW nonce \in LookupNonces(storage)
                 PROVE  nonce < executes.nextEmpty + MAX_HASH_LOOKUPS
      BY DEF LookupsNeverFarAhead
    <2>1. nonce < storage.firstUnexecutedNonce + MAX_HASH_LOOKUPS
      BY DEF IInv, LookupsInRange
    <2>2. storage.firstUnexecutedNonce <= executes.nextEmpty
      BY DEF IInv, BitmapsAreNested
    <2>3. /\ storage.firstUnexecutedNonce \in Nat /\ executes.nextEmpty \in Nat
          /\ MAX_HASH_LOOKUPS \in Nat /\ nonce \in Nat
      BY StorageComponents, ChannelBitmaps, NoncesAreNaturals, UlnConnectionAssumption
         DEF IInv, TypeOK, LookupNonces
    <2> QED
      BY <2>1, <2>2, <2>3
  <1> QED
    BY <1>1, InductiveInvariant, PTL

\* committableView calls a nonce committed or executed only if the channel's
\* bitmap has it marked, for every width of the bitmaps.
THEOREM ViewIsBehind == Spec => []ViewNeverAhead
  <1>1. IInv => ViewNeverAhead
    <2> SUFFICES ASSUME IInv, NEW nonce \in Nonces, NEW packet \in Packets,
                        NEW view, view = CommittableView(storage, defaultConfig, nonce, packet)
                 PROVE  /\ view = "COMMITTED" => POOOMarked(commits, nonce)
                        /\ view = "EXECUTED"  => POOOMarked(executes, nonce)
      BY DEF ViewNeverAhead
    <2>1. /\ storage.firstUnexecutedNonce \in Nat
          /\ storage.commitPOOO \in PipelinedOutOfOrder
          /\ executes.nextEmpty \in Nat /\ nonce \in Nat
      BY StorageComponents, ChannelBitmaps, NoncesAreNaturals DEF IInv, TypeOK
    <2>2. view = "COMMITTED" => POOOMarked(storage.commitPOOO, nonce)
      BY DEF CommittableView, POOOMarked, POOOIsBitSet
    <2>3. POOOMarked(storage.commitPOOO, nonce) => POOOMarked(commits, nonce)
      BY <2>1, ChannelBitmaps, Within DEF IInv, BitmapsAreNested
    <2>4. view = "EXECUTED" => nonce < storage.firstUnexecutedNonce
      BY DEF CommittableView
    <2>5. storage.firstUnexecutedNonce <= executes.nextEmpty
      BY DEF IInv, BitmapsAreNested
    <2>6. view = "EXECUTED" => POOOMarked(executes, nonce)
      BY <2>1, <2>4, <2>5 DEF POOOMarked
    <2> QED
      BY <2>2, <2>3, <2>6
  <1> QED
    BY <1>1, InductiveInvariant, PTL

\* A sync fits the copy that it meets, however many windows the copy is behind
\* and whatever else was on its way: unsafeSetBits never throws.
THEOREM SyncsFit == Spec => []SyncAlwaysFits
  <1>1. IInv => SyncAlwaysFits
    BY SyncFits DEF SyncAlwaysFits, Sync
  <1> QED
    BY <1>1, InductiveInvariant, PTL

\* The frontiers of the connection's copy never go back.
THEOREM FrontiersAdvance == Spec => FrontiersNeverGoBack
  <1>1. ASSUME IInv, [Next]_vars
        PROVE  /\ storage'.firstUnexecutedNonce >= storage.firstUnexecutedNonce
               /\ storage'.commitPOOO.nextEmpty >= storage.commitPOOO.nextEmpty
    <2>1. IInv'
      BY <1>1, NextOK
    <2>2. /\ storage.firstUnexecutedNonce \in Nat /\ storage'.firstUnexecutedNonce \in Nat
          /\ storage.commitPOOO \in PipelinedOutOfOrder
          /\ storage'.commitPOOO \in PipelinedOutOfOrder
          /\ InWindow(storage.commitPOOO)
          /\ storage \in Storage
      BY <1>1, <2>1, StorageComponents DEF IInv, TypeOK, BitmapsAreNested
    <2>3. storage.commitPOOO.nextEmpty \in Nat /\ storage'.commitPOOO.nextEmpty \in Nat
      BY <2>2 DEF PipelinedOutOfOrder
    <2>4. CASE MsglibConnectionCommitPacketCallback
      <3>1. /\ Head(fromChannel) \in FromChannel
            /\ AnswerIsTrue(Head(fromChannel), storage, commits, executes)
        BY <1>1, <2>4, HeadAndTail
           DEF IInv, TypeOK, AnswersAreTrue, MsglibConnectionCommitPacketCallback, Arrives
      <3>2. storage'.firstUnexecutedNonce = Head(fromChannel).firstUnexecuted
        BY <1>1, <2>4, CallbackMoves
      <3>3. storage'.firstUnexecutedNonce >= storage.firstUnexecutedNonce
        BY <2>2, <3>1, <3>2 DEF AnswerIsTrue
      <3>4. PICK nonce \in Nat : storage'.commitPOOO = MarkCommitted(storage.commitPOOO, nonce)
        BY <1>1, <2>4, CallbackMoves
      <3>5. storage'.commitPOOO.nextEmpty >= storage.commitPOOO.nextEmpty
        BY <2>2, <2>3, <3>4, SetStep DEF MarkCommitted
      <3> QED
        BY <3>3, <3>5
    <2>5. CASE MsglibConnectionSyncChannelState
      <3>1. /\ Head(fromChannel) \in FromChannel
            /\ AnswerIsTrue(Head(fromChannel), storage, commits, executes)
        BY <1>1, <2>5, HeadAndTail
           DEF IInv, TypeOK, AnswersAreTrue, MsglibConnectionSyncChannelState, Arrives
      <3>2. storage'.firstUnexecutedNonce = Head(fromChannel).firstUnexecuted
            /\ storage'.commitPOOO = SyncCommits(storage.commitPOOO, Head(fromChannel).nonce)
        BY <1>1, <2>5, SyncMoves
      <3>3. storage'.firstUnexecutedNonce >= storage.firstUnexecutedNonce
        BY <2>2, <3>1, <3>2 DEF AnswerIsTrue
      <3>4. storage'.commitPOOO.nextEmpty >= storage.commitPOOO.nextEmpty
        <4>1. Arrives(fromChannel, Sync)
          BY <2>5 DEF MsglibConnectionSyncChannelState, Sync
        <4> QED
          BY <1>1, <2>3, <3>2, <4>1, SyncFits DEF NewCopy
      <3> QED
        BY <3>3, <3>4
    <2>6. CASE /\ storage'.firstUnexecutedNonce = storage.firstUnexecutedNonce
               /\ storage'.commitPOOO = storage.commitPOOO
      BY <2>2, <2>3, <2>6
    <2> QED
      BY <1>1, <2>4, <2>5, <2>6, CopyMoves
  <1>2. IInv /\ [Next]_vars =>
            [/\ storage'.firstUnexecutedNonce >= storage.firstUnexecutedNonce
             /\ storage'.commitPOOO.nextEmpty >= storage.commitPOOO.nextEmpty]_vars
    BY <1>1
  <1> QED
    BY <1>2, InductiveInvariant, PTL DEF Spec, FrontiersNeverGoBack

\* A collection of invalid attestations takes no attestation of a DVN in the
\* lists that the collection resolves, and none at all of another nonce.
LEMMA CollectionSpares ==
    ASSUME IInv, GarbageCollectInvalidAttestations, NEW nonce \in Nonces, NEW dvn \in DVNs,
           HasAttestation(storage, nonce, dvn), ~ HasAttestation(storage', nonce, dvn)
    PROVE  /\ Head(fromUln).nonce = nonce
           /\ IsUnlisted(storage, Head(fromUln).default, dvn)
  <1> DEFINE m == Head(fromUln)
             config == Resolve(storage.ulnReceiveConfigOApp, m.default)
             listed == config.requiredDVNs \cup config.optionalDVNs
  <1> HIDE DEF config
  <1>1. storage' = IF IsValid(config) THEN EvictAttestations(storage, config, m.nonce)
                   ELSE storage
    BY DEF GarbageCollectInvalidAttestations, config
  <1>2. IsValid(config) /\ storage' = EvictAttestations(storage, config, m.nonce)
    BY <1>1
  <1>3. /\ ~ \E other \in listed : HasAttestation(storage, m.nonce, other)
        /\ storage' = DeleteNonceAttestations(storage, m.nonce)
    BY <1>2 DEF EvictAttestations
  <1>4. m.nonce = nonce
    <2>1. storage \in Storage /\ fromUln \in Seq(FromUln) /\ fromUln # <<>>
      BY DEF IInv, TypeOK, GarbageCollectInvalidAttestations, Arrives
    <2>2. m \in FromUln
      BY <2>1, HeadAndTail
    <2> HIDE DEF m
    <2>3. m.nonce \in Nat
      BY <2>2, FromUlnComponents, NoncesAreNaturals
    <2>4. PICK n \in Nat : n = m.nonce
      BY <2>3
    <2>5. n # nonce => DeleteNonceAttestations(storage, n).hashLookups[nonce]
                           = storage.hashLookups[nonce]
      BY <2>1, DeleteLemma
    <2> QED
      BY <1>3, <2>4, <2>5 DEF HasAttestation
  <1>5. dvn \notin listed
    BY <1>3, <1>4
  <1> QED
    BY <1>2, <1>4, <1>5 DEF IsUnlisted, config

\* An attestation of a nonce that is still to be committed is dropped only by a
\* collection of its nonce that resolves lists without its DVN, in every order
\* of callbacks, syncs and collections.
THEOREM AttestationsStay == Spec => PendingAttestationsKept
  <1>1. ASSUME IInv, [Next]_vars, NEW nonce \in Nonces, NEW dvn \in DVNs,
               HasAttestation(storage, nonce, dvn), ~ HasAttestation(storage', nonce, dvn),
               ~ GarbageCollectInvalidAttestations
        PROVE  POOOMarked(commits, nonce)
    <2>1. storage \in Storage /\ nonce \in Nat
      BY <1>1, NoncesAreNaturals DEF IInv, TypeOK
    <2>2. ASSUME NEW n \in Nat,
                 storage'.hashLookups = DeleteNonceAttestations(storage, n).hashLookups
          PROVE  n = nonce
      <3>1. n # nonce => DeleteNonceAttestations(storage, n).hashLookups[nonce]
                             = storage.hashLookups[nonce]
        BY <2>1, DeleteLemma
      <3> QED
        BY <1>1, <2>2, <3>1 DEF HasAttestation
    <2>3. CASE MsglibConnectionCommitPacketCallback
      BY <1>1, <2>2, <2>3, CallbackMoves
    <2>4. CASE GarbageCollectExecutedNonces
      <3>1. PICK n \in Nonces : /\ Collectable(storage, n)
                                /\ storage' = DeleteNonceAttestations(storage, n)
        BY <2>4 DEF GarbageCollectExecutedNonces, LookupNonces
      <3>2. n = nonce
        BY <2>2, <3>1, NoncesAreNaturals
      <3>3. nonce < storage.firstUnexecutedNonce
        BY <3>1, <3>2 DEF Collectable
      <3>4. storage.firstUnexecutedNonce <= executes.nextEmpty
        BY <1>1 DEF IInv, BitmapsAreNested
      <3>5. storage.firstUnexecutedNonce \in Nat /\ executes.nextEmpty \in Nat
        BY <1>1, <2>1, StorageComponents, ChannelBitmaps
      <3>6. POOOMarked(executes, nonce)
        BY <2>1, <3>3, <3>4, <3>5 DEF POOOMarked
      <3> QED
        BY <1>1, <2>1, <3>6, ChannelBitmaps
    <2> QED
      BY <1>1, <2>3, <2>4, RecordMoves
  <1> DEFINE Kept ==
                 \A nonce \in Nonces, dvn \in DVNs :
                     HasAttestation(storage, nonce, dvn) /\ ~ HasAttestation(storage', nonce, dvn) =>
                         \/ POOOMarked(commits, nonce)
                         \/ /\ GarbageCollectInvalidAttestations
                            /\ Head(fromUln).nonce = nonce
                            /\ IsUnlisted(storage, Head(fromUln).default, dvn)
  <1>2. IInv /\ [Next]_vars => [Kept]_vars
    BY <1>1, CollectionSpares
  <1> QED
    BY <1>2, InductiveInvariant, PTL DEF Spec, PendingAttestationsKept
=============================================================================
