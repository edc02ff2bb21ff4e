------------------------- MODULE ChannelSendProofs -------------------------
(***************************************************************************)
(* Proofs about ChannelSend, for every size of the queue, number of        *)
(* requests, fees, quotes and msglib connections: nonces without gaps, one *)
(* true receipt per request, and a queue that holds what is unanswered.    *)
(***************************************************************************)
EXTENDS ChannelSend, DataStructuresProofs

LeafType == [key    : Nat \cup {InvalidKey},
             status : {"invalid", "sending"},
             object : LzSend \cup {EmptyCell}]

\* The components of the storage and of a request.
LEMMA Components ==
    ASSUME NEW s \in Storage
    PROVE  /\ s.epConfigOApp \in Msglibs \cup {NullAddress, "default"}
           /\ s.outboundNonce \in Nat
           /\ s.sendRequestQueue \in [Slots -> LeafType]
           /\ s.lastSendRequestId \in Nat
           /\ s.zroBalance \in Nat
  BY DEF Storage, LeafType

LEMMA LzSendComponents ==
    ASSUME NEW lzSend \in LzSend
    PROVE  lzSend.request \in Requests /\ lzSend.requestId \in Nat
  BY DEF LzSend

LEMMA AcceptedComponents ==
    ASSUME IInv, NEW i \in DOMAIN accepted
    PROVE  /\ accepted[i] \in LzSend
           /\ accepted[i].request \in Requests /\ accepted[i].request <= requests
           /\ accepted[i].requestId = i /\ i \in Nat
           /\ accepted[i].request \in Nat
           /\ accepted[i].request # requests + 1
  <1>1. accepted \in Seq(LzSend) /\ requests \in Nat
    BY DEF IInv, TypeOK
  <1>2. accepted[i] \in LzSend /\ i \in Nat
    BY <1>1
  <1>3. accepted[i].request \in Requests
    BY <1>2, LzSendComponents
  <1>4. accepted[i].requestId = i /\ accepted[i].request <= requests
    BY DEF IInv, AcceptedInOrder
  <1> QED
    BY <1>1, <1>2, <1>3, <1>4 DEF Requests

Packet == [nonce : Nat, request : Requests, zroQuote : Nat]

LEMMA PacketComponents ==
    ASSUME IInv, NEW i \in DOMAIN packetsSent
    PROVE  packetsSent[i].request \in Requests
  <1>1. packetsSent \in Seq(Packet)
    BY DEF IInv, TypeOK, Packet
  <1>2. packetsSent[i] \in Packet
    BY <1>1
  <1>3. \A packet \in Packet : packet.request \in Requests
    BY DEF Packet
  <1> QED
    BY <1>2, <1>3

LEMMA OneIsNotEmpty ==
    ASSUME NEW receipt
    PROVE  <<receipt>> # <<>>
  OBVIOUS

-----------------------------------------------------------------------------
(* A request in the queue, and its release with a receipt                  *)

\* A request that is pending is the accepted one of its id, and unanswered.
LEMMA PendingIsAccepted ==
    ASSUME IInv, NEW lzSend \in LzSend, IsPending(storage, lzSend)
    PROVE  /\ lzSend.requestId \in DOMAIN accepted
           /\ accepted[lzSend.requestId] = lzSend
           /\ receipts[lzSend.request] = <<>>
  <1> DEFINE leaf == storage.sendRequestQueue[SlotOf(lzSend.requestId)]
  <1>1. SlotOf(lzSend.requestId) \in Slots
    BY SlotType, LzSendComponents
  <1>2. leaf.key # InvalidKey /\ leaf.object = lzSend
    BY DEF IsPending, DICQExists, DICQGet
  <1>3. leaf.key \in DOMAIN accepted /\ accepted[leaf.key] = lzSend
    BY <1>1, <1>2 DEF IInv, EntriesAreAccepted
  <1>4. leaf.key = lzSend.requestId
    BY <1>3 DEF IInv, AcceptedInOrder
  <1>5. receipts[accepted[leaf.key].request] = <<>>
    BY <1>3 DEF IInv, QueueHoldsTheUnanswered
  <1> QED
    BY <1>3, <1>4, <1>5

\* Releasing it, with a receipt, touches no other request.
LEMMA ReleaseStep ==
    ASSUME IInv, NEW lzSend \in LzSend, IsPending(storage, lzSend),
           NEW receipt \in Receipt,
           storage'.sendRequestQueue = DICQDelete(storage.sendRequestQueue, lzSend.requestId),
           storage'.lastSendRequestId = storage.lastSendRequestId,
           receipts' = [receipts EXCEPT ![lzSend.request] = Append(@, receipt)],
           accepted' = accepted, requests' = requests
    PROVE  /\ storage'.sendRequestQueue \in [Slots -> LeafType]
           /\ receipts' \in [Requests -> Seq(Receipt)]
           /\ receipts'[lzSend.request] = <<receipt>>
           /\ \A request \in Requests :
                 request # lzSend.request => receipts'[request] = receipts[request]
           /\ lzSend.request <= requests
           /\ AcceptedInOrder' /\ EntriesAreAccepted' /\ QueueHoldsTheUnanswered'
  <1> DEFINE queue == storage.sendRequestQueue
             id    == lzSend.requestId
  <1>0. /\ queue \in [Slots -> LeafType]
        /\ id \in Nat /\ SlotOf(id) \in Slots
        /\ lzSend.request \in Requests
        /\ receipts \in [Requests -> Seq(Receipt)]
        /\ accepted \in Seq(LzSend)
    BY Components, LzSendComponents, SlotType DEF IInv, TypeOK
  <1>1. id \in DOMAIN accepted /\ accepted[id] = lzSend /\ receipts[lzSend.request] = <<>>
    BY PendingIsAccepted
  <1>2. storage'.sendRequestQueue = [queue EXCEPT ![SlotOf(id)] = Vacant]
    BY DEF DICQDelete
  <1>3. storage'.sendRequestQueue \in [Slots -> LeafType]
    BY <1>0, <1>2 DEF LeafType, Vacant
  <1>4. receipts'[lzSend.request] = <<receipt>>
    BY <1>0, <1>1
  <1>5. \A request \in Requests :
            request # lzSend.request => receipts'[request] = receipts[request]
    BY <1>0
  <1>6. receipts' \in [Requests -> Seq(Receipt)]
    BY <1>0
  <1>7. lzSend.request <= requests
    BY <1>1 DEF IInv, AcceptedInOrder
  <1>8. AcceptedInOrder'
    BY DEF IInv, AcceptedInOrder
  <1>9. EntriesAreAccepted'
    <2> SUFFICES ASSUME NEW slot \in Slots, storage'.sendRequestQueue[slot].key # InvalidKey
                 PROVE  /\ storage'.sendRequestQueue[slot].key \in DOMAIN accepted
                        /\ storage'.sendRequestQueue[slot].object
                              = accepted[storage'.sendRequestQueue[slot].key]
      BY DEF EntriesAreAccepted
    <2>1. storage'.sendRequestQueue[slot] = queue[slot]
      BY <1>0, <1>2 DEF Vacant
    <2> QED
      BY <2>1 DEF IInv, EntriesAreAccepted
  <1>10. QueueHoldsTheUnanswered'
    <2> SUFFICES ASSUME NEW i \in DOMAIN accepted
                 PROVE  IsPending(storage', accepted[i])
                           <=> receipts'[accepted[i].request] = <<>>
      BY DEF QueueHoldsTheUnanswered
    <2>1. /\ accepted[i] \in LzSend /\ accepted[i].request \in Requests
          /\ accepted[i].requestId = i /\ i \in Nat /\ SlotOf(i) \in Slots
      BY <1>0, LzSendComponents, SlotType DEF IInv, AcceptedInOrder
    <2>2. IsPending(storage, accepted[i]) <=> receipts[accepted[i].request] = <<>>
      BY DEF IInv, QueueHoldsTheUnanswered
    <2>3. CASE i = id
      <3>1. ~ IsPending(storage', accepted[i])
        BY <1>0, <1>2, <2>1, <2>3 DEF IsPending, DICQExists, DICQGet, Vacant
      <3>2. receipts'[accepted[i].request] # <<>>
        <4>1. accepted[i].request = lzSend.request
          BY <1>1, <2>3
        <4> QED
          BY <1>4, <4>1, OneIsNotEmpty
      <3> QED
        BY <3>1, <3>2
    <2>4. CASE i # id
      <3>1. receipts'[accepted[i].request] = receipts[accepted[i].request]
        <4>1. accepted[i].request # lzSend.request
          BY <1>1, <2>4 DEF IInv, AcceptedInOrder
        <4> QED
          BY <1>5, <2>1, <4>1
      <3>2. CASE SlotOf(i) # SlotOf(id)
        <4>1. DICQGet(storage'.sendRequestQueue, i) = DICQGet(queue, i)
          BY <1>0, <1>2, <2>1, <3>2 DEF DICQGet
        <4> QED
          BY <2>1, <2>2, <3>1, <4>1 DEF IsPending, DICQExists
      <3>3. CASE SlotOf(i) = SlotOf(id)
        <4>1. ~ IsPending(storage', accepted[i])
          BY <1>0, <1>2, <2>1, <3>3 DEF IsPending, DICQExists, DICQGet, Vacant
        <4>2. DICQGet(queue, i).object = lzSend
          BY <3>3 DEF IsPending, DICQGet
        <4>3. ~ IsPending(storage, accepted[i])
          BY <2>1, <2>4, <4>2 DEF IsPending
        <4> QED
          BY <2>2, <3>1, <4>1, <4>3
      <3> QED
        BY <3>2, <3>3
    <2> QED
      BY <2>3, <2>4
  <1> QED
    BY <1>3, <1>4, <1>5, <1>6, <1>7, <1>8, <1>9, <1>10

-----------------------------------------------------------------------------
(* The actions                                                             *)

\* A step that leaves queue, requests, receipts and packets alone.
LEMMA FrameStep ==
    ASSUME IInv, TypeOK',
           storage'.sendRequestQueue = storage.sendRequestQueue,
           storage'.lastSendRequestId = storage.lastSendRequestId,
           storage'.outboundNonce = storage.outboundNonce,
           UNCHANGED <<requests, accepted, packetsSent, receipts>>
    PROVE  IInv'
  BY DEF IInv, AcceptedInOrder, EntriesAreAccepted, QueueHoldsTheUnanswered, IsPending,
         DICQExists, DICQGet, NoncesAreGapFree, ReceiptsMatchPackets

\* Receipts after one that goes to a request that was made.
LEMMA ReceiptOfOne ==
    ASSUME IInv, NEW request \in Requests, NEW one \in Requests, one <= requests,
           NEW receipt, NEW rs, rs[one] = <<receipt>>,
           \A other \in Requests : other # one => rs[other] = receipts[other]
    PROVE  Len(rs[request]) <= 1 /\ (request > requests => rs[request] = <<>>)
  <1>1. CASE request = one
    <2>1. ~ (request > requests)
      BY <1>1 DEF IInv, TypeOK, Requests
    <2>2. Len(rs[request]) = 1
      BY <1>1
    <2> QED
      BY <2>1, <2>2
  <1>2. CASE request # one
    BY <1>2 DEF IInv, ReceiptsMatchPackets
  <1> QED
    BY <1>1, <1>2

LEMMA ConfigStep ==
    ASSUME IInv, NEW msglib \in Msglibs \cup {NullAddress}, SetEpConfigOApp(msglib)
    PROVE  IInv'
  <1>1. storage \in Storage
    BY DEF IInv, TypeOK
  <1>2. TypeOK'
    BY <1>1 DEF IInv, TypeOK, SetEpConfigOApp, Storage
  <1>3. /\ storage'.sendRequestQueue = storage.sendRequestQueue
        /\ storage'.lastSendRequestId = storage.lastSendRequestId
        /\ storage'.outboundNonce = storage.outboundNonce
    BY <1>1 DEF SetEpConfigOApp, Storage
  <1> QED
    BY <1>2, <1>3, FrameStep DEF SetEpConfigOApp

LEMMA DepositStep ==
    ASSUME IInv, NEW amount \in 1 .. MaxZro, DepositZro(amount)
    PROVE  IInv'
  <1>1. storage \in Storage /\ deposited \in Nat
    BY DEF IInv, TypeOK
  <1>2. storage' \in Storage /\ deposited' \in 0 .. MaxZro
    BY <1>1, ChannelSendAssumption DEF DepositZro, Storage
  <1>3. TypeOK'
    BY <1>2 DEF IInv, TypeOK, DepositZro
  <1>4. /\ storage'.sendRequestQueue = storage.sendRequestQueue
        /\ storage'.lastSendRequestId = storage.lastSendRequestId
        /\ storage'.outboundNonce = storage.outboundNonce
    BY <1>1 DEF DepositZro, Storage
  <1> QED
    BY <1>3, <1>4, FrameStep DEF DepositZro

\* The msglib answers, or throws, or its answer reverts.
LEMMA MsglibStep ==
    ASSUME IInv, NEW lzSend, NEW answer,
           \/ \E quote \in Quotes, errorCode \in {"NO_ERROR", "msglibError"} :
                 MsglibAnswers(lzSend, quote, errorCode)
           \/ MsglibThrows(lzSend)
           \/ MsglibSendCallbackReverts(answer)
    PROVE  IInv'
  <1>1. toMsglib' \subseteq LzSend
    BY DEF IInv, TypeOK, MsglibAnswers, MsglibThrows, MsglibSendCallbackReverts
  <1>2. toChannel' \subseteq Answer
    BY DEF IInv, TypeOK, MsglibAnswers, MsglibThrows, MsglibSendCallbackReverts, Answer
  <1>3. UNCHANGED <<storage, requests, accepted, packetsSent, receipts, deposited>>
    BY DEF MsglibAnswers, MsglibThrows, MsglibSendCallbackReverts
  <1>4. TypeOK'
    BY <1>1, <1>2, <1>3 DEF IInv, TypeOK
  <1> QED
    BY <1>3, <1>4, FrameStep

LEMMA StutterStep ==
    ASSUME IInv, UNCHANGED vars
    PROVE  IInv'
  <1>1. TypeOK'
    BY DEF IInv, TypeOK, vars
  <1> QED
    BY <1>1, FrameStep DEF vars

\* A request that is released without a packet.
LEMMA AbortedStep ==
    ASSUME IInv, NEW lzSend \in LzSend, IsPending(storage, lzSend),
           NEW errorCode \in Errors,
           storage' = Release(storage, lzSend),
           AddReceipt(lzSend.request, errorCode, 0),
           toChannel' \subseteq Answer,
           UNCHANGED <<requests, toMsglib, accepted, packetsSent, deposited>>
    PROVE  IInv'
  <1> DEFINE receipt == [errorCode |-> errorCode, nonce |-> 0]
  <1>1. storage \in Storage /\ receipt \in Receipt
    BY DEF IInv, TypeOK, Receipt
  <1>2. /\ storage'.sendRequestQueue = DICQDelete(storage.sendRequestQueue, lzSend.requestId)
        /\ storage' = [storage EXCEPT !.sendRequestQueue = storage'.sendRequestQueue]
        /\ storage'.lastSendRequestId = storage.lastSendRequestId
        /\ storage'.outboundNonce = storage.outboundNonce
    BY <1>1 DEF Release, Storage
  <1>3. receipts' = [receipts EXCEPT ![lzSend.request] = Append(@, receipt)]
    BY DEF AddReceipt
  <1>4. /\ storage'.sendRequestQueue \in [Slots -> LeafType]
        /\ receipts' \in [Requests -> Seq(Receipt)]
        /\ receipts'[lzSend.request] = <<receipt>>
        /\ \A request \in Requests :
              request # lzSend.request => receipts'[request] = receipts[request]
        /\ lzSend.request <= requests
        /\ AcceptedInOrder' /\ EntriesAreAccepted' /\ QueueHoldsTheUnanswered'
    <2> HIDE DEF receipt
    <2> QED
      BY <1>1, <1>2, <1>3, ReleaseStep
  <1>5. TypeOK'
    <2>1. storage' \in Storage
      BY <1>1, <1>2, <1>4 DEF Storage, LeafType
    <2> QED
      BY <1>4, <2>1 DEF IInv, TypeOK
  <1>6. NoncesAreGapFree'
    BY <1>2 DEF IInv, NoncesAreGapFree
  <1>7. ReceiptsMatchPackets'
    <2>1. ASSUME NEW request \in Requests
          PROVE  Len(receipts'[request]) <= 1 /\ (request > requests => receipts'[request] = <<>>)
      <3> HIDE DEF receipt
      <3>1. lzSend.request \in Requests
        BY LzSendComponents
      <3>2. /\ lzSend.request <= requests /\ receipts'[lzSend.request] = <<receipt>>
            /\ \A other \in Requests :
                  other # lzSend.request => receipts'[other] = receipts[other]
        BY <1>4
      <3> QED
        BY <3>1, <3>2, ReceiptOfOne
    <2>2. ASSUME NEW i \in DOMAIN packetsSent
          PROVE  receipts'[packetsSent[i].request] = <<[errorCode |-> "NO_ERROR", nonce |-> i]>>
      <3>1. receipts[packetsSent[i].request] = <<[errorCode |-> "NO_ERROR", nonce |-> i]>>
        BY DEF IInv, ReceiptsMatchPackets
      <3>2. receipts[lzSend.request] = <<>>
        BY PendingIsAccepted
      <3>3. packetsSent[i].request # lzSend.request
        BY <3>1, <3>2, OneIsNotEmpty, Zenon
      <3>4. packetsSent[i].request \in Requests
        BY PacketComponents
      <3> QED
        BY <1>4, <3>1, <3>3, <3>4
    <2> QED
      BY <2>1, <2>2 DEF ReceiptsMatchPackets
  <1> QED
    BY <1>4, <1>5, <1>6, <1>7 DEF IInv

LEMMA ForceAbortStep ==
    ASSUME IInv, NEW lzSend \in AcceptedRequests, ForceAbort(lzSend)
    PROVE  IInv'
  <1>1. lzSend \in LzSend
    BY DEF IInv, TypeOK, AcceptedRequests
  <1>2. "sendAborted" \in Errors /\ toChannel' \subseteq Answer
    BY DEF Errors, IInv, TypeOK, ForceAbort
  <1> QED
    BY <1>1, <1>2, AbortedStep DEF ForceAbort

\* The answer that turns a request into a packet.
LEMMA PacketStep ==
    ASSUME IInv, NEW answer \in toChannel, MsglibSendCallback(answer),
           IsPending(storage, answer.lzSend), ErrorCode(storage, answer) = "NO_ERROR"
    PROVE  IInv'
  <1> DEFINE lzSend  == answer.lzSend
             nonce   == storage.outboundNonce + 1
             receipt == [errorCode |-> "NO_ERROR", nonce |-> nonce]
             packet  == [nonce |-> nonce, request |-> lzSend.request,
                         zroQuote |-> answer.quote.zro]
  <1>1. /\ answer \in Answer /\ lzSend \in LzSend /\ lzSend.request \in Requests
        /\ answer.quote.zro \in Nat
    <2>1. answer \in Answer
      BY DEF IInv, TypeOK
    <2>2. lzSend \in LzSend /\ answer.quote \in Fees
      BY <2>1, ChannelSendAssumption DEF Answer
    <2> QED
      BY <2>1, <2>2, LzSendComponents DEF Fees
  <1>2. /\ storage \in Storage /\ storage.outboundNonce \in Nat /\ storage.zroBalance \in Nat
        /\ nonce \in Nat /\ storage.outboundNonce = Len(packetsSent)
    BY Components DEF IInv, TypeOK, NoncesAreGapFree
  <1>3. /\ storage' = [Release(storage, lzSend) EXCEPT
                           !.outboundNonce = nonce, !.zroBalance = @ - answer.quote.zro]
        /\ packetsSent' = Append(packetsSent, packet)
        /\ receipts' = [receipts EXCEPT ![lzSend.request] = Append(@, receipt)]
        /\ toChannel' \subseteq toChannel
        /\ UNCHANGED <<requests, toMsglib, accepted, deposited>>
    BY DEF MsglibSendCallback, AddReceipt
  <1>4. answer.quote.zro <= storage.zroBalance
    BY <1>1, <1>2 DEF ErrorCode
  <1>5. /\ storage'.sendRequestQueue = DICQDelete(storage.sendRequestQueue, lzSend.requestId)
        /\ storage'.epConfigOApp = storage.epConfigOApp
        /\ storage'.lastSendRequestId = storage.lastSendRequestId
        /\ storage'.outboundNonce = nonce
        /\ storage' = [storage EXCEPT
               !.sendRequestQueue = DICQDelete(storage.sendRequestQueue, lzSend.requestId),
               !.outboundNonce = nonce, !.zroBalance = @ - answer.quote.zro]
    BY <1>2, <1>3 DEF Release, Storage
  <1>6. receipt \in Receipt
    BY <1>2 DEF Receipt
  <1>7. packetsSent \in Seq(Packet) /\ packet \in Packet
    BY <1>1, <1>2 DEF IInv, TypeOK, Packet
  <1>8. /\ storage'.sendRequestQueue \in [Slots -> LeafType]
        /\ receipts' \in [Requests -> Seq(Receipt)]
        /\ receipts'[lzSend.request] = <<receipt>>
        /\ \A request \in Requests :
              request # lzSend.request => receipts'[request] = receipts[request]
        /\ lzSend.request <= requests
        /\ AcceptedInOrder' /\ EntriesAreAccepted' /\ QueueHoldsTheUnanswered'
    <2> HIDE DEF receipt, lzSend
    <2> QED
      BY <1>1, <1>3, <1>5, <1>6, ReleaseStep DEF lzSend
  <1>9. TypeOK'
    <2>1. storage.zroBalance - answer.quote.zro \in Nat
      BY <1>1, <1>2, <1>4
    <2>2. storage' \in Storage
      BY <1>2, <1>5, <1>8, <2>1 DEF Storage, LeafType
    <2>3. packetsSent' \in Seq(Packet)
      <3> HIDE DEF packet
      <3> QED
        BY <1>3, <1>7
    <2> QED
      BY <1>3, <1>8, <2>2, <2>3 DEF IInv, TypeOK, Packet
  <1>10. ASSUME NEW i \in DOMAIN packetsSent
         PROVE  packetsSent[i].request # lzSend.request /\ packetsSent[i].request \in Requests
    <2>1. receipts[packetsSent[i].request] = <<[errorCode |-> "NO_ERROR", nonce |-> i]>>
      BY DEF IInv, ReceiptsMatchPackets
    <2>2. receipts[lzSend.request] = <<>>
      BY <1>1, PendingIsAccepted
    <2>3. packetsSent[i].request # lzSend.request
      BY <2>1, <2>2, OneIsNotEmpty, Zenon
    <2> QED
      BY <2>3, PacketComponents
  <1>11. /\ Len(packetsSent') = nonce /\ DOMAIN packetsSent' = 1 .. nonce
         /\ DOMAIN packetsSent = 1 .. storage.outboundNonce
         /\ packetsSent'[nonce] = packet
         /\ \A i \in DOMAIN packetsSent : packetsSent'[i] = packetsSent[i]
    <2> HIDE DEF packet
    <2> QED
      BY <1>2, <1>3, <1>7
  <1>12. NoncesAreGapFree'
    <2>1. \A i \in DOMAIN packetsSent : packetsSent[i].nonce = i
      BY DEF IInv, NoncesAreGapFree
    <2>2. \A i \in 1 .. nonce : packetsSent'[i].nonce = i
      BY <1>2, <1>11, <2>1
    <2>3. \A i, j \in 1 .. nonce :
             packetsSent'[i].request = packetsSent'[j].request => i = j
      <3>1. packetsSent'[nonce].request = lzSend.request
        BY <1>11
      <3> QED
        BY <1>2, <1>10, <1>11, <3>1 DEF IInv, NoncesAreGapFree
    <2> QED
      BY <1>5, <1>11, <2>2, <2>3 DEF NoncesAreGapFree
  <1>13. ReceiptsMatchPackets'
    <2>1. ASSUME NEW request \in Requests
          PROVE  Len(receipts'[request]) <= 1 /\ (request > requests => receipts'[request] = <<>>)
      <3> HIDE DEF receipt, lzSend
      <3> QED
        BY <1>1, <1>8, ReceiptOfOne
    <2>2. ASSUME NEW i \in 1 .. nonce
          PROVE  receipts'[packetsSent'[i].request] = <<[errorCode |-> "NO_ERROR", nonce |-> i]>>
      <3>1. CASE i = nonce
        BY <1>8, <1>11, <3>1
      <3>2. CASE i # nonce
        <4>1. i \in DOMAIN packetsSent /\ packetsSent'[i] = packetsSent[i]
          BY <1>2, <1>11, <3>2
        <4> QED
          BY <1>8, <1>10, <4>1 DEF IInv, ReceiptsMatchPackets
      <3> QED
        BY <3>1, <3>2
    <2> QED
      BY <1>3, <1>11, <2>1, <2>2 DEF ReceiptsMatchPackets
  <1> QED
    BY <1>8, <1>9, <1>12, <1>13 DEF IInv

\* A request that is turned away gets its receipt at once.
LEMMA RefusedStep ==
    ASSUME IInv, NEW errorCode \in Errors, requests + 1 \in Requests,
           requests' = requests + 1,
           AddReceipt(requests + 1, errorCode, 0),
           UNCHANGED <<storage, toMsglib, toChannel, accepted, packetsSent, deposited>>
    PROVE  IInv'
  <1> DEFINE receipt == [errorCode |-> errorCode, nonce |-> 0]
  <1>1. receipt \in Receipt
    BY DEF Receipt
  <1>2. requests \in Nat /\ receipts \in [Requests -> Seq(Receipt)]
    BY DEF IInv, TypeOK
  <1>3. receipts' = [receipts EXCEPT ![requests + 1] = Append(@, receipt)]
    BY DEF AddReceipt
  <1> HIDE DEF receipt
  <1>4. receipts[requests + 1] = <<>>
    BY <1>2 DEF IInv, ReceiptsMatchPackets
  <1>5. /\ receipts' \in [Requests -> Seq(Receipt)]
        /\ receipts'[requests + 1] = <<receipt>>
        /\ \A request \in Requests :
              request # requests + 1 => receipts'[request] = receipts[request]
    BY <1>1, <1>2, <1>3, <1>4
  <1>6. TypeOK'
    BY <1>2, <1>5, ChannelSendAssumption DEF IInv, TypeOK, Requests
  <1>7. AcceptedInOrder' /\ EntriesAreAccepted' /\ NoncesAreGapFree'
    BY <1>2, AcceptedComponents
       DEF IInv, AcceptedInOrder, EntriesAreAccepted, NoncesAreGapFree
  <1>8. QueueHoldsTheUnanswered'
    <2> SUFFICES ASSUME NEW i \in DOMAIN accepted
                 PROVE  IsPending(storage, accepted[i])
                           <=> receipts'[accepted[i].request] = <<>>
      BY DEF QueueHoldsTheUnanswered, IsPending
    <2>1. accepted[i].request \in Requests /\ accepted[i].request # requests + 1
      BY <1>2, AcceptedComponents
    <2> QED
      BY <1>5, <2>1 DEF IInv, QueueHoldsTheUnanswered
  <1>9. ReceiptsMatchPackets'
    <2>1. ASSUME NEW request \in Requests
          PROVE  Len(receipts'[request]) <= 1 /\ (request > requests' => receipts'[request] = <<>>)
      <3>1. CASE request = requests + 1
        <4>1. Len(receipts'[request]) = 1
          BY <1>5, <3>1
        <4> QED
          BY <1>2, <3>1, <4>1
      <3>2. CASE request # requests + 1
        BY <1>2, <1>5, <3>2 DEF IInv, ReceiptsMatchPackets, Requests
      <3> QED
        BY <3>1, <3>2
    <2>2. ASSUME NEW i \in DOMAIN packetsSent
          PROVE  receipts'[packetsSent[i].request] = <<[errorCode |-> "NO_ERROR", nonce |-> i]>>
      <3>1. receipts[packetsSent[i].request] = <<[errorCode |-> "NO_ERROR", nonce |-> i]>>
        BY DEF IInv, ReceiptsMatchPackets
      <3>2. packetsSent[i].request # requests + 1
        BY <1>4, <3>1, OneIsNotEmpty, Zenon
      <3> QED
        BY <1>5, <3>1, <3>2, PacketComponents
    <2> QED
      BY <2>1, <2>2 DEF ReceiptsMatchPackets
  <1> QED
    BY <1>6, <1>7, <1>8, <1>9 DEF IInv

\* A request that finds its slot free.
LEMMA AcceptedStep ==
    ASSUME IInv, NEW lzSend \in LzSend, requests + 1 \in Requests,
           lzSend.request = requests + 1,
           lzSend.requestId = storage.lastSendRequestId + 1,
           ~ DICQExists(storage.sendRequestQueue, lzSend.requestId),
           requests' = requests + 1,
           storage' = [storage EXCEPT
               !.lastSendRequestId = lzSend.requestId,
               !.sendRequestQueue  = DICQSet(@, lzSend.requestId, lzSend, "sending")],
           toMsglib' = toMsglib \cup {lzSend},
           accepted' = Append(accepted, lzSend),
           UNCHANGED <<toChannel, packetsSent, receipts, deposited>>
    PROVE  IInv'
  <1> DEFINE id    == lzSend.requestId
             queue == storage.sendRequestQueue
             leaf  == [key |-> id, status |-> "sending", object |-> lzSend]
  <1>1. /\ storage \in Storage /\ queue \in [Slots -> LeafType]
        /\ id \in Nat /\ SlotOf(id) \in Slots /\ requests \in Nat
        /\ accepted \in Seq(LzSend) /\ id = Len(accepted) + 1
    BY Components, LzSendComponents, SlotType DEF IInv, TypeOK, AcceptedInOrder
  <1>2. /\ storage'.lastSendRequestId = id
        /\ storage'.sendRequestQueue = [queue EXCEPT ![SlotOf(id)] = leaf]
        /\ storage'.outboundNonce = storage.outboundNonce
    BY <1>1 DEF Storage, DICQSet
  <1>3. storage'.sendRequestQueue \in [Slots -> LeafType]
    <2>1. leaf \in LeafType
      BY <1>1 DEF LeafType
    <2> HIDE DEF leaf, queue, id
    <2> QED
      BY <1>1, <1>2, <2>1
  <1>4. /\ accepted' \in Seq(LzSend) /\ Len(accepted') = id
        /\ DOMAIN accepted' = 1 .. id /\ DOMAIN accepted = 1 .. id - 1
        /\ accepted'[id] = lzSend
        /\ \A i \in DOMAIN accepted : accepted'[i] = accepted[i]
    BY <1>1
  <1>5. TypeOK'
    <2>1. storage' \in Storage
      BY <1>1, <1>3 DEF Storage, LeafType, DICQSet
    <2> QED
      BY <1>1, <1>4, <2>1, ChannelSendAssumption DEF IInv, TypeOK, Requests
  <1>6. AcceptedInOrder'
    <2>1. \A i \in DOMAIN accepted' :
             accepted'[i].requestId = i /\ accepted'[i].request <= requests + 1
      BY <1>1, <1>4, AcceptedComponents DEF Requests
    <2>2. \A i, j \in DOMAIN accepted' :
             accepted'[i].request = accepted'[j].request => i = j
      BY <1>1, <1>4, AcceptedComponents DEF IInv, AcceptedInOrder
    <2> QED
      BY <1>2, <1>4, <2>1, <2>2 DEF AcceptedInOrder
  <1>7. EntriesAreAccepted'
    <2> SUFFICES ASSUME NEW slot \in Slots, storage'.sendRequestQueue[slot].key # InvalidKey
                 PROVE  /\ storage'.sendRequestQueue[slot].key \in DOMAIN accepted'
                        /\ storage'.sendRequestQueue[slot].object
                              = accepted'[storage'.sendRequestQueue[slot].key]
      BY DEF EntriesAreAccepted
    <2>1. CASE slot = SlotOf(id)
      BY <1>1, <1>2, <1>4, <2>1
    <2>2. CASE slot # SlotOf(id)
      BY <1>1, <1>2, <1>4, <2>2 DEF IInv, EntriesAreAccepted
    <2> QED
      BY <2>1, <2>2
  <1>8. QueueHoldsTheUnanswered'
    <2> SUFFICES ASSUME NEW i \in DOMAIN accepted'
                 PROVE  IsPending(storage', accepted'[i])
                           <=> receipts[accepted'[i].request] = <<>>
      BY DEF QueueHoldsTheUnanswered
    <2>1. CASE i = id
      <3>1. receipts[lzSend.request] = <<>>
        BY <1>1 DEF IInv, ReceiptsMatchPackets
      <3>2. IsPending(storage', lzSend)
        BY <1>1, <1>2 DEF IsPending, DICQExists, DICQGet, InvalidKey
      <3> QED
        BY <1>4, <2>1, <3>1, <3>2
    <2>2. CASE i # id
      <3>1. /\ i \in DOMAIN accepted /\ accepted'[i] = accepted[i]
            /\ i \in Nat /\ SlotOf(i) \in Slots /\ accepted[i].requestId = i
        BY <1>1, <1>4, <2>2, SlotType, AcceptedComponents
      <3>2. IsPending(storage', accepted[i]) <=> IsPending(storage, accepted[i])
        <4>1. CASE SlotOf(i) = SlotOf(id)
          BY <1>1, <1>2, <2>2, <3>1, <4>1 DEF IsPending, DICQExists, DICQGet
        <4>2. CASE SlotOf(i) # SlotOf(id)
          BY <1>1, <1>2, <3>1, <4>2 DEF IsPending, DICQExists, DICQGet
        <4> QED
          BY <4>1, <4>2
      <3> QED
        BY <3>1, <3>2 DEF IInv, QueueHoldsTheUnanswered
    <2> QED
      BY <2>1, <2>2
  <1>9. NoncesAreGapFree'
    BY <1>2 DEF IInv, NoncesAreGapFree
  <1>10. ReceiptsMatchPackets'
    <2>1. \A request \in Requests :
             /\ Len(receipts[request]) <= 1
             /\ request > requests + 1 => receipts[request] = <<>>
      BY <1>1 DEF IInv, ReceiptsMatchPackets, Requests
    <2>2. \A i \in DOMAIN packetsSent :
             receipts[packetsSent[i].request] = <<[errorCode |-> "NO_ERROR", nonce |-> i]>>
      BY DEF IInv, ReceiptsMatchPackets
    <2> QED
      BY <2>1, <2>2 DEF ReceiptsMatchPackets
  <1> QED
    BY <1>5, <1>6, <1>7, <1>8, <1>9, <1>10 DEF IInv

LEMMA ChannelSendStep ==
    ASSUME IInv, NEW fee \in FeeCaps, ChannelSend(fee)
    PROVE  IInv'
  <1> DEFINE lzSend == [request |-> requests + 1, fee |-> fee,
                        requestId |-> storage.lastSendRequestId + 1,
                        sendMsglib |-> SendMsglib(storage)]
  <1>1. "MsglibBlocked" \in Errors /\ "sendQueueCongested" \in Errors
    BY DEF Errors
  <1>2. requests + 1 \in Requests /\ requests' = requests + 1
        /\ UNCHANGED <<toChannel, packetsSent, deposited>>
    BY DEF ChannelSend
  <1>3. lzSend \in LzSend
    <2>1. SendMsglib(storage) \in Msglibs \cup {NullAddress}
      BY Components, ChannelSendAssumption DEF IInv, TypeOK, SendMsglib
    <2>2. storage.lastSendRequestId + 1 \in Nat
      BY Components DEF IInv, TypeOK
    <2> QED
      BY <1>2, <2>1, <2>2 DEF LzSend
  <1> HIDE DEF lzSend
  <1>4. CASE /\ \/ AddReceipt(requests + 1, "MsglibBlocked", 0)
                \/ AddReceipt(requests + 1, "sendQueueCongested", 0)
             /\ UNCHANGED <<storage, toMsglib, accepted>>
    BY <1>1, <1>2, <1>4, RefusedStep
  <1>5. CASE /\ ~ DICQExists(storage.sendRequestQueue, lzSend.requestId)
             /\ storage' = [storage EXCEPT
                   !.lastSendRequestId = lzSend.requestId,
                   !.sendRequestQueue  = DICQSet(@, lzSend.requestId, lzSend, "sending")]
             /\ toMsglib' = toMsglib \cup {lzSend}
             /\ accepted' = Append(accepted, lzSend)
             /\ UNCHANGED receipts
    <2>1. /\ lzSend.request = requests + 1
          /\ lzSend.requestId = storage.lastSendRequestId + 1
      BY DEF lzSend
    <2> QED
      BY <1>2, <1>3, <1>5, <2>1, AcceptedStep
  <1> QED
    BY <1>4, <1>5 DEF ChannelSend, lzSend

LEMMA CallbackStep ==
    ASSUME IInv, NEW answer \in toChannel, MsglibSendCallback(answer)
    PROVE  IInv'
  <1>1. answer \in Answer /\ answer.lzSend \in LzSend /\ toChannel' \subseteq Answer
    BY DEF IInv, TypeOK, Answer, MsglibSendCallback
  <1>2. CASE ~ IsPending(storage, answer.lzSend)
    <2>1. UNCHANGED <<storage, requests, toMsglib, accepted, packetsSent, receipts, deposited>>
      BY <1>2 DEF MsglibSendCallback
    <2>2. TypeOK'
      BY <1>1, <2>1 DEF IInv, TypeOK
    <2> QED
      BY <2>1, <2>2, FrameStep
  <1>3. CASE IsPending(storage, answer.lzSend) /\ ErrorCode(storage, answer) # "NO_ERROR"
    <2>1. ErrorCode(storage, answer) \in Errors
      BY <1>1, <1>3 DEF ErrorCode, Errors, Answer
    <2>2. /\ storage' = Release(storage, answer.lzSend)
          /\ AddReceipt(answer.lzSend.request, ErrorCode(storage, answer), 0)
          /\ UNCHANGED <<requests, toMsglib, accepted, packetsSent, deposited>>
      BY <1>3 DEF MsglibSendCallback
    <2> QED
      BY <1>1, <1>3, <2>1, <2>2, AbortedStep
  <1>4. CASE IsPending(storage, answer.lzSend) /\ ErrorCode(storage, answer) = "NO_ERROR"
    BY <1>4, PacketStep
  <1> QED
    BY <1>2, <1>3, <1>4

-----------------------------------------------------------------------------
(* The ZRO credit                                                          *)

IsRunningTotal(total) ==
    /\ total \in [0 .. Len(packetsSent) -> 0 .. deposited]
    /\ total[0] = 0
    /\ \A i \in DOMAIN packetsSent : total[i] = total[i - 1] + packetsSent[i].zroQuote
    /\ storage.zroBalance = deposited - total[Len(packetsSent)]

\* A step that neither deposits nor sends leaves the credit alone.
LEMMA CreditKept ==
    ASSUME ZroIsConserved, storage'.zroBalance = storage.zroBalance,
           UNCHANGED <<packetsSent, deposited>>
    PROVE  ZroIsConserved'
  BY DEF ZroIsConserved

LEMMA ReleaseKeepsCredit ==
    ASSUME TypeOK, NEW lzSend
    PROVE  Release(storage, lzSend).zroBalance = storage.zroBalance
  BY DEF TypeOK, Storage, Release

\* A deposit raises the balance and leaves the running total as it is.
LEMMA DepositRaisesCredit ==
    ASSUME TypeOK, ZroIsConserved, NEW amount \in 1 .. MaxZro, DepositZro(amount)
    PROVE  ZroIsConserved'
  <1>1. PICK total : IsRunningTotal(total)
    BY DEF ZroIsConserved, IsRunningTotal
  <1>2. /\ storage \in Storage /\ storage.zroBalance \in Nat /\ deposited \in Nat
        /\ amount \in Nat /\ packetsSent' = packetsSent /\ Len(packetsSent) \in Nat
    BY ChannelSendAssumption, Components DEF TypeOK, DepositZro
  <1>3. storage'.zroBalance = storage.zroBalance + amount /\ deposited' = deposited + amount
    BY <1>2 DEF DepositZro, Storage
  <1>4. total \in [0 .. Len(packetsSent) -> 0 .. deposited + amount]
    BY <1>1, <1>2 DEF IsRunningTotal
  <1>5. total[Len(packetsSent)] \in 0 .. deposited
    BY <1>1, <1>2 DEF IsRunningTotal
  <1>6. storage.zroBalance + amount = deposited + amount - total[Len(packetsSent)]
    BY <1>1, <1>2, <1>5 DEF IsRunningTotal
  <1>7. /\ total \in [0 .. Len(packetsSent') -> 0 .. deposited']
        /\ storage'.zroBalance = deposited' - total[Len(packetsSent')]
    BY <1>2, <1>3, <1>4, <1>6
  <1>8. /\ total[0] = 0
        /\ \A i \in DOMAIN packetsSent' : total[i] = total[i - 1] + packetsSent'[i].zroQuote
    BY <1>1, <1>2 DEF IsRunningTotal
  <1> QED
    BY <1>7, <1>8, Zenon DEF ZroIsConserved

\* A packet appends its quote, which the balance covers, to the running total.
LEMMA PacketTakesCredit ==
    ASSUME TypeOK, ZroIsConserved, NEW answer \in toChannel, MsglibSendCallback(answer),
           IsPending(storage, answer.lzSend), ErrorCode(storage, answer) = "NO_ERROR"
    PROVE  ZroIsConserved'
  <1> DEFINE quote  == answer.quote.zro
             last   == Len(packetsSent)
             packet == [nonce |-> storage.outboundNonce + 1, request |-> answer.lzSend.request,
                        zroQuote |-> quote]
  <1>1. PICK total : IsRunningTotal(total)
    BY DEF ZroIsConserved, IsRunningTotal
  <1>2. storage \in Storage /\ storage.zroBalance \in Nat /\ storage.outboundNonce \in Nat
        /\ deposited \in Nat
    BY ChannelSendAssumption, Components DEF TypeOK
  <1>3. answer.lzSend \in LzSend /\ answer.lzSend.request \in Requests /\ quote \in Nat
    <2>1. answer \in Answer
      BY DEF TypeOK
    <2>2. answer.lzSend \in LzSend /\ answer.quote \in Fees
      BY <2>1, ChannelSendAssumption DEF Answer
    <2> QED
      BY <2>2, LzSendComponents DEF Fees
  <1>4. quote <= storage.zroBalance
    BY <1>2, <1>3 DEF ErrorCode
  <1>5. packetsSent' = Append(packetsSent, packet) /\ deposited' = deposited
    BY DEF MsglibSendCallback
  <1>6. storage' = [Release(storage, answer.lzSend) EXCEPT
                        !.outboundNonce = storage.outboundNonce + 1, !.zroBalance = @ - quote]
    BY DEF MsglibSendCallback
  <1>7. storage'.zroBalance = storage.zroBalance - quote
    BY <1>2, <1>6 DEF Release, Storage
  <1>8. packetsSent \in Seq(Packet) /\ packet \in Packet /\ packet.zroQuote = quote
    BY <1>2, <1>3 DEF TypeOK, Packet
  <1> HIDE DEF packet
  <1>9. /\ last \in Nat /\ Len(packetsSent') = last + 1
        /\ DOMAIN packetsSent = 1 .. last /\ DOMAIN packetsSent' = 1 .. last + 1
        /\ packetsSent'[last + 1] = packet
        /\ \A i \in 1 .. last : packetsSent'[i] = packetsSent[i]
    BY <1>5, <1>8
  <1> HIDE DEF last, quote
  <1>10. /\ total \in [0 .. last -> 0 .. deposited] /\ total[0] = 0
         /\ \A i \in 1 .. last : total[i] = total[i - 1] + packetsSent[i].zroQuote
         /\ storage.zroBalance = deposited - total[last]
    BY <1>1, <1>9 DEF IsRunningTotal, last
  <1> DEFINE next == [i \in 0 .. last + 1 |-> IF i = last + 1 THEN total[last] + quote ELSE total[i]]
  <1>11. total[last] \in 0 .. deposited /\ total[last] + quote \in 0 .. deposited
    BY <1>2, <1>3, <1>4, <1>9, <1>10
  <1>12. next \in [0 .. last + 1 -> 0 .. deposited]
    BY <1>2, <1>9, <1>10, <1>11
  <1>13. next[0] = 0 /\ next[last + 1] = total[last] + quote
    BY <1>9, <1>10
  <1>14. ASSUME NEW i \in 1 .. last + 1
         PROVE  next[i] = next[i - 1] + packetsSent'[i].zroQuote
    <2>1. CASE i = last + 1
      <3>1. next[i - 1] = total[last]
        BY <1>9, <2>1
      <3> QED
        BY <1>8, <1>9, <1>13, <2>1, <3>1
    <2>2. CASE i # last + 1
      <3>1. i \in 1 .. last /\ i - 1 \in 0 .. last /\ i - 1 # last + 1
        BY <1>9, <2>2
      <3>2. next[i] = total[i] /\ next[i - 1] = total[i - 1]
        BY <1>9, <2>2, <3>1
      <3> QED
        BY <1>9, <1>10, <3>1, <3>2
    <2> QED
      BY <2>1, <2>2
  <1>15. storage'.zroBalance = deposited - next[last + 1]
    BY <1>2, <1>3, <1>7, <1>10, <1>11, <1>13
  <1> HIDE DEF next
  <1> QED
    BY <1>5, <1>9, <1>12, <1>13, <1>14, <1>15 DEF ZroIsConserved

LEMMA CreditStep ==
    ASSUME TypeOK, ZroIsConserved, [Next]_vars
    PROVE  ZroIsConserved'
  <1>1. ASSUME NEW msglib \in Msglibs \cup {NullAddress}, SetEpConfigOApp(msglib)
        PROVE  ZroIsConserved'
    BY <1>1, CreditKept DEF SetEpConfigOApp, TypeOK, Storage
  <1>2. ASSUME NEW fee \in FeeCaps, ChannelSend(fee)
        PROVE  ZroIsConserved'
    <2>1. storage'.zroBalance = storage.zroBalance
      BY <1>2 DEF ChannelSend, TypeOK, Storage
    <2> QED
      BY <1>2, <2>1, CreditKept DEF ChannelSend
  <1>3. ASSUME NEW answer \in toChannel, MsglibSendCallback(answer)
        PROVE  ZroIsConserved'
    <2>1. CASE IsPending(storage, answer.lzSend) /\ ErrorCode(storage, answer) = "NO_ERROR"
      BY <1>3, <2>1, PacketTakesCredit
    <2>2. CASE ~ (IsPending(storage, answer.lzSend) /\ ErrorCode(storage, answer) = "NO_ERROR")
      <3>1. /\ storage' = storage \/ storage' = Release(storage, answer.lzSend)
            /\ UNCHANGED <<packetsSent, deposited>>
        BY <1>3, <2>2 DEF MsglibSendCallback
      <3> QED
        BY <3>1, ReleaseKeepsCredit, CreditKept
    <2> QED
      BY <2>1, <2>2
  <1>4. ASSUME NEW lzSend, ForceAbort(lzSend)
        PROVE  ZroIsConserved'
    BY <1>4, ReleaseKeepsCredit, CreditKept DEF ForceAbort
  <1>5. ASSUME NEW amount \in 1 .. MaxZro, DepositZro(amount)
        PROVE  ZroIsConserved'
    BY <1>5, DepositRaisesCredit
  <1>6. CASE UNCHANGED <<storage, packetsSent, deposited>>
    BY <1>6, CreditKept
  <1> QED
    BY <1>1, <1>2, <1>3, <1>4, <1>5, <1>6
       DEF Next, MsglibSendCallbackReverts, MsglibAnswers, MsglibThrows, vars

-----------------------------------------------------------------------------
(* The theorems                                                            *)

LEMMA InitInv == Init => IInv
  <1> SUFFICES ASSUME Init PROVE IInv
    OBVIOUS
  <1>1. DICQCreate \in [Slots -> LeafType]
    BY DEF DICQCreate, LeafType, Vacant
  <1>2. storage \in Storage
    BY <1>1 DEF Init, Storage, LeafType
  <1>3. TypeOK
    BY <1>2, ChannelSendAssumption DEF Init, TypeOK, Requests
  <1>4. EntriesAreAccepted
    BY DEF Init, EntriesAreAccepted, DICQCreate, Vacant
  <1>5. AcceptedInOrder /\ QueueHoldsTheUnanswered /\ NoncesAreGapFree /\ ReceiptsMatchPackets
    BY DEF Init, AcceptedInOrder, QueueHoldsTheUnanswered, NoncesAreGapFree, ReceiptsMatchPackets
  <1> QED
    BY <1>3, <1>4, <1>5 DEF IInv

LEMMA NextInv ==
    ASSUME IInv, [Next]_vars
    PROVE  IInv'
  <1>1. ASSUME NEW msglib \in Msglibs \cup {NullAddress}, SetEpConfigOApp(msglib)
        PROVE  IInv'
    BY <1>1, ConfigStep
  <1>2. ASSUME NEW fee \in FeeCaps, ChannelSend(fee)
        PROVE  IInv'
    BY <1>2, ChannelSendStep
  <1>3. ASSUME NEW answer \in toChannel, MsglibSendCallback(answer)
        PROVE  IInv'
    BY <1>3, CallbackStep
  <1>4. ASSUME NEW answer \in toChannel, MsglibSendCallbackReverts(answer)
        PROVE  IInv'
    BY <1>4, MsglibStep
  <1>5. ASSUME NEW lzSend \in AcceptedRequests, ForceAbort(lzSend)
        PROVE  IInv'
    BY <1>5, ForceAbortStep
  <1>6. ASSUME NEW amount \in 1 .. MaxZro, DepositZro(amount)
        PROVE  IInv'
    BY <1>6, DepositStep
  <1>7. ASSUME NEW lzSend \in toMsglib, NEW quote \in Quotes,
               NEW errorCode \in {"NO_ERROR", "msglibError"},
               MsglibAnswers(lzSend, quote, errorCode)
        PROVE  IInv'
    BY <1>7, MsglibStep
  <1>8. ASSUME NEW lzSend \in toMsglib, MsglibThrows(lzSend)
        PROVE  IInv'
    BY <1>8, MsglibStep
  <1>9. CASE UNCHANGED vars
    BY <1>9, StutterStep
  <1> QED
    BY <1>1, <1>2, <1>3, <1>4, <1>5, <1>6, <1>7, <1>8, <1>9 DEF Next

\* The inductive invariant holds in every reachable state of the send half.
THEOREM InductiveInvariant == Spec => []IInv
  BY InitInv, NextInv, PTL DEF Spec

\* The variables keep their types, so that the ZRO balance, of which an answer
\* takes what it was quoted, never gets negative.
THEOREM TypeCorrect == Spec => []TypeOK
  <1>1. IInv => TypeOK
    BY DEF IInv
  <1> QED
    BY <1>1, InductiveInvariant, PTL

\* Packets leave with the nonces 1, 2, 3, ..., each for a request of its own:
\* errors, aborts and late answers take no nonce.
THEOREM NoncesWithoutGaps == Spec => []NoncesAreGapFree
  <1>1. IInv => NoncesAreGapFree
    BY DEF IInv
  <1> QED
    BY <1>1, InductiveInvariant, PTL

\* The send queue holds exactly the accepted requests without a receipt: no
\* later request takes the slot of one that waits.
THEOREM QueueIsExact == Spec => []QueueHoldsTheUnanswered
  <1>1. IInv => QueueHoldsTheUnanswered
    BY DEF IInv
  <1> QED
    BY <1>1, InductiveInvariant, PTL

\* A request has at most one receipt, which names a nonce exactly if a packet
\* with that nonce left for it.
THEOREM ReceiptsAreTrue == Spec => []OneTrueReceipt
  <1>1. ASSUME IInv PROVE OneTrueReceipt
    <2> SUFFICES ASSUME NEW request \in Requests
                 PROVE  /\ Len(receipts[request]) <= 1
                        /\ (\E i \in DOMAIN packetsSent : packetsSent[i].request = request)
                              <=> (\E nonce \in 1 .. storage.outboundNonce :
                                     /\ receipts[request]
                                           = <<[errorCode |-> "NO_ERROR", nonce |-> nonce]>>
                                     /\ packetsSent[nonce].request = request)
      BY DEF OneTrueReceipt
    <2>1. DOMAIN packetsSent = 1 .. storage.outboundNonce
      BY <1>1 DEF IInv, TypeOK, NoncesAreGapFree
    <2>2. Len(receipts[request]) <= 1
      BY <1>1 DEF IInv, ReceiptsMatchPackets
    <2>3. \A i \in DOMAIN packetsSent :
             receipts[packetsSent[i].request] = <<[errorCode |-> "NO_ERROR", nonce |-> i]>>
      BY <1>1 DEF IInv, ReceiptsMatchPackets
    <2> QED
      BY <2>1, <2>2, <2>3
  <1> QED
    BY <1>1, InductiveInvariant, PTL

\* The credit for ZRO is what was deposited less the quotes of the packets that
\* left, summed up in the order in which they left, and never overdrawn.
THEOREM CreditIsConserved == Spec => []ZroIsConserved
  <1>1. Init => ZroIsConserved
    <2> SUFFICES ASSUME Init PROVE ZroIsConserved
      OBVIOUS
    <2>1. IsRunningTotal([i \in {0} |-> 0])
      BY DEF Init, IsRunningTotal
    <2> QED
      BY <2>1 DEF ZroIsConserved, IsRunningTotal
  <1>2. TypeOK /\ ZroIsConserved /\ [Next]_vars => ZroIsConserved'
    BY CreditStep
  <1> QED
    BY <1>1, <1>2, TypeCorrect, PTL DEF Spec
=============================================================================
