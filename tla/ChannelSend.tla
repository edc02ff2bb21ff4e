---------------------------- MODULE ChannelSend -----------------------------
(***************************************************************************)
(* The send half of the TON channel contract (ton/lz-framework/src/        *)
(* protocol/channel/handler.fc): a send request waits in the               *)
(* sendRequestQueue while the msglib connection prices it; the answer      *)
(* turns it into a packet with the next nonce, or into an error; the OApp  *)
(* may abort it meanwhile. The msglib connection is another contract: its  *)
(* answer may come late, when the request was aborted and its slot belongs *)
(* to another request, or never.                                           *)
(***************************************************************************)
EXTENDS DataStructures, Sequences

CONSTANTS
    MaxRequests,   \* bound: requests the OApp makes
    MaxZro,        \* bound: ZRO ever deposited
    FeeCaps,       \* the [native, zro] fees a request may offer
    Quotes,        \* the [native, zro] prices the msglib may ask
    Msglibs,       \* msglib connections the OApp may choose
    NullAddress,
    DefaultMsglib  \* the endpoint's default send connection, or NullAddress

Fees == [native : Nat, zro : Nat]

ASSUME ChannelSendAssumption ==
    /\ MaxRequests \in Nat
    /\ MaxZro \in Nat
    /\ FeeCaps \subseteq Fees
    /\ Quotes \subseteq Fees
    /\ DefaultMsglib \in Msglibs \cup {NullAddress}

VARIABLES
    storage,      \* the contract storage of the channel, send half
    requests,     \* how many sends the OApp has asked for
    toMsglib,     \* MSGLIB_CONNECTION_SEND messages in flight
    toChannel,    \* MSGLIB_SEND_CALLBACK messages in flight
    accepted,     \* history: the requests that entered the queue, in order
    packetsSent,  \* history: the PACKET_SENT events
    receipts,     \* history: the receipts sent to the OApp for each request
    deposited     \* history: the ZRO deposited so far

vars == <<storage, requests, toMsglib, toChannel, accepted, packetsSent, receipts, deposited>>

Requests == 1 .. MaxRequests

\* An LzSend after fillRequestInfo; requestId 0 is one that was not filled.
LzSend ==
    [request : Requests, fee : FeeCaps, requestId : Nat, sendMsglib : Msglibs \cup {NullAddress}]

\* sendMsglib of the configuration; "default" when isNull.
Storage ==
    [epConfigOApp      : Msglibs \cup {NullAddress, "default"},
     outboundNonce     : Nat,
     sendRequestQueue  : [Slots -> [key    : Nat \cup {InvalidKey},
                                    status : {"invalid", "sending"},
                                    object : LzSend \cup {EmptyCell}]],
     lastSendRequestId : Nat,
     zroBalance        : Nat]

Errors == {"MsglibBlocked", "sendQueueCongested", "sendAborted", "msglibError",
           "notEnoughNative", "notEnoughZroToken", "notEnoughZroTokenBalance"}

Receipt == [errorCode : Errors \cup {"NO_ERROR"}, nonce : Nat]

Answer == [lzSend : LzSend, quote : Quotes, errorCode : {"NO_ERROR", "msglibError"}]

-----------------------------------------------------------------------------

SendMsglib(s) == IF s.epConfigOApp = "default" THEN DefaultMsglib ELSE s.epConfigOApp

\* Mutant: the request is not compared with the one in the slot.
IsPendingAnyRequest(s, lzSend) == DICQExists(s.sendRequestQueue, lzSend.requestId)

\* The queue keeps the hash of the request: another request in the same slot,
\* or none, differs.
IsPending(s, lzSend) ==
    /\ DICQExists(s.sendRequestQueue, lzSend.requestId)
    /\ DICQGet(s.sendRequestQueue, lzSend.requestId).object = lzSend

\* Mutant: the release of a request takes a nonce.
ReleaseTakesNonce(s, lzSend) ==
    [s EXCEPT !.sendRequestQueue = DICQDelete(@, lzSend.requestId),
              !.outboundNonce    = @ + 1]

Release(s, lzSend) ==
    [s EXCEPT !.sendRequestQueue = DICQDelete(@, lzSend.requestId)]

\* Mutant: the balance is not checked.
ErrorCodeNoBalance(s, answer) ==
    IF answer.lzSend.fee.zro < answer.quote.zro            THEN "notEnoughZroToken"
    ELSE IF answer.lzSend.fee.native < answer.quote.native THEN "notEnoughNative"
    ELSE answer.errorCode

\* Later checks overwrite the verdict of earlier ones.
ErrorCode(s, answer) ==
    IF s.zroBalance < answer.quote.zro               THEN "notEnoughZroTokenBalance"
    ELSE IF answer.lzSend.fee.zro < answer.quote.zro THEN "notEnoughZroToken"
    ELSE IF answer.lzSend.fee.native < answer.quote.native THEN "notEnoughNative"
    ELSE answer.errorCode

AddReceipt(request, errorCode, nonce) ==
    receipts' = [receipts EXCEPT ![request] =
                    Append(@, [errorCode |-> errorCode, nonce |-> nonce])]

Init ==
    /\ storage = [epConfigOApp      |-> "default",
                  outboundNonce     |-> 0,
                  sendRequestQueue  |-> DICQCreate,
                  lastSendRequestId |-> 0,
                  zroBalance        |-> 0]
    /\ requests = 0
    /\ toMsglib = {}
    /\ toChannel = {}
    /\ accepted = <<>>
    /\ packetsSent = <<>>
    /\ receipts = [request \in Requests |-> <<>>]
    /\ deposited = 0

SetEpConfigOApp(msglib) ==
    /\ storage' = [storage EXCEPT !.epConfigOApp = msglib]
    /\ UNCHANGED <<requests, toMsglib, toChannel, accepted, packetsSent, receipts, deposited>>

\* Mutant: the slot of the new request is taken to be free.
ChannelSendOverwrites(fee) ==
    LET request == requests + 1
        lzSend  == [request |-> request, fee |-> fee,
                    requestId |-> storage.lastSendRequestId + 1,
                    sendMsglib |-> SendMsglib(storage)]
    IN  /\ request \in Requests
        /\ SendMsglib(storage) # NullAddress
        /\ requests' = request
        /\ storage' = [storage EXCEPT
              !.lastSendRequestId = lzSend.requestId,
              !.sendRequestQueue  = DICQSet(@, lzSend.requestId, lzSend, "sending")]
        /\ toMsglib' = toMsglib \cup {lzSend}
        /\ accepted' = Append(accepted, lzSend)
        /\ UNCHANGED <<toChannel, packetsSent, receipts, deposited>>

ChannelSend(fee) ==
    LET request == requests + 1
        lzSend  == [request |-> request, fee |-> fee,
                    requestId |-> storage.lastSendRequestId + 1,
                    sendMsglib |-> SendMsglib(storage)]
    IN  /\ request \in Requests
        /\ requests' = request
        /\ UNCHANGED <<toChannel, packetsSent, deposited>>
        /\ \/ /\ SendMsglib(storage) = NullAddress
              /\ AddReceipt(request, "MsglibBlocked", 0)
              /\ UNCHANGED <<storage, toMsglib, accepted>>
           \/ /\ SendMsglib(storage) # NullAddress
              /\ DICQExists(storage.sendRequestQueue, lzSend.requestId)
              /\ AddReceipt(request, "sendQueueCongested", 0)
              /\ UNCHANGED <<storage, toMsglib, accepted>>
           \/ /\ SendMsglib(storage) # NullAddress
              /\ ~ DICQExists(storage.sendRequestQueue, lzSend.requestId)
              /\ storage' = [storage EXCEPT
                    !.lastSendRequestId = lzSend.requestId,
                    !.sendRequestQueue  = DICQSet(@, lzSend.requestId, lzSend, "sending")]
              /\ toMsglib' = toMsglib \cup {lzSend}
              /\ accepted' = Append(accepted, lzSend)
              /\ UNCHANGED receipts

\* An answer for a request that is no longer pending changes nothing.
MsglibSendCallback(answer) ==
    LET request   == answer.lzSend.request
        errorCode == ErrorCode(storage, answer)
        released  == Release(storage, answer.lzSend)
        nonce     == storage.outboundNonce + 1
    IN  /\ answer \in toChannel
        /\ toChannel' = toChannel \ {answer}
        /\ UNCHANGED <<requests, toMsglib, accepted, deposited>>
        /\ \/ /\ ~ IsPending(storage, answer.lzSend)
              /\ UNCHANGED <<storage, packetsSent, receipts>>
           \/ /\ IsPending(storage, answer.lzSend)
              /\ errorCode # "NO_ERROR"
              /\ storage' = released
              /\ AddReceipt(request, errorCode, 0)
              /\ UNCHANGED packetsSent
           \/ /\ IsPending(storage, answer.lzSend)
              /\ errorCode = "NO_ERROR"
              /\ storage' = [released EXCEPT
                                !.outboundNonce = nonce,
                                !.zroBalance    = @ - answer.quote.zro]
              /\ packetsSent' = Append(packetsSent,
                    [nonce |-> nonce, request |-> request, zroQuote |-> answer.quote.zro])
              /\ AddReceipt(request, "NO_ERROR", nonce)

\* The message lacks the value to pay the workers: the transaction reverts
\* and the answer is lost.
MsglibSendCallbackReverts(answer) ==
    /\ answer \in toChannel
    /\ IsPending(storage, answer.lzSend)
    /\ ErrorCode(storage, answer) = "NO_ERROR"
    /\ toChannel' = toChannel \ {answer}
    /\ UNCHANGED <<storage, requests, toMsglib, accepted, packetsSent, receipts, deposited>>

\* Mutant: only a request that the msglib still holds can be aborted.
ForceAbortUnanswered(lzSend) ==
    /\ lzSend \in toMsglib
    /\ IsPending(storage, lzSend)
    /\ storage' = Release(storage, lzSend)
    /\ AddReceipt(lzSend.request, "sendAborted", 0)
    /\ UNCHANGED <<requests, toMsglib, toChannel, accepted, packetsSent, deposited>>

ForceAbort(lzSend) ==
    /\ IsPending(storage, lzSend)
    /\ DICQGet(storage.sendRequestQueue, lzSend.requestId).status = "sending"
    /\ storage' = Release(storage, lzSend)
    /\ AddReceipt(lzSend.request, "sendAborted", 0)
    /\ UNCHANGED <<requests, toMsglib, toChannel, accepted, packetsSent, deposited>>

DepositZro(amount) ==
    /\ deposited + amount <= MaxZro
    /\ deposited' = deposited + amount
    /\ storage' = [storage EXCEPT !.zroBalance = @ + amount]
    /\ UNCHANGED <<requests, toMsglib, toChannel, accepted, packetsSent, receipts>>

-----------------------------------------------------------------------------
(* The msglib connection, as the channel sees it *)

MsglibAnswers(lzSend, quote, errorCode) ==
    /\ lzSend \in toMsglib
    /\ toMsglib' = toMsglib \ {lzSend}
    /\ toChannel' = toChannel \cup
            {[lzSend |-> lzSend, quote |-> quote, errorCode |-> errorCode]}
    /\ UNCHANGED <<storage, requests, accepted, packetsSent, receipts, deposited>>

MsglibThrows(lzSend) ==
    /\ lzSend \in toMsglib
    /\ toMsglib' = toMsglib \ {lzSend}
    /\ UNCHANGED <<storage, requests, toChannel, accepted, packetsSent, receipts, deposited>>

AcceptedRequests == {accepted[i] : i \in DOMAIN accepted}

Next ==
    \/ \E msglib \in Msglibs \cup {NullAddress} : SetEpConfigOApp(msglib)
    \/ \E fee \in FeeCaps : ChannelSend(fee)
    \/ \E answer \in toChannel : MsglibSendCallback(answer)
    \/ \E answer \in toChannel : MsglibSendCallbackReverts(answer)
    \/ \E lzSend \in AcceptedRequests : ForceAbort(lzSend)
    \/ \E amount \in 1 .. MaxZro : DepositZro(amount)
    \/ \E lzSend \in toMsglib, quote \in Quotes, errorCode \in {"NO_ERROR", "msglibError"} :
           MsglibAnswers(lzSend, quote, errorCode)
    \/ \E lzSend \in toMsglib : MsglibThrows(lzSend)

Spec == Init /\ [][Next]_vars

\* Every internal message of TON is delivered, and a message that arrives is
\* handled, if only by a throw.
Delivery ==
    /\ \A request \in Requests :
          WF_vars(\E lzSend \in toMsglib :
                     /\ lzSend.request = request
                     /\ \/ MsglibThrows(lzSend)
                        \/ \E quote \in Quotes, errorCode \in {"NO_ERROR", "msglibError"} :
                               MsglibAnswers(lzSend, quote, errorCode))
    /\ \A request \in Requests :
          WF_vars(\E answer \in toChannel :
                     /\ answer.lzSend.request = request
                     /\ MsglibSendCallback(answer) \/ MsglibSendCallbackReverts(answer))

\* Somebody aborts a request that hangs: OftAdapter lets anyone do it.
Aborts ==
    \A request \in Requests :
        WF_vars(\E lzSend \in AcceptedRequests :
                   lzSend.request = request /\ ForceAbort(lzSend))

FairSpec == Spec /\ Delivery /\ Aborts

-----------------------------------------------------------------------------
(* Properties *)

\* The type of every variable.
TypeOK ==
    /\ storage \in Storage
    /\ requests \in 0 .. MaxRequests
    /\ toMsglib \subseteq LzSend
    /\ toChannel \subseteq Answer
    /\ accepted \in Seq(LzSend)
    /\ packetsSent \in Seq([nonce : Nat, request : Requests, zroQuote : Nat])
    /\ receipts \in [Requests -> Seq(Receipt)]
    /\ deposited \in 0 .. MaxZro

\* The packets that leave carry the nonces 1, 2, 3, ... in order, each for a
\* request of its own: no error, abort or late answer consumes a nonce, which
\* the receiver would wait for forever.
NoncesAreGapFree ==
    /\ storage.outboundNonce = Len(packetsSent)
    /\ \A i \in DOMAIN packetsSent : packetsSent[i].nonce = i
    /\ \A i, j \in DOMAIN packetsSent :
           packetsSent[i].request = packetsSent[j].request => i = j

\* The OApp gets one receipt for a request, and it tells the truth: it names
\* a nonce exactly when a packet with this nonce left for the request.
OneTrueReceipt ==
    \A request \in Requests :
        /\ Len(receipts[request]) <= 1
        /\ (\E i \in DOMAIN packetsSent : packetsSent[i].request = request)
              <=> (\E nonce \in 1 .. storage.outboundNonce :
                      /\ receipts[request] = <<[errorCode |-> "NO_ERROR", nonce |-> nonce]>>
                      /\ packetsSent[nonce].request = request)

\* The queue holds exactly the accepted requests that have no receipt: none is
\* evicted by a later request, released twice or released for another one.
QueueHoldsTheUnanswered ==
    \A i \in DOMAIN accepted :
        IsPending(storage, accepted[i]) <=> receipts[accepted[i].request] = <<>>

\* What these rest on: request ids count the accepted requests, each of another
\* send; an entry of the queue is the accepted request of its key; a send that
\* was not made yet has no receipt.
AcceptedInOrder ==
    /\ storage.lastSendRequestId = Len(accepted)
    /\ \A i \in DOMAIN accepted : accepted[i].requestId = i /\ accepted[i].request <= requests
    /\ \A i, j \in DOMAIN accepted : accepted[i].request = accepted[j].request => i = j

EntriesAreAccepted ==
    \A slot \in Slots : LET leaf == storage.sendRequestQueue[slot] IN
        leaf.key # InvalidKey =>
            leaf.key \in DOMAIN accepted /\ leaf.object = accepted[leaf.key]

ReceiptsMatchPackets ==
    /\ \A request \in Requests :
           Len(receipts[request]) <= 1 /\ (request > requests => receipts[request] = <<>>)
    /\ \A i \in DOMAIN packetsSent :
           receipts[packetsSent[i].request] = <<[errorCode |-> "NO_ERROR", nonce |-> i]>>

IInv ==
    /\ TypeOK /\ AcceptedInOrder /\ EntriesAreAccepted
    /\ QueueHoldsTheUnanswered /\ NoncesAreGapFree /\ ReceiptsMatchPackets

\* The ZRO credit of the channel is what was deposited less the running total of
\* what the packets that left were quoted, and is never overdrawn, though a
\* quote and the balance meet only when the answer arrives, with other answers
\* in between.
ZroIsConserved ==
    \E total \in [0 .. Len(packetsSent) -> 0 .. deposited] :
        /\ total[0] = 0
        /\ \A i \in DOMAIN packetsSent : total[i] = total[i - 1] + packetsSent[i].zroQuote
        /\ storage.zroBalance = deposited - total[Len(packetsSent)]

\* Every request gets its receipt, by the msglib's answer or, when the request
\* or the answer was lost, by an abort: no slot of the send queue stays
\* occupied, so a queue that is congested clears.
EveryRequestIsAnswered ==
    \A request \in Requests : requests >= request ~> receipts[request] # <<>>
=============================================================================
