---------------------------- MODULE UlnConnection ----------------------------
(***************************************************************************)
(* The ULN connection of one OApp path (ton/lz-framework/src/protocol/     *)
(* msglibs/ultralightnode/ulnConnection): it collects the attestations of  *)
(* the DVNs, forwards a packet to the channel once a quorum has attested   *)
(* it, and keeps a copy of the channel's frontiers so that it knows which  *)
(* nonces still matter.                                                    *)
(*                                                                         *)
(* Three contracts act at their own pace: the ULN, which adds its default  *)
(* configuration to every message it passes on, the connection, and the    *)
(* channel, which ChannelFrontiers reduces to what the connection sees.    *)
(* TON keeps the order of the messages of one sender to one receiver, so   *)
(* the ULN and the channel each have a queue to the connection.            *)
(***************************************************************************)
EXTENDS ChannelFrontiers, Sequences

CONSTANTS
    DVNs,
    HonestDVNs,        \* DVNs that never attest a packet as final that is not
    Packets,           \* what a nonce may be said to carry
    FinalPacket,       \* what it does carry once the source chain is final
    MaxConfirmations,  \* bound: confirmations a DVN may report
    Finality,          \* confirmations after which the source chain is final
    Null,
    OAppConfigs,       \* receive configurations the OApp may set
    DefaultConfigs,    \* default receive configurations the ULN's owner may set
    MAX_HASH_LOOKUPS,  \* nonces that may be attested from the first unexecuted one
    MaxFromUln,        \* bound: messages in the queue from the ULN
    MaxFromChannel,    \* bound: messages in the queue from the channel
    MaxInFlight,       \* bound: messages in both queues
    MayLosePackets     \* whether the OApp may have another receive msglib

Attestation == [hash : Packets, confirmations : 0 .. MaxConfirmations]
UlnReceiveConfig ==
    [requiredDVNs : (SUBSET DVNs) \cup {Null}, optionalDVNs : (SUBSET DVNs) \cup {Null},
     optionalDVNThreshold : Nat, confirmations : Nat \cup {Null}]

\* UlnReceiveConfig::NewWithDefaults: every field defers to the default.
NewWithDefaults ==
    [requiredDVNs |-> Null, optionalDVNs |-> Null,
     optionalDVNThreshold |-> 0, confirmations |-> Null]

\* What UlnReceiveConfig::sanitize lets through; a null list has no members.
Sanitized(config) ==
    /\ config.optionalDVNs = Null => config.optionalDVNThreshold = 0
    /\ config.optionalDVNs # Null =>
           /\ config.optionalDVNThreshold <= Cardinality(config.optionalDVNs)
           /\ config.optionalDVNs # {} => config.optionalDVNThreshold > 0
    /\ ~ (config.requiredDVNs = {} /\ config.optionalDVNs = {})

Else(value, default) == IF value = Null THEN default ELSE value

\* UlnReceiveConfig::utils::getCommitConfig: field by field the OApp's
\* configuration, else the default; the threshold goes with its list.
Resolve(custom, default) ==
    [requiredDVNs  |-> Else(custom.requiredDVNs, default.requiredDVNs),
     optionalDVNs  |-> Else(custom.optionalDVNs, default.optionalDVNs),
     optionalDVNThreshold |-> IF custom.optionalDVNs = Null
                              THEN default.optionalDVNThreshold
                              ELSE custom.optionalDVNThreshold,
     confirmations |-> IF custom.confirmations = Null
                       THEN IF default.confirmations = Null THEN 0 ELSE default.confirmations
                       ELSE custom.confirmations]

IsValid(config) == config.requiredDVNs # Null /\ config.optionalDVNs # Null

\* Every quorum of a configuration has an honest member that waits for the
\* source chain to be final. The contracts cannot know who is honest: this is
\* what the OApp's owner and the ULN's owner answer for.
HasHonestQuorum(config) ==
    /\ config.confirmations >= Finality
    /\ \/ config.requiredDVNs \cap HonestDVNs # {}
       \/ config.optionalDVNThreshold > Cardinality(config.optionalDVNs \ HonestDVNs)

ASSUME UlnConnectionAssumption ==
    /\ MaxConfirmations \in Nat
    /\ Finality \in Nat
    /\ MAX_HASH_LOOKUPS \in Nat \ {0}
    /\ MaxFromUln \in Nat
    /\ MaxFromChannel \in Nat
    /\ MaxInFlight \in Nat
    /\ MayLosePackets \in BOOLEAN
    /\ IsFiniteSet(DVNs)
    /\ HonestDVNs \subseteq DVNs
    /\ FinalPacket \in Packets
    /\ Null \notin Packets
    /\ Null \notin Nat
    /\ \A list \in SUBSET DVNs : Null # list
    /\ OAppConfigs \subseteq UlnReceiveConfig
    /\ DefaultConfigs \subseteq UlnReceiveConfig

ASSUME HonestQuorums ==
    \A custom \in OAppConfigs \cup {NewWithDefaults},
       default \in DefaultConfigs \cup {NewWithDefaults} :
        Sanitized(custom) /\ Sanitized(default) /\ IsValid(Resolve(custom, default))
            => HasHonestQuorum(Resolve(custom, default))

VARIABLES
    storage,        \* the contract storage of the connection, receive side
    defaultConfig,  \* the ULN's default receive configuration
    fromUln,        \* messages in flight from the ULN to the connection
    fromChannel,    \* messages in flight from the channel to the connection
    toEndpoint      \* packets in flight to the channel, through the endpoint

vars == <<frontiers, storage, defaultConfig, fromUln, fromChannel, toEndpoint>>

NoAttestation == [hash |-> Null, confirmations |-> 0]

Storage ==
    [firstUnexecutedNonce : Nat,
     commitPOOO           : PipelinedOutOfOrder,
     hashLookups          : [Nonces -> [DVNs -> Attestation \cup {NoAttestation}]],
     ulnReceiveConfigOApp : OAppConfigs \cup {NewWithDefaults}]

FromUln ==
    [op : {"ULN_CONNECTION_VERIFY"}, default : DefaultConfigs \cup {NewWithDefaults},
     nonce : Nonces, dvn : DVNs, attestation : Attestation]
        \cup [op : {"ULN_CONNECTION_COMMIT_PACKET"}, default : DefaultConfigs \cup {NewWithDefaults},
              nonce : Nonces, packet : Packets, hasCommitGas : BOOLEAN]
        \cup [op : {"GARBAGE_COLLECT_INVALID_ATTESTATIONS"},
              default : DefaultConfigs \cup {NewWithDefaults}, nonce : Nonces]

\* A commit callback has the committed nonce, a sync the first uncommitted one.
FromChannel ==
    [op : {"MSGLIB_CONNECTION_COMMIT_PACKET_CALLBACK",
           "MSGLIB_CONNECTION_SYNC_CHANNEL_STATE"},
     nonce : Nat, firstUnexecuted : Nat]

ToEndpoint == [nonce : Nonces, packet : Packets]

-----------------------------------------------------------------------------
(* What the handlers ask of the storage *)

HasAttestation(s, nonce, dvn) == s.hashLookups[nonce][dvn] # NoAttestation

\* The nonces with an entry in the hash lookups.
LookupNonces(s) == {nonce \in Nonces : \E dvn \in DVNs : HasAttestation(s, nonce, dvn)}

NoLookups == [dvn \in DVNs |-> NoAttestation]

\* Mutant: the confirmations are not compared.
VerifiedAnyConfirmations(s, config, nonce, packet, dvn) ==
    HasAttestation(s, nonce, dvn) /\ s.hashLookups[nonce][dvn].hash = packet

Verified(s, config, nonce, packet, dvn) ==
    /\ HasAttestation(s, nonce, dvn)
    /\ s.hashLookups[nonce][dvn].hash = packet
    /\ s.hashLookups[nonce][dvn].confirmations >= config.confirmations

Committable(s, config, nonce, packet) ==
    /\ \A dvn \in config.requiredDVNs : Verified(s, config, nonce, packet, dvn)
    /\ Cardinality({dvn \in config.optionalDVNs : Verified(s, config, nonce, packet, dvn)})
           >= config.optionalDVNThreshold

IsDvnConfigured(s, default, dvn) ==
    LET config == Resolve(s.ulnReceiveConfigOApp, default)
    IN  IsValid(config) /\ dvn \in config.requiredDVNs \cup config.optionalDVNs

\* A valid configuration that names the DVN in neither list
IsUnlisted(s, default, dvn) ==
    LET config == Resolve(s.ulnReceiveConfigOApp, default)
    IN  IsValid(config) /\ dvn \notin config.requiredDVNs \cup config.optionalDVNs

\* Mutants: the range moves with the commits of the connection's own copy, or
\* starts behind the first unexecuted nonce.
InVerifyRangeOfCommits(s, nonce) ==
    /\ nonce >= s.firstUnexecutedNonce
    /\ nonce < s.commitPOOO.nextEmpty + MAX_HASH_LOOKUPS

InVerifyRangeOneLate(s, nonce) ==
    /\ nonce > s.firstUnexecutedNonce
    /\ nonce < s.firstUnexecutedNonce + MAX_HASH_LOOKUPS

InVerifyRange(s, nonce) ==
    /\ nonce >= s.firstUnexecutedNonce
    /\ nonce < s.firstUnexecutedNonce + MAX_HASH_LOOKUPS

\* committableView, the question that decides whether a commit is worth while
CommittableView(s, default, nonce, packet) ==
    LET config == Resolve(s.ulnReceiveConfigOApp, default)
    IN  IF nonce < s.firstUnexecutedNonce THEN "EXECUTED"
        ELSE IF nonce < s.commitPOOO.nextEmpty THEN "COMMITTED"
        ELSE IF nonce > POOOMaxSettableBit(s.commitPOOO) THEN "VERIFYING"
        ELSE IF POOOIsBitSet(s.commitPOOO, nonce) THEN "COMMITTED"
        ELSE IF ~ IsValid(config) THEN "CONFIGURATION_ERROR"
        ELSE IF Committable(s, config, nonce, packet) THEN "COMMITTABLE" ELSE "VERIFYING"

-----------------------------------------------------------------------------
(* What the handlers do to the storage *)

SetHashLookup(s, nonce, dvn, attestation) ==
    [s EXCEPT !.hashLookups[nonce][dvn] = attestation]

DeleteNonceAttestations(s, nonce) ==
    IF nonce \in Nonces THEN [s EXCEPT !.hashLookups[nonce] = NoLookups] ELSE s

\* Mutant: nothing is put back.
EvictAll(s, config, nonce) == DeleteNonceAttestations(s, nonce)

\* The lookups of the nonce are deleted, and every attestation of a configured
\* DVN is put back: into the lookups as they were before the deletion.
EvictAttestations(s, config, nonce) ==
    IF \E dvn \in config.requiredDVNs \cup config.optionalDVNs : HasAttestation(s, nonce, dvn)
    THEN s
    ELSE DeleteNonceAttestations(s, nonce)

\* A nonce beyond the bitmap is not marked; a later sync makes up for it.
MarkCommitted(p, nonce) ==
    IF nonce <= POOOMaxSettableBit(p) THEN POOOSet(p, nonce) ELSE p

\* unsafeSetBits throws on a negative or an overlong run of ones.
UnsafeSettable(p, start, end) ==
    start <= end /\ end <= p.nextEmpty + MAX_CELL_BITS

\* Mutant: the copy is marked from where it is.
SyncBaseKept(p, firstUncommitted) == p

\* The copy that a sync starts from: fresh at the channel's frontier when that
\* is two windows ahead, pushed to its own end when it is one ahead.
SyncBase(p, firstUncommitted) ==
    IF firstUncommitted > POOOMaxSettableBit(p) + MAX_CELL_BITS - 1
    THEN [POOONew EXCEPT !.nextEmpty = firstUncommitted]
    ELSE IF firstUncommitted > POOOMaxSettableBit(p)
    THEN POOOUnsafeSetBits(p, p.nextEmpty, POOOMaxSettableBit(p))
    ELSE p

SyncSettable(p, firstUncommitted) ==
    LET base == SyncBase(p, firstUncommitted)
    IN  UnsafeSettable(base, base.nextEmpty, firstUncommitted)

SyncCommits(p, firstUncommitted) ==
    LET base == SyncBase(p, firstUncommitted)
    IN  POOOUnsafeSetBits(base, base.nextEmpty, firstUncommitted)

Init ==
    /\ FrontiersInit
    /\ \E config \in OAppConfigs \cup {NewWithDefaults} :
           /\ Sanitized(config)
           /\ storage = [firstUnexecutedNonce |-> 1,
                         commitPOOO           |-> POOONew,
                         hashLookups          |-> [nonce \in Nonces |-> NoLookups],
                         ulnReceiveConfigOApp |-> config]
    /\ defaultConfig = NewWithDefaults
    /\ fromUln = <<>>
    /\ fromChannel = <<>>
    /\ toEndpoint = {}

-----------------------------------------------------------------------------
(* The ULN: anyone may call it, and it adds its default configuration *)

\* The bounds on what is in flight, which TON does not have
CanQueue(queue, bound) ==
    Len(queue) < bound /\ Len(fromUln) + Len(fromChannel) < MaxInFlight

ToConnection(message) ==
    /\ CanQueue(fromUln, MaxFromUln)
    /\ fromUln' = Append(fromUln, message)
    /\ Other /\ UNCHANGED <<storage, defaultConfig, fromChannel, toEndpoint>>

\* An honest DVN calls a packet final only if it is; the others say anything.
MayAttest(dvn, attestation) ==
    dvn \in HonestDVNs /\ attestation.confirmations >= Finality
        => attestation.hash = FinalPacket

UlnVerify(nonce, dvn, attestation) ==
    /\ MayAttest(dvn, attestation)
    /\ ToConnection([op |-> "ULN_CONNECTION_VERIFY", default |-> defaultConfig,
                     nonce |-> nonce, dvn |-> dvn, attestation |-> attestation])

\* The caller attaches enough value for the way to the channel, or too little.
UlnCommitPacket(nonce, packet, hasCommitGas) ==
    ToConnection([op |-> "ULN_CONNECTION_COMMIT_PACKET", default |-> defaultConfig,
                  nonce |-> nonce, packet |-> packet, hasCommitGas |-> hasCommitGas])

UlnGarbageCollectInvalidAttestations(nonce) ==
    ToConnection([op |-> "GARBAGE_COLLECT_INVALID_ATTESTATIONS", default |-> defaultConfig,
                  nonce |-> nonce])

SetDefaultUlnReceiveConfig(config) ==
    /\ Sanitized(config)
    /\ defaultConfig' = config
    /\ Other /\ UNCHANGED <<storage, fromUln, fromChannel, toEndpoint>>

-----------------------------------------------------------------------------
(* The connection *)

Arrives(queue, op) == queue # <<>> /\ Head(queue).op = op

UlnConnectionVerify ==
    /\ Arrives(fromUln, "ULN_CONNECTION_VERIFY")
    /\ LET m == Head(fromUln)
       IN  storage' = IF InVerifyRange(storage, m.nonce) /\ IsDvnConfigured(storage, m.default, m.dvn)
                      THEN SetHashLookup(storage, m.nonce, m.dvn, m.attestation)
                      ELSE storage
    /\ fromUln' = Tail(fromUln)
    /\ Other /\ UNCHANGED <<defaultConfig, fromChannel, toEndpoint>>

\* A message with too little value changes nothing.
UlnConnectionCommitPacket ==
    /\ Arrives(fromUln, "ULN_CONNECTION_COMMIT_PACKET")
    /\ LET m      == Head(fromUln)
           config == Resolve(storage.ulnReceiveConfigOApp, m.default)
       IN  toEndpoint' = IF /\ IsValid(config)
                            /\ Committable(storage, config, m.nonce, m.packet)
                            /\ m.hasCommitGas
                         THEN toEndpoint \cup {[nonce |-> m.nonce, packet |-> m.packet]}
                         ELSE toEndpoint
    /\ fromUln' = Tail(fromUln)
    /\ Other /\ UNCHANGED <<storage, defaultConfig, fromChannel>>

GarbageCollectInvalidAttestations ==
    /\ Arrives(fromUln, "GARBAGE_COLLECT_INVALID_ATTESTATIONS")
    /\ LET m      == Head(fromUln)
           config == Resolve(storage.ulnReceiveConfigOApp, m.default)
       IN  storage' = IF IsValid(config)
                      THEN EvictAttestations(storage, config, m.nonce)
                      ELSE storage
    /\ fromUln' = Tail(fromUln)
    /\ Other /\ UNCHANGED <<defaultConfig, fromChannel, toEndpoint>>

\* Mutant: the first unexecuted nonce is collected too.
CollectableUpTo(s, nonce) == nonce <= s.firstUnexecutedNonce

Collectable(s, nonce) == nonce < s.firstUnexecutedNonce

\* Anyone may call it; it calls itself for the next nonce.
GarbageCollectExecutedNonces ==
    /\ \E nonce \in LookupNonces(storage) :
           /\ \A other \in LookupNonces(storage) : nonce <= other
           /\ Collectable(storage, nonce)
           /\ storage' = DeleteNonceAttestations(storage, nonce)
    /\ Other /\ UNCHANGED <<defaultConfig, fromUln, fromChannel, toEndpoint>>

SetOAppUlnReceiveConfig(config) ==
    /\ Sanitized(config)
    /\ storage' = [storage EXCEPT !.ulnReceiveConfigOApp = config]
    /\ Other /\ UNCHANGED <<defaultConfig, fromUln, fromChannel, toEndpoint>>

MsglibConnectionCommitPacketCallback ==
    /\ Arrives(fromChannel, "MSGLIB_CONNECTION_COMMIT_PACKET_CALLBACK")
    /\ LET m == Head(fromChannel)
       IN  storage' = [DeleteNonceAttestations(storage, m.nonce) EXCEPT
                           !.commitPOOO = MarkCommitted(@, m.nonce),
                           !.firstUnexecutedNonce = m.firstUnexecuted]
    /\ fromChannel' = Tail(fromChannel)
    /\ Other /\ UNCHANGED <<defaultConfig, fromUln, toEndpoint>>

\* Mutant: the sync takes the first frontier for both.
SyncStateSwapped(s, firstUncommitted, firstUnexecuted) ==
    [s EXCEPT !.commitPOOO = SyncCommits(@, firstUncommitted),
              !.firstUnexecutedNonce = firstUncommitted]

SyncState(s, firstUncommitted, firstUnexecuted) ==
    [s EXCEPT !.commitPOOO = SyncCommits(@, firstUncommitted),
              !.firstUnexecutedNonce = firstUnexecuted]

MsglibConnectionSyncChannelState ==
    /\ Arrives(fromChannel, "MSGLIB_CONNECTION_SYNC_CHANNEL_STATE")
    /\ LET m == Head(fromChannel)
       IN  storage' = IF SyncSettable(storage.commitPOOO, m.nonce)
                      THEN SyncState(storage, m.nonce, m.firstUnexecuted)
                      ELSE storage
    /\ fromChannel' = Tail(fromChannel)
    /\ Other /\ UNCHANGED <<defaultConfig, fromUln, toEndpoint>>

-----------------------------------------------------------------------------
(* The channel *)

\* Mutant: an answer overtakes the one before it.
SendAnswerAhead ==
    /\ fromChannel' = IF answer' = NoAnswer THEN fromChannel ELSE <<answer'>> \o fromChannel
    /\ UNCHANGED <<storage, defaultConfig, fromUln>>

\* What the channel's transaction sends is on its way to the connection.
SendAnswer ==
    /\ fromChannel' = IF answer' = NoAnswer THEN fromChannel ELSE Append(fromChannel, answer')
    /\ UNCHANGED <<storage, defaultConfig, fromUln>>

CanAnswer == CanQueue(fromChannel, MaxFromChannel)

ChannelCommitPacket(nonce, packet) ==
    /\ CanAnswer
    /\ [nonce |-> nonce, packet |-> packet] \in toEndpoint
    /\ toEndpoint' = toEndpoint \ {[nonce |-> nonce, packet |-> packet]}
    /\ CommitAndAnswer(nonce)
    /\ SendAnswer

\* The connection is not, or no longer, the OApp's receive msglib: the channel
\* throws and the packet is lost.
ChannelRejectsPacket(nonce, packet) ==
    /\ MayLosePackets
    /\ [nonce |-> nonce, packet |-> packet] \in toEndpoint
    /\ toEndpoint' = toEndpoint \ {[nonce |-> nonce, packet |-> packet]}
    /\ Other /\ UNCHANGED <<storage, defaultConfig, fromUln, fromChannel>>

ChannelCommitsElsewhere(nonce) ==
    CommitSilently(nonce) /\ SendAnswer /\ UNCHANGED toEndpoint

ChannelExecutes(nonce) ==
    ExecuteNonce(nonce) /\ SendAnswer /\ UNCHANGED toEndpoint

NotifyPacketExecuted(nonce) ==
    CanAnswer /\ NotifyExecuted(nonce) /\ SendAnswer /\ UNCHANGED toEndpoint

SyncMsglibConnection ==
    CanAnswer /\ Synchronize /\ SendAnswer /\ UNCHANGED toEndpoint

-----------------------------------------------------------------------------

Next ==
    \/ \E nonce \in Nonces, dvn \in DVNs, attestation \in Attestation :
           UlnVerify(nonce, dvn, attestation)
    \/ \E nonce \in Nonces, packet \in Packets, hasCommitGas \in BOOLEAN :
           UlnCommitPacket(nonce, packet, hasCommitGas)
    \/ \E nonce \in Nonces : UlnGarbageCollectInvalidAttestations(nonce)
    \/ \E config \in DefaultConfigs : SetDefaultUlnReceiveConfig(config)
    \/ UlnConnectionVerify
    \/ UlnConnectionCommitPacket
    \/ GarbageCollectInvalidAttestations
    \/ GarbageCollectExecutedNonces
    \/ \E config \in OAppConfigs : SetOAppUlnReceiveConfig(config)
    \/ MsglibConnectionCommitPacketCallback
    \/ MsglibConnectionSyncChannelState
    \/ \E nonce \in Nonces, packet \in Packets :
           ChannelCommitPacket(nonce, packet) \/ ChannelRejectsPacket(nonce, packet)
    \/ \E nonce \in Nonces : ChannelCommitsElsewhere(nonce)
    \/ \E nonce \in Nonces : ChannelExecutes(nonce)
    \/ \E nonce \in Nonces : NotifyPacketExecuted(nonce)
    \/ SyncMsglibConnection

Spec == Init /\ [][Next]_vars

\* Every internal message is delivered. The honest DVNs, the committer, the
\* executor and whoever synchronizes the connection repeat their calls, with
\* enough value; strong fairness is for the bound on the queues, which TON does
\* not have. The executor executes what is committed, and nobody must burn a
\* packet. The owner of the OApp configures the path some day.
Fairness ==
    /\ WF_vars(\E config \in OAppConfigs : SetOAppUlnReceiveConfig(config))
    /\ WF_vars(\/ UlnConnectionVerify
               \/ UlnConnectionCommitPacket
               \/ GarbageCollectInvalidAttestations)
    /\ WF_vars(MsglibConnectionCommitPacketCallback \/ MsglibConnectionSyncChannelState)
    /\ SF_vars(SyncMsglibConnection)
    /\ \A nonce \in Nonces :
           /\ \A dvn \in HonestDVNs :
                  SF_vars(UlnVerify(nonce, dvn, [hash |-> FinalPacket, confirmations |-> Finality]))
           /\ SF_vars(UlnCommitPacket(nonce, FinalPacket, TRUE))
           /\ SF_vars(ChannelCommitPacket(nonce, FinalPacket))
           /\ WF_vars(nonce < commits.nextEmpty /\ ChannelExecutes(nonce))

FairSpec == Spec /\ Fairness

-----------------------------------------------------------------------------
(* Properties *)

\* The type of every variable.
TypeOK ==
    /\ commits \in PipelinedOutOfOrder
    /\ executes \in PipelinedOutOfOrder
    /\ storage \in Storage
    /\ defaultConfig \in DefaultConfigs \cup {NewWithDefaults}
    /\ fromUln \in Seq(FromUln)
    /\ fromChannel \in Seq(FromChannel)
    /\ toEndpoint \subseteq ToEndpoint

\* The connection calls a nonce committed or executed only if the channel's own
\* bitmap has it marked, however old the copy and whatever else commits in the
\* channel (committableView, handler.fc of the connection, 150-196). The view
\* does not tell whether the packet must be committed again: a nonce that is
\* nilified, or committed with a packet to be replaced, keeps its mark and is
\* still called committed (handler.fc of the channel, 654-657).
ViewNeverAhead ==
    \A nonce \in Nonces, packet \in Packets :
        LET view == CommittableView(storage, defaultConfig, nonce, packet)
        IN  /\ view = "COMMITTED" => POOOMarked(commits, nonce)
            /\ view = "EXECUTED"  => POOOMarked(executes, nonce)

\* Whatever the DVNs that are not honest attest, whatever the owners
\* configure and whichever default a message was sent with, a packet leaves
\* for the channel only if the source chain finally has it.
OnlyFinalPacketsForwarded ==
    \A request \in toEndpoint : request.packet = FinalPacket

\* A sync always fits the bitmap it meets, so that unsafeSetBits, which its
\* name says does not check, never throws and the way out of a stale copy is
\* always open.
SyncAlwaysFits ==
    Arrives(fromChannel, "MSGLIB_CONNECTION_SYNC_CHANNEL_STATE")
        => SyncSettable(storage.commitPOOO, Head(fromChannel).nonce)

\* Nothing is attested further ahead than the channel's own frontier allows,
\* however old the connection's copy of it.
LookupsNeverFarAhead ==
    \A nonce \in LookupNonces(storage) : nonce < executes.nextEmpty + MAX_HASH_LOOKUPS

\* The invariant that msglibConnectionSyncChannelState states in its comment
\* (handler.fc:560-561): the frontiers that the channel sends never go back.
FrontiersNeverGoBack ==
    [][/\ storage'.firstUnexecutedNonce >= storage.firstUnexecutedNonce
       /\ storage'.commitPOOO.nextEmpty >= storage.commitPOOO.nextEmpty]_vars

\* An attestation of a nonce that is still to be committed is dropped only by
\* a collection of invalid attestations, and only if the configuration that the
\* collection was sent with and that of the OApp resolve to lists without its
\* DVN: a collector never costs a committer the attestation of a DVN that
\* counts (handler.fc of the connection, 386-474 and 527-548).
PendingAttestationsKept ==
    [][\A nonce \in Nonces, dvn \in DVNs :
         HasAttestation(storage, nonce, dvn) /\ ~ HasAttestation(storage', nonce, dvn) =>
             \/ POOOMarked(commits, nonce)
             \/ /\ GarbageCollectInvalidAttestations
                /\ Head(fromUln).nonce = nonce
                /\ IsUnlisted(storage, Head(fromUln).default, dvn)]_vars

\* Every packet that was sent is committed in the end, also by a connection
\* that has fallen more than a window behind the channel.
EveryPacketIsCommitted ==
    \A nonce \in Nonces : <>POOOMarked(commits, nonce)

-----------------------------------------------------------------------------
(* The inductive invariant *)

\* The ones of a bitmap are the bits after its first zero.
InWindow(p) == \A i \in p.bitmap : p.nextEmpty < i /\ i <= POOOMaxSettableBit(p)

\* Every mark of p is a mark of q.
MarksWithin(p, q) ==
    /\ p.nextEmpty <= q.nextEmpty
    /\ \A i \in p.bitmap : POOOMarked(q, i)

\* The channel executes what it has committed, and the connection's copy is
\* behind the channel.
BitmapsAreNested ==
    /\ InWindow(commits) /\ InWindow(executes) /\ InWindow(storage.commitPOOO)
    /\ MarksWithin(executes, commits)
    /\ MarksWithin(storage.commitPOOO, commits)
    /\ storage.firstUnexecutedNonce <= executes.nextEmpty

\* What is on its way from the channel is true of the channel, and is news: a
\* sync is never older than the copy it will meet.
AnswerIsTrue(m, copy, committed, executed) ==
    /\ copy.firstUnexecutedNonce <= m.firstUnexecuted
    /\ m.firstUnexecuted <= executed.nextEmpty
    /\ m.op = "MSGLIB_CONNECTION_COMMIT_PACKET_CALLBACK" => POOOMarked(committed, m.nonce)
    /\ m.op = "MSGLIB_CONNECTION_SYNC_CHANNEL_STATE" =>
           /\ m.nonce <= committed.nextEmpty
           /\ ~ POOOMarked(copy.commitPOOO, m.nonce)

\* Two answers in the order in which the channel sent them
InOrder(m, later) ==
    /\ m.firstUnexecuted <= later.firstUnexecuted
    /\ later.op = "MSGLIB_CONNECTION_SYNC_CHANNEL_STATE" =>
           IF m.op = "MSGLIB_CONNECTION_SYNC_CHANNEL_STATE"
           THEN m.nonce <= later.nonce
           ELSE m.nonce # later.nonce

AnswersAreTrue ==
    /\ \A i \in DOMAIN fromChannel : AnswerIsTrue(fromChannel[i], storage, commits, executes)
    /\ \A i, j \in DOMAIN fromChannel : i < j => InOrder(fromChannel[i], fromChannel[j])

\* The configurations in use are sanitized, and no honest DVN is on record, or
\* on its way there, with a packet that the source chain may still drop.
HonestOnRecord ==
    /\ Sanitized(storage.ulnReceiveConfigOApp)
    /\ Sanitized(defaultConfig)
    /\ \A nonce \in Nonces, dvn \in DVNs :
           HasAttestation(storage, nonce, dvn) => MayAttest(dvn, storage.hashLookups[nonce][dvn])
    /\ \A i \in DOMAIN fromUln :
           /\ Sanitized(fromUln[i].default)
           /\ fromUln[i].op = "ULN_CONNECTION_VERIFY" =>
                  MayAttest(fromUln[i].dvn, fromUln[i].attestation)

\* The attestations on record are of nonces of the verify range.
LookupsInRange ==
    \A nonce \in LookupNonces(storage) :
        nonce < storage.firstUnexecutedNonce + MAX_HASH_LOOKUPS

IInv ==
    /\ TypeOK
    /\ BitmapsAreNested
    /\ AnswersAreTrue
    /\ HonestOnRecord
    /\ LookupsInRange
    /\ OnlyFinalPacketsForwarded
=============================================================================
