---------------------------- MODULE SimpleWorkers ----------------------------
(***************************************************************************)
(* The development workers of tasks/: `lz:oft:send --simple-workers` sends  *)
(* a message and then plays DVN and executor for it on the destination;     *)
(* when it fails on the way, the operator goes on by hand with the tasks of *)
(* tasks/simple-workers-mock.  One pathway, from one OFT to another; other  *)
(* holders of its token send over it whenever they like.                    *)
(*                                                                          *)
(* EndpointV2, ReceiveUln302 and the two mock contracts are not in the      *)
(* repository: the operators of the section "The destination chain" are     *)
(* what the tasks rely on.                                                  *)
(***************************************************************************)
EXTENDS Naturals, FiniteSets

CONSTANTS
    Messages,       \* what is sent: recipient, amount, compose payload, options
    Plain,          \* of each message, the one of its recipient and amount only
    Drops,          \* which of them ask the executor for a native drop
    Undecodable,    \* those whose drops fail to be decoded, or encoded again
    Dusty,          \* those whose amount has more decimals than are shared
    NoMessage,
    Operators,      \* processes that may run a task at the same time
    MaxNonce        \* bound: messages that are sent

ASSUME MessagesAssumption ==
    /\ Plain \in [Messages -> Messages]
    /\ Drops \in [Messages -> BOOLEAN]
    /\ Undecodable \subseteq Messages
    /\ Dusty \subseteq Messages
    /\ NoMessage \notin Messages
ASSUME MaxNonceAssumption == MaxNonce \in Nat \ {0}

VARIABLES
    outbound,       \* source endpoint: nonce of the last message
    sent,           \* the message each nonce was given to
    configured,     \* the sides whose libraries use the mock workers
    attested,       \* receive library: what the mock DVN verified
    payload,        \* endpoint: committed payload of each nonce
    lazy,           \* endpoint: lazyInboundNonce
    delivered,      \* what lzReceive delivered, with its native drop or not
    skipped,        \* nonces given up with endpoint.skip
    task,           \* the task that each operator runs
    overtaken,      \* what tasks held a nonce for when another send took it
    reported        \* what send tasks ended for without an error

vars == <<outbound, sent, configured, attested, payload, lazy, delivered, skipped,
          task, overtaken, reported>>
destination == <<attested, payload, lazy, delivered, skipped>>

Nonces == 1 .. MaxNonce
Idle == [step |-> "idle", message |-> NoMessage, nonce |-> 0]

AfterSend == {"preflightAgain", "verify", "commitAndExecute"}
AfterRead == {"send"} \cup AfterSend
SendSteps == {"preflight", "readNonce"} \cup AfterRead
WireSteps == {"setSendConfig", "setReceiveConfig"}

Tasks ==
    {t \in [step : {"idle"} \cup SendSteps \cup WireSteps,
            message : Messages \cup {NoMessage},
            nonce : 0 .. MaxNonce] :
        /\ t.step \in SendSteps => t.message \in Messages
        /\ t.step \in AfterRead => t.nonce \in Nonces}

TypeOK ==
    /\ outbound \in 0 .. MaxNonce
    /\ sent \in [Nonces -> Messages \cup {NoMessage}]
    /\ \A n \in 1 .. outbound : sent[n] \in Messages
    /\ configured \subseteq {"send", "receive"}
    /\ attested \subseteq Nonces \X Messages
    /\ payload \in [Nonces -> Messages \cup {NoMessage}]
    /\ lazy \in 0 .. MaxNonce
    /\ delivered \subseteq [nonce : Nonces, message : Messages, drop : BOOLEAN]
    /\ skipped \subseteq Nonces
    /\ task \in [Operators -> Tasks]
    /\ overtaken \subseteq Nonces \X Messages
    /\ reported \subseteq Nonces \X Messages

Init ==
    /\ outbound = 0
    /\ sent = [n \in Nonces |-> NoMessage]
    /\ configured = {}
    /\ attested = {}
    /\ payload = [n \in Nonces |-> NoMessage]
    /\ lazy = 0
    /\ delivered = {}
    /\ skipped = {}
    /\ task = [p \in Operators |-> Idle]
    /\ overtaken = {}
    /\ reported = {}

-----------------------------------------------------------------------------
(* The destination chain.                                                   *)

\* inboundNonce: the last nonce up to which every payload is committed.
IsInboundNonce(n) ==
    /\ n \in lazy .. MaxNonce
    /\ \A m \in lazy + 1 .. n : payload[m] # NoMessage
    /\ n = MaxNonce \/ payload[n + 1] = NoMessage

\* A commit takes what the configured DVN attested, for a nonce that is not
\* cleared, and deletes the attestation.
Committable(n, message) ==
    /\ "receive" \in configured
    /\ <<n, message>> \in attested
    /\ n > lazy \/ payload[n] # NoMessage

\* lzReceive reverts with InvalidNonce at the first nonce before that has no payload.
NoInvalidNonce(n) == \A m \in lazy + 1 .. n - 1 : payload[m] # NoMessage

Cleared(n) == IF n > lazy THEN n ELSE lazy

\* verify(): the mock DVN attests whatever it is given.
Attest(n, message) ==
    /\ attested' = attested \cup {<<n, message>>}
    /\ UNCHANGED <<payload, lazy, delivered, skipped>>

\* SimpleExecutorMock.commitAndExecute: both steps and the drop, or nothing.
CommitsAndExecutes(n, message, drop) ==
    /\ Committable(n, message)
    /\ NoInvalidNonce(n)
    /\ attested' = attested \ {<<n, message>>}
    /\ payload' = [payload EXCEPT ![n] = NoMessage]
    /\ lazy' = Cleared(n)
    /\ delivered' = delivered \cup {[nonce |-> n, message |-> message, drop |-> drop]}
    /\ UNCHANGED skipped

-----------------------------------------------------------------------------
(* lz:oft:send --simple-workers.                                            *)

GoTo(p, step) == task' = [task EXCEPT ![p].step = step]
Stop(p) == task' = [task EXCEPT ![p] = Idle]

\* The tasks that are about to send, and hold the nonce that this send takes.
Overtakes(others) ==
    {<<outbound + 1, task[q].message>> :
        q \in {r \in others : task[r].step = "send" /\ task[r].nonce = outbound + 1}}

\* The endpoint gives the next nonce to whoever comes first.
TakesNextNonce(message, others) ==
    /\ outbound < MaxNonce
    /\ outbound' = outbound + 1
    /\ sent' = [sent EXCEPT ![outbound + 1] = message]
    /\ overtaken' = overtaken \cup Overtakes(others)

\* A send without the flag, by an operator or by anyone else who holds the
\* token: the message is left to others.
SendOnly(message) ==
    /\ TakesNextNonce(message, Operators)
    /\ UNCHANGED <<configured, destination, task, reported>>

StartSend(p, message) ==
    /\ task[p] = Idle
    /\ task' = [task EXCEPT ![p] = [step |-> "preflight", message |-> message, nonce |-> 0]]
    /\ UNCHANGED <<outbound, sent, configured, destination, overtaken, reported>>

NonceMismatch == ~IsInboundNonce(lazy)

\* noncePreflightCheck, before sending and again before processing.
PreflightCheck(p) ==
    /\ task[p].step \in {"preflight", "preflightAgain"}
    /\ IF NonceMismatch THEN Stop(p)
       ELSE GoTo(p, IF task[p].step = "preflight" THEN "readNonce" ELSE "verify")
    /\ UNCHANGED <<outbound, sent, configured, destination, overtaken, reported>>

\* Mutant: the nonce of the last message, if there is one, instead of the next.
LastOutboundNonce == IF outbound = 0 THEN 1 ELSE outbound

\* The nonce is not taken from the receipt: it is what the endpoint says before.
NextOutboundNonce == outbound + 1

ReadOutboundNonce(p) ==
    /\ task[p].step = "readNonce"
    /\ outbound < MaxNonce
    /\ task' = [task EXCEPT ![p] =
                  [step |-> "send", message |-> @.message, nonce |-> NextOutboundNonce]]
    /\ UNCHANGED <<outbound, sent, configured, destination, overtaken, reported>>

Send(p) ==
    /\ task[p].step = "send"
    /\ TakesNextNonce(task[p].message, Operators \ {p})
    /\ GoTo(p, "preflightAgain")
    /\ UNCHANGED <<configured, destination, reported>>

\* processMessage rebuilds the message from recipient and amount; it parses the
\* amount with the shared decimals, and throws where the source removed dust.
Parses(message) == message \notin Dusty
ProcessMessage(message) == Plain[message]

ProcessReceiveVerify(p) ==
    /\ task[p].step = "verify"
    /\ Parses(task[p].message)
    /\ Attest(task[p].nonce, ProcessMessage(task[p].message))
    /\ GoTo(p, "commitAndExecute")
    /\ UNCHANGED <<outbound, sent, configured, overtaken, reported>>

\* The drops are decoded from the options of the send, and encoded again; what
\* throws there is logged, and there is no drop.
NativeDrops(message) == Drops[message] /\ message \notin Undecodable

Executes(p) ==
    LET message == task[p].message
    IN  CommitsAndExecutes(task[p].nonce, ProcessMessage(message), NativeDrops(message))

Reports(p) == reported' = reported \cup {<<task[p].nonce, task[p].message>>}

\* Mutant: an error of commitAndExecute is logged and not thrown again.
SwallowsRevert(p) ==
    /\ task[p].step = "commitAndExecute"
    /\ Executes(p) \/ UNCHANGED destination
    /\ Reports(p)
    /\ Stop(p)
    /\ UNCHANGED <<outbound, sent, configured, overtaken>>

ProcessReceiveCommitAndExecute(p) ==
    /\ task[p].step = "commitAndExecute"
    /\ Executes(p)
    /\ Reports(p)
    /\ Stop(p)
    /\ UNCHANGED <<outbound, sent, configured, overtaken>>

\* Any step may throw (the RPC fails, a call reverts, funds are missing, the
\* explorer's metadata cannot be fetched) or be interrupted: the task is over.
TaskFails(p) ==
    /\ task[p] # Idle
    /\ Stop(p)
    /\ UNCHANGED <<outbound, sent, configured, destination, overtaken, reported>>

-----------------------------------------------------------------------------
(* lz:oapp:wire:simple-workers: the send side first, then the receive side.  *)

StartWire(p) ==
    /\ task[p] = Idle
    /\ configured # {"send", "receive"}
    /\ task' = [task EXCEPT ![p] = [Idle EXCEPT !.step = "setSendConfig"]]
    /\ UNCHANGED <<outbound, sent, configured, destination, overtaken, reported>>

SetSendConfig(p) ==
    /\ task[p].step = "setSendConfig"
    /\ configured' = configured \cup {"send"}
    /\ GoTo(p, "setReceiveConfig")
    /\ UNCHANGED <<outbound, sent, destination, overtaken, reported>>

SetReceiveConfig(p) ==
    /\ task[p].step = "setReceiveConfig"
    /\ configured' = configured \cup {"receive"}
    /\ Stop(p)
    /\ UNCHANGED <<outbound, sent, destination, overtaken, reported>>

-----------------------------------------------------------------------------
(* The single tasks, by hand: the operator names a message as the failed     *)
(* task printed it, with the amount that arrived.  process-receive is Verify *)
(* and then CommitAndExecute without a drop.                                 *)

SetConfigByHand(side) ==
    /\ configured' = configured \cup {side}
    /\ UNCHANGED <<outbound, sent, destination, task, overtaken, reported>>

\* lz:simple-workers:set-send-config
SetSendConfigByHand == SetConfigByHand("send")

\* lz:simple-workers:set-receive-config
SetReceiveConfigByHand == SetConfigByHand("receive")

\* What is named for a nonce: the message that has it, or the one of a task that
\* took the nonce for its own.
Named(n) == {sent[n]} \cup {o[2] : o \in {x \in overtaken : x[1] = n}}

ByHand(n, message) ==
    /\ n \in 1 .. outbound
    /\ message \in Named(n)
    /\ UNCHANGED <<outbound, sent, configured, task, overtaken, reported>>


\* lz:simple-dvn:verify
Verify(n, message) == ByHand(n, message) /\ Attest(n, ProcessMessage(message))

\* lz:simple-dvn:commit
Commit(n, message) ==
    /\ ByHand(n, message)
    /\ Committable(n, ProcessMessage(message))
    /\ attested' = attested \ {<<n, ProcessMessage(message)>>}
    /\ payload' = [payload EXCEPT ![n] = ProcessMessage(message)]
    /\ UNCHANGED <<lazy, delivered, skipped>>

\* lz:simple-dvn:lz-receive: no executor, hence no native drop.
LzReceive(n, message) ==
    /\ ByHand(n, message)
    /\ payload[n] = ProcessMessage(message)
    /\ NoInvalidNonce(n)
    /\ payload' = [payload EXCEPT ![n] = NoMessage]
    /\ lazy' = Cleared(n)
    /\ delivered' = delivered \cup {[nonce |-> n, message |-> payload[n], drop |-> FALSE]}
    /\ UNCHANGED <<attested, skipped>>

\* lz:simple-workers:commit-and-execute, with the parameter nativeDrops or
\* without it (its default is no drop).
CommitAndExecute(n, message) ==
    /\ ByHand(n, message)
    /\ \E drop \in {FALSE, NativeDrops(message)} :
          CommitsAndExecutes(n, ProcessMessage(message), drop)

\* lz:simple-workers:skip
Skip(n) ==
    /\ ByHand(n, sent[n])
    /\ IsInboundNonce(n - 1)
    /\ lazy' = n
    /\ skipped' = skipped \cup {n}
    /\ UNCHANGED <<attested, payload, delivered>>

-----------------------------------------------------------------------------
Continue(p) ==
    \/ PreflightCheck(p)
    \/ ReadOutboundNonce(p)
    \/ Send(p)
    \/ ProcessReceiveVerify(p)
    \/ ProcessReceiveCommitAndExecute(p)
    \/ SetSendConfig(p)
    \/ SetReceiveConfig(p)
    \/ TaskFails(p)

OperatorNext(p) ==
    \/ \E message \in Messages : StartSend(p, message)
    \/ StartWire(p)
    \/ Continue(p)

HandNext(n) ==
    \/ \E message \in Messages :
          \/ Verify(n, message)
          \/ Commit(n, message)
          \/ LzReceive(n, message)
          \/ CommitAndExecute(n, message)
    \/ Skip(n)

Next ==
    \/ \E message \in Messages : SendOnly(message)
    \/ \E p \in Operators : OperatorNext(p)
    \/ SetSendConfigByHand
    \/ SetReceiveConfigByHand
    \/ \E n \in Nonces : HandNext(n)

Spec == Init /\ [][Next]_vars

\* Every call of a task returns or throws, and the operator does what the failed
\* task advises: sees to the configuration, and verifies, commits and executes by
\* hand the first message that is left.
Resolved(n) == n \in skipped \/ \E d \in delivered : d.nonce = n
FirstLeft(n) == ~Resolved(n) /\ \A m \in 1 .. n - 1 : Resolved(m)

FairSpec ==
    /\ Spec
    /\ \A p \in Operators : WF_vars(Continue(p))
    /\ WF_vars(SetReceiveConfigByHand)
    /\ WF_vars(\E n \in Nonces : FirstLeft(n) /\ Verify(n, sent[n]))
    /\ SF_vars(\E n \in Nonces : FirstLeft(n) /\ CommitAndExecute(n, sent[n]))

-----------------------------------------------------------------------------
(* Properties.                                                               *)

\* A nonce delivers the message that was sent under it, less the compose payload,
\* or the one of a task that read the nonce and lost it to another send before its
\* own: what the mock attests is built from the arguments of the task and a nonce
\* read before the send ("the outbound nonce that will be used for this
\* transaction"), and nothing on chain compares it with the source.
DeliveredAsSent ==
    \A d \in delivered : \E message \in Named(d.nonce) : d.message = Plain[message]

\* A send task that ends without an error has delivered its own message under its
\* nonce, with the native drop that the options asked for unless they fail to be
\* decoded; and that is the nonce which the message has on the source, unless
\* another send came between the reading of the nonce and the task's.
SuccessMeansDelivered ==
    \A r \in reported :
        /\ [nonce |-> r[1], message |-> Plain[r[2]], drop |-> NativeDrops(r[2])] \in delivered
        /\ sent[r[1]] = r[2] \/ r \in overtaken

\* What these two rest on: whatever the mocks are given, and whatever is found on
\* the destination, is of a message that is named for its nonce.
OfNamed(n, message) ==
    /\ n <= outbound
    /\ \E named \in Named(n) : message = Plain[named]

TasksInv ==
    /\ \A p \in Operators : task[p].step \in AfterRead =>
          \/ task[p].step = "send" /\ task[p].nonce = outbound + 1
          \/ task[p].nonce <= outbound /\ task[p].message \in Named(task[p].nonce)
    /\ \A a \in attested : OfNamed(a[1], a[2])
    /\ \A n \in Nonces : payload[n] # NoMessage => OfNamed(n, payload[n])
    /\ \A d \in delivered : OfNamed(d.nonce, d.message)
    /\ \A r \in reported : r[1] <= outbound
    /\ SuccessMeansDelivered

IInv == TypeOK /\ TasksInv

=============================================================================
