----------------------------- MODULE TransferTest -----------------------------
(***************************************************************************)
(* The test phase (src/toolkit/orchestrator/test.ts) and the transfers its *)
(* send scripts (templates/send-from-*.ts) make over the pathways that     *)
(* Wiring wires, with LayerZero's delivery. A test may be run at any time, *)
(* whatever has been wired, and so may wire between two tests.             *)
(*                                                                         *)
(* Arbitrum is the hub: phase 1 sends from it in turn, phase 2 polls       *)
(* LayerZero Scan, phase 3 sends back from every chain at once, phase 4    *)
(* polls again and drops the answers. Dry runs send and poll nothing.      *)
(***************************************************************************)
EXTENDS Wiring, Integers

CONSTANT MaxTransfers   \* bound: transfers of all the tests together

ASSUME MaxTransfers \in Nat

VARIABLES
    transfers,  \* the transfers that were sent, in order
    test,       \* state.json: the status of each transfer tested
    targets,    \* the destinations of the test
    pending,    \* the transfers that the phase has not started yet
    sending,    \* the send scripts: not running, started, or the transfer they sent
    hashes,     \* the transfer whose hash was found in the output, or 0
    polled      \* what polling found, saved when all polls are done

testVars == <<transfers, test, targets, pending, sending, hashes, polled>>
vars     == <<wiringVars, testVars>>

Outbound  == {p \in Pathways : p[1] = "arbitrum"}
Returns   == {p \in Pathways : p[2] = "arbitrum"}
HubRoutes == Outbound \cup Returns

NotRunning == -1
Started    == 0
NoHash     == 0

(***************************************************************************)
(* A send script: the settings without which its transaction reverts,      *)
(* whether it sees what becomes of the transaction, and whether            *)
(* extractTxHash finds the hash in what it prints. All but TON's ask for   *)
(* no options of their own and need enforced ones.                         *)
(***************************************************************************)
SendFromEvm    == [needs |-> {"peer", "options"}, sees |-> TRUE, hashFound |-> {TRUE}]
SendFromSolana == [needs |-> {"peer", "options"}, sees |-> TRUE, hashFound |-> {FALSE}]
SendFromSui    == [needs |-> {"peer", "options"}, sees |-> TRUE, hashFound |-> {FALSE}]
SendFromTon    == [needs |-> {"peer"}, sees |-> FALSE, hashFound |-> {FALSE}]

\* Its hash is found if it has all its 64 digits.
SendFromStarknet == [needs |-> {"peer", "options"}, sees |-> TRUE, hashFound |-> BOOLEAN]

SendScripts == [arbitrum |-> SendFromEvm, solana |-> SendFromSolana,
                starknet |-> SendFromStarknet, sui |-> SendFromSui, ton |-> SendFromTon]

(***************************************************************************)
(* LayerZero and the contracts                                             *)
(***************************************************************************)
Sendable(p) == SendScripts[p[1]].needs \subseteq settings[p]

\* The DVN attests the confirmations that the sender's library asked for; the
\* receiving end commits with as many as it wants, and takes it from its peer.
Verifiable(transfer) ==
    /\ transfer.confirmations >= ReceiveConfirmations(transfer.pathway)
    /\ "peer" \in settings[Back(transfer.pathway)]

Deliver(i) ==
    /\ ~ transfers[i].delivered /\ Verifiable(transfers[i])
    /\ transfers' = [transfers EXCEPT ![i].delivered = TRUE]
    /\ UNCHANGED <<wiringVars, test, targets, pending, sending, hashes, polled>>

(***************************************************************************)
(* The scripts                                                             *)
(***************************************************************************)
IsNextSend(p) ==
    /\ p \in pending
    /\ \/ process = "outbound" /\ \A q \in HubRoutes : sending[q] = NotRunning
       \/ process = "return"

StartSend(p) ==
    /\ IsNextSend(p)
    /\ test' = [test EXCEPT ![p] = "running"]
    /\ sending' = [sending EXCEPT ![p] = Started]
    /\ pending' = pending \ {p}
    /\ UNCHANGED <<wiringVars, transfers, targets, hashes, polled>>

\* The transaction of a send script is executed.
SendTransfer(p) ==
    /\ sending[p] = Started /\ Sendable(p)
    /\ transfers' = Append(transfers, [pathway |-> p, confirmations |-> SendConfirmations(p),
                                       delivered |-> FALSE])
    /\ sending' = [sending EXCEPT ![p] = Len(transfers')]
    /\ UNCHANGED <<wiringVars, test, targets, pending, hashes, polled>>

ExitsWithZero(p) ==
    \/ sending[p] > 0
    \/ ~ SendScripts[p[1]].sees /\ sending[p] = Started /\ (~ calm \/ ~ Sendable(p))

\* Exit code 0: with a hash the transfer waits to be polled, without one it is
\* complete.
SendEnds(p) ==
    /\ ExitsWithZero(p)
    /\ \E found \in SendScripts[p[1]].hashFound :
        /\ hashes' = [hashes EXCEPT ![p] = IF found THEN sending[p] ELSE NoHash]
        /\ test' = [test EXCEPT ![p] = IF found THEN "running" ELSE "complete"]
    /\ sending' = [sending EXCEPT ![p] = NotRunning]
    /\ UNCHANGED <<wiringVars, transfers, targets, pending, polled>>

\* The script throws or takes more than two minutes, before or after it sent.
SendFails(p) ==
    /\ sending[p] # NotRunning
    /\ ~ calm \/ (SendScripts[p[1]].sees /\ sending[p] = Started /\ ~ Sendable(p))
    /\ test' = [test EXCEPT ![p] = "failed"]
    /\ sending' = [sending EXCEPT ![p] = NotRunning]
    /\ UNCHANGED <<wiringVars, transfers, targets, pending, hashes, polled>>

(***************************************************************************)
(* The phases                                                              *)
(***************************************************************************)
SendsDone == pending = {} /\ \A p \in HubRoutes : sending[p] = NotRunning

NoHashes == [p \in HubRoutes |-> NoHash]
NoPolls  == [p \in Outbound |-> "none"]

WiringStays == UNCHANGED <<settings, wire, script, todo, calm>>

StartTest(chains) ==
    /\ process = "idle" /\ chains # {}
    /\ Len(transfers) + 2 * Cardinality(chains) <= MaxTransfers
    /\ process' = "outbound"
    /\ targets' = chains
    /\ pending' = {p \in Outbound : p[2] \in chains}
    /\ WiringStays /\ UNCHANGED <<transfers, test, sending, hashes, polled>>

PollsWaiting == {p \in Outbound : hashes[p] # NoHash /\ polled[p] = "none"}

OutboundEnds ==
    /\ process = "outbound" /\ SendsDone
    /\ process' = "poll"
    /\ WiringStays /\ UNCHANGED testVars

PollTimesOut(p) ==   \* a timeout taken for a delivery
    /\ process = "poll" /\ p \in PollsWaiting
    /\ polled' = [polled EXCEPT ![p] = "complete"]
    /\ UNCHANGED <<wiringVars, transfers, test, targets, pending, sending, hashes>>

\* pollDelivery: until the message is final or for five minutes.
Poll(p) ==
    /\ process = "poll" /\ p \in PollsWaiting
    /\ \E delivered \in {transfers[hashes[p]].delivered, FALSE} :
           polled' = [polled EXCEPT ![p] = IF delivered THEN "complete" ELSE "failed"]
    /\ UNCHANGED <<wiringVars, transfers, test, targets, pending, sending, hashes>>

Tested == {p \in Outbound : polled[p] # "none"}

\* All polls are in: their results are saved, and the return transfers
\* follow, of the chains that were sent to, unless they are to be skipped.
PollEnds(skipReturn) ==
    /\ process = "poll" /\ PollsWaiting = {}
    /\ test' = [p \in HubRoutes |-> IF p \in Tested THEN polled[p] ELSE test[p]]
    /\ polled' = NoPolls
    /\ hashes' = NoHashes /\ targets' = {}
    /\ IF skipReturn THEN process' = "idle" /\ pending' = {}
                     ELSE process' = "return" /\ pending' = {p \in Returns : p[1] \in targets}
    /\ WiringStays /\ UNCHANGED <<transfers, sending>>

\* Phase 4 waits for the polls of the hashes found and records nothing.
ReturnEnds ==
    /\ process = "return" /\ SendsDone
    /\ process' = "idle"
    /\ hashes' = NoHashes
    /\ WiringStays /\ UNCHANGED <<transfers, test, targets, pending, sending, polled>>

InterruptTest ==
    /\ process \in {"outbound", "poll", "return"} /\ ~ calm
    /\ process' = "idle"
    /\ targets' = {} /\ pending' = {}
    /\ sending' = [p \in HubRoutes |-> NotRunning]
    /\ hashes' = NoHashes /\ polled' = NoPolls
    /\ WiringStays /\ UNCHANGED <<transfers, test>>
-----------------------------------------------------------------------------
Init ==
    /\ WiringInit
    /\ transfers = <<>>
    /\ test = [p \in HubRoutes |-> "absent"]
    /\ targets = {} /\ pending = {}
    /\ sending = [p \in HubRoutes |-> NotRunning]
    /\ hashes = NoHashes
    /\ polled = NoPolls

SendStep(p) == StartSend(p) \/ SendTransfer(p) \/ SendEnds(p) \/ SendFails(p)

PhaseStep ==
    \/ \E p \in Outbound : Poll(p)
    \/ OutboundEnds \/ ReturnEnds
    \/ \E skipReturn \in BOOLEAN : PollEnds(skipReturn)

Next ==
    \/ WiringNext /\ UNCHANGED testVars
    \/ \E chains \in SUBSET (Chains \ {"arbitrum"}) : StartTest(chains)
    \/ \E p \in HubRoutes : SendStep(p)
    \/ PhaseStep
    \/ InterruptTest
    \/ \E i \in DOMAIN transfers : Deliver(i)

Spec == Init /\ [][Next]_vars

\* Processes and scripts take their steps, LayerZero delivers what it can, the
\* networks come to work, and the operator runs wire again and again.
Fairness ==
    /\ WF_vars(Calms /\ UNCHANGED testVars)
    /\ SF_vars(StartWire(Chains) /\ UNCHANGED testVars)
    /\ WF_vars((WireEnds \/ \E p \in Pathways : SkipWired(p) \/ RunScript(p)) /\ UNCHANGED testVars)
    /\ \A chain \in Chains : WF_vars(LaneStep(chain) /\ UNCHANGED testVars)
    /\ WF_vars(PhaseStep \/ \E p \in HubRoutes : SendStep(p))
    /\ \A i \in 1 .. MaxTransfers : WF_vars(i \in DOMAIN transfers /\ Deliver(i))

FairSpec == Spec /\ Fairness

-----------------------------------------------------------------------------
(* Properties                                                              *)

TypeOK ==
    /\ WiringTypeOK
    /\ transfers \in Seq([pathway : HubRoutes, confirmations : Nat, delivered : BOOLEAN])
    /\ test \in [HubRoutes -> {"absent", "running", "complete", "failed"}]
    /\ targets \subseteq Chains /\ pending \subseteq HubRoutes
    /\ sending \in [HubRoutes -> Nat \cup {NotRunning}]
    /\ hashes \in [HubRoutes -> Nat]
    /\ polled \in [Outbound -> {"none", "complete", "failed"}]
    /\ process \in {"idle", "wire", "outbound", "poll", "return"}

\* "Verifies end-to-end message delivery" (docs/deployment-guide.md) of the
\* transfers from Arbitrum: one that state.json calls complete was delivered,
\* for which both ends had to be wired, whatever failed, was sent again or
\* interrupted before.
OutboundCompleteMeansDelivered ==
    \A p \in Outbound : test[p] = "complete" =>
        /\ \E i \in DOMAIN transfers : transfers[i].pathway = p /\ transfers[i].delivered
        /\ "peer" \in settings[p] \cap settings[Back(p)]

\* What that rests on: a transfer was sent with a peer, and arrived at one; a
\* script, a hash and a poll are of a transfer of their own pathway.
IsTransferOf(i, p) == i \in DOMAIN transfers /\ transfers[i].pathway = p

TransfersHadPeers ==
    \A i \in DOMAIN transfers :
        /\ "peer" \in settings[transfers[i].pathway]
        /\ transfers[i].delivered => "peer" \in settings[Back(transfers[i].pathway)]

PollsAreOfTransfers ==
    /\ \A p \in HubRoutes : sending[p] > 0 => IsTransferOf(sending[p], p)
    /\ \A p \in HubRoutes : hashes[p] # NoHash => IsTransferOf(hashes[p], p)
    /\ \A p \in Outbound : polled[p] = "complete" =>
           \E i \in DOMAIN transfers : transfers[i].pathway = p /\ transfers[i].delivered

IInv ==
    /\ TypeOK /\ WiringInv
    /\ TransfersHadPeers /\ PollsAreOfTransfers /\ OutboundCompleteMeansDelivered

\* Wiring while a transfer is on its way never takes from it what it needed to
\* be delivered: EVM, Solana and Starknet only lower the confirmations they
\* accept.
VerifiableStaysVerifiable ==
    [][\A i \in DOMAIN transfers :
        transfers[i].pathway[2] \notin {"sui", "ton"} /\ Verifiable(transfers[i])
            => Verifiable(transfers[i])']_vars

\* A transfer that was sent while its pathway was half wired, with the
\* confirmations of the moment, arrives once wiring has come to its end, as
\* long as the settings an unfinished script leaves out fit LayerZero's own.
SentTransfersArrive == []<>(\A i \in DOMAIN transfers : transfers[i].delivered)
=============================================================================
