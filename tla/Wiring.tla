------------------------------- MODULE Wiring -------------------------------
(***************************************************************************)
(* What the wire scripts (src/toolkit/templates/wire-from-*.ts) leave on   *)
(* the chains, run by the lanes of src/toolkit/orchestrator/wire.ts: the   *)
(* settings of each pathway, one transaction at a time, whose errors some  *)
(* scripts throw, some log, and some never see.                            *)
(*                                                                         *)
(* The contracts are deployed and their addresses do not change: dry runs, *)
(* resets, stale addresses and scripts that outlive their process are in   *)
(* Orchestrator. A setting is on the chain or not; its value depends on    *)
(* the pathway only, so setting it again changes nothing.                  *)
(***************************************************************************)
EXTENDS Naturals, FiniteSets, Sequences

ChainNames == {"arbitrum", "solana", "starknet", "sui", "ton"}

CONSTANTS
    Chains,                \* the chains that have a contract
    DefaultConfirmations   \* LayerZero's own setting for messages from a chain

ASSUME WiringAssumption ==
    /\ Chains \subseteq ChainNames
    /\ DefaultConfirmations \in [Chains -> Nat \ {0}]

VARIABLES
    settings,  \* what is set on the source chain of each pathway
    wire,      \* state.json: the status of each pathway
    script,    \* the wire script that each lane waits for
    todo,      \* the pathways that the lanes have not come to yet
    process,   \* what the command line is doing
    calm       \* whether the networks have stopped failing

wiringVars == <<settings, wire, script, todo, process, calm>>

\* constants.ts: the pairs of chains without an endpoint for each other.
Blocked  == {{"starknet", "ton"}, {"sui", "ton"}}
Pathways == {p \in Chains \X Chains : p[1] # p[2] /\ {p[1], p[2]} \notin Blocked}
Back(p)  == <<p[2], p[1]>>

(***************************************************************************)
(* A script is the sequence of its transactions with those whose failure   *)
(* it survives: it catches the error, does not look at the status of the   *)
(* transaction, or takes an unconfirmed transaction for a confirmed one.   *)
(***************************************************************************)
WireFromEvm ==
    [steps |-> <<"peer", "options", "sendConfig", "receiveConfig">>, survives |-> {}]

Pdas == {"initSendLibrary", "initReceiveLibrary", "initOAppNonce", "initConfig"}

\* Mutants: the error of setEnforcedOptions is only logged; the peer comes first.
WireFromSolanaLogsOptions ==
    [steps |-> <<"initSendLibrary", "initReceiveLibrary", "initOAppNonce", "initConfig",
                 "peer", "options", "sendConfig", "receiveConfig", "executor">>,
     survives |-> {"options", "sendConfig", "receiveConfig", "executor"}]

WireFromSolanaPeerFirst ==
    [steps |-> <<"peer", "initSendLibrary", "initReceiveLibrary", "initOAppNonce", "initConfig",
                 "options", "sendConfig", "receiveConfig", "executor">>,
     survives |-> {"sendConfig", "receiveConfig", "executor"}]

WireFromSolana ==
    [steps |-> <<"initSendLibrary", "initReceiveLibrary", "initOAppNonce", "initConfig",
                 "peer", "options", "sendConfig", "receiveConfig", "executor">>,
     survives |-> {"sendConfig", "receiveConfig", "executor"}]

WireFromStarknet ==
    [steps |-> <<"delegate", "sendConfig", "receiveConfig", "options", "peer">>,
     survives |-> {"delegate", "sendConfig", "receiveConfig"}]

WireFromSui ==
    [steps |-> <<"sendConfig", "receiveConfig", "options", "peer">>,
     survives |-> {"sendConfig", "receiveConfig", "options", "peer"}]

WireFromTon ==
    [steps |-> <<"peer", "options", "epSend", "epReceive", "receiveConfig">>,
     survives |-> {"peer", "options", "epSend", "epReceive", "receiveConfig"}]

Scripts == [arbitrum |-> WireFromEvm, solana |-> WireFromSolana,
            starknet |-> WireFromStarknet, sui |-> WireFromSui, ton |-> WireFromTon]

Steps(chain)    == Scripts[chain].steps
Survives(chain) == Scripts[chain].survives
Settings(chain) == {Steps(chain)[i] : i \in DOMAIN Steps(chain)}

\* GAS_TABLE, by destination.
GasConfirmations == [arbitrum |-> 15, solana |-> 32, starknet |-> 10, sui |-> 5, ton |-> 20]

(***************************************************************************)
(* The confirmations that a message of pathway p asks its DVN to wait for, *)
(* and those that the other end wants to see. The scripts of EVM, Solana   *)
(* and Starknet accept 1, those of Sui and TON what the table says of the  *)
(* other chain as a destination. That of TON sets nothing to send with.    *)
(***************************************************************************)
SendConfirmations(p) ==
    IF "sendConfig" \in settings[p] THEN GasConfirmations[p[2]] ELSE DefaultConfirmations[p[1]]

AcceptedAtHome(p) == GasConfirmations[p[2]]   \* a mutant: its own entry of the table

AcceptedFrom(p) == IF p[2] \in {"sui", "ton"} THEN GasConfirmations[p[1]] ELSE 1

ReceiveConfirmations(p) ==
    IF "receiveConfig" \in settings[Back(p)] THEN AcceptedFrom(p) ELSE DefaultConfirmations[p[1]]

-----------------------------------------------------------------------------
(* The process and its lanes                                               *)

NoScript == [to |-> "nowhere", pc |-> 0]

WiringInit ==
    /\ settings \in [Pathways -> {{}, {"delegate"}}]
    /\ \A p \in Pathways : settings[p] \subseteq Settings(p[1])
    /\ wire = [p \in Pathways |-> "absent"]
    /\ script = [chain \in Chains |-> NoScript]
    /\ todo = {}
    /\ process = "idle"
    /\ calm = FALSE

\* wireAll: the pathways among the chains of --chains.
StartWire(chains) ==
    /\ process = "idle" /\ Cardinality(chains) > 1
    /\ process' = "wire"
    /\ todo' = {p \in Pathways : p[1] \in chains /\ p[2] \in chains}
    /\ UNCHANGED <<settings, wire, script, calm>>

\* runLane: the next destination, in the order of --chains, which may be any,
\* of a lane whose last script is done.
IsNext(p) ==
    /\ process = "wire" /\ p \in todo
    /\ script[p[1]] = NoScript

SkipWired(p) ==
    /\ IsNext(p) /\ wire[p] = "complete"
    /\ todo' = todo \ {p}
    /\ UNCHANGED <<settings, wire, script, process, calm>>

RunScript(p) ==
    /\ IsNext(p) /\ wire[p] # "complete"
    /\ wire' = [wire EXCEPT ![p] = "running"]
    /\ script' = [script EXCEPT ![p[1]] = [to |-> p[2], pc |-> 1]]
    /\ todo' = todo \ {p}
    /\ UNCHANGED <<settings, process, calm>>

Running(chain) == process = "wire" /\ script[chain] # NoScript
Pathway(chain) == <<chain, script[chain].to>>
AtStep(chain)  == script[chain].pc \in DOMAIN Steps(chain)
Step(chain)    == Steps(chain)[script[chain].pc]

Lands(chain) == settings' = [settings EXCEPT ![Pathway(chain)] = @ \cup {Step(chain)}]

GoesOn(chain) ==
    /\ script' = [script EXCEPT ![chain] = [to |-> script[chain].to, pc |-> script[chain].pc + 1]]
    /\ UNCHANGED <<wire, todo, process, calm>>

Exits(chain, status) ==
    /\ wire' = [wire EXCEPT ![Pathway(chain)] = status]
    /\ script' = [script EXCEPT ![chain] = NoScript]
    /\ UNCHANGED <<todo, process, calm>>

\* On Starknet only the delegate of the adapter may configure its libraries.
Allowed(chain) ==
    chain = "starknet" /\ Step(chain) \in {"sendConfig", "receiveConfig"}
        => \E p \in Pathways : p[1] = chain /\ "delegate" \in settings[p]

StepSucceedsOnce(chain) ==   \* a mutant: an account that is there is an error
    /\ Running(chain) /\ AtStep(chain) /\ Allowed(chain)
    /\ IF Step(chain) \in Pdas \cap settings[Pathway(chain)]
       THEN UNCHANGED settings /\ Exits(chain, "failed")
       ELSE Lands(chain) /\ GoesOn(chain)

\* The transaction of a step is confirmed. An account that Solana already has
\* is not created again: the script goes on over the error.
StepSucceeds(chain) ==
    /\ Running(chain) /\ AtStep(chain) /\ Allowed(chain)
    /\ Lands(chain)
    /\ GoesOn(chain)

\* The transaction has no effect and the script does not mind.
StepIsMissed(chain) ==
    /\ Running(chain) /\ AtStep(chain) /\ Step(chain) \in Survives(chain)
    /\ ~ calm \/ ~ Allowed(chain)
    /\ UNCHANGED settings
    /\ GoesOn(chain)

\* The script throws, or runs into the timeout of five minutes. The
\* transaction it was waiting for may have been executed all the same.
ScriptFails(chain) ==
    /\ Running(chain) /\ ~ calm
    /\ \/ UNCHANGED settings
       \/ AtStep(chain) /\ Allowed(chain) /\ Lands(chain)
    /\ Exits(chain, "failed")

\* Exit code 0.
ScriptEnds(chain) ==
    /\ Running(chain) /\ ~ AtStep(chain)
    /\ UNCHANGED settings
    /\ Exits(chain, "complete")

WireEnds ==
    /\ process = "wire" /\ todo = {}
    /\ \A chain \in Chains : script[chain] = NoScript
    /\ process' = "idle"
    /\ UNCHANGED <<settings, wire, script, todo, calm>>

\* The process is interrupted with its scripts: their pathways stay "running".
\* Transactions on their way may still be executed.
InterruptWire ==
    /\ process = "wire" /\ ~ calm
    /\ process' = "idle"
    /\ \E sent \in SUBSET {chain \in Chains : Running(chain) /\ AtStep(chain) /\ Allowed(chain)} :
           settings' = [p \in Pathways |->
               IF p[1] \in sent /\ p = Pathway(p[1]) THEN settings[p] \cup {Step(p[1])} ELSE settings[p]]
    /\ script' = [chain \in Chains |-> NoScript]
    /\ todo' = {}
    /\ UNCHANGED <<wire, calm>>

\* From some time on transactions are executed and confirmed.
Calms == ~ calm /\ calm' = TRUE /\ UNCHANGED <<settings, wire, script, todo, process>>

LaneStep(chain) ==
    \/ StepSucceeds(chain) \/ StepIsMissed(chain)
    \/ ScriptFails(chain) \/ ScriptEnds(chain)

WiringNext ==
    \/ \E chains \in SUBSET Chains : StartWire(chains)
    \/ \E p \in Pathways : SkipWired(p) \/ RunScript(p)
    \/ \E chain \in Chains : LaneStep(chain)
    \/ WireEnds \/ InterruptWire \/ Calms

WiringSpec == WiringInit /\ [][WiringNext]_wiringVars

-----------------------------------------------------------------------------
(* Properties                                                              *)

Script == {NoScript} \cup [to : Chains, pc : 1 .. 10]

WiringTypeOK ==
    /\ settings \in [Pathways -> SUBSET UNION {Settings(chain) : chain \in Chains}]
    /\ wire \in [Pathways -> {"absent", "running", "complete", "failed"}]
    /\ script \in [Chains -> Script]
    /\ todo \subseteq Pathways
    /\ calm \in BOOLEAN

\* A pathway that state.json calls complete is never wired again (wire.ts,
\* runLane), so nothing its messages cannot do without may be missing: from
\* EVM, Solana and Starknet the peer and the enforced options, without which
\* sends revert; from EVM its libraries too (wire-from-evm.ts, 95-169), from
\* Solana the endpoint's accounts (wire-from-solana.ts, 98-109). The scripts
\* of Sui and TON end well whatever becomes of their transactions.
CompleteMeansWired ==
    \A p \in Pathways : wire[p] = "complete" =>
        /\ p[1] \in {"arbitrum", "solana", "starknet"} => {"peer", "options"} \subseteq settings[p]
        /\ p[1] = "arbitrum" => {"sendConfig", "receiveConfig"} \subseteq settings[p]
        /\ p[1] = "solana" => Pdas \subseteq settings[p]

\* However often scripts failed, with or without the transaction they waited
\* for, were interrupted and run again, or went on over an error: Solana has
\* its accounts before a peer lets messages through, Starknet its options
\* ("order critical", docs/OFT_DEPLOYMENT_GUIDE.md, 301-304), EVM and Solana
\* peer and options before they configure a library, and EVM, which replaces
\* LayerZero's own settings last, never its receive library alone.
SetInOrder ==
    \A p \in Pathways :
        /\ p[1] = "solana" /\ "peer" \in settings[p] => Pdas \subseteq settings[p]
        /\ p[1] = "starknet" /\ "peer" \in settings[p] => "options" \in settings[p]
        /\ /\ p[1] \in {"arbitrum", "solana"}
           /\ settings[p] \cap {"sendConfig", "receiveConfig"} # {}
           => {"peer", "options"} \subseteq settings[p]
        /\ p[1] = "arbitrum" /\ "receiveConfig" \in settings[p] => "sendConfig" \in settings[p]

\* What the two rest on: a script has made the steps whose failure ends it
\* before the step that it is at, and before any step whose setting is there;
\* a complete pathway has them all, and only the wire command has scripts.
Fatal(chain) == Settings(chain) \ Survives(chain)

CompleteHasFatal ==
    \A p \in Pathways : wire[p] = "complete" => Fatal(p[1]) \subseteq settings[p]

FatalComeFirst ==
    \A p \in Pathways : \A i, j \in DOMAIN Steps(p[1]) :
        i < j /\ Steps(p[1])[j] \in settings[p] /\ Steps(p[1])[i] \in Fatal(p[1])
            => Steps(p[1])[i] \in settings[p]

ScriptsHaveInsisted ==
    \A chain \in Chains : script[chain] # NoScript =>
        /\ Pathway(chain) \in Pathways
        /\ \A i \in DOMAIN Steps(chain) :
               i < script[chain].pc /\ Steps(chain)[i] \in Fatal(chain)
                   => Steps(chain)[i] \in settings[Pathway(chain)]

OnlyWireHasScripts ==
    process # "wire" => todo = {} /\ \A chain \in Chains : script[chain] = NoScript

WiringInv ==
    /\ WiringTypeOK /\ ScriptsHaveInsisted /\ OnlyWireHasScripts
    /\ CompleteHasFatal /\ FatalComeFirst

\* The guide says that once both directions of a pair are wired, which sets
\* peer, options and DVN config, its messages are verified and delivered.
\* With every setting of both scripts on its chain, a message carries at least
\* the confirmations that the other end wants.
FullyWired(p) == wire[p] = "complete" /\ settings[p] = Settings(p[1])

WiredPathwaysDeliver ==
    \A p \in Pathways :
        FullyWired(p) /\ FullyWired(Back(p)) => SendConfirmations(p) >= ReceiveConfirmations(p)

\* Each pathway from a chain whose script insists on it is wired in the end,
\* if wire is run again and again and the networks come to work: every step
\* can be repeated, and failed pathways are not skipped.
IsWired(p) == wire[p] = "complete" /\ {"peer", "options"} \subseteq settings[p]

EveryPathwayIsWired == <>(\A p \in Pathways : p[1] \notin {"sui", "ton"} => IsWired(p))
=============================================================================
