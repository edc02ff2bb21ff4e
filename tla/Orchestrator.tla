---------------------------- MODULE Orchestrator ----------------------------
(***************************************************************************)
(* The deploy and wire phases of the toolkit's command line (src/toolkit:  *)
(* oft.ts, orchestrator/deploy.ts, wire.ts, state.ts, env.ts, runner.ts):  *)
(* what is recorded in state.json and .env while scripts deploy contracts  *)
(* and set peers, fail, time out or outlive the process that ran them.     *)
(*                                                                         *)
(* Between two awaits the process runs alone and every status it sets is   *)
(* saved at once, so state.json stands for the copy in memory too. One     *)
(* process runs at a time. Addresses are counted in order of creation; 0   *)
(* is the empty string. Skipped chains of a run keep their record.         *)
(***************************************************************************)
EXTENDS Naturals, FiniteSets, Sequences

AllChains == {"arbitrum", "solana", "starknet", "sui", "ton"}

CONSTANTS
    Chains,        \* the chains of the deployment
    Selections,    \* the values of --chains
    MaxContracts,  \* bound: contracts that one script ever creates on each chain
    MaxOrphans,    \* bound: scripts at a time that outlive their process
    DryRuns        \* whether commands are also given --dry-run

ASSUME OrchestratorAssumption ==
    /\ Chains \subseteq AllChains
    /\ Selections \subseteq SUBSET Chains \ {{}}
    /\ MaxContracts \in [Chains -> Nat \ {0}]
    /\ MaxOrphans \in Nat
    /\ DryRuns \in BOOLEAN

VARIABLES
    file,         \* toolkit/state.json
    env,          \* .env: the addresses captured from the scripts
    contracts,    \* the contracts that exist on each chain
    initialized,  \* the OFT packages on Sui whose init ticket is spent
    peers,        \* the peer that the contracts of a chain hold for another
    phase,        \* where the process is
    command,      \* its command line
    tasks,        \* the script that each chain's task or lane waits for
    todo,         \* the pathways that the lanes have not come to yet
    orphans       \* scripts without a process to report to

vars == <<file, env, contracts, initialized, peers, phase, command, tasks, todo, orphans>>
onChain == <<contracts, initialized, peers>>

Addresses == UNION {0 .. MaxContracts[chain] : chain \in Chains}
Status    == {"absent", "running", "complete", "failed", "skipped"}
Parts     == {"base", "oft", "init"}

\* constants.ts: the pairs of chains without an endpoint for each other.
Blocked  == {{"starknet", "ton"}, {"sui", "ton"}}
Pathways == {pathway \in Chains \X Chains :
                pathway[1] # pathway[2] /\ {pathway[1], pathway[2]} \notin Blocked}

\* The scripts that deploy a chain, in order. The base is the Solana program,
\* the Sui token package or the TON jetton.
Scripts(chain) ==
    CASE chain \in {"arbitrum", "starknet"} -> <<"oft">>
      [] chain \in {"solana", "ton"}        -> <<"base", "oft">>
      [] chain = "sui"                      -> <<"base", "oft", "init">>

State == [deploy : [Chains -> Status], wire : [Pathways -> Status]]
DefaultState == [deploy |-> [chain \in Chains |-> "absent"],
                 wire   |-> [pathway \in Pathways |-> "absent"]]

Command == [full : BOOLEAN, dryRun : BOOLEAN, chains : SUBSET Chains]

NoCommand == [full |-> FALSE, dryRun |-> FALSE, chains |-> {}]

\* A script with the addresses it read from .env when it was spawned: those
\* of the contract it works on and, in a wire script, of the peer it sets.
Script == [step : Parts \cup {"wire"}, to : Chains, at : Addresses, peer : Addresses]

Idle == [status |-> "idle"]
Task == {Idle} \cup [status : {"spawned", "created", "found"}, script : Script, address : Addresses]

Init ==
    /\ file = DefaultState
    /\ env = [chain \in Chains |-> [part \in Parts |-> 0]]
    /\ contracts = [chain \in Chains |-> [part \in Parts |-> 0]]
    /\ initialized = {}
    /\ peers = [pathway \in Pathways |-> [at \in Addresses |-> 0]]
    /\ phase = "idle"
    /\ command = NoCommand
    /\ tasks = [chain \in Chains |-> Idle]
    /\ todo = {}
    /\ orphans = {}

-----------------------------------------------------------------------------
(* Scripts *)

\* Sui publishes what .env does not name yet; nothing else is skipped.
SkippedScript(chain, step) ==
    chain = "sui" /\ step \in {"base", "oft"} /\ env[chain][step] # 0

\* The contract of .env that a script needs: the Sui initialization the
\* packages, the TON adapter the jetton, wiring the OFT (on Sui the object
\* that the initialization made).
WorksOn(e, chain, step) ==
    CASE <<chain, step>> = <<"sui", "init">> -> IF e[chain]["base"] = 0 THEN 0 ELSE e[chain]["oft"]
      [] <<chain, step>> = <<"ton", "oft">>  -> e[chain]["base"]
      [] <<chain, step>> = <<"sui", "wire">> -> IF e[chain]["init"] = 0 THEN 0 ELSE e[chain]["oft"]
      [] step = "wire" -> e[chain]["oft"]
      [] OTHER -> 0

DeployScript(e, chain, step) ==
    [step |-> step, to |-> chain, at |-> WorksOn(e, chain, step), peer |-> 0]

WireScript(src, dst) ==
    [step |-> "wire", to |-> dst, at |-> WorksOn(env, src, "wire"), peer |-> env[dst]["oft"]]

\* A script that misses an address in .env throws before it does anything.
HasAddresses(chain, script) ==
    /\ script.step = "wire" => script.at # 0 /\ script.peer # 0
    /\ <<chain, script.step>> \in {<<"sui", "init">>, <<"ton", "oft">>} => script.at # 0

\* Contracts that their script finds again: by hardhat-deploy's records, the
\* program's keypair, or the address that the code of the TON contracts gives.
Deterministic(chain, step) ==
    <<chain, step>> \in {<<"arbitrum", "oft">>, <<"solana", "base">>,
                         <<"ton", "base">>, <<"ton", "oft">>}

Exists(chain, script) ==
    Deterministic(chain, script.step) /\ contracts[chain][script.step] = 1

\* The transaction of a script is executed: a peer is set, a ticket is spent,
\* or a contract created, with a random salt or key unless it is determined.
Lands(chain, script) ==
    /\ HasAddresses(chain, script)
    /\ ~ Exists(chain, script)
    /\ CASE script.step = "wire" ->
              /\ peers' = [peers EXCEPT ![<<chain, script.to>>][script.at] = script.peer]
              /\ UNCHANGED <<contracts, initialized>>
         [] script.step = "init" ->
              /\ script.at \notin initialized
              /\ initialized' = initialized \cup {script.at}
              /\ UNCHANGED <<contracts, peers>>
         [] OTHER ->
              /\ contracts[chain][script.step] < MaxContracts[chain]
              /\ contracts' = [contracts EXCEPT ![chain][script.step] = @ + 1]
              /\ UNCHANGED <<initialized, peers>>

Running(chain) == tasks[chain] # Idle

\* The address that a script prints: of the contract it created or found, but
\* the scripts of TON print nothing when they find their contract.
Tag(chain) ==
    IF chain = "ton" /\ tasks[chain].status = "found" THEN 0 ELSE tasks[chain].address

Spawned(script) == [status |-> "spawned", script |-> script, address |-> 0]

\* The first script of a chain from the i-th on that is not skipped.
RemainingScripts(chain, i) ==
    {j \in i .. Len(Scripts(chain)) : ~ SkippedScript(chain, Scripts(chain)[j])}

First(S) == CHOOSE i \in S : \A j \in S : i <= j

FirstScript(chain) ==
    DeployScript(env, chain, Scripts(chain)[First(RemainingScripts(chain, 1))])

Position(chain, step) == CHOOSE i \in DOMAIN Scripts(chain) : Scripts(chain)[i] = step

\* The script of a chain gets on with its work.
ScriptLands(chain) ==
    /\ Running(chain)
    /\ tasks[chain].status = "spawned"
    /\ Lands(chain, tasks[chain].script)
    /\ tasks' = [tasks EXCEPT ![chain].status = "created",
                              ![chain].address =
                                  CASE tasks[chain].script.step = "wire" -> 0
                                    [] tasks[chain].script.step = "init" -> tasks[chain].script.at
                                    [] OTHER -> contracts'[chain][tasks[chain].script.step]]
    /\ UNCHANGED <<file, env, phase, command, todo, orphans>>

ScriptFinds(chain) ==
    /\ Running(chain)
    /\ tasks[chain].status = "spawned"
    /\ HasAddresses(chain, tasks[chain].script)
    /\ Exists(chain, tasks[chain].script)
    /\ tasks' = [tasks EXCEPT ![chain].status = "found", ![chain].address = 1]
    /\ UNCHANGED <<file, env, onChain, phase, command, todo, orphans>>

OrphanLands(chain, script) ==
    /\ Lands(chain, script)
    /\ orphans' = orphans \ {<<chain, script>>}
    /\ UNCHANGED <<file, env, phase, command, tasks, todo>>

\* The scripts of some chains lose the process: each is killed with its shell
\* or goes on (bound: MaxOrphans of them at a time).
LoseScripts(chains) ==
    LET lost == {<<chain, tasks[chain].script>> :
                    chain \in {c \in chains : Running(c) /\ tasks[c].status = "spawned"}}
    IN  \E survivors \in SUBSET lost :
            /\ Cardinality(orphans \cup survivors) <= MaxOrphans
            /\ orphans' = orphans \cup survivors

\* Bound: a contract is not lost when it is the last that can be created.
CanLose(chain) ==
    tasks[chain].status = "created" /\ tasks[chain].script.step \in {"base", "oft"} =>
        contracts[chain][tasks[chain].script.step] < MaxContracts[chain]

-----------------------------------------------------------------------------
(* deployAll *)

Exits == phase' = "idle" /\ command' = NoCommand

DeployEnds == IF command.full THEN phase' = "startWire" /\ UNCHANGED command ELSE Exits

RunDeploy(chains, dryRun, full, reset) ==
    /\ phase = "idle"
    /\ dryRun => DryRuns
    /\ file' = IF full /\ reset THEN DefaultState ELSE file
    /\ phase' = "startDeploy"
    /\ command' = [full |-> full, dryRun |-> dryRun, chains |-> chains]
    /\ UNCHANGED <<env, onChain, tasks, todo, orphans>>

PreflightFails ==
    /\ phase = "startDeploy"
    /\ ~ command.dryRun
    /\ Exits
    /\ UNCHANGED <<file, env, onChain, tasks, todo, orphans>>

Pending(chain) == file.deploy[chain] # "complete"

RecordAll(chains, status) ==
    [file EXCEPT !.deploy = [chain \in Chains |-> IF chain \in chains THEN status ELSE @[chain]]]

\* Every task runs as far as its first script before any other event.
StartDeploy ==
    /\ phase = "startDeploy"
    /\ LET pending == {chain \in command.chains : Pending(chain)}
       IN  IF command.dryRun \/ pending = {}
           THEN /\ file' = RecordAll(pending, "skipped")
                /\ DeployEnds
                /\ UNCHANGED tasks
           ELSE /\ file' = RecordAll(pending, "running")
                /\ tasks' = [chain \in Chains |-> IF chain \in pending
                                                  THEN Spawned(FirstScript(chain)) ELSE Idle]
                /\ phase' = "deploy"
                /\ UNCHANGED command
    /\ UNCHANGED <<env, onChain, todo, orphans>>

\* A script exits with 0: its tag goes to .env, and the task to the next
\* script or to its end.
DeployScriptSucceeds(chain) ==
    /\ phase = "deploy" /\ Running(chain)
    /\ tasks[chain].status \in {"created", "found"}
    /\ LET step == tasks[chain].script.step
           next == RemainingScripts(chain, Position(chain, step) + 1)
           captured == IF Tag(chain) = 0 THEN env ELSE [env EXCEPT ![chain][step] = Tag(chain)]
       IN  /\ env' = captured
           /\ IF next = {}
              THEN /\ file' = [file EXCEPT !.deploy[chain] = "complete"]
                   /\ tasks' = [tasks EXCEPT ![chain] = Idle]
              ELSE /\ tasks' = [tasks EXCEPT ![chain] =
                                   Spawned(DeployScript(captured, chain, Scripts(chain)[First(next)]))]
                   /\ UNCHANGED file
    /\ UNCHANGED <<onChain, phase, command, todo, orphans>>

\* The scripts of TON exit with 0, and without a tag, when the contract that
\* they deployed is not active after 120 seconds.
TonScriptUnconfirmed ==
    /\ phase = "deploy" /\ "ton" \in Chains /\ Running("ton")
    /\ tasks["ton"].status = "spawned"
    /\ HasAddresses("ton", tasks["ton"].script)
    /\ LoseScripts({"ton"})
    /\ IF tasks["ton"].script.step = "oft"
       THEN /\ file' = [file EXCEPT !.deploy["ton"] = "complete"]
            /\ tasks' = [tasks EXCEPT !["ton"] = Idle]
       ELSE /\ tasks' = [tasks EXCEPT !["ton"] = Spawned(DeployScript(env, "ton", "oft"))]
            /\ UNCHANGED file
    /\ UNCHANGED <<env, onChain, phase, command, todo>>

\* Mutant: a script that the runner gave up counts as deployed.
FailureIsCompletion(chain) ==
    /\ phase = "deploy" /\ Running(chain) /\ CanLose(chain)
    /\ file' = [file EXCEPT !.deploy[chain] = "complete"]
    /\ tasks' = [tasks EXCEPT ![chain] = Idle]
    /\ UNCHANGED <<env, onChain, phase, command, todo, orphans>>

DeployScriptFails(chain) ==
    /\ phase = "deploy" /\ Running(chain) /\ CanLose(chain)
    /\ file' = [file EXCEPT !.deploy[chain] = "failed"]
    /\ tasks' = [tasks EXCEPT ![chain] = Idle]
    /\ UNCHANGED <<env, onChain, phase, command, todo, orphans>>

\* The runner kills the shell of the script and throws; nobody records it.
DeployScriptTimesOut(chain) ==
    /\ phase = "deploy" /\ Running(chain) /\ CanLose(chain)
    /\ tasks' = [tasks EXCEPT ![chain] = Idle]
    /\ LoseScripts({chain})
    /\ UNCHANGED <<file, env, onChain, phase, command, todo>>

DeploySettles ==
    /\ phase = "deploy"
    /\ \A chain \in Chains : ~ Running(chain)
    /\ DeployEnds
    /\ UNCHANGED <<file, env, onChain, tasks, todo, orphans>>

-----------------------------------------------------------------------------
(* wireAll *)

RunWire(chains, dryRun) ==
    /\ phase = "idle"
    /\ dryRun => DryRuns
    /\ phase' = "startWire"
    /\ command' = [full |-> FALSE, dryRun |-> dryRun, chains |-> chains]
    /\ UNCHANGED <<file, env, onChain, tasks, todo, orphans>>

Selected == {pathway \in Pathways : {pathway[1], pathway[2]} \subseteq command.chains}

StartWire ==
    /\ phase = "startWire"
    /\ todo' = Selected
    /\ phase' = "wire"
    /\ UNCHANGED <<file, env, onChain, command, tasks, orphans>>

Wired(pathway) == file.wire[pathway] = "complete"

LaneSkips(pathway) ==
    /\ phase = "wire" /\ pathway \in todo
    /\ ~ Running(pathway[1])
    /\ Wired(pathway) \/ command.dryRun
    /\ file' = IF Wired(pathway) THEN file ELSE [file EXCEPT !.wire[pathway] = "skipped"]
    /\ todo' = todo \ {pathway}
    /\ UNCHANGED <<env, onChain, phase, command, tasks, orphans>>

\* Mutant: the status is recorded for the way back.
LaneStartsReversed(pathway) ==
    /\ phase = "wire" /\ pathway \in todo
    /\ ~ Running(pathway[1])
    /\ ~ Wired(pathway) /\ ~ command.dryRun
    /\ file' = [file EXCEPT !.wire[<<pathway[2], pathway[1]>>] = "running"]
    /\ tasks' = [tasks EXCEPT ![pathway[1]] = Spawned(WireScript(pathway[1], pathway[2]))]
    /\ todo' = todo \ {pathway}
    /\ UNCHANGED <<env, onChain, phase, command, orphans>>

LaneStarts(pathway) ==
    /\ phase = "wire" /\ pathway \in todo
    /\ ~ Running(pathway[1])
    /\ ~ Wired(pathway) /\ ~ command.dryRun
    /\ file' = [file EXCEPT !.wire[pathway] = "running"]
    /\ tasks' = [tasks EXCEPT ![pathway[1]] = Spawned(WireScript(pathway[1], pathway[2]))]
    /\ todo' = todo \ {pathway}
    /\ UNCHANGED <<env, onChain, phase, command, orphans>>

LaneEnds(chain, status) ==
    /\ phase = "wire" /\ Running(chain)
    /\ file' = [file EXCEPT !.wire[<<chain, tasks[chain].script.to>>] = status]
    /\ tasks' = [tasks EXCEPT ![chain] = Idle]
    /\ UNCHANGED <<env, onChain, phase, command, todo>>

WireScriptSucceeds(chain) ==
    /\ Running(chain) /\ tasks[chain].status = "created"
    /\ LaneEnds(chain, "complete")
    /\ UNCHANGED orphans

\* The wire script of Sui catches the failure of setPeer, that of TON does not
\* look whether its message was confirmed: both exit with 0.
WireScriptUnconfirmed(chain) ==
    /\ chain \in {"sui", "ton"} /\ Running(chain)
    /\ tasks[chain].status = "spawned"
    /\ HasAddresses(chain, tasks[chain].script)
    /\ LaneEnds(chain, "complete")
    /\ LoseScripts({chain})

WireScriptFails(chain) == LaneEnds(chain, "failed") /\ UNCHANGED orphans

WireScriptTimesOut(chain) == LaneEnds(chain, "failed") /\ LoseScripts({chain})

WireSettles ==
    /\ phase = "wire"
    /\ todo = {}
    /\ \A chain \in Chains : ~ Running(chain)
    /\ Exits
    /\ UNCHANGED <<file, env, onChain, tasks, todo, orphans>>

-----------------------------------------------------------------------------

\* The process is interrupted; its scripts lose whom they report to.
Crash ==
    /\ phase # "idle"
    /\ \A chain \in Chains : Running(chain) => CanLose(chain)
    /\ Exits
    /\ tasks' = [chain \in Chains |-> Idle]
    /\ todo' = {}
    /\ LoseScripts(Chains)
    /\ UNCHANGED <<file, env, onChain>>

Next ==
    \/ \E chains \in Selections, dryRun, full, reset \in BOOLEAN : RunDeploy(chains, dryRun, full, reset)
    \/ \E chains \in Selections, dryRun \in BOOLEAN : RunWire(chains, dryRun)
    \/ PreflightFails
    \/ StartDeploy
    \/ \E chain \in Chains : DeployScriptSucceeds(chain)
    \/ TonScriptUnconfirmed
    \/ \E chain \in Chains : DeployScriptFails(chain)
    \/ \E chain \in Chains : DeployScriptTimesOut(chain)
    \/ DeploySettles
    \/ StartWire
    \/ \E pathway \in Pathways : LaneSkips(pathway)
    \/ \E pathway \in Pathways : LaneStarts(pathway)
    \/ \E chain \in Chains : WireScriptSucceeds(chain)
    \/ \E chain \in Chains : WireScriptUnconfirmed(chain)
    \/ \E chain \in Chains : WireScriptFails(chain)
    \/ \E chain \in Chains : WireScriptTimesOut(chain)
    \/ WireSettles
    \/ \E chain \in Chains : ScriptLands(chain) \/ ScriptFinds(chain)
    \/ \E orphan \in orphans : OrphanLands(orphan[1], orphan[2])
    \/ Crash

Spec == Init /\ [][Next]_vars

\* The operator repeats `full`, every script ends or is given up, and one that
\* can succeed again and again does in the end.
Retries ==
    /\ SF_vars(RunDeploy(Chains, FALSE, TRUE, FALSE))
    /\ SF_vars(StartDeploy)
    /\ \A chain \in Chains :
        SF_vars(ScriptLands(chain)) /\ SF_vars(ScriptFinds(chain)) /\ SF_vars(DeployScriptSucceeds(chain))
    /\ WF_vars(DeploySettles) /\ WF_vars(StartWire) /\ WF_vars(WireSettles)
    /\ \A pathway \in Pathways : WF_vars(LaneSkips(pathway)) /\ WF_vars(LaneStarts(pathway))
    /\ \A chain \in Chains :
        /\ WF_vars(DeployScriptSucceeds(chain) \/ DeployScriptFails(chain) \/ DeployScriptTimesOut(chain))
        /\ WF_vars(WireScriptSucceeds(chain) \/ WireScriptFails(chain) \/ WireScriptTimesOut(chain))

FairSpec == Spec /\ Retries

-----------------------------------------------------------------------------
(* Properties *)

\* The variables have their types.
TypeOK ==
    /\ file \in State
    /\ env \in [Chains -> [Parts -> Addresses]]
    /\ contracts \in [Chains -> [Parts -> Addresses]]
    /\ initialized \in SUBSET Addresses
    /\ peers \in [Pathways -> [Addresses -> Addresses]]
    /\ phase \in {"idle", "startDeploy", "deploy", "startWire", "wire"}
    /\ command \in Command
    /\ tasks \in [Chains -> Task]
    /\ todo \in SUBSET Pathways
    /\ orphans \in SUBSET (Chains \X Script)

\* What deployAll skips is really there: a chain recorded complete (except
\* TON, whose scripts exit with 0 unconfirmed) has its OFT in .env, the OFT
\* exists, and on Sui it is the package whose initialization was captured,
\* however many runs failed, timed out or were interrupted on the way.
CompleteIsDeployed ==
    \A chain \in Chains \ {"ton"} : file.deploy[chain] = "complete" =>
        /\ env[chain]["oft"] \in 1 .. contracts[chain]["oft"]
        /\ chain = "sui" => /\ env[chain]["init"] = env[chain]["oft"]
                            /\ env[chain]["oft"] \in initialized

\* The contracts of a pathway hold each other's address of .env.
Current(pathway) ==
    /\ env[pathway[1]]["oft"] # 0 /\ env[pathway[2]]["oft"] # 0
    /\ peers[pathway][env[pathway[1]]["oft"]] = env[pathway[2]]["oft"]

Deployed(pathway) == \A i \in {1, 2} : file.deploy[pathway[i]] = "complete"

Settled(pathway) == Wired(pathway) /\ Deployed(pathway) /\ Current(pathway)

\* Resuming undoes nothing: a pathway that is recorded complete between chains
\* that are recorded complete, and that is current, stays so in every step of
\* every command but --reset; only a script that outlived its process can
\* still overwrite a peer with the address of its time.
SettledStaysSettled ==
    [][\A pathway \in Pathways : Settled(pathway) =>
          \/ Settled(pathway)'
          \/ file' = DefaultState
          \/ peers' # peers /\ orphans' # orphans]_vars

\* What the two rest on. Scripts of deploy run for chains that are recorded
\* running, scripts of wire for pathways that are ...
TaskFitsPhase(chain) ==
    Running(chain) =>
        LET script == tasks[chain].script IN
        \/ /\ phase = "deploy" /\ file.deploy[chain] = "running"
           /\ \E i \in DOMAIN Scripts(chain) : script.step = Scripts(chain)[i]
        \/ /\ phase = "wire" /\ script.step = "wire"
           /\ <<chain, script.to>> \in Pathways /\ file.wire[<<chain, script.to>>] = "running"

\* ... what a script created is there, and on Sui a package is only published
\* while .env has none and only the package of .env is initialized ...
TaskIsTrue(chain) ==
    Running(chain) =>
        LET task == tasks[chain]
            step == tasks[chain].script.step
        IN  /\ step \in {"base", "oft"} /\ task.status # "spawned" =>
                   task.address \in 1 .. contracts[chain][step]
            /\ chain = "sui" /\ step \in {"base", "oft"} => env[chain][step] = 0
            /\ chain = "sui" /\ step = "init" =>
                   /\ task.script.at # 0 => task.script.at = env[chain]["oft"]
                   /\ task.status # "spawned" =>
                          /\ task.address = task.script.at /\ task.address # 0
                          /\ task.address \in initialized

\* ... and so is what .env names.
EnvIsTrue(chain) ==
    /\ \A part \in {"base", "oft"} : env[chain][part] <= contracts[chain][part]
    /\ chain = "sui" /\ env[chain]["init"] # 0 =>
           env[chain]["init"] = env[chain]["oft"] /\ env[chain]["init"] \in initialized

IInv ==
    /\ TypeOK /\ CompleteIsDeployed
    /\ \A chain \in Chains : TaskFitsPhase(chain) /\ TaskIsTrue(chain) /\ EnvIsTrue(chain)

\* deploy.ts: "Re-run `npx tsx toolkit/oft.ts deploy` to retry failed chains."
\* A chain is deployed after enough retries.
RetryCompletes == \A chain \in Chains : <>(file.deploy[chain] = "complete")
=============================================================================
