-------------------------- MODULE OrchestratorProofs --------------------------
(***************************************************************************)
(* Proofs about Orchestrator, for any set of chains, selections and bounds: *)
(* IInv is an inductive invariant, from which follow what is recorded       *)
(* complete is deployed, and that a settled pathway stays settled.          *)
(***************************************************************************)
EXTENDS Orchestrator, TLAPS

LEMMA AddressFacts ==
    /\ Addresses \subseteq Nat
    /\ \A chain \in Chains : 0 .. MaxContracts[chain] \subseteq Addresses
    /\ \A chain \in Chains : 0 \in Addresses /\ 1 \in Addresses
  <1>1. \A chain \in Chains : MaxContracts[chain] \in Nat \ {0}
    BY OrchestratorAssumption
  <1>2. \A chain \in Chains : 0 .. MaxContracts[chain] \subseteq Addresses
    BY DEF Addresses
  <1>3. Addresses \subseteq Nat
    BY <1>1 DEF Addresses
  <1> QED
    BY <1>1, <1>2, <1>3

LEMMA ScriptsShape ==
    ASSUME NEW chain \in Chains
    PROVE  /\ Len(Scripts(chain)) \in 1 .. 3
           /\ DOMAIN Scripts(chain) = 1 .. Len(Scripts(chain))
           /\ \A i \in DOMAIN Scripts(chain) : Scripts(chain)[i] \in Parts
           /\ \A i, j \in DOMAIN Scripts(chain) :
                 Scripts(chain)[i] = Scripts(chain)[j] => i = j
           /\ Scripts(chain)[Len(Scripts(chain))] = IF chain = "sui" THEN "init" ELSE "oft"
  <1>1. chain \in AllChains
    BY OrchestratorAssumption
  <1>2. CASE chain \in {"arbitrum", "starknet"}
    <2>1. Scripts(chain) = <<"oft">>
      BY <1>2 DEF Scripts
    <2>2. Len(Scripts(chain)) = 1 /\ Scripts(chain)[1] = "oft" /\ DOMAIN Scripts(chain) = 1 .. 1
      BY <2>1
    <2> QED
      BY <1>2, <2>2 DEF Parts
  <1>3. CASE chain \in {"solana", "ton"}
    <2>1. Scripts(chain) = <<"base", "oft">>
      BY <1>3 DEF Scripts
    <2>2. Len(Scripts(chain)) = 2 /\ Scripts(chain)[1] = "base" /\ Scripts(chain)[2] = "oft"
          /\ DOMAIN Scripts(chain) = 1 .. 2
      BY <2>1
    <2> QED
      BY <1>3, <2>2 DEF Parts
  <1>4. CASE chain = "sui"
    <2>1. Scripts(chain) = <<"base", "oft", "init">>
      BY <1>4 DEF Scripts
    <2>2. Len(Scripts(chain)) = 3 /\ Scripts(chain)[1] = "base" /\ Scripts(chain)[2] = "oft"
          /\ Scripts(chain)[3] = "init" /\ DOMAIN Scripts(chain) = 1 .. 3
      BY <2>1
    <2> QED
      BY <1>4, <2>2 DEF Parts
  <1> QED
    BY <1>1, <1>2, <1>3, <1>4 DEF AllChains

LEMMA FirstIsLeast ==
    ASSUME NEW S \in SUBSET (1 .. 3), S # {}
    PROVE  First(S) \in S
  <1>1. \E i \in S : \A j \in S : i <= j
    <2>1. \A i \in S : i \in {1, 2, 3}
      OBVIOUS
    <2>2. PICK x \in S : TRUE
      OBVIOUS
    <2>3. CASE 1 \in S
      BY <2>1, <2>3
    <2>4. CASE 1 \notin S /\ 2 \in S
      BY <2>1, <2>4
    <2>5. CASE 1 \notin S /\ 2 \notin S
      <3>1. 3 \in S
        BY <2>1, <2>2, <2>5
      <3>2. \A j \in S : j = 3
        BY <2>1, <2>5
      <3> QED
        BY <3>1, <3>2
    <2> QED
      BY <2>3, <2>4, <2>5
  <1> QED
    BY <1>1 DEF First

\* The scripts that remain after the i-th: none only after the last.
LEMMA RemainingFacts ==
    ASSUME NEW chain \in Chains, NEW i \in 1 .. Len(Scripts(chain)) + 1
    PROVE  /\ RemainingScripts(chain, i) = {} => i = Len(Scripts(chain)) + 1
           /\ RemainingScripts(chain, i) # {} =>
                 /\ First(RemainingScripts(chain, i)) \in i .. Len(Scripts(chain))
                 /\ ~ SkippedScript(chain, Scripts(chain)[First(RemainingScripts(chain, i))])
  <1>1. /\ Len(Scripts(chain)) \in 1 .. 3
        /\ ~ SkippedScript(chain, Scripts(chain)[Len(Scripts(chain))])
    BY ScriptsShape DEF SkippedScript
  <1>2. RemainingScripts(chain, i) \in SUBSET (1 .. 3)
    BY <1>1 DEF RemainingScripts
  <1>3. RemainingScripts(chain, i) # {} =>
           First(RemainingScripts(chain, i)) \in RemainingScripts(chain, i)
    BY <1>2, FirstIsLeast
  <1> QED
    BY <1>1, <1>3 DEF RemainingScripts

\* A deploy script that is spawned.
LEMMA SpawnFacts ==
    ASSUME NEW e \in [Chains -> [Parts -> Addresses]], NEW chain \in Chains, NEW step \in Parts
    PROVE  /\ DeployScript(e, chain, step) \in Script
           /\ Spawned(DeployScript(e, chain, step)) \in Task
           /\ Spawned(DeployScript(e, chain, step)) # Idle
           /\ Spawned(DeployScript(e, chain, step)).status = "spawned"
           /\ Spawned(DeployScript(e, chain, step)).script = DeployScript(e, chain, step)
           /\ DeployScript(e, chain, step).step = step
           /\ chain = "sui" /\ step = "init" =>
                 DeployScript(e, chain, step).at \in {0, e[chain]["oft"]}
  <1>1. 0 \in Addresses
    BY AddressFacts
  <1>2. WorksOn(e, chain, step) \in {0, e[chain]["base"], e[chain]["oft"]}
    BY DEF WorksOn, Parts
  <1>3. e[chain]["base"] \in Addresses /\ e[chain]["oft"] \in Addresses
    BY DEF Parts
  <1>4. DeployScript(e, chain, step) \in Script
    BY <1>1, <1>2, <1>3 DEF DeployScript, Script
  <1>5. chain = "sui" /\ step = "init" => WorksOn(e, chain, step) \in {0, e[chain]["oft"]}
    BY DEF WorksOn
  <1>6. DeployScript(e, chain, step).step = step
        /\ DeployScript(e, chain, step).at = WorksOn(e, chain, step)
    BY DEF DeployScript
  <1> HIDE DEF DeployScript
  <1>7. Spawned(DeployScript(e, chain, step)) \in Task
    BY <1>1, <1>4 DEF Spawned, Task
  <1>8. /\ Spawned(DeployScript(e, chain, step)) # Idle
        /\ Spawned(DeployScript(e, chain, step)).status = "spawned"
        /\ Spawned(DeployScript(e, chain, step)).script = DeployScript(e, chain, step)
    BY DEF Spawned, Idle
  <1> QED
    BY <1>4, <1>5, <1>6, <1>7, <1>8

LEMMA RunningTask ==
    ASSUME TypeOK, NEW chain \in Chains, Running(chain)
    PROVE  /\ tasks[chain] \in [status : {"spawned", "created", "found"},
                                script : Script, address : Addresses]
           /\ tasks[chain].status \in {"spawned", "created", "found"}
           /\ tasks[chain].script \in Script /\ tasks[chain].address \in Addresses
           /\ tasks[chain].script.step \in Parts \cup {"wire"}
           /\ tasks[chain].script.to \in Chains
           /\ tasks[chain].script.at \in Addresses /\ tasks[chain].script.peer \in Addresses
  <1>1. tasks[chain] \in [status : {"spawned", "created", "found"},
                          script : Script, address : Addresses]
    BY DEF TypeOK, Running, Task
  <1> QED
    BY <1>1 DEF Script

-----------------------------------------------------------------------------
(* What a step leaves alone                                                *)

ContractTypes ==
    /\ contracts \in [Chains -> [Parts -> Addresses]]
    /\ initialized \in SUBSET Addresses
    /\ peers \in [Pathways -> [Addresses -> Addresses]]

\* Contracts are created and packages initialized, and stay.
Grows ==
    /\ \A chain \in Chains, part \in Parts : contracts[chain][part] <= contracts'[chain][part]
    /\ initialized \subseteq initialized'

LEMMA AddressesAreNumbers ==
    ASSUME NEW f \in [Chains -> [Parts -> Addresses]], NEW chain \in Chains
    PROVE  /\ \A part \in Parts : f[chain][part] \in Nat
           /\ f[chain]["base"] \in Nat /\ f[chain]["oft"] \in Nat
  <1>1. \A part \in Parts : f[chain][part] \in Addresses
    OBVIOUS
  <1>2. \A part \in Parts : f[chain][part] \in Nat
    BY <1>1, AddressFacts
  <1> QED
    BY <1>2 DEF Parts

LEMMA UnchangedGrows ==
    ASSUME TypeOK, UNCHANGED onChain
    PROVE  Grows /\ ContractTypes'
  <1>1. \A chain \in Chains, part \in Parts : contracts[chain][part] \in Nat
    BY AddressesAreNumbers DEF TypeOK
  <1> QED
    BY <1>1 DEF Grows, ContractTypes, TypeOK, onChain

LEMMA LandsFacts ==
    ASSUME TypeOK, NEW chain \in Chains, NEW script \in Script, Lands(chain, script)
    PROVE  /\ Grows /\ ContractTypes'
           /\ script.step \in {"base", "oft"} => contracts'[chain][script.step] \in Nat \ {0}
           /\ script.step = "init" => script.at \in initialized' /\ (chain = "sui" => script.at # 0)
           /\ script.step # "wire" => UNCHANGED peers
           /\ \A pathway \in Pathways \ {<<chain, script.to>>} : peers'[pathway] = peers[pathway]
  <1>1. /\ contracts \in [Chains -> [Parts -> Addresses]] /\ Addresses \subseteq Nat
        /\ initialized \in SUBSET Addresses
        /\ peers \in [Pathways -> [Addresses -> Addresses]]
        /\ \A c \in Chains, part \in Parts : contracts[c][part] \in Nat
    BY AddressFacts, AddressesAreNumbers DEF TypeOK
  <1>2. /\ script.step \in Parts \cup {"wire"} /\ script.to \in Chains
        /\ script.at \in Addresses /\ script.peer \in Addresses
    BY DEF Script
  <1>3. CASE script.step = "wire"
    <2>1. /\ peers' = [peers EXCEPT ![<<chain, script.to>>][script.at] = script.peer]
          /\ UNCHANGED <<contracts, initialized>>
      BY <1>3 DEF Lands
    <2>2. peers' \in [Pathways -> [Addresses -> Addresses]]
      BY <1>1, <1>2, <2>1
    <2>3. \A pathway \in Pathways \ {<<chain, script.to>>} : peers'[pathway] = peers[pathway]
      BY <1>1, <2>1
    <2>4. Grows
      BY <1>1, <2>1 DEF Grows
    <2> QED
      BY <1>1, <1>3, <2>1, <2>2, <2>3, <2>4 DEF ContractTypes
  <1>4. CASE script.step = "init"
    <2>1. /\ initialized' = initialized \cup {script.at}
          /\ UNCHANGED <<contracts, peers>>
      BY <1>4 DEF Lands
    <2>2. chain = "sui" => script.at # 0
      BY <1>4 DEF Lands, HasAddresses
    <2>3. Grows
      BY <1>1, <2>1 DEF Grows
    <2> QED
      BY <1>1, <1>2, <1>4, <2>1, <2>2, <2>3 DEF ContractTypes
  <1>5. CASE script.step \in {"base", "oft"}
    <2>1. /\ contracts[chain][script.step] < MaxContracts[chain]
          /\ contracts' = [contracts EXCEPT ![chain][script.step] = @ + 1]
          /\ UNCHANGED <<initialized, peers>>
      BY <1>5 DEF Lands
    <2>2. /\ contracts[chain][script.step] \in Nat /\ MaxContracts[chain] \in Nat
          /\ script.step \in Parts
      <3>1. MaxContracts[chain] \in Nat
        BY OrchestratorAssumption
      <3>2. script.step \in Parts
        BY <1>5 DEF Parts
      <3> QED
        BY <1>1, <3>1, <3>2
    <2>3. contracts[chain][script.step] + 1 \in 0 .. MaxContracts[chain]
      BY <2>1, <2>2
    <2>4. contracts[chain][script.step] + 1 \in Addresses
      BY <2>3, AddressFacts
    <2>5. contracts' \in [Chains -> [Parts -> Addresses]]
      BY <1>1, <2>1, <2>2, <2>4
    <2>6. /\ contracts'[chain][script.step] = contracts[chain][script.step] + 1
          /\ \A c \in Chains, part \in Parts :
                c # chain \/ part # script.step => contracts'[c][part] = contracts[c][part]
      BY <1>1, <2>1, <2>2
    <2>7. \A c \in Chains, part \in Parts : contracts[c][part] <= contracts'[c][part]
      <3> SUFFICES ASSUME NEW c \in Chains, NEW part \in Parts
                   PROVE  contracts[c][part] <= contracts'[c][part]
        OBVIOUS
      <3>1. contracts[c][part] \in Nat
        BY <1>1
      <3> QED
        BY <2>2, <2>6, <3>1
    <2> QED
      BY <1>1, <1>5, <2>1, <2>2, <2>5, <2>6, <2>7 DEF Grows, ContractTypes
  <1> QED
    BY <1>2, <1>3, <1>4, <1>5 DEF Parts

LEMMA EnvFrame ==
    ASSUME TypeOK, NEW chain \in Chains, EnvIsTrue(chain),
           env'[chain] = env[chain], Grows, ContractTypes'
    PROVE  EnvIsTrue(chain)'
  <1>1. /\ contracts[chain]["base"] <= contracts'[chain]["base"]
        /\ contracts[chain]["oft"] <= contracts'[chain]["oft"]
        /\ initialized \subseteq initialized'
    BY DEF Grows, Parts
  <1>2. /\ contracts[chain]["base"] \in Nat /\ contracts[chain]["oft"] \in Nat
        /\ contracts'[chain]["base"] \in Nat /\ contracts'[chain]["oft"] \in Nat
        /\ env[chain]["base"] \in Nat /\ env[chain]["oft"] \in Nat
    BY AddressesAreNumbers DEF TypeOK, ContractTypes
  <1> QED
    BY <1>1, <1>2 DEF EnvIsTrue

LEMMA TaskFrame ==
    ASSUME TypeOK, NEW chain \in Chains, TaskIsTrue(chain), tasks'[chain] = tasks[chain],
           env'[chain] = env[chain], Grows, ContractTypes'
    PROVE  TaskIsTrue(chain)'
  <1>1. /\ contracts[chain]["base"] <= contracts'[chain]["base"]
        /\ contracts[chain]["oft"] <= contracts'[chain]["oft"]
        /\ initialized \subseteq initialized'
    BY DEF Grows, Parts
  <1>2. /\ contracts[chain]["base"] \in Nat /\ contracts[chain]["oft"] \in Nat
        /\ contracts'[chain]["base"] \in Nat /\ contracts'[chain]["oft"] \in Nat
    BY AddressesAreNumbers DEF TypeOK, ContractTypes
  <1>3. Running(chain) => tasks[chain].address \in Nat
    BY RunningTask, AddressFacts
  <1> QED
    BY <1>1, <1>2, <1>3 DEF TaskIsTrue, Running

LEMMA IdleFrame ==
    ASSUME NEW chain, tasks'[chain] = Idle
    PROVE  TaskIsTrue(chain)' /\ TaskFitsPhase(chain)'
  BY DEF TaskIsTrue, TaskFitsPhase, Running

LEMMA FitFrame ==
    ASSUME NEW chain \in Chains, TaskFitsPhase(chain), tasks'[chain] = tasks[chain],
           phase' = phase, file'.deploy[chain] = file.deploy[chain],
           \A pathway \in Pathways : pathway[1] = chain => file'.wire[pathway] = file.wire[pathway]
    PROVE  TaskFitsPhase(chain)'
  BY DEF TaskFitsPhase, Running

\* A step that captures no address.
LEMMA QuietStep ==
    ASSUME IInv, TypeOK', env' = env, Grows,
           \A chain \in Chains : tasks'[chain] = tasks[chain] \/ TaskIsTrue(chain)',
           \A chain \in Chains : TaskFitsPhase(chain)',
           \A chain \in Chains \ {"ton"} :
              file'.deploy[chain] = "complete" => file.deploy[chain] = "complete"
    PROVE  IInv'
  <1>1. ContractTypes' /\ TypeOK
    BY DEF TypeOK, ContractTypes, IInv
  <1>2. \A chain \in Chains : EnvIsTrue(chain)' /\ TaskIsTrue(chain)'
    BY <1>1, EnvFrame, TaskFrame DEF IInv
  <1>3. CompleteIsDeployed'
    <2> SUFFICES ASSUME NEW chain \in Chains \ {"ton"}, file.deploy[chain] = "complete"
                 PROVE  /\ env[chain]["oft"] \in 1 .. contracts'[chain]["oft"]
                        /\ chain = "sui" => /\ env[chain]["init"] = env[chain]["oft"]
                                            /\ env[chain]["oft"] \in initialized'
      BY DEF CompleteIsDeployed
    <2>1. /\ contracts[chain]["oft"] <= contracts'[chain]["oft"]
          /\ initialized \subseteq initialized'
      BY DEF Grows, Parts
    <2>2. contracts[chain]["oft"] \in Nat /\ contracts'[chain]["oft"] \in Nat
      BY <1>1, AddressesAreNumbers DEF TypeOK, ContractTypes
    <2> QED
      BY <2>1, <2>2 DEF IInv, CompleteIsDeployed
  <1> QED
    BY <1>2, <1>3 DEF IInv

-----------------------------------------------------------------------------
(* The steps                                                               *)

LEMMA InvComponents ==
    ASSUME IInv
    PROVE  /\ TypeOK /\ CompleteIsDeployed
           /\ \A chain \in Chains : TaskFitsPhase(chain) /\ TaskIsTrue(chain) /\ EnvIsTrue(chain)
  BY DEF IInv

LEMMA FileComponents ==
    ASSUME TypeOK
    PROVE  /\ file.deploy \in [Chains -> Status] /\ file.wire \in [Pathways -> Status]
           /\ file = [deploy |-> file.deploy, wire |-> file.wire]
  BY DEF TypeOK, State

LEMMA LosesScripts ==
    ASSUME TypeOK, NEW chains \in SUBSET Chains, LoseScripts(chains)
    PROVE  orphans' \in SUBSET (Chains \X Script)
  <1>1. \A chain \in chains : Running(chain) => tasks[chain].script \in Script
    BY RunningTask
  <1>2. orphans \in SUBSET (Chains \X Script)
    BY DEF TypeOK
  <1>3. {<<chain, tasks[chain].script>> :
            chain \in {c \in chains : Running(c) /\ tasks[c].status = "spawned"}}
           \in SUBSET (Chains \X Script)
    BY <1>1
  <1> QED
    BY <1>2, <1>3 DEF LoseScripts

\* Between commands, and before their first script, none runs.
LEMMA NoneRuns ==
    ASSUME IInv, phase \notin {"deploy", "wire"}
    PROVE  \A chain \in Chains : ~ Running(chain) /\ tasks[chain] = Idle
  BY DEF IInv, TaskFitsPhase, Running

\* A step without tasks, before and after it, that completes nothing.
LEMMA StepWithoutTasks ==
    ASSUME IInv, UNCHANGED <<env, onChain, tasks, todo, orphans>>,
           \A chain \in Chains : ~ Running(chain),
           file' \in State,
           \A chain \in Chains :
              file'.deploy[chain] = "complete" => file.deploy[chain] = "complete",
           phase' \in {"idle", "startDeploy", "deploy", "startWire", "wire"}, command' \in Command
    PROVE  IInv'
  <1>1. TypeOK /\ TypeOK'
    BY InvComponents DEF TypeOK, onChain
  <1>2. Grows
    BY <1>1, UnchangedGrows
  <1>3. \A chain \in Chains : TaskFitsPhase(chain)'
    BY IdleFrame DEF Running
  <1> QED
    BY <1>1, <1>2, <1>3, QuietStep

LEMMA ExitTypes ==
    ASSUME Exits \/ DeployEnds, command \in Command
    PROVE  /\ phase' \in {"idle", "startDeploy", "deploy", "startWire", "wire"}
           /\ command' \in Command
  <1>1. NoCommand \in Command
    BY DEF NoCommand, Command
  <1> QED
    BY <1>1 DEF Exits, DeployEnds

LEMMA RunDeployStep ==
    ASSUME IInv, NEW chains \in Selections, NEW dryRun \in BOOLEAN, NEW full \in BOOLEAN,
           NEW reset \in BOOLEAN, RunDeploy(chains, dryRun, full, reset)
    PROVE  IInv'
  <1>1. DefaultState \in State /\ \A chain \in Chains : DefaultState.deploy[chain] = "absent"
    BY DEF DefaultState, State, Status
  <1>2. \A chain \in Chains : ~ Running(chain)
    BY NoneRuns DEF RunDeploy
  <1>3. command' \in Command
    BY OrchestratorAssumption DEF RunDeploy, Command
  <1>4. file' = DefaultState \/ file' = file
    BY DEF RunDeploy
  <1>5. file' \in State /\ \A chain \in Chains :
           file'.deploy[chain] = "complete" => file.deploy[chain] = "complete"
    BY <1>1, <1>4, InvComponents DEF TypeOK
  <1> QED
    BY <1>2, <1>3, <1>5, StepWithoutTasks DEF RunDeploy

LEMMA RunWireStep ==
    ASSUME IInv, NEW chains \in Selections, NEW dryRun \in BOOLEAN, RunWire(chains, dryRun)
    PROVE  IInv'
  <1>1. \A chain \in Chains : ~ Running(chain)
    BY NoneRuns DEF RunWire
  <1>2. command' \in Command
    BY OrchestratorAssumption DEF RunWire, Command
  <1> QED
    BY <1>1, <1>2, InvComponents, StepWithoutTasks DEF RunWire, TypeOK

LEMMA EndStep ==
    ASSUME IInv, PreflightFails \/ DeploySettles \/ WireSettles
    PROVE  IInv'
  <1>1. \A chain \in Chains : ~ Running(chain)
    BY NoneRuns DEF PreflightFails, DeploySettles, WireSettles
  <1>2. /\ phase' \in {"idle", "startDeploy", "deploy", "startWire", "wire"}
        /\ command' \in Command
    BY InvComponents, ExitTypes DEF TypeOK, PreflightFails, DeploySettles, WireSettles
  <1> QED
    BY <1>1, <1>2, InvComponents, StepWithoutTasks
       DEF PreflightFails, DeploySettles, WireSettles, TypeOK

LEMMA StutterStep ==
    ASSUME IInv, UNCHANGED vars
    PROVE  IInv'
  <1>1. TypeOK /\ TypeOK'
    BY InvComponents DEF TypeOK, vars
  <1>2. Grows
    BY <1>1, UnchangedGrows DEF vars, onChain
  <1>3. \A chain \in Chains : TaskFitsPhase(chain)'
    BY FitFrame, InvComponents DEF vars
  <1> QED
    BY <1>1, <1>2, <1>3, QuietStep DEF vars

\* A step of a command that only ends scripts, or changes the record of chains
\* and pathways whose scripts it ends.
LEMMA EndingStep ==
    ASSUME IInv, UNCHANGED <<env, onChain>>, file' \in State,
           phase' \in {"idle", "startDeploy", "deploy", "startWire", "wire"}, command' \in Command,
           tasks' \in [Chains -> Task], todo' \in SUBSET Pathways,
           orphans' \in SUBSET (Chains \X Script),
           \A chain \in Chains :
              \/ tasks'[chain] = Idle
              \/ /\ tasks'[chain] = tasks[chain] /\ phase' = phase
                 /\ file'.deploy[chain] = file.deploy[chain]
                 /\ \A pathway \in Pathways :
                       pathway[1] = chain => file'.wire[pathway] = file.wire[pathway],
           \A chain \in Chains \ {"ton"} :
              file'.deploy[chain] = "complete" => file.deploy[chain] = "complete"
    PROVE  IInv'
  <1>1. TypeOK /\ TypeOK'
    BY InvComponents DEF TypeOK, onChain
  <1>2. Grows
    BY <1>1, UnchangedGrows
  <1>3. \A chain \in Chains : TaskFitsPhase(chain)'
    BY FitFrame, IdleFrame, InvComponents
  <1>4. \A chain \in Chains : tasks'[chain] = tasks[chain] \/ TaskIsTrue(chain)'
    BY IdleFrame
  <1> QED
    BY <1>1, <1>2, <1>3, <1>4, QuietStep

LEMMA DeployStatus ==
    ASSUME TypeOK, NEW chain \in Chains, NEW status \in Status,
           file' = [file EXCEPT !.deploy[chain] = status]
    PROVE  /\ file' \in State /\ file'.wire = file.wire /\ file'.deploy[chain] = status
           /\ \A c \in Chains \ {chain} : file'.deploy[c] = file.deploy[c]
  BY FileComponents DEF State

LEMMA WireStatus ==
    ASSUME TypeOK, NEW pathway \in Pathways, NEW status \in Status,
           file' = [file EXCEPT !.wire[pathway] = status]
    PROVE  /\ file' \in State /\ file'.deploy = file.deploy /\ file'.wire[pathway] = status
           /\ \A p \in Pathways \ {pathway} : file'.wire[p] = file.wire[p]
  BY FileComponents DEF State

LEMMA TaskEnds ==
    ASSUME TypeOK, NEW chain \in Chains, tasks' = [tasks EXCEPT ![chain] = Idle]
    PROVE  /\ tasks' \in [Chains -> Task] /\ tasks'[chain] = Idle
           /\ \A c \in Chains \ {chain} : tasks'[c] = tasks[c]
  BY DEF TypeOK, Task

LEMMA DeployScriptFailsStep ==
    ASSUME IInv, NEW chain \in Chains, DeployScriptFails(chain)
    PROVE  IInv'
  <1>1. TypeOK
    BY InvComponents
  <1>2. /\ file' \in State /\ file'.wire = file.wire /\ file'.deploy[chain] = "failed"
        /\ \A c \in Chains \ {chain} : file'.deploy[c] = file.deploy[c]
    BY <1>1, DeployStatus DEF DeployScriptFails, Status
  <1>3. /\ tasks' \in [Chains -> Task] /\ tasks'[chain] = Idle
        /\ \A c \in Chains \ {chain} : tasks'[c] = tasks[c]
    BY <1>1, TaskEnds DEF DeployScriptFails
  <1>4. UNCHANGED <<env, onChain, phase, command, todo, orphans>>
    BY DEF DeployScriptFails
  <1> QED
    BY <1>1, <1>2, <1>3, <1>4, EndingStep DEF TypeOK

LEMMA DeployScriptTimesOutStep ==
    ASSUME IInv, NEW chain \in Chains, DeployScriptTimesOut(chain)
    PROVE  IInv'
  <1>1. TypeOK
    BY InvComponents
  <1>2. /\ tasks' \in [Chains -> Task] /\ tasks'[chain] = Idle
        /\ \A c \in Chains \ {chain} : tasks'[c] = tasks[c]
    BY <1>1, TaskEnds DEF DeployScriptTimesOut
  <1>3. orphans' \in SUBSET (Chains \X Script)
    BY <1>1, LosesScripts DEF DeployScriptTimesOut
  <1>4. UNCHANGED <<file, env, onChain, phase, command, todo>>
    BY DEF DeployScriptTimesOut
  <1> QED
    BY <1>1, <1>2, <1>3, <1>4, EndingStep DEF TypeOK

LEMMA CrashStep ==
    ASSUME IInv, Crash
    PROVE  IInv'
  <1>1. TypeOK
    BY InvComponents
  <1>2. /\ tasks' \in [Chains -> Task] /\ \A chain \in Chains : tasks'[chain] = Idle
        /\ todo' \in SUBSET Pathways
    BY DEF Crash, Task
  <1>3. orphans' \in SUBSET (Chains \X Script)
    BY <1>1, LosesScripts DEF Crash
  <1>4. /\ phase' \in {"idle", "startDeploy", "deploy", "startWire", "wire"}
        /\ command' \in Command
    BY <1>1, ExitTypes DEF Crash, TypeOK
  <1>5. UNCHANGED <<file, env, onChain>>
    BY DEF Crash
  <1> QED
    BY <1>1, <1>2, <1>3, <1>4, <1>5, EndingStep DEF TypeOK

LEMMA StartWireStep ==
    ASSUME IInv, StartWire
    PROVE  IInv'
  <1>1. TypeOK /\ \A chain \in Chains : tasks[chain] = Idle
    BY InvComponents, NoneRuns DEF StartWire
  <1>2. todo' \in SUBSET Pathways
    BY DEF StartWire, Selected
  <1>3. UNCHANGED <<file, env, onChain, command, tasks, orphans>> /\ phase' = "wire"
    BY DEF StartWire
  <1> QED
    BY <1>1, <1>2, <1>3, EndingStep DEF TypeOK

\* A pathway of a lane that runs no script.
LEMMA LaneSkipsStep ==
    ASSUME IInv, NEW pathway \in Pathways, LaneSkips(pathway)
    PROVE  IInv'
  <1>1. TypeOK /\ pathway[1] \in Chains /\ tasks[pathway[1]] = Idle
    BY InvComponents DEF LaneSkips, Running, Pathways
  <1>2. /\ todo' \in SUBSET Pathways
        /\ UNCHANGED <<env, onChain, phase, command, tasks, orphans>>
    BY <1>1 DEF LaneSkips, TypeOK
  <1>3. /\ file' \in State /\ file'.deploy = file.deploy
        /\ \A p \in Pathways \ {pathway} : file'.wire[p] = file.wire[p]
    <2>1. CASE file' = file
      BY <1>1, <2>1 DEF TypeOK
    <2>2. CASE file' = [file EXCEPT !.wire[pathway] = "skipped"]
      BY <1>1, <2>2, WireStatus DEF Status
    <2> QED
      BY <2>1, <2>2 DEF LaneSkips
  <1> QED
    BY <1>1, <1>2, <1>3, EndingStep DEF TypeOK

LEMMA LaneEndsStep ==
    ASSUME IInv, NEW chain \in Chains, NEW status \in Status, LaneEnds(chain, status),
           orphans' \in SUBSET (Chains \X Script)
    PROVE  IInv'
  <1> DEFINE pathway == <<chain, tasks[chain].script.to>>
  <1>1. TypeOK /\ pathway \in Pathways
    BY InvComponents DEF LaneEnds, TaskFitsPhase
  <1>2. /\ file' \in State /\ file'.deploy = file.deploy
        /\ \A p \in Pathways \ {pathway} : file'.wire[p] = file.wire[p]
    BY <1>1, WireStatus DEF LaneEnds
  <1>3. /\ tasks' \in [Chains -> Task] /\ tasks'[chain] = Idle
        /\ \A c \in Chains \ {chain} : tasks'[c] = tasks[c]
    BY <1>1, TaskEnds DEF LaneEnds
  <1>4. UNCHANGED <<env, onChain, phase, command, todo>>
    BY DEF LaneEnds
  <1>5. \A c \in Chains \ {chain} : \A p \in Pathways : p[1] = c => file'.wire[p] = file.wire[p]
    BY <1>2
  <1> QED
    BY <1>1, <1>2, <1>3, <1>4, <1>5, EndingStep DEF TypeOK

LEMMA WireScriptStep ==
    ASSUME IInv, NEW chain \in Chains,
           \/ WireScriptSucceeds(chain) \/ WireScriptUnconfirmed(chain)
           \/ WireScriptFails(chain) \/ WireScriptTimesOut(chain)
    PROVE  IInv'
  <1>1. TypeOK /\ "complete" \in Status /\ "failed" \in Status
    BY InvComponents DEF Status
  <1>2. LaneEnds(chain, "complete") \/ LaneEnds(chain, "failed")
    BY DEF WireScriptSucceeds, WireScriptUnconfirmed, WireScriptFails, WireScriptTimesOut
  <1>3. orphans' = orphans \/ LoseScripts({chain})
    BY DEF WireScriptSucceeds, WireScriptUnconfirmed, WireScriptFails, WireScriptTimesOut
  <1>4. orphans' \in SUBSET (Chains \X Script)
    BY <1>1, <1>3, LosesScripts DEF TypeOK
  <1> QED
    BY <1>1, <1>2, <1>4, LaneEndsStep

\* A script of its own chain has its transaction executed.
LEMMA ScriptLandsStep ==
    ASSUME IInv, NEW chain \in Chains, ScriptLands(chain)
    PROVE  IInv'
  <1> DEFINE script == tasks[chain].script
             address == CASE script.step = "wire" -> 0
                          [] script.step = "init" -> script.at
                          [] OTHER -> contracts'[chain][script.step]
  <1>1. TypeOK /\ Running(chain) /\ tasks[chain].status = "spawned" /\ Lands(chain, script)
    BY InvComponents DEF ScriptLands
  <1>2. /\ tasks[chain] \in [status : {"spawned", "created", "found"},
                             script : Script, address : Addresses]
        /\ script \in Script /\ script.step \in Parts \cup {"wire"} /\ script.at \in Addresses
    BY <1>1, RunningTask
  <1>3. /\ Grows /\ ContractTypes'
        /\ script.step \in {"base", "oft"} => contracts'[chain][script.step] \in Nat \ {0}
        /\ script.step = "init" => script.at \in initialized' /\ (chain = "sui" => script.at # 0)
    BY <1>1, <1>2, LandsFacts
  <1>4. /\ tasks' = [tasks EXCEPT ![chain].status = "created", ![chain].address = address]
        /\ UNCHANGED <<file, env, phase, command, todo, orphans>>
    BY DEF ScriptLands
  <1>5. address \in Addresses
    <2>1. CASE script.step = "wire"
      BY <2>1, AddressFacts
    <2>2. CASE script.step = "init"
      BY <1>2, <2>2
    <2>3. CASE script.step \in {"base", "oft"}
      <3>1. contracts'[chain][script.step] \in Addresses
        BY <1>3, <2>3 DEF ContractTypes, Parts
      <3> QED
        BY <2>3, <3>1
    <2> QED
      BY <1>2, <2>1, <2>2, <2>3 DEF Parts
  <1>6. script.step \in {"base", "oft"} => address = contracts'[chain][script.step]
    OBVIOUS
  <1>7. script.step = "init" => address = script.at
    OBVIOUS
  <1> HIDE DEF address
  <1>8. /\ tasks' \in [Chains -> Task] /\ tasks'[chain] # Idle
        /\ tasks'[chain].script = script
        /\ tasks'[chain].address = address /\ tasks'[chain].status = "created"
        /\ \A c \in Chains \ {chain} : tasks'[c] = tasks[c]
    <2>1. tasks \in [Chains -> Task]
      BY <1>1 DEF TypeOK
    <2>2. /\ tasks'[chain] = [tasks[chain] EXCEPT !.status = "created", !.address = address]
          /\ \A c \in Chains \ {chain} : tasks'[c] = tasks[c]
          /\ tasks' = [tasks EXCEPT ![chain] = tasks'[chain]]
      BY <1>4, <2>1
    <2>3. /\ tasks'[chain] \in [status : {"spawned", "created", "found"},
                                script : Script, address : Addresses]
          /\ tasks'[chain].script = script
          /\ tasks'[chain].address = address /\ tasks'[chain].status = "created"
      BY <1>2, <1>5, <2>2
    <2> QED
      BY <2>1, <2>2, <2>3 DEF Task, Idle
  <1>9. TypeOK'
    BY <1>1, <1>3, <1>4, <1>8 DEF TypeOK, ContractTypes
  <1>10. TaskIsTrue(chain)'
    <2>1. /\ chain = "sui" /\ script.step \in {"base", "oft"} => env[chain][script.step] = 0
          /\ chain = "sui" /\ script.step = "init" /\ script.at # 0 =>
                script.at = env[chain]["oft"]
      BY <1>1, InvComponents DEF TaskIsTrue
    <2>2. script.step \in {"base", "oft"} => address \in 1 .. contracts'[chain][script.step]
      BY <1>3, <1>6
    <2> QED
      BY <1>3, <1>4, <1>7, <1>8, <2>1, <2>2 DEF TaskIsTrue
  <1>11. TaskFitsPhase(chain)'
    BY <1>1, <1>4, <1>8, InvComponents DEF TaskFitsPhase
  <1>12. \A c \in Chains \ {chain} : TaskFitsPhase(c)'
    BY <1>4, <1>8, FitFrame, InvComponents
  <1> QED
    BY <1>3, <1>4, <1>8, <1>9, <1>10, <1>11, <1>12, QuietStep

LEMMA ScriptFindsStep ==
    ASSUME IInv, NEW chain \in Chains, ScriptFinds(chain)
    PROVE  IInv'
  <1> DEFINE script == tasks[chain].script
  <1>1. TypeOK /\ Running(chain) /\ Exists(chain, script)
    BY InvComponents DEF ScriptFinds
  <1>2. /\ tasks[chain] \in [status : {"spawned", "created", "found"},
                             script : Script, address : Addresses]
        /\ 1 \in Addresses
    BY <1>1, RunningTask, AddressFacts
  <1>3. script.step \in {"base", "oft"} /\ contracts[chain][script.step] = 1
        /\ ~ (chain = "sui")
    BY <1>1 DEF Exists, Deterministic
  <1>4. /\ tasks' = [tasks EXCEPT ![chain].status = "found", ![chain].address = 1]
        /\ UNCHANGED <<file, env, onChain, phase, command, todo, orphans>>
    BY DEF ScriptFinds
  <1>5. /\ tasks' \in [Chains -> Task] /\ tasks'[chain] # Idle
        /\ tasks'[chain].script = script
        /\ tasks'[chain].address = 1
        /\ \A c \in Chains \ {chain} : tasks'[c] = tasks[c]
    <2>1. tasks \in [Chains -> Task]
      BY <1>1 DEF TypeOK
    <2>2. /\ tasks'[chain] = [tasks[chain] EXCEPT !.status = "found", !.address = 1]
          /\ \A c \in Chains \ {chain} : tasks'[c] = tasks[c]
          /\ tasks' = [tasks EXCEPT ![chain] = tasks'[chain]]
      BY <1>4, <2>1
    <2>3. /\ tasks'[chain] \in [status : {"spawned", "created", "found"},
                                script : Script, address : Addresses]
          /\ tasks'[chain].script = script
          /\ tasks'[chain].address = 1 /\ tasks'[chain].status = "found"
      BY <1>2, <2>2
    <2> QED
      BY <2>1, <2>2, <2>3 DEF Task, Idle
  <1>6. TypeOK' /\ Grows
    BY <1>1, <1>4, <1>5, UnchangedGrows DEF TypeOK, onChain
  <1>7. TaskIsTrue(chain)'
    BY <1>3, <1>4, <1>5 DEF TaskIsTrue, onChain
  <1>8. TaskFitsPhase(chain)'
    BY <1>1, <1>4, <1>5, InvComponents DEF TaskFitsPhase
  <1>9. \A c \in Chains \ {chain} : TaskFitsPhase(c)'
    BY <1>4, <1>5, FitFrame, InvComponents
  <1> QED
    BY <1>4, <1>5, <1>6, <1>7, <1>8, <1>9, QuietStep

LEMMA OrphanLandsStep ==
    ASSUME IInv, NEW orphan \in orphans, OrphanLands(orphan[1], orphan[2])
    PROVE  IInv'
  <1>1. TypeOK /\ orphan[1] \in Chains /\ orphan[2] \in Script
    BY InvComponents DEF TypeOK
  <1>2. Grows /\ ContractTypes'
    BY <1>1, LandsFacts DEF OrphanLands
  <1>3. /\ UNCHANGED <<file, env, phase, command, tasks, todo>>
        /\ orphans' \in SUBSET (Chains \X Script)
    BY <1>1 DEF OrphanLands, TypeOK
  <1>4. TypeOK'
    BY <1>1, <1>2, <1>3 DEF TypeOK, ContractTypes
  <1>5. \A c \in Chains : TaskFitsPhase(c)'
    BY <1>3, FitFrame, InvComponents
  <1> QED
    BY <1>2, <1>3, <1>4, <1>5, QuietStep

LEMMA LaneStartsStep ==
    ASSUME IInv, NEW pathway \in Pathways, LaneStarts(pathway)
    PROVE  IInv'
  <1> DEFINE chain == pathway[1]
             script == WireScript(pathway[1], pathway[2])
  <1>1. /\ TypeOK /\ chain \in Chains /\ pathway[2] \in Chains
        /\ pathway = <<chain, pathway[2]>>
    BY InvComponents DEF Pathways
  <1>2. /\ file' \in State /\ file'.deploy = file.deploy
        /\ file'.wire[pathway] = "running"
        /\ \A p \in Pathways \ {pathway} : file'.wire[p] = file.wire[p]
    BY <1>1, WireStatus DEF LaneStarts, Status
  <1>3. script \in Script /\ script.step = "wire" /\ script.to = pathway[2]
    <2>1. /\ env[chain]["oft"] \in Addresses /\ env[pathway[2]]["oft"] \in Addresses
          /\ 0 \in Addresses
      BY <1>1, AddressFacts DEF TypeOK, Parts
    <2>2. WorksOn(env, chain, "wire") \in {0, env[chain]["oft"]}
      BY DEF WorksOn
    <2> QED
      BY <1>1, <2>1, <2>2 DEF WireScript, Script
  <1> HIDE DEF script
  <1>4. /\ tasks' = [tasks EXCEPT ![chain] = Spawned(script)]
        /\ phase = "wire" /\ todo' \in SUBSET Pathways
        /\ UNCHANGED <<env, onChain, phase, command, orphans>>
    BY <1>1 DEF LaneStarts, TypeOK, script
  <1>5. /\ Spawned(script) \in Task /\ Spawned(script) # Idle
        /\ Spawned(script).script = script
    BY <1>1, <1>3, AddressFacts DEF Spawned, Task, Idle
  <1>6. /\ tasks' \in [Chains -> Task] /\ tasks'[chain] = Spawned(script)
        /\ \A c \in Chains \ {chain} : tasks'[c] = tasks[c]
    BY <1>1, <1>4, <1>5 DEF TypeOK
  <1>7. TypeOK' /\ Grows
    BY <1>1, <1>2, <1>4, <1>6, UnchangedGrows DEF TypeOK, onChain
  <1>8. TaskIsTrue(chain)'
    BY <1>3, <1>5, <1>6 DEF TaskIsTrue
  <1>9. TaskFitsPhase(chain)'
    BY <1>1, <1>2, <1>3, <1>4, <1>5, <1>6 DEF TaskFitsPhase
  <1>10. \A c \in Chains \ {chain} : TaskFitsPhase(c)'
    BY <1>2, <1>4, <1>6, FitFrame, InvComponents
  <1> QED
    BY <1>2, <1>4, <1>6, <1>7, <1>8, <1>9, <1>10, QuietStep

LEMMA RecordsAll ==
    ASSUME TypeOK, NEW pending \in SUBSET Chains, NEW status \in Status,
           file' = RecordAll(pending, status)
    PROVE  /\ file' \in State /\ file'.wire = file.wire
           /\ \A chain \in pending : file'.deploy[chain] = status
           /\ \A chain \in Chains \ pending : file'.deploy[chain] = file.deploy[chain]
  <1> DEFINE deploy == [chain \in Chains |->
                           IF chain \in pending THEN status ELSE file.deploy[chain]]
  <1>1. /\ file.deploy \in [Chains -> Status] /\ file.wire \in [Pathways -> Status]
        /\ file = [deploy |-> file.deploy, wire |-> file.wire]
    BY FileComponents
  <1>2. deploy \in [Chains -> Status]
    BY <1>1
  <1>3. file' = [deploy |-> deploy, wire |-> file.wire]
    BY <1>1 DEF RecordAll
  <1> QED
    BY <1>1, <1>2, <1>3 DEF State

\* The next script of a chain that is being deployed.
LEMMA SpawnsScript ==
    ASSUME NEW chain \in Chains, NEW j \in DOMAIN Scripts(chain),
           env' \in [Chains -> [Parts -> Addresses]],
           chain = "sui" /\ Scripts(chain)[j] \in {"base", "oft"} =>
               env'[chain][Scripts(chain)[j]] = 0,
           tasks'[chain] = Spawned(DeployScript(env', chain, Scripts(chain)[j])),
           phase' = "deploy", file'.deploy[chain] = "running"
    PROVE  tasks'[chain] \in Task /\ TaskIsTrue(chain)' /\ TaskFitsPhase(chain)'
  <1> DEFINE step == Scripts(chain)[j]
             script == DeployScript(env', chain, step)
  <1>1. step \in Parts
    BY ScriptsShape
  <1>2. /\ Spawned(script) \in Task
        /\ Spawned(script).status = "spawned" /\ Spawned(script).script = script
        /\ script.step = step
        /\ chain = "sui" /\ step = "init" => script.at \in {0, env'[chain]["oft"]}
    BY <1>1, SpawnFacts
  <1> HIDE DEF script
  <1>3. tasks'[chain] = Spawned(script)
    BY DEF script
  <1> QED
    BY <1>1, <1>2, <1>3 DEF TaskIsTrue, TaskFitsPhase

LEMMA StartDeployStep ==
    ASSUME IInv, StartDeploy
    PROVE  IInv'
  <1> DEFINE pending == {chain \in command.chains : Pending(chain)}
  <1>1. /\ TypeOK /\ pending \in SUBSET Chains
        /\ \A chain \in Chains : ~ Running(chain) /\ tasks[chain] = Idle
    BY InvComponents, NoneRuns DEF StartDeploy, TypeOK, Command
  <1>2. UNCHANGED <<env, onChain, todo, orphans>>
    BY DEF StartDeploy
  <1>3. CASE /\ file' = RecordAll(pending, "skipped")
             /\ DeployEnds
             /\ UNCHANGED tasks
    <2>1. /\ file' \in State
          /\ \A chain \in Chains :
                file'.deploy[chain] = "complete" => file.deploy[chain] = "complete"
      BY <1>1, <1>3, RecordsAll DEF Status
    <2>2. /\ phase' \in {"idle", "startDeploy", "deploy", "startWire", "wire"}
          /\ command' \in Command
      BY <1>1, <1>3, ExitTypes DEF TypeOK
    <2> QED
      BY <1>1, <1>2, <1>3, <2>1, <2>2, StepWithoutTasks
  <1>4. CASE /\ file' = RecordAll(pending, "running")
             /\ tasks' = [chain \in Chains |-> IF chain \in pending
                                               THEN Spawned(FirstScript(chain)) ELSE Idle]
             /\ phase' = "deploy"
             /\ UNCHANGED command
    <2>1. /\ file' \in State
          /\ \A chain \in pending : file'.deploy[chain] = "running"
          /\ \A chain \in Chains \ pending : file'.deploy[chain] = file.deploy[chain]
      BY <1>1, <1>4, RecordsAll DEF Status
    <2>2. ASSUME NEW chain \in pending
          PROVE  tasks'[chain] \in Task /\ TaskIsTrue(chain)' /\ TaskFitsPhase(chain)'
      <3> DEFINE j == First(RemainingScripts(chain, 1))
      <3>1. chain \in Chains /\ Len(Scripts(chain)) \in 1 .. 3
            /\ DOMAIN Scripts(chain) = 1 .. Len(Scripts(chain))
        BY <1>1, ScriptsShape
      <3>2. RemainingScripts(chain, 1) # {}
        BY <3>1, RemainingFacts
      <3>3. j \in DOMAIN Scripts(chain) /\ ~ SkippedScript(chain, Scripts(chain)[j])
        BY <3>1, <3>2, RemainingFacts
      <3>4. tasks'[chain] = Spawned(DeployScript(env', chain, Scripts(chain)[j]))
        BY <1>2, <1>4, <3>1 DEF FirstScript
      <3> HIDE DEF j
      <3>5. env' \in [Chains -> [Parts -> Addresses]]
        BY <1>1, <1>2 DEF TypeOK
      <3>6. chain = "sui" /\ Scripts(chain)[j] \in {"base", "oft"} =>
               env'[chain][Scripts(chain)[j]] = 0
        BY <1>2, <3>3 DEF SkippedScript
      <3>7. file'.deploy[chain] = "running" /\ phase' = "deploy"
        BY <1>4, <2>1
      <3> QED
        BY <3>1, <3>3, <3>4, <3>5, <3>6, <3>7, SpawnsScript
    <2>3. ASSUME NEW chain \in Chains \ pending
          PROVE  tasks'[chain] = Idle /\ TaskIsTrue(chain)' /\ TaskFitsPhase(chain)'
      BY <1>4, IdleFrame
    <2>4. tasks' \in [Chains -> Task]
      <3>1. tasks' = [chain \in Chains |-> tasks'[chain]]
        BY <1>4
      <3>2. Idle \in Task
        BY DEF Task
      <3> QED
        BY <2>2, <2>3, <3>1, <3>2
    <2>5. TypeOK' /\ Grows
      BY <1>1, <1>2, <1>4, <2>1, <2>4, UnchangedGrows DEF TypeOK, onChain
    <2>6. \A chain \in Chains \ {"ton"} :
             file'.deploy[chain] = "complete" => file.deploy[chain] = "complete"
      BY <2>1
    <2> QED
      BY <1>2, <2>2, <2>3, <2>5, <2>6, QuietStep
  <1> QED
    BY <1>3, <1>4, Zenon DEF StartDeploy

\* TON: a script that is not confirmed goes on to the next, or to its end.
LEMMA TonScriptUnconfirmedStep ==
    ASSUME IInv, TonScriptUnconfirmed
    PROVE  IInv'
  <1>1. /\ TypeOK /\ "ton" \in Chains
        /\ phase = "deploy" /\ UNCHANGED <<env, onChain, phase, command, todo>>
        /\ orphans' \in SUBSET (Chains \X Script)
    BY InvComponents, LosesScripts DEF TonScriptUnconfirmed
  <1>2. CASE /\ file' = [file EXCEPT !.deploy["ton"] = "complete"]
             /\ tasks' = [tasks EXCEPT !["ton"] = Idle]
    <2>1. /\ file' \in State /\ file'.wire = file.wire
          /\ \A c \in Chains \ {"ton"} : file'.deploy[c] = file.deploy[c]
      BY <1>1, <1>2, DeployStatus DEF Status
    <2>2. /\ tasks' \in [Chains -> Task] /\ tasks'["ton"] = Idle
          /\ \A c \in Chains \ {"ton"} : tasks'[c] = tasks[c]
      BY <1>1, <1>2, TaskEnds
    <2> QED
      BY <1>1, <2>1, <2>2, EndingStep DEF TypeOK
  <1>3. CASE /\ tasks' = [tasks EXCEPT !["ton"] = Spawned(DeployScript(env, "ton", "oft"))]
             /\ UNCHANGED file
    <2>1. file.deploy["ton"] = "running"
      BY <1>1, InvComponents DEF TonScriptUnconfirmed, TaskFitsPhase
    <2>2. 2 \in DOMAIN Scripts("ton") /\ Scripts("ton")[2] = "oft"
      BY DEF Scripts
    <2>3. /\ tasks'["ton"] = Spawned(DeployScript(env', "ton", "oft"))
          /\ \A c \in Chains \ {"ton"} : tasks'[c] = tasks[c]
          /\ tasks \in [Chains -> Task] /\ tasks' = [tasks EXCEPT !["ton"] = tasks'["ton"]]
      BY <1>1, <1>3 DEF TypeOK
    <2>4. /\ env' \in [Chains -> [Parts -> Addresses]]
          /\ phase' = "deploy" /\ file'.deploy["ton"] = "running"
      BY <1>1, <1>3, <2>1 DEF TypeOK
    <2>5. tasks'["ton"] \in Task /\ TaskIsTrue("ton")' /\ TaskFitsPhase("ton")'
      BY <1>1, <2>2, <2>3, <2>4, SpawnsScript
    <2>6. TypeOK' /\ Grows
      BY <1>1, <1>3, <2>3, <2>5, UnchangedGrows DEF TypeOK, onChain
    <2>7. \A c \in Chains \ {"ton"} : TaskFitsPhase(c)'
      BY <1>1, <1>3, <2>3, FitFrame, InvComponents
    <2> QED
      BY <1>1, <1>3, <2>3, <2>5, <2>6, <2>7, QuietStep
  <1> QED
    BY <1>2, <1>3 DEF TonScriptUnconfirmed

\* What a script printed is captured: it is the address of a contract that is
\* there, and on Sui the package that .env has not named yet, or names already.
LEMMA Captures ==
    ASSUME IInv, NEW chain \in Chains, Running(chain), phase = "deploy",
           tasks[chain].status \in {"created", "found"},
           env' = IF Tag(chain) = 0 THEN env
                  ELSE [env EXCEPT ![chain][tasks[chain].script.step] = Tag(chain)],
           UNCHANGED onChain
    PROVE  /\ env' \in [Chains -> [Parts -> Addresses]]
           /\ \A c \in Chains \ {chain} : env'[c] = env[c]
           /\ \A part \in Parts \ {tasks[chain].script.step} : env'[chain][part] = env[chain][part]
           /\ EnvIsTrue(chain)'
           /\ tasks[chain].script.step = "oft" /\ chain # "ton" =>
                 env'[chain]["oft"] \in 1 .. contracts[chain]["oft"]
           /\ tasks[chain].script.step = "init" /\ chain = "sui" =>
                 /\ env'[chain]["init"] = env'[chain]["oft"] /\ env'[chain]["oft"] \in initialized
                 /\ env'[chain]["oft"] \in 1 .. contracts[chain]["oft"]
  <1> DEFINE step    == tasks[chain].script.step
             address == tasks[chain].address
  <1>1. /\ TypeOK /\ env \in [Chains -> [Parts -> Addresses]] /\ EnvIsTrue(chain)
        /\ step \in Parts /\ address \in Addresses
    BY InvComponents, RunningTask, ScriptsShape DEF TypeOK, TaskFitsPhase
  <1>2. /\ step \in {"base", "oft"} => address \in 1 .. contracts[chain][step]
        /\ chain = "sui" /\ step \in {"base", "oft"} => env[chain][step] = 0
        /\ chain = "sui" /\ step = "init" =>
              address = env[chain]["oft"] /\ address # 0 /\ address \in initialized
    BY InvComponents DEF TaskIsTrue
  <1>3. /\ contracts[chain]["base"] \in Nat /\ contracts[chain]["oft"] \in Nat
        /\ env[chain]["base"] \in Nat /\ env[chain]["oft"] \in Nat
    BY <1>1, AddressesAreNumbers DEF TypeOK
  <1>4. Tag(chain) \in {0, address} /\ (chain # "ton" => Tag(chain) = address)
    BY DEF Tag
  <1>5. /\ env' \in [Chains -> [Parts -> Addresses]]
        /\ \A c \in Chains \ {chain} : env'[c] = env[c]
        /\ \A part \in Parts \ {step} : env'[chain][part] = env[chain][part]
        /\ env'[chain][step] = IF Tag(chain) = 0 THEN env[chain][step] ELSE Tag(chain)
    BY <1>1, <1>4
  <1> HIDE DEF step, address
  <1>6. UNCHANGED <<contracts, initialized>> /\ {"base", "oft", "init"} = Parts
    BY DEF onChain, Parts
  <1>7. CASE step = "init"
    <2>1. env'[chain]["base"] = env[chain]["base"] /\ env'[chain]["oft"] = env[chain]["oft"]
      BY <1>5, <1>6, <1>7
    <2>2. chain = "sui" => env'[chain]["init"] = address
      BY <1>2, <1>4, <1>5, <1>7
    <2>3. EnvIsTrue(chain)'
      BY <1>1, <1>2, <1>6, <1>7, <2>1, <2>2 DEF EnvIsTrue
    <2>4. chain = "sui" => env'[chain]["oft"] \in 1 .. contracts[chain]["oft"]
      BY <1>1, <1>2, <1>3, <1>7, <2>1 DEF EnvIsTrue
    <2> QED
      BY <1>2, <1>5, <1>7, <2>1, <2>2, <2>3, <2>4 DEF step
  <1>8. CASE step \in {"base", "oft"}
    <2>1. /\ address \in Nat \ {0} /\ address <= contracts[chain][step]
          /\ env'[chain][step] \in {env[chain][step], address}
          /\ chain # "ton" => env'[chain][step] = address
      BY <1>2, <1>3, <1>4, <1>5, <1>8
    <2>2. \A part \in {"base", "oft"} : env'[chain][part] <= contracts[chain][part]
      BY <1>1, <1>5, <1>6, <1>8, <2>1 DEF EnvIsTrue
    <2>3. chain = "sui" /\ env'[chain]["init"] # 0 =>
             env'[chain]["init"] = env'[chain]["oft"] /\ env'[chain]["init"] \in initialized
      <3> SUFFICES ASSUME chain = "sui", env'[chain]["init"] # 0
                   PROVE  /\ env'[chain]["init"] = env'[chain]["oft"]
                          /\ env'[chain]["init"] \in initialized
        OBVIOUS
      <3>1. /\ env'[chain]["init"] = env[chain]["init"]
            /\ env[chain]["init"] = env[chain]["oft"] /\ env[chain]["init"] \in initialized
        BY <1>1, <1>5, <1>6, <1>8 DEF EnvIsTrue
      <3>2. step = "base"
        BY <1>2, <1>8, <3>1
      <3> QED
        BY <1>5, <1>6, <3>1, <3>2
    <2>4. EnvIsTrue(chain)'
      BY <1>6, <2>2, <2>3 DEF EnvIsTrue
    <2>5. step = "oft" /\ chain # "ton" => env'[chain]["oft"] \in 1 .. contracts[chain]["oft"]
      BY <1>3, <2>1
    <2> QED
      BY <1>5, <1>8, <2>4, <2>5 DEF step
  <1> QED
    BY <1>1, <1>7, <1>8 DEF Parts

LEMMA DeployScriptSucceedsStep ==
    ASSUME IInv, NEW chain \in Chains, DeployScriptSucceeds(chain)
    PROVE  IInv'
  <1> DEFINE step == tasks[chain].script.step
             next == RemainingScripts(chain, Position(chain, step) + 1)
  <1>1. /\ TypeOK /\ Running(chain) /\ phase = "deploy"
        /\ tasks[chain].status \in {"created", "found"}
        /\ UNCHANGED <<onChain, phase, command, todo, orphans>>
        /\ env' = IF Tag(chain) = 0 THEN env ELSE [env EXCEPT ![chain][step] = Tag(chain)]
    BY InvComponents DEF DeployScriptSucceeds
  <1>2. /\ env' \in [Chains -> [Parts -> Addresses]]
        /\ \A c \in Chains \ {chain} : env'[c] = env[c]
        /\ \A part \in Parts \ {step} : env'[chain][part] = env[chain][part]
        /\ EnvIsTrue(chain)'
        /\ step = "oft" /\ chain # "ton" => env'[chain]["oft"] \in 1 .. contracts[chain]["oft"]
        /\ step = "init" /\ chain = "sui" =>
              /\ env'[chain]["init"] = env'[chain]["oft"] /\ env'[chain]["oft"] \in initialized
              /\ env'[chain]["oft"] \in 1 .. contracts[chain]["oft"]
    BY <1>1, Captures
  <1>3. file.deploy[chain] = "running" /\ \E i \in DOMAIN Scripts(chain) : step = Scripts(chain)[i]
    BY <1>1, InvComponents DEF TaskFitsPhase
  <1>4. /\ Position(chain, step) \in DOMAIN Scripts(chain)
        /\ Scripts(chain)[Position(chain, step)] = step
    BY <1>3 DEF Position
  <1>5. /\ Len(Scripts(chain)) \in 1 .. 3 /\ DOMAIN Scripts(chain) = 1 .. Len(Scripts(chain))
        /\ \A i, j \in DOMAIN Scripts(chain) : Scripts(chain)[i] = Scripts(chain)[j] => i = j
        /\ \A i \in DOMAIN Scripts(chain) : Scripts(chain)[i] \in Parts
        /\ Scripts(chain)[Len(Scripts(chain))] = IF chain = "sui" THEN "init" ELSE "oft"
    BY ScriptsShape
  <1>6. Position(chain, step) + 1 \in 1 .. Len(Scripts(chain)) + 1
    BY <1>4, <1>5
  <1>7. Grows /\ ContractTypes'
    BY <1>1, UnchangedGrows
  <1>8. \A c \in Chains : EnvIsTrue(c)'
    BY <1>1, <1>2, <1>7, EnvFrame, InvComponents
  <1>9. ASSUME NEW c \in Chains \ {"ton"}, c # chain, file'.deploy[c] = file.deploy[c],
               file'.deploy[c] = "complete"
        PROVE  /\ env'[c]["oft"] \in 1 .. contracts'[c]["oft"]
               /\ c = "sui" => env'[c]["init"] = env'[c]["oft"] /\ env'[c]["oft"] \in initialized'
    BY <1>1, <1>2, <1>9, InvComponents DEF CompleteIsDeployed, onChain
  <1>10. CASE next = {}
    <2>1. /\ file' = [file EXCEPT !.deploy[chain] = "complete"]
          /\ tasks' = [tasks EXCEPT ![chain] = Idle]
      BY <1>10 DEF DeployScriptSucceeds
    <2>2. /\ file' \in State /\ file'.wire = file.wire
          /\ \A c \in Chains \ {chain} : file'.deploy[c] = file.deploy[c]
      BY <1>1, <2>1, DeployStatus DEF Status
    <2>3. /\ tasks' \in [Chains -> Task] /\ tasks'[chain] = Idle
          /\ \A c \in Chains \ {chain} : tasks'[c] = tasks[c]
      BY <1>1, <2>1, TaskEnds
    <2>4. step = IF chain = "sui" THEN "init" ELSE "oft"
      <3>1. Position(chain, step) + 1 = Len(Scripts(chain)) + 1
        BY <1>6, <1>10, RemainingFacts
      <3>2. Position(chain, step) = Len(Scripts(chain))
        BY <1>4, <1>5, <3>1
      <3> QED
        BY <1>4, <1>5, <3>2
    <2>5. CompleteIsDeployed'
      <3> SUFFICES ASSUME NEW c \in Chains \ {"ton"}, file'.deploy[c] = "complete"
                   PROVE  /\ env'[c]["oft"] \in 1 .. contracts'[c]["oft"]
                          /\ c = "sui" => /\ env'[c]["init"] = env'[c]["oft"]
                                          /\ env'[c]["oft"] \in initialized'
        BY DEF CompleteIsDeployed
      <3>1. CASE c = chain
        BY <1>1, <1>2, <2>4, <3>1 DEF onChain
      <3>2. CASE c # chain
        BY <1>9, <2>2, <3>2
      <3> QED
        BY <3>1, <3>2
    <2>6. \A c \in Chains : TaskFitsPhase(c)'
      BY <1>1, <2>2, <2>3, FitFrame, IdleFrame, InvComponents
    <2>7. \A c \in Chains : TaskIsTrue(c)'
      BY <1>1, <1>2, <1>7, <2>3, TaskFrame, IdleFrame, InvComponents
    <2>8. TypeOK'
      BY <1>1, <1>2, <2>2, <2>3 DEF TypeOK, onChain
    <2> QED
      BY <1>8, <2>5, <2>6, <2>7, <2>8 DEF IInv
  <1>11. CASE next # {}
    <2> DEFINE j == First(next)
    <2>1. /\ j \in Position(chain, step) + 1 .. Len(Scripts(chain))
          /\ ~ SkippedScript(chain, Scripts(chain)[j])
      BY <1>6, <1>11, RemainingFacts
    <2>2. /\ tasks' = [tasks EXCEPT ![chain] =
                           Spawned(DeployScript(env', chain, Scripts(chain)[j]))]
          /\ UNCHANGED file
      BY <1>11 DEF DeployScriptSucceeds
    <2> HIDE DEF j
    <2>3. j \in DOMAIN Scripts(chain) /\ Scripts(chain)[j] # step /\ Scripts(chain)[j] \in Parts
      BY <1>4, <1>5, <2>1
    <2>4. chain = "sui" /\ Scripts(chain)[j] \in {"base", "oft"} =>
             env'[chain][Scripts(chain)[j]] = 0
      BY <1>2, <2>1, <2>3 DEF SkippedScript
    <2>5. /\ tasks'[chain] = Spawned(DeployScript(env', chain, Scripts(chain)[j]))
          /\ \A c \in Chains \ {chain} : tasks'[c] = tasks[c]
          /\ tasks \in [Chains -> Task] /\ tasks' = [tasks EXCEPT ![chain] = tasks'[chain]]
      BY <1>1, <2>2 DEF TypeOK
    <2>6. phase' = "deploy" /\ file'.deploy[chain] = "running"
      BY <1>1, <1>3, <2>2
    <2>7. tasks'[chain] \in Task /\ TaskIsTrue(chain)' /\ TaskFitsPhase(chain)'
      BY <1>2, <2>3, <2>4, <2>5, <2>6, SpawnsScript
    <2>8. \A c \in Chains : TaskFitsPhase(c)'
      BY <1>1, <2>2, <2>5, <2>7, FitFrame, InvComponents
    <2>9. \A c \in Chains : TaskIsTrue(c)'
      BY <1>1, <1>2, <1>7, <2>5, <2>7, TaskFrame, InvComponents
    <2>10. TypeOK'
      BY <1>1, <1>2, <2>2, <2>5, <2>7 DEF TypeOK, onChain
    <2>11. CompleteIsDeployed'
      BY <1>3, <1>9, <2>2 DEF CompleteIsDeployed
    <2> QED
      BY <1>8, <2>8, <2>9, <2>10, <2>11 DEF IInv
  <1> QED
    BY <1>10, <1>11

-----------------------------------------------------------------------------
(* The theorems                                                            *)

LEMMA InitInv == Init => IInv
  <1> SUFFICES ASSUME Init PROVE IInv
    OBVIOUS
  <1>1. \A chain \in Chains : 0 \in Addresses
    BY AddressFacts
  <1>2. \A pathway \in Pathways : pathway[1] \in Chains
    BY DEF Pathways
  <1>3. file \in State /\ \A chain \in Chains : file.deploy[chain] = "absent"
    BY DEF Init, DefaultState, State, Status
  <1>4. /\ contracts \in [Chains -> [Parts -> Addresses]]
        /\ env \in [Chains -> [Parts -> Addresses]]
        /\ peers \in [Pathways -> [Addresses -> Addresses]]
    BY <1>1, <1>2 DEF Init
  <1>5. command \in Command /\ tasks \in [Chains -> Task]
    BY DEF Init, NoCommand, Command, Task
  <1>6. TypeOK
    BY <1>3, <1>4, <1>5 DEF Init, TypeOK
  <1>7. \A chain \in Chains : TaskFitsPhase(chain) /\ TaskIsTrue(chain)
    BY DEF Init, TaskFitsPhase, TaskIsTrue, Running
  <1>8. \A chain \in Chains : EnvIsTrue(chain)
    BY DEF Init, EnvIsTrue, Parts
  <1>9. CompleteIsDeployed
    BY <1>3 DEF CompleteIsDeployed
  <1> QED
    BY <1>6, <1>7, <1>8, <1>9 DEF IInv

LEMMA NextInv ==
    ASSUME IInv, [Next]_vars
    PROVE  IInv'
  <1>1. ASSUME NEW chains \in Selections, NEW dryRun \in BOOLEAN, NEW full \in BOOLEAN,
               NEW reset \in BOOLEAN, RunDeploy(chains, dryRun, full, reset)
        PROVE  IInv'
    BY <1>1, RunDeployStep
  <1>2. ASSUME NEW chains \in Selections, NEW dryRun \in BOOLEAN, RunWire(chains, dryRun)
        PROVE  IInv'
    BY <1>2, RunWireStep
  <1>3. CASE PreflightFails \/ DeploySettles \/ WireSettles
    BY <1>3, EndStep
  <1>4. CASE StartDeploy
    BY <1>4, StartDeployStep
  <1>5. ASSUME NEW chain \in Chains,
               \/ DeployScriptSucceeds(chain) \/ DeployScriptFails(chain)
               \/ DeployScriptTimesOut(chain)
        PROVE  IInv'
    BY <1>5, DeployScriptSucceedsStep, DeployScriptFailsStep, DeployScriptTimesOutStep
  <1>6. CASE TonScriptUnconfirmed
    BY <1>6, TonScriptUnconfirmedStep
  <1>7. CASE StartWire
    BY <1>7, StartWireStep
  <1>8. ASSUME NEW pathway \in Pathways, LaneSkips(pathway) \/ LaneStarts(pathway)
        PROVE  IInv'
    BY <1>8, LaneSkipsStep, LaneStartsStep
  <1>9. ASSUME NEW chain \in Chains,
               \/ WireScriptSucceeds(chain) \/ WireScriptUnconfirmed(chain)
               \/ WireScriptFails(chain) \/ WireScriptTimesOut(chain)
        PROVE  IInv'
    BY <1>9, WireScriptStep
  <1>10. ASSUME NEW chain \in Chains, ScriptLands(chain) \/ ScriptFinds(chain)
         PROVE  IInv'
    BY <1>10, ScriptLandsStep, ScriptFindsStep
  <1>11. ASSUME NEW orphan \in orphans, OrphanLands(orphan[1], orphan[2])
         PROVE  IInv'
    BY <1>11, OrphanLandsStep
  <1>12. CASE Crash
    BY <1>12, CrashStep
  <1>13. CASE UNCHANGED vars
    BY <1>13, StutterStep
  <1> QED
    BY <1>1, <1>2, <1>3, <1>4, <1>5, <1>6, <1>7, <1>8, <1>9, <1>10, <1>11, <1>12, <1>13 DEF Next

\* The inductive invariant of deploy and wire, for any chains, selections of
\* --chains and number of scripts that outlive their process.
THEOREM InductiveInvariant == Spec => []IInv
  BY InitInv, NextInv, PTL DEF Spec

\* The variables keep their types.
THEOREM TypeCorrect == Spec => []TypeOK
  <1>1. IInv => TypeOK
    BY DEF IInv
  <1> QED
    BY <1>1, InductiveInvariant, PTL

\* A chain that is recorded complete, and so never deployed again, has a
\* contract that .env names, and on Sui the one that was initialized.
THEOREM CompleteChainsAreDeployed == Spec => []CompleteIsDeployed
  <1>1. IInv => CompleteIsDeployed
    BY DEF IInv
  <1> QED
    BY <1>1, InductiveInvariant, PTL

LEMMA SettledFrame ==
    ASSUME NEW pathway \in Pathways, Settled(pathway),
           file'.wire[pathway] = file.wire[pathway],
           \A i \in {1, 2} : /\ file'.deploy[pathway[i]] = file.deploy[pathway[i]]
                             /\ env'[pathway[i]] = env[pathway[i]],
           peers'[pathway] = peers[pathway]
    PROVE  Settled(pathway)'
  BY DEF Settled, Wired, Deployed, Current

LEMMA SettledStep ==
    ASSUME IInv, [Next]_vars, NEW pathway \in Pathways, Settled(pathway)
    PROVE  \/ Settled(pathway)'
           \/ file' = DefaultState
           \/ peers' # peers /\ orphans' # orphans
  <1>1. /\ TypeOK /\ file.wire[pathway] = "complete"
        /\ \A i \in {1, 2} : pathway[i] \in Chains /\ file.deploy[pathway[i]] = "complete"
    BY InvComponents DEF Settled, Wired, Deployed, Pathways
  <1>2. CASE UNCHANGED <<file, env, onChain>>
    BY <1>2, SettledFrame DEF onChain
  <1>3. ASSUME NEW chains \in Selections, NEW dryRun \in BOOLEAN, NEW full \in BOOLEAN,
               NEW reset \in BOOLEAN, RunDeploy(chains, dryRun, full, reset)
        PROVE  file' = DefaultState \/ UNCHANGED <<file, env, onChain>>
    BY <1>3 DEF RunDeploy
  <1>4. CASE StartDeploy
    <2> DEFINE pending == {chain \in command.chains : Pending(chain)}
    <2>1. pending \in SUBSET Chains /\ \A i \in {1, 2} : pathway[i] \notin pending
      BY <1>1 DEF TypeOK, Command, Pending
    <2>2. /\ file' = RecordAll(pending, "skipped") \/ file' = RecordAll(pending, "running")
          /\ UNCHANGED <<env, onChain>>
      BY <1>4 DEF StartDeploy
    <2>3. /\ file'.wire = file.wire
          /\ \A chain \in Chains \ pending : file'.deploy[chain] = file.deploy[chain]
      BY <1>1, <2>1, <2>2, RecordsAll DEF Status
    <2> QED
      BY <1>1, <2>1, <2>2, <2>3, SettledFrame DEF onChain
  <1>5. ASSUME NEW chain \in Chains, Running(chain), phase = "deploy",
               \A c \in Chains \ {chain} : file'.deploy[c] = file.deploy[c] /\ env'[c] = env[c],
               file'.wire = file.wire, UNCHANGED onChain
        PROVE  Settled(pathway)'
    <2>1. file.deploy[chain] = "running"
      BY <1>5, InvComponents DEF TaskFitsPhase
    <2>2. \A i \in {1, 2} : pathway[i] # chain
      BY <1>1, <2>1
    <2> QED
      BY <1>1, <1>5, <2>2, SettledFrame DEF onChain
  <1>6. ASSUME NEW chain \in Chains, DeployScriptSucceeds(chain)
        PROVE  Settled(pathway)'
    <2>1. \A c \in Chains \ {chain} : env'[c] = env[c]
      BY <1>1, <1>6 DEF DeployScriptSucceeds, TypeOK
    <2>2. file' = file \/ file' = [file EXCEPT !.deploy[chain] = "complete"]
      BY <1>6 DEF DeployScriptSucceeds
    <2>3. /\ file'.wire = file.wire
          /\ \A c \in Chains \ {chain} : file'.deploy[c] = file.deploy[c]
      BY <1>1, <2>2, DeployStatus DEF Status
    <2> QED
      BY <1>5, <1>6, <2>1, <2>3 DEF DeployScriptSucceeds
  <1>7. CASE TonScriptUnconfirmed
    <2>1. file' = file \/ file' = [file EXCEPT !.deploy["ton"] = "complete"]
      BY <1>7 DEF TonScriptUnconfirmed
    <2>2. /\ file'.wire = file.wire
          /\ \A c \in Chains \ {"ton"} : file'.deploy[c] = file.deploy[c]
      BY <1>1, <1>7, <2>1, DeployStatus DEF Status, TonScriptUnconfirmed
    <2> QED
      BY <1>5, <1>7, <2>2 DEF TonScriptUnconfirmed
  <1>8. ASSUME NEW chain \in Chains, DeployScriptFails(chain)
        PROVE  Settled(pathway)'
    <2>1. /\ file'.wire = file.wire
          /\ \A c \in Chains \ {chain} : file'.deploy[c] = file.deploy[c]
      BY <1>1, <1>8, DeployStatus DEF Status, DeployScriptFails
    <2> QED
      BY <1>5, <1>8, <2>1 DEF DeployScriptFails
  <1>9. ASSUME NEW other \in Pathways, NEW status \in Status, other # pathway,
               file' = [file EXCEPT !.wire[other] = status], UNCHANGED <<env, onChain>>
        PROVE  Settled(pathway)'
    <2>1. file'.deploy = file.deploy /\ file'.wire[pathway] = file.wire[pathway]
      BY <1>1, <1>9, WireStatus
    <2> QED
      BY <1>9, <2>1, SettledFrame DEF onChain
  <1>10. ASSUME NEW other \in Pathways, LaneSkips(other) \/ LaneStarts(other)
         PROVE  Settled(pathway)'
    <2>1. CASE file' = file
      <3>1. UNCHANGED <<env, onChain>>
        BY <1>10 DEF LaneSkips, LaneStarts
      <3> QED
        BY <2>1, <3>1, SettledFrame DEF onChain
    <2>2. CASE file' # file
      <3>1. PICK status \in Status : file' = [file EXCEPT !.wire[other] = status]
        BY <1>10, <2>2 DEF LaneSkips, LaneStarts, Status
      <3>2. other # pathway
        BY <1>1, <1>10, <2>2 DEF LaneSkips, LaneStarts, Wired
      <3> QED
        BY <1>9, <1>10, <3>1, <3>2 DEF LaneSkips, LaneStarts
    <2> QED
      BY <2>1, <2>2
  <1>11. ASSUME NEW chain \in Chains, NEW status \in Status, LaneEnds(chain, status)
         PROVE  Settled(pathway)'
    <2>1. /\ <<chain, tasks[chain].script.to>> \in Pathways
          /\ file.wire[<<chain, tasks[chain].script.to>>] = "running"
      BY <1>11, InvComponents DEF LaneEnds, TaskFitsPhase
    <2> QED
      BY <1>1, <1>9, <1>11, <2>1 DEF LaneEnds
  <1>12. ASSUME NEW chain \in Chains, ScriptLands(chain)
         PROVE  Settled(pathway)'
    <2> DEFINE script == tasks[chain].script
    <2>1. /\ Running(chain) /\ script \in Script /\ Lands(chain, script)
          /\ UNCHANGED <<file, env>>
      BY <1>1, <1>12, RunningTask DEF ScriptLands
    <2>2. /\ script.step # "wire" => UNCHANGED peers
          /\ \A p \in Pathways \ {<<chain, script.to>>} : peers'[p] = peers[p]
      BY <1>1, <2>1, LandsFacts
    <2>3. script.step = "wire" => file.wire[<<chain, script.to>>] = "running"
      BY <2>1, InvComponents, ScriptsShape DEF TaskFitsPhase, Parts
    <2>4. peers'[pathway] = peers[pathway]
      BY <1>1, <2>2, <2>3
    <2> QED
      BY <2>1, <2>4, SettledFrame
  <1>13. ASSUME NEW orphan \in orphans, OrphanLands(orphan[1], orphan[2])
         PROVE  Settled(pathway)' \/ (peers' # peers /\ orphans' # orphans)
    <2>1. /\ UNCHANGED <<file, env>> /\ orphans' = orphans \ {<<orphan[1], orphan[2]>>}
          /\ orphan = <<orphan[1], orphan[2]>>
      BY <1>1, <1>13 DEF OrphanLands, TypeOK
    <2>2. orphans' # orphans
      BY <2>1
    <2>3. peers' = peers => Settled(pathway)'
      BY <2>1, SettledFrame
    <2> QED
      BY <2>2, <2>3
  <1>14. ASSUME NEW chain \in Chains,
                \/ WireScriptSucceeds(chain) \/ WireScriptUnconfirmed(chain)
                \/ WireScriptFails(chain) \/ WireScriptTimesOut(chain)
         PROVE  Settled(pathway)'
    <2>1. LaneEnds(chain, "complete") \/ LaneEnds(chain, "failed")
      BY <1>14 DEF WireScriptSucceeds, WireScriptUnconfirmed, WireScriptFails, WireScriptTimesOut
    <2> QED
      BY <1>11, <2>1 DEF Status
  <1>15. ASSUME \/ PreflightFails \/ DeploySettles \/ WireSettles \/ StartWire \/ Crash
                \/ UNCHANGED vars
                \/ \E chains \in Selections, dryRun \in BOOLEAN : RunWire(chains, dryRun)
                \/ \E chain \in Chains : DeployScriptTimesOut(chain) \/ ScriptFinds(chain)
         PROVE  UNCHANGED <<file, env, onChain>>
    BY <1>15 DEF PreflightFails, DeploySettles, WireSettles, StartWire, Crash, RunWire,
                 DeployScriptTimesOut, ScriptFinds, vars, onChain
  <1> QED
    BY <1>2, <1>3, <1>4, <1>6, <1>7, <1>8, <1>10, <1>12, <1>13, <1>14, <1>15 DEF Next

\* Resuming undoes nothing but by --reset or a script that outlived its
\* process: what is complete and current at both ends stays so.
THEOREM ResumingUndoesNothing == Spec => SettledStaysSettled
  <1>1. IInv /\ [Next]_vars =>
           [\A pathway \in Pathways : Settled(pathway) =>
               \/ Settled(pathway)'
               \/ file' = DefaultState
               \/ peers' # peers /\ orphans' # orphans]_vars
    BY SettledStep
  <1> QED
    BY <1>1, InductiveInvariant, PTL DEF Spec, SettledStaysSettled
=============================================================================
