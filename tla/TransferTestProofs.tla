-------------------------- MODULE TransferTestProofs --------------------------
(***************************************************************************)
(* Proofs about the wire scripts and the transfers over them, for every    *)
(* subset of the chains, whatever LayerZero's own confirmations are, and   *)
(* for any number of transfers.                                            *)
(***************************************************************************)
EXTENDS TransferTest, TLAPS

(***************************************************************************)
(* The scripts                                                             *)
(***************************************************************************)

\* What the proofs use of the scripts: few steps, none twice, and the delegate
\* of Starknet, which a deployment may have set already, comes first.
LEMMA ScriptShape ==
    ASSUME NEW chain \in Chains
    PROVE  /\ \E n \in 4 .. 9 : DOMAIN Steps(chain) = 1 .. n
           /\ \A i, j \in DOMAIN Steps(chain) : Steps(chain)[i] = Steps(chain)[j] => i = j
           /\ \A i \in DOMAIN Steps(chain) : Steps(chain)[i] = "delegate" => i = 1
<1>1. CASE chain = "arbitrum"
  <2>1. Steps(chain) = <<"peer", "options", "sendConfig", "receiveConfig">>
    BY <1>1 DEF Steps, Scripts, WireFromEvm
  <2>2. DOMAIN Steps(chain) = 1 .. 4
    BY <2>1
  <2>q. QED  BY <2>1, <2>2
<1>2. CASE chain = "solana"
  <2>1. Steps(chain) = <<"initSendLibrary", "initReceiveLibrary", "initOAppNonce", "initConfig",
                         "peer", "options", "sendConfig", "receiveConfig", "executor">>
    BY <1>2 DEF Steps, Scripts, WireFromSolana
  <2>2. DOMAIN Steps(chain) = 1 .. 9
    BY <2>1
  <2>q. QED  BY <2>1, <2>2
<1>3. CASE chain = "starknet"
  <2>1. Steps(chain) = <<"delegate", "sendConfig", "receiveConfig", "options", "peer">>
    BY <1>3 DEF Steps, Scripts, WireFromStarknet
  <2>2. DOMAIN Steps(chain) = 1 .. 5
    BY <2>1
  <2>q. QED  BY <2>1, <2>2
<1>4. CASE chain = "sui"
  <2>1. Steps(chain) = <<"sendConfig", "receiveConfig", "options", "peer">>
    BY <1>4 DEF Steps, Scripts, WireFromSui
  <2>2. DOMAIN Steps(chain) = 1 .. 4
    BY <2>1
  <2>q. QED  BY <2>1, <2>2
<1>5. CASE chain = "ton"
  <2>1. Steps(chain) = <<"peer", "options", "epSend", "epReceive", "receiveConfig">>
    BY <1>5 DEF Steps, Scripts, WireFromTon
  <2>2. DOMAIN Steps(chain) = 1 .. 5
    BY <2>1
  <2>q. QED  BY <2>1, <2>2
<1>q. QED  BY <1>1, <1>2, <1>3, <1>4, <1>5, WiringAssumption DEF ChainNames

LEMMA PathwayShape ==
    ASSUME NEW p \in Pathways
    PROVE  /\ p[1] \in Chains /\ p[2] \in Chains
           /\ p = <<p[1], p[2]>>
           /\ Back(p) \in Pathways /\ Back(Back(p)) = p
BY DEF Pathways, Back, Blocked

LEMMA StepFacts ==
    ASSUME WiringTypeOK, ScriptsHaveInsisted,
           NEW chain \in Chains, Running(chain)
    PROVE  /\ Pathway(chain) \in Pathways
           /\ Pathway(chain)[1] = chain
           /\ script[chain].to \in Chains
           /\ script[chain].pc \in 1 .. 10
           /\ AtStep(chain) => /\ script[chain].pc \in 1 .. 9
                               /\ Step(chain) \in Settings(chain)
<1>1. script[chain] \in [to : Chains, pc : 1 .. 10]
  BY DEF WiringTypeOK, Script, Running
<1>2. Pathway(chain) \in Pathways /\ Pathway(chain)[1] = chain
  BY DEF ScriptsHaveInsisted, Running, Pathway
<1>3. ASSUME AtStep(chain)
      PROVE  script[chain].pc \in 1 .. 9 /\ Step(chain) \in Settings(chain)
  BY <1>1, <1>3, ScriptShape DEF AtStep, Step, Settings
<1>q. QED  BY <1>1, <1>2, <1>3

(***************************************************************************)
(* The invariant of the wire scripts                                       *)
(***************************************************************************)
AllSettings == UNION {Settings(chain) : chain \in Chains}

LEMMA InitWiringInv == WiringInit => WiringInv
<1> SUFFICES ASSUME WiringInit  PROVE WiringInv
  OBVIOUS
<1> USE DEF WiringInit
<1>1. \A p \in Pathways : settings[p] \subseteq {"delegate"} /\ settings[p] \subseteq Settings(p[1])
  OBVIOUS
<1>2. WiringTypeOK
  <2>1. settings \in [Pathways -> SUBSET AllSettings]
    BY <1>1, PathwayShape DEF AllSettings
  <2>q. QED  BY <2>1 DEF WiringTypeOK, Script, AllSettings
<1>3. ScriptsHaveInsisted
  BY DEF ScriptsHaveInsisted
<1>4. OnlyWireHasScripts
  BY DEF OnlyWireHasScripts
<1>5. CompleteHasFatal
  BY DEF CompleteHasFatal
<1>6. FatalComeFirst
  <2> SUFFICES ASSUME NEW p \in Pathways, NEW i \in DOMAIN Steps(p[1]), NEW j \in DOMAIN Steps(p[1]),
                      i < j, Steps(p[1])[j] \in settings[p]
               PROVE  FALSE
    BY DEF FatalComeFirst
  <2>1. p[1] \in Chains
    BY PathwayShape
  <2>2. Steps(p[1])[j] = "delegate"
    BY <1>1
  <2>q. QED  BY <2>1, <2>2, ScriptShape
<1>q. QED  BY <1>2, <1>3, <1>4, <1>5, <1>6 DEF WiringInv

\* Nothing is ever unset: what a script has insisted on stays.
LEMMA SettingsGrow ==
    ASSUME WiringTypeOK, ScriptsHaveInsisted, WiringNext
    PROVE  \A p \in Pathways : settings[p] \subseteq settings'[p]
<1>1. ASSUME NEW chain \in Chains, Running(chain), Lands(chain)
      PROVE  \A p \in Pathways : settings[p] \subseteq settings'[p]
  BY <1>1, StepFacts DEF Lands, WiringTypeOK
<1>2. ASSUME NEW chain \in Chains, LaneStep(chain)
      PROVE  \A p \in Pathways : settings[p] \subseteq settings'[p]
  BY <1>1, <1>2 DEF LaneStep, StepSucceeds, StepIsMissed, ScriptFails, ScriptEnds
<1>3. CASE InterruptWire
  BY <1>3 DEF InterruptWire
<1>4. CASE \/ \E chains \in SUBSET Chains : StartWire(chains)
           \/ \E p \in Pathways : SkipWired(p) \/ RunScript(p)
           \/ WireEnds \/ Calms
  BY <1>4 DEF StartWire, SkipWired, RunScript, WireEnds, Calms
<1>q. QED  BY <1>2, <1>3, <1>4 DEF WiringNext

\* A step of a script, successful or not, that leaves its process as it is.
LEMMA StepSucceedsInv ==
    ASSUME WiringInv, NEW chain \in Chains, StepSucceeds(chain)
    PROVE  WiringInv'
<1> DEFINE p0 == Pathway(chain)
<1>0. /\ WiringTypeOK /\ ScriptsHaveInsisted /\ Running(chain) /\ AtStep(chain)
      /\ UNCHANGED <<wire, todo, process, calm>>
  BY DEF WiringInv, StepSucceeds, GoesOn
<1>1. /\ p0 \in Pathways /\ p0[1] = chain
      /\ script[chain].to \in Chains /\ script[chain].pc \in 1 .. 9
      /\ Step(chain) \in Settings(chain)
  BY <1>0, StepFacts
<1>2. settings' = [settings EXCEPT ![p0] = @ \cup {Step(chain)}]
  BY DEF StepSucceeds, Lands
<1>3. script' = [script EXCEPT ![chain] = [to |-> script[chain].to, pc |-> script[chain].pc + 1]]
  BY DEF StepSucceeds, GoesOn
<1>4. settings \in [Pathways -> SUBSET AllSettings] /\ script \in [Chains -> Script]
  BY <1>0 DEF WiringTypeOK, AllSettings
<1>5. \A p \in Pathways : settings'[p] = IF p = p0 THEN settings[p] \cup {Step(chain)} ELSE settings[p]
  BY <1>1, <1>2, <1>4
<1>6. WiringTypeOK'
  <2>1. settings' \in [Pathways -> SUBSET AllSettings]
    BY <1>1, <1>2, <1>4 DEF AllSettings
  <2>2. [to |-> script[chain].to, pc |-> script[chain].pc + 1] \in Script
    BY <1>1 DEF Script
  <2>3. script' \in [Chains -> Script]
    BY <1>3, <1>4, <2>2
  <2>q. QED  BY <1>0, <2>1, <2>3 DEF WiringTypeOK, AllSettings
<1>7. ScriptsHaveInsisted'
  <2> SUFFICES ASSUME NEW c \in Chains, script'[c] # NoScript
               PROVE  /\ Pathway(c)' \in Pathways
                      /\ \A i \in DOMAIN Steps(c) :
                             i < script'[c].pc /\ Steps(c)[i] \in Fatal(c)
                                 => Steps(c)[i] \in settings'[Pathway(c)']
    BY DEF ScriptsHaveInsisted
  <2>1. CASE c # chain
    <3>1. script'[c] = script[c] /\ Pathway(c)' = Pathway(c)
      BY <1>3, <1>4, <2>1 DEF Pathway
    <3>q. QED  BY <1>0, <1>5, <3>1 DEF ScriptsHaveInsisted
  <2>2. CASE c = chain
    <3>1. script'[c].to = script[c].to /\ script'[c].pc = script[c].pc + 1
      BY <1>3, <1>4, <2>2
    <3>2. Pathway(c)' = p0
      BY <3>1, <2>2 DEF Pathway
    <3>3. \A i \in DOMAIN Steps(c) : i < script[c].pc /\ Steps(c)[i] \in Fatal(c)
                                         => Steps(c)[i] \in settings[p0]
      BY <1>0, <2>2 DEF ScriptsHaveInsisted, Running
    <3>4. Steps(c)[script[c].pc] \in settings'[p0]
      BY <1>1, <1>5, <2>2 DEF Step
    <3>5. \A i \in DOMAIN Steps(c) : i < script'[c].pc => i < script[c].pc \/ i = script[c].pc
      BY <1>1, <2>2, <3>1, ScriptShape
    <3>q. QED  BY <1>1, <1>5, <3>2, <3>3, <3>4, <3>5
  <2>q. QED  BY <2>1, <2>2
<1>8. OnlyWireHasScripts'
  BY <1>0 DEF OnlyWireHasScripts, Running
<1>9. CompleteHasFatal'
  BY <1>0, <1>5 DEF CompleteHasFatal, WiringInv
<1>10. FatalComeFirst'
  <2> SUFFICES ASSUME NEW p \in Pathways, NEW i \in DOMAIN Steps(p[1]), NEW j \in DOMAIN Steps(p[1]),
                      i < j, Steps(p[1])[j] \in settings'[p], Steps(p[1])[i] \in Fatal(p[1])
               PROVE  Steps(p[1])[i] \in settings'[p]
    BY DEF FatalComeFirst
  <2>1. CASE Steps(p[1])[j] \in settings[p]
    <3>1. Steps(p[1])[i] \in settings[p]
      BY <2>1 DEF FatalComeFirst, WiringInv
    <3>q. QED  BY <1>5, <3>1
  <2>2. CASE Steps(p[1])[j] \notin settings[p]
    <3>0. p = p0 /\ Steps(p[1])[j] = Step(chain)
      <4> HIDE DEF p0
      <4>1. p = p0
        BY <1>5, <2>2, Zenon
      <4>2. settings'[p] = settings[p] \cup {Step(chain)}
        BY <1>5, <4>1, Zenon
      <4>3. Steps(p[1])[j] \in settings[p] \cup {Step(chain)}
        BY <4>2, Zenon
      <4>q. QED  BY <2>2, <4>1, <4>3
    <3>1. p = p0 /\ Steps(chain)[j] = Steps(chain)[script[chain].pc]
      <4> HIDE DEF p0
      <4>1. p[1] = chain
        BY <1>1, <3>0
      <4>q. QED  BY <3>0, <4>1, Zenon DEF Step
    <3>2. j = script[chain].pc
      BY <1>0, <1>1, <3>1, ScriptShape DEF AtStep
    <3>q. QED  BY <1>0, <1>1, <1>5, <3>1, <3>2 DEF ScriptsHaveInsisted, Running
  <2>q. QED  BY <2>1, <2>2
<1>q. QED  BY <1>6, <1>7, <1>8, <1>9, <1>10 DEF WiringInv

LEMMA StepIsMissedInv ==
    ASSUME WiringInv, NEW chain \in Chains, StepIsMissed(chain)
    PROVE  WiringInv'
<1>0. /\ WiringTypeOK /\ ScriptsHaveInsisted /\ Running(chain) /\ AtStep(chain)
      /\ Step(chain) \in Survives(chain)
      /\ UNCHANGED <<settings, wire, todo, process, calm>>
      /\ script' = [script EXCEPT ![chain] = [to |-> script[chain].to, pc |-> script[chain].pc + 1]]
  BY DEF WiringInv, StepIsMissed, GoesOn
<1>1. /\ Pathway(chain) \in Pathways
      /\ script[chain].to \in Chains /\ script[chain].pc \in 1 .. 9
  BY <1>0, StepFacts
<1>2. script \in [Chains -> Script]
  BY <1>0 DEF WiringTypeOK
<1>3. WiringTypeOK'
  <2>1. [to |-> script[chain].to, pc |-> script[chain].pc + 1] \in Script
    BY <1>1 DEF Script
  <2>2. script' \in [Chains -> Script]
    BY <1>0, <1>2, <2>1
  <2>q. QED  BY <1>0, <2>2 DEF WiringTypeOK
<1>4. ScriptsHaveInsisted'
  <2> SUFFICES ASSUME NEW c \in Chains, script'[c] # NoScript
               PROVE  /\ Pathway(c)' \in Pathways
                      /\ \A i \in DOMAIN Steps(c) :
                             i < script'[c].pc /\ Steps(c)[i] \in Fatal(c)
                                 => Steps(c)[i] \in settings'[Pathway(c)']
    BY DEF ScriptsHaveInsisted
  <2>1. CASE c # chain
    <3>1. script'[c] = script[c] /\ Pathway(c)' = Pathway(c)
      BY <1>0, <1>2, <2>1 DEF Pathway
    <3>q. QED  BY <1>0, <3>1 DEF ScriptsHaveInsisted
  <2>2. CASE c = chain
    <3>1. script'[c].to = script[c].to /\ script'[c].pc = script[c].pc + 1
      BY <1>0, <1>2, <2>2
    <3>2. Pathway(c)' = Pathway(chain)
      BY <3>1, <2>2 DEF Pathway
    <3>3. Steps(c)[script[c].pc] \notin Fatal(c)
      BY <1>0, <2>2 DEF Step, Fatal
    <3>4. \A i \in DOMAIN Steps(c) : i < script'[c].pc => i < script[c].pc \/ i = script[c].pc
      BY <1>1, <2>2, <3>1, ScriptShape
    <3>q. QED  BY <1>0, <1>1, <2>2, <3>2, <3>3, <3>4 DEF ScriptsHaveInsisted, Running
  <2>q. QED  BY <2>1, <2>2
<1>5. OnlyWireHasScripts'
  BY <1>0 DEF OnlyWireHasScripts, Running
<1>6. CompleteHasFatal' /\ FatalComeFirst'
  BY <1>0 DEF CompleteHasFatal, FatalComeFirst, WiringInv
<1>q. QED  BY <1>3, <1>4, <1>5, <1>6 DEF WiringInv

\* What happens to the other scripts when one exits.
LEMMA ExitKeepsOthers ==
    ASSUME WiringTypeOK, ScriptsHaveInsisted, NEW chain \in Chains,
           script' = [script EXCEPT ![chain] = NoScript],
           \A p \in Pathways : settings[p] \subseteq settings'[p]
    PROVE  script' \in [Chains -> Script] /\ ScriptsHaveInsisted'
<1>1. script \in [Chains -> Script] /\ NoScript \in Script
  BY DEF WiringTypeOK, Script
<1>2. script' \in [Chains -> Script]
  BY <1>1
<1>3. \A c \in Chains : script'[c] # NoScript =>
          script'[c] = script[c] /\ Pathway(c)' = Pathway(c)
  BY <1>1 DEF Pathway
<1>q. QED  BY <1>2, <1>3 DEF ScriptsHaveInsisted

LEMMA ScriptFailsInv ==
    ASSUME WiringInv, NEW chain \in Chains, ScriptFails(chain)
    PROVE  WiringInv'
<1>0. /\ WiringTypeOK /\ ScriptsHaveInsisted /\ OnlyWireHasScripts /\ CompleteHasFatal /\ FatalComeFirst
      /\ Running(chain)
      /\ wire' = [wire EXCEPT ![Pathway(chain)] = "failed"]
      /\ script' = [script EXCEPT ![chain] = NoScript]
      /\ UNCHANGED <<todo, process, calm>>
  BY DEF WiringInv, ScriptFails, Exits
<1>1. Pathway(chain) \in Pathways /\ Pathway(chain)[1] = chain /\ script[chain].pc \in 1 .. 10
  BY <1>0, StepFacts
<1>2. \/ UNCHANGED settings
      \/ /\ AtStep(chain)
         /\ settings' = [settings EXCEPT ![Pathway(chain)] = @ \cup {Step(chain)}]
  BY DEF ScriptFails, Lands
<1>3. settings \in [Pathways -> SUBSET AllSettings]
  BY <1>0 DEF WiringTypeOK, AllSettings
<1>4. AtStep(chain) => Step(chain) \in AllSettings
  BY <1>0, StepFacts DEF AllSettings
<1>5. settings' \in [Pathways -> SUBSET AllSettings]
  BY <1>1, <1>2, <1>3, <1>4
<1>6. \A p \in Pathways : settings[p] \subseteq settings'[p]
  BY <1>1, <1>2, <1>3
<1>7. script' \in [Chains -> Script] /\ ScriptsHaveInsisted'
  BY <1>0, <1>6, ExitKeepsOthers
<1>8. WiringTypeOK'
  BY <1>0, <1>1, <1>5, <1>7 DEF WiringTypeOK, AllSettings
<1>9. OnlyWireHasScripts'
  BY <1>0 DEF OnlyWireHasScripts, Running
<1>10. CompleteHasFatal'
  <2>1. \A p \in Pathways : wire'[p] = "complete" => wire[p] = "complete"
    BY <1>0, <1>1 DEF WiringTypeOK
  <2>q. QED  BY <1>0, <1>6, <2>1 DEF CompleteHasFatal
<1>11. FatalComeFirst'
  <2> SUFFICES ASSUME NEW p \in Pathways, NEW i \in DOMAIN Steps(p[1]), NEW j \in DOMAIN Steps(p[1]),
                      i < j, Steps(p[1])[j] \in settings'[p], Steps(p[1])[i] \in Fatal(p[1])
               PROVE  Steps(p[1])[i] \in settings'[p]
    BY DEF FatalComeFirst
  <2>1. CASE Steps(p[1])[j] \in settings[p]
    BY <1>0, <1>6, <2>1 DEF FatalComeFirst
  <2>2. CASE Steps(p[1])[j] \notin settings[p]
    <3>1. /\ p = Pathway(chain) /\ AtStep(chain)
          /\ Steps(chain)[j] = Steps(chain)[script[chain].pc]
      BY <1>1, <1>2, <1>3, <2>2 DEF Step
    <3>2. j = script[chain].pc
      BY <1>1, <3>1, ScriptShape DEF AtStep
    <3>q. QED  BY <1>0, <1>1, <1>6, <3>1, <3>2 DEF ScriptsHaveInsisted, Running
  <2>q. QED  BY <2>1, <2>2
<1>q. QED  BY <1>7, <1>8, <1>9, <1>10, <1>11 DEF WiringInv

\* A script that comes to its end has made all that it insists on.
LEMMA ScriptEndsInv ==
    ASSUME WiringInv, NEW chain \in Chains, ScriptEnds(chain)
    PROVE  WiringInv'
<1>0. /\ WiringTypeOK /\ ScriptsHaveInsisted /\ OnlyWireHasScripts /\ CompleteHasFatal /\ FatalComeFirst
      /\ Running(chain) /\ ~ AtStep(chain)
      /\ wire' = [wire EXCEPT ![Pathway(chain)] = "complete"]
      /\ script' = [script EXCEPT ![chain] = NoScript]
      /\ UNCHANGED <<settings, todo, process, calm>>
  BY DEF WiringInv, ScriptEnds, Exits
<1>1. Pathway(chain) \in Pathways /\ Pathway(chain)[1] = chain /\ script[chain].pc \in 1 .. 10
  BY <1>0, StepFacts
<1>2. script' \in [Chains -> Script] /\ ScriptsHaveInsisted'
  BY <1>0, ExitKeepsOthers
<1>3. WiringTypeOK'
  BY <1>0, <1>1, <1>2 DEF WiringTypeOK
<1>4. OnlyWireHasScripts'
  BY <1>0 DEF OnlyWireHasScripts, Running
<1>5. Fatal(chain) \subseteq settings[Pathway(chain)]
  <2>1. \A i \in DOMAIN Steps(chain) : i < script[chain].pc
    BY <1>0, <1>1, ScriptShape DEF AtStep
  <2>2. \A setting \in Fatal(chain) : \E i \in DOMAIN Steps(chain) : setting = Steps(chain)[i]
    BY DEF Fatal, Settings
  <2>q. QED  BY <1>0, <2>1, <2>2 DEF ScriptsHaveInsisted, Running
<1>6. CompleteHasFatal'
  <2>1. \A p \in Pathways : wire'[p] = "complete" => wire[p] = "complete" \/ p = Pathway(chain)
    BY <1>0, <1>1 DEF WiringTypeOK
  <2>q. QED  BY <1>0, <1>1, <1>5, <2>1 DEF CompleteHasFatal
<1>7. FatalComeFirst'
  BY <1>0 DEF FatalComeFirst
<1>q. QED  BY <1>2, <1>3, <1>4, <1>6, <1>7 DEF WiringInv

LEMMA RunScriptInv ==
    ASSUME WiringInv, NEW p \in Pathways, RunScript(p)
    PROVE  WiringInv'
<1>0. /\ WiringTypeOK /\ ScriptsHaveInsisted /\ OnlyWireHasScripts /\ CompleteHasFatal /\ FatalComeFirst
      /\ process = "wire"
      /\ wire' = [wire EXCEPT ![p] = "running"]
      /\ script' = [script EXCEPT ![p[1]] = [to |-> p[2], pc |-> 1]]
      /\ todo' = todo \ {p}
      /\ UNCHANGED <<settings, process, calm>>
  BY DEF WiringInv, RunScript, IsNext
<1>1. p[1] \in Chains /\ p[2] \in Chains /\ p = <<p[1], p[2]>>
  BY PathwayShape
<1>2. script \in [Chains -> Script] /\ [to |-> p[2], pc |-> 1] \in Script
  BY <1>0, <1>1 DEF WiringTypeOK, Script
<1>3. WiringTypeOK'
  <2>1. script' \in [Chains -> Script]
    BY <1>0, <1>2
  <2>q. QED  BY <1>0, <2>1 DEF WiringTypeOK
<1>4. ScriptsHaveInsisted'
  <2> SUFFICES ASSUME NEW c \in Chains, script'[c] # NoScript
               PROVE  /\ Pathway(c)' \in Pathways
                      /\ \A i \in DOMAIN Steps(c) :
                             i < script'[c].pc /\ Steps(c)[i] \in Fatal(c)
                                 => Steps(c)[i] \in settings'[Pathway(c)']
    BY DEF ScriptsHaveInsisted
  <2>1. CASE c # p[1]
    <3>1. script'[c] = script[c] /\ Pathway(c)' = Pathway(c)
      BY <1>0, <1>2, <2>1 DEF Pathway
    <3>q. QED  BY <1>0, <3>1 DEF ScriptsHaveInsisted
  <2>2. CASE c = p[1]
    <3>1. script'[c].to = p[2] /\ script'[c].pc = 1
      BY <1>0, <1>2, <2>2
    <3>2. Pathway(c)' = p
      BY <1>1, <3>1, <2>2 DEF Pathway
    <3>3. \A i \in DOMAIN Steps(c) : ~ (i < script'[c].pc)
      BY <3>1, ScriptShape
    <3>q. QED  BY <3>2, <3>3
  <2>q. QED  BY <2>1, <2>2
<1>5. OnlyWireHasScripts'
  BY <1>0 DEF OnlyWireHasScripts
<1>6. CompleteHasFatal'
  <2>1. \A q \in Pathways : wire'[q] = "complete" => wire[q] = "complete"
    BY <1>0 DEF WiringTypeOK
  <2>q. QED  BY <1>0, <2>1 DEF CompleteHasFatal
<1>7. FatalComeFirst'
  BY <1>0 DEF FatalComeFirst
<1>q. QED  BY <1>3, <1>4, <1>5, <1>6, <1>7 DEF WiringInv

\* Transactions on their way when the process is interrupted: each of them the
\* step that its script is at.
LEMMA InterruptWireInv ==
    ASSUME WiringInv, InterruptWire
    PROVE  WiringInv'
<1>0. /\ WiringTypeOK /\ ScriptsHaveInsisted /\ CompleteHasFatal /\ FatalComeFirst
      /\ script' = [chain \in Chains |-> NoScript]
      /\ todo' = {} /\ UNCHANGED <<wire, calm>>
  BY DEF WiringInv, InterruptWire
<1>1. PICK sent \in SUBSET {chain \in Chains : Running(chain) /\ AtStep(chain) /\ Allowed(chain)} :
          settings' = [p \in Pathways |->
              IF p[1] \in sent /\ p = Pathway(p[1]) THEN settings[p] \cup {Step(p[1])} ELSE settings[p]]
  BY DEF InterruptWire
<1>2. settings \in [Pathways -> SUBSET AllSettings]
  BY <1>0 DEF WiringTypeOK, AllSettings
<1>3. \A chain \in sent : /\ chain \in Chains /\ Running(chain) /\ AtStep(chain)
                          /\ script[chain].pc \in 1 .. 10
                          /\ Step(chain) \in AllSettings
  BY <1>0, <1>1, StepFacts DEF AllSettings
<1>4. settings' \in [Pathways -> SUBSET AllSettings]
  BY <1>1, <1>2, <1>3
<1>5. \A p \in Pathways : settings[p] \subseteq settings'[p]
  BY <1>1
<1>6. WiringTypeOK'
  BY <1>0, <1>4 DEF WiringTypeOK, AllSettings, Script
<1>7. ScriptsHaveInsisted' /\ OnlyWireHasScripts'
  BY <1>0 DEF ScriptsHaveInsisted, OnlyWireHasScripts
<1>8. CompleteHasFatal'
  BY <1>0, <1>5 DEF CompleteHasFatal
<1>9. FatalComeFirst'
  <2> SUFFICES ASSUME NEW p \in Pathways, NEW i \in DOMAIN Steps(p[1]), NEW j \in DOMAIN Steps(p[1]),
                      i < j, Steps(p[1])[j] \in settings'[p], Steps(p[1])[i] \in Fatal(p[1])
               PROVE  Steps(p[1])[i] \in settings'[p]
    BY DEF FatalComeFirst
  <2>1. CASE Steps(p[1])[j] \in settings[p]
    BY <1>0, <1>5, <2>1 DEF FatalComeFirst
  <2>2. CASE Steps(p[1])[j] \notin settings[p]
    <3>1. /\ p[1] \in sent /\ p = Pathway(p[1])
          /\ Steps(p[1])[j] = Steps(p[1])[script[p[1]].pc]
      BY <1>1, <2>2 DEF Step
    <3>2. j = script[p[1]].pc
      BY <1>3, <3>1, ScriptShape DEF AtStep
    <3>q. QED  BY <1>0, <1>3, <1>5, <3>1, <3>2 DEF ScriptsHaveInsisted, Running
  <2>q. QED  BY <2>1, <2>2
<1>q. QED  BY <1>6, <1>7, <1>8, <1>9 DEF WiringInv

LEMMA WiringStep == WiringInv /\ WiringNext => WiringInv'
<1> SUFFICES ASSUME WiringInv, WiringNext  PROVE WiringInv'
  OBVIOUS
<1> USE DEF WiringInv
<1>1. ASSUME NEW chains \in SUBSET Chains, StartWire(chains)  PROVE WiringInv'
  BY <1>1 DEF StartWire, WiringTypeOK, ScriptsHaveInsisted, Pathway, OnlyWireHasScripts,
              CompleteHasFatal, FatalComeFirst
<1>2. ASSUME NEW p \in Pathways, SkipWired(p)  PROVE WiringInv'
  BY <1>2 DEF SkipWired, IsNext, WiringTypeOK, ScriptsHaveInsisted, Pathway, OnlyWireHasScripts,
              CompleteHasFatal, FatalComeFirst
<1>3. ASSUME NEW chain \in Chains, LaneStep(chain)  PROVE WiringInv'
  BY <1>3, StepSucceedsInv, StepIsMissedInv, ScriptFailsInv, ScriptEndsInv DEF LaneStep
<1>4. CASE WireEnds
  BY <1>4 DEF WireEnds, WiringTypeOK, ScriptsHaveInsisted, Pathway, OnlyWireHasScripts,
              CompleteHasFatal, FatalComeFirst
<1>5. CASE Calms
  BY <1>5 DEF Calms, WiringTypeOK, ScriptsHaveInsisted, Pathway, OnlyWireHasScripts,
              CompleteHasFatal, FatalComeFirst
<1>q. QED  BY <1>1, <1>2, <1>3, <1>4, <1>5, RunScriptInv, InterruptWireInv DEF WiringNext

(***************************************************************************)
(* The invariant of the tests                                              *)
(***************************************************************************)
Transfer == [pathway : HubRoutes, confirmations : Nat, delivered : BOOLEAN]

LEMMA HubRouteIsPathway ==
    ASSUME NEW p \in HubRoutes
    PROVE  p \in Pathways
BY DEF HubRoutes, Outbound, Returns

LEMMA ConfirmationsTyped ==
    ASSUME NEW p \in Pathways
    PROVE  /\ SendConfirmations(p) \in Nat
           /\ DefaultConfirmations[p[1]] \in Nat \ {0}
BY PathwayShape, WiringAssumption
   DEF SendConfirmations, GasConfirmations, ChainNames

\* Transfers are appended, and once delivered they stay so.
TransfersGrow ==
    /\ DOMAIN transfers \subseteq DOMAIN transfers'
    /\ \A i \in DOMAIN transfers :
          /\ transfers'[i].pathway = transfers[i].pathway
          /\ transfers'[i].confirmations = transfers[i].confirmations
          /\ transfers[i].delivered => transfers'[i].delivered

LEMMA DeliverSteps ==
    ASSUME TypeOK, NEW i \in DOMAIN transfers, Deliver(i)
    PROVE  /\ transfers' \in Seq(Transfer)
           /\ DOMAIN transfers' = DOMAIN transfers
           /\ \A j \in DOMAIN transfers :
                 /\ transfers'[j].pathway = transfers[j].pathway
                 /\ transfers'[j].confirmations = transfers[j].confirmations
                 /\ transfers'[j].delivered = (transfers[j].delivered \/ j = i)
           /\ TransfersGrow
<1>1. transfers \in Seq(Transfer)
  BY DEF TypeOK, Transfer
<1>2. transfers' = [transfers EXCEPT ![i].delivered = TRUE]
  BY DEF Deliver
<1>3. \A j \in DOMAIN transfers : transfers[j] \in Transfer
  BY <1>1
<1>4. transfers'[i] = [transfers[i] EXCEPT !.delivered = TRUE]
  BY <1>2
<1>5. \A j \in DOMAIN transfers : j # i => transfers'[j] = transfers[j]
  BY <1>2
<1>6. DOMAIN transfers' = DOMAIN transfers
  BY <1>2
<1>7. transfers[i] \in Transfer
  BY <1>3
<1>8. /\ transfers'[i] \in Transfer /\ transfers'[i].delivered
      /\ transfers'[i].pathway = transfers[i].pathway
      /\ transfers'[i].confirmations = transfers[i].confirmations
  BY <1>4, <1>7 DEF Transfer
<1>9. \A j \in DOMAIN transfers : transfers'[j] \in Transfer
  BY <1>3, <1>5, <1>8
<1>10. DOMAIN transfers = 1 .. Len(transfers) /\ Len(transfers) \in Nat
  BY <1>1
<1>11. transfers' = [j \in 1 .. Len(transfers) |-> transfers'[j]]
  BY <1>2, <1>10
<1>12. transfers' \in Seq(Transfer)
  BY <1>9, <1>10, <1>11
<1>13. \A j \in DOMAIN transfers :
          /\ transfers'[j].pathway = transfers[j].pathway
          /\ transfers'[j].confirmations = transfers[j].confirmations
  BY <1>5, <1>8
<1>14. \A j \in DOMAIN transfers : transfers'[j].delivered = (transfers[j].delivered \/ j = i)
  BY <1>3, <1>5, <1>8 DEF Transfer
<1>q. QED  BY <1>6, <1>12, <1>13, <1>14 DEF TransfersGrow

LEMMA SendSteps ==
    ASSUME TypeOK, NEW p \in HubRoutes, SendTransfer(p)
    PROVE  /\ transfers' \in Seq(Transfer)
           /\ DOMAIN transfers' = DOMAIN transfers \cup {Len(transfers')}
           /\ transfers'[Len(transfers')].pathway = p
           /\ ~ transfers'[Len(transfers')].delivered
           /\ Len(transfers') \in Nat \ {0}
           /\ \A i \in DOMAIN transfers : transfers'[i] = transfers[i]
           /\ Len(transfers') \notin DOMAIN transfers
<1> DEFINE t == [pathway |-> p, confirmations |-> SendConfirmations(p), delivered |-> FALSE]
<1>1. transfers \in Seq(Transfer) /\ transfers' = Append(transfers, t)
  BY DEF TypeOK, Transfer, SendTransfer
<1>2. t \in Transfer /\ t.pathway = p /\ ~ t.delivered
  BY HubRouteIsPathway, ConfirmationsTyped DEF Transfer
<1> HIDE DEF t
<1>q. QED  BY <1>1, <1>2

\* No step of a test touches what the wire scripts left, and none is taken
\* while the wire command has scripts.
LEMMA WiringUnderNext ==
    ASSUME IInv, Next
    PROVE  /\ WiringInv'
           /\ \A p \in Pathways : settings[p] \subseteq settings'[p]
<1>0. WiringInv /\ WiringTypeOK /\ ScriptsHaveInsisted
  BY DEF IInv, WiringInv
<1>1. CASE WiringNext
  BY <1>0, <1>1, WiringStep, SettingsGrow
<1>2. ASSUME UNCHANGED wiringVars
      PROVE  WiringInv' /\ settings' = settings
  BY <1>0, <1>2 DEF wiringVars, WiringInv, WiringTypeOK, ScriptsHaveInsisted, Pathway,
                    OnlyWireHasScripts, CompleteHasFatal, FatalComeFirst
<1>3. ASSUME WiringStays, process # "wire", process' # "wire"
      PROVE  WiringInv' /\ settings' = settings
  BY <1>0, <1>3 DEF WiringStays, WiringInv, WiringTypeOK, ScriptsHaveInsisted, Pathway,
                    OnlyWireHasScripts, CompleteHasFatal, FatalComeFirst
<1>4. ASSUME NEW p \in HubRoutes, SendStep(p)  PROVE UNCHANGED wiringVars
  BY <1>4 DEF SendStep, StartSend, SendTransfer, SendEnds, SendFails
<1>5. ASSUME NEW p \in Outbound, Poll(p)  PROVE UNCHANGED wiringVars
  BY <1>5 DEF Poll
<1>6. ASSUME NEW i \in DOMAIN transfers, Deliver(i)  PROVE UNCHANGED wiringVars
  BY <1>6 DEF Deliver
<1>7. ASSUME \/ \E chains \in SUBSET (Chains \ {"arbitrum"}) : StartTest(chains)
             \/ OutboundEnds \/ ReturnEnds \/ InterruptTest
             \/ \E skipReturn \in BOOLEAN : PollEnds(skipReturn)
      PROVE  WiringStays /\ process # "wire" /\ process' # "wire"
  BY <1>7 DEF StartTest, OutboundEnds, ReturnEnds, InterruptTest, PollEnds
<1>q. QED  BY <1>1, <1>2, <1>3, <1>4, <1>5, <1>6, <1>7 DEF Next, PhaseStep

LEMMA TransfersUnderNext ==
    ASSUME IInv, Next
    PROVE  TransfersGrow
<1>0. TypeOK
  BY DEF IInv
<1>1. ASSUME NEW i \in DOMAIN transfers, Deliver(i)  PROVE TransfersGrow
  BY <1>0, <1>1, DeliverSteps
<1>2. ASSUME NEW p \in HubRoutes, SendTransfer(p)  PROVE TransfersGrow
  BY <1>0, <1>2, SendSteps DEF TransfersGrow
<1>3. ASSUME UNCHANGED transfers  PROVE TransfersGrow
  BY <1>3 DEF TransfersGrow
<1>4. ASSUME \/ WiringNext /\ UNCHANGED testVars
             \/ \E chains \in SUBSET (Chains \ {"arbitrum"}) : StartTest(chains)
             \/ \E p \in HubRoutes : StartSend(p) \/ SendEnds(p) \/ SendFails(p)
             \/ PhaseStep \/ InterruptTest
      PROVE  UNCHANGED transfers
  BY <1>4 DEF testVars, StartTest, StartSend, SendEnds, SendFails, PhaseStep, Poll, OutboundEnds,
              ReturnEnds, PollEnds, InterruptTest
<1>q. QED  BY <1>1, <1>2, <1>3, <1>4 DEF Next, SendStep

LEMMA TypeStep ==
    ASSUME IInv, Next
    PROVE  TypeOK'
<1>0. TypeOK
  BY DEF IInv
<1>1. WiringTypeOK'
  BY WiringUnderNext DEF WiringInv
<1>2. transfers' \in Seq(Transfer)
  <2>1. ASSUME NEW i \in DOMAIN transfers, Deliver(i)  PROVE transfers' \in Seq(Transfer)
    BY <1>0, <2>1, DeliverSteps
  <2>2. ASSUME NEW p \in HubRoutes, SendTransfer(p)  PROVE transfers' \in Seq(Transfer)
    BY <1>0, <2>2, SendSteps
  <2>3. ASSUME UNCHANGED transfers  PROVE transfers' \in Seq(Transfer)
    BY <1>0, <2>3 DEF TypeOK, Transfer
  <2>4. ASSUME \/ WiringNext /\ UNCHANGED testVars
               \/ \E chains \in SUBSET (Chains \ {"arbitrum"}) : StartTest(chains)
               \/ \E p \in HubRoutes : StartSend(p) \/ SendEnds(p) \/ SendFails(p)
               \/ PhaseStep \/ InterruptTest
        PROVE  UNCHANGED transfers
    BY <2>4 DEF testVars, StartTest, StartSend, SendEnds, SendFails, PhaseStep, Poll, OutboundEnds,
                ReturnEnds, PollEnds, InterruptTest
  <2>q. QED  BY <2>1, <2>2, <2>3, <2>4 DEF Next, SendStep
<1> DEFINE RestTyped == /\ test \in [HubRoutes -> {"absent", "running", "complete", "failed"}]
                        /\ targets \subseteq Chains /\ pending \subseteq HubRoutes
                        /\ sending \in [HubRoutes -> Nat \cup {NotRunning}]
                        /\ hashes \in [HubRoutes -> Nat]
                        /\ polled \in [Outbound -> {"none", "complete", "failed"}]
                        /\ process \in {"idle", "wire", "outbound", "poll", "return"}
<1>3. RestTyped
  BY <1>0 DEF TypeOK
<1>4. RestTyped'
  <2>1. CASE WiringNext /\ UNCHANGED testVars
    BY <1>3, <2>1 DEF testVars, WiringNext, StartWire, SkipWired, RunScript, LaneStep, StepSucceeds,
                      StepIsMissed, ScriptFails, ScriptEnds, WireEnds, InterruptWire,
                      Calms, GoesOn, Exits
  <2>2. ASSUME NEW chains \in SUBSET (Chains \ {"arbitrum"}), StartTest(chains)  PROVE RestTyped'
    BY <1>3, <2>2 DEF StartTest, HubRoutes
  <2>3. ASSUME NEW p \in HubRoutes, StartSend(p)  PROVE RestTyped'
    BY <1>3, <2>3 DEF StartSend, wiringVars, Started
  <2>4. ASSUME NEW p \in HubRoutes, SendTransfer(p)  PROVE RestTyped'
    <3>1. Len(transfers') \in Nat
      BY <1>0, <2>4, SendSteps
    <3>q. QED  BY <1>3, <2>4, <3>1 DEF SendTransfer, wiringVars
  <2>5. ASSUME NEW p \in HubRoutes, SendEnds(p)  PROVE RestTyped'
    <3>1. sending[p] \in Nat
      BY <1>3, <2>5 DEF SendEnds, ExitsWithZero, Started, NotRunning
    <3>2. PICK found \in SendScripts[p[1]].hashFound :
             /\ hashes' = [hashes EXCEPT ![p] = IF found THEN sending[p] ELSE NoHash]
             /\ test' = [test EXCEPT ![p] = IF found THEN "running" ELSE "complete"]
      BY <2>5 DEF SendEnds
    <3>3. hashes' \in [HubRoutes -> Nat]
      BY <1>3, <3>1, <3>2 DEF NoHash
    <3>4. test' \in [HubRoutes -> {"absent", "running", "complete", "failed"}]
      BY <1>3, <3>2
    <3>q. QED  BY <1>3, <2>5, <3>3, <3>4 DEF SendEnds, wiringVars
  <2>6. ASSUME NEW p \in HubRoutes, SendFails(p)  PROVE RestTyped'
    BY <1>3, <2>6 DEF SendFails, wiringVars
  <2>7. ASSUME NEW p \in Outbound, Poll(p)  PROVE RestTyped'
    BY <1>3, <2>7 DEF Poll, wiringVars
  <2>8. CASE OutboundEnds \/ ReturnEnds
    BY <1>3, <2>8 DEF OutboundEnds, ReturnEnds, testVars, NoHashes, NoHash
  <2>9. ASSUME NEW skipReturn \in BOOLEAN, PollEnds(skipReturn)  PROVE RestTyped'
    <3>1. test' \in [HubRoutes -> {"absent", "running", "complete", "failed"}]
      BY <1>3, <2>9 DEF PollEnds, Tested
    <3>2. pending' \subseteq HubRoutes /\ process' \in {"idle", "wire", "outbound", "poll", "return"}
      BY <2>9 DEF PollEnds, HubRoutes
    <3>q. QED  BY <1>3, <2>9, <3>1, <3>2 DEF PollEnds, NoPolls, NoHashes, NoHash
  <2>10. CASE InterruptTest
    BY <1>3, <2>10 DEF InterruptTest, NoPolls, NoHashes, NoHash
  <2>11. ASSUME NEW i \in DOMAIN transfers, Deliver(i)  PROVE RestTyped'
    BY <1>3, <2>11 DEF Deliver, wiringVars
  <2>q. QED
    BY <2>1, <2>2, <2>3, <2>4, <2>5, <2>6, <2>7, <2>8, <2>9, <2>10, <2>11 DEF Next, SendStep, PhaseStep
<1>q. QED  BY <1>1, <1>2, <1>4 DEF TypeOK, Transfer

LEMMA PeersStep ==
    ASSUME IInv, Next
    PROVE  TransfersHadPeers'
<1>0. TypeOK /\ TransfersHadPeers /\ WiringTypeOK /\ transfers \in Seq(Transfer)
  BY DEF IInv, TypeOK, Transfer
<1>1. \A p \in Pathways : settings[p] \subseteq settings'[p]
  BY WiringUnderNext
<1>2. \A i \in DOMAIN transfers :
         /\ transfers[i].pathway \in Pathways
         /\ Back(transfers[i].pathway) \in Pathways
  <2> SUFFICES ASSUME NEW i \in DOMAIN transfers
               PROVE  transfers[i].pathway \in Pathways /\ Back(transfers[i].pathway) \in Pathways
    OBVIOUS
  <2>1. transfers[i] \in Transfer
    BY <1>0
  <2>2. transfers[i].pathway \in HubRoutes
    BY <2>1 DEF Transfer
  <2>q. QED  BY <2>2, HubRouteIsPathway, PathwayShape
<1>3. ASSUME NEW i \in DOMAIN transfers, Deliver(i)  PROVE TransfersHadPeers'
  <2>1. "peer" \in settings[Back(transfers[i].pathway)]
    BY <1>3 DEF Deliver, Verifiable
  <2>q. QED  BY <1>0, <1>1, <1>2, <1>3, <2>1, DeliverSteps DEF TransfersHadPeers
<1>4. ASSUME NEW p \in HubRoutes, SendTransfer(p)  PROVE TransfersHadPeers'
  <2>1. p \in Pathways /\ "peer" \in settings[p]
    <3>1. p \in Pathways /\ p[1] \in ChainNames
      BY HubRouteIsPathway, PathwayShape, WiringAssumption
    <3>2. "peer" \in SendScripts[p[1]].needs
      BY <3>1 DEF ChainNames, SendScripts, SendFromEvm, SendFromSolana, SendFromStarknet,
                  SendFromSui, SendFromTon
    <3>q. QED  BY <1>4, <3>1, <3>2 DEF SendTransfer, Sendable
  <2>q. QED  BY <1>0, <1>1, <1>2, <1>4, <2>1, SendSteps DEF TransfersHadPeers
<1>5. ASSUME UNCHANGED transfers  PROVE TransfersHadPeers'
  BY <1>0, <1>1, <1>2, <1>5 DEF TransfersHadPeers
<1>6. ASSUME \/ WiringNext /\ UNCHANGED testVars
             \/ \E chains \in SUBSET (Chains \ {"arbitrum"}) : StartTest(chains)
             \/ \E p \in HubRoutes : StartSend(p) \/ SendEnds(p) \/ SendFails(p)
             \/ PhaseStep \/ InterruptTest
      PROVE  UNCHANGED transfers
  BY <1>6 DEF testVars, StartTest, StartSend, SendEnds, SendFails, PhaseStep, Poll, OutboundEnds,
              ReturnEnds, PollEnds, InterruptTest
<1>q. QED  BY <1>3, <1>4, <1>5, <1>6 DEF Next, SendStep

LEMMA PollsStep ==
    ASSUME IInv, Next
    PROVE  PollsAreOfTransfers'
<1> DEFINE SendingInv == \A p \in HubRoutes : sending[p] > 0 => IsTransferOf(sending[p], p)
           HashesInv  == \A p \in HubRoutes : hashes[p] # NoHash => IsTransferOf(hashes[p], p)
           PolledInv  == \A p \in Outbound : polled[p] = "complete" =>
                            \E i \in DOMAIN transfers : transfers[i].pathway = p /\ transfers[i].delivered
<1>0. TypeOK /\ SendingInv /\ HashesInv /\ PolledInv
  BY DEF IInv, PollsAreOfTransfers
<1>1. TransfersGrow
  BY TransfersUnderNext
<1>2. /\ sending \in [HubRoutes -> Nat \cup {NotRunning}]
      /\ hashes \in [HubRoutes -> Nat]
      /\ polled \in [Outbound -> {"none", "complete", "failed"}]
  BY <1>0 DEF TypeOK
<1>3. \A i, p : IsTransferOf(i, p) => IsTransferOf(i, p)'
  BY <1>1 DEF TransfersGrow, IsTransferOf
<1>4. SendingInv'
  <2>1. ASSUME \A p \in HubRoutes : sending'[p] > 0 => sending'[p] = sending[p]
        PROVE  SendingInv'
    BY <1>0, <1>3, <2>1
  <2>2. ASSUME NEW p \in HubRoutes, SendTransfer(p)  PROVE SendingInv'
    <3>1. sending' = [sending EXCEPT ![p] = Len(transfers')]
      BY <2>2 DEF SendTransfer
    <3>2. Len(transfers') \in DOMAIN transfers' /\ transfers'[Len(transfers')].pathway = p
      BY <1>0, <2>2, SendSteps
    <3>3. \A q \in HubRoutes : q # p => sending'[q] = sending[q]
      BY <1>2, <3>1
    <3>4. sending'[p] = Len(transfers')
      BY <1>2, <3>1
    <3>q. QED  BY <1>0, <1>1, <3>2, <3>3, <3>4 DEF IsTransferOf, TransfersGrow
  <2>3. ASSUME NEW p \in HubRoutes, StartSend(p) \/ SendEnds(p) \/ SendFails(p)
        PROVE  \A q \in HubRoutes : sending'[q] > 0 => sending'[q] = sending[q]
    BY <1>2, <2>3 DEF StartSend, SendEnds, SendFails, NotRunning, Started
  <2>4. CASE InterruptTest
    BY <2>1, <2>4 DEF InterruptTest, NotRunning
  <2>5. ASSUME \/ WiringNext /\ UNCHANGED testVars
               \/ \E chains \in SUBSET (Chains \ {"arbitrum"}) : StartTest(chains)
               \/ \E i \in DOMAIN transfers : Deliver(i)
               \/ PhaseStep
        PROVE  UNCHANGED sending
    BY <2>5 DEF testVars, StartTest, Deliver, PhaseStep, Poll, OutboundEnds, ReturnEnds, PollEnds
  <2>q. QED  BY <2>1, <2>2, <2>3, <2>4, <2>5 DEF Next, SendStep
<1>5. HashesInv'
  <2>1. ASSUME \A p \in HubRoutes : hashes'[p] # NoHash => hashes'[p] = hashes[p]
        PROVE  HashesInv'
    BY <1>0, <1>3, <2>1
  <2>2. ASSUME NEW p \in HubRoutes, SendEnds(p)  PROVE HashesInv'
    <3>1. \E found \in SendScripts[p[1]].hashFound :
              hashes' = [hashes EXCEPT ![p] = IF found THEN sending[p] ELSE NoHash]
      BY <2>2 DEF SendEnds
    <3>2. hashes'[p] = sending[p] \/ hashes'[p] = NoHash
      BY <1>2, <3>1
    <3>3. \A q \in HubRoutes : q # p => hashes'[q] = hashes[q]
      BY <1>2, <3>1
    <3>4. sending[p] # NoHash => sending[p] > 0
      BY <1>2, <2>2 DEF SendEnds, ExitsWithZero, NoHash, Started
    <3>q. QED  BY <1>0, <1>3, <3>2, <3>3, <3>4
  <2>3. CASE InterruptTest \/ ReturnEnds \/ \E skipReturn \in BOOLEAN : PollEnds(skipReturn)
    BY <2>1, <2>3 DEF InterruptTest, ReturnEnds, PollEnds, NoHashes
  <2>4. ASSUME \/ WiringNext /\ UNCHANGED testVars
               \/ \E chains \in SUBSET (Chains \ {"arbitrum"}) : StartTest(chains)
               \/ \E p \in HubRoutes : StartSend(p) \/ SendTransfer(p) \/ SendFails(p)
               \/ \E i \in DOMAIN transfers : Deliver(i)
               \/ \E p \in Outbound : Poll(p)
               \/ OutboundEnds
        PROVE  UNCHANGED hashes
    BY <2>4 DEF testVars, StartTest, StartSend, SendTransfer, SendFails, Deliver, Poll, OutboundEnds
  <2>q. QED  BY <2>1, <2>2, <2>3, <2>4 DEF Next, SendStep, PhaseStep
<1>6. PolledInv'
  <2>1. ASSUME \A p \in Outbound : polled'[p] = "complete" => polled[p] = "complete"
        PROVE  PolledInv'
    BY <1>0, <1>1, <2>1 DEF TransfersGrow
  <2>2. ASSUME NEW p \in Outbound, Poll(p)  PROVE PolledInv'
    <3>1. IsTransferOf(hashes[p], p) /\ UNCHANGED transfers
      BY <1>0, <2>2 DEF Poll, PollsWaiting, HubRoutes
    <3>2. polled'[p] = "complete" => transfers[hashes[p]].delivered
      BY <1>2, <2>2 DEF Poll
    <3>3. \A q \in Outbound : q # p => polled'[q] = polled[q]
      BY <1>2, <2>2 DEF Poll
    <3>q. QED  BY <1>0, <3>1, <3>2, <3>3 DEF IsTransferOf
  <2>3. CASE InterruptTest \/ \E skipReturn \in BOOLEAN : PollEnds(skipReturn)
    BY <2>1, <2>3 DEF InterruptTest, PollEnds, NoPolls
  <2>4. ASSUME \/ WiringNext /\ UNCHANGED testVars
               \/ \E chains \in SUBSET (Chains \ {"arbitrum"}) : StartTest(chains)
               \/ \E p \in HubRoutes : SendStep(p)
               \/ \E i \in DOMAIN transfers : Deliver(i)
               \/ OutboundEnds \/ ReturnEnds
        PROVE  UNCHANGED polled
    BY <2>4 DEF testVars, StartTest, SendStep, StartSend, SendTransfer, SendEnds, SendFails, Deliver,
                OutboundEnds, ReturnEnds
  <2>q. QED  BY <2>1, <2>2, <2>3, <2>4 DEF Next, PhaseStep
<1>q. QED  BY <1>4, <1>5, <1>6 DEF PollsAreOfTransfers

\* Of the transfers from Arbitrum only a poll records a completion.
LEMMA OutboundStep ==
    ASSUME IInv, Next
    PROVE  OutboundCompleteMeansDelivered'
<1> DEFINE Arrived(p) == \E i \in DOMAIN transfers : transfers[i].pathway = p /\ transfers[i].delivered
<1>0. TypeOK /\ TransfersHadPeers /\ PollsAreOfTransfers /\ OutboundCompleteMeansDelivered
  BY DEF IInv
<1>1. test \in [HubRoutes -> {"absent", "running", "complete", "failed"}] /\ Outbound \subseteq HubRoutes
  BY <1>0 DEF TypeOK, HubRoutes
<1>2. \A p \in Outbound : Arrived(p) => Arrived(p)'
  BY TransfersUnderNext DEF TransfersGrow
<1>3. \A p \in Outbound : Arrived(p)' => "peer" \in settings'[p] \cap settings'[Back(p)]
  BY PeersStep DEF TransfersHadPeers
<1>4. \A p \in Outbound : test'[p] = "complete" => Arrived(p)'
  <2>1. ASSUME \A p \in Outbound : test'[p] = "complete" => test[p] = "complete"
        PROVE  \A p \in Outbound : test'[p] = "complete" => Arrived(p)'
    BY <1>0, <1>2, <2>1 DEF OutboundCompleteMeansDelivered
  <2>2. ASSUME NEW p \in HubRoutes, StartSend(p) \/ SendFails(p)
        PROVE  \A q \in Outbound : test'[q] = "complete" => test[q] = "complete"
    BY <1>1, <2>2 DEF StartSend, SendFails
  <2>3. ASSUME NEW p \in HubRoutes, SendEnds(p)
        PROVE  \A q \in Outbound : test'[q] = "complete" => test[q] = "complete"
    <3>1. \E found \in SendScripts[p[1]].hashFound :
              test' = [test EXCEPT ![p] = IF found THEN "running" ELSE "complete"]
      BY <2>3 DEF SendEnds
    <3>2. PICK status : test' = [test EXCEPT ![p] = status]
      BY <3>1
    <3>3. ASSUME p[1] = "arbitrum"
          PROVE  test' = [test EXCEPT ![p] = "running"]
      <4>1. SendScripts[p[1]] = SendFromEvm
        BY <3>3 DEF SendScripts
      <4>2. SendFromEvm.hashFound = {TRUE}
        BY Zenon DEF SendFromEvm
      <4>3. SendScripts[p[1]].hashFound = {TRUE}
        BY <4>1, <4>2, Zenon
      <4>4. ASSUME NEW found \in SendScripts[p[1]].hashFound
            PROVE  found = TRUE
        BY <4>3, Zenon
      <4>q. QED  BY <3>1, <4>4, Zenon
    <3>q. QED  BY <1>1, <3>2, <3>3 DEF Outbound
  <2>4. ASSUME NEW skipReturn \in BOOLEAN, PollEnds(skipReturn)
        PROVE  \A p \in Outbound : test'[p] = "complete" => Arrived(p)'
    <3>1. test' = [p \in HubRoutes |-> IF p \in Tested THEN polled[p] ELSE test[p]] /\ UNCHANGED transfers
      BY <2>4 DEF PollEnds
    <3>2. \A p \in Outbound : test'[p] = "complete" => polled[p] = "complete" \/ test[p] = "complete"
      BY <1>1, <3>1
    <3>q. QED  BY <1>0, <3>1, <3>2 DEF PollsAreOfTransfers, OutboundCompleteMeansDelivered
  <2>5. ASSUME \/ WiringNext /\ UNCHANGED testVars
               \/ \E chains \in SUBSET (Chains \ {"arbitrum"}) : StartTest(chains)
               \/ \E p \in HubRoutes : SendTransfer(p)
               \/ \E i \in DOMAIN transfers : Deliver(i)
               \/ \E p \in Outbound : Poll(p)
               \/ OutboundEnds \/ ReturnEnds \/ InterruptTest
        PROVE  UNCHANGED test
    BY <2>5 DEF testVars, StartTest, SendTransfer, Deliver, Poll, OutboundEnds, ReturnEnds, InterruptTest
  <2>q. QED  BY <2>1, <2>2, <2>3, <2>4, <2>5 DEF Next, SendStep, PhaseStep
<1>q. QED  BY <1>3, <1>4 DEF OutboundCompleteMeansDelivered

LEMMA InitInv == Init => IInv
<1> SUFFICES ASSUME Init  PROVE IInv
  OBVIOUS
<1>1. WiringInv
  BY InitWiringInv DEF Init
<1>2. TypeOK
  <2>1. WiringTypeOK
    BY <1>1 DEF WiringInv
  <2>2. transfers \in Seq(Transfer)
    BY DEF Init
  <2>q. QED  BY <2>1, <2>2 DEF TypeOK, Init, WiringInit, NoHashes, NoHash, NoPolls, Transfer
<1>3. TransfersHadPeers
  BY DEF Init, TransfersHadPeers
<1>4. PollsAreOfTransfers
  BY DEF Init, PollsAreOfTransfers, NoHashes, NoPolls, NotRunning
<1>5. OutboundCompleteMeansDelivered
  BY DEF Init, OutboundCompleteMeansDelivered, HubRoutes
<1>q. QED  BY <1>1, <1>2, <1>3, <1>4, <1>5 DEF IInv

LEMMA StutterInv == IInv /\ UNCHANGED vars => IInv'
BY DEF IInv, vars, wiringVars, testVars, TypeOK, WiringInv, WiringTypeOK, ScriptsHaveInsisted, Pathway,
       OnlyWireHasScripts, CompleteHasFatal, FatalComeFirst, TransfersHadPeers, PollsAreOfTransfers,
       IsTransferOf, OutboundCompleteMeansDelivered

(***************************************************************************)
(* Theorems                                                                *)
(***************************************************************************)

\* The inductive invariant, for every set of chains and any number of tests,
\* failures and interruptions.
THEOREM InductiveInvariant == Spec => []IInv
<1>1. IInv /\ [Next]_vars => IInv'
  BY WiringUnderNext, TypeStep, PeersStep, PollsStep, OutboundStep, StutterInv DEF IInv
<1>q. QED  BY InitInv, <1>1, PTL DEF Spec

\* All variables keep their types.
THEOREM TypeCorrect == Spec => []TypeOK
<1>1. IInv => TypeOK
  BY DEF IInv
<1>q. QED  BY InductiveInvariant, <1>1, PTL

\* The steps at which the scripts of EVM, Solana and Starknet throw, read off
\* the scripts.
LEMMA ThrowingSteps ==
    ASSUME NEW chain \in Chains
    PROVE  /\ chain = "arbitrum" => {"peer", "options", "sendConfig", "receiveConfig"} \subseteq Fatal(chain)
           /\ chain = "solana" => Pdas \cup {"peer", "options"} \subseteq Fatal(chain)
           /\ chain = "starknet" => {"peer", "options"} \subseteq Fatal(chain)
<1>1. CASE chain = "arbitrum"
  <2>1. Steps(chain) = <<"peer", "options", "sendConfig", "receiveConfig">> /\ Survives(chain) = {}
    BY <1>1 DEF Steps, Survives, Scripts, WireFromEvm
  <2>2. {"peer", "options", "sendConfig", "receiveConfig"} \subseteq Settings(chain)
    <3>1. /\ 1 \in DOMAIN Steps(chain) /\ 2 \in DOMAIN Steps(chain)
          /\ 3 \in DOMAIN Steps(chain) /\ 4 \in DOMAIN Steps(chain)
          /\ Steps(chain)[1] = "peer" /\ Steps(chain)[2] = "options"
          /\ Steps(chain)[3] = "sendConfig" /\ Steps(chain)[4] = "receiveConfig"
      BY <2>1
    <3>q. QED  BY <3>1 DEF Settings
  <2>q. QED  BY <1>1, <2>1, <2>2 DEF Fatal
<1>2. CASE chain = "solana"
  <2>1. /\ Steps(chain) = <<"initSendLibrary", "initReceiveLibrary", "initOAppNonce", "initConfig",
                            "peer", "options", "sendConfig", "receiveConfig", "executor">>
        /\ Survives(chain) = {"sendConfig", "receiveConfig", "executor"}
    BY <1>2 DEF Steps, Survives, Scripts, WireFromSolana
  <2>2. Pdas \cup {"peer", "options"} \subseteq Settings(chain)
    <3>1. /\ 1 \in DOMAIN Steps(chain) /\ 2 \in DOMAIN Steps(chain) /\ 3 \in DOMAIN Steps(chain)
          /\ 4 \in DOMAIN Steps(chain) /\ 5 \in DOMAIN Steps(chain) /\ 6 \in DOMAIN Steps(chain)
      BY <2>1
    <3>2. /\ Steps(chain)[1] = "initSendLibrary" /\ Steps(chain)[2] = "initReceiveLibrary"
          /\ Steps(chain)[3] = "initOAppNonce" /\ Steps(chain)[4] = "initConfig"
          /\ Steps(chain)[5] = "peer" /\ Steps(chain)[6] = "options"
      BY <2>1
    <3>q. QED  BY <3>1, <3>2 DEF Settings, Pdas
  <2>q. QED  BY <1>2, <2>1, <2>2 DEF Fatal, Pdas
<1>3. CASE chain = "starknet"
  <2>1. /\ Steps(chain) = <<"delegate", "sendConfig", "receiveConfig", "options", "peer">>
        /\ Survives(chain) = {"delegate", "sendConfig", "receiveConfig"}
    BY <1>3 DEF Steps, Survives, Scripts, WireFromStarknet
  <2>2. {"peer", "options"} \subseteq Settings(chain)
    <3>1. /\ 4 \in DOMAIN Steps(chain) /\ 5 \in DOMAIN Steps(chain)
          /\ Steps(chain)[4] = "options" /\ Steps(chain)[5] = "peer"
      BY <2>1
    <3>q. QED  BY <3>1 DEF Settings
  <2>q. QED  BY <1>3, <2>1, <2>2 DEF Fatal
<1>q. QED  BY <1>1, <1>2, <1>3

\* The places of the steps that SetInOrder names in their scripts
LEMMA ScriptOrder ==
    ASSUME NEW chain \in Chains
    PROVE  /\ chain = "arbitrum" =>
                  Steps(chain) = <<"peer", "options", "sendConfig", "receiveConfig">>
           /\ chain = "solana" =>
                  Steps(chain) = <<"initSendLibrary", "initReceiveLibrary", "initOAppNonce", "initConfig",
                                   "peer", "options", "sendConfig", "receiveConfig", "executor">>
           /\ chain = "starknet" =>
                  Steps(chain) = <<"delegate", "sendConfig", "receiveConfig", "options", "peer">>
BY DEF Steps, Scripts, WireFromEvm, WireFromSolana, WireFromStarknet

\* A pathway that state.json calls complete (wire.ts, runLane) has its peer and
\* its options from EVM, Solana and Starknet, its libraries from EVM and its
\* accounts from Solana: no error that costs one of them is swallowed.
THEOREM CompletePathwaysAreWired == Spec => []CompleteMeansWired
<1>1. ASSUME IInv, NEW p \in Pathways, wire[p] = "complete"
      PROVE  /\ p[1] \in {"arbitrum", "solana", "starknet"} => {"peer", "options"} \subseteq settings[p]
             /\ p[1] = "arbitrum" => {"sendConfig", "receiveConfig"} \subseteq settings[p]
             /\ p[1] = "solana" => Pdas \subseteq settings[p]
  <2>1. Fatal(p[1]) \subseteq settings[p]
    BY <1>1 DEF IInv, WiringInv, CompleteHasFatal
  <2>2. p[1] \in Chains
    BY PathwayShape
  <2>q. QED  BY <2>1, <2>2, ThrowingSteps
<1>2. IInv => CompleteMeansWired
  BY <1>1 DEF CompleteMeansWired
<1>q. QED  BY InductiveInvariant, <1>2, PTL

\* At every moment and after any failures Solana has its accounts before its
\* peer, Starknet its options before its peer, EVM and Solana both before a
\* library, and EVM its send library before that for receiving.
THEOREM SettingsInOrder == Spec => []SetInOrder
<1>1. ASSUME IInv, NEW p \in Pathways
      PROVE  /\ p[1] = "solana" /\ "peer" \in settings[p] => Pdas \subseteq settings[p]
             /\ p[1] = "starknet" /\ "peer" \in settings[p] => "options" \in settings[p]
             /\ /\ p[1] \in {"arbitrum", "solana"}
                /\ settings[p] \cap {"sendConfig", "receiveConfig"} # {}
                => {"peer", "options"} \subseteq settings[p]
             /\ p[1] = "arbitrum" /\ "receiveConfig" \in settings[p] => "sendConfig" \in settings[p]
  <2> DEFINE chain == p[1]
             steps == Steps(chain)
  <2>1. chain \in Chains
    BY PathwayShape
  <2>2. \A i, j \in DOMAIN steps :
            i < j /\ steps[j] \in settings[p] /\ steps[i] \in Fatal(chain) => steps[i] \in settings[p]
    BY <1>1 DEF IInv, WiringInv, FatalComeFirst
  <2>3. settings[p] \subseteq AllSettings
    BY <1>1 DEF IInv, WiringInv, WiringTypeOK, AllSettings
  <2> HIDE DEF chain
  <2>4. CASE chain = "solana"
    <3>1. /\ DOMAIN steps = 1 .. 9
          /\ steps[1] = "initSendLibrary" /\ steps[2] = "initReceiveLibrary"
          /\ steps[3] = "initOAppNonce" /\ steps[4] = "initConfig"
          /\ steps[5] = "peer" /\ steps[6] = "options"
          /\ steps[7] = "sendConfig" /\ steps[8] = "receiveConfig" /\ steps[9] = "executor"
      BY <2>1, <2>4, ScriptOrder
    <3>2. Pdas \cup {"peer", "options"} \subseteq Fatal(chain)
      BY <2>1, <2>4, ThrowingSteps
    <3> HIDE DEF steps
    <3>3. "peer" \in settings[p] => Pdas \subseteq settings[p]
      <4>1. \A i \in 1 .. 4 : steps[i] \in Fatal(chain)
        BY <3>1, <3>2 DEF Pdas
      <4>2. "peer" \in settings[p] => \A i \in 1 .. 4 : steps[i] \in settings[p]
        BY <2>2, <3>1, <4>1
      <4>q. QED  BY <3>1, <4>2 DEF Pdas
    <3>4. \A j \in 7 .. 9 : steps[j] \in settings[p] => {"peer", "options"} \subseteq settings[p]
      BY <2>2, <3>1, <3>2
    <3>q. QED  BY <2>4, <3>1, <3>3, <3>4 DEF chain
  <2>5. CASE chain = "starknet"
    <3>1. DOMAIN steps = 1 .. 5 /\ steps[4] = "options" /\ steps[5] = "peer"
      BY <2>1, <2>5, ScriptOrder
    <3>2. "options" \in Fatal(chain)
      BY <2>1, <2>5, ThrowingSteps
    <3> HIDE DEF steps
    <3>q. QED  BY <2>2, <2>5, <3>1, <3>2 DEF chain
  <2>6. CASE chain = "arbitrum"
    <3>1. /\ DOMAIN steps = 1 .. 4
          /\ steps[1] = "peer" /\ steps[2] = "options"
          /\ steps[3] = "sendConfig" /\ steps[4] = "receiveConfig"
      BY <2>1, <2>6, ScriptOrder
    <3>2. {"peer", "options", "sendConfig"} \subseteq Fatal(chain)
      BY <2>1, <2>6, ThrowingSteps
    <3> HIDE DEF steps
    <3>3. \A j \in 3 .. 4 : steps[j] \in settings[p] => {"peer", "options"} \subseteq settings[p]
      BY <2>2, <3>1, <3>2
    <3>4. steps[4] \in settings[p] => steps[3] \in settings[p]
      BY <2>2, <3>1, <3>2
    <3>q. QED  BY <2>6, <3>1, <3>3, <3>4 DEF chain
  <2>q. QED  BY <2>4, <2>5, <2>6 DEF chain
<1>2. IInv => SetInOrder
  BY <1>1 DEF SetInOrder
<1>q. QED  BY InductiveInvariant, <1>2, PTL

\* A transfer from Arbitrum that the test phase records complete (test.ts) was
\* delivered over a pathway with a peer at both ends.
THEOREM CompleteTransfersWereDelivered == Spec => []OutboundCompleteMeansDelivered
<1>1. IInv => OutboundCompleteMeansDelivered
  BY DEF IInv
<1>q. QED  BY InductiveInvariant, <1>1, PTL

\* Wiring never takes from a transfer on its way what it needs to be delivered
\* to EVM, Solana or Starknet, since their scripts only lower what they accept.
THEOREM WiringKeepsTransfersVerifiable == Spec => VerifiableStaysVerifiable
<1> DEFINE Ok(i) == transfers[i].pathway[2] \notin {"sui", "ton"} /\ Verifiable(transfers[i])
<1>1. ASSUME IInv, Next, NEW i \in DOMAIN transfers, Ok(i)
      PROVE  Verifiable(transfers[i])'
  <2> DEFINE p == transfers[i].pathway
  <2>1. transfers \in Seq(Transfer) /\ transfers' \in Seq(Transfer)
    BY <1>1, TypeStep DEF IInv, TypeOK, Transfer
  <2>2. transfers[i] \in Transfer
    BY <2>1
  <2>3. p \in HubRoutes /\ transfers[i].confirmations \in Nat
    BY <2>2 DEF Transfer
  <2>4. p \in Pathways /\ Back(p) \in Pathways
    BY <2>3, HubRouteIsPathway, PathwayShape
  <2>5. transfers'[i].pathway = p /\ transfers'[i].confirmations = transfers[i].confirmations
    BY <1>1, TransfersUnderNext DEF TransfersGrow
  <2>6. settings[Back(p)] \subseteq settings'[Back(p)]
    BY <1>1, <2>4, WiringUnderNext
  <2>7. DefaultConfirmations[p[1]] \in Nat \ {0}
    BY <2>4, ConfirmationsTyped
  <2>8. AcceptedFrom(p) = 1
    BY <1>1 DEF AcceptedFrom
  <2>9. "peer" \in settings'[Back(p)]
    BY <1>1, <2>6 DEF Verifiable
  <2>10. transfers[i].confirmations >= (IF "receiveConfig" \in settings'[Back(p)]
                                        THEN 1 ELSE DefaultConfirmations[p[1]])
    BY <1>1, <2>3, <2>6, <2>7, <2>8 DEF Verifiable, ReceiveConfirmations
  <2>q. QED  BY <2>5, <2>8, <2>9, <2>10 DEF Verifiable, ReceiveConfirmations, AcceptedFrom
<1>2. IInv /\ [Next]_vars => [\A i \in DOMAIN transfers : Ok(i) => Verifiable(transfers[i])']_vars
  BY <1>1
<1>q. QED  BY InductiveInvariant, <1>2, PTL DEF Spec, VerifiableStaysVerifiable
=============================================================================
