--------------------------- MODULE MCOrchestrator ---------------------------
(* Finite instances of Orchestrator. *)
EXTENDS Orchestrator

MCAll == {Chains}

MCSome == {Chains, {"starknet"}}

MCOnce  == [chain \in Chains |-> 1]
MCTwice == [chain \in Chains |-> IF chain = "starknet" THEN 2 ELSE 1]

\* Of the statuses only "complete" is ever read: states that differ in the
\* others take the same steps. (file = file has TLC build the functions of file,
\* which a state that waits on disk needs.)
MCView ==
    << {chain \in Chains : file.deploy[chain] = "complete"},
       {pathway \in Pathways : file.wire[pathway] = "complete"},
       env, contracts, initialized, peers, phase, command, tasks, todo, orphans,
       file = file >>
=============================================================================
