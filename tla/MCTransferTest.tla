---------------------------- MODULE MCTransferTest ----------------------------
(* Values of the constants of TransferTest for TLC.                          *)
EXTENDS TransferTest

\* LayerZero's own confirmations, that an OApp can leave as they are.
Defaults == [arbitrum |-> 20, solana |-> 32, starknet |-> 5, sui |-> 15, ton |-> 1]
MCDefaultConfirmations == [chain \in Chains |-> Defaults[chain]]
=============================================================================
