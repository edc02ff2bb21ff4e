-------------------------- MODULE MCChannelReceive --------------------------
(* Finite instances of ChannelReceive. *)
EXTENDS ChannelReceive

CONSTANTS uln, backup

\* The OApp moves to the other library and lets the old one finish in time.
MCMigration == [receive |-> backup, timeout |-> uln, expiry |-> 1]

MCDefaultConfig == [receive |-> uln, timeout |-> NullAddress, expiry |-> 0]
MCOAppConfigs == {MCMigration}
MCNoConfigs == {}
=============================================================================
