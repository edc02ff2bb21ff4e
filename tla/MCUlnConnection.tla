--------------------------- MODULE MCUlnConnection ---------------------------
(* Configurations for the model checker: one in which any quorum of an      *)
(* OApp's choice has the honest DVN, and one with a single DVN.             *)
EXTENDS UlnConnection

CONSTANTS honest, rogue

Config(required, optional, threshold, confirmations) ==
    [requiredDVNs |-> required, optionalDVNs |-> optional,
     optionalDVNThreshold |-> threshold, confirmations |-> confirmations]

\* Required by default, or two of three optional ones by the OApp's choice;
\* the last has a threshold beyond its list and is refused.
MCDefaultConfigs == {Config({honest, rogue}, {}, 0, 1)}
MCOAppConfigs ==
    {Config({}, {honest, rogue}, 2, 1),
     Config({honest}, {}, 0, 1),
     Config(Null, {rogue}, 2, Null)}

MCSingleConfigs == {Config({honest}, {}, 0, 0)}
MCNoConfigs == {}
=============================================================================
