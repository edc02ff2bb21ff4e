--------------------------- MODULE MCSimpleWorkers ---------------------------
(* Values of the constants of SimpleWorkers for TLC.                         *)
EXTENDS SimpleWorkers

CONSTANTS plain, special, stripped, o1

\* "plain" asks for a native drop, and so does "stripped", whose options do not
\* decode; "special" carries a compose payload, and its amount has dust.
MCMessages == {plain, special, stripped}
MCPlain == [m \in MCMessages |-> IF m = special THEN stripped ELSE m]
MCDrops == [m \in MCMessages |-> m # special]
=============================================================================
