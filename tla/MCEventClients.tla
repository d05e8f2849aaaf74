--------------------------- MODULE MCEventClients ---------------------------
(* Small instances of EventClients.                                        *)
EXTENDS EventClients, TLC

CONSTANTS c1, c2, c3

ThreeClients == {c1, c2, c3}

\* No client is told from another.
ClientSymmetry == Permutations(Clients)
=============================================================================
