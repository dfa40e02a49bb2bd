------------------------------- MODULE MCRelay -------------------------------
(* Constant values for checking RelayInstall with TLC.                     *)
EXTENDS RelayInstall, TLC

CONSTANTS d1, d2, d3, g1

InstalledDir == [present |-> TRUE, complete |-> TRUE, alive |-> FALSE]

ClientSymmetry == Permutations(Deployers) \cup Permutations(Collectors)
=============================================================================
