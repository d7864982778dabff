------------------------------ MODULE MCCliBridge ------------------------------
(* Instances of CliBridge for TLC. *)
EXTENDS CliBridge, TLC

CONSTANTS f1, f2, z1, z2

MCFiles == {f1, f2}
MCInfos == {z1, z2}

MCSymmetry == Permutations(MCFiles) \cup Permutations(MCInfos)

=============================================================================
