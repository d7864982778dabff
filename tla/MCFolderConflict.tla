-------------------------- MODULE MCFolderConflict --------------------------
(* A session and one yet to be created in a plain folder, and one in a     *)
(* folder that a sessions.readOnly pattern matches.                        *)
EXTENDS FolderConflict, TLC
CONSTANTS f1, f2, n1, plain, policy, v1, v2

Files == {f1, f2, n1}
NewFiles == {n1}
Folders == {plain, policy}
Viewers == {v1, v2}
Places == [f \in Files |-> IF f = f2 THEN policy ELSE plain]
Policy == {policy}
Symmetry == Permutations(Viewers)
=============================================================================
