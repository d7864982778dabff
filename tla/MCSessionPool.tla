--------------------------- MODULE MCSessionPool ---------------------------
(* A small pool for TLC.  One session file is enough for every race        *)
(* between a build, a registration, a reload and a close.                  *)
EXTENDS SessionPool, TLC
CONSTANTS f1, v1, v2, c1, c2, a1, a2, a3

OneFile == {f1}
OneViewer == {v1}
TwoViewers == {v1, v2}
TwoConns == {c1, c2}
TwoAgents == {a1, a2}
ThreeAgents == {a1, a2, a3}
Symmetry == Permutations(Viewer) \cup Permutations(Conn) \cup Permutations(Agent)
=============================================================================
