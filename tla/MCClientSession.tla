-------------------------- MODULE MCClientSession --------------------------
EXTENDS ClientSession, TLC

CONSTANTS a, b, n, p, hello

MCOld == {a, b}
MCFresh == {n, p}
MCDistinctTexts == [i \in 1..MaxMessages |-> i]
MCSameText == [i \in 1..MaxMessages |-> hello]
MCSymmetry == Permutations(MCOld) \cup Permutations(MCFresh)
=============================================================================
