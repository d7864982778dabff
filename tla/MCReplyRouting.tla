--------------------------- MODULE MCReplyRouting ---------------------------
(* Four sends: enough for a prompt, a queued message, one in flight and a  *)
(* deferred one at once.                                                   *)
EXTENDS ReplyRouting
CONSTANTS s1, s2, s3, s4
FourSends == {s1, s2, s3, s4}
Symmetry == Permutations(FourSends)
=============================================================================
