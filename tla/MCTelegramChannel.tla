-------------------------- MODULE MCTelegramChannel --------------------------
(* Instances of TelegramChannel for TLC. *)
EXTENDS TelegramChannel, TLC

CONSTANTS u1, u2, a1, a2

MCUsers == {u1, u2}
MCAlbums == {a1, a2}
MCFirstOwners == {u1}
MCSymmetry == Permutations(MCAlbums)

\* The two halves share the life of the channel and its owner.  Each is explored
\* while the other is small: what the assistant answers is one plain message, with
\* nothing else on its way, and no longer after a restart.
OneAnswered ==
    /\ events' > 0 => sends' = 1 /\ sent'[1].kind = "text" /\ diskErrors' = 0
    /\ events' # events => starts = 1
    /\ events > 0 /\ life' = "up" => loop'.at = "polling"
MCSpec == Init /\ [][Next /\ OneAnswered]_vars
=============================================================================
