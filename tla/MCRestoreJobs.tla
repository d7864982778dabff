----------------------------- MODULE MCRestoreJobs -----------------------------
(* Instances of RestoreJobs for TLC. *)
EXTENDS RestoreJobs, TLC

CONSTANTS c1, c2

MCClients == {c1, c2}

MCSymmetry == Permutations(MCClients)

\* What no step and no property looks at any more: how a job began that has
\* settled, with its child and its tick gone.
MCView ==
    <<[i \in JobIds |-> IF jobs[i].state \notin {"none", "running"} /\ jobs[i].proc = "none"
                        THEN [NoProc EXCEPT !.state = jobs[i].state, !.reaping = jobs[i].reaping]
                        ELSE jobs[i]],
      current, nextId, relay, listing, handlers, disk, listed, viewers, history, events>>

=============================================================================
