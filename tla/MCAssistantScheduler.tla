------------------------ MODULE MCAssistantScheduler ------------------------
(* A recurring and a one-shot inline job that are due together, with an    *)
(* isolated and a refused one, or alone.                                   *)
EXTENDS AssistantScheduler
CONSTANTS s1, s2

TwoSessions == {s1, s2}
FourKinds == <<"inline", "inline", "isolated", "shell">>
TwoInline == <<"inline", "inline">>
FourTimes == <<{1, 2}, {1}, {1}, {1}>>
TwoTimes == <<{1, 2}, {1}>>
\* A run of the one-shot inline job may be missing in the file.
OneShotMisses == <<0, 1, 0, 0>>
NoneMissed == <<0, 0>>
=============================================================================
