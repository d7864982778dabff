---------------------------- MODULE AtomicUpload ----------------------------
(***************************************************************************)
(* What an upload promises to the page that started it: the file arrives   *)
(* whole and at once, and the upload is reported done only then; until     *)
(* then it may fail or be cancelled.  The arrival stays on record, unless  *)
(* the upload is left alone for a day: the record may then be gone before  *)
(* the page hears of it.                                                   *)
(***************************************************************************)
VARIABLES
    outcome,   \* what the page has been told: "pending", "done", "failed", "aborted"
    arrived,   \* the whole file is at its recorded place
    abandoned  \* the upload was left alone for a day

Init == outcome = "pending" /\ arrived = FALSE /\ abandoned = FALSE

Arrive == ~arrived /\ arrived' = TRUE /\ UNCHANGED <<outcome, abandoned>>
ReportDone ==
    /\ outcome = "pending" /\ (arrived \/ abandoned)
    /\ outcome' = "done"
    /\ UNCHANGED <<arrived, abandoned>>
ReportFailed == outcome = "pending" /\ outcome' = "failed" /\ UNCHANGED <<arrived, abandoned>>
ReportAborted == outcome = "pending" /\ outcome' = "aborted" /\ UNCHANGED <<arrived, abandoned>>
Abandon == ~abandoned /\ abandoned' = TRUE /\ UNCHANGED <<outcome, arrived>>
Forget == abandoned /\ arrived /\ arrived' = FALSE /\ UNCHANGED <<outcome, abandoned>>

Next == Arrive \/ ReportDone \/ ReportFailed \/ ReportAborted \/ Abandon \/ Forget

Spec == Init /\ [][Next]_<<outcome, arrived, abandoned>>
=============================================================================
