------------------------- MODULE BackupRunsDelivery -------------------------
(***************************************************************************)
(* The runs of a job implement Delivery: what is owed is what a goroutine  *)
(* of the run has yet to upload and what is recorded as outstanding.       *)
(***************************************************************************)
EXTENDS BackupRuns

D == INSTANCE Delivery WITH
        Uploads <- Rows, owed <- rows \cup ToUpload, delivered <- stored,
        excused <- UNION {excused[c] : c \in Causes}

\* What the job owes a target it owes until the target has the file or one of
\* the Causes befalls that upload: neither a failed upload, nor the hand-over
\* to the retry loop, nor the loop's own bookkeeping loses one.
OwedUntilDelivered == D!Spec

=============================================================================
