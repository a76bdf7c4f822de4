------------------------------ MODULE Delivery ------------------------------
(***************************************************************************)
(* What a backup job promises for its uploads, in terms of nothing but     *)
(* what it owes, what has arrived and what it is excused from: an upload,  *)
(* a staged file for a target, once owed stays owed until the target has   *)
(* received the file.  The promise is the one of runPipeline's comment: a  *)
(* failed upload's staged file is handed off to the retry loop, "which     *)
(* retries it in the background every TargetUploadRetryInterval until it   *)
(* succeeds".                                                              *)
(***************************************************************************)
CONSTANT Uploads

VARIABLES owed, delivered, excused

\* What is owed from before, nobody remembers what of it has arrived.
Init == owed \subseteq Uploads /\ delivered = {} /\ excused = {}

\* A run has staged its files.
Owe(S) == owed' = owed \cup S /\ UNCHANGED <<delivered, excused>>

\* A target received a file, asked for or not; the sender may learn of it.
Deliver(u) ==
    /\ delivered' = delivered \cup {u}
    /\ owed' \in {owed, owed \ {u}}
    /\ UNCHANGED excused

\* Another target received the file that u is owed.
Divert(u, other) ==
    /\ u \in owed
    /\ delivered' = delivered \cup {other}
    /\ excused' = excused \cup {u}
    /\ UNCHANGED owed

\* Something happened to these uploads that lets the job off.
Excuse(S) ==
    /\ S \subseteq owed
    /\ excused' = excused \cup S
    /\ owed \ S \subseteq owed' /\ owed' \subseteq owed
    /\ UNCHANGED delivered

\* The sender learns of it later.
Settle(u) ==
    /\ u \in owed \cap (delivered \cup excused)
    /\ owed' = owed \ {u}
    /\ UNCHANGED <<delivered, excused>>

Next ==
    \/ \E S \in SUBSET Uploads : Owe(S)
    \/ \E S \in SUBSET owed : Excuse(S)
    \/ \E u \in Uploads : Deliver(u) \/ Settle(u) \/ \E other \in Uploads : Divert(u, other)

Spec == Init /\ [][Next]_<<owed, delivered, excused>>

=============================================================================
