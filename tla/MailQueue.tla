----------------------------- MODULE MailQueue ------------------------------
(***************************************************************************)
(* E-mails and the queue of those that failed (internal/backup/notify      *)
(* queue.go and send.go).                                                  *)
(*                                                                         *)
(* Who sends a mail tries it once; a mail that fails is queued.  Once a    *)
(* minute another goroutine takes the whole queue, tries every mail in     *)
(* order and puts back what still fails, ahead of what was queued          *)
(* meanwhile.  The queue lives in memory only.                             *)
(***************************************************************************)
EXTENDS Integers, Sequences, Functions

VARIABLES
    items,       \* the queue
    pending,     \* the mails a round has still to try
    failing,     \* those it tried in vain
    owed         \* history: the mails handed over nobody knows delivered

mailVars == <<items, pending, failing, owed>>

----------------------------------------------------------------------------

\* An error says nothing of the message, as QUIT is answered last: what fails
\* is owed although the server may have taken it.
SendMail(m, err) == owed' = IF err THEN owed \cup {m} ELSE owed \ {m}

enqueue(m) == items' = Append(items, m)

SendMailQueued(m) ==
    \E err \in BOOLEAN :
        /\ SendMail(m, err)
        /\ IF err THEN enqueue(m) ELSE UNCHANGED items
        /\ UNCHANGED <<pending, failing>>

BeginRetry ==
    /\ pending = <<>> /\ failing = <<>> /\ items # <<>>
    /\ pending' = items
    /\ items' = <<>>
    /\ UNCHANGED <<failing, owed>>

Retry ==
    /\ pending # <<>>
    /\ pending' = Tail(pending)
    /\ \E err \in BOOLEAN :
         /\ SendMail(Head(pending), err)
         /\ failing' = IF err THEN Append(failing, Head(pending)) ELSE failing
    /\ UNCHANGED items

\* Mutant of PutBack: the queue is what still fails.
onlyFailing == failing

PutBack == failing \o items

EndRetry ==
    /\ pending = <<>> /\ failing # <<>>
    /\ items' = PutBack
    /\ failing' = <<>>
    /\ UNCHANGED <<pending, owed>>

MailInit ==
    /\ items = <<>> /\ pending = <<>> /\ failing = <<>>
    /\ owed = {}

----------------------------------------------------------------------------
(* Properties.                                                             *)

\* A mail handed over is known delivered or waits for another try, also when it was
\* queued while a round tried the others, and it waits once only.
MailNotLost ==
    LET waiting == failing \o pending \o items
    IN  owed = Range(waiting) /\ IsInjective(waiting)
=============================================================================
