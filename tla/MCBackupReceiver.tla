-------------------------- MODULE MCBackupReceiver --------------------------
(***************************************************************************)
(* Instances of BackupReceiver for TLC.                                    *)
(***************************************************************************)
EXTENDS BackupReceiver

CONSTANTS p1, p2, d

\* Two files of one backup.
OneFolder == [p \in {p1, p2} |-> d]

\* One flat object, or file.
FlatObject == [p \in {p1} |-> None]

\* One with room for one object, and one that never replaces any.
AnyReceiver == {[immutable |-> FALSE, quota |-> 1], [immutable |-> TRUE, quota |-> 0]}

Mutable == {[immutable |-> FALSE, quota |-> 0]}

=============================================================================
