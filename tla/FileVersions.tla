---------------------------- MODULE FileVersions ----------------------------
(***************************************************************************)
(* The versions a directory receiver keeps of one file                     *)
(* (internal/backup/objectstore/fileversions.go), as operators on the set  *)
(* of versions in the file's version folder.  WriteFileVersion and         *)
(* SweepFileVersions hold the folder's lock from reading it to their end,  *)
(* so each is one step of whoever calls it.                                *)
(*                                                                         *)
(* A version is its number and its content; the time it was received is    *)
(* kept as the order of the numbers only.                                  *)
(***************************************************************************)
EXTENDS Naturals, FiniteSets

CONSTANTS KeepVersions,  \* retention by count: the newest this many; 0 is off
          AgeRule        \* whether there is retention by age

ASSUME FileVersionsAssumption == KeepVersions \in Nat /\ AgeRule \in BOOLEAN

\* The newest of a path's versions, of which there must be one.
Newest(versions) == CHOOSE v \in versions : \A w \in versions : w.version <= v.version

\* Mutant of NextVersion: numbers by how many versions there are.
NextByCount(versions) == Cardinality(versions) + 1

NextVersion(versions) == IF versions = {} THEN 1 ELSE Newest(versions).version + 1

\* An upload whose content the newest version has already is not stored.
WriteFileVersion(versions, content) ==
    IF versions # {} /\ Newest(versions).content = content
    THEN versions
    ELSE versions \union {[version |-> NextVersion(versions), content |-> content]}

KeptByCount(versions, v) == Cardinality({w \in versions : w.version > v.version}) < KeepVersions

\* The versions up to number aged are older than the retention.
KeptByAge(v, aged) == AgeRule /\ v.version > aged

\* Mutant of expiredVersions: the newest version expires as well.
expiredNewestToo(versions, aged) == {v \in versions : ~KeptByAge(v, aged)}

\* What no rule keeps any more.  The newest version is never among them, and
\* without any rule nothing is.
expiredVersions(versions, aged) ==
    {v \in versions : /\ KeepVersions > 0 \/ AgeRule
                      /\ v # Newest(versions)
                      /\ ~KeptByCount(versions, v)
                      /\ ~KeptByAge(v, aged)}

=============================================================================
