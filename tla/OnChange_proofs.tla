--------------------------- MODULE OnChange_proofs ---------------------------
(***************************************************************************)
(* What an on-change job skips, confirms and owes, for any files, targets  *)
(* and contents, and any number of changes, lost uploads and restarts.     *)
(*                                                                         *)
(* The stamps order what is read after what is listed (Stamped): a content *)
(* read for a stamp that is still the file's is the file's.  The versions  *)
(* of a path always have a newest one (Numbered), and an upload given up   *)
(* is one of an unsure pair (GivenUp).  A change the run in flight came    *)
(* too early for is one that is still ahead of the watcher: in the batch   *)
(* of the run itself it would be forgotten with it (Later, Overtaken).     *)
(***************************************************************************)
EXTENDS OnChange, TLAPS

Stamp    == [stamp : Nat, content : Contents \cup {Absent}]
FileWork == [pc : {"none", "listed", "hashed", "staged"}, stamp : Nat,
             plain : Contents \cup {Absent}, left : SUBSET Targets]

Types ==
    /\ changes \in Nat
    /\ source \in [Files -> Stamp]
    /\ rows \in [Pairs -> Stamp]
    /\ known \in [Pairs -> Stamp]
    /\ work \in [Files -> FileWork]
    /\ run \in [kind : {"none", "scan", "batch"}, targets : SUBSET Targets]
    /\ net \subseteq [target : Targets, file : Files, content : Contents]
    /\ \A f \in Files : work[f].pc = "staged" => work[f].plain \in Contents

\* No stamp is from the future, and where the stamp is the file's, so is the
\* content that was read under it.
Stamped ==
    /\ \A f \in Files : source[f].stamp <= changes /\ work[f].stamp <= changes
    /\ \A p \in Pairs : rows[p].stamp <= changes
    /\ \A f \in Files :
          work[f].pc = "staged" /\ Exists(f) /\ work[f].stamp = source[f].stamp
              => work[f].plain = source[f].content

SkipInv == Types /\ Stamped /\ SkipIsSound

-----------------------------------------------------------------------------
(* Types and stamps. *)

LEMMA RowTypes ==
    /\ NoRow \in Stamp /\ NoRow.stamp = 0
    /\ Unlisted \in FileWork /\ Unlisted.pc = "none" /\ Unlisted.stamp = 0 /\ Unlisted.left = {}
BY DEF NoRow, Unlisted, Stamp, FileWork

LEMMA PairTypes == \A p \in Pairs : p[1] \in Targets /\ p[2] \in Files /\ p = <<p[1], p[2]>>
BY DEF Pairs

\* What the steps make of a file's record.
WithLeft(w, targets)   == [w EXCEPT !.left = targets]
HashedFor(w, targets)  == [w EXCEPT !.pc = "hashed", !.left = targets]
StagedWith(w, content) == [w EXCEPT !.pc = "staged", !.plain = content]
Listed(stamp)          == [Unlisted EXCEPT !.pc = "listed", !.stamp = stamp]

LEMMA WithLeftType ==
    ASSUME NEW w \in FileWork, NEW targets \in SUBSET Targets, NEW v, v = WithLeft(w, targets)
    PROVE  /\ v \in FileWork /\ v.left = targets
           /\ v.pc = w.pc /\ v.stamp = w.stamp /\ v.plain = w.plain
BY DEF FileWork, WithLeft

LEMMA HashedForType ==
    ASSUME NEW w \in FileWork, NEW targets \in SUBSET Targets, NEW v, v = HashedFor(w, targets)
    PROVE  v \in FileWork /\ v.pc = "hashed" /\ v.left = targets /\ v.stamp = w.stamp
BY DEF FileWork, HashedFor

LEMMA StagedWithType ==
    ASSUME NEW w \in FileWork, NEW content \in Contents \cup {Absent}, NEW v,
           v = StagedWith(w, content)
    PROVE  /\ v \in FileWork /\ v.pc = "staged" /\ v.plain = content
           /\ v.stamp = w.stamp /\ v.left = w.left
BY DEF FileWork, StagedWith

LEMMA ListedType ==
    ASSUME NEW stamp \in Nat, NEW w, w = Listed(stamp)
    PROVE  w \in FileWork /\ w.pc = "listed" /\ w.stamp = stamp /\ w.left = {}
BY DEF FileWork, Unlisted, Listed

LEMMA SkipInit == Init => SkipInv
BY OnChangeAssumption, RowTypes
DEF Init, SkipInv, Types, Stamped, SkipIsSound, Stamp, NoRow, Unlisted, FileWork, NoRun, Recorded,
    Exists, Pairs

LEMMA SkipChange ==
    ASSUME SkipInv, NEW f \in Files, NEW content \in Contents \cup {Absent}, Change(f, content)
    PROVE  SkipInv'
<1> USE DEF Change, workVars
<1>1. Types'
  BY DEF SkipInv, Types, Stamp
<1>2. \A g \in Files : source'[g] = IF g = f THEN [stamp |-> changes + 1, content |-> content]
                                             ELSE source[g]
  BY DEF SkipInv, Types
<1>3. Stamped'
  BY <1>2 DEF SkipInv, Types, Stamped, Exists, Stamp, FileWork
<1>4. SkipIsSound'
  <2> SUFFICES ASSUME NEW p \in Pairs, Recorded(p), Exists(p[2])',
                      rows[p].stamp = source'[p[2]].stamp
               PROVE  rows[p].content = source'[p[2]].content
    BY DEF SkipIsSound, Recorded
  <2>1. rows[p].stamp <= changes /\ rows[p].stamp \in Nat /\ changes \in Nat /\ p[2] \in Files
    BY PairTypes DEF SkipInv, Types, Stamped, Stamp
  <2>2. p[2] # f
    BY <1>2, <2>1
  <2> QED BY <1>2, <2>1, <2>2 DEF SkipInv, SkipIsSound, Exists, Recorded
<1> QED BY <1>1, <1>3, <1>4 DEF SkipInv

LEMMA SkipBegin ==
    ASSUME SkipInv, NEW kind \in {"scan", "batch"}, NEW targets \in SUBSET Targets,
           NEW paths, Begin(kind, targets, paths)
    PROVE  SkipInv'
<1>0. work' = [f \in Files |->
                  IF f \in paths /\ source[f].content # Absent
                      /\ \E t \in targets : DiffersByStamp(rows[<<t, f>>], source[f].stamp)
                  THEN Listed(source[f].stamp) ELSE Unlisted]
  BY DEF Begin, Listed
<1>1. \A f \in Files : /\ work'[f] \in FileWork /\ work'[f].pc # "staged"
                       /\ work'[f].stamp <= changes
  <2> SUFFICES ASSUME NEW f \in Files
               PROVE  /\ work'[f] \in FileWork /\ work'[f].pc # "staged"
                      /\ work'[f].stamp <= changes
    OBVIOUS
  <2>1. source[f].stamp \in Nat /\ source[f].stamp <= changes /\ changes \in Nat
    BY DEF SkipInv, Types, Stamped, Stamp
  <2>2. CASE work'[f] = Unlisted
    BY <2>1, <2>2, RowTypes
  <2>3. CASE work'[f] = Listed(source[f].stamp)
    BY <2>1, <2>3, ListedType
  <2> QED BY <1>0, <2>2, <2>3
<1>2. known' \in [Pairs -> Stamp]
  BY RowTypes DEF Begin, SkipInv, Types
<1>3. Types'
  BY <1>0, <1>1, <1>2 DEF Begin, SkipInv, Types
<1>4. Stamped'
  BY <1>1 DEF Begin, SkipInv, Stamped
<1>5. SkipIsSound'
  BY DEF Begin, SkipInv, SkipIsSound, Recorded, Exists
<1> QED BY <1>3, <1>4, <1>5 DEF SkipInv

LEMMA SkipHash == ASSUME SkipInv, NEW f \in Files, Hash(f) PROVE SkipInv'
<1> DEFINE plain == source[f].content
           needed == {t \in run.targets : DiffersByContent(known[t, f], plain)}
<1>1. PICK saved \in SUBSET (Touched(f) \ needed) :
          rows' = [p \in Pairs |-> IF p \in saved \X {f}
                                   THEN [stamp |-> work[f].stamp, content |-> plain]
                                   ELSE rows[p]]
  BY DEF Hash
<1>2. /\ plain \in Contents \cup {Absent} /\ source[f].stamp \in Nat
      /\ work[f].stamp \in Nat /\ work[f].stamp <= changes
  BY DEF SkipInv, Types, Stamped, Stamp, FileWork
<1>3. \A g \in Files : /\ work'[g] \in FileWork /\ work'[g].stamp <= changes
                       /\ work'[g].pc = "staged" => g # f /\ work'[g] = work[g]
  <2>1. needed \in SUBSET Targets
    BY DEF SkipInv, Types
  <2>2. work' = [work EXCEPT ![f] = IF needed = {} THEN Unlisted ELSE HashedFor(work[f], needed)]
    BY DEF Hash, HashedFor
  <2> HIDE DEF needed
  <2>3. work'[f] \in FileWork /\ work'[f].pc # "staged" /\ work'[f].stamp <= changes
    <3>1. CASE needed = {}
      BY <1>2, <2>2, <3>1, RowTypes DEF SkipInv, Types
    <3>2. CASE needed # {}
      <4>1. work[f] \in FileWork /\ work'[f] = HashedFor(work[f], needed)
        BY <2>2, <3>2 DEF SkipInv, Types
      <4> QED BY <1>2, <2>1, <4>1, HashedForType
    <3> QED BY <3>1, <3>2
  <2> QED BY <2>2, <2>3 DEF SkipInv, Types, Stamped
<1>4. Types'
  <2>1. rows' \in [Pairs -> Stamp]
    BY <1>1, <1>2 DEF SkipInv, Types, Stamp
  <2>2. work' \in [Files -> FileWork]
    BY <1>3 DEF Hash, SkipInv, Types
  <2> QED BY <1>3, <2>1, <2>2 DEF Hash, SkipInv, Types
<1>5. Stamped'
  <2>1. \A p \in Pairs : rows'[p].stamp <= changes
    BY <1>1, <1>2 DEF SkipInv, Stamped
  <2> QED BY <1>3, <2>1 DEF Hash, SkipInv, Stamped, Exists
<1>6. SkipIsSound'
  BY <1>1 DEF Hash, SkipInv, SkipIsSound, Recorded, Exists, Pairs
<1> QED BY <1>4, <1>5, <1>6 DEF SkipInv

LEMMA SkipEncrypt == ASSUME SkipInv, NEW f \in Files, Encrypt(f) PROVE SkipInv'
<1>1. work' = [work EXCEPT ![f] = StagedWith(work[f], source[f].content)]
  BY DEF Encrypt, StagedWith
<1>2. source[f].content \in Contents
  BY DEF Encrypt, SkipInv, Types, Stamp
<1>3. /\ work'[f] \in FileWork /\ work'[f].plain = source[f].content
      /\ work'[f].stamp = work[f].stamp
      /\ \A g \in Files \ {f} : work'[g] = work[g]
      /\ work' \in [Files -> FileWork]
  <2>1. work[f] \in FileWork /\ work'[f] = StagedWith(work[f], source[f].content)
    BY <1>1 DEF SkipInv, Types
  <2>2. /\ work'[f] \in FileWork /\ work'[f].plain = source[f].content
        /\ work'[f].stamp = work[f].stamp
    BY <1>2, <2>1, StagedWithType
  <2> QED BY <1>1, <2>2 DEF SkipInv, Types
<1>4. Types'
  BY <1>2, <1>3 DEF Encrypt, SkipInv, Types
<1>5. Stamped'
  BY <1>2, <1>3 DEF Encrypt, SkipInv, Types, Stamped, Exists
<1> QED BY <1>4, <1>5 DEF Encrypt, SkipInv, SkipIsSound, Recorded, Exists

\* Work on a file that ends, or ends for one target.
LEMMA SkipWork ==
    ASSUME SkipInv, NEW f \in Files, NEW t \in Targets,
           work[f].pc # "none",
           DoneWith(f, t) \/ Finished(f),
           UNCHANGED <<source, changes, known, run>>
    PROVE  /\ work' \in [Files -> FileWork]
           /\ \A g \in Files : /\ work'[g].stamp <= changes
                               /\ work'[g].pc = "staged"
                                    => /\ work[g].pc = "staged" /\ work'[g].plain = work[g].plain
                                       /\ work'[g].stamp = work[g].stamp
<1>1. /\ \/ work'[f] = Unlisted
         \/ work'[f] = WithLeft(work[f], work[f].left \ {t})
      /\ \A g \in Files \ {f} : work'[g] = work[g]
      /\ DOMAIN work' = Files /\ work' = [g \in Files |-> work'[g]]
  BY DEF DoneWith, Finished, SkipInv, Types, WithLeft
<1>2. work[f] \in FileWork /\ work[f].left \ {t} \in SUBSET Targets
  BY DEF SkipInv, Types, FileWork
<1>3. /\ work'[f] \in FileWork
      /\ \/ work'[f] = Unlisted
         \/ /\ work'[f].pc = work[f].pc /\ work'[f].plain = work[f].plain
            /\ work'[f].stamp = work[f].stamp
  <2>1. CASE work'[f] = Unlisted
    BY <2>1, RowTypes
  <2>2. CASE work'[f] = WithLeft(work[f], work[f].left \ {t})
    BY <1>2, <2>2, WithLeftType
  <2> QED BY <1>1, <2>1, <2>2
<1>4. changes \in Nat /\ \A g \in Files : work[g].stamp <= changes
  BY DEF SkipInv, Types, Stamped
<1> QED BY <1>1, <1>3, <1>4, RowTypes DEF SkipInv, Types

LEMMA SkipUpload ==
    ASSUME SkipInv, NEW f \in Files, NEW t \in Targets,
           Upload(f, t) \/ UploadUnrecorded(f, t) \/ UploadFails(f, t) \/ UploadUnanswered(f, t)
    PROVE  SkipInv'
<1> USE DEF Answered, FileFailed
<1>1. /\ work[f].pc = "staged" /\ DoneWith(f, t)
      /\ UNCHANGED <<source, changes, known, run>>
  BY DEF Upload, UploadUnrecorded, UploadFails, UploadUnanswered
<1>2. /\ work' \in [Files -> FileWork]
      /\ \A g \in Files : /\ work'[g].stamp <= changes
                          /\ work'[g].pc = "staged"
                               => /\ work[g].pc = "staged" /\ work'[g].plain = work[g].plain
                                  /\ work'[g].stamp = work[g].stamp
  BY <1>1, SkipWork
<1>3. /\ work[f].plain \in Contents /\ work[f].stamp \in Nat /\ work[f].stamp <= changes
      /\ Exists(f) /\ work[f].stamp = source[f].stamp => work[f].plain = source[f].content
  BY <1>1 DEF SkipInv, Types, Stamped, FileWork
<1>4. /\ net' = net \/ net' = net \cup {[target |-> t, file |-> f, content |-> work[f].plain]}
      /\ \/ rows' = rows
         \/ rows' = [rows EXCEPT ![<<t, f>>] = [stamp |-> work[f].stamp, content |-> work[f].plain]]
  BY DEF Upload, UploadUnrecorded, UploadFails, UploadUnanswered, SaveState
<1>5. /\ rows' \in [Pairs -> Stamp]
      /\ \A p \in Pairs : \/ rows'[p] = rows[p]
                          \/ p = <<t, f>> /\ rows'[p] = [stamp |-> work[f].stamp, content |-> work[f].plain]
  <2>1. CASE rows' = rows
    BY <2>1 DEF SkipInv, Types
  <2>2. CASE rows' = [rows EXCEPT ![<<t, f>>] = [stamp |-> work[f].stamp, content |-> work[f].plain]]
    BY <1>3, <2>2 DEF SkipInv, Types, Stamp
  <2> QED BY <1>4, <2>1, <2>2
<1>6. Types'
  BY <1>1, <1>2, <1>3, <1>4, <1>5 DEF SkipInv, Types
<1>7. Stamped'
  BY <1>1, <1>2, <1>3, <1>5 DEF SkipInv, Stamped, Exists
<1>8. SkipIsSound'
  BY <1>1, <1>3, <1>5 DEF SkipInv, SkipIsSound, Recorded, Exists
<1> QED BY <1>6, <1>7, <1>8 DEF SkipInv

LEMMA SkipStep == SkipInv /\ [Next]_vars => SkipInv'
<1> SUFFICES ASSUME SkipInv, [Next]_vars PROVE SkipInv'
  OBVIOUS
<1>1. CASE UNCHANGED <<source, changes, rows, net, workVars>>
  BY <1>1 DEF workVars, SkipInv, Types, Stamped, SkipIsSound, Exists, Recorded
<1>2. ASSUME NEW f \in Files, NEW content \in Contents \cup {Absent}, Change(f, content)
      PROVE  SkipInv'
  BY <1>2, SkipChange
<1>3. CASE Scan \/ Retry \/ Flush
  <2>1. PICK kind \in {"scan", "batch"}, targets \in SUBSET Targets :
            \E paths : Begin(kind, targets, paths)
    BY <1>3 DEF Scan, Retry, Flush
  <2> QED BY <2>1, SkipBegin
<1>4. ASSUME NEW f \in Files, HashFails(f) \/ EncryptFails(f)
      PROVE  SkipInv'
  <2>1. /\ work' = [work EXCEPT ![f] = Unlisted]
        /\ UNCHANGED <<source, changes, rows, net, run, known>>
    BY <1>4 DEF HashFails, EncryptFails, FileFailed, Finished
  <2>2. work' \in [Files -> FileWork] /\ \A g \in Files : g # f => work'[g] = work[g]
    BY <2>1, RowTypes DEF SkipInv, Types
  <2>3. work'[f].pc = "none" /\ work'[f].stamp = 0
    BY <2>1, RowTypes DEF SkipInv, Types
  <2>4. Types'
    BY <2>1, <2>2, <2>3 DEF SkipInv, Types
  <2>5. Stamped'
    BY <2>1, <2>2, <2>3 DEF SkipInv, Types, Stamped, Exists
  <2> QED BY <2>1, <2>4, <2>5 DEF SkipInv, SkipIsSound, Exists, Recorded
<1>5. ASSUME NEW f \in Files, Process(f)
      PROVE  SkipInv'
  BY <1>4, <1>5, SkipHash, SkipEncrypt, SkipUpload DEF Process
<1>6. CASE End
  <2>1. /\ run' = NoRun /\ known' = [p \in Pairs |-> NoRow] /\ work' = work
        /\ UNCHANGED <<source, changes, rows, net>>
    BY <1>6 DEF End
  <2> QED BY <2>1, RowTypes
          DEF SkipInv, Types, Stamped, SkipIsSound, Exists, Recorded, NoRun
<1>7. CASE Arrive
  BY <1>7 DEF Arrive, workVars, SkipInv, Types, Stamped, SkipIsSound, Exists, Recorded
<1>8. CASE Recreate
  <2>1. /\ rows' = [p \in Pairs |-> NoRow]
        /\ UNCHANGED <<source, changes, net, workVars>>
    BY <1>8 DEF Recreate
  <2> QED BY <2>1, RowTypes
          DEF workVars, SkipInv, Types, Stamped, SkipIsSound, Exists, Recorded
<1>9. CASE Restart
  <2>1. /\ run' = NoRun /\ known' = [p \in Pairs |-> NoRow] /\ work' = [f \in Files |-> Unlisted]
        /\ UNCHANGED <<source, changes, rows, net>>
    BY <1>9 DEF Restart
  <2> QED BY <2>1, RowTypes
          DEF SkipInv, Types, Stamped, SkipIsSound, Exists, Recorded, NoRun
<1>10. \/ (\E f \in Files, content \in Contents \cup {Absent} : Change(f, content))
       \/ Scan \/ Retry \/ Flush
       \/ (\E f \in Files : Process(f))
       \/ End \/ Arrive \/ Recreate \/ Restart
       \/ UNCHANGED <<source, changes, rows, net, workVars>>
  BY DEF Next, Watcher, SweepFileVersions, StartWatch, Handle, FlushFails, DropEvents, Reschedule, vars
<1> QED BY <1>1, <1>2, <1>3, <1>5, <1>6, <1>7, <1>8, <1>9, <1>10

\* A scan that passes over a file unread passes over nothing that changed,
\* however long after its stamp the file was read (targetsNeeding).
THEOREM SkippingIsSound == Spec => []SkipIsSound
<1>1. SkipInv => SkipIsSound
  BY DEF SkipInv
<1> QED BY <1>1, SkipInit, SkipStep, PTL DEF Spec

-----------------------------------------------------------------------------
(* The versions of one path. *)

Version == [version : Nat, content : Contents]
Highest(S, v) == v \in S /\ \A w \in S : w.version <= v.version

\* Numbers differ, and there is a highest one.
Numbering(S) ==
    /\ S \subseteq Version
    /\ \A v, w \in S : v.version = w.version => v = w
    /\ S # {} => \E v \in S : Highest(S, v)

LEMMA NewestHighest ==
    ASSUME NEW S, Numbering(S), S # {}
    PROVE  Highest(S, Newest(S))
BY DEF Numbering, Newest, Highest

LEMMA HighestNewest ==
    ASSUME NEW S, Numbering(S), NEW v \in S, Highest(S, v)
    PROVE  v = Newest(S)
<1>1. Highest(S, Newest(S))
  BY NewestHighest
<1>2. v.version = Newest(S).version
  BY <1>1 DEF Highest, Numbering, Version
<1> QED BY <1>1, <1>2 DEF Numbering, Highest

\* Whatever is uploaded is the newest version's content afterwards.
LEMMA Written ==
    ASSUME NEW S, Numbering(S), NEW content \in Contents, NEW T, T = WriteFileVersion(S, content)
    PROVE  Numbering(T) /\ T # {} /\ Newest(T).content = content
<1>1. CASE S # {} /\ Newest(S).content = content
  BY <1>1 DEF WriteFileVersion
<1>2. CASE ~(S # {} /\ Newest(S).content = content)
  <2> DEFINE new == [version |-> NextVersion(S), content |-> content]
  <2>1. NextVersion(S) \in Nat /\ \A v \in S : v.version < NextVersion(S) /\ v.version \in Nat
    <3>1. CASE S = {}
      BY <3>1 DEF NextVersion
    <3>2. CASE S # {}
      BY <3>2, NewestHighest DEF NextVersion, Highest, Numbering, Version
    <3> QED BY <3>1, <3>2
  <2>2. T = S \cup {new}
    BY <1>2 DEF WriteFileVersion
  <2>3. /\ new \in Version /\ new.version = NextVersion(S) /\ new.content = content
        /\ new \in T
    BY <2>1, <2>2 DEF Version
  <2> HIDE DEF new
  <2>4. Highest(T, new)
    BY <2>1, <2>2, <2>3 DEF Highest
  <2>5. Numbering(T)
    BY <2>1, <2>2, <2>3, <2>4 DEF Numbering
  <2> QED BY <2>3, <2>4, <2>5, HighestNewest
<1> QED BY <1>1, <1>2

\* A sweep leaves the newest version.
LEMMA Swept ==
    ASSUME NEW S, Numbering(S), NEW aged, NEW removed \in SUBSET expiredVersions(S, aged)
    PROVE  /\ Numbering(S \ removed)
           /\ S # {} => S \ removed # {} /\ Newest(S \ removed) = Newest(S)
<1>1. CASE S = {}
  BY <1>1 DEF Numbering
<1>2. CASE S # {}
  <2>1. Highest(S, Newest(S)) /\ Newest(S) \notin removed
    BY <1>2, NewestHighest DEF expiredVersions
  <2>2. Highest(S \ removed, Newest(S)) /\ Newest(S) \in S \ removed
    BY <2>1 DEF Highest
  <2>3. Numbering(S \ removed)
    BY <2>2 DEF Numbering
  <2> QED BY <2>2, <2>3, HighestNewest
<1> QED BY <1>1, <1>2

-----------------------------------------------------------------------------
(* What is confirmed. *)

Numbered ==
    /\ versions \in [Pairs -> SUBSET Version]
    /\ \A p \in Pairs : Numbering(versions[p])

GivenUp == \A m \in net : <<m.target, m.file>> \in unsure

Holds(p, content) == versions[p] # {} /\ Newest(versions[p]).content = content

\* What a run goes by, where it has not yet uploaded the file itself.
KnownIsNewest ==
    \A p \in Pairs \ unsure :
        work[p[2]].pc = "listed" /\ known[p] # NoRow => Holds(p, known[p].content)

ConfirmedInv == Numbered /\ GivenUp /\ KnownIsNewest /\ ConfirmedIsNewest

LEMMA ConfirmedInit == Init => ConfirmedInv
BY DEF Init, ConfirmedInv, Numbered, Numbering, GivenUp, KnownIsNewest, ConfirmedIsNewest, Recorded

\* The steps that neither record nor receive anything.
LEMMA ConfirmedFrame ==
    ASSUME ConfirmedInv, UNCHANGED <<rows, versions, net, known, unsure>>,
           \A f \in Files : work'[f].pc = "listed" => work[f].pc = "listed"
    PROVE  ConfirmedInv'
BY PairTypes DEF ConfirmedInv, Numbered, GivenUp, KnownIsNewest, ConfirmedIsNewest, Recorded, Holds

LEMMA ConfirmedBegin ==
    ASSUME ConfirmedInv, NEW kind, NEW targets \in SUBSET Targets, NEW paths,
           Begin(kind, targets, paths)
    PROVE  ConfirmedInv'
<1>1. /\ UNCHANGED <<rows, versions, net, unsure>>
      /\ known' = [p \in Pairs |-> IF p[1] \in targets THEN rows[p] ELSE NoRow]
  BY DEF Begin
<1>2. KnownIsNewest'
  BY <1>1 DEF ConfirmedInv, KnownIsNewest, ConfirmedIsNewest, Holds, Recorded
<1> QED BY <1>1, <1>2 DEF ConfirmedInv, Numbered, GivenUp, ConfirmedIsNewest, Recorded

LEMMA ConfirmedHash ==
    ASSUME SkipInv, ConfirmedInv, NEW f \in Files, Hash(f) PROVE ConfirmedInv'
<1> DEFINE plain == source[f].content
           needed == {t \in run.targets : DiffersByContent(known[<<t, f>>], plain)}
<1>1. PICK saved \in SUBSET (Touched(f) \ needed) :
          rows' = [p \in Pairs |-> IF p \in saved \X {f}
                                   THEN [stamp |-> work[f].stamp, content |-> plain]
                                   ELSE rows[p]]
  BY DEF Hash
<1>2. UNCHANGED <<versions, net, known, unsure>> /\ work[f].pc = "listed"
  BY DEF Hash
<1>3. \A t \in saved : known[<<t, f>>] # NoRow /\ known[<<t, f>>].content = plain
  BY DEF Touched, DiffersByContent
<1>4. \A g \in Files : work'[g].pc = "listed" => work[g].pc = "listed"
  BY <1>2 DEF Hash, SkipInv, Types
<1>5. ConfirmedIsNewest'
  <2> SUFFICES ASSUME NEW p \in Pairs \ unsure, Recorded(p)' PROVE Holds(p, rows'[p].content)
    BY <1>2 DEF ConfirmedIsNewest, Holds
  <2>1. CASE p \in saved \X {f}
    <3>1. known[p] # NoRow /\ known[p].content = plain /\ p[2] = f
      BY <1>3, <2>1
    <3> QED BY <1>1, <1>2, <2>1, <3>1 DEF ConfirmedInv, KnownIsNewest
  <2>2. CASE p \notin saved \X {f}
    BY <1>1, <2>2 DEF ConfirmedInv, ConfirmedIsNewest, Recorded, Holds
  <2> QED BY <2>1, <2>2
<1>6. KnownIsNewest'
  BY <1>2, <1>4, PairTypes DEF ConfirmedInv, KnownIsNewest, Holds
<1> QED BY <1>2, <1>5, <1>6 DEF ConfirmedInv, Numbered, GivenUp

\* A file that is received, when the sender has the answer and when not.
LEMMA ConfirmedReceive ==
    ASSUME ConfirmedInv, NEW t \in Targets, NEW f \in Files, NEW content \in Contents,
           Receive(t, f, content)
    PROVE  /\ Numbered'
           /\ \A p \in Pairs \ {<<t, f>>} : versions'[p] = versions[p]
           /\ versions'[<<t, f>>] # {} /\ Newest(versions'[<<t, f>>]).content = content
<1> DEFINE p == <<t, f>>
<1>1. p \in Pairs
  BY DEF Pairs
<1> HIDE DEF p
<1>2. /\ \A q \in Pairs : versions'[q] = IF q = p THEN WriteFileVersion(versions[p], content)
                                                 ELSE versions[q]
      /\ versions' = [q \in Pairs |-> versions'[q]]
  BY <1>1 DEF Receive, ConfirmedInv, Numbered, p
<1>3. Numbering(versions'[p]) /\ versions'[p] # {} /\ Newest(versions'[p]).content = content
  BY <1>1, <1>2, Written DEF ConfirmedInv, Numbered
<1>4. Numbered'
  BY <1>1, <1>2, <1>3 DEF ConfirmedInv, Numbered, Numbering
<1> QED BY <1>2, <1>3, <1>4 DEF p

LEMMA ConfirmedUpload ==
    ASSUME SkipInv, ConfirmedInv, NEW f \in Files, NEW t \in Targets,
           Upload(f, t) \/ UploadUnrecorded(f, t)
    PROVE  ConfirmedInv'
<1> DEFINE p == <<t, f>>
<1>1. /\ work[f].pc = "staged" /\ DoneWith(f, t) /\ Receive(t, f, work[f].plain)
      /\ UNCHANGED <<source, changes, net, run, known>>
  BY DEF Upload, UploadUnrecorded, Answered
<1>2. work[f].plain \in Contents /\ p \in Pairs
  BY <1>1 DEF SkipInv, Types, Pairs
<1>3. /\ Numbered'
      /\ \A q \in Pairs \ {p} : versions'[q] = versions[q]
      /\ versions'[p] # {} /\ Newest(versions'[p]).content = work[f].plain
  BY <1>1, <1>2, ConfirmedReceive
<1>4. work'[f].pc # "listed" /\ \A g \in Files : work'[g].pc = "listed" => work[g].pc = "listed"
  <2>1. /\ work'[f] = Unlisted \/ work'[f] = WithLeft(work[f], work[f].left \ {t})
        /\ \A g \in Files \ {f} : work'[g] = work[g]
    BY <1>1 DEF DoneWith, WithLeft, SkipInv, Types
  <2>2. work[f] \in FileWork /\ work[f].left \ {t} \in SUBSET Targets
    BY DEF SkipInv, Types, FileWork
  <2>3. CASE work'[f] = Unlisted
    BY <2>1, <2>3, RowTypes
  <2>4. CASE work'[f] = WithLeft(work[f], work[f].left \ {t})
    BY <1>1, <2>1, <2>2, <2>4, WithLeftType
  <2> QED BY <2>1, <2>3, <2>4
<1>5. /\ \A q \in Pairs \ {p} : rows'[q] = rows[q] /\ (q \in unsure' <=> q \in unsure)
      /\ p \notin unsure' => rows'[p].content = work[f].plain
      /\ GivenUp'
  <2>1. CASE Upload(f, t)
    <3>1. /\ rows' = [rows EXCEPT ![p] = [stamp |-> work[f].stamp, content |-> work[f].plain]]
          /\ unsure' = IF Lost(t, f) THEN unsure ELSE unsure \ {p}
      BY <2>1 DEF Upload, SaveState
    <3>2. \A m \in net : <<m.target, m.file>> = p => Lost(t, f)
      BY DEF Lost
    <3> QED BY <1>1, <1>2, <3>1, <3>2 DEF ConfirmedInv, GivenUp, SkipInv, Types
  <2>2. CASE UploadUnrecorded(f, t)
    BY <1>1, <2>2 DEF UploadUnrecorded, ConfirmedInv, GivenUp
  <2> QED BY <2>1, <2>2
<1> HIDE DEF p
<1>6. ConfirmedIsNewest'
  BY <1>2, <1>3, <1>5 DEF ConfirmedInv, ConfirmedIsNewest, Recorded
<1>7. KnownIsNewest'
  <2>1. p[2] = f
    BY DEF p
  <2> QED BY <1>1, <1>2, <1>3, <1>4, <1>5, <2>1, PairTypes DEF ConfirmedInv, KnownIsNewest, Holds
<1> QED BY <1>3, <1>5, <1>6, <1>7 DEF ConfirmedInv

LEMMA ConfirmedUnanswered ==
    ASSUME SkipInv, ConfirmedInv, NEW f \in Files, NEW t \in Targets,
           UploadFails(f, t) \/ UploadUnanswered(f, t)
    PROVE  ConfirmedInv'
<1>1. /\ work[f].pc = "staged" /\ DoneWith(f, t)
      /\ UNCHANGED <<source, changes, rows, versions, known, run>>
      /\ unsure \subseteq unsure'
      /\ \A m \in net' : m \in net \/ <<m.target, m.file>> \in unsure'
  BY DEF UploadFails, UploadUnanswered, FileFailed
<1>2. \A g \in Files : work'[g].pc = "listed" => work[g].pc = "listed"
  <2>1. \A g \in Files \ {f} : work'[g] = work[g]
    BY <1>1 DEF DoneWith, SkipInv, Types
  <2>2. /\ work'[f] = Unlisted \/ work'[f] = WithLeft(work[f], work[f].left \ {t})
        /\ work[f] \in FileWork /\ work[f].left \ {t} \in SUBSET Targets
    BY <1>1 DEF DoneWith, WithLeft, SkipInv, Types, FileWork
  <2>3. CASE work'[f] = Unlisted
    BY <2>1, <2>3, RowTypes
  <2>4. CASE work'[f] = WithLeft(work[f], work[f].left \ {t})
    BY <1>1, <2>1, <2>2, <2>4, WithLeftType
  <2> QED BY <2>2, <2>3, <2>4
<1> QED BY <1>1, <1>2, PairTypes
        DEF ConfirmedInv, Numbered, GivenUp, KnownIsNewest, ConfirmedIsNewest, Recorded, Holds

\* An upload that arrives late makes its pair no surer.
LEMMA ConfirmedArrive == ASSUME SkipInv, ConfirmedInv, Arrive PROVE ConfirmedInv'
<1>1. PICK m \in net : /\ net' = net \ {m} /\ Receive(m.target, m.file, m.content)
                       /\ UNCHANGED <<rows, work, known, unsure>>
  BY DEF Arrive, workVars
<1>2. m.target \in Targets /\ m.file \in Files /\ m.content \in Contents
  BY DEF SkipInv, Types
<1>3. /\ Numbered'
      /\ \A q \in Pairs \ {<<m.target, m.file>>} : versions'[q] = versions[q]
  BY <1>1, <1>2, ConfirmedReceive
<1>4. <<m.target, m.file>> \in unsure
  BY DEF ConfirmedInv, GivenUp
<1> QED BY <1>1, <1>3, <1>4
        DEF ConfirmedInv, GivenUp, KnownIsNewest, ConfirmedIsNewest, Recorded, Holds

LEMMA ConfirmedSweep ==
    ASSUME ConfirmedInv, NEW p \in Pairs, SweepFileVersions(p)
    PROVE  ConfirmedInv'
<1>1. PICK aged \in 0..NextVersion(versions[p]) :
          \E removed \in SUBSET expiredVersions(versions[p], aged) :
              versions' = [versions EXCEPT ![p] = versions[p] \ removed]
  BY DEF SweepFileVersions
<1>2. PICK removed \in SUBSET expiredVersions(versions[p], aged) :
          versions' = [versions EXCEPT ![p] = versions[p] \ removed]
  BY <1>1
<1>3. UNCHANGED <<rows, net, work, known, unsure>>
  BY DEF SweepFileVersions, workVars
<1>4. /\ Numbering(versions[p] \ removed)
      /\ versions[p] # {} => /\ versions[p] \ removed # {}
                             /\ Newest(versions[p] \ removed) = Newest(versions[p])
  BY Swept DEF ConfirmedInv, Numbered
<1>5. \A q \in Pairs : /\ Numbering(versions'[q])
                       /\ versions[q] # {} => /\ versions'[q] # {}
                                              /\ Newest(versions'[q]) = Newest(versions[q])
  BY <1>2, <1>4 DEF ConfirmedInv, Numbered
<1>6. Numbered'
  BY <1>2, <1>5 DEF ConfirmedInv, Numbered, Numbering
<1> QED BY <1>3, <1>5, <1>6
        DEF ConfirmedInv, GivenUp, KnownIsNewest, ConfirmedIsNewest, Recorded, Holds

LEMMA ConfirmedStep == SkipInv /\ ConfirmedInv /\ [Next]_vars => ConfirmedInv'
<1> SUFFICES ASSUME SkipInv, ConfirmedInv, [Next]_vars PROVE ConfirmedInv'
  OBVIOUS
<1>1. CASE UNCHANGED <<rows, versions, net, workVars, unsure>>
  BY <1>1, ConfirmedFrame DEF workVars
<1>2. CASE Scan \/ Retry \/ Flush
  <2>1. PICK kind \in {"scan", "batch"}, targets \in SUBSET Targets :
            \E paths : Begin(kind, targets, paths)
    BY <1>2 DEF Scan, Retry, Flush
  <2> QED BY <2>1, ConfirmedBegin
<1>3. ASSUME NEW f \in Files, HashFails(f) \/ EncryptFails(f)
      PROVE  ConfirmedInv'
  <2>1. /\ work' = [work EXCEPT ![f] = Unlisted]
        /\ UNCHANGED <<rows, versions, net, known, unsure>>
    BY <1>3 DEF HashFails, EncryptFails, FileFailed, Finished
  <2>2. \A g \in Files : work'[g].pc = "listed" => work[g].pc = "listed"
    BY <2>1, RowTypes DEF SkipInv, Types
  <2> QED BY <2>1, <2>2, ConfirmedFrame
<1>4. ASSUME NEW f \in Files, Encrypt(f)
      PROVE  ConfirmedInv'
  <2>1. /\ work' = [work EXCEPT ![f] = StagedWith(work[f], source[f].content)]
        /\ UNCHANGED <<rows, versions, net, known, unsure>>
    BY <1>4 DEF Encrypt, StagedWith
  <2>2. work[f] \in FileWork /\ source[f].content \in Contents \cup {Absent}
    BY DEF SkipInv, Types, Stamp
  <2>3. StagedWith(work[f], source[f].content).pc = "staged"
    BY <2>2, StagedWithType
  <2>4. \A g \in Files : work'[g].pc = "listed" => work[g].pc = "listed"
    BY <2>1, <2>3 DEF SkipInv, Types
  <2> QED BY <2>1, <2>4, ConfirmedFrame
<1>5. ASSUME NEW f \in Files, Process(f)
      PROVE  ConfirmedInv'
  BY <1>3, <1>4, <1>5, ConfirmedHash, ConfirmedUpload, ConfirmedUnanswered DEF Process
<1>6. CASE End \/ Restart
  <2>1. /\ known' = [p \in Pairs |-> NoRow]
        /\ UNCHANGED <<rows, versions, net, unsure>>
    BY <1>6 DEF End, Restart
  <2> QED BY <2>1 DEF ConfirmedInv, Numbered, GivenUp, KnownIsNewest, ConfirmedIsNewest, Recorded
<1>7. CASE Recreate
  <2>1. /\ rows' = [p \in Pairs |-> NoRow]
        /\ UNCHANGED <<versions, net, workVars, unsure>>
    BY <1>7 DEF Recreate
  <2> QED BY <2>1
          DEF workVars, ConfirmedInv, Numbered, GivenUp, KnownIsNewest, ConfirmedIsNewest, Recorded, Holds
<1>8. \/ Scan \/ Retry \/ Flush
      \/ (\E f \in Files : Process(f))
      \/ Arrive \/ (\E p \in Pairs : SweepFileVersions(p))
      \/ End \/ Restart \/ Recreate
      \/ UNCHANGED <<rows, versions, net, workVars, unsure>>
  BY DEF Next, Watcher, Change, StartWatch, Handle, FlushFails, DropEvents, Reschedule, vars
<1> QED BY <1>1, <1>2, <1>5, <1>6, <1>7, <1>8, ConfirmedArrive, ConfirmedSweep

\* What a row records is the newest version on the target's receiver, through
\* sweeps, late arrivals, restarts and runs that go on with rows of a deleted
\* job, unless an upload of the file went unrecorded since.
THEOREM RecordedIsNewest == Spec => []ConfirmedIsNewest
<1>1. Spec => [](SkipInv /\ ConfirmedInv)
  BY SkipInit, SkipStep, ConfirmedInit, ConfirmedStep, PTL DEF Spec
<1>2. ConfirmedInv => ConfirmedIsNewest
  BY DEF ConfirmedInv
<1> QED BY <1>1, <1>2, PTL

-----------------------------------------------------------------------------
(* What is owed. *)

WatchTypes ==
    /\ watcher \in [on : BOOLEAN, pending : SUBSET (Files \cup {Overflow}), full : BOOLEAN]
    /\ events \subseteq Files \cup {Overflow}
    /\ ~watcher.on => watcher = NotWatching

\* Noticed, and not forgotten when the run in flight ends.
Later ==
    IF run.kind # "batch" THEN Noticed
    ELSE IF Overflow \in events THEN Files ELSE events

Known(t, f) == f \in Later \/ InRun(t, f) \/ <<t, f>> \in excused
OwedLater   == \A t \in Targets, f \in Files : Owed(t, f) => Known(t, f)

\* A file that changed after it was listed comes up again.
Seen(f)   == f \in Later \/ Targets \X {f} \subseteq excused
Overtaken == \A f \in Files : work[f].pc # "none" /\ work[f].stamp # source[f].stamp => Seen(f)

\* A listed file's known rows are those of the database, unless the job was
\* deleted meanwhile.
KnownIsRow ==
    \A t \in run.targets, f \in Files :
        work[f].pc = "listed" => known[<<t, f>>] = rows[<<t, f>>] \/ <<t, f>> \in excused

Idle == run.kind = "none" => run.targets = {}

OwedInv == WatchTypes /\ OwedLater /\ Overtaken /\ KnownIsRow /\ Idle

LEMMA OwedInit == Init => OwedInv
<1> SUFFICES ASSUME Init PROVE OwedInv
  OBVIOUS
<1>1. WatchTypes /\ Idle
  BY DEF Init, WatchTypes, NotWatching, NoRun, Idle
<1>2. OwedLater
  BY DEF Init, OwedLater, Known, Pairs
<1>3. Overtaken /\ KnownIsRow
  BY RowTypes DEF Init, Overtaken, KnownIsRow, NoRun
<1> QED BY <1>1, <1>2, <1>3 DEF OwedInv

\* Steps of the watcher and the receivers: what is ahead of the watcher stays
\* so, or is excused.
LEMMA OwedFrame ==
    ASSUME OwedInv, WatchTypes', UNCHANGED <<source, rows, workVars>>, excused \subseteq excused',
           \A f \in Files : f \in Later => Seen(f)'
    PROVE  OwedInv'
<1> USE DEF workVars
<1>1. OwedLater'
  BY DEF OwedInv, OwedLater, Owed, Exists, Known, InRun, Seen
<1>2. Overtaken'
  BY DEF OwedInv, Overtaken, Seen
<1> QED BY <1>1, <1>2 DEF OwedInv, KnownIsRow, Idle

\* Steps after which everything is excused.
LEMMA OwedExcused ==
    ASSUME OwedInv, WatchTypes', Idle', excused' = Pairs, run'.targets \subseteq Targets
    PROVE  OwedInv'
BY DEF OwedInv, OwedLater, Known, Overtaken, Seen, KnownIsRow, Pairs

LEMMA OwedWatcher ==
    ASSUME OwedInv,
           \/ StartWatch \/ (\E e \in events : Handle(e)) \/ FlushFails
           \/ DropEvents \/ Reschedule
    PROVE  OwedInv'
<1>0. WatchTypes
  BY DEF OwedInv
<1>1. CASE StartWatch
  <2>1. /\ watcher = NotWatching /\ watcher' = [NotWatching EXCEPT !.on = TRUE]
        /\ UNCHANGED <<source, rows, workVars, events, excused>>
    BY <1>0, <1>1 DEF StartWatch, WatchTypes
  <2>2. WatchTypes'
    BY <1>0, <2>1 DEF WatchTypes, NotWatching
  <2>3. Noticed \subseteq Noticed'
    BY <2>1 DEF Noticed, NotWatching
  <2> QED BY <2>1, <2>2, <2>3, OwedFrame DEF Later, Seen, workVars
<1>2. ASSUME NEW e \in events, Handle(e)
      PROVE  OwedInv'
  <2>1. /\ run.kind # "batch" /\ events' = events \ {e}
        /\ watcher' = IF e = Overflow THEN MarkFull(watcher) ELSE Add(watcher, e)
        /\ UNCHANGED <<source, rows, workVars, excused>>
        /\ watcher.on
    BY <1>2 DEF Handle, Reading
  <2>2. \/ watcher' = MarkFull(watcher)
        \/ watcher' = watcher /\ watcher.full
        \/ watcher' = [watcher EXCEPT !.pending = watcher.pending \cup {e}] /\ e # Overflow
    BY <2>1 DEF Add
  <2>3. CASE watcher' = MarkFull(watcher)
    <3>1. watcher'.full /\ WatchTypes'
      BY <1>0, <2>1, <2>3 DEF MarkFull, WatchTypes
    <3> QED BY <2>1, <3>1, OwedFrame DEF Later, Noticed, Seen, workVars
  <2>4. CASE watcher' = watcher /\ watcher.full
    <3>1. WatchTypes'
      BY <1>0, <2>1, <2>4 DEF WatchTypes
    <3> QED BY <2>1, <2>4, <3>1, OwedFrame DEF Later, Noticed, Seen, workVars
  <2>5. CASE watcher' = [watcher EXCEPT !.pending = watcher.pending \cup {e}] /\ e # Overflow
    <3>1. /\ WatchTypes' /\ watcher'.full = watcher.full
          /\ watcher'.pending = watcher.pending \cup {e}
      BY <1>0, <2>1, <2>5 DEF WatchTypes
    <3>2. Noticed \subseteq Noticed'
      BY <2>1, <2>5, <3>1 DEF Noticed
    <3> QED BY <2>1, <3>1, <3>2, OwedFrame DEF Later, Seen, workVars
  <2> QED BY <2>2, <2>3, <2>4, <2>5
<1>3. CASE FlushFails
  <2>1. /\ run.kind = "none" /\ watcher' = [watcher EXCEPT !.pending = {}, !.full = FALSE]
        /\ excused' = excused \cup (Targets \X Batch)
        /\ UNCHANGED <<source, rows, workVars, events>>
        /\ watcher.on
    BY <1>3 DEF FlushFails, Reading
  <2>2. WatchTypes' /\ watcher'.pending = {} /\ ~watcher'.full
    BY <1>0, <2>1 DEF WatchTypes
  <2>3. ASSUME NEW f \in Files, f \in Noticed
        PROVE  f \in Noticed' \/ Targets \X {f} \subseteq excused'
    BY <2>1, <2>2, <2>3 DEF Noticed, Batch
  <2> QED BY <2>1, <2>2, <2>3, OwedFrame DEF Later, Seen, workVars
<1>4. CASE DropEvents
  <2>1. WatchTypes'
    BY <1>0, <1>4 DEF DropEvents, WatchTypes
  <2>2. Files \subseteq Later'
    BY <1>4 DEF DropEvents, Later, Noticed
  <2> QED BY <1>4, <2>1, <2>2, OwedFrame DEF DropEvents, Seen
<1>5. CASE Reschedule
  <2>1. WatchTypes'
    BY <1>5 DEF Reschedule, Unwatch, WatchTypes, NotWatching
  <2>2. ASSUME NEW f \in Files, f \in Later
        PROVE  Targets \X {f} \subseteq excused'
    BY <1>5, <2>2 DEF Reschedule, Reading, Later
  <2> QED BY <1>5, <2>1, <2>2, OwedFrame DEF Reschedule, Seen
<1> QED BY <1>1, <1>2, <1>3, <1>4, <1>5

LEMMA OwedChange ==
    ASSUME SkipInv, OwedInv, NEW f \in Files, NEW content \in Contents \cup {Absent},
           Change(f, content)
    PROVE  OwedInv'
<1>1. /\ \A g \in Files \ {f} : source'[g] = source[g]
      /\ UNCHANGED <<rows, workVars, watcher>>
      /\ events' = IF watcher.on THEN events \cup {f} ELSE events
      /\ excused' = IF watcher.on THEN excused ELSE excused \cup (Targets \X {f})
  BY DEF Change, SkipInv, Types
<1>2. WatchTypes'
  BY <1>1 DEF OwedInv, WatchTypes
<1>3. /\ \A g \in Files : g \in Later => g \in Later'
      /\ excused \subseteq excused'
      /\ f \in Later' \/ Targets \X {f} \subseteq excused'
  BY <1>1 DEF Later, Noticed, workVars
<1>4. OwedLater'
  BY <1>1, <1>3 DEF OwedInv, OwedLater, Owed, Exists, Known, InRun, workVars
<1>5. Overtaken'
  BY <1>1, <1>3 DEF OwedInv, Overtaken, Seen, workVars
<1>6. KnownIsRow' /\ Idle'
  BY <1>1, <1>3 DEF OwedInv, KnownIsRow, Idle, workVars
<1> QED BY <1>2, <1>4, <1>5, <1>6 DEF OwedInv

\* A run takes up all that is owed of what it looks at: a file it skips by its
\* stamp is not owed (SkipIsSound).
LEMMA OwedBegin ==
    ASSUME SkipInv, OwedInv, NEW kind \in {"scan", "batch"}, NEW targets \in SUBSET Targets, NEW paths,
           Begin(kind, targets, paths),
           kind = "batch" => targets = Targets /\ paths = Batch
    PROVE  OwedInv'
<1>1. /\ run.kind = "none" /\ run' = [kind |-> kind, targets |-> targets]
      /\ known' = [p \in Pairs |-> IF p[1] \in targets THEN rows[p] ELSE NoRow]
      /\ excused' = excused \ (targets \X paths)
      /\ UNCHANGED <<source, rows, watcher, events>>
  BY DEF Begin, watchVars
<1>2. \A f \in Files :
          work'[f] = IF f \in paths /\ source[f].content # Absent
                         /\ \E t \in targets : DiffersByStamp(rows[<<t, f>>], source[f].stamp)
                     THEN Listed(source[f].stamp) ELSE Unlisted
  BY DEF Begin, Listed
<1>3. \A f \in Files : /\ source[f].stamp \in Nat
                       /\ Listed(source[f].stamp).pc = "listed"
                       /\ Listed(source[f].stamp).stamp = source[f].stamp
  BY ListedType DEF SkipInv, Types, Stamp
<1>4. ASSUME NEW t \in targets, NEW f \in Files, f \in paths, Owed(t, f)
      PROVE  InRun(t, f)'
  <2>1. <<t, f>> \in Pairs
    BY DEF Pairs
  <2>2. DiffersByStamp(rows[<<t, f>>], source[f].stamp)
    BY <1>4, <2>1 DEF Owed, DiffersByStamp, SkipInv, SkipIsSound, Recorded
  <2> QED BY <1>1, <1>2, <1>3, <1>4, <2>2 DEF InRun, Owed, Exists
<1>5. ASSUME NEW t \in Targets, NEW f \in Files, Owed(t, f)
      PROVE  Known(t, f)'
  <2>1. f \in Noticed \/ <<t, f>> \in excused
    <3>1. ~InRun(t, f)
      BY <1>1 DEF OwedInv, Idle, InRun
    <3> QED BY <1>1, <1>5, <3>1 DEF OwedInv, OwedLater, Known, Later
  <2>2. CASE <<t, f>> \in excused
    BY <1>1, <1>4, <1>5, <2>2 DEF Known
  <2>3. CASE f \in Noticed /\ kind = "scan"
    BY <1>1, <2>3 DEF Known, Later, Noticed
  <2>4. CASE f \in Noticed /\ kind = "batch"
    <3>1. f \in paths \/ f \in Later'
      BY <1>1, <2>4 DEF Later, Noticed, Batch
    <3> QED BY <1>4, <1>5, <2>4, <3>1 DEF Known
  <2> QED BY <2>1, <2>2, <2>3, <2>4
<1>6. OwedLater'
  BY <1>1, <1>5 DEF OwedLater, Owed, Exists
<1>7. Overtaken'
  BY <1>1, <1>2, <1>3, RowTypes DEF Overtaken
<1>8. KnownIsRow'
  BY <1>1 DEF KnownIsRow, Pairs
<1>9. Idle' /\ WatchTypes'
  BY <1>1 DEF OwedInv, Idle, WatchTypes
<1> QED BY <1>6, <1>7, <1>8, <1>9 DEF OwedInv

LEMMA OwedEnd == ASSUME OwedInv, End PROVE OwedInv'
<1>1. /\ run' = NoRun /\ work = [f \in Files |-> Unlisted] /\ work' = work
      /\ watcher' = IF run.kind = "batch" THEN [watcher EXCEPT !.pending = {}, !.full = FALSE]
                    ELSE watcher
      /\ UNCHANGED <<source, rows, events, excused>>
  BY DEF End
<1>2. WatchTypes'
  BY <1>1 DEF OwedInv, WatchTypes, NotWatching
<1>3. \A f \in Files : f \in Later => f \in Later'
  BY <1>1 DEF Later, Noticed, NoRun
<1>4. \A t \in Targets, f \in Files : ~InRun(t, f)
  BY <1>1, RowTypes DEF InRun
<1>5. OwedLater'
  BY <1>1, <1>3, <1>4 DEF OwedInv, OwedLater, Owed, Exists, Known
<1>6. Overtaken' /\ KnownIsRow' /\ Idle'
  BY <1>1, RowTypes DEF Overtaken, KnownIsRow, Idle, NoRun
<1> QED BY <1>2, <1>5, <1>6 DEF OwedInv

LEMMA OwedRestart == ASSUME SkipInv, OwedInv, Recreate \/ Restart PROVE OwedInv'
<1>1. WatchTypes'
  <2>1. CASE UNCHANGED watchVars
    BY <2>1 DEF watchVars, OwedInv, WatchTypes
  <2>2. CASE Unwatch
    BY <2>2 DEF Unwatch, WatchTypes, NotWatching
  <2> QED BY <2>1, <2>2 DEF Recreate, Restart
<1>2. Idle' /\ excused' = Pairs /\ run'.targets \subseteq Targets
  BY DEF Recreate, Restart, workVars, OwedInv, Idle, NoRun, SkipInv, Types
<1> QED BY <1>1, <1>2, OwedExcused

\* A step of the work on one file.  What it leaves undone is owed elsewhere.
LEMMA OwedWork ==
    ASSUME SkipInv, OwedInv, NEW f \in Files,
           UNCHANGED <<source, run, known, watchVars>>,
           \A g \in Files \ {f} : work'[g] = work[g],
           \A p \in Pairs : p[2] # f => rows'[p] = rows[p],
           excused \subseteq excused',
           work'[f].pc # "listed",
           work'[f].pc # "none" => work[f].pc # "none" /\ work'[f].stamp = work[f].stamp,
           \A t \in Targets : Owed(t, f)' => Known(t, f)'
    PROVE  OwedInv'
<1> USE DEF watchVars
<1>1. Later' = Later /\ WatchTypes' /\ Idle'
  BY DEF Later, Noticed, OwedInv, WatchTypes, Idle
<1>2. OwedLater'
  <2> SUFFICES ASSUME NEW t \in Targets, NEW g \in Files, Owed(t, g)' PROVE Known(t, g)'
    BY DEF OwedLater
  <2>1. CASE g = f
    BY <2>1
  <2>2. CASE g # f
    <3>1. rows'[<<t, g>>] = rows[<<t, g>>]
      BY <2>2 DEF Pairs
    <3> QED BY <1>1, <2>2, <3>1 DEF OwedInv, OwedLater, Owed, Exists, Known, InRun
  <2> QED BY <2>1, <2>2
<1>3. Overtaken'
  BY <1>1 DEF OwedInv, Overtaken, Seen
<1>4. KnownIsRow'
  <2> SUFFICES ASSUME NEW t \in run.targets, NEW g \in Files, g # f, work[g].pc = "listed"
               PROVE  known[<<t, g>>] = rows'[<<t, g>>] \/ <<t, g>> \in excused
    BY DEF KnownIsRow
  <2>1. <<t, g>> \in Pairs
    BY DEF SkipInv, Types, Pairs
  <2>2. rows'[<<t, g>>] = rows[<<t, g>>]
    BY <2>1
  <2> QED BY <2>2 DEF OwedInv, KnownIsRow
<1> QED BY <1>1, <1>2, <1>3, <1>4 DEF OwedInv

LEMMA OwedHash == ASSUME SkipInv, OwedInv, NEW f \in Files, Hash(f) PROVE OwedInv'
<1> DEFINE plain == source[f].content
           needed == {t \in run.targets : DiffersByContent(known[<<t, f>>], plain)}
<1>1. PICK saved \in SUBSET (Touched(f) \ needed) :
          rows' = [p \in Pairs |-> IF p \in saved \X {f}
                                   THEN [stamp |-> work[f].stamp, content |-> plain]
                                   ELSE rows[p]]
  BY DEF Hash
<1>2. /\ work[f].pc = "listed" /\ work[f] \in FileWork /\ needed \in SUBSET Targets
      /\ UNCHANGED <<source, run, known, watchVars, excused>>
  BY DEF Hash, SkipInv, Types
<1>3. work' = [work EXCEPT ![f] = IF needed = {} THEN Unlisted ELSE HashedFor(work[f], needed)]
  BY DEF Hash, HashedFor
<1>4. /\ \A g \in Files \ {f} : work'[g] = work[g]
      /\ work'[f] = IF needed = {} THEN Unlisted ELSE HashedFor(work[f], needed)
  BY <1>3 DEF SkipInv, Types
<1>5. \A t \in run.targets \ needed :
          known[<<t, f>>] # NoRow /\ known[<<t, f>>].content = plain
  BY DEF DiffersByContent
<1> HIDE DEF needed
<1>6. /\ work'[f].pc \in {"none", "hashed"}
      /\ work'[f].pc = "hashed" => work'[f].stamp = work[f].stamp
      /\ needed # {} => work'[f].left = needed
  <2>1. CASE needed = {}
    BY <1>4, <2>1, RowTypes
  <2>2. CASE needed # {}
    BY <1>2, <1>4, <2>2, HashedForType
  <2> QED BY <2>1, <2>2
<1>7. ASSUME NEW t \in Targets, Owed(t, f)'
      PROVE  Known(t, f)'
  <2>1. <<t, f>> \in Pairs
    BY DEF Pairs
  <2>2. t \notin saved
    BY <1>1, <1>2, <1>7, <2>1 DEF Owed
  <2>3. rows'[<<t, f>>] = rows[<<t, f>>] /\ Owed(t, f)
    BY <1>1, <1>2, <1>7, <2>1, <2>2 DEF Owed, Exists
  <2>4. Known(t, f)
    BY <2>3 DEF OwedInv, OwedLater
  <2>5. CASE f \in Later \/ <<t, f>> \in excused
    BY <1>2, <2>5 DEF Known, Later, Noticed, watchVars
  <2>6. CASE t \in run.targets /\ t \in needed
    BY <1>2, <1>6, <2>6 DEF Known, InRun
  <2>7. CASE t \in run.targets /\ t \notin needed
    BY <1>2, <1>5, <2>3, <2>7 DEF OwedInv, KnownIsRow, Owed, Known
  <2> QED BY <2>4, <2>5, <2>6, <2>7 DEF Known, InRun
<1>8. \A p \in Pairs : p[2] # f => rows'[p] = rows[p]
  BY <1>1
<1> QED BY <1>2, <1>4, <1>6, <1>7, <1>8, OwedWork

LEMMA OwedFails ==
    ASSUME SkipInv, OwedInv, NEW f \in Files, HashFails(f) \/ EncryptFails(f)
    PROVE  OwedInv'
<1>1. /\ work' = [work EXCEPT ![f] = Unlisted]
      /\ UNCHANGED <<source, rows, run, known, watchVars>>
      /\ excused \subseteq excused'
  BY DEF HashFails, EncryptFails, FileFailed, Finished
<1>2. /\ \A g \in Files \ {f} : work'[g] = work[g]
      /\ work'[f].pc = "none"
  BY <1>1, RowTypes DEF SkipInv, Types
<1>3. ASSUME NEW t \in Targets, Owed(t, f)'
      PROVE  Known(t, f)'
  <2>1. Owed(t, f) /\ Known(t, f) /\ <<t, f>> \in Pairs
    BY <1>1, <1>3 DEF OwedInv, OwedLater, Owed, Exists, Pairs
  <2>2. CASE f \in Later \/ <<t, f>> \in excused
    BY <1>1, <2>2 DEF Known, Later, Noticed, watchVars
  <2>3. CASE HashFails(f) /\ t \in run.targets
    <3>1. CASE t \in Touched(f)
      BY <2>3, <3>1 DEF HashFails, FileFailed, Known
    <3>2. CASE t \notin Touched(f) /\ <<t, f>> \notin excused
      <4>1. known[<<t, f>>] # NoRow /\ known[<<t, f>>].stamp = work[f].stamp
        BY <2>3, <3>2 DEF Touched, DiffersByStamp
      <4>2. rows[<<t, f>>] = known[<<t, f>>]
        BY <2>3, <3>2 DEF HashFails, OwedInv, KnownIsRow
      <4>3. work[f].stamp # source[f].stamp
        BY <2>1, <4>1, <4>2 DEF Owed, SkipInv, SkipIsSound, Recorded
      <4>4. f \in Later
        BY <2>1, <2>3, <3>2, <4>3 DEF HashFails, OwedInv, Overtaken, Seen
      <4> QED BY <2>2, <4>4
    <3> QED BY <2>2, <3>1, <3>2
  <2>4. CASE EncryptFails(f) /\ InRun(t, f)
    BY <2>4 DEF EncryptFails, FileFailed, Known, InRun
  <2> QED BY <2>1, <2>2, <2>3, <2>4 DEF Known, InRun
<1> QED BY <1>1, <1>2, <1>3, OwedWork

LEMMA OwedEncrypt == ASSUME SkipInv, OwedInv, NEW f \in Files, Encrypt(f) PROVE OwedInv'
<1>1. /\ work[f].pc = "hashed" /\ work' = [work EXCEPT ![f] = StagedWith(work[f], source[f].content)]
      /\ UNCHANGED <<source, rows, run, known, watchVars, excused>>
  BY DEF Encrypt, StagedWith
<1>2. work[f] \in FileWork /\ source[f].content \in Contents \cup {Absent}
  BY DEF SkipInv, Types, Stamp
<1>3. /\ \A g \in Files \ {f} : work'[g] = work[g]
      /\ work'[f] = StagedWith(work[f], source[f].content)
  BY <1>1 DEF SkipInv, Types
<1>4. work'[f].pc = "staged" /\ work'[f].stamp = work[f].stamp /\ work'[f].left = work[f].left
  BY <1>2, <1>3, StagedWithType
<1>5. ASSUME NEW t \in Targets, Owed(t, f)'
      PROVE  Known(t, f)'
  BY <1>1, <1>4, <1>5
  DEF OwedInv, OwedLater, Owed, Exists, Known, InRun, Later, Noticed, watchVars
<1> QED BY <1>1, <1>3, <1>4, <1>5, OwedWork

LEMMA OwedUpload ==
    ASSUME SkipInv, OwedInv, NEW f \in Files, NEW u \in Targets,
           Upload(f, u) \/ UploadUnrecorded(f, u) \/ UploadFails(f, u) \/ UploadUnanswered(f, u)
    PROVE  OwedInv'
<1>1. /\ work[f].pc = "staged" /\ DoneWith(f, u)
      /\ UNCHANGED <<source, run, known, watchVars>>
      /\ excused \subseteq excused'
      /\ \/ rows' = rows /\ <<u, f>> \in excused'
         \/ rows' = [rows EXCEPT ![<<u, f>>] = [stamp |-> work[f].stamp, content |-> work[f].plain]]
  BY DEF Upload, UploadUnrecorded, UploadFails, UploadUnanswered, Answered, FileFailed, SaveState
<1>2. /\ \A g \in Files \ {f} : work'[g] = work[g]
      /\ work'[f] = IF work[f].left = {u} THEN Unlisted ELSE WithLeft(work[f], work[f].left \ {u})
      /\ work[f] \in FileWork /\ work[f].left \ {u} \in SUBSET Targets
  BY <1>1 DEF DoneWith, WithLeft, SkipInv, Types, FileWork
<1>3. /\ work'[f].pc \in {"none", "staged"}
      /\ work'[f].pc = "staged" => work'[f].stamp = work[f].stamp
      /\ work[f].left # {u} => work'[f].left = work[f].left \ {u}
  <2>1. CASE work[f].left = {u}
    BY <1>2, <2>1, RowTypes
  <2>2. CASE work[f].left # {u}
    BY <1>1, <1>2, <2>2, WithLeftType
  <2> QED BY <2>1, <2>2
<1>4. \A p \in Pairs : p # <<u, f>> => rows'[p] = rows[p]
  BY <1>1 DEF SkipInv, Types
<1>5. ASSUME NEW t \in Targets, Owed(t, f)'
      PROVE  Known(t, f)'
  <2>1. <<t, f>> \in Pairs /\ <<u, f>> \in Pairs
    BY DEF Pairs
  <2>2. CASE t = u
    <3>1. CASE <<u, f>> \in excused'
      BY <2>2, <3>1 DEF Known
    <3>2. CASE rows' = [rows EXCEPT ![<<u, f>>] = [stamp |-> work[f].stamp, content |-> work[f].plain]]
      <4>1. Exists(f) /\ work[f].plain # source[f].content
        BY <1>1, <1>5, <2>1, <2>2, <3>2 DEF SkipInv, Types, Owed, Exists
      <4>2. work[f].stamp # source[f].stamp
        BY <1>1, <4>1 DEF SkipInv, Stamped
      <4>3. Seen(f)
        BY <1>1, <4>2 DEF OwedInv, Overtaken
      <4> QED BY <1>1, <4>3 DEF Seen, Known, Later, Noticed, watchVars
    <3> QED BY <1>1, <3>1, <3>2
  <2>3. CASE t # u
    <3>1. Owed(t, f) /\ Known(t, f)
      BY <1>1, <1>4, <1>5, <2>1, <2>3 DEF OwedInv, OwedLater, Owed, Exists
    <3> QED BY <1>1, <1>3, <2>3, <3>1 DEF Known, InRun, Later, Noticed, watchVars
  <2> QED BY <2>2, <2>3
<1> QED BY <1>1, <1>2, <1>3, <1>4, <1>5, OwedWork

LEMMA OwedStep == SkipInv /\ OwedInv /\ [Next]_vars => OwedInv'
<1> SUFFICES ASSUME SkipInv, OwedInv, [Next]_vars PROVE OwedInv'
  OBVIOUS
<1>1. CASE UNCHANGED <<source, rows, workVars, watchVars, excused>>
  <2>1. WatchTypes' /\ \A f \in Files : f \in Later => Seen(f)'
    BY <1>1 DEF OwedInv, WatchTypes, Later, Noticed, Seen, watchVars, workVars
  <2> QED BY <1>1, <2>1, OwedFrame
<1>2. CASE Scan
  BY <1>2, OwedBegin DEF Scan
<1>3. CASE Retry
  <2>1. PICK targets \in SUBSET Targets : Begin("scan", targets, Files)
    BY <1>3 DEF Retry
  <2> QED BY <2>1, OwedBegin
<1>4. CASE Flush
  BY <1>4, OwedBegin DEF Flush
<1>5. ASSUME NEW f \in Files, Process(f)
      PROVE  OwedInv'
  BY <1>5, OwedHash, OwedFails, OwedEncrypt, OwedUpload DEF Process
<1>6. \/ (\E f \in Files, content \in Contents \cup {Absent} : Change(f, content))
      \/ Scan \/ Retry \/ Flush
      \/ (\E f \in Files : Process(f))
      \/ StartWatch \/ (\E e \in events : Handle(e)) \/ FlushFails \/ DropEvents \/ Reschedule
      \/ End \/ Recreate \/ Restart
      \/ UNCHANGED <<source, rows, workVars, watchVars, excused>>
  BY DEF Next, Watcher, Arrive, SweepFileVersions, vars
<1> QED BY <1>1, <1>2, <1>3, <1>4, <1>5, <1>6, OwedChange, OwedWatcher, OwedEnd, OwedRestart

\* No change that is owed is forgotten between the event queue, the batch that
\* waits while the job runs, and the run of that batch (watch.go).
THEOREM ChangesAreKept == Spec => []OwedIsKnown
<1>1. Spec => [](SkipInv /\ OwedInv)
  BY SkipInit, SkipStep, OwedInit, OwedStep, PTL DEF Spec
<1>2. SkipInv /\ OwedInv => OwedIsKnown
  BY DEF OwedInv, OwedLater, OwedIsKnown, Known, Later, Noticed
<1> QED BY <1>1, <1>2, PTL
=============================================================================
