-------------------------- MODULE ReceiptFileProofs --------------------------
(***************************************************************************)
(* Theorems about the publication of evidence, for any number of writers,  *)
(* files, users' steps, kills and failed operations.                        *)
(***************************************************************************)
EXTENDS ReceiptFile, FiniteSetTheorems, TLAPS

(* The inode that a new file gets is one that was never used. *)
LEMMA NewInodeIsFree ==
  Free # {} => NewInode \in Inodes /\ content[NewInode] = "free"
BY DEF Free, NewInode

LEMMA InitType == Init => TypeOK
BY InodesAssumption, KindsAssumption
   DEF Init, TypeOK, Contents, Steps, Outcomes

(* Every step keeps the types; the writers' locals and the file system are  *)
(* treated action by action.                                                *)
LEMMA NextType == TypeOK /\ [Next]_vars => TypeOK'
<1> SUFFICES ASSUME TypeOK, [Next]_vars PROVE TypeOK'
  OBVIOUS
<1> USE InodesAssumption DEF TypeOK, Contents, Steps, Outcomes
<1>0. \A S : Touched(S) \in [Inodes -> Nat]
  BY DEF Touched
<1>1. ASSUME NEW w \in Writers, Start(w) PROVE TypeOK'
  BY <1>1 DEF Start, Conclude, fs
<1>2. ASSUME NEW w \in Writers, Stat(w) PROVE TypeOK'
  BY <1>2 DEF Stat, Goto, Fails, Fault, Conclude, fs, Lstat, Stats, Inspectable
<1>3. ASSUME NEW w \in Writers, Read(w) PROVE TypeOK'
  BY <1>3 DEF Read, Goto, Fails, Fault, Conclude, fs
<1>4. ASSUME NEW w \in Writers, Open(w) PROVE TypeOK'
  BY <1>4, NewInodeIsFree DEF Open, Goto, Fails, Conclude, Fault
<1>5. ASSUME NEW w \in Writers, Write(w) PROVE TypeOK'
  BY <1>5 DEF Write, Goto, Fails, Conclude, Fault, Touched
<1>6. ASSUME NEW w \in Writers, Link(w) PROVE TypeOK'
  BY <1>6 DEF Link, Goto, Fails, Fault, Conclude, Touched
<1>7. ASSUME NEW w \in Writers, RenameNew(w) PROVE TypeOK'
  BY <1>7, <1>0 DEF RenameNew, MoveInto, Goto, Fails, Fault, Conclude
<1>8. ASSUME NEW w \in Writers, Restat(w) PROVE TypeOK'
  BY <1>8 DEF Restat, Goto, Fails, Fault, Conclude, fs, Lstat, Stats, Inspectable
<1>9. ASSUME NEW w \in Writers, Reread(w) PROVE TypeOK'
  BY <1>9 DEF Reread, Goto, Fails, Fault, Conclude, fs
<1>10. ASSUME NEW w \in Writers, Rename(w) PROVE TypeOK'
  BY <1>10 DEF Rename, MoveInto, Goto, Fails, Fault, Conclude, Touched
<1>11. ASSUME NEW w \in Writers, Unlink(w) PROVE TypeOK'
  BY <1>11 DEF Unlink, DropTemp, Goto, Fails, Conclude, Fault, Touched
<1>12. ASSUME NEW w \in Writers, Land(w) PROVE TypeOK'
  BY <1>12 DEF Land, Goto, Fails, Fault, Conclude, fs
<1>13. ASSUME NEW w \in Writers, Cleanup(w) PROVE TypeOK'
  BY <1>13 DEF Cleanup, DropTemp, Goto, Conclude, Fault, Answer, Touched
<1>14. ASSUME NEW w \in Writers, Crash(w) PROVE TypeOK'
  BY <1>14 DEF Crash, Conclude, fs
<1>15. CASE UserStep
  BY <1>15, <1>0, NewInodeIsFree DEF UserStep, UserReplace, UserEdit, UserLink, run
<1>16. CASE UNCHANGED vars
  BY <1>16 DEF vars, fs, run
<1>17. QED
  BY <1>1, <1>2, <1>3, <1>4, <1>5, <1>6, <1>7, <1>8, <1>9, <1>10, <1>11,
     <1>12, <1>13, <1>14, <1>15, <1>16 DEF Next, WriterStep

(* TypeOK: every variable keeps its type, in particular the stamps only ever *)
(* advance within Nat and every stat recorded names a real file.             *)
THEOREM TypeCorrect == Spec => []TypeOK
BY InitType, NextType, PTL DEF Spec

-----------------------------------------------------------------------------
(* The files: a writer's sibling is its own and nobody else's until the     *)
(* writer publishes it, and holds a whole receipt before that.              *)

Writing   == {"write", "link", "restat", "reread", "rename"}
Written   == {"link", "restat", "reread", "rename"}

TargetWhole == target # None => content[target] \notin {"free", "partial"}

SiblingUsed == \A w \in Writers : temp[w] # None => content[temp[w]] # "free"

SiblingOwn ==
  \A v, w \in Writers : v # w /\ temp[v] = temp[w] => temp[v] = None

SiblingPrivate ==
  \A w \in Writers : pc[w] \in Writing => temp[w] # None /\ target # temp[w]

SiblingWhole == \A w \in Writers : pc[w] \in Written => content[temp[w]] = "receipt"

Files ==
  TargetWhole /\ SiblingUsed /\ SiblingOwn /\ SiblingPrivate /\ SiblingWhole

LEMMA InitFiles == Init => Files
BY InodesAssumption
   DEF Init, Files, TargetWhole, SiblingUsed, SiblingOwn, SiblingPrivate,
       SiblingWhole, Writing, Written

LEMMA NextFiles == TypeOK /\ Files /\ [Next]_vars => Files'
<1> SUFFICES ASSUME TypeOK, Files, [Next]_vars PROVE Files'
  OBVIOUS
<1> USE InodesAssumption
    DEF TypeOK, Files, TargetWhole, SiblingUsed, SiblingOwn, SiblingPrivate,
        SiblingWhole, Writing, Written, Contents, Steps
<1>1. ASSUME NEW w \in Writers, Start(w) PROVE Files'
  BY <1>1 DEF Start, fs
<1>2. ASSUME NEW w \in Writers, Stat(w) PROVE Files'
  BY <1>2 DEF Stat, Goto, Fails, Fault, fs
<1>3. ASSUME NEW w \in Writers, Read(w) PROVE Files'
  BY <1>3 DEF Read, Goto, Fails, Fault, fs
<1>4. ASSUME NEW w \in Writers, Open(w) PROVE Files'
  BY <1>4, NewInodeIsFree DEF Open, Goto, Fails, Fault
<1>5. ASSUME NEW w \in Writers, Write(w) PROVE Files'
  BY <1>5 DEF Write, Goto, Fails, Fault
<1>6. ASSUME NEW w \in Writers, Link(w) PROVE Files'
  BY <1>6 DEF Link, Goto, Fails, Fault
<1>7. ASSUME NEW w \in Writers, RenameNew(w) PROVE Files'
  BY <1>7 DEF RenameNew, MoveInto, Goto, Fails, Fault
<1>8. ASSUME NEW w \in Writers, Restat(w) PROVE Files'
  BY <1>8 DEF Restat, Goto, Fails, Fault, fs
<1>9. ASSUME NEW w \in Writers, Reread(w) PROVE Files'
  BY <1>9 DEF Reread, Goto, Fails, Fault, fs
<1>10. ASSUME NEW w \in Writers, Rename(w) PROVE Files'
  BY <1>10 DEF Rename, MoveInto, Goto, Fails, Fault
<1>11. ASSUME NEW w \in Writers, Unlink(w) PROVE Files'
  BY <1>11 DEF Unlink, DropTemp, Goto, Fails, Fault
<1>12. ASSUME NEW w \in Writers, Land(w) PROVE Files'
  BY <1>12 DEF Land, Goto, Fails, Fault, fs
<1>13. ASSUME NEW w \in Writers, Cleanup(w) PROVE Files'
  BY <1>13 DEF Cleanup, DropTemp, Goto
<1>14. ASSUME NEW w \in Writers, Crash(w) PROVE Files'
  BY <1>14 DEF Crash, fs
<1>15. CASE UserStep
  <2>1. CASE UserReplace
    BY <1>15, <2>1, NewInodeIsFree DEF UserStep, UserReplace, run
  <2>2. CASE UserEdit
    BY <1>15, <2>2 DEF UserStep, UserEdit, run
  <2>3. CASE UserLink
    BY <1>15, <2>3 DEF UserStep, UserLink, run
  <2>4. QED
    BY <1>15, <2>1, <2>2, <2>3 DEF UserStep
<1>16. CASE UNCHANGED vars
  BY <1>16 DEF vars, fs, run
<1>17. QED
  BY <1>1, <1>2, <1>3, <1>4, <1>5, <1>6, <1>7, <1>8, <1>9, <1>10, <1>11,
     <1>12, <1>13, <1>14, <1>15, <1>16 DEF Next, WriterStep

LEMMA FilesHold == Spec => []Files
BY InitFiles, NextFiles, TypeCorrect, PTL DEF Spec

(* A reader of the evidence path sees a whole file or none, for any number   *)
(* of writers and whatever users, kills and failed operations do: link and  *)
(* rename give the path only a sibling that was written, synced and closed. *)
THEOREM NoTorn == Spec => []NoTornTarget
<1>1. Files => NoTornTarget
  BY DEF Files, TargetWhole, NoTornTarget
<1>2. QED
  BY <1>1, FilesHold, PTL

-----------------------------------------------------------------------------
(* The first inspection: as long as the inode it found keeps its stamp, that *)
(* inode is where it was, has one name, and is no symbolic link; once its    *)
(* bytes were read it holds validator-owned evidence.                        *)

Vouched == {"open", "write", "restat", "reread", "rename"}

Snapshot(w) ==
  before[w] # None =>
    LET s == before[w] IN
    /\ content[s.ino] # "free"
    /\ s.stamp <= stamp[s.ino]
    /\ s.stamp = stamp[s.ino] =>
         /\ target = s.ino /\ s.ino \notin temps /\ s.ino \notin links
         /\ content[s.ino] # "symlink"
         /\ pc[w] \in Vouched => content[s.ino] = "receipt"

Snapshots ==
  \A w \in Writers :
    /\ Snapshot(w)
    /\ pc[w] \in {"read", "restat", "reread", "rename"} => before[w] # None
    /\ pc[w] = "stat" => before[w] = None

(* One name means the path itself, when the path names the inode. *)
LEMMA LoneName ==
  ASSUME NEW i, target = i, Names(i) = 1
  PROVE  i \notin temps /\ i \notin links
<1> DEFINE S == {n \in {"target", "temp", "user"} :
                    \/ n = "target" /\ target = i
                    \/ n = "temp"   /\ i \in temps
                    \/ n = "user"   /\ i \in links}
<1>1. Cardinality(S) = 1
  BY DEF Names
<1>2. IsFiniteSet(S)
  <2>1. IsFiniteSet({"target", "temp", "user"})
    <3>1. IsFiniteSet({"target"} \cup {"temp"})
      BY FS_Singleton, FS_AddElement
    <3>2. IsFiniteSet(({"target"} \cup {"temp"}) \cup {"user"})
      BY <3>1, FS_AddElement
    <3>3. ({"target"} \cup {"temp"}) \cup {"user"} = {"target", "temp", "user"}
      OBVIOUS
    <3>4. QED
      BY <3>2, <3>3
  <2>2. QED
    BY <2>1, FS_Subset
<1>3. "target" \in S
  OBVIOUS
<1>4. S = {"target"}
  <2>1. PICK x : S = {x}
    BY <1>1, <1>2, FS_Singleton
  <2>2. QED
    BY <2>1, <1>3
<1>5. "temp" \notin S /\ "user" \notin S
  BY <1>4
<1>6. QED
  BY <1>5

(* And an inode that only the path names has one name. *)
LEMMA OneName ==
  ASSUME NEW i, target = i, i \notin temps, i \notin links
  PROVE  Names(i) = 1
<1>1. {n \in {"target", "temp", "user"} :
          \/ n = "target" /\ target = i
          \/ n = "temp"   /\ i \in temps
          \/ n = "user"   /\ i \in links} = {"target"}
  OBVIOUS
<1>2. QED
  BY <1>1, FS_Singleton DEF Names

LEMMA NextSnapshots == TypeOK /\ Files /\ Snapshots /\ [Next]_vars => Snapshots'
<1> SUFFICES ASSUME TypeOK, Files, Snapshots, [Next]_vars PROVE Snapshots'
  OBVIOUS
<1> USE InodesAssumption
    DEF TypeOK, Files, TargetWhole, SiblingUsed, SiblingOwn, SiblingPrivate,
        SiblingWhole, Writing, Written, Contents, Steps, Vouched, Snapshots,
        Snapshot, Touched, Stats
<1>1. ASSUME NEW w \in Writers, Start(w) PROVE Snapshots'
  BY <1>1 DEF Start, fs
<1>2. ASSUME NEW w \in Writers, Stat(w) PROVE Snapshots'
  <2>1. Inspectable => target \notin temps /\ target \notin links
    BY LoneName DEF Inspectable
  <2>f. CASE Fails(w, "stat", "done")
    BY <1>2, <2>f DEF Stat, Goto, Fails, fs
  <2>2. CASE target = None /\ ~Fails(w, "stat", "done")
    BY <1>2, <2>2 DEF Stat, Goto, Inspectable, fs
  <2>3. CASE Inspectable /\ ~Fails(w, "stat", "done")
    <3>1. before' = [before EXCEPT ![w] = [ino |-> target, stamp |-> stamp[target]]]
      BY <1>2, <2>3 DEF Stat, Inspectable, Lstat
    <3>2. pc' = [pc EXCEPT ![w] = "read"] /\ UNCHANGED fs
      BY <1>2, <2>3 DEF Stat, Goto, Inspectable
    <3>3. Snapshot(w)' /\ before'[w] # None
      BY <3>1, <3>2, <2>1, <2>3 DEF Inspectable, fs
    <3>4. QED
      BY <3>1, <3>2, <3>3 DEF fs
  <2>4. CASE target # None /\ ~Inspectable /\ ~Fails(w, "stat", "done")
    BY <1>2, <2>4 DEF Stat, Goto, fs
  <2>5. QED
    BY <2>f, <2>2, <2>3, <2>4
<1>3. ASSUME NEW w \in Writers, Read(w) PROVE Snapshots'
  BY <1>3 DEF Read, Goto, Fails, Fault, ReadsAsReceipt, ReadsAsForeign, fs
<1>4. ASSUME NEW w \in Writers, Open(w) PROVE Snapshots'
  BY <1>4, NewInodeIsFree DEF Open, Goto, Fails, Fault
<1>5. ASSUME NEW w \in Writers, Write(w) PROVE Snapshots'
  BY <1>5 DEF Write, Goto, Fails, Fault
<1>6. ASSUME NEW w \in Writers, Link(w) PROVE Snapshots'
  BY <1>6 DEF Link, Goto, Fails, Fault
<1>7. ASSUME NEW w \in Writers, RenameNew(w) PROVE Snapshots'
  BY <1>7 DEF RenameNew, MoveInto, Goto, Fails, Fault
<1>8. ASSUME NEW w \in Writers, Restat(w) PROVE Snapshots'
  BY <1>8 DEF Restat, Goto, Fails, Fault, fs
<1>9. ASSUME NEW w \in Writers, Reread(w) PROVE Snapshots'
  BY <1>9 DEF Reread, Goto, Fails, Fault, fs
<1>10. ASSUME NEW w \in Writers, Rename(w) PROVE Snapshots'
  BY <1>10 DEF Rename, MoveInto, Goto, Fails, Fault
<1>11. ASSUME NEW w \in Writers, Unlink(w) PROVE Snapshots'
  BY <1>11 DEF Unlink, DropTemp, Goto, Fails, Fault
<1>12. ASSUME NEW w \in Writers, Land(w) PROVE Snapshots'
  BY <1>12 DEF Land, Goto, Fails, Fault, fs
<1>13. ASSUME NEW w \in Writers, Cleanup(w) PROVE Snapshots'
  BY <1>13 DEF Cleanup, DropTemp, Goto
<1>14. ASSUME NEW w \in Writers, Crash(w) PROVE Snapshots'
  BY <1>14 DEF Crash, fs
<1>15. CASE UserStep
  <2>1. CASE UserReplace
    BY <1>15, <2>1, NewInodeIsFree DEF UserStep, UserReplace, run
  <2>2. CASE UserEdit
    BY <1>15, <2>2 DEF UserStep, UserEdit, run
  <2>3. CASE UserLink
    BY <1>15, <2>3 DEF UserStep, UserLink, run
  <2>4. QED
    BY <1>15, <2>1, <2>2, <2>3 DEF UserStep
<1>16. CASE UNCHANGED vars
  BY <1>16 DEF vars, fs, run
<1>17. QED
  BY <1>1, <1>2, <1>3, <1>4, <1>5, <1>6, <1>7, <1>8, <1>9, <1>10, <1>11,
     <1>12, <1>13, <1>14, <1>15, <1>16 DEF Next, WriterStep

LEMMA InitSnapshots == Init => Snapshots
BY DEF Init, Snapshots, Snapshot, Vouched

LEMMA SnapshotsHold == Spec => []Snapshots
BY InitSnapshots, NextSnapshots, TypeCorrect, FilesHold, PTL DEF Spec

(* A writer that renames over the inode of its first inspection, unchanged,  *)
(* replaces evidence with one name: neither a swap between lstat and read    *)
(* nor one between the two inspections can vouch for another file.           *)
THEOREM OwnedReplaced == Spec => []ReplacesOnlyOwned
<1>1. TypeOK /\ Snapshots => ReplacesOnlyOwned
  <2> SUFFICES ASSUME TypeOK, Snapshots, NEW w \in Writers,
                      pc[w] = "rename", Undisturbed(w)
               PROVE  content[target] = "receipt" /\ Names(target) = 1
    BY DEF ReplacesOnlyOwned
  <2>1. before[w] = [ino |-> target, stamp |-> stamp[target]] /\ before[w] # None
    BY DEF Undisturbed, Lstat, Snapshots
  <2>2. content[target] = "receipt" /\ target \notin temps /\ target \notin links
    BY <2>1 DEF Snapshots, Snapshot, Vouched
  <2>3. QED
    BY <2>2, OneName
<1>2. QED
  BY <1>1, TypeCorrect, SnapshotsHold, PTL

(* The writers that link first (all but WIT's) never take an unrelated file  *)
(* off the path, unless a user put it there after the second inspection.     *)
THEOREM UnownedKept == Spec => UnownedSurvives
<1>1. TypeOK /\ Snapshots /\ [Next]_vars => (kind # "rename" => ~TakesUnowned)
  <2> SUFFICES ASSUME TypeOK, Snapshots, [Next]_vars, kind # "rename",
                      target # None, content[target] \in {"other", "symlink"},
                      target' # target, user' = user
               PROVE  \E w \in Writers : pc[w] = "rename" /\ ~Undisturbed(w)
    BY DEF TakesUnowned
  <2>1. ~UserStep
    BY DEF UserStep, TypeOK
  <2>2. PICK w \in Writers : WriterStep(w)
    BY <2>1 DEF Next, vars, fs
  <2>3. Rename(w)
    BY <2>2 DEF WriterStep, Start, Stat, Read, Open, Write, Link, RenameNew, Restat,
                Reread, Unlink, Land, Cleanup, Crash, fs, TypeOK
  <2>4. pc[w] = "rename"
    BY <2>3 DEF Rename, Goto, Fails, Fault
  <2>5. ~Undisturbed(w)
    <3> SUFFICES ASSUME Undisturbed(w) PROVE FALSE
      OBVIOUS
    <3>1. before[w] = [ino |-> target, stamp |-> stamp[target]] /\ before[w] # None
      BY <2>4 DEF Undisturbed, Lstat, Snapshots
    <3>2. QED
      BY <2>4, <3>1 DEF Snapshots, Snapshot, Vouched
  <2>6. QED
    BY <2>4, <2>5
<1>2. QED
  BY <1>1, TypeCorrect, SnapshotsHold, PTL DEF Spec, UnownedSurvives

-----------------------------------------------------------------------------
(* The refinement: what a caller has been told and what the path may hold   *)
(* at each await, as long as no user interferes.                             *)

Progress ==
  /\ \A w \in Writers :
       /\ pc[w] \in {"stat", "read", "open"} \cup Writing => outcome[w] = "pending"
       /\ pc[w] \in {"unlink", "land"} => outcome[w] = "published"
       /\ pc[w] = "cleanup" => outcome[w] \in {"published", "rejected"}
  /\ user = 0 =>
       /\ \A w \in Writers : pc[w] = "read" /\ target # None => content[target] # "symlink"
       /\ (\E w \in Writers : pc[w] \in {"open"} \cup Writing)
            => (target # None => content[target] = "receipt")

LEMMA InitProgress == Init => Progress
BY DEF Init, Progress, Writing

LEMMA NextProgress == TypeOK /\ Files /\ Progress /\ [Next]_vars => Progress'
<1> SUFFICES ASSUME TypeOK, Files, Progress, [Next]_vars PROVE Progress'
  OBVIOUS
<1> USE InodesAssumption
    DEF TypeOK, Files, TargetWhole, SiblingUsed, SiblingOwn, SiblingPrivate,
        SiblingWhole, Writing, Written, Contents, Steps, Outcomes, Progress,
        Conclude
<1>1. ASSUME NEW w \in Writers, Start(w) PROVE Progress'
  BY <1>1 DEF Start, fs
<1>2. ASSUME NEW w \in Writers, Stat(w) PROVE Progress'
  BY <1>2 DEF Stat, Goto, Fails, Fault, Lstat, Inspectable, fs
<1>3. ASSUME NEW w \in Writers, Read(w) PROVE Progress'
  BY <1>3 DEF Read, Goto, Fails, Fault, ReadsAsReceipt, ReadsAsForeign, fs
<1>4. ASSUME NEW w \in Writers, Open(w) PROVE Progress'
  BY <1>4, NewInodeIsFree DEF Open, Goto, Fails, Fault
<1>5. ASSUME NEW w \in Writers, Write(w) PROVE Progress'
  BY <1>5 DEF Write, Goto, Fails, Fault
<1>6. ASSUME NEW w \in Writers, Link(w) PROVE Progress'
  BY <1>6 DEF Link, Goto, Fails, Fault
<1>7. ASSUME NEW w \in Writers, RenameNew(w) PROVE Progress'
  BY <1>7 DEF RenameNew, MoveInto, Goto, Fails, Fault
<1>8. ASSUME NEW w \in Writers, Restat(w) PROVE Progress'
  BY <1>8 DEF Restat, Goto, Fails, Fault, fs
<1>9. ASSUME NEW w \in Writers, Reread(w) PROVE Progress'
  BY <1>9 DEF Reread, Goto, Fails, Fault, fs
<1>10. ASSUME NEW w \in Writers, Rename(w) PROVE Progress'
  BY <1>10 DEF Rename, MoveInto, Goto, Fails, Fault
<1>11. ASSUME NEW w \in Writers, Unlink(w) PROVE Progress'
  BY <1>11 DEF Unlink, DropTemp, Goto, Fails, Fault
<1>12. ASSUME NEW w \in Writers, Land(w) PROVE Progress'
  BY <1>12 DEF Land, Goto, Fails, Fault, fs
<1>13. ASSUME NEW w \in Writers, Cleanup(w) PROVE Progress'
  BY <1>13 DEF Cleanup, DropTemp, Goto, Answer
<1>14. ASSUME NEW w \in Writers, Crash(w) PROVE Progress'
  BY <1>14 DEF Crash, fs
<1>15. CASE UserStep
  BY <1>15 DEF UserStep, run
<1>16. CASE UNCHANGED vars
  BY <1>16 DEF vars, fs, run
<1>17. QED
  BY <1>1, <1>2, <1>3, <1>4, <1>5, <1>6, <1>7, <1>8, <1>9, <1>10, <1>11,
     <1>12, <1>13, <1>14, <1>15, <1>16 DEF Next, WriterStep

LEMMA ProgressHolds == Spec => []Progress
BY InitProgress, NextProgress, TypeCorrect, FilesHold, PTL DEF Spec

(* What a step of the register may be, for one writer. *)
RegisterStep == [Register!ANext]_(Register!avars)

LEMMA InitRegister == Init /\ TypeOK => Register!AInit
BY DEF Init, TypeOK, Register!AInit, Register!Slots, Slot

(* Steps that neither move the path nor answer a caller are stutters. *)
LEMMA Stutter ==
  ASSUME UNCHANGED <<target, content, outcome, user>>
  PROVE  RegisterStep
BY DEF RegisterStep, Register!avars, Slot

(* Steps that only change what one caller is told. *)
LEMMA Told ==
  ASSUME NEW w \in Writers, UNCHANGED <<target, content, user>>,
         NEW r, outcome' = [outcome EXCEPT ![w] = r], TypeOK,
         \/ r = "pending"
         \/ r = "rejected" /\ outcome[w] \in {"pending", "published", "rejected"}
         \/ r = "returned" /\ outcome[w] = "published"
  PROVE  RegisterStep
<1>1. Slot' = Slot
  BY DEF Slot
<1>2. CASE r = "pending"
  BY <1>1, <1>2 DEF RegisterStep, Register!avars, Register!ANext, Register!Restart,
                    Register!Become, TypeOK, Outcomes
<1>3. CASE r = "rejected" /\ outcome[w] \in {"pending", "published"}
  BY <1>1, <1>3 DEF RegisterStep, Register!avars, Register!ANext, Register!Reject,
                    Register!Become
<1>4. CASE r = "rejected" /\ outcome[w] = "rejected"
  <2>1. outcome' = outcome
    BY <1>4 DEF TypeOK
  <2>2. QED
    BY <2>1, Stutter
<1>5. CASE r = "returned" /\ outcome[w] = "published"
  BY <1>1, <1>5 DEF RegisterStep, Register!avars, Register!ANext, Register!Return,
                    Register!Become
<1>6. QED
  BY <1>2, <1>3, <1>4, <1>5

(* Steps that give the path a written sibling. *)
LEMMA Published ==
  ASSUME NEW w \in Writers, TypeOK, Files, Progress,
         pc[w] \in Written, target' = temp[w],
         outcome' = [outcome EXCEPT ![w] = "published"],
         UNCHANGED <<content, user>>
  PROVE  RegisterStep
<1>1. temp[w] \in Inodes /\ target # temp[w] /\ content[temp[w]] = "receipt"
  BY DEF Files, SiblingPrivate, SiblingWhole, Written, Writing, TypeOK
<1>2. Slot' = temp[w] /\ temp[w] # Slot
  BY <1>1, InodesAssumption DEF Slot
<1>3. user = 0 => Slot # Foreign
  BY InodesAssumption DEF Progress, Written, Writing, Slot, TypeOK
<1>4. outcome[w] = "pending"
  BY DEF Progress, Written, Writing
<1>5. Register!Publish(w)
  BY <1>1, <1>2, <1>3, <1>4 DEF Register!Publish, Register!Become
<1>6. QED
  BY <1>5 DEF RegisterStep, Register!ANext

LEMMA NextRegister == TypeOK /\ Files /\ Progress /\ [Next]_vars => RegisterStep
<1> SUFFICES ASSUME TypeOK, Files, Progress, [Next]_vars PROVE RegisterStep
  OBVIOUS
<1>1. ASSUME NEW w \in Writers, Start(w) PROVE RegisterStep
  BY <1>1, Told DEF Start, Conclude, fs
<1>2. ASSUME NEW w \in Writers, Stat(w) PROVE RegisterStep
  <2>1. outcome[w] = "pending"
    BY <1>2 DEF Stat, Goto, Fails, Fault, Progress
  <2>2. QED
    BY <1>2, <2>1, Told, Stutter DEF Stat, Conclude, Fails, fs
<1>3. ASSUME NEW w \in Writers, Read(w) PROVE RegisterStep
  <2>1. outcome[w] = "pending"
    BY <1>3 DEF Read, Goto, Fails, Fault, Progress
  <2>2. QED
    BY <1>3, <2>1, Told, Stutter DEF Read, Conclude, Fails, fs
<1>4. ASSUME NEW w \in Writers, Open(w) PROVE RegisterStep
  <2>1. CASE UNCHANGED content
    <3>1. outcome[w] = "pending"
      BY <1>4 DEF Open, Goto, Fails, Fault, Progress
    <3>2. QED
      BY <1>4, <2>1, <3>1, Told, Stutter DEF Open, Conclude, Fails
  <2>2. CASE Free # {} /\ content' = [content EXCEPT ![NewInode] = "partial"] /\ UNCHANGED outcome
    <3>1. target # None => target # NewInode
      BY <2>2, NewInodeIsFree DEF Files, TargetWhole
    <3>2. Slot' = Slot
      BY <1>4, <2>2, <3>1 DEF Open, Slot, TypeOK
    <3>3. QED
      BY <1>4, <2>2, <3>2 DEF Open, RegisterStep, Register!avars
  <2>3. QED
    BY <1>4, <2>1, <2>2 DEF Open
<1>5. ASSUME NEW w \in Writers, Write(w) PROVE RegisterStep
  <2>1. CASE UNCHANGED content
    <3>1. outcome[w] = "pending"
      BY <1>5 DEF Write, Goto, Fails, Fault, Progress, Writing
    <3>2. QED
      BY <1>5, <2>1, <3>1, Told, Stutter DEF Write, Conclude, Fails
  <2>2. CASE content' = [content EXCEPT ![temp[w]] = "receipt"] /\ UNCHANGED outcome
    <3>1. target # temp[w]
      BY <1>5 DEF Write, Goto, Fails, Fault, Files, SiblingPrivate, Writing
    <3>2. Slot' = Slot
      BY <1>5, <2>2, <3>1 DEF Write, Slot, TypeOK
    <3>3. QED
      BY <1>5, <2>2, <3>2 DEF Write, RegisterStep, Register!avars
  <2>3. QED
    BY <1>5, <2>1, <2>2 DEF Write
<1>6. ASSUME NEW w \in Writers, Link(w) PROVE RegisterStep
  <2>1. pc[w] = "link" /\ outcome[w] = "pending"
    BY <1>6 DEF Link, Goto, Fails, Fault, Progress, Writing
  <2>2. CASE target' = temp[w] /\ Conclude(w, "published")
    BY <1>6, <2>1, <2>2, Published DEF Link, Conclude, Written
  <2>3. CASE target' = target /\ Conclude(w, "rejected")
    BY <1>6, <2>1, <2>3, Told DEF Link, Conclude
  <2>4. QED
    BY <1>6, <2>2, <2>3 DEF Link, Fails
<1>7. ASSUME NEW w \in Writers, RenameNew(w) PROVE RegisterStep
  <2>1. pc[w] = "link" /\ outcome[w] = "pending"
    BY <1>7 DEF RenameNew, Goto, Fails, Progress, Writing
  <2>2. CASE target' = temp[w] /\ Conclude(w, "published")
    BY <1>7, <2>1, <2>2, Published DEF RenameNew, Conclude, Written
  <2>3. CASE target' = target /\ Conclude(w, "rejected")
    BY <1>7, <2>1, <2>3, Told DEF RenameNew, Conclude
  <2>4. QED
    BY <1>7, <2>2, <2>3 DEF RenameNew, MoveInto, Fails
<1>8. ASSUME NEW w \in Writers, Restat(w) PROVE RegisterStep
  <2>1. outcome[w] = "pending"
    BY <1>8 DEF Restat, Goto, Fails, Fault, Progress, Writing
  <2>2. QED
    BY <1>8, <2>1, Told, Stutter DEF Restat, Conclude, Fails, fs
<1>9. ASSUME NEW w \in Writers, Reread(w) PROVE RegisterStep
  <2>1. outcome[w] = "pending"
    BY <1>9 DEF Reread, Goto, Fails, Fault, Progress, Writing
  <2>2. QED
    BY <1>9, <2>1, Told, Stutter DEF Reread, Conclude, Fails, fs
<1>10. ASSUME NEW w \in Writers, Rename(w) PROVE RegisterStep
  <2>1. pc[w] = "rename" /\ outcome[w] = "pending"
    BY <1>10 DEF Rename, Goto, Fails, Progress, Writing
  <2>2. CASE target' = temp[w] /\ Conclude(w, "published")
    BY <1>10, <2>1, <2>2, Published DEF Rename, Conclude, Written
  <2>3. CASE target' = target /\ Conclude(w, "rejected")
    BY <1>10, <2>1, <2>3, Told DEF Rename, Conclude
  <2>4. QED
    BY <1>10, <2>2, <2>3 DEF Rename, MoveInto, Fails
<1>11. ASSUME NEW w \in Writers, Unlink(w) PROVE RegisterStep
  <2>1. outcome[w] = "published"
    BY <1>11 DEF Unlink, Goto, Fails, Fault, Progress
  <2>2. QED
    BY <1>11, <2>1, Told, Stutter DEF Unlink, Conclude, Fails
<1>12. ASSUME NEW w \in Writers, Land(w) PROVE RegisterStep
  <2>1. outcome[w] = "published"
    BY <1>12 DEF Land, Goto, Fails, Fault, Progress
  <2>2. QED
    BY <1>12, <2>1, Told, Stutter DEF Land, Conclude, Fails, fs
<1>13. ASSUME NEW w \in Writers, Cleanup(w) PROVE RegisterStep
  <2>1. outcome[w] \in {"published", "rejected"}
    BY <1>13 DEF Cleanup, Goto, Progress
  <2>2. QED
    BY <1>13, <2>1, Told DEF Cleanup, Conclude, Answer
<1>14. ASSUME NEW w \in Writers, Crash(w) PROVE RegisterStep
  BY <1>14, Told DEF Crash, Conclude, fs
<1>15. CASE UserStep
  <2>1. TypeOK'
    BY NextType
  <2>2. (user' = 0) = FALSE
    BY <1>15 DEF UserStep, TypeOK
  <2>3. Slot' \in Register!Slots
    BY <2>1 DEF TypeOK, Slot, Register!Slots
  <2>4. UNCHANGED outcome
    BY <1>15 DEF UserStep, run
  <2>5. Register!Interfere
    BY <2>2, <2>3, <2>4 DEF Register!Interfere
  <2>6. QED
    BY <2>5 DEF RegisterStep, Register!ANext
<1>16. CASE UNCHANGED vars
  BY <1>16, Stutter DEF vars, fs, run
<1>17. QED
  BY <1>1, <1>2, <1>3, <1>4, <1>5, <1>6, <1>7, <1>8, <1>9, <1>10, <1>11,
     <1>12, <1>13, <1>14, <1>15, <1>16 DEF Next, WriterStep

(* The writers, with every interleaving of awaits, kill and failed operation,*)
(* implement an atomic register per evidence path: while no user interferes  *)
(* a receipt appears there whole, never over a foreign file, and a caller is *)
(* told of success only after its own receipt appeared.                      *)
THEOREM ImplementsRegister == Spec => IsRegister
<1>1. TypeOK /\ Files /\ Progress /\ [Next]_vars => [Register!ANext]_(Register!avars)
  BY NextRegister DEF RegisterStep
<1>2. QED
  BY <1>1, InitType, InitRegister, TypeCorrect, FilesHold, ProgressHolds, PTL
     DEF Spec, IsRegister, Register!ASpec

-----------------------------------------------------------------------------
(* What a writer that loses leaves behind, and who wins.                     *)

(* No sibling before it is created; after publication it is whole as long as *)
(* no user edits it, without a second name once that was dropped, and looked *)
(* at only by the variants that check what landed.  What was published keeps *)
(* the path occupied.                                                        *)
Landing ==
  /\ user = 0 => links = {}
  /\ \A w \in Writers :
       /\ outcome[w] \in {"published", "returned"} /\ user = 0 => target # None
       /\ pc[w] \in {"stat", "read", "open"} => temp[w] = None
       /\ pc[w] \in {"unlink", "land"} => kind = "landed" /\ temp[w] # None
       /\ pc[w] = "land" => temp[w] \notin temps
       /\ pc[w] \in {"unlink", "land"} /\ user = 0 => content[temp[w]] = "receipt"

(* A sibling still has its name only because of the run that will drop it.   *)
Swept ==
  kills = 0 /\ faults = 0 =>
    \A i \in temps : \E w \in Writers :
      temp[w] = i /\ pc[w] \in Writing \cup {"unlink", "cleanup"}

Settled == \A w \in Writers : pc[w] = "done" => outcome[w] \in {"returned", "rejected"}

(* A run that will publish unless another one does so first.                 *)
Vacant(w) == before[w] = None /\ (target = None \/ kind = "rename")
OnTrack(w) ==
  \/ pc[w] = "stat"
  \/ pc[w] \in {"open", "write", "link"} /\ Vacant(w)
  \/ pc[w] \in {"read", "open", "write", "restat", "reread", "rename"}
       /\ before[w] # None /\ Undisturbed(w) /\ (pc[w] = "reread" => after[w] = before[w])

Calm == user = 0 /\ kills = 0 /\ faults = 0
Usable == target = None \/ content[target] = "receipt"
Contended ==
  Calm /\ Usable =>
    \E w \in Writers :
      pc[w] = "idle" \/ outcome[w] \in {"published", "returned"} \/ OnTrack(w)

LEMMA InitAftermath == Init => Landing /\ Swept /\ Settled
BY DEF Init, Landing, Swept, Settled

LEMMA NextLanding == TypeOK /\ Files /\ Landing /\ [Next]_vars => Landing'
<1> SUFFICES ASSUME TypeOK, Files, Landing, [Next]_vars PROVE Landing'
  OBVIOUS
<1> USE InodesAssumption
    DEF TypeOK, Files, TargetWhole, SiblingUsed, SiblingOwn, SiblingPrivate,
        SiblingWhole, Writing, Written, Contents, Steps, Outcomes, Landing, Conclude
<1>1. ASSUME NEW w \in Writers, Start(w) PROVE Landing'
  BY <1>1 DEF Start, fs
<1>2. ASSUME NEW w \in Writers, Stat(w) PROVE Landing'
  BY <1>2 DEF Stat, Goto, Fails, Fault, fs
<1>3. ASSUME NEW w \in Writers, Read(w) PROVE Landing'
  BY <1>3 DEF Read, Goto, Fails, Fault, fs
<1>4. ASSUME NEW w \in Writers, Open(w) PROVE Landing'
  BY <1>4, NewInodeIsFree DEF Open, Goto, Fails, Fault
<1>5. ASSUME NEW w \in Writers, Write(w) PROVE Landing'
  BY <1>5 DEF Write, Goto, Fails, Fault
<1>6. ASSUME NEW w \in Writers, Link(w) PROVE Landing'
  BY <1>6 DEF Link, Goto, Fails, Fault
<1>7. ASSUME NEW w \in Writers, RenameNew(w) PROVE Landing'
  BY <1>7 DEF RenameNew, MoveInto, Goto, Fails, Fault
<1>8. ASSUME NEW w \in Writers, Restat(w) PROVE Landing'
  BY <1>8 DEF Restat, Goto, Fails, Fault, fs
<1>9. ASSUME NEW w \in Writers, Reread(w) PROVE Landing'
  BY <1>9 DEF Reread, Goto, Fails, Fault, fs
<1>10. ASSUME NEW w \in Writers, Rename(w) PROVE Landing'
  BY <1>10 DEF Rename, MoveInto, Goto, Fails, Fault
<1>11. ASSUME NEW w \in Writers, Unlink(w) PROVE Landing'
  BY <1>11 DEF Unlink, DropTemp, Goto, Fails, Fault
<1>12. ASSUME NEW w \in Writers, Land(w) PROVE Landing'
  BY <1>12 DEF Land, Goto, Fails, Fault, fs
<1>13. ASSUME NEW w \in Writers, Cleanup(w) PROVE Landing'
  BY <1>13 DEF Cleanup, DropTemp, Goto, Fault, Answer
<1>14. ASSUME NEW w \in Writers, Crash(w) PROVE Landing'
  BY <1>14 DEF Crash, fs
<1>15. CASE UserStep
  <2>1. CASE UserReplace
    BY <1>15, <2>1, NewInodeIsFree DEF UserStep, UserReplace, run
  <2>2. CASE UserEdit
    BY <1>15, <2>2 DEF UserStep, UserEdit, run
  <2>3. CASE UserLink
    BY <1>15, <2>3 DEF UserStep, UserLink, run
  <2>4. QED
    BY <1>15, <2>1, <2>2, <2>3 DEF UserStep
<1>16. CASE UNCHANGED vars
  BY <1>16 DEF vars, fs, run
<1>17. QED
  BY <1>1, <1>2, <1>3, <1>4, <1>5, <1>6, <1>7, <1>8, <1>9, <1>10, <1>11,
     <1>12, <1>13, <1>14, <1>15, <1>16 DEF Next, WriterStep

LEMMA NextSwept == TypeOK /\ Files /\ Swept /\ [Next]_vars => Swept'
<1> SUFFICES ASSUME TypeOK, Files, Swept, [Next]_vars PROVE Swept'
  OBVIOUS
<1> USE InodesAssumption
    DEF TypeOK, Files, TargetWhole, SiblingUsed, SiblingOwn, SiblingPrivate,
        SiblingWhole, Writing, Written, Contents, Steps, Outcomes, Swept
<1>1. ASSUME NEW w \in Writers, Start(w) PROVE Swept'
  BY <1>1 DEF Start, fs
<1>2. ASSUME NEW w \in Writers, Stat(w) PROVE Swept'
  BY <1>2 DEF Stat, Goto, Fails, Fault, fs
<1>3. ASSUME NEW w \in Writers, Read(w) PROVE Swept'
  BY <1>3 DEF Read, Goto, Fails, Fault, fs
<1>4. ASSUME NEW w \in Writers, Open(w) PROVE Swept'
  BY <1>4, NewInodeIsFree DEF Open, Goto, Fails, Fault
<1>5. ASSUME NEW w \in Writers, Write(w) PROVE Swept'
  BY <1>5 DEF Write, Goto, Fails, Fault
<1>6. ASSUME NEW w \in Writers, Link(w) PROVE Swept'
  BY <1>6 DEF Link, Goto, Fails, Fault
<1>7. ASSUME NEW w \in Writers, RenameNew(w) PROVE Swept'
  BY <1>7 DEF RenameNew, MoveInto, Goto, Fails, Fault
<1>8. ASSUME NEW w \in Writers, Restat(w) PROVE Swept'
  BY <1>8 DEF Restat, Goto, Fails, Fault, fs
<1>9. ASSUME NEW w \in Writers, Reread(w) PROVE Swept'
  BY <1>9 DEF Reread, Goto, Fails, Fault, fs
<1>10. ASSUME NEW w \in Writers, Rename(w) PROVE Swept'
  BY <1>10 DEF Rename, MoveInto, Goto, Fails, Fault
<1>11. ASSUME NEW w \in Writers, Unlink(w) PROVE Swept'
  BY <1>11 DEF Unlink, DropTemp, Goto, Fails, Fault
<1>12. ASSUME NEW w \in Writers, Land(w) PROVE Swept'
  BY <1>12 DEF Land, Goto, Fails, Fault, fs
<1>13. ASSUME NEW w \in Writers, Cleanup(w) PROVE Swept'
  BY <1>13 DEF Cleanup, DropTemp, Goto, Fault, Answer
<1>14. ASSUME NEW w \in Writers, Crash(w) PROVE Swept'
  BY <1>14 DEF Crash, fs
<1>15. CASE UserStep
  <2>1. CASE UserReplace
    BY <1>15, <2>1, NewInodeIsFree DEF UserStep, UserReplace, run
  <2>2. CASE UserEdit
    BY <1>15, <2>2 DEF UserStep, UserEdit, run
  <2>3. CASE UserLink
    BY <1>15, <2>3 DEF UserStep, UserLink, run
  <2>4. QED
    BY <1>15, <2>1, <2>2, <2>3 DEF UserStep
<1>16. CASE UNCHANGED vars
  BY <1>16 DEF vars, fs, run
<1>17. QED
  BY <1>1, <1>2, <1>3, <1>4, <1>5, <1>6, <1>7, <1>8, <1>9, <1>10, <1>11,
     <1>12, <1>13, <1>14, <1>15, <1>16 DEF Next, WriterStep

LEMMA NextSettled == TypeOK /\ Progress /\ Settled /\ [Next]_vars => Settled'
<1> SUFFICES ASSUME TypeOK, Progress, Settled, [Next]_vars PROVE Settled'
  OBVIOUS
<1> USE InodesAssumption
    DEF TypeOK, Steps, Outcomes, Progress, Writing, Settled, Conclude
<1>1. ASSUME NEW w \in Writers, Start(w) PROVE Settled'
  BY <1>1 DEF Start, fs
<1>2. ASSUME NEW w \in Writers, Stat(w) PROVE Settled'
  BY <1>2 DEF Stat, Goto, Fails, Fault, fs
<1>3. ASSUME NEW w \in Writers, Read(w) PROVE Settled'
  BY <1>3 DEF Read, Goto, Fails, Fault, fs
<1>4. ASSUME NEW w \in Writers, Open(w) PROVE Settled'
  BY <1>4, NewInodeIsFree DEF Open, Goto, Fails, Fault
<1>5. ASSUME NEW w \in Writers, Write(w) PROVE Settled'
  BY <1>5 DEF Write, Goto, Fails, Fault
<1>6. ASSUME NEW w \in Writers, Link(w) PROVE Settled'
  BY <1>6 DEF Link, Goto, Fails, Fault
<1>7. ASSUME NEW w \in Writers, RenameNew(w) PROVE Settled'
  BY <1>7 DEF RenameNew, MoveInto, Goto, Fails, Fault
<1>8. ASSUME NEW w \in Writers, Restat(w) PROVE Settled'
  BY <1>8 DEF Restat, Goto, Fails, Fault, fs
<1>9. ASSUME NEW w \in Writers, Reread(w) PROVE Settled'
  BY <1>9 DEF Reread, Goto, Fails, Fault, fs
<1>10. ASSUME NEW w \in Writers, Rename(w) PROVE Settled'
  BY <1>10 DEF Rename, MoveInto, Goto, Fails, Fault
<1>11. ASSUME NEW w \in Writers, Unlink(w) PROVE Settled'
  BY <1>11 DEF Unlink, DropTemp, Goto, Fails, Fault
<1>12. ASSUME NEW w \in Writers, Land(w) PROVE Settled'
  BY <1>12 DEF Land, Goto, Fails, Fault, fs
<1>13. ASSUME NEW w \in Writers, Cleanup(w) PROVE Settled'
  BY <1>13 DEF Cleanup, DropTemp, Goto, Fault, Answer
<1>14. ASSUME NEW w \in Writers, Crash(w) PROVE Settled'
  BY <1>14 DEF Crash, fs
<1>15. CASE UserStep
  <2>1. CASE UserReplace
    BY <1>15, <2>1, NewInodeIsFree DEF UserStep, UserReplace, run
  <2>2. CASE UserEdit
    BY <1>15, <2>2 DEF UserStep, UserEdit, run
  <2>3. CASE UserLink
    BY <1>15, <2>3 DEF UserStep, UserLink, run
  <2>4. QED
    BY <1>15, <2>1, <2>2, <2>3 DEF UserStep
<1>16. CASE UNCHANGED vars
  BY <1>16 DEF vars, fs, run
<1>17. QED
  BY <1>1, <1>2, <1>3, <1>4, <1>5, <1>6, <1>7, <1>8, <1>9, <1>10, <1>11,
     <1>12, <1>13, <1>14, <1>15, <1>16 DEF Next, WriterStep

LEMMA AftermathHolds == Spec => [](Landing /\ Swept /\ Settled)
BY InitAftermath, NextLanding, NextSwept, NextSettled, TypeCorrect, FilesHold,
   ProgressHolds, PTL DEF Spec

LEMMA InitRejected == Init => RejectedLeavesTarget
BY DEF Init, RejectedLeavesTarget

LEMMA NextRejected == TypeOK /\ Files /\ Progress /\ Landing /\ RejectedLeavesTarget /\ [Next]_vars => RejectedLeavesTarget'
<1> SUFFICES ASSUME TypeOK, Files, Progress, Landing, RejectedLeavesTarget, [Next]_vars PROVE RejectedLeavesTarget'
  OBVIOUS
<1> USE InodesAssumption
    DEF TypeOK, Files, TargetWhole, SiblingUsed, SiblingOwn, SiblingPrivate,
        SiblingWhole, Writing, Written, Contents, Steps, Outcomes,
        Landing, Progress, RejectedLeavesTarget, Conclude
<1>1. ASSUME NEW w \in Writers, Start(w) PROVE RejectedLeavesTarget'
  BY <1>1 DEF Start, fs
<1>2. ASSUME NEW w \in Writers, Stat(w) PROVE RejectedLeavesTarget'
  BY <1>2 DEF Stat, Goto, Fails, Fault, fs
<1>3. ASSUME NEW w \in Writers, Read(w) PROVE RejectedLeavesTarget'
  BY <1>3 DEF Read, Goto, Fails, Fault, fs
<1>4. ASSUME NEW w \in Writers, Open(w) PROVE RejectedLeavesTarget'
  BY <1>4, NewInodeIsFree DEF Open, Goto, Fails, Fault
<1>5. ASSUME NEW w \in Writers, Write(w) PROVE RejectedLeavesTarget'
  BY <1>5 DEF Write, Goto, Fails, Fault
<1>6. ASSUME NEW w \in Writers, Link(w) PROVE RejectedLeavesTarget'
  BY <1>6 DEF Link, Goto, Fails, Fault
<1>7. ASSUME NEW w \in Writers, RenameNew(w) PROVE RejectedLeavesTarget'
  BY <1>7 DEF RenameNew, MoveInto, Goto, Fails, Fault
<1>8. ASSUME NEW w \in Writers, Restat(w) PROVE RejectedLeavesTarget'
  BY <1>8 DEF Restat, Goto, Fails, Fault, fs
<1>9. ASSUME NEW w \in Writers, Reread(w) PROVE RejectedLeavesTarget'
  BY <1>9 DEF Reread, Goto, Fails, Fault, fs
<1>10. ASSUME NEW w \in Writers, Rename(w) PROVE RejectedLeavesTarget'
  BY <1>10 DEF Rename, MoveInto, Goto, Fails, Fault
<1>11. ASSUME NEW w \in Writers, Unlink(w) PROVE RejectedLeavesTarget'
  BY <1>11 DEF Unlink, DropTemp, Goto, Fails, Fault
<1>12. ASSUME NEW w \in Writers, Land(w) PROVE RejectedLeavesTarget'
  <2>1. target = temp[w] /\ user = 0 => Inspectable
    BY <1>12, OneName DEF Land, Goto, Fails, Fault, Inspectable
  <2>2. QED
    BY <1>12, <2>1 DEF Land, Goto, Fails, Fault, fs
<1>13. ASSUME NEW w \in Writers, Cleanup(w) PROVE RejectedLeavesTarget'
  BY <1>13 DEF Cleanup, DropTemp, Goto, Fault, Answer
<1>14. ASSUME NEW w \in Writers, Crash(w) PROVE RejectedLeavesTarget'
  BY <1>14 DEF Crash, fs
<1>15. CASE UserStep
  <2>1. CASE UserReplace
    BY <1>15, <2>1, NewInodeIsFree DEF UserStep, UserReplace, run
  <2>2. CASE UserEdit
    BY <1>15, <2>2 DEF UserStep, UserEdit, run
  <2>3. CASE UserLink
    BY <1>15, <2>3 DEF UserStep, UserLink, run
  <2>4. QED
    BY <1>15, <2>1, <2>2, <2>3 DEF UserStep
<1>16. CASE UNCHANGED vars
  BY <1>16 DEF vars, fs, run
<1>17. QED
  BY <1>1, <1>2, <1>3, <1>4, <1>5, <1>6, <1>7, <1>8, <1>9, <1>10, <1>11,
     <1>12, <1>13, <1>14, <1>15, <1>16 DEF Next, WriterStep

(* report-file and its siblings: a writer that rejects has left nothing of   *)
(* its own on the path, for every number of writers that contend for it and *)
(* whatever fails, but for a sibling that could not be removed and, where   *)
(* the landed file is checked, a failed unlink or check or a user about.    *)
THEOREM RejectedLeaves == Spec => []RejectedLeavesTarget
BY InitRejected, NextRejected, TypeCorrect, FilesHold, ProgressHolds, AftermathHolds,
   PTL DEF Spec

(* Whoever is told that it created the file has taken the path for good, as *)
(* long as no user removes what is there: the link of another is refused,   *)
(* and a rename is for those who found a file.                              *)
LEMMA NextCreator ==
  TypeOK /\ Files /\ Snapshots /\ Progress /\ Landing /\ OneCreator /\ [Next]_vars => OneCreator'
<1> SUFFICES ASSUME TypeOK, Files, Snapshots, Progress, Landing, OneCreator, [Next]_vars,
                    user' = 0, kind' # "rename"
             PROVE  \A v, w \in Writers : Created(v)' /\ Created(w)' => v = w
  BY DEF OneCreator
<1>1. user = 0 /\ kind # "rename" /\ ~UserStep
  <2>1. user \in Nat /\ ~UserStep
    BY DEF UserStep, TypeOK
  <2>2. ASSUME NEW w \in Writers, WriterStep(w) PROVE user' = user /\ kind' = kind
    BY <2>2 DEF WriterStep, Start, Stat, Read, Open, Write, Link, RenameNew, Restat, Reread,
                Rename, Unlink, Land, Cleanup, Crash
  <2>3. QED
    BY <2>1, <2>2 DEF Next, vars
<1> USE DEF TypeOK, OneCreator, Created, Conclude, Progress, Landing
<1>2. ASSUME NEW w \in Writers, WriterStep(w)
      PROVE  \A v \in Writers : Created(v)' => Created(v) \/ (v = w /\ target = None)
  <2>1. CASE Link(w)
    BY <2>1 DEF Link, Goto, Fails
  <2>2. CASE Rename(w)
    BY <2>2 DEF Rename, Goto, Fails, Snapshots
  <2>3. CASE Start(w) \/ Crash(w)
    BY <2>3 DEF Start, Crash
  <2>4. CASE Stat(w) \/ Read(w) \/ Restat(w) \/ Reread(w)
    BY <2>4 DEF Stat, Read, Restat, Reread, Goto, Fails, Lstat, Inspectable
  <2>5. CASE Open(w) \/ Write(w)
    BY <2>5 DEF Open, Write, Goto, Fails
  <2>6. CASE Unlink(w) \/ Land(w) \/ Cleanup(w)
    BY <2>6 DEF Unlink, Land, Cleanup, Goto, Fails, Answer
  <2>7. QED
    BY <1>1, <1>2, <2>1, <2>2, <2>3, <2>4, <2>5, <2>6 DEF WriterStep, RenameNew
<1>3. target = None => \A v \in Writers : ~Created(v)
  BY <1>1
<1>4. CASE UNCHANGED vars
  BY <1>1, <1>4 DEF vars, run
<1>5. QED
  BY <1>1, <1>2, <1>3, <1>4 DEF Next

(* Two writers that both found the path empty are never both told that their *)
(* receipt is there, for any number of writers, kills and failed operations, *)
(* as long as no user empties the path and first publication links.          *)
THEOREM CreatorIsUnique == Spec => []OneCreator
<1>1. Init => OneCreator
  BY DEF Init, OneCreator, Created
<1>2. QED
  BY <1>1, NextCreator, TypeCorrect, FilesHold, SnapshotsHold, ProgressHolds, AftermathHolds,
     PTL DEF Spec

(* When nobody interfered and all writers have finished, the path is empty   *)
(* or names a file without other names, which the next run may update: every *)
(* sibling's name was dropped by the run that created it.                    *)
THEOREM QuietIsUpdatable == Spec => []QuietTargetIsUpdatable
<1>1. TypeOK /\ Landing /\ Swept => QuietTargetIsUpdatable
  <2> SUFFICES ASSUME TypeOK, Landing, Swept, user = 0, kills = 0, faults = 0, Idle,
                      target # None
               PROVE  Names(target) = 1
    BY DEF QuietTargetIsUpdatable, LoneTarget
  <2>1. temps = {}
    BY DEF Swept, Idle, Writing
  <2>2. links = {}
    BY DEF Landing
  <2>3. QED
    BY <2>1, <2>2, OneName
<1>2. QED
  BY <1>1, TypeCorrect, AftermathHolds, PTL

-----------------------------------------------------------------------------
(* Contention.                                                               *)

Sound ==
  TypeOK /\ Files /\ Snapshots /\ Progress /\ Landing /\ Swept /\ RejectedLeavesTarget
Wins(w) == pc[w] = "idle" \/ outcome[w] \in {"published", "returned"} \/ OnTrack(w)

(* A usable path that cannot be inspected has just been published by another *)
(* writer, whose sibling is the file's second name.                          *)
LEMMA BlockedByWinner ==
  ASSUME Sound, Calm, Usable, target # None, ~Inspectable
  PROVE  \E u \in Writers : outcome[u] = "published" /\ pc[u] \in {"unlink", "cleanup"}
<1>1. Names(target) # 1
  BY DEF Usable, Inspectable
<1>2. target \in temps
  BY <1>1, OneName DEF Sound, Landing, Calm
<1>3. PICK u \in Writers : temp[u] = target /\ pc[u] \in Writing \cup {"unlink", "cleanup"}
  BY <1>2 DEF Sound, Swept, Calm
<1>4. pc[u] \in {"unlink", "cleanup"}
  BY <1>3 DEF Sound, Files, SiblingPrivate
<1>5. outcome[u] # "rejected"
  BY <1>3 DEF Sound, RejectedLeavesTarget, Calm
<1>6. QED
  BY <1>4, <1>5 DEF Sound, Progress

(* A file that is not a receipt stays on the path while nobody interferes.   *)
LEMMA ForeignStays == Sound /\ Calm /\ ~Usable /\ [Next]_vars /\ Calm' => ~Usable'
<1> SUFFICES ASSUME Sound, Calm, ~Usable, [Next]_vars, Calm' PROVE ~Usable'
  OBVIOUS
<1>1. ~UserStep
  BY DEF UserStep, Calm, Sound, TypeOK
<1>2. \A w \in Writers : pc[w] \notin {"open"} \cup Writing
  BY DEF Sound, Progress, Usable, Calm
<1>3. UNCHANGED <<target, content>>
  BY <1>1, <1>2, ZenonT(60)
     DEF Next, WriterStep, Start, Stat, Read, Open, Write, Link, RenameNew, Restat, Reread,
         Rename, Unlink, Land, Cleanup, Crash, Goto, Fails, Writing, fs, vars
<1>4. QED
  BY <1>3 DEF Usable

(* Another writer's step takes nobody off the track but by publishing.       *)
LEMMA OthersYield ==
  ASSUME Sound, Calm, Calm', Usable, Usable', NEW w \in Writers, Wins(w),
         NEW v \in Writers \ {w}, WriterStep(v)
  PROVE  Wins(w)' \/ outcome'[v] = "published"
<1> USE InodesAssumption
    DEF Sound, TypeOK, Files, TargetWhole, SiblingUsed, SiblingOwn, SiblingPrivate,
        SiblingWhole, Writing, Written, Contents, Steps, Outcomes, Landing, Progress,
        Calm, Usable, Wins, OnTrack, Vacant, Undisturbed, Lstat, Conclude
<1>0. Snapshot(w)
  BY DEF Snapshots
<1>1. CASE Start(v)
  BY <1>0, <1>1 DEF Start, fs, Snapshot, Touched
<1>2. CASE Stat(v)
  BY <1>0, <1>2 DEF Stat, Goto, Fails, Fault, fs, Lstat, Snapshot, Touched
<1>3. CASE Read(v)
  BY <1>0, <1>3 DEF Read, Goto, Fails, Fault, ReadsAsReceipt, ReadsAsForeign, fs, Snapshot, Touched
<1>4. CASE Open(v)
  BY <1>0, <1>4, NewInodeIsFree DEF Open, Goto, Fails, Fault, Snapshot, Touched
<1>5. CASE Write(v)
  <2>1. target' = target /\ (target # None => stamp'[target] = stamp[target])
    <3>1. target # temp[v] /\ pc[v] = "write" /\ target' = target
      BY <1>5 DEF Write, Goto, Fails, Fault
    <3>2. stamp' = stamp \/ stamp' = Touched({temp[v]})
      BY <1>5 DEF Write
    <3>3. QED
      BY <3>1, <3>2 DEF Touched
  <2>2. before'[w] = before[w] /\ after'[w] = after[w] /\ pc'[w] = pc[w] /\ outcome'[w] = outcome[w]
        /\ kind' = kind
    BY <1>5 DEF Write, Goto, Fails, Fault
  <2>3. QED
    BY <2>1, <2>2
<1>6. CASE Link(v)
  BY <1>0, <1>6 DEF Link, Goto, Fails, Fault, Snapshot, Touched
<1>7. CASE RenameNew(v)
  BY <1>0, <1>7 DEF RenameNew, MoveInto, Goto, Fails, Fault, Snapshot, Touched
<1>8. CASE Restat(v)
  BY <1>0, <1>8 DEF Restat, Goto, Fails, Fault, fs, Snapshot, Touched
<1>9. CASE Reread(v)
  BY <1>0, <1>9 DEF Reread, Goto, Fails, Fault, ReadsAsReceipt, ReadsAsForeign, fs, Snapshot, Touched
<1>10. CASE Rename(v)
  BY <1>0, <1>10 DEF Rename, MoveInto, Goto, Fails, Fault, Snapshot, Touched
<1>11. CASE Unlink(v)
  BY <1>0, <1>11 DEF Unlink, DropTemp, Goto, Fails, Fault, Snapshot, Touched
<1>12. CASE Land(v)
  BY <1>0, <1>12 DEF Land, Goto, Fails, Fault, fs, Snapshot, Touched
<1>13. CASE Cleanup(v)
  BY <1>0, <1>13 DEF Cleanup, DropTemp, Goto, Fault, Answer, Snapshot, Touched
<1>14. CASE Crash(v)
  BY <1>0, <1>14 DEF Crash, fs, Snapshot, Touched
<1>15. QED
  BY <1>1, <1>2, <1>3, <1>4, <1>5, <1>6, <1>7, <1>8, <1>9, <1>10, <1>11, <1>12, <1>13, <1>14 DEF WriterStep

(* A writer on the track stays on it, publishes, or is refused because       *)
(* another one has published.                                                *)
LEMMA OwnStep ==
  ASSUME Sound, Calm, Calm', Usable, Usable', NEW w \in Writers, Wins(w), WriterStep(w)
  PROVE  Wins(w)' \/ \E u \in Writers : outcome'[u] = "published"
<1> USE InodesAssumption
    DEF Sound, TypeOK, Files, TargetWhole, SiblingUsed, SiblingOwn, SiblingPrivate,
        SiblingWhole, Writing, Written, Contents, Steps, Outcomes, Landing, Progress,
        Calm, Usable, Wins, OnTrack, Vacant, Undisturbed, Lstat, Conclude
<1>0. Snapshot(w) /\ (pc[w] = "stat" => before[w] = None)
      /\ (pc[w] \in {"read", "restat", "reread", "rename"} => before[w] # None)
  BY DEF Snapshots
<1>b. target # None /\ ~Inspectable /\ pc[w] \notin {"unlink", "cleanup"} =>
        \E u \in Writers \ {w} : outcome[u] = "published"
  BY BlockedByWinner
<1>1. CASE Start(w)
  BY <1>0, <1>b, <1>1 DEF Start, fs, Snapshot, Touched
<1>2. CASE Stat(w)
  <2>1. CASE target = None
    BY <1>0, <1>2, <2>1 DEF Stat, Goto, Fails, Fault, fs, Inspectable
  <2>2. CASE Inspectable
    BY <1>0, <1>2, <2>2 DEF Stat, Goto, Fails, Fault, fs, Inspectable
  <2>3. CASE target # None /\ ~Inspectable
    BY <1>b, <1>2, <2>3 DEF Stat, Goto, Fails, Fault
  <2>4. QED
    BY <2>1, <2>2, <2>3
<1>3. CASE Read(w)
  BY <1>0, <1>b, <1>3 DEF Read, Goto, Fails, Fault, ReadsAsReceipt, ReadsAsForeign, fs, Snapshot, Touched
<1>4. CASE Open(w)
  BY <1>0, <1>b, <1>4, NewInodeIsFree DEF Open, Goto, Fails, Fault, Snapshot, Touched
<1>5. CASE Write(w)
  <2>1. target' = target /\ (target # None => stamp'[target] = stamp[target])
    <3>1. target # temp[w] /\ pc[w] = "write" /\ target' = target
      BY <1>5 DEF Write, Goto, Fails, Fault
    <3>2. stamp' = stamp \/ stamp' = Touched({temp[w]})
      BY <1>5 DEF Write
    <3>3. QED
      BY <3>1, <3>2 DEF Touched
  <2>2. before' = before /\ kind' = kind /\ outcome'[w] = outcome[w]
        /\ pc'[w] = IF before[w] = None THEN "link" ELSE "restat"
    BY <1>5 DEF Write, Goto, Fails, Fault
  <2>3. QED
    BY <1>0, <1>5, <2>1, <2>2 DEF Write, Goto, Fails, Fault
<1>6. CASE Link(w)
  BY <1>0, <1>b, <1>6 DEF Link, Goto, Fails, Fault, Snapshot, Touched
<1>7. CASE RenameNew(w)
  BY <1>0, <1>b, <1>7 DEF RenameNew, MoveInto, Goto, Fails, Fault, Snapshot, Touched
<1>8. CASE Restat(w)
  BY <1>0, <1>b, <1>8 DEF Restat, Goto, Fails, Fault, fs, Snapshot, Touched
<1>9. CASE Reread(w)
  BY <1>0, <1>b, <1>9 DEF Reread, Goto, Fails, Fault, ReadsAsReceipt, ReadsAsForeign, fs, Snapshot, Touched
<1>10. CASE Rename(w)
  BY <1>0, <1>b, <1>10 DEF Rename, MoveInto, Goto, Fails, Fault, Snapshot, Touched
<1>11. CASE Unlink(w)
  BY <1>0, <1>b, <1>11 DEF Unlink, DropTemp, Goto, Fails, Fault, Snapshot, Touched
<1>12. CASE Land(w)
  <2>1. pc[w] = "land" /\ outcome[w] = "published" /\ target # None
    BY <1>12 DEF Land, Goto, Fails, Fault
  <2>f. faults' = faults
    BY <1>12 DEF Land, Fails, Fault
  <2>2. CASE Inspectable
    BY <1>12, <2>1, <2>f, <2>2 DEF Land, Fails, Fault
  <2>3. CASE ~Inspectable
    BY <1>b, <1>12, <2>1, <2>f, <2>3 DEF Land, Fails, Fault
  <2>4. QED
    BY <2>2, <2>3
<1>13. CASE Cleanup(w)
  BY <1>0, <1>b, <1>13 DEF Cleanup, DropTemp, Goto, Fault, Answer, Snapshot, Touched
<1>14. CASE Crash(w)
  BY <1>0, <1>b, <1>14 DEF Crash, fs, Snapshot, Touched
<1>15. QED
  BY <1>1, <1>2, <1>3, <1>4, <1>5, <1>6, <1>7, <1>8, <1>9, <1>10, <1>11, <1>12, <1>13, <1>14 DEF WriterStep

LEMMA NextContended == Sound /\ Contended /\ [Next]_vars => Contended'
<1> SUFFICES ASSUME Sound, Contended, [Next]_vars, Calm', Usable'
             PROVE  (\E w \in Writers : Wins(w))'
  BY DEF Contended, Wins
<1>1. Calm
  <2>1. user \in Nat /\ kills \in Nat /\ faults \in Nat /\ user' = 0 /\ kills' = 0 /\ faults' = 0
    BY DEF Calm, Sound, TypeOK
  <2>2. ASSUME NEW w \in Writers, WriterStep(w) PROVE Calm
    <3>1. user' = user /\ kills' \in {kills, kills + 1} /\ faults' \in {faults, faults + 1}
      BY <2>2 DEF WriterStep, Start, Stat, Read, Open, Write, Link, RenameNew, Restat, Reread,
                  Rename, Unlink, Land, Cleanup, Crash, Fails, Fault
    <3>2. QED
      BY <2>1, <3>1 DEF Calm
  <2>3. ~UserStep
    BY <2>1 DEF UserStep
  <2>4. QED
    BY <2>1, <2>2, <2>3 DEF Next, vars, Calm
<1>2. Usable
  BY <1>1, ForeignStays
<1>3. PICK w \in Writers : Wins(w)
  BY <1>1, <1>2 DEF Contended, Wins
<1>4. ~UserStep
  BY <1>1 DEF UserStep, Calm, Sound, TypeOK
<1>5. CASE WriterStep(w)
  BY <1>1, <1>2, <1>3, <1>5, OwnStep DEF Wins
<1>6. ASSUME NEW v \in Writers \ {w}, WriterStep(v) PROVE (\E u \in Writers : Wins(u))'
  BY <1>1, <1>2, <1>3, <1>6, OthersYield DEF Wins
<1>7. CASE UNCHANGED vars
  BY <1>3, <1>7 DEF vars, fs, run, Wins, OnTrack, Vacant, Undisturbed, Lstat
<1>8. QED
  BY <1>4, <1>5, <1>6, <1>7 DEF Next

(* Writers that contend for a path never all lose: when all have finished    *)
(* undisturbed and the path holds nothing a writer must refuse, one of them  *)
(* was told that its receipt is published.  The argument is that somebody is *)
(* always on the way to win: whoever takes it off the way has won.           *)
THEOREM SomebodyWins ==
  ASSUME Writers # {}
  PROVE  Spec => []ContentionHasAWinner
<1>1. Init => Contended
  BY DEF Init, Contended
<1>2. Spec => []Sound
  BY TypeCorrect, FilesHold, SnapshotsHold, ProgressHolds, AftermathHolds, RejectedLeaves,
     PTL DEF Sound
<1>3. Spec => []Contended
  BY <1>1, <1>2, NextContended, PTL DEF Spec
<1>4. Settled /\ Contended => ContentionHasAWinner
  BY DEF Settled, Contended, ContentionHasAWinner, OnTrack, Calm, Usable
<1>5. QED
  BY <1>3, <1>4, AftermathHolds, PTL
=============================================================================
