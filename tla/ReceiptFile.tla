----------------------------- MODULE ReceiptFile -----------------------------
(***************************************************************************)
(* Publication of one evidence file (parity report, SARIF, Contract IR,    *)
(* consumer, formal, protobuf, projection or WIT receipt) by writer         *)
(* processes that share a target path, among users who may touch that path.*)
(* Every await of a writer is a step of its own.  A file is an inode: the  *)
(* target path, each writer's exclusively created sibling and the links a  *)
(* user adds are names of inodes.  stamp stands for the (size, mtime,       *)
(* ctime) a stat returns: creating, writing, linking, unlinking and         *)
(* renaming all advance the ctime of the inode they touch.  An inode number *)
(* that the file system reuses comes back with a new ctime, so an inode of  *)
(* the model is never reused.                                               *)
(***************************************************************************)
EXTENDS Integers, FiniteSets

CONSTANTS
  Writers,    \* processes that publish to the target path
  Inodes,     \* files that can ever exist
  None,       \* no file
  Foreign,    \* a file that is not a receipt, as the register sees it
  Kinds,      \* publication variants: subset of {"link", "landed", "rename"}
  MaxUser,    \* bound on steps of users of the directory
  MaxKills,   \* bound on killed writers
  MaxFaults   \* bound on failed file operations

ASSUME KindsAssumption == Kinds \subseteq {"link", "landed", "rename"}
ASSUME InodesAssumption ==
  /\ Inodes # {}
  /\ None \notin Inodes \cup [ino : Inodes, stamp : Nat]
  /\ Foreign \notin Inodes \cup {None}
ASSUME BoundsAssumption == {MaxUser, MaxKills, MaxFaults} \subseteq Nat

VARIABLES
  target,   \* the inode the target path names
  temps,    \* inodes that still have their temporary sibling name
  links,    \* inodes with a further name a user gave them
  content,  \* what each inode holds
  stamp,    \* size, mtime and ctime of each inode
  kind,     \* the variant that publishes this path
  pc,       \* the next await of each writer
  temp,     \* the inode a writer created in its current run
  before,   \* what its first inspection returned
  after,    \* what its second inspection returned
  outcome,  \* how its current run has ended, as its caller sees it
  user,     \* steps the users have taken
  kills,    \* writers killed so far
  faults    \* file operations that have failed so far

fs   == <<target, temps, links, content, stamp>>
run  == <<temp, before, after, outcome>>
vars == <<fs, kind, pc, run, user, kills, faults>>

(* "partial": being written; "receipt": validator-owned evidence; "other": *)
(* any other regular file; "symlink": not a regular file.                  *)
Contents == {"free", "partial", "receipt", "other", "symlink"}
Steps    == {"idle", "stat", "read", "open", "write", "link", "restat", "reread",
             "rename", "unlink", "land", "cleanup", "done"}
Outcomes == {"pending", "published", "returned", "rejected"}

Stats == [ino : Inodes, stamp : Nat]

(* Mutant of Lstat: identity without size and times. *)
LstatInodeOnly == IF target = None THEN None ELSE [ino |-> target]

(* What lstat returns for the target path, None standing for ENOENT. *)
Lstat == IF target = None THEN None ELSE [ino |-> target, stamp |-> stamp[target]]

(* nlink of an inode. *)
Names(i) == Cardinality({n \in {"target", "temp", "user"} :
                           \/ n = "target" /\ target = i
                           \/ n = "temp"   /\ i \in temps
                           \/ n = "user"   /\ i \in links})

(* Mutant of Inspectable: hard links are not looked at. *)
InspectableAnyLinks == target # None /\ content[target] # "symlink"

(* A regular file with one name: what lstat must show before it is read. *)
Inspectable == target # None /\ content[target] # "symlink" /\ Names(target) = 1

(* Reading by path: a symbolic link is followed, wherever it leads. *)
ReadsAsReceipt == target # None /\ content[target] \in {"receipt", "symlink"}
ReadsAsForeign == target # None => content[target] # "receipt"

(* The inode that the next file created gets. *)
Free == {i \in Inodes : content[i] = "free"}
NewInode == CHOOSE i \in Free : TRUE

(* The stamps after the inodes of S lost or gained a name. *)
Touched(S) == [i \in Inodes |-> IF i \in S THEN stamp[i] + 1 ELSE stamp[i]]

Init ==
  /\ kind \in Kinds
  /\ target \in {None, CHOOSE i \in Inodes : TRUE}
  /\ \E c \in {"receipt", "other", "symlink"} :
       content = [i \in Inodes |-> IF i = target THEN c ELSE "free"]
  /\ stamp = [i \in Inodes |-> 0]
  /\ temps = {} /\ links = {}
  /\ pc = [w \in Writers |-> "idle"]
  /\ temp = [w \in Writers |-> None]
  /\ before = [w \in Writers |-> None]
  /\ after = [w \in Writers |-> None]
  /\ outcome = [w \in Writers |-> "pending"]
  /\ user = 0 /\ kills = 0 /\ faults = 0

-----------------------------------------------------------------------------
(* The writer.                                                              *)

Goto(w, from, to) == pc[w] = from /\ pc' = [pc EXCEPT ![w] = to]

(* One more failed file operation, within the bound. *)
Fault == faults < MaxFaults /\ faults' = faults + 1

Conclude(w, result) == outcome' = [outcome EXCEPT ![w] = result]

(* The file operation awaited at this step fails, and the writer rejects. *)
Fails(w, from, to) ==
  /\ Fault
  /\ Goto(w, from, to)
  /\ Conclude(w, "rejected")

(* The bound on runs: a file is left for every run under way and for the    *)
(* users' steps.                                                            *)
Room ==
  Cardinality(Free)
    > Cardinality({v \in Writers : pc[v] \in {"stat", "read", "open"}}) + (MaxUser - user)

(* The caller has serialized an envelope the writer recognizes as its own. *)
Start(w) ==
  /\ pc[w] \in {"idle", "done"}
  /\ Room
  /\ pc' = [pc EXCEPT ![w] = "stat"]
  /\ temp' = [temp EXCEPT ![w] = None]
  /\ before' = [before EXCEPT ![w] = None]
  /\ after' = [after EXCEPT ![w] = None]
  /\ Conclude(w, "pending")
  /\ UNCHANGED <<fs, kind, user, kills, faults>>

(* inspectDestination, first half: ENOENT means nothing to replace, and any *)
(* other error of lstat a rejection with nothing to clean.                  *)
Stat(w) ==
  /\ \/ /\ target = None
        /\ Goto(w, "stat", "open")
        /\ UNCHANGED <<before, outcome, faults>>
     \/ /\ Inspectable
        /\ Goto(w, "stat", "read")
        /\ before' = [before EXCEPT ![w] = Lstat]
        /\ UNCHANGED <<outcome, faults>>
     \/ /\ target # None /\ ~Inspectable
        /\ Goto(w, "stat", "done")
        /\ Conclude(w, "rejected")
        /\ UNCHANGED <<before, faults>>
     \/ Fails(w, "stat", "done") /\ UNCHANGED before
  /\ UNCHANGED <<fs, kind, temp, after, user, kills>>

(* inspectDestination, second half: only validator-owned evidence goes on. *)
Read(w) ==
  /\ \/ ReadsAsReceipt /\ Goto(w, "read", "open") /\ UNCHANGED <<outcome, faults>>
     \/ ReadsAsForeign /\ Goto(w, "read", "done") /\ Conclude(w, "rejected") /\ UNCHANGED faults
     \/ Fails(w, "read", "done")
  /\ UNCHANGED <<fs, kind, temp, before, after, user, kills>>

(* open(temporary, 'wx'): a fresh sibling, or an error with nothing to clean. *)
Open(w) ==
  /\ \/ /\ Free # {}
        /\ Goto(w, "open", "write")
        /\ temp' = [temp EXCEPT ![w] = NewInode]
        /\ temps' = temps \cup {NewInode}
        /\ content' = [content EXCEPT ![NewInode] = "partial"]
        /\ UNCHANGED <<outcome, faults>>
     \/ Fails(w, "open", "done") /\ UNCHANGED <<temp, temps, content>>
  /\ UNCHANGED <<target, links, stamp, kind, before, after, user, kills>>

(* Mutant of Write: an error of writeFile, sync or close is swallowed. *)
WriteSwallowsError(w) ==
  /\ Goto(w, "write", IF before[w] = None THEN "link" ELSE "restat")
  /\ \/ /\ content' = [content EXCEPT ![temp[w]] = "receipt"]
        /\ stamp' = Touched({temp[w]})
        /\ UNCHANGED faults
     \/ Fault /\ UNCHANGED <<content, stamp>>
  /\ UNCHANGED <<target, temps, links, kind, temp, before, after, outcome, user, kills>>

(* writeFile, sync and close of the sibling, or an error of one of them. *)
Write(w) ==
  /\ \/ /\ Goto(w, "write", IF before[w] = None THEN "link" ELSE "restat")
        /\ content' = [content EXCEPT ![temp[w]] = "receipt"]
        /\ stamp' = Touched({temp[w]})
        /\ UNCHANGED <<outcome, faults>>
     \/ Fails(w, "write", "cleanup") /\ UNCHANGED <<content, stamp>>
  /\ UNCHANGED <<target, temps, links, kind, temp, before, after, user, kills>>

(* The path takes w's file and the sibling name goes: rename(2). *)
MoveInto(w) ==
  /\ target' = temp[w]
  /\ temps' = temps \ {temp[w]}
  /\ stamp' = Touched({temp[w]} \cup ({target} \ {None}))

(* Mutants of Link: it replaces what is there; it checks what landed before *)
(* the sibling's name is gone.                                              *)
LinkClobbers(w) ==
  /\ kind # "rename"
  /\ Goto(w, "link", "cleanup")
  /\ MoveInto(w)
  /\ Conclude(w, "published")
  /\ UNCHANGED <<links, content, kind, temp, before, after, user, kills, faults>>

LinkLandsAtOnce(w) ==
  /\ kind # "rename"
  /\ \/ /\ target = None
        /\ Goto(w, "link", IF kind = "landed" THEN "land" ELSE "cleanup")
        /\ target' = temp[w]
        /\ stamp' = Touched({temp[w]})
        /\ Conclude(w, "published")
     \/ /\ target # None
        /\ Goto(w, "link", "cleanup")
        /\ Conclude(w, "rejected")
        /\ UNCHANGED <<target, stamp>>
  /\ UNCHANGED <<temps, links, content, kind, temp, before, after, user, kills, faults>>

(* First publication: link(2) refuses an existing target (EEXIST), or fails *)
(* for another reason.                                                      *)
Link(w) ==
  /\ kind # "rename"
  /\ \/ /\ target = None
        /\ Goto(w, "link", IF kind = "landed" THEN "unlink" ELSE "cleanup")
        /\ target' = temp[w]
        /\ stamp' = Touched({temp[w]})
        /\ Conclude(w, "published")
        /\ UNCHANGED faults
     \/ /\ target # None
        /\ Goto(w, "link", "cleanup")
        /\ Conclude(w, "rejected")
        /\ UNCHANGED <<target, stamp, faults>>
     \/ Fails(w, "link", "cleanup") /\ UNCHANGED <<target, stamp>>
  /\ UNCHANGED <<temps, links, content, kind, temp, before, after, user, kills>>

(* First publication of a WIT receipt: rename(2) replaces whatever is there. *)
RenameNew(w) ==
  /\ kind = "rename"
  /\ \/ Goto(w, "link", "cleanup") /\ MoveInto(w) /\ Conclude(w, "published") /\ UNCHANGED faults
     \/ Fails(w, "link", "cleanup") /\ UNCHANGED <<target, temps, stamp>>
  /\ UNCHANGED <<links, content, kind, temp, before, after, user, kills>>

(* The second inspection, lstat half; a vanished target is a changed one. *)
Restat(w) ==
  /\ \/ /\ Inspectable
        /\ Goto(w, "restat", "reread")
        /\ after' = [after EXCEPT ![w] = Lstat]
        /\ UNCHANGED <<outcome, faults>>
     \/ /\ ~Inspectable
        /\ Goto(w, "restat", "cleanup")
        /\ Conclude(w, "rejected")
        /\ UNCHANGED <<after, faults>>
     \/ Fails(w, "restat", "cleanup") /\ UNCHANGED after
  /\ UNCHANGED <<fs, kind, temp, before, user, kills>>

(* Its read half, then unchanged(before, after). *)
Reread(w) ==
  /\ \/ /\ ReadsAsReceipt /\ before[w] = after[w]
        /\ Goto(w, "reread", "rename")
        /\ UNCHANGED <<outcome, faults>>
     \/ /\ ReadsAsForeign \/ before[w] # after[w]
        /\ Goto(w, "reread", "cleanup")
        /\ Conclude(w, "rejected")
        /\ UNCHANGED faults
     \/ Fails(w, "reread", "cleanup")
  /\ UNCHANGED <<fs, kind, temp, before, after, user, kills>>

(* Replacement of the inspected receipt. *)
Rename(w) ==
  /\ \/ /\ Goto(w, "rename", IF kind = "landed" THEN "land" ELSE "cleanup")
        /\ MoveInto(w)
        /\ Conclude(w, "published")
        /\ UNCHANGED faults
     \/ Fails(w, "rename", "cleanup") /\ UNCHANGED <<target, temps, stamp>>
  /\ UNCHANGED <<links, content, kind, temp, before, after, user, kills>>

(* Dropping the sibling's name; a name that rename consumed is ENOENT. *)
DropTemp(w) ==
  /\ temps' = temps \ {temp[w]}
  /\ stamp' = Touched({temp[w]} \cap temps)

(* The protobuf and projection writers unlink the sibling inside the try. *)
Unlink(w) ==
  /\ \/ /\ Goto(w, "unlink", "land")
        /\ DropTemp(w)
        /\ UNCHANGED <<outcome, faults>>
     \/ Fails(w, "unlink", "cleanup") /\ UNCHANGED <<temps, stamp>>
  /\ UNCHANGED <<target, links, content, kind, temp, before, after, user, kills>>

(* ... and then check that what the path names is a lone regular file. *)
Land(w) ==
  /\ \/ /\ Goto(w, "land", "cleanup")
        /\ IF Inspectable THEN UNCHANGED outcome ELSE Conclude(w, "rejected")
        /\ UNCHANGED faults
     \/ Fails(w, "land", "cleanup")
  /\ UNCHANGED <<fs, kind, temp, before, after, user, kills>>

(* Mutant of Answer: the finally block returns and so swallows the throw. *)
AnswerFromFinally(w) == "returned"

(* What the caller sees when the finally block has run. *)
Answer(w) == IF outcome[w] = "published" THEN "returned" ELSE outcome[w]

(* Mutant of Cleanup: only an unpublished sibling is removed. *)
CleanupUnlessPublished(w) ==
  /\ Goto(w, "cleanup", "done")
  /\ Conclude(w, Answer(w))
  /\ IF outcome[w] = "published" THEN UNCHANGED <<temps, stamp>> ELSE DropTemp(w)
  /\ UNCHANGED <<target, links, content, kind, temp, before, after, user, kills, faults>>

(* The finally block.  Its own failure is fatal to the run only where the  *)
(* code does not swallow it.                                                *)
Cleanup(w) ==
  /\ Goto(w, "cleanup", "done")
  /\ \/ DropTemp(w) /\ Conclude(w, Answer(w)) /\ UNCHANGED faults
     \/ /\ temp[w] \in temps
        /\ Fault
        /\ Conclude(w, IF kind = "link" THEN "rejected" ELSE Answer(w))
        /\ UNCHANGED <<temps, stamp>>
  /\ UNCHANGED <<target, links, content, kind, temp, before, after, user, kills>>

(* A killed writer leaves the file system as it is. *)
Crash(w) ==
  /\ pc[w] \notin {"idle", "done"}
  /\ kills < MaxKills
  /\ kills' = kills + 1
  /\ pc' = [pc EXCEPT ![w] = "idle"]
  /\ Conclude(w, "pending")
  /\ UNCHANGED <<fs, kind, temp, before, after, user, faults>>

-----------------------------------------------------------------------------
(* Users of the directory: editors, version control, other tools.          *)

(* Write another file over the path, delete it, or move one there. *)
UserReplace ==
  /\ \/ target' = None /\ target # None /\ UNCHANGED content
     \/ /\ Free # {}
        /\ target' = NewInode
        /\ \E c \in {"receipt", "other", "symlink"} :
             content' = [content EXCEPT ![NewInode] = c]
  /\ stamp' = Touched({target} \ {None})
  /\ UNCHANGED <<temps, links>>

(* Edit the file in place: restore a receipt or type something else. *)
UserEdit ==
  /\ target # None
  /\ content[target] # "symlink"
  /\ \E c \in {"receipt", "other"} : content' = [content EXCEPT ![target] = c]
  /\ stamp' = Touched({target})
  /\ UNCHANGED <<target, temps, links>>

(* Give the file a second name. *)
UserLink ==
  /\ target # None
  /\ target \notin links
  /\ links' = links \cup {target}
  /\ stamp' = Touched({target})
  /\ UNCHANGED <<target, temps, content>>

UserStep ==
  /\ user < MaxUser
  /\ user' = user + 1
  /\ UserReplace \/ UserEdit \/ UserLink
  /\ UNCHANGED <<kind, pc, run, kills, faults>>

-----------------------------------------------------------------------------
WriterStep(w) ==
  \/ Start(w) \/ Stat(w) \/ Read(w) \/ Open(w) \/ Write(w) \/ Link(w)
  \/ RenameNew(w) \/ Restat(w) \/ Reread(w) \/ Rename(w) \/ Unlink(w)
  \/ Land(w) \/ Cleanup(w) \/ Crash(w)

Next == (\E w \in Writers : WriterStep(w)) \/ UserStep

Spec == Init /\ [][Next]_vars
-----------------------------------------------------------------------------
(* Properties. *)

(* Types of every variable. *)
TypeOK ==
  /\ target \in Inodes \cup {None}
  /\ temps \in SUBSET Inodes
  /\ links \in SUBSET Inodes
  /\ content \in [Inodes -> Contents]
  /\ stamp \in [Inodes -> Nat]
  /\ kind \in Kinds
  /\ pc \in [Writers -> Steps]
  /\ temp \in [Writers -> Inodes \cup {None}]
  /\ before \in [Writers -> Stats \cup {None}]
  /\ after \in [Writers -> Stats \cup {None}]
  /\ outcome \in [Writers -> Outcomes]
  /\ user \in Nat
  /\ kills \in Nat
  /\ faults \in Nat

(* A reader of the target path never sees evidence that is still being      *)
(* written, whatever writers, kills and users do.                           *)
NoTornTarget == target # None => content[target] # "partial"

(* What w is about to replace is still the very file it inspected first. *)
Undisturbed(w) == target # None /\ Lstat = before[w]

(* A writer whose rename meets the file of its first inspection, with size, *)
(* mtime and ctime as they were then, replaces validator-owned evidence     *)
(* with one name: neither half of the two inspections can have vouched for  *)
(* a different file.                                                        *)
ReplacesOnlyOwned ==
  \A w \in Writers :
    pc[w] = "rename" /\ Undisturbed(w) => content[target] = "receipt" /\ Names(target) = 1

(* A step of a writer takes an unrelated file off the target path, and not *)
(* one that a user put there after the writer's second inspection.          *)
TakesUnowned ==
  /\ target # None
  /\ content[target] \in {"other", "symlink"}
  /\ target' # target
  /\ user' = user
  /\ ~ \E w \in Writers : pc[w] = "rename" /\ ~Undisturbed(w)

(* The writers that link spare unrelated files: first publication is        *)
(* no-clobber and replacement needs an unchanged receipt.                   *)
UnownedSurvives == [][kind # "rename" => ~TakesUnowned]_vars

(* The WIT writer refuses an unrecognized file as the others do             *)
(* (wit-compatibility.mjs:492: "refusing to replace an unrecognized WIT      *)
(* compatibility evidence file").                                            *)
WitSparesUnowned == [][kind = "rename" => ~TakesUnowned]_vars

(* A rejected receipt is on the path for one of two reasons only: its        *)
(* sibling could not be removed and still gives the file a second name, so  *)
(* that the next run refuses it; or the variant checks what landed, and its *)
(* unlink or its check failed or users interfered after the link or rename. *)
(* A caller of any other rejected run answers with its own failed receipt   *)
(* for a path that does not hold the rejected one.                          *)
RejectedLeavesTarget ==
  \A w \in Writers :
    outcome[w] = "rejected" /\ target # None /\ target = temp[w] =>
      \/ kind = "link" /\ pc[w] = "done" /\ temp[w] \in temps /\ faults > 0
      \/ kind = "landed" /\ (faults > 0 \/ user > 0)

(* While no user interferes, at most one of the writers that found the path  *)
(* empty is told that its receipt is there: the link of the other must have *)
(* failed.  (The WIT writer renames, and tells both.)                       *)
Created(w) == before[w] = None /\ outcome[w] \in {"published", "returned"}
OneCreator ==
  user = 0 /\ kind # "rename" =>
    \A v, w \in Writers : Created(v) /\ Created(w) => v = w

Idle == \A w \in Writers : pc[w] \in {"idle", "done"}

(* When nobody interfered and every writer has finished, the path is empty  *)
(* or holds a file with one name, so that the next run may update it.       *)
LoneTarget == target # None => Names(target) = 1
QuietTargetIsUpdatable ==
  user = 0 /\ kills = 0 /\ faults = 0 /\ Idle => LoneTarget

(* Writers that contend for a path never all lose: when they have finished, *)
(* undisturbed, one of them was told its receipt is published, unless the   *)
(* path holds a file that all of them must refuse.                          *)
ContentionHasAWinner ==
  (/\ user = 0 /\ kills = 0 /\ faults = 0
   /\ \A w \in Writers : pc[w] = "done"
   /\ target = None \/ content[target] = "receipt")
  => \E w \in Writers : outcome[w] = "returned"

(* docs/report-file-safety.md: "A killed process can leave a private sibling *)
(* temporary file" -- and, with no user about, nothing else: the target      *)
(* itself is left as a later run can update it.                              *)
KilledWriterLeavesOnlyTemp == user = 0 /\ faults = 0 /\ Idle => LoneTarget
-----------------------------------------------------------------------------
(* The path as a register: only whole receipts count as receipts. *)
Slot == IF target = None THEN None
        ELSE IF content[target] = "receipt" THEN target ELSE Foreign

Register == INSTANCE ReceiptSlot WITH
  Runners <- Writers, Receipts <- Inodes, Empty <- None, Foreign <- Foreign,
  slot <- Slot, status <- outcome, alone <- (user = 0)

(* Every behaviour of the writers, with their kills and failures, is one of *)
(* an atomic register: callers may reason about a path, not about files.    *)
IsRegister == Register!ASpec
=============================================================================
