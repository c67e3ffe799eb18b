------------------------------ MODULE StableRead ------------------------------
(***************************************************************************)
(* Reading one file by path while it may change.  Two readers of the source *)
(* do it: readProjectionFile, which compares everything a stat tells before *)
(* and after, and readRegularJson of configuration files, which compares    *)
(* device and inode only.  Every system call is a step.                     *)
(***************************************************************************)
EXTENDS FileTree

CONSTANTS
  Readers,   \* reads that may be in progress at one time
  MaxBytes   \* configured limit of one file

VARIABLES
  reader,  \* reader[r]: what read r is about to do and what it knows
  held     \* held[r]: contents that the file has had since read r opened it

reading == <<reader, held>>

Steps == {"idle", "ancestors", "inspect", "open", "stat", "read", "extra", "after",
          "ancestorsAgain", "inspectAgain", "done", "refused"}

Idle == [at |-> "idle", strict |-> TRUE, path |-> None, limit |-> 0, dirs |-> None,
         before |-> None, handle |-> None, opened |-> None, got |-> <<>>]

Opened == {reader[r].handle : r \in Readers} \ {None}
Go(r, to) == [reader[r] EXCEPT !.at = to]
Becomes(r, state) ==
  /\ reader' = [reader EXCEPT ![r] = state]
  /\ UNCHANGED <<tree, held>>
(* A refusal closes the handle.                                              *)
Refusal(r) == [Idle EXCEPT !.at = "refused", !.path = reader[r].path]
Refuse(r) == Becomes(r, Refusal(r))

ReadInit == reader = [r \in Readers |-> Idle] /\ held = [r \in Readers |-> {}]

Begin(r, p, strict, limit) ==
  /\ reader' = [reader EXCEPT ![r] = [Idle EXCEPT
       !.at = IF strict THEN "ancestors" ELSE "inspect",
       !.strict = strict, !.path = p, !.limit = limit]]
  /\ held' = [held EXCEPT ![r] = {}]
  /\ UNCHANGED tree

-----------------------------------------------------------------------------
(* inspectPath: the ancestors first, then the file.                          *)

SameIdentity(a, b) == a.ino = b.ino
SamePathFile(a, b) ==
  SameIdentity(a, b) /\ a.nlink = b.nlink /\ a.size = b.size /\ a.mtime = b.mtime
\* Mutant: a change that kept the size and set mtime back goes unnoticed.
SameOpenedFileByMtime(a, b) == SamePathFile(a, b)
SameOpenedFile(a, b) == SamePathFile(a, b) /\ a.ctime = b.ctime

Ancestors(r) ==
  /\ reader[r].at = "ancestors"
  /\ IF folder = Linked THEN Refuse(r)
     ELSE Becomes(r, [Go(r, "inspect") EXCEPT !.dirs = folder])

(* A missing file, a second link and a file over the limit end the read.     *)
Regular(i) == i # None /\ Links(i) = 1
Admits(r, i) == Regular(i) /\ Len(data[i]) <= reader[r].limit

Inspect(r) ==
  /\ reader[r].at = "inspect"
  /\ LET i == At(reader[r].path) IN
     IF Admits(r, i) THEN Becomes(r, [Go(r, "open") EXCEPT !.before = Stat(i)])
     ELSE Refuse(r)

Open(r) ==
  /\ reader[r].at = "open"
  /\ LET i == At(reader[r].path) IN
     IF i = None THEN Refuse(r)
     ELSE /\ reader' = [reader EXCEPT ![r] = [Go(r, "stat") EXCEPT !.handle = i]]
          /\ held' = [held EXCEPT ![r] = {data[i]}]
          /\ UNCHANGED tree

(* readRegularJson does not compare the handle with the path.                *)
StatOpened(r) ==
  /\ reader[r].at = "stat"
  /\ LET now == Stat(reader[r].handle) IN
     IF IF reader[r].strict THEN SamePathFile(reader[r].before, now)
        ELSE Admits(r, reader[r].handle)
     THEN Becomes(r, [Go(r, "read") EXCEPT !.opened = now])
     ELSE Refuse(r)

(* The strict reader reads as many blocks as the file had when it was opened *)
(* and refuses an early end; the other one reads to the end, whatever the    *)
(* size was, and refuses what exceeds its limit.                             *)
ReadBlock(r) ==
  /\ reader[r].at = "read"
  /\ LET content == data[reader[r].handle]
         n == Len(reader[r].got)
         block == [reader[r] EXCEPT !.got = Append(@, content[n + 1])]
     IN IF reader[r].strict
        THEN IF n = reader[r].opened.size THEN Becomes(r, Go(r, "extra"))
             ELSE IF n < Len(content) THEN Becomes(r, block)
             ELSE Refuse(r)
        ELSE IF n >= Len(content) THEN Becomes(r, Go(r, "after"))
             ELSE IF n < reader[r].limit THEN Becomes(r, block)
             ELSE Refuse(r)

(* One more byte than expected: the file has grown.                          *)
ReadExtra(r) ==
  /\ reader[r].at = "extra"
  /\ IF Len(data[reader[r].handle]) > Len(reader[r].got) THEN Refuse(r)
     ELSE Becomes(r, Go(r, "after"))

StatAfter(r) ==
  /\ reader[r].at = "after"
  /\ LET now == Stat(reader[r].handle) IN
     IF reader[r].strict
     THEN IF SameOpenedFile(reader[r].opened, now)
          THEN Becomes(r, Go(r, "ancestorsAgain")) ELSE Refuse(r)
     ELSE IF Admits(r, reader[r].handle)
          THEN Becomes(r, Go(r, "inspectAgain")) ELSE Refuse(r)

AncestorsAgain(r) ==
  /\ reader[r].at = "ancestorsAgain"
  /\ IF folder = Linked \/ folder # reader[r].dirs THEN Refuse(r)
     ELSE Becomes(r, Go(r, "inspectAgain"))

(* The content is returned and the handle closed.                            *)
InspectAgain(r) ==
  /\ reader[r].at = "inspectAgain"
  /\ LET i == At(reader[r].path) IN
     IF /\ Regular(i)
        /\ IF reader[r].strict THEN SamePathFile(reader[r].opened, Stat(i))
           ELSE Admits(r, i) /\ SameIdentity(reader[r].before, Stat(i))
     THEN Becomes(r, [Go(r, "done") EXCEPT !.handle = None])
     ELSE Refuse(r)

ReadStep(r) ==
  \/ Ancestors(r) \/ Inspect(r) \/ Open(r) \/ StatOpened(r) \/ ReadBlock(r)
  \/ ReadExtra(r) \/ StatAfter(r) \/ AncestorsAgain(r) \/ InspectAgain(r)

(* An open file keeps its content when its name is gone, and is seen to      *)
(* change when others write to it.                                           *)
EditSeen ==
  /\ Edit(Opened)
  /\ held' = [r \in Readers |->
       IF reader[r].handle = None THEN held[r]
       ELSE held[r] \cup {data'[reader[r].handle]}]
  /\ UNCHANGED reader

-----------------------------------------------------------------------------
(* A read of projection evidence never mixes two contents: it returns what   *)
(* the file that the path led to had, as a whole, at one instant while it    *)
(* was open, whatever others did: in-place writes, restored times, reused    *)
(* inodes, swapped ancestors.  A read of a configuration file may return a   *)
(* mixture, but only of a file that was rewritten in place meanwhile.        *)
ReadIsAtomic ==
  \A r \in Readers :
    reader[r].at = "done" =>
      \/ reader[r].got \in held[r]
      \/ ~reader[r].strict /\ Cardinality(held[r]) > 1
=============================================================================
