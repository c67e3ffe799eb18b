------------------------------- MODULE FileTree -------------------------------
(***************************************************************************)
(* The files that the verifiers of projections and of implementations read  *)
(* by path, and the people and programs that change them meanwhile.  A path *)
(* is a name in the directory that its ancestors lead to; a file is an      *)
(* inode with a content, a link count and two timestamps, of which a writer *)
(* can keep the first (mtime) and no one can keep the second (ctime).  All  *)
(* of this is external to the program: it is what lstat, fstat, open and    *)
(* read answer.                                                             *)
(***************************************************************************)
EXTENDS Integers, Sequences, FiniteSets

CONSTANTS
  Paths,     \* names of the files that are read
  Folders,   \* directories that may stand where the ancestors lead
  Linked,    \* the one that is reached through a symbolic link, if any
  Inodes,
  Contents,  \* file contents: sequences of blocks
  MaxEdits,  \* bound on changes by others
  None       \* no inode

ASSUME FilesAssumption == None \notin Inodes /\ MaxEdits \in Nat
ASSUME ContentsAssumption == \A c \in Contents : c \in Seq({c[k] : k \in DOMAIN c})

VARIABLES
  folder,  \* the directory that the ancestors of the paths lead to
  entry,   \* entry[f][p]: the inode of name p in directory f, or None
  data,    \* content of each inode
  mtime,   \* its modification time, which tools may set back
  ctime,   \* its change time
  edits

tree == <<folder, entry, data, mtime, ctime, edits>>

(* Any checkout may be found; no file has changed in the future.             *)
TreeInit ==
  /\ folder \in Folders
  /\ entry \in [Folders -> [Paths -> Inodes \cup {None}]]
  /\ data \in [Inodes -> Contents]
  /\ edits \in Nat
  /\ mtime \in [Inodes -> Nat]
  /\ ctime \in [Inodes -> 0..edits]

(* A name that no directory has leads nowhere.                               *)
At(p) == IF p \in Paths THEN entry[folder][p] ELSE None
Links(i) == Cardinality({at \in Folders \X Paths : entry[at[1]][at[2]] = i})
Unused == {i \in Inodes : Links(i) = 0}
Now == edits + 1   \* no two changes have the same time

(* What lstat and fstat tell of an inode.  mode has no part of its own: a    *)
(* change of mode is a change of ctime.                                      *)
Stat(i) == [ino |-> i, size |-> Len(data[i]), mtime |-> mtime[i],
            ctime |-> ctime[i], nlink |-> Links(i)]

Changed(is) == ctime' = [i \in Inodes |-> IF i \in is THEN Now ELSE ctime[i]]
Edited == edits < MaxEdits /\ edits' = Now

(* A file is rewritten in place; its mtime is new, or set back at once.      *)
WriteInPlace(i) ==
  /\ Edited
  /\ Links(i) > 0
  /\ \E c \in Contents \ {data[i]} : data' = [data EXCEPT ![i] = c]
  /\ \E t \in {mtime[i], Now} : mtime' = [mtime EXCEPT ![i] = t]
  /\ Changed({i})
  /\ UNCHANGED <<folder, entry>>

(* Another file is renamed over the path, as an editor or a build does.  It  *)
(* takes an unused inode, also one that the path had before, and its mtime   *)
(* may be any that the tools preserved.  No inode is reused while it is open.*)
Replace(p, opened) ==
  /\ Edited
  /\ \E i \in Unused \ opened :
       /\ entry' = [entry EXCEPT ![folder][p] = i]
       /\ \E c \in Contents : data' = [data EXCEPT ![i] = c]
       /\ \E t \in {mtime[i], Now} : mtime' = [mtime EXCEPT ![i] = t]
       /\ Changed({i, At(p)} \ {None})
  /\ UNCHANGED folder

Remove(p) ==
  /\ Edited
  /\ At(p) # None
  /\ entry' = [entry EXCEPT ![folder][p] = None]
  /\ Changed({At(p)})
  /\ UNCHANGED <<folder, data, mtime>>

(* A second name for a file, or a file moved onto another name.              *)
Relink(p, q) ==
  /\ Edited
  /\ p # q /\ At(p) # None /\ At(q) # At(p)
  /\ entry' = [entry EXCEPT ![folder][q] = At(p)]
  /\ Changed({At(p), At(q)} \ {None})
  /\ UNCHANGED <<folder, data, mtime>>

(* An ancestor is renamed away and another directory takes its place.        *)
SwapFolder ==
  /\ Edited
  /\ \E f \in Folders \ {folder} : folder' = f
  /\ UNCHANGED <<entry, data, mtime, ctime>>

Edit(opened) ==
  \/ \E i \in Inodes : WriteInPlace(i)
  \/ \E p \in Paths : Replace(p, opened) \/ Remove(p)
  \/ \E p, q \in Paths : Relink(p, q)
  \/ SwapFolder
=============================================================================
