---------------------- MODULE ProjectionAdmissionProofs ----------------------
(***************************************************************************)
(* Reads by path, the admission of a projection manifest and the check of a *)
(* configuration file: what a read returns, what a passed receipt is about  *)
(* and what an admissible manifest leaves open, for any checkout, any edits *)
(* by others, any manifests and policies.                                   *)
(***************************************************************************)
EXTENDS ProjectionAdmission, ConfigInstance, FiniteSetTheorems, SequenceTheorems, TLAPS

-----------------------------------------------------------------------------
(* The checkout, whoever edits it.                                            *)

Blocks == UNION {{c[k] : k \in DOMAIN c} : c \in Contents}

LEMMA ContentsAreSequences == Contents \subseteq Seq(Blocks)
<1> SUFFICES ASSUME NEW c \in Contents PROVE c \in Seq(Blocks)
  OBVIOUS
<1>1. {c[k] : k \in DOMAIN c} \subseteq Blocks
  BY DEF Blocks
<1>2. c \in Seq({c[k] : k \in DOMAIN c})
  BY ContentsAssumption
<1> QED
  BY <1>1, <1>2, SeqMonotonic

(* A file whose content changes has a change time that nobody has seen.       *)
LEMMA EditIsDated ==
  ASSUME TreeInit, NEW opened, Edit(opened)
  PROVE  /\ TreeInit' /\ edits' = edits + 1
         /\ \A i \in Inodes : \/ data'[i] = data[i] /\ ctime[i] <= ctime'[i]
                              \/ ctime'[i] = edits + 1
<1> USE FilesAssumption
<1>1. edits' = edits + 1 /\ edits' \in Nat /\ (edits + 1) \in Nat
  <2>1. Edited
    BY Zenon DEF Edit, WriteInPlace, Replace, Remove, Relink, SwapFolder
  <2> QED
    BY <2>1 DEF Edited, Now, TreeInit
<1>2. ASSUME NEW is, Changed(is)
      PROVE  /\ ctime' \in [Inodes -> 0..edits']
             /\ \A i \in Inodes : ctime[i] <= ctime'[i]
             /\ \A i \in Inodes \cap is : ctime'[i] = edits + 1
  BY <1>1, <1>2 DEF Changed, Now, TreeInit
<1>3. ASSUME NEW i \in Inodes, WriteInPlace(i)
      PROVE  /\ TreeInit'
             /\ \A j \in Inodes : \/ data'[j] = data[j] /\ ctime[j] <= ctime'[j]
                                  \/ ctime'[j] = edits + 1
  <2>1. Changed({i})
    BY <1>3 DEF WriteInPlace
  <2> QED
    BY <1>1, <1>2, <1>3, <2>1 DEF WriteInPlace, TreeInit, Now
<1>4. ASSUME NEW p \in Paths, Replace(p, opened)
      PROVE  /\ TreeInit'
             /\ \A j \in Inodes : \/ data'[j] = data[j] /\ ctime[j] <= ctime'[j]
                                  \/ ctime'[j] = edits + 1
  <2>1. PICK i \in Unused \ opened :
          /\ entry' = [entry EXCEPT ![folder][p] = i]
          /\ \E c \in Contents : data' = [data EXCEPT ![i] = c]
          /\ \E t \in {mtime[i], Now} : mtime' = [mtime EXCEPT ![i] = t]
          /\ Changed({i, At(p)} \ {None})
    BY <1>4 DEF Replace
  <2>2. i \in Inodes
    BY <2>1 DEF Unused
  <2>3. UNCHANGED folder
    BY <1>4 DEF Replace
  <2> QED
    BY <1>1, <1>2, <2>1, <2>2, <2>3 DEF TreeInit, Now
<1>5. ASSUME NEW p \in Paths, Remove(p)
      PROVE  /\ TreeInit'
             /\ \A j \in Inodes : \/ data'[j] = data[j] /\ ctime[j] <= ctime'[j]
                                  \/ ctime'[j] = edits + 1
  <2>1. Changed({At(p)})
    BY <1>5 DEF Remove
  <2> QED
    BY <1>1, <1>2, <1>5, <2>1 DEF Remove, TreeInit
<1>6. ASSUME NEW p \in Paths, NEW q \in Paths, Relink(p, q)
      PROVE  /\ TreeInit'
             /\ \A j \in Inodes : \/ data'[j] = data[j] /\ ctime[j] <= ctime'[j]
                                  \/ ctime'[j] = edits + 1
  <2>1. Changed({At(p), At(q)} \ {None})
    BY <1>6 DEF Relink
  <2>2. At(p) \in Inodes
    BY <1>6 DEF Relink, At, TreeInit
  <2> QED
    BY <1>1, <1>2, <1>6, <2>1, <2>2 DEF Relink, TreeInit
<1>7. ASSUME SwapFolder
      PROVE  /\ TreeInit'
             /\ \A j \in Inodes : \/ data'[j] = data[j] /\ ctime[j] <= ctime'[j]
                                  \/ ctime'[j] = edits + 1
  BY <1>1, <1>7 DEF SwapFolder, TreeInit
<1> QED
  BY <1>1, <1>3, <1>4, <1>5, <1>6, <1>7 DEF Edit

-----------------------------------------------------------------------------
(* One read.  What is known of the handle while it is open, of the content    *)
(* read so far and of the contents that the file has had.                     *)

Holding == {"stat", "read", "extra", "after", "ancestorsAgain", "inspectAgain"}
Before == {"idle", "ancestors", "inspect", "open", "stat", "refused"}

Prefix(s, c) == Len(s) <= Len(c) /\ \A k \in 1..Len(s) : s[k] = c[k]

ReadFields == DOMAIN Idle
Shaped(s) == s = [f \in ReadFields |-> s[f]]

ReaderTyped(r) ==
  /\ Shaped(reader[r])
  /\ reader[r].at \in Steps
  /\ reader[r].got \in Seq(Blocks)
  /\ reader[r].at \in Before => reader[r].got = <<>>
  /\ held[r] \subseteq Contents /\ IsFiniteSet(held[r])
  /\ IF reader[r].at \in Holding
     THEN reader[r].handle \in Inodes /\ data[reader[r].handle] \in held[r]
     ELSE reader[r].handle = None

(* The strict reader: as long as the change time is what it was when the file *)
(* was opened, so is the content.                                             *)
Unchanged(r) ==
  LET h == reader[r].handle  s == reader[r].opened IN
  /\ s.ctime \in Nat /\ s.ctime <= ctime[h]
  /\ ctime[h] = s.ctime => s.size = Len(data[h]) /\ Prefix(reader[r].got, data[h])
StrictInvariant(r) ==
  /\ reader[r].at \in {"read", "extra", "after"} => Unchanged(r)
  /\ reader[r].at \in {"extra", "after"} => Len(reader[r].got) = reader[r].opened.size
  /\ reader[r].at \in {"ancestorsAgain", "inspectAgain", "done"} => reader[r].got \in held[r]

(* The other one: as long as the file has had one content, that is what was   *)
(* read.                                                                      *)
Mixed(r) == Cardinality(held[r]) > 1
LooseInvariant(r) ==
  /\ reader[r].at \in {"stat", "read"} =>
       (held[r] = {data[reader[r].handle]} => Prefix(reader[r].got, data[reader[r].handle]))
  /\ reader[r].at \in {"extra", "after", "ancestorsAgain", "inspectAgain", "done"} =>
       reader[r].got \in held[r] \/ Mixed(r)

ReadInvariant(r) ==
  /\ ReaderTyped(r)
  /\ IF reader[r].strict THEN StrictInvariant(r) ELSE LooseInvariant(r)
ReadersInvariant == /\ TreeInit
                    /\ reader = [r \in Readers |-> reader[r]] /\ held = [r \in Readers |-> held[r]]
                    /\ \A r \in Readers : ReadInvariant(r)

LEMMA PrefixIsAll ==
  ASSUME NEW s \in Seq(Blocks), NEW c \in Seq(Blocks), Prefix(s, c), Len(s) = Len(c)
  PROVE  s = c
BY SeqEqual DEF Prefix

LEMMA PrefixGrows ==
  ASSUME NEW s \in Seq(Blocks), NEW c \in Seq(Blocks), Prefix(s, c), Len(s) < Len(c)
  PROVE  Append(s, c[Len(s) + 1]) \in Seq(Blocks) /\ Prefix(Append(s, c[Len(s) + 1]), c)
<1>1. c[Len(s) + 1] \in Blocks
  BY LenProperties, ElementOfSeq
<1> QED
  BY <1>1, AppendProperties DEF Prefix

(* Two contents make a mixture.                                               *)
LEMMA TwoAreMixed ==
  ASSUME NEW S, IsFiniteSet(S), NEW x \in S, S # {x}
  PROVE  Cardinality(S) > 1
<1>1. PICK y \in S : y # x
  OBVIOUS
<1>2. Cardinality({x, y}) = 2
  <2>1. IsFiniteSet({x}) /\ Cardinality({x}) = 1
    BY FS_Singleton
  <2>2. {x, y} = {x} \cup {y} /\ y \notin {x}
    BY <1>1
  <2>3. Cardinality({x} \cup {y}) = Cardinality({x}) + 1
    BY <2>1, <2>2, FS_AddElement
  <2> QED
    BY <2>1, <2>2, <2>3
<1>3. Cardinality({x, y}) <= Cardinality(S)
  BY <1>1, FS_Subset
<1> QED
  BY <1>2, <1>3, FS_CardinalityType

LEMMA NothingRead == <<>> \in Seq(Blocks)
BY EmptySeq

(* Setting a field leaves the others.                                         *)
LEMMA Fielded ==
  ASSUME NEW s, Shaped(s), NEW f \in ReadFields, NEW v
  PROVE  /\ Shaped([s EXCEPT ![f] = v]) /\ [s EXCEPT ![f] = v][f] = v
         /\ \A g \in ReadFields \ {f} : [s EXCEPT ![f] = v][g] = s[g]
BY DEF Shaped

LEMMA Became ==
  ASSUME ReadersInvariant, NEW r \in Readers, NEW s, Becomes(r, s)
  PROVE  /\ UNCHANGED tree /\ reader'[r] = s /\ held'[r] = held[r]
BY DEF Becomes, ReadersInvariant

(* A refusal returns nothing.                                                 *)
LEMMA RefuseKeeps ==
  ASSUME ReadersInvariant, NEW r \in Readers, Refuse(r)
  PROVE  ReadInvariant(r)'
<1>1. UNCHANGED tree /\ reader'[r] = Refusal(r) /\ held'[r] = held[r]
  BY Became DEF Refuse
<1>2. ReaderTyped(r)
  BY Zenon DEF ReadersInvariant, ReadInvariant
<1>3. /\ reader'[r].at = "refused" /\ reader'[r].got = <<>> /\ Shaped(reader'[r])
      /\ reader'[r].handle = None
  BY <1>1 DEF Refusal, Idle, Shaped, ReadFields
<1>4. reader'[r].strict = TRUE
  BY <1>1, Zenon DEF Refusal, Idle
<1>5. ReaderTyped(r)'
  BY <1>1, <1>2, <1>3, NothingRead DEF ReaderTyped, Steps, Before, Holding
<1>6. StrictInvariant(r)' /\ LooseInvariant(r)'
  BY <1>3 DEF StrictInvariant, LooseInvariant
<1> QED
  BY <1>5, <1>6, Zenon DEF ReadInvariant

(* Until the file is open there is nothing to know.                           *)
LEMMA AncestorsKeeps ==
  ASSUME ReadersInvariant, NEW r \in Readers, Ancestors(r) \/ Inspect(r)
  PROVE  ReadInvariant(r)'
<1>1. ReaderTyped(r)
  BY Zenon DEF ReadersInvariant, ReadInvariant
<1>2. ASSUME NEW s, Becomes(r, s), Shaped(s), s.at \in {"inspect", "open"}, s.got = <<>>, s.handle = None
      PROVE  ReadInvariant(r)'
  <2>1. UNCHANGED tree /\ reader'[r] = s /\ held'[r] = held[r]
    BY <1>2, Became
  <2>2. ReaderTyped(r)'
    BY <1>1, <1>2, <2>1, NothingRead DEF ReaderTyped, Steps, Before, Holding
  <2>3. StrictInvariant(r)' /\ LooseInvariant(r)'
    BY <1>2, <2>1 DEF StrictInvariant, LooseInvariant
  <2> QED
    BY <2>2, <2>3, Zenon DEF ReadInvariant
<1>3. ASSUME reader[r].at \in {"ancestors", "inspect"}, NEW to \in {"inspect", "open"}, NEW d, NEW b
      PROVE  /\ Shaped([Go(r, to) EXCEPT !.dirs = d]) /\ Shaped([Go(r, to) EXCEPT !.before = b])
             /\ [Go(r, to) EXCEPT !.dirs = d].at = to /\ [Go(r, to) EXCEPT !.before = b].at = to
             /\ [Go(r, to) EXCEPT !.dirs = d].got = <<>> /\ [Go(r, to) EXCEPT !.before = b].got = <<>>
             /\ [Go(r, to) EXCEPT !.dirs = d].handle = None
             /\ [Go(r, to) EXCEPT !.before = b].handle = None
  BY <1>1, <1>3 DEF ReaderTyped, Shaped, Before, Holding, Go, ReadFields, Idle
<1>4. CASE Ancestors(r)
  <2>1. reader[r].at = "ancestors"
    BY <1>4 DEF Ancestors
  <2>2. Refuse(r) \/ Becomes(r, [Go(r, "inspect") EXCEPT !.dirs = folder])
    BY <1>4, Zenon DEF Ancestors
  <2>3. ASSUME Becomes(r, [Go(r, "inspect") EXCEPT !.dirs = folder]) PROVE ReadInvariant(r)'
    BY <1>2, <1>3, <2>1, <2>3
  <2> QED
    BY <2>2, <2>3, RefuseKeeps
<1>5. CASE Inspect(r)
  <2>1. reader[r].at = "inspect"
    BY <1>5 DEF Inspect
  <2>2. Refuse(r) \/ \E b : Becomes(r, [Go(r, "open") EXCEPT !.before = b])
    BY <1>5, Zenon DEF Inspect
  <2>3. ASSUME NEW b, Becomes(r, [Go(r, "open") EXCEPT !.before = b]) PROVE ReadInvariant(r)'
    BY <1>2, <1>3, <2>1, <2>3
  <2> QED
    BY <2>2, <2>3, RefuseKeeps
<1> QED
  BY <1>4, <1>5

LEMMA OpenKeeps ==
  ASSUME ReadersInvariant, NEW r \in Readers, Open(r)
  PROVE  ReadInvariant(r)'
<1> DEFINE i == At(reader[r].path)
<1>1. ReaderTyped(r) /\ TreeInit
  BY Zenon DEF ReadersInvariant, ReadInvariant
<1>2. reader[r].at = "open" /\ reader[r].got = <<>>
  BY <1>1 DEF Open, ReaderTyped, Before
<1>3. CASE Refuse(r)
  BY <1>3, RefuseKeeps
<1>4. CASE ~Refuse(r)
  <2>1. /\ i # None /\ UNCHANGED tree
        /\ reader' = [reader EXCEPT ![r] = [Go(r, "stat") EXCEPT !.handle = i]]
        /\ held' = [held EXCEPT ![r] = {data[i]}]
    BY <1>4, Zenon DEF Open
  <2>2. reader'[r] = [Go(r, "stat") EXCEPT !.handle = i] /\ held'[r] = {data[i]}
    BY <2>1 DEF ReadersInvariant
  <2>3. /\ Shaped(reader'[r]) /\ reader'[r].at = "stat" /\ reader'[r].got = <<>>
        /\ reader'[r].handle = i
    <3>1. Shaped(reader[r])
      BY <1>1 DEF ReaderTyped
    <3> QED
      BY <1>2, <2>2, <3>1 DEF Shaped, Go, ReadFields, Idle
  <2>4. i \in Inodes /\ data[i] \in Contents
    BY <1>1, <2>1 DEF At, TreeInit
  <2>5. ReaderTyped(r)'
    BY <2>1, <2>2, <2>3, <2>4, NothingRead, FS_Singleton, ZenonT(60) DEF ReaderTyped, Steps, Before, Holding, tree
  <2>6. StrictInvariant(r)'
    BY <2>3 DEF StrictInvariant
  <2>7. LooseInvariant(r)'
    <3>1. Len(data[i]) \in Nat
      BY <2>4, ContentsAreSequences, LenProperties
    <3>2. Prefix(<<>>, data[i])
      BY <3>1 DEF Prefix
    <3> QED
      BY <2>1, <2>3, <3>2 DEF LooseInvariant, tree
  <2> QED
    BY <2>5, <2>6, <2>7, Zenon DEF ReadInvariant
<1> QED
  BY <1>3, <1>4

(* What is known of the file stays so while nobody else does anything.        *)
LEMMA StatKeeps ==
  ASSUME ReadersInvariant, NEW r \in Readers, StatOpened(r)
  PROVE  ReadInvariant(r)'
<1> DEFINE h == reader[r].handle
           now == Stat(h)
<1>1. ReaderTyped(r) /\ TreeInit /\ reader[r].at = "stat"
  BY Zenon DEF ReadersInvariant, ReadInvariant, StatOpened
<1>2. /\ Shaped(reader[r]) /\ reader[r].got = <<>>
      /\ h \in Inodes /\ data[h] \in held[r] /\ data[h] \in Contents
      /\ held[r] \subseteq Contents /\ IsFiniteSet(held[r])
  BY <1>1 DEF ReaderTyped, Before, Holding
<1>3. CASE Refuse(r)
  BY <1>3, RefuseKeeps
<1>4. CASE Becomes(r, [Go(r, "read") EXCEPT !.opened = now])
  <2>1. UNCHANGED tree /\ reader'[r] = [Go(r, "read") EXCEPT !.opened = now] /\ held'[r] = held[r]
    BY <1>4, Became
  <2>2. /\ Shaped(reader'[r]) /\ reader'[r].at = "read" /\ reader'[r].got = <<>>
        /\ reader'[r].handle = h /\ reader'[r].opened = now
    BY <1>2, <2>1 DEF Shaped, Go, ReadFields, Idle
  <2>3. ReaderTyped(r)'
    BY <1>2, <2>1, <2>2, NothingRead DEF ReaderTyped, Steps, Before, Holding, tree
  <2>4. Len(data[h]) \in Nat /\ Prefix(<<>>, data[h])
    BY <1>2, ContentsAreSequences, LenProperties DEF Prefix
  <2>5. now.ctime = ctime[h] /\ now.size = Len(data[h]) /\ ctime[h] \in Nat
    BY <1>1, <1>2 DEF Stat, TreeInit
  <2>6. StrictInvariant(r)'
    BY <2>1, <2>2, <2>4, <2>5 DEF StrictInvariant, Unchanged, tree
  <2>7. LooseInvariant(r)'
    BY <2>1, <2>2, <2>4 DEF LooseInvariant, tree
  <2> QED
    BY <2>3, <2>6, <2>7, Zenon DEF ReadInvariant
<1> QED
  BY <1>3, <1>4, Zenon DEF StatOpened

(* A step that reads nothing.                                                 *)
LEMMA GoesOn ==
  ASSUME ReadersInvariant, NEW r \in Readers,
         reader[r].at \in Holding, NEW to \in Holding \ {"stat"}, Becomes(r, Go(r, to))
  PROVE  /\ UNCHANGED tree /\ held'[r] = held[r] /\ ReaderTyped(r)'
         /\ reader'[r].at = to /\ reader'[r].handle = reader[r].handle
         /\ reader'[r].opened = reader[r].opened /\ reader'[r].got = reader[r].got
         /\ reader'[r].strict = reader[r].strict
<1>1. ReaderTyped(r)
  BY Zenon DEF ReadersInvariant, ReadInvariant
<1>2. UNCHANGED tree /\ reader'[r] = Go(r, to) /\ held'[r] = held[r]
  BY Became
<1>3. Shaped(reader[r])
  BY <1>1 DEF ReaderTyped
<1>4. /\ Shaped(reader'[r])
      /\ reader'[r].at = to /\ reader'[r].handle = reader[r].handle
      /\ reader'[r].opened = reader[r].opened /\ reader'[r].got = reader[r].got
      /\ reader'[r].strict = reader[r].strict
  BY <1>2, <1>3 DEF Shaped, Go, ReadFields, Idle
<1>5. ReaderTyped(r)'
  BY <1>1, <1>2, <1>4 DEF ReaderTyped, Steps, Before, Holding, tree
<1> QED
  BY <1>2, <1>4, <1>5

LEMMA ExtraKeeps ==
  ASSUME ReadersInvariant, NEW r \in Readers, ReadExtra(r)
  PROVE  ReadInvariant(r)'
<1>1. reader[r].at = "extra" /\ (Refuse(r) \/ Becomes(r, Go(r, "after")))
  BY Zenon DEF ReadExtra
<1>2. ASSUME Becomes(r, Go(r, "after")) PROVE ReadInvariant(r)'
  <2>1. /\ UNCHANGED tree /\ held'[r] = held[r] /\ ReaderTyped(r)'
        /\ reader'[r].at = "after" /\ reader'[r].handle = reader[r].handle
        /\ reader'[r].opened = reader[r].opened /\ reader'[r].got = reader[r].got
        /\ reader'[r].strict = reader[r].strict
    BY <1>1, <1>2, GoesOn DEF Holding
  <2>2. StrictInvariant(r) => StrictInvariant(r)'
    BY <1>1, <2>1 DEF StrictInvariant, Unchanged, tree
  <2>3. LooseInvariant(r) => LooseInvariant(r)'
    BY <1>1, <2>1 DEF LooseInvariant, Mixed
  <2> QED
    BY <2>1, <2>2, <2>3, Zenon DEF ReadInvariant, ReadersInvariant
<1> QED
  BY <1>1, <1>2, RefuseKeeps

LEMMA BlockKeeps ==
  ASSUME ReadersInvariant, NEW r \in Readers, ReadBlock(r)
  PROVE  ReadInvariant(r)'
<1> DEFINE h == reader[r].handle
           content == data[h]
           n == Len(reader[r].got)
           block == [reader[r] EXCEPT !.got = Append(reader[r].got, content[n + 1])]
<1>1. reader[r].at = "read" /\ ReadInvariant(r) /\ ReaderTyped(r)
  BY Zenon DEF ReadBlock, ReadersInvariant, ReadInvariant
<1>2. /\ Shaped(reader[r]) /\ reader[r].got \in Seq(Blocks)
      /\ h \in Inodes /\ content \in held[r] /\ content \in Seq(Blocks)
      /\ held[r] \subseteq Contents /\ IsFiniteSet(held[r])
  BY <1>1, ContentsAreSequences DEF ReaderTyped, Holding
<1>3. n \in Nat /\ Len(content) \in Nat
  BY <1>2, LenProperties
<1>4. CASE Refuse(r)
  BY <1>4, RefuseKeeps
(* The end, as the strict reader or the other one sees it.                    *)
<1>5. ASSUME reader[r].strict, n = reader[r].opened.size, Becomes(r, Go(r, "extra"))
      PROVE  ReadInvariant(r)'
  <2>1. /\ UNCHANGED tree /\ held'[r] = held[r] /\ ReaderTyped(r)'
        /\ reader'[r].at = "extra" /\ reader'[r].handle = h
        /\ reader'[r].opened = reader[r].opened /\ reader'[r].got = reader[r].got
        /\ reader'[r].strict = reader[r].strict
    BY <1>1, <1>5, GoesOn DEF Holding
  <2>2. StrictInvariant(r)
    BY <1>1, <1>5, Zenon DEF ReadInvariant
  <2>3. n = reader[r].opened.size
    BY <1>5
  <2>4. StrictInvariant(r)'
    BY <1>1, <2>1, <2>2, <2>3 DEF StrictInvariant, Unchanged, tree
  <2> QED
    BY <1>5, <2>1, <2>4, Zenon DEF ReadInvariant
<1>6. ASSUME ~reader[r].strict, n >= Len(content), Becomes(r, Go(r, "after"))
      PROVE  ReadInvariant(r)'
  <2>1. /\ UNCHANGED tree /\ held'[r] = held[r] /\ ReaderTyped(r)'
        /\ reader'[r].at = "after" /\ reader'[r].got = reader[r].got
        /\ reader'[r].strict = reader[r].strict
    BY <1>1, <1>6, GoesOn DEF Holding
  <2>2. LooseInvariant(r)
    BY <1>1, <1>6, Zenon DEF ReadInvariant
  <2>3. n >= Len(content)
    BY <1>6
  <2>4. held[r] = {content} => reader[r].got = content
    <3>1. held[r] = {content} => Prefix(reader[r].got, content)
      BY <1>1, <2>2 DEF LooseInvariant
    <3> QED
      BY <1>2, <1>3, <2>3, <3>1, PrefixIsAll DEF Prefix
  <2>5. held[r] # {content} => Mixed(r)
    BY <1>2, TwoAreMixed DEF Mixed
  <2>6. LooseInvariant(r)'
    BY <1>2, <2>1, <2>4, <2>5 DEF LooseInvariant, Mixed
  <2> QED
    BY <1>6, <2>1, <2>6, Zenon DEF ReadInvariant
(* One more block of what the file has now.                                   *)
<1>7. ASSUME n < Len(content), Becomes(r, block)
      PROVE  ReadInvariant(r)'
  <2>1. UNCHANGED tree /\ reader'[r] = block /\ held'[r] = held[r]
    BY <1>7, Became
  <2>2. /\ Shaped(reader'[r]) /\ reader'[r].at = "read" /\ reader'[r].handle = h
        /\ reader'[r].opened = reader[r].opened
        /\ reader'[r].got = Append(reader[r].got, content[n + 1])
        /\ reader'[r].strict = reader[r].strict
    BY <1>1, <1>2, <2>1 DEF Shaped, ReadFields, Idle
  <2>3. n < Len(content)
    BY <1>7
  <2>4. reader'[r].got \in Seq(Blocks)
    BY <1>2, <1>3, <2>2, <2>3, ElementOfSeq, LenProperties, AppendProperties
  <2>5. Prefix(reader[r].got, content) => Prefix(reader'[r].got, content)
    BY <1>2, <2>2, <2>3, PrefixGrows
  <2>6. ReaderTyped(r)'
    BY <1>2, <2>1, <2>2, <2>4 DEF ReaderTyped, Steps, Before, Holding, tree
  <2>7. StrictInvariant(r) => StrictInvariant(r)'
    BY <1>1, <2>1, <2>2, <2>5 DEF StrictInvariant, Unchanged, tree
  <2>8. LooseInvariant(r) => LooseInvariant(r)'
    BY <1>1, <2>1, <2>2, <2>5 DEF LooseInvariant, tree
  <2> QED
    BY <1>1, <2>2, <2>6, <2>7, <2>8, Zenon DEF ReadInvariant
<1>8. \/ Refuse(r)
      \/ reader[r].strict /\ n = reader[r].opened.size /\ Becomes(r, Go(r, "extra"))
      \/ ~reader[r].strict /\ n >= Len(content) /\ Becomes(r, Go(r, "after"))
      \/ n < Len(content) /\ Becomes(r, block)
  <2>1. CASE reader[r].strict
    BY <2>1, Zenon DEF ReadBlock
  <2>2. CASE ~reader[r].strict
    <3>1. IF n >= Len(content) THEN Becomes(r, Go(r, "after"))
          ELSE Becomes(r, block) \/ Refuse(r)
      BY <2>2, Zenon DEF ReadBlock
    <3>2. n >= Len(content) \/ n < Len(content)
      BY <1>3
    <3> QED
      BY <2>2, <3>1, <3>2, Zenon
  <2> QED
    BY <2>1, <2>2
<1> HIDE DEF h, content, n, block
<1> QED
  BY <1>4, <1>5, <1>6, <1>7, <1>8, Zenon

LEMMA AfterKeeps ==
  ASSUME ReadersInvariant, NEW r \in Readers, StatAfter(r)
  PROVE  ReadInvariant(r)'
<1> DEFINE h == reader[r].handle
<1>1. reader[r].at = "after" /\ ReadInvariant(r) /\ ReaderTyped(r)
  BY Zenon DEF StatAfter, ReadersInvariant, ReadInvariant
<1>2. /\ reader[r].got \in Seq(Blocks) /\ h \in Inodes
      /\ data[h] \in held[r] /\ data[h] \in Seq(Blocks)
  BY <1>1, ContentsAreSequences DEF ReaderTyped, Holding
<1>3. CASE Refuse(r)
  BY <1>3, RefuseKeeps
(* The change time is that of the open file: so is the whole content.         *)
<1>4. ASSUME reader[r].strict, SameOpenedFile(reader[r].opened, Stat(h)),
             Becomes(r, Go(r, "ancestorsAgain"))
      PROVE  ReadInvariant(r)'
  <2>1. /\ held'[r] = held[r] /\ ReaderTyped(r)'
        /\ reader'[r].at = "ancestorsAgain" /\ reader'[r].got = reader[r].got
        /\ reader'[r].strict = reader[r].strict
    BY <1>1, <1>4, GoesOn DEF Holding
  <2>2. StrictInvariant(r)
    BY <1>1, <1>4, Zenon DEF ReadInvariant
  <2>3. reader[r].opened.ctime = ctime[h]
    BY <1>4 DEF SameOpenedFile, Stat
  <2>4. Prefix(reader[r].got, data[h]) /\ Len(reader[r].got) = Len(data[h])
    BY <1>1, <2>2, <2>3 DEF StrictInvariant, Unchanged
  <2>5. reader[r].got = data[h]
    BY <1>2, <2>4, PrefixIsAll
  <2>6. StrictInvariant(r)'
    BY <1>2, <2>1, <2>5 DEF StrictInvariant
  <2> QED
    BY <1>4, <2>1, <2>6, Zenon DEF ReadInvariant
<1>5. ASSUME ~reader[r].strict, Becomes(r, Go(r, "inspectAgain"))
      PROVE  ReadInvariant(r)'
  <2>1. /\ held'[r] = held[r] /\ ReaderTyped(r)'
        /\ reader'[r].at = "inspectAgain" /\ reader'[r].got = reader[r].got
        /\ reader'[r].strict = reader[r].strict
    BY <1>1, <1>5, GoesOn DEF Holding
  <2>2. LooseInvariant(r)
    BY <1>1, <1>5, Zenon DEF ReadInvariant
  <2>3. LooseInvariant(r)'
    BY <1>1, <2>1, <2>2 DEF LooseInvariant, Mixed
  <2> QED
    BY <1>5, <2>1, <2>3, Zenon DEF ReadInvariant
<1> QED
  BY <1>3, <1>4, <1>5, Zenon DEF StatAfter

LEMMA AgainKeeps ==
  ASSUME ReadersInvariant, NEW r \in Readers, AncestorsAgain(r) \/ InspectAgain(r)
  PROVE  ReadInvariant(r)'
<1>1. ReadInvariant(r) /\ ReaderTyped(r)
  BY Zenon DEF ReadersInvariant, ReadInvariant
<1>2. CASE Refuse(r)
  BY <1>2, RefuseKeeps
<1>3. ASSUME reader[r].at = "ancestorsAgain", Becomes(r, Go(r, "inspectAgain"))
      PROVE  ReadInvariant(r)'
  <2>1. /\ held'[r] = held[r] /\ ReaderTyped(r)'
        /\ reader'[r].at = "inspectAgain" /\ reader'[r].got = reader[r].got
        /\ reader'[r].strict = reader[r].strict
    BY <1>3, GoesOn DEF Holding
  <2>2. StrictInvariant(r) => StrictInvariant(r)'
    BY <1>3, <2>1 DEF StrictInvariant
  <2>3. LooseInvariant(r) => LooseInvariant(r)'
    BY <1>3, <2>1 DEF LooseInvariant, Mixed
  <2> QED
    BY <1>1, <2>1, <2>2, <2>3, Zenon DEF ReadInvariant
<1>4. ASSUME reader[r].at = "inspectAgain", Becomes(r, [Go(r, "done") EXCEPT !.handle = None])
      PROVE  ReadInvariant(r)'
  <2>1. reader'[r] = [Go(r, "done") EXCEPT !.handle = None] /\ held'[r] = held[r]
    BY <1>4, Became
  <2>2. Shaped(reader[r])
    BY <1>1 DEF ReaderTyped
  <2>3. /\ Shaped(reader'[r]) /\ reader'[r].at = "done" /\ reader'[r].got = reader[r].got
        /\ reader'[r].strict = reader[r].strict /\ reader'[r].handle = None
    BY <2>1, <2>2 DEF Shaped, Go, ReadFields, Idle
  <2>4. ReaderTyped(r)'
    BY <1>1, <2>1, <2>3 DEF ReaderTyped, Steps, Before, Holding
  <2>5. StrictInvariant(r) => StrictInvariant(r)'
    BY <1>4, <2>1, <2>3 DEF StrictInvariant
  <2>6. LooseInvariant(r) => LooseInvariant(r)'
    BY <1>4, <2>1, <2>3 DEF LooseInvariant, Mixed
  <2> QED
    BY <1>1, <2>3, <2>4, <2>5, <2>6, Zenon DEF ReadInvariant
<1> QED
  BY <1>2, <1>3, <1>4, Zenon DEF AncestorsAgain, InspectAgain

(* Other reads do not notice.                                                 *)
LEMMA ReadStepKeeps ==
  ASSUME ReadersInvariant, NEW r \in Readers, ReadStep(r)
  PROVE  ReadersInvariant'
<1>1. ReadInvariant(r)'
  BY AncestorsKeeps, OpenKeeps, StatKeeps, BlockKeeps, ExtraKeeps, AfterKeeps, AgainKeeps, Zenon
     DEF ReadStep
<1>2. /\ UNCHANGED tree
      /\ \E s : reader' = [reader EXCEPT ![r] = s]
      /\ held' = held \/ \E c : held' = [held EXCEPT ![r] = c]
  BY Zenon DEF ReadStep, Ancestors, Inspect, Open, StatOpened, ReadBlock, ReadExtra, StatAfter,
       AncestorsAgain, InspectAgain, Refuse, Becomes
<1>3. /\ reader' = [o \in Readers |-> reader'[o]] /\ held' = [o \in Readers |-> held'[o]]
      /\ \A o \in Readers \ {r} : reader'[o] = reader[o] /\ held'[o] = held[o]
  BY <1>2 DEF ReadersInvariant
<1>4. ASSUME NEW o \in Readers \ {r} PROVE ReadInvariant(o)'
  <2>1. reader'[o] = reader[o] /\ held'[o] = held[o] /\ data' = data /\ ctime' = ctime
    BY <1>2, <1>3, Zenon DEF tree
  <2>2. ReaderTyped(o) => ReaderTyped(o)'
    BY <2>1 DEF ReaderTyped
  <2>3. StrictInvariant(o) => StrictInvariant(o)'
    BY <2>1 DEF StrictInvariant, Unchanged
  <2>4. LooseInvariant(o) => LooseInvariant(o)'
    BY <2>1 DEF LooseInvariant, Mixed
  <2> QED
    BY <2>1, <2>2, <2>3, <2>4, Zenon DEF ReadInvariant, ReadersInvariant
<1>5. TreeInit'
  BY <1>2 DEF ReadersInvariant, TreeInit, tree
<1> QED
  BY <1>1, <1>3, <1>4, <1>5 DEF ReadersInvariant

(* Neither does one whose file others edit: its change time tells.            *)
LEMMA EditKeeps ==
  ASSUME ReadersInvariant, EditSeen
  PROVE  ReadersInvariant'
<1>1. /\ TreeInit' /\ edits' = edits + 1
      /\ \A i \in Inodes : \/ data'[i] = data[i] /\ ctime[i] <= ctime'[i]
                           \/ ctime'[i] = edits + 1
  BY EditIsDated DEF EditSeen, ReadersInvariant
<1>2. ASSUME NEW r \in Readers PROVE ReadInvariant(r)'
  <2> DEFINE h == reader[r].handle
  <2>1. ReadInvariant(r) /\ ReaderTyped(r) /\ TreeInit
    BY <1>2, Zenon DEF ReadersInvariant, ReadInvariant
  <2>2. /\ reader' = reader
        /\ held'[r] = IF h = None THEN held[r] ELSE held[r] \cup {data'[h]}
    BY DEF EditSeen
  <2>3. CASE reader[r].at \in Holding
    <3>1. h \in Inodes /\ h # None
      BY <2>1, <2>3, FilesAssumption DEF ReaderTyped
    <3>2. held'[r] = held[r] \cup {data'[h]} /\ data'[h] \in Contents /\ IsFiniteSet(held[r])
      BY <1>1, <2>1, <2>2, <3>1 DEF TreeInit, ReaderTyped
    <3>3. IsFiniteSet(held'[r])
      BY <3>2, FS_AddElement
    <3>4. ReaderTyped(r)'
      BY <2>1, <2>2, <3>1, <3>2, <3>3 DEF ReaderTyped
    <3>5. StrictInvariant(r) => StrictInvariant(r)'
      <4>1. Unchanged(r) => Unchanged(r)'
        <5>1. ctime[h] \in 0..edits /\ edits \in Nat
          BY <2>1, <3>1 DEF TreeInit
        <5>2. (data'[h] = data[h] /\ ctime[h] <= ctime'[h]) \/ ctime'[h] = edits + 1
          BY <1>1, <3>1
        <5>3. ctime'[h] \in Nat /\ ctime[h] <= ctime'[h]
          BY <1>1, <3>1, <5>1, <5>2 DEF TreeInit
        <5>4. ctime'[h] = ctime[h] => data'[h] = data[h]
          BY <5>1, <5>2
        <5>5. ASSUME Unchanged(r), ctime'[h] = reader[r].opened.ctime
              PROVE  ctime[h] = reader[r].opened.ctime /\ data'[h] = data[h]
          BY <5>1, <5>3, <5>4, <5>5 DEF Unchanged
        <5> QED
          BY <2>2, <5>1, <5>3, <5>5 DEF Unchanged
      <4> QED
        BY <2>2, <3>2, <4>1 DEF StrictInvariant
    <3>6. LooseInvariant(r) => LooseInvariant(r)'
      <4>1. Mixed(r) => Mixed(r)'
        <5>1. Cardinality(held[r]) <= Cardinality(held'[r])
          BY <3>2, <3>3, FS_Subset
        <5>2. Cardinality(held[r]) \in Nat /\ Cardinality(held'[r]) \in Nat
          BY <3>2, <3>3, FS_CardinalityType
        <5> QED
          BY <5>1, <5>2 DEF Mixed
      <4>2. reader[r].at \in {"stat", "read"} /\ held'[r] = {data'[h]} =>
              held[r] = {data[h]} /\ data'[h] = data[h]
        BY <2>1, <3>2 DEF ReaderTyped, Holding
      <4> QED
        BY <2>2, <3>2, <4>1, <4>2 DEF LooseInvariant
    <3> QED
      BY <2>1, <2>2, <3>4, <3>5, <3>6, Zenon DEF ReadInvariant
  <2>4. CASE reader[r].at \notin Holding
    <3>1. held'[r] = held[r]
      BY <2>1, <2>2, <2>4 DEF ReaderTyped
    <3>2. ReaderTyped(r)'
      BY <2>1, <2>2, <2>4, <3>1 DEF ReaderTyped
    <3>3. StrictInvariant(r) => StrictInvariant(r)'
      BY <2>2, <2>4, <3>1 DEF StrictInvariant, Holding
    <3>4. LooseInvariant(r) => LooseInvariant(r)'
      BY <2>2, <2>4, <3>1 DEF LooseInvariant, Mixed, Holding
    <3> QED
      BY <2>1, <2>2, <3>2, <3>3, <3>4, Zenon DEF ReadInvariant
  <2> QED
    BY <2>3, <2>4
<1> QED
  BY <1>1, <1>2 DEF ReadersInvariant, EditSeen

(* A client starts a read, takes what it returned, or does something else.    *)
Fresh(s) == /\ Shaped(s) /\ s.at \in {"idle", "ancestors", "inspect"}
            /\ s.got = <<>> /\ s.handle = None
ClientStep ==
  /\ TreeInit' /\ data' = data /\ ctime' = ctime
  /\ reader' = [r \in Readers |-> reader'[r]] /\ held' = [r \in Readers |-> held'[r]]
  /\ \A r \in Readers : \/ reader'[r] = reader[r] /\ held'[r] = held[r]
                        \/ Fresh(reader'[r]) /\ held'[r] \in {held[r], {}}

LEMMA ClientKeeps ==
  ASSUME ReadersInvariant, ClientStep
  PROVE  ReadersInvariant'
<1>1. ASSUME NEW r \in Readers, reader'[r] = reader[r] /\ held'[r] = held[r]
      PROVE  ReadInvariant(r)'
  <2>1. data' = data /\ ctime' = ctime
    BY DEF ClientStep
  <2>2. ReaderTyped(r) => ReaderTyped(r)'
    BY <1>1, <2>1 DEF ReaderTyped
  <2>3. StrictInvariant(r) => StrictInvariant(r)'
    BY <1>1, <2>1 DEF StrictInvariant, Unchanged
  <2>4. LooseInvariant(r) => LooseInvariant(r)'
    BY <1>1, <2>1 DEF LooseInvariant, Mixed
  <2> QED
    BY <1>1, <2>2, <2>3, <2>4, Zenon DEF ReadInvariant, ReadersInvariant
<1>2. ASSUME NEW r \in Readers, Fresh(reader'[r]), held'[r] \in {held[r], {}}
      PROVE  ReadInvariant(r)'
  <2>1. held[r] \subseteq Contents /\ IsFiniteSet(held[r])
    BY DEF ReadersInvariant, ReadInvariant, ReaderTyped
  <2>2. held'[r] \subseteq Contents /\ IsFiniteSet(held'[r])
    BY <1>2, <2>1, FS_EmptySet
  <2>3. ReaderTyped(r)'
    BY <1>2, <2>2, NothingRead DEF ReaderTyped, Fresh, Steps, Before, Holding
  <2>4. StrictInvariant(r)' /\ LooseInvariant(r)'
    BY <1>2 DEF StrictInvariant, LooseInvariant, Fresh
  <2> QED
    BY <2>3, <2>4, Zenon DEF ReadInvariant
<1> QED
  BY <1>1, <1>2 DEF ReadersInvariant, ClientStep

LEMMA IdleIsFresh == Fresh(Idle) /\ Idle.strict = TRUE
<1>1. Idle.strict = TRUE
  BY Zenon DEF Idle
<1> QED
  BY <1>1 DEF Idle, Fresh, Shaped, ReadFields

LEMMA ReadersStart ==
  ASSUME TreeInit, ReadInit
  PROVE  ReadersInvariant
<1>1. ASSUME NEW r \in Readers PROVE ReadInvariant(r)
  <2>1. reader[r] = Idle /\ Fresh(reader[r]) /\ held[r] = {} /\ reader[r].at = "idle"
    BY IdleIsFresh DEF ReadInit, Idle
  <2>2. ReaderTyped(r)
    BY <2>1, NothingRead, FS_EmptySet DEF ReaderTyped, Fresh, Steps, Before, Holding
  <2>3. StrictInvariant(r) /\ LooseInvariant(r)
    BY <2>1 DEF StrictInvariant, LooseInvariant
  <2> QED
    BY <2>2, <2>3, Zenon DEF ReadInvariant
<1> QED
  BY <1>1 DEF ReadInit, ReadersInvariant

LEMMA ReadsAreWhole == ReadersInvariant => ReadIsAtomic
<1> SUFFICES ASSUME ReadersInvariant, NEW r \in Readers, reader[r].at = "done"
             PROVE  \/ reader[r].got \in held[r]
                    \/ ~reader[r].strict /\ Cardinality(held[r]) > 1
  BY Zenon DEF ReadIsAtomic
<1>1. ReadInvariant(r)
  BY Zenon DEF ReadersInvariant
<1>2. StrictInvariant(r) => reader[r].got \in held[r]
  BY DEF StrictInvariant
<1>3. LooseInvariant(r) => reader[r].got \in held[r] \/ Cardinality(held[r]) > 1
  BY DEF LooseInvariant, Mixed
<1> QED
  BY <1>1, <1>2, <1>3, Zenon DEF ReadInvariant

-----------------------------------------------------------------------------
LEMMA AdmissionReads ==
  ASSUME ReadersInvariant, [AdmissionNext]_vars
  PROVE  ReadersInvariant'
<1> USE EvidenceAssumption
<1>1. ASSUME UNCHANGED <<tree, reading>> PROVE ReadersInvariant'
  <2>1. ClientStep
    BY <1>1 DEF ClientStep, ReadersInvariant, TreeInit, tree, reading
  <2> QED
    BY <2>1, ClientKeeps
<1>2. CASE BeginFile
  <2>1. \E p, limit : Begin(Evidence, p, TRUE, limit)
    BY <1>2, Zenon DEF BeginFile
  <2>2. PICK p, limit : Begin(Evidence, p, TRUE, limit)
    BY <2>1, Zenon
  <2>3. UNCHANGED tree /\ held' = [held EXCEPT ![Evidence] = {}]
    BY <2>2 DEF Begin
  <2>4. reader' = [reader EXCEPT ![Evidence] = [Idle EXCEPT !.at = "ancestors",
                     !.strict = TRUE, !.path = p, !.limit = limit]]
    BY <2>2, Zenon DEF Begin
  <2>5. Fresh([Idle EXCEPT !.at = "ancestors", !.strict = TRUE, !.path = p, !.limit = limit])
    BY DEF Idle, Fresh, Shaped, ReadFields
  <2>6. ClientStep
    BY <2>3, <2>4, <2>5 DEF ClientStep, ReadersInvariant, TreeInit, tree
  <2> QED
    BY <2>6, ClientKeeps
<1>3. CASE ReadFile
  BY <1>3, ReadStepKeeps DEF ReadFile
<1>4. ASSUME UNCHANGED tree, reader' = [reader EXCEPT ![Evidence] = Idle],
             held' \in {held, [held EXCEPT ![Evidence] = {}]}
      PROVE  ReadersInvariant'
  <2>1. ClientStep
    BY <1>4, IdleIsFresh DEF ClientStep, ReadersInvariant, TreeInit, tree
  <2> QED
    BY <2>1, ClientKeeps
<1>5. CASE HashFile \/ FileRefused
  BY <1>4, <1>5 DEF HashFile, FileRefused
<1>6. CASE EditFiles
  BY <1>6, EditKeeps DEF EditFiles
<1>7. CASE EditSources
  <2>1. ClientStep
    BY <1>7 DEF EditSources, ClientStep, ReadersInvariant, TreeInit, reading, Edited, Now
  <2> QED
    BY <2>1, ClientKeeps
<1>8. CASE \/ AcceptPolicy \/ VerifyForReceipt \/ VerifyContract
           \/ VerifyAgain \/ JudgeManifest \/ WriteReceipt \/ UNCHANGED vars
  BY <1>1, <1>8, Zenon
     DEF AcceptPolicy, VerifyForReceipt, VerifyContract, VerifyAgain, JudgeManifest, WriteReceipt, vars
<1> QED
  BY <1>2, <1>3, <1>5, <1>6, <1>7, <1>8 DEF AdmissionNext, AdmissionStep

(* readProjectionFile and readRegularJson return what they may, whatever      *)
(* others do to the checkout meanwhile, for any number of edits.              *)
THEOREM AdmissionReadsAreAtomic == AdmissionSpec => []ReadIsAtomic
<1>1. TreeInit /\ ReadInit => ReadersInvariant
  BY ReadersStart
<1> QED
  BY <1>1, AdmissionReads, ReadsAreWhole, PTL DEF AdmissionSpec

THEOREM ConfigReadsAreAtomic == ConfigSpec => []ReadIsAtomic
<1>1. TreeInit /\ ReadInit => ReadersInvariant
  BY ReadersStart
<1>2. ReadersInvariant /\ [ConfigNext]_<<tree, reading, config>> => ReadersInvariant'
  <2> SUFFICES ASSUME ReadersInvariant, [ConfigNext]_<<tree, reading, config>>
               PROVE  ReadersInvariant'
    OBVIOUS
  <2>1. CASE OpenBoth
    <3>1. \A r \in Configured : Fresh(Started(r))
      BY ZenonT(60) DEF Started, Idle, Fresh, Shaped, ReadFields
    <3>2. ClientStep
      BY <2>1, <3>1 DEF OpenBoth, ClientStep, ReadersInvariant, TreeInit, tree
    <3> QED
      BY <3>2, ClientKeeps
  <2>2. CASE ReadConfig
    BY <2>2, ReadStepKeeps, ConfigAssumption DEF ReadConfig
  <2>3. CASE EditConfig
    BY <2>3, EditKeeps DEF EditConfig
  <2>4. CASE ConfigThrown \/ JudgeConfig \/ UNCHANGED <<tree, reading, config>>
    <3>1. UNCHANGED <<tree, reading>>
      BY <2>4, Zenon DEF ConfigThrown, JudgeConfig
    <3>2. ClientStep
      BY <3>1 DEF ClientStep, ReadersInvariant, TreeInit, tree, reading
    <3> QED
      BY <3>2, ClientKeeps
  <2> QED
    BY <2>1, <2>2, <2>3, <2>4 DEF ConfigNext
<1> QED
  BY <1>1, <1>2, ReadsAreWhole, PTL DEF ConfigSpec

-----------------------------------------------------------------------------
(* The files of a projection, one after the other.                            *)

(* What a step of a strict read does to the path it was asked for.            *)
Placed(r) == /\ reader[r].strict = TRUE
             /\ reader[r].at \in Holding \cup {"done"} => reader[r].path \in Paths

LEMMA PlacedStays ==
  ASSUME ReadersInvariant, NEW r \in Readers, ReadStep(r), Placed(r)
  PROVE  Placed(r)' /\ reader'[r].path = reader[r].path /\ reader'[r].at # "idle" /\ reader[r].at # "idle"
<1>1. Shaped(reader[r])
  BY Zenon DEF ReadersInvariant, ReadInvariant, ReaderTyped
<1>2. \/ Refuse(r)
      \/ \E to \in {"extra", "after", "ancestorsAgain", "inspectAgain"} :
           reader[r].at \in Holding /\ Becomes(r, Go(r, to))
      \/ \E d : Becomes(r, [Go(r, "inspect") EXCEPT !.dirs = d])
      \/ \E b : Becomes(r, [Go(r, "open") EXCEPT !.before = b])
      \/ /\ At(reader[r].path) # None
         /\ reader' = [reader EXCEPT ![r] = [Go(r, "stat") EXCEPT !.handle = At(reader[r].path)]]
      \/ \E s : reader[r].at = "stat" /\ Becomes(r, [Go(r, "read") EXCEPT !.opened = s])
      \/ \E g : reader[r].at = "read" /\ Becomes(r, [reader[r] EXCEPT !.got = g])
      \/ reader[r].at = "inspectAgain" /\ Becomes(r, [Go(r, "done") EXCEPT !.handle = None])
  BY Zenon DEF ReadStep, Ancestors, Inspect, Open, StatOpened, ReadBlock, ReadExtra, StatAfter,
               AncestorsAgain, InspectAgain, Holding
<1>3. reader[r].at # "idle"
  BY DEF ReadStep, Ancestors, Inspect, Open, StatOpened, ReadBlock, ReadExtra, StatAfter,
         AncestorsAgain, InspectAgain
<1>4. \A s : Becomes(r, s) => reader'[r] = s
  BY Became, Zenon
<1> DEFINE Same == reader'[r].strict = reader[r].strict /\ reader'[r].path = reader[r].path
           Good == Placed(r)' /\ reader'[r].path = reader[r].path /\ reader'[r].at # "idle"
<1>5. ASSUME reader'[r] = Refusal(r) PROVE Good
  <2>1. reader'[r].strict = TRUE /\ reader'[r].path = reader[r].path /\ reader'[r].at = "refused"
    BY <1>5 DEF Refusal, Idle
  <2> QED
    BY <2>1 DEF Placed, Holding
<1>6. ASSUME NEW to \in {"extra", "after", "ancestorsAgain", "inspectAgain"},
             reader[r].at \in Holding, reader'[r] = Go(r, to)
      PROVE  Good
  <2>1. Same /\ reader'[r].at = to
    BY <1>1, <1>6 DEF Go, Shaped, ReadFields, Idle
  <2> QED
    BY <1>6, <2>1 DEF Placed, Holding
<1>7. ASSUME NEW v, \/ reader'[r] = [Go(r, "inspect") EXCEPT !.dirs = v]
                    \/ reader'[r] = [Go(r, "open") EXCEPT !.before = v]
      PROVE  Good
  <2>1. Same /\ reader'[r].at \in {"inspect", "open"}
    BY <1>1, <1>7 DEF Go, Shaped, ReadFields, Idle
  <2> QED
    BY <2>1 DEF Placed, Holding
<1>8. ASSUME NEW v, \/ At(reader[r].path) # None /\ reader'[r] = [Go(r, "stat") EXCEPT !.handle = v]
                    \/ reader[r].at = "stat" /\ reader'[r] = [Go(r, "read") EXCEPT !.opened = v]
                    \/ reader[r].at = "read" /\ reader'[r] = [reader[r] EXCEPT !.got = v]
                    \/ reader[r].at = "inspectAgain" /\ reader'[r] = [Go(r, "done") EXCEPT !.handle = v]
      PROVE  Good
  <2>1. Same /\ reader'[r].at \in {"stat", "read", "done"}
    BY <1>1, <1>8 DEF Go, Shaped, ReadFields, Idle
  <2>2. reader[r].path \in Paths
    BY <1>8 DEF Placed, Holding, At
  <2> QED
    BY <2>1, <2>2 DEF Placed, Holding
<1>9. \A s : reader' = [reader EXCEPT ![r] = s] => reader'[r] = s
  BY DEF ReadersInvariant
<1> HIDE DEF Good
<1>10. Good
  BY <1>2, <1>4, <1>5, <1>6, <1>7, <1>8, <1>9, Zenon DEF Refuse
<1> QED
  BY <1>3, <1>10 DEF Good

Read(p) == p \in Paths /\ observed[p] \in seen[p]
AllRead == \A p \in Members(AllPaths) : Read(p)
Judged == ManifestFindings(manifest, Ir, Parity, Observations) = {}
Earlier == {"policy", "rejected", "verify", "contract", "files", "recheck", "manifest"}

(* What the verification knows at each stage.                                 *)
StageInvariant ==
  /\ stage \in Earlier => report = None
  /\ stage = "files" => \A p \in Members(AllPaths) : p \in Members(queue) \/ Read(p)
  /\ stage = "recheck" => AllRead /\ source \in sourcesSince
  /\ stage = "manifest" => AllRead /\ Ir.sources \in sourcesSince
  /\ stage \in {"report", "done"} /\ report = {} => AllRead /\ Ir.sources \in sourcesSince /\ Judged
  /\ stage \in Earlier \cup {"report", "done"}
  /\ receipt = "passed" => report = {} /\ stage = "done"
AdmissionTyped ==
  /\ manifest \in Manifests /\ policy \in Policies
  /\ stage \notin {"policy", "rejected"} => PolicyAccepted
  /\ queue \in Seq(Members(AllPaths))
  /\ observed = [p \in Paths |-> observed[p]] /\ seen = [p \in Paths |-> seen[p]]
ReadingInvariant ==
  /\ Placed(Evidence)
  /\ reader[Evidence].at # "idle" =>
       stage = "files" /\ queue # <<>> /\ reader[Evidence].path = Head(queue)
AdmissionInvariant ==
  ReadersInvariant /\ AdmissionTyped /\ ReadingInvariant /\ StageInvariant

LEMMA ConcatLater ==
  ASSUME NEW S, NEW s \in Seq(S), NEW u \in Seq(S), NEW i \in DOMAIN u
  PROVE  i + Len(s) \in DOMAIN (s \o u) /\ (s \o u)[i + Len(s)] = u[i]
<1>1. /\ Len(s) \in Nat /\ Len(u) \in Nat /\ DOMAIN u = 1..Len(u)
      /\ DOMAIN (s \o u) = 1..(Len(s) + Len(u))
      /\ \A j \in 1..(Len(s) + Len(u)) :
           (s \o u)[j] = IF j <= Len(s) THEN s[j] ELSE u[j - Len(s)]
  BY ConcatProperties, LenProperties
<1> QED
  BY <1>1

LEMMA ConcatMembers ==
  ASSUME NEW S, NEW s \in Seq(S), NEW u \in Seq(S)
  PROVE  Members(s \o u) = Members(s) \cup Members(u)
<1>1. /\ Len(s) \in Nat /\ Len(u) \in Nat /\ Len(s \o u) = Len(s) + Len(u)
      /\ DOMAIN s = 1..Len(s) /\ DOMAIN u = 1..Len(u) /\ DOMAIN (s \o u) = 1..(Len(s) + Len(u))
      /\ \A i \in 1..(Len(s) + Len(u)) :
           (s \o u)[i] = IF i <= Len(s) THEN s[i] ELSE u[i - Len(s)]
  BY ConcatProperties, LenProperties
<1>2. Members(s \o u) \subseteq Members(s) \cup Members(u)
  <2> SUFFICES ASSUME NEW i \in 1..(Len(s) + Len(u))
               PROVE  (s \o u)[i] \in Members(s) \cup Members(u)
    BY <1>1 DEF Members
  <2>1. CASE i <= Len(s)
    BY <1>1, <2>1 DEF Members
  <2>2. CASE ~(i <= Len(s))
    <3>1. i - Len(s) \in DOMAIN u
      BY <1>1, <2>2
    <3> QED
      BY <1>1, <2>2, <3>1 DEF Members
  <2> QED
    BY <2>1, <2>2
<1>3. ASSUME NEW i \in DOMAIN s PROVE s[i] \in Members(s \o u)
  <2>1. i \in DOMAIN (s \o u) /\ (s \o u)[i] = s[i]
    BY <1>1
  <2> QED
    BY <2>1, Zenon DEF Members
<1>4. ASSUME NEW i \in DOMAIN u PROVE u[i] \in Members(s \o u)
  <2>1. i + Len(s) \in DOMAIN (s \o u) /\ (s \o u)[i + Len(s)] = u[i]
    BY <1>1
  <2> QED
    BY <2>1, Zenon DEF Members
<1> QED
  BY <1>2, <1>3, <1>4 DEF Members

LEMMA PathsListed ==
  ASSUME policy \in Policies
  PROVE  /\ AllPaths \in Seq(Members(AllPaths))
         /\ Members(AllPaths) = Members(InputPaths) \cup Members(OutputPaths)
         /\ DOMAIN policy.inputs = DOMAIN InputPaths /\ DOMAIN policy.outputs = DOMAIN OutputPaths
         /\ InputPaths \in Seq(Members(InputPaths)) /\ OutputPaths \in Seq(Members(OutputPaths))
<1>1. /\ Len(policy.inputs) \in Nat /\ DOMAIN policy.inputs = 1..Len(policy.inputs)
      /\ Len(policy.outputs) \in Nat /\ DOMAIN policy.outputs = 1..Len(policy.outputs)
  BY PoliciesAssumption, LenProperties DEF Listed
<1>2. InputPaths \in Seq(Members(InputPaths)) /\ OutputPaths \in Seq(Members(OutputPaths))
  BY <1>1 DEF InputPaths, OutputPaths, Members
<1>3. DOMAIN policy.inputs = DOMAIN InputPaths /\ DOMAIN policy.outputs = DOMAIN OutputPaths
  BY <1>1 DEF InputPaths, OutputPaths
<1> DEFINE U == Members(InputPaths) \cup Members(OutputPaths)
<1>4. InputPaths \in Seq(U) /\ OutputPaths \in Seq(U)
  BY <1>2, SeqMonotonic
<1>5. AllPaths \in Seq(U)
  BY <1>4, ConcatProperties DEF AllPaths
<1>6. Members(AllPaths) = U
  BY <1>4, ConcatMembers DEF AllPaths
<1> QED
  BY <1>2, <1>3, <1>5, <1>6

LEMMA AdmissionStarts ==
  ASSUME TreeInit, ReadInit, AdmissionInit
  PROVE  AdmissionInvariant
<1> USE EvidenceAssumption
<1>1. ReadersInvariant
  BY ReadersStart
<1>2. reader[Evidence] = Idle
  BY DEF ReadInit
<1>3. reader[Evidence].at = "idle" /\ reader[Evidence].strict = TRUE
  BY <1>2 DEF Idle
<1>4. ReadingInvariant
  BY <1>3 DEF ReadingInvariant, Placed, Holding
<1>5. AdmissionTyped
  BY EmptySeq DEF AdmissionInit, AdmissionTyped
<1>6. StageInvariant
  BY ReportAssumption DEF AdmissionInit, StageInvariant, Earlier
<1> QED
  BY <1>1, <1>4, <1>5, <1>6 DEF AdmissionInvariant

(* Edits by others and the steps of a read leave the verification as it is.   *)
LEMMA StagesStay ==
  ASSUME AdmissionTyped, StageInvariant,
         UNCHANGED <<request, progress, seen>>,
         \/ UNCHANGED <<source, sourcesSince>>
         \/ sourcesSince' = IF sourcesSince = {} THEN {} ELSE sourcesSince \cup {source'}
  PROVE  AdmissionTyped' /\ StageInvariant'
<1>1. AdmissionTyped'
  BY DEF AdmissionTyped, request, progress, PolicyAccepted, AllPaths, InputPaths, OutputPaths
<1>2. /\ AllPaths' = AllPaths /\ Observations' = Observations
      /\ observed' = observed /\ seen' = seen
  BY DEF AllPaths, InputPaths, OutputPaths, Observations, request, progress
<1>3. AllRead => AllRead'
  BY <1>2 DEF AllRead, Read
<1>4. Judged => Judged'
  BY <1>2 DEF Judged, request
<1>5. \A p : Read(p) => Read(p)'
  BY <1>2 DEF Read
<1>6. /\ source \in sourcesSince => source' \in sourcesSince'
      /\ Ir.sources \in sourcesSince => Ir.sources \in sourcesSince'
  OBVIOUS
<1>7. /\ stage' = stage /\ report' = report /\ receipt' = receipt /\ queue' = queue
  BY DEF progress
<1> QED
  BY <1>1, <1>2, <1>3, <1>4, <1>5, <1>6, <1>7 DEF StageInvariant

LEMMA ReadingKeeps ==
  ASSUME AdmissionInvariant, BeginFile \/ ReadFile
  PROVE  ReadingInvariant' /\ AdmissionTyped' /\ StageInvariant'
<1> USE EvidenceAssumption
<1>1. AdmissionTyped' /\ StageInvariant'
  BY StagesStay, Zenon DEF AdmissionInvariant, BeginFile, ReadFile, witness
<1>2. CASE BeginFile
  <2>1. \E limit : Begin(Evidence, Head(queue), TRUE, limit)
    BY <1>2, Zenon DEF BeginFile
  <2>2. PICK limit : Begin(Evidence, Head(queue), TRUE, limit)
    BY <2>1, Zenon
  <2>3. reader' = [reader EXCEPT ![Evidence] = [Idle EXCEPT !.at = "ancestors",
                     !.strict = TRUE, !.path = Head(queue), !.limit = limit]]
    BY <2>2, Zenon DEF Begin
  <2>4. reader'[Evidence] = [Idle EXCEPT !.at = "ancestors",
                     !.strict = TRUE, !.path = Head(queue), !.limit = limit]
    BY <2>3 DEF AdmissionInvariant, ReadersInvariant
  <2>5. /\ reader'[Evidence].at = "ancestors" /\ reader'[Evidence].strict = TRUE
        /\ reader'[Evidence].path = Head(queue)
    BY <2>4 DEF Idle
  <2>6. stage' = "files" /\ queue' = queue /\ queue # <<>>
    BY <1>2 DEF BeginFile, progress
  <2> QED
    BY <1>1, <2>5, <2>6 DEF ReadingInvariant, Placed, Holding
<1>3. CASE ReadFile
  <2>1. /\ Placed(Evidence)' /\ reader'[Evidence].path = reader[Evidence].path
        /\ reader[Evidence].at # "idle"
    BY <1>3, PlacedStays, Zenon DEF ReadFile, AdmissionInvariant, ReadingInvariant
  <2>2. stage' = stage /\ queue' = queue
    BY <1>3 DEF ReadFile, progress
  <2> QED
    BY <1>1, <2>1, <2>2 DEF ReadingInvariant, AdmissionInvariant
<1> QED
  BY <1>2, <1>3

(* What was read is what the file had; one path less to read.                 *)
LEMMA HashKeeps ==
  ASSUME AdmissionInvariant, HashFile
  PROVE  ReadingInvariant' /\ AdmissionTyped' /\ StageInvariant'
<1> USE EvidenceAssumption
<1> DEFINE got == reader[Evidence].got
<1>1. /\ stage = "files" /\ reader[Evidence].at = "done"
      /\ reader' = [reader EXCEPT ![Evidence] = Idle]
      /\ observed' = [observed EXCEPT ![Head(queue)] = got]
      /\ seen' = [seen EXCEPT ![Head(queue)] = held[Evidence]]
      /\ queue' = Tail(queue)
      /\ IF Tail(queue) = <<>> THEN stage' = "recheck" /\ sourcesSince' = {source}
         ELSE UNCHANGED <<stage, sourcesSince>>
      /\ UNCHANGED <<request, source, report, receipt>>
  BY Zenon DEF HashFile
<1>2. ReadersInvariant /\ AdmissionTyped /\ ReadingInvariant /\ StageInvariant
  BY DEF AdmissionInvariant
<1>3. Head(queue) \in Paths /\ queue # <<>>
  BY <1>1, <1>2 DEF ReadingInvariant, Placed
<1>13. PICK p \in Paths : p = Head(queue)
  BY <1>3
<1>4. got \in held[Evidence]
  <2>1. ReadInvariant(Evidence) /\ reader[Evidence].strict
    BY <1>2, Zenon DEF ReadersInvariant, ReadingInvariant, Placed
  <2>2. StrictInvariant(Evidence)
    BY <2>1, Zenon DEF ReadInvariant
  <2> QED
    BY <1>1, <2>2 DEF StrictInvariant
<1>5. reader'[Evidence] = Idle
  BY <1>1, <1>2 DEF ReadersInvariant
<1>6. ReadingInvariant'
  <2>1. reader'[Evidence].at = "idle" /\ reader'[Evidence].strict = TRUE
    BY <1>5 DEF Idle
  <2> QED
    BY <2>1 DEF ReadingInvariant, Placed, Holding
<1>7. AllPaths' = AllPaths /\ manifest' = manifest /\ policy' = policy
  BY <1>1 DEF AllPaths, InputPaths, OutputPaths, request
<1>8. queue \in Seq(Members(AllPaths)) /\ Tail(queue) \in Seq(Members(AllPaths))
  BY <1>2, <1>3, HeadTailProperties DEF AdmissionTyped
<1>9. Members(queue) \subseteq Members(Tail(queue)) \cup {p}
  <2> SUFFICES ASSUME NEW k \in DOMAIN queue PROVE queue[k] \in Members(Tail(queue)) \cup {p}
    BY DEF Members
  <2>1. /\ Len(queue) \in Nat /\ DOMAIN queue = 1..Len(queue) /\ p = queue[1]
        /\ Len(Tail(queue)) = Len(queue) - 1 /\ DOMAIN Tail(queue) = 1..(Len(queue) - 1)
        /\ \A j \in 1..(Len(queue) - 1) : Tail(queue)[j] = queue[j + 1]
    BY <1>3, <1>8, <1>13, HeadTailProperties, LenProperties
  <2>2. CASE k = 1
    BY <2>1, <2>2
  <2>3. CASE k # 1
    <3>1. k - 1 \in DOMAIN Tail(queue) /\ Tail(queue)[k - 1] = queue[k]
      BY <2>1, <2>3
    <3> QED
      BY <3>1, Zenon DEF Members
  <2> QED
    BY <2>2, <2>3
<1>10. Read(p)' /\ \A o : Read(o) => Read(o)'
  <2>1. observed'[p] = got /\ seen'[p] = held[Evidence]
    BY <1>1, <1>2, <1>13 DEF AdmissionTyped
  <2>2. ASSUME NEW o, Read(o), o # p PROVE Read(o)'
    <3>1. observed'[o] = observed[o] /\ seen'[o] = seen[o]
      BY <1>1, <1>2, <1>13, <2>2 DEF AdmissionTyped, Read
    <3> QED
      BY <2>2, <3>1 DEF Read
  <2>3. Read(p)'
    BY <1>4, <2>1 DEF Read
  <2> QED
    BY <2>2, <2>3
<1>11. AdmissionTyped'
  <2>1. stage \notin {"policy", "rejected"} /\ PolicyAccepted
    BY <1>1, <1>2 DEF AdmissionTyped
  <2>2. PolicyAccepted'
    BY <1>7, <2>1 DEF PolicyAccepted
  <2>3. observed' = [o \in Paths |-> observed'[o]] /\ seen' = [o \in Paths |-> seen'[o]]
    BY <1>1, <1>2 DEF AdmissionTyped
  <2> QED
    BY <1>1, <1>2, <1>7, <1>8, <2>2, <2>3 DEF AdmissionTyped
<1>12. StageInvariant'
  <2>1. \A o \in Members(AllPaths) : o \in Members(queue') \/ Read(o)'
    BY <1>1, <1>2, <1>9, <1>10 DEF StageInvariant
  <2>2. report' = None /\ receipt' = receipt /\ receipt # "passed"
    BY <1>1, <1>2 DEF StageInvariant, Earlier
  <2>3. CASE Tail(queue) = <<>>
    <3>1. Members(queue') = {}
      BY <1>1, <2>3 DEF Members
    <3>2. AllRead'
      BY <1>7, <2>1, <3>1 DEF AllRead
    <3> QED
      BY <1>1, <2>2, <2>3, <3>2 DEF StageInvariant, Earlier
  <2>4. CASE Tail(queue) # <<>>
    BY <1>1, <1>7, <2>1, <2>2, <2>4 DEF StageInvariant, Earlier
  <2> QED
    BY <2>3, <2>4
<1> QED
  BY <1>6, <1>11, <1>12

LEMMA AdmissionNextInvariant ==
  ASSUME AdmissionInvariant, [AdmissionNext]_vars
  PROVE  AdmissionInvariant'
<1> USE EvidenceAssumption
<1>1. ReadersInvariant'
  BY AdmissionReads DEF AdmissionInvariant
<1>2. AdmissionTyped /\ ReadingInvariant /\ StageInvariant
  BY DEF AdmissionInvariant
<1> DEFINE Goal == ReadingInvariant' /\ AdmissionTyped' /\ StageInvariant'
(* A stage with no read in progress.                                          *)
<1>3. ASSUME stage # "files", UNCHANGED <<tree, reading, request, observed, seen>>,
             stage' \notin {"policy", "rejected"} => PolicyAccepted,
             queue' \in Seq(Members(AllPaths))
      PROVE  /\ ReadingInvariant' /\ AdmissionTyped'
             /\ AllPaths' = AllPaths /\ Observations' = Observations
             /\ AllRead' = AllRead /\ Judged' = Judged
  <2>1. AllPaths' = AllPaths /\ Observations' = Observations /\ PolicyAccepted' = PolicyAccepted
    BY <1>3 DEF AllPaths, InputPaths, OutputPaths, Observations, PolicyAccepted, request
  <2>2. reader' = reader /\ reader[Evidence].at = "idle"
    BY <1>2, <1>3 DEF ReadingInvariant, reading
  <2>3. ReadingInvariant'
    BY <1>2, <2>2 DEF ReadingInvariant, Placed
  <2>4. AdmissionTyped'
    BY <1>2, <1>3, <2>1 DEF AdmissionTyped, request
  <2>5. AllRead' = AllRead /\ Judged' = Judged
    BY <1>3, <2>1 DEF AllRead, Read, Judged, request
  <2> QED
    BY <2>1, <2>3, <2>4, <2>5
<1>4. ASSUME BeginFile \/ ReadFile PROVE Goal
  BY <1>4, ReadingKeeps
<1>5. ASSUME HashFile PROVE Goal
  BY <1>5, HashKeeps
<1>6. ASSUME FileRefused PROVE Goal
  <2>1. /\ stage' = "report" /\ report' = {"projection-current-files-files-invalid"}
        /\ reader' = [reader EXCEPT ![Evidence] = Idle] /\ receipt' = receipt
        /\ UNCHANGED <<request, queue, observed, seen>> /\ stage = "files"
    BY <1>6 DEF FileRefused, Stop, witness
  <2>2. reader'[Evidence] = Idle
    BY <2>1 DEF AdmissionInvariant, ReadersInvariant
  <2>3. reader'[Evidence].at = "idle" /\ reader'[Evidence].strict = TRUE
    BY <2>2 DEF Idle
  <2>4. ReadingInvariant'
    BY <2>3 DEF ReadingInvariant, Placed, Holding
  <2>5. AdmissionTyped'
    BY <1>2, <2>1 DEF AdmissionTyped, AllPaths, InputPaths, OutputPaths, PolicyAccepted, request
  <2>6. StageInvariant'
    BY <1>2, <2>1 DEF StageInvariant, Earlier
  <2> QED
    BY <2>4, <2>5, <2>6
<1>7. ASSUME EditFiles PROVE Goal
  <2>1. AdmissionTyped' /\ StageInvariant'
    BY <1>2, <1>7, StagesStay, Zenon DEF EditFiles, witness
  <2>2. ReadingInvariant'
    BY <1>2, <1>7 DEF EditFiles, EditSeen, ReadingInvariant, Placed, progress
  <2> QED
    BY <2>1, <2>2
<1>8. ASSUME EditSources PROVE Goal
  <2>1. AdmissionTyped' /\ StageInvariant'
    <3>1. sourcesSince' = IF sourcesSince = {} THEN {} ELSE sourcesSince \cup {source'}
      BY <1>8 DEF EditSources
    <3>2. UNCHANGED <<request, progress, seen>>
      BY <1>8, Zenon DEF EditSources
    <3> QED
      BY <1>2, <3>1, <3>2, StagesStay, Zenon
  <2>2. ReadingInvariant'
    BY <1>2, <1>8 DEF EditSources, ReadingInvariant, Placed, progress, reading
  <2> QED
    BY <2>1, <2>2
<1>9. ASSUME AcceptPolicy PROVE Goal
  <2>1. /\ stage = "policy" /\ stage' = IF PolicyAccepted THEN "verify" ELSE "rejected"
        /\ UNCHANGED <<tree, reading, request, observed, seen, queue, report, receipt>>
    BY <1>9, Zenon DEF AcceptPolicy, Step, witness
  <2>2. queue \in Seq(Members(AllPaths))
    BY <1>2 DEF AdmissionTyped
  <2>3. ReadingInvariant' /\ AdmissionTyped'
    BY <1>3, <2>1, <2>2
  <2>4. StageInvariant'
    BY <1>2, <2>1 DEF StageInvariant, Earlier
  <2> QED
    BY <2>3, <2>4
<1>10. ASSUME VerifyForReceipt \/ VerifyContract PROVE Goal
  <2>1. /\ stage \in {"verify", "contract"} /\ receipt' = receipt
        /\ UNCHANGED <<tree, reading, request, observed, seen>>
        /\ \/ stage' = "contract" /\ UNCHANGED <<queue, report>>
           \/ stage' = "report" /\ report' # {} /\ UNCHANGED queue
           \/ stage' = "files" /\ queue' = AllPaths /\ UNCHANGED report
    BY <1>10 DEF VerifyForReceipt, VerifyContract, Step, Stop, witness
  <2>2. queue \in Seq(Members(AllPaths)) /\ AllPaths \in Seq(Members(AllPaths)) /\ PolicyAccepted
    BY <1>2, <2>1, PathsListed DEF AdmissionTyped
  <2>3. queue' \in Seq(Members(AllPaths))
    BY <2>1, <2>2
  <2>4. ReadingInvariant' /\ AdmissionTyped' /\ AllPaths' = AllPaths
    BY <1>3, <2>1, <2>2, <2>3
  <2>5. StageInvariant'
    BY <1>2, <2>1, <2>4 DEF StageInvariant, Earlier
  <2> QED
    BY <2>4, <2>5
<1>11. ASSUME VerifyAgain PROVE Goal
  <2>1. /\ stage = "recheck"
        /\ UNCHANGED <<tree, reading, request, source, queue, observed, receipt, seen, sourcesSince>>
        /\ \/ ContractVerified /\ stage' = "manifest" /\ UNCHANGED report
           \/ stage' = "report" /\ report' # {}
    BY <1>11 DEF VerifyAgain, Stop, witness
  <2>2. queue \in Seq(Members(AllPaths)) /\ PolicyAccepted
    BY <1>2, <2>1 DEF AdmissionTyped
  <2>3. ReadingInvariant' /\ AdmissionTyped' /\ AllRead' = AllRead
    BY <1>3, <2>1, <2>2
  <2>4. ContractVerified => source = Ir.sources
    BY DEF ContractVerified, ContractFindings, Breaks
  <2>5. StageInvariant'
    BY <1>2, <2>1, <2>3, <2>4 DEF StageInvariant, Earlier
  <2> QED
    BY <2>3, <2>5
<1>12. ASSUME JudgeManifest PROVE Goal
  <2>1. /\ stage = "manifest" /\ stage' = "report"
        /\ report' = ManifestFindings(manifest, Ir, Parity, Observations)
        /\ UNCHANGED <<tree, reading, request, queue, observed, receipt, seen, sourcesSince>>
    BY <1>12, Zenon DEF JudgeManifest, Step, witness
  <2>2. queue \in Seq(Members(AllPaths)) /\ PolicyAccepted
    BY <1>2, <2>1 DEF AdmissionTyped
  <2>3. ReadingInvariant' /\ AdmissionTyped' /\ AllRead' = AllRead /\ Judged' = Judged
    BY <1>3, <2>1, <2>2
  <2>4. report' = {} => Judged
    BY <2>1 DEF Judged
  <2>5. StageInvariant'
    BY <1>2, <2>1, <2>3, <2>4 DEF StageInvariant, Earlier
  <2> QED
    BY <2>3, <2>5
<1>13. ASSUME WriteReceipt PROVE Goal
  <2>1. /\ stage = "report" /\ stage' = "done"
        /\ receipt' = "passed" => report = {}
        /\ UNCHANGED <<tree, reading, request, queue, observed, report, seen, sourcesSince>>
    BY <1>13 DEF WriteReceipt, Step, witness
  <2>2. queue \in Seq(Members(AllPaths)) /\ PolicyAccepted
    BY <1>2, <2>1 DEF AdmissionTyped
  <2>3. ReadingInvariant' /\ AdmissionTyped' /\ AllRead' = AllRead /\ Judged' = Judged
    BY <1>3, <2>1, <2>2
  <2>4. StageInvariant'
    BY <1>2, <2>1, <2>3 DEF StageInvariant, Earlier
  <2> QED
    BY <2>3, <2>4
<1>14. ASSUME UNCHANGED vars PROVE Goal
  <2>1. AdmissionTyped' /\ StageInvariant'
    BY <1>2, <1>14, StagesStay, Zenon DEF vars, witness
  <2>2. ReadingInvariant'
    BY <1>2, <1>14 DEF vars, ReadingInvariant, Placed, progress, reading
  <2> QED
    BY <2>1, <2>2
<1>15. Goal
  BY <1>4, <1>5, <1>6, <1>7, <1>8, <1>9, <1>10, <1>11, <1>12, <1>13, <1>14, Zenon
     DEF AdmissionNext, AdmissionStep
<1> QED
  BY <1>1, <1>15 DEF AdmissionInvariant

LEMMA AdmissionHolds == AdmissionSpec => []AdmissionInvariant
<1>1. TreeInit /\ ReadInit /\ AdmissionInit => AdmissionInvariant
  BY AdmissionStarts
<1> QED
  BY <1>1, AdmissionNextInvariant, PTL DEF AdmissionSpec

-----------------------------------------------------------------------------
(* What a manifest without findings is.                                       *)

LEMMA EveryGatePassed ==
  ASSUME NEW m, NEW ir, NEW parity, NEW ev, ManifestFindings(m, ir, parity, ev) = {}
  PROVE  /\ NormalizeFindings(m) = {}
         /\ InputFindings(Normalized(m), ev.inputs) = {}
         /\ DeclarationFindings(Normalized(m), ir) = {}
         /\ OutputFindings(Normalized(m), ev.outputs) = {}
         /\ TopologyFindings(Normalized(m), ev.projections) = {}
         /\ DeltaEvidenceFindings(Normalized(m), ir, ev.approved) = {}
         /\ ValidatorFindings(Normalized(m), ev.validators) = {}
<1> DEFINE n == Normalized(m)
           A == NormalizeFindings(m)
           B == IdFindings(n)
           C == IF ContractFindings(ir, parity, ev.sources) = {}
                THEN BindingFindings(n, ir, parity) ELSE {}
           D == InputFindings(n, ev.inputs)
           E == ToolchainFindings(n, ev.toolchains)
           F == DeclarationFindings(n, ir)
           G == OutputFindings(n, ev.outputs)
           H == TopologyFindings(n, ev.projections)
           I == ReferenceFindings(n)
           J == DeltaEvidenceFindings(n, ir, ev.approved)
           K == ValidatorFindings(n, ev.validators)
           O == ContractFindings(ir, parity, ev.sources)
<1>1. O \cup (IF Unusable(m) THEN {"projection-manifest-invalid"}
              ELSE A \cup B \cup C \cup D \cup E \cup F \cup G \cup H \cup I \cup J \cup K) = {}
  BY Zenon DEF ManifestFindings
<1> HIDE DEF A, B, C, D, E, F, G, H, I, J, K, O
<1>2. A = {} /\ D = {} /\ F = {} /\ G = {} /\ H = {} /\ J = {} /\ K = {}
  BY <1>1
<1> QED
  BY <1>2 DEF A, D, F, G, H, J, K, n

(* Every file that the manifest names was read and had what it says.          *)
LEMMA FilesAreCurrent ==
  ASSUME policy \in Policies, PolicyAccepted, AllRead, Judged
  PROVE  /\ \A r \in InputRoles : manifest.inputs[r].content \in seen[manifest.inputs[r].path]
         /\ \A k \in DOMAIN policy.outputs :
              \E o \in Normal(manifest.outputs, "path") :
                o.path = policy.outputs[k].path /\ o.content \in seen[o.path]
<1> DEFINE n == Normalized(manifest)
<1>1. InputFindings(n, Observations.inputs) = {} /\ OutputFindings(n, Observations.outputs) = {}
  BY EveryGatePassed, Zenon DEF Judged
<1>2. /\ \A r \in InputRoles : n.inputs[r] = Observations.inputs[r]
      /\ n.outputs \subseteq Observations.outputs
      /\ {o.path : o \in Observations.outputs} \subseteq {o.path : o \in n.outputs}
  BY <1>1 DEF InputFindings, OutputFindings, Breaks
<1>3. n.inputs = manifest.inputs /\ n.outputs = Normal(manifest.outputs, "path")
  BY DEF Normalized
<1>4. /\ \A k \in DOMAIN policy.inputs : Read(policy.inputs[k].path) /\ InputPaths[k] = policy.inputs[k].path
      /\ \A k \in DOMAIN policy.outputs : Read(policy.outputs[k].path)
  <2>1. /\ \A k \in DOMAIN policy.inputs : InputPaths[k] = policy.inputs[k].path
        /\ \A k \in DOMAIN policy.outputs : OutputPaths[k] = policy.outputs[k].path
    BY PathsListed DEF InputPaths, OutputPaths
  <2>2. /\ \A k \in DOMAIN policy.inputs : InputPaths[k] \in Members(AllPaths)
        /\ \A k \in DOMAIN policy.outputs : OutputPaths[k] \in Members(AllPaths)
    BY PathsListed DEF Members
  <2> QED
    BY <2>1, <2>2 DEF AllRead
<1>5. ASSUME NEW r \in InputRoles
      PROVE  manifest.inputs[r].content \in seen[manifest.inputs[r].path]
  <2>1. PICK k \in DOMAIN policy.inputs :
          Observations.inputs[r] = [path |-> InputPaths[k], content |-> observed[InputPaths[k]]]
    <3>1. \E j \in DOMAIN policy.inputs : policy.inputs[j].role = r
      BY <1>5 DEF PolicyAccepted
    <3> DEFINE k == CHOOSE j \in DOMAIN policy.inputs : policy.inputs[j].role = r
    <3>2. k \in DOMAIN policy.inputs
      BY <3>1
    <3>3. Observations.inputs[r] = [path |-> InputPaths[k], content |-> observed[InputPaths[k]]]
      BY <1>5 DEF Observations
    <3> QED
      BY <3>2, <3>3
  <2>2. manifest.inputs[r] = [path |-> InputPaths[k], content |-> observed[InputPaths[k]]]
    BY <1>2, <1>3, <2>1
  <2> QED
    BY <1>4, <2>2 DEF Read
<1>6. ASSUME NEW k \in DOMAIN policy.outputs
      PROVE  \E o \in Normal(manifest.outputs, "path") :
               o.path = policy.outputs[k].path /\ o.content \in seen[o.path]
  <2>1. Observations.outputs =
          {[path |-> policy.outputs[j].path, content |-> observed[policy.outputs[j].path],
            projection |-> policy.outputs[j].projection] : j \in DOMAIN policy.outputs}
    BY DEF Observations
  <2>2. policy.outputs[k].path \in {o.path : o \in Observations.outputs}
    <3> DEFINE seenAs == [path |-> policy.outputs[k].path,
                          content |-> observed[policy.outputs[k].path],
                          projection |-> policy.outputs[k].projection]
    <3>1. seenAs \in Observations.outputs /\ seenAs.path = policy.outputs[k].path
      BY <2>1
    <3> QED
      BY <3>1
  <2>3. PICK o \in n.outputs : o.path = policy.outputs[k].path
    BY <1>2, <2>2
  <2>4. PICK j \in DOMAIN policy.outputs :
          o = [path |-> policy.outputs[j].path, content |-> observed[policy.outputs[j].path],
               projection |-> policy.outputs[j].projection]
    BY <1>2, <2>1
  <2>5. o.content \in seen[o.path]
    BY <1>4, <2>4 DEF Read
  <2> QED
    BY <1>3, <2>3, <2>5
<1> QED
  BY <1>5, <1>6

(* A passed receipt is about files and sources that were there, for every     *)
(* manifest and policy, whoever edits the checkout and however often.         *)
THEOREM AdmissionIsCurrent == AdmissionSpec => []AdmittedIsCurrent
<1>1. AdmissionInvariant => AdmittedIsCurrent
  <2> SUFFICES ASSUME AdmissionInvariant, receipt = "passed" PROVE AdmittedIsCurrent
    BY DEF AdmittedIsCurrent
  <2>1. /\ AllRead /\ Judged /\ Ir.sources \in sourcesSince
        /\ policy \in Policies /\ PolicyAccepted
    BY DEF AdmissionInvariant, StageInvariant, AdmissionTyped
  <2> QED
    BY <2>1, FilesAreCurrent, Zenon DEF AdmittedIsCurrent
<1> QED
  BY <1>1, AdmissionHolds, PTL

-----------------------------------------------------------------------------
(* What an admissible manifest leaves open.                                   *)

(* Of the entries that normalization keeps no two have one key, and of those  *)
(* that a map by id keeps no two have one id.                                 *)
LEMMA FirstsUnique ==
  ASSUME NEW list, Listed(list), NEW x \in Normal(list, "id"), NEW y \in Normal(list, "id"),
         x.id = y.id
  PROVE  x = y
<1>1. DOMAIN list \subseteq Int
  BY DEF Listed
<1>2. \A z : KeyIn(z, "id") = z.id
  BY DEF KeyIn
<1>3. PICK j \in Looked(list, MaxEntries) :
        x = list[j] /\ \A i \in Looked(list, MaxEntries) : i < j => list[i].id # list[j].id
  BY <1>2 DEF Normal, Firsts
<1>4. PICK k \in Looked(list, MaxEntries) :
        y = list[k] /\ \A i \in Looked(list, MaxEntries) : i < k => list[i].id # list[k].id
  BY <1>2 DEF Normal, Firsts
<1>5. j \in Int /\ k \in Int
  BY <1>1 DEF Looked
<1>6. ~(j < k) /\ ~(k < j)
  BY <1>3, <1>4
<1> QED
  BY <1>3, <1>4, <1>5, <1>6

LEMMA LatestUnique ==
  ASSUME NEW list, Listed(list), NEW x \in Latest(list), NEW y \in Latest(list), x.id = y.id
  PROVE  x = y
<1>1. DOMAIN list \subseteq Int
  BY DEF Listed
<1>2. PICK j \in DOMAIN list :
        x = list[j] /\ \A i \in DOMAIN list : i > j => list[i].id # list[j].id
  BY DEF Latest
<1>3. PICK k \in DOMAIN list :
        y = list[k] /\ \A i \in DOMAIN list : i > k => list[i].id # list[k].id
  BY DEF Latest
<1>4. j \in Int /\ k \in Int
  BY <1>1
<1>5. ~(j > k) /\ ~(k > j)
  BY <1>2, <1>3
<1> QED
  BY <1>2, <1>3, <1>4, <1>5

(* The caller names an output once.                                           *)
LEMMA OutputsDistinct ==
  ASSUME policy \in Policies, PolicyAccepted,
         NEW j \in DOMAIN policy.outputs, NEW k \in DOMAIN policy.outputs,
         policy.outputs[j].path = policy.outputs[k].path
  PROVE  j = k
<1>1. /\ policy.inputs \in Seq(Members(policy.inputs))
      /\ policy.outputs \in Seq(Members(policy.outputs))
  BY PoliciesAssumption DEF Listed
<1>2. /\ Len(policy.inputs) \in Nat /\ DOMAIN policy.outputs = 1..Len(policy.outputs)
      /\ Len(policy.outputs) \in Nat
  BY <1>1
<1>3. /\ InputPaths \in Seq({policy.inputs[i].path : i \in 1..Len(policy.inputs)})
      /\ OutputPaths \in Seq({policy.outputs[i].path : i \in 1..Len(policy.outputs)})
      /\ Len(InputPaths) = Len(policy.inputs) /\ Len(OutputPaths) = Len(policy.outputs)
  BY <1>2 DEF InputPaths, OutputPaths
<1> DEFINE S == {policy.inputs[i].path : i \in 1..Len(policy.inputs)}
                  \cup {policy.outputs[i].path : i \in 1..Len(policy.outputs)}
<1>4. InputPaths \in Seq(S) /\ OutputPaths \in Seq(S)
  BY <1>3, SeqMonotonic
<1>5. \A i \in DOMAIN policy.outputs :
        /\ i + Len(policy.inputs) \in DOMAIN AllPaths
        /\ AllPaths[i + Len(policy.inputs)] = policy.outputs[i].path
  <2> SUFFICES ASSUME NEW i \in DOMAIN policy.outputs
               PROVE  /\ i + Len(policy.inputs) \in DOMAIN AllPaths
                      /\ AllPaths[i + Len(policy.inputs)] = policy.outputs[i].path
    OBVIOUS
  <2>1. i \in DOMAIN OutputPaths /\ OutputPaths[i] = policy.outputs[i].path
    BY <1>2 DEF OutputPaths
  <2> HIDE DEF S
  <2>2. /\ i + Len(InputPaths) \in DOMAIN AllPaths
        /\ AllPaths[i + Len(InputPaths)] = OutputPaths[i]
    BY <1>4, <2>1, ConcatLater DEF AllPaths
  <2> QED
    BY <1>3, <2>1, <2>2
<1>6. Distinct(AllPaths)
  BY DEF PolicyAccepted
<1>7. j + Len(policy.inputs) = k + Len(policy.inputs)
  BY <1>5, <1>6 DEF Distinct
<1> QED
  BY <1>2, <1>7

(* Every output that the caller knows belongs to one required projection.     *)
LEMMA OutputsAreOwned ==
  ASSUME policy \in Policies, manifest \in Manifests, PolicyAccepted, Judged,
         NEW k \in DOMAIN policy.outputs
  PROVE  \E p \in Normal(manifest.projections, "id") :
           /\ p.id \in policy.projections /\ p.id = policy.outputs[k].projection
           /\ policy.outputs[k].path \in Normal(p.outputs, "itself")
           /\ \A q \in Normal(manifest.projections, "id") \ {p} :
                policy.outputs[k].path \notin Normal(q.outputs, "itself")
<1> DEFINE n == Normalized(manifest)
           projections == Normal(manifest.projections, "id")
           path == policy.outputs[k].path
<1>1. /\ OutputFindings(n, Observations.outputs) = {}
      /\ TopologyFindings(n, Observations.projections) = {}
  BY EveryGatePassed, Zenon DEF Judged
<1>2. /\ n.outputs \subseteq Observations.outputs
      /\ {o.path : o \in Observations.outputs} \subseteq {o.path : o \in n.outputs}
  BY <1>1 DEF OutputFindings, Breaks
<1>3. /\ \A o \in n.outputs : o.projection \in Ids(n.projections)
      /\ Ids(n.projections) \subseteq policy.projections
      /\ \A p \in n.projections : p.outputs = OutputsOf(n, p)
  <2>1. Observations.projections = policy.projections
    BY DEF Observations
  <2> HIDE DEF n
  <2> QED
    BY <1>1, <2>1 DEF TopologyFindings, Breaks
<1>4. n.projections = {NormalProjection(p) : p \in projections}
  BY DEF Normalized
<1>5. Observations.outputs =
        {[path |-> policy.outputs[j].path, content |-> observed[policy.outputs[j].path],
          projection |-> policy.outputs[j].projection] : j \in DOMAIN policy.outputs}
  BY DEF Observations
<1> HIDE DEF n, projections
<1>6. ASSUME NEW o \in n.outputs, o.path = path
      PROVE  o.projection = policy.outputs[k].projection
  <2>1. PICK j \in DOMAIN policy.outputs :
          o = [path |-> policy.outputs[j].path, content |-> observed[policy.outputs[j].path],
               projection |-> policy.outputs[j].projection]
    BY <1>2, <1>5
  <2>2. j = k
    BY <1>6, <2>1, OutputsDistinct
  <2> QED
    BY <2>1, <2>2
<1>7. \A p \in projections :
        /\ NormalProjection(p) \in n.projections /\ NormalProjection(p).id = p.id
        /\ NormalProjection(p).outputs = Normal(p.outputs, "itself")
  BY <1>4 DEF NormalProjection
<1>8. ASSUME NEW q \in projections, path \in Normal(q.outputs, "itself")
      PROVE  q.id = policy.outputs[k].projection
  <2>1. path \in OutputsOf(n, NormalProjection(q))
    BY <1>3, <1>7, <1>8
  <2>2. PICK o \in n.outputs : o.projection = q.id /\ o.path = path
    BY <1>7, <2>1 DEF OutputsOf
  <2> QED
    BY <1>6, <2>2
<1>9. PICK o \in n.outputs : o.path = path
  <2> DEFINE seenAs == [path |-> policy.outputs[k].path,
                        content |-> observed[policy.outputs[k].path],
                        projection |-> policy.outputs[k].projection]
  <2>1. seenAs \in Observations.outputs /\ seenAs.path = path
    BY <1>5
  <2> QED
    BY <1>2, <2>1
<1>10. PICK p \in projections : p.id = policy.outputs[k].projection
  <2>1. o.projection \in Ids(n.projections) /\ o.projection = policy.outputs[k].projection
    BY <1>3, <1>6, <1>9
  <2>2. PICK r \in n.projections : r.id = policy.outputs[k].projection
    BY <2>1 DEF Ids
  <2>3. PICK p \in projections : r = NormalProjection(p)
    BY <1>4
  <2> QED
    BY <1>7, <2>2, <2>3
<1>11. p.id \in policy.projections
  BY <1>3, <1>7 DEF Ids
<1>12. path \in Normal(p.outputs, "itself")
  <2>1. path \in OutputsOf(n, NormalProjection(p))
    BY <1>6, <1>7, <1>9, <1>10 DEF OutputsOf
  <2> QED
    BY <1>3, <1>7, <2>1
<1>13. ASSUME NEW q \in projections \ {p} PROVE path \notin Normal(q.outputs, "itself")
  <2> SUFFICES ASSUME path \in Normal(q.outputs, "itself") PROVE q = p
    BY <1>13
  <2>1. q.id = p.id
    BY <1>8, <1>10
  <2> QED
    BY <2>1, FirstsUnique, ManifestsAssumption DEF projections
<1> QED
  BY <1>10, <1>11, <1>12, <1>13 DEF projections

(* Every projection covers the whole contract.                                *)
LEMMA DeclarationsAreCovered ==
  ASSUME Judged, NEW p \in Normal(manifest.projections, "id")
  PROVE  Normal(p.declarations, "itself") = DOMAIN Ir.assertions
<1> DEFINE n == Normalized(manifest)
<1>1. /\ DeclarationFindings(n, Ir) = {}
      /\ TopologyFindings(n, Observations.projections) = {}
  BY EveryGatePassed, Zenon DEF Judged
<1>2. NormalProjection(p) \in n.projections
  BY DEF Normalized
<1>3. NormalProjection(p).declarations = Normal(p.declarations, "itself")
  BY DEF NormalProjection
<1> HIDE DEF n
<1>4. n.declarations = DOMAIN Ir.assertions
  BY <1>1 DEF DeclarationFindings, Breaks
<1>5. \A r \in n.projections : r.declarations = n.declarations
  BY <1>1 DEF TopologyFindings, Breaks
<1> QED
  BY <1>2, <1>3, <1>4, <1>5

LEMMA LossesAreReported ==
  ASSUME NEW m
  PROVE  LossFindings(m) \subseteq NormalizeFindings(m)
<1> DEFINE lost == LossFindings(m)
<1>1. SUFFICES ASSUME NEW rule \in lost PROVE rule \in NormalizeFindings(m)
  OBVIOUS
<1> HIDE DEF lost
<1> QED
  BY <1>1, Zenon DEF NormalizeFindings, lost

(* A loss that names a negative fixture is one that needs a validator.        *)
LEMMA FixtureIsRequired ==
  ASSUME NEW m, NormalizeFindings(m) = {}, NEW d \in Normal(m.deltas, "id"), d.fixture # Nothing
  PROVE  d.required
<1>1. PICK k \in Looked(m.deltas, MaxEntries) : d = m.deltas[k]
  BY DEF Normal, Firsts
<1> DEFINE broken == UNION {DeltaFindings(m.deltas[j]) : j \in Looked(m.deltas, MaxEntries)}
<1>2. broken = {}
  <2>1. LossFindings(m) = {}
    BY LossesAreReported
  <2>2. broken \subseteq LossFindings(m)
    BY Zenon DEF LossFindings
  <2> HIDE DEF broken
  <2> QED
    BY <2>1, <2>2
<1>3. DeltaFindings(d) = {}
  BY <1>1, <1>2, Zenon
<1>4. "projection-delta-runtime-evidence-unexpected" \notin DeltaFindings(d)
  BY <1>3, Zenon
<1>5. SUFFICES ASSUME ~d.required PROVE FALSE
  BY Zenon
<1>6. "projection-delta-runtime-evidence-unexpected" \in DeltaFindings(d)
  BY <1>5, Zenon DEF DeltaFindings, Breaks
<1> QED
  BY <1>4, <1>6

(* Every loss approved with a negative fixture is executed by a trusted       *)
(* validator of its projection.                                               *)
LEMMA LossesAreExecuted ==
  ASSUME policy \in Policies, manifest \in Manifests, Judged,
         NEW a \in Latest(policy.approved), a.fixture # Nothing
  PROVE  \E v \in Latest(policy.validators) :
           /\ v.projection = a.projection /\ v.fixture = a.fixture
           /\ \E p \in Normal(manifest.projections, "id") :
                p.id = a.projection /\ v.id \in Normal(p.validators, "itself")
<1> DEFINE n == Normalized(manifest)
<1>1. /\ NormalizeFindings(manifest) = {}
      /\ DeltaEvidenceFindings(n, Ir, Observations.approved) = {}
      /\ ValidatorFindings(n, Observations.validators) = {}
  BY EveryGatePassed, Zenon DEF Judged
<1>2. /\ Observations.approved = policy.approved
      /\ Observations.validators = policy.validators
  BY DEF Observations
<1>3. /\ n.projections = {NormalProjection(p) : p \in Normal(manifest.projections, "id")}
      /\ n.deltas = Normal(manifest.deltas, "id")
      /\ n.validators = Normal(manifest.validators, "id")
  BY DEF Normalized
<1> HIDE DEF n
<1>4. /\ {Fields(d, ApprovedFields) : d \in n.deltas} \subseteq Latest(policy.approved)
      /\ Ids(Latest(policy.approved)) \subseteq Ids(n.deltas)
  BY <1>1, <1>2 DEF DeltaEvidenceFindings, Breaks
<1>5. PICK d \in n.deltas : d.id = a.id
  BY <1>4 DEF Ids
<1>6. d.fixture = a.fixture /\ d.projection = a.projection
  <2>1. /\ Fields(d, ApprovedFields).id = d.id
        /\ Fields(d, ApprovedFields).fixture = d.fixture
        /\ Fields(d, ApprovedFields).projection = d.projection
    BY DEF Fields, ApprovedFields
  <2>2. Fields(d, ApprovedFields) \in Latest(policy.approved)
    BY <1>4
  <2>3. Fields(d, ApprovedFields) = a
    BY <1>5, <2>1, <2>2, LatestUnique, PoliciesAssumption
  <2> QED
    BY <2>1, <2>3
<1>7. d.required
  BY <1>1, <1>3, <1>6, FixtureIsRequired, Zenon
<1>8. n.validators \subseteq Latest(policy.validators)
  <2>1. "projection-runtime-validator-binding-mismatch" \notin
          ValidatorFindings(n, policy.validators)
    BY <1>1, <1>2, Zenon
  <2> QED
    BY <2>1, Zenon DEF ValidatorFindings, Breaks
<1>9. Executes(n, d)
  <2>1. "projection-delta-runtime-validator-mismatch" \notin
          ValidatorFindings(n, policy.validators)
    BY <1>1, <1>2, Zenon
  <2> QED
    BY <1>7, <2>1, Zenon DEF ValidatorFindings, Breaks
<1>10. PICK v \in n.validators :
         /\ v.projection = d.projection /\ v.fixture = d.fixture
         /\ v.id \in ReferencedValidators(n)
  BY <1>9 DEF Executes
<1>11. PICK r \in n.projections : v.id \in Own(n.validators, r, r.validators)
  BY <1>10, Zenon DEF ReferencedValidators
<1>12. v.id \in r.validators /\ ById(n.validators, v.id).projection = r.id
  BY <1>11 DEF Own
<1>13. ById(n.validators, v.id) = v
  <2>1. \A u \in n.validators : u.id = v.id => u = v
    BY <1>3, FirstsUnique, ManifestsAssumption
  <2> QED
    BY <2>1 DEF ById
<1>14. PICK p \in Normal(manifest.projections, "id") : r = NormalProjection(p)
  BY <1>3
<1>15. p.id = a.projection /\ v.id \in Normal(p.validators, "itself")
  BY <1>6, <1>10, <1>12, <1>13, <1>14 DEF NormalProjection
<1> QED
  BY <1>6, <1>8, <1>10, <1>15

(* An admissible manifest leaves nothing open, for every manifest, contract   *)
(* and policy of the caller.                                                  *)
THEOREM AdmissionIsClosed == AdmissionSpec => []AdmissibleIsClosed
<1>1. AdmissionInvariant => AdmissibleIsClosed
  <2> SUFFICES ASSUME AdmissionInvariant, report = {} PROVE AdmissibleIsClosed
    BY DEF AdmissibleIsClosed
  <2>1. stage \in {"report", "done"}
    BY ReportAssumption DEF AdmissionInvariant, StageInvariant
  <2>2. Judged /\ PolicyAccepted /\ policy \in Policies /\ manifest \in Manifests
    BY <2>1 DEF AdmissionInvariant, StageInvariant, AdmissionTyped
  <2> QED
    BY <2>2, OutputsAreOwned, DeclarationsAreCovered, LossesAreExecuted, Zenon
       DEF AdmissibleIsClosed
<1> QED
  BY <1>1, AdmissionHolds, PTL
=============================================================================
