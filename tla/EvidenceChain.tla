----------------------------- MODULE EvidenceChain -----------------------------
(***************************************************************************)
(* From two authored sources to an admission: check and compare runs of     *)
(* the command line (runCheck, runCompare, writeRunArtifacts and the catch  *)
(* of main) that share their report, SARIF and Contract IR paths, the       *)
(* TypeSpec compiler each check starts, an author who edits both sources    *)
(* meanwhile, and one verify-ir run (runConsumerVerification) that admits   *)
(* what they left.                                                          *)
(*                                                                          *)
(* A revision of a source is a member of Contracts: the names it declares   *)
(* and what it says about them.  A digest tells revisions apart; a TypeSpec *)
(* inventory reveals names only.  Reading one source is one step.           *)
(* Publishing one artifact is one step that lands or is refused, which is   *)
(* what ReceiptFile shows of the writer used here.                          *)
(***************************************************************************)
EXTENDS Integers, FiniteSets

CONSTANTS
  Checks,     \* validator processes, each of which may run again
  Modes,      \* commands they are run with: subset of {"check", "compare"}
  Contracts,  \* revisions: records [names, body]
  Dirs,       \* emitter output directories
  Verifies,   \* whether verify-ir is run
  WatchedDir, \* the directory whose generated schema verify-ir is given
  MaxRuns,    \* bound on runs
  MaxEdits,   \* bound on edits
  MaxKills,   \* bound on killed runs
  None, Asked \* neither of them a revision: nothing, and asked to read one

ASSUME ModesAssumption == Modes \subseteq {"check", "compare"} /\ None \notin {"check", "compare"}
ASSUME VerifierAssumption == Verifies \in BOOLEAN /\ WatchedDir \in Dirs
ASSUME BoundsAssumption == {MaxRuns, MaxEdits, MaxKills} \subseteq Nat
ASSUME NoneAssumption == None \notin Contracts \cup Checks \cup {Asked} /\ Asked \notin Contracts

VARIABLES
  source,    \* the revision of each authored source
  past,      \* pairs of revisions the two sources have had at one time
  dir,       \* output directory of each process
  generated, \* generated schema in each directory, None if there is none
  pc,        \* where each run is; its exit status when it has ended
  mode,      \* its command
  held,      \* what it read for the comparison
  reread,    \* what it read again
  compiler,  \* its compiler: None, Asked, or the revision it has read
  orphan,    \* a compiler that outlived its run, per directory
  report, sarif, contractIr,   \* the published artifacts
  verifier,  \* where verify-ir is; its exit status when it has ended
  evidence,  \* what verify-ir has read
  touched,   \* runs that had a source edited between the two digests of it
  stray,     \* a compiler has outlived its run
  alone,     \* the latest run, if nothing shared its paths or was refused
  runs, edits, kills

inputs    == <<source, past, edits, touched>>
emission  == <<generated, compiler, orphan, stray>>
process   == <<pc, mode, held, reread>>
artifacts == <<report, sarif, contractIr>>
consumer  == <<verifier, evidence>>
history   == <<alone, runs, kills>>
vars == <<inputs, dir, emission, process, artifacts, consumer, history>>

Authored == {"typespec", "authored"}
Lanes == Authored \cup {"generated"}
NoLanes == [lane \in Lanes |-> None]
Read(known, lane, value) == [known EXCEPT ![lane] = value]

Statuses == {"passed", "stopped_for_evaluation", "failed"}
Ended == Statuses \cup {"killed", "ready"}
Running == {c \in Checks : pc[c] \notin Ended}

\* A report names its outcome, its command and the digests of its inputs; a
\* failed one names none.  SARIF and Contract IR are made from a report.
Reports == [status : {"passed", "stopped_for_evaluation"}, mode : Modes,
            inputs : [Lanes -> Contracts \cup {None}]]
           \cup [status : {"failed"}, mode : {None}, inputs : {NoLanes}]
FailedReport == [status |-> "failed", mode |-> None, inputs |-> NoLanes]
Irs == [admissible : BOOLEAN, of : Reports]

Init ==
  /\ source \in [Authored -> Contracts]
  /\ past = {source}
  /\ dir \in [Checks -> Dirs]
  /\ generated = [d \in Dirs |-> None]
  /\ pc = [c \in Checks |-> "ready"]
  /\ mode = [c \in Checks |-> None]
  /\ held = [c \in Checks |-> NoLanes] /\ reread = [c \in Checks |-> NoLanes]
  /\ compiler = [c \in Checks |-> None]
  /\ orphan = [d \in Dirs |-> None]
  /\ report = None /\ sarif = None /\ contractIr = None
  /\ verifier = "ready"
  /\ evidence = [report |-> None, contractIr |-> None, inputs |-> NoLanes]
  /\ touched = {} /\ stray = FALSE /\ alone = None
  /\ runs = 0 /\ edits = 0 /\ kills = 0

-----------------------------------------------------------------------------
(* The author.                                                              *)

(* Where a run is between its two digests of a source. *)
Emitting(c, lane) ==
  /\ mode[c] = "check"
  /\ held[c][lane] # None /\ reread[c][lane] = None
  /\ pc[c] \in {"authored", "clean", "compile", "fallback", "locate", "again", "settle"}

(* A source gets a revision it has not had. *)
Edit(lane) ==
  /\ edits < MaxEdits
  /\ \E r \in Contracts \ {then[lane] : then \in past} :
       source' = [source EXCEPT ![lane] = r]
  /\ past' = past \cup {source'}
  /\ edits' = edits + 1
  /\ touched' = touched \cup {c \in Checks : Emitting(c, lane)}
  /\ UNCHANGED <<dir, emission, process, artifacts, consumer, history>>

-----------------------------------------------------------------------------
(* A run, up to its report.                                                 *)

Step(c, from, to) == pc[c] = from /\ pc' = [pc EXCEPT ![c] = to]
End(c, exit) ==   \* what a process knows goes with it
  /\ pc' = [pc EXCEPT ![c] = exit]
  /\ held' = [held EXCEPT ![c] = NoLanes] /\ reread' = [reread EXCEPT ![c] = NoLanes]
Throw(c) == pc' = [pc EXCEPT ![c] = "caught"]

Start(c) ==
  /\ pc[c] \in Ended /\ runs < MaxRuns
  /\ pc' = [pc EXCEPT ![c] = "typespec"]
  /\ \E m \in Modes : mode' = [mode EXCEPT ![c] = m]
  /\ touched' = touched \ {c}
  /\ alone' = IF Running = {} THEN c ELSE None
  /\ runs' = runs + 1
  /\ UNCHANGED <<source, past, edits, dir, emission, held, reread, artifacts, consumer, kills>>

(* inventoryTypeSpec, before anything else. *)
ReadTypeSpec(c) ==
  /\ Step(c, "typespec", IF mode[c] = "check" THEN "authored" ELSE "generated")
  /\ held' = [held EXCEPT ![c] = Read(@, "typespec", source["typespec"])]
  /\ UNCHANGED <<inputs, dir, emission, mode, reread, artifacts, consumer, history>>

ReadAuthored(c) ==
  /\ Step(c, "authored", IF mode[c] = "check" THEN "clean" ELSE "report")
  /\ held' = [held EXCEPT ![c] = Read(@, "authored", source["authored"])]
  /\ UNCHANGED <<inputs, dir, emission, mode, reread, artifacts, consumer, history>>

(* What an earlier emission left is removed and the compiler is started. *)
Clean(c) ==
  /\ Step(c, "clean", "compile")
  /\ generated' = [generated EXCEPT ![dir[c]] = None]
  /\ compiler' = [compiler EXCEPT ![c] = Asked]
  /\ UNCHANGED <<inputs, dir, orphan, stray, mode, held, reread, artifacts, consumer, history>>

CompilerReads(c) ==
  /\ compiler[c] = Asked
  /\ compiler' = [compiler EXCEPT ![c] = source["typespec"]]
  /\ UNCHANGED <<inputs, dir, generated, orphan, stray, process, artifacts, consumer, history>>

CompilerWrites(c) ==
  /\ compiler[c] \in Contracts
  /\ generated' = [generated EXCEPT ![dir[c]] = compiler[c]]
  /\ compiler' = [compiler EXCEPT ![c] = None]
  /\ pc' = [pc EXCEPT ![c] = "locate"]
  /\ UNCHANGED <<inputs, dir, orphan, stray, mode, held, reread, artifacts, consumer, history>>

(* Mutant of CompilerFails: the fallback is reported and goes on. *)
CompilerFailsLate(c) ==
  /\ pc[c] \in {"compile", "fallback"}
  /\ IF pc[c] = "compile"
     THEN /\ pc' = [pc EXCEPT ![c] = "fallback"]
          /\ compiler' = [compiler EXCEPT ![c] = Asked]
     ELSE Throw(c) /\ UNCHANGED compiler
  /\ UNCHANGED <<inputs, dir, generated, orphan, stray, mode, held, reread,
                 artifacts, consumer, history>>

(* The subprocess fails and the pinned compiler is tried; that fails too.  A *)
(* subprocess that cannot be started at all is not replaced.                *)
CompilerFails(c) ==
  /\ \/ /\ pc[c] = "compile"
        /\ pc' = [pc EXCEPT ![c] = "fallback"]
        /\ compiler' = [compiler EXCEPT ![c] = Asked]
     \/ /\ pc[c] = "fallback" \/ (pc[c] = "compile" /\ compiler[c] = Asked)
        /\ Throw(c)
        /\ compiler' = [compiler EXCEPT ![c] = None]
  /\ UNCHANGED <<inputs, dir, generated, orphan, stray, mode, held, reread,
                 artifacts, consumer, history>>

(* The generated schema must be where the emitter was told to put it. *)
Locate(c) ==
  /\ pc[c] = "locate"
  /\ IF generated[dir[c]] = None
     THEN Throw(c)
     ELSE pc' = [pc EXCEPT ![c] = "again"]
  /\ UNCHANGED <<inputs, dir, emission, mode, held, reread, artifacts, consumer, history>>

(* Mutant of ReadTypeSpecAgain: the inventory is taken from a cache. *)
ReadTypeSpecCached(c) ==
  /\ Step(c, "again", "settle")
  /\ reread' = [reread EXCEPT ![c] = Read(@, "typespec", held[c].typespec)]
  /\ UNCHANGED <<inputs, dir, emission, mode, held, artifacts, consumer, history>>

ReadTypeSpecAgain(c) ==
  /\ Step(c, "again", "settle")
  /\ reread' = [reread EXCEPT ![c] = Read(@, "typespec", source["typespec"])]
  /\ UNCHANGED <<inputs, dir, emission, mode, held, artifacts, consumer, history>>

(* Mutant of ReadAuthoredAgain: only the authored schema is compared. *)
ReadAuthoredAgainOnly(c) ==
  /\ pc[c] = "settle"
  /\ reread' = [reread EXCEPT ![c] = Read(@, "authored", source["authored"])]
  /\ IF source["authored"] = held[c].authored
     THEN pc' = [pc EXCEPT ![c] = "generated"]
     ELSE Throw(c)
  /\ UNCHANGED <<inputs, dir, emission, mode, held, artifacts, consumer, history>>

(* Both sources are read again before either digest is compared. *)
ReadAuthoredAgain(c) ==
  /\ pc[c] = "settle"
  /\ reread' = [reread EXCEPT ![c] = Read(@, "authored", source["authored"])]
  /\ IF \A lane \in Authored : reread'[c][lane] = held[c][lane]
     THEN pc' = [pc EXCEPT ![c] = "generated"]
     ELSE Throw(c)
  /\ UNCHANGED <<inputs, dir, emission, mode, held, artifacts, consumer, history>>

(* The generated schema: after emission in a check, as it is in a compare. *)
ReadGenerated(c) ==
  /\ pc[c] = "generated"
  /\ IF generated[dir[c]] = None
     THEN Throw(c) /\ UNCHANGED held
     ELSE /\ held' = [held EXCEPT ![c] = Read(@, "generated", generated[dir[c]])]
          /\ pc' = [pc EXCEPT ![c] = IF mode[c] = "check" THEN "report" ELSE "authored"]
  /\ UNCHANGED <<inputs, dir, emission, mode, reread, artifacts, consumer, history>>

(* A source, a schema or a fixture cannot be read, parsed or evaluated. *)
ReadFails(c) ==
  /\ pc[c] \in {"typespec", "authored", "clean", "again", "settle", "generated", "report",
                "rebuild"}
  /\ Throw(c)
  /\ UNCHANGED <<inputs, dir, emission, mode, held, reread, artifacts, consumer, history>>

-----------------------------------------------------------------------------
(* A run, from its report on.                                               *)

(* No difference in names, and none in what the two schemas say. *)
Parity(read) ==
  /\ read.typespec.names = read.generated.names
  /\ read.generated = read.authored

ReportOf(c) ==
  [status |-> IF Parity(held[c]) THEN "passed" ELSE "stopped_for_evaluation",
   mode |-> mode[c], inputs |-> held[c]]

(* A destination that is refused or fails. *)
Refuse(c) == alone' = IF alone = c THEN None ELSE alone

WriteReport(c) ==
  /\ pc[c] = "report"
  /\ \/ /\ report' = ReportOf(c)
        /\ pc' = [pc EXCEPT ![c] = "sarif"]
        /\ UNCHANGED alone
     \/ Throw(c) /\ Refuse(c) /\ UNCHANGED report
  /\ UNCHANGED <<inputs, dir, emission, mode, held, reread, sarif, contractIr, consumer, runs, kills>>

(* A passed run goes on to read everything again for its Contract IR. *)
WriteSarif(c) ==
  /\ pc[c] = "sarif"
  /\ \/ /\ sarif' = ReportOf(c)
        /\ pc' = [pc EXCEPT ![c] = IF ReportOf(c).status = "passed" THEN "rebuild" ELSE "contractIr"]
        /\ UNCHANGED alone
     \/ Throw(c) /\ Refuse(c) /\ UNCHANGED sarif
  /\ reread' = [reread EXCEPT ![c] = NoLanes]
  /\ UNCHANGED <<inputs, dir, emission, mode, held, report, contractIr, consumer, runs, kills>>

(* What is on disk for a lane, with the schema of directory d. *)
Current(lane, d) == IF lane = "generated" THEN generated[d] ELSE source[lane]

(* buildContractIr loads the three lanes at once: they arrive in any order. *)
LoadLane(c) ==
  /\ pc[c] = "rebuild"
  /\ \E lane \in Lanes :
       /\ reread[c][lane] = None
       /\ LET value == Current(lane, dir[c]) IN
          IF value = None
          THEN Throw(c) /\ UNCHANGED reread
          ELSE /\ reread' = [reread EXCEPT ![c] = Read(@, lane, value)]
               /\ pc' = IF \E other \in Lanes \ {lane} : reread[c][other] = None
                        THEN pc ELSE [pc EXCEPT ![c] = "contractIr"]
  /\ UNCHANGED <<inputs, dir, emission, mode, held, artifacts, consumer, history>>

(* Mutant of Admissible: the TypeSpec digest is not compared. *)
AdmissibleSchemas(of, read) ==
  of.status = "passed" /\ of.inputs.generated = read.generated /\ of.inputs.authored = read.authored

(* createContractIr: a passed report that still describes what was read. *)
Admissible(of, read) ==
  /\ of.status = "passed"
  /\ of.inputs = read

(* The Contract IR of a passed report, or the tombstone of one that is not. *)
WriteContractIr(c) ==
  /\ pc[c] = "contractIr"
  /\ LET of == ReportOf(c)
         passed == of.status = "passed"
     IN  \/ /\ passed => Admissible(of, reread[c])
            /\ contractIr' = [admissible |-> passed, of |-> of]
            /\ End(c, of.status)
            /\ UNCHANGED alone
         \/ /\ passed /\ ~Admissible(of, reread[c])
            /\ Throw(c) /\ UNCHANGED <<held, reread, contractIr, alone>>
         \/ Throw(c) /\ Refuse(c) /\ UNCHANGED <<held, reread, contractIr>>
  /\ UNCHANGED <<inputs, dir, emission, mode, report, sarif, consumer, runs, kills>>

(* The catch of main: three more writes, none of which stops the next. *)
FailReport(c) ==
  /\ Step(c, "caught", "caught-sarif")
  /\ \/ report' = FailedReport /\ UNCHANGED alone
     \/ UNCHANGED report /\ Refuse(c)
  /\ UNCHANGED <<inputs, dir, emission, mode, held, reread, sarif, contractIr, consumer, runs, kills>>

FailSarif(c) ==
  /\ Step(c, "caught-sarif", "caught-ir")
  /\ \/ sarif' = FailedReport /\ UNCHANGED alone
     \/ UNCHANGED sarif /\ Refuse(c)
  /\ UNCHANGED <<inputs, dir, emission, mode, held, reread, report, contractIr, consumer, runs, kills>>

(* Mutant of FailContractIr: the tombstone is left to the next run. *)
FailContractIrLeft(c) ==
  /\ pc[c] = "caught-ir" /\ End(c, "failed")
  /\ UNCHANGED <<inputs, dir, emission, mode, artifacts, consumer, history>>

FailContractIr(c) ==
  /\ pc[c] = "caught-ir" /\ End(c, "failed")
  /\ \/ contractIr' = [admissible |-> FALSE, of |-> FailedReport] /\ UNCHANGED alone
     \/ UNCHANGED contractIr /\ Refuse(c)
  /\ UNCHANGED <<inputs, dir, emission, mode, report, sarif, consumer, runs, kills>>

(* A run is killed.  A compiler subprocess it started may go on alone.      *)
Kill(c) ==
  /\ c \in Running /\ kills < MaxKills
  /\ kills' = kills + 1
  /\ End(c, "killed")
  /\ compiler' = [compiler EXCEPT ![c] = None]
  /\ \/ /\ pc[c] = "compile" /\ compiler[c] # None /\ orphan[dir[c]] = None
        /\ orphan' = [orphan EXCEPT ![dir[c]] = compiler[c]]
        /\ stray' = TRUE
     \/ UNCHANGED <<orphan, stray>>
  /\ UNCHANGED <<inputs, dir, generated, mode, artifacts, consumer, alone, runs>>

OrphanReads(d) ==
  /\ orphan[d] = Asked
  /\ orphan' = [orphan EXCEPT ![d] = source["typespec"]]
  /\ UNCHANGED <<inputs, dir, generated, compiler, stray, process, artifacts, consumer, history>>

OrphanWrites(d) ==
  /\ orphan[d] \in Contracts
  /\ generated' = [generated EXCEPT ![d] = orphan[d]]
  /\ orphan' = [orphan EXCEPT ![d] = None]
  /\ UNCHANGED <<inputs, dir, compiler, stray, process, artifacts, consumer, history>>

-----------------------------------------------------------------------------
(* verify-ir.                                                               *)

(* The two artifacts, in any order; without either the receipt is failed.   *)
VerifierReadsReport ==
  /\ Verifies
  /\ verifier \in {"ready", "has-ir"}
  /\ evidence' = [evidence EXCEPT !.report = report]
  /\ verifier' = IF verifier = "ready" THEN "has-report" ELSE "reading"
  /\ UNCHANGED <<inputs, dir, emission, process, artifacts, history>>

VerifierReadsIr ==
  /\ Verifies
  /\ verifier \in {"ready", "has-report"}
  /\ evidence' = [evidence EXCEPT !.contractIr = contractIr]
  /\ verifier' = IF verifier = "ready" THEN "has-ir" ELSE "reading"
  /\ UNCHANGED <<inputs, dir, emission, process, artifacts, history>>

(* What verifyConsumerContract asks of the two artifacts before any lane.   *)
Presentable(e) == e.report # None /\ e.contractIr # None /\ e.contractIr.admissible

(* The three lanes from the caller's own paths, in any order.               *)
VerifierReadsLane ==
  /\ verifier = "reading" /\ Presentable(evidence)
  /\ \E lane \in Lanes :
       /\ evidence.inputs[lane] = None
       /\ Current(lane, WatchedDir) # None
       /\ evidence' = [evidence EXCEPT !.inputs = Read(@, lane, Current(lane, WatchedDir))]
  /\ UNCHANGED <<inputs, dir, emission, process, artifacts, verifier, history>>

(* verifyConsumerContract: an admissible IR, the one that the report and the *)
(* current inputs make.                                                     *)
Admits(e) ==
  /\ Presentable(e)
  /\ Admissible(e.report, e.inputs)
  /\ e.contractIr.of = e.report

(* The receipt is written, or its write is refused.  runConsumerVerification *)
(* is returned and not awaited, so that rejection passes the catch of main.  *)
Verify ==
  /\ verifier = "reading"
  /\ \/ None \notin {evidence.inputs[lane] : lane \in Lanes}
     \/ ~Presentable(evidence)
     \/ \E lane \in Lanes : evidence.inputs[lane] = None /\ Current(lane, WatchedDir) = None
  /\ \/ verifier' = IF Admits(evidence) THEN "passed" ELSE "failed"
     \/ verifier' = "crashed"
  /\ UNCHANGED <<inputs, dir, emission, process, artifacts, evidence, history>>

-----------------------------------------------------------------------------
RunStep(c) ==
  \/ Start(c) \/ ReadTypeSpec(c) \/ ReadAuthored(c) \/ Clean(c) \/ CompilerReads(c)
  \/ CompilerWrites(c) \/ CompilerFails(c) \/ Locate(c) \/ ReadTypeSpecAgain(c)
  \/ ReadAuthoredAgain(c) \/ ReadGenerated(c) \/ ReadFails(c) \/ WriteReport(c)
  \/ WriteSarif(c) \/ LoadLane(c) \/ WriteContractIr(c) \/ FailReport(c) \/ FailSarif(c)
  \/ FailContractIr(c) \/ Kill(c)
OrphanStep(d) == OrphanReads(d) \/ OrphanWrites(d)
VerifierStep == VerifierReadsReport \/ VerifierReadsIr \/ VerifierReadsLane \/ Verify

Next ==
  \/ \E lane \in Authored : Edit(lane)
  \/ \E c \in Checks : RunStep(c)
  \/ \E d \in Dirs : OrphanStep(d)
  \/ VerifierStep

Spec == Init /\ [][Next]_vars

-----------------------------------------------------------------------------
(* Properties.                                                              *)

Points == {"typespec", "authored", "clean", "compile", "fallback", "locate", "again",
           "settle", "generated", "report", "sarif", "rebuild", "contractIr",
           "caught", "caught-sarif", "caught-ir"}

(* Every variable has its type; a compiler runs while its check waits.      *)
TypeOK ==
  /\ source \in [Authored -> Contracts] /\ past \subseteq [Authored -> Contracts]
  /\ source \in past
  /\ dir \in [Checks -> Dirs]
  /\ generated \in [Dirs -> Contracts \cup {None}]
  /\ pc \in [Checks -> Points \cup Ended] /\ mode \in [Checks -> Modes \cup {None}]
  /\ held \in [Checks -> [Lanes -> Contracts \cup {None}]]
  /\ reread \in [Checks -> [Lanes -> Contracts \cup {None}]]
  /\ compiler \in [Checks -> Contracts \cup {None, Asked}]
  /\ \A c \in Checks : compiler[c] # None <=> pc[c] \in {"compile", "fallback"}
  /\ orphan \in [Dirs -> Contracts \cup {None, Asked}]
  /\ report \in Reports \cup {None} /\ sarif \in Reports \cup {None}
  /\ contractIr \in Irs \cup {None}
  /\ verifier \in {"ready", "has-report", "has-ir", "reading", "passed", "failed", "crashed"}
  /\ evidence \in [report : Reports \cup {None}, contractIr : Irs \cup {None},
                  inputs : [Lanes -> Contracts \cup {None}]]
  /\ touched \subseteq Checks /\ stray \in BOOLEAN /\ alone \in Checks \cup {None}
  /\ runs \in 0 .. MaxRuns /\ edits \in 0 .. MaxEdits /\ kills \in 0 .. MaxKills

(* Each directory belongs to one process, and no compiler outlived its run. *)
Isolated == ~stray /\ \A c, k \in Checks : dir[c] = dir[k] => c = k

Green(r) == r # None /\ r.status = "passed"

(* runCheck: a passed check means that the TypeSpec source and the authored  *)
(* schema say the same, although the run compares the authored schema only   *)
(* with what the compiler made of the TypeSpec source at some moment.        *)
GreenIsTrue ==
  Isolated =>
    \A r \in {report, sarif, evidence.report} :
      Green(r) /\ r.mode = "check" => r.inputs.typespec = r.inputs.authored

(* Two revisions that the sources had at one time. *)
Together(read) == [lane \in Authored |-> read[lane]] \in past

(* runCheck, createContractIr and verifyConsumerContract: although sources   *)
(* are read one after the other while they are edited, a check's report, an  *)
(* admissible Contract IR (of a compare too) and an admission each describe  *)
(* two revisions that existed together, whoever shares their paths.          *)
CertifiedTogether ==
  /\ \A r \in {report, sarif} :
       r # None /\ r.mode = "check" => Together(r.inputs)
  /\ contractIr # None /\ contractIr.admissible => Together(contractIr.of.inputs)
  /\ verifier = "passed" => Together(evidence.inputs)

(* runCheck: a run does not reach a verdict when a source was edited between *)
(* its two digests of that source.                                           *)
EditsAreNoticed ==
  \A c \in touched : pc[c] \notin {"generated", "report", "sarif", "rebuild", "contractIr",
                                   "passed", "stopped_for_evaluation"}

(* main: a run that ends by itself, shared its paths with no other run and   *)
(* had no write refused leaves a report, a SARIF file and a Contract IR that *)
(* tell one story, which is its exit status, whatever was there before and   *)
(* wherever it threw.                                                        *)
LoneRunTellsOneStory ==
  alone # None /\ pc[alone] \in Statuses =>
    /\ report.status = pc[alone]
    /\ sarif = report
    /\ contractIr = [admissible |-> pc[alone] = "passed", of |-> report]

(* verify-ir: the two sources that it admits say the same, although it reads *)
(* the report, the Contract IR and the three lanes at different moments and  *)
(* compares no TypeSpec source with any schema.                              *)
AdmittedIsTrue ==
  Isolated /\ verifier = "passed" /\ evidence.report.mode = "check" =>
    evidence.inputs.typespec = evidence.inputs.authored

(* docs/consumer-verification.md: verify-ir exits with 0 or with 3.          *)
VerifierExits == verifier # "crashed"
=============================================================================
