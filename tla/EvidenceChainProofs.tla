-------------------------- MODULE EvidenceChainProofs --------------------------
(***************************************************************************)
(* What a verdict is worth when sources are edited while they are read: for *)
(* any number of runs, output directories, edits and kills.  The argument   *)
(* rests on one fact, that a source never goes back to a revision it has    *)
(* had: a digest that no longer names the source, and has not been taken    *)
(* again since, can never again be confirmed (Outdated, OutdatedStays).     *)
(* So a run that confirms both digests had two revisions that were current  *)
(* together, and its compiler, if alone in its directory, read the one that *)
(* was confirmed.                                                           *)
(***************************************************************************)
EXTENDS EvidenceChain, TLAPS

(* A run that has not ended has a command. *)
ModeKnown == \A c \in Checks : pc[c] \in Points => mode[c] \in Modes
Typed == TypeOK /\ ModeKnown

(* One lane of one process gets a value of its type. *)
LEMMA ReadOne ==
  ASSUME NEW f \in [Checks -> [Lanes -> Contracts \cup {None}]], NEW c \in Checks,
         NEW lane \in Lanes, NEW v \in Contracts \cup {None}
  PROVE  [f EXCEPT ![c] = Read(f[c], lane, v)] \in [Checks -> [Lanes -> Contracts \cup {None}]]
  BY DEF Read

(* A run makes a report, and not a failed one. *)
LEMMA ReportOfType ==
  ASSUME Typed, NEW c \in Checks, pc[c] \in Points
  PROVE  ReportOf(c) \in Reports /\ ReportOf(c).status \in {"passed", "stopped_for_evaluation"}
  BY DEF Typed, TypeOK, ModeKnown, ReportOf, Reports

LEMMA NoLanesType == NoLanes \in [Lanes -> Contracts \cup {None}]
  BY DEF NoLanes

(* A step of a run outside of its compilation keeps the types. *)
LEMMA MovesOn ==
  ASSUME Typed, NEW c \in Checks, pc[c] \in Points \ {"compile", "fallback"},
         NEW to \in (Points \cup Ended) \ {"compile", "fallback"},
         pc' = [pc EXCEPT ![c] = to], mode' = mode, compiler' = compiler
  PROVE  /\ pc' \in [Checks -> Points \cup Ended] /\ ModeKnown'
         /\ \A k \in Checks : compiler'[k] # None <=> pc'[k] \in {"compile", "fallback"}
  BY DEF Typed, TypeOK, ModeKnown

LEMMA FailedType ==
  /\ FailedReport \in Reports
  /\ [admissible |-> FALSE, of |-> FailedReport] \in Irs
  BY DEF FailedReport, Reports, Irs

(* What is on disk for a lane is a revision or nothing. *)
LEMMA CurrentType ==
  ASSUME TypeOK, NEW lane \in Lanes, NEW d \in Dirs
  PROVE  Current(lane, d) \in Contracts \cup {None}
  BY DEF TypeOK, Current, Lanes

LEMMA Bounds == MaxRuns \in Nat /\ MaxEdits \in Nat /\ MaxKills \in Nat
  BY BoundsAssumption

(* The types hold at first, and every action keeps them. *)
LEMMA InitTyped == Init => Typed
<1> SUFFICES ASSUME Init PROVE Typed
  OBVIOUS
<1> USE NoLanesType, BoundsAssumption, NoneAssumption
<1>1. /\ source \in [Authored -> Contracts] /\ past \subseteq [Authored -> Contracts]
      /\ source \in past /\ dir \in [Checks -> Dirs]
      /\ generated \in [Dirs -> Contracts \cup {None}]
  BY DEF Init
<1>2. /\ pc \in [Checks -> Points \cup Ended] /\ mode \in [Checks -> Modes \cup {None}]
      /\ held \in [Checks -> [Lanes -> Contracts \cup {None}]]
      /\ reread \in [Checks -> [Lanes -> Contracts \cup {None}]]
      /\ compiler \in [Checks -> Contracts \cup {None, Asked}]
      /\ \A c \in Checks : compiler[c] # None <=> pc[c] \in {"compile", "fallback"}
  BY DEF Init, Ended
<1>3. evidence \in [report : Reports \cup {None}, contractIr : Irs \cup {None},
                   inputs : [Lanes -> Contracts \cup {None}]]
  BY DEF Init
<1>4. TypeOK
  <2>1. orphan \in [Dirs -> Contracts \cup {None, Asked}]
    BY DEF Init
  <2>2. runs \in 0 .. MaxRuns /\ edits \in 0 .. MaxEdits /\ kills \in 0 .. MaxKills
    BY Bounds DEF Init
  <2>3. touched \subseteq Checks /\ stray \in BOOLEAN /\ alone \in Checks \cup {None}
    BY DEF Init
  <2> QED
    BY <1>1, <1>2, <1>3, <2>1, <2>2, <2>3 DEF Init, TypeOK
<1>5. ModeKnown
  BY DEF Init, ModeKnown, Points
<1> QED
  BY <1>4, <1>5 DEF Typed

LEMMA NextTyped == Typed /\ [Next]_vars => Typed'
<1> SUFFICES ASSUME Typed, [Next]_vars PROVE Typed'
  OBVIOUS
<1> USE NoLanesType, CurrentType, Bounds, NoneAssumption, VerifierAssumption
    DEF Typed, ModeKnown, inputs, emission, process, artifacts, consumer, history
<1>1. ASSUME NEW lane \in Authored, Edit(lane) PROVE Typed'
  <2>1. source' \in [Authored -> Contracts]
    BY <1>1 DEF Edit, TypeOK
  <2>2. touched' \subseteq Checks /\ past' = past \cup {source'}
    BY <1>1 DEF Edit, TypeOK
  <2>3. past' \subseteq [Authored -> Contracts] /\ source' \in past'
    BY <2>1, <2>2 DEF TypeOK
  <2>4. edits' \in 0 .. MaxEdits
    BY <1>1 DEF Edit, TypeOK
  <2> QED
    BY <1>1, <2>1, <2>2, <2>3, <2>4 DEF Edit, TypeOK
<1>2. ASSUME NEW c \in Checks, Start(c) PROVE Typed'
  BY <1>2 DEF Start, TypeOK, Points, Ended, Statuses
<1>3. ASSUME NEW c \in Checks, ReadTypeSpec(c) PROVE Typed'
  <2>1. /\ pc' \in [Checks -> Points \cup Ended] /\ ModeKnown'
        /\ \A k \in Checks : compiler'[k] # None <=> pc'[k] \in {"compile", "fallback"}
    BY <1>3 DEF ReadTypeSpec, Step, TypeOK, Points, Ended, Statuses
  <2>2. held' \in [Checks -> [Lanes -> Contracts \cup {None}]]
    BY <1>3, ReadOne DEF ReadTypeSpec, Step, TypeOK, Lanes, Authored
  <2> QED
    BY <1>3, <2>1, <2>2 DEF ReadTypeSpec, Step, TypeOK
<1>4. ASSUME NEW c \in Checks, ReadAuthored(c) PROVE Typed'
  <2>1. /\ pc' \in [Checks -> Points \cup Ended] /\ ModeKnown'
        /\ \A k \in Checks : compiler'[k] # None <=> pc'[k] \in {"compile", "fallback"}
    BY <1>4 DEF ReadAuthored, Step, TypeOK, Points, Ended, Statuses
  <2>2. held' \in [Checks -> [Lanes -> Contracts \cup {None}]]
    BY <1>4, ReadOne DEF ReadAuthored, Step, TypeOK, Lanes, Authored
  <2> QED
    BY <1>4, <2>1, <2>2 DEF ReadAuthored, Step, TypeOK
<1>5. ASSUME NEW c \in Checks, Clean(c) PROVE Typed'
  BY <1>5 DEF Clean, Step, TypeOK, Points, Ended, Statuses
<1>6. ASSUME NEW c \in Checks, CompilerReads(c) PROVE Typed'
  BY <1>6 DEF CompilerReads, TypeOK, Authored
<1>7. ASSUME NEW c \in Checks, CompilerWrites(c) PROVE Typed'
  BY <1>7 DEF CompilerWrites, TypeOK, Points
<1>8. ASSUME NEW c \in Checks, CompilerFails(c) PROVE Typed'
  <2> DEFINE Failing(to, left) == /\ pc[c] \in {"compile", "fallback"}
                                  /\ pc' = [pc EXCEPT ![c] = to]
                                  /\ compiler' = [compiler EXCEPT ![c] = left]
  <2>0. Failing("fallback", Asked) \/ Failing("caught", None)
    BY <1>8 DEF CompilerFails, Throw
  <2>1. /\ pc' \in [Checks -> Points \cup Ended]
        /\ compiler' \in [Checks -> Contracts \cup {None, Asked}]
    <3>1. CASE Failing("fallback", Asked)
      BY <3>1 DEF TypeOK, Points
    <3>2. CASE Failing("caught", None)
      BY <3>2 DEF TypeOK, Points
    <3> QED
      BY <2>0, <3>1, <3>2
  <2>2. \A k \in Checks : compiler'[k] # None <=> pc'[k] \in {"compile", "fallback"}
    <3>1. CASE Failing("fallback", Asked)
      BY <3>1 DEF TypeOK
    <3>2. CASE Failing("caught", None)
      BY <3>2 DEF TypeOK
    <3> QED
      BY <2>0, <3>1, <3>2
  <2> HIDE DEF Failing
  <2>3. ModeKnown'
    BY <1>8, <2>1 DEF CompilerFails, Throw, TypeOK, Points
  <2> QED
    BY <1>8, <2>1, <2>2, <2>3 DEF CompilerFails, TypeOK
<1>9. ASSUME NEW c \in Checks, Locate(c) PROVE Typed'
  <2>1. /\ pc' \in [Checks -> Points \cup Ended] /\ ModeKnown'
        /\ \A k \in Checks : compiler'[k] # None <=> pc'[k] \in {"compile", "fallback"}
    <3>1. PICK to \in (Points \cup Ended) \ {"compile", "fallback"} :
            pc' = [pc EXCEPT ![c] = to]
      BY <1>9 DEF Locate, Throw, TypeOK, Points, Ended, Statuses
    <3> QED
      BY <1>9, <3>1, MovesOn DEF Locate, Points
  <2> QED
    BY <1>9, <2>1 DEF Locate, Throw, TypeOK
<1>10. ASSUME NEW c \in Checks, ReadTypeSpecAgain(c) PROVE Typed'
  <2>1. /\ pc' \in [Checks -> Points \cup Ended] /\ ModeKnown'
        /\ \A k \in Checks : compiler'[k] # None <=> pc'[k] \in {"compile", "fallback"}
    BY <1>10, MovesOn DEF ReadTypeSpecAgain, Step, Points
  <2>2. reread' \in [Checks -> [Lanes -> Contracts \cup {None}]]
    BY <1>10, ReadOne DEF ReadTypeSpecAgain, TypeOK, Lanes, Authored
  <2> QED
    BY <1>10, <2>1, <2>2 DEF ReadTypeSpecAgain, TypeOK
<1>11. ASSUME NEW c \in Checks, ReadAuthoredAgain(c) PROVE Typed'
  <2>1. /\ pc' \in [Checks -> Points \cup Ended] /\ ModeKnown'
        /\ \A k \in Checks : compiler'[k] # None <=> pc'[k] \in {"compile", "fallback"}
    <3>1. PICK to \in (Points \cup Ended) \ {"compile", "fallback"} :
            pc' = [pc EXCEPT ![c] = to]
      BY <1>11 DEF ReadAuthoredAgain, Throw, TypeOK, Points, Ended, Statuses
    <3> QED
      BY <1>11, <3>1, MovesOn DEF ReadAuthoredAgain, Points
  <2>2. reread' \in [Checks -> [Lanes -> Contracts \cup {None}]]
    BY <1>11, ReadOne DEF ReadAuthoredAgain, Throw, TypeOK, Lanes, Authored
  <2> QED
    BY <1>11, <2>1, <2>2 DEF ReadAuthoredAgain, Throw, TypeOK
<1>12. ASSUME NEW c \in Checks, ReadGenerated(c) PROVE Typed'
  <2>1. /\ pc' \in [Checks -> Points \cup Ended] /\ ModeKnown'
        /\ \A k \in Checks : compiler'[k] # None <=> pc'[k] \in {"compile", "fallback"}
    <3>1. PICK to \in (Points \cup Ended) \ {"compile", "fallback"} :
            pc' = [pc EXCEPT ![c] = to]
      BY <1>12 DEF ReadGenerated, Throw, TypeOK, Points, Ended, Statuses
    <3> QED
      BY <1>12, <3>1, MovesOn DEF ReadGenerated, Points
  <2>2. held' \in [Checks -> [Lanes -> Contracts \cup {None}]]
    <3>1. "generated" \in Lanes /\ generated[dir[c]] \in Contracts \cup {None}
      BY DEF Lanes, TypeOK
    <3>2. held' \in {held, [held EXCEPT ![c] = Read(held[c], "generated", generated[dir[c]])]}
      BY <1>12 DEF ReadGenerated
    <3>3. [held EXCEPT ![c] = Read(held[c], "generated", generated[dir[c]])]
            \in [Checks -> [Lanes -> Contracts \cup {None}]]
      BY <3>1, ReadOne DEF TypeOK
    <3> QED
      BY <3>2, <3>3 DEF TypeOK
  <2> QED
    BY <1>12, <2>1, <2>2 DEF ReadGenerated, Throw, TypeOK
<1>13. ASSUME NEW c \in Checks, ReadFails(c) PROVE Typed'
  BY <1>13 DEF ReadFails, Throw, TypeOK, Points
<1>14. ASSUME NEW c \in Checks, WriteReport(c) PROVE Typed'
  <2>1. /\ pc' \in [Checks -> Points \cup Ended] /\ ModeKnown'
        /\ \A k \in Checks : compiler'[k] # None <=> pc'[k] \in {"compile", "fallback"}
    <3>1. PICK to \in (Points \cup Ended) \ {"compile", "fallback"} :
            pc' = [pc EXCEPT ![c] = to]
      BY <1>14 DEF WriteReport, Throw, TypeOK, Points, Ended, Statuses
    <3> QED
      BY <1>14, <3>1, MovesOn DEF WriteReport, Points
  <2>2. /\ report' \in Reports \cup {None} /\ sarif' \in Reports \cup {None}
        /\ contractIr' \in Irs \cup {None} /\ alone' \in Checks \cup {None}
    BY <1>14, ReportOfType, FailedType DEF WriteReport, Throw, TypeOK, Points, Irs, Refuse
  <2> QED
    BY <1>14, <2>1, <2>2 DEF WriteReport, Throw, TypeOK
<1>15. ASSUME NEW c \in Checks, WriteSarif(c) PROVE Typed'
  <2>1. /\ pc' \in [Checks -> Points \cup Ended] /\ ModeKnown'
        /\ \A k \in Checks : compiler'[k] # None <=> pc'[k] \in {"compile", "fallback"}
    <3>1. PICK to \in (Points \cup Ended) \ {"compile", "fallback"} :
            pc' = [pc EXCEPT ![c] = to]
      BY <1>15 DEF WriteSarif, Throw, TypeOK, Points, Ended, Statuses
    <3> QED
      BY <1>15, <3>1, MovesOn DEF WriteSarif, Points
  <2>2. reread' \in [Checks -> [Lanes -> Contracts \cup {None}]]
    BY <1>15, ReadOne DEF WriteSarif, Throw, TypeOK, Lanes, Authored
  <2>3. /\ report' \in Reports \cup {None} /\ sarif' \in Reports \cup {None}
        /\ contractIr' \in Irs \cup {None} /\ alone' \in Checks \cup {None}
    BY <1>15, ReportOfType, FailedType DEF WriteSarif, Throw, TypeOK, Points, Irs, Refuse
  <2> QED
    BY <1>15, <2>1, <2>2, <2>3 DEF WriteSarif, Throw, TypeOK
<1>16. ASSUME NEW c \in Checks, LoadLane(c) PROVE Typed'
  <2>1. /\ pc' \in [Checks -> Points \cup Ended] /\ ModeKnown'
        /\ \A k \in Checks : compiler'[k] # None <=> pc'[k] \in {"compile", "fallback"}
    <3>1. PICK to \in (Points \cup Ended) \ {"compile", "fallback"} :
            pc' = [pc EXCEPT ![c] = to]
      BY <1>16 DEF LoadLane, Throw, TypeOK, Points, Ended, Statuses
    <3> QED
      BY <1>16, <3>1, MovesOn DEF LoadLane, Points
  <2>2. reread' \in [Checks -> [Lanes -> Contracts \cup {None}]]
    <3>1. PICK lane \in Lanes :
            reread' \in {reread, [reread EXCEPT ![c] = Read(reread[c], lane, Current(lane, dir[c]))]}
      BY <1>16 DEF LoadLane
    <3>2. Current(lane, dir[c]) \in Contracts \cup {None}
      BY DEF TypeOK
    <3>3. [reread EXCEPT ![c] = Read(reread[c], lane, Current(lane, dir[c]))]
            \in [Checks -> [Lanes -> Contracts \cup {None}]]
      BY <3>2, ReadOne DEF TypeOK
    <3> QED
      BY <3>1, <3>3 DEF TypeOK
  <2> QED
    BY <1>16, <2>1, <2>2 DEF LoadLane, Throw, TypeOK
<1>17. ASSUME NEW c \in Checks, WriteContractIr(c) PROVE Typed'
  <2>1. /\ pc' \in [Checks -> Points \cup Ended] /\ ModeKnown'
        /\ \A k \in Checks : compiler'[k] # None <=> pc'[k] \in {"compile", "fallback"}
    <3>1. PICK to \in (Points \cup Ended) \ {"compile", "fallback"} :
            pc' = [pc EXCEPT ![c] = to]
      BY <1>17 DEF WriteContractIr, End, Throw, ReportOf, TypeOK, Points, Ended, Statuses
    <3> QED
      BY <1>17, <3>1, MovesOn DEF WriteContractIr, Points
  <2>2. /\ held' \in {held, [held EXCEPT ![c] = NoLanes]}
        /\ reread' \in {reread, [reread EXCEPT ![c] = NoLanes]}
    BY <1>17 DEF WriteContractIr, End
  <2>3. /\ held' \in [Checks -> [Lanes -> Contracts \cup {None}]]
        /\ reread' \in [Checks -> [Lanes -> Contracts \cup {None}]]
    <3>1. /\ [held EXCEPT ![c] = NoLanes] \in [Checks -> [Lanes -> Contracts \cup {None}]]
          /\ [reread EXCEPT ![c] = NoLanes] \in [Checks -> [Lanes -> Contracts \cup {None}]]
      BY DEF TypeOK
    <3> QED
      BY <2>2, <3>1 DEF TypeOK
  <2>4. contractIr' \in Irs \cup {None} /\ alone' \in Checks \cup {None}
    <3>1. ReportOf(c) \in Reports
      BY <1>17, ReportOfType DEF WriteContractIr, Points
    <3>2. [admissible |-> ReportOf(c).status = "passed", of |-> ReportOf(c)] \in Irs
      BY <3>1 DEF Irs
    <3> QED
      BY <1>17, <3>2 DEF WriteContractIr, Refuse, TypeOK
  <2> QED
    BY <1>17, <2>1, <2>2, <2>3, <2>4 DEF WriteContractIr, End, Throw, TypeOK
<1>18. ASSUME NEW c \in Checks, FailReport(c) PROVE Typed'
  BY <1>18 DEF FailReport, FailedReport, Reports, Step, Refuse, TypeOK, Points
<1>19. ASSUME NEW c \in Checks, FailSarif(c) PROVE Typed'
  BY <1>19 DEF FailSarif, FailedReport, Reports, Step, Refuse, TypeOK, Points
<1>20. ASSUME NEW c \in Checks, FailContractIr(c) PROVE Typed'
  <2>1. /\ pc' \in [Checks -> Points \cup Ended] /\ ModeKnown'
        /\ \A k \in Checks : compiler'[k] # None <=> pc'[k] \in {"compile", "fallback"}
    BY <1>20 DEF FailContractIr, End, TypeOK, Points, Ended, Statuses
  <2>2. held' \in [Checks -> [Lanes -> Contracts \cup {None}]]
    BY <1>20, ReadOne DEF FailContractIr, End, TypeOK, Lanes, Authored
  <2>3. reread' \in [Checks -> [Lanes -> Contracts \cup {None}]]
    BY <1>20, ReadOne DEF FailContractIr, End, TypeOK, Lanes, Authored
  <2>4. /\ report' \in Reports \cup {None} /\ sarif' \in Reports \cup {None}
        /\ contractIr' \in Irs \cup {None} /\ alone' \in Checks \cup {None}
    BY <1>20, ReportOfType, FailedType DEF FailContractIr, End, TypeOK, Points, Irs, Refuse
  <2> QED
    BY <1>20, <2>1, <2>2, <2>3, <2>4 DEF FailContractIr, End, TypeOK
<1>21. ASSUME NEW c \in Checks, Kill(c) PROVE Typed'
  <2>1. pc[c] \in Points /\ pc' = [pc EXCEPT ![c] = "killed"]
    BY <1>21 DEF Kill, Running, End, TypeOK
  <2>2. /\ pc' \in [Checks -> Points \cup Ended] /\ ModeKnown'
        /\ \A k \in Checks : compiler'[k] # None <=> pc'[k] \in {"compile", "fallback"}
    BY <1>21, <2>1 DEF Kill, TypeOK, Points, Ended
  <2>3. /\ held' \in [Checks -> [Lanes -> Contracts \cup {None}]]
        /\ reread' \in [Checks -> [Lanes -> Contracts \cup {None}]]
    BY <1>21 DEF Kill, End, TypeOK
  <2>4. /\ compiler' \in [Checks -> Contracts \cup {None, Asked}]
        /\ orphan' \in [Dirs -> Contracts \cup {None, Asked}] /\ stray' \in BOOLEAN
    BY <1>21 DEF Kill, TypeOK
  <2>5. kills' \in 0 .. MaxKills
    BY <1>21 DEF Kill, TypeOK
  <2> QED
    BY <1>21, <2>2, <2>3, <2>4, <2>5 DEF Kill, TypeOK
<1>22. ASSUME NEW d \in Dirs, OrphanReads(d) PROVE Typed'
  BY <1>22 DEF OrphanReads, TypeOK, Authored
<1>23. ASSUME NEW d \in Dirs, OrphanWrites(d) PROVE Typed'
  BY <1>23 DEF OrphanWrites, TypeOK
<1>24. CASE VerifierReadsReport
  BY <1>24 DEF VerifierReadsReport, TypeOK
<1>25. CASE VerifierReadsIr
  BY <1>25 DEF VerifierReadsIr, TypeOK
<1>26. CASE VerifierReadsLane
  <2>1. PICK lane \in Lanes :
          evidence' = [evidence EXCEPT !.inputs = Read(@, lane, Current(lane, WatchedDir))]
    BY <1>26 DEF VerifierReadsLane
  <2>2. [evidence.inputs EXCEPT ![lane] = Current(lane, WatchedDir)]
          \in [Lanes -> Contracts \cup {None}]
    BY CurrentType DEF TypeOK
  <2> QED
    BY <1>26, <2>1, <2>2 DEF VerifierReadsLane, Read, TypeOK
<1>27. CASE Verify
  BY <1>27 DEF Verify, TypeOK
<1>28. CASE UNCHANGED vars
  BY <1>28 DEF vars, TypeOK
<1> QED
  BY <1>1, <1>2, <1>3, <1>4, <1>5, <1>6, <1>7, <1>8, <1>9, <1>10, <1>11, <1>12, <1>13,
     <1>14, <1>15, <1>16, <1>17, <1>18, <1>19, <1>20, <1>21, <1>22, <1>23, <1>24, <1>25,
     <1>26, <1>27, <1>28 DEF Next, RunStep, OrphanStep, VerifierStep

-----------------------------------------------------------------------------
(* The revisions a source has had; what the step of one run leaves to others. *)
Past(lane) == {then[lane] : then \in past}
Others(c) ==
  \A k \in Checks \ {c} :
    /\ pc'[k] = pc[k] /\ mode'[k] = mode[k]
    /\ held'[k] = held[k] /\ reread'[k] = reread[k] /\ compiler'[k] = compiler[k]

LEMMA RunLeavesOthers ==
  ASSUME Typed, NEW c \in Checks, RunStep(c)
  PROVE  Others(c) /\ source' = source /\ past' = past /\ dir' = dir
<1> USE DEF Typed, TypeOK, Others, Step, Throw, End, inputs, emission, process, artifacts,
            consumer, history
<1>1. CASE Start(c)
  BY <1>1 DEF Start
<1>2. CASE ReadTypeSpec(c)
  BY <1>2 DEF ReadTypeSpec
<1>3. CASE ReadAuthored(c)
  BY <1>3 DEF ReadAuthored
<1>4. CASE Clean(c) \/ CompilerReads(c) \/ CompilerWrites(c) \/ CompilerFails(c)
  BY <1>4 DEF Clean, CompilerReads, CompilerWrites, CompilerFails
<1>5. CASE Locate(c) \/ ReadTypeSpecAgain(c) \/ ReadAuthoredAgain(c)
  BY <1>5 DEF Locate, ReadTypeSpecAgain, ReadAuthoredAgain
<1>6. CASE ReadGenerated(c) \/ ReadFails(c) \/ WriteReport(c) \/ WriteSarif(c)
  BY <1>6 DEF ReadGenerated, ReadFails, WriteReport, WriteSarif
<1>7. CASE LoadLane(c)
  BY <1>7 DEF LoadLane
<1>8. CASE WriteContractIr(c)
  BY <1>8 DEF WriteContractIr
<1>9. CASE FailReport(c) \/ FailSarif(c) \/ FailContractIr(c) \/ Kill(c)
  BY <1>9 DEF FailReport, FailSarif, FailContractIr, Kill
<1> QED
  BY <1>1, <1>2, <1>3, <1>4, <1>5, <1>6, <1>7, <1>8, <1>9 DEF RunStep

(* What a run knows of an authored source: as before, nothing, or the source. *)
LEMMA RunReads ==
  ASSUME Typed, NEW c \in Checks, RunStep(c), NEW lane \in Authored
  PROVE  /\ held'[c][lane] \in {held[c][lane], None, source[lane]}
         /\ reread'[c][lane] \in {reread[c][lane], None, source[lane]}
<1> lane \in Lanes
  BY DEF Lanes
<1> USE DEF Typed, TypeOK, Step, Throw, End, NoLanes, Read, Authored, inputs, emission, process,
            artifacts, consumer, history
<1>1. CASE Start(c) \/ ReadTypeSpec(c) \/ ReadAuthored(c)
  BY <1>1 DEF Start, ReadTypeSpec, ReadAuthored
<1>2. CASE Clean(c) \/ CompilerReads(c) \/ CompilerWrites(c) \/ CompilerFails(c)
  BY <1>2 DEF Clean, CompilerReads, CompilerWrites, CompilerFails
<1>3. CASE Locate(c) \/ ReadTypeSpecAgain(c) \/ ReadAuthoredAgain(c)
  BY <1>3 DEF Locate, ReadTypeSpecAgain, ReadAuthoredAgain
<1>4. CASE ReadGenerated(c)
  BY <1>4 DEF ReadGenerated
<1>5. CASE ReadFails(c) \/ WriteReport(c)
  BY <1>5 DEF ReadFails, WriteReport
<1>6. CASE WriteSarif(c)
  BY <1>6 DEF WriteSarif
<1>7. CASE LoadLane(c)
  BY <1>7 DEF LoadLane, Current
<1>8. CASE WriteContractIr(c)
  BY <1>8 DEF WriteContractIr
<1>9. CASE FailReport(c) \/ FailSarif(c) \/ FailContractIr(c) \/ Kill(c)
  BY <1>9 DEF FailReport, FailSarif, FailContractIr, Kill
<1> QED
  BY <1>1, <1>2, <1>3, <1>4, <1>5, <1>6, <1>7, <1>8, <1>9 DEF RunStep

(* And so after any step; a source that changes gets a revision it never had. *)
LEMMA AnyStep ==
  ASSUME Typed, [Next]_vars
  PROVE  /\ past \subseteq past'
         /\ \A lane \in Authored :
              source'[lane] = source[lane] \/ source'[lane] \notin Past(lane)
         /\ \A c \in Checks, lane \in Authored :
              /\ held'[c][lane] \in {held[c][lane], None, source[lane]}
              /\ reread'[c][lane] \in {reread[c][lane], None, source[lane]}
<1> USE DEF inputs, emission, process, artifacts, consumer, history
<1>1. ASSUME NEW lane \in Authored, Edit(lane)
      PROVE  /\ past' = past \cup {source'} /\ held' = held /\ reread' = reread
             /\ \A other \in Authored \ {lane} : source'[other] = source[other]
             /\ source'[lane] \notin Past(lane)
  BY <1>1 DEF Edit, Typed, TypeOK, Past
<1>2. ASSUME NEW c \in Checks, RunStep(c)
      PROVE  /\ source' = source /\ past' = past
             /\ \A k \in Checks, lane \in Authored :
                  /\ held'[k][lane] \in {held[k][lane], None, source[lane]}
                  /\ reread'[k][lane] \in {reread[k][lane], None, source[lane]}
  BY <1>2, RunLeavesOthers, RunReads DEF Others
<1>3. ASSUME NEW d \in Dirs, OrphanStep(d)
      PROVE  UNCHANGED <<source, past, held, reread>>
  BY <1>3 DEF OrphanStep, OrphanReads, OrphanWrites
<1>4. ASSUME VerifierStep
      PROVE  UNCHANGED <<source, past, held, reread>>
  BY <1>4 DEF VerifierStep, VerifierReadsReport, VerifierReadsIr, VerifierReadsLane, Verify
<1>5. ASSUME UNCHANGED vars
      PROVE  UNCHANGED <<source, past, held, reread>>
  BY <1>5 DEF vars
<1> QED
  BY <1>1, <1>2, <1>3, <1>4, <1>5 DEF Next

-----------------------------------------------------------------------------
(* A check from the removal of the old schema to the second digests; and runs *)
(* that have read all that their report is about.                            *)
Emission == {"clean", "compile", "fallback", "locate", "again", "settle"}
Late == {"report", "sarif", "rebuild", "contractIr"}

(* What a run has read at each of its points. *)
StageOf(c) ==
  /\ pc[c] \in Ended \cup {"typespec"} => held[c] = NoLanes /\ reread[c] = NoLanes
  /\ pc[c] \in Emission => mode[c] = "check"
  /\ pc[c] \in {"authored", "generated"} \cup Emission \cup Late =>
       held[c]["typespec"] \in Contracts
  /\ \/ pc[c] \in Emission \cup Late
     \/ pc[c] = "generated" /\ mode[c] = "check"
     => held[c]["authored"] \in Contracts
  /\ pc[c] \in ({"authored"} \cup Emission) \ {"settle"} => reread[c] = NoLanes
  /\ pc[c] = "generated" /\ mode[c] # "check" => reread[c] = NoLanes
  /\ pc[c] = "authored" /\ mode[c] = "check" => held[c]["authored"] = None
Stage == \A c \in Checks : StageOf(c)

LEMMA RunStage ==
  ASSUME Typed, Typed', NEW c \in Checks, StageOf(c), RunStep(c)
  PROVE  StageOf(c)'
<1> "typespec" \in Lanes /\ "authored" \in Lanes /\ "generated" \in Lanes
  BY DEF Lanes, Authored
<1> "typespec" \in Authored /\ "authored" \in Authored
  BY DEF Authored
<1> USE DEF Typed, TypeOK, StageOf, Step, Throw, End, Read, Emission, Late, Ended, Statuses,
            inputs, emission, process, artifacts, consumer, history
<1>1. CASE Start(c)
  BY <1>1 DEF Start
<1>2. CASE ReadTypeSpec(c)
  <2>1. /\ pc[c] = "typespec" /\ held'[c] = [held[c] EXCEPT !["typespec"] = source["typespec"]]
        /\ pc'[c] = IF mode[c] = "check" THEN "authored" ELSE "generated"
        /\ mode' = mode /\ reread' = reread
    BY <1>2 DEF ReadTypeSpec
  <2>2. held[c]["authored"] = None /\ reread[c] = NoLanes
    BY <2>1 DEF NoLanes
  <2>3. held'[c]["authored"] = None /\ held'[c]["typespec"] \in Contracts
    BY <2>1, <2>2
  <2> QED
    BY <2>1, <2>2, <2>3
<1>3. CASE ReadAuthored(c)
  BY <1>3 DEF ReadAuthored
<1>4. CASE Clean(c) \/ CompilerReads(c)
  BY <1>4 DEF Clean, CompilerReads
<1>5. CASE CompilerWrites(c)
  BY <1>5, NoneAssumption DEF CompilerWrites
<1>6. CASE CompilerFails(c)
  BY <1>6 DEF CompilerFails
<1>7. CASE Locate(c)
  BY <1>7 DEF Locate
<1>8. CASE ReadTypeSpecAgain(c)
  BY <1>8 DEF ReadTypeSpecAgain
<1>9. CASE ReadAuthoredAgain(c)
  BY <1>9 DEF ReadAuthoredAgain
<1>10. CASE ReadGenerated(c)
  <2>1. /\ held'[c]["typespec"] = held[c]["typespec"] /\ held'[c]["authored"] = held[c]["authored"]
        /\ mode' = mode /\ reread' = reread
    BY <1>10 DEF ReadGenerated
  <2>2. pc[c] = "generated"
    BY <1>10 DEF ReadGenerated
  <2>3. \/ pc'[c] = "caught"
        \/ pc'[c] = "report" /\ mode[c] = "check"
        \/ pc'[c] = "authored" /\ mode[c] # "check"
    BY <1>10 DEF ReadGenerated
  <2> QED
    BY <2>1, <2>2, <2>3
<1>11. CASE ReadFails(c) \/ WriteReport(c)
  BY <1>11 DEF ReadFails, WriteReport
<1>12. CASE WriteSarif(c)
  BY <1>12 DEF WriteSarif
<1>13. CASE LoadLane(c)
  BY <1>13 DEF LoadLane
<1>14. CASE WriteContractIr(c)
  BY <1>14 DEF WriteContractIr, ReportOf
<1>15. CASE FailReport(c) \/ FailSarif(c)
  BY <1>15 DEF FailReport, FailSarif
<1>16. CASE FailContractIr(c) \/ Kill(c)
  BY <1>16 DEF FailContractIr, Kill
<1> QED
  BY <1>1, <1>2, <1>3, <1>4, <1>5, <1>6, <1>7, <1>8, <1>9, <1>10, <1>11, <1>12, <1>13,
     <1>14, <1>15, <1>16 DEF RunStep

LEMMA NextStage == Typed /\ Stage /\ [Next]_vars => Stage'
<1> SUFFICES ASSUME Typed, Stage, [Next]_vars, NEW c \in Checks PROVE StageOf(c)'
  BY DEF Stage
<1> Typed'
  BY NextTyped
<1> USE DEF inputs, emission, process, artifacts, consumer, history
<1>1. ASSUME pc' = pc, mode' = mode, held' = held, reread' = reread PROVE StageOf(c)'
  BY <1>1 DEF Stage, StageOf
<1>2. ASSUME NEW k \in Checks, RunStep(k) PROVE StageOf(c)'
  <2>1. CASE k = c
    BY <1>2, <2>1, RunStage DEF Stage
  <2>2. CASE k # c
    BY <1>2, <2>2, RunLeavesOthers DEF Stage, StageOf, Others
  <2> QED
    BY <2>1, <2>2
<1>3. ASSUME NEW lane \in Authored, Edit(lane) PROVE StageOf(c)'
  BY <1>1, <1>3 DEF Edit
<1>4. ASSUME NEW d \in Dirs, OrphanStep(d) PROVE StageOf(c)'
  BY <1>1, <1>4 DEF OrphanStep, OrphanReads, OrphanWrites
<1>5. CASE VerifierStep
  BY <1>1, <1>5 DEF VerifierStep, VerifierReadsReport, VerifierReadsIr, VerifierReadsLane, Verify
<1>6. CASE UNCHANGED vars
  BY <1>1, <1>6 DEF vars
<1> QED
  BY <1>2, <1>3, <1>4, <1>5, <1>6 DEF Next

LEMMA InitStage == Init => Stage
  BY DEF Init, Stage, StageOf, Ended, Emission, Late

-----------------------------------------------------------------------------
(* From the confirmed digests to the exit; and the ways out of a run. *)
Verdict == {"generated"} \cup Late
Caught == {"caught", "caught-sarif", "caught-ir", "failed", "killed"}
SameSources(c) == \A lane \in Authored : held'[c][lane] = held[c][lane]

(* How a step of a run reads the sources and where it may go after that: it  *)
(* reaches a verdict only by confirming both digests.                        *)
LEMMA RunMoves ==
  ASSUME Typed, Typed', Stage, NEW c \in Checks, RunStep(c)
  PROVE  /\ \/ SameSources(c)
            \/ held'[c]["authored"] = None
            \/ /\ held'[c]["typespec"] = held[c]["typespec"]
               /\ held'[c]["authored"] = source["authored"]
               /\ reread'[c]["typespec"] = None
         /\ pc'[c] \in Verdict /\ mode'[c] = "check" =>
              \/ pc[c] \in Verdict /\ mode[c] = "check" /\ SameSources(c)
              \/ \A lane \in Authored : reread'[c][lane] = held'[c][lane]
         /\ pc[c] \in {"authored"} \cup Emission /\ mode[c] = "check" =>
              \/ pc'[c] \in Caught
              \/ SameSources(c) /\ \A lane \in Authored : reread'[c][lane] = held'[c][lane]
              \/ /\ pc'[c] \in {"authored"} \cup Emission /\ mode'[c] = "check"
                 /\ \A lane \in Authored :
                      held'[c][lane] = held[c][lane] \/ held[c][lane] = None
         /\ pc[c] \in Caught => pc'[c] \in Caught \/ c \notin touched'
         /\ touched' \subseteq touched
<1> StageOf(c)
  BY DEF Stage
<1> "typespec" \in Lanes /\ "authored" \in Lanes /\ "generated" \in Lanes
  BY DEF Lanes, Authored
<1> USE DEF Typed, TypeOK, StageOf, SameSources, Authored, Step, Throw, End, Read, Emission, Late,
            Verdict, Caught, Ended, Statuses, inputs, emission, process, artifacts, consumer, history
<1>1. CASE Start(c)
  BY <1>1 DEF Start
<1>2. CASE ReadTypeSpec(c)
  BY <1>2, NoneAssumption DEF ReadTypeSpec, NoLanes
<1>3. CASE ReadAuthored(c)
  BY <1>3, NoneAssumption DEF ReadAuthored, NoLanes
<1>4. CASE Clean(c) \/ CompilerReads(c)
  BY <1>4, NoneAssumption DEF Clean, CompilerReads
<1>5. CASE CompilerWrites(c)
  BY <1>5, NoneAssumption DEF CompilerWrites
<1>6. CASE CompilerFails(c)
  BY <1>6 DEF CompilerFails
<1>7. CASE Locate(c)
  BY <1>7 DEF Locate
<1>8. CASE ReadTypeSpecAgain(c)
  BY <1>8 DEF ReadTypeSpecAgain
<1>9. CASE ReadAuthoredAgain(c)
  BY <1>9 DEF ReadAuthoredAgain
<1>10. CASE ReadGenerated(c)
  BY <1>10 DEF ReadGenerated
<1>11. CASE ReadFails(c) \/ WriteReport(c)
  BY <1>11 DEF ReadFails, WriteReport
<1>12. CASE WriteSarif(c)
  BY <1>12 DEF WriteSarif
<1>13. CASE LoadLane(c)
  BY <1>13 DEF LoadLane
<1>14. CASE WriteContractIr(c)
  BY <1>14 DEF WriteContractIr, ReportOf, NoLanes
<1>15. CASE FailReport(c) \/ FailSarif(c)
  BY <1>15 DEF FailReport, FailSarif
<1>16. CASE FailContractIr(c) \/ Kill(c)
  BY <1>16 DEF FailContractIr, Kill, NoLanes, Running
<1> QED
  BY <1>1, <1>2, <1>3, <1>4, <1>5, <1>6, <1>7, <1>8, <1>9, <1>10, <1>11, <1>12, <1>13,
     <1>14, <1>15, <1>16 DEF RunStep

-----------------------------------------------------------------------------
(* The source has moved on since c read it, and c has not confirmed it: c     *)
(* cannot confirm it any more.                                               *)
Outdated(c, lane) ==
  held[c][lane] # None /\ source[lane] # held[c][lane] /\ reread[c][lane] # held[c][lane]
(* What a run knows was a source once.  Two revisions it knows were sources   *)
(* together, or one is outdated; at a verdict they were.  A run whose source  *)
(* was edited between its two digests is outdated until it is caught.         *)
HeldPast(c) == \A lane \in Authored : held[c][lane] # None => held[c][lane] \in Past(lane)
Paired(c) ==
  held[c]["typespec"] # None /\ held[c]["authored"] # None =>
    Together(held[c]) \/ \E lane \in Authored : Outdated(c, lane)
Settled(c) == pc[c] \in Verdict /\ mode[c] = "check" => Together(held[c])
Noticed(c) ==
  c \in touched =>
    \/ pc[c] \in Caught
    \/ /\ pc[c] \in {"authored"} \cup Emission /\ mode[c] = "check"
       /\ \E lane \in Authored : Outdated(c, lane)
Watched == \A c \in Checks : HeldPast(c) /\ Paired(c) /\ Settled(c) /\ Noticed(c)

(* Revisions that were sources together stay so; so does an outdated one. *)
LEMMA TogetherStays ==
  ASSUME NEW f, NEW g, past \subseteq past', \A lane \in Authored : f[lane] = g[lane], Together(f)
  PROVE  [lane \in Authored |-> g[lane]] \in past'
<1> [lane \in Authored |-> f[lane]] = [lane \in Authored |-> g[lane]]
  OBVIOUS
<1> QED
  BY DEF Together

LEMMA OutdatedStays ==
  ASSUME Typed, [Next]_vars, NEW c \in Checks, HeldPast(c), NEW lane \in Authored,
         Outdated(c, lane), held'[c][lane] = held[c][lane]
  PROVE  Outdated(c, lane)'
<1>1. /\ source'[lane] = source[lane] \/ source'[lane] \notin Past(lane)
      /\ reread'[c][lane] \in {reread[c][lane], None, source[lane]}
  BY AnyStep
<1> QED
  BY <1>1 DEF Outdated, HeldPast

LEMMA NextHeldPast ==
  ASSUME Typed, [Next]_vars, NEW c \in Checks, HeldPast(c)
  PROVE  HeldPast(c)'
<1>1. \A lane \in Authored : source[lane] \in Past(lane)
  BY DEF Typed, TypeOK, Past
<1>2. \A lane \in Authored : Past(lane) \subseteq Past(lane)'
  BY AnyStep DEF Past
<1> QED
  BY <1>1, <1>2, AnyStep DEF HeldPast

(* The three facts over one step of the run they are about, then over any.    *)
LEMMA RunWatched ==
  ASSUME Typed, Typed', Stage, Stage', NEW c \in Checks, RunStep(c), HeldPast(c), Paired(c),
         Settled(c), Noticed(c)
  PROVE  Paired(c)' /\ Settled(c)' /\ Noticed(c)'
<1> "typespec" \in Authored /\ "authored" \in Authored
  BY DEF Authored
<1> [Next]_vars
  BY DEF Next
<1>0. source' = source /\ past' = past /\ source \in past
  BY RunLeavesOthers DEF Typed, TypeOK
<1>1. Paired(c)'
  <2>1. CASE SameSources(c)
    <3>2. Together(held[c]) => [lane \in Authored |-> held'[c][lane]] \in past'
      BY <2>1, <1>0, TogetherStays DEF SameSources
    <3>3. \A lane \in Authored : Outdated(c, lane) => Outdated(c, lane)'
      BY <2>1, OutdatedStays DEF SameSources
    <3> QED
      BY <2>1, <3>2, <3>3 DEF Paired, SameSources, Together
  <2>2. CASE held'[c]["authored"] = None
    BY <2>2 DEF Paired
  <2>3. CASE /\ held'[c]["typespec"] = held[c]["typespec"]
             /\ held'[c]["authored"] = source["authored"]
             /\ reread'[c]["typespec"] = None
    <3>1. CASE source["typespec"] = held'[c]["typespec"]
      <4>1. source = [lane \in Authored |-> held'[c][lane]]
        BY <2>3, <3>1 DEF Typed, TypeOK, Authored
      <4> QED
        BY <4>1, <1>0 DEF Paired, Together
    <3>2. CASE source["typespec"] # held'[c]["typespec"]
      BY <2>3, <3>2, <1>0 DEF Paired, Outdated
    <3> QED
      BY <3>1, <3>2
  <2> QED
    BY <2>1, <2>2, <2>3, RunMoves
<1>2. Settled(c)'
  <2> SUFFICES ASSUME pc'[c] \in Verdict, mode'[c] = "check" PROVE Together(held[c])'
    BY DEF Settled
  <2>1. CASE pc[c] \in Verdict /\ mode[c] = "check" /\ SameSources(c)
    <3>1. [lane \in Authored |-> held'[c][lane]] \in past'
      BY <2>1, <1>0, TogetherStays DEF Settled, SameSources
    <3> QED
      BY <3>1 DEF Together
  <2>2. CASE \A lane \in Authored : reread'[c][lane] = held'[c][lane]
    <3>1. held'[c]["typespec"] # None /\ held'[c]["authored"] # None
      BY NoneAssumption DEF Stage, StageOf, Verdict
    <3> QED
      BY <2>2, <3>1, <1>1 DEF Paired, Outdated
  <2> QED
    BY <2>1, <2>2, RunMoves
<1>3. Noticed(c)'
  <2> SUFFICES ASSUME c \in touched', pc'[c] \notin Caught
               PROVE  /\ pc'[c] \in {"authored"} \cup Emission /\ mode'[c] = "check"
                      /\ \E lane \in Authored : Outdated(c, lane)'
    BY DEF Noticed
  <2>1. pc[c] \in {"authored"} \cup Emission /\ mode[c] = "check"
    BY RunMoves DEF Noticed
  <2>2. PICK lane \in Authored : Outdated(c, lane)
    BY RunMoves DEF Noticed
  <2>3. CASE SameSources(c) /\ \A other \in Authored : reread'[c][other] = held'[c][other]
    BY <2>2, <2>3, OutdatedStays DEF SameSources, Outdated
  <2>4. CASE /\ pc'[c] \in {"authored"} \cup Emission /\ mode'[c] = "check"
             /\ \A other \in Authored : held'[c][other] = held[c][other] \/ held[c][other] = None
    BY <2>2, <2>4, OutdatedStays DEF Outdated
  <2> QED
    BY <2>1, <2>3, <2>4, RunMoves
<1> QED
  BY <1>1, <1>2, <1>3

LEMMA NextWatched == Typed /\ Stage /\ Watched /\ [Next]_vars => Watched'
<1> SUFFICES ASSUME Typed, Stage, Watched, [Next]_vars, NEW c \in Checks
             PROVE  Paired(c)' /\ Settled(c)' /\ Noticed(c)'
  BY NextHeldPast DEF Watched
<1> Typed' /\ Stage'
  BY NextTyped, NextStage
<1> HeldPast(c) /\ Paired(c) /\ Settled(c) /\ Noticed(c)
  BY DEF Watched
<1> USE DEF inputs, emission, process, artifacts, consumer, history
<1>1. ASSUME pc'[c] = pc[c], mode'[c] = mode[c], held'[c] = held[c], reread'[c] = reread[c]
      PROVE  Paired(c)' /\ Settled(c)'
  <2>1. Together(held[c]) => [lane \in Authored |-> held'[c][lane]] \in past'
    BY <1>1, AnyStep, TogetherStays
  <2>2. \A lane \in Authored : Outdated(c, lane) => Outdated(c, lane)'
    BY <1>1, OutdatedStays
  <2> QED
    BY <1>1, <2>1, <2>2 DEF Paired, Settled, Together
<1>2. ASSUME pc'[c] = pc[c], mode'[c] = mode[c], held'[c] = held[c], reread'[c] = reread[c],
             c \in touched' => c \in touched
      PROVE  Noticed(c)'
  <2>1. \A lane \in Authored : Outdated(c, lane) => Outdated(c, lane)'
    BY <1>2, OutdatedStays
  <2> QED
    BY <1>2, <2>1 DEF Noticed
<1>3. ASSUME NEW k \in Checks, RunStep(k) PROVE Paired(c)' /\ Settled(c)' /\ Noticed(c)'
  <2>1. CASE k = c
    BY <1>3, <2>1, RunWatched
  <2>2. CASE k # c
    <3>1. touched' \subseteq touched
      BY <1>3, RunMoves
    <3> QED
      BY <1>1, <1>2, <1>3, <2>2, <3>1, RunLeavesOthers DEF Others
  <2> QED
    BY <2>1, <2>2
<1>4. ASSUME NEW lane \in Authored, Edit(lane) PROVE Paired(c)' /\ Settled(c)' /\ Noticed(c)'
  <2>1. pc' = pc /\ mode' = mode /\ held' = held /\ reread' = reread
    BY <1>4 DEF Edit
  <2>2. CASE Emitting(c, lane)
    <3>1. source'[lane] \notin Past(lane)
      BY <1>4 DEF Edit, Typed, TypeOK, Past
    <3>2. Outdated(c, lane)'
      BY <2>1, <2>2, <3>1 DEF Emitting, Outdated, HeldPast
    <3> QED
      BY <1>1, <2>1, <2>2, <3>2 DEF Noticed, Emitting, Emission
  <2>3. CASE ~Emitting(c, lane)
    BY <1>1, <1>2, <1>4, <2>1, <2>3 DEF Edit
  <2> QED
    BY <2>2, <2>3
<1>5. ASSUME NEW d \in Dirs, OrphanStep(d) PROVE Paired(c)' /\ Settled(c)' /\ Noticed(c)'
  BY <1>1, <1>2, <1>5 DEF OrphanStep, OrphanReads, OrphanWrites
<1>6. CASE VerifierStep
  BY <1>1, <1>2, <1>6
     DEF VerifierStep, VerifierReadsReport, VerifierReadsIr, VerifierReadsLane, Verify
<1>7. CASE UNCHANGED vars
  BY <1>1, <1>2, <1>7 DEF vars
<1> QED
  BY <1>3, <1>4, <1>5, <1>6, <1>7 DEF Next

LEMMA InitWatched == Init => Watched
  BY DEF Init, Watched, HeldPast, Paired, Settled, Noticed, NoLanes, Verdict, Late, Lanes, Authored

-----------------------------------------------------------------------------
(* What each published or collected document claims, of one moment. *)
CheckReport(r) == r # None /\ r.mode = "check" => Together(r.inputs)
CertifiedIr(ir) == ir # None /\ ir.admissible => Together(ir.of.inputs)
Certified ==
  /\ CheckReport(report) /\ CheckReport(sarif)
  /\ CertifiedIr(contractIr) /\ CertifiedIr(evidence.contractIr)
  /\ verifier = "passed" => Admits(evidence)

LEMMA PastGrows ==
  ASSUME Typed, [Next]_vars, NEW read, Together(read)
  PROVE  [lane \in Authored |-> read[lane]] \in past'
  BY AnyStep DEF Together

(* What a run publishes is certified: its settled reads, or, for a Contract   *)
(* IR of either command, reads that were confirmed once more.                *)
LEMMA RunCertifies ==
  ASSUME Typed, Stage, Watched, NEW c \in Checks, RunStep(c)
  PROVE  /\ report' = report \/ CheckReport(report')
         /\ sarif' = sarif \/ CheckReport(sarif')
         /\ contractIr' = contractIr \/ CertifiedIr(contractIr')
         /\ UNCHANGED <<verifier, evidence>>
<1> USE NoneAssumption, ModesAssumption
    DEF inputs, emission, process, artifacts, consumer, history, CheckReport, CertifiedIr
<1>0. StageOf(c) /\ Paired(c) /\ Settled(c)
  BY DEF Stage, Watched
<1>1. CASE Start(c) \/ ReadTypeSpec(c) \/ ReadAuthored(c) \/ Clean(c) \/ CompilerReads(c)
  BY <1>1 DEF Start, ReadTypeSpec, ReadAuthored, Clean, CompilerReads
<1>2. CASE CompilerWrites(c) \/ CompilerFails(c) \/ Locate(c) \/ ReadTypeSpecAgain(c)
  BY <1>2 DEF CompilerWrites, CompilerFails, Locate, ReadTypeSpecAgain
<1>3. CASE ReadAuthoredAgain(c) \/ ReadGenerated(c) \/ ReadFails(c) \/ LoadLane(c) \/ Kill(c)
  BY <1>3 DEF ReadAuthoredAgain, ReadGenerated, ReadFails, LoadLane, Kill
<1>4. CASE WriteReport(c)
  BY <1>0, <1>4 DEF WriteReport, ReportOf, Settled, Verdict, Late
<1>5. CASE WriteSarif(c)
  BY <1>0, <1>5 DEF WriteSarif, ReportOf, Settled, Verdict, Late
<1>6. CASE WriteContractIr(c)
  <2>1. ASSUME Admissible(ReportOf(c), reread[c]) PROVE Together(held[c])
    <3>1. held[c] = reread[c]
      BY <2>1 DEF Admissible, ReportOf
    <3>2. held[c]["typespec"] # None /\ held[c]["authored"] # None
      BY <1>0, <1>6 DEF WriteContractIr, StageOf, Late
    <3> QED
      BY <1>0, <3>1, <3>2 DEF Paired, Outdated
  <2>2. \/ contractIr' = contractIr
        \/ /\ contractIr' = [admissible |-> ReportOf(c).status = "passed", of |-> ReportOf(c)]
           /\ ReportOf(c).status = "passed" => Admissible(ReportOf(c), reread[c])
    BY <1>6 DEF WriteContractIr
  <2>3. ReportOf(c).inputs = held[c]
    BY DEF ReportOf
  <2>4. CertifiedIr([admissible |-> ReportOf(c).status = "passed", of |-> ReportOf(c)])
          \/ contractIr' = contractIr
    BY <2>1, <2>2, <2>3
  <2> QED
    BY <1>6, <2>2, <2>4 DEF WriteContractIr
<1>7. CASE FailReport(c) \/ FailSarif(c) \/ FailContractIr(c)
  BY <1>7 DEF FailReport, FailSarif, FailContractIr, FailedReport
<1> QED
  BY <1>1, <1>2, <1>3, <1>4, <1>5, <1>6, <1>7 DEF RunStep

(* The verifier takes up what is published and passes what it admits. *)
LEMMA VerifierMoves ==
  ASSUME Typed, VerifierStep
  PROVE  /\ evidence'.report \in {evidence.report, report}
         /\ evidence'.contractIr \in {evidence.contractIr, contractIr}
         /\ verifier' = "passed" => Admits(evidence')
         /\ UNCHANGED <<inputs, dir, emission, process, artifacts, history>>
<1>0. evidence \in [report : Reports \cup {None}, contractIr : Irs \cup {None},
                   inputs : [Lanes -> Contracts \cup {None}]]
  BY DEF Typed, TypeOK
<1>1. CASE VerifierReadsReport
  <2>1. evidence'.report = report /\ evidence'.contractIr = evidence.contractIr
        /\ verifier' # "passed"
    BY <1>0, <1>1 DEF VerifierReadsReport
  <2> QED
    BY <1>1, <2>1 DEF VerifierReadsReport
<1>2. CASE VerifierReadsIr
  <2>1. evidence'.report = evidence.report /\ evidence'.contractIr = contractIr
        /\ verifier' # "passed"
    BY <1>0, <1>2 DEF VerifierReadsIr
  <2> QED
    BY <1>2, <2>1 DEF VerifierReadsIr
<1>3. CASE VerifierReadsLane
  <2>1. evidence'.report = evidence.report /\ evidence'.contractIr = evidence.contractIr
        /\ verifier' # "passed"
    BY <1>0, <1>3 DEF VerifierReadsLane
  <2> QED
    BY <1>3, <2>1 DEF VerifierReadsLane
<1>4. CASE Verify
  <2>1. evidence' = evidence /\ (verifier' = "passed" => Admits(evidence))
    BY <1>4 DEF Verify
  <2> QED
    BY <1>4, <2>1 DEF Verify
<1> QED
  BY <1>1, <1>2, <1>3, <1>4 DEF VerifierStep

LEMMA NextCertified ==
  Typed /\ Stage /\ Watched /\ Certified /\ [Next]_vars => Certified'
<1> SUFFICES ASSUME Typed, Stage, Watched, Certified, [Next]_vars PROVE Certified'
  OBVIOUS
<1> USE DEF inputs, emission, process, artifacts, consumer, history
<1> DEFINE Made(r, r0) == r = r0 \/ CheckReport(r)
           Built(ir, ir0) == ir = ir0 \/ CertifiedIr(ir)
<1>1. /\ Made(report', report) /\ Made(sarif', sarif) /\ Built(contractIr', contractIr)
      /\ Built(evidence'.contractIr, evidence.contractIr)
      /\ verifier' = "passed" => Admits(evidence')
  <2>1. ASSUME UNCHANGED artifacts, UNCHANGED consumer PROVE <1>1!:
    BY <2>1 DEF Certified
  <2>2. ASSUME NEW c \in Checks, RunStep(c) PROVE <1>1!:
    BY <2>2, RunCertifies DEF Certified
  <2>3. CASE VerifierStep
    BY <2>3, VerifierMoves DEF Certified
  <2>4. ASSUME NEW lane \in Authored, Edit(lane) PROVE <1>1!:
    BY <2>1, <2>4 DEF Edit
  <2>5. ASSUME NEW d \in Dirs, OrphanStep(d) PROVE <1>1!:
    BY <2>1, <2>5 DEF OrphanStep, OrphanReads, OrphanWrites
  <2> QED
    BY <2>1, <2>2, <2>3, <2>4, <2>5 DEF Next, vars
<1>2. CheckReport(report') /\ CheckReport(sarif') /\ CertifiedIr(contractIr')
      /\ CertifiedIr(evidence'.contractIr)
  BY <1>1 DEF Certified
<1>3. CheckReport(report)' /\ CheckReport(sarif)'
  BY <1>2, PastGrows DEF CheckReport, Together
<1>4. CertifiedIr(contractIr)' /\ CertifiedIr(evidence.contractIr)'
  BY <1>2, PastGrows DEF CertifiedIr, Together
<1> QED
  BY <1>1, <1>3, <1>4 DEF Certified, Admits

-----------------------------------------------------------------------------
(* In a directory of its own, and with no compiler left over, what a check    *)
(* compares with the authored schema was made of the TypeSpec source it knows *)
(* or its TypeSpec digest is outdated; after the second digest it was.        *)
OfTypeSpec(c, r) == r = held[c]["typespec"] \/ Outdated(c, "typespec")
EmittedFor(c) ==
  /\ compiler[c] \in Contracts => OfTypeSpec(c, compiler[c])
  /\ pc[c] \in {"locate", "again", "settle"} /\ generated[dir[c]] # None =>
       OfTypeSpec(c, generated[dir[c]])
  /\ pc[c] = "generated" /\ mode[c] = "check" /\ generated[dir[c]] # None =>
       generated[dir[c]] = held[c]["typespec"]
  /\ pc[c] \in Late /\ mode[c] = "check" => held[c]["generated"] = held[c]["typespec"]
InStep ==
  Isolated => /\ \A d \in Dirs : orphan[d] = None
              /\ \A c \in Checks : EmittedFor(c)

(* Isolation, once lost, does not come back. *)
LEMMA IsolatedBefore ==
  ASSUME Typed, [Next]_vars, Isolated'
  PROVE  Isolated /\ dir' = dir
<1> USE DEF inputs, emission, process, artifacts, consumer, history, Isolated, Typed, TypeOK
<1>1. dir' = dir /\ (stray' \/ stray' = stray)
  <2>1. ASSUME NEW c \in Checks, RunStep(c) PROVE stray' \/ stray' = stray
    BY <2>1 DEF RunStep, Start, ReadTypeSpec, ReadAuthored, Clean, CompilerReads, CompilerWrites,
      CompilerFails, Locate, ReadTypeSpecAgain, ReadAuthoredAgain, ReadGenerated, ReadFails,
      WriteReport, WriteSarif, LoadLane, WriteContractIr, FailReport, FailSarif, FailContractIr, Kill
  <2>2. ASSUME NEW lane \in Authored, Edit(lane) PROVE <1>1!:
    BY <2>2 DEF Edit
  <2>3. ASSUME NEW d \in Dirs, OrphanStep(d) PROVE <1>1!:
    BY <2>3 DEF OrphanStep, OrphanReads, OrphanWrites
  <2>4. CASE VerifierStep
    BY <2>4, VerifierMoves
  <2> QED
    BY <2>1, <2>2, <2>3, <2>4, RunLeavesOthers DEF Next, vars
<1> QED
  BY <1>1

LEMMA RunEmits ==
  ASSUME Typed, Typed', Stage, Stage', NEW c \in Checks, RunStep(c), HeldPast(c), EmittedFor(c),
         \A d \in Dirs : orphan[d] = None
  PROVE  /\ EmittedFor(c)'
         /\ stray' \/ \A d \in Dirs : orphan'[d] = None
         /\ \A d \in Dirs \ {dir[c]} : generated'[d] = generated[d]
<1> "typespec" \in Authored /\ "authored" \in Authored
  BY DEF Authored
<1> "typespec" \in Lanes /\ "authored" \in Lanes /\ "generated" \in Lanes
  BY DEF Lanes, Authored
<1> StageOf(c) /\ StageOf(c)'
  BY DEF Stage
<1> [Next]_vars
  BY DEF Next
<1>0. /\ Outdated(c, "typespec") /\ held'[c]["typespec"] = held[c]["typespec"] =>
            Outdated(c, "typespec")'
      /\ source' = source /\ dir' = dir
  BY OutdatedStays, RunLeavesOthers
<1> USE NoneAssumption
    DEF Typed, TypeOK, StageOf, EmittedFor, OfTypeSpec, Step, Throw, End, Read, Emission, Late,
        Ended, Statuses, inputs, emission, process, artifacts, consumer, history
<1>1. CASE Start(c)
  BY <1>0, <1>1 DEF Start
<1>2. CASE ReadTypeSpec(c)
  BY <1>0, <1>2 DEF ReadTypeSpec
<1>3. CASE ReadAuthored(c)
  BY <1>0, <1>3 DEF ReadAuthored
<1>4. CASE Clean(c)
  BY <1>0, <1>4 DEF Clean
<1>5. CASE CompilerReads(c)
  BY <1>0, <1>5 DEF CompilerReads, Outdated, NoLanes
<1>6. CASE CompilerWrites(c)
  BY <1>0, <1>6 DEF CompilerWrites
<1>7. CASE CompilerFails(c)
  BY <1>0, <1>7 DEF CompilerFails
<1>8. CASE Locate(c)
  BY <1>0, <1>8 DEF Locate
<1>9. CASE ReadTypeSpecAgain(c)
  BY <1>0, <1>9 DEF ReadTypeSpecAgain
<1>10. CASE ReadAuthoredAgain(c)
  BY <1>0, <1>10 DEF ReadAuthoredAgain, Outdated, Authored
<1>11. CASE ReadGenerated(c)
  BY <1>0, <1>11 DEF ReadGenerated
<1>12. CASE ReadFails(c) \/ WriteReport(c)
  BY <1>0, <1>12 DEF ReadFails, WriteReport
<1>13. CASE WriteSarif(c)
  BY <1>0, <1>13 DEF WriteSarif
<1>14. CASE LoadLane(c)
  BY <1>0, <1>14 DEF LoadLane
<1>15. CASE WriteContractIr(c)
  BY <1>0, <1>15 DEF WriteContractIr, ReportOf
<1>16. CASE FailReport(c) \/ FailSarif(c)
  BY <1>0, <1>16 DEF FailReport, FailSarif
<1>17. CASE FailContractIr(c) \/ Kill(c)
  BY <1>0, <1>17 DEF FailContractIr, Kill
<1> QED
  BY <1>1, <1>2, <1>3, <1>4, <1>5, <1>6, <1>7, <1>8, <1>9, <1>10, <1>11, <1>12, <1>13,
     <1>14, <1>15, <1>16, <1>17 DEF RunStep

LEMMA NextInStep ==
  Typed /\ Stage /\ Watched /\ InStep /\ [Next]_vars => InStep'
<1> SUFFICES ASSUME Typed, Stage, Watched, InStep, [Next]_vars, Isolated'
             PROVE  /\ \A d \in Dirs : orphan'[d] = None
                    /\ \A c \in Checks : EmittedFor(c)'
  BY DEF InStep
<1> Typed' /\ Stage' /\ Isolated /\ dir' = dir
  BY NextTyped, NextStage, IsolatedBefore
<1> USE DEF inputs, emission, process, artifacts, consumer, history
<1>1. ASSUME NEW c \in Checks, pc'[c] = pc[c], mode'[c] = mode[c], held'[c] = held[c],
             compiler'[c] = compiler[c], generated'[dir[c]] = generated[dir[c]]
      PROVE  EmittedFor(c)'
  <2>1. Outdated(c, "typespec") => Outdated(c, "typespec")'
    BY <1>1, OutdatedStays DEF Watched, Authored
  <2> QED
    BY <1>1, <2>1 DEF InStep, EmittedFor, OfTypeSpec
<1>2. ASSUME NEW k \in Checks, RunStep(k)
      PROVE  /\ \A d \in Dirs : orphan'[d] = None
             /\ \A c \in Checks : EmittedFor(c)'
  <2>1. /\ EmittedFor(k)'
        /\ stray' \/ \A d \in Dirs : orphan'[d] = None
        /\ \A d \in Dirs \ {dir[k]} : generated'[d] = generated[d]
    BY <1>2, RunEmits DEF InStep, Watched
  <2>2. \A c \in Checks \ {k} : dir[c] \in Dirs \ {dir[k]}
    BY DEF Isolated, Typed, TypeOK
  <2>3. \A c \in Checks \ {k} : EmittedFor(c)'
    BY <1>1, <1>2, <2>1, <2>2, RunLeavesOthers DEF Others
  <2> QED
    BY <2>1, <2>3 DEF Isolated
<1>3. ASSUME UNCHANGED <<dir, process, emission>>
      PROVE  /\ \A d \in Dirs : orphan'[d] = None
             /\ \A c \in Checks : EmittedFor(c)'
  BY <1>1, <1>3 DEF InStep
<1>4. ASSUME NEW d \in Dirs, OrphanStep(d) PROVE FALSE
  BY <1>4, NoneAssumption DEF OrphanStep, OrphanReads, OrphanWrites, InStep
<1>5. ASSUME NEW lane \in Authored, Edit(lane) PROVE UNCHANGED <<dir, process, emission>>
  BY <1>5 DEF Edit
<1>6. CASE VerifierStep
  BY <1>3, <1>6, VerifierMoves
<1> QED
  BY <1>2, <1>3, <1>4, <1>5, <1>6 DEF Next, vars

LEMMA InitInStep == Init => InStep
  BY NoneAssumption DEF Init, InStep, EmittedFor, Late

-----------------------------------------------------------------------------
(* A passed check names two sources that say the same. *)
Truthful(r) == Green(r) /\ r.mode = "check" => r.inputs.typespec = r.inputs.authored
TellsTruth == Isolated => Truthful(report) /\ Truthful(sarif) /\ Truthful(evidence.report)

LEMMA RunTellsTruth ==
  ASSUME Typed, NEW c \in Checks, RunStep(c), EmittedFor(c)
  PROVE  /\ report' = report \/ Truthful(report')
         /\ sarif' = sarif \/ Truthful(sarif')
         /\ UNCHANGED <<verifier, evidence>>
<1> USE ModesAssumption
    DEF inputs, emission, process, artifacts, consumer, history, Truthful, Green
<1>1. CASE Start(c) \/ ReadTypeSpec(c) \/ ReadAuthored(c) \/ Clean(c) \/ CompilerReads(c)
  BY <1>1 DEF Start, ReadTypeSpec, ReadAuthored, Clean, CompilerReads
<1>2. CASE CompilerWrites(c) \/ CompilerFails(c) \/ Locate(c) \/ ReadTypeSpecAgain(c)
  BY <1>2 DEF CompilerWrites, CompilerFails, Locate, ReadTypeSpecAgain
<1>3. CASE ReadAuthoredAgain(c) \/ ReadGenerated(c) \/ ReadFails(c) \/ LoadLane(c) \/ Kill(c)
  BY <1>3 DEF ReadAuthoredAgain, ReadGenerated, ReadFails, LoadLane, Kill
<1>4. CASE WriteContractIr(c)
  BY <1>4 DEF WriteContractIr
<1>5. ASSUME pc[c] \in Late PROVE Truthful(ReportOf(c))
  BY <1>5 DEF EmittedFor, ReportOf, Parity
<1>6. CASE WriteReport(c)
  BY <1>5, <1>6 DEF WriteReport, Late
<1>7. CASE WriteSarif(c)
  BY <1>5, <1>7 DEF WriteSarif, Late
<1>8. CASE FailReport(c) \/ FailSarif(c) \/ FailContractIr(c)
  BY <1>8 DEF FailReport, FailSarif, FailContractIr, FailedReport
<1> QED
  BY <1>1, <1>2, <1>3, <1>4, <1>6, <1>7, <1>8 DEF RunStep

LEMMA NextTellsTruth ==
  Typed /\ InStep /\ TellsTruth /\ [Next]_vars => TellsTruth'
<1> SUFFICES ASSUME Typed, InStep, TellsTruth, [Next]_vars, Isolated'
             PROVE  Truthful(report') /\ Truthful(sarif') /\ Truthful(evidence'.report)
  BY DEF TellsTruth, Truthful, Green
<1> Isolated
  BY IsolatedBefore
<1> USE DEF inputs, emission, process, artifacts, consumer, history
<1>1. ASSUME UNCHANGED <<artifacts, consumer>>
      PROVE  Truthful(report') /\ Truthful(sarif') /\ Truthful(evidence'.report)
  BY <1>1 DEF TellsTruth
<1>2. ASSUME NEW c \in Checks, RunStep(c)
      PROVE  Truthful(report') /\ Truthful(sarif') /\ Truthful(evidence'.report)
  BY <1>2, RunTellsTruth DEF TellsTruth, InStep
<1>3. CASE VerifierStep
  BY <1>3, VerifierMoves DEF TellsTruth
<1>4. ASSUME NEW d \in Dirs, OrphanStep(d) PROVE UNCHANGED <<artifacts, consumer>>
  BY <1>4 DEF OrphanStep, OrphanReads, OrphanWrites
<1>5. ASSUME NEW lane \in Authored, Edit(lane) PROVE UNCHANGED <<artifacts, consumer>>
  BY <1>5 DEF Edit
<1> QED
  BY <1>1, <1>2, <1>3, <1>4, <1>5 DEF Next, vars

-----------------------------------------------------------------------------
(* The documents as the latest run leaves them, if it has been on its own and   *)
(* no write of its was refused: each point of the run knows which are its own. *)
StoryOf(c) ==
  /\ pc[c] \in {"sarif", "rebuild", "contractIr"} => report = ReportOf(c)
  /\ pc[c] \in {"rebuild", "contractIr"} => sarif = ReportOf(c)
  /\ pc[c] \in {"caught-sarif", "caught-ir"} => report = FailedReport
  /\ pc[c] = "caught-ir" => sarif = FailedReport
  /\ pc[c] \in Statuses =>
       /\ report.status = pc[c] /\ sarif = report
       /\ contractIr = [admissible |-> pc[c] = "passed", of |-> report]
Story == \A c \in Checks : alone = c => Running \subseteq {c} /\ StoryOf(c)

LEMMA RunTells ==
  ASSUME Typed, Typed', NEW c \in Checks, RunStep(c), StoryOf(c), alone' = c, alone = c
  PROVE  StoryOf(c)'
<1> USE DEF Typed, TypeOK, StoryOf, Step, Throw, End, Statuses, Refuse,
            inputs, emission, process, artifacts, consumer, history
<1>1. CASE Start(c)
  BY <1>1 DEF Start
<1>2. CASE ReadTypeSpec(c) \/ ReadAuthored(c) \/ Clean(c) \/ CompilerReads(c)
  BY <1>2, NoneAssumption DEF ReadTypeSpec, ReadAuthored, Clean, CompilerReads
<1>3. CASE CompilerWrites(c) \/ CompilerFails(c) \/ Locate(c) \/ ReadTypeSpecAgain(c)
  BY <1>3 DEF CompilerWrites, CompilerFails, Locate, ReadTypeSpecAgain
<1>4. CASE ReadAuthoredAgain(c) \/ ReadGenerated(c) \/ ReadFails(c)
  BY <1>4 DEF ReadAuthoredAgain, ReadGenerated, ReadFails
<1>5. CASE WriteReport(c)
  BY <1>5, NoneAssumption DEF WriteReport, ReportOf
<1>6. CASE WriteSarif(c)
  BY <1>6, NoneAssumption DEF WriteSarif, ReportOf
<1>7. CASE LoadLane(c)
  BY <1>7 DEF LoadLane, ReportOf
<1>8. CASE WriteContractIr(c)
  BY <1>8, NoneAssumption DEF WriteContractIr, ReportOf
<1>9. CASE FailReport(c)
  BY <1>9, NoneAssumption DEF FailReport
<1>10. CASE FailSarif(c)
  BY <1>10, NoneAssumption DEF FailSarif
<1>11. CASE FailContractIr(c)
  <2>1. /\ pc'[c] = "failed" /\ report' = FailedReport /\ sarif' = FailedReport
        /\ contractIr' = [admissible |-> FALSE, of |-> FailedReport]
    BY <1>11, NoneAssumption DEF FailContractIr
  <2>2. FailedReport.status = "failed"
    BY DEF FailedReport
  <2> QED
    BY <2>1, <2>2
<1>12. CASE Kill(c)
  BY <1>12 DEF Kill
<1> QED
  BY <1>1, <1>2, <1>3, <1>4, <1>5, <1>6, <1>7, <1>8, <1>9, <1>10, <1>11, <1>12 DEF RunStep

(* Only a running run moves, and it loses its standing or keeps it. *)
LEMMA RunAlone ==
  ASSUME Typed, NEW c \in Checks, RunStep(c)
  PROVE  \/ c \in Running /\ alone' \in {alone, None}
         \/ Start(c)
<1> USE NoneAssumption DEF Typed, TypeOK, Step, Refuse, Running, Ended, Statuses, history
<1>1. CASE ReadTypeSpec(c) \/ ReadAuthored(c) \/ Clean(c) \/ CompilerReads(c)
  BY <1>1 DEF ReadTypeSpec, ReadAuthored, Clean, CompilerReads
<1>2. CASE CompilerWrites(c) \/ CompilerFails(c) \/ Locate(c) \/ ReadTypeSpecAgain(c)
  BY <1>2 DEF CompilerWrites, CompilerFails, Locate, ReadTypeSpecAgain
<1>3. CASE ReadAuthoredAgain(c) \/ ReadGenerated(c) \/ ReadFails(c) \/ LoadLane(c)
  BY <1>3 DEF ReadAuthoredAgain, ReadGenerated, ReadFails, LoadLane
<1>4. CASE WriteReport(c) \/ WriteSarif(c)
  BY <1>4 DEF WriteReport, WriteSarif
<1>5. CASE WriteContractIr(c)
  BY <1>5 DEF WriteContractIr
<1>6. CASE FailReport(c) \/ FailSarif(c) \/ FailContractIr(c)
  BY <1>6 DEF FailReport, FailSarif, FailContractIr
<1>7. CASE Kill(c)
  BY <1>7 DEF Kill
<1> QED
  BY <1>1, <1>2, <1>3, <1>4, <1>5, <1>6, <1>7 DEF RunStep

LEMMA NextStory == Typed /\ Story /\ [Next]_vars => Story'
<1> SUFFICES ASSUME Typed, Story, [Next]_vars, NEW c \in Checks, alone' = c
             PROVE  Running' \subseteq {c} /\ StoryOf(c)'
  BY DEF Story
<1> Typed'
  BY NextTyped
<1> USE DEF inputs, emission, process, artifacts, consumer, history
<1>1. ASSUME UNCHANGED <<process, artifacts, alone>>
      PROVE  Running' \subseteq {c} /\ StoryOf(c)'
  <2>1. alone = c /\ Running' = Running /\ ReportOf(c)' = ReportOf(c)
    BY <1>1 DEF Running, ReportOf
  <2> QED
    BY <1>1, <2>1 DEF Story, StoryOf
<1>2. ASSUME NEW k \in Checks, RunStep(k)
      PROVE  Running' \subseteq {c} /\ StoryOf(c)'
  <2>1. CASE Start(k)
    <3>1. Running = {} /\ k = c
      BY <2>1, NoneAssumption DEF Start
    <3>2. pc'[c] = "typespec" /\ \A other \in Checks \ {c} : pc'[other] = pc[other]
      BY <2>1, <3>1 DEF Start, Typed, TypeOK
    <3> QED
      BY <3>1, <3>2 DEF Running, StoryOf, Statuses
  <2>2. CASE k \in Running /\ alone' \in {alone, None}
    <3>1. alone = c /\ k = c
      BY <2>2, NoneAssumption DEF Story
    <3>2. StoryOf(c)'
      BY <1>2, <3>1, RunTells DEF Story
    <3>3. Running' \subseteq Running \cup {c}
      BY <1>2, <3>1, RunLeavesOthers DEF Others, Running
    <3> QED
      BY <3>1, <3>2, <3>3 DEF Story
  <2> QED
    BY <1>2, <2>1, <2>2, RunAlone
<1>3. CASE VerifierStep
  BY <1>1, <1>3, VerifierMoves
<1>4. ASSUME NEW d \in Dirs, OrphanStep(d) PROVE UNCHANGED <<process, artifacts, alone>>
  BY <1>4 DEF OrphanStep, OrphanReads, OrphanWrites
<1>5. ASSUME NEW lane \in Authored, Edit(lane) PROVE UNCHANGED <<process, artifacts, alone>>
  BY <1>5 DEF Edit
<1> QED
  BY <1>1, <1>2, <1>3, <1>4, <1>5 DEF Next, vars

-----------------------------------------------------------------------------
(* The invariant that carries all of the above. *)
IInv == /\ Typed /\ Stage /\ Watched
        /\ Certified /\ InStep /\ TellsTruth /\ Story

LEMMA Inductive == Spec => []IInv
<1>1. Init => IInv
  <2> SUFFICES ASSUME Init PROVE Certified /\ TellsTruth /\ Story
    BY InitTyped, InitStage, InitWatched, InitInStep DEF IInv
  <2> QED
    BY NoneAssumption DEF Init, Certified, CheckReport, CertifiedIr, TellsTruth, Truthful, Green, Story
<1>2. IInv /\ [Next]_vars => IInv'
  BY NextTyped, NextStage, NextWatched, NextCertified, NextInStep, NextTellsTruth, NextStory
     DEF IInv
<1> QED
  BY <1>1, <1>2, PTL DEF Spec

(* Every variable keeps its type, and a compiler runs while its check waits. *)
THEOREM TypesHold == Spec => []TypeOK
<1>1. IInv => TypeOK
  BY DEF IInv, Typed
<1> QED
  BY <1>1, Inductive, PTL

(* runCheck: no run reaches a verdict after an edit of a source between its    *)
(* two digests of that source, whatever other runs, edits and kills do.        *)
THEOREM EditsAreSeen == Spec => []EditsAreNoticed
<1>1. IInv => EditsAreNoticed
  BY DEF IInv, Watched, Noticed, EditsAreNoticed, Typed, TypeOK, Caught, Emission
<1> QED
  BY <1>1, Inductive, PTL

(* runCheck, createContractIr, verifyConsumerContract: a report or SARIF file  *)
(* of a check, an admissible Contract IR of either command and an admission    *)
(* name two sources that existed together, for any number of runs that share   *)
(* the artifacts.                                                              *)
THEOREM VerdictsAreOfOneMoment == Spec => []CertifiedTogether
<1>1. IInv => CertifiedTogether
  <2> SUFFICES ASSUME IInv, verifier = "passed" PROVE Together(evidence.inputs)
    BY DEF IInv, Certified, CertifiedTogether, CheckReport, CertifiedIr
  <2>1. Admits(evidence) /\ CertifiedIr(evidence.contractIr)
    BY DEF IInv, Certified
  <2> QED
    BY <2>1 DEF Admits, Presentable, Admissible, CertifiedIr
<1> QED
  BY <1>1, Inductive, PTL

(* runCheck: when every process has its own emitter output directory and no    *)
(* compiler outlived its run, a passed check has compared the authored schema  *)
(* with the TypeSpec source that it names.                                     *)
THEOREM PassedChecksAreTrue == Spec => []GreenIsTrue
<1>1. IInv => GreenIsTrue
  BY DEF IInv, TellsTruth, Truthful, GreenIsTrue
<1> QED
  BY <1>1, Inductive, PTL

(* runConsumerVerification: under the same conditions, the two sources that    *)
(* verify-ir admits for the report of a check say the same.                    *)
THEOREM AdmissionsAreTrue == Spec => []AdmittedIsTrue
<1>1. IInv => AdmittedIsTrue
  BY DEF IInv, TellsTruth, Truthful, Green, Certified, Admits, Presentable, Admissible,
         AdmittedIsTrue
<1> QED
  BY <1>1, Inductive, PTL

(* main: a run that shared its paths with no other and had no write refused    *)
(* leaves three documents that tell its exit status.                           *)
THEOREM OneStory == Spec => []LoneRunTellsOneStory
<1>1. IInv => LoneRunTellsOneStory
  BY DEF IInv, Story, StoryOf, Typed, TypeOK, LoneRunTellsOneStory
<1> QED
  BY <1>1, Inductive, PTL
=============================================================================
