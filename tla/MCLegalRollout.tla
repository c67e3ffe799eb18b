---------------------------- MODULE MCLegalRollout ----------------------------
(* Small instances of LegalRollout for TLC: two external documents and an    *)
(* internal one, texts of a draft, of an approved and of an executed         *)
(* document.                                                                 *)
EXTENDS LegalRollout, TLC

CONSTANTS eula, terms, nda   \* paths

Blank == {"external", "internal"} \cup RequiredMarks
DraftText == <<1, 1>>
ApprovedText == <<2, 2>>
ExecutedText == <<1>>
MCMarksOf == (DraftText :> Blank \cup {"draft"} @@ ApprovedText :> Blank \cup {"approved"}
              @@ ExecutedText :> Blank \cup {"approved", "executed"})
MCClassOf == (eula :> "external" @@ terms :> "external" @@ nda :> "internal")
MCOrder == <<eula, nda, terms>>

Document(id, path, status, sha) ==
  [id |-> id, path |-> path, class |-> MCClassOf[path], type |-> id, status |-> status,
   required |-> TRUE, recorded |-> status = "approved", sha |-> sha]
Drafts == [root |-> TRUE, approved |-> FALSE,
           documents |-> <<Document("e", eula, "draft", DraftText),
                           Document("t", terms, "draft", DraftText),
                           Document("n", nda, "draft", DraftText)>>]
Approved == [root |-> TRUE, approved |-> TRUE,
             documents |-> <<Document("e", eula, "approved", ApprovedText),
                             Document("t", terms, "approved", ApprovedText),
                             Document("n", nda, "approved", ApprovedText)>>]

DocumentValues(f) ==
  CASE f = "id" -> {"e", "t"} [] f = "path" -> {eula, terms, nda}
    [] f = "class" -> {"external", "internal"} [] f = "type" -> {"e", "other"}
    [] f = "status" -> {"draft", "approved", "expired"}
    [] f \in {"required", "recorded"} -> BOOLEAN
    [] OTHER -> {DraftText, ApprovedText, ExecutedText}
Redone(d) == UNION {{[d EXCEPT ![f] = v] : v \in DocumentValues(f)} : f \in DOMAIN d}
Amended(m) ==
  {[m EXCEPT !.root = ~@], [m EXCEPT !.approved = ~@], [m EXCEPT !.documents = <<>>]}
  \cup {[m EXCEPT !.documents = Append(@, d)] : d \in {Malformed, m.documents[1]}}
  \cup UNION {{[m EXCEPT !.documents[k] = d] : d \in {Malformed} \cup Redone(m.documents[k])}
              \cup {[m EXCEPT !.documents = SubSeq(@, 1, k - 1) \o SubSeq(@, k + 1, Len(@))]}
              : k \in DOMAIN m.documents}
MCRollouts == Amended(Drafts) \cup Amended(Approved) \cup {Drafts, Approved}
MCAdmissions == [ir : BOOLEAN, generated : {TRUE, FALSE, Nothing}, authored : {TRUE, FALSE, Nothing}]
Admitted == [ir |-> TRUE, generated |-> TRUE, authored |-> TRUE]

\* The documents are in the checkout, drafts or approved ones; the other
\* directory has one of them and an executed one.
RolloutTreeInit ==
  /\ folder = "here"
  /\ entry = [f \in Folders |-> IF f = "here" THEN eula :> 1 @@ terms :> 2 @@ nda :> 3
                                ELSE eula :> 4 @@ terms :> None @@ nda :> None]
  /\ \E text \in {DraftText, ApprovedText} :
       data = [i \in Inodes |-> IF i = 4 THEN ExecutedText ELSE text]
  /\ mtime = [i \in Inodes |-> 0] /\ ctime = [i \in Inodes |-> 0]

\* Either the tree moves and the manifest is the one of its documents, or the
\* manifest may be anything and the tree stays; so may the verdicts.
RolloutMoves == edits = 0 /\ rollout \in {Drafts, Approved} /\ admission = Admitted
RolloutStays == edits = MaxEdits /\ (admission = Admitted \/ rollout \in {Drafts, Approved})
RolloutSpec == RolloutTreeInit /\ RolloutInit /\ (RolloutMoves \/ RolloutStays)
               /\ [][RolloutNext]_rolloutVars
=============================================================================
