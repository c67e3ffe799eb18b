--------------------------- MODULE MCEvidenceChain ---------------------------
(* Small instances of EvidenceChain for TLC.                                 *)
EXTENDS EvidenceChain, TLC

\* Two revisions that declare the same names and say different things of them.
CONSTANTS this, that
TwoBodies == {[names |-> 1, body |-> this], [names |-> 1, body |-> that]}

AnyCheck == Permutations(Checks) \cup Permutations({this, that})

\* One check in the watched directory that is verified, or two checks that share
\* artifacts, and perhaps that directory, and are not.  Three runs, edits and kills:
\* a second run leaves room for one edit or one kill, one run alone for two.
OneChainOrTwoChecks ==
  /\ \E c \in Checks :
       /\ dir[c] = WatchedDir
       /\ verifier = "ready" \/ \A k \in Checks \ {c} : pc[k] = "ready" /\ dir[k] # dir[c]
  /\ runs + edits + kills <= 3
=============================================================================
