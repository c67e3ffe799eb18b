---------------------------- MODULE ConfigInstance ----------------------------
(***************************************************************************)
(* validateConfigJsonFile: a configuration file is validated against one    *)
(* authored JSON Schema.  Both files are read at the same time, each by     *)
(* readRegularJson, while others change them; what the schema says of an    *)
(* instance is given per pair of contents.                                  *)
(***************************************************************************)
EXTENDS StableRead

CONSTANTS
  SchemaRead, InstanceRead,   \* the two reads, members of Readers
  SchemaPath, InstancePath,
  Modes,     \* subset of {"build", "runtime"}
  Judge      \* Judge[<<s, i>>]: "valid", "invalid", "refused" or "unparsable"

Configured == {SchemaRead, InstanceRead}
ASSUME ConfigAssumption == Configured \subseteq Readers /\ SchemaRead # InstanceRead

VARIABLES
  configAt,       \* "open", "reading", "judged" or "thrown"
  configMode,
  configReceipt   \* None, or the status of the receipt

config == <<configAt, configMode, configReceipt>>

ConfigInit == configAt = "open" /\ configMode \in Modes /\ configReceipt = None

Started(r) == [Idle EXCEPT !.at = "inspect", !.strict = FALSE, !.limit = MaxBytes,
                           !.path = IF r = SchemaRead THEN SchemaPath ELSE InstancePath]
OpenBoth ==
  /\ configAt = "open"
  /\ configAt' = "reading"
  /\ reader' = [r \in Readers |-> IF r \in Configured THEN Started(r) ELSE reader[r]]
  /\ UNCHANGED <<tree, held, configMode, configReceipt>>

ReadConfig ==
  /\ configAt = "reading"
  /\ \E r \in Configured : ReadStep(r)
  /\ UNCHANGED config

(* Promise.all: the first read that fails fails both, in either mode.        *)
ConfigThrown ==
  /\ configAt = "reading"
  /\ \E r \in Configured : reader[r].at = "refused"
  /\ configAt' = "thrown"
  /\ UNCHANGED <<tree, reading, configMode, configReceipt>>

(* A mixture of contents may parse as anything.                              *)
Judgements ==
  LET pair == <<reader[SchemaRead].got, reader[InstanceRead].got>> IN
  IF pair \in DOMAIN Judge THEN {Judge[pair]}
  ELSE {"valid", "invalid", "refused", "unparsable"}

(* validateConfigValue: what is not valid, or not evaluated, fails a build   *)
(* and is a warning at run time.                                             *)
JudgeConfig ==
  /\ configAt = "reading"
  /\ \A r \in Configured : reader[r].at = "done"
  /\ \E j \in Judgements :
       IF j = "unparsable" THEN configAt' = "thrown" /\ UNCHANGED configReceipt
       ELSE /\ configAt' = "judged"
            /\ configReceipt' = IF j = "valid" THEN "passed"
                                ELSE IF configMode = "runtime" THEN "warning" ELSE "failed"
  /\ UNCHANGED <<tree, reading, configMode>>

EditConfig == configAt = "reading" /\ EditSeen /\ UNCHANGED config

ConfigNext == OpenBoth \/ ReadConfig \/ ConfigThrown \/ JudgeConfig \/ EditConfig
ConfigSpec == TreeInit /\ ReadInit /\ ConfigInit /\ [][ConfigNext]_<<tree, reading, config>>
=============================================================================
