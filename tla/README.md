# A TLA+ model of typespec-json-schema-validator

The validator keeps two independently authored descriptions of one contract in
step: TypeSpec source and JSON Schema 2020-12.  It lets the TypeSpec compiler
emit a JSON Schema as comparison evidence, compares it with the authored schema
structurally and by running instances through both, and ends `passed`,
`stopped_for_evaluation` or `failed`.  It then publishes a report, a SARIF file
and a Contract IR, which other programs verify again before they rely on the
contract.  The promise throughout is to *fail closed*: no error, race, budget,
mapping or old file may make disagreement look like agreement.  The models in
this directory are about that promise.

All paths below are relative to the repository root (`src/` is the directory of
the implementation, `docs/` that of its documentation).

## 1. Inventory

| part | state it keeps | operations | what is hard | what makes it correct |
|---|---|---|---|---|
| evidence file writers (`report-file`, `contract-ir-file`, `sarif-file`, `formal-verification-receipt-file`, `consumer-verification-receipt-file`, `projection-verification/receipt`, `protobuf-compatibility`, `wit-compatibility`) | a target path, a temporary sibling | inspect, create sibling, write, link or inspect again and rename, clean up, check what landed | several processes and users at one path, kills, failing operations | never a torn file; never another's file replaced; under contention somebody wins; path stays updatable |
| mapping audit and pairing (`mapping-integrity`, first half of `parity`) | mapping, three inventories | resolve names, audit, pair, compare kinds | names that mean several things; entries that go stale as lanes are edited | a pass is a one-to-one pairing; a stop has a cause |
| budgeted comparison (`parity`, `differential`, `run`, `finding-limit`) | findings, counters, seen instances, consumed fixtures | structural gates, probes, fixtures, report | truncation, deduplication, refusals | the budget changes what is shown, never the verdict |
| check and compare (`run`, `cli`, `emitter`) | sources, output directory, three artifacts, a compiler process | read, emit, read again, compare, publish, or publish a failure | edits during emission, kills, orphaned compilers, refused writes half way | a green report is true; artifacts tell one story |
| Contract IR (`contract-ir`, `contract-ir-inputs`) | the IR and its digests | build, tombstone, verify | everything is read again, concurrently, after the report | admissible only for what was compared |
| consumer verification (`consumer-verification`, `consumer-verification-receipt`) | its receipt | verify-ir | artifacts of different runs; a write error at the end | admits only current, agreeing sources; exit 0 or 3 |
| instance validator (`instance-validator`, `format-assertions`) | reference stack, depth, annotations | evaluate | cycles, depth, annotations across applicators | a verdict or a refusal, never a guess |
| probe synthesis (`witness`) | probe list | synthesize, enumerate domains, mutate | shared probe budget | every declared domain member is probed |
| canonical JSON and reference comparison (`canonical`, `reference-comparison`) | none | canonicalize, diff, scope references | aliasing of references | equal only if equal up to declared renaming |
| schema collections (`json-schema`, `schema-syntax`, `schema-uri-index`) | documents by URI | load, index, check structure | duplicate identifiers | unique resolution |
| TypeSpec inventory (`typespec-inventory`, `typespec-behavior`) | scanner position | scan, list, digest | comments, templates, nesting | every top-level declaration, once |
| compatibility of projections (`protobuf-`, `wit-`, `openapi-compatibility`) | two normalized projections, a receipt | normalize, compare, budget, write | reservations over a history of releases; exactly as many findings as may be shown | a client of any earlier release is served; a receipt tells what it leaves out |
| projection admission (`projection-admission`, `projection-verification`, `graphql-projection-admission`) | a policy, a manifest, digests of files | verify, hash, verify again, judge | files and ancestors swapped during the call; manifests that name one thing twice | digests of contents that were there; nothing declared is left open |
| runtime conformance (`runtime-conformance`) | Contract IR, binding, corpus, envelopes of results | bind, execute, verify, compare, decide | evidence and verifications that are kept while everything moves | only evidence that was executed on what is verified passes |
| formal and implementation verification (`formal-verification`, `implementation-verification`) | bindings, receipts, child processes | read pinned sources, probe tools and git, run provers | the checkout changes between probe, read and proof | L4 needs L3, pinned texts and an exit of zero for each proof |
| legal rollout (`legal-rollout`) | manifest, two directories | audit, list, read, sign | documents move between two listings and their reads | nothing unlisted, unread or unapproved |
| configuration instances (`config-instance`) | two files | read both, judge | files rewritten during a read | a verdict about contents that the files had |
| npm audit policy and expiry tracker (`npm-audit-policy`, `npm-audit-expiry-tracker`, three scripts and a workflow) | exceptions with an expiry, one tracker issue | audit, list, plan, execute | requests that fail half way or lose their answer, people closing and hiding issues | no expiry comes unannounced; one tracker; open while an alert lasts, closed only by a passing audit |
| language boundary, consumer manifests, fleet audit, option parsing, release scripts | manifests, remote listings | parse, classify | pagination | sequential; mostly formats |

Interaction: a check reads the sources, starts the compiler, reads its output and
the sources again, runs pairing and comparison, and hands one report to three
writers.  The Contract IR is built from the report and a third reading.
`verify-ir` reads report and IR, verifies them against a fourth reading and uses
a fourth writer.  Processes share nothing but files.  The downstream gates are
commands of their own: they take a Contract IR, an authority or a baseline as an
input, read files that belong to a checkout, and answer with a receipt.  None reads
another's receipt, except the implementation lane, which is given that of the
formal lane.  The expiry tracker stands apart:
its runs are serialized by the workflow and share with people the issues of the
repository.

## 2. Modules

| module | role |
|---|---|
| `ReceiptFile` | the writers at one path, step by step |
| `ReceiptSlot` | abstract: the path as an atomic register |
| `DeclarationPairing` | mapping audit, pairing and inventory gates over edits |
| `ParityRun` | one budgeted comparison, from gates to report |
| `ParityVerdict` | abstract: evidence, then one verdict |
| `EvidenceChain` | checks, compiler, artifacts, verify-ir and an author |
| `ExpiryTracker` | daily audits, the tracker issue and the people about it |
| `Rules` | how a gate answers: rules broken; lists of the caller normalized |
| `FileTree` | files, links, directories and timestamps, and others who change them |
| `StableRead` | one read by path, system call by system call, strict or not |
| `ConfigInstance` | two reads and the judgement of a configuration file |
| `ProjectionManifest` | the manifest gates of projection admission, as operators |
| `ProjectionAdmission` | `verifyProjectionWorkspace`: contract, files, contract again, manifest |
| `ProofLanes` | `verifyFormalContract`, then `verifyImplementationProofs` |
| `ProtobufCompatibility`, `WitCompatibility`, `OpenApiCompatibility` | normalization and comparison of two projections, as operators |
| `ReleaseHistory` | releases one after the other through one of the three |
| `RuntimeConformance` | binding, execution, verification, comparison |
| `LegalRollout` | `runLegalRollout` over a tree that moves |
| `SchemaResolver` | the index of schema documents: registration and lookup |
| `SchemaLocations` | what a URI names, by definition |
| `SchemaSemantics` | what a schema means, by definition |
| `InstanceValidator` | `validateInstance` over the index |
| `*Proofs` | theorems about the module before the suffix; `ProjectionAdmissionProofs` also about `StableRead` and `ConfigInstance`, `DifferentialProofs` about `ParityRun` and `SchemaLocations`, `GateProofs` about `LegalRollout`, `ProofLanes` and `RuntimeConformance` |
| `MC*`, `*.cfg` | instances for TLC; `MCGates` puts the gates beside each other, `MCDifferential` a lane beside the comparison of two |

`EvidenceChain` composes the others by their abstractions: a publication is one
step that lands or is refused (the register that `ReceiptFile` implements), and a
comparison is one verdict on what was read (what `ParityRun` implements, with
`DeclarationPairing` for the names).

`ProjectionAdmission` and `ConfigInstance` extend `StableRead`, which extends
`FileTree`; `ProofLanes` and `LegalRollout` extend `FileTree` and read in their own,
simpler ways; the gates with manifests share `Rules`.

Operators whose comment begins with *Mutant* are plausible defects of the code.  They
are not part of any specification; with one of them in the place of the
definition it names, TLC finds the property listed beside it in `PROJECT.json`
violated.

### 2.1 ReceiptFile

Each `await` of a writer is an action, in the order of the code: `Stat` and `Read`
(the two halves of `inspectDestination`), `Open`, `Write` (write, sync and close),
`Link` or `Restat`, `Reread`, `Rename`, and `Cleanup`.  `kind` selects one of three
variants found in the eight files:

* `link`: report, SARIF, Contract IR, formal and consumer receipts.  `link(2)` for
  the first publication, sibling removed in `finally`, whose error is fatal.
* `landed`: protobuf and projection receipts.  The sibling is removed inside the
  `try` (`Unlink`), and a last `lstat` must show a lone regular file (`Land`); the
  error of the final cleanup is swallowed.
* `rename`: WIT receipts.  The first publication renames.

State: `target`, `temps` and `links` are names, `content` and `stamp` the inodes they
name; `stamp` is what `unchanged` compares beside the identity (size, mtime,
ctime).  `pc`, `before`, `after`, `outcome` are the locals of a call.  `outcome` is
`published` from link or rename until the function returns.  `UserStep` is anybody
else at the directory; `Crash` a kill.  Every awaited operation may fail (`Fails`, or
`Fault` where a failure is not the end): before the sibling exists the run is over,
afterwards `finally` cleans up, and what a failing `unlink` or `lstat` leaves behind
stays.  Failures are counted in `faults`.
Serialization and the recognition of an envelope come before the first file
operation and are a condition of `Start`.  Ownership of an existing file is the
content class `receipt`.  A read by path follows a symbolic link and may find
either.  An inode is not reused (a reused number comes with a new ctime).

### 2.2 DeclarationPairing

`source` is the inventory of TypeSpec declarations, `schemas` the kind of each
declaration of the two schema lanes, `mapping` what a caller passes.  `Compare` is
`compareParity` up to its semantic gate: `Findings` collects the ambiguities of the
inventory, the mapping audit and the pairing gates, one operator per gate, each a
set of tagged tuples.  Operators have the names of the code's functions or of
their rule.  `Edit` changes one lane and comes before the next comparison.  A
mapping is arbitrary, with invalid names (`None`) as well, because
`auditMappingIntegrity` is meant for callers that bypass `loadMapping`.

### 2.3 ParityRun

The gates of one run in order, `phase` saying which.  A structural gate is the
number of differences it lists and the number there are (`found`, `drift`).  The
differential lane is modelled probe by probe: synthesized probes are deduplicated
by their instance, declared examples and fixtures are not, a verdict of a lane on
an instance is chosen when first asked for and remembered, a refusal counts as
neither.  `wrong` collects the causes of everything that a run with unlimited
budget and without deduplication would report; it and `drift` are the yardstick of
the properties and influence nothing.  `Report` is `buildPassedOrStoppedReport`.

### 2.4 EvidenceChain

Each reading of a source is a step, so is each phase of the emission, and each of
the three publications.  A revision is a record of the names it declares and what
it says of them.  `dir` is the output directory of a process; two processes may
have one.  `compiler[c]` is the subprocess of a run: asked, having read a revision,
or gone; a run that is killed may leave it behind as `orphan`.  `CompilerFails` is
the subprocess failing, then the pinned fallback failing, or a subprocess that cannot
be started, for which there is no fallback (`src/emitter.mjs:257`).  `WriteContractIr` holds
`createContractIr` and the tombstone of a stopped run.  `FailReport`, `FailSarif` and
`FailContractIr` are the three independent attempts in the catch of `main`.
`Verify` is the end of `runConsumerVerification`.  `touched`, `stray`, `alone` and
`past` are history variables.  SARIF and Contract IR are always requested.

### 2.5 ExpiryTracker

A run of the workflow is `Begin` (check out the ledger), `Audit` (`npm-audit-gate` with
`evaluateAudit`, or a failed receipt), `ListIssues` and `ListLabels` (two requests, then
the planner on both answers) and one `Execute` for each planned operation, in the
order of the plan, which `todo` keeps by the place of an operation.  `Perform` is what
GitHub does with a request.  A request can be refused, the runner can die (`Abandon`),
and a request can take effect without its answer arriving (the second half of
`Execute`); a label that somebody created since the listing is refused (`Refused`).
After any of them the run is over and nothing is left of it but the issues.

An advisory stands for one finding of enforced severity; an entry is an advisory
with the expiry of its exception, and the text of an issue is the entries it names.
`issues` holds what has ever been a tracker: its state, whether it has the label and
the marker, its text.  `Change` is the registry and the ledger moving, also during a
run, which keeps the ledger it checked out.  `People*` is triage: issues closed and
reopened, label or marker taken off and put back, the label deleted or created.
`lastRun`, `announced` and `hidden` are history variables.  The wording of titles and
comments is left out; the requests that post comments are not, because they can fail.

### 2.6 FileTree and StableRead

A path is a name in the directory that its ancestors lead to (`folder`), so that a
renamed or symbolically linked ancestor moves every path at once.  A file is an
inode with a content, which is a sequence of blocks, a link count, and two times:
`mtime`, which a tool can set back, and `ctime`, which nobody can.  `WriteInPlace`,
`Replace`, `Remove`, `Relink` and `SwapFolder` are what others do.

`StableRead` has the two careful readers.  The strict one is `readProjectionFile`
(`src/projection-admission/safe-file.mjs`): ancestors, `lstat`, `open`, `fstat` against the
`lstat`, as many blocks as the file had, one more byte, `fstat` against the first
with mtime and ctime, ancestors and `lstat` again.  The other is `readRegularJson`
(`src/config-instance.mjs`), which compares device and inode at the ends only and reads to
the end of the file.  Every system call is a step; `held[r]` remembers what the file
contained since it was opened and influences nothing.

### 2.7 ProjectionManifest and ProjectionAdmission

`ProjectionManifest` is the synchronous half: normalization (entries of a refused
shape and repeated keys are reported and dropped), the admission of Contract IR and
parity receipt (`ContractFindings`), and each comparison of the manifest with what
the caller observed or approved, one operator per function of `verify.mjs`.  A digest
is the value it is a digest of.  `ProjectionAdmission` is the asynchronous half:
`AcceptPolicy`, `VerifyForReceipt` (for the receipt), `VerifyContract` and
`VerifyAgain` (around the files), `BeginFile`, `ReadFile`, `HashFile` or `FileRefused` for each
file in order, each within what is left of the aggregate limit, `JudgeManifest`,
`WriteReceipt`.  Sources and files change at any step.

### 2.8 ProofLanes

The two lanes in the order of the code, one action per await: manifest and bindings,
`lstat` and `readFile` of each pinned source, the probe of the prover, one run per
source (L3) or per proof (L4), the receipt; and in between the receipt as it was
issued or edited by hand (`Present`).  Both lanes read a source by path after an
`lstat` by path, and the prover reads it a third time: `saw` is what the prover had.
Either git probe may fail, which is a finding whatever it printed.
What a text declares, which markers it embeds and whether its prover accepts it is
given for each content.

### 2.9 The compatibility gates and ReleaseHistory

The three modules translate normalization (`Accepted`) and comparison (`Findings`, one
member for each finding the code pushes) as operators on records.  `ReleaseHistory`
proposes a projection after the other; one that passes is the next baseline.  The
promise is stated without looking at the rules: `Decodes`, `Instantiates` and `Accepts`
say what a client of the first release relies on.  `Retained`, `Counted` and `Truncated`
are the three different ways in which the files cut their findings, `SafeReceipt` and
`ValidReceipt` what their writers accept.

### 2.10 RuntimeConformance

`CheckSources` leaves report and IR, `CreateBinding` verifies them and hands out ids,
`ExecuteCorpus` is the adapters copying these, `VerifyIr` verifies again, `CompareEvidence`
is `compareRuntimeEvidence`.  `Move` edits sources, corpus or IR, so that binding, evidence
and verification may each be about something older.  `executedOn` and `checkedAt` are
history variables, and the yardstick of the property.

### 2.11 LegalRollout and ConfigInstance

`AuditManifest` is the verdict of both schema lanes and every rule on the manifest alone;
`ListDirectory`, `LstatName`, `ListInternal` list the two directories one after the other;
`CompareInventory`, and for each document `WalkDocument` (`rejectSymlinkComponents`),
`LstatDocument` (`readOwnedFile` up to its checks) and `ReadDocument` are the rest.
`pending` is what is still to be looked at, the `Earliest` name first.  The patterns of the
texts are marks that a content carries; that a content is no UTF-8 or that a read fails
is possible for each.  The `lstat`s of a walk are one step, and so is a `readFile`:
unlike in `StableRead`, a document that is rewritten in place is read before or after
that, never torn.  A mixture would have to have the pinned digest to pass.  `steady` and `had` are history variables.
`ConfigInstance` runs two non-strict reads at a time (`Promise.all`) and judges the pair.

### 2.12 SchemaResolver, SchemaLocations, SchemaSemantics and InstanceValidator

`AddDocument` is `addDocument` with `#register` and `registerSchemaUri`: every node of a
document gets its names (pointer from the root, own `$id`, anchor) in `Pending`, which
is entered whole or, after a conflict or a malformed node, not at all.  `Resolve` is
`resolve`, with its way through a pointer that crosses an embedded resource.  A URI is
the sequence of its path segments, so that a relative reference replaces the last one;
a pointer is the sequence of its steps, so that encodings of one pointer are equal.
The commands give a lane up whose loading failed; `Validate` therefore needs all
documents entered, while `NamesLeadHome` also speaks of the index after a refusal,
which must not leave names behind (`src/instance-validator.mjs:218`).  Recursion over a
document goes down by levels (`Visits`, `FollowPointer`), so that it can be proved about;
`MaxNesting` is any bound on the depth of the documents, which `NestingAssumption` says
that they keep.

`EvaluateSchema` is `evaluate`, an operator per keyword, with the context that the code hands
down (base, depth, instance path, stack of references), the annotations that come back
and the number of errors.  `Require` is a subschema whose errors are the caller's,
`Probe` one with an error list of its own.  A thrown error is the outcome *refused*,
which passes every enclosing applicator; the code skips no part of a schema because
another failed, so the order in which they are evaluated does not show.  `Validate`
takes the base of a declaration in both ways the commands do: inherited
(`src/differential.mjs:60`) and own (`src/legal-rollout/index.mjs:290`,
`src/config-instance.mjs:157`).

`SchemaLocations` and `SchemaSemantics` are the reference: locations with the base of
their place (`OwnBase`, `InheritedBase`), the locations that a name denotes (`Named`), and
`Meaning`, which says of an instance at a location whether it holds, which parts of it are evaluated, as
one set of keys, and whether that is open: not decided within the depth, a
reference to nothing, a keyword that is refused.  They have no index, stack, prefix or
flag.  The assertions (`Violations`) and the tree of subschemas (`Steps`) are shared by
both sides and are not checked against anything.

## 3. What is checked

| run | instance | shows |
|---|---|---|
| `receipt_file` | 2 writers, 4 files, 3 variants, 2 user steps, 1 kill or 1 fault | no torn target; replacement only of vouched files; a rejected receipt stays on the path in two cases only; quiet paths stay updatable; one creator and a winner under contention; unrelated files survive; refinement of `ReceiptSlot` |
| `receipt_killed` | 2 writers, 1 kill | violation, see 5 |
| `receipt_wit` | 1 writer, 1 user step, `rename` | violation, see 5 |
| `pairing` | 3 declarations of which 2 share a name, 2 schema names, mappings of up to 2 of 5 entries, 5 and 2 x 3 ignore lists | a pass is an exact pairing; ignores hide exactly one; entries are used; stops have causes; drift stops |
| `pairing_bridge` | the same lanes, mappings that qualify both namesakes | violation, see 5 |
| `pairing_escaped` | `A.User` and, in `B`, a declaration whose name is ``A.User`` between backticks; one ignore entry | violation, see 5 |
| `differential`, a comparison | 2 pairs, budget 3, gates of up to 2 findings, 2 lane probes per pair, 3 fixtures | truncation and deduplication lose no verdict; refinement of `ParityVerdict` |
| `differential`, a lane | 420 collections about names and 550 about annotations, 12 instances, depth limit 6, 2 errors | every name leads to its location with its own base; a verdict is the meaning of the schema; refusals are due and never become verdicts |
| `evidence` | 2 revisions, 2 directories, check and compare, 1 kill; either 1 process with up to 2 runs and a verification, or 2 processes at one set of artifacts; 3 runs, edits and kills in all | green is true; edits are noticed; what is certified existed together; what is admitted is true; a lone run tells one story |
| `evidence_exit` | 1 check and a verification | violation, see 5 |
| `expiry_tracker` | 1 advisory, 3 instants, half a day apart, windows of 1 and 0 days, 3 issues, 1 change, 2 interventions, 1 failure | one tracker; announced before expired; resolved only when seen; exactly the right issue in the end |
| `gates` | one gate per behaviour; files: 3 paths, 5 inodes, 3 directories, 3 contents, 2 edits (1 for configuration files); otherwise see below | a read is atomic; nothing is admitted, proved, compared, conformant or released that was not earned |
| `openapi_case` | OpenAPI releases | violation, see 5 |

Bounds.  *Writers*: contention needs a creator and a loser; a third writer, which may
see the second name that the creator's file has in between, is covered by the
proofs, which are for any number.  Four files leave one to each run under way and
one to the users (`Room` keeps it so).  One kill or one failing operation
(`OneMishap`): together they are again left to the proofs.  *Users*: two steps replace a file and put something
back, which is what the two inspections are against.  *Pairing*: two namesakes and
one other declaration produce every kind of resolution (exact, simple, missing,
ambiguous); two entries produce duplicates, collisions and shadowing.  *Budget*: 3,
so that structural findings (up to 6 before the cut) and differential findings (up
to 9) can each exceed it, fill it exactly, or leave it.  One instance suffices,
because pairs do not share `seen` and the interesting case is its repetition.
*Revisions*: two that declare the same names, which is the hard case for an
inventory that sees names only; two edits change both sources between any two
readings.  *Tracker*: a second tracker takes a hidden one, so `MaxIssues` is one more
than the interventions, and creation never runs out of numbers; two interventions
hide a tracker and restore it beside its successor, which is how duplicates come
about.  Three instants put an expiry inside a window of a day, on its edge, and beyond that of 0 days.  The
clock stops at `MaxTime`, which is what makes an alert stay or go for good.
*Chain*: `OneChainOrTwoChecks` follows a state only while one process runs alone, or
while nobody verifies; runs, edits and kills together are at most three, so that a
second run leaves room for one edit or one kill, and one run alone for two.  *Gates*: the variables of a gate that is not run are idle, so that a
state counts once.  Each gate starts in one of two ways: with genuine evidence over
a tree, sources or a revision that others change twice, which is what a swap and its
reversal need; or with evidence that somebody altered (one entry dropped, doubled,
malformed or with a field changed, and every way to claim an approved loss) over a
tree that stays.  Two contents of one size and one shorter tell apart what a size
check sees and what it does not; five inodes leave two to put in the place of
others, one of them used again.  `StillGreen` does not follow a proof lane or a legal
rollout with genuine manifests past its first finding: no step takes a finding back
before the receipt, and the green ones are what `L4IsEarned` and `RolloutIsComplete` are
about.  Two findings are
shown, so that exactly the limit and one more both occur.  *Schemas*: a document
with an embedded resource whose `$id` is missing, relative with and without a
directory, or that of the root, under three kinds of root, with seven references each
from inside and outside of it, alone or followed by one of four documents; and
one with the definitions `a` and `b`, where `a` combines two of five schemas that gather
annotations by one of seven applicators, or is one of ten schemas about parts, and
then admits nothing unevaluated (three levels at most, `MaxNesting`), while `b`, if `a` refers to it, is plain, refused, a
cycle, a cycle through `not`, or a recursion down the instance.  Six levels hold every finite evaluation
but those of the deepest instance, which the limit refuses.  Three releases and more
follow each other freely: a history of releases is bounded only by the projections
that may be proposed.

The type invariants of `DeclarationPairing`, `ParityRun` and `ExpiryTracker` are proved
and in no run.
`CHECK_DEADLOCK FALSE` is set where processes end: runs are counted, a budgeted
run has one report, a user has a bounded number of steps.  `DeclarationPairing` goes
on for ever and is checked for deadlock.

Fairness.  `ExpiryTracker` assumes `WF_vars(Steps)`: as long as a run can start or go
on, one does.  The schedule starts a run every day
(`.github/workflows/npm-audit-exception-expiry.yml:7`) whether or not the last one
failed, a step of a run ends or is cut off by `timeout-minutes`, and `concurrency`
queues runs, so that one step at a time is under way.  Dispatched runs, people,
changes and failures are not fair; they are bounded, so the eventual properties say
what becomes of the tracker once the world leaves it alone for a full run.  The other
modules assume no fairness and have no liveness property: their programs are
sequences of awaited calls, and that these end is a matter of the file system and
the compiler, which nothing in the code times out.

Conditions in properties.  `RejectedLeavesTarget` speaks of runs with failures, kills
and users; what it allows is what the code does: a sibling whose removal fails is a
rejection that leaves the receipt with two names (`src/report-file.mjs:107`), and a
landing that cannot be confirmed leaves what it could not confirm
(`src/protobuf-compatibility.mjs:576`, `:586`).  `OneCreator` leaves out users, who may
empty the path between two creations, and the WIT writer, which renames and tells both.
`QuietTargetIsUpdatable` and `ContentionHasAWinner` are about runs that nothing happens
to; what a kill does is `receipt_killed`.  `GreenIsTrue` and
`AdmittedIsTrue` hold for checks (`compare` takes the generated schema on trust) with
directories of their own and no stray compiler; section 6 says what happens
otherwise.  An edit gives a source a revision it has not had; section 6 again.
`OneTracker` is for repositories where nobody hides a tracker, which
`docs/npm-production-audit.md:70` asks of people; what happens otherwise is in
`AlertIsTracked`.  `ExpiryIsAnnounced` needs the last executed run to be no further back
than its warning window, and takes as its reference runs whose plan was executed.

## 4. What is proved

TLAPS checks these for all values of the constants, under the assumptions named in
the modules (`KindsAssumption`, `InodesAssumption`, `BoundsAssumption` and so on).  The
assumptions about inputs say that JSON arrays are sequences (`ManifestsAssumption`,
`PoliciesAssumption`, `LaneManifestsAssumption`, `RolloutsAssumption`, `TrustedAssumption`,
`ReportsAssumption`), that projections
are finite and shaped as their parsers leave them (`ProtobufAssumption`,
`WitAssumption`, `OpenApiAssumption`), that schemas are nested to some depth
(`NestingAssumption`), that no text contains its own digest, and that
the order of names is one of all names (`OrderAssumption`).  Two theorems about pairing
have the hypothesis `PlainNames`: no simple name spells the qualified name of another
declaration; `pairing_escaped` shows what happens otherwise.

* `ReceiptFileProofs`.  `TypeCorrect`.  `NoTorn`: inductive with `Files`: what a path
  names is whole, siblings of running writers are distinct, private until they are
  linked, and whole from the end of `Write`.  Privacy is what keeps a second
  writer's `Write` from touching a published inode.  `OwnedReplaced`: inductive with
  `Snapshots`: while the inode of a first inspection still has the stamp of that
  inspection, it has one name and, once read, holds a receipt; every step that
  could change either advances the stamp.  `UnownedKept` follows for the variants that
  link.  `ImplementsRegister`: every step is a step of `ReceiptSlot` or stutters,
  with `Progress` (which outcome belongs to which point of the program, and that a
  sibling to be linked or renamed is not the target already).  The aftermath is three
  more parts: `Landing` (a published file is whole and, once the second name is
  dropped, has one, as long as no user edits it), `Swept` (a sibling has its name only
  because of the run that will drop it) and `Settled`; they give `RejectedLeaves`, where a
  rejection after the link is traced to the failure or the user behind it, and
  `QuietIsUpdatable`.  `SomebodyWins` has an invariant of another kind, `Contended`: some
  writer has won or is `OnTrack`, that is, will publish unless another one does so
  first; whoever takes a writer off the track has published (`OthersYield`, `OwnStep`).
  `CreatorIsUnique` is the other half, with failures and kills as well: a second creator
  would need the path to be empty again, and writers never empty it (`NextCreator`).
* `DeclarationPairingProofs`.  `PairingTypeCorrect`; `PassPairs`: no findings imply an
  exact pairing (`GatesPairOff`, `GatesAgreeOnKinds`, `NoFindingsMeansPaired`), for any
  catalogue, mapping and lanes, and a verdict is about the current lanes
  (`VerdictHolds`).  `IgnoresAreExact` comes from `Clean`: a reference that the audit
  counts as unique selects one declaration in the pairing, which looks names up in
  another way (`UniqueSelects`; here `PlainNames` is needed, and the proof attempt
  without it led to `pairing_escaped`).  `DriftIsStopped` compares two passes across an
  edit: names that are kept keep their targets (`TargetKept`), an arrival needs a
  departure and the reverse, and one declaration in the place of another has its name.
  `StopsWithCause` is the converse of the gates: each is silent on input without fault.
* `DifferentialProofs`.  `RunTypeCorrect`; `BudgetHides` from the invariant `Honest`: the
  list is empty just when nothing asked is wrong (`Told`, `Asked`), at any budget of
  at least one, which is why `assertFindingLimit` refuses zero; `ImplementsVerdict`
  from `GatheringAccumulates` and `StepIsVerdictStep`.  `NothingIsDropped` needs `Complete`:
  below the budget, each difference and each wrong probe is listed under its own cause,
  and a verdict that a skipped probe would repeat is listed already.  `SummaryIsEarned`
  counts refusals and divergences of one pair against its verdicts (`EvaluateCounts`).
  `NamesReachHome` is about the index of a lane, `ResolverSpec`, whose only step is
  `AddDocument`; in `EvaluationSpec` `Load` is that step and `Validate` leaves the index
  alone.  A recursion of the model and its definition by place are compared as trails:
  a pointer that is continued is followed from where its first part led (`FollowAfter`),
  the base of a location is its `$id` over the base around it (`ScopeIsApplied`), and the
  traversal visits each location once, with that base (`VisitsAreLocations`).  So what
  `#register` collects is the names of all locations, each with the entry of its place
  (`PendingIsHome`).  The invariant, `IndexInv`, says this of the index, in both
  directions: every name of a location is there with its entry, and every name there
  is one of a location.  `Adding` keeps it: a document without a conflict takes no name
  from the others, since it has a number of its own.  Then a name in common makes two
  locations one (`OneHome`), a location has the base of a resource around it (`Enclosed`),
  and a reference by pointer either is indexed, which only one from the root is, or is
  followed to the same place (`FoundByPointer`).  Induction over numbers is here a fact
  about sets of them (`Induction`, from `WFMin`), as the library's theorem takes an operator.
* `EvidenceChainProofs`.  All six invariants of `EvidenceChain`, from `IInv`, which has
  seven parts.  The argument turns on `Outdated`: a source has moved on since a run read
  it and the run has not confirmed it.  As a source never goes back to a revision it
  has had (a condition of `Edit`; see the reverted edit in section 6), the run cannot
  confirm it any more (`OutdatedStays`).  `Watched`: the two sources a run knows existed
  together or one is outdated, and a run that was edited between its digests is
  outdated until it is caught; a run that confirms both digests is therefore settled.
  `Certified` carries this into reports, Contract IRs and what verify-ir collected, so
  that `Admits` gives `CertifiedTogether` for any number of runs on the same paths.
  `InStep` (only while `Isolated`): what the compiler emitted is of the known TypeSpec
  source or that digest is outdated; with `TellsTruth` it gives `GreenIsTrue` and
  `AdmittedIsTrue`.  `Story`: which documents are its own at each point of a lone run.
* `ExpiryTrackerProofs`.  `TypeCorrect`, `OneTrackerCorrect`,
  `ExpiryIsAnnouncedCorrect`, `ResolvedOnlyWhenSeenCorrect`, for every warning window and
  bound.  The invariant `IInv` adds five parts to `TypeOK`.  `ReceiptInv`: what a receipt
  has in force and inside the window it calls soon, and what it calls expired has
  expired (`EvaluateFacts`).  `PlanInv`: when no operation is left that writes the text,
  the alert is announced, and operations without an alert mean a passing audit
  (`PlanFacts`); this gives `ResolvedOnlyWhenSeen`.  `LastRunInv`: what an executed run had
  in force inside its window is announced; with it an entry that a later receipt
  calls expired was called soon before.  `ListInv`: a listed issue exists still.  `OneInv`: while nobody hides
  any, every issue is a tracker, the listing is complete until the plan is made, and
  a create left in a plan means that there is no issue, even when the answer to an
  earlier create was lost.  `PerformKeeps` and `InvStep` carry them over every action.
  `RunsConverge` is the safety half of the two liveness properties: `OnCourse` says that
  the listing is true until the plan is made, and that the operations left, executed on
  the issues as they are, lead where the plan was to lead.  A run that lists is on course
  (`PlanIsOnCourse`), every operation keeps it there (`ExecuteIsOnCourse`), and only people
  take it off; when nothing is left it has arrived (`CourseIsRun`).  What liveness adds
  is that such a run comes to its end, which is for TLC.
* `ReleaseHistoryProofs`.  The gates compare a release with the one before it; the
  promise is to clients of the first.  `OldClientsServed` joins them for histories of any
  length.  For OpenAPI and WIT the promise is transitive (`ServesIsTransitive`,
  `InstantiatesIsTransitive`) and one comparison without findings keeps it (`OpenApiStep`,
  `WitStep`).  For Protobuf it is not: an item may be gone in one release and its number
  given out in the next.  The invariant is therefore `Recalls`: what the first release
  had is there or reserved by number and name, and what is reserved stays so
  (`ReservationsKept`), which is what the rule on dropped reservations is for.  A pass is a
  count of zero, so the proofs also show that a comparison of two documents has finitely
  many findings (`FindingsFinite`).  `ReceiptsAreTrue`: retaining one finding more than is
  shown, none more, or all of them are each enough to tell whether any was left out
  (`LeavingOut`).
* `ProjectionAdmissionProofs`.  `AdmissionReadsAreAtomic` and `ConfigReadsAreAtomic`, by
  `ReadersInvariant`: as long as the change time is the one of the first `fstat`, so is the
  content, and what was read is a prefix of it (`StrictInvariant`); as long as the file has
  had one content, what was read is a prefix of that (`LooseInvariant`).  Any checkout that
  satisfies `TreeInit`, any number of edits, any readers.  `AdmissionIsCurrent` adds
  `StageInvariant`, what the verification knows at each stage: which files it has read,
  and that the sources of the contract existed since it began.  `AdmissionIsClosed` uses
  that every gate passed (`EveryGatePassed`) and that normalization keeps one entry for a
  key, while a map by id keeps the last (`FirstsUnique`, `LatestUnique`); without findings
  nothing was dropped, so what holds of the kept entries holds of the list.
* `GateProofs`.  `RolloutIsEarned`: as long as no rule is broken, the paths that had a file
  all along are found where they are looked for, what is found and what is manifested
  is one set, and the documents that were looked at had the pinned text (`GreenSoFar`).
  `ProofsAreEarned`: as long as the implementation lane has found nothing, its receipt is
  the one that was issued, what git was asked is so or the checkout was touched since, and
  every operation and proof before the current position is covered and proved
  (`LaneGreen`); `FormalTrue` is what the first receipt says of bindings.  Both are
  invariants of the form *no finding so far implies that all is well so far*, because a
  lane goes on after a finding and never takes one back.  Any manifests, any checkout, any
  number of edits and moves of HEAD (`TouchingKeeps`).
  `RuntimePassEarned` has an invariant about when things happened (`ConformanceInvariant`:
  evidence is of the run and corpus it was executed on, a verification of the revision
  it looked at, a decision of the evidence before it) and an argument about lists.
  Without findings nothing was dropped (`NothingDropped`), so every entry is the only
  one of its key (`OnlyOnce`); a list of distinct keys, all of which the corpus has and
  which has all of them, is as long as the corpus, by a bijection (`AsLong`); and finitely
  many results with at most one value have one (`OneValue`, `ResultsAgree`).

Only model-checked: `VerdictIsByDefinition` and `RefusalIsUnfinished` of
`InstanceValidator`, whose evaluator is recursive (what a recursive operator computes for
every schema is an induction that the prover cannot do); and the two liveness properties `AlertIsTracked`
and `ClearIsClosed`, which are beyond the prover.

## 5. Disagreements found

1. `receipt_killed`: a kill between `link` and `unlink` leaves a target with two
   names, which every later run refuses, where `docs/report-file-safety.md:39`
   promises no more than a leftover sibling.
2. `receipt_wit`: the WIT writer renames on first publication
   (`src/wit-compatibility.mjs:533`), where its siblings link, and so can replace a
   file that its inspection would have refused.
3. `pairing_bridge`: a shared simple name stops the run whatever the mapping says
   (`src/parity.mjs:444`), where `README.md:196` and `docs/mapping-integrity.md:39` say
   that a qualified mapping resolves it.
4. `evidence_exit`: `main` returns the promise of `runConsumerVerification` without
   awaiting it (`src/cli.mjs:364`), so a refused receipt write ends in an unhandled
   rejection and exit 1, where `docs/consumer-verification.md:48` says 3.
5. `openapi_case`: parameters are matched by their name in lower case in every
   location (`src/openapi-compatibility.mjs:154`), so that a query parameter may be renamed
   to another case, where `docs/openapi-compatibility.md:7` says that removing one stops
   the promotion.
6. `pairing_escaped`: the audit takes an ignore entry with an exact qualified name for
   unambiguous, but the pairing leaves out every declaration that has it as qualified or
   as simple name (`src/parity.mjs:77`), and a name between backticks may contain dots.
   One entry then hides two declarations, where `docs/mapping-integrity.md:29` and `:33` say
   that an ambiguous ignore entry stops the evaluation.

## 6. Observations without a run

* Two mapping entries that name one declaration, by simple and by qualified name,
  are not reported; the later one is silently unused.  `EntriesAreUsed` excludes it.
* With two checks in one output directory, one may read the generated schema of
  the other between its emission and its load: a green report for sources that
  disagree.  An orphaned compiler of a killed run can do the same.  Dropping
  `Isolated` from `GreenIsTrue` shows both.
* An edit that is reverted before the second digest is not noticed by it, although
  the compiler may have read the intermediate revision.
* A kill between the writes of report and Contract IR leaves the green Contract IR
  of an earlier run beside a red report; `verify-ir` rejects the pair.
* The lists of findings can stop exactly at the budget, in which case nothing in
  the report says that more was left out.
* `docs/npm-production-audit.md:76` has the most recently closed tracker reopened;
  `src/npm-audit-expiry-tracker.mjs:162` reopens the closed one with the highest number.
  After a duplicate was closed and the canonical tracker resolved later, these are
  different issues, and the history goes on in the duplicate.  A run for this needs
  the order of closings as a history variable (planned).
* A dispatched run with a narrower window than the schedule's closes the tracker of an
  alert that the next scheduled run raises again.
* A Verus proof cannot be admitted: it lives in the implementation source, and that
  source must carry a marker with the SHA-256 of the implementation source
  (`src/implementation-verification.mjs:126`, `:254`).  `DigestAssumption` says that no text
  contains its own digest; `docs/implementation-verification.md:56` describes such proofs.
* An L4 receipt names the revision and the clean work tree of the probes
  (`src/implementation-verification.mjs:386`); files that change afterwards are proved as
  they are by then, and nothing probes again.  `L4IsEarned` says what is left of the
  claim when the checkout was touched.
* The error list of `validateConfigValue` keeps `instancePointer`
  (`src/config-instance.mjs:93`), a name that the errors do not have; they have
  `instancePath`.
* `readRegularJson` may return a mixture of two contents of a file that is rewritten
  in place during the read; `ReadIsAtomic` excludes only that case for it.
* `loadRuntimeEvidence` and `readOwnedFile` of the legal rollout
  (`src/legal-rollout/index.mjs:111`) check the size with `lstat` and read by path
  afterwards: the bound is not one on what is read.
* The legal directories are listed one after the other: a document that moves from
  the second to the first in between is in neither list.  A missing one is reported,
  an unmanifested one is not; `RolloutIsComplete` speaks of documents that stayed.

## 7. Not modelled, and the plan

Done: publication (everything rests on it), pairing, budget, the chain from sources to
admission, the tracker, the downstream gates, and the instance validator.  What is left, in this order:

1. `ParityRun` over `InstanceValidator` in the place of an arbitrary verdict per
   instance.
2. Renamings and aliases: `canonical.mjs` and `reference-comparison.mjs` decide when two
   schemas are equal up to the declared mapping.  They are pure recursive functions on
   JSON values.
3. The gates that remain: language boundary, consumer manifests and GraphQL
   projections, which use the reads and the list rules of the modules above, and the
   codec registry.

Left out on purpose: text scanning and parsing (`typespec-inventory`, TOML, option
parsing), rendering (SARIF, human summary), loading of schema collections, remote listings (fleet
audit) and release scripts.  Their results enter the models as arbitrary values where
they matter.
