# TorqPro: TLA+ models, model checking and proofs

TorqPro is a FastAPI server (`backend/`) with a browser client (`frontend/`)
for the design, verification and review of bolted joints. This directory holds
TLA+ modules that model the server, TLC configurations that check them on small
instances, and proofs that TLAPS checks for every value of the constants.
`PROJECT.json` lists, in machine-readable form, the components, the runs, the
source lines each definition models, the mutants that show a property can fail,
the findings, the hazards and the theorems.

Most of the server holds an engineering record under review, and its parts
share one difficulty: a request checks something, other requests run, and then
it writes. The other part answers from data: which records of a library are
accepted, and what is then said about them.

## 1. How the server runs

The routes that write are plain `def` handlers, so FastAPI runs each request on
a thread of a pool. Threads interleave anywhere between two file or database
operations. There are three kinds of storage:

- **SQLite** (one file, WAL, `busy_timeout`). Python's `sqlite3` opens a
  transaction at the first INSERT, UPDATE or DELETE. A SELECT before it is a
  transaction of its own, also on the same connection. So "read, check, write"
  is atomic nowhere unless a unique index makes it so. The audit row of
  `app.audit` is written by another connection after the commit.
- **JSON files replaced with `os.replace`** (governance events, washer
  decisions, evidence and closures, question contents). A reader sees the old
  file or the new one. Writers exclude each other with `fcntl.flock` on a
  sidecar file (governance and washers) or with an in-process lock (Question
  Bank).
- **Memory**: the sign-in and rate limiters, and caches of parsed JSON files.

`Dockerfile` starts one uvicorn process. The in-process locks and caches are
right under that assumption, and their models make it. The governance model
does not need it: its workers may be threads of one process or of several.

## 2. Inventory of the system

| Component | State | Operations | What is hard | Correct when |
|---|---|---|---|---|
| **Governance** `backend/governance` | an append-only list of events in one JSON file, a file lock | nine commands on three lifecycles (review, publication, resolution); history and status queries | lookups and validation run before the lock is taken; retries; crash after the replace | the log only grows; acknowledged events are in it; every event was a legal move; histories chain when callers do not overlap |
| **Question Bank** `backend/question_bank` | JSON file of contents by version; tables of records, status history, lifecycle audit | create, import, patch, bulk tags, five transitions, delete, restore, archive, bulk forms | two stores without a common transaction, compensation of a failed registration, stale reads | a record always has its content; contents never change; history and audit replay to the records |
| **Question Bank readers** `retrieval.py`, `statistics.py` | snapshot table | list, select, get, statistics, the AI gateway's retrieval | three reads that are not one moment | what is shown was validated and visible during the request |
| **Joints** `backend/joints` | `joints`, `joint_revisions`, audit rows | create, archive; create revision with an idempotency key; submit, approve, reject | check on one connection, write on another; retries that overlap | numbers and keys are unique; a reply holds what was asked; nobody decides their own revision |
| **Washer resolutions** `backend/library/washer_resolution*` | three JSON ledgers, each with lock and cache | decide, record evidence, close | stale caches, idempotency under the lock, a closure over three files | one closure for each resolution, on a decision of its own after a terminal one and on evidence that was verified; one decision for a key |
| **Governance adapters** | none of their own | synchronise a washer decision; reconcile; project joint revisions | best effort after the decision, two processes at once, foreign events in the log | a success that is reported is one; every event tells of a decision |
| **Production validation** `backend/production_validation` | studies, data sets, measurements | seven transitions, CSV import, corrections | the study's status is read long before the write | approvals rest on measurements and on another person; an import is all or nothing; measurements stand |
| **Calculations, data versions, revisions, releases** `backend/app.py` | calculations, their data trace, packages, versions, certificates, revisions, release packages | save, delete; review, activate and roll back data; revise, submit, approve, reject; certify, release | reads in several transactions; ids that come back after a delete | one active version for each data set; certificates were true; releases rest on approvals |
| **Accounts and limiters** `backend/app.py` | users, profiles, failures and request times in memory | sign in, change password, administer, export, import | count read before, raised after a slow hash; two administrators at once | limits hold; an administrator is left |
| **AI gateway** `backend/ai_gateway` | append-only audit table | one pipeline for each question; reasoning over a trace | evidence while reviewers edit; a model that fails; a busy database | an answer rests on approved evidence of one moment and has its row |
| **Torque recommendation** `backend/torque_recommendation` | trace rows | recommend | a dozen optional inputs decide which checks exist | no torque the inputs show to be unsafe |
| **Engineering library** `backend/library` | JSON files, caches, registry with provenance | load, reload, populate, validate, search | caches that are filled in any order; two tables for one rule | what is counted and parsed is what is held; accepted records are consistent |
| **Library intelligence** `backend/calculation_engine` (friction, material, assembly) | caches of the same files | assess, compare, recommend, check an assembly | fallbacks for parts that are missing | parts declared to fit do fit; answers do not depend on order |
| Calculation, engineering and VDI 2230 cores | none | formulas | floating point | formulas |
| SPC `backend/spc` | none | individuals and moving range chart | floating point | limits follow the formula |
| Standards, client, deployment, tools | page cache | - | - | - |

Interactions: routes call the services directly. A washer decision is stored
and then projected into the governance event store
(`governance/adapters/washer_resolution_sync.py`), whose generic routes refuse
commands for that aggregate type. The AI gateway reads the Question Bank and
the traces of recommendations. The assembly check calls both pairing engines
and the friction checks. Production validation refers to joint and calculation
revisions by id.

## 3. Modules

```
Positions
  GovernanceLifecycle               QuestionLifecycle               JointRegister (abstract)
    GovernanceLedger  (abstract)      QuestionRegistry (abstract)     JointRevisions (the code)
    GovernanceService (the code)      QuestionBank     (the code)       MCJoints
      MCGovernance                      MCQuestionBank
  WasherLifecycle                     QuestionReads   JointAnalysis   StudyTables
    WasherLedger     (abstract)         AdviceService                   StudyRegister (abstract)
    WasherResolution (the code)           MCAdvice                      ProductionValidation (the code)
      WasherGovernance                                                    MCStudies
        (with GovernanceService)    DataVersions  CalculationRecords
          MCWasher                    ServerRecords                   Accounts
LibraryChecks                           MCRecords                       MCAccounts
  BoltNutPairing  FrictionAdvice
    AssemblyIntelligence            GovernanceServiceProofs, QuestionBankProofs,
      EngineeringLibrary            JointRevisionsProofs, WasherResolutionProofs,
        MCLibrary                   ProductionValidationProofs, ServerRecordsProofs,
                                    AnswersProofs, AccountsProofs
```

The components that hold records under review have the same shape. An abstract
module takes every operation as one atomic step and says what the tables or the
log promise. A detailed module follows the code from one read, transaction or
file replacement to the next, with any number of workers, and instantiates the
abstract one (`Ledger`, `Registry`, `Register`). Callers that do not overlap
see exactly the abstract one; for callers that do, the properties say what is
still true. A worker carries its request (`req`), its program counter (`pc`),
the locals that outlive a step, and its last reply.

### 3.1 Governance

`GovernanceLifecycle` holds the transition tables of `enums.py`, the nine
commands, the validators of `models.py` in the order they run, and the history
functions of `service.py`. `effective_status` selects events by aggregate id
and group only; the aggregate type takes no part.

`GovernanceService` maps to the code as follows.

| Step | Code |
|---|---|
| `Receive` | a route of `api.py`, `_run_command` with the ownership guard, a fresh store object |
| `FindByKey`, `FindByDecision` | `_resolve_idempotency`: two reads of the file without a lock |
| `ComputeAndValidate` | `effective_status` and the validator: a third read |
| `EnterLock`, `ReadRaw`, `WriteRaw`, `Reply` | `FileGovernanceEventStore.append` |
| `StoreFailure` | an `OSError` of the file system at any of these |
| `Crash` | the process of one worker dies; the kernel drops its lock |

Data: a request is its aggregate, type, command, decision id, key, the set of
fields given, and one value for all other text. `HasFcntl` is `_HAS_FCNTL`:
without `fcntl` only the lock of the request's own store object is taken, which
excludes nobody. `event_id` and timestamps are left out.

### 3.2 Question Bank

The module is about one question, because no operation reads or writes the rows
of another. The tags stand for themselves, since an operation edits them; one
text stands for the other fields. `BadTexts` are the texts the record validator
refuses. Tags are sets here; the code keeps their order, which no operation
depends on.

| Step | Code |
|---|---|
| `Receive` | routes, role and patch checks |
| `ReadTags` | `bulk_update_tags` up to its call of `update_question` |
| `ReadLatest` | `update_question` up to its write: merge, unchanged, invalid |
| `Save`, `SaveFails` | `store.save_question_content` under `_json_lock` |
| `Load`, `Insert`, `InsertFails` | `register_question`, and the transaction of `update_question` |
| `Compensate`, `CompensateFails` | `_delete_question_content_version` |
| `FetchRecord`, `CommitTransition` | `_transition` and `return_to_draft` |
| `FetchRows`, `CommitFlags` | delete, restore, archive |
| `CommitFails` | a rolled back transaction |
| `Crash` | the server dies and starts again; all workers lose their locals |

Failures are kept apart as the code keeps them apart: a `QuestionBankError`
makes an import compensate, a `sqlite3` error does not, and an update
compensates for both.

### 3.3 Joints

The module is about one joint, because numbers and keys are per joint. A SELECT
is a step, a transaction is a step, and the audit row is a step after the
commit. `archive_joint` has a service function and no route; it is modelled
because the service promises it. `Refused` is the two unique indices, and
`Recheck` is the lookup after an `IntegrityError` ("concurrency backstop").
`trail` keeps the audit rows of creations, the only ones a property is about.
`approved` in a revision is a fact the row keeps in `approved_at`.

### 3.4 Washers and their projection into governance

`WasherLifecycle` is the constant part of `washer_resolution*.py`: the closed
transition table, the effective status, what makes a resolution ready for
closure. `WasherResolution` is the workflow over its three stores.

| Step | Code |
|---|---|
| `Receive` | a route, its validators, and the checksum of the model |
| `TestCache`, `SetCache`, `LoadedNothing` | `_load`: is `_CACHE` None, parse and assign, return whatever `_CACHE` is by now |
| `FindReplay`, `ComputeStatus` | `decide_resolution` |
| `FindClosure` .. `DecideClosure` | `close_resolution` and `evaluate_closure_readiness`, one load each |
| `EnterLock`, `ReadRaw`, `Write`, `Reload` | `record_decision`, `append_evidence`, `append_closure`; the cache is emptied after the lock |
| `FileError`, `Crash` | an `OSError`; the server dies and starts again |

`WasherGovernance` composes it with `GovernanceService`: the thread that has
stored or replayed a decision projects it (`HandOver`, `Lookup`, `Conclude`)
through the commands of the service, and the reconciliation tool, a process of
its own, does so for all decisions (`Reconcile`, `ReconcileNext`, `ToolCrash`).
A decision is known by its idempotency key, and a checksum is whether the text
had spaces around it, which is what decides if it matches. `GovernedSpec` is the
composition: a crash of the server stops every thread and leaves the tool, a
crash of the tool leaves the server.

### 3.5 Production validation

`StudyTables` holds the rows and the rules on them (the status table, how the
rows of a file become records), `StudyRegister` the operations as atomic steps,
and `ProductionValidation` the code: each operation reads its study or data set
on one connection (`ReadRecord`, `ReadDataset`, `ReadStudy`), looks for codes
and numbers on another (`FindCode`, `CountRecords`, `PickNumber`), changes rows
in one transaction, and writes the audit row on a third. `Busy` is a locked
database, `Crash` a restart. The shape of a value or of a CSV row is one flag,
since nothing depends on the number itself; a row that gives a number is told
from one that gives none or zero. A file has rows. `SettledStep` is what the
register promises of measurements: none is added or changed once its data set
is locked or its study approved. The code keeps it only while requests do not
overlap. `LateChangesRunOut` is what is left when they do: from then on each
request that was already past the check (`PastApproval`, `PastLock`) changes
measurements at most once, and no other request does.

### 3.6 Data versions, calculations, revisions and releases

`DataVersions` and `CalculationRecords` are the handlers of `app.py`, one step
for each SELECT before the first INSERT, UPDATE or DELETE and one for the
transaction that begins there. `ServerRecords` puts both on one database: a
calculation's trace is read from the versions that administrators switch
meanwhile. Ids are SQLite's: one more than the largest in the table. The fields
`serial`, `late` and `data` are for the properties; no step reads them.

### 3.7 Readers, AI gateway, recommendations

`QuestionReads` is what a reader is shown given the status map, the lifecycle
map and the content it read; `JointAnalysis` is which quantities of a joint
exist for which inputs, what is found critical, and whether a torque may be
recommended. Forces are integers in parts of the yield force; an input that is
not given is `NoValue`. `AdviceService` runs the requests step by step while
`Edit` lets reviewers change the question bank in any way `QuestionRegistry`
allows, a model fails, the database is busy or the process dies. `since` keeps,
for the properties, the rows there were since a request began. `Input` is what
the request schema lets through (`models.py` of the recommendation: numbers are
positive where it says `gt=0`), and the rows in the audit table at the start
are rows this code wrote: a trace among them is a recommendation for its input.

### 3.8 Engineering library

A record is a function from the fields it has to their values, so a missing
field is a missing field. `LibraryChecks` holds the checks of `validator.py`,
`strength_validator.py` and `population.py`, each as the set of the records it
flags. `BoltNutPairing`, `FrictionAdvice` and `AssemblyIntelligence` are the
engines over accepted or rejected records alike; an engine that raises on a
record answers with an error, and the assembly check, which does not catch it,
with none of its checks. `EngineeringLibrary` is the
process: files on disk, three kinds of caches, the registry with counts, parsed
records and sources, every request that fills or reads them, a curator who
rewrites files, and a restart. The last answer stands until an edit, so that it
can be compared with the records it was taken from.

A part has its diameter in more than one field, of which the engines read one
and `find_bolt` and `find_nut` another, and no battery compares them. Where they
differ, a part of another diameter can be answered; `NoOtherSize` is therefore
claimed of libraries whose fields agree. `AcceptedConditionsAnswer` is claimed
of conditions that have an id, without which none can be asked for.

### 3.9 Accounts

`Accounts` models both limiters, the dependency that authenticates, every
handler on users and profiles, and export and import. `limit` and the failure
it counts are two steps with the hash between them. `admitted` keeps, for the
properties, when each session was let through: `RateHeld` and
`OnlyFullIsRefused` compare the code's bucket with it. An export may hold an
empty table where a SELECT failed. `Tick` is the clock, which does not go back;
`Restart` runs `migrate`, which restores the role of the built-in
administrator, and empties what is memory.

## 4. Runs

State counts are distinct states. Every property of a passing run has a mutant
in `PROJECT.json`: the same model with one plausible bug, in which TLC finds
the property violated.

A run's MC module picks, at the start of a behaviour, one *mix*: the requests
it is made of, the rows or files it starts on, and whether callers overlap. A
run so has the sum of the states of its mixes and not their product, and each
mix brings together what competes for the same rows. Where a mix has callers
that do not overlap (`Serial`), the run shows that every step of the detailed
module is a step of the abstract one or leaves its variables alone, and that
the invariants of the abstract module hold (`SerialImplements...`).

| Run | Instance | Shows | States |
|---|---|---|---|
| `governance` | 2 threads on one review; 1 thread on three groups and two aggregates; failures and crashes | `ServiceInv`: what each step relies on, acknowledged events are stored, every event was a legal move from a status the log once showed; one key appends at most one event for each overlapping thread; the log only grows; every command is answered; the ledger | 77 685 |
| `question_bank` | 2 threads that revise, review or flag one question, failures and restarts; every operation serially | the two stores agree; records are the last of their history, history rows are grounded, the audit tells the flags; an update is its predecessor with its fields replaced and no content is left without a record unless a transaction fails; registered contents never change; the registry | 296 752 |
| `question_bank_rollback` | 2 patches, failing transactions | *violated*: an update built on one that was undone | - |
| `joint_revisions` | 2 threads, 9 requests, busy database and restarts; every operation serially on two revisions | numbers, keys, replies, audit rows, authors, contents; the register | 585 101 |
| `washers` | 2 threads on decisions, evidence and closures; 1 and 2 threads with projection and the tool, over logs of others; everything serially | caches and files; decisions legal and one for a key; one closure for each resolution, on a decision of its own after a terminal one and on verified evidence; projections true and complete; files only grow; the ledger | 792 923 |
| `washer_closed_on_open` | 2 threads that review, resolve, close and read one resolution | *violated*: a closure names a decision that is not terminal | - |
| `studies` | 2 threads on the first rows, a review, edits around an approval, measurements and files; a whole review serially | corrections and their records, numbers without repetition; approvals rest on measurements and on another person and are audited; imports are whole; measurements stand, and late ones run out; the register | 579 241 |
| `records` | 2 threads on uploads, versions, certificates, calculations, revisions and releases | reviews by others, numbers, late revisions bounded; one active version of good data; certificates and releases that were true; traces; data is never lost | 1 407 025 |
| `records_release` | 2 threads, the newest calculation is deleted | *violated*: a release on the approval of another calculation | - |
| `advice` | readers and queries while two versions are edited; 2 threads on traces of two users; 5 000 inputs of a joint | shown versions were publishable during the request, evidence is one snapshot; answers have their row; reasoning repeats the trace of its user; no unsafe torque | 1 128 924 |
| `library` | thousands of file contents with one fault or none; registry requests with two edits | accepted parts fit; strength has one answer; advice is consistent; the registry is true to what it read | 105 110 |
| `accounts` | 2 threads signing in, two administrators, one session against the clock, exports and imports; restarts | failures and rates are held and only full sessions are refused; the last administrator falls only by an overlap or by own choice; exports come back | 964 479 |

**Bounds, and why they are enough.** Two threads: every race here is between
one check and one write of somebody else, and the invariants that two threads
check are proved for any number where section 5 says so. Requests may be sent
again and again, so retries need no third thread. The governance log and the
washer files need no bound: a request either replays or adds, and only
overlapping copies add more (`MaxEvidence` bounds what has no key).
`MaxVersion` stops new updates once a version is that high, so two that overlap
reach one or two above it. `MaxHistory`, `MaxAudit`, `MaxPackages`,
`MaxVersions`, `MaxGolden`, `MaxCertificates`, `MaxCalculations`,
`MaxRevisions`, `MaxReleases`, `MaxTrail`, `MaxSnapshots`, `MaxExports` and
their like stop only requests that would repeat for ever; two that overlap
still compete for one number. They are guards of `Receive`: a request that has
begun always runs on. `MaxSince` bounds the edits during one request. In the
library, `MaxEdits` is 2 because a stale cache needs one edit and its repair
another; contents have at most two or three records because every check is
about one record or a pair. The clock of `accounts` runs through two full
windows. Deadlock is checked in every run.

Two properties have a condition. `AuditTellsTheFlags`, a part of `AuditsAgree`,
relates the flags of a version to its last audit row where every transaction
that set flags had read that version: one registered between the read and the
transaction is flagged without a row of its own (section 6). `RevisionsKept` is
claimed where registrations neither fail nor are cut off, because elsewhere an
orphan is left on purpose and an update may extend what is undone (section 6).

**Fairness** is assumed in `governance` alone, for `CommandsAnswered`.
`WF(Step(w))`: a thread that can run does run. `SF(EnterLock(w))`: a thread
blocked in `flock` gets the lock if it is released again and again, because the
kernel wakes waiters. Nothing makes callers call, files fail or processes die.
The lock is released by the `finally` of `_locked` and, after a death, by the
kernel; the mutant that keeps it on an error violates the property.

## 5. Proofs

Assumptions are the named ASSUMEs of the modules: null values are not in the
sets they complement, requests are what the route schemas let through, failures
come from their list, imported washer evidence is a list of evidence. Five of
them say more:

- `ContentsAssumption` (library): a file is a sequence of records, and the
  fields that the friction and material engines calculate with hold numbers
  where they are there at all. Everything else may hold anything, be missing or
  be wrong: what is proved of parts and classes is proved of every content.
- `FilesAssumption` (production validation): two imported files that have the
  same name, which stands for their checksum, have the same rows.
- `OtherEventsAssumption` (washers): events that others wrote to the governance
  log are not about washer resolutions. `governance/ownership.py` reserves that
  aggregate type, and the generic routes ask it.
- `ReconcilerAssumption`: the reconciliation tool is a process of its own.
- `TrailAssumption` (advice): the audit table was written by the same code.

Some theorems have hypotheses: `HasFcntl` for governance with several workers,
a finite set of workers where something is counted (`DuplicatesAreBounded`,
`RevisionsAlwaysHold`, `LimitsAlwaysHold`), `Workers = {w}` for the `Serial...`
refinements, and `NoRegistrationFails` for `BankRevisionsKept`. They are
conditions that the runs also set, and every one of them has instances. The
`Mixed...` theorems are about the specification of a run itself, so their
condition is part of the property; they assume only that the requests which the
mixes are made of are requests, and for governance that the mixes' threads are
threads of the server and `HasFcntl`, without which `ServiceInv` fails.

The induction usually has the same form. Between a check and the write that
relies on it others write, so the invariant says for each program counter what
was found and why it is *still* true, or was true at some moment: rows are only
added, authors never change, a table that passes now has always passed. What
other threads may do in between is a lemma of its own (`...Grows`, `...Keeps`,
`Others...`), and then each action is one case.

**Any number of threads**

- **`GovernanceServiceProofs`**: `ServiceInvariant`. `EventsGrounded` is not
  inductive alone: `CommandProgress` adds that from the read to the reply the
  lock is held and what was read is still the file, and that what was validated
  is a status the log showed at some length. An old prefix keeps its status
  when the log grows, which is why groundedness survives the races that
  chaining does not. From it follow `ServiceTypeCorrect`,
  `AcknowledgedEventsAreStored`, `EventsAreGrounded` and `LogOnlyGrows`.
  `DuplicatesAreBounded` counts: the events with a key and the threads that are
  past their lookup without having found it are together no more than the
  threads, because a lookup that starts later finds the event
  (`RetriesBounded`).
- **`QuestionBankProofs`**: `BankInvariant`, with `BankTypeCorrect` and
  `BankStoresAgree` as its parts, and `BankContentImmutable`. The invariant of
  the two stores needs `VersionsOwnedOnce`: between the JSON write and the
  registration exactly one request owns a version, so a compensation removes
  nobody else's content. Saving refuses a version that exists, and that is what
  makes it so. `BankAuditsAgree` adds `HistoryInv`: the status a transition read
  was the status of its version at some length of the history, although another
  transition may have been committed since. `BankRevisionsKept` adds `KeptInv`:
  what an update merged its patch into is the version below the one it owns,
  since the number was taken when that version was the highest, and saving
  refuses the number if somebody else has had it. `MixedRevisionsKept` is the
  property as the run checks it: a behaviour whose mix has no failing
  registration takes only steps of `RegisteringNext`, so `KeptInv` holds there
  and nothing is claimed of the other mixes.
- **`JointRevisionsProofs`**: `JointInvariant`, and from it `JointTypeCorrect`,
  `KeysCreateOneRevision`, `RepliesAreFaithful`, `DecidedByOthers` and
  `RevisionContentImmutable`. `RequestProgress` says that the author a decision
  was checked against is still the author when it is written: authors never
  change, statuses do, and so `NobodyDecidesTheirOwn` holds where "a decided
  revision stays decided" does not.
- **`WasherResolutionProofs`**: `WasherInvariant`, and from it `FilesInvariant`,
  `DecisionsInvariant`, `ClosuresInvariant` and `FilesGrow`. A request reads
  caches that may be old and that others empty and fill meanwhile; what makes
  its findings last is that files only grow and that every list a thread holds,
  in the cache or in hand, is an earlier state of its file. So the status a
  decision was validated against was once shown, and the reasons a closure met
  (a terminal decision of this resolution, verified evidence) go on being met.
  Under the lock the list in hand is the file itself, which keeps keys and
  closures unique. That the closure names the terminal decision does not
  follow, since the readiness check loads the decisions twice: finding 2 below.
  `ProjectionInvariant` is about the composition with governance. Its invariant
  `ProjectionInv` joins `WasherInv` with three facts. Whoever holds the lock of
  the log has read the log that is there. A thread that projects, projects the
  decision it is about to answer with. The decisions the tool has passed in its
  list have their events. A crash between the two stores leaves a decision
  without an event, never an event without a decision.
- **`ProductionValidationProofs`**: `StudyInvariant`, and from it
  `RowsInvariant`, `ApprovalsInvariant` and `MeasurementsAreKept`. `MoveReady`
  says that what a transition was allowed for (the study is measured, its
  author is another person) is still true when it is written, although the
  status it was read with may have changed: rows are never deleted and authors
  never change. That a study is still under review when it is approved is not
  provable, and not true. Of a sequence number the proof uses only that the row
  was inserted where no row had it. `ImportsAreWhole` counts: the rows a data
  set has from one file are always a multiple of the rows of that file
  (`FilesWhole`), because one transaction adds them all. `MeasurementsAreKept`
  adds `LateInv`: a request that is past a check has found its data set, whose
  study does not change, so a study approved since takes in nobody
  (`EntersNothing`), and who changes rows leaves (`ChangesOwnRows`).
- **`ServerRecordsProofs`**: `RecordsInvariant`, in four parts. `DataInv` gives
  `VersionsAlwaysHold` and `DataNeverLost`: what a review, a switch or a
  certificate found is in the tables for good (`Found`), and nothing spoke
  against a certificate at the moment of its first read, since what makes a
  package or a golden case fail is never taken back: tables without a failure
  later had none then (`Certifies`).
  `CalculationInv` numbers the revisions: each number up to their count is
  taken, so a number computed earlier is free only if it is the next one
  (`NumbersTaken`). `ReleaseInv`: an item of a release matrix that says
  approved names a locked revision, and no revision is unlocked again
  (`ReleasesAlwaysHold`). `TraceInv`: a calculation has its traces, or the
  thread that saved it will still write them and finds at least the data sets
  that were active then, since no data set loses its active version
  (`AnswersAreTraced`). `RevisionsAlwaysHold` adds `LateCounted`: once a
  calculation is locked, its late revisions and the threads past the check of
  the lock are fewer than the threads, for the one that locked it was not among
  them.
- **`AnswersProofs`**, of the answers over HTTP: `AdviceInvariant`, and from it `EvidenceInvariant`,
  `AnswersInvariant`, `ReasoningInvariant` and `SafeInvariant`. `AdviceInv` says
  of each thread that it is idle or serves one of four kinds of request, and for
  each kind what it holds: a reader's maps are those of members of `since`, an
  asker's evidence is from one, a recommender's trace is the recommendation for
  its input, and a reasoner's trace is one its user may read. The tables grow and
  edits only add to `since`, so others take nothing from what a thread holds
  (`OthersStay`). `RecommendIsSafe` is the arithmetic: of the findings that are
  critical none was made, and with the positive numbers of the schema that
  leaves no torque which opens the joint, yields the bolt or exceeds the given
  limit.
- **`AnswersProofs`**, of the library: `RegistryIsTrue`, `DeclaredPartsFit`,
  `StrengthsDoAgree` and `AdviceIsSound`. `RegistryInvariant` adds to
  the types that parsed records are those of the registry (`TypedFollowsRecords`)
  and `FilesHold`: whatever is on disk, in a cache or in memory was the content
  of some file, which an edit keeps true of the disk although the caches know
  nothing of it. `AnswerRepeats` says that the last answer is what the engine
  would give again, since the caches it was computed from only change with a
  request, which gives a new answer. With these two every property about answers
  becomes a lemma about an operator on records. That accepted threads nest is
  an argument about rounding (`MinorsApart`): both minor diameters are rounded
  and may be off by the tolerance of their check, and from a pitch of a tenth of
  a millimetre on they are further apart than that. One
  class for a diameter rests on `DuplicateRange` counting ranges that touch.
  The recommended nut is the least of a finite set of numerals in both tables.
  The ranking of materials is by margin and then by id, a strict total order,
  so a sequence sorted by it has the dominant material first.
- **`AccountsProofs`**: `LimitsAlwaysHold`. A rate bucket holds the latest of
  the times that were admitted and what has left it is older than the window
  (`Suffix`), so any `rateMax + 1` admissions span more than a window (`Spaced`); a bucket is in the
  order of its times (`InOrder`), so the oldest of a full one is an admission
  within the window (`FullBucket`).
  Failures of a name and the threads that may still add one are bounded
  together (`FailuresCounted`). `LastAdminFalls`: only a patch takes away an
  administrator and a sender cannot deactivate himself, so the last one goes by
  giving up the role or by a patch whose sender is no administrator any more
  (`UsersInv`). `ExportsComeBack`: an
  export holds the tables in their order (`Reading`), and a package as it was
  handed out passes the check that a changed one fails (`Whole`).

**The abstract specifications, and one thread**

`Ledger`, `Registry` and `Register` have invariants of their own, proved of
their own specifications: `LedgerInvariant` (in the governance and in the washer
module), `RegistryInvariant`, `RegisterInvariant`, `RegisterSettlesMeasurements`.
Their strengthenings are small: that a terminal status is final follows only if
it is also known to be the status the next command sees, and that a closed
washer resolution takes no decision only if a closure stands on a terminal one.

`SerialServiceImplementsLedger`, `SerialBankImplementsRegistry`,
`SerialJointsImplementRegister`, `SerialWasherImplementsLedger` and
`SerialStudiesImplementRegister` are the refinements: with one worker, every
step of the code, through failures and restarts, is a step of the abstract
module or leaves its variables alone. Each adds to the invariant that what the
request has read is still so (`ReadsHold`); for the washers this includes that
every cache is empty or exactly its file. The `Serial...Keep...` theorems put
the two together: the code's own tables have what the abstract module promises.

**Many threads whose callers do not overlap**

`MixedServiceImplementsLedger`, `MixedBankImplementsRegistry`,
`MixedJointsImplementRegister`, `MixedWasherImplementsLedger` and
`MixedStudiesImplementRegister` prove the run properties `SerialImplements...`
as they stand, for a server with any number of threads. For governance, such a
mix has one thread of the server's. For the question bank, the joints and the
washers `OneCaller` says that all requests are of one thread, and `NoOverlap`,
for the studies, that a request begins only when all threads are idle. Then a
step of the thread that serves keeps its own reads true, and the others have no
reads to keep (`OwnStepKeepsReads`; `AloneReads` for the washers, where the
projection and the tool beside the caller leave the washer variables alone, and
a crash leaves no thread with anything read). A mix of the studies begins with
rows in the middle of a review; `MixesBeginWell` shows of each that it satisfies
`StudyInv`.

Each module that needs them begins with the lemmas that positions are
well-founded and a non-empty set of positions has a last one.

**Only model-checked**: `CommandsAnswered` (liveness under fairness, which the
prover does not reach, nor ENABLED), and the three violations of section 6.
What the recursive functions of the modules compute (`RowNumbers` is one) is
used by no proof, so nothing here rests on induction over data.

## 6. What the models found

Three runs show the code doing what a document, comment or docstring of the
repository excludes.

1. `question_bank_rollback`: an update may extend a version whose registration
   then fails and is undone. It keeps the undone edit and names a base that
   does not exist, against the docstring of `update_question`
   (`service.py:225`).
2. `washer_closed_on_open`: `evaluate_closure_readiness` loads the decisions
   twice, for the effective status and for the last decision. A thread that
   parsed the file before the terminal decision was written may put its old
   list into the cache between the two, after the writer has emptied it. The
   closure is stored and names the decision before the terminal one, against
   `washer_resolution_service.py:607-608` ("whose `decision_id` is the
   readiness result's terminal decision").
3. `records_release`: the number of a calculation that was deleted is given to
   the next one, and a revision keeps the number it was made for. So a release
   package can rest on the approval of another calculation, against the
   release gate of `docs/03_ENGINEERING_WORKFLOW.md:91` ("approved revision")
   and the matrix of `TorqPro_19_Release_Paketi_Raporu.txt:6`.

Seen in the models of overlapping requests, without a run of their own:

- Governance validates before `append` locks, and `append` does not validate
  again: two decisions on one open item are both appended (compare
  ADR-0014). A retry that overlaps its first attempt can append one event
  more. Without `fcntl` an append can be lost. The effective status ignores
  the aggregate type.
- `_transition` of the Question Bank validates before its transaction and the
  UPDATE names no status: a record moves from validated to rejected, which the
  closed table does not contain. One of two overlapping tag edits can be lost.
  An import whose registration raises a `sqlite3` error leaves content that
  every retry reports as skipped. A version registered while a question is
  being deleted is deleted without an audit row.
- The UPDATE that decides a joint revision names no status: an approved one is
  rejected while the joint points at it (compare
  `tests/test_joints_foundation.py`). Approving activates an archived joint.
- `_load` of the washer stores assigns its cache without a lock, so an old list
  may stay in it until the next write or restart (compare the docstring of
  `reload`, `washer_resolution_decisions_store.py:241`: "the next read
  re-parses the ledger"). Under the lock of the washer decisions a key is looked up again but the
  request is not compared, so the second of two different requests with one
  key is answered with the first's decision. Evidence or closure text padded
  with spaces fails its checksum and is refused.
- A study can be changed while it is being approved: the status is read long
  before the write. A rejected study has no way back to data collection
  although the table has that row. A file imported, another, and the first
  again are three imports; an empty file imports nothing and still takes its
  checksum.
- Two uploads of one package can both be stored. A roll back may activate a
  version that is newer than the active one, or whose package was rejected after
  its approval. A version approved twice is
  stored twice. A crash between a calculation and its trace leaves it without
  one. An approved revision that is rejected keeps its lock.
- The AI gateway reads `list_questions`' two maps separately, may cite several
  versions of one question, and still cites a validated question that is
  deleted or archived (compare `ai_gateway/retrieval/question_bank_adapter.py`).
  The confidence HIGH is not reachable. A recommended torque is not compared
  with the recommendation's own allowable range.
- An administrator can demote himself. A change of password that overlaps an
  administrator's reset can undo it. An export reads each table by a SELECT of
  its own, so it may be torn, and one that fails leaves an empty table in a
  package that still comes back as valid. A restart gives the built-in administrator his
  role again but does not activate him. A sign-in that succeeds clears the
  failures of others under the same key.

Seen in the data rules of the library:

- `run_all_integrity_checks` does not run the thread, washer and joint hardware
  batteries. The pitch check compares with the last coarse record only. A proof
  strength above the tensile strength passes when there is no yield strength.
  The batteries do not compare a designation with its diameter (bolts) or pitch
  (threads). `_check_washer_diameter` compares a field no washer record has.
- After a change on disk `facade.load` records the new checksum over the cached
  old records. Population and the sources it attaches are different files.
- The nut class "04" is recommended for bolts that its record does not list;
  the rules of the compatibility library differ from those of the engines;
  `get_bolt_strength_class` answers with the first record of that name;
  `_resolve_bolt` falls back to a bolt of another diameter; a temperature check
  with one bound missing says compatible; a coating id hides the warning of
  unknown lubrication.
- A strength class record that lacks an end of its diameter range raises a
  `TypeError` when a diameter is outside the range (the warning formats all four
  ends, `strength_compatibility.py:216-221`): the pairing route answers 400, the
  assembly check fails, although `app.py:813` says it never raises. The shipped
  records have both ends.

## 7. What is not modelled, and why

- Floating-point formulas: the calculation, engineering and VDI 2230 cores and
  SPC. They keep no state, and no finite instance of real arithmetic says
  anything about them. Where a decision depends on their results
  (`JointAnalysis`) the results are integers that order the same way.
- The standards registry, the OEM catalogue and the washer reports: read-only
  over constant data.
- The browser client, deployment, and command-line tools other than the
  reconciliation. They call the routes or write reports.
- The projection of joint revisions into governance and the export adapters:
  the first repeats what `WasherGovernance` models with fewer cases, the
  second writes nothing.
- The go-live row: one row replaced by one handler. Read-only reports and statistics of the modelled
  components: they change no state.
- Expiry of tokens, audit rows of account changes, wording, paging, CSV layout,
  JSON shape, and corrupt files, which the stores refuse without writing.

## 8. What is left

Models of the data that is partly covered: the OEM catalogue and the reports
over washers, which read what `EngineeringLibrary` already holds.

## 9. Running the tools

```
tlc -workers 2 -config MCGovernance.cfg MCGovernance
tlapm GovernanceServiceProofs.tla
```

Each run's module and configuration are in `PROJECT.json`. The longest runs,
`library`, `records` and `washers`, take two minutes or a little more with two
workers. The
proofs of `GovernanceServiceProofs` take half a minute, those of
`WasherResolutionProofs` about four minutes, the others one to three.
