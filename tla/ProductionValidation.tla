------------------------- MODULE ProductionValidation -------------------------
(***************************************************************************)
(* backend/production_validation/service.py as it runs.  An operation      *)
(* reads the study or the data set with a connection of its own, decides   *)
(* on that, opens a second connection for more SELECTs, and changes rows   *)
(* in a transaction that begins with its first INSERT or UPDATE.  The      *)
(* audit row is written by a third connection after the commit.            *)
(*                                                                         *)
(*   pc        the next step                                               *)
(*   record    fetch_record and its data set                               *)
(*   dataset   get_dataset                                                 *)
(*   study     get_study, and what is decided on it                        *)
(*   code      the SELECT for a code that is in use                        *)
(*   count     count_records                                               *)
(*   number    next_sequence_number, and the SELECT for a number           *)
(*   change    the transaction                                             *)
(*   audit     audit                                                       *)
(***************************************************************************)
EXTENDS StudyTables, FiniteSets

CONSTANTS
    Workers,        \* the threads of the server
    Requests,       \* what callers may send, and send again
    Approvers,      \* the users with a role in APPROVAL_ROLES
    Failures,       \* which of "busy", "crash" happen
    MaxStudies, MaxDatasets, MaxRecords,    \* bounds of the tables
    NoRequest

ASSUME FailuresAssumption == Failures \subseteq {"busy", "crash"}
ASSUME BoundsAssumption == MaxStudies \in Nat /\ MaxDatasets \in Nat /\ MaxRecords \in Nat

(* What the schemas of the routes let through, and that a file has rows.   *)
ASSUME RequestsAssumption ==
    /\ NoRequest \notin Requests
    /\ \A r \in Requests :
          /\ r.op = "create_study" => r.user # NoUser
          /\ r.op = "create_record" => r.corrects \in Nat
          /\ r.op = "import" => r.file.rows \in Seq(Int) \ {<<>>}

(* A file is named by its checksum, so that one name is one content.       *)
ASSUME FilesAssumption ==
    \A r, q \in {x \in Requests : x.op = "import"} :
        /\ r.file.name # NoFile
        /\ r.file.name = q.file.name => r.file.rows = q.file.rows
ASSUME ApproversAssumption == NoUser \notin Approvers

VARIABLES
    studies, datasets, records,
    audited,    \* the audit entries: operation, row, user
    pc,
    req,        \* the request a worker serves
    ctx         \* the ids and rows an operation has read

tables == <<studies, datasets, records>>
vars == <<tables, audited, pc, req, ctx>>

StudyOps == DOMAIN TargetStatus \cup {"patch", "create_dataset"}
DatasetOps == {"patch_dataset", "lock", "create_record", "import"}

(* study, dataset, record: ids; seen, locked: the status and the lock that *)
(* were read; number: the sequence number to insert.                       *)
NoContext == [study |-> 0, dataset |-> 0, record |-> 0, seen |-> "draft",
              locked |-> FALSE, number |-> 0]

Init ==
    /\ studies = <<>> /\ datasets = <<>> /\ records = <<>>
    /\ audited = {}
    /\ pc = [w \in Workers |-> "idle"]
    /\ req = [w \in Workers |-> NoRequest]
    /\ ctx = [w \in Workers |-> NoContext]

Goto(w, step) ==
    /\ pc' = [pc EXCEPT ![w] = step]
    /\ UNCHANGED <<audited, tables, req>>

Finish(w) ==
    /\ pc' = [pc EXCEPT ![w] = "idle"]
    /\ ctx' = [ctx EXCEPT ![w] = NoContext]
    /\ req' = [req EXCEPT ![w] = NoRequest]

(* The error an operation raises, or that it had nothing to do ("ok"): the *)
(* caller gets it, and no step depends on it.                              *)
Answers == {"ok", "not_found", "locked", "invalid", "bad_transition", "conflict",
            "csv_error", "server_error"}

Refuse(w, answer) == answer \in Answers /\ Finish(w) /\ UNCHANGED <<audited, tables>>

(* Bounds: an operation that adds a row is called while there is room.     *)
Room(r) ==
    /\ r.op = "create_study" => Len(studies) < MaxStudies
    /\ r.op = "create_dataset" => Len(datasets) < MaxDatasets
    /\ r.op = "create_record" => Len(records) < MaxRecords
    /\ r.op = "import" => Len(records) + Len(r.file.rows) <= MaxRecords

(* A route, up to the first look at the database: a study without a code   *)
(* or a title, and an approver without the role, get no further.           *)
Receive(w, r) ==
    /\ pc[w] = "idle"
    /\ Room(r)
    /\ \/ /\ r.op = "create_study"
          /\ r.valid
          /\ pc' = [pc EXCEPT ![w] = "code"] /\ UNCHANGED ctx
       \/ /\ r.op \in StudyOps
          /\ r.op \in {"approve", "reject"} => r.user \in Approvers
          /\ pc' = [pc EXCEPT ![w] = "study"] /\ ctx' = [ctx EXCEPT ![w].study = r.study]
       \/ /\ r.op \in DatasetOps
          /\ pc' = [pc EXCEPT ![w] = "dataset"] /\ ctx' = [ctx EXCEPT ![w].dataset = r.dataset]
       \/ /\ r.op = "invalidate"
          /\ pc' = [pc EXCEPT ![w] = "record"] /\ ctx' = [ctx EXCEPT ![w].record = r.record]
    /\ req' = [req EXCEPT ![w] = r]
    /\ UNCHANGED <<audited, tables>>

-----------------------------------------------------------------------------
(* The reads before the decision.                                          *)

SeeDataset(w, d, step) ==
    /\ Goto(w, step)
    /\ ctx' = [ctx EXCEPT ![w].dataset = d, ![w].study = datasets[d].study,
                          ![w].locked = datasets[d].locked]

(* invalidate_record.                                                      *)
ReadRecord(w) ==
    /\ pc[w] = "record"
    /\ IF ctx[w].record \notin DOMAIN records THEN Refuse(w, "not_found")
       ELSE SeeDataset(w, records[ctx[w].record].dataset, "study")

(* get_dataset, and what patch_dataset and lock_dataset decide on it.      *)
ReadDataset(w) ==
    LET d == ctx[w].dataset
        r == req[w]
    IN  /\ pc[w] = "dataset"
        /\ IF d \notin DOMAIN datasets THEN Refuse(w, "not_found")
           ELSE IF r.op = "patch_dataset" /\ datasets[d].locked THEN Refuse(w, "locked")
           ELSE IF r.op = "lock" /\ datasets[d].locked THEN Refuse(w, "ok")
           ELSE IF r.op = "import" /\ datasets[d].file = r.file.name
           THEN SeeDataset(w, d, "again")
           ELSE SeeDataset(w, d, IF r.op \in {"patch_dataset", "lock"} THEN "change" ELSE "study")

(* What each operation decides on the study it has read: a refusal, or     *)
(* "go".  A patch without fields has nothing to do.                        *)
PatchVerdict(r, status) ==
    IF status = "approved" THEN "locked" ELSE IF ~r.valid THEN "ok" ELSE "go"

NewDatasetVerdict(r, status) ==
    IF status = "approved" THEN "locked" ELSE IF ~r.valid THEN "invalid" ELSE "go"

(* Mutant of MoveVerdict: nobody asks who the author is.                   *)
MoveVerdictLenient(r, study) ==
    IF <<study.status, TargetStatus[r.op]>> \notin Transitions THEN "bad_transition"
    ELSE "go"

MoveVerdict(r, study) ==
    IF <<study.status, TargetStatus[r.op]>> \notin Transitions THEN "bad_transition"
    ELSE IF r.op = "approve" /\ study.author = r.user THEN "invalid"
    ELSE "go"

(* Mutant of RecordVerdict: only the lock protects the measurements.       *)
RecordVerdictLockOnly(r, status, locked, again) ==
    IF locked THEN "locked"
    ELSE IF again THEN "conflict"
    ELSE IF ~r.valid THEN (IF r.op = "import" THEN "csv_error" ELSE "invalid")
    ELSE "go"

(* create_record, invalidate_record and import_csv_records, which asks for *)
(* the checksum of the last file (again) before it looks at the rows.      *)
RecordVerdict(r, status, locked, again) ==
    IF status = "approved" \/ locked THEN "locked"
    ELSE IF again THEN "conflict"
    ELSE IF ~r.valid THEN (IF r.op = "import" THEN "csv_error" ELSE "invalid")
    ELSE "go"

StudyVerdict(w, study) ==
    LET r == req[w] IN
    CASE r.op = "patch" -> PatchVerdict(r, study.status)
      [] r.op = "create_dataset" -> NewDatasetVerdict(r, study.status)
      [] r.op \in DOMAIN TargetStatus -> MoveVerdict(r, study)
      [] OTHER -> RecordVerdict(r, study.status, ctx[w].locked, pc[w] = "again")

(* The step that follows get_study.                                        *)
AfterStudy(op) ==
    CASE op = "create_dataset" -> "code"
      [] op = "complete" -> "count"
      [] op \in {"create_record", "import"} -> "number"
      [] OTHER -> "change"

(* get_study and the checks on it; the row is not read again.              *)
ReadStudy(w) ==
    LET s == ctx[w].study IN
    /\ pc[w] \in {"study", "again"}
    /\ IF s \notin DOMAIN studies THEN Refuse(w, "not_found")
       ELSE LET verdict == StudyVerdict(w, studies[s]) IN
            IF verdict # "go" THEN Refuse(w, verdict)
            ELSE /\ Goto(w, AfterStudy(req[w].op))
                 /\ ctx' = [ctx EXCEPT ![w].seen = studies[s].status]

FindCode(w) ==
    /\ pc[w] = "code"
    /\ IF \/ req[w].op = "create_study" /\ CodeUsed(studies, req[w].code)
          \/ req[w].op = "create_dataset"
                /\ DatasetCodeUsed(datasets, ctx[w].study, req[w].code)
       THEN Refuse(w, "conflict")
       ELSE Goto(w, "change") /\ UNCHANGED ctx

(* Mutant of CountRecords: the measurements are not counted.               *)
CountNothing(w) ==
    /\ pc[w] = "count"
    /\ Goto(w, "change")
    /\ UNCHANGED ctx

(* The sum over the data sets of the study is not zero.                    *)
CountRecords(w) ==
    /\ pc[w] = "count"
    /\ IF HasValidRecord(datasets, records, ctx[w].study)
       THEN Goto(w, "change") /\ UNCHANGED ctx
       ELSE Refuse(w, "invalid")

(* A correction needs its record in this data set.  The number of a record *)
(* and of the first row of a file is found before the transaction begins.  *)
PickNumber(w) ==
    LET d == ctx[w].dataset
        r == req[w]
        n == IF r.op = "import" THEN RowNumber(NumbersOf(records, d), Head(r.file.rows))
             ELSE NextNumber(records, d)
    IN  /\ pc[w] = "number"
        /\ IF r.op = "create_record" /\ r.corrects # 0 /\ r.corrects \notin Of(records, d)
           THEN Refuse(w, "not_found")
           ELSE IF r.op = "import" /\ NumberUsed(records, d, n)
           THEN Refuse(w, "csv_error")
           ELSE Goto(w, "change") /\ ctx' = [ctx EXCEPT ![w].number = n]

-----------------------------------------------------------------------------
(* The transactions.                                                       *)

Commit(w) == pc' = [pc EXCEPT ![w] = "audit"] /\ UNCHANGED <<audited, req, ctx>>

(* create_study: the study and its specification snapshot.                 *)
InsertStudy(w) ==
    LET r == req[w] IN
    /\ pc[w] = "change" /\ r.op = "create_study"
    /\ IF CodeUsed(studies, r.code) THEN Refuse(w, "server_error")
       ELSE /\ studies' = Append(studies, [code |-> r.code, author |-> r.user,
                                           status |-> "draft", approver |-> NoUser,
                                           text |-> "first"])
            /\ Commit(w)
            /\ UNCHANGED <<datasets, records>>

(* create_dataset: whether the study was a draft is known from get_study.  *)
InsertDataset(w) ==
    LET r == req[w]
        s == ctx[w].study
    IN  /\ pc[w] = "change" /\ r.op = "create_dataset"
        /\ IF DatasetCodeUsed(datasets, s, r.code) THEN Refuse(w, "server_error")
           ELSE /\ datasets' = Append(datasets, [study |-> s, code |-> r.code,
                                                 locked |-> FALSE, file |-> NoFile])
                /\ studies' = IF ctx[w].seen = "draft"
                              THEN [studies EXCEPT ![s].status = "data_collection"]
                              ELSE studies
                /\ Commit(w)
                /\ UNCHANGED records

(* complete, submit, approve, reject, archive and patch: UPDATE by id.     *)
UpdateStudy(w) ==
    LET r == req[w]
        s == ctx[w].study
    IN  /\ pc[w] = "change" /\ r.op \in StudyOps \ {"create_dataset"}
        /\ studies' = IF r.op = "patch" THEN [studies EXCEPT ![s].text = r.text]
                      ELSE [studies EXCEPT ![s] = Moved(@, r.op, r.user)]
        /\ Commit(w)
        /\ UNCHANGED <<datasets, records>>

(* patch_dataset changes descriptions only, which are not modelled.        *)
UpdateDataset(w) ==
    LET d == ctx[w].dataset IN
    /\ pc[w] = "change" /\ req[w].op \in {"lock", "patch_dataset"}
    /\ datasets' = IF req[w].op = "lock" THEN [datasets EXCEPT ![d].locked = TRUE]
                   ELSE datasets
    /\ Commit(w)
    /\ UNCHANGED <<studies, records>>

(* Mutant of InsertRecord: a corrected record stays valid.                 *)
InsertRecordOnly(w) ==
    LET r == req[w]
        d == ctx[w].dataset
    IN  /\ pc[w] = "change" /\ r.op = "create_record"
        /\ IF NumberUsed(records, d, ctx[w].number) THEN Refuse(w, "server_error")
           ELSE /\ records' = Append(records, NewRecord(d, ctx[w].number, r.corrects, NoFile))
                /\ Commit(w)
                /\ UNCHANGED <<studies, datasets>>

(* create_record: UNIQUE(dataset_id, sequence_number), and the record it   *)
(* corrects becomes invalid in the same transaction.                       *)
InsertRecord(w) ==
    LET r == req[w]
        d == ctx[w].dataset
    IN  /\ pc[w] = "change" /\ r.op = "create_record"
        /\ IF NumberUsed(records, d, ctx[w].number) THEN Refuse(w, "server_error")
           ELSE /\ records' = Append([i \in DOMAIN records |->
                                  IF i = r.corrects THEN [records[i] EXCEPT !.valid = FALSE]
                                  ELSE records[i]],
                              NewRecord(d, ctx[w].number, r.corrects, NoFile))
                /\ Commit(w)
                /\ UNCHANGED <<studies, datasets>>

(* Mutant of ImportRows: a clash leaves the first row in the table.        *)
ImportRowsKept(w) ==
    LET r == req[w]
        d == ctx[w].dataset
        result == Imported(records, d, r.file.name, r.file.rows, ctx[w].number)
    IN  /\ pc[w] = "change" /\ r.op = "import"
        /\ ~NumberUsed(records, d, ctx[w].number)
        /\ records' = IF result.taken THEN SubSeq(result.records, 1, Len(records) + 1)
                      ELSE result.records
        /\ datasets' = [datasets EXCEPT ![d].file = r.file.name]
        /\ Commit(w)
        /\ UNCHANGED studies

(* import_csv_records from its first INSERT: a number that is taken by now *)
(* breaks UNIQUE, one taken within the file is found by a SELECT; either   *)
(* way the transaction is rolled back.                                     *)
ImportRows(w) ==
    LET r == req[w]
        d == ctx[w].dataset
        result == Imported(records, d, r.file.name, r.file.rows, ctx[w].number)
    IN  /\ pc[w] = "change" /\ r.op = "import"
        /\ IF NumberUsed(records, d, ctx[w].number) THEN Refuse(w, "server_error")
           ELSE IF result.taken THEN Refuse(w, "csv_error")
           ELSE /\ records' = result.records
                /\ datasets' = [datasets EXCEPT ![d].file = r.file.name]
                /\ Commit(w)
                /\ UNCHANGED studies

InvalidateRecord(w) ==
    /\ pc[w] = "change" /\ req[w].op = "invalidate"
    /\ records' = [records EXCEPT ![ctx[w].record].valid = FALSE]
    /\ Commit(w)
    /\ UNCHANGED <<studies, datasets>>

(* audit, and the answer.                                                  *)
Audit(w) ==
    /\ pc[w] = "audit"
    /\ audited' = audited \cup {[op |-> req[w].op, row |-> ctx[w].study]}
    /\ Finish(w)
    /\ UNCHANGED tables

-----------------------------------------------------------------------------

(* "database is locked" after busy_timeout: whatever has not been          *)
(* committed is not done, and the caller gets a 500.                       *)
Busy(w) ==
    /\ "busy" \in Failures
    /\ pc[w] \in {"change", "audit"}
    /\ Refuse(w, "server_error")

(* The server dies and starts again.                                       *)
Crash ==
    /\ "crash" \in Failures
    /\ \E w \in Workers : pc[w] # "idle"
    /\ pc' = [w \in Workers |-> "idle"]
    /\ ctx' = [w \in Workers |-> NoContext]
    /\ req' = [w \in Workers |-> NoRequest]
    /\ UNCHANGED <<tables, audited>>

Step(w) ==
    \/ ReadRecord(w) \/ ReadDataset(w) \/ ReadStudy(w)
    \/ FindCode(w) \/ CountRecords(w) \/ PickNumber(w)
    \/ InsertStudy(w) \/ InsertDataset(w) \/ UpdateStudy(w) \/ UpdateDataset(w)
    \/ InsertRecord(w) \/ ImportRows(w) \/ InvalidateRecord(w)
    \/ Audit(w)

Next ==
    \/ \E w \in Workers :
          \/ \E r \in Requests : Receive(w, r)
          \/ Step(w)
          \/ Busy(w)
    \/ Crash

Spec == Init /\ [][Next]_vars

-----------------------------------------------------------------------------

Points == {"idle", "record", "dataset", "study", "again", "code", "count", "number",
           "change", "audit"}

(* The rows of each table, and what the workers hold (repository.py DDL).  *)
TypeOK ==
    /\ \A i \in DOMAIN studies :
          studies[i].status \in StudyStatus /\ studies[i].author # NoUser
    /\ \A i \in DOMAIN datasets :
          datasets[i].study \in DOMAIN studies /\ datasets[i].locked \in BOOLEAN
    /\ \A i \in DOMAIN records :
          records[i].dataset \in DOMAIN datasets /\ records[i].valid \in BOOLEAN
    /\ pc \in [Workers -> Points]
    /\ req \in [Workers -> Requests \cup {NoRequest}]

(* A study that is completed, or further on, has measurements, and nobody  *)
(* approved a study of their own, however operations overlap.              *)
ApprovalGrounded ==
    \A s \in DOMAIN studies :
        /\ studies[s].status \in {"completed", "under_review", "approved", "rejected"} =>
               \E i \in DOMAIN records : datasets[records[i].dataset].study = s
        /\ studies[s].approver # NoUser =>
               studies[s].approver \in Approvers \ {studies[s].author}

(* A file is in a data set with all of its rows or with none of them       *)
(* (service.py: "all-or-nothing per call"), whatever fails or overlaps.    *)
ImportsWhole ==
    \A r \in {q \in Requests : q.op = "import"} :
        \A d \in DOMAIN datasets :
            LET n == Cardinality({i \in Of(records, d) : records[i].file = r.file.name})
            IN  n % Len(r.file.rows) = 0

(* A correction is in the data set of the record it corrects, comes after  *)
(* it, and that record does not count any more.                            *)
CorrectionsSupersede ==
    \A i \in DOMAIN records :
        records[i].corrects # 0 =>
            /\ records[i].corrects < i
            /\ records[records[i].corrects].dataset = records[i].dataset
            /\ ~records[records[i].corrects].valid

(* The audit log tells of an approval only if the study was approved.      *)
AuditedApprovals ==
    \A e \in audited : e.op = "approve" => studies[e.row].approver # NoUser

(* Two rows of a data set never have one number, whether it was given or   *)
(* computed, and although it is picked before the transaction.             *)
NumbersUnique ==
    \A i, j \in DOMAIN records :
        records[i].dataset = records[j].dataset /\ records[i].number = records[j].number
            => i = j

(* What approvals rest on, although a transition reads the study with one  *)
(* connection and writes it with another.                                  *)
ApprovalsHold == ApprovalGrounded /\ AuditedApprovals

(* The rows of the three tables belong together (service.py), also where a *)
(* correction and an invalidation meet, or two numbers do.                 *)
RowsInv == TypeOK /\ CorrectionsSupersede /\ NumbersUnique

(* Measurements are never deleted, changed or declared valid again: the    *)
(* only thing that happens to one is that it stops counting.               *)
RecordsStand ==
    \A i \in DOMAIN records :
        /\ i \in DOMAIN records'
        /\ records'[i] \in {records[i], [records[i] EXCEPT !.valid = FALSE]}

RecordOps == {"create_record", "import", "invalidate"}

(* The workers about to change measurements of a data set that stand       *)
(* behind _assert_study_editable's look at the approval, or at the lock.    *)
Handling(d, points) ==
    {w \in Workers : pc[w] \in points /\ req[w].op \in RecordOps /\ ctx[w].dataset = d}

PastApproval(d) == Handling(d, {"number", "change"})

PastLock(d) ==
    {w \in Handling(d, {"study", "again", "number", "change"}) : ~ctx[w].locked}

RowsOf(d) == [i \in Of(records, d) |-> records[i]]
Approved(d) == studies[datasets[d].study].status = "approved"

(* Nobody joins, and who changes rows leaves.                              *)
UsesUp(before, after, changes) == after \subseteq before /\ (changes => after # before)

(* The checks read the study and the lock long before the write, so that   *)
(* an approved study or a locked data set can still get measurements, or   *)
(* lose them; but only once from each worker that was past the check.      *)
LateChangesRunOut ==
    \A d \in DOMAIN datasets :
        /\ Approved(d) /\ Approved(d)' =>
               UsesUp(PastApproval(d), PastApproval(d)', RowsOf(d)' # RowsOf(d))
        /\ datasets[d].locked /\ datasets'[d].locked =>
               UsesUp(PastLock(d), PastLock(d)', RowsOf(d)' # RowsOf(d))

(* Measurements stand, and those of a settled study or data set settle,    *)
(* however requests overlap.                                               *)
MeasurementsStand == [][RecordsStand /\ LateChangesRunOut]_vars

-----------------------------------------------------------------------------

(* For callers that do not overlap, every operation is one step on the     *)
(* rows as they are.                                                       *)
Register == INSTANCE StudyRegister WITH
    Users <- {r.user : r \in {q \in Requests : q.op \in StudyOps \cup {"create_study"}}},
    Texts <- {r.text : r \in {q \in Requests : q.op = "patch"}},
    Codes <- {r.code : r \in {q \in Requests : q.op \in {"create_study", "create_dataset"}}},
    Files <- {r.file : r \in {q \in Requests : q.op = "import"}}

=============================================================================
