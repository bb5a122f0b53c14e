---------------------- MODULE ProductionValidationProofs ----------------------
(***************************************************************************)
(* Any number of threads on the studies, data sets and measurements, any   *)
(* requests, a busy database and restarts: measurements stand, corrections *)
(* supersede, and an approval rests on measurements and on another person. *)
(***************************************************************************)
EXTENDS MCStudies, SequenceTheorems, FiniteSetTheorems, TLAPS

(* The rows of the tables.  What a column may hold is what requests give;  *)
(* of a number only one thing matters, whether it is that of another row.  *)
Names == {r.code : r \in Requests} \cup {r.text : r \in Requests} \cup {"first"}
People == {r.user : r \in Requests}
FileNames == {r.file.name : r \in Requests} \cup {NoFile}

StudyRow == [code : Names, author : People, status : StudyStatus,
             approver : People \cup {NoUser}, text : Names]
DatasetRow == [study : Nat, code : Names, locked : BOOLEAN, file : FileNames]
RecordRow(Numbers) == [dataset : Nat, number : Numbers, valid : BOOLEAN,
                       corrects : Nat, file : FileNames]

RowsTyped ==
    /\ studies \in Seq(StudyRow)
    /\ datasets \in Seq(DatasetRow)
    /\ \E Numbers : records \in Seq(RecordRow(Numbers))

LocalsTyped ==
    /\ pc \in [Workers -> Points]
    /\ req \in [Workers -> Requests \cup {NoRequest}]
    /\ DOMAIN ctx = Workers
    /\ \A w \in Workers : DOMAIN ctx[w] = DOMAIN NoContext

-----------------------------------------------------------------------------
(* The inductive invariant.                                                *)

(* A study has a measurement, valid or not.                                *)
HasRecord(s) == \E i \in DOMAIN records : datasets[records[i].dataset].study = s

(* Which operation is at which step.                                       *)
Placed(w) ==
    /\ pc[w] # "idle" => req[w] \in Requests
    /\ pc[w] = "record" => req[w].op = "invalidate"
    /\ pc[w] = "dataset" => req[w].op \in DatasetOps
    /\ pc[w] = "again" => req[w].op = "import"
    /\ pc[w] = "code" => req[w].op \in {"create_study", "create_dataset"}
    /\ pc[w] = "count" => req[w].op = "complete"
    /\ pc[w] = "number" => req[w].op \in {"create_record", "import"}
    /\ pc[w] = "study" => req[w].op # "create_study"

(* The rows a request has read are still there.                            *)
RowsKnown(w) ==
    /\ pc[w] \in {"study", "again", "number", "change"}
          /\ req[w].op \in DatasetOps \cup {"invalidate"} => ctx[w].dataset \in DOMAIN datasets
    /\ pc[w] \in {"study", "change"} /\ req[w].op = "invalidate" =>
           ctx[w].record \in DOMAIN records
    /\ pc[w] \in {"code", "count", "change"} /\ req[w].op \in StudyOps =>
           ctx[w].study \in DOMAIN studies
    /\ pc[w] = "change" /\ req[w].op = "create_record" /\ req[w].corrects # 0 =>
           req[w].corrects \in Of(records, ctx[w].dataset)

(* What a transition was allowed for is still true of its study, although  *)
(* its status may be another by now.                                       *)
MoveReady(w) ==
    /\ pc[w] \in {"study", "change"} /\ req[w].op = "approve" => req[w].user \in Approvers
    /\ pc[w] = "change" /\ req[w].op \in {"complete", "submit", "approve", "reject"} =>
           HasRecord(ctx[w].study)
    /\ pc[w] = "change" /\ req[w].op = "approve" =>
           studies[ctx[w].study].author # req[w].user
    /\ pc[w] = "audit" /\ req[w].op = "approve" =>
           ctx[w].study \in DOMAIN studies /\ studies[ctx[w].study].approver # NoUser

WorkerInv(w) == Placed(w) /\ RowsKnown(w) /\ MoveReady(w)

(* The audit log tells of approvals that were made.                        *)
ApprovalsAudited ==
    \A e \in audited : e.op = "approve" =>
        e.row \in DOMAIN studies /\ studies[e.row].approver # NoUser

TablesInv ==
    /\ \A i \in DOMAIN studies : studies[i].author # NoUser
    /\ \A i \in DOMAIN datasets : datasets[i].study \in DOMAIN studies
    /\ \A i \in DOMAIN records : records[i].dataset \in DOMAIN datasets
    /\ CorrectionsSupersede /\ NumbersUnique
    /\ ApprovalGrounded /\ ApprovalsAudited

StudyInv ==
    /\ RowsTyped /\ LocalsTyped /\ TablesInv
    /\ \A w \in Workers : WorkerInv(w)

(* What no step takes back: rows stay, with their author, their place and  *)
(* an approver once there is one; a measurement at most stops counting.    *)
TablesGrow ==
    /\ \A i \in DOMAIN studies :
          /\ i \in DOMAIN studies' /\ studies'[i].author = studies[i].author
          /\ studies[i].approver # NoUser => studies'[i].approver # NoUser
    /\ \A i \in DOMAIN datasets :
          i \in DOMAIN datasets' /\ datasets'[i].study = datasets[i].study
    /\ \A i \in DOMAIN records : records'[i].dataset = records[i].dataset
    /\ RecordsStand

OthersSame(w) ==
    \A x \in Workers \ {w} : pc'[x] = pc[x] /\ req'[x] = req[x] /\ ctx'[x] = ctx[x]

-----------------------------------------------------------------------------
(* What a request has found stays true while the tables grow.              *)

(* A measured study stays measured.                                        *)
LEMMA HasRecordStays ==
    ASSUME TablesInv, TablesGrow
    PROVE  \A s : HasRecord(s) =>
               \E i \in DOMAIN records' : datasets'[records'[i].dataset].study = s
<1> TAKE s
<1> HAVE HasRecord(s)
<1>1. PICK i \in DOMAIN records : datasets[records[i].dataset].study = s
    BY DEF HasRecord
<1>2. records[i].dataset \in DOMAIN datasets
    BY DEF TablesInv
<1>3. i \in DOMAIN records' /\ datasets'[records'[i].dataset].study = s
    BY <1>1, <1>2 DEF TablesGrow, RecordsStand
<1>4. QED
    BY <1>3

(* A worker that a step of another leaves where it is.                     *)
LEMMA OthersKeep ==
    ASSUME TablesInv, TablesGrow, NEW x \in Workers, WorkerInv(x),
           pc'[x] = pc[x], req'[x] = req[x], ctx'[x] = ctx[x]
    PROVE  WorkerInv(x)'
<1>1. Placed(x)'
    BY DEF WorkerInv, Placed
<1>2. RowsKnown(x)'
  <2>1. \A d : Of(records, d) \subseteq Of(records', d)
    BY DEF TablesGrow, RecordsStand, Of
  <2>2. /\ DOMAIN studies \subseteq DOMAIN studies' /\ DOMAIN datasets \subseteq DOMAIN datasets'
        /\ DOMAIN records \subseteq DOMAIN records'
    BY DEF TablesGrow, RecordsStand
  <2>3. QED
    BY <2>1, <2>2 DEF WorkerInv, RowsKnown
<1>3. MoveReady(x)'
  <2>1. HasRecord(ctx[x].study) =>
            \E i \in DOMAIN records' : datasets'[records'[i].dataset].study = ctx[x].study
    BY HasRecordStays
  <2>2. pc[x] = "change" /\ req[x].op = "approve" => ctx[x].study \in DOMAIN studies
    BY DEF WorkerInv, RowsKnown, StudyOps, TargetStatus
  <2>3. QED
    BY <2>1, <2>2 DEF WorkerInv, MoveReady, TablesGrow, HasRecord
<1>4. QED
    BY <1>1, <1>2, <1>3 DEF WorkerInv

(* What is left to show of a step that one request takes.                  *)
LEMMA StepKeeps ==
    ASSUME StudyInv, NEW w \in Workers, OthersSame(w), TablesGrow,
           RowsTyped', LocalsTyped', TablesInv', WorkerInv(w)'
    PROVE  StudyInv' /\ RecordsStand
<1>1. \A x \in Workers : WorkerInv(x)'
    BY OthersKeep DEF StudyInv, OthersSame
<1>2. QED
    BY <1>1 DEF StudyInv, TablesGrow

(* Most steps leave the tables and the audit log as they are.              *)
LEMMA SameTables ==
    ASSUME StudyInv, UNCHANGED <<tables, audited>>
    PROVE  RowsTyped' /\ TablesInv' /\ TablesGrow
<1>1. studies' = studies /\ datasets' = datasets /\ records' = records /\ audited' = audited
    BY DEF tables
<1>2. RowsTyped'
    BY <1>1 DEF StudyInv, RowsTyped
<1>3. TablesInv'
    BY <1>1 DEF StudyInv, TablesInv, CorrectionsSupersede, NumbersUnique, ApprovalGrounded,
                ApprovalsAudited
<1>4. TablesGrow
    BY <1>1 DEF TablesGrow, RecordsStand
<1>5. QED
    BY <1>2, <1>3, <1>4

(* A request that ends.                                                    *)
LEMMA FinishKeeps ==
    ASSUME StudyInv, NEW w \in Workers, Finish(w), TablesGrow, RowsTyped', TablesInv'
    PROVE  StudyInv' /\ RecordsStand
<1>1. /\ pc'[w] = "idle" /\ OthersSame(w)
      /\ pc' \in [Workers -> Points] /\ req' \in [Workers -> Requests \cup {NoRequest}]
    BY DEF StudyInv, LocalsTyped, Finish, OthersSame, Points
<1>2. LocalsTyped'
    BY <1>1 DEF StudyInv, LocalsTyped, Finish, NoContext
<1>3. WorkerInv(w)'
    BY <1>1 DEF WorkerInv, Placed, RowsKnown, MoveReady
<1>4. QED
    BY <1>1, <1>2, <1>3, StepKeeps

(* A request that is refused, or has nothing to do.                        *)
LEMMA RefuseKeeps ==
    ASSUME StudyInv, NEW w \in Workers, NEW answer, Refuse(w, answer)
    PROVE  StudyInv' /\ RecordsStand
BY SameTables, FinishKeeps DEF Refuse

(* A request that reads and goes on.                                       *)
LEMMA GotoKeeps ==
    ASSUME StudyInv, NEW w \in Workers, NEW step \in Points, Goto(w, step),
           DOMAIN ctx' = Workers, DOMAIN ctx'[w] = DOMAIN NoContext,
           \A x \in Workers \ {w} : ctx'[x] = ctx[x], WorkerInv(w)'
    PROVE  StudyInv' /\ RecordsStand
<1>1. UNCHANGED <<tables, audited>> /\ req' = req /\ pc' = [pc EXCEPT ![w] = step]
    BY DEF Goto
<1>2. OthersSame(w)
    BY <1>1 DEF OthersSame, StudyInv, LocalsTyped
<1>3. LocalsTyped'
    BY <1>1 DEF StudyInv, LocalsTyped
<1>4. QED
    BY <1>1, <1>2, <1>3, SameTables, StepKeeps

-----------------------------------------------------------------------------
(* The steps that only read.                                               *)

(* A route, up to the first look at the database.                          *)
LEMMA ReceiveKeeps ==
    ASSUME StudyInv, NEW w \in Workers, NEW r \in Requests, Receive(w, r)
    PROVE  StudyInv' /\ RecordsStand
<1>1. /\ DOMAIN ctx' = Workers /\ DOMAIN ctx'[w] = DOMAIN NoContext
      /\ \A x \in Workers \ {w} : ctx'[x] = ctx[x]
    BY DEF Receive, StudyInv, LocalsTyped
<1>2. /\ req' = [req EXCEPT ![w] = r] /\ req'[w] = r /\ UNCHANGED <<tables, audited>>
      /\ \E step \in Points : pc' = [pc EXCEPT ![w] = step]
    BY DEF Receive, StudyInv, LocalsTyped, Points
<1>3. OthersSame(w) /\ LocalsTyped'
    BY <1>1, <1>2 DEF OthersSame, StudyInv, LocalsTyped
<1>4. WorkerInv(w)'
  <2>1. CASE r.op = "create_study" /\ pc'[w] = "code"
    BY <1>2, <2>1 DEF WorkerInv, Placed, RowsKnown, MoveReady, StudyOps, TargetStatus
  <2>2. CASE /\ r.op \in StudyOps /\ pc'[w] = "study"
             /\ r.op \in {"approve", "reject"} => r.user \in Approvers
    BY <1>2, <2>2 DEF WorkerInv, Placed, RowsKnown, MoveReady, StudyOps, DatasetOps, TargetStatus
  <2>3. CASE r.op \in DatasetOps /\ pc'[w] = "dataset"
    BY <1>2, <2>3 DEF WorkerInv, Placed, RowsKnown, MoveReady
  <2>4. CASE r.op = "invalidate" /\ pc'[w] = "record"
    BY <1>2, <2>4 DEF WorkerInv, Placed, RowsKnown, MoveReady
  <2>5. QED
    BY <2>1, <2>2, <2>3, <2>4 DEF Receive, StudyInv, LocalsTyped
<1>5. QED
    BY <1>2, <1>3, <1>4, SameTables, StepKeeps

(* fetch_record or get_dataset, whose row goes into the locals.            *)
LEMMA SeeDatasetKeeps ==
    ASSUME StudyInv, NEW w \in Workers, NEW d \in DOMAIN datasets,
           NEW step \in {"study", "again", "change"}, SeeDataset(w, d, step),
           req[w] \in Requests, req[w].op \in DatasetOps \cup {"invalidate"},
           step = "again" => req[w].op = "import",
           step = "change" => req[w].op \in {"lock", "patch_dataset"},
           req[w].op = "invalidate" => ctx[w].record \in DOMAIN records
    PROVE  StudyInv' /\ RecordsStand
<1>1. /\ DOMAIN ctx' = Workers /\ DOMAIN ctx'[w] = DOMAIN NoContext
      /\ \A x \in Workers \ {w} : ctx'[x] = ctx[x]
      /\ ctx'[w].dataset = d /\ ctx'[w].record = ctx[w].record
    BY DEF SeeDataset, StudyInv, LocalsTyped, NoContext
<1>2. /\ pc'[w] = step /\ req' = req /\ Goto(w, step) /\ step \in Points
      /\ datasets' = datasets /\ records' = records
    BY DEF SeeDataset, Goto, StudyInv, LocalsTyped, Points, tables
<1>3. WorkerInv(w)'
    BY <1>1, <1>2 DEF WorkerInv, Placed, RowsKnown, MoveReady, DatasetOps, StudyOps, TargetStatus
<1>4. QED
    BY <1>1, <1>2, <1>3, GotoKeeps

(* fetch_record.                                                           *)
LEMMA ReadRecordKeeps ==
    ASSUME StudyInv, NEW w \in Workers, ReadRecord(w)
    PROVE  StudyInv' /\ RecordsStand
<1>1. req[w] \in Requests /\ req[w].op = "invalidate"
    BY DEF ReadRecord, StudyInv, WorkerInv, Placed
<1>2. CASE ctx[w].record \notin DOMAIN records
    BY <1>2, RefuseKeeps DEF ReadRecord
<1>3. CASE ctx[w].record \in DOMAIN records
  <2>1. records[ctx[w].record].dataset \in DOMAIN datasets
    BY <1>3 DEF StudyInv, TablesInv
  <2>2. QED
    BY <1>1, <1>3, <2>1, SeeDatasetKeeps DEF ReadRecord
<1>4. QED
    BY <1>2, <1>3

(* get_dataset.                                                            *)
LEMMA ReadDatasetKeeps ==
    ASSUME StudyInv, NEW w \in Workers, ReadDataset(w)
    PROVE  StudyInv' /\ RecordsStand
<1> DEFINE d == ctx[w].dataset
<1>1. req[w] \in Requests /\ req[w].op \in DatasetOps
    BY DEF ReadDataset, StudyInv, WorkerInv, Placed
<1>2. CASE \E answer : Refuse(w, answer)
    BY <1>2, RefuseKeeps
<1>3. CASE /\ d \in DOMAIN datasets
           /\ \E step \in {"study", "again", "change"} :
                 /\ SeeDataset(w, d, step)
                 /\ step = "again" => req[w].op = "import"
                 /\ step = "change" => req[w].op \in {"lock", "patch_dataset"}
    BY <1>1, <1>3, SeeDatasetKeeps DEF DatasetOps
<1>4. QED
    BY <1>2, <1>3 DEF ReadDataset

(* From one of these statuses a study goes on only with measurements.      *)
LEMMA MovedFromMeasured ==
    ASSUME StudyInv, NEW s \in DOMAIN studies, NEW r,
           r.op \in {"submit", "approve", "reject"}, MoveVerdict(r, studies[s]) = "go"
    PROVE  HasRecord(s) /\ (r.op = "approve" => studies[s].author # r.user)
<1>1. <<studies[s].status, TargetStatus[r.op]>> \in Transitions
    BY DEF MoveVerdict
<1>2. studies[s].status \in {"completed", "under_review"}
    BY <1>1 DEF Transitions, TargetStatus, StudyStatus
<1>3. HasRecord(s)
    BY <1>2 DEF StudyInv, TablesInv, ApprovalGrounded, HasRecord
<1>4. QED
    BY <1>3 DEF MoveVerdict

(* get_study and what is decided on it.                                    *)
LEMMA ReadStudyKeeps ==
    ASSUME StudyInv, NEW w \in Workers, ReadStudy(w)
    PROVE  StudyInv' /\ RecordsStand
<1> DEFINE s == ctx[w].study
           op == req[w].op
<1>1. /\ req[w] \in Requests /\ op # "create_study" /\ WorkerInv(w)
      /\ pc[w] \in {"study", "again"} /\ (pc[w] = "again" => op = "import")
    BY DEF ReadStudy, StudyInv, WorkerInv, Placed
<1>2. CASE \E answer : Refuse(w, answer)
    BY <1>2, RefuseKeeps
<1>3. CASE /\ s \in DOMAIN studies /\ StudyVerdict(w, studies[s]) = "go"
           /\ Goto(w, AfterStudy(op)) /\ ctx' = [ctx EXCEPT ![w].seen = studies[s].status]
  <2>1. /\ DOMAIN ctx' = Workers /\ DOMAIN ctx'[w] = DOMAIN NoContext
        /\ \A x \in Workers \ {w} : ctx'[x] = ctx[x]
        /\ ctx'[w].study = s /\ ctx'[w].dataset = ctx[w].dataset
        /\ ctx'[w].record = ctx[w].record
    BY <1>3 DEF StudyInv, LocalsTyped, NoContext
  <2>2. AfterStudy(op) \in {"code", "count", "number", "change"}
    BY DEF AfterStudy
  <2>3. /\ pc'[w] = AfterStudy(op) /\ req' = req /\ AfterStudy(op) \in Points
        /\ studies' = studies /\ datasets' = datasets /\ records' = records
    BY <1>3, <2>2 DEF Goto, StudyInv, LocalsTyped, Points, tables
  <2>4. op \in {"submit", "approve", "reject"} =>
            HasRecord(s) /\ (op = "approve" => studies[s].author # req[w].user)
    <3>1. op \in {"submit", "approve", "reject"} => MoveVerdict(req[w], studies[s]) = "go"
      BY <1>3 DEF StudyVerdict, TargetStatus
    <3>2. QED
      BY <1>3, <3>1, MovedFromMeasured
  <2>5. HasRecord(s) => HasRecord(ctx[w].study)'
    BY <2>1, <2>3 DEF HasRecord
  <2>6. Placed(w)'
    BY <1>1, <2>2, <2>3 DEF Placed, AfterStudy
  <2>7. RowsKnown(w)'
    BY <1>1, <1>3, <2>1, <2>3
       DEF WorkerInv, RowsKnown, AfterStudy, DatasetOps, StudyOps, TargetStatus
  <2>8. MoveReady(w)'
    BY <1>1, <1>3, <2>1, <2>3, <2>4, <2>5 DEF WorkerInv, MoveReady, AfterStudy
  <2>9. QED
    BY <1>3, <2>1, <2>3, <2>6, <2>7, <2>8, GotoKeeps DEF WorkerInv
<1>4. QED
    BY <1>2, <1>3 DEF ReadStudy

(* A step that goes on to the transaction with the locals as they are.     *)
LEMMA ToChangeKeeps ==
    ASSUME StudyInv, NEW w \in Workers, Goto(w, "change"),
           DOMAIN ctx' = Workers, DOMAIN ctx'[w] = DOMAIN NoContext,
           \A x \in Workers \ {w} : ctx'[x] = ctx[x],
           ctx'[w].study = ctx[w].study, ctx'[w].dataset = ctx[w].dataset,
           pc[w] \in {"code", "count", "number"},
           pc[w] = "count" => HasRecord(ctx[w].study),
           req[w].op = "create_record" /\ req[w].corrects # 0 =>
               req[w].corrects \in Of(records, ctx[w].dataset)
    PROVE  StudyInv' /\ RecordsStand
<1>1. /\ pc'[w] = "change" /\ req' = req /\ "change" \in Points
      /\ studies' = studies /\ datasets' = datasets /\ records' = records
    BY DEF Goto, StudyInv, LocalsTyped, Points, tables
<1>2. WorkerInv(w)
    BY DEF StudyInv
<1>3. HasRecord(ctx[w].study) => HasRecord(ctx[w].study)'
    BY <1>1 DEF HasRecord
<1>4. req[w].op \in {"create_study", "create_dataset", "complete", "create_record", "import"}
    BY <1>2 DEF WorkerInv, Placed
<1>5. Placed(w)' /\ RowsKnown(w)'
    BY <1>1, <1>2, <1>4
       DEF WorkerInv, Placed, RowsKnown, DatasetOps, StudyOps, TargetStatus
<1>6. MoveReady(w)'
    BY <1>1, <1>2, <1>3, <1>4 DEF WorkerInv, Placed, MoveReady
<1>7. QED
    BY <1>1, <1>5, <1>6, GotoKeeps DEF WorkerInv

(* The SELECT for a code that is in use.                                   *)
LEMMA FindCodeKeeps ==
    ASSUME StudyInv, NEW w \in Workers, FindCode(w)
    PROVE  StudyInv' /\ RecordsStand
<1>1. req[w].op \in {"create_study", "create_dataset"}
    BY DEF FindCode, StudyInv, WorkerInv, Placed
<1>2. CASE Refuse(w, "conflict")
    BY <1>2, RefuseKeeps
<1>3. CASE Goto(w, "change") /\ UNCHANGED ctx
    BY <1>1, <1>3, ToChangeKeeps DEF FindCode, StudyInv, LocalsTyped
<1>4. QED
    BY <1>2, <1>3 DEF FindCode

(* count_records: a study is completed with measurements.                  *)
LEMMA CountRecordsKeeps ==
    ASSUME StudyInv, NEW w \in Workers, CountRecords(w)
    PROVE  StudyInv' /\ RecordsStand
<1>1. req[w].op = "complete"
    BY DEF CountRecords, StudyInv, WorkerInv, Placed
<1>2. CASE Refuse(w, "invalid")
    BY <1>2, RefuseKeeps
<1>3. CASE /\ HasValidRecord(datasets, records, ctx[w].study)
           /\ Goto(w, "change") /\ UNCHANGED ctx
  <2>1. HasRecord(ctx[w].study)
    BY <1>3 DEF HasValidRecord, HasRecord
  <2>2. QED
    BY <1>1, <1>3, <2>1, ToChangeKeeps DEF CountRecords, StudyInv, LocalsTyped
<1>4. QED
    BY <1>2, <1>3 DEF CountRecords

(* next_sequence_number, and the record that is corrected.                 *)
LEMMA PickNumberKeeps ==
    ASSUME StudyInv, NEW w \in Workers, PickNumber(w)
    PROVE  StudyInv' /\ RecordsStand
<1>1. CASE \E answer : Refuse(w, answer)
    BY <1>1, RefuseKeeps
<1>2. CASE /\ Goto(w, "change") /\ \E n : ctx' = [ctx EXCEPT ![w].number = n]
           /\ req[w].op = "create_record" /\ req[w].corrects # 0 =>
                  req[w].corrects \in Of(records, ctx[w].dataset)
  <2>1. /\ DOMAIN ctx' = Workers /\ DOMAIN ctx'[w] = DOMAIN NoContext
        /\ \A x \in Workers \ {w} : ctx'[x] = ctx[x]
        /\ ctx'[w].study = ctx[w].study /\ ctx'[w].dataset = ctx[w].dataset
    BY <1>2 DEF StudyInv, LocalsTyped, NoContext
  <2>2. QED
    BY <1>2, <2>1, ToChangeKeeps DEF PickNumber
<1>3. QED
    BY <1>1, <1>2 DEF PickNumber

(* The audit row of an approval comes after the approval.                  *)
LEMMA AuditKeeps ==
    ASSUME StudyInv, NEW w \in Workers, Audit(w)
    PROVE  StudyInv' /\ RecordsStand
<1>1. /\ studies' = studies /\ datasets' = datasets /\ records' = records
      /\ audited' = audited \cup {[op |-> req[w].op, row |-> ctx[w].study]}
    BY DEF Audit, tables
<1>2. ApprovalsAudited'
    BY <1>1 DEF Audit, StudyInv, TablesInv, ApprovalsAudited, WorkerInv, MoveReady
<1>3. TablesInv'
    BY <1>1, <1>2 DEF StudyInv, TablesInv, CorrectionsSupersede, NumbersUnique, ApprovalGrounded
<1>4. RowsTyped' /\ TablesGrow
    BY <1>1 DEF StudyInv, RowsTyped, TablesGrow, RecordsStand
<1>5. QED
    BY <1>3, <1>4, FinishKeeps DEF Audit

(* A transaction that is rolled back.                                      *)
LEMMA BusyKeeps ==
    ASSUME StudyInv, NEW w \in Workers, Busy(w)
    PROVE  StudyInv' /\ RecordsStand
BY RefuseKeeps DEF Busy

(* A restart keeps the tables and forgets the requests.                    *)
LEMMA CrashKeeps ==
    ASSUME StudyInv, Crash
    PROVE  StudyInv' /\ RecordsStand
<1>1. RowsTyped' /\ TablesInv' /\ TablesGrow
    BY SameTables DEF Crash
<1>2. LocalsTyped'
    BY DEF Crash, LocalsTyped, Points, NoContext
<1>3. \A x \in Workers : WorkerInv(x)'
    BY DEF Crash, WorkerInv, Placed, RowsKnown, MoveReady
<1>4. QED
    BY <1>1, <1>2, <1>3 DEF StudyInv, TablesGrow

-----------------------------------------------------------------------------
(* The transactions.                                                       *)

(* A committed request has nothing more to rely on than an approver.       *)
LEMMA CommitKeeps ==
    ASSUME StudyInv, NEW w \in Workers, pc[w] # "idle", Commit(w),
           TablesGrow, RowsTyped', TablesInv',
           req[w].op = "approve" =>
               ctx[w].study \in DOMAIN studies' /\ studies'[ctx[w].study].approver # NoUser
    PROVE  StudyInv' /\ RecordsStand
<1>1. pc'[w] = "audit" /\ req' = req /\ ctx' = ctx /\ pc' \in [Workers -> Points]
    BY DEF Commit, StudyInv, LocalsTyped, Points
<1>2. OthersSame(w) /\ LocalsTyped'
    BY <1>1 DEF Commit, OthersSame, StudyInv, LocalsTyped
<1>3. WorkerInv(w)'
    BY <1>1 DEF StudyInv, WorkerInv, Placed, RowsKnown, MoveReady
<1>4. QED
    BY <1>2, <1>3, StepKeeps

(* Approvals go on resting on what they rested on.                         *)
LEMMA StudiesHold ==
    ASSUME StudyInv, TablesGrow, audited' = audited,
           \A i \in DOMAIN studies' :
              /\ studies'[i].author # NoUser
              /\ studies'[i].status \in {"completed", "under_review", "approved", "rejected"}
                     => HasRecord(i)
              /\ studies'[i].approver # NoUser =>
                     studies'[i].approver \in Approvers \ {studies'[i].author}
    PROVE  /\ \A i \in DOMAIN studies' : studies'[i].author # NoUser
           /\ ApprovalGrounded' /\ ApprovalsAudited'
<1>1. ApprovalGrounded'
    BY HasRecordStays DEF StudyInv, ApprovalGrounded
<1>2. ApprovalsAudited'
    BY DEF StudyInv, TablesInv, ApprovalsAudited, TablesGrow
<1>3. QED
    BY <1>1, <1>2

(* ... in particular where no study changes.                               *)
LEMMA SameStudiesHold ==
    ASSUME StudyInv, TablesGrow, audited' = audited, studies' = studies
    PROVE  /\ \A i \in DOMAIN studies' : studies'[i].author # NoUser
           /\ ApprovalGrounded' /\ ApprovalsAudited'
<1>1. \A i \in DOMAIN studies :
          /\ studies[i].author # NoUser
          /\ studies[i].status \in {"completed", "under_review", "approved", "rejected"}
                 => HasRecord(i)
          /\ studies[i].approver # NoUser =>
                 studies[i].approver \in Approvers \ {studies[i].author}
    BY DEF StudyInv, TablesInv, ApprovalGrounded, HasRecord
<1>2. QED
    BY <1>1, StudiesHold

(* Steps that change studies only.                                         *)
LEMMA StudiesChange ==
    ASSUME StudyInv, studies' \in Seq(StudyRow), UNCHANGED <<datasets, records, audited>>,
           \A i \in DOMAIN studies :
              /\ i \in DOMAIN studies' /\ studies'[i].author = studies[i].author
              /\ studies[i].approver # NoUser => studies'[i].approver # NoUser,
           \A i \in DOMAIN studies' :
              /\ studies'[i].author # NoUser
              /\ studies'[i].status \in {"completed", "under_review", "approved", "rejected"}
                     => HasRecord(i)
              /\ studies'[i].approver # NoUser =>
                     studies'[i].approver \in Approvers \ {studies'[i].author}
    PROVE  TablesGrow /\ RowsTyped' /\ TablesInv'
<1>1. TablesGrow
    BY DEF TablesGrow, RecordsStand
<1>2. RowsTyped'
    BY DEF StudyInv, RowsTyped
<1>3. /\ \A i \in DOMAIN datasets' : datasets'[i].study \in DOMAIN studies'
      /\ \A i \in DOMAIN records' : records'[i].dataset \in DOMAIN datasets'
    BY DEF StudyInv, TablesInv
<1>4. CorrectionsSupersede' /\ NumbersUnique'
    BY DEF StudyInv, TablesInv, CorrectionsSupersede, NumbersUnique
<1>5. QED
    BY <1>1, <1>2, <1>3, <1>4, StudiesHold DEF TablesInv

(* create_study.                                                           *)
LEMMA InsertStudyKeeps ==
    ASSUME StudyInv, NEW w \in Workers, InsertStudy(w)
    PROVE  StudyInv' /\ RecordsStand
<1> DEFINE r == req[w]
           row == [code |-> r.code, author |-> r.user, status |-> "draft",
                   approver |-> NoUser, text |-> "first"]
<1>1. CASE Refuse(w, "server_error")
    BY <1>1, RefuseKeeps
<1>2. CASE /\ studies' = Append(studies, row) /\ Commit(w)
           /\ UNCHANGED <<datasets, records>>
  <2>1. r \in Requests /\ r.op = "create_study" /\ pc[w] # "idle"
    BY DEF InsertStudy, StudyInv, WorkerInv, Placed
  <2>2. row \in StudyRow /\ row.author # NoUser
    BY <2>1, RequestsAssumption DEF StudyRow, Names, People, StudyStatus
  <2>3. studies \in Seq(StudyRow)
    BY DEF StudyInv, RowsTyped
  <2>4. row.status = "draft" /\ row.approver = NoUser
    OBVIOUS
  <2> HIDE DEF row
  <2>5. /\ studies' \in Seq(StudyRow)
        /\ \A i \in DOMAIN studies : i \in DOMAIN studies' /\ studies'[i] = studies[i]
        /\ \A i \in DOMAIN studies' : i \in DOMAIN studies \/ studies'[i] = row
    BY <1>2, <2>2, <2>3
  <2>6. \A i \in DOMAIN studies :
            /\ studies[i].author # NoUser
            /\ studies[i].status \in {"completed", "under_review", "approved", "rejected"}
                   => HasRecord(i)
            /\ studies[i].approver # NoUser =>
                   studies[i].approver \in Approvers \ {studies[i].author}
    BY DEF StudyInv, TablesInv, ApprovalGrounded, HasRecord
  <2>7. \A i \in DOMAIN studies' :
            /\ studies'[i].author # NoUser
            /\ studies'[i].status \in {"completed", "under_review", "approved", "rejected"}
                   => HasRecord(i)
            /\ studies'[i].approver # NoUser =>
                   studies'[i].approver \in Approvers \ {studies'[i].author}
    BY <2>2, <2>4, <2>5, <2>6
  <2>8. TablesGrow /\ RowsTyped' /\ TablesInv'
    BY <1>2, <2>5, <2>7, StudiesChange DEF Commit
  <2>9. QED
    BY <1>2, <2>1, <2>8, CommitKeeps
<1>3. QED
    BY <1>1, <1>2 DEF InsertStudy

(* What a patch and a transition leave of the row, and what they make it.  *)
LEMMA UpdatedRow ==
    ASSUME NEW row \in StudyRow, NEW r \in Requests,
           r.op \in StudyOps \ {"create_dataset"},
           NEW new, new = IF r.op = "patch" THEN [row EXCEPT !.text = r.text]
                          ELSE Moved(row, r.op, r.user)
    PROVE  /\ new \in StudyRow /\ new.author = row.author
           /\ new.approver = IF r.op = "approve" THEN r.user ELSE row.approver
           /\ new.status \in {"completed", "under_review", "approved", "rejected"} =>
                  \/ r.op = "patch" /\ new.status = row.status
                  \/ r.op \in {"complete", "submit", "approve", "reject"}
<1>1. CASE r.op = "patch"
  <2>1. r.text \in Names
    BY DEF Names
  <2>2. QED
    BY <1>1, <2>1 DEF StudyRow
<1>2. CASE r.op = "approve"
  <2>1. r.user \in People
    BY DEF People
  <2>2. new = [row EXCEPT !.status = "approved", !.approver = r.user]
    BY <1>2 DEF Moved
  <2>3. QED
    BY <1>2, <2>1, <2>2 DEF StudyRow, StudyStatus
<1>3. CASE r.op \in {"complete", "submit", "reject", "archive"}
  <2>1. new = [row EXCEPT !.status = TargetStatus[r.op]]
    BY <1>3 DEF Moved
  <2>2. /\ TargetStatus[r.op] \in StudyStatus
        /\ r.op = "archive" => TargetStatus[r.op] = "archived"
    BY <1>3 DEF TargetStatus, StudyStatus
  <2>3. QED
    BY <1>3, <2>1, <2>2 DEF StudyRow
<1>4. QED
    BY <1>1, <1>2, <1>3 DEF StudyOps, TargetStatus

(* The UPDATE of a study, whose author is still the one that was read.     *)
LEMMA UpdateStudyKeeps ==
    ASSUME StudyInv, NEW w \in Workers, UpdateStudy(w)
    PROVE  StudyInv' /\ RecordsStand
<1> DEFINE r == req[w]
           s == ctx[w].study
           new == IF r.op = "patch" THEN [studies[s] EXCEPT !.text = r.text]
                  ELSE Moved(studies[s], r.op, r.user)
<1>1. /\ r \in Requests /\ r.op \in StudyOps \ {"create_dataset"} /\ pc[w] = "change"
      /\ s \in DOMAIN studies /\ studies \in Seq(StudyRow) /\ MoveReady(w)
    BY DEF UpdateStudy, StudyInv, WorkerInv, Placed, RowsKnown, RowsTyped
<1>2. studies' = [studies EXCEPT ![s] = new] /\ Commit(w) /\ UNCHANGED <<datasets, records>>
    BY DEF UpdateStudy
<1>3. studies[s] \in StudyRow
    BY <1>1
<1>4. /\ new \in StudyRow /\ new.author = studies[s].author
      /\ new.approver = IF r.op = "approve" THEN r.user ELSE studies[s].approver
      /\ new.status \in {"completed", "under_review", "approved", "rejected"} =>
             \/ r.op = "patch" /\ new.status = studies[s].status
             \/ r.op \in {"complete", "submit", "approve", "reject"}
    BY <1>1, <1>3, UpdatedRow
<1> HIDE DEF new
<1>5. /\ studies' \in Seq(StudyRow) /\ DOMAIN studies' = DOMAIN studies
      /\ \A i \in DOMAIN studies : studies'[i] = IF i = s THEN new ELSE studies[i]
    BY <1>1, <1>2, <1>4
<1>6. \A i \in DOMAIN studies :
          /\ studies[i].author # NoUser
          /\ studies[i].status \in {"completed", "under_review", "approved", "rejected"}
                 => HasRecord(i)
          /\ studies[i].approver # NoUser =>
                 studies[i].approver \in Approvers \ {studies[i].author}
    BY DEF StudyInv, TablesInv, ApprovalGrounded, HasRecord
<1>7. /\ r.op \in {"complete", "submit", "approve", "reject"} => HasRecord(s)
      /\ r.op = "approve" => r.user \in Approvers \ {studies[s].author} /\ r.user # NoUser
    BY <1>1, ApproversAssumption DEF MoveReady
<1>8. TablesGrow /\ RowsTyped' /\ TablesInv'
  <2>1. \A i \in DOMAIN studies :
            /\ i \in DOMAIN studies' /\ studies'[i].author = studies[i].author
            /\ studies[i].approver # NoUser => studies'[i].approver # NoUser
    BY <1>4, <1>5, <1>7
  <2>2. \A i \in DOMAIN studies' :
            /\ studies'[i].author # NoUser
            /\ studies'[i].status \in {"completed", "under_review", "approved", "rejected"}
                   => HasRecord(i)
            /\ studies'[i].approver # NoUser =>
                   studies'[i].approver \in Approvers \ {studies'[i].author}
    BY <1>1, <1>4, <1>5, <1>6, <1>7
  <2>3. QED
    BY <1>2, <1>5, <2>1, <2>2, StudiesChange DEF Commit
<1>9. r.op = "approve" => s \in DOMAIN studies' /\ studies'[s].approver # NoUser
    BY <1>1, <1>4, <1>5, <1>7
<1>10. QED
    BY <1>1, <1>2, <1>8, <1>9, CommitKeeps

(* Steps that leave the measurements as they are.                          *)
LEMMA SameRecordsHold ==
    ASSUME StudyInv, records' = records,
           \A i \in DOMAIN datasets : i \in DOMAIN datasets'
    PROVE  /\ \A i \in DOMAIN records' : records'[i].dataset \in DOMAIN datasets'
           /\ CorrectionsSupersede' /\ NumbersUnique'
           /\ (\E Numbers : records \in Seq(RecordRow(Numbers)))'
BY DEF StudyInv, TablesInv, RowsTyped, CorrectionsSupersede, NumbersUnique

(* create_dataset, which makes a draft collect data; its status was read   *)
(* before, and may be another by now.                                      *)
LEMMA InsertDatasetKeeps ==
    ASSUME StudyInv, NEW w \in Workers, InsertDataset(w)
    PROVE  StudyInv' /\ RecordsStand
<1> DEFINE r == req[w]
           s == ctx[w].study
           row == [study |-> s, code |-> r.code, locked |-> FALSE, file |-> NoFile]
<1>1. CASE Refuse(w, "server_error")
    BY <1>1, RefuseKeeps
<1>2. CASE /\ datasets' = Append(datasets, row)
           /\ studies' = IF ctx[w].seen = "draft"
                         THEN [studies EXCEPT ![s].status = "data_collection"]
                         ELSE studies
           /\ Commit(w) /\ UNCHANGED records
  <2>1. /\ r \in Requests /\ r.op = "create_dataset" /\ pc[w] # "idle"
        /\ s \in DOMAIN studies /\ studies \in Seq(StudyRow) /\ datasets \in Seq(DatasetRow)
    BY DEF InsertDataset, StudyInv, WorkerInv, Placed, RowsKnown, RowsTyped, StudyOps
  <2>2. row \in DatasetRow /\ row.study = s
    BY <2>1 DEF DatasetRow, Names, FileNames
  <2> HIDE DEF row
  <2>3. /\ datasets' \in Seq(DatasetRow)
        /\ \A i \in DOMAIN datasets : i \in DOMAIN datasets' /\ datasets'[i] = datasets[i]
        /\ \A i \in DOMAIN datasets' : i \in DOMAIN datasets \/ datasets'[i] = row
    BY <1>2, <2>1, <2>2
  <2>4. /\ studies' \in Seq(StudyRow) /\ DOMAIN studies' = DOMAIN studies
        /\ \A i \in DOMAIN studies :
              /\ studies'[i].author = studies[i].author
              /\ studies'[i].approver = studies[i].approver
              /\ studies'[i].status \in {studies[i].status, "data_collection"}
    <3> DEFINE new == [studies[s] EXCEPT !.status = "data_collection"]
    <3>1. studies[s] \in StudyRow
      BY <2>1
    <3>2. /\ new \in StudyRow /\ new.author = studies[s].author
          /\ new.approver = studies[s].approver /\ new.status = "data_collection"
      BY <3>1 DEF StudyRow, StudyStatus
    <3>3. studies' = studies \/ studies' = [studies EXCEPT ![s] = new]
      BY <1>2
    <3> HIDE DEF new
    <3>4. QED
      BY <2>1, <3>2, <3>3
  <2>5. TablesGrow
    BY <1>2, <2>3, <2>4 DEF TablesGrow, RecordsStand
  <2>6. audited' = audited
    BY <1>2 DEF Commit
  <2>7. \A i \in DOMAIN studies :
            /\ studies[i].author # NoUser
            /\ studies[i].status \in {"completed", "under_review", "approved", "rejected"}
                   => HasRecord(i)
            /\ studies[i].approver # NoUser =>
                   studies[i].approver \in Approvers \ {studies[i].author}
    BY DEF StudyInv, TablesInv, ApprovalGrounded, HasRecord
  <2>8. \A i \in DOMAIN studies' :
            /\ studies'[i].author # NoUser
            /\ studies'[i].status \in {"completed", "under_review", "approved", "rejected"}
                   => HasRecord(i)
            /\ studies'[i].approver # NoUser =>
                   studies'[i].approver \in Approvers \ {studies'[i].author}
    BY <2>4, <2>7
  <2>9. /\ \A i \in DOMAIN studies' : studies'[i].author # NoUser
        /\ ApprovalGrounded' /\ ApprovalsAudited'
    BY <2>5, <2>6, <2>8, StudiesHold
  <2>10. \A i \in DOMAIN datasets' : datasets'[i].study \in DOMAIN studies'
    BY <2>1, <2>2, <2>3, <2>4 DEF StudyInv, TablesInv
  <2>11. RowsTyped' /\ TablesInv'
    BY <1>2, <2>3, <2>4, <2>9, <2>10, SameRecordsHold DEF RowsTyped, TablesInv
  <2>12. QED
    BY <1>2, <2>1, <2>5, <2>11, CommitKeeps
<1>3. QED
    BY <1>1, <1>2 DEF InsertDataset

(* Steps that leave the studies as they are, and every data set in its     *)
(* study.                                                                  *)
LEMMA SameStudies ==
    ASSUME StudyInv, studies' = studies, audited' = audited,
           datasets' \in Seq(DatasetRow), DOMAIN datasets' = DOMAIN datasets,
           \A i \in DOMAIN datasets : datasets'[i].study = datasets[i].study,
           \A i \in DOMAIN records : records'[i].dataset = records[i].dataset,
           RecordsStand,
           \E Numbers : records' \in Seq(RecordRow(Numbers)),
           \A i \in DOMAIN records' : records'[i].dataset \in DOMAIN datasets,
           CorrectionsSupersede', NumbersUnique'
    PROVE  TablesGrow /\ RowsTyped' /\ TablesInv'
<1>1. TablesGrow
    BY DEF TablesGrow
<1>2. RowsTyped'
    BY DEF StudyInv, RowsTyped
<1>3. \A i \in DOMAIN datasets' : datasets'[i].study \in DOMAIN studies'
    BY DEF StudyInv, TablesInv
<1>4. QED
    BY <1>1, <1>2, <1>3, SameStudiesHold DEF TablesInv

(* lock_dataset and patch_dataset.                                         *)
LEMMA UpdateDatasetKeeps ==
    ASSUME StudyInv, NEW w \in Workers, UpdateDataset(w)
    PROVE  StudyInv' /\ RecordsStand
<1> DEFINE d == ctx[w].dataset
<1>1. /\ req[w].op \in {"lock", "patch_dataset"} /\ pc[w] = "change"
      /\ d \in DOMAIN datasets /\ datasets \in Seq(DatasetRow)
    BY DEF UpdateDataset, StudyInv, WorkerInv, RowsKnown, RowsTyped, DatasetOps
<1>2. /\ datasets' = datasets \/ datasets' = [datasets EXCEPT ![d].locked = TRUE]
      /\ Commit(w) /\ studies' = studies /\ records' = records /\ audited' = audited
    BY DEF UpdateDataset, Commit
<1>3. /\ datasets' \in Seq(DatasetRow) /\ DOMAIN datasets' = DOMAIN datasets
      /\ \A i \in DOMAIN datasets : datasets'[i].study = datasets[i].study
  <2> DEFINE new == [datasets[d] EXCEPT !.locked = TRUE]
  <2>1. datasets[d] \in DatasetRow
    BY <1>1
  <2>2. new \in DatasetRow /\ new.study = datasets[d].study
    BY <2>1 DEF DatasetRow
  <2>3. datasets' = datasets \/ datasets' = [datasets EXCEPT ![d] = new]
    BY <1>2
  <2> HIDE DEF new
  <2>4. QED
    BY <1>1, <2>2, <2>3
<1>4. /\ CorrectionsSupersede' /\ NumbersUnique' /\ RecordsStand
      /\ \E Numbers : records' \in Seq(RecordRow(Numbers))
      /\ \A i \in DOMAIN records' : records'[i].dataset \in DOMAIN datasets
    BY <1>2 DEF StudyInv, TablesInv, RowsTyped, CorrectionsSupersede, NumbersUnique, RecordsStand
<1>5. TablesGrow /\ RowsTyped' /\ TablesInv'
    BY <1>2, <1>3, <1>4, SameStudies
<1>6. QED
    BY <1>1, <1>2, <1>5, CommitKeeps

(* A measurement that stops counting.                                      *)
LEMMA StoppedRow ==
    ASSUME NEW Numbers, NEW row \in RecordRow(Numbers)
    PROVE  LET new == [row EXCEPT !.valid = FALSE]
           IN  /\ new \in RecordRow(Numbers) /\ new.valid = FALSE
               /\ new.dataset = row.dataset /\ new.number = row.number
               /\ new.corrects = row.corrects
BY DEF RecordRow

(* Rows that are added to one data set, with numbers of their own, and the *)
(* records they correct.                                                   *)
LEMMA RecordsGrow ==
    ASSUME StudyInv, NEW d \in DOMAIN datasets, RecordsStand,
           \A i \in DOMAIN records' \ DOMAIN records :
              /\ records'[i].dataset = d
              /\ \A j \in DOMAIN records' :
                    j # i /\ records'[j].dataset = d => records'[j].number # records'[i].number
              /\ records'[i].corrects # 0 =>
                    /\ records'[i].corrects \in DOMAIN records /\ records'[i].corrects < i
                    /\ records'[records'[i].corrects].dataset = d
                    /\ ~records'[records'[i].corrects].valid
    PROVE  /\ \A i \in DOMAIN records : records'[i].dataset = records[i].dataset
           /\ \A i \in DOMAIN records' : records'[i].dataset \in DOMAIN datasets
           /\ CorrectionsSupersede' /\ NumbersUnique'
<1>1. PICK Numbers : records \in Seq(RecordRow(Numbers))
    BY DEF StudyInv, RowsTyped
<1>2. \A i \in DOMAIN records : records[i] \in RecordRow(Numbers) /\ i \in Nat
    BY <1>1
<1>3. \A i \in DOMAIN records :
          /\ records'[i].dataset = records[i].dataset
          /\ records'[i].number = records[i].number
          /\ records'[i].corrects = records[i].corrects
          /\ ~records[i].valid => ~records'[i].valid
  <2> TAKE i \in DOMAIN records
  <2> DEFINE new == [records[i] EXCEPT !.valid = FALSE]
  <2>1. /\ new.dataset = records[i].dataset /\ new.number = records[i].number
        /\ new.corrects = records[i].corrects /\ new.valid = FALSE
    BY <1>2, StoppedRow
  <2>2. records'[i] = records[i] \/ records'[i] = new
    BY DEF RecordsStand
  <2> HIDE DEF new
  <2>3. QED
    BY <2>1, <2>2
<1>4. \A i \in DOMAIN records' : records'[i].dataset \in DOMAIN datasets
    BY <1>3 DEF StudyInv, TablesInv
<1>5. CorrectionsSupersede'
  <2> SUFFICES ASSUME NEW i \in DOMAIN records', records'[i].corrects # 0
               PROVE  /\ records'[i].corrects < i
                      /\ records'[records'[i].corrects].dataset = records'[i].dataset
                      /\ ~records'[records'[i].corrects].valid
    BY DEF CorrectionsSupersede
  <2>1. CASE i \in DOMAIN records
    <3>1. /\ records[i].corrects # 0 /\ records[i].corrects < i
          /\ records[records[i].corrects].dataset = records[i].dataset
          /\ ~records[records[i].corrects].valid
      BY <1>3, <2>1 DEF StudyInv, TablesInv, CorrectionsSupersede
    <3>2. records[i].corrects \in Nat
      BY <1>2, <2>1 DEF RecordRow
    <3>3. records[i].corrects \in DOMAIN records
      BY <1>1, <2>1, <3>1, <3>2
    <3>4. QED
      BY <1>3, <2>1, <3>1, <3>3
  <2>2. CASE i \notin DOMAIN records
    BY <2>2
  <2>3. QED
    BY <2>1, <2>2
<1>6. NumbersUnique'
  <2> SUFFICES ASSUME NEW i \in DOMAIN records', NEW j \in DOMAIN records',
                      records'[i].dataset = records'[j].dataset,
                      records'[i].number = records'[j].number
               PROVE  i = j
    BY DEF NumbersUnique
  <2>1. CASE i \in DOMAIN records /\ j \in DOMAIN records
    BY <1>3, <2>1 DEF StudyInv, TablesInv, NumbersUnique
  <2>2. CASE i \notin DOMAIN records
    BY <2>2
  <2>3. CASE j \notin DOMAIN records
    BY <2>3
  <2>4. QED
    BY <2>1, <2>2, <2>3
<1>7. QED
    BY <1>3, <1>4, <1>5, <1>6

(* invalidate_record.                                                      *)
LEMMA InvalidateRecordKeeps ==
    ASSUME StudyInv, NEW w \in Workers, InvalidateRecord(w)
    PROVE  StudyInv' /\ RecordsStand
<1> DEFINE n == ctx[w].record
           new == [records[n] EXCEPT !.valid = FALSE]
<1>1. /\ req[w].op = "invalidate" /\ pc[w] = "change" /\ n \in DOMAIN records
      /\ ctx[w].dataset \in DOMAIN datasets /\ datasets \in Seq(DatasetRow)
    BY DEF InvalidateRecord, StudyInv, WorkerInv, RowsKnown, RowsTyped
<1>2. PICK Numbers : records \in Seq(RecordRow(Numbers))
    BY DEF StudyInv, RowsTyped
<1>3. new \in RecordRow(Numbers)
    BY <1>1, <1>2, StoppedRow
<1>4. /\ records' = [records EXCEPT ![n] = new]
      /\ Commit(w) /\ studies' = studies /\ datasets' = datasets /\ audited' = audited
    BY DEF InvalidateRecord, Commit
<1>5. RecordsStand
  <2> HIDE DEF new
  <2>1. \A i \in DOMAIN records :
            i \in DOMAIN records' /\ records'[i] = IF i = n THEN new ELSE records[i]
    BY <1>1, <1>4
  <2>2. QED
    BY <2>1 DEF RecordsStand, new
<1> HIDE DEF new
<1>6. records' \in Seq(RecordRow(Numbers)) /\ DOMAIN records' = DOMAIN records
    BY <1>1, <1>2, <1>3, <1>4
<1>7. /\ \A i \in DOMAIN records : records'[i].dataset = records[i].dataset
      /\ \A i \in DOMAIN records' : records'[i].dataset \in DOMAIN datasets
      /\ CorrectionsSupersede' /\ NumbersUnique'
    BY <1>1, <1>5, <1>6, RecordsGrow
<1>8. TablesGrow /\ RowsTyped' /\ TablesInv'
    BY <1>1, <1>4, <1>5, <1>6, <1>7, SameStudies
<1>9. QED
    BY <1>1, <1>4, <1>8, CommitKeeps

(* create_record, with the record it corrects.                             *)
LEMMA InsertRecordKeeps ==
    ASSUME StudyInv, NEW w \in Workers, InsertRecord(w)
    PROVE  StudyInv' /\ RecordsStand
<1> DEFINE r == req[w]
           d == ctx[w].dataset
           row == NewRecord(d, ctx[w].number, r.corrects, NoFile)
           marked == [i \in DOMAIN records |->
                         IF i = r.corrects THEN [records[i] EXCEPT !.valid = FALSE]
                         ELSE records[i]]
<1>1. CASE Refuse(w, "server_error")
    BY <1>1, RefuseKeeps
<1>2. CASE /\ ~NumberUsed(records, d, ctx[w].number)
           /\ records' = Append(marked, row)
           /\ Commit(w) /\ UNCHANGED <<studies, datasets>>
  <2>1. /\ r \in Requests /\ r.op = "create_record" /\ pc[w] = "change"
        /\ d \in DOMAIN datasets /\ datasets \in Seq(DatasetRow) /\ r.corrects \in Nat
        /\ r.corrects # 0 => r.corrects \in Of(records, d)
    BY RequestsAssumption
       DEF InsertRecord, StudyInv, WorkerInv, Placed, RowsKnown, RowsTyped, DatasetOps
  <2>2. PICK Old : records \in Seq(RecordRow(Old))
    BY DEF StudyInv, RowsTyped
  <2> DEFINE Numbers == Old \cup {ctx[w].number}
  <2>3. \A i \in DOMAIN records : records[i] \in RecordRow(Numbers)
    <3>1. RecordRow(Old) \subseteq RecordRow(Numbers)
      BY DEF RecordRow
    <3>2. \A i \in DOMAIN records : records[i] \in RecordRow(Old)
      BY <2>2
    <3>3. QED
      BY <3>1, <3>2
  <2>4. row \in RecordRow(Numbers) /\ row.dataset = d /\ row.number = ctx[w].number
        /\ row.corrects = r.corrects
    BY <2>1 DEF NewRecord, RecordRow, FileNames
  <2> HIDE DEF Numbers, row
  <2>5. \A i \in DOMAIN records :
            /\ marked[i] \in RecordRow(Numbers)
            /\ marked[i].dataset = records[i].dataset
            /\ marked[i].number = records[i].number
            /\ marked[i] \in {records[i], [records[i] EXCEPT !.valid = FALSE]}
            /\ i = r.corrects => ~marked[i].valid
    BY <2>3, StoppedRow
  <2>6. marked \in Seq(RecordRow(Numbers)) /\ DOMAIN marked = DOMAIN records
    <3>1. Len(records) \in Nat /\ DOMAIN records = 1 .. Len(records)
      BY <2>2
    <3>2. marked = [i \in 1 .. Len(records) |-> marked[i]]
      BY <3>1
    <3> HIDE DEF marked
    <3>3. \A i \in 1 .. Len(records) : marked[i] \in RecordRow(Numbers)
      BY <2>5, <3>1
    <3>4. QED
      BY <3>1, <3>2, <3>3
  <2> HIDE DEF marked
  <2>7. /\ records' \in Seq(RecordRow(Numbers)) /\ Len(records) \in Nat
        /\ DOMAIN records = 1 .. Len(records) /\ DOMAIN records' = 1 .. Len(records) + 1
        /\ \A i \in DOMAIN records : records'[i] = marked[i]
        /\ records'[Len(records) + 1] = row
    BY <1>2, <2>2, <2>4, <2>6
  <2>8. RecordsStand
    BY <2>5, <2>7 DEF RecordsStand
  <2>9. \A j \in DOMAIN records : records[j].dataset = d => records[j].number # ctx[w].number
    BY <1>2 DEF NumberUsed, Of
  <2>10. r.corrects # 0 =>
             /\ r.corrects \in DOMAIN records /\ r.corrects < Len(records) + 1
             /\ records'[r.corrects].dataset = d /\ ~records'[r.corrects].valid
    <3>1. r.corrects # 0 => r.corrects \in DOMAIN records /\ records[r.corrects].dataset = d
      BY <2>1 DEF Of
    <3>2. r.corrects \in DOMAIN records =>
              /\ r.corrects < Len(records) + 1
              /\ records'[r.corrects] = marked[r.corrects]
      BY <2>7
    <3>3. r.corrects \in DOMAIN records =>
              /\ marked[r.corrects].dataset = records[r.corrects].dataset
              /\ ~marked[r.corrects].valid
      BY <2>5
    <3>4. QED
      BY <3>1, <3>2, <3>3
  <2>11. \A i \in DOMAIN records' \ DOMAIN records :
             /\ records'[i].dataset = d
             /\ \A j \in DOMAIN records' :
                   j # i /\ records'[j].dataset = d => records'[j].number # records'[i].number
             /\ records'[i].corrects # 0 =>
                   /\ records'[i].corrects \in DOMAIN records /\ records'[i].corrects < i
                   /\ records'[records'[i].corrects].dataset = d
                   /\ ~records'[records'[i].corrects].valid
    BY <2>4, <2>5, <2>7, <2>9, <2>10
  <2>12. /\ \A i \in DOMAIN records : records'[i].dataset = records[i].dataset
         /\ \A i \in DOMAIN records' : records'[i].dataset \in DOMAIN datasets
         /\ CorrectionsSupersede' /\ NumbersUnique'
    BY <2>1, <2>8, <2>11, RecordsGrow
  <2>13. TablesGrow /\ RowsTyped' /\ TablesInv'
    BY <1>2, <2>1, <2>7, <2>8, <2>12, SameStudies DEF Commit
  <2>14. QED
    BY <1>2, <2>1, <2>13, CommitKeeps
<1>3. QED
    BY <1>1, <1>2 DEF InsertRecord

(* import_csv_records: all rows, each with a number of its own.            *)
LEMMA ImportRowsKeeps ==
    ASSUME StudyInv, NEW w \in Workers, ImportRows(w)
    PROVE  StudyInv' /\ RecordsStand
<1> DEFINE r == req[w]
           d == ctx[w].dataset
           rows == r.file.rows
           number == RowNumbers(records, d, rows, ctx[w].number)
           row(i) == NewRecord(d, number[i], 0, r.file.name)
           added == [i \in 1 .. Len(rows) |-> row(i)]
<1>1. CASE Refuse(w, "server_error") \/ Refuse(w, "csv_error")
    BY <1>1, RefuseKeeps
<1>2. CASE /\ \A i \in 1 .. Len(rows) :
                 /\ ~NumberUsed(records, d, number[i])
                 /\ \A j \in 1 .. i - 1 : number[j] # number[i]
           /\ records' = records \o added
           /\ datasets' = [datasets EXCEPT ![d].file = r.file.name]
           /\ Commit(w) /\ UNCHANGED studies
  <2>1. /\ r \in Requests /\ r.op = "import" /\ pc[w] = "change"
        /\ d \in DOMAIN datasets /\ datasets \in Seq(DatasetRow) /\ rows \in Seq(Int)
    BY RequestsAssumption
       DEF ImportRows, StudyInv, WorkerInv, Placed, RowsKnown, RowsTyped, DatasetOps
  <2>2. PICK Old : records \in Seq(RecordRow(Old))
    BY DEF StudyInv, RowsTyped
  <2> DEFINE n == Len(rows)
             Numbers == Old \cup {number[i] : i \in 1 .. n}
  <2> HIDE DEF number
  <2>3. n \in Nat
    BY <2>1
  <2>4. r.file.name \in FileNames /\ d \in Nat
    BY <2>1 DEF FileNames
  <2>5. \A i \in 1 .. n : number[i] \in Numbers
    OBVIOUS
  <2>6. records \in Seq(RecordRow(Numbers))
    <3>1. RecordRow(Old) \subseteq RecordRow(Numbers)
      BY DEF RecordRow
    <3>2. QED
      BY <2>2, <3>1, SeqMonotonic
  <2> HIDE DEF Numbers
  <2>7. \A i \in 1 .. n : /\ row(i) \in RecordRow(Numbers) /\ row(i).dataset = d
                          /\ row(i).number = number[i] /\ row(i).corrects = 0
    BY <2>4, <2>5 DEF NewRecord, RecordRow
  <2> HIDE DEF row
  <2>8. /\ added \in Seq(RecordRow(Numbers)) /\ Len(added) = n
        /\ \A i \in 1 .. n : added[i] = row(i)
    BY <2>3, <2>7
  <2> HIDE DEF added, n
  <2>9. /\ records' \in Seq(RecordRow(Numbers)) /\ Len(records) \in Nat
        /\ DOMAIN records = 1 .. Len(records) /\ DOMAIN records' = 1 .. Len(records) + n
        /\ \A i \in DOMAIN records : records'[i] = records[i]
        /\ \A i \in DOMAIN records' \ DOMAIN records :
              i - Len(records) \in 1 .. n /\ records'[i] = row(i - Len(records))
    BY <1>2, <2>3, <2>6, <2>8, ConcatProperties
  <2>10. RecordsStand
    <3>1. \A i \in DOMAIN records : i \in DOMAIN records' /\ records'[i] = records[i]
      BY <2>3, <2>9
    <3>2. QED
      BY <3>1 DEF RecordsStand
  <2>11. \A i \in DOMAIN records' \ DOMAIN records :
             /\ records'[i].dataset = d /\ records'[i].corrects = 0
             /\ \A j \in DOMAIN records' :
                   j # i /\ records'[j].dataset = d => records'[j].number # records'[i].number
    <3> SUFFICES ASSUME NEW i \in DOMAIN records' \ DOMAIN records
                 PROVE  /\ records'[i].dataset = d /\ records'[i].corrects = 0
                        /\ \A j \in DOMAIN records' : j # i /\ records'[j].dataset = d =>
                               records'[j].number # records'[i].number
      OBVIOUS
    <3> DEFINE k == i - Len(records)
    <3>1. /\ k \in 1 .. n /\ records'[i].dataset = d /\ records'[i].corrects = 0
          /\ records'[i].number = number[k] /\ ~NumberUsed(records, d, number[k])
      BY <1>2, <2>7, <2>9 DEF n
    <3>2. \A j \in DOMAIN records : records[j].dataset = d => records[j].number # number[k]
      BY <3>1 DEF NumberUsed, Of
    <3>3. ASSUME NEW j \in DOMAIN records' \ DOMAIN records, j # i
          PROVE  records'[j].number # records'[i].number
      <4> DEFINE l == j - Len(records)
      <4>1. l \in 1 .. n /\ records'[j].number = number[l] /\ l # k
        BY <2>3, <2>7, <2>9, <3>3
      <4>2. l \in 1 .. k - 1 \/ k \in 1 .. l - 1
        BY <2>3, <3>1, <4>1
      <4>3. number[l] # number[k]
        BY <1>2, <3>1, <4>1, <4>2 DEF n
      <4>4. QED
        BY <3>1, <4>1, <4>3
    <3>4. QED
      BY <2>9, <3>1, <3>2, <3>3
  <2>12. /\ \A i \in DOMAIN records : records'[i].dataset = records[i].dataset
         /\ \A i \in DOMAIN records' : records'[i].dataset \in DOMAIN datasets
         /\ CorrectionsSupersede' /\ NumbersUnique'
    BY <2>1, <2>10, <2>11, RecordsGrow
  <2>13. /\ datasets' \in Seq(DatasetRow) /\ DOMAIN datasets' = DOMAIN datasets
         /\ \A i \in DOMAIN datasets : datasets'[i].study = datasets[i].study
    <3> DEFINE new == [datasets[d] EXCEPT !.file = r.file.name]
    <3>1. datasets[d] \in DatasetRow
      BY <2>1
    <3>2. new \in DatasetRow /\ new.study = datasets[d].study
      BY <2>4, <3>1 DEF DatasetRow
    <3>3. datasets' = [datasets EXCEPT ![d] = new]
      BY <1>2
    <3> HIDE DEF new
    <3>4. QED
      BY <2>1, <3>2, <3>3
  <2>14. TablesGrow /\ RowsTyped' /\ TablesInv'
    BY <1>2, <2>9, <2>10, <2>12, <2>13, SameStudies DEF Commit
  <2>15. QED
    BY <1>2, <2>1, <2>14, CommitKeeps
<1>3. QED
    BY <1>1, <1>2 DEF ImportRows, Imported

-----------------------------------------------------------------------------
(* Every step.                                                             *)

(* The server starts on empty tables.                                      *)
LEMMA StudyInit == Init => StudyInv
<1> SUFFICES ASSUME Init PROVE StudyInv
    OBVIOUS
<1>1. RowsTyped
    BY DEF Init, RowsTyped
<1>2. LocalsTyped
    BY DEF Init, LocalsTyped, Points, NoContext
<1>3. TablesInv
    BY DEF Init, TablesInv, CorrectionsSupersede, NumbersUnique, ApprovalGrounded, ApprovalsAudited
<1>4. \A w \in Workers : WorkerInv(w)
    BY DEF Init, WorkerInv, Placed, RowsKnown, MoveReady
<1>5. QED
    BY <1>1, <1>2, <1>3, <1>4 DEF StudyInv

(* A step of something else.                                               *)
LEMMA StutterKeeps ==
    ASSUME StudyInv, UNCHANGED vars
    PROVE  StudyInv' /\ RecordsStand
<1>1. UNCHANGED <<tables, audited>> /\ pc' = pc /\ req' = req /\ ctx' = ctx
    BY DEF vars
<1>2. /\ LocalsTyped'
      /\ \A x \in Workers :
            WorkerInv(x) /\ pc'[x] = pc[x] /\ req'[x] = req[x] /\ ctx'[x] = ctx[x]
    BY <1>1 DEF StudyInv, LocalsTyped
<1>3. RowsTyped' /\ TablesInv' /\ TablesGrow
    BY <1>1, SameTables
<1>4. QED
    BY <1>2, <1>3, OthersKeep DEF StudyInv, TablesGrow

(* Every action keeps the invariant and the measurements.                  *)
LEMMA StudyNext == StudyInv /\ [Next]_vars => StudyInv' /\ RecordsStand
<1> SUFFICES ASSUME StudyInv, [Next]_vars PROVE StudyInv' /\ RecordsStand
    OBVIOUS
<1>1. CASE UNCHANGED vars
    BY <1>1, StutterKeeps
<1>2. CASE Crash
    BY <1>2, CrashKeeps
<1>3. ASSUME NEW w \in Workers, NEW r \in Requests, Receive(w, r)
      PROVE  StudyInv' /\ RecordsStand
    BY <1>3, ReceiveKeeps
<1>4. ASSUME NEW w \in Workers, Step(w)
      PROVE  StudyInv' /\ RecordsStand
    BY <1>4, ReadRecordKeeps, ReadDatasetKeeps, ReadStudyKeeps, FindCodeKeeps,
       CountRecordsKeeps, PickNumberKeeps, InsertStudyKeeps, InsertDatasetKeeps,
       UpdateStudyKeeps, UpdateDatasetKeeps, InsertRecordKeeps, ImportRowsKeeps,
       InvalidateRecordKeeps, AuditKeeps DEF Step
<1>5. ASSUME NEW w \in Workers, Busy(w)
      PROVE  StudyInv' /\ RecordsStand
    BY <1>5, BusyKeeps
<1>6. QED
    BY <1>1, <1>2, <1>3, <1>4, <1>5 DEF Next

(* The inductive invariant of service.py: what a request decided on stays  *)
(* true of the rows until it has changed them.                             *)
THEOREM StudyInvariant == Spec => []StudyInv
<1>1. StudyInv /\ [Next]_vars => StudyInv'
    BY StudyNext
<1>2. QED
    BY <1>1, StudyInit, PTL DEF Spec

-----------------------------------------------------------------------------
(* What follows.                                                           *)

(* The rows of the three tables belong together, a correction supersedes   *)
(* its record, and no number is given twice (create_record,                *)
(* import_csv_records).                                                    *)
THEOREM RowsInvariant == Spec => []RowsInv
<1>1. StudyInv => RowsInv
  <2> SUFFICES ASSUME StudyInv PROVE RowsInv
    OBVIOUS
  <2>1. \A i \in DOMAIN studies : studies[i].status \in StudyStatus
    <3>1. \A i \in DOMAIN studies : studies[i] \in StudyRow
      BY DEF StudyInv, RowsTyped
    <3>2. QED
      BY <3>1 DEF StudyRow
  <2>2. \A i \in DOMAIN datasets : datasets[i].locked \in BOOLEAN
    <3>1. \A i \in DOMAIN datasets : datasets[i] \in DatasetRow
      BY DEF StudyInv, RowsTyped
    <3>2. QED
      BY <3>1 DEF DatasetRow
  <2>3. \A i \in DOMAIN records : records[i].valid \in BOOLEAN
    <3>1. PICK Numbers : records \in Seq(RecordRow(Numbers))
      BY DEF StudyInv, RowsTyped
    <3>2. \A i \in DOMAIN records : records[i] \in RecordRow(Numbers)
      BY <3>1
    <3>3. QED
      BY <3>2 DEF RecordRow
  <2>4. TypeOK
    BY <2>1, <2>2, <2>3 DEF StudyInv, TablesInv, LocalsTyped, TypeOK
  <2>5. QED
    BY <2>4 DEF RowsInv, StudyInv, TablesInv
<1>2. QED
    BY <1>1, StudyInvariant, PTL

(* A study that is completed or further on has measurements, nobody        *)
(* approved a study of their own, and an approval that is audited was      *)
(* made, however requests overlap (complete_study, approve_study).         *)
THEOREM ApprovalsInvariant == Spec => []ApprovalsHold
<1>1. StudyInv => ApprovalsHold
    BY DEF StudyInv, TablesInv, ApprovalsHold, AuditedApprovals, ApprovalsAudited
<1>2. QED
    BY <1>1, StudyInvariant, PTL

-----------------------------------------------------------------------------
(* Whole files.                                                            *)

Imports == {r \in Requests : r.op = "import"}

RowsFrom(d, name) == {i \in Of(records, d) : records[i].file = name}

(* Of every file, a data set has all the rows some number of times.        *)
FilesWhole ==
    \A r \in Imports : \A d :
        \E k \in Nat : Cardinality(RowsFrom(d, r.file.name)) = k * Len(r.file.rows)

LEMMA MultipleHasNoRest ==
    ASSUME NEW n \in Nat \ {0}, NEW k \in Nat
    PROVE  (k * n) % n = 0
<1> DEFINE q == (k * n) \div n
           rest == (k * n) % n
<1>1. k * n \in Nat
    OBVIOUS
<1>2. q \in Int /\ rest \in 0 .. n - 1 /\ k * n = n * q + rest
    BY <1>1
<1> HIDE DEF q, rest
<1>3. rest = n * (k - q)
    BY <1>2
<1>4. k - q <= 0
  <2>1. SUFFICES ASSUME k - q >= 1 PROVE FALSE
      BY <1>2
  <2>2. n * (k - q) >= n
      BY <1>2, <2>1
  <2>3. QED
      BY <1>2, <1>3, <2>2
<1>5. k - q >= 0
  <2>1. SUFFICES ASSUME q - k >= 1 PROVE FALSE
      BY <1>2
  <2>2. n * (q - k) >= n
      BY <1>2, <2>1
  <2>3. n * (k - q) = -(n * (q - k))
      BY <1>2
  <2>4. QED
      BY <1>2, <1>3, <2>2, <2>3
<1>6. k - q = 0
    BY <1>2, <1>4, <1>5
<1>7. rest = 0
    BY <1>2, <1>3, <1>6
<1>8. QED
    BY <1>7 DEF rest

LEMMA OneMore ==
    ASSUME NEW n \in Nat, NEW k \in Nat
    PROVE  k * n + n = (k + 1) * n
OBVIOUS

(* What a step adds to the records: a file, or a row that is from none.    *)
LEMMA AddedRows ==
    ASSUME StudyInv, [Next]_vars
    PROVE  \/ \A i \in DOMAIN records' \ DOMAIN records : records'[i].file = NoFile
           \/ \E r \in Imports : \E d :
                 /\ Len(records') = Len(records) + Len(r.file.rows)
                 /\ \A i \in DOMAIN records' \ DOMAIN records :
                       records'[i].dataset = d /\ records'[i].file = r.file.name
<1>1. PICK Old : records \in Seq(RecordRow(Old))
    BY DEF StudyInv, RowsTyped
<1>2. CASE UNCHANGED records
    BY <1>2
<1>3. ASSUME NEW w \in Workers, InvalidateRecord(w)
      PROVE  DOMAIN records' = DOMAIN records
    BY <1>1, <1>3 DEF InvalidateRecord
<1>4. ASSUME NEW w \in Workers, InsertRecord(w), ~UNCHANGED records
      PROVE  \A i \in DOMAIN records' \ DOMAIN records : records'[i].file = NoFile
  <2> DEFINE c == req[w].corrects
             row == NewRecord(ctx[w].dataset, ctx[w].number, c, NoFile)
             marked == [i \in DOMAIN records |->
                           IF i = c THEN [records[i] EXCEPT !.valid = FALSE] ELSE records[i]]
  <2>1. records' = Append(marked, row)
      BY <1>4 DEF InsertRecord, Refuse, tables
  <2>2. row.file = NoFile
      BY DEF NewRecord
  <2>3. marked \in Seq(RecordRow(Old)) /\ DOMAIN marked = DOMAIN records
    <3>1. \A i \in DOMAIN records : marked[i] \in RecordRow(Old)
      BY <1>1, StoppedRow
    <3>2. Len(records) \in Nat /\ DOMAIN records = 1 .. Len(records)
      BY <1>1
    <3>3. marked = [i \in 1 .. Len(records) |-> marked[i]]
      BY <3>2
    <3> HIDE DEF marked
    <3>4. QED
      BY <3>1, <3>2, <3>3
  <2> HIDE DEF marked, row
  <2>4. /\ DOMAIN marked = 1 .. Len(marked) /\ Len(marked) \in Nat
        /\ DOMAIN records' = 1 .. Len(marked) + 1 /\ records'[Len(marked) + 1] = row
      BY <2>1, <2>3
  <2>5. QED
      BY <2>2, <2>3, <2>4
<1>5. ASSUME NEW w \in Workers, ImportRows(w), ~UNCHANGED records
      PROVE  \E r \in Imports : \E d :
                 /\ Len(records') = Len(records) + Len(r.file.rows)
                 /\ \A i \in DOMAIN records' \ DOMAIN records :
                       records'[i].dataset = d /\ records'[i].file = r.file.name
  <2> DEFINE r == req[w]
             d == ctx[w].dataset
             rows == r.file.rows
             number == RowNumbers(records, d, rows, ctx[w].number)
             row(i) == NewRecord(d, number[i], 0, r.file.name)
             added == [i \in 1 .. Len(rows) |-> row(i)]
  <2>1. records' = records \o added
      BY <1>5 DEF ImportRows, Imported, Refuse, tables
  <2>2. r \in Imports /\ rows \in Seq(Int)
      BY <1>5, RequestsAssumption DEF ImportRows, StudyInv, WorkerInv, Placed, Imports
  <2> DEFINE n == Len(rows)
  <2> HIDE DEF number
  <2>3. n \in Nat
      BY <2>2
  <2>4. \A i \in 1 .. n : row(i).dataset = d /\ row(i).file = r.file.name
      BY DEF NewRecord
  <2> HIDE DEF row
  <2>5. PICK S : S = {row(i) : i \in 1 .. n}
      OBVIOUS
  <2>6. added \in Seq(S) /\ Len(added) = n /\ \A i \in 1 .. n : added[i] = row(i)
      BY <2>3, <2>5
  <2> HIDE DEF added, n
  <2>7. PICK T : T = S \cup RecordRow(Old)
      OBVIOUS
  <2>8. records \in Seq(T) /\ added \in Seq(T)
    <3>1. S \subseteq T /\ RecordRow(Old) \subseteq T
      BY <2>7
    <3>2. QED
      BY <1>1, <2>6, <3>1, SeqMonotonic
  <2>9. /\ Len(records) \in Nat /\ DOMAIN records = 1 .. Len(records)
        /\ Len(records') = Len(records) + n /\ DOMAIN records' = 1 .. Len(records) + n
        /\ \A i \in DOMAIN records' \ DOMAIN records :
              i - Len(records) \in 1 .. n /\ records'[i] = row(i - Len(records))
    <3>1. PICK a, b, c : a = records /\ b = added /\ c = records'
        OBVIOUS
    <3>2. /\ a \in Seq(T) /\ b \in Seq(T) /\ c = a \o b /\ Len(b) = n
          /\ \A i \in 1 .. n : b[i] = row(i)
        BY <2>1, <2>6, <2>8, <3>1
    <3>3. /\ Len(a) \in Nat /\ DOMAIN a = 1 .. Len(a)
          /\ Len(c) = Len(a) + n /\ DOMAIN c = 1 .. Len(a) + n
      <4>1. Len(a) \in Nat /\ DOMAIN a = 1 .. Len(a)
          BY <3>2
      <4>2. c \in Seq(T) /\ Len(c) = Len(a) + Len(b)
          BY <3>2, ConcatProperties
      <4>3. DOMAIN c = 1 .. Len(c)
          BY <4>2
      <4>4. QED
          BY <3>2, <4>1, <4>2, <4>3
    <3>4. \A i \in 1 .. Len(a) + n : i \notin 1 .. Len(a) => c[i] = b[i - Len(a)]
        BY <2>3, <3>2, <3>3, ConcatProperties
    <3>5. \A i \in DOMAIN c \ DOMAIN a : i - Len(a) \in 1 .. n /\ c[i] = row(i - Len(a))
        BY <2>3, <3>2, <3>3, <3>4
    <3>6. QED
        BY <3>1, <3>3, <3>5
  <2>10. \A i \in DOMAIN records' \ DOMAIN records :
             records'[i].dataset = d /\ records'[i].file = r.file.name
      BY <2>4, <2>9
  <2>11. QED
      BY <2>2, <2>9, <2>10 DEF n
<1>6. ASSUME NEW w \in Workers, Step(w), ~InvalidateRecord(w), ~InsertRecord(w), ~ImportRows(w)
      PROVE  UNCHANGED records
    BY <1>6
    DEF Step, ReadRecord, ReadDataset, ReadStudy, FindCode, CountRecords, PickNumber, InsertStudy,
        InsertDataset, UpdateStudy, UpdateDataset, Audit, SeeDataset, Goto, Refuse, tables
<1>7. CASE \/ Crash \/ UNCHANGED vars
          \/ \E w \in Workers : (\E r \in Requests : Receive(w, r)) \/ Busy(w)
    BY <1>2, <1>7 DEF Crash, vars, tables, Receive, Busy, Refuse
<1>8. QED
    BY <1>2, <1>3, <1>4, <1>5, <1>6, <1>7 DEF Next

LEMMA RowsAreFinite ==
    ASSUME StudyInv, NEW d, NEW name
    PROVE  IsFiniteSet(RowsFrom(d, name)) /\ Cardinality(RowsFrom(d, name)) \in Nat
<1>1. DOMAIN records = 1 .. Len(records) /\ Len(records) \in Nat
  <2>1. PICK S : records \in Seq(S)
      BY DEF StudyInv, RowsTyped
  <2>2. QED
      BY <2>1
<1>2. IsFiniteSet(DOMAIN records)
    BY <1>1, FS_Interval
<1>3. RowsFrom(d, name) \in SUBSET DOMAIN records
    BY DEF RowsFrom, Of
<1>4. QED
    BY <1>2, <1>3, FS_Subset, FS_CardinalityType

LEMMA FilesWholeStep ==
    ASSUME StudyInv, FilesWhole, [Next]_vars
    PROVE  FilesWhole'
<1>1. RecordsStand
    BY StudyNext
<1>2. /\ Len(records) \in Nat /\ DOMAIN records = 1 .. Len(records)
      /\ Len(records') \in Nat /\ DOMAIN records' = 1 .. Len(records')
  <2>1. PICK S : records \in Seq(S)
      BY DEF StudyInv, RowsTyped
  <2>2. StudyInv'
      BY StudyNext
  <2>3. PICK T : records' \in Seq(T)
      BY <2>2 DEF StudyInv, RowsTyped
  <2>4. QED
      BY <2>1, <2>3
<1>3. ASSUME NEW i \in DOMAIN records
      PROVE  /\ i \in DOMAIN records'
             /\ records'[i].dataset = records[i].dataset /\ records'[i].file = records[i].file
  <2>1. PICK Numbers : records[i] \in RecordRow(Numbers)
      BY DEF StudyInv, RowsTyped
  <2>2. PICK row : row = records[i] /\ row \in RecordRow(Numbers)
      BY <2>1
  <2>3. [row EXCEPT !.valid = FALSE].dataset = row.dataset
        /\ [row EXCEPT !.valid = FALSE].file = row.file
      BY <2>2 DEF RecordRow
  <2>4. QED
      BY <1>1, <2>2, <2>3 DEF RecordsStand
<1>4. SUFFICES ASSUME NEW r \in Imports, NEW d
               PROVE  \E k \in Nat : Cardinality(RowsFrom(d, r.file.name)') = k * Len(r.file.rows)
    BY DEF FilesWhole, RowsFrom, Of
<1>5. PICK F, G : F = RowsFrom(d, r.file.name) /\ G = RowsFrom(d, r.file.name)'
    OBVIOUS
<1>6. PICK k \in Nat : Cardinality(F) = k * Len(r.file.rows)
    BY <1>5 DEF FilesWhole
<1>7. \A i \in DOMAIN records : i \in G <=> i \in F
    BY <1>3, <1>5 DEF RowsFrom, Of
<1>8. F \subseteq DOMAIN records /\ G \subseteq DOMAIN records'
    BY <1>5 DEF RowsFrom, Of
<1>9. CASE \A i \in DOMAIN records' \ DOMAIN records : i \notin G
  <2>1. F = G
      BY <1>3, <1>7, <1>8, <1>9
  <2>2. QED
      BY <1>5, <1>6, <2>1
<1>10. CASE \A i \in DOMAIN records' \ DOMAIN records : records'[i].file = NoFile
    BY <1>9, <1>10, <1>5, FilesAssumption DEF RowsFrom, Imports
<1>11. ASSUME NEW q \in Imports, NEW e,
              Len(records') = Len(records) + Len(q.file.rows),
              \A i \in DOMAIN records' \ DOMAIN records :
                 records'[i].dataset = e /\ records'[i].file = q.file.name
       PROVE  \E m \in Nat : Cardinality(G) = m * Len(r.file.rows)
  <2>1. CASE e # d \/ q.file.name # r.file.name
      BY <1>5, <1>9, <1>11, <2>1 DEF RowsFrom, Of
  <2>2. CASE e = d /\ q.file.name = r.file.name
    <3>1. PICK L \in Nat : L = Len(r.file.rows) /\ Len(records') = Len(records) + L
      <4>1. q.file.rows = r.file.rows /\ r.file.rows \in Seq(Int)
          BY <2>2, FilesAssumption, RequestsAssumption DEF Imports
      <4>2. QED
          BY <1>11, <4>1
    <3>2. PICK new : new = Len(records) + 1 .. Len(records) + L
      OBVIOUS
    <3>3. DOMAIN records' \ DOMAIN records = new
      BY <1>2, <3>1, <3>2
    <3>4. G = F \cup new /\ F \cap new = {}
      <4>1. \A i \in new : i \in G
          BY <1>5, <1>11, <2>2, <3>3 DEF RowsFrom, Of
      <4>2. \A i \in G : i \in F \/ i \in new
          BY <1>7, <1>8, <3>3
      <4>3. \A i \in F : i \in G /\ i \notin new
          BY <1>7, <1>8, <3>3
      <4>4. QED
          BY <4>1, <4>2, <4>3
    <3>5. IsFiniteSet(F) /\ Cardinality(F) \in Nat
      BY <1>5, RowsAreFinite
    <3>6. IsFiniteSet(new) /\ Cardinality(new) = L
      <4>1. Len(records) + 1 \in Int /\ Len(records) + L \in Int
          BY <1>2
      <4>2. IsFiniteSet(new) /\ Cardinality(new) =
                IF Len(records) + 1 > Len(records) + L THEN 0
                ELSE Len(records) + L - (Len(records) + 1) + 1
          BY <3>2, <4>1, FS_Interval
      <4>3. QED
          BY <1>2, <4>2
    <3>7. Cardinality(G) = Cardinality(F) + L
      <4>1. Cardinality(F \cup new) = Cardinality(F) + Cardinality(new) - Cardinality(F \cap new)
          BY <3>5, <3>6, FS_Union
      <4>2. Cardinality(F \cap new) = 0
          BY <3>4, FS_EmptySet
      <4>3. QED
          BY <3>4, <3>5, <3>6, <4>1, <4>2
    <3>8. Cardinality(G) = (k + 1) * L /\ k + 1 \in Nat
      <4>1. Cardinality(F) = k * L
          BY <1>6, <3>1
      <4>2. k * L + L = (k + 1) * L
          BY OneMore
      <4>3. QED
          BY <3>7, <4>1, <4>2
    <3>9. QED
      BY <3>1, <3>8
  <2>3. QED
      BY <2>1, <2>2
<1>12. QED
    BY <1>5, <1>10, <1>11, AddedRows

LEMMA FilesWholeInit == Init => FilesWhole
<1> SUFFICES ASSUME Init PROVE FilesWhole
    OBVIOUS
<1>1. \A d, name : RowsFrom(d, name) = {}
    BY DEF Init, RowsFrom, Of
<1>2. Cardinality({}) = 0
    BY FS_EmptySet
<1>3. ASSUME NEW r \in Imports
      PROVE  0 = 0 * Len(r.file.rows)
  <2>1. Len(r.file.rows) \in Nat
      BY RequestsAssumption DEF Imports
  <2>2. QED
      BY <2>1
<1>4. ASSUME NEW r \in Imports, NEW d
      PROVE  \E k \in Nat : Cardinality(RowsFrom(d, r.file.name)) = k * Len(r.file.rows)
  <2>1. Cardinality(RowsFrom(d, r.file.name)) = 0 * Len(r.file.rows)
      BY <1>1, <1>2, <1>3
  <2>2. QED
      BY <2>1
<1>5. QED
    BY <1>4 DEF FilesWhole

(* A data set has all rows of a file or none, as often as it was imported, *)
(* whatever fails, overlaps or has been taken in between.                  *)
THEOREM ImportsAreWhole == Spec => []ImportsWhole
<1>1. FilesWhole => ImportsWhole
  <2> SUFFICES ASSUME FilesWhole, NEW r \in Imports, NEW d \in DOMAIN datasets
               PROVE  Cardinality(RowsFrom(d, r.file.name)) % Len(r.file.rows) = 0
      BY DEF ImportsWhole, Imports, RowsFrom
  <2>1. PICK n \in Nat \ {0} : n = Len(r.file.rows)
    <3>1. r.file.rows \in Seq(Int) /\ r.file.rows # <<>>
      BY RequestsAssumption DEF Imports
    <3>2. QED
      BY <3>1
  <2>2. PICK k \in Nat : Cardinality(RowsFrom(d, r.file.name)) = k * n
      BY <2>1 DEF FilesWhole
  <2>3. QED
      BY <2>1, <2>2, MultipleHasNoRest
<1>2. StudyInv /\ FilesWhole /\ [Next]_vars => FilesWhole'
    BY FilesWholeStep
<1>3. QED
    BY <1>1, <1>2, FilesWholeInit, StudyInvariant, PTL DEF Spec

-----------------------------------------------------------------------------
(* Callers that do not overlap.                                            *)

Editable(d) == ~datasets[d].locked /\ studies[datasets[d].study].status # "approved"

ImportReads(w) == datasets[ctx[w].dataset].file # req[w].file.name

(* What a request has read of its data set is so.                          *)
DatasetReads(w) ==
    /\ pc[w] \in {"study", "again"} /\ req[w].op \in DatasetOps \cup {"invalidate"} =>
           /\ ctx[w].dataset \in DOMAIN datasets
           /\ ctx[w].study = datasets[ctx[w].dataset].study
           /\ ctx[w].locked = datasets[ctx[w].dataset].locked
    /\ pc[w] \in {"study", "change"} /\ req[w].op = "invalidate" =>
           ctx[w].record \in DOMAIN records /\ records[ctx[w].record].dataset = ctx[w].dataset
    /\ pc[w] \in {"study", "number", "change"} /\ req[w].op = "import" => ImportReads(w)
    /\ pc[w] \in {"number", "change"} /\ req[w].op \in {"create_record", "import", "invalidate"}
           => Editable(ctx[w].dataset)

(* What a request has decided on its study is so.                          *)
StudyReads(w) ==
    /\ pc[w] \in {"study", "count", "change"} /\ req[w].op \in {"approve", "reject"} =>
           req[w].user \in Approvers
    /\ pc[w] \in {"count", "change"} /\ req[w].op \in DOMAIN TargetStatus =>
           MoveVerdict(req[w], studies[ctx[w].study]) = "go"
    /\ pc[w] = "change" /\ req[w].op = "complete" =>
           HasValidRecord(datasets, records, ctx[w].study)
    /\ pc[w] = "change" /\ req[w].op = "patch" => studies[ctx[w].study].status # "approved"
    /\ pc[w] \in {"code", "change"} /\ req[w].op = "create_dataset" =>
           ctx[w].seen = studies[ctx[w].study].status /\ ctx[w].seen # "approved"

(* And the number that it picked is the one the rows give.                 *)
NumberReads(w) ==
    /\ pc[w] = "change" /\ req[w].op = "create_record" =>
           ctx[w].number = NextNumber(records, ctx[w].dataset)
    /\ pc[w] = "change" /\ req[w].op = "import" =>
           ctx[w].number = RowNumber(NumbersOf(records, ctx[w].dataset), Head(req[w].file.rows))

ReadsHold(w) == DatasetReads(w) /\ StudyReads(w) /\ NumberReads(w)

(* A request that has read nothing yet, or does not need it any more.      *)
LEMMA NothingRead ==
    ASSUME NEW w \in Workers, pc'[w] \in {"idle", "record", "dataset", "audit"}
    PROVE  ReadsHold(w)'
BY DEF ReadsHold, DatasetReads, StudyReads, NumberReads

LEMMA RefusedReads ==
    ASSUME StudyInv, NEW w \in Workers, Finish(w)
    PROVE  ReadsHold(w)'
<1>1. pc'[w] = "idle"
    BY DEF StudyInv, LocalsTyped, Finish
<1>2. QED
    BY <1>1, NothingRead

LEMMA CommittedReads ==
    ASSUME StudyInv, NEW w \in Workers, Commit(w)
    PROVE  ReadsHold(w)'
<1>1. pc'[w] = "audit"
    BY DEF StudyInv, LocalsTyped, Commit
<1>2. QED
    BY <1>1, NothingRead

LEMMA ReceiveReads ==
    ASSUME StudyInv, NEW w \in Workers, NEW r \in Requests, Receive(w, r)
    PROVE  ReadsHold(w)'
<1>1. pc \in [Workers -> Points] /\ req'[w] = r
    BY DEF StudyInv, LocalsTyped, Receive
<1>2. CASE pc'[w] \in {"dataset", "record"}
    BY <1>2, NothingRead
<1>3. CASE pc'[w] = "code" /\ r.op = "create_study"
    BY <1>1, <1>3 DEF ReadsHold, DatasetReads, StudyReads, NumberReads, TargetStatus, DatasetOps
<1>4. CASE /\ pc'[w] = "study" /\ r.op \in StudyOps
           /\ r.op \in {"approve", "reject"} => r.user \in Approvers
    BY <1>1, <1>4 DEF ReadsHold, DatasetReads, StudyReads, NumberReads, StudyOps,
                      TargetStatus, DatasetOps
<1>5. QED
    BY <1>1, <1>2, <1>3, <1>4 DEF Receive

(* get_dataset, and what is decided on it.                                 *)
LEMMA SeeDatasetReads ==
    ASSUME StudyInv, NEW w \in Workers, NEW d \in DOMAIN datasets,
           NEW step \in {"study", "again", "change"}, SeeDataset(w, d, step),
           step = "change" => req[w].op \in {"patch_dataset", "lock"},
           req[w].op \in DatasetOps \cup {"invalidate"},
           step = "study" /\ req[w].op = "import" => datasets[d].file # req[w].file.name,
           req[w].op = "invalidate" =>
               ctx[w].record \in DOMAIN records /\ records[ctx[w].record].dataset = d
    PROVE  ReadsHold(w)'
<1>1. /\ pc'[w] = step /\ UNCHANGED <<studies, datasets, records, req>>
      /\ ctx'[w].dataset = d /\ ctx'[w].study = datasets[d].study
      /\ ctx'[w].locked = datasets[d].locked /\ ctx'[w].record = ctx[w].record
    BY DEF StudyInv, LocalsTyped, SeeDataset, Goto, tables, NoContext
<1>2. DatasetReads(w)'
    BY <1>1 DEF DatasetReads, ImportReads
<1>3. StudyReads(w)' /\ NumberReads(w)'
    BY <1>1 DEF StudyReads, NumberReads, DatasetOps, TargetStatus
<1>4. QED
    BY <1>2, <1>3 DEF ReadsHold

LEMMA ReadRecordReads ==
    ASSUME StudyInv, NEW w \in Workers, ReadRecord(w)
    PROVE  ReadsHold(w)'
<1>1. req[w].op = "invalidate"
    BY DEF ReadRecord, StudyInv, WorkerInv, Placed
<1>2. CASE \E answer : Refuse(w, answer)
    BY <1>2, RefusedReads DEF Refuse
<1>3. CASE /\ ctx[w].record \in DOMAIN records
           /\ SeeDataset(w, records[ctx[w].record].dataset, "study")
  <2>1. records[ctx[w].record].dataset \in DOMAIN datasets
    BY <1>3 DEF StudyInv, TablesInv
  <2>2. QED
    BY <1>1, <1>3, <2>1, SeeDatasetReads
<1>4. QED
    BY <1>2, <1>3 DEF ReadRecord

LEMMA ReadDatasetReads ==
    ASSUME StudyInv, NEW w \in Workers, ReadDataset(w)
    PROVE  ReadsHold(w)'
<1> DEFINE d == ctx[w].dataset
<1>1. req[w].op \in DatasetOps
    BY DEF ReadDataset, StudyInv, WorkerInv, Placed
<1>2. CASE \E answer : Refuse(w, answer)
    BY <1>2, RefusedReads DEF Refuse
<1>3. ASSUME NEW step \in {"study", "again", "change"}, SeeDataset(w, d, step),
             d \in DOMAIN datasets,
             step = "change" => req[w].op \in {"patch_dataset", "lock"},
             step = "study" /\ req[w].op = "import" => datasets[d].file # req[w].file.name
      PROVE  ReadsHold(w)'
    BY <1>1, <1>3, SeeDatasetReads DEF DatasetOps
<1>4. QED
    BY <1>2, <1>3 DEF ReadDataset

(* get_study, and what is decided on it.                                   *)
LEMMA ReadStudyReads ==
    ASSUME StudyInv, NEW w \in Workers, ReadsHold(w), ReadStudy(w)
    PROVE  ReadsHold(w)'
<1> DEFINE r == req[w]
           s == ctx[w].study
<1>1. /\ pc[w] \in {"study", "again"} /\ r \in Requests /\ r.op # "create_study"
      /\ pc[w] = "again" => r.op = "import"
    BY DEF ReadStudy, StudyInv, WorkerInv, Placed
<1>2. CASE \E answer : Refuse(w, answer)
    BY <1>2, RefusedReads DEF Refuse
<1>3. CASE /\ s \in DOMAIN studies /\ StudyVerdict(w, studies[s]) = "go"
           /\ Goto(w, AfterStudy(r.op)) /\ ctx' = [ctx EXCEPT ![w].seen = studies[s].status]
  <2>1. /\ pc'[w] = AfterStudy(r.op) /\ UNCHANGED <<studies, datasets, records, req>>
        /\ ctx'[w].dataset = ctx[w].dataset /\ ctx'[w].study = s
        /\ ctx'[w].seen = studies[s].status /\ ctx'[w].record = ctx[w].record
    BY <1>3 DEF StudyInv, LocalsTyped, Goto, tables, NoContext
  <2>2. CASE r.op = "patch"
    <3>1. pc'[w] = "change" /\ studies[s].status # "approved"
      BY <1>3, <2>1, <2>2 DEF StudyVerdict, PatchVerdict, AfterStudy, TargetStatus
    <3>2. QED
      BY <2>1, <2>2, <3>1
         DEF ReadsHold, DatasetReads, StudyReads, NumberReads, DatasetOps, TargetStatus
  <2>3. CASE r.op = "create_dataset"
    <3>1. pc'[w] = "code" /\ studies[s].status # "approved"
      BY <1>3, <2>1, <2>3 DEF StudyVerdict, NewDatasetVerdict, AfterStudy, TargetStatus
    <3>2. QED
      BY <2>1, <2>3, <3>1
         DEF ReadsHold, DatasetReads, StudyReads, NumberReads, DatasetOps, TargetStatus
  <2>4. CASE r.op \in DOMAIN TargetStatus
    <3>1. pc'[w] \in {"count", "change"} /\ (pc'[w] = "change" => r.op # "complete")
      BY <2>1, <2>4 DEF AfterStudy, TargetStatus
    <3>2. MoveVerdict(r, studies[s]) = "go"
      BY <1>3, <2>4 DEF StudyVerdict, TargetStatus
    <3>3. r.op \in {"approve", "reject"} => r.user \in Approvers
      BY <1>1 DEF ReadsHold, StudyReads
    <3>4. QED
      BY <2>1, <2>4, <3>1, <3>2, <3>3
         DEF ReadsHold, DatasetReads, StudyReads, NumberReads, DatasetOps, TargetStatus
  <2>5. CASE r.op \notin {"patch", "create_dataset"} \cup DOMAIN TargetStatus
    <3>1. RecordVerdict(r, studies[s].status, ctx[w].locked, pc[w] = "again") = "go"
      BY <1>3, <2>5 DEF StudyVerdict
    <3>2. studies[s].status # "approved" /\ ~ctx[w].locked /\ pc[w] # "again"
      BY <3>1 DEF RecordVerdict
    <3>3. pc[w] = "study"
      BY <1>1, <3>2
    <3>4. \/ r.op \in {"create_record", "import"} /\ pc'[w] = "number"
          \/ r.op \notin {"create_record", "import"} /\ pc'[w] = "change"
      BY <2>1, <2>5 DEF AfterStudy, TargetStatus
    <3>5. r.op \in DatasetOps \cup {"invalidate"} => Editable(ctx[w].dataset)
      BY <3>2, <3>3 DEF ReadsHold, DatasetReads, Editable
    <3>6. DatasetReads(w)'
      BY <2>1, <3>3, <3>4, <3>5 DEF ReadsHold, DatasetReads, ImportReads, Editable, DatasetOps
    <3>7. StudyReads(w)' /\ NumberReads(w)'
      BY <2>1, <2>5, <3>4 DEF StudyReads, NumberReads, TargetStatus
    <3>8. QED
      BY <3>6, <3>7 DEF ReadsHold
  <2>6. QED
    BY <2>2, <2>3, <2>4, <2>5
<1>4. QED
    BY <1>2, <1>3 DEF ReadStudy

LEMMA FindCodeReads ==
    ASSUME StudyInv, NEW w \in Workers, ReadsHold(w), FindCode(w)
    PROVE  ReadsHold(w)'
<1>1. pc[w] = "code" /\ req[w].op \in {"create_study", "create_dataset"}
    BY DEF FindCode, StudyInv, WorkerInv, Placed
<1>2. CASE Refuse(w, "conflict")
    BY <1>2, RefusedReads DEF Refuse
<1>3. CASE Goto(w, "change") /\ UNCHANGED ctx
  <2>1. pc'[w] = "change" /\ UNCHANGED <<studies, datasets, records, req, ctx>>
    BY <1>3 DEF StudyInv, LocalsTyped, Goto, tables
  <2>2. QED
    BY <1>1, <2>1 DEF ReadsHold, DatasetReads, StudyReads, NumberReads, DatasetOps, TargetStatus
<1>4. QED
    BY <1>2, <1>3 DEF FindCode

LEMMA CountRecordsReads ==
    ASSUME StudyInv, NEW w \in Workers, ReadsHold(w), CountRecords(w)
    PROVE  ReadsHold(w)'
<1>1. pc[w] = "count" /\ req[w].op = "complete"
    BY DEF CountRecords, StudyInv, WorkerInv, Placed
<1>2. CASE Refuse(w, "invalid")
    BY <1>2, RefusedReads DEF Refuse
<1>3. CASE /\ HasValidRecord(datasets, records, ctx[w].study)
           /\ Goto(w, "change") /\ UNCHANGED ctx
  <2>1. pc'[w] = "change" /\ UNCHANGED <<studies, datasets, records, req, ctx>>
    BY <1>3 DEF StudyInv, LocalsTyped, Goto, tables
  <2>2. QED
    BY <1>1, <1>3, <2>1
       DEF ReadsHold, DatasetReads, StudyReads, NumberReads, DatasetOps, TargetStatus
<1>4. QED
    BY <1>2, <1>3 DEF CountRecords

LEMMA PickNumberReads ==
    ASSUME StudyInv, NEW w \in Workers, ReadsHold(w), PickNumber(w)
    PROVE  ReadsHold(w)'
<1> DEFINE d == ctx[w].dataset
<1>1. pc[w] = "number" /\ req[w].op \in {"create_record", "import"}
    BY DEF PickNumber, StudyInv, WorkerInv, Placed
<1>2. CASE \E answer : Refuse(w, answer)
    BY <1>2, RefusedReads DEF Refuse
<1>3. PICK n : n = IF req[w].op = "import"
                   THEN RowNumber(NumbersOf(records, d), Head(req[w].file.rows))
                   ELSE NextNumber(records, d)
    OBVIOUS
<1>4. CASE Goto(w, "change") /\ ctx' = [ctx EXCEPT ![w].number = n]
  <2>1. /\ pc'[w] = "change" /\ UNCHANGED <<studies, datasets, records, req>>
        /\ ctx'[w].number = n /\ ctx'[w].dataset = d
    BY <1>4 DEF StudyInv, LocalsTyped, Goto, tables, NoContext
  <2>2. DatasetReads(w)' /\ StudyReads(w)'
    BY <1>1, <2>1
       DEF ReadsHold, DatasetReads, StudyReads, ImportReads, Editable, TargetStatus
  <2>3. NumberReads(w)'
    BY <1>1, <1>3, <2>1 DEF NumberReads
  <2>4. QED
    BY <2>2, <2>3 DEF ReadsHold
<1>5. QED
    BY <1>2, <1>3, <1>4 DEF PickNumber

LEMMA ChangeReads ==
    ASSUME StudyInv, NEW w \in Workers,
           \/ InsertStudy(w) \/ InsertDataset(w) \/ UpdateStudy(w) \/ UpdateDataset(w)
           \/ InsertRecord(w) \/ ImportRows(w) \/ InvalidateRecord(w)
           \/ Audit(w) \/ Busy(w)
    PROVE  ReadsHold(w)'
<1>1. CASE Finish(w)
    BY <1>1, RefusedReads
<1>2. CASE Commit(w)
    BY <1>2, CommittedReads
<1>3. QED
    BY <1>1, <1>2 DEF InsertStudy, InsertDataset, UpdateStudy, UpdateDataset, InsertRecord,
                      ImportRows, InvalidateRecord, Audit, Busy, Refuse

(* Requests that do not overlap.                                           *)
NoOverlap == \A w, x \in Workers : pc[w] # "idle" /\ pc[x] # "idle" => w = x

AllReadsHold == \A w \in Workers : ReadsHold(w)

RequestStep(w) == Step(w) \/ Busy(w) \/ \E r \in Requests : Receive(w, r)

(* Whatever a thread has read is still so when it uses it.                 *)
LEMMA OwnStepKeepsReads ==
    ASSUME StudyInv, NEW w \in Workers, ReadsHold(w),
           RequestStep(w) \/ Crash \/ UNCHANGED vars
    PROVE  ReadsHold(w)'
<1>1. w \in Workers
    OBVIOUS
<1>2. ASSUME NEW r \in Requests, Receive(w, r) PROVE ReadsHold(w)'
    BY <1>1, <1>2, ReceiveReads
<1>3. CASE Step(w) \/ Busy(w)
    BY <1>1, <1>3, ReadRecordReads, ReadDatasetReads, ReadStudyReads, FindCodeReads,
       CountRecordsReads, PickNumberReads, ChangeReads DEF Step
<1>4. CASE Crash
  <2>1. pc'[w] = "idle"
    BY <1>1, <1>4 DEF Crash
  <2>2. QED
    BY <1>1, <2>1, NothingRead
<1>5. CASE UNCHANGED vars
    BY <1>5 DEF vars, tables, ReadsHold, DatasetReads, StudyReads, NumberReads, ImportReads,
                Editable
<1>6. QED
    BY <1>2, <1>3, <1>4, <1>5 DEF RequestStep

LEMMA IdleTakesNoStep ==
    ASSUME StudyInv, NEW x \in Workers, pc[x] = "idle"
    PROVE  ~Step(x) /\ ~Busy(x)
BY DEF Step, Busy, ReadRecord, ReadDataset, ReadStudy, FindCode, CountRecords, PickNumber,
       InsertStudy, InsertDataset, UpdateStudy, UpdateDataset, InsertRecord, ImportRows,
       InvalidateRecord, Audit

(* A step moves its own thread only.                                       *)
LEMMA StepsOwnPlace ==
    ASSUME StudyInv, NEW x \in Workers, NEW w \in Workers, w # x, RequestStep(x)
    PROVE  pc'[w] = pc[w]
BY DEF RequestStep, Step, Busy, Receive, ReadRecord, ReadDataset, ReadStudy, FindCode,
       CountRecords, PickNumber, InsertStudy, InsertDataset, UpdateStudy, UpdateDataset,
       InsertRecord, ImportRows, InvalidateRecord, Audit, SeeDataset, Refuse, Finish, Commit,
       Goto, StudyInv, LocalsTyped

(* Meanwhile another thread may at most receive a request.                 *)
LEMMA NextKeepsReads == StudyInv /\ NoOverlap /\ AllReadsHold /\ [Next]_vars => AllReadsHold'
<1> SUFFICES ASSUME StudyInv, NoOverlap, AllReadsHold, [Next]_vars, NEW w \in Workers
             PROVE  ReadsHold(w)'
    BY DEF AllReadsHold
<1>1. ReadsHold(w)
    BY DEF AllReadsHold
<1>2. ASSUME NEW x \in Workers, x # w, pc[x] # "idle", RequestStep(x) PROVE ReadsHold(w)'
  <2>1. pc[w] = "idle"
    BY <1>2 DEF NoOverlap
  <2>2. pc'[w] = "idle"
    BY <1>2, <2>1, StepsOwnPlace
  <2>3. QED
    BY <2>2, NothingRead
<1>3. ASSUME NEW x \in Workers, x # w, pc[x] = "idle", RequestStep(x) PROVE ReadsHold(w)'
  <2>1. PICK r \in Requests : Receive(x, r)
    BY <1>3, IdleTakesNoStep DEF RequestStep
  <2>2. /\ pc'[w] = pc[w] /\ req'[w] = req[w] /\ ctx'[w] = ctx[w]
        /\ UNCHANGED <<studies, datasets, records>>
    BY <1>3, <2>1 DEF Receive, StudyInv, LocalsTyped, tables
  <2>3. QED
    BY <1>1, <2>2 DEF ReadsHold, DatasetReads, StudyReads, NumberReads, ImportReads, Editable
<1>4. QED
    BY <1>1, <1>2, <1>3, OwnStepKeepsReads DEF Next, RequestStep

-----------------------------------------------------------------------------
(* The register.                                                           *)

(* The register computes what the service computes.                        *)
LEMMA RegisterComputes ==
    /\ Register!Transitions = Transitions /\ Register!TargetStatus = TargetStatus
    /\ \A t, c : Register!CodeUsed(t, c) <=> CodeUsed(t, c)
    /\ \A t, s, c : Register!DatasetCodeUsed(t, s, c) <=> DatasetCodeUsed(t, s, c)
    /\ \A t, d : Register!Of(t, d) = Of(t, d)
    /\ \A t, d : Register!NumbersOf(t, d) = NumbersOf(t, d)
    /\ \A t, u, s : Register!HasValidRecord(t, u, s) <=> HasValidRecord(t, u, s)
    /\ \A d, n, c, f : Register!NewRecord(d, n, c, f) = NewRecord(d, n, c, f)
<1>1. Register!Transitions = Transitions
    BY DEF Register!Transitions, Transitions, Register!StudyStatus, StudyStatus
<1>2. Register!TargetStatus = TargetStatus
    BY DEF Register!TargetStatus, TargetStatus
<1>3. /\ \A t, c : Register!CodeUsed(t, c) <=> CodeUsed(t, c)
      /\ \A t, s, c : Register!DatasetCodeUsed(t, s, c) <=> DatasetCodeUsed(t, s, c)
    BY DEF Register!CodeUsed, CodeUsed, Register!DatasetCodeUsed, DatasetCodeUsed
<1>4. \A t, d : Register!Of(t, d) = Of(t, d)
    BY DEF Register!Of, Of
<1>5. \A t, d : Register!NumbersOf(t, d) = NumbersOf(t, d)
    BY <1>4 DEF Register!NumbersOf, NumbersOf
<1>6. \A t, u, s : Register!HasValidRecord(t, u, s) <=> HasValidRecord(t, u, s)
    BY DEF Register!HasValidRecord, HasValidRecord
<1>7. \A d, n, c, f : Register!NewRecord(d, n, c, f) = NewRecord(d, n, c, f)
    BY DEF Register!NewRecord, NewRecord
<1>8. QED
    BY <1>1, <1>2, <1>3, <1>4, <1>5, <1>6, <1>7

LEMMA RegisterNumbers ==
    /\ \A ns : Register!NextAfter(ns) = NextAfter(ns)
    /\ \A t, d : Register!NextNumber(t, d) = NextNumber(t, d)
    /\ \A ns, n : Register!RowNumber(ns, n) = RowNumber(ns, n)
    /\ \A t, d, n : Register!NumberUsed(t, d, n) <=> NumberUsed(t, d, n)
    /\ \A row, op, user : Register!Moved(row, op, user) = Moved(row, op, user)
<1>1. \A ns : Register!NextAfter(ns) = NextAfter(ns)
    BY DEF Register!NextAfter, NextAfter
<1>2. \A t, d : Register!NextNumber(t, d) = NextNumber(t, d)
    BY <1>1, RegisterComputes DEF Register!NextNumber, NextNumber
<1>3. \A ns, n : Register!RowNumber(ns, n) = RowNumber(ns, n)
    BY <1>1 DEF Register!RowNumber, RowNumber
<1>4. \A t, d, n : Register!NumberUsed(t, d, n) <=> NumberUsed(t, d, n)
    BY RegisterComputes DEF Register!NumberUsed, NumberUsed
<1>5. \A row, op, user : Register!Moved(row, op, user) = Moved(row, op, user)
    BY RegisterComputes DEF Register!Moved, Moved
<1>6. QED
    BY <1>1, <1>2, <1>3, <1>4, <1>5

(* The rows of a file, whatever numbers they get.                          *)
LEMMA RegisterImports ==
    \A t, d, f, rows, n : Register!Imported(t, d, f, rows, n) = Imported(t, d, f, rows, n)
<1> TAKE t, d, f, rows, n
<1>1. Register!RowNumbers(t, d, rows, n) = RowNumbers(t, d, rows, n)
    BY RegisterComputes, RegisterNumbers DEF Register!RowNumbers, RowNumbers
<1>2. QED
    BY <1>1, RegisterComputes, RegisterNumbers DEF Register!Imported, Imported

RegisterStep == [Register!Next]_(Register!vars)

LEMMA TablesStutter ==
    ASSUME UNCHANGED tables
    PROVE  RegisterStep
BY DEF RegisterStep, Register!vars, tables

LEMMA InsertStudyIsStep ==
    ASSUME StudyInv, NEW w \in Workers, InsertStudy(w)
    PROVE  RegisterStep
<1> DEFINE r == req[w]
<1>1. r \in Requests /\ r.op = "create_study"
    BY DEF InsertStudy, StudyInv, WorkerInv, Placed
<1>2. CASE Refuse(w, "server_error")
    BY <1>2, TablesStutter DEF Refuse
<1>3. CASE /\ ~CodeUsed(studies, r.code)
           /\ studies' = Append(studies, [code |-> r.code, author |-> r.user,
                                          status |-> "draft", approver |-> NoUser,
                                          text |-> "first"])
           /\ UNCHANGED <<datasets, records>>
  <2>1. ~Register!CodeUsed(studies, r.code)
    BY <1>3, RegisterComputes
  <2>2. Register!CreateStudy(r.code, r.user)
    BY <1>3, <2>1 DEF Register!CreateStudy
  <2>3. QED
    BY <1>1, <2>2 DEF RegisterStep, Register!Next
<1>4. QED
    BY <1>2, <1>3 DEF InsertStudy

LEMMA InsertDatasetIsStep ==
    ASSUME StudyInv, NEW w \in Workers, ReadsHold(w), InsertDataset(w)
    PROVE  RegisterStep
<1> DEFINE r == req[w]
           s == ctx[w].study
<1>1. /\ r \in Requests /\ r.op = "create_dataset" /\ pc[w] = "change" /\ s \in DOMAIN studies
      /\ ctx[w].seen = studies[s].status /\ studies[s].status # "approved"
    BY DEF InsertDataset, StudyInv, WorkerInv, Placed, RowsKnown, StudyOps, ReadsHold, StudyReads
<1>2. CASE Refuse(w, "server_error")
    BY <1>2, TablesStutter DEF Refuse
<1>3. CASE /\ ~DatasetCodeUsed(datasets, s, r.code)
           /\ datasets' = Append(datasets, [study |-> s, code |-> r.code,
                                            locked |-> FALSE, file |-> NoFile])
           /\ studies' = IF ctx[w].seen = "draft"
                         THEN [studies EXCEPT ![s].status = "data_collection"]
                         ELSE studies
           /\ UNCHANGED records
  <2>1. ~Register!DatasetCodeUsed(datasets, s, r.code)
    BY <1>3, RegisterComputes
  <2>2. Register!CreateDataset(s, r.code)
    BY <1>1, <1>3, <2>1 DEF Register!CreateDataset
  <2>3. QED
    BY <1>1, <2>2 DEF RegisterStep, Register!Next
<1>4. QED
    BY <1>2, <1>3 DEF InsertDataset

LEMMA UpdateStudyIsStep ==
    ASSUME StudyInv, NEW w \in Workers, ReadsHold(w), UpdateStudy(w)
    PROVE  RegisterStep
<1> DEFINE r == req[w]
           s == ctx[w].study
<1>1. /\ r \in Requests /\ r.op \in StudyOps \ {"create_dataset"} /\ pc[w] = "change"
      /\ s \in DOMAIN studies /\ StudyReads(w) /\ UNCHANGED <<datasets, records>>
    BY DEF UpdateStudy, StudyInv, WorkerInv, Placed, RowsKnown, ReadsHold
<1>2. CASE r.op = "patch"
  <2>1. Register!Patch(s, r.text)
    BY <1>1, <1>2 DEF UpdateStudy, StudyReads, Register!Patch
  <2>2. QED
    BY <1>1, <1>2, <2>1 DEF RegisterStep, Register!Next
<1>3. CASE r.op \in DOMAIN TargetStatus
  <2>1. MoveVerdict(r, studies[s]) = "go"
    BY <1>1, <1>3 DEF StudyReads
  <2>2. /\ <<studies[s].status, TargetStatus[r.op]>> \in Transitions
        /\ r.op = "approve" => studies[s].author # r.user
    BY <2>1 DEF MoveVerdict
  <2>3. /\ r.op \in {"approve", "reject"} => r.user \in Approvers
        /\ r.op = "complete" => HasValidRecord(datasets, records, s)
    BY <1>1 DEF StudyReads
  <2>4. /\ Register!HasValidRecord(datasets, records, s)
               <=> HasValidRecord(datasets, records, s)
        /\ Register!Transitions = Transitions /\ Register!TargetStatus = TargetStatus
        /\ Register!Moved(studies[s], r.op, r.user) = Moved(studies[s], r.op, r.user)
    BY RegisterComputes, RegisterNumbers
  <2>5. studies' = [studies EXCEPT ![s] = Moved(studies[s], r.op, r.user)]
    BY <1>1, <1>3 DEF UpdateStudy, TargetStatus
  <2>6. Register!Move(s, r.op, r.user)
    BY <1>1, <2>2, <2>3, <2>4, <2>5 DEF Register!Move
  <2>7. QED
    BY <1>1, <1>3, <2>4, <2>6 DEF RegisterStep, Register!Next
<1>4. QED
    BY <1>1, <1>2, <1>3 DEF StudyOps

LEMMA UpdateDatasetIsStep ==
    ASSUME StudyInv, NEW w \in Workers, UpdateDataset(w)
    PROVE  RegisterStep
<1> DEFINE d == ctx[w].dataset
<1>1. req[w].op \in {"lock", "patch_dataset"} /\ UNCHANGED <<studies, records>>
      /\ d \in DOMAIN datasets
    BY DEF UpdateDataset, StudyInv, WorkerInv, RowsKnown, DatasetOps
<1>2. CASE req[w].op = "lock"
  <2>1. Register!Lock(d)
    BY <1>1, <1>2 DEF UpdateDataset, Register!Lock
  <2>2. QED
    BY <1>1, <2>1 DEF RegisterStep, Register!Next
<1>3. CASE req[w].op = "patch_dataset"
    BY <1>1, <1>3, TablesStutter DEF UpdateDataset, tables
<1>4. QED
    BY <1>1, <1>2, <1>3

LEMMA InsertRecordIsStep ==
    ASSUME StudyInv, NEW w \in Workers, ReadsHold(w), InsertRecord(w)
    PROVE  RegisterStep
<1> DEFINE r == req[w]
           d == ctx[w].dataset
<1>1. /\ r \in Requests /\ r.op = "create_record" /\ pc[w] = "change"
      /\ d \in DOMAIN datasets /\ Editable(d)
      /\ ctx[w].number = NextNumber(records, d)
      /\ r.corrects = 0 \/ r.corrects \in Of(records, d)
    BY DEF InsertRecord, StudyInv, WorkerInv, Placed, RowsKnown, DatasetOps, ReadsHold,
           DatasetReads, NumberReads
<1>2. CASE Refuse(w, "server_error")
    BY <1>2, TablesStutter DEF Refuse
<1>3. CASE /\ records' = Append([i \in DOMAIN records |->
                              IF i = r.corrects THEN [records[i] EXCEPT !.valid = FALSE]
                              ELSE records[i]],
                          NewRecord(d, ctx[w].number, r.corrects, NoFile))
           /\ UNCHANGED <<studies, datasets>>
  <2>1. /\ Register!NextNumber(records, d) = NextNumber(records, d)
        /\ Register!Of(records, d) = Of(records, d)
        /\ \A n, c : Register!NewRecord(d, n, c, NoFile) = NewRecord(d, n, c, NoFile)
    BY RegisterComputes, RegisterNumbers
  <2>2. Register!Editable(d)
    BY <1>1 DEF Editable, Register!Editable
  <2>3. Register!AddRecord(d, r.corrects)
    BY <1>1, <1>3, <2>1, <2>2 DEF Register!AddRecord
  <2>4. r.corrects \in 0 .. Len(records)
    BY <1>1 DEF Of, StudyInv, RowsTyped
  <2>5. QED
    BY <1>1, <2>3, <2>4 DEF RegisterStep, Register!Next
<1>4. QED
    BY <1>2, <1>3 DEF InsertRecord

LEMMA ImportRowsIsStep ==
    ASSUME StudyInv, NEW w \in Workers, ReadsHold(w), ImportRows(w)
    PROVE  RegisterStep
<1> DEFINE r == req[w]
           d == ctx[w].dataset
<1>1. /\ r \in Requests /\ r.op = "import" /\ pc[w] = "change"
      /\ d \in DOMAIN datasets /\ Editable(d) /\ datasets[d].file # r.file.name
      /\ ctx[w].number = RowNumber(NumbersOf(records, d), Head(r.file.rows))
    BY DEF ImportRows, StudyInv, WorkerInv, Placed, RowsKnown, DatasetOps, ReadsHold,
           DatasetReads, NumberReads, ImportReads
<1>2. PICK result : result = Imported(records, d, r.file.name, r.file.rows, ctx[w].number)
    OBVIOUS
<1>3. CASE \E answer : Refuse(w, answer)
    BY <1>3, TablesStutter DEF Refuse
<1>4. CASE /\ ~result.taken
           /\ records' = result.records
           /\ datasets' = [datasets EXCEPT ![d].file = r.file.name]
           /\ UNCHANGED studies
  <2>1. /\ Register!NumbersOf(records, d) = NumbersOf(records, d)
        /\ Register!RowNumber(NumbersOf(records, d), Head(r.file.rows)) = ctx[w].number
    BY <1>1, RegisterComputes, RegisterNumbers
  <2>2. Register!Imported(records, d, r.file.name, r.file.rows, ctx[w].number) = result
    BY <1>2, RegisterImports
  <2>3. Register!Editable(d)
    BY <1>1 DEF Editable, Register!Editable
  <2>4. Register!Import(d, r.file)
    BY <1>1, <1>4, <2>1, <2>2, <2>3 DEF Register!Import
  <2>5. QED
    BY <1>1, <2>4 DEF RegisterStep, Register!Next
<1>5. QED
    BY <1>2, <1>3, <1>4 DEF ImportRows

LEMMA InvalidateIsStep ==
    ASSUME StudyInv, NEW w \in Workers, ReadsHold(w), InvalidateRecord(w)
    PROVE  RegisterStep
<1> DEFINE i == ctx[w].record
<1>1. /\ req[w].op = "invalidate" /\ pc[w] = "change"
      /\ i \in DOMAIN records /\ Editable(records[i].dataset)
      /\ records' = [records EXCEPT ![i].valid = FALSE] /\ UNCHANGED <<studies, datasets>>
    BY DEF InvalidateRecord, ReadsHold, DatasetReads
<1>2. Register!Invalidate(i)
    BY <1>1 DEF Editable, Register!Editable, Register!Invalidate
<1>3. QED
    BY <1>1, <1>2 DEF RegisterStep, Register!Next

LEMMA OwnStepIsRegisterStep ==
    ASSUME StudyInv, NEW w \in Workers, ReadsHold(w), RequestStep(w)
    PROVE  RegisterStep
<1>1. w \in Workers
    OBVIOUS
<1>2. CASE \/ InsertStudy(w) \/ InsertDataset(w) \/ UpdateStudy(w) \/ UpdateDataset(w)
           \/ InsertRecord(w) \/ ImportRows(w) \/ InvalidateRecord(w)
    BY <1>1, <1>2, InsertStudyIsStep, InsertDatasetIsStep, UpdateStudyIsStep,
       UpdateDatasetIsStep, InsertRecordIsStep, ImportRowsIsStep, InvalidateIsStep
<1>3. CASE ReadRecord(w) \/ ReadDataset(w) \/ ReadStudy(w)
    BY <1>3, TablesStutter DEF ReadRecord, ReadDataset, ReadStudy, SeeDataset, Goto, Refuse
<1>4. CASE FindCode(w) \/ CountRecords(w) \/ PickNumber(w)
    BY <1>4, TablesStutter DEF FindCode, CountRecords, PickNumber, Goto, Refuse
<1>5. CASE Audit(w) \/ Busy(w) \/ \E r \in Requests : Receive(w, r)
    BY <1>5, TablesStutter DEF Audit, Busy, Refuse, Receive
<1>6. QED
    BY <1>2, <1>3, <1>4, <1>5 DEF RequestStep, Step

LEMMA NextIsRegisterStep == StudyInv /\ AllReadsHold /\ [Next]_vars => RegisterStep
<1> SUFFICES ASSUME StudyInv, AllReadsHold, [Next]_vars PROVE RegisterStep
    OBVIOUS
<1>1. CASE Crash \/ UNCHANGED vars
    BY <1>1, TablesStutter DEF Crash, vars
<1>2. ASSUME NEW w \in Workers, RequestStep(w) PROVE RegisterStep
    BY <1>2, OwnStepIsRegisterStep DEF AllReadsHold
<1>3. QED
    BY <1>1, <1>2 DEF Next, RequestStep

(* While one thread serves the requests, production validation is the      *)
(* register: through a busy database and restarts, every operation looks   *)
(* at the rows as they are and changes them in one step.                   *)
THEOREM SerialStudiesImplementRegister ==
    ASSUME NEW w, Workers = {w}
    PROVE  Spec => Register!Spec
<1>1. NoOverlap
    BY DEF NoOverlap
<1>2. Init => Register!Init /\ AllReadsHold
    BY DEF Init, Register!Init, AllReadsHold, ReadsHold, DatasetReads, StudyReads, NumberReads
<1>3. StudyInv /\ AllReadsHold /\ [Next]_vars => AllReadsHold'
    BY <1>1, NextKeepsReads
<1>4. QED
    BY <1>2, <1>3, NextIsRegisterStep, StudyInvariant, PTL DEF Spec, Register!Spec, RegisterStep

-----------------------------------------------------------------------------
(* What the register keeps.                                                *)

(* Every measurement says which data set it belongs to.                    *)
Assigned(t) == (\E S : t \in Seq(S)) /\ \A i \in DOMAIN t : "dataset" \in DOMAIN t[i]

(* The rows that were there, of which those of other data sets are as they *)
(* were, and rows that are new in this one.                                *)
OnlyOf(d, t, u) ==
    /\ Assigned(u)
    /\ \A i \in DOMAIN t : /\ i \in DOMAIN u /\ u[i].dataset = t[i].dataset
                           /\ t[i].dataset # d => u[i] = t[i]
    /\ \A i \in DOMAIN u \ DOMAIN t : u[i].dataset = d

LEMMA OthersAreSettled ==
    ASSUME NEW d, NEW t, NEW u, OnlyOf(d, t, u), NEW e, e # d
    PROVE  Of(u, e) = Of(t, e) /\ \A i \in Of(t, e) : u[i] = t[i]
BY DEF OnlyOf, Of

(* One of the rows stops counting.                                         *)
Stopped(t, c) ==
    [i \in DOMAIN t |-> IF i = c THEN [t[i] EXCEPT !.valid = FALSE] ELSE t[i]]

LEMMA StoppedRows ==
    ASSUME NEW t, Assigned(t), NEW c, NEW d, c \in DOMAIN t => t[c].dataset = d
    PROVE  OnlyOf(d, t, Stopped(t, c)) /\ DOMAIN Stopped(t, c) = DOMAIN t
<1> DEFINE u == Stopped(t, c)
<1>1. PICK S : t \in Seq(S)
    BY DEF Assigned
<1>2. PICK T : T = S \cup {[x EXCEPT !.valid = FALSE] : x \in S}
    OBVIOUS
<1>3. DOMAIN t = 1 .. Len(t) /\ Len(t) \in Nat /\ \A i \in DOMAIN t : t[i] \in S
    BY <1>1
<1>4. u \in [1 .. Len(t) -> T]
    BY <1>2, <1>3 DEF Stopped
<1>5. u \in Seq(T)
    BY <1>3, <1>4
<1>6. \A i \in DOMAIN t : /\ DOMAIN u[i] = DOMAIN t[i] /\ u[i].dataset = t[i].dataset
                          /\ t[i].dataset # d => u[i] = t[i]
    BY DEF Assigned, Stopped
<1>7. DOMAIN u = DOMAIN t
    BY DEF Stopped
<1> HIDE DEF u
<1>8. OnlyOf(d, t, u)
    BY <1>5, <1>6, <1>7 DEF OnlyOf, Assigned
<1>9. QED
    BY <1>7, <1>8 DEF u

LEMMA AddedRow ==
    ASSUME NEW t, NEW u, NEW d, OnlyOf(d, t, u), DOMAIN u = DOMAIN t,
           NEW n, NEW c, NEW f
    PROVE  OnlyOf(d, t, Append(u, NewRecord(d, n, c, f)))
<1>1. PICK new : new = NewRecord(d, n, c, f)
    OBVIOUS
<1>2. PICK S : u \in Seq(S)
    BY DEF OnlyOf, Assigned
<1>3. PICK m : m = Append(u, new)
    OBVIOUS
<1>4. u \in Seq(S \cup {new}) /\ new \in S \cup {new}
    BY <1>2, SeqMonotonic
<1>5. /\ m \in Seq(S \cup {new}) /\ Len(u) \in Nat /\ DOMAIN u = 1 .. Len(u)
      /\ DOMAIN m = 1 .. Len(u) + 1
      /\ \A i \in DOMAIN u : m[i] = u[i]
      /\ m[Len(u) + 1] = new
    BY <1>3, <1>4
<1>6. "dataset" \in DOMAIN new /\ new.dataset = d
    BY <1>1 DEF NewRecord
<1>7. \A i \in DOMAIN m : i \in DOMAIN u \/ i = Len(u) + 1
    BY <1>5
<1>8. QED
    BY <1>1, <1>3, <1>5, <1>6, <1>7 DEF OnlyOf, Assigned

LEMMA ImportedRows ==
    ASSUME NEW t, Assigned(t), NEW d, NEW f, NEW rows, Len(rows) \in Nat, NEW n
    PROVE  OnlyOf(d, t, Imported(t, d, f, rows, n).records)
<1>1. PICK number : number = RowNumbers(t, d, rows, n)
    OBVIOUS
<1>2. PICK more : more = [i \in 1 .. Len(rows) |-> NewRecord(d, number[i], 0, f)]
    OBVIOUS
<1>3. PICK m : m = t \o more
    OBVIOUS
<1>4. Imported(t, d, f, rows, n).records = m
    BY <1>1, <1>2, <1>3 DEF Imported
<1>5. PICK S : t \in Seq(S)
    BY DEF Assigned
<1>6. PICK T : T = S \cup {NewRecord(d, number[i], 0, f) : i \in 1 .. Len(rows)}
    OBVIOUS
<1>7. S \subseteq T
    BY <1>6
<1>8. t \in Seq(T)
    BY <1>5, <1>7, SeqMonotonic
<1>9. more \in [1 .. Len(rows) -> T]
    BY <1>2, <1>6
<1>10. more \in Seq(T) /\ Len(more) = Len(rows)
    BY <1>2, <1>9
<1>11. /\ m \in Seq(T) /\ Len(t) \in Nat /\ DOMAIN t = 1 .. Len(t)
       /\ DOMAIN m = 1 .. Len(t) + Len(rows)
       /\ \A i \in DOMAIN t : m[i] = t[i]
       /\ \A i \in DOMAIN m \ DOMAIN t : m[i] = more[i - Len(t)]
  <2>1. m \in Seq(T) /\ Len(m) = Len(t) + Len(more)
    BY <1>3, <1>8, <1>10, ConcatProperties
  <2>2. Len(t) \in Nat /\ DOMAIN t = 1 .. Len(t) /\ DOMAIN m = 1 .. Len(t) + Len(rows)
    BY <1>8, <1>10, <2>1
  <2>3. \A i \in 1 .. Len(t) + Len(rows) :
            m[i] = IF i <= Len(t) THEN t[i] ELSE more[i - Len(t)]
    BY <1>3, <1>8, <1>10, ConcatProperties
  <2>4. QED
    BY <2>1, <2>2, <2>3
<1>12. \A i \in 1 .. Len(rows) : "dataset" \in DOMAIN more[i] /\ more[i].dataset = d
    BY <1>2 DEF NewRecord
<1>13. \A i \in DOMAIN m \ DOMAIN t : i - Len(t) \in 1 .. Len(rows)
    BY <1>11
<1>14. \A i \in DOMAIN m \ DOMAIN t : "dataset" \in DOMAIN m[i] /\ m[i].dataset = d
    BY <1>11, <1>12, <1>13
<1>15. QED
    BY <1>4, <1>11, <1>14 DEF OnlyOf, Assigned

(* A step adds rows to a data set that was open, or stops one of its rows. *)
LEMMA RegisterSettles ==
    ASSUME Assigned(records), RegisterStep
    PROVE  Assigned(records') /\ (Register!SettledStep \/ UNCHANGED Register!vars)
<1>1. CASE records' = records
    BY <1>1, RegisterComputes DEF Register!SettledStep
<1>2. ASSUME NEW d, Register!Editable(d), OnlyOf(d, records, records')
      PROVE  Assigned(records') /\ Register!SettledStep
  <2>1. SUFFICES ASSUME NEW e \in DOMAIN datasets, ~Register!Editable(e)
                 PROVE  /\ Of(records', e) = Of(records, e)
                        /\ \A i \in Of(records, e) : records'[i] = records[i]
    BY <1>2, RegisterComputes DEF Register!SettledStep, OnlyOf
  <2>2. e # d
    BY <1>2, <2>1
  <2>3. QED
    BY <1>2, <2>2, OthersAreSettled
<1>3. ASSUME NEW d, NEW c, Register!AddRecord(d, c)
      PROVE  Register!Editable(d) /\ OnlyOf(d, records, records')
  <2>1. PICK u : u = Stopped(records, c)
    OBVIOUS
  <2>2. c \in DOMAIN records => records[c].dataset = d
    <3>1. Register!Of(records, d) = Of(records, d)
      BY RegisterComputes
    <3>2. c = 0 \/ c \in Of(records, d)
      BY <1>3, <3>1 DEF Register!AddRecord
    <3>3. PICK S : records \in Seq(S)
      BY DEF Assigned
    <3>4. 0 \notin DOMAIN records
      BY <3>3
    <3>5. QED
      BY <3>2, <3>4 DEF Of
  <2>3. OnlyOf(d, records, u) /\ DOMAIN u = DOMAIN records
    BY <2>1, <2>2, StoppedRows
  <2>4. PICK n : n = Register!NextNumber(records, d)
    OBVIOUS
  <2>5. Register!NewRecord(d, n, c, NoFile) = NewRecord(d, n, c, NoFile)
    BY RegisterComputes
  <2>6. records' = Append(u, NewRecord(d, n, c, NoFile))
    BY <1>3, <2>1, <2>4, <2>5 DEF Register!AddRecord, Stopped
  <2>7. QED
    BY <1>3, <2>3, <2>6, AddedRow DEF Register!AddRecord
<1>4. ASSUME NEW d, NEW r \in Requests, r.op = "import", Register!Import(d, r.file)
      PROVE  Register!Editable(d) /\ OnlyOf(d, records, records')
  <2>1. PICK n : n = Register!RowNumber(Register!NumbersOf(records, d), Head(r.file.rows))
    OBVIOUS
  <2>2. records' = Register!Imported(records, d, r.file.name, r.file.rows, n).records
    BY <1>4, <2>1 DEF Register!Import
  <2>3. Len(r.file.rows) \in Nat
    BY <1>4, RequestsAssumption
  <2>4. QED
    BY <1>4, <2>2, <2>3, RegisterImports, ImportedRows DEF Register!Import
<1>5. ASSUME NEW i \in DOMAIN records, Register!Invalidate(i)
      PROVE  /\ Register!Editable(records[i].dataset)
             /\ OnlyOf(records[i].dataset, records, records')
  <2>1. PICK d : d = records[i].dataset
    OBVIOUS
  <2>2. records' = Stopped(records, i)
    BY <1>5 DEF Register!Invalidate, Stopped
  <2>3. OnlyOf(d, records, records')
    BY <2>1, <2>2, StoppedRows
  <2>4. QED
    BY <1>5, <2>1, <2>3 DEF Register!Invalidate
<1>6. CASE UNCHANGED Register!vars
    BY <1>1, <1>6 DEF Register!vars
<1>7. CASE \/ \E code, user : Register!CreateStudy(code, user)
           \/ \E s, op, user : Register!Move(s, op, user)
           \/ \E s, text, code : Register!Patch(s, text) \/ Register!CreateDataset(s, code)
           \/ \E d : Register!Lock(d)
    BY <1>1, <1>7 DEF Register!CreateStudy, Register!Move, Register!Patch,
                      Register!CreateDataset, Register!Lock
<1>8. ASSUME NEW d \in DOMAIN datasets, NEW c, Register!AddRecord(d, c)
      PROVE  Assigned(records') /\ Register!SettledStep
    BY <1>2, <1>3, <1>8
<1>9. ASSUME NEW d \in DOMAIN datasets,
             NEW file \in {r.file : r \in {q \in Requests : q.op = "import"}},
             Register!Import(d, file)
      PROVE  Assigned(records') /\ Register!SettledStep
    BY <1>2, <1>4, <1>9
<1>10. ASSUME NEW i \in DOMAIN records, Register!Invalidate(i)
       PROVE  Assigned(records') /\ Register!SettledStep
    BY <1>2, <1>5, <1>10
<1>11. QED
    BY <1>6, <1>7, <1>8, <1>9, <1>10 DEF RegisterStep, Register!Next

(* Once a data set is locked or its study approved, its measurements are   *)
(* settled: the register adds none, stops none and corrects none.          *)
THEOREM RegisterSettlesMeasurements == Register!Spec => Register!SettledStands
<1>1. Register!Init => Assigned(records)
  <2>1. <<>> \in Seq({}) /\ DOMAIN <<>> = {}
    OBVIOUS
  <2>2. QED
    BY <2>1 DEF Register!Init, Assigned
<1>2. Assigned(records) /\ [Register!Next]_(Register!vars) => Assigned(records)'
    BY RegisterSettles DEF RegisterStep
<1>3. Assigned(records) /\ [Register!Next]_(Register!vars)
          => [Register!SettledStep]_(Register!vars)
    BY RegisterSettles DEF RegisterStep
<1>4. QED
    BY <1>1, <1>2, <1>3, PTL DEF Register!Spec, Register!SettledStands

(* And so does a server with one thread.                                   *)
THEOREM SerialStudiesSettle ==
    ASSUME NEW w, Workers = {w}
    PROVE  Spec => Register!SettledStands
BY SerialStudiesImplementRegister, RegisterSettlesMeasurements, PTL

-----------------------------------------------------------------------------
(* Late changes.                                                           *)

(* What a request has found: the study its data set belongs to, the data   *)
(* set of its record, and that the data set was not locked.                *)
DataFound(w) ==
    /\ pc[w] \in {"study", "again"} /\ req[w].op \in RecordOps =>
           ctx[w].study = datasets[ctx[w].dataset].study
    /\ pc[w] \in {"study", "change"} /\ req[w].op = "invalidate" =>
           records[ctx[w].record].dataset = ctx[w].dataset
    /\ pc[w] \in {"number", "change"} /\ req[w].op \in RecordOps => ~ctx[w].locked

LateInv == StudyInv /\ \A w \in Workers : DataFound(w)

DatasetsStay ==
    \A i \in DOMAIN datasets :
        i \in DOMAIN datasets' /\ datasets'[i].study = datasets[i].study

(* A step by which a worker does not get past a check that refuses.        *)
EntersNothing(w) ==
    \A d \in DOMAIN datasets :
        /\ Approved(d) /\ w \in PastApproval(d)' => w \in PastApproval(d)
        /\ datasets[d].locked /\ w \in PastLock(d)' => w \in PastLock(d)

LEMMA OthersStayFound ==
    ASSUME StudyInv, NEW x \in Workers, DataFound(x), DatasetsStay, RecordsStand,
           pc'[x] = pc[x], req'[x] = req[x], ctx'[x] = ctx[x]
    PROVE  DataFound(x)'
<1>1. pc[x] \in {"study", "again"} /\ req[x].op \in RecordOps => ctx[x].dataset \in DOMAIN datasets
    BY DEF StudyInv, WorkerInv, RowsKnown, RecordOps, DatasetOps
<1>2. pc[x] \in {"study", "change"} /\ req[x].op = "invalidate" => ctx[x].record \in DOMAIN records
    BY DEF StudyInv, WorkerInv, RowsKnown
<1>3. \A i \in DOMAIN records : records'[i].dataset = records[i].dataset
  <2>1. PICK Numbers : records \in Seq(RecordRow(Numbers))
    BY DEF StudyInv, RowsTyped
  <2>2. \A i \in DOMAIN records : records[i] \in RecordRow(Numbers)
    BY <2>1
  <2>3. QED
    BY <2>2 DEF RecordsStand, RecordRow
<1>4. QED
    BY <1>1, <1>2, <1>3 DEF DataFound, DatasetsStay

(* A worker that is not between a check and its write.                     *)
LEMMA Elsewhere ==
    ASSUME NEW w \in Workers,
           \/ pc'[w] \notin {"study", "again", "number", "change"}
           \/ req'[w].op \notin RecordOps
    PROVE  DataFound(w)' /\ EntersNothing(w)
BY DEF DataFound, EntersNothing, PastApproval, PastLock, Handling, RecordOps

LEMMA RefusedLeaves ==
    ASSUME StudyInv, NEW w \in Workers, Finish(w) \/ Commit(w)
    PROVE  DataFound(w)' /\ EntersNothing(w)
<1>1. pc'[w] \in {"idle", "audit"}
    BY DEF StudyInv, LocalsTyped, Finish, Commit
<1>2. QED
    BY <1>1, Elsewhere

LEMMA ReceiveEnters ==
    ASSUME StudyInv, NEW w \in Workers, NEW r \in Requests, Receive(w, r)
    PROVE  DataFound(w)' /\ EntersNothing(w)
<1>1. pc'[w] \in {"code", "dataset", "record"} \/ r.op \in StudyOps
    BY DEF StudyInv, LocalsTyped, Receive
<1>2. req'[w] = r
    BY DEF StudyInv, LocalsTyped, Receive
<1>3. QED
    BY <1>1, <1>2, Elsewhere DEF StudyOps, TargetStatus, RecordOps

LEMMA SeeDatasetEnters ==
    ASSUME StudyInv, NEW w \in Workers, NEW d \in DOMAIN datasets,
           NEW step \in {"study", "again", "change"}, SeeDataset(w, d, step),
           step = "change" => req[w].op \in {"patch_dataset", "lock"},
           req[w].op = "invalidate" => records[ctx[w].record].dataset = d
    PROVE  DataFound(w)' /\ EntersNothing(w)
<1>1. /\ pc'[w] = step /\ UNCHANGED <<studies, datasets, records, req>>
      /\ ctx'[w].dataset = d /\ ctx'[w].study = datasets[d].study
      /\ ctx'[w].locked = datasets[d].locked /\ ctx'[w].record = ctx[w].record
    BY DEF StudyInv, LocalsTyped, SeeDataset, Goto, tables, NoContext
<1>2. CASE step = "change"
    BY <1>1, <1>2, Elsewhere DEF RecordOps
<1>3. CASE step \in {"study", "again"}
  <2>1. DataFound(w)'
    BY <1>1, <1>3 DEF DataFound
  <2>2. EntersNothing(w)
    BY <1>1, <1>3 DEF EntersNothing, PastApproval, PastLock, Handling
  <2>3. QED
    BY <2>1, <2>2
<1>4. QED
    BY <1>2, <1>3

LEMMA ReadRecordEnters ==
    ASSUME StudyInv, NEW w \in Workers, ReadRecord(w)
    PROVE  DataFound(w)' /\ EntersNothing(w)
<1>1. req[w].op = "invalidate"
    BY DEF ReadRecord, StudyInv, WorkerInv, Placed
<1>2. CASE \E answer : Refuse(w, answer)
    BY <1>2, RefusedLeaves DEF Refuse
<1>3. CASE /\ ctx[w].record \in DOMAIN records
           /\ SeeDataset(w, records[ctx[w].record].dataset, "study")
  <2>1. records[ctx[w].record].dataset \in DOMAIN datasets
    BY <1>3 DEF StudyInv, TablesInv
  <2>2. QED
    BY <1>1, <1>3, <2>1, SeeDatasetEnters
<1>4. QED
    BY <1>2, <1>3 DEF ReadRecord

LEMMA ReadDatasetEnters ==
    ASSUME StudyInv, NEW w \in Workers, ReadDataset(w)
    PROVE  DataFound(w)' /\ EntersNothing(w)
<1> DEFINE d == ctx[w].dataset
<1>1. req[w].op \in DatasetOps
    BY DEF ReadDataset, StudyInv, WorkerInv, Placed
<1>2. CASE \E answer : Refuse(w, answer)
    BY <1>2, RefusedLeaves DEF Refuse
<1>3. ASSUME NEW step \in {"study", "again", "change"}, SeeDataset(w, d, step),
             d \in DOMAIN datasets,
             step = "change" => req[w].op \in {"patch_dataset", "lock"}
      PROVE  DataFound(w)' /\ EntersNothing(w)
    BY <1>1, <1>3, SeeDatasetEnters DEF DatasetOps
<1>4. QED
    BY <1>2, <1>3 DEF ReadDataset

(* get_study: who goes on has found the study of the data set open, and    *)
(* had found the data set unlocked.                                        *)
LEMMA ReadStudyEnters ==
    ASSUME StudyInv, NEW w \in Workers, DataFound(w), ReadStudy(w)
    PROVE  DataFound(w)' /\ EntersNothing(w)
<1> DEFINE r == req[w]
           s == ctx[w].study
<1>1. pc[w] \in {"study", "again"} /\ (pc[w] = "again" => r.op = "import")
    BY DEF ReadStudy, StudyInv, WorkerInv, Placed
<1>2. CASE \E answer : Refuse(w, answer)
    BY <1>2, RefusedLeaves DEF Refuse
<1>3. CASE /\ s \in DOMAIN studies /\ StudyVerdict(w, studies[s]) = "go"
           /\ Goto(w, AfterStudy(r.op)) /\ ctx' = [ctx EXCEPT ![w].seen = studies[s].status]
  <2>1. /\ pc'[w] = AfterStudy(r.op) /\ UNCHANGED <<studies, datasets, records, req>>
        /\ ctx'[w].dataset = ctx[w].dataset /\ ctx'[w].record = ctx[w].record
        /\ ctx'[w].locked = ctx[w].locked
    BY <1>3 DEF StudyInv, LocalsTyped, Goto, tables, NoContext
  <2>2. CASE r.op \notin RecordOps
    BY <2>1, <2>2, Elsewhere
  <2>3. CASE r.op \in RecordOps
    <3>1. RecordVerdict(r, studies[s].status, ctx[w].locked, pc[w] = "again") = "go"
      BY <1>3, <2>3 DEF StudyVerdict, RecordOps, TargetStatus
    <3>2. studies[s].status # "approved" /\ ~ctx[w].locked /\ pc[w] = "study"
      BY <1>1, <3>1 DEF RecordVerdict
    <3>3. pc'[w] \in {"number", "change"} /\ (pc'[w] = "change" => r.op = "invalidate")
      BY <2>1, <2>3 DEF AfterStudy, RecordOps
    <3>4. s = datasets[ctx[w].dataset].study
      BY <2>3, <3>2 DEF DataFound
    <3>5. DataFound(w)'
      BY <2>1, <3>2, <3>3 DEF DataFound
    <3>6. EntersNothing(w)
      BY <2>1, <2>3, <3>2, <3>4 DEF EntersNothing, PastApproval, PastLock, Handling, Approved
    <3>7. QED
      BY <3>5, <3>6
  <2>4. QED
    BY <2>2, <2>3
<1>4. QED
    BY <1>2, <1>3 DEF ReadStudy

LEMMA OtherReadsEnter ==
    ASSUME StudyInv, NEW w \in Workers, DataFound(w),
           FindCode(w) \/ CountRecords(w) \/ PickNumber(w)
    PROVE  DataFound(w)' /\ EntersNothing(w)
<1>1. CASE Finish(w)
    BY <1>1, RefusedLeaves
<1>2. ASSUME FindCode(w) \/ CountRecords(w), Goto(w, "change")
      PROVE  DataFound(w)' /\ EntersNothing(w)
  <2>1. req[w].op \in {"create_study", "create_dataset", "complete"}
    BY <1>2 DEF FindCode, CountRecords, StudyInv, WorkerInv, Placed
  <2>2. req' = req
    BY <1>2 DEF Goto
  <2>3. QED
    BY <2>1, <2>2, Elsewhere DEF RecordOps
<1>3. ASSUME PickNumber(w), Goto(w, "change"), NEW n, ctx' = [ctx EXCEPT ![w].number = n]
      PROVE  DataFound(w)' /\ EntersNothing(w)
  <2>1. /\ pc[w] = "number" /\ req[w].op \in {"create_record", "import"}
        /\ pc'[w] = "change" /\ UNCHANGED <<studies, datasets, records, req>>
        /\ ctx'[w].dataset = ctx[w].dataset /\ ctx'[w].locked = ctx[w].locked
    BY <1>3 DEF PickNumber, StudyInv, LocalsTyped, WorkerInv, Placed, Goto, tables, NoContext
  <2>2. DataFound(w)'
    BY <2>1 DEF DataFound, RecordOps
  <2>3. EntersNothing(w)
    BY <2>1 DEF EntersNothing, PastApproval, PastLock, Handling
  <2>4. QED
    BY <2>2, <2>3
<1>4. QED
    BY <1>1, <1>2, <1>3 DEF FindCode, CountRecords, PickNumber, Refuse

LEMMA ChangesLeave ==
    ASSUME StudyInv, NEW w \in Workers,
           \/ InsertStudy(w) \/ InsertDataset(w) \/ UpdateStudy(w) \/ UpdateDataset(w)
           \/ InsertRecord(w) \/ ImportRows(w) \/ InvalidateRecord(w)
           \/ Audit(w) \/ Busy(w)
    PROVE  DataFound(w)' /\ EntersNothing(w)
BY RefusedLeaves DEF InsertStudy, InsertDataset, UpdateStudy, UpdateDataset, InsertRecord,
                     ImportRows, InvalidateRecord, Audit, Busy, Refuse

LEMMA RequestEnters ==
    ASSUME StudyInv, NEW w \in Workers, DataFound(w), RequestStep(w)
    PROVE  DataFound(w)' /\ EntersNothing(w)
<1>1. w \in Workers
    OBVIOUS
<1>2. ASSUME NEW r \in Requests, Receive(w, r) PROVE DataFound(w)' /\ EntersNothing(w)
    BY <1>1, <1>2, ReceiveEnters
<1>3. CASE Step(w) \/ Busy(w)
    BY <1>1, <1>3, ReadRecordEnters, ReadDatasetEnters, ReadStudyEnters, OtherReadsEnter,
       ChangesLeave DEF Step
<1>4. QED
    BY <1>2, <1>3 DEF RequestStep

(* A step moves its own worker only, and data sets keep their study.       *)
LEMMA RequestMoves ==
    ASSUME StudyInv, NEW w \in Workers, RequestStep(w)
    PROVE  OthersSame(w) /\ DatasetsStay
<1>1. OthersSame(w)
  <2>1. CASE Finish(w)
    BY <2>1 DEF OthersSame, Finish, StudyInv, LocalsTyped
  <2>2. CASE Commit(w)
    BY <2>2 DEF OthersSame, Commit, StudyInv, LocalsTyped
  <2>3. CASE \E step : Goto(w, step) /\ \A x \in Workers \ {w} : ctx'[x] = ctx[x]
    BY <2>3 DEF OthersSame, Goto, StudyInv, LocalsTyped
  <2>4. CASE \E r \in Requests : Receive(w, r)
    BY <2>4 DEF OthersSame, Receive, StudyInv, LocalsTyped
  <2>5. CASE FindCode(w) \/ CountRecords(w)
    BY <2>1, <2>3, <2>5 DEF FindCode, CountRecords, Refuse
  <2>6. CASE \E d, step : SeeDataset(w, d, step)
    BY <2>3, <2>6 DEF SeeDataset, StudyInv, LocalsTyped
  <2>7. CASE ReadRecord(w) \/ ReadDataset(w)
    BY <2>1, <2>6, <2>7 DEF ReadRecord, ReadDataset, Refuse
  <2>8. CASE ReadStudy(w) \/ PickNumber(w)
    <3>1. Finish(w) \/ \E step : Goto(w, step) /\ \E c : ctx' = [ctx EXCEPT ![w] = c]
      BY <2>8 DEF ReadStudy, PickNumber, Refuse
    <3>2. QED
      BY <2>1, <2>3, <3>1 DEF StudyInv, LocalsTyped
  <2>9. QED
    BY <2>1, <2>2, <2>4, <2>5, <2>7, <2>8
       DEF RequestStep, Step, Busy, InsertStudy, InsertDataset, UpdateStudy, UpdateDataset,
       InsertRecord, ImportRows, InvalidateRecord, Audit, Refuse
<1>2. datasets \in Seq(DatasetRow) /\ \A i \in DOMAIN datasets : datasets[i] \in DatasetRow
    BY DEF StudyInv, RowsTyped
<1>3. ASSUME datasets' = datasets PROVE DatasetsStay
    BY <1>3 DEF DatasetsStay
<1>4. ASSUME NEW row, datasets' = Append(datasets, row) PROVE DatasetsStay
    BY <1>2, <1>4, AppendProperties DEF DatasetsStay
<1>5. ASSUME NEW d, NEW v, \/ datasets' = [datasets EXCEPT ![d].locked = v]
                           \/ datasets' = [datasets EXCEPT ![d].file = v]
      PROVE  DatasetsStay
    BY <1>2, <1>5 DEF DatasetsStay, DatasetRow
<1>6. DatasetsStay
    BY <1>3, <1>4, <1>5
       DEF RequestStep, Step, Busy, Receive, ReadRecord, ReadDataset, ReadStudy, FindCode,
       CountRecords, PickNumber, InsertStudy, InsertDataset, UpdateStudy, UpdateDataset,
       InsertRecord, ImportRows, InvalidateRecord, Audit, SeeDataset, Refuse, Goto, tables
<1>7. QED
    BY <1>1, <1>6

LEMMA RowsOfOthers ==
    ASSUME NEW d, OnlyOf(d, records, records'), NEW e, e # d
    PROVE  RowsOf(e)' = RowsOf(e)
<1>1. Of(records', e) = Of(records, e) /\ \A i \in Of(records, e) : records'[i] = records[i]
    BY OthersAreSettled
<1>2. QED
    BY <1>1 DEF RowsOf

(* Who changes rows is past both checks, and leaves.                       *)
LEMMA ChangesOwnRows ==
    ASSUME StudyInv, NEW w \in Workers, DataFound(w), RequestStep(w),
           NEW d, RowsOf(d)' # RowsOf(d)
    PROVE  w \in PastApproval(d) /\ w \in PastLock(d) /\ pc'[w] = "audit"
<1>1. records' # records
    BY DEF RowsOf
<1>2. Assigned(records)
  <2>1. PICK Numbers : records \in Seq(RecordRow(Numbers))
    BY DEF StudyInv, RowsTyped
  <2>2. \A i \in DOMAIN records : records[i] \in RecordRow(Numbers)
    BY <2>1
  <2>3. QED
    BY <2>1, <2>2 DEF Assigned, RecordRow
<1>3. PICK e : e = ctx[w].dataset
    OBVIOUS
<1>4. SUFFICES /\ pc[w] = "change" /\ req[w].op \in RecordOps /\ Commit(w)
               /\ OnlyOf(e, records, records')
  <2>1. SUFFICES ASSUME pc[w] = "change", req[w].op \in RecordOps, Commit(w),
                        OnlyOf(e, records, records')
                 PROVE  w \in PastApproval(d) /\ w \in PastLock(d) /\ pc'[w] = "audit"
    OBVIOUS
  <2>2. d = e
    BY <2>1, RowsOfOthers
  <2>3. ~ctx[w].locked
    BY <2>1 DEF DataFound
  <2>4. pc'[w] = "audit"
    BY <2>1 DEF Commit, StudyInv, LocalsTyped
  <2>5. QED
    BY <1>3, <2>1, <2>2, <2>3, <2>4 DEF PastApproval, PastLock, Handling
<1>5. CASE InsertRecord(w)
  <2>1. PICK c : c = req[w].corrects
    OBVIOUS
  <2>2. pc[w] = "change" /\ req[w].op = "create_record" /\ Commit(w)
    BY <1>1, <1>5 DEF InsertRecord, Refuse, tables
  <2>3. c \in DOMAIN records => records[c].dataset = e
    <3>1. 0 \notin DOMAIN records
      BY <1>2 DEF Assigned
    <3>2. c = 0 \/ c \in Of(records, e)
      BY <1>3, <2>1, <2>2 DEF StudyInv, WorkerInv, RowsKnown
    <3>3. QED
      BY <3>1, <3>2 DEF Of
  <2>4. PICK u : u = Stopped(records, c)
    OBVIOUS
  <2>5. OnlyOf(e, records, u) /\ DOMAIN u = DOMAIN records
    BY <1>2, <2>3, <2>4, StoppedRows
  <2>6. records' = Append(u, NewRecord(e, ctx[w].number, c, NoFile))
    BY <1>1, <1>3, <1>5, <2>1, <2>4 DEF InsertRecord, Refuse, tables, Stopped
  <2>7. OnlyOf(e, records, records')
    BY <2>5, <2>6, AddedRow
  <2>8. QED
    BY <2>2, <2>7 DEF RecordOps
<1>6. CASE ImportRows(w)
  <2>1. pc[w] = "change" /\ req[w].op = "import" /\ Commit(w)
    BY <1>1, <1>6 DEF ImportRows, Refuse, tables
  <2>2. req[w] \in Requests
    BY <2>1 DEF StudyInv, WorkerInv, Placed
  <2>3. Len(req[w].file.rows) \in Nat
    BY <2>1, <2>2, RequestsAssumption
  <2>4. records' = Imported(records, e, req[w].file.name, req[w].file.rows, ctx[w].number).records
    BY <1>1, <1>3, <1>6 DEF ImportRows, Refuse, tables
  <2>5. OnlyOf(e, records, records')
    BY <1>2, <2>3, <2>4, ImportedRows
  <2>6. QED
    BY <2>1, <2>5 DEF RecordOps
<1>7. CASE InvalidateRecord(w)
  <2>1. pc[w] = "change" /\ req[w].op = "invalidate" /\ Commit(w)
    BY <1>7 DEF InvalidateRecord
  <2>2. PICK i : i = ctx[w].record
    OBVIOUS
  <2>3. i \in DOMAIN records /\ records[i].dataset = e
    BY <1>3, <2>1, <2>2 DEF DataFound, StudyInv, WorkerInv, RowsKnown
  <2>4. records' = Stopped(records, i)
    BY <1>7, <2>2, <2>3 DEF InvalidateRecord, Stopped
  <2>5. OnlyOf(e, records, records')
    BY <1>2, <2>3, <2>4, StoppedRows
  <2>6. QED
    BY <2>1, <2>5 DEF RecordOps
<1>8. QED
    BY <1>1, <1>5, <1>6, <1>7
       DEF RequestStep, Step, Busy, Receive, ReadRecord, ReadDataset, ReadStudy, FindCode,
       CountRecords, PickNumber, InsertStudy, InsertDataset, UpdateStudy, UpdateDataset,
       Audit, SeeDataset, Refuse, Goto, tables

LEMMA LateChangesStep ==
    ASSUME StudyInv, NEW w \in Workers, DataFound(w), RequestStep(w)
    PROVE  LateChangesRunOut
<1> SUFFICES ASSUME NEW d \in DOMAIN datasets
             PROVE  /\ Approved(d) => UsesUp(PastApproval(d), PastApproval(d)',
                                             RowsOf(d)' # RowsOf(d))
                    /\ datasets[d].locked => UsesUp(PastLock(d), PastLock(d)',
                                                    RowsOf(d)' # RowsOf(d))
    BY DEF LateChangesRunOut
<1>1. OthersSame(w) /\ EntersNothing(w)
    BY RequestMoves, RequestEnters
<1>2. RowsOf(d)' # RowsOf(d) =>
          w \in PastApproval(d) /\ w \in PastLock(d) /\ pc'[w] = "audit"
    BY ChangesOwnRows
<1>3. \A x \in Workers \ {w} : /\ x \in PastApproval(d)' <=> x \in PastApproval(d)
                               /\ x \in PastLock(d)' <=> x \in PastLock(d)
    BY <1>1 DEF OthersSame, PastApproval, PastLock, Handling
<1>4. PastApproval(d)' \subseteq Workers /\ PastLock(d)' \subseteq Workers
    BY DEF PastApproval, PastLock, Handling
<1>5. pc'[w] = "audit" => w \notin PastApproval(d)' /\ w \notin PastLock(d)'
    BY DEF PastApproval, PastLock, Handling
<1>6. Approved(d) => PastApproval(d)' \subseteq PastApproval(d)
    BY <1>1, <1>3, <1>4 DEF EntersNothing
<1>7. datasets[d].locked => PastLock(d)' \subseteq PastLock(d)
    BY <1>1, <1>3, <1>4 DEF EntersNothing
<1>8. RowsOf(d)' # RowsOf(d) =>
          PastApproval(d)' # PastApproval(d) /\ PastLock(d)' # PastLock(d)
    BY <1>2, <1>5
<1>9. QED
    BY <1>6, <1>7, <1>8 DEF UsesUp

(* A step that leaves the rows and gets nobody past a check.               *)
LEMMA QuietStep ==
    ASSUME records' = records,
           \A d : PastApproval(d)' \subseteq PastApproval(d) /\ PastLock(d)' \subseteq PastLock(d)
    PROVE  LateChangesRunOut
BY DEF LateChangesRunOut, UsesUp, RowsOf

LEMMA LateNext == LateInv /\ [Next]_vars => LateInv' /\ RecordsStand /\ LateChangesRunOut
<1> SUFFICES ASSUME LateInv, [Next]_vars
             PROVE  LateInv' /\ RecordsStand /\ LateChangesRunOut
    OBVIOUS
<1>1. StudyInv' /\ RecordsStand
    BY StudyNext DEF LateInv
<1>2. StudyInv /\ \A x \in Workers : DataFound(x)
    BY DEF LateInv
<1>3. ASSUME NEW w \in Workers, RequestStep(w) PROVE LateInv' /\ LateChangesRunOut
  <2>1. OthersSame(w) /\ DatasetsStay
    BY <1>2, <1>3, RequestMoves
  <2>2. ASSUME NEW x \in Workers PROVE DataFound(x)'
    <3>1. CASE x = w
      BY <1>2, <1>3, <3>1, RequestEnters
    <3>2. CASE x # w
      BY <1>1, <1>2, <2>1, <3>2, OthersStayFound DEF OthersSame
    <3>3. QED
      BY <3>1, <3>2
  <2>3. LateChangesRunOut
    BY <1>2, <1>3, LateChangesStep
  <2>4. QED
    BY <1>1, <2>2, <2>3 DEF LateInv
<1>4. CASE Crash
  <2>1. records' = records /\ \A x \in Workers : pc'[x] = "idle"
    BY <1>4 DEF Crash, tables
  <2>2. \A x \in Workers : DataFound(x)'
    BY <2>1 DEF DataFound
  <2>3. \A d : PastApproval(d)' = {} /\ PastLock(d)' = {}
    BY <2>1 DEF PastApproval, PastLock, Handling
  <2>4. QED
    BY <1>1, <2>1, <2>2, <2>3, QuietStep DEF LateInv
<1>5. CASE UNCHANGED vars
  <2>1. UNCHANGED <<studies, datasets, records, pc, req, ctx>>
    BY <1>5 DEF vars, tables
  <2>2. \A x \in Workers : DataFound(x)'
    BY <1>2, <2>1 DEF DataFound
  <2>3. \A d : PastApproval(d)' = PastApproval(d) /\ PastLock(d)' = PastLock(d)
    BY <2>1 DEF PastApproval, PastLock, Handling
  <2>4. QED
    BY <1>1, <2>1, <2>2, <2>3, QuietStep DEF LateInv
<1>6. QED
    BY <1>1, <1>3, <1>4, <1>5 DEF Next, RequestStep

(* No step deletes a measurement, changes it or makes it count again       *)
(* (invalidate_record, create_record); and once a study is approved or a   *)
(* data set locked, each request that was past the check changes at most   *)
(* once what is measured, and no other does (_assert_study_editable).      *)
THEOREM MeasurementsAreKept == Spec => MeasurementsStand
<1>1. Init => LateInv
  <2> SUFFICES ASSUME Init PROVE LateInv
    OBVIOUS
  <2>1. \A w \in Workers : DataFound(w)
    BY DEF Init, DataFound
  <2>2. QED
    BY <2>1, StudyInit DEF LateInv
<1>2. LateInv /\ [Next]_vars => LateInv'
    BY LateNext
<1>3. LateInv /\ [Next]_vars => [RecordsStand /\ LateChangesRunOut]_vars
    BY LateNext
<1>4. QED
    BY <1>1, <1>2, <1>3, PTL DEF Spec, MeasurementsStand

-----------------------------------------------------------------------------
(* The mixes of the run, some of which begin with rows.                    *)

MixInv == mix \in Mixes

LEMMA MixesTaken ==
    ASSUME MixInv
    PROVE  /\ mix.requests \subseteq AllRequests
           /\ mix.rows \in {Nothing, Collecting, Submitted, Unmeasured}
<1>1. WholeReview \subseteq AllRequests
    BY DEF WholeReview, AllRequests, FirstRows, Review, Editing, Measuring
<1>2. QED
    BY <1>1 DEF MixInv, Mixes, Mix, AllRequests

(* The rows that a mix begins with are rows the requests can have made.    *)
LEMMA FixturesTyped ==
    ASSUME AllRequests \subseteq Requests, NEW status \in StudyStatus
    PROVE  /\ Study(status, NoUser) \in StudyRow /\ ann # NoUser
           /\ Dataset \in DatasetRow
           /\ Measured \in RecordRow({1})
<1>1. CreateStudy(ann) \in Requests
    BY DEF AllRequests, FirstRows
<1>2. "c1" \in Names /\ "first" \in Names /\ ann \in People /\ ann # NoUser
    BY <1>1, RequestsAssumption DEF CreateStudy, Names, People
<1>3. Study(status, NoUser) \in StudyRow
    BY <1>2 DEF Study, StudyRow
<1>4. Dataset \in DatasetRow
    BY <1>2 DEF Dataset, DatasetRow, FileNames
<1>5. Measured \in RecordRow({1})
    BY DEF Measured, NewRecord, RecordRow, FileNames
<1>6. QED
    BY <1>2, <1>3, <1>4, <1>5

LEMMA MixesBeginWell ==
    ASSUME AllRequests \subseteq Requests, MCInit
    PROVE  StudyInv /\ AllReadsHold /\ NoOverlap /\ (mix.rows = Nothing => Register!Init)
<1>1. MixInv
    BY DEF MCInit, MixInv
<1>2. \/ studies = <<>> /\ datasets = <<>> /\ records = <<>>
      \/ /\ \/ studies = <<Study("data_collection", NoUser)>>
            \/ studies = <<Study("under_review", NoUser)>>
         /\ datasets = <<Dataset>> /\ records = <<Measured>>
      \/ /\ studies = <<Study("data_collection", NoUser)>>
         /\ datasets = <<Dataset>> /\ records = <<>>
  <2>1. /\ studies = mix.rows.studies /\ datasets = mix.rows.datasets
        /\ records = mix.rows.records
    BY DEF MCInit
  <2>2. mix.rows \in {Nothing, Collecting, Submitted, Unmeasured}
    BY <1>1, MixesTaken
  <2>3. QED
    BY <2>1, <2>2 DEF Nothing, Collecting, Submitted, Unmeasured, Rows
<1>3. RowsTyped
  <2>1. /\ Study("data_collection", NoUser) \in StudyRow
        /\ Study("under_review", NoUser) \in StudyRow
        /\ Dataset \in DatasetRow /\ Measured \in RecordRow({1})
    BY FixturesTyped DEF StudyStatus
  <2>2. ASSUME NEW S, NEW x \in S PROVE <<>> \in Seq(S) /\ <<x>> \in Seq(S)
    OBVIOUS
  <2>3. /\ studies \in Seq(StudyRow) /\ datasets \in Seq(DatasetRow)
        /\ records \in Seq(RecordRow({1}))
    BY <1>2, <2>1, <2>2
  <2>4. QED
    BY <2>3 DEF RowsTyped
<1>4. LocalsTyped
    BY DEF MCInit, LocalsTyped, Points, NoContext
<1>5. TablesInv
  <2>1. /\ DOMAIN studies \subseteq {1} /\ DOMAIN datasets \subseteq {1}
        /\ DOMAIN records \subseteq {1}
        /\ DOMAIN datasets # {} => 1 \in DOMAIN studies
        /\ DOMAIN records # {} => 1 \in DOMAIN datasets
    BY <1>2
  <2>2. /\ \A i \in DOMAIN studies :
              /\ studies[i].author = ann /\ studies[i].approver = NoUser
              /\ \/ studies[i].status = "data_collection"
                 \/ studies[i].status = "under_review" /\ records = <<Measured>>
        /\ \A i \in DOMAIN datasets : datasets[i].study = 1
        /\ \A i \in DOMAIN records : records[i].dataset = 1 /\ records[i].corrects = 0
    BY <1>2 DEF Study, Dataset, Measured, NewRecord
  <2>3. ann # NoUser
    BY FixturesTyped DEF StudyStatus
  <2>4. /\ \A i \in DOMAIN datasets : datasets[i].study \in DOMAIN studies
        /\ \A i \in DOMAIN records : records[i].dataset \in DOMAIN datasets
    BY <2>1, <2>2
  <2>5. ApprovalGrounded
    <3>1. ASSUME NEW i \in DOMAIN studies,
                 studies[i].status \in {"completed", "under_review", "approved", "rejected"}
          PROVE  \E j \in DOMAIN records : datasets[records[j].dataset].study = i
      <4>1. records = <<Measured>>
        BY <2>2, <3>1
      <4>2. 1 \in DOMAIN records
        BY <4>1
      <4>3. i = 1 /\ datasets[records[1].dataset].study = 1
        BY <2>1, <2>2, <2>4, <4>2
      <4>4. QED
        BY <4>2, <4>3
    <3>2. QED
      BY <2>2, <3>1 DEF ApprovalGrounded
  <2>6. CorrectionsSupersede /\ NumbersUnique /\ ApprovalsAudited
    BY <2>1, <2>2 DEF MCInit, CorrectionsSupersede, NumbersUnique, ApprovalsAudited
  <2>7. QED
    BY <2>2, <2>3, <2>4, <2>5, <2>6 DEF TablesInv
<1>6. \A w \in Workers : WorkerInv(w) /\ ReadsHold(w)
    BY DEF MCInit, WorkerInv, Placed, RowsKnown, MoveReady, ReadsHold, DatasetReads, StudyReads,
       NumberReads
<1>7. NoOverlap
    BY DEF MCInit, NoOverlap
<1>8. mix.rows = Nothing => Register!Init
    BY DEF MCInit, Nothing, Rows, Register!Init
<1>9. QED
    BY <1>3, <1>4, <1>5, <1>6, <1>7, <1>8 DEF StudyInv, AllReadsHold

LEMMA MixKeepsNoOverlap ==
    ASSUME MixInv, StudyInv, Serial, NoOverlap, [MCNext]_<<vars, mix>>
    PROVE  NoOverlap'
<1>1. CASE UNCHANGED vars
    BY <1>1 DEF NoOverlap, vars
<1>2. CASE Crash
    BY <1>2 DEF NoOverlap, Crash
<1>3. ASSUME NEW w \in Workers, NEW r \in mix.requests, Receive(w, r),
             \A x \in Workers : pc[x] = "idle"
      PROVE  NoOverlap'
    BY <1>3 DEF Receive, NoOverlap, StudyInv, LocalsTyped
<1>4. ASSUME NEW w \in Workers, Step(w) \/ Busy(w) PROVE NoOverlap'
  <2>1. pc[w] # "idle"
    BY <1>4, IdleTakesNoStep
  <2>2. \A x \in Workers \ {w} : pc[x] = "idle" /\ pc'[x] = pc[x]
    BY <1>4, <2>1, StepsOwnPlace DEF NoOverlap, RequestStep
  <2>3. QED
    BY <2>2 DEF NoOverlap
<1>5. QED
    BY <1>1, <1>2, <1>3, <1>4 DEF MCNext

SerialInv == Serial => NoOverlap /\ AllReadsHold

(* The same of each behaviour in which no request comes while another is   *)
(* served, on a server that has many threads, and whatever rows it begins  *)
(* with: each step is one of the register or leaves the tables alone.      *)
THEOREM MixedStudiesImplementRegister ==
    ASSUME AllRequests \subseteq Requests
    PROVE  MCSpec => SerialImplementsRegister
<1>1. MCInit => MixInv /\ StudyInv /\ SerialInv /\ (mix.rows = Nothing => Register!Init)
    BY MixesBeginWell DEF MCInit, MixInv, SerialInv
<1>2. ASSUME MixInv, StudyInv, SerialInv, [MCNext]_<<vars, mix>>
      PROVE  /\ MixInv' /\ StudyInv' /\ SerialInv'
             /\ [Serial => Register!Next]_<<studies, datasets, records>>
  <2>1. mix' = mix
    BY <1>2 DEF MCNext
  <2>2. [Next]_vars
    BY <1>2, MixesTaken DEF MCNext, Next, vars
  <2>3. MixInv' /\ StudyInv'
    BY <1>2, <2>1, <2>2, StudyNext DEF MixInv
  <2>4. ASSUME Serial PROVE NoOverlap' /\ AllReadsHold' /\ RegisterStep
    BY <1>2, <2>2, <2>4, MixKeepsNoOverlap, NextKeepsReads, NextIsRegisterStep DEF SerialInv
  <2>5. SerialInv'
    BY <2>1, <2>4 DEF SerialInv, Serial
  <2>6. [Serial => Register!Next]_<<studies, datasets, records>>
    BY <2>4 DEF RegisterStep, Register!vars
  <2>7. QED
    BY <2>3, <2>5, <2>6
<1>3. QED
    BY <1>1, <1>2, PTL DEF MCSpec, SerialImplementsRegister

=============================================================================
