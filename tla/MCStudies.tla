------------------------------ MODULE MCStudies ------------------------------
(***************************************************************************)
(* Instances of ProductionValidation for TLC.  Each behaviour takes its    *)
(* requests from one mix, and may start on rows that earlier requests made.*)
(***************************************************************************)
EXTENDS ProductionValidation, TLC

CONSTANTS w1, w2, ann, bob, eve, fileA, fileB, fileC, fileD, fileE

CreateStudy(user) == [op |-> "create_study", code |-> "c1", user |-> user, valid |-> TRUE]
OnStudy(op, user) == [op |-> op, study |-> 1, user |-> user]
CreateDataset(s) == [op |-> "create_dataset", study |-> s, code |-> "c1", user |-> ann,
                     valid |-> TRUE]
PatchIt(valid) == [op |-> "patch", study |-> 1, user |-> ann, text |-> "second",
                   valid |-> valid]
OnDataset(op, d) == [op |-> op, dataset |-> d]
Measure(corrects, valid) ==
    [op |-> "create_record", dataset |-> 1, corrects |-> corrects, valid |-> valid]
Invalidate(i, valid) == [op |-> "invalidate", record |-> i, valid |-> valid]
ImportFile(name, rows, valid) ==
    [op |-> "import", dataset |-> 1, file |-> [name |-> name, rows |-> rows],
     valid |-> valid]

Study(status, approver) ==
    [code |-> "c1", author |-> ann, status |-> status, approver |-> approver,
     text |-> "first"]
Dataset == [study |-> 1, code |-> "c1", locked |-> FALSE, file |-> NoFile]
Measured == NewRecord(1, 1, 0, NoFile)

(* From nothing: a study and its first data set, asked for twice.          *)
FirstRows ==
    {CreateStudy(ann), CreateDataset(1),
     [CreateDataset(1) EXCEPT !.valid = FALSE], CreateDataset(2), OnStudy("archive", bob)}

(* The review of a study with measurements: the author, an engineer and a  *)
(* user without the role.                                                  *)
Review ==
    {OnStudy("complete", ann), OnStudy("submit", ann), OnStudy("approve", ann),
     OnStudy("approve", bob), OnStudy("reject", bob),
     OnStudy("approve", eve), OnStudy("archive", ann), Invalidate(1, TRUE)}

(* What changes data around an approval.                                   *)
Editing ==
    {OnStudy("approve", bob), PatchIt(TRUE), PatchIt(FALSE), CreateDataset(1),
     OnDataset("lock", 1), OnDataset("patch_dataset", 1), OnDataset("lock", 2),
     Measure(0, TRUE)}

(* Single measurements, corrections, and files whose rows give numbers.    *)
Measuring ==
    {Measure(0, TRUE), Measure(1, TRUE), Measure(0, FALSE), Measure(3, TRUE),
     Invalidate(1, TRUE), Invalidate(2, FALSE),
     ImportFile(fileA, <<0, 2>>, TRUE), ImportFile(fileB, <<-1, 0>>, TRUE),
     ImportFile(fileC, <<0>>, FALSE)}

Reimport ==
    {ImportFile(fileD, <<0>>, TRUE), ImportFile(fileE, <<0>>, TRUE),
     OnDataset("patch_dataset", 1)}

AllRequests == FirstRows \cup Review \cup Editing \cup Measuring \cup Reimport

Rows(s, d, r) == [studies |-> s, datasets |-> d, records |-> r]
Nothing == Rows(<<>>, <<>>, <<>>)
Collecting == Rows(<<Study("data_collection", NoUser)>>, <<Dataset>>, <<Measured>>)
Submitted == Rows(<<Study("under_review", NoUser)>>, <<Dataset>>, <<Measured>>)
Unmeasured == Rows(<<Study("data_collection", NoUser)>>, <<Dataset>>, <<>>)

(* A study from its first row to its approval, on one data set.            *)
WholeReview ==
    {CreateStudy(ann), CreateDataset(1), Measure(0, TRUE), OnStudy("complete", ann),
     OnStudy("submit", ann), OnStudy("approve", ann), OnStudy("approve", bob),
     OnStudy("reject", bob), OnStudy("archive", ann), PatchIt(TRUE)}

Mix(requests, rows, overlap) == [requests |-> requests, rows |-> rows, overlap |-> overlap]
Mixes ==
    {Mix(FirstRows, Nothing, TRUE), Mix(Review, Collecting, TRUE),
     Mix(Editing, Submitted, TRUE), Mix(Measuring, Unmeasured, TRUE),
     Mix(Reimport, Unmeasured, TRUE), Mix(WholeReview, Nothing, FALSE),
     Mix(Editing, Submitted, FALSE), Mix(Measuring, Unmeasured, FALSE)}

BothWorkers == Permutations(Workers)

VARIABLE mix

Serial == ~mix.overlap

MCInit ==
    /\ mix \in Mixes
    /\ studies = mix.rows.studies
    /\ datasets = mix.rows.datasets
    /\ records = mix.rows.records
    /\ audited = {}
    /\ pc = [w \in Workers |-> "idle"]
    /\ req = [w \in Workers |-> NoRequest]
    /\ ctx = [w \in Workers |-> NoContext]

MCNext ==
    \/ \E w \in Workers :
          \/ /\ Serial => \A x \in Workers : pc[x] = "idle"
             /\ \E r \in mix.requests : Receive(w, r) /\ UNCHANGED mix
          \/ Step(w) /\ UNCHANGED mix
          \/ Busy(w) /\ UNCHANGED mix
    \/ Crash /\ UNCHANGED mix

MCSpec == MCInit /\ [][MCNext]_<<vars, mix>>

(* One request at a time, through a busy database and restarts, every step *)
(* of service.py is one operation of the register on the rows as they are, *)
(* or leaves them alone.                                                   *)
SerialImplementsRegister ==
    /\ Serial /\ mix.rows = Nothing => Register!Init
    /\ [][Serial => Register!Next]_<<studies, datasets, records>>

=============================================================================
