----------------------------- MODULE StudyRegister -----------------------------
(***************************************************************************)
(* What production validation promises to callers that do not overlap:     *)
(* every operation on a study, its data sets and its measurements is one   *)
(* atomic step that looks at the rows as they are.                         *)
(* ProductionValidation is the code.                                       *)
(***************************************************************************)
EXTENDS StudyTables

CONSTANTS Users, Approvers, Texts, Codes, Files

VARIABLES studies, datasets, records

vars == <<studies, datasets, records>>

Init == studies = <<>> /\ datasets = <<>> /\ records = <<>>

CreateStudy(code, user) ==
    /\ ~CodeUsed(studies, code)
    /\ studies' = Append(studies, [code |-> code, author |-> user, status |-> "draft",
                                   approver |-> NoUser, text |-> "first"])
    /\ UNCHANGED <<datasets, records>>

(* complete, submit, approve, reject and archive.                          *)
Move(s, op, user) ==
    /\ <<studies[s].status, TargetStatus[op]>> \in Transitions
    /\ op = "complete" => HasValidRecord(datasets, records, s)
    /\ op \in {"approve", "reject"} => user \in Approvers
    /\ op = "approve" => studies[s].author # user
    /\ studies' = [studies EXCEPT ![s] = Moved(@, op, user)]
    /\ UNCHANGED <<datasets, records>>

Patch(s, text) ==
    /\ studies[s].status # "approved"
    /\ studies' = [studies EXCEPT ![s].text = text]
    /\ UNCHANGED <<datasets, records>>

(* The first data set of a draft starts the collection of data.            *)
CreateDataset(s, code) ==
    /\ studies[s].status # "approved"
    /\ ~DatasetCodeUsed(datasets, s, code)
    /\ datasets' = Append(datasets, [study |-> s, code |-> code, locked |-> FALSE,
                                     file |-> NoFile])
    /\ studies' = IF studies[s].status = "draft"
                  THEN [studies EXCEPT ![s].status = "data_collection"] ELSE studies
    /\ UNCHANGED records

Lock(d) ==
    /\ datasets' = [datasets EXCEPT ![d].locked = TRUE]
    /\ UNCHANGED <<studies, records>>

Editable(d) == ~datasets[d].locked /\ studies[datasets[d].study].status # "approved"

(* A measurement, possibly the correction of another one.                  *)
AddRecord(d, corrected) ==
    /\ Editable(d)
    /\ corrected = 0 \/ corrected \in Of(records, d)
    /\ records' = Append([i \in DOMAIN records |->
                              IF i = corrected THEN [records[i] EXCEPT !.valid = FALSE]
                              ELSE records[i]],
                         NewRecord(d, NextNumber(records, d), corrected, NoFile))
    /\ UNCHANGED <<studies, datasets>>

Invalidate(i) ==
    /\ Editable(records[i].dataset)
    /\ records' = [records EXCEPT ![i].valid = FALSE]
    /\ UNCHANGED <<studies, datasets>>

(* A file is imported whole.                                               *)
Import(d, file) ==
    LET result == Imported(records, d, file.name, file.rows,
                           RowNumber(NumbersOf(records, d), Head(file.rows)))
    IN  /\ Editable(d)
        /\ datasets[d].file # file.name
        /\ ~result.taken
        /\ records' = result.records
        /\ datasets' = [datasets EXCEPT ![d].file = file.name]
        /\ UNCHANGED studies

Next ==
    \/ \E code \in Codes, user \in Users : CreateStudy(code, user)
    \/ \E s \in DOMAIN studies :
          \/ \E op \in DOMAIN TargetStatus, user \in Users : Move(s, op, user)
          \/ \E text \in Texts : Patch(s, text)
          \/ \E code \in Codes : CreateDataset(s, code)
    \/ \E d \in DOMAIN datasets :
          \/ Lock(d)
          \/ \E corrected \in 0 .. Len(records) : AddRecord(d, corrected)
          \/ \E file \in Files : Import(d, file)
    \/ \E i \in DOMAIN records : Invalidate(i)

Spec == Init /\ [][Next]_vars

-----------------------------------------------------------------------------

(* What lock_dataset and an approval are for: from then on no measurement  *)
(* is added to the data set, and none of its own changes.                  *)
SettledStep ==
    \A d \in DOMAIN datasets :
        ~Editable(d) => /\ Of(records', d) = Of(records, d)
                        /\ \A i \in Of(records, d) : records'[i] = records[i]

SettledStands == [][SettledStep]_vars

=============================================================================
