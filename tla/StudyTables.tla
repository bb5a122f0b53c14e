----------------------------- MODULE StudyTables -----------------------------
(***************************************************************************)
(* The rows of backend/production_validation and the rules on them that    *)
(* need no order of steps: the status table of a study, which data of it   *)
(* may change, and how the rows of a file become records.                  *)
(*                                                                         *)
(* A row is known by its position, which is its id.                        *)
(*   study    [code, author, status, approver, text]                       *)
(*   dataset  [study, code, locked, file]   file: the last one imported    *)
(*   record   [dataset, number, valid, corrects, file]                     *)
(***************************************************************************)
EXTENDS Integers, Sequences

CONSTANTS
    NoUser,     \* approved_by of a study that is not approved
    NoFile      \* source_checksum of a data set that was never imported

StudyStatus ==
    {"draft", "data_collection", "completed", "under_review", "approved", "rejected",
     "archived"}

(* STUDY_TRANSITIONS.                                                      *)
Transitions ==
    {<<"draft", "data_collection">>, <<"data_collection", "completed">>,
     <<"completed", "under_review">>, <<"under_review", "approved">>,
     <<"under_review", "rejected">>, <<"rejected", "data_collection">>}
        \cup {<<s, "archived">> : s \in StudyStatus \ {"archived"}}

(* The status each operation on a study asks for.                          *)
TargetStatus ==
    [complete |-> "completed", submit |-> "under_review", approve |-> "approved",
     reject |-> "rejected", archive |-> "archived"]

(* What the study row becomes.                                             *)
Moved(study, op, user) ==
    IF op = "approve" THEN [study EXCEPT !.status = "approved", !.approver = user]
    ELSE [study EXCEPT !.status = TargetStatus[op]]

CodeUsed(studies, code) == \E i \in DOMAIN studies : studies[i].code = code

DatasetCodeUsed(datasets, study, code) ==
    \E i \in DOMAIN datasets : datasets[i].study = study /\ datasets[i].code = code

Of(records, dataset) == {i \in DOMAIN records : records[i].dataset = dataset}

NumberUsed(records, dataset, n) == \E i \in Of(records, dataset) : records[i].number = n

NumbersOf(records, dataset) == {records[i].number : i \in Of(records, dataset)}

(* next_sequence_number: COALESCE(MAX(sequence_number), 0) + 1.            *)
NextAfter(numbers) ==
    IF numbers = {} THEN 1
    ELSE 1 + CHOOSE n \in numbers : \A m \in numbers : m <= n

NextNumber(records, dataset) == NextAfter(NumbersOf(records, dataset))

(* count_records over all data sets of a study, as far as it is asked for. *)
HasValidRecord(datasets, records, study) ==
    \E i \in DOMAIN records : records[i].valid /\ datasets[records[i].dataset].study = study

NewRecord(dataset, n, corrects, file) ==
    [dataset |-> dataset, number |-> n, valid |-> TRUE, corrects |-> corrects, file |-> file]

(* The number of a row of a file: the one it gives, if that is neither     *)
(* absent nor 0 (both are false in Python), or the next one.               *)
RowNumber(numbers, given) == IF given = 0 THEN NextAfter(numbers) ELSE given

(* The numbers of the rows of a file, inserted in order.                   *)
RowNumbers(records, dataset, rows, first) ==
    LET number[i \in 1 .. Len(rows)] ==
            IF i = 1 THEN first
            ELSE RowNumber(NumbersOf(records, dataset) \cup {number[j] : j \in 1 .. i - 1},
                           rows[i])
    IN  number

(* The records after the rows of a file.  With taken, a row met a number   *)
(* that was there already, in the table or in a row before it.             *)
Imported(records, dataset, file, rows, first) ==
    LET number == RowNumbers(records, dataset, rows, first)
    IN  [records |-> records \o [i \in 1 .. Len(rows) |->
                                    NewRecord(dataset, number[i], 0, file)],
         taken |-> \E i \in 1 .. Len(rows) :
                       \/ NumberUsed(records, dataset, number[i])
                       \/ \E j \in 1 .. i - 1 : number[j] = number[i]]

=============================================================================
