--------------------------- MODULE QuestionRegistry ---------------------------
(***************************************************************************)
(* What the service of backend/question_bank promises of the SQLite side   *)
(* of one question, every operation taken as one atomic step: versions are *)
(* registered once, move along the transition table from the status they   *)
(* really have, are deleted, restored and archived together, and the two   *)
(* audit tables tell all of it.  QuestionBank is the code; with callers     *)
(* that do not overlap it implements this specification.                    *)
(***************************************************************************)
EXTENDS QuestionLifecycle

VARIABLES
    rows,       \* question_bank_records, by content_version
    history,    \* question_bank_status_history
    audit       \* question_bank_lifecycle_audit, a transaction at a time

vars == <<rows, history, audit>>

Init == rows = <<>> /\ history = <<>> /\ audit = <<>>

(* register_question, and the second half of update_question.              *)
Register(v, base, role) ==
    /\ v \notin DOMAIN rows
    /\ rows' = Put(rows, v, DraftRow)
    /\ history' = Append(history, HistoryRow(NoStatus, "draft", base, v, role))
    /\ UNCHANGED audit

(* _transition, for the four operations that move the record.              *)
Move(v, op, role) ==
    /\ v \in DOMAIN rows
    /\ Permitted(op, role)
    /\ <<rows[v].status, Target[op]>> \in Transitions
    /\ rows' = [rows EXCEPT ![v].status = Target[op]]
    /\ history' = Append(history, HistoryRow(rows[v].status, Target[op], v, v, role))
    /\ UNCHANGED audit

(* return_to_draft writes history and leaves the record where it is.       *)
ReturnToDraft(v, after, role) ==
    /\ v \in DOMAIN rows /\ after # v
    /\ Authorized(role)
    /\ <<rows[v].status, "draft">> \in Transitions
    /\ history' = Append(history, HistoryRow(rows[v].status, "draft", v, after, role))
    /\ UNCHANGED <<rows, audit>>

(* delete_question, restore_question, archive_question.                    *)
SetFlag(op, role) ==
    /\ Permitted(op, role)
    /\ ~AllFlagged(rows, op)
    /\ rows' = SetAll(rows, op)
    /\ audit' = Append(audit, AuditRows(op, role, rows))
    /\ UNCHANGED history

Next ==
    \E role \in Role :
        \/ \E v \in Version :
              \/ \E base \in Version \cup {NoVersion} : Register(v, base, role)
              \/ \E op \in DOMAIN Target \ {"return_to_draft"} : Move(v, op, role)
              \/ \E after \in Version : ReturnToDraft(v, after, role)
        \/ \E op \in FlagOps : SetFlag(op, role)

Spec == Init /\ [][Next]_vars

-----------------------------------------------------------------------------

(* Every row of the history starts where the rows before it left its       *)
(* version, and follows the table; the first one registers the draft.      *)
HistoryIsChained ==
    \A i \in DOMAIN history :
        LET h == history[i] IN
        IF h.from = NoStatus
        THEN h.to = "draft" /\ StatusAfter(history, i - 1, h.after) = NoStatus
        ELSE /\ <<h.from, h.to>> \in Transitions
             /\ StatusAfter(history, i - 1, h.before) = h.from

(* A deprecated version stays deprecated.                                  *)
DeprecatedIsFinal ==
    \A i \in DOMAIN history :
        history[i].to = "deprecated" =>
            /\ history[i].after \in DOMAIN rows
            /\ rows[history[i].after].status = "deprecated"

(* What the registry keeps of a question: its two audit tables replay to    *)
(* its records, along the table, and deprecation is final.                 *)
RegistryInv ==
    /\ StatusIsLastOf(rows, history)
    /\ FlagsAreAudited(rows, audit)
    /\ HistoryIsChained
    /\ DeprecatedIsFinal

=============================================================================
