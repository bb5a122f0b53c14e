--------------------------- MODULE QuestionLifecycle ---------------------------
(***************************************************************************)
(* The vocabulary of one question of backend/question_bank: its validation *)
(* statuses, the closed transition table, who may call what, and the rows   *)
(* of its three SQLite tables.  No operation reads or writes the rows of    *)
(* another question_id, so a module about one question is about every one. *)
(***************************************************************************)
EXTENDS Naturals, Sequences, Positions

CONSTANTS
    Version,        \* the content_versions there may be
    NoStatus,       \* from_status NULL, in the row that registers a version
    NoVersion       \* content_version_before NULL

ASSUME VersionAssumption == Version \subseteq Nat \ {0} /\ NoVersion \notin Nat

Status == {"draft", "technical_review", "validated", "rejected", "deprecated"}

ASSUME NoStatusAssumption == NoStatus \notin Status

(* transitions.py QUESTION_VALIDATION_TRANSITIONS.                         *)
Transitions ==
    {<<"draft", "technical_review">>,
     <<"technical_review", "validated">>, <<"technical_review", "rejected">>,
     <<"technical_review", "draft">>, <<"rejected", "draft">>,
     <<"validated", "deprecated">>}

(* The status each transition of the service asks for.                     *)
Target == [submit |-> "technical_review", validate |-> "validated",
           reject |-> "rejected", deprecate |-> "deprecated",
           return_to_draft |-> "draft"]

FlagOps == {"soft_delete", "restore", "archive"}

(* AUTHORIZATION_REQUIRED_TRANSITIONS and default_role_authorization.      *)
Gated == {"validate", "reject", "deprecate", "return_to_draft"} \cup FlagOps
Role == {"admin", "engineer", "viewer"}
Authorized(role) == role \in {"admin", "engineer"}

Permitted(op, role) == op \in Gated => Authorized(role)

(* question_bank_records.                                                  *)
Row == [status : Status, deleted : BOOLEAN, archived : BOOLEAN]
DraftRow == [status |-> "draft", deleted |-> FALSE, archived |-> FALSE]

(* question_bank_status_history.                                           *)
HistoryRow(from, to, before, after, role) ==
    [from |-> from, to |-> to, before |-> before, after |-> after, role |-> role]

(* The rows one transaction adds to question_bank_lifecycle_audit: one for *)
(* each record read, holding the flags that were read.                     *)
AuditRows(op, role, read) == [op |-> op, role |-> role, read |-> read]

(* Functions on a set of versions that grows and shrinks.                   *)
Put(f, v, x) == [u \in DOMAIN f \cup {v} |-> IF u = v THEN x ELSE f[u]]
Drop(f, v) == [u \in DOMAIN f \ {v} |-> f[u]]

(* set_records_deleted_flag and set_records_archived: every row of the     *)
(* question at once.                                                       *)
Flagged(row, op) ==
    IF op = "archive" THEN [row EXCEPT !.archived = TRUE]
                      ELSE [row EXCEPT !.deleted = (op = "soft_delete")]

SetAll(r, op) == [v \in DOMAIN r |-> Flagged(r[v], op)]

(* The checks "already deleted", "not deleted" and "already archived".     *)
AllFlagged(r, op) == \A v \in DOMAIN r : Flagged(r[v], op) = r[v]

-----------------------------------------------------------------------------

(* The history rows that say what became of version v: the one that         *)
(* registers it and its transitions.  return_to_draft names another         *)
(* version as content_version_after and moves no record.                   *)
StatusRows(h, v) ==
    {i \in DOMAIN h :
        h[i].after = v /\ (h[i].from = NoStatus \/ h[i].before = v)}

(* What the first n rows say the status of v is.                           *)
StatusAfter(h, n, v) ==
    LET idx == {i \in StatusRows(h, v) : i <= n}
    IN  IF idx = {} THEN NoStatus ELSE h[LastOf(idx)].to

(* What the audit says the flags of v are.                                 *)
Covering(a, v, ops) == {i \in DOMAIN a : a[i].op \in ops /\ v \in DOMAIN a[i].read}

DeletedPerAudit(a, v) ==
    LET idx == Covering(a, v, {"soft_delete", "restore"})
    IN  idx # {} /\ a[LastOf(idx)].op = "soft_delete"

ArchivedPerAudit(a, v) == Covering(a, v, {"archive"}) # {}

(* The record and its history are written together: replaying the history   *)
(* gives the status of every record.                                       *)
StatusIsLastOf(r, h) ==
    \A v \in Version :
        StatusAfter(h, Len(h), v) =
            IF v \in DOMAIN r THEN r[v].status ELSE NoStatus

(* Whoever replays the audit finds the flags each record has.              *)
FlagsAreTold(row, a, v) ==
    /\ row.deleted = DeletedPerAudit(a, v)
    /\ row.archived = ArchivedPerAudit(a, v)

FlagsAreAudited(r, a) == \A v \in DOMAIN r : FlagsAreTold(r[v], a, v)

=============================================================================
