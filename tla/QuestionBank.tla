----------------------------- MODULE QuestionBank -----------------------------
(***************************************************************************)
(* backend/question_bank as it runs, for one question: a JSON file holds   *)
(* the content of its versions, SQLite the lifecycle of each.  Requests    *)
(* run on threads of one server process (the limit store.py states), and   *)
(* each is a sequence of steps between which the others run.  A JSON write *)
(* is one step, because every writer reads and replaces the file under     *)
(* _json_lock; a SQLite transaction is one step; and what an operation     *)
(* read before its transaction may be old when the transaction writes.     *)
(*                                                                         *)
(*   tags        bulk_update_tags reads the content it edits               *)
(*   read        update_question reads the latest content and merges       *)
(*   save        save_question_content                                     *)
(*   load        register_question reads the content back                  *)
(*   insert      the transaction that registers a version                  *)
(*   compensate  _delete_question_content_version                          *)
(*   fetch       _transition reads the record                              *)
(*   rows        the lifecycle operations read every record                *)
(*   commit      their transaction                                         *)
(***************************************************************************)
EXTENDS QuestionLifecycle

CONSTANTS
    Workers,
    Requests,       \* the requests callers may send, and send again
    Texts, Tags,    \* what the fields of a question may hold
    BadTexts,       \* the texts validate_record_structure refuses
    Failures,       \* what may fail: a subset of FailureKind
    MaxVersion,     \* bounds: no new update of a version this high,
    MaxHistory,     \* no new return to draft and no new flag request
    MaxAudit,       \* once the tables have so many rows
    NoRequest

FailureKind == {"save", "insert", "compensate", "commit", "crash"}

CreateOps == {"create", "import"}
UpdateOps == {"patch", "tags"}

(* QuestionRecord: the tags stand for themselves, the text for every other  *)
(* field.                                                                  *)
ContentRecord == [text : Texts, tags : SUBSET Tags]

(* QuestionPatch: the fields a caller provides.                            *)
IsPatch(p) ==
    /\ DOMAIN p \subseteq {"text", "tags"}
    /\ "text" \in DOMAIN p => p["text"] \in Texts
    /\ "tags" \in DOMAIN p => p["tags"] \in SUBSET Tags

ASSUME FailuresAssumption == Failures \subseteq FailureKind
ASSUME NoRequestAssumption == NoRequest \notin Requests
ASSUME RequestsAssumption ==
    \A r \in Requests :
        /\ r.op \in CreateOps \cup UpdateOps \cup DOMAIN Target \cup FlagOps
        /\ r.role \in Role
        /\ r.op \in CreateOps \cup DOMAIN Target => r.version \in Version
        /\ r.op = "return_to_draft" => r.after \in Version
        /\ r.op \in CreateOps => r.content \in ContentRecord
        /\ r.op = "patch" => IsPatch(r.patch)
        /\ r.op = "tags" => r.add \subseteq Tags /\ r.remove \subseteq Tags

VARIABLES
    content,    \* the JSON file: the content of each version
    rows, history, audit,
    pc,
    req,        \* the request a worker serves, or served last
    patch,      \* the fields update_question is to replace
    made,       \* the version, its content and its base a worker is adding
    seen,       \* the records as read before the transaction
    reply       \* the kind of the last response and the version it names

tables == <<rows, history, audit>>
vars == <<content, rows, history, audit, pc, req, patch, made, seen, reply>>

NoMade == [version |-> NoVersion, content |-> <<>>, base |-> NoVersion]

Answer(kind, version) == [kind |-> kind, version |-> version]

Init ==
    /\ content = <<>> /\ rows = <<>> /\ history = <<>> /\ audit = <<>>
    /\ pc = [w \in Workers |-> "idle"]
    /\ req = [w \in Workers |-> NoRequest]
    /\ patch = [w \in Workers |-> <<>>]
    /\ made = [w \in Workers |-> NoMade]
    /\ seen = [w \in Workers |-> <<>>]
    /\ reply = [w \in Workers |-> Answer("none", NoVersion)]

Goto(w, step) == pc' = [pc EXCEPT ![w] = step]

(* The request is answered; its locals are gone.                           *)
Finish(w, kind, version) ==
    /\ Goto(w, "idle")
    /\ patch' = [patch EXCEPT ![w] = <<>>]
    /\ made' = [made EXCEPT ![w] = NoMade]
    /\ seen' = [seen EXCEPT ![w] = <<>>]
    /\ reply' = [reply EXCEPT ![w] = Answer(kind, version)]

Latest(c) == LastOf(DOMAIN c)

(* QuestionRecord with the provided fields replaced.                       *)
Merge(c, p) == [f \in DOMAIN c |-> IF f \in DOMAIN p THEN p[f] ELSE c[f]]

(* bulk_update_tags: what it makes of the tags it read.                    *)
EditTags(tags, r) == (tags \ r.remove) \cup r.add

-----------------------------------------------------------------------------

(* Room below the bounds.                                                  *)
InBounds(r) ==
    /\ r.op \in UpdateOps => \A v \in DOMAIN content : v < MaxVersion
    /\ r.op = "return_to_draft" => Len(history) < MaxHistory
    /\ r.op \in FlagOps => Len(audit) < MaxAudit

(* What is refused before anything is read: the role, an empty patch, a     *)
(* new question that fails validation, a return to the same version.       *)
Refusal(r) ==
    IF r.op = "return_to_draft" /\ r.after = r.version THEN "unchanged_version"
    ELSE IF ~Permitted(r.op, r.role) THEN "forbidden"
    ELSE IF r.op = "patch" /\ DOMAIN r.patch = {} THEN "empty_patch"
    ELSE IF r.op \in CreateOps /\ r.content.text \in BadTexts THEN "invalid"
    ELSE "none"

FirstStep(op) ==
    IF op \in CreateOps THEN "save"
    ELSE IF op = "tags" THEN "tags"
    ELSE IF op = "patch" THEN "read"
    ELSE IF op \in FlagOps THEN "rows" ELSE "fetch"

(* A route handler up to its first read or write.                          *)
Receive(w, r) ==
    /\ pc[w] = "idle"
    /\ InBounds(r)
    /\ req' = [req EXCEPT ![w] = r]
    /\ IF Refusal(r) # "none"
       THEN Finish(w, Refusal(r), NoVersion)
       ELSE /\ Goto(w, FirstStep(r.op))
            /\ patch' = [patch EXCEPT ![w] = IF r.op = "patch" THEN r.patch ELSE <<>>]
            /\ made' = [made EXCEPT
                          ![w] = IF r.op \in CreateOps
                                 THEN [version |-> r.version, content |-> r.content,
                                       base |-> NoVersion]
                                 ELSE NoMade]
            /\ reply' = [reply EXCEPT ![w] = Answer("none", NoVersion)]
            /\ UNCHANGED seen
    /\ UNCHANGED <<content, tables>>

(* bulk_update_tags computes the new tags from a content of its own         *)
(* reading, then calls update_question with the result.                    *)
ReadTags(w) ==
    /\ pc[w] = "tags"
    /\ IF DOMAIN content = {}
       THEN Finish(w, "not_found", NoVersion)
       ELSE /\ Goto(w, "read")
            /\ patch' = [patch EXCEPT
                  ![w] = [tags |-> EditTags(content[Latest(content)].tags, req[w])]]
            /\ UNCHANGED <<made, seen, reply>>
    /\ UNCHANGED <<content, tables, req>>

(* Mutant of ReadLatest: the patch replaces the content it should extend.  *)
ReadLatestUnmerged(w) ==
    LET base == Latest(content)
        merged == Merge([text |-> "blank", tags |-> {}], patch[w])
    IN  /\ pc[w] = "read"
        /\ DOMAIN content # {}
        /\ Goto(w, "save")
        /\ made' = [made EXCEPT ![w] = [version |-> base + 1,
                                        content |-> merged, base |-> base]]
        /\ UNCHANGED <<content, tables, req, patch, seen, reply>>

(* update_question up to its first write.                                  *)
ReadLatest(w) ==
    LET base == Latest(content)
        merged == Merge(content[base], patch[w])
    IN  /\ pc[w] = "read"
        /\ IF DOMAIN content = {}
           THEN Finish(w, "not_found", NoVersion)
           ELSE IF merged = content[base]
           THEN Finish(w, "unchanged", base)
           ELSE IF merged.text \in BadTexts
           THEN Finish(w, "invalid", NoVersion)
           ELSE /\ base + 1 \in Version
                /\ Goto(w, "save")
                /\ made' = [made EXCEPT ![w] = [version |-> base + 1,
                                                content |-> merged, base |-> base]]
                /\ UNCHANGED <<patch, seen, reply>>
        /\ UNCHANGED <<content, tables, req>>

(* Mutant of Save: a version that exists is overwritten.                   *)
SaveOverwriting(w) ==
    /\ pc[w] = "save"
    /\ content' = Put(content, made[w].version, made[w].content)
    /\ Goto(w, IF req[w].op \in CreateOps THEN "load" ELSE "insert")
    /\ UNCHANGED <<tables, req, patch, made, seen, reply>>

(* save_question_content: the check and the write are under _json_lock.    *)
Save(w) ==
    LET v == made[w].version IN
    /\ pc[w] = "save"
    /\ \/ /\ v \in DOMAIN content
          /\ Finish(w, "duplicate", NoVersion)
          /\ UNCHANGED content
       \/ /\ v \notin DOMAIN content
          /\ content' = Put(content, v, made[w].content)
          /\ Goto(w, IF req[w].op \in CreateOps THEN "load" ELSE "insert")
          /\ UNCHANGED <<patch, made, seen, reply>>
    /\ UNCHANGED <<tables, req>>

(* What becomes of a request whose registration raises a QuestionBankError: *)
(* the route for one question answers, import and update undo their write. *)
RegistrationRefused(w, kind) ==
    IF req[w].op = "create"
    THEN Finish(w, kind, NoVersion)
    ELSE Goto(w, "compensate") /\ UNCHANGED <<patch, made, seen, reply>>

(* register_question reads back what was saved.                            *)
Load(w) ==
    /\ pc[w] = "load"
    /\ IF made[w].version \in DOMAIN content
       THEN Goto(w, "insert") /\ UNCHANGED <<patch, made, seen, reply>>
       ELSE RegistrationRefused(w, "not_found")
    /\ UNCHANGED <<content, tables, req>>

(* The transaction of register_question and update_question.               *)
Insert(w) ==
    LET v == made[w].version IN
    /\ pc[w] = "insert"
    /\ IF v \in DOMAIN rows
       THEN RegistrationRefused(w, "duplicate") /\ UNCHANGED tables
       ELSE /\ rows' = Put(rows, v, DraftRow)
            /\ history' = Append(history,
                   HistoryRow(NoStatus, "draft", made[w].base, v, req[w].role))
            /\ UNCHANGED audit
            /\ Finish(w, IF req[w].op \in CreateOps THEN "created" ELSE "updated", v)
    /\ UNCHANGED <<content, req>>

(* A sqlite3 error rolls the transaction back.  It is not a                 *)
(* QuestionBankError: update_question compensates for it, import_questions  *)
(* and the route for one question do not.                                  *)
InsertFails(w) ==
    /\ pc[w] = "insert" /\ "insert" \in Failures
    /\ IF req[w].op \in CreateOps
       THEN Finish(w, "error", NoVersion)
       ELSE Goto(w, "compensate") /\ UNCHANGED <<patch, made, seen, reply>>
    /\ UNCHANGED <<content, tables, req>>

(* Mutant of Compensate: the latest version is removed, not the one saved. *)
CompensateLatest(w) ==
    /\ pc[w] = "compensate"
    /\ content' = Drop(content, Latest(content))
    /\ Finish(w, "rolled_back", made[w].version)
    /\ UNCHANGED <<tables, req>>

(* The answer when an update or an import was undone, or could not be.     *)
UndoneKind(op, removed) ==
    IF op = "import" THEN "rejected"
    ELSE IF removed THEN "rolled_back" ELSE "orphan_left"

Compensate(w) ==
    LET v == made[w].version IN
    /\ pc[w] = "compensate"
    /\ content' = Drop(content, v)
    /\ Finish(w, UndoneKind(req[w].op, v \in DOMAIN content), v)
    /\ UNCHANGED <<tables, req>>

CompensateFails(w) ==
    /\ pc[w] = "compensate" /\ "compensate" \in Failures
    /\ Finish(w, UndoneKind(req[w].op, FALSE), made[w].version)
    /\ UNCHANGED <<content, tables, req>>

(* The JSON file cannot be written: nothing was changed.                   *)
SaveFails(w) ==
    /\ pc[w] = "save" /\ "save" \in Failures
    /\ Finish(w, "error", NoVersion)
    /\ UNCHANGED <<content, tables, req>>

-----------------------------------------------------------------------------

(* Mutant of FetchRecord: the table is not consulted.                      *)
FetchUnchecked(w) ==
    /\ pc[w] = "fetch"
    /\ IF req[w].version \notin DOMAIN rows
       THEN Finish(w, "not_found", NoVersion)
       ELSE /\ Goto(w, "commit")
            /\ seen' = [seen EXCEPT ![w] = rows]
            /\ UNCHANGED <<patch, made, reply>>
    /\ UNCHANGED <<content, tables, req>>

(* _transition reads the record and validates, outside the transaction.    *)
FetchRecord(w) ==
    LET v == req[w].version IN
    /\ pc[w] = "fetch"
    /\ IF v \notin DOMAIN rows
       THEN Finish(w, "not_found", NoVersion)
       ELSE IF <<rows[v].status, Target[req[w].op]>> \notin Transitions
       THEN Finish(w, "invalid_transition", NoVersion)
       ELSE /\ Goto(w, "commit")
            /\ seen' = [seen EXCEPT ![w] = rows]
            /\ UNCHANGED <<patch, made, reply>>
    /\ UNCHANGED <<content, tables, req>>

(* delete, restore and archive read the records, outside the transaction.  *)
FetchRows(w) ==
    /\ pc[w] = "rows"
    /\ IF DOMAIN rows = {}
       THEN Finish(w, "not_found", NoVersion)
       ELSE IF AllFlagged(rows, req[w].op)
       THEN Finish(w, "already", NoVersion)
       ELSE /\ Goto(w, "commit")
            /\ seen' = [seen EXCEPT ![w] = rows]
            /\ UNCHANGED <<patch, made, reply>>
    /\ UNCHANGED <<content, tables, req>>

(* Mutant of CommitTransition: the history is written, the record is not.  *)
CommitHistoryOnly(w) ==
    LET v == req[w].version
        to == Target[req[w].op]
    IN  /\ pc[w] = "commit" /\ req[w].op \in DOMAIN Target
        /\ history' = Append(history,
               HistoryRow(seen[w][v].status, to, v, v, req[w].role))
        /\ UNCHANGED <<rows, audit, content, req>>
        /\ Finish(w, "moved", v)

(* The record is updated whatever its status is by now; the history row     *)
(* holds the status that was read.  return_to_draft writes history only.   *)
CommitTransition(w) ==
    LET v == req[w].version
        to == Target[req[w].op]
        after == IF req[w].op = "return_to_draft" THEN req[w].after ELSE v
    IN  /\ pc[w] = "commit" /\ req[w].op \in DOMAIN Target
        /\ rows' = IF req[w].op = "return_to_draft" THEN rows
                   ELSE [rows EXCEPT ![v].status = to]
        /\ history' = Append(history,
               HistoryRow(seen[w][v].status, to, v, after, req[w].role))
        /\ UNCHANGED <<audit, content, req>>
        /\ Finish(w, "moved", v)

(* Every record is updated, those that were read are audited.              *)
CommitFlags(w) ==
    /\ pc[w] = "commit" /\ req[w].op \in FlagOps
    /\ rows' = SetAll(rows, req[w].op)
    /\ audit' = Append(audit, AuditRows(req[w].op, req[w].role, seen[w]))
    /\ UNCHANGED <<history, content, req>>
    /\ Finish(w, "flagged", NoVersion)

(* The transaction is rolled back.                                         *)
CommitFails(w) ==
    /\ pc[w] = "commit" /\ "commit" \in Failures
    /\ Finish(w, "error", NoVersion)
    /\ UNCHANGED <<content, tables, req>>

(* The server process dies, and is started again with what is on disk.     *)
Crash ==
    /\ "crash" \in Failures
    /\ \E w \in Workers : pc[w] # "idle"
    /\ pc' = [w \in Workers |-> "idle"]
    /\ patch' = [w \in Workers |-> <<>>]
    /\ made' = [w \in Workers |-> NoMade]
    /\ seen' = [w \in Workers |-> <<>>]
    /\ reply' = [w \in Workers |-> Answer("none", NoVersion)]
    /\ UNCHANGED <<content, tables, req>>

Step(w) ==
    \/ ReadTags(w) \/ ReadLatest(w) \/ Save(w) \/ Load(w) \/ Insert(w)
    \/ Compensate(w) \/ FetchRecord(w) \/ FetchRows(w)
    \/ CommitTransition(w) \/ CommitFlags(w)

Failure(w) == SaveFails(w) \/ InsertFails(w) \/ CompensateFails(w) \/ CommitFails(w)

Next ==
    \/ \E w \in Workers :
          \/ \E r \in Requests : Receive(w, r)
          \/ Step(w)
          \/ Failure(w)
    \/ Crash

Spec == Init /\ [][Next]_vars

-----------------------------------------------------------------------------

PC == {"idle", "tags", "read", "save", "load", "insert", "compensate",
       "fetch", "rows", "commit"}

ReplyKind ==
    {"none", "unchanged_version", "forbidden", "empty_patch", "invalid",
     "not_found", "unchanged", "duplicate", "created", "updated", "rejected",
     "rolled_back", "orphan_left", "error", "invalid_transition", "already",
     "moved", "flagged"}

HistoryRecord ==
    [from : Status \cup {NoStatus}, to : Status, before : Version \cup {NoVersion},
     after : Version, role : Role]

MadeRecord ==
    [version : Version \cup {NoVersion}, content : ContentRecord \cup {<<>>},
     base : Version \cup {NoVersion}]

StoresTyped ==
    /\ DOMAIN content \subseteq Version
    /\ content \in [DOMAIN content -> ContentRecord]
    /\ \E n \in Version \cup {0} : \A v \in DOMAIN content : v <= n
    /\ DOMAIN rows \subseteq Version
    /\ rows \in [DOMAIN rows -> Row]
    /\ history \in Seq(HistoryRecord)
    /\ \A i \in DOMAIN audit :
          /\ audit[i].op \in FlagOps /\ Authorized(audit[i].role)
          /\ DOMAIN audit[i].read \subseteq DOMAIN rows
    /\ audit \in Seq({audit[i] : i \in DOMAIN audit})

(* Which locals a request has at each of its steps.                        *)
RequestsTyped ==
    /\ pc \in [Workers -> PC]
    /\ req \in [Workers -> Requests \cup {NoRequest}]
    /\ DOMAIN patch = Workers /\ DOMAIN seen = Workers
    /\ made \in [Workers -> MadeRecord]
    /\ reply \in [Workers -> [kind : ReplyKind, version : Version \cup {NoVersion}]]
    /\ \A w \in Workers :
          /\ pc[w] # "idle" =>
                req[w] \in Requests /\ Permitted(req[w].op, req[w].role)
          /\ pc[w] \in {"fetch", "rows", "commit"} =>
                req[w].op \in DOMAIN Target \cup FlagOps
          /\ pc[w] = "fetch" => req[w].op \in DOMAIN Target
          /\ pc[w] = "rows" => req[w].op \in FlagOps
          /\ pc[w] = "tags" => req[w].op = "tags"
          /\ IsPatch(patch[w])
          /\ pc[w] \in {"save", "load", "insert", "compensate"} =>
                /\ made[w].version \in Version
                /\ made[w].content \in ContentRecord
          /\ pc[w] = "commit" =>
                /\ DOMAIN seen[w] \subseteq DOMAIN rows
                /\ seen[w] \in [DOMAIN seen[w] -> Row]
                /\ req[w].op \in DOMAIN Target => req[w].version \in DOMAIN seen[w]

(* Types, and which locals the request of each thread has (service.py).   *)
TypeOK == StoresTyped /\ RequestsTyped

-----------------------------------------------------------------------------

(* A request owns the version it has saved until it is registered or        *)
(* removed again.                                                          *)
Owns(w) == pc[w] \in {"load", "insert", "compensate"}

OwnedVersions == {made[w].version : w \in {x \in Workers : Owns(x)}}

(* A record of the database always has its content in the JSON file: the    *)
(* two stores share no transaction, and neither a compensation nor a crash  *)
(* ever takes the content of a registered version (store.py                *)
(* _delete_question_content_version).                                      *)
RegisteredHasContent == DOMAIN rows \subseteq DOMAIN content

(* No two requests hold one version, and nobody else touches it: what was   *)
(* saved is what will be registered.                                       *)
VersionsOwnedOnce ==
    \A w, x \in Workers :
        Owns(w) =>
            /\ made[w].version \in DOMAIN content \ DOMAIN rows
            /\ content[made[w].version] = made[w].content
            /\ Owns(x) /\ made[w].version = made[x].version => w = x

(* The inductive invariant of the two stores.                              *)
StoresAgree == RegisteredHasContent /\ VersionsOwnedOnce

(* Types, and stores that agree: what holds between the JSON file and the  *)
(* database at every step of service.py.                                   *)
BankInv == TypeOK /\ StoresAgree

(* The content of a registered version never changes or goes (schema.py:    *)
(* "a content change always means a new content_version").                 *)
RegisteredContentImmutable ==
    [][\A v \in DOMAIN rows :
          v \in DOMAIN content' /\ content'[v] = content[v]]_vars

(* While no transaction fails and no process dies, content without a        *)
(* record belongs to a request that is still registering it.               *)
OrphansAreOwned == DOMAIN content \subseteq DOMAIN rows \cup OwnedVersions

(* An update that was accepted is the version before it with the fields of  *)
(* its patch replaced: two overlapping PATCHes lose no field to each other  *)
(* (the loser of the version number gets a 409).                           *)
UpdatesExtendTheirBase ==
    \A w \in Workers :
        LET v == reply[w].version IN
        reply[w].kind = "updated" /\ req[w].op = "patch" =>
            /\ v - 1 \in DOMAIN content
            /\ content[v] = Merge(content[v - 1], req[w].patch)

(* The record and its history agree, whatever raced.                        *)
StatusIsLastOfHistory == StatusIsLastOf(rows, history)

(* A history row starts from a status its version really had earlier and    *)
(* is a legal move from it; overlapping reviewers may decide on an old      *)
(* status, never on one that was not there.                                *)
HistoryGrounded ==
    \A i \in DOMAIN history :
        LET h == history[i] IN
        IF h.from = NoStatus
        THEN h.to = "draft" /\ StatusAfter(history, i - 1, h.after) = NoStatus
        ELSE /\ <<h.from, h.to>> \in Transitions
             /\ \E n \in 1 .. i - 1 : StatusAfter(history, n, h.before) = h.from

(* Where every transaction that set flags has read a version, the audit     *)
(* tells its flags; one registered between the read and the transaction    *)
(* is flagged without a row of its own.                                    *)
AuditTellsTheFlags ==
    \A v \in DOMAIN rows :
        (\A i \in DOMAIN audit : v \in DOMAIN audit[i].read) => FlagsAreTold(rows[v], audit, v)

(* Records, status history and lifecycle audit tell one story, although    *)
(* the status is read before the transaction that moves it (service.py     *)
(* _transition) and the flags before the one that sets them.               *)
AuditsAgree == StatusIsLastOfHistory /\ HistoryGrounded /\ AuditTellsTheFlags

-----------------------------------------------------------------------------

(* The abstract registry.  Callers that do not overlap see exactly it.     *)
Registry == INSTANCE QuestionRegistry

(* What the registry guarantees of its tables: histories that chain, audit *)
(* that tells the flags, deprecation that is final (service.py, store.py). *)
RegistryInv == Registry!RegistryInv

(* service.py update_question: when the compensating delete succeeds, "the  *)
(* net effect is exactly as if the update had never been attempted at all". *)
(* Another update may have been built on it in between.                    *)
BasesExist ==
    \A i \in DOMAIN history :
        history[i].from = NoStatus /\ history[i].before # NoVersion =>
            history[i].before \in DOMAIN content

=============================================================================
