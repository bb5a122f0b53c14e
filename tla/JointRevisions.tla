---------------------------- MODULE JointRevisions ----------------------------
(***************************************************************************)
(* backend/joints/service.py as it runs, for one joint.  Requests run on    *)
(* threads that share one SQLite database and nothing else.  A SELECT is a *)
(* step of its own (Python opens a transaction at the first write only), a *)
(* transaction of writes is a step, and the audit row is written by         *)
(* another connection after the commit.                                    *)
(*                                                                         *)
(*   code, add         create_joint: the lookup, the INSERT                *)
(*   joint             get_joint                                           *)
(*   archive           archive_joint: the UPDATE                           *)
(*   key, number       create_joint_revision: its two SELECTs              *)
(*   insert, recheck   the INSERT, and the lookup after it was refused     *)
(*   revision, update  the transitions: get_joint_revision, the UPDATEs    *)
(*   audit             audit                                               *)
(***************************************************************************)
EXTENDS Naturals, Sequences

CONSTANTS
    Workers,
    Requests,       \* the requests callers may send, and send again
    Users, NoUser, Keys, NoKey, Contents,
    Failures,       \* what may fail: a subset of FailureKind
    MaxRevisions,   \* bound: no new creation once there are so many
    NoRequest

FailureKind == {"busy", "crash"}
Transition == {"submit", "approve", "reject"}

ASSUME FailuresAssumption == Failures \subseteq FailureKind
ASSUME NullsAssumption ==
    NoUser \notin Users /\ NoKey \notin Keys /\ NoRequest \notin Requests
ASSUME RequestsAssumption ==
    \A r \in Requests :
        /\ r.op \in {"create_joint", "archive_joint", "create"} \cup Transition
        /\ r.user \in Users
        /\ r.op = "create" => r.key \in Keys \cup {NoKey} /\ r.content \in Contents
        /\ r.op \in Transition => r.rev \in Nat

VARIABLES
    joint, revs,
    trail,          \* audit_log: the revisions "joint_revision_create" names
    pc,
    req,            \* the request a worker serves, or served last
    seen,           \* what it read: the status of the joint, the next number
    target,         \* the revision it has written, 0 before
    reply           \* the kind of the last response and the revision it holds

vars == <<joint, revs, trail, pc, req, seen, target, reply>>

(* The register: the tables, and what callers that do not overlap see.     *)
Register == INSTANCE JointRegister

Unread == [status |-> "absent", no |-> 0]
Answer(kind, rev) == [kind |-> kind, rev |-> rev]

Init ==
    /\ Register!Init
    /\ trail = <<>>
    /\ pc = [w \in Workers |-> "idle"]
    /\ req = [w \in Workers |-> NoRequest]
    /\ seen = [w \in Workers |-> Unread]
    /\ target = [w \in Workers |-> 0]
    /\ reply = [w \in Workers |-> Answer("none", 0)]

tables == <<joint, revs, trail>>

(* The request goes on to its next step.                                   *)
Goto(w, step) == pc' = [pc EXCEPT ![w] = step] /\ UNCHANGED <<req, reply>>

Finish(w, kind, rev) ==
    /\ pc' = [pc EXCEPT ![w] = "idle"]
    /\ seen' = [seen EXCEPT ![w] = Unread]
    /\ target' = [target EXCEPT ![w] = 0]
    /\ reply' = [reply EXCEPT ![w] = Answer(kind, rev)]
    /\ UNCHANGED req

FirstStep(op) ==
    IF op = "create_joint" THEN "code"
    ELSE IF op \in Transition THEN "revision" ELSE "joint"

(* Room below the bound.  A transition or an archive that changes anything  *)
(* can only be repeated finitely often.                                    *)
InBounds(r) == r.op = "create" => Len(revs) < MaxRevisions

Receive(w, r) ==
    /\ pc[w] = "idle"
    /\ InBounds(r)
    /\ pc' = [pc EXCEPT ![w] = FirstStep(r.op)]
    /\ req' = [req EXCEPT ![w] = r]
    /\ reply' = [reply EXCEPT ![w] = Answer("none", 0)]
    /\ UNCHANGED <<tables, seen, target>>

-----------------------------------------------------------------------------
(* The joint.                                                              *)

CheckCode(w) ==
    /\ pc[w] = "code"
    /\ IF joint.status # "absent"
       THEN Finish(w, "code_conflict", 0)
       ELSE Goto(w, "add") /\ UNCHANGED <<seen, target>>
    /\ UNCHANGED tables

(* UNIQUE(project_id, joint_code) refuses the second of two creators that   *)
(* overlap.                                                                *)
AddJoint(w) ==
    /\ pc[w] = "add"
    /\ IF joint.status # "absent"
       THEN Finish(w, "error", 0) /\ UNCHANGED joint
       ELSE /\ joint' = [joint EXCEPT !.status = "draft"]
            /\ Goto(w, "audit") /\ UNCHANGED <<seen, target>>
    /\ UNCHANGED <<revs, trail>>

GetJoint(w) ==
    /\ pc[w] = "joint"
    /\ IF joint.status = "absent"
       THEN Finish(w, "not_found", 0)
       ELSE IF req[w].op = "archive_joint" /\ joint.status = "archived"
       THEN Finish(w, "ok", 0)
       ELSE /\ Goto(w, IF req[w].op = "archive_joint" THEN "archive" ELSE "key")
            /\ seen' = [seen EXCEPT ![w].status = joint.status]
            /\ UNCHANGED target
    /\ UNCHANGED tables

ArchiveJoint(w) ==
    /\ pc[w] = "archive"
    /\ joint' = [joint EXCEPT !.status = "archived"]
    /\ Goto(w, "audit")
    /\ UNCHANGED <<revs, trail, seen, target>>

-----------------------------------------------------------------------------
(* create_joint_revision.                                                  *)

(* _match_existing_idempotent_revision, for a row i it found: the same      *)
(* request gets that row again.                                            *)
Replay(w, i) ==
    IF revs[i].content = req[w].content /\ revs[i].by = req[w].user
    THEN Finish(w, "ok", i)
    ELSE Finish(w, "key_conflict", 0)

(* A new key goes on if the joint was not archived when it was read.       *)
MatchKey(w) ==
    /\ pc[w] = "key"
    /\ \/ \E i \in Register!WithKey(revs, req[w].key) : Replay(w, i)
       \/ /\ Register!WithKey(revs, req[w].key) = {}
          /\ IF seen[w].status = "archived"
             THEN Finish(w, "archived", 0)
             ELSE Goto(w, "number") /\ UNCHANGED <<seen, target>>
    /\ UNCHANGED tables

(* COALESCE(MAX(revision_no), 0) + 1.                                      *)
MaxNo(r) == CHOOSE n \in {0} \cup {r[i].no : i \in DOMAIN r} :
                \A i \in DOMAIN r : r[i].no <= n

NextNumber(w) ==
    /\ pc[w] = "number"
    /\ seen' = [seen EXCEPT ![w].no = MaxNo(revs) + 1]
    /\ Goto(w, "insert")
    /\ UNCHANGED <<tables, target>>

(* The two unique indices.                                                 *)
Refused(w) ==
    \/ \E i \in DOMAIN revs : revs[i].no = seen[w].no
    \/ Register!WithKey(revs, req[w].key) # {}

(* Mutant of InsertRevision: INSERT OR REPLACE.                            *)
InsertOrReplace(w) ==
    /\ pc[w] = "insert"
    /\ revs' = [i \in DOMAIN revs \cup {seen[w].no} |->
                  IF i = seen[w].no
                  THEN Register!DraftRevision(i, req[w].key, req[w].content, req[w].user)
                  ELSE revs[i]]
    /\ target' = [target EXCEPT ![w] = seen[w].no]
    /\ Goto(w, "audit")
    /\ UNCHANGED <<joint, trail, seen>>

(* Only a request with a key handles the refusal.                          *)
InsertRevision(w) ==
    /\ pc[w] = "insert"
    /\ IF ~Refused(w)
       THEN /\ revs' = Append(revs, Register!DraftRevision(
                   seen[w].no, req[w].key, req[w].content, req[w].user))
            /\ target' = [target EXCEPT ![w] = Len(revs) + 1]
            /\ Goto(w, "audit") /\ UNCHANGED seen
       ELSE /\ IF req[w].key = NoKey
               THEN Finish(w, "error", 0)
               ELSE Goto(w, "recheck") /\ UNCHANGED <<seen, target>>
            /\ UNCHANGED revs
    /\ UNCHANGED <<joint, trail>>

Recheck(w) ==
    /\ pc[w] = "recheck"
    /\ \/ \E i \in Register!WithKey(revs, req[w].key) : Replay(w, i)
       \/ /\ Register!WithKey(revs, req[w].key) = {}
          /\ Finish(w, "key_conflict", 0)
    /\ UNCHANGED tables

-----------------------------------------------------------------------------
(* submit_, approve_ and reject_joint_revision.                            *)

(* Mutants of GetRevision: the status or the author is not looked at.      *)
GetRevisionAnyStatus(w) ==
    LET i == req[w].rev IN
    /\ pc[w] = "revision"
    /\ IF i \notin DOMAIN revs
       THEN Finish(w, "not_found", 0)
       ELSE IF req[w].op # "submit" /\ revs[i].by = req[w].user
       THEN Finish(w, "state_error", 0)
       ELSE Goto(w, "update") /\ UNCHANGED <<seen, target>>
    /\ UNCHANGED tables

GetRevisionAnyAuthor(w) ==
    LET i == req[w].rev IN
    /\ pc[w] = "revision"
    /\ IF i \notin DOMAIN revs
       THEN Finish(w, "not_found", 0)
       ELSE IF revs[i].status # (IF req[w].op = "submit" THEN "draft" ELSE "review")
       THEN Finish(w, "state_error", 0)
       ELSE Goto(w, "update") /\ UNCHANGED <<seen, target>>
    /\ UNCHANGED tables

(* Their checks, on the revision as it is read.                            *)
GetRevision(w) ==
    LET i == req[w].rev
        expected == IF req[w].op = "submit" THEN "draft" ELSE "review"
    IN  /\ pc[w] = "revision"
        /\ IF i \notin DOMAIN revs
           THEN Finish(w, "not_found", 0)
           ELSE IF \/ revs[i].status # expected
                   \/ req[w].op # "submit" /\ revs[i].by = req[w].user
           THEN Finish(w, "state_error", 0)
           ELSE Goto(w, "update") /\ UNCHANGED <<seen, target>>
        /\ UNCHANGED tables

(* Their UPDATEs say WHERE id=? and nothing of the status.                 *)
UpdateRevision(w) ==
    LET i == req[w].rev
        updated == IF req[w].op = "submit" THEN Register!Submitted(revs[i])
                   ELSE IF req[w].op = "approve"
                   THEN Register!Approved(revs[i], req[w].user)
                   ELSE Register!Rejected(revs[i], req[w].user)
    IN  /\ pc[w] = "update"
        /\ revs' = [revs EXCEPT ![i] = updated]
        /\ joint' = IF req[w].op = "approve"
                    THEN [status |-> "active", current |-> i] ELSE joint
        /\ target' = [target EXCEPT ![w] = i]
        /\ Goto(w, "audit")
        /\ UNCHANGED <<trail, seen>>

-----------------------------------------------------------------------------

(* Of the audit rows, one for each operation, those of creations are kept.  *)
WriteAudit(w) ==
    /\ pc[w] = "audit"
    /\ trail' = IF req[w].op = "create" THEN Append(trail, target[w]) ELSE trail
    /\ Finish(w, "ok", target[w])
    /\ UNCHANGED <<joint, revs>>

(* The database stays locked for longer than busy_timeout: the route        *)
(* answers 500, after the commit if it is the audit row that is refused.    *)
Busy(w) ==
    /\ "busy" \in Failures
    /\ pc[w] \in {"add", "archive", "insert", "update", "audit"}
    /\ Finish(w, "error", 0)
    /\ UNCHANGED tables

(* The server process dies, and is started again.                          *)
Crash ==
    /\ "crash" \in Failures
    /\ \E w \in Workers : pc[w] # "idle"
    /\ pc' = [w \in Workers |-> "idle"]
    /\ seen' = [w \in Workers |-> Unread]
    /\ target' = [w \in Workers |-> 0]
    /\ reply' = [w \in Workers |-> Answer("none", 0)]
    /\ UNCHANGED <<tables, req>>

Step(w) ==
    \/ CheckCode(w) \/ AddJoint(w) \/ GetJoint(w) \/ ArchiveJoint(w)
    \/ MatchKey(w) \/ NextNumber(w) \/ InsertRevision(w) \/ Recheck(w)
    \/ GetRevision(w) \/ UpdateRevision(w) \/ WriteAudit(w)

Next ==
    \/ \E w \in Workers : (\E r \in Requests : Receive(w, r)) \/ Step(w) \/ Busy(w)
    \/ Crash

Spec == Init /\ [][Next]_vars

-----------------------------------------------------------------------------

PC == {"idle", "code", "add", "joint", "archive", "key", "number", "insert",
       "recheck", "revision", "update", "audit"}

ReplyKind == {"none", "ok", "code_conflict", "key_conflict", "not_found",
              "archived", "state_error", "error"}

JointRow == [status : Register!JointStatus, current : Nat]

(* Which request is at which step.                                         *)
AtStep(w) ==
    /\ pc[w] # "idle" => req[w] \in Requests
    /\ pc[w] \in {"code", "add"} => req[w].op = "create_joint"
    /\ pc[w] = "joint" => req[w].op \in {"archive_joint", "create"}
    /\ pc[w] = "archive" => req[w].op = "archive_joint"
    /\ pc[w] \in {"key", "number", "insert", "recheck"} => req[w].op = "create"
    /\ pc[w] \in {"revision", "update"} => req[w].op \in Transition
    /\ pc[w] = "update" => req[w].rev \in DOMAIN revs
    /\ pc[w] = "insert" => seen[w].no \in 1 .. Len(revs) + 1
    /\ pc[w] # "audit" => target[w] = 0
    /\ target[w] # 0 => target[w] \in DOMAIN revs

(* Types, and which request is at which step (service.py).                *)
TypeOK ==
    /\ joint \in JointRow
    /\ revs \in Seq(Register!Revision)
    /\ trail \in Seq(Nat)
    /\ pc \in [Workers -> PC]
    /\ req \in [Workers -> Requests \cup {NoRequest}]
    /\ seen \in [Workers -> [status : Register!JointStatus, no : Nat]]
    /\ target \in [Workers -> Nat]
    /\ reply \in [Workers -> [kind : ReplyKind, rev : Nat]]
    /\ \A w \in Workers : AtStep(w)

(* Revision numbers are 1, 2, 3, ... whatever overlaps and fails: none is   *)
(* given twice, none is lost to a refused insert or a replay.              *)
RevisionsNumbered == \A i \in DOMAIN revs : revs[i].no = i

(* One idempotency key creates one revision, also when a retry overlaps     *)
(* the attempt it repeats (service.py, the "concurrency backstop").         *)
KeysNameOneRevision ==
    \A i, j \in DOMAIN revs :
        revs[i].key = revs[j].key /\ revs[i].key # NoKey => i = j

SaysWhat(i, r) ==
    revs[i].key = r.key /\ revs[i].content = r.content /\ revs[i].by = r.user

(* A caller who is told that its creation succeeded holds the revision that *)
(* says what the request said, by the same user.                           *)
RepliesFaithful ==
    \A w \in Workers :
        reply[w].kind = "ok" /\ req[w].op = "create" =>
            reply[w].rev \in DOMAIN revs /\ SaysWhat(reply[w].rev, req[w])

(* A replay leaves no second "joint_revision_create" row in the audit log.  *)
CreatesAuditedOnce ==
    \A i, j \in DOMAIN trail : trail[i] = trail[j] => i = j

(* Nobody decides on a revision of their own (ADR 2.5A section 4:           *)
(* "self-approval blocked"), whoever else reads or decides at that moment.  *)
NobodyDecidesTheirOwn == \A i \in DOMAIN revs : revs[i].reviewer # revs[i].by

(* The joint points at a revision that has been approved, whatever became   *)
(* of it since.                                                            *)
CurrentWasApproved ==
    joint.current # 0 =>
        joint.current \in DOMAIN revs /\ revs[joint.current].approved

(* What the steps of a request rely on: the author of a revision that is to  *)
(* be decided is not the one who decides, and a creation that is not yet in *)
(* the audit log is nobody else's.                                         *)
RequestProgress(w) ==
    /\ pc[w] = "update" /\ req[w].op # "submit" => revs[req[w].rev].by # req[w].user
    /\ pc[w] = "audit" /\ req[w].op = "create" =>
          /\ target[w] \in DOMAIN revs
          /\ SaysWhat(target[w], req[w])
          /\ \A i \in DOMAIN trail : trail[i] # target[w]
          /\ \A x \in Workers \ {w} :
                pc[x] = "audit" /\ req[x].op = "create" => target[x] # target[w]

(* The inductive invariant.                                                *)
JointInv ==
    /\ TypeOK
    /\ RevisionsNumbered
    /\ KeysNameOneRevision
    /\ RepliesFaithful
    /\ CreatesAuditedOnce
    /\ NobodyDecidesTheirOwn
    /\ CurrentWasApproved
    /\ \A i \in DOMAIN trail : trail[i] \in DOMAIN revs
    /\ \A w \in Workers : RequestProgress(w)

(* What a revision says, and whose it is, never changes.                    *)
ContentImmutable ==
    [][\A i \in DOMAIN revs :
          /\ i \in DOMAIN revs'
          /\ \A f \in {"no", "key", "content", "by"} : revs'[i][f] = revs[i][f]]_vars

-----------------------------------------------------------------------------

(* What the register guarantees: the joint points at an approved revision,  *)
(* decided once, by somebody else than its author (service.py).            *)
RegisterInv == Register!RegisterInv

=============================================================================
