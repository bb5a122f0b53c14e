----------------------------- MODULE JointRegister -----------------------------
(***************************************************************************)
(* What backend/joints promises of one joint, every operation taken as one *)
(* atomic step: revisions are numbered, an idempotency key creates one of  *)
(* them, somebody else than its author decides each of them, once, and the *)
(* joint points at an approved one.  JointRevisions is the code; callers    *)
(* that do not overlap see exactly this specification.  No operation        *)
(* touches a second joint: keys and numbers are per joint.                 *)
(***************************************************************************)
EXTENDS Naturals, Sequences

CONSTANTS
    Users, NoUser,
    Keys, NoKey,    \* idempotency_key, and NULL
    Contents        \* snapshot_json and change_summary

VARIABLES
    joint,          \* the joints row; current_revision_id is 0 for NULL
    revs            \* joint_revisions, in the order of their ids

vars == <<joint, revs>>

JointStatus == {"absent", "draft", "active", "superseded", "archived"}
RevisionStatus == {"draft", "review", "approved", "rejected"}

Revision ==
    [no : Nat, status : RevisionStatus, key : Keys \cup {NoKey}, content : Contents,
     by : Users, reviewer : Users \cup {NoUser}, approved : BOOLEAN]

DraftRevision(no, key, content, by) ==
    [no |-> no, status |-> "draft", key |-> key, content |-> content,
     by |-> by, reviewer |-> NoUser, approved |-> FALSE]

(* The rows the partial unique index on (joint_id, idempotency_key) covers. *)
WithKey(r, key) == {i \in DOMAIN r : key # NoKey /\ r[i].key = key}

(* What the three UPDATEs make of a revision, whatever its status is.      *)
Submitted(rev) == [rev EXCEPT !.status = "review"]
Approved(rev, u) ==
    [rev EXCEPT !.status = "approved", !.reviewer = u, !.approved = TRUE]
Rejected(rev, u) == [rev EXCEPT !.status = "rejected", !.reviewer = u]

Init ==
    /\ joint = [status |-> "absent", current |-> 0]
    /\ revs = <<>>

CreateJoint ==
    /\ joint.status = "absent"
    /\ joint' = [joint EXCEPT !.status = "draft"]
    /\ UNCHANGED revs

ArchiveJoint ==
    /\ joint.status \notin {"absent", "archived"}
    /\ joint' = [joint EXCEPT !.status = "archived"]
    /\ UNCHANGED revs

CreateRevision(key, content, by) ==
    /\ joint.status \notin {"absent", "archived"}
    /\ WithKey(revs, key) = {}
    /\ revs' = Append(revs, DraftRevision(Len(revs) + 1, key, content, by))
    /\ UNCHANGED joint

Submit(i) ==
    /\ revs[i].status = "draft"
    /\ revs' = [revs EXCEPT ![i] = Submitted(@)]
    /\ UNCHANGED joint

(* Approving makes the joint active, also when it is archived.              *)
Approve(i, u) ==
    /\ revs[i].status = "review" /\ revs[i].by # u
    /\ revs' = [revs EXCEPT ![i] = Approved(@, u)]
    /\ joint' = [status |-> "active", current |-> i]

Reject(i, u) ==
    /\ revs[i].status = "review" /\ revs[i].by # u
    /\ revs' = [revs EXCEPT ![i] = Rejected(@, u)]
    /\ UNCHANGED joint

Next ==
    \/ CreateJoint
    \/ ArchiveJoint
    \/ \E key \in Keys \cup {NoKey}, content \in Contents, u \in Users :
          CreateRevision(key, content, u)
    \/ \E i \in DOMAIN revs :
          \/ Submit(i)
          \/ \E u \in Users : Approve(i, u) \/ Reject(i, u)

Spec == Init /\ [][Next]_vars

-----------------------------------------------------------------------------

(* The joint points at an approved revision, at the last one approved.      *)
CurrentIsApproved ==
    /\ joint.current # 0 =>
          joint.current \in DOMAIN revs /\ revs[joint.current].status = "approved"
    /\ joint.current = 0 => \A i \in DOMAIN revs : revs[i].status # "approved"

(* A decided revision was decided by somebody who did not write it, and a   *)
(* revision nobody decided has no reviewer.                                *)
DecidedByAnother ==
    \A i \in DOMAIN revs :
        /\ revs[i].reviewer # revs[i].by
        /\ revs[i].status \in {"approved", "rejected"} <=> revs[i].reviewer # NoUser
        /\ revs[i].status = "approved" <=> revs[i].approved

RegisterInv == CurrentIsApproved /\ DecidedByAnother

=============================================================================
