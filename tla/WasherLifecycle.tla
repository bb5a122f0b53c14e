--------------------------- MODULE WasherLifecycle ---------------------------
(***************************************************************************)
(* The constant part of backend/library/washer_resolution*.py: the closed  *)
(* transition table of the decisions, the effective status of a resolution *)
(* and what makes one ready for closure.                                   *)
(*                                                                         *)
(* A decision is [req |-> the request, previous |-> previous_status].  The *)
(* decision_id is a uuid; a decision is known here by its idempotency key, *)
(* which is never blank.  An evidence record is [id, res, status, intact], *)
(* where intact says that its checksum matches its content, and a closure  *)
(* is [res, decision, evidence].                                           *)
(***************************************************************************)
EXTENDS Naturals, Sequences, Positions

CONSTANTS
    SourceStatus,   \* washer_resolution_ledger.json: the original statuses
    BlankKey,       \* an idempotency key of spaces, or none
    BlankBody       \* a note, evidence reference or name that is missing

Resolutions == DOMAIN SourceStatus

TerminalStatuses == {"resolved", "accepted_as_is", "rejected"}

ActiveStatuses == {"open", "under_review", "blocked_authoritative_source"}

WasherStatus == TerminalStatuses \cup ActiveStatuses

(* washer_resolution_ledger.json is never written, and holds records that  *)
(* nobody has decided.                                                     *)
ASSUME SourceAssumption ==
    SourceStatus \in [Resolutions -> {"open", "blocked_authoritative_source"}]

(* ALLOWED_TRANSITIONS: blocked and terminal statuses have no way out.     *)
AllowedTransitions ==
    {t \in {"open", "under_review"} \X (TerminalStatuses \cup {"open", "under_review"}) :
        t[1] # t[2]}

(* validate_transition, then validate_decision_fields.                     *)
ValidateDecision(previous, r) ==
    IF previous = "blocked_authoritative_source" THEN "blocked"
    ELSE IF <<previous, r.new>> \notin AllowedTransitions THEN "invalid_transition"
    ELSE IF r.body = BlankBody THEN "missing_evidence"
    ELSE "ok"

(* _same_request: every field of the request but its key.                  *)
SameRequest(d, r) == d.req.res = r.res /\ d.req.new = r.new /\ d.req.body = r.body

(* decisions_for_resolution over the first n decisions of a list.          *)
DecisionsUpTo(l, n, res) == {i \in 1 .. n : l[i].req.res = res}

StatusAfter(l, n, res) ==
    LET idx == DecisionsUpTo(l, n, res)
    IN  IF idx = {} THEN SourceStatus[res] ELSE l[LastOf(idx)].req.new

(* effective_status: the last decision, or the source ledger.              *)
EffectiveStatus(l, res) == StatusAfter(l, Len(l), res)

LastDecision(l, res) == l[LastOf(DecisionsUpTo(l, Len(l), res))]

(* evaluate_closure_readiness: the evidence of one resolution, classified. *)
EvidenceOf(l, res) == {i \in DOMAIN l : l[i].res = res}

Corrupted(l, res) == {l[i].id : i \in {j \in EvidenceOf(l, res) : ~l[j].intact}}

(* Mutant of Verified: an evidence record need not be verified.            *)
VerifiedOrNot(l, res) == {l[i].id : i \in {j \in EvidenceOf(l, res) : l[j].intact}}

Verified(l, res) ==
    {l[i].id : i \in {j \in EvidenceOf(l, res) : l[j].intact /\ l[j].status = "verified"}}

(* get_closure_for_resolution.                                             *)
HasClosure(l, res) == \E i \in DOMAIN l : l[i].res = res

=============================================================================
