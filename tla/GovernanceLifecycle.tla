------------------------- MODULE GovernanceLifecycle -------------------------
(***************************************************************************)
(* The constant part of backend/governance: the three independent          *)
(* lifecycle groups of ADR-0014, their closed transition tables, the nine  *)
(* commands of the service layer and the validators they delegate to.      *)
(*                                                                         *)
(* A governance event is abstracted to                                     *)
(*   [req |-> the request that produced it, previous |-> previous_status]  *)
(* and a request to the fields the service distinguishes: see Request.     *)
(***************************************************************************)
EXTENDS Naturals, Sequences, Positions

CONSTANTS
    Requests,   \* the requests callers may send, and send again
    BlankKey    \* the idempotency key "", which is never looked up

Group == {"review", "publication", "resolution"}

(* enums.py: the closed adjacency tables.  A status with no outgoing pair   *)
(* is terminal.                                                            *)
Transitions ==
    [review      |-> {<<"draft", "under_review">>,
                      <<"under_review", "approved">>,
                      <<"under_review", "rejected">>},
     publication |-> {<<"draft", "active">>,
                      <<"active", "superseded">>,
                      <<"active", "archived">>},
     resolution  |-> {<<"open", "resolved">>,
                      <<"open", "rejected">>,
                      <<"open", "waived">>}]

TerminalStatuses ==
    [review      |-> {"approved", "rejected"},
     publication |-> {"superseded", "archived"},
     resolution  |-> {"resolved", "rejected", "waived"}]

Status ==
    [review      |-> {"draft", "under_review"} \cup TerminalStatuses.review,
     publication |-> {"draft", "active"} \cup TerminalStatuses.publication,
     resolution  |-> {"open"} \cup TerminalStatuses.resolution]

(* service.py _INITIAL_STATUS: a group with no event yet.                   *)
InitialStatus ==
    [review |-> "draft", publication |-> "draft", resolution |-> "open"]

(* The nine commands, each with its hard-coded group and new_status.        *)
Command ==
    [submit_review         |-> [group |-> "review",      new |-> "under_review"],
     approve_review        |-> [group |-> "review",      new |-> "approved"],
     reject_review         |-> [group |-> "review",      new |-> "rejected"],
     activate_publication  |-> [group |-> "publication", new |-> "active"],
     supersede_publication |-> [group |-> "publication", new |-> "superseded"],
     archive_publication   |-> [group |-> "publication", new |-> "archived"],
     resolve_resolution    |-> [group |-> "resolution",  new |-> "resolved"],
     reject_resolution     |-> [group |-> "resolution",  new |-> "rejected"],
     waive_resolution      |-> [group |-> "resolution",  new |-> "waived"]]

(* Every request calls one of the nine commands: each route is bound to     *)
(* its own.                                                                *)
ASSUME RequestsAssumption == \A r \in Requests : r.cmd \in DOMAIN Command

GroupOf(r) == Command[r.cmd].group
NewStatus(r) == Command[r.cmd].new

(* models.py: the fields a transition requires, named as the caller gives  *)
(* them ("submitted_by", "approved_by", ... are all the actor,              *)
(* "created_at" and the other timestamps all occurred_at).  The table is    *)
(* keyed by (previous, new); a legal pair has one row.                      *)
RequiredFields(previous, new) ==
    IF <<previous, new>> = <<"active", "superseded">>
    THEN {"superseded_by_id", "occurred_at"}
    ELSE {"actor", "occurred_at"}

(* The field values of a request, as far as they matter here: the set of    *)
(* fields that are present and not blank.                                   *)
Field == {"actor", "occurred_at", "superseded_by_id"}

(* "not legal under the table" before "a required field is missing".  The   *)
(* ill-formed timestamp fails the construction of the Decision model, so    *)
(* before either; an absent occurred_at stands for it.                      *)
ValidateDecision(r, previous) ==
    IF "occurred_at" \notin r.given
        THEN "validation_error"
    ELSE IF <<previous, NewStatus(r)>> \notin Transitions[GroupOf(r)]
        THEN "invalid_transition"
    ELSE IF ~(RequiredFields(previous, NewStatus(r)) \subseteq r.given)
        THEN "missing_required_field"
    ELSE "ok"

(* service.py event_history/latest_event/effective_status over the first n *)
(* events of a log.  The history is selected by aggregate_id alone: the     *)
(* aggregate_type of an event takes no part in it.                          *)
HistoryIndices(log, n, agg, grp) ==
    {i \in 1..n : log[i].req.agg = agg /\ GroupOf(log[i].req) = grp}

StatusAfter(log, n, agg, grp) ==
    LET idx == HistoryIndices(log, n, agg, grp)
    IN  IF idx = {} THEN InitialStatus[grp] ELSE NewStatus(log[LastOf(idx)].req)

EffectiveStatus(log, agg, grp) == StatusAfter(log, Len(log), agg, grp)

(* service.py _event_matches_request: every field of the normalized request *)
(* but occurred_at (and event_id, previous_status, which are no part of a   *)
(* request).  Called only for an event found by the request's own key.      *)
MatchesRequest(event, r) ==
    /\ event.req.agg = r.agg
    /\ event.req.type = r.type
    /\ event.req.cmd = r.cmd
    /\ event.req.decision = r.decision
    /\ event.req.given \ {"occurred_at"} = r.given \ {"occurred_at"}
    /\ event.req.note = r.note

=============================================================================
