--------------------------- MODULE GovernanceLedger ---------------------------
(***************************************************************************)
(* What backend/governance promises of one event store, with every command *)
(* taken as one atomic step: a log that only grows, one event per accepted *)
(* request, each event a legal move from the status its aggregate and      *)
(* lifecycle group really had.  Requests that are rejected, and retries of  *)
(* accepted ones, leave the log alone and are stuttering steps here.       *)
(* GovernanceService is the code; with callers that do not overlap it       *)
(* implements this specification.                                          *)
(***************************************************************************)
EXTENDS GovernanceLifecycle

VARIABLE log

vars == log

(* store.py find_by_idempotency_key: a blank key finds nothing.             *)
KeyUsed(l, k) == k # BlankKey /\ \E i \in DOMAIN l : l[i].req.key = k

(* store.py find_by_decision_id.                                           *)
DecisionUsed(l, d) == \E i \in DOMAIN l : l[i].req.decision = d

Init == log = <<>>

(* service.py _execute_transition for a request that is genuinely new.      *)
Record(r) ==
    LET previous == EffectiveStatus(log, r.agg, GroupOf(r))
    IN  /\ ~KeyUsed(log, r.key)
        /\ ~DecisionUsed(log, r.decision)
        /\ ValidateDecision(r, previous) = "ok"
        /\ log' = Append(log, [req |-> r, previous |-> previous])

Next == \E r \in Requests : Record(r)

Spec == Init /\ [][Next]_vars

-----------------------------------------------------------------------------

SameHistory(e, f) == e.req.agg = f.req.agg /\ GroupOf(e.req) = GroupOf(f.req)

(* Every event moves its aggregate, in its own lifecycle group, from the    *)
(* status the events before it left, along the closed transition table.    *)
(* A reader who replays the log never meets a gap (ADR-0014: a decision is  *)
(* reconstructable from its own record).                                   *)
EventsChain(l) ==
    \A i \in DOMAIN l :
        LET e == l[i] IN
        /\ e.previous = StatusAfter(l, i - 1, e.req.agg, GroupOf(e.req))
        /\ <<e.previous, NewStatus(e.req)>> \in Transitions[GroupOf(e.req)]

(* No event follows a terminal status in the same history (ADR-0014:       *)
(* "Terminal states have no outgoing transition in the base model").        *)
TerminalStatusIsFinal(l) ==
    \A i, j \in DOMAIN l :
        (i < j /\ SameHistory(l[i], l[j]))
            => NewStatus(l[i].req) \notin TerminalStatuses[GroupOf(l[i].req)]

(* An idempotency key and a decision id each name at most one event.        *)
KeysNameOneEvent(l) ==
    \A i, j \in DOMAIN l :
        (l[i].req.key = l[j].req.key /\ l[i].req.key # BlankKey) => i = j

DecisionsNameOneEvent(l) ==
    \A i, j \in DOMAIN l : l[i].req.decision = l[j].req.decision => i = j

(* A terminal status, once an event has set it, stays the effective one.   *)
TerminalStatusStays(l) ==
    \A i \in DOMAIN l :
        LET e == l[i] IN
        NewStatus(e.req) \in TerminalStatuses[GroupOf(e.req)] =>
            EffectiveStatus(l, e.req.agg, GroupOf(e.req)) = NewStatus(e.req)

(* The log of the store's file, part by part (store.py, service.py).        *)
TypeOK == log \in Seq([req : Requests, previous : UNION {Status[g] : g \in Group}])
Chained == EventsChain(log)
TerminalStays == TerminalStatusStays(log)
TerminalFinal == TerminalStatusIsFinal(log)
UniqueKeys == KeysNameOneEvent(log)
UniqueDecisions == DecisionsNameOneEvent(log)

(* The inductive invariant: TerminalFinal needs TerminalStays, the rest     *)
(* stand by themselves.                                                    *)
LedgerInv ==
    /\ TypeOK
    /\ Chained
    /\ TerminalStays
    /\ TerminalFinal
    /\ UniqueKeys
    /\ UniqueDecisions

=============================================================================
