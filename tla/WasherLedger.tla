----------------------------- MODULE WasherLedger -----------------------------
(***************************************************************************)
(* What the washer workflow promises of its three files, with every        *)
(* request taken as one atomic step: decisions that follow the table,      *)
(* evidence that is only added, and at most one closure for a resolution,  *)
(* built on its last decision and on all its verified evidence.            *)
(* WasherResolution is the code.                                           *)
(***************************************************************************)
EXTENDS WasherLifecycle

CONSTANT DecideRequests

VARIABLES decisions, evidence, closures

vars == <<decisions, evidence, closures>>

(* The evidence file may come with records, the other two start empty.     *)
Init ==
    /\ decisions = <<>>
    /\ closures = <<>>

KeyUsed(l, k) == \E i \in DOMAIN l : l[i].req.key = k

(* decide_resolution for a key that is new.                                *)
Decide(r) ==
    LET previous == EffectiveStatus(decisions, r.res)
    IN  /\ r.key # BlankKey
        /\ r.res \in Resolutions
        /\ ~KeyUsed(decisions, r.key)
        /\ ValidateDecision(previous, r) = "ok"
        /\ decisions' = Append(decisions, [req |-> r, previous |-> previous])
        /\ UNCHANGED <<evidence, closures>>

(* record_resolution_evidence: a new record is never verified.             *)
RecordEvidence(res) ==
    /\ evidence' = Append(evidence, [id |-> Len(evidence) + 1, res |-> res,
                                     status |-> "unverified", intact |-> TRUE])
    /\ UNCHANGED <<decisions, closures>>

(* close_resolution.                                                       *)
Close(res) ==
    /\ SourceStatus[res] # "blocked_authoritative_source"
    /\ EffectiveStatus(decisions, res) \in TerminalStatuses
    /\ Corrupted(evidence, res) = {}
    /\ Verified(evidence, res) # {}
    /\ ~HasClosure(closures, res)
    /\ closures' = Append(closures, [res |-> res,
                                     decision |-> LastDecision(decisions, res),
                                     evidence |-> Verified(evidence, res)])
    /\ UNCHANGED <<decisions, evidence>>

Next ==
    \/ \E r \in DecideRequests : Decide(r)
    \/ \E res \in Resolutions : RecordEvidence(res) \/ Close(res)

Spec == Init /\ [][Next]_vars

-----------------------------------------------------------------------------

(* Every decision moves its resolution from the status the decisions       *)
(* before it left, along the table.                                        *)
DecisionsChain ==
    \A i \in DOMAIN decisions :
        LET d == decisions[i] IN
        /\ d.previous = StatusAfter(decisions, i - 1, d.req.res)
        /\ <<d.previous, d.req.new>> \in AllowedTransitions

(* A terminal decision is the last one of its resolution.                  *)
TerminalIsFinal ==
    \A i, j \in DOMAIN decisions :
        (i < j /\ decisions[i].req.res = decisions[j].req.res) =>
            decisions[i].req.new \notin TerminalStatuses

(* A closed resolution stays as it was closed: its decision is still the   *)
(* effective one, and one closure names it.                                *)
ClosureStands ==
    \A i \in DOMAIN closures :
        LET c == closures[i] IN
        /\ c.decision = LastDecision(decisions, c.res)
        /\ c.decision.req.new \in TerminalStatuses
        /\ \A j \in DOMAIN closures : closures[j].res = c.res => j = i

(* What the three files keep while requests do not overlap.                *)
LedgerInv == DecisionsChain /\ TerminalIsFinal /\ ClosureStands

=============================================================================
