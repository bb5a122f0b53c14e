-------------------------- MODULE GovernanceService --------------------------
(***************************************************************************)
(* backend/governance/service.py and store.py as they run: each request is *)
(* served by a thread of the server (the route handlers are plain "def"s), *)
(* and the command it calls is a sequence of steps between which other     *)
(* requests run.  Every lookup reads the whole file without a lock; only   *)
(* FileGovernanceEventStore.append locks, around its own read and write.   *)
(*                                                                         *)
(*   pc        the next step of the command                                *)
(*   key       store.find_by_idempotency_key                               *)
(*   decision  store.find_by_decision_id                                   *)
(*   status    effective_status, then validate_against_previous            *)
(*   lock      append: enter _locked                                       *)
(*   read      append: _read_raw                                           *)
(*   write     append: _write_raw_atomic                                   *)
(*   reply     append: leave _locked; _command_response                    *)
(***************************************************************************)
EXTENDS GovernanceLifecycle, FiniteSets

CONSTANTS
    Workers,    \* the threads, of one server process or of several
    Restricted, \* ownership.py RESTRICTED_AGGREGATE_TYPES
    NoWorker, NoRequest, NoEvent,
    HasFcntl    \* store.py _HAS_FCNTL: TRUE on POSIX, FALSE on Windows

ASSUME DistinctNulls == NoWorker \notin Workers /\ NoRequest \notin Requests
ASSUME HasFcntlAssumption == HasFcntl \in BOOLEAN

VARIABLES
    events,     \* the "events" list of the store's file
    lock,       \* the holder of the flock on the sidecar file
    pc,
    req,        \* the request a worker serves, or served last
    prev,       \* previous_status as the command computed it
    raw,        \* the payload append read under the lock
    reply       \* the last response: a kind, and the event for 200 and 201

vars == <<events, lock, pc, req, prev, raw, reply>>

AnyStatus == UNION {Status[g] : g \in Group}

Event == [req : Requests, previous : AnyStatus]

Answer(kind, event) == [kind |-> kind, event |-> event]
NoReply == Answer("none", NoEvent)

Init ==
    /\ events = <<>>
    /\ lock = NoWorker
    /\ pc = [w \in Workers |-> "idle"]
    /\ req = [w \in Workers |-> NoRequest]
    /\ prev = [w \in Workers |-> "draft"]
    /\ raw = [w \in Workers |-> <<>>]
    /\ reply = [w \in Workers |-> NoReply]

(* The command goes on to its next step.                                   *)
Goto(w, step) ==
    /\ pc' = [pc EXCEPT ![w] = step]
    /\ UNCHANGED <<prev, raw, reply>>

(* The handler returns its answer; its locals are gone.                    *)
Finish(w, answer) ==
    /\ pc' = [pc EXCEPT ![w] = "idle"]
    /\ prev' = [prev EXCEPT ![w] = "draft"]
    /\ raw' = [raw EXCEPT ![w] = <<>>]
    /\ reply' = [reply EXCEPT ![w] = answer]

(* A lock its thread holds is released on the way out.                     *)
Release(w) == lock' = IF lock = w THEN NoWorker ELSE lock

(* A route handler up to the command: the ownership guard of _run_command  *)
(* comes before anything is read.  A fresh store object (with a fresh      *)
(* in-process lock) is made for every request by get_governance_store.     *)
Receive(w, r) ==
    /\ pc[w] = "idle"
    /\ req' = [req EXCEPT ![w] = r]
    /\ IF r.type \in Restricted
       THEN Finish(w, Answer("externally_owned", NoEvent))
       ELSE /\ pc' = [pc EXCEPT ![w] = "key"]
            /\ reply' = [reply EXCEPT ![w] = NoReply]
            /\ UNCHANGED <<prev, raw>>
    /\ UNCHANGED <<events, lock>>

(* The first event with a given key: what find_by_idempotency_key returns. *)
EventsWithKey(l, k) ==
    IF k = BlankKey THEN {} ELSE {i \in DOMAIN l : l[i].req.key = k}

FirstOf(idx) == CHOOSE i \in idx : \A j \in idx : i <= j

(* Mutant of FindByKey: idempotency is not resolved first.                 *)
FindByKeySkipped(w) ==
    /\ pc[w] = "key"
    /\ Goto(w, "status")
    /\ UNCHANGED <<events, lock, req>>

FindByKey(w) ==
    LET found == EventsWithKey(events, req[w].key)
        event == events[FirstOf(found)]
    IN  /\ pc[w] = "key"
        /\ \/ found = {} /\ Goto(w, "decision")
           \/ /\ found # {}
              /\ IF MatchesRequest(event, req[w])
                 THEN Finish(w, Answer("existing", event))
                 ELSE Finish(w, Answer("idempotency_conflict", event))
        /\ UNCHANGED <<events, lock, req>>

(* Mutant of FindByDecision: the decision id is not looked up.             *)
FindByDecisionSkipped(w) ==
    /\ pc[w] = "decision"
    /\ Goto(w, "status")
    /\ UNCHANGED <<events, lock, req>>

FindByDecision(w) ==
    /\ pc[w] = "decision"
    /\ IF \E i \in DOMAIN events : events[i].req.decision = req[w].decision
       THEN Finish(w, Answer("duplicate_decision", NoEvent))
       ELSE Goto(w, "status")
    /\ UNCHANGED <<events, lock, req>>

(* effective_status reads the file once more; validation is pure.          *)
ComputeAndValidate(w) ==
    LET previous == EffectiveStatus(events, req[w].agg, GroupOf(req[w]))
        verdict == ValidateDecision(req[w], previous)
    IN  /\ pc[w] = "status"
        /\ IF verdict = "ok"
           THEN /\ pc' = [pc EXCEPT ![w] = "lock"]
                /\ prev' = [prev EXCEPT ![w] = previous]
                /\ UNCHANGED <<raw, reply>>
           ELSE Finish(w, Answer(verdict, NoEvent))
        /\ UNCHANGED <<events, lock, req>>

(* Mutant of EnterLock: the flock is not taken exclusively.                *)
EnterLockShared(w) ==
    /\ pc[w] = "lock"
    /\ lock' = w
    /\ Goto(w, "read")
    /\ UNCHANGED <<events, req>>

(* With fcntl the sidecar file excludes every other thread and process.    *)
(* Without it only self._process_lock is taken, and that belongs to the    *)
(* store object of this one request.                                       *)
EnterLock(w) ==
    /\ pc[w] = "lock"
    /\ HasFcntl => lock = NoWorker
    /\ lock' = IF HasFcntl THEN w ELSE lock
    /\ Goto(w, "read")
    /\ UNCHANGED <<events, req>>

ReadRaw(w) ==
    /\ pc[w] = "read"
    /\ raw' = [raw EXCEPT ![w] = events]
    /\ pc' = [pc EXCEPT ![w] = "write"]
    /\ UNCHANGED <<events, lock, req, prev, reply>>

(* os.replace: the file is the old list or the new one, never a part.      *)
WriteRaw(w) ==
    /\ pc[w] = "write"
    /\ events' = Append(raw[w], [req |-> req[w], previous |-> prev[w]])
    /\ Goto(w, "reply")
    /\ UNCHANGED <<lock, req>>

Reply(w) ==
    /\ pc[w] = "reply"
    /\ Release(w)
    /\ Finish(w, Answer("created", [req |-> req[w], previous |-> prev[w]]))
    /\ UNCHANGED <<events, req>>

(* Mutant of StoreFailure: the lock is not released on an error.           *)
StoreFailureKeepsLock(w) ==
    /\ pc[w] \in {"key", "decision", "status", "lock", "read", "write"}
    /\ Finish(w, Answer("store_unavailable", NoEvent))
    /\ UNCHANGED <<events, lock, req>>

(* An OSError from the file system.  In _read_raw and _write_raw_atomic it *)
(* becomes GovernanceStoreError and 503; opening the sidecar file is not   *)
(* guarded and gives a 500.  The old file stays.                           *)
StoreFailure(w) ==
    /\ pc[w] \in {"key", "decision", "status", "lock", "read", "write"}
    /\ Release(w)
    /\ Finish(w, Answer(IF pc[w] = "lock" THEN "server_error"
                                          ELSE "store_unavailable", NoEvent))
    /\ UNCHANGED <<events, req>>

(* The process of w dies: the caller gets no answer, the system drops the  *)
(* flock, and the file is as the last os.replace left it.                  *)
Crash(w) ==
    /\ pc[w] # "idle"
    /\ Release(w)
    /\ Finish(w, NoReply)
    /\ UNCHANGED <<events, req>>

Step(w) ==
    \/ FindByKey(w)
    \/ FindByDecision(w)
    \/ ComputeAndValidate(w)
    \/ EnterLock(w)
    \/ ReadRaw(w)
    \/ WriteRaw(w)
    \/ Reply(w)

Next ==
    \E w \in Workers :
        \/ \E r \in Requests : Receive(w, r)
        \/ Step(w)
        \/ StoreFailure(w)
        \/ Crash(w)

Spec == Init /\ [][Next]_vars

(* A thread that can run does run, and a thread blocked in flock gets the   *)
(* lock if it is released again and again (the kernel wakes waiters in      *)
(* order).  Nothing makes callers call, files fail or processes die.       *)
Fairness ==
    \A w \in Workers : WF_vars(Step(w)) /\ SF_vars(EnterLock(w))

FairSpec == Spec /\ Fairness

-----------------------------------------------------------------------------

PC == {"idle", "key", "decision", "status", "lock", "read", "write", "reply"}

ReplyKind ==
    {"none", "created", "existing", "externally_owned", "idempotency_conflict",
     "duplicate_decision", "invalid_transition", "missing_required_field",
     "validation_error", "store_unavailable", "server_error"}

(* Types of the file, the lock and the locals of each thread (service.py).  *)
TypeOK ==
    /\ events \in Seq(Event)
    /\ lock \in Workers \cup {NoWorker}
    /\ pc \in [Workers -> PC]
    /\ req \in [Workers -> Requests \cup {NoRequest}]
    /\ prev \in [Workers -> AnyStatus]
    /\ raw \in [Workers -> Seq(Event)]
    /\ reply \in [Workers -> [kind : ReplyKind, event : Event \cup {NoEvent}]]

(* The log only grows: no step removes, replaces or reorders an event that *)
(* is in the file (store.py append: "Must never overwrite or remove any    *)
(* previously-appended event").                                            *)
AppendOnly ==
    [][\A i \in DOMAIN events : i \in DOMAIN events' /\ events'[i] = events[i]]_vars

(* A 201 or 200 names an event that is in the file and that says what the  *)
(* request of the caller said; this stays true whatever the other threads  *)
(* do, through crashes and failed writes.                                  *)
AcknowledgedIsStored ==
    \A w \in Workers :
        reply[w].kind \in {"created", "existing"} =>
            /\ \E i \in DOMAIN events : events[i] = reply[w].event
            /\ MatchesRequest(reply[w].event, req[w])

(* The previous_status of an event is the status its history really had at *)
(* some earlier length of the log, and the move from it is a legal one:    *)
(* overlapping commands may decide on an old status, never on one that     *)
(* the log did not show.                                                   *)
EventsGrounded ==
    \A i \in DOMAIN events :
        LET e == events[i] IN
        /\ <<e.previous, NewStatus(e.req)>> \in Transitions[GroupOf(e.req)]
        /\ \E n \in 0 .. i - 1 :
               e.previous = StatusAfter(events, n, e.req.agg, GroupOf(e.req))

(* What the steps of a command rely on: the lock is held from the read to  *)
(* the reply, so that what append read is still the file when it writes,   *)
(* and what the command validated was once shown by the log.               *)
CommandProgress(w) ==
    /\ pc[w] # "idle" => req[w] \in Requests
    /\ pc[w] \in {"read", "write", "reply"} => lock = w
    /\ pc[w] = "write" => raw[w] = events
    /\ pc[w] \in {"lock", "read", "write"} =>
           /\ ValidateDecision(req[w], prev[w]) = "ok"
           /\ \E n \in 0 .. Len(events) :
                 prev[w] = StatusAfter(events, n, req[w].agg, GroupOf(req[w]))
    /\ pc[w] = "reply" =>
           \E i \in DOMAIN events : events[i] = [req |-> req[w], previous |-> prev[w]]

(* The inductive invariant, where the file lock works (HasFcntl).          *)
ServiceInv ==
    /\ TypeOK
    /\ \A w \in Workers : CommandProgress(w)
    /\ AcknowledgedIsStored
    /\ EventsGrounded

(* The damage retries can do: however often requests with one key are      *)
(* sent, each thread that overlaps the first append adds one event at most.*)
DuplicatesBoundedByThreads ==
    \A r \in Requests :
        Cardinality(EventsWithKey(events, r.key)) <= Cardinality(Workers)

(* Every command ends: a thread waiting for the lock is not left waiting   *)
(* by one that failed, or died, holding it.                                *)
CommandsAnswered == \A w \in Workers : pc[w] # "idle" ~> pc[w] = "idle"

-----------------------------------------------------------------------------

(* The abstract ledger.  Callers that do not overlap see exactly it: with  *)
(* one worker, Spec implements Ledger!Spec.                                *)
Ledger == INSTANCE GovernanceLedger WITH log <- events

(* One request at a time, every step of the service is a ledger record or   *)
(* leaves the log alone, through crashes, failures and retries.            *)
ImplementsLedger == Ledger!Spec

(* What the ledger guarantees of its log: legal chained histories, final    *)
(* terminal statuses, keys and decision ids that name one event each.      *)
LedgerInv == Ledger!LedgerInv

=============================================================================
