------------------------ MODULE GovernanceServiceProofs ------------------------
(***************************************************************************)
(* Any number of threads and processes, any requests, crashes and failed   *)
(* writes included: where the file lock works, the event log is typed,     *)
(* only grows, keeps every acknowledged event, and every event of it is a  *)
(* legal move from a status the log once showed.                           *)
(***************************************************************************)
EXTENDS MCGovernance, WellFoundedInduction, FiniteSetTheorems, TLAPS

-----------------------------------------------------------------------------
(* Positions are well-founded.                                             *)
NatOrder == {p \in Nat \X Nat : p[1] < p[2]}

LEMMA NatOrderWellFounded == IsWellFoundedOn(NatOrder, Nat)
BY NatLessThanWellFounded DEF OpToRel, NatOrder

(* A non-empty set of positions has a last one, and LastOf is it. *)
LEMMA LastOfIsLast ==
    ASSUME NEW n \in Nat, NEW idx \in SUBSET (1..n), idx # {}
    PROVE  LastOf(idx) \in idx /\ \A j \in idx : j <= LastOf(idx)
<1> DEFINE T == {n - i : i \in idx}
<1>1. \A i \in idx : n - i \in Nat /\ n - i \in T
  OBVIOUS
<1>2. T \subseteq Nat /\ T # {}
  BY <1>1
<1>3. PICK x \in T : \A y \in T : <<y, x>> \notin NatOrder
  <2> HIDE DEF T
  <2>1. QED
    BY <1>2, WFMin, NatOrderWellFounded
<1>4. PICK i \in idx : x = n - i
  OBVIOUS
<1>5. ASSUME NEW j \in idx PROVE j <= i
  <2>1. ~ (n - j < n - i)
    BY <1>1, <1>3, <1>4 DEF NatOrder
  <2>2. QED
    BY <2>1
<1>6. QED
  BY <1>5 DEF LastOf

-----------------------------------------------------------------------------
(* The operators of GovernanceLifecycle, for every log.                    *)

(* Appending an event leaves every earlier status of every history alone.  *)
LEMMA StatusAfterAppend ==
    ASSUME NEW S, NEW log \in Seq(S), NEW e \in S,
           NEW n \in 0 .. Len(log), NEW agg, NEW grp
    PROVE  StatusAfter(Append(log, e), n, agg, grp) = StatusAfter(log, n, agg, grp)
<1> DEFINE idx == HistoryIndices(log, n, agg, grp)
<1>1. n \in Nat /\ \A i \in 1..n : Append(log, e)[i] = log[i]
    OBVIOUS
<1>2. HistoryIndices(Append(log, e), n, agg, grp) = idx
    BY <1>1 DEF HistoryIndices
<1>3. CASE idx = {}
    BY <1>2, <1>3 DEF StatusAfter
<1>4. CASE idx # {}
  <2>1. LastOf(idx) \in 1..n
    BY <1>1, <1>4, LastOfIsLast DEF HistoryIndices
  <2>2. QED
    BY <1>1, <1>2, <1>4, <2>1 DEF StatusAfter
<1>5. QED
    BY <1>3, <1>4

(* The appended event sets the status of its own history ...               *)
LEMMA StatusOfAppended ==
    ASSUME NEW S, NEW log \in Seq(S), NEW e \in S
    PROVE  StatusAfter(Append(log, e), Len(log) + 1, e.req.agg, GroupOf(e.req))
               = NewStatus(e.req)
<1> DEFINE l == Append(log, e)
           idx == HistoryIndices(l, Len(log) + 1, e.req.agg, GroupOf(e.req))
<1>1. Len(log) + 1 \in Nat /\ l[Len(log) + 1] = e
    OBVIOUS
<1>2. idx \in SUBSET (1 .. Len(log) + 1) /\ Len(log) + 1 \in idx
    BY <1>1 DEF HistoryIndices
<1>3. LastOf(idx) \in idx /\ \A j \in idx : j <= LastOf(idx)
    BY <1>1, <1>2, LastOfIsLast
<1>4. LastOf(idx) = Len(log) + 1
    BY <1>1, <1>2, <1>3
<1>5. QED
    BY <1>1, <1>2, <1>4 DEF StatusAfter

(* ... and no other one.                                                   *)
LEMMA StatusOfOthers ==
    ASSUME NEW S, NEW log \in Seq(S), NEW e \in S, NEW agg, NEW grp,
           e.req.agg # agg \/ GroupOf(e.req) # grp
    PROVE  StatusAfter(Append(log, e), Len(log) + 1, agg, grp)
               = StatusAfter(log, Len(log), agg, grp)
<1>1. Len(log) \in Nat /\ Append(log, e)[Len(log) + 1] = e
    OBVIOUS
<1>2. HistoryIndices(Append(log, e), Len(log) + 1, agg, grp)
          = HistoryIndices(Append(log, e), Len(log), agg, grp)
    BY <1>1 DEF HistoryIndices
<1>3. StatusAfter(Append(log, e), Len(log) + 1, agg, grp)
          = StatusAfter(Append(log, e), Len(log), agg, grp)
    BY <1>2 DEF StatusAfter
<1>4. QED
    BY <1>1, <1>3, StatusAfterAppend

(* A legal move starts from a status that is not terminal, and from a      *)
(* status of its group.                                                    *)
LEMMA LegalMoveLeavesOpenStatus ==
    ASSUME NEW r, r.cmd \in DOMAIN Command, NEW previous,
           ValidateDecision(r, previous) = "ok"
    PROVE  /\ GroupOf(r) \in Group
           /\ <<previous, NewStatus(r)>> \in Transitions[GroupOf(r)]
           /\ previous \in Status[GroupOf(r)]
           /\ previous \notin TerminalStatuses[GroupOf(r)]
<1>1. GroupOf(r) \in Group
    BY DEF GroupOf, Command, Group
<1>2. <<previous, NewStatus(r)>> \in Transitions[GroupOf(r)]
    BY DEF ValidateDecision
<1>3. \A g \in Group : \A s, t :
          <<s, t>> \in Transitions[g] => s \in Status[g] /\ s \notin TerminalStatuses[g]
    BY DEF Group, Transitions, Status, TerminalStatuses
<1>4. QED
    BY <1>1, <1>2, <1>3

-----------------------------------------------------------------------------
(* The service, step by step.                                              *)

LEMMA ServiceInit == Init => ServiceInv
<1> SUFFICES ASSUME Init PROVE ServiceInv
    OBVIOUS
<1>1. TypeOK
    BY DEF Init, TypeOK, PC, NoReply, Answer, ReplyKind, AnyStatus, Group, Status
<1>2. \A w \in Workers : CommandProgress(w)
    BY DEF Init, CommandProgress
<1>3. AcknowledgedIsStored
    BY DEF Init, AcknowledgedIsStored, NoReply, Answer
<1>4. EventsGrounded
    BY DEF Init, EventsGrounded
<1>5. QED
    BY <1>1, <1>2, <1>3, <1>4 DEF ServiceInv

(* A status that validation accepts makes, with its request, an event.     *)
LEMMA ValidatedIsEvent ==
    ASSUME NEW r \in Requests, NEW p, ValidateDecision(r, p) = "ok"
    PROVE  /\ [req |-> r, previous |-> p] \in Event
           /\ <<p, NewStatus(r)>> \in Transitions[GroupOf(r)]
           /\ p \in AnyStatus
<1>1. /\ <<p, NewStatus(r)>> \in Transitions[GroupOf(r)]
      /\ p \in Status[GroupOf(r)] /\ GroupOf(r) \in Group
    BY RequestsAssumption, LegalMoveLeavesOpenStatus
<1>2. QED
    BY <1>1 DEF Event, AnyStatus

-----------------------------------------------------------------------------
(* Steps that leave the file alone.                                        *)

(* What holds of the file goes on holding of it.                           *)
LEMMA SameFile ==
    ASSUME ServiceInv, UNCHANGED events
    PROVE  EventsGrounded'
BY DEF ServiceInv, EventsGrounded

(* A worker is undisturbed by a step of another that keeps the file and    *)
(* does not take the lock from it.                                         *)
LEMMA OthersProgress ==
    ASSUME ServiceInv, NEW v \in Workers, UNCHANGED events,
           pc'[v] = pc[v], req'[v] = req[v], prev'[v] = prev[v], raw'[v] = raw[v],
           lock = v => lock' = v
    PROVE  CommandProgress(v)'
BY DEF ServiceInv, CommandProgress

(* A non-empty set of positions has a first one, and FirstOf is it.        *)
LEMMA FirstOfIsIn ==
    ASSUME NEW n \in Nat, NEW idx \in SUBSET (1..n), idx # {}
    PROVE  FirstOf(idx) \in idx
<1>1. idx \subseteq Nat
    OBVIOUS
<1>2. PICK i \in idx : \A j \in idx : <<j, i>> \notin NatOrder
    BY <1>1, WFMin, NatOrderWellFounded
<1>3. ASSUME NEW j \in idx PROVE i <= j
  <2>1. i \in Nat /\ j \in Nat /\ <<j, i>> \notin NatOrder
      BY <1>1, <1>2
  <2>2. ~ (j < i)
      BY <2>1 DEF NatOrder
  <2>3. QED
      BY <2>1, <2>2
<1>4. QED
    BY <1>3 DEF FirstOf

(* The types of the locals of a handler after it returns.                  *)
LEMMA FinishTypes ==
    ASSUME TypeOK, NEW w \in Workers, NEW kind \in ReplyKind,
           NEW event \in Event \cup {NoEvent}, Finish(w, Answer(kind, event))
    PROVE  /\ pc' \in [Workers -> PC]
           /\ prev' \in [Workers -> AnyStatus]
           /\ raw' \in [Workers -> Seq(Event)]
           /\ reply' \in [Workers -> [kind : ReplyKind, event : Event \cup {NoEvent}]]
<1>1. "draft" \in AnyStatus /\ <<>> \in Seq(Event) /\ "idle" \in PC
    BY DEF AnyStatus, Group, Status, PC
<1>2. Answer(kind, event) \in [kind : ReplyKind, event : Event \cup {NoEvent}]
    BY DEF Answer
<1>3. QED
    BY <1>1, <1>2 DEF TypeOK, Finish

LEMMA ReceiveKeeps ==
    ASSUME ServiceInv, NEW w \in Workers, NEW r \in Requests, Receive(w, r)
    PROVE  ServiceInv'
<1> USE DEF ServiceInv
<1>1. TypeOK'
  <2>1. req' \in [Workers -> Requests \cup {NoRequest}] /\ UNCHANGED <<events, lock>>
      BY DEF TypeOK, Receive
  <2>2. CASE r.type \in Restricted
    <3>1. Finish(w, Answer("externally_owned", NoEvent)) /\ TypeOK
      BY <2>2 DEF Receive
    <3>2. "externally_owned" \in ReplyKind
      BY DEF ReplyKind
    <3>3. /\ pc' \in [Workers -> PC]
          /\ prev' \in [Workers -> AnyStatus]
          /\ raw' \in [Workers -> Seq(Event)]
          /\ reply' \in [Workers -> [kind : ReplyKind, event : Event \cup {NoEvent}]]
      BY <3>1, <3>2, FinishTypes
    <3>4. events' \in Seq(Event) /\ lock' \in Workers \cup {NoWorker}
      BY <2>1 DEF TypeOK
    <3>5. QED
      BY <2>1, <3>3, <3>4 DEF TypeOK
  <2>3. CASE r.type \notin Restricted
    <3>1. /\ NoReply \in [kind : ReplyKind, event : Event \cup {NoEvent}]
          /\ "key" \in PC
      BY DEF NoReply, Answer, ReplyKind, PC
    <3>2. /\ pc' = [pc EXCEPT ![w] = "key"]
          /\ reply' = [reply EXCEPT ![w] = NoReply]
          /\ UNCHANGED <<prev, raw, events, lock>>
      BY <2>1, <2>3 DEF Receive
    <3> HIDE DEF NoReply
    <3>3. pc' \in [Workers -> PC]
      BY <3>1, <3>2 DEF TypeOK
    <3>4. reply' \in [Workers -> [kind : ReplyKind, event : Event \cup {NoEvent}]]
      BY <3>1, <3>2 DEF TypeOK
    <3>5. QED
      BY <2>1, <3>2, <3>3, <3>4 DEF TypeOK
  <2>4. QED
      BY <2>2, <2>3
<1>2. ASSUME NEW v \in Workers PROVE CommandProgress(v)'
  <2>1. CASE v = w
      BY <2>1 DEF TypeOK, Receive, Finish, CommandProgress
  <2>2. CASE v # w
      BY <2>2, OthersProgress DEF TypeOK, Receive, Finish
  <2>3. QED
      BY <2>1, <2>2
<1>3. AcknowledgedIsStored'
    BY DEF TypeOK, AcknowledgedIsStored, Receive, Finish, Answer, NoReply
<1>4. QED
    BY <1>1, <1>2, <1>3, SameFile DEF Receive

(* A command that ends without an event to show for it.                    *)
LEMMA FailureKeeps ==
    ASSUME ServiceInv, NEW w \in Workers, NEW kind \in ReplyKind \ {"created", "existing"},
           NEW event \in Event \cup {NoEvent},
           Finish(w, Answer(kind, event)), UNCHANGED <<events, req>>,
           Release(w) \/ UNCHANGED lock
    PROVE  ServiceInv'
<1> USE DEF ServiceInv
<1>1. TypeOK'
    BY FinishTypes DEF TypeOK, Release
<1>2. ASSUME NEW v \in Workers PROVE CommandProgress(v)'
  <2>1. CASE v = w
      BY <2>1 DEF TypeOK, Finish, CommandProgress
  <2>2. CASE v # w
      BY <2>2, OthersProgress DEF TypeOK, Finish, Release
  <2>3. QED
      BY <2>1, <2>2
<1>3. AcknowledgedIsStored'
    BY DEF TypeOK, AcknowledgedIsStored, Finish, Answer
<1>4. QED
    BY <1>1, <1>2, <1>3, SameFile

(* A step of a command that only moves on: its locals and answer stay.     *)
LEMMA GotoTypes ==
    ASSUME TypeOK, NEW w \in Workers, NEW step \in PC, Goto(w, step),
           UNCHANGED <<events, req>>, lock' \in Workers \cup {NoWorker}
    PROVE  TypeOK' /\ (AcknowledgedIsStored => AcknowledgedIsStored')
BY DEF TypeOK, Goto, AcknowledgedIsStored

LEMMA FindByKeyKeeps ==
    ASSUME ServiceInv, NEW w \in Workers, FindByKey(w)
    PROVE  ServiceInv'
<1> DEFINE found == EventsWithKey(events, req[w].key)
           event == events[FirstOf(found)]
<1>1. pc[w] = "key" /\ UNCHANGED <<events, lock, req>> /\ req[w] \in Requests
    BY DEF FindByKey, ServiceInv, CommandProgress
<1>2. CASE found = {}
  <2>1. Goto(w, "decision")
      BY <1>2 DEF FindByKey
  <2>2. TypeOK' /\ AcknowledgedIsStored'
      BY <1>1, <2>1, GotoTypes DEF ServiceInv, TypeOK, PC
  <2>3. ASSUME NEW v \in Workers PROVE CommandProgress(v)'
    <3>1. CASE v = w
      BY <1>1, <2>1, <3>1 DEF ServiceInv, TypeOK, Goto, CommandProgress
    <3>2. CASE v # w
      BY <1>1, <2>1, <3>2, OthersProgress DEF ServiceInv, TypeOK, Goto
    <3>3. QED
      BY <3>1, <3>2
  <2>4. QED
      BY <1>1, <2>2, <2>3, SameFile DEF ServiceInv
<1>3. CASE found # {}
  <2>1. FirstOf(found) \in DOMAIN events /\ event \in Event
    <3>1. Len(events) \in Nat /\ DOMAIN events = 1 .. Len(events)
      BY DEF ServiceInv, TypeOK
    <3>2. found \in SUBSET (1 .. Len(events))
      BY <3>1 DEF EventsWithKey
    <3>3. FirstOf(found) \in found
      BY <1>3, <3>1, <3>2, FirstOfIsIn
    <3>4. QED
      BY <3>1, <3>2, <3>3 DEF ServiceInv, TypeOK
  <2>2. CASE MatchesRequest(event, req[w])
    <3>1. Finish(w, Answer("existing", event))
      BY <1>3, <2>2 DEF FindByKey
    <3> HIDE DEF event, found
    <3>2. TypeOK'
      BY <1>1, <2>1, <3>1, FinishTypes DEF ServiceInv, TypeOK, ReplyKind
    <3>3. \E i \in DOMAIN events : events[i] = event
      BY <2>1 DEF event
    <3>4. AcknowledgedIsStored'
      BY <1>1, <2>2, <3>1, <3>3 DEF ServiceInv, TypeOK, AcknowledgedIsStored, Finish, Answer
    <3>5. ASSUME NEW v \in Workers PROVE CommandProgress(v)'
      <4>1. CASE v = w
        BY <3>1, <4>1 DEF ServiceInv, TypeOK, Finish, CommandProgress
      <4>2. CASE v # w
        BY <1>1, <3>1, <4>2, OthersProgress DEF ServiceInv, TypeOK, Finish
      <4>3. QED
        BY <4>1, <4>2
    <3>6. QED
      BY <1>1, <3>2, <3>4, <3>5, SameFile DEF ServiceInv
  <2>3. CASE ~MatchesRequest(event, req[w])
    <3>1. Finish(w, Answer("idempotency_conflict", event))
      BY <1>3, <2>3 DEF FindByKey
    <3> HIDE DEF event, found
    <3>2. QED
      BY <1>1, <2>1, <3>1, FailureKeeps DEF ReplyKind
  <2>4. QED
      BY <2>2, <2>3
<1>4. QED
    BY <1>2, <1>3

LEMMA FindByDecisionKeeps ==
    ASSUME ServiceInv, NEW w \in Workers, FindByDecision(w)
    PROVE  ServiceInv'
<1>1. pc[w] = "decision" /\ UNCHANGED <<events, lock, req>> /\ req[w] \in Requests
    BY DEF FindByDecision, ServiceInv, CommandProgress
<1>2. CASE Finish(w, Answer("duplicate_decision", NoEvent))
    BY <1>1, <1>2, FailureKeeps DEF ReplyKind
<1>3. CASE Goto(w, "status")
  <2>1. TypeOK' /\ AcknowledgedIsStored'
      BY <1>1, <1>3, GotoTypes DEF ServiceInv, TypeOK, PC
  <2>2. ASSUME NEW v \in Workers PROVE CommandProgress(v)'
    <3>1. CASE v = w
      BY <1>1, <1>3, <3>1 DEF ServiceInv, TypeOK, Goto, CommandProgress
    <3>2. CASE v # w
      BY <1>1, <1>3, <3>2, OthersProgress DEF ServiceInv, TypeOK, Goto
    <3>3. QED
      BY <3>1, <3>2
  <2>3. QED
      BY <1>1, <2>1, <2>2, SameFile DEF ServiceInv
<1>4. QED
    BY <1>2, <1>3 DEF FindByDecision

LEMMA ComputeAndValidateKeeps ==
    ASSUME ServiceInv, NEW w \in Workers, ComputeAndValidate(w)
    PROVE  ServiceInv'
<1> DEFINE previous == EffectiveStatus(events, req[w].agg, GroupOf(req[w]))
           verdict == ValidateDecision(req[w], previous)
<1>1. pc[w] = "status" /\ UNCHANGED <<events, lock, req>> /\ req[w] \in Requests
    BY DEF ComputeAndValidate, ServiceInv, CommandProgress
<1>2. CASE verdict = "ok"
  <2>1. /\ pc' = [pc EXCEPT ![w] = "lock"]
        /\ prev' = [prev EXCEPT ![w] = previous]
        /\ UNCHANGED <<raw, reply>>
      BY <1>2 DEF ComputeAndValidate
  <2>2. Len(events) \in 0 .. Len(events)
      BY DEF ServiceInv, TypeOK
  <2>3. \E n \in 0 .. Len(events) :
            previous = StatusAfter(events, n, req[w].agg, GroupOf(req[w]))
      BY <2>2 DEF EffectiveStatus
  <2> HIDE DEF previous
  <2>4. previous \in AnyStatus /\ "lock" \in PC
      BY <1>1, <1>2, ValidatedIsEvent DEF PC
  <2>5. TypeOK' /\ AcknowledgedIsStored'
      BY <1>1, <2>1, <2>4 DEF ServiceInv, TypeOK, AcknowledgedIsStored
  <2>6. ASSUME NEW v \in Workers PROVE CommandProgress(v)'
    <3>1. CASE v = w
      BY <1>1, <1>2, <2>1, <2>3, <3>1 DEF ServiceInv, TypeOK, CommandProgress
    <3>2. CASE v # w
      BY <1>1, <2>1, <3>2, OthersProgress DEF ServiceInv, TypeOK
    <3>3. QED
      BY <3>1, <3>2
  <2>7. QED
      BY <1>1, <2>5, <2>6, SameFile DEF ServiceInv
<1>3. CASE verdict # "ok"
  <2>1. Finish(w, Answer(verdict, NoEvent))
      BY <1>3 DEF ComputeAndValidate
  <2>2. verdict \in ReplyKind \ {"created", "existing"}
      BY <1>3 DEF ValidateDecision, ReplyKind
  <2> HIDE DEF verdict, previous
  <2>3. QED
      BY <1>1, <2>1, <2>2, FailureKeeps
<1>4. QED
    BY <1>2, <1>3

LEMMA EnterLockKeeps ==
    ASSUME HasFcntl, ServiceInv, NEW w \in Workers, EnterLock(w)
    PROVE  ServiceInv'
<1>1. /\ pc[w] = "lock" /\ lock = NoWorker /\ lock' = w
      /\ Goto(w, "read") /\ UNCHANGED <<events, req>>
    BY DEF EnterLock
<1>2. TypeOK' /\ AcknowledgedIsStored'
    BY <1>1, GotoTypes DEF ServiceInv, PC
<1>3. ASSUME NEW v \in Workers PROVE CommandProgress(v)'
  <2>1. CASE v = w
      BY <1>1, <2>1 DEF ServiceInv, TypeOK, Goto, CommandProgress
  <2>2. CASE v # w
      BY <1>1, <2>2, OthersProgress, DistinctNulls DEF ServiceInv, TypeOK, Goto
  <2>3. QED
      BY <2>1, <2>2
<1>4. QED
    BY <1>1, <1>2, <1>3, SameFile DEF ServiceInv

LEMMA ReadRawKeeps ==
    ASSUME ServiceInv, NEW w \in Workers, ReadRaw(w)
    PROVE  ServiceInv'
<1>1. /\ pc[w] = "read" /\ pc' = [pc EXCEPT ![w] = "write"]
      /\ raw' = [raw EXCEPT ![w] = events]
      /\ UNCHANGED <<events, lock, req, prev, reply>>
    BY DEF ReadRaw
<1>2. TypeOK' /\ AcknowledgedIsStored'
    BY <1>1 DEF ServiceInv, TypeOK, AcknowledgedIsStored, PC
<1>3. ASSUME NEW v \in Workers PROVE CommandProgress(v)'
  <2>1. CASE v = w
      BY <1>1, <2>1 DEF ServiceInv, TypeOK, CommandProgress
  <2>2. CASE v # w
      BY <1>1, <2>2, OthersProgress DEF ServiceInv, TypeOK
  <2>3. QED
      BY <2>1, <2>2
<1>4. QED
    BY <1>1, <1>2, <1>3, SameFile DEF ServiceInv

(* The one step that changes the file: the lock makes it an append to the  *)
(* log as it is now, not as it was when it was read.                       *)
LEMMA WriteRawAppends ==
    ASSUME ServiceInv, NEW w \in Workers, WriteRaw(w)
    PROVE  LET e == [req |-> req[w], previous |-> prev[w]] IN
           /\ e \in Event
           /\ events \in Seq(Event)
           /\ events' = Append(events, e)
           /\ <<e.previous, NewStatus(e.req)>> \in Transitions[GroupOf(e.req)]
           /\ \E n \in 0 .. Len(events) :
                 e.previous = StatusAfter(events, n, e.req.agg, GroupOf(e.req))
<1>1. /\ pc[w] = "write" /\ raw[w] = events /\ req[w] \in Requests
      /\ events' = Append(raw[w], [req |-> req[w], previous |-> prev[w]])
      /\ ValidateDecision(req[w], prev[w]) = "ok"
      /\ \E n \in 0 .. Len(events) :
            prev[w] = StatusAfter(events, n, req[w].agg, GroupOf(req[w]))
    BY DEF WriteRaw, ServiceInv, CommandProgress
<1>2. events \in Seq(Event)
    BY DEF ServiceInv, TypeOK
<1>3. QED
    BY <1>1, <1>2, ValidatedIsEvent

LEMMA WriteRawKeeps ==
    ASSUME ServiceInv, NEW w \in Workers, WriteRaw(w)
    PROVE  ServiceInv'
<1> DEFINE e == [req |-> req[w], previous |-> prev[w]]
<1>1. /\ e \in Event /\ events \in Seq(Event) /\ events' = Append(events, e)
      /\ <<e.previous, NewStatus(e.req)>> \in Transitions[GroupOf(e.req)]
      /\ \E n \in 0 .. Len(events) :
            e.previous = StatusAfter(events, n, e.req.agg, GroupOf(e.req))
    BY WriteRawAppends
<1>2. /\ pc[w] = "write" /\ pc' = [pc EXCEPT ![w] = "reply"]
      /\ UNCHANGED <<lock, req, prev, raw, reply>>
    BY DEF WriteRaw, Goto
<1>3. lock = w /\ req[w] \in Requests
    BY <1>2 DEF ServiceInv, CommandProgress
<1>4. e.req = req[w] /\ e.previous = prev[w]
    OBVIOUS
<1>5. ASSUME NEW v \in Workers, pc'[v] = "reply", v = w
      PROVE  e = [req |-> req'[v], previous |-> prev'[v]]
    BY <1>2, <1>5
<1> HIDE DEF e
<1>6. /\ Len(events) \in Nat /\ Len(events') = Len(events) + 1
      /\ DOMAIN events = 1 .. Len(events)
      /\ DOMAIN events' = 1 .. Len(events) + 1
      /\ events'[Len(events) + 1] = e
      /\ \A i \in DOMAIN events : i \in DOMAIN events' /\ events'[i] = events[i]
    BY <1>1
<1>7. \A n \in 0 .. Len(events) : \A agg, grp :
          StatusAfter(events', n, agg, grp) = StatusAfter(events, n, agg, grp)
    BY <1>1, StatusAfterAppend
<1>8. TypeOK'
    BY <1>1, <1>2 DEF ServiceInv, TypeOK, PC
<1>9. AcknowledgedIsStored'
    BY <1>2, <1>6 DEF ServiceInv, AcknowledgedIsStored
<1>10. ASSUME NEW v \in Workers PROVE CommandProgress(v)'
  <2>1. CASE v = w
    <3>1. pc'[v] = "reply"
      BY <1>2, <2>1 DEF ServiceInv, TypeOK
    <3>2. e = [req |-> req'[v], previous |-> prev'[v]]
      BY <1>5, <2>1, <3>1
    <3>3. QED
      BY <1>2, <1>3, <1>6, <2>1, <3>1, <3>2 DEF CommandProgress
  <2>2. CASE v # w
    <3>1. pc'[v] = pc[v] /\ pc[v] \notin {"read", "write", "reply"}
      BY <1>2, <1>3, <2>2 DEF ServiceInv, TypeOK, CommandProgress
    <3>2. pc[v] = "lock" => \E n \in 0 .. Len(events) :
              prev[v] = StatusAfter(events', n, req[v].agg, GroupOf(req[v]))
      BY <1>7 DEF ServiceInv, CommandProgress
    <3>3. \A n \in 0 .. Len(events) : n \in 0 .. Len(events')
      BY <1>6
    <3>4. QED
      BY <1>2, <3>1, <3>2, <3>3 DEF ServiceInv, CommandProgress
  <2>3. QED
      BY <2>1, <2>2
<1>11. EventsGrounded'
  <2>1. SUFFICES ASSUME NEW i \in DOMAIN events'
                 PROVE  LET f == events'[i] IN
                        /\ <<f.previous, NewStatus(f.req)>> \in Transitions[GroupOf(f.req)]
                        /\ \E n \in 0 .. i - 1 :
                              f.previous = StatusAfter(events', n, f.req.agg, GroupOf(f.req))
      BY DEF EventsGrounded
  <2>2. CASE i = Len(events) + 1
    <3>1. events'[i] = e /\ 0 .. i - 1 = 0 .. Len(events)
      BY <1>6, <2>2
    <3>2. \E n \in 0 .. Len(events) :
              e.previous = StatusAfter(events', n, e.req.agg, GroupOf(e.req))
      BY <1>1, <1>7
    <3>3. QED
      BY <1>1, <3>1, <3>2
  <2>3. CASE i \in DOMAIN events
    <3>1. 0 .. i - 1 \subseteq 0 .. Len(events)
      BY <1>6, <2>3
    <3>2. QED
      BY <1>6, <1>7, <2>3, <3>1 DEF ServiceInv, EventsGrounded
  <2>4. QED
      BY <1>6, <2>1, <2>2, <2>3
<1>12. QED
    BY <1>8, <1>9, <1>10, <1>11 DEF ServiceInv

LEMMA ReplyKeeps ==
    ASSUME ServiceInv, NEW w \in Workers, Reply(w)
    PROVE  ServiceInv'
<1> DEFINE e == [req |-> req[w], previous |-> prev[w]]
<1>1. /\ pc[w] = "reply" /\ Release(w) /\ Finish(w, Answer("created", e))
      /\ UNCHANGED <<events, req>>
    BY DEF Reply
<1>2. /\ req[w] \in Requests /\ lock = w /\ \E i \in DOMAIN events : events[i] = e
    BY <1>1 DEF ServiceInv, CommandProgress
<1>3. e \in Event
    BY <1>2 DEF ServiceInv, TypeOK
<1>4. MatchesRequest(e, req[w])
    BY DEF MatchesRequest
<1> HIDE DEF e
<1>5. TypeOK'
  <2>1. TypeOK /\ "created" \in ReplyKind
      BY DEF ServiceInv, ReplyKind
  <2>2. /\ pc' \in [Workers -> PC]
        /\ prev' \in [Workers -> AnyStatus]
        /\ raw' \in [Workers -> Seq(Event)]
        /\ reply' \in [Workers -> [kind : ReplyKind, event : Event \cup {NoEvent}]]
      BY <1>1, <1>3, <2>1, FinishTypes
  <2>3. lock' \in Workers \cup {NoWorker}
      BY <1>1, <2>1 DEF Release, TypeOK
  <2>4. QED
      BY <1>1, <2>1, <2>2, <2>3 DEF TypeOK
<1>6. AcknowledgedIsStored'
    BY <1>1, <1>2, <1>4 DEF ServiceInv, TypeOK, AcknowledgedIsStored, Finish, Answer
<1>7. ASSUME NEW v \in Workers PROVE CommandProgress(v)'
  <2>1. CASE v = w
      BY <1>1, <2>1 DEF ServiceInv, TypeOK, Finish, CommandProgress
  <2>2. CASE v # w
      BY <1>1, <2>2, OthersProgress DEF ServiceInv, TypeOK, Finish, Release
  <2>3. QED
      BY <2>1, <2>2
<1>8. QED
    BY <1>1, <1>5, <1>6, <1>7, SameFile DEF ServiceInv

-----------------------------------------------------------------------------

LEMMA StepKeepsService ==
    ASSUME HasFcntl, ServiceInv, [Next]_vars
    PROVE  ServiceInv'
<1>1. CASE UNCHANGED vars
    BY <1>1 DEF vars, ServiceInv, TypeOK, CommandProgress, AcknowledgedIsStored,
                EventsGrounded
<1>2. ASSUME NEW w \in Workers, StoreFailure(w) PROVE ServiceInv'
  <2>1. /\ Release(w) /\ UNCHANGED <<events, req>>
        /\ \/ Finish(w, Answer("server_error", NoEvent))
           \/ Finish(w, Answer("store_unavailable", NoEvent))
      BY <1>2 DEF StoreFailure
  <2>2. QED
      BY <2>1, FailureKeeps DEF ReplyKind
<1>3. ASSUME NEW w \in Workers, Crash(w) PROVE ServiceInv'
  <2>1. /\ Release(w) /\ UNCHANGED <<events, req>>
        /\ Finish(w, Answer("none", NoEvent))
      BY <1>3 DEF Crash, NoReply
  <2>2. QED
      BY <2>1, FailureKeeps DEF ReplyKind
<1>4. ASSUME NEW w \in Workers, Step(w) PROVE ServiceInv'
    BY <1>4, FindByKeyKeeps, FindByDecisionKeeps, ComputeAndValidateKeeps,
       EnterLockKeeps, ReadRawKeeps, WriteRawKeeps, ReplyKeeps DEF Step
<1>5. QED
    BY <1>1, <1>2, <1>3, <1>4, ReceiveKeeps DEF Next

(* The state of the service is always well-typed, an acknowledged event is *)
(* in the file and says what its caller asked for, and each event is a     *)
(* legal move from a status its history once had: for any number of        *)
(* threads and processes, where the file lock works.                       *)
THEOREM ServiceInvariant == ASSUME HasFcntl PROVE Spec => []ServiceInv
<1>1. ServiceInv /\ [Next]_vars => ServiceInv'
    BY StepKeepsService
<1>2. QED
    BY ServiceInit, <1>1, PTL DEF Spec

THEOREM ServiceTypeCorrect == ASSUME HasFcntl PROVE Spec => []TypeOK
<1>1. ServiceInv => TypeOK
    BY DEF ServiceInv
<1>2. QED
    BY <1>1, ServiceInvariant, PTL

(* No 201 or 200 is ever taken back.                                       *)
THEOREM AcknowledgedEventsAreStored ==
    ASSUME HasFcntl PROVE Spec => []AcknowledgedIsStored
<1>1. ServiceInv => AcknowledgedIsStored
    BY DEF ServiceInv
<1>2. QED
    BY <1>1, ServiceInvariant, PTL

(* No event starts from a status the log never showed.                     *)
THEOREM EventsAreGrounded == ASSUME HasFcntl PROVE Spec => []EventsGrounded
<1>1. ServiceInv => EventsGrounded
    BY DEF ServiceInv
<1>2. QED
    BY <1>1, ServiceInvariant, PTL

(* No step loses, changes or reorders an event: only WriteRaw touches the  *)
(* file, and what it read under the lock is still the file.                *)
THEOREM LogOnlyGrows == ASSUME HasFcntl PROVE Spec => AppendOnly
<1> DEFINE Grows == \A i \in DOMAIN events : i \in DOMAIN events' /\ events'[i] = events[i]
<1>1. ASSUME ServiceInv, [Next]_vars PROVE [Grows]_vars
  <2>1. CASE UNCHANGED events
      BY <2>1
  <2>2. ASSUME NEW w \in Workers, WriteRaw(w) PROVE Grows
    <3>1. PICK e \in Event : events \in Seq(Event) /\ events' = Append(events, e)
      BY <1>1, <2>2, WriteRawAppends
    <3>2. QED
      BY <3>1
  <2>3. UNCHANGED events \/ \E w \in Workers : WriteRaw(w)
      BY <1>1 DEF Next, vars, Receive, Step, FindByKey, FindByDecision,
         ComputeAndValidate, EnterLock, ReadRaw, Reply, StoreFailure, Crash
  <2>4. QED
      BY <2>1, <2>2, <2>3
<1>2. QED
    BY <1>1, ServiceInvariant, PTL DEF Spec, AppendOnly

-----------------------------------------------------------------------------
(* How many events retries of one request can add.                         *)

(* The threads that looked the key k up before it was in the file and may  *)
(* still append an event with it.                                          *)
Appending(k) ==
    {w \in Workers : /\ pc[w] \in {"decision", "status", "lock", "read", "write"}
                     /\ req[w].key = k}

(* Once a key is in the file, its events and the threads that may add      *)
(* another one are together no more than the threads.                      *)
RetriesBounded ==
    \A r \in Requests :
        EventsWithKey(events, r.key) # {} =>
            Cardinality(EventsWithKey(events, r.key)) + Cardinality(Appending(r.key))
                <= Cardinality(Workers)

(* The only step that adds an event with a key ends a thread's chance to   *)
(* add another one; and no thread gets that chance once the key is there.  *)
LEMMA OneEventPerChance ==
    ASSUME ServiceInv, [Next]_vars, NEW k
    PROVE  \/ /\ EventsWithKey(events', k) = EventsWithKey(events, k)
              /\ EventsWithKey(events, k) # {} => Appending(k)' \subseteq Appending(k)
           \/ \E w \in Workers :
                  /\ EventsWithKey(events', k) = EventsWithKey(events, k) \cup {Len(events) + 1}
                  /\ Appending(k)' \subseteq Appending(k) \ {w} /\ w \in Appending(k)
<1>1. /\ events \in Seq(Event) /\ pc \in [Workers -> PC]
      /\ req \in [Workers -> Requests \cup {NoRequest}]
    BY DEF ServiceInv, TypeOK
<1>2. CASE UNCHANGED vars
    BY <1>2 DEF vars, Appending
<1>3. ASSUME NEW w \in Workers, WriteRaw(w)
      PROVE  \/ /\ EventsWithKey(events', k) = EventsWithKey(events, k)
                /\ Appending(k)' \subseteq Appending(k)
             \/ /\ EventsWithKey(events', k) = EventsWithKey(events, k) \cup {Len(events) + 1}
                /\ Appending(k)' \subseteq Appending(k) \ {w} /\ w \in Appending(k)
  <2>1. /\ events' = Append(events, [req |-> req[w], previous |-> prev[w]])
        /\ pc[w] = "write" /\ pc' = [pc EXCEPT ![w] = "reply"] /\ UNCHANGED req
      BY <1>3 DEF WriteRaw, Goto, ServiceInv, CommandProgress
  <2>2. Appending(k)' \subseteq Appending(k) \ {w}
      BY <1>1, <2>1 DEF Appending
  <2>3. DOMAIN events' = DOMAIN events \cup {Len(events) + 1}
        /\ (Len(events) + 1) \notin DOMAIN events
        /\ (\A i \in DOMAIN events : events'[i] = events[i])
        /\ events'[Len(events) + 1] = [req |-> req[w], previous |-> prev[w]]
    <3>1. [req |-> req[w], previous |-> prev[w]] \in Event
      BY <1>3, WriteRawAppends
    <3>2. QED
      BY <1>1, <2>1, <3>1
  <2>4. CASE req[w].key = k /\ k # BlankKey
    <3>1. w \in Appending(k)
      BY <2>1, <2>4 DEF Appending
    <3>2. EventsWithKey(events', k) = EventsWithKey(events, k) \cup {Len(events) + 1}
      BY <2>3, <2>4 DEF EventsWithKey
    <3>3. QED
      BY <2>2, <3>1, <3>2
  <2>5. CASE k = BlankKey
    <3>1. EventsWithKey(events', k) = {} /\ EventsWithKey(events, k) = {}
      BY <2>5 DEF EventsWithKey
    <3>2. QED
      BY <2>2, <3>1
  <2>6. CASE req[w].key # k /\ k # BlankKey
    <3>1. /\ EventsWithKey(events', k) = {i \in DOMAIN events' : events'[i].req.key = k}
          /\ EventsWithKey(events, k) = {i \in DOMAIN events : events[i].req.key = k}
      BY <2>6 DEF EventsWithKey
    <3>2. events'[Len(events) + 1].req = req[w]
      BY <2>3
    <3>3. EventsWithKey(events', k) = EventsWithKey(events, k)
      BY <2>3, <2>6, <3>1, <3>2
    <3>4. QED
      BY <2>2, <3>3
  <2>7. QED
      BY <2>4, <2>5, <2>6
<1>4. ASSUME NEW w \in Workers, UNCHANGED events,
             \A v \in Workers \ {w} : pc'[v] = pc[v] /\ req'[v] = req[v],
             w \in Appending(k)' =>
                 w \in Appending(k) \/ EventsWithKey(events, k) = {}
      PROVE  /\ EventsWithKey(events', k) = EventsWithKey(events, k)
             /\ EventsWithKey(events, k) # {} => Appending(k)' \subseteq Appending(k)
    BY <1>4 DEF Appending
<1>5. ASSUME NEW w \in Workers, NEW r \in Requests, Receive(w, r)
      PROVE  /\ EventsWithKey(events', k) = EventsWithKey(events, k)
             /\ EventsWithKey(events, k) # {} => Appending(k)' \subseteq Appending(k)
  <2>1. /\ UNCHANGED events /\ pc'[w] \in {"idle", "key"}
        /\ \A v \in Workers \ {w} : pc'[v] = pc[v] /\ req'[v] = req[v]
      BY <1>1, <1>5 DEF Receive, Finish
  <2>2. w \notin Appending(k)'
      BY <2>1 DEF Appending
  <2>3. QED
      BY <1>4, <2>1, <2>2
<1>6. ASSUME NEW w \in Workers, FindByKey(w)
      PROVE  /\ EventsWithKey(events', k) = EventsWithKey(events, k)
             /\ EventsWithKey(events, k) # {} => Appending(k)' \subseteq Appending(k)
  <2>1. /\ UNCHANGED <<events, req>>
        /\ \A v \in Workers \ {w} : pc'[v] = pc[v]
        /\ pc'[w] = "idle" \/ EventsWithKey(events, req[w].key) = {}
      BY <1>1, <1>6 DEF FindByKey, Finish, Goto
  <2>2. w \in Appending(k)' => EventsWithKey(events, k) = {}
      BY <2>1 DEF Appending
  <2>3. QED
      BY <1>4, <2>1, <2>2
<1>7. ASSUME NEW w \in Workers,
             \/ FindByDecision(w) \/ ComputeAndValidate(w) \/ EnterLock(w)
             \/ ReadRaw(w) \/ Reply(w) \/ StoreFailure(w) \/ Crash(w)
      PROVE  /\ EventsWithKey(events', k) = EventsWithKey(events, k)
             /\ EventsWithKey(events, k) # {} => Appending(k)' \subseteq Appending(k)
  <2>1. /\ UNCHANGED <<events, req>>
        /\ \A v \in Workers \ {w} : pc'[v] = pc[v]
        /\ pc'[w] = "idle" \/ pc[w] \in {"decision", "status", "lock", "read"}
      BY <1>1, <1>7 DEF FindByDecision, ComputeAndValidate, EnterLock, ReadRaw, Reply,
         StoreFailure, Crash, Finish, Goto
  <2>2. w \in Appending(k)' => w \in Appending(k)
      BY <2>1 DEF Appending
  <2>3. QED
      BY <1>4, <2>1, <2>2
<1>8. QED
    BY <1>2, <1>3, <1>5, <1>6, <1>7 DEF Next, Step

(* The events with a key are finitely many, and positions of the file.     *)
LEMMA EventsWithKeyFinite ==
    ASSUME ServiceInv, NEW k
    PROVE  /\ IsFiniteSet(EventsWithKey(events, k))
           /\ Cardinality(EventsWithKey(events, k)) \in Nat
           /\ (Len(events) + 1) \notin EventsWithKey(events, k)
<1> DEFINE E == EventsWithKey(events, k)
<1>1. Len(events) \in Nat /\ E \in SUBSET (1 .. Len(events))
    BY DEF ServiceInv, TypeOK, EventsWithKey
<1>2. IsFiniteSet(1 .. Len(events))
    BY <1>1, FS_Interval
<1> HIDE DEF E
<1>3. IsFiniteSet(E)
    BY <1>1, <1>2, FS_Subset
<1>4. IsFiniteSet(E) /\ Cardinality(E) \in Nat /\ (Len(events) + 1) \notin E
    BY <1>1, <1>3, FS_CardinalityType
<1>5. QED
    BY <1>4 DEF E

(* A step keeps the bound: it adds an event where a chance is used up, and *)
(* the first event leaves at most the other threads a chance.              *)
LEMMA StepKeepsRetriesBounded ==
    ASSUME ServiceInv, RetriesBounded, [Next]_vars, IsFiniteSet(Workers)
    PROVE  RetriesBounded'
<1>1. SUFFICES ASSUME NEW r \in Requests, EventsWithKey(events', r.key) # {}
               PROVE  Cardinality(EventsWithKey(events', r.key)) + Cardinality(Appending(r.key)')
                          <= Cardinality(Workers)
    BY DEF RetriesBounded
<1> DEFINE k == r.key
           E == EventsWithKey(events, k)
           A == Appending(k)
<1>2. /\ IsFiniteSet(E) /\ Cardinality(E) \in Nat
      /\ (Len(events) + 1) \notin E
    BY EventsWithKeyFinite
<1>3. ASSUME NEW B \in SUBSET Workers PROVE IsFiniteSet(B) /\ Cardinality(B) \in Nat
    BY <1>3, FS_Subset, FS_CardinalityType
<1>4. /\ A \in SUBSET Workers /\ A' \in SUBSET Workers
      /\ Cardinality(Workers) \in Nat
    BY <1>3, FS_CardinalityType DEF Appending
<1>5. E # {} => Cardinality(E) + Cardinality(A) <= Cardinality(Workers)
    BY DEF RetriesBounded
<1>6. \/ EventsWithKey(events', k) = E /\ (E # {} => A' \subseteq A)
      \/ \E w \in Workers :
             /\ EventsWithKey(events', k) = E \cup {Len(events) + 1}
             /\ A' \subseteq A \ {w} /\ w \in A
    BY OneEventPerChance
<1> DEFINE E2 == EventsWithKey(events', k)
           A2 == A'
<1>7. SUFFICES Cardinality(E2) + Cardinality(A2) <= Cardinality(Workers)
    OBVIOUS
<1>8. /\ A2 \in SUBSET Workers
      /\ \/ E2 = E /\ (E # {} => A2 \subseteq A)
         \/ \E w \in Workers : E2 = E \cup {Len(events) + 1} /\ A2 \subseteq A \ {w} /\ w \in A
      /\ E2 # {}
    BY <1>1, <1>4, <1>6
<1> HIDE DEF E, A, E2, A2
<1>9. CASE E2 = E /\ (E # {} => A2 \subseteq A)
  <2>1. Cardinality(A2) <= Cardinality(A)
      BY <1>3, <1>4, <1>8, <1>9, FS_Subset
  <2>2. QED
      BY <1>2, <1>3, <1>4, <1>5, <1>8, <1>9, <2>1
<1>10. ASSUME NEW w \in Workers, E2 = E \cup {Len(events) + 1}, A2 \subseteq A \ {w}, w \in A
       PROVE  Cardinality(E2) + Cardinality(A2) <= Cardinality(Workers)
  <2>1. Cardinality(E2) = Cardinality(E) + 1
      BY <1>2, <1>10, FS_AddElement
  <2>2. \A B \in SUBSET Workers : w \in B => Cardinality(B \ {w}) = Cardinality(B) - 1
      BY <1>3, FS_RemoveElement
  <2>3. CASE E # {}
    <3>1. A \ {w} \in SUBSET Workers /\ Cardinality(A \ {w}) = Cardinality(A) - 1
      BY <1>4, <1>10, <2>2
    <3>2. Cardinality(A2) <= Cardinality(A \ {w})
      BY <1>3, <1>10, <3>1, FS_Subset
    <3>3. QED
      BY <1>2, <1>3, <1>4, <1>5, <1>8, <2>1, <2>3, <3>1, <3>2
  <2>4. CASE E = {}
    <3>1. Cardinality(E) = 0
      BY <2>4, FS_EmptySet
    <3>2. Workers \ {w} \in SUBSET Workers /\ A2 \in SUBSET (Workers \ {w})
          /\ Cardinality(Workers \ {w}) = Cardinality(Workers) - 1
      BY <1>8, <1>10, <2>2
    <3>3. Cardinality(A2) <= Cardinality(Workers \ {w})
      BY <1>3, <3>2, FS_Subset
    <3>4. QED
      BY <1>3, <1>4, <1>8, <2>1, <3>1, <3>2, <3>3
  <2>5. QED
      BY <2>3, <2>4
<1>11. QED
    BY <1>8, <1>9, <1>10

(* However often requests with one key are sent, and however their threads *)
(* overlap, fail or die, a key has no more events than there are threads.  *)
THEOREM DuplicatesAreBounded ==
    ASSUME HasFcntl, IsFiniteSet(Workers)
    PROVE  Spec => []DuplicatesBoundedByThreads
<1>1. Init => RetriesBounded
    BY DEF Init, RetriesBounded, EventsWithKey
<1>2. ServiceInv /\ RetriesBounded /\ [Next]_vars => RetriesBounded'
    BY StepKeepsRetriesBounded
<1>3. ServiceInv /\ RetriesBounded => DuplicatesBoundedByThreads
  <2>1. SUFFICES ASSUME ServiceInv, RetriesBounded, NEW r \in Requests
                 PROVE  Cardinality(EventsWithKey(events, r.key)) <= Cardinality(Workers)
      BY DEF DuplicatesBoundedByThreads
  <2>2. Appending(r.key) \in SUBSET Workers
      BY DEF Appending
  <2>3. Cardinality(Workers) \in Nat /\ Cardinality(Appending(r.key)) \in Nat
      BY <2>2, FS_Subset, FS_CardinalityType
  <2>4. CASE EventsWithKey(events, r.key) = {}
    <3>1. Cardinality(EventsWithKey(events, r.key)) = 0
      BY <2>4, FS_EmptySet
    <3>2. QED
      BY <2>3, <3>1
  <2>5. CASE EventsWithKey(events, r.key) # {}
      BY <2>1, <2>3, <2>5, EventsWithKeyFinite DEF RetriesBounded
  <2>6. QED
      BY <2>4, <2>5
<1>4. QED
    BY <1>1, <1>2, <1>3, ServiceInvariant, PTL DEF Spec

-----------------------------------------------------------------------------
(* Callers that do not overlap: one worker.                                *)

(* What the lookups found is still so when the event is written.           *)
LookupsHold(w) ==
    /\ pc[w] \in {"decision", "status", "lock", "read", "write"} =>
           ~Ledger!KeyUsed(events, req[w].key)
    /\ pc[w] \in {"status", "lock", "read", "write"} =>
           ~Ledger!DecisionUsed(events, req[w].decision)
    /\ pc[w] \in {"lock", "read", "write"} =>
           prev[w] = EffectiveStatus(events, req[w].agg, GroupOf(req[w]))

(* A step of one thread; where the others stay idle, all steps are its own. *)
OwnStep(w) ==
    \/ \E r \in Requests : Receive(w, r)
    \/ Step(w)
    \/ StoreFailure(w)
    \/ Crash(w)

LEMMA StepKeepsLookups ==
    ASSUME NEW w \in Workers, ServiceInv, LookupsHold(w), [OwnStep(w)]_vars
    PROVE  LookupsHold(w)'
<1>1. pc \in [Workers -> PC] /\ prev \in [Workers -> AnyStatus]
    BY DEF ServiceInv, TypeOK
<1>2. CASE UNCHANGED vars
    BY <1>2 DEF vars, LookupsHold
<1>3. CASE \E r \in Requests : Receive(w, r)
  <2>1. pc'[w] \in {"idle", "key"}
      BY <1>1, <1>3 DEF Receive, Finish
  <2>2. QED
      BY <2>1 DEF LookupsHold
<1>4. CASE FindByKey(w)
  <2>1. UNCHANGED <<events, req>>
      BY <1>4 DEF FindByKey
  <2>2. CASE EventsWithKey(events, req[w].key) = {}
    <3>1. ~Ledger!KeyUsed(events, req[w].key)
      BY <2>2 DEF EventsWithKey, Ledger!KeyUsed
    <3>2. pc'[w] = "decision"
      BY <1>1, <1>4, <2>2 DEF FindByKey, Goto
    <3>3. QED
      BY <2>1, <3>1, <3>2 DEF LookupsHold
  <2>3. CASE EventsWithKey(events, req[w].key) # {}
    <3>1. pc'[w] = "idle"
      BY <1>1, <1>4, <2>3 DEF FindByKey, Finish
    <3>2. QED
      BY <3>1 DEF LookupsHold
  <2>4. QED
      BY <2>2, <2>3
<1>5. CASE FindByDecision(w)
  <2>1. UNCHANGED <<events, req>> /\ pc[w] = "decision"
      BY <1>5 DEF FindByDecision
  <2>2. \/ pc'[w] = "idle"
        \/ pc'[w] = "status" /\ ~Ledger!DecisionUsed(events, req[w].decision)
      BY <1>1, <1>5 DEF FindByDecision, Finish, Goto, Ledger!DecisionUsed
  <2>3. QED
      BY <2>1, <2>2 DEF LookupsHold
<1>6. CASE ComputeAndValidate(w)
  <2>1. UNCHANGED <<events, req>> /\ pc[w] = "status"
      BY <1>6 DEF ComputeAndValidate
  <2>2. \/ pc'[w] = "idle"
        \/ /\ pc'[w] = "lock"
           /\ prev'[w] = EffectiveStatus(events, req[w].agg, GroupOf(req[w]))
      BY <1>1, <1>6 DEF ComputeAndValidate, Finish
  <2>3. QED
      BY <2>1, <2>2 DEF LookupsHold
<1>7. CASE EnterLock(w)
    BY <1>1, <1>7 DEF EnterLock, Goto, LookupsHold
<1>8. CASE ReadRaw(w)
    BY <1>1, <1>8 DEF ReadRaw, LookupsHold
<1>9. CASE WriteRaw(w)
  <2>1. pc'[w] = "reply"
      BY <1>1, <1>9 DEF WriteRaw, Goto
  <2>2. QED
      BY <2>1 DEF LookupsHold
<1>10. CASE Reply(w) \/ StoreFailure(w) \/ Crash(w)
  <2>1. pc'[w] = "idle"
      BY <1>1, <1>10 DEF Reply, StoreFailure, Crash, Finish
  <2>2. QED
      BY <2>1 DEF LookupsHold
<1>11. QED
    BY <1>2, <1>3, <1>4, <1>5, <1>6, <1>7, <1>8, <1>9, <1>10 DEF OwnStep, Step

(* The ledger's copies of the lifecycle operators are the same operators.  *)
LEMMA LedgerOperators ==
    /\ Ledger!Group = Group /\ Ledger!Status = Status
    /\ Ledger!Transitions = Transitions /\ Ledger!TerminalStatuses = TerminalStatuses
    /\ \A r : Ledger!GroupOf(r) = GroupOf(r) /\ Ledger!NewStatus(r) = NewStatus(r)
    /\ \A r, p : Ledger!ValidateDecision(r, p) = ValidateDecision(r, p)
    /\ \A l, n, agg, grp : Ledger!StatusAfter(l, n, agg, grp) = StatusAfter(l, n, agg, grp)
    /\ \A l, agg, grp : Ledger!EffectiveStatus(l, agg, grp) = EffectiveStatus(l, agg, grp)
<1>1. /\ Ledger!Group = Group /\ Ledger!Status = Status /\ Ledger!Command = Command
      /\ Ledger!Transitions = Transitions /\ Ledger!TerminalStatuses = TerminalStatuses
      /\ Ledger!InitialStatus = InitialStatus
    BY DEF Ledger!Group, Group, Ledger!TerminalStatuses, TerminalStatuses, Ledger!Status, Status,
       Ledger!Transitions, Transitions, Ledger!Command, Command, Ledger!InitialStatus, InitialStatus
<1>2. \A r : Ledger!GroupOf(r) = GroupOf(r) /\ Ledger!NewStatus(r) = NewStatus(r)
    BY <1>1 DEF Ledger!GroupOf, GroupOf, Ledger!NewStatus, NewStatus
<1>3. \A r, p : Ledger!ValidateDecision(r, p) = ValidateDecision(r, p)
  <2>1. \A s, t : Ledger!RequiredFields(s, t) = RequiredFields(s, t)
    BY DEF Ledger!RequiredFields, RequiredFields
  <2>2. QED
    BY <1>1, <1>2, <2>1 DEF Ledger!ValidateDecision, ValidateDecision
<1>4. \A l, n, agg, grp : Ledger!StatusAfter(l, n, agg, grp) = StatusAfter(l, n, agg, grp)
  <2>1. SUFFICES ASSUME NEW l, NEW n, NEW agg, NEW grp
                 PROVE  Ledger!StatusAfter(l, n, agg, grp) = StatusAfter(l, n, agg, grp)
    OBVIOUS
  <2> DEFINE idx == HistoryIndices(l, n, agg, grp)
  <2>2. Ledger!HistoryIndices(l, n, agg, grp) = idx
    BY <1>2 DEF Ledger!HistoryIndices, HistoryIndices
  <2>3. Ledger!LastOf(idx) = LastOf(idx)
    BY DEF Ledger!LastOf, LastOf
  <2>4. QED
    BY <1>1, <1>2, <2>2, <2>3 DEF Ledger!StatusAfter, StatusAfter
<1>5. \A l, agg, grp : Ledger!EffectiveStatus(l, agg, grp) = EffectiveStatus(l, agg, grp)
    BY <1>4 DEF Ledger!EffectiveStatus, EffectiveStatus
<1>6. QED
    BY <1>1, <1>2, <1>3, <1>4, <1>5

(* Each step of the one worker is a step of the ledger or none: writing    *)
(* the file records the request, and nothing else touches the log.         *)
LEMMA StepIsLedgerStep ==
    ASSUME NEW w \in Workers, ServiceInv, LookupsHold(w), [OwnStep(w)]_vars
    PROVE  [Ledger!Next]_(Ledger!vars)
<1>1. CASE WriteRaw(w)
  <2>1. pc[w] = "write" /\ req[w] \in Requests
        /\ ValidateDecision(req[w], prev[w]) = "ok"
        /\ events' = Append(events, [req |-> req[w], previous |-> prev[w]])
      BY <1>1 DEF WriteRaw, ServiceInv, CommandProgress
  <2>2. /\ ~Ledger!KeyUsed(events, req[w].key)
        /\ ~Ledger!DecisionUsed(events, req[w].decision)
        /\ prev[w] = EffectiveStatus(events, req[w].agg, GroupOf(req[w]))
      BY <2>1 DEF LookupsHold
  <2>3. PICK p : p = EffectiveStatus(events, req[w].agg, GroupOf(req[w]))
      OBVIOUS
  <2>4. /\ ValidateDecision(req[w], p) = "ok"
        /\ events' = Append(events, [req |-> req[w], previous |-> p])
      BY <2>1, <2>2, <2>3
  <2>5. Ledger!Record(req[w])
      BY <2>2, <2>3, <2>4, LedgerOperators DEF Ledger!Record
  <2>6. QED
      BY <2>1, <2>5 DEF Ledger!Next
<1>2. CASE UNCHANGED events
    BY <1>2 DEF Ledger!vars
<1>3. UNCHANGED events \/ WriteRaw(w)
    BY DEF OwnStep, vars, Receive, Step, FindByKey, FindByDecision,
       ComputeAndValidate, EnterLock, ReadRaw, Reply, StoreFailure, Crash
<1>4. QED
    BY <1>1, <1>2, <1>3

(* With callers that do not overlap, the service implements the ledger,    *)
(* crashes, failed writes and retries included.                            *)
THEOREM SerialServiceImplementsLedger ==
    ASSUME HasFcntl, NEW w, Workers = {w}
    PROVE  Spec => ImplementsLedger
<1>1. Init => Ledger!Init /\ LookupsHold(w)
    BY DEF Init, Ledger!Init, LookupsHold
<1>2. [Next]_vars => [OwnStep(w)]_vars
    BY DEF Next, OwnStep
<1>3. ServiceInv /\ LookupsHold(w) /\ [Next]_vars => LookupsHold(w)'
    BY <1>2, StepKeepsLookups
<1>4. ServiceInv /\ LookupsHold(w) /\ [Next]_vars => [Ledger!Next]_(Ledger!vars)
    BY <1>2, StepIsLedgerStep
<1>5. QED
    BY <1>1, <1>3, <1>4, ServiceInvariant, PTL DEF Spec, ImplementsLedger, Ledger!Spec

-----------------------------------------------------------------------------
(* The abstract ledger: every set of requests, each taken as one step.     *)

(* The empty ledger keeps all of it.                                       *)
LEMMA LedgerInit == Ledger!Init => Ledger!LedgerInv
BY DEF Ledger!Init, Ledger!LedgerInv, Ledger!TypeOK, Ledger!Chained, Ledger!EventsChain,
       Ledger!TerminalStays, Ledger!TerminalStatusStays,
       Ledger!TerminalFinal, Ledger!TerminalStatusIsFinal,
       Ledger!UniqueKeys, Ledger!KeysNameOneEvent,
       Ledger!UniqueDecisions, Ledger!DecisionsNameOneEvent

(* Recording one request keeps the invariant.                              *)
LEMMA RecordKeepsLedger ==
    ASSUME Ledger!LedgerInv, NEW r \in Requests, Ledger!Record(r)
    PROVE  Ledger!LedgerInv'
<1> USE LedgerOperators
<1> DEFINE seen == EffectiveStatus(events, r.agg, GroupOf(r))
           e == [req |-> r, previous |-> seen]
           S == [req : Requests, previous : UNION {Status[g] : g \in Group}]
<1>1. /\ r.cmd \in DOMAIN Command
      /\ ValidateDecision(r, seen) = "ok"
      /\ events' = Append(events, e)
    BY RequestsAssumption DEF Ledger!Record
<1>2. /\ GroupOf(r) \in Group
      /\ <<seen, NewStatus(r)>> \in Transitions[GroupOf(r)]
      /\ seen \in Status[GroupOf(r)]
      /\ seen \notin TerminalStatuses[GroupOf(r)]
  <2> HIDE DEF seen
  <2>1. QED
    BY <1>1, LegalMoveLeavesOpenStatus
<1>3. e \in S /\ events \in Seq(S)
  <2> HIDE DEF seen
  <2>1. QED
    BY <1>2 DEF Ledger!LedgerInv, Ledger!TypeOK
<1> HIDE DEF seen, S
<1>4. /\ e.req = r /\ e.previous = seen
      /\ Len(events) \in Nat
      /\ DOMAIN events = 1 .. Len(events)
      /\ DOMAIN events' = 1 .. Len(events) + 1
      /\ Len(events') = Len(events) + 1
      /\ events'[Len(events) + 1] = e
      /\ \A i \in DOMAIN events : events'[i] = events[i]
    BY <1>1, <1>3
<1> HIDE DEF e
<1>5. Ledger!TypeOK'
    BY <1>1, <1>3 DEF Ledger!TypeOK, S
<1>6. \A i \in 1 .. Len(events') : i \in DOMAIN events \/ i = Len(events) + 1
    BY <1>4
<1>7. Ledger!Chained'
  <2>1. SUFFICES ASSUME NEW i \in DOMAIN events'
                 PROVE  LET f == events'[i] IN
                        /\ f.previous = StatusAfter(events', i - 1, f.req.agg, GroupOf(f.req))
                        /\ <<f.previous, NewStatus(f.req)>> \in Transitions[GroupOf(f.req)]
      BY DEF Ledger!Chained, Ledger!EventsChain
  <2>2. i \in 1 .. Len(events) + 1 /\ i - 1 \in 0 .. Len(events)
      BY <1>4
  <2>3. \A agg, grp : StatusAfter(events', i - 1, agg, grp) = StatusAfter(events, i - 1, agg, grp)
      BY <1>1, <1>3, <2>2, StatusAfterAppend
  <2>4. CASE i \in DOMAIN events
      BY <1>4, <2>3, <2>4 DEF Ledger!LedgerInv, Ledger!Chained, Ledger!EventsChain
  <2>5. CASE i = Len(events) + 1
    <3>1. events'[i] = e /\ i - 1 = Len(events)
      BY <1>4, <2>5
    <3>2. seen = StatusAfter(events', i - 1, r.agg, GroupOf(r))
      BY <2>3, <3>1 DEF seen, EffectiveStatus
    <3>3. QED
      BY <1>2, <1>4, <3>1, <3>2
  <2>6. QED
      BY <1>4, <2>2, <2>4, <2>5
<1>8. Ledger!TerminalStays'
  <2>1. SUFFICES ASSUME NEW i \in DOMAIN events',
                        NewStatus(events'[i].req) \in TerminalStatuses[GroupOf(events'[i].req)]
                 PROVE  StatusAfter(events', Len(events) + 1, events'[i].req.agg,
                                    GroupOf(events'[i].req))
                            = NewStatus(events'[i].req)
      BY <1>4 DEF Ledger!TerminalStays, Ledger!TerminalStatusStays, EffectiveStatus
  <2>2. CASE i = Len(events) + 1
      BY <1>1, <1>3, <1>4, <2>2, StatusOfAppended
  <2>3. CASE i \in DOMAIN events
    <3>1. StatusAfter(events, Len(events), events[i].req.agg, GroupOf(events[i].req))
              = NewStatus(events[i].req)
      BY <1>4, <2>1, <2>3
      DEF Ledger!LedgerInv, Ledger!TerminalStays, Ledger!TerminalStatusStays, EffectiveStatus
    <3>2. r.agg # events[i].req.agg \/ GroupOf(r) # GroupOf(events[i].req)
      BY <1>2, <1>4, <2>1, <2>3, <3>1 DEF seen, EffectiveStatus
    <3>3. QED
      BY <1>1, <1>3, <1>4, <2>3, <3>1, <3>2, StatusOfOthers
  <2>4. QED
      BY <1>4, <2>2, <2>3
<1>9. Ledger!TerminalFinal'
  <2>1. SUFFICES ASSUME NEW i \in DOMAIN events', NEW j \in DOMAIN events', i < j,
                        Ledger!SameHistory(events'[i], events'[j]),
                        NewStatus(events'[i].req) \in TerminalStatuses[GroupOf(events'[i].req)]
                 PROVE  FALSE
      BY DEF Ledger!TerminalFinal, Ledger!TerminalStatusIsFinal
  <2>2. i \in DOMAIN events
      BY <1>4, <2>1
  <2>3. CASE j \in DOMAIN events
      BY <1>4, <2>1, <2>2, <2>3
      DEF Ledger!LedgerInv, Ledger!TerminalFinal, Ledger!TerminalStatusIsFinal
  <2>4. CASE j = Len(events) + 1
    <3>1. seen = NewStatus(events[i].req) /\ GroupOf(events[i].req) = GroupOf(r)
      BY <1>4, <2>1, <2>2, <2>4
      DEF Ledger!LedgerInv, Ledger!TerminalStays, Ledger!TerminalStatusStays, Ledger!SameHistory,
          seen
    <3>2. QED
      BY <1>2, <1>4, <2>1, <2>2, <3>1
  <2>5. QED
      BY <1>4, <2>3, <2>4
<1>10. Ledger!UniqueKeys'
  <2>1. r.key = BlankKey \/ \A i \in DOMAIN events : events[i].req.key # r.key
      BY DEF Ledger!Record, Ledger!KeyUsed
  <2>2. QED
      BY <1>4, <2>1 DEF Ledger!LedgerInv, Ledger!UniqueKeys, Ledger!KeysNameOneEvent
<1>11. Ledger!UniqueDecisions'
  <2>1. \A i \in DOMAIN events : events[i].req.decision # r.decision
      BY DEF Ledger!Record, Ledger!DecisionUsed
  <2>2. QED
      BY <1>4, <2>1 DEF Ledger!LedgerInv, Ledger!UniqueDecisions, Ledger!DecisionsNameOneEvent
<1>12. QED
    BY <1>5, <1>7, <1>8, <1>9, <1>10, <1>11 DEF Ledger!LedgerInv

LEMMA StepKeepsLedger ==
    ASSUME Ledger!LedgerInv, [Ledger!Next]_(Ledger!vars)
    PROVE  Ledger!LedgerInv'
<1>1. CASE Ledger!Next
    BY <1>1, RecordKeepsLedger DEF Ledger!Next
<1>2. CASE UNCHANGED Ledger!vars
    BY <1>2
    DEF Ledger!vars, Ledger!LedgerInv, Ledger!TypeOK, Ledger!Chained, Ledger!EventsChain,
        Ledger!TerminalStays, Ledger!TerminalStatusStays,
        Ledger!TerminalFinal, Ledger!TerminalStatusIsFinal,
        Ledger!UniqueKeys, Ledger!KeysNameOneEvent,
        Ledger!UniqueDecisions, Ledger!DecisionsNameOneEvent
<1>3. QED
    BY <1>1, <1>2

(* Every event of the ledger continues its own history legally, no history *)
(* goes on past a terminal status, and keys and decision ids are unique.   *)
THEOREM LedgerInvariant == Ledger!Spec => []Ledger!LedgerInv
<1>1. Ledger!LedgerInv /\ [Ledger!Next]_(Ledger!vars) => Ledger!LedgerInv'
    BY StepKeepsLedger
<1>2. QED
    BY LedgerInit, <1>1, PTL DEF Ledger!Spec

(* So with callers that do not overlap the file itself is such a ledger:   *)
(* chained histories, final terminal statuses, keys and decision ids that  *)
(* name one event each, across crashes, failed writes and retries.         *)
THEOREM SerialServiceKeepsLedger ==
    ASSUME HasFcntl, NEW w, Workers = {w}
    PROVE  Spec => []LedgerInv
<1>1. Spec => Ledger!Spec
    BY SerialServiceImplementsLedger DEF ImplementsLedger
<1>2. QED
    BY <1>1, LedgerInvariant, PTL DEF LedgerInv

MixInv == mix \in Mixes

SerialInv == Serial => LedgerInv /\ \A w \in mix.threads : LookupsHold(w)

(* The threads of a mix are threads of the server, and one that is alone   *)
(* takes every step.                                                       *)
LEMMA MixesTaken ==
    ASSUME {w1, w2} \subseteq Workers, AllRequests \subseteq Requests,
           MixInv, [MCNext]_<<vars, mix>>
    PROVE  /\ [Next]_vars /\ mix' = mix /\ MixInv'
           /\ Serial => \E w \in Workers : mix.threads = {w} /\ [OwnStep(w)]_vars
<1>1. mix.threads \subseteq Workers /\ mix.requests \subseteq Requests
    BY DEF MixInv, Mixes, AllRequests
<1>2. IsFiniteSet(mix.threads)
  <2>1. IsFiniteSet({w1}) /\ IsFiniteSet({w1} \cup {w2})
    BY FS_Singleton, FS_AddElement
  <2>2. {w1} \cup {w2} = {w1, w2}
    OBVIOUS
  <2>3. mix.threads \in {{w1}, {w1, w2}}
    BY DEF MixInv, Mixes
  <2>4. QED
    BY <2>1, <2>2, <2>3
<1>3. Serial => \E w \in Workers : mix.threads = {w}
    BY <1>1, <1>2, FS_Singleton DEF Serial
<1>4. MCNext => mix' = mix /\ \E w \in mix.threads : OwnStep(w)
    BY <1>1 DEF MCNext, OwnStep
<1>5. \A w \in Workers : OwnStep(w) => Next
    BY DEF OwnStep, Next
<1>6. QED
    BY <1>1, <1>3, <1>4, <1>5 DEF MixInv, vars

(* The same of each behaviour whose mix has one thread, on a server that    *)
(* may have many: SerialImplementsLedger, for any requests of the mixes,   *)
(* crashes, failed writes and retries.                                     *)
THEOREM MixedServiceImplementsLedger ==
    ASSUME HasFcntl, {w1, w2} \subseteq Workers, AllRequests \subseteq Requests
    PROVE  MCSpec => SerialImplementsLedger
<1>1. MCInit => Ledger!Init /\ SerialInv
  <2>1. ASSUME MCInit PROVE Ledger!Init
    BY <2>1 DEF MCInit, Init, Ledger!Init
  <2>2. ASSUME MCInit, NEW w \in mix.threads PROVE LookupsHold(w)
    <3>1. w \in Workers
      BY <2>2 DEF MCInit, Mixes
    <3>2. QED
      BY <2>2, <3>1 DEF MCInit, Init, LookupsHold
  <2>3. QED
    BY <2>1, <2>2, LedgerInit DEF SerialInv, LedgerInv
<1>2. MixInv /\ [MCNext]_<<vars, mix>> => MixInv' /\ [Next]_vars
    BY MixesTaken
<1>3. ASSUME MixInv, ServiceInv, SerialInv, [MCNext]_<<vars, mix>>
      PROVE  SerialInv' /\ [Serial => Ledger!Next]_events
  <2>1. mix' = mix
    BY <1>3, MixesTaken
  <2>2. CASE ~Serial
    BY <2>1, <2>2 DEF SerialInv, Serial
  <2>3. CASE Serial
    <3>1. PICK w \in Workers : mix.threads = {w} /\ [OwnStep(w)]_vars
      BY <1>3, <2>3, MixesTaken
    <3>2. LookupsHold(w) /\ Ledger!LedgerInv
      BY <1>3, <2>3, <3>1 DEF SerialInv, LedgerInv
    <3>3. LookupsHold(w)' /\ [Ledger!Next]_(Ledger!vars)
      BY <1>3, <3>1, <3>2, StepKeepsLookups, StepIsLedgerStep
    <3>4. Ledger!LedgerInv'
      BY <3>2, <3>3, StepKeepsLedger
    <3>5. QED
      BY <2>1, <3>1, <3>3, <3>4 DEF SerialInv, LedgerInv, Ledger!vars
  <2>4. QED
    BY <2>2, <2>3
<1>4. MCInit => Init /\ MixInv
    BY DEF MCInit, MixInv
<1>5. MCSpec => []ServiceInv /\ []MixInv
    BY <1>2, <1>4, ServiceInvariant, PTL DEF MCSpec, Spec
<1>6. SerialInv => (Serial => LedgerInv)
    BY DEF SerialInv
<1>7. QED
    BY <1>1, <1>3, <1>5, <1>6, PTL DEF MCSpec, SerialImplementsLedger

=============================================================================
