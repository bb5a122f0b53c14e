---------------------------- MODULE AdviceService ----------------------------
(***************************************************************************)
(* What TorqPro answers from what others wrote: the readers of the         *)
(* question bank, the AI gateway over them, torque recommendations with    *)
(* their trace, and the engineering reasoning over a trace.  Every SELECT, *)
(* file read, model call and INSERT is a step; reviewers change the        *)
(* question bank between any two of them.                                  *)
(*                                                                         *)
(*   rows, content   the question bank, as QuestionRegistry changes it     *)
(*   trail           audit_log: traces of recommendations and other rows   *)
(*   aiAudit         ai_audit_records                                      *)
(*   snapshots       question_bank_stats_snapshots                         *)
(*   since           for each request, the rows there were since it began  *)
(*                   (no variable of the code)                             *)
(***************************************************************************)
EXTENDS QuestionReads, JointAnalysis

CONSTANTS
    Workers,        \* the threads of the server
    Requests,       \* what callers may send, and send again
    Users, Admins,
    OtherTrails,    \* what else audit_log may hold when the server starts
    MaxTrail, MaxAudit, MaxSnapshots, MaxSince,     \* bounds
    NoRequest, NoAnswer

VARIABLES rows, content, trail, aiAudit, snapshots, pc, req, ctx, since

bank == <<rows, content>>
tables == <<trail, aiAudit, snapshots>>
vars == <<bank, tables, pc, req, ctx, since>>

NoContext == [status |-> <<>>, life |-> <<>>, found |-> {}, answer |-> NoAnswer]

Init ==
    /\ rows = <<>> /\ content = {}
    /\ trail \in OtherTrails /\ aiAudit = <<>> /\ snapshots = <<>>
    /\ pc = [w \in Workers |-> "idle"]
    /\ req = [w \in Workers |-> NoRequest]
    /\ ctx = [w \in Workers |-> NoContext]
    /\ since = [w \in Workers |-> {}]

-----------------------------------------------------------------------------
(* The question bank under its reviewers, an operation at a time.          *)

Edit ==
    /\ \A w \in Workers : Cardinality(since[w]) < MaxSince
    /\ \/ \E v \in Version \ content : content' = content \cup {v} /\ UNCHANGED rows
       \/ \E v \in content \ DOMAIN rows :
             rows' = Put(rows, v, DraftRow) /\ UNCHANGED content
       \/ \E v \in DOMAIN rows : \E to \in Status :
             /\ <<rows[v].status, to>> \in Transitions
             /\ rows' = [rows EXCEPT ![v].status = to]
             /\ UNCHANGED content
       \/ \E op \in FlagOps :
             /\ ~AllFlagged(rows, op)
             /\ rows' = SetAll(rows, op)
             /\ UNCHANGED content
    /\ since' = [w \in Workers |->
                    IF since[w] = {} THEN {} ELSE since[w] \cup {rows'}]
    /\ UNCHANGED <<tables, pc, req, ctx>>

-----------------------------------------------------------------------------

Reads == {"list", "select", "get", "stats", "snapshot", "query"}

FirstStep ==
    [list |-> "status", select |-> "status", stats |-> "status",
     snapshot |-> "status", get |-> "content", query |-> "candidates",
     recommend |-> "analyze", reason |-> "owner"]

(* What the callers send: the users are those who are signed in, and the   *)
(* schema of the recommendation bounds its numbers.                        *)
ASSUME RequestAssumption ==
    /\ NoRequest \notin Requests
    /\ \A r \in Requests :
          /\ r.op \in DOMAIN FirstStep
          /\ r.op \in {"query", "recommend", "reason"} => r.user \in Users
          /\ r.op = "recommend" => r.input \in Input

(* What is in audit_log when the server starts was written by this code:   *)
(* the traces among it are recommendations.                                *)
ASSUME TrailAssumption ==
    \A t \in OtherTrails :
        /\ t \in Seq({t[i] : i \in DOMAIN t})
        /\ \A i \in DOMAIN t :
              /\ t[i].user \in Users
              /\ t[i].action = "torque_recommendation" =>
                    t[i].input \in Input /\ t[i].result = Recommend(t[i].input)

(* Bounds: a request that adds a row is sent while there is room.          *)
Room(r) ==
    /\ r.op = "recommend" => Raises(r.input) \/ Len(trail) < MaxTrail
    /\ r.op \in {"query", "reason"} => Len(aiAudit) < MaxAudit
    /\ r.op = "snapshot" => Len(snapshots) < MaxSnapshots

Receive(w, r) ==
    /\ pc[w] = "idle" /\ Room(r)
    /\ pc' = [pc EXCEPT ![w] = FirstStep[r.op]]
    /\ req' = [req EXCEPT ![w] = r]
    /\ since' = [since EXCEPT ![w] = IF r.op \in Reads THEN {rows} ELSE {}]
    /\ UNCHANGED <<bank, tables, ctx>>

At(w, step, op) == pc[w] = step /\ req[w].op \in op

Goto(w, step) == pc' = [pc EXCEPT ![w] = step]
Keep(w, field, value) == ctx' = [ctx EXCEPT ![w][field] = value]
Reply(w, answer) == Goto(w, "reply") /\ Keep(w, "answer", answer)

(* The end of a request: its answer has been sent, or an error.            *)
Finish(w) ==
    /\ Goto(w, "idle")
    /\ req' = [req EXCEPT ![w] = NoRequest]
    /\ ctx' = [ctx EXCEPT ![w] = NoContext]
    /\ since' = [since EXCEPT ![w] = {}]

Refuse(w) == Finish(w) /\ UNCHANGED <<bank, tables>>
Reading == UNCHANGED <<bank, tables, req, since>>

-----------------------------------------------------------------------------
(* The readers of the question bank.                                       *)

ReadStatus(w) ==
    /\ pc[w] = "status"
    /\ Goto(w, "lifecycle") /\ Keep(w, "status", StatusMap(rows))
    /\ Reading

(* get_question has its version by now; the lists read the content next.   *)
ReadLifecycle(w) ==
    /\ pc[w] = "lifecycle"
    /\ Goto(w, IF req[w].op = "get" THEN "show" ELSE "content")
    /\ Keep(w, "life", LifecycleMap(rows))
    /\ Reading

ReadContent(w) ==
    /\ At(w, "content", {"list", "select", "stats", "snapshot"})
    /\ LET found == Listed(ctx[w].status, ctx[w].life, content, req[w].filter) IN
       IF req[w].op \in {"stats", "snapshot"}
       THEN Goto(w, "recount") /\ Keep(w, "found", found)
       ELSE \E chosen \in SUBSET found :
               /\ req[w].op = "list" => chosen = found
               /\ req[w].op = "select" =>
                     Cardinality(chosen) = IF req[w].count < Cardinality(found)
                                           THEN req[w].count ELSE Cardinality(found)
               /\ Reply(w, [shown |-> chosen])
    /\ Reading

(* get_question: the content first, then the two maps.                     *)
ReadOne(w) ==
    /\ At(w, "content", {"get"})
    /\ LET asked == IF req[w].version = NoVersion THEN content
                    ELSE content \cap {req[w].version} IN
       IF asked = {} THEN Refuse(w)
       ELSE Goto(w, "status") /\ Keep(w, "found", {Newest(asked)}) /\ Reading

ShowOne(w) ==
    /\ pc[w] = "show"
    /\ LET v == CHOOSE u \in ctx[w].found : TRUE
           f == req[w].filter
       IN  IF \/ Hidden(ctx[w].life, v, f)
              \/ f.publishable /\ ~Publishable(v, StatusIn(ctx[w].status, v))
           THEN Refuse(w)
           ELSE Reply(w, [shown |-> {v}]) /\ Reading

(* compute_stats reads the status map once more, to count by it.           *)
Recount(w) ==
    /\ pc[w] = "recount"
    /\ LET counted == [shown |-> ctx[w].found, counts |-> StatusMap(rows),
                       stats |-> Stats(ctx[w].found, StatusMap(rows))] IN
       /\ Keep(w, "answer", counted)
       /\ Goto(w, IF req[w].op = "snapshot" THEN "save" ELSE "reply")
    /\ Reading

(* create_snapshot: one INSERT and its commit.                             *)
SaveSnapshot(w) ==
    /\ pc[w] = "save"
    /\ snapshots' = Append(snapshots, ctx[w].answer.stats)
    /\ Goto(w, "reply")
    /\ UNCHANGED <<bank, trail, aiAudit, req, ctx, since>>

-----------------------------------------------------------------------------
(* POST /api/ai/query.                                                     *)

ReadCandidates(w) ==
    /\ pc[w] = "candidates"
    /\ Goto(w, "load") /\ Keep(w, "found", Candidates(rows))
    /\ Reading

LoadEvidence(w) ==
    /\ pc[w] = "load"
    /\ Goto(w, "complete")
    /\ Keep(w, "found", Evidence(ctx[w].found, content, req[w].phrase))
    /\ Reading

AuditRow(w, answer, success) ==
    [op |-> req[w].op, user |-> req[w].user, success |-> success,
     sources |-> answer.evidence, status |-> answer.status, label |-> answer.label]

Failed == [evidence |-> {}, status |-> "FAIL", label |-> "NONE"]

(* The model is called whether or not there is evidence; what it says is   *)
(* used by Compose alone.                                                  *)
Complete(w) ==
    /\ pc[w] = "complete"
    /\ IF req[w].model = "fails" THEN Goto(w, "record_failure") /\ UNCHANGED ctx
       ELSE Goto(w, "record") /\ Keep(w, "answer", Compose(ctx[w].found))
    /\ Reading

(* record_failure, and then the error: the caller gets 503.                *)
RecordFailure(w) ==
    /\ pc[w] = "record_failure"
    /\ aiAudit' = Append(aiAudit, AuditRow(w, Failed, FALSE))
    /\ Finish(w)
    /\ UNCHANGED <<bank, trail, snapshots>>

(* record_with_latency; the answer carries the id of its row.              *)
RecordAnswer(w) ==
    /\ pc[w] = "record"
    /\ aiAudit' = Append(aiAudit, AuditRow(w, ctx[w].answer, TRUE))
    /\ Reply(w, Put(ctx[w].answer, "audit", Len(aiAudit) + 1))
    /\ UNCHANGED <<bank, trail, snapshots, req, since>>

-----------------------------------------------------------------------------
(* POST /api/ai/torque-recommendation.                                     *)

Analyze(w) ==
    /\ pc[w] = "analyze"
    /\ IF Raises(req[w].input) THEN Refuse(w)
       ELSE /\ Goto(w, "trace") /\ Keep(w, "answer", Recommend(req[w].input))
            /\ Reading

(* record_recommendation: the row's id is the trace_id of the answer.      *)
RecordTrace(w) ==
    /\ pc[w] = "trace"
    /\ trail' = Append(trail, [action |-> "torque_recommendation",
                               user |-> req[w].user, input |-> req[w].input,
                               result |-> ctx[w].answer])
    /\ Reply(w, Put(ctx[w].answer, "trace", Len(trail) + 1))
    /\ UNCHANGED <<bank, aiAudit, snapshots, req, since>>

-----------------------------------------------------------------------------
(* POST /api/ai/engineering-reasoning.                                     *)

IsTrace(id) == id \in DOMAIN trail /\ trail[id].action = "torque_recommendation"

(* Mutant of FetchOwner: whoever knows the trace may read it.              *)
FetchAnyTrace(w) ==
    /\ pc[w] = "owner"
    /\ IF ~IsTrace(req[w].trace) THEN Refuse(w)
       ELSE Goto(w, "fetch") /\ UNCHANGED ctx /\ Reading

(* _fetch_trace_owner: 404, or 403 unless it is the caller's or the caller *)
(* is an administrator.                                                    *)
FetchOwner(w) ==
    /\ pc[w] = "owner"
    /\ IF \/ ~IsTrace(req[w].trace)
          \/ trail[req[w].trace].user # req[w].user /\ req[w].user \notin Admins
       THEN Refuse(w)
       ELSE Goto(w, "fetch") /\ UNCHANGED ctx /\ Reading

(* run_reasoning and the wording over it.  The conclusion repeats the      *)
(* result; the model may only add an explanation, and not to a request     *)
(* without evidence.                                                       *)
Reason(result, provider) ==
    LET calculated == result.sources # {}
        status == EvidenceStatus({}, calculated)
        state == IF status = "FAIL" THEN "INSUFFICIENT_EVIDENCE"
                 ELSE IF result.status = "recommended" THEN "SUPPORTED"
                 ELSE "UNSUPPORTED"
    IN  [state |-> state, status |-> status, label |-> ResultLabel(status, calculated),
         conclusion |-> IF state = "INSUFFICIENT_EVIDENCE" THEN NoAnswer ELSE result,
         explained |-> provider = "deterministic" /\ state # "INSUFFICIENT_EVIDENCE"]

FetchAndReason(w) ==
    /\ pc[w] = "fetch"
    /\ LET reasoned == Reason(trail[req[w].trace].result, req[w].provider) IN
       /\ Goto(w, "record")
       /\ Keep(w, "answer", Put(reasoned, "evidence", {<<"trace", req[w].trace>>}))
    /\ Reading

-----------------------------------------------------------------------------

Step(w) ==
    \/ ReadStatus(w) \/ ReadLifecycle(w) \/ ReadContent(w) \/ ReadOne(w) \/ ShowOne(w)
    \/ Recount(w) \/ SaveSnapshot(w)
    \/ ReadCandidates(w) \/ LoadEvidence(w) \/ Complete(w)
    \/ RecordFailure(w) \/ RecordAnswer(w)
    \/ Analyze(w) \/ RecordTrace(w) \/ FetchOwner(w) \/ FetchAndReason(w)
    \/ pc[w] = "reply" /\ Refuse(w)

(* Mutant of Busy: the answer is sent although its row was not written.    *)
BusyAnswers(w) ==
    /\ pc[w] \in {"save", "record_failure", "record", "trace"}
    /\ IF pc[w] \in {"record", "trace"}
       THEN /\ Reply(w, Put(Put(ctx[w].answer, "audit", 0), "trace", 0))
            /\ UNCHANGED <<bank, tables, req, since>>
       ELSE Refuse(w)

(* The database stays locked for longer than its busy timeout: the write   *)
(* is rolled back and the caller gets an error.                            *)
Busy(w) == pc[w] \in {"save", "record_failure", "record", "trace"} /\ Refuse(w)

(* The server is killed and started again; the tables stay.                *)
Crash ==
    /\ \E w \in Workers : pc[w] # "idle"
    /\ pc' = [w \in Workers |-> "idle"]
    /\ req' = [w \in Workers |-> NoRequest]
    /\ ctx' = [w \in Workers |-> NoContext]
    /\ since' = [w \in Workers |-> {}]
    /\ UNCHANGED <<bank, tables>>

Next ==
    \/ \E w \in Workers :
          \/ \E r \in Requests : Receive(w, r)
          \/ Step(w)
          \/ Busy(w)
    \/ Edit
    \/ Crash

Spec == Init /\ [][Next]_vars

-----------------------------------------------------------------------------

Answered(w, ops) == pc[w] = "reply" /\ req[w].op \in ops

(* Type correctness.                                                       *)
TypeOK ==
    /\ content \subseteq Version /\ DOMAIN rows \subseteq content
    /\ \A v \in DOMAIN rows : rows[v] \in Row
    /\ \A i \in DOMAIN trail : trail[i].user \in Users
    /\ \A i \in DOMAIN aiAudit :
          /\ aiAudit[i].user \in Users /\ aiAudit[i].success \in BOOLEAN
          /\ aiAudit[i].status \in {"PASS", "WARN", "FAIL"}
    /\ \A w \in Workers :
          /\ (pc[w] = "idle") <=> (req[w] = NoRequest)
          /\ ctx[w].found \subseteq content
          /\ DOMAIN ctx[w].status \subseteq DOMAIN rows

(* Every reader of the question bank answers from what the rows were since *)
(* its request came: a version shown as publishable was validated, one     *)
(* shown was not deleted or archived, and one counted under a status had   *)
(* it, at some moment of the request.  Not all at the same moment: the two *)
(* maps of list_questions are two reads.                                   *)
ReadsAreRecent ==
    \A w \in Workers :
        Answered(w, {"list", "select", "get", "stats", "snapshot"}) =>
            LET f == req[w].filter IN
            \A v \in ctx[w].answer.shown :
                /\ f.publishable => \E r \in since[w] : v \in Candidates(r)
                /\ \E r \in since[w] : ~Hidden(LifecycleMap(r), v, f)
                /\ req[w].op \in {"stats", "snapshot"} =>
                      \E r \in since[w] :
                         StatusIn(ctx[w].answer.counts, v) = StatusIn(StatusMap(r), v)

(* The evidence of an AI answer is one snapshot of the question bank       *)
(* during the request: all the approved content that matches, and only     *)
(* that (get_publishable_questions).                                       *)
EvidenceIsOneSnapshot ==
    \A w \in Workers :
        Answered(w, {"query"}) =>
            \E r \in since[w] :
                ctx[w].answer.evidence =
                    {v \in DOMAIN r :
                        /\ r[v].status = "validated" /\ Content[v].active
                        /\ req[w].phrase \in Content[v].phrases}

(* What the readers of the question bank and the AI gateway answer from    *)
(* holds, whatever reviewers do meanwhile: the rows stay well formed, and  *)
(* both of the above.                                                      *)
EvidenceHolds == TypeOK /\ ReadsAreRecent /\ EvidenceIsOneSnapshot

(* An answer of the gateway, and a torque that was recommended, has its    *)
(* row, which tells for whom and from which sources it was made.           *)
AnswersAreAudited ==
    \A w \in Workers :
        /\ Answered(w, {"query", "reason"}) =>
              /\ ctx[w].answer.audit \in DOMAIN aiAudit
              /\ aiAudit[ctx[w].answer.audit] = AuditRow(w, ctx[w].answer, TRUE)
        /\ Answered(w, {"recommend"}) =>
              /\ IsTrace(ctx[w].answer.trace)
              /\ trail[ctx[w].answer.trace].user = req[w].user
              /\ trail[ctx[w].answer.trace].input = req[w].input

(* The reasoning about a trace repeats what was recommended, to the user   *)
(* it was made for or an administrator, and supports no torque that was    *)
(* withheld.                                                               *)
ReasoningRepeatsTheTrace ==
    \A w \in Workers :
        Answered(w, {"reason"}) =>
            LET row == trail[req[w].trace] IN
            /\ row.action = "torque_recommendation"
            /\ row.user = req[w].user \/ req[w].user \in Admins
            /\ ctx[w].answer.conclusion = Recommend(row.input)
            /\ (ctx[w].answer.state = "SUPPORTED") <=> Given(row.result.recommended)

(* No trace recommends a torque that the inputs show to be unsafe: that    *)
(* opens the joint, overstresses the bolt by the threshold given, or where *)
(* the window is empty.                                                    *)
RecommendedIsSafe ==
    \A i \in DOMAIN trail :
        IsTrace(i) /\ Given(trail[i].result.recommended) =>
            SafeTorque(trail[i].input, trail[i].result.recommended)

=============================================================================
