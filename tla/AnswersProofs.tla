----------------------------- MODULE AnswersProofs -----------------------------
(***************************************************************************)
(* What TorqPro answers from data that others wrote is true.               *)
(*                                                                         *)
(* The first half is about AdviceService, for any number of threads, any   *)
(* requests and any content of the question bank: its readers answer from  *)
(* what the rows were, an answer has its row, a reasoning repeats its      *)
(* trace, and no trace recommends a torque that its inputs show unsafe.    *)
(* The second half is about EngineeringLibrary, for any content of its     *)
(* files and any requests: the registry holds what was read, parts that    *)
(* are said to fit do fit, strength has one answer, and advice on friction *)
(* and material agrees with the records.                                   *)
(***************************************************************************)
EXTENDS AdviceService, EngineeringLibrary, WellFoundedInduction, FiniteSetTheorems,
        FunctionTheorems, SequenceTheorems, TLAPS

-----------------------------------------------------------------------------
(* The rules of a recommendation.                                          *)

(* A torque is given exactly where it is recommended. *)
LEMMA GivenIfRecommended ==
    ASSUME NEW i
    PROVE  Given(Recommend(i).recommended) <=> Recommend(i).status = "recommended"
<1> DEFINE status == Classify(i)[1]
           computed == IF "recommended_torque_nm" \in Evaluated(i) THEN Preload(i)
                       ELSE NoValue
<1>1. /\ Recommend(i).status = status
      /\ Recommend(i).recommended = IF status = "recommended" THEN computed ELSE NoValue
  BY DEF Recommend
<1>2. ASSUME status = "recommended" PROVE Given(computed)
  <2>1. "recommended_torque_nm" \in Evaluated(i)
    BY <1>2 DEF Classify
  <2>2. HasPreload(i)
    BY <2>1 DEF Evaluated
  <2>3. QED
    BY <2>1, <2>2 DEF HasPreload, Preload
<1>3. QED
  BY <1>1, <1>2 DEF Given

(* A torque that is recommended is safe: of the three findings that are    *)
(* critical none was made, and the status of the safety check says that    *)
(* the threshold was respected wherever it could be compared. *)
LEMMA RecommendIsSafe ==
    ASSUME NEW i \in Input, Given(Recommend(i).recommended)
    PROVE  SafeTorque(i, Recommend(i).recommended)
<1>1. Recommend(i).status = "recommended"
  BY GivenIfRecommended
<1>2. Classify(i)[1] = "recommended"
  BY <1>1 DEF Recommend
<1>3. CriticalFindings(i) = {} /\ "recommended_torque_nm" \in Evaluated(i)
  BY <1>2 DEF Classify
<1>4. TorqueGeometryReady(i) /\ HasPreload(i)
  BY <1>3 DEF Evaluated
<1>5. Recommend(i).recommended = i.ratio
  BY <1>2, <1>3 DEF Recommend, Preload
<1>6. /\ ~ (HasPhi(i) /\ HasPreload(i) /\ Residual(i) < 0)
      /\ ~ (HasMin(i) /\ HasMax(i) /\ WindowMin(i) > WindowMax(i))
      /\ SafetyStatus(i) # "fail"
  BY <1>3 DEF CriticalFindings
<1>7. /\ i.ratio \in Nat /\ AxialLoad(i) \in Int
      /\ Given(i.fail) => i.fail \in Nat
      /\ Given(i.clamp) => i.clamp \in Nat
      /\ Given(i.maxRatio) => i.maxRatio \in Nat
  BY <1>4 DEF HasPreload, Input, Positive, Given, AxialLoad
<1>8. i.bolt /\ i.joint => i.ratio >= AxialLoad(i)
  BY <1>4, <1>6, <1>7 DEF HasPhi, Residual, Preload
<1>9. Given(i.clamp) /\ Given(i.maxRatio) =>
          i.clamp + (IF i.bolt /\ i.joint THEN AxialLoad(i) ELSE 0) <= i.maxRatio
  BY <1>4, <1>6, <1>7 DEF HasMin, HasMax, HasPhi, HasPreload, WindowMin, WindowMax
<1>10. ASSUME Given(i.fail), Given(i.warn) => i.warn < i.fail
       PROVE  i.ratio + (IF i.bolt /\ i.joint THEN AxialLoad(i) ELSE 0) <= i.fail
  <2>1. i.fail \in Nat /\ i.fail > 0 /\ (Given(i.warn) => i.warn \in Nat)
    BY <1>10 DEF Input, Positive, Given
  <2>2. ~ (Given(i.warn) /\ i.warn >= i.fail)
    BY <1>10, <2>1
  <2>3. ServiceForce(i) < 0 \/ ~ (ServiceForce(i) > i.fail)
    BY <1>4, <1>6, <1>10, <2>2 DEF SafetyStatus
  <2>4. ServiceForce(i) \in Int
        /\ ServiceForce(i) = i.ratio + (IF i.bolt /\ i.joint THEN AxialLoad(i) ELSE 0)
    BY <1>7 DEF ServiceForce, Preload, HasPhi
  <2>5. QED
    BY <2>1, <2>3, <2>4
<1>11. i.geometry = "good" /\ i.rp /\ i.friction
  BY <1>4 DEF HasPreload, HasArea, TorqueGeometryReady
<1>12. QED
  BY <1>5, <1>8, <1>9, <1>10, <1>11 DEF SafeTorque

-----------------------------------------------------------------------------
(* The tables.                                                             *)

RowsOf(s) == {s[i] : i \in DOMAIN s}
IsTable(s) == s \in Seq(RowsOf(s))

(* An INSERT leaves the rows there were where they are. *)
LEMMA Inserted ==
    ASSUME NEW s, IsTable(s), NEW e
    PROVE  /\ IsTable(Append(s, e))
           /\ Len(s) \in Nat /\ DOMAIN s = 1..Len(s)
           /\ DOMAIN Append(s, e) = 1..(Len(s) + 1)
           /\ Append(s, e)[Len(s) + 1] = e
           /\ \A i \in DOMAIN s : Append(s, e)[i] = s[i]
<1> DEFINE S == RowsOf(s) \cup {e}
           t == Append(s, e)
<1>1. s \in Seq(S) /\ e \in S
  <2>1. s \in Seq(RowsOf(s)) /\ RowsOf(s) \subseteq S /\ e \in S
    BY DEF IsTable
  <2> HIDE DEF S
  <2>2. QED
    BY <2>1, SeqMonotonic
<1>2. /\ t \in Seq(S) /\ Len(s) \in Nat /\ DOMAIN s = 1..Len(s)
      /\ DOMAIN t = 1..(Len(s) + 1) /\ Len(t) = Len(s) + 1
      /\ t[Len(s) + 1] = e /\ \A i \in 1..Len(s) : t[i] = s[i]
  <2> HIDE DEF S
  <2>1. QED
    BY <1>1
<1>3. \A i \in 1..Len(t) : t[i] \in RowsOf(t)
  <2> HIDE DEF t
  <2>1. QED
    BY <1>2 DEF RowsOf
<1>4. t = [i \in 1..Len(t) |-> t[i]]
  <2> HIDE DEF t, S
  <2>1. QED
    BY <1>2
<1>5. t \in Seq(RowsOf(t))
  <2> HIDE DEF t, S
  <2>1. QED
    BY <1>2, <1>3, <1>4
<1>6. QED
  BY <1>2, <1>5 DEF IsTable

(* Versions are numbers, and those are well-founded.                       *)
NatOrder == {p \in Nat \X Nat : p[1] < p[2]}

LEMMA NatOrderWellFounded == IsWellFoundedOn(NatOrder, Nat)
BY NatLessThanWellFounded DEF OpToRel, NatOrder

(* A non-empty set of versions has a newest one. *)
LEMMA NewestIsOne ==
    ASSUME NEW n \in Nat, NEW idx \in SUBSET (1..n), idx # {}
    PROVE  Newest(idx) \in idx
<1> DEFINE T == {n - i : i \in idx}
<1>1. \A i \in idx : n - i \in Nat /\ n - i \in T
  OBVIOUS
<1>2. T \subseteq Nat /\ T # {}
  BY <1>1
<1>3. PICK x \in T : \A y \in T : <<y, x>> \notin NatOrder
  <2> HIDE DEF T
  <2>1. QED
    BY <1>2, WFMin, NatOrderWellFounded
<1>4. PICK i \in idx : x = n - i
  OBVIOUS
<1>5. ASSUME NEW j \in idx PROVE j <= i
  <2>1. ~ (n - j < n - i)
    BY <1>1, <1>3, <1>4 DEF NatOrder
  <2>2. QED
    BY <2>1
<1>6. QED
  BY <1>5 DEF Newest

-----------------------------------------------------------------------------
(* The inductive invariant.                                                *)

Listers == {"list", "select", "stats", "snapshot"}
Fields == DOMAIN NoContext

(* The steps of each request. *)
StepsOf(op) ==
    CASE op \in {"list", "select"} -> {"status", "lifecycle", "content", "reply"}
      [] op = "stats" -> {"status", "lifecycle", "content", "recount", "reply"}
      [] op = "snapshot" -> {"status", "lifecycle", "content", "recount", "save", "reply"}
      [] op = "get" -> {"content", "status", "lifecycle", "show", "reply"}
      [] op = "query" -> {"candidates", "load", "complete", "record_failure", "record", "reply"}
      [] op = "recommend" -> {"analyze", "trace", "reply"}
      [] op = "reason" -> {"owner", "fetch", "record", "reply"}

(* The approved content of r that matches, as the question bank had it. *)
Matching(r, phrase) ==
    {v \in DOMAIN r :
        r[v].status = "validated" /\ Content[v].active /\ phrase \in Content[v].phrases}

(* v was to be shown at some moment of the request of w. *)
Recent(w, v) ==
    /\ req[w].filter.publishable => \E r \in since[w] : v \in Candidates(r)
    /\ \E r \in since[w] : ~Hidden(LifecycleMap(r), v, req[w].filter)

AllRecent(w) ==
    \A v \in ctx[w].answer.shown :
        /\ Recent(w, v)
        /\ req[w].op \in {"stats", "snapshot"} =>
              \E r \in since[w] :
                 StatusIn(ctx[w].answer.counts, v) = StatusIn(StatusMap(r), v)

(* The rows a reader may have seen are among those since it began. *)
Watched(w) ==
    IF req[w].op \in Reads
    THEN rows \in since[w] /\ \A r \in since[w] : DOMAIN r \subseteq content
    ELSE since[w] = {}

(* What a reader of the question bank holds was so at some moment. *)
ReaderHolds(w) ==
    /\ (pc[w] \in {"lifecycle", "show"} \/ At(w, "content", Listers)) =>
          \E r \in since[w] : ctx[w].status = StatusMap(r)
    /\ (pc[w] = "show" \/ At(w, "content", Listers)) =>
          \E r \in since[w] : ctx[w].life = LifecycleMap(r)
    /\ pc[w] = "show" => \E v \in content : ctx[w].found = {v}
    /\ (req[w].op = "get" /\ pc[w] \in {"status", "lifecycle"}) =>
          \E v \in content : ctx[w].found = {v}
    /\ pc[w] = "recount" => \A v \in ctx[w].found : Recent(w, v)
    /\ (pc[w] = "save" \/ Answered(w, Listers \cup {"get"})) => AllRecent(w)

HasRow(w) ==
    /\ ctx[w].answer.audit \in DOMAIN aiAudit
    /\ aiAudit[ctx[w].answer.audit] = AuditRow(w, ctx[w].answer, TRUE)

(* What a query of the gateway holds is all that matched at one moment. *)
AskerHolds(w) ==
    /\ pc[w] = "load" => \E r \in since[w] : ctx[w].found = Candidates(r)
    /\ pc[w] = "complete" =>
          \E r \in since[w] : ctx[w].found = Matching(r, req[w].phrase)
    /\ At(w, "record", {"query"}) =>
          \E r \in since[w] : ctx[w].answer = Compose(Matching(r, req[w].phrase))
    /\ Answered(w, {"query"}) =>
          /\ \E r \in since[w] : ctx[w].answer.evidence = Matching(r, req[w].phrase)
          /\ HasRow(w)

RecommenderHolds(w) ==
    /\ pc[w] = "trace" => ctx[w].answer = Recommend(req[w].input)
    /\ Answered(w, {"recommend"}) =>
          /\ IsTrace(ctx[w].answer.trace)
          /\ trail[ctx[w].answer.trace].user = req[w].user
          /\ trail[ctx[w].answer.trace].input = req[w].input

(* A reasoning is about a trace that the caller may read. *)
ReasonerHolds(w) ==
    req[w].op = "reason" =>
        LET row == trail[req[w].trace]
            reasoned == Reason(row.result, req[w].provider) IN
        /\ pc[w] \in {"fetch", "record", "reply"} =>
              IsTrace(req[w].trace) /\ (row.user = req[w].user \/ req[w].user \in Admins)
        /\ pc[w] = "record" =>
              ctx[w].answer = Put(reasoned, "evidence", {<<"trace", req[w].trace>>})
        /\ pc[w] = "reply" =>
              /\ ctx[w].answer.conclusion = reasoned.conclusion
              /\ ctx[w].answer.state = reasoned.state
              /\ HasRow(w)

Idle(w) ==
    /\ pc[w] = "idle" /\ req[w] = NoRequest
    /\ ctx[w] = NoContext /\ since[w] = {}

Serving(w) ==
    /\ req[w] \in Requests /\ pc[w] \in StepsOf(req[w].op)
    /\ DOMAIN ctx[w] = Fields
    /\ ctx[w].found \subseteq content /\ DOMAIN ctx[w].status \subseteq DOMAIN rows
    /\ Watched(w)
    /\ ReaderHolds(w) /\ AskerHolds(w) /\ RecommenderHolds(w) /\ ReasonerHolds(w)

Shape ==
    /\ DOMAIN pc = Workers /\ DOMAIN req = Workers
    /\ DOMAIN ctx = Workers /\ DOMAIN since = Workers

BankInv ==
    /\ content \subseteq Version /\ DOMAIN rows \subseteq content
    /\ \E n \in Nat : content \subseteq 1..n
    /\ \A v \in DOMAIN rows : rows[v] \in Row

(* A trace holds what is recommended for its input. *)
TrailInv ==
    /\ IsTable(trail)
    /\ \A i \in DOMAIN trail :
          /\ trail[i].user \in Users
          /\ trail[i].action = "torque_recommendation" =>
                trail[i].input \in Input /\ trail[i].result = Recommend(trail[i].input)

AuditInv ==
    /\ IsTable(aiAudit)
    /\ \A i \in DOMAIN aiAudit :
          /\ aiAudit[i].user \in Users /\ aiAudit[i].success \in BOOLEAN
          /\ aiAudit[i].status \in {"PASS", "WARN", "FAIL"}

AdviceInv ==
    /\ Shape /\ BankInv /\ TrailInv /\ AuditInv
    /\ \A w \in Workers : Idle(w) \/ Serving(w)

LEMMA AdviceInit == Init => AdviceInv
<1> SUFFICES ASSUME Init PROVE AdviceInv
  OBVIOUS
<1>1. Shape
  BY DEF Init, Shape
<1>2. BankInv
  <2>1. DOMAIN rows = {} /\ content = {}
    BY DEF Init
  <2>2. 0 \in Nat
    OBVIOUS
  <2>3. QED
    BY <2>1, <2>2 DEF BankInv
<1>3. TrailInv
  BY TrailAssumption DEF Init, TrailInv, IsTable, RowsOf
<1>4. AuditInv
  <2>1. DOMAIN aiAudit = {} /\ aiAudit \in Seq(RowsOf(aiAudit))
    BY DEF Init
  <2>2. QED
    BY <2>1 DEF AuditInv, IsTable
<1>5. \A w \in Workers : Idle(w)
  BY DEF Init, Idle
<1>6. QED
  BY <1>1, <1>2, <1>3, <1>4, <1>5 DEF AdviceInv

(* What the properties ask of one worker. *)
LEMMA ServedIsRight ==
    ASSUME AdviceInv, NEW w \in Workers, pc[w] # "idle"
    PROVE  Serving(w)
BY DEF AdviceInv, Idle

-----------------------------------------------------------------------------
(* Steps, and what they leave alone.                                       *)

Longer(s, t) == \A i \in DOMAIN s : i \in DOMAIN t /\ t[i] = s[i]

(* What a worker holds stays true while others write: the tables and the   *)
(* bank grow, and every new state of the rows is one it may have seen. *)
LEMMA OthersStay ==
    ASSUME NEW v \in Workers, Idle(v) \/ Serving(v),
           pc'[v] = pc[v], req'[v] = req[v], ctx'[v] = ctx[v],
           content \subseteq content', DOMAIN rows \subseteq DOMAIN rows',
           DOMAIN rows' \subseteq content',
           since[v] \subseteq since'[v], since[v] = {} => since'[v] = {},
           since[v] # {} => rows' \in since'[v],
           \A r \in since'[v] : r \in since[v] \/ r = rows',
           Longer(trail, trail'), Longer(aiAudit, aiAudit')
    PROVE  (Idle(v) \/ Serving(v))'
<1>1. CASE Idle(v)
  BY <1>1 DEF Idle
<1>2. CASE Serving(v)
  <2>1. /\ req'[v] \in Requests /\ pc'[v] \in StepsOf(req'[v].op)
        /\ DOMAIN ctx'[v] = Fields
        /\ ctx'[v].found \subseteq content' /\ DOMAIN ctx'[v].status \subseteq DOMAIN rows'
    BY <1>2 DEF Serving
  <2>2. Watched(v)'
    BY <1>2 DEF Serving, Watched
  <2>3. \A u : Recent(v, u) => Recent(v, u)'
    BY DEF Recent
  <2>4. ReaderHolds(v)'
    <3>1. AllRecent(v) => AllRecent(v)'
      BY <2>3 DEF AllRecent
    <3>2. ReaderHolds(v)
      BY <1>2 DEF Serving
    <3>3. \A op : (At(v, "content", op)' <=> At(v, "content", op))
                  /\ (Answered(v, op)' <=> Answered(v, op))
      BY DEF At, Answered
    <3>4. QED
      BY <2>3, <3>1, <3>2, <3>3 DEF ReaderHolds
  <2>5. HasRow(v) => HasRow(v)'
    BY DEF HasRow, AuditRow, Longer
  <2>6. AskerHolds(v)'
    BY <1>2, <2>5 DEF Serving, AskerHolds, At, Answered
  <2>7. \A id : IsTrace(id) => IsTrace(id)' /\ trail'[id] = trail[id]
    BY DEF IsTrace, Longer
  <2>8. RecommenderHolds(v)'
    BY <1>2, <2>7 DEF Serving, RecommenderHolds, Answered
  <2>9. ReasonerHolds(v)'
    <3>1. SUFFICES ASSUME req[v].op = "reason" PROVE ReasonerHolds(v)'
      BY DEF ReasonerHolds
    <3>2. pc[v] \in {"fetch", "record", "reply"} =>
              IsTrace(req[v].trace) /\ trail'[req[v].trace] = trail[req[v].trace]
      BY <1>2, <2>7, <3>1 DEF Serving, ReasonerHolds
    <3>3. QED
      BY <1>2, <2>5, <2>7, <3>1, <3>2 DEF Serving, ReasonerHolds
  <2>10. QED
    BY <2>1, <2>2, <2>4, <2>6, <2>8, <2>9 DEF Serving
<1>3. QED
  BY <1>1, <1>2

LEMMA GotoReads ==
    ASSUME Shape, NEW w \in Workers, NEW step, Goto(w, step)
    PROVE  /\ DOMAIN pc' = Workers /\ pc'[w] = step
           /\ \A v \in Workers \ {w} : pc'[v] = pc[v]
BY DEF Shape, Goto

LEMMA KeepReads ==
    ASSUME Shape, NEW w \in Workers, DOMAIN ctx[w] = Fields,
           NEW f \in Fields, NEW x, Keep(w, f, x)
    PROVE  /\ DOMAIN ctx' = Workers /\ DOMAIN ctx'[w] = Fields
           /\ ctx'[w][f] = x
           /\ \A g \in Fields \ {f} : ctx'[w][g] = ctx[w][g]
           /\ \A v \in Workers \ {w} : ctx'[v] = ctx[v]
BY DEF Shape, Keep

LEMMA FinishReads ==
    ASSUME Shape, NEW w \in Workers, Finish(w)
    PROVE  /\ Shape' /\ Idle(w)'
           /\ \A v \in Workers \ {w} : /\ pc'[v] = pc[v] /\ req'[v] = req[v]
                                       /\ ctx'[v] = ctx[v] /\ since'[v] = since[v]
BY DEF Shape, Finish, Goto, Idle

(* Which requests are at which step. *)
LEMMA OpAtStep ==
    ASSUME NEW w \in Workers, Serving(w)
    PROVE  /\ req[w].op \in DOMAIN FirstStep /\ pc[w] # "idle"
           /\ pc[w] \in {"status", "lifecycle"} => req[w].op \in Listers \cup {"get"}
           /\ pc[w] = "content" => req[w].op \in Listers \cup {"get"}
           /\ pc[w] = "show" => req[w].op = "get"
           /\ pc[w] = "recount" => req[w].op \in {"stats", "snapshot"}
           /\ pc[w] = "save" => req[w].op = "snapshot"
           /\ pc[w] \in {"candidates", "load", "complete", "record_failure"} =>
                 req[w].op = "query"
           /\ pc[w] \in {"analyze", "trace"} => req[w].op = "recommend"
           /\ pc[w] \in {"owner", "fetch"} => req[w].op = "reason"
           /\ pc[w] = "record" => req[w].op \in {"query", "reason"}
<1>1. req[w].op \in DOMAIN FirstStep /\ pc[w] \in StepsOf(req[w].op)
  BY RequestAssumption DEF Serving
<1>2. req[w].op \in {"list", "select", "stats", "snapshot", "get", "query", "recommend", "reason"}
  BY <1>1 DEF FirstStep
<1>3. QED
  BY <1>1, <1>2 DEF StepsOf, Listers

-----------------------------------------------------------------------------
(* The readers of the question bank.                                       *)

(* A step that reads: it moves on and keeps one thing. *)
LEMMA ReadingStep ==
    ASSUME AdviceInv, NEW w \in Workers, Serving(w),
           NEW step, Goto(w, step), step \in StepsOf(req[w].op),
           NEW f \in Fields, NEW x, Keep(w, f, x), Reading,
           f = "found" => x \subseteq content,
           f = "status" => DOMAIN x \subseteq DOMAIN rows
    PROVE  /\ pc'[w] = step /\ req'[w] = req[w] /\ since'[w] = since[w]
           /\ rows' = rows /\ content' = content /\ trail' = trail /\ aiAudit' = aiAudit
           /\ ctx'[w][f] = x /\ \A g \in Fields \ {f} : ctx'[w][g] = ctx[w][g]
           /\ req'[w] \in Requests /\ pc'[w] \in StepsOf(req'[w].op)
           /\ DOMAIN ctx'[w] = Fields
           /\ ctx'[w].found \subseteq content'
           /\ DOMAIN ctx'[w].status \subseteq DOMAIN rows'
           /\ Watched(w)'
<1>1. Shape /\ DOMAIN ctx[w] = Fields
  BY DEF AdviceInv, Serving
<1>2. /\ req' = req /\ since' = since /\ rows' = rows /\ content' = content
      /\ trail' = trail /\ aiAudit' = aiAudit
  BY DEF Reading, bank, tables
<1>3. pc'[w] = step
  BY <1>1, GotoReads
<1>4. /\ DOMAIN ctx'[w] = Fields /\ ctx'[w][f] = x
      /\ \A g \in Fields \ {f} : ctx'[w][g] = ctx[w][g]
  BY <1>1, KeepReads
<1>5. "found" \in Fields /\ "status" \in Fields
  BY DEF Fields, NoContext
<1>6. ctx'[w].found \subseteq content' /\ DOMAIN ctx'[w].status \subseteq DOMAIN rows'
  BY <1>2, <1>4, <1>5 DEF Serving
<1>7. Watched(w)'
  BY <1>2 DEF Serving, Watched
<1>8. QED
  BY <1>2, <1>3, <1>4, <1>6, <1>7 DEF Serving

(* A reader of the question bank has nothing to do with the gateway. *)
LEMMA ReaderServes ==
    ASSUME NEW w \in Workers, req'[w].op \in Listers \cup {"get"},
           pc'[w] \notin {"load", "complete", "trace"}
    PROVE  (AskerHolds(w) /\ RecommenderHolds(w) /\ ReasonerHolds(w))'
BY DEF Listers, AskerHolds, RecommenderHolds, ReasonerHolds, At, Answered

LEMMA ReadStatusStep ==
    ASSUME AdviceInv, NEW w \in Workers, Serving(w), ReadStatus(w)
    PROVE  Serving(w)'
<1>1. req[w].op \in Listers \cup {"get"}
  BY OpAtStep DEF ReadStatus
<1>2. "lifecycle" \in StepsOf(req[w].op) /\ "status" \in Fields
  BY <1>1 DEF StepsOf, Listers, Fields, NoContext
<1>3. DOMAIN StatusMap(rows) \subseteq DOMAIN rows
  BY DEF StatusMap
<1>4. /\ pc'[w] = "lifecycle" /\ req'[w] = req[w] /\ since'[w] = since[w]
      /\ rows' = rows /\ content' = content
      /\ ctx'[w].status = StatusMap(rows) /\ \A g \in Fields \ {"status"} : ctx'[w][g] = ctx[w][g]
      /\ req'[w] \in Requests /\ pc'[w] \in StepsOf(req'[w].op)
      /\ DOMAIN ctx'[w] = Fields /\ ctx'[w].found \subseteq content'
      /\ DOMAIN ctx'[w].status \subseteq DOMAIN rows' /\ Watched(w)'
  BY <1>2, <1>3, ReadingStep, "status" # "found" DEF ReadStatus
<1>5. ctx'[w].found = ctx[w].found
  BY <1>4 DEF Fields, NoContext
<1>6. rows \in since[w]
  BY <1>1 DEF Serving, Watched, Reads, Listers
<1>7. ReaderHolds(w)'
  <2>1. ~At(w, "content", Listers)' /\ ~Answered(w, Listers \cup {"get"})'
    BY <1>4 DEF At, Answered
  <2>2. \E r \in since'[w] : ctx'[w].status = StatusMap(r)
    BY <1>4, <1>6
  <2>3. req[w].op = "get" => \E v \in content : ctx[w].found = {v}
    BY DEF Serving, ReaderHolds, ReadStatus
  <2>4. QED
    BY <1>4, <1>5, <2>1, <2>2, <2>3 DEF ReaderHolds
<1>8. (AskerHolds(w) /\ RecommenderHolds(w) /\ ReasonerHolds(w))'
  BY <1>1, <1>4, ReaderServes
<1>9. QED
  BY <1>4, <1>7, <1>8 DEF Serving

LEMMA ReadLifecycleStep ==
    ASSUME AdviceInv, NEW w \in Workers, Serving(w), ReadLifecycle(w)
    PROVE  Serving(w)'
<1> DEFINE step == IF req[w].op = "get" THEN "show" ELSE "content"
<1>1. req[w].op \in Listers \cup {"get"}
  BY OpAtStep DEF ReadLifecycle
<1>2. step \in StepsOf(req[w].op) /\ "life" \in Fields
  BY <1>1 DEF StepsOf, Listers, Fields, NoContext
<1>3. /\ pc'[w] = step /\ req'[w] = req[w] /\ since'[w] = since[w]
      /\ rows' = rows /\ content' = content
      /\ ctx'[w].life = LifecycleMap(rows)
      /\ \A g \in Fields \ {"life"} : ctx'[w][g] = ctx[w][g]
      /\ req'[w] \in Requests /\ pc'[w] \in StepsOf(req'[w].op)
      /\ DOMAIN ctx'[w] = Fields /\ ctx'[w].found \subseteq content'
      /\ DOMAIN ctx'[w].status \subseteq DOMAIN rows' /\ Watched(w)'
  BY <1>2, ReadingStep, "life" # "found", "life" # "status" DEF ReadLifecycle
<1>4. ctx'[w].found = ctx[w].found /\ ctx'[w].status = ctx[w].status
  BY <1>3 DEF Fields, NoContext
<1>5. rows \in since[w]
  BY <1>1 DEF Serving, Watched, Reads, Listers
<1>6. ReaderHolds(w)'
  <2>1. /\ ~Answered(w, Listers \cup {"get"})'
        /\ pc'[w] \notin {"status", "lifecycle", "recount", "save"}
    BY <1>3 DEF Answered
  <2>2. \E r \in since'[w] : ctx'[w].life = LifecycleMap(r)
    BY <1>3, <1>5
  <2>3. \E r \in since[w] : ctx[w].status = StatusMap(r)
    BY DEF Serving, ReaderHolds, ReadLifecycle
  <2>4. req[w].op = "get" => \E v \in content : ctx[w].found = {v}
    BY DEF Serving, ReaderHolds, ReadLifecycle
  <2>5. pc'[w] = "show" => req[w].op = "get"
    BY <1>3
  <2>6. QED
    BY <1>3, <1>4, <2>1, <2>2, <2>3, <2>4, <2>5 DEF ReaderHolds
<1>7. (AskerHolds(w) /\ RecommenderHolds(w) /\ ReasonerHolds(w))'
  BY <1>1, <1>3, ReaderServes
<1>8. QED
  BY <1>3, <1>6, <1>7 DEF Serving

(* What the two maps let through was so when each of them was read. *)
LEMMA ShownIsRecent ==
    ASSUME NEW w \in Workers, NEW r1 \in since[w], NEW r2 \in since[w], NEW v,
           ~Hidden(LifecycleMap(r2), v, req[w].filter),
           req[w].filter.publishable => Publishable(v, StatusIn(StatusMap(r1), v))
    PROVE  Recent(w, v)
<1>1. ASSUME req[w].filter.publishable PROVE v \in Candidates(r1)
  <2>1. StatusIn(StatusMap(r1), v) = "validated"
    BY <1>1 DEF Publishable
  <2>2. v \in DOMAIN r1
    BY <2>1, NoStatusAssumption DEF StatusIn, StatusMap, Status
  <2>3. QED
    BY <2>1, <2>2 DEF StatusIn, StatusMap, Candidates
<1>2. QED
  BY <1>1 DEF Recent

LEMMA ReadContentStep ==
    ASSUME AdviceInv, NEW w \in Workers, Serving(w), ReadContent(w)
    PROVE  Serving(w)'
<1> DEFINE found == Listed(ctx[w].status, ctx[w].life, content, req[w].filter)
<1>1. At(w, "content", Listers)
  BY DEF ReadContent, Listers
<1>2. req[w].op \in Listers /\ pc[w] = "content"
  BY <1>1 DEF At
<1>3. found \subseteq content
  BY DEF Listed
<1>4. \A v \in found : Recent(w, v)
  <2>1. PICK r1 \in since[w] : ctx[w].status = StatusMap(r1)
    BY <1>1 DEF Serving, ReaderHolds
  <2>2. PICK r2 \in since[w] : ctx[w].life = LifecycleMap(r2)
    BY <1>1 DEF Serving, ReaderHolds
  <2>3. SUFFICES ASSUME NEW v \in found PROVE Recent(w, v)
    OBVIOUS
  <2>4. ~Hidden(ctx[w].life, v, req[w].filter)
        /\ MatchesStatus(v, StatusIn(ctx[w].status, v), req[w].filter)
    BY DEF Listed
  <2>5. QED
    BY <2>1, <2>2, <2>4, ShownIsRecent DEF MatchesStatus
<1> HIDE DEF found
<1>5. CASE req[w].op \in {"stats", "snapshot"}
  <2>1. Goto(w, "recount") /\ Keep(w, "found", found) /\ Reading
    BY <1>5 DEF ReadContent, found
  <2>2. "recount" \in StepsOf(req[w].op) /\ "found" \in Fields
    BY <1>5 DEF StepsOf, Fields, NoContext
  <2>3. /\ pc'[w] = "recount" /\ req'[w] = req[w] /\ since'[w] = since[w]
        /\ ctx'[w].found = found
        /\ req'[w] \in Requests /\ pc'[w] \in StepsOf(req'[w].op)
        /\ DOMAIN ctx'[w] = Fields /\ ctx'[w].found \subseteq content'
        /\ DOMAIN ctx'[w].status \subseteq DOMAIN rows' /\ Watched(w)'
    BY <1>3, <2>1, <2>2, ReadingStep, "status" # "found"
  <2>4. ReaderHolds(w)'
    BY <1>4, <2>3 DEF ReaderHolds, At, Answered, Recent
  <2>5. (AskerHolds(w) /\ RecommenderHolds(w) /\ ReasonerHolds(w))'
    BY <1>2, <2>3, ReaderServes
  <2>6. QED
    BY <2>3, <2>4, <2>5 DEF Serving
<1>6. CASE req[w].op \notin {"stats", "snapshot"}
  <2>1. PICK chosen \in SUBSET found : Goto(w, "reply") /\ Keep(w, "answer", [shown |-> chosen])
    BY <1>6 DEF ReadContent, found, Reply
  <2>2. "reply" \in StepsOf(req[w].op) /\ "answer" \in Fields /\ Reading
    BY <1>2 DEF StepsOf, Fields, NoContext, Listers, ReadContent
  <2>3. /\ pc'[w] = "reply" /\ req'[w] = req[w] /\ since'[w] = since[w]
        /\ ctx'[w].answer = [shown |-> chosen]
        /\ req'[w] \in Requests /\ pc'[w] \in StepsOf(req'[w].op)
        /\ DOMAIN ctx'[w] = Fields /\ ctx'[w].found \subseteq content'
        /\ DOMAIN ctx'[w].status \subseteq DOMAIN rows' /\ Watched(w)'
    BY <2>1, <2>2, ReadingStep, "answer" # "found", "answer" # "status"
  <2>4. AllRecent(w)'
    <3>1. \A v \in ctx'[w].answer.shown : Recent(w, v)'
      BY <1>4, <2>3 DEF Recent
    <3>2. QED
      BY <1>6, <2>3, <3>1 DEF AllRecent
  <2>5. ReaderHolds(w)'
    BY <2>3, <2>4 DEF ReaderHolds, At
  <2>6. (AskerHolds(w) /\ RecommenderHolds(w) /\ ReasonerHolds(w))'
    BY <1>2, <2>3, ReaderServes
  <2>7. QED
    BY <2>3, <2>5, <2>6 DEF Serving
<1>7. QED
  BY <1>5, <1>6

LEMMA ReadOneStep ==
    ASSUME AdviceInv, NEW w \in Workers, Serving(w), ReadOne(w)
    PROVE  (Idle(w) \/ Serving(w))'
<1> DEFINE asked == IF req[w].version = NoVersion THEN content
                    ELSE content \cap {req[w].version}
<1>1. req[w].op = "get" /\ Shape /\ BankInv
  BY DEF ReadOne, At, AdviceInv
<1>2. CASE asked = {}
  <2>1. Finish(w)
    BY <1>2 DEF ReadOne, Refuse
  <2>2. QED
    BY <1>1, <2>1, FinishReads
<1>3. CASE asked # {}
  <2>1. Goto(w, "status") /\ Keep(w, "found", {Newest(asked)}) /\ Reading
    BY <1>3 DEF ReadOne
  <2>2. Newest(asked) \in content
    <3>1. PICK n \in Nat : content \subseteq 1..n
      BY <1>1 DEF BankInv
    <3>2. asked \in SUBSET (1..n) /\ asked \subseteq content
      BY <3>1
    <3> HIDE DEF asked
    <3>3. QED
      BY <1>3, <3>2, NewestIsOne
  <2> HIDE DEF asked
  <2>3. "status" \in StepsOf(req[w].op) /\ "found" \in Fields
    BY <1>1 DEF StepsOf, Fields, NoContext
  <2>4. /\ pc'[w] = "status" /\ req'[w] = req[w] /\ since'[w] = since[w]
        /\ content' = content /\ ctx'[w].found = {Newest(asked)}
        /\ req'[w] \in Requests /\ pc'[w] \in StepsOf(req'[w].op)
        /\ DOMAIN ctx'[w] = Fields /\ ctx'[w].found \subseteq content'
        /\ DOMAIN ctx'[w].status \subseteq DOMAIN rows' /\ Watched(w)'
    BY <2>1, <2>2, <2>3, ReadingStep, "status" # "found"
  <2>5. ReaderHolds(w)'
    BY <2>2, <2>4 DEF ReaderHolds, At, Answered
  <2>6. (AskerHolds(w) /\ RecommenderHolds(w) /\ ReasonerHolds(w))'
    BY <1>1, <2>4, ReaderServes
  <2>7. QED
    BY <2>4, <2>5, <2>6 DEF Serving
<1>4. QED
  BY <1>2, <1>3

LEMMA ShowOneStep ==
    ASSUME AdviceInv, NEW w \in Workers, Serving(w), ShowOne(w)
    PROVE  (Idle(w) \/ Serving(w))'
<1> DEFINE v == CHOOSE u \in ctx[w].found : TRUE
           f == req[w].filter
           no == \/ Hidden(ctx[w].life, v, f)
                 \/ f.publishable /\ ~Publishable(v, StatusIn(ctx[w].status, v))
<1>1. req[w].op = "get" /\ Shape /\ pc[w] = "show"
  BY OpAtStep DEF ShowOne, AdviceInv
<1>2. CASE no
  <2>1. Finish(w)
    BY <1>2 DEF ShowOne, Refuse
  <2>2. QED
    BY <1>1, <2>1, FinishReads
<1>3. CASE ~no
  <2>1. Goto(w, "reply") /\ Keep(w, "answer", [shown |-> {v}]) /\ Reading
    BY <1>3 DEF ShowOne, Reply
  <2>2. Recent(w, v)
    <3>1. PICK r1 \in since[w] : ctx[w].status = StatusMap(r1)
      BY <1>1 DEF Serving, ReaderHolds
    <3>2. PICK r2 \in since[w] : ctx[w].life = LifecycleMap(r2)
      BY <1>1 DEF Serving, ReaderHolds
    <3>3. ~Hidden(ctx[w].life, v, f)
          /\ (f.publishable => Publishable(v, StatusIn(ctx[w].status, v)))
      BY <1>3
    <3> HIDE DEF v
    <3>4. QED
      BY <3>1, <3>2, <3>3, ShownIsRecent
  <2> HIDE DEF v
  <2>3. "reply" \in StepsOf(req[w].op) /\ "answer" \in Fields
    BY <1>1 DEF StepsOf, Fields, NoContext
  <2>4. /\ pc'[w] = "reply" /\ req'[w] = req[w] /\ since'[w] = since[w]
        /\ ctx'[w].answer = [shown |-> {v}]
        /\ req'[w] \in Requests /\ pc'[w] \in StepsOf(req'[w].op)
        /\ DOMAIN ctx'[w] = Fields /\ ctx'[w].found \subseteq content'
        /\ DOMAIN ctx'[w].status \subseteq DOMAIN rows' /\ Watched(w)'
    BY <2>1, <2>3, ReadingStep, "answer" # "found", "answer" # "status"
  <2>5. AllRecent(w)'
    BY <1>1, <2>2, <2>4 DEF AllRecent, Recent
  <2>6. ReaderHolds(w)'
    BY <2>4, <2>5 DEF ReaderHolds, At
  <2>7. (AskerHolds(w) /\ RecommenderHolds(w) /\ ReasonerHolds(w))'
    BY <1>1, <2>4, ReaderServes
  <2>8. QED
    BY <2>4, <2>6, <2>7 DEF Serving
<1>4. QED
  BY <1>2, <1>3

LEMMA RecountStep ==
    ASSUME AdviceInv, NEW w \in Workers, Serving(w), Recount(w)
    PROVE  Serving(w)'
<1> DEFINE counted == [shown |-> ctx[w].found, counts |-> StatusMap(rows),
                       stats |-> Stats(ctx[w].found, StatusMap(rows))]
           step == IF req[w].op = "snapshot" THEN "save" ELSE "reply"
<1>1. req[w].op \in {"stats", "snapshot"} /\ pc[w] = "recount"
  BY OpAtStep DEF Recount
<1>2. Goto(w, step) /\ Keep(w, "answer", counted) /\ Reading
  BY DEF Recount
<1>3. /\ counted.shown = ctx[w].found /\ counted.counts = StatusMap(rows)
  OBVIOUS
<1> HIDE DEF counted
<1>4. step \in StepsOf(req[w].op) /\ "answer" \in Fields
  BY <1>1 DEF StepsOf, Fields, NoContext
<1>5. /\ pc'[w] = step /\ req'[w] = req[w] /\ since'[w] = since[w]
      /\ ctx'[w].answer = counted
      /\ req'[w] \in Requests /\ pc'[w] \in StepsOf(req'[w].op)
      /\ DOMAIN ctx'[w] = Fields /\ ctx'[w].found \subseteq content'
      /\ DOMAIN ctx'[w].status \subseteq DOMAIN rows' /\ Watched(w)'
  BY <1>2, <1>4, ReadingStep, "answer" # "found", "answer" # "status"
<1>6. AllRecent(w)'
  <2>1. \A v \in ctx[w].found : Recent(w, v)
    BY <1>1 DEF Serving, ReaderHolds
  <2>2. rows \in since[w]
    BY <1>1 DEF Serving, Watched, Reads
  <2>3. \A v \in counted.shown : Recent(w, v)'
    BY <1>3, <1>5, <2>1 DEF Recent
  <2>4. QED
    BY <1>3, <1>5, <2>2, <2>3 DEF AllRecent
<1>7. ReaderHolds(w)'
  BY <1>1, <1>5, <1>6 DEF ReaderHolds, At
<1>8. (AskerHolds(w) /\ RecommenderHolds(w) /\ ReasonerHolds(w))'
  BY <1>1, <1>5, ReaderServes DEF Listers
<1>9. QED
  BY <1>5, <1>7, <1>8 DEF Serving

LEMMA SaveSnapshotStep ==
    ASSUME AdviceInv, NEW w \in Workers, Serving(w), SaveSnapshot(w)
    PROVE  Serving(w)'
<1>1. req[w].op = "snapshot" /\ pc[w] = "save" /\ Shape
  BY OpAtStep DEF SaveSnapshot, AdviceInv
<1>2. /\ rows' = rows /\ content' = content
      /\ req' = req /\ ctx' = ctx /\ since' = since /\ pc'[w] = "reply"
  BY <1>1, GotoReads DEF SaveSnapshot, bank
<1>3. "reply" \in StepsOf(req[w].op)
  BY <1>1 DEF StepsOf
<1>4. AllRecent(w)'
  <2>1. AllRecent(w)
    BY <1>1 DEF Serving, ReaderHolds
  <2>2. QED
    BY <1>2, <2>1 DEF AllRecent, Recent
<1>5. ReaderHolds(w)'
  BY <1>1, <1>2, <1>4 DEF ReaderHolds, At
<1>6. (AskerHolds(w) /\ RecommenderHolds(w) /\ ReasonerHolds(w))'
  BY <1>1, <1>2, ReaderServes DEF Listers
<1>7. Watched(w)'
  BY <1>2 DEF Watched, Serving
<1>8. QED
  BY <1>2, <1>3, <1>5, <1>6, <1>7 DEF Serving

-----------------------------------------------------------------------------
(* A query of the gateway.                                                 *)

(* A query reads no lifecycle, and no trace. *)
LEMMA QueryServes ==
    ASSUME NEW w \in Workers, req'[w].op = "query",
           pc'[w] \in {"load", "complete", "record_failure", "record", "reply"}
    PROVE  (ReaderHolds(w) /\ RecommenderHolds(w) /\ ReasonerHolds(w))'
BY DEF Listers, ReaderHolds, RecommenderHolds, ReasonerHolds, At, Answered

LEMMA ReadCandidatesStep ==
    ASSUME AdviceInv, NEW w \in Workers, Serving(w), ReadCandidates(w)
    PROVE  Serving(w)'
<1>1. req[w].op = "query"
  BY OpAtStep DEF ReadCandidates
<1>2. "load" \in StepsOf(req[w].op) /\ "found" \in Fields
  BY <1>1 DEF StepsOf, Fields, NoContext
<1>3. Candidates(rows) \subseteq content
  BY DEF AdviceInv, BankInv, Candidates
<1>4. /\ pc'[w] = "load" /\ req'[w] = req[w] /\ since'[w] = since[w]
      /\ ctx'[w].found = Candidates(rows)
      /\ req'[w] \in Requests /\ pc'[w] \in StepsOf(req'[w].op)
      /\ DOMAIN ctx'[w] = Fields /\ ctx'[w].found \subseteq content'
      /\ DOMAIN ctx'[w].status \subseteq DOMAIN rows' /\ Watched(w)'
  BY <1>2, <1>3, ReadingStep, "status" # "found" DEF ReadCandidates
<1>5. rows \in since[w]
  BY <1>1 DEF Serving, Watched, Reads
<1>6. AskerHolds(w)'
  BY <1>4, <1>5 DEF AskerHolds, At, Answered
<1>7. (ReaderHolds(w) /\ RecommenderHolds(w) /\ ReasonerHolds(w))'
  BY <1>1, <1>4, QueryServes
<1>8. QED
  BY <1>4, <1>6, <1>7 DEF Serving

LEMMA LoadEvidenceStep ==
    ASSUME AdviceInv, NEW w \in Workers, Serving(w), LoadEvidence(w)
    PROVE  Serving(w)'
<1> DEFINE found == Evidence(ctx[w].found, content, req[w].phrase)
<1>1. req[w].op = "query" /\ pc[w] = "load"
  BY OpAtStep DEF LoadEvidence
<1>2. "complete" \in StepsOf(req[w].op) /\ "found" \in Fields
  BY <1>1 DEF StepsOf, Fields, NoContext
<1>3. found \subseteq content
  BY DEF Evidence
<1>4. \E r \in since[w] : found = Matching(r, req[w].phrase)
  <2>1. PICK r \in since[w] : ctx[w].found = Candidates(r)
    BY <1>1 DEF Serving, AskerHolds
  <2>2. DOMAIN r \subseteq content
    BY <1>1 DEF Serving, Watched, Reads
  <2>3. Evidence(Candidates(r), content, req[w].phrase) = Matching(r, req[w].phrase)
    BY <2>2 DEF Evidence, Candidates, Matching
  <2>4. QED
    BY <2>1, <2>3
<1> HIDE DEF found
<1>5. Goto(w, "complete") /\ Keep(w, "found", found) /\ Reading
  BY DEF LoadEvidence, found
<1>6. /\ pc'[w] = "complete" /\ req'[w] = req[w] /\ since'[w] = since[w]
      /\ ctx'[w].found = found
      /\ req'[w] \in Requests /\ pc'[w] \in StepsOf(req'[w].op)
      /\ DOMAIN ctx'[w] = Fields /\ ctx'[w].found \subseteq content'
      /\ DOMAIN ctx'[w].status \subseteq DOMAIN rows' /\ Watched(w)'
  BY <1>2, <1>3, <1>5, ReadingStep, "status" # "found"
<1>7. AskerHolds(w)'
  BY <1>4, <1>6 DEF AskerHolds, At, Answered
<1>8. (ReaderHolds(w) /\ RecommenderHolds(w) /\ ReasonerHolds(w))'
  BY <1>1, <1>6, QueryServes
<1>9. QED
  BY <1>6, <1>7, <1>8 DEF Serving

LEMMA CompleteStep ==
    ASSUME AdviceInv, NEW w \in Workers, Serving(w), Complete(w)
    PROVE  Serving(w)'
<1>1. req[w].op = "query" /\ pc[w] = "complete" /\ Shape
  BY OpAtStep DEF Complete, AdviceInv
<1>2. {"record_failure", "record"} \subseteq StepsOf(req[w].op) /\ "answer" \in Fields
  BY <1>1 DEF StepsOf, Fields, NoContext
<1>3. CASE req[w].model = "fails"
  <2>1. Goto(w, "record_failure") /\ ctx' = ctx /\ Reading
    BY <1>3 DEF Complete
  <2>2. /\ pc'[w] = "record_failure" /\ req' = req /\ since' = since
        /\ rows' = rows /\ content' = content
    BY <1>1, <2>1, GotoReads DEF Reading, bank
  <2>3. AskerHolds(w)'
    BY <2>2 DEF AskerHolds, At, Answered
  <2>4. (ReaderHolds(w) /\ RecommenderHolds(w) /\ ReasonerHolds(w))'
    BY <1>1, <2>2, QueryServes
  <2>5. Watched(w)'
    BY <2>2 DEF Serving, Watched
  <2>6. QED
    BY <1>2, <2>1, <2>2, <2>3, <2>4, <2>5 DEF Serving
<1>4. CASE req[w].model # "fails"
  <2>1. Goto(w, "record") /\ Keep(w, "answer", Compose(ctx[w].found)) /\ Reading
    BY <1>4 DEF Complete
  <2>2. /\ pc'[w] = "record" /\ req'[w] = req[w] /\ since'[w] = since[w]
        /\ ctx'[w].answer = Compose(ctx[w].found)
        /\ req'[w] \in Requests /\ pc'[w] \in StepsOf(req'[w].op)
        /\ DOMAIN ctx'[w] = Fields /\ ctx'[w].found \subseteq content'
        /\ DOMAIN ctx'[w].status \subseteq DOMAIN rows' /\ Watched(w)'
    BY <1>2, <2>1, ReadingStep, "answer" # "found", "answer" # "status"
  <2>3. PICK r \in since[w] : ctx[w].found = Matching(r, req[w].phrase)
    BY <1>1 DEF Serving, AskerHolds
  <2>4. AskerHolds(w)'
    BY <2>2, <2>3 DEF AskerHolds, At, Answered
  <2>5. (ReaderHolds(w) /\ RecommenderHolds(w) /\ ReasonerHolds(w))'
    BY <1>1, <2>2, QueryServes
  <2>6. QED
    BY <2>2, <2>4, <2>5 DEF Serving
<1>5. QED
  BY <1>3, <1>4

-----------------------------------------------------------------------------
(* The rows that are written for an answer.                                *)

(* An answer that is to be recorded says from what it was made. *)
LEMMA AnswerToRecord ==
    ASSUME NEW w \in Workers, Serving(w), pc[w] = "record"
    PROVE  /\ {"evidence", "status", "label"} \subseteq DOMAIN ctx[w].answer
           /\ ctx[w].answer.status \in {"PASS", "WARN", "FAIL"}
<1>1. CASE req[w].op = "query"
  <2>1. PICK r \in since[w] : ctx[w].answer = Compose(Matching(r, req[w].phrase))
    BY <1>1 DEF Serving, AskerHolds, At
  <2>2. \A S : /\ {"evidence", "status", "label"} \subseteq DOMAIN Compose(S)
               /\ Compose(S).status \in {"PASS", "WARN", "FAIL"}
    BY DEF Compose, EvidenceStatus
  <2>3. QED
    BY <2>1, <2>2
<1>2. CASE req[w].op = "reason"
  <2> DEFINE reasoned == Reason(trail[req[w].trace].result, req[w].provider)
             evidence == {<<"trace", req[w].trace>>}
  <2>1. ctx[w].answer = Put(reasoned, "evidence", evidence)
    BY <1>2 DEF Serving, ReasonerHolds
  <2>2. \A result, provider :
            /\ {"status", "label"} \subseteq DOMAIN Reason(result, provider)
            /\ Reason(result, provider).status \in {"PASS", "WARN", "FAIL"}
    BY DEF Reason, EvidenceStatus
  <2>3. /\ {"status", "label"} \subseteq DOMAIN reasoned
        /\ reasoned.status \in {"PASS", "WARN", "FAIL"}
    BY <2>2
  <2> HIDE DEF reasoned, evidence
  <2>4. QED
    BY <2>1, <2>3 DEF Put
<1>3. QED
  BY <1>1, <1>2, OpAtStep

LEMMA RecordAnswerStep ==
    ASSUME AdviceInv, NEW w \in Workers, Serving(w), RecordAnswer(w)
    PROVE  /\ Serving(w)' /\ AuditInv' /\ Longer(aiAudit, aiAudit')
<1> DEFINE given == ctx[w].answer
           row == AuditRow(w, given, TRUE)
           id == Len(aiAudit) + 1
<1>1. /\ pc[w] = "record" /\ req[w].op \in {"query", "reason"} /\ Shape
      /\ AuditInv /\ IsTable(aiAudit) /\ DOMAIN ctx[w] = Fields
  BY OpAtStep DEF RecordAnswer, AdviceInv, AuditInv, Serving
<1>2. /\ aiAudit' = Append(aiAudit, row) /\ Goto(w, "reply")
      /\ Keep(w, "answer", Put(given, "audit", id))
      /\ rows' = rows /\ content' = content /\ trail' = trail
      /\ req' = req /\ since' = since
  BY DEF RecordAnswer, Reply, bank
<1>3. /\ {"evidence", "status", "label"} \subseteq DOMAIN given
      /\ given.status \in {"PASS", "WARN", "FAIL"}
  BY <1>1, AnswerToRecord
<1>4. /\ IsTable(aiAudit') /\ id \in DOMAIN aiAudit' /\ aiAudit'[id] = row
      /\ \A i \in DOMAIN aiAudit : i \in DOMAIN aiAudit' /\ aiAudit'[i] = aiAudit[i]
      /\ \A i \in DOMAIN aiAudit' : i \in DOMAIN aiAudit \/ i = id
  <2> HIDE DEF row
  <2>1. QED
    BY <1>1, <1>2, Inserted
<1>5. "answer" \in Fields
  BY DEF Fields, NoContext
<1>6. /\ pc'[w] = "reply" /\ DOMAIN ctx'[w] = Fields
      /\ ctx'[w].answer = Put(given, "audit", id)
      /\ \A g \in Fields \ {"answer"} : ctx'[w][g] = ctx[w][g]
  BY <1>1, <1>2, <1>5, GotoReads, KeepReads
<1>7. /\ ctx'[w].answer.audit = id
      /\ \A u \in DOMAIN given \ {"audit"} : ctx'[w].answer[u] = given[u]
  <2> HIDE DEF given, id
  <2>1. QED
    BY <1>6 DEF Put
<1>8. HasRow(w)'
  <2>1. /\ ctx'[w].answer.evidence = given.evidence
        /\ ctx'[w].answer.status = given.status /\ ctx'[w].answer.label = given.label
    BY <1>3, <1>7
  <2>2. AuditRow(w, ctx[w].answer, TRUE)' = row
    BY <1>2, <2>1 DEF AuditRow
  <2>3. QED
    BY <1>4, <1>7, <2>2 DEF HasRow
<1>9. AuditInv'
  <2>1. row.user \in Users /\ row.success \in BOOLEAN /\ row.status \in {"PASS", "WARN", "FAIL"}
    BY <1>1, <1>3, RequestAssumption DEF AuditRow, Serving
  <2> HIDE DEF row
  <2>2. QED
    BY <1>1, <1>4, <2>1 DEF AuditInv
<1>10. AskerHolds(w)'
  <2>1. SUFFICES ASSUME req[w].op = "query"
                 PROVE  \E r \in since[w] : ctx'[w].answer.evidence = Matching(r, req[w].phrase)
    BY <1>2, <1>6, <1>8 DEF AskerHolds, At, Answered
  <2>2. PICK r \in since[w] : given = Compose(Matching(r, req[w].phrase))
    BY <1>1, <2>1 DEF Serving, AskerHolds, At
  <2>3. given.evidence = Matching(r, req[w].phrase)
    BY <2>2 DEF Compose
  <2>4. QED
    BY <1>3, <1>7, <2>3
<1>11. ReasonerHolds(w)'
  <2>1. CASE req[w].op # "reason"
    BY <1>2, <2>1 DEF ReasonerHolds
  <2>2. CASE req[w].op = "reason"
    <3> DEFINE reasoned == Reason(trail[req[w].trace].result, req[w].provider)
               evidence == {<<"trace", req[w].trace>>}
    <3>1. /\ IsTrace(req[w].trace)
          /\ trail[req[w].trace].user = req[w].user \/ req[w].user \in Admins
          /\ given = Put(reasoned, "evidence", evidence)
      BY <1>1, <2>2 DEF Serving, ReasonerHolds
    <3>2. {"conclusion", "state"} \subseteq DOMAIN reasoned
      BY DEF Reason
    <3>3. ctx'[w].answer.conclusion = reasoned.conclusion /\ ctx'[w].answer.state = reasoned.state
      <4> HIDE DEF reasoned, evidence
      <4>1. /\ {"conclusion", "state"} \subseteq DOMAIN given
            /\ given.conclusion = reasoned.conclusion /\ given.state = reasoned.state
        BY <3>1, <3>2 DEF Put
      <4> HIDE DEF given
      <4>2. QED
        BY <1>7, <4>1
    <3>4. QED
      BY <1>2, <1>6, <1>8, <3>1, <3>3 DEF ReasonerHolds, IsTrace
  <2>3. QED
    BY <2>1, <2>2
<1>12. (ReaderHolds(w) /\ RecommenderHolds(w))'
  BY <1>1, <1>2, <1>6 DEF ReaderHolds, RecommenderHolds, At, Answered, Listers
<1>13. Serving(w)'
  <2>1. "reply" \in StepsOf(req[w].op)
    BY <1>1 DEF StepsOf
  <2>2. Watched(w)'
    BY <1>2 DEF Serving, Watched
  <2>3. ctx'[w].found = ctx[w].found /\ ctx'[w].status = ctx[w].status
    BY <1>6 DEF Fields, NoContext
  <2>4. QED
    BY <1>2, <1>6, <1>10, <1>11, <1>12, <2>1, <2>2, <2>3 DEF Serving
<1>14. QED
  BY <1>4, <1>9, <1>13 DEF Longer

LEMMA RecordFailureStep ==
    ASSUME AdviceInv, NEW w \in Workers, Serving(w), RecordFailure(w)
    PROVE  /\ Idle(w)' /\ AuditInv' /\ Longer(aiAudit, aiAudit')
<1> DEFINE row == AuditRow(w, Failed, FALSE)
<1>1. /\ req[w].op = "query" /\ Shape /\ AuditInv /\ IsTable(aiAudit)
  BY OpAtStep DEF RecordFailure, AdviceInv, AuditInv
<1>2. aiAudit' = Append(aiAudit, row) /\ Finish(w)
  BY DEF RecordFailure
<1>3. row.user \in Users /\ row.success \in BOOLEAN /\ row.status \in {"PASS", "WARN", "FAIL"}
  BY <1>1, RequestAssumption DEF AuditRow, Failed, Serving
<1> HIDE DEF row
<1>4. /\ IsTable(aiAudit') /\ aiAudit'[Len(aiAudit) + 1] = row
      /\ \A i \in DOMAIN aiAudit : i \in DOMAIN aiAudit' /\ aiAudit'[i] = aiAudit[i]
      /\ \A i \in DOMAIN aiAudit' : i \in DOMAIN aiAudit \/ i = Len(aiAudit) + 1
  BY <1>1, <1>2, Inserted
<1>5. AuditInv'
  BY <1>1, <1>3, <1>4 DEF AuditInv
<1>6. QED
  BY <1>1, <1>2, <1>4, <1>5, FinishReads DEF Longer

-----------------------------------------------------------------------------
(* Recommendations and reasonings.                                         *)

(* Neither of them reads the question bank. *)
LEMMA TracerServes ==
    ASSUME NEW w \in Workers, req'[w].op \in {"recommend", "reason"},
           pc'[w] \in {"trace", "fetch", "record", "reply"}
    PROVE  (ReaderHolds(w) /\ AskerHolds(w))'
BY DEF Listers, ReaderHolds, AskerHolds, At, Answered

LEMMA AnalyzeStep ==
    ASSUME AdviceInv, NEW w \in Workers, Serving(w), Analyze(w)
    PROVE  (Idle(w) \/ Serving(w))'
<1>1. req[w].op = "recommend" /\ Shape
  BY OpAtStep DEF Analyze, AdviceInv
<1>2. CASE Raises(req[w].input)
  <2>1. Finish(w)
    BY <1>2 DEF Analyze, Refuse
  <2>2. QED
    BY <1>1, <2>1, FinishReads
<1>3. CASE ~Raises(req[w].input)
  <2>1. Goto(w, "trace") /\ Keep(w, "answer", Recommend(req[w].input)) /\ Reading
    BY <1>3 DEF Analyze
  <2>2. "trace" \in StepsOf(req[w].op) /\ "answer" \in Fields
    BY <1>1 DEF StepsOf, Fields, NoContext
  <2>3. /\ pc'[w] = "trace" /\ req'[w] = req[w]
        /\ ctx'[w].answer = Recommend(req[w].input)
        /\ req'[w] \in Requests /\ pc'[w] \in StepsOf(req'[w].op)
        /\ DOMAIN ctx'[w] = Fields /\ ctx'[w].found \subseteq content'
        /\ DOMAIN ctx'[w].status \subseteq DOMAIN rows' /\ Watched(w)'
    BY <2>1, <2>2, ReadingStep, "answer" # "found", "answer" # "status"
  <2>4. (RecommenderHolds(w) /\ ReasonerHolds(w))'
    BY <1>1, <2>3 DEF RecommenderHolds, ReasonerHolds, Answered
  <2>5. (ReaderHolds(w) /\ AskerHolds(w))'
    BY <1>1, <2>3, TracerServes
  <2>6. QED
    BY <2>3, <2>4, <2>5 DEF Serving
<1>4. QED
  BY <1>2, <1>3

LEMMA RecordTraceStep ==
    ASSUME AdviceInv, NEW w \in Workers, Serving(w), RecordTrace(w)
    PROVE  Serving(w)' /\ TrailInv' /\ Longer(trail, trail')
<1> DEFINE row == [action |-> "torque_recommendation", user |-> req[w].user,
                   input |-> req[w].input, result |-> ctx[w].answer]
           id == Len(trail) + 1
<1>1. /\ pc[w] = "trace" /\ req[w].op = "recommend" /\ Shape
      /\ TrailInv /\ IsTable(trail) /\ DOMAIN ctx[w] = Fields
  BY OpAtStep DEF RecordTrace, AdviceInv, TrailInv, Serving
<1>2. /\ trail' = Append(trail, row) /\ Goto(w, "reply")
      /\ Keep(w, "answer", Put(ctx[w].answer, "trace", id))
      /\ rows' = rows /\ content' = content /\ req' = req /\ since' = since
  BY DEF RecordTrace, Reply, bank
<1>3. /\ row.action = "torque_recommendation" /\ row.user = req[w].user
      /\ row.input = req[w].input /\ row.result = Recommend(req[w].input)
  BY <1>1 DEF Serving, RecommenderHolds
<1>4. req[w].user \in Users /\ req[w].input \in Input
  BY <1>1, RequestAssumption DEF Serving
<1> HIDE DEF row
<1>5. /\ IsTable(trail') /\ id \in DOMAIN trail' /\ trail'[id] = row
      /\ \A i \in DOMAIN trail : i \in DOMAIN trail' /\ trail'[i] = trail[i]
      /\ \A i \in DOMAIN trail' : i \in DOMAIN trail \/ i = id
  BY <1>1, <1>2, Inserted
<1>6. TrailInv'
  BY <1>1, <1>3, <1>4, <1>5 DEF TrailInv
<1>7. "answer" \in Fields
  BY DEF Fields, NoContext
<1>8. /\ pc'[w] = "reply" /\ DOMAIN ctx'[w] = Fields
      /\ ctx'[w].answer = Put(ctx[w].answer, "trace", id)
      /\ \A g \in Fields \ {"answer"} : ctx'[w][g] = ctx[w][g]
  BY <1>1, <1>2, <1>7, GotoReads, KeepReads
<1>9. ctx'[w].answer.trace = id
  <2> HIDE DEF id
  <2>1. QED
    BY <1>8 DEF Put
<1>10. (RecommenderHolds(w) /\ ReasonerHolds(w))'
  BY <1>1, <1>2, <1>3, <1>5, <1>8, <1>9
  DEF RecommenderHolds, ReasonerHolds, Answered, IsTrace
<1>11. (Watched(w) /\ ReaderHolds(w) /\ AskerHolds(w))'
  BY <1>1, <1>2, <1>8, TracerServes DEF Serving, Watched
<1>12. "reply" \in StepsOf(req[w].op)
  BY <1>1 DEF StepsOf
<1>13. ctx'[w].found = ctx[w].found /\ ctx'[w].status = ctx[w].status
  BY <1>8 DEF Fields, NoContext
<1>14. Serving(w)'
  BY <1>2, <1>8, <1>10, <1>11, <1>12, <1>13 DEF Serving
<1>15. QED
  BY <1>5, <1>6, <1>14 DEF Longer

LEMMA FetchOwnerStep ==
    ASSUME AdviceInv, NEW w \in Workers, Serving(w), FetchOwner(w)
    PROVE  (Idle(w) \/ Serving(w))'
<1> DEFINE no == \/ ~IsTrace(req[w].trace)
                 \/ trail[req[w].trace].user # req[w].user /\ req[w].user \notin Admins
<1>1. req[w].op = "reason" /\ pc[w] = "owner" /\ Shape
  BY OpAtStep DEF FetchOwner, AdviceInv
<1>2. CASE no
  <2>1. Finish(w)
    BY <1>2 DEF FetchOwner, Refuse
  <2>2. QED
    BY <1>1, <2>1, FinishReads
<1>3. CASE ~no
  <2>1. Goto(w, "fetch") /\ ctx' = ctx /\ Reading
    BY <1>3 DEF FetchOwner
  <2>2. /\ pc'[w] = "fetch" /\ req' = req /\ since' = since
        /\ rows' = rows /\ content' = content /\ trail' = trail
    BY <1>1, <2>1, GotoReads DEF Reading, bank, tables
  <2>3. (RecommenderHolds(w) /\ ReasonerHolds(w))'
    BY <1>1, <1>3, <2>2 DEF RecommenderHolds, ReasonerHolds, Answered, IsTrace
  <2>4. (Watched(w) /\ ReaderHolds(w) /\ AskerHolds(w))'
    BY <1>1, <2>2, TracerServes DEF Serving, Watched
  <2>5. "fetch" \in StepsOf(req[w].op)
    BY <1>1 DEF StepsOf
  <2>6. QED
    BY <2>1, <2>2, <2>3, <2>4, <2>5 DEF Serving
<1>4. QED
  BY <1>2, <1>3

LEMMA FetchAndReasonStep ==
    ASSUME AdviceInv, NEW w \in Workers, Serving(w), FetchAndReason(w)
    PROVE  Serving(w)'
<1> DEFINE reasoned == Reason(trail[req[w].trace].result, req[w].provider)
           given == Put(reasoned, "evidence", {<<"trace", req[w].trace>>})
<1>1. req[w].op = "reason" /\ pc[w] = "fetch"
  BY OpAtStep DEF FetchAndReason
<1>2. Goto(w, "record") /\ Keep(w, "answer", given) /\ Reading
  BY DEF FetchAndReason
<1>3. "record" \in StepsOf(req[w].op) /\ "answer" \in Fields
  BY <1>1 DEF StepsOf, Fields, NoContext
<1>4. /\ pc'[w] = "record" /\ req'[w] = req[w] /\ trail' = trail
      /\ ctx'[w].answer = given
      /\ req'[w] \in Requests /\ pc'[w] \in StepsOf(req'[w].op)
      /\ DOMAIN ctx'[w] = Fields /\ ctx'[w].found \subseteq content'
      /\ DOMAIN ctx'[w].status \subseteq DOMAIN rows' /\ Watched(w)'
  <2> HIDE DEF given
  <2>1. QED
    BY <1>2, <1>3, ReadingStep, "answer" # "found", "answer" # "status"
<1>5. IsTrace(req[w].trace)
      /\ (trail[req[w].trace].user = req[w].user \/ req[w].user \in Admins)
  BY <1>1 DEF Serving, ReasonerHolds
<1>6. (RecommenderHolds(w) /\ ReasonerHolds(w))'
  BY <1>1, <1>4, <1>5 DEF RecommenderHolds, ReasonerHolds, Answered, IsTrace
<1>7. (ReaderHolds(w) /\ AskerHolds(w))'
  BY <1>1, <1>4, TracerServes
<1>8. QED
  BY <1>4, <1>6, <1>7 DEF Serving

-----------------------------------------------------------------------------
(* The steps together.                                                     *)

LEMMA ReceiveStep ==
    ASSUME AdviceInv, NEW w \in Workers, NEW r \in Requests, Receive(w, r)
    PROVE  /\ Shape' /\ Serving(w)'
           /\ \A v \in Workers \ {w} : /\ pc'[v] = pc[v] /\ req'[v] = req[v]
                                       /\ ctx'[v] = ctx[v] /\ since'[v] = since[v]
<1>1. Shape /\ Idle(w) /\ r.op \in DOMAIN FirstStep
  <2>1. ~Serving(w)
    BY OpAtStep DEF Receive
  <2>2. QED
    BY <2>1, RequestAssumption DEF AdviceInv
<1>2. /\ pc'[w] = FirstStep[r.op] /\ req'[w] = r /\ ctx'[w] = NoContext
      /\ since'[w] = IF r.op \in Reads THEN {rows} ELSE {}
      /\ rows' = rows /\ content' = content
      /\ Shape' /\ \A v \in Workers \ {w} : /\ pc'[v] = pc[v] /\ req'[v] = req[v]
                                            /\ ctx'[v] = ctx[v] /\ since'[v] = since[v]
  BY <1>1 DEF Receive, Shape, Idle, bank
<1>3. /\ pc'[w] \in StepsOf(r.op)
      /\ pc'[w] \in {"status", "content", "candidates", "analyze", "owner"}
      /\ pc'[w] = "content" => r.op = "get"
      /\ pc'[w] = "status" => r.op # "get"
  <2>1. r.op \in {"list", "select", "stats", "snapshot", "get", "query", "recommend", "reason"}
    BY <1>1 DEF FirstStep
  <2>2. QED
    BY <1>2, <2>1 DEF FirstStep, StepsOf
<1>4. Watched(w)'
  <2>1. DOMAIN rows \subseteq content
    BY DEF AdviceInv, BankInv
  <2>2. QED
    BY <1>2, <2>1 DEF Watched
<1>5. ReaderHolds(w)'
  BY <1>2, <1>3 DEF ReaderHolds, At, Answered, Listers
<1>6. (AskerHolds(w) /\ RecommenderHolds(w) /\ ReasonerHolds(w))'
  BY <1>2, <1>3 DEF AskerHolds, RecommenderHolds, ReasonerHolds, At, Answered
<1>7. /\ DOMAIN ctx'[w] = Fields /\ ctx'[w].found \subseteq content'
      /\ DOMAIN ctx'[w].status \subseteq DOMAIN rows'
  <2>1. ctx'[w].found = {} /\ DOMAIN ctx'[w].status = {}
    BY <1>2 DEF NoContext
  <2>2. QED
    BY <1>2, <2>1 DEF Fields
<1>8. Serving(w)'
  BY <1>2, <1>3, <1>4, <1>5, <1>6, <1>7 DEF Serving
<1>9. QED
  BY <1>2, <1>8

(* The reviewers keep the bank well formed. *)
LEMMA EditKeepsBank ==
    ASSUME BankInv, Edit
    PROVE  BankInv' /\ content \subseteq content' /\ DOMAIN rows \subseteq DOMAIN rows'
<1>1. CASE \E v \in Version \ content : content' = content \cup {v} /\ UNCHANGED rows
  <2>1. PICK v \in Version \ content : content' = content \cup {v} /\ rows' = rows
    BY <1>1
  <2>2. PICK n \in Nat : content \subseteq 1..n
    BY DEF BankInv
  <2>3. v \in Nat /\ v # 0
    BY VersionAssumption
  <2>4. content' \subseteq 1..(n + v) /\ n + v \in Nat
    BY <2>1, <2>2, <2>3
  <2>5. QED
    BY <2>1, <2>4 DEF BankInv
<1>2. CASE content' = content /\ \E v \in content \ DOMAIN rows : rows' = Put(rows, v, DraftRow)
  <2>1. PICK v \in content \ DOMAIN rows : rows' = Put(rows, v, DraftRow)
    BY <1>2
  <2>2. DraftRow \in Row
    BY DEF DraftRow, Row, Status
  <2>3. /\ DOMAIN rows' = DOMAIN rows \cup {v}
        /\ \A u \in DOMAIN rows' : rows'[u] = IF u = v THEN DraftRow ELSE rows[u]
    BY <2>1 DEF Put
  <2>4. QED
    BY <1>2, <2>2, <2>3 DEF BankInv
<1>3. CASE /\ content' = content
           /\ \E v \in DOMAIN rows : \E to \in Status :
                 /\ <<rows[v].status, to>> \in Transitions
                 /\ rows' = [rows EXCEPT ![v].status = to]
  <2>1. PICK v \in DOMAIN rows : \E to \in Status : rows' = [rows EXCEPT ![v].status = to]
    BY <1>3
  <2>2. PICK to \in Status : rows' = [rows EXCEPT ![v].status = to]
    BY <2>1
  <2>3. rows[v] \in Row
    BY DEF BankInv
  <2>4. [rows[v] EXCEPT !.status = to] \in Row
    BY <2>3 DEF Row
  <2>5. /\ DOMAIN rows' = DOMAIN rows
        /\ \A u \in DOMAIN rows : rows'[u] = rows[u]
                                  \/ rows'[u] = [rows[v] EXCEPT !.status = to]
    BY <2>2
  <2>6. QED
    BY <1>3, <2>4, <2>5 DEF BankInv
<1>4. CASE content' = content /\ \E op \in FlagOps : rows' = SetAll(rows, op)
  <2>1. PICK op \in FlagOps : rows' = SetAll(rows, op)
    BY <1>4
  <2>2. ASSUME NEW row \in Row PROVE Flagged(row, op) \in Row
    BY DEF Flagged, Row
  <2>3. DOMAIN rows' = DOMAIN rows /\ \A v \in DOMAIN rows : rows'[v] = Flagged(rows[v], op)
    BY <2>1 DEF SetAll
  <2>4. QED
    BY <1>4, <2>2, <2>3 DEF BankInv
<1>5. QED
  BY <1>1, <1>2, <1>3, <1>4 DEF Edit

(* A step of one worker that leaves the others alone. *)
LEMMA OneSteps ==
    ASSUME AdviceInv, NEW w \in Workers, (Idle(w) \/ Serving(w))', Shape',
           \A v \in Workers \ {w} : /\ pc'[v] = pc[v] /\ req'[v] = req[v]
                                    /\ ctx'[v] = ctx[v] /\ since'[v] = since[v],
           rows' = rows, content' = content, TrailInv', AuditInv',
           Longer(trail, trail'), Longer(aiAudit, aiAudit')
    PROVE  AdviceInv'
<1>1. BankInv /\ BankInv'
  BY DEF AdviceInv, BankInv
<1>2. ASSUME NEW v \in Workers, v # w PROVE (Idle(v) \/ Serving(v))'
  <2>1. Idle(v) \/ Serving(v)
    BY DEF AdviceInv
  <2>2. DOMAIN rows' \subseteq content'
    BY <1>1 DEF BankInv
  <2>3. since[v] # {} => rows' \in since'[v]
    BY <1>2, <2>1 DEF Idle, Serving, Watched
  <2>4. QED
    BY <1>2, <2>1, <2>2, <2>3, OthersStay
<1>3. QED
  BY <1>1, <1>2 DEF AdviceInv

LEMMA MovesAlone ==
    ASSUME Shape, NEW w \in Workers, NEW step, Goto(w, step),
           ctx' = ctx \/ \E f, x : Keep(w, f, x), req' = req, since' = since
    PROVE  /\ Shape'
           /\ \A v \in Workers \ {w} : /\ pc'[v] = pc[v] /\ req'[v] = req[v]
                                       /\ ctx'[v] = ctx[v] /\ since'[v] = since[v]
BY DEF Shape, Goto, Keep

(* A reading step of w leaves the tables alone. *)
LEMMA ReadingKeeps ==
    ASSUME AdviceInv, NEW w \in Workers, (Idle(w) \/ Serving(w))',
           \/ Refuse(w)
           \/ \E step : /\ Goto(w, step) /\ Reading
                        /\ ctx' = ctx \/ \E f, x : Keep(w, f, x)
    PROVE  AdviceInv'
<1>1. /\ rows' = rows /\ content' = content /\ trail' = trail /\ aiAudit' = aiAudit
  BY DEF Refuse, Reading, bank, tables
<1>2. Shape /\ TrailInv /\ AuditInv
  BY DEF AdviceInv
<1>3. /\ TrailInv' /\ AuditInv' /\ Longer(trail, trail') /\ Longer(aiAudit, aiAudit')
  BY <1>1, <1>2 DEF TrailInv, AuditInv, Longer
<1>4. /\ Shape'
      /\ \A v \in Workers \ {w} : /\ pc'[v] = pc[v] /\ req'[v] = req[v]
                                  /\ ctx'[v] = ctx[v] /\ since'[v] = since[v]
  <2>1. CASE Refuse(w)
    BY <1>2, <2>1, FinishReads DEF Refuse
  <2>2. CASE \E step : /\ Goto(w, step) /\ Reading
                       /\ ctx' = ctx \/ \E f, x : Keep(w, f, x)
    BY <1>2, <2>2, MovesAlone DEF Reading
  <2>3. QED
    BY <2>1, <2>2
<1>5. QED
  BY <1>1, <1>3, <1>4, OneSteps

LEMMA StepKeeps ==
    ASSUME AdviceInv, NEW w \in Workers, pc[w] # "idle", Step(w)
    PROVE  AdviceInv'
<1>1. Serving(w) /\ Shape /\ TrailInv /\ AuditInv
  BY ServedIsRight DEF AdviceInv
<1>2. CASE ReadStatus(w)
  BY <1>1, <1>2, ReadStatusStep, ReadingKeeps DEF ReadStatus
<1>3. CASE ReadLifecycle(w)
  BY <1>1, <1>3, ReadLifecycleStep, ReadingKeeps DEF ReadLifecycle
<1>4. CASE ReadContent(w)
  <2>1. \E step : Goto(w, step) /\ Reading /\ \E f, x : Keep(w, f, x)
    BY <1>4 DEF ReadContent, Reply
  <2>2. QED
    BY <1>1, <1>4, <2>1, ReadContentStep, ReadingKeeps
<1>5. CASE ReadOne(w)
  <2>1. \/ Refuse(w)
        \/ \E step : Goto(w, step) /\ Reading /\ \E f, x : Keep(w, f, x)
    BY <1>5 DEF ReadOne
  <2>2. QED
    BY <1>1, <1>5, <2>1, ReadOneStep, ReadingKeeps
<1>6. CASE ShowOne(w)
  <2>1. \/ Refuse(w)
        \/ \E step : Goto(w, step) /\ Reading /\ \E f, x : Keep(w, f, x)
    BY <1>6 DEF ShowOne, Reply
  <2>2. QED
    BY <1>1, <1>6, <2>1, ShowOneStep, ReadingKeeps
<1>7. CASE Recount(w)
  <2>1. \E step : Goto(w, step) /\ Reading /\ \E f, x : Keep(w, f, x)
    BY <1>7 DEF Recount
  <2>2. QED
    BY <1>1, <1>7, <2>1, RecountStep, ReadingKeeps
<1>8. CASE SaveSnapshot(w)
  <2>1. Serving(w)'
    BY <1>1, <1>8, SaveSnapshotStep
  <2>2. /\ Goto(w, "reply") /\ ctx' = ctx /\ req' = req /\ since' = since
        /\ rows' = rows /\ content' = content /\ trail' = trail /\ aiAudit' = aiAudit
    BY <1>8 DEF SaveSnapshot, bank
  <2>3. TrailInv' /\ AuditInv' /\ Longer(trail, trail') /\ Longer(aiAudit, aiAudit')
    BY <1>1, <2>2 DEF TrailInv, AuditInv, Longer
  <2>4. QED
    BY <1>1, <2>1, <2>2, <2>3, MovesAlone, OneSteps
<1>9. CASE ReadCandidates(w)
  BY <1>1, <1>9, ReadCandidatesStep, ReadingKeeps DEF ReadCandidates
<1>10. CASE LoadEvidence(w)
  BY <1>1, <1>10, LoadEvidenceStep, ReadingKeeps DEF LoadEvidence
<1>11. CASE Complete(w)
  <2>1. \E step : /\ Goto(w, step) /\ Reading
                  /\ ctx' = ctx \/ \E f, x : Keep(w, f, x)
    BY <1>11 DEF Complete
  <2>2. QED
    BY <1>1, <1>11, <2>1, CompleteStep, ReadingKeeps
<1>12. CASE RecordFailure(w)
  <2>1. /\ Idle(w)' /\ AuditInv' /\ Longer(aiAudit, aiAudit')
    BY <1>1, <1>12, RecordFailureStep
  <2>2. /\ Finish(w) /\ rows' = rows /\ content' = content /\ trail' = trail
    BY <1>12 DEF RecordFailure, bank
  <2>3. TrailInv' /\ Longer(trail, trail')
    BY <1>1, <2>2 DEF TrailInv, Longer
  <2>4. QED
    BY <1>1, <2>1, <2>2, <2>3, FinishReads, OneSteps
<1>13. CASE RecordAnswer(w)
  <2>1. /\ Serving(w)' /\ AuditInv' /\ Longer(aiAudit, aiAudit')
    BY <1>1, <1>13, RecordAnswerStep
  <2>2. /\ Goto(w, "reply") /\ \E f, x : Keep(w, f, x)
        /\ req' = req /\ since' = since
        /\ rows' = rows /\ content' = content /\ trail' = trail
    BY <1>13 DEF RecordAnswer, Reply, bank
  <2>3. TrailInv' /\ Longer(trail, trail')
    BY <1>1, <2>2 DEF TrailInv, Longer
  <2>4. QED
    BY <1>1, <2>1, <2>2, <2>3, MovesAlone, OneSteps
<1>14. CASE Analyze(w)
  <2>1. \/ Refuse(w)
        \/ \E step : Goto(w, step) /\ Reading /\ \E f, x : Keep(w, f, x)
    BY <1>14 DEF Analyze
  <2>2. QED
    BY <1>1, <1>14, <2>1, AnalyzeStep, ReadingKeeps
<1>15. CASE RecordTrace(w)
  <2>1. /\ Serving(w)' /\ TrailInv' /\ Longer(trail, trail')
    BY <1>1, <1>15, RecordTraceStep
  <2>2. /\ Goto(w, "reply") /\ \E f, x : Keep(w, f, x)
        /\ req' = req /\ since' = since
        /\ rows' = rows /\ content' = content /\ aiAudit' = aiAudit
    BY <1>15 DEF RecordTrace, Reply, bank
  <2>3. AuditInv' /\ Longer(aiAudit, aiAudit')
    BY <1>1, <2>2 DEF AuditInv, Longer
  <2>4. QED
    BY <1>1, <2>1, <2>2, <2>3, MovesAlone, OneSteps
<1>16. CASE FetchOwner(w)
  <2>1. \/ Refuse(w)
        \/ \E step : Goto(w, step) /\ Reading /\ ctx' = ctx
    BY <1>16 DEF FetchOwner
  <2>2. QED
    BY <1>1, <1>16, <2>1, FetchOwnerStep, ReadingKeeps
<1>17. CASE FetchAndReason(w)
  <2>1. \E step : Goto(w, step) /\ Reading /\ \E f, x : Keep(w, f, x)
    BY <1>17 DEF FetchAndReason
  <2>2. QED
    BY <1>1, <1>17, <2>1, FetchAndReasonStep, ReadingKeeps
<1>18. CASE pc[w] = "reply" /\ Refuse(w)
  BY <1>1, <1>18, FinishReads, ReadingKeeps DEF Refuse
<1>19. QED
  BY <1>2, <1>3, <1>4, <1>5, <1>6, <1>7, <1>8, <1>9, <1>10, <1>11, <1>12, <1>13,
     <1>14, <1>15, <1>16, <1>17, <1>18 DEF Step

LEMMA AdviceStep == AdviceInv /\ [Next]_vars => AdviceInv'
<1> SUFFICES ASSUME AdviceInv, [Next]_vars PROVE AdviceInv'
  OBVIOUS
<1>0. Shape /\ BankInv /\ TrailInv /\ AuditInv
  BY DEF AdviceInv
<1>1. ASSUME NEW w \in Workers, NEW r \in Requests, Receive(w, r) PROVE AdviceInv'
  <2>1. /\ rows' = rows /\ content' = content /\ trail' = trail /\ aiAudit' = aiAudit
    BY <1>1 DEF Receive, bank, tables
  <2>2. TrailInv' /\ AuditInv' /\ Longer(trail, trail') /\ Longer(aiAudit, aiAudit')
    BY <1>0, <2>1 DEF TrailInv, AuditInv, Longer
  <2>3. QED
    BY <1>1, <2>1, <2>2, ReceiveStep, OneSteps
<1>2. ASSUME NEW w \in Workers, Step(w) PROVE AdviceInv'
  <2>1. pc[w] # "idle"
    BY <1>2 DEF Step, ReadStatus, ReadLifecycle, ReadContent, ReadOne, ShowOne, Recount,
       SaveSnapshot, ReadCandidates, LoadEvidence, Complete, RecordFailure, RecordAnswer,
       Analyze, RecordTrace, FetchOwner, FetchAndReason, At
  <2>2. QED
    BY <1>2, <2>1, StepKeeps
<1>3. ASSUME NEW w \in Workers, Busy(w) PROVE AdviceInv'
  BY <1>0, <1>3, FinishReads, ReadingKeeps DEF Busy, Refuse
<1>4. CASE Edit
  <2>1. /\ BankInv' /\ content \subseteq content' /\ DOMAIN rows \subseteq DOMAIN rows'
    BY <1>0, <1>4, EditKeepsBank
  <2>2. /\ trail' = trail /\ aiAudit' = aiAudit /\ pc' = pc /\ req' = req /\ ctx' = ctx
        /\ since' = [w \in Workers |->
                        IF since[w] = {} THEN {} ELSE since[w] \cup {rows'}]
    BY <1>4 DEF Edit, tables
  <2>3. /\ Shape' /\ TrailInv' /\ AuditInv' /\ Longer(trail, trail')
        /\ Longer(aiAudit, aiAudit')
    BY <1>0, <2>2 DEF Shape, TrailInv, AuditInv, Longer
  <2>4. ASSUME NEW v \in Workers PROVE (Idle(v) \/ Serving(v))'
    <3>1. Idle(v) \/ Serving(v)
      BY DEF AdviceInv
    <3>2. DOMAIN rows' \subseteq content'
      BY <2>1 DEF BankInv
    <3>3. since'[v] = IF since[v] = {} THEN {} ELSE since[v] \cup {rows'}
      BY <2>2
    <3>4. QED
      BY <2>1, <2>2, <2>3, <3>1, <3>2, <3>3, OthersStay
  <2>5. QED
    BY <2>1, <2>3, <2>4 DEF AdviceInv
<1>5. CASE Crash
  <2>1. /\ rows' = rows /\ content' = content /\ trail' = trail /\ aiAudit' = aiAudit
        /\ Shape' /\ \A w \in Workers : Idle(w)'
    BY <1>5 DEF Crash, bank, tables, Shape, Idle
  <2>2. BankInv' /\ TrailInv' /\ AuditInv'
    BY <1>0, <2>1 DEF BankInv, TrailInv, AuditInv
  <2>3. QED
    BY <2>1, <2>2 DEF AdviceInv
<1>6. CASE UNCHANGED vars
  <2>1. /\ rows' = rows /\ content' = content /\ trail' = trail /\ aiAudit' = aiAudit
        /\ pc' = pc /\ req' = req /\ ctx' = ctx /\ since' = since
    BY <1>6 DEF vars, bank, tables
  <2>2. BankInv' /\ TrailInv' /\ AuditInv' /\ Shape'
        /\ Longer(trail, trail') /\ Longer(aiAudit, aiAudit')
    BY <1>0, <2>1 DEF BankInv, TrailInv, AuditInv, Shape, Longer
  <2>3. ASSUME NEW v \in Workers PROVE (Idle(v) \/ Serving(v))'
    <3>1. Idle(v) \/ Serving(v)
      BY DEF AdviceInv
    <3>2. DOMAIN rows' \subseteq content'
      BY <2>2 DEF BankInv
    <3>3. since[v] # {} => rows' \in since'[v]
      BY <2>1, <3>1 DEF Idle, Serving, Watched
    <3>4. QED
      BY <2>1, <2>2, <3>1, <3>2, <3>3, OthersStay
  <2>4. QED
    BY <2>2, <2>3 DEF AdviceInv
<1>7. QED
  BY <1>1, <1>2, <1>3, <1>4, <1>5, <1>6 DEF Next

-----------------------------------------------------------------------------
(* The properties.                                                         *)

(* The inductive invariant: what a request has read was so at a moment     *)
(* since it began, what it answers has its row, and every trace holds what *)
(* is recommended for its input (AdviceService: the readers of             *)
(* retrieval.py, the gateway's orchestrator and the recommendation).       *)
THEOREM AdviceInvariant == Spec => []AdviceInv
<1>1. Init => AdviceInv
  BY AdviceInit
<1>2. AdviceInv /\ [Next]_vars => AdviceInv'
  BY AdviceStep
<1>3. QED
  BY <1>1, <1>2, PTL DEF Spec

LEMMA EvidenceFollows == AdviceInv => EvidenceHolds
<1> SUFFICES ASSUME AdviceInv PROVE EvidenceHolds
  OBVIOUS
<1>1. TypeOK
  <2>1. /\ content \subseteq Version /\ DOMAIN rows \subseteq content
        /\ \A v \in DOMAIN rows : rows[v] \in Row
    BY DEF AdviceInv, BankInv
  <2>2. /\ \A i \in DOMAIN trail : trail[i].user \in Users
        /\ \A i \in DOMAIN aiAudit :
              /\ aiAudit[i].user \in Users /\ aiAudit[i].success \in BOOLEAN
              /\ aiAudit[i].status \in {"PASS", "WARN", "FAIL"}
    BY DEF AdviceInv, TrailInv, AuditInv
  <2>3. ASSUME NEW w \in Workers
        PROVE  /\ (pc[w] = "idle") <=> (req[w] = NoRequest)
               /\ ctx[w].found \subseteq content
               /\ DOMAIN ctx[w].status \subseteq DOMAIN rows
    <3>1. CASE Idle(w)
      <4>1. ctx[w].found = {} /\ DOMAIN ctx[w].status = {}
        BY <3>1 DEF Idle, NoContext
      <4>2. QED
        BY <3>1, <4>1 DEF Idle
    <3>2. CASE Serving(w)
      BY <3>2, OpAtStep, RequestAssumption DEF Serving
    <3>3. QED
      BY <3>1, <3>2 DEF AdviceInv
  <2>4. QED
    BY <2>1, <2>2, <2>3 DEF TypeOK
<1>2. ASSUME NEW w \in Workers, Answered(w, Listers \cup {"get"}) PROVE AllRecent(w)
  BY <1>2, ServedIsRight DEF Serving, ReaderHolds, Answered
<1>3. ReadsAreRecent
  BY <1>2 DEF ReadsAreRecent, AllRecent, Recent, Answered, Listers
<1>4. EvidenceIsOneSnapshot
  <2>1. SUFFICES ASSUME NEW w \in Workers, Answered(w, {"query"})
                 PROVE  \E r \in since[w] : ctx[w].answer.evidence = Matching(r, req[w].phrase)
    BY DEF EvidenceIsOneSnapshot, Matching
  <2>2. QED
    BY <2>1, ServedIsRight DEF Serving, AskerHolds, Answered
<1>5. QED
  BY <1>1, <1>3, <1>4 DEF EvidenceHolds

(* Readers of the question bank and the gateway, while reviewers change    *)
(* it: a version shown was publishable and visible at a moment of the      *)
(* request, and the evidence of an answer is everything that matched at    *)
(* one moment (list_questions, get_publishable_questions).                 *)
THEOREM EvidenceInvariant == Spec => []EvidenceHolds
<1>1. AdviceInv => EvidenceHolds
  BY EvidenceFollows
<1>2. QED
  BY <1>1, AdviceInvariant, PTL

(* No answer of the gateway leaves without its row in ai_audit_records,    *)
(* and no recommendation without its trace (record_with_latency,           *)
(* record_recommendation), whatever fails.                                 *)
THEOREM AnswersInvariant == Spec => []AnswersAreAudited
<1>1. ASSUME AdviceInv PROVE AnswersAreAudited
  <2>1. ASSUME NEW w \in Workers, Answered(w, {"query", "reason", "recommend"})
        PROVE  Serving(w)
    BY <1>1, <2>1, ServedIsRight DEF Answered
  <2>2. ASSUME NEW w \in Workers, Answered(w, {"query", "reason"}) PROVE HasRow(w)
    BY <2>1, <2>2 DEF Answered, Serving, AskerHolds, ReasonerHolds
  <2>3. ASSUME NEW w \in Workers, Answered(w, {"recommend"})
        PROVE  /\ IsTrace(ctx[w].answer.trace)
               /\ trail[ctx[w].answer.trace].user = req[w].user
               /\ trail[ctx[w].answer.trace].input = req[w].input
    BY <2>1, <2>3 DEF Answered, Serving, RecommenderHolds
  <2>4. QED
    BY <2>2, <2>3 DEF AnswersAreAudited, HasRow
<1>2. QED
  BY <1>1, AdviceInvariant, PTL

(* The reasoning about a trace is about a trace its caller may read,       *)
(* repeats what is recommended for its input, and supports a torque        *)
(* exactly if one is recommended (_fetch_trace_owner, run_reasoning).      *)
THEOREM ReasoningInvariant == Spec => []ReasoningRepeatsTheTrace
<1>1. ASSUME NEW i, NEW provider
      PROVE  /\ Reason(Recommend(i), provider).conclusion = Recommend(i)
             /\ (Reason(Recommend(i), provider).state = "SUPPORTED")
                   <=> Given(Recommend(i).recommended)
  <2> DEFINE result == Recommend(i)
  <2>1. result.sources # {}
    <3>1. "VDI2230_RESULT" \in FormulaTrace(i)
      BY DEF FormulaTrace, ProvisionalTraces
    <3>2. QED
      BY <3>1 DEF Recommend
  <2>2. Given(result.recommended) <=> result.status = "recommended"
    BY GivenIfRecommended
  <2> HIDE DEF result
  <2>3. /\ Reason(result, provider).conclusion = result
        /\ (Reason(result, provider).state = "SUPPORTED") <=> result.status = "recommended"
    BY <2>1 DEF Reason, EvidenceStatus
  <2>4. QED
    BY <2>2, <2>3 DEF result
<1>2. ASSUME AdviceInv PROVE ReasoningRepeatsTheTrace
  <2>1. SUFFICES ASSUME NEW w \in Workers, Answered(w, {"reason"})
                 PROVE  LET row == trail[req[w].trace] IN
                        /\ row.action = "torque_recommendation"
                        /\ row.user = req[w].user \/ req[w].user \in Admins
                        /\ ctx[w].answer.conclusion = Recommend(row.input)
                        /\ (ctx[w].answer.state = "SUPPORTED") <=> Given(row.result.recommended)
    BY DEF ReasoningRepeatsTheTrace
  <2> DEFINE row == trail[req[w].trace]
  <2>2. /\ IsTrace(req[w].trace)
        /\ row.user = req[w].user \/ req[w].user \in Admins
        /\ ctx[w].answer.conclusion = Reason(row.result, req[w].provider).conclusion
        /\ ctx[w].answer.state = Reason(row.result, req[w].provider).state
    BY <1>2, <2>1, ServedIsRight DEF Serving, ReasonerHolds, Answered
  <2>3. row.action = "torque_recommendation" /\ row.result = Recommend(row.input)
    BY <1>2, <2>2 DEF AdviceInv, TrailInv, IsTrace
  <2> HIDE DEF row
  <2>4. /\ ctx[w].answer.conclusion = Recommend(row.input)
        /\ (ctx[w].answer.state = "SUPPORTED") <=> Given(row.result.recommended)
    BY <1>1, <2>2, <2>3
  <2>5. QED
    BY <2>2, <2>3, <2>4 DEF row
<1>3. QED
  BY <1>2, AdviceInvariant, PTL

(* No trace in audit_log recommends a torque that opens the joint, takes   *)
(* the bolt over the threshold given, or lies in an empty window (classify,*)
(* recommend_torque), for every input the request schema lets through.     *)
THEOREM SafeInvariant == Spec => []RecommendedIsSafe
<1>1. ASSUME AdviceInv PROVE RecommendedIsSafe
  <2>1. SUFFICES ASSUME NEW i \in DOMAIN trail, IsTrace(i), Given(trail[i].result.recommended)
                 PROVE  SafeTorque(trail[i].input, trail[i].result.recommended)
    BY DEF RecommendedIsSafe
  <2>2. trail[i].input \in Input /\ trail[i].result = Recommend(trail[i].input)
    BY <1>1, <2>1 DEF AdviceInv, TrailInv, IsTrace
  <2>3. QED
    BY <2>1, <2>2, RecommendIsSafe
<1>2. QED
  BY <1>1, AdviceInvariant, PTL

-----------------------------------------------------------------------------
(* The engineering library: its records.                                   *)

(* The least of a set of positions is one of them. *)
LEMMA FirstOfPositions ==
    ASSUME NEW S \in SUBSET Nat, S # {}
    PROVE  /\ (CHOOSE i \in S : \A j \in S : i <= j) \in S
           /\ \A j \in S : (CHOOSE i \in S : \A k \in S : i <= k) <= j
<1>1. PICK x \in S : \A y \in S : <<y, x>> \notin NatOrder
  BY NatOrderWellFounded, WFMin
<1>2. ASSUME NEW y \in S PROVE x <= y
  <2>1. <<y, x>> \in Nat \X Nat /\ <<y, x>>[1] = y /\ <<y, x>>[2] = x
    OBVIOUS
  <2>2. ~ (y < x)
    BY <1>1, <2>1 DEF NatOrder
  <2>3. QED
    BY <2>2
<1>3. QED
  BY <1>1, <1>2

(* Records are numbered from one. *)
LEMMA RecordsAreNumbered ==
    ASSUME NEW rs, IsRecords(rs)
    PROVE  Len(rs) \in Nat /\ DOMAIN rs = 1..Len(rs) /\ DOMAIN rs \subseteq Nat
<1>1. rs \in Seq({rs[i] : i \in DOMAIN rs})
  BY DEF IsRecords
<1>2. QED
  BY <1>1

LEMMA NoRecords == IsRecords(<<>>) /\ Len(<<>>) = 0
<1>1. <<>> \in Seq({<<>>[i] : i \in DOMAIN <<>>}) /\ DOMAIN <<>> = {}
  OBVIOUS
<1>2. QED
  BY <1>1 DEF IsRecords

-----------------------------------------------------------------------------
(* The registry of the engineering library.                                *)

(* The files exist and hold records, and so does what was read from them.  *)
FilesHold ==
    /\ DOMAIN disk = Files /\ \A f \in Files : IsFile(f, disk[f])
    /\ \A k \in DOMAIN fileCache : IsFile(k, fileCache[k])
    /\ \A k \in DOMAIN loaderCache : IsRecords(loaderCache[k])
    /\ \A k \in Registered : IsRecords(records[k])

RegistryInvariant == LibraryTypeOK /\ TypedFollowsRecords /\ FilesHold

(* What is cached, or else read, of a population file is a file of it. *)
LEMMA CachedIsFile ==
    ASSUME FilesHold, NEW k \in Keys
    PROVE  IsFile(k, Cached(k)) /\ IsRecords(Cached(k))
<1>1. k \in Files /\ k # "classes"
  BY LibraryAssumption DEF Files
<1>2. IsFile(k, Cached(k))
  BY <1>1 DEF FilesHold, Cached
<1>3. QED
  BY <1>1, <1>2 DEF IsFile

(* Loading population files changes neither what is there nor its types. *)
LEMMA LoadingKeepsFiles ==
    ASSUME FilesHold, LibraryTypeOK, NEW ks \in SUBSET Keys, LoadPopulation(ks)
    PROVE  /\ DOMAIN fileCache' = DOMAIN fileCache \cup ks
           /\ DOMAIN fileCache' \subseteq Keys
           /\ \A k \in DOMAIN fileCache' : fileCache'[k] = Cached(k)
           /\ \A k \in DOMAIN fileCache' : IsFile(k, fileCache'[k])
<1>1. DOMAIN fileCache \subseteq Keys
  BY DEF LibraryTypeOK
<1>2. QED
  BY <1>1, CachedIsFile DEF LoadPopulation

(* The attached source of a library that is present holds records. *)
LEMMA SourceIsFile ==
    ASSUME FilesHold, NEW k \in Registered, Present(k)
    PROVE  IsRecords(disk[SourceOf[k]]) /\ disk[SourceOf[k]] # Null
<1>1. SourceOf[k] \in Files /\ SourceOf[k] # "classes"
  BY LibraryAssumption DEF Present, Attached, Files
<1>2. QED
  BY <1>1 DEF FilesHold, IsFile, Present

(* A step that changes only the files' cache, or nothing of the registry. *)
LEMMA ReadingKeepsRegistry ==
    ASSUME RegistryInvariant, UNCHANGED <<files, loaderCache, registry>>,
           DOMAIN fileCache' \subseteq Keys,
           \A k \in DOMAIN fileCache' : IsFile(k, fileCache'[k])
    PROVE  RegistryInvariant'
<1>1. LibraryTypeOK'
  BY DEF RegistryInvariant, LibraryTypeOK, files, registry
<1>2. TypedFollowsRecords'
  BY DEF RegistryInvariant, TypedFollowsRecords, registry
<1>3. FilesHold'
  BY DEF RegistryInvariant, FilesHold, files, registry
<1>4. QED
  BY <1>1, <1>2, <1>3 DEF RegistryInvariant

(* A library gets records: its count is theirs, and it forgets what it had *)
(* parsed. *)
LEMMA ReplacingKeepsRegistry ==
    ASSUME RegistryInvariant, NEW ks, NEW new, ReplaceRecords(ks, new),
           \A k \in ks \cap Registered : IsRecords(new[k]),
           UNCHANGED files,
           DOMAIN fileCache' \subseteq Keys,
           \A k \in DOMAIN fileCache' : IsFile(k, fileCache'[k]),
           DOMAIN loaderCache' \subseteq Registered,
           \A k \in DOMAIN loaderCache' : /\ Attached(k) /\ loaderCache'[k] # Null
                                          /\ IsRecords(loaderCache'[k]),
           DOMAIN sources' = Registered,
           \A k \in Registered : sources'[k] # Null => sources'[k].file = SourceOf[k]
    PROVE  RegistryInvariant'
<1>1. /\ DOMAIN records' = Registered /\ DOMAIN typed' = Registered
      /\ \A k \in Registered : records'[k] = IF k \in ks THEN new[k] ELSE records[k]
      /\ count' = [k \in Registered |-> Len(records'[k])]
      /\ \A k \in Registered : typed'[k] = IF k \in ks THEN Null ELSE typed[k]
  BY DEF ReplaceRecords
<1>2. \A k \in Registered : IsRecords(records'[k])
  BY <1>1 DEF RegistryInvariant, FilesHold
<1>3. count' \in [Registered -> Nat]
  BY <1>1, <1>2, RecordsAreNumbered
<1>4. LibraryTypeOK'
  BY <1>1, <1>3 DEF RegistryInvariant, LibraryTypeOK, files, Attached
<1>5. TypedFollowsRecords'
  BY <1>1 DEF RegistryInvariant, TypedFollowsRecords
<1>6. FilesHold'
  BY <1>2 DEF RegistryInvariant, FilesHold, files
<1>7. QED
  BY <1>4, <1>5, <1>6 DEF RegistryInvariant

(* Every step of the library, for each request that there may be. *)
LEMMA RegistryStep ==
    ASSUME RegistryInvariant, NEW r \in LibraryRequests, Serve(r)
    PROVE  RegistryInvariant'
<1> USE LibraryRequestAssumption
<1>1. ASSUME r.op = "edit", EditFile(r.file, r.content) PROVE RegistryInvariant'
  <2>1. /\ r.file \in Files /\ IsFile(r.file, r.content)
        /\ disk' = [disk EXCEPT ![r.file] = r.content] /\ edits' = edits + 1
        /\ edits < MaxEdits /\ UNCHANGED <<fileCache, classCache, loaderCache, registry>>
    BY <1>1 DEF EditFile
  <2>2. LibraryTypeOK'
    <3>1. MaxEdits \in Nat /\ edits \in 0..MaxEdits
      BY LibraryAssumption DEF RegistryInvariant, LibraryTypeOK
    <3>2. edits' \in 0..MaxEdits
      BY <2>1, <3>1
    <3>3. QED
      BY <2>1, <3>2 DEF RegistryInvariant, LibraryTypeOK, registry
  <2>3. TypedFollowsRecords'
    BY <2>1 DEF RegistryInvariant, TypedFollowsRecords, registry
  <2>4. FilesHold'
    BY <2>1 DEF RegistryInvariant, FilesHold, registry
  <2>5. QED
    BY <2>2, <2>3, <2>4 DEF RegistryInvariant
<1>2. ASSUME Restart PROVE RegistryInvariant'
  <2>1. /\ fileCache' = NoFiles /\ loaderCache' = NoFiles
        /\ records' = [k \in Registered |-> <<>>] /\ count' = [k \in Registered |-> 0]
        /\ typed' = [k \in Registered |-> Null] /\ sources' = [k \in Registered |-> Null]
        /\ UNCHANGED files /\ DOMAIN NoFiles = {}
    BY <1>2 DEF Restart, NoFiles
  <2>2. LibraryTypeOK'
    BY <2>1 DEF RegistryInvariant, LibraryTypeOK, files
  <2>3. TypedFollowsRecords'
    BY <2>1, NoRecords DEF TypedFollowsRecords
  <2>4. FilesHold'
    BY <2>1, NoRecords DEF RegistryInvariant, FilesHold, files
  <2>5. QED
    BY <2>2, <2>3, <2>4 DEF RegistryInvariant
<1>3. ASSUME NEW ks \in SUBSET Keys, LoadPopulation(ks), UNCHANGED <<files, loaderCache, registry>>
      PROVE  RegistryInvariant'
  BY <1>3, LoadingKeepsFiles, ReadingKeepsRegistry DEF RegistryInvariant
<1>4. ASSUME UNCHANGED <<files, fileCache, loaderCache, registry>> PROVE RegistryInvariant'
  BY <1>4, ReadingKeepsRegistry DEF RegistryInvariant, LibraryTypeOK, FilesHold
<1>5. ASSUME ClearCache PROVE RegistryInvariant'
  <2>1. fileCache' = NoFiles /\ DOMAIN NoFiles = {}
    BY <1>5 DEF ClearCache, NoFiles
  <2>2. QED
    BY <1>5, <2>1, ReadingKeepsRegistry DEF ClearCache
<1>6. ASSUME r.op = "populate", Populate(r.keys) PROVE RegistryInvariant'
  <2>1. r.keys \in SUBSET Keys /\ LoadPopulation(r.keys) /\ ReplaceRecords(r.keys, Population)
        /\ UNCHANGED <<files, classCache, loaderCache, sources>>
    BY <1>6 DEF Populate
  <2>2. \A k \in r.keys \cap Registered : IsRecords(Population[k])
    BY <2>1, CachedIsFile DEF RegistryInvariant, Population
  <2>3. /\ DOMAIN fileCache' \subseteq Keys
        /\ \A k \in DOMAIN fileCache' : IsFile(k, fileCache'[k])
    BY <2>1, LoadingKeepsFiles DEF RegistryInvariant
  <2>4. /\ DOMAIN loaderCache' \subseteq Registered
        /\ \A k \in DOMAIN loaderCache' : /\ Attached(k) /\ loaderCache'[k] # Null
                                          /\ IsRecords(loaderCache'[k])
        /\ DOMAIN sources' = Registered
        /\ \A k \in Registered : sources'[k] # Null => sources'[k].file = SourceOf[k]
    BY <2>1 DEF RegistryInvariant, LibraryTypeOK, FilesHold
  <2>5. QED
    BY <2>1, <2>2, <2>3, <2>4, ReplacingKeepsRegistry
<1>7. ASSUME NEW k \in Registered, NEW loaded, IsRecords(loaded), loaded # Null, Attached(k),
             Migrate(k, loaded), UNCHANGED <<files, fileCache, classCache>>
      PROVE  RegistryInvariant'
  <2>1. /\ DOMAIN loaderCache' = DOMAIN loaderCache \cup {k}
        /\ \A j \in DOMAIN loaderCache' : loaderCache'[j] = IF j = k THEN loaded
                                                             ELSE loaderCache[j]
        /\ ReplaceRecords({k}, [j \in {k} |-> loaded])
        /\ sources' = [sources EXCEPT ![k] = [file |-> SourceOf[k],
                                              sha256 |-> disk[SourceOf[k]]]]
    BY <1>7 DEF Migrate
  <2>2. \A j \in {k} \cap Registered : IsRecords([i \in {k} |-> loaded][j])
    BY <1>7
  <2>3. /\ DOMAIN fileCache' \subseteq Keys
        /\ \A j \in DOMAIN fileCache' : IsFile(j, fileCache'[j])
    BY <1>7 DEF RegistryInvariant, LibraryTypeOK, FilesHold
  <2>4. /\ DOMAIN loaderCache' \subseteq Registered
        /\ \A j \in DOMAIN loaderCache' : /\ Attached(j) /\ loaderCache'[j] # Null
                                          /\ IsRecords(loaderCache'[j])
    BY <1>7, <2>1 DEF RegistryInvariant, LibraryTypeOK, FilesHold
  <2>5. /\ DOMAIN sources' = Registered
        /\ \A j \in Registered : sources'[j] # Null => sources'[j].file = SourceOf[j]
    BY <1>7, <2>1 DEF RegistryInvariant, LibraryTypeOK
  <2>6. QED
    BY <1>7, <2>1, <2>2, <2>3, <2>4, <2>5, ReplacingKeepsRegistry
<1>8. ASSUME r.op = "load", FacadeLoad(r.key) PROVE RegistryInvariant'
  <2> DEFINE k == r.key
             loaded == IF k \in DOMAIN loaderCache THEN loaderCache[k] ELSE disk[SourceOf[k]]
  <2>1. k \in Registered /\ UNCHANGED <<files, fileCache, classCache>>
    BY <1>8 DEF FacadeLoad
  <2>2. ASSUME Present(k), Migrate(k, loaded) PROVE RegistryInvariant'
    <3>1. IsRecords(loaded) /\ loaded # Null /\ Attached(k)
      BY <2>1, <2>2, SourceIsFile DEF RegistryInvariant, LibraryTypeOK, FilesHold, Present
    <3>2. QED
      BY <2>1, <2>2, <3>1, <1>7
  <2>3. ASSUME k \in DOMAIN loaderCache, ReplaceRecords({k}, loaderCache),
               UNCHANGED <<loaderCache, sources>>
        PROVE  RegistryInvariant'
    <3>1. /\ \A j \in {k} \cap Registered : IsRecords(loaderCache[j])
          /\ DOMAIN fileCache' \subseteq Keys
          /\ \A j \in DOMAIN fileCache' : IsFile(j, fileCache'[j])
      BY <2>1, <2>3 DEF RegistryInvariant, LibraryTypeOK, FilesHold
    <3>2. /\ DOMAIN loaderCache' \subseteq Registered
          /\ \A j \in DOMAIN loaderCache' : /\ Attached(j) /\ loaderCache'[j] # Null
                                            /\ IsRecords(loaderCache'[j])
          /\ DOMAIN sources' = Registered
          /\ \A j \in Registered : sources'[j] # Null => sources'[j].file = SourceOf[j]
      BY <2>3 DEF RegistryInvariant, LibraryTypeOK, FilesHold
    <3>3. QED
      BY <2>1, <2>3, <3>1, <3>2, ReplacingKeepsRegistry
  <2>4. ASSUME UNCHANGED <<loaderCache, records, count, typed, sources>>
        PROVE  RegistryInvariant'
    BY <2>1, <2>4, <1>4 DEF registry
  <2>5. QED
    BY <1>8, <2>2, <2>3, <2>4 DEF FacadeLoad
<1>9. ASSUME r.op = "reload", FacadeReload(r.key) PROVE RegistryInvariant'
  <2> DEFINE k == r.key
  <2>1. k \in Registered /\ UNCHANGED <<files, fileCache, classCache>>
    BY <1>9 DEF FacadeReload
  <2>2. ASSUME Present(k), Migrate(k, disk[SourceOf[k]]) PROVE RegistryInvariant'
    BY <2>1, <2>2, SourceIsFile, <1>7 DEF RegistryInvariant, Present
  <2>3. ASSUME loaderCache' = [j \in DOMAIN loaderCache \ {k} |-> loaderCache[j]],
               UNCHANGED <<records, count, typed, sources>>
        PROVE  RegistryInvariant'
    <3>1. LibraryTypeOK'
      BY <2>1, <2>3 DEF RegistryInvariant, LibraryTypeOK, files
    <3>2. TypedFollowsRecords'
      BY <2>3 DEF RegistryInvariant, TypedFollowsRecords
    <3>3. FilesHold'
      BY <2>1, <2>3 DEF RegistryInvariant, FilesHold, files
    <3>4. QED
      BY <3>1, <3>2, <3>3 DEF RegistryInvariant
  <2>4. QED
    BY <1>9, <2>2, <2>3 DEF FacadeReload
<1>10. ASSUME r.op = "typed", TypedRecords(r.key) PROVE RegistryInvariant'
  <2> DEFINE k == r.key
  <2>1. k \in Registered
        /\ UNCHANGED <<files, fileCache, classCache, loaderCache, records, count, sources>>
    BY <1>10 DEF TypedRecords
  <2>2. \/ UNCHANGED typed
        \/ /\ SchemaViolations(k, records[k]) = {}
           /\ typed' = [typed EXCEPT ![k] = records[k]]
    BY <1>10 DEF TypedRecords
  <2>3. LibraryTypeOK'
    BY <2>1, <2>2 DEF RegistryInvariant, LibraryTypeOK, files
  <2>4. TypedFollowsRecords'
    BY <2>1, <2>2 DEF RegistryInvariant, LibraryTypeOK, TypedFollowsRecords
  <2>5. FilesHold'
    BY <2>1 DEF RegistryInvariant, FilesHold, files
  <2>6. QED
    BY <2>3, <2>4, <2>5 DEF RegistryInvariant
<1>11. CASE r.op \in {"edit", "restart", "clear", "populate", "load", "reload", "typed"}
  BY <1>1, <1>2, <1>5, <1>6, <1>8, <1>9, <1>10, <1>11 DEF Serve
<1>12. \A ids : FrictionFiles(ids) \subseteq Keys
  BY LibraryAssumption DEF FrictionFiles
<1>13. \A a : AssemblyFiles(a) \subseteq Keys
  BY <1>12, LibraryAssumption DEF AssemblyFiles
<1>14. CASE r.op \in {"classes", "pair", "snapshot", "statistics"}
  BY <1>4, <1>14 DEF Serve, CheckClasses, PairClasses, SnapshotStrength, Statistics
<1>15. CASE r.op \in {"integrity", "battery", "search", "temperature", "materials",
                      "compare_materials"}
  BY <1>3, <1>15, LibraryAssumption
     DEF Serve, CheckIntegrity, CheckLibrary, Search, FindWasherTemperature, AdviseMaterial,
         CompareTwoMaterials
<1>16. CASE r.op \in {"assembly", "friction", "readiness"}
  BY <1>3, <1>12, <1>13, <1>16
     DEF Serve, AssessAssembly, AdviseFriction, AssessReadiness
<1>17. QED
  BY <1>11, <1>14, <1>15, <1>16 DEF Serve

LEMMA RegistryInit == LibraryInit => RegistryInvariant
<1> SUFFICES ASSUME LibraryInit PROVE RegistryInvariant
  OBVIOUS
<1>1. /\ disk \in Contents /\ edits = 0 /\ DOMAIN fileCache = {} /\ DOMAIN loaderCache = {}
      /\ records = [k \in Registered |-> <<>>] /\ count = [k \in Registered |-> 0]
      /\ typed = [k \in Registered |-> Null] /\ sources = [k \in Registered |-> Null]
  BY DEF LibraryInit, NoFiles
<1>2. LibraryTypeOK
  <2>1. MaxEdits \in Nat
    BY LibraryAssumption
  <2>2. edits \in 0..MaxEdits
    BY <1>1, <2>1
  <2>3. QED
    BY <1>1, <2>2 DEF LibraryTypeOK
<1>3. TypedFollowsRecords
  BY <1>1, NoRecords DEF TypedFollowsRecords
<1>4. FilesHold
  BY <1>1, NoRecords, ContentsAssumption DEF FilesHold
<1>5. QED
  BY <1>2, <1>3, <1>4 DEF RegistryInvariant

LEMMA RegistryInvariantHolds == LibrarySpec => []RegistryInvariant
<1>1. RegistryInvariant /\ [LibraryNext]_libraryVars => RegistryInvariant'
  <2> SUFFICES ASSUME RegistryInvariant, [LibraryNext]_libraryVars PROVE RegistryInvariant'
    OBVIOUS
  <2>1. CASE LibraryNext
    BY <2>1, RegistryStep DEF LibraryNext
  <2>2. CASE UNCHANGED libraryVars
    <3>1. UNCHANGED <<files, loaderCache, registry>> /\ UNCHANGED fileCache
      BY <2>2 DEF libraryVars
    <3>2. QED
      BY <3>1, ReadingKeepsRegistry DEF RegistryInvariant, LibraryTypeOK, FilesHold
  <2>3. QED
    BY <2>1, <2>2
<1>2. QED
  BY <1>1, RegistryInit, PTL DEF LibrarySpec

(* A reload is the only step that says so, and what it migrates is what    *)
(* the file holds now. *)
LEMMA ReloadReadsFile ==
    ASSUME RegistryInvariant, NEW r \in LibraryRequests, Serve(r),
           NEW k \in Registered, answer' = [op |-> "reload", of |-> k, reply |-> "ok"]
    PROVE  records'[k] = disk[SourceOf[k]] /\ sources'[k].sha256 = records'[k]
<1>0. answer'.op = "reload"
  OBVIOUS
<1>1. ASSUME NEW op, NEW of, NEW reply, Answer(op, of, reply)
      PROVE  op = "reload" /\ of = k /\ reply = "ok"
  BY <1>1 DEF Answer
<1>2. answer' # NoReply
  BY <1>0 DEF NoReply
<1>3. r.op = "reload" /\ FacadeReload(r.key)
  <2>1. CASE r.op \in {"edit", "restart", "clear"}
    BY <1>2, <2>1 DEF Serve, EditFile, Restart, ClearCache
  <2>2. CASE r.op \in {"populate", "load", "typed", "statistics"}
    BY <1>1, <2>2 DEF Serve, Populate, FacadeLoad, TypedRecords, Statistics
  <2>3. CASE r.op \in {"integrity", "battery", "search", "temperature", "materials",
                       "compare_materials"}
    <3>1. CASE r.op \in {"integrity", "battery"}
      BY <1>1, <3>1 DEF Serve, CheckIntegrity, CheckLibrary
    <3>2. CASE r.op = "search"
      BY <1>1, <3>2 DEF Serve, Search
    <3>3. CASE r.op = "temperature"
      <4>1. FindWasherTemperature(r.low, r.high)
        BY <3>3 DEF Serve
      <4>2. \E reply : Answer("temperature", <<r.low, r.high>>, reply)
        BY <4>1, Zenon DEF FindWasherTemperature
      <4>3. QED
        BY <1>1, <4>2
    <3>4. CASE r.op \in {"materials", "compare_materials"}
      <4>1. AdviseMaterial(r.requirement, r.family) \/ CompareTwoMaterials(r.id, r.other)
        BY <3>4 DEF Serve
      <4>2. \/ Answer("materials", <<r.requirement, r.family>>,
                      RecommendMaterials(Lib, r.requirement, r.family))
            \/ Answer("compare materials", <<r.id, r.other>>,
                      CompareMaterials(Lib, r.id, r.other))
        BY <4>1, Zenon DEF AdviseMaterial, CompareTwoMaterials
      <4>3. "materials" = "reload" \/ "compare materials" = "reload"
        BY <1>1, <4>2, Zenon
      <4>4. QED
        BY <4>3
    <3>5. QED
      BY <2>3, <3>1, <3>2, <3>3, <3>4
  <2>4. CASE r.op \in {"classes", "pair", "snapshot", "assembly", "friction", "readiness"}
    <3>1. CASE r.op \in {"classes", "pair"}
      BY <1>1, <3>1 DEF Serve, CheckClasses, PairClasses
    <3>2. CASE r.op \in {"snapshot", "readiness"}
      BY <1>1, <3>2 DEF Serve, SnapshotStrength, AssessReadiness
    <3>3. CASE r.op = "assembly"
      BY <1>1, <3>3 DEF Serve, AssessAssembly
    <3>4. CASE r.op = "friction"
      BY <1>1, <3>4 DEF Serve, AdviseFriction
    <3>5. QED
      BY <2>4, <3>1, <3>2, <3>3, <3>4
  <2>5. CASE r.op \notin {"edit", "restart", "clear", "populate", "load", "typed", "statistics",
                          "integrity", "battery", "search", "temperature", "materials",
                          "compare_materials", "classes", "pair", "snapshot", "assembly",
                          "friction", "readiness"}
    BY <2>5 DEF Serve
  <2>6. QED
    BY <2>1, <2>2, <2>3, <2>4, <2>5
<1>4. r.key = k /\ Present(k) /\ Migrate(k, disk[SourceOf[k]])
  <2>1. \/ Present(r.key) /\ Migrate(r.key, disk[SourceOf[r.key]]) /\ Answer("reload", r.key, "ok")
        \/ Answer("reload", r.key, "error")
    BY <1>3 DEF FacadeReload
  <2>2. QED
    BY <1>1, <2>1
<1>5. /\ records'[k] = [j \in {k} |-> disk[SourceOf[k]]][k]
      /\ sources' = [sources EXCEPT ![k] = [file |-> SourceOf[k], sha256 |-> disk[SourceOf[k]]]]
  BY <1>4 DEF Migrate, ReplaceRecords
<1>6. sources'[k].sha256 = disk[SourceOf[k]]
  BY <1>5 DEF RegistryInvariant, LibraryTypeOK
<1>7. QED
  BY <1>5, <1>6

(* What a registered library counts, has parsed and says of its source is  *)
(* true to its records, whatever was populated, loaded, parsed or          *)
(* rewritten in which order; and only a reload promises that the records   *)
(* are those of the file as it is now. *)
THEOREM RegistryIsTrue == LibrarySpec => RegistryHolds
<1>1. LibrarySpec => []LibraryTypeOK /\ []TypedFollowsRecords
  <2>1. RegistryInvariant => LibraryTypeOK /\ TypedFollowsRecords
    BY DEF RegistryInvariant
  <2>2. QED
    BY <2>1, RegistryInvariantHolds, PTL
<1>2. ASSUME RegistryInvariant, [LibraryNext]_libraryVars
      PROVE  [\A k \in Registered :
                (answer' = [op |-> "reload", of |-> k, reply |-> "ok"]) =>
                    /\ records'[k] = disk[SourceOf[k]]
                    /\ sources'[k].sha256 = records'[k]]_libraryVars
  BY <1>2, ReloadReadsFile DEF LibraryNext
<1>3. LibrarySpec => ReloadIsFresh
  BY <1>2, RegistryInvariantHolds, PTL DEF LibrarySpec, ReloadIsFresh
<1>4. QED
  BY <1>1, <1>3 DEF RegistryHolds

-----------------------------------------------------------------------------
(* Parts that fit.                                                         *)

LEMMA NothingFlagged ==
    ASSUME NEW check, NEW S, {check} \X S = {}
    PROVE  S = {}
<1>1. ASSUME NEW i \in S PROVE FALSE
  <2>1. <<check, i>> \in {check} \X S
    BY <1>1
  <2>2. QED
    BY <2>1
<1>2. QED
  BY <1>1

(* Rounding to a micrometre leaves the two minor diameters apart. *)
LEMMA MinorsApart ==
    ASSUME NEW d \in Int, NEW p \in Int, p >= 100
    PROVE  /\ MinorExternal(d, p) \in Int /\ MinorInternal(d, p) \in Int
           /\ MinorExternal(d, p) + 2 < MinorInternal(d, p)
           /\ MinorInternal(d, p) + 1 < d
<1> DEFINE e == (12269 * p) \div 10000
           f == (10825 * p) \div 10000
<1>1. e \in Int /\ 10000 * e <= 12269 * p /\ 12269 * p < 10000 * e + 10000
  OBVIOUS
<1>2. f \in Int /\ 10000 * f <= 10825 * p /\ 10825 * p < 10000 * f + 10000
  OBVIOUS
<1>3. MinorExternal(d, p) = d - e /\ MinorInternal(d, p) = d - f
  BY DEF MinorExternal, MinorInternal
<1>4. QED
  <2> HIDE DEF e, f
  <2>1. QED
    BY <1>1, <1>2, <1>3

LEMMA WithinTolerance ==
    ASSUME NEW v, NEW expected \in Int, ~ Off(v, expected, 1)
    PROVE  v \in Int /\ expected - 1 <= v /\ v <= expected + 1
<1>1. v \in Int /\ ~ (Abs(v - expected) > 1)
  BY DEF Off, IsNumber
<1>2. QED
  BY <1>1 DEF Abs

LEMMA ToleranceKeepsOrder ==
    ASSUME NEW d \in Int, NEW e \in Int, NEW f \in Int, NEW x \in Int, NEW y \in Int,
           e + 2 < f, f + 1 < d, x <= e + 1, y >= f - 1, y <= f + 1
    PROVE  x < y /\ y < d
OBVIOUS

LEMMA ThreadsNest == AcceptedThreadsNest
<1> DEFINE rs == disk["thread library"]
<1> SUFFICES ASSUME ThreadReport(rs) = {}, NEW i \in DOMAIN rs,
                    IsMetric(rs[i]) /\ rs[i]["pitch_mm"] >= 100
             PROVE  LET external == Get(rs[i], "minor_diameter_external_mm")
                        internal == Get(rs[i], "minor_diameter_internal_mm")
                    IN  /\ IsNumber(external) /\ IsNumber(internal)
                        /\ external < internal /\ internal < rs[i]["nominal_diameter_mm"]
  BY DEF AcceptedThreadsNest
<1> DEFINE d == Get(rs[i], "nominal_diameter_mm")
           p == Get(rs[i], "pitch_mm")
           external == Get(rs[i], "minor_diameter_external_mm")
           internal == Get(rs[i], "minor_diameter_internal_mm")
<1>1. {"size"} \X NonPositiveThreads(rs) = {} /\ {"minor"} \X MinorDiameters(rs) = {}
  BY DEF ThreadReport
<1>2. NonPositiveThreads(rs) = {} /\ MinorDiameters(rs) = {}
  BY <1>1, NothingFlagged
<1>3. IsPositive(d) /\ IsPositive(p)
  BY <1>2 DEF NonPositiveThreads, Where
<1>4. d \in Int /\ p \in Int /\ d > 0 /\ p > 0
  BY <1>3 DEF IsPositive, IsNumber
<1>5. Sized(rs[i])
  BY <1>4 DEF Sized, IsNumber
<1>6. ~ Off(external, MinorExternal(d, p), 1) /\ ~ Off(internal, MinorInternal(d, p), 1)
  BY <1>2, <1>5 DEF MinorDiameters, Where
<1>7. d = rs[i]["nominal_diameter_mm"] /\ p = rs[i]["pitch_mm"]
  BY <1>4, NoNumbers DEF Get
<1>8. /\ MinorExternal(d, p) \in Int /\ MinorInternal(d, p) \in Int
      /\ MinorExternal(d, p) + 2 < MinorInternal(d, p)
      /\ MinorInternal(d, p) + 1 < d
  BY <1>4, <1>7, MinorsApart
<1>9. /\ external \in Int /\ external <= MinorExternal(d, p) + 1
      /\ internal \in Int /\ internal >= MinorInternal(d, p) - 1
      /\ internal <= MinorInternal(d, p) + 1
  BY <1>6, <1>8, WithinTolerance
<1>10. QED
  <2> HIDE DEF d, p, external, internal
  <2>1. external < internal /\ internal < d
    BY <1>4, <1>8, <1>9, ToleranceKeepsOrder
  <2>2. QED
    BY <2>1, <1>7, <1>9 DEF IsNumber, d, p, external, internal

(* The pitch of an accepted part is the one that its thread names. *)
LEMMA AcceptedPitchIsNamed ==
    ASSUME NEW rs, NonPositivePitch(rs) = {}, PitchDesignation(rs) = {},
           NEW i \in DOMAIN rs, Get(rs[i], "pitch_mm") # Null,
           NamedPitch(ThreadName(rs[i])) # Null
    PROVE  /\ PitchOf(rs[i]) = NamedPitch(ThreadName(rs[i]))
           /\ PitchOf(rs[i]) \in Int
<1> DEFINE r == rs[i]
<1>1. "pitch_mm" \in DOMAIN r /\ Get(r, "pitch_mm") = r["pitch_mm"] /\ PitchOf(r) = r["pitch_mm"]
  BY DEF Get, PitchOf, GetOr
<1>2. IsPositive(GetOr(r, "pitch_mm", "pitch_coarse_mm"))
  BY <1>1 DEF NonPositivePitch, NonPositiveOr, Where
<1>3. r["pitch_mm"] \in Int
  BY <1>1, <1>2 DEF IsPositive, IsNumber, GetOr
<1>4. NamedPitch(ThreadName(r)) \in {Null, r["pitch_mm"]}
  BY <1>1, <1>3 DEF PitchDesignation, Where, ThreadName, IsNumber
<1>5. QED
  BY <1>1, <1>3, <1>4

LEMMA FastenersAccepted ==
    ASSUME NEW rs, Fasteners(rs) = {}
    PROVE  NonPositivePitch(rs) = {} /\ PitchDesignation(rs) = {}
<1>1. {"pitch"} \X NonPositivePitch(rs) = {} /\ {"designation"} \X PitchDesignation(rs) = {}
  BY DEF Fasteners
<1>2. QED
  BY <1>1, NothingFlagged

(* Parts without an error are of one diameter and, if both have one, of one*)
(* pitch. *)
LEMMA CompatibleParts ==
    ASSUME NEW bolt, NEW nut, Pairing(bolt, nut).compatible
    PROVE  /\ Diameter(bolt) = Diameter(nut) /\ Diameter(bolt) # Null
           /\ Null \notin {PitchOf(bolt), PitchOf(nut)} => PitchOf(bolt) = PitchOf(nut)
<1> DEFINE known == Null \notin {Diameter(bolt), Diameter(nut)}
<1>1. PairingErrors(bolt, nut) = {}
  BY DEF Pairing
<1>2. /\ Note(~known, "no diameter") = {}
      /\ Note(known /\ Diameter(bolt) # Diameter(nut), "diameter") = {}
      /\ Note(/\ Null \notin {PitchOf(bolt), PitchOf(nut)}
              /\ PitchOf(bolt) # PitchOf(nut), "pitch") = {}
  BY <1>1 DEF PairingErrors
<1>3. \A text : {text} # {}
  OBVIOUS
<1>4. /\ known /\ ~ (known /\ Diameter(bolt) # Diameter(nut))
      /\ ~ (Null \notin {PitchOf(bolt), PitchOf(nut)} /\ PitchOf(bolt) # PitchOf(nut))
  BY <1>2, <1>3 DEF Note
<1>5. QED
  BY <1>4

LEMMA PairsShareThreads == CompatibleShareThreads
<1> DEFINE bolts == disk["bolt library"]
           nuts == disk["nut library"]
           Named(r) == NamedPitch(ThreadName(r))
<1> SUFFICES ASSUME BoltReport(bolts) = {}, NutReport(nuts) = {},
                    NEW i \in DOMAIN bolts, NEW j \in DOMAIN nuts,
                    Pairing(bolts[i], nuts[j]).compatible,
                    Null \notin {Get(bolts[i], "pitch_mm"), Get(nuts[j], "pitch_mm")},
                    Null \notin {Named(bolts[i]), Named(nuts[j])}
             PROVE  Named(bolts[i]) = Named(nuts[j])
  BY DEF CompatibleShareThreads
<1>1. Fasteners(bolts) = {} /\ Fasteners(nuts) = {}
  BY DEF BoltReport, NutReport
<1>2. /\ NonPositivePitch(bolts) = {} /\ PitchDesignation(bolts) = {}
      /\ NonPositivePitch(nuts) = {} /\ PitchDesignation(nuts) = {}
  BY <1>1, FastenersAccepted
<1>3. PitchOf(bolts[i]) = Named(bolts[i]) /\ PitchOf(nuts[j]) = Named(nuts[j])
  BY <1>2, AcceptedPitchIsNamed
<1>4. QED
  BY <1>3, CompatibleParts

Bolts(lib) == lib["bolt library"]
Nuts(lib) == lib["nut library"]

(* The first record that meets a condition meets it, and there is one if   *)
(* any record does: find_bolt and find_nut with a diameter. *)
LEMMA FoundBolt ==
    ASSUME NEW lib, IsRecords(Bolts(lib)), NEW name, NEW d, d # Null,
           NEW bolt, bolt = ResolveBolt(lib, name, d), bolt # Null,
           NEW j \in DOMAIN Bolts(lib), Get(Bolts(lib)[j], "designation") = name,
           Get(Bolts(lib)[j], "diameter_mm") = d
    PROVE  \E k \in DOMAIN Bolts(lib) : /\ bolt = Bolts(lib)[k]
                                       /\ Get(Bolts(lib)[k], "diameter_mm") = d
<1> DEFINE rs == Bolts(lib)
           S == {i \in DOMAIN rs : /\ Get(rs[i], "designation") = name
                                   /\ d \in {Null, Get(rs[i], "diameter_mm")}}
           first == CHOOSE i \in S : \A k \in S : i <= k
<1>1. S \in SUBSET Nat /\ S # {}
  BY RecordsAreNumbered
<1>2. first \in S
  BY <1>1, FirstOfPositions
<1>3. rs[first] # Null
  BY <1>2 DEF IsRecords
<1>4. ~ Empty(name)
  BY DEF ResolveBolt
<1>5. bolt = rs[first]
  BY <1>1, <1>3, <1>4 DEF ResolveBolt, First, Bolts
<1>6. QED
  BY <1>2, <1>5

LEMMA FoundNut ==
    ASSUME NEW lib, IsRecords(Nuts(lib)), NEW name, NEW d, d # Null,
           NEW nut, nut = ResolveNut(lib, name, d), nut # Null,
           NEW j \in DOMAIN Nuts(lib), Get(Nuts(lib)[j], "designation") = name,
           ThreadSize(Nuts(lib)[j]) = d
    PROVE  \E k \in DOMAIN Nuts(lib) : /\ nut = Nuts(lib)[k]
                                      /\ ThreadSize(Nuts(lib)[k]) = d
<1> DEFINE rs == Nuts(lib)
           S == {i \in DOMAIN rs : /\ Get(rs[i], "designation") = name
                                   /\ d \in {Null, ThreadSize(rs[i])}}
           first == CHOOSE i \in S : \A k \in S : i <= k
<1>1. S \in SUBSET Nat /\ S # {}
  BY RecordsAreNumbered
<1>2. first \in S
  BY <1>1, FirstOfPositions
<1>3. rs[first] # Null
  BY <1>2 DEF IsRecords
<1>4. ~ Empty(name)
  BY DEF ResolveNut
<1>5. nut = rs[first]
  BY <1>1, <1>3, <1>4 DEF ResolveNut, First, Nuts
<1>6. QED
  BY <1>2, <1>5

(* What the dimensional check of an assembly has found compatible. *)
LEMMA DimensionallyCompatible ==
    ASSUME NEW lib, NEW a, NEW d, d = a["nominal_diameter_mm"],
           NEW bolt, bolt = ResolveBolt(lib, a["bolt_designation"], d),
           NEW nut, nut = ResolveNut(lib, a["nut_designation"], d),
           Checks(lib, a)["bolt_nut_dimensional"] = "compatible"
    PROVE  bolt # Null /\ nut # Null /\ Pairing(bolt, nut).compatible
<1>1. CheckDimensional(bolt, nut) = "compatible"
  BY DEF Checks
<1>2. QED
  BY <1>1 DEF CheckDimensional, Verdict

Resized(lib, a, d) ==
    /\ d # Null /\ d = a["nominal_diameter_mm"]
    /\ Checks(lib, a)["bolt_nut_dimensional"] = "compatible"
    /\ \A j \in DOMAIN Bolts(lib) : Get(Bolts(lib)[j], "diameter_mm") = Diameter(Bolts(lib)[j])
    /\ \A j \in DOMAIN Nuts(lib) : ThreadSize(Nuts(lib)[j]) = Diameter(Nuts(lib)[j])
    /\ \/ \E j \in DOMAIN Bolts(lib) :
              /\ Get(Bolts(lib)[j], "designation") = a["bolt_designation"]
              /\ Diameter(Bolts(lib)[j]) = d
       \/ \E j \in DOMAIN Nuts(lib) :
              /\ Get(Nuts(lib)[j], "designation") = a["nut_designation"]
              /\ Diameter(Nuts(lib)[j]) = d

(* A bolt of the diameter is found if the library has one; a nut of it     *)
(* takes the bolt with it, because the two are of one diameter. *)
LEMMA SizeIsKept ==
    ASSUME NEW lib, NEW a, NEW d, Resized(lib, a, d),
           IsRecords(Bolts(lib)), IsRecords(Nuts(lib))
    PROVE  Diameter(ResolveBolt(lib, a["bolt_designation"], d)) = d
<1> DEFINE bolt == ResolveBolt(lib, a["bolt_designation"], d)
           nut == ResolveNut(lib, a["nut_designation"], d)
<1>1. d # Null /\ bolt # Null /\ nut # Null /\ Diameter(bolt) = Diameter(nut)
  BY DimensionallyCompatible, CompatibleParts DEF Resized
<1>2. CASE \E j \in DOMAIN Bolts(lib) :
              /\ Get(Bolts(lib)[j], "designation") = a["bolt_designation"]
              /\ Diameter(Bolts(lib)[j]) = d
  <2>1. PICK i \in DOMAIN Bolts(lib) :
            /\ Get(Bolts(lib)[i], "designation") = a["bolt_designation"]
            /\ Get(Bolts(lib)[i], "diameter_mm") = d
    BY <1>2 DEF Resized
  <2>2. PICK j \in DOMAIN Bolts(lib) : bolt = Bolts(lib)[j] /\ Get(Bolts(lib)[j], "diameter_mm") = d
    BY <1>1, <2>1, FoundBolt
  <2>3. QED
    BY <2>2 DEF Resized
<1>3. CASE \E j \in DOMAIN Nuts(lib) :
              /\ Get(Nuts(lib)[j], "designation") = a["nut_designation"]
              /\ Diameter(Nuts(lib)[j]) = d
  <2>1. PICK i \in DOMAIN Nuts(lib) :
            /\ Get(Nuts(lib)[i], "designation") = a["nut_designation"]
            /\ ThreadSize(Nuts(lib)[i]) = d
    BY <1>3 DEF Resized
  <2>2. PICK j \in DOMAIN Nuts(lib) : nut = Nuts(lib)[j] /\ ThreadSize(Nuts(lib)[j]) = d
    BY <1>1, <2>1, FoundNut
  <2>3. QED
    BY <1>1, <2>2 DEF Resized
<1>4. QED
  BY <1>2, <1>3 DEF Resized

-----------------------------------------------------------------------------
(* The last answer is the one that the engine gives again: what it read is *)
(* in the caches, and an edit of a file withdraws it.                      *)

AnswerRepeats ==
    /\ answer.op = "assembly" => answer.reply = Assess(Lib, answer.of)
    /\ answer.op = "materials" =>
          /\ answer.reply = RecommendMaterials(Lib, answer.of[1], answer.of[2])
          /\ DOMAIN answer.of[1] \subseteq RequirementFields
          /\ \A f \in DOMAIN answer.of[1] : answer.of[1][f] \in Nat

(* Filling the caches changes nothing of what the engines see. *)
LEMMA LoadingKeepsLib ==
    ASSUME NEW ks, LoadPopulation(ks), UNCHANGED files,
           classCache' = classCache \/ classCache' = Classes
    PROVE  Lib' = Lib
<1>1. disk' = disk
  BY DEF files
<1>2. \A k : Cached(k)' = Cached(k)
  BY <1>1 DEF LoadPopulation, Cached
<1>3. Classes' = Classes
  BY <1>1 DEF Classes
<1>4. QED
  BY <1>2, <1>3 DEF Lib

LEMMA AnswerStep ==
    ASSUME NEW r \in LibraryRequests, Serve(r)
    PROVE  AnswerRepeats'
<1>1. ASSUME NEW op, NEW of, NEW reply, Answer(op, of, reply), op \notin {"assembly", "materials"}
      PROVE  AnswerRepeats'
  <2>1. answer' = [op |-> op, of |-> of, reply |-> reply]
    BY <1>1 DEF Answer
  <2>2. answer'.op = op
    BY <2>1
  <2>3. QED
    BY <1>1, <2>2 DEF AnswerRepeats
<1>2. ASSUME answer' = NoReply PROVE AnswerRepeats'
  BY <1>2 DEF AnswerRepeats, NoReply
<1>3. CASE r.op \in {"edit", "restart", "clear"}
  BY <1>2, <1>3 DEF Serve, EditFile, Restart, ClearCache
<1>4. CASE r.op \in {"populate", "load", "reload", "typed", "statistics"}
  BY <1>1, <1>4 DEF Serve, Populate, FacadeLoad, FacadeReload, TypedRecords, Statistics
<1>5. CASE r.op \in {"integrity", "battery"}
  BY <1>1, <1>5 DEF Serve, CheckIntegrity, CheckLibrary
<1>6. CASE r.op \in {"classes", "pair"}
  BY <1>1, <1>6 DEF Serve, CheckClasses, PairClasses
<1>7. CASE r.op \in {"snapshot", "readiness"}
  BY <1>1, <1>7 DEF Serve, SnapshotStrength, AssessReadiness
<1>8. CASE r.op = "search"
  BY <1>1, <1>8 DEF Serve, Search
<1>9. CASE r.op = "temperature"
  <2>1. FindWasherTemperature(r.low, r.high)
    BY <1>9 DEF Serve
  <2>2. \E reply : Answer("temperature", <<r.low, r.high>>, reply)
    BY <2>1, Zenon DEF FindWasherTemperature
  <2>3. QED
    BY <1>1, <2>2
<1>10. CASE r.op = "friction"
  BY <1>1, <1>10 DEF Serve, AdviseFriction
<1>11. CASE r.op = "compare_materials"
  <2>1. CompareTwoMaterials(r.id, r.other)
    BY <1>11 DEF Serve
  <2>2. \E reply : Answer("compare materials", <<r.id, r.other>>, reply)
    BY <2>1, Zenon DEF CompareTwoMaterials
  <2>3. QED
    BY <1>1, <2>2
<1>12. CASE r.op = "assembly"
  <2>1. AssessAssembly(r.assembly)
    BY <1>12 DEF Serve
  <2>2. Lib' = Lib /\ answer' = [op |-> "assembly", of |-> r.assembly,
                                reply |-> Assess(Lib, r.assembly)]
    BY <2>1, LoadingKeepsLib DEF AssessAssembly, Answer
  <2>3. QED
    BY <2>2 DEF AnswerRepeats
<1>13. CASE r.op = "materials"
  <2>1. AdviseMaterial(r.requirement, r.family)
    BY <1>13 DEF Serve
  <2>2. Lib' = Lib /\ answer' = [op |-> "materials", of |-> <<r.requirement, r.family>>,
                                reply |-> RecommendMaterials(Lib, r.requirement, r.family)]
    BY <2>1, LoadingKeepsLib DEF AdviseMaterial, Answer
  <2>3. /\ DOMAIN r.requirement \subseteq RequirementFields
        /\ \A f \in DOMAIN r.requirement : r.requirement[f] \in Nat
    BY <1>13, LibraryRequestAssumption
  <2>4. QED
    BY <2>2, <2>3 DEF AnswerRepeats
<1>14. QED
  BY <1>3, <1>4, <1>5, <1>6, <1>7, <1>8, <1>9, <1>10, <1>11, <1>12, <1>13 DEF Serve

LEMMA AnswerRepeatsHolds == LibrarySpec => []AnswerRepeats
<1>1. LibraryInit => AnswerRepeats
  BY DEF LibraryInit, NoReply, AnswerRepeats
<1>2. AnswerRepeats /\ [LibraryNext]_libraryVars => AnswerRepeats'
  <2>1. ASSUME AnswerRepeats, UNCHANGED libraryVars PROVE AnswerRepeats'
    <3>1. answer' = answer /\ disk' = disk /\ fileCache' = fileCache /\ classCache' = classCache
      BY <2>1 DEF libraryVars, files
    <3>2. Lib' = Lib
      BY <3>1 DEF Lib, Cached, Classes
    <3>3. QED
      BY <2>1, <3>1, <3>2 DEF AnswerRepeats
  <2>2. QED
    BY <2>1, AnswerStep DEF LibraryNext
<1>3. QED
  BY <1>1, <1>2, PTL DEF LibrarySpec


(* The parts of the library that an assembly is assessed with. *)
LEMMA PartsOfLibrary ==
    ASSUME FilesHold
    PROVE  /\ Bolts(Lib) = Cached("bolt library") /\ IsRecords(Bolts(Lib))
           /\ Nuts(Lib) = Cached("nut library") /\ IsRecords(Nuts(Lib))
<1>1. /\ "bolt library" \in Keys /\ "nut library" \in Keys
      /\ "bolt classes" \notin Keys /\ "nut classes" \notin Keys
  BY LibraryAssumption
<1>2. Lib["bolt library"] = Cached("bolt library") /\ Lib["nut library"] = Cached("nut library")
  BY <1>1 DEF Lib
<1>3. QED
  BY <1>1, <1>2, CachedIsFile DEF Bolts, Nuts

LEMMA ChecksOfAnswer ==
    ASSUME NEW lib, NEW a, Assess(lib, a) # NoAssessment
    PROVE  Assess(lib, a).checks = Checks(lib, a)
<1>1. \E overall, score, coverage, critical, risk :
         Assess(lib, a) = [checks |-> Checks(lib, a), overall |-> overall, score |-> score,
                           coverage |-> coverage, critical |-> critical, risk |-> risk]
  BY DEF Assess
<1>2. QED
  BY <1>1

LEMMA SizesAreKept == FilesHold /\ AnswerRepeats => NoOtherSize
<1> DEFINE a == answer.of
           d == a["nominal_diameter_mm"]
           bolts == Cached("bolt library")
           nuts == Cached("nut library")
           Diameters(rs, name) ==
               {Diameter(rs[i]) : i \in {j \in DOMAIN rs : Get(rs[j], "designation") = name}}
<1> SUFFICES ASSUME FilesHold, AnswerRepeats, answer.op = "assembly",
                    answer.reply # NoAssessment, d # Null,
                    \A j \in DOMAIN bolts : Get(bolts[j], "diameter_mm") = Diameter(bolts[j]),
                    \A j \in DOMAIN nuts : ThreadSize(nuts[j]) = Diameter(nuts[j]),
                    answer.reply.checks["bolt_nut_dimensional"] = "compatible",
                    d \in Diameters(bolts, a["bolt_designation"])
                          \cup Diameters(nuts, a["nut_designation"])
             PROVE  Diameter(ResolveBolt(Lib, a["bolt_designation"], d)) = d
  BY DEF NoOtherSize
<1>1. Bolts(Lib) = bolts /\ Nuts(Lib) = nuts /\ IsRecords(Bolts(Lib)) /\ IsRecords(Nuts(Lib))
  BY PartsOfLibrary
<1>2. Checks(Lib, a)["bolt_nut_dimensional"] = "compatible"
  BY ChecksOfAnswer DEF AnswerRepeats
<1>3. Resized(Lib, a, d)
  BY <1>1, <1>2 DEF Resized
<1>4. QED
  BY <1>1, <1>3, SizeIsKept

(* The parts that an engine declares to fit do fit, for every content of   *)
(* the files and whatever was read before an edit: PartsFit.               *)
THEOREM DeclaredPartsFit == LibrarySpec => []PartsFit
<1>1. RegistryInvariant /\ AnswerRepeats => PartsFit
  BY ThreadsNest, PairsShareThreads, SizesAreKept DEF PartsFit, RegistryInvariant
<1>2. QED
  BY <1>1, RegistryInvariantHolds, AnswerRepeatsHolds, PTL

-----------------------------------------------------------------------------
(* Strength classes.                                                       *)

LEMMA ClassesAreRecords ==
    ASSUME FilesHold
    PROVE  IsRecords(disk["classes"].bolts) /\ IsRecords(disk["classes"].nuts)
<1>1. "classes" \in Files
  BY DEF Files
<1>2. QED
  BY <1>1 DEF FilesHold, IsFile

(* A class is found by its name if there is one of that name. *)
LEMMA ClassOfName ==
    ASSUME NEW rs, IsRecords(rs), NEW name, GetClass(rs, name) # Null
    PROVE  name # Null /\ GetClass(rs, name)["designation"] = name
<1> DEFINE S == {i \in DOMAIN rs : Get(rs[i], "designation") = name}
           first == CHOOSE i \in S : \A j \in S : i <= j
<1>1. S \in SUBSET Nat
  BY RecordsAreNumbered
<1>2. S # {} /\ ~ Empty(name) /\ GetClass(rs, name) = rs[first]
  BY DEF GetClass
<1>3. first \in S
  BY <1>1, <1>2, FirstOfPositions
<1>4. name # Null
  BY <1>2 DEF Empty
<1>5. QED
  BY <1>2, <1>3, <1>4 DEF Get

(* The two tables of the smallest nut class are the same where both have a *)
(* row. *)
LEMMA MinimaAgree ==
    ASSUME NEW b \in DOMAIN MinimumNutClass \cap DOMAIN MinimumNumeral
    PROVE  Numeral[MinimumNutClass[b]] = MinimumNumeral[b]
<1>1. CASE b \in {"4.6", "4.8"}
  BY <1>1, NumeralAssumption DEF MinimumNutClass, MinimumNumeral
<1>2. CASE b \in {"5.6", "5.8"}
  BY <1>2, NumeralAssumption DEF MinimumNutClass, MinimumNumeral
<1>3. CASE b \in {"6.8", "8.8", "9.8"}
  BY <1>3, NumeralAssumption DEF MinimumNutClass, MinimumNumeral
<1>4. CASE b \in {"10.9", "12.9"}
  BY <1>4, NumeralAssumption DEF MinimumNutClass, MinimumNumeral
<1>5. QED
  BY <1>1, <1>2, <1>3, <1>4 DEF MinimumNumeral

(* The recommended nut class has the number of the table. *)
LEMMA RecommendedIsMinimum ==
    ASSUME NEW b \in DOMAIN MinimumNumeral
    PROVE  /\ MinimumNumeral[b] \in Int
           /\ Numeral[RecommendedMinimum(b)] = MinimumNumeral[b]
<1> DEFINE Numbers == {4, 5, 6, 8, 9, 10, 12}
           m == MinimumNumeral[b]
           S == {n \in Numbers : n >= m}
           least == CHOOSE n \in S : \A k \in S : n <= k
<1>1. m \in Numbers
  BY DEF MinimumNumeral
<1>2. least = m
  <2>1. m \in S /\ \A k \in S : m <= k
    BY <1>1
  <2>2. least \in S /\ \A k \in S : least <= k
    BY <2>1
  <2>3. QED
    BY <2>1, <2>2
<1>3. Numeral[NutName(m)] = m
  <2>1. \E c \in DOMAIN Numeral : Numeral[c] = m /\ (m = 4 <=> c = "04")
    <3>1. \E c \in {"04", "5", "6", "8", "9", "10", "12"} :
             c \in DOMAIN Numeral /\ Numeral[c] = m /\ (m = 4 <=> c = "04")
      BY <1>1, NumeralAssumption
    <3>2. QED
      BY <3>1
  <2>2. QED
    BY <2>1 DEF NutName
<1>4. S # {}
  BY <1>1
<1>5. RecommendedMinimum(b) = NutName(m)
  BY <1>2, <1>4 DEF RecommendedMinimum
<1>6. QED
  BY <1>1, <1>3, <1>5

(* What the engine of the classes says of a class of a bolt and one of a   *)
(* nut that it has. *)
LEMMA ClassesPaired ==
    ASSUME NEW bolts, NEW nuts, IsRecords(bolts), IsRecords(nuts), NEW b, NEW n,
           GetClass(bolts, b) # Null, GetClass(nuts, n) # Null
    PROVE  LET result == StrengthPairing(bolts, nuts, b, n, Null, Null, Null) IN
           /\ result.recommended = RecommendedMinimum(b)
           /\ (b \in DOMAIN MinimumNumeral /\ n \in DOMAIN Numeral) =>
                 result.strength = IF Numeral[n] < MinimumNumeral[b] THEN "fail" ELSE "pass"
<1> DEFINE bolt == GetClass(bolts, b)
           nut == GetClass(nuts, n)
           result == StrengthPairing(bolts, nuts, b, n, Null, Null, Null)
           evaluated == b \in DOMAIN MinimumNumeral /\ n \in DOMAIN Numeral
<1>1. bolt["designation"] = b /\ nut["designation"] = n
  BY ClassOfName
<1>2. result.recommended = RecommendedMinimum(b)
  BY <1>1 DEF StrengthPairing, MatchesDiameter
<1>3. result.strength = IF ~evaluated THEN "unevaluated"
                        ELSE IF Numeral[n] < MinimumNumeral[b] THEN "fail" ELSE "pass"
  BY <1>1 DEF StrengthPairing, MatchesDiameter
<1>4. QED
  BY <1>2, <1>3

LEMMA ClassesNotPaired ==
    ASSUME NEW bolts, NEW nuts, NEW b, NEW n,
           StrengthPairing(bolts, nuts, b, n, Null, Null, Null).recommended # Null
    PROVE  GetClass(bolts, b) # Null /\ GetClass(nuts, n) # Null
<1>1. Unknown.recommended = Null
  BY DEF Unknown
<1>2. QED
  BY <1>1 DEF StrengthPairing, MatchesDiameter

(* The engine of the records and that of the classes agree on a nut. *)
LEMMA WeakNutFails ==
    ASSUME NEW bolts, NEW nuts, IsRecords(bolts), IsRecords(nuts), NEW bolt, NEW nut,
           NEW b, NEW n, b = Get(bolt, "property_class"), n = Get(nut, "property_class"),
           b \in DOMAIN MinimumNutClass \cap DOMAIN MinimumNumeral, n \in DOMAIN Numeral,
           GetClass(bolts, b) # Null, GetClass(nuts, n) # Null
    PROVE  NutTooWeak(bolt, nut)
               <=> StrengthPairing(bolts, nuts, b, n, Null, Null, Null).strength = "fail"
<1>1. b # Null /\ n # Null
  BY ClassOfName
<1>2. bolt["property_class"] = b /\ nut["property_class"] = n
  BY <1>1 DEF Get
<1>3. NutTooWeak(bolt, nut) <=> Numeral[n] < MinimumNumeral[b]
  BY <1>2, MinimaAgree DEF NutTooWeak
<1>4. StrengthPairing(bolts, nuts, b, n, Null, Null, Null).strength
          = IF Numeral[n] < MinimumNumeral[b] THEN "fail" ELSE "pass"
  BY ClassesPaired
<1>5. QED
  BY <1>3, <1>4

LEMMA EnginesDoAgree == FilesHold => EnginesAgree
<1> DEFINE Bolts_ == disk["classes"].bolts
           Nuts_ == disk["classes"].nuts
<1> SUFFICES ASSUME FilesHold, NEW bolt, NEW nut, NEW b, NEW n,
                    b = Get(bolt, "property_class"), n = Get(nut, "property_class"),
                    b \in DOMAIN MinimumNutClass \cap DOMAIN MinimumNumeral,
                    n \in DOMAIN Numeral,
                    Null \notin {GetClass(Bolts_, b), GetClass(Nuts_, n)}
             PROVE  NutTooWeak(bolt, nut)
                    <=> StrengthPairing(Bolts_, Nuts_, b, n, Null, Null, Null).strength = "fail"
  BY DEF EnginesAgree
<1>1. IsRecords(Bolts_) /\ IsRecords(Nuts_)
  BY ClassesAreRecords
<1>2. QED
  BY <1>1, WeakNutFails

LEMMA RecommendationDoesSuffice == FilesHold => RecommendationSuffices
<1> DEFINE bolts == disk["classes"].bolts
           nuts == disk["classes"].nuts
<1> SUFFICES ASSUME FilesHold, NEW b, NEW n, NEW result,
                    result = StrengthPairing(bolts, nuts, b, n, Null, Null, Null),
                    result.recommended # Null, n \in DOMAIN Numeral
             PROVE  result.strength = "pass" <=> Numeral[n] >= Numeral[result.recommended]
  BY DEF RecommendationSuffices
<1>1. IsRecords(bolts) /\ IsRecords(nuts)
  BY ClassesAreRecords
<1>2. GetClass(bolts, b) # Null /\ GetClass(nuts, n) # Null
  BY ClassesNotPaired
<1>3. result.recommended = RecommendedMinimum(b)
  BY <1>1, <1>2, ClassesPaired
<1>4. b \in DOMAIN MinimumNumeral
  BY <1>3 DEF RecommendedMinimum
<1>5. result.strength = IF Numeral[n] < MinimumNumeral[b] THEN "fail" ELSE "pass"
  BY <1>1, <1>2, <1>4, ClassesPaired
<1>6. /\ Numeral[n] \in Int /\ MinimumNumeral[b] \in Int
      /\ Numeral[result.recommended] = MinimumNumeral[b]
  BY <1>3, <1>4, RecommendedIsMinimum, NumeralAssumption
<1>7. QED
  BY <1>5, <1>6

(* At most one record of a standard and a name covers a diameter, if no    *)
(* two ranges overlap. *)
LEMMA RangesApart ==
    ASSUME NEW rs, IsRecords(rs), DuplicateRange(rs) = {},
           NonPositiveKnown(rs, StrengthNumbers) = {},
           NEW d \in Int, NEW x \in DOMAIN rs, NEW y \in DOMAIN rs, x < y,
           Get(rs[x], "standard") = Get(rs[y], "standard"),
           Get(rs[x], "designation") = Get(rs[y], "designation"),
           MatchesDiameter(rs[x], d), MatchesDiameter(rs[y], d)
    PROVE  FALSE
<1> DEFINE Lo(z) == Get(rs[z], "diameter_min_mm")
           Hi(z) == Get(rs[z], "diameter_max_mm")
<1>1. \A z \in DOMAIN rs : \A f \in StrengthNumbers :
         Get(rs[z], f) # Null => Get(rs[z], f) \in Int /\ Get(rs[z], f) = rs[z][f]
  BY DEF NonPositiveKnown, Where, IsPositive, IsNumber, Get
<1>2. "diameter_min_mm" \in StrengthNumbers /\ "diameter_max_mm" \in StrengthNumbers
  BY DEF StrengthNumbers
<1>3. \A z \in {x, y} : /\ Lo(z) = Null \/ (Lo(z) \in Int /\ Lo(z) <= d)
                        /\ Hi(z) = Null \/ (Hi(z) \in Int /\ d <= Hi(z))
  <2>1. d # Null
    BY NoNumbers
  <2>2. QED
    BY <1>1, <1>2, <2>1 DEF MatchesDiameter
<1>4. \A z, w \in {x, y} : Lo(z) = Null \/ Hi(w) = Null \/ Lo(z) <= Hi(w)
  BY <1>3
<1>5. Overlap(rs[y], rs[x])
  BY <1>4 DEF Overlap
<1>6. x \in 1..(y - 1)
  BY RecordsAreNumbered
<1>7. y \in DuplicateRange(rs)
  BY <1>5, <1>6 DEF DuplicateRange
<1>8. QED
  BY <1>7

LEMMA AtMostOne ==
    ASSUME NEW S \in SUBSET Nat, \A x, y \in S : ~ (x < y)
    PROVE  Cardinality(S) <= 1
<1>1. CASE S = {}
  BY <1>1, FS_EmptySet
<1>2. CASE S # {}
  <2>1. PICK x \in S : TRUE
    BY <1>2
  <2>2. S = {x}
    <3>1. ASSUME NEW y \in S PROVE y = x
      <4>1. x \in Nat /\ y \in Nat /\ ~ (x < y) /\ ~ (y < x)
        BY <2>1, <3>1
      <4>2. QED
        BY <4>1
    <3>2. QED
      BY <3>1
  <2>3. QED
    BY <2>2, FS_Singleton
<1>3. QED
  BY <1>1, <1>2

LEMMA LookupIsUnique == FilesHold => StrengthLookupUnique
<1> DEFINE rs == disk["classes"].bolts
           Wanted(r) == [standard |-> Get(r, "standard"), designation |-> Get(r, "designation")]
<1> SUFFICES ASSUME FilesHold, BoltStrengthReport(rs) = {}, NEW i \in DOMAIN rs,
                    NEW k \in DOMAIN rs, NEW d, d = Get(rs[k], "diameter_max_mm"), d # Null
             PROVE  Cardinality(ListClasses(rs, Wanted(rs[i]), d)) <= 1
  BY DEF StrengthLookupUnique
<1>1. IsRecords(rs)
  BY ClassesAreRecords
<1>2. DuplicateRange(rs) = {} /\ NonPositiveKnown(rs, StrengthNumbers) = {}
  <2>1. {"duplicate"} \X DuplicateRange(rs) = {}
        /\ {"value"} \X NonPositiveKnown(rs, StrengthNumbers) = {}
    BY DEF BoltStrengthReport, NutStrengthReport
  <2>2. QED
    BY <2>1, NothingFlagged
<1>3. d \in Int
  <2>1. "diameter_max_mm" \in StrengthNumbers
    BY DEF StrengthNumbers
  <2>2. QED
    BY <1>2, <2>1 DEF NonPositiveKnown, Where, IsPositive, IsNumber, Get
<1> DEFINE S == ListClasses(rs, Wanted(rs[i]), d)
<1>4. \A x \in S : /\ x \in DOMAIN rs /\ MatchesDiameter(rs[x], d)
                   /\ Get(rs[x], "standard") = Get(rs[i], "standard")
                   /\ Get(rs[x], "designation") = Get(rs[i], "designation")
  BY DEF ListClasses
<1>5. S \in SUBSET Nat
  BY <1>1, <1>4, RecordsAreNumbered
<1>6. \A x, y \in S : ~ (x < y)
  BY <1>1, <1>2, <1>3, <1>4, RangesApart
<1>7. QED
  BY <1>5, <1>6, AtMostOne

(* Strength has one answer, for every content of the files: one class for  *)
(* a diameter, one verdict of the two engines, and a recommended nut that  *)
(* is the least to pass. *)
THEOREM StrengthsDoAgree == LibrarySpec => []StrengthsAgree
<1>1. RegistryInvariant => StrengthsAgree
  BY EnginesDoAgree, RecommendationDoesSuffice, LookupIsUnique
     DEF StrengthsAgree, RegistryInvariant
<1>2. QED
  BY <1>1, RegistryInvariantHolds, PTL

-----------------------------------------------------------------------------
(* Advice on friction conditions.                                          *)

CoatingIds(lib) == Values(lib["coating library"], "id")
LubricantIds(lib) == Values(lib["lubrication library"], "id")

LEMMA RefusalUnfolded ==
    ASSUME NEW lib, NEW id, NEW r, r = ById(Conditions(lib), id)
    PROVE  /\ r = Null => Refusal(lib, id) # Null
           /\ (/\ r # Null /\ Dangling(<<r>>, "coating_id", CoatingIds(lib)) = {}
               /\ Dangling(<<r>>, "lubricant_id", LubricantIds(lib)) = {}
               /\ ~ Empty(Get(r, "source_reference")))
              => Refusal(lib, id) = Null
<1>1. r = Null => Refusal(lib, id) # Null
  BY NoCode DEF Refusal
<1>2. QED
  BY <1>1 DEF Refusal, CoatingIds, LubricantIds

(* The record that is found by an id is one of the records. *)
LEMMA ByIdIsRecord ==
    ASSUME NEW rs, IsRecords(rs), NEW id, ById(rs, id) # Null
    PROVE  \E k \in DOMAIN rs : ById(rs, id) = rs[k] /\ Get(rs[k], "id") = id
<1> DEFINE S == {i \in DOMAIN rs : Get(rs[i], "id") = id}
           first == CHOOSE i \in S : \A j \in S : i <= j
<1>1. S \in SUBSET Nat
  BY RecordsAreNumbered
<1>2. S # {} /\ ById(rs, id) = rs[first]
  BY DEF ById
<1>3. first \in S
  BY <1>1, <1>2, FirstOfPositions
<1>4. QED
  BY <1>2, <1>3

(* Without duplicates, a record is found by its id. *)
LEMMA FoundById ==
    ASSUME NEW rs, IsRecords(rs), DuplicateIds(rs) = {}, NEW i \in DOMAIN rs,
           NEW id, id = Get(rs[i], "id"), id # Null
    PROVE  ById(rs, id) = rs[i]
<1> DEFINE S == {k \in DOMAIN rs : Get(rs[k], "id") = id}
           first == CHOOSE k \in S : \A j \in S : k <= j
<1>1. S \in SUBSET Nat /\ i \in S
  BY RecordsAreNumbered
<1>2. first \in S /\ first <= i
  BY <1>1, FirstOfPositions
<1>3. \A k \in S : "id" \in DOMAIN rs[k] /\ rs[k]["id"] = id
  BY DEF Get
<1>4. ASSUME first # i PROVE FALSE
  <2>1. first \in Nat /\ i \in Nat /\ first \in DOMAIN rs /\ 1 <= first
    BY <1>1, <1>2, RecordsAreNumbered
  <2>2. first \in 1..(i - 1)
    BY <1>2, <1>4, <2>1
  <2>3. i \in DuplicateIds(rs)
    BY <1>1, <1>2, <1>3, <2>2 DEF DuplicateIds, Repeated
  <2>4. QED
    BY <2>3
<1>5. S # {} /\ ~ (S = {})
  BY <1>1
<1>6. QED
  BY <1>4, <1>5 DEF ById

LEMMA NothingDangles ==
    ASSUME NEW rs, NEW field, NEW known, Dangling(rs, field, known) = {}, NEW i \in DOMAIN rs
    PROVE  Dangling(<<rs[i]>>, field, known) = {}
<1>1. ~ (~Empty(Get(rs[i], field)) /\ rs[i][field] \notin known)
  BY DEF Dangling, Where
<1>2. QED
  BY <1>1 DEF Dangling, Where

(* What the battery leaves of the ranges of a condition. *)
LEMMA AcceptedRange ==
    ASSUME NEW rs, FrictionReport(rs) = {},
           Numeric(rs, {"overall_friction_coefficient_min", "overall_friction_coefficient_max"}),
           NEW i \in DOMAIN rs
    PROVE  /\ HasOverall(rs[i]) => /\ Low(rs[i]) \in Int /\ High(rs[i]) \in Int
                                   /\ Low(rs[i]) <= High(rs[i])
           /\ (\E f \in {"overall_friction_coefficient_min",
                         "overall_friction_coefficient_max"} : Get(rs[i], f) # Null)
              => HasOverall(rs[i]) /\ ~ Empty(Get(rs[i], "source_reference"))
           /\ DuplicateIds(rs) = {}
<1> DEFINE r == rs[i]
           low == Get(r, "overall_friction_coefficient_min")
           high == Get(r, "overall_friction_coefficient_max")
           p == <<"overall_friction_coefficient_min", "overall_friction_coefficient_max">>
<1>1. {"min_max"} \X FrictionMinMax(rs) = {} /\ {"asymmetric"} \X FrictionAsymmetric(rs) = {}
      /\ {"unsourced"} \X FrictionUnsourced(rs) = {} /\ {"id"} \X DuplicateIds(rs) = {}
  BY DEF FrictionReport, LubricationReport
<1>2. /\ FrictionMinMax(rs) = {} /\ FrictionAsymmetric(rs) = {} /\ FrictionUnsourced(rs) = {}
      /\ DuplicateIds(rs) = {}
  BY <1>1, NothingFlagged
<1>3. p \in FrictionPairs /\ p[1] = "overall_friction_coefficient_min"
      /\ p[2] = "overall_friction_coefficient_max"
  BY DEF FrictionPairs
<1>4. ~ Inverted(low, high) /\ (low = Null <=> high = Null)
  BY <1>2, <1>3 DEF FrictionMinMax, FrictionAsymmetric, Where
<1>5. ASSUME HasOverall(r)
      PROVE  Low(r) \in Int /\ High(r) \in Int /\ Low(r) <= High(r)
  <2>1. Low(r) = low /\ High(r) = high /\ low # Null /\ high # Null
    BY <1>5 DEF HasOverall, Pair, Low, High, Get
  <2>2. low \in Int /\ high \in Int
    BY <2>1 DEF Numeric, IsNumber
  <2>3. QED
    BY <1>4, <2>1, <2>2 DEF Inverted, IsNumber
<1>6. ASSUME low # Null \/ high # Null
      PROVE  HasOverall(r) /\ ~ Empty(Get(r, "source_reference"))
  <2>1. {"overall_friction_coefficient_min", "overall_friction_coefficient_max"}
            \subseteq SourcedFields
    <3>1. p \in FrictionPairs \ {<<"friction_coefficient_min", "friction_coefficient_max">>}
      BY <1>3
    <3>2. {p[1], p[2]} \subseteq
             Ends(FrictionPairs \ {<<"friction_coefficient_min", "friction_coefficient_max">>})
      BY <3>1 DEF Ends
    <3>3. QED
      BY <1>3, <3>2 DEF SourcedFields
  <2>2. ~ Empty(Get(r, "source_reference"))
    BY <1>2, <1>6, <2>1 DEF FrictionUnsourced, Where
  <2>3. HasOverall(r)
    BY <1>4, <1>6 DEF HasOverall, Pair
  <2>4. QED
    BY <2>2, <2>3
<1>7. QED
  BY <1>2, <1>5, <1>6

LEMMA ConditionsAreRecords ==
    ASSUME FilesHold
    PROVE  /\ IsRecords(Conditions(disk))
           /\ Numeric(Conditions(disk), {"overall_friction_coefficient_min",
                                         "overall_friction_coefficient_max"})
<1>1. "friction condition library" \in Keys /\ "friction condition library" \in Files
  BY LibraryAssumption DEF Files
<1>2. IsFile("friction condition library", disk["friction condition library"])
  BY <1>1 DEF FilesHold
<1>3. QED
  BY <1>1, <1>2 DEF IsFile, Conditions

LEMMA AcceptedUnfolded ==
    ASSUME FrictionAccepted
    PROVE  /\ FrictionReport(Conditions(disk)) = {}
           /\ Dangling(Conditions(disk), "coating_id", CoatingIds(disk)) = {}
           /\ Dangling(Conditions(disk), "lubricant_id", LubricantIds(disk)) = {}
BY DEF FrictionAccepted, Conditions, CoatingIds, LubricantIds

(* The estimate of a condition that is not refused. *)
LEMMA EstimateUnfolded ==
    ASSUME NEW lib, NEW id, NEW r, r = ById(Conditions(lib), id), Refusal(lib, id) = Null,
           HasOverall(r)
    PROVE  LET reply == FrictionReadiness(lib, id, FALSE, FALSE) IN
           /\ reply.mode = "mode_a_combined_estimate"
           /\ reply.scenarios = <<Low(r), Low(r) + High(r), High(r)>>
BY DEF FrictionReadiness

LEMMA MiddleOfRange ==
    ASSUME NEW low \in Int, NEW high \in Int, low <= high,
           NEW s, s = <<low, low + high, high>>
    PROVE  2 * s[1] <= s[2] /\ s[2] <= 2 * s[3]
<1>1. s[1] = low /\ s[2] = low + high /\ s[3] = high
  OBVIOUS
<1>2. QED
  BY <1>1

LEMMA AcceptedAreAnswered == FilesHold => AcceptedConditionsAnswer
<1> DEFINE rs == Conditions(disk)
<1> SUFFICES ASSUME FilesHold, FrictionAccepted, NEW i \in DOMAIN rs,
                    Get(rs[i], "id") # Null,
                    \E f \in {"overall_friction_coefficient_min",
                              "overall_friction_coefficient_max"} : Get(rs[i], f) # Null,
                    NEW id, id = rs[i]["id"],
                    NEW reply, reply = FrictionReadiness(disk, id, FALSE, FALSE)
             PROVE  /\ Refusal(disk, id) = Null
                    /\ reply.mode = "mode_a_combined_estimate"
                    /\ 2 * reply.scenarios[1] <= reply.scenarios[2]
                    /\ reply.scenarios[2] <= 2 * reply.scenarios[3]
  BY DEF AcceptedConditionsAnswer, Conditions
<1>1. IsRecords(rs)
      /\ Numeric(rs, {"overall_friction_coefficient_min", "overall_friction_coefficient_max"})
  BY ConditionsAreRecords
<1>2. /\ HasOverall(rs[i]) /\ ~ Empty(Get(rs[i], "source_reference")) /\ DuplicateIds(rs) = {}
      /\ Low(rs[i]) \in Int /\ High(rs[i]) \in Int /\ Low(rs[i]) <= High(rs[i])
  BY <1>1, AcceptedUnfolded, AcceptedRange
<1>3. id = Get(rs[i], "id") /\ id # Null
  BY DEF Get
<1>4. ById(rs, id) = rs[i] /\ rs[i] # Null
  BY <1>1, <1>2, <1>3, FoundById DEF IsRecords
<1>5. /\ Dangling(<<rs[i]>>, "coating_id", CoatingIds(disk)) = {}
      /\ Dangling(<<rs[i]>>, "lubricant_id", LubricantIds(disk)) = {}
  BY AcceptedUnfolded, NothingDangles
<1>6. Refusal(disk, id) = Null
  BY <1>2, <1>4, <1>5, RefusalUnfolded
<1>7. /\ reply.mode = "mode_a_combined_estimate"
      /\ reply.scenarios = <<Low(rs[i]), Low(rs[i]) + High(rs[i]), High(rs[i])>>
  BY <1>2, <1>4, <1>6, EstimateUnfolded
<1>8. QED
  BY <1>2, <1>6, <1>7, MiddleOfRange

(* How two ranges are said to lie. *)
LEMMA RangesCompared ==
    ASSUME NEW lib, NEW a, NEW b, Refusal(lib, a) = Null, Refusal(lib, b) = Null,
           NEW r, r = ById(Conditions(lib), a), NEW s, s = ById(Conditions(lib), b)
    PROVE  Comparison(lib, a, b).range =
              IF ~HasOverall(r) \/ ~HasOverall(s) THEN "not_comparable"
              ELSE IF <<Low(r), High(r)>> = <<Low(s), High(s)>> THEN "identical"
              ELSE IF High(r) < Low(s) THEN "a_lower"
              ELSE IF High(s) < Low(r) THEN "b_lower" ELSE "overlapping"
BY DEF Comparison

LEMMA RangesOneWay ==
    ASSUME NEW l \in Int, NEW h \in Int, NEW m \in Int, NEW k \in Int, l <= h, m <= k
    PROVE  (<<l, h>> # <<m, k>> /\ h < m)
               <=> (<<m, k>> # <<l, h>> /\ ~ (k < l) /\ h < m)
OBVIOUS

LEMMA ComparisonsDoAgree == FilesHold => ComparisonsAgree
<1> DEFINE rs == Conditions(disk)
<1> SUFFICES ASSUME FilesHold, FrictionAccepted, NEW i \in DOMAIN rs, NEW j \in DOMAIN rs,
                    Refusal(disk, rs[i]["id"]) = Null, Refusal(disk, rs[j]["id"]) = Null
             PROVE  Comparison(disk, rs[i]["id"], rs[j]["id"]).range = "a_lower"
                    <=> Comparison(disk, rs[j]["id"], rs[i]["id"]).range = "b_lower"
  BY DEF ComparisonsAgree, Conditions
<1> DEFINE a == rs[i]["id"]
           b == rs[j]["id"]
           r == ById(rs, a)
           s == ById(rs, b)
<1>1. IsRecords(rs)
      /\ Numeric(rs, {"overall_friction_coefficient_min", "overall_friction_coefficient_max"})
  BY ConditionsAreRecords
<1>2. r # Null /\ s # Null
  BY RefusalUnfolded
<1>3. \A t \in {r, s} : HasOverall(t) => Low(t) \in Int /\ High(t) \in Int /\ Low(t) <= High(t)
  <2>1. PICK k \in DOMAIN rs : r = rs[k]
    BY <1>1, <1>2, ByIdIsRecord
  <2>2. PICK l \in DOMAIN rs : s = rs[l]
    BY <1>1, <1>2, ByIdIsRecord
  <2>3. QED
    BY <1>1, <2>1, <2>2, AcceptedUnfolded, AcceptedRange
<1>4. /\ Comparison(disk, a, b).range =
              IF ~HasOverall(r) \/ ~HasOverall(s) THEN "not_comparable"
              ELSE IF <<Low(r), High(r)>> = <<Low(s), High(s)>> THEN "identical"
              ELSE IF High(r) < Low(s) THEN "a_lower"
              ELSE IF High(s) < Low(r) THEN "b_lower" ELSE "overlapping"
      /\ Comparison(disk, b, a).range =
              IF ~HasOverall(s) \/ ~HasOverall(r) THEN "not_comparable"
              ELSE IF <<Low(s), High(s)>> = <<Low(r), High(r)>> THEN "identical"
              ELSE IF High(s) < Low(r) THEN "a_lower"
              ELSE IF High(r) < Low(s) THEN "b_lower" ELSE "overlapping"
  BY RangesCompared
<1>5. CASE HasOverall(r) /\ HasOverall(s)
  <2>1. (<<Low(r), High(r)>> # <<Low(s), High(s)>> /\ High(r) < Low(s))
            <=> (/\ <<Low(s), High(s)>> # <<Low(r), High(r)>> /\ ~ (High(s) < Low(r))
                 /\ High(r) < Low(s))
    BY <1>3, <1>5, RangesOneWay
  <2>2. QED
    BY <1>4, <1>5, <2>1
<1>6. CASE ~ (HasOverall(r) /\ HasOverall(s))
  BY <1>4, <1>6
<1>7. QED
  BY <1>5, <1>6

-----------------------------------------------------------------------------
(* The ranking of materials.                                               *)

(* Places counted by what comes before are all taken, and are in the order *)
(* that they count. *)
LEMMA RankedInOrder ==
    ASSUME NEW S, IsFiniteSet(S), NEW Before,
           \A x \in S : <<x, x>> \notin Before,
           \A x, y, z \in S : <<x, y>> \in Before /\ <<y, z>> \in Before => <<x, z>> \in Before,
           \A x, y \in S : x # y => <<x, y>> \in Before \/ <<y, x>> \in Before,
           NEW place, place = [i \in S |-> Cardinality({j \in S : <<j, i>> \in Before}) + 1]
    PROVE  /\ \A k \in 1..Cardinality(S) : \E i \in S : place[i] = k
           /\ \A i, j \in S : <<i, j>> \in Before => place[i] < place[j]
<1> DEFINE N == Cardinality(S)
           Above(i) == {j \in S : <<j, i>> \in Before}
<1>1. N \in Nat
  BY FS_CardinalityType
<1>2. ASSUME NEW i \in S PROVE IsFiniteSet(Above(i)) /\ Cardinality(Above(i)) \in 0..(N - 1)
  <2>1. Above(i) \in SUBSET (S \ {i})
    BY <1>2
  <2>2. IsFiniteSet(S \ {i}) /\ Cardinality(S \ {i}) = N - 1
    BY <1>2, FS_RemoveElement
  <2> HIDE DEF Above, N
  <2>3. IsFiniteSet(Above(i)) /\ Cardinality(Above(i)) <= N - 1
    BY <2>1, <2>2, FS_Subset
  <2>4. Cardinality(Above(i)) \in Nat
    BY <2>3, FS_CardinalityType
  <2>5. QED
    BY <1>1, <2>3, <2>4
<1>3. \A i \in S : /\ place[i] = Cardinality(Above(i)) + 1 /\ place[i] \in 1..N
                    /\ place[i] \in Int /\ Cardinality(Above(i)) \in Int
  <2>1. ASSUME NEW i \in S
        PROVE  /\ place[i] = Cardinality(Above(i)) + 1 /\ place[i] \in 1..N
               /\ place[i] \in Int /\ Cardinality(Above(i)) \in Int
    <3>1. place[i] = Cardinality(Above(i)) + 1
      BY <2>1
    <3>2. Cardinality(Above(i)) \in 0..(N - 1)
      BY <1>2, <2>1
    <3> HIDE DEF Above, N
    <3>3. QED
      BY <1>1, <3>1, <3>2
  <2>2. QED
    BY <2>1
<1> HIDE DEF N
<1>4. ASSUME NEW i \in S, NEW j \in S, <<i, j>> \in Before PROVE place[i] < place[j]
  <2>1. Above(i) \in SUBSET Above(j) /\ i \in Above(j) /\ i \notin Above(i)
    BY <1>4
  <2> HIDE DEF Above
  <2>2. Cardinality(Above(i)) <= Cardinality(Above(j))
        /\ Cardinality(Above(i)) # Cardinality(Above(j))
    BY <1>2, <2>1, FS_Subset
  <2>3. /\ Cardinality(Above(i)) \in Int /\ Cardinality(Above(j)) \in Int
        /\ place[i] = Cardinality(Above(i)) + 1 /\ place[j] = Cardinality(Above(j)) + 1
    BY <1>3
  <2>4. \A u, v \in Int : u <= v /\ u # v => u + 1 < v + 1
    OBVIOUS
  <2>5. Cardinality(Above(i)) + 1 < Cardinality(Above(j)) + 1
    BY <2>2, <2>3, <2>4
  <2>6. QED
    BY <2>3, <2>5, Zenon
<1>5. place \in Injection(S, 1..N)
  <2>1. place \in [S -> 1..N]
    BY <1>3
  <2>2. ASSUME NEW i \in S, NEW j \in S, place[i] = place[j] PROVE i = j
    <3>1. place[i] \in Int /\ place[j] \in Int
      BY <1>3
    <3>2. ~ (place[i] < place[j]) /\ ~ (place[j] < place[i])
      BY <2>2, <3>1
    <3>3. QED
      BY <1>4, <3>2
  <2>3. QED
    BY <2>1, <2>2 DEF Injection, IsInjective
<1>6. place \in Surjection(S, 1..N)
  <2>1. IsFiniteSet(1..N) /\ Cardinality(1..N) = N
    BY <1>1, FS_Interval
  <2>2. Cardinality(S) = Cardinality(1..N)
    BY <2>1 DEF N
  <2>3. QED
    BY <1>5, <2>1, <2>2, FS_Injection
<1>7. QED
  BY <1>4, <1>6 DEF Surjection, N

(* Fractions, compared by their cross products. *)
LEMMA FractionsChain ==
    ASSUME NEW a \in Int, NEW b \in Int, NEW c \in Int, NEW d \in Int, NEW e \in Int,
           NEW f \in Int, b > 0, d > 0, f > 0
    PROVE  /\ a * d <= c * b /\ c * f <= e * d => a * f <= e * b
           /\ a * d <= c * b /\ c * f < e * d => a * f < e * b
           /\ a * d < c * b /\ c * f <= e * d => a * f < e * b
<1>1. a * d <= c * b => (a * f) * d <= (c * f) * b
  <2>1. a * d <= c * b => (a * d) * f <= (c * b) * f
    OBVIOUS
  <2>2. QED
    BY <2>1
<1>2. a * d < c * b => (a * f) * d < (c * f) * b
  <2>1. a * d < c * b => (a * d) * f < (c * b) * f
    OBVIOUS
  <2>2. QED
    BY <2>1
<1>3. c * f <= e * d => (c * f) * b <= (e * b) * d
  <2>1. c * f <= e * d => (c * f) * b <= (e * d) * b
    OBVIOUS
  <2>2. QED
    BY <2>1
<1>4. c * f < e * d => (c * f) * b < (e * b) * d
  <2>1. c * f < e * d => (c * f) * b < (e * d) * b
    OBVIOUS
  <2>2. QED
    BY <2>1
<1>5. \A u, v \in Int : (u * d <= v * d => u <= v) /\ (u * d < v * d => u < v)
  OBVIOUS
<1>6. a * f \in Int /\ e * b \in Int /\ c * f \in Int
  OBVIOUS
<1>7. /\ (a * f) * d \in Int /\ (c * f) * b \in Int /\ (e * b) * d \in Int
  OBVIOUS
<1>8. /\ a * d <= c * b /\ c * f <= e * d => (a * f) * d <= (e * b) * d
      /\ a * d <= c * b /\ c * f < e * d => (a * f) * d < (e * b) * d
      /\ a * d < c * b /\ c * f <= e * d => (a * f) * d < (e * b) * d
  BY <1>1, <1>2, <1>3, <1>4, <1>7
<1>9. QED
  BY <1>5, <1>6, <1>8

(* One of three, or of fewer, is the least. *)
LEMMA LeastOfThree ==
    ASSUME NEW a, NEW b, NEW c, NEW P \in SUBSET {a, b, c}, P # {}, NEW Le,
           \A f, g \in P : <<f, g>> \in Le \/ <<g, f>> \in Le,
           \A f, g, h \in P : <<f, g>> \in Le /\ <<g, h>> \in Le => <<f, h>> \in Le
    PROVE  \E w \in P : \A f \in P : <<w, f>> \in Le
<1>1. \A f, g \in P : \E w \in {f, g} : <<w, f>> \in Le /\ <<w, g>> \in Le
  OBVIOUS
<1>2. \A f, g, h \in P :
         \E w \in {f, g, h} : <<w, f>> \in Le /\ <<w, g>> \in Le /\ <<w, h>> \in Le
  <2>1. TAKE f, g, h \in P
  <2>2. PICK v \in {f, g} : <<v, f>> \in Le /\ <<v, g>> \in Le
    BY <1>1
  <2>3. PICK w \in {v, h} : <<w, v>> \in Le /\ <<w, h>> \in Le
    BY <1>1, <2>2
  <2>4. <<w, f>> \in Le /\ <<w, g>> \in Le
    BY <2>2, <2>3
  <2>5. QED
    BY <2>2, <2>3, <2>4
<1>3. \E f, g, h \in P : P = {f, g, h}
  <2>1. PICK z \in P : TRUE
    OBVIOUS
  <2> DEFINE In(x) == IF x \in P THEN x ELSE z
  <2>2. In(a) \in P /\ In(b) \in P /\ In(c) \in P
    BY <2>1
  <2>3. P = {In(a), In(b), In(c)}
    BY <2>1
  <2>4. QED
    BY <2>2, <2>3
<1>4. QED
  BY <1>2, <1>3

(* What a requirement and the materials that match it are.                 *)
Bounded(q) == {f \in DOMAIN q : q[f] > 0}

Valued(rs, S, q) ==
    /\ S \in SUBSET Nat
    /\ DOMAIN q \subseteq RequirementFields /\ \A f \in DOMAIN q : q[f] \in Nat
    /\ Bounded(q) # {}
    /\ \A i \in S : \A f \in DOMAIN q : rs[i][f] \in Int
    /\ \A i \in S : rs[i]["id"] \in Int

IsWorst(r, q, w) == \A f \in Bounded(q) : r[w] * q[f] <= r[f] * q[w]

(* The field with the least margin of a material.                          *)
Worst(r, q) == CHOOSE w \in Bounded(q) : IsWorst(r, q, w)

LEMMA LeastMargin ==
    ASSUME NEW rs, NEW S, NEW q, Valued(rs, S, q), NEW i \in S
    PROVE  Worst(rs[i], q) \in Bounded(q) /\ IsWorst(rs[i], q, Worst(rs[i], q))
<1> DEFINE P == Bounded(q)
           Le == {p \in P \X P : rs[i][p[1]] * q[p[2]] <= rs[i][p[2]] * q[p[1]]}
<1>1. P \in SUBSET {"rp02_mpa", "rm_mpa", "elastic_modulus_mpa"} /\ P # {}
  BY DEF Valued, Bounded, RequirementFields
<1>2. \A f \in P : rs[i][f] \in Int /\ q[f] \in Int /\ q[f] > 0
  BY DEF Valued, Bounded
<1>3. \A f, g \in P : <<f, g>> \in Le <=> rs[i][f] * q[g] <= rs[i][g] * q[f]
  BY Zenon
<1> HIDE DEF P, Le
<1>4. \A f, g \in P : <<f, g>> \in Le \/ <<g, f>> \in Le
  <2>1. TAKE f, g \in P
  <2>2. rs[i][f] * q[g] \in Int /\ rs[i][g] * q[f] \in Int
    BY <1>2
  <2>3. rs[i][f] * q[g] <= rs[i][g] * q[f] \/ rs[i][g] * q[f] <= rs[i][f] * q[g]
    BY <2>2
  <2>4. QED
    BY <1>3, <2>3
<1>5. \A f, g, h \in P : <<f, g>> \in Le /\ <<g, h>> \in Le => <<f, h>> \in Le
  <2>1. TAKE f, g, h \in P
  <2>2. HAVE <<f, g>> \in Le /\ <<g, h>> \in Le
  <2>3. rs[i][f] * q[g] <= rs[i][g] * q[f] /\ rs[i][g] * q[h] <= rs[i][h] * q[g]
    BY <1>3, <2>2
  <2>4. rs[i][f] * q[h] <= rs[i][h] * q[f]
    BY <1>2, <2>3, FractionsChain
  <2>5. QED
    BY <1>3, <2>4
<1>6. \E w \in P : \A f \in P : <<w, f>> \in Le
  BY <1>1, <1>4, <1>5, LeastOfThree
<1>7. \E w \in Bounded(q) : IsWorst(rs[i], q, w)
  BY <1>3, <1>6 DEF P, IsWorst
<1>8. QED
  BY <1>7 DEF Worst

(* A margin is higher if the least of one record's is above that of the    *)
(* other's. *)
LEMMA HigherIsAbove ==
    ASSUME NEW rs, NEW S, NEW q, Valued(rs, S, q), NEW i \in S, NEW j \in S,
           NEW v, v = Worst(rs[i], q), NEW w, w = Worst(rs[j], q)
    PROVE  HigherMargin(rs[i], rs[j], q) <=> rs[j][w] * q[v] < rs[i][v] * q[w]
<1> DEFINE P == Bounded(q)
<1>1. /\ v \in P /\ IsWorst(rs[i], q, v)
      /\ w \in P /\ IsWorst(rs[j], q, w)
  BY LeastMargin
<1>2. \A f \in P : rs[i][f] \in Int /\ rs[j][f] \in Int /\ q[f] \in Int /\ q[f] > 0
  BY DEF Valued, Bounded
<1>3. HigherMargin(rs[i], rs[j], q)
          <=> \E g \in P : \A f \in P : rs[j][g] * q[f] < rs[i][f] * q[g]
  BY DEF HigherMargin, MarginFields, LessMargin, Bounded
<1> HIDE DEF P
<1>4. ASSUME NEW g \in P, \A f \in P : rs[j][g] * q[f] < rs[i][f] * q[g]
      PROVE  rs[j][w] * q[v] < rs[i][v] * q[w]
  <2>1. rs[j][w] * q[g] <= rs[j][g] * q[w]
    BY <1>1, <1>4 DEF IsWorst, P
  <2>2. rs[j][g] * q[v] < rs[i][v] * q[g]
    BY <1>1, <1>4
  <2>3. QED
    BY <1>1, <1>2, <1>4, <2>1, <2>2, FractionsChain
<1>5. ASSUME rs[j][w] * q[v] < rs[i][v] * q[w]
      PROVE  \A f \in P : rs[j][w] * q[f] < rs[i][f] * q[w]
  <2>1. TAKE f \in P
  <2>2. rs[i][v] * q[f] <= rs[i][f] * q[v]
    BY <1>1, <2>1 DEF IsWorst, P
  <2>3. QED
    BY <1>1, <1>2, <1>5, <2>1, <2>2, FractionsChain
<1>6. QED
  BY <1>1, <1>3, <1>4, <1>5

(* The margins of matched materials are ordered, and so are materials of   *)
(* the same margin, by id and position. *)
LEMMA MarginsOrdered ==
    ASSUME NEW rs, NEW S, NEW q, Valued(rs, S, q), NEW x \in S, NEW y \in S, NEW z \in S
    PROVE  /\ ~ HigherMargin(rs[x], rs[x], q)
           /\ HigherMargin(rs[x], rs[y], q) => ~ HigherMargin(rs[y], rs[x], q)
           /\ HigherMargin(rs[x], rs[y], q) /\ ~ HigherMargin(rs[z], rs[y], q)
                 => HigherMargin(rs[x], rs[z], q)
           /\ ~ HigherMargin(rs[y], rs[x], q) /\ HigherMargin(rs[y], rs[z], q)
                 => HigherMargin(rs[x], rs[z], q)
           /\ ~ HigherMargin(rs[y], rs[x], q) /\ ~ HigherMargin(rs[z], rs[y], q)
                 => ~ HigherMargin(rs[z], rs[x], q)
<1> DEFINE W(i) == Worst(rs[i], q)
           a(i) == rs[i][W(i)]
           b(i) == q[W(i)]
           H(i, j) == HigherMargin(rs[i], rs[j], q)
<1>1. \A i \in S : a(i) \in Int /\ b(i) \in Int /\ b(i) > 0
  <2>1. \A i \in S : W(i) \in Bounded(q)
    BY LeastMargin
  <2>2. QED
    BY <2>1 DEF Valued, Bounded
<1>2. \A i, j \in S : H(i, j) <=> a(j) * b(i) < a(i) * b(j)
  BY HigherIsAbove
<1> HIDE DEF W, a, b, H
<1>3. \A i, j \in S : a(j) * b(i) \in Int /\ a(i) * b(j) \in Int
  BY <1>1
<1>4. \A i, j \in S : ~ H(i, j) <=> a(i) * b(j) <= a(j) * b(i)
  BY <1>2, <1>3
<1>5. ~ H(x, x) /\ (H(x, y) => ~ H(y, x))
  BY <1>2, <1>3
<1>6. ASSUME H(x, y), ~ H(z, y) PROVE H(x, z)
  <2>1. a(y) * b(x) < a(x) * b(y) /\ a(z) * b(y) <= a(y) * b(z)
    BY <1>2, <1>4, <1>6
  <2>2. a(z) * b(x) < a(x) * b(z)
    BY <1>1, <2>1, FractionsChain
  <2>3. QED
    BY <1>2, <2>2
<1>7. ASSUME ~ H(y, x), H(y, z) PROVE H(x, z)
  <2>1. a(y) * b(x) <= a(x) * b(y) /\ a(z) * b(y) < a(y) * b(z)
    BY <1>2, <1>4, <1>7
  <2>2. a(z) * b(x) < a(x) * b(z)
    BY <1>1, <2>1, FractionsChain
  <2>3. QED
    BY <1>2, <2>2
<1>8. ASSUME ~ H(y, x), ~ H(z, y) PROVE ~ H(z, x)
  <2>1. a(y) * b(x) <= a(x) * b(y) /\ a(z) * b(y) <= a(y) * b(z)
    BY <1>4, <1>8
  <2>2. a(z) * b(x) <= a(x) * b(z)
    BY <1>1, <2>1, FractionsChain
  <2>3. QED
    BY <1>4, <2>2
<1>9. QED
  BY <1>5, <1>6, <1>7, <1>8 DEF H

LEMMA BeforeUnfolded ==
    ASSUME NEW rs, NEW S, NEW q, Valued(rs, S, q), NEW i \in S, NEW j \in S
    PROVE  MaterialBefore(rs, q, i, j)
               <=> \/ HigherMargin(rs[i], rs[j], q)
                   \/ /\ ~HigherMargin(rs[j], rs[i], q)
                      /\ rs[i]["id"] < rs[j]["id"] \/ (rs[i]["id"] = rs[j]["id"] /\ i < j)
<1>1. ~ (\A f \in DOMAIN q : q[f] = 0)
  BY DEF Valued, Bounded
<1>2. QED
  BY <1>1 DEF MaterialBefore

(* The ranking is a strict total order of the materials that match. *)
LEMMA BeforeIsOrder ==
    ASSUME NEW rs, NEW S, NEW q, Valued(rs, S, q), NEW x \in S, NEW y \in S, NEW z \in S
    PROVE  /\ ~ MaterialBefore(rs, q, x, x)
           /\ MaterialBefore(rs, q, x, y) /\ MaterialBefore(rs, q, y, z)
                 => MaterialBefore(rs, q, x, z)
           /\ x # y => MaterialBefore(rs, q, x, y) \/ MaterialBefore(rs, q, y, x)
<1> DEFINE H(i, j) == HigherMargin(rs[i], rs[j], q)
           id(i) == rs[i]["id"]
           Then(i, j) == id(i) < id(j) \/ (id(i) = id(j) /\ i < j)
<1>1. \A i, j \in S : MaterialBefore(rs, q, i, j) <=> H(i, j) \/ (~ H(j, i) /\ Then(i, j))
  BY BeforeUnfolded
<1>2. /\ ~ H(x, x) /\ (H(x, y) => ~ H(y, x))
      /\ H(x, y) /\ ~ H(z, y) => H(x, z)
      /\ ~ H(y, x) /\ H(y, z) => H(x, z)
      /\ ~ H(y, x) /\ ~ H(z, y) => ~ H(z, x)
      /\ (H(y, z) => ~ H(z, y)) /\ (H(x, z) => ~ H(z, x))
  BY MarginsOrdered
<1>3. /\ ~ Then(x, x) /\ (Then(x, y) /\ Then(y, z) => Then(x, z))
      /\ x # y => Then(x, y) \/ Then(y, x)
  <2>1. /\ x \in Nat /\ y \in Nat /\ z \in Nat
        /\ id(x) \in Int /\ id(y) \in Int /\ id(z) \in Int
    BY DEF Valued
  <2> HIDE DEF id
  <2>2. QED
    BY <2>1
<1> HIDE DEF H, Then
<1>4. ~ MaterialBefore(rs, q, x, x)
  BY <1>1, <1>2, <1>3
<1>5. MaterialBefore(rs, q, x, y) /\ MaterialBefore(rs, q, y, z) => MaterialBefore(rs, q, x, z)
  BY <1>1, <1>2, <1>3
<1>6. x # y => MaterialBefore(rs, q, x, y) \/ MaterialBefore(rs, q, y, x)
  BY <1>1, <1>2, <1>3
<1>7. QED
  BY <1>4, <1>5, <1>6

(* What is better in every required field has the higher margin. *)
LEMMA DominantIsBefore ==
    ASSUME NEW rs, NEW S, NEW q, Valued(rs, S, q), NEW i \in S, NEW j \in S,
           \A f \in DOMAIN q : rs[i][f] > rs[j][f]
    PROVE  MaterialBefore(rs, q, i, j)
<1> DEFINE v == Worst(rs[i], q)
           w == Worst(rs[j], q)
<1>1. v \in Bounded(q) /\ w \in Bounded(q) /\ IsWorst(rs[j], q, w)
  BY LeastMargin
<1>2. rs[j][w] * q[v] <= rs[j][v] * q[w]
  BY <1>1 DEF IsWorst
<1>3. /\ rs[j][w] \in Int /\ rs[j][v] \in Int /\ rs[i][v] \in Int /\ rs[j][v] < rs[i][v]
      /\ q[v] \in Int /\ q[w] \in Int /\ q[v] > 0 /\ q[w] > 0
  BY <1>1 DEF Valued, Bounded
<1> HIDE DEF v, w
<1>4. rs[j][v] * q[v] < rs[i][v] * q[v]
  BY <1>3
<1>5. rs[j][w] * q[v] < rs[i][v] * q[w]
  BY <1>2, <1>3, <1>4, FractionsChain
<1>6. HigherMargin(rs[i], rs[j], q)
  BY <1>5, HigherIsAbove DEF v, w
<1>7. QED
  BY <1>6, BeforeUnfolded

Ranking(rs, S, q) ==
    [n \in 1..Cardinality(S) |->
        CHOOSE i \in S : Cardinality({j \in S : MaterialBefore(rs, q, j, i)}) + 1 = n]

Matched(lib, q, family) ==
    IF MaterialLevel(Materials(lib)) = "data_insufficient" THEN {}
    ELSE MatchMaterials(lib, q, family)

LEMMA CandidatesUnfolded ==
    ASSUME NEW lib, NEW q, NEW family
    PROVE  RecommendMaterials(lib, q, family).candidates
               = Ranking(Materials(lib), Matched(lib, q, family), q)
BY DEF RecommendMaterials, Ranking, Matched

(* Of the ranked materials, what comes before another has the lower place. *)
LEMMA RankedMaterials ==
    ASSUME NEW rs, NEW S, NEW q, Valued(rs, S, q), IsFiniteSet(S), NEW ranked,
           ranked = Ranking(rs, S, q),
           NEW m \in DOMAIN ranked, NEW n \in DOMAIN ranked
    PROVE  /\ ranked[m] \in S /\ ranked[n] \in S
           /\ MaterialBefore(rs, q, ranked[m], ranked[n]) => m < n
<1> DEFINE Before == {p \in S \X S : MaterialBefore(rs, q, p[1], p[2])}
           place == [i \in S |-> Cardinality({j \in S : <<j, i>> \in Before}) + 1]
           Place(i) == Cardinality({j \in S : MaterialBefore(rs, q, j, i)}) + 1
<1>1. \A x, y \in S : <<x, y>> \in Before <=> MaterialBefore(rs, q, x, y)
  BY Zenon
<1>2. /\ \A x \in S : <<x, x>> \notin Before
      /\ \A x, y, z \in S : <<x, y>> \in Before /\ <<y, z>> \in Before => <<x, z>> \in Before
      /\ \A x, y \in S : x # y => <<x, y>> \in Before \/ <<y, x>> \in Before
  <2> HIDE DEF Before
  <2>1. QED
    BY <1>1, BeforeIsOrder
<1>3. /\ \A k \in 1..Cardinality(S) : \E i \in S : place[i] = k
      /\ \A x, y \in S : <<x, y>> \in Before => place[x] < place[y]
  <2> HIDE DEF Before
  <2>1. QED
    BY <1>2, RankedInOrder
<1>4. \A i \in S : place[i] = Place(i)
  <2>1. TAKE i \in S
  <2>2. {j \in S : <<j, i>> \in Before} = {j \in S : MaterialBefore(rs, q, j, i)}
    BY <1>1, <2>1
  <2>3. place[i] = Cardinality({j \in S : <<j, i>> \in Before}) + 1
    BY <2>1
  <2>4. QED
    BY <2>2, <2>3
<1>5. /\ DOMAIN ranked = 1..Cardinality(S)
      /\ \A k \in DOMAIN ranked : ranked[k] = CHOOSE i \in S : Place(i) = k
  BY DEF Ranking
<1> HIDE DEF Before, place, Place
<1>6. \A k \in DOMAIN ranked : ranked[k] \in S /\ Place(ranked[k]) = k
  <2>1. TAKE k \in DOMAIN ranked
  <2>2. \E i \in S : Place(i) = k
    BY <1>3, <1>4, <1>5, <2>1
  <2>3. ranked[k] = CHOOSE i \in S : Place(i) = k
    BY <1>5, <2>1
  <2>4. QED
    BY <2>2, <2>3
<1>7. ASSUME MaterialBefore(rs, q, ranked[m], ranked[n]) PROVE m < n
  <2>1. place[ranked[m]] < place[ranked[n]]
    BY <1>1, <1>3, <1>6, <1>7
  <2>2. place[ranked[m]] = m /\ place[ranked[n]] = n
    BY <1>4, <1>6
  <2>3. QED
    BY <2>1, <2>2
<1>8. QED
  BY <1>6, <1>7

LEMMA MaterialsAreRecords ==
    ASSUME FilesHold
    PROVE  LET rs == Materials(Lib) IN
           /\ rs = Cached("material library") /\ IsRecords(rs) /\ Numeric(rs, RequirementFields)
           /\ \A i \in DOMAIN rs : IsNumber(Get(rs[i], "id"))
<1>1. "material library" \in Keys
  BY LibraryAssumption
<1>2. "bolt classes" \notin Keys /\ "nut classes" \notin Keys /\ "classes" \notin Keys
  BY LibraryAssumption
<1>3. Lib["material library"] = Cached("material library")
  BY <1>1, <1>2 DEF Lib
<1>4. IsFile("material library", Cached("material library"))
  BY <1>1, CachedIsFile
<1>5. QED
  BY <1>1, <1>2, <1>3, <1>4 DEF IsFile, Materials

LEMMA MatchedAreValued ==
    ASSUME NEW lib, NEW rs, rs = Materials(lib), IsRecords(rs), Numeric(rs, RequirementFields),
           \A i \in DOMAIN rs : IsNumber(Get(rs[i], "id")),
           NEW q, DOMAIN q \subseteq RequirementFields, \A f \in DOMAIN q : q[f] \in Nat,
           \E f \in DOMAIN q : q[f] > 0,
           NEW family, NEW S \in SUBSET MatchMaterials(lib, q, family)
    PROVE  Valued(rs, S, q) /\ IsFiniteSet(S)
<1>1. \A i \in S : i \in DOMAIN rs /\ \A f \in DOMAIN q : Get(rs[i], f) # Null
  BY DEF MatchMaterials, Where
<1>2. \A i \in S : \A f \in DOMAIN q : rs[i][f] \in Int
  <2>1. TAKE i \in S
  <2>2. TAKE f \in DOMAIN q
  <2>3. Get(rs[i], f) = rs[i][f] /\ Get(rs[i], f) # Null
    BY <1>1, <2>1, <2>2 DEF Get
  <2>4. QED
    BY <1>1, <2>1, <2>2, <2>3 DEF Numeric, IsNumber
<1>3. \A i \in S : rs[i]["id"] \in Int
  <2>1. \A i \in S : Get(rs[i], "id") \in Int
    BY <1>1 DEF IsNumber
  <2>2. QED
    BY <2>1, NoNumbers DEF Get
<1>4. DOMAIN rs = 1..Len(rs) /\ Len(rs) \in Nat /\ S \in SUBSET DOMAIN rs
  BY <1>1, RecordsAreNumbered
<1>5. IsFiniteSet(S)
  <2>1. IsFiniteSet(1..Len(rs))
    BY <1>4, FS_Interval
  <2>2. QED
    BY <1>4, <2>1, FS_Subset
<1>6. S \in SUBSET Nat /\ Bounded(q) # {}
  BY <1>4 DEF Bounded
<1>7. QED
  BY <1>2, <1>3, <1>5, <1>6 DEF Valued

LEMMA DominantAreFirst == FilesHold /\ AnswerRepeats => DominantMaterialsFirst
<1> DEFINE rs == Cached("material library")
           q == answer.of[1]
           family == answer.of[2]
           ranked == answer.reply.candidates
<1> SUFFICES ASSUME FilesHold, AnswerRepeats, answer.op = "materials",
                    \E f \in DOMAIN q : q[f] > 0,
                    NEW m \in DOMAIN ranked, NEW n \in DOMAIN ranked,
                    \A f \in DOMAIN q : rs[ranked[m]][f] > rs[ranked[n]][f]
             PROVE  m < n
  BY DEF DominantMaterialsFirst
<1> DEFINE S == Matched(Lib, q, family)
<1>1. /\ rs = Materials(Lib) /\ IsRecords(rs) /\ Numeric(rs, RequirementFields)
      /\ \A i \in DOMAIN rs : IsNumber(Get(rs[i], "id"))
  BY MaterialsAreRecords
<1>2. /\ answer.reply = RecommendMaterials(Lib, q, family)
      /\ DOMAIN q \subseteq RequirementFields /\ \A f \in DOMAIN q : q[f] \in Nat
  BY DEF AnswerRepeats
<1>3. ranked = Ranking(rs, S, q)
  BY <1>1, <1>2, CandidatesUnfolded
<1>4. S \in SUBSET MatchMaterials(Lib, q, family)
  BY DEF Matched
<1> HIDE DEF rs, q, family, ranked, S
<1>5. Valued(rs, S, q) /\ IsFiniteSet(S)
  BY <1>1, <1>2, <1>4, MatchedAreValued
<1>6. ranked[m] \in S /\ ranked[n] \in S
  BY <1>3, <1>5, RankedMaterials
<1>7. MaterialBefore(rs, q, ranked[m], ranked[n])
  BY <1>5, <1>6, DominantIsBefore
<1>8. QED
  BY <1>3, <1>5, <1>7, RankedMaterials

(* Advice rests on the records as they are: what the batteries accept is   *)
(* answered, comparisons do not depend on their order, and a material that *)
(* is better in all that is asked for is ranked first, for every content   *)
(* of the files. *)
THEOREM AdviceIsSound == LibrarySpec => []AdviceHolds
<1>1. RegistryInvariant /\ AnswerRepeats => AdviceHolds
  BY AcceptedAreAnswered, ComparisonsDoAgree, DominantAreFirst DEF AdviceHolds, RegistryInvariant
<1>2. QED
  BY <1>1, RegistryInvariantHolds, AnswerRepeatsHolds, PTL

=============================================================================
