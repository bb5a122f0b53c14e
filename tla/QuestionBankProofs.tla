-------------------------- MODULE QuestionBankProofs --------------------------
(***************************************************************************)
(* Any number of overlapping requests about one question, with failing      *)
(* writes, failing transactions, failing compensations and restarts: the    *)
(* JSON file and the database agree, and what is registered stays.         *)
(***************************************************************************)
EXTENDS MCQuestionBank, WellFoundedInduction, SequenceTheorems, TLAPS

-----------------------------------------------------------------------------
(* Positions are well-founded.                                             *)
NatOrder == {p \in Nat \X Nat : p[1] < p[2]}

LEMMA NatOrderWellFounded == IsWellFoundedOn(NatOrder, Nat)
BY NatLessThanWellFounded DEF OpToRel, NatOrder

(* A non-empty set of positions has a last one, and LastOf is it. *)
LEMMA LastOfIsLast ==
    ASSUME NEW n \in Nat, NEW idx \in SUBSET (1..n), idx # {}
    PROVE  LastOf(idx) \in idx /\ \A j \in idx : j <= LastOf(idx)
<1> DEFINE T == {n - i : i \in idx}
<1>1. \A i \in idx : n - i \in Nat /\ n - i \in T
  OBVIOUS
<1>2. T \subseteq Nat /\ T # {}
  BY <1>1
<1>3. PICK x \in T : \A y \in T : <<y, x>> \notin NatOrder
  <2> HIDE DEF T
  <2>1. QED
    BY <1>2, WFMin, NatOrderWellFounded
<1>4. PICK i \in idx : x = n - i
  OBVIOUS
<1>5. ASSUME NEW j \in idx PROVE j <= i
  <2>1. ~ (n - j < n - i)
    BY <1>1, <1>3, <1>4 DEF NatOrder
  <2>2. QED
    BY <2>1
<1>6. QED
  BY <1>5 DEF LastOf

-----------------------------------------------------------------------------
(* The steps at which a request holds the version it is adding.            *)
Holding == {"save", "load", "insert", "compensate"}

-----------------------------------------------------------------------------
(* Types.                                                                  *)

(* What the clauses of RequestsTyped say of one request.                   *)
RequestTyped(w) ==
    /\ pc[w] # "idle" =>
          req[w] \in Requests /\ Permitted(req[w].op, req[w].role)
    /\ pc[w] \in {"fetch", "rows", "commit"} =>
          req[w].op \in DOMAIN Target \cup FlagOps
    /\ pc[w] = "fetch" => req[w].op \in DOMAIN Target
    /\ pc[w] = "rows" => req[w].op \in FlagOps
    /\ pc[w] = "tags" => req[w].op = "tags"
    /\ IsPatch(patch[w])
    /\ pc[w] \in Holding =>
          made[w].version \in Version /\ made[w].content \in ContentRecord
    /\ pc[w] = "commit" =>
          /\ DOMAIN seen[w] \subseteq DOMAIN rows
          /\ seen[w] \in [DOMAIN seen[w] -> Row]
          /\ req[w].op \in DOMAIN Target => req[w].version \in DOMAIN seen[w]

LEMMA RequestsTypedSplits ==
    RequestsTyped <=>
        /\ pc \in [Workers -> PC]
        /\ req \in [Workers -> Requests \cup {NoRequest}]
        /\ DOMAIN patch = Workers /\ DOMAIN seen = Workers
        /\ made \in [Workers -> MadeRecord]
        /\ reply \in [Workers -> [kind : ReplyKind, version : Version \cup {NoVersion}]]
        /\ \A w \in Workers : RequestTyped(w)
BY DEF RequestsTyped, RequestTyped, Holding

(* A request that a step does not touch keeps its types, as the records     *)
(* never go.                                                               *)
LEMMA OtherTyped ==
    ASSUME NEW x \in Workers, RequestTyped(x), DOMAIN rows \subseteq DOMAIN rows',
           pc'[x] = pc[x], req'[x] = req[x], patch'[x] = patch[x],
           made'[x] = made[x], seen'[x] = seen[x]
    PROVE  RequestTyped(x)'
BY DEF RequestTyped

(* A step that answers leaves the requests typed.                          *)
LEMMA FinishTyped ==
    ASSUME RequestsTyped, NEW w \in Workers, NEW k \in ReplyKind,
           NEW v \in Version \cup {NoVersion}, Finish(w, k, v),
           DOMAIN rows \subseteq DOMAIN rows',
           req' \in [Workers -> Requests \cup {NoRequest}],
           \A x \in Workers : x # w => req'[x] = req[x]
    PROVE  RequestsTyped'
<1>1. /\ pc' \in [Workers -> PC] /\ pc'[w] = "idle"
      /\ DOMAIN patch' = Workers /\ DOMAIN seen' = Workers
      /\ patch'[w] = <<>>
      /\ \A x \in Workers : x # w => /\ pc'[x] = pc[x] /\ patch'[x] = patch[x]
                                     /\ made'[x] = made[x] /\ seen'[x] = seen[x]
    BY DEF RequestsTyped, Finish, Goto, PC
<1>2. made' \in [Workers -> MadeRecord]
    BY DEF RequestsTyped, Finish, MadeRecord, NoMade
<1>3. reply' \in [Workers -> [kind : ReplyKind, version : Version \cup {NoVersion}]]
    BY DEF RequestsTyped, Finish, Answer
<1>4. RequestTyped(w)'
    BY <1>1 DEF RequestTyped, Holding, IsPatch
<1>5. \A x \in Workers : RequestTyped(x)'
    BY <1>1, <1>4, RequestsTypedSplits, OtherTyped
<1>6. QED
    BY <1>1, <1>2, <1>3, <1>5, RequestsTypedSplits DEF RequestsTyped, RequestTyped, Holding

(* A step that goes on, with the locals it had or with new ones.            *)
LEMMA GotoTyped ==
    ASSUME RequestsTyped, NEW w \in Workers, NEW step \in PC, Goto(w, step),
           pc[w] # "idle", UNCHANGED <<req, reply>>,
           DOMAIN rows \subseteq DOMAIN rows',
           made' \in [Workers -> MadeRecord],
           DOMAIN patch' = Workers, DOMAIN seen' = Workers,
           \A x \in Workers : x # w =>
               patch'[x] = patch[x] /\ made'[x] = made[x] /\ seen'[x] = seen[x],
           RequestTyped(w)'
    PROVE  RequestsTyped'
<1>1. /\ pc' \in [Workers -> PC]
      /\ \A x \in Workers : x # w => pc'[x] = pc[x] /\ req'[x] = req[x]
    BY DEF RequestsTyped, Goto
<1>2. \A x \in Workers : RequestTyped(x)'
    BY <1>1, RequestsTypedSplits, OtherTyped
<1>3. QED
    BY <1>1, <1>2, RequestsTypedSplits DEF RequestsTyped, RequestTyped, Holding

(* The same, when no local changes.                                        *)
LEMMA PlainGotoTyped ==
    ASSUME RequestsTyped, NEW w \in Workers, NEW step \in PC, Goto(w, step),
           pc[w] \in Holding, step \in Holding,
           UNCHANGED <<req, patch, made, seen, reply>>,
           DOMAIN rows \subseteq DOMAIN rows'
    PROVE  RequestsTyped'
<1>1. RequestTyped(w)
    BY RequestsTypedSplits
<1>2. pc'[w] = step
    BY DEF RequestsTyped, Goto
<1>3. RequestTyped(w)'
    BY <1>1, <1>2 DEF RequestTyped, Holding
<1>4. made' \in [Workers -> MadeRecord] /\ DOMAIN patch' = Workers /\ DOMAIN seen' = Workers
    BY DEF RequestsTyped
<1>5. pc[w] # "idle"
    BY DEF Holding
<1>6. QED
    BY <1>3, <1>4, <1>5, GotoTyped

-----------------------------------------------------------------------------

(* A file with content has a latest version.                               *)
LEMMA LatestIsIn ==
    ASSUME StoresTyped, DOMAIN content # {}
    PROVE  /\ Latest(content) \in DOMAIN content
           /\ content[Latest(content)] \in ContentRecord
<1>1. PICK n \in Version \cup {0} : \A v \in DOMAIN content : v <= n
    BY DEF StoresTyped
<1>2. n \in Nat /\ DOMAIN content \in SUBSET (1 .. n)
    BY <1>1, VersionAssumption DEF StoresTyped
<1>3. Latest(content) \in DOMAIN content
    BY <1>2, LastOfIsLast DEF Latest
<1>4. QED
    BY <1>3 DEF StoresTyped

LEMMA InitTyped == Init => TypeOK
<1> SUFFICES ASSUME Init PROVE TypeOK
    OBVIOUS
<1>1. StoresTyped
    BY DEF Init, StoresTyped
<1>2. RequestsTyped
    BY DEF Init, RequestsTyped, PC, MadeRecord, NoMade, Answer, ReplyKind, IsPatch
<1>3. QED
    BY <1>1, <1>2 DEF TypeOK

LEMMA SameStoresTyped ==
    ASSUME StoresTyped, UNCHANGED <<content, tables>> PROVE StoresTyped'
BY DEF StoresTyped, tables

LEMMA ReceiveTyped ==
    ASSUME TypeOK, NEW w \in Workers, NEW r \in Requests, Receive(w, r)
    PROVE  TypeOK'
<1>1. StoresTyped' /\ DOMAIN rows \subseteq DOMAIN rows'
    BY SameStoresTyped DEF TypeOK, Receive, tables
<1>2. /\ req' \in [Workers -> Requests \cup {NoRequest}] /\ req'[w] = r
      /\ \A x \in Workers : x # w => req'[x] = req[x]
    BY DEF Receive, TypeOK, RequestsTyped
<1>3. CASE Refusal(r) # "none"
  <2>1. Finish(w, Refusal(r), NoVersion)
    BY <1>3 DEF Receive
  <2>2. Refusal(r) \in ReplyKind
    BY DEF Refusal, ReplyKind
  <2>3. QED
    BY <1>1, <1>2, <2>1, <2>2, FinishTyped DEF TypeOK
<1>4. CASE Refusal(r) = "none"
  <2>1. /\ r.op \in CreateOps \cup UpdateOps \cup DOMAIN Target \cup FlagOps
        /\ r.op \in CreateOps => r.version \in Version /\ r.content \in ContentRecord
        /\ r.op = "patch" => IsPatch(r.patch)
    BY RequestsAssumption
  <2>2. Permitted(r.op, r.role)
    BY <1>4 DEF Refusal
  <2>3. /\ pc' = [pc EXCEPT ![w] = FirstStep(r.op)]
        /\ patch' = [patch EXCEPT ![w] = IF r.op = "patch" THEN r.patch ELSE <<>>]
        /\ made' = [made EXCEPT
                      ![w] = IF r.op \in CreateOps
                             THEN [version |-> r.version, content |-> r.content,
                                   base |-> NoVersion]
                             ELSE NoMade]
        /\ reply' = [reply EXCEPT ![w] = Answer("none", NoVersion)]
        /\ seen' = seen
    BY <1>4 DEF Receive, Goto
  <2>4. /\ pc' \in [Workers -> PC] /\ pc'[w] = FirstStep(r.op)
        /\ DOMAIN patch' = Workers /\ DOMAIN seen' = Workers
        /\ patch'[w] = IF r.op = "patch" THEN r.patch ELSE <<>>
        /\ \A x \in Workers : x # w => /\ pc'[x] = pc[x] /\ patch'[x] = patch[x]
                                       /\ made'[x] = made[x] /\ seen'[x] = seen[x]
    BY <2>3 DEF TypeOK, RequestsTyped, PC, FirstStep
  <2>5. made' \in [Workers -> MadeRecord]
    BY <2>1, <2>3 DEF TypeOK, RequestsTyped, MadeRecord, NoMade
  <2>6. reply' \in [Workers -> [kind : ReplyKind, version : Version \cup {NoVersion}]]
    BY <2>3 DEF TypeOK, RequestsTyped, Answer, ReplyKind
  <2>7. IsPatch(patch'[w])
    BY <2>1, <2>4 DEF IsPatch
  <2>8. pc'[w] \in Holding => r.op \in CreateOps
    BY <2>4 DEF FirstStep, Holding
  <2>9. r.op \in CreateOps => made'[w] = [version |-> r.version, content |-> r.content,
                                          base |-> NoVersion]
    BY <2>3 DEF TypeOK, RequestsTyped
  <2>10. RequestTyped(w)'
    <3>1. pc'[w] \in {"fetch", "rows"} => r.op \in DOMAIN Target \cup FlagOps
      BY <2>1, <2>4 DEF FirstStep, UpdateOps
    <3>2. /\ pc'[w] = "fetch" => r.op \in DOMAIN Target
          /\ pc'[w] = "rows" => r.op \in FlagOps
          /\ pc'[w] = "tags" => r.op = "tags"
          /\ pc'[w] # "commit"
      BY <2>1, <2>4 DEF FirstStep, UpdateOps
    <3>3. pc'[w] \in Holding =>
              made'[w].version \in Version /\ made'[w].content \in ContentRecord
      BY <2>1, <2>8, <2>9
    <3>4. QED
      BY <1>2, <2>2, <2>7, <3>1, <3>2, <3>3 DEF RequestTyped
  <2>11. \A x \in Workers : RequestTyped(x)'
    BY <1>1, <1>2, <2>4, <2>10, RequestsTypedSplits, OtherTyped DEF TypeOK
  <2>12. RequestsTyped'
    BY <1>2, <2>4, <2>5, <2>6, <2>11, RequestsTypedSplits DEF RequestsTyped, RequestTyped, Holding
  <2>13. QED
    BY <1>1, <2>12 DEF TypeOK
<1>5. QED
    BY <1>3, <1>4

LEMMA ReadTagsTyped ==
    ASSUME TypeOK, NEW w \in Workers, ReadTags(w) PROVE TypeOK'
<1>1. StoresTyped' /\ DOMAIN rows \subseteq DOMAIN rows' /\ req' = req
    BY SameStoresTyped DEF TypeOK, ReadTags, tables
<1>2. CASE DOMAIN content = {}
  <2>1. Finish(w, "not_found", NoVersion)
    BY <1>2 DEF ReadTags
  <2>2. QED
    BY <1>1, <2>1, FinishTyped DEF TypeOK, RequestsTyped, ReplyKind
<1>3. CASE DOMAIN content # {}
  <2> DEFINE tags == EditTags(content[Latest(content)].tags, req[w])
  <2>1. /\ Goto(w, "read") /\ patch' = [patch EXCEPT ![w] = [tags |-> tags]]
        /\ UNCHANGED <<made, seen, reply>> /\ pc[w] = "tags"
    BY <1>3 DEF ReadTags
  <2>2. /\ req[w] \in Requests /\ req[w].op = "tags"
        /\ Permitted(req[w].op, req[w].role)
    BY <2>1, RequestsTypedSplits DEF TypeOK, RequestTyped
  <2>3. /\ pc'[w] = "read" /\ patch'[w] = [tags |-> tags] /\ DOMAIN patch' = Workers
        /\ \A x \in Workers : x # w => patch'[x] = patch[x]
    BY <2>1 DEF Goto, TypeOK, RequestsTyped
  <2>4. content[Latest(content)] \in ContentRecord
    BY <1>3, LatestIsIn DEF TypeOK
  <2>5. tags \in SUBSET Tags
    BY <2>2, <2>4, RequestsAssumption DEF EditTags, ContentRecord
  <2>6. IsPatch([tags |-> tags])
    BY <2>5 DEF IsPatch
  <2>7. RequestTyped(w)'
    BY <1>1, <2>2, <2>3, <2>6 DEF RequestTyped, Holding
  <2>8. QED
    BY <1>1, <2>1, <2>3, <2>7, GotoTyped DEF TypeOK, RequestsTyped, PC
<1>4. QED
    BY <1>2, <1>3

LEMMA MergeTyped ==
    ASSUME NEW c \in ContentRecord, NEW p, IsPatch(p)
    PROVE  Merge(c, p) \in ContentRecord
<1>1. DOMAIN c = {"text", "tags"} /\ c["text"] \in Texts /\ c["tags"] \in SUBSET Tags
    BY DEF ContentRecord
<1>2. Merge(c, p) = [f \in {"text", "tags"} |-> IF f \in DOMAIN p THEN p[f] ELSE c[f]]
    BY <1>1 DEF Merge
<1>3. Merge(c, p) = [text |-> IF "text" \in DOMAIN p THEN p["text"] ELSE c["text"],
                     tags |-> IF "tags" \in DOMAIN p THEN p["tags"] ELSE c["tags"]]
    BY <1>2
<1>4. QED
    BY <1>1, <1>3 DEF IsPatch, ContentRecord

LEMMA ReadLatestTyped ==
    ASSUME TypeOK, NEW w \in Workers, ReadLatest(w) PROVE TypeOK'
<1> DEFINE base == Latest(content)
           merged == Merge(content[base], patch[w])
<1>1. StoresTyped' /\ DOMAIN rows \subseteq DOMAIN rows' /\ req' = req
    BY SameStoresTyped DEF TypeOK, ReadLatest, tables
<1>2. /\ req[w] \in Requests /\ Permitted(req[w].op, req[w].role)
      /\ IsPatch(patch[w]) /\ pc[w] = "read"
    BY RequestsTypedSplits DEF TypeOK, RequestTyped, ReadLatest
<1>3. CASE /\ DOMAIN content # {} /\ base + 1 \in Version /\ Goto(w, "save")
           /\ made' = [made EXCEPT ![w] = [version |-> base + 1,
                                            content |-> merged, base |-> base]]
           /\ UNCHANGED <<patch, seen, reply>>
  <2>1. base \in DOMAIN content /\ base \in Version /\ merged \in ContentRecord
    BY <1>2, <1>3, LatestIsIn, MergeTyped DEF TypeOK, StoresTyped
  <2>2. made' \in [Workers -> MadeRecord] /\ made'[w].version \in Version
        /\ made'[w].content \in ContentRecord
        /\ \A x \in Workers : x # w => made'[x] = made[x]
    BY <1>3, <2>1 DEF TypeOK, RequestsTyped, MadeRecord
  <2>3. pc'[w] = "save"
    BY <1>3 DEF Goto, TypeOK, RequestsTyped
  <2>4. RequestTyped(w)'
    BY <1>1, <1>2, <1>3, <2>2, <2>3 DEF RequestTyped
  <2>5. QED
    BY <1>1, <1>2, <1>3, <2>2, <2>4, GotoTyped DEF TypeOK, RequestsTyped, PC
<1>4. CASE \E k \in ReplyKind : \E v \in Version \cup {NoVersion} : Finish(w, k, v)
    BY <1>1, <1>4, FinishTyped DEF TypeOK, RequestsTyped
<1>5. DOMAIN content # {} => base \in Version
    BY LatestIsIn DEF TypeOK, StoresTyped
<1>6. QED
    BY <1>3, <1>4, <1>5 DEF ReadLatest, ReplyKind

LEMMA SaveTyped ==
    ASSUME TypeOK, NEW w \in Workers, Save(w) PROVE TypeOK'
<1> DEFINE v == made[w].version
<1>1. pc[w] = "save" /\ v \in Version /\ made[w].content \in ContentRecord
      /\ UNCHANGED <<rows, history, audit, req>>
    BY RequestsTypedSplits DEF TypeOK, RequestTyped, Save, Holding, tables
<1>2. CASE Finish(w, "duplicate", NoVersion) /\ UNCHANGED content
  <2>1. StoresTyped'
    BY <1>1, <1>2, SameStoresTyped DEF TypeOK, tables
  <2>2. QED
    BY <1>1, <1>2, <2>1, FinishTyped DEF TypeOK, RequestsTyped, ReplyKind
<1>3. CASE /\ content' = Put(content, v, made[w].content)
           /\ Goto(w, IF req[w].op \in CreateOps THEN "load" ELSE "insert")
           /\ UNCHANGED <<patch, made, seen, reply>>
  <2>1. DOMAIN content' = DOMAIN content \cup {v}
        /\ content' \in [DOMAIN content' -> ContentRecord]
    BY <1>1, <1>3 DEF Put, TypeOK, StoresTyped
  <2>2. \E n \in Version \cup {0} : \A u \in DOMAIN content' : u <= n
    <3>1. PICK n \in Version \cup {0} : \A u \in DOMAIN content : u <= n
      BY DEF TypeOK, StoresTyped
    <3>2. v \in Nat /\ n \in Nat /\ DOMAIN content \subseteq Nat
      BY <1>1, VersionAssumption DEF TypeOK, StoresTyped
    <3>3. CASE v <= n
      BY <2>1, <3>1, <3>3
    <3>4. CASE n < v
      <4>1. \A u \in DOMAIN content' : u <= v
        BY <2>1, <3>1, <3>2, <3>4
      <4>2. QED
        BY <1>1, <4>1
    <3>5. v <= n \/ n < v
      BY <3>2
    <3>6. QED
      BY <3>3, <3>4, <3>5
  <2>3. StoresTyped'
    BY <1>1, <2>1, <2>2 DEF TypeOK, StoresTyped
  <2>4. RequestsTyped'
    BY <1>1, <1>3, PlainGotoTyped DEF TypeOK, Holding, PC
  <2>5. QED
    BY <2>3, <2>4 DEF TypeOK
<1>4. QED
    BY <1>2, <1>3 DEF Save

(* A registration that is refused is answered or undone.                   *)
LEMMA RefusedTyped ==
    ASSUME TypeOK, NEW w \in Workers, NEW k \in ReplyKind, pc[w] \in Holding,
           RegistrationRefused(w, k), UNCHANGED <<content, tables, req>>
    PROVE  TypeOK'
<1>1. StoresTyped' /\ DOMAIN rows \subseteq DOMAIN rows'
    BY SameStoresTyped DEF TypeOK, tables
<1>2. CASE Finish(w, k, NoVersion)
    BY <1>1, <1>2, FinishTyped DEF TypeOK, RequestsTyped
<1>3. CASE Goto(w, "compensate") /\ UNCHANGED <<patch, made, seen, reply>>
    BY <1>1, <1>3, PlainGotoTyped DEF TypeOK, Holding, PC
<1>4. QED
    BY <1>2, <1>3 DEF RegistrationRefused

LEMMA LoadTyped ==
    ASSUME TypeOK, NEW w \in Workers, Load(w) PROVE TypeOK'
<1>1. pc[w] \in Holding /\ UNCHANGED <<content, tables, req>>
    BY DEF Load, Holding
<1>2. CASE Goto(w, "insert") /\ UNCHANGED <<patch, made, seen, reply>>
  <2>1. StoresTyped' /\ DOMAIN rows \subseteq DOMAIN rows'
    BY <1>1, SameStoresTyped DEF TypeOK, tables
  <2>2. QED
    BY <1>1, <1>2, <2>1, PlainGotoTyped DEF TypeOK, Holding, PC
<1>3. CASE RegistrationRefused(w, "not_found")
    BY <1>1, <1>3, RefusedTyped DEF ReplyKind
<1>4. QED
    BY <1>2, <1>3 DEF Load

(* The tables after a version is registered.                               *)
LEMMA RegisterTyped ==
    ASSUME StoresTyped, NEW v \in Version, NEW base \in Version \cup {NoVersion},
           NEW role \in Role, rows' = Put(rows, v, DraftRow),
           history' = Append(history, HistoryRow(NoStatus, "draft", base, v, role)),
           UNCHANGED <<content, audit>>
    PROVE  StoresTyped' /\ DOMAIN rows \subseteq DOMAIN rows'
<1>1. DraftRow \in Row
    BY DEF DraftRow, Row, Status
<1>2. DOMAIN rows' = DOMAIN rows \cup {v} /\ rows' \in [DOMAIN rows' -> Row]
    BY <1>1 DEF Put, StoresTyped
<1>3. HistoryRow(NoStatus, "draft", base, v, role) \in HistoryRecord
    BY DEF HistoryRow, HistoryRecord, Status
<1>4. history' \in Seq(HistoryRecord)
    BY <1>3 DEF StoresTyped
<1>5. QED
    BY <1>2, <1>4 DEF StoresTyped

LEMMA InsertTyped ==
    ASSUME TypeOK, NEW w \in Workers, Insert(w) PROVE TypeOK'
<1> DEFINE v == made[w].version
           kind == IF req[w].op \in CreateOps THEN "created" ELSE "updated"
<1>1. /\ pc[w] \in Holding /\ pc[w] = "insert" /\ v \in Version
      /\ made[w].base \in Version \cup {NoVersion}
      /\ req[w] \in Requests /\ req[w].role \in Role
      /\ UNCHANGED <<content, req>>
    BY RequestsTypedSplits, RequestsAssumption
    DEF TypeOK, RequestTyped, Insert, Holding, RequestsTyped, MadeRecord
<1>2. CASE RegistrationRefused(w, "duplicate") /\ UNCHANGED tables
    BY <1>1, <1>2, RefusedTyped DEF ReplyKind
<1>3. CASE /\ rows' = Put(rows, v, DraftRow)
           /\ history' = Append(history,
                  HistoryRow(NoStatus, "draft", made[w].base, v, req[w].role))
           /\ UNCHANGED audit
           /\ Finish(w, kind, v)
  <2>1. StoresTyped' /\ DOMAIN rows \subseteq DOMAIN rows'
    BY <1>1, <1>3, RegisterTyped DEF TypeOK
  <2>2. kind \in ReplyKind
    BY DEF ReplyKind
  <2>3. QED
    BY <1>1, <1>3, <2>1, <2>2, FinishTyped DEF TypeOK, RequestsTyped
<1>4. QED
    BY <1>2, <1>3 DEF Insert

LEMMA InsertFailsTyped ==
    ASSUME TypeOK, NEW w \in Workers, InsertFails(w) PROVE TypeOK'
<1>1. pc[w] \in Holding /\ UNCHANGED <<content, tables, req>>
    BY DEF InsertFails, Holding
<1>2. StoresTyped' /\ DOMAIN rows \subseteq DOMAIN rows'
    BY <1>1, SameStoresTyped DEF TypeOK, tables
<1>3. CASE Finish(w, "error", NoVersion)
    BY <1>1, <1>2, <1>3, FinishTyped DEF TypeOK, RequestsTyped, ReplyKind
<1>4. CASE Goto(w, "compensate") /\ UNCHANGED <<patch, made, seen, reply>>
    BY <1>1, <1>2, <1>4, PlainGotoTyped DEF TypeOK, Holding, PC
<1>5. QED
    BY <1>3, <1>4 DEF InsertFails

LEMMA CompensateTyped ==
    ASSUME TypeOK, NEW w \in Workers, Compensate(w) \/ CompensateFails(w)
    PROVE  TypeOK'
<1> DEFINE v == made[w].version
<1>1. /\ pc[w] \in Holding /\ v \in Version
      /\ UNCHANGED <<tables, req>>
    BY RequestsTypedSplits DEF TypeOK, RequestTyped, Compensate, CompensateFails, Holding
<1>2. PICK k \in ReplyKind : Finish(w, k, v)
    BY DEF Compensate, CompensateFails, UndoneKind, ReplyKind
<1>3. content' = content \/ content' = Drop(content, v)
    BY DEF Compensate, CompensateFails
<1>4. StoresTyped'
    BY <1>1, <1>3 DEF TypeOK, StoresTyped, tables, Drop
<1>5. QED
    BY <1>1, <1>2, <1>4, FinishTyped DEF TypeOK, RequestsTyped, tables

LEMMA FailsTyped ==
    ASSUME TypeOK, NEW w \in Workers, SaveFails(w) \/ CommitFails(w)
    PROVE  TypeOK'
<1>1. /\ UNCHANGED <<content, tables, req>> /\ Finish(w, "error", NoVersion)
    BY DEF SaveFails, CommitFails
<1>2. StoresTyped' /\ DOMAIN rows \subseteq DOMAIN rows'
    BY <1>1, SameStoresTyped DEF TypeOK, tables
<1>3. QED
    BY <1>1, <1>2, FinishTyped DEF TypeOK, RequestsTyped, ReplyKind

LEMMA FetchTyped ==
    ASSUME TypeOK, NEW w \in Workers, FetchRecord(w) \/ FetchRows(w)
    PROVE  TypeOK'
<1>1. /\ UNCHANGED <<content, tables, req>> /\ pc[w] \in {"fetch", "rows"}
    BY DEF FetchRecord, FetchRows
<1>2. StoresTyped' /\ DOMAIN rows \subseteq DOMAIN rows'
    BY <1>1, SameStoresTyped DEF TypeOK, tables
<1>3. /\ req[w] \in Requests /\ Permitted(req[w].op, req[w].role)
      /\ req[w].op \in DOMAIN Target \cup FlagOps /\ IsPatch(patch[w])
      /\ pc[w] = "rows" => req[w].op \in FlagOps
    BY <1>1, RequestsTypedSplits DEF TypeOK, RequestTyped
<1>4. CASE \E k \in ReplyKind : Finish(w, k, NoVersion)
    BY <1>1, <1>2, <1>4, FinishTyped DEF TypeOK, RequestsTyped
<1>5. CASE /\ Goto(w, "commit") /\ seen' = [seen EXCEPT ![w] = rows]
           /\ UNCHANGED <<patch, made, reply>>
           /\ req[w].op \in DOMAIN Target => req[w].version \in DOMAIN rows
  <2>1. /\ pc'[w] = "commit" /\ seen'[w] = rows /\ DOMAIN seen' = Workers
        /\ \A x \in Workers : x # w => seen'[x] = seen[x]
    BY <1>5 DEF Goto, TypeOK, RequestsTyped
  <2>2. RequestTyped(w)'
    BY <1>1, <1>2, <1>3, <1>5, <2>1 DEF RequestTyped, Holding, TypeOK, StoresTyped, tables
  <2>3. QED
    BY <1>1, <1>2, <1>5, <2>1, <2>2, GotoTyped DEF TypeOK, RequestsTyped, PC
<1>6. req[w].op \in FlagOps => req[w].op \notin DOMAIN Target
    BY DEF FlagOps, Target
<1>7. QED
    BY <1>3, <1>4, <1>5, <1>6 DEF FetchRecord, FetchRows, ReplyKind

LEMMA CommitTransitionTyped ==
    ASSUME TypeOK, NEW w \in Workers, CommitTransition(w) PROVE TypeOK'
<1> DEFINE v == req[w].version
           to == Target[req[w].op]
           after == IF req[w].op = "return_to_draft" THEN req[w].after ELSE v
           row == HistoryRow(seen[w][v].status, to, v, after, req[w].role)
<1>1. /\ req[w].op \in DOMAIN Target /\ req[w] \in Requests
      /\ v \in DOMAIN seen[w] /\ DOMAIN seen[w] \subseteq DOMAIN rows
      /\ seen[w] \in [DOMAIN seen[w] -> Row]
      /\ UNCHANGED <<audit, content, req>> /\ Finish(w, "moved", v)
    BY RequestsTypedSplits DEF TypeOK, RequestTyped, CommitTransition
<1>2. v \in Version /\ after \in Version /\ req[w].role \in Role /\ to \in Status
    BY <1>1, RequestsAssumption DEF Target, Status
<1>3. seen[w][v].status \in Status
    BY <1>1 DEF Row
<1>4. row \in HistoryRecord
    BY <1>2, <1>3 DEF HistoryRow, HistoryRecord
<1>5. history' = Append(history, row) /\ history' \in Seq(HistoryRecord)
    BY <1>4 DEF CommitTransition, TypeOK, StoresTyped
<1>6. rows' \in [DOMAIN rows -> Row]
  <2>1. rows' = rows \/ rows' = [rows EXCEPT ![v].status = to]
    BY DEF CommitTransition
  <2>2. QED
    BY <1>1, <1>2, <2>1 DEF TypeOK, StoresTyped, Row
<1>7. StoresTyped'
    BY <1>1, <1>5, <1>6 DEF TypeOK, StoresTyped
<1>8. QED
    BY <1>1, <1>2, <1>6, <1>7, FinishTyped DEF TypeOK, RequestsTyped, ReplyKind

(* Appending to a sequence whose elements have no type of their own.        *)
LEMMA AppendAny ==
    ASSUME NEW S, NEW a \in Seq(S), NEW e
    PROVE  /\ DOMAIN a = 1 .. Len(a) /\ Len(a) \in Nat
           /\ DOMAIN Append(a, e) = 1 .. Len(a) + 1
           /\ \A i \in 1 .. Len(a) : Append(a, e)[i] = a[i]
           /\ Append(a, e)[Len(a) + 1] = e
           /\ Len(Append(a, e)) = Len(a) + 1
           /\ Append(a, e) = [i \in 1 .. Len(a) + 1 |-> Append(a, e)[i]]
<1>1. a \in Seq(S \cup {e}) /\ Append(a, e) \in Seq(S \cup {e})
    OBVIOUS
<1>2. Len(Append(a, e)) = Len(a) + 1 /\ Len(a) \in Nat
    OBVIOUS
<1>3. Append(a, e) \in [1 .. Len(a) + 1 -> S \cup {e}]
    BY <1>1, <1>2, LenProperties
<1>4. Append(a, e) = [i \in 1 .. Len(a) + 1 |-> Append(a, e)[i]]
    BY <1>3
<1>5. QED
    BY <1>2, <1>3, <1>4, AppendProperties

LEMMA CommitFlagsTyped ==
    ASSUME TypeOK, NEW w \in Workers, CommitFlags(w) PROVE TypeOK'
<1> DEFINE row == AuditRows(req[w].op, req[w].role, seen[w])
<1>1. /\ req[w].op \in FlagOps /\ Permitted(req[w].op, req[w].role)
      /\ DOMAIN seen[w] \subseteq DOMAIN rows
      /\ rows' = SetAll(rows, req[w].op) /\ audit' = Append(audit, row)
      /\ UNCHANGED <<history, content, req>> /\ Finish(w, "flagged", NoVersion)
    BY RequestsTypedSplits DEF TypeOK, RequestTyped, CommitFlags
<1>2. \A r \in Row : Flagged(r, req[w].op) \in Row
    BY DEF Flagged, Row
<1>3. rows' \in [DOMAIN rows -> Row]
    BY <1>1, <1>2 DEF SetAll, TypeOK, StoresTyped
<1>4. Authorized(req[w].role)
    BY <1>1 DEF Permitted, Gated
<1>5. /\ audit' \in Seq({audit'[i] : i \in DOMAIN audit'})
      /\ \A i \in DOMAIN audit' : audit'[i] = row \/ (i \in DOMAIN audit /\ audit'[i] = audit[i])
  <2>1. audit \in Seq({audit[i] : i \in DOMAIN audit})
    BY DEF TypeOK, StoresTyped
  <2>2. /\ DOMAIN audit = 1 .. Len(audit) /\ Len(audit) \in Nat
        /\ DOMAIN audit' = 1 .. Len(audit) + 1
        /\ \A i \in 1 .. Len(audit) : audit'[i] = audit[i]
        /\ audit'[Len(audit) + 1] = row
        /\ Len(audit') = Len(audit) + 1
        /\ audit' = [i \in 1 .. Len(audit) + 1 |-> audit'[i]]
    BY <2>1, <1>1, AppendAny
  <2>3. audit' \in Seq({audit'[i] : i \in DOMAIN audit'})
    <3> DEFINE S == {audit'[i] : i \in DOMAIN audit'}
    <3>1. PICK n \in Nat : n = Len(audit) + 1 /\ DOMAIN audit' = 1 .. n
                           /\ audit' = [i \in 1 .. n |-> audit'[i]]
      BY <2>2
    <3>2. \A i \in 1 .. n : audit'[i] \in S
      BY <3>1
    <3> HIDE DEF S
    <3>3. audit' \in [1 .. n -> S]
      BY <3>1, <3>2
    <3>4. audit' \in Seq(S)
      BY <3>3
    <3>5. QED
      BY <3>4 DEF S
  <2>4. ASSUME NEW i \in DOMAIN audit'
        PROVE  audit'[i] = row \/ (i \in DOMAIN audit /\ audit'[i] = audit[i])
    <3>1. i \in 1 .. Len(audit) \/ i = Len(audit) + 1
      BY <2>2
    <3>2. QED
      BY <2>2, <3>1
  <2>5. QED
    BY <2>3, <2>4
<1>6. StoresTyped'
  <2>1. /\ DOMAIN content' \subseteq Version
        /\ content' \in [DOMAIN content' -> ContentRecord]
        /\ \E n \in Version \cup {0} : \A v \in DOMAIN content' : v <= n
        /\ history' \in Seq(HistoryRecord)
    BY <1>1 DEF TypeOK, StoresTyped
  <2>2. DOMAIN rows' = DOMAIN rows /\ DOMAIN rows \subseteq Version
    BY <1>3 DEF TypeOK, StoresTyped
  <2>3. row.op = req[w].op /\ row.role = req[w].role /\ row.read = seen[w]
    BY DEF AuditRows
  <2>4. ASSUME NEW i \in DOMAIN audit'
        PROVE  /\ audit'[i].op \in FlagOps /\ Authorized(audit'[i].role)
               /\ DOMAIN audit'[i].read \subseteq DOMAIN rows'
    <3> HIDE DEF row
    <3>1. CASE audit'[i] = row
      BY <1>1, <1>4, <2>2, <2>3, <3>1
    <3>2. CASE i \in DOMAIN audit /\ audit'[i] = audit[i]
      BY <2>2, <3>2 DEF TypeOK, StoresTyped
    <3>3. QED
      BY <1>5, <3>1, <3>2
  <2>5. QED
    BY <1>3, <1>5, <2>1, <2>2, <2>4 DEF StoresTyped
<1>7. QED
    BY <1>1, <1>3, <1>6, FinishTyped DEF TypeOK, RequestsTyped, ReplyKind

LEMMA CrashTyped == ASSUME TypeOK, Crash PROVE TypeOK'
<1>1. StoresTyped'
    BY SameStoresTyped DEF TypeOK, Crash, tables
<1>2. RequestsTyped'
    BY DEF TypeOK, RequestsTyped, Crash, PC, MadeRecord, NoMade, Answer, ReplyKind, IsPatch
<1>3. QED
    BY <1>1, <1>2 DEF TypeOK

LEMMA NextTyped == TypeOK /\ [Next]_vars => TypeOK'
<1> SUFFICES ASSUME TypeOK, [Next]_vars PROVE TypeOK'
    OBVIOUS
<1>1. CASE UNCHANGED vars
  <2>1. StoresTyped'
    BY <1>1, SameStoresTyped DEF TypeOK, vars, tables
  <2>2. RequestsTyped'
    <3>1. /\ pc' = pc /\ req' = req /\ patch' = patch /\ made' = made
          /\ seen' = seen /\ reply' = reply /\ rows' = rows
      BY <1>1 DEF vars
    <3>2. \A x \in Workers : RequestTyped(x)'
      BY <3>1, OtherTyped, RequestsTypedSplits DEF TypeOK
    <3>3. QED
      BY <3>1, <3>2, RequestsTypedSplits DEF TypeOK, RequestsTyped, RequestTyped, Holding
  <2>3. QED
    BY <2>1, <2>2 DEF TypeOK
<1>2. CASE Crash
    BY <1>2, CrashTyped
<1>3. ASSUME NEW w \in Workers, NEW r \in Requests, Receive(w, r) PROVE TypeOK'
    BY <1>3, ReceiveTyped
<1>4. ASSUME NEW w \in Workers, Step(w) PROVE TypeOK'
    BY <1>4, ReadTagsTyped, ReadLatestTyped, SaveTyped, LoadTyped, InsertTyped,
       CompensateTyped, FetchTyped, CommitTransitionTyped, CommitFlagsTyped DEF Step
<1>5. ASSUME NEW w \in Workers, Failure(w) PROVE TypeOK'
    BY <1>5, FailsTyped, InsertFailsTyped, CompensateTyped DEF Failure
<1>6. QED
    BY <1>1, <1>2, <1>3, <1>4, <1>5 DEF Next

(* Type correctness, for any number of requests in flight.                 *)
THEOREM BankTypeCorrect == Spec => []TypeOK
BY InitTyped, NextTyped, PTL DEF Spec

-----------------------------------------------------------------------------
(* The two stores.                                                         *)

(* A step that leaves the versions of both stores alone, and gives nobody a *)
(* version to hold.                                                        *)
LEMMA OwnersKept ==
    ASSUME StoresAgree, content' = content, DOMAIN rows' = DOMAIN rows,
           \A x \in Workers : Owns(x)' => Owns(x) /\ made'[x] = made[x]
    PROVE  StoresAgree'
BY DEF StoresAgree, RegisteredHasContent, VersionsOwnedOnce

(* What one request does leaves what the others hold.                      *)
LEMMA OthersKept ==
    ASSUME RequestsTyped, NEW w \in Workers, NEW step, Goto(w, step),
           UNCHANGED made
    PROVE  /\ pc'[w] = step
           /\ \A x \in Workers : x # w => (Owns(x)' <=> Owns(x)) /\ made'[x] = made[x]
           /\ step \notin {"load", "insert", "compensate"} => ~Owns(w)'
BY DEF RequestsTyped, Goto, Owns

LEMMA FinishReleases ==
    ASSUME RequestsTyped, NEW w \in Workers, NEW k, NEW v, Finish(w, k, v)
    PROVE  /\ ~Owns(w)'
           /\ \A x \in Workers : x # w => (Owns(x)' <=> Owns(x)) /\ made'[x] = made[x]
BY DEF RequestsTyped, Finish, Goto, Owns

LEMMA RefusedAgrees ==
    ASSUME StoresAgree, RequestsTyped, NEW w \in Workers, NEW k,
           RegistrationRefused(w, k), Owns(w),
           content' = content, rows' = rows
    PROVE  StoresAgree'
BY FinishReleases, OthersKept, OwnersKept DEF RegistrationRefused

LEMMA InitAgrees == Init => StoresAgree
BY DEF Init, StoresAgree, RegisteredHasContent, VersionsOwnedOnce, Owns

LEMMA ReceiveAgrees ==
    ASSUME TypeOK, StoresAgree, NEW w \in Workers, NEW r \in Requests, Receive(w, r)
    PROVE  StoresAgree'
<1>1. content' = content /\ rows' = rows
    BY DEF Receive, tables
<1>2. CASE Refusal(r) # "none"
    BY <1>1, <1>2, FinishReleases, OwnersKept DEF Receive, TypeOK
<1>3. CASE Refusal(r) = "none"
  <2>1. /\ Goto(w, FirstStep(r.op))
        /\ \A x \in Workers : x # w => made'[x] = made[x]
    BY <1>3 DEF Receive, TypeOK, RequestsTyped
  <2>2. FirstStep(r.op) \notin {"load", "insert", "compensate"}
    BY DEF FirstStep
  <2>3. \A x \in Workers : Owns(x)' => Owns(x) /\ made'[x] = made[x]
    BY <2>1, <2>2 DEF Goto, Owns, TypeOK, RequestsTyped
  <2>4. QED
    BY <1>1, <2>3, OwnersKept
<1>4. QED
    BY <1>2, <1>3

LEMMA SaveAgrees ==
    ASSUME TypeOK, StoresAgree, NEW w \in Workers, Save(w) PROVE StoresAgree'
<1> DEFINE v == made[w].version
<1>1. rows' = rows
    BY DEF Save, tables
<1>2. CASE v \in DOMAIN content
    BY <1>1, <1>2, FinishReleases, OwnersKept DEF Save, TypeOK
<1>3. CASE v \notin DOMAIN content
  <2>1. /\ content' = Put(content, v, made[w].content)
        /\ made' = made
        /\ \A x \in Workers : x # w => (Owns(x)' <=> Owns(x))
    BY <1>3, OthersKept DEF Save, TypeOK
  <2>2. /\ DOMAIN content' = DOMAIN content \cup {v}
        /\ content'[v] = made[w].content
        /\ \A u \in DOMAIN content : content'[u] = content[u]
    BY <1>3, <2>1 DEF Put
  <2>3. \A x \in Workers : x # w /\ Owns(x) => made[x].version # v
    BY <1>3 DEF StoresAgree, VersionsOwnedOnce
  <2>4. v \notin DOMAIN rows
    BY <1>3 DEF StoresAgree, RegisteredHasContent
  <2>5. RegisteredHasContent'
    BY <1>1, <2>2 DEF StoresAgree, RegisteredHasContent
  <2>6. VersionsOwnedOnce'
    <3> SUFFICES ASSUME NEW x \in Workers, NEW y \in Workers, Owns(x)'
                 PROVE  /\ made[x].version \in DOMAIN content' \ DOMAIN rows
                        /\ content'[made[x].version] = made[x].content
                        /\ Owns(y)' /\ made[x].version = made[y].version => x = y
      BY <1>1, <2>1 DEF VersionsOwnedOnce
    <3>1. CASE x = w
      BY <2>1, <2>2, <2>3, <2>4, <3>1
    <3>2. CASE x # w
      BY <2>1, <2>2, <2>3, <3>2 DEF StoresAgree, VersionsOwnedOnce
    <3>3. QED
      BY <3>1, <3>2
  <2>7. QED
    BY <2>5, <2>6 DEF StoresAgree
<1>4. QED
    BY <1>2, <1>3

LEMMA InsertAgrees ==
    ASSUME TypeOK, StoresAgree, NEW w \in Workers, Insert(w) PROVE StoresAgree'
<1> DEFINE v == made[w].version
<1>1. Owns(w) /\ content' = content
    BY DEF Insert, Owns
<1>2. CASE v \in DOMAIN rows
    BY <1>1, <1>2, RefusedAgrees DEF Insert, tables, TypeOK
<1>3. CASE v \notin DOMAIN rows
  <2>1. /\ DOMAIN rows' = DOMAIN rows \cup {v}
        /\ ~Owns(w)'
        /\ \A x \in Workers : x # w => (Owns(x)' <=> Owns(x)) /\ made'[x] = made[x]
    BY <1>3, FinishReleases DEF Insert, Put, TypeOK
  <2>2. \A x \in Workers : x # w /\ Owns(x) => made[x].version # v
    BY <1>1 DEF StoresAgree, VersionsOwnedOnce
  <2>3. QED
    BY <1>1, <2>1, <2>2 DEF StoresAgree, RegisteredHasContent, VersionsOwnedOnce
<1>4. QED
    BY <1>2, <1>3

LEMMA CompensateAgrees ==
    ASSUME TypeOK, StoresAgree, NEW w \in Workers, Compensate(w) PROVE StoresAgree'
<1> DEFINE v == made[w].version
<1>1. /\ Owns(w) /\ rows' = rows
      /\ content' = Drop(content, v)
      /\ ~Owns(w)'
      /\ \A x \in Workers : x # w => (Owns(x)' <=> Owns(x)) /\ made'[x] = made[x]
    BY FinishReleases DEF Compensate, tables, Owns, TypeOK
<1>2. /\ DOMAIN content' = DOMAIN content \ {v}
      /\ \A u \in DOMAIN content \ {v} : content'[u] = content[u]
    BY <1>1 DEF Drop
<1>3. v \notin DOMAIN rows
    BY <1>1 DEF StoresAgree, VersionsOwnedOnce
<1>4. \A x \in Workers : x # w /\ Owns(x) => made[x].version # v
    BY <1>1 DEF StoresAgree, VersionsOwnedOnce
<1>5. QED
    BY <1>1, <1>2, <1>3, <1>4 DEF StoresAgree, RegisteredHasContent, VersionsOwnedOnce

(* The steps that change no content and add no record.                     *)
LEMMA ReadsAgree ==
    ASSUME TypeOK, StoresAgree, NEW w \in Workers,
           ReadTags(w) \/ ReadLatest(w) \/ FetchRecord(w) \/ FetchRows(w)
    PROVE  StoresAgree'
<1>1. content' = content /\ rows' = rows
    BY DEF ReadTags, ReadLatest, FetchRecord, FetchRows, tables
<1>2. CASE \E k, v : Finish(w, k, v)
    BY <1>1, <1>2, FinishReleases, OwnersKept DEF TypeOK
<1>3. CASE ~\E k, v : Finish(w, k, v)
  <2>1. /\ \E step \in {"read", "save", "commit"} : Goto(w, step)
        /\ \A x \in Workers : x # w => made'[x] = made[x]
    BY <1>3 DEF ReadTags, ReadLatest, FetchRecord, FetchRows, TypeOK, RequestsTyped
  <2>2. \A x \in Workers : Owns(x)' => Owns(x) /\ made'[x] = made[x]
    BY <2>1 DEF Goto, Owns, TypeOK, RequestsTyped
  <2>3. QED
    BY <1>1, <2>2, OwnersKept
<1>4. QED
    BY <1>2, <1>3

LEMMA CommitsAgree ==
    ASSUME TypeOK, StoresAgree, NEW w \in Workers,
           CommitTransition(w) \/ CommitFlags(w) \/ Failure(w)
    PROVE  StoresAgree'
<1>1. content' = content /\ DOMAIN rows' = DOMAIN rows
    BY DEF CommitTransition, CommitFlags, Failure, SaveFails, InsertFails,
           CompensateFails, CommitFails, SetAll, tables, TypeOK, StoresTyped
<1>2. CASE \E k, v : Finish(w, k, v)
    BY <1>1, <1>2, FinishReleases, OwnersKept DEF TypeOK
<1>3. CASE Owns(w) /\ Goto(w, "compensate") /\ made' = made
    BY <1>1, <1>3, OthersKept, OwnersKept DEF TypeOK
<1>4. QED
    BY <1>2, <1>3 DEF CommitTransition, CommitFlags, Failure, SaveFails,
       InsertFails, CompensateFails, CommitFails, Owns

LEMMA LoadAgrees ==
    ASSUME TypeOK, StoresAgree, NEW w \in Workers, Load(w) PROVE StoresAgree'
<1>1. Owns(w) /\ content' = content /\ rows' = rows
    BY DEF Load, tables, Owns
<1>2. CASE made[w].version \in DOMAIN content
    BY <1>1, <1>2, OthersKept, OwnersKept DEF Load, TypeOK
<1>3. CASE made[w].version \notin DOMAIN content
    BY <1>1, <1>3, RefusedAgrees DEF Load, TypeOK
<1>4. QED
    BY <1>2, <1>3

LEMMA NextAgrees == TypeOK /\ StoresAgree /\ [Next]_vars => StoresAgree'
<1> SUFFICES ASSUME TypeOK, StoresAgree, [Next]_vars PROVE StoresAgree'
    OBVIOUS
<1>1. CASE UNCHANGED vars
    BY <1>1, OwnersKept DEF vars, Owns
<1>2. CASE Crash
    BY <1>2, OwnersKept DEF Crash, Owns, tables
<1>3. ASSUME NEW w \in Workers, NEW r \in Requests, Receive(w, r) PROVE StoresAgree'
    BY <1>3, ReceiveAgrees
<1>4. ASSUME NEW w \in Workers, Step(w) PROVE StoresAgree'
    BY <1>4, ReadsAgree, SaveAgrees, LoadAgrees, InsertAgrees, CompensateAgrees,
       CommitsAgree DEF Step
<1>5. ASSUME NEW w \in Workers, Failure(w) PROVE StoresAgree'
    BY <1>5, CommitsAgree
<1>6. QED
    BY <1>1, <1>2, <1>3, <1>4, <1>5 DEF Next

(* The JSON file and the database agree: every record has its content, and  *)
(* what a request still holds belongs to nobody else, however requests,     *)
(* failures and restarts fall together.                                    *)
THEOREM BankStoresAgree == Spec => []StoresAgree
BY InitTyped, NextTyped, InitAgrees, NextAgrees, PTL DEF Spec

(* Only a save and a compensation write the JSON file; neither reaches a    *)
(* version that has a record.                                              *)
LEMMA NextKeepsRegistered ==
    ASSUME TypeOK, StoresAgree, [Next]_vars, NEW v \in DOMAIN rows
    PROVE  v \in DOMAIN content' /\ content'[v] = content[v]
<1>1. v \in DOMAIN content
    BY DEF StoresAgree, RegisteredHasContent
<1>2. CASE content' = content
    BY <1>1, <1>2
<1>3. ASSUME NEW w \in Workers, Save(w), made[w].version \notin DOMAIN content
      PROVE  v \in DOMAIN content' /\ content'[v] = content[v]
    BY <1>1, <1>3 DEF Save, Put
<1>4. ASSUME NEW w \in Workers, Compensate(w)
      PROVE  v \in DOMAIN content' /\ content'[v] = content[v]
  <2>1. Owns(w) /\ content' = Drop(content, made[w].version)
    BY <1>4 DEF Compensate, Owns
  <2>2. made[w].version \notin DOMAIN rows
    BY <2>1 DEF StoresAgree, VersionsOwnedOnce
  <2>3. QED
    BY <1>1, <2>1, <2>2 DEF Drop
<1>5. ASSUME NEW w \in Workers, Step(w) \/ Failure(w), ~Compensate(w),
             ~(Save(w) /\ made[w].version \notin DOMAIN content)
      PROVE  content' = content
    BY <1>5 DEF Step, Failure, ReadTags, ReadLatest, Save, Load, Insert, FetchRecord,
       FetchRows, CommitTransition, CommitFlags, SaveFails, InsertFails,
       CompensateFails, CommitFails
<1>6. QED
    BY <1>2, <1>3, <1>4, <1>5 DEF Next, vars, Receive, Crash

(* Every reachable state is typed, and its two stores agree.               *)
THEOREM BankInvariant == Spec => []BankInv
<1>1. TypeOK /\ StoresAgree => BankInv
    BY DEF BankInv
<1>2. QED
    BY <1>1, BankTypeCorrect, BankStoresAgree, PTL

(* The content of a registered version never changes and never goes.       *)
THEOREM BankContentImmutable == Spec => RegisteredContentImmutable
<1>1. TypeOK /\ StoresAgree /\ [Next]_vars =>
          [\A v \in DOMAIN rows :
              v \in DOMAIN content' /\ content'[v] = content[v]]_vars
    BY NextKeepsRegistered
<1>2. QED
    BY <1>1, BankTypeCorrect, BankStoresAgree, PTL DEF Spec, RegisteredContentImmutable

-----------------------------------------------------------------------------
(* The history and the audit.                                              *)

(* A new history row changes nothing that earlier rows say.                 *)
LEMMA StatusAfterAppend ==
    ASSUME NEW h \in Seq(HistoryRecord), NEW e \in HistoryRecord,
           NEW n \in 0 .. Len(h), NEW v
    PROVE  StatusAfter(Append(h, e), n, v) = StatusAfter(h, n, v)
<1>1. /\ DOMAIN h = 1 .. Len(h) /\ Len(h) \in Nat
      /\ DOMAIN Append(h, e) = 1 .. Len(h) + 1
      /\ \A i \in 1 .. Len(h) : Append(h, e)[i] = h[i]
    BY AppendAny
<1>2. {i \in StatusRows(Append(h, e), v) : i <= n} = {i \in StatusRows(h, v) : i <= n}
    BY <1>1 DEF StatusRows
<1>3. {i \in StatusRows(h, v) : i <= n} # {} =>
          LastOf({i \in StatusRows(h, v) : i <= n}) \in {i \in StatusRows(h, v) : i <= n}
    BY <1>1, LastOfIsLast DEF StatusRows
<1>4. \A i \in {j \in StatusRows(h, v) : j <= n} : Append(h, e)[i] = h[i]
    BY <1>1 DEF StatusRows
<1>5. QED
    BY <1>2, <1>3, <1>4 DEF StatusAfter

(* What the rows say of a version after one more: what the new one says, if *)
(* it is about that version, or what they said before.                     *)
LEMMA StatusAfterRow ==
    ASSUME NEW h \in Seq(HistoryRecord), NEW e \in HistoryRecord, NEW v
    PROVE  StatusAfter(Append(h, e), Len(h) + 1, v) =
               IF e.after = v /\ (e.from = NoStatus \/ e.before = v) THEN e.to
               ELSE StatusAfter(h, Len(h), v)
<1>1. /\ DOMAIN h = 1 .. Len(h) /\ Len(h) \in Nat
      /\ DOMAIN Append(h, e) = 1 .. Len(h) + 1
      /\ \A i \in 1 .. Len(h) : Append(h, e)[i] = h[i]
      /\ Append(h, e)[Len(h) + 1] = e
    BY AppendAny
<1> DEFINE idx == {i \in StatusRows(Append(h, e), v) : i <= Len(h) + 1}
<1>2. CASE e.after = v /\ (e.from = NoStatus \/ e.before = v)
  <2>1. Len(h) + 1 \in idx /\ idx \in SUBSET (1 .. Len(h) + 1)
    BY <1>1, <1>2 DEF StatusRows
  <2>2. PICK m \in Nat : m = Len(h) + 1
    BY <1>1
  <2>3. LastOf(idx) = Len(h) + 1
    <3> HIDE DEF idx
    <3>1. m \in idx /\ idx \in SUBSET (1 .. m) /\ idx # {}
      BY <2>1, <2>2
    <3>2. LastOf(idx) \in idx /\ \A j \in idx : j <= LastOf(idx)
      BY <3>1, LastOfIsLast
    <3>3. LastOf(idx) \in 1 .. m
      BY <3>1, <3>2
    <3>4. m <= LastOf(idx)
      BY <3>1, <3>2
    <3>5. QED
      BY <2>2, <3>3, <3>4
  <2>4. QED
    BY <1>1, <1>2, <2>1, <2>3 DEF StatusAfter
<1>3. CASE ~(e.after = v /\ (e.from = NoStatus \/ e.before = v))
  <2>1. idx = {i \in StatusRows(Append(h, e), v) : i <= Len(h)}
    <3>1. Len(h) + 1 \notin StatusRows(Append(h, e), v)
      BY <1>1, <1>3 DEF StatusRows
    <3>2. \A i \in StatusRows(Append(h, e), v) : i \in 1 .. Len(h) + 1
      BY <1>1 DEF StatusRows
    <3>3. \A i \in 1 .. Len(h) + 1 : i <= Len(h) \/ i = Len(h) + 1
      BY <1>1
    <3>4. QED
      BY <1>1, <3>1, <3>2, <3>3
  <2>2. StatusAfter(Append(h, e), Len(h) + 1, v) = StatusAfter(Append(h, e), Len(h), v)
    BY <2>1 DEF StatusAfter
  <2>3. Len(h) \in 0 .. Len(h)
    BY <1>1
  <2>4. QED
    BY <1>3, <2>2, <2>3, StatusAfterAppend
<1>4. QED
    BY <1>2, <1>3

(* What a transition read: its version had that status once, and the move   *)
(* is in the table.                                                        *)
Decided(w) ==
    LET r == req[w]
        status == seen[w][r.version].status
    IN  pc[w] = "commit" /\ r.op \in DOMAIN Target =>
            /\ <<status, Target[r.op]>> \in Transitions
            /\ \E n \in 1 .. Len(history) : StatusAfter(history, n, r.version) = status

(* A return to draft names another version.                                *)
NamesAnother(w) ==
    pc[w] # "idle" /\ req[w].op = "return_to_draft" => req[w].after # req[w].version

(* Records and history agree, and every transition was decided on a status  *)
(* its version had.                                                        *)
HistoryInv ==
    /\ StatusIsLastOfHistory
    /\ HistoryGrounded
    /\ \A w \in Workers : Decided(w) /\ NamesAnother(w)

(* One more row of the history, and the records it stands for.             *)
LEMMA RowKeepsHistory ==
    ASSUME TypeOK, HistoryInv, NEW e \in HistoryRecord, history' = Append(history, e),
           IF e.from = NoStatus
           THEN e.to = "draft" /\ StatusAfter(history, Len(history), e.after) = NoStatus
           ELSE /\ <<e.from, e.to>> \in Transitions
                /\ \E n \in 1 .. Len(history) : StatusAfter(history, n, e.before) = e.from,
           \A v \in Version :
               (IF v \in DOMAIN rows' THEN rows'[v].status ELSE NoStatus) =
                   IF e.after = v /\ (e.from = NoStatus \/ e.before = v) THEN e.to
                   ELSE IF v \in DOMAIN rows THEN rows[v].status ELSE NoStatus
    PROVE  /\ StatusIsLastOfHistory' /\ HistoryGrounded'
           /\ \A n \in 0 .. Len(history), v \in Version :
                  StatusAfter(history', n, v) = StatusAfter(history, n, v)
           /\ Len(history') = Len(history) + 1 /\ Len(history) \in Nat
<1>1. /\ history \in Seq(HistoryRecord)
      /\ DOMAIN history = 1 .. Len(history) /\ Len(history) \in Nat
      /\ DOMAIN history' = 1 .. Len(history) + 1 /\ Len(history') = Len(history) + 1
      /\ \A i \in 1 .. Len(history) : history'[i] = history[i]
      /\ history'[Len(history) + 1] = e
    BY AppendAny DEF TypeOK, StoresTyped
<1>2. \A n \in 0 .. Len(history) : \A v : StatusAfter(history', n, v) = StatusAfter(history, n, v)
    BY <1>1, StatusAfterAppend
<1>3. StatusIsLastOfHistory'
  <2>1. ASSUME NEW v \in Version
        PROVE  StatusAfter(history', Len(history) + 1, v) =
                   IF v \in DOMAIN rows' THEN rows'[v].status ELSE NoStatus
    <3>1. StatusAfter(history, Len(history), v) =
              IF v \in DOMAIN rows THEN rows[v].status ELSE NoStatus
      BY DEF HistoryInv, StatusIsLastOfHistory, StatusIsLastOf
    <3>2. StatusAfter(history', Len(history) + 1, v) =
               IF e.after = v /\ (e.from = NoStatus \/ e.before = v) THEN e.to
               ELSE StatusAfter(history, Len(history), v)
      BY <1>1, StatusAfterRow
    <3>3. QED
      BY <3>1, <3>2
  <2>2. QED
    BY <1>1, <2>1 DEF StatusIsLastOfHistory, StatusIsLastOf
<1>4. HistoryGrounded'
  <2>1. ASSUME NEW i \in 1 .. Len(history) + 1
        PROVE  IF history'[i].from = NoStatus
               THEN /\ history'[i].to = "draft"
                    /\ StatusAfter(history', i - 1, history'[i].after) = NoStatus
               ELSE /\ <<history'[i].from, history'[i].to>> \in Transitions
                    /\ \E n \in 1 .. i - 1 :
                          StatusAfter(history', n, history'[i].before) = history'[i].from
    <3>1. \A n \in 0 .. i - 1 : \A v : StatusAfter(history', n, v) = StatusAfter(history, n, v)
      BY <1>1, <1>2
    <3>2. i - 1 \in 0 .. i - 1 /\ \A n \in 1 .. i - 1 : n \in 0 .. i - 1
      BY <1>1
    <3>3. CASE i = Len(history) + 1
      <4>1. history'[i] = e /\ i - 1 = Len(history)
        BY <1>1, <3>3
      <4>2. QED
        BY <3>1, <3>2, <4>1
    <3>4. CASE i \in 1 .. Len(history)
      <4>1. history'[i] = history[i] /\ i \in DOMAIN history
        BY <1>1, <3>4
      <4>2. IF history[i].from = NoStatus
            THEN /\ history[i].to = "draft"
                 /\ StatusAfter(history, i - 1, history[i].after) = NoStatus
            ELSE /\ <<history[i].from, history[i].to>> \in Transitions
                 /\ \E n \in 1 .. i - 1 :
                       StatusAfter(history, n, history[i].before) = history[i].from
        BY <4>1 DEF HistoryInv, HistoryGrounded
      <4>3. /\ StatusAfter(history', i - 1, history[i].after) =
                   StatusAfter(history, i - 1, history[i].after)
            /\ \A n \in 1 .. i - 1 : StatusAfter(history', n, history[i].before) =
                                          StatusAfter(history, n, history[i].before)
        BY <3>1, <3>2
      <4>4. CASE history[i].from = NoStatus
        BY <4>1, <4>2, <4>3, <4>4
      <4>5. CASE history[i].from # NoStatus
        <5>1. PICK n \in 1 .. i - 1 :
                  StatusAfter(history, n, history[i].before) = history[i].from
          BY <4>2, <4>5
        <5>2. StatusAfter(history', n, history[i].before) = history[i].from
          BY <4>3, <5>1
        <5>3. <<history[i].from, history[i].to>> \in Transitions
          BY <4>2, <4>5
        <5>4. QED
          BY <4>1, <4>5, <5>2, <5>3
      <4>6. QED
        BY <4>4, <4>5
    <3>5. i \in 1 .. Len(history) \/ i = Len(history) + 1
      BY <1>1
    <3>6. QED
      BY <3>3, <3>4, <3>5
  <2>2. QED
    BY <1>1, <2>1 DEF HistoryGrounded
<1>5. QED
    BY <1>1, <1>2, <1>3, <1>4

(* Steps that write no history keep it; a worker goes on with what it has,  *)
(* or reads the record as it is.                                           *)
LEMMA QuietKeepsHistory ==
    ASSUME TypeOK, HistoryInv, history' = history,
           \A v \in Version :
               (IF v \in DOMAIN rows' THEN rows'[v].status ELSE NoStatus) =
                   IF v \in DOMAIN rows THEN rows[v].status ELSE NoStatus,
           \A w \in Workers :
               /\ NamesAnother(w)'
               /\ \/ pc'[w] # "commit"
                  \/ req'[w].op \notin DOMAIN Target
                  \/ pc[w] = "commit" /\ req'[w] = req[w] /\ seen'[w] = seen[w]
                  \/ Decided(w)'
    PROVE  HistoryInv'
<1>1. StatusIsLastOfHistory' /\ HistoryGrounded'
    BY DEF HistoryInv, StatusIsLastOfHistory, StatusIsLastOf, HistoryGrounded
<1>2. \A w \in Workers : Decided(w)'
    BY DEF HistoryInv, Decided
<1>3. QED
    BY <1>1, <1>2 DEF HistoryInv

LEMMA InitHistory == Init => HistoryInv /\ AuditTellsTheFlags
<1> SUFFICES ASSUME Init PROVE HistoryInv /\ AuditTellsTheFlags
    OBVIOUS
<1>1. DOMAIN history = {} /\ DOMAIN rows = {}
    BY DEF Init
<1>2. \A n, v : StatusAfter(history, n, v) = NoStatus
    BY <1>1 DEF StatusAfter, StatusRows
<1>3. StatusIsLastOfHistory /\ HistoryGrounded
    BY <1>1, <1>2 DEF StatusIsLastOfHistory, StatusIsLastOf, HistoryGrounded
<1>4. \A w \in Workers : Decided(w) /\ NamesAnother(w)
    BY DEF Init, Decided, NamesAnother
<1>5. QED
    BY <1>1, <1>3, <1>4 DEF HistoryInv, AuditTellsTheFlags

LEMMA ReceiveKeepsHistory ==
    ASSUME TypeOK, HistoryInv, NEW w \in Workers, NEW r \in Requests, Receive(w, r)
    PROVE  HistoryInv'
<1>1. /\ history' = history /\ rows' = rows
      /\ req' = [req EXCEPT ![w] = r]
    BY DEF Receive, tables
<1>2. /\ pc' \in [Workers -> PC] /\ DOMAIN seen' = Workers
      /\ pc'[w] # "commit"
      /\ pc'[w] # "idle" => Refusal(r) = "none"
      /\ \A x \in Workers : x # w => pc'[x] = pc[x] /\ seen'[x] = seen[x]
  <2>1. CASE Refusal(r) # "none"
    BY <2>1 DEF Receive, Finish, Goto, TypeOK, RequestsTyped, PC
  <2>2. CASE Refusal(r) = "none"
    <3>1. FirstStep(r.op) \in PC \ {"commit"}
      BY DEF FirstStep, PC
    <3>2. QED
      BY <2>2, <3>1 DEF Receive, Goto, TypeOK, RequestsTyped
  <2>3. QED
    BY <2>1, <2>2
<1>3. \A x \in Workers : req'[x] = IF x = w THEN r ELSE req[x]
    BY <1>1 DEF TypeOK, RequestsTyped
<1>4. Refusal(r) = "none" /\ r.op = "return_to_draft" => r.after # r.version
    BY DEF Refusal
<1>5. \A x \in Workers : NamesAnother(x)'
    BY <1>2, <1>3, <1>4 DEF HistoryInv, NamesAnother
<1>6. \A x \in Workers : \/ pc'[x] # "commit"
                         \/ pc[x] = "commit" /\ req'[x] = req[x] /\ seen'[x] = seen[x]
    BY <1>2, <1>3
<1>7. QED
    BY <1>1, <1>5, <1>6, QuietKeepsHistory

(* A step of a request after which it is answered, or goes on with the      *)
(* versions it writes.                                                     *)
LEMMA OthersUndecided ==
    ASSUME TypeOK, HistoryInv, NEW w \in Workers, req' = req, history' = history, rows' = rows,
           pc[w] # "idle",
           \E step \in PC \ {"commit"} : Goto(w, step),
           \A x \in Workers : x # w => seen'[x] = seen[x]
    PROVE  HistoryInv'
<1>1. /\ pc'[w] # "commit"
      /\ \A x \in Workers : x # w => pc'[x] = pc[x]
    BY DEF Goto, TypeOK, RequestsTyped
<1>2. \A x \in Workers : NamesAnother(x)'
    BY <1>1 DEF HistoryInv, NamesAnother
<1>3. QED
    BY <1>1, <1>2, QuietKeepsHistory

LEMMA OtherStepsKeepHistory ==
    ASSUME TypeOK, HistoryInv, NEW w \in Workers,
           \/ ReadTags(w) \/ ReadLatest(w) \/ Save(w) \/ Load(w)
           \/ Insert(w) /\ RegistrationRefused(w, "duplicate") /\ UNCHANGED tables
           \/ Compensate(w) \/ Failure(w)
           \/ (FetchRecord(w) \/ FetchRows(w)) /\ (\E k \in ReplyKind : Finish(w, k, NoVersion))
    PROVE  HistoryInv'
<1>1. req' = req /\ history' = history /\ rows' = rows /\ pc[w] # "idle"
    BY DEF ReadTags, ReadLatest, Save, Load, Insert, Compensate, Failure, SaveFails, InsertFails,
       CompensateFails, CommitFails, FetchRecord, FetchRows, tables
<1>2. ASSUME NEW k, NEW v, Finish(w, k, v)
      PROVE  /\ \E step \in PC \ {"commit"} : Goto(w, step)
             /\ \A x \in Workers : x # w => seen'[x] = seen[x]
    BY <1>2 DEF Finish, PC, TypeOK, RequestsTyped
<1>3. ASSUME NEW step \in PC \ {"commit"}, Goto(w, step), seen' = seen
      PROVE  /\ \E s \in PC \ {"commit"} : Goto(w, s)
             /\ \A x \in Workers : x # w => seen'[x] = seen[x]
    BY <1>3
<1>4. /\ \E step \in PC \ {"commit"} : Goto(w, step)
      /\ \A x \in Workers : x # w => seen'[x] = seen[x]
  <2>1. (\E k, v : Finish(w, k, v))
        \/ ((\E step \in PC \ {"commit"} : Goto(w, step)) /\ seen' = seen)
    BY DEF ReadTags, ReadLatest, Save, Load, Insert, Compensate, Failure, SaveFails, InsertFails,
       CompensateFails, CommitFails, RegistrationRefused, PC
  <2>2. QED
    BY <2>1, <1>2, <1>3
<1>5. QED
    BY <1>1, <1>4, OthersUndecided

(* What was read is the status its version has by the history.              *)
LEMMA FetchKeepsHistory ==
    ASSUME TypeOK, HistoryInv, NEW w \in Workers, FetchRecord(w) \/ FetchRows(w),
           Goto(w, "commit"), seen' = [seen EXCEPT ![w] = rows]
    PROVE  HistoryInv'
<1>1. /\ req' = req /\ history' = history /\ rows' = rows
      /\ pc[w] \in {"fetch", "rows"}
      /\ pc' = [pc EXCEPT ![w] = "commit"] /\ pc \in [Workers -> PC]
      /\ DOMAIN seen = Workers
    BY DEF FetchRecord, FetchRows, tables, Goto, TypeOK, RequestsTyped
<1>2. \A x \in Workers : x # w => pc'[x] = pc[x] /\ seen'[x] = seen[x]
    BY <1>1
<1>3. pc'[w] = "commit" /\ seen'[w] = rows
    BY <1>1
<1>4. \A x \in Workers : NamesAnother(x)'
    BY <1>1, <1>2, <1>3 DEF HistoryInv, NamesAnother
<1>5. ASSUME req[w].op \in DOMAIN Target PROVE Decided(w)'
  <2>1. FetchRecord(w)
    <3>1. pc[w] = "rows" => req[w].op \in FlagOps
      BY RequestsTypedSplits DEF TypeOK, RequestTyped
    <3>2. req[w].op \notin FlagOps
      BY <1>5 DEF FlagOps, Target
    <3>3. QED
      BY <3>1, <3>2 DEF FetchRows
  <2>2. PICK v : v = req[w].version
    OBVIOUS
  <2>3. /\ v \in DOMAIN rows
        /\ <<rows[v].status, Target[req[w].op]>> \in Transitions
    BY <1>3, <2>1, <2>2 DEF FetchRecord, Finish, Goto, TypeOK, RequestsTyped
  <2>4. v \in Version /\ rows[v].status \in Status
    BY <2>3 DEF TypeOK, StoresTyped, Row
  <2>5. StatusAfter(history, Len(history), v) = rows[v].status
    BY <2>3, <2>4 DEF HistoryInv, StatusIsLastOfHistory, StatusIsLastOf
  <2>6. Len(history) \in 1 .. Len(history)
    <3>1. Len(history) \in Nat /\ DOMAIN history = 1 .. Len(history)
      BY AppendAny DEF TypeOK, StoresTyped
    <3>2. Len(history) # 0
      <4>1. SUFFICES ASSUME Len(history) = 0 PROVE FALSE
        OBVIOUS
      <4>2. DOMAIN history = {}
        BY <3>1, <4>1
      <4>3. StatusAfter(history, Len(history), v) = NoStatus
        BY <4>2 DEF StatusAfter, StatusRows
      <4>4. QED
        BY <2>4, <2>5, <4>3, NoStatusAssumption
    <3>3. QED
      BY <3>1, <3>2
  <2>7. QED
    BY <1>1, <1>3, <2>2, <2>3, <2>5, <2>6 DEF Decided
<1>6. ASSUME NEW x \in Workers
      PROVE  \/ pc'[x] # "commit"
             \/ req'[x].op \notin DOMAIN Target
             \/ pc[x] = "commit" /\ req'[x] = req[x] /\ seen'[x] = seen[x]
             \/ Decided(x)'
    BY <1>1, <1>2, <1>5
<1>7. QED
    BY <1>1, <1>4, <1>6, QuietKeepsHistory

(* After a new row, what the others decided on is still grounded.           *)
LEMMA AnswerAfterRow ==
    ASSUME TypeOK, HistoryInv, NEW w \in Workers, req' = req,
           \E k, v : Finish(w, k, v),
           StatusIsLastOfHistory' /\ HistoryGrounded',
           \A n \in 0 .. Len(history), v \in Version :
               StatusAfter(history', n, v) = StatusAfter(history, n, v),
           Len(history') = Len(history) + 1 /\ Len(history) \in Nat
    PROVE  HistoryInv'
<1>1. /\ pc'[w] = "idle"
      /\ \A x \in Workers : x # w => pc'[x] = pc[x] /\ seen'[x] = seen[x]
    BY DEF Finish, Goto, TypeOK, RequestsTyped
<1>2. \A x \in Workers : NamesAnother(x)'
    BY <1>1 DEF HistoryInv, NamesAnother
<1>3. ASSUME NEW x \in Workers, x # w PROVE Decided(x)'
  <2>1. SUFFICES ASSUME pc[x] = "commit", req[x].op \in DOMAIN Target
                 PROVE  Decided(x)'
    BY <1>1, <1>3 DEF Decided
  <2>2. req[x].version \in Version
    BY <2>1, RequestsTypedSplits, RequestsAssumption DEF TypeOK, RequestTyped
  <2>3. /\ <<seen[x][req[x].version].status, Target[req[x].op]>> \in Transitions
        /\ \E n \in 1 .. Len(history) :
              StatusAfter(history, n, req[x].version) = seen[x][req[x].version].status
    BY <2>1 DEF HistoryInv, Decided
  <2>4. PICK n \in 1 .. Len(history) :
              StatusAfter(history, n, req[x].version) = seen[x][req[x].version].status
    BY <2>3
  <2>5. n \in 1 .. Len(history') /\ n \in 0 .. Len(history)
    OBVIOUS
  <2>6. StatusAfter(history', n, req[x].version) = seen[x][req[x].version].status
    BY <2>2, <2>4, <2>5
  <2>7. QED
    BY <1>1, <1>3, <2>1, <2>3, <2>5, <2>6 DEF Decided
<1>4. Decided(w)'
    BY <1>1 DEF Decided
<1>5. QED
    BY <1>2, <1>3, <1>4 DEF HistoryInv

LEMMA InsertKeepsHistory ==
    ASSUME TypeOK, HistoryInv, NEW w \in Workers, Insert(w) PROVE HistoryInv'
<1>1. CASE RegistrationRefused(w, "duplicate") /\ UNCHANGED tables
    BY <1>1, OtherStepsKeepHistory
<1>2. CASE ~(RegistrationRefused(w, "duplicate") /\ UNCHANGED tables)
  <2>1. PICK e, v :
            /\ e = HistoryRow(NoStatus, "draft", made[w].base, v, req[w].role)
            /\ v = made[w].version
    OBVIOUS
  <2>2. /\ v \notin DOMAIN rows /\ rows' = Put(rows, v, DraftRow)
        /\ history' = Append(history, e) /\ req' = req
        /\ \E k : Finish(w, k, v)
    BY <1>2, <2>1 DEF Insert
  <2>3. /\ v \in Version /\ made[w].base \in Version \cup {NoVersion}
        /\ req[w] \in Requests /\ req[w].role \in Role
    BY <2>1, RequestsTypedSplits, RequestsAssumption
    DEF TypeOK, RequestTyped, Insert, Holding, RequestsTyped, MadeRecord
  <2>4. /\ e \in HistoryRecord /\ e.from = NoStatus /\ e.to = "draft" /\ e.after = v
    BY <2>1, <2>3 DEF HistoryRow, HistoryRecord, Status
  <2>5. StatusAfter(history, Len(history), e.after) = NoStatus
    BY <2>2, <2>3, <2>4 DEF HistoryInv, StatusIsLastOfHistory, StatusIsLastOf
  <2>6. \A u \in Version :
            (IF u \in DOMAIN rows' THEN rows'[u].status ELSE NoStatus) =
                IF e.after = u /\ (e.from = NoStatus \/ e.before = u) THEN e.to
                ELSE IF u \in DOMAIN rows THEN rows[u].status ELSE NoStatus
    BY <2>2, <2>4 DEF Put, DraftRow
  <2>7. QED
    BY <2>2, <2>4, <2>5, <2>6, RowKeepsHistory, AnswerAfterRow
<1>3. QED
    BY <1>1, <1>2

(* A transition writes the status it asks for, and a row that starts from   *)
(* the one it read; a return to draft is a row about no version.           *)
LEMMA TransitionKeepsHistory ==
    ASSUME TypeOK, HistoryInv, NEW w \in Workers, CommitTransition(w) PROVE HistoryInv'
<1>1. PICK v, to, after, from, e :
          /\ v = req[w].version /\ to = Target[req[w].op]
          /\ after = IF req[w].op = "return_to_draft" THEN req[w].after ELSE v
          /\ from = seen[w][v].status
          /\ e = HistoryRow(from, to, v, after, req[w].role)
    OBVIOUS
<1>2. /\ req[w].op \in DOMAIN Target /\ pc[w] = "commit" /\ req' = req
      /\ rows' = IF req[w].op = "return_to_draft" THEN rows
                 ELSE [rows EXCEPT ![v].status = to]
      /\ history' = Append(history, e)
      /\ Finish(w, "moved", v)
    BY <1>1 DEF CommitTransition
<1>3. /\ req[w] \in Requests
      /\ v \in DOMAIN seen[w] /\ DOMAIN seen[w] \subseteq DOMAIN rows
      /\ seen[w] \in [DOMAIN seen[w] -> Row]
    BY <1>1, <1>2, RequestsTypedSplits DEF TypeOK, RequestTyped
<1>4. v \in Version /\ after \in Version /\ req[w].role \in Role /\ to \in Status
    BY <1>1, <1>2, <1>3, RequestsAssumption DEF Target, Status
<1>5. from \in Status /\ from # NoStatus
    BY <1>1, <1>3, NoStatusAssumption DEF Row
<1>6. /\ e \in HistoryRecord /\ e.from = from /\ e.to = to /\ e.before = v /\ e.after = after
    BY <1>1, <1>4, <1>5 DEF HistoryRow, HistoryRecord
<1>7. /\ <<e.from, e.to>> \in Transitions
      /\ \E n \in 1 .. Len(history) : StatusAfter(history, n, e.before) = e.from
    BY <1>1, <1>2, <1>6 DEF HistoryInv, Decided
<1>8. req[w].op = "return_to_draft" => after # v
    BY <1>1, <1>2 DEF HistoryInv, NamesAnother
<1>9. \A u \in Version :
          (IF u \in DOMAIN rows' THEN rows'[u].status ELSE NoStatus) =
              IF e.after = u /\ (e.from = NoStatus \/ e.before = u) THEN e.to
              ELSE IF u \in DOMAIN rows THEN rows[u].status ELSE NoStatus
  <2>1. CASE req[w].op = "return_to_draft"
    BY <1>2, <1>5, <1>6, <1>8, <2>1
  <2>2. CASE req[w].op # "return_to_draft"
    <3>1. /\ DOMAIN rows' = DOMAIN rows /\ v \in DOMAIN rows
          /\ rows'[v].status = to
          /\ \A u \in DOMAIN rows : u # v => rows'[u] = rows[u]
      BY <1>2, <1>3, <2>2 DEF TypeOK, StoresTyped, Row
    <3>2. e.after = v
      BY <1>1, <1>6, <2>2
    <3>3. QED
      BY <1>5, <1>6, <3>1, <3>2
  <2>3. QED
    BY <2>1, <2>2
<1>10. QED
    BY <1>2, <1>5, <1>6, <1>7, <1>9, RowKeepsHistory, AnswerAfterRow

LEMMA FlagsKeepHistory ==
    ASSUME TypeOK, HistoryInv, NEW w \in Workers, CommitFlags(w) PROVE HistoryInv'
<1>1. /\ req' = req /\ history' = history /\ rows' = SetAll(rows, req[w].op)
      /\ Finish(w, "flagged", NoVersion)
    BY DEF CommitFlags
<1>2. /\ pc'[w] = "idle"
      /\ \A x \in Workers : x # w => pc'[x] = pc[x] /\ seen'[x] = seen[x]
    BY <1>1 DEF Finish, Goto, TypeOK, RequestsTyped
<1>3. \A x \in Workers : NamesAnother(x)'
    BY <1>1, <1>2 DEF HistoryInv, NamesAnother
<1>4. DOMAIN rows' = DOMAIN rows /\ \A u \in DOMAIN rows : rows'[u].status = rows[u].status
    BY <1>1 DEF SetAll, Flagged, TypeOK, StoresTyped, Row
<1>5. \A u \in Version :
          (IF u \in DOMAIN rows' THEN rows'[u].status ELSE NoStatus) =
              IF u \in DOMAIN rows THEN rows[u].status ELSE NoStatus
    BY <1>4
<1>6. QED
    BY <1>1, <1>2, <1>3, <1>5, QuietKeepsHistory

LEMMA NextKeepsHistory == TypeOK /\ HistoryInv /\ [Next]_vars => HistoryInv'
<1> SUFFICES ASSUME TypeOK, HistoryInv, [Next]_vars PROVE HistoryInv'
    OBVIOUS
<1>1. CASE UNCHANGED vars
    BY <1>1 DEF vars, HistoryInv, StatusIsLastOfHistory, StatusIsLastOf, HistoryGrounded,
       Decided, NamesAnother
<1>2. CASE Crash
  <2>1. /\ history' = history /\ rows' = rows /\ req' = req
        /\ \A x \in Workers : pc'[x] = "idle"
    BY <1>2 DEF Crash, tables
  <2>2. \A x \in Workers : NamesAnother(x)'
    BY <2>1 DEF NamesAnother
  <2>3. QED
    BY <2>1, <2>2, QuietKeepsHistory
<1>3. ASSUME NEW w \in Workers, NEW r \in Requests, Receive(w, r) PROVE HistoryInv'
    BY <1>3, ReceiveKeepsHistory
<1>4. ASSUME NEW w \in Workers, FetchRecord(w) \/ FetchRows(w) PROVE HistoryInv'
  <2>1. \/ \E k \in ReplyKind : Finish(w, k, NoVersion)
        \/ Goto(w, "commit") /\ seen' = [seen EXCEPT ![w] = rows]
    BY <1>4 DEF FetchRecord, FetchRows, ReplyKind
  <2>2. QED
    BY <1>4, <2>1, FetchKeepsHistory, OtherStepsKeepHistory
<1>5. ASSUME NEW w \in Workers, Step(w) \/ Failure(w), ~FetchRecord(w), ~FetchRows(w)
      PROVE  HistoryInv'
    BY <1>5, OtherStepsKeepHistory, InsertKeepsHistory, TransitionKeepsHistory, FlagsKeepHistory
    DEF Step
<1>6. QED
    BY <1>1, <1>2, <1>3, <1>4, <1>5 DEF Next

(* What one more audit row says of the flags of a version.                  *)
LEMMA AuditAppend ==
    ASSUME NEW S, NEW a \in Seq(S), NEW e, NEW v
    PROVE  /\ DeletedPerAudit(Append(a, e), v) =
                  IF e.op \in {"soft_delete", "restore"} /\ v \in DOMAIN e.read
                  THEN e.op = "soft_delete" ELSE DeletedPerAudit(a, v)
           /\ ArchivedPerAudit(Append(a, e), v) =
                  ((e.op = "archive" /\ v \in DOMAIN e.read) \/ ArchivedPerAudit(a, v))
<1>1. PICK n, m, b :
          /\ n \in Nat /\ m \in Nat
          /\ n = Len(a) /\ m = n + 1 /\ b = Append(a, e)
          /\ DOMAIN a = 1 .. n /\ DOMAIN b = 1 .. m
          /\ \A i \in 1 .. n : b[i] = a[i]
          /\ b[m] = e
  <2>1. /\ Len(a) \in Nat
        /\ DOMAIN a = 1 .. Len(a)
        /\ DOMAIN Append(a, e) = 1 .. Len(a) + 1
        /\ \A i \in 1 .. Len(a) : Append(a, e)[i] = a[i]
        /\ Append(a, e)[Len(a) + 1] = e
    BY AppendAny
  <2>2. PICK n : n = Len(a)
    OBVIOUS
  <2>3. PICK b : b = Append(a, e)
    OBVIOUS
  <2>4. n \in Nat /\ n + 1 \in Nat
    BY <2>1, <2>2
  <2>5. QED
    BY <2>1, <2>2, <2>3, <2>4
<1>2. ASSUME NEW ops
      PROVE  Covering(b, v, ops) = Covering(a, v, ops) \cup
                 (IF e.op \in ops /\ v \in DOMAIN e.read THEN {m} ELSE {})
  <2>1. \A i : i \in DOMAIN b <=> i \in DOMAIN a \/ i = m
    BY <1>1
  <2>2. m \notin DOMAIN a
    BY <1>1
  <2>3. QED
    BY <1>1, <2>1, <2>2 DEF Covering
<1>3. ArchivedPerAudit(b, v) =
          ((e.op = "archive" /\ v \in DOMAIN e.read) \/ ArchivedPerAudit(a, v))
    BY <1>2 DEF ArchivedPerAudit
<1>4. PICK idx, old :
          /\ idx = Covering(b, v, {"soft_delete", "restore"})
          /\ old = Covering(a, v, {"soft_delete", "restore"})
    OBVIOUS
<1>5. old \in SUBSET (1 .. n)
    BY <1>1, <1>4 DEF Covering
<1>6. DeletedPerAudit(b, v) =
          IF e.op \in {"soft_delete", "restore"} /\ v \in DOMAIN e.read
          THEN e.op = "soft_delete" ELSE DeletedPerAudit(a, v)
  <2>1. CASE e.op \in {"soft_delete", "restore"} /\ v \in DOMAIN e.read
    <3>1. idx = old \cup {m}
      BY <1>2, <1>4, <2>1
    <3>2. m \in idx /\ idx \in SUBSET (1 .. m) /\ idx # {}
      <4>1. m \in 1 .. m /\ \A i \in 1 .. n : i \in 1 .. m
        BY <1>1
      <4>2. QED
        BY <1>5, <3>1, <4>1
    <3>3. LastOf(idx) \in idx /\ \A j \in idx : j <= LastOf(idx)
      BY <1>1, <3>2, LastOfIsLast
    <3>4. LastOf(idx) \in 1 .. m
      BY <3>2, <3>3
    <3>5. m <= LastOf(idx)
      BY <3>2, <3>3
    <3>6. LastOf(idx) = m
      BY <1>1, <3>4, <3>5
    <3>7. QED
      BY <1>1, <1>4, <2>1, <3>2, <3>6 DEF DeletedPerAudit
  <2>2. CASE ~(e.op \in {"soft_delete", "restore"} /\ v \in DOMAIN e.read)
    <3>1. idx = old
      BY <1>2, <1>4, <2>2
    <3>2. old # {} => LastOf(old) \in old
      BY <1>1, <1>5, LastOfIsLast
    <3>3. old # {} => b[LastOf(old)] = a[LastOf(old)]
      BY <1>1, <1>5, <3>2
    <3>4. QED
      BY <1>4, <2>2, <3>1, <3>3 DEF DeletedPerAudit
  <2>3. QED
    BY <2>1, <2>2
<1>7. QED
    BY <1>1, <1>3, <1>6

(* Versions all of whose flagging transactions have read them.              *)
AlwaysRead(v) == \A i \in DOMAIN audit : v \in DOMAIN audit[i].read

LEMMA QuietKeepsAudit ==
    ASSUME AuditTellsTheFlags, audit' = audit,
           \A v \in DOMAIN rows' : AlwaysRead(v) =>
               \/ v \in DOMAIN rows /\ rows'[v].deleted = rows[v].deleted
                                    /\ rows'[v].archived = rows[v].archived
               \/ DOMAIN audit = {} /\ rows'[v] = DraftRow
    PROVE  AuditTellsTheFlags'
<1>1. ASSUME NEW v \in DOMAIN rows', AlwaysRead(v)
      PROVE  FlagsAreTold(rows'[v], audit, v)
  <2>1. CASE v \in DOMAIN rows /\ rows'[v].deleted = rows[v].deleted
                               /\ rows'[v].archived = rows[v].archived
    <3>1. FlagsAreTold(rows[v], audit, v)
      BY <1>1, <2>1 DEF AuditTellsTheFlags, AlwaysRead
    <3>2. QED
      BY <2>1, <3>1 DEF FlagsAreTold
  <2>2. CASE DOMAIN audit = {} /\ rows'[v] = DraftRow
    <3>1. \A ops : Covering(audit, v, ops) = {}
      BY <2>2 DEF Covering
    <3>2. DeletedPerAudit(audit, v) = FALSE /\ ArchivedPerAudit(audit, v) = FALSE
      BY <3>1 DEF DeletedPerAudit, ArchivedPerAudit
    <3>3. rows'[v].deleted = FALSE /\ rows'[v].archived = FALSE
      BY <2>2 DEF DraftRow
    <3>4. QED
      BY <3>2, <3>3 DEF FlagsAreTold
  <2>3. QED
    BY <1>1, <2>1, <2>2
<1>2. QED
    BY <1>1 DEF AuditTellsTheFlags, AlwaysRead

LEMMA FlagsKeepAudit ==
    ASSUME TypeOK, AuditTellsTheFlags, NEW w \in Workers, CommitFlags(w)
    PROVE  AuditTellsTheFlags'
<1>1. PICK op, e : op = req[w].op /\ e = AuditRows(op, req[w].role, seen[w])
    OBVIOUS
<1>2. /\ op \in FlagOps /\ rows' = SetAll(rows, op) /\ audit' = Append(audit, e)
      /\ e.op = op /\ e.read = seen[w]
    BY <1>1 DEF CommitFlags, AuditRows
<1>3. audit \in Seq({audit[i] : i \in DOMAIN audit})
    BY DEF TypeOK, StoresTyped
<1>4. ASSUME NEW v \in DOMAIN rows', \A i \in DOMAIN audit' : v \in DOMAIN audit'[i].read
      PROVE  FlagsAreTold(rows'[v], audit', v)
  <2>1. /\ v \in DOMAIN e.read
        /\ \A i \in DOMAIN audit : v \in DOMAIN audit[i].read
    <3>1. /\ DOMAIN audit = 1 .. Len(audit) /\ Len(audit) \in Nat
          /\ DOMAIN audit' = 1 .. Len(audit) + 1
          /\ \A i \in 1 .. Len(audit) : audit'[i] = audit[i]
          /\ audit'[Len(audit) + 1] = e
      BY <1>2, <1>3, AppendAny
    <3>2. Len(audit) + 1 \in DOMAIN audit' /\ \A i \in DOMAIN audit : i \in DOMAIN audit'
      BY <3>1
    <3>3. QED
      BY <1>4, <3>1, <3>2
  <2>2. v \in DOMAIN rows /\ rows'[v] = Flagged(rows[v], op) /\ rows[v] \in Row
    BY <1>2, <1>4 DEF SetAll, TypeOK, StoresTyped
  <2>3. FlagsAreTold(rows[v], audit, v)
    BY <2>1, <2>2 DEF AuditTellsTheFlags
  <2>4. rows'[v].deleted = IF op = "archive" THEN rows[v].deleted ELSE op = "soft_delete"
    BY <2>2 DEF Flagged, Row
  <2>5. rows'[v].archived = IF op = "archive" THEN TRUE ELSE rows[v].archived
    BY <2>2 DEF Flagged, Row
  <2>6. rows'[v].deleted = DeletedPerAudit(audit', v)
    BY <1>2, <1>3, <2>1, <2>3, <2>4, AuditAppend DEF FlagsAreTold, FlagOps
  <2>7. rows'[v].archived = ArchivedPerAudit(audit', v)
    <3>1. ArchivedPerAudit(audit', v) = (op = "archive" \/ ArchivedPerAudit(audit, v))
      BY <1>2, <1>3, <2>1, AuditAppend
    <3>2. rows[v].archived = ArchivedPerAudit(audit, v)
      BY <2>3 DEF FlagsAreTold
    <3>3. CASE op = "archive"
      BY <2>5, <3>1, <3>3
    <3>4. CASE op # "archive"
      <4>1. ArchivedPerAudit(audit', v) = ArchivedPerAudit(audit, v)
        BY <3>1, <3>4 DEF ArchivedPerAudit
      <4>2. QED
        BY <2>5, <3>2, <3>4, <4>1
    <3>5. QED
      BY <3>3, <3>4
  <2>8. QED
    BY <2>6, <2>7 DEF FlagsAreTold
<1>5. QED
    BY <1>4 DEF AuditTellsTheFlags

LEMMA NextKeepsAudit == TypeOK /\ AuditTellsTheFlags /\ [Next]_vars => AuditTellsTheFlags'
<1> SUFFICES ASSUME TypeOK, AuditTellsTheFlags, [Next]_vars PROVE AuditTellsTheFlags'
    OBVIOUS
<1>1. CASE audit' = audit /\ rows' = rows
    BY <1>1, QuietKeepsAudit
<1>2. ASSUME NEW w \in Workers, CommitFlags(w) PROVE AuditTellsTheFlags'
    BY <1>2, FlagsKeepAudit
<1>3. ASSUME NEW w \in Workers, Insert(w) PROVE AuditTellsTheFlags'
  <2>1. CASE UNCHANGED tables
    BY <1>1, <2>1 DEF tables
  <2>2. CASE ~ UNCHANGED tables
    <3>1. PICK v : v = made[w].version
      OBVIOUS
    <3>2. v \notin DOMAIN rows /\ rows' = Put(rows, v, DraftRow) /\ audit' = audit
      BY <1>3, <2>2, <3>1 DEF Insert
    <3>3. AlwaysRead(v) => DOMAIN audit = {}
      BY <3>2 DEF AlwaysRead, TypeOK, StoresTyped
    <3>4. QED
      BY <3>2, <3>3, QuietKeepsAudit DEF Put
  <2>3. QED
    BY <2>1, <2>2
<1>4. ASSUME NEW w \in Workers, CommitTransition(w) PROVE AuditTellsTheFlags'
  <2>1. /\ audit' = audit
        /\ rows' = rows \/ rows' = [rows EXCEPT ![req[w].version].status = Target[req[w].op]]
    BY <1>4 DEF CommitTransition
  <2>2. /\ DOMAIN rows' = DOMAIN rows
        /\ \A v \in DOMAIN rows : rows'[v].deleted = rows[v].deleted
                                  /\ rows'[v].archived = rows[v].archived
    <3>1. rows \in [DOMAIN rows -> Row]
      BY DEF TypeOK, StoresTyped
    <3>2. CASE rows' = rows
      BY <3>2
    <3>3. PICK u, to : u = req[w].version /\ to = Target[req[w].op]
      OBVIOUS
    <3>4. CASE rows' = [rows EXCEPT ![u].status = to]
      <4>1. /\ DOMAIN rows' = DOMAIN rows
            /\ \A v \in DOMAIN rows :
                  rows'[v] = IF v = u THEN [rows[v] EXCEPT !.status = to] ELSE rows[v]
        BY <3>1, <3>4
      <4>2. \A r \in Row : /\ [r EXCEPT !.status = to].deleted = r.deleted
                           /\ [r EXCEPT !.status = to].archived = r.archived
        BY DEF Row
      <4>3. QED
        BY <3>1, <4>1, <4>2
    <3>5. QED
      BY <2>1, <3>2, <3>3, <3>4
  <2>3. QED
    BY <2>1, <2>2, QuietKeepsAudit
<1>5. ASSUME NEW w \in Workers, Step(w) \/ Failure(w),
             ~CommitFlags(w), ~Insert(w), ~CommitTransition(w)
      PROVE  audit' = audit /\ rows' = rows
    BY <1>5 DEF Step, Failure, ReadTags, ReadLatest, Save, Load, Compensate, FetchRecord,
       FetchRows, SaveFails, InsertFails, CompensateFails, CommitFails, tables
<1>6. QED
    BY <1>1, <1>2, <1>3, <1>4, <1>5 DEF Next, vars, Receive, Crash, tables

(* Records, status history and lifecycle audit tell one story: every        *)
(* record has the status its history ends with, every row of the history is *)
(* a legal move from a status its version had, and flags are as the audit   *)
(* tells, however the reads and the transactions of service.py interleave,  *)
(* fail or are cut off by a restart.                                       *)
THEOREM BankAuditsAgree == Spec => []AuditsAgree
<1>1. HistoryInv /\ AuditTellsTheFlags => AuditsAgree
    BY DEF HistoryInv, AuditsAgree
<1>2. QED
    BY <1>1, InitTyped, NextTyped, InitHistory, NextKeepsHistory, NextKeepsAudit, PTL DEF Spec

-----------------------------------------------------------------------------
(* Revisions, where no registration fails and no process dies.             *)

NoRegistrationFails == Failures \cap {"insert", "crash"} = {}

(* An update of a PATCH adds the version after the one it read, which is    *)
(* still there.                                                            *)
ExtendsItsBase(w) ==
    req[w].op = "patch" =>
        /\ pc[w] = "read" => patch[w] = req[w].patch
        /\ pc[w] \in {"save", "insert"} =>
              /\ made[w].base \in DOMAIN content
              /\ made[w].version = made[w].base + 1
              /\ made[w].content = Merge(content[made[w].base], req[w].patch)

UpdatedStays ==
    \A w \in Workers :
        reply[w].kind = "updated" /\ req[w].op = "patch" => reply[w].version \in DOMAIN content

KeptInv ==
    /\ OrphansAreOwned
    /\ UpdatesExtendTheirBase
    /\ UpdatedStays
    /\ \A w \in Workers :
          /\ ExtendsItsBase(w)
          /\ pc[w] # "compensate"
          /\ pc[w] = "load" => req[w].op \in CreateOps

LEMMA InitKept == Init => KeptInv
BY DEF Init, KeptInv, OrphansAreOwned, UpdatesExtendTheirBase, UpdatedStays, ExtendsItsBase,
       Answer

(* Content is only added, and what was owned is owned or registered.        *)
LEMMA GrowingKeepsAll ==
    ASSUME KeptInv, NEW w \in Workers,
           \A v \in DOMAIN content : v \in DOMAIN content' /\ content'[v] = content[v],
           DOMAIN content' \subseteq DOMAIN rows' \cup OwnedVersions',
           \A x \in Workers : x # w => /\ pc'[x] = pc[x] /\ req'[x] = req[x]
                                       /\ patch'[x] = patch[x] /\ made'[x] = made[x]
                                       /\ reply'[x] = reply[x],
           ExtendsItsBase(w)', pc'[w] # "compensate",
           pc'[w] = "load" => req'[w].op \in CreateOps,
           \/ reply'[w] = reply[w] /\ req'[w] = req[w]
           \/ reply'[w].kind # "updated"
           \/ req'[w].op = "patch" =>
                 /\ made[w].base \in DOMAIN content
                 /\ reply'[w].version \in DOMAIN content'
                 /\ reply'[w].version - 1 = made[w].base
                 /\ content'[reply'[w].version] =
                       Merge(content[made[w].base], req'[w].patch)
    PROVE  KeptInv'
<1>1. ASSUME NEW x \in Workers, x # w
      PROVE  /\ ExtendsItsBase(x)' /\ pc'[x] # "compensate"
             /\ pc'[x] = "load" => req'[x].op \in CreateOps
    BY <1>1 DEF KeptInv, ExtendsItsBase
<1>2. ASSUME NEW x \in Workers, reply'[x] = reply[x], req'[x] = req[x],
             reply'[x].kind = "updated", req'[x].op = "patch"
      PROVE  /\ reply'[x].version \in DOMAIN content'
             /\ reply'[x].version - 1 \in DOMAIN content'
             /\ content'[reply'[x].version] =
                    Merge(content'[reply'[x].version - 1], req'[x].patch)
  <2>1. PICK v : v = reply[x].version
    OBVIOUS
  <2>2. /\ v \in DOMAIN content /\ v - 1 \in DOMAIN content
        /\ content[v] = Merge(content[v - 1], req[x].patch)
    BY <1>2, <2>1 DEF KeptInv, UpdatesExtendTheirBase, UpdatedStays
  <2>3. content'[v - 1] = content[v - 1] /\ v - 1 \in DOMAIN content'
    BY <2>2
  <2>4. QED
    BY <1>2, <2>1, <2>2, <2>3
<1>3. QED
    BY <1>1, <1>2 DEF KeptInv, UpdatesExtendTheirBase, UpdatedStays, OrphansAreOwned

(* What a step of w leaves to the others.                                   *)
LEMMA OnlyOwnLocals ==
    ASSUME TypeOK, NEW w \in Workers, NEW x \in Workers, x # w,
           \/ Step(w) \/ Failure(w) \/ \E r \in Requests : Receive(w, r)
    PROVE  /\ pc'[x] = pc[x] /\ req'[x] = req[x] /\ patch'[x] = patch[x]
           /\ made'[x] = made[x] /\ reply'[x] = reply[x]
<1>1. ASSUME NEW k, NEW v, Finish(w, k, v)
      PROVE  /\ pc'[x] = pc[x] /\ patch'[x] = patch[x]
             /\ made'[x] = made[x] /\ reply'[x] = reply[x]
    BY <1>1 DEF Finish, Goto, TypeOK, RequestsTyped
<1>2. ASSUME NEW s, Goto(w, s) PROVE pc'[x] = pc[x]
    BY <1>2 DEF Goto, TypeOK, RequestsTyped
<1>3. ASSUME NEW r \in Requests, Receive(w, r)
      PROVE  /\ pc'[x] = pc[x] /\ req'[x] = req[x] /\ patch'[x] = patch[x]
             /\ made'[x] = made[x] /\ reply'[x] = reply[x]
    BY <1>1, <1>2, <1>3 DEF Receive, TypeOK, RequestsTyped
<1>4. CASE Step(w) \/ Failure(w)
  <2>1. req' = req
    BY <1>4 DEF Step, Failure, ReadTags, ReadLatest, Save, Load, Insert, Compensate, FetchRecord,
       FetchRows, CommitTransition, CommitFlags, SaveFails, InsertFails, CompensateFails,
       CommitFails
  <2>2. \/ \E k, v : Finish(w, k, v)
        \/ /\ \E s : Goto(w, s)
           /\ reply' = reply
           /\ patch' = patch \/ \E p : patch' = [patch EXCEPT ![w] = p]
           /\ made' = made \/ \E m : made' = [made EXCEPT ![w] = m]
    BY <1>4 DEF Step, Failure, ReadTags, ReadLatest, Save, Load, Insert, Compensate, FetchRecord,
       FetchRows, CommitTransition, CommitFlags, SaveFails, InsertFails, CompensateFails,
       CommitFails, RegistrationRefused
  <2>3. ASSUME NEW p, patch' = [patch EXCEPT ![w] = p] PROVE patch'[x] = patch[x]
    BY <2>3 DEF TypeOK, RequestsTyped
  <2>4. ASSUME NEW m, made' = [made EXCEPT ![w] = m] PROVE made'[x] = made[x]
    BY <2>4 DEF TypeOK, RequestsTyped
  <2>5. QED
    BY <1>1, <1>2, <2>1, <2>2, <2>3, <2>4
<1>5. QED
    BY <1>3, <1>4

(* An answer other than to an update changes nothing that is kept.          *)
LEMMA AnswerKeepsAll ==
    ASSUME TypeOK, KeptInv, NEW w \in Workers, NEW k, NEW v, Finish(w, k, v), k # "updated",
           content' = content, DOMAIN rows \subseteq DOMAIN rows',
           Owns(w) => made[w].version \in DOMAIN rows',
           Step(w) \/ Failure(w) \/ \E r \in Requests : Receive(w, r)
    PROVE  KeptInv'
<1>1. /\ pc'[w] = "idle" /\ reply'[w].kind # "updated"
    BY DEF Finish, Goto, Answer, TypeOK, RequestsTyped
<1>2. \A x \in Workers : x # w => /\ pc'[x] = pc[x] /\ req'[x] = req[x]
                                  /\ patch'[x] = patch[x] /\ made'[x] = made[x]
                                  /\ reply'[x] = reply[x]
    BY OnlyOwnLocals
<1>3. ExtendsItsBase(w)'
    BY <1>1 DEF ExtendsItsBase
<1>4. DOMAIN content' \subseteq DOMAIN rows' \cup OwnedVersions'
  <2>1. ASSUME NEW u \in DOMAIN content, u \notin DOMAIN rows'
        PROVE  u \in OwnedVersions'
    <3>1. PICK x \in Workers : Owns(x) /\ made[x].version = u
      BY <2>1 DEF KeptInv, OrphansAreOwned, OwnedVersions
    <3>2. x # w
      BY <2>1, <3>1
    <3>3. Owns(x)' /\ made'[x].version = u
      BY <1>2, <3>1, <3>2 DEF Owns
    <3>4. QED
      BY <3>3 DEF OwnedVersions
  <2>2. QED
    BY <2>1
<1>5. QED
    BY <1>1, <1>2, <1>3, <1>4, GrowingKeepsAll

(* A step of a request that goes on without writing.                        *)
LEMMA GoingOnKeepsAll ==
    ASSUME TypeOK, KeptInv, NEW w \in Workers, NEW step \in PC \ {"compensate"}, Goto(w, step),
           content' = content, rows' = rows, req' = req,
           reply'[w] = reply[w] \/ reply'[w].kind # "updated",
           Owns(w) => step \in {"load", "insert"} /\ made' = made,
           step = "load" => req[w].op \in CreateOps,
           ExtendsItsBase(w)', Step(w)
    PROVE  KeptInv'
<1>1. pc'[w] = step
    BY DEF Goto, TypeOK, RequestsTyped
<1>2. \A x \in Workers : x # w => /\ pc'[x] = pc[x] /\ req'[x] = req[x]
                                  /\ patch'[x] = patch[x] /\ made'[x] = made[x]
                                  /\ reply'[x] = reply[x]
    BY OnlyOwnLocals
<1>3. DOMAIN content' \subseteq DOMAIN rows' \cup OwnedVersions'
  <2>1. \A x \in Workers : Owns(x) => Owns(x)' /\ made'[x] = made[x]
    BY <1>1, <1>2 DEF Owns
  <2>2. OwnedVersions \subseteq OwnedVersions'
    BY <2>1 DEF OwnedVersions
  <2>3. QED
    BY <2>2 DEF KeptInv, OrphansAreOwned
<1>4. QED
    BY <1>1, <1>2, <1>3, GrowingKeepsAll

LEMMA ReceiveKeepsAll ==
    ASSUME TypeOK, KeptInv, NEW w \in Workers, NEW r \in Requests, Receive(w, r) PROVE KeptInv'
<1>1. content' = content /\ rows' = rows /\ req'[w] = r /\ pc[w] = "idle"
    BY DEF Receive, tables, TypeOK, RequestsTyped
<1>2. CASE Refusal(r) # "none"
  <2>1. Finish(w, Refusal(r), NoVersion) /\ Refusal(r) # "updated"
    BY <1>2 DEF Receive, Refusal
  <2>2. QED
    BY <1>1, <2>1, AnswerKeepsAll DEF Owns
<1>3. CASE Refusal(r) = "none"
  <2>1. /\ pc'[w] = FirstStep(r.op) /\ reply'[w].kind # "updated"
        /\ r.op = "patch" => patch'[w] = r.patch
    BY <1>3 DEF Receive, Goto, Answer, TypeOK, RequestsTyped
  <2>2. /\ pc'[w] \notin {"compensate", "load", "insert"}
        /\ pc'[w] = "save" => r.op # "patch"
    BY <2>1 DEF FirstStep, CreateOps
  <2>3. ExtendsItsBase(w)'
    BY <1>1, <2>1, <2>2 DEF ExtendsItsBase
  <2>4. \A x \in Workers : x # w => /\ pc'[x] = pc[x] /\ req'[x] = req[x]
                                    /\ patch'[x] = patch[x] /\ made'[x] = made[x]
                                    /\ reply'[x] = reply[x]
    BY OnlyOwnLocals
  <2>5. \A x \in Workers : Owns(x) => Owns(x)' /\ made'[x] = made[x]
    BY <1>1, <2>4 DEF Owns
  <2>6. OwnedVersions \subseteq OwnedVersions'
    BY <2>5 DEF OwnedVersions
  <2>7. DOMAIN content' \subseteq DOMAIN rows' \cup OwnedVersions'
    BY <1>1, <2>6 DEF KeptInv, OrphansAreOwned
  <2>8. QED
    BY <1>1, <2>1, <2>2, <2>3, <2>4, <2>7, GrowingKeepsAll
<1>4. QED
    BY <1>2, <1>3

LEMMA ReadsKeepAll ==
    ASSUME TypeOK, KeptInv, NEW w \in Workers,
           ReadTags(w) \/ ReadLatest(w) \/ FetchRecord(w) \/ FetchRows(w)
    PROVE  KeptInv'
<1>1. /\ content' = content /\ rows' = rows /\ req' = req
      /\ ~Owns(w) /\ Step(w) /\ pc[w] \in {"tags", "read", "fetch", "rows"}
    BY DEF ReadTags, ReadLatest, FetchRecord, FetchRows, tables, Owns, Step
<1>2. ASSUME NEW k, NEW v, Finish(w, k, v), k # "updated" PROVE KeptInv'
    BY <1>1, <1>2, AnswerKeepsAll
<1>3. CASE ReadTags(w) /\ Goto(w, "read") /\ reply' = reply
  <2>1. req[w].op = "tags" /\ pc[w] = "tags"
    BY <1>3, RequestsTypedSplits DEF TypeOK, RequestTyped, ReadTags
  <2>2. ExtendsItsBase(w)'
    BY <1>1, <2>1 DEF ExtendsItsBase
  <2>3. QED
    BY <1>1, <1>3, <2>2, GoingOnKeepsAll DEF PC
<1>4. CASE ReadLatest(w) /\ DOMAIN content # {} /\ Goto(w, "save") /\ reply' = reply
  <2>1. PICK base : base = Latest(content)
    OBVIOUS
  <2>2. base \in DOMAIN content
    BY <1>4, <2>1, LatestIsIn DEF TypeOK
  <2>3. made' = [made EXCEPT ![w] = [version |-> base + 1,
                                     content |-> Merge(content[base], patch[w]),
                                     base |-> base]]
        \/ \E k : Finish(w, k, NoVersion) \/ Finish(w, k, base)
    BY <1>4, <2>1 DEF ReadLatest
  <2>4. pc'[w] = "save"
    BY <1>4 DEF Goto, TypeOK, RequestsTyped
  <2>5. \A k, v : ~Finish(w, k, v)
    BY <2>4 DEF Finish, Goto, TypeOK, RequestsTyped
  <2>6. /\ made'[w].base = base /\ made'[w].version = base + 1
        /\ made'[w].content = Merge(content[base], patch[w])
    BY <2>3, <2>5 DEF TypeOK, RequestsTyped
  <2>7. req[w].op = "patch" => patch[w] = req[w].patch
    BY <1>4 DEF KeptInv, ExtendsItsBase, ReadLatest
  <2>8. ExtendsItsBase(w)'
    BY <1>1, <2>2, <2>4, <2>6, <2>7 DEF ExtendsItsBase
  <2>9. QED
    BY <1>1, <1>4, <2>8, GoingOnKeepsAll DEF PC
<1>5. CASE (FetchRecord(w) \/ FetchRows(w)) /\ Goto(w, "commit") /\ reply' = reply
  <2>1. pc'[w] = "commit"
    BY <1>5 DEF Goto, TypeOK, RequestsTyped
  <2>2. ExtendsItsBase(w)'
    BY <2>1 DEF ExtendsItsBase
  <2>3. QED
    BY <1>1, <1>5, <2>2, GoingOnKeepsAll DEF PC
<1>6. CASE ReadTags(w)
    BY <1>2, <1>3, <1>6 DEF ReadTags
<1>7. CASE ReadLatest(w)
    BY <1>2, <1>4, <1>7 DEF ReadLatest
<1>8. CASE FetchRecord(w)
    BY <1>2, <1>5, <1>8 DEF FetchRecord
<1>9. CASE FetchRows(w)
    BY <1>2, <1>5, <1>9 DEF FetchRows
<1>10. QED
    BY <1>6, <1>7, <1>8, <1>9

LEMMA SaveKeepsAll ==
    ASSUME TypeOK, KeptInv, NEW w \in Workers, Save(w) PROVE KeptInv'
<1>1. req' = req /\ rows' = rows /\ pc[w] = "save" /\ ~Owns(w) /\ Step(w)
    BY DEF Save, tables, Owns, Step
<1>2. CASE made[w].version \in DOMAIN content
  <2>1. Finish(w, "duplicate", NoVersion) /\ content' = content
    BY <1>2 DEF Save
  <2>2. QED
    BY <1>1, <2>1, AnswerKeepsAll
<1>3. CASE made[w].version \notin DOMAIN content
  <2>1. PICK v, next : v = made[w].version
                       /\ next = IF req[w].op \in CreateOps THEN "load" ELSE "insert"
    OBVIOUS
  <2>2. /\ content' = Put(content, v, made[w].content)
        /\ Goto(w, next) /\ patch' = patch /\ made' = made /\ reply' = reply
    BY <1>3, <2>1 DEF Save
  <2>3. /\ \A u \in DOMAIN content : u \in DOMAIN content' /\ content'[u] = content[u]
        /\ DOMAIN content' = DOMAIN content \cup {v}
    BY <1>3, <2>1, <2>2 DEF Put
  <2>4. pc'[w] = next /\ \A x \in Workers : x # w => pc'[x] = pc[x]
    BY <2>2 DEF Goto, TypeOK, RequestsTyped
  <2>5. ExtendsItsBase(w)'
    BY <1>1, <2>1, <2>2, <2>3, <2>4 DEF KeptInv, ExtendsItsBase, CreateOps
  <2>6. \A x \in Workers : Owns(x) => Owns(x)'
    BY <1>1, <2>4 DEF Owns
  <2>7. OwnedVersions \cup {v} \subseteq OwnedVersions'
    BY <2>1, <2>2, <2>4, <2>6 DEF OwnedVersions, Owns
  <2>8. DOMAIN content' \subseteq DOMAIN rows' \cup OwnedVersions'
    BY <1>1, <2>3, <2>7 DEF KeptInv, OrphansAreOwned
  <2>9. /\ pc'[w] # "compensate" /\ (pc'[w] = "load" => req'[w].op \in CreateOps)
        /\ \A x \in Workers : x # w => /\ pc'[x] = pc[x] /\ req'[x] = req[x]
                                       /\ patch'[x] = patch[x] /\ made'[x] = made[x]
                                       /\ reply'[x] = reply[x]
    BY <1>1, <2>1, <2>2, <2>4
  <2>10. reply'[w] = reply[w] /\ req'[w] = req[w]
    BY <1>1, <2>2
  <2>11. QED
    BY <2>3, <2>5, <2>8, <2>9, <2>10, GrowingKeepsAll
<1>4. QED
    BY <1>2, <1>3

LEMMA LoadKeepsAll ==
    ASSUME TypeOK, StoresAgree, KeptInv, NEW w \in Workers, Load(w) PROVE KeptInv'
<1>1. /\ content' = content /\ rows' = rows /\ req' = req /\ Owns(w) /\ pc[w] = "load"
      /\ Step(w)
    BY DEF Load, tables, Owns, Step
<1>2. made[w].version \in DOMAIN content
    BY <1>1 DEF StoresAgree, VersionsOwnedOnce
<1>3. Goto(w, "insert") /\ made' = made /\ reply' = reply
    BY <1>2 DEF Load
<1>4. req[w].op # "patch"
    BY <1>1 DEF KeptInv, CreateOps
<1>5. ExtendsItsBase(w)'
    BY <1>1, <1>4 DEF ExtendsItsBase
<1>6. QED
    BY <1>1, <1>3, <1>5, GoingOnKeepsAll DEF PC

LEMMA InsertKeepsAll ==
    ASSUME TypeOK, StoresAgree, KeptInv, NEW w \in Workers, Insert(w) PROVE KeptInv'
<1>1. /\ content' = content /\ req' = req /\ Owns(w) /\ pc[w] = "insert" /\ Step(w)
    BY DEF Insert, Owns, Step
<1>2. PICK v : v = made[w].version
    OBVIOUS
<1>3. v \in DOMAIN content \ DOMAIN rows /\ content[v] = made[w].content
    BY <1>1, <1>2 DEF StoresAgree, VersionsOwnedOnce
<1>4. /\ rows' = Put(rows, v, DraftRow)
      /\ Finish(w, IF req[w].op \in CreateOps THEN "created" ELSE "updated", v)
    BY <1>2, <1>3 DEF Insert
<1>5. DOMAIN rows' = DOMAIN rows \cup {v}
    BY <1>4 DEF Put
<1>6. CASE req[w].op \in CreateOps
    BY <1>1, <1>2, <1>4, <1>5, <1>6, AnswerKeepsAll
<1>7. CASE req[w].op \notin CreateOps
  <2>1. pc'[w] = "idle" /\ reply'[w].version = v
    BY <1>4 DEF Finish, Goto, Answer, TypeOK, RequestsTyped
  <2>2. \A x \in Workers : x # w => /\ pc'[x] = pc[x] /\ req'[x] = req[x]
                                    /\ patch'[x] = patch[x] /\ made'[x] = made[x]
                                    /\ reply'[x] = reply[x]
    BY <1>1, OnlyOwnLocals
  <2>3. ExtendsItsBase(w)'
    BY <2>1 DEF ExtendsItsBase
  <2>4. \A x \in Workers : x # w /\ Owns(x) => Owns(x)' /\ made'[x] = made[x]
    BY <2>2 DEF Owns
  <2>5. OwnedVersions \subseteq OwnedVersions' \cup {v}
    BY <1>2, <2>4 DEF OwnedVersions
  <2>6. DOMAIN content' \subseteq DOMAIN rows' \cup OwnedVersions'
    BY <1>1, <1>5, <2>5 DEF KeptInv, OrphansAreOwned
  <2>7. ASSUME req[w].op = "patch"
        PROVE  /\ made[w].base \in DOMAIN content
               /\ v - 1 = made[w].base
               /\ content[v] = Merge(content[made[w].base], req[w].patch)
    <3>1. /\ made[w].base \in DOMAIN content /\ v = made[w].base + 1
          /\ made[w].content = Merge(content[made[w].base], req[w].patch)
      BY <1>1, <1>2, <2>7 DEF KeptInv, ExtendsItsBase
    <3>2. made[w].base \in Nat
      BY <3>1, VersionAssumption DEF TypeOK, StoresTyped
    <3>3. QED
      BY <1>3, <3>1, <3>2
  <2>8. QED
    BY <1>1, <1>3, <2>1, <2>2, <2>3, <2>6, <2>7, GrowingKeepsAll
<1>8. QED
    BY <1>6, <1>7

(* A step in which no registration fails and no process dies.               *)
RegisteringNext ==
    \E w \in Workers :
        \/ \E r \in Requests : Receive(w, r)
        \/ Step(w)
        \/ SaveFails(w) \/ CompensateFails(w) \/ CommitFails(w)

LEMMA NextKeepsAll ==
    TypeOK /\ StoresAgree /\ KeptInv /\ [RegisteringNext]_vars => KeptInv'
<1> SUFFICES ASSUME TypeOK, StoresAgree, KeptInv, [RegisteringNext]_vars PROVE KeptInv'
    OBVIOUS
<1>1. CASE UNCHANGED vars
    BY <1>1 DEF vars, KeptInv, OrphansAreOwned, OwnedVersions, Owns, UpdatesExtendTheirBase,
       UpdatedStays, ExtendsItsBase
<1>2. ASSUME NEW w \in Workers, Compensate(w) \/ CompensateFails(w)
      PROVE  FALSE
    BY <1>2 DEF Compensate, CompensateFails, KeptInv
<1>3. ASSUME NEW w \in Workers,
             CommitTransition(w) \/ CommitFlags(w) \/ SaveFails(w) \/ CommitFails(w)
      PROVE  KeptInv'
  <2>1. /\ content' = content /\ ~Owns(w) /\ (Step(w) \/ Failure(w))
        /\ \E k, v : k # "updated" /\ Finish(w, k, v)
    BY <1>3 DEF CommitTransition, CommitFlags, SaveFails, CommitFails, Owns, Step, Failure
  <2>2. DOMAIN rows \subseteq DOMAIN rows'
    BY <1>3 DEF CommitTransition, CommitFlags, SaveFails, CommitFails, SetAll, tables
  <2>3. QED
    BY <2>1, <2>2, AnswerKeepsAll
<1>4. QED
    BY <1>1, <1>2, <1>3, ReceiveKeepsAll, ReadsKeepAll, SaveKeepsAll, LoadKeepsAll,
       InsertKeepsAll DEF RegisteringNext, Step

(* While no registration fails and no process dies, no content is left      *)
(* without a record or an owner, and every update that was accepted is the  *)
(* version before it with the fields of its patch replaced: overlapping     *)
(* PATCHes of update_question lose no field to each other.                 *)
THEOREM BankRevisionsKept ==
    ASSUME NoRegistrationFails
    PROVE  Spec => [](OrphansAreOwned /\ UpdatesExtendTheirBase)
<1>1. KeptInv => OrphansAreOwned /\ UpdatesExtendTheirBase
    BY DEF KeptInv
<1>2. [Next]_vars => [RegisteringNext]_vars
    BY DEF Next, Failure, RegisteringNext, Crash, InsertFails, NoRegistrationFails
<1>3. TypeOK /\ StoresAgree /\ KeptInv /\ [Next]_vars => KeptInv'
    BY <1>2, NextKeepsAll
<1>4. QED
    BY <1>1, <1>3, InitKept, BankTypeCorrect, BankStoresAgree, PTL DEF Spec

(* A mix takes its requests from those of the run and never changes.        *)
MixInv == mix \in Mixes

LEMMA MixesTaken ==
    ASSUME MixInv PROVE mix.requests \subseteq EveryOperation
<1>1. /\ TextPatches \subseteq EveryOperation /\ CreateReq("import", 2, Blank) \in EveryOperation
      /\ FirstVersion \subseteq EveryOperation
    BY DEF TextPatches, FirstVersion, EveryOperation, Revisions
<1>2. Reviews \subseteq EveryOperation /\ Flags \subseteq EveryOperation
      /\ Revisions \subseteq EveryOperation
    BY DEF EveryOperation
<1>3. QED
    BY <1>1, <1>2 DEF MixInv, Mixes, Mix

(* The behaviours of the run are behaviours of the service.                 *)
LEMMA MixesAreBehaviours ==
    ASSUME EveryOperation \subseteq Requests
    PROVE  MCSpec => Spec /\ []MixInv
<1>1. MCInit => Init /\ MixInv
    BY DEF MCInit, MixInv
<1>2. MixInv /\ [MCNext]_<<vars, mix>> => MixInv'
    BY DEF MixInv, MCNext
<1>3. MixInv /\ [MCNext]_<<vars, mix>> => [Next]_vars
    BY MixesTaken DEF MCNext, Next, Failure, vars
<1>4. QED
    BY <1>1, <1>2, <1>3, PTL DEF MCSpec, Spec

KeptInMix == mix.failures \cap {"insert", "crash"} = {} => KeptInv

(* The same of each behaviour whose mix of failures has neither: whatever   *)
(* requests overlap, whatever else fails, and although the service may also *)
(* be one whose registrations fail.                                        *)
THEOREM MixedRevisionsKept ==
    ASSUME EveryOperation \subseteq Requests
    PROVE  MCSpec => []RevisionsKept
<1>1. MCInit => KeptInMix
    BY InitKept DEF MCInit, KeptInMix
<1>2. ASSUME MixInv, TypeOK, StoresAgree, KeptInMix, [MCNext]_<<vars, mix>>
      PROVE  KeptInMix'
  <2>1. mix' = mix
    BY <1>2 DEF MCNext
  <2>2. CASE mix.failures \cap {"insert", "crash"} = {}
    <3>1. [RegisteringNext]_vars
        BY <1>2, <2>2, MixesTaken DEF MCNext, RegisteringNext, vars
    <3>2. QED
        BY <1>2, <2>1, <2>2, <3>1, NextKeepsAll DEF KeptInMix
  <2>3. QED
    BY <2>1, <2>2 DEF KeptInMix
<1>3. KeptInMix => RevisionsKept
    BY DEF KeptInMix, KeptInv, RevisionsKept
<1>4. QED
    BY <1>1, <1>2, <1>3, MixesAreBehaviours, BankTypeCorrect, BankStoresAgree, PTL DEF MCSpec

-----------------------------------------------------------------------------
(* The abstract registry.                                                  *)

(* The registry's copies of the lifecycle operators are the same operators. *)
LEMMA RegistryOperators ==
    /\ Registry!Role = Role /\ Registry!FlagOps = FlagOps
    /\ Registry!Target = Target /\ Registry!Transitions = Transitions
    /\ Registry!DraftRow = DraftRow
    /\ \A op, role : Registry!Permitted(op, role) = Permitted(op, role)
    /\ \A role : Registry!Authorized(role) = Authorized(role)
    /\ \A f, t, b, a, r : Registry!HistoryRow(f, t, b, a, r) = HistoryRow(f, t, b, a, r)
    /\ \A op, role, read : Registry!AuditRows(op, role, read) = AuditRows(op, role, read)
    /\ \A f, v, x : Registry!Put(f, v, x) = Put(f, v, x)
    /\ \A r, op : Registry!SetAll(r, op) = SetAll(r, op)
    /\ \A r, op : Registry!AllFlagged(r, op) = AllFlagged(r, op)
<1>1. /\ \A role : Registry!Authorized(role) = Authorized(role)
      /\ Registry!Gated = Gated /\ Registry!FlagOps = FlagOps
    BY DEF Registry!Authorized, Authorized, Registry!Gated, Gated, Registry!FlagOps, FlagOps
<1>2. \A op, role : Registry!Permitted(op, role) = Permitted(op, role)
    BY <1>1 DEF Registry!Permitted, Permitted
<1>3. \A row, op : Registry!Flagged(row, op) = Flagged(row, op)
    BY DEF Registry!Flagged, Flagged
<1>4. /\ \A r, op : Registry!SetAll(r, op) = SetAll(r, op)
      /\ \A r, op : Registry!AllFlagged(r, op) = AllFlagged(r, op)
    BY <1>3 DEF Registry!SetAll, SetAll, Registry!AllFlagged, AllFlagged
<1>5. /\ Registry!Role = Role /\ Registry!Target = Target
      /\ Registry!Transitions = Transitions /\ Registry!DraftRow = DraftRow
    BY DEF Registry!Role, Role, Registry!Target, Target, Registry!Transitions, Transitions,
       Registry!DraftRow, DraftRow
<1>6. /\ \A f, t, b, a, r : Registry!HistoryRow(f, t, b, a, r) = HistoryRow(f, t, b, a, r)
      /\ \A op, role, read : Registry!AuditRows(op, role, read) = AuditRows(op, role, read)
      /\ \A f, v, x : Registry!Put(f, v, x) = Put(f, v, x)
    BY DEF Registry!HistoryRow, HistoryRow, Registry!AuditRows, AuditRows, Registry!Put, Put
<1>7. QED
    BY <1>1, <1>2, <1>4, <1>5, <1>6

LEMMA RegistryReadings ==
    /\ \A h, n, v : Registry!StatusAfter(h, n, v) = StatusAfter(h, n, v)
    /\ \A r, h : Registry!StatusIsLastOf(r, h) = StatusIsLastOf(r, h)
    /\ \A r, a : Registry!FlagsAreAudited(r, a) = FlagsAreAudited(r, a)
<1>1. \A idx : Registry!LastOf(idx) = LastOf(idx)
    BY DEF Registry!LastOf, LastOf
<1>2. \A h, n, v : Registry!StatusAfter(h, n, v) = StatusAfter(h, n, v)
  <2>1. \A h, v : Registry!StatusRows(h, v) = StatusRows(h, v)
    BY DEF Registry!StatusRows, StatusRows
  <2>2. QED
    BY <1>1, <2>1 DEF Registry!StatusAfter, StatusAfter
<1>3. \A r, h : Registry!StatusIsLastOf(r, h) = StatusIsLastOf(r, h)
    BY <1>2 DEF Registry!StatusIsLastOf, StatusIsLastOf
<1>4. \A a, v, ops : Registry!Covering(a, v, ops) = Covering(a, v, ops)
    BY DEF Registry!Covering, Covering
<1>5. \A r, a : Registry!FlagsAreAudited(r, a) = FlagsAreAudited(r, a)
  <2>1. \A a, v : /\ Registry!DeletedPerAudit(a, v) = DeletedPerAudit(a, v)
                  /\ Registry!ArchivedPerAudit(a, v) = ArchivedPerAudit(a, v)
    BY <1>1, <1>4 DEF Registry!DeletedPerAudit, DeletedPerAudit, Registry!ArchivedPerAudit,
       ArchivedPerAudit
  <2>2. \A row, a, v : Registry!FlagsAreTold(row, a, v) = FlagsAreTold(row, a, v)
    BY <2>1 DEF Registry!FlagsAreTold, FlagsAreTold
  <2>3. QED
    BY <2>2 DEF Registry!FlagsAreAudited, FlagsAreAudited
<1>6. QED
    BY <1>2, <1>3, <1>5

-----------------------------------------------------------------------------
(* Callers that do not overlap.                                            *)

NoOverlap == \A w, x \in Workers : pc[w] # "idle" /\ pc[x] # "idle" => w = x

(* What was read is still so when the transaction writes.                   *)
ReadsHold(w) ==
    pc[w] = "commit" =>
        /\ seen[w] = rows
        /\ req[w].op \in FlagOps => ~AllFlagged(rows, req[w].op)

AllReadsHold == \A w \in Workers : ReadsHold(w)

LEMMA IdleTakesNoStep ==
    ASSUME NEW w \in Workers, pc[w] = "idle"
    PROVE  ~Step(w) /\ ~Failure(w)
BY DEF Step, Failure, ReadTags, ReadLatest, Save, Load, Insert, Compensate, FetchRecord,
   FetchRows, CommitTransition, CommitFlags, SaveFails, InsertFails, CompensateFails, CommitFails

LEMMA OwnStepKeepsReads ==
    ASSUME NEW w \in Workers, TypeOK, ReadsHold(w),
           \/ \E r \in Requests : Receive(w, r)
           \/ Step(w) \/ Failure(w) \/ Crash \/ UNCHANGED vars
    PROVE  ReadsHold(w)'
<1>1. pc \in [Workers -> PC] /\ DOMAIN seen = Workers
    BY DEF TypeOK, RequestsTyped
<1>2. CASE UNCHANGED vars
    BY <1>2 DEF vars, ReadsHold
<1>3. ASSUME NEW r \in Requests, Receive(w, r) PROVE ReadsHold(w)'
  <2>1. pc'[w] # "commit"
    BY <1>1, <1>3 DEF Receive, Finish, Goto, FirstStep
  <2>2. QED
    BY <2>1 DEF ReadsHold
<1>4. CASE FetchRecord(w)
  <2>1. \/ pc'[w] = "idle"
        \/ seen'[w] = rows /\ rows' = rows /\ req[w].op \in DOMAIN Target /\ req' = req
    BY <1>1, <1>4, RequestsTypedSplits
    DEF FetchRecord, Finish, Goto, tables, TypeOK, RequestTyped
  <2>2. req[w].op \in DOMAIN Target => req[w].op \notin FlagOps
    BY DEF Target, FlagOps
  <2>3. QED
    BY <2>1, <2>2 DEF ReadsHold
<1>5. CASE FetchRows(w)
  <2>1. \/ pc'[w] = "idle"
        \/ /\ seen'[w] = rows /\ rows' = rows /\ req' = req
           /\ ~AllFlagged(rows, req[w].op)
    BY <1>1, <1>5 DEF FetchRows, Finish, Goto, tables
  <2>2. QED
    BY <2>1 DEF ReadsHold
<1>6. ASSUME Step(w) \/ Failure(w), ~FetchRecord(w), ~FetchRows(w) PROVE ReadsHold(w)'
  <2>1. (\E k, v : Finish(w, k, v)) \/ (\E s \in PC \ {"commit"} : Goto(w, s))
    BY <1>6 DEF Step, Failure, ReadTags, ReadLatest, Save, Load, Insert, Compensate,
       CommitTransition, CommitFlags, SaveFails, InsertFails, CompensateFails, CommitFails,
       RegistrationRefused, PC
  <2>2. pc'[w] # "commit"
    BY <1>1, <2>1 DEF Finish, Goto
  <2>3. QED
    BY <2>2 DEF ReadsHold
<1>7. CASE Crash
    BY <1>7 DEF Crash, ReadsHold
<1>8. QED
    BY <1>2, <1>3, <1>4, <1>5, <1>6, <1>7

(* Meanwhile another caller may at most be refused or begin.                *)
LEMMA NextKeepsReads == TypeOK /\ NoOverlap /\ AllReadsHold /\ [Next]_vars => AllReadsHold'
<1> SUFFICES ASSUME TypeOK, NoOverlap, AllReadsHold, [Next]_vars, NEW w \in Workers
             PROVE  ReadsHold(w)'
    BY DEF AllReadsHold
<1>1. ReadsHold(w)
    BY DEF AllReadsHold
<1>2. ASSUME NEW x \in Workers, x # w,
             \/ \E r \in Requests : Receive(x, r)
             \/ Step(x) \/ Failure(x)
      PROVE  ReadsHold(w)'
  <2>1. pc'[w] = pc[w] /\ req'[w] = req[w]
    BY <1>2, OnlyOwnLocals
  <2>2. CASE pc[w] # "commit"
    BY <2>1, <2>2 DEF ReadsHold
  <2>3. CASE pc[w] = "commit"
    <3>1. pc[x] = "idle"
        BY <1>2, <2>3 DEF NoOverlap
    <3>2. PICK r \in Requests : Receive(x, r)
        BY <1>2, <3>1, IdleTakesNoStep
    <3>3. rows' = rows /\ seen'[w] = seen[w]
        BY <1>2, <3>2 DEF Receive, Finish, tables, TypeOK, RequestsTyped
    <3>4. QED
        BY <1>1, <2>1, <3>3 DEF ReadsHold
  <2>4. QED
    BY <2>2, <2>3
<1>3. QED
    BY <1>1, <1>2, OwnStepKeepsReads DEF Next

(* Each step of a worker is a step of the registry or none.                 *)
LEMMA OwnStepIsRegistryStep ==
    ASSUME NEW w \in Workers, TypeOK, HistoryInv, ReadsHold(w),
           \/ \E r \in Requests : Receive(w, r)
           \/ Step(w) \/ Failure(w) \/ Crash \/ UNCHANGED vars
    PROVE  [Registry!Next]_(Registry!vars)
<1>1. CASE Insert(w) /\ ~UNCHANGED tables
  <2>1. PICK v, base, role : v = made[w].version /\ base = made[w].base /\ role = req[w].role
    OBVIOUS
  <2>2. /\ v \in Version /\ base \in Version \cup {NoVersion} /\ role \in Role
    BY <1>1, <2>1, RequestsTypedSplits, RequestsAssumption
    DEF TypeOK, RequestTyped, Insert, Holding, RequestsTyped, MadeRecord
  <2>3. /\ v \notin DOMAIN rows /\ rows' = Put(rows, v, DraftRow) /\ audit' = audit
        /\ history' = Append(history, HistoryRow(NoStatus, "draft", base, v, role))
    BY <1>1, <2>1 DEF Insert
  <2>4. Registry!Register(v, base, role)
    BY <2>3, RegistryOperators DEF Registry!Register
  <2>5. QED
    BY <2>2, <2>4, RegistryOperators DEF Registry!Next
<1>2. CASE CommitTransition(w)
  <2>1. PICK r : r = req[w]
    OBVIOUS
  <2>2. /\ pc[w] = "commit" /\ r \in Requests /\ r.op \in DOMAIN Target
        /\ Permitted(r.op, r.role) /\ r.version \in DOMAIN rows
        /\ seen[w] = rows
        /\ <<rows[r.version].status, Target[r.op]>> \in Transitions
        /\ r.op = "return_to_draft" => r.after # r.version
    BY <1>2, <2>1, RequestsTypedSplits
    DEF CommitTransition, TypeOK, RequestTyped, ReadsHold, HistoryInv, Decided, NamesAnother
  <2>3. /\ audit' = audit
        /\ rows' = IF r.op = "return_to_draft" THEN rows
                   ELSE [rows EXCEPT ![r.version].status = Target[r.op]]
        /\ history' = Append(history,
               HistoryRow(rows[r.version].status, Target[r.op], r.version,
                          IF r.op = "return_to_draft" THEN r.after ELSE r.version, r.role))
    BY <1>2, <2>1, <2>2 DEF CommitTransition
  <2>4. /\ r.version \in Version /\ r.role \in Role
        /\ r.op = "return_to_draft" => r.after \in Version
    BY <2>2, RequestsAssumption
  <2>5. CASE r.op = "return_to_draft"
    <3>1. Authorized(r.role) /\ Target[r.op] = "draft"
      BY <2>2, <2>5 DEF Permitted, Gated, Target
    <3>2. Registry!ReturnToDraft(r.version, r.after, r.role)
      BY <2>2, <2>3, <2>5, <3>1, RegistryOperators DEF Registry!ReturnToDraft
    <3>3. QED
      BY <2>4, <2>5, <3>2, RegistryOperators DEF Registry!Next
  <2>6. CASE r.op # "return_to_draft"
    <3>1. Registry!Move(r.version, r.op, r.role)
      BY <2>2, <2>3, <2>6, RegistryOperators DEF Registry!Move
    <3>2. QED
      BY <2>2, <2>4, <2>6, <3>1, RegistryOperators DEF Registry!Next
  <2>7. QED
    BY <2>5, <2>6
<1>3. CASE CommitFlags(w)
  <2>1. PICK r : r = req[w]
    OBVIOUS
  <2>2. /\ pc[w] = "commit" /\ r \in Requests /\ r.op \in FlagOps
        /\ Permitted(r.op, r.role) /\ seen[w] = rows /\ ~AllFlagged(rows, r.op)
    BY <1>3, <2>1, RequestsTypedSplits DEF CommitFlags, TypeOK, RequestTyped, ReadsHold
  <2>3. /\ rows' = SetAll(rows, r.op) /\ history' = history
        /\ audit' = Append(audit, AuditRows(r.op, r.role, rows))
    BY <1>3, <2>1, <2>2 DEF CommitFlags
  <2>4. Registry!SetFlag(r.op, r.role)
    BY <2>2, <2>3, RegistryOperators DEF Registry!SetFlag
  <2>5. r.role \in Role
    BY <2>2, RequestsAssumption
  <2>6. QED
    BY <2>2, <2>4, <2>5, RegistryOperators DEF Registry!Next
<1>4. CASE UNCHANGED tables
    BY <1>4 DEF Registry!vars, tables
<1>5. ASSUME Step(w) \/ Failure(w), ~Insert(w), ~CommitTransition(w), ~CommitFlags(w)
      PROVE  UNCHANGED tables
    BY <1>5 DEF Step, Failure, ReadTags, ReadLatest, Save, Load, Compensate, FetchRecord,
       FetchRows, SaveFails, InsertFails, CompensateFails, CommitFails
<1>6. CASE Crash \/ UNCHANGED vars \/ \E r \in Requests : Receive(w, r)
    BY <1>4, <1>6 DEF Crash, vars, tables, Receive
<1>7. QED
    BY <1>1, <1>2, <1>3, <1>4, <1>5, <1>6

LEMMA NextIsRegistryStep ==
    TypeOK /\ HistoryInv /\ AllReadsHold /\ [Next]_vars => [Registry!Next]_(Registry!vars)
<1> SUFFICES ASSUME TypeOK, HistoryInv, AllReadsHold, [Next]_vars
             PROVE  [Registry!Next]_(Registry!vars)
    OBVIOUS
<1>1. CASE Crash \/ UNCHANGED vars
    BY <1>1 DEF Crash, vars, tables, Registry!vars
<1>2. ASSUME NEW w \in Workers,
             \/ \E r \in Requests : Receive(w, r)
             \/ Step(w) \/ Failure(w)
      PROVE  [Registry!Next]_(Registry!vars)
  <2>1. ReadsHold(w)
    BY DEF AllReadsHold
  <2>2. QED
    BY <1>2, <2>1, OwnStepIsRegistryStep
<1>3. QED
    BY <1>1, <1>2 DEF Next

LEMMA InitIsRegistryInit == Init => Registry!Init /\ AllReadsHold
BY DEF Init, Registry!Init, AllReadsHold, ReadsHold

(* With callers that do not overlap, service.py implements the registry,    *)
(* failing writes, failing transactions and restarts included.             *)
THEOREM SerialBankImplementsRegistry ==
    ASSUME NEW w, Workers = {w}
    PROVE  Spec => Registry!Spec
<1>1. NoOverlap
    BY DEF NoOverlap
<1>2. TypeOK /\ AllReadsHold /\ [Next]_vars => AllReadsHold'
    BY <1>1, NextKeepsReads
<1>3. QED
    BY <1>2, InitIsRegistryInit, NextIsRegistryStep, InitTyped, NextTyped,
       InitHistory, NextKeepsHistory, PTL
    DEF Spec, Registry!Spec

-----------------------------------------------------------------------------
(* What the registry keeps, each of its operations taken as one step.       *)

RegistryTyped ==
    /\ DOMAIN rows \subseteq Version
    /\ rows \in [DOMAIN rows -> Row]
    /\ history \in Seq(HistoryRecord)
    /\ audit \in Seq({audit[i] : i \in DOMAIN audit})
    /\ \A i \in DOMAIN audit : DOMAIN audit[i].read \subseteq DOMAIN rows

HistoryChained ==
    \A i \in DOMAIN history :
        LET h == history[i] IN
        IF h.from = NoStatus
        THEN h.to = "draft" /\ StatusAfter(history, i - 1, h.after) = NoStatus
        ELSE /\ <<h.from, h.to>> \in Transitions
             /\ StatusAfter(history, i - 1, h.before) = h.from

DeprecatedStays ==
    \A i \in DOMAIN history :
        history[i].to = "deprecated" =>
            /\ history[i].after \in DOMAIN rows
            /\ rows[history[i].after].status = "deprecated"

RegistryKeeps ==
    /\ RegistryTyped
    /\ StatusIsLastOf(rows, history)
    /\ FlagsAreAudited(rows, audit)
    /\ HistoryChained
    /\ DeprecatedStays

LEMMA RegistryKeepsIsEnough == RegistryKeeps => RegistryInv
BY RegistryOperators, RegistryReadings
DEF RegistryKeeps, HistoryChained, DeprecatedStays, RegistryInv, Registry!RegistryInv,
    Registry!HistoryIsChained, Registry!DeprecatedIsFinal

LEMMA RegistryInit == Registry!Init => RegistryKeeps
<1> SUFFICES ASSUME Registry!Init PROVE RegistryKeeps
    OBVIOUS
<1>1. rows = <<>> /\ history = <<>> /\ audit = <<>>
    BY DEF Registry!Init
<1>2. DOMAIN history = {} /\ DOMAIN rows = {} /\ DOMAIN audit = {}
    BY <1>1
<1>3. \A n, v : StatusAfter(history, n, v) = NoStatus
    BY <1>2 DEF StatusAfter, StatusRows
<1>4. RegistryTyped
    BY <1>1, <1>2 DEF RegistryTyped
<1>5. QED
    BY <1>2, <1>3, <1>4 DEF RegistryKeeps, StatusIsLastOf, FlagsAreAudited, HistoryChained,
       DeprecatedStays

(* A row that goes on from the status its version has.                      *)
LEMMA RowKeepsChain ==
    ASSUME RegistryKeeps, NEW e \in HistoryRecord, history' = Append(history, e),
           IF e.from = NoStatus
           THEN e.to = "draft" /\ StatusAfter(history, Len(history), e.after) = NoStatus
           ELSE /\ <<e.from, e.to>> \in Transitions
                /\ StatusAfter(history, Len(history), e.before) = e.from,
           \A v \in Version :
               (IF v \in DOMAIN rows' THEN rows'[v].status ELSE NoStatus) =
                   IF e.after = v /\ (e.from = NoStatus \/ e.before = v) THEN e.to
                   ELSE IF v \in DOMAIN rows THEN rows[v].status ELSE NoStatus,
           \A v \in DOMAIN rows : /\ v \in DOMAIN rows'
                                  /\ rows[v].status = "deprecated" => rows'[v] = rows[v],
           e.to = "deprecated" => /\ e.after \in DOMAIN rows'
                                  /\ rows'[e.after].status = "deprecated"
    PROVE  /\ history' \in Seq(HistoryRecord)
           /\ StatusIsLastOf(rows, history)'
           /\ HistoryChained' /\ DeprecatedStays'
<1>1. /\ history \in Seq(HistoryRecord)
      /\ DOMAIN history = 1 .. Len(history) /\ Len(history) \in Nat
      /\ DOMAIN history' = 1 .. Len(history) + 1 /\ Len(history') = Len(history) + 1
      /\ \A i \in 1 .. Len(history) : history'[i] = history[i]
      /\ history'[Len(history) + 1] = e
      /\ history' \in Seq(HistoryRecord)
    BY AppendAny DEF RegistryKeeps, RegistryTyped
<1>2. \A n \in 0 .. Len(history) : \A v : StatusAfter(history', n, v) = StatusAfter(history, n, v)
    BY <1>1, StatusAfterAppend
<1>3. ASSUME NEW v \in Version
      PROVE  StatusAfter(history', Len(history) + 1, v) =
                 IF v \in DOMAIN rows' THEN rows'[v].status ELSE NoStatus
  <2>1. StatusAfter(history, Len(history), v) =
            IF v \in DOMAIN rows THEN rows[v].status ELSE NoStatus
    BY DEF RegistryKeeps, StatusIsLastOf
  <2>2. StatusAfter(history', Len(history) + 1, v) =
             IF e.after = v /\ (e.from = NoStatus \/ e.before = v) THEN e.to
             ELSE StatusAfter(history, Len(history), v)
    BY <1>1, StatusAfterRow
  <2>3. QED
    BY <2>1, <2>2
<1>4. StatusIsLastOf(rows, history)'
    BY <1>1, <1>3 DEF StatusIsLastOf
<1>5. \A i \in 1 .. Len(history) + 1 : i \in 1 .. Len(history) \/ i = Len(history) + 1
    BY <1>1
<1>6. ASSUME NEW i \in 1 .. Len(history) + 1
      PROVE  IF history'[i].from = NoStatus
             THEN /\ history'[i].to = "draft"
                  /\ StatusAfter(history', i - 1, history'[i].after) = NoStatus
             ELSE /\ <<history'[i].from, history'[i].to>> \in Transitions
                  /\ StatusAfter(history', i - 1, history'[i].before) = history'[i].from
  <2>1. \A v : StatusAfter(history', i - 1, v) = StatusAfter(history, i - 1, v)
    BY <1>1, <1>2
  <2>2. CASE i = Len(history) + 1
    <3>1. history'[i] = e /\ i - 1 = Len(history)
      BY <1>1, <2>2
    <3>2. QED
      BY <2>1, <3>1
  <2>3. CASE i \in 1 .. Len(history)
    <3>1. history'[i] = history[i] /\ i \in DOMAIN history
      BY <1>1, <2>3
    <3>2. IF history[i].from = NoStatus
          THEN /\ history[i].to = "draft"
               /\ StatusAfter(history, i - 1, history[i].after) = NoStatus
          ELSE /\ <<history[i].from, history[i].to>> \in Transitions
               /\ StatusAfter(history, i - 1, history[i].before) = history[i].from
      BY <3>1 DEF RegistryKeeps, HistoryChained
    <3>3. QED
      BY <2>1, <3>1, <3>2
  <2>4. QED
    BY <1>5, <2>2, <2>3
<1>7. HistoryChained'
    BY <1>1, <1>6 DEF HistoryChained
<1>8. DeprecatedStays'
  <2>1. ASSUME NEW i \in 1 .. Len(history) + 1, history'[i].to = "deprecated"
        PROVE  /\ history'[i].after \in DOMAIN rows'
               /\ rows'[history'[i].after].status = "deprecated"
    <3>1. CASE i = Len(history) + 1
      BY <1>1, <2>1, <3>1
    <3>2. CASE i \in 1 .. Len(history)
      <4>1. PICK v : v = history[i].after
        OBVIOUS
      <4>2. v \in DOMAIN rows /\ rows[v].status = "deprecated"
        BY <1>1, <2>1, <3>2, <4>1 DEF RegistryKeeps, DeprecatedStays
      <4>3. QED
        BY <1>1, <3>2, <4>1, <4>2
    <3>3. QED
      BY <1>5, <3>1, <3>2
  <2>2. QED
    BY <1>1, <2>1 DEF DeprecatedStays
<1>9. QED
    BY <1>1, <1>4, <1>7, <1>8

LEMMA RegisterKeepsRegistry ==
    ASSUME RegistryKeeps, NEW v \in Version, NEW base \in Version \cup {NoVersion},
           NEW role \in Role, Registry!Register(v, base, role)
    PROVE  RegistryKeeps'
<1>1. PICK e : e = HistoryRow(NoStatus, "draft", base, v, role)
    OBVIOUS
<1>2. /\ v \notin DOMAIN rows /\ rows' = Put(rows, v, DraftRow) /\ audit' = audit
      /\ history' = Append(history, e)
    BY <1>1, RegistryOperators DEF Registry!Register
<1>3. /\ e \in HistoryRecord /\ e.from = NoStatus /\ e.to = "draft" /\ e.after = v
    BY <1>1 DEF HistoryRow, HistoryRecord, Status
<1>4. /\ DOMAIN rows' = DOMAIN rows \cup {v} /\ rows'[v] = DraftRow
      /\ \A u \in DOMAIN rows : rows'[u] = rows[u]
      /\ rows' \in [DOMAIN rows' -> Row]
  <2>1. DraftRow \in Row
    BY DEF DraftRow, Row, Status
  <2>2. QED
    BY <1>2, <2>1 DEF Put, RegistryKeeps, RegistryTyped
<1>5. StatusAfter(history, Len(history), e.after) = NoStatus
    BY <1>2, <1>3 DEF RegistryKeeps, StatusIsLastOf
<1>6. \A u \in Version :
          (IF u \in DOMAIN rows' THEN rows'[u].status ELSE NoStatus) =
              IF e.after = u /\ (e.from = NoStatus \/ e.before = u) THEN e.to
              ELSE IF u \in DOMAIN rows THEN rows[u].status ELSE NoStatus
    BY <1>2, <1>3, <1>4 DEF DraftRow
<1>7. /\ history' \in Seq(HistoryRecord) /\ StatusIsLastOf(rows, history)'
      /\ HistoryChained' /\ DeprecatedStays'
    BY <1>2, <1>3, <1>4, <1>5, <1>6, RowKeepsChain
<1>8. FlagsAreAudited(rows, audit)'
  <2>1. FlagsAreTold(DraftRow, audit, v)
    <3>1. \A ops : Covering(audit, v, ops) = {}
      BY <1>2 DEF Covering, RegistryKeeps, RegistryTyped
    <3>2. DeletedPerAudit(audit, v) = FALSE /\ ArchivedPerAudit(audit, v) = FALSE
      BY <3>1 DEF DeletedPerAudit, ArchivedPerAudit
    <3>3. DraftRow.deleted = FALSE /\ DraftRow.archived = FALSE
      BY DEF DraftRow
    <3>4. QED
      BY <3>2, <3>3 DEF FlagsAreTold
  <2>2. \A u \in DOMAIN rows : FlagsAreTold(rows[u], audit, u)
    BY DEF RegistryKeeps, FlagsAreAudited
  <2>3. \A u \in DOMAIN rows' : FlagsAreTold(rows'[u], audit, u)
    BY <1>4, <2>1, <2>2
  <2>4. QED
    BY <1>2, <2>3 DEF FlagsAreAudited
<1>9. RegistryTyped'
    BY <1>2, <1>4, <1>7 DEF RegistryKeeps, RegistryTyped
<1>10. QED
    BY <1>7, <1>8, <1>9 DEF RegistryKeeps

(* A transition of a version, or a row of it that moves no record.          *)
LEMMA MoveKeepsRegistry ==
    ASSUME RegistryKeeps, NEW v \in Version, NEW role \in Role,
           \/ \E op \in DOMAIN Target \ {"return_to_draft"} : Registry!Move(v, op, role)
           \/ \E after \in Version : Registry!ReturnToDraft(v, after, role)
    PROVE  RegistryKeeps'
<1>1. PICK from, to, after, e :
          /\ from = rows[v].status /\ e = HistoryRow(from, to, v, after, role)
          /\ v \in DOMAIN rows /\ <<from, to>> \in Transitions /\ after \in Version
          /\ history' = Append(history, e) /\ audit' = audit
          /\ \/ after = v /\ rows' = [rows EXCEPT ![v].status = to]
             \/ after # v /\ rows' = rows /\ to = "draft"
  <2>1. ASSUME NEW op \in DOMAIN Target \ {"return_to_draft"}, Registry!Move(v, op, role)
        PROVE  /\ v \in DOMAIN rows /\ <<rows[v].status, Target[op]>> \in Transitions
               /\ history' = Append(history,
                      HistoryRow(rows[v].status, Target[op], v, v, role))
               /\ audit' = audit /\ rows' = [rows EXCEPT ![v].status = Target[op]]
    BY <2>1, RegistryOperators DEF Registry!Move
  <2>2. ASSUME NEW after \in Version, Registry!ReturnToDraft(v, after, role)
        PROVE  /\ v \in DOMAIN rows /\ <<rows[v].status, "draft">> \in Transitions
               /\ history' = Append(history,
                      HistoryRow(rows[v].status, "draft", v, after, role))
               /\ audit' = audit /\ rows' = rows /\ after # v
    BY <2>2, RegistryOperators DEF Registry!ReturnToDraft
  <2>3. QED
    BY <2>1, <2>2
<1>2. rows \in [DOMAIN rows -> Row] /\ DOMAIN rows \subseteq Version
    BY DEF RegistryKeeps, RegistryTyped
<1>3. from \in Status /\ to \in Status /\ from # NoStatus /\ from # "deprecated"
    BY <1>1, <1>2, NoStatusAssumption DEF Row, Transitions, Status
<1>4. /\ e \in HistoryRecord /\ e.from = from /\ e.to = to /\ e.before = v /\ e.after = after
    BY <1>1, <1>3 DEF HistoryRow, HistoryRecord
<1>5. /\ DOMAIN rows' = DOMAIN rows /\ rows' \in [DOMAIN rows' -> Row]
      /\ \A u \in DOMAIN rows :
            /\ rows'[u].status = IF after = v /\ u = v THEN to ELSE rows[u].status
            /\ rows'[u].deleted = rows[u].deleted /\ rows'[u].archived = rows[u].archived
            /\ u # v => rows'[u] = rows[u]
  <2>1. CASE after # v
    BY <1>1, <1>2, <2>1
  <2>2. CASE after = v
    <3>1. /\ DOMAIN rows' = DOMAIN rows
          /\ \A u \in DOMAIN rows :
                rows'[u] = IF u = v THEN [rows[u] EXCEPT !.status = to] ELSE rows[u]
          /\ rows' = [u \in DOMAIN rows |-> rows'[u]]
      BY <1>1, <1>2, <2>2
    <3>2. \A row \in Row : LET new == [row EXCEPT !.status = to] IN
              /\ new \in Row /\ new.status = to
              /\ new.deleted = row.deleted /\ new.archived = row.archived
      BY <1>3 DEF Row
    <3>3. \A u \in DOMAIN rows : rows'[u] \in Row
      BY <1>2, <3>1, <3>2
    <3>4. rows' \in [DOMAIN rows' -> Row]
      BY <3>1, <3>3
    <3>5. ASSUME NEW u \in DOMAIN rows
          PROVE  /\ rows'[u].status = IF after = v /\ u = v THEN to ELSE rows[u].status
                 /\ rows'[u].deleted = rows[u].deleted /\ rows'[u].archived = rows[u].archived
                 /\ u # v => rows'[u] = rows[u]
      <4>1. rows[u] \in Row
        BY <1>2
      <4>2. CASE u = v
        BY <2>2, <3>1, <3>2, <4>1, <4>2
      <4>3. CASE u # v
        BY <3>1, <4>3
      <4>4. QED
        BY <4>2, <4>3
    <3>6. QED
      BY <3>1, <3>4, <3>5
  <2>3. QED
    BY <2>1, <2>2
<1>6. StatusAfter(history, Len(history), e.before) = e.from
    BY <1>1, <1>4 DEF RegistryKeeps, StatusIsLastOf
<1>7. \A u \in Version :
          (IF u \in DOMAIN rows' THEN rows'[u].status ELSE NoStatus) =
              IF e.after = u /\ (e.from = NoStatus \/ e.before = u) THEN e.to
              ELSE IF u \in DOMAIN rows THEN rows[u].status ELSE NoStatus
    BY <1>1, <1>3, <1>4, <1>5
<1>8. \A u \in DOMAIN rows : /\ u \in DOMAIN rows'
                             /\ rows[u].status = "deprecated" => rows'[u] = rows[u]
    BY <1>1, <1>3, <1>5
<1>9. e.to = "deprecated" => e.after \in DOMAIN rows' /\ rows'[e.after].status = "deprecated"
    BY <1>1, <1>4, <1>5
<1>10. /\ history' \in Seq(HistoryRecord) /\ StatusIsLastOf(rows, history)'
       /\ HistoryChained' /\ DeprecatedStays'
    BY <1>1, <1>3, <1>4, <1>6, <1>7, <1>8, <1>9, RowKeepsChain
<1>11. FlagsAreAudited(rows, audit)'
    BY <1>1, <1>5 DEF RegistryKeeps, FlagsAreAudited, FlagsAreTold
<1>12. RegistryTyped'
    BY <1>1, <1>2, <1>5, <1>10 DEF RegistryKeeps, RegistryTyped
<1>13. QED
    BY <1>10, <1>11, <1>12 DEF RegistryKeeps

LEMMA SetFlagKeepsRegistry ==
    ASSUME RegistryKeeps, NEW op \in FlagOps, NEW role \in Role, Registry!SetFlag(op, role)
    PROVE  RegistryKeeps'
<1>1. PICK e : e = AuditRows(op, role, rows)
    OBVIOUS
<1>2. /\ rows' = SetAll(rows, op) /\ audit' = Append(audit, e) /\ history' = history
      /\ e.op = op /\ e.read = rows
    BY <1>1, RegistryOperators DEF Registry!SetFlag, AuditRows
<1>3. /\ DOMAIN rows' = DOMAIN rows /\ rows' \in [DOMAIN rows' -> Row]
      /\ \A v \in DOMAIN rows :
            /\ rows'[v].status = rows[v].status
            /\ rows'[v].deleted = IF op = "archive" THEN rows[v].deleted ELSE op = "soft_delete"
            /\ rows'[v].archived = IF op = "archive" THEN TRUE ELSE rows[v].archived
  <2>1. \A row \in Row :
            /\ Flagged(row, op) \in Row /\ Flagged(row, op).status = row.status
            /\ Flagged(row, op).deleted =
                   IF op = "archive" THEN row.deleted ELSE op = "soft_delete"
            /\ Flagged(row, op).archived = IF op = "archive" THEN TRUE ELSE row.archived
    BY DEF Flagged, Row
  <2>2. /\ DOMAIN rows' = DOMAIN rows /\ \A v \in DOMAIN rows : rows'[v] = Flagged(rows[v], op)
        /\ rows' = [v \in DOMAIN rows |-> Flagged(rows[v], op)]
    BY <1>2 DEF SetAll
  <2>3. \A v \in DOMAIN rows : rows[v] \in Row
    BY DEF RegistryKeeps, RegistryTyped
  <2>4. rows' \in [DOMAIN rows' -> Row]
    BY <2>1, <2>2, <2>3
  <2>5. QED
    BY <2>1, <2>2, <2>3, <2>4
<1>4. /\ audit \in Seq({audit[i] : i \in DOMAIN audit})
      /\ DOMAIN audit = 1 .. Len(audit) /\ Len(audit) \in Nat
      /\ DOMAIN audit' = 1 .. Len(audit) + 1
      /\ \A i \in 1 .. Len(audit) : audit'[i] = audit[i]
      /\ audit'[Len(audit) + 1] = e
      /\ audit' = [i \in 1 .. Len(audit) + 1 |-> audit'[i]]
  <2>1. audit \in Seq({audit[i] : i \in DOMAIN audit})
    BY DEF RegistryKeeps, RegistryTyped
  <2>2. QED
    BY <1>2, <2>1, AppendAny
<1>5. \A i \in DOMAIN audit' : audit'[i] = e \/ (i \in DOMAIN audit /\ audit'[i] = audit[i])
  <2>1. \A i \in 1 .. Len(audit) + 1 : i \in 1 .. Len(audit) \/ i = Len(audit) + 1
    BY <1>4
  <2>2. QED
    BY <1>4, <2>1
<1>6. audit' \in Seq({audit'[i] : i \in DOMAIN audit'})
  <2> DEFINE S == {audit'[i] : i \in DOMAIN audit'}
  <2>1. PICK n \in Nat : n = Len(audit) + 1 /\ DOMAIN audit' = 1 .. n
                         /\ audit' = [i \in 1 .. n |-> audit'[i]]
    BY <1>4
  <2>2. \A i \in 1 .. n : audit'[i] \in S
    BY <2>1
  <2> HIDE DEF S
  <2>3. audit' \in [1 .. n -> S]
    BY <2>1, <2>2
  <2>4. audit' \in Seq(S)
    BY <2>3
  <2>5. QED
    BY <2>4 DEF S
<1>7. \A i \in DOMAIN audit' : DOMAIN audit'[i].read \subseteq DOMAIN rows'
    BY <1>2, <1>3, <1>5 DEF RegistryKeeps, RegistryTyped
<1>8. RegistryTyped'
    BY <1>2, <1>3, <1>6, <1>7 DEF RegistryKeeps, RegistryTyped
<1>9. StatusIsLastOf(rows, history)' /\ HistoryChained'
    BY <1>2, <1>3 DEF RegistryKeeps, StatusIsLastOf, HistoryChained
<1>10. DeprecatedStays'
  <2>1. \A i \in DOMAIN history' : history'[i] = history[i] /\ i \in DOMAIN history
    BY <1>2
  <2>2. QED
    BY <1>3, <2>1 DEF RegistryKeeps, DeprecatedStays
<1>11. ASSUME NEW v \in DOMAIN rows PROVE FlagsAreTold(rows'[v], audit', v)
  <2>1. FlagsAreTold(rows[v], audit, v)
    BY DEF RegistryKeeps, FlagsAreAudited
  <2>2. /\ DeletedPerAudit(audit', v) =
               IF op \in {"soft_delete", "restore"} THEN op = "soft_delete"
               ELSE DeletedPerAudit(audit, v)
        /\ ArchivedPerAudit(audit', v) = (op = "archive" \/ ArchivedPerAudit(audit, v))
    BY <1>2, <1>4, AuditAppend
  <2>3. rows'[v].deleted = DeletedPerAudit(audit', v)
    BY <1>3, <2>1, <2>2 DEF FlagsAreTold, FlagOps
  <2>4. rows'[v].archived = ArchivedPerAudit(audit', v)
    <3>1. rows[v].archived = ArchivedPerAudit(audit, v)
      BY <2>1 DEF FlagsAreTold
    <3>2. CASE op = "archive"
      BY <1>3, <2>2, <3>2
    <3>3. CASE op # "archive"
      <4>1. ArchivedPerAudit(audit', v) = ArchivedPerAudit(audit, v)
        BY <2>2, <3>3 DEF ArchivedPerAudit
      <4>2. QED
        BY <1>3, <3>1, <3>3, <4>1
    <3>4. QED
      BY <3>2, <3>3
  <2>5. QED
    BY <2>3, <2>4 DEF FlagsAreTold
<1>12. FlagsAreAudited(rows, audit)'
    BY <1>3, <1>11 DEF FlagsAreAudited
<1>13. QED
    BY <1>8, <1>9, <1>10, <1>12 DEF RegistryKeeps

LEMMA NextKeepsRegistry ==
    RegistryKeeps /\ [Registry!Next]_(Registry!vars) => RegistryKeeps'
<1>1. SUFFICES ASSUME RegistryKeeps, [Registry!Next]_(Registry!vars) PROVE RegistryKeeps'
  OBVIOUS
<1>2. CASE UNCHANGED Registry!vars
  <2>1. rows' = rows /\ history' = history /\ audit' = audit
    BY <1>2 DEF Registry!vars
  <2>2. RegistryTyped' /\ HistoryChained' /\ DeprecatedStays'
    BY <1>1, <2>1 DEF RegistryKeeps, RegistryTyped, HistoryChained, DeprecatedStays
  <2>3. StatusIsLastOf(rows, history)' /\ FlagsAreAudited(rows, audit)'
    BY <1>1, <2>1 DEF RegistryKeeps, StatusIsLastOf, FlagsAreAudited
  <2>4. QED
    BY <2>2, <2>3 DEF RegistryKeeps
<1>3. CASE Registry!Next
  <2>1. PICK role \in Role :
            \/ \E v \in Version :
                  \/ \E base \in Version \cup {NoVersion} : Registry!Register(v, base, role)
                  \/ \E op \in DOMAIN Target \ {"return_to_draft"} :
                        Registry!Move(v, op, role)
                  \/ \E after \in Version : Registry!ReturnToDraft(v, after, role)
            \/ \E op \in FlagOps : Registry!SetFlag(op, role)
    BY <1>3, RegistryOperators DEF Registry!Next
  <2>2. QED
    BY <1>1, <2>1, RegisterKeepsRegistry, MoveKeepsRegistry, SetFlagKeepsRegistry
<1>4. QED
  BY <1>1, <1>2, <1>3

(* The registry's tables replay to its records along the table, and a       *)
(* deprecated version stays deprecated.                                    *)
THEOREM RegistryInvariant == Registry!Spec => []RegistryInv
BY RegistryInit, NextKeepsRegistry, RegistryKeepsIsEnough, PTL DEF Registry!Spec

(* So with callers that do not overlap the tables of the Question Bank are  *)
(* such a registry, across failing writes and restarts.                    *)
THEOREM SerialBankKeepsRegistry ==
    ASSUME NEW w, Workers = {w}
    PROVE  Spec => []RegistryInv
BY SerialBankImplementsRegistry, RegistryInvariant, PTL

(* In a mix of one thread all requests come from one caller.                *)
OneCaller == \A w, x \in Workers : req[w] # NoRequest /\ req[x] # NoRequest => w = x

LEMMA OneCallerNeverOverlaps == TypeOK /\ OneCaller => NoOverlap
BY NoRequestAssumption DEF TypeOK, RequestsTyped, OneCaller, NoOverlap

LEMMA StepsKeepRequests ==
    ASSUME NEW w \in Workers, Step(w) \/ Failure(w)
    PROVE  req' = req
BY DEF Step, Failure, ReadTags, ReadLatest, Save, Load, Insert, Compensate, FetchRecord,
   FetchRows, CommitTransition, CommitFlags, SaveFails, InsertFails, CompensateFails, CommitFails

LEMMA MixKeepsOneCaller ==
    ASSUME TypeOK, Serial, OneCaller, [MCNext]_<<vars, mix>>
    PROVE  OneCaller'
<1>1. CASE req' = req
    BY <1>1 DEF OneCaller
<1>2. ASSUME NEW w \in Workers, NEW r \in mix.requests, WithinMix(w, r), Receive(w, r)
      PROVE  OneCaller'
  <2>1. \A x \in Workers \ {w} : req[x] = NoRequest /\ req'[x] = req[x]
    BY <1>2 DEF WithinMix, Receive, TypeOK, RequestsTyped
  <2>2. QED
    BY <2>1 DEF OneCaller
<1>3. CASE Crash \/ UNCHANGED <<vars, mix>>
    BY <1>1, <1>3 DEF Crash, vars
<1>4. QED
    BY <1>1, <1>2, <1>3, StepsKeepRequests DEF MCNext, Failure

SerialInv ==
    Serial => OneCaller /\ AllReadsHold /\ RegistryKeeps

(* The same of each behaviour whose mix has one thread, whatever it asks    *)
(* and whatever fails, on a server that has many: each step is one of the   *)
(* registry or leaves its tables alone, and the tables keep its invariant.  *)
THEOREM MixedBankImplementsRegistry ==
    ASSUME EveryOperation \subseteq Requests
    PROVE  MCSpec => SerialImplementsRegistry
<1>1. MCInit => Registry!Init /\ SerialInv
    BY InitIsRegistryInit, RegistryInit DEF MCInit, SerialInv, Init, OneCaller
<1>2. ASSUME MixInv, TypeOK, HistoryInv, SerialInv, [MCNext]_<<vars, mix>>
      PROVE  SerialInv' /\ [Serial => Registry!Next]_tables
  <2>1. mix' = mix
    BY <1>2 DEF MCNext
  <2>2. ASSUME Serial
        PROVE  /\ OneCaller' /\ AllReadsHold' /\ RegistryKeeps'
               /\ [Registry!Next]_(Registry!vars)
    <3>1. [Next]_vars
        BY <1>2, MixesTaken DEF MCNext, Next, Failure, vars
    <3>2. OneCaller /\ AllReadsHold /\ RegistryKeeps
        BY <1>2, <2>2 DEF SerialInv
    <3>3. OneCaller' /\ NoOverlap
        BY <1>2, <2>2, <3>2, MixKeepsOneCaller, OneCallerNeverOverlaps
    <3>4. AllReadsHold' /\ [Registry!Next]_(Registry!vars)
        BY <1>2, <3>1, <3>2, <3>3, NextKeepsReads, NextIsRegistryStep
    <3>5. QED
        BY <3>2, <3>3, <3>4, NextKeepsRegistry
  <2>3. SerialInv'
    BY <2>1, <2>2 DEF SerialInv, Serial
  <2>4. [Serial => Registry!Next]_tables
    BY <2>2 DEF tables, Registry!vars
  <2>5. QED
    BY <2>3, <2>4
<1>3. SerialInv => (Serial => RegistryInv)
    BY RegistryKeepsIsEnough DEF SerialInv
<1>4. Spec => []TypeOK /\ []HistoryInv
    BY InitTyped, NextTyped, InitHistory, NextKeepsHistory, PTL DEF Spec
<1>5. QED
    BY <1>1, <1>2, <1>3, <1>4, MixesAreBehaviours, PTL DEF MCSpec, SerialImplementsRegistry

=============================================================================
