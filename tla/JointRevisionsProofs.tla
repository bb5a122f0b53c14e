------------------------- MODULE JointRevisionsProofs -------------------------
(***************************************************************************)
(* Any number of overlapping requests about one joint, with a busy database *)
(* and restarts: revisions keep their number, key, content and author, and *)
(* what a request checked before it writes still holds where it matters.    *)
(***************************************************************************)
EXTENDS MCJoints, SequenceTheorems, TLAPS

SeenRecord == [status : Register!JointStatus, no : Nat]
ReplyRecord == [kind : ReplyKind, rev : Nat]

TablesTyped ==
    /\ joint \in JointRow
    /\ revs \in Seq(Register!Revision)
    /\ trail \in Seq(Nat)

LocalsTyped ==
    /\ pc \in [Workers -> PC]
    /\ req \in [Workers -> Requests \cup {NoRequest}]
    /\ seen \in [Workers -> SeenRecord]
    /\ target \in [Workers -> Nat]
    /\ reply \in [Workers -> ReplyRecord]

LEMMA TypeOKSplits ==
    TypeOK <=> TablesTyped /\ LocalsTyped /\ \A w \in Workers : AtStep(w)
BY DEF TypeOK, TablesTyped, LocalsTyped, SeenRecord, ReplyRecord

(* What a step of w leaves to the other requests.                          *)
OthersKept(w) ==
    \A x \in Workers : x # w =>
        /\ pc'[x] = pc[x] /\ req'[x] = req[x] /\ seen'[x] = seen[x]
        /\ target'[x] = target[x] /\ reply'[x] = reply[x]

(* No revision goes, or changes its number, key, content or author.         *)
RevisionsKept ==
    /\ DOMAIN revs \subseteq DOMAIN revs'
    /\ \A i \in DOMAIN revs :
          /\ revs'[i].no = revs[i].no /\ revs'[i].key = revs[i].key
          /\ revs'[i].content = revs[i].content /\ revs'[i].by = revs[i].by

-----------------------------------------------------------------------------
(* Types.                                                                  *)

LEMMA InitTyped == Init => TypeOK
<1> SUFFICES ASSUME Init PROVE TypeOK
    OBVIOUS
<1>1. TablesTyped
    BY DEF Init, Register!Init, TablesTyped, JointRow, Register!JointStatus
<1>2. LocalsTyped
    BY DEF Init, LocalsTyped, PC, SeenRecord, ReplyRecord, Unread, Answer, ReplyKind,
           Register!JointStatus
<1>3. \A w \in Workers : AtStep(w)
    BY DEF Init, AtStep
<1>4. QED
    BY <1>1, <1>2, <1>3, TypeOKSplits

(* A request that a step does not touch stays where it was.                *)
LEMMA OtherAtStep ==
    ASSUME NEW w \in Workers, NEW x \in Workers, x # w, AtStep(x), OthersKept(w),
           TablesTyped, TablesTyped', DOMAIN revs \subseteq DOMAIN revs'
    PROVE  AtStep(x)'
<1>1. /\ DOMAIN revs = 1 .. Len(revs) /\ Len(revs) \in Nat
      /\ DOMAIN revs' = 1 .. Len(revs') /\ Len(revs') \in Nat
    BY LenProperties DEF TablesTyped
<1>2. Len(revs) <= Len(revs')
    BY <1>1
<1>3. pc[x] = "insert" => seen[x].no \in 1 .. Len(revs') + 1
    BY <1>1, <1>2 DEF AtStep
<1>4. QED
    BY <1>3 DEF AtStep, OthersKept

LEMMA FinishTyped ==
    ASSUME TypeOK, NEW w \in Workers, NEW k \in ReplyKind, NEW v \in Nat,
           Finish(w, k, v), TablesTyped', DOMAIN revs \subseteq DOMAIN revs'
    PROVE  /\ TypeOK' /\ OthersKept(w)
           /\ pc'[w] = "idle" /\ req' = req /\ target'[w] = 0
           /\ reply'[w] = Answer(k, v)
<1>1. TablesTyped /\ LocalsTyped /\ \A x \in Workers : AtStep(x)
    BY TypeOKSplits
<1>2. /\ LocalsTyped' /\ OthersKept(w) /\ pc'[w] = "idle" /\ req' = req
      /\ target'[w] = 0 /\ reply'[w] = Answer(k, v)
    BY <1>1 DEF Finish, LocalsTyped, OthersKept, PC, SeenRecord, ReplyRecord, Unread,
                Answer, Register!JointStatus
<1>3. AtStep(w)'
    BY <1>2 DEF AtStep
<1>4. \A x \in Workers : AtStep(x)'
    BY <1>1, <1>2, <1>3, OtherAtStep
<1>5. QED
    BY <1>2, <1>4 DEF TypeOK, TablesTyped, LocalsTyped, SeenRecord, ReplyRecord

LEMMA GotoTyped ==
    ASSUME TypeOK, NEW w \in Workers, NEW step \in PC, Goto(w, step),
           seen' \in [Workers -> SeenRecord], target' \in [Workers -> Nat],
           \A x \in Workers : x # w => seen'[x] = seen[x] /\ target'[x] = target[x],
           TablesTyped', DOMAIN revs \subseteq DOMAIN revs',
           pc'[w] = step => AtStep(w)'
    PROVE  TypeOK' /\ OthersKept(w) /\ pc'[w] = step /\ req' = req /\ reply' = reply
<1>1. TablesTyped /\ LocalsTyped /\ \A x \in Workers : AtStep(x)
    BY TypeOKSplits
<1>2. LocalsTyped' /\ OthersKept(w) /\ pc'[w] = step /\ req' = req /\ reply' = reply
    BY <1>1 DEF Goto, LocalsTyped, OthersKept
<1>3. \A x \in Workers : AtStep(x)'
    BY <1>1, <1>2, OtherAtStep
<1>4. QED
    BY <1>2, <1>3 DEF TypeOK, TablesTyped, LocalsTyped, SeenRecord, ReplyRecord

(* Most steps leave the tables as they are.                                *)
LEMMA SameTablesTyped ==
    ASSUME TypeOK, UNCHANGED tables PROVE TablesTyped' /\ RevisionsKept
BY TypeOKSplits DEF TablesTyped, RevisionsKept, tables

(* The transitions keep number, key, content and author.                   *)
LEMMA TransitionTyped ==
    ASSUME NEW rev \in Register!Revision, NEW u \in Users,
           NEW new, \/ new = Register!Submitted(rev)
                    \/ new = Register!Approved(rev, u)
                    \/ new = Register!Rejected(rev, u)
    PROVE  /\ new \in Register!Revision
           /\ new.no = rev.no /\ new.key = rev.key
           /\ new.content = rev.content /\ new.by = rev.by
<1>1. CASE new = Register!Submitted(rev)
    BY <1>1 DEF Register!Revision, Register!RevisionStatus, Register!Submitted
<1>2. CASE new = Register!Approved(rev, u)
    BY <1>2 DEF Register!Revision, Register!RevisionStatus, Register!Approved
<1>3. CASE new = Register!Rejected(rev, u)
    BY <1>3 DEF Register!Revision, Register!RevisionStatus, Register!Rejected
<1>4. QED
    BY <1>1, <1>2, <1>3

-----------------------------------------------------------------------------
(* One lemma for each action: it keeps the types, the other requests and    *)
(* the revisions.                                                          *)

LEMMA ReceiveTyped ==
    ASSUME TypeOK, NEW w \in Workers, NEW r \in Requests, Receive(w, r)
    PROVE  TypeOK' /\ OthersKept(w) /\ RevisionsKept
<1>1. TablesTyped' /\ RevisionsKept
    BY SameTablesTyped DEF Receive
<1>2. TablesTyped /\ LocalsTyped /\ \A x \in Workers : AtStep(x)
    BY TypeOKSplits
<1>3. /\ LocalsTyped' /\ OthersKept(w)
      /\ pc'[w] = FirstStep(r.op) /\ req'[w] = r /\ target'[w] = target[w]
    BY <1>2 DEF Receive, LocalsTyped, OthersKept, PC, FirstStep, ReplyRecord, ReplyKind, Answer
<1>4. /\ pc'[w] \in {"code", "revision", "joint"}
      /\ pc'[w] = "revision" => r.op \in Transition
      /\ pc'[w] = "code" => r.op = "create_joint"
      /\ pc'[w] = "joint" => r.op \in {"archive_joint", "create"}
    BY <1>3, RequestsAssumption DEF FirstStep
<1>5. AtStep(w)'
    BY <1>1, <1>2, <1>3, <1>4 DEF AtStep, Receive, RevisionsKept
<1>6. \A x \in Workers : AtStep(x)'
    BY <1>1, <1>2, <1>3, <1>5, OtherAtStep DEF RevisionsKept
<1>7. QED
    BY <1>1, <1>3, <1>6 DEF TypeOK, TablesTyped, LocalsTyped, SeenRecord, ReplyRecord

(* A step that leaves the tables alone and answers.                        *)
LEMMA AnswerTyped ==
    ASSUME TypeOK, NEW w \in Workers, NEW k \in ReplyKind, NEW v \in Nat,
           Finish(w, k, v), UNCHANGED tables
    PROVE  TypeOK' /\ OthersKept(w) /\ RevisionsKept
BY SameTablesTyped, FinishTyped DEF RevisionsKept

(* A step that leaves the tables and the locals alone and goes on.          *)
LEMMA PlainGotoTyped ==
    ASSUME TypeOK, NEW w \in Workers, NEW step \in PC, Goto(w, step),
           UNCHANGED <<tables, seen, target>>,
           pc[w] \notin {"idle", "audit"}, step \in {"add", "number", "recheck", "update"},
           step = "add" => req[w].op = "create_joint",
           step \in {"number", "recheck"} => req[w].op = "create",
           step = "update" => req[w].op \in Transition /\ req[w].rev \in DOMAIN revs
    PROVE  TypeOK' /\ OthersKept(w) /\ RevisionsKept
<1>1. TablesTyped' /\ RevisionsKept
    BY SameTablesTyped
<1>2. LocalsTyped /\ AtStep(w)
    BY TypeOKSplits
<1>3. pc'[w] = step => AtStep(w)'
    BY <1>2 DEF AtStep, Goto, tables
<1>4. QED
    BY <1>1, <1>2, <1>3, GotoTyped DEF LocalsTyped, RevisionsKept

LEMMA CheckCodeTyped ==
    ASSUME TypeOK, NEW w \in Workers, CheckCode(w)
    PROVE  TypeOK' /\ OthersKept(w) /\ RevisionsKept
<1>1. CASE joint.status # "absent"
    BY <1>1, AnswerTyped DEF CheckCode, ReplyKind
<1>2. CASE joint.status = "absent"
  <2>1. /\ Goto(w, "add") /\ UNCHANGED <<tables, seen, target>> /\ pc[w] = "code"
    BY <1>2 DEF CheckCode
  <2>2. req[w].op = "create_joint"
    BY <2>1, TypeOKSplits DEF AtStep
  <2>3. QED
    BY <2>1, <2>2, PlainGotoTyped DEF PC
<1>3. QED
    BY <1>1, <1>2

(* The two writes of the joint.                                            *)
LEMMA JointWriteTyped ==
    ASSUME TypeOK, NEW w \in Workers, NEW s \in Register!JointStatus,
           joint' = [joint EXCEPT !.status = s], Goto(w, "audit"),
           UNCHANGED <<revs, trail, seen, target>>, pc[w] \in {"add", "archive"}
    PROVE  TypeOK' /\ OthersKept(w) /\ RevisionsKept
<1>1. TablesTyped /\ LocalsTyped /\ AtStep(w)
    BY TypeOKSplits
<1>2. TablesTyped' /\ RevisionsKept
    BY <1>1 DEF TablesTyped, RevisionsKept, JointRow
<1>3. pc'[w] = "audit" => AtStep(w)'
    BY <1>1 DEF AtStep, Goto
<1>4. QED
    BY <1>1, <1>2, <1>3, GotoTyped DEF LocalsTyped, RevisionsKept, PC

LEMMA AddJointTyped ==
    ASSUME TypeOK, NEW w \in Workers, AddJoint(w)
    PROVE  TypeOK' /\ OthersKept(w) /\ RevisionsKept
<1>1. CASE joint.status # "absent"
    BY <1>1, AnswerTyped DEF AddJoint, ReplyKind, tables
<1>2. CASE joint.status = "absent"
    BY <1>2, JointWriteTyped DEF AddJoint, Register!JointStatus
<1>3. QED
    BY <1>1, <1>2

LEMMA GetJointTyped ==
    ASSUME TypeOK, NEW w \in Workers, GetJoint(w)
    PROVE  TypeOK' /\ OthersKept(w) /\ RevisionsKept
<1>1. CASE joint.status = "absent" \/ (req[w].op = "archive_joint" /\ joint.status = "archived")
    BY <1>1, AnswerTyped DEF GetJoint, ReplyKind
<1>2. CASE ~(joint.status = "absent" \/ (req[w].op = "archive_joint" /\ joint.status = "archived"))
  <2> DEFINE step == IF req[w].op = "archive_joint" THEN "archive" ELSE "key"
  <2>1. /\ Goto(w, step) /\ step \in PC /\ pc[w] = "joint" /\ UNCHANGED <<tables, target>>
        /\ seen' = [seen EXCEPT ![w].status = joint.status]
    BY <1>2 DEF GetJoint, PC
  <2>2. TablesTyped /\ LocalsTyped /\ AtStep(w) /\ TablesTyped' /\ RevisionsKept
    BY <2>1, TypeOKSplits, SameTablesTyped
  <2>3. /\ seen' \in [Workers -> SeenRecord]
        /\ \A x \in Workers : x # w => seen'[x] = seen[x]
    BY <2>1, <2>2 DEF TablesTyped, LocalsTyped, SeenRecord, JointRow
  <2>4. pc'[w] = step => AtStep(w)'
    BY <2>1, <2>2 DEF AtStep, Goto, tables
  <2>5. QED
    BY <2>1, <2>2, <2>3, <2>4, GotoTyped DEF LocalsTyped, RevisionsKept
<1>3. QED
    BY <1>1, <1>2

LEMMA ArchiveJointTyped ==
    ASSUME TypeOK, NEW w \in Workers, ArchiveJoint(w)
    PROVE  TypeOK' /\ OthersKept(w) /\ RevisionsKept
BY JointWriteTyped DEF ArchiveJoint, Register!JointStatus

(* The row a creation finds under its key answers it.                      *)
LEMMA ReplayTyped ==
    ASSUME TypeOK, NEW w \in Workers, NEW i \in Register!WithKey(revs, req[w].key),
           Replay(w, i), UNCHANGED tables
    PROVE  TypeOK' /\ OthersKept(w) /\ RevisionsKept
<1>1. i \in Nat
    BY TypeOKSplits DEF Register!WithKey, TablesTyped
<1>2. CASE revs[i].content = req[w].content /\ revs[i].by = req[w].user
    BY <1>1, <1>2, AnswerTyped DEF Replay, ReplyKind
<1>3. CASE ~(revs[i].content = req[w].content /\ revs[i].by = req[w].user)
    BY <1>3, AnswerTyped DEF Replay, ReplyKind
<1>4. QED
    BY <1>2, <1>3

LEMMA MatchKeyTyped ==
    ASSUME TypeOK, NEW w \in Workers, MatchKey(w)
    PROVE  TypeOK' /\ OthersKept(w) /\ RevisionsKept
<1>1. CASE \E i \in Register!WithKey(revs, req[w].key) : Replay(w, i)
    BY <1>1, ReplayTyped DEF MatchKey
<1>2. CASE /\ seen[w].status = "archived"
           /\ Finish(w, "archived", 0)
    BY <1>2, AnswerTyped DEF MatchKey, ReplyKind
<1>3. CASE Goto(w, "number") /\ UNCHANGED <<seen, target>>
  <2>1. pc[w] = "key" /\ UNCHANGED tables
    BY DEF MatchKey
  <2>2. req[w].op = "create"
    BY <2>1, TypeOKSplits DEF AtStep
  <2>3. QED
    BY <1>3, <2>1, <2>2, PlainGotoTyped DEF PC
<1>4. QED
    BY <1>1, <1>2, <1>3 DEF MatchKey

LEMMA RangeTop ==
    ASSUME NEW L \in Nat, NEW n \in 0 .. L
    PROVE  (\A i \in 1 .. L : i <= n) <=> n = L
<1>1. CASE n = L
    BY <1>1
<1>2. CASE n # L
  <2>1. L \in 1 .. L /\ ~(L <= n)
    BY <1>2
  <2>2. QED
    BY <1>2, <2>1
<1>3. QED
    BY <1>1, <1>2

(* MaxNo is the largest number, and 0 without a revision.                   *)
LEMMA MaxNoIsLen ==
    ASSUME revs \in Seq(Register!Revision), RevisionsNumbered
    PROVE  MaxNo(revs) = Len(revs)
<1> DEFINE N == {0} \cup {revs[i].no : i \in DOMAIN revs}
<1>1. DOMAIN revs = 1 .. Len(revs) /\ Len(revs) \in Nat
    BY LenProperties
<1>2. N = 0 .. Len(revs)
    BY <1>1 DEF RevisionsNumbered
<1>3. \A n \in N : (\A i \in DOMAIN revs : revs[i].no <= n) <=> n = Len(revs)
  <2> SUFFICES ASSUME NEW n \in N
               PROVE  (\A i \in DOMAIN revs : revs[i].no <= n) <=> n = Len(revs)
    OBVIOUS
  <2>1. (\A i \in DOMAIN revs : revs[i].no <= n) <=> (\A i \in 1 .. Len(revs) : i <= n)
    BY <1>1 DEF RevisionsNumbered
  <2>2. n \in 0 .. Len(revs)
    BY <1>2
  <2>3. QED
    BY <1>1, <2>1, <2>2, RangeTop
<1>4. Len(revs) \in N
    BY <1>1, <1>2
<1> HIDE DEF N
<1>5. (CHOOSE n \in N : \A i \in DOMAIN revs : revs[i].no <= n) = Len(revs)
    BY <1>3, <1>4
<1>6. QED
    BY <1>5 DEF N, MaxNo

LEMMA NextNumberTyped ==
    ASSUME TypeOK, RevisionsNumbered, NEW w \in Workers, NextNumber(w)
    PROVE  TypeOK' /\ OthersKept(w) /\ RevisionsKept
<1>1. /\ Goto(w, "insert") /\ pc[w] = "number" /\ UNCHANGED <<tables, target>>
      /\ seen' = [seen EXCEPT ![w].no = MaxNo(revs) + 1]
    BY DEF NextNumber
<1>2. TablesTyped /\ LocalsTyped /\ AtStep(w) /\ TablesTyped' /\ RevisionsKept
    BY <1>1, TypeOKSplits, SameTablesTyped
<1>3. MaxNo(revs) \in Nat /\ MaxNo(revs) = Len(revs)
    BY <1>2, MaxNoIsLen, LenProperties DEF TablesTyped
<1>4. /\ seen' \in [Workers -> SeenRecord] /\ seen'[w].no = Len(revs) + 1
      /\ \A x \in Workers : x # w => seen'[x] = seen[x]
  <2>1. PICK m \in Nat : m = Len(revs) + 1 /\ m = MaxNo(revs) + 1
    BY <1>3
  <2>2. seen' = [seen EXCEPT ![w].no = m] /\ seen \in [Workers -> SeenRecord]
    BY <1>1, <1>2, <2>1 DEF LocalsTyped
  <2>3. seen' \in [Workers -> SeenRecord] /\ seen'[w].no = m
    BY <2>2 DEF SeenRecord
  <2>4. QED
    BY <2>1, <2>2, <2>3
<1>5. pc'[w] = "insert" => AtStep(w)'
    BY <1>1, <1>2, <1>3, <1>4 DEF AtStep, Goto, tables
<1>6. QED
    BY <1>1, <1>2, <1>4, <1>5, GotoTyped DEF LocalsTyped, RevisionsKept, PC

(* The insert appends one draft, whose number and key no other has.         *)
LEMMA AppendedRevision ==
    ASSUME TypeOK, RevisionsNumbered, KeysNameOneRevision, NEW w \in Workers,
           pc[w] = "insert", ~Refused(w),
           revs' = Append(revs, Register!DraftRevision(
                       seen[w].no, req[w].key, req[w].content, req[w].user))
    PROVE  /\ revs' \in Seq(Register!Revision) /\ RevisionsKept
           /\ RevisionsNumbered' /\ KeysNameOneRevision'
           /\ Len(revs) + 1 \in DOMAIN revs' /\ Len(revs) + 1 \notin DOMAIN revs
           /\ Len(revs) + 1 \in Nat \ {0}
           /\ DOMAIN revs' = 1 .. Len(revs) + 1 /\ DOMAIN revs = 1 .. Len(revs)
           /\ \A i \in DOMAIN revs : revs'[i] = revs[i]
           /\ revs'[Len(revs) + 1] = Register!DraftRevision(
                   seen[w].no, req[w].key, req[w].content, req[w].user)
<1> DEFINE new == Register!DraftRevision(
                      seen[w].no, req[w].key, req[w].content, req[w].user)
           n == Len(revs) + 1
<1>1. /\ revs \in Seq(Register!Revision) /\ seen[w].no \in 1 .. Len(revs) + 1
      /\ req[w] \in Requests /\ req[w].op = "create"
    BY TypeOKSplits DEF TablesTyped, AtStep
<1>2. req[w].user \in Users /\ req[w].key \in Keys \cup {NoKey} /\ req[w].content \in Contents
    BY <1>1, RequestsAssumption
<1>3. Len(revs) \in Nat /\ DOMAIN revs = 1 .. Len(revs)
    BY <1>1, LenProperties
<1>4. seen[w].no = n
  <2>1. \A i \in 1 .. Len(revs) : seen[w].no # i
    BY <1>3 DEF Refused, RevisionsNumbered
  <2>2. QED
    BY <1>1, <1>3, <2>1
<1>5. new \in Register!Revision
    BY <1>1, <1>2, <1>3, <1>4
    DEF Register!DraftRevision, Register!Revision, Register!RevisionStatus
<1>6. /\ new.no = n /\ new.key = req[w].key /\ new.content = req[w].content
      /\ new.by = req[w].user
    BY <1>4 DEF Register!DraftRevision
<1> HIDE DEF new
<1>7. revs' = Append(revs, new)
    BY DEF new
<1>8. /\ revs' \in Seq(Register!Revision) /\ Len(revs') = n
      /\ \A i \in 1 .. Len(revs) : revs'[i] = revs[i]
      /\ revs'[n] = new
    BY <1>1, <1>5, <1>7, AppendProperties
<1>9. DOMAIN revs' = 1 .. n
    BY <1>8, LenProperties
<1>10. DOMAIN revs' = DOMAIN revs \cup {n} /\ n \notin DOMAIN revs /\ n \in Nat \ {0}
    BY <1>3, <1>9
<1>11. RevisionsKept
    BY <1>3, <1>8, <1>10 DEF RevisionsKept
<1>12. RevisionsNumbered'
    BY <1>3, <1>6, <1>8, <1>10 DEF RevisionsNumbered
<1>13. KeysNameOneRevision'
  <2>1. \A i \in DOMAIN revs : new.key # NoKey => revs[i].key # new.key
    BY <1>6 DEF Refused, Register!WithKey
  <2>2. QED
    BY <1>3, <1>8, <1>10, <2>1 DEF KeysNameOneRevision
<1>14. QED
    BY <1>3, <1>8, <1>9, <1>10, <1>11, <1>12, <1>13 DEF new

LEMMA InsertRevisionTyped ==
    ASSUME TypeOK, RevisionsNumbered, KeysNameOneRevision, NEW w \in Workers,
           InsertRevision(w)
    PROVE  TypeOK' /\ OthersKept(w) /\ RevisionsKept
<1>1. CASE Refused(w)
  <2>1. CASE req[w].key = NoKey
    BY <1>1, <2>1, AnswerTyped DEF InsertRevision, ReplyKind, tables
  <2>2. CASE req[w].key # NoKey
    <3>1. Goto(w, "recheck") /\ UNCHANGED <<tables, seen, target>> /\ pc[w] = "insert"
      BY <1>1, <2>2 DEF InsertRevision, tables
    <3>2. req[w].op = "create"
      BY <3>1, TypeOKSplits DEF AtStep
    <3>3. QED
      BY <3>1, <3>2, PlainGotoTyped DEF PC
  <2>3. QED
    BY <2>1, <2>2
<1>2. CASE ~Refused(w)
  <2>1. /\ pc[w] = "insert" /\ Goto(w, "audit") /\ UNCHANGED <<joint, trail, seen>>
        /\ revs' = Append(revs, Register!DraftRevision(
                       seen[w].no, req[w].key, req[w].content, req[w].user))
        /\ target' = [target EXCEPT ![w] = Len(revs) + 1]
    BY <1>2 DEF InsertRevision
  <2>2. /\ revs' \in Seq(Register!Revision) /\ RevisionsKept
        /\ Len(revs) + 1 \in DOMAIN revs' /\ Len(revs) + 1 \in Nat \ {0}
    BY <1>2, <2>1, AppendedRevision
  <2>3. TablesTyped /\ LocalsTyped /\ AtStep(w)
    BY TypeOKSplits
  <2>4. TablesTyped'
    BY <2>1, <2>2, <2>3 DEF TablesTyped
  <2>5. /\ target' \in [Workers -> Nat] /\ target'[w] = Len(revs) + 1
        /\ \A x \in Workers : x # w => target'[x] = target[x]
    BY <2>1, <2>2, <2>3 DEF LocalsTyped
  <2>6. pc'[w] = "audit" => AtStep(w)'
    BY <2>1, <2>2, <2>3, <2>5 DEF AtStep, Goto
  <2>7. QED
    BY <2>1, <2>2, <2>3, <2>4, <2>5, <2>6, GotoTyped DEF LocalsTyped, RevisionsKept, PC
<1>3. QED
    BY <1>1, <1>2

LEMMA RecheckTyped ==
    ASSUME TypeOK, NEW w \in Workers, Recheck(w)
    PROVE  TypeOK' /\ OthersKept(w) /\ RevisionsKept
<1>1. CASE \E i \in Register!WithKey(revs, req[w].key) : Replay(w, i)
    BY <1>1, ReplayTyped DEF Recheck
<1>2. CASE Finish(w, "key_conflict", 0)
    BY <1>2, AnswerTyped DEF Recheck, ReplyKind
<1>3. QED
    BY <1>1, <1>2 DEF Recheck

LEMMA GetRevisionTyped ==
    ASSUME TypeOK, NEW w \in Workers, GetRevision(w)
    PROVE  TypeOK' /\ OthersKept(w) /\ RevisionsKept
<1>1. UNCHANGED tables /\ pc[w] = "revision"
    BY DEF GetRevision
<1>2. \/ Finish(w, "not_found", 0)
      \/ Finish(w, "state_error", 0)
      \/ /\ req[w].rev \in DOMAIN revs
         /\ Goto(w, "update") /\ UNCHANGED <<seen, target>>
    BY DEF GetRevision
<1>3. req[w].op \in Transition
    BY <1>1, TypeOKSplits DEF AtStep
<1>4. CASE Finish(w, "not_found", 0) \/ Finish(w, "state_error", 0)
    BY <1>1, <1>4, AnswerTyped DEF ReplyKind
<1>5. CASE /\ req[w].rev \in DOMAIN revs
           /\ Goto(w, "update") /\ UNCHANGED <<seen, target>>
    BY <1>1, <1>3, <1>5, PlainGotoTyped DEF PC
<1>6. QED
    BY <1>2, <1>4, <1>5

(* What UpdateRevision makes of the revisions and the joint.               *)
LEMMA UpdatedRevision ==
    ASSUME TypeOK, NEW w \in Workers, UpdateRevision(w)
    PROVE  /\ req[w].rev \in DOMAIN revs /\ req[w].rev \in Nat \ {0}
           /\ req[w] \in Requests /\ req[w].op \in Transition /\ req[w].user \in Users
           /\ pc[w] = "update"
           /\ revs' \in Seq(Register!Revision) /\ RevisionsKept
           /\ DOMAIN revs' = DOMAIN revs
           /\ \A i \in DOMAIN revs : i # req[w].rev => revs'[i] = revs[i]
           /\ revs'[req[w].rev] = IF req[w].op = "submit"
                                  THEN Register!Submitted(revs[req[w].rev])
                                  ELSE IF req[w].op = "approve"
                                  THEN Register!Approved(revs[req[w].rev], req[w].user)
                                  ELSE Register!Rejected(revs[req[w].rev], req[w].user)
<1> DEFINE i == req[w].rev
           updated == IF req[w].op = "submit" THEN Register!Submitted(revs[i])
                      ELSE IF req[w].op = "approve"
                      THEN Register!Approved(revs[i], req[w].user)
                      ELSE Register!Rejected(revs[i], req[w].user)
<1>1. pc[w] = "update" /\ revs' = [revs EXCEPT ![i] = updated]
    BY DEF UpdateRevision
<1>2. /\ i \in DOMAIN revs /\ req[w] \in Requests /\ req[w].op \in Transition
      /\ revs \in Seq(Register!Revision)
    BY <1>1, TypeOKSplits DEF AtStep, TablesTyped
<1>3. req[w].user \in Users
    BY <1>2, RequestsAssumption
<1>4. i \in 1 .. Len(revs) /\ revs[i] \in Register!Revision /\ Len(revs) \in Nat
    BY <1>2, LenProperties, ElementOfSeq
<1>5. /\ updated \in Register!Revision
      /\ updated.no = revs[i].no /\ updated.key = revs[i].key
      /\ updated.content = revs[i].content /\ updated.by = revs[i].by
    BY <1>3, <1>4, TransitionTyped
<1> HIDE DEF updated
<1>6. revs' \in Seq(Register!Revision) /\ DOMAIN revs' = DOMAIN revs
    BY <1>1, <1>2, <1>4, <1>5, ExceptSeq
<1>7. \A j \in DOMAIN revs : revs'[j] = IF j = i THEN updated ELSE revs[j]
    BY <1>1
<1>8. RevisionsKept
    BY <1>5, <1>6, <1>7 DEF RevisionsKept
<1>9. QED
    BY <1>1, <1>2, <1>3, <1>4, <1>6, <1>7, <1>8 DEF updated

LEMMA UpdateRevisionTyped ==
    ASSUME TypeOK, NEW w \in Workers, UpdateRevision(w)
    PROVE  TypeOK' /\ OthersKept(w) /\ RevisionsKept
<1>1. /\ Goto(w, "audit") /\ UNCHANGED <<trail, seen>>
      /\ target' = [target EXCEPT ![w] = req[w].rev]
      /\ joint' = IF req[w].op = "approve"
                  THEN [status |-> "active", current |-> req[w].rev] ELSE joint
    BY DEF UpdateRevision
<1>2. /\ req[w].rev \in DOMAIN revs' /\ req[w].rev \in Nat \ {0}
      /\ revs' \in Seq(Register!Revision) /\ RevisionsKept
      /\ req[w] \in Requests /\ pc[w] = "update"
    BY UpdatedRevision
<1>3. TablesTyped /\ LocalsTyped /\ AtStep(w)
    BY TypeOKSplits
<1>4. TablesTyped'
    BY <1>1, <1>2, <1>3 DEF TablesTyped, JointRow, Register!JointStatus
<1>5. /\ target' \in [Workers -> Nat] /\ target'[w] = req[w].rev
      /\ \A x \in Workers : x # w => target'[x] = target[x]
    BY <1>1, <1>2, <1>3 DEF LocalsTyped
<1>6. pc'[w] = "audit" => AtStep(w)'
    BY <1>1, <1>2, <1>3, <1>5 DEF AtStep, Goto
<1>7. QED
    BY <1>1, <1>2, <1>3, <1>4, <1>5, <1>6, GotoTyped DEF LocalsTyped, RevisionsKept, PC

LEMMA WriteAuditTyped ==
    ASSUME TypeOK, NEW w \in Workers, WriteAudit(w)
    PROVE  TypeOK' /\ OthersKept(w) /\ RevisionsKept
<1>1. TablesTyped /\ target[w] \in Nat
    BY TypeOKSplits DEF LocalsTyped
<1>2. /\ Finish(w, "ok", target[w]) /\ UNCHANGED <<joint, revs>>
      /\ trail' = IF req[w].op = "create" THEN Append(trail, target[w]) ELSE trail
    BY DEF WriteAudit
<1>3. trail' \in Seq(Nat)
    BY <1>1, <1>2, AppendProperties DEF TablesTyped
<1>4. TablesTyped' /\ RevisionsKept
    BY <1>1, <1>2, <1>3 DEF TablesTyped, RevisionsKept
<1>5. QED
    BY <1>1, <1>2, <1>4, FinishTyped DEF RevisionsKept, ReplyKind

LEMMA CrashTyped ==
    ASSUME TypeOK, Crash PROVE TypeOK' /\ RevisionsKept
<1>1. TablesTyped /\ LocalsTyped
    BY TypeOKSplits
<1>2. TablesTyped' /\ RevisionsKept
    BY SameTablesTyped DEF Crash
<1>3. LocalsTyped'
    BY <1>1 DEF Crash, LocalsTyped, PC, SeenRecord, ReplyRecord, Unread, Answer, ReplyKind,
               Register!JointStatus
<1>4. \A w \in Workers : AtStep(w)'
    BY DEF Crash, AtStep
<1>5. QED
    BY <1>2, <1>3, <1>4 DEF TypeOK, TablesTyped, LocalsTyped, SeenRecord, ReplyRecord

(* Every step of one request.                                              *)
LEMMA StepTyped ==
    ASSUME TypeOK, RevisionsNumbered, KeysNameOneRevision, NEW w \in Workers,
           Step(w) \/ Busy(w) \/ \E r \in Requests : Receive(w, r)
    PROVE  TypeOK' /\ OthersKept(w) /\ RevisionsKept
<1>1. CASE Busy(w)
    BY <1>1, AnswerTyped DEF Busy, ReplyKind
<1>2. CASE \E r \in Requests : Receive(w, r)
    BY <1>2, ReceiveTyped
<1>3. CASE Step(w)
    BY <1>3, CheckCodeTyped, AddJointTyped, GetJointTyped, ArchiveJointTyped, MatchKeyTyped,
       NextNumberTyped, InsertRevisionTyped, RecheckTyped, GetRevisionTyped,
       UpdateRevisionTyped, WriteAuditTyped DEF Step
<1>4. QED
    BY <1>1, <1>2, <1>3

-----------------------------------------------------------------------------
(* What the steps do to the tables: an insert adds a revision, an update     *)
(* changes one, an audit adds a row to the trail, the rest do neither.      *)

ReplyFaithful(w) ==
    reply[w].kind = "ok" /\ req[w].op = "create" =>
        reply[w].rev \in DOMAIN revs /\ SaysWhat(reply[w].rev, req[w])

Quiet(w) == UNCHANGED <<revs, trail>> /\ joint'.current = joint.current

RequestStep(w) == Step(w) \/ Busy(w) \/ \E r \in Requests : Receive(w, r)

LEMMA StepKinds ==
    ASSUME TypeOK, NEW w \in Workers, RequestStep(w)
    PROVE  \/ Quiet(w)
           \/ InsertRevision(w) /\ ~Refused(w)
           \/ UpdateRevision(w)
           \/ WriteAudit(w) /\ UNCHANGED <<joint, revs>>
<1>1. joint \in JointRow
    BY DEF TypeOK
<1>2. CASE UNCHANGED tables
    BY <1>2 DEF Quiet, tables
<1>3. CASE AddJoint(w)
  <2>1. joint' = joint \/ joint' = [joint EXCEPT !.status = "draft"]
    BY <1>3 DEF AddJoint
  <2>2. QED
    BY <1>1, <1>3, <2>1 DEF AddJoint, Quiet, JointRow
<1>4. CASE ArchiveJoint(w)
    BY <1>1, <1>4 DEF ArchiveJoint, Quiet, JointRow
<1>5. CASE InsertRevision(w) /\ Refused(w)
    BY <1>5 DEF InsertRevision, Quiet
<1>6. CASE WriteAudit(w)
    BY <1>6 DEF WriteAudit
<1>7. QED
    BY <1>2, <1>3, <1>4, <1>5, <1>6
    DEF RequestStep, Step, Busy, Receive, CheckCode, GetJoint, MatchKey, NextNumber,
        Recheck, GetRevision

(* The revisions and the joint after a step.                               *)
LEMMA RevisionsStep ==
    ASSUME JointInv, NEW w \in Workers, RequestStep(w)
    PROVE  /\ RevisionsNumbered' /\ KeysNameOneRevision'
           /\ NobodyDecidesTheirOwn' /\ CurrentWasApproved'
<1>1. /\ TypeOK /\ RevisionsNumbered /\ KeysNameOneRevision
      /\ NobodyDecidesTheirOwn /\ CurrentWasApproved /\ RequestProgress(w)
    BY DEF JointInv
<1>2. CASE Quiet(w) \/ (WriteAudit(w) /\ UNCHANGED <<joint, revs>>)
    BY <1>1, <1>2 DEF Quiet, RevisionsNumbered, KeysNameOneRevision, NobodyDecidesTheirOwn,
                      CurrentWasApproved
<1>3. CASE InsertRevision(w) /\ ~Refused(w)
  <2>1. /\ pc[w] = "insert" /\ joint' = joint
        /\ revs' = Append(revs, Register!DraftRevision(
                       seen[w].no, req[w].key, req[w].content, req[w].user))
    BY <1>3 DEF InsertRevision
  <2>2. /\ RevisionsNumbered' /\ KeysNameOneRevision'
        /\ DOMAIN revs' = 1 .. Len(revs) + 1 /\ DOMAIN revs = 1 .. Len(revs)
        /\ Len(revs) + 1 \in Nat \ {0}
        /\ \A i \in DOMAIN revs : revs'[i] = revs[i]
        /\ revs'[Len(revs) + 1] = Register!DraftRevision(
                seen[w].no, req[w].key, req[w].content, req[w].user)
    BY <1>1, <1>3, <2>1, AppendedRevision
  <2>3. \A i \in DOMAIN revs' : i \in DOMAIN revs \/ i = Len(revs) + 1
    BY <2>2
  <2>4. req[w].user \in Users
    BY <1>1, <2>1, TypeOKSplits, RequestsAssumption DEF AtStep
  <2>5. revs'[Len(revs) + 1].reviewer # revs'[Len(revs) + 1].by
    BY <2>2, <2>4, NullsAssumption DEF Register!DraftRevision
  <2>6. NobodyDecidesTheirOwn'
    BY <1>1, <2>2, <2>3, <2>5 DEF NobodyDecidesTheirOwn
  <2>7. CurrentWasApproved'
    BY <1>1, <2>1, <2>2 DEF CurrentWasApproved
  <2>8. QED
    BY <2>2, <2>6, <2>7
<1>4. CASE UpdateRevision(w)
  <2> DEFINE i == req[w].rev
  <2>1. /\ i \in DOMAIN revs /\ req[w].op \in Transition /\ pc[w] = "update"
        /\ RevisionsKept /\ DOMAIN revs' = DOMAIN revs
        /\ \A j \in DOMAIN revs : j # i => revs'[j] = revs[j]
        /\ revs'[i] = IF req[w].op = "submit" THEN Register!Submitted(revs[i])
                      ELSE IF req[w].op = "approve"
                      THEN Register!Approved(revs[i], req[w].user)
                      ELSE Register!Rejected(revs[i], req[w].user)
    BY <1>1, <1>4, UpdatedRevision
  <2>2. revs[i] \in Register!Revision
    BY <1>1, <2>1, TypeOKSplits, ElementOfSeq, LenProperties DEF TablesTyped
  <2>3. /\ revs'[i].by = revs[i].by
        /\ req[w].op = "submit" => /\ revs'[i].reviewer = revs[i].reviewer
                                   /\ revs'[i].approved = revs[i].approved
        /\ req[w].op = "approve" => revs'[i].reviewer = req[w].user /\ revs'[i].approved
        /\ req[w].op = "reject" => /\ revs'[i].reviewer = req[w].user
                                   /\ revs'[i].approved = revs[i].approved
    BY <2>1, <2>2 DEF Register!Revision, Register!Submitted, Register!Approved,
                      Register!Rejected
  <2>4. RevisionsNumbered' /\ KeysNameOneRevision'
    BY <1>1, <2>1 DEF RevisionsKept, RevisionsNumbered, KeysNameOneRevision
  <2>5. NobodyDecidesTheirOwn'
    BY <1>1, <2>1, <2>3 DEF NobodyDecidesTheirOwn, RequestProgress, Transition
  <2>6. joint' = IF req[w].op = "approve"
                 THEN [status |-> "active", current |-> i] ELSE joint
    BY <1>4 DEF UpdateRevision
  <2>7. CurrentWasApproved'
    BY <1>1, <2>1, <2>3, <2>6 DEF CurrentWasApproved, Transition
  <2>8. QED
    BY <2>4, <2>5, <2>7
<1>5. QED
    BY <1>1, <1>2, <1>3, <1>4, StepKinds

(* What a step of w makes true of w: its reply is faithful, the author of a  *)
(* revision it is about to decide is another, and a creation that waits for  *)
(* its audit row has just been inserted.                                   *)
OwnProgress(w) ==
    /\ ReplyFaithful(w)'
    /\ pc'[w] = "update" /\ req'[w].op # "submit" =>
          revs'[req'[w].rev].by # req'[w].user
    /\ pc'[w] = "audit" /\ req'[w].op = "create" =>
          /\ target'[w] \in DOMAIN revs' /\ target'[w] \notin DOMAIN revs
          /\ SaysWhat(target[w], req[w])'

LEMMA AnswerProgress ==
    ASSUME TypeOK, NEW w \in Workers, NEW k \in ReplyKind, NEW v \in Nat,
           Finish(w, k, v), UNCHANGED revs,
           \/ k # "ok" \/ req[w].op # "create"
           \/ v \in DOMAIN revs /\ SaysWhat(v, req[w])
    PROVE  OwnProgress(w)
<1>1. /\ pc'[w] = "idle" /\ req' = req /\ reply'[w] = Answer(k, v)
    BY TypeOKSplits DEF Finish, LocalsTyped
<1>2. ReplyFaithful(w)'
    BY <1>1 DEF ReplyFaithful, Answer, SaysWhat
<1>3. QED
    BY <1>1, <1>2 DEF OwnProgress

LEMMA GotoProgress ==
    ASSUME TypeOK, NEW w \in Workers, ReplyFaithful(w), NEW step, Goto(w, step),
           RevisionsKept, step \notin {"update", "audit"}
    PROVE  OwnProgress(w)
<1>1. pc'[w] = step /\ req' = req /\ reply' = reply
    BY TypeOKSplits DEF Goto, LocalsTyped
<1>2. ReplyFaithful(w)'
    BY <1>1 DEF ReplyFaithful, SaysWhat, RevisionsKept
<1>3. QED
    BY <1>1, <1>2 DEF OwnProgress

(* The steps to an audit row that is not a creation.                        *)
LEMMA GotoAuditProgress ==
    ASSUME TypeOK, NEW w \in Workers, ReplyFaithful(w), Goto(w, "audit"),
           RevisionsKept, req[w].op # "create"
    PROVE  OwnProgress(w)
<1>1. pc'[w] = "audit" /\ req' = req /\ reply' = reply
    BY TypeOKSplits DEF Goto, LocalsTyped
<1>2. ReplyFaithful(w)'
    BY <1>1 DEF ReplyFaithful, SaysWhat, RevisionsKept
<1>3. QED
    BY <1>1, <1>2 DEF OwnProgress

LEMMA ReplayProgress ==
    ASSUME TypeOK, NEW w \in Workers, NEW i \in Register!WithKey(revs, req[w].key),
           Replay(w, i), UNCHANGED revs
    PROVE  OwnProgress(w)
<1>1. i \in Nat /\ i \in DOMAIN revs /\ revs[i].key = req[w].key
    BY TypeOKSplits DEF Register!WithKey, TablesTyped
<1>2. CASE revs[i].content = req[w].content /\ revs[i].by = req[w].user
  <2>1. SaysWhat(i, req[w])
    BY <1>1, <1>2 DEF SaysWhat
  <2>2. QED
    BY <1>1, <1>2, <2>1, AnswerProgress DEF Replay, ReplyKind
<1>3. CASE ~(revs[i].content = req[w].content /\ revs[i].by = req[w].user)
    BY <1>3, AnswerProgress DEF Replay, ReplyKind
<1>4. QED
    BY <1>2, <1>3

LEMMA ReceiveProgress ==
    ASSUME TypeOK, NEW w \in Workers, NEW r \in Requests, Receive(w, r)
    PROVE  OwnProgress(w)
<1>1. pc'[w] = FirstStep(r.op) /\ reply'[w] = Answer("none", 0)
    BY TypeOKSplits DEF Receive, LocalsTyped
<1>2. pc'[w] \in {"code", "revision", "joint"}
    BY <1>1 DEF FirstStep
<1>3. QED
    BY <1>1, <1>2 DEF OwnProgress, ReplyFaithful, Answer

LEMMA InsertProgress ==
    ASSUME JointInv, NEW w \in Workers, ReplyFaithful(w), InsertRevision(w), ~Refused(w)
    PROVE  OwnProgress(w)
<1>1. TypeOK /\ RevisionsNumbered /\ KeysNameOneRevision
    BY DEF JointInv
<1>2. /\ pc[w] = "insert" /\ Goto(w, "audit")
      /\ revs' = Append(revs, Register!DraftRevision(
                     seen[w].no, req[w].key, req[w].content, req[w].user))
      /\ target' = [target EXCEPT ![w] = Len(revs) + 1]
    BY DEF InsertRevision
<1>3. /\ RevisionsKept
      /\ Len(revs) + 1 \in DOMAIN revs' /\ Len(revs) + 1 \notin DOMAIN revs
      /\ revs'[Len(revs) + 1] = Register!DraftRevision(
              seen[w].no, req[w].key, req[w].content, req[w].user)
    BY <1>1, <1>2, AppendedRevision
<1>4. pc'[w] = "audit" /\ req' = req /\ reply' = reply /\ target'[w] = Len(revs) + 1
    BY <1>1, <1>2, TypeOKSplits DEF Goto, LocalsTyped
<1>5. ReplyFaithful(w)'
    BY <1>3, <1>4 DEF ReplyFaithful, SaysWhat, RevisionsKept
<1>6. SaysWhat(target[w], req[w])'
    BY <1>3, <1>4 DEF SaysWhat, Register!DraftRevision
<1>7. QED
    BY <1>3, <1>4, <1>5, <1>6 DEF OwnProgress

LEMMA GetRevisionProgress ==
    ASSUME TypeOK, NEW w \in Workers, ReplyFaithful(w), GetRevision(w)
    PROVE  OwnProgress(w)
<1>1. UNCHANGED revs /\ pc[w] = "revision"
    BY DEF GetRevision, tables
<1>2. \/ Finish(w, "not_found", 0) \/ Finish(w, "state_error", 0)
      \/ /\ Goto(w, "update")
         /\ req[w].op # "submit" => revs[req[w].rev].by # req[w].user
    BY DEF GetRevision
<1>3. CASE Finish(w, "not_found", 0) \/ Finish(w, "state_error", 0)
    BY <1>1, <1>3, AnswerProgress DEF ReplyKind
<1>4. CASE /\ Goto(w, "update")
           /\ req[w].op # "submit" => revs[req[w].rev].by # req[w].user
  <2>1. pc'[w] = "update" /\ req' = req /\ reply' = reply
    BY <1>4, TypeOKSplits DEF Goto, LocalsTyped
  <2>2. ReplyFaithful(w)'
    BY <1>1, <2>1 DEF ReplyFaithful, SaysWhat
  <2>3. QED
    BY <1>1, <1>4, <2>1, <2>2 DEF OwnProgress
<1>5. QED
    BY <1>2, <1>3, <1>4

LEMMA StepProgress ==
    ASSUME JointInv, NEW w \in Workers, RequestStep(w)
    PROVE  OwnProgress(w)
<1>1. TypeOK /\ ReplyFaithful(w) /\ RequestProgress(w) /\ AtStep(w)
    BY TypeOKSplits DEF JointInv, RepliesFaithful, ReplyFaithful
<1>2. RevisionsKept
    BY <1>1, StepTyped DEF JointInv, RequestStep
<1>3. CASE \E r \in Requests : Receive(w, r)
    BY <1>1, <1>3, ReceiveProgress
<1>4. CASE Busy(w)
    BY <1>1, <1>4, AnswerProgress DEF Busy, ReplyKind, tables
<1>5. CASE CheckCode(w)
    BY <1>1, <1>2, <1>5, AnswerProgress, GotoProgress DEF CheckCode, ReplyKind, tables
<1>6. CASE AddJoint(w)
  <2>1. req[w].op = "create_joint"
    BY <1>1, <1>6 DEF AddJoint, AtStep
  <2>2. CASE Finish(w, "error", 0)
    BY <1>1, <1>6, <2>2, AnswerProgress DEF AddJoint, ReplyKind
  <2>3. CASE Goto(w, "audit")
    BY <1>1, <1>2, <2>1, <2>3, GotoAuditProgress
  <2>4. QED
    BY <1>6, <2>2, <2>3 DEF AddJoint
<1>7. CASE GetJoint(w)
  <2>1. UNCHANGED revs
    BY <1>7 DEF GetJoint, tables
  <2>2. CASE Finish(w, "not_found", 0)
    BY <1>1, <2>1, <2>2, AnswerProgress DEF ReplyKind
  <2>3. CASE Finish(w, "ok", 0) /\ req[w].op = "archive_joint"
    BY <1>1, <2>1, <2>3, AnswerProgress DEF ReplyKind
  <2>4. CASE Goto(w, IF req[w].op = "archive_joint" THEN "archive" ELSE "key")
    BY <1>1, <1>2, <2>4, GotoProgress
  <2>5. QED
    BY <1>7, <2>2, <2>3, <2>4 DEF GetJoint
<1>8. CASE ArchiveJoint(w)
    BY <1>1, <1>2, <1>8, GotoAuditProgress DEF ArchiveJoint, AtStep
<1>9. CASE MatchKey(w)
  <2>1. UNCHANGED revs
    BY <1>9 DEF MatchKey, tables
  <2>2. CASE \E i \in Register!WithKey(revs, req[w].key) : Replay(w, i)
    BY <1>1, <2>1, <2>2, ReplayProgress
  <2>3. CASE Finish(w, "archived", 0)
    BY <1>1, <2>1, <2>3, AnswerProgress DEF ReplyKind
  <2>4. CASE Goto(w, "number")
    BY <1>1, <1>2, <2>4, GotoProgress
  <2>5. QED
    BY <1>9, <2>2, <2>3, <2>4 DEF MatchKey
<1>10. CASE NextNumber(w)
    BY <1>1, <1>2, <1>10, GotoProgress DEF NextNumber
<1>11. CASE InsertRevision(w)
  <2>1. CASE ~Refused(w)
    BY <1>1, <1>11, <2>1, InsertProgress
  <2>2. CASE Refused(w) /\ req[w].key = NoKey
    BY <1>1, <1>11, <2>2, AnswerProgress DEF InsertRevision, ReplyKind
  <2>3. CASE Refused(w) /\ req[w].key # NoKey
    BY <1>1, <1>2, <1>11, <2>3, GotoProgress DEF InsertRevision
  <2>4. QED
    BY <2>1, <2>2, <2>3
<1>12. CASE Recheck(w)
  <2>1. UNCHANGED revs
    BY <1>12 DEF Recheck, tables
  <2>2. CASE \E i \in Register!WithKey(revs, req[w].key) : Replay(w, i)
    BY <1>1, <2>1, <2>2, ReplayProgress
  <2>3. CASE Finish(w, "key_conflict", 0)
    BY <1>1, <2>1, <2>3, AnswerProgress DEF ReplyKind
  <2>4. QED
    BY <1>12, <2>2, <2>3 DEF Recheck
<1>13. CASE GetRevision(w)
    BY <1>1, <1>13, GetRevisionProgress
<1>14. CASE UpdateRevision(w)
  <2>1. req[w].op # "create"
    BY <1>1, <1>14, UpdatedRevision DEF Transition
  <2>2. QED
    BY <1>1, <1>2, <1>14, <2>1, GotoAuditProgress DEF UpdateRevision
<1>15. CASE WriteAudit(w)
  <2>1. /\ pc[w] = "audit" /\ Finish(w, "ok", target[w]) /\ UNCHANGED revs
        /\ target[w] \in Nat
    BY <1>1, <1>15, TypeOKSplits DEF WriteAudit, LocalsTyped
  <2>2. req[w].op = "create" => target[w] \in DOMAIN revs /\ SaysWhat(target[w], req[w])
    BY <1>1, <2>1 DEF RequestProgress
  <2>3. QED
    BY <1>1, <2>1, <2>2, AnswerProgress DEF ReplyKind
<1>16. QED
    BY <1>3, <1>4, <1>5, <1>6, <1>7, <1>8, <1>9, <1>10, <1>11, <1>12, <1>13, <1>14, <1>15
    DEF RequestStep, Step

-----------------------------------------------------------------------------
(* The audit log, and the inductive invariant.                             *)

LEMMA TrailStep ==
    ASSUME TypeOK, NEW w \in Workers, RequestStep(w)
    PROVE  \/ trail' = trail
           \/ /\ pc[w] = "audit" /\ req[w].op = "create" /\ pc'[w] = "idle"
              /\ DOMAIN trail' = DOMAIN trail \cup {Len(trail) + 1}
              /\ Len(trail) + 1 \notin DOMAIN trail
              /\ \A i \in DOMAIN trail : trail'[i] = trail[i]
              /\ trail'[Len(trail) + 1] = target[w]
<1>1. CASE Quiet(w) \/ InsertRevision(w) \/ UpdateRevision(w)
    BY <1>1 DEF Quiet, InsertRevision, UpdateRevision
<1>2. CASE WriteAudit(w) /\ req[w].op # "create"
    BY <1>2 DEF WriteAudit
<1>3. CASE WriteAudit(w) /\ req[w].op = "create"
  <2>1. /\ pc[w] = "audit" /\ pc'[w] = "idle" /\ trail' = Append(trail, target[w])
        /\ trail \in Seq(Nat) /\ target[w] \in Nat
    BY <1>3, TypeOKSplits DEF WriteAudit, Finish, LocalsTyped, TablesTyped
  <2>2. /\ Len(trail') = Len(trail) + 1 /\ trail' \in Seq(Nat)
        /\ \A i \in 1 .. Len(trail) : trail'[i] = trail[i]
        /\ trail'[Len(trail) + 1] = target[w]
    BY <2>1, AppendProperties
  <2>3. /\ DOMAIN trail = 1 .. Len(trail) /\ Len(trail) \in Nat
        /\ DOMAIN trail' = 1 .. Len(trail) + 1
    BY <2>1, <2>2, LenProperties
  <2>4. DOMAIN trail' = DOMAIN trail \cup {Len(trail) + 1} /\ Len(trail) + 1 \notin DOMAIN trail
    BY <2>3
  <2>5. \A i \in DOMAIN trail : trail'[i] = trail[i]
    BY <2>2, <2>3
  <2>6. QED
    BY <1>3, <2>1, <2>2, <2>4, <2>5
<1>4. (Quiet(w) \/ InsertRevision(w) \/ UpdateRevision(w)) \/ WriteAudit(w)
    BY StepKinds
<1>5. CASE WriteAudit(w)
    BY <1>2, <1>3, <1>5
<1>6. QED
    BY <1>1, <1>4, <1>5

(* The parts of JointInv about the audit log.                              *)
LEMMA AuditStep ==
    ASSUME JointInv, NEW w \in Workers, RequestStep(w)
    PROVE  /\ CreatesAuditedOnce'
           /\ (\A i \in DOMAIN trail : trail[i] \in DOMAIN revs)'
<1>1. /\ TypeOK /\ CreatesAuditedOnce /\ RequestProgress(w)
      /\ \A i \in DOMAIN trail : trail[i] \in DOMAIN revs
    BY DEF JointInv
<1>2. DOMAIN revs \subseteq DOMAIN revs'
    BY StepTyped DEF JointInv, RequestStep, RevisionsKept
<1>3. CASE trail' = trail
    BY <1>1, <1>2, <1>3 DEF CreatesAuditedOnce
<1>4. CASE trail' # trail
  <2>1. /\ pc[w] = "audit" /\ req[w].op = "create"
        /\ DOMAIN trail' = DOMAIN trail \cup {Len(trail) + 1}
        /\ \A i \in DOMAIN trail : trail'[i] = trail[i]
        /\ trail'[Len(trail) + 1] = target[w]
    BY <1>1, <1>4, TrailStep
  <2>2. target[w] \in DOMAIN revs /\ \A i \in DOMAIN trail : trail[i] # target[w]
    BY <1>1, <2>1 DEF RequestProgress
  <2>3. QED
    BY <1>1, <1>2, <2>1, <2>2 DEF CreatesAuditedOnce
<1>5. QED
    BY <1>3, <1>4

(* A request that waits for the audit row of its creation.                  *)
Unaudited(x) == pc[x] = "audit" /\ req[x].op = "create"

(* No two requests wait for the same audit row, and none for one that is    *)
(* written.                                                                *)
LEMMA UnauditedStep ==
    ASSUME JointInv, NEW w \in Workers, RequestStep(w), NEW x \in Workers, Unaudited(x)'
    PROVE  /\ target'[x] \in DOMAIN revs' /\ SaysWhat(target[x], req[x])'
           /\ \A i \in DOMAIN trail' : trail'[i] # target'[x]
           /\ \A y \in Workers \ {x} : Unaudited(y)' => target'[y] # target'[x]
<1>1. /\ TypeOK /\ \A y \in Workers : RequestProgress(y)
      /\ \A i \in DOMAIN trail : trail[i] \in DOMAIN revs
    BY DEF JointInv
<1>2. RevisionsKept /\ OthersKept(w) /\ OwnProgress(w)
    BY StepTyped, StepProgress DEF JointInv, RequestStep
<1>3. \A y \in Workers : y # w /\ Unaudited(y)' =>
          /\ Unaudited(y) /\ target'[y] = target[y] /\ target[y] \in DOMAIN revs
    BY <1>1, <1>2 DEF Unaudited, OthersKept, RequestProgress
<1>4. Unaudited(w)' => target'[w] \notin DOMAIN revs
    BY <1>2 DEF OwnProgress, Unaudited
<1>5. target'[x] \in DOMAIN revs' /\ SaysWhat(target[x], req[x])'
  <2>1. CASE x = w
    BY <1>2, <2>1 DEF OwnProgress, Unaudited
  <2>2. CASE x # w
    <3>1. /\ Unaudited(x) /\ req'[x] = req[x] /\ target'[x] = target[x]
          /\ target[x] \in DOMAIN revs /\ SaysWhat(target[x], req[x])
      BY <1>1, <1>2, <1>3, <2>2 DEF RequestProgress, Unaudited, OthersKept
    <3>2. QED
      BY <1>2, <3>1 DEF SaysWhat, RevisionsKept
  <2>3. QED
    BY <2>1, <2>2
<1>6. \A i \in DOMAIN trail' : trail'[i] # target'[x]
  <2>1. CASE trail' = trail
    <3>1. CASE x = w
      BY <1>1, <1>4, <2>1, <3>1
    <3>2. CASE x # w
      BY <1>1, <1>3, <2>1, <3>2 DEF RequestProgress, Unaudited
    <3>3. QED
      BY <3>1, <3>2
  <2>2. CASE trail' # trail
    <3>1. /\ Unaudited(w) /\ pc'[w] = "idle"
          /\ DOMAIN trail' = DOMAIN trail \cup {Len(trail) + 1}
          /\ \A i \in DOMAIN trail : trail'[i] = trail[i]
          /\ trail'[Len(trail) + 1] = target[w]
      BY <1>1, <2>2, TrailStep DEF Unaudited
    <3>2. x # w
      BY <3>1 DEF Unaudited
    <3>3. /\ target'[x] = target[x] /\ target[x] # target[w]
          /\ \A i \in DOMAIN trail : trail[i] # target[x]
      BY <1>1, <1>3, <3>1, <3>2 DEF RequestProgress, Unaudited
    <3>4. QED
      BY <3>1, <3>3
  <2>3. QED
    BY <2>1, <2>2
<1>7. ASSUME NEW y \in Workers \ {x}, Unaudited(y)' PROVE target'[y] # target'[x]
  <2>1. CASE x # w /\ y # w
    BY <1>1, <1>3, <1>7, <2>1 DEF RequestProgress, Unaudited
  <2>2. CASE x = w \/ y = w
    BY <1>3, <1>4, <1>7, <2>2
  <2>3. QED
    BY <2>1, <2>2
<1>8. QED
    BY <1>5, <1>6, <1>7

LEMMA RequestStepKeepsInv ==
    ASSUME JointInv, NEW w \in Workers, RequestStep(w) PROVE JointInv' /\ RevisionsKept
<1>1. TypeOK' /\ OthersKept(w) /\ RevisionsKept /\ OwnProgress(w)
    BY StepTyped, StepProgress DEF JointInv, RequestStep
<1>2. /\ RevisionsNumbered' /\ KeysNameOneRevision'
      /\ NobodyDecidesTheirOwn' /\ CurrentWasApproved'
    BY RevisionsStep
<1>3. CreatesAuditedOnce' /\ (\A i \in DOMAIN trail : trail[i] \in DOMAIN revs)'
    BY AuditStep
<1>4. \A x \in Workers : ReplyFaithful(x)'
  <2>1. \A x \in Workers : ReplyFaithful(x)
    BY DEF JointInv, RepliesFaithful, ReplyFaithful
  <2>2. \A x \in Workers : x # w => ReplyFaithful(x)'
    BY <1>1, <2>1 DEF ReplyFaithful, SaysWhat, OthersKept, RevisionsKept
  <2>3. QED
    BY <1>1, <2>2 DEF OwnProgress
<1>5. RepliesFaithful'
    BY <1>4 DEF RepliesFaithful, ReplyFaithful
<1>6. \A x \in Workers : RequestProgress(x)'
  <2> SUFFICES ASSUME NEW x \in Workers PROVE RequestProgress(x)'
    OBVIOUS
  <2>1. pc'[x] = "update" /\ req'[x].op # "submit" => revs'[req'[x].rev].by # req'[x].user
    <3>1. CASE x = w
      BY <1>1, <3>1 DEF OwnProgress
    <3>2. CASE x # w
      <4>1. pc[x] = "update" => req[x].rev \in DOMAIN revs
        BY TypeOKSplits DEF JointInv, AtStep
      <4>2. QED
        BY <1>1, <3>2, <4>1 DEF JointInv, RequestProgress, OthersKept, RevisionsKept
    <3>3. QED
      BY <3>1, <3>2
  <2>2. Unaudited(x)' =>
            /\ target'[x] \in DOMAIN revs' /\ SaysWhat(target[x], req[x])'
            /\ \A i \in DOMAIN trail' : trail'[i] # target'[x]
            /\ \A y \in Workers \ {x} : Unaudited(y)' => target'[y] # target'[x]
    BY UnauditedStep
  <2>3. QED
    BY <2>1, <2>2 DEF RequestProgress, Unaudited
<1>7. QED
    BY <1>1, <1>2, <1>3, <1>5, <1>6 DEF JointInv

LEMMA CrashKeepsInv ==
    ASSUME JointInv, Crash PROVE JointInv' /\ RevisionsKept
<1>1. TypeOK' /\ RevisionsKept
    BY CrashTyped DEF JointInv
<1>2. UNCHANGED <<joint, revs, trail>>
    BY DEF Crash, tables
<1>3. \A w \in Workers : pc'[w] = "idle" /\ reply'[w].kind = "none"
    BY DEF Crash, Answer
<1>4. /\ RevisionsNumbered' /\ KeysNameOneRevision' /\ CreatesAuditedOnce'
      /\ NobodyDecidesTheirOwn' /\ CurrentWasApproved'
      /\ (\A i \in DOMAIN trail : trail[i] \in DOMAIN revs)'
    BY <1>2 DEF JointInv, RevisionsNumbered, KeysNameOneRevision, CreatesAuditedOnce,
               NobodyDecidesTheirOwn, CurrentWasApproved
<1>5. RepliesFaithful' /\ \A w \in Workers : RequestProgress(w)'
    BY <1>3 DEF RepliesFaithful, RequestProgress
<1>6. QED
    BY <1>1, <1>4, <1>5 DEF JointInv

LEMMA InitInv == Init => JointInv
<1> SUFFICES ASSUME Init PROVE JointInv
    OBVIOUS
<1>1. TypeOK
    BY InitTyped
<1>2. /\ revs = <<>> /\ trail = <<>> /\ joint.current = 0
      /\ \A w \in Workers : pc[w] = "idle" /\ reply[w].kind = "none"
    BY DEF Init, Register!Init, Answer
<1>3. DOMAIN revs = {} /\ DOMAIN trail = {}
    BY <1>2
<1>4. QED
    BY <1>1, <1>2, <1>3 DEF JointInv, RevisionsNumbered, KeysNameOneRevision, RepliesFaithful,
       CreatesAuditedOnce, NobodyDecidesTheirOwn, CurrentWasApproved, RequestProgress

LEMMA InvIsInductive == JointInv /\ [Next]_vars => JointInv' /\ RevisionsKept
<1> SUFFICES ASSUME JointInv, [Next]_vars PROVE JointInv' /\ RevisionsKept
    OBVIOUS
<1>1. CASE UNCHANGED vars
  <2>1. RevisionsKept
    BY <1>1 DEF vars, RevisionsKept
  <2>2. QED
    BY <1>1, <2>1 DEF vars, JointInv, TypeOK, AtStep, RevisionsNumbered, KeysNameOneRevision,
       RepliesFaithful, CreatesAuditedOnce, NobodyDecidesTheirOwn, CurrentWasApproved,
       RequestProgress, SaysWhat
<1>2. CASE Next
    BY <1>2, RequestStepKeepsInv, CrashKeepsInv DEF Next, RequestStep
<1>3. QED
    BY <1>1, <1>2

-----------------------------------------------------------------------------
(* The theorems.                                                           *)

(* The inductive invariant of the concurrent service: among its parts are   *)
(* RevisionsNumbered, KeysNameOneRevision, RepliesFaithful,                *)
(* CreatesAuditedOnce, NobodyDecidesTheirOwn and CurrentWasApproved.       *)
THEOREM JointInvariant == Spec => []JointInv
<1>1. JointInv /\ [Next]_vars => JointInv'
    BY InvIsInductive
<1>2. QED
    BY <1>1, InitInv, PTL DEF Spec

(* Every reachable state is typed, and every request is at a step its       *)
(* operation has.                                                          *)
THEOREM JointTypeCorrect == Spec => []TypeOK
<1>1. JointInv => TypeOK
    BY DEF JointInv
<1>2. QED
    BY <1>1, JointInvariant, PTL

(* Revision numbers have neither gaps nor repetitions, and one idempotency  *)
(* key creates one revision, whatever overlaps.                            *)
THEOREM KeysCreateOneRevision == Spec => [](RevisionsNumbered /\ KeysNameOneRevision)
<1>1. JointInv => RevisionsNumbered /\ KeysNameOneRevision
    BY DEF JointInv
<1>2. QED
    BY <1>1, JointInvariant, PTL

(* A caller who is told of success holds the revision it asked for.         *)
THEOREM RepliesAreFaithful == Spec => []RepliesFaithful
<1>1. JointInv => RepliesFaithful
    BY DEF JointInv
<1>2. QED
    BY <1>1, JointInvariant, PTL

(* Nobody decides on a revision of their own.                              *)
THEOREM DecidedByOthers == Spec => []NobodyDecidesTheirOwn
<1>1. JointInv => NobodyDecidesTheirOwn
    BY DEF JointInv
<1>2. QED
    BY <1>1, JointInvariant, PTL

(* What a revision says, and whose it is, never changes.                    *)
THEOREM RevisionContentImmutable == Spec => ContentImmutable
<1>1. JointInv /\ [Next]_vars =>
          [\A i \in DOMAIN revs :
             /\ i \in DOMAIN revs'
             /\ \A f \in {"no", "key", "content", "by"} : revs'[i][f] = revs[i][f]]_vars
  <2> SUFFICES ASSUME JointInv, [Next]_vars, NEW i \in DOMAIN revs
               PROVE  /\ i \in DOMAIN revs'
                      /\ \A f \in {"no", "key", "content", "by"} : revs'[i][f] = revs[i][f]
    OBVIOUS
  <2>1. /\ i \in DOMAIN revs'
        /\ revs'[i].no = revs[i].no /\ revs'[i].key = revs[i].key
        /\ revs'[i].content = revs[i].content /\ revs'[i].by = revs[i].by
    BY InvIsInductive DEF RevisionsKept
  <2>2. QED
    BY <2>1
<1>2. QED
    BY <1>1, JointInvariant, PTL DEF Spec, ContentImmutable

-----------------------------------------------------------------------------
(* Callers that do not overlap.                                            *)

NoOverlap == \A w, x \in Workers : pc[w] # "idle" /\ pc[x] # "idle" => w = x

(* What the SELECTs of a request found is still so when it writes.          *)
ReadsHold(w) ==
    /\ pc[w] = "add" => joint.status = "absent"
    /\ pc[w] = "archive" => joint.status \notin {"absent", "archived"}
    /\ pc[w] \in {"key", "number", "insert"} =>
          /\ joint.status = seen[w].status
          /\ joint.status # "absent"
    /\ pc[w] \in {"number", "insert"} =>
          /\ joint.status # "archived"
          /\ Register!WithKey(revs, req[w].key) = {}
    /\ pc[w] = "insert" => seen[w].no = Len(revs) + 1
    /\ pc[w] = "update" =>
          /\ revs[req[w].rev].status = IF req[w].op = "submit" THEN "draft" ELSE "review"
          /\ req[w].op # "submit" => revs[req[w].rev].by # req[w].user

AllReadsHold == \A w \in Workers : ReadsHold(w)

LEMMA OwnStepKeepsReads ==
    ASSUME NEW w \in Workers, JointInv, ReadsHold(w),
           RequestStep(w) \/ Crash \/ UNCHANGED vars
    PROVE  ReadsHold(w)'
<1>1. /\ pc \in [Workers -> PC] /\ seen \in [Workers -> SeenRecord]
      /\ revs \in Seq(Register!Revision) /\ RevisionsNumbered /\ TypeOK
    BY TypeOKSplits DEF JointInv, LocalsTyped, TablesTyped
<1>2. CASE UNCHANGED vars
    BY <1>2 DEF vars, ReadsHold
<1>3. ASSUME pc'[w] \notin {"add", "archive", "key", "number", "insert", "update"}
      PROVE  ReadsHold(w)'
    BY <1>3 DEF ReadsHold
<1>4. CASE Crash \/ Busy(w)
  <2>1. pc'[w] = "idle"
    BY <1>1, <1>4 DEF Crash, Busy, Finish
  <2>2. QED
    BY <1>3, <2>1
<1>5. ASSUME NEW r \in Requests, Receive(w, r) PROVE ReadsHold(w)'
  <2>1. pc'[w] \in {"code", "revision", "joint"}
    BY <1>1, <1>5 DEF Receive, FirstStep
  <2>2. QED
    BY <1>3, <2>1
<1>6. CASE CheckCode(w)
  <2>1. \/ pc'[w] = "idle"
        \/ pc'[w] = "add" /\ joint' = joint /\ joint.status = "absent"
    BY <1>1, <1>6 DEF CheckCode, Finish, Goto, tables
  <2>2. QED
    BY <1>3, <2>1 DEF ReadsHold
<1>7. CASE GetJoint(w)
  <2>1. \/ pc'[w] = "idle"
        \/ /\ pc'[w] = IF req[w].op = "archive_joint" THEN "archive" ELSE "key"
           /\ joint' = joint /\ joint.status # "absent"
           /\ req[w].op = "archive_joint" => joint.status # "archived"
           /\ seen'[w].status = joint.status
    BY <1>1, <1>7 DEF GetJoint, Finish, Goto, tables, SeenRecord
  <2>2. QED
    BY <1>3, <2>1 DEF ReadsHold
<1>8. CASE MatchKey(w)
  <2>1. pc[w] = "key" /\ UNCHANGED <<joint, revs>>
    BY <1>8 DEF MatchKey, tables
  <2>2. \/ pc'[w] = "idle"
        \/ /\ pc'[w] = "number" /\ req' = req /\ seen' = seen
           /\ seen[w].status # "archived"
           /\ Register!WithKey(revs, req[w].key) = {}
    BY <1>1, <1>8 DEF MatchKey, Replay, Finish, Goto
  <2>3. CASE pc'[w] = "idle"
    BY <1>3, <2>3
  <2>4. CASE pc'[w] = "number"
    BY <2>1, <2>2, <2>4 DEF ReadsHold
  <2>5. QED
    BY <2>2, <2>3, <2>4
<1>9. CASE NextNumber(w)
  <2>1. /\ pc[w] = "number" /\ UNCHANGED <<joint, revs>>
        /\ pc'[w] = "insert" /\ req' = req
        /\ seen' = [seen EXCEPT ![w].no = MaxNo(revs) + 1]
    BY <1>1, <1>9 DEF NextNumber, Goto, tables
  <2>2. MaxNo(revs) = Len(revs)
    BY <1>1, MaxNoIsLen
  <2>3. seen'[w].no = Len(revs) + 1 /\ seen'[w].status = seen[w].status
    BY <1>1, <2>1, <2>2 DEF SeenRecord
  <2>4. QED
    BY <2>1, <2>3 DEF ReadsHold
<1>10. CASE GetRevision(w)
  <2>1. \/ pc'[w] = "idle"
        \/ /\ pc'[w] = "update" /\ req' = req /\ revs' = revs
           /\ revs[req[w].rev].status = IF req[w].op = "submit" THEN "draft" ELSE "review"
           /\ req[w].op # "submit" => revs[req[w].rev].by # req[w].user
    BY <1>1, <1>10 DEF GetRevision, Finish, Goto, tables
  <2>2. QED
    BY <1>3, <2>1 DEF ReadsHold
<1>11. CASE AddJoint(w) \/ ArchiveJoint(w) \/ InsertRevision(w) \/ Recheck(w)
            \/ UpdateRevision(w) \/ WriteAudit(w)
  <2>1. pc'[w] \in {"idle", "audit", "recheck"}
    BY <1>1, <1>11 DEF AddJoint, ArchiveJoint, InsertRevision, Recheck, UpdateRevision,
       WriteAudit, Replay, Finish, Goto
  <2>2. QED
    BY <1>3, <2>1
<1>12. QED
    BY <1>2, <1>4, <1>5, <1>6, <1>7, <1>8, <1>9, <1>10, <1>11 DEF RequestStep, Step

(* Meanwhile another caller may at most begin.                              *)
LEMMA NextKeepsReads == JointInv /\ NoOverlap /\ AllReadsHold /\ [Next]_vars => AllReadsHold'
<1> SUFFICES ASSUME JointInv, NoOverlap, AllReadsHold, [Next]_vars, NEW w \in Workers
             PROVE  ReadsHold(w)'
    BY DEF AllReadsHold
<1>1. ReadsHold(w) /\ TypeOK
    BY DEF AllReadsHold, JointInv
<1>2. ASSUME NEW x \in Workers, x # w, RequestStep(x) PROVE ReadsHold(w)'
  <2>1. /\ pc'[w] = pc[w] /\ req'[w] = req[w] /\ seen'[w] = seen[w]
    BY <1>2, StepTyped DEF RequestStep, OthersKept, JointInv
  <2>2. CASE pc[w] = "idle"
    BY <2>1, <2>2 DEF ReadsHold
  <2>3. CASE pc[w] # "idle"
    <3>1. pc[x] = "idle"
        BY <1>2, <2>3 DEF NoOverlap
    <3>2. UNCHANGED tables
        BY <1>2, <3>1 DEF RequestStep, Step, Busy, CheckCode, AddJoint, GetJoint, ArchiveJoint,
           MatchKey, NextNumber, InsertRevision, Recheck, GetRevision, UpdateRevision,
           WriteAudit, Receive
    <3>3. QED
        BY <1>1, <2>1, <3>2 DEF ReadsHold, tables
  <2>4. QED
    BY <2>2, <2>3
<1>3. QED
    BY <1>1, <1>2, OwnStepKeepsReads DEF Next, RequestStep

(* Each step of a worker is a step of the register or none.                 *)
LEMMA OwnStepIsRegisterStep ==
    ASSUME NEW w \in Workers, JointInv, ReadsHold(w), RequestStep(w)
    PROVE  [Register!Next]_(Register!vars)
<1>1. /\ TypeOK /\ RevisionsNumbered /\ KeysNameOneRevision /\ AtStep(w)
    BY TypeOKSplits DEF JointInv
<1>2. CASE AddJoint(w) /\ joint' # joint
  <2>1. Register!CreateJoint
    BY <1>2 DEF AddJoint, Finish, Register!CreateJoint
  <2>2. QED
    BY <2>1 DEF Register!Next
<1>3. CASE ArchiveJoint(w)
  <2>1. Register!ArchiveJoint
    BY <1>3 DEF ArchiveJoint, ReadsHold, Register!ArchiveJoint
  <2>2. QED
    BY <2>1 DEF Register!Next
<1>4. CASE InsertRevision(w) /\ ~Refused(w)
  <2>1. PICK r : r = req[w]
    OBVIOUS
  <2>2. /\ pc[w] = "insert" /\ joint' = joint
        /\ revs' = Append(revs, Register!DraftRevision(seen[w].no, r.key, r.content, r.user))
    BY <1>4, <2>1 DEF InsertRevision
  <2>3. /\ r \in Requests /\ r.op = "create"
        /\ joint.status \notin {"absent", "archived"}
        /\ Register!WithKey(revs, r.key) = {}
        /\ seen[w].no = Len(revs) + 1
    BY <1>1, <2>1, <2>2 DEF AtStep, ReadsHold
  <2>4. Register!CreateRevision(r.key, r.content, r.user)
    BY <2>2, <2>3 DEF Register!CreateRevision
  <2>5. r.key \in Keys \cup {NoKey} /\ r.content \in Contents /\ r.user \in Users
    BY <2>3, RequestsAssumption
  <2>6. QED
    BY <2>4, <2>5 DEF Register!Next
<1>5. CASE UpdateRevision(w)
  <2>1. PICK i, u, op : i = req[w].rev /\ u = req[w].user /\ op = req[w].op
    OBVIOUS
  <2>2. i \in DOMAIN revs /\ u \in Users /\ op \in Transition /\ pc[w] = "update"
    BY <1>1, <1>5, <2>1, UpdatedRevision
  <2>3. /\ revs[i].status = IF op = "submit" THEN "draft" ELSE "review"
        /\ op # "submit" => revs[i].by # u
    BY <2>1, <2>2 DEF ReadsHold
  <2>4. /\ op = "submit" => revs' = [revs EXCEPT ![i] = Register!Submitted(revs[i])]
        /\ op = "approve" => revs' = [revs EXCEPT ![i] = Register!Approved(revs[i], u)]
        /\ op = "reject" => revs' = [revs EXCEPT ![i] = Register!Rejected(revs[i], u)]
        /\ joint' = IF op = "approve" THEN [status |-> "active", current |-> i] ELSE joint
    BY <1>5, <2>1 DEF UpdateRevision
  <2>5. CASE op = "submit"
    <3>1. Register!Submit(i)
      BY <2>3, <2>4, <2>5 DEF Register!Submit
    <3>2. QED
      BY <2>2, <3>1 DEF Register!Next
  <2>6. CASE op = "approve"
    <3>1. Register!Approve(i, u)
      BY <2>3, <2>4, <2>6 DEF Register!Approve
    <3>2. QED
      BY <2>2, <3>1 DEF Register!Next
  <2>7. CASE op = "reject"
    <3>1. Register!Reject(i, u)
      BY <2>3, <2>4, <2>7 DEF Register!Reject
    <3>2. QED
      BY <2>2, <3>1 DEF Register!Next
  <2>8. QED
    BY <2>2, <2>5, <2>6, <2>7 DEF Transition
<1>6. ASSUME Step(w), ~(AddJoint(w) /\ joint' # joint), ~ArchiveJoint(w),
             ~(InsertRevision(w) /\ ~Refused(w)), ~UpdateRevision(w)
      PROVE  UNCHANGED <<joint, revs>>
    BY <1>6 DEF Step, CheckCode, AddJoint, GetJoint, MatchKey, NextNumber, InsertRevision,
       Recheck, GetRevision, WriteAudit, tables
<1>7. CASE Busy(w) \/ \E r \in Requests : Receive(w, r)
    BY <1>7 DEF tables, Receive, Busy, Register!vars
<1>8. QED
    BY <1>2, <1>3, <1>4, <1>5, <1>6, <1>7 DEF RequestStep, Register!vars

LEMMA NextIsRegisterStep ==
    JointInv /\ AllReadsHold /\ [Next]_vars => [Register!Next]_(Register!vars)
<1> SUFFICES ASSUME JointInv, AllReadsHold, [Next]_vars PROVE [Register!Next]_(Register!vars)
    OBVIOUS
<1>1. CASE Crash \/ UNCHANGED vars
    BY <1>1 DEF Crash, vars, tables, Register!vars
<1>2. ASSUME NEW w \in Workers, RequestStep(w) PROVE [Register!Next]_(Register!vars)
    BY <1>2, OwnStepIsRegisterStep DEF AllReadsHold
<1>3. QED
    BY <1>1, <1>2 DEF Next, RequestStep

LEMMA InitIsRegisterInit == Init => Register!Init /\ AllReadsHold
BY DEF Init, AllReadsHold, ReadsHold

(* With callers that do not overlap, service.py implements the register, a  *)
(* busy database and restarts included.                                    *)
THEOREM SerialJointsImplementRegister ==
    ASSUME NEW w, Workers = {w}
    PROVE  Spec => Register!Spec
<1>1. NoOverlap
    BY DEF NoOverlap
<1>2. JointInv /\ AllReadsHold /\ [Next]_vars => AllReadsHold'
    BY <1>1, NextKeepsReads
<1>3. QED
    BY <1>2, InitIsRegisterInit, NextIsRegisterStep, JointInvariant, PTL DEF Spec, Register!Spec

-----------------------------------------------------------------------------
(* What the register keeps, each of its operations taken as one step.       *)

RegisterTyped == joint \in JointRow /\ revs \in Seq(Register!Revision)

RegisterKeeps == RegisterTyped /\ RegisterInv

LEMMA RegisterInit == Register!Init => RegisterKeeps
<1> SUFFICES ASSUME Register!Init PROVE RegisterKeeps
    OBVIOUS
<1>1. joint = [status |-> "absent", current |-> 0] /\ revs = <<>>
    BY DEF Register!Init
<1>2. DOMAIN revs = {}
    BY <1>1
<1>3. RegisterTyped
    BY <1>1 DEF RegisterTyped, JointRow, Register!JointStatus
<1>4. QED
    BY <1>1, <1>2, <1>3 DEF RegisterKeeps, RegisterInv, Register!RegisterInv,
       Register!CurrentIsApproved, Register!DecidedByAnother

(* What a draft or a decision makes of one revision.                        *)
Undecided(rev, u) ==
    /\ rev \in Register!Revision /\ rev.status = "draft"
    /\ rev.reviewer = NoUser /\ rev.by = u /\ ~rev.approved

LEMMA DraftIsUndecided ==
    ASSUME NEW no \in Nat, NEW key \in Keys \cup {NoKey}, NEW content \in Contents,
           NEW u \in Users
    PROVE  Undecided(Register!DraftRevision(no, key, content, u), u)
BY DEF Undecided, Register!DraftRevision, Register!Revision, Register!RevisionStatus

LEMMA CreateKeepsRegister ==
    ASSUME RegisterKeeps, NEW key \in Keys \cup {NoKey}, NEW content \in Contents,
           NEW u \in Users, Register!CreateRevision(key, content, u)
    PROVE  RegisterKeeps'
<1>1. PICK rev : rev = Register!DraftRevision(Len(revs) + 1, key, content, u)
    OBVIOUS
<1>2. revs' = Append(revs, rev) /\ joint' = joint
    BY <1>1 DEF Register!CreateRevision
<1>3. revs \in Seq(Register!Revision) /\ Len(revs) \in Nat /\ Len(revs) + 1 \in Nat
    BY DEF RegisterKeeps, RegisterTyped
<1>4. /\ rev \in Register!Revision /\ rev.status = "draft"
      /\ rev.reviewer = NoUser /\ rev.by = u /\ ~rev.approved
  <2>1. Undecided(Register!DraftRevision(Len(revs) + 1, key, content, u), u)
    BY <1>3, DraftIsUndecided
  <2>2. QED
    BY <1>1, <2>1 DEF Undecided
<1>5. revs' \in Seq(Register!Revision)
    BY <1>2, <1>3, <1>4, AppendProperties
<1>6. /\ DOMAIN revs = 1 .. Len(revs) /\ DOMAIN revs' = 1 .. Len(revs) + 1
      /\ \A i \in 1 .. Len(revs) : revs'[i] = revs[i]
      /\ revs'[Len(revs) + 1] = rev
    BY <1>2, <1>3, <1>4, AppendProperties, LenProperties
<1>7. \A i \in DOMAIN revs' : revs'[i] = rev \/ (i \in DOMAIN revs /\ revs'[i] = revs[i])
  <2>1. \A i \in 1 .. Len(revs) + 1 : i \in 1 .. Len(revs) \/ i = Len(revs) + 1
    BY <1>3
  <2>2. QED
    BY <1>6, <2>1
<1>8. \A i \in DOMAIN revs : i \in DOMAIN revs' /\ revs'[i] = revs[i]
    BY <1>3, <1>6
<1>9. Register!CurrentIsApproved'
    BY <1>2, <1>4, <1>7, <1>8
    DEF RegisterKeeps, RegisterInv, Register!RegisterInv, Register!CurrentIsApproved
<1>10. Register!DecidedByAnother'
  <2>1. ASSUME NEW i \in DOMAIN revs'
        PROVE  /\ revs'[i].reviewer # revs'[i].by
               /\ revs'[i].status \in {"approved", "rejected"} <=> revs'[i].reviewer # NoUser
               /\ revs'[i].status = "approved" <=> revs'[i].approved
    <3>1. CASE revs'[i] = rev
      BY <1>4, <3>1, NullsAssumption
    <3>2. CASE i \in DOMAIN revs /\ revs'[i] = revs[i]
      BY <3>2 DEF RegisterKeeps, RegisterInv, Register!RegisterInv, Register!DecidedByAnother
    <3>3. QED
      BY <1>7, <3>1, <3>2
  <2>2. QED
    BY <2>1 DEF Register!DecidedByAnother
<1>11. QED
    BY <1>2, <1>5, <1>9, <1>10 DEF RegisterKeeps, RegisterTyped, RegisterInv,
       Register!RegisterInv

(* A revision is submitted or decided: the rest stay as they are.           *)
LEMMA DecisionKeepsRegister ==
    ASSUME RegisterKeeps, NEW i \in DOMAIN revs,
           \/ Register!Submit(i)
           \/ \E u \in Users : Register!Approve(i, u) \/ Register!Reject(i, u)
    PROVE  RegisterKeeps'
<1>1. /\ revs \in Seq(Register!Revision) /\ joint \in JointRow
      /\ revs[i] \in Register!Revision /\ i \in Nat \ {0}
      /\ DOMAIN revs = 1 .. Len(revs) /\ Len(revs) \in Nat
    BY ElementOfSeq, LenProperties DEF RegisterKeeps, RegisterTyped
<1>2. PICK rev :
          /\ revs' = [revs EXCEPT ![i] = rev]
          /\ rev \in Register!Revision
          /\ rev.reviewer # rev.by
          /\ rev.status \in {"approved", "rejected"} <=> rev.reviewer # NoUser
          /\ rev.status = "approved" <=> rev.approved
          /\ revs[i].status # "approved"
          /\ \/ joint' = joint /\ rev.status # "approved"
             \/ joint' = [status |-> "active", current |-> i] /\ rev.status = "approved"
  <2>1. /\ revs[i].reviewer # revs[i].by
        /\ revs[i].status \in {"approved", "rejected"} <=> revs[i].reviewer # NoUser
        /\ revs[i].status = "approved" <=> revs[i].approved
    BY DEF RegisterKeeps, RegisterInv, Register!RegisterInv, Register!DecidedByAnother
  <2>2. CASE Register!Submit(i)
    <3>1. PICK rev : rev = Register!Submitted(revs[i])
      OBVIOUS
    <3>2. /\ rev \in Register!Revision /\ rev.status = "review"
          /\ rev.reviewer = revs[i].reviewer /\ rev.by = revs[i].by
          /\ rev.approved = revs[i].approved
      BY <1>1, <3>1 DEF Register!Submitted, Register!Revision, Register!RevisionStatus
    <3>3. /\ revs' = [revs EXCEPT ![i] = rev] /\ joint' = joint /\ revs[i].status = "draft"
      BY <2>2, <3>1 DEF Register!Submit
    <3>4. QED
      BY <2>1, <3>2, <3>3
  <2>3. ASSUME NEW u \in Users, Register!Approve(i, u)
        PROVE  \E rev :
                  /\ revs' = [revs EXCEPT ![i] = rev]
                  /\ rev \in Register!Revision /\ rev.status = "approved"
                  /\ rev.reviewer = u /\ rev.by = revs[i].by /\ rev.approved = TRUE
                  /\ joint' = [status |-> "active", current |-> i]
                  /\ revs[i].status = "review" /\ revs[i].by # u
    <3>1. PICK rev : rev = Register!Approved(revs[i], u)
      OBVIOUS
    <3>2. /\ rev \in Register!Revision /\ rev.status = "approved"
          /\ rev.reviewer = u /\ rev.by = revs[i].by /\ rev.approved = TRUE
      BY <1>1, <3>1 DEF Register!Approved, Register!Revision, Register!RevisionStatus
    <3>3. QED
      BY <2>3, <3>1, <3>2 DEF Register!Approve
  <2>4. ASSUME NEW u \in Users, Register!Reject(i, u)
        PROVE  \E rev :
                  /\ revs' = [revs EXCEPT ![i] = rev]
                  /\ rev \in Register!Revision /\ rev.status = "rejected"
                  /\ rev.reviewer = u /\ rev.by = revs[i].by
                  /\ rev.approved = revs[i].approved
                  /\ joint' = joint
                  /\ revs[i].status = "review" /\ revs[i].by # u
    <3>1. PICK rev : rev = Register!Rejected(revs[i], u)
      OBVIOUS
    <3>2. /\ rev \in Register!Revision /\ rev.status = "rejected"
          /\ rev.reviewer = u /\ rev.by = revs[i].by /\ rev.approved = revs[i].approved
      BY <1>1, <3>1 DEF Register!Rejected, Register!Revision, Register!RevisionStatus
    <3>3. QED
      BY <2>4, <3>1, <3>2 DEF Register!Reject
  <2>5. ASSUME NEW u \in Users, Register!Approve(i, u) \/ Register!Reject(i, u)
        PROVE  \E rev :
                  /\ revs' = [revs EXCEPT ![i] = rev]
                  /\ rev \in Register!Revision
                  /\ rev.reviewer # rev.by
                  /\ rev.status \in {"approved", "rejected"} <=> rev.reviewer # NoUser
                  /\ rev.status = "approved" <=> rev.approved
                  /\ revs[i].status # "approved"
                  /\ \/ joint' = joint /\ rev.status # "approved"
                     \/ joint' = [status |-> "active", current |-> i] /\ rev.status = "approved"
    <3>1. u # NoUser
      BY NullsAssumption
    <3>2. CASE Register!Approve(i, u)
      <4>1. PICK rev :
                  /\ revs' = [revs EXCEPT ![i] = rev]
                  /\ rev \in Register!Revision /\ rev.status = "approved"
                  /\ rev.reviewer = u /\ rev.by = revs[i].by /\ rev.approved = TRUE
                  /\ joint' = [status |-> "active", current |-> i]
                  /\ revs[i].status = "review" /\ revs[i].by # u
        BY <2>3, <3>2
      <4>2. /\ rev.reviewer # rev.by
            /\ rev.status \in {"approved", "rejected"} <=> rev.reviewer # NoUser
            /\ rev.status = "approved" <=> rev.approved
            /\ revs[i].status # "approved"
        BY <3>1, <4>1
      <4>3. QED
        BY <4>1, <4>2
    <3>3. CASE Register!Reject(i, u)
      <4>1. PICK rev :
                  /\ revs' = [revs EXCEPT ![i] = rev]
                  /\ rev \in Register!Revision /\ rev.status = "rejected"
                  /\ rev.reviewer = u /\ rev.by = revs[i].by
                  /\ rev.approved = revs[i].approved
                  /\ joint' = joint
                  /\ revs[i].status = "review" /\ revs[i].by # u
        BY <2>4, <3>3
      <4>2. /\ rev.reviewer # rev.by
            /\ rev.status \in {"approved", "rejected"} <=> rev.reviewer # NoUser
            /\ rev.status = "approved" <=> rev.approved
            /\ revs[i].status # "approved"
        BY <2>1, <3>1, <4>1
      <4>3. QED
        BY <4>1, <4>2
    <3>4. QED
      BY <2>5, <3>2, <3>3
  <2>6. QED
    BY <2>2, <2>5
<1>3. /\ revs' \in Seq(Register!Revision) /\ DOMAIN revs' = DOMAIN revs
      /\ \A j \in DOMAIN revs : revs'[j] = IF j = i THEN rev ELSE revs[j]
    BY <1>1, <1>2, ExceptSeq
<1>4. joint' \in JointRow
    BY <1>1, <1>2 DEF JointRow, Register!JointStatus
<1>5. Register!CurrentIsApproved'
    BY <1>1, <1>2, <1>3
    DEF RegisterKeeps, RegisterInv, Register!RegisterInv, Register!CurrentIsApproved
<1>6. Register!DecidedByAnother'
    BY <1>2, <1>3
    DEF RegisterKeeps, RegisterInv, Register!RegisterInv, Register!DecidedByAnother
<1>7. QED
    BY <1>3, <1>4, <1>5, <1>6 DEF RegisterKeeps, RegisterTyped, RegisterInv,
       Register!RegisterInv

LEMMA NextKeepsRegister ==
    RegisterKeeps /\ [Register!Next]_(Register!vars) => RegisterKeeps'
<1>1. SUFFICES ASSUME RegisterKeeps, [Register!Next]_(Register!vars) PROVE RegisterKeeps'
  OBVIOUS
<1>2. CASE revs' = revs /\ (joint' = joint \/ \E s \in Register!JointStatus :
                                                 joint' = [joint EXCEPT !.status = s])
  <2>1. joint' \in JointRow /\ joint'.current = joint.current
    BY <1>1, <1>2 DEF RegisterKeeps, RegisterTyped, JointRow
  <2>2. QED
    BY <1>1, <1>2, <2>1 DEF RegisterKeeps, RegisterTyped, RegisterInv, Register!RegisterInv,
       Register!CurrentIsApproved, Register!DecidedByAnother
<1>3. CASE UNCHANGED Register!vars \/ Register!CreateJoint \/ Register!ArchiveJoint
  BY <1>2, <1>3 DEF Register!vars, Register!CreateJoint, Register!ArchiveJoint,
     Register!JointStatus
<1>4. ASSUME NEW key \in Keys \cup {NoKey}, NEW content \in Contents, NEW u \in Users,
             Register!CreateRevision(key, content, u)
      PROVE  RegisterKeeps'
  BY <1>1, <1>4, CreateKeepsRegister
<1>5. ASSUME NEW i \in DOMAIN revs,
             \/ Register!Submit(i)
             \/ \E u \in Users : Register!Approve(i, u) \/ Register!Reject(i, u)
      PROVE  RegisterKeeps'
  BY <1>1, <1>5, DecisionKeepsRegister
<1>6. QED
  BY <1>1, <1>3, <1>4, <1>5 DEF Register!Next

(* The joint points at the revision approved last, and every decision is    *)
(* made by somebody who did not write the revision.                        *)
THEOREM RegisterInvariant == Register!Spec => []RegisterInv
<1>1. RegisterKeeps => RegisterInv
    BY DEF RegisterKeeps
<1>2. QED
    BY RegisterInit, NextKeepsRegister, <1>1, PTL DEF Register!Spec

(* So with callers that do not overlap every revision is decided once, and  *)
(* the joint points at an approved one, across failures and restarts.      *)
THEOREM SerialJointsKeepRegister ==
    ASSUME NEW w, Workers = {w}
    PROVE  Spec => []RegisterInv
BY SerialJointsImplementRegister, RegisterInvariant, PTL

(* A mix takes its requests from those of the run and never changes.        *)
MixInv == mix \in Mixes

LEMMA MixesTaken ==
    ASSUME MixInv PROVE mix.requests \subseteq AllRequests
BY DEF MixInv, Mixes, AllRequests

LEMMA MixesAreBehaviours ==
    ASSUME AllRequests \subseteq Requests
    PROVE  MCSpec => Spec /\ []MixInv
<1>1. MCInit => Init /\ MixInv
    BY DEF MCInit, MixInv
<1>2. MixInv /\ [MCNext]_<<vars, mix>> => MixInv'
    BY DEF MixInv, MCNext
<1>3. MixInv /\ [MCNext]_<<vars, mix>> => [Next]_vars
    BY MixesTaken DEF MCNext, Next, vars
<1>4. QED
    BY <1>1, <1>2, <1>3, PTL DEF MCSpec, Spec

(* In a mix of one thread all requests come from one caller.                *)
OneCaller == \A w, x \in Workers : req[w] # NoRequest /\ req[x] # NoRequest => w = x

LEMMA OneCallerNeverOverlaps == TypeOK /\ OneCaller => NoOverlap
BY NullsAssumption DEF TypeOK, AtStep, OneCaller, NoOverlap

LEMMA StepsKeepRequests ==
    ASSUME NEW w \in Workers, Step(w) \/ Busy(w)
    PROVE  req' = req
BY DEF Step, Busy, CheckCode, AddJoint, GetJoint, ArchiveJoint, MatchKey, NextNumber,
   InsertRevision, Recheck, GetRevision, UpdateRevision, WriteAudit, Replay, Finish, Goto

LEMMA MixKeepsOneCaller ==
    ASSUME TypeOK, Serial, OneCaller, [MCNext]_<<vars, mix>>
    PROVE  OneCaller'
<1>1. CASE req' = req
    BY <1>1 DEF OneCaller
<1>2. ASSUME NEW w \in Workers, NEW r \in mix.requests, Receive(w, r),
             \A x \in Workers \ {w} : req[x] = NoRequest
      PROVE  OneCaller'
  <2>1. \A x \in Workers \ {w} : req[x] = NoRequest /\ req'[x] = req[x]
    BY <1>2 DEF Receive, TypeOK
  <2>2. QED
    BY <2>1 DEF OneCaller
<1>3. CASE Crash \/ UNCHANGED <<vars, mix>>
    BY <1>1, <1>3 DEF Crash, vars
<1>4. QED
    BY <1>1, <1>2, <1>3, StepsKeepRequests DEF MCNext

SerialInv == Serial => OneCaller /\ AllReadsHold /\ RegisterKeeps

(* The same of each behaviour whose mix has one thread, whatever it asks    *)
(* and whatever fails, on a server that has many: each step is one of the   *)
(* register or leaves joint and revisions alone, and they keep its          *)
(* invariant.                                                              *)
THEOREM MixedJointsImplementRegister ==
    ASSUME AllRequests \subseteq Requests
    PROVE  MCSpec => SerialImplementsRegister
<1>1. MCInit => Register!Init /\ SerialInv
    BY InitIsRegisterInit, RegisterInit DEF MCInit, SerialInv, Init, OneCaller
<1>2. ASSUME MixInv, JointInv, SerialInv, [MCNext]_<<vars, mix>>
      PROVE  SerialInv' /\ [Serial => Register!Next]_<<joint, revs>>
  <2>1. mix' = mix
    BY <1>2 DEF MCNext
  <2>2. ASSUME Serial
        PROVE  /\ OneCaller' /\ AllReadsHold' /\ RegisterKeeps'
               /\ [Register!Next]_(Register!vars)
    <3>1. [Next]_vars /\ TypeOK
        BY <1>2, MixesTaken DEF MCNext, Next, vars, JointInv
    <3>2. OneCaller /\ AllReadsHold /\ RegisterKeeps
        BY <1>2, <2>2 DEF SerialInv
    <3>3. OneCaller' /\ NoOverlap
        BY <1>2, <2>2, <3>1, <3>2, MixKeepsOneCaller, OneCallerNeverOverlaps
    <3>4. AllReadsHold' /\ [Register!Next]_(Register!vars)
        BY <1>2, <3>1, <3>2, <3>3, NextKeepsReads, NextIsRegisterStep
    <3>5. QED
        BY <3>2, <3>3, <3>4, NextKeepsRegister
  <2>3. SerialInv'
    BY <2>1, <2>2 DEF SerialInv, Serial
  <2>4. [Serial => Register!Next]_<<joint, revs>>
    BY <2>2 DEF Register!vars
  <2>5. QED
    BY <2>3, <2>4
<1>3. SerialInv => (Serial => RegisterInv)
    BY DEF SerialInv, RegisterKeeps
<1>4. QED
    BY <1>1, <1>2, <1>3, JointInvariant, MixesAreBehaviours, PTL
    DEF MCSpec, SerialImplementsRegister

=============================================================================
