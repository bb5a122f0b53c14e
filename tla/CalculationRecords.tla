-------------------------- MODULE CalculationRecords --------------------------
(***************************************************************************)
(* backend/app.py: calculations and the versions of data they were made    *)
(* with, their revisions and reviews, and the release packages of a        *)
(* project.  Every SELECT before the first INSERT, UPDATE or DELETE of a   *)
(* handler is a step, and so is the transaction that begins there.         *)
(*                                                                         *)
(* A calculation has the id SQLite gives a row of INTEGER PRIMARY KEY: one *)
(* more than the largest in the table, so that an id comes back when the   *)
(* newest calculation was deleted.  serial tells the calculations apart.   *)
(*   calculation  [id, serial, owner, project, data]                       *)
(*   trace        [id, serial, dataset, version]   id: calculation_id      *)
(*   revision     [id, number, serial, status, locked, creator, reviewer,  *)
(*                 late]    serial: the snapshot; late: the calculation    *)
(*                 was locked by then                                      *)
(*   release      [ready, items]                                           *)
(* serial, late and data (the data sets that were active when the          *)
(* calculation was saved) are for the properties; no step looks at them.   *)
(***************************************************************************)
EXTENDS Integers, Sequences, FiniteSets, SequencesExt

CONSTANTS
    Workers,        \* the threads of the server
    Requests,       \* what users may send, and send again
    OwnerOf,        \* [project -> the user who created it]
    Reviewers,      \* the users with the role admin or engineer
    MaxCalculations, MaxRevisions, MaxReleases,     \* bounds
    NoProject, NoUser, NoRequest

VARIABLES
    active,         \* the active version of each data set, or 0; no step here changes it
    calculations, made, traces, revisions, releases,
    pc, req, ctx

tables == <<calculations, made, traces, revisions, releases>>
vars == <<active, tables, pc, req, ctx>>

(* rows: calculations read; trace: the active versions read; number: the   *)
(* revision to insert; row: the revision to decide on; items: the matrix   *)
(* of a release package.                                                   *)
NoContext == [rows |-> <<>>, trace |-> <<>>, number |-> 0, row |-> 0, items |-> <<>>]

Init ==
    /\ calculations = {} /\ made = 0 /\ traces = {}
    /\ revisions = <<>> /\ releases = {}
    /\ pc = [w \in Workers |-> "idle"]
    /\ req = [w \in Workers |-> NoRequest]
    /\ ctx = [w \in Workers |-> NoContext]

Goto(w, step) == pc' = [pc EXCEPT ![w] = step] /\ UNCHANGED req

(* The answer, or the error that ends the request.                         *)
Finish(w) ==
    /\ pc' = [pc EXCEPT ![w] = "idle"]
    /\ req' = [req EXCEPT ![w] = NoRequest]
    /\ ctx' = [ctx EXCEPT ![w] = NoContext]

Refuse(w) == Finish(w) /\ UNCHANGED tables

(* Bounds: a request that adds a row is sent while there is room.          *)
Room(r) ==
    /\ r.op = "add" => made < MaxCalculations
    /\ r.op = "revise" => Len(revisions) < MaxRevisions
    /\ r.op = "release" => Cardinality(releases) < MaxReleases

(* A reviewer needs the role; a calculation may name a project.            *)
Receive(w, r) ==
    /\ pc[w] = "idle"
    /\ Room(r)
    /\ r.op \in {"approve", "reject"} => r.user \in Reviewers
    /\ pc' = [pc EXCEPT ![w] =
           IF r.op = "add" /\ r.project = NoProject THEN "insert" ELSE r.op]
    /\ req' = [req EXCEPT ![w] = r]
    /\ UNCHANGED <<ctx, tables>>

-----------------------------------------------------------------------------
(* add, dele and clear.                                                    *)

(* _get_owned_project.                                                     *)
CheckProject(w) ==
    /\ pc[w] \in {"add", "release", "matrix"}
    /\ IF OwnerOf[req[w].project] # req[w].user THEN Refuse(w)
       ELSE /\ Goto(w, CASE pc[w] = "add" -> "insert"
                         [] pc[w] = "release" -> "matrix"
                         [] pc[w] = "matrix" -> "list")
            /\ UNCHANGED <<ctx, tables>>

NextId ==
    IF calculations = {} THEN 1
    ELSE 1 + CHOOSE n \in {c.id : c \in calculations} : \A c \in calculations : c.id <= n

InsertCalculation(w) ==
    LET c == [id |-> NextId, serial |-> made + 1, owner |-> req[w].user,
              project |-> req[w].project,
              data |-> {d \in DOMAIN active : active[d] # 0}]
    IN  /\ pc[w] = "insert"
        /\ calculations' = calculations \cup {c}
        /\ made' = made + 1
        /\ Goto(w, "active")
        /\ ctx' = [ctx EXCEPT ![w].rows = <<c>>]
        /\ UNCHANGED <<traces, revisions, releases>>

(* The second connection of add: the active versions, then their rows.     *)
ReadActive(w) ==
    /\ pc[w] = "active"
    /\ Goto(w, "trace")
    /\ ctx' = [ctx EXCEPT ![w].trace = active]
    /\ UNCHANGED tables

InsertTrace(w) ==
    LET c == Head(ctx[w].rows) IN
    /\ pc[w] = "trace"
    /\ traces' = traces \cup
           {[id |-> c.id, serial |-> c.serial, dataset |-> d, version |-> ctx[w].trace[d]] :
               d \in {e \in DOMAIN ctx[w].trace : ctx[w].trace[e] # 0}}
    /\ Finish(w)
    /\ UNCHANGED <<calculations, made, revisions, releases>>

(* Traces and revisions of a deleted calculation stay.                     *)
DeleteCalculation(w) ==
    /\ pc[w] \in {"delete", "clear"}
    /\ calculations' = {c \in calculations :
           c.owner # req[w].user \/ (pc[w] = "delete" /\ c.id # req[w].calculation)}
    /\ Finish(w)
    /\ UNCHANGED <<made, traces, revisions, releases>>

-----------------------------------------------------------------------------
(* create_revision.                                                        *)

RevisionsOf(id) == {i \in DOMAIN revisions : revisions[i].id = id}
LockedBy(id) == {i \in RevisionsOf(id) : revisions[i].locked}

ReadCalculation(w) ==
    LET rows == {c \in calculations : c.id = req[w].calculation /\ c.owner = req[w].user} IN
    /\ pc[w] = "revise"
    /\ IF rows = {} THEN Refuse(w)
       ELSE /\ Goto(w, "locked")
            /\ ctx' = [ctx EXCEPT ![w].rows = <<CHOOSE c \in rows : TRUE>>]
            /\ UNCHANGED tables

FindLock(w) ==
    /\ pc[w] = "locked"
    /\ IF LockedBy(req[w].calculation) # {} THEN Refuse(w)
       ELSE Goto(w, "number") /\ UNCHANGED <<ctx, tables>>

NextNumber(w) ==
    LET numbers == {revisions[i].number : i \in RevisionsOf(req[w].calculation)} IN
    /\ pc[w] = "number"
    /\ Goto(w, "insert_revision")
    /\ ctx' = [ctx EXCEPT ![w].number =
                  IF numbers = {} THEN 1
                  ELSE 1 + CHOOSE n \in numbers : \A m \in numbers : m <= n]
    /\ UNCHANGED tables

NewRevision(w) ==
    [id |-> req[w].calculation, number |-> ctx[w].number,
     serial |-> Head(ctx[w].rows).serial, status |-> "draft", locked |-> FALSE,
     creator |-> req[w].user, reviewer |-> NoUser,
     late |-> LockedBy(req[w].calculation) # {}]

(* Mutant of InsertRevision: the table lets a number come twice.           *)
InsertRevisionTwice(w) ==
    /\ pc[w] = "insert_revision"
    /\ revisions' = Append(revisions, NewRevision(w))
    /\ Finish(w)
    /\ UNCHANGED <<calculations, made, traces, releases>>

(* UNIQUE(calculation_id, revision_no).                                    *)
InsertRevision(w) ==
    /\ pc[w] = "insert_revision"
    /\ IF \E i \in RevisionsOf(req[w].calculation) : revisions[i].number = ctx[w].number
       THEN Refuse(w)
       ELSE /\ revisions' = Append(revisions, NewRevision(w))
            /\ Finish(w)
            /\ UNCHANGED <<calculations, made, traces, releases>>

-----------------------------------------------------------------------------
(* submit_revision, approve_revision and reject_revision: a SELECT, and an *)
(* UPDATE WHERE id=?.                                                      *)

(* The JOIN of submit finds nothing for a calculation that is gone, and    *)
(* the owner of whatever has its id now.                                   *)
ReadSubmitted(w) ==
    LET i == req[w].revision IN
    /\ pc[w] = "submit"
    /\ IF \/ i \notin DOMAIN revisions
          \/ ~ \E c \in calculations : c.id = revisions[i].id /\ c.owner = req[w].user
          \/ revisions[i].status # "draft"
       THEN Refuse(w)
       ELSE Goto(w, "decide") /\ UNCHANGED <<ctx, tables>>

ReadReviewed(w) ==
    LET i == req[w].revision IN
    /\ pc[w] \in {"approve", "reject"}
    /\ IF i \notin DOMAIN revisions THEN Refuse(w)
       ELSE IF revisions[i].creator = req[w].user THEN Refuse(w)
       ELSE Goto(w, "decide") /\ UNCHANGED <<ctx, tables>>

Decided(revision, r) ==
    CASE r.op = "submit" -> [revision EXCEPT !.status = "review"]
      [] r.op = "approve" -> [revision EXCEPT !.status = "approved", !.locked = TRUE,
                                              !.reviewer = r.user]
      [] r.op = "reject" -> [revision EXCEPT !.status = "rejected", !.reviewer = r.user]

Decide(w) ==
    /\ pc[w] = "decide"
    /\ revisions' = [revisions EXCEPT ![req[w].revision] = Decided(@, req[w])]
    /\ Finish(w)
    /\ UNCHANGED <<calculations, made, traces, releases>>

-----------------------------------------------------------------------------
(* project_release_package, with project_traceability.                     *)

ListCalculations(w) ==
    /\ pc[w] = "list"
    /\ Goto(w, "item")
    /\ ctx' = [ctx EXCEPT ![w].rows =
                  SetToSortSeq({c \in calculations : c.project = req[w].project},
                               LAMBDA c, d : c.id < d.id)]
    /\ UNCHANGED tables

(* The newest revision of the next calculation; its data versions are left *)
(* out, as nothing is decided on them.                                     *)
ReadItem(w) ==
    LET c == Head(ctx[w].rows)
        mine == RevisionsOf(c.id)
        newest == {i \in mine : \A j \in mine : revisions[j].number <= revisions[i].number}
    IN  /\ pc[w] = "item" /\ ctx[w].rows # <<>>
        /\ ctx' = [ctx EXCEPT ![w].rows = Tail(@),
                              ![w].items = Append(@, [calculation |-> c, revisions |-> newest,
                                  approved |-> \E i \in newest : revisions[i].status = "approved"])]
        /\ UNCHANGED <<pc, req, tables>>

InsertRelease(w) ==
    LET items == ctx[w].items IN
    /\ pc[w] = "item" /\ ctx[w].rows = <<>>
    /\ releases' = releases \cup
           {[items |-> items,
             ready |-> items # <<>> /\ \A i \in DOMAIN items : items[i].approved]}
    /\ Finish(w)
    /\ UNCHANGED <<calculations, made, traces, revisions>>

Step(w) ==
    \/ CheckProject(w) \/ InsertCalculation(w) \/ ReadActive(w) \/ InsertTrace(w)
    \/ DeleteCalculation(w)
    \/ ReadCalculation(w) \/ FindLock(w) \/ NextNumber(w) \/ InsertRevision(w)
    \/ ReadSubmitted(w) \/ ReadReviewed(w) \/ Decide(w)
    \/ ListCalculations(w) \/ ReadItem(w) \/ InsertRelease(w)

Next == \E w \in Workers : (\E r \in Requests : Receive(w, r)) \/ Step(w)

-----------------------------------------------------------------------------

TypeOK ==
    /\ \A c \in calculations : c.id \in 1 .. made /\ c.serial \in 1 .. made
    /\ \A c, d \in calculations : c.id = d.id => c = d
    /\ \A i \in DOMAIN revisions :
          /\ revisions[i].status \in {"draft", "review", "approved", "rejected"}
          /\ revisions[i].number \in 1 .. Len(revisions)
    /\ req \in [Workers -> Requests \cup {NoRequest}]

(* Whoever decided on a revision has the role and did not write it, and an *)
(* approved revision is locked, however decisions overlap.                 *)
ReviewsGrounded ==
    \A i \in DOMAIN revisions :
        LET r == revisions[i] IN
        /\ r.status \in {"approved", "rejected"} => r.reviewer \in Reviewers \ {r.creator}
        /\ r.status = "approved" => r.locked

(* The revisions of a calculation are numbered 1, 2, 3... in the order in  *)
(* which they were made, although the number is computed before.           *)
RevisionsNumbered ==
    \A i \in DOMAIN revisions :
        revisions[i].number = Cardinality({j \in RevisionsOf(revisions[i].id) : j <= i})

(* "Onayli hesap kilitlidir": once a revision is approved the calculation  *)
(* gets no further revisions, except from requests that were past the      *)
(* check by then, of which there are fewer than threads.                   *)
LateRevisionsBounded ==
    \A id \in 1 .. made :
        Cardinality({i \in RevisionsOf(id) : revisions[i].late}) < Cardinality(Workers)

(* A project is called ready for release only if every calculation it      *)
(* lists had a revision approved, which stays locked.                      *)
ReadyRestsOnLocks ==
    \A p \in releases :
        p.ready => \A i \in DOMAIN p.items :
            \E j \in p.items[i].revisions : revisions[j].locked

(* The matrix of calculation, revision and approval: what was approved is  *)
(* the calculation that is released.                                       *)
ReleasedIsApproved ==
    \A p \in releases :
        p.ready => \A i \in DOMAIN p.items :
            \E j \in p.items[i].revisions :
                revisions[j].serial = p.items[i].calculation.serial

(* A calculation whose request was answered has a trace of every data set  *)
(* that was active when it was saved, although the trace is written later  *)
(* and versions are activated and rolled back in between.                  *)
AnsweredIsTraced ==
    \A c \in calculations :
        (\A w \in Workers : pc[w] \in {"active", "trace"} => c # Head(ctx[w].rows)) =>
            c.data \subseteq {t.dataset : t \in {u \in traces : u.serial = c.serial}}

=============================================================================
