----------------------------- MODULE DataVersions -----------------------------
(***************************************************************************)
(* backend/app.py: the data packages an administrator uploads and reviews, *)
(* the versions made from approved packages, which of them the engine uses,*)
(* and the certificates issued on all of that.  Every SELECT before the    *)
(* first INSERT or UPDATE of a handler is a step, and so is the transaction*)
(* that begins there.                                                      *)
(*                                                                         *)
(*   package   [dataset, content, confidence, valid, status]               *)
(*   version   [dataset, number, package, active]                          *)
(*   golden    a golden case: passed or not                                *)
(***************************************************************************)
EXTENDS Integers, Sequences, FiniteSets

CONSTANTS
    Workers,        \* the threads of the server
    Requests,       \* what administrators may send, and send again
    Required,       \* the data sets a certificate asks for
    MaxPackages, MaxVersions, MaxGolden, MaxCertificates,   \* bounds
    NoRequest

VARIABLES packages, versions, golden, certificates, pc, req, ctx

tables == <<packages, versions, golden, certificates>>
vars == <<tables, pc, req, ctx>>

(* found: the version or package to change; active, passed: what the       *)
(* certificate has read; held: at one of its reads nothing spoke against   *)
(* it, which no variable of the code says.                                 *)
NoContext == [found |-> 0, active |-> {}, passed |-> FALSE, held |-> FALSE]

Init ==
    /\ packages = <<>> /\ versions = <<>> /\ golden = <<>> /\ certificates = <<>>
    /\ pc = [w \in Workers |-> "idle"]
    /\ req = [w \in Workers |-> NoRequest]
    /\ ctx = [w \in Workers |-> NoContext]

Goto(w, step) == pc' = [pc EXCEPT ![w] = step] /\ UNCHANGED req

(* The answer, or the error that ends the request.                         *)
Finish(w) ==
    /\ pc' = [pc EXCEPT ![w] = "idle"]
    /\ req' = [req EXCEPT ![w] = NoRequest]
    /\ ctx' = [ctx EXCEPT ![w] = NoContext]

Refuse(w) == Finish(w) /\ UNCHANGED tables

(* Bounds: a request that adds a row is sent while there is room.          *)
Room(r) ==
    /\ r.op = "upload" => Len(packages) < MaxPackages
    /\ r.op = "review" => Len(versions) < MaxVersions
    /\ r.op = "golden" => Len(golden) < MaxGolden
    /\ r.op = "certify" => Len(certificates) < MaxCertificates

Receive(w, r) ==
    /\ pc[w] = "idle"
    /\ Room(r)
    /\ pc' = [pc EXCEPT ![w] = r.op]
    /\ req' = [req EXCEPT ![w] = r]
    /\ UNCHANGED <<ctx, tables>>

-----------------------------------------------------------------------------

(* create_data_package: SELECT 1 WHERE content_hash=?, then the INSERT.    *)
FindContent(w) ==
    /\ pc[w] = "upload"
    /\ IF \E i \in DOMAIN packages : packages[i].content = req[w].content
       THEN Refuse(w)
       ELSE Goto(w, "insert_package") /\ UNCHANGED <<ctx, tables>>

InsertPackage(w) ==
    LET r == req[w] IN
    /\ pc[w] = "insert_package"
    /\ packages' = Append(packages,
           [dataset |-> r.dataset, content |-> r.content, confidence |-> r.confidence,
            valid |-> r.valid, status |-> "draft"])
    /\ Finish(w)
    /\ UNCHANGED <<versions, golden, certificates>>

(* set_data_package_status: the package is read before the UPDATE.         *)
ReadPackage(w) ==
    LET i == req[w].package IN
    /\ pc[w] = "review"
    /\ IF i \notin DOMAIN packages THEN Refuse(w)
       ELSE IF req[w].status = "approved" /\ packages[i].confidence < 4 THEN Refuse(w)
       ELSE Goto(w, "set_status") /\ UNCHANGED <<ctx, tables>>

VersionsOf(dataset) == {i \in DOMAIN versions : versions[i].dataset = dataset}

(* The transaction: the status, and for an approval the next version of    *)
(* the data set, numbered by counting (INSERT OR IGNORE).                  *)
SetStatus(w) ==
    LET i == req[w].package
        d == packages[i].dataset
        number == 1 + Cardinality(VersionsOf(d))
    IN  /\ pc[w] = "set_status"
        /\ packages' = [packages EXCEPT ![i].status = req[w].status]
        /\ versions' = IF \/ req[w].status # "approved"
                          \/ \E v \in VersionsOf(d) : versions[v].number = number
                       THEN versions
                       ELSE Append(versions, [dataset |-> d, number |-> number,
                                              package |-> i, active |-> FALSE])
        /\ Finish(w)
        /\ UNCHANGED <<golden, certificates>>

(* activate_version: the version, then its package.                        *)
ReadVersion(w) ==
    /\ pc[w] = "activate"
    /\ IF req[w].version \notin DOMAIN versions THEN Refuse(w)
       ELSE /\ Goto(w, "check_package")
            /\ ctx' = [ctx EXCEPT ![w].found = req[w].version]
            /\ UNCHANGED tables

CheckPackage(w) ==
    LET p == packages[versions[ctx[w].found].package] IN
    /\ pc[w] = "check_package"
    /\ IF p.status # "approved" \/ p.confidence < 4 THEN Refuse(w)
       ELSE Goto(w, "switch") /\ UNCHANGED <<ctx, tables>>

(* rollback_version: the newest version with confidence 4 that is older    *)
(* than the one named, which need not be the active one.                   *)
FindPrevious(w) ==
    LET v == req[w].version
        older == {i \in DOMAIN versions :
                     /\ v \in DOMAIN versions
                     /\ i < v
                     /\ versions[i].dataset = versions[v].dataset
                     /\ packages[versions[i].package].confidence = 4}
    IN  /\ pc[w] = "rollback"
        /\ IF older = {} THEN Refuse(w)
           ELSE /\ Goto(w, "switch")
                /\ ctx' = [ctx EXCEPT ![w].found = CHOOSE i \in older : \A j \in older : j <= i]
                /\ UNCHANGED tables

(* Mutant of Switch: nothing is switched off.                              *)
SwitchOn(w) ==
    LET v == ctx[w].found IN
    /\ pc[w] = "switch"
    /\ versions' = [versions EXCEPT ![v].active = TRUE]
    /\ Finish(w)
    /\ UNCHANGED <<packages, golden, certificates>>

(* Mutant of Switch: the version that is on is switched off and forgotten. *)
SwitchOff(w) ==
    LET v == ctx[w].found IN
    /\ pc[w] = "switch"
    /\ versions' = [i \in DOMAIN versions |->
           IF versions[i].dataset = versions[v].dataset
           THEN [versions[i] EXCEPT !.active = (i = v) /\ ~@] ELSE versions[i]]
    /\ Finish(w)
    /\ UNCHANGED <<packages, golden, certificates>>

(* Both: one transaction that leaves this version of its data set on.      *)
Switch(w) ==
    LET v == ctx[w].found IN
    /\ pc[w] = "switch"
    /\ versions' = [i \in DOMAIN versions |->
           IF versions[i].dataset = versions[v].dataset
           THEN [versions[i] EXCEPT !.active = (i = v)] ELSE versions[i]]
    /\ Finish(w)
    /\ UNCHANGED <<packages, golden, certificates>>

InsertGolden(w) ==
    /\ pc[w] = "golden"
    /\ golden' = Append(golden, req[w].passed)
    /\ Finish(w)
    /\ UNCHANGED <<packages, versions, certificates>>

-----------------------------------------------------------------------------
(* create_release_certificate: three SELECTs, then the INSERT.             *)

ActiveVersions == {i \in DOMAIN versions : versions[i].active}
DatasetsOf(vs) == {versions[i].dataset : i \in vs}
PackagesPass == \A i \in DOMAIN packages : packages[i].valid
GoldenPass == golden # <<>> /\ \A i \in DOMAIN golden : golden[i]

(* Nothing speaks against a certificate.                                   *)
Unopposed ==
    /\ Required \subseteq DatasetsOf(ActiveVersions)
    /\ PackagesPass
    /\ \A i \in DOMAIN golden : golden[i]

ReadActive(w) ==
    /\ pc[w] = "certify"
    /\ Goto(w, "read_packages")
    /\ ctx' = [ctx EXCEPT ![w].active = ActiveVersions, ![w].held = Unopposed]
    /\ UNCHANGED tables

ReadPackages(w) ==
    /\ pc[w] = "read_packages"
    /\ Goto(w, "read_golden")
    /\ ctx' = [ctx EXCEPT ![w].passed = PackagesPass, ![w].held = @ \/ Unopposed]
    /\ UNCHANGED tables

(* Mutant of ReadGolden: a certificate does not look at the packages.      *)
ReadGoldenOnly(w) ==
    /\ pc[w] = "read_golden"
    /\ Goto(w, "insert_certificate")
    /\ ctx' = [ctx EXCEPT ![w].passed = GoldenPass, ![w].held = @ \/ Unopposed]
    /\ UNCHANGED tables

ReadGolden(w) ==
    /\ pc[w] = "read_golden"
    /\ Goto(w, "insert_certificate")
    /\ ctx' = [ctx EXCEPT ![w].passed = @ /\ GoldenPass, ![w].held = @ \/ Unopposed]
    /\ UNCHANGED tables

InsertCertificate(w) ==
    /\ pc[w] = "insert_certificate"
    /\ certificates' = Append(certificates,
           [ready |-> Required \subseteq DatasetsOf(ctx[w].active) /\ ctx[w].passed,
            versions |-> ctx[w].active, held |-> ctx[w].held])
    /\ Finish(w)
    /\ UNCHANGED <<packages, versions, golden>>

Step(w) ==
    \/ FindContent(w) \/ InsertPackage(w)
    \/ ReadPackage(w) \/ SetStatus(w)
    \/ ReadVersion(w) \/ CheckPackage(w) \/ FindPrevious(w) \/ Switch(w)
    \/ InsertGolden(w)
    \/ ReadActive(w) \/ ReadPackages(w) \/ ReadGolden(w) \/ InsertCertificate(w)

Next == \E w \in Workers : (\E r \in Requests : Receive(w, r)) \/ Step(w)

Spec == Init /\ [][Next]_vars

-----------------------------------------------------------------------------

TypeOK ==
    /\ \A i \in DOMAIN packages :
          packages[i].status \in {"draft", "review", "approved", "rejected"}
    /\ \A i \in DOMAIN versions :
          versions[i].package \in DOMAIN packages /\ versions[i].active \in BOOLEAN
    /\ \A i \in DOMAIN golden : golden[i] \in BOOLEAN
    /\ req \in [Workers -> Requests \cup {NoRequest}]

(* A data set has at most one active version ("Tek aktif surum"), and its  *)
(* versions are numbered in the order they were made, none twice.          *)
OneActiveVersion ==
    \A i, j \in DOMAIN versions :
        versions[i].dataset = versions[j].dataset =>
            /\ versions[i].active /\ versions[j].active => i = j
            /\ i < j => versions[i].number < versions[j].number

(* Whatever can be activated or rolled back to was made from a package of  *)
(* confidence 4 for that data set.                                         *)
VersionsAreConfident ==
    \A i \in DOMAIN versions :
        LET p == packages[versions[i].package]
        IN  p.confidence = 4 /\ p.dataset = versions[i].dataset

(* A certificate says "ready" only if there was one moment, while it was   *)
(* being written, when nothing spoke against it: every data set active, no *)
(* package and no golden case that fails.  The reads are three             *)
(* transactions and others change the tables in between.                   *)
ReadyHeldOnce == \A i \in DOMAIN certificates : certificates[i].ready => certificates[i].held

=============================================================================
