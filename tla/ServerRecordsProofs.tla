-------------------------- MODULE ServerRecordsProofs --------------------------
(***************************************************************************)
(* Any number of threads, any requests: the tables of data versions and of *)
(* calculations keep what reviewers and releases rely on.  The two parts   *)
(* are proved one after the other; calculations use of the data versions   *)
(* only that a data set never loses its active version.                    *)
(***************************************************************************)
EXTENDS ServerRecords, Positions, WellFoundedInduction, FiniteSetTheorems, TLAPS

-----------------------------------------------------------------------------
(* Positions are well-founded.                                             *)
NatOrder == {p \in Nat \X Nat : p[1] < p[2]}

LEMMA NatOrderWellFounded == IsWellFoundedOn(NatOrder, Nat)
BY NatLessThanWellFounded DEF OpToRel, NatOrder

(* A non-empty set of positions has a last one, and LastOf is it. *)
LEMMA LastOfIsLast ==
    ASSUME NEW n \in Nat, NEW idx \in SUBSET (1..n), idx # {}
    PROVE  LastOf(idx) \in idx /\ \A j \in idx : j <= LastOf(idx)
<1> DEFINE T == {n - i : i \in idx}
<1>1. \A i \in idx : n - i \in Nat /\ n - i \in T
  OBVIOUS
<1>2. T \subseteq Nat /\ T # {}
  BY <1>1
<1>3. PICK x \in T : \A y \in T : <<y, x>> \notin NatOrder
  <2> HIDE DEF T
  <2>1. QED
    BY <1>2, WFMin, NatOrderWellFounded
<1>4. PICK i \in idx : x = n - i
  OBVIOUS
<1>5. ASSUME NEW j \in idx PROVE j <= i
  <2>1. ~ (n - j < n - i)
    BY <1>1, <1>3, <1>4 DEF NatOrder
  <2>2. QED
    BY <2>1
<1>6. QED
  BY <1>5 DEF LastOf

-----------------------------------------------------------------------------
(* The rows and the threads of the data versions.                          *)

Uploads == {r \in DataRequests : r.op = "upload"}
Datasets == {r.dataset : r \in Uploads}

PackageRow ==
    [dataset : Datasets, content : {r.content : r \in Uploads}, confidence : 1..4,
     valid : BOOLEAN, status : {"draft", "review", "approved", "rejected"}]
VersionRow == [dataset : Datasets, number : Nat, package : Nat, active : BOOLEAN]
CertificateRow == [ready : BOOLEAN, versions : SUBSET Nat, held : BOOLEAN]

DataContext == [found : Nat, active : SUBSET Nat, passed : BOOLEAN, held : BOOLEAN]

DataSteps ==
    {"idle", "upload", "insert_package", "review", "set_status", "activate",
     "check_package", "rollback", "switch", "golden",
     "certify", "read_packages", "read_golden", "insert_certificate"}

DataRows ==
    /\ packages \in Seq(PackageRow)
    /\ versions \in Seq(VersionRow)
    /\ golden \in Seq(BOOLEAN)
    /\ certificates \in Seq(CertificateRow)

DataControl ==
    /\ dataPc \in [DataWorkers -> DataSteps]
    /\ dataReq \in [DataWorkers -> DataRequests \cup {NoRequest}]
    /\ dataCtx \in [DataWorkers -> DataContext]

(* A version's number is at most the count of its data set's versions, so  *)
(* that the next number is always free.                                    *)
NumbersCount ==
    \A i \in DOMAIN versions :
        versions[i].number <= Cardinality(Data!VersionsOf(versions[i].dataset))

VersionsHavePackages ==
    \A i \in DOMAIN versions : versions[i].package \in DOMAIN packages

DataTables ==
    /\ DataRows
    /\ NumbersCount
    /\ VersionsHavePackages
    /\ Data!OneActiveVersion
    /\ Data!VersionsAreConfident
    /\ Data!ReadyHeldOnce

(* What the reads of a request found and what will still be so when it     *)
(* writes: rows stay, and so do data set, confidence and package of a row. *)
Found(w) ==
    LET r == dataReq[w] IN
    /\ dataPc[w] # "idle" => r \in DataRequests
    /\ dataPc[w] \in {"upload", "insert_package"} => r.op = "upload"
    /\ dataPc[w] \in {"review", "set_status"} => r.op = "review"
    /\ dataPc[w] = "golden" => r.op = "golden"
    /\ dataPc[w] = "set_status" =>
           /\ r.package \in DOMAIN packages
           /\ r.status = "approved" => packages[r.package].confidence = 4
    /\ dataPc[w] \in {"check_package", "switch"} => dataCtx[w].found \in DOMAIN versions

GoldenClean == \A i \in DOMAIN golden : golden[i]
Backed(w) == Required \subseteq Data!DatasetsOf(dataCtx[w].active)

(* What a certificate has read so far, together with what it has yet to    *)
(* read, held at one moment: a table that passes now passed all the time,  *)
(* because what fails is never taken back.                                 *)
Certifies(w) ==
    LET c == dataCtx[w] IN
    /\ dataPc[w] \in {"read_packages", "read_golden", "insert_certificate"} =>
           c.active \subseteq DOMAIN versions
    /\ dataPc[w] = "read_packages" =>
           (Backed(w) /\ Data!PackagesPass /\ GoldenClean => c.held)
    /\ dataPc[w] = "read_golden" => (Backed(w) /\ c.passed /\ GoldenClean => c.held)
    /\ dataPc[w] = "insert_certificate" => (Backed(w) /\ c.passed => c.held)

DataInv ==
    /\ DataTables
    /\ DataControl
    /\ \A w \in DataWorkers : Found(w) /\ Certifies(w)

-----------------------------------------------------------------------------
(* What no step takes back.                                                *)

DataGrows ==
    /\ \A i \in DOMAIN packages :
          /\ i \in DOMAIN packages'
          /\ packages'[i].dataset = packages[i].dataset
          /\ packages'[i].confidence = packages[i].confidence
          /\ packages'[i].valid = packages[i].valid
    /\ \A i \in DOMAIN versions :
          /\ i \in DOMAIN versions'
          /\ versions'[i].dataset = versions[i].dataset
          /\ versions'[i].package = versions[i].package
    /\ \A i \in DOMAIN golden : i \in DOMAIN golden' /\ golden'[i] = golden[i]
    /\ Data!DatasetsOf(Data!ActiveVersions) \subseteq Data!DatasetsOf(Data!ActiveVersions)'

(* A step that changes no table takes nothing back.                        *)
LEMMA SameDataTables ==
    ASSUME DataTables, UNCHANGED <<packages, versions, golden, certificates>>
    PROVE  DataTables' /\ DataGrows
<1>1. DataGrows
    BY DEF DataGrows, Data!DatasetsOf, Data!ActiveVersions
<1>2. DataRows' /\ NumbersCount' /\ VersionsHavePackages'
    BY DEF DataTables, DataRows, NumbersCount, VersionsHavePackages, Data!VersionsOf
<1>3. Data!OneActiveVersion' /\ Data!VersionsAreConfident' /\ Data!ReadyHeldOnce'
    BY DEF DataTables, Data!OneActiveVersion, Data!VersionsAreConfident, Data!ReadyHeldOnce
<1>4. QED
    BY <1>1, <1>2, <1>3 DEF DataTables

(* So what a request found goes on being so while others change the tables.*)
LEMMA OtherDataRequests ==
    ASSUME DataInv, DataGrows, NEW v \in DataWorkers,
           dataPc'[v] = dataPc[v], dataReq'[v] = dataReq[v], dataCtx'[v] = dataCtx[v]
    PROVE  Found(v)' /\ Certifies(v)'
<1>1. Found(v) /\ Certifies(v)
    BY DEF DataInv
<1>2. Found(v)'
    BY <1>1 DEF Found, DataGrows
<1>3. Data!PackagesPass' => Data!PackagesPass
    BY DEF Data!PackagesPass, DataGrows
<1>4. GoldenClean' => GoldenClean
    BY DEF GoldenClean, DataGrows
<1>5. ASSUME dataCtx[v].active \subseteq DOMAIN versions
      PROVE  Backed(v)' => Backed(v)
    BY <1>5 DEF Backed, Data!DatasetsOf, DataGrows
<1>6. Certifies(v)'
    BY <1>1, <1>3, <1>4, <1>5 DEF Certifies, DataGrows
<1>7. QED
    BY <1>2, <1>6

(* What is left to show of one request's step.                             *)
LEMMA DataStepKeeps ==
    ASSUME DataInv, NEW w \in DataWorkers, DataTables', DataGrows, DataControl',
           \A v \in DataWorkers \ {w} :
               dataPc'[v] = dataPc[v] /\ dataReq'[v] = dataReq[v] /\ dataCtx'[v] = dataCtx[v],
           Found(w)', Certifies(w)'
    PROVE  DataInv'
<1>1. ASSUME NEW v \in DataWorkers PROVE Found(v)' /\ Certifies(v)'
  <2>1. CASE v = w
      BY <2>1
  <2>2. CASE v # w
      BY <2>2, OtherDataRequests
  <2>3. QED
      BY <2>1, <2>2
<1>2. QED
    BY <1>1 DEF DataInv

(* The last step of a request leaves no claim of it to keep.               *)
LEMMA DataFinishKeeps ==
    ASSUME DataInv, NEW w \in DataWorkers, Data!Finish(w), DataTables', DataGrows
    PROVE  DataInv'
<1>1. DataControl
    BY DEF DataInv
<1>2. Data!NoContext \in DataContext /\ "idle" \in DataSteps
    BY DEF Data!NoContext, DataContext, DataSteps
<1>3. DataControl'
    BY <1>1, <1>2 DEF DataControl, Data!Finish
<1>4. dataPc'[w] = "idle"
    BY <1>1 DEF DataControl, Data!Finish
<1>5. Found(w)' /\ Certifies(w)'
    BY <1>4 DEF Found, Certifies
<1>6. \A v \in DataWorkers \ {w} :
          dataPc'[v] = dataPc[v] /\ dataReq'[v] = dataReq[v] /\ dataCtx'[v] = dataCtx[v]
    BY <1>1 DEF DataControl, Data!Finish
<1>7. QED
    BY <1>3, <1>5, <1>6, DataStepKeeps

(* Nor does one that is refused.                                           *)
LEMMA DataRefuseKeeps ==
    ASSUME DataInv, NEW w \in DataWorkers, Data!Refuse(w)
    PROVE  DataInv' /\ DataGrows
<1>1. Data!Finish(w) /\ UNCHANGED <<packages, versions, golden, certificates>>
    BY DEF Data!Refuse, Data!tables
<1>2. DataTables' /\ DataGrows
    BY <1>1, SameDataTables DEF DataInv
<1>3. QED
    BY <1>1, <1>2, DataFinishKeeps

(* A read that lets a request go on: its step and what it remembers.       *)
LEMMA DataReadKeeps ==
    ASSUME DataInv, NEW w \in DataWorkers, NEW step \in DataSteps, Data!Goto(w, step),
           UNCHANGED <<packages, versions, golden, certificates>>,
           dataCtx'[w] \in DataContext, dataCtx' = [dataCtx EXCEPT ![w] = dataCtx'[w]],
           Found(w)', Certifies(w)'
    PROVE  DataInv' /\ DataGrows
<1>1. DataControl
    BY DEF DataInv
<1>2. DataTables' /\ DataGrows
    BY SameDataTables DEF DataInv
<1>3. DataControl'
  <2>1. dataPc' = [dataPc EXCEPT ![w] = step] /\ UNCHANGED dataReq
      BY DEF Data!Goto
  <2>2. dataPc' \in [DataWorkers -> DataSteps]
      BY <1>1, <2>1 DEF DataControl
  <2>3. dataCtx' \in [DataWorkers -> DataContext]
      BY <1>1 DEF DataControl
  <2>4. QED
      BY <1>1, <2>1, <2>2, <2>3 DEF DataControl
<1>4. \A v \in DataWorkers \ {w} :
          dataPc'[v] = dataPc[v] /\ dataReq'[v] = dataReq[v] /\ dataCtx'[v] = dataCtx[v]
    BY <1>1 DEF DataControl, Data!Goto
<1>5. QED
    BY <1>2, <1>3, <1>4, DataStepKeeps

-----------------------------------------------------------------------------
(* The requests, step by step.                                             *)

(* A request that starts claims nothing yet.                               *)
LEMMA DataReceiveKeeps ==
    ASSUME DataInv, NEW w \in DataWorkers, NEW r \in DataRequests, Data!Receive(w, r)
    PROVE  DataInv' /\ DataGrows
<1>1. DataControl
    BY DEF DataInv
<1>2. /\ dataPc' = [dataPc EXCEPT ![w] = r.op]
      /\ dataReq' = [dataReq EXCEPT ![w] = r]
      /\ UNCHANGED <<dataCtx, packages, versions, golden, certificates>>
    BY DEF Data!Receive, Data!tables
<1>3. r.op \in {"upload", "review", "activate", "rollback", "golden", "certify"}
    BY DataRequestsAssumption
<1>4. DataTables' /\ DataGrows
    BY <1>2, SameDataTables DEF DataInv
<1>5. DataControl'
    BY <1>1, <1>2, <1>3 DEF DataControl, DataSteps
<1>6. Found(w)' /\ Certifies(w)'
  <2>1. dataPc'[w] = r.op /\ dataReq'[w] = r
      BY <1>1, <1>2 DEF DataControl
  <2>2. QED
      BY <1>3, <2>1 DEF Found, Certifies
<1>7. \A v \in DataWorkers \ {w} :
          dataPc'[v] = dataPc[v] /\ dataReq'[v] = dataReq[v] /\ dataCtx'[v] = dataCtx[v]
    BY <1>1, <1>2 DEF DataControl
<1>8. QED
    BY <1>4, <1>5, <1>6, <1>7, DataStepKeeps

(* The reads of the requests on packages and versions.                     *)
LEMMA DataReadingKeeps ==
    ASSUME DataInv, NEW w \in DataWorkers,
           \/ Data!FindContent(w) \/ Data!ReadPackage(w) \/ Data!ReadVersion(w)
           \/ Data!CheckPackage(w) \/ Data!FindPrevious(w)
    PROVE  DataInv' /\ DataGrows
<1>1. CASE Data!Refuse(w)
    BY <1>1, DataRefuseKeeps
<1>2. /\ DataControl /\ Found(w) /\ DataRows
      /\ {"insert_package", "set_status", "check_package", "switch"} \subseteq DataSteps
    BY DEF DataInv, DataTables, DataSteps
<1>3. CASE /\ \/ /\ dataPc[w] = "upload" /\ Data!Goto(w, "insert_package")
                \/ /\ dataPc[w] = "check_package" /\ Data!Goto(w, "switch")
           /\ UNCHANGED <<dataCtx, packages, versions, golden, certificates>>
  <2>1. dataPc'[w] \in {"insert_package", "switch"} /\ UNCHANGED dataReq
      BY <1>2, <1>3 DEF Data!Goto, DataControl
  <2>2. Found(w)' /\ Certifies(w)'
      BY <1>2, <1>3, <2>1 DEF Found, Certifies, Data!Goto, DataControl
  <2>3. dataCtx'[w] \in DataContext /\ dataCtx' = [dataCtx EXCEPT ![w] = dataCtx'[w]]
      BY <1>2, <1>3 DEF DataControl
  <2>4. QED
      BY <1>2, <1>3, <2>2, <2>3, DataReadKeeps
<1>4. CASE /\ dataPc[w] = "review" /\ Data!Goto(w, "set_status")
           /\ dataReq[w].package \in DOMAIN packages
           /\ dataReq[w].status = "approved" => packages[dataReq[w].package].confidence >= 4
           /\ UNCHANGED <<dataCtx, packages, versions, golden, certificates>>
  <2>1. dataPc'[w] = "set_status" /\ UNCHANGED dataReq
      BY <1>2, <1>4 DEF Data!Goto, DataControl
  <2>2. packages[dataReq[w].package] \in PackageRow
      BY <1>2, <1>4 DEF DataRows
  <2>3. packages[dataReq[w].package].confidence \in 1..4
      BY <2>2 DEF PackageRow
  <2>4. Found(w)' /\ Certifies(w)'
      BY <1>2, <1>4, <2>1, <2>3 DEF Found, Certifies
  <2>5. dataCtx'[w] \in DataContext /\ dataCtx' = [dataCtx EXCEPT ![w] = dataCtx'[w]]
      BY <1>2, <1>4 DEF DataControl
  <2>6. QED
      BY <1>2, <1>4, <2>4, <2>5, DataReadKeeps
<1>5. ASSUME NEW step \in {"check_package", "switch"}, Data!Goto(w, step),
             NEW v \in DOMAIN versions, dataPc[w] \in {"activate", "rollback"},
             dataCtx' = [dataCtx EXCEPT ![w].found = v],
             UNCHANGED <<packages, versions, golden, certificates>>
      PROVE  DataInv' /\ DataGrows
  <2>1. dataPc'[w] = step /\ UNCHANGED dataReq
      BY <1>2, <1>5 DEF Data!Goto, DataControl
  <2>2. v \in Nat /\ dataCtx[w] \in DataContext
      BY <1>2, <1>5 DEF DataRows, DataControl
  <2>3. dataCtx'[w] \in DataContext /\ dataCtx'[w].found = v
      BY <1>2, <1>5, <2>2 DEF DataControl, DataContext
  <2>4. dataCtx' = [dataCtx EXCEPT ![w] = dataCtx'[w]]
      BY <1>2, <1>5 DEF DataControl
  <2>5. Found(w)' /\ Certifies(w)'
      BY <1>2, <1>5, <2>1, <2>3 DEF Found, Certifies
  <2>6. QED
      BY <1>2, <1>5, <2>3, <2>4, <2>5, DataReadKeeps
<1>6. QED
  <2>1. CASE Data!FindContent(w)
      BY <1>1, <1>3, <2>1 DEF Data!FindContent, Data!tables
  <2>2. CASE Data!ReadPackage(w)
    <3>1. \A i \in DOMAIN packages : packages[i] \in PackageRow
      BY <1>2 DEF DataRows
    <3>2. \A i \in DOMAIN packages : packages[i].confidence \in 1..4
      BY <3>1 DEF PackageRow
    <3>3. QED
      BY <1>1, <1>4, <2>2, <3>2 DEF Data!ReadPackage, Data!tables
  <2>3. CASE Data!ReadVersion(w)
      BY <1>1, <1>5, <2>3 DEF Data!ReadVersion, Data!tables
  <2>4. CASE Data!CheckPackage(w)
      BY <1>1, <1>3, <2>4 DEF Data!CheckPackage, Data!tables
  <2>5. CASE Data!FindPrevious(w)
    <3> DEFINE v == dataReq[w].version
               older == {i \in DOMAIN versions :
                            /\ v \in DOMAIN versions
                            /\ i < v
                            /\ versions[i].dataset = versions[v].dataset
                            /\ packages[versions[i].package].confidence = 4}
    <3>1. CASE older = {}
      BY <1>1, <2>5, <3>1 DEF Data!FindPrevious
    <3>2. CASE older # {}
      <4>1. Len(versions) \in Nat /\ older \in SUBSET (1 .. Len(versions))
        BY <1>2 DEF DataRows
      <4>2. PICK k : k = LastOf(older)
        OBVIOUS
      <4>3. /\ dataPc[w] = "rollback" /\ Data!Goto(w, "switch")
            /\ dataCtx' = [dataCtx EXCEPT ![w].found = k]
            /\ UNCHANGED <<packages, versions, golden, certificates>>
        BY <2>5, <3>2, <4>2 DEF Data!FindPrevious, Data!tables, LastOf
      <4> HIDE DEF older
      <4>4. k \in older
        BY <3>2, <4>1, <4>2, LastOfIsLast
      <4>5. k \in DOMAIN versions
        BY <4>4 DEF older
      <4>6. QED
        BY <1>5, <4>3, <4>5
    <3>3. QED
      BY <3>1, <3>2
  <2>6. QED
      BY <2>1, <2>2, <2>3, <2>4, <2>5

(* A package is a row more, and its confidence one of those sent.          *)
LEMMA InsertPackageKeeps ==
    ASSUME DataInv, NEW w \in DataWorkers, Data!InsertPackage(w)
    PROVE  DataInv' /\ DataGrows
<1> DEFINE r == dataReq[w]
           row == [dataset |-> r.dataset, content |-> r.content, confidence |-> r.confidence,
                   valid |-> r.valid, status |-> "draft"]
<1>1. /\ dataPc[w] = "insert_package" /\ packages' = Append(packages, row)
      /\ Data!Finish(w) /\ UNCHANGED <<versions, golden, certificates>>
    BY DEF Data!InsertPackage
<1>2. DataTables /\ Found(w) /\ DataRows
    BY DEF DataInv, DataTables
<1>3. row \in PackageRow
  <2>1. r \in Uploads /\ r.confidence \in 1..4 /\ r.valid \in BOOLEAN
      BY <1>1, <1>2, DataRequestsAssumption DEF Found, Uploads
  <2>2. QED
      BY <2>1 DEF PackageRow, Datasets
<1> HIDE DEF row
<1>4. /\ packages' \in Seq(PackageRow)
      /\ \A i \in DOMAIN packages : i \in DOMAIN packages' /\ packages'[i] = packages[i]
    BY <1>1, <1>2, <1>3 DEF DataRows
<1>5. DataGrows
    BY <1>1, <1>4 DEF DataGrows, Data!DatasetsOf, Data!ActiveVersions
<1>6. DataRows' /\ NumbersCount' /\ VersionsHavePackages'
    BY <1>1, <1>2, <1>4
    DEF DataTables, DataRows, NumbersCount, VersionsHavePackages, Data!VersionsOf
<1>7. Data!OneActiveVersion' /\ Data!VersionsAreConfident' /\ Data!ReadyHeldOnce'
    BY <1>1, <1>2, <1>4
    DEF DataTables, VersionsHavePackages, Data!OneActiveVersion, Data!VersionsAreConfident,
        Data!ReadyHeldOnce
<1>8. QED
    BY <1>1, <1>5, <1>6, <1>7, DataFinishKeeps DEF DataTables

(* A golden case is a row more.                                            *)
LEMMA InsertGoldenKeeps ==
    ASSUME DataInv, NEW w \in DataWorkers, Data!InsertGolden(w)
    PROVE  DataInv' /\ DataGrows
<1>1. /\ dataPc[w] = "golden" /\ golden' = Append(golden, dataReq[w].passed)
      /\ Data!Finish(w) /\ UNCHANGED <<packages, versions, certificates>>
    BY DEF Data!InsertGolden
<1>2. DataTables /\ Found(w) /\ DataRows
    BY DEF DataInv, DataTables
<1>3. dataReq[w].passed \in BOOLEAN
    BY <1>1, <1>2, DataRequestsAssumption DEF Found
<1>4. /\ golden' \in Seq(BOOLEAN)
      /\ \A i \in DOMAIN golden : i \in DOMAIN golden' /\ golden'[i] = golden[i]
    BY <1>1, <1>2, <1>3 DEF DataRows
<1>5. DataGrows
    BY <1>1, <1>4 DEF DataGrows, Data!DatasetsOf, Data!ActiveVersions
<1>6. DataTables'
    BY <1>1, <1>2, <1>4
    DEF DataTables, DataRows, NumbersCount, VersionsHavePackages, Data!VersionsOf,
        Data!OneActiveVersion, Data!VersionsAreConfident, Data!ReadyHeldOnce
<1>7. QED
    BY <1>1, <1>5, <1>6, DataFinishKeeps

(* One version is switched on and all others of its data set are off; so   *)
(* the data set has one before and after.                                  *)
LEMMA SwitchKeeps ==
    ASSUME DataInv, NEW w \in DataWorkers, Data!Switch(w)
    PROVE  DataInv' /\ DataGrows
<1> DEFINE v == dataCtx[w].found
           Mine(i) == versions[i].dataset = versions[v].dataset
           new == [i \in DOMAIN versions |->
                      IF Mine(i) THEN [versions[i] EXCEPT !.active = (i = v)] ELSE versions[i]]
<1>1. /\ dataPc[w] = "switch" /\ versions' = new
      /\ Data!Finish(w) /\ UNCHANGED <<packages, golden, certificates>>
    BY DEF Data!Switch
<1>2. DataTables /\ Found(w) /\ DataRows
    BY DEF DataInv, DataTables
<1>3. v \in DOMAIN versions
    BY <1>1, <1>2 DEF Found
<1>4. \A i \in DOMAIN versions : versions[i] \in VersionRow
    BY <1>2 DEF DataRows
<1>5. \A i \in DOMAIN versions :
          /\ new[i] \in VersionRow
          /\ new[i].dataset = versions[i].dataset
          /\ new[i].number = versions[i].number
          /\ new[i].package = versions[i].package
          /\ new[i].active <=> IF Mine(i) THEN i = v ELSE versions[i].active
  <2>1. SUFFICES ASSUME NEW i \in DOMAIN versions
                 PROVE  /\ new[i] \in VersionRow
                        /\ new[i].dataset = versions[i].dataset
                        /\ new[i].number = versions[i].number
                        /\ new[i].package = versions[i].package
                        /\ new[i].active <=> IF Mine(i) THEN i = v ELSE versions[i].active
      OBVIOUS
  <2>2. CASE Mine(i)
    <3>1. new[i] = [versions[i] EXCEPT !.active = (i = v)]
      BY <2>2
    <3>2. versions[i] \in VersionRow
      BY <1>4
    <3> HIDE DEF new
    <3>3. QED
      BY <2>2, <3>1, <3>2 DEF VersionRow
  <2>3. CASE ~Mine(i)
    <3>1. new[i] = versions[i] /\ versions[i] \in VersionRow
      BY <1>4, <2>3
    <3> HIDE DEF new
    <3>2. QED
      BY <2>3, <3>1
  <2>4. QED
      BY <2>2, <2>3
<1>6. new \in Seq(VersionRow) /\ DOMAIN new = DOMAIN versions
  <2>1. \A i \in DOMAIN versions : new[i] \in VersionRow
      BY <1>5
  <2>2. DOMAIN versions = 1 .. Len(versions) /\ Len(versions) \in Nat
      BY <1>2 DEF DataRows
  <2>3. DOMAIN new = DOMAIN versions /\ new = [i \in 1 .. Len(versions) |-> new[i]]
      BY <2>2
  <2> HIDE DEF new
  <2>4. QED
      BY <2>1, <2>2, <2>3
<1> HIDE DEF new
<1>7. Data!DatasetsOf(Data!ActiveVersions) \subseteq Data!DatasetsOf(Data!ActiveVersions)'
  <2>1. SUFFICES ASSUME NEW i \in DOMAIN versions, versions[i].active
                 PROVE  \E j \in DOMAIN versions' :
                            versions'[j].active /\ versions'[j].dataset = versions[i].dataset
      BY DEF Data!DatasetsOf, Data!ActiveVersions
  <2>2. CASE Mine(i)
      BY <1>1, <1>3, <1>5, <1>6, <2>2
  <2>3. CASE ~Mine(i)
      BY <1>1, <1>5, <1>6, <2>1, <2>3
  <2>4. QED
      BY <2>2, <2>3
<1>8. DataGrows
    BY <1>1, <1>5, <1>6, <1>7 DEF DataGrows
<1>9. DataRows'
    BY <1>1, <1>2, <1>6 DEF DataRows
<1>10. NumbersCount'
  <2>1. \A d : Data!VersionsOf(d)' = Data!VersionsOf(d)
      BY <1>1, <1>5, <1>6 DEF Data!VersionsOf
  <2>2. QED
      BY <1>1, <1>2, <1>5, <1>6, <2>1 DEF DataTables, NumbersCount
<1>11. Data!OneActiveVersion'
  <2>1. SUFFICES ASSUME NEW i \in DOMAIN versions, NEW j \in DOMAIN versions,
                        new[i].dataset = new[j].dataset
                 PROVE  /\ new[i].active /\ new[j].active => i = j
                        /\ i < j => new[i].number < new[j].number
      BY <1>1, <1>6 DEF Data!OneActiveVersion
  <2>2. versions[i].dataset = versions[j].dataset
      BY <1>5, <2>1
  <2>3. /\ versions[i].active /\ versions[j].active => i = j
        /\ i < j => versions[i].number < versions[j].number
      BY <1>2, <2>2 DEF DataTables, Data!OneActiveVersion
  <2>4. QED
      BY <1>5, <2>2, <2>3
<1>12. VersionsHavePackages' /\ Data!VersionsAreConfident' /\ Data!ReadyHeldOnce'
    BY <1>1, <1>2, <1>5, <1>6
    DEF DataTables, VersionsHavePackages, Data!VersionsAreConfident, Data!ReadyHeldOnce
<1>13. QED
    BY <1>1, <1>8, <1>9, <1>10, <1>11, <1>12, DataFinishKeeps DEF DataTables

(* The part's own copy of Cardinality is the same operator.                *)
LEMMA DataCardinality == \A S : Data!Cardinality(S) = Cardinality(S)
BY DEF Data!Cardinality, Cardinality

(* The versions of a data set are finitely many rows of the table.         *)
LEMMA VersionsOfFinite ==
    ASSUME DataRows, NEW d
    PROVE  /\ IsFiniteSet(Data!VersionsOf(d))
           /\ Cardinality(Data!VersionsOf(d)) \in Nat
           /\ (Len(versions) + 1) \notin Data!VersionsOf(d)
<1> DEFINE V == Data!VersionsOf(d)
<1>1. Len(versions) \in Nat /\ V \in SUBSET (1 .. Len(versions))
    BY DEF DataRows, Data!VersionsOf
<1>2. IsFiniteSet(1 .. Len(versions))
    BY <1>1, FS_Interval
<1> HIDE DEF V
<1>3. IsFiniteSet(V)
    BY <1>1, <1>2, FS_Subset
<1>4. Cardinality(V) \in Nat
    BY <1>3, FS_CardinalityType
<1>5. (Len(versions) + 1) \notin V
    BY <1>1
<1>6. QED
    BY <1>3, <1>4, <1>5 DEF V

(* A new version takes the next number of its data set, and is off.        *)
LEMMA NewVersionKeeps ==
    ASSUME DataTables, NEW i \in DOMAIN packages, packages[i].confidence = 4,
           versions' = Append(versions,
               [dataset |-> packages[i].dataset,
                number |-> 1 + Cardinality(Data!VersionsOf(packages[i].dataset)),
                package |-> i, active |-> FALSE])
    PROVE  /\ versions' \in Seq(VersionRow)
           /\ NumbersCount'
           /\ Data!OneActiveVersion'
           /\ \A j \in DOMAIN versions : j \in DOMAIN versions' /\ versions'[j] = versions[j]
           /\ \A j \in DOMAIN versions' \ DOMAIN versions :
                 versions'[j].package = i /\ versions'[j].dataset = packages[i].dataset
           /\ Data!ActiveVersions' = Data!ActiveVersions
<1> DEFINE d == packages[i].dataset
           n == Cardinality(Data!VersionsOf(d))
           row == [dataset |-> d, number |-> 1 + n, package |-> i, active |-> FALSE]
<1>1. DataRows /\ n \in Nat
    BY VersionsOfFinite DEF DataTables
<1>2. row \in VersionRow
  <2>1. packages[i] \in PackageRow /\ i \in Nat
      BY <1>1 DEF DataRows
  <2>2. d \in Datasets
      BY <2>1 DEF PackageRow
  <2> HIDE DEF d
  <2>3. QED
      BY <1>1, <2>1, <2>2 DEF VersionRow
<1>3. row.dataset = d /\ row.number = 1 + n /\ row.package = i /\ row.active = FALSE
    OBVIOUS
<1>4. versions' = Append(versions, row)
    OBVIOUS
<1> HIDE DEF row, n, d
<1>5. /\ versions' \in Seq(VersionRow)
      /\ DOMAIN versions' = DOMAIN versions \cup {Len(versions) + 1}
      /\ Len(versions) \in Nat /\ DOMAIN versions = 1 .. Len(versions)
      /\ versions'[Len(versions) + 1] = row
      /\ \A j \in DOMAIN versions : j \in DOMAIN versions' /\ versions'[j] = versions[j]
    BY <1>1, <1>2, <1>4 DEF DataRows
<1> DEFINE V(e) == {k \in DOMAIN versions' : versions'[k].dataset = e}
<1>6. \A e : Data!VersionsOf(e)' = V(e)
    BY DEF Data!VersionsOf
<1>7. \A e : IsFiniteSet(Data!VersionsOf(e)) /\ Cardinality(Data!VersionsOf(e)) \in Nat
    BY <1>1, VersionsOfFinite
<1>8. V(d) = Data!VersionsOf(d) \cup {Len(versions) + 1} /\ Cardinality(V(d)) = n + 1
  <2>1. V(d) = Data!VersionsOf(d) \cup {Len(versions) + 1}
      BY <1>3, <1>5 DEF Data!VersionsOf
  <2>2. (Len(versions) + 1) \notin Data!VersionsOf(d)
      BY <1>5 DEF Data!VersionsOf
  <2> HIDE DEF V
  <2>3. QED
      BY <1>7, <2>1, <2>2, FS_AddElement DEF n, d
<1>9. \A e : e # d => V(e) = Data!VersionsOf(e)
    BY <1>3, <1>5 DEF Data!VersionsOf
<1>10. ASSUME NEW j \in DOMAIN versions
       PROVE  /\ versions[j].number \in Nat
              /\ versions[j].number <= Cardinality(Data!VersionsOf(versions[j].dataset))
  <2>1. versions[j] \in VersionRow
      BY <1>1 DEF DataRows
  <2>2. QED
      BY <2>1 DEF VersionRow, DataTables, NumbersCount
<1>11. NumbersCount'
  <2>1. SUFFICES ASSUME NEW j \in DOMAIN versions', NEW e, e = versions'[j].dataset
                 PROVE  versions'[j].number <= Cardinality(V(e))
      BY <1>6 DEF NumbersCount
  <2>2. CASE j = Len(versions) + 1
    <3>1. versions'[j].number = 1 + n /\ e = d
      BY <1>3, <1>5, <2>1, <2>2
    <3>2. Cardinality(V(e)) = n + 1
      BY <1>8, <3>1
    <3> HIDE DEF V
    <3>3. QED
      BY <1>1, <3>1, <3>2
  <2>3. CASE j \in DOMAIN versions /\ e = d
    <3>1. versions[j].number <= n /\ versions[j].number \in Nat
      BY <1>5, <1>10, <2>1, <2>3 DEF n, d
    <3>2. Cardinality(V(e)) = n + 1 /\ versions'[j].number = versions[j].number
      BY <1>5, <1>8, <2>3
    <3> HIDE DEF V
    <3>3. QED
      BY <1>1, <3>1, <3>2
  <2>4. CASE j \in DOMAIN versions /\ e # d
    <3>1. versions'[j] = versions[j] /\ versions[j].dataset = e
      BY <1>5, <2>1, <2>4
    <3>2. V(e) = Data!VersionsOf(e)
      BY <1>9, <2>4
    <3>3. versions[j].number <= Cardinality(Data!VersionsOf(e))
      BY <1>10, <2>4, <3>1
    <3>4. QED
      BY <3>1, <3>2, <3>3
  <2>5. QED
      BY <1>5, <2>1, <2>2, <2>3, <2>4
<1>12. Data!OneActiveVersion'
  <2>1. SUFFICES ASSUME NEW j \in DOMAIN versions', NEW k \in DOMAIN versions',
                        versions'[j].dataset = versions'[k].dataset
                 PROVE  /\ versions'[j].active /\ versions'[k].active => j = k
                        /\ j < k => versions'[j].number < versions'[k].number
      BY DEF Data!OneActiveVersion
  <2>2. CASE j \in DOMAIN versions /\ k \in DOMAIN versions
      BY <1>5, <2>1, <2>2 DEF DataTables, Data!OneActiveVersion
  <2>3. CASE j \in DOMAIN versions /\ k = Len(versions) + 1
    <3>1. versions[j].number <= n /\ versions[j].number \in Nat
      BY <1>3, <1>5, <1>10, <2>1, <2>3 DEF n, d
    <3>2. QED
      BY <1>1, <1>3, <1>5, <2>3, <3>1
  <2>4. CASE j = Len(versions) + 1
      BY <1>3, <1>5, <2>4
  <2>5. QED
      BY <1>5, <2>2, <2>3, <2>4
<1>13. \A j \in DOMAIN versions' \ DOMAIN versions :
          versions'[j].package = i /\ versions'[j].dataset = d
    BY <1>3, <1>5
<1>14. Data!ActiveVersions' = Data!ActiveVersions
    BY <1>3, <1>5 DEF Data!ActiveVersions
<1>15. QED
    BY <1>5, <1>11, <1>12, <1>13, <1>14 DEF d

(* A status is of a package that is there, and may add a version.          *)
LEMMA SetStatusKeeps ==
    ASSUME DataInv, NEW w \in DataWorkers, Data!SetStatus(w)
    PROVE  DataInv' /\ DataGrows
<1> DEFINE r == dataReq[w]
           i == r.package
<1>1. /\ dataPc[w] = "set_status" /\ packages' = [packages EXCEPT ![i].status = r.status]
      /\ Data!Finish(w) /\ UNCHANGED <<golden, certificates>>
      /\ \/ versions' = versions
         \/ /\ r.status = "approved"
            /\ versions' = Append(versions,
                   [dataset |-> packages[i].dataset,
                    number |-> 1 + Cardinality(Data!VersionsOf(packages[i].dataset)),
                    package |-> i, active |-> FALSE])
  <2>1. /\ dataPc[w] = "set_status" /\ packages' = [packages EXCEPT ![i].status = r.status]
        /\ Data!Finish(w) /\ UNCHANGED <<golden, certificates>>
      BY DEF Data!SetStatus
  <2> DEFINE d == packages[i].dataset
             number == 1 + Cardinality(Data!VersionsOf(d))
             skip == \/ r.status # "approved"
                     \/ \E v \in Data!VersionsOf(d) : versions[v].number = number
             row == [dataset |-> d, number |-> number, package |-> i, active |-> FALSE]
  <2>2. versions' = IF skip THEN versions ELSE Append(versions, row)
      BY DataCardinality DEF Data!SetStatus
  <2>3. ~skip => r.status = "approved"
      OBVIOUS
  <2> HIDE DEF skip
  <2>4. QED
      BY <2>1, <2>2, <2>3
<1>2. DataTables /\ Found(w) /\ DataRows
    BY DEF DataInv, DataTables
<1>3. /\ i \in DOMAIN packages /\ r \in DataRequests
      /\ r.status \in {"draft", "review", "approved", "rejected"}
      /\ r.status = "approved" => packages[i].confidence = 4
    BY <1>1, <1>2, DataRequestsAssumption DEF Found
<1>4. /\ packages' \in Seq(PackageRow) /\ DOMAIN packages' = DOMAIN packages
      /\ \A j \in DOMAIN packages :
            /\ packages'[j].dataset = packages[j].dataset
            /\ packages'[j].confidence = packages[j].confidence
            /\ packages'[j].valid = packages[j].valid
  <2>1. \A j \in DOMAIN packages : packages[j] \in PackageRow
      BY <1>2 DEF DataRows
  <2>2. [packages[i] EXCEPT !.status = r.status] \in PackageRow
      BY <1>3, <2>1 DEF PackageRow
  <2>3. packages' = [packages EXCEPT ![i] = [packages[i] EXCEPT !.status = r.status]]
      BY <1>1
  <2>4. packages' \in Seq(PackageRow) /\ DOMAIN packages' = DOMAIN packages
      BY <1>2, <1>3, <2>2, <2>3 DEF DataRows
  <2>5. QED
      BY <1>3, <2>1, <2>3, <2>4 DEF PackageRow
<1>5. /\ versions' \in Seq(VersionRow) /\ NumbersCount' /\ Data!OneActiveVersion'
      /\ \A j \in DOMAIN versions : j \in DOMAIN versions' /\ versions'[j] = versions[j]
      /\ \A j \in DOMAIN versions' \ DOMAIN versions :
            /\ versions'[j].package = i /\ versions'[j].dataset = packages[i].dataset
            /\ packages[i].confidence = 4
      /\ Data!ActiveVersions' = Data!ActiveVersions
  <2>1. CASE versions' = versions
      BY <1>2, <2>1
      DEF DataTables, DataRows, NumbersCount, Data!OneActiveVersion, Data!VersionsOf,
          Data!ActiveVersions
  <2>2. CASE versions' # versions
      BY <1>1, <1>2, <1>3, <2>2, NewVersionKeeps
  <2>3. QED
      BY <2>1, <2>2
<1>6. DataGrows
    BY <1>1, <1>4, <1>5 DEF DataGrows, Data!DatasetsOf, Data!ActiveVersions
<1>7. VersionsHavePackages' /\ Data!VersionsAreConfident'
  <2>1. SUFFICES ASSUME NEW j \in DOMAIN versions'
                 PROVE  /\ versions'[j].package \in DOMAIN packages
                        /\ packages[versions'[j].package].confidence = 4
                        /\ packages[versions'[j].package].dataset = versions'[j].dataset
      BY <1>4 DEF VersionsHavePackages, Data!VersionsAreConfident
  <2>2. CASE j \in DOMAIN versions
      BY <1>2, <1>5, <2>2 DEF DataTables, VersionsHavePackages, Data!VersionsAreConfident
  <2>3. CASE j \notin DOMAIN versions
      BY <1>3, <1>5, <2>3
  <2>4. QED
      BY <2>2, <2>3
<1>8. DataRows' /\ Data!ReadyHeldOnce'
    BY <1>1, <1>2, <1>4, <1>5 DEF DataRows, DataTables, Data!ReadyHeldOnce
<1>9. QED
    BY <1>1, <1>5, <1>6, <1>7, <1>8, DataFinishKeeps DEF DataTables

(* The three reads of a certificate.                                       *)
LEMMA CertificateReadKeeps ==
    ASSUME DataInv, NEW w \in DataWorkers,
           Data!ReadActive(w) \/ Data!ReadPackages(w) \/ Data!ReadGolden(w)
    PROVE  DataInv' /\ DataGrows
<1>1. /\ DataControl /\ Found(w) /\ Certifies(w) /\ DataRows
      /\ {"read_packages", "read_golden", "insert_certificate"} \subseteq DataSteps
      /\ dataCtx[w] \in DataContext
    BY DEF DataInv, DataTables, DataSteps, DataControl
<1>2. /\ Data!ActiveVersions \in SUBSET Nat /\ Data!ActiveVersions \subseteq DOMAIN versions
      /\ Data!Unopposed \in BOOLEAN /\ Data!PackagesPass \in BOOLEAN
      /\ Data!GoldenPass \in BOOLEAN
    BY <1>1 DEF DataRows, Data!ActiveVersions, Data!Unopposed, Data!PackagesPass, Data!GoldenPass
<1>3. /\ UNCHANGED <<packages, versions, golden, certificates>>
      /\ dataCtx' = [dataCtx EXCEPT ![w] = dataCtx'[w]]
    BY <1>1 DEF Data!ReadActive, Data!ReadPackages, Data!ReadGolden, Data!tables, DataControl
<1>4. CASE Data!ReadActive(w)
  <2>1. /\ Data!Goto(w, "read_packages")
        /\ dataCtx'[w] = [dataCtx[w] EXCEPT !.active = Data!ActiveVersions,
                                            !.held = Data!Unopposed]
      BY <1>1, <1>4 DEF Data!ReadActive, DataControl
  <2>2. /\ dataCtx'[w] \in DataContext /\ dataCtx'[w].active = Data!ActiveVersions
        /\ dataCtx'[w].held <=> Data!Unopposed
      BY <1>1, <1>2, <2>1 DEF DataContext
  <2>3. dataPc'[w] = "read_packages" /\ UNCHANGED dataReq /\ dataPc[w] = "certify"
      BY <1>1, <1>4, <2>1 DEF Data!Goto, DataControl, Data!ReadActive
  <2>4. Found(w)'
      BY <1>1, <2>3 DEF Found
  <2>5. Backed(w)' /\ Data!PackagesPass' /\ GoldenClean' => Data!Unopposed
      BY <1>3, <2>2 DEF Backed, Data!DatasetsOf, Data!PackagesPass, GoldenClean, Data!Unopposed
  <2>6. Certifies(w)'
      BY <1>2, <1>3, <2>2, <2>3, <2>5 DEF Certifies
  <2>7. QED
      BY <1>1, <1>3, <2>1, <2>2, <2>4, <2>6, DataReadKeeps
<1>5. CASE Data!ReadPackages(w)
  <2>1. /\ Data!Goto(w, "read_golden")
        /\ dataCtx'[w] = [dataCtx[w] EXCEPT !.passed = Data!PackagesPass,
                                            !.held = dataCtx[w].held \/ Data!Unopposed]
      BY <1>1, <1>5 DEF Data!ReadPackages, DataControl
  <2>2. /\ dataCtx'[w] \in DataContext /\ dataCtx'[w].active = dataCtx[w].active
        /\ dataCtx'[w].passed <=> Data!PackagesPass
        /\ dataCtx[w].held => dataCtx'[w].held
      BY <1>1, <1>2, <2>1 DEF DataContext
  <2>3. dataPc'[w] = "read_golden" /\ UNCHANGED dataReq /\ dataPc[w] = "read_packages"
      BY <1>1, <1>5, <2>1 DEF Data!Goto, DataControl, Data!ReadPackages
  <2>4. Found(w)'
      BY <1>1, <2>3 DEF Found
  <2>5. (Backed(w)' => Backed(w)) /\ (GoldenClean' => GoldenClean)
      BY <1>3, <2>2 DEF Backed, Data!DatasetsOf, GoldenClean
  <2>6. Certifies(w)'
      BY <1>1, <1>3, <2>2, <2>3, <2>5 DEF Certifies
  <2>7. QED
      BY <1>1, <1>3, <2>1, <2>2, <2>4, <2>6, DataReadKeeps
<1>6. CASE Data!ReadGolden(w)
  <2>1. /\ Data!Goto(w, "insert_certificate")
        /\ dataCtx'[w] = [dataCtx[w] EXCEPT !.passed = dataCtx[w].passed /\ Data!GoldenPass,
                                            !.held = dataCtx[w].held \/ Data!Unopposed]
      BY <1>1, <1>6 DEF Data!ReadGolden, DataControl
  <2>2. /\ dataCtx'[w] \in DataContext /\ dataCtx'[w].active = dataCtx[w].active
        /\ dataCtx'[w].passed => dataCtx[w].passed /\ Data!GoldenPass
        /\ dataCtx[w].held => dataCtx'[w].held
      BY <1>1, <1>2, <2>1 DEF DataContext
  <2>3. dataPc'[w] = "insert_certificate" /\ UNCHANGED dataReq /\ dataPc[w] = "read_golden"
      BY <1>1, <1>6, <2>1 DEF Data!Goto, DataControl, Data!ReadGolden
  <2>4. Found(w)'
      BY <1>1, <2>3 DEF Found
  <2>5. (Backed(w)' => Backed(w)) /\ (Data!GoldenPass => GoldenClean)
      BY <1>3, <2>2 DEF Backed, Data!DatasetsOf, GoldenClean, Data!GoldenPass
  <2>6. Certifies(w)'
      BY <1>1, <1>3, <2>2, <2>3, <2>5 DEF Certifies
  <2>7. QED
      BY <1>1, <1>3, <2>1, <2>2, <2>4, <2>6, DataReadKeeps
<1>7. QED
    BY <1>4, <1>5, <1>6

(* A certificate says ready only if that held at one moment.               *)
LEMMA InsertCertificateKeeps ==
    ASSUME DataInv, NEW w \in DataWorkers, Data!InsertCertificate(w)
    PROVE  DataInv' /\ DataGrows
<1> DEFINE c == dataCtx[w]
           row == [ready |-> Required \subseteq Data!DatasetsOf(c.active) /\ c.passed,
                   versions |-> c.active, held |-> c.held]
<1>1. /\ dataPc[w] = "insert_certificate" /\ certificates' = Append(certificates, row)
      /\ Data!Finish(w) /\ UNCHANGED <<packages, versions, golden>>
    BY DEF Data!InsertCertificate
<1>2. DataTables /\ Certifies(w) /\ DataRows /\ c \in DataContext
    BY DEF DataInv, DataTables, DataControl
<1>3. row \in CertificateRow
    BY <1>2 DEF DataContext, CertificateRow
<1>4. row.ready => row.held
    BY <1>1, <1>2 DEF Certifies, Backed
<1> HIDE DEF row
<1>5. /\ certificates' \in Seq(CertificateRow)
      /\ \A i \in DOMAIN certificates' :
            \/ i \in DOMAIN certificates /\ certificates'[i] = certificates[i]
            \/ certificates'[i] = row
    BY <1>1, <1>2, <1>3 DEF DataRows
<1>6. Data!ReadyHeldOnce'
    BY <1>2, <1>4, <1>5 DEF DataTables, Data!ReadyHeldOnce
<1>7. DataGrows
    BY <1>1 DEF DataGrows, Data!DatasetsOf, Data!ActiveVersions
<1>8. DataRows' /\ NumbersCount' /\ VersionsHavePackages' /\ Data!OneActiveVersion'
      /\ Data!VersionsAreConfident'
    BY <1>1, <1>2, <1>5
    DEF DataTables, DataRows, NumbersCount, VersionsHavePackages, Data!VersionsOf,
        Data!OneActiveVersion, Data!VersionsAreConfident
<1>9. QED
    BY <1>1, <1>6, <1>7, <1>8, DataFinishKeeps DEF DataTables

-----------------------------------------------------------------------------

(* The empty tables.                                                       *)
LEMMA DataInit == Data!Init => DataInv
<1> SUFFICES ASSUME Data!Init PROVE DataInv
    OBVIOUS
<1>1. DataRows /\ VersionsHavePackages
    BY DEF Data!Init, DataRows, VersionsHavePackages
<1>2. NumbersCount /\ Data!OneActiveVersion /\ Data!VersionsAreConfident /\ Data!ReadyHeldOnce
    BY DEF Data!Init, NumbersCount, Data!OneActiveVersion, Data!VersionsAreConfident,
       Data!ReadyHeldOnce
<1>3. DataControl
  <2>1. Data!NoContext \in DataContext /\ "idle" \in DataSteps
      BY DEF Data!NoContext, DataContext, DataSteps
  <2>2. QED
      BY <2>1 DEF Data!Init, DataControl
<1>4. \A w \in DataWorkers : Found(w) /\ Certifies(w)
    BY DEF Data!Init, Found, Certifies
<1>5. QED
    BY <1>1, <1>2, <1>3, <1>4 DEF DataInv, DataTables

(* Every step of the data versions, and none.                              *)
LEMMA DataNextKeeps ==
    ASSUME DataInv, Data!Next
    PROVE  DataInv' /\ DataGrows
<1>1. PICK w \in DataWorkers : (\E r \in DataRequests : Data!Receive(w, r)) \/ Data!Step(w)
    BY DEF Data!Next
<1>2. CASE \E r \in DataRequests : Data!Receive(w, r)
    BY <1>2, DataReceiveKeeps
<1>3. CASE Data!Step(w)
    BY <1>3, DataReadingKeeps, InsertPackageKeeps, SetStatusKeeps, SwitchKeeps, InsertGoldenKeeps,
       CertificateReadKeeps, InsertCertificateKeeps DEF Data!Step
<1>4. QED
    BY <1>1, <1>2, <1>3

LEMMA DataStutterKeeps ==
    ASSUME DataInv, UNCHANGED dataVars
    PROVE  DataInv' /\ DataGrows
<1>1. DataTables' /\ DataGrows
    BY SameDataTables DEF DataInv, dataVars
<1>2. DataControl'
    BY DEF DataInv, DataControl, dataVars
<1>3. ASSUME NEW v \in DataWorkers PROVE Found(v)' /\ Certifies(v)'
    BY <1>1, OtherDataRequests DEF dataVars
<1>4. QED
    BY <1>1, <1>2, <1>3 DEF DataInv

-----------------------------------------------------------------------------
(* The rows of the calculations and the threads that write them.           *)

Revises == {r.calculation : r \in Requests}
Users == {r.user : r \in Requests}

CalculationSteps ==
    {"idle", "add", "insert", "active", "trace", "delete", "clear",
     "revise", "locked", "number", "insert_revision",
     "submit", "approve", "reject", "decide", "release", "matrix", "list", "item"}

RevisionRow ==
    [id : Revises, number : Nat, serial : Nat,
     status : {"draft", "review", "approved", "rejected"}, locked : BOOLEAN,
     creator : Users, reviewer : Users \cup {NoUser}, late : BOOLEAN]

(* What a thread remembers has the same fields all the time.               *)
ContextFields == {"rows", "trace", "number", "row", "items"}

CalculationControl ==
    /\ pc \in [Workers -> CalculationSteps]
    /\ req \in [Workers -> Requests \cup {NoRequest}]
    /\ ctx = [w \in Workers |-> ctx[w]]
    /\ \A w \in Workers : DOMAIN ctx[w] = ContextFields

(* Each id is of one calculation; made counts the calculations there were. *)
CalculationRows ==
    /\ made \in Nat
    /\ \A c \in calculations : c.id \in 1 .. made /\ c.serial \in 1 .. made
    /\ \A c, d \in calculations : c.id = d.id => c = d

(* Every number up to the count of a calculation's revisions is taken, so  *)
(* that a number computed before can only be free if it is the next one.   *)
NumbersTaken ==
    \A id \in Revises :
        \A k \in 1 .. Cardinality(Calculations!RevisionsOf(id)) :
            \E j \in Calculations!RevisionsOf(id) : revisions[j].number = k

RevisionTable ==
    /\ revisions \in Seq(RevisionRow)
    /\ Calculations!ReviewsGrounded
    /\ Calculations!RevisionsNumbered
    /\ NumbersTaken

(* What the reads of a request found and what will still be so when it     *)
(* writes: a revision stays, and so do its calculation and its creator.    *)
Grounds(w) ==
    LET r == req[w] IN
    /\ pc[w] # "idle" => r \in Requests
    /\ pc[w] \in {"submit", "approve", "reject"} => r.op = pc[w]
    /\ pc[w] \in {"approve", "reject"} => r.user \in Reviewers
    /\ pc[w] = "decide" =>
           /\ r.op \in {"submit", "approve", "reject"}
           /\ r.revision \in DOMAIN revisions
           /\ r.op # "submit" => r.user \in Reviewers \ {revisions[r.revision].creator}
    /\ pc[w] \in {"locked", "number", "insert_revision"} => Head(ctx[w].rows).serial \in Nat
    /\ pc[w] = "insert_revision" =>
           ctx[w].number \in 1 .. 1 + Cardinality(Calculations!RevisionsOf(r.calculation))

CalculationInv ==
    /\ CalculationControl
    /\ CalculationRows
    /\ RevisionTable
    /\ \A w \in Workers : Grounds(w)

-----------------------------------------------------------------------------

(* A step of one request leaves the other threads alone.                   *)
OneMoves(w) ==
    /\ \E step \in CalculationSteps : pc' = [pc EXCEPT ![w] = step]
    /\ \E r \in Requests \cup {NoRequest} : req' = [req EXCEPT ![w] = r]
    /\ ctx' = [ctx EXCEPT ![w] = ctx'[w]]
    /\ DOMAIN ctx'[w] = ContextFields

(* So their claims change with the tables only.                            *)
LEMMA OneMovesKeeps ==
    ASSUME CalculationControl, NEW w \in Workers, OneMoves(w)
    PROVE  /\ CalculationControl'
           /\ \A v \in Workers \ {w} :
                  pc'[v] = pc[v] /\ req'[v] = req[v] /\ ctx'[v] = ctx[v]
<1>1. pc' \in [Workers -> CalculationSteps] /\ req' \in [Workers -> Requests \cup {NoRequest}]
    BY DEF OneMoves, CalculationControl
<1>2. \A v \in Workers \ {w} :
          pc'[v] = pc[v] /\ req'[v] = req[v] /\ ctx'[v] = ctx[v]
    BY DEF OneMoves, CalculationControl
<1>3. ctx' = [v \in Workers |-> ctx'[v]]
    BY DEF OneMoves, CalculationControl
<1>4. QED
    BY <1>1, <1>2, <1>3 DEF OneMoves, CalculationControl

LEMMA FinishMoves ==
    ASSUME CalculationControl, NEW w \in Workers, Calculations!Finish(w)
    PROVE  OneMoves(w) /\ pc'[w] = "idle"
BY DEF CalculationControl, Calculations!Finish, Calculations!NoContext, OneMoves,
       CalculationSteps, ContextFields

LEMMA GotoMoves ==
    ASSUME CalculationControl, NEW w \in Workers,
           NEW step \in CalculationSteps, Calculations!Goto(w, step),
           ctx' = [ctx EXCEPT ![w] = ctx'[w]], DOMAIN ctx'[w] = ContextFields
    PROVE  OneMoves(w) /\ pc'[w] = step /\ UNCHANGED req
<1>1. req' = [req EXCEPT ![w] = req[w]] /\ req[w] \in Requests \cup {NoRequest}
    BY DEF CalculationControl, Calculations!Goto
<1>2. QED
    BY <1>1 DEF CalculationControl, Calculations!Goto, OneMoves

(* Every step is of one thread.                                            *)
LEMMA StepMoves ==
    ASSUME CalculationControl, NEW w \in Workers,
           (\E r \in Requests : Calculations!Receive(w, r)) \/ Calculations!Step(w)
    PROVE  OneMoves(w)
<1>1. CASE Calculations!Finish(w)
    BY <1>1, FinishMoves
<1>2. ASSUME NEW step \in CalculationSteps, Calculations!Goto(w, step), UNCHANGED ctx
      PROVE  OneMoves(w)
  <2>1. ctx' = [ctx EXCEPT ![w] = ctx'[w]] /\ DOMAIN ctx'[w] = ContextFields
      BY <1>2 DEF CalculationControl
  <2>2. QED
      BY <1>2, <2>1, GotoMoves
<1>3. ASSUME NEW step \in CalculationSteps, Calculations!Goto(w, step),
             NEW field \in ContextFields, NEW x, ctx' = [ctx EXCEPT ![w][field] = x]
      PROVE  OneMoves(w)
  <2>1. ctx' = [ctx EXCEPT ![w] = [ctx[w] EXCEPT ![field] = x]]
      BY <1>3
  <2>2. ctx'[w] = [ctx[w] EXCEPT ![field] = x]
      BY <2>1 DEF CalculationControl
  <2>3. ctx' = [ctx EXCEPT ![w] = ctx'[w]]
      BY <2>1, <2>2
  <2>4. DOMAIN ctx'[w] = ContextFields
      BY <2>2 DEF CalculationControl
  <2>5. QED
      BY <1>3, <2>3, <2>4, GotoMoves
<1>4. CASE \E r \in Requests : Calculations!Receive(w, r)
  <2>1. PICK r \in Requests : Calculations!Receive(w, r)
      BY <1>4
  <2>2. r.op \in CalculationSteps /\ "insert" \in CalculationSteps
      BY RequestsAssumption DEF CalculationSteps
  <2>3. \E step \in CalculationSteps : pc' = [pc EXCEPT ![w] = step]
      BY <2>1, <2>2 DEF Calculations!Receive
  <2>4. req' = [req EXCEPT ![w] = r] /\ UNCHANGED ctx
      BY <2>1 DEF Calculations!Receive
  <2>5. QED
      BY <2>3, <2>4 DEF OneMoves, CalculationControl
<1>5. CASE Calculations!CheckProject(w)
  <2>1. {"insert", "matrix", "list"} \subseteq CalculationSteps
      BY DEF CalculationSteps
  <2>2. CASE pc[w] = "add"
      BY <1>1, <1>2, <1>5, <2>1, <2>2 DEF Calculations!CheckProject, Calculations!Refuse
  <2>3. CASE pc[w] = "release"
      BY <1>1, <1>2, <1>5, <2>1, <2>3 DEF Calculations!CheckProject, Calculations!Refuse
  <2>4. CASE pc[w] = "matrix"
      BY <1>1, <1>2, <1>5, <2>1, <2>4 DEF Calculations!CheckProject, Calculations!Refuse
  <2>5. QED
      BY <1>5, <2>2, <2>3, <2>4 DEF Calculations!CheckProject
<1>6. CASE Calculations!InsertCalculation(w)
  <2>1. PICK x : Calculations!Goto(w, "active") /\ ctx' = [ctx EXCEPT ![w].rows = x]
      BY <1>6 DEF Calculations!InsertCalculation
  <2>2. "active" \in CalculationSteps /\ "rows" \in ContextFields
      BY DEF CalculationSteps, ContextFields
  <2>3. QED
      BY <1>3, <2>1, <2>2
<1>7. CASE Calculations!ReadActive(w)
  <2>1. "trace" \in CalculationSteps /\ "trace" \in ContextFields
      BY DEF CalculationSteps, ContextFields
  <2>2. QED
      BY <1>3, <1>7, <2>1 DEF Calculations!ReadActive
<1>8. CASE \/ Calculations!InsertTrace(w) \/ Calculations!DeleteCalculation(w)
           \/ Calculations!Decide(w) \/ Calculations!InsertRevision(w)
           \/ Calculations!InsertRelease(w)
    BY <1>1, <1>8
    DEF Calculations!InsertTrace, Calculations!DeleteCalculation, Calculations!Decide,
        Calculations!InsertRevision, Calculations!InsertRelease, Calculations!Refuse
<1>9. CASE Calculations!ReadCalculation(w)
  <2>1. "locked" \in CalculationSteps /\ "rows" \in ContextFields
      BY DEF CalculationSteps, ContextFields
  <2>2. Calculations!Finish(w)
        \/ \E x : Calculations!Goto(w, "locked") /\ ctx' = [ctx EXCEPT ![w].rows = x]
      BY <1>9 DEF Calculations!ReadCalculation, Calculations!Refuse
  <2>3. QED
      BY <1>1, <1>3, <2>1, <2>2
<1>10. CASE Calculations!FindLock(w)
  <2>1. "number" \in CalculationSteps
      BY DEF CalculationSteps
  <2>2. QED
      BY <1>1, <1>2, <1>10, <2>1 DEF Calculations!FindLock, Calculations!Refuse
<1>11. CASE Calculations!NextNumber(w)
  <2>1. "insert_revision" \in CalculationSteps /\ "number" \in ContextFields
      BY DEF CalculationSteps, ContextFields
  <2>2. PICK x : Calculations!Goto(w, "insert_revision") /\ ctx' = [ctx EXCEPT ![w].number = x]
      BY <1>11 DEF Calculations!NextNumber
  <2>3. QED
      BY <1>3, <2>1, <2>2
<1>12. CASE Calculations!ReadSubmitted(w) \/ Calculations!ReadReviewed(w)
  <2>1. "decide" \in CalculationSteps
      BY DEF CalculationSteps
  <2>2. Calculations!Finish(w) \/ (Calculations!Goto(w, "decide") /\ UNCHANGED ctx)
      BY <1>12 DEF Calculations!ReadSubmitted, Calculations!ReadReviewed, Calculations!Refuse
  <2>3. QED
      BY <1>1, <1>2, <2>1, <2>2
<1>13. CASE Calculations!ListCalculations(w)
  <2>1. "item" \in CalculationSteps /\ "rows" \in ContextFields
      BY DEF CalculationSteps, ContextFields
  <2>2. PICK x : Calculations!Goto(w, "item") /\ ctx' = [ctx EXCEPT ![w].rows = x]
      BY <1>13 DEF Calculations!ListCalculations
  <2>3. QED
      BY <1>3, <2>1, <2>2
<1>14. CASE Calculations!ReadItem(w)
  <2>1. PICK x, y : /\ pc' = pc /\ req' = req
                    /\ ctx' = [ctx EXCEPT ![w].rows = x, ![w].items = y]
      BY <1>14 DEF Calculations!ReadItem
  <2>2. "rows" \in ContextFields /\ "items" \in ContextFields
      BY DEF ContextFields
  <2>3. ctx' = [ctx EXCEPT ![w] = ctx'[w]] /\ DOMAIN ctx'[w] = ContextFields
      BY <2>1, <2>2 DEF CalculationControl
  <2>4. pc' = [pc EXCEPT ![w] = pc[w]] /\ req' = [req EXCEPT ![w] = req[w]]
      BY <2>1 DEF CalculationControl
  <2>5. QED
      BY <2>3, <2>4 DEF OneMoves, CalculationControl
<1>15. QED
    BY <1>4, <1>5, <1>6, <1>7, <1>8, <1>9, <1>10, <1>11, <1>12, <1>13, <1>14
    DEF Calculations!Step

-----------------------------------------------------------------------------
(* What no step takes back from the revisions.                             *)

RevisionsGrow ==
    \A i \in DOMAIN revisions :
        /\ i \in DOMAIN revisions'
        /\ revisions'[i].id = revisions[i].id
        /\ revisions'[i].creator = revisions[i].creator
        /\ revisions[i].locked => revisions'[i].locked

(* The cardinality that the calculations use is that of this module.       *)
LEMMA CalculationsCardinality == \A S : Calculations!Cardinality(S) = Cardinality(S)
BY DEF Calculations!Cardinality, Cardinality

(* The revisions of a calculation are finitely many rows of the table.     *)
LEMMA RevisionsOfFinite ==
    ASSUME revisions \in Seq(RevisionRow), NEW id
    PROVE  /\ Calculations!RevisionsOf(id) \in SUBSET (1 .. Len(revisions))
           /\ Len(revisions) \in Nat
           /\ IsFiniteSet(Calculations!RevisionsOf(id))
           /\ Cardinality(Calculations!RevisionsOf(id)) \in Nat
           /\ Cardinality(Calculations!RevisionsOf(id)) <= Len(revisions)
<1>1. /\ Calculations!RevisionsOf(id) \in SUBSET (1 .. Len(revisions))
      /\ Len(revisions) \in Nat
    BY DEF Calculations!RevisionsOf
<1>2. /\ IsFiniteSet(1 .. Len(revisions))
      /\ Cardinality(1 .. Len(revisions)) =
             IF 1 > Len(revisions) THEN 0 ELSE Len(revisions) - 1 + 1
    BY <1>1, FS_Interval
<1>3. Cardinality(1 .. Len(revisions)) = Len(revisions)
    BY <1>1, <1>2
<1>4. QED
    BY <1>1, <1>2, <1>3, FS_Subset, FS_CardinalityType

(* So what a request found goes on being so while others write.            *)
LEMMA OtherGrounds ==
    ASSUME CalculationInv, RevisionsGrow, revisions' \in Seq(RevisionRow), NEW v \in Workers,
           pc'[v] = pc[v], req'[v] = req[v], ctx'[v] = ctx[v]
    PROVE  Grounds(v)'
<1>1. Grounds(v) /\ revisions \in Seq(RevisionRow)
    BY DEF CalculationInv, RevisionTable
<1> DEFINE id == req[v].calculation
           n == Cardinality(Calculations!RevisionsOf(id))
           R == {i \in DOMAIN revisions' : revisions'[i].id = id}
<1>2. n \in Nat /\ Cardinality(R) \in Nat /\ n <= Cardinality(R)
  <2>1. Calculations!RevisionsOf(id) \subseteq R
      BY DEF RevisionsGrow, Calculations!RevisionsOf
  <2>2. R \in SUBSET (1 .. Len(revisions')) /\ Len(revisions') \in Nat
      OBVIOUS
  <2>3. IsFiniteSet(R)
      BY <2>2, FS_Interval, FS_Subset
  <2>4. n \in Nat
      BY <1>1, RevisionsOfFinite
  <2>5. QED
      BY <2>1, <2>3, <2>4, FS_Subset, FS_CardinalityType
<1>3. pc[v] = "insert_revision" => ctx[v].number \in 1 .. 1 + Cardinality(R)
  <2> HIDE DEF R
  <2>1. QED
      BY <1>1, <1>2 DEF Grounds
<1>4. Calculations!RevisionsOf(req[v].calculation)' = R
    BY DEF Calculations!RevisionsOf
<1>5. pc[v] = "decide" =>
           /\ req[v].revision \in DOMAIN revisions'
           /\ revisions'[req[v].revision].creator = revisions[req[v].revision].creator
    BY <1>1 DEF Grounds, RevisionsGrow
<1> HIDE DEF R
<1>6. QED
    BY <1>1, <1>3, <1>4, <1>5 DEF Grounds

(* What is left to show of one request's step.                             *)
LEMMA CalculationStepKeeps ==
    ASSUME CalculationInv, NEW w \in Workers, OneMoves(w),
           CalculationRows', RevisionTable', RevisionsGrow, Grounds(w)'
    PROVE  CalculationInv'
<1>1. /\ CalculationControl'
      /\ \A v \in Workers \ {w} : pc'[v] = pc[v] /\ req'[v] = req[v] /\ ctx'[v] = ctx[v]
    BY OneMovesKeeps DEF CalculationInv
<1>2. revisions' \in Seq(RevisionRow)
    BY DEF RevisionTable
<1>3. ASSUME NEW v \in Workers PROVE Grounds(v)'
    BY <1>1, <1>2, OtherGrounds
<1>4. QED
    BY <1>1, <1>3 DEF CalculationInv

(* A step that writes no revision, and one that saves no calculation.      *)
LEMMA SameRevisions ==
    ASSUME CalculationInv, UNCHANGED revisions
    PROVE  RevisionTable' /\ RevisionsGrow
<1>1. Calculations!ReviewsGrounded' /\ Calculations!RevisionsNumbered' /\ NumbersTaken'
    BY DEF CalculationInv, RevisionTable, Calculations!ReviewsGrounded,
           Calculations!RevisionsNumbered, NumbersTaken, Calculations!RevisionsOf
<1>2. QED
    BY <1>1 DEF CalculationInv, RevisionTable, RevisionsGrow

LEMMA SameCalculations ==
    ASSUME CalculationInv, UNCHANGED <<calculations, made>>
    PROVE  CalculationRows'
BY DEF CalculationInv, CalculationRows

-----------------------------------------------------------------------------
(* The requests, step by step.                                             *)

(* A step that writes no revision and after which nothing is claimed of    *)
(* its request.                                                            *)
LEMMA PlainStepKeeps ==
    ASSUME CalculationInv, NEW w \in Workers, OneMoves(w), UNCHANGED revisions, CalculationRows',
           pc'[w] \notin {"submit", "approve", "reject", "decide",
                          "locked", "number", "insert_revision"},
           pc'[w] # "idle" => UNCHANGED req /\ pc[w] # "idle"
    PROVE  CalculationInv' /\ RevisionsGrow
<1>1. RevisionTable' /\ RevisionsGrow
    BY SameRevisions
<1>2. Grounds(w)
    BY DEF CalculationInv
<1>3. Grounds(w)'
    BY <1>2 DEF Grounds
<1>4. QED
    BY <1>1, <1>3, CalculationStepKeeps

(* A request that ends claims nothing.                                     *)
LEMMA RefuseKeeps ==
    ASSUME CalculationInv, NEW w \in Workers, Calculations!Finish(w), UNCHANGED revisions,
           CalculationRows'
    PROVE  CalculationInv' /\ RevisionsGrow
<1>1. OneMoves(w) /\ pc'[w] = "idle"
    BY FinishMoves DEF CalculationInv
<1>2. QED
    BY <1>1, PlainStepKeeps

(* The next id is free and not larger than the count of calculations.      *)
LEMMA NextIdIsFree ==
    ASSUME CalculationRows
    PROVE  /\ Calculations!NextId \in 1 .. made + 1
           /\ \A c \in calculations : c.id # Calculations!NextId
<1>1. CASE calculations = {}
    BY <1>1 DEF CalculationRows, Calculations!NextId
<1>2. CASE calculations # {}
  <2> DEFINE ids == {c.id : c \in calculations}
  <2>1. ids \in SUBSET (1 .. made) /\ ids # {} /\ made \in Nat
      BY <1>2 DEF CalculationRows
  <2>2. \E n \in ids : \A c \in calculations : c.id <= n
    <3>1. LastOf(ids) \in ids /\ \A n \in ids : n <= LastOf(ids)
      <4> HIDE DEF ids
      <4>1. QED
        BY <2>1, LastOfIsLast
    <3>2. QED
      BY <3>1
  <2>3. PICK n : n = CHOOSE m \in ids : \A c \in calculations : c.id <= m
      OBVIOUS
  <2>4. n \in ids /\ \A c \in calculations : c.id <= n
      BY <2>2, <2>3
  <2>5. Calculations!NextId = 1 + n
      BY <1>2, <2>3 DEF Calculations!NextId
  <2>6. n \in 1 .. made
      BY <2>1, <2>4
  <2>7. \A c \in calculations : c.id \in 1 .. made
      BY DEF CalculationRows
  <2>8. QED
      BY <2>1, <2>4, <2>5, <2>6, <2>7
<1>3. QED
    BY <1>1, <1>2

(* A calculation is saved under a free id.                                 *)
LEMMA InsertCalculationKeeps ==
    ASSUME CalculationInv, NEW w \in Workers, Calculations!InsertCalculation(w)
    PROVE  CalculationInv' /\ RevisionsGrow
<1>1. OneMoves(w) /\ pc'[w] = "active" /\ pc[w] = "insert" /\ UNCHANGED <<req, revisions>>
  <2>1. OneMoves(w)
      BY StepMoves DEF CalculationInv, Calculations!Step
  <2>2. QED
      BY <2>1 DEF Calculations!InsertCalculation, Calculations!Goto, CalculationInv,
                  CalculationControl
<1>2. CalculationRows'
  <2> DEFINE row == [id |-> Calculations!NextId, serial |-> made + 1, owner |-> req[w].user,
                     project |-> req[w].project,
                     data |-> {d \in DOMAIN Active : Active[d] # 0}]
  <2>1. PICK c : c = row /\ calculations' = calculations \cup {row} /\ made' = made + 1
                 /\ row.id = Calculations!NextId /\ row.serial = made + 1
      BY DEF Calculations!InsertCalculation
  <2> HIDE DEF row
  <2>2. CalculationRows
      BY DEF CalculationInv
  <2>3. c.id \in 1 .. made + 1 /\ \A d \in calculations : d.id # c.id
      BY <2>1, <2>2, NextIdIsFree
  <2>4. made \in Nat /\ \A d \in calculations : d.id \in 1 .. made /\ d.serial \in 1 .. made
      BY <2>2 DEF CalculationRows
  <2>5. \A d \in calculations' : d.id \in 1 .. made' /\ d.serial \in 1 .. made'
      BY <2>1, <2>3, <2>4
  <2>6. \A d, e \in calculations' : d.id = e.id => d = e
      BY <2>1, <2>2, <2>3 DEF CalculationRows
  <2>7. QED
      BY <2>1, <2>4, <2>5, <2>6 DEF CalculationRows
<1>3. QED
    BY <1>1, <1>2, PlainStepKeeps

(* The steps that write no row, or rows of which nothing is claimed here.  *)
LEMMA PlainStepsKeep ==
    ASSUME CalculationInv, NEW w \in Workers,
           \/ Calculations!CheckProject(w) \/ Calculations!ReadActive(w)
           \/ Calculations!InsertTrace(w) \/ Calculations!DeleteCalculation(w)
           \/ Calculations!ListCalculations(w) \/ Calculations!ReadItem(w)
           \/ Calculations!InsertRelease(w)
    PROVE  CalculationInv' /\ RevisionsGrow
<1>1. CalculationRows' /\ UNCHANGED revisions
  <2>1. calculations' \subseteq calculations /\ UNCHANGED <<made, revisions>>
      BY DEF Calculations!CheckProject, Calculations!ReadActive, Calculations!InsertTrace,
             Calculations!DeleteCalculation, Calculations!ListCalculations,
             Calculations!ReadItem, Calculations!InsertRelease, Calculations!Refuse,
             Calculations!tables
  <2>2. QED
      BY <2>1 DEF CalculationInv, CalculationRows
<1>2. CASE Calculations!Finish(w)
    BY <1>1, <1>2, RefuseKeeps
<1>3. CASE ~Calculations!Finish(w)
  <2>1. OneMoves(w)
      BY StepMoves DEF CalculationInv, Calculations!Step
  <2>2. UNCHANGED req /\ pc[w] # "idle" /\ pc'[w] \in {"insert", "matrix", "list", "trace", "item"}
    <3>1. pc \in [Workers -> CalculationSteps]
      BY DEF CalculationInv, CalculationControl
    <3>2. CASE Calculations!CheckProject(w)
      BY <1>3, <3>1, <3>2
      DEF Calculations!CheckProject, Calculations!Refuse, Calculations!Goto
    <3>3. CASE ~Calculations!CheckProject(w)
      BY <1>3, <3>1, <3>3
      DEF Calculations!ReadActive, Calculations!InsertTrace, Calculations!DeleteCalculation,
          Calculations!ListCalculations, Calculations!ReadItem, Calculations!InsertRelease,
          Calculations!Goto
    <3>4. QED
      BY <3>2, <3>3
  <2>3. QED
      BY <1>1, <2>1, <2>2, PlainStepKeeps
<1>4. QED
    BY <1>2, <1>3

(* A read that lets a request go on: it writes nothing.                    *)
LEMMA ReadStepKeeps ==
    ASSUME CalculationInv, NEW w \in Workers, OneMoves(w),
           UNCHANGED <<calculations, made, revisions>>, Grounds(w)'
    PROVE  CalculationInv' /\ RevisionsGrow
BY SameRevisions, SameCalculations, CalculationStepKeeps

(* A review is received from somebody with the role.                       *)
LEMMA ReceiveKeeps ==
    ASSUME CalculationInv, NEW w \in Workers, NEW r \in Requests, Calculations!Receive(w, r)
    PROVE  CalculationInv' /\ RevisionsGrow
<1>1. OneMoves(w)
    BY StepMoves DEF CalculationInv
<1>2. /\ pc'[w] = IF r.op = "add" /\ r.project = NoProject THEN "insert" ELSE r.op
      /\ req'[w] = r /\ UNCHANGED <<calculations, made, revisions>>
      /\ r.op \in {"approve", "reject"} => r.user \in Reviewers
    BY DEF CalculationInv, CalculationControl, Calculations!Receive, Calculations!tables
<1>3. r.op \in {"add", "delete", "clear", "revise", "submit", "approve", "reject", "release"}
    BY RequestsAssumption
<1>4. Grounds(w)'
    BY <1>2, <1>3 DEF Grounds
<1>5. QED
    BY <1>1, <1>2, <1>4, ReadStepKeeps

(* The reads of create_revision.                                           *)
LEMMA RevisingReadKeeps ==
    ASSUME CalculationInv, NEW w \in Workers,
           Calculations!ReadCalculation(w) \/ Calculations!FindLock(w) \/ Calculations!NextNumber(w)
    PROVE  CalculationInv' /\ RevisionsGrow
<1>1. OneMoves(w) /\ UNCHANGED <<calculations, made, revisions>>
  <2>1. OneMoves(w)
      BY StepMoves DEF CalculationInv, Calculations!Step
  <2>2. QED
      BY <2>1 DEF Calculations!ReadCalculation, Calculations!FindLock, Calculations!NextNumber,
                  Calculations!Refuse, Calculations!tables
<1>2. /\ Grounds(w) /\ CalculationRows /\ revisions \in Seq(RevisionRow)
      /\ pc \in [Workers -> CalculationSteps] /\ w \in DOMAIN ctx
      /\ DOMAIN ctx[w] = ContextFields
    BY DEF CalculationInv, RevisionTable, CalculationControl
<1>3. CASE Calculations!Finish(w)
    BY <1>1, <1>3, RefuseKeeps, SameCalculations
<1>4. CASE Calculations!ReadCalculation(w) /\ ~Calculations!Finish(w)
  <2> DEFINE rows == {c \in calculations : c.id = req[w].calculation /\ c.owner = req[w].user}
  <2>1. PICK c : c = CHOOSE d \in rows : TRUE
      OBVIOUS
  <2>2. rows # {} /\ pc[w] = "revise" /\ Calculations!Goto(w, "locked")
        /\ ctx' = [ctx EXCEPT ![w].rows = <<c>>]
      BY <1>4, <2>1 DEF Calculations!ReadCalculation, Calculations!Refuse
  <2>3. c \in calculations
      BY <2>1, <2>2
  <2>4. c.serial \in Nat
      BY <1>2, <2>3 DEF CalculationRows
  <2>5. pc'[w] = "locked" /\ UNCHANGED req /\ ctx'[w].rows = <<c>>
      BY <1>2, <2>2 DEF Calculations!Goto, ContextFields
  <2>6. Grounds(w)'
      BY <1>2, <2>2, <2>4, <2>5 DEF Grounds
  <2>7. QED
      BY <1>1, <2>6, ReadStepKeeps
<1>5. CASE Calculations!FindLock(w) /\ ~Calculations!Finish(w)
  <2>1. pc[w] = "locked" /\ pc'[w] = "number" /\ UNCHANGED <<req, ctx>>
      BY <1>2, <1>5 DEF Calculations!FindLock, Calculations!Refuse, Calculations!Goto
  <2>2. Grounds(w)'
      BY <1>2, <2>1 DEF Grounds
  <2>3. QED
      BY <1>1, <2>2, ReadStepKeeps
<1>6. CASE Calculations!NextNumber(w)
  <2> DEFINE mine == Calculations!RevisionsOf(req[w].calculation)
             numbers == {revisions[i].number : i \in mine}
             n == Cardinality(mine)
  <2>1. PICK m : m = CHOOSE k \in numbers : \A l \in numbers : l <= k
      OBVIOUS
  <2>2. pc[w] = "number" /\ Calculations!Goto(w, "insert_revision")
        /\ ctx' = [ctx EXCEPT ![w].number = IF numbers = {} THEN 1 ELSE 1 + m]
      BY <1>6, <2>1 DEF Calculations!NextNumber
  <2>3. n \in Nat /\ mine \subseteq DOMAIN revisions /\ IsFiniteSet(mine)
      BY <1>2, RevisionsOfFinite DEF Calculations!RevisionsOf
  <2>4. ASSUME NEW i \in mine PROVE revisions[i].number \in 1 .. n
    <3>1. revisions[i].number = Cardinality({j \in mine : j <= i})
      <4>1. revisions[i].number
                = Cardinality({j \in Calculations!RevisionsOf(revisions[i].id) : j <= i})
        BY <2>3, <2>4, CalculationsCardinality
        DEF CalculationInv, RevisionTable, Calculations!RevisionsNumbered
      <4>2. revisions[i].id = req[w].calculation
        BY <2>4 DEF Calculations!RevisionsOf
      <4>3. QED
        BY <4>1, <4>2
    <3>2. {j \in mine : j <= i} \subseteq mine /\ i \in {j \in mine : j <= i}
      BY <1>2, <2>3, <2>4
    <3> DEFINE below == {j \in mine : j <= i}
    <3>3. IsFiniteSet(below) /\ Cardinality(below) <= n /\ Cardinality(below) \in Nat
      <4> HIDE DEF mine, below
      <4>1. QED
        BY <2>3, <3>2, FS_Subset, FS_CardinalityType DEF n, below
    <3>4. Cardinality(below) # 0
      <4> HIDE DEF below
      <4>1. QED
        BY <3>2, <3>3, FS_EmptySet DEF below
    <3>5. QED
      BY <2>3, <3>1, <3>3, <3>4
  <2>5. numbers # {} => m \in 1 .. n
    <3>1. SUFFICES ASSUME numbers # {} PROVE m \in 1 .. n
      OBVIOUS
    <3>2. numbers \in SUBSET (1 .. n)
      <4> HIDE DEF n, mine
      <4>1. QED
        BY <2>4
    <3>3. LastOf(numbers) \in numbers
      <4> HIDE DEF numbers, n
      <4>1. QED
        BY <2>3, <3>1, <3>2, LastOfIsLast
    <3>4. m = LastOf(numbers)
      BY <2>1 DEF LastOf
    <3>5. QED
      BY <3>2, <3>3, <3>4
  <2>6. pc'[w] = "insert_revision" /\ UNCHANGED req
        /\ ctx'[w].number = (IF numbers = {} THEN 1 ELSE 1 + m) /\ ctx'[w].rows = ctx[w].rows
      BY <1>2, <2>2 DEF Calculations!Goto, ContextFields
  <2>7. ctx'[w].number \in 1 .. 1 + n
    <3> HIDE DEF numbers, n
    <3>1. QED
      BY <2>3, <2>5, <2>6
  <2>8. Calculations!RevisionsOf(req[w].calculation)' = mine
      BY <1>1, <2>6 DEF Calculations!RevisionsOf
  <2>9. Grounds(w)'
      BY <1>2, <2>2, <2>6, <2>7, <2>8 DEF Grounds
  <2>10. QED
      BY <1>1, <2>9, ReadStepKeeps
<1>7. QED
    BY <1>3, <1>4, <1>5, <1>6

(* The reads of submit_revision, approve_revision and reject_revision.     *)
LEMMA ReviewingReadKeeps ==
    ASSUME CalculationInv, NEW w \in Workers,
           Calculations!ReadSubmitted(w) \/ Calculations!ReadReviewed(w)
    PROVE  CalculationInv' /\ RevisionsGrow
<1>1. OneMoves(w) /\ UNCHANGED <<calculations, made, revisions>>
  <2>1. OneMoves(w)
      BY StepMoves DEF CalculationInv, Calculations!Step
  <2>2. QED
      BY <2>1 DEF Calculations!ReadSubmitted, Calculations!ReadReviewed, Calculations!Refuse,
                  Calculations!tables
<1>2. Grounds(w) /\ pc \in [Workers -> CalculationSteps]
    BY DEF CalculationInv, CalculationControl
<1>3. CASE Calculations!Finish(w)
    BY <1>1, <1>3, RefuseKeeps, SameCalculations
<1>4. CASE ~Calculations!Finish(w)
  <2>1. /\ pc[w] \in {"submit", "approve", "reject"} /\ Calculations!Goto(w, "decide")
        /\ req[w].revision \in DOMAIN revisions
        /\ pc[w] # "submit" => revisions[req[w].revision].creator # req[w].user
      BY <1>4 DEF Calculations!ReadSubmitted, Calculations!ReadReviewed, Calculations!Refuse
  <2>2. pc'[w] = "decide" /\ UNCHANGED req
      BY <1>2, <2>1 DEF Calculations!Goto
  <2>3. Grounds(w)'
      BY <1>1, <1>2, <2>1, <2>2 DEF Grounds
  <2>4. QED
      BY <1>1, <2>3, ReadStepKeeps
<1>5. QED
    BY <1>3, <1>4

(* A revision whose number was free has the next number.                   *)
LEMMA InsertRevisionAppends ==
    ASSUME CalculationInv, NEW w \in Workers, Calculations!InsertRevision(w),
           revisions' # revisions
    PROVE  /\ revisions' = Append(revisions, Calculations!NewRevision(w))
           /\ Calculations!NewRevision(w) \in RevisionRow
           /\ req[w] \in Requests /\ pc[w] = "insert_revision" /\ Calculations!Finish(w)
           /\ UNCHANGED <<calculations, made>>
           /\ Calculations!NewRevision(w).number
                  = 1 + Cardinality(Calculations!RevisionsOf(req[w].calculation))
<1> DEFINE id == req[w].calculation
           mine == Calculations!RevisionsOf(id)
           n == Cardinality(mine)
<1>1. /\ pc[w] = "insert_revision"
      /\ \A i \in mine : revisions[i].number # ctx[w].number
      /\ revisions' = Append(revisions, Calculations!NewRevision(w))
      /\ Calculations!Finish(w) /\ UNCHANGED <<calculations, made>>
    BY DEF Calculations!InsertRevision, Calculations!Refuse, Calculations!tables
<1>2. /\ Grounds(w) /\ revisions \in Seq(RevisionRow) /\ NumbersTaken
      /\ req[w] \in Requests
    BY <1>1 DEF CalculationInv, RevisionTable, Grounds
<1>3. /\ ctx[w].number \in 1 .. 1 + n /\ Head(ctx[w].rows).serial \in Nat
      /\ id \in Revises /\ req[w].user \in Users
    BY <1>1, <1>2 DEF Grounds, Revises, Users
<1>4. n \in Nat
    BY <1>2, RevisionsOfFinite
<1>5. ctx[w].number \notin 1 .. n
    BY <1>1, <1>2, <1>3 DEF NumbersTaken
<1>6. ctx[w].number = 1 + n
  <2> HIDE DEF n
  <2>1. QED
      BY <1>3, <1>4, <1>5
<1>7. Calculations!NewRevision(w) \in RevisionRow /\ Calculations!NewRevision(w).number = 1 + n
  <2>1. (Calculations!LockedBy(id) # {}) \in BOOLEAN /\ 1 + n \in Nat
      BY <1>4
  <2> HIDE DEF n
  <2>2. QED
      BY <1>3, <1>6, <2>1 DEF Calculations!NewRevision, RevisionRow
<1>8. QED
    BY <1>1, <1>2, <1>7

(* A revision is a row more, or the table refuses its number.              *)
LEMMA InsertRevisionKeeps ==
    ASSUME CalculationInv, NEW w \in Workers, Calculations!InsertRevision(w)
    PROVE  CalculationInv' /\ RevisionsGrow
<1>1. CASE Calculations!Refuse(w)
  <2>1. UNCHANGED <<calculations, made, revisions>>
      BY <1>1 DEF Calculations!Refuse, Calculations!tables
  <2>2. QED
      BY <1>1, <2>1, RefuseKeeps, SameCalculations DEF Calculations!Refuse
<1>2. CASE ~Calculations!Refuse(w)
  <2> DEFINE id == req[w].calculation
             last == Len(revisions) + 1
             n == Cardinality(Calculations!RevisionsOf(id))
  <2>1. PICK row : row = Calculations!NewRevision(w)
      OBVIOUS
  <2>2. /\ revisions' = Append(revisions, row) /\ row \in RevisionRow
        /\ Calculations!Finish(w) /\ UNCHANGED <<calculations, made>>
        /\ row.number = 1 + n /\ req[w] \in Requests
    <3>1. revisions' = Append(revisions, row)
      BY <1>2, <2>1 DEF Calculations!InsertRevision
    <3>2. revisions' # revisions
      BY <3>1 DEF CalculationInv, RevisionTable
    <3>3. QED
      BY <2>1, <3>2, InsertRevisionAppends
  <2>3. /\ row.id = id /\ row.status = "draft"
      BY <2>1 DEF Calculations!NewRevision
  <2>4. /\ revisions \in Seq(RevisionRow) /\ Calculations!ReviewsGrounded
        /\ Calculations!RevisionsNumbered /\ NumbersTaken
      BY DEF CalculationInv, RevisionTable
  <2>5. /\ revisions' \in Seq(RevisionRow)
        /\ DOMAIN revisions' = DOMAIN revisions \cup {last}
        /\ Len(revisions) \in Nat /\ DOMAIN revisions = 1 .. Len(revisions)
        /\ revisions'[last] = row
        /\ \A j \in DOMAIN revisions : j \in DOMAIN revisions' /\ revisions'[j] = revisions[j]
      BY <2>2, <2>4
  <2>6. RevisionsGrow
      BY <2>5 DEF RevisionsGrow
  <2>7. Calculations!ReviewsGrounded'
    <3>1. SUFFICES ASSUME NEW i \in DOMAIN revisions'
                   PROVE  /\ revisions'[i].status \in {"approved", "rejected"} =>
                                revisions'[i].reviewer \in Reviewers \ {revisions'[i].creator}
                          /\ revisions'[i].status = "approved" => revisions'[i].locked
      BY DEF Calculations!ReviewsGrounded
    <3>2. CASE i = last
      BY <2>3, <2>5, <3>2
    <3>3. CASE i \in DOMAIN revisions
      BY <2>4, <2>5, <3>3 DEF Calculations!ReviewsGrounded
    <3>4. QED
      BY <2>5, <3>2, <3>3
  <2> DEFINE R(e) == {k \in DOMAIN revisions' : revisions'[k].id = e}
  <2>8. \A e : Calculations!RevisionsOf(e)' = R(e)
      BY DEF Calculations!RevisionsOf
  <2>9. /\ R(id) = Calculations!RevisionsOf(id) \cup {last}
        /\ \A e : e # id => R(e) = Calculations!RevisionsOf(e)
        /\ last \notin Calculations!RevisionsOf(id)
      BY <2>3, <2>5 DEF Calculations!RevisionsOf
  <2> HIDE DEF R
  <2>10. n \in Nat /\ Cardinality(R(id)) = n + 1
    <3>1. IsFiniteSet(Calculations!RevisionsOf(id)) /\ n \in Nat
      BY <2>4, RevisionsOfFinite
    <3>2. Cardinality(Calculations!RevisionsOf(id) \cup {last})
              = Cardinality(Calculations!RevisionsOf(id)) + 1
      BY <2>9, <3>1, FS_AddElement
    <3>3. QED
      BY <2>9, <3>1, <3>2
  <2>11. Calculations!RevisionsNumbered'
    <3>1. SUFFICES ASSUME NEW i \in DOMAIN revisions', NEW e, e = revisions'[i].id
                   PROVE  revisions'[i].number = Cardinality({j \in R(e) : j <= i})
      BY <2>8, CalculationsCardinality DEF Calculations!RevisionsNumbered
    <3>2. CASE i = last
      <4>1. e = id /\ revisions'[i].number = n + 1
        BY <2>2, <2>3, <2>5, <2>10, <3>1, <3>2
      <4>2. {j \in R(e) : j <= i} = R(e)
        <5>1. R(e) \subseteq DOMAIN revisions'
          BY DEF R
        <5>2. \A j \in DOMAIN revisions' : j <= i
          BY <2>5, <3>2
        <5>3. QED
          BY <5>1, <5>2
      <4>3. QED
        BY <2>10, <4>1, <4>2
    <3>3. CASE i \in DOMAIN revisions
      <4>1. revisions'[i] = revisions[i] /\ revisions[i].id = e
        BY <2>5, <3>1, <3>3
      <4>2. {j \in R(e) : j <= i} = {j \in Calculations!RevisionsOf(e) : j <= i}
        <5>1. ~(last <= i)
          BY <2>5, <3>3
        <5>2. R(e) = Calculations!RevisionsOf(e)
              \/ R(e) = Calculations!RevisionsOf(e) \cup {last}
          BY <2>9
        <5>3. QED
          BY <5>1, <5>2
      <4>3. revisions[i].number = Cardinality({j \in Calculations!RevisionsOf(e) : j <= i})
        BY <2>4, <3>3, <4>1, CalculationsCardinality DEF Calculations!RevisionsNumbered
      <4>4. QED
        BY <4>1, <4>2, <4>3
    <3>4. QED
      BY <2>5, <3>2, <3>3
  <2>12. NumbersTaken'
    <3>1. SUFFICES ASSUME NEW e \in Revises, NEW k \in 1 .. Cardinality(R(e))
                   PROVE  \E j \in R(e) : revisions'[j].number = k
      BY <2>8 DEF NumbersTaken
    <3>2. CASE e = id /\ k = n + 1
      BY <2>2, <2>5, <2>9, <2>10, <3>2
    <3>3. CASE e # id \/ k # n + 1
      <4>1. k \in 1 .. Cardinality(Calculations!RevisionsOf(e))
        <5>1. CASE e # id
          BY <2>9, <5>1
        <5>2. CASE e = id
          <6>1. k \in 1 .. n + 1 /\ k # n + 1
            BY <2>10, <3>3, <5>2
          <6> HIDE DEF n
          <6>2. k \in 1 .. n
            BY <2>10, <6>1
          <6>3. QED
            BY <5>2, <6>2 DEF n
        <5>3. QED
          BY <5>1, <5>2
      <4>2. PICK j \in Calculations!RevisionsOf(e) : revisions[j].number = k
        BY <2>4, <4>1 DEF NumbersTaken
      <4>3. j \in DOMAIN revisions /\ j \in R(e)
        BY <2>9 DEF Calculations!RevisionsOf
      <4>4. QED
        BY <2>5, <4>2, <4>3
    <3>4. QED
      BY <3>2, <3>3
  <2>13. RevisionTable' /\ CalculationRows'
      BY <2>2, <2>5, <2>7, <2>11, <2>12, SameCalculations DEF RevisionTable
  <2>14. OneMoves(w) /\ Grounds(w)'
    <3>1. OneMoves(w) /\ pc'[w] = "idle"
      BY <2>2, FinishMoves DEF CalculationInv
    <3>2. QED
      BY <3>1 DEF Grounds
  <2>15. QED
      BY <2>6, <2>13, <2>14, CalculationStepKeeps
<1>3. QED
    BY <1>1, <1>2

(* A decision is of somebody else, with the role, and changes no more than *)
(* the status, the lock and the reviewer of one revision.                  *)
LEMMA DecideWrites ==
    ASSUME CalculationInv, NEW w \in Workers, Calculations!Decide(w)
    PROVE  LET i == req[w].revision
               row == Calculations!Decided(revisions[i], req[w]) IN
           /\ pc[w] = "decide" /\ Calculations!Finish(w) /\ UNCHANGED <<calculations, made>>
           /\ i \in DOMAIN revisions
           /\ revisions' = [revisions EXCEPT ![i] = row]
           /\ revisions' \in Seq(RevisionRow) /\ DOMAIN revisions' = DOMAIN revisions
           /\ row.id = revisions[i].id /\ row.number = revisions[i].number
           /\ row.creator = revisions[i].creator /\ row.late = revisions[i].late
           /\ revisions[i].locked => row.locked
           /\ row.status \in {"approved", "rejected"} => row.reviewer \in Reviewers \ {row.creator}
           /\ row.status = "approved" => row.locked
           /\ row.status # "approved" => row.locked = revisions[i].locked
<1> DEFINE i == req[w].revision
           old == revisions[i]
           row == Calculations!Decided(old, req[w])
<1>1. /\ pc[w] = "decide" /\ Calculations!Finish(w) /\ UNCHANGED <<calculations, made>>
      /\ revisions' = [revisions EXCEPT ![i] = row]
    BY DEF Calculations!Decide
<1>2. /\ i \in DOMAIN revisions /\ req[w] \in Requests
      /\ req[w].op \in {"submit", "approve", "reject"}
      /\ req[w].op # "submit" => req[w].user \in Reviewers \ {old.creator}
      /\ revisions \in Seq(RevisionRow)
    BY <1>1 DEF CalculationInv, Grounds, RevisionTable
<1>3. old \in RevisionRow /\ req[w].user \in Users
    BY <1>2 DEF Users
<1>4. /\ row \in RevisionRow
      /\ row.id = old.id /\ row.number = old.number
      /\ row.creator = old.creator /\ row.late = old.late
      /\ old.locked => row.locked
      /\ row.status \in {"approved", "rejected"} => row.reviewer \in Reviewers \ {row.creator}
      /\ row.status = "approved" => row.locked
      /\ row.status # "approved" => row.locked = old.locked
  <2>1. CASE req[w].op = "submit"
    <3>1. row = [old EXCEPT !.status = "review"]
      BY <2>1 DEF Calculations!Decided
    <3> HIDE DEF row
    <3>2. QED
      BY <1>3, <3>1 DEF RevisionRow
  <2>2. CASE req[w].op = "approve"
    <3>1. row = [old EXCEPT !.status = "approved", !.locked = TRUE, !.reviewer = req[w].user]
      BY <2>2 DEF Calculations!Decided
    <3> HIDE DEF row
    <3>2. QED
      BY <1>2, <1>3, <2>2, <3>1 DEF RevisionRow
  <2>3. CASE req[w].op = "reject"
    <3>1. row = [old EXCEPT !.status = "rejected", !.reviewer = req[w].user]
      BY <2>3 DEF Calculations!Decided
    <3> HIDE DEF row
    <3>2. QED
      BY <1>2, <1>3, <2>3, <3>1 DEF RevisionRow
  <2>4. QED
      BY <1>2, <2>1, <2>2, <2>3
<1> HIDE DEF row
<1>5. revisions' \in Seq(RevisionRow) /\ DOMAIN revisions' = DOMAIN revisions
    BY <1>1, <1>2, <1>4
<1>6. QED
    BY <1>1, <1>2, <1>4, <1>5 DEF row

(* A decision changes one row, and nothing that others rely on.            *)
LEMMA DecideKeeps ==
    ASSUME CalculationInv, NEW w \in Workers, Calculations!Decide(w)
    PROVE  CalculationInv' /\ RevisionsGrow
<1> DEFINE i == req[w].revision
<1>1. PICK row : row = Calculations!Decided(revisions[i], req[w])
    OBVIOUS
<1>2. /\ Calculations!Finish(w) /\ UNCHANGED <<calculations, made>>
      /\ i \in DOMAIN revisions
      /\ revisions' = [revisions EXCEPT ![i] = row]
      /\ revisions' \in Seq(RevisionRow) /\ DOMAIN revisions' = DOMAIN revisions
      /\ row.id = revisions[i].id /\ row.number = revisions[i].number
      /\ row.creator = revisions[i].creator
      /\ revisions[i].locked => row.locked
      /\ row.status \in {"approved", "rejected"} => row.reviewer \in Reviewers \ {row.creator}
      /\ row.status = "approved" => row.locked
    BY <1>1, DecideWrites
<1>3. \A j \in DOMAIN revisions :
          /\ revisions'[j].id = revisions[j].id /\ revisions'[j].number = revisions[j].number
          /\ revisions'[j].creator = revisions[j].creator
          /\ revisions[j].locked => revisions'[j].locked
          /\ revisions'[j] = row \/ revisions'[j] = revisions[j]
    BY <1>2
<1>4. \A e : Calculations!RevisionsOf(e)' = Calculations!RevisionsOf(e)
    BY <1>2, <1>3 DEF Calculations!RevisionsOf
<1>5. Calculations!ReviewsGrounded'
    BY <1>2, <1>3 DEF CalculationInv, RevisionTable, Calculations!ReviewsGrounded
<1>6. Calculations!RevisionsNumbered' /\ NumbersTaken'
  <2>1. ASSUME NEW j \in DOMAIN revisions', NEW e, e = revisions'[j].id
        PROVE  revisions'[j].number = Cardinality({k \in Calculations!RevisionsOf(e)' : k <= j})
    <3>1. revisions[j].number = Cardinality({k \in Calculations!RevisionsOf(e) : k <= j})
      BY <1>2, <1>3, <2>1, CalculationsCardinality
      DEF CalculationInv, RevisionTable, Calculations!RevisionsNumbered
    <3>2. QED
      BY <1>2, <1>3, <1>4, <3>1
  <2>2. Calculations!RevisionsNumbered'
      BY <2>1, CalculationsCardinality DEF Calculations!RevisionsNumbered
  <2>3. ASSUME NEW e \in Revises, NEW k \in 1 .. Cardinality(Calculations!RevisionsOf(e))
        PROVE  \E j \in Calculations!RevisionsOf(e) : revisions'[j].number = k
    <3>1. PICK j \in Calculations!RevisionsOf(e) : revisions[j].number = k
      BY <2>3 DEF CalculationInv, RevisionTable, NumbersTaken
    <3>2. j \in DOMAIN revisions
      BY DEF Calculations!RevisionsOf
    <3>3. QED
      BY <1>3, <3>1, <3>2
  <2>4. NumbersTaken'
      BY <1>4, <2>3 DEF NumbersTaken
  <2>5. QED
      BY <2>2, <2>4
<1>7. RevisionsGrow
    BY <1>2, <1>3 DEF RevisionsGrow
<1>8. OneMoves(w) /\ Grounds(w)'
  <2>1. OneMoves(w) /\ pc'[w] = "idle"
      BY <1>2, FinishMoves DEF CalculationInv
  <2>2. QED
      BY <2>1 DEF Grounds
<1>9. RevisionTable' /\ CalculationRows'
    BY <1>2, <1>5, <1>6, SameCalculations DEF RevisionTable
<1>10. QED
    BY <1>7, <1>8, <1>9, CalculationStepKeeps

-----------------------------------------------------------------------------

(* The empty tables.                                                       *)
LEMMA CalculationInit == Calculations!Init => CalculationInv
<1> SUFFICES ASSUME Calculations!Init PROVE CalculationInv
    OBVIOUS
<1>1. CalculationRows
    BY DEF Calculations!Init, CalculationRows
<1>2. RevisionTable
  <2>1. \A e : Calculations!RevisionsOf(e) = {}
      BY DEF Calculations!Init, Calculations!RevisionsOf
  <2>2. NumbersTaken
      BY <2>1, FS_EmptySet DEF NumbersTaken
  <2>3. QED
      BY <2>2 DEF Calculations!Init, RevisionTable, Calculations!ReviewsGrounded,
                  Calculations!RevisionsNumbered
<1>3. CalculationControl
    BY DEF Calculations!Init, CalculationControl, Calculations!NoContext, ContextFields,
           CalculationSteps
<1>4. \A w \in Workers : Grounds(w)
    BY DEF Calculations!Init, Grounds
<1>5. QED
    BY <1>1, <1>2, <1>3, <1>4 DEF CalculationInv

(* Every step of the calculations, and none.                               *)
LEMMA CalculationNextKeeps ==
    ASSUME CalculationInv, Calculations!Next
    PROVE  CalculationInv' /\ RevisionsGrow
<1>1. PICK w \in Workers : (\E r \in Requests : Calculations!Receive(w, r)) \/ Calculations!Step(w)
    BY DEF Calculations!Next
<1>2. CASE \E r \in Requests : Calculations!Receive(w, r)
    BY <1>2, ReceiveKeeps
<1>3. CASE Calculations!Step(w)
    BY <1>3, PlainStepsKeep, InsertCalculationKeeps, RevisingReadKeeps, ReviewingReadKeeps,
       InsertRevisionKeeps, DecideKeeps DEF Calculations!Step
<1>4. QED
    BY <1>1, <1>2, <1>3

LEMMA CalculationStutterKeeps ==
    ASSUME CalculationInv, UNCHANGED calculationVars
    PROVE  CalculationInv' /\ RevisionsGrow
<1>1. RevisionTable' /\ RevisionsGrow /\ CalculationRows'
    BY SameRevisions, SameCalculations DEF calculationVars
<1>2. CalculationControl'
    BY DEF CalculationInv, CalculationControl, calculationVars
<1>3. \A w \in Workers : Grounds(w)'
    BY <1>1, OtherGrounds DEF calculationVars, RevisionTable
<1>4. QED
    BY <1>1, <1>2, <1>3 DEF CalculationInv

-----------------------------------------------------------------------------
(* Revisions of a calculation that was locked by then.                     *)

LateOf(id) == {i \in Calculations!RevisionsOf(id) : revisions[i].late}

(* The threads that found no lock and have not written their revision yet. *)
PastTheCheck(id) ==
    {w \in Workers : pc[w] \in {"number", "insert_revision"} /\ req[w].calculation = id}

(* Once a calculation is locked, its late revisions and the threads that   *)
(* may add another one are together fewer than the threads: the thread     *)
(* whose decision locked it was not among them.                            *)
LateCounted ==
    /\ made > 0 => Workers # {}
    /\ \A id \in Revises :
          /\ Calculations!LockedBy(id) = {} => LateOf(id) = {}
          /\ Calculations!LockedBy(id) # {} =>
                 Cardinality(LateOf(id)) + Cardinality(PastTheCheck(id)) < Cardinality(Workers)

CalculationStep(w) ==
    (\E r \in Requests : Calculations!Receive(w, r)) \/ Calculations!Step(w)

(* Revisions change in two steps only.                                     *)
LEMMA RevisionsChange ==
    ASSUME NEW w \in Workers, CalculationStep(w)
    PROVE  \/ UNCHANGED revisions
           \/ Calculations!InsertRevision(w) /\ revisions' # revisions
           \/ Calculations!Decide(w)
<1>1. CASE \E r \in Requests : Calculations!Receive(w, r)
    BY <1>1 DEF Calculations!Receive, Calculations!tables
<1>2. CASE \/ Calculations!CheckProject(w) \/ Calculations!InsertCalculation(w)
           \/ Calculations!ReadActive(w) \/ Calculations!InsertTrace(w)
           \/ Calculations!DeleteCalculation(w) \/ Calculations!ReadCalculation(w)
           \/ Calculations!FindLock(w)
    BY <1>2
    DEF Calculations!CheckProject, Calculations!InsertCalculation, Calculations!ReadActive,
        Calculations!InsertTrace, Calculations!DeleteCalculation, Calculations!ReadCalculation,
        Calculations!FindLock, Calculations!Refuse, Calculations!tables
<1>3. CASE \/ Calculations!NextNumber(w) \/ Calculations!ReadSubmitted(w)
           \/ Calculations!ReadReviewed(w) \/ Calculations!ListCalculations(w)
           \/ Calculations!ReadItem(w) \/ Calculations!InsertRelease(w)
    BY <1>3
    DEF Calculations!NextNumber, Calculations!ReadSubmitted, Calculations!ReadReviewed,
        Calculations!ListCalculations, Calculations!ReadItem, Calculations!InsertRelease,
        Calculations!Refuse, Calculations!tables
<1>4. QED
    BY <1>1, <1>2, <1>3 DEF CalculationStep, Calculations!Step

(* Nobody gets past the check once the calculation is locked.              *)
LEMMA CheckStopsTheRest ==
    ASSUME CalculationInv, NEW w \in Workers, CalculationStep(w), NEW id,
           Calculations!LockedBy(id) # {}
    PROVE  PastTheCheck(id)' \subseteq PastTheCheck(id)
<1>1. /\ CalculationControl
      /\ \A v \in Workers \ {w} : pc'[v] = pc[v] /\ req'[v] = req[v]
    BY StepMoves, OneMovesKeeps DEF CalculationInv, CalculationStep
<1>2. ASSUME pc'[w] \in {"number", "insert_revision"}, req'[w].calculation = id
      PROVE  w \in PastTheCheck(id)
  <2>1. CASE Calculations!Finish(w)
      BY <1>1, <1>2, <2>1 DEF Calculations!Finish, CalculationControl
  <2>2. CASE \E r \in Requests : Calculations!Receive(w, r)
    <3>1. PICK r \in Requests : Calculations!Receive(w, r)
      BY <2>2
    <3>2. pc'[w] \in {"insert", r.op}
      BY <1>1, <3>1 DEF Calculations!Receive, CalculationControl
    <3>3. QED
      BY <1>2, <3>2, RequestsAssumption
  <2>3. CASE Calculations!FindLock(w) /\ ~Calculations!Finish(w)
    <3>1. Calculations!LockedBy(req[w].calculation) = {} /\ UNCHANGED req
      BY <2>3 DEF Calculations!FindLock, Calculations!Refuse, Calculations!Goto
    <3>2. QED
      BY <1>2, <3>1
  <2>4. CASE Calculations!NextNumber(w)
    <3>1. pc[w] = "number" /\ UNCHANGED req
      BY <2>4 DEF Calculations!NextNumber, Calculations!Goto
    <3>2. QED
      BY <1>2, <3>1 DEF PastTheCheck
  <2>5. CASE /\ ~Calculations!Finish(w)
             /\ \/ Calculations!CheckProject(w) \/ Calculations!InsertCalculation(w)
                \/ Calculations!ReadActive(w) \/ Calculations!ReadCalculation(w)
                \/ Calculations!ReadSubmitted(w) \/ Calculations!ReadReviewed(w)
                \/ Calculations!ListCalculations(w) \/ Calculations!ReadItem(w)
    <3>1. /\ ~Calculations!Refuse(w)
          /\ pc'[w] \in {"insert", "matrix", "list", "active", "trace", "locked", "decide", "item"}
      <4>1. ~Calculations!Refuse(w)
        BY <2>5 DEF Calculations!Refuse
      <4>2. CASE Calculations!CheckProject(w)
        BY <1>1, <4>1, <4>2 DEF Calculations!CheckProject, Calculations!Goto, CalculationControl
      <4>3. CASE ~Calculations!CheckProject(w)
        BY <1>1, <2>5, <4>1, <4>3
        DEF Calculations!InsertCalculation, Calculations!ReadActive,
            Calculations!ReadCalculation, Calculations!ReadSubmitted, Calculations!ReadReviewed,
            Calculations!ListCalculations, Calculations!ReadItem, Calculations!Goto,
            CalculationControl
      <4>4. QED
        BY <4>1, <4>2, <4>3
    <3>2. QED
      BY <1>2, <3>1
  <2>6. CASE \/ Calculations!InsertTrace(w) \/ Calculations!DeleteCalculation(w)
             \/ Calculations!InsertRevision(w) \/ Calculations!Decide(w)
             \/ Calculations!InsertRelease(w)
    <3>1. Calculations!Finish(w)
      BY <2>6 DEF Calculations!InsertTrace, Calculations!DeleteCalculation, Calculations!Decide,
                  Calculations!InsertRevision, Calculations!InsertRelease, Calculations!Refuse
    <3>2. QED
      BY <2>1, <3>1
  <2>7. QED
      BY <2>1, <2>2, <2>3, <2>4, <2>5, <2>6 DEF CalculationStep, Calculations!Step
<1>3. QED
    BY <1>1, <1>2 DEF PastTheCheck

(* How a step may change what the bound counts.                            *)
LEMMA LateChange ==
    ASSUME CalculationInv, NEW w \in Workers, CalculationStep(w), NEW id
    PROVE  \/ /\ LateOf(id)' = LateOf(id)
              /\ Calculations!LockedBy(id) # {} =>
                     /\ Calculations!LockedBy(id)' # {}
                     /\ PastTheCheck(id)' \subseteq PastTheCheck(id)
              /\ Calculations!LockedBy(id)' # {} /\ Calculations!LockedBy(id) = {} =>
                     PastTheCheck(id)' \subseteq Workers \ {w}
           \/ /\ LateOf(id)' = LateOf(id) \cup {Len(revisions) + 1}
              /\ Calculations!LockedBy(id) # {} /\ w \in PastTheCheck(id)
              /\ PastTheCheck(id)' \subseteq PastTheCheck(id) \ {w}
<1>1. CASE UNCHANGED revisions
  <2>1. LateOf(id)' = LateOf(id) /\ Calculations!LockedBy(id)' = Calculations!LockedBy(id)
      BY <1>1 DEF LateOf, Calculations!RevisionsOf, Calculations!LockedBy
  <2>2. QED
      BY <2>1, CheckStopsTheRest
<1>2. CASE Calculations!Decide(w)
  <2>1. PICK i, row :
            /\ i \in DOMAIN revisions /\ revisions' = [revisions EXCEPT ![i] = row]
            /\ DOMAIN revisions' = DOMAIN revisions
            /\ row.id = revisions[i].id /\ row.late = revisions[i].late
            /\ revisions[i].locked => row.locked
            /\ Calculations!Finish(w)
      BY <1>2, DecideWrites
  <2>2. LateOf(id)' = LateOf(id) /\ Calculations!LockedBy(id) \subseteq Calculations!LockedBy(id)'
      BY <2>1 DEF LateOf, Calculations!RevisionsOf, Calculations!LockedBy
  <2>3. pc'[w] = "idle"
      BY <2>1, FinishMoves DEF CalculationInv
  <2>4. PastTheCheck(id)' \subseteq Workers \ {w}
      BY <2>3 DEF PastTheCheck
  <2>5. QED
      BY <2>2, <2>4, CheckStopsTheRest
<1>3. CASE Calculations!InsertRevision(w) /\ revisions' # revisions
  <2>1. PICK row : row = Calculations!NewRevision(w)
      OBVIOUS
  <2>2. /\ revisions' = Append(revisions, row) /\ row \in RevisionRow
        /\ Calculations!Finish(w) /\ pc[w] = "insert_revision"
        /\ revisions \in Seq(RevisionRow)
      BY <1>3, <2>1, InsertRevisionAppends DEF CalculationInv, RevisionTable
  <2>3. /\ row.id = req[w].calculation /\ ~row.locked
        /\ row.late = (Calculations!LockedBy(req[w].calculation) # {})
      BY <2>1 DEF Calculations!NewRevision
  <2>4. /\ DOMAIN revisions' = DOMAIN revisions \cup {Len(revisions) + 1}
        /\ Len(revisions) + 1 \notin DOMAIN revisions
        /\ revisions'[Len(revisions) + 1] = row
        /\ \A j \in DOMAIN revisions : revisions'[j] = revisions[j]
      BY <2>2
  <2>5. Calculations!LockedBy(id)' = Calculations!LockedBy(id)
      BY <2>3, <2>4 DEF Calculations!LockedBy, Calculations!RevisionsOf
  <2>6. pc'[w] = "idle"
      BY <2>2, FinishMoves DEF CalculationInv
  <2>7. w \notin PastTheCheck(id)'
      BY <2>6 DEF PastTheCheck
  <2>8. CASE row.id = id /\ row.late
    <3>1. LateOf(id)' = LateOf(id) \cup {Len(revisions) + 1}
      BY <2>4, <2>8 DEF LateOf, Calculations!RevisionsOf
    <3>2. w \in PastTheCheck(id)
      BY <2>2, <2>3, <2>8 DEF PastTheCheck
    <3>3. Calculations!LockedBy(id) # {}
      BY <2>3, <2>8
    <3>4. QED
      BY <2>7, <3>1, <3>2, <3>3, CheckStopsTheRest
  <2>9. CASE ~(row.id = id /\ row.late)
    <3>1. LateOf(id)' = LateOf(id)
      BY <2>4, <2>9 DEF LateOf, Calculations!RevisionsOf
    <3>2. QED
      BY <2>5, <3>1, CheckStopsTheRest
  <2>10. QED
      BY <2>8, <2>9
<1>4. QED
    BY <1>1, <1>2, <1>3, RevisionsChange

(* The bound is kept.                                                      *)
LEMMA LateStepKeeps ==
    ASSUME CalculationInv, LateCounted, Calculations!Next, IsFiniteSet(Workers)
    PROVE  LateCounted'
<1>1. PICK w \in Workers : CalculationStep(w)
    BY DEF Calculations!Next, CalculationStep
<1>2. SUFFICES ASSUME NEW id \in Revises
               PROVE  /\ Calculations!LockedBy(id)' = {} => LateOf(id)' = {}
                      /\ Calculations!LockedBy(id)' # {} =>
                             Cardinality(LateOf(id)') + Cardinality(PastTheCheck(id)')
                                 < Cardinality(Workers)
    BY <1>1 DEF LateCounted
<1> DEFINE L == LateOf(id)
           P == PastTheCheck(id)
           locked == Calculations!LockedBy(id) # {}
<1>3. /\ IsFiniteSet(L) /\ Cardinality(L) \in Nat
      /\ (Len(revisions) + 1) \notin L
  <2>1. revisions \in Seq(RevisionRow)
      BY DEF CalculationInv, RevisionTable
  <2>2. IsFiniteSet(Calculations!RevisionsOf(id)) /\ L \subseteq Calculations!RevisionsOf(id)
      BY <2>1, RevisionsOfFinite DEF LateOf
  <2>3. IsFiniteSet(L) /\ Cardinality(L) \in Nat
      BY <2>2, FS_Subset, FS_CardinalityType
  <2>4. Calculations!RevisionsOf(id) \subseteq 1 .. Len(revisions) /\ Len(revisions) \in Nat
      BY <2>1 DEF Calculations!RevisionsOf
  <2>5. QED
      BY <2>2, <2>3, <2>4
<1>4. ASSUME NEW B \in SUBSET Workers PROVE IsFiniteSet(B) /\ Cardinality(B) \in Nat
    BY <1>4, FS_Subset, FS_CardinalityType
<1>5. P \in SUBSET Workers /\ Cardinality(Workers) \in Nat /\ Cardinality(P) \in Nat
    BY <1>4, FS_CardinalityType DEF PastTheCheck
<1>6. /\ ~locked => L = {}
      /\ locked => Cardinality(L) + Cardinality(P) < Cardinality(Workers)
    BY DEF LateCounted
<1> DEFINE L2 == LateOf(id)'
           P2 == PastTheCheck(id)'
           locked2 == Calculations!LockedBy(id)' # {}
<1>7. /\ P2 \in SUBSET Workers
      /\ \/ /\ L2 = L /\ (locked => locked2 /\ P2 \subseteq P)
            /\ locked2 /\ ~locked => P2 \subseteq Workers \ {w}
         \/ /\ L2 = L \cup {Len(revisions) + 1} /\ locked /\ w \in P
            /\ P2 \subseteq P \ {w} /\ locked2
  <2>1. P2 \in SUBSET Workers
      BY DEF PastTheCheck
  <2>2. locked => locked2
      BY <1>1, CalculationNextKeeps DEF Calculations!Next, CalculationStep, RevisionsGrow,
         Calculations!LockedBy, Calculations!RevisionsOf
  <2>3. QED
      BY <1>1, <2>1, <2>2, LateChange
<1>8. SUFFICES /\ ~locked2 => L2 = {}
               /\ locked2 => Cardinality(L2) + Cardinality(P2) < Cardinality(Workers)
    OBVIOUS
<1> HIDE DEF L, P, locked, L2, P2, locked2
<1>9. CASE /\ L2 = L /\ (locked => locked2 /\ P2 \subseteq P)
           /\ locked2 /\ ~locked => P2 \subseteq Workers \ {w}
  <2>1. CASE locked
    <3>1. Cardinality(P2) <= Cardinality(P) /\ Cardinality(P2) \in Nat
      BY <1>4, <1>5, <1>7, <1>9, <2>1, FS_Subset
    <3>2. QED
      BY <1>3, <1>5, <1>6, <1>9, <2>1, <3>1
  <2>2. CASE ~locked /\ locked2
    <3>1. Cardinality(Workers \ {w}) = Cardinality(Workers) - 1
      BY FS_RemoveElement
    <3>2. P2 \subseteq Workers \ {w} /\ IsFiniteSet(Workers \ {w})
      BY <1>4, <1>9, <2>2
    <3>3. Cardinality(P2) <= Cardinality(Workers \ {w}) /\ Cardinality(P2) \in Nat
      BY <1>4, <1>7, <3>2, FS_Subset
    <3>4. Cardinality(L2) = 0
      BY <1>6, <1>9, <2>2, FS_EmptySet
    <3>5. QED
      BY <1>5, <2>2, <3>1, <3>3, <3>4
  <2>3. CASE ~locked /\ ~locked2
      BY <1>6, <1>9, <2>3
  <2>4. QED
      BY <2>1, <2>2, <2>3
<1>10. CASE /\ L2 = L \cup {Len(revisions) + 1} /\ locked /\ w \in P
            /\ P2 \subseteq P \ {w} /\ locked2
  <2>1. Cardinality(L2) = Cardinality(L) + 1
      BY <1>3, <1>10, FS_AddElement
  <2>2. IsFiniteSet(P) /\ IsFiniteSet(P \ {w}) /\ Cardinality(P \ {w}) = Cardinality(P) - 1
    <3>1. IsFiniteSet(P) /\ P \ {w} \in SUBSET Workers
      BY <1>4, <1>5
    <3>2. QED
      BY <1>4, <1>10, <3>1, FS_RemoveElement
  <2>3. Cardinality(P2) <= Cardinality(P \ {w}) /\ Cardinality(P2) \in Nat
      BY <1>4, <1>7, <1>10, <2>2, FS_Subset
  <2>4. QED
      BY <1>3, <1>5, <1>6, <1>10, <2>1, <2>2, <2>3
<1>11. QED
    BY <1>7, <1>9, <1>10

LEMMA LateStutterKeeps ==
    ASSUME LateCounted, UNCHANGED calculationVars
    PROVE  LateCounted'
<1>1. made' = made
    BY DEF calculationVars
<1>2. ASSUME NEW id
      PROVE  /\ LateOf(id)' = LateOf(id) /\ PastTheCheck(id)' = PastTheCheck(id)
             /\ Calculations!LockedBy(id)' = Calculations!LockedBy(id)
    BY DEF calculationVars, LateOf, PastTheCheck, Calculations!LockedBy,
           Calculations!RevisionsOf
<1>3. QED
    BY <1>1, <1>2 DEF LateCounted

(* A calculation that was locked when a revision was made has fewer such   *)
(* revisions than there are threads.                                       *)
LEMMA LateCountedBounds ==
    ASSUME CalculationInv, LateCounted, IsFiniteSet(Workers)
    PROVE  Calculations!LateRevisionsBounded
<1>1. SUFFICES ASSUME NEW id \in 1 .. made
               PROVE  Cardinality(LateOf(id)) < Cardinality(Workers)
    BY CalculationsCardinality DEF Calculations!LateRevisionsBounded, LateOf
<1>2. made > 0
    BY DEF CalculationInv, CalculationRows
<1>3. Cardinality(Workers) \in Nat /\ Cardinality(Workers) > 0
  <2>1. Cardinality(Workers) \in Nat /\ Workers # {}
      BY <1>2, FS_CardinalityType DEF LateCounted
  <2>2. Cardinality(Workers) # 0
      BY <2>1, FS_EmptySet
  <2>3. QED
      BY <2>1, <2>2
<1>4. Cardinality({}) = 0
    BY FS_EmptySet
<1>5. CASE id \notin Revises
  <2>1. \A i \in DOMAIN revisions : revisions[i] \in RevisionRow
      BY DEF CalculationInv, RevisionTable
  <2>2. \A i \in DOMAIN revisions : revisions[i].id \in Revises
      BY <2>1 DEF RevisionRow
  <2>3. LateOf(id) = {}
      BY <1>5, <2>2 DEF LateOf, Calculations!RevisionsOf
  <2>4. QED
      BY <1>3, <1>4, <2>3
<1>6. CASE id \in Revises /\ Calculations!LockedBy(id) = {}
  <2>1. LateOf(id) = {}
      BY <1>6 DEF LateCounted
  <2>2. QED
      BY <1>3, <1>4, <2>1
<1>7. CASE id \in Revises /\ Calculations!LockedBy(id) # {}
  <2>1. Cardinality(LateOf(id)) + Cardinality(PastTheCheck(id)) < Cardinality(Workers)
      BY <1>7 DEF LateCounted
  <2>2. Cardinality(PastTheCheck(id)) \in Nat
    <3>1. PastTheCheck(id) \subseteq Workers
      BY DEF PastTheCheck
    <3>2. QED
      BY <3>1, FS_Subset, FS_CardinalityType
  <2>3. Cardinality(LateOf(id)) \in Nat
    <3>1. revisions \in Seq(RevisionRow)
      BY DEF CalculationInv, RevisionTable
    <3>2. /\ IsFiniteSet(Calculations!RevisionsOf(id))
          /\ LateOf(id) \subseteq Calculations!RevisionsOf(id)
      BY <3>1, RevisionsOfFinite DEF LateOf
    <3>3. QED
      BY <3>2, FS_Subset, FS_CardinalityType
  <2>4. QED
      BY <1>3, <2>1, <2>2, <2>3
<1>8. QED
    BY <1>5, <1>6, <1>7

-----------------------------------------------------------------------------
(* Release packages.                                                       *)

Rests(item) == \E j \in item.revisions : j \in DOMAIN revisions /\ revisions[j].locked

(* The matrix that a thread reads: an item says approved only if one of    *)
(* the revisions it names is locked.                                       *)
MatrixRests(w) ==
    /\ pc[w] # "item" => ctx[w].items = <<>>
    /\ \E S : ctx[w].items \in Seq(S)
    /\ \A i \in DOMAIN ctx[w].items : ctx[w].items[i].approved => Rests(ctx[w].items[i])

ReleaseInv ==
    /\ \A w \in Workers : MatrixRests(w)
    /\ \A p \in releases : p.ready => \A i \in DOMAIN p.items : Rests(p.items[i])

(* Release packages change in one step, and matrices in two others.        *)
LEMMA MatrixChange ==
    ASSUME CalculationControl, NEW w \in Workers, CalculationStep(w)
    PROVE  \/ UNCHANGED releases /\ pc'[w] = "idle" /\ ctx'[w].items = <<>>
           \/ UNCHANGED releases /\ pc[w] # "item" /\ ctx'[w].items = ctx[w].items
           \/ Calculations!ReadItem(w)
           \/ Calculations!InsertRelease(w)
<1>1. /\ pc \in [Workers -> CalculationSteps] /\ w \in DOMAIN ctx /\ w \in DOMAIN pc
      /\ DOMAIN ctx[w] = ContextFields
    BY DEF CalculationControl
<1>2. CASE Calculations!Finish(w) /\ UNCHANGED releases
  <2>1. ctx'[w] = Calculations!NoContext /\ pc'[w] = "idle"
      BY <1>1, <1>2 DEF Calculations!Finish, CalculationControl
  <2>2. QED
      BY <1>2, <2>1 DEF Calculations!NoContext
<1>3. CASE \E r \in Requests : Calculations!Receive(w, r)
    BY <1>1, <1>3 DEF Calculations!Receive, Calculations!tables
<1>4. CASE \/ Calculations!CheckProject(w) \/ Calculations!FindLock(w)
           \/ Calculations!ReadSubmitted(w) \/ Calculations!ReadReviewed(w)
  <2>1. \/ Calculations!Finish(w) /\ UNCHANGED releases
        \/ UNCHANGED <<releases, ctx>> /\ pc[w] # "item"
      BY <1>4
      DEF Calculations!CheckProject, Calculations!FindLock, Calculations!ReadSubmitted,
          Calculations!ReadReviewed, Calculations!Refuse, Calculations!tables
  <2>2. QED
      BY <1>2, <2>1
<1>5. CASE \/ Calculations!InsertCalculation(w) \/ Calculations!ReadActive(w)
           \/ Calculations!ReadCalculation(w) \/ Calculations!NextNumber(w)
           \/ Calculations!ListCalculations(w)
  <2>1. \/ Calculations!Finish(w) /\ UNCHANGED releases
        \/ /\ UNCHANGED releases /\ pc[w] # "item"
           /\ \E field \in ContextFields : \E x :
                  field # "items" /\ ctx' = [ctx EXCEPT ![w][field] = x]
    <3>1. \E field \in {"rows", "trace", "number"} : \E x : ctx' = [ctx EXCEPT ![w][field] = x]
          \/ Calculations!Finish(w)
      <4>1. CASE Calculations!InsertCalculation(w)
        BY <4>1 DEF Calculations!InsertCalculation
      <4>2. CASE Calculations!ReadActive(w)
        BY <4>2 DEF Calculations!ReadActive
      <4>3. CASE Calculations!ReadCalculation(w)
        BY <4>3 DEF Calculations!ReadCalculation, Calculations!Refuse
      <4>4. CASE Calculations!NextNumber(w)
        BY <4>4 DEF Calculations!NextNumber
      <4>5. CASE Calculations!ListCalculations(w)
        BY <4>5 DEF Calculations!ListCalculations
      <4>6. QED
        BY <1>5, <4>1, <4>2, <4>3, <4>4, <4>5
    <3>2. UNCHANGED releases /\ pc[w] # "item"
      BY <1>5
      DEF Calculations!InsertCalculation, Calculations!ReadActive, Calculations!ReadCalculation,
          Calculations!NextNumber, Calculations!ListCalculations, Calculations!Refuse,
          Calculations!tables
    <3>3. QED
      BY <3>1, <3>2 DEF ContextFields
  <2>2. QED
      BY <1>1, <1>2, <2>1 DEF ContextFields
<1>6. CASE \/ Calculations!InsertTrace(w) \/ Calculations!DeleteCalculation(w)
           \/ Calculations!InsertRevision(w) \/ Calculations!Decide(w)
    BY <1>2, <1>6
    DEF Calculations!InsertTrace, Calculations!DeleteCalculation, Calculations!Decide,
        Calculations!InsertRevision, Calculations!Refuse, Calculations!tables
<1>7. QED
    BY <1>3, <1>4, <1>5, <1>6 DEF CalculationStep, Calculations!Step

(* What release packages rest on stays locked.                             *)
LEMMA ReleaseStepKeeps ==
    ASSUME CalculationInv, ReleaseInv, RevisionsGrow, NEW w \in Workers, CalculationStep(w)
    PROVE  ReleaseInv'
<1> DEFINE Rests2(item) == \E j \in item.revisions : j \in DOMAIN revisions' /\ revisions'[j].locked
<1>1. \A item : Rests(item) => Rests2(item)
    BY DEF Rests, RevisionsGrow
<1>2. /\ CalculationControl
      /\ \A v \in Workers \ {w} : pc'[v] = pc[v] /\ ctx'[v] = ctx[v]
    BY StepMoves, OneMovesKeeps DEF CalculationInv, CalculationStep
<1> DEFINE Good(step, items) ==
               /\ step # "item" => items = <<>>
               /\ \E S : items \in Seq(S)
               /\ \A i \in DOMAIN items : items[i].approved => Rests2(items[i])
<1>3. ASSUME NEW v \in Workers PROVE Good(pc[v], ctx[v].items)
  <2>1. MatrixRests(v)
      BY DEF ReleaseInv
  <2> HIDE DEF Rests2
  <2>2. QED
      BY <1>1, <2>1 DEF MatrixRests
<1>4. SUFFICES /\ \A v \in Workers : Good(pc'[v], ctx'[v].items)
               /\ \A p \in releases' : p.ready => \A i \in DOMAIN p.items : Rests2(p.items[i])
    BY DEF ReleaseInv, MatrixRests, Rests
<1>5. \A p \in releases : p.ready => \A i \in DOMAIN p.items : Rests2(p.items[i])
  <2> HIDE DEF Rests2
  <2>1. QED
      BY <1>1 DEF ReleaseInv
<1>6. SUFFICES /\ Good(pc'[w], ctx'[w].items)
               /\ \A p \in releases' : p.ready => \A i \in DOMAIN p.items : Rests2(p.items[i])
  <2> HIDE DEF Good
  <2>1. QED
      BY <1>2, <1>3
<1> HIDE DEF Rests2
<1>7. CASE UNCHANGED releases /\ pc'[w] = "idle" /\ ctx'[w].items = <<>>
  <2>1. <<>> \in Seq({})
      OBVIOUS
  <2>2. QED
      BY <1>5, <1>7, <2>1
<1>8. CASE UNCHANGED releases /\ pc[w] # "item" /\ ctx'[w].items = ctx[w].items
  <2>1. ctx[w].items = <<>> /\ <<>> \in Seq({})
      BY <1>3, <1>8
  <2>2. QED
      BY <1>5, <1>8, <2>1
<1>9. CASE Calculations!ReadItem(w)
  <2> DEFINE c == Head(ctx[w].rows)
             mine == Calculations!RevisionsOf(c.id)
             newest == {i \in mine : \A j \in mine : revisions[j].number <= revisions[i].number}
             row == [calculation |-> c, revisions |-> newest,
                     approved |-> \E i \in newest : revisions[i].status = "approved"]
  <2>1. PICK item : item = row
      OBVIOUS
  <2>2. ctx'[w].items = Append(ctx[w].items, item) /\ pc'[w] = "item" /\ UNCHANGED releases
      BY <1>2, <1>9, <2>1
      DEF Calculations!ReadItem, Calculations!tables, CalculationControl, ContextFields
  <2>3. item.approved => Rests2(item)
    <3>1. SUFFICES ASSUME NEW i \in newest, revisions[i].status = "approved"
                   PROVE  Rests(row)
      BY <1>1, <2>1
    <3>2. i \in DOMAIN revisions /\ revisions[i].locked
      BY <3>1 DEF CalculationInv, RevisionTable, Calculations!ReviewsGrounded,
                  Calculations!RevisionsOf
    <3>3. QED
      BY <3>1, <3>2 DEF Rests
  <2>4. PICK S : ctx[w].items \in Seq(S)
      BY <1>3
  <2>5. ctx[w].items \in Seq(S \cup {item})
      BY <2>4
  <2>6. /\ ctx'[w].items \in Seq(S \cup {item})
        /\ \A i \in DOMAIN ctx'[w].items :
              \/ i \in DOMAIN ctx[w].items /\ ctx'[w].items[i] = ctx[w].items[i]
              \/ ctx'[w].items[i] = item
      BY <2>2, <2>5
  <2>7. \A i \in DOMAIN ctx'[w].items :
            ctx'[w].items[i].approved => Rests2(ctx'[w].items[i])
      BY <1>3, <2>3, <2>6
  <2>8. QED
      BY <1>5, <2>2, <2>6, <2>7
<1>10. CASE Calculations!InsertRelease(w)
  <2> DEFINE items == ctx[w].items
             new == [items |-> items,
                     ready |-> items # <<>> /\ \A i \in DOMAIN items : items[i].approved]
  <2>1. releases' = releases \cup {new} /\ Calculations!Finish(w)
      BY <1>10 DEF Calculations!InsertRelease
  <2>2. pc'[w] = "idle" /\ ctx'[w].items = <<>>
    <3>1. ctx'[w] = Calculations!NoContext /\ pc'[w] = "idle"
      BY <1>2, <2>1 DEF Calculations!Finish, CalculationControl
    <3>2. QED
      BY <3>1 DEF Calculations!NoContext
  <2>3. new.ready => \A i \in DOMAIN new.items : Rests2(new.items[i])
      BY <1>3
  <2>4. <<>> \in Seq({})
      OBVIOUS
  <2>5. QED
      BY <1>5, <2>1, <2>2, <2>3, <2>4
<1>11. QED
    BY <1>2, <1>7, <1>8, <1>9, <1>10, MatrixChange

LEMMA ReleaseStutterKeeps ==
    ASSUME ReleaseInv, UNCHANGED calculationVars
    PROVE  ReleaseInv'
<1>1. \A w \in Workers : MatrixRests(w)'
    BY DEF ReleaseInv, MatrixRests, Rests, calculationVars
<1>2. QED
    BY <1>1 DEF ReleaseInv, Rests, calculationVars

-----------------------------------------------------------------------------
(* The traces of calculations.                                             *)

Switched == {d \in Required : Active[d] # 0}
Traced(c) == c.data \subseteq {t.dataset : t \in {u \in traces : u.serial = c.serial}}

(* The thread that saved the calculation goes on to write its trace, and   *)
(* finds all that was active when it was saved.                            *)
Tracing(w, c) ==
    /\ ctx[w].rows = <<c>>
    /\ \/ pc[w] = "active" /\ c.data \subseteq Switched
       \/ /\ pc[w] = "trace"
          /\ c.data \subseteq {d \in DOMAIN ctx[w].trace : ctx[w].trace[d] # 0}

TraceInv == \A c \in calculations : Traced(c) \/ \E w \in Workers : Tracing(w, c)

(* The data sets that a calculation finds are those with an active version.*)
LEMMA SwitchedIsActive ==
    DataRows => Switched = Required \cap Data!DatasetsOf(Data!ActiveVersions)
<1> SUFFICES ASSUME DataRows
             PROVE  Switched = Required \cap Data!DatasetsOf(Data!ActiveVersions)
    OBVIOUS
<1>1. \A i \in Data!ActiveVersions : i \in 1 .. Len(versions) /\ i # 0
    BY DEF DataRows, Data!ActiveVersions
<1>2. ASSUME NEW d \in Required
      PROVE  Active[d] # 0 <=> \E i \in Data!ActiveVersions : versions[i].dataset = d
  <2> DEFINE on == {i \in Data!ActiveVersions : versions[i].dataset = d}
  <2>1. PICK k : k = CHOOSE i \in Data!ActiveVersions : versions[i].dataset = d
      OBVIOUS
  <2>2. Active[d] = IF \E i \in Data!ActiveVersions : versions[i].dataset = d THEN k ELSE 0
      BY <2>1 DEF Active
  <2>3. (\E i \in Data!ActiveVersions : versions[i].dataset = d) => k \in Data!ActiveVersions
      BY <2>1
  <2>4. QED
      BY <1>1, <2>2, <2>3
<1>3. QED
    BY <1>2 DEF Switched, Data!DatasetsOf

(* Switching versions takes nothing from who has yet to read them.         *)
LEMMA DataStepKeepsTraces ==
    ASSUME DataInv, DataInv', DataGrows, UNCHANGED calculationVars, TraceInv
    PROVE  TraceInv'
<1>1. Switched \subseteq Switched'
  <2>1. Switched = Required \cap Data!DatasetsOf(Data!ActiveVersions)
      BY SwitchedIsActive DEF DataInv, DataTables
  <2>2. Switched' = Required \cap Data!DatasetsOf(Data!ActiveVersions)'
    <3>1. DataRows'
      BY DEF DataInv, DataTables
    <3>2. (DataRows => Switched = Required \cap Data!DatasetsOf(Data!ActiveVersions))'
      BY SwitchedIsActive, PTL
    <3>3. QED
      BY <3>1, <3>2
  <2>3. QED
      BY <2>1, <2>2 DEF DataGrows
<1>2. SUFFICES ASSUME NEW c \in calculations
               PROVE  Traced(c)' \/ \E w \in Workers : Tracing(w, c)'
    BY DEF TraceInv, calculationVars
<1>3. CASE Traced(c)
    BY <1>3 DEF Traced, calculationVars
<1>4. CASE \E w \in Workers : Tracing(w, c)
  <2>1. PICK w \in Workers : Tracing(w, c)
      BY <1>4
  <2>2. Tracing(w, c)'
      BY <1>1, <2>1 DEF Tracing, calculationVars
  <2>3. QED
      BY <2>2
<1>5. QED
    BY <1>3, <1>4 DEF TraceInv

(* Calculations and traces change in three steps, and what a thread that   *)
(* traces has to do in one other.                                          *)
LEMMA TraceChange ==
    ASSUME NEW w \in Workers, CalculationStep(w)
    PROVE  \/ Calculations!InsertCalculation(w)
           \/ Calculations!ReadActive(w)
           \/ Calculations!InsertTrace(w)
           \/ /\ calculations' \subseteq calculations /\ UNCHANGED traces
              /\ pc[w] \notin {"active", "trace"}
<1>1. CASE \E r \in Requests : Calculations!Receive(w, r)
    BY <1>1 DEF Calculations!Receive, Calculations!tables
<1>2. CASE \/ Calculations!CheckProject(w) \/ Calculations!DeleteCalculation(w)
           \/ Calculations!ReadCalculation(w) \/ Calculations!FindLock(w)
           \/ Calculations!NextNumber(w) \/ Calculations!InsertRevision(w)
    BY <1>2
    DEF Calculations!CheckProject, Calculations!DeleteCalculation, Calculations!ReadCalculation,
        Calculations!FindLock, Calculations!NextNumber, Calculations!InsertRevision,
        Calculations!Refuse, Calculations!tables
<1>3. CASE \/ Calculations!ReadSubmitted(w) \/ Calculations!ReadReviewed(w)
           \/ Calculations!Decide(w) \/ Calculations!ListCalculations(w)
           \/ Calculations!ReadItem(w) \/ Calculations!InsertRelease(w)
    BY <1>3
    DEF Calculations!ReadSubmitted, Calculations!ReadReviewed, Calculations!Decide,
        Calculations!ListCalculations, Calculations!ReadItem, Calculations!InsertRelease,
        Calculations!Refuse, Calculations!tables
<1>4. QED
    BY <1>1, <1>2, <1>3 DEF CalculationStep, Calculations!Step

(* A calculation is being traced until its trace is written.               *)
LEMMA TraceStepKeeps ==
    ASSUME CalculationInv, TraceInv, UNCHANGED dataVars, NEW w \in Workers, CalculationStep(w)
    PROVE  TraceInv'
<1>1. Switched' = Switched
    BY DEF dataVars, Switched, Active, Data!ActiveVersions
<1>2. /\ w \in DOMAIN ctx /\ w \in DOMAIN pc /\ DOMAIN ctx[w] = ContextFields
      /\ \A v \in Workers \ {w} : pc'[v] = pc[v] /\ ctx'[v] = ctx[v]
  <2>1. CalculationControl
      BY DEF CalculationInv
  <2>2. QED
      BY <2>1, StepMoves, OneMovesKeeps DEF CalculationStep, CalculationControl
<1>3. ASSUME NEW c, NEW v \in Workers \ {w}, Tracing(v, c) PROVE Tracing(v, c)'
    BY <1>1, <1>2, <1>3 DEF Tracing
<1>4. CASE Calculations!InsertCalculation(w)
  <2> DEFINE row == [id |-> Calculations!NextId, serial |-> made + 1, owner |-> req[w].user,
                     project |-> req[w].project, data |-> Switched]
  <2>1. PICK c : c = row
      OBVIOUS
  <2>2. /\ pc[w] = "insert" /\ calculations' = calculations \cup {c} /\ UNCHANGED traces
        /\ Calculations!Goto(w, "active") /\ ctx' = [ctx EXCEPT ![w].rows = <<c>>]
      BY <1>4, <2>1 DEF Calculations!InsertCalculation, Switched, Active
  <2>3. c.data = Switched
      BY <2>1
  <2>4. pc'[w] = "active" /\ ctx'[w].rows = <<c>>
      BY <1>2, <2>2 DEF Calculations!Goto, ContextFields
  <2>5. Tracing(w, c)'
      BY <1>1, <2>3, <2>4 DEF Tracing
  <2>6. ASSUME NEW d \in calculations PROVE Traced(d)' \/ \E v \in Workers : Tracing(v, d)'
    <3>1. CASE Traced(d)
      BY <2>2, <3>1 DEF Traced
    <3>2. CASE \E v \in Workers : Tracing(v, d)
      <4>1. PICK v \in Workers : Tracing(v, d)
        BY <3>2
      <4>2. v # w
        BY <2>2, <4>1 DEF Tracing
      <4>3. QED
        BY <1>3, <4>1, <4>2
    <3>3. QED
      BY <3>1, <3>2 DEF TraceInv
  <2>7. QED
      BY <2>2, <2>5, <2>6 DEF TraceInv
<1>5. CASE Calculations!ReadActive(w)
  <2>1. /\ pc[w] = "active" /\ UNCHANGED <<calculations, traces>>
        /\ Calculations!Goto(w, "trace") /\ ctx' = [ctx EXCEPT ![w].trace = Active]
      BY <1>5 DEF Calculations!ReadActive, Calculations!tables
  <2>2. pc'[w] = "trace" /\ ctx'[w].trace = Active /\ ctx'[w].rows = ctx[w].rows
      BY <1>2, <2>1 DEF Calculations!Goto, ContextFields
  <2>3. Switched = {d \in DOMAIN ctx'[w].trace : ctx'[w].trace[d] # 0}
      BY <2>2 DEF Switched, Active
  <2>4. ASSUME NEW d \in calculations PROVE Traced(d)' \/ \E v \in Workers : Tracing(v, d)'
    <3>1. CASE Traced(d)
      BY <2>1, <3>1 DEF Traced
    <3>2. ASSUME NEW v \in Workers, Tracing(v, d) PROVE Tracing(v, d)'
      <4>1. CASE v = w
        BY <2>1, <2>2, <2>3, <3>2, <4>1 DEF Tracing
      <4>2. CASE v # w
        BY <1>3, <3>2, <4>2
      <4>3. QED
        BY <4>1, <4>2
    <3>3. QED
      BY <3>1, <3>2 DEF TraceInv
  <2>5. QED
      BY <2>1, <2>4 DEF TraceInv
<1>6. CASE Calculations!InsertTrace(w)
  <2> DEFINE c == Head(ctx[w].rows)
             read == {e \in DOMAIN ctx[w].trace : ctx[w].trace[e] # 0}
             rows == {[id |-> c.id, serial |-> c.serial, dataset |-> d,
                       version |-> ctx[w].trace[d]] : d \in read}
  <2>1. /\ pc[w] = "trace" /\ UNCHANGED calculations /\ traces' = traces \cup rows
      BY <1>6 DEF Calculations!InsertTrace
  <2>2. read \subseteq {t.dataset : t \in {u \in traces' : u.serial = c.serial}}
    <3>1. SUFFICES ASSUME NEW d \in read
                   PROVE  \E t \in traces' : t.serial = c.serial /\ t.dataset = d
      OBVIOUS
    <3> DEFINE new == [id |-> c.id, serial |-> c.serial, dataset |-> d,
                       version |-> ctx[w].trace[d]]
    <3>2. new \in traces' /\ new.serial = c.serial /\ new.dataset = d
      BY <2>1
    <3>3. QED
      BY <3>2
  <2>3. ASSUME NEW d \in calculations PROVE Traced(d)' \/ \E v \in Workers : Tracing(v, d)'
    <3>1. CASE Traced(d)
      <4>1. traces \subseteq traces'
        BY <2>1
      <4>2. QED
        BY <3>1, <4>1 DEF Traced
    <3>2. ASSUME NEW v \in Workers, Tracing(v, d)
          PROVE  Traced(d)' \/ Tracing(v, d)'
      <4>1. CASE v = w
        <5>1. ctx[w].rows = <<d>> /\ d.data \subseteq read
          BY <2>1, <3>2, <4>1 DEF Tracing
        <5>2. c = d
          BY <5>1
        <5>3. d.data \subseteq {t.dataset : t \in {u \in traces' : u.serial = d.serial}}
          <6> HIDE DEF c, read, rows
          <6>1. QED
            BY <2>2, <5>1, <5>2
        <5>4. QED
          BY <5>3 DEF Traced
      <4>2. CASE v # w
        BY <1>3, <3>2, <4>2
      <4>3. QED
        BY <4>1, <4>2
    <3>3. QED
      BY <3>1, <3>2 DEF TraceInv
  <2>4. QED
      BY <2>1, <2>3 DEF TraceInv
<1>7. CASE /\ calculations' \subseteq calculations /\ UNCHANGED traces
           /\ pc[w] \notin {"active", "trace"}
  <2>1. ASSUME NEW d \in calculations PROVE Traced(d)' \/ \E v \in Workers : Tracing(v, d)'
    <3>1. CASE Traced(d)
      BY <1>7, <3>1 DEF Traced
    <3>2. ASSUME NEW v \in Workers, Tracing(v, d) PROVE Tracing(v, d)'
      <4>1. v # w
        BY <1>7, <3>2 DEF Tracing
      <4>2. QED
        BY <1>3, <3>2, <4>1
    <3>3. QED
      BY <3>1, <3>2 DEF TraceInv
  <2>2. QED
      BY <1>7, <2>1 DEF TraceInv
<1>8. QED
    BY <1>4, <1>5, <1>6, <1>7, TraceChange

(* A calculation that no thread is tracing has its trace.                  *)
LEMMA TracedWhenAnswered ==
    ASSUME TraceInv
    PROVE  Calculations!AnsweredIsTraced
<1>1. SUFFICES ASSUME NEW c \in calculations,
                      \A w \in Workers : pc[w] \in {"active", "trace"} => c # Head(ctx[w].rows)
               PROVE  Traced(c)
    BY DEF Calculations!AnsweredIsTraced, Traced
<1>2. ASSUME NEW w \in Workers, Tracing(w, c) PROVE FALSE
  <2>1. Head(ctx[w].rows) = c
      BY <1>2 DEF Tracing
  <2>2. QED
      BY <1>1, <1>2, <2>1 DEF Tracing
<1>3. QED
    BY <1>2 DEF TraceInv

-----------------------------------------------------------------------------
(* Both together.                                                          *)

RecordsInv == DataInv /\ CalculationInv /\ ReleaseInv /\ TraceInv

(* The invariant of both, at first and after every step.                   *)
LEMMA RecordsInit == Init => RecordsInv
<1> SUFFICES ASSUME Init PROVE RecordsInv
    OBVIOUS
<1>1. DataInv /\ CalculationInv
    BY DataInit, CalculationInit DEF Init
<1>2. ReleaseInv
  <2>1. \A w \in Workers : pc[w] = "idle" /\ ctx[w].items = <<>>
      BY DEF Init, Calculations!Init, Calculations!NoContext
  <2>2. <<>> \in Seq({}) /\ releases = {}
      BY DEF Init, Calculations!Init
  <2>3. ASSUME NEW w \in Workers PROVE MatrixRests(w)
    <3>1. \A i \in DOMAIN <<>> : FALSE
      OBVIOUS
    <3>2. ctx[w].items = <<>>
      BY <2>1
    <3>3. ctx[w].items \in Seq({})
      BY <2>2, <3>2
    <3>4. \A i \in DOMAIN ctx[w].items : FALSE
      BY <3>1, <3>2
    <3>5. \E S : ctx[w].items \in Seq(S)
      BY <3>3
    <3>6. QED
      BY <3>2, <3>4, <3>5 DEF MatrixRests
  <2>4. QED
      BY <2>2, <2>3 DEF ReleaseInv
<1>3. TraceInv
    BY DEF Init, Calculations!Init, TraceInv
<1>4. QED
    BY <1>1, <1>2, <1>3 DEF RecordsInv

LEMMA RecordsStep ==
    ASSUME RecordsInv, [Next]_vars
    PROVE  RecordsInv' /\ DataGrows /\ RevisionsGrow
<1>1. DataInv /\ CalculationInv /\ ReleaseInv /\ TraceInv
    BY DEF RecordsInv
<1>2. CASE (Data!Next \/ UNCHANGED dataVars) /\ UNCHANGED calculationVars
  <2>1. DataInv' /\ DataGrows
      BY <1>1, <1>2, DataNextKeeps, DataStutterKeeps
  <2>2. CalculationInv' /\ RevisionsGrow /\ ReleaseInv' /\ TraceInv'
      BY <1>1, <1>2, <2>1, CalculationStutterKeeps, ReleaseStutterKeeps, DataStepKeepsTraces
  <2>3. QED
      BY <2>1, <2>2 DEF RecordsInv
<1>3. CASE Calculations!Next /\ UNCHANGED dataVars
  <2>1. DataInv' /\ DataGrows
      BY <1>1, <1>3, DataStutterKeeps
  <2>2. CalculationInv' /\ RevisionsGrow
      BY <1>1, <1>3, CalculationNextKeeps
  <2>3. PICK w \in Workers : CalculationStep(w)
      BY <1>3 DEF Calculations!Next, CalculationStep
  <2>4. ReleaseInv' /\ TraceInv'
      BY <1>1, <1>3, <2>2, <2>3, ReleaseStepKeeps, TraceStepKeeps
  <2>5. QED
      BY <2>1, <2>2, <2>4 DEF RecordsInv
<1>4. QED
    BY <1>2, <1>3 DEF Next, vars

(* Any number of threads, any requests: the tables, what threads hold of   *)
(* them, the release packages and the traces keep the invariant.           *)
THEOREM RecordsInvariant == Spec => []RecordsInv
<1>1. RecordsInv /\ [Next]_vars => RecordsInv'
    BY RecordsStep
<1>2. QED
    BY <1>1, RecordsInit, PTL DEF Spec

(* A data set has at most one active version and every version was made    *)
(* from a package of confidence 4, whichever threads activate and roll     *)
(* back at the same time.                                                  *)
THEOREM VersionsAlwaysHold == Spec => []VersionsHold
<1>1. RecordsInv => VersionsHold
    BY DEF RecordsInv, DataInv, DataTables, VersionsHold
<1>2. QED
    BY <1>1, RecordsInvariant, PTL

(* No activation and no rollback leaves a data set without the active      *)
(* version it had.                                                         *)
THEOREM DataNeverLost == Spec => DataIsNeverLost
<1>1. RecordsInv /\ [Next]_vars =>
          [Data!DatasetsOf(Data!ActiveVersions)
               \subseteq Data!DatasetsOf(Data!ActiveVersions)']_vars
    BY RecordsStep DEF DataGrows
<1>2. QED
    BY <1>1, RecordsInvariant, PTL DEF Spec, DataIsNeverLost

(* A certificate of readiness was true at one moment although it was read  *)
(* in three transactions, and a project called ready for release rests on  *)
(* locked revisions of every calculation it lists.                         *)
THEOREM ReleasesAlwaysHold == Spec => []ReleasesHold
<1>1. RecordsInv => ReleasesHold
    BY DEF RecordsInv, DataInv, DataTables, ReleaseInv, Rests, ReleasesHold,
           Calculations!ReadyRestsOnLocks
<1>2. QED
    BY <1>1, RecordsInvariant, PTL

(* An answered calculation has a trace of every data set that was active   *)
(* when it was saved, whatever was switched until the trace was written.   *)
THEOREM AnswersAreTraced == Spec => []AnsweredIsTraced
<1>1. RecordsInv => AnsweredIsTraced
    BY TracedWhenAnswered DEF RecordsInv, AnsweredIsTraced
<1>2. QED
    BY <1>1, RecordsInvariant, PTL

(* What the handlers can write, from the invariants.                       *)
LEMMA RevisionsAreTyped ==
    ASSUME CalculationInv
    PROVE  Calculations!TypeOK
<1>1. ASSUME NEW i \in DOMAIN revisions
      PROVE  /\ revisions[i].status \in {"draft", "review", "approved", "rejected"}
             /\ revisions[i].number \in 1 .. Len(revisions)
  <2>1. revisions \in Seq(RevisionRow) /\ revisions[i] \in RevisionRow
      BY DEF CalculationInv, RevisionTable
  <2> DEFINE mine == Calculations!RevisionsOf(revisions[i].id)
             below == {j \in mine : j <= i}
  <2>2. revisions[i].number = Cardinality(below)
      BY CalculationsCardinality DEF CalculationInv, RevisionTable, Calculations!RevisionsNumbered
  <2>3. /\ IsFiniteSet(mine) /\ Cardinality(mine) <= Len(revisions) /\ Cardinality(mine) \in Nat
        /\ mine \subseteq 1 .. Len(revisions) /\ Len(revisions) \in Nat
      BY <2>1, RevisionsOfFinite
  <2>4. below \subseteq mine /\ i \in below
      BY <2>1 DEF Calculations!RevisionsOf
  <2> HIDE DEF mine, below
  <2>5. IsFiniteSet(below) /\ Cardinality(below) <= Cardinality(mine) /\ Cardinality(below) \in Nat
      BY <2>3, <2>4, FS_Subset, FS_CardinalityType
  <2>6. Cardinality(below) # 0
      BY <2>4, <2>5, FS_EmptySet
  <2>7. revisions[i].number \in 1 .. Len(revisions)
      BY <2>2, <2>3, <2>5, <2>6
  <2>8. QED
      BY <2>1, <2>7 DEF RevisionRow
<1>2. QED
    BY <1>1 DEF CalculationInv, CalculationControl, CalculationRows, Calculations!TypeOK

LEMMA DataIsTyped ==
    ASSUME DataInv
    PROVE  Data!TypeOK
<1>1. DataRows /\ DataControl /\ VersionsHavePackages
    BY DEF DataInv, DataTables
<1>2. /\ \A i \in DOMAIN packages : packages[i] \in PackageRow
      /\ \A i \in DOMAIN versions : versions[i] \in VersionRow
      /\ \A i \in DOMAIN golden : golden[i] \in BOOLEAN
    BY <1>1 DEF DataRows
<1>3. QED
    BY <1>1, <1>2 DEF PackageRow, VersionRow, DataControl, VersionsHavePackages, Data!TypeOK

(* For any finite number of threads: the tables hold only what the         *)
(* handlers can write, decisions are of somebody else with the role, the   *)
(* revisions of a calculation are numbered without gaps, and a locked      *)
(* calculation gets fewer late revisions than there are threads.           *)
THEOREM RevisionsAlwaysHold ==
    ASSUME IsFiniteSet(Workers)
    PROVE  Spec => []RevisionsHold
<1>1. RecordsInv /\ LateCounted => RevisionsHold
    BY DataIsTyped, RevisionsAreTyped, LateCountedBounds
    DEF RecordsInv, CalculationInv, RevisionTable, RevisionsHold
<1>2. Init => LateCounted
  <2>1. SUFFICES ASSUME Init PROVE LateCounted
      OBVIOUS
  <2>2. made = 0 /\ \A id : Calculations!RevisionsOf(id) = {}
      BY <2>1 DEF Init, Calculations!Init, Calculations!RevisionsOf
  <2>3. QED
      BY <2>2 DEF LateCounted, LateOf, Calculations!LockedBy
<1>3. RecordsInv /\ LateCounted /\ [Next]_vars => LateCounted'
    BY LateStepKeeps, LateStutterKeeps DEF RecordsInv, Next, vars
<1>4. QED
    BY <1>1, <1>2, <1>3, RecordsInvariant, PTL DEF Spec

=============================================================================
