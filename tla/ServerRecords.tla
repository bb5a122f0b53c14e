---------------------------- MODULE ServerRecords ----------------------------
(***************************************************************************)
(* backend/app.py: DataVersions and CalculationRecords over one database.  *)
(* A calculation's trace is read from the table of versions that           *)
(* administrators change meanwhile.                                        *)
(***************************************************************************)
EXTENDS Integers, Sequences, FiniteSets

CONSTANTS
    DataWorkers, DataRequests, Required,
    MaxPackages, MaxVersions, MaxGolden, MaxCertificates,
    Workers, Requests, OwnerOf, Reviewers,
    MaxCalculations, MaxRevisions, MaxReleases,
    NoProject, NoUser, NoRequest

(* The routes, and what their models let through: DataPackageIn (a         *)
(* confidence of 1 to 4), the statuses of set_data_package_status, and a   *)
(* golden case that passed or did not.                                     *)
ASSUME DataRequestsAssumption ==
    \A r \in DataRequests :
        /\ r.op \in {"upload", "review", "activate", "rollback", "golden", "certify"}
        /\ r.op = "upload" => r.confidence \in 1..4 /\ r.valid \in BOOLEAN
        /\ r.op = "review" => r.status \in {"draft", "review", "approved", "rejected"}
        /\ r.op = "golden" => r.passed \in BOOLEAN

ASSUME RequestsAssumption ==
    \A r \in Requests :
        r.op \in {"add", "delete", "clear", "revise", "submit", "approve", "reject", "release"}

VARIABLES
    packages, versions, golden, certificates, dataPc, dataReq, dataCtx,
    calculations, made, traces, revisions, releases, pc, req, ctx

Data == INSTANCE DataVersions WITH
    Workers <- DataWorkers, Requests <- DataRequests,
    pc <- dataPc, req <- dataReq, ctx <- dataCtx

(* SELECT * FROM data_versions WHERE is_active=1.                          *)
Active ==
    [d \in Required |->
        IF \E i \in Data!ActiveVersions : versions[i].dataset = d
        THEN CHOOSE i \in Data!ActiveVersions : versions[i].dataset = d ELSE 0]

Calculations == INSTANCE CalculationRecords WITH active <- Active

dataVars == <<packages, versions, golden, certificates, dataPc, dataReq, dataCtx>>
calculationVars == <<calculations, made, traces, revisions, releases, pc, req, ctx>>
vars == <<dataVars, calculationVars>>

Init == Data!Init /\ Calculations!Init

Next ==
    \/ Data!Next /\ UNCHANGED calculationVars
    \/ Calculations!Next /\ UNCHANGED dataVars

Spec == Init /\ [][Next]_vars

-----------------------------------------------------------------------------
(* The properties of both, over the composition.                           *)

(* What reviewers may rely on: both components hold only what their        *)
(* handlers can write; a revision is decided on by somebody else who has    *)
(* the role; the revisions of a calculation are numbered without gaps; and  *)
(* a locked calculation gets fewer late revisions than there are threads    *)
(* (create_calculation_revision, approve, reject).                          *)
RevisionsHold ==
    /\ Data!TypeOK
    /\ Calculations!TypeOK
    /\ Calculations!ReviewsGrounded
    /\ Calculations!RevisionsNumbered
    /\ Calculations!LateRevisionsBounded

(* Whatever threads activate and roll back at the same time, a data set has *)
(* at most one active version, and each version was made from a package of  *)
(* confidence 4 (activate_version, rollback_version).                       *)
VersionsHold == Data!OneActiveVersion /\ Data!VersionsAreConfident

(* What is said to be ready was ready: a certificate that says so was true  *)
(* at one moment although it was read in three transactions, and a project  *)
(* ready for release rests on locked revisions.                             *)
ReleasesHold == Data!ReadyHeldOnce /\ Calculations!ReadyRestsOnLocks

(* A data set that has an active version never loses it: it only gets      *)
(* another one (activate_version, rollback_version).                       *)
DataIsNeverLost ==
    [][Data!DatasetsOf(Data!ActiveVersions) \subseteq Data!DatasetsOf(Data!ActiveVersions)']_vars

(* What is released is what was approved.                                  *)
ReleasedIsApproved == Calculations!ReleasedIsApproved

(* A calculation saved while versions are switched keeps its trace.        *)
AnsweredIsTraced == Calculations!AnsweredIsTraced

=============================================================================
