------------------------------ MODULE MCRecords ------------------------------
(***************************************************************************)
(* Instances of ServerRecords for TLC.  Each behaviour takes its requests  *)
(* from one mix, and may start on versions that earlier requests made.     *)
(***************************************************************************)
EXTENDS ServerRecords, TLC

CONSTANTS w1, w2, ann, bob, eve, proj

Owners == [p \in {proj} |-> ann]

Upload(d, content, confidence, valid) ==
    [op |-> "upload", dataset |-> d, content |-> content, confidence |-> confidence,
     valid |-> valid]
Review(p, status) == [op |-> "review", package |-> p, status |-> status]
Activate(v) == [op |-> "activate", version |-> v]
Rollback(v) == [op |-> "rollback", version |-> v]
Golden(passed) == [op |-> "golden", passed |-> passed]
Certify == [op |-> "certify"]

Add(user, project) == [op |-> "add", user |-> user, project |-> project]
Delete(user, c) == [op |-> "delete", user |-> user, calculation |-> c]
Clear(user) == [op |-> "clear", user |-> user]
Revise(user, c) == [op |-> "revise", user |-> user, calculation |-> c]
On(op, user, r) == [op |-> op, user |-> user, revision |-> r]
Release(user) == [op |-> "release", user |-> user, project |-> proj]

Package(d, content, status) ==
    [dataset |-> d, content |-> content, confidence |-> 4, valid |-> TRUE, status |-> status]
Version(d, n, p, on) == [dataset |-> d, number |-> n, package |-> p, active |-> on]

(* Packages uploaded and reviewed, good ones and others.                   *)
Uploads ==
    {Upload("friction", "c1", 4, TRUE), Upload("washer", "c2", 3, TRUE),
     Review(1, "approved"), Review(2, "approved"), Review(1, "rejected"), Review(3, "review"),
     Activate(1), Activate(2), Rollback(2)}

(* Versions that are switched while packages change.                       *)
Switching ==
    {Review(1, "rejected"), Review(1, "approved"), Activate(1), Activate(2), Activate(3),
     Rollback(2), Rollback(1), Rollback(3)}

(* Certificates while the tables they read change.                         *)
Certifying ==
    {Certify, Golden(TRUE), Golden(FALSE), Activate(3), Rollback(2),
     Upload("friction", "c3", 4, FALSE)}

(* Calculations saved while versions are switched.                         *)
Saving == {Add(ann, NoProject), Add(bob, NoProject), Delete(ann, 1), Clear(bob)}
SavingData == {Activate(2), Activate(3), Rollback(2)}

(* Revisions, reviews and a release package; a foreign calculation and a   *)
(* foreign project among them.                                             *)
Reviewing ==
    {Add(ann, proj), Revise(ann, 1), Revise(bob, 1), On("submit", ann, 1),
     On("approve", bob, 1), On("approve", ann, 1), On("reject", bob, 1), On("approve", eve, 2)}
Releasing ==
    {Add(ann, proj), Add(bob, proj), Revise(ann, 1), On("submit", ann, 1),
     On("approve", bob, 1), On("reject", bob, 1), Release(ann), Release(bob)}

(* The newest calculation is deleted and another one is saved.             *)
Replacing ==
    {Add(ann, proj), Revise(ann, 1), On("approve", bob, 1), Delete(ann, 1), Release(ann)}

TwoPackages == <<Package("friction", "p1", "approved"), Package("friction", "p2", "approved"),
                 Package("washer", "p3", "approved")>>
Switched == <<Version("friction", 1, 1, TRUE), Version("friction", 2, 2, FALSE),
              Version("washer", 1, 3, TRUE)>>
HalfOn == [Switched EXCEPT ![3].active = FALSE]

Mix(data, requests, p, v) == [data |-> data, requests |-> requests, packages |-> p, versions |-> v]

Mixes ==
    {Mix(Uploads, {}, <<>>, <<>>),
     Mix(Switching, {}, TwoPackages, Switched),
     Mix(Certifying, {}, TwoPackages, HalfOn),
     Mix(SavingData, Saving, TwoPackages, Switched),
     Mix({}, Reviewing, <<>>, <<>>),
     Mix({}, Releasing, <<>>, <<>>)}

ReplacingMix == Mix({}, Replacing, <<>>, <<>>)

AllData == UNION {m.data : m \in Mixes}
AllRequests == UNION {m.requests : m \in Mixes} \cup Replacing

BothWorkers == Permutations(Workers)

VARIABLE mix

InitWith(mixes) ==
    /\ mix \in mixes
    /\ packages = mix.packages /\ versions = mix.versions
    /\ golden = <<>> /\ certificates = <<>>
    /\ dataPc = [w \in DataWorkers |-> "idle"]
    /\ dataReq = [w \in DataWorkers |-> NoRequest]
    /\ dataCtx = [w \in DataWorkers |-> Data!NoContext]
    /\ Calculations!Init

DataNext ==
    \E w \in DataWorkers : (\E r \in mix.data : Data!Receive(w, r)) \/ Data!Step(w)

CalculationsNext ==
    \E w \in Workers : (\E r \in mix.requests : Calculations!Receive(w, r)) \/ Calculations!Step(w)

MCNext ==
    /\ \/ DataNext
          /\ UNCHANGED calculationVars
       \/ CalculationsNext /\ UNCHANGED dataVars
    /\ UNCHANGED mix

MCSpec == InitWith(Mixes) /\ [][MCNext]_<<vars, mix>>

ReplacingSpec == InitWith({ReplacingMix}) /\ [][MCNext]_<<vars, mix>>

=============================================================================
