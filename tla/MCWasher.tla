------------------------------- MODULE MCWasher -------------------------------
(***************************************************************************)
(* Instances of WasherGovernance for TLC.  Each behaviour takes one mix:   *)
(* its requests, its evidence file and what it is deployed with, so that a *)
(* run has the sum of the states of the mixes and not their product.       *)
(***************************************************************************)
EXTENDS WasherGovernance, TLC

CONSTANTS w1, w2, r1, r2, b1, k1, k2, k9, d9

(* The shipped ledger has open and blocked resolutions.                    *)
Source == (r1 :> "open") @@ (b1 :> "blocked_authoritative_source")

Decide(res, new, key, body) ==
    [op |-> "decide", res |-> res, new |-> new, key |-> key, body |-> body]
NewRecord(text, type, url, standard) ==
    [op |-> "evidence", res |-> r1, text |-> text, type |-> type, url |-> url,
     standard |-> standard]
CloseIt(res, text) == [op |-> "close", res |-> res, text |-> text]
Read(op, res) == [op |-> op, res |-> res]

Resolve == Decide(r1, "resolved", k1, "full")
Accept == Decide(r1, "accepted_as_is", k2, "full")

(* Two terminal decisions, a key used for another request, and the ones    *)
(* that are refused.                                                       *)
Decisions ==
    {Resolve, Accept, [Accept EXCEPT !.key = k1], [Resolve EXCEPT !.key = BlankKey]}

Refusals ==
    {Resolve, [Resolve EXCEPT !.body = BlankBody, !.key = k2],
     Decide(r1, "under_review", k2, "full"), Decide(r1, "open", k1, "full"),
     Decide(b1, "resolved", k2, "full"), Decide(r2, "resolved", k2, "full")}

Record(id, status, intact) == [id |-> id, res |-> r1, status |-> status, intact |-> intact]

(* A closure needs a decision and verified evidence.                       *)
Closing ==
    {Resolve, CloseIt(r1, "clean"), NewRecord("clean", "drawing", "none", "none")}

ClosingRefused ==
    {Resolve, CloseIt(r1, "padded"), CloseIt(r1, "blank"), CloseIt(b1, "clean"),
     CloseIt(r2, "clean"), Read("show_closure", r1)}

EvidenceForms ==
    {NewRecord("clean", "authoritative_standard", "http", "din"),
     NewRecord("clean", "authoritative_standard", "none", "none"),
     NewRecord("padded", "drawing", "none", "none"),
     NewRecord("blank", "drawing", "none", "none"),
     NewRecord("clean", "drawing", "other", "none"),
     [NewRecord("clean", "drawing", "none", "none") EXCEPT !.res = r2],
     Read("list_evidence", r1), Read("readiness", b1), Read("list_decisions", r1),
     Read("readiness", r2)}

EvidenceFiles ==
    {<<>>, <<Record(1, "verified", TRUE)>>,
     <<Record(1, "unverified", TRUE), Record(2, "verified", FALSE)>>}

(* Governance events of other callers: one on an artifact with the id of   *)
(* the resolution, one under the key of a projection.                      *)
OtherRequest(agg, cmd, decision, key) ==
    [agg |-> agg, type |-> "finding", cmd |-> cmd, decision |-> decision, key |-> key,
     given |-> {"actor", "occurred_at"}, note |-> "other"]

OtherLogs ==
    {<<>>,
     <<[req |-> OtherRequest(r1, "waive_resolution", d9, k9), previous |-> "open"]>>,
     <<[req |-> OtherRequest("other", "resolve_resolution", d9, <<"washer-sync", k1>>),
        previous |-> "open"]>>,
     <<[req |-> OtherRequest("other", "resolve_resolution", k1, k9), previous |-> "open"]>>}

Mix(requests, evidence, logs, deployed, threads) ==
    [requests |-> requests, evidence |-> evidence, logs |-> logs,
     deployed |-> deployed, threads |-> threads]

(* Every kind of request, for one thread.                                  *)
Everything == Decisions \cup Closing \cup ClosingRefused \cup
              {NewRecord("padded", "drawing", "none", "none"),
               Decide(r1, "under_review", k2, "full")}

(* A resolution that is reviewed before it is resolved and closed.         *)
Reviewing == {Resolve, Decide(r1, "under_review", k2, "full"), CloseIt(r1, "clean")}

(* The first six are about the washer files, the next two about the        *)
(* projection: the tool beside one thread, then two threads.  In the last  *)
(* one, requests do not overlap.                                           *)
Mixes ==
    {Mix(Decisions, {<<>>}, {<<>>}, FALSE, 2),
     Mix(Refusals, {<<>>}, {<<>>}, FALSE, 2),
     Mix(Closing, EvidenceFiles, {<<>>}, FALSE, 2),
     Mix(Reviewing, {<<Record(1, "verified", TRUE)>>}, {<<>>}, FALSE, 2),
     Mix(ClosingRefused, {<<Record(1, "verified", TRUE)>>}, {<<>>}, FALSE, 2),
     Mix(EvidenceForms, EvidenceFiles, {<<>>}, FALSE, 2),
     Mix({Resolve}, {<<>>}, OtherLogs, TRUE, 1),
     Mix({Resolve, Accept}, {<<>>}, {<<>>}, TRUE, 2),
     Mix(Everything, EvidenceFiles, {<<>>}, FALSE, 1)}

AllRequests == Everything \cup Refusals \cup EvidenceForms

BothWorkers == Permutations(Workers)

VARIABLE mix

Serial == mix.threads = 1

MCInit ==
    /\ GovernedInit
    /\ mix \in Mixes
    /\ file.evidence \in mix.evidence
    /\ events \in mix.logs
    /\ configured = mix.deployed

(* Failures are left to the mixes with one thread, or without projection.  *)
Failing == ~(mix.deployed /\ mix.threads = 2)

MCNext ==
    \/ \E w \in Workers :
          \/ /\ Serial => \A v \in Workers \ {w} : req[v] = NoRequest
             /\ \E r \in mix.requests : Call(w, r) /\ UNCHANGED mix
          \/ ServerStep(w) /\ UNCHANGED mix
          \/ Failing /\ ServerFails(w) /\ UNCHANGED mix
    \/ \E a \in Agents :
          \/ Lookup(a) /\ UNCHANGED mix
          \/ Conclude(a) /\ UNCHANGED mix
          \/ CommandStep(a) /\ UNCHANGED mix
          \/ Failing /\ LookupFails(a) /\ UNCHANGED mix
          \/ Failing /\ CommandFails(a) /\ UNCHANGED mix
    \/ Failing /\ ServerCrash /\ UNCHANGED mix
    \/ /\ mix.deployed /\ Serial
       /\ (\E dry \in BOOLEAN : Reconcile(dry)) /\ UNCHANGED mix
    \/ (ReconcileNext \/ ToolCrash) /\ UNCHANGED mix

MCSpec == MCInit /\ [][MCNext]_<<allVars, mix>>

(* One request at a time, through file errors, crashes and retries, every  *)
(* step of the washer modules adds what the ledger adds or leaves the      *)
(* files alone: decisions chain, a terminal one is the last, and a closure *)
(* stands.                                                                 *)
SerialImplementsLedger ==
    /\ Serial => Ledger!Init
    /\ [][Serial => Ledger!Next]_file
    /\ [](Serial => LedgerInv)

=============================================================================
