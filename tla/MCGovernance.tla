----------------------------- MODULE MCGovernance -----------------------------
(***************************************************************************)
(* Instances of GovernanceService for TLC.  Each behaviour takes its       *)
(* requests and its threads from one mix, so that the run has the sum of   *)
(* the states of the mixes and not their product.                          *)
(***************************************************************************)
EXTENDS GovernanceService, TLC

CONSTANTS w1, w2, a1, a2, k1, k2, k3, k4, d1, d2, d3, d4

Request(agg, type, cmd, decision, key, given, note) ==
    [agg |-> agg, type |-> type, cmd |-> cmd, decision |-> decision,
     key |-> key, given |-> given, note |-> note]

Complete == {"actor", "occurred_at"}

Submit == Request(a1, "joint", "submit_review", d1, k1, Complete, "n1")
Approve == Request(a1, "joint", "approve_review", d2, k2, Complete, "n1")
RejectIt == Request(a1, "joint", "reject_review", d3, k3, Complete, "n1")

(* One review with its two outcomes, a reused key with other content, a    *)
(* reused decision id under a blank key, and a restricted aggregate type.  *)
ReviewRace ==
    {Submit, Approve, RejectIt,
     [Approve EXCEPT !.note = "n2"],
     [RejectIt EXCEPT !.key = BlankKey]}

(* Two artifacts, the three groups, missing fields and a bad timestamp.    *)
AllGroups ==
    {Submit,
     [Submit EXCEPT !.given = {"actor"}],
     Request(a1, "washer_resolution", "resolve_resolution", d4, k4, Complete, "n1"),
     Request(a1, "joint", "activate_publication", d2, k2, Complete, "n1"),
     Request(a1, "joint", "supersede_publication", d3, k3, Complete, "n1"),
     Request(a1, "joint", "supersede_publication", d3, k3,
             {"superseded_by_id", "occurred_at"}, "n1"),
     Request(a1, "finding", "waive_resolution", d4, BlankKey, Complete, "n1"),
     Request(a2, "joint", "submit_review", d4, k1, Complete, "n1")}

(* One open item and two outcomes for it.                                  *)
ResolutionRace ==
    {Request(a1, "finding", "resolve_resolution", d1, k1, Complete, "n1"),
     Request(a1, "finding", "waive_resolution", d2, k2, Complete, "n1")}

Mixes ==
    {[requests |-> ReviewRace, threads |-> {w1, w2}],
     [requests |-> ResolutionRace, threads |-> {w1, w2}],
     [requests |-> AllGroups, threads |-> {w1}]}

AllRequests == UNION {m.requests : m \in Mixes}

VARIABLE mix

Serial == Cardinality(mix.threads) = 1

MCNext ==
    \E w \in mix.threads :
        \/ \E r \in mix.requests : Receive(w, r) /\ UNCHANGED mix
        \/ Step(w) /\ UNCHANGED mix
        \/ StoreFailure(w) /\ UNCHANGED mix
        \/ Crash(w) /\ UNCHANGED mix

MCInit == Init /\ mix \in Mixes

MCSpec == MCInit /\ [][MCNext]_<<vars, mix>> /\ Fairness

(* Callers that do not overlap: with all three lifecycle groups, crashes,  *)
(* failed writes and retries, every step of service.py and store.py is a   *)
(* record of the ledger or leaves it alone, so that histories chain,       *)
(* terminal statuses are final, and keys and decision ids are unique.      *)
SerialImplementsLedger ==
    /\ Serial => Ledger!Init
    /\ [][Serial => Ledger!Next]_events
    /\ [](Serial => LedgerInv)

=============================================================================
