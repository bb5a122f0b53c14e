------------------------------- MODULE MCAdvice -------------------------------
(***************************************************************************)
(* Instances of AdviceService for TLC: each behaviour takes its requests   *)
(* from one mix.                                                           *)
(***************************************************************************)
EXTENDS AdviceService, TLC

CONSTANTS w1, w2, ann, bob, root, phrase1, tagA, tagB, word1

(* Two versions: an approved standard requirement and a newer one, made    *)
(* simpler, that says more.                                                *)
Contents ==
    (1 :> [active |-> TRUE, category |-> "basics", tags |-> {tagA}, words |-> {},
           phrases |-> {phrase1}, kind |-> "standard_requirement", level |-> "APPROVED"])
    @@ (2 :> [active |-> TRUE, category |-> "basics", tags |-> {tagA, tagB},
              words |-> {word1}, phrases |-> {phrase1},
              kind |-> "educational_simplification", level |-> "APPROVED"])
    @@ (3 :> [active |-> FALSE, category |-> "joints", tags |-> {}, words |-> {},
              phrases |-> {phrase1}, kind |-> "oem_estimation", level |-> "DRAFT"])

Default ==
    [publishable |-> TRUE, status |-> NoFilter, deleted |-> FALSE, archived |-> FALSE,
     category |-> NoFilter, active |-> NoFilter, tags |-> {}, mode |-> "any", words |-> {}]
All == [Default EXCEPT !.publishable = FALSE]

Read(op, filter) == [op |-> op, filter |-> filter]

Listings ==
    {Read("list", Default),
     Read("list", [All EXCEPT !.status = "draft", !.deleted = TRUE, !.archived = TRUE]),
     Read("list", [All EXCEPT !.tags = {tagA, tagB}, !.mode = "all", !.words = {word1}]),
     Read("list", [All EXCEPT !.tags = {tagB}, !.category = "basics", !.active = TRUE])}

Others ==
    {[op |-> "select", filter |-> Default, count |-> 1],
     [op |-> "get", filter |-> Default, version |-> 1],
     [op |-> "get", filter |-> All, version |-> NoVersion],
     Read("stats", All), Read("snapshot", All)}

Query(model) == [op |-> "query", user |-> ann, phrase |-> phrase1, model |-> model]
Queries == {Query("answers"), Query("fails"), Read("list", Default)}

Joint ==
    [geometry |-> "good", rp |-> TRUE, ratio |-> 4, maxRatio |-> 5, friction |-> TRUE,
     bolt |-> TRUE, joint |-> TRUE, axial |-> 1, clamp |-> 2, applied |-> NoValue,
     fail |-> 6, warn |-> NoValue]

Recommendation(input, user) == [op |-> "recommend", user |-> user, input |-> input]
Reasoning(id, user, provider) ==
    [op |-> "reason", user |-> user, trace |-> id, provider |-> provider]

Degenerate == Recommendation([Joint EXCEPT !.geometry = "degenerate"], ann)

(* Two threads on the traces: two users, one of them asking for the        *)
(* other's, an administrator, and a row that is no trace.                  *)
Tracing ==
    {Recommendation(Joint, ann), Recommendation([Joint EXCEPT !.axial = 5], bob),
     Reasoning(1, ann, "none"), Reasoning(2, ann, "deterministic"),
     Reasoning(2, bob, "unknown"), Reasoning(3, root, "none"), Reasoning(3, bob, "none"),
     Degenerate}

(* The inputs of a joint, in all combinations of what may be missing.      *)
Inputs ==
    [geometry : {"absent", "good"}, rp : BOOLEAN, ratio : {NoValue, 4},
     maxRatio : {NoValue, 3}, friction : BOOLEAN, bolt : {TRUE}, joint : BOOLEAN,
     axial : {NoValue, -5, 1, 5}, clamp : {NoValue, 1, 3}, applied : {NoValue},
     fail : {NoValue, 4, 6}, warn : {NoValue, 4}]

Analyses == {Recommendation(i, ann) : i \in Inputs} \cup {Degenerate}

AllRequests == Listings \cup Others \cup Queries \cup Tracing \cup Analyses

OneLogin == {<<[action |-> "login", user |-> root]>>}

BothWorkers == Permutations(Workers)

Mixes ==
    [listing |-> Listings, reading |-> Others, asking |-> Queries,
     tracing |-> Tracing, analysing |-> Analyses]

VersionsOf(m) ==
    IF m = "listing" THEN {2, 3} ELSE IF m \in {"asking", "reading"} THEN {1, 2} ELSE {}

(* The name of the mix.  Only "tracing" has two threads; "analysing" has a *)
(* large set of inputs, and asks once.                                     *)
VARIABLE mix

MCInit == Init /\ mix \in DOMAIN Mixes

Admitted(r) ==
    /\ mix = "tracing" \/ \A v \in Workers : pc[v] = "idle"
    /\ mix = "analysing" => Len(trail) < 2 \/ r = Degenerate

MCNext ==
    \/ \E w \in Workers :
          \/ \E r \in Mixes[mix] : Admitted(r) /\ Receive(w, r) /\ UNCHANGED mix
          \/ Step(w) /\ UNCHANGED mix
          \/ Busy(w) /\ UNCHANGED mix
    \/ Edit /\ content' \subseteq VersionsOf(mix) /\ UNCHANGED mix
    \/ Crash /\ UNCHANGED mix

MCSpec == MCInit /\ [][MCNext]_<<vars, mix>>

=============================================================================
