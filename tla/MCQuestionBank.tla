---------------------------- MODULE MCQuestionBank ----------------------------
(***************************************************************************)
(* Instances of QuestionBank for TLC.  Each behaviour takes its requests,  *)
(* threads, failures and bounds from one mix, so that the run has the sum  *)
(* of the states of the mixes and not their product.                       *)
(***************************************************************************)
EXTENDS QuestionBank, TLC

CONSTANTS w1, w2, t1, t2, blank, long, bad

Blank == [text |-> blank, tags |-> {}]

CreateReq(op, v, c) == [op |-> op, role |-> "viewer", version |-> v, content |-> c]
PatchReq(p) == [op |-> "patch", role |-> "viewer", patch |-> p]
TagsReq(add, remove) ==
    [op |-> "tags", role |-> "viewer", add |-> add, remove |-> remove]
MoveReq(op, v, role) == [op |-> op, role |-> role, version |-> v]
ReturnReq(v, after) ==
    [op |-> "return_to_draft", role |-> "engineer", version |-> v, after |-> after]
FlagReq(op, role) == [op |-> op, role |-> role]

(* New versions: two ways to add the first, an import of the second, two   *)
(* patches of different fields, one that fails validation, two tag edits.  *)
Revisions ==
    {CreateReq("create", 1, Blank), CreateReq("create", 1, [Blank EXCEPT !.text = bad]),
     CreateReq("import", 1, Blank), CreateReq("import", 2, Blank),
     PatchReq([text |-> long]), PatchReq([tags |-> {t1}]),
     PatchReq([text |-> bad]), PatchReq(<<>>),
     TagsReq({t2}, {t1})}

(* The review of one version, with a revision of it.                       *)
Reviews ==
    {CreateReq("create", 1, Blank), MoveReq("submit", 1, "viewer"),
     MoveReq("validate", 1, "engineer"), MoveReq("validate", 1, "viewer"),
     MoveReq("reject", 1, "admin"), MoveReq("deprecate", 1, "engineer"),
     ReturnReq(1, 2), ReturnReq(1, 1)}

Flags == {FlagReq("soft_delete", "admin"), FlagReq("restore", "engineer"),
          FlagReq("archive", "engineer"), FlagReq("archive", "viewer")}

FirstVersion == {CreateReq("create", 1, Blank)}

TextPatches == FirstVersion \cup {PatchReq([text |-> long]), PatchReq([tags |-> {t1}])}

EveryOperation == Revisions \cup Reviews \cup Flags

Mix(requests, threads, failures, versions, moves, flags) ==
    [requests |-> requests, threads |-> threads, failures |-> failures,
     versions |-> versions, moves |-> moves, flags |-> flags]

Harmless == {"save", "compensate", "commit"}
Harmful == {"insert", "compensate", "commit", "crash"}

(* Two threads that revise, review or flag while registrations fail and    *)
(* the process restarts; that revise with failures which leave no orphan;  *)
(* and every operation and failure, one request at a time.                 *)
Mixes ==
    {Mix(TextPatches \cup {CreateReq("import", 2, Blank)}, 2, Harmful, 2, 5, 4),
     Mix(Reviews, 2, Harmful, 2, 5, 4),
     Mix(FirstVersion \cup Flags, 2, Harmful, 2, 5, 4),
     Mix(Revisions, 2, Harmless, 3, 0, 0),
     Mix(EveryOperation, 1, FailureKind, 2, 3, 1)}

(* An update, another one built on it, and a registration that fails.      *)
RollbackMix == Mix(TextPatches, 2, {"insert"}, 3, 0, 0)

BothWorkers == Permutations({w1, w2})

VARIABLE mix

Serial == mix.threads = 1

WithinMix(w, r) ==
    /\ Serial => \A x \in Workers \ {w} : req[x] = NoRequest
    /\ r.op \in UpdateOps => \A v \in DOMAIN content : v < mix.versions
    /\ r.op = "return_to_draft" => Len(history) < mix.moves
    /\ r.op \in FlagOps => Len(audit) < mix.flags

MCNext ==
    \/ \E w \in Workers :
          \/ \E r \in mix.requests :
                WithinMix(w, r) /\ Receive(w, r) /\ UNCHANGED mix
          \/ Step(w) /\ UNCHANGED mix
          \/ "save" \in mix.failures /\ SaveFails(w) /\ UNCHANGED mix
          \/ "insert" \in mix.failures /\ InsertFails(w) /\ UNCHANGED mix
          \/ "compensate" \in mix.failures /\ CompensateFails(w) /\ UNCHANGED mix
          \/ "commit" \in mix.failures /\ CommitFails(w) /\ UNCHANGED mix
    \/ "crash" \in mix.failures /\ Crash /\ UNCHANGED mix

MCInit == Init /\ mix \in Mixes

MCSpec == MCInit /\ [][MCNext]_<<vars, mix>>

RollbackInit == Init /\ mix = RollbackMix

RollbackSpec == RollbackInit /\ [][MCNext]_<<vars, mix>>

(* Two overlapping creators, importers and editors of one question: no     *)
(* update of service.py loses a field to another, and while no             *)
(* registration fails and no process dies no content is left without a     *)
(* record.                                                                 *)
RevisionsKept ==
    mix.failures \cap {"insert", "crash"} = {} =>
        OrphansAreOwned /\ UpdatesExtendTheirBase

(* Every operation and every failure, one request at a time: each step of  *)
(* service.py is an operation of the registry or leaves its tables alone,  *)
(* whose histories chain and whose audit tells the flags.                  *)
SerialImplementsRegistry ==
    /\ Serial => Registry!Init
    /\ [][Serial => Registry!Next]_tables
    /\ [](Serial => RegistryInv)

=============================================================================
