------------------------------- MODULE MCJoints -------------------------------
(***************************************************************************)
(* Instances of JointRevisions for TLC.  Each behaviour takes its requests *)
(* and its threads from one mix.                                           *)
(***************************************************************************)
EXTENDS JointRevisions, TLC

CONSTANTS w1, w2, ann, bob, k1, c1, c2

Joint(op) == [op |-> op, user |-> ann]
Create(key, content, user) ==
    [op |-> "create", user |-> user, key |-> key, content |-> content]
Transit(op, rev, user) == [op |-> op, user |-> user, rev |-> rev]

(* One key used for two contents and by two users, and no key.             *)
Creations ==
    {Joint("create_joint"), Joint("archive_joint"),
     Create(k1, c1, ann), Create(k1, c2, ann), Create(k1, c1, bob), Create(NoKey, c1, bob)}

(* The review of the first revision by its author and by somebody else.    *)
ReviewOf(rev) ==
    {Transit("submit", rev, ann), Transit("approve", rev, bob),
     Transit("reject", rev, bob), Transit("approve", rev, ann)}

CreateAndReview ==
    {Joint("create_joint"), Create(k1, c1, ann), Create(NoKey, c1, bob)} \cup ReviewOf(1)

(* Two creations that compete, and the review of the first of them.        *)
Overlapping ==
    {Joint("create_joint"), Joint("archive_joint"),
     Create(k1, c1, ann), Create(k1, c2, bob), Create(NoKey, c1, bob)} \cup ReviewOf(1)

EveryOperation == Creations \cup ReviewOf(1) \cup ReviewOf(2)

Mixes ==
    {[requests |-> Overlapping, threads |-> 2],
     [requests |-> EveryOperation, threads |-> 1]}

AllRequests == Overlapping \cup EveryOperation

BothWorkers == Permutations({w1, w2})

VARIABLE mix

Serial == mix.threads = 1

MCNext ==
    \/ \E w \in Workers :
          \/ /\ Serial => \A x \in Workers \ {w} : req[x] = NoRequest
             /\ \E r \in mix.requests : Receive(w, r) /\ UNCHANGED mix
          \/ Step(w) /\ UNCHANGED mix
          \/ Busy(w) /\ UNCHANGED mix
    \/ Crash /\ UNCHANGED mix

MCInit == Init /\ mix \in Mixes

MCSpec == MCInit /\ [][MCNext]_<<vars, mix>>

(* Every operation on two revisions, with failures and restarts, one       *)
(* request at a time: each step of service.py is an operation of the       *)
(* register or leaves its tables alone, so that every decision is made     *)
(* once and the joint points at an approved revision.                      *)
SerialImplementsRegister ==
    /\ Serial => Register!Init
    /\ [][Serial => Register!Next]_<<joint, revs>>
    /\ [](Serial => RegisterInv)

=============================================================================
