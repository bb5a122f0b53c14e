------------------------------ MODULE MCAccounts ------------------------------
(***************************************************************************)
(* Instances of Accounts for TLC: each behaviour takes its requests, its   *)
(* users and its rate limit from one mix.                                  *)
(***************************************************************************)
EXTENDS Accounts, TLC

CONSTANTS w1, w2, root, ann, bob

Login(n, password) == [op |-> "login", actor |-> n, password |-> password]
Change(n, old, new) == [op |-> "change", actor |-> n, password |-> old, new |-> new]
Create(n, s, role) ==
    [op |-> "create", actor |-> n, subject |-> s, password |-> "p", role |-> role]
Patch(n, s, role, active) ==
    [op |-> "patch", actor |-> n, subject |-> s, role |-> role, active |-> active]
Reset(n, s) == [op |-> "reset", actor |-> n, subject |-> s, new |-> "r"]
Profile(n, t, v, valid) ==
    [op |-> "profile", actor |-> n, table |-> t, value |-> v, valid |-> valid]
Export(n) == [op |-> "export", actor |-> n]
ImportOf(n, change) == [op |-> "import", actor |-> n, change |-> change]

OneUser == [n \in {root} |-> Row("A1234", "admin")]
TwoAdmins == [n \in {root, ann} |-> Row("p", "admin")]
WithEngineer == [n \in {root, bob} |-> Row("p", IF n = root THEN "admin" ELSE "engineer")]

(* Right and wrong passwords of a user and of a name nobody has, while the *)
(* password changes.                                                       *)
SigningIn ==
    {Login(bob, "p"), Login(bob, "x"), Login(ann, "x"), Change(bob, "p", "x"), Reset(root, bob)}

(* Two administrators, who change each other's accounts and their own.     *)
Administering ==
    {Patch(root, ann, "viewer", Same), Patch(ann, root, Same, "no"),
     Patch(root, root, "engineer", Same), Patch(root, root, Same, "no"),
     Patch(ann, root, "chief", "no"), Patch(root, bob, Same, "yes"),
     Create(root, bob, "chief"), Create(ann, bob, "admin"),
     Change(ann, "p", "q"), Change(ann, "q", "p"), Reset(root, ann)}

(* One session that sends more than its share; the clock runs.             *)
Hurrying == {Change(bob, "x", "y"), Login(bob, "p"), Profile(bob, "license", "new", TRUE)}

(* Packages exported while what they hold changes.                         *)
Moving ==
    {Export(root), Profile(root, "license", "new", TRUE), Profile(root, "license", "odd", FALSE),
     Create(root, bob, "viewer")}
    \cup {ImportOf(root, c) : c \in {"none", "rows", "format", "unsigned", "unknown"}}

Mix(requests, rows, limit, ticks) ==
    [requests |-> requests, users |-> rows, limit |-> limit, ticks |-> ticks]
Mixes ==
    {Mix(SigningIn, WithEngineer, 0, 2),
     Mix(Administering, TwoAdmins, 0, 0),
     Mix(Hurrying, WithEngineer, 2, 4),
     Mix(Moving, OneUser, 0, 0)}

AllRequests == UNION {m.requests : m \in Mixes}

BothWorkers == Permutations(Workers)

OneProfile == <<"license">>

VARIABLE mix

MCInit ==
    /\ mix \in Mixes
    /\ users = mix.users
    /\ rateMax = mix.limit
    /\ profiles = [t \in ProfileTables |-> "default"]
    /\ attempts = [n \in Names |-> <<>>]
    /\ buckets = [n \in Names |-> <<>>]
    /\ admitted = [n \in Names |-> <<>>]
    /\ exports = <<>>
    /\ imported = <<>>
    /\ clock = 0
    /\ pc = [w \in Workers |-> "idle"]
    /\ req = [w \in Workers |-> NoRequest]
    /\ ctx = [w \in Workers |-> EmptyContext]

MCNext ==
    /\ \/ \E w \in Workers : (\E r \in mix.requests : Receive(w, r)) \/ Step(w)
       \/ clock < mix.ticks /\ Tick
       \/ Restart
    /\ UNCHANGED mix

MCSpec == MCInit /\ [][MCNext]_<<vars, mix>>

=============================================================================
