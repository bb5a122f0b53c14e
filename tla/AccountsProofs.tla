---------------------------- MODULE AccountsProofs ----------------------------
(***************************************************************************)
(* Any number of threads, any requests, any times: the limiters let no     *)
(* more through than they should, the last administrator does not go by a  *)
(* refused request, and an export comes back as valid.                     *)
(***************************************************************************)
EXTENDS Accounts, WellFoundedInduction, FiniteSetTheorems, SequenceTheorems, TLAPS

-----------------------------------------------------------------------------
(* Positions are well-founded.                                             *)
NatOrder == {p \in Nat \X Nat : p[1] < p[2]}

LEMMA NatOrderWellFounded == IsWellFoundedOn(NatOrder, Nat)
BY NatLessThanWellFounded DEF OpToRel, NatOrder

(* A non-empty set of positions has a last one, and LastOf is it. *)
LEMMA LastOfIsLast ==
    ASSUME NEW n \in Nat, NEW idx \in SUBSET (1..n), idx # {}
    PROVE  LastOf(idx) \in idx /\ \A j \in idx : j <= LastOf(idx)
<1> DEFINE T == {n - i : i \in idx}
<1>1. \A i \in idx : n - i \in Nat /\ n - i \in T
  OBVIOUS
<1>2. T \subseteq Nat /\ T # {}
  BY <1>1
<1>3. PICK x \in T : \A y \in T : <<y, x>> \notin NatOrder
  <2> HIDE DEF T
  <2>1. QED
    BY <1>2, WFMin, NatOrderWellFounded
<1>4. PICK i \in idx : x = n - i
  OBVIOUS
<1>5. ASSUME NEW j \in idx PROVE j <= i
  <2>1. ~ (n - j < n - i)
    BY <1>1, <1>3, <1>4 DEF NatOrder
  <2>2. QED
    BY <2>1
<1>6. QED
  BY <1>5 DEF LastOf

-----------------------------------------------------------------------------
(* The threads.                                                            *)

Handlers == {"change", "create", "patch", "reset", "profile", "export", "import"}
Labels == {"idle", "limit", "lookup", "verify", "authenticate", "write_password"} \cup Handlers
ContextFields == {"row", "tables"}

Threads ==
    /\ pc \in [Workers -> Labels]
    /\ req \in [Workers -> Requests \cup {NoRequest}]
    /\ ctx = [w \in Workers |-> ctx[w]]
    /\ \A w \in Workers : DOMAIN ctx[w] = ContextFields

(* Which request a thread works on.                                        *)
Working(w) ==
    /\ pc[w] # "idle" => req[w] \in Requests
    /\ pc[w] = "authenticate" => req[w].op \in Handlers
    /\ pc[w] \in Handlers => req[w].op = pc[w]

ThreadsInv == Threads /\ \A w \in Workers : Working(w)

(* A step of one thread leaves the others alone.                           *)
OneMoves(w) ==
    /\ \E label \in Labels : pc' = [pc EXCEPT ![w] = label]
    /\ \E r \in Requests \cup {NoRequest} : req' = [req EXCEPT ![w] = r]
    /\ ctx' = [ctx EXCEPT ![w] = ctx'[w]]
    /\ DOMAIN ctx'[w] = ContextFields

LEMMA OneMovesKeeps ==
    ASSUME ThreadsInv, NEW w \in Workers, OneMoves(w), Working(w)'
    PROVE  /\ ThreadsInv'
           /\ \A v \in Workers \ {w} : pc'[v] = pc[v] /\ req'[v] = req[v] /\ ctx'[v] = ctx[v]
<1>1. pc' \in [Workers -> Labels] /\ req' \in [Workers -> Requests \cup {NoRequest}]
    BY DEF OneMoves, ThreadsInv, Threads
<1>2. \A v \in Workers \ {w} :
          pc'[v] = pc[v] /\ req'[v] = req[v] /\ ctx'[v] = ctx[v]
    BY DEF OneMoves, ThreadsInv, Threads
<1>3. ctx' = [v \in Workers |-> ctx'[v]]
    BY DEF OneMoves, ThreadsInv, Threads
<1>4. Threads'
    BY <1>1, <1>2, <1>3 DEF OneMoves, ThreadsInv, Threads
<1>5. \A v \in Workers : Working(v)'
    BY <1>2 DEF ThreadsInv, Working
<1>6. QED
    BY <1>2, <1>4, <1>5 DEF ThreadsInv

LEMMA FinishMoves ==
    ASSUME ThreadsInv, NEW w \in Workers, Finish(w)
    PROVE  OneMoves(w) /\ Working(w)' /\ pc'[w] = "idle" /\ ctx'[w].tables = <<>>
<1>1. OneMoves(w) /\ pc'[w] = "idle" /\ ctx'[w] = EmptyContext
    BY DEF ThreadsInv, Threads, Finish, EmptyContext, OneMoves, Labels, ContextFields
<1>2. QED
    BY <1>1 DEF Working, EmptyContext, Handlers

LEMMA GotoMoves ==
    ASSUME ThreadsInv, NEW w \in Workers, NEW label \in Labels, Goto(w, label),
           ctx' = [ctx EXCEPT ![w] = ctx'[w]], DOMAIN ctx'[w] = ContextFields
    PROVE  OneMoves(w) /\ pc'[w] = label /\ UNCHANGED req
<1>1. req' = [req EXCEPT ![w] = req[w]] /\ req[w] \in Requests \cup {NoRequest}
    BY DEF ThreadsInv, Threads, Goto
<1>2. QED
    BY <1>1 DEF ThreadsInv, Threads, Goto, OneMoves

WorkerStep(w) == (\E r \in Requests : Receive(w, r)) \/ Step(w)

(* Every step of a thread.                                                 *)
LEMMA StepMoves ==
    ASSUME ThreadsInv, NEW w \in Workers, WorkerStep(w)
    PROVE  OneMoves(w) /\ Working(w)'
<1>1. CASE Finish(w)
    BY <1>1, FinishMoves
<1>2. /\ pc[w] \in Labels /\ Working(w) /\ w \in DOMAIN ctx
      /\ DOMAIN ctx[w] = ContextFields /\ ctx = [v \in Workers |-> ctx[v]]
    BY DEF ThreadsInv, Threads
<1>3. ASSUME NEW label \in {"lookup", "write_password"}, Goto(w, label), UNCHANGED ctx,
             pc[w] # "idle"
      PROVE  OneMoves(w) /\ Working(w)'
  <2>1. ctx' = [ctx EXCEPT ![w] = ctx'[w]] /\ DOMAIN ctx'[w] = ContextFields /\ label \in Labels
      BY <1>2, <1>3 DEF Labels
  <2>2. OneMoves(w) /\ pc'[w] = label /\ UNCHANGED req
      BY <1>3, <2>1, GotoMoves
  <2>3. QED
      BY <1>2, <1>3, <2>2 DEF Working, Handlers
<1>4. CASE \E r \in Requests : Receive(w, r)
  <2>1. PICK r \in Requests : Receive(w, r)
      BY <1>4
  <2>2. CASE UNCHANGED <<pc, req, ctx>>
    <3>1. OneMoves(w)
      BY <1>2, <2>2 DEF OneMoves, ThreadsInv, Threads
    <3>2. QED
      BY <1>2, <2>2, <3>1 DEF Working
  <2>3. CASE /\ pc' = [pc EXCEPT ![w] = IF r.op = "login" THEN "limit" ELSE "authenticate"]
             /\ req' = [req EXCEPT ![w] = r] /\ UNCHANGED ctx
    <3>1. pc'[w] = (IF r.op = "login" THEN "limit" ELSE "authenticate") /\ req'[w] = r
      BY <2>3 DEF ThreadsInv, Threads
    <3>2. {"limit", "authenticate"} \subseteq Labels
      BY DEF Labels
    <3>3. OneMoves(w)
      BY <1>2, <2>3, <3>2 DEF OneMoves
    <3>4. QED
      BY <3>1, <3>3, RequestsAssumption DEF Working, Handlers
  <2>4. QED
      BY <2>1, <2>2, <2>3 DEF Receive
<1>5. CASE Limit(w)
    BY <1>1, <1>3, <1>5 DEF Limit
<1>6. CASE Lookup(w)
  <2>1. PICK x : ctx' = [ctx EXCEPT ![w].row = x] /\ Goto(w, "verify") /\ pc[w] = "lookup"
      BY <1>6 DEF Lookup
  <2>2. ctx' = [ctx EXCEPT ![w] = ctx'[w]] /\ DOMAIN ctx'[w] = ContextFields /\ "verify" \in Labels
      BY <1>2, <2>1 DEF Labels
  <2>3. OneMoves(w) /\ pc'[w] = "verify" /\ UNCHANGED req
      BY <2>1, <2>2, GotoMoves
  <2>4. QED
      BY <1>2, <2>1, <2>3 DEF Working, Handlers
<1>7. CASE Authenticate(w)
  <2>1. CASE Goto(w, req[w].op) /\ UNCHANGED ctx
    <3>1. req[w].op \in Handlers /\ req[w].op \in Labels /\ req[w] \in Requests
      BY <1>2, <1>7 DEF Authenticate, Working, Labels
    <3>2. ctx' = [ctx EXCEPT ![w] = ctx'[w]] /\ DOMAIN ctx'[w] = ContextFields
      BY <1>2, <2>1
    <3>3. OneMoves(w) /\ pc'[w] = req[w].op /\ UNCHANGED req
      BY <2>1, <3>1, <3>2, GotoMoves
    <3>4. QED
      BY <3>1, <3>3 DEF Working, Handlers
  <2>2. QED
      BY <1>1, <1>7, <2>1 DEF Authenticate
<1>8. CASE ReadOwnPassword(w)
    BY <1>1, <1>3, <1>8 DEF ReadOwnPassword
<1>9. CASE ReadTable(w)
  <2>1. PICK x : ctx' = [ctx EXCEPT ![w].tables = x] /\ UNCHANGED <<pc, req>>
      BY <1>9 DEF ReadTable
  <2>2. ctx' = [ctx EXCEPT ![w] = ctx'[w]] /\ DOMAIN ctx'[w] = ContextFields
      BY <1>2, <2>1
  <2>3. OneMoves(w)
      BY <1>2, <2>1, <2>2 DEF OneMoves, ThreadsInv, Threads
  <2>4. QED
      BY <1>2, <2>1, <2>3 DEF Working
<1>10. CASE \/ Verify(w) \/ WritePassword(w) \/ CreateUser(w) \/ PatchUser(w) \/ ResetPassword(w)
            \/ PutProfile(w) \/ StoreExport(w) \/ Import(w)
    BY <1>1, <1>10
    DEF Verify, WritePassword, CreateUser, PatchUser, ResetPassword, PutProfile, StoreExport, Import
<1>11. QED
    BY <1>4, <1>5, <1>6, <1>7, <1>8, <1>9, <1>10 DEF WorkerStep, Step

LEMMA ThreadsInit == Init => ThreadsInv
<1> SUFFICES ASSUME Init PROVE ThreadsInv
    OBVIOUS
<1>1. Threads
    BY DEF Init, Threads, EmptyContext, ContextFields, Labels
<1>2. \A w \in Workers : Working(w)
    BY DEF Init, Working, Handlers
<1>3. QED
    BY <1>1, <1>2 DEF ThreadsInv

LEMMA ThreadsStep ==
    ASSUME ThreadsInv, [Next]_vars
    PROVE  ThreadsInv'
<1>1. CASE \E w \in Workers : WorkerStep(w)
    BY <1>1, StepMoves, OneMovesKeeps
<1>2. CASE UNCHANGED <<pc, req, ctx>>
  <2>1. \A w \in Workers : Working(w)'
      BY <1>2 DEF ThreadsInv, Working
  <2>2. QED
      BY <1>2, <2>1 DEF ThreadsInv, Threads
<1>3. CASE Restart
  <2>1. Threads'
      BY <1>3 DEF Restart, Threads, EmptyContext, ContextFields, Labels
  <2>2. \A w \in Workers : Working(w)'
      BY <1>3 DEF Restart, Working, Handlers
  <2>3. QED
      BY <2>1, <2>2 DEF ThreadsInv
<1>4. QED
    BY <1>1, <1>2, <1>3 DEF Next, Tick, vars, WorkerStep

-----------------------------------------------------------------------------
(* The users.                                                              *)

RowFields == {"password", "role", "active"}

UserRows ==
    /\ users = [n \in DOMAIN users |-> users[n]]
    /\ \A n \in DOMAIN users :
          /\ DOMAIN users[n] = RowFields
          /\ users[n].role \in Roles /\ users[n].active \in BOOLEAN

UsersInv ==
    /\ UserRows
    /\ BuiltIn \in DOMAIN users
    /\ DOMAIN users \subseteq Names
    /\ DOMAIN profiles = ProfileTables

(* The users keep their roles and are as active as before.                 *)
SameRights ==
    /\ DOMAIN users' = DOMAIN users
    /\ \A n \in DOMAIN users :
          users'[n].role = users[n].role /\ users'[n].active = users[n].active

LEMMA PasswordKeepsRights ==
    ASSUME UserRows, NEW n, NEW p, users' = [users EXCEPT ![n].password = p]
    PROVE  SameRights /\ UserRows'
<1>1. CASE n \in DOMAIN users
  <2>1. /\ users' = [users EXCEPT ![n] = [users[n] EXCEPT !.password = p]]
        /\ DOMAIN users[n] = RowFields
      BY <1>1 DEF UserRows
  <2>2. /\ users'[n] = [users[n] EXCEPT !.password = p]
        /\ \A m \in DOMAIN users : m # n => users'[m] = users[m]
        /\ DOMAIN users' = DOMAIN users /\ users' = [m \in DOMAIN users |-> users'[m]]
      BY <1>1, <2>1
  <2>3. DOMAIN users'[n] = RowFields /\ users'[n].role = users[n].role
        /\ users'[n].active = users[n].active
      BY <2>1, <2>2
  <2>4. QED
      BY <2>2, <2>3 DEF SameRights, UserRows
<1>2. CASE n \notin DOMAIN users
  <2>1. users' = users
      BY <1>2 DEF UserRows
  <2>2. QED
      BY <2>1 DEF SameRights, UserRows
<1>3. QED
    BY <1>1, <1>2

(* A patch that is accepted: what becomes of the row.                      *)
LEMMA PatchedRow ==
    ASSUME UsersInv, ThreadsInv, NEW w \in Workers, PatchUser(w)
    PROVE  \/ UNCHANGED users
           \/ LET r == req[w]
                  n == r.subject IN
              /\ r \in Requests /\ r.op = "patch" /\ PatchAccepted(r)
              /\ n \in DOMAIN users /\ DOMAIN users' = DOMAIN users
              /\ users' = [m \in DOMAIN users |-> users'[m]]
              /\ \A m \in DOMAIN users : m # n => users'[m] = users[m]
              /\ DOMAIN users'[n] = RowFields
              /\ users'[n].role = IF r.role = Same THEN users[n].role ELSE r.role
              /\ users'[n].active = IF r.active = Same THEN users[n].active ELSE r.active = "yes"
<1> DEFINE r == req[w]
           n == r.subject
<1>1. r \in Requests /\ r.op = "patch"
  <2>1. pc[w] = "patch" /\ Working(w)
      BY DEF PatchUser, ThreadsInv
  <2>2. QED
      BY <2>1 DEF Working, Handlers
<1>2. CASE ~(PatchAccepted(r) /\ n \in DOMAIN users)
    BY <1>2 DEF PatchUser
<1>3. CASE PatchAccepted(r) /\ n \in DOMAIN users
  <2> DEFINE role == IF r.role = Same THEN users[n].role ELSE r.role
             active == IF r.active = Same THEN users[n].active ELSE r.active = "yes"
  <2>1. users' = [users EXCEPT ![n] = [[users[n] EXCEPT !.role = role] EXCEPT !.active = active]]
      BY <1>3 DEF PatchUser
  <2>2. DOMAIN users[n] = RowFields /\ users = [m \in DOMAIN users |-> users[m]]
      BY <1>3 DEF UsersInv, UserRows
  <2> HIDE DEF role, active
  <2>3. users'[n] = [[users[n] EXCEPT !.role = role] EXCEPT !.active = active]
      BY <1>3, <2>1
  <2>4. DOMAIN users'[n] = RowFields /\ users'[n].role = role /\ users'[n].active = active
      BY <2>2, <2>3 DEF RowFields
  <2>5. /\ DOMAIN users' = DOMAIN users /\ users' = [m \in DOMAIN users |-> users'[m]]
        /\ \A m \in DOMAIN users : m # n => users'[m] = users[m]
      BY <1>3, <2>1
  <2>6. QED
      BY <1>1, <1>3, <2>4, <2>5 DEF role, active
<1>4. QED
    BY <1>2, <1>3

(* Which steps change the rights of a user.                                *)
LEMMA RightsChange ==
    ASSUME UsersInv, ThreadsInv, NEW w \in Workers, WorkerStep(w)
    PROVE  \/ UNCHANGED users
           \/ SameRights /\ UserRows'
           \/ CreateUser(w)
           \/ PatchUser(w)
<1>1. CASE WritePassword(w)
  <2>1. PICK n, p : users' = [users EXCEPT ![n].password = p]
      BY <1>1 DEF WritePassword
  <2>2. QED
      BY <2>1, PasswordKeepsRights DEF UsersInv
<1>2. CASE ResetPassword(w)
  <2>1. UNCHANGED users \/ \E n, p : users' = [users EXCEPT ![n].password = p]
      BY <1>2 DEF ResetPassword
  <2>2. QED
      BY <2>1, PasswordKeepsRights DEF UsersInv
<1>3. CASE \E r \in Requests : Receive(w, r)
    BY <1>3 DEF Receive, tables
<1>4. CASE \/ Limit(w) \/ Lookup(w) \/ Verify(w) \/ Authenticate(w) \/ ReadOwnPassword(w)
           \/ PutProfile(w) \/ ReadTable(w) \/ StoreExport(w) \/ Import(w)
    BY <1>4
    DEF Limit, Lookup, Verify, Authenticate, ReadOwnPassword, PutProfile, ReadTable, StoreExport,
        Import, tables
<1>5. QED
    BY <1>1, <1>2, <1>3, <1>4 DEF WorkerStep, Step

LEMMA ProfilesStay ==
    ASSUME UsersInv, [Next]_vars
    PROVE  DOMAIN profiles' = ProfileTables
<1>1. CASE UNCHANGED profiles
    BY <1>1 DEF UsersInv
<1>2. ASSUME NEW w \in Workers, PutProfile(w) PROVE DOMAIN profiles' = ProfileTables
  <2>1. UNCHANGED profiles
        \/ \E t, v : profiles' = [profiles EXCEPT ![t] = v]
      BY <1>2 DEF PutProfile
  <2>2. QED
      BY <2>1 DEF UsersInv
<1>3. ASSUME NEW w \in Workers, WorkerStep(w), ~PutProfile(w) PROVE UNCHANGED profiles
    BY <1>3
    DEF WorkerStep, Step, Receive, Limit, Lookup, Verify, Authenticate, ReadOwnPassword,
        WritePassword, CreateUser, PatchUser, ResetPassword, ReadTable, StoreExport, Import, tables
<1>4. QED
    BY <1>1, <1>2, <1>3 DEF Next, Tick, Restart, vars, tables, WorkerStep

LEMMA UsersStep ==
    ASSUME UsersInv, ThreadsInv, [Next]_vars
    PROVE  UsersInv'
<1>1. SUFFICES UserRows' /\ BuiltIn \in DOMAIN users' /\ DOMAIN users' \subseteq Names
    BY ProfilesStay DEF UsersInv
<1>2. UserRows /\ BuiltIn \in DOMAIN users /\ DOMAIN users \subseteq Names
    BY DEF UsersInv
<1>3. CASE UNCHANGED users
    BY <1>2, <1>3 DEF UserRows
<1>4. ASSUME NEW w \in Workers, CreateUser(w)
      PROVE  UserRows' /\ BuiltIn \in DOMAIN users' /\ DOMAIN users' \subseteq Names
  <2> DEFINE r == req[w]
             row == Row(r.password, NewRole(r.role))
  <2>1. r \in Requests /\ r.op = "create"
    <3>1. pc[w] = "create" /\ Working(w)
      BY <1>4 DEF CreateUser, ThreadsInv
    <3>2. QED
      BY <3>1 DEF Working, Handlers
  <2>2. r.subject \in Names
      BY <2>1, RequestsAssumption
  <2>3. CASE users' = Put(users, r.subject, row)
    <3>1. DOMAIN row = RowFields /\ row.role \in Roles /\ row.active \in BOOLEAN
      BY DEF Row, NewRole, Roles, RowFields
    <3> HIDE DEF row
    <3>2. /\ users' = [n \in DOMAIN users \cup {r.subject} |-> users'[n]]
          /\ \A n \in DOMAIN users' :
                users'[n] = row \/ (n \in DOMAIN users /\ users'[n] = users[n])
          /\ DOMAIN users' = DOMAIN users \cup {r.subject}
      BY <2>3 DEF Put
    <3>3. UserRows'
      BY <1>2, <3>1, <3>2 DEF UserRows
    <3>4. QED
      BY <1>2, <2>2, <3>2, <3>3
  <2>4. CASE UNCHANGED users
      BY <1>3, <2>4
  <2>5. QED
      BY <1>4, <2>3, <2>4 DEF CreateUser
<1>5. ASSUME NEW w \in Workers, PatchUser(w)
      PROVE  UserRows' /\ BuiltIn \in DOMAIN users' /\ DOMAIN users' \subseteq Names
  <2> DEFINE r == req[w]
  <2>1. CASE UNCHANGED users
      BY <1>3, <2>1
  <2>2. CASE users' # users
    <3>1. PICK n \in DOMAIN users :
              /\ r \in Requests /\ r.op = "patch" /\ PatchAccepted(r)
              /\ DOMAIN users' = DOMAIN users /\ users' = [m \in DOMAIN users |-> users'[m]]
              /\ \A m \in DOMAIN users : m # n => users'[m] = users[m]
              /\ DOMAIN users'[n] = RowFields
              /\ users'[n].role = IF r.role = Same THEN users[n].role ELSE r.role
              /\ users'[n].active = IF r.active = Same THEN users[n].active ELSE r.active = "yes"
      BY <1>5, <2>2, PatchedRow
    <3>2. users'[n].role \in Roles /\ users'[n].active \in BOOLEAN
      BY <1>2, <3>1 DEF PatchAccepted, UserRows
    <3>3. UserRows'
      BY <1>2, <3>1, <3>2 DEF UserRows
    <3>4. QED
      BY <1>2, <3>1, <3>3
  <2>3. QED
      BY <2>1, <2>2
<1>6. CASE SameRights /\ UserRows'
    BY <1>2, <1>6 DEF SameRights
<1>7. CASE Restart
  <2>1. /\ users' = [users EXCEPT ![BuiltIn] = [users[BuiltIn] EXCEPT !.role = "admin"]]
        /\ DOMAIN users[BuiltIn] = RowFields /\ users[BuiltIn].active \in BOOLEAN
      BY <1>2, <1>7 DEF Restart, UserRows
  <2>2. /\ users'[BuiltIn] = [users[BuiltIn] EXCEPT !.role = "admin"]
        /\ \A m \in DOMAIN users : m # BuiltIn => users'[m] = users[m]
        /\ DOMAIN users' = DOMAIN users /\ users' = [m \in DOMAIN users |-> users'[m]]
      BY <1>2, <2>1
  <2>3. DOMAIN users'[BuiltIn] = RowFields /\ users'[BuiltIn].role = "admin"
        /\ users'[BuiltIn].active = users[BuiltIn].active
      BY <2>1, <2>2 DEF RowFields
  <2>4. UserRows'
      BY <1>2, <2>2, <2>3 DEF UserRows, Roles
  <2>5. QED
      BY <1>2, <2>2, <2>4
<1>8. QED
  <2>1. ASSUME NEW w \in Workers, WorkerStep(w)
        PROVE  UserRows' /\ BuiltIn \in DOMAIN users' /\ DOMAIN users' \subseteq Names
      BY <1>3, <1>4, <1>5, <1>6, <2>1, RightsChange
  <2>2. CASE Tick \/ UNCHANGED vars
      BY <1>3, <2>2 DEF Tick, tables, vars
  <2>3. QED
      BY <1>7, <2>1, <2>2 DEF Next, WorkerStep

LEMMA UsersInit == Init => UsersInv
<1> SUFFICES ASSUME Init PROVE UsersInv
    OBVIOUS
<1> DEFINE row == Row("A1234", "admin")
<1>1. DOMAIN row = RowFields /\ row.role \in Roles /\ row.active \in BOOLEAN
    BY DEF Row, RowFields, Roles
<1>2. users = [n \in {BuiltIn} |-> row] /\ profiles = [t \in ProfileTables |-> "default"]
    BY DEF Init
<1> HIDE DEF row
<1>3. UserRows
    BY <1>1, <1>2 DEF UserRows
<1>4. QED
    BY <1>2, <1>3, RequestsAssumption DEF UsersInv

-----------------------------------------------------------------------------
(* The last administrator.                                                 *)

LEMMA LastAdminStep ==
    ASSUME UsersInv, ThreadsInv, [Next]_vars, Admins # {}, Admins' = {}
    PROVE  \E w \in Workers :
               /\ pc[w] = "patch" /\ pc'[w] = "idle"
               /\ \/ req[w].actor \notin Admins
                  \/ req[w].actor = req[w].subject /\ req[w].role # Same
<1>1. PICK a : a \in DOMAIN users /\ users[a].active /\ users[a].role = "admin"
    BY DEF Admins
<1>2. ~(a \in DOMAIN users' /\ users'[a].active /\ users'[a].role = "admin")
    BY DEF Admins
<1>3. ~UNCHANGED users /\ ~SameRights
    BY <1>1, <1>2 DEF SameRights
<1>4. ~Restart
  <2>1. SUFFICES ASSUME Restart PROVE FALSE
      OBVIOUS
  <2>2. /\ users' = [users EXCEPT ![BuiltIn] = [users[BuiltIn] EXCEPT !.role = "admin"]]
        /\ DOMAIN users[BuiltIn] = RowFields
      BY <2>1 DEF Restart, UsersInv, UserRows
  <2>3. /\ users'[BuiltIn] = [users[BuiltIn] EXCEPT !.role = "admin"]
        /\ \A m \in DOMAIN users : m # BuiltIn => users'[m] = users[m]
        /\ DOMAIN users' = DOMAIN users
      BY <2>2 DEF UsersInv
  <2>4. /\ users'[BuiltIn].role = "admin"
        /\ users'[BuiltIn].active = users[BuiltIn].active
      BY <2>2, <2>3 DEF RowFields
  <2>5. QED
      BY <1>1, <1>2, <2>3, <2>4
<1>5. PICK w \in Workers : CreateUser(w) \/ PatchUser(w)
  <2>1. ~Tick /\ ~UNCHANGED vars
      BY <1>3 DEF Tick, tables, vars
  <2>2. QED
      BY <1>3, <1>4, <2>1, RightsChange DEF Next, WorkerStep
<1>6. ~CreateUser(w)
  <2>1. SUFFICES ASSUME CreateUser(w) PROVE FALSE
      OBVIOUS
  <2>2. users' = users
        \/ \E s, row : s \notin DOMAIN users /\ users' = Put(users, s, row)
      BY <2>1 DEF CreateUser
  <2>3. a \in DOMAIN users' /\ users'[a] = users[a]
      BY <1>1, <2>2 DEF Put
  <2>4. QED
      BY <1>1, <1>2, <2>3
<1>7. PatchUser(w)
    BY <1>5, <1>6
<1>8. pc[w] = "patch" /\ pc'[w] = "idle"
    BY <1>7, FinishMoves DEF PatchUser
<1>9. ASSUME req[w].actor \in Admins, ~(req[w].actor = req[w].subject /\ req[w].role # Same)
      PROVE  FALSE
  <2> DEFINE r == req[w]
             n == r.actor
  <2>1. n \in DOMAIN users /\ users[n].active /\ users[n].role = "admin"
      BY <1>9 DEF Admins
  <2>2. ~(n \in DOMAIN users' /\ users'[n].active /\ users'[n].role = "admin")
      BY DEF Admins
  <2>3. PICK s : /\ s = r.subject
                 /\ r \in Requests /\ r.op = "patch" /\ PatchAccepted(r)
                 /\ s \in DOMAIN users /\ DOMAIN users' = DOMAIN users
                 /\ \A m \in DOMAIN users : m # s => users'[m] = users[m]
                 /\ users'[s].role = IF r.role = Same THEN users[s].role ELSE r.role
                 /\ users'[s].active = IF r.active = Same THEN users[s].active
                                       ELSE r.active = "yes"
      BY <1>3, <1>7, PatchedRow
  <2>4. n = s
      BY <2>1, <2>2, <2>3
  <2>5. r.role = Same /\ r.active \in {Same, "yes"}
    <3>1. r.active # "no" /\ r.role = Same
      BY <1>9, <2>3, <2>4 DEF PatchAccepted
    <3>2. QED
      BY <2>3, <3>1, RequestsAssumption
  <2>6. users'[n].role = "admin" /\ users'[n].active
      BY <2>1, <2>3, <2>4, <2>5
  <2>7. QED
      BY <2>1, <2>2, <2>3, <2>6
<1>10. QED
    BY <1>8, <1>9

(* For any number of administrators and threads: when the last of them     *)
(* goes, somebody gave up a role, or a patch was carried out whose sender  *)
(* was no administrator any more.                                          *)
THEOREM LastAdminFalls == Spec => LastAdminFallsByOverlap
<1>1. Init => UsersInv /\ ThreadsInv
    BY UsersInit, ThreadsInit
<1>2. UsersInv /\ ThreadsInv /\ [Next]_vars => (UsersInv /\ ThreadsInv)'
    BY UsersStep, ThreadsStep
<1>3. UsersInv /\ ThreadsInv /\ [Next]_vars =>
          [Admins # {} /\ Admins' = {} =>
              \E w \in Workers :
                  /\ pc[w] = "patch" /\ pc'[w] = "idle"
                  /\ \/ req[w].actor \notin Admins
                     \/ req[w].actor = req[w].subject /\ req[w].role # Same]_vars
    BY LastAdminStep
<1>4. QED
    BY <1>1, <1>2, <1>3, PTL DEF Spec, LastAdminFallsByOverlap

-----------------------------------------------------------------------------
(* The two limiters.                                                       *)

(* popleft takes the first entries, and each of them is old enough.        *)
LEMMA PrunedDropsOld ==
    ASSUME NEW q \in Times, NEW seconds \in Nat, clock \in Nat
    PROVE  /\ Pruned(q, seconds) \in Times
           /\ \E d \in 0 .. Len(q) :
                 /\ Len(Pruned(q, seconds)) = Len(q) - d
                 /\ \A i \in 1 .. Len(q) - d : Pruned(q, seconds)[i] = q[d + i]
                 /\ \A i \in 1 .. d : clock - q[i] > seconds
                 /\ d < Len(q) => ~(clock - q[d + 1] > seconds)
<1> DEFINE stops == {k \in 1 .. Len(q) + 1 : \A i \in 1 .. k - 1 : clock - q[i] > seconds}
           k == LastOf(stops)
<1>1. Len(q) \in Nat /\ Len(q) + 1 \in Nat
    BY DEF Times
<1>2. 1 \in stops /\ stops \in SUBSET (1 .. Len(q) + 1)
    BY <1>1
<1>3. k \in stops /\ \A j \in stops : j <= k
  <2> HIDE DEF stops
  <2>1. QED
      BY <1>1, <1>2, LastOfIsLast
<1>4. k \in 1 .. Len(q) + 1 /\ \A i \in 1 .. k - 1 : clock - q[i] > seconds
    BY <1>3
<1>5. Pruned(q, seconds) = SubSeq(q, k, Len(q))
    BY DEF Pruned
<1>9. k <= Len(q) => ~(clock - q[k] > seconds)
  <2>1. SUFFICES ASSUME k <= Len(q), clock - q[k] > seconds PROVE FALSE
      OBVIOUS
  <2>2. PICK m : m = k
      OBVIOUS
  <2>3. m \in 1 .. Len(q) /\ clock - q[m] > seconds /\ \A i \in 1 .. m - 1 : clock - q[i] > seconds
      BY <1>1, <1>4, <2>1, <2>2
  <2>4. \A i \in 1 .. (m + 1) - 1 : clock - q[i] > seconds
    <3>1. \A i \in 1 .. (m + 1) - 1 : i \in 1 .. m - 1 \/ i = m
      BY <1>1, <2>3
    <3>2. QED
      BY <2>3, <3>1
  <2>5. m + 1 \in 1 .. Len(q) + 1
      BY <1>1, <2>3
  <2>6. m + 1 \in stops
      BY <2>4, <2>5
  <2>7. m + 1 <= m
      BY <1>3, <2>2, <2>6
  <2>8. QED
      BY <2>3, <2>7
<1> HIDE DEF k, stops
<1>6. /\ SubSeq(q, k, Len(q)) \in Times
      /\ Len(SubSeq(q, k, Len(q))) = IF k <= Len(q) THEN Len(q) - k + 1 ELSE 0
      /\ \A i \in 1 .. Len(q) - k + 1 : SubSeq(q, k, Len(q))[i] = q[k + i - 1]
  <2>1. \A i \in k .. Len(q) : i \in DOMAIN q
      BY <1>1, <1>4 DEF Times
  <2>2. PICK S : S = 0 .. MaxClock
      OBVIOUS
  <2>3. q \in Seq(S) /\ Times = Seq(S)
      BY <2>2 DEF Times
  <2>4. \A i \in k .. Len(q) : q[i] \in S
      BY <2>1, <2>3
  <2>5. k \in Int /\ Len(q) \in Int
      BY <1>1, <1>4
  <2>6. QED
      BY <2>3, <2>4, <2>5, SubSeqProperties
<1>7. /\ k - 1 \in 0 .. Len(q)
      /\ Len(Pruned(q, seconds)) = Len(q) - (k - 1)
      /\ \A i \in 1 .. Len(q) - (k - 1) : Pruned(q, seconds)[i] = q[(k - 1) + i]
    BY <1>1, <1>4, <1>5, <1>6
<1>10. k - 1 < Len(q) => ~(clock - q[(k - 1) + 1] > seconds)
    BY <1>1, <1>4, <1>9
<1>8. QED
    BY <1>4, <1>5, <1>6, <1>7, <1>10

(* A bucket holds the last of the times admitted; what is no longer in it  *)
(* is older than the window.                                               *)
Suffix(a, q, time) ==
    \E d \in 0 .. Len(a) :
        /\ Len(q) = Len(a) - d
        /\ \A i \in 1 .. Len(q) : q[i] = a[d + i]
        /\ \A i \in 1 .. d : time - a[i] > RateWindow

Spaced(a) == \A i, j \in DOMAIN a : j = i + rateMax => a[j] - a[i] > RateWindow

LEMMA PrunedKeepsSuffix ==
    ASSUME NEW a \in Times, NEW q \in Times, clock \in Nat, Suffix(a, q, clock)
    PROVE  Suffix(a, Pruned(q, RateWindow), clock)
<1>1. PICK d \in 0 .. Len(a) :
          /\ Len(q) = Len(a) - d
          /\ \A i \in 1 .. Len(q) : q[i] = a[d + i]
          /\ \A i \in 1 .. d : clock - a[i] > RateWindow
    BY DEF Suffix
<1>2. PICK p : p = Pruned(q, RateWindow)
    OBVIOUS
<1>3. PICK e \in 0 .. Len(q) :
          /\ Len(p) = Len(q) - e
          /\ \A i \in 1 .. Len(q) - e : p[i] = q[e + i]
          /\ \A i \in 1 .. e : clock - q[i] > RateWindow
    BY <1>2, PrunedDropsOld, LimitsArePositive
<1>4. Len(q) \in Nat /\ Len(a) \in Nat
    BY DEF Times
<1>5. d + e \in 0 .. Len(a) /\ Len(p) = Len(a) - (d + e)
    BY <1>1, <1>3, <1>4
<1>6. \A i \in 1 .. Len(p) : p[i] = a[(d + e) + i]
    BY <1>1, <1>3, <1>4
<1>7. ASSUME NEW i \in 1 .. d + e PROVE clock - a[i] > RateWindow
  <2>1. CASE i \in 1 .. d
      BY <1>1, <2>1
  <2>2. CASE i \notin 1 .. d
    <3>1. i - d \in 1 .. e /\ i - d \in 1 .. Len(q) /\ d + (i - d) = i
      BY <1>1, <1>3, <1>4, <1>7, <2>2
    <3>2. q[i - d] = a[i]
      BY <1>1, <3>1
    <3>3. QED
      BY <1>3, <3>1, <3>2
  <2>3. QED
      BY <2>1, <2>2
<1>8. QED
    BY <1>2, <1>5, <1>6, <1>7 DEF Suffix

LEMMA AppendKeepsSuffix ==
    ASSUME NEW a \in Times, NEW q \in Times, NEW t \in 0 .. MaxClock, Suffix(a, q, t)
    PROVE  Suffix(Append(a, t), Append(q, t), t)
<1>1. PICK d \in 0 .. Len(a) :
          /\ Len(q) = Len(a) - d
          /\ \A i \in 1 .. Len(q) : q[i] = a[d + i]
          /\ \A i \in 1 .. d : t - a[i] > RateWindow
    BY DEF Suffix
<1>2. PICK b, p : b = Append(a, t) /\ p = Append(q, t)
    OBVIOUS
<1>3. /\ Len(q) \in Nat /\ Len(a) \in Nat
      /\ Len(b) = Len(a) + 1 /\ Len(p) = Len(q) + 1
      /\ b[Len(a) + 1] = t /\ p[Len(q) + 1] = t
      /\ \A i \in 1 .. Len(a) : b[i] = a[i]
      /\ \A i \in 1 .. Len(q) : p[i] = q[i]
    BY <1>2 DEF Times
<1>4. d \in 0 .. Len(b) /\ Len(p) = Len(b) - d
    BY <1>1, <1>3
<1>5. ASSUME NEW i \in 1 .. Len(p) PROVE p[i] = b[d + i]
  <2>1. CASE i \in 1 .. Len(q)
    <3>1. d + i \in 1 .. Len(a)
      BY <1>1, <1>3, <2>1
    <3>2. QED
      BY <1>1, <1>3, <2>1, <3>1
  <2>2. CASE i = Len(q) + 1
    <3>1. d + i = Len(a) + 1
      BY <1>1, <1>3, <2>2
    <3>2. QED
      BY <1>3, <2>2, <3>1
  <2>3. QED
      BY <1>3, <2>1, <2>2
<1>6. \A i \in 1 .. d : t - b[i] > RateWindow
  <2>1. \A i \in 1 .. d : i \in 1 .. Len(a)
      BY <1>1, <1>3
  <2>2. QED
      BY <1>1, <1>3, <2>1
<1>7. QED
    BY <1>2, <1>4, <1>5, <1>6 DEF Suffix

(* One more request is let through: the one rateMax before it has left the *)
(* bucket.                                                                 *)
LEMMA AppendKeepsSpaced ==
    ASSUME NEW a \in Times, NEW q \in Times, NEW t \in 0 .. MaxClock, Suffix(a, q, t),
           rateMax \in Nat \ {0}, Len(q) < rateMax, Spaced(a)
    PROVE  Spaced(Append(a, t))
<1>1. PICK d \in 0 .. Len(a) :
          /\ Len(q) = Len(a) - d
          /\ \A i \in 1 .. d : t - a[i] > RateWindow
    BY DEF Suffix
<1>2. PICK b : b = Append(a, t)
    OBVIOUS
<1>3. /\ Len(q) \in Nat /\ Len(a) \in Nat
      /\ DOMAIN b = 1 .. Len(a) + 1 /\ DOMAIN a = 1 .. Len(a)
      /\ b[Len(a) + 1] = t
      /\ \A i \in 1 .. Len(a) : b[i] = a[i]
    BY <1>2 DEF Times
<1>4. SUFFICES ASSUME NEW i \in DOMAIN b, NEW j \in DOMAIN b, j = i + rateMax
               PROVE  b[j] - b[i] > RateWindow
    BY <1>2 DEF Spaced
<1>5. i \in 1 .. Len(a)
    BY <1>3, <1>4
<1>6. CASE j \in 1 .. Len(a)
    BY <1>3, <1>4, <1>5, <1>6 DEF Spaced
<1>7. CASE j = Len(a) + 1
  <2>1. i \in 1 .. d
      BY <1>1, <1>3, <1>4, <1>5, <1>7
  <2>2. QED
      BY <1>1, <1>3, <1>5, <1>7, <2>1
<1>8. QED
    BY <1>3, <1>4, <1>6, <1>7

Buckets ==
    /\ buckets \in [Names -> Times] /\ admitted \in [Names -> Times]
    /\ clock \in 0 .. MaxClock /\ rateMax \in Nat
    /\ \A n \in Names : /\ Suffix(admitted[n], buckets[n], clock)
                        /\ rateMax > 0 => Spaced(admitted[n])

LEMMA TimesAreIntegers ==
    ASSUME NEW q \in Times, NEW i \in DOMAIN q
    PROVE  q[i] \in Int
<1>1. PICK S : S = 0 .. MaxClock
    OBVIOUS
<1>2. q \in Seq(S) /\ i \in 1 .. Len(q)
    BY <1>1 DEF Times
<1>3. q[i] \in S
    BY <1>2, ElementOfSeq
<1>4. QED
    BY <1>1, <1>3

(* What the limiter does to one bucket keeps it, and leaves the others.    *)
LEMMA BucketChanges ==
    ASSUME Buckets, NEW n \in Names, NEW a \in Times, NEW q \in Times,
           Suffix(a, q, clock), rateMax > 0 => Spaced(a),
           admitted' = [admitted EXCEPT ![n] = a], buckets' = [buckets EXCEPT ![n] = q],
           UNCHANGED <<clock, rateMax>>
    PROVE  Buckets'
<1>1. /\ admitted'[n] = a /\ buckets'[n] = q
      /\ \A m \in Names : m # n => admitted'[m] = admitted[m] /\ buckets'[m] = buckets[m]
      /\ admitted' \in [Names -> Times] /\ buckets' \in [Names -> Times]
    BY DEF Buckets
<1>2. ASSUME NEW m \in Names
      PROVE  Suffix(admitted'[m], buckets'[m], clock) /\ (rateMax > 0 => Spaced(admitted'[m]))
    BY <1>1 DEF Buckets
<1>3. ASSUME NEW m \in Names
      PROVE  Suffix(admitted[m], buckets[m], clock)' /\ (rateMax > 0 => Spaced(admitted[m]))'
    BY <1>2 DEF Suffix, Spaced
<1>4. QED
    BY <1>1, <1>3 DEF Buckets

LEMMA BucketsReceive ==
    ASSUME Buckets, NEW w \in Workers, NEW r \in Requests, Receive(w, r)
    PROVE  Buckets'
<1>1. PICK n \in Names : n = r.actor
    BY RequestsAssumption
<1>2. clock \in Nat /\ clock \in 0 .. MaxClock /\ rateMax \in Nat
    BY LimitsArePositive DEF Buckets
<1>3. PICK a \in Times, o \in Times : a = admitted[n] /\ o = buckets[n] /\ Suffix(a, o, clock)
                                      /\ (rateMax > 0 => Spaced(a))
    BY DEF Buckets
<1>4. PICK q \in Times : q = Pruned(o, RateWindow) /\ Suffix(a, q, clock)
    BY <1>2, <1>3, PrunedDropsOld, PrunedKeepsSuffix, LimitsArePositive
<1>5. UNCHANGED <<clock, rateMax>>
    BY DEF Receive
<1>6. CASE UNCHANGED <<buckets, admitted>>
    BY <1>5, <1>6 DEF Buckets, Suffix, Spaced
<1>7. CASE buckets' = [buckets EXCEPT ![n] = q] /\ UNCHANGED admitted
  <2>1. admitted' = [admitted EXCEPT ![n] = a]
      BY <1>3, <1>7 DEF Buckets
  <2>2. QED
      BY <1>3, <1>4, <1>5, <1>7, <2>1, BucketChanges
<1>8. CASE /\ buckets' = [buckets EXCEPT ![n] = Append(q, clock)]
           /\ admitted' = [admitted EXCEPT ![n] = Append(a, clock)]
           /\ rateMax # 0 /\ ~(Len(q) >= rateMax)
  <2>1. PICK t \in 0 .. MaxClock : t = clock
      BY <1>2
  <2>2. Len(q) \in Nat
      BY DEF Times
  <2>3. rateMax \in Nat \ {0} /\ Len(q) < rateMax /\ Spaced(a)
      BY <1>2, <1>3, <1>8, <2>2
  <2>4. Append(a, t) \in Times /\ Append(q, t) \in Times
      BY DEF Times
  <2>5. Suffix(a, q, t)
      BY <1>4, <2>1
  <2>6. Suffix(Append(a, t), Append(q, t), clock) /\ Spaced(Append(a, t))
      BY <2>1, <2>3, <2>5, AppendKeepsSuffix, AppendKeepsSpaced
  <2>7. PICK b \in Times, p \in Times : b = Append(a, t) /\ p = Append(q, t)
      BY <2>4
  <2>8. QED
      BY <1>5, <1>8, <2>1, <2>6, <2>7, BucketChanges
<1>9. QED
    BY <1>1, <1>3, <1>4, <1>6, <1>7, <1>8 DEF Receive

LEMMA BucketsInit == Init => Buckets
<1> SUFFICES ASSUME Init PROVE Buckets
    OBVIOUS
<1>1. <<>> \in Times /\ Len(<<>>) = 0 /\ \A i \in DOMAIN <<>> : FALSE
    BY DEF Times
<1>2. \A n \in Names : admitted[n] = <<>> /\ buckets[n] = <<>>
    BY DEF Init
<1>3. ASSUME NEW n \in Names PROVE Suffix(admitted[n], buckets[n], clock) /\ Spaced(admitted[n])
    BY <1>1, <1>2 DEF Suffix, Spaced
<1>4. buckets \in [Names -> Times] /\ admitted \in [Names -> Times]
    BY <1>1 DEF Init
<1>5. clock \in 0 .. MaxClock /\ rateMax \in Nat
    BY LimitsArePositive DEF Init
<1>6. QED
    BY <1>3, <1>4, <1>5 DEF Buckets

LEMMA BucketsTick ==
    ASSUME Buckets, Tick
    PROVE  Buckets'
<1>1. clock' = clock + 1 /\ clock' \in 0 .. MaxClock /\ clock \in Int
    BY LimitsArePositive DEF Tick, Buckets
<1>2. UNCHANGED <<buckets, admitted, rateMax>>
    BY DEF Tick, memory
<1>3. ASSUME NEW n \in Names PROVE Suffix(admitted[n], buckets[n], clock')
  <2>1. PICK d \in 0 .. Len(admitted[n]) :
            /\ Len(buckets[n]) = Len(admitted[n]) - d
            /\ \A i \in 1 .. Len(buckets[n]) : buckets[n][i] = admitted[n][d + i]
            /\ \A i \in 1 .. d : clock - admitted[n][i] > RateWindow
      BY DEF Buckets, Suffix
  <2>2. ASSUME NEW i \in 1 .. d PROVE clock' - admitted[n][i] > RateWindow
    <3>1. admitted[n] \in Seq(0 .. MaxClock)
      BY DEF Buckets, Times
    <3>2. i \in DOMAIN admitted[n]
      BY <2>1, <3>1
    <3>3. admitted[n][i] \in Int
      BY <3>2, TimesAreIntegers DEF Buckets
    <3>4. QED
      BY <1>1, <2>1, <3>3, LimitsArePositive
  <2>3. QED
      BY <2>1, <2>2 DEF Suffix
<1>4. ASSUME NEW n \in Names
      PROVE  Suffix(admitted[n], buckets[n], clock)' /\ (rateMax > 0 => Spaced(admitted[n]))'
    BY <1>2, <1>3 DEF Buckets, Suffix, Spaced
<1>5. QED
    BY <1>1, <1>2, <1>4 DEF Buckets

LEMMA BucketsStep ==
    ASSUME Buckets, [Next]_vars
    PROVE  Buckets'
<1>1. CASE UNCHANGED <<buckets, admitted, clock, rateMax>>
    BY <1>1 DEF Buckets, Suffix, Spaced
<1>2. ASSUME NEW w \in Workers, Step(w) PROVE UNCHANGED <<buckets, admitted, clock, rateMax>>
    BY <1>2
    DEF Step, Limit, Lookup, Verify, Authenticate, ReadOwnPassword, WritePassword, CreateUser,
        PatchUser, ResetPassword, PutProfile, ReadTable, StoreExport, Import, memory
<1>3. CASE Restart
  <2>1. <<>> \in Times /\ Len(<<>>) = 0 /\ \A i \in DOMAIN <<>> : FALSE
      BY DEF Times
  <2>2. \A n \in Names : admitted'[n] = <<>> /\ buckets'[n] = <<>>
      BY <1>3 DEF Restart
  <2>3. ASSUME NEW n \in Names
        PROVE  Suffix(admitted[n], buckets[n], clock)' /\ Spaced(admitted[n])'
      BY <2>1, <2>2 DEF Suffix, Spaced
  <2>4. /\ buckets' \in [Names -> Times] /\ admitted' \in [Names -> Times]
        /\ UNCHANGED <<clock, rateMax>>
      BY <1>3, <2>1 DEF Restart
  <2>5. QED
      BY <2>3, <2>4 DEF Buckets
<1>4. QED
    BY <1>1, <1>2, <1>3, BucketsReceive, BucketsTick DEF Next, vars

-----------------------------------------------------------------------------
(* Who is refused.                                                         *)

(* Requests are let through one after the other.                           *)
InOrder(a, time) ==
    \A i, j \in DOMAIN a : a[i] <= time /\ (i <= j => a[i] <= a[j])

Orders == \A n \in Names : InOrder(admitted[n], clock)

LEMMA AppendInOrder ==
    ASSUME NEW a \in Times, NEW t \in 0 .. MaxClock, InOrder(a, t)
    PROVE  InOrder(Append(a, t), t)
<1>1. PICK b : b = Append(a, t)
    OBVIOUS
<1>2. /\ Len(a) \in Nat /\ DOMAIN a = 1 .. Len(a) /\ DOMAIN b = 1 .. Len(a) + 1
      /\ b[Len(a) + 1] = t /\ \A i \in 1 .. Len(a) : b[i] = a[i]
    BY <1>1 DEF Times
<1>3. t \in Int /\ \A i \in DOMAIN a : a[i] \in Int
    BY TimesAreIntegers, LimitsArePositive
<1>4. SUFFICES ASSUME NEW i \in DOMAIN b, NEW j \in DOMAIN b
               PROVE  b[i] <= t /\ (i <= j => b[i] <= b[j])
    BY <1>1 DEF InOrder
<1>5. b[i] <= t
    BY <1>2, <1>3, <1>4 DEF InOrder
<1>6. ASSUME i <= j PROVE b[i] <= b[j]
  <2>1. CASE j = Len(a) + 1
      BY <1>2, <1>5, <2>1
  <2>2. CASE j # Len(a) + 1
    <3>1. i \in DOMAIN a /\ j \in DOMAIN a
      BY <1>2, <1>4, <1>6, <2>2
    <3>2. QED
      BY <1>2, <1>6, <3>1 DEF InOrder
  <2>3. QED
      BY <2>1, <2>2
<1>7. QED
    BY <1>5, <1>6

LEMMA OrdersInit == Init => Orders
<1> SUFFICES ASSUME Init PROVE Orders
    OBVIOUS
<1>1. \A i \in DOMAIN <<>> : FALSE
    OBVIOUS
<1>2. \A n \in Names : admitted[n] = <<>>
    BY DEF Init
<1>3. QED
    BY <1>1, <1>2 DEF Orders, InOrder

LEMMA OrdersStep ==
    ASSUME Buckets, Orders, [Next]_vars
    PROVE  Orders'
<1>1. clock \in 0 .. MaxClock /\ clock \in Int /\ admitted \in [Names -> Times]
    BY LimitsArePositive DEF Buckets
<1>2. CASE UNCHANGED <<admitted, clock>>
    BY <1>2 DEF Orders, InOrder
<1>3. CASE Restart
  <2>1. \A i \in DOMAIN <<>> : FALSE
      OBVIOUS
  <2>2. \A n \in Names : admitted'[n] = <<>>
      BY <1>3 DEF Restart
  <2>3. QED
      BY <2>1, <2>2 DEF Orders, InOrder
<1>4. CASE Tick
  <2>1. clock' = clock + 1 /\ admitted' = admitted
      BY <1>4 DEF Tick, memory
  <2>2. ASSUME NEW n \in Names PROVE InOrder(admitted[n], clock + 1)
    <3>1. \A i \in DOMAIN admitted[n] : admitted[n][i] \in Int
      BY <1>1, TimesAreIntegers
    <3>2. QED
      BY <1>1, <3>1 DEF Orders, InOrder
  <2>3. QED
      BY <2>1, <2>2 DEF Orders, InOrder
<1>5. ASSUME NEW w \in Workers, NEW r \in Requests, Receive(w, r) PROVE Orders'
  <2>1. clock' = clock
      BY <1>5 DEF Receive
  <2>2. admitted' = admitted
        \/ admitted' = [admitted EXCEPT ![r.actor] = Append(admitted[r.actor], clock)]
      BY <1>5 DEF Receive
  <2>3. r.actor \in Names
      BY RequestsAssumption
  <2>4. InOrder(Append(admitted[r.actor], clock), clock)
      BY <1>1, <2>3, AppendInOrder DEF Orders
  <2>5. CASE admitted' = [admitted EXCEPT ![r.actor] = Append(admitted[r.actor], clock)]
    <3>1. ASSUME NEW n \in Names PROVE InOrder(admitted'[n], clock)
      <4>1. CASE n = r.actor
          BY <1>1, <2>3, <2>4, <2>5, <4>1
      <4>2. CASE n # r.actor
          BY <1>1, <2>5, <4>2 DEF Orders
      <4>3. QED
          BY <4>1, <4>2
    <3>2. QED
      BY <2>1, <3>1 DEF Orders, InOrder
  <2>6. QED
      BY <1>2, <2>1, <2>2, <2>5
<1>6. ASSUME NEW w \in Workers, Step(w) PROVE UNCHANGED <<admitted, clock>>
    BY <1>6
    DEF Step, Limit, Lookup, Verify, Authenticate, ReadOwnPassword, WritePassword, CreateUser,
        PatchUser, ResetPassword, PutProfile, ReadTable, StoreExport, Import, memory
<1>7. QED
    BY <1>2, <1>3, <1>4, <1>5, <1>6 DEF Next, vars

(* The bucket is full: its oldest entry is not past the window, and so is  *)
(* none of those that were let through after it.                           *)
LEMMA FullBucket ==
    ASSUME NEW a \in Times, NEW q \in Times, clock \in Nat, Suffix(a, q, clock),
           InOrder(a, clock), rateMax \in Nat \ {0},
           Len(Pruned(q, RateWindow)) >= rateMax
    PROVE  LET k == Len(a) - rateMax + 1
           IN  k \in DOMAIN a /\ clock - a[k] <= RateWindow
<1>1. PICK d \in 0 .. Len(a) :
          /\ Len(q) = Len(a) - d
          /\ \A i \in 1 .. Len(q) : q[i] = a[d + i]
    BY DEF Suffix
<1>2. PICK p : p = Pruned(q, RateWindow)
    OBVIOUS
<1>3. PICK e \in 0 .. Len(q) :
          /\ Len(p) = Len(q) - e
          /\ e < Len(q) => ~(clock - q[e + 1] > RateWindow)
    BY <1>2, PrunedDropsOld, LimitsArePositive
<1>4. Len(q) \in Nat /\ Len(a) \in Nat /\ DOMAIN a = 1 .. Len(a)
    BY DEF Times
<1>5. \A i \in DOMAIN a : a[i] \in Int
    BY TimesAreIntegers
<1>6. PICK k : k = Len(a) - rateMax + 1
    OBVIOUS
<1>7. PICK f : f = d + e + 1
    OBVIOUS
<1>8. /\ e < Len(q) /\ e + 1 \in 1 .. Len(q) /\ d + (e + 1) = f
      /\ f \in 1 .. Len(a) /\ k \in 1 .. Len(a) /\ f <= k
    BY <1>1, <1>2, <1>3, <1>4, <1>6, <1>7
<1>9. ~(clock - a[f] > RateWindow)
    BY <1>1, <1>3, <1>8
<1>10. a[f] <= a[k]
    BY <1>4, <1>8 DEF InOrder
<1>11. a[f] \in Int /\ a[k] \in Int
    BY <1>4, <1>5, <1>8
<1>12. clock - a[k] <= RateWindow
    BY <1>9, <1>10, <1>11, LimitsArePositive
<1>13. QED
    BY <1>4, <1>6, <1>8, <1>12

LEMMA RefusedAreFull ==
    ASSUME Buckets, Orders
    PROVE  OnlyFullIsRefused
<1> SUFFICES ASSUME rateMax > 0, NEW n \in Names,
                    Len(Pruned(buckets[n], RateWindow)) >= rateMax
             PROVE  LET k == Len(admitted[n]) - rateMax + 1
                    IN  k \in DOMAIN admitted[n] /\ clock - admitted[n][k] <= RateWindow
    BY DEF OnlyFullIsRefused
<1>1. /\ admitted[n] \in Times /\ buckets[n] \in Times
      /\ Suffix(admitted[n], buckets[n], clock) /\ InOrder(admitted[n], clock)
      /\ clock \in Nat /\ rateMax \in Nat \ {0}
    BY LimitsArePositive DEF Buckets, Orders
<1>2. QED
    BY <1>1, FullBucket

-----------------------------------------------------------------------------
(* The failures of a name and the threads that may still add one.          *)

Failing(n) == {w \in Workers : pc[w] \in {"lookup", "verify"} /\ req[w].actor = n}

FailuresCounted(n) ==
    Len(attempts[n]) + Cardinality(Failing(n)) <= MaxFailures - 1 + Cardinality(Workers)

Attempts ==
    /\ attempts \in [Names -> Times]
    /\ \A n \in Names : FailuresCounted(n)

LEMMA FailingIsFinite ==
    ASSUME IsFiniteSet(Workers)
    PROVE  /\ Cardinality(Workers) \in Nat
           /\ \A n : /\ IsFiniteSet(Failing(n))
                     /\ Cardinality(Failing(n)) \in Nat
                     /\ Cardinality(Failing(n)) <= Cardinality(Workers)
<1>1. \A n : Failing(n) \in SUBSET Workers
    BY DEF Failing
<1>2. QED
    BY <1>1, FS_Subset, FS_CardinalityType

(* Fewer threads may add a failure, and no failure was added.              *)
LEMMA FewerFailing ==
    ASSUME IsFiniteSet(Workers), Attempts, attempts' \in [Names -> Times],
           NEW n \in Names, Failing(n)' \subseteq Failing(n), Len(attempts'[n]) <= Len(attempts[n])
    PROVE  FailuresCounted(n)'
<1>1. PICK F, G : F = Failing(n) /\ G = Failing(n)'
    OBVIOUS
<1>2. IsFiniteSet(F) /\ G \in SUBSET F
    BY <1>1, FailingIsFinite
<1>3. /\ Cardinality(G) <= Cardinality(F)
      /\ Cardinality(F) \in Nat /\ Cardinality(G) \in Nat
    BY <1>2, FS_Subset, FS_CardinalityType
<1>4. Len(attempts[n]) \in Nat /\ Len(attempts'[n]) \in Nat /\ Cardinality(Workers) \in Nat
    BY FailingIsFinite DEF Attempts, Times
<1>5. Len(attempts[n]) + Cardinality(F) <= MaxFailures - 1 + Cardinality(Workers)
    BY <1>1 DEF Attempts, FailuresCounted
<1>6. Len(attempts'[n]) + Cardinality(G) <= MaxFailures - 1 + Cardinality(Workers)
    BY <1>3, <1>4, <1>5, LimitsArePositive
<1>7. QED
    BY <1>1, <1>6 DEF FailuresCounted

(* A thread that does not just pass limit is not one more.                 *)
LEMMA OthersFail ==
    ASSUME ThreadsInv, NEW w \in Workers, OneMoves(w), Working(w)',
           \/ pc'[w] \notin {"lookup", "verify"}
           \/ pc[w] \in {"lookup", "verify"} /\ req'[w] = req[w],
           NEW n
    PROVE  Failing(n)' \subseteq Failing(n)
<1>1. \A v \in Workers \ {w} : pc'[v] = pc[v] /\ req'[v] = req[v]
    BY OneMovesKeeps
<1>2. QED
    BY <1>1 DEF Failing

LEMMA LimitKeepsAttempts ==
    ASSUME IsFiniteSet(Workers), ThreadsInv, Attempts, clock \in Nat, NEW w \in Workers, Limit(w)
    PROVE  Attempts'
<1>1. PICK n \in Names : n = req[w].actor
  <2>1. req[w] \in Requests
      BY DEF Limit, ThreadsInv, Working
  <2>2. QED
      BY <2>1, RequestsAssumption
<1>2. PICK o \in Times : o = attempts[n]
    BY <1>1 DEF Attempts
<1>3. PICK q \in Times : q = Pruned(o, FailureWindow) /\ Len(q) <= Len(o)
  <2>1. PICK q : q = Pruned(o, FailureWindow)
      OBVIOUS
  <2>2. /\ q \in Times
        /\ \E d \in 0 .. Len(o) :
              /\ Len(q) = Len(o) - d
              /\ \A i \in 1 .. Len(o) - d : q[i] = o[d + i]
              /\ \A i \in 1 .. d : clock - o[i] > FailureWindow
              /\ d < Len(o) => ~(clock - o[d + 1] > FailureWindow)
      BY <2>1, PrunedDropsOld, LimitsArePositive
  <2>3. Len(o) \in Nat
      BY DEF Times
  <2>4. Len(q) <= Len(o)
      BY <2>2, <2>3
  <2>5. QED
      BY <2>1, <2>2, <2>4
<1>4. attempts' = [attempts EXCEPT ![n] = q]
    BY <1>1, <1>2, <1>3 DEF Limit
<1>5. /\ attempts' \in [Names -> Times] /\ attempts'[n] = q
      /\ \A m \in Names : m # n => attempts'[m] = attempts[m]
    BY <1>4 DEF Attempts
<1>6. \A m \in Names : Len(attempts'[m]) \in Nat /\ Len(attempts[m]) \in Nat
    BY <1>5 DEF Attempts, Times
<1>7. \A m \in Names : Len(attempts'[m]) <= Len(attempts[m])
    BY <1>2, <1>3, <1>5, <1>6
<1>8. OneMoves(w) /\ Working(w)'
    BY StepMoves DEF WorkerStep, Step
<1>9. CASE Finish(w)
  <2>1. \A m : Failing(m)' \subseteq Failing(m)
      BY <1>8, <1>9, FinishMoves, OthersFail
  <2>2. QED
      BY <1>5, <1>7, <2>1, FewerFailing DEF Attempts
<1>10. CASE ~TooMany(q) /\ Goto(w, "lookup")
  <2>1. FailuresCounted(n)'
    <3>1. Len(q) \in Nat /\ Len(q) <= MaxFailures - 1
      BY <1>10, LimitsArePositive DEF Times, TooMany
    <3>2. PICK G \in SUBSET Workers : G = Failing(n)'
      BY DEF Failing
    <3>3. /\ Cardinality(G) <= Cardinality(Workers) /\ Cardinality(G) \in Nat
          /\ Cardinality(Workers) \in Nat
      BY FS_Subset, FS_CardinalityType
    <3>4. Len(q) + Cardinality(G) <= MaxFailures - 1 + Cardinality(Workers)
      BY <3>1, <3>3, LimitsArePositive
    <3>5. QED
      BY <1>5, <3>2, <3>4 DEF FailuresCounted
  <2>2. ASSUME NEW m \in Names, m # n PROVE FailuresCounted(m)'
    <3>1. /\ UNCHANGED req
          /\ \A v \in Workers \ {w} : pc'[v] = pc[v]
      BY <1>8, <1>10, OneMovesKeeps DEF Goto
    <3>2. Failing(m)' \subseteq Failing(m)
      BY <1>1, <2>2, <3>1 DEF Failing
    <3>3. QED
      BY <1>5, <1>7, <3>2, FewerFailing
  <2>3. QED
      BY <1>5, <2>1, <2>2 DEF Attempts
<1>11. QED
    BY <1>1, <1>2, <1>3, <1>9, <1>10 DEF Limit

LEMMA VerifyKeepsAttempts ==
    ASSUME IsFiniteSet(Workers), ThreadsInv, Attempts, clock \in 0 .. MaxClock,
           NEW w \in Workers, Verify(w)
    PROVE  Attempts'
<1>1. PICK n \in Names : n = req[w].actor /\ w \in Failing(n)
  <2>1. req[w] \in Requests /\ pc[w] = "verify"
      BY DEF Verify, ThreadsInv, Working
  <2>2. QED
      BY <2>1, RequestsAssumption DEF Failing
<1>2. PICK o \in Times : o = attempts[n]
    BY <1>1 DEF Attempts
<1>3. PICK q \in Times : /\ q = <<>> \/ q = Append(o, clock)
                         /\ attempts' = [attempts EXCEPT ![n] = q]
  <2>1. <<>> \in Times /\ Append(o, clock) \in Times
      BY DEF Times
  <2>2. QED
      BY <1>1, <1>2, <2>1 DEF Verify
<1>4. Len(q) \in Nat /\ Len(o) \in Nat /\ Len(q) <= Len(o) + 1
    BY <1>3 DEF Times
<1>5. /\ attempts' \in [Names -> Times] /\ attempts'[n] = q
      /\ \A m \in Names : m # n => attempts'[m] = attempts[m]
    BY <1>3 DEF Attempts
<1>6. Finish(w) /\ OneMoves(w) /\ Working(w)' /\ pc'[w] = "idle"
    BY FinishMoves DEF Verify
<1>7. \A m : Failing(m)' \subseteq Failing(m)
    BY <1>6, OthersFail
<1>8. FailuresCounted(n)'
  <2>1. PICK F, G : F = Failing(n) /\ G = Failing(n)'
      OBVIOUS
  <2>2. w \in F /\ G \in SUBSET (F \ {w}) /\ IsFiniteSet(F)
    <3>1. w \notin G
      BY <1>6, <2>1 DEF Failing
    <3>2. QED
      BY <1>1, <1>7, <2>1, <3>1, FailingIsFinite
  <2>3. /\ Cardinality(F \ {w}) = Cardinality(F) - 1 /\ IsFiniteSet(F \ {w})
        /\ Cardinality(F) \in Nat
      BY <2>2, FS_RemoveElement, FS_CardinalityType
  <2>4. IsFiniteSet(G) /\ Cardinality(G) <= Cardinality(F \ {w}) /\ Cardinality(G) \in Nat
      BY <2>2, <2>3, FS_Subset, FS_CardinalityType
  <2>5. Len(o) + Cardinality(F) <= MaxFailures - 1 + Cardinality(Workers)
      BY <1>2, <2>1 DEF Attempts, FailuresCounted
  <2>6. Len(q) + Cardinality(G) <= MaxFailures - 1 + Cardinality(Workers)
    <3>1. Cardinality(Workers) \in Nat
      BY FailingIsFinite
    <3>2. QED
      BY <1>4, <2>3, <2>4, <2>5, <3>1, LimitsArePositive
  <2>7. QED
      BY <1>5, <2>1, <2>6 DEF FailuresCounted
<1>9. ASSUME NEW m \in Names, m # n PROVE FailuresCounted(m)'
  <2>1. Len(attempts[m]) \in Nat
      BY DEF Attempts, Times
  <2>2. Len(attempts'[m]) <= Len(attempts[m])
      BY <1>5, <1>9, <2>1
  <2>3. QED
      BY <1>5, <1>7, <2>2, FewerFailing
<1>10. QED
    BY <1>5, <1>8, <1>9 DEF Attempts

LEMMA SameAttempts ==
    ASSUME IsFiniteSet(Workers), Attempts, UNCHANGED attempts,
           \A n : Failing(n)' \subseteq Failing(n)
    PROVE  Attempts'
<1>1. attempts' \in [Names -> Times]
    BY DEF Attempts
<1>2. \A n \in Names : Len(attempts[n]) \in Nat /\ Len(attempts'[n]) <= Len(attempts[n])
    BY DEF Attempts, Times
<1>3. QED
    BY <1>1, <1>2, FewerFailing DEF Attempts

LEMMA NothingFailed ==
    IsFiniteSet(Workers) /\ attempts = [n \in Names |-> <<>>] /\ (\A n : Failing(n) = {})
        => Attempts
<1> SUFFICES ASSUME IsFiniteSet(Workers), attempts = [n \in Names |-> <<>>],
                    \A n : Failing(n) = {}
             PROVE  Attempts
    OBVIOUS
<1>1. <<>> \in Times /\ Len(<<>>) = 0 /\ Cardinality({}) = 0
    BY FS_EmptySet DEF Times
<1>2. Cardinality(Workers) \in Nat
    BY FS_CardinalityType
<1>3. ASSUME NEW n \in Names PROVE FailuresCounted(n)
  <2>1. attempts[n] = <<>>
      OBVIOUS
  <2>2. Len(attempts[n]) = 0 /\ Cardinality(Failing(n)) = 0
      BY <1>1, <2>1
  <2>3. QED
      BY <1>2, <2>2, LimitsArePositive DEF FailuresCounted
<1>4. QED
    BY <1>1, <1>3 DEF Attempts

LEMMA AttemptsInit == ASSUME IsFiniteSet(Workers) PROVE Init => Attempts
<1> SUFFICES ASSUME Init PROVE Attempts
    OBVIOUS
<1>1. \A n : Failing(n) = {}
    BY DEF Init, Failing
<1>2. QED
    BY <1>1, NothingFailed DEF Init

LEMMA RestartForgets == ASSUME IsFiniteSet(Workers), Restart PROVE Attempts'
<1>1. (attempts = [n \in Names |-> <<>>])' /\ \A n : Failing(n)' = {}
    BY DEF Restart, Failing
<1>2. (IsFiniteSet(Workers) /\ attempts = [n \in Names |-> <<>>] /\ (\A n : Failing(n) = {})
           => Attempts)'
    BY NothingFailed, PTL
<1>3. QED
    BY <1>1, <1>2

LEMMA AttemptsStep ==
    ASSUME IsFiniteSet(Workers), ThreadsInv, Buckets, Attempts, [Next]_vars
    PROVE  Attempts'
<1>1. clock \in 0 .. MaxClock /\ clock \in Nat
    BY LimitsArePositive DEF Buckets
<1>2. ASSUME NEW w \in Workers, WorkerStep(w) PROVE Attempts'
  <2>1. OneMoves(w) /\ Working(w)'
      BY <1>2, StepMoves
  <2>2. CASE Limit(w)
      BY <1>1, <2>2, LimitKeepsAttempts
  <2>3. CASE Verify(w)
      BY <1>1, <2>3, VerifyKeepsAttempts
  <2>4. CASE ~Limit(w) /\ ~Verify(w)
    <3>1. UNCHANGED attempts
      BY <1>2, <2>4
      DEF WorkerStep, Step, Receive, Lookup, Authenticate, ReadOwnPassword, WritePassword,
          CreateUser, PatchUser, ResetPassword, PutProfile, ReadTable, StoreExport, Import, memory
    <3>2. \/ pc'[w] \notin {"lookup", "verify"}
          \/ pc[w] \in {"lookup", "verify"} /\ req'[w] = req[w]
      <4>1. CASE Finish(w)
          BY <4>1, FinishMoves
      <4>2. CASE Lookup(w)
          BY <4>2 DEF Lookup, Goto
      <4>3. CASE UNCHANGED pc /\ pc[w] \in {"idle", "export"}
          BY <4>3
      <4>4. ASSUME NEW label, pc' = [pc EXCEPT ![w] = label], label \notin {"lookup", "verify"}
            PROVE  pc'[w] \notin {"lookup", "verify"}
          BY <4>4 DEF ThreadsInv, Threads
      <4>5. CASE \E r \in Requests : Receive(w, r)
          BY <4>3, <4>4, <4>5 DEF Receive
      <4>6. CASE Authenticate(w)
        <5>1. pc[w] = "authenticate" => req[w].op \in Handlers
            BY DEF ThreadsInv, Working
        <5>2. pc[w] = "authenticate" => req[w].op \notin {"lookup", "verify"}
            BY <5>1 DEF Handlers
        <5>3. QED
            BY <4>1, <4>4, <4>6, <5>2 DEF Authenticate, Goto
      <4>7. CASE ReadOwnPassword(w)
          BY <4>1, <4>4, <4>7 DEF ReadOwnPassword, Goto
      <4>8. CASE ReadTable(w)
          BY <4>3, <4>8 DEF ReadTable
      <4>9. QED
          BY <1>2, <2>4, <4>1, <4>2, <4>5, <4>6, <4>7, <4>8
          DEF WorkerStep, Step, WritePassword, CreateUser, PatchUser, ResetPassword, PutProfile,
              StoreExport, Import
    <3>3. \A n : Failing(n)' \subseteq Failing(n)
      BY <2>1, <3>2, OthersFail
    <3>4. QED
      BY <3>1, <3>3, SameAttempts
  <2>5. QED
      BY <2>2, <2>3, <2>4
<1>3. CASE Tick \/ UNCHANGED vars
  <2>1. UNCHANGED <<attempts, pc, req>>
      BY <1>3 DEF Tick, memory, vars
  <2>2. \A n : Failing(n)' \subseteq Failing(n)
      BY <2>1 DEF Failing
  <2>3. QED
      BY <2>1, <2>2, SameAttempts
<1>4. QED
    BY <1>2, <1>3, RestartForgets DEF Next, WorkerStep

-----------------------------------------------------------------------------
(* Exports and what comes back.                                            *)

ListOf(q) == \E S : q \in Seq(S)

LEMMA ListAppend ==
    ASSUME NEW q, NEW x, ListOf(q)
    PROVE  /\ ListOf(Append(q, x)) /\ Len(q) \in Nat /\ DOMAIN q = 1 .. Len(q)
           /\ Len(Append(q, x)) = Len(q) + 1 /\ DOMAIN Append(q, x) = 1 .. Len(q) + 1
           /\ Append(q, x)[Len(q) + 1] = x
           /\ \A i \in DOMAIN q : Append(q, x)[i] = q[i]
<1>1. PICK S : q \in Seq(S)
    BY DEF ListOf
<1>2. PICK T : T = S \cup {x}
    OBVIOUS
<1>3. q \in Seq(T) /\ x \in T
    BY <1>1, <1>2
<1>4. Append(q, x) \in Seq(T)
    BY <1>3
<1>5. QED
    BY <1>3, <1>4 DEF ListOf

LEMMA OrderEndsWithUsers ==
    /\ DOMAIN ExportOrder = 1 .. Len(ExportOrder) /\ Len(ExportOrder) \in Nat \ {0}
    /\ ExportOrder[Len(ExportOrder)] = "users"
    /\ \A i \in DOMAIN ExportOrder : ExportOrder[i] \in ExportTables
    /\ "audit_log" \notin ExportTables
<1>1. ListOf(ProfileOrder)
    BY ProfilesAssumption DEF ListOf
<1>2. /\ Len(ProfileOrder) \in Nat /\ DOMAIN ProfileOrder = 1 .. Len(ProfileOrder)
      /\ Len(ExportOrder) = Len(ProfileOrder) + 1
      /\ DOMAIN ExportOrder = 1 .. Len(ProfileOrder) + 1
      /\ ExportOrder[Len(ProfileOrder) + 1] = "users"
      /\ \A i \in DOMAIN ProfileOrder : ExportOrder[i] = ProfileOrder[i]
    BY <1>1, ListAppend DEF ExportOrder
<1>3. \A i \in DOMAIN ExportOrder : ExportOrder[i] \in ExportTables
  <2>1. SUFFICES ASSUME NEW i \in DOMAIN ExportOrder PROVE ExportOrder[i] \in ExportTables
      OBVIOUS
  <2>2. i \in DOMAIN ProfileOrder \/ i = Len(ProfileOrder) + 1
      BY <1>2, <2>1
  <2>3. QED
      BY <1>2, <2>2 DEF ExportTables, ProfileTables
<1>4. "audit_log" \notin ExportTables
  <2>1. \A i \in DOMAIN ProfileOrder : ProfileOrder[i] \in STRING \ {"users", "audit_log"}
      BY ProfilesAssumption, ElementOfSeq
  <2>2. QED
      BY <2>1 DEF ExportTables, ProfileTables
<1>5. QED
    BY <1>2, <1>3, <1>4

PackageFields == {"format", "tables", "number", "checksum"}

(* A package as it was handed out.                                         *)
Whole(package) ==
    /\ DOMAIN package = PackageFields
    /\ package.format = "torqpro-system-export"
    /\ package.checksum = <<Content(package)>>
    /\ \A t \in package.tables : t.table \in ExportTables
    /\ \E t \in package.tables : t.table = "users"

(* The tables a thread has read are the first of EXPORT_TABLES.            *)
Reading(w) ==
    /\ ListOf(ctx[w].tables)
    /\ Len(ctx[w].tables) <= Len(ExportOrder)
    /\ \A i \in DOMAIN ctx[w].tables : ctx[w].tables[i].table = ExportOrder[i]

ExportsInv ==
    /\ ListOf(exports) /\ Len(exports) <= MaxExports
    /\ \A i \in DOMAIN exports : Whole(exports[i])
    /\ \A w \in Workers : Reading(w)
    /\ OwnExportsImport

(* Whatever is done to a package on the way, except to drop its checksum.  *)
LEMMA ReturnedIsJudged ==
    ASSUME NEW package, Whole(package)
    PROVE  /\ Valid(Returned(package, "none"))
           /\ ~Valid(Returned(package, "rows"))
           /\ ~Valid(Returned(package, "format"))
           /\ ~Valid(Returned(package, "unknown"))
<1>1. Valid(Returned(package, "none"))
    BY DEF Returned, Valid, Whole
<1>2. ~Valid(Returned(package, "rows"))
  <2>1. PICK rest : rest = {t \in package.tables : t.table # "users"}
      OBVIOUS
  <2>2. rest # package.tables
      BY <2>1 DEF Whole
  <2>3. PICK q : q = [package EXCEPT !.tables = rest]
      OBVIOUS
  <2>4. q.tables = rest /\ q.checksum = package.checksum
      BY <2>3 DEF Whole, PackageFields
  <2>5. Content(q) # Content(package)
      BY <2>2, <2>4 DEF Content
  <2>6. q.checksum \notin {<<>>, <<Content(q)>>}
      BY <2>4, <2>5 DEF Whole
  <2>7. Returned(package, "rows") = q
      BY <2>1, <2>3 DEF Returned
  <2>8. QED
      BY <2>6, <2>7 DEF Valid
<1>3. ~Valid(Returned(package, "format"))
  <2>1. PICK q : q = [package EXCEPT !.format = "other"]
      OBVIOUS
  <2>2. q.format = "other"
      BY <2>1 DEF Whole, PackageFields
  <2>3. Returned(package, "format") = q
      BY <2>1 DEF Returned
  <2>4. QED
      BY <2>2, <2>3 DEF Valid
<1>4. ~Valid(Returned(package, "unknown"))
  <2>1. PICK row : row = [table |-> "audit_log", rows |-> <<>>]
      OBVIOUS
  <2>2. PICK more : more = package.tables \cup {row}
      OBVIOUS
  <2>3. PICK q : q = [package EXCEPT !.tables = more, !.checksum = <<>>]
      OBVIOUS
  <2>4. q.tables = more
      BY <2>3 DEF Whole, PackageFields
  <2>5. row \in q.tables /\ row.table = "audit_log"
      BY <2>1, <2>2, <2>4
  <2>6. Returned(package, "unknown") = q
      BY <2>1, <2>2, <2>3 DEF Returned
  <2>7. QED
      BY <2>5, <2>6, OrderEndsWithUsers DEF Valid
<1>5. QED
    BY <1>1, <1>2, <1>3, <1>4

LEMMA ReadTableKeepsReading ==
    ASSUME ThreadsInv, NEW w \in Workers, Reading(w), ReadTable(w)
    PROVE  Reading(w)'
<1>1. PICK q : q = ctx[w].tables /\ ListOf(q) /\ Len(q) <= Len(ExportOrder)
               /\ \A i \in DOMAIN q : q[i].table = ExportOrder[i]
    BY DEF Reading
<1>2. PICK row : /\ row.table = ExportOrder[Len(q) + 1]
                 /\ ctx' = [ctx EXCEPT ![w].tables = Append(@, row)]
  <2>1. PICK rows : ctx' = [ctx EXCEPT ![w].tables =
                                Append(@, [table |-> ExportOrder[Len(q) + 1], rows |-> rows])]
      BY <1>1 DEF ReadTable
  <2>2. QED
      BY <2>1
<1>3. row.table = ExportOrder[Len(q) + 1]
    BY <1>2
<1>4. PICK p : p = Append(q, row)
    OBVIOUS
<1>5. ctx'[w].tables = p
  <2>1. ctx' = [ctx EXCEPT ![w] = [ctx[w] EXCEPT !.tables = p]]
      BY <1>1, <1>2, <1>4
  <2>2. DOMAIN ctx[w] = ContextFields /\ w \in DOMAIN ctx
      BY DEF ThreadsInv, Threads
  <2>3. QED
      BY <2>1, <2>2 DEF ContextFields
<1>6. Len(q) # Len(ExportOrder)
    BY <1>1 DEF ReadTable, Complete
<1>7. /\ ListOf(p) /\ Len(q) \in Nat /\ Len(p) = Len(q) + 1
      /\ DOMAIN q = 1 .. Len(q) /\ DOMAIN p = 1 .. Len(q) + 1
      /\ p[Len(q) + 1] = row /\ \A i \in DOMAIN q : p[i] = q[i]
    BY <1>1, <1>4, ListAppend
<1>8. Len(p) <= Len(ExportOrder)
    BY <1>1, <1>6, <1>7, OrderEndsWithUsers
<1>9. ASSUME NEW i \in DOMAIN p PROVE p[i].table = ExportOrder[i]
  <2>1. CASE i \in DOMAIN q
      BY <1>1, <1>7, <2>1
  <2>2. CASE i = Len(q) + 1
      BY <1>3, <1>7, <2>2
  <2>3. QED
      BY <1>7, <2>1, <2>2
<1>10. QED
    BY <1>5, <1>7, <1>8, <1>9 DEF Reading

LEMMA EmptyIsList == ListOf(<<>>) /\ Len(<<>>) = 0 /\ \A i \in DOMAIN <<>> : FALSE
<1>1. <<>> \in Seq({})
    OBVIOUS
<1>2. QED
    BY <1>1 DEF ListOf

LEMMA EmptyIsReading ==
    ASSUME NEW w
    PROVE  ctx[w].tables = <<>> => Reading(w)
<1>1. ListOf(<<>>) /\ Len(<<>>) = 0 /\ \A i \in DOMAIN <<>> : FALSE
    BY EmptyIsList
<1>2. 0 <= Len(ExportOrder)
    BY OrderEndsWithUsers
<1>3. QED
    BY <1>1, <1>2 DEF Reading

(* Every step leaves every thread with the first tables, in their order.   *)
LEMMA ReadingStep ==
    ASSUME ThreadsInv, \A w \in Workers : Reading(w), [Next]_vars, NEW v \in Workers
    PROVE  Reading(v)'
<1>1. CASE ctx'[v].tables = ctx[v].tables
    BY <1>1 DEF Reading
<1>2. CASE ctx'[v].tables = <<>>
  <2>1. ListOf(<<>>) /\ Len(<<>>) = 0 /\ \A i \in DOMAIN <<>> : FALSE
      BY EmptyIsList
  <2>2. QED
      BY <1>2, <2>1, OrderEndsWithUsers DEF Reading
<1>3. ASSUME NEW w \in Workers, WorkerStep(w) PROVE Reading(v)'
  <2>1. CASE v # w
    <3>1. ctx'[v] = ctx[v]
      BY <1>3, <2>1, StepMoves, OneMovesKeeps
    <3>2. QED
      BY <1>1, <3>1
  <2>2. CASE v = w /\ ReadTable(w)
      BY <2>2, ReadTableKeepsReading
  <2>3. CASE v = w /\ Finish(w)
      BY <1>2, <2>3, FinishMoves
  <2>4. CASE v = w /\ UNCHANGED ctx
      BY <1>1, <2>4
  <2>5. CASE v = w /\ \E x : ctx' = [ctx EXCEPT ![w].row = x]
    <3>1. DOMAIN ctx[w] = ContextFields /\ w \in DOMAIN ctx
      BY DEF ThreadsInv, Threads
    <3>2. ctx'[w].tables = ctx[w].tables
      BY <2>5, <3>1 DEF ContextFields
    <3>3. QED
      BY <1>1, <2>5, <3>2
  <2>6. CASE v = w /\ Lookup(w)
    <3>1. \E x : ctx' = [ctx EXCEPT ![w].row = x]
      BY <2>6 DEF Lookup
    <3>2. QED
      BY <2>5, <2>6, <3>1
  <2>7. QED
      BY <1>3, <2>1, <2>2, <2>3, <2>4, <2>6
      DEF WorkerStep, Step, Receive, Limit, Verify, Authenticate, ReadOwnPassword, WritePassword,
          CreateUser, PatchUser, ResetPassword, PutProfile, StoreExport, Import
<1>4. CASE Restart
  <2>1. ctx'[v].tables = <<>>
      BY <1>4 DEF Restart, EmptyContext
  <2>2. QED
      BY <1>2, <2>1
<1>5. CASE Tick \/ UNCHANGED vars
    BY <1>1, <1>5 DEF Tick, vars
<1>6. QED
    BY <1>3, <1>4, <1>5 DEF Next, WorkerStep

LEMMA StoreKeepsExports ==
    ASSUME ExportsInv, NEW w \in Workers, StoreExport(w)
    PROVE  ListOf(exports') /\ Len(exports') <= MaxExports
           /\ \A i \in DOMAIN exports' : Whole(exports'[i])
<1>1. PICK ts : ts = {ctx[w].tables[i] : i \in DOMAIN ctx[w].tables}
    OBVIOUS
<1>2. PICK body : body = [format |-> "torqpro-system-export", tables |-> ts]
    OBVIOUS
<1>3. PICK package : package = [format |-> body.format, tables |-> body.tables,
                                number |-> Len(exports) + 1, checksum |-> <<body>>]
    OBVIOUS
<1>4. exports' = Append(exports, package) /\ Complete(w) /\ Len(exports) < MaxExports
    BY <1>1, <1>2, <1>3 DEF StoreExport
<1>5. (\A t \in ts : t.table \in ExportTables) /\ (\E t \in ts : t.table = "users")
  <2>1. PICK q : q = ctx[w].tables
      OBVIOUS
  <2>2. /\ ListOf(q) /\ Len(q) = Len(ExportOrder)
        /\ \A i \in DOMAIN q : q[i].table = ExportOrder[i]
      BY <1>4, <2>1 DEF ExportsInv, Reading, Complete
  <2>3. DOMAIN q = DOMAIN ExportOrder
      BY <2>2, ListAppend, OrderEndsWithUsers
  <2>4. Len(ExportOrder) \in DOMAIN q
      BY <2>3, OrderEndsWithUsers
  <2>5. q[Len(ExportOrder)].table = "users" /\ q[Len(ExportOrder)] \in ts
      BY <1>1, <2>1, <2>2, <2>4, OrderEndsWithUsers
  <2>6. \A t \in ts : t.table \in ExportTables
      BY <1>1, <2>1, <2>2, <2>3, OrderEndsWithUsers
  <2>7. QED
      BY <2>5, <2>6
<1>6. Whole(package)
  <2>1. /\ DOMAIN package = PackageFields
        /\ package.format = "torqpro-system-export" /\ package.tables = ts
        /\ package.checksum = <<body>>
      BY <1>2, <1>3 DEF PackageFields
  <2>2. body = Content(package)
      BY <1>2, <2>1 DEF Content
  <2>3. QED
      BY <1>5, <2>1, <2>2 DEF Whole
<1>7. /\ ListOf(exports') /\ Len(exports) \in Nat /\ Len(exports') = Len(exports) + 1
      /\ DOMAIN exports = 1 .. Len(exports) /\ DOMAIN exports' = 1 .. Len(exports) + 1
      /\ exports'[Len(exports) + 1] = package
      /\ \A i \in DOMAIN exports : exports'[i] = exports[i]
  <2>1. PICK q : q = exports
      OBVIOUS
  <2>2. ListOf(q)
      BY <2>1 DEF ExportsInv
  <2>3. QED
      BY <1>4, <2>1, <2>2, ListAppend
<1>8. \A i \in DOMAIN exports' : i \in DOMAIN exports \/ i = Len(exports) + 1
    BY <1>7
<1>9. \A i \in DOMAIN exports' : Whole(exports'[i])
    BY <1>6, <1>7, <1>8 DEF ExportsInv
<1>10. QED
    BY <1>4, <1>7, <1>9, LimitsArePositive

LEMMA ImportJudges ==
    ASSUME ExportsInv, NEW w \in Workers, Import(w)
    PROVE  OwnExportsImport'
<1>1. PICK i \in DOMAIN exports :
          imported' = <<[of |-> i, change |-> req[w].change,
                         validated |-> Valid(Returned(exports[i], req[w].change))]>>
    BY DEF Import
<1>2. PICK package, change, valid :
          /\ package = exports[i] /\ change = req[w].change
          /\ valid = Valid(Returned(package, change))
    OBVIOUS
<1>3. Whole(package)
    BY <1>2 DEF ExportsInv
<1>4. PICK row : row = [of |-> i, change |-> change, validated |-> valid]
    OBVIOUS
<1>5. row.change = change /\ row.validated = valid
    BY <1>4
<1>6. imported' = <<row>>
    BY <1>1, <1>2, <1>4
<1>7. \A j \in DOMAIN imported' : imported'[j] = row
    BY <1>6
<1>8. (change = "none" => valid) /\ (change \in {"rows", "format", "unknown"} => ~valid)
    BY <1>2, <1>3, ReturnedIsJudged
<1>9. QED
    BY <1>5, <1>7, <1>8 DEF OwnExportsImport

LEMMA ExportsInit == Init => ExportsInv
<1> SUFFICES ASSUME Init PROVE ExportsInv
    OBVIOUS
<1>1. Len(<<>>) = 0 /\ \A i \in DOMAIN <<>> : FALSE
    OBVIOUS
<1>2. ListOf(<<>>)
  <2>1. <<>> \in Seq({})
      OBVIOUS
  <2>2. QED
      BY <2>1 DEF ListOf
<1>3. exports = <<>> /\ imported = <<>> /\ \A w \in Workers : ctx[w].tables = <<>>
    BY DEF Init, EmptyContext
<1>4. \A w \in Workers : Reading(w)
    BY <1>3, EmptyIsReading
<1>5. QED
    BY <1>1, <1>2, <1>3, <1>4, LimitsArePositive DEF ExportsInv, OwnExportsImport

LEMMA ExportsStep ==
    ASSUME ThreadsInv, ExportsInv, [Next]_vars
    PROVE  ExportsInv'
<1>1. \A w \in Workers : Reading(w)'
    BY ReadingStep DEF ExportsInv
<1>2. ASSUME NEW w \in Workers, StoreExport(w) PROVE ExportsInv'
  <2>1. OwnExportsImport'
      BY <1>2 DEF ExportsInv, OwnExportsImport, StoreExport
  <2>2. QED
      BY <1>1, <1>2, <2>1, StoreKeepsExports DEF ExportsInv, Whole
<1>3. ASSUME NEW w \in Workers, Import(w) PROVE ExportsInv'
  <2>1. UNCHANGED exports
      BY <1>3 DEF Import
  <2>2. QED
      BY <1>1, <1>3, <2>1, ImportJudges DEF ExportsInv
<1>4. CASE UNCHANGED <<exports, imported>>
    BY <1>1, <1>4 DEF ExportsInv, OwnExportsImport
<1>5. ASSUME NEW w \in Workers, WorkerStep(w), ~StoreExport(w), ~Import(w)
      PROVE  UNCHANGED <<exports, imported>>
    BY <1>5
    DEF WorkerStep, Step, Receive, Limit, Lookup, Verify, Authenticate, ReadOwnPassword,
        WritePassword, CreateUser, PatchUser, ResetPassword, PutProfile, ReadTable, tables
<1>6. QED
    BY <1>2, <1>3, <1>4, <1>5 DEF Next, Tick, Restart, WorkerStep, vars, tables

(* Whoever exports and whenever: a package that comes back unchanged is    *)
(* valid, and one whose format or tables changed under its checksum, or    *)
(* with a table that is not exported, is not.                              *)
THEOREM ExportsComeBack == Spec => []OwnExportsImport
<1>1. Init => ThreadsInv /\ ExportsInv
    BY ThreadsInit, ExportsInit
<1>2. ThreadsInv /\ ExportsInv /\ [Next]_vars => (ThreadsInv /\ ExportsInv)'
    BY ThreadsStep, ExportsStep
<1>3. ExportsInv => OwnExportsImport
    BY DEF ExportsInv
<1>4. QED
    BY <1>1, <1>2, <1>3, PTL DEF Spec

-----------------------------------------------------------------------------
AccountsInv ==
    UsersInv /\ ThreadsInv /\ Buckets /\ Orders /\ Attempts /\ ExportsInv

LEMMA InvGivesLimits ==
    ASSUME IsFiniteSet(Workers), AccountsInv
    PROVE  LimitsHold
<1>1. Len(exports) \in 0 .. MaxExports
  <2>1. PICK q : q = exports /\ ListOf(q)
      BY DEF AccountsInv, ExportsInv
  <2>2. Len(q) \in Nat /\ Len(q) <= MaxExports
      BY <2>1, ListAppend DEF AccountsInv, ExportsInv
  <2>3. QED
      BY <2>1, <2>2, LimitsArePositive
<1>2. TypeOK
    BY <1>1
    DEF TypeOK, AccountsInv, UsersInv, UserRows, ThreadsInv, Threads, Labels, Handlers, Buckets,
        Attempts
<1>3. FailuresBounded
  <2>1. ASSUME NEW n \in Names PROVE Len(attempts[n]) <= MaxFailures - 1 + Cardinality(Workers)
    <3>1. Len(attempts[n]) \in Nat
      BY DEF AccountsInv, Attempts, Times
    <3>2. Cardinality(Failing(n)) \in Nat /\ Cardinality(Workers) \in Nat
      BY FailingIsFinite
    <3>3. QED
      BY <3>1, <3>2, LimitsArePositive DEF AccountsInv, Attempts, FailuresCounted
  <2>2. QED
      BY <2>1 DEF FailuresBounded
<1>4. RateHeld
    BY DEF RateHeld, AccountsInv, Buckets, Spaced
<1>5. OnlyFullIsRefused
    BY RefusedAreFull DEF AccountsInv
<1>6. QED
    BY <1>2, <1>3, <1>4, <1>5 DEF LimitsHold

(* For any finite number of threads: however their sign-ins overlap, a     *)
(* name collects no more failures than the limit and one for every other   *)
(* thread; in no span of the window is more let through than the rate, and *)
(* nobody is refused who sent less than that (limit, api_rate_limit_mw).   *)
THEOREM LimitsAlwaysHold == ASSUME IsFiniteSet(Workers) PROVE Spec => []LimitsHold
<1>1. Init => AccountsInv
    BY UsersInit, ThreadsInit, BucketsInit, OrdersInit, AttemptsInit, ExportsInit DEF AccountsInv
<1>2. AccountsInv /\ [Next]_vars => AccountsInv'
    BY UsersStep, ThreadsStep, BucketsStep, OrdersStep, AttemptsStep, ExportsStep DEF AccountsInv
<1>3. AccountsInv => LimitsHold
    BY InvGivesLimits
<1>4. QED
    BY <1>1, <1>2, <1>3, PTL DEF Spec

=============================================================================
