------------------------------ MODULE Accounts ------------------------------
(***************************************************************************)
(* backend/app.py and backend/api/dependencies.py: sign-in with its count  *)
(* of failures, the request rate limit, user administration, and the       *)
(* administrator's export and import.  Requests run in threads; the two    *)
(* counters are memory of the process and a restart empties them.          *)
(*                                                                         *)
(* Left out: token expiry, the audit rows (each is written after the       *)
(* change it tells, in a transaction of its own, and only listed) and the  *)
(* tables of other modules in an export.  A checksum is the value it is    *)
(* taken of: two different packages never share one.                       *)
(***************************************************************************)
EXTENDS Integers, Sequences, FiniteSets, Positions

CONSTANTS
    Workers, Requests, Names, BuiltIn,
    MaxFailures,      \* 5: failures after which a name is refused
    FailureWindow,    \* 300 s
    RateWindow,       \* the seconds of TORQPRO_API_RATE_LIMIT
    ProfileOrder,     \* organization_settings, license_info, deployment_profile
    MaxClock,         \* bound: the clock stops here
    MaxExports,       \* bound: packages exported
    Same,             \* a field the request does not give
    NoRequest

ASSUME LimitsArePositive ==
    /\ MaxFailures \in Nat \ {0} /\ RateWindow \in Nat /\ FailureWindow \in Nat
    /\ MaxClock \in Nat /\ MaxExports \in Nat

(* Names are those of users and of whoever tries to be one; a patch gives  *)
(* active as yes, as no or not at all (UserPatch).                         *)
ASSUME RequestsAssumption ==
    /\ BuiltIn \in Names
    /\ \A r \in Requests :
          /\ r.op \in {"login", "change", "create", "patch", "reset", "profile", "export", "import"}
          /\ r.actor \in Names
          /\ r.op = "create" => r.subject \in Names
          /\ r.op = "patch" => r.active \in {Same, "yes", "no"}

(* The profiles in EXPORT_TABLES; the audit log is not exported.           *)
ASSUME ProfilesAssumption == ProfileOrder \in Seq(STRING \ {"users", "audit_log"})

VARIABLES
    users,     \* name -> row of the users table; rows are never deleted
    profiles,  \* single-row tables
    attempts,  \* LOGIN_ATTEMPTS
    buckets,   \* _API_RATE_BUCKETS
    rateMax,   \* TORQPRO_API_RATE_LIMIT as the process read it; 0: not set
    admitted,  \* times of every request the limiter let through (for RateHeld)
    exports,   \* packages handed out
    imported,  \* the newest import of migration_history, and whether it was validated
    clock, pc, req, ctx

memory == <<attempts, buckets, admitted>>
tables == <<users, profiles, exports, imported>>
vars == <<users, profiles, attempts, buckets, rateMax, admitted, exports, imported,
          clock, pc, req, ctx>>

Roles == {"admin", "engineer", "viewer"}
Row(password, role) == [password |-> password, role |-> role, active |-> TRUE]
NoRow == [password |-> Same, role |-> "viewer", active |-> FALSE]
Admins == {n \in DOMAIN users : users[n].active /\ users[n].role = "admin"}

Put(f, k, v) == [x \in DOMAIN f \cup {k} |-> IF x = k THEN v ELSE f[x]]

ProfileTables == {ProfileOrder[i] : i \in DOMAIN ProfileOrder}

(* EXPORT_TABLES, as far as they are here, in their order.                 *)
ExportOrder == Append(ProfileOrder, "users")
ExportTables == ProfileTables \cup {"users"}
TableRows(t) == IF t = "users" THEN users ELSE [n \in {t} |-> profiles[t]]

EmptyContext == [row |-> NoRow, tables |-> <<>>]

Finish(w) ==
    /\ pc' = [pc EXCEPT ![w] = "idle"]
    /\ req' = [req EXCEPT ![w] = NoRequest]
    /\ ctx' = [ctx EXCEPT ![w] = EmptyContext]

Goto(w, label) == pc' = [pc EXCEPT ![w] = label] /\ UNCHANGED req

-----------------------------------------------------------------------------
(* Mutant of Pruned: the entry that is exactly as old is dropped too.      *)
PrunedEarly(q, seconds) ==
    LET stops == {k \in 1 .. Len(q) + 1 : \A i \in 1 .. k - 1 : clock - q[i] >= seconds}
    IN  SubSeq(q, LastOf(stops), Len(q))

(* while q and n-q[0]>seconds: q.popleft()                                 *)
Pruned(q, seconds) ==
    LET stops == {k \in 1 .. Len(q) + 1 : \A i \in 1 .. k - 1 : clock - q[i] > seconds}
    IN  SubSeq(q, LastOf(stops), Len(q))

(* api_rate_limit_mw: it runs in the one event loop, before the handler.   *)
(* /api/login is exempt; the key is the caller's session.                  *)
Receive(w, r) ==
    /\ pc[w] = "idle"
    /\ r.op = "import" => exports # <<>>
    /\ UNCHANGED <<tables, attempts, rateMax, clock, ctx>>
    /\ LET q == Pruned(buckets[r.actor], RateWindow)
           exempt == r.op = "login" \/ rateMax = 0 IN
       IF ~exempt /\ Len(q) >= rateMax
       THEN /\ buckets' = [buckets EXCEPT ![r.actor] = q]
            /\ UNCHANGED <<admitted, pc, req>>
       ELSE /\ IF exempt
               THEN UNCHANGED <<buckets, admitted>>
               ELSE /\ buckets' = [buckets EXCEPT ![r.actor] = Append(q, clock)]
                    /\ admitted' = [admitted EXCEPT ![r.actor] = Append(@, clock)]
            /\ pc' = [pc EXCEPT ![w] = IF r.op = "login" THEN "limit" ELSE "authenticate"]
            /\ req' = [req EXCEPT ![w] = r]

-----------------------------------------------------------------------------
(* login: limit, the user's row, the password, and only then the count.    *)
TooMany(q) == Len(q) >= MaxFailures

Limit(w) ==
    /\ pc[w] = "limit"
    /\ LET q == Pruned(attempts[req[w].actor], FailureWindow) IN
       /\ attempts' = [attempts EXCEPT ![req[w].actor] = q]
       /\ IF TooMany(q) THEN Finish(w) ELSE Goto(w, "lookup") /\ UNCHANGED ctx
    /\ UNCHANGED <<tables, buckets, admitted, rateMax, clock>>

Lookup(w) ==
    /\ pc[w] = "lookup"
    /\ LET n == req[w].actor IN
       ctx' = [ctx EXCEPT ![w].row =
                   IF n \in DOMAIN users /\ users[n].active THEN users[n] ELSE NoRow]
    /\ Goto(w, "verify")
    /\ UNCHANGED <<tables, memory, rateMax, clock>>

Verify(w) ==
    /\ pc[w] = "verify"
    /\ LET known == ctx[w].row.active /\ ctx[w].row.password = req[w].password IN
       attempts' = [attempts EXCEPT ![req[w].actor] =
                        IF known THEN <<>> ELSE Append(@, clock)]
    /\ Finish(w)
    /\ UNCHANGED <<tables, buckets, admitted, rateMax, clock>>

-----------------------------------------------------------------------------
(* user and admin (api/dependencies.py): the caller's row as it is now.    *)
Allowed(r) ==
    /\ r.actor \in DOMAIN users /\ users[r.actor].active
    /\ r.op = "change" \/ users[r.actor].role = "admin"

Authenticate(w) ==
    /\ pc[w] = "authenticate"
    /\ IF Allowed(req[w])
       THEN Goto(w, req[w].op) /\ UNCHANGED ctx
       ELSE Finish(w)
    /\ UNCHANGED <<tables, memory, rateMax, clock>>

(* chg: the password is verified in one connection, written in the next.   *)
ReadOwnPassword(w) ==
    /\ pc[w] = "change"
    /\ IF users[req[w].actor].password = req[w].password
       THEN Goto(w, "write_password") /\ UNCHANGED ctx
       ELSE Finish(w)
    /\ UNCHANGED <<tables, memory, rateMax, clock>>

WritePassword(w) ==
    /\ pc[w] = "write_password"
    /\ users' = [users EXCEPT ![req[w].actor].password = req[w].new]
    /\ Finish(w)
    /\ UNCHANGED <<profiles, exports, imported, memory, rateMax, clock>>

(* ac: an unknown role becomes engineer, a name in use is refused.         *)
NewRole(role) == IF role \in Roles THEN role ELSE "engineer"

CreateUser(w) ==
    /\ pc[w] = "create"
    /\ LET r == req[w] IN
       users' = IF r.subject \in DOMAIN users THEN users
                ELSE Put(users, r.subject, Row(r.password, NewRole(r.role)))
    /\ Finish(w)
    /\ UNCHANGED <<profiles, exports, imported, memory, rateMax, clock>>

(* Mutant of PatchAccepted: one may deactivate oneself.                    *)
PatchAnyone(r) == r.role \in Roles \cup {Same}

(* uu: the checks of a patch; only one's own deactivation is refused.      *)
PatchAccepted(r) ==
    /\ r.role \in Roles \cup {Same}
    /\ ~(r.active = "no" /\ r.subject = r.actor)

PatchUser(w) ==
    /\ pc[w] = "patch"
    /\ LET r == req[w]
           Given(v, old) == IF v = Same THEN old ELSE v IN
       users' = IF PatchAccepted(r) /\ r.subject \in DOMAIN users
                THEN [users EXCEPT ![r.subject].role = Given(r.role, @),
                                   ![r.subject].active =
                                        IF r.active = Same THEN @ ELSE r.active = "yes"]
                ELSE users
    /\ Finish(w)
    /\ UNCHANGED <<profiles, exports, imported, memory, rateMax, clock>>

(* rp                                                                      *)
ResetPassword(w) ==
    /\ pc[w] = "reset"
    /\ LET r == req[w] IN
       users' = IF r.subject \in DOMAIN users
                THEN [users EXCEPT ![r.subject].password = r.new] ELSE users
    /\ Finish(w)
    /\ UNCHANGED <<profiles, exports, imported, memory, rateMax, clock>>

(* update_organization, activate_license, update_deployment_profile: one   *)
(* row is replaced, if the request is valid.                               *)
PutProfile(w) ==
    /\ pc[w] = "profile"
    /\ LET r == req[w] IN
       profiles' = IF r.valid THEN [profiles EXCEPT ![r.table] = r.value] ELSE profiles
    /\ Finish(w)
    /\ UNCHANGED <<users, exports, imported, memory, rateMax, clock>>

-----------------------------------------------------------------------------
(* build_system_export: the tables are read by one SELECT each, with no    *)
(* transaction around them; one that fails counts as an empty table.       *)
Complete(w) == Len(ctx[w].tables) = Len(ExportOrder)

ReadTable(w) ==
    /\ pc[w] = "export"
    /\ ~Complete(w)
    /\ LET t == ExportOrder[Len(ctx[w].tables) + 1] IN
       \E rows \in {TableRows(t), <<>>} :
          ctx' = [ctx EXCEPT ![w].tables = Append(@, [table |-> t, rows |-> rows])]
    /\ UNCHANGED <<pc, req, tables, memory, rateMax, clock>>

(* Mutant of Content: the number is checked, too.                          *)
NumberedContent(package) ==
    [format |-> package.format, tables |-> package.tables, number |-> package.number]

(* The checksum is taken before the package gets its number.               *)
Content(package) ==
    [format |-> package.format, tables |-> package.tables]

StoreExport(w) ==
    /\ pc[w] = "export"
    /\ Complete(w)
    /\ Len(exports) < MaxExports
    /\ LET body == [format |-> "torqpro-system-export",
                    tables |-> {ctx[w].tables[i] : i \in DOMAIN ctx[w].tables}] IN
       exports' = Append(exports, [format |-> body.format, tables |-> body.tables,
                                   number |-> Len(exports) + 1, checksum |-> <<body>>])
    /\ Finish(w)
    /\ UNCHANGED <<users, profiles, imported, memory, rateMax, clock>>

(* system_import only validates: no table is written.  A package without a *)
(* checksum is not compared.                                               *)
Valid(package) ==
    /\ package.format = "torqpro-system-export"
    /\ package.checksum \in {<<>>, <<Content(package)>>}
    /\ \A t \in package.tables : t.table \in ExportTables

(* What comes back: an export as it is, or changed on the way.             *)
Returned(package, change) ==
    CASE change = "none" -> package
      [] change = "format" -> [package EXCEPT !.format = "other"]
      [] change = "rows" -> [package EXCEPT !.tables = {t \in @ : t.table # "users"}]
      [] change = "unsigned" -> [package EXCEPT !.checksum = <<>>]
      [] change = "unknown" ->
            [package EXCEPT !.tables = @ \cup {[table |-> "audit_log", rows |-> <<>>]},
                            !.checksum = <<>>]

Import(w) ==
    /\ pc[w] = "import"
    /\ \E i \in DOMAIN exports :
          imported' = <<[of |-> i, change |-> req[w].change,
                         validated |-> Valid(Returned(exports[i], req[w].change))]>>
    /\ Finish(w)
    /\ UNCHANGED <<users, profiles, exports, memory, rateMax, clock>>

-----------------------------------------------------------------------------
Tick ==
    /\ clock < MaxClock
    /\ clock' = clock + 1
    /\ UNCHANGED <<tables, memory, rateMax, pc, req, ctx>>

(* The process ends, with every thread, and starts: migrate gives the      *)
(* built-in account its role, not its active flag.                         *)
Restart ==
    /\ users' = [users EXCEPT ![BuiltIn].role = "admin"]
    /\ attempts' = [n \in Names |-> <<>>]
    /\ buckets' = [n \in Names |-> <<>>]
    /\ admitted' = [n \in Names |-> <<>>]
    /\ pc' = [w \in Workers |-> "idle"]
    /\ req' = [w \in Workers |-> NoRequest]
    /\ ctx' = [w \in Workers |-> EmptyContext]
    /\ UNCHANGED <<profiles, exports, imported, rateMax, clock>>

Step(w) ==
    \/ Limit(w)
    \/ Lookup(w)
    \/ Verify(w)
    \/ Authenticate(w)
    \/ ReadOwnPassword(w)
    \/ WritePassword(w)
    \/ CreateUser(w)
    \/ PatchUser(w)
    \/ ResetPassword(w)
    \/ PutProfile(w)
    \/ ReadTable(w)
    \/ StoreExport(w)
    \/ Import(w)

Init ==
    /\ users = [n \in {BuiltIn} |-> Row("A1234", "admin")]
    /\ profiles = [t \in ProfileTables |-> "default"]
    /\ attempts = [n \in Names |-> <<>>]
    /\ buckets = [n \in Names |-> <<>>]
    /\ admitted = [n \in Names |-> <<>>]
    /\ rateMax \in Nat
    /\ exports = <<>>
    /\ imported = <<>>
    /\ clock = 0
    /\ pc = [w \in Workers |-> "idle"]
    /\ req = [w \in Workers |-> NoRequest]
    /\ ctx = [w \in Workers |-> EmptyContext]

Next ==
    \/ \E w \in Workers : (\E r \in Requests : Receive(w, r)) \/ Step(w)
    \/ Tick
    \/ Restart

Spec == Init /\ [][Next]_vars

-----------------------------------------------------------------------------
Times == Seq(0..MaxClock)

(* Type correctness: the tables, the two counters and the threads.         *)
TypeOK ==
    /\ BuiltIn \in DOMAIN users
    /\ DOMAIN users \subseteq Names
    /\ \A n \in DOMAIN users : users[n].role \in Roles /\ users[n].active \in BOOLEAN
    /\ DOMAIN profiles = ProfileTables
    /\ attempts \in [Names -> Times] /\ buckets \in [Names -> Times]
    /\ admitted \in [Names -> Times]
    /\ Len(exports) \in 0..MaxExports
    /\ clock \in 0..MaxClock
    /\ pc \in [Workers -> {"idle", "limit", "lookup", "verify", "authenticate", "change",
                           "write_password", "create", "patch", "reset", "profile",
                           "export", "import"}]

(* login counts a failure after it read the count: threads that overlap    *)
(* go past the five failures of limit, by one each at most.                *)
FailuresBounded ==
    \A n \in Names : Len(attempts[n]) <= MaxFailures - 1 + Cardinality(Workers)

(* api_rate_limit_mw: of one session, no more than the configured number   *)
(* of requests is let through in any span of the configured seconds.       *)
RateHeld ==
    rateMax > 0 =>
        \A n \in Names : \A i, j \in DOMAIN admitted[n] :
            j = i + rateMax => admitted[n][j] - admitted[n][i] > RateWindow

(* It refuses a session only if so many requests of it were let through    *)
(* within the window: refused ones do not count, and old ones stop to.     *)
OnlyFullIsRefused ==
    rateMax > 0 =>
        \A n \in Names :
            Len(Pruned(buckets[n], RateWindow)) >= rateMax =>
                LET k == Len(admitted[n]) - rateMax + 1
                IN  k \in DOMAIN admitted[n] /\ clock - admitted[n][k] <= RateWindow

(* Both limiters hold whatever overlaps, over tables that stay well formed *)
(* with their built-in administrator.  Two conditions: the counters start  *)
(* anew with the process, so this is about one life of it, and the clock   *)
(* does not go back (the code reads time.time(), which may be set).        *)
LimitsHold == TypeOK /\ FailuresBounded /\ RateHeld /\ OnlyFullIsRefused

(* uu refuses to deactivate oneself, so that an administrator is left: the *)
(* last one goes by giving up the role, or by a request whose sender had   *)
(* lost the right to it after it was checked.                              *)
LastAdminFallsByOverlap ==
    [][Admins # {} /\ Admins' = {} =>
          \E w \in Workers :
              /\ pc[w] = "patch" /\ pc'[w] = "idle"
              /\ \/ req[w].actor \notin Admins
                 \/ req[w].actor = req[w].subject /\ req[w].role # Same]_vars

(* system_import: a package this system exported comes back as valid, and  *)
(* one whose tables were changed under its checksum does not.              *)
OwnExportsImport ==
    \A i \in DOMAIN imported :
        /\ imported[i].change = "none" => imported[i].validated
        /\ imported[i].change \in {"rows", "format", "unknown"} => ~imported[i].validated

=============================================================================
