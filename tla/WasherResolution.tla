--------------------------- MODULE WasherResolution ---------------------------
(***************************************************************************)
(* The washer workflow as it runs: backend/library/washer_resolution_      *)
(* service.py over three stores (decisions, evidence, closures).  A store  *)
(* is a JSON file replaced with os.replace, a lock around each             *)
(* read-check-write, and a module-level _CACHE of the parsed file, which   *)
(* every lookup goes through and every write empties after its lock.       *)
(*                                                                         *)
(* A request is at a point pc of its operation.  A point at which it calls *)
(* _load has three phases: "test" (is _CACHE None?), "parsed" (the file    *)
(* has been read and is about to become the _CACHE) and "return" (return   *)
(* _CACHE, whatever it is by now).                                         *)
(***************************************************************************)
EXTENDS WasherLifecycle, FiniteSets, SequencesExt

CONSTANTS
    Workers,        \* the threads of the server process
    Requests,       \* what callers may send, and send again
    ImportedFiles,  \* evidence files the server may be started on
    MaxEvidence,    \* bound: no new evidence request from here on
    NoWorker, NoRequest, NoItem,
    Miss            \* _CACHE is None

ASSUME WasherNulls == NoWorker \notin Workers /\ NoRequest \notin Requests
ASSUME MaxEvidenceAssumption == MaxEvidence \in Nat

VARIABLES
    file,       \* the list each store's file holds
    cache,      \* _CACHE of each store
    lock,       \* the holder of _locked() of each store
    pc, phase,
    req,        \* the request a worker serves, or served last
    buf,        \* the list _load or _read_raw parsed
    ctx,        \* the locals of the service function
    reply       \* the last answer: a kind, and the stored item

vars == <<file, cache, lock, pc, phase, req, buf, ctx, reply>>

Stores == {"decisions", "evidence", "closures"}

(* The points that load, with the store they load.                         *)
StoreAt ==
    [find |-> "decisions", status |-> "decisions",
     current |-> "decisions", terminal |-> "decisions", history |-> "decisions",
     listed |-> "evidence", evidence |-> "evidence",
     closed |-> "closures", closure |-> "closures", shown |-> "closures"]

(* The store an operation writes.                                          *)
StoreOf == [decide |-> "decisions", evidence |-> "evidence", close |-> "closures"]

Answer(kind, item) == [kind |-> kind, item |-> item]
NoReply == Answer("none", NoItem)

NoContext == [previous |-> "open", decision |-> NoItem, verified |-> {}, blocking |-> {}]

Init ==
    /\ \E e \in ImportedFiles :
           file = [decisions |-> <<>>, evidence |-> e, closures |-> <<>>]
    /\ cache = [s \in Stores |-> Miss]
    /\ lock = [s \in Stores |-> NoWorker]
    /\ pc = [w \in Workers |-> "idle"]
    /\ phase = [w \in Workers |-> "test"]
    /\ req = [w \in Workers |-> NoRequest]
    /\ buf = [w \in Workers |-> <<>>]
    /\ ctx = [w \in Workers |-> NoContext]
    /\ reply = [w \in Workers |-> NoReply]

Goto(w, point) ==
    /\ pc' = [pc EXCEPT ![w] = point]
    /\ phase' = [phase EXCEPT ![w] = "test"]
    /\ buf' = [buf EXCEPT ![w] = <<>>]
    /\ reply' = [reply EXCEPT ![w] = NoReply]

Finish(w, answer) ==
    /\ pc' = [pc EXCEPT ![w] = "idle"]
    /\ phase' = [phase EXCEPT ![w] = "test"]
    /\ buf' = [buf EXCEPT ![w] = <<>>]
    /\ ctx' = [ctx EXCEPT ![w] = NoContext]
    /\ reply' = [reply EXCEPT ![w] = answer]

Refuse(w, kind) == Finish(w, Answer(kind, NoItem))

-----------------------------------------------------------------------------
(* Requests.  text is "clean", "padded" (spaces around it) or "blank".     *)

(* The validators of the evidence and closure models.                      *)
ValidEvidence(r) ==
    /\ r.text # "blank"
    /\ r.url # "other"      \* neither absent nor http(s)
    /\ r.type = "authoritative_standard" => r.standard # "none"

(* create_washer_resolution_evidence and _closure sum up the text as given *)
(* and the model strips it, so a checksum of padded text does not match.   *)
ChecksumHolds(r) == r.text = "clean"

(* The start of decide_resolution.                                         *)
ReceiveDecide(w, r) ==
    IF r.key = BlankKey THEN Refuse(w, "missing_key")
    ELSE Goto(w, "find") /\ UNCHANGED ctx

(* record_resolution_evidence up to append_evidence.  A model that refuses *)
(* its values is an unexpected error of the route.                         *)
ReceiveEvidence(w, r) ==
    IF r.res \notin Resolutions THEN Refuse(w, "not_found")
    ELSE IF ~ValidEvidence(r) THEN Refuse(w, "server_error")
    ELSE IF ~ChecksumHolds(r) THEN Refuse(w, "integrity_error")
    ELSE Goto(w, "lock") /\ UNCHANGED ctx

(* close_resolution up to its first look at the closures.                  *)
ReceiveClose(w, r) ==
    IF r.res \notin Resolutions THEN Refuse(w, "not_found")
    ELSE IF SourceStatus[r.res] = "blocked_authoritative_source" THEN Refuse(w, "blocked")
    ELSE Goto(w, "closed") /\ UNCHANGED ctx

(* The point at which each read-only route starts.                         *)
FirstRead ==
    [readiness |-> "current", list_decisions |-> "history",
     list_evidence |-> "listed", show_closure |-> "shown"]

(* Every request comes from a route.                                       *)
ASSUME WasherOperations ==
    \A r \in Requests : r.op \in DOMAIN StoreOf \cup DOMAIN FirstRead

ReceiveRead(w, r) ==
    IF r.res \notin Resolutions THEN Refuse(w, "not_found")
    ELSE Goto(w, FirstRead[r.op]) /\ UNCHANGED ctx

Receive(w, r) ==
    /\ pc[w] = "idle"
    /\ r.op = "evidence" => Len(file.evidence) < MaxEvidence
    /\ req' = [req EXCEPT ![w] = r]
    /\ CASE r.op = "decide" -> ReceiveDecide(w, r)
         [] r.op = "evidence" -> ReceiveEvidence(w, r)
         [] r.op = "close" -> ReceiveClose(w, r)
         [] OTHER -> ReceiveRead(w, r)
    /\ UNCHANGED <<file, cache, lock>>

-----------------------------------------------------------------------------
(* _load.                                                                  *)

(* if _CACHE is None: read and parse the file.                             *)
TestCache(w) ==
    /\ pc[w] \in DOMAIN StoreAt /\ phase[w] = "test"
    /\ LET s == StoreAt[pc[w]] IN
       IF cache[s] # Miss
       THEN phase' = [phase EXCEPT ![w] = "return"] /\ UNCHANGED buf
       ELSE /\ phase' = [phase EXCEPT ![w] = "parsed"]
            /\ buf' = [buf EXCEPT ![w] = file[s]]
    /\ UNCHANGED <<file, cache, lock, pc, req, ctx, reply>>

(* Mutant of SetCache: it is extended with what has been parsed.           *)
SetCacheExtended(w) ==
    /\ pc[w] \in DOMAIN StoreAt /\ phase[w] = "parsed"
    /\ LET old == cache[StoreAt[pc[w]]] IN
       cache' = [cache EXCEPT ![StoreAt[pc[w]]] =
                     IF old = Miss THEN buf[w] ELSE old \o buf[w]]
    /\ phase' = [phase EXCEPT ![w] = "return"]
    /\ buf' = [buf EXCEPT ![w] = <<>>]
    /\ UNCHANGED <<file, lock, pc, req, ctx, reply>>

(* _CACHE = [...], even if a write has emptied it since the file was read. *)
SetCache(w) ==
    /\ pc[w] \in DOMAIN StoreAt /\ phase[w] = "parsed"
    /\ cache' = [cache EXCEPT ![StoreAt[pc[w]]] = buf[w]]
    /\ phase' = [phase EXCEPT ![w] = "return"]
    /\ buf' = [buf EXCEPT ![w] = <<>>]
    /\ UNCHANGED <<file, lock, pc, req, ctx, reply>>

(* return _CACHE after another thread's reload(): the caller iterates over *)
(* None, and the route answers 500.                                        *)
LoadedNothing(w) ==
    /\ pc[w] \in DOMAIN StoreAt /\ phase[w] = "return"
    /\ cache[StoreAt[pc[w]]] = Miss
    /\ Refuse(w, "server_error")
    /\ UNCHANGED <<file, cache, lock, req>>

(* The request is at this point and has the list it loaded.                *)
Loaded(w, point) ==
    /\ pc[w] = point /\ phase[w] = "return"
    /\ cache[StoreAt[point]] # Miss

View(w) == cache[StoreAt[pc[w]]]

-----------------------------------------------------------------------------
(* decide_resolution.                                                      *)

WithKey(l, k) == {i \in DOMAIN l : l[i].req.key = k}

(* find_by_idempotency_key, and the answer to a retry.  An unknown         *)
(* resolution is noticed before the next load.                             *)
FindReplay(w) ==
    /\ Loaded(w, "find")
    /\ LET found == WithKey(View(w), req[w].key)
           d == View(w)[LastOf(found)]
       IN  IF found # {} /\ SameRequest(d, req[w]) THEN Finish(w, Answer("replayed", d))
           ELSE IF found # {} THEN Refuse(w, "conflict")
           ELSE IF req[w].res \notin Resolutions THEN Refuse(w, "not_found")
           ELSE Goto(w, "status") /\ UNCHANGED ctx
    /\ UNCHANGED <<file, cache, lock, req>>

(* Mutant of ComputeStatus: the transition is not validated.               *)
ComputeStatusUnchecked(w) ==
    /\ Loaded(w, "status")
    /\ Goto(w, "lock")
    /\ ctx' = [ctx EXCEPT ![w].previous = EffectiveStatus(View(w), req[w].res)]
    /\ UNCHANGED <<file, cache, lock, req>>

(* effective_status and the two validators; the decision is built.         *)
ComputeStatus(w) ==
    /\ Loaded(w, "status")
    /\ LET previous == EffectiveStatus(View(w), req[w].res)
           verdict == ValidateDecision(previous, req[w])
       IN  IF verdict # "ok" THEN Refuse(w, verdict)
           ELSE /\ Goto(w, "lock")
                /\ ctx' = [ctx EXCEPT ![w].previous = previous]
    /\ UNCHANGED <<file, cache, lock, req>>

NewDecision(w) == [req |-> req[w], previous |-> ctx[w].previous]

-----------------------------------------------------------------------------
(* close_resolution and evaluate_closure_readiness.                        *)

(* The friendly check for a closure, before anything is evaluated.         *)
FindClosure(w) ==
    /\ Loaded(w, "closed")
    /\ IF HasClosure(View(w), req[w].res) THEN Refuse(w, "duplicate_closure")
       ELSE Goto(w, "current") /\ UNCHANGED ctx
    /\ UNCHANGED <<file, cache, lock, req>>

(* effective_status of the resolution: terminal or not.                    *)
CheckTerminal(w) ==
    /\ Loaded(w, "current")
    /\ LET blocked == SourceStatus[req[w].res] = "blocked_authoritative_source"
           terminal == EffectiveStatus(View(w), req[w].res) \in TerminalStatuses
       IN  /\ Goto(w, IF terminal THEN "terminal" ELSE "evidence")
           /\ ctx' = [ctx EXCEPT ![w].blocking =
                         (IF blocked THEN {"blocked"} ELSE {})
                         \cup (IF terminal THEN {} ELSE {"not_terminal"})]
    /\ UNCHANGED <<file, cache, lock, req>>

(* decisions_for_resolution, loaded again: the decision to close on.       *)
PickDecision(w) ==
    /\ Loaded(w, "terminal")
    /\ Goto(w, "evidence")
    /\ ctx' = IF DecisionsUpTo(View(w), Len(View(w)), req[w].res) = {}
              THEN [ctx EXCEPT ![w].blocking = @ \cup {"no_decision"}]
              ELSE [ctx EXCEPT ![w].decision = LastDecision(View(w), req[w].res)]
    /\ UNCHANGED <<file, cache, lock, req>>

(* The evidence of the resolution, classified.                             *)
ClassifyEvidence(w) ==
    /\ Loaded(w, "evidence")
    /\ LET verified == Verified(View(w), req[w].res) IN
       /\ Goto(w, "closure")
       /\ ctx' = [ctx EXCEPT
             ![w].verified = verified,
             ![w].blocking = @ \cup
                 (IF Corrupted(View(w), req[w].res) # {} THEN {"corrupted"} ELSE {})
                 \cup (IF verified = {} THEN {"unverified"} ELSE {})]
    /\ UNCHANGED <<file, cache, lock, req>>

(* The last reason, the verdict, and the closure that is built on it.      *)
DecideClosure(w) ==
    /\ Loaded(w, "closure")
    /\ LET blocking == ctx[w].blocking
                       \cup (IF HasClosure(View(w), req[w].res) THEN {"closed"} ELSE {})
       IN  IF req[w].op = "readiness" THEN Refuse(w, "readiness")
           ELSE IF blocking # {} \/ ctx[w].decision = NoItem THEN Refuse(w, "not_ready")
           ELSE IF req[w].text = "blank" THEN Refuse(w, "server_error")
           ELSE IF ~ChecksumHolds(req[w]) THEN Refuse(w, "integrity_error")
           ELSE Goto(w, "lock") /\ UNCHANGED ctx
    /\ UNCHANGED <<file, cache, lock, req>>

NewClosure(w) ==
    [res |-> req[w].res, decision |-> ctx[w].decision, evidence |-> ctx[w].verified]

-----------------------------------------------------------------------------
(* The read-only routes, which fill the caches too.                        *)

Show(w) ==
    /\ \/ Loaded(w, "history") /\ Refuse(w, "listed")
       \/ /\ Loaded(w, "listed")
          /\ Refuse(w, IF Corrupted(View(w), req[w].res) = {}
                       THEN "listed" ELSE "integrity_error")
       \/ Loaded(w, "shown") /\ Refuse(w, "listed")
    /\ UNCHANGED <<file, cache, lock, req>>

-----------------------------------------------------------------------------
(* record_decision, append_evidence and append_closure.                    *)

NewEvidence(w) ==
    [id |-> Len(buf[w]) + 1, res |-> req[w].res, status |-> "unverified", intact |-> TRUE]

Target(w) == StoreOf[req[w].op]

(* Mutant of EnterLock: the lock excludes nobody.                          *)
EnterLockShared(w) ==
    /\ pc[w] = "lock"
    /\ lock' = [lock EXCEPT ![Target(w)] = w]
    /\ Goto(w, "read")
    /\ UNCHANGED <<file, cache, req, ctx>>

(* _locked: flock where there is one, and in any case a lock of the module.*)
EnterLock(w) ==
    /\ pc[w] = "lock"
    /\ lock[Target(w)] = NoWorker
    /\ lock' = [lock EXCEPT ![Target(w)] = w]
    /\ Goto(w, "read")
    /\ UNCHANGED <<file, cache, req, ctx>>

ReadRaw(w) ==
    /\ pc[w] = "read"
    /\ buf' = [buf EXCEPT ![w] = file[Target(w)]]
    /\ pc' = [pc EXCEPT ![w] = "write"]
    /\ UNCHANGED <<file, cache, lock, phase, req, ctx, reply>>

Release(w) == lock' = [s \in Stores |-> IF lock[s] = w THEN NoWorker ELSE lock[s]]

(* Mutant of Write: nothing is looked up again under the lock.             *)
WriteUnchecked(w) ==
    LET item == CASE req[w].op = "decide" -> NewDecision(w)
                  [] req[w].op = "evidence" -> NewEvidence(w)
                  [] req[w].op = "close" -> NewClosure(w)
    IN  /\ pc[w] = "write"
        /\ file' = [file EXCEPT ![Target(w)] = Append(buf[w], item)]
        /\ pc' = [pc EXCEPT ![w] = "reload"]
        /\ reply' = [reply EXCEPT ![w] = Answer("created", item)]
        /\ Release(w)
        /\ UNCHANGED <<cache, phase, req, buf, ctx>>

(* The key or the resolution is looked up again under the lock; then the   *)
(* list is written with one more item.  A decision found here by its key   *)
(* is returned without a comparison, and the cache is emptied for it.      *)
Write(w) ==
    LET op == req[w].op
        item == CASE op = "decide" -> NewDecision(w)
                  [] op = "evidence" -> NewEvidence(w)
                  [] op = "close" -> NewClosure(w)
        found == IF op = "decide" THEN WithKey(buf[w], req[w].key) ELSE {}
    IN  /\ pc[w] = "write"
        /\ Release(w)
        /\ \/ /\ found # {}
              /\ Finish(w, Answer("replayed", buf[w][LastOf(found)]))
              /\ cache' = [cache EXCEPT !.decisions = Miss]
              /\ UNCHANGED file
           \/ /\ op = "close" /\ HasClosure(buf[w], req[w].res)
              /\ Refuse(w, "duplicate_closure")
              /\ UNCHANGED <<file, cache>>
           \/ /\ found = {}
              /\ op = "close" => ~HasClosure(buf[w], req[w].res)
              /\ file' = [file EXCEPT ![Target(w)] = Append(buf[w], item)]
              /\ pc' = [pc EXCEPT ![w] = "reload"]
              /\ reply' = [reply EXCEPT ![w] = Answer("created", item)]
              /\ UNCHANGED <<cache, phase, buf, ctx>>
        /\ UNCHANGED req

(* reload(), after the lock has been given back.                           *)
Reload(w) ==
    /\ pc[w] = "reload"
    /\ cache' = [cache EXCEPT ![Target(w)] = Miss]
    /\ Finish(w, reply[w])
    /\ UNCHANGED <<file, lock, req>>

-----------------------------------------------------------------------------

(* An OSError while a file is opened, read or replaced: the old file stays,*)
(* a lock is released on the way out, and the route answers 500.           *)
FileError(w) ==
    /\ \/ pc[w] \in DOMAIN StoreAt /\ phase[w] = "test" /\ cache[StoreAt[pc[w]]] = Miss
       \/ pc[w] \in {"lock", "read", "write"}
    /\ Release(w)
    /\ Refuse(w, "server_error")
    /\ UNCHANGED <<file, cache, req>>

(* The server dies and starts again: files stay, memory goes.              *)
Crash ==
    /\ cache' = [s \in Stores |-> Miss]
    /\ lock' = [s \in Stores |-> NoWorker]
    /\ pc' = [w \in Workers |-> "idle"]
    /\ phase' = [w \in Workers |-> "test"]
    /\ buf' = [w \in Workers |-> <<>>]
    /\ ctx' = [w \in Workers |-> NoContext]
    /\ reply' = [w \in Workers |-> NoReply]
    /\ UNCHANGED <<file, req>>

Step(w) ==
    \/ TestCache(w) \/ SetCache(w) \/ LoadedNothing(w)
    \/ FindReplay(w) \/ ComputeStatus(w)
    \/ FindClosure(w) \/ CheckTerminal(w) \/ PickDecision(w)
    \/ ClassifyEvidence(w) \/ DecideClosure(w)
    \/ Show(w)
    \/ EnterLock(w) \/ ReadRaw(w) \/ Write(w) \/ Reload(w)

Next ==
    \/ \E w \in Workers :
          \/ \E r \in Requests : Receive(w, r)
          \/ Step(w)
          \/ FileError(w)
    \/ Crash

Spec == Init /\ [][Next]_vars

-----------------------------------------------------------------------------

PC == {"idle", "lock", "read", "write", "reload"} \cup DOMAIN StoreAt

ReplyKind ==
    {"none", "missing_key", "not_found", "conflict", "blocked", "invalid_transition",
     "missing_evidence", "integrity_error", "server_error", "not_ready",
     "duplicate_closure", "readiness", "listed", "created", "replayed"}

Decision == [req : Requests, previous : WasherStatus]
Evidence == [id : Nat, res : Resolutions, status : {"unverified", "verified"},
             intact : BOOLEAN]
Closure == [res : Resolutions, decision : Decision, evidence : SUBSET Nat]

ListsOf ==
    [decisions |-> Seq(Decision), evidence |-> Seq(Evidence), closures |-> Seq(Closure)]

Context ==
    [previous : WasherStatus, decision : Decision \cup {NoItem}, verified : SUBSET Nat,
     blocking : SUBSET {"blocked", "not_terminal", "no_decision", "corrupted", "unverified"}]

Reply == [kind : ReplyKind, item : Decision \cup Evidence \cup Closure \cup {NoItem}]

(* The server is started on files that its models accept.                  *)
ASSUME ImportedFilesAssumption == ImportedFiles \subseteq Seq(Evidence)

(* Types of the files, the caches, the locks and the locals of a request   *)
(* (washer_resolution_*.py).                                               *)
TypeOK ==
    /\ DOMAIN file = Stores /\ DOMAIN cache = Stores
    /\ \A s \in Stores :
          /\ file[s] \in ListsOf[s]
          /\ cache[s] = Miss \/ cache[s] \in ListsOf[s]
    /\ lock \in [Stores -> Workers \cup {NoWorker}]
    /\ pc \in [Workers -> PC]
    /\ phase \in [Workers -> {"test", "parsed", "return"}]
    /\ req \in [Workers -> Requests \cup {NoRequest}]
    /\ buf \in [Workers -> Seq(Decision) \cup Seq(Evidence) \cup Seq(Closure)]
    /\ ctx \in [Workers -> Context]
    /\ reply \in [Workers -> Reply]

(* No step removes, replaces or reorders a record of any of the files      *)
(* (the stores: "append-only"), in spite of the rewrite of the whole file. *)
FilesOnlyGrow == [][\A s \in Stores : IsPrefix(file[s], file'[s])]_vars

(* A cache, and a list on its way into one, may be behind its file and is  *)
(* never beside it: it is what the file held at some earlier time.         *)
CachesArePrefixes ==
    /\ \A s \in Stores : cache[s] = Miss \/ IsPrefix(cache[s], file[s])
    /\ \A w \in Workers :
          /\ phase[w] = "parsed" => IsPrefix(buf[w], file[StoreAt[pc[w]]])
          /\ pc[w] \in {"read", "write"} => lock[Target(w)] = w
          /\ pc[w] = "write" => buf[w] = file[Target(w)]

(* What holds between files, caches and locks at every step of the stores. *)
FilesInv == TypeOK /\ CachesArePrefixes

(* A decision was legal from a status that the file really showed at an    *)
(* earlier length.  With that, a blocked resolution is never decided.      *)
DecisionsGrounded ==
    \A i \in DOMAIN file.decisions :
        LET d == file.decisions[i] IN
        /\ \E n \in 0 .. i - 1 :
              d.previous = StatusAfter(file.decisions, n, d.req.res)
        /\ ValidateDecision(d.previous, d.req) = "ok"

(* However requests overlap, a key names one decision (record_decision:    *)
(* "safe under concurrent retries").                                       *)
KeysNameOneDecision ==
    \A i, j \in DOMAIN file.decisions :
        file.decisions[i].req.key = file.decisions[j].req.key => i = j

(* An answer that shows a decision, an evidence record or a closure shows  *)
(* one that is in the file, and a decision has the key that was sent.      *)
AcknowledgedIsStored ==
    \A w \in Workers :
        reply[w].kind \in {"created", "replayed"} =>
            /\ \E i \in DOMAIN file[Target(w)] : file[Target(w)][i] = reply[w].item
            /\ req[w].op = "decide" => reply[w].item.req.key = req[w].key

(* The decisions file and what callers are told of it, through retries and *)
(* overlaps: legal moves, one decision for a key, and answers that last.   *)
DecisionsHold == DecisionsGrounded /\ KeysNameOneDecision /\ AcknowledgedIsStored

(* A resolution is closed once, whatever the readiness check of an         *)
(* overlapping attempt saw (append_closure checks again under its lock).   *)
OneClosure ==
    \A i, j \in DOMAIN file.closures :
        file.closures[i].res = file.closures[j].res => i = j

(* A closure names a decision of its own resolution, which was decided     *)
(* terminally, and at least one verified, intact evidence record of it.  A *)
(* blocked resolution has no closure.                                      *)
ClosuresGrounded ==
    \A i \in DOMAIN file.closures :
        LET c == file.closures[i]
            own == {j \in DOMAIN file.decisions : file.decisions[j].req.res = c.res}
        IN  /\ SourceStatus[c.res] # "blocked_authoritative_source"
            /\ \E j \in own : file.decisions[j] = c.decision
            /\ \E j \in own : file.decisions[j].req.new \in TerminalStatuses
            /\ c.evidence # {} /\ c.evidence \subseteq Verified(file.evidence, c.res)

(* close_resolution (washer_resolution_service.py:607): a closure names    *)
(* "the readiness result's terminal decision".  The status and the         *)
(* decision are two loads, and a reader that parsed the file long ago may  *)
(* put its list into the cache between them.                               *)
ClosedOnTerminalDecision ==
    \A i \in DOMAIN file.closures :
        file.closures[i].decision.req.new \in TerminalStatuses

(* No route verifies evidence, so a closure rests on records that were     *)
(* verified in the file the server was started on: on the shipped, empty   *)
(* file no sequence of calls ever closes a resolution.                     *)
ClosuresRestOnImportedEvidence ==
    \E e \in ImportedFiles :
        /\ IsPrefix(e, file.evidence)
        /\ \A i \in DOMAIN file.closures :
              file.closures[i].evidence \subseteq {e[j].id : j \in DOMAIN e}

(* A closure, although its decision and its evidence are read before the   *)
(* lock of its file is taken: once, on a decision and evidence that were   *)
(* there, and never from what the routes alone can add.                    *)
ClosuresHold == OneClosure /\ ClosuresGrounded /\ ClosuresRestOnImportedEvidence

-----------------------------------------------------------------------------

(* The abstract ledger, which the workflow implements for callers that do  *)
(* not overlap.                                                            *)
Ledger == INSTANCE WasherLedger WITH
    decisions <- file.decisions, evidence <- file.evidence, closures <- file.closures,
    DecideRequests <- {r \in Requests : r.op = "decide"}

(* Decisions chain, a terminal one is the last and a closure stands.       *)
LedgerInv == Ledger!LedgerInv

=============================================================================
