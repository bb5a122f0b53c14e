--------------------------- MODULE WasherGovernance ---------------------------
(***************************************************************************)
(* The washer workflow together with the governance event store: after a   *)
(* decision is stored (or replayed) the same thread projects it with       *)
(* adapters/washer_resolution_sync.py, and the command-line tool           *)
(* run_washer_governance_reconciliation.py, a process of its own, projects *)
(* all stored decisions again.  The projection calls the commands of       *)
(* GovernanceService directly, past the ownership guard of its routes.     *)
(*                                                                         *)
(* A decision that is being projected is at a stage: "lookup" (classify,   *)
(* then look for an event under the key of the projection) or "command".   *)
(***************************************************************************)
EXTENDS WasherResolution

CONSTANTS
    Reconciler,     \* the process of the command-line tool
    OtherEvents     \* governance logs the generic routes may have written

VARIABLES
    events, glock, gpc, greq, gprev, graw, greply,  \* GovernanceService
    configured,     \* TORQPRO_GOVERNANCE_EVENT_STORE_PATH is set
    syncing,        \* the decision a thread or process projects, and its stage
    result,         \* the SyncResult of the last projection
    scanned, next,  \* the decisions a reconciliation has read, and its place
    failed,         \* its counter of failures is not zero
    dryRun

govVars == <<events, glock, gpc, greq, gprev, graw, greply>>
toolVars == <<scanned, next, dryRun>>
syncVars == <<syncing, result, failed, toolVars>>
allVars == <<vars, govVars, configured, syncVars>>

Agents == Workers \cup {Reconciler}

ASSUME ReconcilerAssumption == Reconciler \notin Workers \cup {NoWorker}

(* _STATUS_MAP of adapters/washer_resolution.py: canonical status, quality. *)
CanonicalStatus ==
    [open           |-> <<"open", "exact">>,
     under_review   |-> <<"open", "partial">>,
     resolved       |-> <<"resolved", "exact">>,
     accepted_as_is |-> <<"waived", "exact">>,
     rejected       |-> <<"rejected", "exact">>,
     blocked_authoritative_source |-> <<"none", "unsupported">>]

(* _SYNCABLE_STATUS_MAP, less "open", which is asked for before it, with   *)
(* _COMMAND_BY_STATUS.                                                     *)
SyncCommand ==
    [resolved       |-> "resolve_resolution",
     accepted_as_is |-> "waive_resolution",
     rejected       |-> "reject_resolution"]

(* _sync_idempotency_key and _build_metadata.  The time of synchronisation *)
(* is in the metadata: the attempts of two agents differ in it.            *)
SyncKey(d) == <<"washer-sync", d.req.key>>

SyncRequest(d, a) ==
    [agg |-> d.req.res, type |-> "washer_resolution", cmd |-> SyncCommand[d.req.new],
     decision |-> d.req.key, key |-> SyncKey(d), given |-> {"actor", "occurred_at"},
     note |-> a]

SyncRequests ==
    {SyncRequest([req |-> r], a) :
        r \in {q \in Requests : q.op = "decide" /\ q.new \in DOMAIN SyncCommand
                                /\ q.key # BlankKey},
        a \in Agents}

OtherRequests == UNION {{e[i].req : i \in DOMAIN e} : e \in OtherEvents}

Governance == INSTANCE GovernanceService WITH
    Workers <- Agents, Requests <- SyncRequests \cup OtherRequests, Restricted <- {},
    NoEvent <- NoItem, HasFcntl <- TRUE,
    lock <- glock, pc <- gpc, req <- greq, prev <- gprev, raw <- graw, reply <- greply

(* The ownership guard of the generic routes (_run_command) keeps events on *)
(* washer resolutions out of the log.                                      *)
ASSUME OtherEventsAssumption ==
    \A e \in OtherEvents :
        /\ e \in Seq([req : OtherRequests, previous : Governance!AnyStatus])
        /\ \A i \in DOMAIN e : e[i].req.type # "washer_resolution"

NoSync == [decision |-> NoItem, stage |-> "none"]
Start(d) == [decision |-> d, stage |-> "lookup"]
NoResult == [decision |-> NoItem, outcome |-> "none"]

InitGovernance ==
    /\ events \in OtherEvents
    /\ glock = NoWorker
    /\ gpc = [a \in Agents |-> "idle"]
    /\ greq = [a \in Agents |-> NoRequest]
    /\ gprev = [a \in Agents |-> "draft"]
    /\ graw = [a \in Agents |-> <<>>]
    /\ greply = [a \in Agents |-> Governance!NoReply]

InitSync ==
    /\ configured \in BOOLEAN
    /\ syncing = [a \in Agents |-> NoSync]
    /\ result = [a \in Agents |-> NoResult]
    /\ scanned = <<>> /\ next = 1
    /\ failed = FALSE
    /\ dryRun = TRUE

-----------------------------------------------------------------------------
(* sync_washer_decision.                                                   *)

(* The SyncResult, and the counters of reconcile.                          *)
EndSync(a, outcome) ==
    /\ syncing' = [syncing EXCEPT ![a] = NoSync]
    /\ result' = [result EXCEPT ![a] =
                     [decision |-> syncing[a].decision, outcome |-> outcome]]
    /\ failed' = (failed \/ (a = Reconciler /\ outcome = "failed"))

(* _existing_event_matches.                                                *)
EventMatches(e, d) ==
    /\ e.req.type = "washer_resolution"
    /\ e.req.agg = d.req.res
    /\ e.req.decision = d.req.key
    /\ Governance!NewStatus(e.req) = CanonicalStatus[d.req.new][1]

(* Mutant of Lookup: any event under the key is taken for an earlier sync. *)
LookupKeyOnly(a) ==
    LET d == syncing[a].decision
        found == Governance!EventsWithKey(events, SyncKey(d))
    IN  /\ syncing[a].stage = "lookup"
        /\ \/ /\ d.req.new \notin DOMAIN SyncCommand
              /\ EndSync(a, "not_representable") /\ UNCHANGED govVars
           \/ /\ d.req.new \in DOMAIN SyncCommand
              /\ IF found # {} THEN EndSync(a, "already_synchronized") /\ UNCHANGED govVars
                 ELSE /\ Governance!Receive(a, SyncRequest(d, a))
                      /\ syncing' = [syncing EXCEPT ![a].stage = "command"]
                      /\ UNCHANGED <<result, failed>>
        /\ UNCHANGED <<vars, configured, toolVars>>

(* The classification, the lookup of the key and the start of the command. *)
Lookup(a) ==
    LET d == syncing[a].decision
        found == Governance!EventsWithKey(events, SyncKey(d))
        end(outcome) == EndSync(a, outcome) /\ UNCHANGED govVars
    IN  /\ syncing[a].stage = "lookup"
        /\ IF d.req.new = "open" THEN end("skipped_open")
           ELSE IF d.req.new \notin DOMAIN SyncCommand THEN end("not_representable")
           ELSE IF ~configured THEN end("governance_store_unconfigured")
           ELSE IF found # {}
           THEN end(IF EventMatches(events[Governance!FirstOf(found)], d)
                    THEN "already_synchronized" ELSE "failed")
           ELSE IF a = Reconciler /\ dryRun THEN end("would_synchronize")
           ELSE /\ Governance!Receive(a, SyncRequest(d, a))
                /\ syncing' = [syncing EXCEPT ![a].stage = "command"]
                /\ UNCHANGED <<result, failed>>
        /\ UNCHANGED <<vars, configured, toolVars>>

(* The command has returned or raised.                                     *)
Conclude(a) ==
    /\ syncing[a].stage = "command" /\ gpc[a] = "idle"
    /\ EndSync(a, CASE greply[a].kind = "created" -> "synchronized"
                    [] greply[a].kind = "existing" -> "already_synchronized"
                    [] OTHER -> "failed")
    /\ UNCHANGED <<vars, govVars, configured, toolVars>>

(* One step of the governance command that the projection has called.      *)
CommandStep(a) ==
    /\ Governance!Step(a)
    /\ UNCHANGED <<vars, configured, syncVars>>

(* GovernanceStoreError in the lookup.                                     *)
LookupFails(a) ==
    /\ syncing[a].stage = "lookup" /\ configured
    /\ syncing[a].decision.req.new \in DOMAIN SyncCommand
    /\ EndSync(a, "failed")
    /\ UNCHANGED <<vars, govVars, configured, toolVars>>

(* The same, or an OSError, in the command.                                *)
CommandFails(a) ==
    /\ Governance!StoreFailure(a)
    /\ UNCHANGED <<vars, configured, syncVars>>

-----------------------------------------------------------------------------
(* The endpoint of a decision, app.py.                                     *)

(* A decision that was created or replayed is projected before the answer  *)
(* is sent, which it does not change.                                      *)
HandOver(w) ==
    /\ syncing' = [syncing EXCEPT ![w] =
           IF pc'[w] = "idle" /\ req'[w].op = "decide"
              /\ reply'[w].kind \in {"created", "replayed"}
           THEN Start(reply'[w].item) ELSE NoSync]
    /\ UNCHANGED <<govVars, configured, result, failed, toolVars>>

ServerStep(w) ==
    /\ syncing[w] = NoSync
    /\ Step(w)
    /\ HandOver(w)

ServerFails(w) ==
    /\ syncing[w] = NoSync
    /\ FileError(w)
    /\ HandOver(w)

Call(w, r) ==
    /\ syncing[w] = NoSync
    /\ Receive(w, r)
    /\ HandOver(w)

(* The server process dies with all its threads; the tool lives on.        *)
ServerCrash ==
    /\ \E w \in Workers : pc[w] # "idle" \/ syncing[w] # NoSync
    /\ Crash
    /\ glock' = IF glock \in Workers THEN NoWorker ELSE glock
    /\ gpc' = [a \in Agents |-> IF a \in Workers THEN "idle" ELSE gpc[a]]
    /\ gprev' = [a \in Agents |-> IF a \in Workers THEN "draft" ELSE gprev[a]]
    /\ graw' = [a \in Agents |-> IF a \in Workers THEN <<>> ELSE graw[a]]
    /\ greply' = [a \in Agents |-> IF a \in Workers THEN Governance!NoReply ELSE greply[a]]
    /\ syncing' = [a \in Agents |-> IF a \in Workers THEN NoSync ELSE syncing[a]]
    /\ UNCHANGED <<events, greq, configured, result, failed, toolVars>>

-----------------------------------------------------------------------------
(* reconcile, called by the tool with or without --apply.                  *)

Reconciled == next > Len(scanned) /\ syncing[Reconciler] = NoSync

(* The tool starts with no cache, so it reads the decisions as they are.   *)
Reconcile(dry) ==
    /\ Reconciled
    /\ file.decisions # <<>>
    /\ scanned' = file.decisions /\ next' = 1
    /\ failed' = FALSE
    /\ dryRun' = dry
    /\ UNCHANGED <<vars, govVars, configured, syncing, result>>

ReconcileNext ==
    /\ next \in DOMAIN scanned /\ syncing[Reconciler] = NoSync
    /\ syncing' = [syncing EXCEPT ![Reconciler] = Start(scanned[next])]
    /\ next' = next + 1
    /\ UNCHANGED <<vars, govVars, configured, result, failed, scanned, dryRun>>

(* The tool dies while a command of its runs; the server lives on.         *)
ToolCrash ==
    /\ Governance!Crash(Reconciler)
    /\ syncing' = [syncing EXCEPT ![Reconciler] = NoSync]
    /\ scanned' = <<>> /\ next' = 1
    /\ UNCHANGED <<vars, configured, result, failed, dryRun>>

-----------------------------------------------------------------------------
(* The server and the tool at once.                                        *)

GovernedInit == Init /\ InitGovernance /\ InitSync

GovernedNext ==
    \/ \E w \in Workers :
          ServerStep(w) \/ ServerFails(w) \/ \E r \in Requests : Call(w, r)
    \/ \E a \in Agents :
          Lookup(a) \/ Conclude(a) \/ CommandStep(a) \/ LookupFails(a) \/ CommandFails(a)
    \/ ServerCrash \/ ToolCrash
    \/ (\E dry \in BOOLEAN : Reconcile(dry)) \/ ReconcileNext

GovernedSpec == GovernedInit /\ [][GovernedNext]_allVars

-----------------------------------------------------------------------------

(* A decision is projected by the thread that answers for it, before the   *)
(* answer, and a replay projects it once more: retrying a request repairs  *)
(* what a failed store left out.                                           *)
EveryAnswerIsProjected ==
    \A w \in Workers :
        (pc[w] = "idle" /\ reply[w].kind \in {"created", "replayed"}
            /\ req[w].op = "decide") =>
            reply[w].item \in {syncing[w].decision, result[w].decision}

(* Every projected event tells of a decision that is in the washer file,   *)
(* with the status it maps to: the washer file is written first.           *)
EventsMirrorDecisions ==
    \A i \in DOMAIN events :
        events[i].req.type = "washer_resolution" =>
            \E j \in DOMAIN file.decisions : EventMatches(events[i], file.decisions[j])

(* A projection that reports success, to the log of the server or in the   *)
(* report of the tool, has its event: exit code 0 can be relied on.        *)
SyncedIsStored ==
    \A a \in Agents :
        result[a].outcome \in {"synchronized", "already_synchronized"} =>
            \E i \in DOMAIN events : EventMatches(events[i], result[a].decision)

(* Exit code 0 of the tool run with --apply can be relied on: every        *)
(* terminal decision it found has its event, in spite of what the server   *)
(* did at the same time and of what others wrote into the log before.      *)
ExitZeroMeansProjected ==
    (Reconciled /\ ~failed /\ ~dryRun /\ configured) =>
        \A i \in DOMAIN scanned :
            scanned[i].req.new \in TerminalStatuses =>
                \E j \in DOMAIN events : EventMatches(events[j], scanned[i])

(* The projection into the governance log, by the server and by the tool   *)
(* at once: nothing answered is forgotten, nothing told is untrue, and a   *)
(* success that is reported is one.                                        *)
ProjectionHolds ==
    /\ EveryAnswerIsProjected /\ EventsMirrorDecisions
    /\ SyncedIsStored /\ ExitZeroMeansProjected

=============================================================================
