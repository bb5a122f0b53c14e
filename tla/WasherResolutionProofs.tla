------------------------ MODULE WasherResolutionProofs ------------------------
(***************************************************************************)
(* Any number of threads on the three washer files, any requests, file     *)
(* errors and restarts: the files are typed and only grow, every cache is  *)
(* an earlier state of its file, a decision was legal and a key names one, *)
(* what was acknowledged is stored, and a resolution is closed once, on a  *)
(* decision and verified evidence of its own.  With the reconciliation     *)
(* tool beside the server and the governance log composed in, the          *)
(* projection of the decisions holds too.                                  *)
(***************************************************************************)
EXTENDS MCWasher, WellFoundedInduction, SequenceTheorems, TLAPS

-----------------------------------------------------------------------------
(* Positions are well-founded.                                             *)
NatOrder == {p \in Nat \X Nat : p[1] < p[2]}

LEMMA NatOrderWellFounded == IsWellFoundedOn(NatOrder, Nat)
BY NatLessThanWellFounded DEF OpToRel, NatOrder

(* A non-empty set of positions has a last one, and LastOf is it. *)
LEMMA LastOfIsLast ==
    ASSUME NEW n \in Nat, NEW idx \in SUBSET (1..n), idx # {}
    PROVE  LastOf(idx) \in idx /\ \A j \in idx : j <= LastOf(idx)
<1> DEFINE T == {n - i : i \in idx}
<1>1. \A i \in idx : n - i \in Nat /\ n - i \in T
  OBVIOUS
<1>2. T \subseteq Nat /\ T # {}
  BY <1>1
<1>3. PICK x \in T : \A y \in T : <<y, x>> \notin NatOrder
  <2> HIDE DEF T
  <2>1. QED
    BY <1>2, WFMin, NatOrderWellFounded
<1>4. PICK i \in idx : x = n - i
  OBVIOUS
<1>5. ASSUME NEW j \in idx PROVE j <= i
  <2>1. ~ (n - j < n - i)
    BY <1>1, <1>3, <1>4 DEF NatOrder
  <2>2. QED
    BY <2>1
<1>6. QED
  BY <1>5 DEF LastOf

-----------------------------------------------------------------------------
(* What it means for a list to be an earlier state of another.             *)
LEMMA PrefixPoints ==
    ASSUME NEW S, NEW s \in Seq(S), NEW t \in Seq(S)
    PROVE  IsPrefix(s, t) <=> Len(s) <= Len(t) /\ \A i \in 1 .. Len(s) : s[i] = t[i]
BY DEF IsPrefix

(* A list is an earlier state of itself.                                   *)
LEMMA PrefixSelf ==
    ASSUME NEW S, NEW s \in Seq(S)
    PROVE  IsPrefix(s, s)
BY PrefixPoints

(* It stays one when the longer list grows.                                *)
LEMMA PrefixAppend ==
    ASSUME NEW S, NEW s \in Seq(S), NEW t \in Seq(S), NEW e \in S, IsPrefix(s, t)
    PROVE  IsPrefix(s, Append(t, e))
<1>1. Append(t, e) \in Seq(S) /\ Len(s) <= Len(t) /\ \A i \in 1 .. Len(s) : s[i] = t[i]
    BY PrefixPoints
<1>2. /\ Len(Append(t, e)) = Len(t) + 1 /\ Len(s) \in Nat /\ Len(t) \in Nat
      /\ \A i \in 1 .. Len(t) : Append(t, e)[i] = t[i]
    OBVIOUS
<1>3. Len(s) <= Len(Append(t, e)) /\ \A i \in 1 .. Len(s) : s[i] = Append(t, e)[i]
    BY <1>1, <1>2
<1>4. QED
    BY <1>1, <1>3, PrefixPoints

(* An earlier state of an earlier state is one.                            *)
LEMMA PrefixTransitive ==
    ASSUME NEW S, NEW s \in Seq(S), NEW t \in Seq(S), NEW u \in Seq(S),
           IsPrefix(s, t), IsPrefix(t, u)
    PROVE  IsPrefix(s, u)
<1>1. /\ Len(s) \in Nat /\ Len(t) \in Nat /\ Len(u) \in Nat
      /\ Len(s) <= Len(t) /\ Len(t) <= Len(u)
      /\ \A i \in 1 .. Len(s) : s[i] = t[i]
      /\ \A i \in 1 .. Len(t) : t[i] = u[i]
    BY PrefixPoints
<1>2. Len(s) <= Len(u) /\ \A i \in 1 .. Len(s) : s[i] = u[i]
    BY <1>1
<1>3. QED
    BY <1>2, PrefixPoints

(* A list that was extended shows the same status at every earlier length. *)
LEMMA StatusOfPrefix ==
    ASSUME NEW s \in Seq(Decision), NEW t \in Seq(Decision), IsPrefix(s, t),
           NEW n \in 0 .. Len(s), NEW res
    PROVE  StatusAfter(s, n, res) = StatusAfter(t, n, res)
<1> DEFINE idx == DecisionsUpTo(s, n, res)
<1>1. n \in Nat /\ \A i \in 1..n : s[i] = t[i]
    BY PrefixPoints
<1>2. DecisionsUpTo(t, n, res) = idx
    BY <1>1 DEF DecisionsUpTo
<1>3. CASE idx = {}
    BY <1>2, <1>3 DEF StatusAfter
<1>4. CASE idx # {}
  <2>1. LastOf(idx) \in 1..n
    BY <1>1, <1>4, LastOfIsLast DEF DecisionsUpTo
  <2>2. QED
    BY <1>1, <1>2, <1>4, <2>1 DEF StatusAfter
<1>5. QED
    BY <1>3, <1>4

-----------------------------------------------------------------------------
(* The inductive invariant.                                                *)

(* What a request found in the files, which goes on being true of them.    *)
ShownStatus(l, st, res) == \E n \in 0 .. Len(l) : st = StatusAfter(l, n, res)

OwnDecision(l, d, res) == d.req.res = res /\ \E j \in DOMAIN l : l[j] = d

TerminalSeen(l, res) ==
    \E j \in DOMAIN l : l[j].req.res = res /\ l[j].req.new \in TerminalStatuses

InWriter(w) == pc[w] \in {"lock", "read", "write"}

(* Which operation is at which point, and what its first checks leave.     *)
Placed(w) ==
    /\ pc[w] # "idle" => req[w] \in Requests
    /\ InWriter(w) \/ pc[w] = "reload" => req[w].op \in DOMAIN StoreOf
    /\ pc[w] \in {"find", "status"} => req[w].op = "decide"
    /\ pc[w] = "closed" => req[w].op = "close"
    /\ pc[w] \in {"current", "terminal", "evidence", "closure"} =>
           req[w].op \in {"close", "readiness"}
    /\ pc[w] # "idle" /\ req[w].op # "decide" => req[w].res \in Resolutions
    /\ pc[w] # "idle" /\ req[w].op = "close" =>
           SourceStatus[req[w].res] # "blocked_authoritative_source"

(* The list in hand is an earlier state of the file it was read from, and  *)
(* under the lock it is the file.                                          *)
ListInHand(w) ==
    /\ phase[w] = "parsed" =>
           /\ pc[w] \in DOMAIN StoreAt
           /\ buf[w] \in ListsOf[StoreAt[pc[w]]]
           /\ IsPrefix(buf[w], file[StoreAt[pc[w]]])
    /\ pc[w] \in {"read", "write"} => lock[Target(w)] = w
    /\ pc[w] = "write" => buf[w] = file[Target(w)]

(* A decision on its way to the file is legal from a status the file once  *)
(* showed.                                                                 *)
DecisionReady(w) ==
    InWriter(w) /\ req[w].op = "decide" =>
        /\ ShownStatus(file.decisions, ctx[w].previous, req[w].res)
        /\ ValidateDecision(ctx[w].previous, req[w]) = "ok"

(* What the readiness check has established so far, read from a blocking   *)
(* reason that is missing.                                                 *)
ClosureReady(w) ==
    /\ pc[w] = "idle" => ctx[w] = NoContext
    /\ ctx[w].decision # NoItem => OwnDecision(file.decisions, ctx[w].decision, req[w].res)
    /\ pc[w] \in {"terminal", "evidence", "closure"} =>
           "not_terminal" \in ctx[w].blocking \/ TerminalSeen(file.decisions, req[w].res)
    /\ pc[w] = "closure" =>
           /\ ctx[w].verified \subseteq Verified(file.evidence, req[w].res)
           /\ "unverified" \in ctx[w].blocking \/ ctx[w].verified # {}
    /\ InWriter(w) /\ req[w].op = "close" =>
           /\ ctx[w].decision # NoItem /\ TerminalSeen(file.decisions, req[w].res)
           /\ ctx[w].verified \subseteq Verified(file.evidence, req[w].res)
           /\ ctx[w].verified # {}

(* AcknowledgedIsStored of one worker.                                     *)
Answered(w) ==
    reply[w].kind \in {"created", "replayed"} =>
        /\ req[w].op \in DOMAIN StoreOf
        /\ \E i \in DOMAIN file[Target(w)] : file[Target(w)][i] = reply[w].item
        /\ req[w].op = "decide" => reply[w].item.req.key = req[w].key

WorkerInv(w) ==
    /\ Placed(w) /\ ListInHand(w) /\ DecisionReady(w) /\ ClosureReady(w) /\ Answered(w)

CacheInv == \A s \in Stores : cache[s] = Miss \/ IsPrefix(cache[s], file[s])

(* Nothing was verified but what the server was started on.                *)
OnlyImportedIsVerified ==
    \E e \in ImportedFiles :
        /\ IsPrefix(e, file.evidence)
        /\ \A i \in DOMAIN file.evidence : i > Len(e) => file.evidence[i].status = "unverified"

FileInv ==
    /\ DecisionsGrounded /\ KeysNameOneDecision
    /\ OneClosure /\ ClosuresGrounded /\ OnlyImportedIsVerified

WasherInv ==
    /\ TypeOK /\ CacheInv /\ FileInv
    /\ \A w \in Workers : WorkerInv(w)

-----------------------------------------------------------------------------
(* What a request found stays true while the files grow.                   *)

(* What a request found among the decisions is still there in a longer list.*)
LEMMA GroundsStay ==
    ASSUME NEW l \in Seq(Decision), NEW m \in Seq(Decision), IsPrefix(l, m), NEW res
    PROVE  /\ \A st : ShownStatus(l, st, res) => ShownStatus(m, st, res)
           /\ \A d : OwnDecision(l, d, res) => OwnDecision(m, d, res)
           /\ TerminalSeen(l, res) => TerminalSeen(m, res)
<1>1. Len(l) <= Len(m) /\ \A i \in DOMAIN l : i \in DOMAIN m /\ l[i] = m[i]
    BY PrefixPoints
<1>2. \A n \in 0 .. Len(l) : n \in 0 .. Len(m) /\ StatusAfter(l, n, res) = StatusAfter(m, n, res)
    BY <1>1, StatusOfPrefix
<1>3. QED
    BY <1>1, <1>2 DEF ShownStatus, OwnDecision, TerminalSeen

(* Verified evidence is never taken back by a longer list.                 *)
LEMMA VerifiedStays ==
    ASSUME NEW l \in Seq(Evidence), NEW m \in Seq(Evidence), IsPrefix(l, m), NEW res
    PROVE  Verified(l, res) \subseteq Verified(m, res)
<1>1. \A i \in DOMAIN l : i \in DOMAIN m /\ l[i] = m[i]
    BY PrefixPoints
<1>2. QED
    BY <1>1 DEF Verified, EvidenceOf

(* What TypeOK says of the three files and caches.                         *)
LEMMA StoresHoldLists ==
    ASSUME NEW s \in Stores
    PROVE  \E S : ListsOf[s] = Seq(S)
<1>1. /\ ListsOf["decisions"] = Seq(Decision) /\ ListsOf["evidence"] = Seq(Evidence)
      /\ ListsOf["closures"] = Seq(Closure)
    BY DEF ListsOf
<1>2. QED
    BY <1>1 DEF Stores

(* A worker that a step of another leaves where it is.                     *)
LEMMA OthersKeep ==
    ASSUME WasherInv, TypeOK', NEW v \in Workers,
           pc'[v] = pc[v], phase'[v] = phase[v], req'[v] = req[v],
           buf'[v] = buf[v], ctx'[v] = ctx[v], reply'[v] = reply[v],
           \A s \in Stores : IsPrefix(file[s], file'[s]),
           \A s \in Stores : lock[s] = v => lock'[s] = v,
           pc[v] = "write" => file'[Target(v)] = file[Target(v)]
    PROVE  WorkerInv(v)'
<1>1. /\ Placed(v) /\ ListInHand(v) /\ DecisionReady(v) /\ ClosureReady(v) /\ Answered(v)
    BY DEF WasherInv, WorkerInv
<1>2. /\ file.decisions \in Seq(Decision) /\ file'.decisions \in Seq(Decision)
      /\ file.evidence \in Seq(Evidence) /\ file'.evidence \in Seq(Evidence)
      /\ IsPrefix(file.decisions, file'.decisions)
      /\ IsPrefix(file.evidence, file'.evidence)
    BY DEF WasherInv, TypeOK, Stores, ListsOf
<1>3. Placed(v)'
    BY <1>1 DEF Placed, InWriter
<1>4. ListInHand(v)'
  <2>1. pc[v] \in {"read", "write"} => Target(v) \in Stores
    BY <1>1 DEF Placed, InWriter, Target, StoreOf, Stores
  <2>2. ASSUME phase[v] = "parsed"
        PROVE  IsPrefix(buf[v], file'[StoreAt[pc[v]]])
    <3> DEFINE s == StoreAt[pc[v]]
    <3>1. s \in Stores /\ buf[v] \in ListsOf[s] /\ IsPrefix(buf[v], file[s])
      BY <1>1, <2>2 DEF ListInHand, StoreAt, Stores
    <3>2. file[s] \in ListsOf[s] /\ file'[s] \in ListsOf[s] /\ IsPrefix(file[s], file'[s])
      BY <3>1 DEF WasherInv, TypeOK
    <3> HIDE DEF s
    <3>3. PICK S : ListsOf[s] = Seq(S)
      BY <3>1, StoresHoldLists
    <3>4. IsPrefix(buf[v], file'[s])
      BY <3>1, <3>2, <3>3, PrefixTransitive
    <3>5. QED
      BY <3>4 DEF s
  <2>3. QED
    BY <1>1, <2>1, <2>2 DEF ListInHand, Target
<1>5. DecisionReady(v)'
  <2>1. \A st : ShownStatus(file.decisions, st, req[v].res)
                   => ShownStatus(file'.decisions, st, req[v].res)
    BY <1>2, GroundsStay
  <2>2. QED
    BY <1>1, <2>1 DEF DecisionReady, InWriter
<1>6. ClosureReady(v)'
  <2>1. Verified(file.evidence, req[v].res) \subseteq Verified(file'.evidence, req[v].res)
    BY <1>2, VerifiedStays
  <2>2. /\ \A d : OwnDecision(file.decisions, d, req[v].res)
                      => OwnDecision(file'.decisions, d, req[v].res)
        /\ TerminalSeen(file.decisions, req[v].res) => TerminalSeen(file'.decisions, req[v].res)
    BY <1>2, GroundsStay
  <2>3. QED
    BY <1>1, <2>1, <2>2 DEF ClosureReady, InWriter
<1>7. Answered(v)'
  <2>1. ASSUME req[v].op \in DOMAIN StoreOf
        PROVE  \A i \in DOMAIN file[Target(v)] :
                   i \in DOMAIN file'[Target(v)] /\ file'[Target(v)][i] = file[Target(v)][i]
    <3>1. Target(v) \in Stores
      BY <2>1 DEF Target, StoreOf, Stores
    <3>2. /\ file[Target(v)] \in ListsOf[Target(v)] /\ file'[Target(v)] \in ListsOf[Target(v)]
          /\ IsPrefix(file[Target(v)], file'[Target(v)])
      BY <3>1 DEF WasherInv, TypeOK
    <3>3. QED
      BY <3>1, <3>2, PrefixPoints DEF ListsOf, Stores
  <2>2. QED
    BY <1>1, <2>1 DEF Answered, Target
<1>8. QED
    BY <1>3, <1>4, <1>5, <1>6, <1>7 DEF WorkerInv

(* What holds of the files goes on holding while they stay.                *)
LEMMA SameFiles ==
    ASSUME WasherInv, UNCHANGED file
    PROVE  FileInv'
BY DEF WasherInv, FileInv, DecisionsGrounded, KeysNameOneDecision, OneClosure,
       ClosuresGrounded, OnlyImportedIsVerified

(* A worker that a step of another leaves where it is, and the files too.  *)
LEMMA OthersKeepSame ==
    ASSUME WasherInv, TypeOK', NEW v \in Workers, UNCHANGED file,
           pc'[v] = pc[v], phase'[v] = phase[v], req'[v] = req[v],
           buf'[v] = buf[v], ctx'[v] = ctx[v], reply'[v] = reply[v],
           \A s \in Stores : lock[s] = v => lock'[s] = v
    PROVE  WorkerInv(v)'
<1>1. ASSUME NEW s \in Stores PROVE IsPrefix(file[s], file'[s])
  <2>1. PICK S : ListsOf[s] = Seq(S)
    BY StoresHoldLists
  <2>2. QED
    BY <2>1, PrefixSelf DEF WasherInv, TypeOK
<1>2. QED
    BY <1>1, OthersKeep

-----------------------------------------------------------------------------
(* Requests that end, and requests that move on.                           *)

(* Caches that are kept or emptied, and locks that are kept or released.   *)
CachesEmptied ==
    /\ DOMAIN cache' = Stores
    /\ \A s \in Stores : cache'[s] = cache[s] \/ cache'[s] = Miss

(* A request that ends with a reply the files bear out.                    *)
LEMMA FinishKeeps ==
    ASSUME WasherInv, NEW w \in Workers, NEW a \in Reply, Finish(w, a),
           UNCHANGED file, CachesEmptied, Release(w) \/ UNCHANGED lock,
           req' \in [Workers -> Requests \cup {NoRequest}],
           \A v \in Workers \ {w} : req'[v] = req[v],
           a.kind \in {"created", "replayed"} =>
               /\ req'[w].op \in DOMAIN StoreOf
               /\ \E i \in DOMAIN file[StoreOf[req'[w].op]] :
                      file[StoreOf[req'[w].op]][i] = a.item
               /\ req'[w].op = "decide" => a.item.req.key = req'[w].key
    PROVE  WasherInv'
<1>1. TypeOK /\ CacheInv /\ w \in Workers
    BY DEF WasherInv
<1>2. TypeOK'
  <2>1. "idle" \in PC /\ <<>> \in Seq(Decision)
    BY DEF PC
  <2>2. NoContext \in Context
    BY DEF NoContext, Context, WasherStatus, ActiveStatuses
  <2>3. lock' \in [Stores -> Workers \cup {NoWorker}]
    BY <1>1 DEF TypeOK, Release
  <2>4. /\ pc' \in [Workers -> PC] /\ phase' \in [Workers -> {"test", "parsed", "return"}]
        /\ buf' \in [Workers -> Seq(Decision) \cup Seq(Evidence) \cup Seq(Closure)]
        /\ ctx' \in [Workers -> Context] /\ reply' \in [Workers -> Reply]
    BY <1>1, <2>1, <2>2 DEF TypeOK, Finish
  <2>5. DOMAIN cache' = Stores /\ \A s \in Stores : cache'[s] = Miss \/ cache'[s] \in ListsOf[s]
    BY <1>1 DEF TypeOK, CachesEmptied
  <2>6. QED
    BY <1>1, <2>3, <2>4, <2>5 DEF TypeOK
<1>3. CacheInv'
    BY <1>1 DEF CacheInv, CachesEmptied
<1>4. ASSUME NEW v \in Workers PROVE WorkerInv(v)'
  <2>1. CASE v = w
    <3>1. /\ pc'[w] = "idle" /\ phase'[w] = "test" /\ ctx'[w] = NoContext /\ reply'[w] = a
      BY <1>1 DEF TypeOK, Finish
    <3>2. NoContext.decision = NoItem
      BY DEF NoContext
    <3>3. Placed(w)' /\ ListInHand(w)' /\ DecisionReady(w)' /\ ClosureReady(w)'
      BY <3>1, <3>2 DEF Placed, ListInHand, DecisionReady, ClosureReady, InWriter
    <3>4. Answered(w)'
      BY <3>1 DEF Answered, Target
    <3>5. QED
      BY <2>1, <3>3, <3>4 DEF WorkerInv
  <2>2. CASE v # w
    <3>1. /\ pc'[v] = pc[v] /\ phase'[v] = phase[v] /\ buf'[v] = buf[v]
          /\ ctx'[v] = ctx[v] /\ reply'[v] = reply[v] /\ req'[v] = req[v]
      BY <1>1, <2>2 DEF TypeOK, Finish
    <3>2. \A s \in Stores : lock[s] = v => lock'[s] = v
      BY <1>1, <2>2 DEF TypeOK, Release
    <3>3. QED
      BY <1>2, <3>1, <3>2, OthersKeepSame
  <2>3. QED
    BY <2>1, <2>2
<1>5. QED
    BY <1>2, <1>3, <1>4, SameFiles DEF WasherInv

(* A request that is refused says nothing of the files.                    *)
LEMMA RefuseKeeps ==
    ASSUME WasherInv, NEW w \in Workers, NEW kind \in ReplyKind \ {"created", "replayed"},
           Refuse(w, kind), UNCHANGED file, CachesEmptied, Release(w) \/ UNCHANGED lock,
           req' \in [Workers -> Requests \cup {NoRequest}],
           \A v \in Workers \ {w} : req'[v] = req[v]
    PROVE  WasherInv'
<1>1. /\ Answer(kind, NoItem) \in Reply /\ Answer(kind, NoItem).kind = kind
      /\ Finish(w, Answer(kind, NoItem))
    BY DEF Answer, Reply, Refuse
<1>2. QED
    BY <1>1, FinishKeeps

(* A request that goes on with what it has established so far.             *)
LEMMA GotoKeeps ==
    ASSUME WasherInv, NEW w \in Workers, NEW point \in PC \ {"read", "write"},
           Goto(w, point), UNCHANGED <<file, cache, lock>>,
           req' \in [Workers -> Requests \cup {NoRequest}],
           \A v \in Workers \ {w} : req'[v] = req[v],
           NEW c \in Context, ctx' = [ctx EXCEPT ![w] = c],
           Placed(w)', DecisionReady(w)', ClosureReady(w)'
    PROVE  WasherInv'
<1>1. TypeOK /\ CacheInv /\ w \in Workers
    BY DEF WasherInv
<1>2. TypeOK'
  <2>1. NoReply \in Reply
    BY DEF NoReply, Answer, Reply, ReplyKind
  <2>2. /\ pc' \in [Workers -> PC] /\ phase' \in [Workers -> {"test", "parsed", "return"}]
        /\ buf' \in [Workers -> Seq(Decision) \cup Seq(Evidence) \cup Seq(Closure)]
        /\ ctx' \in [Workers -> Context] /\ reply' \in [Workers -> Reply]
    BY <1>1, <2>1 DEF TypeOK, Goto
  <2>3. QED
    BY <1>1, <2>2 DEF TypeOK
<1>3. CacheInv'
    BY <1>1 DEF CacheInv
<1>4. ASSUME NEW v \in Workers PROVE WorkerInv(v)'
  <2>1. CASE v = w
    <3>1. pc'[w] = point /\ phase'[w] = "test" /\ reply'[w] = NoReply
      BY <1>1 DEF TypeOK, Goto
    <3>2. ListInHand(w)'
      BY <3>1 DEF ListInHand
    <3>3. Answered(w)'
      BY <3>1 DEF Answered, NoReply, Answer
    <3>4. QED
      BY <2>1, <3>2, <3>3 DEF WorkerInv
  <2>2. CASE v # w
    <3>1. /\ pc'[v] = pc[v] /\ phase'[v] = phase[v] /\ buf'[v] = buf[v]
          /\ ctx'[v] = ctx[v] /\ reply'[v] = reply[v] /\ req'[v] = req[v]
      BY <1>1, <2>2 DEF TypeOK, Goto
    <3>2. QED
      BY <1>2, <3>1, OthersKeepSame
  <2>3. QED
    BY <2>1, <2>2
<1>5. QED
    BY <1>2, <1>3, <1>4, SameFiles DEF WasherInv

-----------------------------------------------------------------------------
(* _load.                                                                  *)

(* What a request has loaded is typed and an earlier state of the file.    *)
LEMMA LoadedView ==
    ASSUME WasherInv, NEW w \in Workers, pc[w] \in DOMAIN StoreAt,
           cache[StoreAt[pc[w]]] # Miss
    PROVE  /\ View(w) \in ListsOf[StoreAt[pc[w]]]
           /\ file[StoreAt[pc[w]]] \in ListsOf[StoreAt[pc[w]]]
           /\ IsPrefix(View(w), file[StoreAt[pc[w]]])
<1>1. StoreAt[pc[w]] \in Stores
    BY DEF StoreAt, Stores
<1>2. QED
    BY <1>1 DEF WasherInv, TypeOK, CacheInv, View

(* _load: the cache as it is, or a parse of the file as it is now.         *)
LEMMA TestCacheKeeps ==
    ASSUME WasherInv, NEW w \in Workers, TestCache(w)
    PROVE  WasherInv'
<1> DEFINE s == StoreAt[pc[w]]
<1>1. /\ TypeOK /\ CacheInv /\ pc[w] \in DOMAIN StoreAt /\ s \in Stores
      /\ UNCHANGED <<file, cache, lock, pc, req, ctx, reply>>
    BY DEF WasherInv, TestCache, StoreAt, Stores
<1>2. file[s] \in ListsOf[s] /\ IsPrefix(file[s], file[s])
  <2>1. PICK S : ListsOf[s] = Seq(S)
    BY <1>1, StoresHoldLists
  <2>2. file[s] \in ListsOf[s]
    BY <1>1 DEF TypeOK
  <2> HIDE DEF s
  <2>3. QED
    BY <2>1, <2>2, PrefixSelf
<1>3. file[s] \in Seq(Decision) \cup Seq(Evidence) \cup Seq(Closure)
    BY <1>1, <1>2 DEF ListsOf, Stores
<1>4. \/ phase' = [phase EXCEPT ![w] = "return"] /\ UNCHANGED buf
      \/ phase' = [phase EXCEPT ![w] = "parsed"] /\ buf' = [buf EXCEPT ![w] = file[s]]
    BY DEF TestCache
<1> HIDE DEF s
<1>5. TypeOK'
  <2>1. /\ phase' \in [Workers -> {"test", "parsed", "return"}]
        /\ buf' \in [Workers -> Seq(Decision) \cup Seq(Evidence) \cup Seq(Closure)]
    BY <1>1, <1>3, <1>4 DEF TypeOK
  <2>2. QED
    BY <1>1, <2>1 DEF TypeOK
<1>6. ASSUME NEW v \in Workers PROVE WorkerInv(v)'
  <2>1. CASE v = w
    <3>1. pc[w] \notin {"read", "write"}
      BY <1>1 DEF StoreAt
    <3>2. ListInHand(w)'
      BY <1>1, <1>2, <1>4, <3>1 DEF TypeOK, ListInHand, s
    <3>3. /\ Placed(w)' /\ DecisionReady(w)' /\ ClosureReady(w)' /\ Answered(w)'
      BY <1>1 DEF WasherInv, WorkerInv, Placed, DecisionReady, ClosureReady, Answered,
                  InWriter, Target
    <3>4. QED
      BY <2>1, <3>2, <3>3 DEF WorkerInv
  <2>2. CASE v # w
    <3>1. phase'[v] = phase[v] /\ buf'[v] = buf[v]
      BY <1>1, <1>4, <2>2 DEF TypeOK
    <3>2. QED
      BY <1>1, <1>5, <3>1, OthersKeepSame
  <2>3. QED
    BY <2>1, <2>2
<1>7. CacheInv'
    BY <1>1 DEF CacheInv
<1>8. QED
    BY <1>1, <1>5, <1>6, <1>7, SameFiles DEF WasherInv

(* _load: what was parsed becomes the cache, however old it is by now.     *)
LEMMA SetCacheKeeps ==
    ASSUME WasherInv, NEW w \in Workers, SetCache(w)
    PROVE  WasherInv'
<1> DEFINE s == StoreAt[pc[w]]
<1>1. /\ TypeOK /\ CacheInv /\ pc[w] \in DOMAIN StoreAt /\ s \in Stores
      /\ cache' = [cache EXCEPT ![s] = buf[w]]
      /\ phase' = [phase EXCEPT ![w] = "return"] /\ buf' = [buf EXCEPT ![w] = <<>>]
      /\ UNCHANGED <<file, lock, pc, req, ctx, reply>>
    BY DEF WasherInv, SetCache, StoreAt, Stores
<1>2. buf[w] \in ListsOf[s] /\ IsPrefix(buf[w], file[s])
    BY DEF WasherInv, WorkerInv, ListInHand, SetCache
<1> HIDE DEF s
<1>3. TypeOK'
  <2>1. <<>> \in Seq(Decision)
    OBVIOUS
  <2>2. /\ phase' \in [Workers -> {"test", "parsed", "return"}]
        /\ buf' \in [Workers -> Seq(Decision) \cup Seq(Evidence) \cup Seq(Closure)]
    BY <1>1, <2>1 DEF TypeOK
  <2>3. /\ DOMAIN cache' = Stores
        /\ \A t \in Stores : cache'[t] = Miss \/ cache'[t] \in ListsOf[t]
    BY <1>1, <1>2 DEF TypeOK
  <2>4. QED
    BY <1>1, <2>2, <2>3 DEF TypeOK
<1>4. CacheInv'
    BY <1>1, <1>2 DEF TypeOK, CacheInv
<1>5. ASSUME NEW v \in Workers PROVE WorkerInv(v)'
  <2>1. CASE v = w
    <3>1. pc[w] \notin {"read", "write"} /\ phase'[w] = "return"
      BY <1>1 DEF TypeOK, StoreAt
    <3>2. ListInHand(w)'
      BY <1>1, <3>1 DEF ListInHand
    <3>3. /\ Placed(w)' /\ DecisionReady(w)' /\ ClosureReady(w)' /\ Answered(w)'
      BY <1>1 DEF WasherInv, WorkerInv, Placed, DecisionReady, ClosureReady, Answered,
                  InWriter, Target
    <3>4. QED
      BY <2>1, <3>2, <3>3 DEF WorkerInv
  <2>2. CASE v # w
    <3>1. phase'[v] = phase[v] /\ buf'[v] = buf[v]
      BY <1>1, <2>2 DEF TypeOK
    <3>2. QED
      BY <1>1, <1>3, <3>1, OthersKeepSame
  <2>3. QED
    BY <2>1, <2>2
<1>6. QED
    BY <1>1, <1>3, <1>4, <1>5, SameFiles DEF WasherInv

(* Steps that change no cache have CachesEmptied at once.                  *)
LEMMA SameCaches ==
    ASSUME WasherInv, UNCHANGED <<cache, req>>
    PROVE  CachesEmptied /\ req' \in [Workers -> Requests \cup {NoRequest}]
BY DEF WasherInv, TypeOK, CachesEmptied

(* _load: the cache was emptied between the test and the return.           *)
LEMMA LoadedNothingKeeps ==
    ASSUME WasherInv, NEW w \in Workers, LoadedNothing(w)
    PROVE  WasherInv'
<1>1. Refuse(w, "server_error") /\ UNCHANGED <<file, cache, lock, req>>
    BY DEF LoadedNothing
<1>2. "server_error" \in ReplyKind \ {"created", "replayed"}
    BY DEF ReplyKind
<1>3. QED
    BY <1>1, <1>2, SameCaches, RefuseKeeps

-----------------------------------------------------------------------------
(* decide_resolution.                                                      *)

(* The decision that a list shows for a key.                               *)
LEMMA FoundByKey ==
    ASSUME NEW l \in Seq(Decision), NEW k, WithKey(l, k) # {}
    PROVE  /\ LastOf(WithKey(l, k)) \in DOMAIN l
           /\ l[LastOf(WithKey(l, k))] \in Decision
           /\ l[LastOf(WithKey(l, k))].req.key = k
<1>1. Len(l) \in Nat /\ DOMAIN l = 1 .. Len(l) /\ WithKey(l, k) \in SUBSET (1 .. Len(l))
    BY DEF WithKey
<1>2. LastOf(WithKey(l, k)) \in WithKey(l, k)
    BY <1>1, LastOfIsLast
<1>3. QED
    BY <1>1, <1>2 DEF WithKey

(* decide_resolution: a decision with this key is replayed or refused.     *)
LEMMA FindReplayKeeps ==
    ASSUME WasherInv, NEW w \in Workers, FindReplay(w)
    PROVE  WasherInv'
<1> DEFINE found == WithKey(View(w), req[w].key)
           d == View(w)[LastOf(found)]
<1>1. /\ pc[w] = "find" /\ phase[w] = "return" /\ cache["decisions"] # Miss
      /\ UNCHANGED <<file, cache, lock, req>> /\ req[w].op = "decide" /\ req[w] \in Requests
    BY DEF FindReplay, Loaded, StoreAt, WasherInv, WorkerInv, Placed
<1>2. /\ View(w) \in Seq(Decision) /\ file.decisions \in Seq(Decision)
      /\ IsPrefix(View(w), file.decisions)
    BY <1>1, LoadedView DEF StoreAt, ListsOf
<1>3. CASE found # {} /\ SameRequest(d, req[w])
  <2>1. Finish(w, Answer("replayed", d))
    BY <1>3 DEF FindReplay
  <2>2. LastOf(found) \in DOMAIN View(w) /\ d \in Decision /\ d.req.key = req[w].key
    BY <1>2, <1>3, FoundByKey
  <2>3. \E i \in DOMAIN file.decisions : file.decisions[i] = d
    <3>1. PICK i \in DOMAIN View(w) : View(w)[i] = d
      BY <2>2
    <3> HIDE DEF d
    <3>2. i \in DOMAIN file.decisions /\ file.decisions[i] = View(w)[i]
      BY <1>2, PrefixPoints
    <3>3. QED
      BY <3>1, <3>2
  <2> HIDE DEF d, found
  <2>4. /\ Answer("replayed", d) \in Reply /\ Answer("replayed", d).kind = "replayed"
        /\ Answer("replayed", d).item = d
    BY <2>2 DEF Answer, Reply, ReplyKind
  <2>5. /\ req'[w].op \in DOMAIN StoreOf /\ StoreOf[req'[w].op] = "decisions"
    BY <1>1 DEF StoreOf
  <2>6. \E i \in DOMAIN file[StoreOf[req'[w].op]] : file[StoreOf[req'[w].op]][i] = d
    BY <2>3, <2>5
  <2>7. QED
    BY <1>1, <2>1, <2>2, <2>4, <2>5, <2>6, SameCaches, FinishKeeps
<1>4. CASE Refuse(w, "conflict") \/ Refuse(w, "not_found")
  <2>1. {"conflict", "not_found"} \subseteq ReplyKind \ {"created", "replayed"}
    BY DEF ReplyKind
  <2>2. QED
    BY <1>1, <1>4, <2>1, SameCaches, RefuseKeeps
<1>5. CASE Goto(w, "status") /\ UNCHANGED ctx /\ req[w].res \in Resolutions
  <2>1. TypeOK /\ WorkerInv(w) /\ pc' = [pc EXCEPT ![w] = "status"] /\ "status" \in PC
    BY <1>5 DEF WasherInv, Goto, PC, StoreAt
  <2>2. ctx[w] \in Context /\ ctx' = [ctx EXCEPT ![w] = ctx[w]] /\ pc'[w] = "status"
    BY <1>5, <2>1 DEF TypeOK
  <2>3. Placed(w)' /\ DecisionReady(w)' /\ ClosureReady(w)'
    BY <1>1, <1>5, <2>1, <2>2 DEF WorkerInv, Placed, DecisionReady, ClosureReady, InWriter
  <2>4. QED
    BY <1>1, <1>5, <2>1, <2>2, <2>3, SameCaches, GotoKeeps
<1>6. QED
    BY <1>3, <1>4, <1>5 DEF FindReplay

(* decide_resolution: the status the request validates against.            *)
LEMMA ComputeStatusKeeps ==
    ASSUME WasherInv, NEW w \in Workers, ComputeStatus(w)
    PROVE  WasherInv'
<1> DEFINE previous == EffectiveStatus(View(w), req[w].res)
           verdict == ValidateDecision(previous, req[w])
<1>1. /\ pc[w] = "status" /\ cache["decisions"] # Miss
      /\ UNCHANGED <<file, cache, lock, req>> /\ req[w].op = "decide"
    BY DEF ComputeStatus, Loaded, StoreAt, WasherInv, WorkerInv, Placed
<1>2. /\ View(w) \in Seq(Decision) /\ file.decisions \in Seq(Decision)
      /\ IsPrefix(View(w), file.decisions)
    BY <1>1, LoadedView DEF StoreAt, ListsOf
<1>3. CASE verdict # "ok"
  <2>1. Refuse(w, verdict) /\ verdict \in ReplyKind \ {"created", "replayed"}
    BY <1>3 DEF ComputeStatus, ValidateDecision, ReplyKind
  <2> HIDE DEF verdict, previous
  <2>2. QED
    BY <1>1, <2>1, SameCaches, RefuseKeeps
<1>4. CASE verdict = "ok"
  <2>1. /\ Goto(w, "lock") /\ ctx' = [ctx EXCEPT ![w].previous = previous]
    BY <1>4 DEF ComputeStatus
  <2>2. ShownStatus(file.decisions, previous, req[w].res)
    <3>1. Len(View(w)) \in 0 .. Len(View(w)) /\ Len(View(w)) <= Len(file.decisions)
      BY <1>2, PrefixPoints
    <3>2. previous = StatusAfter(file.decisions, Len(View(w)), req[w].res)
      BY <1>2, <3>1, StatusOfPrefix DEF EffectiveStatus
    <3>3. Len(View(w)) \in 0 .. Len(file.decisions)
      BY <1>2, <3>1
    <3> HIDE DEF previous
    <3>4. QED
      BY <3>2, <3>3 DEF ShownStatus
  <2>3. previous \in WasherStatus
    <3> HIDE DEF previous
    <3>1. QED
      BY <1>4 DEF verdict, ValidateDecision, AllowedTransitions, WasherStatus, ActiveStatuses
  <2>4. verdict = ValidateDecision(previous, req[w])
    OBVIOUS
  <2> HIDE DEF previous, verdict
  <2> DEFINE c == [ctx[w] EXCEPT !.previous = previous]
  <2>5. TypeOK /\ WorkerInv(w) /\ pc' = [pc EXCEPT ![w] = "lock"] /\ "lock" \in PC
    BY <2>1 DEF WasherInv, Goto, PC
  <2>6. /\ c \in Context /\ ctx' = [ctx EXCEPT ![w] = c] /\ pc'[w] = "lock"
        /\ ctx'[w].previous = previous /\ ctx'[w].decision = ctx[w].decision
    <3>1. ctx[w] \in Context
      BY <2>5 DEF TypeOK
    <3>2. c \in Context /\ c.previous = previous /\ c.decision = ctx[w].decision
      BY <2>3, <3>1 DEF Context
    <3>3. ctx' = [ctx EXCEPT ![w] = c] /\ pc'[w] = "lock"
      BY <2>1, <2>5 DEF TypeOK
    <3> HIDE DEF c
    <3>4. ctx'[w] = c
      BY <2>5, <3>3 DEF TypeOK
    <3>5. QED
      BY <3>2, <3>3, <3>4
  <2>7. DecisionReady(w)'
    BY <1>1, <1>4, <2>2, <2>4, <2>6 DEF DecisionReady
  <2>8. Placed(w)' /\ ClosureReady(w)'
    BY <1>1, <2>5, <2>6 DEF WorkerInv, Placed, ClosureReady, InWriter, StoreOf
  <2> HIDE DEF c
  <2>9. QED
    BY <1>1, <2>1, <2>5, <2>6, <2>7, <2>8, SameCaches, GotoKeeps
<1>5. QED
    BY <1>3, <1>4

-----------------------------------------------------------------------------
(* close_resolution and the readiness check.                               *)

(* close_resolution: is there a closure already?                           *)
LEMMA FindClosureKeeps ==
    ASSUME WasherInv, NEW w \in Workers, FindClosure(w)
    PROVE  WasherInv'
<1>1. /\ pc[w] = "closed" /\ UNCHANGED <<file, cache, lock, req>>
      /\ TypeOK /\ WorkerInv(w)
    BY DEF FindClosure, Loaded, WasherInv
<1>2. CASE Refuse(w, "duplicate_closure")
  <2>1. "duplicate_closure" \in ReplyKind \ {"created", "replayed"}
    BY DEF ReplyKind
  <2>2. QED
    BY <1>1, <1>2, <2>1, SameCaches, RefuseKeeps
<1>3. CASE Goto(w, "current") /\ UNCHANGED ctx
  <2>1. /\ pc'[w] = "current" /\ "current" \in PC
        /\ ctx[w] \in Context /\ ctx' = [ctx EXCEPT ![w] = ctx[w]]
    BY <1>1, <1>3 DEF TypeOK, Goto, PC, StoreAt
  <2>2. Placed(w)' /\ DecisionReady(w)' /\ ClosureReady(w)'
    BY <1>1, <1>3, <2>1 DEF WorkerInv, Placed, DecisionReady, ClosureReady, InWriter
  <2>3. QED
    BY <1>1, <1>3, <2>1, <2>2, SameCaches, GotoKeeps
<1>4. QED
    BY <1>2, <1>3 DEF FindClosure

(* A terminal status is that of a decision: the source ledger has none.    *)
LEMMA TerminalWasDecided ==
    ASSUME NEW l \in Seq(Decision), NEW res \in Resolutions,
           EffectiveStatus(l, res) \in TerminalStatuses
    PROVE  TerminalSeen(l, res)
<1> DEFINE idx == DecisionsUpTo(l, Len(l), res)
<1>1. Len(l) \in Nat /\ DOMAIN l = 1 .. Len(l) /\ idx \in SUBSET (1 .. Len(l))
    BY DEF DecisionsUpTo
<1>2. idx # {}
    BY SourceAssumption DEF EffectiveStatus, StatusAfter, TerminalStatuses
<1>3. LastOf(idx) \in idx /\ EffectiveStatus(l, res) = l[LastOf(idx)].req.new
    BY <1>1, <1>2, LastOfIsLast DEF EffectiveStatus, StatusAfter
<1>4. l[LastOf(idx)].req.res = res
    BY <1>3 DEF DecisionsUpTo
<1>5. QED
    BY <1>1, <1>3, <1>4 DEF TerminalSeen

(* evaluate_closure_readiness: the first load of the decisions.            *)
LEMMA CheckTerminalKeeps ==
    ASSUME WasherInv, NEW w \in Workers, CheckTerminal(w)
    PROVE  WasherInv'
<1> DEFINE terminal == EffectiveStatus(View(w), req[w].res) \in TerminalStatuses
           blocking == (IF SourceStatus[req[w].res] = "blocked_authoritative_source"
                        THEN {"blocked"} ELSE {})
                       \cup (IF terminal THEN {} ELSE {"not_terminal"})
           c == [ctx[w] EXCEPT !.blocking = blocking]
<1>1. /\ pc[w] = "current" /\ cache["decisions"] # Miss
      /\ UNCHANGED <<file, cache, lock, req>>
      /\ Goto(w, IF terminal THEN "terminal" ELSE "evidence")
      /\ ctx' = [ctx EXCEPT ![w].blocking = blocking]
      /\ TypeOK /\ WorkerInv(w)
    BY DEF CheckTerminal, Loaded, StoreAt, WasherInv
<1>2. req[w].op \in {"close", "readiness"} /\ req[w].res \in Resolutions
    BY <1>1 DEF WorkerInv, Placed
<1>3. /\ View(w) \in Seq(Decision) /\ file.decisions \in Seq(Decision)
      /\ IsPrefix(View(w), file.decisions)
    BY <1>1, LoadedView DEF StoreAt, ListsOf
<1>4. terminal => TerminalSeen(file.decisions, req[w].res)
    BY <1>2, <1>3, TerminalWasDecided, GroundsStay
<1>5. ~terminal => "not_terminal" \in blocking
    OBVIOUS
<1>6. c \in Context /\ ctx' = [ctx EXCEPT ![w] = c] /\ c.blocking = blocking
      /\ c.decision = ctx[w].decision
  <2>1. blocking \subseteq {"blocked", "not_terminal", "no_decision", "corrupted", "unverified"}
    OBVIOUS
  <2>2. ctx[w] \in Context
    BY <1>1 DEF TypeOK
  <2>3. ctx' = [ctx EXCEPT ![w] = c]
    BY <1>1
  <2> HIDE DEF blocking
  <2>4. c \in Context /\ c.blocking = blocking /\ c.decision = ctx[w].decision
    BY <2>1, <2>2 DEF Context
  <2>5. QED
    BY <2>3, <2>4
<1> HIDE DEF terminal, blocking
<1>7. /\ pc'[w] = IF terminal THEN "terminal" ELSE "evidence"
      /\ {"terminal", "evidence"} \subseteq PC \ {"read", "write"}
    BY <1>1 DEF TypeOK, Goto, PC, StoreAt
<1>8. ctx'[w] = c
    BY <1>1, <1>6 DEF TypeOK
<1> HIDE DEF c
<1>9. Placed(w)' /\ DecisionReady(w)' /\ ClosureReady(w)'
    BY <1>1, <1>2, <1>4, <1>5, <1>6, <1>7, <1>8
       DEF WorkerInv, Placed, DecisionReady, ClosureReady, InWriter
<1>10. QED
    BY <1>1, <1>6, <1>7, <1>9, SameCaches, GotoKeeps

(* The last decision of a resolution, in a list and so in the file.        *)
LEMMA LastIsOwn ==
    ASSUME NEW l \in Seq(Decision), NEW res, DecisionsUpTo(l, Len(l), res) # {}
    PROVE  OwnDecision(l, LastDecision(l, res), res) /\ LastDecision(l, res) \in Decision
<1> DEFINE idx == DecisionsUpTo(l, Len(l), res)
<1>1. Len(l) \in Nat /\ DOMAIN l = 1 .. Len(l) /\ idx \in SUBSET (1 .. Len(l))
    BY DEF DecisionsUpTo
<1>2. LastOf(idx) \in idx
    BY <1>1, LastOfIsLast
<1>3. l[LastOf(idx)].req.res = res /\ LastOf(idx) \in DOMAIN l
    BY <1>1, <1>2 DEF DecisionsUpTo
<1>4. QED
    BY <1>3 DEF OwnDecision, LastDecision

(* evaluate_closure_readiness: the second load, whose last decision it names.*)
LEMMA PickDecisionKeeps ==
    ASSUME WasherInv, NEW w \in Workers, PickDecision(w)
    PROVE  WasherInv'
<1>1. /\ pc[w] = "terminal" /\ cache["decisions"] # Miss
      /\ UNCHANGED <<file, cache, lock, req>>
      /\ Goto(w, "evidence") /\ TypeOK /\ WorkerInv(w)
    BY DEF PickDecision, Loaded, StoreAt, WasherInv
<1>2. req[w].op \in {"close", "readiness"} /\ req[w].res \in Resolutions
    BY <1>1 DEF WorkerInv, Placed
<1>3. /\ View(w) \in Seq(Decision) /\ file.decisions \in Seq(Decision)
      /\ IsPrefix(View(w), file.decisions)
    BY <1>1, LoadedView DEF StoreAt, ListsOf
<1>4. pc'[w] = "evidence" /\ "evidence" \in PC
    BY <1>1 DEF TypeOK, Goto, PC, StoreAt
<1>5. PICK c \in Context :
          /\ ctx' = [ctx EXCEPT ![w] = c]
          /\ ctx[w].blocking \subseteq c.blocking
          /\ c.decision # NoItem => OwnDecision(file.decisions, c.decision, req[w].res)
  <2>1. CASE DecisionsUpTo(View(w), Len(View(w)), req[w].res) = {}
    <3> DEFINE c == [ctx[w] EXCEPT !.blocking = @ \cup {"no_decision"}]
    <3>1. ctx' = [ctx EXCEPT ![w] = c]
      BY <2>1 DEF PickDecision
    <3>2. ctx[w] \in Context
      BY <1>1 DEF TypeOK
    <3>3. c \in Context /\ ctx[w].blocking \subseteq c.blocking /\ c.decision = ctx[w].decision
      BY <3>2 DEF Context
    <3>4. ctx[w].decision # NoItem => OwnDecision(file.decisions, ctx[w].decision, req[w].res)
      BY <1>1 DEF WorkerInv, ClosureReady
    <3> HIDE DEF c
    <3>5. QED
      BY <3>1, <3>3, <3>4
  <2>2. CASE DecisionsUpTo(View(w), Len(View(w)), req[w].res) # {}
    <3> DEFINE d == LastDecision(View(w), req[w].res)
               c == [ctx[w] EXCEPT !.decision = d]
    <3>1. ctx' = [ctx EXCEPT ![w] = c]
      BY <2>2 DEF PickDecision
    <3>2. ctx[w] \in Context
      BY <1>1 DEF TypeOK
    <3>3. OwnDecision(View(w), d, req[w].res) /\ d \in Decision
      BY <1>3, <2>2, LastIsOwn
    <3>4. OwnDecision(file.decisions, d, req[w].res)
      BY <1>3, <3>3, GroundsStay
    <3> HIDE DEF d
    <3>5. c \in Context /\ c.blocking = ctx[w].blocking /\ c.decision = d
      BY <3>2, <3>3 DEF Context
    <3> HIDE DEF c
    <3>6. QED
      BY <3>1, <3>4, <3>5
  <2>3. QED
    BY <2>1, <2>2
<1>6. ctx'[w] = c
    BY <1>1, <1>5 DEF TypeOK
<1>7. Placed(w)' /\ DecisionReady(w)' /\ ClosureReady(w)'
    BY <1>1, <1>2, <1>4, <1>5, <1>6
       DEF WorkerInv, Placed, DecisionReady, ClosureReady, InWriter
<1>8. QED
    BY <1>1, <1>4, <1>5, <1>7, SameCaches, GotoKeeps

(* The evidence a closure cites is a set of numbers.                       *)
LEMMA VerifiedAreIds ==
    ASSUME NEW l \in Seq(Evidence), NEW res
    PROVE  Verified(l, res) \subseteq Nat
<1>1. \A i \in DOMAIN l : l[i] \in Evidence
    OBVIOUS
<1>2. \A i \in DOMAIN l : l[i].id \in Nat
    BY <1>1 DEF Evidence
<1>3. QED
    BY <1>2 DEF Verified, EvidenceOf

(* evaluate_closure_readiness: the evidence by its status.                 *)
LEMMA ClassifyEvidenceKeeps ==
    ASSUME WasherInv, NEW w \in Workers, ClassifyEvidence(w)
    PROVE  WasherInv'
<1> DEFINE verified == Verified(View(w), req[w].res)
           blocking == ctx[w].blocking
                       \cup (IF Corrupted(View(w), req[w].res) # {} THEN {"corrupted"} ELSE {})
                       \cup (IF verified = {} THEN {"unverified"} ELSE {})
           c == [ctx[w] EXCEPT !.verified = verified, !.blocking = blocking]
<1>1. /\ pc[w] = "evidence" /\ cache["evidence"] # Miss
      /\ UNCHANGED <<file, cache, lock, req>>
      /\ Goto(w, "closure") /\ ctx' = [ctx EXCEPT ![w] = c] /\ TypeOK /\ WorkerInv(w)
    BY DEF ClassifyEvidence, Loaded, StoreAt, WasherInv
<1>2. req[w].op \in {"close", "readiness"} /\ req[w].res \in Resolutions
    BY <1>1 DEF WorkerInv, Placed
<1>3. /\ View(w) \in Seq(Evidence) /\ file.evidence \in Seq(Evidence)
      /\ IsPrefix(View(w), file.evidence)
    BY <1>1, LoadedView DEF StoreAt, ListsOf
<1>4. pc'[w] = "closure" /\ "closure" \in PC
    BY <1>1 DEF TypeOK, Goto, PC, StoreAt
<1>5. verified \subseteq Verified(file.evidence, req[w].res)
    BY <1>3, VerifiedStays
<1>6. verified \in SUBSET Nat
    BY <1>3, VerifiedAreIds
<1>7. "unverified" \in blocking \/ verified # {}
    OBVIOUS
<1>8. /\ ctx[w].blocking \subseteq blocking
      /\ blocking \subseteq ctx[w].blocking \cup {"corrupted", "unverified"}
    OBVIOUS
<1> HIDE DEF verified, blocking
<1>9. /\ c \in Context /\ c.verified = verified /\ c.blocking = blocking
      /\ c.decision = ctx[w].decision
  <2>1. ctx[w] \in Context
    BY <1>1 DEF TypeOK
  <2>2. blocking \subseteq {"blocked", "not_terminal", "no_decision", "corrupted", "unverified"}
    BY <1>8, <2>1 DEF Context
  <2>3. QED
    BY <1>6, <2>1, <2>2 DEF Context
<1>10. ctx'[w] = c
    BY <1>1, <1>9 DEF TypeOK
<1> HIDE DEF c
<1>11. Placed(w)' /\ DecisionReady(w)' /\ ClosureReady(w)'
    BY <1>1, <1>2, <1>4, <1>5, <1>7, <1>8, <1>9, <1>10
       DEF WorkerInv, Placed, DecisionReady, ClosureReady, InWriter
<1>12. QED
    BY <1>1, <1>4, <1>9, <1>11, SameCaches, GotoKeeps

(* close_resolution: goes on only when nothing blocks.                     *)
LEMMA DecideClosureKeeps ==
    ASSUME WasherInv, NEW w \in Workers, DecideClosure(w)
    PROVE  WasherInv'
<1>1. /\ pc[w] = "closure" /\ UNCHANGED <<file, cache, lock, req>>
      /\ TypeOK /\ WorkerInv(w)
    BY DEF DecideClosure, Loaded, WasherInv
<1>2. ASSUME NEW kind \in {"readiness", "not_ready", "server_error", "integrity_error"},
             Refuse(w, kind)
      PROVE  WasherInv'
  <2>1. kind \in ReplyKind \ {"created", "replayed"}
    BY DEF ReplyKind
  <2>2. QED
    BY <1>1, <1>2, <2>1, SameCaches, RefuseKeeps
<1>3. CASE /\ Goto(w, "lock") /\ UNCHANGED ctx
           /\ req[w].op # "readiness"
           /\ ctx[w].blocking = {} /\ ctx[w].decision # NoItem
  <2>1. /\ pc'[w] = "lock" /\ "lock" \in PC
        /\ ctx[w] \in Context /\ ctx' = [ctx EXCEPT ![w] = ctx[w]]
    BY <1>1, <1>3 DEF TypeOK, Goto, PC
  <2>2. req[w].op = "close"
    BY <1>1, <1>3 DEF WorkerInv, Placed
  <2>3. /\ TerminalSeen(file.decisions, req[w].res)
        /\ ctx[w].verified # {}
    BY <1>1, <1>3 DEF WorkerInv, ClosureReady
  <2>4. Placed(w)' /\ DecisionReady(w)' /\ ClosureReady(w)'
    BY <1>1, <1>3, <2>1, <2>2, <2>3
       DEF WorkerInv, Placed, DecisionReady, ClosureReady, InWriter, StoreOf
  <2>5. QED
    BY <1>1, <1>3, <2>1, <2>4, SameCaches, GotoKeeps
<1>4. QED
  <2> DEFINE blocking == ctx[w].blocking
                         \cup (IF HasClosure(View(w), req[w].res) THEN {"closed"} ELSE {})
  <2>1. \/ \E kind \in {"readiness", "not_ready", "server_error", "integrity_error"} :
               Refuse(w, kind)
        \/ /\ Goto(w, "lock") /\ UNCHANGED ctx
           /\ req[w].op # "readiness" /\ blocking = {} /\ ctx[w].decision # NoItem
    BY DEF DecideClosure
  <2>2. QED
    BY <1>2, <1>3, <2>1

(* A read that answers.                                                    *)
LEMMA ShowKeeps ==
    ASSUME WasherInv, NEW w \in Workers, Show(w)
    PROVE  WasherInv'
<1>1. /\ Refuse(w, "listed") \/ Refuse(w, "integrity_error")
      /\ UNCHANGED <<file, cache, lock, req>>
    BY DEF Show
<1>2. {"listed", "integrity_error"} \subseteq ReplyKind \ {"created", "replayed"}
    BY DEF ReplyKind
<1>3. QED
    BY <1>1, <1>2, SameCaches, RefuseKeeps

-----------------------------------------------------------------------------
(* The writes.                                                             *)

(* _locked: the lock was free and is held by one.                          *)
LEMMA EnterLockKeeps ==
    ASSUME WasherInv, NEW w \in Workers, EnterLock(w)
    PROVE  WasherInv'
<1>1. /\ pc[w] = "lock" /\ lock[Target(w)] = NoWorker
      /\ lock' = [lock EXCEPT ![Target(w)] = w] /\ Goto(w, "read")
      /\ UNCHANGED <<file, cache, req, ctx>>
      /\ TypeOK /\ CacheInv /\ WorkerInv(w)
    BY DEF EnterLock, WasherInv
<1>2. Target(w) \in Stores
    BY <1>1 DEF WorkerInv, Placed, InWriter, Target, StoreOf, Stores
<1>3. /\ pc'[w] = "read" /\ phase'[w] = "test" /\ reply'[w] = NoReply
      /\ lock'[Target(w)] = w /\ Target(w)' = Target(w)
    BY <1>1, <1>2 DEF TypeOK, Goto, Target
<1>4. TypeOK'
  <2>1. NoReply \in Reply /\ "read" \in PC
    BY DEF NoReply, Answer, Reply, ReplyKind, PC
  <2>2. /\ pc' \in [Workers -> PC] /\ phase' \in [Workers -> {"test", "parsed", "return"}]
        /\ buf' \in [Workers -> Seq(Decision) \cup Seq(Evidence) \cup Seq(Closure)]
        /\ reply' \in [Workers -> Reply] /\ lock' \in [Stores -> Workers \cup {NoWorker}]
    BY <1>1, <1>2, <2>1 DEF TypeOK, Goto
  <2>3. QED
    BY <1>1, <2>2 DEF TypeOK
<1>5. ASSUME NEW v \in Workers PROVE WorkerInv(v)'
  <2>1. CASE v = w
    <3>1. ListInHand(w)'
      BY <1>3 DEF ListInHand
    <3>2. Answered(w)'
      BY <1>3 DEF Answered, NoReply, Answer
    <3>3. Placed(w)' /\ DecisionReady(w)' /\ ClosureReady(w)'
      BY <1>1, <1>3 DEF WorkerInv, Placed, DecisionReady, ClosureReady, InWriter
    <3>4. QED
      BY <2>1, <3>1, <3>2, <3>3 DEF WorkerInv
  <2>2. CASE v # w
    <3>1. /\ pc'[v] = pc[v] /\ phase'[v] = phase[v] /\ buf'[v] = buf[v]
          /\ reply'[v] = reply[v]
      BY <1>1, <2>2 DEF TypeOK, Goto
    <3>2. \A s \in Stores : lock[s] = v => lock'[s] = v
      BY <1>1, <2>2, WasherNulls DEF TypeOK
    <3>3. QED
      BY <1>1, <1>4, <3>1, <3>2, OthersKeepSame
  <2>3. QED
    BY <2>1, <2>2
<1>6. CacheInv'
    BY <1>1 DEF CacheInv
<1>7. QED
    BY <1>1, <1>4, <1>5, <1>6, SameFiles DEF WasherInv

(* _read_raw: under the lock the list in hand is the file.                 *)
LEMMA ReadRawKeeps ==
    ASSUME WasherInv, NEW w \in Workers, ReadRaw(w)
    PROVE  WasherInv'
<1>1. /\ pc[w] = "read" /\ buf' = [buf EXCEPT ![w] = file[Target(w)]]
      /\ pc' = [pc EXCEPT ![w] = "write"]
      /\ UNCHANGED <<file, cache, lock, phase, req, ctx, reply>>
      /\ TypeOK /\ CacheInv /\ WorkerInv(w)
    BY DEF ReadRaw, WasherInv
<1>2. Target(w) \in Stores /\ lock[Target(w)] = w /\ phase[w] # "parsed"
    BY <1>1 DEF WorkerInv, Placed, ListInHand, InWriter, Target, StoreOf, Stores, StoreAt
<1>3. file[Target(w)] \in Seq(Decision) \cup Seq(Evidence) \cup Seq(Closure)
    BY <1>1, <1>2 DEF TypeOK, ListsOf, Stores
<1>4. TypeOK'
  <2>1. /\ pc' \in [Workers -> PC]
        /\ buf' \in [Workers -> Seq(Decision) \cup Seq(Evidence) \cup Seq(Closure)]
    BY <1>1, <1>3 DEF TypeOK, PC
  <2>2. QED
    BY <1>1, <2>1 DEF TypeOK
<1>5. pc'[w] = "write" /\ buf'[w] = file[Target(w)] /\ Target(w)' = Target(w)
    BY <1>1 DEF TypeOK, Target
<1>6. ASSUME NEW v \in Workers PROVE WorkerInv(v)'
  <2>1. CASE v = w
    <3>1. ListInHand(w)'
      BY <1>1, <1>2, <1>5 DEF ListInHand
    <3>2. /\ Placed(w)' /\ DecisionReady(w)' /\ ClosureReady(w)' /\ Answered(w)'
      BY <1>1, <1>5 DEF WorkerInv, Placed, DecisionReady, ClosureReady, Answered, InWriter
    <3>3. QED
      BY <2>1, <3>1, <3>2 DEF WorkerInv
  <2>2. CASE v # w
    <3>1. pc'[v] = pc[v] /\ buf'[v] = buf[v]
      BY <1>1, <2>2 DEF TypeOK
    <3>2. QED
      BY <1>1, <1>4, <3>1, OthersKeepSame
  <2>3. QED
    BY <2>1, <2>2
<1>7. CacheInv'
    BY <1>1 DEF CacheInv
<1>8. QED
    BY <1>1, <1>4, <1>6, <1>7, SameFiles DEF WasherInv

(* reload: an empty cache is an earlier state of every file.               *)
LEMMA ReloadKeeps ==
    ASSUME WasherInv, NEW w \in Workers, Reload(w)
    PROVE  WasherInv'
<1>1. /\ cache' = [cache EXCEPT ![Target(w)] = Miss] /\ Finish(w, reply[w])
      /\ UNCHANGED <<file, lock, req>> /\ TypeOK /\ WorkerInv(w)
    BY DEF Reload, WasherInv
<1>2. CachesEmptied /\ reply[w] \in Reply /\ req' \in [Workers -> Requests \cup {NoRequest}]
    BY <1>1 DEF TypeOK, CachesEmptied
<1>3. reply[w].kind \in {"created", "replayed"} =>
          /\ req'[w].op \in DOMAIN StoreOf
          /\ \E i \in DOMAIN file[StoreOf[req'[w].op]] :
                 file[StoreOf[req'[w].op]][i] = reply[w].item
          /\ req'[w].op = "decide" => reply[w].item.req.key = req'[w].key
    BY <1>1 DEF WorkerInv, Answered, Target
<1>4. QED
    BY <1>1, <1>2, <1>3, FinishKeeps

(* An OSError releases the lock and leaves the file as it was.             *)
LEMMA FileErrorKeeps ==
    ASSUME WasherInv, NEW w \in Workers, FileError(w)
    PROVE  WasherInv'
<1>1. Refuse(w, "server_error") /\ Release(w) /\ UNCHANGED <<file, cache, req>>
    BY DEF FileError
<1>2. "server_error" \in ReplyKind \ {"created", "replayed"}
    BY DEF ReplyKind
<1>3. QED
    BY <1>1, <1>2, SameCaches, RefuseKeeps

(* A restart keeps the files and empties everything else.                  *)
LEMMA CrashKeeps ==
    ASSUME WasherInv, Crash
    PROVE  WasherInv'
<1>1. TypeOK /\ UNCHANGED <<file, req>>
    BY DEF WasherInv, Crash
<1>2. TypeOK'
  <2>1. /\ NoReply \in Reply /\ "idle" \in PC /\ <<>> \in Seq(Decision)
        /\ NoContext \in Context
    BY DEF NoReply, Answer, Reply, ReplyKind, PC, NoContext, Context, WasherStatus,
           ActiveStatuses
  <2>2. QED
    BY <1>1, <2>1 DEF TypeOK, Crash
<1>3. CacheInv'
    BY DEF CacheInv, Crash
<1>4. ASSUME NEW v \in Workers PROVE WorkerInv(v)'
  <2>1. /\ pc'[v] = "idle" /\ phase'[v] = "test" /\ ctx'[v] = NoContext
        /\ reply'[v] = NoReply /\ NoContext.decision = NoItem
    BY DEF Crash, NoContext
  <2>2. Placed(v)' /\ ListInHand(v)' /\ DecisionReady(v)' /\ ClosureReady(v)' /\ Answered(v)'
    BY <2>1 DEF Placed, ListInHand, DecisionReady, ClosureReady, Answered, InWriter,
                NoReply, Answer
  <2>3. QED
    BY <2>2 DEF WorkerInv
<1>5. QED
    BY <1>1, <1>2, <1>3, <1>4, SameFiles DEF WasherInv

-----------------------------------------------------------------------------
(* What one more item leaves true of the three lists.                      *)

Grounded(l) ==
    \A i \in DOMAIN l :
        /\ \E n \in 0 .. i - 1 : l[i].previous = StatusAfter(l, n, l[i].req.res)
        /\ ValidateDecision(l[i].previous, l[i].req) = "ok"

(* Where the records of an appended list are.                              *)
LEMMA AppendedAt ==
    ASSUME NEW S, NEW l \in Seq(S), NEW e \in S
    PROVE  /\ Append(l, e) \in Seq(S) /\ Len(l) \in Nat
           /\ DOMAIN l = 1 .. Len(l) /\ DOMAIN Append(l, e) = 1 .. Len(l) + 1
           /\ \A i \in DOMAIN l : i \in DOMAIN Append(l, e) /\ Append(l, e)[i] = l[i]
           /\ Append(l, e)[Len(l) + 1] = e /\ Len(l) + 1 \in DOMAIN Append(l, e)
           /\ \A i \in DOMAIN Append(l, e) : i \in DOMAIN l \/ i = Len(l) + 1
           /\ IsPrefix(l, Append(l, e))
<1>1. IsPrefix(l, Append(l, e))
    BY PrefixSelf, PrefixAppend
<1>2. QED
    BY <1>1

(* An appended decision leaves the others grounded and the keys apart.     *)
LEMMA GroundedAppend ==
    ASSUME NEW l \in Seq(Decision), NEW d \in Decision, Grounded(l),
           ShownStatus(l, d.previous, d.req.res), ValidateDecision(d.previous, d.req) = "ok"
    PROVE  Grounded(Append(l, d))
<1> DEFINE m == Append(l, d)
<1>1. /\ m \in Seq(Decision) /\ Len(l) \in Nat /\ DOMAIN l = 1 .. Len(l)
      /\ \A i \in DOMAIN l : m[i] = l[i]
      /\ m[Len(l) + 1] = d
      /\ \A i \in DOMAIN m : i \in DOMAIN l \/ i = Len(l) + 1
      /\ IsPrefix(l, m)
    BY AppendedAt
<1> HIDE DEF m
<1>2. \A n \in 0 .. Len(l) : \A res : StatusAfter(m, n, res) = StatusAfter(l, n, res)
    BY <1>1, StatusOfPrefix
<1>3. SUFFICES ASSUME NEW i \in DOMAIN m
               PROVE  /\ \E n \in 0 .. i - 1 : m[i].previous = StatusAfter(m, n, m[i].req.res)
                      /\ ValidateDecision(m[i].previous, m[i].req) = "ok"
    BY DEF Grounded, m
<1>4. CASE i \in DOMAIN l
  <2>1. PICK n \in 0 .. i - 1 : l[i].previous = StatusAfter(l, n, l[i].req.res)
    BY <1>4 DEF Grounded
  <2>2. n \in 0 .. Len(l)
    BY <1>1, <1>4
  <2>3. m[i].previous = StatusAfter(m, n, m[i].req.res)
    BY <1>1, <1>2, <1>4, <2>1, <2>2
  <2>4. ValidateDecision(m[i].previous, m[i].req) = "ok"
    BY <1>1, <1>4 DEF Grounded
  <2>5. QED
    BY <2>3, <2>4
<1>5. CASE i = Len(l) + 1
  <2>1. PICK n \in 0 .. Len(l) : d.previous = StatusAfter(l, n, d.req.res)
    BY DEF ShownStatus
  <2>2. n \in 0 .. i - 1 /\ m[i] = d
    BY <1>1, <1>5
  <2>3. d.previous = StatusAfter(m, n, d.req.res)
    BY <1>2, <2>1
  <2>4. QED
    BY <2>2, <2>3
<1>6. QED
    BY <1>1, <1>4, <1>5

(* The item a request writes is typed, and legal or founded.               *)
LEMMA WrittenItem ==
    ASSUME WasherInv, NEW w \in Workers, pc[w] = "write"
    PROVE  /\ Target(w) \in Stores /\ lock[Target(w)] = w /\ buf[w] = file[Target(w)]
           /\ req[w] \in Requests /\ req[w].op \in {"decide", "evidence", "close"}
           /\ req[w].op = "decide" =>
                 /\ Target(w) = "decisions" /\ NewDecision(w) \in Decision
                 /\ ShownStatus(file.decisions, NewDecision(w).previous, NewDecision(w).req.res)
                 /\ ValidateDecision(NewDecision(w).previous, NewDecision(w).req) = "ok"
                 /\ NewDecision(w).req = req[w]
           /\ req[w].op = "evidence" =>
                 /\ Target(w) = "evidence" /\ NewEvidence(w) \in Evidence
                 /\ NewEvidence(w).status = "unverified"
           /\ req[w].op = "close" =>
                 /\ Target(w) = "closures" /\ NewClosure(w) \in Closure
                 /\ NewClosure(w).res = req[w].res
                 /\ OwnDecision(file.decisions, NewClosure(w).decision, req[w].res)
                 /\ TerminalSeen(file.decisions, req[w].res)
                 /\ NewClosure(w).evidence \subseteq Verified(file.evidence, req[w].res)
                 /\ NewClosure(w).evidence # {}
                 /\ SourceStatus[req[w].res] # "blocked_authoritative_source"
<1>1. /\ TypeOK /\ Placed(w) /\ ListInHand(w) /\ DecisionReady(w) /\ ClosureReady(w)
      /\ InWriter(w)
    BY DEF WasherInv, WorkerInv, InWriter
<1>2. /\ req[w] \in Requests /\ req[w].op \in {"decide", "evidence", "close"}
      /\ Target(w) = StoreOf[req[w].op] /\ Target(w) \in Stores
      /\ lock[Target(w)] = w /\ buf[w] = file[Target(w)]
    BY <1>1 DEF Placed, ListInHand, StoreOf, Stores, Target
<1>3. ctx[w] \in Context
    BY <1>1 DEF TypeOK
<1>4. CASE req[w].op = "decide"
  <2>1. ctx[w].previous \in WasherStatus
    BY <1>3 DEF Context
  <2>2. NewDecision(w) \in Decision /\ NewDecision(w).req = req[w]
        /\ NewDecision(w).previous = ctx[w].previous
    BY <1>2, <2>1 DEF NewDecision, Decision
  <2>3. QED
    BY <1>1, <1>2, <1>4, <2>2 DEF DecisionReady, StoreOf
<1>5. CASE req[w].op = "evidence"
  <2>1. req[w].res \in Resolutions
    BY <1>1, <1>5 DEF Placed, InWriter
  <2>2. Target(w) = "evidence"
    BY <1>2, <1>5 DEF StoreOf
  <2>3. buf[w] \in Seq(Evidence)
    BY <1>1, <1>2, <2>2 DEF TypeOK, ListsOf
  <2>4. Len(buf[w]) + 1 \in Nat
    BY <2>3
  <2>5. NewEvidence(w) \in Evidence /\ NewEvidence(w).status = "unverified"
    BY <2>1, <2>4 DEF NewEvidence, Evidence
  <2>6. QED
    BY <1>2, <1>5, <2>2, <2>5
<1>6. CASE req[w].op = "close"
  <2>1. /\ req[w].res \in Resolutions
        /\ SourceStatus[req[w].res] # "blocked_authoritative_source"
    BY <1>1, <1>6 DEF Placed, InWriter
  <2>2. Target(w) = "closures"
    BY <1>2, <1>6 DEF StoreOf
  <2>3. /\ ctx[w].decision # NoItem /\ OwnDecision(file.decisions, ctx[w].decision, req[w].res)
        /\ TerminalSeen(file.decisions, req[w].res)
        /\ ctx[w].verified \subseteq Verified(file.evidence, req[w].res)
        /\ ctx[w].verified # {}
    BY <1>1, <1>6 DEF ClosureReady
  <2>4. ctx[w].decision \in Decision /\ ctx[w].verified \in SUBSET Nat
    BY <1>3, <2>3 DEF Context
  <2>5. /\ NewClosure(w) \in Closure /\ NewClosure(w).res = req[w].res
        /\ NewClosure(w).decision = ctx[w].decision
        /\ NewClosure(w).evidence = ctx[w].verified
    BY <2>1, <2>4 DEF NewClosure, Closure
  <2>6. QED
    BY <1>2, <1>6, <2>1, <2>2, <2>3, <2>5
<1>7. QED
    BY <1>2, <1>4, <1>5, <1>6

(* The three files after an append to one of them.                         *)
LEMMA DecisionAppended ==
    ASSUME WasherInv, TypeOK', NEW w \in Workers, NEW d \in Decision,
           file'.decisions = Append(file.decisions, d),
           file'.evidence = file.evidence, file'.closures = file.closures,
           ShownStatus(file.decisions, d.previous, d.req.res),
           ValidateDecision(d.previous, d.req) = "ok",
           WithKey(file.decisions, d.req.key) = {}
    PROVE  FileInv'
<1> DEFINE l == file.decisions
           m == Append(l, d)
<1>1. /\ l \in Seq(Decision) /\ FileInv
      /\ DecisionsGrounded /\ KeysNameOneDecision /\ ClosuresGrounded
    BY DEF WasherInv, TypeOK, Stores, ListsOf, FileInv
<1>2. /\ Len(l) \in Nat /\ DOMAIN l = 1 .. Len(l)
      /\ \A i \in DOMAIN l : i \in DOMAIN m /\ m[i] = l[i]
      /\ m[Len(l) + 1] = d
      /\ \A i \in DOMAIN m : i \in DOMAIN l \/ i = Len(l) + 1
    BY <1>1, AppendedAt
<1>3. DecisionsGrounded'
  <2>1. Grounded(l)
    BY <1>1 DEF DecisionsGrounded, Grounded
  <2>2. Grounded(m)
    BY <1>1, <2>1, GroundedAppend
  <2> HIDE DEF m
  <2>3. file'.decisions = m
    BY DEF m
  <2>4. QED
    BY <2>2, <2>3 DEF DecisionsGrounded, Grounded
<1>4. KeysNameOneDecision'
  <2>1. \A i \in DOMAIN l : l[i].req.key # d.req.key
    BY DEF WithKey
  <2>2. \A i, j \in DOMAIN l : l[i].req.key = l[j].req.key => i = j
    BY <1>1 DEF KeysNameOneDecision
  <2> HIDE DEF m, l
  <2>3. \A i, j \in DOMAIN m : m[i].req.key = m[j].req.key => i = j
    BY <1>2, <2>1, <2>2
  <2>4. file'.decisions = m
    BY DEF m, l
  <2>5. QED
    BY <2>3, <2>4 DEF KeysNameOneDecision
<1>5. ClosuresGrounded'
  <2> HIDE DEF m, l
  <2>1. file'.decisions = m /\ file.decisions = l
    BY DEF m, l
  <2>2. QED
    BY <1>1, <1>2, <2>1 DEF ClosuresGrounded
<1>6. QED
    BY <1>1, <1>3, <1>4, <1>5 DEF FileInv, OneClosure, OnlyImportedIsVerified

(* Evidence that is appended is unverified.                                *)
LEMMA EvidenceAppended ==
    ASSUME WasherInv, NEW e \in Evidence,
           file'.evidence = Append(file.evidence, e), e.status = "unverified",
           file'.decisions = file.decisions, file'.closures = file.closures
    PROVE  FileInv'
<1> DEFINE l == file.evidence
           m == Append(l, e)
<1>1. l \in Seq(Evidence) /\ FileInv /\ ClosuresGrounded /\ OnlyImportedIsVerified
    BY DEF WasherInv, TypeOK, Stores, ListsOf, FileInv
<1>2. /\ m \in Seq(Evidence) /\ IsPrefix(l, m)
      /\ \A i \in DOMAIN l : m[i] = l[i]
      /\ m[Len(l) + 1] = e
      /\ \A i \in DOMAIN m : i \in DOMAIN l \/ i = Len(l) + 1
    BY <1>1, AppendedAt
<1> HIDE DEF l, m
<1>3. file'.evidence = m /\ file.evidence = l
    BY DEF m, l
<1>4. ClosuresGrounded'
  <2>1. \A res : Verified(l, res) \subseteq Verified(m, res)
    BY <1>1, <1>2, VerifiedStays
  <2>2. QED
    BY <1>1, <1>3, <2>1 DEF ClosuresGrounded
<1>5. OnlyImportedIsVerified'
  <2>1. PICK f \in ImportedFiles :
            /\ IsPrefix(f, l)
            /\ \A i \in DOMAIN l : i > Len(f) => l[i].status = "unverified"
    BY <1>1, <1>3 DEF OnlyImportedIsVerified
  <2>2. IsPrefix(f, m)
    BY <1>1, <1>2, <2>1, ImportedFilesAssumption, PrefixTransitive
  <2>3. \A i \in DOMAIN m : i > Len(f) => m[i].status = "unverified"
    BY <1>2, <2>1
  <2>4. QED
    BY <1>3, <2>2, <2>3 DEF OnlyImportedIsVerified
<1>6. QED
    BY <1>1, <1>4, <1>5 DEF FileInv, DecisionsGrounded, KeysNameOneDecision, OneClosure

(* A closure that is appended is the only one of its resolution.           *)
LEMMA ClosureAppended ==
    ASSUME WasherInv, NEW c \in Closure,
           file'.closures = Append(file.closures, c),
           file'.decisions = file.decisions, file'.evidence = file.evidence,
           ~HasClosure(file.closures, c.res),
           SourceStatus[c.res] # "blocked_authoritative_source",
           OwnDecision(file.decisions, c.decision, c.res),
           TerminalSeen(file.decisions, c.res),
           c.evidence \subseteq Verified(file.evidence, c.res), c.evidence # {}
    PROVE  FileInv'
<1> DEFINE l == file.closures
           m == Append(l, c)
           FoundedClosure(x) ==
               LET own == {j \in DOMAIN file.decisions : file.decisions[j].req.res = x.res}
               IN  /\ SourceStatus[x.res] # "blocked_authoritative_source"
                   /\ \E j \in own : file.decisions[j] = x.decision
                   /\ \E j \in own : file.decisions[j].req.new \in TerminalStatuses
                   /\ x.evidence # {} /\ x.evidence \subseteq Verified(file.evidence, x.res)
<1>1. l \in Seq(Closure) /\ FileInv /\ ClosuresGrounded /\ OneClosure
    BY DEF WasherInv, TypeOK, Stores, ListsOf, FileInv
<1>2. /\ m[Len(l) + 1] = c /\ Len(l) + 1 \notin DOMAIN l
      /\ \A i \in DOMAIN l : m[i] = l[i]
      /\ \A i \in DOMAIN m : i \in DOMAIN l \/ i = Len(l) + 1
    BY <1>1, AppendedAt
<1>3. FoundedClosure(c)
    BY DEF OwnDecision, TerminalSeen
<1>4. \A i \in DOMAIN l : FoundedClosure(l[i])
    BY <1>1 DEF ClosuresGrounded
<1>5. \A i \in DOMAIN l : l[i].res # c.res
    BY DEF HasClosure
<1>6. \A i, j \in DOMAIN l : l[i].res = l[j].res => i = j
    BY <1>1 DEF OneClosure
<1> HIDE DEF l, m, FoundedClosure
<1>7. \A i \in DOMAIN m : FoundedClosure(m[i])
    BY <1>2, <1>3, <1>4
<1>8. \A i, j \in DOMAIN m : m[i].res = m[j].res => i = j
    BY <1>2, <1>5, <1>6
<1>9. file'.closures = m
    BY DEF m, l
<1>10. ClosuresGrounded' /\ OneClosure'
    BY <1>7, <1>8, <1>9 DEF ClosuresGrounded, OneClosure, FoundedClosure
<1>11. QED
    BY <1>1, <1>10
       DEF FileInv, DecisionsGrounded, KeysNameOneDecision, OnlyImportedIsVerified

(* The lock makes a write an append to its file as it is now.              *)
LEMMA AppendKeeps ==
    ASSUME WasherInv, NEW w \in Workers, pc[w] = "write", NEW S, NEW item \in S,
           ListsOf[Target(w)] = Seq(S), Answer("created", item) \in Reply,
           file' = [file EXCEPT ![Target(w)] = Append(buf[w], item)],
           pc' = [pc EXCEPT ![w] = "reload"],
           reply' = [reply EXCEPT ![w] = Answer("created", item)],
           Release(w), UNCHANGED <<cache, phase, req, buf, ctx>>,
           req[w].op = "decide" => item.req.key = req[w].key,
           TypeOK' => FileInv'
    PROVE  WasherInv'
<1> DEFINE t == Target(w)
<1>1. /\ TypeOK /\ CacheInv /\ WorkerInv(w)
      /\ t \in Stores /\ lock[t] = w /\ buf[w] = file[t]
      /\ req[w].op \in {"decide", "evidence", "close"}
    BY WrittenItem DEF WasherInv
<1>2. file[t] \in Seq(S) /\ ListsOf[t] = Seq(S)
    BY <1>1 DEF TypeOK
<1> HIDE DEF t
<1>3. /\ file'[t] = Append(file[t], item) /\ DOMAIN file' = Stores
      /\ \A s \in Stores \ {t} : file'[s] = file[s]
    BY <1>1 DEF TypeOK, t
<1>4. file'[t] \in ListsOf[t] /\ IsPrefix(file[t], file'[t])
  <2>1. Append(file[t], item) \in Seq(S) /\ IsPrefix(file[t], Append(file[t], item))
    BY <1>2, AppendedAt
  <2>2. QED
    BY <1>2, <1>3, <2>1
<1>5. \A s \in Stores : file'[s] \in ListsOf[s] /\ IsPrefix(file[s], file'[s])
  <2> SUFFICES ASSUME NEW s \in Stores, s # t
               PROVE  file'[s] \in ListsOf[s] /\ IsPrefix(file[s], file'[s])
    BY <1>4
  <2>1. PICK E : ListsOf[s] = Seq(E)
    BY StoresHoldLists
  <2>2. file[s] \in Seq(E) /\ file'[s] = file[s]
    BY <1>1, <1>3, <2>1 DEF TypeOK
  <2>3. QED
    BY <2>1, <2>2, PrefixSelf
<1>6. TypeOK'
  <2>1. /\ lock' \in [Stores -> Workers \cup {NoWorker}]
        /\ pc' \in [Workers -> PC] /\ reply' \in [Workers -> Reply]
    BY <1>1 DEF TypeOK, Release, PC
  <2>2. QED
    BY <1>1, <1>3, <1>5, <2>1 DEF TypeOK
<1>7. CacheInv'
  <2> SUFFICES ASSUME NEW s \in Stores, cache[s] # Miss
               PROVE  IsPrefix(cache[s], file'[s])
    BY DEF CacheInv
  <2>1. PICK E : ListsOf[s] = Seq(E)
    BY StoresHoldLists
  <2>2. /\ cache[s] \in Seq(E) /\ file[s] \in Seq(E) /\ file'[s] \in Seq(E)
        /\ IsPrefix(cache[s], file[s]) /\ IsPrefix(file[s], file'[s])
    BY <1>1, <1>5, <2>1 DEF TypeOK, CacheInv
  <2>3. QED
    BY <2>2, PrefixTransitive
<1>8. ASSUME NEW v \in Workers PROVE WorkerInv(v)'
  <2>1. CASE v = w
    <3>1. /\ pc'[w] = "reload" /\ phase'[w] = phase[w] /\ Target(w)' = t
          /\ reply'[w] = Answer("created", item)
      BY <1>1 DEF TypeOK, Target, t
    <3>2. Placed(w)'
      BY <1>1, <3>1 DEF WorkerInv, Placed, InWriter, StoreOf
    <3>3. ListInHand(w)'
      BY <1>1, <3>1 DEF WorkerInv, ListInHand, StoreAt
    <3>4. DecisionReady(w)'
      BY <3>1 DEF DecisionReady, InWriter
    <3>5. ClosureReady(w)'
      <4>1. /\ file.decisions \in Seq(Decision) /\ file'.decisions \in Seq(Decision)
            /\ IsPrefix(file.decisions, file'.decisions)
        BY <1>1, <1>5, <1>6 DEF TypeOK, Stores, ListsOf
      <4>2. \A d : OwnDecision(file.decisions, d, req[w].res)
                       => OwnDecision(file'.decisions, d, req[w].res)
        BY <4>1, GroundsStay
      <4>3. QED
        BY <1>1, <3>1, <4>2 DEF WorkerInv, ClosureReady, InWriter
    <3>6. Answered(w)'
      <4>1. \E i \in DOMAIN file'[t] : file'[t][i] = item
        BY <1>2, <1>3, AppendedAt
      <4>2. Answer("created", item).item = item
        BY DEF Answer
      <4>3. QED
        BY <1>1, <3>1, <4>1, <4>2 DEF Answered, StoreOf
    <3>7. QED
      BY <2>1, <3>2, <3>3, <3>4, <3>5, <3>6 DEF WorkerInv
  <2>2. CASE v # w
    <3>1. pc'[v] = pc[v] /\ reply'[v] = reply[v]
      BY <1>1, <2>2 DEF TypeOK
    <3>2. \A s \in Stores : lock[s] = v => lock'[s] = v
      BY <1>1, <2>2 DEF Release
    <3>3. ASSUME pc[v] = "write" PROVE file'[Target(v)] = file[Target(v)]
      <4>1. Target(v) \in Stores /\ lock[Target(v)] = v
        BY <3>3, WrittenItem
      <4>2. QED
        BY <1>1, <1>3, <2>2, <4>1
    <3>4. QED
      BY <1>5, <1>6, <3>1, <3>2, <3>3, OthersKeep
  <2>3. QED
    BY <2>1, <2>2
<1>9. QED
    BY <1>6, <1>7, <1>8 DEF WasherInv

(* record_decision, append_evidence, append_closure: replayed, refused or appended.*)
LEMMA WriteKeeps ==
    ASSUME WasherInv, NEW w \in Workers, Write(w)
    PROVE  WasherInv'
<1> DEFINE found == IF req[w].op = "decide" THEN WithKey(buf[w], req[w].key) ELSE {}
           d == buf[w][LastOf(found)]
<1>1. pc[w] = "write" /\ Release(w) /\ UNCHANGED req /\ TypeOK
    BY DEF Write, WasherInv
<1>2. /\ Target(w) \in Stores /\ buf[w] = file[Target(w)]
      /\ req[w].op \in {"decide", "evidence", "close"}
    BY <1>1, WrittenItem
<1>3. CASE /\ found # {} /\ Finish(w, Answer("replayed", d))
           /\ cache' = [cache EXCEPT !.decisions = Miss] /\ UNCHANGED file
  <2>1. req[w].op = "decide" /\ WithKey(buf[w], req[w].key) # {}
    BY <1>3
  <2>2. Target(w) = "decisions" /\ buf[w] \in Seq(Decision)
    BY <1>1, <1>2, <2>1, WrittenItem DEF TypeOK, ListsOf
  <2>3. LastOf(found) \in DOMAIN buf[w] /\ d \in Decision /\ d.req.key = req[w].key
    BY <2>1, <2>2, FoundByKey
  <2>4. \E i \in DOMAIN file[Target(w)] : file[Target(w)][i] = d
    BY <1>2, <2>3
  <2> HIDE DEF d, found
  <2>5. /\ Answer("replayed", d) \in Reply /\ Answer("replayed", d).item = d
        /\ Answer("replayed", d).kind = "replayed"
    BY <2>3 DEF Answer, Reply, ReplyKind
  <2>6. CachesEmptied /\ req' \in [Workers -> Requests \cup {NoRequest}]
    BY <1>1, <1>3 DEF TypeOK, CachesEmptied, Stores
  <2>7. req'[w].op \in DOMAIN StoreOf /\ StoreOf[req'[w].op] = Target(w)
    BY <1>1, <2>1 DEF StoreOf, Target
  <2>8. QED
    BY <1>1, <1>3, <2>3, <2>4, <2>5, <2>6, <2>7, FinishKeeps
<1>4. CASE Refuse(w, "duplicate_closure") /\ UNCHANGED <<file, cache>>
  <2>1. "duplicate_closure" \in ReplyKind \ {"created", "replayed"}
    BY DEF ReplyKind
  <2>2. QED
    BY <1>1, <1>4, <2>1, SameCaches, RefuseKeeps
<1>5. ASSUME NEW item,
             item = CASE req[w].op = "decide" -> NewDecision(w)
                      [] req[w].op = "evidence" -> NewEvidence(w)
                      [] req[w].op = "close" -> NewClosure(w),
             found = {}, req[w].op = "close" => ~HasClosure(buf[w], req[w].res),
             file' = [file EXCEPT ![Target(w)] = Append(buf[w], item)],
             pc' = [pc EXCEPT ![w] = "reload"],
             reply' = [reply EXCEPT ![w] = Answer("created", item)],
             UNCHANGED <<cache, phase, buf, ctx>>
      PROVE  WasherInv'
  <2>1. ASSUME NEW x \in Decision \cup Evidence \cup Closure PROVE Answer("created", x) \in Reply
    BY DEF Answer, Reply, ReplyKind
  <2>2. DOMAIN file = Stores
    BY <1>1 DEF TypeOK
  <2>3. CASE req[w].op = "decide"
    <3>1. /\ item = NewDecision(w) /\ Target(w) = "decisions" /\ item \in Decision
          /\ ShownStatus(file.decisions, item.previous, item.req.res)
          /\ ValidateDecision(item.previous, item.req) = "ok" /\ item.req = req[w]
      BY <1>1, <1>5, <2>3, WrittenItem
    <3>2. WithKey(file.decisions, item.req.key) = {}
      BY <1>2, <1>5, <2>3, <3>1
    <3>3. /\ file'.decisions = Append(file.decisions, item)
          /\ file'.evidence = file.evidence /\ file'.closures = file.closures
      BY <1>2, <1>5, <2>2, <3>1 DEF Stores
    <3>4. TypeOK' => FileInv'
      BY <3>1, <3>2, <3>3, DecisionAppended
    <3>5. ListsOf[Target(w)] = Seq(Decision)
      BY <3>1 DEF ListsOf
    <3>6. QED
      BY <1>1, <1>5, <2>1, <3>1, <3>4, <3>5, AppendKeeps
  <2>4. CASE req[w].op = "evidence"
    <3>1. /\ item = NewEvidence(w) /\ Target(w) = "evidence" /\ item \in Evidence
          /\ item.status = "unverified"
      BY <1>1, <1>5, <2>4, WrittenItem
    <3>2. /\ file'.evidence = Append(file.evidence, item)
          /\ file'.decisions = file.decisions /\ file'.closures = file.closures
      BY <1>2, <1>5, <2>2, <3>1 DEF Stores
    <3>3. FileInv'
      BY <3>1, <3>2, EvidenceAppended
    <3>4. ListsOf[Target(w)] = Seq(Evidence)
      BY <3>1 DEF ListsOf
    <3>5. QED
      BY <1>1, <1>5, <2>1, <2>4, <3>1, <3>3, <3>4, AppendKeeps
  <2>5. CASE req[w].op = "close"
    <3>1. /\ item = NewClosure(w) /\ Target(w) = "closures" /\ item \in Closure
          /\ item.res = req[w].res
          /\ OwnDecision(file.decisions, item.decision, item.res)
          /\ TerminalSeen(file.decisions, item.res)
          /\ item.evidence \subseteq Verified(file.evidence, item.res) /\ item.evidence # {}
          /\ SourceStatus[item.res] # "blocked_authoritative_source"
      BY <1>1, <1>5, <2>5, WrittenItem
    <3>2. /\ file'.closures = Append(file.closures, item)
          /\ file'.decisions = file.decisions /\ file'.evidence = file.evidence
          /\ ~HasClosure(file.closures, item.res)
      BY <1>2, <1>5, <2>2, <2>5, <3>1 DEF Stores
    <3>3. FileInv'
      BY <3>1, <3>2, ClosureAppended
    <3>4. ListsOf[Target(w)] = Seq(Closure)
      BY <3>1 DEF ListsOf
    <3>5. QED
      BY <1>1, <1>5, <2>1, <2>5, <3>1, <3>3, <3>4, AppendKeeps
  <2>6. QED
    BY <1>2, <2>3, <2>4, <2>5
<1>6. QED
    BY <1>3, <1>4, <1>5 DEF Write

-----------------------------------------------------------------------------
(* The first step of a request, the initial state, and all steps.          *)

(* A route up to its first read of a file.                                 *)
LEMMA ReceiveKeeps ==
    ASSUME WasherInv, NEW w \in Workers, NEW r \in Requests, Receive(w, r)
    PROVE  WasherInv'
<1>1. /\ pc[w] = "idle" /\ UNCHANGED <<file, cache, lock>>
      /\ req' = [req EXCEPT ![w] = r] /\ TypeOK /\ WorkerInv(w)
    BY DEF Receive, WasherInv
<1>2. /\ req' \in [Workers -> Requests \cup {NoRequest}] /\ req'[w] = r
      /\ \A v \in Workers \ {w} : req'[v] = req[v] /\ CachesEmptied
    BY <1>1 DEF TypeOK, CachesEmptied
<1>3. CachesEmptied
    BY <1>1 DEF TypeOK, CachesEmptied
<1>4. ctx[w] = NoContext /\ NoContext.decision = NoItem /\ NoContext \in Context
    BY <1>1 DEF WorkerInv, ClosureReady, NoContext, TypeOK, Context, WasherStatus,
                ActiveStatuses
<1>5. ASSUME NEW kind \in {"missing_key", "not_found", "server_error", "integrity_error",
                           "blocked"},
             Refuse(w, kind)
      PROVE  WasherInv'
  <2>1. kind \in ReplyKind \ {"created", "replayed"}
    BY DEF ReplyKind
  <2>2. QED
    BY <1>1, <1>2, <1>3, <1>5, <2>1, RefuseKeeps
<1>6. ASSUME NEW point \in PC \ {"idle", "read", "write", "reload", "status", "terminal",
                                 "evidence", "closure"},
             Goto(w, point), UNCHANGED ctx,
             point = "lock" => r.op = "evidence",
             point = "find" <=> r.op = "decide",
             point = "closed" => r.op = "close",
             point = "current" => r.op = "readiness",
             r.op = "decide" \/ r.res \in Resolutions,
             r.op = "close" => SourceStatus[r.res] # "blocked_authoritative_source"
      PROVE  WasherInv'
  <2>1. pc'[w] = point /\ ctx' = [ctx EXCEPT ![w] = NoContext] /\ ctx'[w] = NoContext
    BY <1>1, <1>4, <1>6 DEF TypeOK, Goto
  <2>2. Placed(w)'
    BY <1>2, <1>6, <2>1 DEF Placed, InWriter, StoreOf
  <2>3. DecisionReady(w)'
    BY <1>2, <1>6, <2>1 DEF DecisionReady, InWriter
  <2>4. ClosureReady(w)'
    BY <1>2, <1>4, <1>6, <2>1 DEF ClosureReady, InWriter
  <2>5. QED
    BY <1>1, <1>2, <1>4, <1>6, <2>1, <2>2, <2>3, <2>4, GotoKeeps
<1>7. CASE r.op = "decide"
  <2>1. \/ Refuse(w, "missing_key")
        \/ Goto(w, "find") /\ UNCHANGED ctx
    BY <1>7 DEF Receive, ReceiveDecide
  <2>2. "find" \in PC
    BY DEF PC, StoreAt
  <2>3. QED
    BY <1>5, <1>6, <1>7, <2>1, <2>2
<1>8. CASE r.op = "evidence"
  <2>1. \/ Refuse(w, "not_found") \/ Refuse(w, "server_error")
        \/ Refuse(w, "integrity_error")
        \/ Goto(w, "lock") /\ UNCHANGED ctx /\ r.res \in Resolutions
    BY <1>8 DEF Receive, ReceiveEvidence
  <2>2. "lock" \in PC
    BY DEF PC
  <2>3. QED
    BY <1>5, <1>6, <1>8, <2>1, <2>2
<1>9. CASE r.op = "close"
  <2>1. \/ Refuse(w, "not_found") \/ Refuse(w, "blocked")
        \/ /\ Goto(w, "closed") /\ UNCHANGED ctx /\ r.res \in Resolutions
           /\ SourceStatus[r.res] # "blocked_authoritative_source"
    BY <1>9 DEF Receive, ReceiveClose
  <2>2. "closed" \in PC
    BY DEF PC, StoreAt
  <2>3. QED
    BY <1>5, <1>6, <1>9, <2>1, <2>2
<1>10. CASE r.op \notin {"decide", "evidence", "close"}
  <2>1. \/ Refuse(w, "not_found")
        \/ Goto(w, FirstRead[r.op]) /\ UNCHANGED ctx /\ r.res \in Resolutions
    BY <1>10 DEF Receive, ReceiveRead
  <2>2. r.op \in DOMAIN FirstRead
    BY <1>10, WasherOperations DEF StoreOf
  <2>3. /\ FirstRead[r.op] \in {"current", "history", "listed", "shown"}
        /\ FirstRead[r.op] = "current" => r.op = "readiness"
    BY <2>2 DEF FirstRead
  <2>4. {"current", "history", "listed", "shown"} \subseteq PC
    BY DEF PC, StoreAt
  <2>5. QED
    BY <1>5, <1>6, <1>10, <2>1, <2>3, <2>4
<1>11. QED
    BY <1>7, <1>8, <1>9, <1>10

(* The server starts on the imported evidence and two empty ledgers.       *)
LEMMA WasherInit == Init => WasherInv
<1> SUFFICES ASSUME Init PROVE WasherInv
    OBVIOUS
<1>1. PICK e \in ImportedFiles :
          file = [decisions |-> <<>>, evidence |-> e, closures |-> <<>>]
    BY DEF Init
<1>2. /\ file.decisions = <<>> /\ file.evidence = e /\ file.closures = <<>>
      /\ DOMAIN file = Stores /\ e \in Seq(Evidence)
    BY <1>1, ImportedFilesAssumption DEF Stores
<1>3. TypeOK
  <2>1. /\ NoReply \in Reply /\ "idle" \in PC /\ <<>> \in Seq(Decision)
        /\ <<>> \in Seq(Closure) /\ NoContext \in Context
    BY DEF NoReply, Answer, Reply, ReplyKind, PC, NoContext, Context, WasherStatus,
           ActiveStatuses
  <2>2. \A s \in Stores : file[s] \in ListsOf[s]
    <3>1. /\ ListsOf["decisions"] = Seq(Decision) /\ ListsOf["evidence"] = Seq(Evidence)
          /\ ListsOf["closures"] = Seq(Closure)
      BY DEF ListsOf
    <3>2. QED
      BY <1>2, <2>1, <3>1 DEF Stores
  <2>3. QED
    BY <1>2, <2>1, <2>2 DEF TypeOK, Init
<1>4. CacheInv
    BY DEF CacheInv, Init
<1>5. FileInv
  <2>1. OnlyImportedIsVerified
    <3>1. IsPrefix(e, e) /\ \A i \in DOMAIN e : ~ (i > Len(e))
      BY <1>2, PrefixSelf
    <3>2. QED
      BY <1>2, <3>1 DEF OnlyImportedIsVerified
  <2>2. QED
    BY <1>2, <2>1 DEF FileInv, DecisionsGrounded, KeysNameOneDecision, OneClosure,
                      ClosuresGrounded
<1>6. ASSUME NEW w \in Workers PROVE WorkerInv(w)
  <2>1. /\ pc[w] = "idle" /\ phase[w] = "test" /\ ctx[w] = NoContext
        /\ reply[w] = NoReply /\ NoContext.decision = NoItem
    BY DEF Init, NoContext
  <2>2. Placed(w) /\ ListInHand(w) /\ DecisionReady(w) /\ ClosureReady(w) /\ Answered(w)
    BY <2>1 DEF Placed, ListInHand, DecisionReady, ClosureReady, Answered, InWriter,
                NoReply, Answer
  <2>3. QED
    BY <2>2 DEF WorkerInv
<1>7. QED
    BY <1>3, <1>4, <1>5, <1>6 DEF WasherInv

(* A step of something else.                                               *)
LEMMA StutterKeeps ==
    ASSUME WasherInv, UNCHANGED vars
    PROVE  WasherInv'
<1>1. TypeOK' /\ CacheInv' /\ FileInv'
    BY SameFiles DEF WasherInv, vars, TypeOK, CacheInv
<1>2. ASSUME NEW v \in Workers PROVE WorkerInv(v)'
    BY <1>1, OthersKeepSame DEF vars
<1>3. QED
    BY <1>1, <1>2 DEF WasherInv

(* Every action keeps the invariant.                                       *)
LEMMA WasherNext == WasherInv /\ [Next]_vars => WasherInv'
<1> SUFFICES ASSUME WasherInv, [Next]_vars PROVE WasherInv'
    OBVIOUS
<1>1. CASE UNCHANGED vars
    BY <1>1, StutterKeeps
<1>2. ASSUME NEW w \in Workers, NEW r \in Requests, Receive(w, r) PROVE WasherInv'
    BY <1>2, ReceiveKeeps
<1>3. ASSUME NEW w \in Workers, Step(w) PROVE WasherInv'
    BY <1>3, TestCacheKeeps, SetCacheKeeps, LoadedNothingKeeps, FindReplayKeeps,
       ComputeStatusKeeps, FindClosureKeeps, CheckTerminalKeeps, PickDecisionKeeps,
       ClassifyEvidenceKeeps, DecideClosureKeeps, ShowKeeps, EnterLockKeeps,
       ReadRawKeeps, WriteKeeps, ReloadKeeps
       DEF Step
<1>4. ASSUME NEW w \in Workers, FileError(w) PROVE WasherInv'
    BY <1>4, FileErrorKeeps
<1>5. CASE Crash
    BY <1>5, CrashKeeps
<1>6. QED
    BY <1>1, <1>2, <1>3, <1>4, <1>5 DEF Next

(* The inductive invariant of decide_resolution, close_resolution and the  *)
(* three stores: the files, caches and locks fit together, every stored    *)
(* record was grounded when it was written, and what a request has found   *)
(* in the files is still there.                                            *)
THEOREM WasherInvariant == Spec => []WasherInv
<1>1. Init => WasherInv
    BY WasherInit
<1>2. WasherInv /\ [Next]_vars => WasherInv'
    BY WasherNext
<1>3. QED
    BY <1>1, <1>2, PTL DEF Spec

-----------------------------------------------------------------------------
(* What follows.                                                           *)

(* The files, the caches and the locks are typed, every cache is an        *)
(* earlier state of its file, and under a lock the list in hand is the     *)
(* file (the three stores).                                                *)
THEOREM FilesInvariant == Spec => []FilesInv
<1>1. ASSUME WasherInv PROVE FilesInv
    BY <1>1 DEF WasherInv, FilesInv, CachesArePrefixes, CacheInv, WorkerInv, ListInHand
<1>2. QED
    BY <1>1, WasherInvariant, PTL

(* Decisions were legal when they were checked, a key names one, and what  *)
(* a caller was told of is in the file, however requests overlap.          *)
THEOREM DecisionsInvariant == Spec => []DecisionsHold
<1>1. ASSUME WasherInv PROVE DecisionsHold
    BY <1>1 DEF WasherInv, FileInv, DecisionsHold, AcknowledgedIsStored, WorkerInv, Answered
<1>2. QED
    BY <1>1, WasherInvariant, PTL

(* Evidence that is verified was imported.                                 *)
LEMMA VerifiedWasImported ==
    ASSUME NEW e \in Seq(Evidence), NEW l \in Seq(Evidence), IsPrefix(e, l), NEW res,
           \A i \in DOMAIN l : i > Len(e) => l[i].status = "unverified"
    PROVE  Verified(l, res) \subseteq {e[j].id : j \in DOMAIN e}
<1>1. /\ Len(e) \in Nat /\ DOMAIN e = 1 .. Len(e) /\ DOMAIN l = 1 .. Len(l) /\ Len(l) \in Nat
      /\ \A i \in 1 .. Len(e) : e[i] = l[i]
    BY PrefixPoints
<1>2. ASSUME NEW i \in DOMAIN l, l[i].status = "verified"
      PROVE  i \in DOMAIN e /\ e[i] = l[i]
    BY <1>1, <1>2
<1>3. QED
    BY <1>2 DEF Verified, EvidenceOf

(* A resolution is closed once, on a decision of its own after a terminal  *)
(* one, and on evidence that was verified when the server was started.     *)
THEOREM ClosuresInvariant == Spec => []ClosuresHold
<1>1. ASSUME WasherInv PROVE ClosuresHold
  <2>1. OneClosure /\ ClosuresGrounded
    BY <1>1 DEF WasherInv, FileInv
  <2>2. PICK e \in ImportedFiles :
            /\ IsPrefix(e, file.evidence)
            /\ \A i \in DOMAIN file.evidence :
                   i > Len(e) => file.evidence[i].status = "unverified"
    BY <1>1 DEF WasherInv, FileInv, OnlyImportedIsVerified
  <2>3. e \in Seq(Evidence) /\ file.evidence \in Seq(Evidence)
    BY <1>1, ImportedFilesAssumption DEF WasherInv, TypeOK, Stores, ListsOf
  <2>4. \A res : Verified(file.evidence, res) \subseteq {e[j].id : j \in DOMAIN e}
    BY <2>2, <2>3, VerifiedWasImported
  <2>5. \A i \in DOMAIN file.closures :
            file.closures[i].evidence \subseteq {e[j].id : j \in DOMAIN e}
    BY <2>1, <2>4 DEF ClosuresGrounded
  <2>6. ClosuresRestOnImportedEvidence
    BY <2>2, <2>5 DEF ClosuresRestOnImportedEvidence
  <2>7. QED
    BY <2>1, <2>6 DEF ClosuresHold
<1>2. QED
    BY <1>1, WasherInvariant, PTL

(* Every action leaves each file as it is or appends to it.                *)
LEMMA StepGrows ==
    ASSUME WasherInv, [Next]_vars, NEW s \in Stores
    PROVE  IsPrefix(file[s], file'[s])
<1>1. PICK S : ListsOf[s] = Seq(S)
    BY StoresHoldLists
<1>2. file[s] \in Seq(S) /\ TypeOK
    BY <1>1 DEF WasherInv, TypeOK
<1>3. CASE UNCHANGED file
    BY <1>2, <1>3, PrefixSelf
<1>4. ASSUME NEW w \in Workers, Write(w), file' # file PROVE IsPrefix(file[s], file'[s])
  <2>1. PICK item :
            /\ item = CASE req[w].op = "decide" -> NewDecision(w)
                        [] req[w].op = "evidence" -> NewEvidence(w)
                        [] req[w].op = "close" -> NewClosure(w)
            /\ file' = [file EXCEPT ![Target(w)] = Append(buf[w], item)]
    BY <1>4 DEF Write
  <2>2. pc[w] = "write"
    BY <1>4 DEF Write
  <2>3. /\ Target(w) \in Stores /\ buf[w] = file[Target(w)]
        /\ req[w].op \in {"decide", "evidence", "close"}
    BY <2>2, WrittenItem
  <2>4. CASE s # Target(w)
    <3>1. file'[s] = file[s]
      BY <1>2, <2>1, <2>4 DEF TypeOK
    <3>2. QED
      BY <1>2, <3>1, PrefixSelf
  <2>5. CASE s = Target(w)
    <3>1. file'[s] = Append(file[s], item)
      BY <1>2, <2>1, <2>3, <2>5 DEF TypeOK
    <3>2. PICK E : ListsOf[s] = Seq(E) /\ item \in E
      <4>1. /\ ListsOf["decisions"] = Seq(Decision) /\ ListsOf["evidence"] = Seq(Evidence)
            /\ ListsOf["closures"] = Seq(Closure)
        BY DEF ListsOf
      <4>2. /\ req[w].op = "decide" => s = "decisions" /\ item \in Decision
            /\ req[w].op = "evidence" => s = "evidence" /\ item \in Evidence
            /\ req[w].op = "close" => s = "closures" /\ item \in Closure
        BY <2>1, <2>2, <2>5, WrittenItem
      <4>3. QED
        BY <2>3, <4>1, <4>2
    <3>3. file[s] \in Seq(E)
      BY <1>2, <3>2 DEF TypeOK
    <3>4. QED
      BY <3>1, <3>2, <3>3, AppendedAt
  <2>6. QED
    BY <2>4, <2>5
<1>5. file' = file \/ \E w \in Workers : Write(w)
    BY DEF Next, Step, vars, Receive, TestCache, SetCache, LoadedNothing, FindReplay,
           ComputeStatus, FindClosure, CheckTerminal, PickDecision, ClassifyEvidence,
           DecideClosure, Show, EnterLock, ReadRaw, Reload, FileError, Crash
<1>6. QED
    BY <1>3, <1>4, <1>5

(* No step removes, replaces or reorders a record of any of the files,     *)
(* although each write replaces the whole file (append_evidence and its    *)
(* like: "append-only").                                                   *)
THEOREM FilesGrow == Spec => FilesOnlyGrow
<1>1. WasherInv /\ [Next]_vars => [\A s \in Stores : IsPrefix(file[s], file'[s])]_vars
    BY StepGrows
<1>2. QED
    BY <1>1, WasherInvariant, PTL DEF Spec, FilesOnlyGrow

-----------------------------------------------------------------------------
(* The projection into the governance log.                                 *)

(* The requests that projections send, and the events of the log.          *)
SyncRequestOf(a) == {SyncRequest(d, a) : d \in {e \in Decision : e.req.new \in DOMAIN SyncCommand}}

LogRequest == OtherRequests \cup UNION {SyncRequestOf(a) : a \in Agents}

LogEvent == [req : LogRequest, previous : Governance!AnyStatus]

InFile(d) == \E j \in DOMAIN file.decisions : file.decisions[j] = d

HasEvent(d) == \E i \in DOMAIN events : EventMatches(events[i], d)

LogTyped ==
    /\ events \in Seq(LogEvent)
    /\ greq \in [Agents -> LogRequest \cup {NoRequest}]
    /\ gprev \in [Agents -> Governance!AnyStatus]
    /\ DOMAIN gpc = Agents /\ DOMAIN graw = Agents /\ DOMAIN greply = Agents
    /\ DOMAIN syncing = Agents /\ DOMAIN result = Agents

(* A command is the one its projection has asked for; under the lock it    *)
(* has read the log as it is, and what it answers is in the log.           *)
CommandHolds(a) ==
    /\ gpc[a] # "idle" => syncing[a].stage = "command"
    /\ gpc[a] \in {"read", "write", "reply"} => glock = a
    /\ gpc[a] = "write" => graw[a] = events
    /\ gpc[a] = "reply" =>
           \E i \in DOMAIN events : events[i] = [req |-> greq[a], previous |-> gprev[a]]
    /\ greply[a].kind \in {"created", "existing"} =>
           /\ \E i \in DOMAIN events : events[i] = greply[a].event
           /\ Governance!MatchesRequest(greply[a].event, greq[a])

(* A projection is of a decision that is in the file.                      *)
SyncHolds(a) ==
    /\ syncing[a] = NoSync \/
           /\ syncing[a] \in [decision : Decision, stage : {"lookup", "command"}]
           /\ InFile(syncing[a].decision)
    /\ syncing[a].stage = "command" =>
           /\ syncing[a].decision.req.new \in DOMAIN SyncCommand
           /\ greq[a] = SyncRequest(syncing[a].decision, a)
    /\ result[a].outcome \in {"synchronized", "already_synchronized"} =>
           HasEvent(result[a].decision)

AnswersDecision(w) ==
    pc[w] = "idle" /\ reply[w].kind \in {"created", "replayed"} /\ req[w].op = "decide"

(* A thread projects the decision it answers for, and nothing else.        *)
ProjectsAnswer(w) ==
    /\ syncing[w] # NoSync => AnswersDecision(w)
    /\ AnswersDecision(w) =>
           reply[w].item = IF syncing[w] = NoSync THEN result[w].decision
                                                  ELSE syncing[w].decision

(* The tool has projected the decisions before its place, but for the one  *)
(* it is at.                                                               *)
Under(d) == syncing[Reconciler] # NoSync /\ syncing[Reconciler].decision = d

Scanned(d) == \E i \in DOMAIN scanned : scanned[i] = d

Passed(d) == \E i \in DOMAIN scanned : i < next /\ scanned[i] = d

ScanHolds ==
    /\ scanned \in Seq(Decision) /\ next \in Nat \ {0} /\ failed \in BOOLEAN
    /\ \A d : Scanned(d) => InFile(d)
    /\ ~failed /\ ~dryRun /\ configured =>
           \A d : Passed(d) /\ d.req.new \in TerminalStatuses => HasEvent(d) \/ Under(d)

ProjectionInv ==
    /\ WasherInv /\ LogTyped
    /\ EventsMirrorDecisions /\ ScanHolds
    /\ \A a \in Agents : CommandHolds(a) /\ SyncHolds(a)
    /\ \A w \in Workers : ProjectsAnswer(w)

(* What a projection sends is a request of the log.                        *)
LEMMA SyncIsLogRequest ==
    ASSUME NEW a \in Agents, NEW d \in Decision, d.req.new \in DOMAIN SyncCommand
    PROVE  SyncRequest(d, a) \in LogRequest
<1>1. SyncRequest(d, a) \in SyncRequestOf(a)
    BY DEF SyncRequestOf
<1>2. QED
    BY <1>1 DEF LogRequest

(* The event a projection appends tells of its decision.                   *)
LEMMA ProjectedMatches ==
    ASSUME NEW a, NEW d, NEW e, d.req.new \in DOMAIN SyncCommand,
           e.req = SyncRequest(d, a)
    PROVE  EventMatches(e, d)
<1>1. /\ e.req.type = "washer_resolution" /\ e.req.agg = d.req.res
      /\ e.req.decision = d.req.key /\ e.req.cmd = SyncCommand[d.req.new]
    BY DEF SyncRequest
<1>2. d.req.new \in {"resolved", "accepted_as_is", "rejected"}
    BY DEF SyncCommand
<1>3. Governance!NewStatus(e.req) = CanonicalStatus[d.req.new][1]
    BY <1>1, <1>2 DEF Governance!NewStatus, Governance!Command, SyncCommand, CanonicalStatus
<1>4. QED
    BY <1>1, <1>3 DEF EventMatches

(* An event that answers the request of a projection tells of its decision.*)
LEMMA AnsweredMatches ==
    ASSUME NEW a, NEW d, NEW e, d.req.new \in DOMAIN SyncCommand,
           Governance!MatchesRequest(e, SyncRequest(d, a))
    PROVE  EventMatches(e, d)
<1>1. /\ e.req.type = "washer_resolution" /\ e.req.agg = d.req.res
      /\ e.req.decision = d.req.key /\ e.req.cmd = SyncCommand[d.req.new]
    BY DEF SyncRequest, Governance!MatchesRequest
<1>2. d.req.new \in {"resolved", "accepted_as_is", "rejected"}
    BY DEF SyncCommand
<1>3. Governance!NewStatus(e.req) = CanonicalStatus[d.req.new][1]
    BY <1>1, <1>2 DEF Governance!NewStatus, Governance!Command, SyncCommand, CanonicalStatus
<1>4. QED
    BY <1>1, <1>3 DEF EventMatches

(* find_by_idempotency_key returns an event of the log.                    *)
LEMMA FoundIsIn ==
    ASSUME NEW l, NEW n \in Nat, DOMAIN l = 1 .. n, NEW k,
           Governance!EventsWithKey(l, k) # {}
    PROVE  LET i == Governance!FirstOf(Governance!EventsWithKey(l, k))
           IN  i \in DOMAIN l /\ l[i].req.key = k
<1> DEFINE found == Governance!EventsWithKey(l, k)
<1>1. found \subseteq Nat /\ found # {} /\ \A i \in found : i \in DOMAIN l /\ l[i].req.key = k
    BY DEF Governance!EventsWithKey
<1> HIDE DEF found
<1>2. PICK x \in found : \A y \in found : <<y, x>> \notin NatOrder
    BY <1>1, WFMin, NatOrderWellFounded
<1>3. \A y \in found : x <= y
  <2>1. SUFFICES ASSUME NEW y \in found PROVE x <= y
    OBVIOUS
  <2>2. y \in Nat /\ x \in Nat /\ <<y, x>> \notin NatOrder
    BY <1>1, <1>2
  <2>3. ~(y < x)
    BY <2>2 DEF NatOrder
  <2>4. QED
    BY <2>2, <2>3
<1>4. Governance!FirstOf(found) \in found
    BY <1>3 DEF Governance!FirstOf
<1>5. QED
    BY <1>1, <1>4 DEF found

(* The files and the log only grow: what was there is there.               *)
LogGrows ==
    \A i \in DOMAIN events : i \in DOMAIN events' /\ events'[i] = events[i]

FileGrows == \A d : InFile(d) => InFile(d)'

LEMMA EventsStay == LogGrows => \A d : HasEvent(d) => HasEvent(d)'
BY DEF LogGrows, HasEvent

LEMMA DecisionsStay ==
    ASSUME WasherInv, [Next]_vars
    PROVE  FileGrows
<1>1. file.decisions \in Seq(Decision) /\ file'.decisions \in Seq(Decision)
    BY WasherNext DEF WasherInv, TypeOK, Stores, ListsOf
<1>2. IsPrefix(file.decisions, file'.decisions)
    BY StepGrows DEF Stores
<1>3. \A i \in DOMAIN file.decisions :
          i \in DOMAIN file'.decisions /\ file'.decisions[i] = file.decisions[i]
    BY <1>1, <1>2, PrefixPoints
<1>4. QED
    BY <1>3 DEF FileGrows, InFile

(* A decision of the file has its type.                                    *)
LEMMA StoredIsDecision ==
    ASSUME WasherInv, NEW d, InFile(d)
    PROVE  d \in Decision
BY DEF WasherInv, TypeOK, Stores, ListsOf, InFile

(* Growth keeps the events grounded in the file.                           *)
LEMMA MirrorStays ==
    ASSUME EventsMirrorDecisions, FileGrows, UNCHANGED events
    PROVE  EventsMirrorDecisions'
<1> SUFFICES ASSUME NEW i \in DOMAIN events, events[i].req.type = "washer_resolution"
             PROVE  \E j \in DOMAIN file'.decisions : EventMatches(events[i], file'.decisions[j])
    BY DEF EventsMirrorDecisions
<1>1. PICK j \in DOMAIN file.decisions : EventMatches(events[i], file.decisions[j])
    BY DEF EventsMirrorDecisions
<1>2. InFile(file.decisions[j])
    BY <1>1 DEF InFile
<1>3. PICK k \in DOMAIN file'.decisions : file'.decisions[k] = file.decisions[j]
    BY <1>2 DEF FileGrows, InFile
<1>4. QED
    BY <1>1, <1>3

-----------------------------------------------------------------------------
(* What one agent leaves of the others.                                    *)

(* A projection that nothing touches.                                      *)
LEMMA SyncRests ==
    ASSUME FileGrows, LogGrows, NEW a \in Agents, SyncHolds(a),
           syncing'[a] = syncing[a], result'[a] = result[a],
           syncing[a].stage = "command" => greq'[a] = greq[a]
    PROVE  SyncHolds(a)'
BY EventsStay DEF SyncHolds, FileGrows

(* A command that nothing touches, while the log it has read stays.         *)
LEMMA CommandRests ==
    ASSUME LogGrows, NEW a \in Agents, CommandHolds(a),
           gpc'[a] = gpc[a], greq'[a] = greq[a], gprev'[a] = gprev[a],
           graw'[a] = graw[a], greply'[a] = greply[a],
           gpc[a] # "idle" => syncing'[a].stage = syncing[a].stage,
           glock = a => glock' = a,
           events' = events \/ glock # a
    PROVE  CommandHolds(a)'
BY DEF CommandHolds, LogGrows

LEMMA CommandsRest ==
    ASSUME ProjectionInv, UNCHANGED govVars, NEW a \in Agents,
           gpc[a] # "idle" => syncing'[a].stage = syncing[a].stage
    PROVE  CommandHolds(a)'
<1>1. CommandHolds(a) /\ LogGrows
    BY DEF ProjectionInv, govVars, LogGrows
<1>2. QED
    BY <1>1, CommandRests DEF govVars

(* The scan of the tool, while the tool does nothing.                      *)
LEMMA ScanRests ==
    ASSUME ProjectionInv, FileGrows, LogGrows, UNCHANGED <<toolVars, failed, configured>>,
           syncing'[Reconciler] = NoSync <=> syncing[Reconciler] = NoSync,
           syncing'[Reconciler].decision = syncing[Reconciler].decision
    PROVE  ScanHolds'
<1>1. /\ scanned \in Seq(Decision) /\ next \in Nat \ {0}
      /\ \A d : Scanned(d) => InFile(d)
      /\ scanned' = scanned /\ next' = next /\ failed' \in BOOLEAN
    BY DEF ProjectionInv, ScanHolds, toolVars
<1>2. /\ \A d : Scanned(d)' => InFile(d)'
      /\ \A d : Passed(d)' => Passed(d)
      /\ \A d : Under(d) => Under(d)'
    BY <1>1 DEF FileGrows, Scanned, Passed, Under
<1>3. ASSUME ~failed', ~dryRun', configured', NEW d, Passed(d)', d.req.new \in TerminalStatuses
      PROVE  HasEvent(d)' \/ Under(d)'
    BY <1>2, <1>3, EventsStay DEF ProjectionInv, ScanHolds, toolVars
<1>4. QED
    BY <1>1, <1>2, <1>3 DEF ScanHolds

-----------------------------------------------------------------------------
(* The steps of a governance command.                                      *)

LEMMA StartsAreStatuses ==
    {"draft", "under_review", "active", "open"} \subseteq Governance!AnyStatus
<1>1. /\ Governance!Status["review"] = {"draft", "under_review", "approved", "rejected"}
      /\ Governance!Status["publication"] = {"draft", "active", "superseded", "archived"}
      /\ Governance!Status["resolution"] = {"open", "resolved", "rejected", "waived"}
    BY DEF Governance!Status, Governance!TerminalStatuses
<1>2. {"review", "publication", "resolution"} = Governance!Group
    BY DEF Governance!Group
<1>3. QED
    BY <1>1, <1>2 DEF Governance!AnyStatus

(* A command that passes the validators moves from a status.               *)
LEMMA ValidIsFromStatus ==
    ASSUME NEW r, r.cmd \in DOMAIN Governance!Command, NEW p,
           Governance!ValidateDecision(r, p) = "ok"
    PROVE  p \in Governance!AnyStatus
<1>1. <<p, Governance!NewStatus(r)>> \in Governance!Transitions[Governance!GroupOf(r)]
    BY DEF Governance!ValidateDecision
<1>2. Governance!GroupOf(r) \in {"review", "publication", "resolution"}
    BY DEF Governance!GroupOf, Governance!Command
<1>3. p \in {"draft", "under_review", "active", "open"}
    BY <1>1, <1>2 DEF Governance!Transitions
<1>4. QED
    BY <1>3, StartsAreStatuses

(* What a command in flight is about.                                      *)
LEMMA CommandIsOfDecision ==
    ASSUME ProjectionInv, NEW a \in Agents, gpc[a] # "idle"
    PROVE  /\ syncing[a].stage = "command" /\ InFile(syncing[a].decision)
           /\ syncing[a].decision \in Decision
           /\ syncing[a].decision.req.new \in DOMAIN SyncCommand
           /\ greq[a] = SyncRequest(syncing[a].decision, a)
           /\ greq[a] \in LogRequest /\ greq[a].cmd \in DOMAIN Governance!Command
<1>1. /\ syncing[a].stage = "command" /\ InFile(syncing[a].decision)
      /\ syncing[a].decision.req.new \in DOMAIN SyncCommand
      /\ greq[a] = SyncRequest(syncing[a].decision, a)
    BY DEF ProjectionInv, CommandHolds, SyncHolds, NoSync
<1>2. PICK d : d = syncing[a].decision
    OBVIOUS
<1>3. d \in Decision
    BY <1>1, <1>2, StoredIsDecision DEF ProjectionInv
<1>4. SyncRequest(d, a) \in LogRequest
    BY <1>1, <1>2, <1>3, SyncIsLogRequest
<1>5. SyncRequest(d, a).cmd \in DOMAIN Governance!Command
    BY <1>1, <1>2 DEF SyncRequest, SyncCommand, Governance!Command
<1>6. QED
    BY <1>1, <1>2, <1>3, <1>4, <1>5

(* What a step of a command leaves alone, and what it has to keep.         *)
LocalTo(a) ==
    /\ \A b \in Agents \ {a} :
          /\ gpc'[b] = gpc[b] /\ gprev'[b] = gprev[b] /\ graw'[b] = graw[b]
          /\ greply'[b] = greply[b]
          /\ glock = b => glock' = b
          /\ events' = events \/ glock # b
    /\ greq' = greq
    /\ UNCHANGED <<vars, configured, syncVars>>

LEMMA CommandKeeps ==
    ASSUME ProjectionInv, NEW a \in Agents, LocalTo(a), LogTyped', LogGrows,
           EventsMirrorDecisions', CommandHolds(a)'
    PROVE  ProjectionInv'
<1>1. WasherInv' /\ FileGrows
    BY StutterKeeps, DecisionsStay DEF ProjectionInv, LocalTo
<1>2. ScanHolds'
    BY <1>1, ScanRests DEF LocalTo, syncVars
<1>3. ASSUME NEW b \in Agents PROVE CommandHolds(b)' /\ SyncHolds(b)'
  <2>1. SyncHolds(b)'
    BY <1>1, SyncRests DEF LocalTo, syncVars, ProjectionInv
  <2>2. CASE b # a
    <3>1. CommandHolds(b)
      BY DEF ProjectionInv
    <3>2. /\ gpc'[b] = gpc[b] /\ greq'[b] = greq[b] /\ gprev'[b] = gprev[b]
          /\ graw'[b] = graw[b] /\ greply'[b] = greply[b]
          /\ gpc[b] # "idle" => syncing'[b].stage = syncing[b].stage
          /\ glock = b => glock' = b
          /\ events' = events \/ glock # b
      BY <2>2 DEF LocalTo, syncVars
    <3>3. QED
      BY <2>1, <3>1, <3>2, CommandRests
  <2>3. QED
    BY <2>1, <2>2
<1>4. ASSUME NEW w \in Workers PROVE ProjectsAnswer(w)'
    BY DEF ProjectionInv, ProjectsAnswer, AnswersDecision, LocalTo, syncVars, vars
<1>5. QED
    BY <1>1, <1>2, <1>3, <1>4 DEF ProjectionInv

(* The command returns; created and existing events are in the log.        *)
LEMMA CommandEnds ==
    ASSUME ProjectionInv, NEW a \in Agents, NEW answer,
           Governance!Finish(a, answer), gpc[a] # "idle",
           UNCHANGED <<events, greq>>, UNCHANGED <<vars, configured, syncVars>>,
           \A b \in Agents \ {a} : glock = b => glock' = b,
           answer.kind \in {"created", "existing"} =>
               /\ \E i \in DOMAIN events : events[i] = answer.event
               /\ Governance!MatchesRequest(answer.event, greq[a])
    PROVE  ProjectionInv'
<1>1. /\ DOMAIN gpc = Agents /\ DOMAIN graw = Agents /\ DOMAIN greply = Agents
      /\ gprev \in [Agents -> Governance!AnyStatus] /\ LogTyped
    BY DEF ProjectionInv, LogTyped
<1>2. LocalTo(a)
    BY <1>1 DEF LocalTo, Governance!Finish
<1>3. LogTyped'
  <2>1. "draft" \in Governance!AnyStatus
    BY StartsAreStatuses
  <2>2. QED
    BY <1>1, <2>1 DEF LogTyped, Governance!Finish, syncVars
<1>4. CommandHolds(a)'
    BY <1>1 DEF CommandHolds, Governance!Finish
<1>5. LogGrows
    BY DEF LogGrows
<1>6. EventsMirrorDecisions'
    BY DEF ProjectionInv, EventsMirrorDecisions, vars
<1>7. QED
    BY <1>2, <1>3, <1>4, <1>5, <1>6, CommandKeeps

(* The command goes on to a step for which nothing is promised.            *)
LEMMA CommandGoesOn ==
    ASSUME ProjectionInv, NEW a \in Agents, NEW step, gpc[a] # "idle",
           gpc' = [gpc EXCEPT ![a] = step], step \in {"decision", "status", "lock"},
           UNCHANGED <<events, glock, greq, graw, greply>>,
           gprev' \in [Agents -> Governance!AnyStatus],
           \A b \in Agents \ {a} : gprev'[b] = gprev[b],
           UNCHANGED <<vars, configured, syncVars>>
    PROVE  ProjectionInv'
<1>1. LogTyped /\ DOMAIN gpc = Agents
    BY DEF ProjectionInv, LogTyped
<1>2. LocalTo(a)
    BY <1>1 DEF LocalTo
<1>3. LogTyped'
    BY <1>1 DEF LogTyped, syncVars
<1>4. CommandHolds(a)'
    BY <1>1 DEF CommandHolds, ProjectionInv, syncVars
<1>5. LogGrows
    BY DEF LogGrows
<1>6. EventsMirrorDecisions'
    BY DEF ProjectionInv, EventsMirrorDecisions, vars
<1>7. QED
    BY <1>2, <1>3, <1>4, <1>5, <1>6, CommandKeeps

(* The two lookups.                                                        *)
LEMMA FindByKeyKeeps ==
    ASSUME ProjectionInv, NEW a \in Agents, Governance!FindByKey(a),
           UNCHANGED <<vars, configured, syncVars>>
    PROVE  ProjectionInv'
<1> DEFINE found == Governance!EventsWithKey(events, greq[a].key)
           event == events[Governance!FirstOf(found)]
<1>1. gpc[a] = "key" /\ UNCHANGED <<events, glock, greq>> /\ gpc[a] # "idle"
    BY DEF Governance!FindByKey
<1>2. CASE Governance!Goto(a, "decision")
    BY <1>1, <1>2, CommandGoesOn DEF Governance!Goto, ProjectionInv, LogTyped
<1>3. CASE /\ found # {} /\ Governance!MatchesRequest(event, greq[a])
           /\ Governance!Finish(a, Governance!Answer("existing", event))
  <2>1. events \in Seq(LogEvent) /\ Len(events) \in Nat /\ DOMAIN events = 1 .. Len(events)
    BY DEF ProjectionInv, LogTyped
  <2>2. Governance!FirstOf(found) \in DOMAIN events
    BY <1>3, <2>1, FoundIsIn
  <2>3. PICK answer : answer = Governance!Answer("existing", event)
    OBVIOUS
  <2>4. answer.kind = "existing" /\ answer.event = event
    BY <2>3 DEF Governance!Answer
  <2> HIDE DEF found
  <2>5. /\ \E i \in DOMAIN events : events[i] = answer.event
        /\ Governance!MatchesRequest(answer.event, greq[a])
    BY <1>3, <2>2, <2>4
  <2>6. Governance!Finish(a, answer)
    BY <1>3, <2>3
  <2>7. QED
    BY <1>1, <2>5, <2>6, CommandEnds
<1>4. CASE Governance!Finish(a, Governance!Answer("idempotency_conflict", event))
  <2>1. PICK answer : answer = Governance!Answer("idempotency_conflict", event)
    OBVIOUS
  <2>2. answer.kind = "idempotency_conflict"
    BY <2>1 DEF Governance!Answer
  <2>3. Governance!Finish(a, answer)
    BY <1>4, <2>1
  <2>4. QED
    BY <1>1, <2>2, <2>3, CommandEnds
<1>5. QED
    BY <1>2, <1>3, <1>4 DEF Governance!FindByKey

(* A command that ends with a refusal.                                     *)
LEMMA CommandRefused ==
    ASSUME ProjectionInv, NEW a \in Agents, gpc[a] # "idle",
           NEW kind, kind \notin {"created", "existing"}, NEW event,
           Governance!Finish(a, Governance!Answer(kind, event)),
           UNCHANGED <<events, greq>>, UNCHANGED <<vars, configured, syncVars>>,
           \A b \in Agents \ {a} : glock = b => glock' = b
    PROVE  ProjectionInv'
<1>1. PICK answer : answer = Governance!Answer(kind, event)
    OBVIOUS
<1>2. answer.kind \notin {"created", "existing"}
    BY <1>1 DEF Governance!Answer
<1>3. Governance!Finish(a, answer)
    BY <1>1
<1>4. QED
    BY <1>2, <1>3, CommandEnds

LEMMA FindByDecisionKeeps ==
    ASSUME ProjectionInv, NEW a \in Agents, Governance!FindByDecision(a),
           UNCHANGED <<vars, configured, syncVars>>
    PROVE  ProjectionInv'
<1>1. gpc[a] = "decision" /\ UNCHANGED <<events, glock, greq>> /\ gpc[a] # "idle"
    BY DEF Governance!FindByDecision
<1>2. CASE Governance!Goto(a, "status")
    BY <1>1, <1>2, CommandGoesOn DEF Governance!Goto, ProjectionInv, LogTyped
<1>3. CASE Governance!Finish(a, Governance!Answer("duplicate_decision", NoItem))
    BY <1>1, <1>3, CommandRefused
<1>4. QED
    BY <1>2, <1>3 DEF Governance!FindByDecision

(* The validators.                                                         *)
LEMMA ComputeAndValidateKeeps ==
    ASSUME ProjectionInv, NEW a \in Agents, Governance!ComputeAndValidate(a),
           UNCHANGED <<vars, configured, syncVars>>
    PROVE  ProjectionInv'
<1>1. PICK previous :
          previous = Governance!EffectiveStatus(events, greq[a].agg, Governance!GroupOf(greq[a]))
    OBVIOUS
<1>2. PICK verdict : verdict = Governance!ValidateDecision(greq[a], previous)
    OBVIOUS
<1>3. /\ gpc[a] = "status" /\ gpc[a] # "idle" /\ UNCHANGED <<events, glock, greq>>
      /\ IF verdict = "ok"
         THEN /\ gpc' = [gpc EXCEPT ![a] = "lock"]
              /\ gprev' = [gprev EXCEPT ![a] = previous]
              /\ UNCHANGED <<graw, greply>>
         ELSE Governance!Finish(a, Governance!Answer(verdict, NoItem))
    BY <1>1, <1>2 DEF Governance!ComputeAndValidate
<1>4. CASE verdict = "ok"
  <2>1. previous \in Governance!AnyStatus
    BY <1>2, <1>3, <1>4, ValidIsFromStatus, CommandIsOfDecision
  <2>2. gprev \in [Agents -> Governance!AnyStatus]
    BY DEF ProjectionInv, LogTyped
  <2>3. /\ gprev' \in [Agents -> Governance!AnyStatus]
        /\ \A b \in Agents \ {a} : gprev'[b] = gprev[b]
    BY <1>3, <1>4, <2>1, <2>2
  <2>4. QED
    BY <1>3, <1>4, <2>3, CommandGoesOn
<1>5. CASE verdict # "ok"
  <2>1. verdict \notin {"created", "existing"}
    BY <1>2 DEF Governance!ValidateDecision
  <2>2. QED
    BY <1>3, <1>5, <2>1, CommandRefused
<1>6. QED
    BY <1>4, <1>5

(* Nobody else holds the lock when it is entered.                          *)
LEMMA GovernanceLockKeeps ==
    ASSUME ProjectionInv, NEW a \in Agents, Governance!EnterLock(a),
           UNCHANGED <<vars, configured, syncVars>>
    PROVE  ProjectionInv'
<1>1. /\ gpc[a] = "lock" /\ glock = NoWorker /\ glock' = a
      /\ gpc' = [gpc EXCEPT ![a] = "read"]
      /\ UNCHANGED <<events, greq, gprev, graw, greply>>
    BY DEF Governance!EnterLock, Governance!Goto
<1>2. LogTyped /\ DOMAIN gpc = Agents
    BY DEF ProjectionInv, LogTyped
<1>3. \A b \in Agents : b # NoWorker
    BY WasherNulls, ReconcilerAssumption DEF Agents
<1>4. LocalTo(a)
    BY <1>1, <1>2, <1>3 DEF LocalTo
<1>5. LogTyped'
    BY <1>1, <1>2 DEF LogTyped, syncVars
<1>6. CommandHolds(a)'
    BY <1>1, <1>2 DEF CommandHolds, ProjectionInv, syncVars
<1>7. LogGrows
    BY <1>1 DEF LogGrows
<1>8. EventsMirrorDecisions'
    BY <1>1 DEF ProjectionInv, EventsMirrorDecisions, vars
<1>9. QED
    BY <1>4, <1>5, <1>6, <1>7, <1>8, CommandKeeps

LEMMA GovernanceReadKeeps ==
    ASSUME ProjectionInv, NEW a \in Agents, Governance!ReadRaw(a),
           UNCHANGED <<vars, configured, syncVars>>
    PROVE  ProjectionInv'
<1>1. /\ gpc[a] = "read" /\ graw' = [graw EXCEPT ![a] = events]
      /\ gpc' = [gpc EXCEPT ![a] = "write"]
      /\ UNCHANGED <<events, glock, greq, gprev, greply>>
    BY DEF Governance!ReadRaw
<1>2. LogTyped /\ DOMAIN gpc = Agents /\ DOMAIN graw = Agents
    BY DEF ProjectionInv, LogTyped
<1>3. LocalTo(a)
    BY <1>1, <1>2 DEF LocalTo
<1>4. LogTyped'
    BY <1>1, <1>2 DEF LogTyped, syncVars
<1>5. CommandHolds(a)'
    BY <1>1, <1>2 DEF CommandHolds, ProjectionInv, syncVars
<1>6. LogGrows
    BY <1>1 DEF LogGrows
<1>7. EventsMirrorDecisions'
    BY <1>1 DEF ProjectionInv, EventsMirrorDecisions, vars
<1>8. QED
    BY <1>3, <1>4, <1>5, <1>6, <1>7, CommandKeeps

(* The event that is appended tells of the decision that is projected, and *)
(* that one is in the washer file.                                         *)
LEMMA GovernanceWriteKeeps ==
    ASSUME ProjectionInv, NEW a \in Agents, Governance!WriteRaw(a),
           UNCHANGED <<vars, configured, syncVars>>
    PROVE  ProjectionInv'
<1>1. PICK e : e = [req |-> greq[a], previous |-> gprev[a]]
    OBVIOUS
<1>2. /\ gpc[a] = "write" /\ gpc' = [gpc EXCEPT ![a] = "reply"]
      /\ events' = Append(graw[a], e)
      /\ UNCHANGED <<glock, greq, gprev, graw, greply>>
    BY <1>1 DEF Governance!WriteRaw, Governance!Goto
<1>3. LogTyped /\ DOMAIN gpc = Agents /\ gprev[a] \in Governance!AnyStatus
    BY DEF ProjectionInv, LogTyped
<1>4. CommandHolds(a) /\ glock = a /\ graw[a] = events
    BY <1>2 DEF ProjectionInv, CommandHolds
<1>5. PICK d : d = syncing[a].decision
    OBVIOUS
<1>6. /\ InFile(d) /\ d.req.new \in DOMAIN SyncCommand
      /\ greq[a] = SyncRequest(d, a) /\ greq[a] \in LogRequest
    BY <1>2, <1>5, CommandIsOfDecision
<1>7. e \in LogEvent /\ EventMatches(e, d)
    BY <1>1, <1>3, <1>6, ProjectedMatches DEF LogEvent
<1>8. /\ events \in Seq(LogEvent) /\ events' \in Seq(LogEvent)
      /\ \A i \in DOMAIN events : i \in DOMAIN events' /\ events'[i] = events[i]
      /\ Len(events) + 1 \in DOMAIN events' /\ events'[Len(events) + 1] = e
      /\ \A i \in DOMAIN events' : i \in DOMAIN events \/ events'[i] = e
    BY <1>2, <1>3, <1>4, <1>7, AppendedAt DEF LogTyped
<1>9. LocalTo(a)
    BY <1>2, <1>3, <1>4 DEF LocalTo
<1>10. LogTyped'
    BY <1>2, <1>3, <1>8 DEF LogTyped, syncVars
<1>11. CommandHolds(a)'
  <2>1. gpc'[a] = "reply" /\ syncing' = syncing
    BY <1>2, <1>3 DEF syncVars
  <2>2. \E i \in DOMAIN events' : events'[i] = [req |-> greq'[a], previous |-> gprev'[a]]
    BY <1>1, <1>2, <1>8
  <2>3. greply[a].kind \in {"created", "existing"} =>
            \E i \in DOMAIN events' : events'[i] = greply[a].event
    BY <1>4, <1>8 DEF CommandHolds
  <2>4. QED
    BY <1>2, <1>4, <2>1, <2>2, <2>3 DEF CommandHolds
<1>12. LogGrows
    BY <1>8 DEF LogGrows
<1>13. EventsMirrorDecisions'
  <2>1. SUFFICES ASSUME NEW i \in DOMAIN events', events'[i].req.type = "washer_resolution"
                 PROVE  \E j \in DOMAIN file.decisions :
                            EventMatches(events'[i], file.decisions[j])
    BY DEF EventsMirrorDecisions, vars
  <2>2. CASE i \in DOMAIN events
    BY <1>8, <2>1, <2>2 DEF ProjectionInv, EventsMirrorDecisions
  <2>3. CASE events'[i] = e
    BY <1>6, <1>7, <2>3 DEF InFile
  <2>4. QED
    BY <1>8, <2>2, <2>3
<1>14. QED
    BY <1>9, <1>10, <1>11, <1>12, <1>13, CommandKeeps

(* The answer names the event that is there.                               *)
LEMMA GovernanceReplyKeeps ==
    ASSUME ProjectionInv, NEW a \in Agents, Governance!Reply(a),
           UNCHANGED <<vars, configured, syncVars>>
    PROVE  ProjectionInv'
<1>1. PICK e : e = [req |-> greq[a], previous |-> gprev[a]]
    OBVIOUS
<1>2. PICK answer : answer = Governance!Answer("created", e)
    OBVIOUS
<1>3. /\ gpc[a] = "reply" /\ Governance!Finish(a, answer) /\ UNCHANGED <<events, greq>>
      /\ glock' = IF glock = a THEN NoWorker ELSE glock
    BY <1>1, <1>2 DEF Governance!Reply, Governance!Release
<1>4. answer.event = e /\ e.req = greq[a]
    BY <1>1, <1>2 DEF Governance!Answer
<1>5. \E i \in DOMAIN events : events[i] = answer.event
    BY <1>1, <1>3, <1>4 DEF ProjectionInv, CommandHolds
<1>6. Governance!MatchesRequest(answer.event, greq[a])
    BY <1>4 DEF Governance!MatchesRequest
<1>7. QED
    BY <1>3, <1>5, <1>6, CommandEnds

LEMMA CommandStepKeeps ==
    ASSUME ProjectionInv, NEW a \in Agents, CommandStep(a) \/ CommandFails(a)
    PROVE  ProjectionInv'
<1>1. UNCHANGED <<vars, configured, syncVars>>
    BY DEF CommandStep, CommandFails
<1>2. CASE Governance!StoreFailure(a)
  <2>1. PICK kind \in {"server_error", "store_unavailable"} :
            Governance!Finish(a, Governance!Answer(kind, NoItem))
    BY <1>2 DEF Governance!StoreFailure
  <2>2. /\ gpc[a] # "idle" /\ UNCHANGED <<events, greq>>
        /\ glock' = IF glock = a THEN NoWorker ELSE glock
    BY <1>2 DEF Governance!StoreFailure, Governance!Release
  <2>3. QED
    BY <1>1, <2>1, <2>2, CommandRefused
<1>3. CASE Governance!Step(a)
    BY <1>1, <1>3, FindByKeyKeeps, FindByDecisionKeeps, ComputeAndValidateKeeps,
       GovernanceLockKeeps, GovernanceReadKeeps, GovernanceWriteKeeps, GovernanceReplyKeeps
       DEF Governance!Step
<1>4. QED
    BY <1>2, <1>3 DEF CommandStep, CommandFails

-----------------------------------------------------------------------------
(* The projection.                                                         *)

(* A projection that ends: a success has its event, and the tool counts    *)
(* everything else.                                                        *)
LEMMA EndSyncKeeps ==
    ASSUME ProjectionInv, NEW a \in Agents, NEW outcome, EndSync(a, outcome),
           syncing[a] # NoSync, gpc[a] = "idle",
           UNCHANGED <<vars, govVars, configured, toolVars>>,
           outcome \in {"synchronized", "already_synchronized"} =>
               HasEvent(syncing[a].decision),
           a = Reconciler /\ outcome # "failed" /\ configured /\ ~dryRun
               /\ syncing[a].decision.req.new \in TerminalStatuses =>
                   HasEvent(syncing[a].decision)
    PROVE  ProjectionInv'
<1>1. /\ LogTyped /\ DOMAIN syncing = Agents /\ DOMAIN result = Agents /\ ScanHolds
      /\ EventsMirrorDecisions /\ WasherInv
    BY DEF ProjectionInv, LogTyped
<1>2. WasherInv' /\ FileGrows /\ LogGrows
    BY <1>1, StutterKeeps, DecisionsStay DEF LogGrows, govVars
<1>3. PICK d : d = syncing[a].decision
    OBVIOUS
<1>4. /\ syncing' = [syncing EXCEPT ![a] = NoSync]
      /\ result' = [result EXCEPT ![a] = [decision |-> d, outcome |-> outcome]]
      /\ failed' = (failed \/ (a = Reconciler /\ outcome = "failed"))
    BY <1>3 DEF EndSync
<1>5. /\ syncing'[a] = NoSync /\ NoSync.stage = "none"
      /\ result'[a].decision = d /\ result'[a].outcome = outcome
      /\ \A b \in Agents \ {a} : syncing'[b] = syncing[b] /\ result'[b] = result[b]
    BY <1>1, <1>4 DEF NoSync
<1>6. LogTyped'
    BY <1>1, <1>4 DEF LogTyped, govVars
<1>7. ScanHolds'
  <2>1. /\ scanned' = scanned /\ next' = next /\ dryRun' = dryRun /\ configured' = configured
      BY DEF toolVars
  <2>2. CASE a # Reconciler
    <3>1. failed' = failed /\ syncing'[Reconciler] = syncing[Reconciler]
      <4>1. failed \in BOOLEAN
        BY <1>1 DEF ScanHolds
      <4>2. QED
        BY <1>4, <1>5, <2>2, <4>1 DEF Agents
    <3>2. QED
      BY <1>2, <3>1, ScanRests
  <2>3. CASE a = Reconciler
    <3>1. ASSUME ~failed', ~dryRun, configured, NEW x, Passed(x),
                 x.req.new \in TerminalStatuses
          PROVE  HasEvent(x)
      <4>1. ~failed /\ outcome # "failed"
        BY <1>4, <2>3, <3>1
      <4>2. HasEvent(x) \/ Under(x)
        BY <1>1, <3>1, <4>1 DEF ScanHolds
      <4>3. Under(x) => x = d
        BY <1>3, <2>3 DEF Under
      <4>4. QED
        BY <1>3, <2>3, <3>1, <4>1, <4>2, <4>3
    <3>2. ASSUME ~failed', ~dryRun', configured', NEW x, Passed(x)',
                 x.req.new \in TerminalStatuses
          PROVE  HasEvent(x)'
      BY <1>2, <2>1, <3>1, <3>2, EventsStay DEF Passed
    <3>3. \A x : Scanned(x)' => InFile(x)'
      BY <1>1, <1>2, <2>1 DEF ScanHolds, Scanned, FileGrows
    <3>4. failed' \in BOOLEAN
      BY <1>4
    <3>5. QED
      BY <1>1, <2>1, <3>2, <3>3, <3>4 DEF ScanHolds
  <2>4. QED
    BY <2>2, <2>3
<1>8. ASSUME NEW b \in Agents PROVE CommandHolds(b)' /\ SyncHolds(b)'
  <2>1. gpc[b] # "idle" => syncing'[b].stage = syncing[b].stage
    BY <1>5
  <2>2. CommandHolds(b)'
    BY <2>1, CommandsRest DEF ProjectionInv
  <2>3. CASE b = a
    <3>1. outcome \in {"synchronized", "already_synchronized"} => HasEvent(d)'
      BY <1>2, <1>3, EventsStay
    <3>2. QED
      BY <1>5, <2>2, <2>3, <3>1 DEF SyncHolds
  <2>4. CASE b # a
    BY <1>2, <1>5, <2>2, <2>4, SyncRests DEF ProjectionInv, govVars
  <2>5. QED
    BY <2>3, <2>4
<1>9. ASSUME NEW w \in Workers PROVE ProjectsAnswer(w)'
  <2>1. ProjectsAnswer(w) /\ AnswersDecision(w)' = AnswersDecision(w) /\ reply' = reply
    BY DEF ProjectionInv, AnswersDecision, vars
  <2>2. w \in Agents
    BY DEF Agents
  <2>3. QED
    BY <1>3, <1>5, <2>1, <2>2 DEF ProjectsAnswer
<1>10. EventsMirrorDecisions'
    BY <1>1, <1>2, MirrorStays DEF govVars
<1>11. QED
    BY <1>2, <1>6, <1>7, <1>8, <1>9, <1>10 DEF ProjectionInv

(* A projection that looks is at a decision of the file, with no command.  *)
LEMMA LookupIsIdle ==
    ASSUME ProjectionInv, NEW a \in Agents, syncing[a].stage = "lookup"
    PROVE  gpc[a] = "idle" /\ syncing[a] # NoSync /\ InFile(syncing[a].decision)
BY DEF ProjectionInv, CommandHolds, SyncHolds, NoSync

(* The command a projection starts is about its decision.                  *)
LEMMA CommandStarts ==
    ASSUME ProjectionInv, NEW a \in Agents, syncing[a].stage = "lookup",
           syncing[a].decision.req.new \in DOMAIN SyncCommand,
           Governance!Receive(a, SyncRequest(syncing[a].decision, a)),
           syncing' = [syncing EXCEPT ![a].stage = "command"],
           UNCHANGED <<result, failed>>, UNCHANGED <<vars, configured, toolVars>>
    PROVE  ProjectionInv'
<1>1. PICK d : d = syncing[a].decision
    OBVIOUS
<1>2. PICK r : r = SyncRequest(d, a)
    OBVIOUS
<1>3. /\ gpc[a] = "idle" /\ syncing[a] # NoSync /\ InFile(d)
      /\ LogTyped /\ WasherInv /\ EventsMirrorDecisions /\ d.req.new \in DOMAIN SyncCommand
      /\ DOMAIN syncing = Agents /\ DOMAIN gpc = Agents /\ DOMAIN greply = Agents
      /\ greq \in [Agents -> LogRequest \cup {NoRequest}]
    BY <1>1, LookupIsIdle DEF ProjectionInv, LogTyped
<1>4. r \in LogRequest
    BY <1>2, <1>3, StoredIsDecision, SyncIsLogRequest
<1>5. /\ greq' = [greq EXCEPT ![a] = r] /\ gpc' = [gpc EXCEPT ![a] = "key"]
      /\ greply' = [greply EXCEPT ![a] = Governance!NoReply]
      /\ UNCHANGED <<events, glock, gprev, graw>>
    BY <1>1, <1>2 DEF Governance!Receive
<1>6. WasherInv' /\ FileGrows /\ LogGrows
    BY <1>3, <1>5, StutterKeeps, DecisionsStay DEF LogGrows
<1>7. /\ syncing'[a].stage = "command" /\ syncing'[a].decision = d
      /\ syncing'[a] \in [decision : Decision, stage : {"lookup", "command"}]
      /\ syncing'[a] # NoSync
      /\ greq'[a] = r /\ gpc'[a] = "key" /\ greply'[a].kind = "none"
  <2>1. syncing[a] \in [decision : Decision, stage : {"lookup", "command"}]
    BY <1>3 DEF ProjectionInv, SyncHolds
  <2>2. Governance!NoReply.kind = "none"
    BY DEF Governance!NoReply, Governance!Answer
  <2>3. syncing'[a] = [syncing[a] EXCEPT !.stage = "command"]
    BY <1>3
  <2>4. /\ syncing'[a].stage = "command" /\ syncing'[a].decision = d
        /\ syncing'[a] \in [decision : Decision, stage : {"lookup", "command"}]
    BY <1>1, <2>1, <2>3
  <2>5. QED
    BY <1>3, <1>5, <2>2, <2>4 DEF NoSync
<1>8. \A b \in Agents \ {a} :
          /\ syncing'[b] = syncing[b] /\ greq'[b] = greq[b] /\ gpc'[b] = gpc[b]
          /\ greply'[b] = greply[b]
    BY <1>3, <1>5
<1>9. LogTyped'
    BY <1>3, <1>4, <1>5 DEF LogTyped
<1>10. ScanHolds'
  <2>1. /\ syncing'[Reconciler] = NoSync <=> syncing[Reconciler] = NoSync
        /\ syncing'[Reconciler].decision = syncing[Reconciler].decision
    BY <1>1, <1>3, <1>7, <1>8 DEF Agents
  <2>2. QED
    BY <1>6, <2>1, ScanRests
<1>11. ASSUME NEW b \in Agents PROVE CommandHolds(b)' /\ SyncHolds(b)'
  <2>1. CASE b = a
    <3>1. CommandHolds(a)'
      BY <1>7 DEF CommandHolds
    <3>2. InFile(d)'
      BY <1>3, <1>6, <1>7 DEF FileGrows
    <3>3. (result[a].outcome \in {"synchronized", "already_synchronized"} =>
              HasEvent(result[a].decision))'
      BY <1>6, EventsStay DEF ProjectionInv, SyncHolds
    <3>4. QED
      BY <1>2, <1>3, <1>7, <2>1, <3>1, <3>2, <3>3 DEF SyncHolds
  <2>2. CASE b # a
    <3>1. CommandHolds(b) /\ SyncHolds(b)
      BY DEF ProjectionInv
    <3>2. QED
      BY <1>5, <1>6, <1>8, <2>2, <3>1, CommandRests, SyncRests
  <2>3. QED
    BY <2>1, <2>2
<1>12. ASSUME NEW w \in Workers PROVE ProjectsAnswer(w)'
  <2>1. ProjectsAnswer(w) /\ AnswersDecision(w)' = AnswersDecision(w) /\ reply' = reply
    BY DEF ProjectionInv, AnswersDecision, vars
  <2>2. w \in Agents
    BY DEF Agents
  <2>3. QED
    BY <1>1, <1>3, <1>7, <1>8, <2>1, <2>2 DEF ProjectsAnswer
<1>13. EventsMirrorDecisions'
    BY <1>3, <1>5, <1>6, MirrorStays
<1>14. QED
    BY <1>6, <1>9, <1>10, <1>11, <1>12, <1>13 DEF ProjectionInv

(* The lookup under the key of the projection: an event that is found is   *)
(* compared, so that it is the one of this decision or a failure.          *)
LEMMA LookupKeeps ==
    ASSUME ProjectionInv, NEW a \in Agents, Lookup(a)
    PROVE  ProjectionInv'
<1>1. PICK d : d = syncing[a].decision
    OBVIOUS
<1>2. /\ syncing[a].stage = "lookup" /\ syncing[a].decision = d
      /\ UNCHANGED <<vars, configured, toolVars>>
      /\ gpc[a] = "idle" /\ syncing[a] # NoSync
    BY <1>1, LookupIsIdle DEF Lookup
<1> DEFINE found == Governance!EventsWithKey(events, SyncKey(d))
           Ends(outcome) == EndSync(a, outcome) /\ UNCHANGED govVars
<1>3. CASE d.req.new = "open" /\ Ends("skipped_open")
  <2>1. d.req.new \notin TerminalStatuses
    BY <1>3 DEF TerminalStatuses
  <2>2. QED
    BY <1>1, <1>2, <1>3, <2>1, EndSyncKeeps
<1>4. CASE d.req.new \notin DOMAIN SyncCommand /\ Ends("not_representable")
  <2>1. d.req.new \notin TerminalStatuses
    BY <1>4 DEF TerminalStatuses, SyncCommand
  <2>2. QED
    BY <1>1, <1>2, <1>4, <2>1, EndSyncKeeps
<1>5. CASE ~configured /\ Ends("governance_store_unconfigured")
    BY <1>1, <1>2, <1>5, EndSyncKeeps
<1>6. CASE found # {} /\ Ends(IF EventMatches(events[Governance!FirstOf(found)], d)
                              THEN "already_synchronized" ELSE "failed")
  <2>1. events \in Seq(LogEvent) /\ Len(events) \in Nat /\ DOMAIN events = 1 .. Len(events)
    BY DEF ProjectionInv, LogTyped
  <2>2. Governance!FirstOf(found) \in DOMAIN events
    BY <1>6, <2>1, FoundIsIn
  <2> HIDE DEF found
  <2>3. CASE EventMatches(events[Governance!FirstOf(found)], d)
    <3>1. HasEvent(d)
      BY <2>2, <2>3 DEF HasEvent
    <3>2. QED
      BY <1>1, <1>2, <1>6, <2>3, <3>1, EndSyncKeeps
  <2>4. CASE ~EventMatches(events[Governance!FirstOf(found)], d)
    BY <1>1, <1>2, <1>6, <2>4, EndSyncKeeps
  <2>5. QED
    BY <2>3, <2>4
<1>7. CASE a = Reconciler /\ dryRun /\ Ends("would_synchronize")
    BY <1>1, <1>2, <1>7, EndSyncKeeps
<1>8. CASE /\ d.req.new \in DOMAIN SyncCommand
           /\ Governance!Receive(a, SyncRequest(d, a))
           /\ syncing' = [syncing EXCEPT ![a].stage = "command"]
           /\ UNCHANGED <<result, failed>>
    BY <1>1, <1>2, <1>8, CommandStarts
<1>9. QED
  <2> HIDE DEF found
  <2>1. \/ d.req.new = "open" /\ Ends("skipped_open")
        \/ d.req.new \notin DOMAIN SyncCommand /\ Ends("not_representable")
        \/ ~configured /\ Ends("governance_store_unconfigured")
        \/ found # {} /\ Ends(IF EventMatches(events[Governance!FirstOf(found)], d)
                              THEN "already_synchronized" ELSE "failed")
        \/ a = Reconciler /\ dryRun /\ Ends("would_synchronize")
        \/ /\ d.req.new \in DOMAIN SyncCommand
           /\ Governance!Receive(a, SyncRequest(d, a))
           /\ syncing' = [syncing EXCEPT ![a].stage = "command"]
           /\ UNCHANGED <<result, failed>>
    BY <1>1 DEF Lookup, found
  <2>2. QED
    BY <2>1, <1>3, <1>4, <1>5, <1>6, <1>7, <1>8

(* The command has answered.                                               *)
LEMMA ConcludeKeeps ==
    ASSUME ProjectionInv, NEW a \in Agents, Conclude(a) \/ LookupFails(a)
    PROVE  ProjectionInv'
<1>1. CASE LookupFails(a)
  <2>1. /\ syncing[a].stage = "lookup" /\ EndSync(a, "failed")
        /\ UNCHANGED <<vars, govVars, configured, toolVars>>
    BY <1>1 DEF LookupFails
  <2>2. QED
    BY <2>1, LookupIsIdle, EndSyncKeeps
<1>2. CASE Conclude(a)
  <2>1. PICK outcome :
            /\ outcome = CASE greply[a].kind = "created" -> "synchronized"
                           [] greply[a].kind = "existing" -> "already_synchronized"
                           [] OTHER -> "failed"
            /\ EndSync(a, outcome)
    BY <1>2 DEF Conclude
  <2>2. /\ syncing[a].stage = "command" /\ gpc[a] = "idle" /\ syncing[a] # NoSync
        /\ UNCHANGED <<vars, govVars, configured, toolVars>>
    BY <1>2 DEF Conclude, NoSync
  <2>3. CASE greply[a].kind \in {"created", "existing"}
    <3>1. PICK d : d = syncing[a].decision
      OBVIOUS
    <3>2. /\ d.req.new \in DOMAIN SyncCommand /\ greq[a] = SyncRequest(d, a)
      BY <2>2, <3>1 DEF ProjectionInv, SyncHolds
    <3>3. PICK i \in DOMAIN events : events[i] = greply[a].event
      BY <2>3 DEF ProjectionInv, CommandHolds
    <3>4. Governance!MatchesRequest(events[i], greq[a])
      BY <2>3, <3>3 DEF ProjectionInv, CommandHolds
    <3>5. EventMatches(events[i], d)
      BY <3>2, <3>4, AnsweredMatches
    <3>6. HasEvent(syncing[a].decision)
      BY <3>1, <3>5 DEF HasEvent
    <3>7. QED
      BY <2>1, <2>2, <3>6, EndSyncKeeps
  <2>4. CASE greply[a].kind \notin {"created", "existing"}
    <3>1. outcome = "failed"
      BY <2>1, <2>4
    <3>2. QED
      BY <2>1, <2>2, <3>1, EndSyncKeeps
  <2>5. QED
    BY <2>3, <2>4
<1>3. QED
    BY <1>1, <1>2

-----------------------------------------------------------------------------
(* The tool.                                                               *)

(* What the tool leaves alone while no projection of its is touched.        *)
LEMMA ToolKeeps ==
    ASSUME ProjectionInv, UNCHANGED <<vars, govVars, configured, result>>, ScanHolds',
           syncing' = syncing
    PROVE  ProjectionInv'
<1>1. WasherInv' /\ FileGrows /\ LogGrows /\ EventsMirrorDecisions'
    BY StutterKeeps, DecisionsStay, MirrorStays DEF ProjectionInv, LogGrows, govVars
<1>2. LogTyped'
    BY DEF ProjectionInv, LogTyped, govVars
<1>3. ASSUME NEW b \in Agents PROVE CommandHolds(b)' /\ SyncHolds(b)'
    BY <1>1, CommandsRest, SyncRests DEF ProjectionInv, govVars
<1>4. ASSUME NEW w \in Workers PROVE ProjectsAnswer(w)'
    BY DEF ProjectionInv, ProjectsAnswer, AnswersDecision, vars
<1>5. QED
    BY <1>1, <1>2, <1>3, <1>4 DEF ProjectionInv

(* A reconciliation starts on the decisions as they are.                   *)
LEMMA ReconcileKeeps ==
    ASSUME ProjectionInv, NEW dry \in BOOLEAN, Reconcile(dry)
    PROVE  ProjectionInv'
<1>1. /\ scanned' = file.decisions /\ next' = 1 /\ failed' = FALSE
      /\ UNCHANGED <<vars, govVars, configured, result>> /\ syncing' = syncing
    BY DEF Reconcile
<1>2. file.decisions \in Seq(Decision)
    BY DEF ProjectionInv, WasherInv, TypeOK, Stores, ListsOf
<1>3. ASSUME NEW d, Scanned(d)' PROVE InFile(d)'
    BY <1>1, <1>3 DEF Scanned, InFile, vars
<1>4. ASSUME NEW d, Passed(d)' PROVE FALSE
  <2>1. PICK i \in DOMAIN file.decisions : i < 1
    BY <1>1, <1>4 DEF Passed
  <2>2. i \in 1 .. Len(file.decisions) /\ Len(file.decisions) \in Nat
    BY <1>2
  <2>3. QED
    BY <2>1, <2>2
<1>5. scanned' \in Seq(Decision) /\ next' \in Nat \ {0} /\ failed' \in BOOLEAN
  <2>1. FALSE \in BOOLEAN /\ 1 \in Nat \ {0}
    OBVIOUS
  <2>2. scanned' \in Seq(Decision)
    BY <1>1, <1>2
  <2>3. failed' \in BOOLEAN
    BY <1>1, <2>1
  <2>4. QED
    BY <1>1, <2>1, <2>2, <2>3
<1>6. ScanHolds'
    BY <1>3, <1>4, <1>5 DEF ScanHolds
<1>7. QED
    BY <1>1, <1>6, ToolKeeps

(* The next decision is projected: it is in the file, and it is the one    *)
(* the tool is at.                                                         *)
LEMMA ReconcileNextKeeps ==
    ASSUME ProjectionInv, ReconcileNext
    PROVE  ProjectionInv'
<1>1. PICK d : d = scanned[next]
    OBVIOUS
<1>2. /\ next \in DOMAIN scanned /\ syncing[Reconciler] = NoSync
      /\ syncing' = [syncing EXCEPT ![Reconciler] = Start(d)]
      /\ next' = next + 1
      /\ UNCHANGED <<vars, govVars, configured, result, failed, scanned, dryRun>>
    BY <1>1 DEF ReconcileNext
<1>3. /\ LogTyped /\ DOMAIN syncing = Agents /\ Reconciler \in Agents /\ ScanHolds
      /\ WasherInv /\ EventsMirrorDecisions
    BY DEF ProjectionInv, LogTyped, Agents
<1>4. WasherInv' /\ FileGrows /\ LogGrows /\ EventsMirrorDecisions'
    BY <1>2, <1>3, StutterKeeps, DecisionsStay, MirrorStays DEF LogGrows, govVars
<1>5. /\ scanned \in Seq(Decision) /\ next \in Nat \ {0} /\ failed \in BOOLEAN
      /\ d \in Decision /\ InFile(d)
  <2>1. scanned \in Seq(Decision) /\ next \in Nat \ {0} /\ failed \in BOOLEAN
    BY <1>3 DEF ScanHolds
  <2>2. Scanned(d)
    BY <1>1, <1>2 DEF Scanned
  <2>3. InFile(d)
    BY <1>3, <2>2 DEF ScanHolds
  <2>4. QED
    BY <1>3, <2>1, <2>3, StoredIsDecision
<1>6. /\ syncing'[Reconciler] = Start(d) /\ Start(d) # NoSync
      /\ Start(d).decision = d /\ Start(d).stage = "lookup"
      /\ Start(d) \in [decision : Decision, stage : {"lookup", "command"}]
      /\ NoSync.stage = "none"
      /\ \A b \in Agents \ {Reconciler} : syncing'[b] = syncing[b]
  <2>1. /\ Start(d).decision = d /\ Start(d).stage = "lookup" /\ NoSync.stage = "none"
        /\ Start(d) \in [decision : Decision, stage : {"lookup", "command"}]
    BY <1>5 DEF Start, NoSync
  <2>2. QED
    BY <1>2, <1>3, <2>1
<1>7. LogTyped'
    BY <1>2, <1>3 DEF LogTyped, govVars
<1>8. ScanHolds'
  <2>1. ASSUME NEW x, Passed(x)' PROVE Passed(x) \/ x = d
    <3>1. PICK i \in DOMAIN scanned : i < next + 1 /\ scanned[i] = x
      BY <1>2, <2>1 DEF Passed
    <3>2. i \in Nat
      BY <1>5
    <3>3. i < next \/ i = next
      BY <1>5, <3>1, <3>2
    <3>4. QED
      BY <1>1, <3>1, <3>3 DEF Passed
  <2>2. Under(d)'
    BY <1>6 DEF Under
  <2>3. \A x : ~Under(x)
    BY <1>2 DEF Under
  <2>4. ASSUME ~failed', ~dryRun', configured', NEW x, Passed(x)',
               x.req.new \in TerminalStatuses
        PROVE  HasEvent(x)' \/ Under(x)'
    <3>1. CASE x = d
      BY <2>2, <3>1
    <3>2. CASE Passed(x)
      <4>1. HasEvent(x)
        BY <1>2, <1>3, <2>3, <2>4, <3>2 DEF ScanHolds
      <4>2. QED
        BY <1>4, <4>1, EventsStay
    <3>3. QED
      BY <2>1, <2>4, <3>1, <3>2
  <2>5. \A x : Scanned(x)' => InFile(x)'
    BY <1>2, <1>3, <1>4 DEF ScanHolds, Scanned, FileGrows
  <2>6. QED
    BY <1>2, <1>5, <2>4, <2>5 DEF ScanHolds
<1>9. ASSUME NEW b \in Agents PROVE CommandHolds(b)' /\ SyncHolds(b)'
  <2>1. gpc[b] # "idle" => syncing'[b].stage = syncing[b].stage
    BY <1>2, <1>6 DEF ProjectionInv, CommandHolds
  <2>2. CommandHolds(b)'
    BY <1>2, <2>1, CommandsRest
  <2>3. CASE b = Reconciler
    <3>1. InFile(d)'
      BY <1>4, <1>5 DEF FileGrows
    <3>2. (result[b].outcome \in {"synchronized", "already_synchronized"} =>
              HasEvent(result[b].decision))'
      BY <1>2, <1>4, EventsStay DEF ProjectionInv, SyncHolds
    <3>3. QED
      BY <1>6, <2>2, <2>3, <3>1, <3>2 DEF SyncHolds
  <2>4. CASE b # Reconciler
    BY <1>2, <1>4, <1>6, <2>2, <2>4, SyncRests DEF ProjectionInv, govVars
  <2>5. QED
    BY <2>3, <2>4
<1>10. ASSUME NEW w \in Workers PROVE ProjectsAnswer(w)'
  <2>1. ProjectsAnswer(w) /\ AnswersDecision(w)' = AnswersDecision(w) /\ reply' = reply
    BY <1>2 DEF ProjectionInv, AnswersDecision, vars
  <2>2. w \in Agents /\ w # Reconciler
    BY ReconcilerAssumption DEF Agents
  <2>3. QED
    BY <1>2, <1>6, <2>1, <2>2 DEF ProjectsAnswer
<1>11. QED
    BY <1>4, <1>7, <1>8, <1>9, <1>10 DEF ProjectionInv

(* The tool dies: the lock is dropped, and the scan begins anew.           *)
LEMMA ToolCrashKeeps ==
    ASSUME ProjectionInv, ToolCrash
    PROVE  ProjectionInv'
<1>1. /\ UNCHANGED <<events, greq>> /\ UNCHANGED <<vars, configured, result, failed, dryRun>>
      /\ Governance!Finish(Reconciler, Governance!NoReply)
      /\ glock' = IF glock = Reconciler THEN NoWorker ELSE glock
      /\ syncing' = [syncing EXCEPT ![Reconciler] = NoSync]
      /\ scanned' = <<>> /\ next' = 1
    BY DEF ToolCrash, Governance!Crash, Governance!Release
<1>2. /\ LogTyped /\ DOMAIN syncing = Agents /\ Reconciler \in Agents
      /\ WasherInv /\ EventsMirrorDecisions
      /\ DOMAIN gpc = Agents /\ DOMAIN graw = Agents /\ DOMAIN greply = Agents
      /\ gprev \in [Agents -> Governance!AnyStatus] /\ failed \in BOOLEAN
    BY DEF ProjectionInv, LogTyped, Agents, ScanHolds
<1>3. WasherInv' /\ FileGrows /\ LogGrows /\ EventsMirrorDecisions'
    BY <1>1, <1>2, StutterKeeps, DecisionsStay, MirrorStays DEF LogGrows
<1>4. /\ gpc'[Reconciler] = "idle" /\ greply'[Reconciler].kind = "none"
      /\ syncing'[Reconciler] = NoSync /\ NoSync.stage = "none"
      /\ \A b \in Agents \ {Reconciler} :
            /\ gpc'[b] = gpc[b] /\ gprev'[b] = gprev[b] /\ graw'[b] = graw[b]
            /\ greply'[b] = greply[b] /\ syncing'[b] = syncing[b]
  <2>1. Governance!NoReply.kind = "none" /\ NoSync.stage = "none"
    BY DEF Governance!NoReply, Governance!Answer, NoSync
  <2>2. QED
    BY <1>1, <1>2, <2>1 DEF Governance!Finish
<1>5. LogTyped'
    BY <1>1, <1>2, StartsAreStatuses DEF LogTyped, Governance!Finish
<1>6. ScanHolds'
  <2>1. scanned' \in Seq(Decision) /\ next' \in Nat \ {0} /\ failed' \in BOOLEAN
        /\ DOMAIN scanned' = {}
    BY <1>1, <1>2
  <2>2. QED
    BY <2>1 DEF ScanHolds, Scanned, Passed
<1>7. ASSUME NEW b \in Agents PROVE CommandHolds(b)' /\ SyncHolds(b)'
  <2>1. CommandHolds(b) /\ SyncHolds(b)
    BY DEF ProjectionInv
  <2>2. CASE b = Reconciler
    <3>1. CommandHolds(b)'
      BY <1>4, <2>2 DEF CommandHolds
    <3>2. (result[b].outcome \in {"synchronized", "already_synchronized"} =>
              HasEvent(result[b].decision))'
      BY <1>1, <1>3, <2>1, EventsStay DEF SyncHolds
    <3>3. QED
      BY <1>4, <2>2, <3>1, <3>2 DEF SyncHolds
  <2>3. CASE b # Reconciler
    BY <1>1, <1>3, <1>4, <2>1, <2>3, SyncRests, CommandRests
  <2>4. QED
    BY <2>2, <2>3
<1>8. ASSUME NEW w \in Workers PROVE ProjectsAnswer(w)'
  <2>1. ProjectsAnswer(w) /\ AnswersDecision(w)' = AnswersDecision(w) /\ reply' = reply
    BY <1>1 DEF ProjectionInv, AnswersDecision, vars
  <2>2. w \in Agents /\ w # Reconciler
    BY ReconcilerAssumption DEF Agents
  <2>3. QED
    BY <1>1, <1>4, <2>1, <2>2 DEF ProjectsAnswer
<1>9. QED
    BY <1>3, <1>5, <1>6, <1>7, <1>8 DEF ProjectionInv

-----------------------------------------------------------------------------
(* The server.                                                             *)

(* A step of one thread on the washer files leaves the others where they   *)
(* are.                                                                    *)
LEMMA ServerIsLocal ==
    ASSUME TypeOK, NEW w \in Workers,
           \/ Step(w) \/ FileError(w)
           \/ \E r \in Requests : Receive(w, r)
    PROVE  \A v \in Workers \ {w} : pc'[v] = pc[v] /\ reply'[v] = reply[v] /\ req'[v] = req[v]
<1>1. DOMAIN pc = Workers /\ DOMAIN reply = Workers /\ DOMAIN req = Workers
    BY DEF TypeOK
<1>2. ASSUME NEW point, Goto(w, point)
      PROVE  \A v \in Workers \ {w} : pc'[v] = pc[v] /\ reply'[v] = reply[v]
    BY <1>1, <1>2 DEF Goto
<1>3. ASSUME NEW answer, Finish(w, answer)
      PROVE  \A v \in Workers \ {w} : pc'[v] = pc[v] /\ reply'[v] = reply[v]
    BY <1>1, <1>3 DEF Finish
<1>4. ASSUME NEW kind, Refuse(w, kind)
      PROVE  \A v \in Workers \ {w} : pc'[v] = pc[v] /\ reply'[v] = reply[v]
    BY <1>3, <1>4 DEF Refuse
<1>5. ASSUME NEW r \in Requests, Receive(w, r)
      PROVE  \A v \in Workers \ {w} : pc'[v] = pc[v] /\ reply'[v] = reply[v] /\ req'[v] = req[v]
  <2>1. req' = [req EXCEPT ![w] = r]
    BY <1>5 DEF Receive
  <2>2. (\E point : Goto(w, point)) \/ (\E kind : Refuse(w, kind))
    BY <1>5 DEF Receive, ReceiveDecide, ReceiveEvidence, ReceiveClose, ReceiveRead
  <2>3. QED
    BY <1>1, <1>2, <1>4, <2>1, <2>2
<1>6. CASE TestCache(w) \/ SetCache(w) \/ ReadRaw(w)
    BY <1>1, <1>6 DEF TestCache, SetCache, ReadRaw
<1>7. CASE LoadedNothing(w) \/ FileError(w) \/ Show(w)
    BY <1>4, <1>7 DEF LoadedNothing, FileError, Show
<1>8. CASE \/ FindReplay(w) \/ ComputeStatus(w) \/ FindClosure(w) \/ CheckTerminal(w)
           \/ PickDecision(w) \/ ClassifyEvidence(w) \/ DecideClosure(w) \/ EnterLock(w)
           \/ Reload(w)
  <2>1. req' = req
    BY <1>8 DEF FindReplay, ComputeStatus, FindClosure, CheckTerminal, PickDecision,
       ClassifyEvidence, DecideClosure, EnterLock, Reload
  <2>2. (\E point : Goto(w, point)) \/ (\E kind : Refuse(w, kind)) \/ \E x : Finish(w, x)
    BY <1>8 DEF FindReplay, ComputeStatus, FindClosure, CheckTerminal, PickDecision,
       ClassifyEvidence, DecideClosure, EnterLock, Reload
  <2>3. QED
    BY <1>2, <1>3, <1>4, <2>1, <2>2
<1>9. CASE Write(w)
  <2>1. req' = req
    BY <1>9 DEF Write
  <2>2. \/ \E x : Finish(w, x)
        \/ \E kind : Refuse(w, kind)
        \/ \E x : pc' = [pc EXCEPT ![w] = "reload"] /\ reply' = [reply EXCEPT ![w] = x]
    BY <1>9 DEF Write
  <2>3. QED
    BY <1>1, <1>3, <1>4, <2>1, <2>2
<1>10. QED
    BY <1>5, <1>6, <1>7, <1>8, <1>9 DEF Step

(* A thread that has answered for a decision projects it: it is in the     *)
(* file by then.                                                           *)
LEMMA ServerKeeps ==
    ASSUME ProjectionInv, NEW w \in Workers, syncing[w] = NoSync, HandOver(w),
           \/ Step(w) \/ FileError(w)
           \/ \E r \in Requests : Receive(w, r)
    PROVE  ProjectionInv'
<1>1. /\ LogTyped /\ DOMAIN syncing = Agents /\ WasherInv /\ EventsMirrorDecisions /\ TypeOK
      /\ w \in Agents /\ w # Reconciler /\ [Next]_vars
    BY ReconcilerAssumption DEF ProjectionInv, LogTyped, Agents, WasherInv, Next
<1>2. PICK d, hand :
          /\ d = reply'[w].item
          /\ hand = IF pc'[w] = "idle" /\ req'[w].op = "decide"
                       /\ reply'[w].kind \in {"created", "replayed"}
                    THEN Start(d) ELSE NoSync
    OBVIOUS
<1>3. /\ syncing' = [syncing EXCEPT ![w] = hand]
      /\ UNCHANGED <<govVars, configured, result, failed, toolVars>>
    BY <1>2 DEF HandOver
<1>4. /\ syncing'[w] = hand
      /\ \A b \in Agents \ {w} : syncing'[b] = syncing[b]
    BY <1>1, <1>3
<1>5. WasherInv' /\ FileGrows /\ LogGrows /\ EventsMirrorDecisions'
    BY <1>1, <1>3, WasherNext, DecisionsStay, MirrorStays DEF LogGrows, govVars
<1>6. LogTyped'
    BY <1>1, <1>3 DEF LogTyped, govVars
<1>7. ScanHolds'
    BY <1>1, <1>3, <1>4, <1>5, ScanRests DEF Agents
<1>8. /\ NoSync.stage = "none"
      /\ Start(d).stage = "lookup" /\ Start(d).decision = d /\ Start(d) # NoSync
      /\ Start(d) = [decision |-> d, stage |-> "lookup"]
    BY DEF NoSync, Start
<1>9. ASSUME AnswersDecision(w)'
      PROVE  hand = Start(d) /\ InFile(d)' /\ d \in Decision
  <2>1. hand = Start(d)
    BY <1>2, <1>9 DEF AnswersDecision
  <2>2. Answered(w)' /\ file'.decisions \in Seq(Decision)
    BY <1>5 DEF WasherInv, WorkerInv, TypeOK, Stores, ListsOf
  <2>3. Target(w)' = "decisions"
    BY <1>9 DEF AnswersDecision, Target, StoreOf
  <2>4. PICK i \in DOMAIN file'.decisions : file'.decisions[i] = d
    BY <1>2, <1>9, <2>2, <2>3 DEF AnswersDecision, Answered
  <2>5. QED
    BY <2>1, <2>2, <2>4 DEF InFile
<1>10. ~AnswersDecision(w)' => hand = NoSync
    BY <1>2 DEF AnswersDecision
<1>11. ASSUME NEW b \in Agents PROVE CommandHolds(b)' /\ SyncHolds(b)'
  <2>1. CommandHolds(b) /\ SyncHolds(b)
    BY DEF ProjectionInv
  <2>2. CASE b # w
    BY <1>3, <1>4, <1>5, <2>1, <2>2, CommandRests, SyncRests DEF govVars
  <2>3. CASE b = w
    <3>1. gpc[b] = "idle"
      BY <1>8, <2>1, <2>3 DEF CommandHolds
    <3>2. CommandHolds(b)'
      BY <1>3, <3>1, CommandsRest
    <3>3. (result[b].outcome \in {"synchronized", "already_synchronized"} =>
              HasEvent(result[b].decision))'
      BY <1>3, <1>5, <2>1, EventsStay DEF SyncHolds
    <3>4. CASE hand = NoSync
      BY <1>4, <1>8, <2>3, <3>2, <3>3, <3>4 DEF SyncHolds
    <3>5. CASE hand = Start(d) /\ InFile(d)' /\ d \in Decision
      BY <1>4, <1>8, <2>3, <3>2, <3>3, <3>5 DEF SyncHolds
    <3>6. QED
      BY <1>9, <1>10, <3>2, <3>4, <3>5
  <2>4. QED
    BY <2>2, <2>3
<1>12. ASSUME NEW v \in Workers PROVE ProjectsAnswer(v)'
  <2>1. CASE v = w
    BY <1>2, <1>4, <1>8, <1>9, <1>10, <2>1 DEF ProjectsAnswer
  <2>2. CASE v # w
    <3>1. ProjectsAnswer(v) /\ v \in Agents
      BY DEF ProjectionInv, Agents
    <3>2. pc'[v] = pc[v] /\ reply'[v] = reply[v] /\ req'[v] = req[v]
      BY <1>1, <2>2, ServerIsLocal
    <3>3. QED
      BY <1>3, <1>4, <2>2, <3>1, <3>2 DEF ProjectsAnswer, AnswersDecision
  <2>3. QED
    BY <2>1, <2>2
<1>13. QED
    BY <1>5, <1>6, <1>7, <1>11, <1>12 DEF ProjectionInv

(* The server dies, with the commands of its threads; the tool lives on.   *)
LEMMA ServerCrashKeeps ==
    ASSUME ProjectionInv, ServerCrash
    PROVE  ProjectionInv'
<1>1. /\ LogTyped /\ WasherInv /\ EventsMirrorDecisions /\ [Next]_vars /\ Crash
      /\ Reconciler \in Agents \ Workers /\ Workers \subseteq Agents
    BY ReconcilerAssumption DEF ProjectionInv, ServerCrash, Agents, Next
<1>2. /\ UNCHANGED <<events, greq, configured, result, failed, toolVars>>
      /\ \A a \in Agents \ Workers :
            /\ gpc'[a] = gpc[a] /\ gprev'[a] = gprev[a] /\ graw'[a] = graw[a]
            /\ greply'[a] = greply[a] /\ syncing'[a] = syncing[a]
            /\ glock = a => glock' = a
      /\ \A w \in Workers :
            /\ gpc'[w] = "idle" /\ greply'[w] = Governance!NoReply /\ syncing'[w] = NoSync
    BY <1>1 DEF ServerCrash
<1>3. WasherInv' /\ FileGrows /\ LogGrows /\ EventsMirrorDecisions'
    BY <1>1, <1>2, WasherNext, DecisionsStay, MirrorStays DEF LogGrows
<1>4. LogTyped'
  <2>1. /\ events' \in Seq(LogEvent) /\ greq' \in [Agents -> LogRequest \cup {NoRequest}]
        /\ DOMAIN result' = Agents
    BY <1>1, <1>2 DEF LogTyped
  <2>2. gprev' \in [Agents -> Governance!AnyStatus]
    BY <1>1, StartsAreStatuses DEF LogTyped, ServerCrash
  <2>3. /\ DOMAIN gpc' = Agents /\ DOMAIN graw' = Agents /\ DOMAIN greply' = Agents
        /\ DOMAIN syncing' = Agents
    BY DEF ServerCrash
  <2>4. QED
    BY <2>1, <2>2, <2>3 DEF LogTyped
<1>5. ScanHolds'
    BY <1>1, <1>2, <1>3, ScanRests
<1>6. NoSync.stage = "none" /\ Governance!NoReply.kind = "none"
    BY DEF NoSync, Governance!NoReply, Governance!Answer
<1>7. ASSUME NEW b \in Agents PROVE CommandHolds(b)' /\ SyncHolds(b)'
  <2>1. CommandHolds(b) /\ SyncHolds(b)
    BY DEF ProjectionInv
  <2>2. CASE b \in Workers
    <3>1. CommandHolds(b)'
      BY <1>2, <1>6, <2>2 DEF CommandHolds
    <3>2. (result[b].outcome \in {"synchronized", "already_synchronized"} =>
              HasEvent(result[b].decision))'
      BY <1>2, <1>3, <2>1, EventsStay DEF SyncHolds
    <3>3. QED
      BY <1>2, <1>6, <2>2, <3>1, <3>2 DEF SyncHolds
  <2>3. CASE b \notin Workers
    BY <1>2, <1>3, <2>1, <2>3, SyncRests, CommandRests
  <2>4. QED
    BY <2>2, <2>3
<1>8. ASSUME NEW w \in Workers PROVE ProjectsAnswer(w)'
  <2>1. reply'[w].kind = "none" /\ syncing'[w] = NoSync
    BY <1>1, <1>2 DEF Crash, NoReply, Answer
  <2>2. QED
    BY <2>1 DEF ProjectsAnswer, AnswersDecision
<1>9. QED
    BY <1>3, <1>4, <1>5, <1>7, <1>8 DEF ProjectionInv

-----------------------------------------------------------------------------

LEMMA ProjectionInit == GovernedInit => ProjectionInv
<1> SUFFICES ASSUME GovernedInit PROVE ProjectionInv
    OBVIOUS
<1>1. Init /\ InitGovernance /\ InitSync /\ WasherInv
    BY WasherInit DEF GovernedInit
<1>2. /\ events \in OtherEvents
      /\ events \in Seq([req : OtherRequests, previous : Governance!AnyStatus])
      /\ \A i \in DOMAIN events : events[i].req.type # "washer_resolution"
    BY <1>1, OtherEventsAssumption DEF InitGovernance
<1>3. events \in Seq(LogEvent)
  <2>1. [req : OtherRequests, previous : Governance!AnyStatus] \subseteq LogEvent
    BY DEF LogEvent, LogRequest
  <2>2. QED
    BY <1>2, <2>1, SeqMonotonic
<1>4. LogTyped
    BY <1>1, <1>3, StartsAreStatuses DEF LogTyped, InitGovernance, InitSync
<1>5. ScanHolds
  <2>1. scanned = <<>> /\ next = 1 /\ failed = FALSE
    BY <1>1 DEF InitSync
  <2>2. scanned \in Seq(Decision) /\ DOMAIN scanned = {} /\ next \in Nat \ {0}
    BY <2>1
  <2>3. failed \in BOOLEAN
    BY <2>1
  <2>4. QED
    BY <2>2, <2>3 DEF ScanHolds, Scanned, Passed
<1>6. ASSUME NEW a \in Agents PROVE CommandHolds(a) /\ SyncHolds(a)
    BY <1>1 DEF InitGovernance, InitSync, CommandHolds, SyncHolds, NoSync, NoResult,
       Governance!NoReply, Governance!Answer
<1>7. ASSUME NEW w \in Workers PROVE ProjectsAnswer(w)
    BY <1>1 DEF Init, InitSync, Agents, ProjectsAnswer, AnswersDecision, NoReply, Answer
<1>8. EventsMirrorDecisions
    BY <1>2 DEF EventsMirrorDecisions
<1>9. QED
    BY <1>1, <1>4, <1>5, <1>6, <1>7, <1>8 DEF ProjectionInv

LEMMA ProjectionNext == ProjectionInv /\ [GovernedNext]_allVars => ProjectionInv'
<1> SUFFICES ASSUME ProjectionInv, [GovernedNext]_allVars PROVE ProjectionInv'
    OBVIOUS
<1>1. CASE UNCHANGED allVars
  <2>1. /\ UNCHANGED <<vars, govVars, configured, result>> /\ syncing' = syncing
        /\ UNCHANGED <<toolVars, failed, configured>>
    BY <1>1 DEF allVars, syncVars
  <2>2. FileGrows /\ LogGrows
    BY <2>1, DecisionsStay DEF ProjectionInv, LogGrows, govVars
  <2>3. ScanHolds'
    BY <2>1, <2>2, ScanRests
  <2>4. QED
    BY <2>1, <2>3, ToolKeeps
<1>2. ASSUME NEW w \in Workers,
             ServerStep(w) \/ ServerFails(w) \/ \E r \in Requests : Call(w, r)
      PROVE  ProjectionInv'
    BY <1>2, ServerKeeps DEF ServerStep, ServerFails, Call
<1>3. ASSUME NEW a \in Agents,
             Lookup(a) \/ Conclude(a) \/ CommandStep(a) \/ LookupFails(a) \/ CommandFails(a)
      PROVE  ProjectionInv'
    BY <1>3, LookupKeeps, ConcludeKeeps, CommandStepKeeps
<1>4. CASE ServerCrash \/ ToolCrash \/ ReconcileNext \/ \E dry \in BOOLEAN : Reconcile(dry)
    BY <1>4, ServerCrashKeeps, ToolCrashKeeps, ReconcileNextKeeps, ReconcileKeeps
<1>5. QED
    BY <1>1, <1>2, <1>3, <1>4 DEF GovernedNext

(* The projection by any number of server threads and by the tool at once, *)
(* through crashes of either, failures of the store and events of others:  *)
(* the thread that answers for a decision projects it, an event tells of a *)
(* decision in the file, a success that is reported has its event, and     *)
(* after exit code 0 of the tool every terminal decision it found has one  *)
(* (sync_washer_decision, reconcile).                                      *)
THEOREM ProjectionInvariant == GovernedSpec => []ProjectionHolds
<1>1. ProjectionInv => ProjectionHolds
  <2> SUFFICES ASSUME ProjectionInv PROVE ProjectionHolds
    OBVIOUS
  <2>1. EveryAnswerIsProjected
    BY DEF ProjectionInv, ProjectsAnswer, AnswersDecision, EveryAnswerIsProjected
  <2>2. SyncedIsStored
    BY DEF ProjectionInv, SyncHolds, SyncedIsStored, HasEvent
  <2>3. ASSUME Reconciled, ~failed, ~dryRun, configured,
               NEW i \in DOMAIN scanned, scanned[i].req.new \in TerminalStatuses
        PROVE  \E j \in DOMAIN events : EventMatches(events[j], scanned[i])
    <3>1. scanned \in Seq(Decision) /\ next \in Nat /\ ScanHolds
      BY DEF ProjectionInv, ScanHolds
    <3>2. i \in 1 .. Len(scanned) /\ Len(scanned) \in Nat /\ next > Len(scanned)
      BY <2>3, <3>1 DEF Reconciled
    <3>3. PICK d : d = scanned[i]
      OBVIOUS
    <3>4. Passed(d)
      BY <3>1, <3>2, <3>3 DEF Passed
    <3>5. ~Under(d)
      BY <2>3 DEF Reconciled, Under
    <3>6. HasEvent(d)
      BY <2>3, <3>1, <3>3, <3>4, <3>5 DEF ScanHolds
    <3>7. QED
      BY <3>3, <3>6 DEF HasEvent
  <2>4. ExitZeroMeansProjected
    BY <2>3 DEF ExitZeroMeansProjected
  <2>5. QED
    BY <2>1, <2>2, <2>4 DEF ProjectionHolds, ProjectionInv
<1>2. QED
    BY <1>1, ProjectionInit, ProjectionNext, PTL DEF GovernedSpec

-----------------------------------------------------------------------------
(* Callers that do not overlap.                                            *)

(* With one thread a cache is empty or is the file, except between a write  *)
(* and the reload after it.                                                *)
CachesExact(w) ==
    \A s \in Stores : \/ cache[s] = Miss \/ cache[s] = file[s]
                      \/ pc[w] = "reload" /\ s = Target(w)

HandExact(w) ==
    phase[w] = "parsed" => pc[w] \in DOMAIN StoreAt /\ buf[w] = file[StoreAt[pc[w]]]

KeyFree(l, k) == \A i \in DOMAIN l : l[i].req.key # k

(* What decide_resolution has read is so.                                  *)
DecideReads(w) ==
    /\ pc[w] = "find" => req[w].key # BlankKey
    /\ pc[w] = "status" \/ (InWriter(w) /\ req[w].op = "decide") =>
           /\ req[w].key # BlankKey /\ req[w].res \in Resolutions
           /\ KeyFree(file.decisions, req[w].key)
    /\ InWriter(w) /\ req[w].op = "decide" =>
           ctx[w].previous = EffectiveStatus(file.decisions, req[w].res)

(* What close_resolution has read is so, or there is a reason not to close.*)
CloseReads(w) ==
    /\ pc[w] \in {"terminal", "evidence", "closure"} =>
           \/ "not_terminal" \in ctx[w].blocking
           \/ EffectiveStatus(file.decisions, req[w].res) \in TerminalStatuses
    /\ ctx[w].decision # NoItem /\ pc[w] # "reload" =>
           ctx[w].decision = LastDecision(file.decisions, req[w].res)
    /\ pc[w] = "closure" =>
           /\ ctx[w].verified = Verified(file.evidence, req[w].res)
           /\ "corrupted" \in ctx[w].blocking \/ Corrupted(file.evidence, req[w].res) = {}
           /\ "unverified" \in ctx[w].blocking \/ ctx[w].verified # {}
    /\ InWriter(w) /\ req[w].op = "close" =>
           /\ ctx[w].decision = LastDecision(file.decisions, req[w].res)
           /\ EffectiveStatus(file.decisions, req[w].res) \in TerminalStatuses
           /\ Corrupted(file.evidence, req[w].res) = {}
           /\ ctx[w].verified = Verified(file.evidence, req[w].res) /\ ctx[w].verified # {}

ReadsHold(w) == CachesExact(w) /\ HandExact(w) /\ DecideReads(w) /\ CloseReads(w)

(* A request that ends has read nothing.                                   *)
LEMMA EndedReads ==
    ASSUME NEW w \in Workers, CachesExact(w)', pc'[w] = "idle", phase'[w] = "test",
           ctx'[w] = NoContext
    PROVE  ReadsHold(w)'
BY DEF ReadsHold, HandExact, DecideReads, CloseReads, InWriter, NoContext

LEMMA RefusedReads ==
    ASSUME WasherInv, NEW w \in Workers, CachesExact(w), pc[w] # "reload",
           UNCHANGED <<file, cache>>, NEW answer, Finish(w, answer)
    PROVE  ReadsHold(w)'
<1>1. TypeOK
    BY DEF WasherInv
<1>2. pc'[w] = "idle" /\ phase'[w] = "test" /\ ctx'[w] = NoContext
    BY <1>1 DEF Finish, TypeOK
<1>3. CachesExact(w)'
    BY DEF CachesExact
<1>4. QED
    BY <1>2, <1>3, EndedReads

(* The list that has been loaded is the file.                              *)
LEMMA LoadedIsFile ==
    ASSUME WasherInv, NEW w \in Workers, CachesExact(w), NEW point \in DOMAIN StoreAt,
           Loaded(w, point)
    PROVE  View(w) = file[StoreAt[point]] /\ pc[w] = point /\ phase[w] = "return"
BY DEF Loaded, View, CachesExact, StoreAt, Stores

(* A request that goes on, its request and the files as they are.           *)
LEMMA MovedOn ==
    ASSUME WasherInv, NEW w \in Workers, NEW point, Goto(w, point), CachesExact(w),
           pc[w] # "reload", UNCHANGED <<file, cache>>
    PROVE  /\ pc'[w] = point /\ phase'[w] = "test"
           /\ CachesExact(w)' /\ HandExact(w)'
<1>1. TypeOK
    BY DEF WasherInv
<1>2. pc'[w] = point /\ phase'[w] = "test"
    BY <1>1 DEF Goto, TypeOK
<1>3. QED
    BY <1>2 DEF CachesExact, HandExact

LEMMA LoadKeepsReads ==
    ASSUME WasherInv, NEW w \in Workers, ReadsHold(w), TestCache(w) \/ SetCache(w)
    PROVE  ReadsHold(w)'
<1>1. TypeOK /\ DOMAIN cache = Stores /\ CachesExact(w) /\ pc[w] \in DOMAIN StoreAt
    BY DEF WasherInv, TypeOK, ReadsHold, TestCache, SetCache
<1>2. UNCHANGED <<file, pc, req, ctx>>
    BY DEF TestCache, SetCache
<1>3. DecideReads(w)' /\ CloseReads(w)'
    BY <1>2 DEF ReadsHold, DecideReads, CloseReads, InWriter
<1>4. PICK s \in Stores : s = StoreAt[pc[w]]
    BY <1>1 DEF StoreAt, Stores
<1>5. CASE TestCache(w)
  <2>1. CachesExact(w)'
    BY <1>1, <1>2, <1>5 DEF TestCache, CachesExact, Target
  <2>2. HandExact(w)'
    BY <1>1, <1>2, <1>4, <1>5 DEF TestCache, HandExact, TypeOK
  <2>3. QED
    BY <1>3, <2>1, <2>2 DEF ReadsHold
<1>6. CASE SetCache(w)
  <2>1. cache' = [cache EXCEPT ![s] = file[s]] /\ phase'[w] = "return"
    BY <1>1, <1>4, <1>6 DEF SetCache, ReadsHold, HandExact, TypeOK
  <2>2. CachesExact(w)'
    BY <1>1, <1>2, <2>1 DEF CachesExact, Target
  <2>3. HandExact(w)'
    BY <2>1 DEF HandExact
  <2>4. QED
    BY <1>3, <2>2, <2>3 DEF ReadsHold
<1>7. QED
    BY <1>5, <1>6

LEMMA ReceiveReads ==
    ASSUME WasherInv, NEW w \in Workers, ReadsHold(w), NEW r \in Requests, Receive(w, r)
    PROVE  ReadsHold(w)'
<1>1. /\ TypeOK /\ CachesExact(w) /\ pc[w] = "idle" /\ UNCHANGED <<file, cache>>
      /\ req'[w] = r /\ ctx[w] = NoContext
    BY DEF WasherInv, TypeOK, ReadsHold, Receive, WorkerInv, ClosureReady
<1>2. ASSUME NEW kind, Refuse(w, kind) PROVE ReadsHold(w)'
    BY <1>1, <1>2, RefusedReads DEF Refuse
<1>3. ASSUME NEW point \in {"find", "lock", "closed", "current", "history", "listed", "shown"},
             Goto(w, point), ctx' = ctx,
             point = "find" => r.key # BlankKey,
             point = "lock" => r.op = "evidence"
      PROVE  ReadsHold(w)'
  <2>1. pc'[w] = point /\ CachesExact(w)' /\ HandExact(w)' /\ NoContext.decision = NoItem
    BY <1>1, <1>3, MovedOn DEF NoContext
  <2>2. QED
    BY <1>1, <1>3, <2>1 DEF ReadsHold, DecideReads, CloseReads, InWriter
<1>4. CASE r.op = "decide"
  <2>1. \/ Refuse(w, "missing_key")
        \/ Goto(w, "find") /\ ctx' = ctx /\ r.key # BlankKey
    BY <1>4 DEF Receive, ReceiveDecide
  <2>2. QED
    BY <1>2, <1>3, <2>1
<1>5. CASE r.op = "evidence"
  <2>1. \/ \E kind : Refuse(w, kind)
        \/ Goto(w, "lock") /\ ctx' = ctx
    BY <1>5 DEF Receive, ReceiveEvidence
  <2>2. QED
    BY <1>2, <1>3, <1>5, <2>1
<1>6. CASE r.op = "close"
  <2>1. \/ \E kind : Refuse(w, kind)
        \/ Goto(w, "closed") /\ ctx' = ctx
    BY <1>6 DEF Receive, ReceiveClose
  <2>2. QED
    BY <1>2, <1>3, <2>1
<1>7. CASE r.op \notin {"decide", "evidence", "close"}
  <2>1. r.op \in DOMAIN FirstRead
    BY <1>7, WasherOperations DEF StoreOf
  <2>2. FirstRead[r.op] \in {"current", "history", "listed", "shown"}
    BY <2>1 DEF FirstRead
  <2>3. \/ \E kind : Refuse(w, kind)
        \/ Goto(w, FirstRead[r.op]) /\ ctx' = ctx
    BY <1>7 DEF Receive, ReceiveRead
  <2>4. QED
    BY <1>2, <1>3, <2>2, <2>3
<1>8. QED
    BY <1>4, <1>5, <1>6, <1>7

LEMMA FindReplayReads ==
    ASSUME WasherInv, NEW w \in Workers, ReadsHold(w), FindReplay(w)
    PROVE  ReadsHold(w)'
<1>1. /\ TypeOK /\ CachesExact(w) /\ Loaded(w, "find") /\ UNCHANGED <<file, cache, req>>
      /\ req[w].key # BlankKey /\ pc[w] = "find"
    BY DEF WasherInv, ReadsHold, FindReplay, DecideReads, Loaded
<1>2. View(w) = file.decisions
    BY <1>1, LoadedIsFile DEF StoreAt
<1>3. \/ \E answer : Finish(w, answer)
      \/ /\ WithKey(View(w), req[w].key) = {} /\ req[w].res \in Resolutions
         /\ Goto(w, "status") /\ ctx' = ctx
    BY DEF FindReplay, Refuse
<1>4. ASSUME WithKey(View(w), req[w].key) = {}, req[w].res \in Resolutions,
             Goto(w, "status"), ctx' = ctx
      PROVE  ReadsHold(w)'
  <2>1. pc'[w] = "status" /\ CachesExact(w)' /\ HandExact(w)'
    BY <1>1, <1>4, MovedOn
  <2>2. KeyFree(file.decisions, req[w].key)
    BY <1>2, <1>4 DEF WithKey, KeyFree
  <2>3. QED
    BY <1>1, <1>4, <2>1, <2>2 DEF ReadsHold, DecideReads, CloseReads, InWriter
<1>5. QED
    BY <1>1, <1>3, <1>4, RefusedReads

LEMMA ComputeStatusReads ==
    ASSUME WasherInv, NEW w \in Workers, ReadsHold(w), ComputeStatus(w)
    PROVE  ReadsHold(w)'
<1>1. /\ TypeOK /\ CachesExact(w) /\ Loaded(w, "status") /\ UNCHANGED <<file, cache, req>>
      /\ pc[w] = "status" /\ req[w].op = "decide" /\ ctx[w] \in Context
    BY DEF WasherInv, TypeOK, ReadsHold, ComputeStatus, Loaded, WorkerInv, Placed
<1>2. View(w) = file.decisions
    BY <1>1, LoadedIsFile DEF StoreAt
<1>3. PICK previous : previous = EffectiveStatus(View(w), req[w].res)
    OBVIOUS
<1>4. \/ \E answer : Finish(w, answer)
      \/ Goto(w, "lock") /\ ctx' = [ctx EXCEPT ![w].previous = previous]
    BY <1>3 DEF ComputeStatus, Refuse
<1>5. ASSUME Goto(w, "lock"), ctx' = [ctx EXCEPT ![w].previous = previous]
      PROVE  ReadsHold(w)'
  <2>1. pc'[w] = "lock" /\ CachesExact(w)' /\ HandExact(w)'
    BY <1>1, <1>5, MovedOn
  <2>2. ctx'[w] = [ctx[w] EXCEPT !.previous = previous]
    BY <1>1, <1>5 DEF TypeOK
  <2>3. ctx'[w].previous = previous /\ ctx'[w].decision = ctx[w].decision
    BY <1>1, <2>2 DEF Context
  <2>4. DecideReads(w)'
    BY <1>1, <1>2, <1>3, <2>1, <2>3 DEF ReadsHold, DecideReads, InWriter
  <2>5. CloseReads(w)'
    BY <1>1, <2>1, <2>3 DEF ReadsHold, CloseReads, InWriter
  <2>6. QED
    BY <2>1, <2>4, <2>5 DEF ReadsHold
<1>6. QED
    BY <1>1, <1>4, <1>5, RefusedReads

LEMMA FindClosureReads ==
    ASSUME WasherInv, NEW w \in Workers, ReadsHold(w), FindClosure(w)
    PROVE  ReadsHold(w)'
<1>1. /\ TypeOK /\ CachesExact(w) /\ UNCHANGED <<file, cache, req>> /\ pc[w] = "closed"
    BY DEF WasherInv, ReadsHold, FindClosure, Loaded
<1>2. \/ \E answer : Finish(w, answer)
      \/ Goto(w, "current") /\ ctx' = ctx
    BY DEF FindClosure, Refuse
<1>3. ASSUME Goto(w, "current"), ctx' = ctx PROVE ReadsHold(w)'
  <2>1. pc'[w] = "current" /\ CachesExact(w)' /\ HandExact(w)'
    BY <1>1, <1>3, MovedOn
  <2>2. QED
    BY <1>1, <1>3, <2>1 DEF ReadsHold, DecideReads, CloseReads, InWriter
<1>4. QED
    BY <1>1, <1>2, <1>3, RefusedReads

LEMMA CheckTerminalReads ==
    ASSUME WasherInv, NEW w \in Workers, ReadsHold(w), CheckTerminal(w)
    PROVE  ReadsHold(w)'
<1>1. /\ TypeOK /\ CachesExact(w) /\ Loaded(w, "current") /\ UNCHANGED <<file, cache, req>>
      /\ pc[w] = "current" /\ ctx[w] \in Context
    BY DEF WasherInv, TypeOK, ReadsHold, CheckTerminal, Loaded
<1>2. View(w) = file.decisions
    BY <1>1, LoadedIsFile DEF StoreAt
<1>3. \E point \in {"terminal", "evidence"} : \E blocking :
          /\ Goto(w, point) /\ ctx' = [ctx EXCEPT ![w].blocking = blocking]
          /\ \/ "not_terminal" \in blocking
             \/ EffectiveStatus(file.decisions, req[w].res) \in TerminalStatuses
  <2>1. PICK status : status = EffectiveStatus(View(w), req[w].res)
    OBVIOUS
  <2>2. PICK blocking :
            blocking = (IF SourceStatus[req[w].res] = "blocked_authoritative_source"
                        THEN {"blocked"} ELSE {})
                       \cup (IF status \in TerminalStatuses THEN {} ELSE {"not_terminal"})
    OBVIOUS
  <2>3. PICK point : point = IF status \in TerminalStatuses THEN "terminal" ELSE "evidence"
    OBVIOUS
  <2>4. Goto(w, point) /\ ctx' = [ctx EXCEPT ![w].blocking = blocking]
    BY <2>1, <2>2, <2>3 DEF CheckTerminal
  <2>5. point \in {"terminal", "evidence"}
    BY <2>3
  <2>6. "not_terminal" \in blocking \/ status \in TerminalStatuses
    BY <2>2
  <2>7. QED
    BY <1>2, <2>1, <2>4, <2>5, <2>6
<1>4. PICK point \in {"terminal", "evidence"} : \E blocking :
          /\ Goto(w, point) /\ ctx' = [ctx EXCEPT ![w].blocking = blocking]
          /\ \/ "not_terminal" \in blocking
             \/ EffectiveStatus(file.decisions, req[w].res) \in TerminalStatuses
    BY <1>3
<1>5. PICK blocking :
          /\ Goto(w, point) /\ ctx' = [ctx EXCEPT ![w].blocking = blocking]
          /\ \/ "not_terminal" \in blocking
             \/ EffectiveStatus(file.decisions, req[w].res) \in TerminalStatuses
    BY <1>4
<1>6. pc'[w] = point /\ CachesExact(w)' /\ HandExact(w)'
    BY <1>1, <1>5, MovedOn
<1>7. ctx'[w].blocking = blocking /\ ctx'[w].decision = ctx[w].decision
    BY <1>1, <1>5 DEF TypeOK, Context
<1>8. DecideReads(w)'
    BY <1>5, <1>6 DEF DecideReads, InWriter
<1>9. CloseReads(w)'
    BY <1>1, <1>5, <1>6, <1>7 DEF ReadsHold, CloseReads, InWriter
<1>10. QED
    BY <1>6, <1>8, <1>9 DEF ReadsHold

LEMMA PickDecisionReads ==
    ASSUME WasherInv, NEW w \in Workers, ReadsHold(w), PickDecision(w)
    PROVE  ReadsHold(w)'
<1>1. /\ TypeOK /\ CachesExact(w) /\ Loaded(w, "terminal") /\ UNCHANGED <<file, cache, req>>
      /\ pc[w] = "terminal" /\ ctx[w] \in Context /\ Goto(w, "evidence") /\ CloseReads(w)
    BY DEF WasherInv, TypeOK, ReadsHold, PickDecision, Loaded
<1>2. View(w) = file.decisions
    BY <1>1, LoadedIsFile DEF StoreAt
<1>3. pc'[w] = "evidence" /\ CachesExact(w)' /\ HandExact(w)'
    BY <1>1, MovedOn
<1>4. /\ "not_terminal" \in ctx[w].blocking => "not_terminal" \in ctx'[w].blocking
      /\ ctx'[w].decision # NoItem =>
             ctx'[w].decision = LastDecision(file.decisions, req[w].res)
  <2>1. CASE ctx' = [ctx EXCEPT ![w].blocking = @ \cup {"no_decision"}]
    <3>1. ctx'[w] = [ctx[w] EXCEPT !.blocking = @ \cup {"no_decision"}]
      BY <1>1, <2>1 DEF TypeOK
    <3>2. /\ ctx'[w].blocking = ctx[w].blocking \cup {"no_decision"}
          /\ ctx'[w].decision = ctx[w].decision
      BY <1>1, <3>1 DEF Context
    <3>3. QED
      BY <1>1, <3>2 DEF CloseReads
  <2>2. CASE ctx' = [ctx EXCEPT ![w].decision = LastDecision(View(w), req[w].res)]
    <3>1. PICK d : d = LastDecision(View(w), req[w].res)
      OBVIOUS
    <3>2. ctx'[w] = [ctx[w] EXCEPT !.decision = d]
      BY <1>1, <2>2, <3>1 DEF TypeOK
    <3>3. ctx'[w].blocking = ctx[w].blocking /\ ctx'[w].decision = d
      BY <1>1, <3>2 DEF Context
    <3>4. QED
      BY <1>2, <3>1, <3>3
  <2>3. QED
    BY <2>1, <2>2 DEF PickDecision
<1>5. DecideReads(w)'
    BY <1>3 DEF DecideReads, InWriter
<1>6. CloseReads(w)'
    BY <1>1, <1>3, <1>4 DEF CloseReads, InWriter
<1>7. QED
    BY <1>3, <1>5, <1>6 DEF ReadsHold

LEMMA ClassifyEvidenceReads ==
    ASSUME WasherInv, NEW w \in Workers, ReadsHold(w), ClassifyEvidence(w)
    PROVE  ReadsHold(w)'
<1>1. /\ TypeOK /\ CachesExact(w) /\ Loaded(w, "evidence") /\ UNCHANGED <<file, cache, req>>
      /\ pc[w] = "evidence" /\ ctx[w] \in Context /\ Goto(w, "closure") /\ CloseReads(w)
    BY DEF WasherInv, TypeOK, ReadsHold, ClassifyEvidence, Loaded
<1>2. View(w) = file.evidence
    BY <1>1, LoadedIsFile DEF StoreAt
<1>3. pc'[w] = "closure" /\ CachesExact(w)' /\ HandExact(w)'
    BY <1>1, MovedOn
<1>4. PICK verified, more :
          /\ verified = Verified(file.evidence, req[w].res)
          /\ "corrupted" \in more \/ Corrupted(file.evidence, req[w].res) = {}
          /\ "unverified" \in more \/ verified # {}
          /\ ctx' = [ctx EXCEPT ![w].verified = verified, ![w].blocking = @ \cup more]
  <2>1. PICK more :
            more = (IF Corrupted(View(w), req[w].res) # {} THEN {"corrupted"} ELSE {})
                   \cup (IF Verified(View(w), req[w].res) = {} THEN {"unverified"} ELSE {})
    OBVIOUS
  <2>2. PICK verified : verified = Verified(View(w), req[w].res)
    OBVIOUS
  <2>3. /\ "corrupted" \in more \/ Corrupted(View(w), req[w].res) = {}
        /\ "unverified" \in more \/ verified # {}
    BY <2>1, <2>2
  <2>4. ctx' = [ctx EXCEPT ![w].verified = verified, ![w].blocking =
                    @ \cup (IF Corrupted(View(w), req[w].res) # {} THEN {"corrupted"} ELSE {})
                      \cup (IF verified = {} THEN {"unverified"} ELSE {})]
    BY <2>2 DEF ClassifyEvidence
  <2>5. \A b : b \cup more
            = b \cup (IF Corrupted(View(w), req[w].res) # {} THEN {"corrupted"} ELSE {})
                \cup (IF verified = {} THEN {"unverified"} ELSE {})
    BY <2>1, <2>2
  <2>6. ctx' = [ctx EXCEPT ![w].verified = verified, ![w].blocking = @ \cup more]
    BY <2>4, <2>5
  <2>7. QED
    BY <1>2, <2>2, <2>3, <2>6
<1>5. /\ ctx'[w].verified = verified /\ ctx'[w].blocking = ctx[w].blocking \cup more
      /\ ctx'[w].decision = ctx[w].decision
    BY <1>1, <1>4 DEF TypeOK, Context
<1>6. DecideReads(w)'
    BY <1>3 DEF DecideReads, InWriter
<1>7. CloseReads(w)'
    BY <1>1, <1>3, <1>4, <1>5 DEF CloseReads, InWriter
<1>8. QED
    BY <1>3, <1>6, <1>7 DEF ReadsHold

(* The writer starts with nothing against it.                              *)
LEMMA DecideClosureReads ==
    ASSUME WasherInv, NEW w \in Workers, ReadsHold(w), DecideClosure(w)
    PROVE  ReadsHold(w)'
<1>1. /\ TypeOK /\ CachesExact(w) /\ UNCHANGED <<file, cache, req>>
      /\ pc[w] = "closure" /\ CloseReads(w) /\ Placed(w)
    BY DEF WasherInv, WorkerInv, ReadsHold, DecideClosure, Loaded
<1>2. \/ \E answer : Finish(w, answer)
      \/ /\ req[w].op # "readiness" /\ ctx[w].blocking = {} /\ ctx[w].decision # NoItem
         /\ Goto(w, "lock") /\ ctx' = ctx
    BY DEF DecideClosure, Refuse
<1>3. ASSUME req[w].op # "readiness", ctx[w].blocking = {}, ctx[w].decision # NoItem,
             Goto(w, "lock"), ctx' = ctx
      PROVE  ReadsHold(w)'
  <2>1. pc'[w] = "lock" /\ CachesExact(w)' /\ HandExact(w)'
    BY <1>1, <1>3, MovedOn
  <2>2. req[w].op = "close"
    BY <1>1, <1>3 DEF Placed
  <2>3. DecideReads(w)'
    BY <1>1, <2>1, <2>2 DEF DecideReads, InWriter
  <2>4. CloseReads(w)'
    BY <1>1, <1>3, <2>1 DEF CloseReads, InWriter
  <2>5. QED
    BY <2>1, <2>3, <2>4 DEF ReadsHold
<1>4. QED
    BY <1>1, <1>2, <1>3, RefusedReads

LEMMA LockReads ==
    ASSUME WasherInv, NEW w \in Workers, ReadsHold(w), EnterLock(w) \/ ReadRaw(w)
    PROVE  ReadsHold(w)'
<1>1. /\ TypeOK /\ CachesExact(w) /\ UNCHANGED <<file, cache, req, ctx>>
      /\ pc[w] \in {"lock", "read"} /\ pc'[w] \in {"read", "write"}
      /\ phase'[w] = "parsed" => phase[w] = "parsed"
    BY DEF WasherInv, TypeOK, ReadsHold, EnterLock, ReadRaw, Goto
<1>2. CachesExact(w)' /\ HandExact(w)'
    BY <1>1 DEF ReadsHold, CachesExact, HandExact, StoreAt
<1>3. DecideReads(w)' /\ CloseReads(w)'
    BY <1>1 DEF ReadsHold, DecideReads, CloseReads, InWriter
<1>4. QED
    BY <1>2, <1>3 DEF ReadsHold

LEMMA ShowReads ==
    ASSUME WasherInv, NEW w \in Workers, ReadsHold(w), Show(w) \/ LoadedNothing(w)
    PROVE  ReadsHold(w)'
<1>1. /\ CachesExact(w) /\ UNCHANGED <<file, cache>> /\ pc[w] # "reload"
      /\ \E answer : Finish(w, answer)
    BY DEF ReadsHold, Show, LoadedNothing, Loaded, Refuse, StoreAt
<1>2. QED
    BY <1>1, RefusedReads

LEMMA FileErrorReads ==
    ASSUME WasherInv, NEW w \in Workers, ReadsHold(w), FileError(w)
    PROVE  ReadsHold(w)'
<1>1. /\ CachesExact(w) /\ UNCHANGED <<file, cache>> /\ pc[w] # "reload"
      /\ \E answer : Finish(w, answer)
    BY DEF ReadsHold, FileError, Refuse, StoreAt
<1>2. QED
    BY <1>1, RefusedReads

(* Nothing is left of a request in a server that starts again.             *)
LEMMA CrashReads ==
    ASSUME WasherInv, NEW w \in Workers, Crash
    PROVE  ReadsHold(w)'
<1>1. pc'[w] = "idle" /\ phase'[w] = "test" /\ ctx'[w] = NoContext
    BY DEF Crash
<1>2. CachesExact(w)'
    BY DEF Crash, CachesExact
<1>3. QED
    BY <1>1, <1>2, EndedReads

(* The cache that a write has emptied is right again.                      *)
LEMMA ReloadReads ==
    ASSUME WasherInv, NEW w \in Workers, ReadsHold(w), Reload(w)
    PROVE  ReadsHold(w)'
<1>1. TypeOK /\ DOMAIN cache = Stores /\ CachesExact(w)
    BY DEF WasherInv, TypeOK, ReadsHold
<1>2. pc'[w] = "idle" /\ phase'[w] = "test" /\ ctx'[w] = NoContext
    BY <1>1 DEF Reload, Finish, TypeOK
<1>3. CachesExact(w)'
    BY <1>1 DEF Reload, CachesExact
<1>4. QED
    BY <1>2, <1>3, EndedReads

(* What a writer with one more item in its hands does.                     *)
Appends(w, item) ==
    /\ file' = [file EXCEPT ![Target(w)] = Append(file[Target(w)], item)]
    /\ pc' = [pc EXCEPT ![w] = "reload"]
    /\ UNCHANGED <<cache, phase, req, ctx>>

(* A write answers a key that it finds, refuses a second closure or adds   *)
(* to the file what its request asked for.                                 *)
WriteAnswers(w) ==
    /\ \E answer : Finish(w, answer)
    /\ UNCHANGED <<file, req>>
    /\ cache' = cache \/ cache' = [cache EXCEPT !.decisions = Miss]

LEMMA WriteCases ==
    ASSUME WasherInv, NEW w \in Workers, Write(w)
    PROVE  \/ WriteAnswers(w)
           \/ /\ req[w].op = "decide" /\ Appends(w, NewDecision(w))
              /\ WithKey(file.decisions, req[w].key) = {}
           \/ req[w].op = "evidence" /\ Appends(w, NewEvidence(w))
           \/ /\ req[w].op = "close" /\ Appends(w, NewClosure(w))
              /\ ~HasClosure(file.closures, req[w].res)
<1>1. pc[w] = "write" /\ UNCHANGED req
    BY DEF Write
<1>2. /\ buf[w] = file[Target(w)] /\ req[w].op \in {"decide", "evidence", "close"}
      /\ req[w].op = "decide" => Target(w) = "decisions"
      /\ req[w].op = "close" => Target(w) = "closures"
    BY <1>1, WrittenItem
<1>3. PICK found :
          found = IF req[w].op = "decide" THEN WithKey(buf[w], req[w].key) ELSE {}
    OBVIOUS
<1>4. PICK item : item = CASE req[w].op = "decide" -> NewDecision(w)
                           [] req[w].op = "evidence" -> NewEvidence(w)
                           [] req[w].op = "close" -> NewClosure(w)
    OBVIOUS
<1>5. \/ WriteAnswers(w)
      \/ /\ found = {}
         /\ req[w].op = "close" => ~HasClosure(buf[w], req[w].res)
         /\ Appends(w, item)
    BY <1>1, <1>2, <1>3, <1>4 DEF Write, WriteAnswers, Appends, Refuse
<1>6. CASE req[w].op = "decide"
    BY <1>2, <1>3, <1>4, <1>5, <1>6
<1>7. CASE req[w].op = "evidence"
    BY <1>4, <1>5, <1>7
<1>8. CASE req[w].op = "close"
    BY <1>2, <1>4, <1>5, <1>8
<1>9. QED
    BY <1>2, <1>6, <1>7, <1>8

LEMMA WriteReads ==
    ASSUME WasherInv, NEW w \in Workers, ReadsHold(w), Write(w)
    PROVE  ReadsHold(w)'
<1>1. /\ TypeOK /\ DOMAIN cache = Stores /\ DOMAIN file = Stores /\ CachesExact(w)
      /\ pc[w] = "write" /\ Target(w) \in Stores
    BY WrittenItem DEF WasherInv, TypeOK, ReadsHold, Write
<1>2. CASE WriteAnswers(w)
  <2>1. pc'[w] = "idle" /\ phase'[w] = "test" /\ ctx'[w] = NoContext
    BY <1>1, <1>2 DEF WriteAnswers, Finish, TypeOK
  <2>2. CachesExact(w)'
    BY <1>1, <1>2 DEF WriteAnswers, CachesExact
  <2>3. QED
    BY <2>1, <2>2, EndedReads
<1>3. ASSUME NEW item, Appends(w, item) PROVE ReadsHold(w)'
  <2>1. pc'[w] = "reload" /\ phase'[w] = phase[w] /\ phase[w] # "parsed"
    BY <1>1, <1>3 DEF Appends, TypeOK, ReadsHold, HandExact, StoreAt
  <2>2. Target(w)' = Target(w)
    BY <1>3 DEF Appends, Target
  <2>3. CachesExact(w)'
    BY <1>1, <1>3, <2>1, <2>2 DEF Appends, CachesExact
  <2>4. HandExact(w)' /\ DecideReads(w)' /\ CloseReads(w)'
    BY <2>1 DEF HandExact, DecideReads, CloseReads, InWriter
  <2>5. QED
    BY <2>3, <2>4 DEF ReadsHold
<1>4. QED
    BY <1>2, <1>3, WriteCases

(* A step of one thread.                                                   *)
OwnStep(w) == (\E r \in Requests : Receive(w, r)) \/ Step(w) \/ FileError(w)

(* While no other thread takes a step, whatever one has read is still so   *)
(* when it uses it.                                                        *)
LEMMA OwnStepKeepsReads ==
    ASSUME WasherInv, NEW w \in Workers, ReadsHold(w), [OwnStep(w) \/ Crash]_vars
    PROVE  ReadsHold(w)'
<1>1. w \in Workers
    OBVIOUS
<1>2. ASSUME NEW r \in Requests, Receive(w, r) PROVE ReadsHold(w)'
    BY <1>1, <1>2, ReceiveReads
<1>3. ASSUME Step(w) PROVE ReadsHold(w)'
    BY <1>1, <1>3, LoadKeepsReads, FindReplayReads, ComputeStatusReads, FindClosureReads,
       CheckTerminalReads, PickDecisionReads, ClassifyEvidenceReads, DecideClosureReads,
       ShowReads, LockReads, WriteReads, ReloadReads DEF Step
<1>4. CASE FileError(w)
    BY <1>1, <1>4, FileErrorReads
<1>5. CASE Crash
    BY <1>1, <1>5, CrashReads
<1>6. CASE UNCHANGED vars
    BY <1>6 DEF vars, ReadsHold, CachesExact, HandExact, DecideReads, CloseReads,
                InWriter, Target
<1>7. QED
    BY <1>2, <1>3, <1>4, <1>5, <1>6 DEF OwnStep

-----------------------------------------------------------------------------
(* The ledger.                                                             *)

(* The ledger computes what the workflow computes.                         *)
LEMMA LedgerComputes ==
    /\ Ledger!TerminalStatuses = TerminalStatuses
    /\ Ledger!AllowedTransitions = AllowedTransitions
    /\ Ledger!Resolutions = Resolutions
    /\ \A l, n, res : Ledger!DecisionsUpTo(l, n, res) = DecisionsUpTo(l, n, res)
    /\ \A idx : Ledger!LastOf(idx) = LastOf(idx)
    /\ \A l, res : Ledger!Corrupted(l, res) = Corrupted(l, res)
    /\ \A l, res : Ledger!Verified(l, res) = Verified(l, res)
    /\ \A l, res : Ledger!HasClosure(l, res) <=> HasClosure(l, res)
<1>1. /\ Ledger!TerminalStatuses = TerminalStatuses
      /\ Ledger!AllowedTransitions = AllowedTransitions
      /\ Ledger!Resolutions = Resolutions
    BY DEF Ledger!TerminalStatuses, TerminalStatuses, Ledger!AllowedTransitions,
           AllowedTransitions, Ledger!Resolutions, Resolutions
<1>2. \A l, n, res : Ledger!DecisionsUpTo(l, n, res) = DecisionsUpTo(l, n, res)
    BY DEF Ledger!DecisionsUpTo, DecisionsUpTo
<1>3. \A idx : Ledger!LastOf(idx) = LastOf(idx)
    BY DEF Ledger!LastOf, LastOf
<1>4. /\ \A l, res : Ledger!Corrupted(l, res) = Corrupted(l, res)
      /\ \A l, res : Ledger!Verified(l, res) = Verified(l, res)
    BY DEF Ledger!Corrupted, Corrupted, Ledger!Verified, Verified, Ledger!EvidenceOf,
           EvidenceOf
<1>5. \A l, res : Ledger!HasClosure(l, res) <=> HasClosure(l, res)
    BY DEF Ledger!HasClosure, HasClosure
<1>6. QED
    BY <1>1, <1>2, <1>3, <1>4, <1>5

LEMMA LedgerReads ==
    /\ \A l, n, res : Ledger!StatusAfter(l, n, res) = StatusAfter(l, n, res)
    /\ \A l, res : Ledger!EffectiveStatus(l, res) = EffectiveStatus(l, res)
    /\ \A l, res : Ledger!LastDecision(l, res) = LastDecision(l, res)
    /\ \A status, r : Ledger!ValidateDecision(status, r) = ValidateDecision(status, r)
<1>1. \A l, n, res : Ledger!StatusAfter(l, n, res) = StatusAfter(l, n, res)
    BY LedgerComputes DEF Ledger!StatusAfter, StatusAfter
<1>2. \A l, res : Ledger!EffectiveStatus(l, res) = EffectiveStatus(l, res)
    BY <1>1 DEF Ledger!EffectiveStatus, EffectiveStatus
<1>3. \A l, res : Ledger!LastDecision(l, res) = LastDecision(l, res)
    BY LedgerComputes DEF Ledger!LastDecision, LastDecision
<1>4. \A status, r : Ledger!ValidateDecision(status, r) = ValidateDecision(status, r)
    BY LedgerComputes DEF Ledger!ValidateDecision, ValidateDecision
<1>5. QED
    BY <1>1, <1>2, <1>3, <1>4

LEMMA DecisionIsLedgerStep ==
    ASSUME WasherInv, NEW w \in Workers, ReadsHold(w), pc[w] = "write",
           req[w].op = "decide", Appends(w, NewDecision(w))
    PROVE  Ledger!Next
<1>1. /\ TypeOK /\ DOMAIN file = Stores /\ DecisionReady(w) /\ DecideReads(w)
      /\ req[w] \in Requests /\ Target(w) = "decisions"
    BY WrittenItem DEF WasherInv, WorkerInv, TypeOK, ReadsHold
<1>2. /\ req[w].key # BlankKey /\ req[w].res \in Resolutions
      /\ KeyFree(file.decisions, req[w].key)
      /\ ctx[w].previous = EffectiveStatus(file.decisions, req[w].res)
      /\ ValidateDecision(ctx[w].previous, req[w]) = "ok"
    BY <1>1 DEF DecideReads, DecisionReady, InWriter
<1>3. /\ file'.decisions = Append(file.decisions, NewDecision(w))
      /\ file'.evidence = file.evidence /\ file'.closures = file.closures
    BY <1>1 DEF Appends, Stores
<1>4. NewDecision(w) = [req |-> req[w],
                        previous |-> EffectiveStatus(file.decisions, req[w].res)]
    BY <1>2 DEF NewDecision
<1>5. Ledger!Resolutions = Resolutions
    BY LedgerComputes
<1>6. /\ Ledger!EffectiveStatus(file.decisions, req[w].res)
             = EffectiveStatus(file.decisions, req[w].res)
      /\ Ledger!ValidateDecision(ctx[w].previous, req[w])
             = ValidateDecision(ctx[w].previous, req[w])
    BY LedgerReads
<1>7. ~Ledger!KeyUsed(file.decisions, req[w].key)
    BY <1>2 DEF KeyFree, Ledger!KeyUsed
<1>8. Ledger!Decide(req[w])
    BY <1>2, <1>3, <1>4, <1>5, <1>6, <1>7 DEF Ledger!Decide
<1>9. QED
    BY <1>1, <1>8 DEF Ledger!Next

LEMMA EvidenceIsLedgerStep ==
    ASSUME WasherInv, NEW w \in Workers, pc[w] = "write",
           req[w].op = "evidence", Appends(w, NewEvidence(w))
    PROVE  Ledger!Next
<1>1. /\ TypeOK /\ DOMAIN file = Stores /\ Target(w) = "evidence"
      /\ buf[w] = file.evidence /\ Placed(w)
    BY WrittenItem DEF WasherInv, WorkerInv, TypeOK
<1>2. req[w].res \in Ledger!Resolutions
    BY <1>1, LedgerComputes DEF Placed
<1>3. /\ file'.evidence = Append(file.evidence, NewEvidence(w))
      /\ file'.decisions = file.decisions /\ file'.closures = file.closures
    BY <1>1 DEF Appends, Stores
<1>4. Ledger!RecordEvidence(req[w].res)
    BY <1>1, <1>3 DEF Ledger!RecordEvidence, NewEvidence
<1>5. QED
    BY <1>2, <1>4 DEF Ledger!Next

LEMMA ClosureIsLedgerStep ==
    ASSUME WasherInv, NEW w \in Workers, ReadsHold(w), pc[w] = "write",
           req[w].op = "close", Appends(w, NewClosure(w)),
           ~HasClosure(file.closures, req[w].res)
    PROVE  Ledger!Next
<1>1. /\ TypeOK /\ DOMAIN file = Stores /\ Placed(w) /\ CloseReads(w)
      /\ Target(w) = "closures"
    BY WrittenItem DEF WasherInv, WorkerInv, TypeOK, ReadsHold
<1>2. /\ SourceStatus[req[w].res] # "blocked_authoritative_source"
      /\ req[w].res \in Resolutions
      /\ ctx[w].decision = LastDecision(file.decisions, req[w].res)
      /\ EffectiveStatus(file.decisions, req[w].res) \in TerminalStatuses
      /\ Corrupted(file.evidence, req[w].res) = {}
      /\ ctx[w].verified = Verified(file.evidence, req[w].res) /\ ctx[w].verified # {}
    BY <1>1 DEF Placed, CloseReads, InWriter
<1>3. /\ file'.closures = Append(file.closures, NewClosure(w))
      /\ file'.evidence = file.evidence /\ file'.decisions = file.decisions
    BY <1>1 DEF Appends, Stores
<1>4. NewClosure(w) = [res |-> req[w].res,
                       decision |-> LastDecision(file.decisions, req[w].res),
                       evidence |-> Verified(file.evidence, req[w].res)]
    BY <1>2 DEF NewClosure
<1>5. /\ Ledger!Resolutions = Resolutions /\ Ledger!TerminalStatuses = TerminalStatuses
      /\ Ledger!Corrupted(file.evidence, req[w].res) = Corrupted(file.evidence, req[w].res)
      /\ Ledger!Verified(file.evidence, req[w].res) = Verified(file.evidence, req[w].res)
      /\ ~Ledger!HasClosure(file.closures, req[w].res)
    BY LedgerComputes
<1>6. /\ Ledger!EffectiveStatus(file.decisions, req[w].res)
             = EffectiveStatus(file.decisions, req[w].res)
      /\ Ledger!LastDecision(file.decisions, req[w].res)
             = LastDecision(file.decisions, req[w].res)
    BY LedgerReads
<1>7. Ledger!Close(req[w].res)
    BY <1>2, <1>3, <1>4, <1>5, <1>6 DEF Ledger!Close
<1>8. QED
    BY <1>2, <1>5, <1>7 DEF Ledger!Next

(* Only a write changes a file.                                            *)
LEMMA OthersStutter ==
    ASSUME NEW w \in Workers, [OwnStep(w) \/ Crash]_vars
    PROVE  UNCHANGED file \/ Write(w)
BY DEF OwnStep, Step, Receive, TestCache, SetCache, LoadedNothing, FindReplay, ComputeStatus,
       FindClosure, CheckTerminal, PickDecision, ClassifyEvidence, DecideClosure, Show,
       EnterLock, ReadRaw, Reload, FileError, Crash, vars

LEMMA StepIsLedgerStep ==
    ASSUME WasherInv, NEW w \in Workers, ReadsHold(w), [OwnStep(w) \/ Crash]_vars
    PROVE  [Ledger!Next]_(Ledger!vars)
<1>1. w \in Workers
    OBVIOUS
<1>2. CASE UNCHANGED file
    BY <1>2 DEF Ledger!vars
<1>3. CASE Write(w)
  <2>1. pc[w] = "write"
    BY <1>3 DEF Write
  <2>2. CASE WriteAnswers(w)
    BY <2>2 DEF WriteAnswers, Ledger!vars
  <2>3. QED
    BY <1>1, <1>3, <2>1, <2>2, WriteCases, DecisionIsLedgerStep, EvidenceIsLedgerStep,
       ClosureIsLedgerStep
<1>4. QED
    BY <1>2, <1>3, OthersStutter

LEMMA InitIsLedgerInit ==
    ASSUME Init
    PROVE  /\ file.decisions = <<>> /\ file.closures = <<>> /\ Ledger!Init
           /\ \A w \in Workers : ReadsHold(w)
<1>1. PICK e : file = [decisions |-> <<>>, evidence |-> e, closures |-> <<>>]
    BY DEF Init
<1>2. file.decisions = <<>> /\ file.closures = <<>>
    BY <1>1
<1>3. ASSUME NEW w \in Workers PROVE ReadsHold(w)
  <2>1. /\ pc[w] = "idle" /\ phase[w] = "test" /\ ctx[w] = NoContext
        /\ \A s \in Stores : cache[s] = Miss
    BY DEF Init
  <2>2. QED
    BY <2>1 DEF ReadsHold, CachesExact, HandExact, DecideReads, CloseReads, InWriter,
                NoContext
<1>4. QED
    BY <1>2, <1>3 DEF Ledger!Init

(* While one thread serves the requests, the workflow is the ledger: every *)
(* answered request is one step on what the files held when it took it.    *)
THEOREM SerialWasherImplementsLedger ==
    ASSUME NEW w, Workers = {w}
    PROVE  Spec => Ledger!Spec
<1>1. Init => Ledger!Init /\ ReadsHold(w)
    BY InitIsLedgerInit
<1>2. [Next]_vars => [OwnStep(w) \/ Crash]_vars
    BY DEF Next, OwnStep
<1>3. WasherInv /\ ReadsHold(w) /\ [Next]_vars => ReadsHold(w)'
    BY <1>2, OwnStepKeepsReads
<1>4. WasherInv /\ ReadsHold(w) /\ [Next]_vars => [Ledger!Next]_(Ledger!vars)
    BY <1>2, StepIsLedgerStep
<1>5. QED
    BY <1>1, <1>3, <1>4, WasherInvariant, PTL DEF Spec, Ledger!Spec

-----------------------------------------------------------------------------
(* What the ledger keeps, over its lists.                                  *)

Chain(l) ==
    \A i \in DOMAIN l : /\ l[i].previous = StatusAfter(l, i - 1, l[i].req.res)
                        /\ <<l[i].previous, l[i].req.new>> \in AllowedTransitions

Final(l) ==
    \A i, j \in DOMAIN l :
        i < j /\ l[i].req.res = l[j].req.res => l[i].req.new \notin TerminalStatuses

(* A closed resolution was decided, and its last decision was terminal.    *)
Stands(c, l) ==
    /\ DecisionsUpTo(l, Len(l), c.res) # {}
    /\ c.decision = LastDecision(l, c.res) /\ c.decision.req.new \in TerminalStatuses

ClosedOnce(c) == \A i, j \in DOMAIN c : c[i].res = c[j].res => i = j

LedgerKeeps(l, c) ==
    /\ l \in Seq(Decision) /\ Chain(l) /\ Final(l)
    /\ \E S : c \in Seq(S)
    /\ \A i \in DOMAIN c : Stands(c[i], l)
    /\ ClosedOnce(c)

(* The last decision of a resolution gives its status.                     *)
LEMMA LastGivesStatus ==
    ASSUME NEW l \in Seq(Decision), NEW res, DecisionsUpTo(l, Len(l), res) # {}
    PROVE  /\ EffectiveStatus(l, res) = LastDecision(l, res).req.new
           /\ LastOf(DecisionsUpTo(l, Len(l), res)) \in DecisionsUpTo(l, Len(l), res)
           /\ \A i \in DecisionsUpTo(l, Len(l), res) :
                  i <= LastOf(DecisionsUpTo(l, Len(l), res))
<1>1. /\ Len(l) \in Nat
      /\ DecisionsUpTo(l, Len(l), res) \in SUBSET (1 .. Len(l))
    BY DEF DecisionsUpTo
<1>2. QED
    BY <1>1, LastOfIsLast DEF EffectiveStatus, StatusAfter, LastDecision

(* A resolution with a terminal decision admits no other.                  *)
LEMMA DecidedIsClosed ==
    ASSUME NEW l \in Seq(Decision), Final(l), NEW i \in DOMAIN l,
           l[i].req.new \in TerminalStatuses
    PROVE  EffectiveStatus(l, l[i].req.res) \in TerminalStatuses
<1> DEFINE res == l[i].req.res
           idx == DecisionsUpTo(l, Len(l), res)
           k == LastOf(idx)
<1>1. Len(l) \in Nat /\ DOMAIN l = 1 .. Len(l) /\ i \in idx
    BY DEF DecisionsUpTo
<1>2. k \in idx /\ i <= k /\ EffectiveStatus(l, res) = l[k].req.new
    BY <1>1, LastGivesStatus DEF LastDecision
<1>3. k \in DOMAIN l /\ l[k].req.res = res
    BY <1>1, <1>2 DEF DecisionsUpTo
<1> HIDE DEF k, idx
<1>4. CASE i = k
    BY <1>2, <1>4
<1>5. CASE i # k
    BY <1>1, <1>2, <1>3, <1>5 DEF Final
<1>6. QED
    BY <1>4, <1>5

(* decide_resolution adds a link to the chain and disturbs no closure.     *)
LEMMA DecideKeepsLedger ==
    ASSUME NEW l, NEW c, LedgerKeeps(l, c), NEW r \in Requests,
           ValidateDecision(EffectiveStatus(l, r.res), r) = "ok"
    PROVE  LedgerKeeps(Append(l, [req |-> r, previous |-> EffectiveStatus(l, r.res)]), c)
<1> DEFINE d == [req |-> r, previous |-> EffectiveStatus(l, r.res)]
           m == Append(l, d)
<1>1. l \in Seq(Decision) /\ Chain(l) /\ Final(l) /\ \A i \in DOMAIN c : Stands(c[i], l)
    BY DEF LedgerKeeps
<1>2. /\ <<d.previous, r.new>> \in AllowedTransitions /\ d.req = r
      /\ d.previous = EffectiveStatus(l, r.res)
    BY DEF ValidateDecision
<1>3. d.previous \in {"open", "under_review"}
    BY <1>2 DEF AllowedTransitions
<1>4. d \in Decision
    BY <1>3 DEF Decision, WasherStatus, ActiveStatuses
<1> HIDE DEF d
<1>5. /\ m \in Seq(Decision) /\ Len(l) \in Nat /\ DOMAIN l = 1 .. Len(l)
      /\ DOMAIN m = 1 .. Len(l) + 1 /\ Len(m) = Len(l) + 1
      /\ \A i \in DOMAIN l : m[i] = l[i]
      /\ m[Len(l) + 1] = d /\ IsPrefix(l, m)
    BY <1>1, <1>4, AppendedAt
<1> HIDE DEF m
<1>6. \A n \in 0 .. Len(l) : \A res : StatusAfter(m, n, res) = StatusAfter(l, n, res)
    BY <1>1, <1>5, StatusOfPrefix
<1>7. Chain(m)
  <2>1. SUFFICES ASSUME NEW i \in DOMAIN m
                 PROVE  /\ m[i].previous = StatusAfter(m, i - 1, m[i].req.res)
                        /\ <<m[i].previous, m[i].req.new>> \in AllowedTransitions
    BY DEF Chain
  <2>2. i - 1 \in 0 .. Len(l)
    BY <1>5
  <2>3. CASE i \in DOMAIN l
    BY <1>1, <1>5, <1>6, <2>2, <2>3 DEF Chain
  <2>4. CASE i = Len(l) + 1
    <3>1. m[i] = d /\ i - 1 = Len(l) /\ Len(l) \in 0 .. Len(l)
      BY <1>5, <2>4
    <3>2. StatusAfter(m, i - 1, r.res) = EffectiveStatus(l, r.res)
      BY <1>6, <3>1 DEF EffectiveStatus
    <3>3. QED
      BY <1>2, <3>1, <3>2
  <2>5. QED
    BY <1>5, <2>3, <2>4
<1>8. EffectiveStatus(l, r.res) \notin TerminalStatuses
    BY <1>2, <1>3 DEF TerminalStatuses
<1>9. Final(m)
  <2>1. SUFFICES ASSUME NEW i \in DOMAIN m, NEW j \in DOMAIN m, i < j,
                        m[i].req.res = m[j].req.res
                 PROVE  m[i].req.new \notin TerminalStatuses
    BY DEF Final
  <2>2. i \in DOMAIN l /\ m[i] = l[i]
    BY <1>5, <2>1
  <2>3. CASE j \in DOMAIN l
    BY <1>1, <1>5, <2>1, <2>2, <2>3 DEF Final
  <2>4. CASE j = Len(l) + 1
    BY <1>1, <1>2, <1>5, <1>8, <2>1, <2>2, <2>4, DecidedIsClosed
  <2>5. QED
    BY <1>5, <2>3, <2>4
<1>10. ASSUME NEW i \in DOMAIN c PROVE Stands(c[i], m)
  <2> DEFINE res == c[i].res
             idx == DecisionsUpTo(l, Len(l), res)
  <2>1. /\ idx # {} /\ c[i].decision = LastDecision(l, res)
        /\ c[i].decision.req.new \in TerminalStatuses
    BY <1>1, <1>10 DEF Stands
  <2>2. EffectiveStatus(l, res) \in TerminalStatuses /\ LastOf(idx) \in idx
    BY <1>1, <2>1, LastGivesStatus
  <2>3. r.res # res
    BY <1>8, <2>2
  <2>4. DecisionsUpTo(m, Len(m), res) = idx
    BY <1>2, <1>5, <2>3 DEF DecisionsUpTo
  <2>5. LastOf(idx) \in DOMAIN l
    BY <1>5, <2>2 DEF DecisionsUpTo
  <2>6. LastDecision(m, res) = LastDecision(l, res)
    BY <1>5, <2>4, <2>5 DEF LastDecision
  <2>7. QED
    BY <2>1, <2>4, <2>6 DEF Stands
<1>11. QED
    BY <1>5, <1>7, <1>9, <1>10 DEF LedgerKeeps, m, d

(* close_resolution closes what was decided, once.                         *)
LEMMA CloseKeepsLedger ==
    ASSUME NEW l, NEW c, LedgerKeeps(l, c), NEW res \in Resolutions,
           EffectiveStatus(l, res) \in TerminalStatuses, ~HasClosure(c, res),
           NEW new, new.res = res, new.decision = LastDecision(l, res)
    PROVE  LedgerKeeps(l, Append(c, new))
<1> DEFINE m == Append(c, new)
<1>1. /\ l \in Seq(Decision) /\ ClosedOnce(c) /\ \A i \in DOMAIN c : Stands(c[i], l)
      /\ Chain(l) /\ Final(l)
    BY DEF LedgerKeeps
<1>2. PICK S : c \in Seq(S)
    BY DEF LedgerKeeps
<1>3. S \subseteq S \cup {new} /\ new \in S \cup {new}
    OBVIOUS
<1>4. c \in Seq(S \cup {new})
    BY <1>2, <1>3, SeqMonotonic
<1>5. /\ m \in Seq(S \cup {new}) /\ Len(c) \in Nat /\ DOMAIN c = 1 .. Len(c)
      /\ DOMAIN m = 1 .. Len(c) + 1
      /\ \A i \in DOMAIN c : m[i] = c[i]
      /\ m[Len(c) + 1] = new
    BY <1>3, <1>4, AppendedAt
<1> HIDE DEF m
<1>6. DecisionsUpTo(l, Len(l), res) # {}
    BY SourceAssumption DEF EffectiveStatus, StatusAfter, TerminalStatuses
<1>7. LastDecision(l, res).req.new \in TerminalStatuses
    BY <1>1, <1>6, LastGivesStatus
<1>8. \A i \in DOMAIN m : Stands(m[i], l)
    BY <1>1, <1>5, <1>6, <1>7 DEF Stands
<1>9. \A i \in DOMAIN c : c[i].res # res
    BY DEF HasClosure
<1>10. ClosedOnce(m)
    BY <1>1, <1>5, <1>9 DEF ClosedOnce
<1>11. QED
    BY <1>1, <1>5, <1>8, <1>10 DEF LedgerKeeps, m

LEMMA LedgerNext ==
    ASSUME LedgerKeeps(file.decisions, file.closures), [Ledger!Next]_(Ledger!vars)
    PROVE  LedgerKeeps(file'.decisions, file'.closures)
<1>1. CASE UNCHANGED Ledger!vars
    BY <1>1 DEF Ledger!vars
<1>2. ASSUME NEW r \in Requests, Ledger!Decide(r)
      PROVE  LedgerKeeps(file'.decisions, file'.closures)
  <2>1. PICK previous : previous = EffectiveStatus(file.decisions, r.res)
    OBVIOUS
  <2>2. /\ Ledger!EffectiveStatus(file.decisions, r.res) = previous
        /\ Ledger!ValidateDecision(previous, r) = ValidateDecision(previous, r)
    BY <2>1, LedgerReads
  <2>3. /\ ValidateDecision(previous, r) = "ok"
        /\ file'.decisions = Append(file.decisions, [req |-> r, previous |-> previous])
        /\ file'.closures = file.closures
    BY <1>2, <2>2 DEF Ledger!Decide
  <2>4. QED
    BY <2>1, <2>3, DecideKeepsLedger
<1>3. ASSUME NEW res \in Ledger!Resolutions, Ledger!RecordEvidence(res)
      PROVE  LedgerKeeps(file'.decisions, file'.closures)
    BY <1>3 DEF Ledger!RecordEvidence
<1>4. ASSUME NEW res \in Ledger!Resolutions, Ledger!Close(res)
      PROVE  LedgerKeeps(file'.decisions, file'.closures)
  <2>1. PICK new : new = [res |-> res, decision |-> LastDecision(file.decisions, res),
                          evidence |-> Verified(file.evidence, res)]
    OBVIOUS
  <2>2. /\ Ledger!Verified(file.evidence, res) = Verified(file.evidence, res)
        /\ Ledger!TerminalStatuses = TerminalStatuses
        /\ Ledger!HasClosure(file.closures, res) <=> HasClosure(file.closures, res)
        /\ res \in Resolutions
    BY <1>4, LedgerComputes
  <2>3. /\ Ledger!LastDecision(file.decisions, res) = LastDecision(file.decisions, res)
        /\ Ledger!EffectiveStatus(file.decisions, res) = EffectiveStatus(file.decisions, res)
    BY LedgerReads
  <2>4. /\ EffectiveStatus(file.decisions, res) \in TerminalStatuses
        /\ ~HasClosure(file.closures, res)
        /\ file'.closures = Append(file.closures, new)
        /\ file'.decisions = file.decisions
    BY <1>4, <2>1, <2>2, <2>3 DEF Ledger!Close
  <2>5. new.res = res /\ new.decision = LastDecision(file.decisions, res)
    BY <2>1
  <2>6. QED
    BY <2>2, <2>4, <2>5, CloseKeepsLedger
<1>5. QED
    BY <1>1, <1>2, <1>3, <1>4 DEF Ledger!Next

LEMMA LedgerBegins ==
    ASSUME Ledger!Init
    PROVE  LedgerKeeps(file.decisions, file.closures)
<1>1. file.decisions = <<>> /\ file.closures = <<>>
    BY DEF Ledger!Init
<1>2. <<>> \in Seq(Decision) /\ <<>> \in Seq({}) /\ DOMAIN <<>> = {}
    OBVIOUS
<1>3. QED
    BY <1>1, <1>2 DEF LedgerKeeps, Chain, Final, ClosedOnce

LEMMA KeptIsLedgerInv == LedgerKeeps(file.decisions, file.closures) => LedgerInv
<1>1. SUFFICES ASSUME LedgerKeeps(file.decisions, file.closures)
               PROVE  Ledger!DecisionsChain /\ Ledger!TerminalIsFinal /\ Ledger!ClosureStands
    BY DEF LedgerInv, Ledger!LedgerInv
<1>2. /\ Chain(file.decisions) /\ Final(file.decisions) /\ ClosedOnce(file.closures)
      /\ \A i \in DOMAIN file.closures : Stands(file.closures[i], file.decisions)
    BY <1>1 DEF LedgerKeeps
<1>3. Ledger!DecisionsChain
    BY <1>2, LedgerComputes, LedgerReads DEF Chain, Ledger!DecisionsChain
<1>4. Ledger!TerminalIsFinal
    BY <1>2, LedgerComputes DEF Final, Ledger!TerminalIsFinal
<1>5. Ledger!ClosureStands
    BY <1>2, LedgerComputes, LedgerReads DEF Stands, ClosedOnce, Ledger!ClosureStands
<1>6. QED
    BY <1>3, <1>4, <1>5

(* The ledger's own promise: decisions chain along the table, a terminal   *)
(* one is the last of its resolution, and a closure names it for good.     *)
THEOREM LedgerInvariant == Ledger!Spec => []LedgerInv
<1>1. Ledger!Init => LedgerKeeps(file.decisions, file.closures)
    BY LedgerBegins
<1>2. LedgerKeeps(file.decisions, file.closures) /\ [Ledger!Next]_(Ledger!vars)
          => LedgerKeeps(file.decisions, file.closures)'
    BY LedgerNext
<1>3. QED
    BY <1>1, <1>2, KeptIsLedgerInv, PTL DEF Ledger!Spec

(* And so the three files of a server with one thread.                     *)
THEOREM SerialWasherKeepsLedger ==
    ASSUME NEW w, Workers = {w}
    PROVE  Spec => []LedgerInv
BY SerialWasherImplementsLedger, LedgerInvariant, PTL

-----------------------------------------------------------------------------
(* Requests of one caller, on a server with many threads.                  *)

OneCaller == \A w, x \in Workers : req[w] # NoRequest /\ req[x] # NoRequest => w = x

(* Nobody else has asked for anything.                                     *)
Alone(w) == \A x \in Workers : x # w => req[x] = NoRequest

AloneReads == \A w \in Workers : Alone(w) => ReadsHold(w)

(* A request that runs is the one of its thread.                           *)
LEMMA StepsHaveRequests ==
    ASSUME WasherInv, NEW w \in Workers, Step(w) \/ FileError(w)
    PROVE  req' = req /\ req[w] # NoRequest
<1>1. pc[w] # "idle"
    BY DEF Step, TestCache, SetCache, LoadedNothing, FindReplay, ComputeStatus, FindClosure,
       CheckTerminal, PickDecision, ClassifyEvidence, DecideClosure, Show, EnterLock,
       ReadRaw, Write, Reload, FileError, Loaded, StoreAt
<1>2. req' = req
    BY DEF Step, TestCache, SetCache, LoadedNothing, FindReplay, ComputeStatus, FindClosure,
       CheckTerminal, PickDecision, ClassifyEvidence, DecideClosure, Show, EnterLock,
       ReadRaw, Write, Reload, FileError
<1>3. QED
    BY <1>1, <1>2, WasherNulls DEF WasherInv, WorkerInv, Placed

SerialStep ==
    \/ \E w \in Workers : OwnStep(w) /\ (req' = req \/ Alone(w))
    \/ Crash

(* The files are one record.                                               *)
FilesAre == file = [s \in Stores |-> file[s]]

LEMMA OwnStepKeepsFiles ==
    ASSUME WasherInv, FilesAre, NEW w \in Workers, [OwnStep(w) \/ Crash]_vars
    PROVE  FilesAre'
<1>1. CASE UNCHANGED file
    BY <1>1 DEF FilesAre
<1>2. ASSUME NEW store, NEW list, file' = [file EXCEPT ![store] = list]
      PROVE  FilesAre'
    BY <1>2 DEF FilesAre
<1>3. CASE Write(w)
    BY <1>1, <1>2, <1>3 DEF Write
<1>4. QED
    BY <1>1, <1>3, OthersStutter

(* The caller's reads hold, and nobody else has read anything.             *)
LEMMA SerialKeepsReads ==
    ASSUME WasherInv, FilesAre, OneCaller, AloneReads, [SerialStep]_vars
    PROVE  FilesAre' /\ OneCaller' /\ AloneReads' /\ [Ledger!Next]_(Ledger!vars)
<1>1. ASSUME NEW w \in Workers, OwnStep(w), req' = req \/ Alone(w)
      PROVE  FilesAre' /\ OneCaller' /\ AloneReads' /\ [Ledger!Next]_(Ledger!vars)
  <2>1. /\ Alone(w) /\ req'[w] # NoRequest
        /\ \A x \in Workers : x # w => req'[x] = NoRequest
    <3>1. CASE Step(w) \/ FileError(w)
      BY <3>1, StepsHaveRequests DEF OneCaller, Alone
    <3>2. ASSUME NEW r \in Requests, Receive(w, r), req' = req
          PROVE  req[w] # NoRequest
      BY <3>2, WasherNulls DEF Receive, WasherInv, TypeOK
    <3>3. ASSUME NEW r \in Requests, Receive(w, r)
          PROVE  /\ req'[w] # NoRequest
                 /\ \A x \in Workers : x # w => req'[x] = req[x]
      BY <3>3, WasherNulls DEF Receive, WasherInv, TypeOK
    <3>4. QED
      BY <1>1, <3>1, <3>2, <3>3 DEF OwnStep, OneCaller, Alone
  <2>2. ReadsHold(w) /\ [OwnStep(w) \/ Crash]_vars
    BY <1>1, <2>1 DEF AloneReads
  <2>3. FilesAre' /\ ReadsHold(w)' /\ [Ledger!Next]_(Ledger!vars)
    BY <2>2, OwnStepKeepsFiles, OwnStepKeepsReads, StepIsLedgerStep
  <2>4. OneCaller'
    BY <2>1 DEF OneCaller
  <2>5. \A x \in Workers : Alone(x)' => x = w
    BY <2>1 DEF Alone
  <2>6. AloneReads'
    BY <2>3, <2>5 DEF AloneReads
  <2>7. QED
    BY <2>3, <2>4, <2>6
<1>2. CASE Crash
  <2>1. /\ \A w \in Workers : ReadsHold(w)'
        /\ UNCHANGED file /\ UNCHANGED req
    BY <1>2, CrashReads DEF Crash
  <2>2. QED
    BY <2>1 DEF FilesAre, AloneReads, OneCaller, Ledger!vars
<1>3. CASE UNCHANGED vars
  <2>1. /\ UNCHANGED <<file, req>>
        /\ \A w \in Workers : ReadsHold(w) => ReadsHold(w)'
    BY <1>3, OwnStepKeepsReads DEF vars
  <2>2. QED
    BY <2>1 DEF FilesAre, OneCaller, AloneReads, Alone, Ledger!vars
<1>4. QED
    BY <1>1, <1>2, <1>3 DEF SerialStep

MixInv == mix \in Mixes

SerialInv ==
    Serial => FilesAre /\ OneCaller /\ AloneReads /\ LedgerKeeps(file.decisions, file.closures)

(* A step of a run is one of the server, the tool or the projection, and   *)
(* where requests do not overlap, one of the one caller.                   *)
LEMMA MixesTaken ==
    ASSUME AllRequests \subseteq Requests, MixInv, WasherInv, [MCNext]_<<allVars, mix>>
    PROVE  /\ [GovernedNext]_allVars /\ mix' = mix
           /\ Serial => [SerialStep]_vars
<1>1. mix.requests \subseteq Requests
  <2>1. mix.requests \in {Decisions, Refusals, Closing, Reviewing, ClosingRefused,
                          EvidenceForms, {Resolve}, {Resolve, Accept}, Everything}
    <3>1. ASSUME NEW q, NEW e, NEW l, NEW d, NEW n, mix = Mix(q, e, l, d, n)
          PROVE  mix.requests = q
      <4>1. Mix(q, e, l, d, n).requests = q
        BY DEF Mix
      <4>2. QED
        BY <3>1, <4>1, Zenon
    <3>2. \/ mix = Mix(Decisions, {<<>>}, {<<>>}, FALSE, 2)
          \/ mix = Mix(Refusals, {<<>>}, {<<>>}, FALSE, 2)
          \/ mix = Mix(Closing, EvidenceFiles, {<<>>}, FALSE, 2)
          \/ mix = Mix(Reviewing, {<<Record(1, "verified", TRUE)>>}, {<<>>}, FALSE, 2)
          \/ mix = Mix(ClosingRefused, {<<Record(1, "verified", TRUE)>>}, {<<>>}, FALSE, 2)
          \/ mix = Mix(EvidenceForms, EvidenceFiles, {<<>>}, FALSE, 2)
          \/ mix = Mix({Resolve}, {<<>>}, OtherLogs, TRUE, 1)
          \/ mix = Mix({Resolve, Accept}, {<<>>}, {<<>>}, TRUE, 2)
          \/ mix = Mix(Everything, EvidenceFiles, {<<>>}, FALSE, 1)
      BY Zenon DEF MixInv, Mixes
    <3>3. \/ mix.requests = Decisions \/ mix.requests = Refusals
          \/ mix.requests = Closing \/ mix.requests = Reviewing
          \/ mix.requests = ClosingRefused \/ mix.requests = EvidenceForms
          \/ mix.requests = {Resolve} \/ mix.requests = {Resolve, Accept}
          \/ mix.requests = Everything
      BY <3>1, <3>2, Zenon
    <3>4. QED
      BY <3>3, Zenon
  <2>2. {Resolve, Accept} \subseteq Requests
    BY DEF AllRequests, Everything, Decisions
  <2>3. Everything \subseteq Requests
    BY DEF AllRequests
  <2>4. Refusals \subseteq Requests
    BY DEF AllRequests
  <2>5. EvidenceForms \subseteq Requests
    BY DEF AllRequests
  <2>6. Decisions \subseteq Requests /\ Closing \subseteq Requests
        /\ ClosingRefused \subseteq Requests
    BY <2>3 DEF Everything
  <2>7. Reviewing \subseteq Requests
    BY <2>3 DEF Everything, Closing, Reviewing
  <2>8. QED
    BY <2>1, <2>3, <2>4, <2>5, <2>6, <2>7, <2>2
<1>2. mix' = mix /\ [GovernedNext]_allVars
    BY <1>1 DEF MCNext, GovernedNext
<1>3. ASSUME Serial, MCNext PROVE [SerialStep]_vars
  <2>1. ASSUME NEW w \in Workers, NEW r \in mix.requests, Call(w, r),
               \A v \in Workers \ {w} : req[v] = NoRequest
        PROVE  SerialStep
    BY <1>1, <2>1 DEF Call, SerialStep, OwnStep, Alone
  <2>2. ASSUME NEW w \in Workers, ServerStep(w) \/ ServerFails(w) PROVE SerialStep
    BY <2>2, StepsHaveRequests DEF ServerStep, ServerFails, SerialStep, OwnStep
  <2>3. ASSUME NEW a \in Agents,
               \/ Lookup(a) \/ Conclude(a) \/ CommandStep(a)
               \/ LookupFails(a) \/ CommandFails(a)
        PROVE  UNCHANGED vars
    BY <2>3 DEF Lookup, Conclude, CommandStep, LookupFails, CommandFails
  <2>4. CASE ServerCrash
    BY <2>4 DEF ServerCrash, SerialStep
  <2>5. CASE (\E dry \in BOOLEAN : Reconcile(dry)) \/ ReconcileNext \/ ToolCrash
    BY <2>5 DEF Reconcile, ReconcileNext, ToolCrash
  <2>6. QED
    BY <1>3, <2>1, <2>2, <2>3, <2>4, <2>5 DEF MCNext
<1>4. QED
    BY <1>2, <1>3 DEF allVars

(* The same of each behaviour in which one thread's requests come one      *)
(* after the other, on a server with many threads, with the projection and *)
(* the tool beside it: SerialImplementsLedger, whatever fails.             *)
THEOREM MixedWasherImplementsLedger ==
    ASSUME AllRequests \subseteq Requests
    PROVE  MCSpec => SerialImplementsLedger
<1>1. MCInit => GovernedInit /\ MixInv /\ Ledger!Init /\ SerialInv
  <2> SUFFICES ASSUME MCInit PROVE GovernedInit /\ MixInv /\ Ledger!Init /\ SerialInv
    OBVIOUS
  <2>1. GovernedInit /\ MixInv /\ Init
    BY DEF MCInit, MixInv, GovernedInit
  <2>2. Ledger!Init /\ AloneReads
    BY <2>1, InitIsLedgerInit DEF AloneReads
  <2>3. FilesAre /\ OneCaller
    BY <2>1 DEF Init, FilesAre, OneCaller, Stores
  <2>4. QED
    BY <2>1, <2>2, <2>3, LedgerBegins DEF SerialInv
<1>2. /\ MCInit => ProjectionInv
      /\ MixInv /\ ProjectionInv /\ [MCNext]_<<allVars, mix>> => MixInv' /\ ProjectionInv'
  <2>1. MCInit => ProjectionInv
    BY <1>1, ProjectionInit
  <2>2. ASSUME MixInv, ProjectionInv, [MCNext]_<<allVars, mix>>
        PROVE  MixInv' /\ ProjectionInv'
    <3>1. WasherInv
      BY <2>2 DEF ProjectionInv
    <3>2. [GovernedNext]_allVars /\ mix' = mix
      BY <2>2, <3>1, MixesTaken
    <3>3. MixInv'
      BY <2>2, <3>2 DEF MixInv, Mixes, Mix
    <3>4. QED
      BY <2>2, <3>2, <3>3, ProjectionNext
  <2>3. QED
    BY <2>1, <2>2
<1>3. ASSUME MixInv, WasherInv, SerialInv, [MCNext]_<<allVars, mix>>
      PROVE  SerialInv' /\ [Serial => Ledger!Next]_file
  <2>1. mix' = mix
    BY <1>3, MixesTaken
  <2>2. CASE ~Serial
    BY <2>1, <2>2 DEF SerialInv, Serial
  <2>3. CASE Serial
    <3>1. [SerialStep]_vars /\ FilesAre /\ OneCaller /\ AloneReads
          /\ LedgerKeeps(file.decisions, file.closures)
      BY <1>3, <2>3, MixesTaken DEF SerialInv
    <3>2. FilesAre' /\ OneCaller' /\ AloneReads' /\ [Ledger!Next]_(Ledger!vars)
      BY <1>3, <3>1, SerialKeepsReads
    <3>3. LedgerKeeps(file.decisions, file.closures)'
      BY <3>1, <3>2, LedgerNext
    <3>4. UNCHANGED Ledger!vars => file' = file
      BY <3>1, <3>2 DEF FilesAre, Stores, Ledger!vars
    <3>5. QED
      BY <3>2, <3>3, <3>4 DEF SerialInv
  <2>4. QED
    BY <2>2, <2>3
<1>4. SerialInv => (Serial => LedgerInv)
    BY KeptIsLedgerInv DEF SerialInv
<1>5. ProjectionInv => WasherInv
    BY DEF ProjectionInv
<1>6. QED
    BY <1>1, <1>2, <1>3, <1>4, <1>5, PTL DEF MCSpec, SerialImplementsLedger

=============================================================================
