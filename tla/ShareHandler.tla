---------------------------- MODULE ShareHandler ----------------------------
(***************************************************************************)
(* Share handling (src/cryptixstratum/share_handler.go): what happens to a *)
(* mining.submit (v1) or SubmitSharesStandard (SV2) between its arrival    *)
(* and its answer.                                                         *)
(*                                                                         *)
(* One shareHandler serves every connection of both listeners.  Each       *)
(* connection has one reader goroutine, which runs HandleAuthorize and     *)
(* HandleSubmit to the end before it reads the next line; the goroutines   *)
(* of different connections, the goroutines NewBlockAvailable starts, the  *)
(* delayed goroutine of OnConnect and the disconnect listener interleave.  *)
(* sub[c].pc is the point the reader goroutine of c has reached; a step    *)
(* ends where the code releases a lock, completes an atomic operation or   *)
(* waits for the node.                                                     *)
(***************************************************************************)
EXTENDS MiningState, FiniteSetsExt

CONSTANTS
  RemoteAddr,   \* Clients -> the peer's address without its port
  Wallets,      \* wallet addresses a miner may authorize with
  Workers,      \* worker names, Anonymous not among them
  Identities,   \* Clients -> the <<wallet, worker>> pairs it authorizes with
  SV2Clients,   \* the clients served by HandleBinaryClient; the others speak v1
  Unconvertible,\* the templates RPCBlockToDomainBlock refuses
  MayMalform,   \* bound: the v1 clients that may send malformed submits
  MayDisconnect,\* bound: the clients whose connection may end
  JobIds,       \* job ids a miner may send
  Nonces,       \* nonces a miner may send, as parseV1SubmitNonce normalises them
  BlueScore,    \* Blocks -> Nat: Header.BlueScore
  PowValue,     \* Blocks -> Nonces -> Nat: CalculateProofOfWorkValue
  MinShareDiff, \* min_share_diff
  WorkWindow,   \* workWindow, 8 in the code
  MaxTracked,   \* maxTrackedSharesPerWorker, 2048 in the code
  MaxSubmits    \* Clients -> Nat, bound: submits of each client

ASSUME IdentitiesAssumption ==
  Identities \in [Clients -> SUBSET (Wallets \X (Workers \union {"anonymous"}))]
ASSUME ProtocolAssumption == SV2Clients \subseteq Clients /\ MayMalform \intersect SV2Clients = {}
ASSUME EmptyAssumption == "" \notin Wallets \union Workers
ASSUME JobIdsAssumption == JobIds \subseteq Int
ASSUME BlueScoreAssumption == BlueScore \in [Blocks -> Nat]
ASSUME PowValueAssumption == PowValue \in [Blocks -> [Nonces -> Nat]]
ASSUME MinShareDiffAssumption == MinShareDiff \in Diffs
ASSUME WorkWindowAssumption == WorkWindow \in Nat
ASSUME MaxTrackedAssumption == MaxTracked \in Nat \ {0}

VARIABLES
  wallet,       \* ctx.WalletAddr, Empty before authorize
  worker,       \* ctx.WorkerName, Empty before authorize
  conn,         \* "up", "closing" (Disconnect called), "gone" (OnDisconnect ran)
  held,         \* wallet addresses held in originalAddr by running goroutines
  stats,        \* sh.stats: key -> index into work, 0 when absent
  work,         \* the WorkStats objects allocated so far
  overall,      \* sh.overall
  tipBlueScore, \* sh.tipBlueScore
  dupeShares,   \* sh.dupeShares: key -> history, empty when absent
  sub,          \* the reader goroutine of each connection
  passed,       \* history: share keys let through per worker key since its
                \*   history was last cleared
  submits,      \* history: submits received per client
  answered,     \* history: answers given per client and verdict
  won           \* history: blocks the node has accepted

ctxVars == <<wallet, worker, conn, held>>
statVars == <<stats, work, overall>>
dupeVars == <<dupeShares, passed>>
shareVars == <<wallet, worker, conn, held, stats, work, overall, tipBlueScore,
               dupeShares, sub, passed, submits, answered, won>>
vars == <<miningStateVars, shareVars>>

----------------------------------------------------------------------------
(* Keys, counters, verdicts.                                                *)

Empty == ""
Anonymous == "anonymous"

\* A worker key is a string in the code.  The three shapes it can have are
\* told apart here by a tag, so that a worker name never equals an address.
WorkerKey(w) == <<"worker", w>>
AnonymousKey(a) == <<"anonymous", a>>
AddrKey(c) == <<"addr", RemoteAddr[c]>>

Keys == {WorkerKey(w) : w \in Workers \union {Empty, Anonymous}}
          \union {AnonymousKey(a) : a \in Wallets}
          \union {AddrKey(c) : c \in Clients}

workerStatsKey(c) ==
  IF worker[c] \notin {Empty, Anonymous} THEN WorkerKey(worker[c])
  ELSE IF wallet[c] # Empty THEN AnonymousKey(wallet[c])
  ELSE AddrKey(c)

Counters == {"shares", "blocks", "stale", "invalid"}
NoWork == [f \in Counters |-> 0]

\* "Malformed" and "Bad" are one answer on the wire; only the second counts.
Verdicts == {"Accepted", "Stale", "Duplicate", "LowDiff", "Bad", "Malformed"}
None == "none"

\* The counter that a verdict increments, on the worker and on overall.
CounterOf(v) ==
  CASE v = "Accepted" -> "shares"
    [] v = "Block"    -> "blocks"
    [] v = "Stale"    -> "stale"
    [] OTHER          -> "invalid"

NoHistory == [order |-> << >>, set |-> {}]

Idle == [pc |-> "idle", job |-> 0, nonce |-> None, block |-> NoJob,
         stat |-> 0, blockStat |-> 0, tip |-> 0, verdict |-> None, late |-> FALSE]

Goto(c, pc) == sub' = [sub EXCEPT ![c].pc = pc]

----------------------------------------------------------------------------
(* sh.stats                                                                 *)

\* Mutant: the entry under the remote address is dropped, not moved.
getCreateStatsDropsEarlyEntry(c) ==
  LET key == workerStatsKey(c)
  IN  IF stats[key] # 0
        THEN UNCHANGED <<stats, work>>
        ELSE /\ stats' = [stats EXCEPT ![AddrKey(c)] = 0, ![key] = Len(work) + 1]
             /\ work' = Append(work, NoWork)

\* Mutant: the migrated entry is also left under the remote address.
getCreateStatsKeepsEarlyEntry(c) ==
  LET key == workerStatsKey(c)
      early == stats[AddrKey(c)]
  IN  IF stats[key] # 0
        THEN UNCHANGED <<stats, work>>
        ELSE IF early # 0
        THEN /\ stats' = [stats EXCEPT ![key] = early]
             /\ UNCHANGED work
        ELSE /\ stats' = [stats EXCEPT ![key] = Len(work) + 1]
             /\ work' = Append(work, NoWork)

\* Under statsLock: find the entry, or move the one created before authorize
\* from the remote address, or create one.
getCreateStats(c) ==
  LET key == workerStatsKey(c)
      early == stats[AddrKey(c)]
  IN  IF stats[key] # 0
        THEN UNCHANGED <<stats, work>>
        ELSE IF early # 0
        THEN /\ stats' = [stats EXCEPT ![AddrKey(c)] = 0, ![key] = early]
             /\ UNCHANGED work
        ELSE /\ stats' = [stats EXCEPT ![key] = Len(work) + 1]
             /\ work' = Append(work, NoWork)

----------------------------------------------------------------------------
(* The submit path, one action per step of the reader goroutine.            *)

\* The id was issued to the client and is no longer in the ring; its slot holds
\* another template.
HasLeftRing(c, id) ==
  id \in 1 .. Len(issued[c]) - MaxJobs /\ GetJob(c, id) # issued[c][id]

\* HandleSubmit / HandleSubmitSV2 up to processSubmit: the template is looked
\* up; a missing one is a stale share.  (History: late, of the moment of the
\* lookup.)
Submit(c, id, n) ==
  LET block == GetJob(c, id)
  IN  /\ conn[c] = "up"
      /\ sub[c].pc = "idle"
      /\ submits[c] < MaxSubmits[c]
      /\ submits' = [submits EXCEPT ![c] = @ + 1]
      /\ sub' = [sub EXCEPT ![c] =
                   [Idle EXCEPT !.pc = "stats", !.job = id, !.nonce = n,
                                !.block = block, !.late = HasLeftRing(c, id),
                                !.verdict = IF block = NoJob THEN "Stale" ELSE None]]
      /\ UNCHANGED <<miningStateVars, ctxVars, statVars, dupeVars,
                     tipBlueScore, answered, won>>

\* validateSubmit or parseV1SubmitNonce rejects the parameters: an answer, and
\* nothing is counted.
SubmitMalformed(c) ==
  /\ c \in MayMalform \ SV2Clients
  /\ conn[c] = "up"
  /\ sub[c].pc = "idle"
  /\ submits[c] < MaxSubmits[c]
  /\ submits' = [submits EXCEPT ![c] = @ + 1]
  /\ sub' = [sub EXCEPT ![c] = [Idle EXCEPT !.pc = "reply", !.verdict = "Malformed"]]
  /\ UNCHANGED <<miningStateVars, ctxVars, statVars, dupeVars, tipBlueScore,
                 answered, won>>

\* getCreateStats at the head of processSubmit, or for a missing job.
ResolveStats(c) ==
  /\ sub[c].pc = "stats"
  /\ getCreateStats(c)
  /\ sub' = [sub EXCEPT ![c].pc = IF sub[c].verdict = None THEN "load" ELSE "tally",
                        ![c].stat = stats'[workerStatsKey(c)]]
  /\ UNCHANGED <<miningStateVars, ctxVars, overall, dupeVars, tipBlueScore,
                 submits, answered, won>>

\* checkStales: the tip is read, and the share is newer, too old or current.
LoadTip(c) ==
  LET score == BlueScore[sub[c].block]
  IN  /\ sub[c].pc = "load"
      /\ sub' = [sub EXCEPT
                   ![c].tip = tipBlueScore,
                   ![c].pc = IF score > tipBlueScore THEN "cas"
                             ELSE IF tipBlueScore - score > WorkWindow THEN "tally"
                             ELSE "dupe",
                   ![c].verdict = IF tipBlueScore - score > WorkWindow
                                    THEN "Stale" ELSE None]
      /\ UNCHANGED <<miningStateVars, ctxVars, statVars, dupeVars,
                     tipBlueScore, submits, answered, won>>

\* Mutant: the new tip is stored without comparing it with the tip it was
\* decided on.
StoreTip(c) ==
  /\ sub[c].pc = "cas"
  /\ tipBlueScore' = BlueScore[sub[c].block]
  /\ sub' = [sub EXCEPT ![c].pc = "dupe"]
  /\ UNCHANGED <<miningStateVars, ctxVars, statVars, dupeVars, submits, answered, won>>

\* checkStales: CompareAndSwap; on failure the loop starts again.
CasTip(c) ==
  /\ sub[c].pc = "cas"
  /\ IF tipBlueScore = sub[c].tip
       THEN tipBlueScore' = BlueScore[sub[c].block] /\ Goto(c, "dupe")
       ELSE UNCHANGED tipBlueScore /\ Goto(c, "load")
  /\ UNCHANGED <<miningStateVars, ctxVars, statVars, dupeVars,
                 submits, answered, won>>

----------------------------------------------------------------------------
(* trackDupeShare                                                           *)

shareKey(s) == <<s.job, s.nonce>>

\* Mutant: the evicted key stays in the set.
RecordShareKeepsEvicted(h, key) ==
  LET order == Append(h.order, key)
  IN  IF Len(order) > MaxTracked
        THEN [order |-> Tail(order), set |-> h.set \union {key}]
        ELSE [order |-> order, set |-> h.set \union {key}]

\* Mutant: the history is trimmed one key too early.
RecordShareEvictsEarly(h, key) ==
  LET order == Append(h.order, key)
      set == h.set \union {key}
  IN  IF Len(order) >= MaxTracked
        THEN [order |-> Tail(order), set |-> set \ {Head(order)}]
        ELSE [order |-> order, set |-> set]

\* A new key is appended; past the limit the oldest one is forgotten.
RecordShare(h, key) ==
  LET order == Append(h.order, key)
      set == h.set \union {key}
  IN  IF Len(order) > MaxTracked
        THEN [order |-> Tail(order), set |-> set \ {Head(order)}]
        ELSE [order |-> order, set |-> set]

TrackDupeShare(c) ==
  LET key == workerStatsKey(c)
      share == shareKey(sub[c])
  IN  /\ sub[c].pc = "dupe"
      /\ IF share \in dupeShares[key].set
           THEN /\ sub' = [sub EXCEPT ![c].pc = "tally", ![c].verdict = "Duplicate"]
                /\ UNCHANGED dupeVars
           ELSE /\ Goto(c, "pow")
                /\ dupeShares' = [dupeShares EXCEPT ![key] = RecordShare(@, share)]
                /\ passed' = [passed EXCEPT ![key] = Append(@, share)]
      /\ UNCHANGED <<miningStateVars, ctxVars, statVars, tipBlueScore,
                     submits, answered, won>>

----------------------------------------------------------------------------
\* processSubmit returns an error: nothing is counted.  The SV2 handler answers
\* that the share is bad; the error of a v1 submit is sunk and the miner is not
\* answered.
GivenUp(c) ==
  IF c \in SV2Clients THEN [Idle EXCEPT !.pc = "reply", !.verdict = "Malformed"] ELSE Idle

\* The template is converted, which may fail after the share was recorded; the
\* proof of work is compared with its network target and with the share target,
\* if there is one.
CheckPow(c) ==
  LET s == sub[c]
      pow == PowValue[s.block][s.nonce]
  IN  /\ s.pc = "pow"
      /\ sub' = [sub EXCEPT ![c] =
                   IF s.block \in Unconvertible \/ ~HasTarget(c) THEN GivenUp(c)
                   ELSE IF pow <= NetworkTarget[s.block] THEN [s EXCEPT !.pc = "rpc"]
                   ELSE IF pow >= ShareTarget(c)
                     THEN [s EXCEPT !.pc = "tally", !.verdict = "LowDiff"]
                   ELSE [s EXCEPT !.pc = "tally", !.verdict = "Accepted"]]
      /\ UNCHANGED <<miningStateVars, ctxVars, statVars, dupeVars,
                     tipBlueScore, submits, answered, won>>

\* Mutant: the node's answer is passed on as it is.
SubmitBlockRawStatus(c, response) ==
  /\ sub[c].pc = "rpc"
  /\ won' = won + (IF response = "ok" THEN 1 ELSE 0)
  /\ sub' = [sub EXCEPT ![c].pc = "blockStats",
                        ![c].verdict = IF response = "ok" THEN "Block" ELSE response]
  /\ UNCHANGED <<miningStateVars, ctxVars, statVars, dupeVars, tipBlueScore,
                 submits, answered>>

\* submitBlock: the node accepts the block, knows it already, or the call
\* fails for another reason.
SubmitBlock(c, response) ==
  /\ sub[c].pc = "rpc"
  /\ won' = won + (IF response = "ok" THEN 1 ELSE 0)
  /\ sub' = [sub EXCEPT ![c].pc = "blockStats",
                        ![c].verdict = CASE response = "ok" -> "Block"
                                         [] response = "ErrDuplicateBlock" -> "Stale"
                                         [] OTHER -> "Bad"]
  /\ UNCHANGED <<miningStateVars, ctxVars, statVars, dupeVars, tipBlueScore,
                 submits, answered>>

\* submitBlock resolves the worker's entry again before it counts.
ResolveBlockStats(c) ==
  /\ sub[c].pc = "blockStats"
  /\ getCreateStats(c)
  /\ LET id == stats'[workerStatsKey(c)]
     IN  sub' = [sub EXCEPT ![c].pc = "tally",
                            ![c].blockStat = id]
  /\ UNCHANGED <<miningStateVars, ctxVars, overall, dupeVars, tipBlueScore,
                 submits, answered, won>>

\* The entry a verdict is counted on: submitBlock counts on the entry it
\* resolved itself, processSubmit on the one it resolved at its head.
TallyEntry(s) == IF s.blockStat # 0 THEN s.blockStat ELSE s.stat

Tally(c) ==
  /\ sub[c].pc = "tally"
  /\ work' = [work EXCEPT ![TallyEntry(sub[c])][CounterOf(sub[c].verdict)] = @ + 1]
  /\ Goto(c, "overall")
  /\ UNCHANGED <<miningStateVars, ctxVars, stats, overall, dupeVars,
                 tipBlueScore, submits, answered, won>>

\* Mutant: a block found is not also counted as a share.
TallyOverallBlockOnly(c) ==
  LET s == sub[c]
  IN  /\ s.pc = "overall"
      /\ overall' = [overall EXCEPT ![CounterOf(s.verdict)] = @ + 1]
      /\ sub' = [sub EXCEPT ![c].pc = "reply",
                            ![c].verdict = IF @ = "Block" THEN "Accepted" ELSE @]
      /\ UNCHANGED <<miningStateVars, ctxVars, stats, work, dupeVars,
                     tipBlueScore, submits, answered, won>>

\* overall is incremented after the worker's entry; an accepted block then
\* falls through to the share counters of processSubmit.
TallyOverall(c) ==
  LET s == sub[c]
  IN  /\ s.pc = "overall"
      /\ overall' = [overall EXCEPT ![CounterOf(s.verdict)] = @ + 1]
      /\ sub' = [sub EXCEPT ![c] =
                   IF s.verdict = "Block"
                     THEN [s EXCEPT !.pc = "tally", !.blockStat = 0,
                                    !.verdict = "Accepted"]
                     ELSE [s EXCEPT !.pc = "reply"]]
      /\ UNCHANGED <<miningStateVars, ctxVars, stats, work, dupeVars,
                     tipBlueScore, submits, answered, won>>

\* replySubmitStatusV1, or the SV2 answer to the returned status.
Reply(c) ==
  /\ sub[c].pc = "reply"
  /\ answered' = [answered EXCEPT ![c][sub[c].verdict] = @ + 1]
  /\ sub' = [sub EXCEPT ![c] = Idle]
  /\ UNCHANGED <<miningStateVars, ctxVars, statVars, dupeVars, tipBlueScore,
                 submits, won>>
----------------------------------------------------------------------------
(* What else touches this state: authorize, the goroutines that hand out    *)
(* work, the delayed goroutine of OnConnect, disconnects.                   *)

\* HandleAuthorize, and the channel setup of SV2, assign the wallet first and
\* the worker name after it; other goroutines may read in between.
AuthorizeWallet(c, a) ==
  /\ \E w \in Workers \union {Anonymous} : <<a, w>> \in Identities[c]
  /\ conn[c] = "up"
  /\ sub[c].pc = "idle"
  /\ wallet' = [wallet EXCEPT ![c] = a]
  /\ Goto(c, "authorize")
  /\ UNCHANGED <<miningStateVars, worker, conn, held, statVars, dupeVars,
                 tipBlueScore, submits, answered, won>>

AuthorizeWorker(c, w) ==
  /\ \E a \in Wallets : <<a, w>> \in Identities[c]
  /\ sub[c].pc = "authorize"
  /\ worker' = [worker EXCEPT ![c] = w]
  /\ Goto(c, "idle")
  /\ UNCHANGED <<miningStateVars, wallet, conn, held, statVars, dupeVars,
                 tipBlueScore, submits, answered, won>>

\* The goroutine of OnConnect, some seconds after the connection was accepted.
BackgroundStats(c) ==
  /\ getCreateStats(c)
  /\ UNCHANGED <<miningStateVars, ctxVars, overall, dupeVars, tipBlueScore,
                 sub, submits, answered, won>>

\* NewBlockAvailable starts a goroutine for an authorized client: it remembers
\* the wallet and resolves the worker's entry.  (Bounds: one goroutine per
\* client and wallet at a time, and none once MaxIssued jobs are stored.)
DispatchBegin(c) ==
  /\ jobCounter[c] < MaxIssued
  /\ conn[c] = "up"
  /\ wallet[c] \notin held[c] \union {Empty}
  /\ held' = [held EXCEPT ![c] = @ \union {wallet[c]}]
  /\ getCreateStats(c)
  /\ UNCHANGED <<miningStateVars, wallet, worker, conn, overall, dupeVars,
                 tipBlueScore, sub, submits, answered, won>>

\* The goroutine notes the network target of its template, initialises the
\* mining state if nobody has, and stores the job.  Nothing of this is visible
\* to the submit path before the job is stored, so it is one step here;
\* JobDispatch has the steps.
DispatchJob(c, b) ==
  /\ held[c] # {}
  /\ bigDiff' = [bigDiff EXCEPT ![c] = NetworkTarget[b]]
  /\ InitializeIfNeeded(c, MinShareDiff)
  /\ AddJob(c, b)
  /\ UNCHANGED shareVars

\* The goroutine finds that vardiff, or in solo mode the network, asks for
\* another difficulty.
DispatchDiff(c, d) ==
  /\ held[c] # {}
  /\ c \in initialized
  /\ SetStratumDiff(c, d)
  /\ UNCHANGED <<ringVars, shareVars>>

\* The goroutine ends: on success it writes the remembered wallet back.
DispatchEnd(c, a) ==
  /\ a \in held[c]
  /\ held' = [held EXCEPT ![c] = @ \ {a}]
  /\ wallet' = [wallet EXCEPT ![c] = a]
  /\ UNCHANGED <<miningStateVars, worker, conn, statVars, dupeVars,
                 tipBlueScore, sub, submits, answered, won>>

DispatchFail(c, a) ==
  /\ a \in held[c]
  /\ held' = [held EXCEPT ![c] = @ \ {a}]
  /\ UNCHANGED <<miningStateVars, wallet, worker, conn, statVars, dupeVars,
                 tipBlueScore, sub, submits, answered, won>>

Disconnect(c) ==
  /\ c \in MayDisconnect
  /\ conn[c] = "up"
  /\ conn' = [conn EXCEPT ![c] = "closing"]
  /\ UNCHANGED <<miningStateVars, wallet, worker, held, statVars, dupeVars,
                 tipBlueScore, sub, submits, answered, won>>

\* clearClientDupeHistory deletes up to three entries.
ClearedKeys(c) == {AddrKey(c), WorkerKey(worker[c]), workerStatsKey(c)}

OnDisconnect(c) ==
  /\ conn[c] = "closing"
  /\ conn' = [conn EXCEPT ![c] = "gone"]
  /\ dupeShares' = [k \in Keys |-> IF k \in ClearedKeys(c) THEN NoHistory ELSE dupeShares[k]]
  /\ passed' = [k \in Keys |-> IF k \in ClearedKeys(c) THEN << >> ELSE passed[k]]
  /\ UNCHANGED <<miningStateVars, wallet, worker, held, statVars,
                 tipBlueScore, sub, submits, answered, won>>

----------------------------------------------------------------------------
Init ==
  /\ MiningStateInit
  /\ wallet = [c \in Clients |-> Empty]
  /\ worker = [c \in Clients |-> Empty]
  /\ conn = [c \in Clients |-> "up"]
  /\ held = [c \in Clients |-> {}]
  /\ stats = [k \in Keys |-> 0]
  /\ work = << >>
  /\ overall = NoWork
  /\ tipBlueScore = 0
  /\ dupeShares = [k \in Keys |-> NoHistory]
  /\ sub = [c \in Clients |-> Idle]
  /\ passed = [k \in Keys |-> << >>]
  /\ submits = [c \in Clients |-> 0]
  /\ answered = [c \in Clients |-> [v \in Verdicts |-> 0]]
  /\ won = 0

\* The steps that carry a received submit to its answer.
SubmitStep(c) ==
  \/ ResolveStats(c)
  \/ LoadTip(c)
  \/ CasTip(c)
  \/ TrackDupeShare(c)
  \/ CheckPow(c)
  \/ \E r \in {"ok", "ErrDuplicateBlock", "error"} : SubmitBlock(c, r)
  \/ ResolveBlockStats(c)
  \/ Tally(c)
  \/ TallyOverall(c)
  \/ Reply(c)

Environment(c) ==
  \/ \E id \in JobIds, n \in Nonces : Submit(c, id, n)
  \/ SubmitMalformed(c)
  \/ \E a \in Wallets : AuthorizeWallet(c, a)
  \/ \E w \in Workers \union {Anonymous} : AuthorizeWorker(c, w)
  \/ BackgroundStats(c)
  \/ DispatchBegin(c)
  \/ \E d \in Diffs : DispatchDiff(c, d)
  \/ \E b \in Blocks : DispatchJob(c, b)
  \/ \E a \in Wallets : DispatchEnd(c, a)
  \/ \E a \in Wallets : DispatchFail(c, a)
  \/ Disconnect(c)
  \/ OnDisconnect(c)

Next == \E c \in Clients : SubmitStep(c) \/ Environment(c)

Spec == Init /\ [][Next]_vars

----------------------------------------------------------------------------
(* Properties                                                               *)

SubPcs == {"idle", "authorize", "stats", "load", "cas", "dupe", "pow", "rpc",
           "blockStats", "tally", "overall", "reply"}

ShareKeys == JobIds \X Nonces

SubRecords ==
  [pc : SubPcs, job : JobIds \union {0}, nonce : Nonces \union {None},
   block : Blocks \union {NoJob}, stat : Nat, blockStat : Nat, tip : Nat,
   verdict : Verdicts \union {None, "Block"}, late : BOOLEAN]

\* Every variable stays in its type.
TypeOK ==
  /\ MiningStateTypeOK
  /\ wallet \in [Clients -> Wallets \union {Empty}]
  /\ worker \in [Clients -> Workers \union {Empty, Anonymous}]
  /\ conn \in [Clients -> {"up", "closing", "gone"}]
  /\ held \in [Clients -> SUBSET Wallets]
  /\ stats \in [Keys -> Nat]
  /\ work \in Seq([Counters -> Nat])
  /\ overall \in [Counters -> Nat]
  /\ tipBlueScore \in Nat
  /\ dupeShares \in [Keys -> [order : Seq(ShareKeys), set : SUBSET ShareKeys]]
  /\ sub \in [Clients -> SubRecords]
  /\ passed \in [Keys -> Seq(ShareKeys)]
  /\ submits \in [Clients -> Nat]
  /\ answered \in [Clients -> [Verdicts -> Nat]]
  /\ won \in Nat

\* trackDupeShare keeps each history twice, as a slice and as a map, and trims
\* both: they hold the same keys, no key twice, and never more than MaxTracked.
HistoryConsistent ==
  \A k \in Keys :
    LET h == dupeShares[k]
    IN  /\ h.set = {h.order[i] : i \in 1 .. Len(h.order)}
        /\ \A i, j \in 1 .. Len(h.order) : h.order[i] = h.order[j] => i = j
        /\ Len(h.order) <= MaxTracked

\* trackDupeShare, with any number of connections of one worker racing: a job
\* id and nonce is let through twice under one worker key only after more than
\* MaxTracked - 1 other shares came between, or after a disconnect cleared the
\* history.
DuplicateWindow ==
  \A k \in Keys :
    \A i, j \in 1 .. Len(passed[k]) :
      i < j /\ passed[k][i] = passed[k][j] => j - i > MaxTracked

\* checkStales: once a share is past the staleness check, the tip is at least
\* its blue score, and a share rejected by the check is more than WorkWindow
\* behind the tip, whatever other connections did to the tip in between.
StalenessJustified ==
  \A c \in Clients :
    LET s == sub[c]
    IN  /\ s.pc \in {"dupe", "pow", "rpc"} => BlueScore[s.block] <= tipBlueScore
        /\ s.pc \in {"tally", "overall", "reply"} /\ s.verdict = "Stale"
             /\ s.block # NoJob /\ s.blockStat = 0
             => tipBlueScore - BlueScore[s.block] > WorkWindow

\* checkStales on several connections at once never lowers the tip.
TipNeverFalls == [][tipBlueScore' >= tipBlueScore]_vars

\* getCreateStats: moving an entry from the remote address to the worker key
\* neither loses a WorkStats object nor leaves it reachable under two keys.
StatsReachableOnce ==
  \A id \in 1 .. Len(work) :
    \E k \in Keys : stats[k] = id /\ \A l \in Keys : stats[l] = id => l = k

\* What the statistics table sums up: the entries reachable through sh.stats.
ReachableTotal(f) == MapThenSumSet(LAMBDA k : work[stats[k]][f],
                                   {k \in Keys : stats[k] # 0})
InFlight(pc, f) ==
  Cardinality({c \in Clients : sub[c].pc = pc /\ CounterOf(sub[c].verdict) = f})

\* The worker rows of the statistics table always add up to the total row, up
\* to the submits that are between their two increments.
RowsAddUp ==
  \A f \in Counters : ReachableTotal(f) = overall[f] + InFlight("overall", f)

\* Where ShareLedger sees the submit of a client.  A share that meets the
\* network target is on its way to be counted as one after the block was; one
\* for a template that cannot be converted may be given up.
Phase(c) ==
  LET s == sub[c]
      solved == PowValue[s.block][s.nonce] <= NetworkTarget[s.block]
  IN  CASE s.pc \in {"idle", "authorize"} -> "none"
        [] s.pc = "reply" -> s.verdict
        [] s.verdict = "Block" -> "won"
        [] s.pc \in {"tally", "overall"} /\ s.verdict = "Accepted" /\ solved -> "share"
        [] OTHER -> IF s.block \in Unconvertible THEN "unreadable" ELSE "received"

Ledger == INSTANCE ShareLedger
            WITH phase <- [c \in Clients |-> Phase(c)], tally <- overall,
                 answers <- answered, blocks <- won

\* The share handler implements its ledger: whatever the connections do at the
\* same time, every submit is counted once in the total row and answered once
\* with the verdict that was counted, and every block the node accepted counts
\* as a block and as a share.  Of the two error returns of processSubmit one is
\* never taken (no share target: work is handed out only after
\* InitializeIfNeeded); the other (RPCBlockToDomainBlock fails) is why a submit
\* for such a template, and no other, may be left uncounted, and on v1 also
\* unanswered, although its share was recorded.
ImplementsLedger == Ledger!LedgerSpec

\* A share for a job that was issued to the miner and had left the ring when
\* HandleSubmit looked it up is answered stale (STRATUM_PROTOCOL_INFO.md:
\* "stale-share: your job is old").
OldJobAnsweredStale ==
  \A c \in Clients : sub[c].pc = "reply" /\ sub[c].late => sub[c].verdict = "Stale"
=============================================================================
