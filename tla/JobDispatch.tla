---------------------------- MODULE JobDispatch ----------------------------
(***************************************************************************)
(* Handing out work (src/cryptixstratum/client_handler.go): for every new  *)
(* template NewBlockAvailable starts one goroutine per authorized client,  *)
(* which fetches a template for the client's wallet, brings the client's   *)
(* difficulty up to date, stores the job and sends it.  Nothing waits for  *)
(* the goroutine of the previous template, so several may run for one      *)
(* client, next to its reader goroutine (authorize on v1, the channel      *)
(* setup of sv2_handler.go on SV2) and to the vardiff thread.              *)
(*                                                                         *)
(* A WorkStats entry is MinDiff and the tracker of a worker key here; the  *)
(* rest of it is in ShareHandler.  An absent entry is one with MinDiff 0   *)
(* and no tracker: getCreateStats makes such entries, and one it moves     *)
(* from the remote address is still such a one, because setClientVardiff   *)
(* is called for clients with a wallet only.                               *)
(***************************************************************************)
EXTENDS MiningState, FiniteSets

CONSTANTS
  Goroutines,    \* bound: the goroutines that may run at the same time
  Wallets,       \* wallet addresses
  Workers,       \* worker names, Anonymous not among them
  Identities,    \* Clients -> the <<wallet, worker>> pairs it authorizes with
  MinShareDiff,  \* min_share_diff
  SoloMining,    \* solo_mining
  MaxChannels,   \* bound: SV2 channels opened
  SendsMayFail   \* whether writeWithBackoff may give up after its attempts

ASSUME DispatchGoroutinesAssumption == IsFiniteSet(Goroutines)
ASSUME DispatchMinShareDiffAssumption == MinShareDiff \in Diffs
ASSUME SoloMiningAssumption == SoloMining \in BOOLEAN
ASSUME DispatchWalletsAssumption == "" \notin Wallets \union Workers
ASSUME DispatchIdentitiesAssumption ==
  Identities \in [Clients -> SUBSET (Wallets \X (Workers \union {"anonymous"}))]
ASSUME NetDiffAssumption ==
  SoloMining => \A b \in Blocks : MaxTarget \div NetworkTarget[b] \in Diffs

VARIABLES
  proto,         \* what the client speaks: "v1" or "v2"
  wallet,        \* ctx.WalletAddr
  worker,        \* ctx.WorkerName
  disconnecting, \* the clients with ctx.disconnecting set
  sv2Enabled,    \* the clients with ctx.sv2Enabled set
  sv2ChannelID,  \* ctx.sv2ChannelID
  nextChannelID, \* sv2Handler.nextChannelID
  minDiff,       \* sh.stats: worker key -> MinDiff, 0 while unset
  tracker,       \* the worker keys whose VarDiffStartTime is set
  reader,        \* the reader goroutine of each client
  go,            \* the goroutines of NewBlockAvailable
  wire,          \* history: what was written to each client, in order, and the
                 \*   difficulties whose write was given up ("unsent")
  moved          \* history: the clients that got another worker key while work
                 \*   was handed out to them

identityVars == <<wallet, worker, moved>>
channelVars == <<sv2Enabled, sv2ChannelID, nextChannelID>>
ctxVars == <<proto, identityVars, disconnecting, channelVars>>
vardiffVars == <<minDiff, tracker>>
vars == <<miningStateVars, ctxVars, vardiffVars, reader, go, wire>>

----------------------------------------------------------------------------
Empty == ""
Anonymous == "anonymous"

\* The shapes of a worker key, told apart by a tag.
WorkerKey(w) == <<"worker", w>>
AnonymousKey(a) == <<"anonymous", a>>
AddrKey(c) == <<"addr", c>>
Keys == {WorkerKey(w) : w \in Workers} \union {AnonymousKey(a) : a \in Wallets}
          \union {AddrKey(c) : c \in Clients}

KeyOf(c, a, w) ==
  IF w \notin {Empty, Anonymous} THEN WorkerKey(w)
  ELSE IF a # Empty THEN AnonymousKey(a)
  ELSE AddrKey(c)

workerStatsKey(c) == KeyOf(c, wallet[c], worker[c])

\* A message on the wire: its kind, and of the fields below the ones it has.
Message(kind, chan, diff, job, block) ==
  [kind |-> kind, chan |-> chan, diff |-> diff, job |-> job, block |-> block]

DiffKinds == {"set_difficulty", "SetTarget", "OpenSuccess"}
JobKinds == {"notify", "NewMiningJob"}
Kinds == DiffKinds \union JobKinds \union {"SetNewPrevHash", "unsent"}

TargetToDiff(t) == MaxTarget \div t

IdleGo == [pc |-> "idle", client |-> Empty, addr |-> Empty, block |-> NoJob,
           varDiff |-> 0, job |-> 0]

Running(c) == {g \in Goroutines : go[g].pc # "idle" /\ go[g].client = c}

Step(g, pc) == go' = [go EXCEPT ![g].pc = pc]
Finish(g) == go' = [go EXCEPT ![g] = IdleGo]

\* An assignment to ctx.WalletAddr or ctx.WorkerName, which may give the client
\* another worker key.
Assign(c, a, w) ==
  /\ wallet' = [wallet EXCEPT ![c] = a]
  /\ worker' = [worker EXCEPT ![c] = w]
  /\ moved' = IF KeyOf(c, a, w) # workerStatsKey(c)
                  /\ (c \in initialized \/ Running(c) # {})
                THEN moved \union {c}
                ELSE moved

Write(c, m) == wire' = [wire EXCEPT ![c] = Append(@, m)]

SendResults == IF SendsMayFail THEN {"ok", "failed"} ELSE {"ok"}

----------------------------------------------------------------------------
(* NewBlockAvailable and its goroutines.                                    *)

\* The snapshot under clientLock, and the start of the goroutine.
Spawn(g, c) ==
  /\ go[g].pc = "idle"
  /\ c \notin disconnecting
  /\ wallet[c] # Empty
  /\ jobCounter[c] + Cardinality(Running(c)) < MaxIssued
  /\ go' = [go EXCEPT ![g] = [IdleGo EXCEPT !.pc = "addr", !.client = c]]
  /\ UNCHANGED <<miningStateVars, ctxVars, vardiffVars, reader, wire>>

ReadAddr(g) ==
  /\ go[g].pc = "addr"
  /\ go' = [go EXCEPT ![g].addr = wallet[go[g].client], ![g].pc = "template"]
  /\ UNCHANGED <<miningStateVars, ctxVars, vardiffVars, reader, wire>>

FetchTemplate(g, b) ==
  /\ go[g].pc = "template"
  /\ SetNetworkTarget(go[g].client, b)
  /\ go' = [go EXCEPT ![g].block = b, ![g].pc = "init"]
  /\ UNCHANGED <<ringVars, ctxVars, vardiffVars, reader, wire>>

\* The node refuses the address, which ends the connection, or fails.
FetchFails(g, badAddress) ==
  /\ go[g].pc = "template"
  /\ disconnecting' = IF badAddress
                        THEN disconnecting \union {go[g].client}
                        ELSE disconnecting
  /\ Finish(g)
  /\ UNCHANGED <<miningStateVars, proto, identityVars, channelVars, vardiffVars,
                 reader, wire>>

\* The header of the template cannot be serialized.
SerializeFails(g) ==
  /\ go[g].pc = "init"
  /\ Finish(g)
  /\ UNCHANGED <<miningStateVars, ctxVars, vardiffVars, reader, wire>>

\* Mutant: a goroutine that finds the state uninitialised leaves that to others.
InitStateSkipped(g) ==
  /\ go[g].pc = "init"
  /\ Step(g, "varDiff")
  /\ UNCHANGED <<miningStateVars, ctxVars, vardiffVars, reader, wire>>

InitState(g) ==
  LET c == go[g].client
  IN  /\ go[g].pc = "init"
      /\ InitializeIfNeeded(c, MinShareDiff)
      /\ Step(g, IF c \in initialized THEN "varDiff" ELSE "setVarDiff")
      /\ UNCHANGED <<ringVars, bigDiff, ctxVars, vardiffVars, reader, wire>>

\* Mutant: the difficulty is added to the old one.
setClientVardiffAdds(c) ==
  /\ minDiff' = [minDiff EXCEPT ![workerStatsKey(c)] = @ + MinShareDiff]
  /\ tracker' = tracker \union {workerStatsKey(c)}

\* updateVarDiff then startVarDiff, under statsLock.
setClientVardiff(c) ==
  /\ minDiff' = [minDiff EXCEPT ![workerStatsKey(c)] = MinShareDiff]
  /\ tracker' = tracker \union {workerStatsKey(c)}

SetInitialVarDiff(g) ==
  LET c == go[g].client
  IN  /\ go[g].pc = "setVarDiff"
      /\ setClientVardiff(c)
      /\ Step(g, IF ~SoloMining /\ c \notin sv2Enabled THEN "sendInitial" ELSE "varDiff")
      /\ UNCHANGED <<miningStateVars, ctxVars, reader, wire>>

\* sendClientDiff: a failed or refused write is logged and forgotten.
sendClientDiff(c, d, result) ==
  IF c \in disconnecting
    THEN UNCHANGED wire
    ELSE Write(c, Message(IF result = "failed" THEN "unsent" ELSE "set_difficulty",
                          0, d, 0, NoJob))

SendInitialDiff(g, result) ==
  /\ go[g].pc = "sendInitial"
  /\ sendClientDiff(go[g].client, MinShareDiff, result)
  /\ Step(g, "varDiff")
  /\ UNCHANGED <<miningStateVars, ctxVars, vardiffVars, reader>>

\* setSoloDiff only feeds the statistics table.
ReadVarDiff(g) ==
  LET c == go[g].client
  IN  /\ go[g].pc = "varDiff"
      /\ go' = [go EXCEPT ![g].varDiff = IF SoloMining THEN TargetToDiff(NetworkTarget[go[g].block])
                                         ELSE minDiff[workerStatsKey(c)],
                          ![g].pc = "compare"]
      /\ UNCHANGED <<miningStateVars, ctxVars, vardiffVars, reader, wire>>

Compare(g) ==
  LET cur == GetStratumDiffValue(go[g].client)
  IN  /\ go[g].pc = "compare"
      /\ Step(g, IF go[g].varDiff \in {0, cur} THEN "addJob" ELSE "setDiff")
      /\ UNCHANGED <<miningStateVars, ctxVars, vardiffVars, reader, wire>>

ApplyDiff(g) ==
  /\ go[g].pc = "setDiff"
  /\ SetStratumDiff(go[g].client, go[g].varDiff)
  /\ Step(g, "sendDiff")
  /\ UNCHANGED <<ringVars, ctxVars, vardiffVars, reader, wire>>

\* A failed SV2 frame ends the connection and the goroutine; Disconnect is
\* without effect when the connection is already going down.
Abort(g) ==
  /\ disconnecting' = disconnecting \union {go[g].client}
  /\ Finish(g)
  /\ UNCHANGED <<wire, proto, identityVars, channelVars>>

Refused(g, result) == go[g].client \in disconnecting \/ result = "failed"

\* Mutant: the new difficulty takes effect without being sent.
SendDiffSkipped(g, result) ==
  /\ go[g].pc = "sendDiff"
  /\ Step(g, "startTracker")
  /\ UNCHANGED <<miningStateVars, ctxVars, vardiffVars, reader, wire>>

SendDiff(g, result) ==
  LET c == go[g].client
      d == go[g].varDiff
  IN  /\ go[g].pc = "sendDiff"
      /\ IF c \in sv2Enabled /\ Refused(g, result)
           THEN Abort(g)
           ELSE /\ IF c \in sv2Enabled
                     THEN Write(c, Message("SetTarget", sv2ChannelID[c], d, 0, NoJob))
                     ELSE sendClientDiff(c, d, result)
                /\ Step(g, "startTracker")
                /\ UNCHANGED ctxVars
      /\ UNCHANGED <<miningStateVars, vardiffVars, reader>>

\* Mutant: the tracker is not restarted.
StartTrackerSkipped(g) ==
  /\ go[g].pc = "startTracker"
  /\ Step(g, "addJob")
  /\ UNCHANGED <<miningStateVars, ctxVars, vardiffVars, reader, wire>>

\* startClientVardiff
StartTracker(g) ==
  /\ go[g].pc = "startTracker"
  /\ tracker' = tracker \union {workerStatsKey(go[g].client)}
  /\ Step(g, "addJob")
  /\ UNCHANGED <<miningStateVars, ctxVars, minDiff, reader, wire>>

\* Mutant: the job id is read before the lock is taken.
StoreJobRacyId(g) ==
  LET c == go[g].client
  IN  /\ go[g].pc = "addJob"
      /\ AddJob(c, go[g].block)
      /\ go' = [go EXCEPT ![g].job = jobCounter[c], ![g].pc = "sendJob"]
      /\ UNCHANGED <<diffVars, ctxVars, vardiffVars, reader, wire>>

StoreJob(g) ==
  LET c == go[g].client
  IN  /\ go[g].pc = "addJob"
      /\ AddJob(c, go[g].block)
      /\ go' = [go EXCEPT ![g].job = jobCounter'[c], ![g].pc = "sendJob"]
      /\ UNCHANGED <<diffVars, ctxVars, vardiffVars, reader, wire>>

\* Mutant: the id is read again when the job is sent.
SendJobNewestId(g, result) ==
  LET c == go[g].client
  IN  /\ go[g].pc = "sendJob"
      /\ Write(c, Message("notify", 0, 0, jobCounter[c], go[g].block))
      /\ Step(g, "restore")
      /\ UNCHANGED <<miningStateVars, ctxVars, vardiffVars, reader>>

\* A v1 notify that fails for another reason than a disconnect is logged, and
\* the goroutine goes on.
SendJob(g, result) ==
  LET c == go[g].client
      kind == IF c \in sv2Enabled THEN "NewMiningJob" ELSE "notify"
      chan == IF c \in sv2Enabled THEN sv2ChannelID[c] ELSE 0
  IN  /\ go[g].pc = "sendJob"
      /\ IF c \in disconnecting \/ (c \in sv2Enabled /\ result = "failed")
           THEN Abort(g)
           ELSE /\ IF result = "failed"
                     THEN UNCHANGED wire
                     ELSE Write(c, Message(kind, chan, 0, go[g].job, go[g].block))
                /\ Step(g, IF c \in sv2Enabled THEN "prevHash" ELSE "restore")
                /\ UNCHANGED ctxVars
      /\ UNCHANGED <<miningStateVars, vardiffVars, reader>>

\* The second frame of sendSV2Job; its previous hash is all zero and stands
\* for the hash of the NewMiningJob the miner saw last.
SendPrevHash(g, result) ==
  LET c == go[g].client
  IN  /\ go[g].pc = "prevHash"
      /\ IF Refused(g, result)
           THEN Abort(g)
           ELSE /\ Write(c, Message("SetNewPrevHash", sv2ChannelID[c], 0, go[g].job, NoJob))
                /\ Step(g, "restore")
                /\ UNCHANGED ctxVars
      /\ UNCHANGED <<miningStateVars, vardiffVars, reader>>

RestoreWallet(g) ==
  LET c == go[g].client
  IN  /\ go[g].pc = "restore"
      /\ Assign(c, go[g].addr, worker[c])
      /\ Finish(g)
      /\ UNCHANGED <<miningStateVars, proto, disconnecting, channelVars, vardiffVars,
                     reader, wire>>
----------------------------------------------------------------------------
(* The reader goroutine: HandleAuthorize on v1, HandleBinaryClient on SV2.  *)

ReaderStep(c, from, to) ==
  /\ reader[c].pc = from
  /\ reader' = [reader EXCEPT ![c].pc = to]

\* The wallet is assigned first, then the worker name.
AuthorizeWallet(c, a) ==
  /\ proto[c] = "v1"
  /\ c \notin disconnecting
  /\ ReaderStep(c, "idle", "worker")
  /\ Assign(c, a, worker[c])
  /\ UNCHANGED <<miningStateVars, proto, disconnecting, channelVars, vardiffVars, go, wire>>

AssignWorker(c, w) ==
  /\ \E a \in Wallets : <<a, w>> \in Identities[c]
  /\ ReaderStep(c, "worker", IF proto[c] = "v1" THEN "idle" ELSE "enable")
  /\ Assign(c, wallet[c], w)
  /\ UNCHANGED <<miningStateVars, proto, disconnecting, channelVars, vardiffVars, go, wire>>

SetupConnection(c) ==
  /\ proto[c] = "v2"
  /\ c \notin disconnecting
  /\ ReaderStep(c, "setup", "idle")
  /\ UNCHANGED <<miningStateVars, ctxVars, vardiffVars, go, wire>>

\* OpenStandardMiningChannel before SetupConnection ends the connection.
OpenChannelTooEarly(c) ==
  /\ proto[c] = "v2"
  /\ c \notin disconnecting
  /\ reader[c].pc = "setup"
  /\ disconnecting' = disconnecting \union {c}
  /\ UNCHANGED <<miningStateVars, proto, identityVars, channelVars, vardiffVars,
                 reader, go, wire>>

OpenChannel(c, a) ==
  /\ proto[c] = "v2"
  /\ c \notin disconnecting
  /\ nextChannelID < MaxChannels
  /\ ReaderStep(c, "idle", "worker")
  /\ Assign(c, a, worker[c])
  /\ UNCHANGED <<miningStateVars, proto, disconnecting, channelVars, vardiffVars, go, wire>>

\* EnableSV2 stores its two fields one after the other.
EnableSV2(c) ==
  /\ reader[c].pc = "enable"
  /\ nextChannelID' = nextChannelID + 1
  /\ sv2Enabled' = sv2Enabled \union {c}
  /\ reader' = [reader EXCEPT ![c].pc = "channel", ![c].chan = nextChannelID + 1]
  /\ UNCHANGED <<miningStateVars, proto, identityVars, disconnecting,
                 sv2ChannelID, vardiffVars, go, wire>>

StoreChannelID(c) ==
  /\ ReaderStep(c, "channel", "init")
  /\ sv2ChannelID' = [sv2ChannelID EXCEPT ![c] = reader[c].chan]
  /\ UNCHANGED <<miningStateVars, proto, identityVars, disconnecting,
                 sv2Enabled, nextChannelID, vardiffVars, go, wire>>

ChannelInit(c) ==
  /\ ReaderStep(c, "init", "setVarDiff")
  /\ InitializeIfNeeded(c, MinShareDiff)
  /\ UNCHANGED <<ringVars, bigDiff, ctxVars, vardiffVars, go, wire>>

ChannelVarDiff(c) ==
  /\ ReaderStep(c, "setVarDiff", "target")
  /\ setClientVardiff(c)
  /\ UNCHANGED <<miningStateVars, ctxVars, go, wire>>

ChannelTarget(c) ==
  /\ reader[c].pc = "target"
  /\ LET d == IF HasTarget(c) THEN stratumDiff[c] ELSE MinShareDiff
     IN  /\ reader' = [reader EXCEPT ![c].pc = "success", ![c].diff = d]
         /\ SetStratumDiff(c, d)
  /\ UNCHANGED <<ringVars, ctxVars, vardiffVars, go, wire>>

\* A write that fails ends the reader, and with it the connection.
OpenChannelSuccess(c, result) ==
  /\ ReaderStep(c, "success", "idle")
  /\ IF c \in disconnecting \/ result = "failed"
       THEN /\ disconnecting' = disconnecting \union {c}
            /\ UNCHANGED wire
       ELSE /\ Write(c, Message("OpenSuccess", reader[c].chan, reader[c].diff, 0, NoJob))
            /\ UNCHANGED disconnecting
  /\ UNCHANGED <<miningStateVars, proto, identityVars, channelVars, vardiffVars, go>>

----------------------------------------------------------------------------
\* The vardiff thread finds the share rate of a worker out of tolerance:
\* updateVarDiff with a difficulty that differs (VarDiff:
\* StoppedTrackerHasDiffToSend), except that a multiple of 0 is 0.
Retarget(k, d) ==
  /\ k \in tracker
  /\ IF minDiff[k] = 0 THEN d = 0 ELSE d \in Diffs \ {minDiff[k]}
  /\ minDiff' = [minDiff EXCEPT ![k] = d]
  /\ tracker' = tracker \ {k}
  /\ UNCHANGED <<miningStateVars, ctxVars, reader, go, wire>>

Disconnect(c) ==
  /\ c \notin disconnecting
  /\ disconnecting' = disconnecting \union {c}
  /\ UNCHANGED <<miningStateVars, proto, identityVars, channelVars, vardiffVars,
                 reader, go, wire>>

Init ==
  /\ MiningStateInit
  /\ proto \in [Clients -> {"v1", "v2"}]
  /\ wallet = [c \in Clients |-> Empty]
  /\ worker = [c \in Clients |-> Empty]
  /\ disconnecting = {}
  /\ sv2Enabled = {}
  /\ sv2ChannelID = [c \in Clients |-> 0]
  /\ nextChannelID = 0
  /\ minDiff = [k \in Keys |-> 0]
  /\ tracker = {}
  /\ reader = [c \in Clients |-> [pc |-> IF proto[c] = "v1" THEN "idle" ELSE "setup",
                                   chan |-> 0, diff |-> 0]]
  /\ go = [g \in Goroutines |-> IdleGo]
  /\ wire = [c \in Clients |-> << >>]
  /\ moved = {}

GoNext(g) ==
  \/ \E c \in Clients : Spawn(g, c)
  \/ ReadAddr(g)
  \/ \E b \in Blocks : FetchTemplate(g, b)
  \/ \E bad \in BOOLEAN : FetchFails(g, bad)
  \/ SerializeFails(g)
  \/ InitState(g)
  \/ SetInitialVarDiff(g)
  \/ \E r \in SendResults : SendInitialDiff(g, r)
  \/ ReadVarDiff(g)
  \/ Compare(g)
  \/ ApplyDiff(g)
  \/ \E r \in SendResults : SendDiff(g, r)
  \/ StartTracker(g)
  \/ StoreJob(g)
  \/ \E r \in SendResults : SendJob(g, r)
  \/ \E r \in SendResults : SendPrevHash(g, r)
  \/ RestoreWallet(g)

ClientNext(c) ==
  \/ \E i \in Identities[c] : AuthorizeWallet(c, i[1])
  \/ \E w \in Workers \union {Anonymous} : AssignWorker(c, w)
  \/ SetupConnection(c)
  \/ OpenChannelTooEarly(c)
  \/ \E i \in Identities[c] : OpenChannel(c, i[1])
  \/ EnableSV2(c)
  \/ StoreChannelID(c)
  \/ ChannelInit(c)
  \/ ChannelVarDiff(c)
  \/ ChannelTarget(c)
  \/ \E r \in SendResults : OpenChannelSuccess(c, r)
  \/ Disconnect(c)

Next ==
  \/ \E g \in Goroutines : GoNext(g)
  \/ \E c \in Clients : ClientNext(c)
  \/ \E k \in Keys, d \in Diffs \union {0} : Retarget(k, d)

Spec == Init /\ [][Next]_vars

----------------------------------------------------------------------------
(* Properties                                                               *)

GoPcs == {"idle", "addr", "template", "init", "setVarDiff", "sendInitial",
          "varDiff", "compare", "setDiff", "sendDiff", "startTracker",
          "addJob", "sendJob", "prevHash", "restore"}
ReaderPcs == {"setup", "idle", "worker", "enable", "channel", "init", "setVarDiff",
              "target", "success"}

Messages == [kind : Kinds, chan : Nat, diff : Nat, job : Nat,
             block : Blocks \union {NoJob}]

\* Every variable stays in its type.
TypeOK ==
  /\ MiningStateTypeOK
  /\ proto \in [Clients -> {"v1", "v2"}]
  /\ wallet \in [Clients -> Wallets \union {Empty}]
  /\ worker \in [Clients -> Workers \union {Empty, Anonymous}]
  /\ moved \subseteq Clients
  /\ disconnecting \subseteq Clients
  /\ sv2Enabled \subseteq Clients
  /\ sv2ChannelID \in [Clients -> Nat]
  /\ nextChannelID \in Nat
  /\ minDiff \in [Keys -> Diffs \union {0}]
  /\ tracker \subseteq Keys
  /\ reader \in [Clients -> [pc : ReaderPcs, chan : Nat, diff : Nat]]
  /\ go \in [Goroutines -> [pc : GoPcs, client : Clients \union {Empty},
                            addr : Wallets \union {Empty},
                            block : Blocks \union {NoJob},
                            varDiff : Diffs \union {0}, job : Nat]]
  /\ wire \in [Clients -> Seq(Messages)]

\* However the goroutines of two templates and the channel setup interleave, a
\* job is stored only after the difficulty is set: a submit for it never meets
\* a nil share target.
JobsHaveTarget ==
  \A c \in Clients : jobCounter[c] > 0 => c \in initialized /\ HasTarget(c)

\* A job that was written to a miner is stored under the id it was written
\* with, also when two goroutines store jobs for one client at the same time.
WireJobsAreStored ==
  \A c \in Clients : \A i \in 1 .. Len(wire[c]) :
    wire[c][i].kind \in JobKinds =>
      /\ wire[c][i].job \in 1 .. Len(issued[c])
      /\ issued[c][wire[c][i].job] = wire[c][i].block

\* No two messages announce the same job id to a miner.
JobIdsAreUnique ==
  \A c \in Clients : \A i, j \in 1 .. Len(wire[c]) :
    wire[c][i].kind \in JobKinds /\ wire[c][j].kind \in JobKinds
      /\ wire[c][i].job = wire[c][j].job => i = j

Announcements(c) == {i \in 1 .. Len(wire[c]) : wire[c][i].kind \in DiffKinds \union {"unsent"}}

\* The last announcement of a difficulty to a client.
LastAnnounced(c) ==
  wire[c][CHOOSE i \in Announcements(c) : \A j \in Announcements(c) : j <= i]

\* Once no goroutine runs for a v1 client, the miner works on the difficulty
\* its shares are judged by, unless writing the last announcement was given up:
\* NewBlockAvailable compares vardiff with its own record only, so a difference
\* would never be repaired.
MinerKnowsItsDiff ==
  \A c \in Clients :
    proto[c] = "v1" /\ c \notin disconnecting /\ Running(c) = {} /\ HasTarget(c) =>
      /\ Announcements(c) # {}
      /\ LastAnnounced(c).kind # "unsent" => LastAnnounced(c).diff = stratumDiff[c]

\* A v1 client that work is handed out to and that nothing is under way for.
AtRest(c) ==
  /\ proto[c] = "v1" /\ c \notin disconnecting /\ c \in initialized
  /\ Running(c) = {} /\ reader[c].pc = "idle"

\* The tracker of the client's worker runs, or the next goroutine finds a
\* difficulty to send and starts it.
VarDiffOn(c) ==
  LET k == workerStatsKey(c)
  IN  k \in tracker \/ minDiff[k] \notin {0, stratumDiff[c]}

\* updateVarDiff stops the tracker until the client handler restarts it with
\* the next difficulty it sends; the handler does so only when the worker's
\* difficulty is set and differs from the client's.  So a stopped tracker always
\* leaves such a difference behind, or vardiff is off for good, as it is for a
\* client that changes its worker key at work: the new entry has MinDiff 0.
StoppedTrackerRestarts ==
  \A c \in Clients : AtRest(c) /\ c \notin moved => VarDiffOn(c)

\* SetNewPrevHash carries an all-zero hash that stands for the job of the last
\* NewMiningJob (client_handler.go:266): it must be the same job.
PrevHashFollowsItsJob ==
  \A c \in Clients : \A i \in 1 .. Len(wire[c]) :
    wire[c][i].kind = "SetNewPrevHash" =>
      LET before == {j \in 1 .. i - 1 : wire[c][j].kind \in JobKinds}
      IN  /\ before # {}
          /\ wire[c][CHOOSE j \in before : \A k \in before : k <= j].job = wire[c][i].job

\* An SV2 client is sent the messages of the v2 flow in its order: nothing but
\* SV2 frames, and no target or job before OpenStandardMiningChannelSuccess
\* has announced the channel they are for
\* (STRATUM_PROTOCOL_INFO.md, "v2 flow (binary SV2 mining subset)").
V2FlowFollowed ==
  \A c \in Clients : \A i \in 1 .. Len(wire[c]) :
    proto[c] = "v2" /\ wire[c][i].kind \notin {"OpenSuccess", "unsent"} =>
      /\ wire[c][i].kind \in {"SetTarget", "NewMiningJob", "SetNewPrevHash"}
      /\ \E j \in 1 .. i - 1 : /\ wire[c][j].kind = "OpenSuccess"
                             /\ wire[c][j].chan = wire[c][i].chan
=============================================================================
