# Verification of the Cryptix Stratum Bridge

TLA+ models of the Go program under `src/src`, model-checked with TLC; every
invariant and action property that a passing run checks is also proved with TLAPS, but
for one, and liveness is not.
Paths below are relative to `src/src`.

## The system

The bridge sits between a full node (`cryptixd`, over gRPC) and miners that
speak Stratum v1 (JSON lines) or a subset of Stratum v2 (binary frames). It
learns of new block templates, hands each miner a job, judges the shares the
miners send back, submits blocks to the node and adapts each worker's share
difficulty. One process runs, with these goroutines:

| goroutine | started by | touches |
|---|---|---|
| template loop | `cryptixapi.go` `startBlockTemplateListener` | `blockReadyChan`, ticker |
| notification callback | the RPC client | `blockReadyChan` |
| one per client and template | `client_handler.go` `NewBlockAvailable` | the client's mining state, `WalletAddr`, vardiff statistics, the socket |
| accept loop, one per listener | `stratum_listener.go` | registry, ids, extranonces |
| reader, one per connection | `newClient` | everything a handler touches |
| disconnect listener, one per listener | `stratum_listener.go` | registry, duplicate history |
| delayed statistics, one per connection | `OnConnect` | statistics map |
| vardiff thread | `startVardiffThread` | statistics |
| teardown | `checkDisconnect` | `disconnecting`, the socket |

### Inventory

**Mining state** (`cryptixstratum/mining_state.go`). State: a map of 32 slots
with the last templates, the job counter, an initialised flag, the share
difficulty and the network target. Operations: `AddJob`, `GetJob`,
`InitializeIfNeeded`, `SetNetworkTarget`, `SetStratumDiff`,
`GetStratumDiffSnapshot`, each under a lock. Correct when a job id the miner
may still use finds the template it was issued for. Hard: the ring wraps, and
the id is not stored with the template.

**Share handler** (`cryptixstratum/share_handler.go`). State: the statistics
map, its `WorkStats` objects and the overall counters; the tip's blue score; the
duplicate histories. Operations: `HandleSubmit`, `HandleSubmitSV2`,
`processSubmit`, `submitBlock`, `getCreateStats`, `checkStales`,
`trackDupeShare`, `clearClientDupeHistory`. Correct when every submit is
answered once and counted as answered, no statistics are lost or counted
twice, duplicates within the window are caught and nothing else is called
one, and staleness is judged by a tip that never falls. Hard: every
connection's reader, the dispatch goroutines and the disconnect listener work
on the same maps with several locks and atomics per submit.

**Vardiff** (`startVardiffThread`, `updateVarDiff`, `startVarDiff`). State:
`VarDiffStartTime`, `VarDiffSharesFound`, `VarDiffWindow`, `MinDiff` per worker key.
Correct when a retarget goes the way the share rate asks for, the difficulty
never becomes 0 and a stopped tracker is started again. Hard: the thread stops
the tracker, another component restarts it, and only if it sees a difference; the
key changes with the worker name.

**Job dispatch** (`client_handler.go` `NewBlockAvailable`, `sendClientDiff`,
`sendSV2Job`). State: none of its own; a local template, difficulty and job id
per goroutine. Correct when work is handed out only with a difficulty in force,
under the id it is stored under, and the miner knows the difficulty its shares
are judged by. Hard: nothing waits for the goroutine of the previous template.

**SV2 handler** (`sv2_handler.go`). State: whether the connection was set up,
the channel counter of all connections, `sv2Enabled` and `sv2ChannelID` of the
context. Operations: `SetupConnection`, `OpenStandardMiningChannel`,
`SubmitSharesStandard`, each with its malformed, early and misdirected forms.
Correct when every request is answered under its own id, a share is judged on
the channel the miner was granted, and the client is sent the documented flow.
Hard: dispatch goroutines read the same flags while the channel is opened; the
counter wraps; an error answer takes its id from a payload that did not parse.

**SV2 codec** (`sv2_codec.go`). State: a cursor over a payload. Operations:
`readSV2Frame`, `encodeSV2Frame`, the field readers, three parsers and nine
encoders. Correct when fields come out as the miner put them in, and a short
payload is refused. Hard: widths, byte order, optional and trailing fields.

**v1 reader and handlers** (`gostratum/stratum_client.go`, `default_client.go`,
`jsonrpc_event.go`). State: the buffer of `bufio`, the deadline on the socket,
`WalletAddr`, `WorkerName`, `RemoteApp` of the context. Operations: reading a
line, `HandleSubscribe`, `HandleAuthorize` with `CleanWallet`, the wiring of
`mining.submit`. Correct when the handlers see the miner's messages as they
were sent and the shares go to a wallet that was authorized. Hard: TCP cuts
messages anywhere, a deadline in the middle of a line drops what was read, and
dispatch goroutines write the wallet too.

**Connection writes** (`gostratum/stratum_context.go`). State: `writeLock`,
`disconnecting`. Operations: `Reply`, `Send`, `WriteRaw`, `writeWithBackoff`,
`write`, `checkDisconnect`, `Disconnect`. Correct when frames of different
goroutines do not mix, the returned error tells whether the message is out,
and a broken stream ends the connection. Hard: partial writes, timeouts, a
bounded number of attempts, teardown on another goroutine.

**Registry and listeners** (`gostratum/stratum_listener.go`, `OnConnect` and
`OnDisconnect` of `client_handler.go`, `Disconnect`). State: `clients`, the id
and extranonce counters, the disconnect channel. Correct when live clients
are in the registry, dead ones leave it, and neighbouring clients search
different nonces. Hard: ends of connections race registration; the channel
may be full; the extranonce counter wraps.

**Start and stop** (`ListenAndServe` in `stratum_server.go`, `Listen` in
`stratum_listener.go`). State: the shared context, `shuttingDown`, `errChan`, the
wait group of each listener. Correct when a listener that cannot bind ends the
bridge, and every listener returns after its goroutines. Hard: the accept loop
may be inside `newClient`, in `Accept`, or see the closed socket.

**Block template listener** (`cryptixapi.go`). State: `blockReadyChan`
(capacity 1), ticker, the connection to the node. Correct when every template
is handed out or replaced by a newer one. Hard: coalesced and lost
notifications, outages, shutdown.

**Not modelled**: see the end of this file.

### Interactions

The template loop calls `NewBlockAvailable`, which snapshots the registry and
starts goroutines; these use the node, the mining state, the vardiff part of the
share handler and the connection's writer. Reader goroutines call the share
handler, which reads the mining state the dispatch goroutines write. A failed
write disconnects, which ends the reader and queues the removal from the
registry, which clears the duplicate history. On the SV2 port the accept loop
reads one byte to choose between the SV2 handler and the v1 reader; both then
call the same share handler. The listeners and the template loop share one
context, which `ListenAndServe` cancels.

## The modules

| module | models | state and actions |
|---|---|---|
| `MiningState` | mining state | one action per method; `issued` is a history of what was stored under each id |
| `ShareHandler` | share handler, authorize, submit-relevant part of dispatch; extends `MiningState` | `sub[c].pc` is where the reader of `c` is; a step ends where the code releases a lock, completes an atomic operation or calls the node; `late` is a history of the lookup |
| `JobDispatch` | dispatch, SV2 channel setup, authorize, retargets; extends `MiningState` | `go[g]` is a goroutine of `NewBlockAvailable`, `reader[c]` the channel setup or the authorize, `minDiff` and `tracker` the statistics entries by worker key, `wire[c]` what was written, `moved` a history of changes of the key |
| `ConnectionWriter` | connection writes | a message is two chunks, so that it can be cut or interleaved |
| `FrameChannel` | abstract: what `Reply`, `Send`, `WriteRaw` promise | whole messages delivered, results, broken, closed |
| `ShareLedger` | abstract: what a submit promises | each submit counted once, then answered with what was counted, or given up if its template cannot be read |
| `ClientRegistry` | accept loops, `OnConnect`, `Disconnect`, disconnect listener | `accept[l]`, `channel[l]`, `reaper[l]` per listener |
| `VarDiff` | vardiff engine with its restart by the client handler | a clock in half minutes, rational difficulty |
| `BlockTemplateListener` | the template loop; the node is external | `loop` is where the loop is |
| `Bridge` | `ListenAndServe`, `Listen`; extends `BlockTemplateListener` | `listen[l]`, `accept[l]`, `reap[l]` are the three goroutines of a listener, `main` is `ListenAndServe`; `Collect` is its loop over `errChan` and the only cancel |
| `ClientReader` | sniffing, v1 reader, v1 handlers; the miner and TCP are external | `miner.wire` and `inbox` hold bytes, `reader.pc` says what the goroutine reads; one action per handler |
| `Sv2Codec` | the byte layout, no state | operators with the names of the code |
| `Sv2Handler` | `HandleBinaryClient` and the wallet in `NewBlockAvailable`; extends `ClientReader` and `Sv2Codec` | a frame is two steps, header and payload; one action per branch of the switch; `held` are the wallets that dispatch goroutines read and may write back, `overtaken` a history of whether one was held while the wallet changed |
| `JobDispatchProofs` (also `MiningState`), `ShareHandlerProofs`, `ConnectionWriterProofs`, `ClientRegistryProofs`, `BridgeProofs` (also `BlockTemplateListener`), `VarDiffProofs`, `Sv2HandlerProofs` (also `ClientReader`, `Sv2Codec`) | | theorems |
| `Induction` | | lemmas on induction, recursion and sums, used by the proofs |
| `MC*` | | instances for TLC |

`ShareHandler` and `JobDispatch` both compose `MiningState` with its users:
the first from the submitting side, where storing a job is one step because
nothing of it is visible to a submit before it is stored; the second from the
sending side, where the reader only opens channels and authorizes. `Sv2Handler`
has one connection with all its bytes, calls the share handler by its
result and has of the dispatch goroutines only that they read and write the wallet;
`JobDispatch` has the same channel opening in single steps without the
bytes. `Bridge` takes the time inside `newClient` as one state; what happens in
it is in `ClientRegistry` and `ClientReader`.

### What is implemented

`ShareHandler` implements `ShareLedger` (`ImplementsLedger`): worker entries,
history and tip are hidden, `Phase(c)` tells from the reader's program counter
and verdict how far the ledger has come. `ConnectionWriter` implements
`FrameChannel` (`ImplementsFrameChannel`): the lock, the attempts and the chunks
are hidden; a message is delivered when its second chunk is on the socket. The
channel's liveness is the formula `broken ~> closed`, which the writer has by
its fairness.

Definitions with the comment *Mutant* are plausible mistakes; no specification
uses them. Each run's properties were shown to fail when the mutant takes the
place of the definition it follows.

### Abstractions

- Templates, wallets, worker names, nonces are model values or small sets.
  `PowValue` gives the hash of a template and nonce as a number.
- A worker key is a tagged pair, so that a worker is never named like an
  address; the code uses plain strings.
- Targets are integer quotients of `MaxTarget`; `VarDiff` keeps `MinDiff` as a
  fraction that is never reduced, where the code has a `float64`.
- `ShareHandler.DispatchBegin` allows one goroutine per client and wallet;
  `JobDispatch` has the unrestricted interleaving.
- `JobDispatch` has of a statistics entry `MinDiff` and whether its tracker runs,
  by worker key (`workerStatsKey`); an entry that does not exist yet is one with
  neither, which is what `getCreateStats` makes. It lets the vardiff thread choose
  any other difficulty for an entry that has one; that the chosen one differs is what
  `VarDiff` checks, for an entry that got its first difficulty from
  `setClientVardiff`. An entry with a running tracker and `MinDiff` 0, which a
  change of the worker name can make, is not in `VarDiff`; its retargets multiply
  0, and `JobDispatch` has them so.
- `Sv2Handler.DispatchBegin` may start any number of goroutines and
  `DispatchEnd` ends one at any time. The wallet is written and read as a whole,
  although the code's accesses to the string are not synchronized. What the
  goroutines do after the reader has returned is left out, since it concerns no share.
- Some steps that the code takes one after the other are one here.
  `TrackDupeShare` computes its key under the lock instead of just before it; only
  the key of an anonymous worker can change in between, by a wallet that is
  written back, and the model has that write before or after. `SendDiff` and
  `SendJob` of `JobDispatch` take the test of `IsSV2` together with the write that
  follows, so that a channel that is opened between the two is seen by both or
  by neither. `WriteError` of `ConnectionWriter` stands for a failed
  `SetWriteDeadline` too, which the code returns without `checkDisconnect`: a
  deadline is refused only by a socket that `Disconnect` has closed already.
- JSON text is one token per event; a line keeps its bytes, its NULs and its
  white space. "cryptix:" and "cryptixtest:" are one symbol each.
- `Sv2Codec` has the base of a byte, the length of a hash and the least difficulty
  of a target (`LeastDiff`, 0.00001 in the code) as constants. With
  210 values the real message types and the printable bytes fit, a setup message
  with a long host needs the second length byte and a channel counter of four
  bytes wraps at 210^4.
- What a miner may send is a constant, `Messages`: bytes with what the protocol
  says they mean. `V1Message` and `V2Message` tie the two together: a line ends
  with its only newline and means the event of its text; a frame has the length
  in its header and means what the layout of the protocol says, read at its
  places in the payload (`SetupMeans`, `OpenMeans`, `SubmitMeans`) and not with
  the cursor of the code. Any number of bytes may arrive at once (`Arrivals`
  bounds it for TLC).
- `ClientRegistry` has radix, digits per byte and nonce length as constants, so
  that every nonce a client can build is enumerated.
- In `BlockTemplateListener` the goroutines that fetch templates belong to the
  call of `NewBlockAvailable`. They fetch later, hence nothing older.

## What the runs check

| run | bounds | shows |
|---|---|---|
| `share_accounting` | 2 connections behind one address, one v1 and one SV2, 1 submit and 1 job each, 2 templates of which one cannot be converted, nonces that make a block and a share, worker name shared or anonymous | no statistics object is lost or reachable twice, rows add up to the total, the ledger is implemented |
| `share_races` | 2 connections of one worker, 2 + 1 submits, 2 templates of different blue score, window 0, history of 1, one may disconnect | slice and map of a history agree; the duplicate window is exact; staleness is judged soundly, the tip never falls |
| `dispatch` | 1 client (v1 or SV2), 2 goroutines, 2 jobs | jobs have a target, are stored under the id sent, ids are unique |
| `dispatch_sequential` | 1 client that authorizes under 2 names on v1 (no SV2 channel: the first two are about v1, the ring is the same for both), 1 goroutine at a time, 3 jobs of 2 templates in a ring of 2, failing writes | the miner knows its difficulty; a stopped tracker has a difference to send while the worker key stays; recent ids find their template |
| `writer` | 2 goroutines, 3 messages each, 2 attempts, fair | frames are contiguous, results are true, the channel of whole messages is implemented |
| `registry` | 2 listeners, 3 connections, channel for 1 event, 2 extranonces, nonces of 3 binary digits, fair | registry contents, single removal, neighbours search different nonces, removal in the end |
| `client_reader` | 1 connection of either protocol and port, up to 3 of 8 lines or 12 frames, 2 wallets, a frame in 3 pieces and a line in 2, channel counter at 0 or before its wrap, any number of dispatch goroutines | handlers see what was sent; each request is answered under its own id; shares are judged on the granted channel and credited to the granted worker and, unless a goroutine was overtaken, wallet; good miners stay |
| `vardiff` | 4 windows, 5 minutes, up to 3 retargets | direction and positivity of retargets, restart |
| `bridge` | 2 listeners, 3 templates, 1 outage, fair | no lost wakeup; the newest template is handed out; a failure to bind ends the bridge; after a cancel everything stops |
| `share_old_job` | ring of 2, 3 jobs | **violated**: a share for a job that had left the ring when it was looked up is judged against the template in its slot and accepted |
| `dispatch_prevhash` | as `dispatch` | **violated**: two goroutines interleave the frames of two jobs |
| `dispatch_v2_flow` | as `dispatch` | **violated**: an SV2 client gets work before its channel is announced |

The bounds are the smallest in which each structure reaches its limit: the ring
wraps (three jobs in two slots), the history evicts (two shares, one place),
the channel overflows (two events, one place), the extranonce counter wraps
(three clients, two values), the channel counter wraps past 0, a line passes the
limit, the vardiff ladder reaches its last window, the
write lock is contended until a writer gives up, and an outage ends with a
reconnect. Two of each actor suffice for the races: each lock or atomic in
question is contended by two. Three messages are a setup or subscribe, a channel
or authorize and a share, or two of one kind; a share on an older channel after
a second one was opened would take four and is not reached.

Symmetry is declared for goroutines and templates (all with one target), and
for nonces that meet no target; only runs of invariants use it.

`CHECK_DEADLOCK FALSE`: in every model connections may all end, or bounded
inputs run out, after which nothing happens.

### Fairness

Weak fairness of goroutines inside a call: the Go scheduler runs them. It is
assumed of a writer inside a call (the write deadline ends a blocked write), of
the accept and disconnect loops (the deadline of the first byte ends sniffing),
of the template loop and its ticker, of each listener's goroutines and of
`ListenAndServe`. Strong fairness is assumed of `Stop` alone: the template
loop's `select` chooses among ready cases at random, so that it does not pass
over a cancelled context for ever though other cases keep becoming ready.
Nothing is assumed of miners or
of the node: no connection need arrive or end, no notification need arrive, the
node may stay away. `NewestTemplateHandedOut` has as a premise that the node is
in the end back for good, and `CancelStopsBridge` excepts a node that keeps the
loop in `waitForSync`, which does not look at the context.

### Limits of what holds

- `MinerKnowsItsDiff` holds with one goroutine at a time, and excepts an
  announcement whose write was given up.
  `NewBlockAvailable` stores the difficulty before it sends it, and a
  `mining.set_difficulty` that could not be written is logged and not repeated;
  the next template sees no difference. The connection survives only when the
  write lock could not be had in three attempts.
- `NonceSpacesDisjoint` is about miners that send their extranonce2 only, and
  clients less than `maxExtranonce` registrations apart. The counter does not
  look at the values in use: a long-lived connection can share its extranonce with a new one after
  `maxExtranonce` others have come and gone.
- `StoppedTrackerHasDiffToSend` needs a retarget interval of at most half a
  minute for the first window. With a longer one a window can overrun until the
  upper bound of its shares is met at exactly the expected rate; the tracker
  then stops and the difficulty does not change.
- A dispatch goroutine writes back the wallet it read at its start, and undoes
  an authorize or an opened channel that came in between. `ShareHandler`,
  `JobDispatch` and `Sv2Handler` have this step. No document says which wallet should win, so that
  `CreditedAsAuthorized` says how far it goes: the worker is that of the last grant, the
  wallet too unless a goroutine held another one while it changed, and then it
  is still one that was granted on this connection. Without that exception the
  run finds the property violated.
- `AnswersEchoRequests` has three exceptions: the request that ends the connection;
  a v1 submit for which the share handler returns an error, which
  `stratum_server.go` sinks, the connection staying up without an answer (in
  `ShareHandler`: `GivenUp`); and a malformed SV2 submit, answered under channel
  and sequence 0 though the payload may hold both numbers.
- Vardiff follows the worker key, not the connection. `StoppedTrackerRestarts` is
  about clients that keep theirs. One that changes it at work, by a second
  authorize or by a template between the two assignments of the first, meets an
  entry whose `MinDiff` is 0; nothing sets it, and vardiff is off
  for good. Without that exception the run finds the property violated.
- `ImplementsLedger` lets a submit for a template that `RPCBlockToDomainBlock`
  refuses go uncounted, and on v1 unanswered, after its share was recorded.
- `DisconnectedAreRemoved` excepts clients whose event found the disconnect
  channel full.
- `HandledAsSent` excepts lines of which a deadline dropped a part. When only
  the newline was missing, the message is lost, the newline is read as a blank
  line and the connection stays up, without an answer.
- The v1 reader looks at the context only after a whole line, since the timeout
  goes on with the loop; the SV2 reader never looks at it. `CancelStopsBridge`
  is therefore about listeners and the template loop, not about connections.
- `ListenAndServe` cancels its context only on a failure, and
  `cmd/cryptixbridge/main.go` then ends the process. What the other listener
  still does matters to a program or test that embeds the package.
- `CleanWallet` accepts a payload that does not decode, under the prefix it
  came with or `cryptix:`. Its last branch, an address of the test network
  without a prefix, is reached only by candidates without a leading
  lower-case letter or digit.

## What is proved

Each theorem holds for every value of the constants that satisfies the `ASSUME`s
of the modules, hence for any number of clients, goroutines, templates, submits
and attempts, and rests on an inductive invariant. The invariants were checked by
TLC on the instances of the runs before they were proved.

**Mining state** (`JobDispatchProofs`, first part). `RingIsExact`: with any ring size and
order of calls the types are kept, each of the last `MaxJobs` ids finds its
template and the ring holds nothing else. Assumes `MaxJobs` positive and `NoJob`
not a template. The property itself is not inductive: it says nothing about the
counter the next slot is computed from. `RingInv` adds that the counter is the
number of jobs issued and describes every slot. `AddJob` overwrites one slot,
that of the job `MaxJobs` before: `SlotsDiffer` and `SlotsRepeat` are the
arithmetic of `%` for that.

**Job dispatch** (`JobDispatchProofs`).
- `JobsAlwaysHaveTarget`: with or without solo mining and failing writes, so that
  the error path of `processSubmit` that answers nothing is dead. `TargetInv`
  adds what a goroutine has seen to by the time it reaches each program counter
  (`GoodGo`: after `InitializeIfNeeded` its client is initialised, before
  `SetStratumDiff` its difficulty is not 0) and that an initialised client has a
  difficulty. Assumes `min_share_diff` and, in solo mode, the network's
  difficulties positive.
- `JobsOnTheWireAreStored`, `JobIdsNeverRepeat`, `DispatchTypes`: `WireOK` adds
  that a goroutine between `AddJob` and the send holds an id that is stored with
  its template, was not sent yet, and is held by no other goroutine of that
  client.
- `DispatchUsesMethods`: the dispatch, restricted to the mining state, is a
  behaviour of `MiningStateSpec`; `DispatchedJobsAreFound` is `RingIsExact`
  carried over by it.
- `MinersKnowTheirDiff` has the
  hypothesis `[]OneEach`: at no time do two goroutines run for one client. The
  code does not guarantee it; it holds when templates are further apart than a goroutine
  takes, and of every behaviour with one goroutine. It is
  about vardiff difficulties (`~SoloMining`): in solo mode a network difficulty
  equal to `min_share_diff` is never announced. `DiffInv` says of a
  v1 client: outside of the few steps in which a goroutine changes the
  difficulty, the last announcement is the difficulty in force (`Told`); inside of
  them, `GoDiff` says what is still to be done. The worker key does not enter:
  whatever entry a goroutine reads, it announces what it sets.

**Connection writes** (`ConnectionWriterProofs`). `WritesAreSound`
(`FramesAreContiguous`; a fragment on the stream is still being completed, or the
connection is down or on its way down), `ReturnsAreTrue`, `WriterTypes`.
`WriterInv` adds: one goroutine is between the compare-and-swap and the deferred
store (`LockInv`); a chunk belongs to a returned call or to the one in progress,
whose program counter has passed it (`ChunkInv`); between its chunks a
goroutine's first one is the last of the stream (`TailInv`); what is about to be
returned is true (`ResultInv`). `WritesImplementTheChannel`: every step is one of
`FrameChannel`'s under the refinement mapping, or a stutter; the delivered
messages are those whose second chunk is on the socket.

**Share handler** (`ShareHandlerProofs`), all from `ShareInv`.
- `HistoryStaysConsistent`, `DuplicatesStayApart`: `Window` says that the slice
  is the end of the sequence of passed shares, the map the set of the slice.
  `RecordShareKeepsWindow` is the step of `trackDupeShare`, with and without
  eviction. Assumes a history of at least one share.
- `StaleSharesAreStale`, `TipIsMonotone`: a reader at the compare-and-swap holds a
  tip below its block's blue score (`GoodSub`), so that a swap raises the tip.
- `StatsHaveOneKey`: each entry has one key, also between the insertion under
  the worker's key and the removal from the address's.
- `TableAddsUp`: the rows add up to the total row. The sum is over the keys in
  use, which `StatsReachableOnce` makes finite; `getCreateStats` adds a row of
  zeros or moves one, the first increment of a submit raises one summand and
  puts its client between the increments, the second takes it out again.
  `RowsInv` adds that only finitely many are between. That a sum can be split
  at any key (`TotalTakeOut` in `Induction`) is an induction over the finite set
  of keys; the library's induction theorems take a predicate as a parameter,
  which these provers cannot instantiate, so `Induction` states it of a set and
  derives it from the well-foundedness of `<`.
- `LedgerImplemented`: `GoodSub` ties the verdict to the program counter, and
  each of the reader's steps, its two error returns included, is a step of
  `ShareLedger` or a stutter. The whole of `ImplementsLedger` is proved, which has no fairness.

**Registry** (`ClientRegistryProofs`), from `RegistryInv`.
`LiveClientsStayRegistered` needs that ids differ (`IdInv`), since `OnDisconnect`
deletes by id; `ClientsAreRemovedOnce` that a client's event is in one place, the
channel or the loop of its own listener (`QueueInv`); `MinersDoNotOverlap` that
the k-th registered client has the number k modulo the number of extranonces
(`NumberInv`, with the quotient as a witness since the divisor is a variable) and
that numbers with different high digits differ. Assumes that `"none"` names no
listener and `PowersAssumption`: two powers of a positive radix are positive,
since the provers know no laws of `^`.

**Bridge** (`BridgeProofs`). `BridgeRunsTheTemplateListener`: a step of the bridge
is one of the template listener or leaves its variables alone, so that
`WakeupsAreKept` of the listener alone carries over as
`BridgeKeepsWakeups`. `BridgeTypes` and
`ListenInvHolds` (each result of a `Listen` is in `errChan` or received, once) come
from `ListenInv`; the number of results is that of the ended listeners, by the
library's theorems on cardinality. `WakeupsAreKept` is inductive with the types,
which bound `notified` by the node's template: `NewBlockAvailable` asks for the
current template, so that asking always catches up.

**Vardiff** (`VarDiffProofs`). `MinDiffStaysPositive` and `RetargetsFollowTheRate`
hold for every table of at least two windows (the code has seven), tolerance
between 1 and 99 percent, rate and retarget interval. `LadderInv` adds that a
window after the first is reached only with shares found: without them
the ratio of a window that is over would be 0. `StoppedTrackersAreRestarted` has
the hypothesis `LooksOftenEnough` on the constants: the interval is within the
tolerance of each window, and windows are at least an interval apart. The
default of 10 seconds and the 30 seconds of `config_example.yaml` satisfy it, the
latter with equality. The interval is configurable without an upper limit, and with 45
seconds TLC finds the invariant violated (see the limits above). `PaceInv` adds
how late a window can be left, `SentInv` that the miner has the worker's
difficulty while the tracker runs.

**Readers** (`Sv2HandlerProofs`), for every set of messages, base, hash length and
limit, and however the bytes arrive.
- `MessagesAreHandledAsSent`. The parsers are first shown to read what the
  protocol means, for every payload: `SubmitParsed`, `OpenParsed`, `SetupParsed`
  follow the cursor field by field (`FixedField`, `TextField`: what was read is a
  slice of the payload, or a read has failed and stays failed). The inductive
  invariant `FrameInv` says where the reader is: the handlers were called for the first
  `h` messages; the messages laid end to end are a stream `T` of which `pos` bytes
  are consumed and `e` have arrived, buffer, prefix and socket hold the bytes
  between; and `pos` is the start of message `h + 1`, or six bytes behind it when a
  header was read, with type and length of that message, or inside of it when a
  deadline took the start of a line. The property has the premise `Understood`:
  an SV2 miner, or a v1 miner on a port that takes lines. A v1 miner on a strict
  SV2 port is refused unless its first byte is one of a frame, and what it sends is then
  read as frames, for instance six empty lines as a header.
- `MinersAreDroppedForCause`, with no such premise: `EndInv` adds that only
  the first byte and lines have a deadline and that the setup is complete once a
  handler saw it; that a message was refused with cause is read off the same
  place in the stream. It has the hypothesis `IdentitiesRead` on the constants: the
  parser of identities finds in each the wallet it stands for. It is a
  hypothesis because identities are arbitrary byte strings in which the parser
  searches for separators; the run's mutant of `CleanWallet` is an instance where it fails.
- `RequestsAreAnswered`, `SharesAreForTheOpenChannel`, `SharesAreCreditedAsAuthorized`.
  The encoders are first shown to write what the miner reads, for every base and
  every number that fits its field: `NumberRead` and `U32Read` turn digits back into numbers,
  `FrameIs` and `Glue` find a field in the frame, `SetupAnswered`, `ChannelGranted`,
  `ChannelRefused` and `ShareAnswered` state what the answers mean. `StepAnswers`
  then says of each step of the connection that it asks and answers nothing, or ends the connection
  without an answer, or is an `Exchange` of one request and its answer, that changes wallet,
  worker and channel only as the answer tells. The inductive invariant `TalkInv`
  is about the whole conversation: replies and requests have the same number until the
  reader ends and match one by one; the worker is that of the last granted
  request, the wallet of the context and those that dispatch goroutines hold were granted once and, until
  a grant overtakes a goroutine, are that of the last (`InForce`); and the handler's channel
  is the one told last, which is why it is
  stated of the replies and not of `sv2`. It needs `FrameInv`, so that what a handler was
  called with is what the miner asked. The first and the third have the premise `Understood`,
  the second is about SV2 alone. The third has, with `IdentitiesRead`, the
  hypothesis `IdentitiesKnown`: an identity that a miner may claim and the parser
  accepts is one that stands for a wallet. The run's instance satisfies both.
  For a submit of the line protocol that the share handler gives up on, and to
  which nothing is sent, `NoReply` stands in the history of what was written.

## Only model-checked

- `StoppedTrackerRestarts`: it is about one goroutine at a time and clients that keep
  their worker key, which the run has and the code does not guarantee.
- Liveness: the last conjunct of `ImplementsFrameChannel`,
  `DisconnectedAreRemoved`, `NewestTemplateHandedOut`, `FailureEndsBridge`,
  `CancelStopsBridge`. It needs fairness and `ENABLED`, which are beyond this prover.

Not checked: that a submit ends. Its only loop retries the compare-and-swap on
the tip, and each failure means that the tip has risen (`TipNeverFalls`), so that
it ends when the blue scores do. The reader's loops end with the connection.

## Not modelled

- Prometheus, console output and the statistics thread of `cryptixapi.go`: they
  only read and print.
- Flags and configuration files; the ranges they are checked for are the
  `ASSUME`s of the constants. The wiring of handlers is in the actions.
- The encoders of `SetTarget`, `NewMiningJob` and `SetNewPrevHash`: their order and
  contents matter in `JobDispatch`, where they are records; their bytes are
  built like those of `Sv2Codec`.
- Hashing of headers and proof-of-work arithmetic (`hasher.go`,
  `cryptix_pow`): no property depends on which hash comes out.
- The mock connection (test support) and the error labels.

## Plan

1. Done: every component above, its runs, both refinements with their safety
   proved, and the theorems above.
2. Open: nothing of the plan; what these provers cannot do is listed above.
