------------------------ MODULE ShareHandlerProofs ------------------------
(***************************************************************************)
(* The share handler for any number of connections, workers, templates and *)
(* submits, any size of the duplicate history and any staleness window.    *)
(***************************************************************************)
EXTENDS ShareHandler, Induction, TLAPS

----------------------------------------------------------------------------
(* The duplicate history                                                    *)

\* The history h of a worker that has passed the shares p: its slice is the end
\* of p, its map the set of the slice, and p repeats nothing within the window.
Kept(p) == IF Len(p) < MaxTracked THEN Len(p) ELSE MaxTracked
Window(h, p) ==
  /\ Len(h.order) = Kept(p)
  /\ \A i \in 1 .. Len(h.order) : h.order[i] = p[Len(p) - Len(h.order) + i]
  /\ h.set = {h.order[i] : i \in 1 .. Len(h.order)}
  /\ \A i, j \in 1 .. Len(p) : i < j /\ p[i] = p[j] => j - i > MaxTracked

\* No key is twice in the slice.
LEMMA SliceHasNoRepeats ==
  ASSUME NEW S, NEW h \in [order : Seq(S), set : SUBSET S], NEW p \in Seq(S), Window(h, p)
  PROVE  \A i, j \in 1 .. Len(h.order) : h.order[i] = h.order[j] => i = j
<1> USE MaxTrackedAssumption
<1> SUFFICES ASSUME NEW i \in 1 .. Len(h.order), NEW j \in 1 .. Len(h.order),
                    i < j, h.order[i] = h.order[j]
             PROVE  FALSE
  OBVIOUS
<1> DEFINE n == Len(h.order)
           m == Len(p)
<1>1. n \in Nat /\ m \in Nat /\ n <= m /\ n <= MaxTracked
  BY DEF Window, Kept
<1>2. p[m - n + i] = p[m - n + j]
  BY DEF Window
<1>3. \A x, y \in 1 .. m : x < y /\ p[x] = p[y] => y - x > MaxTracked
  BY DEF Window
<1>4. i \in 1 .. n /\ j \in 1 .. n
  OBVIOUS
<1> HIDE DEF n, m
<1>5. m - n + i \in 1 .. m
  BY <1>1, <1>4
<1>6. m - n + j \in 1 .. m
  BY <1>1, <1>4
<1>7. m - n + i < m - n + j
  BY <1>1, <1>4
<1>8. (m - n + j) - (m - n + i) > MaxTracked
  BY <1>2, <1>3, <1>5, <1>6, <1>7
<1> QED BY <1>1, <1>4, <1>8

\* A share that is not in the map is recorded, also when the oldest is evicted.
LEMMA RecordShareKeepsWindow ==
  ASSUME NEW S, NEW h \in [order : Seq(S), set : SUBSET S], NEW p \in Seq(S), NEW key \in S,
         Window(h, p), key \notin h.set
  PROVE  /\ RecordShare(h, key) \in [order : Seq(S), set : SUBSET S]
         /\ Window(RecordShare(h, key), Append(p, key))
<1> USE MaxTrackedAssumption
<1> DEFINE n == Len(h.order)
           m == Len(p)
           q == Append(p, key)
           order == Append(h.order, key)
           set == h.set \union {key}
<1>1. /\ h.order \in Seq(S) /\ h.set \in SUBSET S /\ n \in Nat /\ m \in Nat
      /\ n = Kept(p) /\ n <= m /\ n <= MaxTracked
      /\ h.set = {h.order[i] : i \in 1 .. n}
  BY DEF Window, Kept
<1>2. /\ q \in Seq(S) /\ Len(q) = m + 1 /\ q[m + 1] = key
      /\ \A i \in 1 .. m : q[i] = p[i]
  OBVIOUS
<1>3. /\ order \in Seq(S) /\ Len(order) = n + 1 /\ order[n + 1] = key
      /\ \A i \in 1 .. n : order[i] = h.order[i]
  BY <1>1
<1>4. \A i \in 1 .. n + 1 : order[i] = q[m - n + i]
  BY <1>1, <1>2, <1>3 DEF Window
<1>5. \A i, j \in 1 .. m + 1 : i < j /\ q[i] = q[j] => j - i > MaxTracked
  <2> SUFFICES ASSUME NEW i \in 1 .. m + 1, NEW j \in 1 .. m + 1, i < j, q[i] = q[j]
               PROVE  j - i > MaxTracked
    OBVIOUS
  <2>1. CASE j <= m
    BY <1>1, <1>2, <2>1 DEF Window
  <2>2. CASE j = m + 1
    <3> SUFFICES ASSUME j - i <= MaxTracked PROVE FALSE
      OBVIOUS
    <3>1. i \in 1 .. m /\ p[i] = key
      BY <1>1, <1>2, <2>2
    <3>2. i - (m - n) \in 1 .. n
      BY <1>1, <2>2, <3>1 DEF Kept
    <3>3. h.order[i - (m - n)] = p[m - n + (i - (m - n))]
      BY <1>1, <3>2 DEF Window
    <3>4. h.order[i - (m - n)] = key
      BY <1>1, <3>1, <3>3
    <3> QED BY <1>1, <3>2, <3>4
  <2>3. j <= m \/ j = m + 1
    <3>1. m \in Nat /\ j \in 1 .. m + 1
      BY <1>1
    <3> HIDE DEF m
    <3> QED BY <3>1
  <2> QED BY <2>1, <2>2, <2>3
<1>6. set = {order[i] : i \in 1 .. n + 1} /\ set \in SUBSET S
  BY <1>1, <1>3
<1>7. RecordShare(h, key) = IF n + 1 > MaxTracked
                              THEN [order |-> Tail(order), set |-> set \ {Head(order)}]
                              ELSE [order |-> order, set |-> set]
  BY <1>3 DEF RecordShare
<1> HIDE DEF q, order, set
<1>8. CASE n + 1 <= MaxTracked
  <2>1. /\ RecordShare(h, key) = [order |-> order, set |-> set]
        /\ RecordShare(h, key).order = order /\ RecordShare(h, key).set = set
    BY <1>1, <1>7, <1>8
  <2>2. Kept(q) = n + 1
    BY <1>1, <1>2, <1>8 DEF Kept
  <2>3. Window(RecordShare(h, key), q)
    <3>1. \A i \in 1 .. n + 1 : order[i] = q[(m + 1) - (n + 1) + i]
      <4>1. ASSUME NEW i \in 1 .. n + 1 PROVE m - n + i = (m + 1) - (n + 1) + i
        BY <1>1
      <4> QED BY <1>4, <4>1
    <3>2. \A i \in 1 .. Len(order) : order[i] = q[Len(q) - Len(order) + i]
      BY <1>2, <1>3, <3>1
    <3>3. set = {order[i] : i \in 1 .. Len(order)}
      BY <1>3, <1>6
    <3>4. \A i, j \in 1 .. Len(q) : i < j /\ q[i] = q[j] => j - i > MaxTracked
      BY <1>2, <1>5
    <3> QED BY <1>3, <2>1, <2>2, <3>2, <3>3, <3>4 DEF Window
  <2> QED BY <1>3, <1>6, <2>1, <2>3 DEF q
<1>9. CASE n + 1 > MaxTracked
  <2> DEFINE t == Tail(order)
  <2>1. /\ n = MaxTracked /\ Kept(q) = n /\ n > 0
        /\ RecordShare(h, key) = [order |-> t, set |-> set \ {Head(order)}]
        /\ RecordShare(h, key).order = t /\ RecordShare(h, key).set = set \ {Head(order)}
    BY <1>1, <1>2, <1>7, <1>9 DEF Kept
  <2>2. t \in Seq(S) /\ Len(t) = n /\ \A i \in 1 .. n : t[i] = order[i + 1]
    BY <1>1, <1>3, <2>1
  <2>3. \A i \in 1 .. n : t[i] = q[(m + 1) - n + i]
    <3>1. ASSUME NEW i \in 1 .. n
          PROVE  i + 1 \in 1 .. n + 1 /\ m - n + (i + 1) = (m + 1) - n + i
      BY <1>1
    <3> QED BY <1>4, <2>2, <3>1
  <2>4. Head(order) = order[1]
    BY <1>3, <1>1
  <2>5. ASSUME NEW i \in 1 .. n, order[i + 1] = order[1] PROVE FALSE
    <3> DEFINE a == m - n + 1
               b == m - n + (i + 1)
    <3>1. 1 \in 1 .. n + 1 /\ i + 1 \in 1 .. n + 1 /\ a \in 1 .. m + 1 /\ b \in 1 .. m + 1
          /\ b - a = i /\ a < b
      BY <1>1
    <3>2. q[a] = q[b]
      BY <1>4, <2>5, <3>1
    <3> HIDE DEF a, b
    <3>3. b - a > MaxTracked
      BY <1>5, <3>1, <3>2
    <3> QED BY <1>1, <2>1, <3>1, <3>3
  <2>6. set \ {Head(order)} = {t[i] : i \in 1 .. n}
    <3>1. ASSUME NEW x \in set, x # order[1] PROVE x \in {t[i] : i \in 1 .. n}
      <4>1. PICK i \in 1 .. n + 1 : x = order[i]
        BY <1>6
      <4>2. i # 1 /\ i - 1 \in 1 .. n /\ t[i - 1] = x
        BY <1>1, <2>2, <3>1, <4>1
      <4> QED BY <4>2
    <3>2. ASSUME NEW i \in 1 .. n PROVE t[i] \in set /\ t[i] # order[1]
      <4>1. i + 1 \in 1 .. n + 1 /\ t[i] = order[i + 1]
        BY <1>1, <2>2
      <4> QED BY <1>6, <2>5, <4>1
    <3> HIDE DEF t
    <3> QED BY <2>4, <3>1, <3>2
  <2> HIDE DEF t
  <2>7. Window(RecordShare(h, key), q)
    <3>1. Len(t) = Kept(q)
      BY <2>1, <2>2
    <3>2. \A i \in 1 .. Len(t) : t[i] = q[Len(q) - Len(t) + i]
      BY <1>2, <2>2, <2>3
    <3>3. set \ {Head(order)} = {t[i] : i \in 1 .. Len(t)}
      BY <2>2, <2>6
    <3>4. \A i, j \in 1 .. Len(q) : i < j /\ q[i] = q[j] => j - i > MaxTracked
      BY <1>2, <1>5
    <3> DEFINE R == RecordShare(h, key)
               rest == set \ {Head(order)}
    <3>5. R.order = t /\ R.set = rest
      BY <2>1
    <3> HIDE DEF q, order, set, R, rest
    <3>6. Len(R.order) = Kept(q) /\ \A i \in 1 .. Len(R.order) : R.order[i] = q[Len(q) - Len(R.order) + i]
      BY <3>1, <3>2, <3>5
    <3>7. R.set = {R.order[i] : i \in 1 .. Len(R.order)}
      BY <3>3, <3>5, Zenon DEF rest
    <3> QED BY <3>4, <3>6, <3>7, Zenon DEF Window, R
  <2>8. RecordShare(h, key) \in [order : Seq(S), set : SUBSET S]
    BY <1>6, <2>1, <2>2
  <2> QED BY <2>7, <2>8 DEF q
<1> QED BY <1>1, <1>8, <1>9
----------------------------------------------------------------------------
(* The inductive invariant, a part for each piece of state                  *)

MiningOK ==
  /\ MiningStateTypeOK
  /\ \A c \in Clients : \A s \in Slots : jobs[c][s] # NoJob => c \in initialized
  /\ \A c \in initialized : stratumDiff[c] # NoDiff

CtxOK ==
  /\ wallet \in [Clients -> Wallets \union {Empty}]
  /\ worker \in [Clients -> Workers \union {Empty, Anonymous}]
  /\ conn \in [Clients -> {"up", "closing", "gone"}]
  /\ held \in [Clients -> SUBSET Wallets]

\* Every key names an entry, and every entry has one key.
StatsOK ==
  /\ work \in Seq([Counters -> Nat])
  /\ stats \in [Keys -> Nat]
  /\ \A k \in Keys : stats[k] <= Len(work)
  /\ StatsReachableOnce

Histories == [order : Seq(ShareKeys), set : SUBSET ShareKeys]

DupeOK ==
  /\ dupeShares \in [Keys -> Histories]
  /\ passed \in [Keys -> Seq(ShareKeys)]
  /\ \A k \in Keys : Window(dupeShares[k], passed[k])

CountsOK ==
  /\ overall \in [Counters -> Nat]
  /\ submits \in [Clients -> Nat]
  /\ answered \in [Clients -> [Verdicts -> Nat]]
  /\ won \in Nat

Undecided == {"load", "cas", "dupe", "pow", "rpc"}
Judged == Undecided \union {"blockStats"}
Counting == {"tally", "overall"}
Counted == Verdicts \ {"Malformed"}

Solved(s) == PowValue[s.block][s.nonce] <= NetworkTarget[s.block]

\* What a reader goroutine has seen to by the time it reaches a program counter.
GoodSub(s) ==
  /\ s.pc \in Judged \union {"stats"} => s.job \in JobIds /\ s.nonce \in Nonces
  /\ s.pc \in Judged => s.block \in Blocks
  /\ s.pc = "stats" => s.verdict = IF s.block = NoJob THEN "Stale" ELSE None
  /\ s.pc \in Undecided => s.verdict = None
  /\ s.pc = "cas" => s.tip < BlueScore[s.block]
  /\ s.pc = "blockStats" => s.verdict \in {"Block", "Stale", "Bad"}
  /\ s.pc \in Counting => s.verdict \in Counted \union {"Block"}
  /\ s.pc = "reply" => s.verdict \in Verdicts
  /\ s.pc \in {"idle", "authorize"} => s.verdict = None
  /\ s.pc \in {"rpc", "blockStats"} \/ s.verdict = "Block"
       => Solved(s) /\ s.block \notin Unconvertible
  /\ s.pc \in Counting /\ s.verdict \notin {"Stale", "Duplicate"} => s.block \notin Unconvertible

\* The entries it holds exist, its template was handed out to its client.
SubRefers(c) ==
  /\ sub[c].pc \in Judged \union Counting => sub[c].stat \in 1 .. Len(work)
  /\ sub[c].blockStat <= Len(work)
  /\ sub[c].block # NoJob => c \in initialized

SubOK ==
  /\ sub \in [Clients -> SubRecords]
  /\ \A c \in Clients : GoodSub(sub[c])

ShareInv ==
  /\ MiningOK /\ CtxOK /\ StatsOK /\ DupeOK /\ CountsOK /\ SubOK
  /\ tipBlueScore \in Nat
  /\ StalenessJustified
  /\ \A c \in Clients : SubRefers(c)

----------------------------------------------------------------------------
(* Keys                                                                     *)

\* workerStatsKey and the remote address are keys.
LEMMA KeysOfClient ==
  ASSUME CtxOK, NEW c \in Clients
  PROVE  /\ workerStatsKey(c) \in Keys
         /\ AddrKey(c) \in Keys
BY DEF CtxOK, workerStatsKey, Keys

\* getCreateStats leaves every entry under exactly one key, and the client's
\* key with an entry.
LEMMA GetCreateStatsKeepsStats ==
  ASSUME StatsOK, CtxOK, NEW c \in Clients, getCreateStats(c)
  PROVE  /\ StatsOK'
         /\ Len(work') \in Nat /\ Len(work) <= Len(work')
         /\ stats'[workerStatsKey(c)] \in 1 .. Len(work')
<1> DEFINE key == workerStatsKey(c)
           addr == AddrKey(c)
           n == Len(work)
<1>1. key \in Keys /\ addr \in Keys
  BY KeysOfClient
<1>2. /\ work \in Seq([Counters -> Nat]) /\ n \in Nat
      /\ stats \in [Keys -> Nat] /\ \A k \in Keys : stats[k] <= n
      /\ \A id \in 1 .. n : \E k \in Keys : stats[k] = id /\ \A l \in Keys : stats[l] = id => l = k
  BY DEF StatsOK, StatsReachableOnce
<1>3. NoWork \in [Counters -> Nat]
  BY DEF NoWork
<1>4. IF stats[key] # 0 THEN UNCHANGED <<stats, work>>
      ELSE IF stats[addr] # 0
      THEN /\ stats' = [stats EXCEPT ![addr] = 0, ![key] = stats[addr]]
           /\ UNCHANGED work
      ELSE /\ stats' = [stats EXCEPT ![key] = n + 1]
           /\ work' = Append(work, NoWork)
  BY DEF getCreateStats
<1> HIDE DEF key, addr
<1>5. CASE stats[key] # 0
  BY <1>1, <1>2, <1>4, <1>5 DEF StatsOK, StatsReachableOnce, key
<1>6. CASE stats[key] = 0 /\ stats[addr] # 0
  <2>1. /\ stats' = [stats EXCEPT ![addr] = 0, ![key] = stats[addr]]
        /\ work' = work /\ addr # key
    BY <1>4, <1>6
  <2>2. /\ stats' \in [Keys -> Nat] /\ stats'[key] = stats[addr] /\ stats'[addr] = 0
        /\ \A k \in Keys : k # key /\ k # addr => stats'[k] = stats[k]
    BY <1>1, <1>2, <2>1
  <2>3. ASSUME NEW k \in Keys PROVE stats'[k] <= n
    <3>1. stats'[k] \in {stats[addr], 0, stats[k]}
      BY <2>2
    <3> QED BY <1>1, <1>2, <3>1
  <2>4. ASSUME NEW id \in 1 .. n
        PROVE  \E k \in Keys : stats'[k] = id /\ \A l \in Keys : stats'[l] = id => l = k
    <3>1. PICK k \in Keys : stats[k] = id /\ \A l \in Keys : stats[l] = id => l = k
      BY <1>2
    <3>2. CASE k = addr
      BY <1>1, <1>2, <1>6, <2>2, <3>1, <3>2
    <3>3. CASE k # addr
      <4>1. k # key /\ stats'[k] = id
        BY <1>6, <2>2, <3>1, <3>3
      <4>2. ASSUME NEW l \in Keys, stats'[l] = id PROVE l = k
        <5>1. l # addr
          BY <2>2, <4>2
        <5>2. l # key
          BY <1>1, <2>2, <3>1, <3>3, <4>2
        <5> QED BY <2>2, <3>1, <4>2, <5>1, <5>2
      <4> QED BY <4>1, <4>2
    <3> QED BY <3>2, <3>3
  <2>5. stats'[key] \in 1 .. n
    BY <1>1, <1>2, <1>6, <2>2
  <2>6. StatsOK'
    BY <1>2, <2>1, <2>2, <2>3, <2>4 DEF StatsOK, StatsReachableOnce
  <2> QED BY <1>2, <2>1, <2>5, <2>6 DEF key
<1>7. CASE stats[key] = 0 /\ stats[addr] = 0
  <2>1. stats' = [stats EXCEPT ![key] = n + 1] /\ work' = Append(work, NoWork)
    BY <1>4, <1>7
  <2>2. work' \in Seq([Counters -> Nat]) /\ Len(work') = n + 1
    BY <1>2, <1>3, <2>1
  <2>3. /\ stats' \in [Keys -> Nat] /\ stats'[key] = n + 1
        /\ \A k \in Keys : k # key => stats'[k] = stats[k]
    BY <1>1, <1>2, <2>1
  <2>4. \A k \in Keys : stats'[k] <= n + 1
    BY <1>1, <1>2, <2>3
  <2>5. ASSUME NEW id \in 1 .. n + 1
        PROVE  \E k \in Keys : stats'[k] = id /\ \A l \in Keys : stats'[l] = id => l = k
    <3>1. CASE id = n + 1
      BY <1>1, <1>2, <2>3, <3>1
    <3>2. CASE id # n + 1
      <4>1. id \in 1 .. n
        BY <1>2, <3>2
      <4>2. PICK k \in Keys : stats[k] = id /\ \A l \in Keys : stats[l] = id => l = k
        BY <1>2, <4>1
      <4> QED BY <1>1, <1>2, <1>7, <2>3, <4>1, <4>2
    <3> QED BY <3>1, <3>2
  <2> QED BY <1>1, <1>2, <2>2, <2>3, <2>4, <2>5 DEF StatsOK, StatsReachableOnce, key
<1> QED BY <1>5, <1>6, <1>7, <1>2

\* A bridge that has just started satisfies the invariant.
LEMMA ShareInvInit == Init => ShareInv
<1> SUFFICES ASSUME Init PROVE ShareInv
  OBVIOUS
<1>1. MiningOK
  BY MaxJobsAssumption DEF Init, MiningStateInit, MiningOK, MiningStateTypeOK, NoDiff
<1>2. CtxOK
  BY DEF Init, CtxOK
<1>3. StatsOK
  BY DEF Init, StatsOK, StatsReachableOnce
<1>4. DupeOK
  BY MaxTrackedAssumption DEF Init, DupeOK, Histories, NoHistory, Window, Kept
<1>5. CountsOK
  BY DEF Init, CountsOK, NoWork
<1>6. Idle \in SubRecords /\ GoodSub(Idle)
  BY DEF Idle, SubRecords, GoodSub, SubPcs, Undecided, Judged, Counting, None, Verdicts
<1>7. SubOK
  BY <1>6 DEF Init, SubOK
<1>8. \A c \in Clients : sub[c] = Idle
  BY DEF Init
<1>9. StalenessJustified /\ \A c \in Clients : SubRefers(c)
  BY <1>8 DEF Init, StalenessJustified, SubRefers, Idle, Judged, Undecided, Counting
<1> QED BY <1>1, <1>2, <1>3, <1>4, <1>5, <1>7, <1>9 DEF ShareInv, Init

----------------------------------------------------------------------------
(* Which operations touch which piece of state                              *)

Step(c) == SubmitStep(c) \/ Environment(c)

\* Only the goroutines that hand out work touch the mining state.
LEMMA MiningFrame ==
  ASSUME NEW c \in Clients, Step(c)
  PROVE  \/ UNCHANGED miningStateVars
         \/ \E b \in Blocks : DispatchJob(c, b)
         \/ \E d \in Diffs : DispatchDiff(c, d)
BY DEF Step, SubmitStep, Environment, Submit, SubmitMalformed, ResolveStats, LoadTip, CasTip,
       TrackDupeShare, CheckPow, SubmitBlock, ResolveBlockStats, Tally, TallyOverall, Reply,
       AuthorizeWallet, AuthorizeWorker, BackgroundStats, DispatchBegin, DispatchEnd,
       DispatchFail, Disconnect, OnDisconnect

\* Authorize, these goroutines and disconnects touch the context.
LEMMA CtxFrame ==
  ASSUME NEW c \in Clients, Step(c)
  PROVE  \/ UNCHANGED ctxVars
         \/ \E a \in Wallets : AuthorizeWallet(c, a)
         \/ \E w \in Workers \union {Anonymous} : AuthorizeWorker(c, w)
         \/ DispatchBegin(c)
         \/ \E a \in Wallets : DispatchEnd(c, a) \/ DispatchFail(c, a)
         \/ Disconnect(c) \/ OnDisconnect(c)
BY DEF Step, SubmitStep, Environment, Submit, SubmitMalformed, ResolveStats, LoadTip, CasTip,
       TrackDupeShare, CheckPow, SubmitBlock, ResolveBlockStats, Tally, TallyOverall, Reply,
       BackgroundStats, DispatchJob, DispatchDiff, shareVars, ctxVars

\* sh.stats is changed through getCreateStats, an entry by counting on it.
LEMMA StatsFrame ==
  ASSUME NEW c \in Clients, Step(c)
  PROVE  UNCHANGED <<stats, work>> \/ getCreateStats(c) \/ Tally(c)
BY DEF Step, SubmitStep, Environment, Submit, SubmitMalformed, ResolveStats, LoadTip, CasTip,
       TrackDupeShare, CheckPow, SubmitBlock, ResolveBlockStats, TallyOverall, Reply,
       AuthorizeWallet, AuthorizeWorker, BackgroundStats, DispatchBegin, DispatchEnd,
       DispatchFail, Disconnect, OnDisconnect, DispatchJob, DispatchDiff, shareVars, statVars

\* trackDupeShare and the disconnect listener touch the histories.
LEMMA DupeFrame ==
  ASSUME NEW c \in Clients, Step(c)
  PROVE  UNCHANGED dupeVars \/ TrackDupeShare(c) \/ OnDisconnect(c)
BY DEF Step, SubmitStep, Environment, Submit, SubmitMalformed, ResolveStats, LoadTip, CasTip,
       CheckPow, SubmitBlock, ResolveBlockStats, Tally, TallyOverall, Reply,
       AuthorizeWallet, AuthorizeWorker, BackgroundStats, DispatchBegin, DispatchEnd,
       DispatchFail, Disconnect, DispatchJob, DispatchDiff, shareVars, dupeVars

\* The compare-and-swap of checkStales touches the tip.
LEMMA TipFrame ==
  ASSUME NEW c \in Clients, Step(c)
  PROVE  UNCHANGED tipBlueScore \/ CasTip(c)
BY DEF Step, SubmitStep, Environment, Submit, SubmitMalformed, ResolveStats, LoadTip,
       TrackDupeShare, CheckPow, SubmitBlock, ResolveBlockStats, Tally, TallyOverall, Reply,
       AuthorizeWallet, AuthorizeWorker, BackgroundStats, DispatchBegin, DispatchEnd,
       DispatchFail, Disconnect, OnDisconnect, DispatchJob, DispatchDiff, shareVars

\* Who touches the total row and the histories of submits and answers.
LEMMA CountsFrame ==
  ASSUME NEW c \in Clients, Step(c)
  PROVE  \/ UNCHANGED <<overall, submits, answered, won>>
         \/ (\E id \in JobIds, n \in Nonces : Submit(c, id, n)) \/ SubmitMalformed(c)
         \/ TallyOverall(c) \/ Reply(c)
         \/ \E r \in {"ok", "ErrDuplicateBlock", "error"} : SubmitBlock(c, r)
BY DEF Step, SubmitStep, Environment, ResolveStats, LoadTip, CasTip,
       TrackDupeShare, CheckPow, ResolveBlockStats, Tally,
       AuthorizeWallet, AuthorizeWorker, BackgroundStats, DispatchBegin, DispatchEnd,
       DispatchFail, Disconnect, OnDisconnect, DispatchJob, DispatchDiff, shareVars, statVars

----------------------------------------------------------------------------
(* Every step keeps every part                                              *)

\* Only DispatchJob fills a slot, and it initialises the state before.
LEMMA MiningStep ==
  ASSUME ShareInv, NEW c \in Clients, Step(c)
  PROVE  MiningOK' /\ initialized \subseteq initialized'
<1> USE MaxJobsAssumption, NoJobAssumption
<1>1. MiningOK
  BY DEF ShareInv
<1>2. CASE UNCHANGED miningStateVars
  BY <1>1, <1>2 DEF MiningOK, MiningStateTypeOK, miningStateVars
<1>3. ASSUME NEW b \in Blocks, DispatchJob(c, b)
      PROVE  MiningOK' /\ initialized \subseteq initialized'
  <2> DEFINE slot == (jobCounter[c] + 1) % MaxJobs
  <2>1. jobCounter[c] + 1 \in Nat /\ slot \in Slots
    BY <1>1 DEF MiningOK, MiningStateTypeOK, Slots
  <2>2. /\ jobs' = [jobs EXCEPT ![c][slot] = b]
        /\ jobCounter' = [jobCounter EXCEPT ![c] = jobCounter[c] + 1]
        /\ issued' = [issued EXCEPT ![c] = Append(issued[c], b)]
        /\ bigDiff' = [bigDiff EXCEPT ![c] = NetworkTarget[b]]
        /\ InitializeIfNeeded(c, MinShareDiff)
    BY <1>3 DEF DispatchJob, AddJob
  <2> HIDE DEF slot
  <2>3. /\ jobs' \in [Clients -> [Slots -> Blocks \union {NoJob}]]
        /\ \A d \in Clients : d # c => jobs'[d] = jobs[d]
    BY <1>1, <2>1, <2>2 DEF MiningOK, MiningStateTypeOK
  <2>4. jobCounter' \in [Clients -> Nat] /\ issued' \in [Clients -> Seq(Blocks)]
    BY <1>1, <2>1, <2>2 DEF MiningOK, MiningStateTypeOK
  <2>5. bigDiff' \in [Clients -> Nat]
    BY <1>1, <2>2, NetworkTargetAssumption DEF MiningOK, MiningStateTypeOK
  <2>6. /\ initialized' \subseteq Clients /\ c \in initialized'
        /\ initialized \subseteq initialized'
        /\ stratumDiff' \in [Clients -> Diffs \union {NoDiff}]
        /\ \A d \in initialized' : stratumDiff'[d] # NoDiff
    BY <1>1, <2>2, MinShareDiffAssumption, DiffsAssumption
       DEF MiningOK, MiningStateTypeOK, InitializeIfNeeded, NoDiff
  <2>7. \A d \in Clients : \A s \in Slots : jobs'[d][s] # NoJob => d \in initialized'
    BY <1>1, <2>3, <2>6 DEF MiningOK
  <2> QED BY <2>3, <2>4, <2>5, <2>6, <2>7 DEF MiningOK, MiningStateTypeOK, Slots, NoDiff
<1>4. ASSUME NEW d \in Diffs, DispatchDiff(c, d)
      PROVE  MiningOK' /\ initialized \subseteq initialized'
  BY <1>1, <1>4, DiffsAssumption
     DEF MiningOK, MiningStateTypeOK, DispatchDiff, SetStratumDiff, ringVars, NoDiff
<1> QED BY <1>2, <1>3, <1>4, MiningFrame

\* Wallets, names and connection states stay in their types.
LEMMA CtxStep ==
  ASSUME ShareInv, NEW c \in Clients, Step(c)
  PROVE  CtxOK'
<1>1. CtxOK
  BY DEF ShareInv
<1>2. CASE UNCHANGED ctxVars
  BY <1>1, <1>2 DEF CtxOK, ctxVars
<1>3. ASSUME NEW a \in Wallets, AuthorizeWallet(c, a) PROVE CtxOK'
  BY <1>1, <1>3 DEF CtxOK, AuthorizeWallet
<1>4. ASSUME NEW w \in Workers \union {Anonymous}, AuthorizeWorker(c, w) PROVE CtxOK'
  BY <1>1, <1>4 DEF CtxOK, AuthorizeWorker
<1>5. CASE DispatchBegin(c)
  BY <1>1, <1>5 DEF CtxOK, DispatchBegin
<1>6. ASSUME NEW a \in Wallets, DispatchEnd(c, a) \/ DispatchFail(c, a) PROVE CtxOK'
  BY <1>1, <1>6 DEF CtxOK, DispatchEnd, DispatchFail
<1>7. CASE Disconnect(c) \/ OnDisconnect(c)
  BY <1>1, <1>7 DEF CtxOK, Disconnect, OnDisconnect
<1> QED BY <1>2, <1>3, <1>4, <1>5, <1>6, <1>7, CtxFrame

\* Entries are only added; Tally counts on an entry that exists.
LEMMA StatsStep ==
  ASSUME ShareInv, NEW c \in Clients, Step(c)
  PROVE  StatsOK' /\ Len(work') \in Nat /\ Len(work) <= Len(work')
<1>1. StatsOK /\ CtxOK /\ work \in Seq([Counters -> Nat])
  BY DEF ShareInv, StatsOK
<1>2. CASE UNCHANGED <<stats, work>>
  BY <1>1, <1>2 DEF StatsOK, StatsReachableOnce
<1>3. CASE getCreateStats(c)
  BY <1>1, <1>3, GetCreateStatsKeepsStats
<1>4. CASE Tally(c)
  <2> DEFINE e == TallyEntry(sub[c])
             f == CounterOf(sub[c].verdict)
  <2>1. e \in 1 .. Len(work)
    BY <1>4 DEF ShareInv, SubOK, SubRecords, SubRefers, Tally, TallyEntry, Counting
  <2>2. f \in Counters
    BY DEF CounterOf, Counters
  <2>3. stats' = stats /\ work' = [work EXCEPT ![e][f] = work[e][f] + 1]
    BY <1>4 DEF Tally
  <2> HIDE DEF e, f
  <2>4. work[e] \in [Counters -> Nat] /\ [work[e] EXCEPT ![f] = work[e][f] + 1] \in [Counters -> Nat]
    BY <1>1, <2>1, <2>2
  <2>5. work' \in Seq([Counters -> Nat]) /\ Len(work') = Len(work)
    BY <1>1, <2>1, <2>3, <2>4
  <2> QED BY <1>1, <2>3, <2>5 DEF StatsOK, StatsReachableOnce
<1> QED BY <1>2, <1>3, <1>4, StatsFrame

\* TrackDupeShare records a key that is not in the map; a disconnect forgets.
LEMMA DupeStep ==
  ASSUME ShareInv, NEW c \in Clients, Step(c)
  PROVE  DupeOK'
<1>1. DupeOK /\ CtxOK
  BY DEF ShareInv
<1>2. CASE UNCHANGED dupeVars
  BY <1>1, <1>2 DEF DupeOK, dupeVars
<1>3. CASE TrackDupeShare(c)
  <2> DEFINE key == workerStatsKey(c)
             share == shareKey(sub[c])
  <2>1. share \in ShareKeys
    BY <1>3 DEF ShareInv, SubOK, GoodSub, Judged, Undecided, TrackDupeShare, shareKey, ShareKeys
  <2>2. key \in Keys
    BY <1>1, KeysOfClient
  <2>3. \/ UNCHANGED dupeVars
        \/ /\ share \notin dupeShares[key].set
           /\ dupeShares' = [dupeShares EXCEPT ![key] = RecordShare(dupeShares[key], share)]
           /\ passed' = [passed EXCEPT ![key] = Append(passed[key], share)]
    BY <1>3 DEF TrackDupeShare
  <2> HIDE DEF key, share
  <2>4. CASE share \notin dupeShares[key].set /\ ~UNCHANGED dupeVars
    <3>1. /\ RecordShare(dupeShares[key], share) \in Histories
          /\ Window(RecordShare(dupeShares[key], share), Append(passed[key], share))
          /\ Append(passed[key], share) \in Seq(ShareKeys)
      <4>1. /\ dupeShares[key] \in [order : Seq(ShareKeys), set : SUBSET ShareKeys]
            /\ passed[key] \in Seq(ShareKeys) /\ Window(dupeShares[key], passed[key])
        BY <1>1, <2>2 DEF DupeOK, Histories
      <4> QED BY <2>1, <2>4, <4>1, RecordShareKeepsWindow DEF Histories
    <3>2. dupeShares' \in [Keys -> Histories] /\ passed' \in [Keys -> Seq(ShareKeys)]
      BY <1>1, <2>2, <2>3, <2>4, <3>1 DEF DupeOK
    <3>3. ASSUME NEW k \in Keys PROVE Window(dupeShares'[k], passed'[k])
      <4>1. CASE k = key
        BY <1>1, <2>2, <2>3, <2>4, <3>1, <4>1 DEF DupeOK
      <4>2. CASE k # key
        <5>1. dupeShares'[k] = dupeShares[k] /\ passed'[k] = passed[k]
          BY <1>1, <2>2, <2>3, <2>4, <4>2 DEF DupeOK
        <5> QED BY <1>1, <5>1 DEF DupeOK
      <4> QED BY <4>1, <4>2
    <3> QED BY <3>2, <3>3 DEF DupeOK, Window, Kept
  <2> QED BY <1>2, <2>3, <2>4
<1>4. CASE OnDisconnect(c)
  <2>1. /\ NoHistory \in Histories /\ << >> \in Seq(ShareKeys) /\ Window(NoHistory, << >>)
    BY MaxTrackedAssumption DEF NoHistory, Histories, Window, Kept
  <2>2. /\ dupeShares' = [k \in Keys |-> IF k \in ClearedKeys(c) THEN NoHistory ELSE dupeShares[k]]
        /\ passed' = [k \in Keys |-> IF k \in ClearedKeys(c) THEN << >> ELSE passed[k]]
    BY <1>4 DEF OnDisconnect
  <2>3. dupeShares' \in [Keys -> Histories] /\ passed' \in [Keys -> Seq(ShareKeys)]
    BY <1>1, <2>1, <2>2 DEF DupeOK
  <2>4. \A k \in Keys : Window(dupeShares'[k], passed'[k])
    BY <1>1, <2>1, <2>2 DEF DupeOK
  <2> QED BY <2>3, <2>4 DEF DupeOK, Window, Kept
<1> QED BY <1>2, <1>3, <1>4, DupeFrame

\* The compare-and-swap replaces the tip only by a score that was above it.
LEMMA TipStep ==
  ASSUME ShareInv, NEW c \in Clients, Step(c)
  PROVE  tipBlueScore' \in Nat /\ tipBlueScore' >= tipBlueScore
<1>1. tipBlueScore \in Nat
  BY DEF ShareInv
<1>2. CASE UNCHANGED tipBlueScore
  BY <1>1, <1>2
<1>3. CASE CasTip(c)
  <2>1. sub[c].pc = "cas" /\ GoodSub(sub[c])
    BY <1>3 DEF ShareInv, SubOK, CasTip
  <2>2. BlueScore[sub[c].block] \in Nat /\ sub[c].tip < BlueScore[sub[c].block]
    BY <2>1, BlueScoreAssumption DEF GoodSub, Judged, Undecided
  <2>3. \/ tipBlueScore = sub[c].tip /\ tipBlueScore' = BlueScore[sub[c].block]
        \/ tipBlueScore' = tipBlueScore
    BY <1>3 DEF CasTip
  <2> QED BY <1>1, <2>2, <2>3
<1> QED BY <1>2, <1>3, TipFrame

\* Counters stay natural numbers, of verdicts and of counters that exist.
LEMMA CountsStep ==
  ASSUME ShareInv, NEW c \in Clients, Step(c)
  PROVE  CountsOK'
<1>1. CountsOK /\ sub \in [Clients -> SubRecords] /\ GoodSub(sub[c])
  BY DEF ShareInv, SubOK
<1>2. CASE UNCHANGED <<overall, submits, answered, won>>
  BY <1>1, <1>2 DEF CountsOK
<1>3. ASSUME NEW id \in JobIds, NEW n \in Nonces, Submit(c, id, n) PROVE CountsOK'
  BY <1>1, <1>3 DEF CountsOK, Submit, statVars
<1>4. CASE SubmitMalformed(c)
  BY <1>1, <1>4 DEF CountsOK, SubmitMalformed, statVars
<1>5. CASE TallyOverall(c)
  <2>1. CounterOf(sub[c].verdict) \in Counters
    BY DEF CounterOf, Counters
  <2> QED BY <1>1, <1>5, <2>1 DEF CountsOK, TallyOverall
<1>6. CASE Reply(c)
  <2>1. sub[c].verdict \in Verdicts
    BY <1>1, <1>6 DEF Reply, GoodSub
  <2> QED BY <1>1, <1>6, <2>1 DEF CountsOK, Reply, statVars
<1>7. ASSUME NEW r \in {"ok", "ErrDuplicateBlock", "error"}, SubmitBlock(c, r) PROVE CountsOK'
  BY <1>1, <1>7 DEF CountsOK, SubmitBlock, statVars
<1> QED BY <1>2, <1>3, <1>4, <1>5, <1>6, <1>7, CountsFrame

----------------------------------------------------------------------------
(* The reader goroutines                                                    *)

\* What the invariant says of the goroutine s of c, the tip being t, with n
\* entries allocated and the clients of I initialised.
Sound(c, s, t, n, I) ==
  /\ s \in SubRecords /\ GoodSub(s)
  /\ s.pc \in {"dupe", "pow", "rpc"} => BlueScore[s.block] <= t
  /\ s.pc \in {"tally", "overall", "reply"} /\ s.verdict = "Stale"
       /\ s.block # NoJob /\ s.blockStat = 0
       => t - BlueScore[s.block] > WorkWindow
  /\ s.pc \in Judged \union Counting => s.stat \in 1 .. n
  /\ s.blockStat <= n
  /\ s.block # NoJob => c \in I

\* The invariant, read for one goroutine.
LEMMA InvIsSound ==
  ASSUME ShareInv, NEW c \in Clients
  PROVE  Sound(c, sub[c], tipBlueScore, Len(work), initialized)
BY DEF ShareInv, SubOK, StalenessJustified, SubRefers, Sound

\* The other goroutines may raise the tip, allocate and initialise.
LEMMA SoundStaysSound ==
  ASSUME NEW c \in Clients, NEW s, NEW t \in Nat, NEW n \in Nat, NEW I,
         NEW u \in Nat, NEW m \in Nat, NEW J,
         Sound(c, s, t, n, I), t <= u, n <= m, I \subseteq J
  PROVE  Sound(c, s, u, m, J)
<1>1. s \in SubRecords /\ GoodSub(s) /\ s.blockStat \in Nat
  BY DEF Sound, SubRecords
<1>2. s.block \in Blocks => BlueScore[s.block] \in Nat
  BY BlueScoreAssumption
<1>3. s.block # NoJob => s.block \in Blocks
  BY <1>1 DEF SubRecords
<1>4. s.pc \in {"dupe", "pow", "rpc"} => s.block \in Blocks
  BY <1>1 DEF GoodSub, Judged, Undecided
<1> QED BY <1>1, <1>2, <1>3, <1>4, WorkWindowAssumption DEF Sound

\* The operations that move a goroutine move their own.
LEMMA SubFrame ==
  ASSUME ShareInv, NEW c \in Clients, Step(c)
  PROVE  \A d \in Clients : d # c => sub'[d] = sub[d]
<1>1. sub \in [Clients -> SubRecords]
  BY DEF ShareInv, SubOK
<1> QED
  BY <1>1 DEF Step, SubmitStep, Environment, Submit, SubmitMalformed, ResolveStats, LoadTip,
       CasTip, TrackDupeShare, CheckPow, SubmitBlock, ResolveBlockStats, Tally, TallyOverall,
       Reply, AuthorizeWallet, AuthorizeWorker, BackgroundStats, DispatchBegin, DispatchEnd,
       DispatchFail, Disconnect, OnDisconnect, DispatchJob, DispatchDiff, shareVars, Goto

\* Where the goroutine of the stepping client ends up is sound: one step for
\* each operation of the submit path.
LEMMA OwnStep ==
  ASSUME ShareInv, NEW c \in Clients, Step(c)
  PROVE  Sound(c, sub'[c], tipBlueScore', Len(work'), initialized')
<1> DEFINE s == sub[c]
           r == sub'[c]
           t == tipBlueScore
           n == Len(work)
           u == tipBlueScore'
           m == Len(work')
           Goal == Sound(c, r, u, m, initialized')
<1> SUFFICES Goal
  OBVIOUS
<1>1. Sound(c, s, t, n, initialized) /\ s \in SubRecords /\ GoodSub(s)
  BY InvIsSound DEF Sound
<1>2. sub \in [Clients -> SubRecords] /\ CtxOK /\ StatsOK /\ MiningOK
  BY DEF ShareInv, SubOK
<1>3. t \in Nat /\ n \in Nat /\ u \in Nat /\ m \in Nat /\ t <= u /\ n <= m
  BY StatsStep, TipStep DEF ShareInv, StatsOK
<1>4. initialized \subseteq initialized'
  BY MiningStep
<1>5. Sound(c, s, u, m, initialized')
  BY <1>1, <1>3, <1>4, SoundStaysSound
<1>6. CASE UNCHANGED sub
  BY <1>5, <1>6
<1> HIDE DEF s, t, n, u, m, Goal
<1>0. Idle \in SubRecords /\ GoodSub(Idle)
  BY DEF Idle, SubRecords, GoodSub, SubPcs, Undecided, Judged, Counting, None, Verdicts
<1>7. ASSUME NEW id \in JobIds, NEW x \in Nonces, Submit(c, id, x) PROVE Goal
  <2> DEFINE b == GetJob(c, id)
  <2> DEFINE l == HasLeftRing(c, id)
  <2>1. r = [Idle EXCEPT !.pc = "stats", !.job = id, !.nonce = x, !.block = b, !.late = l,
                         !.verdict = IF b = NoJob THEN "Stale" ELSE None]
    BY <1>2, <1>7 DEF Submit
  <2>0. l \in BOOLEAN
    BY DEF HasLeftRing
  <2>2. b \in Blocks \union {NoJob} /\ (b # NoJob => c \in initialized')
    BY <1>2, <1>4 DEF GetJob, MiningOK, MiningStateTypeOK
  <2> HIDE DEF b, l
  <2>3. /\ r.pc = "stats" /\ r.job = id /\ r.nonce = x /\ r.block = b /\ r.stat = 0
        /\ r.blockStat = 0 /\ r.tip = 0
        /\ r.verdict = IF b = NoJob THEN "Stale" ELSE None
    BY <2>1 DEF Idle
  <2>4. r \in SubRecords
    BY <1>0, <2>0, <2>1, <2>2 DEF SubRecords, SubPcs, Verdicts
  <2>5. GoodSub(r)
    BY <2>3 DEF GoodSub, Judged, Undecided, Counting, None
  <2> HIDE DEF r
  <2> QED BY <1>3, <2>2, <2>3, <2>4, <2>5 DEF Goal, Sound, Judged, Undecided, Counting
<1>8. CASE SubmitMalformed(c)
  <2>1. r = [Idle EXCEPT !.pc = "reply", !.verdict = "Malformed"]
    BY <1>2, <1>8 DEF SubmitMalformed
  <2>2. /\ r.pc = "reply" /\ r.block = NoJob /\ r.blockStat = 0 /\ r.verdict = "Malformed"
    BY <2>1 DEF Idle
  <2>3. r \in SubRecords
    BY <1>0, <2>1 DEF SubRecords, SubPcs, Verdicts
  <2>4. GoodSub(r)
    BY <2>2 DEF GoodSub, Judged, Undecided, Counting, Verdicts
  <2> HIDE DEF r
  <2> QED BY <1>3, <2>2, <2>3, <2>4 DEF Goal, Sound, Judged, Undecided, Counting
<1>9. CASE ResolveStats(c)
  <2> DEFINE k == stats'[workerStatsKey(c)]
             p == IF s.verdict = None THEN "load" ELSE "tally"
  <2>1. r = [s EXCEPT !.pc = p, !.stat = k] /\ s.pc = "stats"
    BY <1>2, <1>9 DEF ResolveStats, s
  <2>2. k \in 1 .. m
    BY <1>2, <1>9, GetCreateStatsKeepsStats DEF ResolveStats, m
  <2>3. s.verdict = IF s.block = NoJob THEN "Stale" ELSE None
    BY <1>1, <2>1 DEF GoodSub
  <2> HIDE DEF k, p
  <2>4. /\ r.pc = p /\ r.stat = k /\ r.job = s.job /\ r.nonce = s.nonce /\ r.block = s.block
        /\ r.blockStat = s.blockStat /\ r.tip = s.tip /\ r.verdict = s.verdict
    BY <1>1, <2>1 DEF SubRecords
  <2>5. p \in {"load", "tally"} /\ (p = "load" => s.block \in Blocks /\ s.verdict = None)
        /\ (p = "tally" => s.block = NoJob /\ s.verdict = "Stale")
    BY <1>1, <2>3 DEF p, None, SubRecords
  <2>6. r \in SubRecords
    <3>1. k \in Nat /\ p \in SubPcs
      BY <1>3, <2>2, <2>5 DEF SubPcs
    <3> QED BY <1>1, <2>1, <3>1 DEF SubRecords
  <2>7. GoodSub(r)
    BY <1>1, <2>1, <2>4, <2>5 DEF GoodSub, Judged, Undecided, Counting, Counted, Verdicts, None
  <2> HIDE DEF r
  <2> QED BY <1>3, <1>5, <2>1, <2>2, <2>4, <2>5, <2>6, <2>7 DEF Goal, Sound
<1>10. CASE LoadTip(c)
  <2> DEFINE score == BlueScore[s.block]
             p == IF score > t THEN "cas" ELSE IF t - score > WorkWindow THEN "tally" ELSE "dupe"
             v == IF t - score > WorkWindow THEN "Stale" ELSE None
  <2>1. r = [s EXCEPT !.tip = t, !.pc = p, !.verdict = v] /\ s.pc = "load" /\ u = t
    BY <1>2, <1>10 DEF LoadTip, s, t, u
  <2>2. s.block \in Blocks /\ score \in Nat /\ s.job \in JobIds /\ s.nonce \in Nonces
        /\ s.stat \in 1 .. m /\ s.blockStat <= m /\ s.stat \in Nat /\ s.blockStat \in Nat
        /\ c \in initialized'
    BY <1>1, <1>5, <2>1, BlueScoreAssumption, NoJobAssumption
       DEF GoodSub, Judged, Undecided, Sound, SubRecords
  <2>3. \/ p = "cas" /\ v = None /\ t < score
        \/ p = "tally" /\ v = "Stale" /\ t - score > WorkWindow
        \/ p = "dupe" /\ v = None /\ score <= t
    BY <1>3, <2>2, WorkWindowAssumption
  <2> HIDE DEF score, p, v
  <2>4. /\ r.pc = p /\ r.stat = s.stat /\ r.job = s.job /\ r.nonce = s.nonce
        /\ r.block = s.block /\ r.blockStat = s.blockStat /\ r.tip = t /\ r.verdict = v
    BY <1>1, <2>1 DEF SubRecords
  <2>5. r \in SubRecords
    BY <1>1, <1>3, <2>1, <2>3 DEF SubRecords, SubPcs, Verdicts
  <2> HIDE DEF r
  <2>6. GoodSub(r)
    BY <2>2, <2>3, <2>4 DEF GoodSub, Judged, Undecided, Counting, Counted, Verdicts, None, score
  <2> QED BY <2>1, <2>2, <2>3, <2>4, <2>5, <2>6 DEF Goal, Sound, None, score
<1>11. CASE CasTip(c)
  <2>1. /\ s.pc = "cas"
        /\ \/ r = [s EXCEPT !.pc = "dupe"] /\ u = BlueScore[s.block]
           \/ r = [s EXCEPT !.pc = "load"]
    BY <1>2, <1>11 DEF CasTip, Goto, s, u
  <2>2. r.pc \in {"dupe", "load"} /\ (r.pc = "dupe" => u = BlueScore[s.block])
        /\ r.stat = s.stat /\ r.job = s.job /\ r.nonce = s.nonce
        /\ r.block = s.block /\ r.blockStat = s.blockStat /\ r.verdict = s.verdict
    BY <1>1, <2>1 DEF SubRecords
  <2>3. r \in SubRecords
    BY <1>1, <2>1 DEF SubRecords, SubPcs
  <2> HIDE DEF r
  <2>4. GoodSub(r)
    BY <1>1, <2>1, <2>2 DEF GoodSub, Judged, Undecided, Counting, Counted, Verdicts, None
  <2> QED BY <1>1, <1>3, <1>5, <2>1, <2>2, <2>3, <2>4 DEF Goal, Sound, Judged, Undecided
<1>12. CASE TrackDupeShare(c)
  <2>1. /\ s.pc = "dupe"
        /\ \/ r = [s EXCEPT !.pc = "tally", !.verdict = "Duplicate"]
           \/ r = [s EXCEPT !.pc = "pow"]
    BY <1>2, <1>12 DEF TrackDupeShare, Goto, s
  <2>2. /\ \/ r.pc = "tally" /\ r.verdict = "Duplicate"
           \/ r.pc = "pow" /\ r.verdict = s.verdict
        /\ r.stat = s.stat /\ r.job = s.job /\ r.nonce = s.nonce
        /\ r.block = s.block /\ r.blockStat = s.blockStat
    <3> HIDE DEF r, s
    <3>1. CASE r = [s EXCEPT !.pc = "tally", !.verdict = "Duplicate"]
      BY <1>1, <3>1 DEF SubRecords
    <3>2. CASE r = [s EXCEPT !.pc = "pow"]
      BY <1>1, <3>2 DEF SubRecords
    <3> QED BY <2>1, <3>1, <3>2
  <2>3. r \in SubRecords
    <3> HIDE DEF r, s
    <3>1. CASE r = [s EXCEPT !.pc = "tally", !.verdict = "Duplicate"]
      BY <1>1, <3>1 DEF SubRecords, SubPcs, Verdicts
    <3>2. CASE r = [s EXCEPT !.pc = "pow"]
      BY <1>1, <3>2 DEF SubRecords, SubPcs
    <3> QED BY <2>1, <3>1, <3>2
  <2> HIDE DEF r
  <2>4. GoodSub(r)
    BY <1>1, <2>1, <2>2 DEF GoodSub, Judged, Undecided, Counting, Counted, Verdicts, None
  <2> QED BY <1>1, <1>3, <1>5, <2>1, <2>2, <2>3, <2>4 DEF Goal, Sound, Judged, Undecided
<1>13. CASE CheckPow(c)
  <2> DEFINE pow == PowValue[s.block][s.nonce]
             bad == s.block \in Unconvertible
  <2>1. /\ s.pc = "pow"
        /\ r = IF bad \/ ~HasTarget(c) THEN GivenUp(c)
               ELSE IF pow <= NetworkTarget[s.block] THEN [s EXCEPT !.pc = "rpc"]
               ELSE IF pow >= ShareTarget(c) THEN [s EXCEPT !.pc = "tally", !.verdict = "LowDiff"]
               ELSE [s EXCEPT !.pc = "tally", !.verdict = "Accepted"]
    BY <1>2, <1>13 DEF CheckPow, s
  <2>2. CASE r = GivenUp(c)
    <3>1. r \in {Idle, [Idle EXCEPT !.pc = "reply", !.verdict = "Malformed"]}
      BY <2>2 DEF GivenUp
    <3>2. /\ \/ r.pc = "reply" /\ r.verdict = "Malformed"
             \/ r.pc = "idle" /\ r.verdict = None
          /\ r.block = NoJob /\ r.blockStat = 0
      <4>1. CASE r = Idle
        BY <4>1 DEF Idle
      <4>2. CASE r = [Idle EXCEPT !.pc = "reply", !.verdict = "Malformed"]
        BY <4>2 DEF Idle
      <4> QED BY <3>1, <4>1, <4>2
    <3>3. r \in SubRecords
      <4>1. CASE r = Idle
        BY <1>0, <4>1
      <4>2. CASE r = [Idle EXCEPT !.pc = "reply", !.verdict = "Malformed"]
        BY <1>0, <4>2 DEF SubRecords, SubPcs, Verdicts
      <4> QED BY <3>1, <4>1, <4>2
    <3> HIDE DEF r
    <3>4. GoodSub(r)
      BY <3>2 DEF GoodSub, Judged, Undecided, Counting, Verdicts, None
    <3> QED BY <1>3, <3>2, <3>3, <3>4 DEF Goal, Sound, Judged, Undecided, Counting
  <2>3. CASE r # GivenUp(c)
    <3>1. /\ ~bad
          /\ \/ r = [s EXCEPT !.pc = "rpc"] /\ Solved(s)
             \/ r = [s EXCEPT !.pc = "tally", !.verdict = "LowDiff"]
             \/ r = [s EXCEPT !.pc = "tally", !.verdict = "Accepted"]
      BY <2>1, <2>3 DEF Solved
    <3>2. /\ \/ r.pc = "rpc" /\ r.verdict = s.verdict /\ Solved(s)
             \/ r.pc = "tally" /\ r.verdict \in {"LowDiff", "Accepted"}
          /\ r.stat = s.stat /\ r.job = s.job /\ r.nonce = s.nonce
          /\ r.block = s.block /\ r.blockStat = s.blockStat
      <4> HIDE DEF r, s
      <4>1. CASE r = [s EXCEPT !.pc = "rpc"] /\ Solved(s)
        BY <1>1, <4>1 DEF SubRecords
      <4>2. CASE r = [s EXCEPT !.pc = "tally", !.verdict = "LowDiff"]
        BY <1>1, <4>2 DEF SubRecords
      <4>3. CASE r = [s EXCEPT !.pc = "tally", !.verdict = "Accepted"]
        BY <1>1, <4>3 DEF SubRecords
      <4> QED BY <3>1, <4>1, <4>2, <4>3
    <3>3. r \in SubRecords
      <4> HIDE DEF r, s
      <4>1. CASE r = [s EXCEPT !.pc = "rpc"]
        BY <1>1, <4>1 DEF SubRecords, SubPcs
      <4>2. CASE r = [s EXCEPT !.pc = "tally", !.verdict = "LowDiff"]
        BY <1>1, <4>2 DEF SubRecords, SubPcs, Verdicts
      <4>3. CASE r = [s EXCEPT !.pc = "tally", !.verdict = "Accepted"]
        BY <1>1, <4>3 DEF SubRecords, SubPcs, Verdicts
      <4> QED BY <3>1, <4>1, <4>2, <4>3
    <3> HIDE DEF r
    <3>4. GoodSub(r)
      BY <1>1, <2>1, <3>1, <3>2
         DEF GoodSub, Judged, Undecided, Counting, Counted, Verdicts, None, Solved
    <3> QED BY <1>1, <1>3, <1>5, <2>1, <3>2, <3>3, <3>4 DEF Goal, Sound, Judged, Undecided
  <2> QED BY <2>2, <2>3
<1>14. ASSUME NEW a \in {"ok", "ErrDuplicateBlock", "error"}, SubmitBlock(c, a) PROVE Goal
  <2> DEFINE v == CASE a = "ok" -> "Block" [] a = "ErrDuplicateBlock" -> "Stale" [] OTHER -> "Bad"
  <2>1. s.pc = "rpc" /\ r = [s EXCEPT !.pc = "blockStats", !.verdict = v]
    BY <1>2, <1>14 DEF SubmitBlock, s
  <2>2. v \in {"Block", "Stale", "Bad"}
    OBVIOUS
  <2> HIDE DEF v
  <2>3. /\ r.pc = "blockStats" /\ r.verdict = v
        /\ r.stat = s.stat /\ r.job = s.job /\ r.nonce = s.nonce
        /\ r.block = s.block /\ r.blockStat = s.blockStat
    BY <1>1, <2>1 DEF SubRecords
  <2>4. r \in SubRecords
    BY <1>1, <2>1, <2>2 DEF SubRecords, SubPcs, Verdicts
  <2> HIDE DEF r
  <2>5. GoodSub(r)
    BY <1>1, <2>1, <2>2, <2>3 DEF GoodSub, Judged, Undecided, Counting, Counted, Verdicts, None, Solved
  <2> QED BY <1>1, <1>3, <1>5, <2>1, <2>3, <2>4, <2>5 DEF Goal, Sound, Judged, Undecided, Counting
<1>15. CASE ResolveBlockStats(c)
  <2> DEFINE k == stats'[workerStatsKey(c)]
  <2>1. s.pc = "blockStats" /\ r = [s EXCEPT !.pc = "tally", !.blockStat = k]
    BY <1>2, <1>15 DEF ResolveBlockStats, s
  <2>2. k \in 1 .. m
    BY <1>2, <1>15, GetCreateStatsKeepsStats DEF ResolveBlockStats, m
  <2> HIDE DEF k
  <2>3. /\ r.pc = "tally" /\ r.verdict = s.verdict /\ r.blockStat = k
        /\ r.stat = s.stat /\ r.job = s.job /\ r.nonce = s.nonce /\ r.block = s.block
    BY <1>1, <2>1 DEF SubRecords
  <2>4. r \in SubRecords
    <3>1. k \in Nat /\ "tally" \in SubPcs
      BY <1>3, <2>2 DEF SubPcs
    <3> QED BY <1>1, <2>1, <3>1 DEF SubRecords
  <2> HIDE DEF r
  <2>5. GoodSub(r)
    BY <1>1, <2>1, <2>3 DEF GoodSub, Judged, Undecided, Counting, Counted, Verdicts, None, Solved
  <2> QED BY <1>1, <1>3, <1>5, <2>1, <2>2, <2>3, <2>4, <2>5 DEF Goal, Sound, Judged, Counting
<1>16. CASE Tally(c)
  <2>1. s.pc = "tally" /\ r = [s EXCEPT !.pc = "overall"]
    BY <1>2, <1>16 DEF Tally, Goto, s
  <2>2. /\ r.pc = "overall" /\ r.verdict = s.verdict /\ r.blockStat = s.blockStat
        /\ r.stat = s.stat /\ r.job = s.job /\ r.nonce = s.nonce /\ r.block = s.block
    BY <1>1, <2>1 DEF SubRecords
  <2>3. r \in SubRecords
    BY <1>1, <2>1 DEF SubRecords, SubPcs
  <2> HIDE DEF r
  <2>4. GoodSub(r)
    BY <1>1, <2>1, <2>2 DEF GoodSub, Judged, Undecided, Counting, Solved
  <2> QED BY <1>5, <2>1, <2>2, <2>3, <2>4 DEF Goal, Sound, Judged, Undecided, Counting
<1>17. CASE TallyOverall(c)
  <2>1. /\ s.pc = "overall"
        /\ \/ s.verdict = "Block"
              /\ r = [s EXCEPT !.pc = "tally", !.blockStat = 0, !.verdict = "Accepted"]
           \/ s.verdict # "Block" /\ r = [s EXCEPT !.pc = "reply"]
    BY <1>2, <1>17 DEF TallyOverall, s
  <2>2. /\ \/ r.pc = "tally" /\ r.blockStat = 0 /\ r.verdict = "Accepted"
              /\ s.verdict = "Block"
           \/ r.pc = "reply" /\ r.blockStat = s.blockStat /\ r.verdict = s.verdict
              /\ s.verdict # "Block"
        /\ r.stat = s.stat /\ r.job = s.job /\ r.nonce = s.nonce /\ r.block = s.block
    BY <1>1, <2>1 DEF SubRecords
  <2>3. r \in SubRecords
    <3> HIDE DEF r, s
    <3>1. "tally" \in SubPcs /\ "reply" \in SubPcs /\ "Accepted" \in Verdicts /\ 0 \in Nat
      BY DEF SubPcs, Verdicts
    <3>2. CASE r = [s EXCEPT !.pc = "tally", !.blockStat = 0, !.verdict = "Accepted"]
      BY <1>1, <3>1, <3>2 DEF SubRecords
    <3>3. CASE r = [s EXCEPT !.pc = "reply"]
      BY <1>1, <3>1, <3>3 DEF SubRecords
    <3> QED BY <2>1, <3>2, <3>3
  <2> HIDE DEF r
  <2>4. GoodSub(r)
    <3>1. CASE r.pc = "tally" /\ r.verdict = "Accepted" /\ s.verdict = "Block"
      <4>1. r.block \notin Unconvertible
        BY <1>1, <2>2, <3>1 DEF GoodSub
      <4> QED BY <3>1, <4>1 DEF GoodSub, Judged, Undecided, Counting, Counted, Verdicts
    <3>2. CASE r.pc = "reply" /\ r.verdict = s.verdict /\ s.verdict # "Block"
      BY <1>1, <2>1, <3>2 DEF GoodSub, Judged, Undecided, Counting, Counted, Verdicts
    <3> QED BY <2>2, <3>1, <3>2
  <2> QED BY <1>3, <1>5, <2>1, <2>2, <2>3, <2>4 DEF Goal, Sound, Judged, Undecided, Counting
<1>18. CASE Reply(c)
  <2>1. r = Idle
    BY <1>2, <1>18 DEF Reply
  <2>2. r.pc = "idle" /\ r.blockStat = 0 /\ r.block = NoJob
    BY <2>1 DEF Idle
  <2> HIDE DEF r
  <2> QED BY <1>0, <1>3, <2>1, <2>2 DEF Goal, Sound, Judged, Undecided, Counting
<1>19. ASSUME NEW a \in Wallets, AuthorizeWallet(c, a) PROVE Goal
  <2>1. s.pc = "idle" /\ r = [s EXCEPT !.pc = "authorize"]
    BY <1>2, <1>19 DEF AuthorizeWallet, Goto, s
  <2>2. /\ r.pc = "authorize" /\ r.verdict = s.verdict /\ r.blockStat = s.blockStat
        /\ r.stat = s.stat /\ r.job = s.job /\ r.nonce = s.nonce /\ r.block = s.block
    BY <1>1, <2>1 DEF SubRecords
  <2>3. r \in SubRecords
    BY <1>1, <2>1 DEF SubRecords, SubPcs
  <2> HIDE DEF r
  <2>4. GoodSub(r)
    BY <1>1, <2>1, <2>2 DEF GoodSub, Judged, Undecided, Counting, Solved, None
  <2> QED BY <1>5, <2>1, <2>2, <2>3, <2>4 DEF Goal, Sound, Judged, Undecided, Counting
<1>20. ASSUME NEW w \in Workers \union {Anonymous}, AuthorizeWorker(c, w) PROVE Goal
  <2>1. s.pc = "authorize" /\ r = [s EXCEPT !.pc = "idle"]
    BY <1>2, <1>20 DEF AuthorizeWorker, Goto, s
  <2>2. /\ r.pc = "idle" /\ r.verdict = s.verdict /\ r.blockStat = s.blockStat
        /\ r.stat = s.stat /\ r.job = s.job /\ r.nonce = s.nonce /\ r.block = s.block
    BY <1>1, <2>1 DEF SubRecords
  <2>3. r \in SubRecords
    BY <1>1, <2>1 DEF SubRecords, SubPcs
  <2> HIDE DEF r
  <2>4. GoodSub(r)
    BY <1>1, <2>1, <2>2 DEF GoodSub, Judged, Undecided, Counting, Solved, None
  <2> QED BY <1>5, <2>1, <2>2, <2>3, <2>4 DEF Goal, Sound, Judged, Undecided, Counting
<1>21. \/ UNCHANGED sub
       \/ (\E id \in JobIds, x \in Nonces : Submit(c, id, x)) \/ SubmitMalformed(c)
       \/ ResolveStats(c) \/ LoadTip(c) \/ CasTip(c) \/ TrackDupeShare(c) \/ CheckPow(c)
       \/ (\E a \in {"ok", "ErrDuplicateBlock", "error"} : SubmitBlock(c, a))
       \/ ResolveBlockStats(c) \/ Tally(c) \/ TallyOverall(c) \/ Reply(c)
       \/ (\E a \in Wallets : AuthorizeWallet(c, a))
       \/ (\E w \in Workers \union {Anonymous} : AuthorizeWorker(c, w))
  BY DEF Step, SubmitStep, Environment, BackgroundStats, DispatchBegin, DispatchEnd,
         DispatchFail, Disconnect, OnDisconnect, DispatchJob, DispatchDiff, shareVars
<1> QED
  BY <1>6, <1>7, <1>8, <1>9, <1>10, <1>11, <1>12, <1>13, <1>14, <1>15, <1>16, <1>17,
     <1>18, <1>19, <1>20, <1>21

\* Init => ShareInv is ShareInvInit; this is the step.
LEMMA ShareInvStep == ShareInv /\ [Next]_vars => ShareInv'
<1> SUFFICES ASSUME ShareInv, [Next]_vars PROVE ShareInv'
  OBVIOUS
<1>1. CASE UNCHANGED vars
  BY <1>1 DEF vars, shareVars, miningStateVars, ShareInv, MiningOK, MiningStateTypeOK, CtxOK,
       StatsOK, StatsReachableOnce, DupeOK, CountsOK, SubOK, StalenessJustified, SubRefers
<1>2. ASSUME NEW c \in Clients, Step(c) PROVE ShareInv'
  <2>1. MiningOK' /\ initialized \subseteq initialized'
    BY <1>2, MiningStep
  <2>2. CtxOK' /\ DupeOK' /\ CountsOK'
    BY <1>2, CtxStep, DupeStep, CountsStep
  <2>3. StatsOK' /\ Len(work') \in Nat /\ Len(work) <= Len(work') /\ Len(work) \in Nat
    BY <1>2, StatsStep DEF ShareInv, StatsOK
  <2>4. tipBlueScore \in Nat /\ tipBlueScore' \in Nat /\ tipBlueScore <= tipBlueScore'
    BY <1>2, TipStep DEF ShareInv
  <2>5. ASSUME NEW d \in Clients
        PROVE  Sound(d, sub'[d], tipBlueScore', Len(work'), initialized')
    <3>1. CASE d = c
      BY <1>2, <3>1, OwnStep
    <3>2. CASE d # c
      BY <1>2, <2>1, <2>3, <2>4, <3>2, InvIsSound, SubFrame, SoundStaysSound
    <3> QED BY <3>1, <3>2
  <2>6. sub' \in [Clients -> SubRecords]
    <3>1. sub' = [d \in Clients |-> sub'[d]]
      BY <1>2 DEF ShareInv, SubOK, Step, SubmitStep, Environment, Submit, SubmitMalformed,
         ResolveStats, LoadTip, CasTip, TrackDupeShare, CheckPow, SubmitBlock,
         ResolveBlockStats, Tally, TallyOverall, Reply, AuthorizeWallet, AuthorizeWorker,
         BackgroundStats, DispatchBegin, DispatchEnd, DispatchFail, Disconnect, OnDisconnect,
         DispatchJob, DispatchDiff, shareVars, Goto
    <3> QED BY <2>5, <3>1 DEF Sound
  <2>7. SubOK' /\ StalenessJustified' /\ \A d \in Clients : SubRefers(d)'
    BY <2>5, <2>6 DEF Sound, SubOK, GoodSub, Solved, StalenessJustified, SubRefers
  <2> QED BY <2>1, <2>2, <2>3, <2>4, <2>7 DEF ShareInv
<1> QED BY <1>1, <1>2 DEF Next, Step

\* The invariant holds of every reachable state of the share handler.
THEOREM ShareInvHolds == Spec => []ShareInv
BY ShareInvInit, ShareInvStep, PTL DEF Spec

\* Every variable stays in its type.
THEOREM ShareTypes == Spec => []TypeOK
<1>1. ShareInv => TypeOK
  BY DEF ShareInv, MiningOK, CtxOK, StatsOK, DupeOK, Histories, CountsOK, SubOK, TypeOK
<1> QED BY <1>1, ShareInvHolds, PTL

\* trackDupeShare keeps slice and map of every worker's history equal, without
\* repeats and within MaxTracked, for every MaxTracked and any interleaving of
\* connections that share a worker name.
THEOREM HistoryStaysConsistent == Spec => []HistoryConsistent
<1>1. ShareInv => HistoryConsistent
  <2> SUFFICES ASSUME ShareInv, NEW k \in Keys
               PROVE  LET h == dupeShares[k]
                      IN  /\ h.set = {h.order[i] : i \in 1 .. Len(h.order)}
                          /\ \A i, j \in 1 .. Len(h.order) : h.order[i] = h.order[j] => i = j
                          /\ Len(h.order) <= MaxTracked
    BY DEF HistoryConsistent
  <2>1. /\ dupeShares[k] \in [order : Seq(ShareKeys), set : SUBSET ShareKeys]
        /\ passed[k] \in Seq(ShareKeys) /\ Window(dupeShares[k], passed[k])
    BY DEF ShareInv, DupeOK, Histories
  <2>2. \A i, j \in 1 .. Len(dupeShares[k].order) :
          dupeShares[k].order[i] = dupeShares[k].order[j] => i = j
    BY <2>1, SliceHasNoRepeats
  <2> QED BY <2>1, <2>2, MaxTrackedAssumption DEF Window, Kept
<1> QED BY <1>1, ShareInvHolds, PTL

\* A job id and nonce passes twice under one worker key only with MaxTracked
\* or more other shares let through since, or after a disconnect cleared the
\* history.
THEOREM DuplicatesStayApart == Spec => []DuplicateWindow
<1>1. ShareInv => DuplicateWindow
  BY DEF ShareInv, DupeOK, Window, DuplicateWindow
<1> QED BY <1>1, ShareInvHolds, PTL

\* checkStales: what it lets through is not above the tip, what it rejects is
\* more than WorkWindow behind the tip, also after other connections moved it.
THEOREM StaleSharesAreStale == Spec => []StalenessJustified
<1>1. ShareInv => StalenessJustified
  BY DEF ShareInv
<1> QED BY <1>1, ShareInvHolds, PTL

\* getCreateStats never loses a WorkStats object and never leaves it under two
\* keys, whichever of the goroutines of all the clients of one address race.
THEOREM StatsHaveOneKey == Spec => []StatsReachableOnce
<1>1. ShareInv => StatsReachableOnce
  BY DEF ShareInv, StatsOK
<1> QED BY <1>1, ShareInvHolds, PTL

\* The compare-and-swap loop of checkStales never lowers the tip.
THEOREM TipIsMonotone == Spec => TipNeverFalls
<1>1. ShareInv /\ [Next]_vars => [tipBlueScore' >= tipBlueScore]_vars
  BY TipStep DEF Next, Step
<1> QED BY <1>1, ShareInvHolds, PTL DEF Spec, TipNeverFalls

----------------------------------------------------------------------------
(* The ledger                                                               *)

\* Before a verdict is reached that only a readable template can get.
Pending(s) == IF s.block \in Unconvertible THEN "unreadable" ELSE "received"

\* Phase, of the record of a goroutine.
PhaseOf(s) ==
  CASE s.pc \in {"idle", "authorize"} -> "none"
    [] s.pc = "reply" -> s.verdict
    [] s.verdict = "Block" -> "won"
    [] s.pc \in {"tally", "overall"} /\ s.verdict = "Accepted" /\ Solved(s) -> "share"
    [] OTHER -> Pending(s)

\* The arms of Phase exclude each other for a goroutine of the invariant.
LEMMA PhaseArms ==
  ASSUME NEW s, GoodSub(s)
  PROVE  /\ s.pc \in {"idle", "authorize"} => PhaseOf(s) = "none"
         /\ s.pc = "reply" => PhaseOf(s) = s.verdict
         /\ s.verdict = "Block" => PhaseOf(s) = "won"
         /\ s.pc \in Counting /\ s.verdict = "Accepted" /\ Solved(s) => PhaseOf(s) = "share"
         /\ s.pc \in {"stats", "load", "cas", "dupe", "pow", "rpc", "blockStats", "tally", "overall"}
              /\ s.verdict # "Block"
              /\ ~(s.pc \in Counting /\ s.verdict = "Accepted" /\ Solved(s))
              => PhaseOf(s) = Pending(s)
<1>1. s.pc \in {"idle", "authorize"} => s.verdict # "Block"
  BY DEF GoodSub, None
<1>2. s.pc = "reply" => s.verdict # "Block"
  BY DEF GoodSub, Verdicts
<1>3. s.pc \in {"idle", "authorize"} => PhaseOf(s) = "none"
  BY <1>1 DEF PhaseOf
<1>4. s.pc = "reply" => PhaseOf(s) = s.verdict
  BY <1>2 DEF PhaseOf
<1>5. s.verdict = "Block" => PhaseOf(s) = "won"
  BY <1>1, <1>2 DEF PhaseOf
<1>6. s.pc \in Counting /\ s.verdict = "Accepted" /\ Solved(s) => PhaseOf(s) = "share"
  BY DEF PhaseOf, Counting
<1>7. ASSUME s.pc \in {"stats", "load", "cas", "dupe", "pow", "rpc", "blockStats", "tally", "overall"},
             s.verdict # "Block",
             ~(s.pc \in Counting /\ s.verdict = "Accepted" /\ Solved(s))
      PROVE  PhaseOf(s) = Pending(s)
  BY <1>7 DEF PhaseOf, Counting
<1> QED BY <1>3, <1>4, <1>5, <1>6, <1>7

\* Before and after a step, the phase of a client is that of its goroutine.
LEMMA PhaseIsPhaseOf ==
  ASSUME NEW c \in Clients
  PROVE  Phase(c) = PhaseOf(sub[c]) /\ Phase(c)' = PhaseOf(sub'[c])
BY DEF Phase, PhaseOf, Pending, Solved

\* The initial states of the share handler are initial states of the ledger.
LEMMA LedgerInitially == Init => Ledger!LedgerInit
<1> SUFFICES ASSUME Init PROVE Ledger!LedgerInit
  OBVIOUS
<1>1. GoodSub(Idle) /\ Idle.pc = "idle"
  BY DEF Idle, GoodSub, Undecided, Judged, Counting, None
<1>2. \A c \in Clients : Phase(c) = "none"
  BY <1>1, PhaseArms, PhaseIsPhaseOf DEF Init
<1> QED BY <1>2 DEF Init, Ledger!LedgerInit, NoWork

\* A step of c is a step of the ledger, or leaves it alone.
LEMMA LedgerStep ==
  ASSUME ShareInv, ShareInv', NEW c \in Clients, Step(c)
  PROVE  Ledger!LedgerNext \/ UNCHANGED Ledger!ledgerVars
<1> DEFINE s == sub[c]
           r == sub'[c]
           P == [d \in Clients |-> Phase(d)]
           Same == UNCHANGED <<overall, answered, won>> /\ PhaseOf(r) = PhaseOf(s)
           Goal == Ledger!LedgerNext \/ UNCHANGED Ledger!ledgerVars
<1>1. sub \in [Clients -> SubRecords] /\ CountsOK /\ s \in SubRecords /\ GoodSub(s) /\ GoodSub(r)
  BY DEF ShareInv, SubOK, GoodSub, Solved
<1>2. P[c] = PhaseOf(s) /\ P'[c] = PhaseOf(r)
  BY PhaseIsPhaseOf
<1>3. P' = [P EXCEPT ![c] = PhaseOf(r)]
  <2>1. \A d \in Clients : d # c => Phase(d)' = Phase(d)
    BY SubFrame, PhaseIsPhaseOf
  <2> QED BY <1>2, <2>1
<1>4. ASSUME Same PROVE Goal
  <2>1. P' = P
    BY <1>2, <1>3, <1>4
  <2> QED BY <1>4, <2>1 DEF Ledger!ledgerVars
<1> HIDE DEF P
<1>5. CASE UNCHANGED <<sub, overall, answered, won>>
  BY <1>4, <1>5
<1>6. ASSUME PhaseOf(s) = "none", PhaseOf(r) \in {"received", "unreadable", "Malformed"},
             UNCHANGED <<overall, answered, won>>
      PROVE  Goal
  <2>1. Ledger!Receive(c)
    BY <1>2, <1>3, <1>6 DEF Ledger!Receive, P
  <2> QED BY <2>1 DEF Ledger!LedgerNext
<1>7. ASSUME NEW id \in JobIds, NEW x \in Nonces, Submit(c, id, x) PROVE Goal
  <2>1. s.pc = "idle" /\ r.pc = "stats" /\ r.verdict \in {"Stale", None}
        /\ UNCHANGED <<overall, answered, won>>
    BY <1>1, <1>7 DEF Submit, Idle, statVars
  <2>2. PhaseOf(s) = "none" /\ PhaseOf(r) = Pending(r)
    BY <1>1, <2>1, PhaseArms DEF Counting, None
  <2>3. Pending(r) \in {"received", "unreadable"}
    BY DEF Pending
  <2> QED BY <1>6, <2>1, <2>2, <2>3
<1>8. CASE SubmitMalformed(c)
  <2>1. s.pc = "idle" /\ r.pc = "reply" /\ r.verdict = "Malformed"
        /\ UNCHANGED <<overall, answered, won>>
    BY <1>1, <1>8 DEF SubmitMalformed, Idle, statVars
  <2>2. PhaseOf(s) = "none" /\ PhaseOf(r) = "Malformed"
    BY <1>1, <2>1, PhaseArms
  <2> QED BY <1>6, <2>1, <2>2
<1>9. CASE ResolveStats(c)
  <2>1. s.pc = "stats" /\ r.pc \in {"load", "tally"} /\ r.verdict = s.verdict
        /\ r.block = s.block /\ UNCHANGED <<overall, answered, won>>
    BY <1>1, <1>9 DEF ResolveStats, SubRecords
  <2>2. s.verdict \in {"Stale", None}
    BY <1>1, <2>1 DEF GoodSub
  <2>3. Pending(r) = Pending(s)
    BY <2>1 DEF Pending
  <2>4. PhaseOf(s) = Pending(s) /\ PhaseOf(r) = Pending(r)
    BY <1>1, <2>1, <2>2, PhaseArms DEF Counting, None
  <2> QED BY <1>4, <2>1, <2>3, <2>4
<1>10. CASE LoadTip(c)
  <2>1. s.pc = "load" /\ r.pc \in {"cas", "tally", "dupe"} /\ r.verdict \in {"Stale", None}
        /\ r.block = s.block /\ UNCHANGED <<overall, answered, won>>
    BY <1>1, <1>10 DEF LoadTip, SubRecords, statVars
  <2>2. s.verdict = None
    BY <1>1, <2>1 DEF GoodSub, Undecided
  <2>3. Pending(r) = Pending(s)
    BY <2>1 DEF Pending
  <2>4. PhaseOf(s) = Pending(s) /\ PhaseOf(r) = Pending(r)
    BY <1>1, <2>1, <2>2, PhaseArms DEF Counting, None
  <2> QED BY <1>4, <2>1, <2>3, <2>4
<1>11. CASE CasTip(c)
  <2>1. s.pc = "cas" /\ r.pc \in {"load", "dupe"} /\ r.verdict = s.verdict
        /\ r.block = s.block /\ UNCHANGED <<overall, answered, won>>
    BY <1>1, <1>11 DEF CasTip, SubRecords, statVars, Goto
  <2>2. s.verdict = None
    BY <1>1, <2>1 DEF GoodSub, Undecided
  <2>3. Pending(r) = Pending(s)
    BY <2>1 DEF Pending
  <2>4. PhaseOf(s) = Pending(s) /\ PhaseOf(r) = Pending(r)
    BY <1>1, <2>1, <2>2, PhaseArms DEF Counting, None
  <2> QED BY <1>4, <2>1, <2>3, <2>4
<1>12. CASE TrackDupeShare(c)
  <2>1. s.pc = "dupe" /\ r.pc \in {"tally", "pow"} /\ r.verdict \in {"Duplicate", s.verdict}
        /\ r.block = s.block /\ UNCHANGED <<overall, answered, won>>
    BY <1>1, <1>12 DEF TrackDupeShare, SubRecords, statVars, Goto
  <2>2. s.verdict = None
    BY <1>1, <2>1 DEF GoodSub, Undecided
  <2>3. Pending(r) = Pending(s)
    BY <2>1 DEF Pending
  <2>4. PhaseOf(s) = Pending(s) /\ PhaseOf(r) = Pending(r)
    BY <1>1, <2>1, <2>2, PhaseArms DEF Counting, None
  <2> QED BY <1>4, <2>1, <2>3, <2>4
<1>13. CASE CheckPow(c)
  <2> DEFINE bad == s.block \in Unconvertible
  <2>1. s.pc = "pow" /\ UNCHANGED <<overall, answered, won>>
    BY <1>13 DEF CheckPow, statVars
  <2>2. s.verdict = None /\ s.block \in Blocks /\ s.nonce \in Nonces
    BY <1>1, <2>1 DEF GoodSub, Undecided, Judged
  <2>3. HasTarget(c)
    BY <2>1, <2>2, NoJobAssumption DEF ShareInv, MiningOK, SubRefers, HasTarget
  <2>4. PhaseOf(s) = Pending(s)
    BY <1>1, <2>1, <2>2, PhaseArms DEF Counting, None
  <2>5. CASE bad
    <3>1. r = GivenUp(c)
      BY <1>1, <1>13, <2>5 DEF CheckPow
    <3>2. PhaseOf(s) = "unreadable"
      BY <2>4, <2>5 DEF Pending
    <3>3. CASE c \in SV2Clients
      <4>1. r.pc = "reply" /\ r.verdict = "Malformed"
        BY <3>1, <3>3 DEF GivenUp, Idle
      <4>2. PhaseOf(r) = "Malformed"
        BY <1>1, <4>1, PhaseArms
      <4>3. Ledger!GiveUp(c)
        BY <1>2, <1>3, <2>1, <3>2, <3>3, <4>2 DEF Ledger!GiveUp, P
      <4> QED BY <4>3 DEF Ledger!LedgerNext
    <3>4. CASE c \notin SV2Clients
      <4>1. r.pc = "idle"
        BY <3>1, <3>4 DEF GivenUp, Idle
      <4>2. PhaseOf(r) = "none"
        BY <1>1, <4>1, PhaseArms
      <4>3. Ledger!GiveUp(c)
        BY <1>2, <1>3, <2>1, <3>2, <3>4, <4>2 DEF Ledger!GiveUp, P
      <4> QED BY <4>3 DEF Ledger!LedgerNext
    <3> QED BY <3>3, <3>4
  <2>6. CASE ~bad
    <3>1. \/ r = [s EXCEPT !.pc = "rpc"]
          \/ r = [s EXCEPT !.pc = "tally", !.verdict = "LowDiff"]
          \/ r = [s EXCEPT !.pc = "tally", !.verdict = "Accepted"] /\ ~Solved(s)
      BY <1>1, <1>13, <2>3, <2>6 DEF CheckPow, Solved
    <3>2. /\ r.block = s.block /\ r.nonce = s.nonce
          /\ \/ r.pc = "rpc" /\ r.verdict = None
             \/ r.pc = "tally" /\ r.verdict = "LowDiff"
             \/ r.pc = "tally" /\ r.verdict = "Accepted" /\ ~Solved(s)
      BY <1>1, <2>2, <3>1 DEF SubRecords
    <3>3. Solved(r) = Solved(s) /\ Pending(r) = Pending(s)
      BY <3>2 DEF Solved, Pending
    <3> HIDE DEF r, s
    <3>4. PhaseOf(r) = Pending(r)
      BY <1>1, <2>2, <3>2, <3>3, PhaseArms DEF Counting, None
    <3> QED BY <1>4, <2>1, <2>4, <3>3, <3>4
  <2> QED BY <2>5, <2>6
<1>14. ASSUME NEW a \in {"ok", "ErrDuplicateBlock", "error"}, SubmitBlock(c, a) PROVE Goal
  <2> DEFINE v == CASE a = "ok" -> "Block" [] a = "ErrDuplicateBlock" -> "Stale" [] OTHER -> "Bad"
  <2>0. r = [s EXCEPT !.pc = "blockStats", !.verdict = v]
    BY <1>1, <1>14 DEF SubmitBlock
  <2>7. (a = "ok" => v = "Block") /\ (a # "ok" => v \in {"Stale", "Bad"})
    OBVIOUS
  <2> HIDE DEF v
  <2>1. s.pc = "rpc" /\ r.pc = "blockStats" /\ r.verdict = v /\ r.block = s.block
        /\ UNCHANGED <<overall, answered>>
        /\ won' = won + (IF a = "ok" THEN 1 ELSE 0)
    BY <1>1, <1>14, <2>0 DEF SubmitBlock, SubRecords, statVars
  <2>2. s.verdict = None
    BY <1>1, <2>1 DEF GoodSub, Undecided
  <2>8. s.block \notin Unconvertible
    BY <1>1, <2>1 DEF GoodSub
  <2>9. Pending(s) = "received" /\ Pending(r) = "received"
    BY <2>1, <2>8 DEF Pending
  <2>3. PhaseOf(s) = "received"
    BY <1>1, <2>1, <2>2, <2>9, PhaseArms DEF Counting, None
  <2>4. CASE a = "ok"
    <3>1. PhaseOf(r) = "won" /\ won' = won + 1
      BY <1>1, <2>1, <2>4, <2>7, PhaseArms
    <3>2. Ledger!Win(c)
      BY <1>2, <1>3, <2>1, <2>3, <3>1 DEF Ledger!Win, P
    <3> QED BY <3>2 DEF Ledger!LedgerNext
  <2>5. CASE a # "ok"
    <3>1. r.verdict \in {"Stale", "Bad"} /\ won' = won
      BY <1>1, <2>1, <2>5, <2>7 DEF CountsOK
    <3>2. PhaseOf(r) = "received"
      BY <1>1, <2>1, <2>9, <3>1, PhaseArms DEF Counting
    <3> QED BY <1>4, <2>1, <2>3, <3>1, <3>2
  <2> QED BY <2>4, <2>5
<1>15. CASE ResolveBlockStats(c)
  <2>1. s.pc = "blockStats" /\ r.pc = "tally" /\ r.verdict = s.verdict
        /\ r.block = s.block /\ UNCHANGED <<overall, answered, won>>
    BY <1>1, <1>15 DEF ResolveBlockStats, SubRecords
  <2>2. s.verdict \in {"Block", "Stale", "Bad"}
    BY <1>1, <2>1 DEF GoodSub
  <2>4. Pending(r) = Pending(s)
    BY <2>1 DEF Pending
  <2>3. PhaseOf(s) = PhaseOf(r)
    BY <1>1, <2>1, <2>2, <2>4, PhaseArms DEF Counting
  <2> QED BY <1>4, <2>1, <2>3
<1>16. CASE Tally(c)
  <2>1. s.pc = "tally" /\ r.pc = "overall" /\ r.verdict = s.verdict
        /\ r.block = s.block /\ r.nonce = s.nonce /\ UNCHANGED <<overall, answered, won>>
    BY <1>1, <1>16 DEF Tally, SubRecords, Goto
  <2>2. Solved(r) = Solved(s) /\ Pending(r) = Pending(s)
    BY <2>1 DEF Solved, Pending
  <2> HIDE DEF r, s
  <2>3. PhaseOf(s) = PhaseOf(r)
    BY <1>1, <2>1, <2>2, PhaseArms DEF Counting
  <2> QED BY <1>4, <2>1, <2>3
<1>17. CASE TallyOverall(c)
  <2>1. s.pc = "overall" /\ UNCHANGED <<answered, won>>
        /\ overall' = [overall EXCEPT ![CounterOf(s.verdict)] = @ + 1]
    BY <1>17 DEF TallyOverall
  <2>2. s.verdict \in Counted \union {"Block"}
    BY <1>1, <2>1 DEF GoodSub, Counting
  <2>3. CASE s.verdict = "Block"
    <3>1. r = [s EXCEPT !.pc = "tally", !.blockStat = 0, !.verdict = "Accepted"]
      BY <1>1, <1>17, <2>3 DEF TallyOverall
    <3>2. r.pc = "tally" /\ r.verdict = "Accepted" /\ r.block = s.block /\ r.nonce = s.nonce
      BY <1>1, <3>1 DEF SubRecords
    <3>3. Solved(r)
      BY <1>1, <2>3, <3>2 DEF GoodSub, Solved
    <3>4. PhaseOf(s) = "won" /\ PhaseOf(r) = "share" /\ CounterOf(s.verdict) = "blocks"
      BY <1>1, <2>3, <3>2, <3>3, PhaseArms DEF Counting, CounterOf
    <3>5. Ledger!CountBlock(c)
      BY <1>2, <1>3, <2>1, <3>4 DEF Ledger!CountBlock, P
    <3> QED BY <3>5 DEF Ledger!LedgerNext
  <2>4. CASE s.verdict # "Block"
    <3>1. r = [s EXCEPT !.pc = "reply"]
      BY <1>1, <1>17, <2>4 DEF TallyOverall
    <3>2. r.pc = "reply" /\ r.verdict = s.verdict
      BY <1>1, <3>1 DEF SubRecords
    <3>3. PhaseOf(r) = s.verdict
      BY <1>1, <3>2, PhaseArms
    <3>4. PhaseOf(s) = Pending(s) \/ (PhaseOf(s) = "share" /\ s.verdict = "Accepted")
      <4>1. s.pc \in Counting
        BY <2>1 DEF Counting
      <4>2. CASE s.verdict = "Accepted" /\ Solved(s)
        BY <1>1, <4>1, <4>2, PhaseArms
      <4>3. CASE ~(s.verdict = "Accepted" /\ Solved(s))
        <5>1. s.pc \in {"stats", "load", "cas", "dupe", "pow", "rpc", "blockStats", "tally", "overall"}
          BY <2>1
        <5>2. ~(s.pc \in Counting /\ s.verdict = "Accepted" /\ Solved(s))
          BY <4>3
        <5> HIDE DEF s
        <5> QED BY <1>1, <2>4, <5>1, <5>2, PhaseArms
      <4> QED BY <4>2, <4>3
    <3>7. Pending(s) = "received" \/ (Pending(s) = "unreadable" /\ s.verdict \in {"Stale", "Duplicate"})
      <4>1. s.pc \in Counting
        BY <2>1 DEF Counting
      <4> QED BY <1>1, <4>1 DEF GoodSub, Pending
    <3>8. /\ Ledger!Judgements("received") = Verdicts \ {"Malformed"}
          /\ Ledger!Judgements("unreadable") = {"Stale", "Duplicate"}
          /\ Ledger!Judgements("share") = {"Accepted"}
      BY DEF Ledger!Judgements
    <3>5. /\ PhaseOf(s) \in {"received", "unreadable", "share"}
          /\ PhaseOf(r) \in Ledger!Judgements(PhaseOf(s))
      BY <2>2, <2>4, <3>3, <3>4, <3>7, <3>8 DEF Counted
    <3>6. Ledger!Count(c)
      BY <1>2, <1>3, <2>1, <3>3, <3>5 DEF Ledger!Count, P
    <3> QED BY <3>6 DEF Ledger!LedgerNext
  <2> QED BY <2>3, <2>4
<1>18. CASE Reply(c)
  <2>1. s.pc = "reply" /\ r = Idle /\ UNCHANGED <<overall, won>>
        /\ answered' = [answered EXCEPT ![c][s.verdict] = @ + 1]
    BY <1>1, <1>18 DEF Reply, statVars
  <2>2. PhaseOf(s) = s.verdict /\ s.verdict \in Verdicts
    BY <1>1, <2>1, PhaseArms DEF GoodSub
  <2>3. r.pc = "idle"
    BY <2>1 DEF Idle
  <2>4. PhaseOf(r) = "none"
    BY <1>1, <2>3, PhaseArms
  <2>5. Ledger!Answer(c)
    BY <1>2, <1>3, <2>1, <2>2, <2>4 DEF Ledger!Answer, P
  <2> QED BY <2>5 DEF Ledger!LedgerNext
<1>19. ASSUME NEW a \in Wallets, AuthorizeWallet(c, a) PROVE Goal
  <2>1. s.pc = "idle" /\ r.pc = "authorize" /\ UNCHANGED <<overall, answered, won>>
    BY <1>1, <1>19 DEF AuthorizeWallet, Goto, SubRecords, statVars
  <2> QED BY <1>1, <1>4, <2>1, PhaseArms
<1>20. ASSUME NEW w \in Workers \union {Anonymous}, AuthorizeWorker(c, w) PROVE Goal
  <2>1. s.pc = "authorize" /\ r.pc = "idle" /\ UNCHANGED <<overall, answered, won>>
    BY <1>1, <1>20 DEF AuthorizeWorker, Goto, SubRecords, statVars
  <2> QED BY <1>1, <1>4, <2>1, PhaseArms
<1>21. \/ UNCHANGED <<sub, overall, answered, won>>
       \/ (\E id \in JobIds, x \in Nonces : Submit(c, id, x)) \/ SubmitMalformed(c)
       \/ ResolveStats(c) \/ LoadTip(c) \/ CasTip(c) \/ TrackDupeShare(c) \/ CheckPow(c)
       \/ (\E a \in {"ok", "ErrDuplicateBlock", "error"} : SubmitBlock(c, a))
       \/ ResolveBlockStats(c) \/ Tally(c) \/ TallyOverall(c) \/ Reply(c)
       \/ (\E a \in Wallets : AuthorizeWallet(c, a))
       \/ (\E w \in Workers \union {Anonymous} : AuthorizeWorker(c, w))
  BY DEF Step, SubmitStep, Environment, BackgroundStats, DispatchBegin, DispatchEnd,
         DispatchFail, Disconnect, OnDisconnect, DispatchJob, DispatchDiff, shareVars, statVars
<1> HIDE DEF Goal
<1> QED
  BY <1>5, <1>7, <1>8, <1>9, <1>10, <1>11, <1>12, <1>13, <1>14, <1>15, <1>16, <1>17,
     <1>18, <1>19, <1>20, <1>21 DEF Goal

\* The share handler implements its ledger: with any number of connections at
\* once, every submit is counted once and answered once with the verdict that
\* was counted, and a block the node took counts as a block and as a share.
THEOREM LedgerImplemented == Spec => ImplementsLedger
<1>1. ShareInv /\ ShareInv' /\ [Next]_vars => [Ledger!LedgerNext]_(Ledger!ledgerVars)
  <2> SUFFICES ASSUME ShareInv, ShareInv', [Next]_vars
               PROVE  Ledger!LedgerNext \/ UNCHANGED Ledger!ledgerVars
    OBVIOUS
  <2>1. CASE UNCHANGED vars
    BY <2>1 DEF vars, shareVars, Ledger!ledgerVars, Phase
  <2>2. ASSUME NEW c \in Clients, Step(c)
        PROVE  Ledger!LedgerNext \/ UNCHANGED Ledger!ledgerVars
    BY <2>2, LedgerStep
  <2> QED BY <2>1, <2>2 DEF Next, Step
<1> QED BY <1>1, LedgerInitially, ShareInvHolds, PTL DEF Spec, ImplementsLedger, Ledger!LedgerSpec

----------------------------------------------------------------------------
(* The rows of the statistics table                                         *)

Rows(t) == {k \in Keys : t[k] # 0}

\* The clients whose submit is counted on its worker but not yet on overall.
Between(f) == {c \in Clients : sub[c].pc = "overall" /\ CounterOf(sub[c].verdict) = f}

\* There are as many rows as entries, a finite number.
LEMMA RowsAreFinite ==
  ASSUME StatsOK
  PROVE  IsFiniteSet(Rows(stats))
<1> DEFINE R == Rows(stats)
           I == 1 .. Len(work)
           g == [k \in R |-> stats[k]]
<1>1. IsFiniteSet(I)
  BY FS_Interval DEF StatsOK
<1>2. \A k \in R : stats[k] \in I
  BY DEF StatsOK, Rows
<1>3. \A k, l \in R : stats[k] = stats[l] => k = l
  BY <1>2 DEF StatsOK, StatsReachableOnce, Rows
<1> HIDE DEF R, I
<1>4. g \in Injection(R, I)
  BY <1>2, <1>3 DEF Injection, IsInjective
<1> HIDE DEF g
<1> QED BY <1>1, <1>4, FS_Injection DEF R

\* A row refers to an entry of numbers.
LEMMA RowsAreNumbers ==
  ASSUME StatsOK, NEW f \in Counters
  PROVE  \A k \in Rows(stats) : stats[k] \in 1 .. Len(work) /\ work[stats[k]][f] \in Int
<1> SUFFICES ASSUME NEW k \in Rows(stats)
             PROVE  stats[k] \in 1 .. Len(work) /\ work[stats[k]][f] \in Int
  OBVIOUS
<1>1. stats[k] \in 1 .. Len(work)
  BY DEF StatsOK, Rows
<1>2. work[stats[k]] \in [Counters -> Nat]
  BY <1>1 DEF StatsOK
<1> QED BY <1>1, <1>2

\* What the table sums up, before and after a step.
LEMMA TableTotal ==
  ASSUME NEW f \in Counters
  PROVE  /\ ReachableTotal(f) = Total(work, stats, f, Rows(stats))
         /\ ReachableTotal(f)' = Total(work', stats', f, Rows(stats'))
<1>1. ReachableTotal(f) = Total(work, stats, f, Rows(stats))
  BY Zenon DEF ReachableTotal, Total, Rows
<1>2. ReachableTotal(f)' = Total(work', stats', f, Rows(stats'))
  BY Zenon DEF ReachableTotal, Total, Rows, MapThenSumSet, MapThenFoldSet
<1> QED BY <1>1, <1>2

\* getCreateStats adds a row of zeros or moves a row: the sum stays.
LEMMA GetCreateStatsKeepsTotal ==
  ASSUME StatsOK, CtxOK, NEW c \in Clients, getCreateStats(c), NEW f \in Counters
  PROVE  ReachableTotal(f)' = ReachableTotal(f)
<1> DEFINE key == workerStatsKey(c)
           addr == AddrKey(c)
           n == Len(work)
           R == Rows(stats)
           Q == Rows(stats')
<1>1. key \in Keys /\ addr \in Keys
  BY KeysOfClient
<1>2. /\ work \in Seq([Counters -> Nat]) /\ n \in Nat
      /\ stats \in [Keys -> Nat] /\ \A k \in Keys : stats[k] <= n
  BY DEF StatsOK
<1>3. IF stats[key] # 0 THEN UNCHANGED <<stats, work>>
      ELSE IF stats[addr] # 0
      THEN /\ stats' = [stats EXCEPT ![addr] = 0, ![key] = stats[addr]]
           /\ UNCHANGED work
      ELSE /\ stats' = [stats EXCEPT ![key] = n + 1]
           /\ work' = Append(work, NoWork)
  BY DEF getCreateStats
<1>4. IsFiniteSet(R) /\ \A k \in R : stats[k] \in 1 .. n /\ work[stats[k]][f] \in Int
  BY RowsAreFinite, RowsAreNumbers
<1>5. StatsOK'
  BY GetCreateStatsKeepsStats
<1>6. IsFiniteSet(Q) /\ \A k \in Q : work'[stats'[k]][f] \in Int
  <2>1. IsFiniteSet(Rows(stats))'
    BY <1>5, RowsAreFinite, PTL
  <2>2. (\A k \in Rows(stats) : stats[k] \in 1 .. Len(work) /\ work[stats[k]][f] \in Int)'
    BY <1>5, RowsAreNumbers, PTL
  <2> QED BY <2>1, <2>2 DEF Rows
<1>7. \A k \in Keys : (k \in R <=> stats[k] # 0) /\ (k \in Q <=> stats'[k] # 0)
  BY DEF Rows
<1>8. R \subseteq Keys /\ Q \subseteq Keys
  BY DEF Rows
<1> SUFFICES Total(work', stats', f, Q) = Total(work, stats, f, R)
  BY TableTotal
<1> HIDE DEF key, addr, n, R, Q
<1>9. CASE stats[key] # 0
  <2>1. work' = work /\ stats' = stats
    BY <1>3, <1>9
  <2> QED BY <2>1 DEF R, Q
<1>10. CASE stats[key] = 0 /\ stats[addr] # 0
  <2> DEFINE E == R \ {addr}
  <2>1. /\ stats' = [stats EXCEPT ![addr] = 0, ![key] = stats[addr]]
        /\ work' = work /\ addr # key
    BY <1>3, <1>10
  <2>2. /\ stats'[key] = stats[addr] /\ stats'[addr] = 0
        /\ \A k \in Keys : k # key /\ k # addr => stats'[k] = stats[k]
    BY <1>1, <1>2, <2>1
  <2>3. Q \ {key} = E /\ key \in Q /\ addr \in R
    BY <1>1, <1>7, <1>8, <1>10, <2>1, <2>2
  <2>4. \A k \in E : work[stats[k]][f] \in Int /\ work'[stats'[k]][f] = work[stats[k]][f]
    BY <1>4, <1>7, <1>8, <1>10, <2>1, <2>2
  <2>5. IsFiniteSet(E)
    BY <1>4, FS_Subset
  <2> HIDE DEF E
  <2>6. Total(work', stats', f, E) = Total(work, stats, f, E)
    BY <2>4, <2>5, TotalsAgree
  <2>7. Total(work', stats', f, Q) = work'[stats'[key]][f] + Total(work', stats', f, E)
    BY <1>6, <2>3, TotalTakeOut
  <2>8. Total(work, stats, f, R) = work[stats[addr]][f] + Total(work, stats, f, E)
    <3>1. E = R \ {addr}
      BY DEF E
    <3> QED BY <1>4, <2>3, <3>1, TotalTakeOut
  <2> QED BY <2>1, <2>2, <2>6, <2>7, <2>8
<1>11. CASE stats[key] = 0 /\ stats[addr] = 0
  <2>1. stats' = [stats EXCEPT ![key] = n + 1] /\ work' = Append(work, NoWork)
    BY <1>3, <1>11
  <2>2. /\ stats'[key] = n + 1 /\ \A k \in Keys : k # key => stats'[k] = stats[k]
    BY <1>1, <1>2, <2>1
  <2>3. Q \ {key} = R /\ key \in Q
    <3>1. key \in Q /\ key \notin R
      BY <1>1, <1>2, <1>7, <1>11, <2>2
    <3>2. \A k \in Keys : k # key => (k \in Q <=> k \in R)
      BY <1>7, <2>2
    <3> QED BY <1>8, <3>1, <3>2
  <2>4. work'[n + 1] = NoWork /\ \A i \in 1 .. n : work'[i] = work[i]
    BY <1>2, <2>1 DEF n
  <2>5. \A k \in R : work[stats[k]][f] \in Int /\ work'[stats'[k]][f] = work[stats[k]][f]
    BY <1>4, <1>8, <2>2, <2>3, <2>4
  <2>6. Total(work', stats', f, R) = Total(work, stats, f, R)
    BY <1>4, <2>5, TotalsAgree
  <2>7. Total(work', stats', f, Q) = work'[stats'[key]][f] + Total(work', stats', f, R)
    BY <1>6, <2>3, TotalTakeOut
  <2>8. work'[stats'[key]][f] = 0
    BY <2>2, <2>4 DEF NoWork
  <2>9. Total(work, stats, f, R) \in Int
    BY <1>4, TotalType
  <2> QED BY <2>6, <2>7, <2>8, <2>9
<1> QED BY <1>9, <1>10, <1>11

\* Counting on an entry that exists raises the sum by one.
LEMMA TallyRaisesTotal ==
  ASSUME ShareInv, NEW c \in Clients, Tally(c), NEW f \in Counters
  PROVE  ReachableTotal(f)' = ReachableTotal(f)
                               + IF CounterOf(sub[c].verdict) = f THEN 1 ELSE 0
<1> DEFINE e == TallyEntry(sub[c])
           g == CounterOf(sub[c].verdict)
           R == Rows(stats)
           one == IF g = f THEN 1 ELSE 0
<1>1. StatsOK /\ work \in Seq([Counters -> Nat])
  BY DEF ShareInv, StatsOK
<1>2. e \in 1 .. Len(work)
  <2>1. sub[c] \in SubRecords /\ sub[c].pc = "tally"
    BY DEF ShareInv, SubOK, Tally
  <2>2. sub[c].stat \in 1 .. Len(work) /\ sub[c].blockStat <= Len(work)
    BY <2>1 DEF ShareInv, SubRefers, Counting
  <2>3. sub[c].blockStat \in Nat
    BY <2>1 DEF SubRecords
  <2> QED BY <2>2, <2>3 DEF TallyEntry
<1>3. work' = [work EXCEPT ![e][g] = @ + 1] /\ stats' = stats
  BY DEF Tally
<1>4. IsFiniteSet(R) /\ \A k \in R : stats[k] \in 1 .. Len(work) /\ work[stats[k]][f] \in Int
  BY <1>1, RowsAreFinite, RowsAreNumbers
<1>5. PICK x \in Keys : stats[x] = e /\ \A l \in Keys : stats[l] = e => l = x
  BY <1>1, <1>2 DEF StatsOK, StatsReachableOnce
<1>6. x \in R /\ R \subseteq Keys
  BY <1>2, <1>5 DEF Rows
<1> SUFFICES Total(work', stats', f, R) = Total(work, stats, f, R) + one
  BY <1>3, TableTotal
<1> HIDE DEF e, g, R
<1>7. /\ work'[e][f] = work[e][f] + one
      /\ \A i \in 1 .. Len(work) : i # e => work'[i] = work[i]
  <2>1. work[e] \in [Counters -> Nat]
    BY <1>1, <1>2
  <2>2. work'[e] = [work[e] EXCEPT ![g] = @ + 1]
    BY <1>1, <1>2, <1>3
  <2>3. work'[e][f] = work[e][f] + one
    BY <2>1, <2>2
  <2>4. \A i \in 1 .. Len(work) : i # e => work'[i] = work[i]
    BY <1>1, <1>2, <1>3
  <2> QED BY <2>3, <2>4
<1> HIDE DEF one
<1> DEFINE E == R \ {x}
<1>8. IsFiniteSet(E)
  BY <1>4, FS_Subset
<1>9. \A k \in E : work[stats[k]][f] \in Int /\ work'[stats'[k]][f] = work[stats[k]][f]
  BY <1>3, <1>4, <1>5, <1>6, <1>7
<1>10. \A k \in R : work'[stats'[k]][f] \in Int
  <2>1. work'[stats'[x]][f] \in Int
    BY <1>3, <1>4, <1>5, <1>6, <1>7 DEF one
  <2> QED BY <1>9, <2>1
<1>0. E = R \ {x}
  OBVIOUS
<1> HIDE DEF E
<1>11. Total(work, stats, f, R) = work[stats[x]][f] + Total(work, stats, f, E)
  BY <1>0, <1>4, <1>6, TotalTakeOut
<1>12. Total(work', stats', f, R) = work'[stats'[x]][f] + Total(work', stats', f, E)
  BY <1>0, <1>4, <1>6, <1>10, TotalTakeOut
<1>13. Total(work', stats', f, E) = Total(work, stats, f, E)
  BY <1>8, <1>9, TotalsAgree
<1>14. Total(work, stats, f, E) \in Int
  BY <1>8, <1>9, TotalType
<1>15. work[stats[x]][f] \in Int /\ work'[stats'[x]][f] = work[stats[x]][f] + one
  BY <1>3, <1>4, <1>5, <1>6, <1>7
<1> QED BY <1>11, <1>12, <1>13, <1>14, <1>15 DEF one

\* A set that differs from a finite one in at most one element.
LEMMA OneMember ==
  ASSUME NEW S, NEW T, NEW x, IsFiniteSet(S), T \ {x} = S \ {x}
  PROVE  /\ IsFiniteSet(T)
         /\ Cardinality(S) \in Nat
         /\ (x \in S <=> x \in T) => Cardinality(T) = Cardinality(S)
         /\ x \in T /\ x \notin S => Cardinality(T) = Cardinality(S) + 1
         /\ x \in S /\ x \notin T => Cardinality(S) = Cardinality(T) + 1
<1> DEFINE U == S \ {x}
<1>1. IsFiniteSet(U) /\ Cardinality(U) = IF x \in S THEN Cardinality(S) - 1 ELSE Cardinality(S)
  BY FS_RemoveElement
<1>2. T = U \/ T = U \union {x}
  OBVIOUS
<1>3. x \notin U
  OBVIOUS
<1>4. IsFiniteSet(T)
  BY <1>1, <1>2, FS_AddElement
<1>5. Cardinality(S) \in Nat /\ Cardinality(T) \in Nat
  BY <1>4, FS_CardinalityType
<1>6. Cardinality(T \ {x}) = IF x \in T THEN Cardinality(T) - 1 ELSE Cardinality(T)
  BY <1>4, FS_RemoveElement
<1>7. Cardinality(T \ {x}) = Cardinality(U)
  OBVIOUS
<1> HIDE DEF U
<1> QED BY <1>1, <1>4, <1>5, <1>6, <1>7

\* Tally and TallyOverall are the two increments; no other step enters or
\* leaves the place between them, or counts.
LEMMA BetweenFrame ==
  ASSUME ShareInv, NEW c \in Clients, Step(c)
  PROVE  \/ Tally(c) \/ TallyOverall(c)
         \/ /\ UNCHANGED overall
            /\ (sub'[c] = sub[c] \/ (sub[c].pc # "overall" /\ sub'[c].pc # "overall"))
<1> DEFINE Goal == /\ UNCHANGED overall
                   /\ (sub'[c] = sub[c] \/ (sub[c].pc # "overall" /\ sub'[c].pc # "overall"))
<1>1. sub \in [Clients -> SubRecords] /\ sub[c] \in SubRecords
  BY DEF ShareInv, SubOK
<1>4. Idle.pc = "idle"
  BY DEF Idle
<1>5. ASSUME NEW id \in JobIds, NEW x \in Nonces, Submit(c, id, x) PROVE Goal
  BY <1>1, <1>5 DEF Submit, Idle, statVars
<1>6. CASE SubmitMalformed(c)
  BY <1>1, <1>6 DEF SubmitMalformed, Idle, statVars
<1>7. CASE ResolveStats(c)
  BY <1>1, <1>7 DEF ResolveStats, SubRecords
<1>8. CASE LoadTip(c)
  BY <1>1, <1>8 DEF LoadTip, SubRecords, statVars
<1>9. CASE CasTip(c)
  BY <1>1, <1>9 DEF CasTip, Goto, SubRecords, statVars
<1>10. CASE TrackDupeShare(c)
  BY <1>1, <1>10 DEF TrackDupeShare, Goto, SubRecords, statVars
<1>11. CASE CheckPow(c)
  BY <1>1, <1>4, <1>11 DEF CheckPow, GivenUp, Idle, SubRecords, statVars
<1>12. ASSUME NEW a \in {"ok", "ErrDuplicateBlock", "error"}, SubmitBlock(c, a) PROVE Goal
  BY <1>1, <1>12 DEF SubmitBlock, SubRecords, statVars
<1>13. CASE ResolveBlockStats(c)
  BY <1>1, <1>13 DEF ResolveBlockStats, SubRecords
<1>14. CASE Reply(c)
  BY <1>1, <1>4, <1>14 DEF Reply, SubRecords, statVars
<1>15. ASSUME NEW a \in Wallets, AuthorizeWallet(c, a) PROVE Goal
  BY <1>1, <1>15 DEF AuthorizeWallet, Goto, SubRecords, statVars
<1>16. ASSUME NEW w \in Workers \union {Anonymous}, AuthorizeWorker(c, w) PROVE Goal
  BY <1>1, <1>16 DEF AuthorizeWorker, Goto, SubRecords, statVars
<1>17. CASE UNCHANGED <<sub, overall>>
  BY <1>17
<1> HIDE DEF Goal
<1> QED
  BY <1>5, <1>6, <1>7, <1>8, <1>9, <1>10, <1>11, <1>12, <1>13, <1>14, <1>15, <1>16, <1>17
     DEF Step, SubmitStep, Environment, BackgroundStats, DispatchBegin, DispatchEnd, DispatchFail,
         Disconnect, OnDisconnect, DispatchJob, DispatchDiff, shareVars, statVars, Goal

\* The sum and, for the cardinality to mean anything, that only finitely many
\* submits are between their increments.
RowsInv ==
  /\ RowsAddUp
  /\ \A f \in Counters : IsFiniteSet(Between(f))

\* A bridge that has just started has an empty table.
LEMMA RowsInvInit == Init => RowsInv
<1> SUFFICES ASSUME Init, NEW f \in Counters
             PROVE  ReachableTotal(f) = overall[f] + InFlight("overall", f) /\ IsFiniteSet(Between(f))
  BY DEF RowsInv, RowsAddUp
<1>1. Rows(stats) = {} /\ overall[f] = 0
  BY DEF Init, Rows, NoWork
<1>2. Between(f) = {}
  BY DEF Init, Between, Idle
<1>3. IsFiniteSet(Rows(stats)) /\ \A k \in Rows(stats) : work[stats[k]][f] \in Int
  BY <1>1, FS_EmptySet
<1>4. ReachableTotal(f) = 0
  <2>1. Total(work, stats, f, Rows(stats)) = 0
    BY <1>1, <1>3, TotalType
  <2> QED BY <2>1, TableTotal
<1>5. IsFiniteSet(Between(f)) /\ Cardinality(Between(f)) = 0
  BY <1>2, FS_EmptySet
<1>6. InFlight("overall", f) = Cardinality(Between(f))
  BY DEF InFlight, Between
<1> QED BY <1>1, <1>4, <1>5, <1>6

\* Every step keeps the rows adding up.
LEMMA RowsInvStep ==
  ASSUME ShareInv, RowsInv, NEW c \in Clients, Step(c)
  PROVE  RowsInv'
<1> SUFFICES ASSUME NEW f \in Counters
             PROVE  /\ ReachableTotal(f)' = overall'[f] + InFlight("overall", f)'
                    /\ IsFiniteSet(Between(f)')
  BY DEF RowsInv, RowsAddUp
<1> DEFINE S == Between(f)
           T == Between(f)'
           m == ReachableTotal(f)
           k == ReachableTotal(f)'
           g == CounterOf(sub[c].verdict)
           one == IF g = f THEN 1 ELSE 0
<1>1. IsFiniteSet(S) /\ m = overall[f] + Cardinality(S)
  BY DEF RowsInv, RowsAddUp, InFlight, Between
<1>2. InFlight("overall", f)' = Cardinality(T)
  BY DEF InFlight, Between
<1>3. T \ {c} = S \ {c}
  BY SubFrame DEF Between
<1>4. /\ c \in S <=> sub[c].pc = "overall" /\ g = f
      /\ c \in T <=> sub'[c].pc = "overall" /\ CounterOf(sub'[c].verdict) = f
  BY DEF Between
<1>5. overall \in [Counters -> Nat] /\ overall[f] \in Nat
  BY DEF ShareInv, CountsOK
<1>6. StatsOK /\ CtxOK /\ sub \in [Clients -> SubRecords] /\ sub[c] \in SubRecords
  BY DEF ShareInv, SubOK
<1>7. Tally(c) \/ k = m
  <2>1. CASE UNCHANGED <<stats, work>>
    BY <2>1, TableTotal
  <2>2. CASE getCreateStats(c)
    BY <1>6, <2>2, GetCreateStatsKeepsTotal
  <2> QED BY <2>1, <2>2, StatsFrame
<1>8. Tally(c) => k = m + one
  BY TallyRaisesTotal
<1> HIDE DEF S, T, m, k
<1>9. /\ IsFiniteSet(T) /\ Cardinality(S) \in Nat
      /\ (c \in S <=> c \in T) => Cardinality(T) = Cardinality(S)
      /\ c \in T /\ c \notin S => Cardinality(T) = Cardinality(S) + 1
      /\ c \in S /\ c \notin T => Cardinality(S) = Cardinality(T) + 1
  BY <1>1, <1>3, OneMember
<1> SUFFICES k = overall'[f] + Cardinality(T)
  BY <1>2, <1>9 DEF k, T
<1>10. CASE Tally(c)
  <2>1. sub[c].pc = "tally" /\ overall' = overall
    BY <1>10 DEF Tally
  <2>2. sub'[c] = [sub[c] EXCEPT !.pc = "overall"]
    BY <1>6, <1>10 DEF Tally, Goto
  <2>3. sub'[c].pc = "overall" /\ sub'[c].verdict = sub[c].verdict
    BY <1>6, <2>2 DEF SubRecords
  <2>4. c \notin S /\ (c \in T <=> g = f)
    BY <1>4, <2>1, <2>3
  <2> HIDE DEF g
  <2> QED BY <1>1, <1>5, <1>8, <1>9, <1>10, <2>1, <2>4
<1>11. CASE TallyOverall(c)
  <2>1. sub[c].pc = "overall" /\ overall' = [overall EXCEPT ![g] = @ + 1]
    BY <1>11 DEF TallyOverall
  <2>2. sub'[c].pc # "overall"
    BY <1>6, <1>11 DEF TallyOverall, SubRecords
  <2>3. (c \in S <=> g = f) /\ c \notin T /\ ~Tally(c)
    BY <1>4, <2>1, <2>2 DEF Tally
  <2> HIDE DEF g
  <2>4. overall'[f] = overall[f] + one
    BY <1>5, <2>1
  <2>5. Cardinality(T) \in Nat
    BY <1>9, FS_CardinalityType
  <2> QED BY <1>1, <1>5, <1>7, <1>9, <2>3, <2>4, <2>5
<1>12. CASE ~Tally(c) /\ ~TallyOverall(c)
  <2>1. /\ UNCHANGED overall
        /\ (sub'[c] = sub[c] \/ (sub[c].pc # "overall" /\ sub'[c].pc # "overall"))
    BY <1>12, BetweenFrame
  <2>2. c \in S <=> c \in T
    BY <1>4, <2>1
  <2> QED BY <1>1, <1>7, <1>9, <1>12, <2>1, <2>2
<1> QED BY <1>10, <1>11, <1>12

\* The worker rows of the statistics table add up to the total row, up to the
\* submits between their two increments: for any number of connections and
\* workers, whichever rows getCreateStats adds or moves while others count.
THEOREM TableAddsUp == Spec => []RowsAddUp
<1>1. Init => ShareInv /\ RowsInv
  BY ShareInvInit, RowsInvInit
<1>2. ShareInv /\ RowsInv /\ [Next]_vars => ShareInv' /\ RowsInv'
  <2> SUFFICES ASSUME ShareInv, RowsInv, [Next]_vars PROVE ShareInv' /\ RowsInv'
    OBVIOUS
  <2>1. ShareInv'
    BY ShareInvStep
  <2>2. ASSUME NEW c \in Clients, Step(c) PROVE RowsInv'
    BY <2>2, RowsInvStep
  <2>3. CASE UNCHANGED vars
    <3>1. UNCHANGED <<stats, work, overall, sub>>
      BY <2>3 DEF vars, shareVars
    <3> SUFFICES ASSUME NEW f \in Counters
                 PROVE  /\ ReachableTotal(f)' = overall'[f] + InFlight("overall", f)'
                        /\ IsFiniteSet(Between(f)')
      BY <2>1 DEF RowsInv, RowsAddUp
    <3>2. ReachableTotal(f)' = ReachableTotal(f)
      <4>1. ReachableTotal(f)' = Total(work, stats, f, Rows(stats))
        BY <3>1, TableTotal
      <4> QED BY <4>1, TableTotal
    <3>3. InFlight("overall", f)' = InFlight("overall", f) /\ Between(f)' = Between(f)
      BY <3>1 DEF InFlight, Between
    <3> QED BY <3>1, <3>2, <3>3 DEF RowsInv, RowsAddUp
  <2> QED BY <2>1, <2>2, <2>3 DEF Next, Step
<1>3. RowsInv => RowsAddUp
  BY DEF RowsInv
<1> QED BY <1>1, <1>2, <1>3, PTL DEF Spec
=============================================================================
