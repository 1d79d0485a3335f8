------------------------- MODULE JobDispatchProofs -------------------------
(***************************************************************************)
(* What holds of handing out jobs for any number of clients and of         *)
(* goroutines of NewBlockAvailable: a job has a difficulty in force, is    *)
(* stored under the id it is sent with, under one id only, and the mining  *)
(* state is used through its methods, so that what is proved of it alone   *)
(* holds here too.  Last, what holds when the goroutines of one client     *)
(* follow each other.                                                      *)
(***************************************************************************)
EXTENDS JobDispatch, TLAPS

----------------------------------------------------------------------------
(* The job ring of MiningState alone: it keeps exactly the last MaxJobs      *)
(* templates, for every ring size, number of clients and number of jobs.    *)

\* Job numbers that lie less than MaxJobs apart use different slots of the map
\* (the index expressions idx%maxjobs of AddJob and id%maxjobs of GetJob).
LEMMA SlotsDiffer ==
  ASSUME NEW m \in Nat, NEW n \in Nat, m < n, n < m + MaxJobs
  PROVE  m % MaxJobs # n % MaxJobs
<1>1. MaxJobs \in Nat /\ MaxJobs > 0
  BY MaxJobsAssumption
<1> DEFINE qm == m \div MaxJobs
           qn == n \div MaxJobs
<1>2. qm \in Int /\ qn \in Int
  BY <1>1
<1>3. m = MaxJobs * qm + (m % MaxJobs) /\ n = MaxJobs * qn + (n % MaxJobs)
  BY <1>1
<1>4. SUFFICES ASSUME m % MaxJobs = n % MaxJobs PROVE FALSE
  OBVIOUS
<1>5. n - m = MaxJobs * (qn - qm)
  <2>1. MaxJobs * (qn - qm) = MaxJobs * qn - MaxJobs * qm
    BY <1>1, <1>2
  <2> QED BY <1>3, <1>4, <2>1, <1>1, <1>2
<1>6. CASE qn - qm <= 0
  <2>1. MaxJobs * (qn - qm) <= 0
    BY <1>1, <1>2, <1>6
  <2> QED BY <1>5, <2>1
<1>7. CASE qn - qm >= 1
  <2>1. MaxJobs * (qn - qm) >= MaxJobs
    BY <1>1, <1>2, <1>7
  <2> QED BY <1>1, <1>5, <2>1
<1> QED BY <1>2, <1>6, <1>7

\* The slot of a job number is one of the slots of the ring.
LEMMA SlotInRing ==
  ASSUME NEW n \in Nat
  PROVE  n % MaxJobs \in Slots
BY MaxJobsAssumption DEF Slots
\* A job number and the one MaxJobs later use the same slot.
LEMMA SlotsRepeat ==
  ASSUME NEW n \in Nat
  PROVE  (n + MaxJobs) % MaxJobs = n % MaxJobs
<1>1. MaxJobs \in Nat /\ MaxJobs > 0
  BY MaxJobsAssumption
<1> DEFINE q == n \div MaxJobs
           p == (n + MaxJobs) \div MaxJobs
           r == n % MaxJobs
           t == (n + MaxJobs) % MaxJobs
<1>2. q \in Int /\ p \in Int /\ r \in 0 .. MaxJobs - 1 /\ t \in 0 .. MaxJobs - 1
  BY <1>1
<1>3. n = MaxJobs * q + r /\ n + MaxJobs = MaxJobs * p + t
  BY <1>1
<1>4. r - t = MaxJobs * (p - q - 1)
  <2>1. MaxJobs * (p - q - 1) = MaxJobs * p - MaxJobs * q - MaxJobs
    BY <1>1, <1>2
  <2>2. MaxJobs * p \in Int /\ MaxJobs * q \in Int
    BY <1>1, <1>2
  <2> HIDE DEF q, p, r, t
  <2> QED BY <1>1, <1>2, <1>3, <2>1, <2>2
<1> HIDE DEF q, p, r, t
<1>5. CASE p - q - 1 >= 1
  <2>1. MaxJobs * (p - q - 1) >= MaxJobs
    BY <1>1, <1>2, <1>5
  <2> QED BY <1>1, <1>2, <1>4, <2>1
<1>6. CASE p - q - 1 <= -1
  <2>1. MaxJobs * (p - q - 1) <= -MaxJobs
    BY <1>1, <1>2, <1>6
  <2> QED BY <1>1, <1>2, <1>4, <2>1
<1>7. CASE p - q - 1 = 0
  <2>1. MaxJobs * (p - q - 1) = 0
    BY <1>1, <1>7
  <2>2. r = t
    BY <1>2, <1>4, <2>1
  <2> QED BY <2>2 DEF r, t
<1> QED BY <1>2, <1>5, <1>6, <1>7

----------------------------------------------------------------------------
\* The inductive invariant: the id AddJob returns is the number of jobs issued,
\* and the ring is described slot by slot.
RingInv ==
  /\ MiningStateTypeOK
  /\ \A c \in Clients : jobCounter[c] = Len(issued[c])
  /\ \A c \in Clients : \A id \in 1 .. Len(issued[c]) :
       id > Len(issued[c]) - MaxJobs => jobs[c][id % MaxJobs] = issued[c][id]
  /\ RingHoldsOnlyRecentJobs

\* The ring starts empty.
LEMMA RingInvInit == MiningStateInit => RingInv
BY NoJobAssumption, MaxJobsAssumption
   DEF MiningStateInit, RingInv, MiningStateTypeOK, RingHoldsOnlyRecentJobs,
       Slots, NoDiff

\* AddJob overwrites one slot: that of the job MaxJobs before the new one.
LEMMA AddJobKeepsRing ==
  ASSUME RingInv, NEW c \in Clients, NEW b \in Blocks, AddJob(c, b),
         UNCHANGED diffVars
  PROVE  RingInv'
<1> DEFINE L == Len(issued[c])
           idx == jobCounter[c] + 1
           slot == idx % MaxJobs
<1>1. MaxJobs \in Nat /\ MaxJobs > 0 /\ NoJob \notin Blocks
  BY MaxJobsAssumption, NoJobAssumption
<1>2. L \in Nat /\ jobCounter[c] = L /\ idx = L + 1 /\ issued[c] \in Seq(Blocks)
  BY DEF RingInv, MiningStateTypeOK
<1>3. slot \in Slots
  BY <1>2, SlotInRing
<1>4. /\ issued' = [issued EXCEPT ![c] = Append(@, b)]
      /\ jobs' = [jobs EXCEPT ![c] = [@ EXCEPT ![slot] = b]]
      /\ jobCounter' = [jobCounter EXCEPT ![c] = idx]
  BY DEF AddJob
<1>5. /\ issued'[c] = Append(issued[c], b)
      /\ Len(issued'[c]) = L + 1
      /\ issued'[c][L + 1] = b
      /\ \A i \in 1 .. L : issued'[c][i] = issued[c][i]
  BY <1>2, <1>4 DEF RingInv, MiningStateTypeOK
<1>6. /\ jobs'[c][slot] = b
      /\ \A s \in Slots : s # slot => jobs'[c][s] = jobs[c][s]
  BY <1>3, <1>4 DEF RingInv, MiningStateTypeOK
<1>7. \A d \in Clients : d # c =>
        issued'[d] = issued[d] /\ jobs'[d] = jobs[d] /\ jobCounter'[d] = jobCounter[d]
  BY <1>4 DEF RingInv, MiningStateTypeOK
<1>8. MiningStateTypeOK'
  BY <1>2, <1>3, <1>4 DEF RingInv, MiningStateTypeOK, diffVars
<1>9. \A d \in Clients : jobCounter'[d] = Len(issued'[d])
  BY <1>2, <1>4, <1>5, <1>7 DEF RingInv, MiningStateTypeOK
<1>10. \A d \in Clients : \A id \in 1 .. Len(issued'[d]) :
         id > Len(issued'[d]) - MaxJobs => jobs'[d][id % MaxJobs] = issued'[d][id]
  <2> SUFFICES ASSUME NEW d \in Clients, NEW id \in 1 .. Len(issued'[d]),
                      id > Len(issued'[d]) - MaxJobs
               PROVE  jobs'[d][id % MaxJobs] = issued'[d][id]
    OBVIOUS
  <2>1. CASE d # c
    BY <1>7, <2>1 DEF RingInv
  <2>2. CASE d = c /\ id = L + 1
    BY <1>2, <1>5, <1>6, <2>2
  <2>3. CASE d = c /\ id # L + 1
    <3>0. Len(issued'[d]) = L + 1
      BY <1>5, <2>3
    <3>1. id \in 1 .. L /\ id > L + 1 - MaxJobs /\ id > L - MaxJobs
      <4> HIDE DEF L
      <4> QED BY <1>1, <1>2, <2>3, <3>0
    <3>2. id % MaxJobs # slot /\ id % MaxJobs \in Slots
      <4>1. id \in Nat /\ idx \in Nat /\ id < idx /\ idx < id + MaxJobs
        BY <1>1, <1>2, <3>1
      <4> HIDE DEF L, idx
      <4> QED BY <4>1, SlotsDiffer, SlotInRing
    <3>3. jobs[c][id % MaxJobs] = issued[c][id]
      BY <3>1 DEF RingInv
    <3> QED BY <1>5, <1>6, <2>3, <3>1, <3>2, <3>3
  <2> QED BY <2>1, <2>2, <2>3
<1>11. RingHoldsOnlyRecentJobs'
  <2> SUFFICES ASSUME NEW d \in Clients, NEW s \in Slots
               PROVE  IF jobs'[d][s] = NoJob
                        THEN \A id \in 1 .. Len(issued'[d]) : id % MaxJobs # s
                        ELSE \E id \in 1 .. Len(issued'[d]) :
                               /\ id > Len(issued'[d]) - MaxJobs
                               /\ id % MaxJobs = s
                               /\ jobs'[d][s] = issued'[d][id]
    BY DEF RingHoldsOnlyRecentJobs, Slots
  <2>1. CASE d # c
    BY <1>7, <2>1 DEF RingInv, RingHoldsOnlyRecentJobs
  <2>2. CASE d = c /\ s = slot
    <3>1. jobs'[c][s] = b /\ b # NoJob
      BY <1>1, <1>6, <2>2
    <3>2. /\ L + 1 \in 1 .. Len(issued'[c])
          /\ L + 1 > Len(issued'[c]) - MaxJobs
          /\ (L + 1) % MaxJobs = s
          /\ issued'[c][L + 1] = b
      <4> HIDE DEF L
      <4> QED BY <1>1, <1>2, <1>5, <2>2
    <3> QED BY <2>2, <3>1, <3>2
  <2>3. CASE d = c /\ s # slot /\ jobs[c][s] = NoJob
    BY <1>2, <1>5, <1>6, <2>3 DEF RingInv, RingHoldsOnlyRecentJobs
  <2>4. CASE d = c /\ s # slot /\ jobs[c][s] # NoJob
    <3>1. PICK id \in 1 .. L : /\ id > L - MaxJobs
                               /\ id % MaxJobs = s
                               /\ jobs[c][s] = issued[c][id]
      BY <2>4 DEF RingInv, RingHoldsOnlyRecentJobs
    <3>2. id # L + 1 - MaxJobs
      <4> SUFFICES ASSUME id = L + 1 - MaxJobs PROVE FALSE
        OBVIOUS
      <4>1. id \in Nat /\ idx = id + MaxJobs
        BY <1>1, <1>2
      <4> QED BY <2>4, <3>1, <4>1, SlotsRepeat
    <3>3. id \in 1 .. L + 1 /\ id > L + 1 - MaxJobs
      BY <1>1, <1>2, <3>1, <3>2
    <3>4. jobs'[c][s] = issued'[c][id] /\ jobs'[c][s] # NoJob
      BY <1>5, <1>6, <2>4, <3>1
    <3>5. id \in 1 .. Len(issued'[c]) /\ id > Len(issued'[c]) - MaxJobs
      <4> HIDE DEF L
      <4> QED BY <1>1, <1>2, <1>5, <3>3
    <3> QED BY <2>4, <3>1, <3>4, <3>5
  <2> QED BY <2>1, <2>2, <2>3, <2>4
<1> QED BY <1>8, <1>9, <1>10, <1>11 DEF RingInv

\* The other methods touch neither the ring nor the issued jobs.
LEMMA DiffStepKeepsRing ==
  ASSUME RingInv, UNCHANGED ringVars, MiningStateTypeOK'
  PROVE  RingInv'
BY DEF RingInv, ringVars, RingHoldsOnlyRecentJobs, Slots

\* Whatever order the goroutines call the methods in, the state keeps its type,
\* the last MaxJobs job ids all find their own template, and the ring holds
\* nothing else.
THEOREM RingIsExact ==
  MiningStateSpec => [](MiningStateTypeOK /\ RecentJobsKeepTheirTemplate
                          /\ RingHoldsOnlyRecentJobs)
<1>1. RingInv /\ [MiningStateNext]_miningStateVars => RingInv'
  <2> SUFFICES ASSUME RingInv, [MiningStateNext]_miningStateVars PROVE RingInv'
    OBVIOUS
  <2>1. ASSUME NEW c \in Clients, NEW b \in Blocks, AddJob(c, b), UNCHANGED diffVars
        PROVE  RingInv'
    BY <2>1, AddJobKeepsRing
  <2>2. ASSUME NEW c \in Clients, NEW b \in Blocks, SetNetworkTarget(c, b),
               UNCHANGED ringVars
        PROVE  RingInv'
    <3>1. MiningStateTypeOK'
      BY <2>2, NetworkTargetAssumption
         DEF SetNetworkTarget, ringVars, RingInv, MiningStateTypeOK
    <3> QED BY <2>2, <3>1, DiffStepKeepsRing
  <2>3. ASSUME NEW c \in Clients, NEW d \in Diffs, InitializeIfNeeded(c, d),
               UNCHANGED <<ringVars, bigDiff>>
        PROVE  RingInv'
    <3>1. MiningStateTypeOK'
      BY <2>3 DEF InitializeIfNeeded, ringVars, RingInv, MiningStateTypeOK
    <3> QED BY <2>3, <3>1, DiffStepKeepsRing
  <2>4. ASSUME NEW c \in Clients, NEW d \in Diffs, SetStratumDiff(c, d),
               UNCHANGED ringVars
        PROVE  RingInv'
    <3>1. MiningStateTypeOK'
      BY <2>4 DEF SetStratumDiff, ringVars, RingInv, MiningStateTypeOK
    <3> QED BY <2>4, <3>1, DiffStepKeepsRing
  <2>5. CASE UNCHANGED miningStateVars
    <3>1. UNCHANGED ringVars /\ MiningStateTypeOK'
      BY <2>5 DEF miningStateVars, ringVars, RingInv, MiningStateTypeOK
    <3> QED BY <3>1, DiffStepKeepsRing
  <2> QED BY <2>1, <2>2, <2>3, <2>4, <2>5 DEF MiningStateNext
<1>2. RingInv => RecentJobsKeepTheirTemplate
  <2> SUFFICES ASSUME RingInv, NEW c \in Clients, NEW id \in 1 .. Len(issued[c]),
                      id > Len(issued[c]) - MaxJobs
               PROVE  GetJob(c, id) = issued[c][id]
    BY DEF RecentJobsKeepTheirTemplate
  <2>1. id \in Nat /\ id >= 0 /\ id % MaxJobs \in Slots
    BY SlotInRing DEF RingInv, MiningStateTypeOK
  <2>2. jobs[c][id % MaxJobs] = issued[c][id]
    BY DEF RingInv
  <2> QED BY <2>1, <2>2 DEF GetJob, GoRem
<1> QED BY <1>1, <1>2, RingInvInit, PTL DEF MiningStateSpec, RingInv

----------------------------------------------------------------------------
(* Handing out jobs                                                         *)

GoRecords == [pc : GoPcs, client : Clients \union {Empty},
              addr : Wallets \union {Empty}, block : Blocks \union {NoJob},
              varDiff : Diffs \union {0}, job : Nat]

\* What ctx.WorkerName may be.
Names == Workers \union {Empty, Anonymous}

\* The part of the types the argument needs.
TargetTypes ==
  /\ jobCounter \in [Clients -> Nat]
  /\ initialized \subseteq Clients
  /\ stratumDiff \in [Clients -> Diffs \union {NoDiff}]
  /\ minDiff \in [Keys -> Diffs \union {0}]
  /\ wallet \in [Clients -> Wallets \union {Empty}]
  /\ worker \in [Clients -> Names]
  /\ go \in [Goroutines -> GoRecords]

HasClient == GoPcs \ {"idle"}
HasBlock == HasClient \ {"addr", "template"}
AfterInit == HasBlock \ {"init"}

\* What a goroutine has seen to by the time it reaches a program counter.
GoodGo(r) ==
  /\ r.pc \in HasClient => r.client \in Clients
  /\ r.pc \in HasBlock => r.block \in Blocks
  /\ r.pc \in AfterInit => r.client \in initialized
  /\ r.pc = "setDiff" => r.varDiff # 0

\* The inductive invariant.
TargetInv ==
  /\ TargetTypes
  /\ \A g \in Goroutines : GoodGo(go[g])
  /\ \A c \in initialized : stratumDiff[c] # NoDiff
  /\ \A c \in Clients : jobCounter[c] > 0 => c \in initialized

\* Every client has a worker key.
LEMMA KeysAreKeys ==
  ASSUME TargetInv, NEW c \in Clients
  PROVE  workerStatsKey(c) \in Keys
<1>1. wallet[c] \in Wallets \union {Empty} /\ worker[c] \in Names
  BY DEF TargetInv, TargetTypes
<1> QED BY <1>1 DEF workerStatsKey, KeyOf, Keys, Names

\* The names a client authorizes with.
LEMMA IdentityTypes ==
  ASSUME NEW c \in Clients, NEW i \in Identities[c]
  PROVE  i[1] \in Wallets
BY DispatchIdentitiesAssumption

\* An assignment to the identity of a client keeps its type.
LEMMA AssignTypes ==
  ASSUME TargetInv, NEW c \in Clients, NEW a \in Wallets \union {Empty}, NEW w \in Names,
         Assign(c, a, w)
  PROVE  wallet' \in [Clients -> Wallets \union {Empty}] /\ worker' \in [Clients -> Names]
BY DEF Assign, TargetInv, TargetTypes

\* At the start no goroutine runs and no client is initialised.
LEMMA TargetInvInit == Init => TargetInv
<1> SUFFICES ASSUME Init PROVE TargetInv
  OBVIOUS
<1>1. TargetTypes
  BY DEF Init, MiningStateInit, TargetTypes, IdleGo, GoRecords, GoPcs, NoDiff, Names
<1>2. \A g \in Goroutines : GoodGo(go[g])
  BY DEF Init, IdleGo, GoodGo, HasClient, HasBlock, AfterInit
<1> QED BY <1>1, <1>2 DEF Init, MiningStateInit, TargetInv

\* A step of one goroutine that leaves the difficulty and the counter alone.
LEMMA GoStep ==
  ASSUME TargetInv, NEW g \in Goroutines, NEW r \in GoRecords,
         go' = [go EXCEPT ![g] = r], GoodGo(r),
         UNCHANGED <<jobCounter, initialized, stratumDiff>>,
         minDiff' \in [Keys -> Diffs \union {0}],
         wallet' \in [Clients -> Wallets \union {Empty}], worker' \in [Clients -> Names]
  PROVE  TargetInv'
<1>1. TargetTypes'
  BY DEF TargetInv, TargetTypes
<1>2. ASSUME NEW h \in Goroutines PROVE GoodGo(go[h])'
  BY DEF TargetInv, TargetTypes, GoodGo
<1> QED BY <1>1, <1>2 DEF TargetInv

\* A step of another goroutine that leaves the difficulty and the counter alone.
LEMMA OtherStep ==
  ASSUME TargetInv, UNCHANGED <<go, jobCounter, initialized, stratumDiff>>,
         minDiff' \in [Keys -> Diffs \union {0}],
         wallet' \in [Clients -> Wallets \union {Empty}], worker' \in [Clients -> Names]
  PROVE  TargetInv'
BY DEF TargetInv, TargetTypes, GoodGo

\* A difficulty is set: never 0.
LEMMA DiffStep ==
  ASSUME TargetInv, NEW c \in Clients, NEW d \in Diffs,
         stratumDiff' = [stratumDiff EXCEPT ![c] = d],
         initialized' \in {initialized, initialized \union {c}},
         go' \in [Goroutines -> GoRecords],
         \A g \in Goroutines : GoodGo(go[g])',
         UNCHANGED <<jobCounter, minDiff, wallet, worker>>
  PROVE  TargetInv'
BY DiffsAssumption DEF TargetInv, TargetTypes, NoDiff

\* The types of a goroutine's record and of what GoStep asks for.
LEMMA GoTypes ==
  ASSUME TargetInv, NEW g \in Goroutines
  PROVE  /\ go[g] \in GoRecords /\ GoodGo(go[g])
         /\ minDiff \in [Keys -> Diffs \union {0}]
         /\ wallet \in [Clients -> Wallets \union {Empty}] /\ worker \in [Clients -> Names]
BY DEF TargetInv, TargetTypes

\* Only the program counter moves, and not to a place that claims more.
LEMMA PcStep ==
  ASSUME TargetInv, NEW g \in Goroutines, NEW pc \in GoPcs, Step(g, pc),
         pc \in HasClient => go[g].pc \in HasClient,
         pc \in HasBlock => go[g].pc \in HasBlock,
         pc \in AfterInit => go[g].pc \in AfterInit,
         pc = "setDiff" => go[g].varDiff # 0,
         UNCHANGED <<jobCounter, initialized, stratumDiff, wallet, worker>>,
         minDiff' \in [Keys -> Diffs \union {0}]
  PROVE  TargetInv'
<1> DEFINE r == [go[g] EXCEPT !.pc = pc]
<1>1. go[g] \in GoRecords /\ GoodGo(go[g])
      /\ wallet \in [Clients -> Wallets \union {Empty}] /\ worker \in [Clients -> Names]
  BY GoTypes
<1>2. r \in GoRecords /\ go' = [go EXCEPT ![g] = r]
  BY <1>1 DEF Step, GoRecords
<1>3. GoodGo(r)
  BY <1>1 DEF GoodGo, GoRecords
<1> HIDE DEF r
<1> QED BY <1>1, <1>2, <1>3, GoStep

\* A goroutine ends.
LEMMA FinishStep ==
  ASSUME TargetInv, NEW g \in Goroutines, Finish(g),
         UNCHANGED <<jobCounter, initialized, stratumDiff, minDiff>>,
         wallet' \in [Clients -> Wallets \union {Empty}], worker' \in [Clients -> Names]
  PROVE  TargetInv'
<1>1. IdleGo \in GoRecords
  BY DEF IdleGo, GoRecords, GoPcs
<1>2. GoodGo(IdleGo)
  BY DEF IdleGo, GoodGo, HasClient, HasBlock, AfterInit
<1>3. minDiff \in [Keys -> Diffs \union {0}]
  BY GoTypes
<1> QED BY <1>1, <1>2, <1>3, GoStep DEF Finish

\* The steps up to the initialisation of the mining state.
LEMMA EarlyStepKeepsInv ==
  ASSUME TargetInv, NEW g \in Goroutines,
         \/ \E c \in Clients : Spawn(g, c)
         \/ ReadAddr(g)
         \/ \E b \in Blocks : FetchTemplate(g, b)
         \/ \E bad \in BOOLEAN : FetchFails(g, bad)
         \/ SerializeFails(g)
         \/ InitState(g)
  PROVE  TargetInv'
<1>1. /\ go[g] \in GoRecords /\ GoodGo(go[g])
      /\ minDiff \in [Keys -> Diffs \union {0}]
      /\ wallet \in [Clients -> Wallets \union {Empty}] /\ worker \in [Clients -> Names]
  BY GoTypes
<1>2. ASSUME NEW c \in Clients, Spawn(g, c)
      PROVE  TargetInv'
  <2> DEFINE r == [IdleGo EXCEPT !.pc = "addr", !.client = c]
  <2>1. go' = [go EXCEPT ![g] = r] /\ r \in GoRecords
    BY <1>2 DEF Spawn, IdleGo, GoRecords, GoPcs
  <2>2. GoodGo(r)
    BY DEF IdleGo, GoodGo, HasClient, HasBlock, AfterInit
  <2>3. UNCHANGED <<jobCounter, initialized, stratumDiff, minDiff, wallet, worker>>
    BY <1>2 DEF Spawn, miningStateVars, vardiffVars, ctxVars, identityVars, channelVars
  <2> HIDE DEF r
  <2> QED BY <1>1, <2>1, <2>2, <2>3, GoStep
<1>3. CASE ReadAddr(g)
  <2> DEFINE r == [go[g] EXCEPT !.addr = wallet[go[g].client], !.pc = "template"]
  <2>1. go' = [go EXCEPT ![g] = r] /\ go[g].pc = "addr"
    BY <1>3 DEF ReadAddr
  <2>2. go[g].client \in Clients
    BY <1>1, <2>1 DEF GoodGo, HasClient, GoPcs
  <2>3. r \in GoRecords /\ GoodGo(r)
    BY <1>1, <2>2 DEF GoRecords, GoodGo, HasClient, HasBlock, AfterInit, GoPcs
  <2>4. UNCHANGED <<jobCounter, initialized, stratumDiff, minDiff, wallet, worker>>
    BY <1>3 DEF ReadAddr, miningStateVars, vardiffVars, ctxVars, identityVars, channelVars
  <2> HIDE DEF r
  <2> QED BY <1>1, <2>1, <2>3, <2>4, GoStep
<1>4. ASSUME NEW b \in Blocks, FetchTemplate(g, b)
      PROVE  TargetInv'
  <2> DEFINE r == [go[g] EXCEPT !.block = b, !.pc = "init"]
  <2>1. go' = [go EXCEPT ![g] = r] /\ go[g].pc = "template"
    BY <1>4 DEF FetchTemplate
  <2>2. r \in GoRecords /\ GoodGo(r)
    BY <1>1, <2>1 DEF GoRecords, GoodGo, HasClient, HasBlock, AfterInit, GoPcs
  <2>3. UNCHANGED <<jobCounter, initialized, stratumDiff, minDiff, wallet, worker>>
    BY <1>4 DEF FetchTemplate, SetNetworkTarget, ringVars, vardiffVars, ctxVars, identityVars, channelVars
  <2> HIDE DEF r
  <2> QED BY <1>1, <2>1, <2>2, <2>3, GoStep
<1>5. ASSUME NEW bad \in BOOLEAN, FetchFails(g, bad)
      PROVE  TargetInv'
  <2>1. Finish(g) /\ UNCHANGED <<jobCounter, initialized, stratumDiff, minDiff, wallet, worker>>
    BY <1>5 DEF FetchFails, miningStateVars, vardiffVars, identityVars
  <2> QED BY <1>1, <2>1, FinishStep
<1>6. CASE SerializeFails(g)
  <2>1. Finish(g) /\ UNCHANGED <<jobCounter, initialized, stratumDiff, minDiff, wallet, worker>>
    BY <1>6 DEF SerializeFails, miningStateVars, vardiffVars, ctxVars, identityVars, channelVars
  <2> QED BY <1>1, <2>1, FinishStep
<1>7. CASE InitState(g)
  <2> DEFINE c == go[g].client
  <2>1. go[g].pc = "init" /\ c \in Clients
    BY <1>1, <1>7 DEF InitState, GoodGo, HasClient, GoPcs
  <2>2. CASE c \in initialized
    <3> DEFINE r == [go[g] EXCEPT !.pc = "varDiff"]
    <3>1. go' = [go EXCEPT ![g] = r]
      BY <1>7, <2>2 DEF InitState, Step
    <3>2. r \in GoRecords /\ GoodGo(r)
      BY <1>1, <2>1, <2>2 DEF GoRecords, GoodGo, HasClient, HasBlock, AfterInit, GoPcs
    <3>3. UNCHANGED <<jobCounter, initialized, stratumDiff, minDiff, wallet, worker>>
      BY <1>7, <2>2 DEF InitState, InitializeIfNeeded, ringVars, vardiffVars, ctxVars, identityVars, channelVars
    <3> HIDE DEF r
    <3> QED BY <1>1, <3>1, <3>2, <3>3, GoStep
  <2>3. CASE c \notin initialized
    <3> DEFINE r == [go[g] EXCEPT !.pc = "setVarDiff"]
    <3>1. /\ go' = [go EXCEPT ![g] = r]
          /\ stratumDiff' = [stratumDiff EXCEPT ![c] = MinShareDiff]
          /\ initialized' = initialized \union {c}
          /\ UNCHANGED <<jobCounter, minDiff, wallet, worker>>
      BY <1>7, <2>3 DEF InitState, InitializeIfNeeded, Step, ringVars, vardiffVars, ctxVars, identityVars, channelVars
    <3>2. r \in GoRecords /\ r.client = c /\ r.pc = "setVarDiff"
      BY <1>1 DEF GoRecords, GoPcs
    <3>3. r.block \in Blocks
      BY <1>1, <2>1 DEF GoRecords, GoodGo, HasBlock, HasClient, GoPcs
    <3> HIDE DEF r
    <3>4. go' \in [Goroutines -> GoRecords] /\ go'[g] = r
          /\ \A h \in Goroutines : h # g => go'[h] = go[h]
      BY <3>1, <3>2 DEF TargetInv, TargetTypes
    <3>5. ASSUME NEW h \in Goroutines PROVE GoodGo(go[h])'
      <4>1. CASE h = g
        BY <2>1, <3>1, <3>2, <3>3, <3>4, <4>1 DEF GoodGo
      <4>2. CASE h # g
        <5>1. GoodGo(go[h])
          BY GoTypes
        <5> QED BY <3>1, <3>4, <4>2, <5>1 DEF GoodGo
      <4> QED BY <4>1, <4>2
    <3> HIDE DEF c
    <3> QED BY <2>1, <3>1, <3>4, <3>5, DiffStep, DispatchMinShareDiffAssumption
  <2> QED BY <2>2, <2>3
<1> QED BY <1>2, <1>3, <1>4, <1>5, <1>6, <1>7

\* The steps that bring the difficulty up to date.
LEMMA DiffStepsKeepInv ==
  ASSUME TargetInv, NEW g \in Goroutines,
         \/ SetInitialVarDiff(g)
         \/ \E x \in SendResults : SendInitialDiff(g, x)
         \/ ReadVarDiff(g)
         \/ Compare(g)
         \/ ApplyDiff(g)
         \/ \E x \in SendResults : SendDiff(g, x)
         \/ StartTracker(g)
  PROVE  TargetInv'
<1>1. /\ go[g] \in GoRecords /\ GoodGo(go[g])
      /\ minDiff \in [Keys -> Diffs \union {0}]
      /\ wallet \in [Clients -> Wallets \union {Empty}] /\ worker \in [Clients -> Names]
  BY GoTypes
<1>2. {"setVarDiff", "sendInitial", "varDiff", "compare", "setDiff", "sendDiff",
       "startTracker", "addJob"} \subseteq GoPcs \intersect AfterInit
  BY DEF GoPcs, AfterInit, HasBlock, HasClient
<1>3. AfterInit \subseteq HasBlock /\ HasBlock \subseteq HasClient
  BY DEF AfterInit, HasBlock
<1>4. CASE SetInitialVarDiff(g)
  <2>1. /\ go[g].pc = "setVarDiff"
        /\ Step(g, "sendInitial") \/ Step(g, "varDiff")
        /\ minDiff' = [minDiff EXCEPT ![workerStatsKey(go[g].client)] = MinShareDiff]
        /\ UNCHANGED <<jobCounter, initialized, stratumDiff, wallet, worker>>
    BY <1>4 DEF SetInitialVarDiff, setClientVardiff, miningStateVars, ctxVars, identityVars, channelVars
  <2>2. minDiff' \in [Keys -> Diffs \union {0}]
    BY <1>1, <2>1, DispatchMinShareDiffAssumption
  <2>3. CASE Step(g, "sendInitial")
    BY <1>2, <1>3, <2>1, <2>2, <2>3, PcStep
  <2>4. CASE Step(g, "varDiff")
    BY <1>2, <1>3, <2>1, <2>2, <2>4, PcStep
  <2> QED BY <2>1, <2>3, <2>4
<1>5. ASSUME NEW x \in SendResults, SendInitialDiff(g, x)
      PROVE  TargetInv'
  <2>1. /\ go[g].pc = "sendInitial" /\ Step(g, "varDiff")
        /\ UNCHANGED <<jobCounter, initialized, stratumDiff, wallet, worker, minDiff>>
    BY <1>5 DEF SendInitialDiff, miningStateVars, ctxVars, identityVars, channelVars, vardiffVars
  <2> QED BY <1>1, <1>2, <1>3, <2>1, PcStep
<1>6. CASE ReadVarDiff(g)
  <2> DEFINE d == IF SoloMining THEN TargetToDiff(NetworkTarget[go[g].block])
                  ELSE minDiff[workerStatsKey(go[g].client)]
             r == [go[g] EXCEPT !.varDiff = d, !.pc = "compare"]
  <2>1. /\ go[g].pc = "varDiff" /\ go' = [go EXCEPT ![g] = r]
        /\ UNCHANGED <<jobCounter, initialized, stratumDiff, wallet, worker, minDiff>>
    BY <1>6 DEF ReadVarDiff, miningStateVars, ctxVars, identityVars, channelVars, vardiffVars
  <2>2. go[g].client \in initialized /\ go[g].client \in Clients /\ go[g].block \in Blocks
    BY <1>1, <1>2, <1>3, <2>1 DEF GoodGo
  <2>3. d \in Diffs \union {0}
    BY <1>1, <2>2, KeysAreKeys, NetDiffAssumption, SoloMiningAssumption DEF TargetToDiff
  <2> HIDE DEF d
  <2>4. r \in GoRecords /\ r.pc = "compare" /\ r.client = go[g].client /\ r.block = go[g].block
    BY <1>1, <1>2, <2>3 DEF GoRecords
  <2> HIDE DEF r
  <2>5. GoodGo(r)
    BY <2>2, <2>4 DEF GoodGo
  <2> QED BY <1>1, <2>1, <2>4, <2>5, GoStep
<1>7. CASE Compare(g)
  <2>1. /\ go[g].pc = "compare"
        /\ Step(g, "addJob") \/ (Step(g, "setDiff") /\ go[g].varDiff # 0)
        /\ UNCHANGED <<jobCounter, initialized, stratumDiff, wallet, worker, minDiff>>
    BY <1>7 DEF Compare, miningStateVars, ctxVars, identityVars, channelVars, vardiffVars
  <2>2. CASE Step(g, "addJob")
    BY <1>1, <1>2, <1>3, <2>1, <2>2, PcStep
  <2>3. CASE Step(g, "setDiff") /\ go[g].varDiff # 0
    BY <1>1, <1>2, <1>3, <2>1, <2>3, PcStep
  <2> QED BY <2>1, <2>2, <2>3
<1>8. CASE ApplyDiff(g)
  <2> DEFINE c == go[g].client
             d == go[g].varDiff
             r == [go[g] EXCEPT !.pc = "sendDiff"]
  <2>1. /\ go[g].pc = "setDiff" /\ go' = [go EXCEPT ![g] = r]
        /\ stratumDiff' = [stratumDiff EXCEPT ![c] = d]
        /\ UNCHANGED <<jobCounter, initialized, minDiff, wallet, worker>>
    BY <1>8 DEF ApplyDiff, SetStratumDiff, Step, ringVars, ctxVars, identityVars, channelVars, vardiffVars
  <2>2. c \in initialized /\ c \in Clients /\ go[g].block \in Blocks /\ d # 0
    BY <1>1, <1>2, <1>3, <2>1 DEF GoodGo
  <2>3. d \in Diffs
    BY <1>1, <2>2 DEF GoRecords
  <2>4. r \in GoRecords /\ r.pc = "sendDiff" /\ r.client = c /\ r.block = go[g].block
    BY <1>1, <1>2 DEF GoRecords
  <2> HIDE DEF c, d, r
  <2>5. go' \in [Goroutines -> GoRecords] /\ go'[g] = r
        /\ \A h \in Goroutines : h # g => go'[h] = go[h]
    BY <2>1, <2>4 DEF TargetInv, TargetTypes
  <2>6. ASSUME NEW h \in Goroutines PROVE GoodGo(go[h])'
    <3>1. CASE h = g
      BY <2>1, <2>2, <2>4, <2>5, <3>1 DEF GoodGo
    <3>2. CASE h # g
      <4>1. GoodGo(go[h])
        BY GoTypes
      <4> QED BY <2>1, <2>5, <3>2, <4>1 DEF GoodGo
    <3> QED BY <3>1, <3>2
  <2> QED BY <2>1, <2>2, <2>3, <2>5, <2>6, DiffStep
<1>9. ASSUME NEW x \in SendResults, SendDiff(g, x)
      PROVE  TargetInv'
  <2>1. /\ go[g].pc = "sendDiff"
        /\ Step(g, "startTracker") \/ Finish(g)
        /\ UNCHANGED <<jobCounter, initialized, stratumDiff, wallet, worker, minDiff>>
    BY <1>9 DEF SendDiff, Abort, miningStateVars, ctxVars, identityVars, channelVars, vardiffVars
  <2>2. CASE Step(g, "startTracker")
    BY <1>1, <1>2, <1>3, <2>1, <2>2, PcStep
  <2>3. CASE Finish(g)
    BY <1>1, <2>1, <2>3, FinishStep
  <2> QED BY <2>1, <2>2, <2>3
<1>10. CASE StartTracker(g)
  <2>1. /\ go[g].pc = "startTracker" /\ Step(g, "addJob")
        /\ UNCHANGED <<jobCounter, initialized, stratumDiff, wallet, worker, minDiff>>
    BY <1>10 DEF StartTracker, miningStateVars, ctxVars, identityVars, channelVars
  <2> QED BY <1>1, <1>2, <1>3, <2>1, PcStep
<1> QED BY <1>4, <1>5, <1>6, <1>7, <1>8, <1>9, <1>10

\* The steps that store and send the job.
LEMMA JobStepsKeepInv ==
  ASSUME TargetInv, NEW g \in Goroutines,
         \/ StoreJob(g)
         \/ \E x \in SendResults : SendJob(g, x)
         \/ \E x \in SendResults : SendPrevHash(g, x)
         \/ RestoreWallet(g)
  PROVE  TargetInv'
<1>1. /\ go[g] \in GoRecords /\ GoodGo(go[g])
      /\ minDiff \in [Keys -> Diffs \union {0}]
      /\ wallet \in [Clients -> Wallets \union {Empty}] /\ worker \in [Clients -> Names]
  BY GoTypes
<1>2. {"addJob", "sendJob", "prevHash", "restore"} \subseteq GoPcs \intersect AfterInit
  BY DEF GoPcs, AfterInit, HasBlock, HasClient
<1>3. AfterInit \subseteq HasBlock /\ HasBlock \subseteq HasClient
  BY DEF AfterInit, HasBlock
<1>4. CASE StoreJob(g)
  <2> DEFINE c == go[g].client
             n == jobCounter'[c]
             r == [go[g] EXCEPT !.job = n, !.pc = "sendJob"]
  <2>1. /\ go[g].pc = "addJob" /\ go' = [go EXCEPT ![g] = r]
        /\ jobCounter' = [jobCounter EXCEPT ![c] = jobCounter[c] + 1]
        /\ UNCHANGED <<initialized, stratumDiff, minDiff, wallet, worker>>
    <3>1. go' = [go EXCEPT ![g].job = n, ![g].pc = "sendJob"]
      BY <1>4 DEF StoreJob
    <3>2. /\ go[g].pc = "addJob"
          /\ jobCounter' = [jobCounter EXCEPT ![c] = jobCounter[c] + 1]
          /\ UNCHANGED <<initialized, stratumDiff, minDiff, wallet, worker>>
      BY <1>4 DEF StoreJob, AddJob, diffVars, ctxVars, identityVars, channelVars, vardiffVars
    <3> HIDE DEF n
    <3>3. go' = [go EXCEPT ![g] = r]
      BY <3>1
    <3> QED BY <3>2, <3>3
  <2>2. c \in initialized /\ c \in Clients /\ go[g].block \in Blocks
    BY <1>1, <1>2, <1>3, <2>1 DEF GoodGo
  <2>3. jobCounter' \in [Clients -> Nat] /\ jobCounter'[c] \in Nat
    BY <2>1, <2>2 DEF TargetInv, TargetTypes
  <2>4. r \in GoRecords /\ r.pc = "sendJob" /\ r.client = c /\ r.block = go[g].block
    BY <1>1, <1>2, <2>3 DEF GoRecords
  <2> HIDE DEF c, r
  <2>5. GoodGo(r)
    BY <2>2, <2>4 DEF GoodGo
  <2>6. TargetTypes'
    BY <2>1, <2>3, <2>4 DEF TargetInv, TargetTypes
  <2>7. ASSUME NEW h \in Goroutines PROVE GoodGo(go[h])'
    BY <2>1, <2>5 DEF TargetInv, TargetTypes, GoodGo
  <2>8. \A b \in Clients : jobCounter'[b] > 0 => b \in initialized
    BY <2>1, <2>2 DEF TargetInv, TargetTypes
  <2> QED BY <2>1, <2>6, <2>7, <2>8 DEF TargetInv
<1>5. ASSUME NEW x \in SendResults, SendJob(g, x)
      PROVE  TargetInv'
  <2>1. /\ go[g].pc = "sendJob"
        /\ Step(g, "prevHash") \/ Step(g, "restore") \/ Finish(g)
        /\ UNCHANGED <<jobCounter, initialized, stratumDiff, wallet, worker, minDiff>>
    BY <1>5 DEF SendJob, Abort, miningStateVars, ctxVars, identityVars, channelVars, vardiffVars
  <2>2. CASE Step(g, "prevHash")
    BY <1>1, <1>2, <1>3, <2>1, <2>2, PcStep
  <2>3. CASE Step(g, "restore")
    BY <1>1, <1>2, <1>3, <2>1, <2>3, PcStep
  <2>4. CASE Finish(g)
    BY <1>1, <2>1, <2>4, FinishStep
  <2> QED BY <2>1, <2>2, <2>3, <2>4
<1>6. ASSUME NEW x \in SendResults, SendPrevHash(g, x)
      PROVE  TargetInv'
  <2>1. /\ go[g].pc = "prevHash"
        /\ Step(g, "restore") \/ Finish(g)
        /\ UNCHANGED <<jobCounter, initialized, stratumDiff, wallet, worker, minDiff>>
    BY <1>6 DEF SendPrevHash, Abort, miningStateVars, ctxVars, identityVars, channelVars, vardiffVars
  <2>2. CASE Step(g, "restore")
    BY <1>1, <1>2, <1>3, <2>1, <2>2, PcStep
  <2>3. CASE Finish(g)
    BY <1>1, <2>1, <2>3, FinishStep
  <2> QED BY <2>1, <2>2, <2>3
<1>7. CASE RestoreWallet(g)
  <2> DEFINE c == go[g].client
  <2>1. /\ Finish(g) /\ go[g].pc = "restore" /\ Assign(c, go[g].addr, worker[c])
        /\ UNCHANGED <<jobCounter, initialized, stratumDiff, minDiff>>
    BY <1>7 DEF RestoreWallet, miningStateVars, vardiffVars
  <2>2. c \in Clients /\ go[g].addr \in Wallets \union {Empty}
    BY <1>1, <1>2, <1>3, <2>1 DEF GoodGo, GoRecords
  <2>3. worker[c] \in Names
    BY <1>1, <2>2
  <2> HIDE DEF c
  <2>4. wallet' \in [Clients -> Wallets \union {Empty}] /\ worker' \in [Clients -> Names]
    BY <2>1, <2>2, <2>3, AssignTypes
  <2> QED BY <2>1, <2>4, FinishStep
<1> QED BY <1>4, <1>5, <1>6, <1>7

\* The vardiff thread.
LEMMA RetargetKeepsInv ==
  ASSUME TargetInv, NEW k \in Keys, NEW d \in Diffs \union {0}, Retarget(k, d)
  PROVE  TargetInv'
<1>1. /\ minDiff \in [Keys -> Diffs \union {0}]
      /\ wallet \in [Clients -> Wallets \union {Empty}] /\ worker \in [Clients -> Names]
  BY DEF TargetInv, TargetTypes
<1>2. /\ minDiff' = [minDiff EXCEPT ![k] = d]
      /\ UNCHANGED <<go, jobCounter, initialized, stratumDiff, wallet, worker>>
  BY DEF Retarget, miningStateVars, ctxVars, identityVars
<1>3. minDiff' \in [Keys -> Diffs \union {0}]
  BY <1>1, <1>2
<1> QED BY <1>1, <1>2, <1>3, OtherStep

\* The reader goroutine and a disconnect.
LEMMA ClientStepKeepsInv ==
  ASSUME TargetInv, NEW c \in Clients, ClientNext(c)
  PROVE  TargetInv'
<1>1. /\ minDiff \in [Keys -> Diffs \union {0}]
      /\ wallet \in [Clients -> Wallets \union {Empty}] /\ worker \in [Clients -> Names]
      /\ stratumDiff \in [Clients -> Diffs \union {NoDiff}]
      /\ go \in [Goroutines -> GoRecords]
  BY DEF TargetInv, TargetTypes
<1>2. ASSUME NEW i \in Identities[c], AuthorizeWallet(c, i[1]) \/ OpenChannel(c, i[1])
      PROVE  TargetInv'
  <2>1. /\ Assign(c, i[1], worker[c])
        /\ UNCHANGED <<go, jobCounter, initialized, stratumDiff, minDiff>>
    BY <1>2 DEF AuthorizeWallet, OpenChannel, miningStateVars, vardiffVars
  <2> DEFINE a == i[1]
  <2>2. a \in Wallets \union {Empty} /\ worker[c] \in Names
    BY <1>1, IdentityTypes
  <2>3. Assign(c, a, worker[c])
    BY <2>1
  <2> HIDE DEF a
  <2>4. wallet' \in [Clients -> Wallets \union {Empty}] /\ worker' \in [Clients -> Names]
    BY <2>2, <2>3, AssignTypes
  <2> QED BY <1>1, <2>1, <2>4, OtherStep
<1>9. ASSUME NEW w \in Workers \union {Anonymous}, AssignWorker(c, w)
      PROVE  TargetInv'
  <2>1. /\ Assign(c, wallet[c], w)
        /\ UNCHANGED <<go, jobCounter, initialized, stratumDiff, minDiff>>
    BY <1>9 DEF AssignWorker, miningStateVars, vardiffVars
  <2>2. w \in Names /\ wallet[c] \in Wallets \union {Empty}
    BY <1>1 DEF Names
  <2>3. wallet' \in [Clients -> Wallets \union {Empty}] /\ worker' \in [Clients -> Names]
    BY <2>1, <2>2, AssignTypes
  <2> QED BY <1>1, <2>1, <2>3, OtherStep
<1>3. CASE SetupConnection(c) \/ OpenChannelTooEarly(c) \/ EnableSV2(c)
             \/ StoreChannelID(c) \/ Disconnect(c)
             \/ \E x \in SendResults : OpenChannelSuccess(c, x)
  <2>1. UNCHANGED <<go, jobCounter, initialized, stratumDiff, minDiff, wallet, worker>>
    BY <1>3 DEF SetupConnection, OpenChannelTooEarly, EnableSV2, StoreChannelID, Disconnect,
                OpenChannelSuccess, miningStateVars, vardiffVars, ctxVars, identityVars, channelVars
  <2> QED BY <1>1, <2>1, OtherStep
<1>4. CASE ChannelVarDiff(c)
  <2>1. /\ minDiff' = [minDiff EXCEPT ![workerStatsKey(c)] = MinShareDiff]
        /\ UNCHANGED <<go, jobCounter, initialized, stratumDiff, wallet, worker>>
    BY <1>4 DEF ChannelVarDiff, setClientVardiff, miningStateVars, ctxVars, identityVars
  <2>2. minDiff' \in [Keys -> Diffs \union {0}]
    BY <1>1, <2>1, DispatchMinShareDiffAssumption
  <2> QED BY <1>1, <2>1, <2>2, OtherStep
<1>6. ASSUME NEW d \in Diffs, stratumDiff' = [stratumDiff EXCEPT ![c] = d],
             initialized' \in {initialized, initialized \union {c}},
             UNCHANGED <<go, jobCounter, minDiff, wallet, worker>>
      PROVE  TargetInv'
  <2>1. ASSUME NEW h \in Goroutines PROVE GoodGo(go[h])'
    <3>1. GoodGo(go[h])
      BY GoTypes
    <3> QED BY <1>6, <3>1 DEF GoodGo
  <2> QED BY <1>1, <1>6, <2>1, DiffStep
<1>7. CASE ChannelInit(c)
  <2>1. UNCHANGED <<go, jobCounter, minDiff, wallet, worker>>
    BY <1>7 DEF ChannelInit, ringVars, ctxVars, identityVars, channelVars, vardiffVars
  <2>2. CASE c \in initialized
    <3>1. UNCHANGED <<initialized, stratumDiff>>
      BY <1>7, <2>2 DEF ChannelInit, InitializeIfNeeded
    <3> QED BY <1>1, <2>1, <3>1, OtherStep
  <2>3. CASE c \notin initialized
    <3>1. /\ initialized' = initialized \union {c}
          /\ stratumDiff' = [stratumDiff EXCEPT ![c] = MinShareDiff]
      BY <1>7, <2>3 DEF ChannelInit, InitializeIfNeeded
    <3> QED BY <1>6, <2>1, <3>1, DispatchMinShareDiffAssumption
  <2> QED BY <2>2, <2>3
<1>8. CASE ChannelTarget(c)
  <2> DEFINE d == IF HasTarget(c) THEN stratumDiff[c] ELSE MinShareDiff
  <2>1. /\ stratumDiff' = [stratumDiff EXCEPT ![c] = d] /\ initialized' = initialized
        /\ UNCHANGED <<go, jobCounter, minDiff, wallet, worker>>
    BY <1>8 DEF ChannelTarget, SetStratumDiff, ringVars, ctxVars, identityVars, channelVars, vardiffVars
  <2>2. d \in Diffs
    BY <1>1, DispatchMinShareDiffAssumption DEF HasTarget
  <2> HIDE DEF d
  <2> QED BY <1>6, <2>1, <2>2
<1> QED BY <1>2, <1>3, <1>4, <1>7, <1>8, <1>9 DEF ClientNext

\* A step of anybody.
LEMMA TargetInvStep == TargetInv /\ [Next]_vars => TargetInv'
<1> SUFFICES ASSUME TargetInv, [Next]_vars PROVE TargetInv'
  OBVIOUS
<1>1. CASE UNCHANGED vars
  BY <1>1 DEF vars, miningStateVars, ctxVars, identityVars, vardiffVars, TargetInv, TargetTypes, GoodGo
<1>2. ASSUME NEW g \in Goroutines, GoNext(g)
      PROVE  TargetInv'
  BY <1>2, EarlyStepKeepsInv, DiffStepsKeepInv, JobStepsKeepInv DEF GoNext
<1>3. ASSUME NEW c \in Clients, ClientNext(c)
      PROVE  TargetInv'
  BY <1>3, ClientStepKeepsInv
<1>4. ASSUME NEW k \in Keys, NEW d \in Diffs \union {0}, Retarget(k, d)
      PROVE  TargetInv'
  BY <1>4, RetargetKeepsInv
<1> QED BY <1>1, <1>2, <1>3, <1>4 DEF Next

\* However the goroutines of several templates, the channel setup and the
\* vardiff thread interleave, a job is stored for a client only with its
\* mining state initialised and a share target set: processSubmit never meets
\* the nil target it cannot answer.
THEOREM JobsAlwaysHaveTarget == Spec => []JobsHaveTarget
<1>1. TargetInv => JobsHaveTarget
  BY DEF TargetInv, TargetTypes, JobsHaveTarget, HasTarget
<1> QED BY TargetInvInit, TargetInvStep, <1>1, PTL DEF Spec
----------------------------------------------------------------------------
(* Job ids on the wire                                                      *)

\* Job n of c is stored with template b and was not sent yet.
JobPending(c, n, b) ==
  /\ n \in 1 .. Len(issued[c])
  /\ issued[c][n] = b
  /\ \A i \in 1 .. Len(wire[c]) : wire[c][i].kind \in JobKinds => wire[c][i].job # n

Sending(g) == go[g].pc = "sendJob"

\* A goroutine about to send a job holds an id of its own.
WireOK ==
  /\ issued \in [Clients -> Seq(Blocks)]
  /\ wire \in [Clients -> Seq(Messages)]
  /\ \A c \in Clients : jobCounter[c] = Len(issued[c])
  /\ WireJobsAreStored
  /\ JobIdsAreUnique
  /\ \A g \in Goroutines : Sending(g) => JobPending(go[g].client, go[g].job, go[g].block)
  /\ \A g, h \in Goroutines :
       g # h /\ Sending(g) /\ Sending(h) /\ go[g].client = go[h].client => go[g].job # go[h].job

\* A client that has just been accepted has been sent nothing.
LEMMA WireInit == Init => WireOK
BY DEF Init, MiningStateInit, WireOK, WireJobsAreStored, JobIdsAreUnique, Sending, IdleGo

\* A step that sends no job and brings no goroutine to where it sends one.
LEMMA QuietWire ==
  ASSUME TargetInv, WireOK,
         UNCHANGED <<issued, jobCounter>>,
         \/ UNCHANGED wire
         \/ \E c \in Clients, m \in Messages : m.kind \notin JobKinds /\ Write(c, m),
         \A g \in Goroutines : Sending(g)' => go'[g] = go[g]
  PROVE  WireOK'
<1> DEFINE OldJobs ==
             /\ wire' \in [Clients -> Seq(Messages)]
             /\ \A d \in Clients : \A i \in 1 .. Len(wire'[d]) :
                  wire'[d][i].kind \in JobKinds => i \in 1 .. Len(wire[d]) /\ wire'[d][i] = wire[d][i]
<1>1. OldJobs
  <2>1. CASE UNCHANGED wire
    BY <2>1 DEF WireOK
  <2>2. ASSUME NEW c \in Clients, NEW m \in Messages, m.kind \notin JobKinds, Write(c, m)
        PROVE  OldJobs
    <3>1. /\ wire[c] \in Seq(Messages) /\ wire'[c] = Append(wire[c], m)
          /\ \A d \in Clients : d # c => wire'[d] = wire[d]
          /\ wire' \in [Clients -> Seq(Messages)]
      BY <2>2 DEF WireOK, Write
    <3>2. /\ Len(wire'[c]) = Len(wire[c]) + 1 /\ wire'[c][Len(wire[c]) + 1] = m
          /\ \A i \in 1 .. Len(wire[c]) : wire'[c][i] = wire[c][i]
          /\ Len(wire[c]) \in Nat
      BY <3>1
    <3>3. ASSUME NEW d \in Clients, NEW i \in 1 .. Len(wire'[d]), wire'[d][i].kind \in JobKinds
          PROVE  i \in 1 .. Len(wire[d]) /\ wire'[d][i] = wire[d][i]
      <4>1. CASE d # c
        BY <3>1, <4>1
      <4>2. CASE d = c
        <5>1. i # Len(wire[c]) + 1
          BY <2>2, <3>2, <3>3, <4>2
        <5> QED BY <3>2, <4>2, <5>1
      <4> QED BY <4>1, <4>2
    <3> QED BY <3>1, <3>3
  <2> QED BY <2>1, <2>2
<1>2. WireJobsAreStored'
  BY <1>1, SMTT(30) DEF WireOK, WireJobsAreStored
<1>3. JobIdsAreUnique'
  BY <1>1, SMTT(30) DEF WireOK, JobIdsAreUnique
<1>4. ASSUME NEW g \in Goroutines, Sending(g)'
      PROVE  JobPending(go[g].client, go[g].job, go[g].block)'
  <2> DEFINE c == go[g].client
             n == go[g].job
             b == go[g].block
  <2>1. go'[g] = go[g] /\ Sending(g)
    BY <1>4 DEF Sending
  <2>2. c \in Clients /\ JobPending(c, n, b)
    BY <2>1 DEF TargetInv, GoodGo, HasClient, Sending, GoPcs, WireOK
  <2> HIDE DEF c, n, b
  <2>3. n \in 1 .. Len(issued'[c]) /\ issued'[c][n] = b
    BY <2>2 DEF JobPending
  <2>4. \A i \in 1 .. Len(wire'[c]) : wire'[c][i].kind \in JobKinds => wire'[c][i].job # n
    BY <1>1, <2>2 DEF JobPending
  <2> QED BY <2>1, <2>3, <2>4 DEF JobPending, c, n, b
<1>5. ASSUME NEW g \in Goroutines, NEW h \in Goroutines, g # h, Sending(g)', Sending(h)',
             go'[g].client = go'[h].client
      PROVE  go'[g].job # go'[h].job
  <2>1. go'[g] = go[g] /\ go'[h] = go[h] /\ Sending(g) /\ Sending(h)
    BY <1>5 DEF Sending
  <2> QED BY <1>5, <2>1 DEF WireOK
<1> QED BY <1>1, <1>2, <1>3, <1>4, <1>5 DEF WireOK, Sending

\* AddJob under JobLock gives every goroutine an id of its own.
LEMMA StoreWire ==
  ASSUME TargetInv, WireOK, NEW g \in Goroutines, StoreJob(g)
  PROVE  WireOK'
<1> DEFINE c == go[g].client
           b == go[g].block
           n == Len(issued[c]) + 1
<1>1. go[g].pc = "addJob" /\ go[g] \in GoRecords
  BY GoTypes DEF StoreJob
<1>2. c \in Clients /\ b \in Blocks /\ issued[c] \in Seq(Blocks) /\ jobCounter[c] = Len(issued[c])
      /\ jobCounter[c] \in Nat
  <2>1. c \in Clients /\ b \in Blocks
    BY <1>1, GoTypes DEF GoodGo, HasClient, HasBlock, GoPcs
  <2> QED BY <2>1 DEF WireOK, TargetInv, TargetTypes
<1>3. /\ jobCounter' = [jobCounter EXCEPT ![c] = jobCounter[c] + 1]
      /\ issued' = [issued EXCEPT ![c] = Append(issued[c], b)]
      /\ wire' = wire
      /\ go' = [go EXCEPT ![g].job = jobCounter'[c], ![g].pc = "sendJob"]
  BY DEF StoreJob, AddJob
<1> HIDE DEF c, b
<1>4. /\ issued' \in [Clients -> Seq(Blocks)] /\ issued'[c] = Append(issued[c], b)
      /\ \A d \in Clients : d # c => issued'[d] = issued[d]
  BY <1>2, <1>3 DEF WireOK
<1>5. /\ Len(issued'[c]) = n /\ issued'[c][n] = b
      /\ \A i \in 1 .. Len(issued[c]) : issued'[c][i] = issued[c][i]
      /\ Len(issued[c]) \in Nat
  BY <1>2, <1>4
<1>6. \A d \in Clients : jobCounter'[d] = Len(issued'[d])
  <2>1. jobCounter'[c] = n
    BY <1>2, <1>3 DEF TargetInv, TargetTypes
  <2>2. \A d \in Clients : d # c => jobCounter'[d] = jobCounter[d]
    BY <1>3 DEF TargetInv, TargetTypes
  <2>3. \A d \in Clients : jobCounter[d] = Len(issued[d])
    BY DEF WireOK
  <2> QED BY <1>4, <1>5, <2>1, <2>2, <2>3
<1>7. ASSUME NEW d \in Clients, NEW i \in 1 .. Len(issued[d])
      PROVE  i \in 1 .. Len(issued'[d]) /\ issued'[d][i] = issued[d][i]
  BY <1>4, <1>5
<1>8. WireJobsAreStored' /\ JobIdsAreUnique'
  <2>1. WireJobsAreStored'
    <3> SUFFICES ASSUME NEW d \in Clients, NEW i \in 1 .. Len(wire[d]), wire[d][i].kind \in JobKinds
                 PROVE  /\ wire[d][i].job \in 1 .. Len(issued'[d])
                        /\ issued'[d][wire[d][i].job] = wire[d][i].block
      BY <1>3 DEF WireJobsAreStored
    <3>1. /\ wire[d][i].job \in 1 .. Len(issued[d])
          /\ issued[d][wire[d][i].job] = wire[d][i].block
      BY DEF WireOK, WireJobsAreStored
    <3> QED BY <1>7, <3>1
  <2>2. JobIdsAreUnique'
    BY <1>3 DEF WireOK, JobIdsAreUnique
  <2> QED BY <2>1, <2>2
<1>9. /\ go'[g].pc = "sendJob" /\ go'[g].client = c /\ go'[g].block = b /\ go'[g].job = n
      /\ \A h \in Goroutines : h # g => go'[h] = go[h]
  <2>1. jobCounter'[c] = n
    BY <1>4, <1>5, <1>6, <1>2
  <2>2. go' = [go EXCEPT ![g] = [go[g] EXCEPT !.job = n, !.pc = "sendJob"]]
    BY <1>3, <2>1
  <2> HIDE DEF n
  <2> QED BY <1>1, <2>2 DEF TargetInv, TargetTypes, GoRecords, c, b
<1>10. JobPending(go[g].client, go[g].job, go[g].block)'
  <2>1. \A i \in 1 .. Len(wire[c]) :
          wire[c][i].kind \in JobKinds => wire[c][i].job \in 1 .. Len(issued[c])
    BY <1>2 DEF WireOK, WireJobsAreStored
  <2>2. \A i \in 1 .. Len(wire[c]) : wire[c][i].kind \in JobKinds => wire[c][i].job # n
    BY <1>5, <2>1
  <2>3. n \in 1 .. Len(issued'[c])
    BY <1>5
  <2> HIDE DEF n
  <2>4. /\ n \in 1 .. Len(issued'[c]) /\ issued'[c][n] = b
        /\ \A i \in 1 .. Len(wire'[c]) : wire'[c][i].kind \in JobKinds => wire'[c][i].job # n
    BY <1>3, <1>5, <2>2, <2>3
  <2> QED BY <2>4, <1>9 DEF JobPending
<1>11. ASSUME NEW h \in Goroutines, h # g, Sending(h)'
       PROVE  /\ JobPending(go[h].client, go[h].job, go[h].block)'
              /\ go'[h].client = c => go'[h].job # n
  <2>1. go'[h] = go[h] /\ Sending(h) /\ JobPending(go[h].client, go[h].job, go[h].block)
    BY <1>9, <1>11 DEF Sending, WireOK
  <2>2. go[h].client \in Clients
    BY <2>1 DEF TargetInv, GoodGo, HasClient, Sending, GoPcs
  <2>3. go[h].job \in 1 .. Len(issued[go[h].client])
    BY <2>1 DEF JobPending
  <2>4. go'[h].client = c => go'[h].job # n
    BY <1>5, <2>1, <2>3
  <2>5. JobPending(go[h].client, go[h].job, go[h].block)'
    BY <1>3, <1>7, <2>1, <2>2, <2>3 DEF JobPending
  <2> QED BY <2>4, <2>5
<1>12. \A h \in Goroutines : Sending(h)' => JobPending(go[h].client, go[h].job, go[h].block)'
  BY <1>10, <1>11
<1>13. ASSUME NEW h \in Goroutines, NEW k \in Goroutines, h # k, Sending(h)', Sending(k)',
              go'[h].client = go'[k].client
       PROVE  go'[h].job # go'[k].job
  <2>1. CASE h = g
    BY <1>9, <1>11, <1>13, <2>1
  <2>2. CASE k = g
    BY <1>9, <1>11, <1>13, <2>2
  <2>3. CASE h # g /\ k # g
    <3>1. go'[h] = go[h] /\ go'[k] = go[k] /\ Sending(h) /\ Sending(k)
      BY <1>9, <1>13, <2>3 DEF Sending
    <3> QED BY <1>13, <3>1 DEF WireOK
  <2> QED BY <2>1, <2>2, <2>3
<1> QED BY <1>3, <1>4, <1>6, <1>8, <1>12, <1>13 DEF WireOK, Sending

\* The job is sent with the id and the template it was stored with.
LEMMA SendWire ==
  ASSUME TargetInv, WireOK, NEW g \in Goroutines, Sending(g), NEW m \in Messages,
         m.job = go[g].job, m.block = go[g].block,
         Write(go[g].client, m),
         UNCHANGED <<issued, jobCounter>>,
         ~Sending(g)', \A h \in Goroutines : h # g => go'[h] = go[h]
  PROVE  WireOK'
<1> DEFINE c == go[g].client
           n == go[g].job
           b == go[g].block
           k == Len(wire[c]) + 1
<1>1. c \in Clients /\ JobPending(c, n, b)
  BY DEF TargetInv, GoodGo, HasClient, Sending, GoPcs, WireOK
<1>2. m.job = n /\ m.block = b /\ wire' = [wire EXCEPT ![c] = Append(wire[c], m)]
  BY DEF Write
<1>6. ASSUME NEW h \in Goroutines, Sending(h)'
      PROVE  h # g /\ go'[h] = go[h] /\ Sending(h) /\ JobPending(go[h].client, go[h].job, go[h].block)
             /\ go[h].client \in Clients /\ (go[h].client = c => go[h].job # n)
  <2>1. h # g /\ go'[h] = go[h] /\ Sending(h)
    BY <1>6 DEF Sending
  <2> QED BY <2>1 DEF WireOK, TargetInv, GoodGo, HasClient, Sending, GoPcs
<1> HIDE DEF c, n, b
<1>3. /\ wire' \in [Clients -> Seq(Messages)] /\ wire[c] \in Seq(Messages)
      /\ wire'[c] = Append(wire[c], m)
      /\ \A d \in Clients : d # c => wire'[d] = wire[d]
  BY <1>1, <1>2 DEF WireOK
<1>4. /\ Len(wire'[c]) = k /\ wire'[c][k] = m /\ Len(wire[c]) \in Nat
      /\ \A i \in 1 .. Len(wire[c]) : wire'[c][i] = wire[c][i]
  BY <1>3
<1>5. ASSUME NEW d \in Clients, NEW i \in 1 .. Len(wire'[d])
      PROVE  \/ i \in 1 .. Len(wire[d]) /\ wire'[d][i] = wire[d][i]
             \/ d = c /\ i = k /\ wire'[d][i] = m
  <2>1. CASE d # c
    BY <1>3, <2>1
  <2>2. CASE d = c
    BY <1>4, <2>2
  <2> QED BY <2>1, <2>2
<1> HIDE DEF k
<1>7. WireJobsAreStored'
  <2> SUFFICES ASSUME NEW d \in Clients, NEW i \in 1 .. Len(wire'[d]),
                      wire'[d][i].kind \in JobKinds
               PROVE  /\ wire'[d][i].job \in 1 .. Len(issued[d])
                      /\ issued[d][wire'[d][i].job] = wire'[d][i].block
    BY DEF WireJobsAreStored
  <2>1. CASE i \in 1 .. Len(wire[d]) /\ wire'[d][i] = wire[d][i]
    BY <2>1 DEF WireOK, WireJobsAreStored
  <2>2. CASE d = c /\ wire'[d][i] = m
    BY <1>1, <1>2, <2>2 DEF JobPending
  <2> QED BY <1>5, <2>1, <2>2
<1>8. JobIdsAreUnique'
  <2> SUFFICES ASSUME NEW d \in Clients, NEW i \in 1 .. Len(wire'[d]), NEW j \in 1 .. Len(wire'[d]),
                      wire'[d][i].kind \in JobKinds, wire'[d][j].kind \in JobKinds,
                      wire'[d][i].job = wire'[d][j].job
               PROVE  i = j
    BY DEF JobIdsAreUnique
  <2>1. \A l \in 1 .. Len(wire[c]) : wire[c][l].kind \in JobKinds => wire[c][l].job # n
    BY <1>1 DEF JobPending
  <2>2. CASE i \in 1 .. Len(wire[d]) /\ wire'[d][i] = wire[d][i]
             /\ j \in 1 .. Len(wire[d]) /\ wire'[d][j] = wire[d][j]
    BY <2>2 DEF WireOK, JobIdsAreUnique
  <2>3. CASE d = c /\ i = k /\ wire'[d][i] = m /\ j \in 1 .. Len(wire[d]) /\ wire'[d][j] = wire[d][j]
    BY <1>2, <2>1, <2>3
  <2>4. CASE d = c /\ j = k /\ wire'[d][j] = m /\ i \in 1 .. Len(wire[d]) /\ wire'[d][i] = wire[d][i]
    BY <1>2, <2>1, <2>4
  <2> QED BY <1>5, <2>2, <2>3, <2>4
<1>9. ASSUME NEW h \in Goroutines, Sending(h)'
      PROVE  JobPending(go[h].client, go[h].job, go[h].block)'
  <2> DEFINE d == go[h].client
             l == go[h].job
             a == go[h].block
  <2>1. /\ d \in Clients /\ JobPending(d, l, a) /\ (d = c => l # n)
        /\ go'[h].client = d /\ go'[h].job = l /\ go'[h].block = a
    BY <1>6, <1>9
  <2> HIDE DEF d, l, a
  <2>2. \A i \in 1 .. Len(wire'[d]) : wire'[d][i].kind \in JobKinds => wire'[d][i].job # l
    <3> SUFFICES ASSUME NEW i \in 1 .. Len(wire'[d]), wire'[d][i].kind \in JobKinds
                 PROVE  wire'[d][i].job # l
      OBVIOUS
    <3>1. CASE i \in 1 .. Len(wire[d]) /\ wire'[d][i] = wire[d][i]
      BY <2>1, <3>1 DEF JobPending
    <3>2. CASE d = c /\ wire'[d][i] = m
      BY <1>2, <2>1, <3>2
    <3> QED BY <1>5, <2>1, <3>1, <3>2
  <2> QED BY <2>1, <2>2 DEF JobPending
<1>10. ASSUME NEW h \in Goroutines, NEW o \in Goroutines, h # o, Sending(h)', Sending(o)',
              go'[h].client = go'[o].client
       PROVE  go'[h].job # go'[o].job
  <2>1. go'[h] = go[h] /\ go'[o] = go[o] /\ Sending(h) /\ Sending(o)
    BY <1>6, <1>10
  <2> QED BY <1>10, <2>1 DEF WireOK
<1> QED BY <1>3, <1>7, <1>8, <1>9, <1>10 DEF WireOK, Sending

----------------------------------------------------------------------------
(* The other variables                                                      *)

\* Difficulties, and the 0 of an unset one, are natural numbers.
LEMMA DiffsAreNaturals == \A d \in Diffs \union {0} : d \in Nat
BY DiffsAssumption

ReaderRecords == [pc : ReaderPcs, chan : Nat, diff : Nat]

RestOK ==
  /\ jobs \in [Clients -> [Slots -> Blocks \union {NoJob}]]
  /\ bigDiff \in [Clients -> Nat]
  /\ proto \in [Clients -> {"v1", "v2"}]
  /\ disconnecting \subseteq Clients
  /\ sv2Enabled \subseteq Clients
  /\ sv2ChannelID \in [Clients -> Nat]
  /\ nextChannelID \in Nat
  /\ tracker \subseteq Keys
  /\ moved \subseteq Clients
  /\ reader \in [Clients -> ReaderRecords]

\* An assignment to the identity of a client moves that client at most.
LEMMA AssignMoves ==
  ASSUME RestOK, NEW c \in Clients, NEW a, NEW w, Assign(c, a, w)
  PROVE  moved' \subseteq Clients
BY DEF Assign, RestOK

\* The goroutines of NewBlockAvailable keep them in their types.
LEMMA GoKeepsRest ==
  ASSUME TargetInv, RestOK, NEW g \in Goroutines, GoNext(g)
  PROVE  RestOK'
<1> DEFINE c == go[g].client
<1>1. go[g].pc # "idle" => c \in Clients
  BY GoTypes DEF GoodGo, HasClient, GoRecords
<1>2. UNCHANGED <<proto, sv2Enabled, sv2ChannelID, nextChannelID, reader>>
  BY DEF GoNext, Spawn, ReadAddr, FetchTemplate, FetchFails, SerializeFails, InitState,
         SetInitialVarDiff, SendInitialDiff, ReadVarDiff, Compare, ApplyDiff, SendDiff, Abort,
         StartTracker, StoreJob, SendJob, SendPrevHash, RestoreWallet, ctxVars, identityVars, channelVars
<1>3. disconnecting' = disconnecting
        \/ (go[g].pc # "idle" /\ disconnecting' = disconnecting \union {c})
  BY DEF GoNext, Spawn, ReadAddr, FetchTemplate, FetchFails, SerializeFails, InitState,
         SetInitialVarDiff, SendInitialDiff, ReadVarDiff, Compare, ApplyDiff, SendDiff, Abort,
         StartTracker, StoreJob, SendJob, SendPrevHash, RestoreWallet, ctxVars, identityVars, channelVars
<1>4. tracker' = tracker \/ (go[g].pc # "idle" /\ tracker' = tracker \union {workerStatsKey(c)})
  BY DEF GoNext, Spawn, ReadAddr, FetchTemplate, FetchFails, SerializeFails, InitState,
         SetInitialVarDiff, SendInitialDiff, ReadVarDiff, Compare, ApplyDiff, SendDiff, Abort,
         StartTracker, StoreJob, SendJob, SendPrevHash, RestoreWallet, vardiffVars, setClientVardiff
<1>5. bigDiff' = bigDiff \/ \E b \in Blocks : FetchTemplate(g, b)
  BY DEF GoNext, Spawn, ReadAddr, FetchFails, SerializeFails, InitState,
         SetInitialVarDiff, SendInitialDiff, ReadVarDiff, Compare, ApplyDiff, SendDiff,
         StartTracker, StoreJob, SendJob, SendPrevHash, RestoreWallet, miningStateVars,
         SetStratumDiff, diffVars
<1>6. bigDiff' \in [Clients -> Nat]
  <2>1. ASSUME NEW b \in Blocks, FetchTemplate(g, b) PROVE bigDiff' \in [Clients -> Nat]
    BY <2>1, NetworkTargetAssumption DEF RestOK, FetchTemplate, SetNetworkTarget
  <2> QED BY <1>5, <2>1 DEF RestOK
<1>7. jobs' = jobs \/ StoreJob(g)
  BY DEF GoNext, Spawn, ReadAddr, FetchTemplate, FetchFails, SerializeFails, InitState,
         SetInitialVarDiff, SendInitialDiff, ReadVarDiff, Compare, ApplyDiff, SendDiff,
         StartTracker, SendJob, SendPrevHash, RestoreWallet, miningStateVars, ringVars
<1>8. jobs' \in [Clients -> [Slots -> Blocks \union {NoJob}]]
  <2>1. CASE StoreJob(g)
    <3> DEFINE slot == (jobCounter[c] + 1) % MaxJobs
    <3>1. /\ go[g].pc = "addJob" /\ jobs' = [jobs EXCEPT ![c][slot] = go[g].block]
      BY <2>1 DEF StoreJob, AddJob
    <3>2. go[g].block \in Blocks
      BY <3>1, GoTypes DEF GoodGo, HasClient, HasBlock, GoPcs
    <3> HIDE DEF slot
    <3> QED BY <3>1, <3>2 DEF RestOK
  <2> QED BY <1>7, <2>1 DEF RestOK
<1>9. tracker' \subseteq Keys
  BY <1>1, <1>4, KeysAreKeys DEF RestOK
<1>10. moved' \subseteq Clients
  <2>1. moved' = moved \/ (RestoreWallet(g) /\ Assign(c, go[g].addr, worker[c]))
    BY DEF GoNext, Spawn, ReadAddr, FetchTemplate, FetchFails, SerializeFails, InitState,
           SetInitialVarDiff, SendInitialDiff, ReadVarDiff, Compare, ApplyDiff, SendDiff, Abort,
           StartTracker, StoreJob, SendJob, SendPrevHash, RestoreWallet, ctxVars, identityVars
  <2> QED BY <2>1, <1>1, AssignMoves DEF RestoreWallet, RestOK
<1> QED BY <1>1, <1>2, <1>3, <1>6, <1>8, <1>9, <1>10 DEF RestOK, Slots, ReaderRecords

\* So do the reader goroutine, the vardiff thread and a disconnect.
LEMMA ClientKeepsRest ==
  ASSUME TargetInv, RestOK, NEW c \in Clients, ClientNext(c)
  PROVE  RestOK'
<1>1. UNCHANGED <<jobs, bigDiff, proto>>
  BY DEF ClientNext, AuthorizeWallet, AssignWorker, SetupConnection, OpenChannelTooEarly,
         OpenChannel, EnableSV2,
         StoreChannelID, ChannelInit, ChannelVarDiff, ChannelTarget, OpenChannelSuccess, Disconnect, miningStateVars, ringVars, ctxVars, identityVars, channelVars, SetStratumDiff
<1>2. /\ disconnecting' \in {disconnecting, disconnecting \union {c}}
      /\ sv2Enabled' \in {sv2Enabled, sv2Enabled \union {c}}
  BY DEF ClientNext, AuthorizeWallet, AssignWorker, SetupConnection, OpenChannelTooEarly,
         OpenChannel, EnableSV2,
         StoreChannelID, ChannelInit, ChannelVarDiff, ChannelTarget, OpenChannelSuccess, Disconnect, ctxVars, identityVars, channelVars
<1>3. tracker' \in {tracker, tracker \union {workerStatsKey(c)}}
  BY DEF ClientNext, AuthorizeWallet, AssignWorker, SetupConnection, OpenChannelTooEarly,
         OpenChannel, EnableSV2,
         StoreChannelID, ChannelInit, ChannelVarDiff, ChannelTarget, OpenChannelSuccess, Disconnect, vardiffVars, setClientVardiff
<1>4. nextChannelID' \in {nextChannelID, nextChannelID + 1}
  BY DEF ClientNext, AuthorizeWallet, AssignWorker, SetupConnection, OpenChannelTooEarly,
         OpenChannel, EnableSV2,
         StoreChannelID, ChannelInit, ChannelVarDiff, ChannelTarget, OpenChannelSuccess, Disconnect, ctxVars, identityVars, channelVars
<1>5. sv2ChannelID' \in {sv2ChannelID, [sv2ChannelID EXCEPT ![c] = reader[c].chan]}
  BY DEF ClientNext, AuthorizeWallet, AssignWorker, SetupConnection, OpenChannelTooEarly,
         OpenChannel, EnableSV2,
         StoreChannelID, ChannelInit, ChannelVarDiff, ChannelTarget, OpenChannelSuccess, Disconnect, ctxVars, identityVars, channelVars
<1>6. \/ UNCHANGED reader
      \/ \E p \in ReaderPcs : reader' = [reader EXCEPT ![c].pc = p]
      \/ reader' = [reader EXCEPT ![c].pc = "channel", ![c].chan = nextChannelID + 1]
      \/ reader' = [reader EXCEPT ![c].pc = "success",
                                  ![c].diff = IF HasTarget(c) THEN stratumDiff[c] ELSE MinShareDiff]
  BY DEF ClientNext, AuthorizeWallet, AssignWorker, SetupConnection, OpenChannelTooEarly,
         OpenChannel, EnableSV2,
         StoreChannelID, ChannelInit, ChannelVarDiff, ChannelTarget, OpenChannelSuccess, Disconnect, ReaderStep, ReaderPcs
<1>7. reader' \in [Clients -> ReaderRecords]
  <2> DEFINE d == IF HasTarget(c) THEN stratumDiff[c] ELSE MinShareDiff
  <2>1. d \in Nat
    <3>1. stratumDiff[c] \in Diffs \union {0}
      BY DEF TargetInv, TargetTypes, NoDiff
    <3>2. MinShareDiff \in Diffs \union {0}
      BY DispatchMinShareDiffAssumption
    <3> QED BY <3>1, <3>2, DiffsAreNaturals
  <2>2. nextChannelID + 1 \in Nat /\ {"channel", "success"} \subseteq ReaderPcs
    BY DEF RestOK, ReaderPcs
  <2> HIDE DEF d
  <2>3. ASSUME NEW p \in ReaderPcs, reader' = [reader EXCEPT ![c].pc = p]
        PROVE  reader' \in [Clients -> ReaderRecords]
    BY <2>3 DEF RestOK, ReaderRecords
  <2>4. CASE reader' = [reader EXCEPT ![c].pc = "channel", ![c].chan = nextChannelID + 1]
    BY <2>2, <2>4 DEF RestOK, ReaderRecords
  <2>5. CASE reader' = [reader EXCEPT ![c].pc = "success", ![c].diff = d]
    BY <2>1, <2>2, <2>5 DEF RestOK, ReaderRecords
  <2> QED BY <1>6, <2>3, <2>4, <2>5 DEF d, RestOK
<1>8. sv2ChannelID' \in [Clients -> Nat]
  BY <1>5 DEF RestOK, ReaderRecords
<1>9. tracker' \subseteq Keys
  BY <1>3, KeysAreKeys DEF RestOK
<1>10. moved' = moved \/ \E a, w : Assign(c, a, w)
  BY DEF ClientNext, AuthorizeWallet, AssignWorker, SetupConnection, OpenChannelTooEarly,
         OpenChannel, EnableSV2, StoreChannelID, ChannelInit, ChannelVarDiff, ChannelTarget,
         OpenChannelSuccess, Disconnect, ctxVars, identityVars
<1>11. moved' \subseteq Clients
  BY <1>10, AssignMoves DEF RestOK
<1> QED BY <1>1, <1>2, <1>4, <1>7, <1>8, <1>9, <1>11 DEF RestOK, ReaderRecords, Slots

\* And so does the vardiff thread.
LEMMA RetargetKeepsRest ==
  ASSUME RestOK, NEW k \in Keys, NEW d, Retarget(k, d)
  PROVE  RestOK'
BY DEF Retarget, RestOK, miningStateVars, ctxVars, identityVars, channelVars

----------------------------------------------------------------------------
\* The step a goroutine takes sends at most one job, its own.
LEMMA GoKeepsWire ==
  ASSUME TargetInv, RestOK, WireOK, NEW g \in Goroutines, GoNext(g)
  PROVE  WireOK'
<1> DEFINE c == go[g].client
<1>1. go \in [Goroutines -> GoRecords] /\ go[g] \in GoRecords /\ GoodGo(go[g])
  BY GoTypes DEF TargetInv, TargetTypes
<1>2. ASSUME NEW pc \in GoPcs, Step(g, pc)
      PROVE  go'[g].pc = pc /\ \A h \in Goroutines : h # g => go'[h] = go[h]
  BY <1>1, <1>2 DEF Step, GoRecords
<1>3. ASSUME Finish(g)
      PROVE  go'[g].pc = "idle" /\ \A h \in Goroutines : h # g => go'[h] = go[h]
  BY <1>1, <1>3 DEF Finish, IdleGo
<1>4. ASSUME go'[g].pc # "sendJob", \A h \in Goroutines : h # g => go'[h] = go[h],
             UNCHANGED <<issued, jobCounter, wire>>
      PROVE  WireOK'
  BY <1>4, QuietWire DEF Sending
<1>5. ASSUME NEW d \in Clients, NEW m \in Messages, m.kind \notin JobKinds, Write(d, m),
             go'[g].pc # "sendJob", \A h \in Goroutines : h # g => go'[h] = go[h],
             UNCHANGED <<issued, jobCounter>>
      PROVE  WireOK'
  BY <1>5, QuietWire DEF Sending
<1>6. CASE (\E d \in Clients : Spawn(g, d)) \/ ReadAddr(g) \/ (\E b \in Blocks : FetchTemplate(g, b))
           \/ ReadVarDiff(g)
  <2> DEFINE Moved == /\ go'[g].pc \in {"addr", "template", "init", "compare"}
                      /\ \A h \in Goroutines : h # g => go'[h] = go[h]
  <2>1. Moved
    <3>1. ASSUME NEW d \in Clients, Spawn(g, d) PROVE Moved
      BY <1>1, <3>1 DEF Spawn, IdleGo
    <3>2. CASE ReadAddr(g)
      BY <1>1, <3>2 DEF ReadAddr, GoRecords
    <3>3. ASSUME NEW b \in Blocks, FetchTemplate(g, b) PROVE Moved
      BY <1>1, <3>3 DEF FetchTemplate, GoRecords
    <3>4. CASE ReadVarDiff(g)
      BY <1>1, <3>4 DEF ReadVarDiff, GoRecords
    <3> QED BY <1>6, <3>1, <3>2, <3>3, <3>4
  <2>2. UNCHANGED <<issued, jobCounter, wire>>
    BY <1>6 DEF Spawn, ReadAddr, FetchTemplate, ReadVarDiff, miningStateVars, ringVars
  <2> QED BY <1>4, <2>1, <2>2
<1>7. CASE (\E bad \in BOOLEAN : FetchFails(g, bad)) \/ SerializeFails(g) \/ RestoreWallet(g)
  <2>1. Finish(g) /\ UNCHANGED <<issued, jobCounter, wire>>
    BY <1>7 DEF FetchFails, SerializeFails, RestoreWallet, miningStateVars
  <2> QED BY <1>3, <1>4, <2>1
<1>8. CASE InitState(g) \/ SetInitialVarDiff(g) \/ Compare(g) \/ ApplyDiff(g) \/ StartTracker(g)
  <2>1. \E pc \in GoPcs \ {"sendJob"} : Step(g, pc)
    BY <1>8 DEF InitState, SetInitialVarDiff, Compare, ApplyDiff, StartTracker, GoPcs
  <2>2. UNCHANGED <<issued, jobCounter, wire>>
    BY <1>8 DEF InitState, SetInitialVarDiff, Compare, ApplyDiff, StartTracker, miningStateVars, ringVars
  <2> QED BY <1>2, <1>4, <2>1, <2>2
<1>9. ASSUME NEW x \in SendResults, NEW d \in Nat, sendClientDiff(c, d, x), c \in Clients,
             NEW pc \in GoPcs \ {"sendJob"}, Step(g, pc), UNCHANGED <<issued, jobCounter>>
      PROVE  WireOK'
  <2> DEFINE m == Message(IF x = "failed" THEN "unsent" ELSE "set_difficulty", 0, d, 0, NoJob)
  <2>1. m \in Messages /\ m.kind \notin JobKinds
    BY DEF Message, Messages, Kinds, DiffKinds, JobKinds
  <2>2. UNCHANGED wire \/ Write(c, m)
    BY <1>9 DEF sendClientDiff
  <2> HIDE DEF m
  <2> QED BY <1>2, <1>4, <1>5, <1>9, <2>1, <2>2
<1>10. ASSUME NEW x \in SendResults, SendInitialDiff(g, x) PROVE WireOK'
  <2>1. /\ go[g].pc = "sendInitial" /\ sendClientDiff(c, MinShareDiff, x) /\ Step(g, "varDiff")
        /\ UNCHANGED <<issued, jobCounter>>
    BY <1>10 DEF SendInitialDiff, miningStateVars
  <2>2. c \in Clients /\ MinShareDiff \in Nat /\ "varDiff" \in GoPcs
    BY <1>1, <2>1, DispatchMinShareDiffAssumption, DiffsAssumption DEF GoodGo, HasClient, GoPcs
  <2> QED BY <1>9, <2>1, <2>2
<1>11. ASSUME NEW x \in SendResults, SendDiff(g, x) PROVE WireOK'
  <2>1. /\ go[g].pc = "sendDiff" /\ UNCHANGED <<issued, jobCounter>>
        /\ \/ Finish(g) /\ UNCHANGED wire
           \/ Step(g, "startTracker")
              /\ Write(c, Message("SetTarget", sv2ChannelID[c], go[g].varDiff, 0, NoJob))
           \/ Step(g, "startTracker") /\ sendClientDiff(c, go[g].varDiff, x)
    BY <1>11 DEF SendDiff, Abort, miningStateVars
  <2>2. c \in Clients /\ go[g].varDiff \in Nat /\ "startTracker" \in GoPcs /\ sv2ChannelID[c] \in Nat
    <3>1. c \in Clients /\ "startTracker" \in GoPcs
      BY <1>1, <2>1 DEF GoodGo, HasClient, GoPcs
    <3>2. go[g].varDiff \in Diffs \union {0} /\ sv2ChannelID[c] \in Nat
      BY <1>1, <3>1 DEF GoRecords, RestOK
    <3> QED BY <3>1, <3>2, DiffsAreNaturals
  <2> DEFINE m == Message("SetTarget", sv2ChannelID[c], go[g].varDiff, 0, NoJob)
  <2>3. m \in Messages /\ m.kind \notin JobKinds
    BY <2>2 DEF Message, Messages, Kinds, DiffKinds, JobKinds
  <2> HIDE DEF m
  <2>4. CASE Finish(g) /\ UNCHANGED wire
    BY <1>3, <1>4, <2>1, <2>4
  <2>5. CASE Step(g, "startTracker") /\ Write(c, m)
    BY <1>2, <1>5, <2>1, <2>2, <2>3, <2>5
  <2>6. CASE Step(g, "startTracker") /\ sendClientDiff(c, go[g].varDiff, x)
    BY <1>9, <2>1, <2>2, <2>6
  <2> QED BY <2>1, <2>4, <2>5, <2>6 DEF m
<1>12. CASE StoreJob(g)
  BY <1>12, StoreWire
<1>13. ASSUME NEW x \in SendResults, SendJob(g, x) PROVE WireOK'
  <2> DEFINE kind == IF c \in sv2Enabled THEN "NewMiningJob" ELSE "notify"
             chan == IF c \in sv2Enabled THEN sv2ChannelID[c] ELSE 0
             m == Message(kind, chan, 0, go[g].job, go[g].block)
             to == IF c \in sv2Enabled THEN "prevHash" ELSE "restore"
  <2>1. /\ go[g].pc = "sendJob" /\ UNCHANGED <<issued, jobCounter>>
        /\ \/ Finish(g) /\ UNCHANGED wire
           \/ Step(g, to) /\ UNCHANGED wire
           \/ Step(g, to) /\ Write(c, m)
    BY <1>13 DEF SendJob, Abort, miningStateVars
  <2>2. c \in Clients /\ go[g].block \in Blocks
    BY <1>1, <2>1 DEF GoodGo, HasClient, HasBlock, GoPcs
  <2>3. kind \in Kinds /\ chan \in Nat /\ to \in GoPcs /\ to # "sendJob"
    BY <2>2 DEF RestOK, Kinds, JobKinds, GoPcs
  <2> HIDE DEF kind, chan, to
  <2>4. m \in Messages /\ m.job = go[g].job /\ m.block = go[g].block
    BY <1>1, <2>2, <2>3 DEF Message, Messages, GoRecords
  <2> HIDE DEF m
  <2>5. CASE Finish(g) /\ UNCHANGED wire
    BY <1>3, <1>4, <2>1, <2>5
  <2>6. CASE Step(g, to) /\ UNCHANGED wire
    BY <1>2, <1>4, <2>1, <2>3, <2>6
  <2>7. CASE Step(g, to) /\ Write(c, m)
    BY <1>2, <2>1, <2>3, <2>4, <2>7, SendWire DEF Sending
  <2> QED BY <2>1, <2>5, <2>6, <2>7
<1>14. ASSUME NEW x \in SendResults, SendPrevHash(g, x) PROVE WireOK'
  <2> DEFINE m == Message("SetNewPrevHash", sv2ChannelID[c], 0, go[g].job, NoJob)
  <2>1. /\ go[g].pc = "prevHash" /\ UNCHANGED <<issued, jobCounter>>
        /\ \/ Finish(g) /\ UNCHANGED wire
           \/ Step(g, "restore") /\ Write(c, m)
    BY <1>14 DEF SendPrevHash, Abort, miningStateVars
  <2>2. c \in Clients /\ "restore" \in GoPcs
    BY <1>1, <2>1 DEF GoodGo, HasClient, GoPcs
  <2>3. sv2ChannelID[c] \in Nat
    BY <2>2 DEF RestOK
  <2>4. m \in Messages /\ m.kind \notin JobKinds
    BY <1>1, <2>3 DEF Message, Messages, Kinds, DiffKinds, JobKinds, GoRecords
  <2> HIDE DEF m
  <2>5. CASE Finish(g) /\ UNCHANGED wire
    BY <1>3, <1>4, <2>1, <2>5
  <2>6. CASE Step(g, "restore") /\ Write(c, m)
    BY <1>2, <1>5, <2>1, <2>2, <2>4, <2>6
  <2> QED BY <2>1, <2>5, <2>6
<1> QED
  BY <1>6, <1>7, <1>8, <1>10, <1>11, <1>12, <1>13, <1>14 DEF GoNext

\* The reader goroutine sends no jobs.
LEMMA ClientKeepsWire ==
  ASSUME TargetInv, RestOK, WireOK, NEW c \in Clients, ClientNext(c)
  PROVE  WireOK'
<1>1. UNCHANGED <<issued, jobCounter, go>>
  BY DEF ClientNext, AuthorizeWallet, AssignWorker, SetupConnection, OpenChannelTooEarly,
         OpenChannel, EnableSV2,
         StoreChannelID, ChannelInit, ChannelVarDiff, ChannelTarget, OpenChannelSuccess, Disconnect, miningStateVars, ringVars
<1> DEFINE m == Message("OpenSuccess", reader[c].chan, reader[c].diff, 0, NoJob)
<1>2. UNCHANGED wire \/ Write(c, m)
  BY DEF ClientNext, AuthorizeWallet, AssignWorker, SetupConnection, OpenChannelTooEarly,
         OpenChannel, EnableSV2,
         StoreChannelID, ChannelInit, ChannelVarDiff, ChannelTarget, OpenChannelSuccess, Disconnect
<1>3. reader[c].chan \in Nat /\ reader[c].diff \in Nat
  BY DEF RestOK, ReaderRecords
<1>4. m \in Messages /\ m.kind \notin JobKinds
  BY <1>3 DEF Message, Messages, Kinds, DiffKinds, JobKinds
<1> HIDE DEF m
<1> QED BY <1>1, <1>2, <1>4, QuietWire
----------------------------------------------------------------------------
DispatchInv == TargetInv /\ RestOK /\ WireOK

\* The invariant of all of it.
THEOREM DispatchInvHolds == Spec => []DispatchInv
<1>1. Init => DispatchInv
  <2> SUFFICES ASSUME Init PROVE DispatchInv
    OBVIOUS
  <2>1. RestOK
    BY DEF Init, MiningStateInit, RestOK, ReaderRecords, ReaderPcs
  <2> QED BY <2>1, TargetInvInit, WireInit DEF DispatchInv
<1>2. DispatchInv /\ [Next]_vars => DispatchInv'
  <2> SUFFICES ASSUME DispatchInv, [Next]_vars PROVE DispatchInv'
    OBVIOUS
  <2>1. TargetInv'
    BY TargetInvStep DEF DispatchInv
  <2>2. CASE UNCHANGED vars
    <3>1. RestOK'
      BY <2>2 DEF vars, miningStateVars, ctxVars, identityVars, channelVars, vardiffVars, DispatchInv, RestOK
    <3>2. UNCHANGED <<issued, jobCounter, wire, go>>
      BY <2>2 DEF vars, miningStateVars
    <3>3. WireOK'
      BY <3>2, QuietWire DEF DispatchInv
    <3> QED BY <2>1, <3>1, <3>3 DEF DispatchInv
  <2>3. ASSUME NEW g \in Goroutines, GoNext(g) PROVE RestOK' /\ WireOK'
    BY <2>3, GoKeepsRest, GoKeepsWire DEF DispatchInv
  <2>4. ASSUME NEW c \in Clients, ClientNext(c) PROVE RestOK' /\ WireOK'
    BY <2>4, ClientKeepsRest, ClientKeepsWire DEF DispatchInv
  <2>5. ASSUME NEW k \in Keys, NEW d \in Diffs \union {0}, Retarget(k, d)
        PROVE  RestOK' /\ WireOK'
    <3>1. UNCHANGED <<issued, jobCounter, wire, go>>
      BY <2>5 DEF Retarget, miningStateVars
    <3>2. WireOK'
      BY <3>1, QuietWire DEF DispatchInv
    <3> QED BY <2>5, <3>2, RetargetKeepsRest DEF DispatchInv
  <2> QED BY <2>1, <2>2, <2>3, <2>4, <2>5 DEF Next, DispatchInv
<1> QED BY <1>1, <1>2, PTL DEF Spec

\* Every variable stays in its type.
THEOREM DispatchTypes == Spec => []TypeOK
<1>1. DispatchInv => TypeOK
  BY DEF DispatchInv, TargetInv, TargetTypes, RestOK, WireOK, TypeOK, MiningStateTypeOK,
         GoRecords, ReaderRecords, Names
<1> QED BY <1>1, DispatchInvHolds, PTL

\* A job on the wire is stored under the id and with the template it was
\* announced with, for any number of goroutines that store and send jobs for
\* one client at once.
THEOREM JobsOnTheWireAreStored == Spec => []WireJobsAreStored
<1>1. DispatchInv => WireJobsAreStored
  BY DEF DispatchInv, WireOK
<1> QED BY <1>1, DispatchInvHolds, PTL

\* AddJob returns the id it assigned under the lock, so that no two messages
\* announce the same job id to a miner.
THEOREM JobIdsNeverRepeat == Spec => []JobIdsAreUnique
<1>1. DispatchInv => JobIdsAreUnique
  BY DEF DispatchInv, WireOK
<1> QED BY <1>1, DispatchInvHolds, PTL

----------------------------------------------------------------------------
(* The mining state inside the dispatch                                     *)

\* A goroutine touches the mining state through one method at a time.
LEMMA GoCallsMethods ==
  ASSUME TargetInv, NEW g \in Goroutines, GoNext(g)
  PROVE  MiningStateNext \/ UNCHANGED miningStateVars
<1> DEFINE c == go[g].client
           Calls == MiningStateNext \/ UNCHANGED miningStateVars
<1>1. go[g] \in GoRecords /\ GoodGo(go[g]) /\ (go[g].pc # "idle" => c \in Clients)
  BY GoTypes DEF GoodGo, HasClient, GoRecords
<1>2. ASSUME NEW b \in Blocks, FetchTemplate(g, b) PROVE Calls
  BY <1>1, <1>2 DEF FetchTemplate, MiningStateNext
<1>3. CASE InitState(g)
  BY <1>1, <1>3, DispatchMinShareDiffAssumption DEF InitState, MiningStateNext
<1>4. CASE ApplyDiff(g)
  <2>1. go[g].varDiff \in Diffs /\ c \in Clients
    BY <1>1, <1>4 DEF ApplyDiff, GoodGo, GoRecords
  <2> QED BY <1>4, <2>1 DEF ApplyDiff, MiningStateNext
<1>5. CASE StoreJob(g)
  <2>1. go[g].block \in Blocks /\ c \in Clients
    BY <1>1, <1>5 DEF StoreJob, GoodGo, HasClient, HasBlock, GoPcs
  <2> QED BY <1>5, <2>1 DEF StoreJob, MiningStateNext
<1>6. \/ UNCHANGED miningStateVars
      \/ \E b \in Blocks : FetchTemplate(g, b)
      \/ InitState(g) \/ ApplyDiff(g) \/ StoreJob(g)
  BY DEF GoNext, Spawn, ReadAddr, FetchFails, SerializeFails, SetInitialVarDiff,
         SendInitialDiff, ReadVarDiff, Compare, SendDiff, StartTracker, SendJob,
         SendPrevHash, RestoreWallet
<1> QED BY <1>2, <1>3, <1>4, <1>5, <1>6

\* So does the channel setup of SV2.
LEMMA ClientCallsMethods ==
  ASSUME TargetInv, NEW c \in Clients, ClientNext(c)
  PROVE  MiningStateNext \/ UNCHANGED miningStateVars
<1>1. CASE ChannelInit(c)
  BY <1>1, DispatchMinShareDiffAssumption DEF ChannelInit, MiningStateNext
<1>2. CASE ChannelTarget(c)
  <2> DEFINE d == IF HasTarget(c) THEN stratumDiff[c] ELSE MinShareDiff
  <2>1. d \in Diffs
    BY DispatchMinShareDiffAssumption DEF TargetInv, TargetTypes, HasTarget
  <2>2. SetStratumDiff(c, d) /\ UNCHANGED ringVars
    BY <1>2 DEF ChannelTarget
  <2> HIDE DEF d
  <2> QED BY <2>1, <2>2 DEF MiningStateNext
<1>3. UNCHANGED miningStateVars \/ ChannelInit(c) \/ ChannelTarget(c)
  BY DEF ClientNext, AuthorizeWallet, AssignWorker, SetupConnection, OpenChannelTooEarly,
         OpenChannel, EnableSV2,
         StoreChannelID, ChannelVarDiff, OpenChannelSuccess, Disconnect
<1> QED BY <1>1, <1>2, <1>3

\* Handing out work behaves, on the mining state, as the component on its own.
THEOREM DispatchUsesMethods == Spec => MiningStateSpec
<1>1. TargetInv /\ [Next]_vars => [MiningStateNext]_miningStateVars
  <2>1. ASSUME NEW k \in Keys, NEW d \in Diffs \union {0}, Retarget(k, d)
        PROVE  UNCHANGED miningStateVars
    BY <2>1 DEF Retarget
  <2> QED BY <2>1, GoCallsMethods, ClientCallsMethods DEF Next, vars
<1> QED BY <1>1, TargetInvInit, TargetInvStep, PTL DEF Spec, Init, MiningStateSpec

\* However many goroutines store jobs for one client, the last MaxJobs ids find
\* the template that was stored under them.
THEOREM DispatchedJobsAreFound == Spec => []RecentJobsKeepTheirTemplate
BY DispatchUsesMethods, RingIsExact, PTL
----------------------------------------------------------------------------
(* One goroutine per client at a time                                       *)

\* The goroutine of one template is over before that of the next one starts.
\* Nothing in NewBlockAvailable sees to that; it is so when templates are
\* further apart than a goroutine takes.  The hypothesis of the theorems below.
OneEach ==
  \A g, h \in Goroutines :
    go[g].pc # "idle" /\ go[h].pc # "idle" /\ go[g].client = go[h].client => g = h

\* Of the first n messages of w, the i-th is the last of a kind in K.
LastOf(w, K, n, i) ==
  /\ i \in 1 .. n
  /\ w[i].kind \in K
  /\ \A j \in 1 .. n : j > i => w[j].kind \notin K

\* A message of another kind does not change which one is the last.
LEMMA LastOfAppend ==
  ASSUME NEW w \in Seq(Messages), NEW m \in Messages, NEW K
  PROVE  /\ \A n \in 0 .. Len(w), i \in 1 .. Len(w) :
              LastOf(w, K, n, i) => LastOf(Append(w, m), K, n, i)
         /\ m.kind \notin K =>
              \A i \in 1 .. Len(w) :
                LastOf(w, K, Len(w), i) => LastOf(Append(w, m), K, Len(w) + 1, i)
         /\ m.kind \in K => LastOf(Append(w, m), K, Len(w) + 1, Len(w) + 1)
<1> DEFINE v == Append(w, m)
<1>1. /\ Len(w) \in Nat /\ v[Len(w) + 1] = m
      /\ \A i \in 1 .. Len(w) : v[i] = w[i]
  OBVIOUS
<1> HIDE DEF v
<1>2. ASSUME NEW n \in 0 .. Len(w), NEW i \in 1 .. Len(w), LastOf(w, K, n, i)
      PROVE  LastOf(v, K, n, i)
  <2>1. \A j \in 1 .. n : j \in 1 .. Len(w)
    BY <1>1
  <2> QED BY <1>1, <1>2, <2>1 DEF LastOf
<1>3. ASSUME m.kind \notin K, NEW i \in 1 .. Len(w), LastOf(w, K, Len(w), i)
      PROVE  LastOf(v, K, Len(w) + 1, i)
  <2>1. ASSUME NEW j \in 1 .. Len(w) + 1, j > i PROVE v[j].kind \notin K
    <3>1. CASE j = Len(w) + 1
      BY <1>1, <1>3, <3>1
    <3>2. CASE j \in 1 .. Len(w)
      BY <1>1, <1>3, <2>1, <3>2 DEF LastOf
    <3> QED BY <1>1, <3>1, <3>2
  <2> QED BY <1>1, <1>3, <2>1 DEF LastOf
<1>4. ASSUME m.kind \in K PROVE LastOf(v, K, Len(w) + 1, Len(w) + 1)
  BY <1>1, <1>4 DEF LastOf
<1> QED BY <1>2, <1>3, <1>4 DEF v

\* The messages of a kind in K among the first n.
OfKind(w, K, n) == {j \in 1 .. n : w[j].kind \in K}

\* There is one last message of a kind, the one the properties choose.
LEMMA LastOfIsChosen ==
  ASSUME NEW w, NEW K, NEW n \in Nat, NEW i, LastOf(w, K, n, i)
  PROVE  /\ i \in OfKind(w, K, n)
         /\ \A x \in OfKind(w, K, n) : (\A k \in OfKind(w, K, n) : k <= x) <=> x = i
<1> DEFINE S == OfKind(w, K, n)
<1>1. i \in S /\ (\A k \in S : k <= i) /\ S \subseteq 1 .. n
  BY DEF LastOf, OfKind
<1>2. ASSUME NEW j \in S, \A k \in S : k <= j PROVE j = i
  BY <1>1, <1>2
<1> QED BY <1>1, <1>2

\* What a step of a goroutine writes.
LEMMA GoWrites ==
  ASSUME DispatchInv, NEW g \in Goroutines, GoNext(g)
  PROVE  /\ \A h \in Goroutines : h # g => go'[h] = go[h]
         /\ \/ UNCHANGED wire
            \/ /\ go[g].pc \in {"sendInitial", "sendDiff"}
               /\ \E m \in Messages : Write(go[g].client, m)
            \/ /\ go[g].pc \in {"sendJob", "prevHash"}
               /\ \E m \in Messages : m.kind \in JobKinds \union {"SetNewPrevHash"}
                                      /\ Write(go[g].client, m)
<1> DEFINE c == go[g].client
           Rest == \A h \in Goroutines : h # g => go'[h] = go[h]
           Nothing == UNCHANGED wire
           Diff == go[g].pc \in {"sendInitial", "sendDiff"} /\ \E m \in Messages : Write(c, m)
           Job == /\ go[g].pc \in {"sendJob", "prevHash"}
                  /\ \E m \in Messages : m.kind \in JobKinds \union {"SetNewPrevHash"} /\ Write(c, m)
           Goal == Rest /\ (Nothing \/ Diff \/ Job)
<1> SUFFICES Goal
  OBVIOUS
<1>1. go \in [Goroutines -> GoRecords] /\ go[g] \in GoRecords /\ GoodGo(go[g])
      /\ (go[g].pc # "idle" => c \in Clients)
  BY GoTypes DEF DispatchInv, TargetInv, TargetTypes, GoodGo, HasClient, GoRecords
<1>2. ASSUME NEW pc \in GoPcs, Step(g, pc)
      PROVE  Rest
  BY <1>1, <1>2 DEF Step, GoRecords
<1>3. ASSUME Finish(g) PROVE Rest
  BY <1>1, <1>3 DEF Finish, IdleGo
<1>4. c \in Clients => sv2ChannelID[c] \in Nat
  BY DEF DispatchInv, RestOK
<1>5. go[g].job \in Nat /\ go[g].varDiff \in Nat /\ go[g].block \in Blocks \union {NoJob}
      /\ MinShareDiff \in Nat
  <2>1. go[g].varDiff \in Diffs \union {0} /\ MinShareDiff \in Diffs \union {0}
    BY <1>1, DispatchMinShareDiffAssumption DEF GoRecords
  <2> QED BY <1>1, <2>1, DiffsAreNaturals DEF GoRecords
<1> HIDE DEF c, Rest
<1>6. ASSUME NEW x \in SendResults, NEW d \in Nat, sendClientDiff(c, d, x),
             go[g].pc \in {"sendInitial", "sendDiff"},
             NEW pc \in GoPcs, Step(g, pc)
      PROVE  Rest /\ (Nothing \/ Diff)
  <2> DEFINE m == Message(IF x = "failed" THEN "unsent" ELSE "set_difficulty", 0, d, 0, NoJob)
  <2>1. m \in Messages
    BY DEF Message, Messages, Kinds, DiffKinds, JobKinds
  <2>2. UNCHANGED wire \/ Write(c, m)
    BY <1>6 DEF sendClientDiff
  <2>3. Rest
    BY <1>2, <1>6
  <2> HIDE DEF m
  <2> QED BY <1>6, <2>1, <2>2, <2>3
<1>7. CASE (\E d \in Clients : Spawn(g, d)) \/ ReadAddr(g) \/ (\E b \in Blocks : FetchTemplate(g, b))
           \/ ReadVarDiff(g) \/ StoreJob(g)
  <2>1. UNCHANGED wire
    BY <1>7 DEF Spawn, ReadAddr, FetchTemplate, ReadVarDiff, StoreJob
  <2> DEFINE Moved == \A h \in Goroutines : h # g => go'[h] = go[h]
  <2>2. ASSUME NEW d \in Clients, Spawn(g, d) PROVE Moved
    BY <1>1, <2>2 DEF Spawn, IdleGo
  <2>3. ASSUME ReadAddr(g) PROVE Moved
    BY <1>1, <2>3 DEF ReadAddr, GoRecords
  <2>4. ASSUME NEW b \in Blocks, FetchTemplate(g, b) PROVE Moved
    BY <1>1, <2>4 DEF FetchTemplate, GoRecords
  <2>5. ASSUME ReadVarDiff(g) PROVE Moved
    BY <1>1, <2>5 DEF ReadVarDiff, GoRecords
  <2>6. ASSUME StoreJob(g) PROVE Moved
    BY <1>1, <2>6 DEF StoreJob, GoRecords
  <2>7. Moved
    BY <1>7, <2>2, <2>3, <2>4, <2>5, <2>6
  <2> QED BY <2>1, <2>7 DEF Rest
<1>8. CASE (\E bad \in BOOLEAN : FetchFails(g, bad)) \/ SerializeFails(g) \/ RestoreWallet(g)
  <2>1. Finish(g) /\ UNCHANGED wire
    BY <1>8 DEF FetchFails, SerializeFails, RestoreWallet
  <2> QED BY <1>3, <2>1
<1>9. CASE InitState(g) \/ SetInitialVarDiff(g) \/ Compare(g) \/ ApplyDiff(g) \/ StartTracker(g)
  <2>1. (\E pc \in GoPcs : Step(g, pc)) /\ UNCHANGED wire
    BY <1>9 DEF InitState, SetInitialVarDiff, Compare, ApplyDiff, StartTracker, GoPcs
  <2> QED BY <1>2, <2>1
<1>10. ASSUME NEW x \in SendResults, SendInitialDiff(g, x) PROVE Goal
  <2>1. /\ go[g].pc = "sendInitial" /\ sendClientDiff(c, MinShareDiff, x) /\ Step(g, "varDiff")
    BY <1>10 DEF SendInitialDiff, c
  <2>2. "varDiff" \in GoPcs
    BY DEF GoPcs
  <2> QED BY <1>5, <1>6, <2>1, <2>2
<1>11. ASSUME NEW x \in SendResults, SendDiff(g, x) PROVE Goal
  <2> DEFINE m == Message("SetTarget", sv2ChannelID[c], go[g].varDiff, 0, NoJob)
  <2>1. /\ go[g].pc = "sendDiff"
        /\ \/ Finish(g) /\ UNCHANGED wire
           \/ Step(g, "startTracker") /\ Write(c, m)
           \/ Step(g, "startTracker") /\ sendClientDiff(c, go[g].varDiff, x)
    BY <1>11 DEF SendDiff, Abort, c
  <2>2. m \in Messages
    BY <1>1, <1>4, <1>5, <2>1 DEF Message, Messages, Kinds, DiffKinds, JobKinds
  <2>3. "startTracker" \in GoPcs
    BY DEF GoPcs
  <2> HIDE DEF m
  <2>4. CASE Finish(g) /\ UNCHANGED wire
    BY <1>3, <2>4
  <2>5. CASE Step(g, "startTracker") /\ Write(c, m)
    BY <1>2, <2>1, <2>2, <2>3, <2>5
  <2>6. CASE Step(g, "startTracker") /\ sendClientDiff(c, go[g].varDiff, x)
    BY <1>5, <1>6, <2>1, <2>3, <2>6
  <2> QED BY <2>1, <2>4, <2>5, <2>6
<1>12. ASSUME NEW x \in SendResults, SendJob(g, x) PROVE Goal
  <2> DEFINE kind == IF c \in sv2Enabled THEN "NewMiningJob" ELSE "notify"
             chan == IF c \in sv2Enabled THEN sv2ChannelID[c] ELSE 0
             m == Message(kind, chan, 0, go[g].job, go[g].block)
  <2>1. /\ go[g].pc = "sendJob"
        /\ \/ Finish(g) /\ UNCHANGED wire
           \/ Step(g, "restore") /\ UNCHANGED wire
           \/ (Step(g, "restore") \/ Step(g, "prevHash")) /\ Write(c, m)
    BY <1>12 DEF SendJob, Abort, c
  <2>2. kind \in JobKinds /\ chan \in Nat /\ {"restore", "prevHash"} \subseteq GoPcs
    BY <1>1, <1>4, <2>1 DEF JobKinds, GoPcs
  <2> HIDE DEF kind, chan
  <2>3. m \in Messages /\ m.kind \in JobKinds
    BY <1>5, <2>2 DEF Message, Messages, Kinds
  <2> HIDE DEF m
  <2>4. CASE Finish(g) /\ UNCHANGED wire
    BY <1>3, <2>4
  <2>5. CASE Step(g, "restore") /\ UNCHANGED wire
    BY <1>2, <2>2, <2>5
  <2>6. CASE (Step(g, "restore") \/ Step(g, "prevHash")) /\ Write(c, m)
    BY <1>2, <2>1, <2>2, <2>3, <2>6
  <2> QED BY <2>1, <2>4, <2>5, <2>6
<1>13. ASSUME NEW x \in SendResults, SendPrevHash(g, x) PROVE Goal
  <2> DEFINE m == Message("SetNewPrevHash", sv2ChannelID[c], 0, go[g].job, NoJob)
  <2>1. /\ go[g].pc = "prevHash"
        /\ \/ Finish(g) /\ UNCHANGED wire
           \/ Step(g, "restore") /\ Write(c, m)
    BY <1>13 DEF SendPrevHash, Abort, c
  <2>2. m \in Messages /\ m.kind = "SetNewPrevHash"
    BY <1>1, <1>4, <1>5, <2>1 DEF Message, Messages, Kinds
  <2>3. "restore" \in GoPcs
    BY DEF GoPcs
  <2> HIDE DEF m
  <2>4. CASE Finish(g) /\ UNCHANGED wire
    BY <1>3, <2>4
  <2>5. CASE Step(g, "restore") /\ Write(c, m)
    BY <1>2, <2>1, <2>2, <2>3, <2>5
  <2> QED BY <2>1, <2>4, <2>5
<1> QED
  BY <1>7, <1>8, <1>9, <1>10, <1>11, <1>12, <1>13 DEF GoNext

----------------------------------------------------------------------------
(* The difficulty of a v1 client, one goroutine at a time                   *)

\* The miner was told the difficulty in force, or the write was given up.
AnnounceKinds == DiffKinds \union {"unsent"}
Told(c) ==
  \E i \in 1 .. Len(wire[c]) :
    /\ LastOf(wire[c], AnnounceKinds, Len(wire[c]), i)
    /\ wire[c][i].kind # "unsent" => wire[c][i].diff = stratumDiff[c]

\* Where a goroutine has changed the difficulty and not yet sent it.
Untold == {"setVarDiff", "sendInitial", "sendDiff"}

Busy(c, P) == \E g \in Goroutines : go[g].client = c /\ go[g].pc \in P

\* What goroutine r of client c relies on.
GoDiff(r, c) ==
  /\ r.pc \in {"setVarDiff", "sendInitial"} => stratumDiff[c] = MinShareDiff
  /\ r.pc = "sendDiff" => r.varDiff = stratumDiff[c]

\* Where the reader goroutine of a v1 client may be.
V1Pcs == {"idle", "worker"}

DiffOf(c) ==
  /\ reader[c].pc \in V1Pcs /\ c \notin sv2Enabled
  /\ \A g \in Goroutines : go[g].client = c => GoDiff(go[g], c)
  /\ c \notin initialized => stratumDiff[c] = NoDiff
  /\ c \in initialized /\ c \notin disconnecting /\ ~Busy(c, Untold) => Told(c)

\* The inductive invariant.
DiffInv == \A c \in Clients : proto[c] = "v1" => DiffOf(c)

\* A step that leaves what DiffOf says of c alone.
Frame(c) ==
  /\ reader[c].pc \in V1Pcs => reader'[c].pc \in V1Pcs
  /\ c \in sv2Enabled' <=> c \in sv2Enabled
  /\ c \in initialized' <=> c \in initialized
  /\ stratumDiff'[c] = stratumDiff[c]
  /\ c \in disconnecting => c \in disconnecting'
  /\ Told(c) => Told(c)'
  /\ \A g \in Goroutines :
       \/ go'[g] = go[g]
       \/ /\ go[g].client = c => go[g].pc \notin Untold
          /\ go'[g].client = c => go'[g].pc \notin Untold

\* Such a step keeps it.
LEMMA FrameKeeps ==
  ASSUME NEW c \in Clients, DiffOf(c), Frame(c)
  PROVE  DiffOf(c)'
<1>1. Busy(c, Untold) => Busy(c, Untold)'
  <2> SUFFICES ASSUME Busy(c, Untold) PROVE Busy(c, Untold)'
    OBVIOUS
  <2>1. PICK g \in Goroutines : go[g].client = c /\ go[g].pc \in Untold
    BY DEF Busy
  <2>2. go'[g] = go[g]
    BY <2>1 DEF Frame
  <2> QED BY <2>1, <2>2 DEF Busy, Untold
<1>3. ASSUME NEW g \in Goroutines, go'[g].client = c PROVE GoDiff(go[g], c)'
  <2>1. CASE go'[g] = go[g]
    <3>1. GoDiff(go[g], c)
      BY <1>3, <2>1 DEF DiffOf
    <3> QED BY <2>1, <3>1 DEF Frame, GoDiff
  <2>2. CASE go'[g].pc \notin Untold
    BY <2>2 DEF GoDiff, Untold
  <2> QED BY <1>3, <2>1, <2>2 DEF Frame
<1> HIDE DEF Busy, GoDiff
<1> QED BY <1>1, <1>3 DEF Frame, DiffOf

\* A message of another kind leaves the last announcement what it was.
LEMMA WriteKeepsTold ==
  ASSUME DispatchInv, NEW c \in Clients, NEW m \in Messages, Write(c, m)
  PROVE  /\ m.kind \notin AnnounceKinds /\ stratumDiff'[c] = stratumDiff[c] /\ Told(c) => Told(c)'
         /\ m.kind \in AnnounceKinds /\ (m.kind # "unsent" => m.diff = stratumDiff'[c]) => Told(c)'
         /\ \A d \in Clients : d # c => wire'[d] = wire[d]
<1> DEFINE w == wire[c]
           v == wire'[c]
           L == Len(w)
<1>1. w \in Seq(Messages) /\ v = Append(w, m) /\ \A d \in Clients : d # c => wire'[d] = wire[d]
  BY DEF DispatchInv, WireOK, Write
<1>2. /\ L \in Nat /\ Len(v) = L + 1 /\ v[L + 1] = m
      /\ \A i \in 1 .. L : v[i] = w[i]
  BY <1>1
<1>3. m.kind \notin AnnounceKinds =>
        \A i \in 1 .. L : LastOf(w, AnnounceKinds, L, i) => LastOf(v, AnnounceKinds, L + 1, i)
  BY <1>1, LastOfAppend
<1>4. m.kind \in AnnounceKinds => LastOf(v, AnnounceKinds, L + 1, L + 1)
  BY <1>1, LastOfAppend
<1>5. Told(c) <=> \E i \in 1 .. L : /\ LastOf(w, AnnounceKinds, L, i)
                                    /\ w[i].kind # "unsent" => w[i].diff = stratumDiff[c]
  BY DEF Told
<1>6. Told(c)' <=> \E i \in 1 .. Len(v) : /\ LastOf(v, AnnounceKinds, Len(v), i)
                                          /\ v[i].kind # "unsent" => v[i].diff = stratumDiff'[c]
  BY DEF Told, AnnounceKinds
<1> HIDE DEF w, v, L
<1>7. ASSUME m.kind \notin AnnounceKinds, stratumDiff'[c] = stratumDiff[c], Told(c) PROVE Told(c)'
  <2>1. PICK i \in 1 .. L : /\ LastOf(w, AnnounceKinds, L, i)
                            /\ w[i].kind # "unsent" => w[i].diff = stratumDiff[c]
    BY <1>5, <1>7
  <2>2. i \in 1 .. L + 1 /\ v[i] = w[i] /\ LastOf(v, AnnounceKinds, L + 1, i)
    BY <1>2, <1>3, <1>7, <2>1
  <2> QED BY <1>2, <1>6, <1>7, <2>1, <2>2
<1>8. ASSUME m.kind \in AnnounceKinds, m.kind # "unsent" => m.diff = stratumDiff'[c] PROVE Told(c)'
  BY <1>2, <1>4, <1>6, <1>8
<1> QED BY <1>1, <1>7, <1>8

\* Told is about one stream and one difficulty.
LEMMA SameTold ==
  ASSUME NEW c, wire'[c] = wire[c], stratumDiff'[c] = stratumDiff[c], Told(c)
  PROVE  Told(c)'
BY DEF Told, AnnounceKinds

Plain == {"idle", "addr", "template", "addJob", "sendJob", "prevHash", "restore"}

\* A step of a goroutine leaves the other clients alone, and the steps before
\* the mining state is initialised and from AddJob on its own client as well.
LEMMA GoFrame ==
  ASSUME DispatchInv, NEW g \in Goroutines, GoNext(g), NEW d \in Clients,
         d # go[g].client \/ go[g].pc \in Plain
  PROVE  Frame(d)
<1> DEFINE c == go[g].client
<1>1. UNCHANGED <<sv2Enabled, reader>>
  BY DEF GoNext, Spawn, ReadAddr, FetchTemplate, FetchFails, SerializeFails, InitState,
         SetInitialVarDiff, SendInitialDiff, ReadVarDiff, Compare, ApplyDiff, SendDiff, Abort,
         StartTracker, StoreJob, SendJob, SendPrevHash, RestoreWallet, ctxVars, identityVars, channelVars
<1>2. disconnecting' = disconnecting \/ disconnecting' = disconnecting \union {c}
  BY DEF GoNext, Spawn, ReadAddr, FetchTemplate, FetchFails, SerializeFails, InitState,
         SetInitialVarDiff, SendInitialDiff, ReadVarDiff, Compare, ApplyDiff, SendDiff, Abort,
         StartTracker, StoreJob, SendJob, SendPrevHash, RestoreWallet, ctxVars, identityVars, channelVars
<1>5. initialized' = initialized \/ (go[g].pc \notin Plain /\ initialized' = initialized \union {c})
  BY DEF GoNext, Spawn, ReadAddr, FetchTemplate, FetchFails, SerializeFails, InitState,
         SetInitialVarDiff, SendInitialDiff, ReadVarDiff, Compare, ApplyDiff, SendDiff, Abort,
         StartTracker, StoreJob, SendJob, SendPrevHash, RestoreWallet, miningStateVars, diffVars,
         SetNetworkTarget, SetStratumDiff, InitializeIfNeeded, Plain
<1>6. stratumDiff' = stratumDiff
        \/ (go[g].pc \notin Plain /\ stratumDiff' = [stratumDiff EXCEPT ![c] = MinShareDiff])
        \/ (go[g].pc \notin Plain /\ stratumDiff' = [stratumDiff EXCEPT ![c] = go[g].varDiff])
  BY DEF GoNext, Spawn, ReadAddr, FetchTemplate, FetchFails, SerializeFails, InitState,
         SetInitialVarDiff, SendInitialDiff, ReadVarDiff, Compare, ApplyDiff, SendDiff, Abort,
         StartTracker, StoreJob, SendJob, SendPrevHash, RestoreWallet, miningStateVars, diffVars,
         SetNetworkTarget, SetStratumDiff, InitializeIfNeeded, Plain
<1>7. stratumDiff'[d] = stratumDiff[d]
  <2>1. stratumDiff \in [Clients -> Diffs \union {NoDiff}]
    BY DEF DispatchInv, TargetInv, TargetTypes
  <2> QED BY <1>6, <2>1
<1>8. Told(d) => Told(d)'
  <2>1. ASSUME NEW m \in Messages, Write(c, m), c \in Clients,
               d # c \/ m.kind \notin AnnounceKinds, Told(d)
        PROVE  Told(d)'
    <3>1. CASE d # c
      BY <1>7, <2>1, <3>1, WriteKeepsTold, SameTold
    <3>2. CASE d = c
      BY <1>7, <2>1, <3>2, WriteKeepsTold
    <3> QED BY <3>1, <3>2
  <2>2. CASE UNCHANGED wire
    BY <1>7, <2>2, SameTold
  <2>3. go[g].pc # "idle" => c \in Clients
    BY GoTypes DEF DispatchInv, GoodGo, HasClient, GoRecords
  <2>4. \A k \in JobKinds \union {"SetNewPrevHash"} : k \notin AnnounceKinds
    BY DEF AnnounceKinds, JobKinds, DiffKinds
  <2>5. go[g].pc \in {"sendInitial", "sendDiff"} => d # c
    BY DEF Plain
  <2>6. CASE go[g].pc \in {"sendInitial", "sendDiff"} /\ \E m \in Messages : Write(c, m)
    BY <2>1, <2>3, <2>5, <2>6
  <2>7. CASE /\ go[g].pc \in {"sendJob", "prevHash"}
             /\ \E m \in Messages : m.kind \in JobKinds \union {"SetNewPrevHash"} /\ Write(c, m)
    BY <2>1, <2>3, <2>4, <2>7
  <2> QED BY <2>2, <2>6, <2>7, GoWrites
<1>9. ASSUME NEW h \in Goroutines
      PROVE  \/ go'[h] = go[h]
             \/ /\ go[h].client = d => go[h].pc \notin Untold
                /\ go'[h].client = d => go'[h].pc \notin Untold
  <2>1. CASE h # g
    BY <2>1, GoWrites
  <2>2. CASE h = g
    <3> DEFINE Quiet == /\ go[g].pc \in Plain => go'[g].pc \notin Untold
                        /\ go[g].pc \notin Plain => go'[g].client = c \/ go'[g].pc \notin Untold
    <3>1. go \in [Goroutines -> GoRecords] /\ go[g] \in GoRecords
      BY GoTypes DEF DispatchInv, TargetInv, TargetTypes
    <3>2. ASSUME Finish(g) PROVE Quiet
      BY <3>1, <3>2 DEF Finish, IdleGo, Untold
    <3>3. ASSUME NEW pc \in GoPcs, Step(g, pc), go[g].pc \in Plain => pc \notin Untold PROVE Quiet
      BY <3>1, <3>3 DEF Step, GoRecords
    <3>4. ASSUME NEW e \in Clients, Spawn(g, e) PROVE Quiet
      BY <3>1, <3>4 DEF Spawn, IdleGo, Untold, Plain
    <3>5. ASSUME ReadAddr(g) PROVE Quiet
      BY <3>1, <3>5 DEF ReadAddr, GoRecords, Untold, Plain
    <3>6. ASSUME NEW b \in Blocks, FetchTemplate(g, b) PROVE Quiet
      BY <3>1, <3>6 DEF FetchTemplate, GoRecords, Untold, Plain
    <3>7. ASSUME ReadVarDiff(g) PROVE Quiet
      BY <3>1, <3>7 DEF ReadVarDiff, GoRecords, Plain
    <3>8. ASSUME StoreJob(g) PROVE Quiet
      BY <3>1, <3>8 DEF StoreJob, GoRecords, Untold
    <3>9. \/ Finish(g)
          \/ \E pc \in GoPcs : Step(g, pc) /\ (go[g].pc \in Plain => pc \notin Untold)
          \/ (\E e \in Clients : Spawn(g, e)) \/ ReadAddr(g)
          \/ (\E b \in Blocks : FetchTemplate(g, b)) \/ ReadVarDiff(g) \/ StoreJob(g)
      BY DEF GoNext, FetchFails, SerializeFails, InitState, SetInitialVarDiff, SendInitialDiff,
             Compare, ApplyDiff, SendDiff, Abort, StartTracker, SendJob, SendPrevHash,
             RestoreWallet, GoPcs, Untold, Plain
    <3>10. Quiet
      BY <3>2, <3>3, <3>4, <3>5, <3>6, <3>7, <3>8, <3>9
    <3>11. Plain \intersect Untold = {}
      BY DEF Plain, Untold
    <3> QED BY <2>2, <3>10, <3>11
  <2> QED BY <2>1, <2>2
<1> QED BY <1>1, <1>2, <1>5, <1>7, <1>8, <1>9 DEF Frame

\* A goroutine that is alone with its client and not in P is the proof that
\* none is.
LEMMA NotBusy ==
  ASSUME OneEach, NEW g \in Goroutines, NEW c, go[g].client = c, go[g].pc # "idle",
         NEW P, "idle" \notin P, go[g].pc \notin P
  PROVE  ~Busy(c, P)
BY DEF OneEach, Busy

\* A step of the one goroutine of c.
LEMMA OwnStep ==
  ASSUME OneEach, NEW c \in Clients, NEW g \in Goroutines, go[g].client = c, go[g].pc # "idle",
         \A h \in Goroutines : h # g => go'[h] = go[h],
         go'[g].client = c,
         reader'[c].pc \in V1Pcs, c \notin sv2Enabled', c \in initialized',
         GoDiff(go[g], c)',
         c \in disconnecting' \/ go'[g].pc \in Untold \/ Told(c)'
  PROVE  DiffOf(c)'
<1>1. ASSUME NEW h \in Goroutines, go'[h].client = c PROVE GoDiff(go[h], c)'
  <2>1. CASE h # g
    <3>1. go'[h].pc = "idle"
      BY <1>1, <2>1 DEF OneEach
    <3> QED BY <3>1 DEF GoDiff
  <2> QED BY <2>1
<1>3. go'[g].pc \in Untold => Busy(c, Untold)'
  BY DEF Busy, Untold
<1> QED BY <1>1, <1>3 DEF DiffOf

\* The steps from the initialisation of the mining state to the restart of the
\* tracker.
LEMMA OwnDiff ==
  ASSUME DispatchInv, OneEach, ~SoloMining, NEW g \in Goroutines, GoNext(g), go[g].pc \notin Plain,
         NEW c \in Clients, go[g].client = c, DiffOf(c)
  PROVE  DiffOf(c)'
<1>1. go \in [Goroutines -> GoRecords] /\ go[g] \in GoRecords /\ go[g].pc # "idle"
  BY GoTypes DEF DispatchInv, TargetInv, TargetTypes, Plain
<1>2. /\ stratumDiff \in [Clients -> Diffs \union {NoDiff}]
      /\ \A h \in Goroutines : h # g => go'[h] = go[h]
  BY GoWrites DEF DispatchInv, TargetInv, TargetTypes
<1>3. /\ reader[c].pc \in V1Pcs /\ c \notin sv2Enabled /\ GoDiff(go[g], c)
      /\ c \notin initialized => stratumDiff[c] = NoDiff
  BY DEF DiffOf
<1>4. UNCHANGED <<sv2Enabled, reader>>
  BY DEF GoNext, Spawn, ReadAddr, FetchTemplate, FetchFails, SerializeFails, InitState,
         SetInitialVarDiff, SendInitialDiff, ReadVarDiff, Compare, ApplyDiff, SendDiff, Abort,
         StartTracker, StoreJob, SendJob, SendPrevHash, RestoreWallet, ctxVars, channelVars
<1>5. go[g].pc # "init" => c \in initialized
  BY <1>1 DEF DispatchInv, TargetInv, GoodGo, AfterInit, HasBlock, HasClient, GoRecords, Plain
<1>6. go[g].pc \notin Untold /\ c \in initialized => c \in disconnecting \/ Told(c)
  BY <1>1, NotBusy DEF DiffOf, Untold
<1>7. ASSUME NEW pc \in GoPcs, Step(g, pc)
      PROVE  go'[g].pc = pc /\ go'[g].client = c /\ go'[g].varDiff = go[g].varDiff
  BY <1>1, <1>7 DEF Step, GoRecords
\* A step that leaves the difficulty alone, to where nothing is relied on.
<1>8. ASSUME go[g].pc \notin Untold, go'[g].pc \notin Untold, go'[g].client = c, c \in initialized,
             UNCHANGED <<initialized, stratumDiff, disconnecting, wire>>
      PROVE  DiffOf(c)'
  <2>1. c \in disconnecting' \/ Told(c)'
    BY <1>6, <1>8, SameTold
  <2>2. GoDiff(go[g], c)'
    BY <1>8 DEF GoDiff, Untold
  <2> QED BY <1>1, <1>2, <1>3, <1>4, <1>8, <2>1, <2>2, OwnStep
<1>9. CASE SerializeFails(g)
  <2>1. Frame(c)
    <3>1. /\ Finish(g) /\ go[g].pc = "init"
          /\ UNCHANGED <<stratumDiff, initialized, disconnecting, wire>>
      BY <1>9 DEF SerializeFails, miningStateVars, ctxVars
    <3>2. go'[g].pc \notin Untold /\ go[g].pc \notin Untold
      BY <1>1, <3>1 DEF Finish, IdleGo, Untold
    <3>3. Told(c) => Told(c)'
      BY <3>1, SameTold
    <3> QED BY <1>2, <1>4, <3>1, <3>2, <3>3 DEF Frame
  <2> QED BY <2>1, FrameKeeps
<1>10. CASE InitState(g)
  <2>1. /\ go[g].pc = "init" /\ InitializeIfNeeded(c, MinShareDiff)
        /\ Step(g, IF c \in initialized THEN "varDiff" ELSE "setVarDiff")
        /\ UNCHANGED <<disconnecting, wire>>
    BY <1>10 DEF InitState, ctxVars
  <2>2. CASE c \in initialized
    <3>1. UNCHANGED <<initialized, stratumDiff>> /\ Step(g, "varDiff") /\ "varDiff" \in GoPcs
      BY <2>1, <2>2 DEF InitializeIfNeeded, GoPcs
    <3>2. go'[g].pc = "varDiff" /\ go'[g].client = c
      BY <1>7, <3>1
    <3> QED BY <1>8, <2>1, <2>2, <3>1, <3>2 DEF Untold
  <2>3. CASE c \notin initialized
    <3>1. /\ c \in initialized' /\ stratumDiff'[c] = MinShareDiff
          /\ Step(g, "setVarDiff") /\ "setVarDiff" \in GoPcs
      BY <1>2, <2>1, <2>3 DEF InitializeIfNeeded, GoPcs
    <3>2. go'[g].pc = "setVarDiff" /\ go'[g].client = c
      BY <1>7, <3>1
    <3>3. GoDiff(go[g], c)' /\ go'[g].pc \in Untold
      BY <3>1, <3>2 DEF GoDiff, Untold
    <3> QED BY <1>1, <1>2, <1>3, <1>4, <3>1, <3>2, <3>3, OwnStep
  <2> QED BY <2>2, <2>3
<1>11. CASE SetInitialVarDiff(g)
  <2>1. /\ go[g].pc = "setVarDiff" /\ Step(g, "sendInitial") /\ "sendInitial" \in GoPcs
        /\ UNCHANGED <<initialized, stratumDiff, disconnecting, wire>>
    BY <1>3, <1>11 DEF SetInitialVarDiff, ctxVars, miningStateVars, GoPcs
  <2>2. go'[g].pc = "sendInitial" /\ go'[g].client = c
    BY <1>7, <2>1
  <2>3. GoDiff(go[g], c)' /\ go'[g].pc \in Untold /\ c \in initialized'
    BY <1>3, <1>5, <2>1, <2>2 DEF GoDiff, Untold
  <2> QED BY <1>1, <1>2, <1>3, <1>4, <2>2, <2>3, OwnStep
<1>12. ASSUME NEW x \in SendResults, NEW d \in Nat, sendClientDiff(c, d, x), d = stratumDiff[c],
              UNCHANGED <<stratumDiff, disconnecting>>
       PROVE  c \in disconnecting' \/ Told(c)'
  <2> DEFINE m == Message(IF x = "failed" THEN "unsent" ELSE "set_difficulty", 0, d, 0, NoJob)
  <2>1. m \in Messages /\ m.kind \in AnnounceKinds /\ m.diff = d
    BY DEF Message, Messages, Kinds, DiffKinds, JobKinds, AnnounceKinds
  <2>2. c \in disconnecting' \/ Write(c, m)
    BY <1>12 DEF sendClientDiff
  <2> HIDE DEF m
  <2> QED BY <1>12, <2>1, <2>2, WriteKeepsTold
<1>13. ASSUME NEW x \in SendResults, SendInitialDiff(g, x) PROVE DiffOf(c)'
  <2>1. /\ go[g].pc = "sendInitial" /\ sendClientDiff(c, MinShareDiff, x) /\ Step(g, "varDiff")
        /\ "varDiff" \in GoPcs /\ UNCHANGED <<initialized, stratumDiff, disconnecting>>
    BY <1>13 DEF SendInitialDiff, ctxVars, miningStateVars, GoPcs
  <2>2. go'[g].pc = "varDiff" /\ go'[g].client = c
    BY <1>7, <2>1
  <2>3. MinShareDiff = stratumDiff[c] /\ MinShareDiff \in Nat
    BY <1>3, <2>1, DispatchMinShareDiffAssumption, DiffsAssumption DEF GoDiff
  <2>4. c \in disconnecting' \/ Told(c)'
    BY <1>12, <2>1, <2>3
  <2>5. GoDiff(go[g], c)' /\ c \in initialized'
    BY <1>5, <2>1, <2>2 DEF GoDiff
  <2> QED BY <1>1, <1>2, <1>3, <1>4, <2>2, <2>4, <2>5, OwnStep
<1>14. CASE ReadVarDiff(g)
  <2>1. /\ go[g].pc = "varDiff"
        /\ go' = [go EXCEPT ![g].varDiff = minDiff[workerStatsKey(c)], ![g].pc = "compare"]
        /\ UNCHANGED <<initialized, stratumDiff, disconnecting, wire>>
    BY <1>14 DEF ReadVarDiff, ctxVars, miningStateVars
  <2>2. go'[g].pc = "compare" /\ go'[g].client = c
    BY <1>1, <2>1 DEF GoRecords
  <2> QED BY <1>5, <1>8, <2>1, <2>2 DEF Untold
<1>15. CASE Compare(g)
  <2>1. /\ go[g].pc = "compare" /\ \E pc \in {"addJob", "setDiff"} : Step(g, pc)
        /\ {"addJob", "setDiff"} \subseteq GoPcs
        /\ UNCHANGED <<initialized, stratumDiff, disconnecting, wire>>
    BY <1>15 DEF Compare, ctxVars, miningStateVars, GoPcs
  <2>2. go'[g].pc \in {"addJob", "setDiff"} /\ go'[g].client = c
    BY <1>7, <2>1
  <2> QED BY <1>5, <1>8, <2>1, <2>2 DEF Untold
<1>16. CASE ApplyDiff(g)
  <2>1. /\ go[g].pc = "setDiff" /\ SetStratumDiff(c, go[g].varDiff) /\ Step(g, "sendDiff")
        /\ "sendDiff" \in GoPcs
    BY <1>16 DEF ApplyDiff, GoPcs
  <2>2. go'[g].pc = "sendDiff" /\ go'[g].client = c /\ go'[g].varDiff = go[g].varDiff
    BY <1>7, <2>1
  <2>3. stratumDiff'[c] = go[g].varDiff /\ c \in initialized'
    BY <1>2, <1>5, <2>1 DEF SetStratumDiff
  <2>4. GoDiff(go[g], c)' /\ go'[g].pc \in Untold
    BY <2>2, <2>3 DEF GoDiff, Untold
  <2> QED BY <1>1, <1>2, <1>3, <1>4, <2>2, <2>3, <2>4, OwnStep
<1>17. ASSUME NEW x \in SendResults, SendDiff(g, x) PROVE DiffOf(c)'
  <2>1. /\ go[g].pc = "sendDiff" /\ sendClientDiff(c, go[g].varDiff, x) /\ Step(g, "startTracker")
        /\ "startTracker" \in GoPcs
        /\ UNCHANGED <<initialized, stratumDiff, disconnecting>>
    BY <1>3, <1>17 DEF SendDiff, ctxVars, miningStateVars, GoPcs
  <2>2. go'[g].pc = "startTracker" /\ go'[g].client = c
    BY <1>7, <2>1
  <2>3. go[g].varDiff = stratumDiff[c] /\ go[g].varDiff \in Nat
    <3>1. go[g].varDiff \in Diffs \union {0}
      BY <1>1 DEF GoRecords
    <3> QED BY <1>3, <2>1, <3>1, DiffsAreNaturals DEF GoDiff
  <2>4. c \in disconnecting' \/ Told(c)'
    BY <1>12, <2>1, <2>3
  <2>5. GoDiff(go[g], c)' /\ c \in initialized'
    BY <1>5, <2>1, <2>2 DEF GoDiff
  <2> QED BY <1>1, <1>2, <1>3, <1>4, <2>2, <2>4, <2>5, OwnStep
<1>18. CASE StartTracker(g)
  <2>1. /\ go[g].pc = "startTracker" /\ Step(g, "addJob") /\ "addJob" \in GoPcs
        /\ UNCHANGED <<initialized, stratumDiff, disconnecting, wire>>
    BY <1>18 DEF StartTracker, ctxVars, miningStateVars, GoPcs
  <2>2. go'[g].pc = "addJob" /\ go'[g].client = c
    BY <1>7, <2>1
  <2> QED BY <1>5, <1>8, <2>1, <2>2 DEF Untold
<1>19. \/ SerializeFails(g) \/ InitState(g) \/ SetInitialVarDiff(g)
       \/ (\E x \in SendResults : SendInitialDiff(g, x)) \/ ReadVarDiff(g) \/ Compare(g)
       \/ ApplyDiff(g) \/ (\E x \in SendResults : SendDiff(g, x)) \/ StartTracker(g)
  BY DEF GoNext, Spawn, ReadAddr, FetchTemplate, FetchFails, StoreJob, SendJob, SendPrevHash,
         RestoreWallet, Plain
<1> QED BY <1>9, <1>10, <1>11, <1>13, <1>14, <1>15, <1>16, <1>17, <1>18, <1>19

\* The vardiff thread touches the entries of the workers only.
LEMMA RetargetFrame ==
  ASSUME NEW k, NEW d, Retarget(k, d), NEW c
  PROVE  Frame(c)
<1>1. UNCHANGED <<sv2Enabled, initialized, stratumDiff, wire, reader, go, disconnecting>>
  BY DEF Retarget, miningStateVars, ctxVars, channelVars
<1>2. Told(c) => Told(c)'
  BY <1>1, SameTold
<1> QED BY <1>1, <1>2 DEF Frame

\* The reader of a v1 client does nothing to its difficulty, and no step of one
\* client anything to that of another.
LEMMA ClientFrame ==
  ASSUME DispatchInv, NEW c \in Clients, ClientNext(c), NEW d \in Clients, proto[d] = "v1", DiffOf(d)
  PROVE  Frame(d)
<1>1. UNCHANGED go
  BY DEF ClientNext, AuthorizeWallet, AssignWorker, SetupConnection, OpenChannelTooEarly,
         OpenChannel, EnableSV2,
         StoreChannelID, ChannelInit, ChannelVarDiff, ChannelTarget, OpenChannelSuccess, Disconnect
<1>2. /\ stratumDiff \in [Clients -> Diffs \union {NoDiff}]
      /\ wire \in [Clients -> Seq(Messages)]
      /\ reader \in [Clients -> ReaderRecords]
  BY DEF DispatchInv, TargetInv, TargetTypes, WireOK, RestOK
<1>3. CASE d = c
  <2>1. \/ \E i \in Identities[c] : AuthorizeWallet(c, i[1])
        \/ \E w \in Workers \union {Anonymous} : AssignWorker(c, w)
        \/ Disconnect(c)
    <3>1. proto[c] # "v2" /\ reader[c].pc \in V1Pcs
      BY <1>3 DEF DiffOf
    <3> QED BY <1>3, <3>1 DEF V1Pcs, ClientNext, SetupConnection, OpenChannelTooEarly, OpenChannel,
           EnableSV2, StoreChannelID, ChannelInit, ChannelVarDiff, ChannelTarget,
           OpenChannelSuccess, ReaderStep
  <2>2. /\ UNCHANGED <<sv2Enabled, initialized, stratumDiff, wire>>
        /\ disconnecting \subseteq disconnecting'
    BY <2>1 DEF AuthorizeWallet, AssignWorker, Disconnect, miningStateVars, channelVars
  <2>3. reader'[c].pc \in {reader[c].pc, "idle", "worker"}
    <3>1. reader' = reader \/ \E p \in {"idle", "worker"} : reader' = [reader EXCEPT ![c].pc = p]
      BY <1>3, <2>1 DEF AuthorizeWallet, AssignWorker, Disconnect, ReaderStep
    <3> QED BY <1>2, <3>1 DEF ReaderRecords
  <2>4. Told(d) => Told(d)'
    BY <2>2, SameTold
  <2> QED BY <1>1, <1>3, <2>2, <2>3, <2>4 DEF Frame, V1Pcs
<1>4. CASE d # c
  <2>1. /\ disconnecting \subseteq disconnecting'
        /\ sv2Enabled' \in {sv2Enabled, sv2Enabled \union {c}}
    BY DEF ClientNext, AuthorizeWallet, AssignWorker, SetupConnection, OpenChannelTooEarly,
         OpenChannel, EnableSV2,
           StoreChannelID, ChannelInit, ChannelVarDiff, ChannelTarget, OpenChannelSuccess, Disconnect, ctxVars, identityVars, channelVars
  <2>4. initialized' \in {initialized, initialized \union {c}}
    BY DEF ClientNext, AuthorizeWallet, AssignWorker, SetupConnection, OpenChannelTooEarly,
         OpenChannel, EnableSV2,
           StoreChannelID, ChannelInit, ChannelVarDiff, ChannelTarget, OpenChannelSuccess, Disconnect, miningStateVars, InitializeIfNeeded, SetStratumDiff
  <2>5. \E n : stratumDiff' = stratumDiff \/ stratumDiff' = [stratumDiff EXCEPT ![c] = n]
    BY DEF ClientNext, AuthorizeWallet, AssignWorker, SetupConnection, OpenChannelTooEarly,
         OpenChannel, EnableSV2,
           StoreChannelID, ChannelInit, ChannelVarDiff, ChannelTarget, OpenChannelSuccess, Disconnect, miningStateVars, InitializeIfNeeded, SetStratumDiff
  <2>6. \E m : wire' = wire \/ Write(c, m)
    BY DEF ClientNext, AuthorizeWallet, AssignWorker, SetupConnection, OpenChannelTooEarly,
         OpenChannel, EnableSV2,
           StoreChannelID, ChannelInit, ChannelVarDiff, ChannelTarget, OpenChannelSuccess, Disconnect
  <2>7. reader'[d] = reader[d]
    BY <1>2, <1>4 DEF ClientNext, AuthorizeWallet, AssignWorker, SetupConnection, OpenChannelTooEarly,
         OpenChannel, EnableSV2,
           StoreChannelID, ChannelInit, ChannelVarDiff, ChannelTarget, OpenChannelSuccess, Disconnect, ReaderStep
  <2>8. stratumDiff'[d] = stratumDiff[d] /\ wire'[d] = wire[d]
    BY <1>2, <1>4, <2>5, <2>6 DEF Write
  <2>9. Told(d) => Told(d)'
    BY <2>8, SameTold
  <2> QED BY <1>1, <1>4, <2>1, <2>4, <2>7, <2>8, <2>9 DEF Frame
<1> QED BY <1>3, <1>4

\* The invariant of the difficulty.
LEMMA DiffInvHolds == ~SoloMining => (Spec /\ []OneEach => []DiffInv)
<1> SUFFICES ASSUME ~SoloMining PROVE Spec /\ []OneEach => []DiffInv
  OBVIOUS
<1>1. Init => DiffInv
  BY DEF Init, MiningStateInit, IdleGo, DiffInv, DiffOf, GoDiff, V1Pcs
<1>2. DispatchInv /\ OneEach /\ DiffInv /\ [Next]_vars => DiffInv'
  <2> SUFFICES ASSUME DispatchInv, OneEach, DiffInv, [Next]_vars,
                      NEW d \in Clients, proto'[d] = "v1"
               PROVE  DiffOf(d)'
    BY DEF DiffInv
  <2>1. UNCHANGED proto
    <3>1. CASE UNCHANGED vars
      BY <3>1 DEF vars, ctxVars
    <3>2. ASSUME NEW g \in Goroutines, GoNext(g) PROVE UNCHANGED proto
      BY <3>2 DEF ctxVars, identityVars, channelVars, GoNext, Spawn, ReadAddr, FetchTemplate, FetchFails, SerializeFails,
           InitState, SetInitialVarDiff, SendInitialDiff, ReadVarDiff, Compare, ApplyDiff, SendDiff,
           Abort, StartTracker, StoreJob, SendJob, SendPrevHash, RestoreWallet
    <3>3. ASSUME NEW c \in Clients, ClientNext(c) PROVE UNCHANGED proto
      BY <3>3 DEF ctxVars, identityVars, channelVars, ClientNext, AuthorizeWallet, AssignWorker, SetupConnection, OpenChannelTooEarly, OpenChannel,
           EnableSV2, StoreChannelID, ChannelInit, ChannelVarDiff, ChannelTarget, OpenChannelSuccess, Disconnect
    <3>4. ASSUME NEW k \in Keys, NEW n \in Diffs \union {0}, Retarget(k, n) PROVE UNCHANGED proto
      BY <3>4 DEF Retarget, ctxVars
    <3> QED BY <3>1, <3>2, <3>3, <3>4 DEF Next
  <2>2. proto[d] = "v1" /\ DiffOf(d)
    BY <2>1 DEF DiffInv
  <2>3. CASE UNCHANGED vars
    <3>1. UNCHANGED <<sv2Enabled, initialized, stratumDiff, wire, reader, go, disconnecting>>
      BY <2>3 DEF vars, miningStateVars, ctxVars, channelVars
    <3>2. Told(d) => Told(d)'
      BY <3>1, SameTold
    <3>3. Frame(d)
      BY <3>1, <3>2 DEF Frame
    <3> QED BY <2>2, <3>3, FrameKeeps
  <2>4. ASSUME NEW g \in Goroutines, GoNext(g) PROVE DiffOf(d)'
    <3>1. CASE d # go[g].client \/ go[g].pc \in Plain
      BY <2>2, <2>4, <3>1, GoFrame, FrameKeeps
    <3>2. CASE d = go[g].client /\ go[g].pc \notin Plain
      BY <2>2, <2>4, <3>2, OwnDiff
    <3> QED BY <3>1, <3>2
  <2>5. ASSUME NEW c \in Clients, ClientNext(c) PROVE DiffOf(d)'
    BY <2>2, <2>5, ClientFrame, FrameKeeps
  <2>6. ASSUME NEW k \in Keys, NEW n \in Diffs \union {0}, Retarget(k, n) PROVE DiffOf(d)'
    BY <2>2, <2>6, RetargetFrame, FrameKeeps
  <2> QED BY <2>3, <2>4, <2>5, <2>6 DEF Next
<1> QED BY <1>1, <1>2, DispatchInvHolds, PTL DEF Spec

\* With the vardiff difficulties and one goroutine of a client at a time, a v1
\* miner works on the difficulty its shares are judged by whenever none is
\* running, or writing the last announcement was given up.
THEOREM MinersKnowTheirDiff ==
  ~SoloMining => (Spec /\ []OneEach => []MinerKnowsItsDiff)
<1> SUFFICES ASSUME ~SoloMining PROVE Spec /\ []OneEach => []MinerKnowsItsDiff
  OBVIOUS
<1>1. DispatchInv /\ DiffInv => MinerKnowsItsDiff
  <2> SUFFICES ASSUME DispatchInv, DiffInv, NEW c \in Clients,
                      proto[c] = "v1", c \notin disconnecting, Running(c) = {}, HasTarget(c)
               PROVE  /\ Announcements(c) # {}
                      /\ LastAnnounced(c).kind # "unsent" => LastAnnounced(c).diff = stratumDiff[c]
    BY DEF MinerKnowsItsDiff
  <2>1. ~Busy(c, Untold)
    BY DEF Running, Busy, Untold
  <2>2. Told(c)
    BY <2>1 DEF DiffInv, DiffOf, HasTarget
  <2>3. PICK i : /\ LastOf(wire[c], AnnounceKinds, Len(wire[c]), i)
                 /\ wire[c][i].kind # "unsent" => wire[c][i].diff = stratumDiff[c]
    BY <2>2 DEF Told
  <2>4. Len(wire[c]) \in Nat
    BY DEF DispatchInv, WireOK
  <2>5. Announcements(c) = OfKind(wire[c], AnnounceKinds, Len(wire[c]))
    BY DEF Announcements, OfKind, AnnounceKinds
  <2> DEFINE S == Announcements(c)
             last == CHOOSE a \in S : \A k \in S : k <= a
  <2>6. i \in S /\ \A x \in S : (\A k \in S : k <= x) <=> x = i
    BY <2>3, <2>4, <2>5, LastOfIsChosen
  <2>7. LastAnnounced(c) = wire[c][last]
    BY DEF LastAnnounced
  <2> HIDE DEF S
  <2>8. last \in S /\ \A k \in S : k <= last
    BY <2>6
  <2> HIDE DEF last
  <2>9. last = i
    BY <2>6, <2>8
  <2> QED BY <2>3, <2>6, <2>7, <2>9 DEF S
<1> QED BY <1>1, DiffInvHolds, DispatchInvHolds, PTL

=============================================================================
