---------------------------- MODULE MiningState ----------------------------
(***************************************************************************)
(* The per-connection mining state (src/cryptixstratum/mining_state.go):   *)
(* the ring of the last MaxJobs block templates handed to the miner, and   *)
(* the difficulty its shares are judged by.                                *)
(*                                                                         *)
(* Every method of the Go type holds JobLock or StateLock for its whole    *)
(* body, so every method is one atomic action here.  The two locks protect *)
(* disjoint fields: ringVars and diffVars.                                 *)
(***************************************************************************)
EXTENDS Integers, Sequences

CONSTANTS
  Clients,        \* connections
  Blocks,         \* block templates the node hands out
  NoJob,          \* an absent entry of the Jobs map
  MaxJobs,        \* maxjobs, 32 in the code
  MaxIssued,      \* bound: jobs issued to one client
  NetworkTarget,  \* Blocks -> Nat: the target encoded in a template's Bits
  Diffs,          \* the difficulties the bridge may set
  MaxTarget       \* the target of difficulty 1

ASSUME MaxJobsAssumption == MaxJobs \in Nat \ {0}
ASSUME NoJobAssumption == NoJob \notin Blocks
ASSUME DiffsAssumption == Diffs \subseteq Nat \ {0} /\ MaxTarget \in Nat
ASSUME NetworkTargetAssumption == NetworkTarget \in [Blocks -> Nat]
ASSUME MaxIssuedAssumption == MaxIssued \in Nat

VARIABLES
  jobs,           \* Jobs: slot -> template or NoJob
  jobCounter,     \* jobCounter: the id of the newest job
  issued,         \* history: issued[c][id] is the template sent as job id
  initialized,    \* the clients whose state is initialized
  stratumDiff,    \* stratumDiff.diffValue; NoDiff while the pointer is nil
  bigDiff         \* bigDiff: the network target last seen

ringVars == <<jobs, jobCounter, issued>>
diffVars == <<initialized, stratumDiff, bigDiff>>
miningStateVars == <<jobs, jobCounter, issued, initialized, stratumDiff, bigDiff>>

----------------------------------------------------------------------------
Slots == 0 .. MaxJobs - 1

\* A nil stratumDiff; GetStratumDiffValue returns 0 for it.
NoDiff == 0

\* Go's %: the result has the sign of the dividend.
GoRem(a, n) == IF a >= 0 THEN a % n ELSE -((-a) % n)

\* The Jobs map is read by id%maxjobs, whatever id the miner sends; the id
\* itself is not compared with the id the stored template was issued under.
GetJob(c, id) ==
  LET s == GoRem(id, MaxJobs)
  IN  IF s \in Slots THEN jobs[c][s] ELSE NoJob

GetStratumDiffValue(c) == stratumDiff[c]

\* The share target and its inverse, as integer quotients of MaxTarget.
DiffToTarget(d) == MaxTarget \div d

\* GetStratumDiffSnapshot: NoDiff stands for the nil target of an
\* uninitialised state.
HasTarget(c) == stratumDiff[c] # NoDiff
ShareTarget(c) == DiffToTarget(stratumDiff[c])

----------------------------------------------------------------------------
\* MiningStateGenerator
MiningStateInit ==
  /\ jobs = [c \in Clients |-> [s \in Slots |-> NoJob]]
  /\ jobCounter = [c \in Clients |-> 0]
  /\ issued = [c \in Clients |-> << >>]
  /\ initialized = {}
  /\ stratumDiff = [c \in Clients |-> NoDiff]
  /\ bigDiff = [c \in Clients |-> 0]

\* Mutant: the slot is computed from the counter before it is incremented.
AddJobSlotBeforeIncrement(c, b) ==
  /\ jobCounter[c] < MaxIssued
  /\ jobCounter' = [jobCounter EXCEPT ![c] = @ + 1]
  /\ jobs' = [jobs EXCEPT ![c][jobCounter[c] % MaxJobs] = b]
  /\ issued' = [issued EXCEPT ![c] = Append(@, b)]

AddJob(c, b) ==
  LET idx == jobCounter[c] + 1
  IN  /\ jobCounter[c] < MaxIssued
      /\ jobCounter' = [jobCounter EXCEPT ![c] = idx]
      /\ jobs' = [jobs EXCEPT ![c][idx % MaxJobs] = b]
      /\ issued' = [issued EXCEPT ![c] = Append(@, b)]

\* Returns true exactly when it changes the state.
InitializeIfNeeded(c, minShareDiff) ==
  IF c \in initialized
    THEN UNCHANGED <<initialized, stratumDiff>>
    ELSE /\ initialized' = initialized \union {c}
         /\ stratumDiff' = [stratumDiff EXCEPT ![c] = minShareDiff]

SetNetworkTarget(c, b) ==
  /\ bigDiff' = [bigDiff EXCEPT ![c] = NetworkTarget[b]]
  /\ UNCHANGED <<initialized, stratumDiff>>

\* newCryptixDiff when the pointer is nil, then setDiffValue.
SetStratumDiff(c, d) ==
  /\ stratumDiff' = [stratumDiff EXCEPT ![c] = d]
  /\ UNCHANGED <<initialized, bigDiff>>

----------------------------------------------------------------------------
\* Every variable stays in its type.
MiningStateTypeOK ==
  /\ jobs \in [Clients -> [Slots -> Blocks \union {NoJob}]]
  /\ jobCounter \in [Clients -> Nat]
  /\ issued \in [Clients -> Seq(Blocks)]
  /\ initialized \subseteq Clients
  /\ stratumDiff \in [Clients -> Diffs \union {NoDiff}]
  /\ bigDiff \in [Clients -> Nat]

\* AddJob numbers jobs consecutively and a job keeps its template for the next
\* MaxJobs - 1 calls: GetJob of any of the last MaxJobs ids returns the
\* template that was sent to the miner under that id.
RecentJobsKeepTheirTemplate ==
  \A c \in Clients :
    \A id \in 1 .. Len(issued[c]) :
      id > Len(issued[c]) - MaxJobs => GetJob(c, id) = issued[c][id]

\* The ring never holds anything but the recent jobs: a slot is empty only
\* while fewer than MaxJobs jobs were issued, and a filled slot holds a
\* template issued within the last MaxJobs.
RingHoldsOnlyRecentJobs ==
  \A c \in Clients : \A s \in Slots :
    IF jobs[c][s] = NoJob
      THEN \A id \in 1 .. Len(issued[c]) : id % MaxJobs # s
      ELSE \E id \in 1 .. Len(issued[c]) :
             /\ id > Len(issued[c]) - MaxJobs
             /\ id % MaxJobs = s
             /\ jobs[c][s] = issued[c][id]

----------------------------------------------------------------------------
(***************************************************************************)
(* The component on its own: the goroutines that call its methods do so in *)
(* any order.                                                              *)
(***************************************************************************)
MiningStateNext ==
  \E c \in Clients :
    \/ \E b \in Blocks : AddJob(c, b) /\ UNCHANGED diffVars
    \/ \E b \in Blocks : SetNetworkTarget(c, b) /\ UNCHANGED ringVars
    \/ \E d \in Diffs : InitializeIfNeeded(c, d) /\ UNCHANGED <<ringVars, bigDiff>>
    \/ \E d \in Diffs : SetStratumDiff(c, d) /\ UNCHANGED ringVars

MiningStateSpec == MiningStateInit /\ [][MiningStateNext]_miningStateVars
=============================================================================
