------------------------------ MODULE VarDiff ------------------------------
(***************************************************************************)
(* The vardiff engine (startVardiffThread, updateVarDiff, startVarDiff and *)
(* their callers in src/cryptixstratum/share_handler.go) for one worker    *)
(* with one connection.  Every interval the vardiff thread compares the    *)
(* worker's share rate with the expected one, over a ladder of ever longer *)
(* windows with ever smaller tolerances.  A rate out of tolerance changes  *)
(* MinDiff and stops the tracker; the next block makes the client handler  *)
(* send the new difficulty and start the tracker again.                    *)
(*                                                                         *)
(* Time is counted in ticks of 1/TicksPerMinute minute; all rates are      *)
(* compared as integer products.  MinDiff is a fraction of min_share_diff  *)
(* that is never reduced.                                                  *)
(***************************************************************************)
EXTENDS Integers, Sequences

CONSTANTS
  Windows,        \* windows: lengths in minutes, the last one 0 (no end)
  Tolerances,     \* tolerances, in percent
  ExpectedRate,   \* expectedShareRate, shares per minute
  TicksPerMinute, \* resolution of the model's clock
  Interval,       \* retargetInterval, in ticks
  MaxClock,       \* bound: ticks a tracker runs
  MaxShares,      \* bound: shares found while a tracker runs
  MaxRetargets    \* bound: calls of updateVarDiff

ASSUME WindowsAssumption ==
  /\ Windows \in Seq(Nat) /\ Len(Windows) > 1
  /\ \A i \in 1 .. Len(Windows) : Windows[i] = 0 <=> i = Len(Windows)
ASSUME TolerancesAssumption ==
  Tolerances \in [1 .. Len(Windows) -> 1 .. 99]
ASSUME RateAssumption == ExpectedRate \in Nat \ {0}
ASSUME ClockAssumption == TicksPerMinute \in Nat \ {0} /\ Interval \in Nat \ {0}
ASSUME BoundsAssumption == MaxClock \in Nat /\ MaxShares \in Nat /\ MaxRetargets \in Nat

VARIABLES
  tracker,    \* "off" while VarDiffStartTime is zero
  clock,      \* ticks since VarDiffStartTime
  sleep,      \* ticks until the vardiff thread wakes
  shares,     \* VarDiffSharesFound
  window,     \* VarDiffWindow, counted from 1
  minDiff,    \* MinDiff over min_share_diff, as a pair of numbers
  sent,       \* the stratum difficulty of the connection, same unit
  retargets   \* history: calls of updateVarDiff

vars == <<tracker, clock, sleep, shares, window, minDiff, sent, retargets>>

----------------------------------------------------------------------------
One == <<1, 1>>
SameDiff(p, q) == p[1] * q[2] = q[1] * p[2]

Last == Len(Windows)

\* shareRateRatio is RatioNum / RatioDen.
RatioNum == shares * TicksPerMinute
RatioDen == clock * ExpectedRate

\* math.Abs(1-shareRateRatio) >= tolerances[i]
OutOfTolerance(i) ==
  \/ 100 * (RatioNum - RatioDen) >= Tolerances[i] * RatioDen
  \/ 100 * (RatioDen - RatioNum) >= Tolerances[i] * RatioDen

ClearedWindowBreached == \E i \in 2 .. window - 1 : OutOfTolerance(i)

AboveWindowMax ==
  100 * shares >= Windows[window] * ExpectedRate * (100 + Tolerances[window])

BelowWindowMin ==
  100 * shares <= Windows[window] * ExpectedRate * (100 - Tolerances[window])

WindowOver == clock >= Windows[window] * TicksPerMinute

\* The rules in the order the thread tries them, by what they lead to.
FinalOut == window = Last /\ OutOfTolerance(window)
EarlierOut == window # Last /\ (ClearedWindowBreached \/ AboveWindowMax)
TooFew == window # Last /\ ~EarlierOut /\ WindowOver /\ BelowWindowMin
Advance == window # Last /\ ~EarlierOut /\ WindowOver /\ ~BelowWindowMin

\* Mutant: the difficulty is divided by the ratio.
updateVarDiffInverted(num, den) ==
  /\ tracker' = "off"
  /\ window' = 1
  /\ minDiff' = <<minDiff[1] * den, minDiff[2] * num>>
  /\ retargets' = retargets + 1

\* updateVarDiff with the present difficulty times num / den.  The share
\* counter is left alone: startVarDiff resets it.
updateVarDiff(num, den) ==
  /\ tracker' = "off"
  /\ window' = 1
  /\ minDiff' = <<minDiff[1] * num, minDiff[2] * den>>
  /\ retargets' = retargets + 1

\* Mutant: no floor for the ratio.
LowerRatioUnfloored == <<RatioNum, RatioDen>>

\* math.Max(shareRateRatio, 0.1)
LowerRatio == IF 10 * RatioNum >= RatioDen THEN <<RatioNum, RatioDen>> ELSE <<1, 10>>

----------------------------------------------------------------------------
\* Mutant: the last window is treated like the others.
CheckNoFinalWindow ==
  /\ sleep = 0
  /\ sleep' = Interval
  /\ IF tracker = "on" /\ clock > 0 /\ WindowOver
       THEN window' = window + 1 /\ UNCHANGED <<tracker, minDiff, retargets>>
       ELSE UNCHANGED <<tracker, window, minDiff, retargets>>
  /\ UNCHANGED <<clock, shares, sent>>

\* The vardiff thread wakes and looks at the worker, under statsLock.
Check ==
  /\ sleep = 0
  /\ sleep' = Interval
  /\ IF tracker = "off" \/ clock = 0 THEN UNCHANGED <<tracker, window, minDiff, retargets>>
     ELSE \/ (FinalOut \/ EarlierOut) /\ updateVarDiff(RatioNum, RatioDen)
          \/ TooFew /\ updateVarDiff(LowerRatio[1], LowerRatio[2])
          \/ Advance /\ window' = window + 1 /\ UNCHANGED <<tracker, minDiff, retargets>>
          \/ /\ ~(FinalOut \/ EarlierOut \/ TooFew \/ Advance)
             /\ UNCHANGED <<tracker, window, minDiff, retargets>>
  /\ UNCHANGED <<clock, shares, sent>>

Tick ==
  /\ sleep > 0
  /\ clock < MaxClock
  /\ retargets < MaxRetargets
  /\ sleep' = sleep - 1
  /\ clock' = IF tracker = "on" THEN clock + 1 ELSE clock
  /\ UNCHANGED <<tracker, shares, window, minDiff, sent, retargets>>

\* processSubmit counts an accepted share, whether the tracker runs or not.
ShareFound ==
  /\ shares < MaxShares
  /\ shares' = shares + 1
  /\ UNCHANGED <<tracker, clock, sleep, window, minDiff, sent, retargets>>

\* Mutant: the tracker is not restarted.
startVarDiffSkipped == UNCHANGED <<tracker, clock, shares>>

startVarDiff ==
  IF tracker = "on" THEN UNCHANGED <<tracker, clock, shares>>
  ELSE tracker' = "on" /\ clock' = 0 /\ shares' = 0

\* A new block: NewBlockAvailable applies a difficulty that differs from the
\* connection's, sends it and calls startClientVardiff.
NewBlock ==
  /\ minDiff[1] # 0
  /\ ~SameDiff(minDiff, sent)
  /\ sent' = minDiff
  /\ startVarDiff
  /\ UNCHANGED <<sleep, window, minDiff, retargets>>

\* setClientVardiff has set min_share_diff and started the tracker.
Init ==
  /\ tracker = "on"
  /\ clock = 0
  /\ sleep \in 1 .. Interval
  /\ shares = 0
  /\ window = 1
  /\ minDiff = One
  /\ sent = One
  /\ retargets = 0

Next == Check \/ Tick \/ ShareFound \/ NewBlock

Spec == Init /\ [][Next]_vars

----------------------------------------------------------------------------
(* Properties                                                               *)

\* Every variable stays in its type; in particular the window stays an index
\* of the two tables.
TypeOK ==
  /\ tracker \in {"on", "off"}
  /\ clock \in Nat /\ sleep \in 0 .. Interval /\ shares \in Nat
  /\ window \in 1 .. Last
  /\ minDiff \in Nat \X Nat /\ sent \in Nat \X Nat
  /\ retargets \in Nat

\* MinDiff never becomes 0, the value NewBlockAvailable takes for "not set", and
\* it stays a number: only the shortest window can end without a share, and
\* there the ratio has a floor.
MinDiffPositive == minDiff[1] > 0 /\ minDiff[2] > 0

Rises(p, q) == q[1] * p[2] > p[1] * q[2]

\* A retarget goes the way the measured rate asks for: the difficulty rises only
\* when shares came faster than expected, and it falls only when slower.
RetargetFollowsRate ==
  [][retargets' # retargets =>
       /\ Rises(minDiff, minDiff') => RatioNum > RatioDen
       /\ Rises(minDiff', minDiff) => RatioNum < RatioDen]_vars

\* "disable tracker until client handler restarts it while sending diff on next
\* block" (share_handler.go:609): a stopped tracker has a difficulty to send,
\* otherwise the client handler never restarts it.
StoppedTrackerHasDiffToSend ==
  tracker = "off" => ~SameDiff(minDiff, sent)
=============================================================================
