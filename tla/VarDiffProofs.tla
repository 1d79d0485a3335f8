---------------------------- MODULE VarDiffProofs ----------------------------
(***************************************************************************)
(* The vardiff engine keeps a worker's difficulty positive, moves it the   *)
(* way the share rate asks for and leaves a stopped tracker with something *)
(* to send, for every table of windows and tolerances and every rate.      *)
(***************************************************************************)
EXTENDS VarDiff, TLAPS

----------------------------------------------------------------------------
(* Arithmetic                                                               *)

\* More shares than a window of W minutes allows, before it is over by more
\* than I: the rate is above the expected one.
LEMMA AboveIsFast ==
  ASSUME NEW W \in Nat, NEW R \in Nat \ {0}, NEW T \in Nat, NEW K \in Nat \ {0},
         NEW s \in Nat, NEW c \in Nat, NEW I \in Nat,
         100 * s >= W * R * (100 + T), c < W * K + I, 100 * I <= T * W * K
  PROVE  s * K > c * R
<1> DEFINE wk == W * K
<1>1. wk \in Nat /\ wk = W * K
  OBVIOUS
<1>2. T * W * K = T * wk
  OBVIOUS
<1>3. (W * R * (100 + T)) * K = R * (100 * wk + T * wk)
  OBVIOUS
<1>4. (100 * s) * K >= (W * R * (100 + T)) * K
  <2> DEFINE x == W * R * (100 + T)
             y == 100 * s
  <2>1. x \in Nat /\ y \in Nat /\ y >= x
    OBVIOUS
  <2> HIDE DEF x, y
  <2>2. y * K >= x * K
    BY <2>1
  <2> QED BY <2>2 DEF x, y
<1> HIDE DEF wk
<1>5. c < wk + I /\ 100 * I <= T * wk
  BY <1>1, <1>2
<1>6. T * wk \in Nat
  BY <1>1
<1>7. 100 * wk + T * wk > 100 * c
  BY <1>1, <1>5, <1>6
<1>8. R * (100 * wk + T * wk) > R * (100 * c)
  <2> DEFINE x == 100 * wk + T * wk
             y == 100 * c
  <2>1. x \in Nat /\ y \in Nat /\ x > y
    BY <1>1, <1>6, <1>7
  <2> HIDE DEF x, y
  <2>2. R * x > R * y
    BY <2>1
  <2> QED BY <2>2 DEF x, y
<1>9. (100 * s) * K = 100 * (s * K) /\ R * (100 * c) = 100 * (c * R)
  OBVIOUS
<1>10. s * K \in Nat /\ c * R \in Nat
  OBVIOUS
<1>11. 100 * (s * K) > 100 * (c * R)
  <2> DEFINE p == s * K
             q == c * R
             x == R * (100 * wk + T * wk)
  <2>1. 100 * p >= x /\ x > 100 * q
    BY <1>3, <1>4, <1>8, <1>9
  <2>2. p \in Nat /\ q \in Nat /\ x \in Nat
    BY <1>1, <1>6, <1>10
  <2> HIDE DEF p, q, x
  <2>3. 100 * p > 100 * q
    BY <2>1, <2>2
  <2> QED BY <2>3 DEF p, q
<1> QED BY <1>10, <1>11

\* Fewer shares than a window that is over asks for: the rate is below.
LEMMA BelowIsSlow ==
  ASSUME NEW W \in Nat \ {0}, NEW R \in Nat \ {0}, NEW T \in 1 .. 99, NEW K \in Nat \ {0},
         NEW s \in Nat, NEW c \in Nat,
         100 * s <= W * R * (100 - T), c >= W * K
  PROVE  s * K < c * R
<1> DEFINE wk == W * K
           U == 100 - T
<1>1. wk \in Nat \ {0} /\ c >= wk
  OBVIOUS
<1>2. U \in 1 .. 99
  OBVIOUS
<1> HIDE DEF U
<1>3. 100 * s <= W * R * U
  BY DEF U
<1>4. (W * R * U) * K = R * (wk * U)
  BY <1>2
<1>5. (100 * s) * K <= (W * R * U) * K
  <2> DEFINE x == W * R * U
             y == 100 * s
  <2>1. x \in Nat /\ y \in Nat /\ y <= x
    BY <1>2, <1>3
  <2> HIDE DEF x, y
  <2>2. y * K <= x * K
    BY <2>1
  <2> QED BY <2>2 DEF x, y
<1> HIDE DEF wk
<1>6. wk * U < 100 * c
  <2>1. wk * U < wk * 100
    BY <1>1, <1>2
  <2> QED BY <1>1, <1>2, <2>1
<1>7. R * (wk * U) < R * (100 * c)
  <2> DEFINE x == wk * U
             y == 100 * c
  <2>1. x \in Nat /\ y \in Nat /\ x < y
    BY <1>1, <1>2, <1>6
  <2> HIDE DEF x, y
  <2>2. R * x < R * y
    BY <2>1
  <2> QED BY <2>2 DEF x, y
<1>8. (100 * s) * K = 100 * (s * K) /\ R * (100 * c) = 100 * (c * R)
  OBVIOUS
<1>9. s * K \in Nat /\ c * R \in Nat
  OBVIOUS
<1>10. 100 * (s * K) < 100 * (c * R)
  <2> DEFINE p == s * K
             q == c * R
             x == R * (wk * U)
  <2>1. 100 * p <= x /\ x < 100 * q
    BY <1>4, <1>5, <1>7, <1>8
  <2>2. p \in Nat /\ q \in Nat /\ x \in Nat
    BY <1>1, <1>2, <1>9
  <2> HIDE DEF p, q, x
  <2>3. 100 * p < 100 * q
    BY <2>1, <2>2
  <2> QED BY <2>3 DEF p, q
<1> QED BY <1>9, <1>10

\* The order of a difficulty times n / d and the difficulty itself.
LEMMA ScaledDiff ==
  ASSUME NEW a \in Nat \ {0}, NEW b \in Nat \ {0}, NEW n \in Nat, NEW d \in Nat
  PROVE  /\ (a * n) * b = a * (b * d) => n = d
         /\ (a * n) * b > a * (b * d) => n > d
         /\ a * (b * d) > (a * n) * b => n < d
<1> DEFINE c == a * b
<1>1. c \in Nat \ {0}
  OBVIOUS
<1>2. (a * n) * b = c * n /\ a * (b * d) = c * d
  OBVIOUS
<1> HIDE DEF c
<1>3. /\ n < d => c * n < c * d
      /\ d < n => c * d < c * n
      /\ n = d => c * n = c * d
  BY <1>1
<1>4. c * n \in Nat /\ c * d \in Nat
  BY <1>1
<1>5. /\ c * n = c * d => n = d
      /\ c * n > c * d => n > d
      /\ c * d > c * n => n < d
  BY <1>3, <1>4
<1> QED BY <1>2, <1>5
----------------------------------------------------------------------------
(* The difficulty stays positive                                            *)

\* A longer window is reached only with shares, and left at the latest when the
\* tracker stops.
LadderInv ==
  /\ tracker = "off" => window = 1
  /\ window > 1 => shares > 0

\* The inductive invariant, whatever the retarget interval.
VarDiffInv == TypeOK /\ MinDiffPositive /\ LadderInv

\* What the tables hold.
LEMMA Tables ==
  /\ Last \in Nat /\ Last > 1
  /\ \A i \in 1 .. Last : Windows[i] \in Nat /\ Tolerances[i] \in 1 .. 99
  /\ \A i \in 1 .. Last : i # Last => Windows[i] \in Nat \ {0}
<1>1. Windows \in Seq(Nat) /\ Last \in Nat /\ Last > 1 /\ Last = Len(Windows)
  BY WindowsAssumption DEF Last
<1>2. \A i \in 1 .. Last : Windows[i] \in Nat
  BY <1>1
<1>3. \A i \in 1 .. Last : Tolerances[i] \in 1 .. 99
  BY <1>1, TolerancesAssumption
<1>4. \A i \in 1 .. Last : i # Last => Windows[i] # 0
  BY <1>1, WindowsAssumption
<1> QED BY <1>1, <1>2, <1>3, <1>4

\* The two sides of the share rate ratio.
LEMMA Ratios ==
  ASSUME TypeOK
  PROVE  /\ RatioNum \in Nat /\ RatioDen \in Nat
         /\ shares > 0 => RatioNum > 0
         /\ clock > 0 => RatioDen > 0
<1>1. shares \in Nat /\ clock \in Nat /\ TicksPerMinute \in Nat \ {0} /\ ExpectedRate \in Nat \ {0}
  BY ClockAssumption, RateAssumption DEF TypeOK
<1> QED BY <1>1 DEF RatioNum, RatioDen

\* A retarget to the measured rate has seen shares.
LEMMA MeasuredRateIsPositive ==
  ASSUME TypeOK, LadderInv, FinalOut \/ EarlierOut
  PROVE  shares > 0
<1>1. window \in 1 .. Last /\ shares \in Nat
  BY DEF TypeOK
<1>2. CASE window > 1
  BY <1>2 DEF LadderInv
<1>3. CASE ~(window > 1)
  <2>1. window = 1 /\ window # Last
    BY <1>1, <1>3, Tables
  <2>2. ~ClearedWindowBreached
    BY <2>1 DEF ClearedWindowBreached
  <2>3. 100 * shares >= Windows[window] * ExpectedRate * (100 + Tolerances[window])
    BY <2>1, <2>2 DEF FinalOut, EarlierOut, AboveWindowMax
  <2>4. Windows[window] \in Nat \ {0} /\ Tolerances[window] \in Nat /\ ExpectedRate \in Nat \ {0}
    BY <1>1, <2>1, Tables, RateAssumption
  <2> DEFINE w == Windows[window]
             t == Tolerances[window]
  <2>5. 100 * shares >= w * ExpectedRate * (100 + t) /\ w \in Nat \ {0} /\ t \in Nat
    BY <2>3, <2>4
  <2> HIDE DEF w, t
  <2>6. w * ExpectedRate \in Nat \ {0} /\ 100 + t \in Nat \ {0}
    BY <2>4, <2>5
  <2>7. w * ExpectedRate * (100 + t) > 0
    <3> DEFINE x == w * ExpectedRate
               y == 100 + t
    <3>1. x \in Nat \ {0} /\ y \in Nat \ {0}
      BY <2>6
    <3> HIDE DEF x, y
    <3>2. x * y > 0
      BY <3>1
    <3> QED BY <3>2 DEF x, y
  <2> DEFINE z == w * ExpectedRate * (100 + t)
  <2>8. z \in Int /\ z > 0 /\ 100 * shares >= z
    BY <2>4, <2>5, <2>7
  <2> HIDE DEF z
  <2> QED BY <1>1, <2>8
<1> QED BY <1>2, <1>3

\* A window that is over and not below its minimum has shares.
LEMMA AdvanceHasShares ==
  ASSUME TypeOK, Advance
  PROVE  shares > 0 /\ window + 1 \in 1 .. Last
<1>1. window \in 1 .. Last /\ shares \in Nat /\ window # Last
  BY DEF TypeOK, Advance
<1>2. ~(100 * shares <= Windows[window] * ExpectedRate * (100 - Tolerances[window]))
  BY DEF Advance, BelowWindowMin
<1> DEFINE w == Windows[window]
           t == 100 - Tolerances[window]
<1>3. w \in Nat /\ t \in Nat /\ ExpectedRate \in Nat /\ ~(100 * shares <= w * ExpectedRate * t)
  BY <1>1, <1>2, Tables, RateAssumption
<1> HIDE DEF w, t
<1>4. w * ExpectedRate * t >= 0 /\ w * ExpectedRate * t \in Int
  BY <1>3
<1> QED BY <1>1, <1>3, <1>4, Tables

\* What updateVarDiff is called with.
LEMMA RetargetRatio ==
  ASSUME TypeOK, LadderInv, clock > 0
  PROVE  /\ FinalOut \/ EarlierOut => RatioNum > 0
         /\ LowerRatio[1] \in Nat /\ LowerRatio[1] > 0
         /\ LowerRatio[2] \in Nat /\ LowerRatio[2] > 0
<1>1. /\ RatioNum \in Nat /\ RatioDen \in Nat /\ RatioDen > 0
      /\ shares > 0 => RatioNum > 0
  BY Ratios
<1>2. FinalOut \/ EarlierOut => RatioNum > 0
  BY <1>1, MeasuredRateIsPositive
<1>3. CASE 10 * RatioNum >= RatioDen
  <2>1. LowerRatio[1] = RatioNum /\ LowerRatio[2] = RatioDen
    BY <1>3 DEF LowerRatio
  <2> QED BY <1>1, <1>2, <1>3, <2>1
<1>4. CASE ~(10 * RatioNum >= RatioDen)
  <2>1. LowerRatio[1] = 1 /\ LowerRatio[2] = 10
    BY <1>4 DEF LowerRatio
  <2> QED BY <1>2, <2>1
<1> QED BY <1>3, <1>4

\* A retarget by positive numbers.
LEMMA UpdateKeepsInv ==
  ASSUME VarDiffInv, NEW n \in Nat \ {0}, NEW d \in Nat \ {0}, updateVarDiff(n, d),
         sleep' = Interval, UNCHANGED <<clock, shares, sent>>
  PROVE  VarDiffInv'
<1>1. /\ minDiff \in Nat \X Nat /\ minDiff[1] > 0 /\ minDiff[2] > 0
      /\ clock \in Nat /\ shares \in Nat /\ sent \in Nat \X Nat /\ retargets \in Nat
  BY DEF VarDiffInv, TypeOK, MinDiffPositive
<1>2. /\ tracker' = "off" /\ window' = 1 /\ retargets' = retargets + 1
      /\ minDiff' = <<minDiff[1] * n, minDiff[2] * d>>
  BY DEF updateVarDiff
<1>3. /\ minDiff[1] \in Nat /\ minDiff[2] \in Nat
      /\ minDiff[1] * n \in Nat /\ minDiff[1] * n > 0
      /\ minDiff[2] * d \in Nat /\ minDiff[2] * d > 0
  BY <1>1
<1>4. minDiff' \in Nat \X Nat /\ minDiff'[1] > 0 /\ minDiff'[2] > 0
  BY <1>2, <1>3
<1>5. sleep' \in 0 .. Interval /\ window' \in 1 .. Last
  BY <1>2, ClockAssumption, Tables
<1>6. TypeOK'
  BY <1>1, <1>2, <1>4, <1>5 DEF TypeOK
<1> QED BY <1>2, <1>4, <1>6 DEF VarDiffInv, MinDiffPositive, LadderInv

\* The vardiff thread looks at the worker.
LEMMA CheckKeepsInv ==
  ASSUME VarDiffInv, Check
  PROVE  VarDiffInv'
<1>1. TypeOK /\ MinDiffPositive /\ LadderInv
  BY DEF VarDiffInv
<1>2. sleep' = Interval /\ UNCHANGED <<clock, shares, sent>> /\ sleep' \in 0 .. Interval
  BY ClockAssumption DEF Check
<1>3. CASE UNCHANGED <<tracker, window, minDiff, retargets>>
  <2>1. TypeOK'
    BY <1>1, <1>2, <1>3 DEF TypeOK
  <2> QED BY <1>1, <1>2, <1>3, <2>1 DEF VarDiffInv, MinDiffPositive, LadderInv
<1>4. CASE ~(UNCHANGED <<tracker, window, minDiff, retargets>>)
  <2>1. clock \in Nat /\ clock > 0 /\ tracker = "on"
    BY <1>1, <1>4 DEF Check, TypeOK
  <2>2. CASE (FinalOut \/ EarlierOut) /\ updateVarDiff(RatioNum, RatioDen)
    <3>1. RatioNum \in Nat \ {0} /\ RatioDen \in Nat \ {0}
      BY <1>1, <2>1, <2>2, Ratios, RetargetRatio
    <3> QED BY <1>2, <2>2, <3>1, UpdateKeepsInv
  <2>3. CASE TooFew /\ updateVarDiff(LowerRatio[1], LowerRatio[2])
    <3>1. LowerRatio[1] \in Nat \ {0} /\ LowerRatio[2] \in Nat \ {0}
      BY <1>1, <2>1, RetargetRatio
    <3> QED BY <1>2, <2>3, <3>1, UpdateKeepsInv
  <2>4. CASE Advance /\ window' = window + 1 /\ UNCHANGED <<tracker, minDiff, retargets>>
    <3>1. shares > 0 /\ window' \in 1 .. Last
      BY <1>1, <2>4, AdvanceHasShares
    <3>2. TypeOK'
      BY <1>1, <1>2, <2>4, <3>1 DEF TypeOK
    <3> QED BY <1>1, <1>2, <2>1, <2>4, <3>1, <3>2 DEF VarDiffInv, MinDiffPositive, LadderInv
  <2> QED BY <1>4, <2>1, <2>2, <2>3, <2>4 DEF Check
<1> QED BY <1>3, <1>4

\* Time, shares and new blocks.
LEMMA OtherStepKeepsInv ==
  ASSUME VarDiffInv, Tick \/ ShareFound \/ NewBlock
  PROVE  VarDiffInv'
<1>1. TypeOK /\ MinDiffPositive /\ LadderInv
  BY DEF VarDiffInv
<1>2. UNCHANGED <<window, minDiff>>
  BY DEF Tick, ShareFound, NewBlock
<1>3. CASE Tick
  BY <1>1, <1>3, ClockAssumption DEF Tick, VarDiffInv, TypeOK, MinDiffPositive, LadderInv
<1>4. CASE ShareFound
  BY <1>1, <1>4 DEF ShareFound, VarDiffInv, TypeOK, MinDiffPositive, LadderInv
<1>5. CASE NewBlock
  <2>1. /\ sent' = minDiff /\ tracker' = "on"
        /\ \/ UNCHANGED <<clock, shares>>
           \/ tracker = "off" /\ clock' = 0 /\ shares' = 0
        /\ UNCHANGED <<sleep, retargets>>
    BY <1>1, <1>5 DEF NewBlock, startVarDiff, TypeOK
  <2>2. TypeOK'
    BY <1>1, <1>2, <2>1 DEF TypeOK
  <2>3. LadderInv'
    <3>1. tracker = "off" => window = 1
      BY <1>1 DEF LadderInv
    <3>2. tracker = "off" => ~(window > 1)
      BY <3>1
    <3> QED BY <1>1, <1>2, <2>1, <3>2 DEF LadderInv
  <2> QED BY <1>1, <1>2, <2>2, <2>3 DEF VarDiffInv, MinDiffPositive
<1> QED BY <1>3, <1>4, <1>5

\* A step of anybody.
LEMMA VarDiffInvStep == VarDiffInv /\ [Next]_vars => VarDiffInv'
<1> SUFFICES ASSUME VarDiffInv, [Next]_vars PROVE VarDiffInv'
  OBVIOUS
<1>1. CASE UNCHANGED vars
  BY <1>1 DEF vars, VarDiffInv, TypeOK, MinDiffPositive, LadderInv
<1> QED BY <1>1, CheckKeepsInv, OtherStepKeepsInv DEF Next

\* The tracker starts on the shortest window.
LEMMA VarDiffInvInit == Init => VarDiffInv
<1> SUFFICES ASSUME Init PROVE VarDiffInv
  OBVIOUS
<1>1. 1 \in 1 .. Last
  BY Tables
<1>2. TypeOK
  BY <1>1, ClockAssumption DEF Init, TypeOK, One
<1> QED BY <1>2 DEF Init, One, VarDiffInv, MinDiffPositive, LadderInv

\* The invariant holds of every reachable state.
THEOREM VarDiffInvHolds == Spec => []VarDiffInv
BY VarDiffInvInit, VarDiffInvStep, PTL DEF Spec

\* Every variable stays in its type: VarDiffWindow is always an index of the
\* tables of windows and tolerances.
THEOREM VarDiffTypes == Spec => []TypeOK
<1>1. VarDiffInv => TypeOK
  BY DEF VarDiffInv
<1> QED BY <1>1, VarDiffInvHolds, PTL

\* MinDiff is never 0, which NewBlockAvailable takes for "not set".
THEOREM MinDiffStaysPositive == Spec => []MinDiffPositive
<1>1. VarDiffInv => MinDiffPositive
  BY DEF VarDiffInv
<1> QED BY <1>1, VarDiffInvHolds, PTL
----------------------------------------------------------------------------
(* The direction of a retarget                                              *)

\* A window that is over with too few shares has seen a rate below the expected.
LEMMA TooFewIsSlow ==
  ASSUME TypeOK, TooFew
  PROVE  RatioNum < RatioDen
<1> DEFINE w == Windows[window]
           t == Tolerances[window]
<1>1. window \in 1 .. Last /\ window # Last /\ shares \in Nat /\ clock \in Nat
  BY DEF TypeOK, TooFew
<1>2. w \in Nat \ {0} /\ t \in 1 .. 99
  BY <1>1, Tables
<1>3. 100 * shares <= w * ExpectedRate * (100 - t) /\ clock >= w * TicksPerMinute
  BY DEF TooFew, BelowWindowMin, WindowOver
<1>4. ExpectedRate \in Nat \ {0} /\ TicksPerMinute \in Nat \ {0}
  BY RateAssumption, ClockAssumption
<1> HIDE DEF w, t
<1>5. shares * TicksPerMinute < clock * ExpectedRate
  BY <1>1, <1>2, <1>3, <1>4, BelowIsSlow
<1> QED BY <1>5 DEF RatioNum, RatioDen

\* The difficulty after updateVarDiff, compared with the one before.
LEMMA UpdateFollowsRatio ==
  ASSUME VarDiffInv, NEW n \in Nat, NEW d \in Nat, updateVarDiff(n, d)
  PROVE  /\ Rises(minDiff, minDiff') => n > d
         /\ Rises(minDiff', minDiff) => n < d
         /\ SameDiff(minDiff', minDiff) => n = d
<1> DEFINE a == minDiff[1]
           b == minDiff[2]
<1>1. a \in Nat \ {0} /\ b \in Nat \ {0}
  BY DEF VarDiffInv, TypeOK, MinDiffPositive
<1>2. minDiff'[1] = a * n /\ minDiff'[2] = b * d
  BY DEF updateVarDiff
<1>3. /\ Rises(minDiff, minDiff') <=> (a * n) * b > a * (b * d)
      /\ Rises(minDiff', minDiff) <=> a * (b * d) > (a * n) * b
      /\ SameDiff(minDiff', minDiff) <=> (a * n) * b = a * (b * d)
  BY <1>2 DEF Rises, SameDiff
<1> HIDE DEF a, b
<1> QED BY <1>1, <1>3, ScaledDiff

\* The floor of the ratio keeps its side of 1.
LEMMA LowerRatioIsLower ==
  ASSUME TypeOK, RatioNum < RatioDen
  PROVE  LowerRatio[1] < LowerRatio[2]
BY Ratios DEF LowerRatio

\* A retarget goes the way the measured rate asks for.
LEMMA CheckFollowsRate ==
  ASSUME VarDiffInv, Check, retargets' # retargets
  PROVE  /\ Rises(minDiff, minDiff') => RatioNum > RatioDen
         /\ Rises(minDiff', minDiff) => RatioNum < RatioDen
<1>1. TypeOK /\ LadderInv /\ RatioNum \in Nat /\ RatioDen \in Nat
  BY Ratios DEF VarDiffInv
<1>2. clock \in Nat /\ clock > 0
  BY <1>1 DEF Check, TypeOK
<1>3. CASE updateVarDiff(RatioNum, RatioDen)
  BY <1>1, <1>3, UpdateFollowsRatio
<1>4. CASE TooFew /\ updateVarDiff(LowerRatio[1], LowerRatio[2])
  <2>1. RatioNum < RatioDen
    BY <1>1, <1>4, TooFewIsSlow
  <2>2. LowerRatio[1] \in Nat /\ LowerRatio[2] \in Nat /\ LowerRatio[1] < LowerRatio[2]
    BY <1>1, <1>2, <2>1, RetargetRatio, LowerRatioIsLower
  <2> DEFINE n == LowerRatio[1]
             d == LowerRatio[2]
  <2>3. n \in Nat /\ d \in Nat /\ n < d /\ updateVarDiff(n, d)
    BY <1>4, <2>2
  <2> HIDE DEF n, d
  <2>4. Rises(minDiff, minDiff') => n > d
    BY <2>3, UpdateFollowsRatio
  <2> QED BY <2>1, <2>3, <2>4
<1> QED BY <1>3, <1>4 DEF Check

\* The difficulty rises only when shares came faster than expected, and falls
\* only when they came slower, whatever window made the decision.
THEOREM RetargetsFollowTheRate == Spec => RetargetFollowsRate
<1> DEFINE Follows == retargets' # retargets =>
                        /\ Rises(minDiff, minDiff') => RatioNum > RatioDen
                        /\ Rises(minDiff', minDiff) => RatioNum < RatioDen
<1>1. VarDiffInv /\ [Next]_vars => [Follows]_vars
  <2> SUFFICES ASSUME VarDiffInv, Next, retargets' # retargets
               PROVE  /\ Rises(minDiff, minDiff') => RatioNum > RatioDen
                      /\ Rises(minDiff', minDiff) => RatioNum < RatioDen
    OBVIOUS
  <2>1. Check
    BY DEF Next, Tick, ShareFound, NewBlock
  <2> QED BY <2>1, CheckFollowsRate
<1> QED BY <1>1, VarDiffInvHolds, PTL DEF Spec, RetargetFollowsRate

----------------------------------------------------------------------------
(* A stopped tracker                                                        *)

\* The thread looks at a worker often enough for its tables: within the
\* tolerance of every window, and before the next window is over.  With the
\* tables of the code this is a retarget interval of at most 30 seconds.
LooksOftenEnough ==
  \A i \in 1 .. Last - 1 :
    /\ 100 * Interval <= Tolerances[i] * Windows[i] * TicksPerMinute
    /\ i + 1 # Last =>
         Windows[i] * TicksPerMinute + Interval <= Windows[i + 1] * TicksPerMinute

\* A window is left at the first look after it is over.
PaceInv ==
  tracker = "on" /\ window # Last =>
    clock + sleep < Windows[window] * TicksPerMinute + Interval

\* While the tracker runs, the miner works at the worker's difficulty.
SentInv ==
  /\ sent[1] > 0 /\ sent[2] > 0
  /\ tracker = "on" => sent = minDiff

StoppedInv == PaceInv /\ SentInv /\ StoppedTrackerHasDiffToSend

\* A rate out of tolerance is not the expected rate.
LEMMA OutOfToleranceIsOff ==
  ASSUME TypeOK, clock > 0, NEW i \in 1 .. Last, OutOfTolerance(i)
  PROVE  RatioNum # RatioDen
<1>1. RatioNum \in Nat /\ RatioDen \in Nat /\ RatioDen > 0 /\ Tolerances[i] \in 1 .. 99
  BY Ratios, Tables
<1> DEFINE t == Tolerances[i]
           n == RatioNum
           d == RatioDen
<1>2. (100 * (n - d) >= t * d \/ 100 * (d - n) >= t * d) /\ n \in Nat /\ d \in Nat \ {0}
        /\ t \in 1 .. 99
  BY <1>1 DEF OutOfTolerance
<1> HIDE DEF t, n, d
<1>3. t * d > 0 /\ t * d \in Int
  BY <1>2
<1>4. n # d
  BY <1>2, <1>3
<1> QED BY <1>4 DEF n, d

\* Looking often enough, the rules of a window that is not the last also leave
\* with another rate.
LEMMA RetargetIsChange ==
  ASSUME TypeOK, LooksOftenEnough, PaceInv, tracker = "on", clock > 0, sleep = 0,
         FinalOut \/ EarlierOut
  PROVE  RatioNum # RatioDen
<1>1. window \in 1 .. Last /\ shares \in Nat /\ clock \in Nat
  BY DEF TypeOK
<1>2. CASE FinalOut
  BY <1>1, <1>2, OutOfToleranceIsOff DEF FinalOut
<1>3. CASE window # Last /\ ClearedWindowBreached
  <2>1. PICK i \in 2 .. window - 1 : OutOfTolerance(i)
    BY <1>3 DEF ClearedWindowBreached
  <2>2. i \in 1 .. Last
    BY <1>1, <2>1, Tables
  <2> QED BY <2>1, <2>2, OutOfToleranceIsOff
<1>4. CASE window # Last /\ AboveWindowMax
  <2> DEFINE w == Windows[window]
             t == Tolerances[window]
  <2>1. window \in 1 .. Last - 1
    BY <1>1, <1>4, Tables
  <2>2. w \in Nat /\ t \in Nat
    BY <1>1, Tables
  <2>3. 100 * shares >= w * ExpectedRate * (100 + t)
    BY <1>4 DEF AboveWindowMax
  <2>4. clock < w * TicksPerMinute + Interval
    BY <1>1, <1>4 DEF PaceInv
  <2>5. 100 * Interval <= t * w * TicksPerMinute
    BY <2>1 DEF LooksOftenEnough
  <2>6. ExpectedRate \in Nat \ {0} /\ TicksPerMinute \in Nat \ {0} /\ Interval \in Nat
    BY RateAssumption, ClockAssumption
  <2> HIDE DEF w, t
  <2>7. shares * TicksPerMinute > clock * ExpectedRate
    BY <1>1, <2>2, <2>3, <2>4, <2>5, <2>6, AboveIsFast
  <2>8. RatioNum > RatioDen /\ RatioNum \in Nat /\ RatioDen \in Nat
    BY <2>7, Ratios DEF RatioNum, RatioDen
  <2> QED BY <2>8
<1> QED BY <1>2, <1>3, <1>4 DEF EarlierOut

\* A retarget by a ratio other than 1 leaves a difference to send.
LEMMA UpdateIsStopped ==
  ASSUME VarDiffInv, StoppedInv, tracker = "on",
         NEW n \in Nat, NEW d \in Nat, n # d, updateVarDiff(n, d), UNCHANGED sent
  PROVE  StoppedInv'
<1>1. sent = minDiff /\ sent[1] > 0 /\ sent[2] > 0
  BY DEF StoppedInv, SentInv
<1>2. tracker' = "off"
  BY DEF updateVarDiff
<1>3. ~SameDiff(minDiff', minDiff)
  BY UpdateFollowsRatio
<1> QED BY <1>1, <1>2, <1>3 DEF StoppedInv, PaceInv, SentInv, StoppedTrackerHasDiffToSend

\* The vardiff thread looks at the worker.
LEMMA CheckKeepsStopped ==
  ASSUME VarDiffInv, StoppedInv, LooksOftenEnough, Check
  PROVE  StoppedInv'
<1>1. TypeOK /\ LadderInv /\ PaceInv /\ SentInv /\ StoppedTrackerHasDiffToSend
  BY DEF VarDiffInv, StoppedInv
<1>2. sleep = 0 /\ sleep' = Interval /\ UNCHANGED <<clock, shares, sent>>
  BY DEF Check
<1>3. window \in 1 .. Last /\ clock \in Nat /\ Interval \in Nat \ {0}
      /\ TicksPerMinute \in Nat \ {0} /\ \A i \in 1 .. Last : Windows[i] \in Nat
  BY <1>1, ClockAssumption, Tables DEF TypeOK
<1>4. CASE (tracker = "off" \/ clock = 0) /\ UNCHANGED <<tracker, window, minDiff, retargets>>
  <2>1. PaceInv'
    <3> SUFFICES ASSUME tracker = "on", window # Last
                 PROVE  clock + Interval < Windows[window] * TicksPerMinute + Interval
      BY <1>2, <1>4 DEF PaceInv
    <3>1. clock = 0
      BY <1>4
    <3>2. Windows[window] \in Nat \ {0}
      BY <1>3, Tables
    <3>3. Windows[window] * TicksPerMinute > 0 /\ Windows[window] * TicksPerMinute \in Int
      BY <1>3, <3>2
    <3> QED BY <1>3, <3>1, <3>3
  <2> QED BY <1>1, <1>2, <1>4, <2>1 DEF StoppedInv, SentInv, StoppedTrackerHasDiffToSend
<1>5. CASE tracker = "on" /\ clock # 0
  <2>0. clock > 0
    BY <1>3, <1>5
  <2>1. CASE (FinalOut \/ EarlierOut) /\ updateVarDiff(RatioNum, RatioDen)
    <3>1. RatioNum # RatioDen /\ RatioNum \in Nat /\ RatioDen \in Nat
      BY <1>1, <1>2, <1>5, <2>0, <2>1, RetargetIsChange, Ratios
    <3> QED BY <1>2, <1>5, <2>1, <3>1, UpdateIsStopped
  <2>2. CASE TooFew /\ updateVarDiff(LowerRatio[1], LowerRatio[2])
    <3>1. RatioNum < RatioDen
      BY <1>1, <2>2, TooFewIsSlow
    <3>2. LowerRatio[1] \in Nat /\ LowerRatio[2] \in Nat /\ LowerRatio[1] < LowerRatio[2]
      BY <1>1, <2>0, <3>1, RetargetRatio, LowerRatioIsLower
    <3> DEFINE n == LowerRatio[1]
               d == LowerRatio[2]
    <3>3. n \in Nat /\ d \in Nat /\ n # d /\ updateVarDiff(n, d)
      BY <2>2, <3>2
    <3> HIDE DEF n, d
    <3> QED BY <1>2, <1>5, <3>3, UpdateIsStopped
  <2>3. CASE Advance /\ window' = window + 1 /\ UNCHANGED <<tracker, minDiff, retargets>>
    <3>1. PaceInv'
      <4> SUFFICES ASSUME window + 1 # Last
                   PROVE  clock + Interval < Windows[window + 1] * TicksPerMinute + Interval
        BY <1>2, <2>3 DEF PaceInv
      <4>1. window \in 1 .. Last - 1 /\ window # Last /\ window + 1 \in 1 .. Last
        BY <1>1, <2>3, <1>3, Tables DEF Advance
      <4> DEFINE x == Windows[window] * TicksPerMinute
                 y == Windows[window + 1] * TicksPerMinute
      <4>2. x \in Int /\ y \in Int
        BY <1>3, <4>1
      <4>3. clock < x + Interval
        BY <1>1, <1>2, <1>3, <1>5, <4>1 DEF PaceInv
      <4>4. x + Interval <= y
        BY <4>1 DEF LooksOftenEnough
      <4> HIDE DEF x, y
      <4>5. clock + Interval < y + Interval
        BY <1>3, <4>2, <4>3, <4>4
      <4> QED BY <4>5 DEF y
    <3> QED BY <1>1, <1>2, <2>3, <3>1 DEF StoppedInv, SentInv, StoppedTrackerHasDiffToSend
  <2>4. CASE ~(FinalOut \/ EarlierOut \/ TooFew \/ Advance)
             /\ UNCHANGED <<tracker, window, minDiff, retargets>>
    <3>1. PaceInv'
      <4> SUFFICES ASSUME window # Last
                   PROVE  clock + Interval < Windows[window] * TicksPerMinute + Interval
        BY <1>2, <2>4 DEF PaceInv
      <4>1. ~(clock >= Windows[window] * TicksPerMinute)
        BY <2>4 DEF TooFew, Advance, WindowOver
      <4>2. Windows[window] * TicksPerMinute \in Int
        BY <1>3
      <4> QED BY <1>3, <4>1, <4>2
    <3> QED BY <1>1, <1>2, <2>4, <3>1 DEF StoppedInv, SentInv, StoppedTrackerHasDiffToSend
  <2> QED BY <1>5, <2>1, <2>2, <2>3, <2>4 DEF Check
<1>6. tracker = "on" \/ tracker = "off"
  BY <1>1 DEF TypeOK
<1>7. (tracker = "off" \/ clock = 0) => UNCHANGED <<tracker, window, minDiff, retargets>>
  BY DEF Check
<1> QED BY <1>4, <1>5, <1>6, <1>7

\* Time, shares and new blocks.
LEMMA OtherStepKeepsStopped ==
  ASSUME VarDiffInv, StoppedInv, Tick \/ ShareFound \/ NewBlock
  PROVE  StoppedInv'
<1>1. TypeOK /\ LadderInv /\ MinDiffPositive /\ PaceInv /\ SentInv /\ StoppedTrackerHasDiffToSend
  BY DEF VarDiffInv, StoppedInv
<1>2. clock \in Nat /\ sleep \in 0 .. Interval /\ Interval \in Nat \ {0}
  BY <1>1, ClockAssumption DEF TypeOK
<1>3. CASE Tick
  <2>1. /\ UNCHANGED <<tracker, window, minDiff, sent>>
        /\ sleep' = sleep - 1 /\ (tracker = "on" => clock' = clock + 1)
    BY <1>3 DEF Tick
  <2>2. tracker = "on" => clock' + sleep' = clock + sleep
    BY <1>2, <2>1
  <2> QED BY <1>1, <2>1, <2>2 DEF StoppedInv, PaceInv, SentInv, StoppedTrackerHasDiffToSend
<1>4. CASE ShareFound
  BY <1>1, <1>4 DEF ShareFound, StoppedInv, PaceInv, SentInv, StoppedTrackerHasDiffToSend
<1>5. CASE NewBlock
  <2>1. /\ sent' = minDiff /\ tracker' = "on" /\ UNCHANGED <<sleep, window, minDiff>>
        /\ \/ tracker = "on" /\ UNCHANGED clock
           \/ tracker = "off" /\ clock' = 0
    BY <1>1, <1>5 DEF NewBlock, startVarDiff, TypeOK
  <2>2. PaceInv'
    <3>1. CASE tracker = "on" /\ UNCHANGED clock
      BY <1>1, <2>1, <3>1 DEF PaceInv
    <3>2. CASE tracker = "off" /\ clock' = 0
      <4> SUFFICES ASSUME window # Last
                   PROVE  0 + sleep < Windows[window] * TicksPerMinute + Interval
        BY <2>1, <3>2 DEF PaceInv
      <4>1. Windows[window] \in Nat \ {0} /\ TicksPerMinute \in Nat \ {0}
        BY <1>1, Tables, ClockAssumption DEF TypeOK
      <4>2. Windows[window] * TicksPerMinute > 0 /\ Windows[window] * TicksPerMinute \in Int
        BY <4>1
      <4> QED BY <1>2, <4>2
    <3> QED BY <2>1, <3>1, <3>2
  <2> QED BY <1>1, <2>1, <2>2
      DEF StoppedInv, SentInv, MinDiffPositive, StoppedTrackerHasDiffToSend
<1> QED BY <1>3, <1>4, <1>5

\* The tracker starts with the difficulty the miner has.
LEMMA StoppedInvInit == Init => StoppedInv
<1> SUFFICES ASSUME Init PROVE StoppedInv
  OBVIOUS
<1>1. window \in 1 .. Last /\ window # Last
  BY Tables DEF Init
<1>2. Windows[window] \in Nat \ {0} /\ TicksPerMinute \in Nat \ {0} /\ Interval \in Nat
  BY <1>1, Tables, ClockAssumption
<1>3. Windows[window] * TicksPerMinute > 0 /\ Windows[window] * TicksPerMinute \in Int
  BY <1>2
<1>4. clock = 0 /\ sleep \in 1 .. Interval
  BY DEF Init
<1>5. PaceInv
  BY <1>2, <1>3, <1>4 DEF PaceInv
<1> QED BY <1>5 DEF Init, One, StoppedInv, SentInv, StoppedTrackerHasDiffToSend

\* With a retarget interval within the tolerances, updateVarDiff never stops the
\* tracker at the difficulty the miner already has: the client handler always
\* has a difference to send and starts the tracker again.
THEOREM StoppedTrackersAreRestarted ==
  LooksOftenEnough => (Spec => []StoppedTrackerHasDiffToSend)
<1> SUFFICES ASSUME LooksOftenEnough PROVE Spec => []StoppedTrackerHasDiffToSend
  OBVIOUS
<1>1. VarDiffInv /\ StoppedInv /\ [Next]_vars => StoppedInv'
  <2> SUFFICES ASSUME VarDiffInv, StoppedInv, [Next]_vars PROVE StoppedInv'
    OBVIOUS
  <2>1. CASE UNCHANGED vars
    BY <2>1 DEF vars, StoppedInv, PaceInv, SentInv, StoppedTrackerHasDiffToSend
  <2> QED BY <2>1, CheckKeepsStopped, OtherStepKeepsStopped DEF Next
<1>2. StoppedInv => StoppedTrackerHasDiffToSend
  BY DEF StoppedInv
<1> QED BY StoppedInvInit, <1>1, <1>2, VarDiffInvHolds, PTL DEF Spec
=============================================================================
