-------------------------- MODULE Sv2HandlerProofs --------------------------
(***************************************************************************)
(* Proofs about Sv2Handler: whatever a miner sends, and in whatever pieces *)
(* it arrives, the handlers see the miner's messages, each request gets    *)
(* its own answer, and what the bridge keeps is what it has answered.      *)
(***************************************************************************)
EXTENDS Sv2Handler, Induction, SequenceTheorems

----------------------------------------------------------------------------
(* Pieces of a sequence                                                     *)

\* The elements of s after the first a, up to the b-th.
Slice(s, a, b) == SubSeq(s, a + 1, b)

\* A slice is a sequence of the same elements, of the expected length.
LEMMA SliceType ==
  ASSUME NEW S, NEW s \in Seq(S), NEW a \in Nat, NEW b \in Nat, a <= b, b <= Len(s)
  PROVE  /\ Slice(s, a, b) \in Seq(S)
         /\ Len(Slice(s, a, b)) = b - a
         /\ \A i \in 1 .. b - a : Slice(s, a, b)[i] = s[a + i]
  BY DEF Slice

\* The slice of all is the sequence.
LEMMA SliceAll ==
  ASSUME NEW S, NEW s \in Seq(S)
  PROVE  Slice(s, 0, Len(s)) = s
  BY SubSeqFull DEF Slice

\* A slice from a place to itself is empty.
LEMMA SliceEmpty ==
  ASSUME NEW S, NEW s \in Seq(S), NEW a \in Nat, a <= Len(s)
  PROVE  Slice(s, a, a) = << >>
  BY SubSeqEmpty DEF Slice

\* Two slices that meet make one.
LEMMA SliceJoin ==
  ASSUME NEW S, NEW s \in Seq(S), NEW a \in Nat, NEW b \in Nat, NEW c \in Nat,
         a <= b, b <= c, c <= Len(s)
  PROVE  Slice(s, a, b) \o Slice(s, b, c) = Slice(s, a, c)
  BY ConcatAdjacentSubSeq DEF Slice

\* A slice of a slice is a slice.
LEMMA SliceOfSlice ==
  ASSUME NEW S, NEW s \in Seq(S), NEW a \in Nat, NEW b \in Nat, a <= b, b <= Len(s),
         NEW m \in Nat, NEW n \in Nat, m <= n, n <= b - a
  PROVE  Slice(Slice(s, a, b), m, n) = Slice(s, a + m, a + n)
<1> DEFINE u == Slice(s, a, b)
           x == Slice(u, m, n)
           y == Slice(s, a + m, a + n)
<1>1. u \in Seq(S) /\ Len(u) = b - a /\ \A i \in 1 .. b - a : u[i] = s[a + i]
  BY SliceType
<1> HIDE DEF u
<1>2. x \in Seq(S) /\ Len(x) = n - m /\ \A i \in 1 .. n - m : x[i] = u[m + i]
  <2>1. n <= Len(u)
    BY <1>1
  <2>2. u \in Seq(S)
    BY <1>1
  <2> QED BY <2>1, <2>2, SliceType, ZenonT(40)
<1>3. /\ y \in Seq(S) /\ Len(y) = (a + n) - (a + m)
      /\ \A i \in 1 .. (a + n) - (a + m) : y[i] = s[(a + m) + i]
  <2>1. a + m \in Nat /\ a + n \in Nat /\ a + m <= a + n /\ a + n <= Len(s)
    OBVIOUS
  <2> QED BY <2>1, SliceType, ZenonT(40)
<1> HIDE DEF x, y
<1>4. \A i \in 1 .. n - m : x[i] = y[i]
  <2> SUFFICES ASSUME NEW i \in 1 .. n - m PROVE x[i] = y[i]
    OBVIOUS
  <2>1. x[i] = u[m + i] /\ m + i \in 1 .. b - a /\ i \in 1 .. (a + n) - (a + m)
    BY <1>2
  <2>2. u[m + i] = s[a + (m + i)] /\ y[i] = s[(a + m) + i] /\ a + (m + i) = (a + m) + i
    BY <1>1, <1>3, <2>1
  <2> QED BY <2>1, <2>2
<1>5. x = y
  <2>a. Len(x) = n - m /\ Len(y) = (a + n) - (a + m)
    BY <1>2, <1>3
  <2>b. (a + n) - (a + m) = n - m
    OBVIOUS
  <2>1. Len(x) = Len(y) /\ \A i \in 1 .. Len(x) : x[i] = y[i]
    <3>1. Len(x) = Len(y)
      BY <2>a, <2>b
    <3>2. \A i \in 1 .. Len(x) : x[i] = y[i]
      BY <2>a, <1>4
    <3> QED BY <3>1, <3>2
  <2>2. x \in Seq(S) /\ y \in Seq(S)
    BY <1>2, <1>3
  <2> QED BY <2>1, <2>2, SeqEqual
<1> QED BY <1>5 DEF x, y, u

\* The front of a slice.
LEMMA SliceHead ==
  ASSUME NEW S, NEW s \in Seq(S), NEW a \in Nat, NEW b \in Nat, a <= b, b <= Len(s),
         NEW n \in Nat, n <= b - a
  PROVE  Slice(Slice(s, a, b), 0, n) = Slice(s, a, a + n)
<1>1. \A m \in Nat : m <= n => Slice(Slice(s, a, b), m, n) = Slice(s, a + m, a + n)
  BY SliceOfSlice
<1>2. 0 \in Nat /\ 0 <= n /\ a + 0 = a
  OBVIOUS
<1> QED BY <1>1, <1>2

----------------------------------------------------------------------------
(* Pick                                                                     *)

\* What Pick has collected after i elements.
Picks(p, s, I) ==
  /\ p[0] = << >>
  /\ \A i \in 1 .. Len(s) : p[i] = IF i \in I THEN Append(p[i - 1], s[i]) ELSE p[i - 1]

\* The fold of Pick, as a sequence of picks of longer and longer prefixes.
LEMMA PickIsSound ==
  ASSUME NEW S, NEW s \in Seq(S), NEW I
  PROVE  \E p \in [0 .. Len(s) -> Seq(S)] : Picks(p, s, I) /\ Pick(s, I) = p[Len(s)]
<1> DEFINE n == Len(s)
           F(p) == [i \in 0 .. n |-> IF i = 0 THEN << >>
                                     ELSE IF i \in I THEN Append(p[i - 1], s[i]) ELSE p[i - 1]]
           G == [t \in (1 .. n) \X Seq(S) |-> IF t[1] \in I THEN Append(t[2], s[t[1]]) ELSE t[2]]
<1>1. n \in Nat /\ \A i \in 1 .. n : s[i] \in S
  BY LenProperties, ElementOfSeq
<1> HIDE DEF n
<1>2. \A i \in 1 .. n : \A t \in Seq(S) :
        G[<<i, t>>] = (IF i \in I THEN Append(t, s[i]) ELSE t)
  <2> SUFFICES ASSUME NEW i \in 1 .. n, NEW t \in Seq(S)
               PROVE  G[<<i, t>>] = (IF i \in I THEN Append(t, s[i]) ELSE t)
    OBVIOUS
  <2>1. <<i, t>> \in (1 .. n) \X Seq(S)
    OBVIOUS
  <2> QED BY <2>1
<1>3. G \in [(1 .. n) \X Seq(S) -> Seq(S)]
  <2> SUFFICES ASSUME NEW t \in (1 .. n) \X Seq(S)
               PROVE  (IF t[1] \in I THEN Append(t[2], s[t[1]]) ELSE t[2]) \in Seq(S)
    OBVIOUS
  <2>1. t[2] \in Seq(S) /\ s[t[1]] \in S
    BY <1>1
  <2>2. Append(t[2], s[t[1]]) \in Seq(S)
    BY <2>1, AppendProperties
  <2> QED BY <2>1, <2>2
<1> HIDE DEF G
<1>4. << >> \in Seq(S)
  OBVIOUS
<1>5. PICK f : Iterates(f, n, Seq(S), << >>, G)
  <2>1. n \in Nat
    BY <1>1
  <2> QED BY <1>3, <1>4, <2>1, IterationExists
<1>5a. /\ f \in [0 .. n -> Seq(S)] /\ f[0] = << >>
       /\ \A i \in 1 .. n : f[i] = G[<<i, f[i - 1]>>]
  BY <1>5 DEF Iterates
<1>6. \A i \in 1 .. n : f[i] = IF i \in I THEN Append(f[i - 1], s[i]) ELSE f[i - 1]
  <2> SUFFICES ASSUME NEW i \in 1 .. n
               PROVE  f[i] = IF i \in I THEN Append(f[i - 1], s[i]) ELSE f[i - 1]
    OBVIOUS
  <2>1. i - 1 \in 0 .. n
    BY <1>1
  <2>2. f[i - 1] \in Seq(S)
    BY <1>5a, <2>1
  <2> QED BY <1>2, <1>5a, <2>2
<1>7. f = F(f)
  <2>1. \A i \in 0 .. n : f[i] = F(f)[i]
    <3> SUFFICES ASSUME NEW i \in 0 .. n PROVE f[i] = F(f)[i]
      OBVIOUS
    <3>1. i = 0 \/ i \in 1 .. n
      OBVIOUS
    <3>2. i \in 1 .. n => i # 0
      OBVIOUS
    <3> QED BY <1>5a, <1>6, <3>1, <3>2
  <2> QED BY <1>5a, <2>1
<1> DEFINE q == CHOOSE p : p = F(p)
<1>8. q = F(q)
  <2> HIDE DEF F
  <2> QED BY <1>7
<1>9. Pick(s, I) = q[n]
  BY Zenon DEF Pick, n
<1> HIDE DEF q
<1>10. \A i \in 0 .. n : q[i] = IF i = 0 THEN << >>
                                ELSE IF i \in I THEN Append(q[i - 1], s[i]) ELSE q[i - 1]
  BY <1>8
<1>11. q[0] = << >> /\ \A i \in 1 .. n : q[i] = IF i \in I THEN Append(q[i - 1], s[i]) ELSE q[i - 1]
  <2>1. 0 \in 0 .. n /\ \A i \in 1 .. n : i \in 0 .. n /\ i # 0
    BY <1>1
  <2> HIDE DEF F
  <2> QED BY <1>10, <2>1
<1>12. \A i \in 0 .. n : q[i] = f[i]
  <2>1. \A i \in 1 .. n : q[i - 1] = f[i - 1] => q[i] = f[i]
    BY <1>6, <1>11
  <2>2. n \in Nat
    BY <1>1
  <2>3. q[0] = f[0]
    BY <1>5a, <1>11
  <2>4. StepsAgree(q, f, n)
    BY <2>1, <2>3 DEF StepsAgree
  <2> QED BY <2>2, <2>4, IterationsAgree
<1>13. Picks(f, s, I)
  BY <1>5a, <1>6 DEF Picks, n
<1>14. n \in 0 .. n
  BY <1>1
<1> QED BY <1>5a, <1>9, <1>12, <1>13, <1>14 DEF n

\* What is picked is a sequence of the same elements.
LEMMA PickType ==
  ASSUME NEW S, NEW s \in Seq(S), NEW I
  PROVE  Pick(s, I) \in Seq(S)
<1>1. PICK p \in [0 .. Len(s) -> Seq(S)] : Picks(p, s, I) /\ Pick(s, I) = p[Len(s)]
  BY PickIsSound
<1>2. Len(s) \in 0 .. Len(s)
  BY LenProperties
<1> QED BY <1>1, <1>2

\* s and t, and the places wanted of them, are the same up to m.
Same(s, t, I, J, m) ==
  /\ Len(s) \in Nat /\ Len(t) \in Nat /\ m <= Len(s) /\ m <= Len(t)
  /\ \A i \in 1 .. m : s[i] = t[i] /\ (i \in I <=> i \in J)

\* Two folds over the same elements and the same wanted places agree.
LEMMA PicksAgree ==
  ASSUME NEW s, NEW t, NEW I, NEW J, NEW p, NEW q, Picks(p, s, I), Picks(q, t, J),
         NEW m \in Nat, Same(s, t, I, J, m)
  PROVE  \A i \in 0 .. m : p[i] = q[i]
<1>1. p[0] = q[0]
  BY DEF Picks
<1>2. \A i \in 1 .. m : p[i - 1] = q[i - 1] => p[i] = q[i]
  <2> SUFFICES ASSUME NEW i \in 1 .. m, p[i - 1] = q[i - 1] PROVE p[i] = q[i]
    OBVIOUS
  <2>1. i \in 1 .. Len(s) /\ i \in 1 .. Len(t) /\ s[i] = t[i] /\ (i \in I <=> i \in J)
    BY DEF Same
  <2>2. p[i] = IF i \in I THEN Append(p[i - 1], s[i]) ELSE p[i - 1]
    BY <2>1 DEF Picks
  <2>3. q[i] = IF i \in J THEN Append(q[i - 1], t[i]) ELSE q[i - 1]
    BY <2>1 DEF Picks
  <2> QED BY <2>1, <2>2, <2>3
<1>3. StepsAgree(p, q, m)
  BY <1>1, <1>2 DEF StepsAgree
<1> QED BY <1>3, IterationsAgree

\* Only the places of the sequence matter.
LEMMA PickAgree ==
  ASSUME NEW S, NEW s \in Seq(S), NEW I, NEW J, \A i \in 1 .. Len(s) : i \in I <=> i \in J
  PROVE  Pick(s, I) = Pick(s, J)
<1>1. PICK p \in [0 .. Len(s) -> Seq(S)] : Picks(p, s, I) /\ Pick(s, I) = p[Len(s)]
  BY PickIsSound
<1>2. PICK q \in [0 .. Len(s) -> Seq(S)] : Picks(q, s, J) /\ Pick(s, J) = q[Len(s)]
  BY PickIsSound
<1>3. Len(s) \in Nat /\ Len(s) <= Len(s) /\ Len(s) \in 0 .. Len(s)
  BY LenProperties
<1>4. Picks(p, s, I) /\ Picks(q, s, J)
  BY <1>1, <1>2
<1>5. \A i \in 0 .. Len(s) : p[i] = q[i]
  <2>1. Same(s, s, I, J, Len(s))
    BY <1>3 DEF Same
  <2> QED BY <1>3, <1>4, <2>1, PicksAgree
<1> QED BY <1>1, <1>2, <1>3, <1>5

\* t is s and one more element.
LEMMA PickExtend ==
  ASSUME NEW S, NEW s \in Seq(S), NEW t \in Seq(S), Len(t) = Len(s) + 1, NEW I,
         \A i \in 1 .. Len(s) : t[i] = s[i]
  PROVE  Pick(t, I) = IF Len(t) \in I THEN Append(Pick(s, I), t[Len(t)]) ELSE Pick(s, I)
<1>1. PICK p \in [0 .. Len(s) -> Seq(S)] : Picks(p, s, I) /\ Pick(s, I) = p[Len(s)]
  BY PickIsSound
<1>2. PICK q \in [0 .. Len(t) -> Seq(S)] : Picks(q, t, I) /\ Pick(t, I) = q[Len(t)]
  BY PickIsSound
<1>3. Len(s) \in Nat /\ Len(t) \in Nat /\ Len(s) \in 0 .. Len(s) /\ Len(t) \in 1 .. Len(t)
      /\ Len(t) - 1 = Len(s)
  BY LenProperties
<1>4. Picks(p, s, I) /\ Picks(q, t, I)
  BY <1>1, <1>2
<1>5. \A i \in 0 .. Len(s) : p[i] = q[i]
  <2>1. Same(s, t, I, I, Len(s))
    BY <1>3 DEF Same
  <2> QED BY <1>3, <1>4, <2>1, PicksAgree
<1>6. q[Len(t)] = IF Len(t) \in I THEN Append(q[Len(t) - 1], t[Len(t)]) ELSE q[Len(t) - 1]
  BY <1>3, <1>4 DEF Picks
<1> QED BY <1>1, <1>2, <1>3, <1>5, <1>6

\* Of a sequence with one more element, that element is picked if it is wanted.
LEMMA PickAppend ==
  ASSUME NEW S, NEW s \in Seq(S), NEW x \in S, NEW I
  PROVE  Pick(Append(s, x), I) =
           IF Len(s) + 1 \in I THEN Append(Pick(s, I), x) ELSE Pick(s, I)
<1> DEFINE t == Append(s, x)
<1>1. /\ t \in Seq(S) /\ Len(t) = Len(s) + 1
      /\ t[Len(s) + 1] = x /\ \A i \in 1 .. Len(s) : t[i] = s[i]
  BY AppendProperties
<1> HIDE DEF t
<1>2. Pick(t, I) = IF Len(t) \in I THEN Append(Pick(s, I), t[Len(t)]) ELSE Pick(s, I)
  BY <1>1, PickExtend
<1> QED BY <1>1, <1>2 DEF t

\* Nothing is picked from nothing.
LEMMA PickEmpty ==
  ASSUME NEW I
  PROVE  Pick(<< >>, I) = << >>
<1>1. << >> \in Seq({}) /\ Len(<< >>) = 0
  OBVIOUS
<1>2. PICK p \in [0 .. Len(<< >>) -> Seq({})] : Picks(p, << >>, I) /\ Pick(<< >>, I) = p[Len(<< >>)]
  BY <1>1, PickIsSound
<1> QED BY <1>1, <1>2 DEF Picks

\* When every place is wanted, nothing is left out.
LEMMA PickAll ==
  ASSUME NEW S, NEW s \in Seq(S), NEW I, \A i \in 1 .. Len(s) : i \in I
  PROVE  Pick(s, I) = s
<1> DEFINE n == Len(s)
<1>1. n \in Nat
  BY LenProperties
<1>2. PICK p \in [0 .. Len(s) -> Seq(S)] : Picks(p, s, I) /\ Pick(s, I) = p[Len(s)]
  BY PickIsSound
<1> DEFINE q == [i \in 0 .. n |-> SubSeq(s, 1, i)]
<1>3. \A i \in 0 .. n : q[i] = SubSeq(s, 1, i)
  OBVIOUS
<1> HIDE DEF q
<1>4. p[0] = q[0]
  <2>1. 0 \in 0 .. n
    BY <1>1
  <2>2. SubSeq(s, 1, 0) = << >>
    BY SubSeqEmpty
  <2> QED BY <1>2, <1>3, <2>1, <2>2 DEF Picks
<1>5. \A i \in 1 .. n : p[i - 1] = q[i - 1] => p[i] = q[i]
  <2> SUFFICES ASSUME NEW i \in 1 .. n, p[i - 1] = q[i - 1] PROVE p[i] = q[i]
    OBVIOUS
  <2>1. i \in 0 .. n /\ i - 1 \in 0 .. n /\ i \in I /\ i \in 1 .. Len(s) /\ s[i] \in S
    BY <1>1, ElementOfSeq
  <2>2. p[i] = Append(SubSeq(s, 1, i - 1), s[i])
    BY <1>2, <1>3, <2>1 DEF Picks
  <2>3. Append(SubSeq(s, 1, i - 1), s[i]) = SubSeq(s, 1, i)
    <3>1. SubSeq(s, 1, i - 1) \in Seq(S)
      <4>1. \A j \in 1 .. i - 1 : s[j] \in S
        BY <1>1, ElementOfSeq
      <4>2. 1 \in Int /\ i - 1 \in Int
        BY <1>1
      <4> QED BY <4>1, <4>2, SubSeqProperties
    <3>2. Append(SubSeq(s, 1, i - 1), s[i]) = SubSeq(s, 1, i - 1) \o <<s[i]>>
      BY <2>1, <3>1, AppendIsConcat
    <3>3. 1 \in 1 .. Len(s) /\ i \in 1 .. Len(s)
      BY <1>1, <2>1
    <3> QED BY <3>2, <3>3, SubSeqRecursiveSecond
  <2> QED BY <1>3, <2>1, <2>2, <2>3
<1>6. \A i \in 0 .. n : p[i] = q[i]
  <2>1. StepsAgree(p, q, n)
    BY <1>4, <1>5 DEF StepsAgree
  <2> QED BY <1>1, <2>1, IterationsAgree
<1>7. p[n] = SubSeq(s, 1, n)
  <2>1. n \in 0 .. n
    BY <1>1
  <2> QED BY <1>3, <1>6, <2>1
<1> QED BY <1>2, <1>7, SubSeqFull

\* What is picked of a longer sequence continues what is picked of a shorter one.
LEMMA PickPrefix ==
  ASSUME NEW S, NEW s \in Seq(S), NEW t \in Seq(S), NEW I, NEW J, Same(s, t, I, J, Len(s))
  PROVE  /\ Len(Pick(s, I)) <= Len(Pick(t, J))
         /\ \A i \in 1 .. Len(Pick(s, I)) : Pick(t, J)[i] = Pick(s, I)[i]
<1> DEFINE n == Len(s)
           u == Pick(s, I)
<1>1. PICK p \in [0 .. Len(s) -> Seq(S)] : Picks(p, s, I) /\ Pick(s, I) = p[Len(s)]
  BY PickIsSound
<1>2. PICK q \in [0 .. Len(t) -> Seq(S)] : Picks(q, t, J) /\ Pick(t, J) = q[Len(t)]
  BY PickIsSound
<1>3. n \in Nat /\ Len(t) \in Nat /\ n <= Len(t) /\ n \in 0 .. n
  BY LenProperties DEF Same
<1>4. Picks(p, s, I) /\ Picks(q, t, J)
  BY <1>1, <1>2
<1>5. \A i \in 0 .. n : p[i] = q[i]
  BY <1>3, <1>4, PicksAgree
<1>6. u \in Seq(S) /\ Len(u) \in Nat
  BY PickType, LenProperties
<1> HIDE DEF u
<1> DEFINE Longer(v) == Len(u) <= Len(v) /\ \A i \in 1 .. Len(u) : v[i] = u[i]
           K == {k \in Nat : n + k <= Len(t) => Longer(q[n + k])}
<1>7. 0 \in K
  <2>1. q[n + 0] = u
    BY <1>1, <1>3, <1>5 DEF u
  <2> QED BY <1>6, <2>1
<1>8. ASSUME NEW k \in Nat, k \in K PROVE k + 1 \in K
  <2> SUFFICES ASSUME n + (k + 1) <= Len(t) PROVE Longer(q[n + (k + 1)])
    OBVIOUS
  <2>1. /\ n + k <= Len(t) /\ n + (k + 1) \in 1 .. Len(t) /\ (n + (k + 1)) - 1 = n + k
        /\ n + k \in 0 .. Len(t)
    BY <1>3
  <2>2. Longer(q[n + k])
    BY <1>8, <2>1
  <2>3. q[n + (k + 1)] = IF n + (k + 1) \in J THEN Append(q[n + k], t[n + (k + 1)]) ELSE q[n + k]
    BY <1>4, <2>1 DEF Picks
  <2> DEFINE v == q[n + k]
             x == t[n + (k + 1)]
  <2>4. v \in Seq(S) /\ x \in S
    BY <2>1, ElementOfSeq
  <2>5. Longer(v)
    BY <2>2
  <2>6. q[n + (k + 1)] = IF n + (k + 1) \in J THEN Append(v, x) ELSE v
    BY <2>3
  <2> HIDE DEF v, x
  <2>7. Longer(Append(v, x))
    <3>1. Len(Append(v, x)) = Len(v) + 1 /\ \A i \in 1 .. Len(v) : Append(v, x)[i] = v[i]
      BY <2>4, AppendProperties
    <3>2. Len(v) \in Nat
      BY <2>4, LenProperties
    <3> QED BY <1>6, <2>5, <3>1, <3>2
  <2> HIDE DEF Longer
  <2> QED BY <2>5, <2>6, <2>7
<1> HIDE DEF K
<1>9. \A k \in Nat : k \in K
  BY <1>7, <1>8, SetInduction
<1>10. Longer(q[Len(t)])
  <2> HIDE DEF Longer
  <2>1. Len(t) - n \in Nat /\ n + (Len(t) - n) = Len(t) /\ Len(t) <= Len(t)
    BY <1>3
  <2> QED BY <1>9, <2>1 DEF K
<1> QED BY <1>2, <1>10 DEF u

\* The numbers up to n, of which Kept is a choice.
Numbers(n) == [i \in 1 .. n |-> i]

\* The numbers up to n, as a sequence.
LEMMA NumbersType ==
  ASSUME NEW n \in Nat
  PROVE  Numbers(n) \in Seq(Nat) /\ Len(Numbers(n)) = n /\ \A i \in 1 .. n : Numbers(n)[i] = i
  BY DEF Numbers

----------------------------------------------------------------------------
(* The cursor                                                               *)

Byte == 0 .. Base - 1
Cursors == [data : Seq(Byte), fields : Seq(Seq(Byte)), ok : BOOLEAN]

\* c has read n fields, the first k bytes of b, if it has found enough bytes.
HasRead(c, b, k, n) ==
  c.ok => k \in Nat /\ k <= Len(b) /\ c.data = Slice(b, k, Len(b)) /\ Len(c.fields) = n

\* r continues c with the bytes of b from a to z as its field n + 1.
Continues(r, c, b, a, z, n) ==
  /\ r.fields[n + 1] = Slice(b, a, z)
  /\ \A i \in 1 .. n : r.fields[i] = c.fields[i]

\* A reader of the codec that has enough bytes left takes them, one that has not fails.
LEMMA ReadBytes ==
  ASSUME NEW b \in Seq(Byte), NEW c \in Cursors, NEW k, NEW n \in Nat, HasRead(c, b, k, n),
         NEW w \in Nat
  PROVE  LET r == readBytes(c, w)
         IN  /\ r \in Cursors
             /\ HasRead(r, b, k + w, n + 1)
             /\ r.ok <=> c.ok /\ k + w <= Len(b)
             /\ r.ok => Continues(r, c, b, k, k + w, n)
<1> DEFINE r == readBytes(c, w)
<1>0. c.ok \in BOOLEAN /\ c.data \in Seq(Byte) /\ c.fields \in Seq(Seq(Byte))
  BY DEF Cursors
<1>1. CASE c.ok /\ k + w <= Len(b)
  <2>1. /\ k \in Nat /\ k <= Len(b) /\ c.data = Slice(b, k, Len(b)) /\ Len(c.fields) = n
        /\ Len(b) \in Nat /\ k + w \in Nat
    BY <1>1, LenProperties DEF HasRead
  <2>1a. /\ k \in Nat /\ Len(b) \in Nat /\ k + w \in Nat
         /\ k <= Len(b) /\ Len(b) <= Len(b) /\ k <= k + w /\ k + w <= Len(b)
    BY <1>1, <2>1
  <2> DEFINE d == c.data
             x == SubSeq(d, 1, w)
             y == SubSeq(d, w + 1, Len(d))
             g == Append(c.fields, x)
  <2>2. d \in Seq(Byte) /\ Len(d) = Len(b) - k
    <3>1. Len(Slice(b, k, Len(b))) = Len(b) - k
      BY <2>1a, SliceType
    <3> QED BY <1>0, <2>1, <3>1
  <2>3. w <= Len(d)
    BY <1>1, <2>1, <2>2
  <2>4. x = Slice(b, k, k + w)
    <3>1. w <= Len(b) - k
      BY <2>1, <2>2, <2>3
    <3>2. Slice(Slice(b, k, Len(b)), 0, w) = Slice(b, k, k + w)
      <4>1. \A i \in Nat : i <= Len(b) /\ w <= Len(b) - i =>
              Slice(Slice(b, i, Len(b)), 0, w) = Slice(b, i, i + w)
        <5> SUFFICES ASSUME NEW i \in Nat, i <= Len(b), w <= Len(b) - i
                     PROVE  Slice(Slice(b, i, Len(b)), 0, w) = Slice(b, i, i + w)
          OBVIOUS
        <5>1. Len(b) \in Nat /\ Len(b) <= Len(b)
          BY <2>1a
        <5> QED BY <5>1, SliceHead
      <4> QED BY <2>1a, <3>1, <4>1
    <3>3. Slice(d, 0, w) = x
      BY DEF Slice
    <3> HIDE DEF x
    <3> QED BY <2>1, <3>2, <3>3
  <2>5. y = Slice(b, k + w, Len(b))
    <3>1. Len(d) \in Nat /\ w <= Len(d) /\ Len(d) <= Len(b) - k /\ k + Len(d) = Len(b)
      BY <2>1, <2>2, <2>3
    <3>2. Slice(Slice(b, k, Len(b)), w, Len(d)) = Slice(b, k + w, k + Len(d))
      <4> HIDE DEF d
      <4> QED BY <2>1a, <3>1, SliceOfSlice, SMTT(30)
    <3>3. Slice(d, w, Len(d)) = y
      BY DEF Slice
    <3> HIDE DEF y
    <3> QED BY <2>1, <3>1, <3>2, <3>3
  <2>6. r = [data |-> y, fields |-> g, ok |-> TRUE]
    BY <1>1, <2>3 DEF readBytes
  <2>7. x \in Seq(Byte) /\ y \in Seq(Byte)
    <3>1. Slice(b, k, k + w) \in Seq(Byte) /\ Slice(b, k + w, Len(b)) \in Seq(Byte)
      BY <2>1a, SliceType
    <3> HIDE DEF x, y
    <3> QED BY <2>4, <2>5, <3>1
  <2> HIDE DEF x, y
  <2>8. /\ g \in Seq(Seq(Byte)) /\ Len(g) = n + 1 /\ g[n + 1] = x
        /\ \A i \in 1 .. n : g[i] = c.fields[i]
    BY <1>0, <2>1, <2>7, AppendProperties
  <2> HIDE DEF r, g, d
  <2>9. r.ok /\ r.data = y /\ r.fields = g /\ r \in Cursors
    BY <2>6, <2>7, <2>8 DEF Cursors
  <2>10. HasRead(r, b, k + w, n + 1)
    BY <1>1, <2>1, <2>5, <2>8, <2>9 DEF HasRead
  <2>11. Continues(r, c, b, k, k + w, n)
    BY <2>4, <2>8, <2>9 DEF Continues
  <2> QED BY <1>1, <2>9, <2>10, <2>11 DEF r
<1>2. CASE ~(c.ok /\ k + w <= Len(b))
  <2>1. ~(c.ok /\ Len(c.data) >= w)
    <3> SUFFICES ASSUME c.ok PROVE ~(Len(c.data) >= w)
      OBVIOUS
    <3>1. k \in Nat /\ k <= Len(b) /\ c.data = Slice(b, k, Len(b)) /\ Len(b) \in Nat
      BY LenProperties DEF HasRead
    <3>2. Len(c.data) = Len(b) - k
      <4>1. k \in Nat /\ Len(b) \in Nat /\ k <= Len(b) /\ Len(b) <= Len(b)
        BY <3>1
      <4>2. Len(Slice(b, k, Len(b))) = Len(b) - k
        BY <4>1, SliceType
      <4> QED BY <3>1, <4>2
    <3> QED BY <1>2, <3>1, <3>2
  <2>2. r = [c EXCEPT !.ok = FALSE]
    BY <2>1 DEF readBytes
  <2>3. r \in Cursors /\ ~r.ok
    BY <2>2 DEF Cursors
  <2> HIDE DEF r
  <2> QED BY <1>2, <2>3 DEF HasRead, r
<1> QED BY <1>1, <1>2

\* A text field takes its length byte and as many bytes as that says.
LEMMA ReadStr ==
  ASSUME NEW b \in Seq(Byte), NEW c \in Cursors, NEW k, NEW n \in Nat, HasRead(c, b, k, n)
  PROVE  LET r == readStr0_255(c)
             z == (k + 1) + b[k + 1]
         IN  /\ r \in Cursors
             /\ HasRead(r, b, z, n + 1)
             /\ r.ok <=> c.ok /\ k < Len(b) /\ z <= Len(b)
             /\ r.ok => Continues(r, c, b, k + 1, z, n)
<1> DEFINE r == readStr0_255(c)
           z == (k + 1) + b[k + 1]
<1>0. c.ok \in BOOLEAN /\ c.data \in Seq(Byte) /\ c.fields \in Seq(Seq(Byte)) /\ Len(b) \in Nat
  BY LenProperties DEF Cursors
<1>1. CASE c.ok /\ k < Len(b)
  <2>1. k \in Nat /\ k <= Len(b) /\ c.data = Slice(b, k, Len(b)) /\ Len(c.fields) = n
    BY <1>1 DEF HasRead
  <2>2. c.data # << >> /\ Head(c.data) = b[k + 1] /\ Tail(c.data) = Slice(b, k + 1, Len(b))
    <3>1. k + 1 \in 1 .. Len(b) /\ Len(b) \in k + 1 .. Len(b)
      BY <1>0, <1>1, <2>1
    <3>2. /\ Head(SubSeq(b, k + 1, Len(b))) = b[k + 1]
          /\ Tail(SubSeq(b, k + 1, Len(b))) = SubSeq(b, (k + 1) + 1, Len(b))
      BY <3>1, HeadTailOfSubSeq
    <3>3. Len(Slice(b, k, Len(b))) = Len(b) - k
      <4>1. Len(b) <= Len(b)
        BY <1>0
      <4> QED BY <1>0, <2>1, <4>1, SliceType, ZenonT(40)
    <3>4. Len(c.data) > 0
      BY <1>0, <1>1, <2>1, <3>3
    <3>5. c.data # << >>
      BY <3>4
    <3>6. c.data = SubSeq(b, k + 1, Len(b))
      BY <2>1, Zenon DEF Slice
    <3> QED BY <3>2, <3>5, <3>6, Zenon DEF Slice
  <2> DEFINE e == [c EXCEPT !.data = Tail(@)]
             w == b[k + 1]
  <2>3. e \in Cursors /\ e.ok /\ e.data = Slice(b, k + 1, Len(b)) /\ e.fields = c.fields
    <3>1. Tail(c.data) \in Seq(Byte)
      BY <1>0, <2>2, HeadTailProperties
    <3> QED BY <1>1, <2>2, <3>1 DEF Cursors
  <2>4. w \in Nat
    <3>1. k + 1 \in 1 .. Len(b)
      BY <1>0, <1>1, <2>1
    <3>2. w \in Byte
      BY <3>1, ElementOfSeq
    <3> QED BY <3>2, BaseAssumption DEF Byte
  <2>5. r = readBytes(e, w)
    BY <1>1, <2>2, Zenon DEF readStr0_255
  <2> HIDE DEF e, w
  <2>6. HasRead(e, b, k + 1, n)
    BY <1>0, <1>1, <2>1, <2>3 DEF HasRead
  <2> DEFINE q == readBytes(e, w)
  <2>7. /\ q \in Cursors
        /\ HasRead(q, b, (k + 1) + w, n + 1)
        /\ q.ok <=> e.ok /\ (k + 1) + w <= Len(b)
        /\ q.ok => Continues(q, e, b, k + 1, (k + 1) + w, n)
    <3>1. e \in Cursors
      BY <2>3
    <3> QED BY <2>4, <2>6, <3>1, ReadBytes
  <2>8. q.ok => Continues(q, c, b, k + 1, (k + 1) + w, n)
    BY <2>3, <2>7 DEF Continues
  <2> HIDE DEF q, r
  <2>9. /\ r \in Cursors
        /\ HasRead(r, b, (k + 1) + w, n + 1)
        /\ r.ok <=> c.ok /\ k < Len(b) /\ (k + 1) + w <= Len(b)
        /\ r.ok => Continues(r, c, b, k + 1, (k + 1) + w, n)
    BY <1>1, <2>3, <2>5, <2>7, <2>8 DEF q
  <2> QED BY <2>9 DEF r, w
<1>2. CASE ~(c.ok /\ k < Len(b))
  <2>1. ~(c.ok /\ c.data # << >>)
    <3> SUFFICES ASSUME c.ok PROVE c.data = << >>
      OBVIOUS
    <3>1. k \in Nat /\ k <= Len(b) /\ c.data = Slice(b, k, Len(b))
      BY DEF HasRead
    <3>2. k = Len(b) /\ Len(b) <= Len(b)
      BY <1>0, <1>2, <3>1
    <3>3. Slice(b, Len(b), Len(b)) = << >>
      BY <1>0, <3>2, SliceEmpty
    <3> QED BY <3>1, <3>2, <3>3
  <2>2. r = [c EXCEPT !.ok = FALSE]
    BY <2>1 DEF readStr0_255
  <2>3. r \in Cursors /\ ~r.ok
    BY <2>2 DEF Cursors
  <2> HIDE DEF r
  <2> QED BY <1>2, <2>3 DEF HasRead, r
<1> QED BY <1>1, <1>2

\* The cursors of a parser, one for each field.
Parses(f, payload, layout) ==
  /\ f[0] = newSV2Cursor(payload)
  /\ \A i \in 1 .. Len(layout) : f[i] = readField(f[i - 1], layout[i])

\* A parse is the iteration of the readers of its layout.
LEMMA ParseIsSound ==
  ASSUME NEW b \in Seq(Byte), NEW layout \in Seq(Nat)
  PROVE  \E f \in [0 .. Len(layout) -> Cursors] :
           Parses(f, b, layout) /\ Parse(b, layout) = f[Len(layout)]
<1> DEFINE n == Len(layout)
           F(p) == [i \in 0 .. n |-> IF i = 0 THEN newSV2Cursor(b)
                                     ELSE readField(p[i - 1], layout[i])]
           G == [t \in (1 .. n) \X Cursors |-> readField(t[2], layout[t[1]])]
<1>1. n \in Nat /\ \A i \in 1 .. n : layout[i] \in Nat
  BY LenProperties, ElementOfSeq
<1> HIDE DEF n
<1>2. \A i \in 1 .. n : \A c \in Cursors : G[<<i, c>>] = readField(c, layout[i])
  <2> SUFFICES ASSUME NEW i \in 1 .. n, NEW c \in Cursors
               PROVE  G[<<i, c>>] = readField(c, layout[i])
    OBVIOUS
  <2>1. <<i, c>> \in (1 .. n) \X Cursors
    OBVIOUS
  <2> QED BY <2>1
<1>3. \A c \in Cursors : \A w \in Nat : readField(c, w) \in Cursors
  <2> SUFFICES ASSUME NEW c \in Cursors, NEW w \in Nat PROVE readField(c, w) \in Cursors
    OBVIOUS
  <2> DEFINE d == c.data
             k == Len(c.fields)
  <2>1. d \in Seq(Byte) /\ k \in Nat /\ Len(d) \in Nat
    BY LenProperties DEF Cursors
  <2>2. HasRead(c, d, 0, k)
    BY <2>1, SliceAll DEF HasRead
  <2> HIDE DEF d, k
  <2>3. readBytes(c, w) \in Cursors
    BY <2>1, <2>2, ReadBytes
  <2>4. readStr0_255(c) \in Cursors
    BY <2>1, <2>2, ReadStr
  <2> QED BY <2>3, <2>4 DEF readField
<1>4. G \in [(1 .. n) \X Cursors -> Cursors]
  <2> SUFFICES ASSUME NEW t \in (1 .. n) \X Cursors
               PROVE  readField(t[2], layout[t[1]]) \in Cursors
    OBVIOUS
  <2>1. t[2] \in Cursors /\ layout[t[1]] \in Nat
    BY <1>1
  <2> QED BY <1>3, <2>1
<1> HIDE DEF G
<1>5. newSV2Cursor(b) \in Cursors
  BY DEF newSV2Cursor, Cursors
<1>6. PICK f : Iterates(f, n, Cursors, newSV2Cursor(b), G)
  <2>1. n \in Nat
    BY <1>1
  <2> QED BY <1>4, <1>5, <2>1, IterationExists
<1>7. /\ f \in [0 .. n -> Cursors] /\ f[0] = newSV2Cursor(b)
      /\ \A i \in 1 .. n : f[i] = G[<<i, f[i - 1]>>]
  BY <1>6 DEF Iterates
<1>8. \A i \in 1 .. n : f[i] = readField(f[i - 1], layout[i])
  <2> SUFFICES ASSUME NEW i \in 1 .. n PROVE f[i] = readField(f[i - 1], layout[i])
    OBVIOUS
  <2>1. i - 1 \in 0 .. n
    BY <1>1
  <2>2. f[i - 1] \in Cursors
    BY <1>7, <2>1
  <2> QED BY <1>2, <1>7, <2>2
<1>9. f = F(f)
  <2>1. \A i \in 0 .. n : f[i] = F(f)[i]
    <3> SUFFICES ASSUME NEW i \in 0 .. n PROVE f[i] = F(f)[i]
      OBVIOUS
    <3>1. i = 0 \/ i \in 1 .. n
      OBVIOUS
    <3>2. i \in 1 .. n => i # 0
      OBVIOUS
    <3> QED BY <1>7, <1>8, <3>1, <3>2
  <2> QED BY <1>7, <2>1
<1> DEFINE q == CHOOSE p : p = F(p)
<1>10. q = F(q)
  <2> HIDE DEF F
  <2> QED BY <1>9
<1>11. Parse(b, layout) = q[n]
  BY Zenon DEF Parse, n
<1> HIDE DEF q
<1>12. \A i \in 0 .. n : q[i] = IF i = 0 THEN newSV2Cursor(b) ELSE readField(q[i - 1], layout[i])
  BY <1>10
<1>13. q[0] = newSV2Cursor(b) /\ \A i \in 1 .. n : q[i] = readField(q[i - 1], layout[i])
  <2>1. 0 \in 0 .. n /\ \A i \in 1 .. n : i \in 0 .. n /\ i # 0
    BY <1>1
  <2> HIDE DEF F
  <2> QED BY <1>12, <2>1
<1>14. \A i \in 0 .. n : q[i] = f[i]
  <2>1. StepsAgree(q, f, n)
    BY <1>7, <1>8, <1>13 DEF StepsAgree
  <2>2. n \in Nat
    BY <1>1
  <2> QED BY <2>1, <2>2, IterationsAgree
<1>15. Parses(f, b, layout)
  BY <1>7, <1>8 DEF Parses, n
<1>16. n \in 0 .. n
  BY <1>1
<1> QED BY <1>7, <1>11, <1>14, <1>15, <1>16 DEF n

----------------------------------------------------------------------------
(* What the parsers find is what the protocol says a payload means          *)

\* One step of a parse at a field of fixed length.
LEMMA FixedField ==
  ASSUME NEW b \in Seq(Byte), NEW c \in Cursors, NEW k, NEW n \in Nat, HasRead(c, b, k, n),
         NEW w \in Nat, w # 0, NEW r, r = readField(c, w)
  PROVE  /\ HasRead(r, b, k + w, n + 1)
         /\ r.ok <=> c.ok /\ k + w <= Len(b)
         /\ r.ok => Continues(r, c, b, k, k + w, n)
<1>1. r = readBytes(c, w)
  BY DEF readField, Str
<1> QED BY <1>1, ReadBytes

\* One step of a parse at a text.
LEMMA TextField ==
  ASSUME NEW b \in Seq(Byte), NEW c \in Cursors, NEW k, NEW n \in Nat, HasRead(c, b, k, n),
         NEW r, r = readField(c, Str)
  PROVE  /\ HasRead(r, b, (k + 1) + b[k + 1], n + 1)
         /\ r.ok <=> c.ok /\ k < Len(b) /\ (k + 1) + b[k + 1] <= Len(b)
         /\ r.ok => Continues(r, c, b, k + 1, (k + 1) + b[k + 1], n)
<1>1. r = readStr0_255(c)
  BY DEF readField
<1> QED BY <1>1, ReadStr

\* A parse starts in front of the payload.
LEMMA StartOfParse ==
  ASSUME NEW b \in Seq(Byte), NEW layout, NEW f, Parses(f, b, layout)
  PROVE  HasRead(f[0], b, 0, 0) /\ f[0].ok
<1>1. f[0] = [data |-> b, fields |-> << >>, ok |-> TRUE]
  BY DEF Parses, newSV2Cursor
<1>2. Slice(b, 0, Len(b)) = b /\ Len(b) \in Nat
  BY SliceAll, LenProperties
<1> QED BY <1>1, <1>2 DEF HasRead

\* The number of four bytes.
LEMMA Uint32Is ==
  ASSUME NEW b \in Seq(Byte), NEW k \in Nat, k + 4 <= Len(b)
  PROVE  Uint32(Slice(b, k, k + 4)) = U32At(b, k + 1)
<1>1. Len(b) \in Nat
  BY LenProperties
<1>2. k + 4 \in Nat /\ k <= k + 4 /\ (k + 4) - k = 4
  OBVIOUS
<1>3. \A i \in 1 .. (k + 4) - k : Slice(b, k, k + 4)[i] = b[k + i]
  BY <1>2, SliceType
<1>4. /\ Slice(b, k, k + 4)[1] = b[k + 1] /\ Slice(b, k, k + 4)[2] = b[k + 2]
      /\ Slice(b, k, k + 4)[3] = b[k + 3] /\ Slice(b, k, k + 4)[4] = b[k + 4]
  BY <1>2, <1>3
<1>5. (k + 1) + 1 = k + 2 /\ (k + 1) + 2 = k + 3 /\ (k + 1) + 3 = k + 4
  OBVIOUS
<1> QED BY <1>4, <1>5 DEF Uint32, U32At

\* A share is parsed as the protocol means it.
LEMMA SubmitParsed ==
  ASSUME NEW b \in Seq(Byte)
  PROVE  parseSV2SubmitSharePayload(b) = SubmitMeans(b)
<1> DEFINE L == SubmitLayout
<1>1. L \in Seq(Nat) /\ Len(L) = 6 /\ \A i \in 1 .. 6 : L[i] = 4
  BY DEF SubmitLayout
<1> HIDE DEF L
<1>2. PICK f \in [0 .. Len(L) -> Cursors] : Parses(f, b, L) /\ Parse(b, L) = f[Len(L)]
  BY <1>1, ParseIsSound
<1> DEFINE P(i) == /\ HasRead(f[i], b, 4 * i, i)
                   /\ f[i].ok <=> 4 * i <= Len(b)
                   /\ f[i].ok => \A j \in 1 .. i : f[i].fields[j] = Slice(b, 4 * j - 4, 4 * j)
<1>3. P(0)
  <2>1. HasRead(f[0], b, 0, 0) /\ f[0].ok
    BY <1>2, StartOfParse
  <2>2. Len(b) \in Nat
    BY LenProperties
  <2> QED BY <2>1, <2>2
<1>4. ASSUME NEW i \in 0 .. 5, P(i) PROVE P(i + 1)
  <2>1. f[i + 1] = readField(f[i], 4)
    <3>1. i + 1 \in 1 .. 6 /\ (i + 1) - 1 = i
      OBVIOUS
    <3> QED BY <1>1, <1>2, <3>1 DEF Parses
  <2>2. f[i] \in Cursors
    BY <1>1, <1>2
  <2>3. HasRead(f[i], b, 4 * i, i)
    BY <1>4
  <2>4. /\ HasRead(f[i + 1], b, 4 * i + 4, i + 1)
        /\ f[i + 1].ok <=> f[i].ok /\ 4 * i + 4 <= Len(b)
        /\ f[i + 1].ok => Continues(f[i + 1], f[i], b, 4 * i, 4 * i + 4, i)
    <3>1. i \in Nat /\ 4 \in Nat /\ 4 # 0
      OBVIOUS
    <3> QED BY <2>1, <2>2, <2>3, <3>1, FixedField
  <2>5. 4 * (i + 1) = 4 * i + 4 /\ 4 * (i + 1) - 4 = 4 * i /\ Len(b) \in Nat
    BY LenProperties
  <2>6. f[i + 1].ok <=> 4 * (i + 1) <= Len(b)
    BY <1>4, <2>4, <2>5
  <2>7. ASSUME f[i + 1].ok, NEW j \in 1 .. i + 1
        PROVE  f[i + 1].fields[j] = Slice(b, 4 * j - 4, 4 * j)
    <3>1. CASE j = i + 1
      BY <2>4, <2>5, <2>7, <3>1 DEF Continues
    <3>2. CASE j # i + 1
      <4>1. j \in 1 .. i
        BY <3>2
      <4> QED BY <1>4, <2>4, <2>7, <4>1 DEF Continues
    <3> QED BY <3>1, <3>2
  <2> QED BY <2>4, <2>5, <2>6, <2>7
<1> HIDE DEF P
<1>5. P(1) /\ P(2) /\ P(3) /\ P(4) /\ P(5) /\ P(6)
  <2>1. P(1)
    <3>1. P(0 + 1)
      BY <1>3, <1>4
    <3> QED BY <3>1
  <2>2. P(2)
    <3>1. P(1 + 1)
      BY <2>1, <1>4
    <3> QED BY <3>1
  <2>3. P(3)
    <3>1. P(2 + 1)
      BY <2>2, <1>4
    <3> QED BY <3>1
  <2>4. P(4)
    <3>1. P(3 + 1)
      BY <2>3, <1>4
    <3> QED BY <3>1
  <2>5. P(5)
    <3>1. P(4 + 1)
      BY <2>4, <1>4
    <3> QED BY <3>1
  <2>6. P(6)
    <3>1. P(5 + 1)
      BY <2>5, <1>4
    <3> QED BY <3>1
  <2> QED BY <2>1, <2>2, <2>3, <2>4, <2>5, <2>6
<1>6. /\ f[6].ok <=> 24 <= Len(b)
      /\ f[6].ok => \A j \in 1 .. 6 : f[6].fields[j] = Slice(b, 4 * j - 4, 4 * j)
  BY <1>5 DEF P
<1>7. f[6].ok \in BOOLEAN /\ Len(b) \in Nat
  <2>1. f[6] \in Cursors
    BY <1>1, <1>2
  <2> QED BY <2>1, LenProperties DEF Cursors
<1>8. ASSUME f[6].ok
      PROVE  /\ Uint32(f[6].fields[1]) = U32At(b, 1) /\ Uint32(f[6].fields[2]) = U32At(b, 5)
             /\ Uint32(f[6].fields[3]) = U32At(b, 9) /\ Uint32(f[6].fields[4]) = U32At(b, 13)
             /\ Uint32(f[6].fields[5]) = U32At(b, 17)
  <2>1. /\ f[6].fields[1] = Slice(b, 0, 0 + 4) /\ f[6].fields[2] = Slice(b, 4, 4 + 4)
        /\ f[6].fields[3] = Slice(b, 8, 8 + 4) /\ f[6].fields[4] = Slice(b, 12, 12 + 4)
        /\ f[6].fields[5] = Slice(b, 16, 16 + 4)
    BY <1>6, <1>8
  <2>2. \A k \in {0, 4, 8, 12, 16} : Uint32(Slice(b, k, k + 4)) = U32At(b, k + 1)
    <3> SUFFICES ASSUME NEW k \in {0, 4, 8, 12, 16}
                 PROVE  Uint32(Slice(b, k, k + 4)) = U32At(b, k + 1)
      OBVIOUS
    <3>1. k \in Nat /\ k + 4 <= Len(b)
      BY <1>6, <1>7, <1>8
    <3> QED BY <3>1, Uint32Is
  <2>3. /\ Uint32(Slice(b, 0, 0 + 4)) = U32At(b, 0 + 1) /\ Uint32(Slice(b, 4, 4 + 4)) = U32At(b, 4 + 1)
        /\ Uint32(Slice(b, 8, 8 + 4)) = U32At(b, 8 + 1) /\ Uint32(Slice(b, 12, 12 + 4)) = U32At(b, 12 + 1)
        /\ Uint32(Slice(b, 16, 16 + 4)) = U32At(b, 16 + 1)
    BY <2>2
  <2> QED BY <2>1, <2>3
<1> DEFINE c == Parse(b, SubmitLayout)
<1>9. c = f[6]
  BY <1>1, <1>2 DEF L
<1> HIDE DEF c
<1>10. CASE f[6].ok
  <2>1. Len(b) >= 24 /\ c.ok
    BY <1>6, <1>7, <1>9, <1>10
  <2> QED BY <1>8, <1>9, <1>10, <2>1 DEF parseSV2SubmitSharePayload, SubmitMeans, c
<1>11. CASE ~f[6].ok
  <2>1. ~(Len(b) >= 24) /\ ~c.ok
    BY <1>6, <1>7, <1>9, <1>11
  <2> QED BY <2>1 DEF parseSV2SubmitSharePayload, SubmitMeans, c
<1> QED BY <1>10, <1>11

\* The message of a request to open a channel as a handler records it: the
\* request id is known also when the rest cannot be read.
OpenBody(b) ==
  LET p == parseSV2OpenStandardChannelPayload(b)
  IN  [p EXCEPT !.request = IF p.ok THEN p.request ELSE readSV2RequestID(b)]

\* The opening of a channel is parsed as the protocol means it.
LEMMA OpenParsed ==
  ASSUME NEW b \in Seq(Byte)
  PROVE  /\ OpenBody(b) = OpenMeans(b)
         /\ parseSV2OpenStandardChannelPayload(b).ok = OpenMeans(b).ok
         /\ OpenMeans(b).ok => parseSV2OpenStandardChannelPayload(b) = OpenMeans(b)
<1> DEFINE L == OpenLayout
<1>1. /\ L \in Seq(Nat) /\ Len(L) = 4
      /\ L[1] = 4 /\ L[2] = Str /\ L[3] = 4 /\ L[4] = HashLen /\ HashLen \in Nat /\ HashLen # 0
  BY HashLenAssumption, BaseAssumption DEF OpenLayout, Str
<1> HIDE DEF L
<1>2. PICK f \in [0 .. Len(L) -> Cursors] : Parses(f, b, L) /\ Parse(b, L) = f[Len(L)]
  BY <1>1, ParseIsSound
<1>3. /\ f[1] = readField(f[0], 4) /\ f[2] = readField(f[1], Str)
      /\ f[3] = readField(f[2], 4) /\ f[4] = readField(f[3], HashLen)
  BY <1>1, <1>2 DEF Parses
<1>4. f[0] \in Cursors /\ f[1] \in Cursors /\ f[2] \in Cursors /\ f[3] \in Cursors /\ f[4] \in Cursors
  BY <1>1, <1>2
<1>5. HasRead(f[0], b, 0, 0) /\ f[0].ok
  BY <1>2, StartOfParse
<1>6. Len(b) \in Nat
  BY LenProperties
<1>7. /\ HasRead(f[1], b, 4, 1)
      /\ f[1].ok <=> 4 <= Len(b)
      /\ f[1].ok => f[1].fields[1] = Slice(b, 0, 4)
  <2>1. /\ HasRead(f[1], b, 0 + 4, 0 + 1)
        /\ f[1].ok <=> f[0].ok /\ 0 + 4 <= Len(b)
        /\ f[1].ok => Continues(f[1], f[0], b, 0, 0 + 4, 0)
    <3>1. 0 \in Nat /\ 4 \in Nat /\ 4 # 0
      OBVIOUS
    <3> QED BY <1>3, <1>4, <1>5, <3>1, FixedField
  <2> QED BY <1>5, <2>1 DEF Continues
<1> DEFINE k == (4 + 1) + b[4 + 1]
<1>8. /\ HasRead(f[2], b, k, 2)
      /\ f[2].ok <=> 4 < Len(b) /\ k <= Len(b)
      /\ f[2].ok => f[2].fields[1] = Slice(b, 0, 4) /\ f[2].fields[2] = Slice(b, 5, k)
  <2>1. /\ HasRead(f[2], b, (4 + 1) + b[4 + 1], 1 + 1)
        /\ f[2].ok <=> f[1].ok /\ 4 < Len(b) /\ (4 + 1) + b[4 + 1] <= Len(b)
        /\ f[2].ok => Continues(f[2], f[1], b, 4 + 1, (4 + 1) + b[4 + 1], 1)
    <3>1. 1 \in Nat
      OBVIOUS
    <3> QED BY <1>3, <1>4, <1>7, <3>1, TextField
  <2> QED BY <1>6, <1>7, <2>1 DEF Continues
<1>9. Len(b) > 4 => b[5] \in Nat /\ k = 5 + b[5]
  <2> SUFFICES ASSUME Len(b) > 4 PROVE b[5] \in Nat /\ k = 5 + b[5]
    OBVIOUS
  <2>1. b[5] \in Byte
    BY <1>6, ElementOfSeq
  <2> QED BY <2>1, BaseAssumption DEF Byte
<1> HIDE DEF k
<1>10. /\ HasRead(f[3], b, k + 4, 3)
       /\ f[3].ok <=> f[2].ok /\ k + 4 <= Len(b)
       /\ f[3].ok => f[3].fields[1] = Slice(b, 0, 4) /\ f[3].fields[2] = Slice(b, 5, k)
  <2>1. /\ HasRead(f[3], b, k + 4, 2 + 1)
        /\ f[3].ok <=> f[2].ok /\ k + 4 <= Len(b)
        /\ f[3].ok => Continues(f[3], f[2], b, k, k + 4, 2)
    <3>1. 2 \in Nat /\ 4 \in Nat /\ 4 # 0
      OBVIOUS
    <3> QED BY <1>3, <1>4, <1>8, <3>1, FixedField
  <2> QED BY <1>8, <2>1 DEF Continues
<1>11. /\ f[4].ok <=> f[3].ok /\ (k + 4) + HashLen <= Len(b)
       /\ f[4].ok => f[4].fields[1] = Slice(b, 0, 4) /\ f[4].fields[2] = Slice(b, 5, k)
  <2>1. /\ f[4].ok <=> f[3].ok /\ (k + 4) + HashLen <= Len(b)
        /\ f[4].ok => Continues(f[4], f[3], b, k + 4, (k + 4) + HashLen, 3)
    <3>1. 3 \in Nat
      OBVIOUS
    <3> QED BY <1>1, <1>3, <1>4, <1>10, <3>1, FixedField
  <2> QED BY <1>10, <2>1 DEF Continues
<1> DEFINE ok == 5 <= Len(b) /\ After(b, 5) + 3 + HashLen <= Len(b)
<1>12. f[4].ok <=> ok
  <2>1. CASE Len(b) > 4
    <3>1. After(b, 5) = 6 + b[5]
      BY <1>9, <2>1 DEF After
    <3> QED BY <1>1, <1>6, <1>8, <1>9, <1>10, <1>11, <2>1, <3>1
  <2>2. CASE ~(Len(b) > 4)
    BY <1>6, <1>8, <1>10, <1>11, <2>2
  <2> QED BY <2>1, <2>2
<1>13. f[4].ok \in BOOLEAN
  BY <1>4 DEF Cursors
<1>14. 4 <= Len(b) => Uint32(Slice(b, 0, 4)) = U32At(b, 1)
  <2> SUFFICES ASSUME 4 <= Len(b) PROVE Uint32(Slice(b, 0, 4)) = U32At(b, 1)
    OBVIOUS
  <2>1. Uint32(Slice(b, 0, 0 + 4)) = U32At(b, 0 + 1)
    <3>1. 0 \in Nat /\ 0 + 4 <= Len(b)
      BY <1>6
    <3> QED BY <3>1, Uint32Is
  <2> QED BY <2>1
<1> DEFINE c == Parse(b, OpenLayout)
           p == parseSV2OpenStandardChannelPayload(b)
<1>15. c = f[4]
  BY <1>1, <1>2 DEF L
<1> HIDE DEF c
<1>16. CASE f[4].ok
  <2>1. /\ Uint32(c.fields[1]) = U32At(b, 1)
        /\ c.fields[2] = TextAt(b, 5) /\ c.ok
    <3>1. 4 <= Len(b) /\ Len(b) > 4 /\ k = 5 + b[5]
      BY <1>6, <1>8, <1>9, <1>10, <1>11, <1>16
    <3>2. Slice(b, 5, k) = TextAt(b, 5)
      BY <3>1 DEF Slice, TextAt
    <3> QED BY <1>11, <1>14, <1>15, <1>16, <3>1, <3>2
  <2>2. p = [ok |-> TRUE, request |-> U32At(b, 1), identity |-> TextAt(b, 5)]
    BY <2>1 DEF parseSV2OpenStandardChannelPayload, c
  <2>3. OpenMeans(b) = [ok |-> TRUE, request |-> U32At(b, 1), identity |-> TextAt(b, 5)]
    BY <1>12, <1>16, Zenon DEF OpenMeans
  <2>4. p = OpenMeans(b) /\ p.ok = TRUE
    <3> HIDE DEF p
    <3> QED BY <2>2, <2>3
  <2>5. OpenBody(b) = p
    <3>1. OpenBody(b) = [p EXCEPT !.request = IF p.ok THEN p.request ELSE readSV2RequestID(b)]
      BY Zenon DEF OpenBody
    <3> HIDE DEF p
    <3> QED BY <2>2, <3>1
  <2> QED BY <2>4, <2>5
<1>17. CASE ~f[4].ok
  <2>1. p = [ok |-> FALSE, request |-> 0, identity |-> << >>]
    BY <1>15, <1>17, Zenon DEF parseSV2OpenStandardChannelPayload, c
  <2> DEFINE q == IF Len(b) < 4 THEN 0 ELSE U32At(b, 1)
  <2>2. OpenMeans(b) = [ok |-> FALSE, request |-> q, identity |-> << >>]
    BY <1>12, <1>17, Zenon DEF OpenMeans
  <2>3. readSV2RequestID(b) = q
    <3>1. CASE Len(b) < 4
      BY <3>1 DEF readSV2RequestID
    <3>2. CASE ~(Len(b) < 4)
      <4>1. Uint32(SubSeq(b, 1, 4)) = U32At(b, 1)
        BY <1>6, <1>14, <3>2 DEF Slice
      <4> QED BY <3>2, <4>1 DEF readSV2RequestID
    <3> QED BY <3>1, <3>2
  <2>4. OpenBody(b) = [p EXCEPT !.request = IF p.ok THEN p.request ELSE readSV2RequestID(b)]
    BY Zenon DEF OpenBody
  <2> HIDE DEF p, q
  <2>5. OpenBody(b) = [ok |-> FALSE, request |-> q, identity |-> << >>]
    BY <2>1, <2>3, <2>4
  <2> QED BY <2>1, <2>2, <2>5 DEF p
<1> QED BY <1>16, <1>17

\* A text is empty when its length byte is 0.
LEMMA TextLength ==
  ASSUME NEW b \in Seq(Byte), NEW i \in Nat, i # 0, i <= Len(b), i + b[i] <= Len(b)
  PROVE  (TextAt(b, i) = << >>) <=> (b[i] = 0)
<1>1. Len(b) \in Nat
  BY LenProperties
<1>2. b[i] \in Nat
  <2>1. b[i] \in Byte
    BY <1>1, ElementOfSeq
  <2> QED BY <2>1, BaseAssumption DEF Byte
<1> DEFINE z == i + b[i]
<1>3. z \in Nat /\ i <= z /\ z <= Len(b) /\ TextAt(b, i) = Slice(b, i, z)
  BY <1>2 DEF TextAt, Slice
<1>4. Len(Slice(b, i, z)) = z - i /\ Slice(b, i, z) \in Seq(Byte)
  <2> HIDE DEF z
  <2> QED BY <1>3, SliceType
<1>5. Len(Slice(b, i, z)) = 0 <=> Slice(b, i, z) = << >>
  BY <1>4, EmptySeq
<1>6. z - i = b[i]
  BY <1>2
<1> HIDE DEF z
<1> QED BY <1>3, <1>4, <1>5, <1>6

\* A setup message is parsed as the protocol means it.
LEMMA SetupParsed ==
  ASSUME NEW b \in Seq(Byte)
  PROVE  parseSV2SetupConnectionPayload(b) = SetupMeans(b)
<1> DEFINE L == SetupLayout
<1>1. /\ L \in Seq(Nat) /\ Len(L) = 10
      /\ L[1] = 1 /\ L[2] = 2 /\ L[3] = 2 /\ L[4] = 4 /\ L[5] = Str /\ L[6] = 2
      /\ L[7] = Str /\ L[8] = Str /\ L[9] = Str /\ L[10] = Str
  BY DEF SetupLayout, Str
<1> HIDE DEF L
<1>2. PICK f \in [0 .. Len(L) -> Cursors] : Parses(f, b, L) /\ Parse(b, L) = f[Len(L)]
  BY <1>1, ParseIsSound
<1>3. /\ f[1] = readField(f[0], 1) /\ f[2] = readField(f[1], 2) /\ f[3] = readField(f[2], 2)
      /\ f[4] = readField(f[3], 4) /\ f[5] = readField(f[4], Str) /\ f[6] = readField(f[5], 2)
      /\ f[7] = readField(f[6], Str) /\ f[8] = readField(f[7], Str)
      /\ f[9] = readField(f[8], Str) /\ f[10] = readField(f[9], Str)
  BY <1>1, <1>2 DEF Parses
<1>4. \A i \in 0 .. 10 : f[i] \in Cursors
  BY <1>1, <1>2
<1>5. /\ f[0] \in Cursors /\ f[1] \in Cursors /\ f[2] \in Cursors /\ f[3] \in Cursors
      /\ f[4] \in Cursors /\ f[5] \in Cursors /\ f[6] \in Cursors /\ f[7] \in Cursors
      /\ f[8] \in Cursors /\ f[9] \in Cursors /\ f[10] \in Cursors
  BY <1>4
<1>6. HasRead(f[0], b, 0, 0) /\ f[0].ok /\ Len(b) \in Nat
  BY <1>2, StartOfParse, LenProperties
<1>7. /\ \A i \in 0 .. 10 : i \in Nat
      /\ 1 # 0 /\ 2 # 0 /\ 4 # 0
  OBVIOUS
<1> DEFINE n == Len(b)
           k5 == (9 + 1) + b[9 + 1]
           k6 == k5 + 2
           k7 == (k6 + 1) + b[k6 + 1]
           k8 == (k7 + 1) + b[k7 + 1]
           k9 == (k8 + 1) + b[k8 + 1]
           k10 == (k9 + 1) + b[k9 + 1]
<1>8. HasRead(f[1], b, 1, 1) /\ (f[1].ok <=> 1 <= n)
  <2>1. HasRead(f[1], b, 0 + 1, 0 + 1) /\ (f[1].ok <=> f[0].ok /\ 0 + 1 <= Len(b))
    BY <1>3, <1>5, <1>6, <1>7, FixedField
  <2> QED BY <1>6, <2>1
<1>9. HasRead(f[2], b, 3, 2) /\ (f[2].ok <=> 3 <= n)
  <2> DEFINE k == 1
             m == 1
             w == 2
  <2>1. /\ k \in Nat /\ m \in Nat /\ w \in Nat /\ w # 0 /\ k + w = 3 /\ m + 1 = 2
        /\ HasRead(f[1], b, k, m) /\ f[2] = readField(f[1], w) /\ f[1] \in Cursors
    BY <1>3, <1>5, <1>8
  <2> HIDE DEF k, m, w
  <2>2. HasRead(f[2], b, k + w, m + 1) /\ (f[2].ok <=> f[1].ok /\ k + w <= Len(b))
    BY <2>1, FixedField, SMTT(30)
  <2> QED BY <1>6, <1>8, <2>1, <2>2
<1>10. HasRead(f[3], b, 5, 3) /\ (f[3].ok <=> 5 <= n)
  <2> DEFINE k == 3
             m == 2
             w == 2
  <2>1. /\ k \in Nat /\ m \in Nat /\ w \in Nat /\ w # 0 /\ k + w = 5 /\ m + 1 = 3
        /\ HasRead(f[2], b, k, m) /\ f[3] = readField(f[2], w) /\ f[2] \in Cursors
    BY <1>3, <1>5, <1>9
  <2> HIDE DEF k, m, w
  <2>2. HasRead(f[3], b, k + w, m + 1) /\ (f[3].ok <=> f[2].ok /\ k + w <= Len(b))
    BY <2>1, FixedField, SMTT(30)
  <2> QED BY <1>6, <1>9, <2>1, <2>2
<1>11. HasRead(f[4], b, 9, 4) /\ (f[4].ok <=> 9 <= n)
  <2> DEFINE k == 5
             m == 3
             w == 4
  <2>1. /\ k \in Nat /\ m \in Nat /\ w \in Nat /\ w # 0 /\ k + w = 9 /\ m + 1 = 4
        /\ HasRead(f[3], b, k, m) /\ f[4] = readField(f[3], w) /\ f[3] \in Cursors
    BY <1>3, <1>5, <1>10
  <2> HIDE DEF k, m, w
  <2>2. HasRead(f[4], b, k + w, m + 1) /\ (f[4].ok <=> f[3].ok /\ k + w <= Len(b))
    BY <2>1, FixedField, SMTT(30)
  <2> QED BY <1>6, <1>10, <2>1, <2>2
<1>12. HasRead(f[5], b, k5, 5) /\ (f[5].ok <=> 9 < n /\ k5 <= n)
  <2>1. /\ HasRead(f[5], b, (9 + 1) + b[9 + 1], 4 + 1)
        /\ f[5].ok <=> f[4].ok /\ 9 < Len(b) /\ (9 + 1) + b[9 + 1] <= Len(b)
    BY <1>3, <1>5, <1>7, <1>11, TextField
  <2> QED BY <1>6, <1>11, <2>1
<1> HIDE DEF k5
<1>13. HasRead(f[6], b, k6, 6) /\ (f[6].ok <=> f[5].ok /\ k6 <= n)
  <2>1. HasRead(f[6], b, k5 + 2, 5 + 1) /\ (f[6].ok <=> f[5].ok /\ k5 + 2 <= Len(b))
    BY <1>3, <1>5, <1>7, <1>12, FixedField
  <2> QED BY <2>1
<1> HIDE DEF k6
<1>14. /\ HasRead(f[7], b, k7, 7)
       /\ f[7].ok <=> f[6].ok /\ k6 < n /\ k7 <= n
       /\ f[7].ok => f[7].fields[7] = Slice(b, k6 + 1, k7)
  <2>1. /\ HasRead(f[7], b, (k6 + 1) + b[k6 + 1], 6 + 1)
        /\ f[7].ok <=> f[6].ok /\ k6 < Len(b) /\ (k6 + 1) + b[k6 + 1] <= Len(b)
        /\ f[7].ok => Continues(f[7], f[6], b, k6 + 1, (k6 + 1) + b[k6 + 1], 6)
    BY <1>3, <1>5, <1>7, <1>13, TextField
  <2> QED BY <2>1 DEF Continues
<1> HIDE DEF k7
<1>15. /\ HasRead(f[8], b, k8, 8)
       /\ f[8].ok <=> f[7].ok /\ k7 < n /\ k8 <= n
       /\ f[8].ok => f[8].fields[7] = Slice(b, k6 + 1, k7)
  <2>1. /\ HasRead(f[8], b, (k7 + 1) + b[k7 + 1], 7 + 1)
        /\ f[8].ok <=> f[7].ok /\ k7 < Len(b) /\ (k7 + 1) + b[k7 + 1] <= Len(b)
        /\ f[8].ok => Continues(f[8], f[7], b, k7 + 1, (k7 + 1) + b[k7 + 1], 7)
    BY <1>3, <1>5, <1>7, <1>14, TextField
  <2> QED BY <1>14, <2>1 DEF Continues
<1> HIDE DEF k8
<1>16. /\ HasRead(f[9], b, k9, 9)
       /\ f[9].ok <=> f[8].ok /\ k8 < n /\ k9 <= n
       /\ f[9].ok => f[9].fields[7] = Slice(b, k6 + 1, k7) /\ f[9].fields[9] = Slice(b, k8 + 1, k9)
  <2>1. /\ HasRead(f[9], b, (k8 + 1) + b[k8 + 1], 8 + 1)
        /\ f[9].ok <=> f[8].ok /\ k8 < Len(b) /\ (k8 + 1) + b[k8 + 1] <= Len(b)
        /\ f[9].ok => Continues(f[9], f[8], b, k8 + 1, (k8 + 1) + b[k8 + 1], 8)
    BY <1>3, <1>5, <1>7, <1>15, TextField
  <2> QED BY <1>15, <2>1 DEF Continues
<1> HIDE DEF k9
<1>17. /\ f[10].ok <=> f[9].ok /\ k9 < n /\ k10 <= n
       /\ f[10].ok => f[10].fields[7] = Slice(b, k6 + 1, k7) /\ f[10].fields[9] = Slice(b, k8 + 1, k9)
  <2>1. /\ f[10].ok <=> f[9].ok /\ k9 < Len(b) /\ (k9 + 1) + b[k9 + 1] <= Len(b)
        /\ f[10].ok => Continues(f[10], f[9], b, k9 + 1, (k9 + 1) + b[k9 + 1], 9)
    BY <1>3, <1>5, <1>7, <1>16, TextField
  <2> QED BY <1>16, <2>1 DEF Continues
<1> HIDE DEF k10
<1>18. \A i \in Nat : i < n => b[i + 1] \in Nat
  <2> SUFFICES ASSUME NEW i \in Nat, i < n PROVE b[i + 1] \in Nat
    OBVIOUS
  <2>1. b[i + 1] \in Byte
    BY <1>6, ElementOfSeq
  <2> QED BY <2>1, BaseAssumption DEF Byte
<1> DEFINE vendor == After(b, 10) + 2
           firmware == After(b, After(b, vendor))
           device == After(b, firmware)
           ok == /\ 10 <= n /\ vendor <= n /\ After(b, vendor) <= n /\ firmware <= n
                 /\ device <= n /\ After(b, device) <= n + 1
\* The places, as far as they are in the payload.
<1>19. /\ vendor = (10 + 1 + b[10]) + 2
       /\ After(b, vendor) = vendor + 1 + b[vendor]
       /\ firmware = After(b, vendor) + 1 + b[After(b, vendor)]
       /\ device = firmware + 1 + b[firmware]
       /\ After(b, device) = device + 1 + b[device]
  <2>1. \A i : After(b, i) = i + 1 + b[i]
    BY DEF After
  <2>2. /\ vendor = After(b, 10) + 2 /\ firmware = After(b, After(b, vendor))
        /\ device = After(b, firmware)
    OBVIOUS
  <2> HIDE DEF vendor, firmware, device
  <2> QED BY <2>1, <2>2, Zenon
<1> HIDE DEF vendor, firmware, device, n
<1>19a. vendor = (10 + 1 + b[10]) + 2
  BY <1>19
<1>19b. After(b, vendor) = vendor + 1 + b[vendor]
  BY <1>19
<1>19c. firmware = After(b, vendor) + 1 + b[After(b, vendor)]
  BY <1>19
<1>19d. device = firmware + 1 + b[firmware]
  BY <1>19
<1>19e. After(b, device) = device + 1 + b[device]
  BY <1>19
<1>20. 9 < n => k5 \in Nat /\ k6 \in Nat /\ k6 = 12 + b[10] /\ k5 <= k6 /\ vendor = k6 + 1
  <2> SUFFICES ASSUME 9 < n
               PROVE  k5 \in Nat /\ k6 \in Nat /\ k6 = 12 + b[10] /\ k5 <= k6 /\ vendor = k6 + 1
    OBVIOUS
  <2>1. 9 \in Nat /\ 9 + 1 = 10
    OBVIOUS
  <2>2. b[10] \in Nat
    BY <1>18, <2>1
  <2>3. k5 = 10 + b[10] /\ k6 = k5 + 2
    BY <2>1 DEF k5, k6
  <2> DEFINE y == b[10]
  <2>4. y \in Nat /\ k5 = 10 + y /\ k6 = k5 + 2 /\ vendor = (10 + 1 + y) + 2
    BY <1>19a, <2>2, <2>3
  <2> HIDE DEF y
  <2>5. k5 \in Nat /\ k6 \in Nat /\ k6 = 12 + y /\ k5 <= k6 /\ vendor = k6 + 1
    BY <2>4
  <2> QED BY <2>5 DEF y
<1>21. 9 < n /\ k6 < n =>
         k7 \in Nat /\ k7 = vendor + b[vendor] /\ k6 <= k7 /\ After(b, vendor) = k7 + 1
  <2> SUFFICES ASSUME 9 < n, k6 < n
               PROVE  /\ k7 \in Nat /\ k7 = vendor + b[vendor] /\ k6 <= k7
                      /\ After(b, vendor) = k7 + 1
    OBVIOUS
  <2>1. b[k6 + 1] \in Nat
    BY <1>18, <1>20
  <2>2. k7 = (k6 + 1) + b[k6 + 1]
    BY DEF k7
  <2>3. vendor = k6 + 1 /\ k6 \in Nat
    BY <1>20
  <2> DEFINE y == b[vendor]
  <2>4. y \in Nat /\ k7 = vendor + y /\ After(b, vendor) = vendor + 1 + y
    BY <1>19b, <2>1, <2>2, <2>3
  <2> HIDE DEF y
  <2>5. k7 \in Nat /\ k7 = vendor + y /\ k6 <= k7 /\ After(b, vendor) = k7 + 1
    BY <2>3, <2>4
  <2> QED BY <2>5 DEF y
<1>22. 9 < n /\ k6 < n /\ k7 < n => k8 \in Nat /\ k7 <= k8 /\ firmware = k8 + 1
  <2> SUFFICES ASSUME 9 < n, k6 < n, k7 < n
               PROVE  k8 \in Nat /\ k7 <= k8 /\ firmware = k8 + 1
    OBVIOUS
  <2>1. b[k7 + 1] \in Nat
    BY <1>18, <1>21
  <2>2. k8 = (k7 + 1) + b[k7 + 1]
    BY DEF k8
  <2>3. After(b, vendor) = k7 + 1 /\ k7 \in Nat
    BY <1>21
  <2> DEFINE y == b[k7 + 1]
  <2>4. y \in Nat /\ k8 = (k7 + 1) + y /\ firmware = (k7 + 1) + 1 + y
    BY <1>19c, <2>1, <2>2, <2>3
  <2> HIDE DEF y
  <2> QED BY <2>3, <2>4
<1>23. 9 < n /\ k6 < n /\ k7 < n /\ k8 < n =>
         k9 \in Nat /\ k8 <= k9 /\ k9 = firmware + b[firmware] /\ device = k9 + 1
  <2> SUFFICES ASSUME 9 < n, k6 < n, k7 < n, k8 < n
               PROVE  k9 \in Nat /\ k8 <= k9 /\ k9 = firmware + b[firmware] /\ device = k9 + 1
    OBVIOUS
  <2>1. b[k8 + 1] \in Nat
    BY <1>18, <1>22
  <2>2. k9 = (k8 + 1) + b[k8 + 1]
    BY DEF k9
  <2>3. firmware = k8 + 1 /\ k8 \in Nat
    BY <1>22
  <2> DEFINE y == b[firmware]
  <2>4. y \in Nat /\ k9 = firmware + y /\ device = firmware + 1 + y
    BY <1>19d, <2>1, <2>2, <2>3
  <2> HIDE DEF y
  <2>5. k9 \in Nat /\ k8 <= k9 /\ k9 = firmware + y /\ device = k9 + 1
    BY <2>3, <2>4
  <2> QED BY <2>5 DEF y
<1>24. 9 < n /\ k6 < n /\ k7 < n /\ k8 < n /\ k9 < n =>
         k10 \in Nat /\ After(b, device) = k10 + 1
  <2> SUFFICES ASSUME 9 < n, k6 < n, k7 < n, k8 < n, k9 < n
               PROVE  k10 \in Nat /\ After(b, device) = k10 + 1
    OBVIOUS
  <2>1. b[k9 + 1] \in Nat
    BY <1>18, <1>23
  <2>2. k10 = (k9 + 1) + b[k9 + 1]
    BY DEF k10
  <2>3. device = k9 + 1 /\ k9 \in Nat
    BY <1>23
  <2> DEFINE y == b[device]
  <2>4. y \in Nat /\ k10 = device + y /\ After(b, device) = device + 1 + y
    BY <1>19e, <2>1, <2>2, <2>3
  <2> HIDE DEF y
  <2> QED BY <2>3, <2>4
<1>25. n \in Nat
  BY <1>6 DEF n
<1>27. f[10].ok <=> ok
  <2>1. f[10].ok <=> /\ 9 < n /\ k5 <= n /\ k6 <= n /\ k6 < n /\ k7 <= n /\ k7 < n /\ k8 <= n
                     /\ k8 < n /\ k9 <= n /\ k9 < n /\ k10 <= n
    BY <1>12, <1>13, <1>14, <1>15, <1>16, <1>17, Zenon
  <2>2. CASE ~(9 < n)
    BY <1>25, <2>1, <2>2
  <2>3. CASE 9 < n /\ ~(k6 < n)
    BY <1>20, <1>25, <2>1, <2>3
  <2>4. CASE 9 < n /\ k6 < n /\ ~(k7 < n)
    BY <1>20, <1>21, <1>25, <2>1, <2>4
  <2>5. CASE 9 < n /\ k6 < n /\ k7 < n /\ ~(k8 < n)
    BY <1>20, <1>21, <1>22, <1>25, <2>1, <2>5
  <2>6. CASE 9 < n /\ k6 < n /\ k7 < n /\ k8 < n /\ ~(k9 < n)
    BY <1>20, <1>21, <1>22, <1>23, <1>25, <2>1, <2>6
  <2>7. CASE 9 < n /\ k6 < n /\ k7 < n /\ k8 < n /\ k9 < n
    <3>1. 10 <= n /\ k5 <= n /\ k6 <= n /\ k7 <= n /\ k8 <= n /\ k9 <= n
      BY <1>20, <1>21, <1>22, <1>23, <1>25, <2>7, SMTT(30) DEF k6
    <3>2. vendor <= n /\ After(b, vendor) <= n /\ firmware <= n /\ device <= n
      BY <1>20, <1>21, <1>22, <1>23, <1>25, <2>7, SMTT(30)
    <3>3. After(b, device) <= n + 1 <=> k10 <= n
      BY <1>24, <1>25, <2>7
    <3> QED BY <2>1, <2>7, <3>1, <3>2, <3>3
  <2> QED BY <2>2, <2>3, <2>4, <2>5, <2>6, <2>7
<1> DEFINE c == Parse(b, SetupLayout)
<1>28. c = f[10]
  BY <1>1, <1>2 DEF L
<1>29. c.ok \in BOOLEAN
  BY <1>5, <1>28 DEF Cursors
<1> HIDE DEF c
<1>30. CASE c.ok
  <2>1. /\ 9 < n /\ k6 < n /\ k7 <= n /\ k7 < n /\ k8 < n /\ k9 <= n
    <3>1. f[10].ok
      BY <1>28, <1>30
    <3> QED BY <1>12, <1>13, <1>14, <1>15, <1>16, <1>17, <3>1, Zenon
  <2>2. /\ vendor \in Nat /\ vendor # 0 /\ vendor <= n /\ vendor + b[vendor] <= n
        /\ firmware \in Nat /\ firmware # 0 /\ firmware <= n /\ firmware + b[firmware] <= n
    <3>1. k6 \in Nat /\ vendor = k6 + 1 /\ k7 = vendor + b[vendor]
      BY <1>20, <1>21, <2>1
    <3>2. k8 \in Nat /\ firmware = k8 + 1 /\ k9 = firmware + b[firmware]
      BY <1>22, <1>23, <2>1
    <3>3. vendor \in Nat /\ vendor # 0 /\ vendor <= n
      BY <1>25, <2>1, <3>1
    <3>4. firmware \in Nat /\ firmware # 0 /\ firmware <= n
      BY <1>25, <2>1, <3>2
    <3>5. vendor + b[vendor] <= n
      BY <2>1, <3>1
    <3>6. firmware + b[firmware] <= n
      BY <2>1, <3>2
    <3> QED BY <3>3, <3>4, <3>5, <3>6
  <2>3. c.fields[7] = TextAt(b, vendor) /\ c.fields[9] = TextAt(b, firmware)
    <3>1. Slice(b, k6 + 1, k7) = TextAt(b, vendor)
      BY <1>20, <1>21, <2>1 DEF Slice, TextAt
    <3>2. Slice(b, k8 + 1, k9) = TextAt(b, firmware)
      BY <1>22, <1>23, <2>1 DEF Slice, TextAt
    <3> QED BY <1>17, <1>28, <1>30, <3>1, <3>2
  <2>4. /\ (TextAt(b, vendor) = << >>) <=> (b[vendor] = 0)
        /\ (TextAt(b, firmware) = << >>) <=> (b[firmware] = 0)
    BY <2>2, TextLength DEF n
  <2> DEFINE app == IF b[firmware] # 0 THEN TextAt(b, firmware)
                    ELSE IF b[vendor] # 0 THEN TextAt(b, vendor) ELSE Text("sv2-client")
  <2>5. parseSV2SetupConnectionPayload(b) = [ok |-> TRUE, app |-> app]
    <3>1. parseSV2SetupConnectionPayload(b) =
            [ok |-> c.ok, app |-> IF ~c.ok THEN << >>
                                  ELSE IF c.fields[9] # << >> THEN c.fields[9]
                                  ELSE IF c.fields[7] # << >> THEN c.fields[7]
                                  ELSE Text("sv2-client")]
      BY Zenon DEF parseSV2SetupConnectionPayload, c
    <3>2. c.ok = TRUE
      BY <1>29, <1>30
    <3> QED BY <2>3, <2>4, <3>1, <3>2
  <2>6. SetupMeans(b) = [ok |-> TRUE, app |-> app]
    <3>1. ok
      BY <1>27, <1>28, <1>30
    <3> QED BY <3>1, Zenon DEF SetupMeans, vendor, firmware, device, n
  <2> HIDE DEF app
  <2> QED BY <2>5, <2>6
<1>31. CASE ~c.ok
  <2>1. parseSV2SetupConnectionPayload(b) = [ok |-> FALSE, app |-> << >>]
    <3>1. c.ok = FALSE
      BY <1>29, <1>31
    <3> QED BY <3>1 DEF parseSV2SetupConnectionPayload, c
  <2>2. SetupMeans(b) = [ok |-> FALSE, app |-> << >>]
    <3>1. ~ok
      BY <1>27, <1>28, <1>31
    <3> QED BY <3>1, Zenon DEF SetupMeans, vendor, firmware, device, n
  <2> QED BY <2>1, <2>2
<1> QED BY <1>30, <1>31

----------------------------------------------------------------------------
(* What the handlers have seen                                              *)

\* The messages that are neither cut nor blank.
KeptOf(sent, c) == {i \in 1 .. Len(sent) : i \notin c /\ ~sent[i].blank}

\* The handlers were called with what is kept of the first h messages of M.
HandledOf(M, h, sent, c, calls) ==
  LET K == Pick(Numbers(h), KeptOf(sent, c))
  IN  /\ h \in Nat /\ sent \in Seq(M) /\ h <= Len(sent)
      /\ calls \in Seq({m.means : m \in M})
      /\ Len(calls) = Len(K)
      /\ \A i \in 1 .. Len(K) : calls[i] = sent[K[i]].means

\* The numbers of the messages that are kept are among those handled.
LEMMA KeptType ==
  ASSUME NEW h \in Nat, NEW I
  PROVE  /\ Pick(Numbers(h), I) \in Seq(1 .. h) /\ Len(Pick(Numbers(h), I)) \in Nat
         /\ \A i \in 1 .. Len(Pick(Numbers(h), I)) : Pick(Numbers(h), I)[i] \in 1 .. h
<1>1. Numbers(h) \in Seq(1 .. h)
  BY DEF Numbers
<1>2. Pick(Numbers(h), I) \in Seq(1 .. h)
  BY <1>1, PickType
<1> QED BY <1>2, LenProperties, ElementOfSeq

\* Later messages and what is cut of them make no difference.
LEMMA HandledMove ==
  ASSUME NEW M, NEW h, NEW s, NEW c, NEW d, NEW calls, HandledOf(M, h, s, c, calls),
         NEW t \in Seq(M), Len(s) <= Len(t),
         \A i \in 1 .. h : t[i] = s[i] /\ (i \in c <=> i \in d)
  PROVE  HandledOf(M, h, t, d, calls)
<1> DEFINE K == Pick(Numbers(h), KeptOf(s, c))
           L == Pick(Numbers(h), KeptOf(t, d))
<1>1. /\ h \in Nat /\ s \in Seq(M) /\ h <= Len(s)
      /\ calls \in Seq({m.means : m \in M}) /\ Len(calls) = Len(K)
      /\ \A i \in 1 .. Len(K) : calls[i] = s[K[i]].means
  BY DEF HandledOf
<1>2. Len(s) \in Nat /\ Len(t) \in Nat
  BY <1>1, LenProperties
<1>3. K = L
  <2>1. Numbers(h) \in Seq(Nat) /\ Len(Numbers(h)) = h
    BY <1>1, NumbersType
  <2>2. \A i \in 1 .. h : i \in 1 .. Len(s) /\ i \in 1 .. Len(t)
    BY <1>1, <1>2
  <2>3. \A i \in 1 .. Len(Numbers(h)) : i \in KeptOf(s, c) <=> i \in KeptOf(t, d)
    BY <2>1, <2>2, Zenon DEF KeptOf
  <2> QED BY <2>1, <2>3, PickAgree
<1>4. \A i \in 1 .. Len(K) : K[i] \in 1 .. h
  BY <1>1, KeptType
<1>5. h <= Len(t)
  BY <1>1, <1>2
<1> HIDE DEF K, L
<1>6. \A i \in 1 .. Len(L) : calls[i] = t[L[i]].means
  BY <1>1, <1>3, <1>4
<1> QED BY <1>1, <1>3, <1>5, <1>6 DEF HandledOf, L

\* One message more is passed over or handled.
LEMMA HandledStep ==
  ASSUME NEW M, NEW h, NEW s, NEW c, NEW calls, HandledOf(M, h, s, c, calls), h + 1 <= Len(s)
  PROVE  /\ h + 1 \in c \/ s[h + 1].blank => HandledOf(M, h + 1, s, c, calls)
         /\ h + 1 \notin c /\ ~s[h + 1].blank =>
              HandledOf(M, h + 1, s, c, Append(calls, s[h + 1].means))
<1> DEFINE I == KeptOf(s, c)
           K == Pick(Numbers(h), I)
           L == Pick(Numbers(h + 1), I)
           R == {m.means : m \in M}
           x == s[h + 1].means
<1>1. /\ h \in Nat /\ s \in Seq(M) /\ h <= Len(s)
      /\ calls \in Seq(R) /\ Len(calls) = Len(K)
      /\ \A i \in 1 .. Len(K) : calls[i] = s[K[i]].means
  BY DEF HandledOf
<1>2. Len(s) \in Nat /\ h + 1 \in Nat /\ h + 1 \in 1 .. Len(s) /\ x \in R
  <2>1. Len(s) \in Nat /\ h + 1 \in Nat /\ h + 1 \in 1 .. Len(s)
    BY <1>1, LenProperties
  <2>2. s[h + 1] \in M
    BY <1>1, <2>1, ElementOfSeq
  <2> QED BY <2>1, <2>2
<1>3. L = IF h + 1 \in I THEN Append(K, h + 1) ELSE K
  <2> DEFINE u == Numbers(h)
             v == Numbers(h + 1)
  <2>1. /\ u \in Seq(Nat) /\ Len(u) = h /\ \A i \in 1 .. h : u[i] = i
        /\ v \in Seq(Nat) /\ Len(v) = h + 1 /\ \A i \in 1 .. h + 1 : v[i] = i
    BY <1>1, <1>2, NumbersType
  <2> HIDE DEF u, v
  <2>2. u \in Seq(Nat) /\ v \in Seq(Nat)
    BY <2>1
  <2>3. Len(v) = Len(u) + 1
    BY <2>1
  <2>4. \A i \in 1 .. Len(u) : v[i] = u[i]
    BY <1>1, <2>1
  <2>5. Pick(v, I) = IF Len(v) \in I THEN Append(Pick(u, I), v[Len(v)]) ELSE Pick(u, I)
    BY <2>2, <2>3, <2>4, PickExtend
  <2>6. v[h + 1] = h + 1
    BY <1>1, <2>1
  <2> QED BY <2>1, <2>5, <2>6 DEF u, v
<1>4. h + 1 \in I <=> h + 1 \notin c /\ ~s[h + 1].blank
  BY <1>2, Zenon DEF KeptOf
<1>5. K \in Seq(1 .. h) /\ Len(K) \in Nat
  BY <1>1, KeptType
<1> HIDE DEF K, L, I, R, x
<1>6. ASSUME h + 1 \in c \/ s[h + 1].blank PROVE HandledOf(M, h + 1, s, c, calls)
  <2>1. L = K
    BY <1>3, <1>4, <1>6
  <2>2. L = Pick(Numbers(h + 1), KeptOf(s, c)) /\ R = {m.means : m \in M}
    BY DEF L, I, R
  <2> QED BY <1>1, <1>2, <2>1, <2>2, Zenon DEF HandledOf
<1>7. ASSUME h + 1 \notin c /\ ~s[h + 1].blank
      PROVE  HandledOf(M, h + 1, s, c, Append(calls, x))
  <2> DEFINE n == Append(calls, x)
  <2>1. L = Append(K, h + 1)
    BY <1>3, <1>4, <1>7
  <2>2. /\ Len(L) = Len(K) + 1 /\ L[Len(K) + 1] = h + 1
        /\ \A i \in 1 .. Len(K) : L[i] = K[i]
    <3>1. K \in Seq(Nat)
      <4>1. 1 .. h \subseteq Nat
        BY <1>1
      <4> QED BY <1>5, <4>1, SeqMonotonic
    <3> QED BY <1>2, <2>1, <3>1, AppendProperties
  <2>3. /\ n \in Seq(R) /\ Len(n) = Len(calls) + 1 /\ n[Len(calls) + 1] = x
        /\ \A i \in 1 .. Len(calls) : n[i] = calls[i]
    BY <1>1, <1>2, AppendProperties
  <2> HIDE DEF n
  <2>4. Len(n) = Len(L)
    BY <1>1, <2>2, <2>3
  <2>5. ASSUME NEW i \in 1 .. Len(L) PROVE n[i] = s[L[i]].means
    <3>1. i \in 1 .. Len(K) \/ i = Len(K) + 1
      BY <1>5, <2>2
    <3>2. CASE i \in 1 .. Len(K)
      BY <1>1, <2>2, <2>3, <3>2
    <3>3. CASE i = Len(K) + 1
      BY <1>1, <2>2, <2>3, <3>3 DEF x
    <3> QED BY <3>1, <3>2, <3>3
  <2>6. L = Pick(Numbers(h + 1), KeptOf(s, c)) /\ R = {m.means : m \in M}
    BY DEF L, I, R
  <2>7. h + 1 \in Nat /\ s \in Seq(M) /\ h + 1 <= Len(s) /\ n \in Seq(R)
    BY <1>1, <1>2, <2>3
  <2>8. HandledOf(M, h + 1, s, c, n)
    BY <2>4, <2>5, <2>6, <2>7, Zenon DEF HandledOf
  <2> QED BY <2>8 DEF n
<1> QED BY <1>6, <1>7 DEF x

\* What is said of the first h messages is what the property says of all.
LEMMA HandledFits ==
  ASSUME NEW M, NEW h, NEW s, NEW c, NEW calls, HandledOf(M, h, s, c, calls)
  PROVE  LET all == Pick(Numbers(Len(s)), KeptOf(s, c))
         IN  /\ Len(calls) <= Len(all)
             /\ \A i \in 1 .. Len(calls) : calls[i] = s[all[i]].means
<1> DEFINE I == KeptOf(s, c)
           u == Numbers(h)
           v == Numbers(Len(s))
<1>1. /\ h \in Nat /\ s \in Seq(M) /\ h <= Len(s) /\ Len(calls) = Len(Pick(u, I))
      /\ \A i \in 1 .. Len(Pick(u, I)) : calls[i] = s[Pick(u, I)[i]].means
  BY DEF HandledOf
<1>2. Len(s) \in Nat
  BY <1>1, LenProperties
<1>3. /\ u \in Seq(Nat) /\ Len(u) = h /\ \A i \in 1 .. h : u[i] = i
      /\ v \in Seq(Nat) /\ Len(v) = Len(s) /\ \A i \in 1 .. Len(s) : v[i] = i
  BY <1>1, <1>2, NumbersType
<1> HIDE DEF u, v, I
<1>4. Same(u, v, I, I, Len(u))
  BY <1>1, <1>2, <1>3 DEF Same
<1>5. u \in Seq(Nat) /\ v \in Seq(Nat)
  BY <1>3
<1>6. /\ Len(Pick(u, I)) <= Len(Pick(v, I))
      /\ \A i \in 1 .. Len(Pick(u, I)) : Pick(v, I)[i] = Pick(u, I)[i]
  BY <1>4, <1>5, PickPrefix
<1>7. /\ Len(calls) <= Len(Pick(v, I))
      /\ \A i \in 1 .. Len(calls) : calls[i] = s[Pick(v, I)[i]].means
  BY <1>1, <1>6
<1> QED BY <1>7 DEF v, I

----------------------------------------------------------------------------
(* The bytes the miner has sent                                             *)

\* T is the bytes of the messages one after the other, of which the i-th ends
\* at off[i].
Stream(T, off, sent) ==
  /\ T \in Seq(Nat) /\ off \in [0 .. Len(sent) -> Nat]
  /\ off[0] = 0 /\ off[Len(sent)] = Len(T)
  /\ \A i \in 0 .. Len(sent) : off[i] <= Len(T)
  /\ \A i \in 1 .. Len(sent) : off[i - 1] <= off[i] /\ Slice(T, off[i - 1], off[i]) = sent[i].bytes

\* A slice of the front of a longer sequence is one of the front.
LEMMA SliceOfConcat ==
  ASSUME NEW S, NEW s \in Seq(S), NEW t \in Seq(S)
  PROVE  /\ \A a, b \in Nat : a <= b /\ b <= Len(s) => Slice(s \o t, a, b) = Slice(s, a, b)
         /\ Slice(s \o t, Len(s), Len(s) + Len(t)) = t
<1> DEFINE u == s \o t
<1>1. /\ u \in Seq(S) /\ Len(u) = Len(s) + Len(t) /\ Len(s) \in Nat /\ Len(t) \in Nat
      /\ \A i \in 1 .. Len(s) + Len(t) : u[i] = IF i <= Len(s) THEN s[i] ELSE t[i - Len(s)]
  BY ConcatProperties, LenProperties
<1> HIDE DEF u
<1>2. u \in Seq(S) /\ u = u
  BY <1>1
<1>3. ASSUME NEW a \in Nat, NEW b \in Nat, a <= b, b <= Len(s)
      PROVE  Slice(u, a, b) = Slice(s, a, b)
  <2> DEFINE x == Slice(u, a, b)
             y == Slice(s, a, b)
  <2>1. b <= Len(u)
    BY <1>1, <1>3
  <2>2. x \in Seq(S) /\ Len(x) = b - a /\ \A i \in 1 .. b - a : x[i] = u[a + i]
    BY <1>2, <1>3, <2>1, SliceType
  <2>3. y \in Seq(S) /\ Len(y) = b - a /\ \A i \in 1 .. b - a : y[i] = s[a + i]
    BY <1>3, SliceType
  <2> HIDE DEF x, y
  <2>4. Len(x) = Len(y) /\ \A i \in 1 .. Len(x) : x[i] = y[i]
    <3>1. ASSUME NEW i \in 1 .. b - a PROVE x[i] = y[i]
      <4>1. a + i \in 1 .. Len(s) + Len(t) /\ a + i <= Len(s)
        BY <1>1, <1>3
      <4>2. u[a + i] = s[a + i]
        BY <1>1, <4>1
      <4> QED BY <2>2, <2>3, <4>2
    <3> QED BY <2>2, <2>3, <3>1
  <2>5. x \in Seq(S) /\ y \in Seq(S)
    BY <2>2, <2>3
  <2>6. x = y
    BY <2>4, <2>5, SeqEqual
  <2> QED BY <2>6 DEF x, y
<1>4. Slice(u, Len(s), Len(s) + Len(t)) = t
  <2> DEFINE n == Len(s)
             z == Len(s) + Len(t)
             x == Slice(u, n, z)
  <2>1. n \in Nat /\ z \in Nat /\ n <= z /\ z <= Len(u) /\ z - n = Len(t) /\ Len(t) \in Nat
    BY <1>1
  <2> HIDE DEF n, z
  <2>2. x \in Seq(S) /\ Len(x) = z - n /\ \A i \in 1 .. z - n : x[i] = u[n + i]
    BY <1>2, <2>1, SliceType, SMTT(30)
  <2> HIDE DEF x
  <2>3. Len(x) = Len(t) /\ \A i \in 1 .. Len(x) : x[i] = t[i]
    <3>1. ASSUME NEW i \in 1 .. Len(t) PROVE x[i] = t[i]
      <4>1. n + i \in 1 .. Len(s) + Len(t) /\ ~(n + i <= Len(s)) /\ (n + i) - Len(s) = i
        BY <2>1 DEF n
      <4>2. u[n + i] = t[i]
        BY <1>1, <4>1
      <4> QED BY <2>1, <2>2, <4>2
    <3> QED BY <2>1, <2>2, <3>1
  <2>4. x \in Seq(S)
    BY <2>2
  <2>5. x = t
    BY <2>3, <2>4, SeqEqual
  <2> QED BY <2>5 DEF x, n, z
<1>5. \A a, b \in Nat : a <= b /\ b <= Len(s) => Slice(u, a, b) = Slice(s, a, b)
  BY <1>3
<1> QED BY <1>4, <1>5 DEF u

\* A message more makes the stream longer and moves no message in it.
LEMMA StreamAppend ==
  ASSUME NEW M, NEW sent \in Seq(M), NEW m \in M, m.bytes \in Seq(Nat),
         NEW T, NEW off, Stream(T, off, sent)
  PROVE  \E U, o : /\ Stream(U, o, Append(sent, m)) /\ Len(U) = Len(T) + Len(m.bytes)
                   /\ \A a, b \in Nat : a <= b /\ b <= Len(T) => Slice(U, a, b) = Slice(T, a, b)
                   /\ Slice(U, Len(T), Len(U)) = m.bytes
                   /\ \A i \in 0 .. Len(sent) : o[i] = off[i]
<1> DEFINE n == Len(sent)
           z == m.bytes
           U == T \o z
           t == Append(sent, m)
           o == [i \in 0 .. n + 1 |-> IF i = n + 1 THEN Len(T) + Len(z) ELSE off[i]]
<1>1. /\ T \in Seq(Nat) /\ off \in [0 .. n -> Nat] /\ off[0] = 0 /\ off[n] = Len(T)
      /\ \A i \in 0 .. n : off[i] <= Len(T)
      /\ \A i \in 1 .. n : off[i - 1] <= off[i] /\ Slice(T, off[i - 1], off[i]) = sent[i].bytes
  BY DEF Stream
<1>2. n \in Nat /\ Len(T) \in Nat /\ Len(z) \in Nat
  BY <1>1, LenProperties
<1>3. U \in Seq(Nat) /\ Len(U) = Len(T) + Len(z)
  BY <1>1, ConcatProperties
<1>4. /\ \A a, b \in Nat : a <= b /\ b <= Len(T) => Slice(U, a, b) = Slice(T, a, b)
      /\ Slice(U, Len(T), Len(T) + Len(z)) = z
  <2>1. T \in Seq(Nat)
    BY <1>1
  <2> QED BY <2>1, SliceOfConcat
<1>5. Len(t) = n + 1 /\ t[n + 1] = m /\ \A i \in 1 .. n : t[i] = sent[i]
  BY AppendProperties
<1>6. o[n + 1] = Len(T) + Len(z) /\ \A i \in 0 .. n : o[i] = off[i]
  <2>1. n + 1 \in 0 .. n + 1 /\ \A i \in 0 .. n : i \in 0 .. n + 1 /\ i # n + 1
    BY <1>2
  <2> QED BY <2>1, Zenon
<1>7. o \in [0 .. n + 1 -> Nat]
  <2>1. ASSUME NEW i \in 0 .. n + 1 PROVE (IF i = n + 1 THEN Len(T) + Len(z) ELSE off[i]) \in Nat
    <3>1. i # n + 1 => i \in 0 .. n
      BY <1>2
    <3>2. i \in 0 .. n => off[i] \in Nat
      BY <1>1
    <3>3. Len(T) + Len(z) \in Nat
      BY <1>2
    <3> QED BY <3>1, <3>2, <3>3, Zenon
  <2> QED BY <2>1
<1> HIDE DEF U, o, t, z, n
<1>8. \A i \in 0 .. n + 1 : o[i] <= Len(U)
  <2> SUFFICES ASSUME NEW i \in 0 .. n + 1 PROVE o[i] <= Len(U)
    OBVIOUS
  <2>1. i = n + 1 \/ i \in 0 .. n
    BY <1>2
  <2>2. CASE i = n + 1
    BY <1>2, <1>3, <1>6, <2>2
  <2>3. CASE i \in 0 .. n
    <3>1. o[i] = off[i] /\ off[i] <= Len(T) /\ off[i] \in Nat
      BY <1>1, <1>6, <2>3
    <3> QED BY <1>2, <1>3, <3>1
  <2> QED BY <2>1, <2>2, <2>3
<1>9. \A i \in 1 .. n + 1 : o[i - 1] <= o[i] /\ Slice(U, o[i - 1], o[i]) = t[i].bytes
  <2> SUFFICES ASSUME NEW i \in 1 .. n + 1
               PROVE  o[i - 1] <= o[i] /\ Slice(U, o[i - 1], o[i]) = t[i].bytes
    OBVIOUS
  <2>1. i = n + 1 \/ i \in 1 .. n
    BY <1>2
  <2>2. CASE i = n + 1
    <3>1. i - 1 = n /\ n \in 0 .. n
      BY <1>2, <2>2
    <3>2. o[i - 1] = Len(T) /\ o[i] = Len(T) + Len(z) /\ t[i].bytes = z
      BY <1>1, <1>5, <1>6, <2>2, <3>1 DEF z
    <3> QED BY <1>2, <1>4, <3>2
  <2>3. CASE i \in 1 .. n
    <3>1. i \in 0 .. n /\ i - 1 \in 0 .. n
      BY <1>2, <2>3
    <3>2. o[i - 1] = off[i - 1] /\ o[i] = off[i] /\ off[i - 1] \in Nat /\ off[i] \in Nat
      BY <1>1, <1>6, <3>1
    <3>3. off[i - 1] <= off[i] /\ off[i] <= Len(T) /\ Slice(T, off[i - 1], off[i]) = sent[i].bytes
      BY <1>1, <2>3, <3>1
    <3>4. Slice(U, off[i - 1], off[i]) = Slice(T, off[i - 1], off[i])
      BY <1>4, <3>2, <3>3
    <3> QED BY <1>5, <2>3, <3>2, <3>3, <3>4
  <2> QED BY <2>1, <2>2, <2>3
<1>10. o[0] = 0
  BY <1>1, <1>2, <1>6
<1>11. Stream(U, o, t)
  BY <1>3, <1>5, <1>6, <1>7, <1>8, <1>9, <1>10 DEF Stream
<1>12. /\ Stream(U, o, Append(sent, m)) /\ Len(U) = Len(T) + Len(m.bytes)
       /\ \A a, b \in Nat : a <= b /\ b <= Len(T) => Slice(U, a, b) = Slice(T, a, b)
       /\ Slice(U, Len(T), Len(U)) = m.bytes
       /\ \A i \in 0 .. Len(sent) : o[i] = off[i]
  BY <1>3, <1>4, <1>6, <1>11 DEF t, z, n
<1> QED BY <1>12

\* The i-th message in the stream.
LEMMA StreamAt ==
  ASSUME NEW sent, Len(sent) \in Nat, NEW T, NEW off, Stream(T, off, sent),
         NEW i \in 1 .. Len(sent)
  PROVE  LET b == sent[i].bytes
         IN  /\ b \in Seq(Nat) /\ off[i - 1] \in Nat /\ off[i] \in Nat
             /\ off[i] = off[i - 1] + Len(b) /\ off[i] <= Len(T)
             /\ \A j \in 1 .. Len(b) : T[off[i - 1] + j] = b[j]
             /\ \A m, n \in Nat : m <= n /\ n <= Len(b) =>
                  Slice(T, off[i - 1] + m, off[i - 1] + n) = Slice(b, m, n)
<1> DEFINE b == sent[i].bytes
           x == off[i - 1]
           y == off[i]
<1>1. i - 1 \in 0 .. Len(sent) /\ i \in 0 .. Len(sent)
  OBVIOUS
<1>2. T \in Seq(Nat) /\ x \in Nat /\ y \in Nat /\ x <= y /\ y <= Len(T) /\ b = Slice(T, x, y)
  BY <1>1 DEF Stream
<1> HIDE DEF b, x, y
<1>3. T \in Seq(Nat)
  BY <1>2
<1>4. b \in Seq(Nat) /\ Len(b) = y - x /\ \A j \in 1 .. y - x : b[j] = T[x + j]
  <2>1. /\ Slice(T, x, y) \in Seq(Nat) /\ Len(Slice(T, x, y)) = y - x
        /\ \A j \in 1 .. y - x : Slice(T, x, y)[j] = T[x + j]
    BY <1>2, <1>3, SliceType, ZenonT(40)
  <2> QED BY <1>2, <2>1
<1>5. ASSUME NEW m \in Nat, NEW n \in Nat, m <= n, n <= Len(b)
      PROVE  Slice(T, x + m, x + n) = Slice(b, m, n)
  <2>1. n <= y - x
    BY <1>4, <1>5
  <2>2. Slice(Slice(T, x, y), m, n) = Slice(T, x + m, x + n)
    BY <1>2, <1>3, <1>5, <2>1, SliceOfSlice
  <2> QED BY <1>2, <2>2
<1>6. y = x + Len(b)
  BY <1>2, <1>4
<1> QED BY <1>2, <1>4, <1>5, <1>6 DEF b, x, y

----------------------------------------------------------------------------
(* Types                                                                    *)

Pcs == {"sniff", "line", "header", "payload", "done"}
Reasons == {"none", "deadline", "eof", "cancelled", "refused", "write"}

TypeInv ==
  /\ conn \in [proto : {"v1", "v2"}, port : {"v1", "v2"}, fallback : BOOLEAN]
  /\ conn.proto = "v2" => conn.port = "v2"
  /\ miner \in [sent : Seq(Messages(conn.proto)), wire : Seq(Nat), gone : BOOLEAN]
  /\ inbox \in [socket : Seq(Nat), prefix : Seq(Nat), buf : Seq(Nat), armed : BOOLEAN]
  /\ reader \in [pc : Pcs, type : Nat, need : Nat, why : Reasons]
  /\ lines \in Nat

\* A step of the reader or of its miner, and one that leaves the connection alone
\* but for its wallet.
ReaderTurn == (ReaderNext /\ UNCHANGED handlerVars) \/ FrameStep
Untouched == UNCHANGED <<conn, miner, inbox, reader, handled, out, lines, cut, handlerVars>>

\* There is no other step.
LEMMA Turns == [Next]_vars => ReaderTurn \/ Untouched
<1>1. ConnectionStep => ReaderTurn
  BY Zenon DEF ConnectionStep, ReaderTurn
<1>2. DispatchBegin => Untouched
  BY DEF DispatchBegin, readerVars, Untouched
<1>3. DispatchEnd => Untouched
  BY Zenon DEF DispatchEnd, Untouched
<1>4. UNCHANGED vars => Untouched
  BY DEF vars, readerVars, handlerVars, Untouched
<1> QED BY <1>1, <1>2, <1>3, <1>4 DEF Next

\* Messages are bytes.
LEMMA MessageBytes ==
  /\ \A m \in Messages("v1") : m.bytes \in Seq(Nat)
  /\ \A m \in Messages("v2") : m.bytes \in Seq(Byte) /\ m.bytes \in Seq(Nat)
<1>1. \A m \in Messages("v1") : m.bytes \in Seq(Nat)
  BY V1MessagesAssumption, Zenon DEF V1Message
<1>2. ASSUME NEW m \in Messages("v2") PROVE m.bytes \in Seq(Byte) /\ m.bytes \in Seq(Nat)
  <2>1. m.bytes \in Seq(Byte)
    BY V2MessagesAssumption, Zenon DEF V2Message, Byte
  <2>2. Byte \subseteq Nat
    BY BaseAssumption DEF Byte
  <2> QED BY <2>1, <2>2, SeqMonotonic
<1> QED BY <1>1, <1>2

\* The buffers hold bytes.
LEMMA FieldTypes ==
  TypeInv => /\ inbox.socket \in Seq(Nat) /\ inbox.prefix \in Seq(Nat) /\ inbox.buf \in Seq(Nat)
             /\ miner.wire \in Seq(Nat) /\ miner.sent \in Seq(Messages(conn.proto))
             /\ miner.gone \in BOOLEAN /\ conn.fallback \in BOOLEAN
             /\ Len(miner.sent) \in Nat /\ conn.proto \in {"v1", "v2"} /\ conn.port \in {"v1", "v2"}
             /\ reader.pc \in Pcs /\ reader.type \in Nat /\ reader.need \in Nat
             /\ Available \in Seq(Nat) /\ Len(Available) \in Nat
<1> SUFFICES ASSUME TypeInv
             PROVE  /\ inbox.socket \in Seq(Nat) /\ inbox.prefix \in Seq(Nat) /\ inbox.buf \in Seq(Nat)
                    /\ miner.wire \in Seq(Nat) /\ miner.sent \in Seq(Messages(conn.proto))
                    /\ miner.gone \in BOOLEAN /\ conn.fallback \in BOOLEAN
                    /\ Len(miner.sent) \in Nat /\ conn.proto \in {"v1", "v2"} /\ conn.port \in {"v1", "v2"}
                    /\ reader.pc \in Pcs /\ reader.type \in Nat /\ reader.need \in Nat
                    /\ Available \in Seq(Nat) /\ Len(Available) \in Nat
  OBVIOUS
<1>1. inbox.socket \in Seq(Nat) /\ inbox.prefix \in Seq(Nat) /\ inbox.buf \in Seq(Nat)
  BY DEF TypeInv
<1>2. miner.wire \in Seq(Nat) /\ miner.sent \in Seq(Messages(conn.proto)) /\ miner.gone \in BOOLEAN
  BY DEF TypeInv
<1>3. /\ conn.proto \in {"v1", "v2"} /\ conn.port \in {"v1", "v2"} /\ conn.fallback \in BOOLEAN
  BY DEF TypeInv
<1>4. reader.pc \in Pcs /\ reader.type \in Nat /\ reader.need \in Nat
  BY DEF TypeInv
<1>5. Available \in Seq(Nat)
  BY <1>1, ConcatProperties DEF Available
<1>6. Len(miner.sent) \in Nat /\ Len(Available) \in Nat
  BY <1>2, <1>5, LenProperties
<1> QED BY <1>1, <1>2, <1>3, <1>4, <1>5, <1>6

\* The first state has its types.
LEMMA TypeInvInit == Init => TypeInv
<1> SUFFICES ASSUME Init PROVE TypeInv
  OBVIOUS
<1>1. << >> \in Seq(Nat) /\ << >> \in Seq(Messages(conn.proto))
  OBVIOUS
<1>2. /\ conn \in [proto : {"v1", "v2"}, port : {"v1", "v2"}, fallback : BOOLEAN]
      /\ conn.proto = "v2" => conn.port = "v2"
  BY DEF Init, ReaderInit
<1>3. /\ miner = [sent |-> << >>, wire |-> << >>, gone |-> FALSE]
      /\ inbox = [socket |-> << >>, prefix |-> << >>, buf |-> << >>, armed |-> TRUE]
      /\ lines = 0
  BY DEF Init, ReaderInit
<1>4. reader \in [pc : Pcs, type : Nat, need : Nat, why : Reasons]
  <2>1. reader = [pc |-> IF conn.port = "v1" THEN "line" ELSE "sniff",
                  type |-> 0, need |-> 0, why |-> "none"]
    BY DEF Init, ReaderInit
  <2> QED BY <2>1 DEF Pcs, Reasons
<1> QED BY <1>1, <1>2, <1>3, <1>4 DEF TypeInv

\* The reader ends: the rest of its record stays.
LEMMA EndType ==
  ASSUME TypeInv, NEW why \in Reasons, End(why)
  PROVE  /\ reader' \in [pc : Pcs, type : Nat, need : Nat, why : Reasons]
         /\ reader'.pc = "done" /\ reader'.why = why
<1>1. reader' = [reader EXCEPT !.pc = "done", !.why = why]
  BY DEF End
<1>2. reader \in [pc : Pcs, type : Nat, need : Nat, why : Reasons]
  BY DEF TypeInv
<1>3. "done" \in Pcs
  BY DEF Pcs
<1> QED BY <1>1, <1>2, <1>3

\* Bytes taken from a connection leave bytes.
LEMMA ConsumeType ==
  ASSUME TypeInv, NEW n \in Nat, n <= Len(Available), Consume(n)
  PROVE  /\ inbox' \in [socket : Seq(Nat), prefix : Seq(Nat), buf : Seq(Nat), armed : BOOLEAN]
         /\ inbox'.buf = inbox.buf /\ inbox'.prefix = << >>
         /\ inbox'.socket = Slice(Available, n, Len(Available))
<1> DEFINE x == Slice(Available, n, Len(Available))
<1>1. Available \in Seq(Nat) /\ Len(Available) \in Nat /\ Len(Available) <= Len(Available)
  BY FieldTypes
<1>2. x \in Seq(Nat)
  BY <1>1, SliceType
<1>3. inbox' = [inbox EXCEPT !.prefix = << >>, !.socket = x]
  BY DEF Consume, Slice
<1>4. inbox \in [socket : Seq(Nat), prefix : Seq(Nat), buf : Seq(Nat), armed : BOOLEAN]
  BY DEF TypeInv
<1>5. << >> \in Seq(Nat)
  OBVIOUS
<1> HIDE DEF x
<1>6. /\ inbox' \in [socket : Seq(Nat), prefix : Seq(Nat), buf : Seq(Nat), armed : BOOLEAN]
      /\ inbox'.buf = inbox.buf /\ inbox'.prefix = << >> /\ inbox'.socket = x
  BY <1>2, <1>3, <1>4, <1>5
<1> QED BY <1>6 DEF x

\* The first newline of the buffer.
LEMMA FirstNewline ==
  ASSUME inbox.buf \in Seq(Nat)
  PROVE  /\ LineEnd \in Nat /\ LineEnd <= Len(inbox.buf)
         /\ LineEnd = 0 => \A j \in 1 .. Len(inbox.buf) : inbox.buf[j] # NL
         /\ LineEnd # 0 => inbox.buf[LineEnd] = NL
         /\ LineEnd # 0 => \A j \in 1 .. LineEnd - 1 : inbox.buf[j] # NL
<1> DEFINE s == inbox.buf
           I == {i \in 1 .. Len(s) : s[i] = NL}
           k == LineEnd
<1>0. Len(s) \in Nat
  BY LenProperties
<1>1. k = IF I # {} THEN Min(I) ELSE 0
  BY Zenon DEF LineEnd, SelectInSeq
<1> HIDE DEF k
<1>2. CASE I = {}
  <2>1. k = 0
    BY <1>1, <1>2
  <2>2. \A j \in 1 .. Len(s) : s[j] # NL
    BY <1>2
  <2> QED BY <1>0, <2>1, <2>2 DEF k
<1>3. CASE I # {}
  <2>1. I \subseteq Nat
    BY <1>0
  <2>2. PICK m \in I : \A n \in I : m <= n
    <3> DEFINE R == OpToRel(<, Nat)
    <3>1. IsWellFoundedOn(R, Nat)
      BY NatLessThanWellFounded, Zenon
    <3>2. \A x, y \in Nat : y < x => <<y, x>> \in R
      BY Zenon DEF OpToRel
    <3> HIDE DEF I, R
    <3>3. PICK m \in I : \A n \in I : ~(<<n, m>> \in R)
      BY <1>3, <2>1, <3>1, WFMin
    <3>4. \A n \in I : ~(n < m)
      BY <2>1, <3>2, <3>3
    <3>5. \A n \in I : m <= n
      BY <2>1, <3>4
    <3> QED BY <3>5
  <2>3. Min(I) \in I /\ \A n \in I : Min(I) <= n
    <3> HIDE DEF I
    <3> QED BY <2>2, Zenon DEF Min
  <2>4. k = Min(I)
    BY <1>1, <1>3
  <2>5. k \in I /\ \A n \in I : k <= n
    BY <2>3, <2>4
  <2>6. k \in Nat /\ k <= Len(s) /\ k # 0 /\ s[k] = NL
    BY <1>0, <2>5
  <2>7. \A j \in 1 .. k - 1 : s[j] # NL
    <3> SUFFICES ASSUME NEW j \in 1 .. k - 1, s[j] = NL PROVE FALSE
      OBVIOUS
    <3>1. j \in I /\ ~(k <= j)
      BY <1>0, <2>6
    <3> QED BY <2>5, <3>1
  <2> QED BY <2>6, <2>7 DEF k
<1> QED BY <1>2, <1>3

\* A line taken from the buffer leaves what is behind its newline.
LEMMA TakeLineType ==
  ASSUME TypeInv, TakeLine
  PROVE  /\ inbox' \in [socket : Seq(Nat), prefix : Seq(Nat), buf : Seq(Nat), armed : BOOLEAN]
         /\ inbox'.socket = inbox.socket /\ inbox'.prefix = inbox.prefix
         /\ inbox'.buf = Slice(inbox.buf, LineEnd, Len(inbox.buf))
         /\ LineEnd \in Nat /\ LineEnd # 0 /\ LineEnd <= Len(inbox.buf) /\ inbox.buf[LineEnd] = NL
         /\ \A j \in 1 .. LineEnd - 1 : inbox.buf[j] # NL
         /\ lines' = lines + 1 /\ reader.pc = "line"
<1> DEFINE s == inbox.buf
           k == LineEnd
           x == Slice(s, k, Len(s))
<1>1. s \in Seq(Nat) /\ Len(s) \in Nat /\ Len(s) <= Len(s)
  BY FieldTypes, LenProperties
<1>2. k > 0 /\ lines' = lines + 1 /\ reader.pc = "line"
      /\ inbox' = [inbox EXCEPT !.buf = SubSeq(@, k + 1, Len(@))]
  BY DEF TakeLine
<1>3. k \in Nat /\ k <= Len(s) /\ k # 0 /\ s[k] = NL /\ \A j \in 1 .. k - 1 : s[j] # NL
  <2>1. inbox.buf \in Seq(Nat)
    BY <1>1
  <2> QED BY <1>2, <2>1, FirstNewline
<1>4. inbox' = [inbox EXCEPT !.buf = x]
  BY <1>2 DEF Slice
<1> HIDE DEF k, s
<1>5. x \in Seq(Nat)
  BY <1>1, <1>3, SliceType
<1>6. inbox \in [socket : Seq(Nat), prefix : Seq(Nat), buf : Seq(Nat), armed : BOOLEAN]
  BY DEF TypeInv
<1> HIDE DEF x
<1>7. /\ inbox' \in [socket : Seq(Nat), prefix : Seq(Nat), buf : Seq(Nat), armed : BOOLEAN]
      /\ inbox'.socket = inbox.socket /\ inbox'.prefix = inbox.prefix /\ inbox'.buf = x
  BY <1>4, <1>5, <1>6
<1> QED BY <1>2, <1>3, <1>7 DEF k, s, x

----------------------------------------------------------------------------
(* What the actions do to the reader                                        *)

Answered == Continue \/ End("write") \/ End("refused")
FrameTaken(types, body) == TakeFrame(types) /\ Handle(body) /\ Answered

\* Every handler of a frame takes it, is called with its fields, and goes on or ends.
LEMMA FrameShape ==
  /\ SetupConnection => FrameTaken({sv2MsgSetupConnection}, parseSV2SetupConnectionPayload(Payload))
  /\ RefuseChannel => FrameTaken({sv2MsgOpenStandardMiningChannel}, OpenBody(Payload))
  /\ OpenChannel => FrameTaken({sv2MsgOpenStandardMiningChannel}, OpenBody(Payload))
  /\ SubmitShare => FrameTaken({sv2MsgSubmitSharesStandard}, parseSV2SubmitSharePayload(Payload))
  /\ IgnoreFrame => FrameTaken(0 .. Base - 1 \ {sv2MsgSetupConnection, sv2MsgOpenStandardMiningChannel,
                                               sv2MsgSubmitSharesStandard}, [ok |-> TRUE])
<1>0. /\ \A a, b, c : Write(a, b, c) => Answered
      /\ \A a, b, c : WriteAndEnd(a, b, c) => Answered
  BY Zenon DEF Write, WriteAndEnd, Answered
<1>1. SetupConnection => FrameTaken({sv2MsgSetupConnection}, parseSV2SetupConnectionPayload(Payload))
  BY <1>0, Zenon DEF SetupConnection, FrameTaken
<1>2. RefuseChannel => FrameTaken({sv2MsgOpenStandardMiningChannel}, OpenBody(Payload))
  BY <1>0, Zenon DEF RefuseChannel, FrameTaken, OpenBody, OpenRequest
<1>3. OpenChannel => FrameTaken({sv2MsgOpenStandardMiningChannel}, OpenBody(Payload))
  <2> DEFINE p == parseSV2OpenStandardChannelPayload(Payload)
  <2> SUFFICES ASSUME OpenChannel PROVE FrameTaken({sv2MsgOpenStandardMiningChannel}, OpenBody(Payload))
    OBVIOUS
  <2>1. TakeFrame({sv2MsgOpenStandardMiningChannel}) /\ Answered /\ Handle(p)
    BY <1>0, Zenon DEF OpenChannel
  <2>2. p.ok
    BY Zenon DEF OpenChannel, OpenRefusal
  <2>3. OpenBody(Payload) = p
    <3>1. p = [ok |-> TRUE, request |-> p.request, identity |-> p.identity]
      BY <2>2, Zenon DEF parseSV2OpenStandardChannelPayload
    <3>2. OpenBody(Payload) = [p EXCEPT !.request = p.request]
      BY <2>2, Zenon DEF OpenBody
    <3> HIDE DEF p
    <3> QED BY <3>1, <3>2
  <2> QED BY <2>1, <2>3 DEF FrameTaken
<1>4. SubmitShare => FrameTaken({sv2MsgSubmitSharesStandard}, parseSV2SubmitSharePayload(Payload))
  BY <1>0, Zenon DEF SubmitShare, FrameTaken
<1>5. IgnoreFrame => FrameTaken(0 .. Base - 1 \ {sv2MsgSetupConnection, sv2MsgOpenStandardMiningChannel,
                                               sv2MsgSubmitSharesStandard}, [ok |-> TRUE])
  BY Zenon DEF IgnoreFrame, FrameTaken, Answered
<1> QED BY <1>1, <1>2, <1>3, <1>4, <1>5

EventTaken == TakeEvent /\ (reader' = reader \/ End("write") \/ End("refused"))

\* What each step of the line reader does to the reader and the handlers.
LEMMA LineShape ==
  /\ StopOnCancel => TakeLine /\ End("cancelled") /\ handled' = handled
  /\ RefuseLine => TakeLine /\ End("refused") /\ handled' = handled
  /\ SkipBlank => TakeLine /\ Line = << >> /\ reader' = reader /\ handled' = handled
  /\ HandleSubscribe \/ HandleAuthorize \/ HandleSubmit \/ HandleUnknown => EventTaken
<1>1. StopOnCancel => TakeLine /\ End("cancelled") /\ handled' = handled
  BY Zenon DEF StopOnCancel
<1>2. RefuseLine => TakeLine /\ End("refused") /\ handled' = handled
  BY Zenon DEF RefuseLine
<1>3. SkipBlank => TakeLine /\ Line = << >> /\ reader' = reader /\ handled' = handled
  BY Zenon DEF SkipBlank
<1>4. HandleSubscribe => EventTaken
  BY Zenon DEF HandleSubscribe, EventTaken
<1>5. HandleAuthorize => EventTaken
  BY Zenon DEF HandleAuthorize, EventTaken
<1>6. HandleSubmit => EventTaken
  BY Zenon DEF HandleSubmit, EventTaken
<1>7. HandleUnknown => EventTaken
  BY Zenon DEF HandleUnknown, EventTaken
<1> QED BY <1>1, <1>2, <1>3, <1>4, <1>5, <1>6, <1>7

\* The header of a frame.
LEMMA HeaderType ==
  ASSUME NEW s \in Seq(Nat), Len(s) >= 6
  PROVE  /\ FrameType(s) = s[3] /\ FrameLength(s) = U24At(s, 4)
         /\ FrameType(s) \in Nat /\ FrameLength(s) \in Nat
<1>1. Base \in Nat
  BY BaseAssumption
<1>2. Len(s) \in Nat
  BY LenProperties
<1> DEFINE t == SubSeq(s, 4, 6)
<1>3. t[1] = s[4] /\ t[2] = s[5] /\ t[3] = s[6]
  BY <1>2
<1>4. s[3] \in Nat /\ s[4] \in Nat /\ s[5] \in Nat /\ s[6] \in Nat
  BY <1>2
<1> HIDE DEF t
<1>5. FrameLength(s) = t[1] + Base * (t[2] + Base * t[3])
  BY DEF FrameLength, Uint24, t
<1>6. U24At(s, 4) = s[4] + Base * (s[5] + Base * s[6])
  BY DEF U24At
<1>7. \A a, b \in Nat : a + Base * b \in Nat
  BY <1>1
<1>8. s[5] + Base * s[6] \in Nat
  BY <1>4, <1>7
<1>9. s[4] + Base * (s[5] + Base * s[6]) \in Nat
  BY <1>4, <1>7, <1>8
<1> QED BY <1>3, <1>4, <1>5, <1>6, <1>9 DEF FrameType

\* Every step keeps the types.
LEMMA TypeInvNext ==
  ASSUME TypeInv, [Next]_vars
  PROVE  TypeInv'
<1> DEFINE R == [pc : Pcs, type : Nat, need : Nat, why : Reasons]
           B == [socket : Seq(Nat), prefix : Seq(Nat), buf : Seq(Nat), armed : BOOLEAN]
           M == [sent : Seq(Messages(conn.proto)), wire : Seq(Nat), gone : BOOLEAN]
<1>1. reader \in R /\ inbox \in B /\ miner \in M /\ lines \in Nat
  BY DEF TypeInv
<1>2. conn' = conn
  <2>1. CASE ReaderNext
    BY <2>1, Zenon DEF ReaderNext, LineStep, SendMessage, Deliver, HangUp, Sniff, ReadTimeout, ReadEOF,
      FillBuffer, StopOnCancel, RefuseLine, SkipBlank, HandleSubscribe, HandleAuthorize, HandleSubmit,
      HandleUnknown, TakeEvent, TakeLine
  <2>2. CASE FrameStep
    BY <2>2, Zenon DEF FrameStep, ReadHeader, SetupConnection, RefuseChannel, OpenChannel, SubmitShare,
      IgnoreFrame, TakeFrame
  <2>3. CASE Untouched
    BY <2>3, Zenon DEF Untouched
  <2> QED BY <2>1, <2>2, <2>3, Turns DEF ReaderTurn
<1> SUFFICES reader' \in R /\ inbox' \in B /\ miner' \in M /\ lines' \in Nat
  BY <1>2 DEF TypeInv
<1>3. \A why \in Reasons : End(why) => reader' \in R
  BY EndType
<1>4. {"write", "refused", "eof", "deadline", "cancelled"} \subseteq Reasons
  BY DEF Reasons
<1>5. Continue => reader' \in R
  <2>1. "header" \in Pcs
    BY DEF Pcs
  <2> QED BY <1>1, <2>1 DEF Continue
<1>6. TakeLine => inbox' \in B /\ miner' = miner /\ lines' \in Nat
  <2>1. TakeLine => inbox' \in B
    BY TakeLineType
  <2>2. TakeLine => miner' = miner /\ lines' = lines + 1
    BY DEF TakeLine
  <2> QED BY <1>1, <2>1, <2>2
<1>7. ASSUME NEW types, NEW body, FrameTaken(types, body)
      PROVE  reader' \in R /\ inbox' \in B /\ miner' \in M /\ lines' \in Nat
  <2>1. TakeFrame(types) /\ (Continue \/ End("write") \/ End("refused"))
    BY <1>7 DEF FrameTaken, Answered
  <2>2. reader.need \in Nat /\ reader.need <= Len(Available) /\ Consume(reader.need)
        /\ lines' = lines /\ miner' = miner
    <3>1. reader.need \in Nat /\ Len(Available) \in Nat
      BY FieldTypes
    <3> QED BY <2>1, <3>1 DEF TakeFrame
  <2>3. inbox' \in B
    <3> DEFINE n == reader.need
    <3>1. n \in Nat /\ n <= Len(Available) /\ Consume(n)
      BY <2>2
    <3> HIDE DEF n
    <3> QED BY <3>1, ConsumeType
  <2> QED BY <1>1, <1>3, <1>4, <1>5, <2>1, <2>2, <2>3
<1>8. CASE SendMessage
  <2>1. PICK m \in Messages(conn.proto) : miner' = [miner EXCEPT !.sent = Append(@, m), !.wire = m.bytes]
    BY <1>8 DEF SendMessage
  <2>2. m.bytes \in Seq(Nat)
    BY FieldTypes, MessageBytes
  <2>3. Append(miner.sent, m) \in Seq(Messages(conn.proto))
    BY <1>1
  <2>4. miner' \in M
    BY <1>1, <2>1, <2>2, <2>3
  <2>5. reader' = reader /\ inbox' = inbox /\ lines' = lines
    BY <1>8 DEF SendMessage
  <2> QED BY <1>1, <2>4, <2>5
<1>9. CASE Deliver
  <2>1. PICK n \in 1 .. Len(miner.wire) :
          /\ miner' = [miner EXCEPT !.wire = SubSeq(@, n + 1, Len(@))]
          /\ inbox' = [inbox EXCEPT !.socket = @ \o SubSeq(miner.wire, 1, n)]
    BY <1>9 DEF Deliver
  <2>2. miner.wire \in Seq(Nat) /\ Len(miner.wire) \in Nat /\ inbox.socket \in Seq(Nat)
    BY FieldTypes, LenProperties
  <2> DEFINE x == SubSeq(miner.wire, n + 1, Len(miner.wire))
             y == SubSeq(miner.wire, 1, n)
             z == inbox.socket \o y
  <2>3. x \in Seq(Nat) /\ y \in Seq(Nat)
    BY <2>2
  <2>4. z \in Seq(Nat)
    BY <2>2, <2>3
  <2>5. miner' = [miner EXCEPT !.wire = x] /\ inbox' = [inbox EXCEPT !.socket = z]
    BY <2>1
  <2> HIDE DEF x, y, z
  <2>6. reader' = reader /\ lines' = lines
    BY <1>9 DEF Deliver
  <2> QED BY <1>1, <2>3, <2>4, <2>5, <2>6
<1>10. CASE HangUp
  <2>1. miner' = [miner EXCEPT !.gone = TRUE, !.wire = << >>]
    BY <1>10 DEF HangUp
  <2>2. << >> \in Seq(Nat)
    OBVIOUS
  <2>3. miner' \in M
    BY <1>1, <2>1, <2>2
  <2>4. reader' = reader /\ inbox' = inbox /\ lines' = lines
    BY <1>10 DEF HangUp
  <2> QED BY <1>1, <2>3, <2>4
<1>11. CASE Sniff
  <2>1. inbox.socket \in Seq(Nat) /\ inbox.socket # << >>
    BY <1>11, FieldTypes DEF Sniff
  <2> DEFINE b == Head(inbox.socket)
             y == Tail(inbox.socket)
             a == Armed(CanHandleFirstByte(b))
  <2>2. b \in Nat /\ y \in Seq(Nat)
    BY <2>1
  <2>3. a \in BOOLEAN
    BY DEF Armed
  <2>4. inbox' = [inbox EXCEPT !.socket = y, !.prefix = <<b>>, !.armed = a]
    BY <1>11, Zenon DEF Sniff
  <2>5. PICK p \in {"header", "line"} : reader' = [reader EXCEPT !.pc = p]
    BY <1>11 DEF Sniff
  <2> HIDE DEF b, y, a
  <2>6. <<b>> \in Seq(Nat) /\ p \in Pcs
    BY <2>2 DEF Pcs
  <2>7. inbox' \in B
    BY <1>1, <2>2, <2>3, <2>4, <2>6
  <2>8. reader' \in R
    BY <1>1, <2>5, <2>6
  <2>9. miner' = miner /\ lines' = lines
    BY <1>11 DEF Sniff
  <2> QED BY <1>1, <2>7, <2>8, <2>9
<1>12. CASE ReadTimeout
  <2>1. miner' = miner /\ lines' = lines /\ (reader' = reader \/ End("deadline"))
    BY <1>12, Zenon DEF ReadTimeout
  <2>2. inbox' = inbox \/ inbox' = [inbox EXCEPT !.buf = << >>]
    BY <1>12, Zenon DEF ReadTimeout
  <2>3. << >> \in Seq(Nat)
    OBVIOUS
  <2>4. inbox' \in B
    BY <1>1, <2>2, <2>3
  <2> QED BY <1>1, <1>3, <1>4, <2>1, <2>4
<1>13. CASE ReadEOF
  <2>1. End("eof") /\ miner' = miner /\ inbox' = inbox /\ lines' = lines
    BY <1>13 DEF ReadEOF
  <2> QED BY <1>1, <1>3, <1>4, <2>1
<1>14. CASE FillBuffer
  <2>1. reader' = reader /\ miner' = miner /\ lines' = lines
    BY <1>14 DEF FillBuffer
  <2>2. \/ inbox' = [inbox EXCEPT !.buf = @ \o inbox.prefix, !.prefix = << >>]
        \/ inbox' = [inbox EXCEPT !.buf = @ \o inbox.socket, !.socket = << >>]
    BY <1>14, Zenon DEF FillBuffer
  <2>3. /\ inbox.buf \o inbox.prefix \in Seq(Nat) /\ inbox.buf \o inbox.socket \in Seq(Nat)
        /\ << >> \in Seq(Nat)
    BY FieldTypes
  <2>4. inbox' \in B
    BY <1>1, <2>2, <2>3
  <2> QED BY <1>1, <2>1, <2>4
<1>15. CASE StopOnCancel \/ RefuseLine
  <2>1. TakeLine /\ (End("cancelled") \/ End("refused"))
    BY <1>15, LineShape
  <2> QED BY <1>1, <1>3, <1>4, <1>6, <2>1
<1>16. CASE SkipBlank
  <2>1. TakeLine /\ reader' = reader
    BY <1>16, LineShape
  <2> QED BY <1>1, <1>6, <2>1
<1>17. CASE HandleSubscribe \/ HandleAuthorize \/ HandleSubmit \/ HandleUnknown
  <2>1. TakeLine /\ (reader' = reader \/ End("write") \/ End("refused"))
    BY <1>17, LineShape DEF EventTaken, TakeEvent
  <2> QED BY <1>1, <1>3, <1>4, <1>6, <2>1
<1>18. CASE ReadHeader
  <2>1. Len(Available) >= 6 /\ Consume(6) /\ miner' = miner /\ lines' = lines
    BY <1>18 DEF ReadHeader
  <2>2. Available \in Seq(Nat) /\ Len(Available) \in Nat
    BY FieldTypes
  <2> DEFINE n == 6
             t == FrameType(Available)
             l == FrameLength(Available)
  <2>3. t \in Nat /\ l \in Nat
    BY <2>1, <2>2, HeaderType
  <2>4. inbox' \in B
    <3>1. n \in Nat /\ n <= Len(Available) /\ Consume(n)
      BY <2>1, <2>2
    <3> HIDE DEF n
    <3> QED BY <3>1, ConsumeType
  <2>5. \/ End("refused")
        \/ reader' = [reader EXCEPT !.pc = "payload", !.type = t, !.need = l]
    BY <1>18, Zenon DEF ReadHeader
  <2> HIDE DEF t, l
  <2>6. "payload" \in Pcs
    BY DEF Pcs
  <2>7. reader' \in R
    BY <1>1, <1>3, <1>4, <2>3, <2>5, <2>6
  <2> QED BY <1>1, <2>1, <2>4, <2>7
<1>19. CASE SetupConnection \/ RefuseChannel \/ OpenChannel \/ SubmitShare \/ IgnoreFrame
  BY <1>7, <1>19, FrameShape, Zenon
<1>20. CASE Untouched
  BY <1>1, <1>20 DEF Untouched
<1> QED BY <1>8, <1>9, <1>10, <1>11, <1>12, <1>13, <1>14, <1>15, <1>16, <1>17, <1>18, <1>19, <1>20, Turns
     DEF ReaderTurn, ReaderNext, LineStep, FrameStep

----------------------------------------------------------------------------
(* Where the reader is in the stream                                        *)

\* The miner speaks a protocol that the port takes.
Understood == conn.proto = "v2" \/ conn.port = "v1" \/ conn.fallback

\* The bytes of the stream up to pos are consumed, those up to e have arrived.
Flow(T, pos, e) ==
  /\ pos \in Nat /\ e \in Nat /\ pos <= e /\ e <= Len(T)
  /\ inbox.buf \o Available = Slice(T, pos, e)
  /\ ~miner.gone => miner.wire = Slice(T, e, Len(T))
  /\ miner.gone => miner.wire = << >>

\* The reader is in front of a message, behind the header of a frame, or in a
\* line of which a deadline took the start.
Place(h, off, pos) ==
  /\ reader.pc # "line" => inbox.buf = << >> /\ cut = {}
  /\ reader.pc = "sniff" => /\ h = 0 /\ pos = 0 /\ lines = 0 /\ handled = << >>
                            /\ inbox.prefix = << >> /\ conn.port = "v2"
  /\ reader.pc = "header" => conn.proto = "v2" /\ pos = off[h]
  /\ reader.pc = "payload" =>
       /\ conn.proto = "v2" /\ h < Len(miner.sent) /\ pos = off[h] + 6
       /\ reader.type = miner.sent[h + 1].bytes[3]
       /\ reader.need = U24At(miner.sent[h + 1].bytes, 4) /\ reader.need <= MaxFramePayload
  /\ reader.pc = "line" =>
       /\ conn.proto = "v1" /\ lines = h /\ cut \subseteq 1 .. h + 1
       /\ h + 1 \notin cut => pos = off[h]
       /\ h + 1 \in cut => h < Len(miner.sent) /\ off[h] < pos /\ pos < off[h + 1]

Reading(h, T, off, pos, e) ==
  /\ h \in 0 .. Len(miner.sent)
  /\ Stream(T, off, miner.sent)
  /\ Flow(T, pos, e)
  /\ Place(h, off, pos)

Calls(h) == HandledOf(Messages(conn.proto), h, miner.sent, cut, handled)

\* The handlers were called for the first h messages and, until it ends, the
\* reader is in the stream behind these.
FrameInv ==
  Understood => \E h : /\ Calls(h)
                       /\ reader.pc # "done" => \E T, off, pos, e : Reading(h, T, off, pos, e)

\* Nothing in front changes nothing.
LEMMA EmptyLeft ==
  ASSUME NEW s \in Seq(Nat)
  PROVE  << >> \o s = s
  BY ConcatEmptySeq

\* Concatenation associates.
LEMMA Concat3 ==
  ASSUME NEW s \in Seq(Nat), NEW t \in Seq(Nat), NEW u \in Seq(Nat)
  PROVE  (s \o t) \o u = s \o (t \o u)
  BY ConcatAssociative, SMTT(30)

\* A new connection is in front of its first message.
LEMMA FrameInvInit == Init => FrameInv
<1> SUFFICES ASSUME Init PROVE FrameInv
  OBVIOUS
<1> DEFINE off == [i \in 0 .. 0 |-> 0]
           z == 0
<1>1. ReaderInit
  BY DEF Init
<1>2. /\ miner.sent = << >> /\ miner.wire = << >> /\ ~miner.gone /\ inbox.buf = << >>
      /\ inbox.prefix = << >> /\ inbox.socket = << >> /\ handled = << >> /\ lines = 0 /\ cut = {}
      /\ reader.pc = IF conn.port = "v1" THEN "line" ELSE "sniff"
      /\ conn.proto = "v2" => conn.port = "v2"
      /\ conn.proto \in {"v1", "v2"} /\ conn.port \in {"v1", "v2"}
  BY <1>1 DEF ReaderInit
<1>3. Len(miner.sent) = 0
  BY <1>2
<1>4. << >> \in Seq(Nat) /\ Len(<< >>) = 0
  OBVIOUS
<1>5. Stream(<< >>, off, miner.sent)
  <2>1. off \in [0 .. Len(miner.sent) -> Nat] /\ off[0] = 0
    BY <1>3
  <2> HIDE DEF off
  <2> QED BY <1>3, <1>4, <2>1 DEF Stream
<1>6. z \in Nat /\ z <= Len(<< >>)
  BY <1>4
<1>7. Slice(<< >>, z, z) = << >>
  <2> HIDE DEF z
  <2> QED BY <1>4, <1>6, SliceEmpty
<1>8. inbox.buf \o Available = << >>
  BY <1>2 DEF Available
<1>9. Flow(<< >>, 0, 0)
  BY <1>2, <1>4, <1>7, <1>8 DEF Flow
<1>10. off[0] = 0
  OBVIOUS
<1> HIDE DEF off
<1>11. Place(0, off, 0)
  BY <1>2, <1>10 DEF Place
<1>12. Reading(0, << >>, off, 0, 0)
  BY <1>3, <1>5, <1>9, <1>11 DEF Reading
<1>13. Calls(0)
  <2> DEFINE K == Pick(Numbers(0), KeptOf(miner.sent, cut))
  <2>1. Len(K) = 0
    <3>1. \A h \in Nat : Pick(Numbers(h), KeptOf(miner.sent, cut)) \in Seq(1 .. h)
      BY KeptType
    <3>2. K \in Seq(1 .. 0)
      BY <3>1
    <3> HIDE DEF K
    <3> QED BY <3>2
  <2> HIDE DEF K
  <2>2. /\ 0 \in Nat /\ miner.sent \in Seq(Messages(conn.proto)) /\ 0 <= Len(miner.sent)
        /\ handled \in Seq({m.means : m \in Messages(conn.proto)}) /\ Len(handled) = 0
    BY <1>2
  <2> QED BY <2>1, <2>2 DEF Calls, HandledOf, K
<1> QED BY <1>12, <1>13 DEF FrameInv

\* The facts of Reading, each by itself.
LEMMA ReadingFacts ==
  ASSUME TypeInv, NEW h, NEW T, NEW off, NEW pos, NEW e, Reading(h, T, off, pos, e)
  PROVE  /\ h \in Nat /\ h <= Len(miner.sent) /\ Stream(T, off, miner.sent)
         /\ T \in Seq(Nat) /\ Len(T) \in Nat /\ off[h] \in Nat /\ off[h] <= Len(T)
         /\ off[Len(miner.sent)] = Len(T) /\ off[0] = 0
         /\ pos \in Nat /\ e \in Nat /\ pos <= e /\ e <= Len(T)
         /\ inbox.buf \o Available = Slice(T, pos, e)
         /\ ~miner.gone => miner.wire = Slice(T, e, Len(T))
         /\ miner.gone => miner.wire = << >>
         /\ Place(h, off, pos)
<1>1. Len(miner.sent) \in Nat
  BY FieldTypes
<1>2. h \in 0 .. Len(miner.sent) /\ Stream(T, off, miner.sent) /\ Flow(T, pos, e) /\ Place(h, off, pos)
  BY DEF Reading
<1>3. T \in Seq(Nat) /\ Len(T) \in Nat /\ off[h] \in Nat /\ off[h] <= Len(T)
      /\ off[Len(miner.sent)] = Len(T) /\ off[0] = 0
  BY <1>2, LenProperties DEF Stream
<1>4. h \in Nat /\ h <= Len(miner.sent)
  BY <1>1, <1>2
<1> QED BY <1>2, <1>3, <1>4 DEF Flow

\* The rest of a sequence and its pieces.
LEMMA SliceRest ==
  ASSUME NEW S, NEW s \in Seq(S), NEW a \in Nat, a <= Len(s)
  PROVE  LET w == Slice(s, a, Len(s))
         IN  /\ w \in Seq(S) /\ Len(w) = Len(s) - a
             /\ \A k \in Nat : k <= Len(w) =>
                  /\ Slice(w, 0, k) = Slice(s, a, a + k)
                  /\ Slice(w, k, Len(w)) = Slice(s, a + k, Len(s))
<1> DEFINE w == Slice(s, a, Len(s))
           n == Len(s)
           q == n - a
<1>1. n \in Nat /\ a <= n /\ n <= Len(s)
  BY LenProperties
<1>2. q \in Nat /\ a + q = n
  BY <1>1
<1>3. w = Slice(s, a, n)
  OBVIOUS
<1> HIDE DEF w, n
<1>4. w \in Seq(S) /\ Len(w) = q
  BY <1>1, <1>3, SliceType
<1>5. ASSUME NEW k \in Nat, k <= q
      PROVE  Slice(w, 0, k) = Slice(s, a, a + k) /\ Slice(w, k, q) = Slice(s, a + k, n)
  <2>1. k <= n - a
    BY <1>5
  <2>2. Slice(w, 0, k) = Slice(s, a, a + k)
    BY <1>1, <1>3, <2>1, SliceHead
  <2> HIDE DEF q
  <2>3. q <= n - a
    BY <1>2 DEF q
  <2>4. Slice(Slice(s, a, n), k, q) = Slice(s, a + k, a + q)
    BY <1>1, <1>2, <1>5, <2>3, SliceOfSlice
  <2> QED BY <1>2, <1>3, <2>2, <2>4
<1> HIDE DEF q
<1>6. w \in Seq(S) /\ Len(w) = Len(s) - a
  BY <1>4 DEF q, n
<1>7. \A k \in Nat : k <= Len(w) => /\ Slice(w, 0, k) = Slice(s, a, a + k)
                                    /\ Slice(w, k, Len(w)) = Slice(s, a + k, Len(s))
  BY <1>4, <1>5 DEF n
<1> QED BY <1>6, <1>7 DEF w

\* The reader stays in its place when the miner sends,
LEMMA SendReads ==
  ASSUME TypeInv, NEW h, NEW T, NEW off, NEW pos, NEW e, Reading(h, T, off, pos, e), Calls(h),
         SendMessage
  PROVE  Calls(h)' /\ \E U, o : Reading(h, U, o, pos, e)'
<1> DEFINE M == Messages(conn.proto)
           n == Len(miner.sent)
<1>1. PICK m \in M : miner' = [miner EXCEPT !.sent = Append(@, m), !.wire = m.bytes]
  BY DEF SendMessage
<1>2. /\ conn' = conn /\ inbox' = inbox /\ reader' = reader /\ handled' = handled /\ lines' = lines
      /\ cut' = cut /\ ~miner.gone /\ miner.wire = << >>
  BY DEF SendMessage
<1>3. miner \in [sent : Seq(M), wire : Seq(Nat), gone : BOOLEAN] /\ n \in Nat /\ miner.sent \in Seq(M)
  BY FieldTypes DEF TypeInv
<1>4. m.bytes \in Seq(Nat)
  BY FieldTypes, MessageBytes
<1>5. miner'.sent = Append(miner.sent, m) /\ miner'.wire = m.bytes /\ ~miner'.gone
  BY <1>1, <1>2, <1>3
<1>6. PICK U, o : /\ Stream(U, o, Append(miner.sent, m)) /\ Len(U) = Len(T) + Len(m.bytes)
                  /\ \A a, b \in Nat : a <= b /\ b <= Len(T) => Slice(U, a, b) = Slice(T, a, b)
                  /\ Slice(U, Len(T), Len(U)) = m.bytes
                  /\ \A i \in 0 .. n : o[i] = off[i]
  <2>1. Stream(T, off, miner.sent)
    BY ReadingFacts
  <2>2. miner.sent \in Seq(M)
    BY <1>3
  <2> HIDE DEF M
  <2> QED BY <1>4, <2>1, <2>2, StreamAppend
<1>7. /\ h \in Nat /\ h <= n /\ Len(T) \in Nat /\ T \in Seq(Nat)
      /\ pos \in Nat /\ e \in Nat /\ pos <= e /\ e <= Len(T)
      /\ inbox.buf \o Available = Slice(T, pos, e)
      /\ miner.wire = Slice(T, e, Len(T)) /\ Place(h, off, pos)
  BY <1>2, ReadingFacts
<1>8. e = Len(T)
  <2>1. T \in Seq(Nat) /\ e \in Nat /\ e <= Len(T)
    BY <1>7
  <2>2. Len(Slice(T, e, Len(T))) = Len(T) - e
    BY <2>1, SliceRest
  <2> QED BY <1>2, <1>7, <2>2
<1>9. Len(Append(miner.sent, m)) = n + 1 /\ \A i \in 1 .. n : Append(miner.sent, m)[i] = miner.sent[i]
  BY <1>3
<1>10. Len(m.bytes) \in Nat
  BY <1>4, LenProperties
<1>11. Flow(U, pos, e)'
  <2>1. e <= Len(U)
    BY <1>6, <1>7, <1>10
  <2>2. Slice(U, pos, e) = Slice(T, pos, e) /\ Slice(U, e, Len(U)) = m.bytes
    BY <1>6, <1>7, <1>8
  <2>3. (inbox.buf \o Available)' = inbox.buf \o Available
    BY <1>2 DEF Available
  <2> QED BY <1>5, <1>7, <2>1, <2>2, <2>3 DEF Flow
<1>12. Place(h, o, pos)'
  <2>1. o[h] = off[h]
    BY <1>3, <1>6, <1>7
  <2>2. h < n => o[h + 1] = off[h + 1] /\ miner'.sent[h + 1] = miner.sent[h + 1]
    BY <1>3, <1>5, <1>6, <1>7, <1>9
  <2>3. n < Len(miner'.sent) /\ Len(miner'.sent) \in Nat
    BY <1>3, <1>5, <1>9
  <2>4. h < n => h < Len(miner'.sent)
    BY <1>3, <1>7, <2>3
  <2> QED BY <1>2, <1>7, <2>1, <2>2, <2>4 DEF Place
<1>13. Reading(h, U, o, pos, e)'
  <2>1. h \in 0 .. Len(miner'.sent)
    BY <1>3, <1>5, <1>7, <1>9
  <2>2. Stream(U, o, miner'.sent)
    BY <1>5, <1>6
  <2> QED BY <1>11, <1>12, <2>1, <2>2 DEF Reading
<1>14. Calls(h)'
  <2> DEFINE t == Append(miner.sent, m)
  <2>1. HandledOf(M, h, miner.sent, cut, handled)
    BY DEF Calls
  <2>2. t \in Seq(M) /\ Len(miner.sent) <= Len(t)
    BY <1>3, <1>9
  <2>3. \A i \in 1 .. h : t[i] = miner.sent[i] /\ (i \in cut <=> i \in cut)
    BY <1>3, <1>7, <1>9
  <2> HIDE DEF t
  <2>4. HandledOf(M, h, t, cut, handled)
    BY <2>1, <2>2, <2>3, HandledMove
  <2> QED BY <1>2, <1>5, <2>4 DEF t, Calls
<1> QED BY <1>13, <1>14

\* when bytes arrive,
LEMMA DeliverReads ==
  ASSUME TypeInv, NEW h, NEW T, NEW off, NEW pos, NEW e, Reading(h, T, off, pos, e), Calls(h),
         Deliver
  PROVE  Calls(h)' /\ \E z : Reading(h, T, off, pos, z)'
<1>1. PICK k \in 1 .. Len(miner.wire) :
        /\ miner' = [miner EXCEPT !.wire = SubSeq(@, k + 1, Len(@))]
        /\ inbox' = [inbox EXCEPT !.socket = @ \o SubSeq(miner.wire, 1, k)]
  BY DEF Deliver
<1>2. /\ conn' = conn /\ reader' = reader /\ handled' = handled /\ lines' = lines /\ cut' = cut
  BY DEF Deliver
<1>3. /\ inbox.socket \in Seq(Nat) /\ inbox.prefix \in Seq(Nat) /\ inbox.buf \in Seq(Nat)
      /\ miner.wire \in Seq(Nat) /\ Len(miner.wire) \in Nat
      /\ Available \in Seq(Nat)
  BY FieldTypes, LenProperties
<1> DEFINE w == miner.wire
           y == Slice(w, 0, k)
<1>4. /\ miner'.sent = miner.sent /\ miner'.gone = miner.gone
      /\ miner'.wire = Slice(w, k, Len(w))
  <2>1. miner \in [sent : Seq(Messages(conn.proto)), wire : Seq(Nat), gone : BOOLEAN]
    BY DEF TypeInv
  <2> QED BY <1>1, <2>1 DEF Slice
<1>5. /\ inbox'.prefix = inbox.prefix /\ inbox'.buf = inbox.buf
      /\ inbox'.socket = inbox.socket \o y
  <2>1. inbox \in [socket : Seq(Nat), prefix : Seq(Nat), buf : Seq(Nat), armed : BOOLEAN]
    BY DEF TypeInv
  <2>2. y = SubSeq(w, 1, k)
    BY DEF Slice
  <2>3. inbox' = [inbox EXCEPT !.socket = @ \o y]
    BY <1>1, <2>2
  <2> HIDE DEF y
  <2> QED BY <2>1, <2>3
<1>6. /\ T \in Seq(Nat) /\ Len(T) \in Nat
      /\ pos \in Nat /\ e \in Nat /\ pos <= e /\ e <= Len(T)
      /\ inbox.buf \o Available = Slice(T, pos, e)
      /\ ~miner.gone => miner.wire = Slice(T, e, Len(T))
      /\ miner.gone => miner.wire = << >>
      /\ Place(h, off, pos) /\ h \in Nat /\ h <= Len(miner.sent) /\ Stream(T, off, miner.sent)
  BY ReadingFacts
<1>7. ~miner.gone /\ w = Slice(T, e, Len(T))
  <2>1. miner.gone \in BOOLEAN
    BY FieldTypes
  <2>2. w # << >>
    BY <1>1, <1>3
  <2> QED BY <1>6, <2>1, <2>2
<1>8. T \in Seq(Nat) /\ e \in Nat /\ e <= Len(T)
  BY <1>6
<1>9. Len(w) = Len(T) - e
  BY <1>7, <1>8, SliceRest
<1>10. k \in Nat /\ k <= Len(T) - e /\ k <= Len(w)
  BY <1>1, <1>3, <1>9
<1>11. \A i \in Nat : i <= Len(w) => /\ Slice(w, 0, i) = Slice(T, e, e + i)
                                     /\ Slice(w, i, Len(w)) = Slice(T, e + i, Len(T))
  BY <1>7, <1>8, SliceRest
<1>12. y = Slice(T, e, e + k) /\ Slice(w, k, Len(w)) = Slice(T, e + k, Len(T))
  BY <1>10, <1>11
<1>13. y \in Seq(Nat)
  <2> DEFINE f == e + k
  <2>1. f \in Nat /\ e <= f /\ f <= Len(T)
    BY <1>6, <1>10
  <2> HIDE DEF f
  <2>2. Slice(T, e, f) \in Seq(Nat)
    BY <1>6, <2>1, SliceType
  <2> QED BY <1>12, <2>2 DEF f
<1>14. Available' = Available \o y
  <2>1. Available' = inbox.prefix \o (inbox.socket \o y)
    BY <1>5 DEF Available
  <2> HIDE DEF y
  <2>2. (inbox.prefix \o inbox.socket) \o y = inbox.prefix \o (inbox.socket \o y)
    BY <1>3, <1>13, Concat3, ZenonT(40)
  <2> QED BY <2>1, <2>2 DEF Available
<1>15. inbox'.buf \o Available' = Slice(T, pos, e + k)
  <2> DEFINE f == e + k
             A == Available
  <2>1. f \in Nat /\ e <= f /\ f <= Len(T)
    BY <1>6, <1>10
  <2>2. y = Slice(T, e, f)
    BY <1>12
  <2> HIDE DEF f, y, A
  <2>3. Slice(T, pos, e) \o Slice(T, e, f) = Slice(T, pos, f)
    BY <1>6, <2>1, SliceJoin, ZenonT(40)
  <2>4. (inbox.buf \o A) \o y = inbox.buf \o (A \o y)
    BY <1>3, <1>13, Concat3, ZenonT(40) DEF A
  <2> QED BY <1>5, <1>6, <1>14, <2>2, <2>3, <2>4 DEF f, A
<1>16. Flow(T, pos, e + k)'
  <2>1. e + k \in Nat /\ pos <= e + k /\ e + k <= Len(T)
    BY <1>6, <1>10
  <2> QED BY <1>4, <1>6, <1>7, <1>12, <1>15, <2>1 DEF Flow
<1>17. Place(h, off, pos)'
  BY <1>2, <1>4, <1>5, <1>6 DEF Place
<1>18. Reading(h, T, off, pos, e + k)'
  <2>1. h \in 0 .. Len(miner'.sent)
    BY <1>4 DEF Reading
  <2> QED BY <1>4, <1>6, <1>16, <1>17, <2>1 DEF Reading
<1>19. Calls(h)'
  BY <1>2, <1>4 DEF Calls
<1> QED BY <1>18, <1>19

\* and when the miner closes.
LEMMA HangUpReads ==
  ASSUME TypeInv, NEW h, NEW T, NEW off, NEW pos, NEW e, Reading(h, T, off, pos, e), Calls(h),
         HangUp
  PROVE  Calls(h)' /\ Reading(h, T, off, pos, e)'
<1>1. /\ conn' = conn /\ inbox' = inbox /\ reader' = reader /\ handled' = handled /\ lines' = lines
      /\ cut' = cut /\ miner' = [miner EXCEPT !.gone = TRUE, !.wire = << >>]
  BY DEF HangUp
<1>2. miner'.sent = miner.sent /\ miner'.gone /\ miner'.wire = << >>
  <2>1. miner \in [sent : Seq(Messages(conn.proto)), wire : Seq(Nat), gone : BOOLEAN]
    BY DEF TypeInv
  <2> QED BY <1>1, <2>1
<1>3. Flow(T, pos, e)'
  <2>1. Flow(T, pos, e)
    BY DEF Reading
  <2> QED BY <1>1, <1>2, <2>1 DEF Flow, Available
<1>4. Place(h, off, pos)'
  <2>1. Place(h, off, pos)
    BY DEF Reading
  <2> QED BY <1>1, <1>2, <2>1 DEF Place
<1>5. Calls(h)'
  BY <1>1, <1>2 DEF Calls
<1> QED BY <1>2, <1>3, <1>4, <1>5 DEF Reading

\* The message the reader is in front of or in.
LEMMA NextMessage ==
  ASSUME TypeInv, NEW h, NEW T, NEW off, NEW pos, NEW e, Reading(h, T, off, pos, e), h < Len(miner.sent)
  PROVE  LET m == miner.sent[h + 1]
         IN  /\ m \in Messages(conn.proto) /\ m.bytes \in Seq(Nat) /\ Len(m.bytes) \in Nat
             /\ off[h + 1] = off[h] + Len(m.bytes) /\ off[h + 1] <= Len(T)
             /\ \A j \in 1 .. Len(m.bytes) : T[off[h] + j] = m.bytes[j]
             /\ \A i, j \in Nat : i <= j /\ j <= Len(m.bytes) =>
                  Slice(T, off[h] + i, off[h] + j) = Slice(m.bytes, i, j)
<1> DEFINE n == Len(miner.sent)
<1>1. h \in Nat /\ n \in Nat /\ h + 1 \in 1 .. n /\ (h + 1) - 1 = h /\ Stream(T, off, miner.sent)
  BY FieldTypes, ReadingFacts, SMTT(30)
<1>2. miner.sent \in Seq(Messages(conn.proto))
  BY FieldTypes
<1>3. \A i \in 1 .. n : LET b == miner.sent[i].bytes
         IN  /\ b \in Seq(Nat) /\ off[i - 1] \in Nat /\ off[i] \in Nat
             /\ off[i] = off[i - 1] + Len(b) /\ off[i] <= Len(T)
             /\ \A j \in 1 .. Len(b) : T[off[i - 1] + j] = b[j]
             /\ \A k, j \in Nat : k <= j /\ j <= Len(b) =>
                  Slice(T, off[i - 1] + k, off[i - 1] + j) = Slice(b, k, j)
  <2>1. Len(miner.sent) \in Nat /\ Stream(T, off, miner.sent)
    BY <1>1
  <2> SUFFICES ASSUME NEW i \in 1 .. Len(miner.sent)
               PROVE  LET b == miner.sent[i].bytes
                      IN  /\ b \in Seq(Nat) /\ off[i - 1] \in Nat /\ off[i] \in Nat
                          /\ off[i] = off[i - 1] + Len(b) /\ off[i] <= Len(T)
                          /\ \A j \in 1 .. Len(b) : T[off[i - 1] + j] = b[j]
                          /\ \A k, j \in Nat : k <= j /\ j <= Len(b) =>
                               Slice(T, off[i - 1] + k, off[i - 1] + j) = Slice(b, k, j)
    OBVIOUS
  <2> QED BY <2>1, StreamAt, SMTT(30)
<1> DEFINE i == h + 1
           m == miner.sent[i]
           b == m.bytes
<1>4. i \in 1 .. n /\ i - 1 = h
  BY <1>1
<1>5. m \in Messages(conn.proto)
  BY <1>2, <1>4
<1> HIDE DEF i, n
<1>6. /\ b \in Seq(Nat) /\ off[i] = off[i - 1] + Len(b) /\ off[i] <= Len(T)
      /\ \A j \in 1 .. Len(b) : T[off[i - 1] + j] = b[j]
      /\ \A k, j \in Nat : k <= j /\ j <= Len(b) =>
           Slice(T, off[i - 1] + k, off[i - 1] + j) = Slice(b, k, j)
  BY <1>3, <1>4
<1>7. Len(b) \in Nat
  BY <1>6, LenProperties
<1> QED BY <1>4, <1>5, <1>6, <1>7 DEF i

\* The first byte chooses the reader that the miner expects.
LEMMA SniffReads ==
  ASSUME TypeInv, NEW h, NEW T, NEW off, NEW pos, NEW e, Reading(h, T, off, pos, e), Calls(h),
         Understood, Sniff
  PROVE  Calls(h)' /\ Reading(h, T, off, pos, e)'
<1> DEFINE s == inbox.socket
           b == Head(s)
<1>1. /\ conn' = conn /\ miner' = miner /\ handled' = handled /\ lines' = lines /\ cut' = cut
      /\ reader.pc = "sniff" /\ s # << >>
  BY DEF Sniff
<1>2. s \in Seq(Nat) /\ conn.fallback \in BOOLEAN /\ conn.port \in {"v1", "v2"} /\ conn.proto \in {"v1", "v2"}
      /\ inbox.prefix \in Seq(Nat) /\ inbox.buf \in Seq(Nat) /\ Len(miner.sent) \in Nat
  BY FieldTypes
<1>3. /\ T \in Seq(Nat) /\ Len(T) \in Nat /\ off[Len(miner.sent)] = Len(T) /\ off[0] = 0
      /\ pos \in Nat /\ e \in Nat /\ pos <= e /\ e <= Len(T)
      /\ inbox.buf \o Available = Slice(T, pos, e) /\ Place(h, off, pos)
      /\ h \in Nat /\ h <= Len(miner.sent)
  BY ReadingFacts
<1>4. /\ inbox.buf = << >> /\ cut = {} /\ h = 0 /\ pos = 0 /\ lines = 0 /\ inbox.prefix = << >>
      /\ conn.port = "v2"
  BY <1>1, <1>3 DEF Place
<1>5. inbox.buf \o Available = s /\ Available = s
  BY <1>2, <1>4, EmptyLeft DEF Available
<1>6. s = Slice(T, pos, e)
  BY <1>3, <1>5
<1>7. Len(s) = e - pos /\ \A j \in 1 .. e - pos : s[j] = T[pos + j]
  <2>1. T \in Seq(Nat) /\ pos \in Nat /\ e \in Nat /\ pos <= e /\ e <= Len(T)
    BY <1>3
  <2>2. /\ Len(Slice(T, pos, e)) = e - pos
        /\ \A j \in 1 .. e - pos : Slice(T, pos, e)[j] = T[pos + j]
    BY <2>1, SliceType
  <2> HIDE DEF s
  <2> QED BY <1>6, <2>2
<1>8. Len(s) \in Nat /\ Len(s) > 0 /\ b = s[1]
  BY <1>1, <1>2
<1>9. h < Len(miner.sent)
  BY <1>2, <1>3, <1>4, <1>7, <1>8
<1> DEFINE m == miner.sent[h + 1]
<1>10. /\ m \in Messages(conn.proto) /\ Len(m.bytes) \in Nat
       /\ \A j \in 1 .. Len(m.bytes) : T[off[h] + j] = m.bytes[j]
  BY <1>9, NextMessage
<1>11. Len(m.bytes) > 0 => b = m.bytes[1]
  <2> SUFFICES ASSUME Len(m.bytes) > 0 PROVE b = m.bytes[1]
    OBVIOUS
  <2>1. 1 \in 1 .. Len(m.bytes) /\ 1 \in 1 .. e - pos
    BY <1>3, <1>7, <1>8, <1>10
  <2>2. T[off[h] + 1] = m.bytes[1]
    BY <1>10, <2>1
  <2>3. s[1] = T[pos + 1]
    BY <1>7, <2>1
  <2>4. pos + 1 = off[h] + 1
    BY <1>3, <1>4
  <2> QED BY <1>8, <2>2, <2>3, <2>4
<1>12. conn.proto = "v1" => b # 0 /\ conn.fallback
  <2> SUFFICES ASSUME conn.proto = "v1" PROVE b # 0 /\ conn.fallback
    OBVIOUS
  <2>1. Len(m.bytes) > 0 /\ m.bytes[1] # 0
    BY <1>10, V1MessagesAssumption DEF V1Message
  <2>2. conn.fallback
    BY <1>4 DEF Understood
  <2> QED BY <1>11, <2>1, <2>2
<1>13. conn.proto = "v2" => b = 0
  <2> SUFFICES ASSUME conn.proto = "v2" PROVE b = 0
    OBVIOUS
  <2>1. Len(m.bytes) >= 6 /\ m.bytes[1] = 0
    BY <1>10, V2MessagesAssumption DEF V2Message
  <2> QED BY <1>10, <1>11, <2>1
<1>14. /\ reader'.pc = (IF conn.proto = "v2" THEN "header" ELSE "line")
  <2>1. reader' = [reader EXCEPT !.pc = IF CanHandleFirstByte(b) THEN "header" ELSE "line"]
    BY Zenon DEF Sniff
  <2>2. reader \in [pc : Pcs, type : Nat, need : Nat, why : Reasons]
    BY DEF TypeInv
  <2>3. CanHandleFirstByte(b) <=> conn.proto = "v2"
    BY <1>2, <1>12, <1>13 DEF CanHandleFirstByte
  <2> QED BY <2>1, <2>2, <2>3
<1>15. inbox'.buf = inbox.buf /\ inbox'.prefix = <<b>> /\ inbox'.socket = Tail(s)
  <2> DEFINE a == Armed(CanHandleFirstByte(b))
             y == Tail(s)
             x == <<b>>
  <2>1. inbox' = [inbox EXCEPT !.socket = y, !.prefix = x, !.armed = a]
    BY Zenon DEF Sniff
  <2>2. inbox \in [socket : Seq(Nat), prefix : Seq(Nat), buf : Seq(Nat), armed : BOOLEAN]
    BY DEF TypeInv
  <2> HIDE DEF a, y, x
  <2>3. inbox'.buf = inbox.buf /\ inbox'.prefix = x /\ inbox'.socket = y
    BY <2>1, <2>2
  <2> QED BY <2>3 DEF x, y
<1>16. Available' = s
  <2>1. <<Head(s)>> \o Tail(s) = s
    BY <1>1, <1>2
  <2> QED BY <1>15, <2>1 DEF Available
<1>17. Flow(T, pos, e)'
  <2>1. inbox'.buf \o Available' = Slice(T, pos, e)
    BY <1>5, <1>6, <1>15, <1>16
  <2>2. Flow(T, pos, e)
    BY DEF Reading
  <2> QED BY <1>1, <2>1, <2>2 DEF Flow
<1>18. Place(h, off, pos)'
  BY <1>1, <1>2, <1>3, <1>4, <1>14, <1>15 DEF Place
<1>19. Calls(h)'
  BY <1>1 DEF Calls
<1>20. Reading(h, T, off, pos, e)'
  BY <1>1, <1>17, <1>18 DEF Reading
<1> QED BY <1>19, <1>20

\* Bytes move from the connection to the buffer.
LEMMA FillReads ==
  ASSUME TypeInv, NEW h, NEW T, NEW off, NEW pos, NEW e, Reading(h, T, off, pos, e), Calls(h),
         FillBuffer
  PROVE  Calls(h)' /\ Reading(h, T, off, pos, e)'
<1>1. /\ conn' = conn /\ miner' = miner /\ reader' = reader /\ handled' = handled /\ lines' = lines
      /\ cut' = cut /\ reader.pc = "line"
  BY DEF FillBuffer
<1> DEFINE u == inbox.buf
           p == inbox.prefix
           s == inbox.socket
<1>2. u \in Seq(Nat) /\ p \in Seq(Nat) /\ s \in Seq(Nat)
  BY FieldTypes
<1>3. inbox \in [socket : Seq(Nat), prefix : Seq(Nat), buf : Seq(Nat), armed : BOOLEAN]
  BY DEF TypeInv
<1>4. inbox'.buf \o Available' = u \o (p \o s)
  <2>1. CASE inbox' = [inbox EXCEPT !.buf = @ \o inbox.prefix, !.prefix = << >>]
    <3>1. inbox'.buf = u \o p /\ inbox'.prefix = << >> /\ inbox'.socket = s
      BY <1>3, <2>1
    <3>2. Available' = s
      BY <1>2, <3>1, EmptyLeft DEF Available
    <3> HIDE DEF u, p, s
    <3>3. (u \o p) \o s = u \o (p \o s)
      BY <1>2, Concat3
    <3> QED BY <3>1, <3>2, <3>3
  <2>2. CASE p = << >> /\ inbox' = [inbox EXCEPT !.buf = @ \o inbox.socket, !.socket = << >>]
    <3>1. inbox'.buf = u \o s /\ inbox'.prefix = p /\ inbox'.socket = << >>
      BY <1>3, <2>2
    <3>2. Available' = << >>
      BY <2>2, <3>1 DEF Available
    <3> HIDE DEF u, p, s
    <3>3. p \o s = s
      BY <1>2, <2>2, EmptyLeft
    <3>4. (u \o s) \o << >> = u \o s
      BY <1>2
    <3> QED BY <3>1, <3>2, <3>3, <3>4
  <2> QED BY <2>1, <2>2 DEF FillBuffer
<1>5. Flow(T, pos, e)'
  <2>1. Flow(T, pos, e)
    BY DEF Reading
  <2> QED BY <1>1, <1>4, <2>1 DEF Flow, Available
<1>6. Place(h, off, pos)'
  <2>1. Place(h, off, pos)
    BY DEF Reading
  <2> QED BY <1>1, <2>1 DEF Place
<1>7. Calls(h)'
  BY <1>1 DEF Calls
<1> QED BY <1>1, <1>5, <1>6, <1>7 DEF Reading

\* Without a buffer the bytes to read are those of the stream.
LEMMA FrameFlow ==
  ASSUME TypeInv, NEW h, NEW T, NEW off, NEW pos, NEW e, Reading(h, T, off, pos, e),
         reader.pc \in {"header", "payload"}
  PROVE  /\ inbox.buf = << >> /\ cut = {} /\ conn.proto = "v2"
         /\ Available = Slice(T, pos, e) /\ Available \in Seq(Nat)
         /\ Len(Available) = e - pos /\ \A j \in 1 .. e - pos : Available[j] = T[pos + j]
         /\ \A n \in Nat : n <= Len(Available) =>
              /\ Slice(Available, 0, n) = Slice(T, pos, pos + n)
              /\ Slice(Available, n, Len(Available)) = Slice(T, pos + n, e)
<1>1. Place(h, off, pos) /\ inbox.buf \o Available = Slice(T, pos, e)
  BY ReadingFacts
<1>2. Available \in Seq(Nat) /\ Len(Available) \in Nat
  BY FieldTypes
<1>3. inbox.buf = << >> /\ cut = {} /\ conn.proto = "v2"
  BY <1>1 DEF Place
<1> DEFINE A == Available
<1> HIDE DEF A
<1>4. << >> \o A = A
  BY <1>2, EmptyLeft DEF A
<1>5. A = Slice(T, pos, e)
  BY <1>1, <1>3, <1>4 DEF A
<1>6. T \in Seq(Nat) /\ pos \in Nat /\ e \in Nat /\ pos <= e /\ e <= Len(T)
  BY ReadingFacts
<1>7. /\ Len(Slice(T, pos, e)) = e - pos
      /\ \A j \in 1 .. e - pos : Slice(T, pos, e)[j] = T[pos + j]
  BY <1>6, SliceType
<1>8. Len(A) = e - pos /\ \A j \in 1 .. e - pos : A[j] = T[pos + j]
  BY <1>5, <1>7
<1>9. ASSUME NEW n \in Nat, n <= Len(A)
      PROVE  /\ Slice(A, 0, n) = Slice(T, pos, pos + n)
             /\ Slice(A, n, Len(A)) = Slice(T, pos + n, e)
  <2>1. n <= e - pos
    BY <1>8, <1>9
  <2>2. Slice(Slice(T, pos, e), 0, n) = Slice(T, pos, pos + n)
    BY <1>6, <2>1, SliceHead
  <2> DEFINE q == e - pos
  <2>3. q \in Nat /\ n <= q /\ q <= e - pos /\ pos + q = e
    BY <1>6, <2>1
  <2> HIDE DEF q
  <2>4. Slice(Slice(T, pos, e), n, q) = Slice(T, pos + n, pos + q)
    BY <1>6, <1>9, <2>3, SliceOfSlice
  <2> QED BY <1>5, <1>8, <2>2, <2>3, <2>4 DEF q
<1> QED BY <1>2, <1>3, <1>5, <1>8, <1>9 DEF A

\* Bytes are consumed: the reader is so much further in the stream.
LEMMA ConsumeFlows ==
  ASSUME TypeInv, NEW h, NEW T, NEW off, NEW pos, NEW e, Reading(h, T, off, pos, e),
         reader.pc \in {"header", "payload"},
         NEW n \in Nat, n <= Len(Available), Consume(n), miner' = miner
  PROVE  inbox'.buf = << >> /\ Flow(T, pos + n, e)'
<1>1. /\ inbox.buf = << >> /\ Len(Available) = e - pos
      /\ \A k \in Nat : k <= Len(Available) =>
           Slice(Available, k, Len(Available)) = Slice(T, pos + k, e)
  BY FrameFlow
<1>2. /\ inbox'.buf = inbox.buf /\ inbox'.prefix = << >>
      /\ inbox'.socket = Slice(Available, n, Len(Available))
  BY ConsumeType
<1>3. inbox'.socket = Slice(T, pos + n, e)
  BY <1>1, <1>2
<1>4. T \in Seq(Nat) /\ pos \in Nat /\ e \in Nat /\ pos <= e /\ e <= Len(T)
  BY ReadingFacts
<1>5. pos + n \in Nat /\ pos + n <= e
  BY <1>1, <1>4
<1> DEFINE p == pos + n
<1>6. p \in Nat /\ p <= e
  BY <1>5
<1> HIDE DEF p
<1>7. Slice(T, p, e) \in Seq(Nat)
  BY <1>4, <1>6, SliceType
<1>8. inbox'.buf \o Available' = Slice(T, p, e)
  BY <1>1, <1>2, <1>3, <1>7 DEF Available, p
<1>9. Flow(T, pos, e)
  BY DEF Reading
<1>10. Flow(T, p, e)'
  BY <1>4, <1>6, <1>8, <1>9 DEF Flow
<1> QED BY <1>1, <1>2, <1>10 DEF p

\* Behind the header the reader knows the type and the length of the frame.
LEMMA HeaderReads ==
  ASSUME TypeInv, NEW h, NEW T, NEW off, NEW pos, NEW e, Reading(h, T, off, pos, e), Calls(h),
         ReadHeader
  PROVE  /\ Calls(h)' /\ h < Len(miner.sent) /\ conn.proto = "v2"
         /\ \/ reader'.pc = "done" /\ ~(U24At(miner.sent[h + 1].bytes, 4) <= MaxFramePayload)
            \/ reader'.pc # "done" /\ \E p : Reading(h, T, off, p, e)'
<1> DEFINE A == Available
           m == miner.sent[h + 1]
           b == m.bytes
<1>1. /\ reader.pc = "header" /\ Len(A) >= 6 /\ Consume(6)
      /\ conn' = conn /\ miner' = miner /\ handled' = handled /\ lines' = lines /\ cut' = cut
  BY DEF ReadHeader
<1>2. /\ inbox.buf = << >> /\ cut = {} /\ conn.proto = "v2" /\ A \in Seq(Nat)
      /\ Len(A) = e - pos /\ \A j \in 1 .. e - pos : A[j] = T[pos + j]
  BY <1>1, FrameFlow
<1>3. /\ pos \in Nat /\ e \in Nat /\ pos <= e /\ e <= Len(T) /\ Len(T) \in Nat
      /\ off[Len(miner.sent)] = Len(T) /\ h \in Nat /\ h <= Len(miner.sent) /\ Place(h, off, pos)
      /\ Stream(T, off, miner.sent) /\ off[h] \in Nat
  BY ReadingFacts
<1>4. Len(miner.sent) \in Nat
  BY FieldTypes
<1>5. pos = off[h]
  BY <1>1, <1>3 DEF Place
<1>6. h < Len(miner.sent)
  BY <1>1, <1>2, <1>3, <1>4, <1>5, SMTT(30)
<1>7. /\ m \in Messages(conn.proto) /\ b \in Seq(Nat) /\ Len(b) \in Nat
      /\ \A j \in 1 .. Len(b) : T[off[h] + j] = b[j]
  BY <1>6, NextMessage
<1>8. Len(b) >= 6
  BY <1>2, <1>7, V2MessagesAssumption DEF V2Message
<1>9. \A j \in 1 .. 6 : A[j] = b[j]
  <2> SUFFICES ASSUME NEW j \in 1 .. 6 PROVE A[j] = b[j]
    OBVIOUS
  <2>1. e - pos \in Nat /\ e - pos >= 6 /\ Len(b) \in Nat /\ Len(b) >= 6
    <3>1. Len(A) >= 6 /\ Len(A) = e - pos
      BY <1>1, <1>2
    <3>2. Len(b) \in Nat
      BY <1>7
    <3> HIDE DEF A, b
    <3> QED BY <1>3, <1>8, <3>1, <3>2
  <2>2. j \in 1 .. e - pos /\ j \in 1 .. Len(b)
    <3> HIDE DEF b
    <3> QED BY <1>3, <2>1
  <2> QED BY <1>2, <1>5, <1>7, <2>2
<1>10. FrameType(A) = A[3] /\ FrameLength(A) = U24At(A, 4)
  BY <1>1, <1>2, HeaderType
<1>11. FrameType(A) = b[3] /\ FrameLength(A) = U24At(b, 4) /\ FrameLength(A) \in Nat
  <2> HIDE DEF b
  <2>1. A[3] = b[3] /\ A[4] = b[4] /\ A[4 + 1] = b[4 + 1] /\ A[4 + 2] = b[4 + 2]
    BY <1>9
  <2>2. U24At(A, 4) = U24At(b, 4)
    BY <2>1, Zenon DEF U24At
  <2>3. FrameLength(A) \in Nat
    BY <1>1, <1>2, HeaderType
  <2> QED BY <1>10, <2>1, <2>2, <2>3
<1>12. Calls(h)'
  BY <1>1 DEF Calls
<1>13. inbox'.buf = << >> /\ Flow(T, pos + 6, e)'
  <2> DEFINE n == 6
  <2>1. n \in Nat /\ n <= Len(Available) /\ Consume(n) /\ reader.pc \in {"header", "payload"}
        /\ miner' = miner
    BY <1>1, <1>2, <1>3
  <2> HIDE DEF n
  <2>2. inbox'.buf = << >> /\ Flow(T, pos + n, e)'
    BY <2>1, ConsumeFlows
  <2> QED BY <2>2 DEF n
<1>14. CASE FrameLength(A) > MaxFramePayload
  <2>1. reader' = [reader EXCEPT !.pc = "done", !.why = "refused"]
    BY <1>14 DEF ReadHeader, End
  <2>2. reader \in [pc : Pcs, type : Nat, need : Nat, why : Reasons]
    BY DEF TypeInv
  <2>3. reader'.pc = "done"
    BY <2>1, <2>2
  <2>4. ~(FrameLength(A) <= MaxFramePayload)
    <3>1. \A n : MaxFramePayload \in 0 .. n => MaxFramePayload \in Int
      OBVIOUS
    <3>2. MaxFramePayload \in Int
      BY <3>1, MaxFramePayloadAssumption, Zenon
    <3> QED BY <1>11, <1>14, <3>2
  <2> QED BY <1>2, <1>6, <1>11, <1>12, <2>3, <2>4
<1>15. CASE ~(FrameLength(A) > MaxFramePayload)
  <2> DEFINE t == FrameType(A)
             l == FrameLength(A)
  <2>1. reader' = [reader EXCEPT !.pc = "payload", !.type = t, !.need = l]
    BY <1>15 DEF ReadHeader
  <2>2. reader \in [pc : Pcs, type : Nat, need : Nat, why : Reasons]
    BY DEF TypeInv
  <2> HIDE DEF t, l
  <2>3. reader'.pc = "payload" /\ reader'.type = t /\ reader'.need = l
    BY <2>1, <2>2
  <2>4. l <= MaxFramePayload
    <3>1. \A n : MaxFramePayload \in 0 .. n => MaxFramePayload \in Int
      OBVIOUS
    <3>2. MaxFramePayload \in Int
      BY <3>1, MaxFramePayloadAssumption, Zenon
    <3> QED BY <1>11, <1>15, <3>2 DEF l
  <2>5. reader'.type = b[3] /\ reader'.need = U24At(b, 4) /\ reader'.need <= MaxFramePayload
    BY <1>11, <2>3, <2>4 DEF t, l
  <2>6. Place(h, off, pos + 6)'
    BY <1>1, <1>2, <1>5, <1>6, <1>13, <2>3, <2>5 DEF Place
  <2>7. Reading(h, T, off, pos + 6, e)'
    BY <1>1, <1>13, <2>6 DEF Reading
  <2>8. reader'.pc # "done"
    BY <2>3
  <2> QED BY <1>2, <1>6, <1>12, <2>7, <2>8
<1> QED BY <1>14, <1>15

\* A payload is complete: it is that of the next message.
LEMMA FrameMeans ==
  ASSUME TypeInv, NEW h, NEW T, NEW off, NEW pos, NEW e, Reading(h, T, off, pos, e),
         reader.pc = "payload", Len(Available) >= reader.need
  PROVE  LET m == miner.sent[h + 1]
         IN  /\ h < Len(miner.sent) /\ m \in Messages("v2") /\ V2Message(m) /\ conn.proto = "v2"
             /\ Payload = SubSeq(m.bytes, 7, Len(m.bytes)) /\ Payload \in Seq(Byte)
             /\ reader.type = m.bytes[3] /\ U24At(m.bytes, 4) <= MaxFramePayload
             /\ off[h + 1] = pos + reader.need
<1> DEFINE m == miner.sent[h + 1]
           b == m.bytes
           n == reader.need
<1>1. Place(h, off, pos) /\ off[h] \in Nat /\ pos \in Nat
  BY ReadingFacts
<1>2. /\ conn.proto = "v2" /\ h < Len(miner.sent) /\ pos = off[h] + 6
      /\ reader.type = b[3] /\ n = U24At(b, 4) /\ n <= MaxFramePayload
  BY <1>1 DEF Place
<1>3. n \in Nat
  BY FieldTypes
<1>4. /\ m \in Messages(conn.proto) /\ b \in Seq(Nat) /\ Len(b) \in Nat
      /\ off[h + 1] = off[h] + Len(b)
      /\ \A i, j \in Nat : i <= j /\ j <= Len(b) =>
           Slice(T, off[h] + i, off[h] + j) = Slice(b, i, j)
  BY <1>2, NextMessage
<1>5. m \in Messages("v2") /\ V2Message(m)
  BY <1>2, <1>4, V2MessagesAssumption
<1>6. Len(b) = 6 + n /\ b \in Seq(Byte)
  <2>1. U24At(b, 4) <= MaxFramePayload
    BY <1>2
  <2>2. WellFramed(b) /\ b \in Seq(Byte)
    BY <1>5, <2>1, Zenon DEF V2Message, Byte
  <2>3. Len(b) = 6 + U24At(b, 4)
    BY <2>2 DEF WellFramed
  <2> QED BY <1>2, <2>2, <2>3
<1>7. off[h + 1] = pos + n
  <2>1. off[h + 1] = off[h] + Len(b) /\ pos = off[h] + 6 /\ Len(b) = 6 + n
    BY <1>2, <1>4, <1>6
  <2> DEFINE x == off[h]
             y == off[h + 1]
  <2>2. x \in Nat /\ y = x + (6 + n) /\ pos = x + 6
    BY <1>1, <2>1
  <2> HIDE DEF n, x, y
  <2>3. y = pos + n
    BY <1>3, <2>2
  <2> QED BY <2>3 DEF y
<1>8. Slice(Available, 0, n) = Slice(T, pos, pos + n)
  <2>1. reader.pc \in {"header", "payload"}
    OBVIOUS
  <2>2. \A k \in Nat : k <= Len(Available) => Slice(Available, 0, k) = Slice(T, pos, pos + k)
    BY <2>1, FrameFlow
  <2>3. n <= Len(Available)
    BY <1>3, FieldTypes
  <2> QED BY <1>3, <2>2, <2>3
<1>9. Slice(T, off[h] + 6, off[h] + (6 + n)) = Slice(b, 6, 6 + n)
  <2>1. 6 \in Nat /\ 6 + n \in Nat /\ 6 <= 6 + n /\ 6 + n <= Len(b)
    BY <1>3, <1>6
  <2>2. \A i, j \in Nat : i <= j /\ j <= Len(b) =>
           Slice(T, off[h] + i, off[h] + j) = Slice(b, i, j)
    BY <1>4
  <2> HIDE DEF b, n
  <2> QED BY <2>1, <2>2
<1>10. pos + n = off[h] + (6 + n) /\ pos = off[h] + 6
  <2> DEFINE x == off[h]
  <2>1. x \in Nat /\ pos = x + 6
    BY <1>1, <1>2
  <2> HIDE DEF n, x
  <2>2. pos + n = x + (6 + n) /\ pos = x + 6
    BY <1>3, <2>1
  <2> QED BY <2>2 DEF x
<1>11. Payload = Slice(b, 6, Len(b))
  <2>1. Payload = Slice(Available, 0, n)
    BY DEF Payload, Slice
  <2>2. Len(b) = 6 + n
    BY <1>6
  <2> DEFINE x == off[h] + 6
             y == off[h] + (6 + n)
             z == 6 + n
             v == pos + n
  <2>3. Slice(Available, 0, n) = Slice(T, pos, v) /\ Slice(T, x, y) = Slice(b, 6, z)
    BY <1>8, <1>9
  <2>4. pos = x /\ v = y /\ Len(b) = z
    BY <1>10, <2>2
  <2> HIDE DEF x, y, z, v, b, n
  <2> QED BY <2>1, <2>3, <2>4
<1>12. Payload \in Seq(Byte)
  <2>1. SubSeq(b, 7, Len(b)) \in Seq(Byte)
    <3>1. Len(b) \in Nat /\ b \in Seq(Byte)
      BY <1>4, <1>6
    <3> QED BY <3>1
  <2> QED BY <1>11, <2>1 DEF Slice
<1> QED BY <1>2, <1>5, <1>7, <1>11, <1>12 DEF Slice

\* What the handlers are called with is what the message means.
LEMMA FrameBody ==
  ASSUME NEW m, V2Message(m), NEW type, NEW P, type = m.bytes[3], U24At(m.bytes, 4) <= MaxFramePayload,
         P = SubSeq(m.bytes, 7, Len(m.bytes)), P \in Seq(Byte)
  PROVE  /\ type = sv2MsgSetupConnection =>
              m.means = [type |-> type, body |-> parseSV2SetupConnectionPayload(P)]
         /\ type = sv2MsgOpenStandardMiningChannel =>
              m.means = [type |-> type, body |-> OpenBody(P)]
         /\ type = sv2MsgSubmitSharesStandard =>
              m.means = [type |-> type, body |-> parseSV2SubmitSharePayload(P)]
         /\ type \notin {sv2MsgSetupConnection, sv2MsgOpenStandardMiningChannel, sv2MsgSubmitSharesStandard} =>
              m.means = [type |-> type, body |-> [ok |-> TRUE]]
<1> DEFINE b == CASE type = sv2MsgSetupConnection -> SetupMeans(P)
                  [] type = sv2MsgOpenStandardMiningChannel -> OpenMeans(P)
                  [] type = sv2MsgSubmitSharesStandard -> SubmitMeans(P)
                  [] OTHER -> [ok |-> TRUE]
<1>1. m.means = [type |-> type, body |-> b]
  BY Zenon DEF V2Message
<1>2. /\ parseSV2SetupConnectionPayload(P) = SetupMeans(P)
      /\ OpenBody(P) = OpenMeans(P)
      /\ parseSV2SubmitSharePayload(P) = SubmitMeans(P)
  BY SetupParsed, OpenParsed, SubmitParsed
<1>3. /\ type = sv2MsgSetupConnection => b = SetupMeans(P)
      /\ type = sv2MsgOpenStandardMiningChannel => b = OpenMeans(P)
      /\ type = sv2MsgSubmitSharesStandard => b = SubmitMeans(P)
      /\ type \notin {sv2MsgSetupConnection, sv2MsgOpenStandardMiningChannel, sv2MsgSubmitSharesStandard} =>
           b = [ok |-> TRUE]
  <2> DEFINE x == SetupMeans(P)
             y == OpenMeans(P)
             z == SubmitMeans(P)
             w == [ok |-> TRUE]
  <2> HIDE DEF x, y, z, w
  <2>1. b = CASE type = 0 -> x [] type = 16 -> y [] type = 26 -> z [] OTHER -> w
    BY Zenon DEF x, y, z, w, sv2MsgSetupConnection, sv2MsgOpenStandardMiningChannel, sv2MsgSubmitSharesStandard
  <2> HIDE DEF b
  <2> QED BY <2>1 DEF x, y, z, w, sv2MsgSetupConnection, sv2MsgOpenStandardMiningChannel, sv2MsgSubmitSharesStandard
<1> HIDE DEF b
<1> QED BY <1>1, <1>2, <1>3

\* A frame that is taken is the next message, and a handler saw it.
LEMMA FrameReads ==
  ASSUME TypeInv, NEW h, NEW T, NEW off, NEW pos, NEW e, Reading(h, T, off, pos, e), Calls(h),
         NEW types, NEW body, FrameTaken(types, body),
         miner.sent[h + 1].means = [type |-> reader.type, body |-> body]
  PROVE  Calls(h + 1)' /\ (reader'.pc # "done" => \E p : Reading(h + 1, T, off, p, e)')
<1> DEFINE m == miner.sent[h + 1]
<1>0. PICK n \in Nat : n = reader.need
  BY FieldTypes
<1>1. /\ reader.pc = "payload" /\ Len(Available) >= n /\ Consume(n)
      /\ conn' = conn /\ miner' = miner /\ lines' = lines /\ cut' = cut
      /\ handled' = Append(handled, m.means)
      /\ Answered
  BY <1>0 DEF FrameTaken, TakeFrame, Handle
<1>2. /\ h < Len(miner.sent) /\ V2Message(m) /\ conn.proto = "v2" /\ off[h + 1] = pos + n
  BY <1>0, <1>1, FrameMeans
<1>3. cut = {}
  BY <1>1, FrameFlow
<1>4. h \in Nat /\ Len(miner.sent) \in Nat
  BY ReadingFacts, FieldTypes
<1>5. Calls(h + 1)'
  <2>1. HandledOf(Messages(conn.proto), h, miner.sent, cut, handled) /\ h + 1 <= Len(miner.sent)
    BY <1>2, <1>4 DEF Calls
  <2>2. h + 1 \notin cut /\ ~m.blank
    <3>1. m.blank = FALSE
      BY <1>2, Zenon DEF V2Message
    <3> QED BY <1>3, <3>1
  <2>3. HandledOf(Messages(conn.proto), h + 1, miner.sent, cut, Append(handled, m.means))
    BY <2>1, <2>2, HandledStep
  <2>4. HandledOf(Messages(conn'.proto), h + 1, miner'.sent, cut', handled')
    BY <1>1, <2>3
  <2> QED BY <2>4 DEF Calls
<1>6. ASSUME reader'.pc # "done" PROVE Reading(h + 1, T, off, pos + n, e)'
  <2>1. reader \in [pc : Pcs, type : Nat, need : Nat, why : Reasons]
    BY DEF TypeInv
  <2>2. reader'.pc = "header"
    BY <1>1, <1>6, <2>1 DEF Answered, Continue, End
  <2>3. inbox'.buf = << >> /\ Flow(T, pos + n, e)'
    <3>1. n \in Nat /\ n <= Len(Available) /\ Consume(n) /\ miner' = miner
          /\ reader.pc \in {"header", "payload"}
      BY <1>0, <1>1, FieldTypes
    <3> QED BY <3>1, ConsumeFlows
  <2>4. Place(h + 1, off, pos + n)'
    BY <1>1, <1>2, <1>3, <2>2, <2>3 DEF Place
  <2>5. h + 1 \in 0 .. Len(miner'.sent)
    BY <1>1, <1>2, <1>4
  <2>6. Stream(T, off, miner'.sent)
    BY <1>1 DEF Reading
  <2> QED BY <2>3, <2>4, <2>5, <2>6 DEF Reading
<1> QED BY <1>5, <1>6

\* The buffer is the part of the stream in front of what is to be read.
LEMMA LineFlow ==
  ASSUME TypeInv, NEW h, NEW T, NEW off, NEW pos, NEW e, Reading(h, T, off, pos, e),
         reader.pc = "line"
  PROVE  LET k == Len(inbox.buf)
         IN  /\ k \in Nat /\ pos + k <= e
             /\ inbox.buf = Slice(T, pos, pos + k) /\ Available = Slice(T, pos + k, e)
             /\ \A j \in 1 .. k : inbox.buf[j] = T[pos + j]
<1> DEFINE u == inbox.buf
           A == Available
           k == Len(u)
           W == Slice(T, pos, e)
<1>1. u \in Seq(Nat) /\ A \in Seq(Nat) /\ k \in Nat /\ Len(A) \in Nat
  BY FieldTypes, LenProperties
<1>2. T \in Seq(Nat) /\ pos \in Nat /\ e \in Nat /\ pos <= e /\ e <= Len(T)
  BY ReadingFacts
<1>3. u \o A = W
  BY ReadingFacts
<1>4. W \in Seq(Nat) /\ Len(W) = e - pos /\ \A i \in 1 .. e - pos : W[i] = T[pos + i]
  BY <1>2, SliceType
<1> HIDE DEF u, A, W
<1>5. Len(u \o A) = k + Len(A)
  BY <1>1
<1>6. k + Len(A) = e - pos
  BY <1>3, <1>4, <1>5
<1>7. k <= e - pos /\ pos + k <= e
  BY <1>1, <1>2, <1>6
<1>8. (\A a, b \in Nat : a <= b /\ b <= Len(u) => Slice(u \o A, a, b) = Slice(u, a, b))
      /\ Slice(u \o A, Len(u), Len(u) + Len(A)) = A
  BY <1>1, SliceOfConcat
<1>9. u = Slice(W, 0, k)
  <2>1. Slice(u, 0, Len(u)) = u
    BY <1>1, SliceAll
  <2>2. 0 \in Nat /\ Len(u) \in Nat /\ 0 <= Len(u) /\ Len(u) <= Len(u)
    BY <1>1
  <2>3. Slice(u \o A, 0, Len(u)) = Slice(u, 0, Len(u))
    BY <1>8, <2>2
  <2> QED BY <1>3, <2>1, <2>3
<1>10. Slice(W, 0, k) = Slice(T, pos, pos + k)
  <2>1. k \in Nat /\ k <= e - pos
    BY <1>1, <1>7
  <2> HIDE DEF k
  <2> QED BY <1>2, <2>1, SliceHead DEF W
<1>11. A = Slice(T, pos + k, e)
  <2> DEFINE q == e - pos
  <2>1. q \in Nat /\ k \in Nat /\ k <= q /\ q <= e - pos /\ pos + q = e /\ Len(u) + Len(A) = q
    BY <1>1, <1>2, <1>6, <1>7
  <2>2. A = Slice(W, k, q)
    BY <1>3, <1>8, <2>1
  <2> HIDE DEF q, k
  <2>3. Slice(Slice(T, pos, e), k, q) = Slice(T, pos + k, pos + q)
    BY <1>2, <2>1, SliceOfSlice
  <2> QED BY <2>1, <2>2, <2>3 DEF W
<1>12. \A j \in 1 .. k : u[j] = T[pos + j]
  <2> SUFFICES ASSUME NEW j \in 1 .. k PROVE u[j] = T[pos + j]
    OBVIOUS
  <2>1. j \in 1 .. e - pos
    BY <1>1, <1>2, <1>7
  <2>2. (u \o A)[j] = u[j]
    BY <1>1
  <2> QED BY <1>3, <1>4, <2>1, <2>2
<1> QED BY <1>1, <1>7, <1>9, <1>10, <1>11, <1>12 DEF u, A

\* A line of a miner ends with its only newline.
LEMMA LineAhead ==
  ASSUME TypeInv, NEW h, NEW T, NEW off, NEW pos, NEW e, Reading(h, T, off, pos, e),
         reader.pc = "line", inbox.buf # << >>
  PROVE  LET m == miner.sent[h + 1]
         IN  /\ h < Len(miner.sent) /\ conn.proto = "v1" /\ m \in Messages("v1") /\ V1Message(m)
             /\ off[h] <= pos /\ pos < off[h + 1] /\ off[h + 1] \in Nat /\ off[h] \in Nat
             /\ T[off[h + 1]] = NL
             /\ \A j \in Nat : off[h] < j /\ j < off[h + 1] => T[j] # NL
             /\ off[h + 1] = off[h] + Len(m.bytes)
             /\ Slice(T, pos, off[h + 1]) = Slice(m.bytes, pos - off[h], Len(m.bytes))
<1> DEFINE m == miner.sent[h + 1]
           b == m.bytes
           x == off[h]
           y == off[h + 1]
<1>1. /\ h \in Nat /\ h <= Len(miner.sent) /\ T \in Seq(Nat) /\ Len(T) \in Nat /\ x \in Nat /\ x <= Len(T)
      /\ off[Len(miner.sent)] = Len(T) /\ pos \in Nat /\ e \in Nat /\ pos <= e /\ e <= Len(T)
      /\ Place(h, off, pos)
  BY ReadingFacts
<1>2. Len(miner.sent) \in Nat /\ inbox.buf \in Seq(Nat)
  BY FieldTypes
<1>3. /\ conn.proto = "v1" /\ (h + 1 \notin cut => pos = x)
      /\ (h + 1 \in cut => h < Len(miner.sent) /\ x < pos /\ pos < y)
  BY <1>1 DEF Place
<1>4. pos < Len(T)
  <2> DEFINE k == Len(inbox.buf)
  <2>1. k \in Nat /\ k > 0 /\ pos + k <= e
    BY <1>2, LineFlow
  <2> HIDE DEF k
  <2> QED BY <1>1, <2>1
<1>5. h < Len(miner.sent)
  <2>1. CASE h + 1 \in cut
    BY <1>3, <2>1
  <2>2. CASE h + 1 \notin cut
    BY <1>1, <1>2, <1>3, <1>4, <2>2
  <2> QED BY <2>1, <2>2
<1>6. /\ m \in Messages(conn.proto) /\ b \in Seq(Nat) /\ Len(b) \in Nat /\ y = x + Len(b)
      /\ \A j \in 1 .. Len(b) : T[x + j] = b[j]
      /\ \A i, j \in Nat : i <= j /\ j <= Len(b) => Slice(T, x + i, x + j) = Slice(b, i, j)
  BY <1>5, NextMessage
<1>7. m \in Messages("v1") /\ V1Message(m)
  BY <1>3, <1>6, V1MessagesAssumption
<1>8. Len(b) > 0 /\ \A i \in 1 .. Len(b) : b[i] = NL <=> i = Len(b)
  BY <1>7, Zenon DEF V1Message
<1> HIDE DEF b, x, y
<1>9. y \in Nat /\ x < y
  BY <1>1, <1>6, <1>8
<1>10. x <= pos /\ pos < y
  BY <1>1, <1>3, <1>9
<1>11. T[y] = NL
  <2>1. Len(b) \in 1 .. Len(b)
    BY <1>6, <1>8
  <2> QED BY <1>6, <1>8, <2>1
<1>12. ASSUME NEW j \in Nat, x < j, j < y PROVE T[j] # NL
  <2> DEFINE i == j - x
  <2>1. i \in 1 .. Len(b) /\ i # Len(b) /\ x + i = j
    BY <1>1, <1>6, <1>9, <1>12
  <2> HIDE DEF i
  <2> QED BY <1>6, <1>8, <2>1
<1>13. Slice(T, pos, y) = Slice(b, pos - x, Len(b))
  <2> DEFINE i == pos - x
             j == Len(b)
  <2>1. i \in Nat /\ j \in Nat /\ i <= j /\ j <= Len(b) /\ x + i = pos /\ x + j = y
    BY <1>1, <1>6, <1>9, <1>10
  <2>2. \A c, d \in Nat : c <= d /\ d <= Len(b) => Slice(T, x + c, x + d) = Slice(b, c, d)
    BY <1>6
  <2> HIDE DEF i, j
  <2>3. Slice(T, x + i, x + j) = Slice(b, i, j)
    BY <2>1, <2>2
  <2>4. Slice(T, pos, y) = Slice(b, i, j)
    BY <2>1, <2>3
  <2> QED BY <2>4 DEF i, j
<1> QED BY <1>1, <1>3, <1>5, <1>6, <1>7, <1>9, <1>10, <1>11, <1>12, <1>13 DEF b, x, y

\* A line is taken: the next message, or what a deadline left of it.
LEMMA LineIs ==
  ASSUME TypeInv, NEW h, NEW T, NEW off, NEW pos, NEW e, Reading(h, T, off, pos, e), TakeLine
  PROVE  LET b == miner.sent[h + 1].bytes
         IN  /\ inbox.buf # << >> /\ off[h + 1] = pos + LineEnd /\ pos + Len(inbox.buf) >= off[h + 1]
             /\ h + 1 \notin cut => RawLine = b
             /\ h + 1 \in cut => \E i \in 2 .. Len(b) : RawLine = SubSeq(b, i, Len(b))
<1> DEFINE m == miner.sent[h + 1]
           b == m.bytes
           x == off[h]
           y == off[h + 1]
           u == inbox.buf
           k == LineEnd
<1>1. /\ k \in Nat /\ k # 0 /\ k <= Len(u) /\ u[k] = NL /\ reader.pc = "line"
      /\ \A j \in 1 .. k - 1 : u[j] # NL
  BY TakeLineType
<1>2. u \in Seq(Nat) /\ Len(u) \in Nat
  BY FieldTypes, LenProperties
<1>3. u # << >>
  BY <1>1, <1>2
<1>4. /\ V1Message(m)
      /\ x <= pos /\ pos < y /\ y \in Nat /\ x \in Nat /\ T[y] = NL
      /\ \A j \in Nat : x < j /\ j < y => T[j] # NL
      /\ y = x + Len(b) /\ Slice(T, pos, y) = Slice(b, pos - x, Len(b))
  BY <1>1, <1>3, LineAhead
<1>5. /\ u = Slice(T, pos, pos + Len(u)) /\ pos + Len(u) <= e
      /\ \A j \in 1 .. Len(u) : u[j] = T[pos + j]
  BY <1>1, LineFlow
<1>6. T \in Seq(Nat) /\ pos \in Nat /\ e \in Nat /\ e <= Len(T) /\ Len(T) \in Nat /\ Place(h, off, pos)
  BY ReadingFacts
<1>7. k \in 1 .. Len(u) /\ T[pos + k] = NL
  BY <1>1, <1>2, <1>5
<1> HIDE DEF b, x, y, u, k
<1>8. ~(pos + k < y)
  BY <1>1, <1>4, <1>6, <1>7
<1>17. /\ k \in Nat /\ k # 0 /\ k <= Len(u) /\ Len(u) \in Nat
      /\ pos < y /\ y \in Nat /\ pos \in Nat
  BY <1>1, <1>2, <1>4, <1>6
<1>9. ~(pos + k > y)
  <2> SUFFICES ASSUME pos + k > y PROVE FALSE
    OBVIOUS
  <2> DEFINE j == y - pos
  <2>1. j \in 1 .. k - 1 /\ j \in 1 .. Len(u) /\ pos + j = y
    BY <1>17
  <2> HIDE DEF j
  <2>2. u[j] = T[y]
    BY <1>5, <2>1
  <2> QED BY <1>1, <1>4, <2>1, <2>2
<1>10. y = pos + k
  BY <1>17, <1>8, <1>9
<1>11. RawLine = Slice(T, pos, y)
  <2>1. RawLine = Slice(u, 0, k)
    BY DEF RawLine, Slice, u, k
  <2> DEFINE z == pos + Len(u)
  <2>2. z \in Nat /\ pos <= z /\ z <= Len(T) /\ k <= z - pos
    BY <1>1, <1>2, <1>5, <1>6, SMTT(30)
  <2>3. u = Slice(T, pos, z)
    BY <1>5
  <2>4. T \in Seq(Nat) /\ pos \in Nat /\ k \in Nat
    BY <1>1, <1>6
  <2> HIDE DEF z
  <2>5. Slice(Slice(T, pos, z), 0, k) = Slice(T, pos, pos + k)
    BY <2>2, <2>4, SliceHead
  <2> QED BY <1>10, <2>1, <2>3, <2>5
<1>12. RawLine = Slice(b, pos - x, Len(b))
  BY <1>4, <1>11
<1>13. b \in Seq(Nat) /\ Len(b) \in Nat
  <2>1. b \in Seq(Nat)
    BY <1>4, Zenon DEF V1Message, b
  <2> QED BY <2>1, LenProperties
<1>14. ASSUME h + 1 \notin cut PROVE RawLine = b
  <2>1. pos = x
    BY <1>1, <1>6, <1>14 DEF Place, x
  <2>2. pos - x = 0
    BY <1>4, <1>6, <2>1
  <2>3. Slice(b, 0, Len(b)) = b
    BY <1>13, SliceAll
  <2> QED BY <1>12, <2>2, <2>3
<1>15. ASSUME h + 1 \in cut PROVE \E i \in 2 .. Len(b) : RawLine = SubSeq(b, i, Len(b))
  <2>1. x < pos /\ pos < y
    BY <1>1, <1>6, <1>15 DEF Place, x, y
  <2> DEFINE i == (pos - x) + 1
  <2>2. i \in 2 .. Len(b)
    BY <1>4, <1>6, <1>13, <2>1, SMTT(30)
  <2>3. RawLine = SubSeq(b, i, Len(b))
    BY <1>12 DEF Slice
  <2> HIDE DEF i
  <2> QED BY <2>2, <2>3
<1>16. pos + Len(u) >= y
  BY <1>1, <1>2, <1>6, <1>10
<1> QED BY <1>3, <1>10, <1>14, <1>15, <1>16 DEF b, y, u, k

\* The reader is behind the line that was taken.
LEMMA TakeLineReads ==
  ASSUME TypeInv, NEW h, NEW T, NEW off, NEW pos, NEW e, Reading(h, T, off, pos, e), TakeLine,
         reader' = reader
  PROVE  \E p : Reading(h + 1, T, off, p, e)'
<1> DEFINE u == inbox.buf
<1>1. /\ inbox'.socket = inbox.socket /\ inbox'.prefix = inbox.prefix
      /\ inbox'.buf = Slice(u, LineEnd, Len(u)) /\ lines' = lines + 1 /\ reader.pc = "line"
      /\ LineEnd \in Nat /\ LineEnd <= Len(u)
  BY TakeLineType
<1>2. conn' = conn /\ miner' = miner /\ cut' = cut
  BY DEF TakeLine
<1>3. PICK k, p : k \in Nat /\ k = LineEnd /\ p = off[h + 1]
  BY <1>1
<1>4. u # << >> /\ p = pos + k /\ pos + Len(u) >= p
  BY <1>3, LineIs
<1>5. h < Len(miner.sent) /\ conn.proto = "v1" /\ p \in Nat
  BY <1>1, <1>3, <1>4, LineAhead, ZenonT(40)
<1>6. /\ Len(u) \in Nat /\ pos + Len(u) <= e
      /\ u = Slice(T, pos, pos + Len(u)) /\ Available = Slice(T, pos + Len(u), e)
  BY <1>1, LineFlow
<1>7. /\ T \in Seq(Nat) /\ pos \in Nat /\ e \in Nat /\ pos <= e /\ e <= Len(T) /\ Len(T) \in Nat
      /\ Place(h, off, pos) /\ h \in Nat /\ h <= Len(miner.sent) /\ Stream(T, off, miner.sent)
  BY ReadingFacts
<1>8. Len(miner.sent) \in Nat
  BY FieldTypes
<1> DEFINE n == Len(u)
           z == pos + n
<1>9. z \in Nat /\ p \in Nat /\ pos <= z /\ z <= e /\ z <= Len(T) /\ p <= z
  BY <1>4, <1>5, <1>6, <1>7, SMTT(30)
<1>10. inbox'.buf = Slice(T, p, z)
  <2>1. n \in Nat /\ k <= n /\ n <= z - pos
    BY <1>1, <1>3, <1>6, <1>7
  <2>2. u = Slice(T, pos, z)
    BY <1>6
  <2>3. T \in Seq(Nat) /\ pos \in Nat /\ z \in Nat /\ pos <= z /\ z <= Len(T)
    BY <1>7, <1>9
  <2> DEFINE w == n
  <2>4. k \in Nat /\ w \in Nat /\ k <= w /\ w <= z - pos /\ pos + w = z
    BY <1>3, <2>1
  <2>5. inbox'.buf = Slice(u, k, w)
    BY <1>1, <1>3
  <2> HIDE DEF u, z, w
  <2>6. Slice(Slice(T, pos, z), k, w) = Slice(T, pos + k, pos + w)
    BY <2>3, <2>4, SliceOfSlice
  <2> QED BY <1>4, <2>2, <2>4, <2>5, <2>6
<1>11. inbox'.buf \o Available' = Slice(T, p, e)
  <2>1. Available' = Slice(T, z, e)
    BY <1>1, <1>6 DEF Available
  <2> HIDE DEF z
  <2>2. Slice(T, p, z) \o Slice(T, z, e) = Slice(T, p, e)
    BY <1>7, <1>9, SliceJoin, ZenonT(40)
  <2> QED BY <1>10, <2>1, <2>2
<1>12. Flow(T, p, e)'
  <2>1. Flow(T, pos, e)
    BY DEF Reading
  <2>2. p <= e
    BY <1>7, <1>9
  <2> QED BY <1>2, <1>5, <1>11, <2>1, <2>2 DEF Flow
<1>13. Place(h + 1, off, p)'
  <2>1. lines = h /\ cut \subseteq 1 .. h + 1
    BY <1>1, <1>7 DEF Place
  <2>2. (h + 1) + 1 \notin cut
    BY <1>7, <2>1
  <2>3. cut \subseteq 1 .. (h + 1) + 1
    BY <1>7, <2>1
  <2>4. lines' = h + 1
    BY <1>1, <2>1
  <2> QED BY <1>1, <1>2, <1>3, <1>5, <2>2, <2>3, <2>4 DEF Place
<1>14. h + 1 \in 0 .. Len(miner'.sent)
  BY <1>2, <1>5, <1>7, <1>8
<1>15. Reading(h + 1, T, off, p, e)'
  BY <1>2, <1>7, <1>12, <1>13, <1>14 DEF Reading
<1> QED BY <1>15

\* A line that is an event is a whole message, and its event is what it means.
LEMMA EventIs ==
  ASSUME TypeInv, NEW h, NEW T, NEW off, NEW pos, NEW e, Reading(h, T, off, pos, e), TakeEvent
  PROVE  LET m == miner.sent[h + 1]
         IN  /\ h < Len(miner.sent) /\ conn.proto = "v1" /\ m \in Messages("v1") /\ V1Message(m)
             /\ h + 1 \notin cut /\ ~m.blank /\ Event = m.means
<1> DEFINE m == miner.sent[h + 1]
           b == m.bytes
<1>1. TakeLine /\ Line \in DOMAIN Events /\ reader.pc = "line"
  BY DEF TakeEvent, TakeLine
<1>2. /\ inbox.buf # << >>
      /\ h + 1 \notin cut => RawLine = b
      /\ h + 1 \in cut => \E i \in 2 .. Len(b) : RawLine = SubSeq(b, i, Len(b))
  BY <1>1, LineIs
<1>3. h < Len(miner.sent) /\ conn.proto = "v1" /\ m \in Messages("v1") /\ V1Message(m)
  BY <1>1, <1>2, LineAhead
<1>4. /\ \A i \in 2 .. Len(b) : LineText(SubSeq(b, i, Len(b))) \notin DOMAIN Events
      /\ LineText(b) \in DOMAIN Events => m.means = Events[LineText(b)]
      /\ m.blank = (LineText(b) = << >>)
  BY <1>3, Zenon DEF V1Message
<1>5. Line = LineText(RawLine)
  BY DEF Line
<1>6. h + 1 \notin cut
  BY <1>1, <1>2, <1>4, <1>5
<1>7. Line = LineText(b)
  BY <1>2, <1>5, <1>6
<1> QED BY <1>1, <1>3, <1>4, <1>6, <1>7, EventsAssumption DEF Event

\* An event that is taken is the next message, and a handler saw it.
LEMMA EventReads ==
  ASSUME TypeInv, NEW h, NEW T, NEW off, NEW pos, NEW e, Reading(h, T, off, pos, e), Calls(h),
         EventTaken
  PROVE  Calls(h + 1)' /\ (reader'.pc # "done" => \E p : Reading(h + 1, T, off, p, e)')
<1> DEFINE m == miner.sent[h + 1]
<1>1. TakeEvent /\ TakeLine /\ handled' = Append(handled, Event)
  BY DEF EventTaken, TakeEvent
<1>2. conn' = conn /\ miner' = miner /\ cut' = cut
  BY <1>1 DEF TakeLine
<1>3. h < Len(miner.sent) /\ h + 1 \notin cut /\ ~m.blank /\ Event = m.means
  BY <1>1, EventIs
<1>4. h \in Nat /\ Len(miner.sent) \in Nat
  BY ReadingFacts, FieldTypes
<1>5. Calls(h + 1)'
  <2>1. HandledOf(Messages(conn.proto), h, miner.sent, cut, handled) /\ h + 1 <= Len(miner.sent)
    BY <1>3, <1>4 DEF Calls
  <2>2. HandledOf(Messages(conn.proto), h + 1, miner.sent, cut, Append(handled, m.means))
    BY <1>3, <2>1, HandledStep
  <2>3. HandledOf(Messages(conn'.proto), h + 1, miner'.sent, cut', handled')
    BY <1>1, <1>2, <1>3, <2>2
  <2> QED BY <2>3 DEF Calls
<1>6. reader' = reader => \E p : Reading(h + 1, T, off, p, e)'
  BY <1>1, TakeLineReads
<1>7. reader' = reader \/ reader'.pc = "done"
  <2>1. reader \in [pc : Pcs, type : Nat, need : Nat, why : Reasons]
    BY DEF TypeInv
  <2> QED BY <2>1 DEF EventTaken, End
<1> QED BY <1>5, <1>6, <1>7

\* A blank line is taken and no handler sees it.
LEMMA BlankReads ==
  ASSUME TypeInv, NEW h, NEW T, NEW off, NEW pos, NEW e, Reading(h, T, off, pos, e), Calls(h),
         TakeLine, Line = << >>, reader' = reader, handled' = handled
  PROVE  Calls(h + 1)' /\ \E p : Reading(h + 1, T, off, p, e)'
<1> DEFINE m == miner.sent[h + 1]
           b == m.bytes
<1>1. reader.pc = "line" /\ conn' = conn /\ miner' = miner /\ cut' = cut
  BY DEF TakeLine
<1>2. inbox.buf # << >> /\ (h + 1 \notin cut => RawLine = b)
  BY LineIs
<1>3. h < Len(miner.sent) /\ V1Message(m)
  BY <1>1, <1>2, LineAhead
<1>4. m.blank = (LineText(b) = << >>)
  BY <1>3, Zenon DEF V1Message
<1>5. h + 1 \in cut \/ m.blank
  BY <1>2, <1>4 DEF Line
<1>6. h \in Nat /\ Len(miner.sent) \in Nat
  BY ReadingFacts, FieldTypes
<1>7. Calls(h + 1)'
  <2>1. HandledOf(Messages(conn.proto), h, miner.sent, cut, handled) /\ h + 1 <= Len(miner.sent)
    BY <1>3, <1>6 DEF Calls
  <2>2. HandledOf(Messages(conn.proto), h + 1, miner.sent, cut, handled)
    BY <1>5, <2>1, HandledStep
  <2> QED BY <1>1, <2>2 DEF Calls
<1>8. \E p : Reading(h + 1, T, off, p, e)'
  BY TakeLineReads
<1> QED BY <1>7, <1>8

\* A deadline in the middle of a line takes its start.
LEMMA TimeoutReads ==
  ASSUME TypeInv, NEW h, NEW T, NEW off, NEW pos, NEW e, Reading(h, T, off, pos, e), Calls(h),
         ReadTimeout
  PROVE  Calls(h)' /\ (reader'.pc # "done" => \E p : Reading(h, T, off, p, e)')
<1>1. conn' = conn /\ miner' = miner /\ handled' = handled /\ lines' = lines
  BY DEF ReadTimeout
<1>2. reader \in [pc : Pcs, type : Nat, need : Nat, why : Reasons]
      /\ inbox \in [socket : Seq(Nat), prefix : Seq(Nat), buf : Seq(Nat), armed : BOOLEAN]
  BY DEF TypeInv
<1>3. CASE reader.pc # "line"
  <2>1. End("deadline") /\ cut' = cut
    BY <1>3 DEF ReadTimeout
  <2>2. reader'.pc = "done"
    BY <1>2, <2>1 DEF End
  <2> QED BY <1>1, <2>1, <2>2 DEF Calls
<1>4. CASE reader.pc = "line"
  <2> DEFINE u == inbox.buf
  <2>1. /\ LineEnd = 0 /\ inbox.prefix = << >>
        /\ u = << >> => inbox.socket = << >>
        /\ cut' = (IF u = << >> THEN cut ELSE cut \union {lines + 1})
        /\ inbox' = [inbox EXCEPT !.buf = << >>] /\ reader' = reader
    BY <1>4 DEF ReadTimeout
  <2>2. inbox'.buf = << >> /\ inbox'.prefix = inbox.prefix /\ inbox'.socket = inbox.socket
    BY <1>2, <2>1
  <2>3. /\ T \in Seq(Nat) /\ pos \in Nat /\ e \in Nat /\ pos <= e /\ e <= Len(T) /\ Len(T) \in Nat
        /\ Place(h, off, pos) /\ h \in Nat /\ h <= Len(miner.sent) /\ Stream(T, off, miner.sent)
        /\ h \in 0 .. Len(miner.sent)
    BY ReadingFacts DEF Reading
  <2>4. u \in Seq(Nat) /\ Len(u) \in Nat /\ Available \in Seq(Nat) /\ Len(miner.sent) \in Nat
    BY FieldTypes, LenProperties
  <2>5. /\ pos + Len(u) <= e /\ Available = Slice(T, pos + Len(u), e)
        /\ \A j \in 1 .. Len(u) : u[j] = T[pos + j]
    BY <1>4, LineFlow
  <2>6. PICK p \in Nat : p = pos + Len(u)
    BY <2>3, <2>4
  <2>7. Flow(T, p, e)'
    <3>1. Available' = Available
      BY <2>2 DEF Available
    <3>2. << >> \o Available = Available
      BY <2>4, EmptyLeft
    <3>3. inbox'.buf \o Available' = Slice(T, p, e)
      BY <2>2, <2>5, <2>6, <3>1, <3>2
    <3>4. Flow(T, pos, e)
      BY DEF Reading
    <3>5. p <= e
      BY <2>5, <2>6
    <3> QED BY <1>1, <2>6, <3>3, <3>4, <3>5 DEF Flow
  <2>8. lines = h /\ cut \subseteq 1 .. h + 1 /\ conn.proto = "v1"
    BY <1>4, <2>3 DEF Place
  <2>9. CASE u = << >>
    <3>1. p = pos /\ cut' = cut
      BY <2>1, <2>3, <2>6, <2>9
    <3>2. Place(h, off, p)'
      BY <1>1, <1>4, <2>1, <2>3, <2>8, <3>1 DEF Place
    <3>3. Reading(h, T, off, p, e)'
      BY <1>1, <2>3, <2>7, <3>2 DEF Reading
    <3>4. Calls(h)'
      BY <1>1, <3>1 DEF Calls
    <3> QED BY <3>3, <3>4
  <2>10. CASE u # << >>
    <3> DEFINE x == off[h]
               y == off[h + 1]
    <3>1. cut' = cut \union {h + 1}
      BY <2>1, <2>8, <2>10
    <3>2. /\ h < Len(miner.sent) /\ x <= pos /\ pos < y /\ y \in Nat /\ x \in Nat /\ T[y] = NL
      BY <1>4, <2>10, LineAhead
    <3>3. \A j \in 1 .. Len(u) : u[j] # NL
      BY <2>1, <2>4, FirstNewline
    <3>4. Len(u) > 0
      BY <2>4, <2>10
    <3> HIDE DEF x, y
    <3>5. x < p
      BY <2>3, <2>4, <2>6, <3>2, <3>4
    <3>6. p < y
      <4> SUFFICES ASSUME p >= y PROVE FALSE
        BY <2>6, <3>2
      <4> DEFINE j == y - pos
      <4>1. j \in 1 .. Len(u) /\ pos + j = y
        <5>1. p = pos + Len(u) /\ Len(u) \in Nat /\ pos \in Nat /\ y \in Nat /\ pos < y
          BY <2>3, <2>4, <2>6, <3>2
        <5> QED BY <5>1
      <4> HIDE DEF j
      <4>2. u[j] = T[y]
        BY <2>5, <4>1
      <4> QED BY <3>2, <3>3, <4>1, <4>2
    <3>7. h + 1 \in cut' /\ cut' \subseteq 1 .. h + 1
      BY <2>3, <2>8, <3>1
    <3>8. Place(h, off, p)'
      BY <1>1, <1>4, <2>1, <2>8, <3>2, <3>5, <3>6, <3>7 DEF Place, x, y
    <3>9. Reading(h, T, off, p, e)'
      BY <1>1, <2>3, <2>7, <3>8 DEF Reading
    <3>10. Calls(h)'
      <4> DEFINE t == miner.sent
                 d == cut \union {h + 1}
      <4>1. HandledOf(Messages(conn.proto), h, t, cut, handled)
        BY DEF Calls
      <4>2. t \in Seq(Messages(conn.proto)) /\ Len(t) <= Len(t)
        BY <2>4, FieldTypes
      <4>3. \A i \in 1 .. h : t[i] = t[i] /\ (i \in cut <=> i \in d)
        BY <2>3
      <4> HIDE DEF t, d
      <4>4. HandledOf(Messages(conn.proto), h, t, d, handled)
        BY <4>1, <4>2, <4>3, HandledMove
      <4> QED BY <1>1, <3>1, <4>4 DEF Calls, t, d
    <3> QED BY <3>9, <3>10
  <2> QED BY <2>9, <2>10
<1> QED BY <1>3, <1>4

\* A reader that has ended stays where it is.
LEMMA DoneStays ==
  ASSUME reader.pc = "done", ReaderTurn
  PROVE  FALSE
<1>1. ~ReaderNext
  BY Zenon DEF ReaderNext, LineStep, SendMessage, Deliver, HangUp, Sniff, ReadTimeout, ReadEOF, Starved,
    FillBuffer, StopOnCancel, RefuseLine, SkipBlank, HandleSubscribe, HandleAuthorize, HandleSubmit,
    HandleUnknown, TakeEvent, TakeLine
<1>2. ~FrameStep
  BY Zenon DEF FrameStep, ReadHeader, SetupConnection, RefuseChannel, OpenChannel, SubmitShare,
    IgnoreFrame, TakeFrame
<1> QED BY <1>1, <1>2 DEF ReaderTurn

FrameActions == SetupConnection \/ RefuseChannel \/ OpenChannel \/ SubmitShare \/ IgnoreFrame

\* A handler is called with what the next message means.
LEMMA FrameActionShape ==
  ASSUME TypeInv, NEW h, NEW T, NEW off, NEW pos, NEW e, Reading(h, T, off, pos, e), FrameActions
  PROVE  \E types, body : /\ FrameTaken(types, body)
                          /\ miner.sent[h + 1].means = [type |-> reader.type, body |-> body]
<1> DEFINE m == miner.sent[h + 1]
           P == Payload
           t == reader.type
<1>1. ASSUME NEW types, NEW body, FrameTaken(types, body)
      PROVE  /\ t \in types
             /\ t = sv2MsgSetupConnection => m.means = [type |-> t, body |-> parseSV2SetupConnectionPayload(P)]
             /\ t = sv2MsgOpenStandardMiningChannel => m.means = [type |-> t, body |-> OpenBody(P)]
             /\ t = sv2MsgSubmitSharesStandard => m.means = [type |-> t, body |-> parseSV2SubmitSharePayload(P)]
             /\ t \notin {sv2MsgSetupConnection, sv2MsgOpenStandardMiningChannel, sv2MsgSubmitSharesStandard} =>
                  m.means = [type |-> t, body |-> [ok |-> TRUE]]
  <2>1. reader.pc = "payload" /\ Len(Available) >= reader.need /\ t \in types
    BY <1>1 DEF FrameTaken, TakeFrame
  <2>2. /\ V2Message(m) /\ P = SubSeq(m.bytes, 7, Len(m.bytes)) /\ P \in Seq(Byte)
        /\ t = m.bytes[3] /\ U24At(m.bytes, 4) <= MaxFramePayload
    BY <2>1, FrameMeans
  <2> HIDE DEF m, P, t
  <2>3. /\ t = sv2MsgSetupConnection => m.means = [type |-> t, body |-> parseSV2SetupConnectionPayload(P)]
        /\ t = sv2MsgOpenStandardMiningChannel => m.means = [type |-> t, body |-> OpenBody(P)]
        /\ t = sv2MsgSubmitSharesStandard => m.means = [type |-> t, body |-> parseSV2SubmitSharePayload(P)]
        /\ t \notin {sv2MsgSetupConnection, sv2MsgOpenStandardMiningChannel, sv2MsgSubmitSharesStandard} =>
             m.means = [type |-> t, body |-> [ok |-> TRUE]]
    BY <2>2, FrameBody, ZenonT(40)
  <2> QED BY <2>1, <2>3
<1> HIDE DEF m, P, t
<1>2. CASE SetupConnection
  <2>1. FrameTaken({sv2MsgSetupConnection}, parseSV2SetupConnectionPayload(P))
    BY <1>2, FrameShape DEF P
  <2>2. m.means = [type |-> t, body |-> parseSV2SetupConnectionPayload(P)]
    BY <1>1, <2>1
  <2> QED BY <2>1, <2>2 DEF m, t
<1>3. CASE RefuseChannel \/ OpenChannel
  <2>1. FrameTaken({sv2MsgOpenStandardMiningChannel}, OpenBody(P))
    BY <1>3, FrameShape DEF P
  <2>2. m.means = [type |-> t, body |-> OpenBody(P)]
    BY <1>1, <2>1
  <2> QED BY <2>1, <2>2 DEF m, t
<1>4. CASE SubmitShare
  <2>1. FrameTaken({sv2MsgSubmitSharesStandard}, parseSV2SubmitSharePayload(P))
    BY <1>4, FrameShape DEF P
  <2>2. m.means = [type |-> t, body |-> parseSV2SubmitSharePayload(P)]
    BY <1>1, <2>1
  <2> QED BY <2>1, <2>2 DEF m, t
<1>5. CASE IgnoreFrame
  <2> DEFINE K == {sv2MsgSetupConnection, sv2MsgOpenStandardMiningChannel, sv2MsgSubmitSharesStandard}
  <2>1. FrameTaken(0 .. Base - 1 \ K, [ok |-> TRUE])
    BY <1>5, FrameShape
  <2>2. t \in 0 .. Base - 1 \ K
    BY <1>1, <2>1
  <2>3. t \notin K
    BY <2>2
  <2>4. m.means = [type |-> t, body |-> [ok |-> TRUE]]
    BY <1>1, <2>1, <2>3
  <2> QED BY <2>1, <2>4 DEF m, t
<1> QED BY <1>2, <1>3, <1>4, <1>5 DEF FrameActions

\* Every step keeps the reader in its place in the stream.
LEMMA FrameInvNext ==
  ASSUME TypeInv, FrameInv, [Next]_vars
  PROVE  FrameInv'
<1>1. CASE Untouched
  <2>1. /\ conn' = conn /\ miner' = miner /\ inbox' = inbox /\ reader' = reader /\ handled' = handled
        /\ lines' = lines /\ cut' = cut
    BY <1>1 DEF Untouched
  <2>2. Understood' = Understood
    BY <2>1 DEF Understood
  <2>3. \A h : Calls(h)' = Calls(h)
    BY <2>1 DEF Calls
  <2>4. \A h, T, off, pos, e : Reading(h, T, off, pos, e)' = Reading(h, T, off, pos, e)
    BY <2>1 DEF Reading, Flow, Place, Available
  <2> QED BY <2>1, <2>2, <2>3, <2>4 DEF FrameInv
<1>2. CASE ReaderTurn
  <2>1. conn' = conn
    <3>1. CASE ReaderNext
      BY <3>1, Zenon DEF ReaderNext, LineStep, SendMessage, Deliver, HangUp, Sniff, ReadTimeout, ReadEOF,
        FillBuffer, StopOnCancel, RefuseLine, SkipBlank, HandleSubscribe, HandleAuthorize, HandleSubmit,
        HandleUnknown, TakeEvent, TakeLine
    <3>2. CASE FrameStep
      BY <3>2, Zenon DEF FrameStep, ReadHeader, SetupConnection, RefuseChannel, OpenChannel, SubmitShare,
        IgnoreFrame, TakeFrame
    <3> QED BY <1>2, <3>1, <3>2 DEF ReaderTurn
  <2>2. SUFFICES ASSUME Understood PROVE FrameInv'
    BY <2>1 DEF FrameInv, Understood
  <2>3. reader.pc # "done"
    BY <1>2, DoneStays
  <2>4. PICK h, T, off, pos, e : Calls(h) /\ Reading(h, T, off, pos, e)
    BY <2>2, <2>3 DEF FrameInv
  <2> SUFFICES \E g : /\ Calls(g)'
                      /\ reader'.pc # "done" => \E T1, o, p, z : Reading(g, T1, o, p, z)'
    BY DEF FrameInv
  <2>5. reader \in [pc : Pcs, type : Nat, need : Nat, why : Reasons]
    BY DEF TypeInv
  <2>6. CASE SendMessage
    BY <2>4, <2>6, SendReads
  <2>7. CASE Deliver
    BY <2>4, <2>7, DeliverReads
  <2>8. CASE HangUp
    BY <2>4, <2>8, HangUpReads
  <2>9. CASE Sniff
    BY <2>2, <2>4, <2>9, SniffReads
  <2>10. CASE ReadTimeout
    BY <2>4, <2>10, TimeoutReads
  <2>11. CASE ReadEOF
    <3>1. conn' = conn /\ miner' = miner /\ handled' = handled /\ cut' = cut /\ End("eof")
      BY <2>11 DEF ReadEOF
    <3>2. reader'.pc = "done"
      BY <2>5, <3>1 DEF End
    <3>3. Calls(h)'
      BY <2>4, <3>1 DEF Calls
    <3> QED BY <3>2, <3>3
  <2>12. CASE FillBuffer
    BY <2>4, <2>12, FillReads
  <2>13. CASE StopOnCancel \/ RefuseLine
    <3>1. TakeLine /\ handled' = handled /\ (End("cancelled") \/ End("refused"))
      BY <2>13, LineShape
    <3>2. reader'.pc = "done"
      BY <2>5, <3>1 DEF End
    <3>3. Calls(h)'
      BY <2>4, <3>1 DEF Calls, TakeLine
    <3> QED BY <3>2, <3>3
  <2>14. CASE SkipBlank
    <3>1. TakeLine /\ Line = << >> /\ reader' = reader /\ handled' = handled
      BY <2>14, LineShape
    <3> QED BY <2>4, <3>1, BlankReads
  <2>15. CASE HandleSubscribe \/ HandleAuthorize \/ HandleSubmit \/ HandleUnknown
    <3>1. EventTaken
      BY <2>15, LineShape
    <3> QED BY <2>4, <3>1, EventReads
  <2>16. CASE ReadHeader
    BY <2>4, <2>16, HeaderReads
  <2>17. CASE FrameActions
    <3>1. PICK types, body : /\ FrameTaken(types, body)
                             /\ miner.sent[h + 1].means = [type |-> reader.type, body |-> body]
      BY <2>4, <2>17, FrameActionShape
    <3> QED BY <2>4, <3>1, FrameReads
  <2> QED BY <1>2, <2>6, <2>7, <2>8, <2>9, <2>10, <2>11, <2>12, <2>13, <2>14, <2>15, <2>16, <2>17
       DEF ReaderTurn, ReaderNext, LineStep, FrameStep, FrameActions
<1> QED BY <1>1, <1>2, Turns

\* The state of the connection has its types, and the handlers were called for
\* what was sent, at every step of the reader.
THEOREM FramesInvariant == Spec => [](TypeInv /\ FrameInv)
<1>1. Init => TypeInv /\ FrameInv
  BY TypeInvInit, FrameInvInit
<1>2. TypeInv /\ FrameInv /\ [Next]_vars => (TypeInv /\ FrameInv)'
  BY TypeInvNext, FrameInvNext
<1> QED BY <1>1, <1>2, PTL DEF Spec

\* In terms of the messages.
LEMMA AsSent ==
  ASSUME FrameInv, Understood
  PROVE  HandledAsSent
<1>1. PICK h : Calls(h)
  BY DEF FrameInv
<1> DEFINE all == Pick(Numbers(Len(miner.sent)), KeptOf(miner.sent, cut))
<1>2. /\ Len(handled) <= Len(all)
      /\ \A i \in 1 .. Len(handled) : handled[i] = miner.sent[all[i]].means
  BY <1>1, HandledFits DEF Calls
<1>3. Kept = all
  BY Zenon DEF Kept, Numbers, KeptOf
<1> QED BY <1>2, <1>3 DEF HandledAsSent

\* However TCP cuts the bytes of the miner into pieces, wherever the deadline of a
\* line strikes and whichever protocol the first byte chose, the handlers of a
\* miner whose protocol the port takes are called with the messages it sent: in
\* their order, with their fields, and without any that is made up of two.
THEOREM MessagesAreHandledAsSent == Spec => [](Understood => HandledAsSent)
<1>1. FrameInv => (Understood => HandledAsSent)
  BY AsSent
<1> QED BY <1>1, FramesInvariant, PTL

----------------------------------------------------------------------------
(* Why a connection ends                                                    *)

\* The parser of identities reads each of them as it is meant.
IdentitiesRead ==
  \A id \in DOMAIN WalletOf : WalletOf[id].wallet # None /\ ParseAuthorizeIdentity(id) = WalletOf[id]

\* The reader has not ended; only the first byte and lines have a deadline; the
\* setup is known to be complete once a handler saw it.
EndInv ==
  /\ reader.pc # "done" => reader.why = "none"
  /\ reader.pc \in {"header", "payload"} => ~inbox.armed
  /\ reader.pc = "sniff" => handled = << >> /\ inbox.prefix = << >> /\ lines = 0
  /\ Understood /\ conn.proto = "v2" /\ reader.pc # "done" /\ ~setupComplete =>
       \A i \in 1 .. Len(handled) : handled[i].type # sv2MsgSetupConnection

NoBlanks(M) == \A m \in M : ~m.blank

\* All messages of an SV2 miner are handled.
LEMMA V2Handled ==
  ASSUME NEW M, NEW h, NEW s, NEW calls, NEW c, c = {}, HandledOf(M, h, s, c, calls),
         NoBlanks(M)
  PROVE  Len(calls) = h /\ h \in Nat /\ h <= Len(s) /\ \A i \in 1 .. h : calls[i] = s[i].means
<1> DEFINE I == KeptOf(s, c)
           K == Pick(Numbers(h), I)
<1>1. /\ h \in Nat /\ s \in Seq(M) /\ h <= Len(s) /\ Len(calls) = Len(K)
      /\ \A i \in 1 .. Len(K) : calls[i] = s[K[i]].means
  BY DEF HandledOf
<1>2. Len(s) \in Nat
  BY <1>1, LenProperties
<1>3. 1 .. h \subseteq I
  <2>1. \A i \in 1 .. Len(s) : s[i] \in M
    BY <1>1, <1>2
  <2>2. \A i \in 1 .. Len(s) : ~s[i].blank
    BY <2>1 DEF NoBlanks
  <2> QED BY <1>1, <1>2, <2>2 DEF KeptOf
<1>4. Numbers(h) \in Seq(Nat) /\ Len(Numbers(h)) = h /\ \A i \in 1 .. h : Numbers(h)[i] = i
  BY <1>1, NumbersType
<1> HIDE DEF I
<1>5. K = Numbers(h)
  <2>1. \A i \in 1 .. Len(Numbers(h)) : i \in I
    BY <1>3, <1>4
  <2> QED BY <1>4, <2>1, PickAll
<1> QED BY <1>1, <1>4, <1>5

\* The record of the reader after each kind of step.
LEMMA ReaderSteps ==
  ASSUME TypeInv
  PROVE  /\ \A why : End(why) => reader'.pc = "done" /\ reader'.why = why
         /\ Continue => reader'.pc = "header" /\ reader'.why = reader.why
         /\ \A n : Consume(n) => inbox'.armed = inbox.armed /\ inbox'.prefix = << >>
         /\ TakeLine => /\ inbox'.armed = inbox.armed /\ inbox'.prefix = inbox.prefix
                        /\ reader.pc = "line" /\ conn' = conn /\ miner' = miner /\ cut' = cut
<1>1. reader \in [pc : Pcs, type : Nat, need : Nat, why : Reasons]
      /\ inbox \in [socket : Seq(Nat), prefix : Seq(Nat), buf : Seq(Nat), armed : BOOLEAN]
  BY DEF TypeInv
<1>2. \A why : End(why) => reader'.pc = "done" /\ reader'.why = why
  BY <1>1 DEF End
<1>3. Continue => reader'.pc = "header" /\ reader'.why = reader.why
  BY <1>1 DEF Continue
<1>4. ASSUME NEW n, Consume(n) PROVE inbox'.armed = inbox.armed /\ inbox'.prefix = << >>
  <2> DEFINE x == SubSeq(Available, n + 1, Len(Available))
  <2>1. inbox' = [inbox EXCEPT !.prefix = << >>, !.socket = x]
    BY <1>4 DEF Consume
  <2> HIDE DEF x
  <2> QED BY <1>1, <2>1
<1>5. ASSUME TakeLine PROVE inbox'.armed = inbox.armed /\ inbox'.prefix = inbox.prefix
  <2> DEFINE x == SubSeq(inbox.buf, LineEnd + 1, Len(inbox.buf))
  <2>1. inbox' = [inbox EXCEPT !.buf = x]
    BY <1>5 DEF TakeLine
  <2> HIDE DEF x
  <2> QED BY <1>1, <2>1
<1>6. TakeLine => reader.pc = "line" /\ conn' = conn /\ miner' = miner /\ cut' = cut
  BY DEF TakeLine
<1> QED BY <1>2, <1>3, <1>4, <1>5, <1>6

\* Every step keeps what is known of the end of the connection.
LEMMA EndInvNext ==
  ASSUME TypeInv, FrameInv, EndInv, [Next]_vars
  PROVE  EndInv'
<1>1. reader \in [pc : Pcs, type : Nat, need : Nat, why : Reasons]
      /\ inbox \in [socket : Seq(Nat), prefix : Seq(Nat), buf : Seq(Nat), armed : BOOLEAN]
  BY DEF TypeInv
<1>2. \/ reader.pc # "done"
      \/ Untouched
  BY DoneStays, Turns
<1>3. CASE Untouched
  BY <1>3 DEF Untouched, handlerVars, EndInv, Understood
\* Nothing that the invariant speaks of changes.
<1>4. ASSUME reader' = reader, inbox'.armed = inbox.armed, inbox'.prefix = inbox.prefix,
             handled' = handled, lines' = lines, conn' = conn, setupComplete' = setupComplete
      PROVE  EndInv'
  BY <1>4 DEF EndInv, Understood
\* The reader ends.
<1>5. ASSUME NEW why, End(why) PROVE EndInv'
  <2>1. reader'.pc = "done"
    BY <1>5, ReaderSteps
  <2> QED BY <2>1 DEF EndInv
\* A line is taken and the reader goes on.
<1>6. ASSUME TakeLine, reader' = reader, reader.pc # "done" PROVE EndInv'
  <2>1. reader.pc = "line" /\ conn' = conn
    BY <1>6, ReaderSteps
  <2>2. Understood => conn.proto = "v1"
    <3> SUFFICES ASSUME Understood PROVE conn.proto = "v1"
      OBVIOUS
    <3>1. PICK h, T, off, pos, e : Reading(h, T, off, pos, e)
      BY <1>6 DEF FrameInv
    <3>2. Place(h, off, pos)
      BY <3>1 DEF Reading
    <3> QED BY <2>1, <3>2 DEF Place
  <2> QED BY <1>6, <2>1, <2>2 DEF EndInv, Understood
<1>7. CASE SendMessage /\ UNCHANGED handlerVars
  BY <1>4, <1>7 DEF SendMessage, handlerVars
<1>8. CASE Deliver /\ UNCHANGED handlerVars
  <2>1. PICK x : inbox' = [inbox EXCEPT !.socket = x]
    BY <1>8 DEF Deliver
  <2>2. inbox'.armed = inbox.armed /\ inbox'.prefix = inbox.prefix
    BY <1>1, <2>1
  <2> QED BY <1>4, <1>8, <2>2 DEF Deliver, handlerVars
<1>9. CASE HangUp /\ UNCHANGED handlerVars
  BY <1>4, <1>9 DEF HangUp, handlerVars
<1>10. CASE Sniff /\ UNCHANGED handlerVars
  <2> DEFINE c == CanHandleFirstByte(Head(inbox.socket))
             y == Tail(inbox.socket)
             x == <<Head(inbox.socket)>>
  <2>1. /\ inbox' = [inbox EXCEPT !.socket = y, !.prefix = x, !.armed = ~c]
        /\ reader' = [reader EXCEPT !.pc = IF c THEN "header" ELSE "line"]
        /\ reader.pc = "sniff" /\ handled' = handled /\ conn' = conn
    BY <1>10, Zenon DEF Sniff, Armed
  <2> HIDE DEF c, y, x
  <2>2. inbox'.armed = ~c /\ reader'.pc = (IF c THEN "header" ELSE "line") /\ reader'.why = reader.why
    BY <1>1, <2>1
  <2>3. reader.why = "none" /\ handled = << >>
    BY <2>1 DEF EndInv
  <2>4. \A i \in 1 .. Len(handled') : handled'[i].type # sv2MsgSetupConnection
    BY <2>1, <2>3
  <2>5. reader'.pc \in {"header", "payload"} => ~inbox'.armed
    BY <2>2
  <2>6. reader'.pc # "sniff" /\ reader'.why = "none"
    BY <2>2, <2>3
  <2> QED BY <2>4, <2>5, <2>6 DEF EndInv
<1>11. CASE ReadTimeout /\ UNCHANGED handlerVars
  <2>1. CASE reader.pc # "line"
    BY <1>5, <1>11, <2>1 DEF ReadTimeout
  <2>2. CASE reader.pc = "line"
    <3>1. /\ inbox' = [inbox EXCEPT !.buf = << >>] /\ reader' = reader /\ handled' = handled
          /\ lines' = lines /\ conn' = conn
      BY <1>11, <2>2 DEF ReadTimeout
    <3>2. inbox'.armed = inbox.armed /\ inbox'.prefix = inbox.prefix
      BY <1>1, <3>1
    <3> QED BY <1>4, <1>11, <3>1, <3>2 DEF handlerVars
  <2> QED BY <2>1, <2>2
<1>12. CASE ReadEOF
  BY <1>5, <1>12 DEF ReadEOF
<1>13. CASE FillBuffer /\ UNCHANGED handlerVars
  <2>1. /\ reader' = reader /\ handled' = handled /\ lines' = lines /\ conn' = conn /\ reader.pc = "line"
        /\ setupComplete' = setupComplete
    BY <1>13 DEF FillBuffer, handlerVars
  <2>2. \/ inbox' = [inbox EXCEPT !.buf = @ \o inbox.prefix, !.prefix = << >>]
        \/ inbox' = [inbox EXCEPT !.buf = @ \o inbox.socket, !.socket = << >>]
    BY <1>13, Zenon DEF FillBuffer
  <2>3. inbox'.armed = inbox.armed
    BY <1>1, <2>2
  <2> QED BY <2>1, <2>3 DEF EndInv, Understood
<1>14. CASE StopOnCancel \/ RefuseLine
  <2>1. End("cancelled") \/ End("refused")
    BY <1>14, LineShape
  <2> QED BY <1>5, <2>1
<1>15. CASE SkipBlank /\ reader.pc # "done"
  <2>1. TakeLine /\ reader' = reader
    BY <1>15, LineShape
  <2> QED BY <1>6, <1>15, <2>1
<1>16. CASE (HandleSubscribe \/ HandleAuthorize \/ HandleSubmit \/ HandleUnknown) /\ reader.pc # "done"
  <2>1. TakeLine /\ (reader' = reader \/ End("write") \/ End("refused"))
    BY <1>16, LineShape DEF EventTaken, TakeEvent
  <2> QED BY <1>5, <1>6, <1>16, <2>1
<1>17. CASE ReadHeader
  <2> DEFINE t == FrameType(Available)
             l == FrameLength(Available)
  <2>1. /\ reader.pc = "header" /\ Consume(6) /\ handled' = handled /\ conn' = conn
        /\ setupComplete' = setupComplete
        /\ \/ End("refused")
           \/ reader' = [reader EXCEPT !.pc = "payload", !.type = t, !.need = l]
    BY <1>17, Zenon DEF ReadHeader, handlerVars
  <2> HIDE DEF t, l
  <2>2. inbox'.armed = inbox.armed
    BY <2>1, ReaderSteps
  <2>3. CASE reader' = [reader EXCEPT !.pc = "payload", !.type = t, !.need = l]
    <3>1. reader'.pc = "payload" /\ reader'.why = reader.why
      BY <1>1, <2>3
    <3> QED BY <2>1, <2>2, <3>1 DEF EndInv, Understood
  <2> QED BY <1>5, <2>1, <2>3
<1>18. CASE FrameActions
  <2>1. CASE End("write") \/ End("refused")
    BY <1>5, <2>1
  <2>2. CASE Continue
    <3>1. PICK types, body : FrameTaken(types, body)
      BY <1>18, FrameShape, Zenon DEF FrameActions
    <3>2. /\ reader.pc = "payload" /\ conn' = conn /\ Consume(reader.need) /\ reader.type \in types
      BY <3>1 DEF FrameTaken, TakeFrame
    <3>3. /\ inbox'.armed = inbox.armed /\ reader'.pc = "header" /\ reader'.why = reader.why
      BY <2>2, <3>2, ReaderSteps
    <3>4. ~inbox'.armed /\ reader'.why = "none"
      BY <3>2, <3>3 DEF EndInv
    <3>5. CASE SetupConnection
      <4>1. setupComplete'
        <5> DEFINE p == parseSV2SetupConnectionPayload(Payload)
        <5>1. CASE p.ok
          <6>1. setupComplete' = (setupComplete \/ reader'.pc = "header")
            BY <3>5, <5>1 DEF SetupConnection
          <6> QED BY <3>3, <6>1
        <5>2. CASE ~p.ok
          <6>1. End("refused")
            BY <3>5, <5>2 DEF SetupConnection, WriteAndEnd
          <6>2. reader'.pc = "done"
            BY <6>1, ReaderSteps
          <6> QED BY <3>3, <6>2
        <5> QED BY <5>1, <5>2
      <4> QED BY <3>3, <3>4, <4>1 DEF EndInv
    <3>6. CASE ~SetupConnection
      <4>1. PICK b : /\ handled' = Append(handled, [type |-> reader.type, body |-> b])
                     /\ reader.type # sv2MsgSetupConnection /\ setupComplete' = setupComplete
        <5>1. CASE RefuseChannel \/ OpenChannel
          <6>1. /\ TakeFrame({sv2MsgOpenStandardMiningChannel}) /\ setupComplete' = setupComplete
                /\ \E b : Handle(b)
            BY <5>1, Zenon DEF RefuseChannel, OpenChannel, handlerVars
          <6>2. reader.type = sv2MsgOpenStandardMiningChannel
            BY <6>1 DEF TakeFrame
          <6>3. reader.type # sv2MsgSetupConnection
            BY <6>2 DEF sv2MsgSetupConnection, sv2MsgOpenStandardMiningChannel
          <6> QED BY <6>1, <6>3, Zenon DEF Handle
        <5>2. CASE SubmitShare
          <6>1. /\ TakeFrame({sv2MsgSubmitSharesStandard}) /\ setupComplete' = setupComplete
                /\ \E b : Handle(b)
            BY <5>2, Zenon DEF SubmitShare, handlerVars
          <6>2. reader.type = sv2MsgSubmitSharesStandard
            BY <6>1 DEF TakeFrame
          <6>3. reader.type # sv2MsgSetupConnection
            BY <6>2 DEF sv2MsgSetupConnection, sv2MsgSubmitSharesStandard
          <6> QED BY <6>1, <6>3, Zenon DEF Handle
        <5>3. CASE IgnoreFrame
          <6>1. /\ setupComplete' = setupComplete /\ \E b : Handle(b)
            BY <5>3, Zenon DEF IgnoreFrame, handlerVars
          <6>2. reader.type \in 0 .. Base - 1 \ {sv2MsgSetupConnection, sv2MsgOpenStandardMiningChannel,
                                              sv2MsgSubmitSharesStandard}
            BY <5>3 DEF IgnoreFrame, TakeFrame
          <6>3. reader.type # sv2MsgSetupConnection
            BY <6>2
          <6> QED BY <6>1, <6>3 DEF Handle
        <5> QED BY <1>18, <3>6, <5>1, <5>2, <5>3 DEF FrameActions
      <4>2. ASSUME Understood, conn.proto = "v2", ~setupComplete
            PROVE  \A i \in 1 .. Len(handled') : handled'[i].type # sv2MsgSetupConnection
        <5>1. \A i \in 1 .. Len(handled) : handled[i].type # sv2MsgSetupConnection
          BY <3>2, <4>2 DEF EndInv
        <5>2. PICK S : handled \in Seq(S)
          BY <3>2, <4>2 DEF FrameInv, Calls, HandledOf
        <5> DEFINE x == [type |-> reader.type, body |-> b]
        <5>3. x.type # sv2MsgSetupConnection /\ handled' = Append(handled, x)
          BY <4>1
        <5> HIDE DEF x
        <5>4. handled \in Seq(S \union {x}) /\ x \in S \union {x}
          BY <5>2
        <5>5. /\ Len(handled) \in Nat /\ Len(handled') = Len(handled) + 1
              /\ \A i \in 1 .. Len(handled) : handled'[i] = handled[i]
              /\ handled'[Len(handled) + 1] = x
          BY <5>3, <5>4
        <5> QED BY <5>1, <5>3, <5>5
      <4>3. Understood' = Understood /\ conn'.proto = conn.proto
        BY <3>2 DEF Understood
      <4> QED BY <3>3, <3>4, <4>1, <4>2, <4>3 DEF EndInv
    <3> QED BY <3>5, <3>6
  <2> QED BY <1>18, <2>1, <2>2, FrameShape DEF FrameActions, FrameTaken, Answered
<1> QED BY <1>2, <1>3, <1>7, <1>8, <1>9, <1>10, <1>11, <1>12, <1>13, <1>14, <1>15, <1>16, <1>17, <1>18, Turns
     DEF ReaderTurn, ReaderNext, LineStep, FrameStep, FrameActions

\* A new connection has not ended.
LEMMA EndInvInit == Init => EndInv
<1> SUFFICES ASSUME Init PROVE EndInv
  OBVIOUS
<1>1. /\ reader.why = "none" /\ reader.pc \in {"line", "sniff"} /\ handled = << >>
      /\ inbox.prefix = << >> /\ lines = 0
  BY DEF Init, ReaderInit
<1>2. Len(handled) = 0
  BY <1>1
<1> QED BY <1>1, <1>2 DEF EndInv

Cause == \/ \E i \in 1 .. Len(miner.sent) : Faulty(i)
         \/ cut # {}
         \/ conn.proto = "v1" /\ ~conn.fallback

\* A line is refused for its fault or that of the deadline.
LEMMA LineRefused ==
  ASSUME TypeInv, NEW h, NEW T, NEW off, NEW pos, NEW e, Reading(h, T, off, pos, e), RefuseLine
  PROVE  Cause
<1> DEFINE m == miner.sent[h + 1]
           b == m.bytes
<1>1. TakeLine /\ (Len(RawLine) > MaxLine \/ (Line # << >> /\ Line \notin DOMAIN Events))
      /\ reader.pc = "line"
  BY DEF RefuseLine, TakeLine
<1>2. inbox.buf # << >> /\ (h + 1 \notin cut => RawLine = b)
  BY <1>1, LineIs
<1>3. h < Len(miner.sent) /\ V1Message(m)
  BY <1>1, <1>2, LineAhead
<1>4. h \in Nat /\ Len(miner.sent) \in Nat
  BY ReadingFacts, FieldTypes
<1>5. CASE h + 1 \in cut
  BY <1>5 DEF Cause
<1>6. CASE h + 1 \notin cut
  <2>1. m.good => Len(b) <= MaxLine /\ LineText(b) \in {<< >>} \union DOMAIN Events
    BY <1>3, Zenon DEF V1Message
  <2>2. b \in Seq(Nat)
    BY <1>3, Zenon DEF V1Message
  <2>3. Len(b) \in Nat
    BY <2>2, LenProperties
  <2>4. ~m.good
    <3>1. Line = LineText(b) /\ RawLine = b
      BY <1>2, <1>6 DEF Line
    <3> QED BY <1>1, <2>1, <2>3, <3>1, MaxLineAssumption
  <2>5. h + 1 \in 1 .. Len(miner.sent)
    BY <1>3, <1>4
  <2> QED BY <2>4, <2>5 DEF Cause, Faulty
<1> QED BY <1>5, <1>6

\* An identity is refused that stands for no wallet.
LEMMA AuthorizeRefused ==
  ASSUME IdentitiesRead, TypeInv, NEW h, NEW T, NEW off, NEW pos, NEW e, Reading(h, T, off, pos, e),
         HandleAuthorize, reader'.why = "refused", reader.why = "none"
  PROVE  Cause
<1> DEFINE m == miner.sent[h + 1]
           id == IF Event.params = << >> THEN << >> ELSE Event.params[1]
<1>1. TakeEvent /\ Event.method = "mining.authorize"
  BY DEF HandleAuthorize
<1>2. ParseAuthorizeIdentity(id).wallet = None
  <2> SUFFICES ASSUME ParseAuthorizeIdentity(id).wallet # None PROVE FALSE
    OBVIOUS
  <2>1. reader' = reader \/ End("write")
    BY Zenon DEF HandleAuthorize
  <2>2. End("write") => reader'.why = "write"
    BY ReaderSteps
  <2> QED BY <2>1, <2>2
<1>3. /\ h < Len(miner.sent) /\ m \in Messages("v1") /\ ~m.blank /\ Event = m.means
  BY <1>1, EventIs
<1>4. h \in Nat /\ Len(miner.sent) \in Nat
  BY ReadingFacts, FieldTypes
<1>5. ~m.good
  <2> SUFFICES ASSUME m.good PROVE FALSE
    OBVIOUS
  <2>1. Event.params # << >> /\ Event.params[1] \in DOMAIN WalletOf
    BY <1>1, <1>3, IdentitiesAssumption
  <2>2. id \in DOMAIN WalletOf
    BY <2>1
  <2> HIDE DEF id
  <2> QED BY <1>2, <2>2 DEF IdentitiesRead
<1>6. h + 1 \in 1 .. Len(miner.sent)
  BY <1>3, <1>4
<1> QED BY <1>5, <1>6 DEF Cause, Faulty

\* A frame is refused for its fault, or because the setup has not come yet.
LEMMA FrameRefused ==
  ASSUME IdentitiesRead, TypeInv, EndInv, NEW h, NEW T, NEW off, NEW pos, NEW e,
         Reading(h, T, off, pos, e), Calls(h), FrameActions, reader'.why = "refused"
  PROVE  Cause
<1> DEFINE m == miner.sent[h + 1]
           P == Payload
           t == reader.type
<1>1. PICK types, body : /\ FrameTaken(types, body)
                         /\ m.means = [type |-> t, body |-> body]
  BY FrameActionShape
<1>2. reader.pc = "payload" /\ Len(Available) >= reader.need
  BY <1>1 DEF FrameTaken, TakeFrame
<1>3. /\ h < Len(miner.sent) /\ m \in Messages("v2") /\ V2Message(m) /\ conn.proto = "v2"
      /\ P \in Seq(Byte)
  BY <1>2, FrameMeans
<1>4. h \in Nat /\ Len(miner.sent) \in Nat
  BY ReadingFacts, FieldTypes
<1>5. h + 1 \in 1 .. Len(miner.sent) /\ (h + 1) - 1 = h
  BY <1>3, <1>4
<1>6. m.good => m.means.body.ok
  BY <1>3, Zenon DEF V2Message
<1>7. m.means.type = t /\ m.means.body = body
  BY <1>1
<1>8. SUFFICES ASSUME m.good PROVE Faulty(h + 1)
  BY <1>5 DEF Cause, Faulty
<1>9. body.ok
  BY <1>6, <1>7, <1>8
<1>10. reader.why = "none"
  BY <1>2 DEF EndInv
<1>11. ~Continue /\ ~End("write")
  BY <1>10, ReaderSteps
<1>12. handled' = Append(handled, [type |-> t, body |-> body])
  BY <1>1 DEF FrameTaken, Handle
<1>13. PICK S : handled \in Seq(S)
  BY DEF Calls, HandledOf
<1>14. ASSUME NEW b, Handle(b) PROVE b = body
  <2> DEFINE x == [type |-> t, body |-> body]
             y == [type |-> t, body |-> b]
  <2>1. Append(handled, x) = Append(handled, y)
    BY <1>12, <1>14 DEF Handle
  <2>2. Append(handled, x)[Len(handled) + 1] = x /\ Append(handled, y)[Len(handled) + 1] = y
    <3> HIDE DEF x, y
    <3>1. handled \in Seq(S \union {x, y}) /\ x \in S \union {x, y} /\ y \in S \union {x, y}
      BY <1>13
    <3> QED BY <3>1
  <2>3. x = y
    BY <2>1, <2>2
  <2>4. x.body = body /\ y.body = b
    OBVIOUS
  <2> HIDE DEF x, y
  <2> QED BY <2>3, <2>4
<1>15. CASE SetupConnection
  <2> DEFINE p == parseSV2SetupConnectionPayload(P)
  <2>1. Handle(p) /\ (p.ok => Continue \/ End("write"))
    BY <1>15, Zenon DEF SetupConnection, Write
  <2>2. p = body
    BY <1>14, <2>1
  <2> QED BY <1>9, <1>11, <2>1, <2>2
<1>16. CASE SubmitShare
  <2> DEFINE p == parseSV2SubmitSharePayload(P)
  <2>1. Handle(p) /\ (p.ok => Continue \/ End("write"))
    BY <1>16, Zenon DEF SubmitShare, Write
  <2>2. p = body
    BY <1>14, <2>1
  <2> QED BY <1>9, <1>11, <2>1, <2>2
<1>17. CASE OpenChannel
  <2>1. Continue \/ End("write")
    BY <1>17, Zenon DEF OpenChannel, Write
  <2> QED BY <1>11, <2>1
<1>18. CASE IgnoreFrame
  BY <1>11, <1>18 DEF IgnoreFrame
<1>19. CASE RefuseChannel
  <2> DEFINE p == parseSV2OpenStandardChannelPayload(P)
  <2>1. t = sv2MsgOpenStandardMiningChannel /\ OpenRefusal(p) # "none"
    BY <1>19 DEF RefuseChannel, TakeFrame
  <2>2. body = OpenBody(P)
    <3>1. Handle(OpenBody(P))
      BY <1>19, FrameShape DEF FrameTaken
    <3> QED BY <1>14, <3>1
  <2>3. p = body /\ p.ok
    <3>1. /\ OpenBody(P) = OpenMeans(P) /\ p.ok = OpenMeans(P).ok
          /\ OpenMeans(P).ok => p = OpenMeans(P)
      BY <1>3, OpenParsed
    <3> QED BY <1>9, <2>2, <3>1
  <2>4. ParseAuthorizeIdentity(p.identity).wallet # None
    <3>1. p.identity \in DOMAIN WalletOf
      BY <1>3, <1>7, <1>8, <2>1, <2>3, IdentitiesAssumption
    <3> HIDE DEF p
    <3> QED BY <3>1 DEF IdentitiesRead
  <2>5. ~setupComplete
    BY <2>1, <2>3, <2>4 DEF OpenRefusal
  <2>6. \A i \in 1 .. Len(handled) : handled[i].type # sv2MsgSetupConnection
    BY <1>2, <1>3, <2>5 DEF EndInv, Understood
  <2>7. Len(handled) = h /\ \A i \in 1 .. h : handled[i] = miner.sent[i].means
    <3> DEFINE M == Messages(conn.proto)
    <3>1. cut = {}
      BY <1>2, FrameFlow
    <3>2. HandledOf(M, h, miner.sent, cut, handled)
      BY DEF Calls
    <3>3. NoBlanks(M)
      BY <1>3, V2MessagesAssumption, Zenon DEF V2Message, NoBlanks
    <3> DEFINE q == cut
               s == miner.sent
               d == handled
    <3>4. q = {} /\ HandledOf(M, h, s, q, d)
      BY <3>1, <3>2
    <3> HIDE DEF M, q, s, d
    <3>5. Len(d) = h /\ \A i \in 1 .. h : d[i] = s[i].means
      BY <3>3, <3>4, V2Handled
    <3> QED BY <3>5 DEF s, d
  <2>8. \A j \in 1 .. (h + 1) - 1 : miner.sent[j].means.type # sv2MsgSetupConnection
    BY <1>5, <2>6, <2>7
  <2> QED BY <1>3, <1>7, <2>1, <2>8 DEF Faulty
<1> QED BY <1>15, <1>16, <1>17, <1>18, <1>19 DEF FrameActions

\* No step drops a miner without a cause.
LEMMA GoodNext ==
  ASSUME IdentitiesRead, TypeInv, FrameInv, EndInv, GoodMinersStayConnected, [Next]_vars
  PROVE  GoodMinersStayConnected'
<1>1. CASE Untouched
  <2>1. /\ conn' = conn /\ miner' = miner /\ inbox' = inbox /\ reader' = reader /\ handled' = handled
        /\ lines' = lines /\ cut' = cut
    BY <1>1 DEF Untouched
  <2>2. \A i : Faulty(i)' = Faulty(i)
    BY <2>1 DEF Faulty
  <2> QED BY <2>1, <2>2 DEF GoodMinersStayConnected
<1>2. SUFFICES ASSUME ReaderTurn PROVE GoodMinersStayConnected'
  BY <1>1, Turns
<1>3. reader.pc # "done" /\ reader.why = "none"
  BY <1>2, DoneStays DEF EndInv
<1>4. reader \in [pc : Pcs, type : Nat, need : Nat, why : Reasons]
  BY DEF TypeInv
<1>5. ASSUME reader'.why \notin {"refused", "deadline"} PROVE GoodMinersStayConnected'
  BY <1>5 DEF GoodMinersStayConnected
<1>6. ASSUME Understood => Cause, conn' = conn, miner' = miner, cut' = cut, reader'.why # "deadline"
      PROVE  GoodMinersStayConnected'
  <2>1. Cause
    <3>1. ~Understood => conn.proto = "v1" /\ ~conn.fallback
      <4>1. conn.proto \in {"v1", "v2"}
        BY FieldTypes
      <4> QED BY <4>1 DEF Understood
    <3> QED BY <1>6, <3>1 DEF Cause
  <2>2. \A i : Faulty(i)' = Faulty(i)
    BY <1>6 DEF Faulty
  <2> QED BY <1>6, <2>1, <2>2 DEF GoodMinersStayConnected, Cause
<1>7. Understood => \E h, T, off, pos, e : Calls(h) /\ Reading(h, T, off, pos, e)
  BY <1>3 DEF FrameInv
<1>8. CASE SendMessage \/ Deliver \/ HangUp \/ FillBuffer
  <2>1. reader' = reader
    BY <1>8 DEF SendMessage, Deliver, HangUp, FillBuffer
  <2> QED BY <1>3, <1>5, <2>1
<1>9. CASE Sniff
  <2>1. PICK c : reader' = [reader EXCEPT !.pc = c]
    BY <1>9, Zenon DEF Sniff
  <2>2. reader'.why = reader.why
    BY <1>4, <2>1
  <2> QED BY <1>3, <1>5, <2>2
<1>10. CASE ReadTimeout
  <2>1. CASE reader.pc = "line"
    <3>1. reader' = reader
      BY <1>10, <2>1 DEF ReadTimeout
    <3> QED BY <1>3, <1>5, <3>1
  <2>2. CASE reader.pc # "line"
    <3>1. inbox.armed /\ End("deadline") /\ inbox' = inbox /\ handled' = handled /\ lines' = lines
      BY <1>10, <2>2 DEF ReadTimeout
    <3>2. reader.pc = "sniff"
      BY <1>3, <1>4, <2>2, <3>1 DEF EndInv, Pcs
    <3>3. handled' = << >> /\ inbox'.prefix = << >> /\ lines' = 0
      BY <3>1, <3>2 DEF EndInv
    <3>4. reader'.why = "deadline"
      BY <3>1, ReaderSteps
    <3> QED BY <3>3, <3>4 DEF GoodMinersStayConnected
  <2> QED BY <2>1, <2>2
<1>11. CASE ReadEOF
  <2>1. End("eof")
    BY <1>11 DEF ReadEOF
  <2>2. reader'.why = "eof"
    BY <2>1, ReaderSteps
  <2> QED BY <1>5, <2>2
<1>12. CASE StopOnCancel
  <2>1. End("cancelled")
    BY <1>12, LineShape
  <2>2. reader'.why = "cancelled"
    BY <2>1, ReaderSteps
  <2> QED BY <1>5, <2>2
<1>13. CASE RefuseLine
  <2>1. TakeLine /\ End("refused")
    BY <1>13, LineShape
  <2>2. reader'.why = "refused" /\ conn' = conn /\ miner' = miner /\ cut' = cut
    BY <2>1, ReaderSteps
  <2>3. Understood => Cause
    BY <1>7, <1>13, LineRefused
  <2> QED BY <1>6, <2>2, <2>3
<1>14. CASE SkipBlank
  <2>1. reader' = reader
    BY <1>14, LineShape
  <2> QED BY <1>3, <1>5, <2>1
<1>15. CASE HandleSubscribe \/ HandleSubmit \/ HandleUnknown
  <2>1. reader' = reader \/ End("write")
    BY <1>15, Zenon DEF HandleSubscribe, HandleSubmit, HandleUnknown
  <2>2. reader' = reader \/ reader'.why = "write"
    BY <2>1, ReaderSteps
  <2> QED BY <1>3, <1>5, <2>2
<1>16. CASE HandleAuthorize
  <2>1. TakeLine /\ (reader' = reader \/ End("write") \/ End("refused"))
    BY <1>16, LineShape DEF EventTaken, TakeEvent
  <2>2. conn' = conn /\ miner' = miner /\ cut' = cut
    BY <2>1, ReaderSteps
  <2>3. reader'.why \in {"none", "write", "refused"}
    BY <1>3, <2>1, ReaderSteps
  <2>4. CASE reader'.why = "refused"
    <3>1. Understood => Cause
      BY <1>3, <1>7, <1>16, <2>4, AuthorizeRefused
    <3> QED BY <1>6, <2>2, <2>4, <3>1
  <2> QED BY <1>5, <2>3, <2>4
<1>17. CASE ReadHeader
  <2> DEFINE x == FrameType(Available)
             y == FrameLength(Available)
  <2>1. /\ conn' = conn /\ miner' = miner /\ cut' = cut
        /\ \/ End("refused")
           \/ reader' = [reader EXCEPT !.pc = "payload", !.type = x, !.need = y]
    BY <1>17, Zenon DEF ReadHeader
  <2> HIDE DEF x, y
  <2>2. CASE reader' = [reader EXCEPT !.pc = "payload", !.type = x, !.need = y]
    <3>1. reader'.why = reader.why
      BY <1>4, <2>2
    <3> QED BY <1>3, <1>5, <3>1
  <2>3. CASE End("refused")
    <3>1. reader'.why = "refused" /\ reader'.pc = "done"
      BY <2>3, ReaderSteps
    <3>2. ASSUME Understood PROVE Cause
      <4>1. PICK h, T, off, pos, e : Calls(h) /\ Reading(h, T, off, pos, e)
        BY <1>7, <3>2
      <4> DEFINE m == miner.sent[h + 1]
      <4>2. /\ h < Len(miner.sent) /\ conn.proto = "v2"
            /\ (~(U24At(m.bytes, 4) <= MaxFramePayload) \/ reader'.pc # "done")
        BY <1>17, <4>1, HeaderReads
      <4>3. h \in Nat /\ Len(miner.sent) \in Nat /\ miner.sent \in Seq(Messages(conn.proto))
        BY <4>1, ReadingFacts, FieldTypes
      <4>4. h + 1 \in 1 .. Len(miner.sent)
        BY <4>2, <4>3
      <4>5. m \in Messages("v2")
        BY <4>2, <4>3, <4>4
      <4>6. ~(U24At(m.bytes, 4) <= MaxFramePayload)
        BY <3>1, <4>2
      <4>7. ~m.good
        <5>1. m.good => U24At(m.bytes, 4) <= MaxFramePayload
          BY <4>5, V2MessagesAssumption, Zenon DEF V2Message
        <5> QED BY <4>6, <5>1
      <4> QED BY <4>4, <4>7 DEF Cause, Faulty
    <3> QED BY <1>6, <2>1, <3>1, <3>2
  <2> QED BY <2>1, <2>2, <2>3
<1>18. CASE FrameActions
  <2>1. PICK types, body : FrameTaken(types, body)
    BY <1>18, FrameShape, Zenon DEF FrameActions
  <2>2. conn' = conn /\ miner' = miner /\ cut' = cut /\ (Continue \/ End("write") \/ End("refused"))
    BY <2>1 DEF FrameTaken, TakeFrame, Answered
  <2>3. reader'.why \in {"none", "write", "refused"}
    BY <1>3, <2>2, ReaderSteps
  <2>4. CASE reader'.why = "refused"
    <3>1. Understood => Cause
      BY <1>7, <1>18, <2>4, FrameRefused
    <3> QED BY <1>6, <2>2, <2>4, <3>1
  <2> QED BY <1>5, <2>3, <2>4
<1> QED BY <1>2, <1>8, <1>9, <1>10, <1>11, <1>12, <1>13, <1>14, <1>15, <1>16, <1>17, <1>18
     DEF ReaderTurn, ReaderNext, LineStep, FrameStep, FrameActions

\* The bridge drops a miner only for cause, on every port and with every protocol:
\* for a faulty message, a line that stalled for a deadline or the wrong protocol
\* for a strict port; and silence ends a connection only before its first byte.
THEOREM MinersAreDroppedForCause ==
  ASSUME IdentitiesRead
  PROVE  Spec => []GoodMinersStayConnected
<1>1. Init => EndInv /\ GoodMinersStayConnected
  <2> SUFFICES ASSUME Init PROVE EndInv /\ GoodMinersStayConnected
    OBVIOUS
  <2>1. reader.why = "none"
    BY DEF Init, ReaderInit
  <2> QED BY <2>1, EndInvInit DEF GoodMinersStayConnected
<1>2. /\ TypeInv /\ FrameInv /\ EndInv /\ GoodMinersStayConnected /\ [Next]_vars
      => (EndInv /\ GoodMinersStayConnected)'
  BY EndInvNext, GoodNext
<1> QED BY <1>1, <1>2, FramesInvariant, PTL DEF Spec

----------------------------------------------------------------------------
(* Numbers and their bytes                                                  *)

\* The recursion of Values.
LEMMA ValuesIs ==
  ASSUME NEW n \in Nat
  PROVE  \E f \in [0 .. n -> Nat] :
           /\ f[0] = 1 /\ \A i \in 1 .. n : f[i] = Base * f[i - 1]
           /\ Values(n) = f[n]
<1> DEFINE F(p) == [i \in 0 .. n |-> IF i = 0 THEN 1 ELSE Base * p[i - 1]]
           G == [t \in (1 .. n) \X Nat |-> Base * t[2]]
<1>1. n \in Nat /\ 1 \in Nat /\ Base \in Nat /\ Base > 0
  BY BaseAssumption
<1>2. ASSUME NEW i \in 1 .. n, NEW c \in Nat
      PROVE  G[<<i, c>>] = Base * c /\ (Base * c) \in Nat
  <2>1. <<i, c>> \in (1 .. n) \X Nat
    OBVIOUS
  <2>2. G[<<i, c>>] = Base * c
    BY <2>1
  <2>3. (Base * c) \in Nat
    BY <1>1
  <2> QED BY <2>2, <2>3
<1>3. G \in [(1 .. n) \X Nat -> Nat]
  <2>1. ASSUME NEW t \in (1 .. n) \X Nat PROVE (Base * t[2]) \in Nat
    <3>1. PICK i \in 1 .. n, c \in Nat : t = <<i, c>>
      OBVIOUS
    <3>2. t[1] = i /\ t[2] = c
      BY <3>1
    <3> QED BY <1>2, <3>2
  <2> QED BY <2>1
<1> HIDE DEF G
<1>4. PICK f : Iterates(f, n, Nat, 1, G)
  <2> DEFINE x == 1
  <2>1. x \in Nat /\ n \in Nat
    BY <1>1
  <2> HIDE DEF x
  <2>2. \E f : Iterates(f, n, Nat, x, G)
    BY <1>3, <2>1, IterationExists
  <2> QED BY <2>2 DEF x
<1>5. /\ f \in [0 .. n -> Nat] /\ f[0] = 1
      /\ \A i \in 1 .. n : f[i] = G[<<i, f[i - 1]>>]
  BY <1>4 DEF Iterates
<1>6. \A i \in 1 .. n : f[i] = Base * f[i - 1]
  <2> SUFFICES ASSUME NEW i \in 1 .. n PROVE f[i] = Base * f[i - 1]
    OBVIOUS
  <2>1. i - 1 \in 0 .. n
    BY <1>1
  <2>2. f[i - 1] \in Nat
    BY <1>5, <2>1
  <2> QED BY <1>2, <1>5, <2>2
<1>7. f = F(f)
  <2>1. \A i \in 0 .. n : f[i] = F(f)[i]
    <3> SUFFICES ASSUME NEW i \in 0 .. n PROVE f[i] = F(f)[i]
      OBVIOUS
    <3>1. i = 0 \/ i \in 1 .. n
      OBVIOUS
    <3>2. i \in 1 .. n => i # 0
      OBVIOUS
    <3> QED BY <1>5, <1>6, <3>1, <3>2
  <2> QED BY <1>5, <2>1
<1> DEFINE q == CHOOSE p : p = F(p)
<1>8. q = F(q)
  <2> HIDE DEF F
  <2> QED BY <1>7
<1>9. Values(n) = q[n]
  BY Zenon DEF Values
<1> HIDE DEF q
<1>10. \A i \in 0 .. n : q[i] = IF i = 0 THEN 1 ELSE Base * q[i - 1]
  BY <1>8
<1>11. q[0] = 1 /\ \A i \in 1 .. n : q[i] = Base * q[i - 1]
  <2>1. 0 \in 0 .. n /\ \A i \in 1 .. n : i \in 0 .. n /\ i # 0
    BY <1>1
  <2> HIDE DEF F
  <2> QED BY <1>10, <2>1
<1>12. \A i \in 0 .. n : q[i] = f[i]
  <2>1. StepsAgree(q, f, n)
    BY <1>5, <1>6, <1>11 DEF StepsAgree
  <2>2. n \in Nat
    BY <1>1
  <2> QED BY <2>1, <2>2, IterationsAgree
<1>13. Values(n) = f[n]
  BY <1>1, <1>9, <1>12
<1> QED BY <1>5, <1>6, <1>13

\* The recursion of LittleEndian.
LEMMA LittleEndianIs ==
  ASSUME NEW n \in Nat, NEW x \in Nat
  PROVE  \E f \in [0 .. n -> Nat] :
           /\ f[0] = x /\ \A i \in 1 .. n : f[i] = f[i - 1] \div Base
           /\ LittleEndian(x, n) = [i \in 1 .. n |-> f[i - 1] % Base]
<1> DEFINE F(p) == [i \in 0 .. n |-> IF i = 0 THEN x ELSE p[i - 1] \div Base]
           G == [t \in (1 .. n) \X Nat |-> t[2] \div Base]
<1>1. n \in Nat /\ x \in Nat /\ Base \in Nat /\ Base > 0
  BY BaseAssumption
<1>2. ASSUME NEW i \in 1 .. n, NEW c \in Nat
      PROVE  G[<<i, c>>] = c \div Base /\ (c \div Base) \in Nat
  <2>1. <<i, c>> \in (1 .. n) \X Nat
    OBVIOUS
  <2>2. G[<<i, c>>] = c \div Base
    BY <2>1
  <2>3. (c \div Base) \in Nat
    BY <1>1
  <2> QED BY <2>2, <2>3
<1>3. G \in [(1 .. n) \X Nat -> Nat]
  <2>1. ASSUME NEW t \in (1 .. n) \X Nat PROVE (t[2] \div Base) \in Nat
    <3>1. PICK i \in 1 .. n, c \in Nat : t = <<i, c>>
      OBVIOUS
    <3>2. t[1] = i /\ t[2] = c
      BY <3>1
    <3> QED BY <1>2, <3>2
  <2> QED BY <2>1
<1> HIDE DEF G
<1>4. PICK f : Iterates(f, n, Nat, x, G)
  BY <1>1, <1>3, IterationExists
<1>5. /\ f \in [0 .. n -> Nat] /\ f[0] = x
      /\ \A i \in 1 .. n : f[i] = G[<<i, f[i - 1]>>]
  BY <1>4 DEF Iterates
<1>6. \A i \in 1 .. n : f[i] = f[i - 1] \div Base
  <2> SUFFICES ASSUME NEW i \in 1 .. n PROVE f[i] = f[i - 1] \div Base
    OBVIOUS
  <2>1. i - 1 \in 0 .. n
    BY <1>1
  <2>2. f[i - 1] \in Nat
    BY <1>5, <2>1
  <2> QED BY <1>2, <1>5, <2>2
<1>7. f = F(f)
  <2>1. \A i \in 0 .. n : f[i] = F(f)[i]
    <3> SUFFICES ASSUME NEW i \in 0 .. n PROVE f[i] = F(f)[i]
      OBVIOUS
    <3>1. i = 0 \/ i \in 1 .. n
      OBVIOUS
    <3>2. i \in 1 .. n => i # 0
      OBVIOUS
    <3> QED BY <1>5, <1>6, <3>1, <3>2
  <2> QED BY <1>5, <2>1
<1> DEFINE q == CHOOSE p : p = F(p)
<1>8. q = F(q)
  <2> HIDE DEF F
  <2> QED BY <1>7
<1>9. LittleEndian(x, n) = [i \in 1 .. n |-> q[i - 1] % Base]
  BY Zenon DEF LittleEndian
<1> HIDE DEF q
<1>10. \A i \in 0 .. n : q[i] = IF i = 0 THEN x ELSE q[i - 1] \div Base
  BY <1>8
<1>11. q[0] = x /\ \A i \in 1 .. n : q[i] = q[i - 1] \div Base
  <2>1. 0 \in 0 .. n /\ \A i \in 1 .. n : i \in 0 .. n /\ i # 0
    BY <1>1
  <2> HIDE DEF F
  <2> QED BY <1>10, <2>1
<1>12. \A i \in 0 .. n : q[i] = f[i]
  <2>1. StepsAgree(q, f, n)
    BY <1>5, <1>6, <1>11 DEF StepsAgree
  <2>2. n \in Nat
    BY <1>1
  <2> QED BY <2>1, <2>2, IterationsAgree
<1>13. LittleEndian(x, n) = [i \in 1 .. n |-> f[i - 1] % Base]
  <2>1. \A i \in 1 .. n : q[i - 1] = f[i - 1]
    <3>1. \A i \in 1 .. n : i - 1 \in 0 .. n
      BY <1>1
    <3> QED BY <1>12, <3>1
  <2> QED BY <1>9, <2>1
<1> QED BY <1>5, <1>6, <1>13

\* The recursion of NumberAt.
LEMMA NumberAtIs ==
  ASSUME NEW n \in Nat, NEW b, NEW a \in Nat,
         \A i \in 1 .. n : b[a + n - i] \in Nat
  PROVE  \E f \in [0 .. n -> Nat] :
           /\ f[0] = 0 /\ \A i \in 1 .. n : f[i] = b[a + n - i] + Base * f[i - 1]
           /\ NumberAt(b, a, n) = f[n]
<1> DEFINE F(p) == [i \in 0 .. n |-> IF i = 0 THEN 0 ELSE b[a + n - i] + Base * p[i - 1]]
           G == [t \in (1 .. n) \X Nat |-> b[a + n - t[1]] + Base * t[2]]
<1>1. n \in Nat /\ 0 \in Nat /\ Base \in Nat /\ Base > 0
  BY BaseAssumption
<1>2. ASSUME NEW i \in 1 .. n, NEW c \in Nat
      PROVE  G[<<i, c>>] = b[a + n - i] + Base * c /\ (b[a + n - i] + Base * c) \in Nat
  <2>1. <<i, c>> \in (1 .. n) \X Nat
    OBVIOUS
  <2>2. G[<<i, c>>] = b[a + n - i] + Base * c
    BY <2>1
  <2>3. (b[a + n - i] + Base * c) \in Nat
    BY <1>1
  <2> QED BY <2>2, <2>3
<1>3. G \in [(1 .. n) \X Nat -> Nat]
  <2>1. ASSUME NEW t \in (1 .. n) \X Nat PROVE (b[a + n - t[1]] + Base * t[2]) \in Nat
    <3>1. PICK i \in 1 .. n, c \in Nat : t = <<i, c>>
      OBVIOUS
    <3>2. t[1] = i /\ t[2] = c
      BY <3>1
    <3> QED BY <1>2, <3>2
  <2> QED BY <2>1
<1> HIDE DEF G
<1>4. PICK f : Iterates(f, n, Nat, 0, G)
  <2> DEFINE x == 0
  <2>1. x \in Nat /\ n \in Nat
    BY <1>1
  <2> HIDE DEF x
  <2>2. \E f : Iterates(f, n, Nat, x, G)
    BY <1>3, <2>1, IterationExists
  <2> QED BY <2>2 DEF x
<1>5. /\ f \in [0 .. n -> Nat] /\ f[0] = 0
      /\ \A i \in 1 .. n : f[i] = G[<<i, f[i - 1]>>]
  BY <1>4 DEF Iterates
<1>6. \A i \in 1 .. n : f[i] = b[a + n - i] + Base * f[i - 1]
  <2> SUFFICES ASSUME NEW i \in 1 .. n PROVE f[i] = b[a + n - i] + Base * f[i - 1]
    OBVIOUS
  <2>1. i - 1 \in 0 .. n
    BY <1>1
  <2>2. f[i - 1] \in Nat
    BY <1>5, <2>1
  <2> QED BY <1>2, <1>5, <2>2
<1>7. f = F(f)
  <2>1. \A i \in 0 .. n : f[i] = F(f)[i]
    <3> SUFFICES ASSUME NEW i \in 0 .. n PROVE f[i] = F(f)[i]
      OBVIOUS
    <3>1. i = 0 \/ i \in 1 .. n
      OBVIOUS
    <3>2. i \in 1 .. n => i # 0
      OBVIOUS
    <3> QED BY <1>5, <1>6, <3>1, <3>2
  <2> QED BY <1>5, <2>1
<1> DEFINE q == CHOOSE p : p = F(p)
<1>8. q = F(q)
  <2> HIDE DEF F
  <2> QED BY <1>7
<1>9. NumberAt(b, a, n) = q[n]
  BY Zenon DEF NumberAt
<1> HIDE DEF q
<1>10. \A i \in 0 .. n : q[i] = IF i = 0 THEN 0 ELSE b[a + n - i] + Base * q[i - 1]
  BY <1>8
<1>11. q[0] = 0 /\ \A i \in 1 .. n : q[i] = b[a + n - i] + Base * q[i - 1]
  <2>1. 0 \in 0 .. n /\ \A i \in 1 .. n : i \in 0 .. n /\ i # 0
    BY <1>1
  <2> HIDE DEF F
  <2> QED BY <1>10, <2>1
<1>12. \A i \in 0 .. n : q[i] = f[i]
  <2>1. StepsAgree(q, f, n)
    BY <1>5, <1>6, <1>11 DEF StepsAgree
  <2>2. n \in Nat
    BY <1>1
  <2> QED BY <2>1, <2>2, IterationsAgree
<1>13. NumberAt(b, a, n) = f[n]
  BY <1>1, <1>9, <1>12
<1> QED BY <1>5, <1>6, <1>13

\* Division by the base.
LEMMA Digits ==
  ASSUME NEW n \in Nat
  PROVE  /\ n % Base \in Byte /\ n % Base \in Nat /\ n \div Base \in Nat
         /\ n = (n % Base) + Base * (n \div Base)
         /\ n < Base => n % Base = n
         /\ \A k \in Nat : n < Base * k => n \div Base < k
  BY BaseAssumption DEF Byte

\* What three and four bytes can say.
LEMMA WideValues ==
  /\ Values(3) = Base * (Base * Base) /\ Values(3) \in Nat
  /\ Values(4) = Base * (Base * (Base * Base)) /\ Values(4) \in Nat
<1>1. \A n \in Nat : \E f \in [0 .. n -> Nat] :
        f[0] = 1 /\ (\A i \in 1 .. n : f[i] = Base * f[i - 1]) /\ Values(n) = f[n]
  BY ValuesIs
<1>2. Base \in Nat
  BY BaseAssumption
<1>3. Values(3) = Base * (Base * Base)
  <2>1. PICK f \in [0 .. 3 -> Nat] :
          f[0] = 1 /\ (\A i \in 1 .. 3 : f[i] = Base * f[i - 1]) /\ Values(3) = f[3]
    BY <1>1
  <2>2. f[1] = Base * f[0] /\ f[2] = Base * f[1] /\ f[3] = Base * f[2]
    BY <2>1
  <2>3. f[1] = Base
    BY <1>2, <2>1, <2>2
  <2> QED BY <2>1, <2>2, <2>3
<1>4. Values(4) = Base * (Base * (Base * Base))
  <2>1. PICK f \in [0 .. 4 -> Nat] :
          f[0] = 1 /\ (\A i \in 1 .. 4 : f[i] = Base * f[i - 1]) /\ Values(4) = f[4]
    BY <1>1
  <2>2. f[1] = Base * f[0] /\ f[2] = Base * f[1] /\ f[3] = Base * f[2] /\ f[4] = Base * f[3]
    BY <2>1
  <2>3. f[1] = Base
    BY <1>2, <2>1, <2>2
  <2> QED BY <2>1, <2>2, <2>3
<1> DEFINE x == Base * Base
           y == Base * x
<1>5. x \in Nat
  BY <1>2
<1>6. y \in Nat
  <2> HIDE DEF x
  <2> QED BY <1>2, <1>5
<1>7. Base * y \in Nat
  <2> HIDE DEF y
  <2> QED BY <1>2, <1>6
<1> QED BY <1>3, <1>4, <1>6, <1>7

\* A length of three bytes is read as it was written.
LEMMA U24Read ==
  ASSUME NEW n \in Nat, n < Values(3)
  PROVE  LET u == U24(n)
         IN  /\ u \in Seq(Nat) /\ Len(u) = 3
             /\ u[1] + Base * (u[2] + Base * u[3]) = n
<1> DEFINE q == n \div Base
           r == q \div Base
<1>0. Base \in Nat
  BY BaseAssumption
<1>1. /\ n % Base \in Nat /\ q \in Nat /\ n = (n % Base) + Base * q
      /\ \A k \in Nat : n < Base * k => q < k
  BY Digits
<1> HIDE DEF q
<1>2. /\ q % Base \in Nat /\ r \in Nat /\ q = (q % Base) + Base * r
      /\ \A k \in Nat : q < Base * k => r < k
  BY <1>1, Digits
<1> HIDE DEF r
<1>3. r % Base \in Nat /\ (r < Base => r % Base = r)
  BY <1>2, Digits
<1>4. q < Base * Base
  <2> DEFINE k == Base * Base
  <2>1. k \in Nat /\ n < Base * k
    BY <1>0, WideValues
  <2> HIDE DEF k
  <2>2. q < k
    BY <1>1, <2>1
  <2> QED BY <2>2 DEF k
<1>5. r < Base
  BY <1>0, <1>2, <1>4
<1>6. U24(n) = <<n % Base, q % Base, r % Base>>
  BY DEF U24, q, r
<1>7. (n % Base) + Base * ((q % Base) + Base * (r % Base)) = n
  <2>1. r % Base = r
    BY <1>3, <1>5
  <2>2. (q % Base) + Base * (r % Base) = q
    BY <1>2, <2>1, Zenon
  <2> QED BY <1>1, <2>2, Zenon
<1> DEFINE u == U24(n)
<1>8. /\ u \in Seq(Nat) /\ Len(u) = 3 /\ u[1] = n % Base /\ u[2] = q % Base /\ u[3] = r % Base
  <2>1. PICK x, y, z : x = n % Base /\ y = q % Base /\ z = r % Base
    OBVIOUS
  <2>2. x \in Nat /\ y \in Nat /\ z \in Nat
    BY <1>1, <1>2, <1>3, <2>1
  <2>3. u = <<x, y, z>>
    BY <1>6, <2>1
  <2> HIDE DEF u
  <2>4. u \in Seq(Nat) /\ Len(u) = 3 /\ u[1] = x /\ u[2] = y /\ u[3] = z
    BY <2>2, <2>3
  <2> QED BY <2>1, <2>4
<1> HIDE DEF u
<1>9. u[1] + Base * (u[2] + Base * u[3]) = n
  BY <1>7, <1>8, Zenon
<1> QED BY <1>8, <1>9 DEF u

\* So is a number of four bytes.
LEMMA U32Read ==
  ASSUME NEW n \in Nat, n < Values(4)
  PROVE  LET u == U32(n)
         IN  u \in Seq(Nat) /\ Len(u) = 4 /\ U32At(u, 1) = n
<1> DEFINE q == n \div Base
           r == q \div Base
           s == r \div Base
<1>0. Base \in Nat
  BY BaseAssumption
<1>1. /\ n % Base \in Nat /\ q \in Nat /\ n = (n % Base) + Base * q
      /\ \A k \in Nat : n < Base * k => q < k
  BY Digits
<1> HIDE DEF q
<1>2. /\ q % Base \in Nat /\ r \in Nat /\ q = (q % Base) + Base * r
      /\ \A k \in Nat : q < Base * k => r < k
  BY <1>1, Digits
<1> HIDE DEF r
<1>3. /\ r % Base \in Nat /\ s \in Nat /\ r = (r % Base) + Base * s
      /\ \A k \in Nat : r < Base * k => s < k
  BY <1>2, Digits
<1> HIDE DEF s
<1>4. s % Base \in Nat /\ (s < Base => s % Base = s)
  BY <1>3, Digits
<1>5. q < Base * (Base * Base)
  <2> DEFINE k == Base * (Base * Base)
  <2>1. k \in Nat /\ n < Base * k
    BY <1>0, WideValues
  <2> HIDE DEF k
  <2>2. q < k
    BY <1>1, <2>1
  <2> QED BY <2>2 DEF k
<1>6. r < Base * Base
  <2> DEFINE k == Base * Base
  <2>1. k \in Nat /\ q < Base * k
    BY <1>0, <1>5
  <2> HIDE DEF k
  <2>2. r < k
    BY <1>2, <2>1
  <2> QED BY <2>2 DEF k
<1>7. s < Base
  BY <1>0, <1>3, <1>6
<1>8. U32(n) = Append(<<n % Base, q % Base, r % Base>>, s % Base)
  <2>1. U24(n) = <<n % Base, q % Base, r % Base>>
    BY DEF U24, q, r
  <2>2. U32(n) = Append(U24(n), s % Base)
    BY DEF U32, q, r, s
  <2> QED BY <2>1, <2>2
<1>9. (n % Base) + Base * ((q % Base) + Base * ((r % Base) + Base * (s % Base))) = n
  <2>1. s % Base = s
    BY <1>4, <1>7
  <2>2. (r % Base) + Base * (s % Base) = r
    BY <1>3, <2>1, Zenon
  <2>3. (q % Base) + Base * ((r % Base) + Base * (s % Base)) = q
    BY <1>2, <2>2, Zenon
  <2> QED BY <1>1, <2>3, Zenon
<1> DEFINE u == U32(n)
<1>10. /\ u \in Seq(Nat) /\ Len(u) = 4 /\ u[1] = n % Base /\ u[2] = q % Base /\ u[3] = r % Base
       /\ u[4] = s % Base
  <2>1. PICK x, y, z, w : x = n % Base /\ y = q % Base /\ z = r % Base /\ w = s % Base
    OBVIOUS
  <2>2. x \in Nat /\ y \in Nat /\ z \in Nat /\ w \in Nat
    BY <1>1, <1>2, <1>3, <1>4, <2>1
  <2>3. u = Append(<<x, y, z>>, w)
    BY <1>8, <2>1
  <2> HIDE DEF u
  <2>4. u \in Seq(Nat) /\ Len(u) = 4 /\ u[1] = x /\ u[2] = y /\ u[3] = z /\ u[4] = w
    BY <2>2, <2>3
  <2> QED BY <2>1, <2>4
<1> HIDE DEF u
<1>11. U32At(u, 1) = u[1] + Base * (u[2] + Base * (u[3] + Base * u[4]))
  BY DEF U32At
<1> QED BY <1>9, <1>10, <1>11 DEF u

\* What a concatenation holds.
LEMMA Glue ==
  ASSUME NEW s \in Seq(Nat), NEW t \in Seq(Nat)
  PROVE  LET r == s \o t
         IN  /\ r \in Seq(Nat) /\ Len(r) = Len(s) + Len(t)
             /\ \A i \in 1 .. Len(s) : r[i] = s[i]
             /\ \A i \in 1 .. Len(t) : r[Len(s) + i] = t[i]
<1> DEFINE r == s \o t
<1>1. /\ r \in Seq(Nat) /\ Len(r) = Len(s) + Len(t)
      /\ \A i \in 1 .. Len(s) + Len(t) : r[i] = IF i <= Len(s) THEN s[i] ELSE t[i - Len(s)]
  BY ConcatProperties
<1>2. Len(s) \in Nat /\ Len(t) \in Nat
  BY LenProperties
<1> HIDE DEF r
<1> DEFINE m == Len(s)
           n == Len(t)
<1>3. m \in Nat /\ n \in Nat /\ \A i \in 1 .. m + n : r[i] = IF i <= m THEN s[i] ELSE t[i - m]
  BY <1>1, <1>2
<1> HIDE DEF m, n
<1>4. ASSUME NEW i \in 1 .. m PROVE r[i] = s[i]
  <2>1. i \in 1 .. m + n /\ i <= m
    BY <1>3
  <2> QED BY <1>3, <2>1
<1>5. ASSUME NEW i \in 1 .. n PROVE r[m + i] = t[i]
  <2>1. m + i \in 1 .. m + n /\ ~(m + i <= m) /\ (m + i) - m = i
    BY <1>3
  <2> QED BY <1>3, <2>1
<1> QED BY <1>1, <1>4, <1>5 DEF m, n, r

\* The frame around a payload: its type, the length, and the payload itself.
LEMMA FrameIs ==
  ASSUME NEW ext \in Nat, NEW type \in Nat, NEW p \in Seq(Nat), Len(p) < Values(3)
  PROVE  LET r == encodeSV2Frame(ext, type, p)
         IN  /\ r \in Seq(Nat) /\ Len(r) = 6 + Len(p) /\ Kind(r) = type /\ WellFramed(r)
             /\ \A i \in 1 .. Len(p) : r[6 + i] = p[i]
<1> DEFINE a == U16(ext)
           b == a \o <<type>>
           n == Len(p)
           c == U24(n)
           d == b \o c
           r == d \o p
<1>1. r = encodeSV2Frame(ext, type, p)
  BY DEF encodeSV2Frame
<1>2. a \in Seq(Nat) /\ Len(a) = 2
  <2>1. ext % Base \in Nat /\ ext \div Base \in Nat
    BY Digits
  <2>2. (ext \div Base) % Base \in Nat
    BY <2>1, Digits
  <2> QED BY <2>1, <2>2 DEF U16
<1> HIDE DEF a
<1>3. b \in Seq(Nat) /\ Len(b) = 3 /\ b[3] = type
  <2> DEFINE t == <<type>>
  <2>1. t \in Seq(Nat) /\ Len(t) = 1 /\ t[1] = type
    OBVIOUS
  <2> HIDE DEF t
  <2>2. /\ a \o t \in Seq(Nat) /\ Len(a \o t) = Len(a) + Len(t)
        /\ \A i \in 1 .. Len(t) : (a \o t)[Len(a) + i] = t[i]
    BY <1>2, <2>1, Glue
  <2>3. (a \o t)[2 + 1] = t[1]
    BY <1>2, <2>1, <2>2
  <2> QED BY <1>2, <2>1, <2>2, <2>3 DEF t
<1> HIDE DEF b
<1>4. n \in Nat /\ n < Values(3)
  BY LenProperties
<1>5. p \in Seq(Nat) /\ Len(p) = n
  OBVIOUS
<1> HIDE DEF n
<1>6. c \in Seq(Nat) /\ Len(c) = 3 /\ c[1] + Base * (c[2] + Base * c[3]) = n
  BY <1>4, U24Read
<1> HIDE DEF c
<1>7. /\ d \in Seq(Nat) /\ Len(d) = 6 /\ d[3] = type
      /\ d[4] = c[1] /\ d[5] = c[2] /\ d[6] = c[3]
  <2>1. /\ d \in Seq(Nat) /\ Len(d) = Len(b) + Len(c)
        /\ \A i \in 1 .. Len(b) : d[i] = b[i]
        /\ \A i \in 1 .. Len(c) : d[Len(b) + i] = c[i]
    BY <1>3, <1>6, Glue
  <2> HIDE DEF d
  <2>2. d[3] = b[3] /\ d[3 + 1] = c[1] /\ d[3 + 2] = c[2] /\ d[3 + 3] = c[3]
    BY <1>3, <1>6, <2>1
  <2> QED BY <1>3, <1>6, <2>1, <2>2
<1> HIDE DEF d
<1>8. /\ r \in Seq(Nat) /\ Len(r) = 6 + n
      /\ \A i \in 1 .. 6 : r[i] = d[i]
      /\ \A i \in 1 .. n : r[6 + i] = p[i]
  <2>1. /\ r \in Seq(Nat) /\ Len(r) = Len(d) + Len(p)
        /\ \A i \in 1 .. Len(d) : r[i] = d[i]
        /\ \A i \in 1 .. Len(p) : r[Len(d) + i] = p[i]
    BY <1>7, Glue
  <2> HIDE DEF r
  <2> QED BY <1>5, <1>7, <2>1
<1> HIDE DEF r
<1>9. r[3] = type /\ r[4] = c[1] /\ r[5] = c[2] /\ r[6] = c[3]
  BY <1>7, <1>8, SMTT(30)
<1>10. U24At(r, 4) = n
  <2>1. U24At(r, 4) = r[4] + Base * (r[5] + Base * r[6])
    BY DEF U24At
  <2> QED BY <1>6, <1>9, <2>1, Zenon
<1>11. WellFramed(r) /\ Kind(r) = type
  BY <1>8, <1>9, <1>10 DEF WellFramed, Kind
<1> QED BY <1>1, <1>5, <1>8, <1>11

\* A number is read where its bytes are.
LEMMA U32Moved ==
  ASSUME NEW r, NEW u, NEW k \in Nat, \A i \in 1 .. 4 : r[k + i] = u[i]
  PROVE  U32At(r, k + 1) = U32At(u, 1)
<1>1. r[k + 1] = u[1] /\ r[k + 2] = u[2] /\ r[k + 3] = u[3] /\ r[k + 4] = u[4]
  OBVIOUS
<1>2. (k + 1) + 1 = k + 2 /\ (k + 1) + 2 = k + 3 /\ (k + 1) + 3 = k + 4
  OBVIOUS
<1>3. U32At(r, k + 1) = r[k + 1] + Base * (r[k + 2] + Base * (r[k + 3] + Base * r[k + 4]))
  BY <1>2 DEF U32At
<1>4. U32At(u, 1) = u[1] + Base * (u[2] + Base * (u[3] + Base * u[4]))
  BY DEF U32At
<1> QED BY <1>1, <1>3, <1>4, Zenon

\* Four bytes say no more than four bytes can.
LEMMA U32Small ==
  ASSUME NEW b \in Seq(Byte), NEW i \in Nat, i # 0, i + 3 <= Len(b)
  PROVE  U32At(b, i) \in Nat /\ U32At(b, i) < Values(4)
<1>1. Len(b) \in Nat /\ Base \in Nat
  BY LenProperties, BaseAssumption
<1>2. PICK w, x, y, z : w = b[i] /\ x = b[i + 1] /\ y = b[i + 2] /\ z = b[i + 3]
  OBVIOUS
<1>3. w \in Byte /\ x \in Byte /\ y \in Byte /\ z \in Byte
  <2>1. i \in 1 .. Len(b) /\ i + 1 \in 1 .. Len(b) /\ i + 2 \in 1 .. Len(b) /\ i + 3 \in 1 .. Len(b)
    BY <1>1
  <2> QED BY <1>2, <2>1, ElementOfSeq
<1>4. ASSUME NEW d \in Byte, NEW n \in Nat, NEW k \in Nat, n < k
      PROVE  d + Base * n \in Nat /\ d + Base * n < Base * k
  <2>1. d \in Nat /\ d < Base
    BY <1>1, <1>4 DEF Byte
  <2>2. n + 1 <= k
    BY <1>4
  <2>3. Base * (n + 1) <= Base * k
    BY <1>1, <2>2
  <2>4. Base * (n + 1) = Base * n + Base
    BY <1>1
  <2>5. Base * n \in Nat /\ Base * k \in Nat /\ Base * (n + 1) \in Nat
    BY <1>1
  <2> QED BY <1>1, <2>1, <2>3, <2>4, <2>5
<1>5. z \in Nat /\ z < Base
  BY <1>1, <1>3 DEF Byte
<1> DEFINE n3 == y + Base * z
           n2 == x + Base * n3
           n1 == w + Base * n2
           k2 == Base * Base
           k3 == Base * k2
<1>6. n3 \in Nat /\ n3 < k2
  BY <1>1, <1>3, <1>4, <1>5
<1>7. k2 \in Nat
  BY <1>1
<1> HIDE DEF n3, k2
<1>8. n2 \in Nat /\ n2 < k3
  BY <1>3, <1>4, <1>6, <1>7
<1>9. k3 \in Nat
  BY <1>1, <1>7
<1> HIDE DEF n2, k3
<1>10. n1 \in Nat /\ n1 < Base * k3
  BY <1>3, <1>4, <1>8, <1>9
<1>11. Values(4) = Base * k3
  BY WideValues DEF k3, k2
<1>12. U32At(b, i) = n1
  BY <1>2 DEF U32At, n2, n3
<1> QED BY <1>10, <1>11, <1>12

\* A number is read from its bytes, however many there are.
LEMMA NumberRead ==
  ASSUME NEW n \in Nat, NEW x \in Nat, x < Values(n), NEW b, NEW a \in Nat,
         \A i \in 1 .. n : b[(a - 1) + i] = LittleEndian(x, n)[i]
  PROVE  /\ LittleEndian(x, n) \in Seq(Nat) /\ Len(LittleEndian(x, n)) = n
         /\ NumberAt(b, a, n) = x
<1> DEFINE u == LittleEndian(x, n)
<1>0. Base \in Nat /\ Base > 0
  BY BaseAssumption
<1>1. PICK f \in [0 .. n -> Nat] :
        f[0] = x /\ (\A i \in 1 .. n : f[i] = f[i - 1] \div Base) /\ u = [i \in 1 .. n |-> f[i - 1] % Base]
  BY LittleEndianIs
<1>2. PICK w \in [0 .. n -> Nat] :
        w[0] = 1 /\ (\A i \in 1 .. n : w[i] = Base * w[i - 1]) /\ Values(n) = w[n]
  BY ValuesIs
<1>3. \A i \in 1 .. n : f[i - 1] \in Nat /\ f[i - 1] % Base \in Nat
  <2> SUFFICES ASSUME NEW i \in 1 .. n PROVE f[i - 1] \in Nat /\ f[i - 1] % Base \in Nat
    OBVIOUS
  <2>1. i - 1 \in 0 .. n
    OBVIOUS
  <2>2. f[i - 1] \in Nat
    BY <1>1, <2>1
  <2> QED BY <2>2, Digits
<1>4. u \in Seq(Nat) /\ Len(u) = n /\ \A i \in 1 .. n : u[i] = f[i - 1] % Base
  <2> DEFINE G(i) == f[i - 1] % Base
  <2>1. \A i \in 1 .. n : G(i) \in Nat
    BY <1>3
  <2>2. u = [i \in 1 .. n |-> G(i)]
    BY <1>1
  <2> HIDE DEF G, u
  <2>3. u \in Seq(Nat) /\ Len(u) = n /\ \A i \in 1 .. n : u[i] = G(i)
    BY <2>1, <2>2
  <2> QED BY <2>3 DEF G
<1> HIDE DEF u
<1>5. \A i \in 1 .. n : b[a + n - i] \in Nat /\ b[a + n - i] = f[n - i] % Base
  <2> SUFFICES ASSUME NEW i \in 1 .. n
               PROVE  b[a + n - i] \in Nat /\ b[a + n - i] = f[n - i] % Base
    OBVIOUS
  <2> DEFINE j == n - i + 1
  <2>1. j \in 1 .. n /\ (a - 1) + j = a + n - i /\ j - 1 = n - i
    OBVIOUS
  <2> HIDE DEF j
  <2>2. b[(a - 1) + j] = u[j]
    BY <2>1 DEF u
  <2>3. u[j] = f[j - 1] % Base /\ f[j - 1] % Base \in Nat
    BY <1>3, <1>4, <2>1
  <2> QED BY <2>1, <2>2, <2>3
<1>6. PICK v \in [0 .. n -> Nat] :
        /\ v[0] = 0 /\ \A i \in 1 .. n : v[i] = b[a + n - i] + Base * v[i - 1]
        /\ NumberAt(b, a, n) = v[n]
  BY <1>5, NumberAtIs
<1>7. \A i \in 0 .. n : f[i] < w[n - i]
  <2> DEFINE S == {i \in 0 .. n : f[i] < w[n - i]}
  <2>1. 0 \in S
    BY <1>1, <1>2
  <2>2. ASSUME NEW i \in 1 .. n, i - 1 \in S PROVE i \in S
    <3>1. i - 1 \in 0 .. n /\ i \in 0 .. n /\ n - i \in 0 .. n /\ n - (i - 1) \in 1 .. n
          /\ (n - (i - 1)) - 1 = n - i
      OBVIOUS
    <3>2. PICK y, k : y = f[i - 1] /\ k = w[n - i]
      OBVIOUS
    <3>3. y \in Nat /\ k \in Nat
      BY <1>1, <1>2, <3>1, <3>2
    <3>4. w[n - (i - 1)] = Base * k
      BY <1>2, <3>1, <3>2
    <3>5. y < Base * k
      BY <2>2, <3>2, <3>4
    <3>6. y \div Base < k
      BY <3>3, <3>5, Digits
    <3>7. f[i] = y \div Base
      BY <1>1, <3>2
    <3> QED BY <3>1, <3>2, <3>6, <3>7
  <2>3. n \in Nat
    OBVIOUS
  <2> HIDE DEF S
  <2>4. \A i \in 0 .. n : i \in S
    BY <2>1, <2>2, <2>3, BoundedInduction
  <2> QED BY <2>4 DEF S
<1>8. f[n] = 0
  <2>1. n \in 0 .. n /\ n - n = 0
    OBVIOUS
  <2>2. f[n] \in Nat /\ f[n] < 1
    BY <1>1, <1>2, <1>7, <2>1
  <2> QED BY <2>2
<1>9. \A i \in 0 .. n : v[i] = f[n - i]
  <2> DEFINE S == {i \in 0 .. n : v[i] = f[n - i]}
  <2>1. 0 \in S
    BY <1>6, <1>8
  <2>2. ASSUME NEW i \in 1 .. n, i - 1 \in S PROVE i \in S
    <3>1. /\ i - 1 \in 0 .. n /\ i \in 0 .. n /\ n - i \in 0 .. n /\ n - i + 1 \in 1 .. n
          /\ n - (i - 1) = n - i + 1 /\ (n - i + 1) - 1 = n - i
      OBVIOUS
    <3>2. PICK y : y = f[n - i]
      OBVIOUS
    <3>3. y \in Nat
      BY <1>1, <3>1, <3>2
    <3>4. f[n - i + 1] = y \div Base
      BY <1>1, <3>1, <3>2
    <3>5. v[i - 1] = y \div Base
      BY <2>2, <3>1, <3>4
    <3>6. v[i] = b[a + n - i] + Base * v[i - 1]
      BY <1>6
    <3>7. b[a + n - i] = y % Base
      BY <1>5, <3>2
    <3>8. y = (y % Base) + Base * (y \div Base)
      BY <3>3, Digits
    <3>9. v[i] = y
      BY <3>5, <3>6, <3>7, <3>8
    <3> QED BY <3>1, <3>2, <3>9
  <2>3. n \in Nat
    OBVIOUS
  <2> HIDE DEF S
  <2>4. \A i \in 0 .. n : i \in S
    BY <2>1, <2>2, <2>3, BoundedInduction
  <2> QED BY <2>4 DEF S
<1>10. v[n] = x
  <2>1. n \in 0 .. n /\ n - n = 0
    OBVIOUS
  <2> QED BY <1>1, <1>9, <2>1
<1> QED BY <1>4, <1>6, <1>10 DEF u

\* The text of an error; a short printable one is written as it is.
LEMMA TextBytes ==
  ASSUME NEW t \in Seq(Nat)
  PROVE  LET s == putStr0_255(t)
         IN  /\ s \in Seq(Nat) /\ Len(s) <= Base
             /\ t \in Seq(32 .. 126) /\ Len(t) < Base => s = <<Len(t)>> \o t
<1> DEFINE I == {i \in 1 .. Len(t) : t[i] \in 32 .. 126}
           z == Pick(t, I)
           m == IF Len(z) < Base THEN Len(z) ELSE Base - 1
           y == SubSeq(z, 1, m)
           s == putStr0_255(t)
<1>0. Base \in Nat /\ Base > 0
  BY BaseAssumption
<1>1. s = <<Len(y)>> \o y
  BY DEF putStr0_255
<1> HIDE DEF s
<1>2. z \in Seq(Nat)
  BY PickType
<1>3. t \in Seq(32 .. 126) => z = t
  <2> SUFFICES ASSUME t \in Seq(32 .. 126) PROVE z = t
    OBVIOUS
  <2>1. \A i \in 1 .. Len(t) : i \in I
    BY ElementOfSeq
  <2> QED BY <2>1, PickAll
<1> HIDE DEF z
<1>4. Len(z) \in Nat
  BY <1>2
<1>5. m \in Nat /\ m <= Len(z) /\ m < Base
  BY <1>0, <1>4
<1>6. Len(z) < Base => m = Len(z)
  OBVIOUS
<1> HIDE DEF m
<1>7. y \in Seq(Nat) /\ Len(y) = m
  <2>1. y = Slice(z, 0, m)
    BY DEF Slice
  <2> DEFINE o == 0
  <2>2. y = Slice(z, o, m) /\ o \in Nat /\ o <= m /\ m - o = m
    BY <1>5, <2>1
  <2> HIDE DEF o, y
  <2>3. Slice(z, o, m) \in Seq(Nat) /\ Len(Slice(z, o, m)) = m - o
    BY <1>2, <1>5, <2>2, SliceType
  <2> QED BY <2>2, <2>3
<1>8. m = Len(z) => y = z
  <2>1. Slice(z, 0, Len(z)) = z
    BY <1>2, SliceAll
  <2> QED BY <2>1 DEF Slice
<1> HIDE DEF y
<1> DEFINE h == <<Len(y)>>
<1>9. h \in Seq(Nat) /\ Len(h) = 1
  BY <1>5, <1>7
<1>10. s \in Seq(Nat) /\ Len(s) = 1 + m
  <2>1. s = h \o y
    BY <1>1
  <2> HIDE DEF h
  <2>2. y \in Seq(Nat) /\ h \in Seq(Nat)
    BY <1>7, <1>9
  <2>3. h \o y \in Seq(Nat) /\ Len(h \o y) = Len(h) + Len(y)
    BY <2>2, Glue
  <2> QED BY <1>7, <1>9, <2>1, <2>3
<1>11. Len(s) <= Base
  BY <1>0, <1>5, <1>10
<1>12. t \in Seq(32 .. 126) /\ Len(t) < Base => s = <<Len(t)>> \o t
  BY <1>1, <1>3, <1>6, <1>8
<1> QED BY <1>10, <1>11, <1>12 DEF s

\* Every answer fits in a frame.
LEMMA RoomForAnswers == Base + 16 < Values(3)
<1>1. Base \in Nat /\ Base > 33
  BY BaseAssumption
<1>2. \A m, n \in Nat : m <= n => Base * m <= Base * n
  BY <1>1
<1> DEFINE x == Base * Base
<1>3. x \in Nat
  BY <1>1
<1>4. 34 <= x
  <2>1. Base * 1 <= Base * Base
    BY <1>1, <1>2
  <2> QED BY <1>1, <2>1
<1>5. Values(3) = Base * x
  BY WideValues
<1> HIDE DEF x
<1>6. Base * 34 <= Base * x
  BY <1>2, <1>3, <1>4
<1>7. Base * x \in Nat
  BY <1>1, <1>3
<1> QED BY <1>1, <1>5, <1>6, <1>7

----------------------------------------------------------------------------
(* The answers as a miner reads them                                        *)

\* A number in a payload is found in its frame.
LEMMA FrameNumber ==
  ASSUME NEW r, NEW p \in Seq(Nat), \A i \in 1 .. Len(p) : r[6 + i] = p[i],
         NEW k \in Nat, k + 4 <= Len(p), NEW n \in Nat, n < Values(4),
         \A i \in 1 .. 4 : p[k + i] = U32(n)[i]
  PROVE  U32At(r, (6 + k) + 1) = n
<1> DEFINE u == U32(n)
           x == 6 + k
<1>1. U32At(u, 1) = n
  BY U32Read
<1>2. \A i \in 1 .. 4 : r[x + i] = u[i]
  <2> SUFFICES ASSUME NEW i \in 1 .. 4 PROVE r[x + i] = u[i]
    OBVIOUS
  <2>1. Len(p) \in Nat
    BY LenProperties
  <2> DEFINE w == Len(p)
  <2>1a. w \in Nat /\ k + 4 <= w
    BY <2>1
  <2> HIDE DEF w
  <2>1b. k + i \in 1 .. w /\ x + i = 6 + (k + i)
    BY <2>1a, SMTT(30)
  <2>2. k + i \in 1 .. Len(p) /\ x + i = 6 + (k + i)
    BY <2>1b DEF w
  <2>3. r[6 + (k + i)] = p[k + i]
    BY <2>2
  <2> QED BY <2>2, <2>3
<1>3. x \in Nat
  BY SMTT(30)
<1> HIDE DEF u, x
<1>4. U32At(r, x + 1) = U32At(u, 1)
  BY <1>2, <1>3, U32Moved
<1> QED BY <1>1, <1>4 DEF x

\* A payload that starts with a number.
LEMMA LeadingNumber ==
  ASSUME NEW n \in Nat, n < Values(4), NEW s \in Seq(Nat)
  PROVE  LET p == U32(n) \o s
         IN  /\ p \in Seq(Nat) /\ Len(p) = 4 + Len(s)
             /\ \A i \in 1 .. 4 : p[0 + i] = U32(n)[i]
             /\ \A i \in 1 .. Len(s) : p[4 + i] = s[i]
<1> DEFINE u == U32(n)
           p == u \o s
<1>1. u \in Seq(Nat) /\ Len(u) = 4
  BY U32Read
<1> HIDE DEF u
<1>2. /\ p \in Seq(Nat) /\ Len(p) = Len(u) + Len(s)
      /\ \A i \in 1 .. Len(u) : p[i] = u[i]
      /\ \A i \in 1 .. Len(s) : p[Len(u) + i] = s[i]
  BY <1>1, Glue
<1> HIDE DEF p
<1>3. \A i \in 1 .. 4 : p[0 + i] = u[i]
  <2>1. \A i \in 1 .. 4 : 0 + i = i
    OBVIOUS
  <2> QED BY <1>1, <1>2, <2>1
<1> QED BY <1>1, <1>2, <1>3 DEF p, u

\* A payload that starts with two numbers.
LEMMA LeadingNumbers ==
  ASSUME NEW m \in Nat, m < Values(4), NEW n \in Nat, n < Values(4), NEW s \in Seq(Nat)
  PROVE  LET p == (U32(m) \o U32(n)) \o s
         IN  /\ p \in Seq(Nat) /\ Len(p) = 8 + Len(s)
             /\ \A i \in 1 .. 4 : p[0 + i] = U32(m)[i]
             /\ \A i \in 1 .. 4 : p[4 + i] = U32(n)[i]
             /\ \A i \in 1 .. Len(s) : p[8 + i] = s[i]
<1> DEFINE u == U32(n)
           v == U32(m)
           q == v \o u
           p == q \o s
<1>1. u \in Seq(Nat) /\ Len(u) = 4
  BY U32Read
<1> HIDE DEF u
<1>2. /\ q \in Seq(Nat) /\ Len(q) = 4 + Len(u)
      /\ \A i \in 1 .. 4 : q[0 + i] = v[i]
      /\ \A i \in 1 .. Len(u) : q[4 + i] = u[i]
  BY <1>1, LeadingNumber
<1> HIDE DEF q, v
<1>3. /\ p \in Seq(Nat) /\ Len(p) = Len(q) + Len(s)
      /\ \A i \in 1 .. Len(q) : p[i] = q[i]
      /\ \A i \in 1 .. Len(s) : p[Len(q) + i] = s[i]
  BY <1>2, Glue
<1> HIDE DEF p
<1>4. Len(q) = 8
  BY <1>1, <1>2
<1>5. \A i \in 1 .. 4 : p[0 + i] = v[i]
  <2>1. \A i \in 1 .. 4 : 0 + i = i /\ i \in 1 .. 8
    OBVIOUS
  <2> QED BY <1>2, <1>3, <1>4, <2>1
<1>6. \A i \in 1 .. 4 : p[4 + i] = u[i]
  <2>1. \A i \in 1 .. 4 : 4 + i \in 1 .. 8
    OBVIOUS
  <2> QED BY <1>1, <1>2, <1>3, <1>4, <2>1
<1> QED BY <1>3, <1>4, <1>5, <1>6 DEF p, q, u, v

\* The answers to a setup.
LEMMA SetupAnswered ==
  /\ LET r == encodeSV2Frame(sv2ExtStandard, sv2MsgSetupConnectionSuccess,
                             encodeSV2SetupConnectionSuccessPayload(2, 0))
     IN  r \in Seq(Nat) /\ WellFramed(r) /\ Kind(r) = sv2MsgSetupConnectionSuccess
  /\ LET r == encodeSV2Frame(sv2ExtStandard, sv2MsgSetupConnectionError,
                  encodeSV2SetupConnectionErrorPayload(0, "malformed setup connection"))
     IN  r \in Seq(Nat) /\ WellFramed(r) /\ Kind(r) = sv2MsgSetupConnectionError
<1>0. /\ Base \in Nat /\ Base > 33 /\ Values(3) \in Nat /\ Values(4) \in Nat /\ Base + 16 < Values(3)
      /\ 0 < Values(4)
  <2>1. Base \in Nat /\ Base > 33 /\ Values(3) \in Nat /\ Values(4) \in Nat /\ Base + 16 < Values(3)
    BY BaseAssumption, WideValues, RoomForAnswers
  <2>2. Values(4) = Base * Values(3)
    BY WideValues
  <2>3. Base * Values(3) > 0
    BY <2>1
  <2> QED BY <2>1, <2>2, <2>3
<1>1. LET r == encodeSV2Frame(sv2ExtStandard, sv2MsgSetupConnectionSuccess,
                             encodeSV2SetupConnectionSuccessPayload(2, 0))
      IN  r \in Seq(Nat) /\ WellFramed(r) /\ Kind(r) = sv2MsgSetupConnectionSuccess
  <2> DEFINE u == U16(2)
             v == U32(0)
             p == u \o v
             e == sv2ExtStandard
             t == sv2MsgSetupConnectionSuccess
  <2>1. u \in Seq(Nat) /\ Len(u) = 2
    <3> DEFINE n == 2
    <3>1. n \in Nat
      OBVIOUS
    <3> HIDE DEF n
    <3>2. n % Base \in Nat /\ n \div Base \in Nat
      BY <3>1, Digits
    <3>3. (n \div Base) % Base \in Nat
      BY <3>2, Digits
    <3>4. U16(n) \in Seq(Nat) /\ Len(U16(n)) = 2
      BY <3>2, <3>3 DEF U16
    <3> QED BY <3>4 DEF n
  <2>2. v \in Seq(Nat) /\ Len(v) = 4
    <3> DEFINE n == 0
    <3>1. n \in Nat /\ n < Values(4)
      BY <1>0
    <3> HIDE DEF n
    <3>2. U32(n) \in Seq(Nat) /\ Len(U32(n)) = 4
      BY <3>1, U32Read
    <3> QED BY <3>2 DEF n
  <2>3. e \in Nat /\ t \in Nat
    BY DEF sv2ExtStandard, sv2MsgSetupConnectionSuccess
  <2>4. encodeSV2SetupConnectionSuccessPayload(2, 0) = p
    BY DEF encodeSV2SetupConnectionSuccessPayload
  <2> HIDE DEF u, v, e, t
  <2>5. p \in Seq(Nat) /\ Len(p) = Len(u) + Len(v)
    BY <2>1, <2>2, Glue
  <2> HIDE DEF p
  <2>6. Len(p) < Values(3)
    BY <1>0, <2>1, <2>2, <2>5
  <2>7. LET r == encodeSV2Frame(e, t, p) IN r \in Seq(Nat) /\ Kind(r) = t /\ WellFramed(r)
    BY <2>3, <2>5, <2>6, FrameIs
  <2> QED BY <2>4, <2>7 DEF e, t
<1>2. LET r == encodeSV2Frame(sv2ExtStandard, sv2MsgSetupConnectionError,
                  encodeSV2SetupConnectionErrorPayload(0, "malformed setup connection"))
      IN  r \in Seq(Nat) /\ WellFramed(r) /\ Kind(r) = sv2MsgSetupConnectionError
  <2> DEFINE c == "malformed setup connection"
             s == putStr0_255(Text(c))
             n == 0
             p == U32(n) \o s
             e == sv2ExtStandard
             t == sv2MsgSetupConnectionError
  <2>1. s \in Seq(Nat) /\ Len(s) <= Base
    BY TextAssumption, TextBytes
  <2>2. n \in Nat /\ n < Values(4)
    BY <1>0
  <2>3. e \in Nat /\ t \in Nat
    BY DEF sv2ExtStandard, sv2MsgSetupConnectionError
  <2>4. encodeSV2SetupConnectionErrorPayload(0, c) = p
    BY DEF encodeSV2SetupConnectionErrorPayload
  <2> HIDE DEF n, s, e, t
  <2>5. p \in Seq(Nat) /\ Len(p) = 4 + Len(s)
    BY <2>1, <2>2, LeadingNumber
  <2> HIDE DEF p
  <2>6. Len(p) < Values(3)
    BY <1>0, <2>1, <2>5
  <2>7. LET r == encodeSV2Frame(e, t, p) IN r \in Seq(Nat) /\ Kind(r) = t /\ WellFramed(r)
    BY <2>3, <2>5, <2>6, FrameIs
  <2> QED BY <2>4, <2>7 DEF e, t
<1> QED BY <1>1, <1>2

\* The answer that grants a channel: the request, the channel and the target.
LEMMA ChannelGranted ==
  ASSUME NEW q \in Nat, q < Values(4), NEW c \in Nat, c < Values(4), NEW d \in StratumDiffs
  PROVE  LET r == encodeSV2Frame(sv2ExtStandard, sv2MsgOpenMiningChannelSuccess,
                                 encodeSV2OpenChannelSuccessPayload(q, c, diffToSV2TargetLE(d)))
         IN  /\ r \in Seq(Nat) /\ WellFramed(r) /\ Kind(r) = sv2MsgOpenMiningChannelSuccess
             /\ U32At(r, 7) = q /\ U32At(r, 11) = c
             /\ NumberAt(r, 15, HashLen) = MaxTarget \div AtLeast(d)
<1> DEFINE x == MaxTarget \div AtLeast(d)
           n == HashLen
           e == sv2ExtStandard
           t == sv2MsgOpenMiningChannelSuccess
           g == diffToSV2TargetLE(d)
           z == U32(0)
           o == <<0>>
           a == U32(q) \o U32(c)
           p == ((a \o g) \o o) \o z
           r == encodeSV2Frame(e, t, p)
<1>0. /\ Base \in Nat /\ Base > 33 /\ Values(3) \in Nat /\ Values(4) \in Nat /\ Base + 16 < Values(3)
      /\ e \in Nat /\ t \in Nat
  BY BaseAssumption, WideValues, RoomForAnswers DEF sv2ExtStandard, sv2MsgOpenMiningChannelSuccess
<1>1. /\ n \in Nat /\ n < Base /\ x \in Nat /\ x < Values(n)
  <2>1. n \in Nat /\ n < Base
    BY HashLenAssumption, BaseAssumption
  <2>2. PICK m : m = MaxTarget
    OBVIOUS
  <2>3. PICK k : k = Values(n)
    OBVIOUS
  <2>4. k \in Nat
    <3>1. \E f \in [0 .. n -> Nat] :
            f[0] = 1 /\ (\A i \in 1 .. n : f[i] = Base * f[i - 1]) /\ Values(n) = f[n]
      BY <2>1, ValuesIs
    <3>2. n \in 0 .. n
      BY <2>1
    <3> QED BY <2>3, <3>1, <3>2
  <2>5. m \in 1 .. k - 1
    BY <2>2, <2>3, MaxTargetAssumption
  <2> DEFINE y == AtLeast(d)
  <2>6. y \in Nat /\ y > 0
    BY StratumDiffsAssumption, LeastDiffAssumption DEF AtLeast
  <2> HIDE DEF y
  <2>7. m \div y \in Nat /\ m \div y <= m
    BY <2>4, <2>5, <2>6
  <2>8. x = m \div y
    BY <2>2 DEF y
  <2> QED BY <2>1, <2>2, <2>3, <2>4, <2>5, <2>7, <2>8
<1>2. encodeSV2OpenChannelSuccessPayload(q, c, g) = p
  BY DEF encodeSV2OpenChannelSuccessPayload
<1>3. g = LittleEndian(x, n)
  BY Zenon DEF diffToSV2TargetLE, AtLeast
<1> HIDE DEF x, n, e, t, g
<1>4. g \in Seq(Nat) /\ Len(g) = n
  <2> DEFINE b == LittleEndian(x, n)
             s == 1
  <2>1. s \in Nat /\ \A i \in 1 .. n : (s - 1) + i = i
    BY <1>1
  <2> HIDE DEF s, b
  <2>2. \A i \in 1 .. n : b[(s - 1) + i] = LittleEndian(x, n)[i]
    BY <2>1 DEF b
  <2> QED BY <1>1, <1>3, <2>1, <2>2, NumberRead
<1>5. z \in Seq(Nat) /\ Len(z) = 4
  <2> DEFINE s == 0
  <2>1. s \in Nat /\ s < Values(4)
    BY <1>0
  <2> HIDE DEF s
  <2>2. U32(s) \in Seq(Nat) /\ Len(U32(s)) = 4
    BY <2>1, U32Read
  <2> QED BY <2>2 DEF s
<1> HIDE DEF z
<1>6. o \in Seq(Nat) /\ Len(o) = 1
  OBVIOUS
<1> HIDE DEF o
<1> DEFINE w == a \o g
<1>7. /\ w \in Seq(Nat) /\ Len(w) = 8 + Len(g)
      /\ \A i \in 1 .. 4 : w[0 + i] = U32(q)[i]
      /\ \A i \in 1 .. 4 : w[4 + i] = U32(c)[i]
      /\ \A i \in 1 .. Len(g) : w[8 + i] = g[i]
  BY <1>4, LeadingNumbers
<1> DEFINE v == w \o o
<1>8. p = v \o z
  OBVIOUS
<1> HIDE DEF w
<1>9. /\ v \in Seq(Nat) /\ Len(v) = Len(w) + Len(o)
      /\ \A i \in 1 .. Len(w) : v[i] = w[i]
  BY <1>6, <1>7, Glue
<1> HIDE DEF v
<1>10. /\ p \in Seq(Nat) /\ Len(p) = Len(v) + Len(z)
       /\ \A i \in 1 .. Len(v) : p[i] = v[i]
  <2>1. /\ v \o z \in Seq(Nat) /\ Len(v \o z) = Len(v) + Len(z)
        /\ \A i \in 1 .. Len(v) : (v \o z)[i] = v[i]
    BY <1>5, <1>9, Glue
  <2> QED BY <1>8, <2>1
<1> HIDE DEF p
<1>11. Len(p) = 13 + n /\ \A i \in 1 .. 8 + n : p[i] = w[i]
  <2>1. Len(w) = 8 + n /\ Len(v) = 9 + n /\ Len(p) = 13 + n
    BY <1>1, <1>4, <1>5, <1>6, <1>7, <1>9, <1>10
  <2>2. \A i \in 1 .. 8 + n : i \in 1 .. 9 + n
    BY <1>1
  <2> QED BY <1>9, <1>10, <2>1, <2>2
<1>12. \A i \in 1 .. 4 : p[0 + i] = U32(q)[i]
  <2>1. \A i \in 1 .. 4 : 0 + i \in 1 .. 8 + n
    BY <1>1
  <2> QED BY <1>7, <1>11, <2>1
<1>13. \A i \in 1 .. 4 : p[4 + i] = U32(c)[i]
  <2>1. \A i \in 1 .. 4 : 4 + i \in 1 .. 8 + n
    BY <1>1
  <2> QED BY <1>7, <1>11, <2>1
<1>14. \A i \in 1 .. n : p[8 + i] = g[i]
  <2>1. \A i \in 1 .. n : 8 + i \in 1 .. 8 + n
    BY <1>1
  <2> QED BY <1>4, <1>7, <1>11, <2>1
<1>15. Len(p) < Values(3)
  BY <1>0, <1>1, <1>11
<1>16. /\ r \in Seq(Nat) /\ Kind(r) = t /\ WellFramed(r)
       /\ \A i \in 1 .. Len(p) : r[6 + i] = p[i]
  BY <1>0, <1>10, <1>15, FrameIs
<1> HIDE DEF r
<1>17. U32At(r, 7) = q
  <2> DEFINE k == 0
  <2>1. k \in Nat /\ k + 4 <= Len(p) /\ (6 + k) + 1 = 7 /\ \A i \in 1 .. 4 : p[k + i] = U32(q)[i]
    BY <1>1, <1>11, <1>12
  <2> HIDE DEF k
  <2>2. U32At(r, (6 + k) + 1) = q
    BY <1>10, <1>16, <2>1, FrameNumber, ZenonT(40)
  <2> QED BY <2>1, <2>2
<1>18. U32At(r, 11) = c
  <2> DEFINE k == 4
  <2>1. k \in Nat /\ k + 4 <= Len(p) /\ (6 + k) + 1 = 11 /\ \A i \in 1 .. 4 : p[k + i] = U32(c)[i]
    BY <1>1, <1>11, <1>13
  <2> HIDE DEF k
  <2>2. U32At(r, (6 + k) + 1) = c
    BY <1>10, <1>16, <2>1, FrameNumber
  <2> QED BY <2>1, <2>2
<1>19. NumberAt(r, 15, n) = x
  <2> DEFINE s == 15
  <2>1. \A i \in 1 .. n : r[(s - 1) + i] = LittleEndian(x, n)[i]
    <3> SUFFICES ASSUME NEW i \in 1 .. n PROVE r[(s - 1) + i] = LittleEndian(x, n)[i]
      OBVIOUS
    <3>1. 8 + i \in 1 .. 13 + n /\ (s - 1) + i = 6 + (8 + i)
      BY <1>1
    <3>2. r[6 + (8 + i)] = p[8 + i]
      BY <1>11, <1>16, <3>1
    <3> QED BY <1>3, <1>14, <3>1, <3>2
  <2>2. s \in Nat
    OBVIOUS
  <2> HIDE DEF s
  <2>3. NumberAt(r, s, n) = x
    BY <1>1, <2>1, <2>2, NumberRead
  <2> QED BY <2>3 DEF s
<1> QED BY <1>2, <1>16, <1>17, <1>18, <1>19 DEF r, x, n, t, e, g

\* The answer that refuses a channel names the request.
LEMMA ChannelRefused ==
  ASSUME NEW q \in Nat, q < Values(4), NEW why, Text(why) \in Seq(Nat)
  PROVE  LET r == encodeSV2Frame(sv2ExtStandard, sv2MsgOpenMiningChannelError,
                                 encodeSV2OpenChannelErrorPayload(q, why))
         IN  /\ r \in Seq(Nat) /\ WellFramed(r) /\ Kind(r) = sv2MsgOpenMiningChannelError
             /\ U32At(r, 7) = q
<1> DEFINE e == sv2ExtStandard
           t == sv2MsgOpenMiningChannelError
           s == putStr0_255(Text(why))
           p == U32(q) \o s
           r == encodeSV2Frame(e, t, p)
<1>0. /\ Base \in Nat /\ Values(3) \in Nat /\ Base + 16 < Values(3) /\ e \in Nat /\ t \in Nat
  BY BaseAssumption, WideValues, RoomForAnswers DEF sv2ExtStandard, sv2MsgOpenMiningChannelError
<1>1. s \in Seq(Nat) /\ Len(s) <= Base
  BY TextBytes
<1>2. encodeSV2OpenChannelErrorPayload(q, why) = p
  BY DEF encodeSV2OpenChannelErrorPayload
<1> HIDE DEF e, t, s
<1>3. p \in Seq(Nat) /\ Len(p) = 4 + Len(s) /\ \A i \in 1 .. 4 : p[0 + i] = U32(q)[i]
  BY <1>1, LeadingNumber
<1> HIDE DEF p
<1>4. Len(s) \in Nat
  BY <1>1, LenProperties
<1>5. Len(p) < Values(3)
  BY <1>0, <1>1, <1>3, <1>4
<1>6. /\ r \in Seq(Nat) /\ Kind(r) = t /\ WellFramed(r)
      /\ \A i \in 1 .. Len(p) : r[6 + i] = p[i]
  BY <1>0, <1>3, <1>5, FrameIs
<1> HIDE DEF r
<1>7. U32At(r, 7) = q
  <2> DEFINE k == 0
  <2>1. k \in Nat /\ k + 4 <= Len(p) /\ (6 + k) + 1 = 7 /\ \A i \in 1 .. 4 : p[k + i] = U32(q)[i]
    BY <1>3, <1>4
  <2> HIDE DEF k
  <2>2. U32At(r, (6 + k) + 1) = q
    BY <1>3, <1>6, <2>1, FrameNumber
  <2> QED BY <2>1, <2>2
<1> QED BY <1>2, <1>6, <1>7 DEF r, e, t

\* The answers to a share name its channel and its sequence number; the reason
\* for an error is its text.
LEMMA ShareAnswered ==
  ASSUME NEW c \in Nat, c < Values(4), NEW q \in Nat, q < Values(4)
  PROVE  /\ LET r == encodeSV2Frame(sv2ExtChannel, sv2MsgSubmitSharesSuccess,
                                    encodeSV2SubmitSuccessPayload(c, q))
            IN  /\ r \in Seq(Nat) /\ WellFramed(r) /\ Kind(r) = sv2MsgSubmitSharesSuccess
                /\ U32At(r, 7) = c /\ U32At(r, 11) = q
         /\ \A why : Text(why) \in Seq(Nat) =>
              LET r == encodeSV2Frame(sv2ExtChannel, sv2MsgSubmitSharesError,
                                      encodeSV2SubmitErrorPayload(c, q, why))
              IN  /\ r \in Seq(Nat) /\ WellFramed(r) /\ Kind(r) = sv2MsgSubmitSharesError
                  /\ U32At(r, 7) = c /\ U32At(r, 11) = q
                  /\ Text(why) \in Seq(32 .. 126) /\ Len(Text(why)) < Base =>
                       ErrorText(r, 15) = Text(why)
<1> DEFINE e == sv2ExtChannel
<1>0. /\ Base \in Nat /\ Values(3) \in Nat /\ Base + 16 < Values(3) /\ e \in Nat
  <2>1. Base \in Nat /\ Values(3) \in Nat /\ Base + 16 < Values(3)
    BY BaseAssumption, WideValues, RoomForAnswers
  <2>2. Base \div 2 \in Nat
    BY <2>1
  <2>3. (Base \div 2) * Base \in Nat
    BY <2>1, <2>2
  <2> QED BY <2>1, <2>3 DEF sv2ExtChannel
<1> HIDE DEF e
<1>1. ASSUME NEW s \in Seq(Nat), Len(s) <= Base, NEW t \in Nat
      PROVE  LET p == (U32(c) \o U32(q)) \o s
                 r == encodeSV2Frame(e, t, p)
             IN  /\ r \in Seq(Nat) /\ WellFramed(r) /\ Kind(r) = t /\ Len(r) = 14 + Len(s)
                 /\ U32At(r, 7) = c /\ U32At(r, 11) = q
                 /\ \A i \in 1 .. Len(s) : r[14 + i] = s[i]
  <2> DEFINE p == (U32(c) \o U32(q)) \o s
             r == encodeSV2Frame(e, t, p)
  <2>1. /\ p \in Seq(Nat) /\ Len(p) = 8 + Len(s)
        /\ \A i \in 1 .. 4 : p[0 + i] = U32(c)[i]
        /\ \A i \in 1 .. 4 : p[4 + i] = U32(q)[i]
        /\ \A i \in 1 .. Len(s) : p[8 + i] = s[i]
    BY LeadingNumbers
  <2> HIDE DEF p
  <2>2. Len(s) \in Nat
    BY LenProperties
  <2>3. Len(p) < Values(3)
    BY <1>0, <1>1, <2>1, <2>2
  <2>4. /\ r \in Seq(Nat) /\ Kind(r) = t /\ WellFramed(r) /\ Len(r) = 6 + Len(p)
        /\ \A i \in 1 .. Len(p) : r[6 + i] = p[i]
    <3>1. e \in Nat /\ t \in Nat /\ p \in Seq(Nat)
      BY <1>0, <1>1, <2>1
    <3> QED BY <2>3, <3>1, FrameIs
  <2> HIDE DEF r
  <2>4a. p \in Seq(Nat) /\ \A i \in 1 .. Len(p) : r[6 + i] = p[i]
    BY <2>1, <2>4
  <2>5. U32At(r, 7) = c
    <3> DEFINE k == 0
    <3>1. k \in Nat /\ k + 4 <= Len(p) /\ (6 + k) + 1 = 7 /\ \A i \in 1 .. 4 : p[k + i] = U32(c)[i]
      BY <2>1, <2>2
    <3> HIDE DEF k
    <3>2. U32At(r, (6 + k) + 1) = c
      BY <2>4a, <3>1, FrameNumber
    <3> QED BY <3>1, <3>2
  <2>6. U32At(r, 11) = q
    <3> DEFINE k == 4
    <3>1. k \in Nat /\ k + 4 <= Len(p) /\ (6 + k) + 1 = 11 /\ \A i \in 1 .. 4 : p[k + i] = U32(q)[i]
      BY <2>1, <2>2
    <3> HIDE DEF k
    <3>2. U32At(r, (6 + k) + 1) = q
      BY <2>1, <2>4, <3>1, FrameNumber, ZenonT(40)
    <3> QED BY <3>1, <3>2
  <2>7. Len(r) = 14 + Len(s)
    BY <2>1, <2>2, <2>4
  <2>8. \A i \in 1 .. Len(s) : r[14 + i] = s[i]
    <3> SUFFICES ASSUME NEW i \in 1 .. Len(s) PROVE r[14 + i] = s[i]
      OBVIOUS
    <3>1. 8 + i \in 1 .. 8 + Len(s) /\ 14 + i = 6 + (8 + i)
      BY <2>2
    <3> QED BY <2>1, <2>4, <3>1
  <2> QED BY <2>4, <2>5, <2>6, <2>7, <2>8 DEF r, p
<1>2. LET r == encodeSV2Frame(sv2ExtChannel, sv2MsgSubmitSharesSuccess,
                              encodeSV2SubmitSuccessPayload(c, q))
      IN  /\ r \in Seq(Nat) /\ WellFramed(r) /\ Kind(r) = sv2MsgSubmitSharesSuccess
          /\ U32At(r, 7) = c /\ U32At(r, 11) = q
  <2> DEFINE s == << >>
             t == sv2MsgSubmitSharesSuccess
             a == U32(c) \o U32(q)
  <2>1. s \in Seq(Nat) /\ Len(s) <= Base /\ t \in Nat
    BY <1>0 DEF sv2MsgSubmitSharesSuccess
  <2>2. a \in Seq(Nat)
    <3>1. U32(q) \in Seq(Nat)
      BY U32Read
    <3>2. U32(c) \o U32(q) \in Seq(Nat)
      BY <3>1, LeadingNumber
    <3> QED BY <3>2
  <2>3. a \o s = a
    <3> HIDE DEF a
    <3> QED BY <2>2, ConcatEmptySeq
  <2>4. encodeSV2SubmitSuccessPayload(c, q) = (U32(c) \o U32(q)) \o s
    BY <2>3 DEF encodeSV2SubmitSuccessPayload
  <2> HIDE DEF s, t, a
  <2>5. LET r == encodeSV2Frame(e, t, (U32(c) \o U32(q)) \o s)
        IN  r \in Seq(Nat) /\ WellFramed(r) /\ Kind(r) = t /\ U32At(r, 7) = c /\ U32At(r, 11) = q
    BY <1>1, <2>1
  <2> QED BY <2>4, <2>5 DEF t, e
<1>3. ASSUME NEW why, Text(why) \in Seq(Nat)
      PROVE  LET r == encodeSV2Frame(sv2ExtChannel, sv2MsgSubmitSharesError,
                                     encodeSV2SubmitErrorPayload(c, q, why))
             IN  /\ r \in Seq(Nat) /\ WellFramed(r) /\ Kind(r) = sv2MsgSubmitSharesError
                 /\ U32At(r, 7) = c /\ U32At(r, 11) = q
                 /\ Text(why) \in Seq(32 .. 126) /\ Len(Text(why)) < Base =>
                      ErrorText(r, 15) = Text(why)
  <2> DEFINE x == Text(why)
             s == putStr0_255(x)
             t == sv2MsgSubmitSharesError
             r == encodeSV2Frame(e, t, (U32(c) \o U32(q)) \o s)
  <2>1. /\ s \in Seq(Nat) /\ Len(s) <= Base
        /\ x \in Seq(32 .. 126) /\ Len(x) < Base => s = <<Len(x)>> \o x
    BY <1>3, TextBytes
  <2>2. t \in Nat
    BY DEF sv2MsgSubmitSharesError
  <2>3. encodeSV2SubmitErrorPayload(c, q, why) = (U32(c) \o U32(q)) \o s
    BY DEF encodeSV2SubmitErrorPayload
  <2>4. x \in Seq(Nat)
    BY <1>3
  <2> HIDE DEF x, s, t
  <2>5. /\ r \in Seq(Nat) /\ WellFramed(r) /\ Kind(r) = t /\ Len(r) = 14 + Len(s)
        /\ U32At(r, 7) = c /\ U32At(r, 11) = q
        /\ \A i \in 1 .. Len(s) : r[14 + i] = s[i]
    BY <1>1, <2>1, <2>2
  <2>6. ASSUME x \in Seq(32 .. 126), Len(x) < Base PROVE ErrorText(r, 15) = x
    <3> DEFINE h == <<Len(x)>>
               n == Len(x)
    <3>1. n \in Nat
      BY <2>4, LenProperties
    <3>2. h \in Seq(Nat) /\ Len(h) = 1
      BY <3>1
    <3>3. s = h \o x
      BY <2>1, <2>6
    <3> HIDE DEF h
    <3>4. Len(s) = 1 + n /\ \A i \in 1 .. n : s[1 + i] = x[i]
      <4>1. Len(h \o x) = Len(h) + Len(x) /\ \A i \in 1 .. Len(x) : (h \o x)[Len(h) + i] = x[i]
        BY <2>4, <3>2, Glue
      <4> QED BY <3>2, <3>3, <4>1
    <3>5. Len(r) = 15 + n
      BY <2>5, <3>1, <3>4
    <3> DEFINE y == SubSeq(r, 15 + 1, Len(r))
    <3>6. ErrorText(r, 15) = y
      BY DEF ErrorText
    <3>7. y \in Seq(Nat) /\ Len(y) = n /\ \A i \in 1 .. n : y[i] = r[15 + i]
      <4> DEFINE a == 15
                 b == 15 + n
      <4>1. y = Slice(r, a, b)
        BY <3>5 DEF Slice
      <4>2. a \in Nat /\ b \in Nat /\ a <= b /\ b <= Len(r) /\ b - a = n /\ a = 15
        BY <3>1, <3>5
      <4>3. r \in Seq(Nat)
        BY <2>5
      <4> HIDE DEF a, b, y, r
      <4>4. /\ Slice(r, a, b) \in Seq(Nat) /\ Len(Slice(r, a, b)) = b - a
            /\ \A i \in 1 .. b - a : Slice(r, a, b)[i] = r[a + i]
        BY <4>2, <4>3, SliceType, SMTT(30)
      <4> QED BY <4>1, <4>2, <4>4
    <3> HIDE DEF y
    <3>8. \A i \in 1 .. n : y[i] = x[i]
      <4> SUFFICES ASSUME NEW i \in 1 .. n PROVE y[i] = x[i]
        OBVIOUS
      <4>1. 1 + i \in 1 .. 1 + n /\ 14 + (1 + i) = 15 + i
        BY <3>1
      <4>2. r[14 + (1 + i)] = s[1 + i]
        BY <2>5, <3>4, <4>1
      <4> QED BY <3>4, <3>7, <4>1, <4>2
    <3>9. y = x
      BY <2>4, <3>7, <3>8, SeqEqual
    <3> QED BY <3>6, <3>9
  <2> HIDE DEF r
  <2> QED BY <2>3, <2>5, <2>6 DEF r, e, t, x
<1> QED BY <1>2, <1>3

----------------------------------------------------------------------------
(* What is asked and what is answered                                       *)

\* A set of places has a last one.
LEMMA LastPlace ==
  ASSUME NEW n \in Nat, NEW I \in SUBSET (1 .. n), I # {}
  PROVE  \E k \in I : \A j \in I : j <= k
<1> DEFINE HasLast(J) == \E k \in J : \A j \in J : j <= k
           K == {m \in Nat : \A J \in SUBSET (1 .. m) : J # {} => HasLast(J)}
<1>1. 0 \in K
  <2>1. 1 .. 0 = {}
    OBVIOUS
  <2> QED BY <2>1
<1>2. ASSUME NEW m \in Nat, m \in K PROVE m + 1 \in K
  <2> SUFFICES ASSUME NEW J \in SUBSET (1 .. m + 1), J # {} PROVE HasLast(J)
    OBVIOUS
  <2>1. CASE m + 1 \in J
    <3>1. \A j \in J : j <= m + 1
      OBVIOUS
    <3> QED BY <2>1, <3>1
  <2>2. CASE m + 1 \notin J
    <3>1. J \in SUBSET (1 .. m)
      BY <2>2
    <3> HIDE DEF HasLast
    <3> QED BY <1>2, <3>1
  <2> QED BY <2>1, <2>2
<1> HIDE DEF K, HasLast
<1>3. \A m \in Nat : m \in K
  BY <1>1, <1>2, SetInduction
<1>4. HasLast(I)
  BY <1>3 DEF K
<1> QED BY <1>4 DEF HasLast

\* The places wanted of a sequence and of the longer one are the same.
LEMMA PickMore ==
  ASSUME NEW S, NEW s \in Seq(S), NEW x \in S, NEW I, NEW J,
         \A i \in 1 .. Len(s) : i \in I <=> i \in J
  PROVE  Pick(Append(s, x), J) = IF Len(s) + 1 \in J THEN Append(Pick(s, I), x) ELSE Pick(s, I)
<1>1. Pick(Append(s, x), J) = IF Len(s) + 1 \in J THEN Append(Pick(s, J), x) ELSE Pick(s, J)
  BY PickAppend
<1>2. Pick(s, I) = Pick(s, J)
  BY PickAgree
<1> QED BY <1>1, <1>2

\* The requests among the calls of the handlers.
Questions == Pick(handled, {i \in 1 .. Len(handled) : Asks(handled[i])})

\* One more call of a handler is one more question if it asks.
LEMMA OneMoreCall ==
  ASSUME NEW S, handled \in Seq(S), NEW x \in S, handled' = Append(handled, x), conn' = conn
  PROVE  Questions' = IF Asks(x) THEN Append(Questions, x) ELSE Questions
<1> DEFINE s == handled
           t == Append(s, x)
           I == {i \in 1 .. Len(s) : Asks(s[i])}
           J == {i \in 1 .. Len(t) : Asks(t[i])}
<1>1. Questions' = Pick(t, J)
  <2>1. Questions' = Pick(t, {i \in 1 .. Len(t) : IF conn.proto = "v1"
                       THEN t[i].method \in {"mining.subscribe", "mining.authorize", "mining.submit"}
                       ELSE t[i].type \in {sv2MsgSetupConnection, sv2MsgOpenStandardMiningChannel,
                                           sv2MsgSubmitSharesStandard}})
    BY Zenon DEF Questions, Asks
  <2> QED BY <2>1, Zenon DEF Asks
<1>2. Questions = Pick(s, I)
  BY DEF Questions
<1>3. s \in Seq(S) /\ Len(s) \in Nat /\ Len(t) = Len(s) + 1 /\ t[Len(s) + 1] = x
      /\ \A i \in 1 .. Len(s) : t[i] = s[i]
  BY AppendProperties, LenProperties
<1> HIDE DEF s
<1>4. \A i \in 1 .. Len(s) : i \in I <=> i \in J
  <2>1. \A i \in 1 .. Len(s) : i \in 1 .. Len(t)
    BY <1>3
  <2> HIDE DEF t
  <2> QED BY <1>3, <2>1
<1>5. Len(s) + 1 \in J <=> Asks(x)
  <2>1. Len(s) + 1 \in 1 .. Len(t)
    BY <1>3
  <2> HIDE DEF t
  <2> QED BY <1>3, <2>1
<1> HIDE DEF I, J
<1>6. Pick(t, J) = IF Len(s) + 1 \in J THEN Append(Pick(s, I), x) ELSE Pick(s, I)
  BY <1>3, <1>4, PickMore
<1> QED BY <1>1, <1>2, <1>5, <1>6

\* What of a sequence of frames or lines is a reply.
IsReply(r) == conn.proto = "v1" => r.result # "set_extranonce"
RepliesOf(o) ==
  IF conn.proto = "v1" THEN Pick(o, {i \in 1 .. Len(o) : o[i].result # "set_extranonce"}) ELSE o

\* The replies are a sequence of what is written.
LEMMA RepliesType ==
  ASSUME NEW S, NEW o \in Seq(S)
  PROVE  RepliesOf(o) \in Seq(S)
  BY PickType DEF RepliesOf

\* One more line or frame is one more reply, unless it is the extranonce.
LEMMA OneMoreReply ==
  ASSUME NEW S, NEW o \in Seq(S), NEW r \in S
  PROVE  RepliesOf(Append(o, r)) = IF IsReply(r) THEN Append(RepliesOf(o), r) ELSE RepliesOf(o)
<1> DEFINE t == Append(o, r)
           I == {i \in 1 .. Len(o) : o[i].result # "set_extranonce"}
           J == {i \in 1 .. Len(t) : t[i].result # "set_extranonce"}
<1>1. Len(o) \in Nat /\ Len(t) = Len(o) + 1 /\ t[Len(o) + 1] = r
      /\ \A i \in 1 .. Len(o) : t[i] = o[i]
  BY AppendProperties, LenProperties
<1>2. RepliesOf(o) = IF conn.proto = "v1" THEN Pick(o, I) ELSE o
  BY DEF RepliesOf
<1>3. RepliesOf(t) = IF conn.proto = "v1" THEN Pick(t, J) ELSE t
  BY DEF RepliesOf
<1>4. \A i \in 1 .. Len(o) : i \in I <=> i \in J
  <2>1. \A i \in 1 .. Len(o) : i \in 1 .. Len(t)
    BY <1>1
  <2> HIDE DEF t
  <2> QED BY <1>1, <2>1
<1>5. Len(o) + 1 \in J <=> r.result # "set_extranonce"
  <2>1. Len(o) + 1 \in 1 .. Len(t)
    BY <1>1
  <2> HIDE DEF t
  <2> QED BY <1>1, <2>1
<1> HIDE DEF I, J
<1>6. Pick(t, J) = IF Len(o) + 1 \in J THEN Append(Pick(o, I), r) ELSE Pick(o, I)
  BY <1>4, PickMore
<1> QED BY <1>2, <1>3, <1>5, <1>6 DEF IsReply

\* A request for the right to mine names an identity; an answer may grant it.
Claims(x) ==
  IF conn.proto = "v1" THEN x.method = "mining.authorize" /\ x.params # << >>
  ELSE x.type = sv2MsgOpenStandardMiningChannel /\ x.body.ok
Identity(x) == IF conn.proto = "v1" THEN x.params[1] ELSE x.body.identity
Grants(r) ==
  IF conn.proto = "v1" THEN r.result = "authorized" ELSE Kind(r) = sv2MsgOpenMiningChannelSuccess
Who == [wallet |-> ctx.wallet, worker |-> ctx.worker]

SaysWrongChannel(r) == Kind(r) = sv2MsgSubmitSharesError /\ ErrorText(r, 15) = Text("wrong channel")

\* The step answers x with r and does what r says.
GrantsAsTold(x, r) ==
  /\ Grants(r) => Claims(x) /\ Who' = ParseAuthorizeIdentity(Identity(x)) /\ Who'.wallet # None
  /\ ~Grants(r) => Who' = Who
ChannelAsTold(x, r) ==
  conn.proto = "v2" =>
    /\ Grants(r) => sv2' = [enabled |-> TRUE, channel |-> U32At(r, 11)] /\ U32At(r, 11) # 0
    /\ ~Grants(r) => sv2' = sv2
    /\ x.type = sv2MsgSubmitSharesStandard /\ x.body.ok => (WrongChannel(x.body) <=> SaysWrongChannel(r))
Exchange(x, r) ==
  /\ Questions' = Append(Questions, x) /\ Replies' = Append(Replies, r)
  /\ Answers(r, x) /\ GrantsAsTold(x, r) /\ ChannelAsTold(x, r)

\* The step asks and answers nothing, or ends the connection without an answer.
Quiet == Questions' = Questions /\ Replies' = Replies /\ Who' = Who /\ sv2' = sv2
Ends == /\ reader'.pc = "done" /\ Replies' = Replies
        /\ Questions' = Questions \/ \E x : Questions' = Append(Questions, x)

\* What is written is a sequence, and the context has its fields.
CtxIs(c) == c = [app |-> c.app, wallet |-> c.wallet, worker |-> c.worker]
Shapes == (\E S : out \in Seq(S)) /\ CtxIs(ctx) /\ nextChannelID \in Nat

\* The context with another application, with another wallet and worker, and with
\* the wallet that a dispatch goroutine writes back.
WithApp(c, a) == [c EXCEPT !.app = a]
WithWho(c, w, k) == [c EXCEPT !.wallet = w, !.worker = k]
WithWallet(c, w) == [c EXCEPT !.wallet = w]

\* Another application leaves the wallet and the worker.
LEMMA NewApp ==
  ASSUME NEW c, CtxIs(c), NEW a
  PROVE  LET d == WithApp(c, a) IN CtxIs(d) /\ d.wallet = c.wallet /\ d.worker = c.worker
<1>1. PICK x, y, z : c = [app |-> x, wallet |-> y, worker |-> z]
  BY DEF CtxIs
<1>2. c.wallet = y /\ c.worker = z
  BY <1>1
<1> DEFINE d == WithApp(c, a)
<1>3. d = [app |-> a, wallet |-> y, worker |-> z]
  BY <1>1 DEF WithApp
<1> HIDE DEF d
<1>4. d.app = a /\ d.wallet = y /\ d.worker = z
  BY <1>3
<1>5. CtxIs(d)
  BY <1>3, <1>4, Zenon DEF CtxIs
<1> QED BY <1>2, <1>4, <1>5 DEF d

\* Another wallet leaves the worker.
LEMMA NewWallet ==
  ASSUME NEW c, CtxIs(c), NEW w
  PROVE  LET d == WithWallet(c, w) IN CtxIs(d) /\ d.wallet = w /\ d.worker = c.worker
<1>1. PICK x, y, z : c = [app |-> x, wallet |-> y, worker |-> z]
  BY DEF CtxIs
<1>2. c.worker = z
  BY <1>1
<1> DEFINE d == WithWallet(c, w)
<1>3. d = [app |-> x, wallet |-> w, worker |-> z]
  BY <1>1 DEF WithWallet
<1> HIDE DEF d
<1>4. d.app = x /\ d.wallet = w /\ d.worker = z
  BY <1>3
<1>5. CtxIs(d)
  BY <1>3, <1>4, Zenon DEF CtxIs
<1> QED BY <1>2, <1>4, <1>5 DEF d

\* Another wallet and worker.
LEMMA NewWho ==
  ASSUME NEW c, CtxIs(c), NEW w, NEW k
  PROVE  LET d == WithWho(c, w, k) IN CtxIs(d) /\ d.wallet = w /\ d.worker = k
<1>1. PICK x, y, z : c = [app |-> x, wallet |-> y, worker |-> z]
  BY DEF CtxIs
<1> DEFINE e == [c EXCEPT !.wallet = w]
           d == WithWho(c, w, k)
<1>2. e = [app |-> x, wallet |-> w, worker |-> z]
  BY <1>1
<1>3. d = [e EXCEPT !.worker = k]
  BY Zenon DEF WithWho
<1> HIDE DEF d, e
<1>4. d = [app |-> x, wallet |-> w, worker |-> k]
  BY <1>2, <1>3
<1>5. d.app = x /\ d.wallet = w /\ d.worker = k
  BY <1>4
<1>6. CtxIs(d)
  BY <1>4, <1>5, Zenon DEF CtxIs
<1> QED BY <1>5, <1>6 DEF d

\* A sequence remains one when something is appended.
LEMMA StillSequence ==
  ASSUME NEW s, \E S : s \in Seq(S), NEW x
  PROVE  \E S : s \in Seq(S) /\ x \in S /\ Append(s, x) \in Seq(S)
<1>1. PICK S : s \in Seq(S)
  OBVIOUS
<1> DEFINE T == S \union {x}
<1>2. s \in Seq(T) /\ x \in T
  <2>1. S \subseteq T /\ x \in T
    OBVIOUS
  <2> HIDE DEF T
  <2>2. s \in Seq(T)
    BY <1>1, <2>1, SeqMonotonic, Zenon
  <2> QED BY <2>1, <2>2
<1> HIDE DEF T
<1>3. Append(s, x) \in Seq(T)
  BY <1>2, AppendProperties
<1> QED BY <1>2, <1>3

\* No identity is no wallet.
LEMMA NoIdentity == ParseAuthorizeIdentity(<< >>).wallet = None
<1> DEFINE e == << >>
<1>1. Len(e) = 0 /\ 1 .. Len(e) = {}
  OBVIOUS
<1>2. e \in Seq(Nat)
  OBVIOUS
<1>3. Reverse(e) = e
  <2>1. Reverse(e) = [i \in 1 .. Len(e) |-> e[(Len(e) - i) + 1]]
    BY DEF Reverse
  <2>2. [i \in 1 .. 0 |-> e[(0 - i) + 1]] \in Seq(Nat)
    OBVIOUS
  <2> QED BY <2>1
<1> HIDE DEF e
<1>4. Before(e, LAMBDA b : b = Dot) = e
  <2>1. SelectInSeq(e, LAMBDA b : b = Dot)
          = IF {i \in 1 .. Len(e) : e[i] = Dot} # {} THEN Min({i \in 1 .. Len(e) : e[i] = Dot}) ELSE 0
    BY Zenon DEF SelectInSeq
  <2>2. {i \in 1 .. Len(e) : e[i] = Dot} = {}
    BY <1>1
  <2>3. SelectInSeq(e, LAMBDA b : b = Dot) = 0
    BY <2>1, <2>2
  <2> QED BY <2>3, Zenon DEF Before
<1>5. Before(e, LAMBDA b : b \in Separators) = e
  <2>1. SelectInSeq(e, LAMBDA b : b \in Separators)
          = IF {i \in 1 .. Len(e) : e[i] \in Separators} # {}
              THEN Min({i \in 1 .. Len(e) : e[i] \in Separators}) ELSE 0
    BY Zenon DEF SelectInSeq
  <2>2. {i \in 1 .. Len(e) : e[i] \in Separators} = {}
    BY <1>1
  <2>3. SelectInSeq(e, LAMBDA b : b \in Separators) = 0
    BY <2>1, <2>2
  <2> QED BY <2>3, Zenon DEF Before
<1>6. TrimLeft(e) = e
  <2>1. SelectInSeq(e, LAMBDA b : b \notin Blank \union {NL})
          = IF {i \in 1 .. Len(e) : e[i] \notin Blank \union {NL}} # {}
              THEN Min({i \in 1 .. Len(e) : e[i] \notin Blank \union {NL}}) ELSE 0
    BY Zenon DEF SelectInSeq
  <2>2. {i \in 1 .. Len(e) : e[i] \notin Blank \union {NL}} = {}
    BY <1>1
  <2>3. SelectInSeq(e, LAMBDA b : b \notin Blank \union {NL}) = 0
    BY <2>1, <2>2
  <2> QED BY <2>3, Zenon DEF TrimLeft, None, e
<1>7. TrimSpace(e) = e
  BY <1>3, <1>6, Zenon DEF TrimSpace
<1>8. CleanWallet(e) = None
  BY <1>5, <1>7, Zenon DEF CleanWallet, None, e
<1>9. ParseAuthorizeIdentity(e).wallet = CleanWallet(Before(e, LAMBDA b : b = Dot))
  BY DEF ParseAuthorizeIdentity
<1> QED BY <1>4, <1>8, <1>9 DEF e

\* The frame that is taken is a request, or of no interest.
LEMMA FrameAsks ==
  ASSUME TypeInv, FrameInv, Understood, NEW types, NEW body, FrameTaken(types, body)
  PROVE  LET x == [type |-> reader.type, body |-> body]
         IN  /\ conn.proto = "v2" /\ conn' = conn /\ Payload \in Seq(Byte) /\ reader.type \in types
             /\ Questions' = IF Asks(x) THEN Append(Questions, x) ELSE Questions
<1> DEFINE x == [type |-> reader.type, body |-> body]
<1>1. /\ reader.pc = "payload" /\ Len(Available) >= reader.need /\ reader.type \in types
      /\ conn' = conn /\ handled' = Append(handled, x)
  BY DEF FrameTaken, TakeFrame, Handle
<1>2. PICK h, T, off, pos, e : Calls(h) /\ Reading(h, T, off, pos, e)
  <2>1. reader.pc # "done"
    BY <1>1
  <2> QED BY <2>1 DEF FrameInv
<1>3. conn.proto = "v2" /\ Payload \in Seq(Byte)
  BY <1>1, <1>2, FrameMeans
<1>4. \E S : handled \in Seq(S)
  BY <1>2 DEF Calls, HandledOf
<1> HIDE DEF x
<1>5. PICK S : handled \in Seq(S) /\ x \in S
  BY <1>4, StillSequence
<1>6. Questions' = IF Asks(x) THEN Append(Questions, x) ELSE Questions
  BY <1>1, <1>5, OneMoreCall
<1> QED BY <1>1, <1>3, <1>6 DEF x

\* Every frame is a reply.
LEMMA FramesAreReplies ==
  ASSUME conn.proto = "v2", conn' = conn
  PROVE  Replies = out /\ Replies' = out'
  BY Zenon DEF Replies

\* When a frame answers a request.
LEMMA AnswersIs ==
  ASSUME conn.proto = "v2", NEW r, WellFramed(r), NEW x
  PROVE  /\ /\ x.type = sv2MsgSetupConnection
            /\ Kind(r) = IF x.body.ok THEN sv2MsgSetupConnectionSuccess ELSE sv2MsgSetupConnectionError
            => Answers(r, x)
         /\ /\ x.type = sv2MsgOpenStandardMiningChannel /\ U32At(r, 7) = x.body.request
            /\ \/ Kind(r) = sv2MsgOpenMiningChannelError
               \/ /\ Kind(r) = sv2MsgOpenMiningChannelSuccess
                  /\ \E d \in StratumDiffs : NumberAt(r, 15, HashLen) = MaxTarget \div AtLeast(d)
            => Answers(r, x)
         /\ /\ x.type = sv2MsgSubmitSharesStandard
            /\ IF x.body.ok
                 THEN /\ Kind(r) \in {sv2MsgSubmitSharesSuccess, sv2MsgSubmitSharesError}
                      /\ U32At(r, 7) = x.body.channel /\ U32At(r, 11) = x.body.sequence
                 ELSE Kind(r) = sv2MsgSubmitSharesError /\ U32At(r, 7) = 0 /\ U32At(r, 11) = 0
            => Answers(r, x)
<1> DEFINE A == Kind(r) = IF x.body.ok THEN sv2MsgSetupConnectionSuccess ELSE sv2MsgSetupConnectionError
           B == /\ Kind(r) \in {sv2MsgOpenMiningChannelSuccess, sv2MsgOpenMiningChannelError}
                /\ U32At(r, 7) = x.body.request
                /\ Kind(r) = sv2MsgOpenMiningChannelSuccess =>
                     \E d \in StratumDiffs : NumberAt(r, 15, HashLen) = MaxTarget \div AtLeast(d)
           C == IF x.body.ok
                  THEN /\ Kind(r) \in {sv2MsgSubmitSharesSuccess, sv2MsgSubmitSharesError}
                       /\ U32At(r, 7) = x.body.channel /\ U32At(r, 11) = x.body.sequence
                  ELSE Kind(r) = sv2MsgSubmitSharesError /\ U32At(r, 7) = 0 /\ U32At(r, 11) = 0
           t == x.type
<1>1. Answers(r, x) <=> /\ WellFramed(r)
                        /\ CASE t = sv2MsgSetupConnection -> A
                             [] t = sv2MsgOpenStandardMiningChannel -> B
                             [] OTHER -> C
  BY Zenon DEF Answers
<1>2. sv2MsgOpenMiningChannelSuccess # sv2MsgOpenMiningChannelError
  BY DEF sv2MsgOpenMiningChannelSuccess, sv2MsgOpenMiningChannelError
<1>3. /\ t = sv2MsgOpenStandardMiningChannel => t # sv2MsgSetupConnection
      /\ t = sv2MsgSubmitSharesStandard => t # sv2MsgSetupConnection /\ t # sv2MsgOpenStandardMiningChannel
  BY DEF sv2MsgSetupConnection, sv2MsgOpenStandardMiningChannel, sv2MsgSubmitSharesStandard
<1>4. /\ U32At(r, 7) = x.body.request
      /\ \/ Kind(r) = sv2MsgOpenMiningChannelError
         \/ /\ Kind(r) = sv2MsgOpenMiningChannelSuccess
            /\ \E d \in StratumDiffs : NumberAt(r, 15, HashLen) = MaxTarget \div AtLeast(d)
      => B
  BY <1>2, Zenon
<1> HIDE DEF A, B, C, t
<1>5. /\ t = sv2MsgSetupConnection /\ A => Answers(r, x)
      /\ t = sv2MsgOpenStandardMiningChannel /\ B => Answers(r, x)
      /\ t = sv2MsgSubmitSharesStandard /\ C => Answers(r, x)
  BY <1>1, <1>3, Zenon
<1> QED BY <1>4, <1>5 DEF A, C, t

\* The kinds of frames differ.
LEMMA KindsDiffer ==
  /\ sv2MsgSetupConnectionSuccess # sv2MsgOpenMiningChannelSuccess
  /\ sv2MsgSetupConnectionError # sv2MsgOpenMiningChannelSuccess
  /\ sv2MsgOpenMiningChannelError # sv2MsgOpenMiningChannelSuccess
  /\ sv2MsgSubmitSharesSuccess # sv2MsgOpenMiningChannelSuccess
  /\ sv2MsgSubmitSharesError # sv2MsgOpenMiningChannelSuccess
  /\ sv2MsgSubmitSharesSuccess # sv2MsgSubmitSharesError
  /\ sv2MsgSetupConnection # sv2MsgSubmitSharesStandard
  /\ sv2MsgOpenStandardMiningChannel # sv2MsgSubmitSharesStandard
  BY DEF sv2MsgSetupConnection, sv2MsgSetupConnectionSuccess, sv2MsgSetupConnectionError,
    sv2MsgOpenStandardMiningChannel, sv2MsgOpenMiningChannelSuccess, sv2MsgOpenMiningChannelError,
    sv2MsgSubmitSharesStandard, sv2MsgSubmitSharesSuccess, sv2MsgSubmitSharesError

\* A request that is answered with r, or ends the connection without.
LEMMA WrittenOrNot ==
  ASSUME TypeInv
  PROVE  /\ \A ext, type, payload : Write(ext, type, payload) =>
              \/ out' = Append(out, encodeSV2Frame(ext, type, payload))
              \/ out' = out /\ reader'.pc = "done"
         /\ \A ext, type, payload : WriteAndEnd(ext, type, payload) =>
              \/ out' = Append(out, encodeSV2Frame(ext, type, payload))
              \/ out' = out /\ reader'.pc = "done"
<1>1. \A why : End(why) => reader'.pc = "done"
  BY ReaderSteps
<1> QED BY <1>1, Zenon DEF Write, WriteAndEnd

\* The answer to a request, once it is written, is all of the exchange.
LEMMA OneExchange ==
  ASSUME conn.proto = "v2", conn' = conn, NEW x, NEW r, Questions' = Append(Questions, x),
         out' = Append(out, r) \/ (out' = out /\ reader'.pc = "done"),
         Answers(r, x), GrantsAsTold(x, r), ChannelAsTold(x, r)
  PROVE  Ends \/ Exchange(x, r)
<1>1. Replies = out /\ Replies' = out'
  BY FramesAreReplies
<1> QED BY <1>1, Zenon DEF Ends, Exchange

\* A setup message is answered for what it is.
LEMMA SetupExchange ==
  ASSUME TypeInv, FrameInv, Understood, Shapes, SetupConnection
  PROVE  Ends \/ \E x, r : Exchange(x, r)
<1> DEFINE p == parseSV2SetupConnectionPayload(Payload)
           x == [type |-> reader.type, body |-> p]
           a == encodeSV2Frame(sv2ExtStandard, sv2MsgSetupConnectionSuccess,
                               encodeSV2SetupConnectionSuccessPayload(2, 0))
           b == encodeSV2Frame(sv2ExtStandard, sv2MsgSetupConnectionError,
                               encodeSV2SetupConnectionErrorPayload(0, "malformed setup connection"))
<1>1. /\ IF p.ok THEN /\ ctx' = IF p.app = None THEN ctx ELSE [ctx EXCEPT !.app = p.app]
                      /\ Write(sv2ExtStandard, sv2MsgSetupConnectionSuccess,
                               encodeSV2SetupConnectionSuccessPayload(2, 0))
                 ELSE /\ ctx' = ctx
                      /\ WriteAndEnd(sv2ExtStandard, sv2MsgSetupConnectionError,
                             encodeSV2SetupConnectionErrorPayload(0, "malformed setup connection"))
      /\ sv2' = sv2
  BY Zenon DEF SetupConnection
<1>2. /\ conn.proto = "v2" /\ conn' = conn /\ reader.type = sv2MsgSetupConnection
      /\ Questions' = IF Asks(x) THEN Append(Questions, x) ELSE Questions
  <2>1. FrameTaken({sv2MsgSetupConnection}, p)
    BY FrameShape
  <2> QED BY <2>1, FrameAsks
<1>3. x.type = sv2MsgSetupConnection /\ x.body = p
  BY <1>2
<1>4. /\ WellFramed(a) /\ Kind(a) = sv2MsgSetupConnectionSuccess
      /\ WellFramed(b) /\ Kind(b) = sv2MsgSetupConnectionError
  BY SetupAnswered
<1> DEFINE r == IF p.ok THEN a ELSE b
<1>5. out' = Append(out, r) \/ (out' = out /\ reader'.pc = "done")
  BY <1>1, WrittenOrNot, Zenon
<1> HIDE DEF a, b, x, p
<1>6. Asks(x)
  BY <1>2, <1>3 DEF Asks
<1>7. Answers(r, x)
  <2>1. WellFramed(r)
    BY <1>4
  <2>2. Kind(r) = IF x.body.ok THEN sv2MsgSetupConnectionSuccess ELSE sv2MsgSetupConnectionError
    BY <1>3, <1>4
  <2> HIDE DEF r
  <2> QED BY <1>2, <1>3, <2>1, <2>2, AnswersIs
<1>8. ~Grants(r)
  BY <1>2, <1>4, KindsDiffer DEF Grants
<1>9. Who' = Who
  <2>1. ctx' = ctx \/ ctx' = WithApp(ctx, p.app)
    BY <1>1, Zenon DEF WithApp
  <2>2. CtxIs(ctx)
    BY DEF Shapes
  <2>3. ctx'.wallet = ctx.wallet /\ ctx'.worker = ctx.worker
    BY <2>1, <2>2, NewApp
  <2> QED BY <2>3 DEF Who
<1> HIDE DEF r
<1>10. GrantsAsTold(x, r) /\ ChannelAsTold(x, r)
  BY <1>1, <1>3, <1>8, <1>9, KindsDiffer DEF GrantsAsTold, ChannelAsTold
<1> QED BY <1>2, <1>5, <1>6, <1>7, <1>10, OneExchange

\* There are channel ids beside 0 and 1.
LEMMA ManyChannels == Values(4) \in Nat /\ Values(4) > 1
<1>1. Base \in Nat /\ Base > 33
  BY BaseAssumption
<1> DEFINE v == Values(3)
<1>2. v \in Nat /\ v > 1 /\ v = Base * (Base * Base)
  BY <1>1, WideValues, RoomForAnswers
<1>3. Values(4) = Base * v
  <2>1. Values(4) = Base * (Base * (Base * Base))
    BY WideValues
  <2> QED BY <1>2, <2>1
<1>4. v > 1
  BY <1>2
<1> HIDE DEF v
<1>5. \A m, n \in Nat : m <= n => Base * m <= Base * n
  BY <1>1
<1>6. Base * 1 <= Base * v /\ Base * v \in Nat
  BY <1>1, <1>2, <1>5
<1> QED BY <1>1, <1>3, <1>6

\* The numbers of a request have their width.
LEMMA OpenNumbers ==
  ASSUME NEW b \in Seq(Byte)
  PROVE  OpenMeans(b).request \in Nat /\ OpenMeans(b).request < Values(4)
<1>1. Len(b) \in Nat /\ Values(4) \in Nat /\ Values(4) > 0
  <2>1. Len(b) \in Nat
    BY LenProperties
  <2>2. Values(4) \in Nat /\ Values(4) > 0
    BY ManyChannels
  <2> QED BY <2>1, <2>2
<1>2. (OpenMeans(b).request = U32At(b, 1) /\ 4 <= Len(b)) \/ OpenMeans(b).request = 0
  <2>1. CASE 5 <= Len(b) /\ After(b, 5) + 3 + HashLen <= Len(b)
    <3>1. OpenMeans(b) = [ok |-> TRUE, request |-> U32At(b, 1), identity |-> TextAt(b, 5)]
      BY <2>1, Zenon DEF OpenMeans
    <3> QED BY <1>1, <2>1, <3>1
  <2>2. CASE ~(5 <= Len(b) /\ After(b, 5) + 3 + HashLen <= Len(b))
    <3> DEFINE q == IF Len(b) < 4 THEN 0 ELSE U32At(b, 1)
    <3>1. OpenMeans(b) = [ok |-> FALSE, request |-> q, identity |-> << >>]
      BY <2>2, Zenon DEF OpenMeans
    <3>2. q = 0 \/ (q = U32At(b, 1) /\ 4 <= Len(b))
      BY <1>1
    <3> HIDE DEF q
    <3> QED BY <3>1, <3>2
  <2> QED BY <2>1, <2>2
<1>3. 4 <= Len(b) => U32At(b, 1) \in Nat /\ U32At(b, 1) < Values(4)
  <2> DEFINE i == 1
  <2>1. i \in Nat /\ i # 0 /\ i + 3 = 4
    OBVIOUS
  <2> HIDE DEF i
  <2>2. 4 <= Len(b) => U32At(b, i) \in Nat /\ U32At(b, i) < Values(4)
    BY <2>1, U32Small
  <2> QED BY <2>2 DEF i
<1> QED BY <1>1, <1>2, <1>3

\* The numbers of a share have their width.
LEMMA SubmitNumbers ==
  ASSUME NEW b \in Seq(Byte), SubmitMeans(b).ok
  PROVE  LET p == SubmitMeans(b)
         IN  p.channel \in Nat /\ p.channel < Values(4) /\ p.sequence \in Nat /\ p.sequence < Values(4)
<1> DEFINE p == SubmitMeans(b)
<1>1. Len(b) \in Nat
  BY LenProperties
<1>2. Len(b) >= 24
  BY DEF SubmitMeans
<1>3. p.channel = U32At(b, 1) /\ p.sequence = U32At(b, 5)
  BY <1>2 DEF SubmitMeans
<1>4. \A i \in Nat : i # 0 /\ i + 3 <= 24 => U32At(b, i) \in Nat /\ U32At(b, i) < Values(4)
  <2> SUFFICES ASSUME NEW i \in Nat, i # 0, i + 3 <= 24 PROVE U32At(b, i) \in Nat /\ U32At(b, i) < Values(4)
    OBVIOUS
  <2>1. i + 3 <= Len(b)
    BY <1>1, <1>2
  <2> QED BY <2>1, U32Small
<1>5. PICK i, j : i = 1 /\ j = 5
  OBVIOUS
<1>6. /\ U32At(b, i) \in Nat /\ U32At(b, i) < Values(4)
      /\ U32At(b, j) \in Nat /\ U32At(b, j) < Values(4)
  <2>1. i \in Nat /\ i # 0 /\ i + 3 <= 24 /\ j \in Nat /\ j # 0 /\ j + 3 <= 24
    BY <1>5
  <2> QED BY <1>4, <2>1
<1>7. p.channel = U32At(b, i) /\ p.sequence = U32At(b, j)
  BY <1>3, <1>5
<1> HIDE DEF p
<1> QED BY <1>6, <1>7 DEF p

\* A channel is refused under the id of the request, and no wallet changes.
LEMMA RefuseExchange ==
  ASSUME TypeInv, FrameInv, Understood, Shapes, RefuseChannel
  PROVE  Ends \/ \E x, r : Exchange(x, r)
<1> DEFINE P == Payload
           p == parseSV2OpenStandardChannelPayload(P)
           q == OpenRequest(p)
           w == OpenRefusal(p)
           o == OpenBody(P)
           x == [type |-> reader.type, body |-> o]
           r == encodeSV2Frame(sv2ExtStandard, sv2MsgOpenMiningChannelError,
                               encodeSV2OpenChannelErrorPayload(q, w))
<1>1. /\ w # "none" /\ ctx' = ctx /\ sv2' = sv2
      /\ WriteAndEnd(sv2ExtStandard, sv2MsgOpenMiningChannelError, encodeSV2OpenChannelErrorPayload(q, w))
  BY Zenon DEF RefuseChannel, handlerVars
<1>2. /\ conn.proto = "v2" /\ conn' = conn /\ reader.type = sv2MsgOpenStandardMiningChannel
      /\ P \in Seq(Byte)
      /\ Questions' = IF Asks(x) THEN Append(Questions, x) ELSE Questions
  <2>1. FrameTaken({sv2MsgOpenStandardMiningChannel}, o)
    BY FrameShape
  <2> QED BY <2>1, FrameAsks
<1>3. x.type = sv2MsgOpenStandardMiningChannel /\ x.body = o
  BY <1>2
<1>4. w \in {"malformed open channel", "setup not complete", "invalid wallet"}
  BY <1>1 DEF OpenRefusal
<1>5. q = o.request
  <2> DEFINE v == IF p.ok THEN p.request ELSE readSV2RequestID(P)
  <2>1. p = [ok |-> p.ok, request |-> p.request, identity |-> p.identity]
    <3> DEFINE c == Parse(P, OpenLayout)
    <3>1. p = IF c.ok THEN [ok |-> TRUE, request |-> Uint32(c.fields[1]), identity |-> c.fields[2]]
              ELSE [ok |-> FALSE, request |-> 0, identity |-> << >>]
      BY Zenon DEF parseSV2OpenStandardChannelPayload
    <3> HIDE DEF p, c
    <3> QED BY <3>1
  <2>2. o = [p EXCEPT !.request = v]
    BY Zenon DEF OpenBody
  <2>3. q = v
    BY Zenon DEF OpenRequest
  <2> HIDE DEF p, v, o
  <2>4. o.request = v
    BY <2>1, <2>2
  <2> QED BY <2>3, <2>4
<1>6. q \in Nat /\ q < Values(4)
  <2>1. o = OpenMeans(P)
    BY <1>2, OpenParsed
  <2>2. OpenMeans(P).request \in Nat /\ OpenMeans(P).request < Values(4)
    BY <1>2, OpenNumbers
  <2> HIDE DEF q, o, P
  <2> QED BY <1>5, <2>1, <2>2
<1>7. Text(w) \in Seq(Nat)
  <2> HIDE DEF w
  <2> QED BY <1>4, TextAssumption
<1>8. out' = Append(out, r) \/ (out' = out /\ reader'.pc = "done")
  BY <1>1, WrittenOrNot, Zenon
<1>9. WellFramed(r) /\ Kind(r) = sv2MsgOpenMiningChannelError /\ U32At(r, 7) = q
  <2> HIDE DEF q, w
  <2>1. LET a == encodeSV2Frame(sv2ExtStandard, sv2MsgOpenMiningChannelError,
                                encodeSV2OpenChannelErrorPayload(q, w))
        IN  WellFramed(a) /\ Kind(a) = sv2MsgOpenMiningChannelError /\ U32At(a, 7) = q
    BY <1>6, <1>7, ChannelRefused
  <2> QED BY <2>1
<1> HIDE DEF r, q, o, w, p, P
<1>10. Asks(x)
  BY <1>2, <1>3 DEF Asks
<1> HIDE DEF x
<1>11. Answers(r, x)
  <2>1. U32At(r, 7) = x.body.request
    BY <1>3, <1>5, <1>9
  <2> QED BY <1>2, <1>3, <1>9, <2>1, AnswersIs
<1>12. ~Grants(r)
  BY <1>2, <1>9, KindsDiffer DEF Grants
<1>13. GrantsAsTold(x, r) /\ ChannelAsTold(x, r)
  BY <1>1, <1>3, <1>12, KindsDiffer DEF GrantsAsTold, ChannelAsTold, Who
<1> QED BY <1>2, <1>8, <1>10, <1>11, <1>13, OneExchange

\* The next channel id has the width of the field and is not 0.
LEMMA ChannelIdType ==
  ASSUME nextChannelID \in Nat
  PROVE  NextChannel \in Nat /\ NextChannel < Values(4) /\ NextChannel # 0
<1> DEFINE v == Values(4)
           n == (nextChannelID + 1) % v
<1>1. v \in Nat /\ v > 1
  BY ManyChannels
<1>2. NextChannel = IF n = 0 THEN 1 ELSE n
  BY Zenon DEF NextChannel
<1> HIDE DEF v
<1>3. n \in 0 .. v - 1
  BY <1>1
<1> HIDE DEF n
<1>4. NextChannel \in Nat /\ NextChannel < v /\ NextChannel # 0
  BY <1>1, <1>2, <1>3
<1> QED BY <1>4 DEF v

\* A channel is granted under the id of the request, with the wallet and the id that the handler keeps.
LEMMA OpenExchange ==
  ASSUME TypeInv, FrameInv, Understood, Shapes, OpenChannel
  PROVE  Ends \/ \E x, r : Exchange(x, r)
<1> DEFINE P == Payload
           p == parseSV2OpenStandardChannelPayload(P)
           who == ParseAuthorizeIdentity(p.identity)
           c == NextChannel
           x == [type |-> reader.type, body |-> p]
<1>1. /\ OpenRefusal(p) = "none" /\ sv2' = [enabled |-> TRUE, channel |-> c]
      /\ ctx' = [ctx EXCEPT !.wallet = who.wallet, !.worker = who.worker]
      /\ \E diff \in StratumDiffs :
           Write(sv2ExtStandard, sv2MsgOpenMiningChannelSuccess,
                 encodeSV2OpenChannelSuccessPayload(p.request, c, diffToSV2TargetLE(diff)))
  BY Zenon DEF OpenChannel
<1>2. /\ conn.proto = "v2" /\ conn' = conn /\ reader.type = sv2MsgOpenStandardMiningChannel
      /\ P \in Seq(Byte)
      /\ LET y == [type |-> reader.type, body |-> OpenBody(P)]
         IN  Questions' = IF Asks(y) THEN Append(Questions, y) ELSE Questions
  <2>1. FrameTaken({sv2MsgOpenStandardMiningChannel}, OpenBody(P))
    BY FrameShape
  <2> QED BY <2>1, FrameAsks
<1>3. p.ok
  BY <1>1, Zenon DEF OpenRefusal
<1>4. p = OpenMeans(P) /\ OpenBody(P) = p
  BY <1>2, <1>3, OpenParsed
<1>5. x.type = sv2MsgOpenStandardMiningChannel /\ x.body = p /\ x.body.ok
  BY <1>2, <1>3
<1>6. Asks(x)
  BY <1>2, <1>5 DEF Asks
<1>7. Questions' = Append(Questions, x)
  BY <1>2, <1>4, <1>6
<1>8. p.request \in Nat /\ p.request < Values(4)
  <2>1. OpenMeans(P).request \in Nat /\ OpenMeans(P).request < Values(4)
    BY <1>2, OpenNumbers
  <2> HIDE DEF p, P
  <2> QED BY <1>4, <2>1
<1>9. c \in Nat /\ c < Values(4) /\ c # 0
  BY ChannelIdType DEF Shapes
<1>10. PICK d \in StratumDiffs :
         Write(sv2ExtStandard, sv2MsgOpenMiningChannelSuccess,
               encodeSV2OpenChannelSuccessPayload(p.request, c, diffToSV2TargetLE(d)))
  BY <1>1
<1> DEFINE q == p.request
           r == encodeSV2Frame(sv2ExtStandard, sv2MsgOpenMiningChannelSuccess,
                               encodeSV2OpenChannelSuccessPayload(q, c, diffToSV2TargetLE(d)))
<1>11. out' = Append(out, r) \/ (out' = out /\ reader'.pc = "done")
  BY <1>10, WrittenOrNot, Zenon
<1>12. /\ WellFramed(r) /\ Kind(r) = sv2MsgOpenMiningChannelSuccess
       /\ U32At(r, 7) = q /\ U32At(r, 11) = c
       /\ NumberAt(r, 15, HashLen) = MaxTarget \div AtLeast(d)
  <2>1. q \in Nat /\ q < Values(4)
    BY <1>8
  <2> HIDE DEF q, c
  <2>2. LET a == encodeSV2Frame(sv2ExtStandard, sv2MsgOpenMiningChannelSuccess,
                                encodeSV2OpenChannelSuccessPayload(q, c, diffToSV2TargetLE(d)))
        IN  /\ WellFramed(a) /\ Kind(a) = sv2MsgOpenMiningChannelSuccess
            /\ U32At(a, 7) = q /\ U32At(a, 11) = c
            /\ NumberAt(a, 15, HashLen) = MaxTarget \div AtLeast(d)
    BY <1>9, <2>1, ChannelGranted
  <2> QED BY <2>2
<1>13. U32At(r, 7) = x.body.request
  BY <1>5, <1>12
<1> HIDE DEF r, q, c
<1>14. Who' = ParseAuthorizeIdentity(x.body.identity)
  <2>0. PICK w, k : w = who.wallet /\ k = who.worker
    OBVIOUS
  <2>1. CtxIs(ctx)
    BY DEF Shapes
  <2>2. who = [wallet |-> who.wallet, worker |-> who.worker]
    BY Zenon DEF ParseAuthorizeIdentity
  <2>3. x.body.identity = p.identity
    BY <1>5
  <2> HIDE DEF x, p
  <2>4. ctx'.wallet = who.wallet /\ ctx'.worker = who.worker
    <3> HIDE DEF who
    <3>1. ctx' = WithWho(ctx, w, k)
      BY <1>1, <2>0, Zenon DEF WithWho
    <3>2. ctx'.wallet = w /\ ctx'.worker = k
      BY <2>1, <3>1, NewWho
    <3> QED BY <2>0, <3>2
  <2>5. who = ParseAuthorizeIdentity(x.body.identity)
    BY <2>3
  <2> HIDE DEF who
  <2> QED BY <2>2, <2>4, <2>5 DEF Who
<1>15. ParseAuthorizeIdentity(x.body.identity).wallet # None
  <2>1. who.wallet # None
    BY <1>1, Zenon DEF OpenRefusal
  <2> QED BY <1>5, <2>1
<1> HIDE DEF x, p, P
<1>16. Answers(r, x)
  BY <1>2, <1>5, <1>12, <1>13, AnswersIs
<1>17. Grants(r) /\ Claims(x) /\ Identity(x) = x.body.identity
  BY <1>2, <1>5, <1>12 DEF Grants, Claims, Identity
<1>18. GrantsAsTold(x, r)
  BY <1>14, <1>15, <1>17 DEF GrantsAsTold
<1>19. ChannelAsTold(x, r)
  BY <1>1, <1>5, <1>9, <1>12, <1>17, KindsDiffer DEF ChannelAsTold
<1> QED BY <1>2, <1>7, <1>11, <1>16, <1>18, <1>19, OneExchange

\* The texts of the errors for a share.
LEMMA ShareErrorTexts ==
  /\ Text("malformed submit") \in Seq(Nat)
  /\ \A s \in {"wrong channel", "stale share", "duplicate share", "low difficulty", "invalid share"} :
       /\ Text(s) \in Seq(Nat) /\ Text(s) \in Seq(32 .. 126) /\ Len(Text(s)) < Base
       /\ Text(s) = Text("wrong channel") => s = "wrong channel"
<1>1. ASSUME NEW t \in Seq(32 .. 126) PROVE t \in Seq(Nat)
  <2>1. 32 .. 126 \subseteq Nat
    OBVIOUS
  <2> QED BY <2>1, SeqMonotonic
<1>2. \A s \in {"wrong channel", "stale share", "duplicate share", "low difficulty", "invalid share"} :
        /\ Text(s) \in Seq(32 .. 126) /\ Len(Text(s)) < Base
        /\ Text(s) = Text("wrong channel") => s = "wrong channel"
  BY TextAssumption
<1>3. Text("malformed submit") \in Seq(Nat)
  BY TextAssumption
<1> QED BY <1>1, <1>2, <1>3, ZenonT(40)

\* A share is answered under its number, and refused for its channel if it names
\* another; one that could not be parsed is refused under 0.
LEMMA SubmitExchange ==
  ASSUME TypeInv, FrameInv, Understood, Shapes, SubmitShare
  PROVE  Ends \/ \E x, r : Exchange(x, r)
<1> DEFINE P == Payload
           p == parseSV2SubmitSharePayload(P)
           x == [type |-> reader.type, body |-> p]
           c == p.channel
           q == p.sequence
           E(why) == encodeSV2Frame(sv2ExtChannel, sv2MsgSubmitSharesError, encodeSV2SubmitErrorPayload(c, q, why))
           good == encodeSV2Frame(sv2ExtChannel, sv2MsgSubmitSharesSuccess, encodeSV2SubmitSuccessPayload(c, q))
           wrong == WrongChannel(p)
           W(r) == out' = Append(out, r) \/ (out' = out /\ reader'.pc = "done")
<1>1. /\ conn.proto = "v2" /\ conn' = conn /\ reader.type = sv2MsgSubmitSharesStandard
      /\ P \in Seq(Byte)
      /\ Questions' = IF Asks(x) THEN Append(Questions, x) ELSE Questions
  <2>1. FrameTaken({sv2MsgSubmitSharesStandard}, p)
    BY FrameShape
  <2> QED BY <2>1, FrameAsks
<1>2. x.type = sv2MsgSubmitSharesStandard /\ x.body = p
  BY <1>1
<1>3. ctx' = ctx /\ sv2' = sv2
  BY Zenon DEF SubmitShare, handlerVars
<1>4. p.ok => c \in Nat /\ c < Values(4) /\ q \in Nat /\ q < Values(4)
  <2>1. p = SubmitMeans(P)
    BY <1>1, SubmitParsed
  <2> DEFINE m == SubmitMeans(P)
  <2>2. m.ok => m.channel \in Nat /\ m.channel < Values(4) /\ m.sequence \in Nat /\ m.sequence < Values(4)
    BY <1>1, SubmitNumbers
  <2> HIDE DEF p, m, P
  <2> QED BY <2>1, <2>2, Zenon DEF m
<1>5. /\ ~p.ok => WriteAndEnd(sv2ExtChannel, sv2MsgSubmitSharesError,
                              encodeSV2SubmitErrorPayload(0, 0, "malformed submit"))
      /\ p.ok /\ wrong => Write(sv2ExtChannel, sv2MsgSubmitSharesError,
                                encodeSV2SubmitErrorPayload(c, q, "wrong channel"))
      /\ p.ok /\ ~wrong =>
           \/ Write(sv2ExtChannel, sv2MsgSubmitSharesSuccess, encodeSV2SubmitSuccessPayload(c, q))
           \/ \E status : Write(sv2ExtChannel, sv2MsgSubmitSharesError,
                                encodeSV2SubmitErrorPayload(c, q, sv2SubmitStatusCode(status)))
  BY Zenon DEF SubmitShare
<1>6. Asks(x)
  BY <1>1, <1>2 DEF Asks
<1>7. WrongChannel(x.body) <=> wrong
  BY <1>2 DEF wrong
\* What makes r an answer to the share.
<1>8. ASSUME NEW r, W(r), WellFramed(r),
             IF p.ok THEN /\ Kind(r) \in {sv2MsgSubmitSharesSuccess, sv2MsgSubmitSharesError}
                          /\ U32At(r, 7) = c /\ U32At(r, 11) = q
                     ELSE Kind(r) = sv2MsgSubmitSharesError /\ U32At(r, 7) = 0 /\ U32At(r, 11) = 0,
             p.ok => (wrong <=> SaysWrongChannel(r))
      PROVE  Ends \/ \E y, z : Exchange(y, z)
  <2>1. x.body.ok <=> p.ok
    BY <1>2
  <2>2. IF x.body.ok
          THEN /\ Kind(r) \in {sv2MsgSubmitSharesSuccess, sv2MsgSubmitSharesError}
               /\ U32At(r, 7) = x.body.channel /\ U32At(r, 11) = x.body.sequence
          ELSE Kind(r) = sv2MsgSubmitSharesError /\ U32At(r, 7) = 0 /\ U32At(r, 11) = 0
    BY <1>2, <1>8
  <2> HIDE DEF x, p, P, wrong
  <2>3. Answers(r, x)
    BY <1>1, <1>2, <1>8, <2>2, AnswersIs
  <2>4. ~Grants(r)
    <3>1. Kind(r) \in {sv2MsgSubmitSharesSuccess, sv2MsgSubmitSharesError}
      BY <2>2
    <3> QED BY <1>1, <3>1, KindsDiffer DEF Grants
  <2>5. GrantsAsTold(x, r)
    BY <1>3, <2>4 DEF GrantsAsTold, Who
  <2>6. ChannelAsTold(x, r)
    BY <1>3, <1>7, <1>8, <2>1, <2>4, Zenon DEF ChannelAsTold
  <2>7. Ends \/ Exchange(x, r)
    BY <1>1, <1>6, <1>8, <2>3, <2>5, <2>6, OneExchange
  <2> QED BY <2>7, Zenon
<1> HIDE DEF x
<1>9. CASE ~p.ok
  <2> DEFINE z == 0
             t == "malformed submit"
             r == encodeSV2Frame(sv2ExtChannel, sv2MsgSubmitSharesError, encodeSV2SubmitErrorPayload(z, z, t))
  <2>1. W(r)
    BY <1>5, <1>9, WrittenOrNot, Zenon
  <2>2. z \in Nat /\ z < Values(4) /\ Text(t) \in Seq(Nat)
    <3>1. Text(t) \in Seq(Nat)
      BY TextAssumption
    <3>2. z \in Nat /\ z < Values(4)
      BY ManyChannels
    <3> QED BY <3>1, <3>2
  <2> HIDE DEF z, t
  <2>3. WellFramed(r) /\ Kind(r) = sv2MsgSubmitSharesError /\ U32At(r, 7) = z /\ U32At(r, 11) = z
    <3>1. LET a == encodeSV2Frame(sv2ExtChannel, sv2MsgSubmitSharesError, encodeSV2SubmitErrorPayload(z, z, t))
          IN  /\ WellFramed(a) /\ Kind(a) = sv2MsgSubmitSharesError
              /\ U32At(a, 7) = z /\ U32At(a, 11) = z
      BY <2>2, ShareAnswered
    <3> QED BY <3>1
  <2>4. U32At(r, 7) = 0 /\ U32At(r, 11) = 0
    BY <2>3 DEF z
  <2> HIDE DEF r, W, p
  <2> QED BY <1>8, <1>9, <2>1, <2>3, <2>4
<1>10. CASE p.ok
  <2> DEFINE codes == {"stale share", "duplicate share", "low difficulty", "invalid share"}
             Fits(r) == /\ WellFramed(r) /\ Kind(r) \in {sv2MsgSubmitSharesSuccess, sv2MsgSubmitSharesError}
                        /\ U32At(r, 7) = c /\ U32At(r, 11) = q
  <2>1. \A status : sv2SubmitStatusCode(status) \in codes
    BY DEF sv2SubmitStatusCode
  <2> HIDE DEF wrong
  <2>2. \/ wrong /\ W(E("wrong channel"))
        \/ ~wrong /\ W(good)
        \/ ~wrong /\ \E why \in codes : W(E(why))
    <3>1. \A why : Write(sv2ExtChannel, sv2MsgSubmitSharesError, encodeSV2SubmitErrorPayload(c, q, why)) => W(E(why))
      BY WrittenOrNot, Zenon
    <3>2. Write(sv2ExtChannel, sv2MsgSubmitSharesSuccess, encodeSV2SubmitSuccessPayload(c, q)) => W(good)
      BY WrittenOrNot, Zenon
    <3> HIDE DEF W, E, good, codes, c, q, p
    <3> QED BY <1>5, <1>10, <2>1, <3>1, <3>2, Zenon
  <2>3. Fits(good) /\ ~SaysWrongChannel(good)
    <3> HIDE DEF c, q
    <3>1. LET r == encodeSV2Frame(sv2ExtChannel, sv2MsgSubmitSharesSuccess, encodeSV2SubmitSuccessPayload(c, q))
          IN  /\ WellFramed(r) /\ Kind(r) = sv2MsgSubmitSharesSuccess
              /\ U32At(r, 7) = c /\ U32At(r, 11) = q
      BY <1>4, <1>10, ShareAnswered
    <3> QED BY <3>1, KindsDiffer DEF SaysWrongChannel
  <2>4. \A why : Text(why) \in Seq(Nat) =>
          /\ Fits(E(why)) /\ Kind(E(why)) = sv2MsgSubmitSharesError
          /\ Text(why) \in Seq(32 .. 126) /\ Len(Text(why)) < Base => ErrorText(E(why), 15) = Text(why)
    <3> SUFFICES ASSUME NEW why, Text(why) \in Seq(Nat)
                 PROVE  /\ Fits(E(why)) /\ Kind(E(why)) = sv2MsgSubmitSharesError
                        /\ Text(why) \in Seq(32 .. 126) /\ Len(Text(why)) < Base =>
                             ErrorText(E(why), 15) = Text(why)
      OBVIOUS
    <3> HIDE DEF c, q
    <3>1. LET r == encodeSV2Frame(sv2ExtChannel, sv2MsgSubmitSharesError, encodeSV2SubmitErrorPayload(c, q, why))
          IN  /\ WellFramed(r) /\ Kind(r) = sv2MsgSubmitSharesError
              /\ U32At(r, 7) = c /\ U32At(r, 11) = q
              /\ Text(why) \in Seq(32 .. 126) /\ Len(Text(why)) < Base => ErrorText(r, 15) = Text(why)
      BY <1>4, <1>10, ShareAnswered
    <3> QED BY <3>1
  <2>5. /\ Fits(E("wrong channel")) /\ SaysWrongChannel(E("wrong channel"))
        /\ \A why \in codes : Fits(E(why)) /\ ~SaysWrongChannel(E(why))
    <3> HIDE DEF E, Fits
    <3>1. \A why \in codes : why # "wrong channel"
      OBVIOUS
    <3> QED BY <2>4, <3>1, ShareErrorTexts DEF SaysWrongChannel
  <2>6. PICK r : W(r) /\ Fits(r) /\ (wrong <=> SaysWrongChannel(r))
    <3> HIDE DEF W, Fits, E, good, codes, p
    <3> QED BY <2>2, <2>3, <2>5, Zenon
  <2>7. /\ WellFramed(r) /\ Kind(r) \in {sv2MsgSubmitSharesSuccess, sv2MsgSubmitSharesError}
        /\ U32At(r, 7) = c /\ U32At(r, 11) = q
    BY <2>6
  <2> HIDE DEF W, Fits, E, good, codes, p, c, q
  <2> QED BY <1>8, <1>10, <2>6, <2>7
<1> QED BY <1>9, <1>10

\* The event that is taken is a request, or of no interest.
LEMMA EventAsks ==
  ASSUME TypeInv, FrameInv, Understood, TakeEvent
  PROVE  /\ conn.proto = "v1" /\ conn' = conn
         /\ Questions' = IF Asks(Event) THEN Append(Questions, Event) ELSE Questions
<1>1. TakeLine /\ reader.pc = "line" /\ conn' = conn /\ handled' = Append(handled, Event)
  BY DEF TakeEvent, TakeLine
<1>2. PICK h, T, off, pos, e : Calls(h) /\ Reading(h, T, off, pos, e)
  <2>1. reader.pc # "done"
    BY <1>1
  <2> QED BY <2>1 DEF FrameInv
<1>3. conn.proto = "v1"
  BY <1>2, EventIs
<1>4. \E S : handled \in Seq(S)
  BY <1>2 DEF Calls, HandledOf
<1>5. PICK S : handled \in Seq(S) /\ Event \in S
  BY <1>4, StillSequence
<1>6. Questions' = IF Asks(Event) THEN Append(Questions, Event) ELSE Questions
  BY <1>1, <1>5, OneMoreCall
<1> QED BY <1>1, <1>3, <1>6

\* What is written for a miner of the line protocol.
LEMMA LinesAreReplies ==
  ASSUME conn' = conn, \E S : out \in Seq(S), NEW r, IsReply(r)
  PROVE  /\ out' = out => Replies' = Replies
         /\ out' = Append(out, r) => Replies' = Append(Replies, r)
         /\ \A n : conn.proto = "v1" /\ n.result = "set_extranonce" /\ out' = out \o <<r, n>> =>
              Replies' = Append(Replies, r)
<1>1. PICK S, T : out \in Seq(S) /\ r \in S /\ T = Append(out, r) /\ T \in Seq(S)
  BY StillSequence
<1>2. PICK o : o = out'
  OBVIOUS
<1>3. Replies = RepliesOf(out) /\ Replies' = RepliesOf(o)
  BY <1>2, Zenon DEF Replies, RepliesOf
<1>4. RepliesOf(T) = Append(RepliesOf(out), r)
  BY <1>1, OneMoreReply
<1>5. ASSUME NEW n, conn.proto = "v1", n.result = "set_extranonce" PROVE RepliesOf(Append(T, n)) = RepliesOf(T)
  <2>1. ~IsReply(n)
    BY <1>5 DEF IsReply
  <2>2. PICK U : T \in Seq(U) /\ n \in U
    BY <1>1, StillSequence
  <2> QED BY <2>1, <2>2, OneMoreReply
<1>6. \A n : out \o <<r, n>> = Append(T, n)
  <2> SUFFICES ASSUME NEW n PROVE out \o <<r, n>> = Append(T, n)
    OBVIOUS
  <2>1. PICK U : T \in Seq(U) /\ n \in U
    BY <1>1, StillSequence
  <2> DEFINE V == S \union U
             a == out \o <<r, n>>
             b == Append(T, n)
  <2>2. out \in Seq(V) /\ T \in Seq(V) /\ r \in V /\ n \in V
    <3>1. S \subseteq V /\ U \subseteq V
      OBVIOUS
    <3> HIDE DEF V
    <3>2. out \in Seq(V) /\ T \in Seq(V)
      BY <1>1, <2>1, <3>1, SeqMonotonic
    <3> QED BY <1>1, <2>1, <3>1, <3>2
  <2> HIDE DEF V
  <2>3. <<r, n>> \in Seq(V) /\ <<r>> \in Seq(V) /\ <<n>> \in Seq(V) /\ <<r, n>> = <<r>> \o <<n>>
    BY <2>2
  <2>4. T = out \o <<r>> /\ Append(T, n) = T \o <<n>>
    BY <1>1, <2>2, AppendIsConcat
  <2>5. (out \o <<r>>) \o <<n>> = out \o (<<r>> \o <<n>>)
    BY <2>2, <2>3, ConcatAssociative
  <2> QED BY <2>3, <2>4, <2>5
<1> QED BY <1>1, <1>2, <1>3, <1>4, <1>5, <1>6

\* An event is answered under its id, and an authorize is granted for its identity.
LEMMA LineExchange ==
  ASSUME TypeInv, FrameInv, Understood, Shapes,
         HandleSubscribe \/ HandleAuthorize \/ HandleSubmit \/ HandleUnknown, UNCHANGED handlerVars
  PROVE  Quiet \/ Ends \/ \E x, r : Exchange(x, r)
<1> DEFINE x == Event
<1>1. /\ conn.proto = "v1" /\ conn' = conn /\ sv2' = sv2
      /\ Questions' = IF Asks(x) THEN Append(Questions, x) ELSE Questions
  <2>1. TakeEvent
    BY LineShape DEF EventTaken
  <2> QED BY <2>1, EventAsks DEF handlerVars
<1>2. CtxIs(ctx) /\ \E S : out \in Seq(S)
  BY DEF Shapes
<1>3. Asks(x) <=> x.method \in {"mining.subscribe", "mining.authorize", "mining.submit"}
  BY <1>1 DEF Asks
<1>4. \A why : End(why) => reader'.pc = "done"
  BY ReaderSteps
<1>5. out' = out => Replies' = Replies
  <2>1. IsReply(NoReply)
    BY DEF IsReply, NoReply, Response
  <2> QED BY <1>1, <1>2, <2>1, LinesAreReplies
<1>6. ASSUME Asks(x), NEW r, IsReply(r), out' = Append(out, r), ~Grants(r), Answers(r, x), Who' = Who
      PROVE  Exchange(x, r)
  <2>1. Replies' = Append(Replies, r)
    BY <1>1, <1>2, <1>6, LinesAreReplies
  <2>2. ChannelAsTold(x, r) /\ GrantsAsTold(x, r)
    BY <1>1, <1>6 DEF ChannelAsTold, GrantsAsTold
  <2> QED BY <1>1, <1>6, <2>1, <2>2 DEF Exchange
<1>7. \A id, result : LET r == Response(id, result)
                      IN  /\ r.id = id /\ r.result = result
                          /\ Grants(r) <=> result = "authorized"
                          /\ IsReply(r) <=> result # "set_extranonce"
                          /\ id = x.id /\ result = Outcome(x.method) => Answers(r, x)
                          /\ x.method = "mining.submit" /\ r = NoReply => Answers(r, x)
  BY <1>1 DEF Response, Grants, IsReply, Answers
<1> HIDE DEF x
<1>8. CASE HandleUnknown
  <2>1. x.method \notin {"mining.subscribe", "mining.authorize", "mining.submit"} /\ ctx' = ctx /\ out' = out
    BY <1>8, Zenon DEF HandleUnknown, x
  <2> QED BY <1>1, <1>3, <1>5, <2>1 DEF Quiet, Who
<1>9. CASE HandleSubmit
  <2>1. /\ x.method = "mining.submit" /\ ctx' = ctx
        /\ out' \in {Append(out, Response(x.id, "verdict")), Append(out, NoReply)}
    BY <1>9, Zenon DEF HandleSubmit, x
  <2>2. PICK r : out' = Append(out, r) /\ (r = Response(x.id, "verdict") \/ r = NoReply)
    BY <2>1
  <2>3. IsReply(r) /\ ~Grants(r) /\ Answers(r, x)
    <3>1. Outcome(x.method) = "verdict"
      BY <2>1 DEF Outcome
    <3>2. CASE r = Response(x.id, "verdict")
      BY <1>7, <3>1, <3>2
    <3>3. CASE r = NoReply
      BY <1>7, <2>1, <3>3 DEF NoReply
    <3> QED BY <2>2, <3>2, <3>3
  <2>4. Exchange(x, r)
    BY <1>3, <1>6, <2>1, <2>2, <2>3 DEF Who
  <2> QED BY <2>4
<1>10. CASE HandleSubscribe
  <2> DEFINE r == Response(x.id, "subscribed")
  <2>1. /\ x.method = "mining.subscribe"
        /\ \/ /\ out' = Append(out, r)
              /\ ctx' = ctx \/ ctx' = WithApp(ctx, x.params[1])
           \/ End("write") /\ out' = out
    BY <1>10, Zenon DEF HandleSubscribe, WithApp, x
  <2>2. Asks(x)
    BY <1>3, <2>1
  <2>3. CASE out' = Append(out, r) /\ (ctx' = ctx \/ ctx' = WithApp(ctx, x.params[1]))
    <3>1. Who' = Who
      <4> DEFINE a == x.params[1]
      <4>1. ctx' = ctx \/ ctx' = WithApp(ctx, a)
        BY <2>3
      <4> HIDE DEF a
      <4>2. ctx'.wallet = ctx.wallet /\ ctx'.worker = ctx.worker
        BY <1>2, <4>1, NewApp
      <4> QED BY <4>2 DEF Who
    <3>2. IsReply(r) /\ ~Grants(r) /\ Answers(r, x)
      <4>1. Outcome(x.method) = "subscribed"
        BY <2>1 DEF Outcome
      <4> QED BY <1>7, <4>1
    <3> HIDE DEF r
    <3>3. Exchange(x, r)
      BY <1>6, <2>2, <2>3, <3>1, <3>2
    <3> QED BY <3>3
  <2>4. CASE End("write") /\ out' = out
    BY <1>1, <1>4, <1>5, <2>2, <2>4 DEF Ends
  <2> QED BY <2>1, <2>3, <2>4
<1>11. CASE HandleAuthorize
  <2> DEFINE id == IF x.params = << >> THEN << >> ELSE x.params[1]
             who == ParseAuthorizeIdentity(id)
             r == Response(x.id, "authorized")
             n == Response(0, "set_extranonce")
  <2>1. /\ x.method = "mining.authorize"
        /\ \/ out' = out /\ (End("refused") \/ End("write"))
           \/ /\ who.wallet # None
              /\ ctx' = WithWho(ctx, who.wallet, who.worker)
              /\ out' = Append(out, r) \/ out' = out \o <<r, n>>
    BY <1>11, Zenon DEF HandleAuthorize, WithWho, x
  <2>2. Asks(x)
    BY <1>3, <2>1
  <2>3. CASE out' = out /\ (End("refused") \/ End("write"))
    BY <1>1, <1>4, <1>5, <2>2, <2>3 DEF Ends
  <2>4. CASE /\ who.wallet # None
             /\ ctx' = WithWho(ctx, who.wallet, who.worker)
             /\ out' = Append(out, r) \/ out' = out \o <<r, n>>
    <3>1. IsReply(r) /\ Grants(r) /\ Answers(r, x) /\ n.result = "set_extranonce"
      <4>1. Outcome(x.method) = "authorized"
        BY <2>1 DEF Outcome
      <4> QED BY <1>7, <4>1
    <3>2. x.params # << >>
      BY <2>4, NoIdentity
    <3>3. Claims(x) /\ who = ParseAuthorizeIdentity(Identity(x))
      BY <1>1, <2>1, <3>2 DEF Claims, Identity
    <3>4. who = [wallet |-> who.wallet, worker |-> who.worker]
      BY Zenon DEF ParseAuthorizeIdentity
    <3> HIDE DEF r, n, who
    <3>5. PICK w, k : w = who.wallet /\ k = who.worker
      OBVIOUS
    <3>6. ctx'.wallet = w /\ ctx'.worker = k
      BY <1>2, <2>4, <3>5, NewWho
    <3>7. Who' = who
      BY <3>4, <3>5, <3>6 DEF Who
    <3>8. Replies' = Append(Replies, r)
      BY <1>1, <1>2, <2>4, <3>1, LinesAreReplies
    <3>9. GrantsAsTold(x, r)
      BY <2>4, <3>1, <3>3, <3>7 DEF GrantsAsTold
    <3>10. ChannelAsTold(x, r)
      BY <1>1 DEF ChannelAsTold
    <3>11. Exchange(x, r)
      BY <1>1, <2>2, <3>1, <3>8, <3>9, <3>10 DEF Exchange
    <3> QED BY <3>11
  <2> QED BY <2>1, <2>3, <2>4
<1> QED BY <1>8, <1>9, <1>10, <1>11

\* The protocol of a connection is for good.
LEMMA SameConnection == ASSUME [Next]_vars PROVE conn' = conn
<1>1. CASE ReaderNext
  BY <1>1, Zenon DEF ReaderNext, LineStep, SendMessage, Deliver, HangUp, Sniff, ReadTimeout, ReadEOF,
    FillBuffer, StopOnCancel, RefuseLine, SkipBlank, HandleSubscribe, HandleAuthorize, HandleSubmit,
    HandleUnknown, TakeEvent, TakeLine
<1>2. CASE FrameStep
  BY <1>2, Zenon DEF FrameStep, ReadHeader, SetupConnection, RefuseChannel, OpenChannel, SubmitShare,
    IgnoreFrame, TakeFrame
<1>3. CASE Untouched
  BY <1>3 DEF Untouched
<1> QED BY <1>1, <1>2, <1>3, Turns DEF ReaderTurn

\* What a step writes, and what it does to the context and to the counter of channels.
Written == \/ out' = out
           \/ \E r : out' = Append(out, r)
           \/ \E r, n : out' = out \o <<r, n>>
Renamed == \/ ctx' = ctx
           \/ \E a : ctx' = WithApp(ctx, a)
           \/ \E w, k : ctx' = WithWho(ctx, w, k)
           \/ \E w : ctx' = WithWallet(ctx, w)
Counted == nextChannelID' \in {nextChannelID, NextChannel}

\* Such a step keeps the shapes.
LEMMA ShapesMove ==
  ASSUME Shapes, Written, Renamed, Counted
  PROVE  Shapes'
<1>1. CtxIs(ctx) /\ (\E S : out \in Seq(S)) /\ nextChannelID \in Nat
  BY DEF Shapes
<1>2. CtxIs(ctx')
  BY <1>1, NewApp, NewWho, NewWallet DEF Renamed
<1>3. nextChannelID' \in Nat
  BY <1>1, ChannelIdType DEF Counted
<1>4. \E S : out' \in Seq(S)
  <2>1. CASE out' = out
    BY <1>1, <2>1
  <2>2. CASE \E r : out' = Append(out, r)
    BY <1>1, <2>2, StillSequence
  <2>3. ASSUME NEW r, NEW n, out' = out \o <<r, n>> PROVE \E S : out' \in Seq(S)
    <3>1. PICK S : out \in Seq(S)
      BY <1>1
    <3> DEFINE V == S \union {r, n}
    <3>2. out \in Seq(V) /\ r \in V /\ n \in V
      <4>1. S \subseteq V /\ r \in V /\ n \in V
        OBVIOUS
      <4> HIDE DEF V
      <4>2. out \in Seq(V)
        BY <3>1, <4>1, SeqMonotonic
      <4> QED BY <4>1, <4>2
    <3> HIDE DEF V
    <3>3. <<r, n>> \in Seq(V)
      BY <3>2
    <3>4. out \o <<r, n>> \in Seq(V)
      BY <3>2, <3>3, ConcatProperties
    <3> QED BY <2>3, <3>4
  <2> QED BY <2>1, <2>2, <2>3 DEF Written
<1> QED BY <1>2, <1>3, <1>4 DEF Shapes, CtxIs

\* The context and what is written keep their shape.
LEMMA ShapesNext ==
  ASSUME Shapes, [Next]_vars
  PROVE  Shapes'
<1>1. SUFFICES Written /\ Renamed /\ Counted
  BY ShapesMove
<1>2. /\ \A a, b, c : Write(a, b, c) => Written
      /\ \A a, b, c : WriteAndEnd(a, b, c) => Written
  BY Zenon DEF Write, WriteAndEnd, Written
<1>3. ASSUME UNCHANGED <<ctx, out, handlerVars>> PROVE Written /\ Renamed /\ Counted
  BY <1>3 DEF Written, Renamed, Counted, handlerVars
<1>4. CASE /\ UNCHANGED handlerVars
           /\ \/ SendMessage \/ Deliver \/ HangUp \/ Sniff \/ ReadTimeout \/ ReadEOF
              \/ FillBuffer \/ StopOnCancel \/ RefuseLine \/ SkipBlank
  BY <1>3, <1>4, Zenon DEF SendMessage, Deliver, HangUp, Sniff, ReadTimeout, ReadEOF,
    FillBuffer, StopOnCancel, RefuseLine, SkipBlank
<1>5. CASE (HandleSubscribe \/ HandleAuthorize \/ HandleSubmit \/ HandleUnknown) /\ UNCHANGED handlerVars
  <2>1. Counted
    BY <1>5 DEF Counted, handlerVars
  <2>2. Written
    BY <1>5, Zenon DEF HandleSubscribe, HandleAuthorize, HandleSubmit, HandleUnknown, Written
  <2>3. Renamed
    BY <1>5, Zenon DEF HandleSubscribe, HandleAuthorize, HandleSubmit, HandleUnknown, Renamed, WithApp, WithWho
  <2> QED BY <2>1, <2>2, <2>3
<1>6. CASE ReadHeader \/ IgnoreFrame
  BY <1>3, <1>6, Zenon DEF ReadHeader, IgnoreFrame
<1>7. CASE SetupConnection
  <2>1. Written /\ Renamed
    BY <1>2, <1>7, Zenon DEF SetupConnection, Renamed, WithApp
  <2>2. nextChannelID' = nextChannelID
    BY <1>7, Zenon DEF SetupConnection
  <2> QED BY <2>1, <2>2 DEF Counted
<1>8. CASE RefuseChannel \/ SubmitShare
  <2>1. Written
    BY <1>2, <1>8, Zenon DEF RefuseChannel, SubmitShare
  <2>2. ctx' = ctx /\ nextChannelID' = nextChannelID
    BY <1>8, Zenon DEF RefuseChannel, SubmitShare, handlerVars
  <2> QED BY <2>1, <2>2 DEF Renamed, Counted
<1>9. CASE OpenChannel
  <2>1. Written /\ Renamed
    BY <1>2, <1>9, Zenon DEF OpenChannel, Renamed, WithWho
  <2>2. nextChannelID' = NextChannel
    BY <1>9, Zenon DEF OpenChannel
  <2> QED BY <2>1, <2>2 DEF Counted
<1>10. CASE UNCHANGED vars
  BY <1>3, <1>10 DEF vars, readerVars, handlerVars
<1>11. CASE ReaderNext /\ UNCHANGED handlerVars
  BY <1>4, <1>5, <1>11, Zenon DEF ReaderNext, LineStep
<1>12. CASE FrameStep
  BY <1>6, <1>7, <1>8, <1>9, <1>12, Zenon DEF FrameStep
<1>13. CASE DispatchBegin
  BY <1>3, <1>13 DEF DispatchBegin, readerVars
<1>14. CASE DispatchEnd
  <2>1. Renamed
    <3>1. PICK a : ctx' \in {ctx, [ctx EXCEPT !.wallet = a]}
      BY <1>14 DEF DispatchEnd
    <3>2. ctx' = ctx \/ ctx' = WithWallet(ctx, a)
      BY <3>1, Zenon DEF WithWallet
    <3> QED BY <3>2 DEF Renamed
  <2>2. Written /\ Counted
    BY <1>14 DEF DispatchEnd, handlerVars, Written, Counted
  <2> QED BY <2>1, <2>2
<1>15. CASE ConnectionStep
  BY <1>11, <1>12, <1>15 DEF ConnectionStep
<1> QED BY <1>10, <1>13, <1>14, <1>15 DEF Next

\* A new connection has them.
LEMMA ShapesInit == Init => Shapes
<1> SUFFICES ASSUME Init PROVE Shapes
  OBVIOUS
<1>1. out = << >> /\ ctx = [app |-> None, wallet |-> None, worker |-> None]
  BY DEF Init, ReaderInit
<1>2. nextChannelID \in Nat
  <2>1. nextChannelID = 0 \/ nextChannelID \in 0 .. Values(4) - 1
    BY FirstChannelIDsAssumption DEF Init
  <2>2. 0 .. Values(4) - 1 \subseteq Nat
    BY ManyChannels
  <2> QED BY <2>1, <2>2
<1>3. out \in Seq(Nat)
  BY <1>1
<1>4. CtxIs(ctx)
  BY <1>1 DEF CtxIs
<1> QED BY <1>2, <1>3, <1>4 DEF Shapes

\* Without a call of a handler nothing is asked, and what is not written is no reply.
LEMMA NothingSaid ==
  ASSUME conn' = conn
  PROVE  /\ handled' = handled => Questions' = Questions
         /\ out' = out => Replies' = Replies
<1>1. ASSUME handled' = handled PROVE Questions' = Questions
  BY <1>1 DEF Questions, Asks
<1>2. ASSUME out' = out PROVE Replies' = Replies
  BY <1>2 DEF Replies
<1> QED BY <1>1, <1>2

\* Every step of the connection asks nothing and answers nothing, or is an exchange,
\* or ends the connection without the answer.
LEMMA StepAnswers ==
  ASSUME TypeInv, FrameInv, Understood, Shapes, ConnectionStep
  PROVE  Quiet \/ Ends \/ \E x, r : Exchange(x, r)
<1>1. conn' = conn
  BY SameConnection DEF Next
<1>2. ASSUME handled' = handled, out' = out, ctx' = ctx, sv2' = sv2 PROVE Quiet
  BY <1>1, <1>2, NothingSaid DEF Quiet, Who
<1>3. ASSUME handled' = handled, out' = out, NEW why, End(why) PROVE Ends
  BY <1>1, <1>3, NothingSaid, ReaderSteps DEF Ends
<1>4. CASE /\ UNCHANGED handlerVars
           /\ SendMessage \/ Deliver \/ HangUp \/ Sniff \/ ReadTimeout \/ ReadEOF \/ FillBuffer \/ SkipBlank
  <2>1. sv2' = sv2
    BY <1>4 DEF handlerVars
  <2>2. handled' = handled /\ out' = out /\ ctx' = ctx
    BY <1>4, Zenon DEF SendMessage, Deliver, HangUp, Sniff, ReadTimeout, ReadEOF, FillBuffer, SkipBlank
  <2> QED BY <1>2, <2>1, <2>2
<1>5. CASE StopOnCancel \/ RefuseLine
  <2>1. handled' = handled /\ out' = out /\ (End("cancelled") \/ End("refused"))
    BY <1>5, Zenon DEF StopOnCancel, RefuseLine
  <2> QED BY <1>3, <2>1
<1>6. CASE (HandleSubscribe \/ HandleAuthorize \/ HandleSubmit \/ HandleUnknown) /\ UNCHANGED handlerVars
  BY <1>6, LineExchange
<1>7. CASE ReadHeader
  <2>1. handled' = handled /\ out' = out /\ ctx' = ctx /\ sv2' = sv2
    BY <1>7, Zenon DEF ReadHeader, handlerVars
  <2> QED BY <1>2, <2>1
<1>8. CASE SetupConnection
  BY <1>8, SetupExchange
<1>9. CASE RefuseChannel
  BY <1>9, RefuseExchange
<1>10. CASE OpenChannel
  BY <1>10, OpenExchange
<1>11. CASE SubmitShare
  BY <1>11, SubmitExchange
<1>12. CASE IgnoreFrame
  <2> DEFINE K == {sv2MsgSetupConnection, sv2MsgOpenStandardMiningChannel, sv2MsgSubmitSharesStandard}
             T == 0 .. Base - 1 \ K
             body == [ok |-> TRUE]
             x == [type |-> reader.type, body |-> body]
  <2>1. FrameTaken(T, body)
    BY <1>12, FrameShape
  <2>2. ctx' = ctx /\ out' = out /\ sv2' = sv2
    BY <1>12, Zenon DEF IgnoreFrame, handlerVars
  <2>3. x.type = reader.type
    OBVIOUS
  <2>4. \A t \in T : t \notin K
    OBVIOUS
  <2> HIDE DEF T, body
  <2>5. /\ conn.proto = "v2" /\ reader.type \in T
        /\ Questions' = IF Asks(x) THEN Append(Questions, x) ELSE Questions
    BY <2>1, FrameAsks
  <2> HIDE DEF x
  <2>6. ~Asks(x)
    BY <2>3, <2>4, <2>5 DEF Asks
  <2> QED BY <1>1, <2>2, <2>5, <2>6, NothingSaid DEF Quiet, Who
<1>13. CASE ReaderNext /\ UNCHANGED handlerVars
  BY <1>4, <1>5, <1>6, <1>13, Zenon DEF ReaderNext, LineStep
<1>14. CASE FrameStep
  BY <1>7, <1>8, <1>9, <1>10, <1>11, <1>12, <1>14, Zenon DEF FrameStep
<1> QED BY <1>13, <1>14 DEF ConnectionStep

----------------------------------------------------------------------------
(* The conversation so far                                                  *)

\* When replies answer questions, for a protocol p: what Answers, Claims, Identity
\* and Grants say, of a conversation that is given.
AnswersIn(p, r, h) ==
  IF p = "v1"
    THEN \/ r = Response(h.id, Outcome(h.method))
         \/ h.method = "mining.submit" /\ r = NoReply
  ELSE /\ WellFramed(r)
       /\ CASE h.type = sv2MsgSetupConnection ->
                 Kind(r) = IF h.body.ok THEN sv2MsgSetupConnectionSuccess ELSE sv2MsgSetupConnectionError
            [] h.type = sv2MsgOpenStandardMiningChannel ->
                 /\ Kind(r) \in {sv2MsgOpenMiningChannelSuccess, sv2MsgOpenMiningChannelError}
                 /\ U32At(r, 7) = h.body.request
                 /\ Kind(r) = sv2MsgOpenMiningChannelSuccess =>
                      \E d \in StratumDiffs : NumberAt(r, 15, HashLen) = MaxTarget \div AtLeast(d)
            [] OTHER ->
                 IF h.body.ok
                   THEN /\ Kind(r) \in {sv2MsgSubmitSharesSuccess, sv2MsgSubmitSharesError}
                        /\ U32At(r, 7) = h.body.channel /\ U32At(r, 11) = h.body.sequence
                   ELSE /\ Kind(r) = sv2MsgSubmitSharesError
                        /\ U32At(r, 7) = 0 /\ U32At(r, 11) = 0
ClaimsIn(p, x) ==
  IF p = "v1" THEN x.method = "mining.authorize" /\ x.params # << >>
  ELSE x.type = sv2MsgOpenStandardMiningChannel /\ x.body.ok
IdentityIn(p, x) == IF p = "v1" THEN x.params[1] ELSE x.body.identity
GrantsIn(p, r) == IF p = "v1" THEN r.result = "authorized" ELSE Kind(r) = sv2MsgOpenMiningChannelSuccess

\* The places of the replies that grant.
GrantedIn(p, R) == {i \in 1 .. Len(R) : GrantsIn(p, R[i])}

\* The replies R answer the first of the questions Q, all of them if there is more to come.
InStep(p, R, Q, more) ==
  /\ Len(R) <= Len(Q) /\ (more => Len(R) = Len(Q))
  /\ \A i \in 1 .. Len(R) : AnswersIn(p, R[i], Q[i])

\* The wallet and worker w are those of the last request that was granted.
CreditedTo(p, R, Q, w) ==
  \E i \in GrantedIn(p, R) :
    /\ \A j \in GrantedIn(p, R) : j <= i
    /\ ClaimsIn(p, Q[i]) /\ w = ParseAuthorizeIdentity(IdentityIn(p, Q[i]))

\* The channel told by the last of the replies before the i-th that opens one.
ToldBefore(R, i) ==
  LET opened == {j \in 1 .. i - 1 : Kind(R[j]) = sv2MsgOpenMiningChannelSuccess}
  IN  IF opened = {} THEN 0 ELSE U32At(R[CHOOSE j \in opened : \A k \in opened : k <= j], 11)

\* Shares for another channel than the one told are refused as such, and no others.
SharesTold(R, Q) ==
  \A i \in 1 .. Len(R) :
    Q[i].type = sv2MsgSubmitSharesStandard /\ Q[i].body.ok =>
      ((Q[i].body.channel = 0 \/ Q[i].body.channel # ToldBefore(R, i)) <=> SaysWrongChannel(R[i]))

\* Of the protocol of the connection they say what the properties say.
LEMMA InThisProtocol ==
  /\ \A r, x : Answers(r, x) <=> AnswersIn(conn.proto, r, x)
  /\ \A x : (Claims(x) <=> ClaimsIn(conn.proto, x)) /\ Identity(x) = IdentityIn(conn.proto, x)
  /\ \A r : Grants(r) <=> GrantsIn(conn.proto, r)
<1>1. \A r, x : Answers(r, x) <=> AnswersIn(conn.proto, r, x)
  BY Zenon DEF Answers, AnswersIn
<1>2. \A x : (Claims(x) <=> ClaimsIn(conn.proto, x)) /\ Identity(x) = IdentityIn(conn.proto, x)
  BY DEF Claims, ClaimsIn, Identity, IdentityIn
<1>3. \A r : Grants(r) <=> GrantsIn(conn.proto, r)
  BY DEF Grants, GrantsIn
<1> QED BY <1>1, <1>2, <1>3

\* A sequence and one more element.
LEMMA Grown ==
  ASSUME NEW s, \E S : s \in Seq(S), NEW x
  PROVE  /\ Len(s) \in Nat /\ Len(Append(s, x)) = Len(s) + 1 /\ Append(s, x)[Len(s) + 1] = x
         /\ \A i \in 1 .. Len(s) : Append(s, x)[i] = s[i]
<1>1. PICK S : s \in Seq(S) /\ x \in S
  BY StillSequence
<1> QED BY <1>1, AppendProperties, LenProperties

\* Replies stay in step with the questions when the connection ends and when one more is answered.
LEMMA InStepMore ==
  ASSUME NEW p, NEW R, \E S : R \in Seq(S), NEW Q, \E S : Q \in Seq(S), InStep(p, R, Q, TRUE)
  PROVE  /\ InStep(p, R, Q, FALSE)
         /\ \A x : InStep(p, R, Append(Q, x), FALSE)
         /\ \A r, x : AnswersIn(p, r, x) =>
              InStep(p, Append(R, r), Append(Q, x), TRUE) /\ InStep(p, Append(R, r), Append(Q, x), FALSE)
<1>1. Len(R) = Len(Q) /\ \A i \in 1 .. Len(R) : AnswersIn(p, R[i], Q[i])
  BY DEF InStep
<1>2. Len(R) \in Nat /\ Len(Q) \in Nat
  BY Grown
<1>3. InStep(p, R, Q, FALSE)
  BY <1>1, <1>2 DEF InStep
<1>4. ASSUME NEW x PROVE InStep(p, R, Append(Q, x), FALSE)
  <2> DEFINE t == Append(Q, x)
  <2>1. Len(t) = Len(Q) + 1 /\ \A i \in 1 .. Len(Q) : t[i] = Q[i]
    BY Grown
  <2> HIDE DEF t
  <2>2. InStep(p, R, t, FALSE)
    BY <1>1, <1>2, <2>1 DEF InStep
  <2> QED BY <2>2 DEF t
<1>5. ASSUME NEW r, NEW x, AnswersIn(p, r, x), NEW more
      PROVE  InStep(p, Append(R, r), Append(Q, x), more)
  <2> DEFINE s == Append(R, r)
             t == Append(Q, x)
  <2>1. /\ Len(t) = Len(Q) + 1 /\ t[Len(Q) + 1] = x /\ \A i \in 1 .. Len(Q) : t[i] = Q[i]
        /\ Len(s) = Len(R) + 1 /\ s[Len(R) + 1] = r /\ \A i \in 1 .. Len(R) : s[i] = R[i]
    BY Grown
  <2> HIDE DEF s, t
  <2>2. ASSUME NEW i \in 1 .. Len(s) PROVE AnswersIn(p, s[i], t[i])
    <3>1. i \in 1 .. Len(R) \/ i = Len(R) + 1
      BY <1>2, <2>1
    <3> QED BY <1>1, <1>5, <2>1, <3>1
  <2>3. InStep(p, s, t, more)
    BY <1>1, <1>2, <2>1, <2>2 DEF InStep
  <2> QED BY <2>3 DEF s, t
<1> QED BY <1>3, <1>4, <1>5

\* One more reply is one more place if it grants.
LEMMA GrantedMore ==
  ASSUME NEW p, NEW R, \E S : R \in Seq(S), NEW r
  PROVE  GrantedIn(p, Append(R, r)) = IF GrantsIn(p, r) THEN GrantedIn(p, R) \union {Len(R) + 1} ELSE GrantedIn(p, R)
<1> DEFINE s == Append(R, r)
<1>1. /\ Len(R) \in Nat /\ Len(s) = Len(R) + 1 /\ s[Len(R) + 1] = r
      /\ \A i \in 1 .. Len(R) : s[i] = R[i]
  BY Grown
<1> HIDE DEF s
<1>2. GrantedIn(p, s) = IF GrantsIn(p, r) THEN GrantedIn(p, R) \union {Len(R) + 1} ELSE GrantedIn(p, R)
  <2>1. \A i : i \in 1 .. Len(s) <=> (i \in 1 .. Len(R) \/ i = Len(R) + 1)
    BY <1>1
  <2>2. \A i : i \in GrantedIn(p, s) <=> (i \in GrantedIn(p, R) \/ (i = Len(R) + 1 /\ GrantsIn(p, r)))
    <3>1. \A i : i \in GrantedIn(p, s) <=> (i \in 1 .. Len(s) /\ GrantsIn(p, s[i]))
      BY DEF GrantedIn
    <3>2. \A i : i \in GrantedIn(p, R) <=> (i \in 1 .. Len(R) /\ GrantsIn(p, R[i]))
      BY DEF GrantedIn
    <3> QED BY <1>1, <2>1, <3>1, <3>2
  <2> QED BY <2>2
<1> QED BY <1>2 DEF s

\* Who is credited follows the replies that grant.
LEMMA CreditedMore ==
  ASSUME NEW p, NEW R, \E S : R \in Seq(S), NEW Q, \E S : Q \in Seq(S), Len(R) = Len(Q), NEW r, NEW x
  PROVE  /\ GrantsIn(p, r) /\ ClaimsIn(p, x) =>
              CreditedTo(p, Append(R, r), Append(Q, x), ParseAuthorizeIdentity(IdentityIn(p, x)))
         /\ ~GrantsIn(p, r) =>
              \A w : CreditedTo(p, R, Q, w) => CreditedTo(p, Append(R, r), Append(Q, x), w)
<1> DEFINE s == Append(R, r)
           t == Append(Q, x)
           n == Len(R)
<1>1. /\ n \in Nat /\ t[n + 1] = x /\ \A i \in 1 .. n : t[i] = Q[i]
  BY Grown
<1>2. GrantedIn(p, s) = IF GrantsIn(p, r) THEN GrantedIn(p, R) \union {n + 1} ELSE GrantedIn(p, R)
  BY GrantedMore
<1>3. \A i \in GrantedIn(p, R) : i \in 1 .. n
  BY DEF GrantedIn
<1> HIDE DEF s, t, n
<1>4. ASSUME GrantsIn(p, r), ClaimsIn(p, x)
      PROVE  CreditedTo(p, s, t, ParseAuthorizeIdentity(IdentityIn(p, x)))
  <2>1. n + 1 \in GrantedIn(p, s) /\ \A j \in GrantedIn(p, s) : j <= n + 1
    BY <1>1, <1>2, <1>3, <1>4
  <2> QED BY <1>1, <1>4, <2>1 DEF CreditedTo
<1>5. ASSUME ~GrantsIn(p, r), NEW w, CreditedTo(p, R, Q, w) PROVE CreditedTo(p, s, t, w)
  <2>1. GrantedIn(p, s) = GrantedIn(p, R) /\ \A i \in GrantedIn(p, R) : t[i] = Q[i]
    BY <1>1, <1>2, <1>3, <1>5
  <2> QED BY <1>5, <2>1 DEF CreditedTo
<1> QED BY <1>4, <1>5 DEF s, t

OpenedIn(R, i) == {j \in 1 .. i - 1 : Kind(R[j]) = sv2MsgOpenMiningChannelSuccess}
LatestOf(J) == CHOOSE j \in J : \A k \in J : k <= j

\* What was told before a place hangs on the replies before it.
LEMMA ToldAgree ==
  ASSUME NEW R, NEW s, NEW i \in Nat, \A j \in 1 .. i - 1 : s[j] = R[j]
  PROVE  ToldBefore(s, i) = ToldBefore(R, i)
<1> DEFINE J == OpenedIn(R, i)
<1>1. OpenedIn(s, i) = J
  BY DEF OpenedIn
<1>2. /\ ToldBefore(s, i) = IF J = {} THEN 0 ELSE U32At(s[LatestOf(J)], 11)
      /\ ToldBefore(R, i) = IF J = {} THEN 0 ELSE U32At(R[LatestOf(J)], 11)
  <2>1. \A q : ToldBefore(q, i) = IF OpenedIn(q, i) = {} THEN 0 ELSE U32At(q[LatestOf(OpenedIn(q, i))], 11)
    BY Zenon DEF ToldBefore, OpenedIn, LatestOf
  <2> QED BY <1>1, <2>1
<1>3. J \in SUBSET (1 .. i - 1)
  BY DEF OpenedIn
<1> HIDE DEF J
<1>4. CASE J # {}
  <2>1. i - 1 \in Nat
    <3>1. 1 .. i - 1 # {}
      BY <1>3, <1>4
    <3> QED BY <3>1
  <2> DEFINE n == i - 1
  <2>2. n \in Nat /\ J \in SUBSET (1 .. n)
    BY <1>3, <2>1
  <2> HIDE DEF n
  <2>3. \E k \in J : \A j \in J : j <= k
    BY <1>4, <2>2, LastPlace
  <2>4. LatestOf(J) \in J
    BY <2>3 DEF LatestOf
  <2>5. s[LatestOf(J)] = R[LatestOf(J)]
    BY <1>3, <2>4
  <2> QED BY <1>2, <2>5
<1> QED BY <1>2, <1>4

\* One more reply tells another channel if it opens one.
LEMMA ToldNext ==
  ASSUME NEW R, NEW i \in Nat, i > 0
  PROVE  ToldBefore(R, i + 1) = IF Kind(R[i]) = sv2MsgOpenMiningChannelSuccess THEN U32At(R[i], 11)
                                ELSE ToldBefore(R, i)
<1> DEFINE J == OpenedIn(R, i)
           K == OpenedIn(R, i + 1)
<1>1. /\ ToldBefore(R, i) = IF J = {} THEN 0 ELSE U32At(R[LatestOf(J)], 11)
      /\ ToldBefore(R, i + 1) = IF K = {} THEN 0 ELSE U32At(R[LatestOf(K)], 11)
  BY Zenon DEF ToldBefore, OpenedIn, LatestOf
<1>2. \A j : j \in 1 .. (i + 1) - 1 <=> (j \in 1 .. i - 1 \/ j = i)
  OBVIOUS
<1>3. K = IF Kind(R[i]) = sv2MsgOpenMiningChannelSuccess THEN J \union {i} ELSE J
  <2>1. \A j : j \in K <=> (j \in 1 .. (i + 1) - 1 /\ Kind(R[j]) = sv2MsgOpenMiningChannelSuccess)
    BY DEF OpenedIn
  <2>2. \A j : j \in J <=> (j \in 1 .. i - 1 /\ Kind(R[j]) = sv2MsgOpenMiningChannelSuccess)
    BY DEF OpenedIn
  <2> HIDE DEF J, K
  <2>3. \A j : j \in K <=> (j \in J \/ (j = i /\ Kind(R[i]) = sv2MsgOpenMiningChannelSuccess))
    BY <1>2, <2>1, <2>2
  <2> QED BY <2>3
<1>4. \A j \in J : j \in Nat /\ j <= i
  BY DEF OpenedIn
<1> HIDE DEF J, K
<1>5. CASE Kind(R[i]) = sv2MsgOpenMiningChannelSuccess
  <2>1. K = J \union {i} /\ i \in K /\ \A k \in K : k <= i /\ k \in Nat
    BY <1>3, <1>4, <1>5
  <2>2. \E k \in K : \A j \in K : j <= k
    BY <2>1
  <2>3. LatestOf(K) \in K /\ \A j \in K : j <= LatestOf(K)
    BY <2>2 DEF LatestOf
  <2>4. LatestOf(K) = i
    <3> DEFINE l == LatestOf(K)
    <3>1. l \in K /\ i <= l
      BY <2>1, <2>3
    <3> HIDE DEF l
    <3>2. l <= i /\ l \in Nat
      BY <2>1, <3>1
    <3>3. l = i
      BY <3>1, <3>2
    <3> QED BY <3>3 DEF l
  <2> QED BY <1>1, <1>5, <2>1, <2>4
<1>6. CASE Kind(R[i]) # sv2MsgOpenMiningChannelSuccess
  BY <1>1, <1>3, <1>6
<1> QED BY <1>5, <1>6

\* What a share is told, and what the miner is told it has then.
LEMMA ToldMore ==
  ASSUME NEW R, \E S : R \in Seq(S), NEW Q, \E S : Q \in Seq(S), Len(R) = Len(Q), SharesTold(R, Q),
         NEW r, NEW x
  PROVE  /\ SharesTold(R, Append(Q, x))
         /\ ToldBefore(Append(R, r), Len(Append(R, r)) + 1) =
              IF Kind(r) = sv2MsgOpenMiningChannelSuccess THEN U32At(r, 11) ELSE ToldBefore(R, Len(R) + 1)
         /\ (x.type = sv2MsgSubmitSharesStandard /\ x.body.ok =>
               ((x.body.channel = 0 \/ x.body.channel # ToldBefore(R, Len(R) + 1)) <=> SaysWrongChannel(r)))
            => SharesTold(Append(R, r), Append(Q, x))
<1> DEFINE s == Append(R, r)
           t == Append(Q, x)
           n == Len(R)
<1>1. /\ n \in Nat /\ t[n + 1] = x /\ \A i \in 1 .. n : t[i] = Q[i]
      /\ Len(s) = n + 1 /\ s[n + 1] = r /\ \A i \in 1 .. n : s[i] = R[i]
  BY Grown
<1> HIDE DEF s, t, n
<1>2. \A i \in 1 .. n + 1 : ToldBefore(s, i) = ToldBefore(R, i)
  <2> SUFFICES ASSUME NEW i \in 1 .. n + 1 PROVE ToldBefore(s, i) = ToldBefore(R, i)
    OBVIOUS
  <2>1. i \in Nat /\ \A j \in 1 .. i - 1 : s[j] = R[j]
    BY <1>1
  <2> QED BY <2>1, ToldAgree
<1>3. SharesTold(R, t)
  BY <1>1 DEF SharesTold, n
<1>4. ToldBefore(s, Len(s) + 1) = IF Kind(r) = sv2MsgOpenMiningChannelSuccess THEN U32At(r, 11)
                                  ELSE ToldBefore(R, n + 1)
  <2>1. n + 1 \in Nat /\ n + 1 > 0 /\ n + 1 \in 1 .. n + 1
    BY <1>1
  <2> DEFINE m == n + 1
  <2>2. m \in Nat /\ m > 0 /\ Len(s) = m /\ s[m] = r /\ ToldBefore(s, m) = ToldBefore(R, m)
    BY <1>1, <1>2, <2>1
  <2> HIDE DEF m
  <2>3. ToldBefore(s, m + 1) = IF Kind(s[m]) = sv2MsgOpenMiningChannelSuccess THEN U32At(s[m], 11)
                               ELSE ToldBefore(s, m)
    BY <2>2, ToldNext
  <2>4. ToldBefore(s, Len(s) + 1) = IF Kind(r) = sv2MsgOpenMiningChannelSuccess THEN U32At(r, 11)
                                    ELSE ToldBefore(R, m)
    BY <2>2, <2>3
  <2> QED BY <2>4 DEF m
<1>5. ASSUME x.type = sv2MsgSubmitSharesStandard /\ x.body.ok =>
               ((x.body.channel = 0 \/ x.body.channel # ToldBefore(R, n + 1)) <=> SaysWrongChannel(r))
      PROVE  SharesTold(s, t)
  <2> SUFFICES ASSUME NEW i \in 1 .. Len(s), t[i].type = sv2MsgSubmitSharesStandard, t[i].body.ok
               PROVE  (t[i].body.channel = 0 \/ t[i].body.channel # ToldBefore(s, i)) <=> SaysWrongChannel(s[i])
    BY DEF SharesTold
  <2>1. i \in 1 .. n + 1 /\ ToldBefore(s, i) = ToldBefore(R, i)
    BY <1>1, <1>2
  <2>2. CASE i = n + 1
    <3>1. t[i] = x /\ s[i] = r
      BY <1>1, <2>2
    <3> QED BY <1>5, <2>1, <2>2, <3>1
  <2>3. CASE i # n + 1
    <3>1. i \in 1 .. n
      BY <1>1, <2>1, <2>3
    <3>2. t[i] = Q[i] /\ s[i] = R[i]
      BY <1>1, <3>1
    <3>3. (Q[i].body.channel = 0 \/ Q[i].body.channel # ToldBefore(R, i)) <=> SaysWrongChannel(R[i])
      BY <3>1, <3>2 DEF SharesTold, n
    <3> QED BY <2>1, <3>2, <3>3
  <2> QED BY <2>2, <2>3
<1> QED BY <1>3, <1>4, <1>5 DEF s, t, n

\* The conversation with replies R to questions Q: it is in step, w is the wallet and
\* the worker that the miner was granted last, and c the channel that it was told.
WrongOn(c, b) == ~c.enabled \/ b.channel # c.channel
TalkIs(p, R, Q, more, w, c) ==
  /\ InStep(p, R, Q, more)
  /\ more /\ w.wallet # None => CreditedTo(p, R, Q, w)
  /\ p = "v2" =>
       /\ SharesTold(R, Q)
       /\ more => c.channel = ToldBefore(R, Len(R) + 1) /\ (c.enabled <=> c.channel # 0)

\* The wallet a was granted once.
WalletTold(p, R, Q, a) ==
  \E i \in GrantedIn(p, R) :
    ClaimsIn(p, Q[i]) /\ ParseAuthorizeIdentity(IdentityIn(p, Q[i])).wallet = a

\* What the context says, the wallet a and the worker k, and the wallets H that dispatch
\* goroutines hold, next to the last grant w: only when a grant has overtaken a
\* goroutine (o) may there be the wallet of another grant.
InForce(p, R, Q, w, a, k, H, o) ==
  /\ k = w.worker
  /\ a # None => w.wallet # None /\ WalletTold(p, R, Q, a)
  /\ \A b \in H : w.wallet # None /\ WalletTold(p, R, Q, b)
  /\ ~o => a = w.wallet /\ \A b \in H : b = w.wallet

TalkOf(p, R, Q, more, c, a, k, H, o) ==
  \E w : TalkIs(p, R, Q, more, w, c) /\ (more => InForce(p, R, Q, w, a, k, H, o))
TalkInv == TalkOf(conn.proto, Replies, Questions, reader.pc # "done", sv2,
                  ctx.wallet, ctx.worker, held, overtaken)

\* What ends the conversation, and what goes on with it.
LEMMA TalkEnds ==
  ASSUME NEW p, NEW R, \E S : R \in Seq(S), NEW Q, \E S : Q \in Seq(S), NEW w, NEW c,
         TalkIs(p, R, Q, TRUE, w, c), NEW v, NEW d
  PROVE  /\ TalkIs(p, R, Q, FALSE, v, d)
         /\ \A x : TalkIs(p, R, Append(Q, x), FALSE, v, d)
<1>1. InStep(p, R, Q, TRUE) /\ (p = "v2" => SharesTold(R, Q))
  BY DEF TalkIs
<1>2. Len(R) = Len(Q)
  BY <1>1 DEF InStep
<1>3. InStep(p, R, Q, FALSE) /\ \A x : InStep(p, R, Append(Q, x), FALSE)
  BY <1>1, InStepMore
<1>4. p = "v2" => \A x : SharesTold(R, Append(Q, x))
  BY <1>1, <1>2, ToldMore
<1> QED BY <1>1, <1>3, <1>4 DEF TalkIs

\* One more question and its answer keep the conversation going.
LEMMA TalkMore ==
  ASSUME NEW p, NEW R, \E S : R \in Seq(S), NEW Q, \E S : Q \in Seq(S), NEW w, NEW c,
         TalkIs(p, R, Q, TRUE, w, c), NEW x, NEW r, NEW v, NEW d,
         AnswersIn(p, r, x),
         GrantsIn(p, r) => ClaimsIn(p, x) /\ v = ParseAuthorizeIdentity(IdentityIn(p, x)),
         ~GrantsIn(p, r) => v = w,
         p = "v2" =>
           /\ GrantsIn(p, r) => d = [enabled |-> TRUE, channel |-> U32At(r, 11)] /\ U32At(r, 11) # 0
           /\ ~GrantsIn(p, r) => d = c
           /\ x.type = sv2MsgSubmitSharesStandard /\ x.body.ok => (WrongOn(c, x.body) <=> SaysWrongChannel(r))
  PROVE  TalkIs(p, Append(R, r), Append(Q, x), TRUE, v, d)
<1> DEFINE s == Append(R, r)
           t == Append(Q, x)
<1>1. /\ InStep(p, R, Q, TRUE) /\ (w.wallet # None => CreditedTo(p, R, Q, w))
      /\ p = "v2" => /\ SharesTold(R, Q)
                     /\ c.channel = ToldBefore(R, Len(R) + 1) /\ (c.enabled <=> c.channel # 0)
  BY DEF TalkIs
<1>2. Len(R) = Len(Q)
  BY <1>1 DEF InStep
<1>3. InStep(p, s, t, TRUE)
  BY <1>1, InStepMore
<1>4. v.wallet # None => CreditedTo(p, s, t, v)
  <2>1. CASE GrantsIn(p, r)
    BY <1>2, <2>1, CreditedMore
  <2>2. CASE ~GrantsIn(p, r)
    <3>1. v = w
      BY <2>2
    <3>2. w.wallet # None => CreditedTo(p, s, t, w)
      BY <1>1, <1>2, <2>2, CreditedMore
    <3> QED BY <3>1, <3>2
  <2> QED BY <2>1, <2>2
<1>5. ASSUME p = "v2"
      PROVE  /\ SharesTold(s, t)
             /\ d.channel = ToldBefore(s, Len(s) + 1) /\ (d.enabled <=> d.channel # 0)
  <2> DEFINE g == ToldBefore(R, Len(R) + 1)
  <2>1. SharesTold(R, Q) /\ c.channel = g /\ (c.enabled <=> c.channel # 0)
    BY <1>1, <1>5
  <2>2. GrantsIn(p, r) <=> Kind(r) = sv2MsgOpenMiningChannelSuccess
    BY <1>5 DEF GrantsIn
  <2>3. x.type = sv2MsgSubmitSharesStandard /\ x.body.ok =>
          ((x.body.channel = 0 \/ x.body.channel # g) <=> SaysWrongChannel(r))
    <3> HIDE DEF g
    <3>1. WrongOn(c, x.body) <=> (x.body.channel = 0 \/ x.body.channel # g)
      BY <2>1 DEF WrongOn
    <3> QED BY <1>5, <3>1
  <2>4. SharesTold(s, t)
    BY <1>2, <2>1, <2>3, ToldMore
  <2>5. ToldBefore(s, Len(s) + 1) = IF Kind(r) = sv2MsgOpenMiningChannelSuccess THEN U32At(r, 11) ELSE g
    BY <1>2, <2>1, ToldMore
  <2> HIDE DEF g, s
  <2>6. CASE GrantsIn(p, r)
    <3>1. d = [enabled |-> TRUE, channel |-> U32At(r, 11)] /\ U32At(r, 11) # 0
      BY <1>5, <2>6
    <3>2. d.enabled /\ d.channel = U32At(r, 11)
      BY <3>1
    <3> QED BY <2>2, <2>4, <2>5, <2>6, <3>1, <3>2
  <2>7. CASE ~GrantsIn(p, r)
    <3>1. d = c
      BY <1>5, <2>7
    <3> QED BY <2>1, <2>2, <2>4, <2>5, <2>7, <3>1
  <2> QED BY <2>6, <2>7
<1> QED BY <1>3, <1>4, <1>5 DEF TalkIs, s, t

\* What an answer does to the wallet and the worker, v afterwards and a and k before,
\* to the goroutines it overtakes, and to the channel, d afterwards and c before.
Named(p, x, r, v, a, k) ==
  /\ GrantsIn(p, r) => ClaimsIn(p, x) /\ v = ParseAuthorizeIdentity(IdentityIn(p, x)) /\ v.wallet # None
  /\ ~GrantsIn(p, r) => v.wallet = a /\ v.worker = k
Overtaking(o1, o, v, a, H) == o1 <=> (o \/ (v.wallet # a /\ H \ {v.wallet} # {}))
Opened(p, x, r, d, c) ==
  p = "v2" =>
    /\ GrantsIn(p, r) => d = [enabled |-> TRUE, channel |-> U32At(r, 11)] /\ U32At(r, 11) # 0
    /\ ~GrantsIn(p, r) => d = c
    /\ x.type = sv2MsgSubmitSharesStandard /\ x.body.ok => (WrongOn(c, x.body) <=> SaysWrongChannel(r))

\* A grant changes the wallet and the worker, with dispatch goroutines that hold the
\* wallet of another one; nothing else does.
LEMMA ForceMore ==
  ASSUME NEW p, NEW R, \E S : R \in Seq(S), NEW Q, \E S : Q \in Seq(S), Len(R) = Len(Q),
         NEW w, NEW a, NEW k, NEW H, NEW o, InForce(p, R, Q, w, a, k, H, o),
         NEW r, NEW x, NEW v, NEW o1,
         Named(p, x, r, v, a, k), Overtaking(o1, o, v, a, H)
  PROVE  /\ GrantsIn(p, r) => InForce(p, Append(R, r), Append(Q, x), v, v.wallet, v.worker, H, o1)
         /\ ~GrantsIn(p, r) => InForce(p, Append(R, r), Append(Q, x), w, v.wallet, v.worker, H, o1)
<1> DEFINE s == Append(R, r)
           t == Append(Q, x)
           n == Len(R)
<1>1. /\ n \in Nat /\ t[n + 1] = x /\ \A i \in 1 .. n : t[i] = Q[i]
  BY Grown
<1>2. GrantedIn(p, s) = IF GrantsIn(p, r) THEN GrantedIn(p, R) \union {n + 1} ELSE GrantedIn(p, R)
  BY GrantedMore
<1>3. \A i \in GrantedIn(p, R) : i \in 1 .. n
  BY DEF GrantedIn
<1> HIDE DEF s, t, n
<1>4. \A b : WalletTold(p, R, Q, b) => WalletTold(p, s, t, b)
  <2>1. \A i \in GrantedIn(p, R) : i \in GrantedIn(p, s) /\ t[i] = Q[i]
    BY <1>1, <1>2, <1>3
  <2> QED BY <2>1 DEF WalletTold
<1>5. CASE GrantsIn(p, r)
  <2>1. WalletTold(p, s, t, v.wallet)
    <3>1. n + 1 \in GrantedIn(p, s)
      BY <1>2, <1>5
    <3> QED BY <1>1, <1>5, <3>1 DEF WalletTold, Named
  <2>2. ~o1 => \A b \in H : b = v.wallet
    <3> SUFFICES ASSUME ~o1, NEW b \in H PROVE b = v.wallet
      OBVIOUS
    <3>1. ~o /\ (v.wallet = a \/ H \ {v.wallet} = {})
      BY Zenon DEF Overtaking
    <3>2. a = w.wallet /\ b = w.wallet
      BY <3>1, Zenon DEF InForce
    <3> QED BY <3>1, <3>2
  <2>3. \A b \in H : WalletTold(p, s, t, b)
    BY <1>4 DEF InForce
  <2> QED BY <1>5, <2>1, <2>2, <2>3 DEF InForce, Named, s, t
<1>6. CASE ~GrantsIn(p, r)
  <2>1. v.wallet = a /\ v.worker = k /\ (o1 <=> o)
    BY <1>6 DEF Named, Overtaking
  <2>2. InForce(p, s, t, w, a, k, H, o1)
    BY <1>4, <2>1 DEF InForce
  <2> QED BY <1>6, <2>1, <2>2 DEF s, t
<1> QED BY <1>5, <1>6

\* The whole conversation with one more question and its answer, which make v the
\* wallet and the worker of the context.
LEMMA TalkGoesOn ==
  ASSUME NEW p, NEW R, \E S : R \in Seq(S), NEW Q, \E S : Q \in Seq(S),
         NEW c, NEW a, NEW k, NEW H, NEW o, TalkOf(p, R, Q, TRUE, c, a, k, H, o),
         NEW x, NEW r, NEW v, NEW d, NEW o1,
         AnswersIn(p, r, x),
         Named(p, x, r, v, a, k), Overtaking(o1, o, v, a, H), Opened(p, x, r, d, c)
  PROVE  TalkOf(p, Append(R, r), Append(Q, x), TRUE, d, v.wallet, v.worker, H, o1)
<1>1. PICK w : TalkIs(p, R, Q, TRUE, w, c) /\ InForce(p, R, Q, w, a, k, H, o)
  BY DEF TalkOf
<1> DEFINE u == IF GrantsIn(p, r) THEN v ELSE w
<1>2. Len(R) = Len(Q)
  BY <1>1 DEF TalkIs, InStep
<1>3. InForce(p, Append(R, r), Append(Q, x), u, v.wallet, v.worker, H, o1)
  <2>1. CASE GrantsIn(p, r)
    BY <1>1, <1>2, <2>1, ForceMore
  <2>2. CASE ~GrantsIn(p, r)
    BY <1>1, <1>2, <2>2, ForceMore
  <2> QED BY <2>1, <2>2
<1>4. /\ GrantsIn(p, r) => ClaimsIn(p, x) /\ u = ParseAuthorizeIdentity(IdentityIn(p, x))
      /\ ~GrantsIn(p, r) => u = w
  BY DEF Named
<1> HIDE DEF u
<1>5. TalkIs(p, Append(R, r), Append(Q, x), TRUE, u, d)
  <2>1. p = "v2" =>
           /\ GrantsIn(p, r) => d = [enabled |-> TRUE, channel |-> U32At(r, 11)] /\ U32At(r, 11) # 0
           /\ ~GrantsIn(p, r) => d = c
           /\ x.type = sv2MsgSubmitSharesStandard /\ x.body.ok => (WrongOn(c, x.body) <=> SaysWrongChannel(r))
    BY DEF Opened
  <2> QED BY <1>1, <1>4, <2>1, TalkMore
<1> QED BY <1>3, <1>5 DEF TalkOf

\* The end of the conversation, with a question left open or not.
LEMMA TalkStops ==
  ASSUME NEW p, NEW R, \E S : R \in Seq(S), NEW Q, \E S : Q \in Seq(S),
         NEW c, NEW a, NEW k, NEW H, NEW o, TalkOf(p, R, Q, TRUE, c, a, k, H, o),
         NEW d, NEW a1, NEW k1, NEW H1, NEW o1
  PROVE  /\ TalkOf(p, R, Q, FALSE, d, a1, k1, H1, o1)
         /\ \A x : TalkOf(p, R, Append(Q, x), FALSE, d, a1, k1, H1, o1)
<1>1. PICK w : TalkIs(p, R, Q, TRUE, w, c)
  BY DEF TalkOf
<1>2. TalkIs(p, R, Q, FALSE, w, d) /\ \A x : TalkIs(p, R, Append(Q, x), FALSE, w, d)
  BY <1>1, TalkEnds
<1> QED BY <1>2 DEF TalkOf

\* A dispatch goroutine takes the wallet of the context, or leaves it with one that
\* it holds.
LEMMA TalkDispatched ==
  ASSUME NEW p, NEW R, NEW Q, NEW c, NEW a, NEW k, NEW H, NEW o, TalkOf(p, R, Q, TRUE, c, a, k, H, o)
  PROVE  /\ a # None => TalkOf(p, R, Q, TRUE, c, a, k, H \union {a}, o)
         /\ \A b \in H, G \in SUBSET H : /\ TalkOf(p, R, Q, TRUE, c, a, k, G, o)
                                        /\ TalkOf(p, R, Q, TRUE, c, b, k, G, o)
<1>1. PICK w : TalkIs(p, R, Q, TRUE, w, c) /\ InForce(p, R, Q, w, a, k, H, o)
  BY DEF TalkOf
<1>2. a # None => InForce(p, R, Q, w, a, k, H \union {a}, o)
  BY <1>1 DEF InForce
<1>3. \A b \in H, G \in SUBSET H : InForce(p, R, Q, w, a, k, G, o) /\ InForce(p, R, Q, w, b, k, G, o)
  BY <1>1 DEF InForce
<1> QED BY <1>1, <1>2, <1>3 DEF TalkOf

\* The questions are what messages mean, the replies are a sequence.
LEMMA TalkTypes ==
  ASSUME FrameInv, Understood, Shapes
  PROVE  /\ Questions \in Seq({m.means : m \in Messages(conn.proto)})
         /\ \E S : Replies \in Seq(S)
<1>1. handled \in Seq({m.means : m \in Messages(conn.proto)})
  BY DEF FrameInv, Calls, HandledOf
<1>2. Questions \in Seq({m.means : m \in Messages(conn.proto)})
  BY <1>1, PickType DEF Questions
<1>3. PICK S : out \in Seq(S)
  BY DEF Shapes
<1>4. Replies = RepliesOf(out)
  BY Zenon DEF Replies, RepliesOf
<1>5. Replies \in Seq(S)
  BY <1>3, <1>4, RepliesType
<1> QED BY <1>2, <1>5

\* A new connection has said nothing.
LEMMA TalkInit == Init => TalkInv
<1> SUFFICES ASSUME Init PROVE TalkInv
  OBVIOUS
<1>1. /\ handled = << >> /\ out = << >> /\ ctx = [app |-> None, wallet |-> None, worker |-> None]
      /\ sv2 = [enabled |-> FALSE, channel |-> 0] /\ held = {} /\ overtaken = FALSE
  BY DEF Init, ReaderInit
<1> DEFINE w == [wallet |-> None, worker |-> None]
<1>2. ctx.wallet = None /\ ctx.worker = None /\ w.wallet = None /\ w.worker = None
      /\ ~sv2.enabled /\ sv2.channel = 0
  BY <1>1
<1> HIDE DEF w
<1>3. Questions = << >>
  BY <1>1, PickEmpty DEF Questions
<1>4. Replies = << >>
  BY <1>1, PickEmpty DEF Replies
<1> DEFINE e == << >>
<1>5. Len(e) = 0 /\ 1 .. Len(e) = {}
  OBVIOUS
<1>6. Questions = e /\ Replies = e
  BY <1>3, <1>4
<1> HIDE DEF e
<1>7. ToldBefore(e, Len(e) + 1) = 0
  <2>1. OpenedIn(e, Len(e) + 1) = {}
    BY <1>5 DEF OpenedIn
  <2> QED BY <2>1, Zenon DEF ToldBefore, OpenedIn
<1>8. \A p, m : InStep(p, e, e, m) /\ SharesTold(e, e)
  BY <1>5 DEF InStep, SharesTold
<1>9. \A p, m : TalkIs(p, e, e, m, w, sv2)
  BY <1>2, <1>7, <1>8 DEF TalkIs
<1>10. \A p : InForce(p, e, e, w, ctx.wallet, ctx.worker, held, overtaken)
  BY <1>1, <1>2 DEF InForce
<1> QED BY <1>6, <1>9, <1>10 DEF TalkInv, TalkOf

\* Every step keeps the conversation in step.
LEMMA TalkNext ==
  ASSUME TypeInv, FrameInv, Understood, Shapes, TalkInv, [Next]_vars
  PROVE  TalkInv'
<1>1. conn' = conn
  BY SameConnection
<1> DEFINE p == conn.proto
           R == Replies
           Q == Questions
           a == ctx.wallet
           k == ctx.worker
<1>2. PICK r1, q1, m, d, a1, k1, H1, o1 :
        /\ r1 = Replies' /\ q1 = Questions' /\ m = (reader'.pc # "done") /\ d = sv2'
        /\ a1 = ctx'.wallet /\ k1 = ctx'.worker /\ H1 = held' /\ o1 = overtaken'
  OBVIOUS
<1>3. TalkInv' <=> TalkOf(p, r1, q1, m, d, a1, k1, H1, o1)
  BY <1>1, <1>2 DEF TalkInv
<1>4. m = TRUE \/ (m = FALSE /\ reader'.pc = "done")
  BY <1>2
<1>5. (\E S : R \in Seq(S)) /\ (\E S : Q \in Seq(S))
  BY TalkTypes
<1>6. reader.pc # "done" => TalkOf(p, R, Q, TRUE, sv2, a, k, held, overtaken)
  BY DEF TalkInv
<1>7. CASE UNCHANGED vars
  <2>1. /\ handled' = handled /\ out' = out /\ ctx' = ctx /\ reader' = reader /\ sv2' = sv2
        /\ held' = held /\ overtaken' = overtaken
    BY <1>7 DEF vars, readerVars
  <2>2. Replies' = Replies /\ Questions' = Questions
    BY <1>1, <2>1, NothingSaid
  <2> QED BY <1>1, <2>1, <2>2 DEF TalkInv
<1>8. CASE ConnectionStep
  <2>1. reader.pc # "done"
    BY <1>8, DoneStays DEF ConnectionStep, ReaderTurn
  <2>2. TalkOf(p, R, Q, TRUE, sv2, a, k, held, overtaken)
    BY <1>6, <2>1
  <2>3. H1 = held /\ (o1 <=> (overtaken \/ (a1 # a /\ held \ {a1} # {})))
    BY <1>2, <1>8 DEF ConnectionStep
  <2>4. /\ TalkOf(p, R, Q, FALSE, d, a1, k1, H1, o1)
        /\ \A x : TalkOf(p, R, Append(Q, x), FALSE, d, a1, k1, H1, o1)
    BY <1>5, <2>2, TalkStops
  <2>5. Who = [wallet |-> a, worker |-> k] /\ Who' = [wallet |-> a1, worker |-> k1]
    BY <1>2 DEF Who
  <2>6. PICK v : v = Who' /\ v.wallet = a1 /\ v.worker = k1
    BY <2>5
  <2>7. Who' = Who => a1 = a /\ k1 = k
    BY <2>5
  <2>8. CASE Quiet
    <3>1. r1 = R /\ q1 = Q /\ d = sv2 /\ a1 = a /\ k1 = k
      BY <1>2, <2>7, <2>8 DEF Quiet
    <3>2. (o1 <=> overtaken) /\ H1 = held
      BY <2>3, <3>1
    <3> HIDE DEF R, Q, p, a, k
    <3>3. TalkOf(p, R, Q, TRUE, sv2, a, k, held, o1)
      BY <2>2, <3>2 DEF TalkOf, InForce
    <3> QED BY <1>3, <1>4, <2>4, <3>1, <3>2, <3>3
  <2>9. CASE Ends
    <3>1. /\ m = FALSE /\ r1 = R
          /\ q1 = Q \/ \E x : q1 = Append(Q, x)
      BY <1>2, <1>4, <2>9 DEF Ends
    <3> HIDE DEF R, Q, p, a, k
    <3> QED BY <1>3, <2>4, <3>1
  <2>10. CASE \E x, r : Exchange(x, r)
    <3>1. PICK x, r : Exchange(x, r)
      BY <2>10
    <3>2. q1 = Append(Q, x) /\ r1 = Append(R, r) /\ AnswersIn(p, r, x)
      BY <1>2, <3>1, InThisProtocol DEF Exchange
    <3>3. GrantsIn(p, r) => ClaimsIn(p, x) /\ v = ParseAuthorizeIdentity(IdentityIn(p, x)) /\ v.wallet # None
      BY <2>6, <3>1, InThisProtocol DEF Exchange, GrantsAsTold
    <3>4. ~GrantsIn(p, r) => v.wallet = a /\ v.worker = k
      <4>1. ~GrantsIn(p, r) => Who' = Who
        BY <3>1, InThisProtocol DEF Exchange, GrantsAsTold
      <4> QED BY <2>6, <2>7, <4>1
    <3>5. p = "v2" =>
            /\ GrantsIn(p, r) => d = [enabled |-> TRUE, channel |-> U32At(r, 11)] /\ U32At(r, 11) # 0
            /\ ~GrantsIn(p, r) => d = sv2
            /\ x.type = sv2MsgSubmitSharesStandard /\ x.body.ok =>
                 (WrongOn(sv2, x.body) <=> SaysWrongChannel(r))
      BY <1>2, <3>1, InThisProtocol DEF Exchange, ChannelAsTold, WrongChannel, WrongOn
    <3>6. PICK c, H, o : c = sv2 /\ H = held /\ o = overtaken
      OBVIOUS
    <3> HIDE DEF R, Q, p, a, k
    <3>7. TalkOf(p, R, Q, TRUE, c, a, k, H, o)
      BY <2>2, <3>6
    <3>8. Named(p, x, r, v, a, k)
      BY <3>3, <3>4 DEF Named
    <3>9. Overtaking(o1, o, v, a, H)
      BY <2>3, <2>6, <3>6 DEF Overtaking
    <3>10. Opened(p, x, r, d, c)
      BY <3>5, <3>6 DEF Opened
    <3>11. TalkOf(p, Append(R, r), Append(Q, x), TRUE, d, v.wallet, v.worker, H, o1)
      BY <1>5, <3>2, <3>7, <3>8, <3>9, <3>10, TalkGoesOn
    <3>12. TalkOf(p, r1, q1, TRUE, d, a1, k1, H1, o1)
      BY <2>3, <2>6, <3>2, <3>6, <3>11
    <3>13. TalkOf(p, r1, q1, FALSE, d, a1, k1, H1, o1)
      <4>1. (\E S : r1 \in Seq(S)) /\ (\E S : q1 \in Seq(S))
        BY <1>5, <3>2, StillSequence
      <4> QED BY <3>12, <4>1, TalkStops
    <3> QED BY <1>3, <1>4, <3>12, <3>13
  <2> QED BY <1>8, <2>8, <2>9, <2>10, StepAnswers
<1>9. CASE DispatchBegin \/ DispatchEnd
  <2>1. /\ reader.pc # "done" /\ reader' = reader /\ handled' = handled /\ out' = out /\ sv2' = sv2
        /\ overtaken' = overtaken
    <3>1. CASE DispatchBegin
      BY <3>1 DEF DispatchBegin, readerVars, handlerVars
    <3>2. CASE DispatchEnd
      BY <3>2 DEF DispatchEnd, handlerVars
    <3> QED BY <1>9, <3>1, <3>2
  <2>2. /\ TalkOf(p, R, Q, TRUE, sv2, a, k, held, overtaken)
        /\ m = TRUE /\ r1 = R /\ q1 = Q /\ d = sv2 /\ o1 = overtaken
    BY <1>1, <1>2, <1>6, <2>1, NothingSaid
  <2>3. CASE DispatchBegin
    <3>1. a # None /\ a1 = a /\ k1 = k /\ H1 = held \union {a}
      BY <1>2, <2>3 DEF DispatchBegin, readerVars
    <3> HIDE DEF R, Q, p, a, k
    <3>2. TalkOf(p, R, Q, TRUE, sv2, a, k, held \union {a}, overtaken)
      BY <2>2, <3>1, TalkDispatched
    <3> QED BY <1>3, <2>2, <3>1, <3>2
  <2>4. CASE DispatchEnd
    <3>1. PICK b \in held : ctx' \in {ctx, WithWallet(ctx, b)} /\ held' \in {held, held \ {b}}
      BY <2>4, Zenon DEF DispatchEnd, WithWallet
    <3>2. a1 \in {a, b} /\ k1 = k
      <4>1. CtxIs(ctx)
        BY DEF Shapes
      <4>2. CASE ctx' = ctx
        BY <1>2, <4>2
      <4>3. CASE ctx' = WithWallet(ctx, b)
        <5>1. ctx'.wallet = b /\ ctx'.worker = ctx.worker
          BY <4>1, <4>3, NewWallet
        <5> QED BY <1>2, <5>1
      <4> QED BY <3>1, <4>2, <4>3
    <3>3. H1 \in SUBSET held
      BY <1>2, <3>1
    <3> HIDE DEF R, Q, p, a, k
    <3>4. TalkOf(p, R, Q, TRUE, sv2, a, k, H1, overtaken) /\ TalkOf(p, R, Q, TRUE, sv2, b, k, H1, overtaken)
      BY <2>2, <3>3, TalkDispatched
    <3> QED BY <1>3, <2>2, <3>2, <3>4
  <2> QED BY <1>9, <2>3, <2>4
<1> QED BY <1>7, <1>8, <1>9 DEF Next

\* The conversation is in step, on every port that takes the protocol of the miner.
LEMMA TalkInvariant == Spec => [](TypeInv /\ FrameInv /\ Shapes /\ (Understood => TalkInv))
<1>1. Init => Shapes /\ TalkInv
  BY ShapesInit, TalkInit
<1>2. /\ TypeInv /\ FrameInv /\ Shapes /\ (Understood => TalkInv) /\ [Next]_vars
      => (Shapes /\ (Understood => TalkInv))'
  <2> SUFFICES ASSUME TypeInv, FrameInv, Shapes, Understood => TalkInv, [Next]_vars
               PROVE  (Shapes /\ (Understood => TalkInv))'
    OBVIOUS
  <2>1. Understood' => Understood
    BY SameConnection DEF Understood
  <2> QED BY <2>1, ShapesNext, TalkNext
<1> QED BY <1>1, <1>2, FramesInvariant, PTL DEF Spec

\* What the miner asked for is what the handlers were called for.
LEMMA InOrder ==
  ASSUME FrameInv, Understood
  PROVE  Requests = Questions
<1>1. \E S : handled \in Seq(S)
  BY DEF FrameInv, Calls, HandledOf
<1>2. HandledAsSent
  BY AsSent
<1> DEFINE seen == [i \in 1 .. Len(handled) |-> miner.sent[Kept[i]].means]
<1>3. seen = handled
  <2>1. handled = [i \in 1 .. Len(handled) |-> handled[i]]
    BY <1>1
  <2>2. \A i \in 1 .. Len(handled) : handled[i] = miner.sent[Kept[i]].means
    BY <1>2 DEF HandledAsSent
  <2> QED BY <2>1, <2>2
<1>4. Requests = Pick(seen, {i \in 1 .. Len(handled) : Asks(seen[i])})
  BY Zenon DEF Requests
<1> HIDE DEF seen
<1> QED BY <1>3, <1>4 DEF Questions

\* Every request is answered once, in order, with a line that carries its id and the
\* kind of answer it asks for, or with a well-formed frame under its request or channel
\* and sequence number: no reply is doubled or written for another request.  Left out
\* are only those that end the connection and the submits of the line protocol that
\* the share handler gives an error for (NoReply stands for their silence); an SV2
\* submit that cannot be parsed is refused under the numbers 0 and 0.
THEOREM RequestsAreAnswered == Spec => [](Understood => AnswersEchoRequests)
<1>1. FrameInv /\ (Understood => TalkInv) => (Understood => AnswersEchoRequests)
  <2> SUFFICES ASSUME FrameInv, Understood, TalkInv PROVE AnswersEchoRequests
    OBVIOUS
  <2>1. InStep(conn.proto, Replies, Questions, reader.pc # "done")
    BY DEF TalkInv, TalkOf, TalkIs
  <2>2. /\ Len(Replies) <= Len(Questions) /\ (reader.pc # "done" => Len(Replies) = Len(Questions))
        /\ \A i \in 1 .. Len(Replies) : AnswersIn(conn.proto, Replies[i], Questions[i])
    BY <2>1 DEF InStep
  <2>3. Requests = Questions
    BY InOrder
  <2> QED BY <2>2, <2>3, InThisProtocol DEF AnswersEchoRequests
<1> QED BY <1>1, TalkInvariant, PTL

\* A share is refused for its channel exactly when it does not name the channel that
\* the miner was told last, however often it has opened one and also when the ids
\* have wrapped around: what the handler holds is what the miner knows.
THEOREM SharesAreForTheOpenChannel == Spec => []SharesOnOpenChannel
<1>1. FrameInv /\ (Understood => TalkInv) => SharesOnOpenChannel
  <2> SUFFICES ASSUME FrameInv, Understood, TalkInv, conn.proto = "v2",
                      NEW i \in 1 .. Len(out),
                      Requests[i].type = sv2MsgSubmitSharesStandard /\ Requests[i].body.ok
               PROVE  (Requests[i].body.channel = 0 \/ Requests[i].body.channel # Granted(i)) =
                        (Kind(out[i]) = sv2MsgSubmitSharesError /\ ErrorText(out[i], 15) = Text("wrong channel"))
    BY Zenon DEF SharesOnOpenChannel, Understood
  <2>1. Requests = Questions /\ Replies = out
    BY InOrder DEF Replies
  <2>2. SharesTold(Replies, Questions)
    BY DEF TalkInv, TalkOf, TalkIs
  <2>3. Granted(i) = ToldBefore(out, i)
    BY Zenon DEF Granted, ToldBefore
  <2>4. (Requests[i].body.channel = 0 \/ Requests[i].body.channel # Granted(i)) <=> SaysWrongChannel(out[i])
    BY <2>1, <2>2, <2>3 DEF SharesTold
  <2> QED BY <2>4 DEF SaysWrongChannel
<1> QED BY <1>1, TalkInvariant, PTL

\* The identities that miners may claim, and that are accepted, stand for a wallet.
IdentitiesKnown ==
  /\ \A m \in Messages("v1") :
       /\ m.means.method = "mining.authorize" /\ m.means.params # << >>
       /\ ParseAuthorizeIdentity(m.means.params[1]).wallet # None
       => m.means.params[1] \in DOMAIN WalletOf
  /\ \A m \in Messages("v2") :
       /\ m.means.type = sv2MsgOpenStandardMiningChannel /\ m.means.body.ok
       /\ ParseAuthorizeIdentity(m.means.body.identity).wallet # None
       => m.means.body.identity \in DOMAIN WalletOf

\* While the connection is up, shares are credited to the worker of the identity that
\* the miner was told last that it may mine for, and to its wallet, or to that of an
\* earlier grant if dispatch goroutines held it when the wallet changed: a refused or
\* half-written answer never leaves another wallet behind, and without a goroutine that
\* was overtaken none is written back.
THEOREM SharesAreCreditedAsAuthorized ==
  ASSUME IdentitiesRead, IdentitiesKnown
  PROVE  Spec => [](Understood => CreditedAsAuthorized)
<1>1. TypeInv /\ FrameInv /\ Shapes /\ (Understood => TalkInv) => (Understood => CreditedAsAuthorized)
  <2> SUFFICES ASSUME TypeInv, FrameInv, Shapes, Understood, TalkInv, reader.pc # "done", ctx.wallet # None
               PROVE  \E i \in Authorized :
                        /\ \A j \in Authorized : j <= i
                        /\ ctx.worker = For(i).worker
                        /\ \/ ctx.wallet = For(i).wallet
                           \/ overtaken /\ \E j \in Authorized : ctx.wallet = For(j).wallet
    BY Zenon DEF CreditedAsAuthorized
  <2> DEFINE p == conn.proto
             id(i) == IdentityIn(p, Questions[i])
  <2>1. PICK w : /\ TalkIs(p, Replies, Questions, TRUE, w, sv2)
                 /\ InForce(p, Replies, Questions, w, ctx.wallet, ctx.worker, held, overtaken)
    BY DEF TalkInv, TalkOf
  <2>2. /\ w.wallet # None /\ ctx.worker = w.worker /\ (~overtaken => ctx.wallet = w.wallet)
        /\ WalletTold(p, Replies, Questions, ctx.wallet)
    BY <2>1 DEF InForce
  <2>3. CreditedTo(p, Replies, Questions, w) /\ InStep(p, Replies, Questions, TRUE)
    BY <2>1, <2>2 DEF TalkIs
  <2>4. Authorized = GrantedIn(p, Replies)
    BY DEF Authorized, GrantedIn, GrantsIn
  <2>5. ASSUME NEW i \in Authorized, ClaimsIn(p, Questions[i]), ParseAuthorizeIdentity(id(i)).wallet # None
        PROVE  For(i) = ParseAuthorizeIdentity(id(i))
    <3>1. PICK m \in Messages(p) : Questions[i] = m.means
      <4>1. Questions \in Seq({m.means : m \in Messages(p)})
        BY TalkTypes
      <4>2. i \in 1 .. Len(Replies) /\ Len(Replies) = Len(Questions)
        BY <2>3, <2>4 DEF GrantedIn, InStep
      <4>3. Questions[i] \in {m.means : m \in Messages(p)}
        BY <4>1, <4>2
      <4> QED BY <4>3
    <3>2. id(i) \in DOMAIN WalletOf
      <4>1. p = "v1" \/ p = "v2"
        BY DEF TypeInv
      <4> QED BY <2>5, <3>1, <4>1 DEF IdentitiesKnown, ClaimsIn, IdentityIn
    <3>3. For(i) = WalletOf[id(i)]
      <4>1. Requests = Questions
        BY InOrder
      <4> QED BY <4>1 DEF For, IdentityIn
    <3> HIDE DEF id
    <3> QED BY <3>2, <3>3 DEF IdentitiesRead
  <2>6. PICK i \in Authorized : (\A j \in Authorized : j <= i) /\ For(i) = w
    <3>1. PICK i \in GrantedIn(p, Replies) :
            /\ \A j \in GrantedIn(p, Replies) : j <= i
            /\ ClaimsIn(p, Questions[i]) /\ w = ParseAuthorizeIdentity(id(i))
      BY <2>3 DEF CreditedTo
    <3> HIDE DEF id
    <3> QED BY <2>2, <2>4, <2>5, <3>1
  <2>7. PICK j \in Authorized : ctx.wallet = For(j).wallet
    <3>1. PICK j \in GrantedIn(p, Replies) :
            ClaimsIn(p, Questions[j]) /\ ParseAuthorizeIdentity(id(j)).wallet = ctx.wallet
      BY <2>2 DEF WalletTold
    <3> HIDE DEF id
    <3>2. For(j) = ParseAuthorizeIdentity(id(j))
      BY <2>4, <2>5, <3>1
    <3> QED BY <2>4, <3>1, <3>2
  <2> QED BY <2>2, <2>6, <2>7
<1> QED BY <1>1, TalkInvariant, PTL
=============================================================================
