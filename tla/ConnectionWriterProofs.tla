----------------------- MODULE ConnectionWriterProofs -----------------------
(***************************************************************************)
(* Frames of different goroutines never mix on a connection, the results   *)
(* of the calls are true and a broken stream ends the connection, for any  *)
(* number of goroutines, messages and attempts.                            *)
(***************************************************************************)
EXTENDS ConnectionWriter, TLAPS

Holding == {"write", "tail", "unlock"}

\* Where the send of each goroutine may stand.
SendStates ==
  [Writers -> [pc : {"idle", "try", "write", "tail", "unlock"},
               attempts : Nat, result : Results \union {"none"}]]

\* The compare-and-swap makes writeLock a lock: one goroutine is between it and
\* the deferred store.
LockInv ==
  /\ \A w \in Writers : writer[w].pc \in Holding => writeLock = 1
  /\ \A v, w \in Writers :
       writer[v].pc \in Holding /\ writer[w].pc \in Holding => v = w

\* A chunk belongs to a call that has returned or to the one in progress, whose
\* goroutine has then passed the write of that chunk.
ChunkInv ==
  \A i \in 1 .. Len(stream) :
    LET w == stream[i].from
    IN  \/ stream[i].serial < Serial(w)
        \/ /\ stream[i].serial = Serial(w)
           /\ \/ writer[w].pc = "tail" /\ stream[i].part = "head"
              \/ writer[w].pc = "unlock"
                   /\ (stream[i].part = "tail" => writer[w].result = "ok")

\* Between its two chunks a goroutine's first one is the last of the stream.
TailInv ==
  \A w \in Writers :
    writer[w].pc = "tail" =>
      Len(stream) > 0 /\ stream[Len(stream)] = Chunk(w, Serial(w), "head")

\* What write is about to return.
ResultInv ==
  \A w \in Writers :
    writer[w].pc = "unlock" =>
      /\ writer[w].result \in {"ok", "failed"}
      /\ writer[w].result = "ok" => Written(w, Serial(w), "tail") # {}

\* The inductive invariant.
WriterInv ==
  /\ TypeOK
  /\ LockInv
  /\ ChunkInv
  /\ TailInv
  /\ ResultInv
  /\ FramesAreContiguous
  /\ ReturnTellsTheTruth
  /\ FragmentsEndTheConnection

\* At the start the stream is empty and no goroutine is in a call.
LEMMA WriterInvInit == Init => WriterInv
<1> SUFFICES ASSUME Init PROVE WriterInv
  OBVIOUS
<1>1. TypeOK
  BY DEF Init, TypeOK, Idle, Results, Chunks
<1>2. LockInv /\ TailInv /\ ResultInv
  BY DEF Init, LockInv, TailInv, ResultInv, Idle, Holding
<1>3. ChunkInv /\ FramesAreContiguous
  BY DEF Init, ChunkInv, FramesAreContiguous
<1>4. ReturnTellsTheTruth
  BY DEF Init, ReturnTellsTheTruth
<1>5. FragmentsEndTheConnection
  BY DEF Init, FragmentsEndTheConnection, Fragments
<1> QED BY <1>1, <1>2, <1>3, <1>4, <1>5 DEF WriterInv

\* A step of Return: the serial number of w moves on, that of others does not.
LEMMA ReturnSerial ==
  ASSUME TypeOK, NEW w \in Writers, NEW r \in Results, Return(w, r)
  PROVE  /\ outcome' \in [Writers -> Seq(Results)]
         /\ Serial(w)' = Serial(w) + 1
         /\ \A v \in Writers : v # w => outcome'[v] = outcome[v] /\ Serial(v)' = Serial(v)
         /\ \A v \in Writers : Serial(v) \in Nat /\ Serial(v)' \in Nat
         /\ \A k \in 1 .. Len(outcome[w]) : outcome'[w][k] = outcome[w][k]
         /\ outcome'[w][Serial(w)] = r
         /\ Len(outcome'[w]) = Serial(w)
         /\ writer' = [writer EXCEPT ![w] = Idle]
BY DEF TypeOK, Return, Serial

\* A call returns without having written anything, or after its write.
LEMMA ReturnKeepsInv ==
  ASSUME WriterInv, NEW w \in Writers, NEW r \in Results, Return(w, r),
         UNCHANGED <<link, teardown, stream>>,
         \/ writer[w].pc \in {"idle", "try"} /\ r # "ok" /\ UNCHANGED writeLock
         \/ writer[w].pc = "unlock" /\ r = writer[w].result /\ writeLock' = 0
  PROVE  WriterInv'
<1> DEFINE quiet == writer[w].pc \in {"idle", "try"} /\ r # "ok" /\ UNCHANGED writeLock
<1> DEFINE done == writer[w].pc = "unlock" /\ r = writer[w].result /\ writeLock' = 0
<1>1. quiet \/ done
  OBVIOUS
<1>2. /\ outcome' \in [Writers -> Seq(Results)]
      /\ Serial(w)' = Serial(w) + 1
      /\ \A v \in Writers : v # w => outcome'[v] = outcome[v] /\ Serial(v)' = Serial(v)
      /\ \A v \in Writers : Serial(v) \in Nat /\ Serial(v)' \in Nat
      /\ \A k \in 1 .. Len(outcome[w]) : outcome'[w][k] = outcome[w][k]
      /\ outcome'[w][Serial(w)] = r
      /\ Len(outcome'[w]) = Serial(w)
      /\ writer' = [writer EXCEPT ![w] = Idle]
  BY ReturnSerial DEF WriterInv
<1>3. TypeOK /\ LockInv /\ ChunkInv /\ TailInv /\ ResultInv /\ FramesAreContiguous
        /\ ReturnTellsTheTruth /\ FragmentsEndTheConnection
  BY DEF WriterInv
<1>4. \A v \in Writers : v # w => writer'[v] = writer[v]
  BY <1>2, <1>3 DEF TypeOK
<1>5. writer'[w] = Idle /\ writer'[w].pc = "idle"
  BY <1>2, <1>3 DEF TypeOK, Idle
<1>6. TypeOK'
  BY <1>1, <1>2, <1>3 DEF TypeOK, Idle, Results
<1>7. LockInv'
  BY <1>1, <1>3, <1>4, <1>5 DEF LockInv, Holding
<1>8. \A i \in 1 .. Len(stream) : stream[i] \in Chunks
  BY <1>3 DEF TypeOK
<1>9. ChunkInv'
  BY <1>2, <1>3, <1>4, <1>5, <1>8 DEF ChunkInv, Chunks
<1>10. TailInv'
  BY <1>2, <1>3, <1>4, <1>5 DEF TailInv
<1>11. ResultInv'
  BY <1>2, <1>3, <1>4, <1>5 DEF ResultInv, Written
<1>12. FramesAreContiguous'
  BY <1>3 DEF FramesAreContiguous
<1>13. r = "ok" <=> Written(w, Serial(w), "tail") # {}
  <2>1. CASE quiet
    BY <1>2, <1>3, <1>8, <2>1 DEF Written, ChunkInv, Chunk, Chunks
  <2>2. CASE done
    <3>1. r = "ok" => Written(w, Serial(w), "tail") # {}
      BY <1>3, <2>2 DEF ResultInv
    <3>2. ASSUME NEW i \in Written(w, Serial(w), "tail")
          PROVE  r = "ok"
      <4>1. /\ i \in 1 .. Len(stream)
            /\ stream[i].from = w
            /\ stream[i].serial = Serial(w)
            /\ stream[i].part = "tail"
        BY <3>2 DEF Written, Chunk
      <4> QED BY <1>2, <1>3, <2>2, <4>1 DEF ChunkInv
    <3> QED BY <3>1, <3>2
  <2> QED BY <1>1, <2>1, <2>2
<1>14. ReturnTellsTheTruth'
  <2>1. ASSUME NEW v \in Writers, NEW k \in 1 .. Len(outcome'[v])
        PROVE  (outcome'[v][k] = "ok") <=> (Written(v, k, "tail") # {})
    <3>1. CASE v # w
      BY <1>2, <1>3, <2>1, <3>1 DEF ReturnTellsTheTruth
    <3>2. CASE v = w /\ k = Serial(w)
      BY <1>2, <1>13, <3>2
    <3>3. CASE v = w /\ k # Serial(w)
      <4>1. k \in 1 .. Len(outcome[w])
        BY <1>2, <1>3, <2>1, <3>3 DEF Serial, TypeOK
      <4> QED BY <1>2, <1>3, <3>3, <4>1 DEF ReturnTellsTheTruth
    <3> QED BY <3>1, <3>2, <3>3
  <2>2. \A v \in Writers, k \in Nat : Written(v, k, "tail")' = Written(v, k, "tail")
    BY DEF Written
  <2> QED BY <1>3, <2>1, <2>2 DEF ReturnTellsTheTruth
<1>15. FragmentsEndTheConnection'
  <2>1. Fragments' = Fragments
    BY DEF Fragments, Written
  <2>2. ASSUME NEW i \in Fragments
        PROVE  \/ stream[i].serial = Serial(stream[i].from)'
                    /\ writer'[stream[i].from].pc = "tail"
               \/ teardown = "pending"
               \/ link # "up"
    BY <1>1, <1>2, <1>3, <1>4, <1>8, <2>2 DEF FragmentsEndTheConnection, Fragments, Chunks
  <2> QED BY <2>1, <2>2 DEF FragmentsEndTheConnection
<1> QED BY <1>6, <1>7, <1>9, <1>10, <1>11, <1>12, <1>14, <1>15 DEF WriterInv

\* A goroutine on the way to the lock, or taking it.
LEMMA ApproachKeepsInv ==
  ASSUME WriterInv, TypeOK', NEW w \in Writers,
         writer[w].pc \in {"idle", "try"},
         \A v \in Writers : v # w => writer'[v] = writer[v],
         UNCHANGED <<link, teardown, stream, outcome>>,
         \/ writer'[w].pc = "try" /\ UNCHANGED writeLock
         \/ writer'[w].pc = "write" /\ writeLock = 0 /\ writeLock' = 1
  PROVE  WriterInv'
<1>1. TypeOK /\ LockInv /\ ChunkInv /\ TailInv /\ ResultInv /\ FramesAreContiguous
        /\ ReturnTellsTheTruth /\ FragmentsEndTheConnection
  BY DEF WriterInv
<1>2. writer[w].pc \notin Holding /\ writer'[w].pc \notin {"tail", "unlock"}
  BY DEF Holding
<1>3. LockInv'
  <2>1. CASE writer'[w].pc = "try" /\ UNCHANGED writeLock
    BY <1>1, <2>1 DEF LockInv, Holding
  <2>2. CASE writer'[w].pc = "write" /\ writeLock = 0 /\ writeLock' = 1
    <3>1. \A v \in Writers : writer[v].pc \notin Holding
      BY <1>1, <2>2 DEF LockInv
    <3>2. \A v \in Writers : writer'[v].pc \in Holding => v = w
      BY <3>1
    <3> QED BY <2>2, <3>2 DEF LockInv
  <2> QED BY <2>1, <2>2
<1>4. \A i \in 1 .. Len(stream) : stream[i] \in Chunks /\ stream[i].from \in Writers
  <2>1. stream \in Seq(Chunks)
    BY <1>1 DEF TypeOK
  <2>2. \A i \in 1 .. Len(stream) : stream[i] \in Chunks
    BY <2>1
  <2> QED BY <2>2 DEF Chunks
<1>5. \A v \in Writers : Serial(v)' = Serial(v)
  BY DEF Serial
<1>6. ChunkInv'
  <2>1. ASSUME NEW i \in 1 .. Len(stream), stream[i].from = w
        PROVE  stream[i].serial < Serial(w)
    BY <1>1, <1>2, <2>1 DEF ChunkInv, Holding
  <2>2. ASSUME NEW i \in 1 .. Len(stream), NEW v \in Writers, stream[i].from = v
        PROVE  \/ stream[i].serial < Serial(v)'
               \/ /\ stream[i].serial = Serial(v)'
                  /\ \/ writer'[v].pc = "tail" /\ stream[i].part = "head"
                     \/ writer'[v].pc = "unlock"
                          /\ (stream[i].part = "tail" => writer'[v].result = "ok")
    BY <1>1, <1>5, <2>1, <2>2 DEF ChunkInv
  <2> QED BY <1>4, <2>2 DEF ChunkInv
<1>7. TailInv'
  BY <1>1, <1>2, <1>5 DEF TailInv
<1>8. ResultInv'
  <2>1. \A v \in Writers : Written(v, Serial(v), "tail")' = Written(v, Serial(v), "tail")
    BY <1>5 DEF Written
  <2> QED BY <1>1, <1>2, <2>1 DEF ResultInv
<1>9. FramesAreContiguous' /\ ReturnTellsTheTruth'
  BY <1>1 DEF FramesAreContiguous, ReturnTellsTheTruth, Written
<1>10. FragmentsEndTheConnection'
  <2>1. Fragments' = Fragments
    BY DEF Fragments, Written
  <2>2. ASSUME NEW i \in Fragments, NEW v \in Writers, stream[i].from = v
        PROVE  \/ stream[i].serial = Serial(v)' /\ writer'[v].pc = "tail"
               \/ teardown = "pending"
               \/ link # "up"
    BY <1>1, <1>2, <1>5, <2>2 DEF FragmentsEndTheConnection, Holding
  <2>3. \A i \in Fragments : stream[i].from \in Writers
    BY <1>4 DEF Fragments
  <2> QED BY <2>1, <2>2, <2>3 DEF FragmentsEndTheConnection
<1> QED BY <1>3, <1>6, <1>7, <1>8, <1>9, <1>10 DEF WriterInv

\* The first chunk: nothing of this message is out yet.
LEMMA WriteHeadKeepsInv ==
  ASSUME WriterInv, NEW w \in Writers, WriteHead(w)
  PROVE  WriterInv'
<1> DEFINE e == Chunk(w, Serial(w), "head")
<1>1. TypeOK /\ LockInv /\ ChunkInv /\ TailInv /\ ResultInv /\ FramesAreContiguous
        /\ ReturnTellsTheTruth /\ FragmentsEndTheConnection
  BY DEF WriterInv
<1>2. Serial(w) \in Nat /\ \A v \in Writers : Serial(v)' = Serial(v)
  BY <1>1 DEF Serial, TypeOK, WriteHead
<1>3. e \in Chunks /\ e.from = w /\ e.serial = Serial(w) /\ e.part = "head"
  BY <1>2 DEF Chunks, Chunk
<1>4. stream \in Seq(Chunks) /\ stream' = Append(stream, e)
  BY <1>1 DEF TypeOK, WriteHead, Put
<1> HIDE DEF e
<1>5. /\ stream' \in Seq(Chunks) /\ Len(stream') = Len(stream) + 1 /\ Len(stream) \in Nat
      /\ stream'[Len(stream) + 1] = e
      /\ \A i \in 1 .. Len(stream) : stream'[i] = stream[i] /\ stream[i] \in Chunks
  BY <1>3, <1>4
<1>6. /\ writer[w].pc = "write" /\ writer'[w].pc = "tail"
      /\ \A v \in Writers : v # w => writer'[v] = writer[v]
  BY <1>1 DEF TypeOK, WriteHead
<1>7. \A v \in Writers : v # w => writer[v].pc \notin Holding
  BY <1>1, <1>6 DEF LockInv, Holding
<1>8. \A i \in 1 .. Len(stream) : stream[i].from = w => stream[i].serial < Serial(w)
  BY <1>1, <1>6 DEF ChunkInv
<1>9. TypeOK'
  <2>1. writer' = [writer EXCEPT ![w].pc = "tail"] /\ writer \in SendStates
    BY <1>1 DEF TypeOK, WriteHead, SendStates
  <2>2. writer' \in SendStates
    BY <2>1 DEF SendStates
  <2> QED BY <1>1, <1>5, <2>2 DEF TypeOK, WriteHead, SendStates
<1>10. LockInv'
  BY <1>1, <1>6 DEF LockInv, Holding, WriteHead
<1>11. ChunkInv'
  <2>1. ASSUME NEW i \in 1 .. Len(stream)
        PROVE  stream[i].serial < Serial(stream[i].from)
    BY <1>1, <1>5, <1>7, <1>8 DEF ChunkInv, Chunks, Holding
  <2>2. \A i \in 1 .. Len(stream) : stream[i].from \in Writers
    BY <1>5 DEF Chunks
  <2> QED BY <1>2, <1>3, <1>5, <1>6, <2>1, <2>2 DEF ChunkInv
<1>12. TailInv'
  BY <1>2, <1>5, <1>6, <1>7 DEF TailInv, Holding, e
<1>13. \A v \in Writers, k \in Nat : Written(v, k, "tail")' = Written(v, k, "tail")
  BY <1>3, <1>5 DEF Written, Chunk
<1>14. ResultInv'
  BY <1>6, <1>7 DEF ResultInv, Holding
<1>15. FramesAreContiguous'
  BY <1>1, <1>3, <1>5 DEF FramesAreContiguous
<1>16. ReturnTellsTheTruth'
  <2>1. \A i \in 1 .. Len(stream) : stream[i] # e
    BY <1>2, <1>3, <1>5, <1>8 DEF Chunks
  <2>2. \A i, j \in 1 .. Len(stream') : stream'[i] = stream'[j] => i = j
    BY <1>1, <1>5, <2>1 DEF ReturnTellsTheTruth
  <2> QED BY <1>1, <1>13, <2>2 DEF ReturnTellsTheTruth, WriteHead
<1>17. FragmentsEndTheConnection'
  <2>1. ASSUME NEW i \in Fragments', i # Len(stream) + 1
        PROVE  i \in Fragments
    <3>1. i \in 1 .. Len(stream) /\ stream'[i] = stream[i] /\ stream[i].part = "head"
      BY <1>5, <2>1 DEF Fragments
    <3>2. \A j \in 1 .. Len(stream') :
            stream'[j] # Chunk(stream[i].from, stream[i].serial, "tail")
      BY <2>1, <3>1 DEF Fragments, Written
    <3>3. \A j \in 1 .. Len(stream) :
            stream[j] # Chunk(stream[i].from, stream[i].serial, "tail")
      BY <1>5, <3>2
    <3> QED BY <3>1, <3>3 DEF Fragments, Written
  <2>2. ASSUME NEW i \in Fragments
        PROVE  teardown = "pending" \/ link # "up"
    BY <1>1, <1>5, <1>6, <1>7, <2>2 DEF FragmentsEndTheConnection, Fragments, Holding, Chunks
  <2> QED BY <1>2, <1>3, <1>5, <1>6, <2>1, <2>2
          DEF FragmentsEndTheConnection, Fragments, WriteHead
<1> QED BY <1>9, <1>10, <1>11, <1>12, <1>14, <1>15, <1>16, <1>17 DEF WriterInv

\* The second chunk: it follows the first one, and completes the message.
LEMMA WriteTailKeepsInv ==
  ASSUME WriterInv, NEW w \in Writers, WriteTail(w)
  PROVE  WriterInv'
<1> DEFINE e == Chunk(w, Serial(w), "tail")
<1>1. TypeOK /\ LockInv /\ ChunkInv /\ TailInv /\ ResultInv /\ FramesAreContiguous
        /\ ReturnTellsTheTruth /\ FragmentsEndTheConnection
  BY DEF WriterInv
<1>2. Serial(w) \in Nat /\ \A v \in Writers : Serial(v)' = Serial(v)
  BY <1>1 DEF Serial, TypeOK, WriteTail
<1>3. /\ e \in Chunks /\ e.from = w /\ e.serial = Serial(w) /\ e.part = "tail"
      /\ [e EXCEPT !.part = "head"] = Chunk(w, Serial(w), "head")
  BY <1>2 DEF Chunks, Chunk
<1>4. stream \in Seq(Chunks) /\ stream' = Append(stream, e)
  BY <1>1 DEF TypeOK, WriteTail, Put
<1> HIDE DEF e
<1>5. /\ stream' \in Seq(Chunks) /\ Len(stream') = Len(stream) + 1 /\ Len(stream) \in Nat
      /\ stream'[Len(stream) + 1] = e
      /\ \A i \in 1 .. Len(stream) : stream'[i] = stream[i] /\ stream[i] \in Chunks
  BY <1>3, <1>4
<1>6. /\ writer[w].pc = "tail" /\ writer'[w].pc = "unlock" /\ writer'[w].result = "ok"
      /\ \A v \in Writers : v # w => writer'[v] = writer[v]
  BY <1>1 DEF TypeOK, WriteTail
<1>7. \A v \in Writers : v # w => writer[v].pc \notin Holding
  BY <1>1, <1>6 DEF LockInv, Holding
<1>8. Len(stream) > 0 /\ stream[Len(stream)] = Chunk(w, Serial(w), "head")
  BY <1>1, <1>6 DEF TailInv
<1>9. \A i \in 1 .. Len(stream) : stream[i] # e
  <2> SUFFICES ASSUME NEW i \in 1 .. Len(stream), stream[i] = e PROVE FALSE
    OBVIOUS
  <2>1. stream[i].from = w /\ stream[i].serial = Serial(w) /\ stream[i].part = "tail"
    BY <1>3
  <2> QED BY <1>1, <1>2, <1>6, <2>1 DEF ChunkInv
<1>10. TypeOK'
  <2>1. /\ writer' = [writer EXCEPT ![w].pc = "unlock", ![w].result = "ok"]
        /\ writer \in SendStates /\ "ok" \in Results
    BY <1>1 DEF TypeOK, WriteTail, SendStates, Results
  <2>2. writer' \in SendStates
    BY <2>1 DEF SendStates
  <2> QED BY <1>1, <1>5, <2>2 DEF TypeOK, WriteTail, SendStates
<1>11. LockInv'
  BY <1>1, <1>6 DEF LockInv, Holding, WriteTail
<1>12. ChunkInv'
  <2>1. ASSUME NEW i \in 1 .. Len(stream), stream[i].from # w
        PROVE  stream[i].serial < Serial(stream[i].from) /\ stream[i].from \in Writers
    BY <1>1, <1>5, <1>7, <2>1 DEF ChunkInv, Chunks, Holding
  <2>2. ASSUME NEW i \in 1 .. Len(stream), stream[i].from = w
        PROVE  stream[i].serial < Serial(w) \/ stream[i].serial = Serial(w)
    BY <1>1, <2>2 DEF ChunkInv
  <2> QED BY <1>2, <1>3, <1>5, <1>6, <2>1, <2>2 DEF ChunkInv
<1>13. TailInv'
  BY <1>6, <1>7 DEF TailInv, Holding
<1>14. Len(stream) + 1 \in Written(w, Serial(w), "tail")'
  BY <1>2, <1>5 DEF Written, e
<1>15. ResultInv'
  BY <1>6, <1>7, <1>14 DEF ResultInv, Holding
<1>16. FramesAreContiguous'
  <2>1. ASSUME NEW i \in 1 .. Len(stream), stream[i].part = "tail"
        PROVE  i > 1 /\ stream'[i - 1] = [stream[i] EXCEPT !.part = "head"]
    <3>1. i > 1 /\ stream[i - 1] = [stream[i] EXCEPT !.part = "head"]
      BY <1>1, <2>1 DEF FramesAreContiguous
    <3>2. i - 1 \in 1 .. Len(stream)
      BY <1>5, <2>1, <3>1
    <3> QED BY <1>5, <3>1, <3>2
  <2>2. Len(stream) + 1 > 1 /\ stream'[Len(stream)] = [e EXCEPT !.part = "head"]
    BY <1>3, <1>5, <1>8
  <2>3. ASSUME NEW i \in 1 .. Len(stream'), stream'[i].part = "tail"
        PROVE  i > 1 /\ stream'[i - 1] = [stream'[i] EXCEPT !.part = "head"]
    <3>1. CASE i \in 1 .. Len(stream)
      BY <1>5, <2>1, <2>3, <3>1
    <3>2. CASE i = Len(stream) + 1
      <4>1. i - 1 = Len(stream) /\ stream'[i] = e
        BY <1>5, <3>2
      <4> QED BY <2>2, <3>2, <4>1
    <3> QED BY <1>5, <3>1, <3>2
  <2> QED BY <2>3 DEF FramesAreContiguous
<1>17. ReturnTellsTheTruth'
  <2>1. \A i, j \in 1 .. Len(stream') : stream'[i] = stream'[j] => i = j
    BY <1>1, <1>5, <1>9 DEF ReturnTellsTheTruth
  <2>2. ASSUME NEW v \in Writers, NEW k \in 1 .. Len(outcome[v])
        PROVE  (Written(v, k, "tail") # {}) <=> (Written(v, k, "tail")' # {})
    <3>1. Chunk(v, k, "tail") # e
      BY <1>1, <1>3, <2>2 DEF Chunk, Serial, TypeOK
    <3> QED BY <1>5, <3>1 DEF Written
  <2>3. outcome' = outcome
    BY DEF WriteTail
  <2> QED BY <1>1, <2>1, <2>2, <2>3 DEF ReturnTellsTheTruth
<1>18. FragmentsEndTheConnection'
  <2>1. ASSUME NEW i \in Fragments'
        PROVE  i \in Fragments /\ stream'[i] = stream[i] /\ stream[i].from \in Writers
    <3>1. /\ i \in 1 .. Len(stream) /\ stream'[i] = stream[i] /\ stream[i].part = "head"
          /\ stream[i].from \in Writers
      BY <1>3, <1>5, <2>1 DEF Fragments, Chunks
    <3>2. \A j \in 1 .. Len(stream') :
            stream'[j] # Chunk(stream[i].from, stream[i].serial, "tail")
      BY <2>1, <3>1 DEF Fragments, Written
    <3>3. \A j \in 1 .. Len(stream) :
            stream[j] # Chunk(stream[i].from, stream[i].serial, "tail")
      BY <1>5, <3>2
    <3> QED BY <3>1, <3>3 DEF Fragments, Written
  <2>2. ASSUME NEW i \in Fragments', stream[i].from = w
        PROVE  stream[i].serial # Serial(w)
    <3>1. \A j \in 1 .. Len(stream') :
            stream'[j] # Chunk(w, stream[i].serial, "tail")
      BY <2>1, <2>2 DEF Fragments, Written
    <3> QED BY <1>5, <3>1 DEF e
  <2>3. ASSUME NEW i \in Fragments'
        PROVE  teardown = "pending" \/ link # "up"
    BY <1>1, <1>7, <2>1, <2>2 DEF FragmentsEndTheConnection, Holding
  <2> QED BY <2>3 DEF FragmentsEndTheConnection, WriteTail
<1> QED BY <1>10, <1>11, <1>12, <1>13, <1>15, <1>16, <1>17, <1>18 DEF WriterInv

\* A failed write: the connection is taken down before the lock is released.
LEMMA WriteErrorKeepsInv ==
  ASSUME WriterInv, NEW w \in Writers, WriteError(w)
  PROVE  WriterInv'
<1>1. TypeOK /\ LockInv /\ ChunkInv /\ TailInv /\ ResultInv /\ FramesAreContiguous
        /\ ReturnTellsTheTruth /\ FragmentsEndTheConnection
  BY DEF WriterInv
<1>2. /\ writer[w].pc \in {"write", "tail"}
      /\ writer'[w].pc = "unlock" /\ writer'[w].result = "failed"
      /\ \A v \in Writers : v # w => writer'[v] = writer[v]
  BY <1>1 DEF TypeOK, WriteError
<1>3. TypeOK'
  <2>1. /\ writer' = [writer EXCEPT ![w].pc = "unlock", ![w].result = "failed"]
        /\ writer \in SendStates /\ "failed" \in Results
    BY <1>1 DEF TypeOK, WriteError, SendStates, Results
  <2>2. writer' \in SendStates
    BY <2>1 DEF SendStates
  <2> QED BY <1>1, <2>2 DEF TypeOK, WriteError, SendStates
<1>4. LockInv'
  BY <1>1, <1>2 DEF LockInv, Holding, WriteError
<1>5. \A v \in Writers : Serial(v)' = Serial(v)
  BY <1>1 DEF Serial, TypeOK, WriteError
<1>6. stream' = stream /\ outcome' = outcome /\ teardown' = "pending"
  BY DEF WriteError
<1>7. \A i \in 1 .. Len(stream) : stream[i].from \in Writers
  <2>1. stream \in Seq(Chunks)
    BY <1>1 DEF TypeOK
  <2>2. \A i \in 1 .. Len(stream) : stream[i] \in Chunks
    BY <2>1
  <2> QED BY <2>2 DEF Chunks
<1>8. ChunkInv'
  <2>1. ASSUME NEW i \in 1 .. Len(stream), stream[i].from = w
        PROVE  \/ stream[i].serial < Serial(w)
               \/ stream[i].serial = Serial(w) /\ stream[i].part = "head"
    BY <1>1, <1>2, <2>1 DEF ChunkInv
  <2>2. ASSUME NEW i \in 1 .. Len(stream), NEW v \in Writers, stream[i].from = v
        PROVE  \/ stream[i].serial < Serial(v)'
               \/ /\ stream[i].serial = Serial(v)'
                  /\ \/ writer'[v].pc = "tail" /\ stream[i].part = "head"
                     \/ writer'[v].pc = "unlock"
                          /\ (stream[i].part = "tail" => writer'[v].result = "ok")
    BY <1>1, <1>2, <1>5, <2>1, <2>2 DEF ChunkInv
  <2> QED BY <1>6, <1>7, <2>2 DEF ChunkInv
<1>9. TailInv'
  BY <1>1, <1>2, <1>5, <1>6 DEF TailInv
<1>10. ResultInv'
  <2>1. \A v \in Writers : Written(v, Serial(v), "tail")' = Written(v, Serial(v), "tail")
    BY <1>5, <1>6 DEF Written
  <2> QED BY <1>1, <1>2, <2>1 DEF ResultInv
<1>11. FramesAreContiguous' /\ ReturnTellsTheTruth'
  BY <1>1, <1>6 DEF FramesAreContiguous, ReturnTellsTheTruth, Written
<1>12. FragmentsEndTheConnection'
  BY <1>6 DEF FragmentsEndTheConnection
<1> QED BY <1>3, <1>4, <1>8, <1>9, <1>10, <1>11, <1>12 DEF WriterInv

\* The connection goes down, and stays down.
LEMMA LinkStepKeepsInv ==
  ASSUME WriterInv, Disconnect \/ RunTeardown \/ Close
  PROVE  WriterInv'
<1>1. TypeOK /\ LockInv /\ ChunkInv /\ TailInv /\ ResultInv /\ FramesAreContiguous
        /\ ReturnTellsTheTruth /\ FragmentsEndTheConnection
  BY DEF WriterInv
<1>2. /\ UNCHANGED <<writeLock, writer, stream, outcome>>
      /\ link' \in {"up", "disconnecting", "closed"} /\ teardown' \in {"none", "pending"}
      /\ teardown = "pending" \/ link # "up" => teardown' = "pending" \/ link' # "up"
  BY <1>1 DEF TypeOK, Disconnect, RunTeardown, Close
<1>3. TypeOK'
  BY <1>1, <1>2 DEF TypeOK
<1>4. LockInv' /\ ChunkInv' /\ TailInv' /\ ResultInv' /\ FramesAreContiguous'
        /\ ReturnTellsTheTruth'
  BY <1>1, <1>2 DEF LockInv, ChunkInv, TailInv, ResultInv, FramesAreContiguous,
                    ReturnTellsTheTruth, Written, Serial
<1>5. FragmentsEndTheConnection'
  <2>1. Fragments' = Fragments
    BY <1>2 DEF Fragments, Written
  <2> QED BY <1>1, <1>2, <2>1 DEF FragmentsEndTheConnection, Serial
<1> QED BY <1>3, <1>4, <1>5 DEF WriterInv

\* The steps of a goroutine that sends.
LEMMA WriterStepKeepsInv ==
  ASSUME WriterInv, NEW w \in Writers, Send(w) \/ WriterStep(w)
  PROVE  WriterInv'
<1>1. TypeOK /\ ResultInv
  BY DEF WriterInv
<1>2. CASE Send(w)
  <2>1. CASE link = "up"
    <3>1. TypeOK'
      <4>1. writer' = [writer EXCEPT ![w].pc = "try"] /\ writer \in SendStates
        BY <1>1, <1>2, <2>1 DEF Send, TypeOK, SendStates
      <4>2. writer' \in SendStates
        BY <4>1 DEF SendStates
      <4> QED BY <1>1, <1>2, <2>1, <4>2 DEF Send, TypeOK, SendStates
    <3>2. /\ writer[w].pc = "idle" /\ writer'[w].pc = "try"
          /\ \A v \in Writers : v # w => writer'[v] = writer[v]
          /\ UNCHANGED <<link, teardown, stream, outcome, writeLock>>
      BY <1>1, <1>2, <2>1 DEF Send, TypeOK
    <3> QED BY <3>1, <3>2, ApproachKeepsInv
  <2>2. CASE link # "up"
    <3>1. /\ Return(w, "ErrorDisconnected") /\ writer[w].pc = "idle"
          /\ UNCHANGED <<link, teardown, stream, writeLock>>
      BY <1>2, <2>2 DEF Send
    <3>2. "ErrorDisconnected" \in Results
      BY DEF Results
    <3> QED BY <3>1, <3>2, ReturnKeepsInv
  <2> QED BY <2>1, <2>2
<1>3. CASE TryLock(w)
  <2>1. CASE writeLock = 0
    <3>1. /\ writer[w].pc = "try" /\ writeLock' = 1
          /\ writer' = [writer EXCEPT ![w].pc = "write"]
          /\ UNCHANGED <<link, teardown, stream, outcome>>
      BY <1>3, <2>1 DEF TryLock
    <3>2. TypeOK'
      BY <1>1, <3>1 DEF TypeOK
    <3>3. writer'[w].pc = "write" /\ \A v \in Writers : v # w => writer'[v] = writer[v]
      BY <1>1, <3>1 DEF TypeOK
    <3> QED BY <2>1, <3>1, <3>2, <3>3, ApproachKeepsInv
  <2>2. CASE writeLock # 0 /\ writer[w].attempts + 1 < MaxAttempts
    <3>1. /\ writer[w].pc = "try" /\ UNCHANGED writeLock
          /\ writer' = [writer EXCEPT ![w].attempts = @ + 1]
          /\ UNCHANGED <<link, teardown, stream, outcome>>
      BY <1>3, <2>2 DEF TryLock
    <3>2. TypeOK'
      <4>1. writer[w].attempts + 1 \in Nat
        BY <1>1 DEF TypeOK
      <4> QED BY <1>1, <3>1, <4>1 DEF TypeOK
    <3>3. writer'[w].pc = "try" /\ \A v \in Writers : v # w => writer'[v] = writer[v]
      BY <1>1, <3>1 DEF TypeOK
    <3> QED BY <3>1, <3>2, <3>3, ApproachKeepsInv
  <2>3. CASE writeLock # 0 /\ ~(writer[w].attempts + 1 < MaxAttempts)
    <3>1. /\ Return(w, "failed") /\ writer[w].pc = "try"
          /\ UNCHANGED <<link, teardown, stream, writeLock>>
      BY <1>3, <2>3 DEF TryLock
    <3>2. "failed" \in Results
      BY DEF Results
    <3> QED BY <3>1, <3>2, ReturnKeepsInv
  <2> QED BY <2>1, <2>2, <2>3
<1>4. CASE WriteHead(w)
  BY <1>4, WriteHeadKeepsInv
<1>5. CASE WriteTail(w)
  BY <1>5, WriteTailKeepsInv
<1>6. CASE WriteError(w)
  BY <1>6, WriteErrorKeepsInv
<1>7. CASE Unlock(w)
  <2>1. /\ Return(w, writer[w].result) /\ writer[w].pc = "unlock" /\ writeLock' = 0
        /\ UNCHANGED <<link, teardown, stream>>
    BY <1>7 DEF Unlock
  <2>2. writer[w].result \in Results
    BY <1>1, <2>1 DEF ResultInv, Results
  <2> QED BY <2>1, <2>2, ReturnKeepsInv
<1> QED BY <1>2, <1>3, <1>4, <1>5, <1>6, <1>7 DEF WriterStep

\* A step of anybody.
LEMMA WriterInvStep == WriterInv /\ [Next]_vars => WriterInv'
<1> SUFFICES ASSUME WriterInv, [Next]_vars PROVE WriterInv'
  OBVIOUS
<1>1. CASE UNCHANGED vars
  <2>1. UNCHANGED <<link, writeLock, writer, teardown, stream, outcome>>
    BY <1>1 DEF vars
  <2>2. TypeOK'
    BY <2>1 DEF WriterInv, TypeOK
  <2>3. LockInv' /\ ResultInv'
    BY <2>1 DEF WriterInv, LockInv, ResultInv, Written, Serial
  <2>4. ChunkInv' /\ TailInv'
    BY <2>1 DEF WriterInv, ChunkInv, TailInv, Serial
  <2>5. FramesAreContiguous'
    BY <2>1 DEF WriterInv, FramesAreContiguous
  <2>6. ReturnTellsTheTruth'
    BY <2>1 DEF WriterInv, ReturnTellsTheTruth, Written
  <2>7. FragmentsEndTheConnection'
    BY <2>1 DEF WriterInv, FragmentsEndTheConnection, Fragments, Written, Serial
  <2> QED BY <2>2, <2>3, <2>4, <2>5, <2>6, <2>7 DEF WriterInv
<1>2. CASE Disconnect \/ RunTeardown \/ Close
  BY <1>2, LinkStepKeepsInv
<1>3. ASSUME NEW w \in Writers, Send(w) \/ WriterStep(w)
      PROVE  WriterInv'
  BY <1>3, WriterStepKeepsInv
<1> QED BY <1>1, <1>2, <1>3 DEF Next

\* The invariant holds of every reachable state.
THEOREM WriterInvHolds == Spec => []WriterInv
BY WriterInvInit, WriterInvStep, PTL DEF Spec

\* However many goroutines write to a connection, no message is cut by another
\* one, and a fragment on the wire belongs to a write in progress or to a
\* connection going down.
THEOREM WritesAreSound == Spec => [](FramesAreContiguous /\ FragmentsEndTheConnection)
<1>1. WriterInv => FramesAreContiguous /\ FragmentsEndTheConnection
  BY DEF WriterInv
<1> QED BY <1>1, WriterInvHolds, PTL

\* Every variable stays in its type.
THEOREM WriterTypes == Spec => []TypeOK
<1>1. WriterInv => TypeOK
  BY DEF WriterInv
<1> QED BY <1>1, WriterInvHolds, PTL

\* A call of Reply, Send or WriteRaw returns nil exactly when its message is
\* out, and writeWithBackoff puts no message on the wire twice.
THEOREM ReturnsAreTrue == Spec => []ReturnTellsTheTruth
<1>1. WriterInv => ReturnTellsTheTruth
  BY DEF WriterInv
<1> QED BY <1>1, WriterInvHolds, PTL
----------------------------------------------------------------------------
(* The channel                                                              *)

\* The messages whose second chunk is among s.
Tails(s) == {<<s[i].from, s[i].serial>> : i \in {j \in 1 .. Len(s) : s[j].part = "tail"}}

\* Frames being contiguous, these are the messages the peer can read.
LEMMA WholeFrames ==
  ASSUME NEW s \in Seq(Chunks),
         \A i \in 1 .. Len(s) :
           s[i].part = "tail" => i > 1 /\ s[i - 1] = [s[i] EXCEPT !.part = "head"]
  PROVE  {<<s[i].from, s[i].serial>> :
            i \in {j \in 1 .. Len(s) - 1 :
                    s[j].part = "head" /\ s[j + 1] = [s[j] EXCEPT !.part = "tail"]}}
         = Tails(s)
<1> DEFINE Heads == {j \in 1 .. Len(s) - 1 :
                      s[j].part = "head" /\ s[j + 1] = [s[j] EXCEPT !.part = "tail"]}
<1>1. \A i \in 1 .. Len(s) : s[i] \in Chunks
  OBVIOUS
<1>2. ASSUME NEW i \in Heads
      PROVE  i + 1 \in 1 .. Len(s) /\ s[i + 1].part = "tail"
             /\ s[i + 1].from = s[i].from /\ s[i + 1].serial = s[i].serial
  <2>1. i \in 1 .. Len(s) /\ i + 1 \in 1 .. Len(s) /\ s[i] \in Chunks
        /\ s[i + 1] = [s[i] EXCEPT !.part = "tail"]
    BY <1>1
  <2> QED BY <2>1 DEF Chunks
<1>3. ASSUME NEW i \in 1 .. Len(s), s[i].part = "tail"
      PROVE  i - 1 \in Heads /\ s[i - 1].from = s[i].from /\ s[i - 1].serial = s[i].serial
  <2>1. i > 1 /\ s[i - 1] = [s[i] EXCEPT !.part = "head"] /\ s[i] \in Chunks
    BY <1>1, <1>3
  <2>2. i - 1 \in 1 .. Len(s) - 1 /\ (i - 1) + 1 = i
    BY <2>1
  <2>3. s[i - 1].part = "head" /\ s[i - 1].from = s[i].from /\ s[i - 1].serial = s[i].serial
    BY <2>1 DEF Chunks
  <2>4. s[i] = [s[i - 1] EXCEPT !.part = "tail"]
    BY <1>3, <2>1 DEF Chunks
  <2> QED BY <2>2, <2>3, <2>4
<1> HIDE DEF Heads
<1>4. ASSUME NEW x \in {<<s[i].from, s[i].serial>> : i \in Heads} PROVE x \in Tails(s)
  <2>1. PICK i \in Heads : x = <<s[i].from, s[i].serial>>
    OBVIOUS
  <2>2. x = <<s[i + 1].from, s[i + 1].serial>> /\ i + 1 \in 1 .. Len(s) /\ s[i + 1].part = "tail"
    BY <1>2, <2>1
  <2> QED BY <2>2 DEF Tails
<1>5. ASSUME NEW x \in Tails(s) PROVE x \in {<<s[i].from, s[i].serial>> : i \in Heads}
  <2>1. PICK i \in 1 .. Len(s) : s[i].part = "tail" /\ x = <<s[i].from, s[i].serial>>
    BY DEF Tails
  <2> QED BY <1>3, <2>1
<1> QED BY <1>4, <1>5 DEF Heads

\* What one more chunk changes.
LEMMA TailsAppend ==
  ASSUME NEW s \in Seq(Chunks), NEW e \in Chunks
  PROVE  Tails(Append(s, e)) =
           IF e.part = "tail" THEN Tails(s) \union {<<e.from, e.serial>>} ELSE Tails(s)
<1> DEFINE n == Len(s)
           t == Append(s, e)
<1>1. n \in Nat /\ Len(t) = n + 1 /\ t[n + 1] = e /\ \A i \in 1 .. n : t[i] = s[i]
  OBVIOUS
<1> HIDE DEF t, n
<1>2. \A i \in 1 .. Len(t) : i \in 1 .. n \/ i = n + 1
  BY <1>1
<1>3. \A i \in 1 .. n : i \in 1 .. Len(t)
  BY <1>1
<1>4. n + 1 \in 1 .. Len(t)
  BY <1>1
<1>5. Tails(t) = IF e.part = "tail" THEN Tails(s) \union {<<e.from, e.serial>>} ELSE Tails(s)
  BY <1>1, <1>2, <1>3, <1>4 DEF Tails, n
<1> QED BY <1>5 DEF t

\* The messages delivered, before and after a step.
LEMMA DeliveredIsTails ==
  ASSUME WriterInv, WriterInv'
  PROVE  Delivered = Tails(stream) /\ Delivered' = Tails(stream')
<1>1. stream \in Seq(Chunks) /\ stream' \in Seq(Chunks)
  BY DEF WriterInv, TypeOK, Chunks
<1>2. Delivered = Tails(stream)
  BY <1>1, WholeFrames DEF WriterInv, FramesAreContiguous, Delivered
<1>3. Delivered' = Tails(stream')
  BY <1>1, WholeFrames DEF WriterInv, FramesAreContiguous, Delivered
<1> QED BY <1>2, <1>3

\* A fragment is on the wire that nobody is going to complete.
Broken == \E i \in Fragments : Abandoned(i)

\* A step that puts nothing on the wire, and after which the same goroutines
\* are between the two chunks of the same messages.
LEMMA BrokenStays ==
  ASSUME WriterInv, stream' = stream,
         \A v \in Writers :
           /\ writer[v].pc = "tail" <=> writer'[v].pc = "tail"
           /\ writer[v].pc = "tail" => Serial(v)' = Serial(v)
  PROVE  Broken' = Broken
<1>1. Fragments' = Fragments
  BY DEF Fragments, Written
<1>2. \A i \in 1 .. Len(stream) : stream[i].from \in Writers
  <2>1. stream \in Seq(Chunks)
    BY DEF WriterInv, TypeOK
  <2>2. \A i \in 1 .. Len(stream) : stream[i] \in Chunks
    BY <2>1
  <2> QED BY <2>2 DEF Chunks
<1>3. \A i \in Fragments : Abandoned(i)' <=> Abandoned(i)
  <2>1. \A i \in Fragments : stream[i].from \in Writers
    BY <1>2 DEF Fragments
  <2> QED BY <2>1 DEF Abandoned
<1>4. Broken' <=> Broken
  BY <1>1, <1>3 DEF Broken
<1>5. Broken \in BOOLEAN /\ Broken' \in BOOLEAN
  BY DEF Broken
<1> QED BY <1>4, <1>5

\* The first chunk makes a fragment, of a message in progress.
LEMMA BrokenAfterHead ==
  ASSUME WriterInv, NEW w \in Writers, WriteHead(w)
  PROVE  Broken' = Broken /\ Tails(stream') = Tails(stream)
<1> DEFINE e == Chunk(w, Serial(w), "head")
<1>1. TypeOK /\ LockInv /\ ChunkInv
  BY DEF WriterInv
<1>2. Serial(w) \in Nat /\ \A v \in Writers : Serial(v)' = Serial(v)
  BY <1>1 DEF Serial, TypeOK, WriteHead
<1>3. e \in Chunks /\ e.from = w /\ e.serial = Serial(w) /\ e.part = "head"
  BY <1>2 DEF Chunks, Chunk
<1>4. stream \in Seq(Chunks) /\ stream' = Append(stream, e)
  BY <1>1 DEF TypeOK, WriteHead, Put
<1> HIDE DEF e
<1>5. /\ Len(stream') = Len(stream) + 1 /\ Len(stream) \in Nat
      /\ stream'[Len(stream) + 1] = e
      /\ \A i \in 1 .. Len(stream) : stream'[i] = stream[i] /\ stream[i] \in Chunks
  BY <1>3, <1>4
<1>6. /\ writer[w].pc = "write" /\ writer'[w].pc = "tail"
      /\ \A v \in Writers : v # w => writer'[v] = writer[v]
  BY <1>1 DEF TypeOK, WriteHead
<1>7. \A i \in 1 .. Len(stream) :
        stream[i].from \in Writers /\ (stream[i].from = w => stream[i].serial < Serial(w))
  BY <1>1, <1>5, <1>6 DEF ChunkInv, Chunks
<1>8. \A i \in 1 .. Len(stream) : i \in Fragments' <=> i \in Fragments
  <2>1. ASSUME NEW i \in 1 .. Len(stream)
        PROVE  (\A j \in 1 .. Len(stream') :
                  stream'[j] # Chunk(stream[i].from, stream[i].serial, "tail"))
               <=> (\A j \in 1 .. Len(stream) :
                      stream[j] # Chunk(stream[i].from, stream[i].serial, "tail"))
    <3>1. e # Chunk(stream[i].from, stream[i].serial, "tail")
      BY <1>3 DEF Chunk
    <3>2. \A j \in 1 .. Len(stream') : j \in 1 .. Len(stream) \/ j = Len(stream) + 1
      BY <1>5
    <3>3. \A j \in 1 .. Len(stream) : j \in 1 .. Len(stream')
      BY <1>5
    <3> QED BY <1>5, <3>1, <3>2, <3>3
  <2>2. \A i \in 1 .. Len(stream) : i \in 1 .. Len(stream')
    BY <1>5
  <2> QED BY <1>5, <2>1, <2>2 DEF Fragments, Written
<1>9. \A i \in 1 .. Len(stream) : Abandoned(i)' <=> Abandoned(i)
  <2>1. ASSUME NEW i \in 1 .. Len(stream), stream[i].from = w
        PROVE  Abandoned(i)' /\ Abandoned(i)
    <3>1. stream[i].serial < Serial(w) /\ stream[i].serial \in Nat
      BY <1>5, <1>7, <2>1 DEF Chunks
    <3>2. stream[i].serial # Serial(w)
      BY <1>2, <3>1
    <3>3. stream'[i] = stream[i]
      BY <1>5
    <3> QED BY <1>2, <2>1, <3>2, <3>3 DEF Abandoned
  <2>2. ASSUME NEW i \in 1 .. Len(stream), stream[i].from # w
        PROVE  Abandoned(i)' <=> Abandoned(i)
    BY <1>2, <1>5, <1>6, <1>7, <2>2 DEF Abandoned
  <2> QED BY <2>1, <2>2
<1>10. ASSUME NEW i \in 1 .. Len(stream'), i = Len(stream) + 1
       PROVE  ~Abandoned(i)'
  <2>1. stream'[i].from = w /\ stream'[i].serial = Serial(w)
    BY <1>3, <1>5, <1>10
  <2> QED BY <1>2, <1>6, <2>1 DEF Abandoned
<1>11. Broken' => Broken
  <2> SUFFICES ASSUME NEW i \in Fragments', Abandoned(i)' PROVE Broken
    BY DEF Broken
  <2>1. i \in 1 .. Len(stream')
    BY DEF Fragments
  <2>2. i \in 1 .. Len(stream)
    <3>1. i # Len(stream) + 1
      BY <1>10, <2>1
    <3> QED BY <1>5, <2>1, <3>1
  <2> QED BY <1>8, <1>9, <2>2 DEF Broken
<1>12. Broken => Broken'
  <2>1. \A i \in Fragments : i \in 1 .. Len(stream)
    BY DEF Fragments
  <2> QED BY <1>8, <1>9, <2>1 DEF Broken
<1>13. Tails(stream') = Tails(stream)
  BY <1>3, <1>4, TailsAppend
<1>14. Broken \in BOOLEAN /\ Broken' \in BOOLEAN
  BY DEF Broken
<1> QED BY <1>11, <1>12, <1>13, <1>14

\* The second chunk completes it: the message is delivered.
LEMMA BrokenAfterTail ==
  ASSUME WriterInv, NEW w \in Writers, WriteTail(w)
  PROVE  /\ Broken' = Broken
         /\ <<w, Serial(w)>> \notin Tails(stream)
         /\ Tails(stream') = Tails(stream) \union {<<w, Serial(w)>>}
<1> DEFINE e == Chunk(w, Serial(w), "tail")
<1>1. TypeOK /\ LockInv /\ ChunkInv
  BY DEF WriterInv
<1>2. Serial(w) \in Nat /\ \A v \in Writers : Serial(v)' = Serial(v)
  BY <1>1 DEF Serial, TypeOK, WriteTail
<1>3. e \in Chunks /\ e.from = w /\ e.serial = Serial(w) /\ e.part = "tail"
  BY <1>2 DEF Chunks, Chunk
<1>4. stream \in Seq(Chunks) /\ stream' = Append(stream, e)
  BY <1>1 DEF TypeOK, WriteTail, Put
<1>0. e = Chunk(w, Serial(w), "tail")
  OBVIOUS
<1> HIDE DEF e
<1>5. /\ Len(stream') = Len(stream) + 1 /\ Len(stream) \in Nat
      /\ stream'[Len(stream) + 1] = e
      /\ \A i \in 1 .. Len(stream) : stream'[i] = stream[i] /\ stream[i] \in Chunks
  BY <1>3, <1>4
<1>6. /\ writer[w].pc = "tail" /\ writer'[w].pc = "unlock"
      /\ \A v \in Writers : v # w => writer'[v] = writer[v]
  BY <1>1 DEF TypeOK, WriteTail
<1>7. \A i \in 1 .. Len(stream) :
        /\ stream[i].from \in Writers
        /\ stream[i].from = w /\ stream[i].part = "tail" => stream[i].serial < Serial(w)
  BY <1>1, <1>5, <1>6 DEF ChunkInv, Chunks
<1>8. <<w, Serial(w)>> \notin Tails(stream)
  <2> SUFFICES ASSUME NEW i \in 1 .. Len(stream), stream[i].part = "tail",
                      <<w, Serial(w)>> = <<stream[i].from, stream[i].serial>>
               PROVE  FALSE
    BY DEF Tails
  <2>1. stream[i].from = w /\ stream[i].serial = Serial(w)
    OBVIOUS
  <2>2. stream[i].serial < Serial(w)
    BY <1>7, <2>1
  <2> QED BY <1>2, <2>1, <2>2
<1>9. Tails(stream') = Tails(stream) \union {<<w, Serial(w)>>}
  BY <1>3, <1>4, TailsAppend
<1>10. ASSUME NEW i \in 1 .. Len(stream)
       PROVE  i \in Fragments' <=>
                i \in Fragments /\ ~(stream[i].from = w /\ stream[i].serial = Serial(w))
  <2>1. e = Chunk(stream[i].from, stream[i].serial, "tail")
          <=> stream[i].from = w /\ stream[i].serial = Serial(w)
    BY <1>0 DEF Chunk
  <2>2. (\A j \in 1 .. Len(stream') :
           stream'[j] # Chunk(stream[i].from, stream[i].serial, "tail"))
        <=> /\ \A j \in 1 .. Len(stream) :
                 stream[j] # Chunk(stream[i].from, stream[i].serial, "tail")
            /\ e # Chunk(stream[i].from, stream[i].serial, "tail")
    <3>1. \A j \in 1 .. Len(stream') : j \in 1 .. Len(stream) \/ j = Len(stream) + 1
      BY <1>5
    <3>2. \A j \in 1 .. Len(stream) : j \in 1 .. Len(stream')
      BY <1>5
    <3>3. Len(stream) + 1 \in 1 .. Len(stream')
      BY <1>5
    <3> QED BY <1>5, <3>1, <3>2, <3>3
  <2>3. i \in 1 .. Len(stream') /\ stream'[i] = stream[i]
    BY <1>5
  <2> QED BY <2>1, <2>2, <2>3 DEF Fragments, Written
<1>11. ASSUME NEW i \in 1 .. Len(stream)
       PROVE  /\ stream[i].from # w => (Abandoned(i)' <=> Abandoned(i))
              /\ stream[i].from = w => Abandoned(i)'
              /\ stream[i].from = w => (Abandoned(i) <=> stream[i].serial # Serial(w))
  <2>1. stream'[i] = stream[i] /\ stream[i].from \in Writers
    BY <1>5, <1>7
  <2> QED BY <1>2, <1>6, <2>1 DEF Abandoned
<1>12. Len(stream) + 1 \notin Fragments'
  <2>1. stream'[Len(stream) + 1].part = "tail"
    BY <1>3, <1>5
  <2> QED BY <2>1 DEF Fragments
<1>13. \A i \in Fragments' : i \in 1 .. Len(stream)
  <2>1. \A i \in Fragments' : i \in 1 .. Len(stream') /\ i # Len(stream) + 1
    BY <1>12 DEF Fragments
  <2> QED BY <1>5, <2>1
<1>14. \A i \in Fragments : i \in 1 .. Len(stream)
  BY DEF Fragments
<1>15. Broken' <=> Broken
  BY <1>10, <1>11, <1>13, <1>14 DEF Broken
<1>16. Broken \in BOOLEAN /\ Broken' \in BOOLEAN
  BY DEF Broken
<1> QED BY <1>8, <1>9, <1>15, <1>16

\* A failed write leaves the fragment of a message it has begun.
LEMMA BrokenAfterError ==
  ASSUME WriterInv, NEW w \in Writers, WriteError(w)
  PROVE  Broken' = Broken \/ Broken' = TRUE
<1>1. Broken \in BOOLEAN /\ Broken' \in BOOLEAN
  BY DEF Broken
<1>2. Broken => Broken'
  <2>1. TypeOK
    BY DEF WriterInv
  <2>2. /\ stream' = stream /\ outcome' = outcome /\ writer'[w].pc = "unlock"
        /\ \A v \in Writers : v # w => writer'[v] = writer[v]
    BY <2>1 DEF TypeOK, WriteError
  <2>3. Fragments' = Fragments
    BY <2>2 DEF Fragments, Written
  <2>4. \A i \in 1 .. Len(stream) : stream[i].from \in Writers
    <3>1. stream \in Seq(Chunks)
      BY <2>1 DEF TypeOK
    <3>2. \A i \in 1 .. Len(stream) : stream[i] \in Chunks
      BY <3>1
    <3> QED BY <3>2 DEF Chunks
  <2>5. ASSUME NEW i \in Fragments, Abandoned(i) PROVE Abandoned(i)'
    <3>1. stream[i].from \in Writers
      BY <2>4 DEF Fragments
    <3>2. Serial(stream[i].from)' = Serial(stream[i].from)
      BY <2>2 DEF Serial
    <3> QED BY <2>2, <2>5, <3>1, <3>2 DEF Abandoned
  <2> QED BY <2>3, <2>5 DEF Broken
<1> QED BY <1>1, <1>2

\* A call that returns tells whether its message is delivered.
LEMMA ReturnIsReturn ==
  ASSUME WriterInv, WriterInv', NEW w \in Writers, NEW r \in Results, Return(w, r),
         UNCHANGED <<link, teardown, stream>>,
         writer[w].pc # "tail"
  PROVE  Channel!Return(w, r)
<1>1. /\ outcome' \in [Writers -> Seq(Results)]
      /\ Serial(w)' = Serial(w) + 1
      /\ \A v \in Writers : v # w => outcome'[v] = outcome[v] /\ Serial(v)' = Serial(v)
      /\ Serial(w) \in Nat
      /\ outcome'[w][Serial(w)] = r
      /\ Len(outcome'[w]) = Serial(w)
      /\ writer' = [writer EXCEPT ![w] = Idle]
  BY ReturnSerial DEF WriterInv
<1>2. writer'[w].pc = "idle" /\ \A v \in Writers : v # w => writer'[v] = writer[v]
  BY <1>1 DEF WriterInv, TypeOK, Idle
<1>3. Broken' = Broken
  BY <1>1, <1>2, BrokenStays
<1>4. Delivered' = Delivered /\ Delivered = Tails(stream)
  BY DeliveredIsTails
<1>5. (r = "ok") <=> (Written(w, Serial(w), "tail") # {})
  <2>1. Written(w, Serial(w), "tail")
          = {i \in 1 .. Len(stream') : stream'[i] = Chunk(w, Serial(w), "tail")}
    BY DEF Written
  <2>2. Serial(w) \in 1 .. Len(outcome'[w])
    <3>1. Serial(w) # 0
      BY DEF WriterInv, TypeOK, Serial
    <3> QED BY <1>1, <3>1
  <2>3. (outcome'[w][Serial(w)] = "ok")
          <=> {i \in 1 .. Len(stream') : stream'[i] = Chunk(w, Serial(w), "tail")} # {}
    BY <2>2 DEF WriterInv, ReturnTellsTheTruth, Written
  <2> QED BY <1>1, <2>1, <2>3
<1>6. (Written(w, Serial(w), "tail") # {}) <=> <<w, Serial(w)>> \in Tails(stream)
  <2>1. \A i \in 1 .. Len(stream) : stream[i] \in Chunks
    BY DEF WriterInv, TypeOK
  <2>2. ASSUME NEW i \in 1 .. Len(stream)
        PROVE  stream[i] = Chunk(w, Serial(w), "tail") <=>
                 stream[i].from = w /\ stream[i].serial = Serial(w) /\ stream[i].part = "tail"
    BY <2>1 DEF Chunk, Chunks
  <2>3. \A i \in 1 .. Len(stream) :
          <<w, Serial(w)>> = <<stream[i].from, stream[i].serial>>
            <=> stream[i].from = w /\ stream[i].serial = Serial(w)
    OBVIOUS
  <2> QED BY <2>2, <2>3 DEF Written, Tails
<1>7. outcome' = [outcome EXCEPT ![w] = Append(@, r)]
  BY DEF Return
<1>8. (link' = "closed") = (link = "closed")
  OBVIOUS
<1>9. (r = "ok") <=> (<<w, Serial(w)>> \in Delivered)
  BY <1>4, <1>5, <1>6
<1> QED BY <1>3, <1>4, <1>7, <1>8, <1>9 DEF Channel!Return, Channel!Current, Broken, Serial

\* Nothing the caller could notice.
LEMMA QuietStep ==
  ASSUME WriterInv, WriterInv', Tails(stream') = Tails(stream), Broken' = Broken,
         outcome' = outcome, (link' = "closed") = (link = "closed")
  PROVE  UNCHANGED Channel!channelVars
<1>1. Delivered' = Delivered
  BY DeliveredIsTails
<1> QED BY <1>1 DEF Channel!channelVars, Broken

\* The steps of a goroutine that sends, on the channel.
LEMMA WriterStepOnChannel ==
  ASSUME WriterInv, WriterInv', NEW w \in Writers, Send(w) \/ WriterStep(w)
  PROVE  [Channel!ChannelNext]_(Channel!channelVars)
<1> DEFINE Goal == [Channel!ChannelNext]_(Channel!channelVars)
<1> SUFFICES Goal
  OBVIOUS
<1>r. ASSUME NEW r \in Results, Channel!Return(w, r) PROVE Goal
  BY <1>r DEF Channel!ChannelNext
<1>q. UNCHANGED Channel!channelVars => Goal
  OBVIOUS
<1>d. Channel!Deliver(w) => Goal
  BY DEF Channel!ChannelNext
<1>b. Channel!Break => Goal
  BY DEF Channel!ChannelNext
<1> HIDE DEF Goal
<1>1. TypeOK /\ ResultInv
  BY DEF WriterInv
<1>s. "ErrorDisconnected" \in Results /\ "failed" \in Results
  BY DEF Results
<1>2. ASSUME UNCHANGED <<link, teardown, stream, outcome>>, writer[w].pc # "tail",
             writer'[w].pc # "tail", \A v \in Writers : v # w => writer'[v] = writer[v]
      PROVE  Goal
  <2>1. \A v \in Writers : Serial(v)' = Serial(v)
    BY <1>2 DEF Serial
  <2>2. Broken' = Broken
    BY <1>2, <2>1, BrokenStays
  <2>3. UNCHANGED Channel!channelVars
    BY <1>2, <2>2, QuietStep
  <2> QED BY <1>q, <2>3
<1>3. CASE Send(w)
  <2>1. CASE link = "up"
    <3>1. /\ writer[w].pc = "idle" /\ writer'[w].pc = "try"
          /\ \A v \in Writers : v # w => writer'[v] = writer[v]
          /\ UNCHANGED <<link, teardown, stream, outcome>>
      BY <1>1, <1>3, <2>1 DEF Send, TypeOK
    <3> QED BY <1>2, <3>1
  <2>2. CASE link # "up"
    <3>1. /\ Return(w, "ErrorDisconnected") /\ writer[w].pc = "idle"
          /\ UNCHANGED <<link, teardown, stream>>
      BY <1>3, <2>2 DEF Send
    <3>2. Channel!Return(w, "ErrorDisconnected")
      BY <1>s, <3>1, ReturnIsReturn
    <3> QED BY <1>r, <1>s, <3>2
  <2> QED BY <2>1, <2>2
<1>4. CASE TryLock(w)
  <2>1. CASE writer' = [writer EXCEPT ![w].pc = "write"] /\ UNCHANGED outcome
    <3>1. /\ writer[w].pc = "try" /\ writer'[w].pc = "write"
          /\ \A v \in Writers : v # w => writer'[v] = writer[v]
          /\ UNCHANGED <<link, teardown, stream, outcome>>
      BY <1>1, <1>4, <2>1 DEF TryLock, TypeOK
    <3> QED BY <1>2, <3>1
  <2>2. CASE writer' = [writer EXCEPT ![w].attempts = @ + 1] /\ UNCHANGED outcome
    <3>1. /\ writer[w].pc = "try" /\ writer'[w].pc = "try"
          /\ \A v \in Writers : v # w => writer'[v] = writer[v]
          /\ UNCHANGED <<link, teardown, stream, outcome>>
      BY <1>1, <1>4, <2>2 DEF TryLock, TypeOK
    <3> QED BY <1>2, <3>1
  <2>3. CASE Return(w, "failed")
    <3>1. writer[w].pc = "try" /\ UNCHANGED <<link, teardown, stream>>
      BY <1>4 DEF TryLock
    <3>2. Channel!Return(w, "failed")
      BY <1>s, <2>3, <3>1, ReturnIsReturn
    <3> QED BY <1>r, <1>s, <3>2
  <2> QED BY <1>4, <2>1, <2>2, <2>3 DEF TryLock
<1>5. CASE WriteHead(w)
  <2>1. outcome' = outcome /\ link' = link
    BY <1>5 DEF WriteHead
  <2>2. UNCHANGED Channel!channelVars
    BY <1>5, <2>1, BrokenAfterHead, QuietStep
  <2> QED BY <1>q, <2>2
<1>6. CASE WriteTail(w)
  <2>1. outcome' = outcome /\ link' = link /\ link # "closed"
    BY <1>6 DEF WriteTail
  <2>2. Delivered = Tails(stream) /\ Delivered' = Tails(stream')
    BY DeliveredIsTails
  <2>3. /\ Broken' = Broken
        /\ <<w, Serial(w)>> \notin Delivered
        /\ Delivered' = Delivered \union {<<w, Serial(w)>>}
    BY <1>6, <2>2, BrokenAfterTail
  <2>4. Channel!Deliver(w)
    BY <2>1, <2>3 DEF Channel!Deliver, Channel!Current, Broken, Serial
  <2> QED BY <1>d, <2>4
<1>7. CASE WriteError(w)
  <2>1. outcome' = outcome /\ link' = link /\ stream' = stream
    BY <1>7 DEF WriteError
  <2>2. Delivered' = Delivered
    BY <2>1, DeliveredIsTails
  <2>3. CASE Broken' = Broken
    <3>1. UNCHANGED Channel!channelVars
      BY <2>1, <2>3, QuietStep
    <3> QED BY <1>q, <3>1
  <2>4. CASE Broken' = TRUE
    <3>1. Channel!Break
      BY <2>1, <2>2, <2>4 DEF Channel!Break, Broken
    <3> QED BY <1>b, <3>1
  <2> QED BY <1>7, <2>3, <2>4, BrokenAfterError
<1>8. CASE Unlock(w)
  <2>1. /\ Return(w, writer[w].result) /\ writer[w].pc = "unlock"
        /\ UNCHANGED <<link, teardown, stream>>
    BY <1>8 DEF Unlock
  <2>2. writer[w].result \in Results
    BY <1>1, <2>1 DEF ResultInv, Results
  <2>3. Channel!Return(w, writer[w].result)
    BY <2>1, <2>2, ReturnIsReturn
  <2> QED BY <1>r, <2>2, <2>3
<1> QED BY <1>3, <1>4, <1>5, <1>6, <1>7, <1>8 DEF WriterStep

\* Every step of the bridge's writes is one of the channel's, or none.
LEMMA StepOnChannel ==
  ASSUME WriterInv, WriterInv', [Next]_vars
  PROVE  [Channel!ChannelNext]_(Channel!channelVars)
<1> DEFINE Goal == [Channel!ChannelNext]_(Channel!channelVars)
<1> SUFFICES Goal
  OBVIOUS
<1>q. UNCHANGED Channel!channelVars => Goal
  OBVIOUS
<1>c. Channel!Close => Goal
  BY DEF Channel!ChannelNext
<1>1. ASSUME NEW w \in Writers, Send(w) \/ WriterStep(w) PROVE Goal
  BY <1>1, WriterStepOnChannel
<1> HIDE DEF Goal
<1>2. CASE UNCHANGED <<writer, stream, outcome>>
  <2>1. \A v \in Writers : Serial(v)' = Serial(v)
    BY <1>2 DEF Serial
  <2>2. Broken' = Broken
    BY <1>2, <2>1, BrokenStays
  <2>3. Delivered' = Delivered
    BY <1>2, DeliveredIsTails
  <2>4. CASE (link' = "closed") = (link = "closed")
    <3>1. UNCHANGED Channel!channelVars
      BY <1>2, <2>2, <2>4, QuietStep
    <3> QED BY <1>q, <3>1
  <2>5. CASE (link' = "closed") = TRUE
    <3>1. Channel!Close
      BY <1>2, <2>2, <2>3, <2>5 DEF Channel!Close, Broken
    <3> QED BY <1>c, <3>1
  <2>6. link = "closed" => link' = "closed"
    BY DEF Next, Send, WriterStep, TryLock, WriteHead, WriteTail, WriteError, Unlock,
           Disconnect, RunTeardown, Close, vars
  <2> QED BY <2>4, <2>5, <2>6
<1>3. CASE Disconnect \/ RunTeardown \/ Close
  BY <1>2, <1>3 DEF Disconnect, RunTeardown, Close
<1>4. CASE UNCHANGED vars
  BY <1>2, <1>4 DEF vars
<1> QED BY <1>1, <1>3, <1>4 DEF Next

\* With the lock, the backoff loop and the teardown goroutine, writing
\* implements the safety of the channel its callers rely on: messages arrive
\* whole and at most once, never after the close, and a call returns nil exactly
\* when its message did.
THEOREM WritesImplementTheChannel == Spec => Channel!ChannelSafety
<1>1. Init => Channel!ChannelInit
  <2> SUFFICES ASSUME Init PROVE Channel!ChannelInit
    OBVIOUS
  <2>1. Delivered = {}
    BY DEF Init, Delivered
  <2>2. Fragments = {}
    BY DEF Init, Fragments
  <2>3. (\E i \in Fragments : Abandoned(i)) = FALSE
    BY <2>2
  <2> QED BY <2>1, <2>3 DEF Init, Channel!ChannelInit
<1>2. WriterInv /\ WriterInv' /\ [Next]_vars => [Channel!ChannelNext]_(Channel!channelVars)
  BY StepOnChannel
<1> QED BY <1>1, <1>2, WriterInvHolds, PTL DEF Spec, Channel!ChannelSafety
=============================================================================
