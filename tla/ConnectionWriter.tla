-------------------------- MODULE ConnectionWriter --------------------------
(***************************************************************************)
(* Writing to one connection (src/gostratum/stratum_context.go).  Replies  *)
(* of the reader goroutine and events of the goroutines that hand out work *)
(* meet here: Reply, Send and WriteRaw share writeWithBackoff, which takes *)
(* writeLock by compare-and-swap and gives up after MaxAttempts.  A socket *)
(* write may fail after a part of the data is out; the failing writer then *)
(* starts a goroutine that disconnects.                                    *)
(*                                                                         *)
(* A message is <<w, k>>, the k-th message of writer w.  The socket takes  *)
(* it in two chunks, so that a write can be cut short or interleaved.      *)
(***************************************************************************)
EXTENDS Integers, Sequences

CONSTANTS
  Writers,      \* goroutines that write to the connection
  MaxAttempts,  \* attempts of writeWithBackoff, 3 in the code
  MaxSends      \* bound: messages of one writer

ASSUME MaxAttemptsAssumption == MaxAttempts \in Nat \ {0}
ASSUME MaxSendsAssumption == MaxSends \in Nat

VARIABLES
  link,       \* "up", "disconnecting" (the flag is set), "closed" (the socket is)
  writeLock,  \* sc.writeLock, 0 or 1
  writer,     \* the writing goroutines
  teardown,   \* "none", or "pending": checkDisconnect has started its goroutine
  stream,     \* the chunks the socket has taken, in order
  outcome     \* history: what the calls of each writer returned

vars == <<link, writeLock, writer, teardown, stream, outcome>>

----------------------------------------------------------------------------
Idle == [pc |-> "idle", attempts |-> 0, result |-> "none"]

Chunk(w, k, part) == [from |-> w, serial |-> k, part |-> part]

\* The message w is sending, or the last one it sent.
Serial(w) == Len(outcome[w]) + 1

Return(w, result) ==
  /\ outcome' = [outcome EXCEPT ![w] = Append(@, result)]
  /\ writer' = [writer EXCEPT ![w] = Idle]

Put(w, part) == stream' = Append(stream, Chunk(w, Serial(w), part))

----------------------------------------------------------------------------
\* Reply, Send, WriteRaw: refused once the connection is going down.
Send(w) ==
  /\ writer[w].pc = "idle"
  /\ Len(outcome[w]) < MaxSends
  /\ IF link = "up"
       THEN /\ writer' = [writer EXCEPT ![w].pc = "try"]
            /\ UNCHANGED outcome
       ELSE Return(w, "ErrorDisconnected")
  /\ UNCHANGED <<link, writeLock, teardown, stream>>

\* Mutant: the lock is counted up, whatever its value.
TryLockAlways(w) ==
  /\ writer[w].pc = "try"
  /\ writeLock' = writeLock + 1
  /\ writer' = [writer EXCEPT ![w].pc = "write"]
  /\ UNCHANGED <<link, teardown, stream, outcome>>

\* The compare-and-swap at the head of write, and the loop of
\* writeWithBackoff around it.
TryLock(w) ==
  /\ writer[w].pc = "try"
  /\ \/ /\ writeLock = 0
        /\ writeLock' = 1
        /\ writer' = [writer EXCEPT ![w].pc = "write"]
        /\ UNCHANGED outcome
     \/ /\ writeLock = 1
        /\ IF writer[w].attempts + 1 < MaxAttempts
             THEN /\ writer' = [writer EXCEPT ![w].attempts = @ + 1]
                  /\ UNCHANGED outcome
             ELSE Return(w, "failed")
        /\ UNCHANGED writeLock
  /\ UNCHANGED <<link, teardown, stream>>

WriteHead(w) ==
  /\ writer[w].pc = "write"
  /\ link # "closed"
  /\ Put(w, "head")
  /\ writer' = [writer EXCEPT ![w].pc = "tail"]
  /\ UNCHANGED <<link, writeLock, teardown, outcome>>

WriteTail(w) ==
  /\ writer[w].pc = "tail"
  /\ link # "closed"
  /\ Put(w, "tail")
  /\ writer' = [writer EXCEPT ![w].pc = "unlock", ![w].result = "ok"]
  /\ UNCHANGED <<link, writeLock, teardown, outcome>>

\* Mutant: a failed write is tried again, like a blocked one.
WriteErrorRetried(w) ==
  /\ writer[w].pc \in {"write", "tail"}
  /\ writeLock' = 0
  /\ teardown' = "pending"
  /\ writer' = [writer EXCEPT ![w].pc = "try"]
  /\ UNCHANGED <<link, stream, outcome>>

\* Mutant: a failed write does not end the connection.
WriteErrorIgnored(w) ==
  /\ writer[w].pc \in {"write", "tail"}
  /\ writer' = [writer EXCEPT ![w].pc = "unlock", ![w].result = "failed"]
  /\ UNCHANGED <<link, writeLock, teardown, stream, outcome>>

\* The deadline passes or the peer is gone, with none or some of the data out:
\* checkDisconnect.  On a closed socket this is the only way on.
WriteError(w) ==
  /\ writer[w].pc \in {"write", "tail"}
  /\ teardown' = "pending"
  /\ writer' = [writer EXCEPT ![w].pc = "unlock", ![w].result = "failed"]
  /\ UNCHANGED <<link, writeLock, stream, outcome>>

\* The deferred store, then the return through writeWithBackoff.
Unlock(w) ==
  /\ writer[w].pc = "unlock"
  /\ writeLock' = 0
  /\ Return(w, writer[w].result)
  /\ UNCHANGED <<link, teardown, stream>>

----------------------------------------------------------------------------
\* Disconnect, called by the reader goroutine at its end, by a goroutine that
\* gives up on the client, or by the goroutine of checkDisconnect.
Disconnect ==
  /\ link = "up"
  /\ link' = "disconnecting"
  /\ UNCHANGED <<writeLock, writer, teardown, stream, outcome>>

RunTeardown ==
  /\ teardown = "pending"
  /\ teardown' = "none"
  /\ link' = IF link = "up" THEN "disconnecting" ELSE link
  /\ UNCHANGED <<writeLock, writer, stream, outcome>>

Close ==
  /\ link = "disconnecting"
  /\ link' = "closed"
  /\ UNCHANGED <<writeLock, writer, teardown, stream, outcome>>

Init ==
  /\ link = "up"
  /\ writeLock = 0
  /\ writer = [w \in Writers |-> Idle]
  /\ teardown = "none"
  /\ stream = << >>
  /\ outcome = [w \in Writers |-> << >>]

\* What a goroutine inside a call goes on to do.
WriterStep(w) == TryLock(w) \/ WriteHead(w) \/ WriteTail(w) \/ WriteError(w) \/ Unlock(w)

Next ==
  \/ \E w \in Writers : Send(w) \/ WriterStep(w)
  \/ Disconnect
  \/ RunTeardown
  \/ Close

Spec == Init /\ [][Next]_vars

\* Goroutines are scheduled, and the write deadline ends every socket write.
FairSpec ==
  /\ Spec
  /\ \A w \in Writers : WF_vars(WriterStep(w))
  /\ WF_vars(RunTeardown)
  /\ WF_vars(Close)

----------------------------------------------------------------------------
(* Properties                                                               *)

Results == {"ok", "failed", "ErrorDisconnected"}
Chunks == [from : Writers, serial : Nat, part : {"head", "tail"}]

\* Every variable stays in its type.
TypeOK ==
  /\ link \in {"up", "disconnecting", "closed"}
  /\ writeLock \in {0, 1}
  /\ writer \in [Writers -> [pc : {"idle", "try", "write", "tail", "unlock"},
                             attempts : Nat, result : Results \union {"none"}]]
  /\ teardown \in {"none", "pending"}
  /\ stream \in Seq(Chunks)
  /\ outcome \in [Writers -> Seq(Results)]

\* However many goroutines send, a message is never cut by another one: the
\* second chunk of a message directly follows its first.
FramesAreContiguous ==
  \A i \in 1 .. Len(stream) :
    stream[i].part = "tail" =>
      i > 1 /\ stream[i - 1] = [stream[i] EXCEPT !.part = "head"]

Written(w, k, part) == {i \in 1 .. Len(stream) : stream[i] = Chunk(w, k, part)}

\* A call that returned nil has put the whole message on the wire, a call that
\* returned an error has not, and no message is on the wire twice: the backoff
\* loop repeats only what was never started.
ReturnTellsTheTruth ==
  /\ \A w \in Writers : \A k \in 1 .. Len(outcome[w]) :
       (outcome[w][k] = "ok") <=> (Written(w, k, "tail") # {})
  /\ \A i, j \in 1 .. Len(stream) : stream[i] = stream[j] => i = j

\* A fragment on the wire is that of a write in progress, or the connection is
\* being taken down: the peer would misread everything after it.
Fragments == {i \in 1 .. Len(stream) :
                /\ stream[i].part = "head"
                /\ Written(stream[i].from, stream[i].serial, "tail") = {}}
FragmentsEndTheConnection ==
  \A i \in Fragments :
    \/ stream[i].serial = Serial(stream[i].from) /\ writer[stream[i].from].pc = "tail"
    \/ teardown = "pending"
    \/ link # "up"

\* The messages of which both chunks are on the wire next to each other.
Delivered ==
  {<<stream[i].from, stream[i].serial>> :
     i \in {j \in 1 .. Len(stream) - 1 :
             stream[j].part = "head" /\ stream[j + 1] = [stream[j] EXCEPT !.part = "tail"]}}

\* A fragment that nobody is going to complete.
Abandoned(i) ==
  ~(stream[i].serial = Serial(stream[i].from) /\ writer[stream[i].from].pc = "tail")

Channel == INSTANCE FrameChannel
             WITH delivered <- Delivered, results <- outcome,
                  broken <- \E i \in Fragments : Abandoned(i),
                  closed <- link = "closed"

\* With the lock, the backoff loop and the teardown goroutine, writing
\* implements the channel its callers rely on, and a connection whose stream a
\* failed write has broken is closed in the end.
ImplementsFrameChannel == Channel!ChannelSpec
=============================================================================
