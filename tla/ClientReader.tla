---------------------------- MODULE ClientReader ----------------------------
(***************************************************************************)
(* The bytes of one connection, from the miner to the handlers             *)
(* (src/gostratum/stratum_client.go, newClient and sniffConnectionPrefix   *)
(* in stratum_listener.go, the handlers of default_client.go).  TCP hands  *)
(* the bytes over in pieces of any size.  On the SV2 port one byte is read *)
(* to choose the protocol; a v1 reader then takes a line at a time under a *)
(* deadline of five seconds that starts anew with every line.              *)
(***************************************************************************)
EXTENDS Integers, Sequences, FiniteSets, SequencesExt

CONSTANTS
  Messages(_),         \* what a miner of a protocol may send: [bytes, means: what the
                       \*   protocol says they mean, good: no cause to refuse it, blank]
  Arrivals(_),         \* bound: how many of the bytes under way may arrive at once
  MaxMessages,         \* bound: messages of the miner
  Events,              \* the events in JSON: text -> event
  MaxLine,             \* maxEventLineBytes
  DecodableAddresses,  \* what util.DecodeAddress accepts
  Anonymous,           \* AnonymousWorkerName
  UseExtranonce        \* ctx.Extranonce # ""

ASSUME MaxMessagesAssumption == MaxMessages \in Nat
ASSUME MaxLineAssumption == MaxLine \in Nat
ASSUME UseExtranonceAssumption == UseExtranonce \in BOOLEAN

VARIABLES
  conn,       \* the protocol of the miner, the port it dialled, the fallback to v1
  miner,      \* [sent: messages, wire: bytes under way, gone: it has closed]
  inbox,      \* [socket: bytes to read, prefix: of prefixedConn, buf: of bufio,
              \*  armed: a read deadline is set]
  reader,     \* [pc: what it reads, type, need: of the frame, why: it ended]
  ctx,        \* [app, wallet, worker] of the StratumContext
  handled,    \* history: what the handlers were called with
  out,        \* history: what was written to the miner
  lines,      \* history: lines taken from the buffer
  cut         \* history: the lines of which a deadline dropped a part

readerVars == <<conn, miner, inbox, reader, ctx, handled, out, lines, cut>>

----------------------------------------------------------------------------
NL == 10
Blank == {9, 11, 12, 13, 32}
Dot == 46
Separators == {44, 59, 32, 9, 13, NL}
CryptixPrefix == 200      \* "cryptix:" and "cryptixtest:", one token each
CryptixTestPrefix == 201
Alphanumeric(b) == b \in 97 .. 122 \/ b \in 48 .. 57

None == << >>

\* The part of s before the first element that passes the test.
Before(s, Test(_)) ==
  LET i == SelectInSeq(s, Test) IN IF i = 0 THEN s ELSE SubSeq(s, 1, i - 1)

TrimLeft(s) ==
  LET i == SelectInSeq(s, LAMBDA b : b \notin Blank \union {NL})
  IN  IF i = 0 THEN None ELSE SubSeq(s, i, Len(s))
TrimSpace(s) == Reverse(TrimLeft(Reverse(TrimLeft(s))))

\* What is left of a line without NUL bytes and surrounding space.
LineText(raw) == TrimSpace(SelectSeq(raw, LAMBDA b : b # 0))

extractAddressPayload(s) == Before(s, LAMBDA b : ~Alphanumeric(b))

\* An address of the network, as it is or cut to its payload; None is an error.
Coerce(prefix, address) ==
  LET payload == extractAddressPayload(address)
  IN  IF <<prefix>> \o address \in DecodableAddresses THEN <<prefix>> \o address
      ELSE IF payload # None THEN <<prefix>> \o payload
      ELSE None

\* Mutant: what the miner appends to its address is kept.
CleanWalletKeepsSuffix(in) ==
  LET candidate == TrimSpace(in)
  IN  IF candidate # None /\ candidate[1] \in {CryptixPrefix, CryptixTestPrefix}
        THEN candidate
      ELSE IF extractAddressPayload(candidate) # None THEN <<CryptixPrefix>> \o candidate
      ELSE None

CleanWallet(in) ==
  LET candidate == Before(TrimSpace(in), LAMBDA b : b \in Separators)
      testnet == <<CryptixTestPrefix>> \o candidate
  IN  IF candidate = None THEN None
      ELSE IF candidate[1] \in {CryptixPrefix, CryptixTestPrefix}
        THEN Coerce(candidate[1], Tail(candidate))
      ELSE IF Coerce(CryptixPrefix, candidate) # None THEN Coerce(CryptixPrefix, candidate)
      ELSE IF testnet \in DecodableAddresses THEN testnet
      ELSE None

\* The wallet before the first dot and the worker name after it.
ParseAuthorizeIdentity(identity) ==
  LET address == Before(identity, LAMBDA b : b = Dot)
      candidate == TrimSpace(SubSeq(identity, Len(address) + 2, Len(identity)))
  IN  [wallet |-> CleanWallet(address),
       worker |-> IF candidate = None THEN Anonymous ELSE candidate]

----------------------------------------------------------------------------
(* The miner, the network and the rest of the bridge                        *)

\* A v1 miner ends a line with its only newline.  The text is an event when it
\* is JSON; what is left of an object without its first byte is none.
V1Message(m) ==
  LET n == Len(m.bytes)
  IN  /\ m.bytes \in Seq(Nat) /\ n > 0 /\ m.bytes[1] # 0
      /\ \A i \in 1 .. n : m.bytes[i] = NL <=> i = n
      /\ \A i \in 2 .. n : LineText(SubSeq(m.bytes, i, n)) \notin DOMAIN Events
      /\ LineText(m.bytes) \in DOMAIN Events => m.means = Events[LineText(m.bytes)]
      /\ m.blank = (LineText(m.bytes) = << >>)
      /\ m.good => n <= MaxLine /\ LineText(m.bytes) \in {<< >>} \union DOMAIN Events

ASSUME EventsAssumption == << >> \notin DOMAIN Events
ASSUME V1MessagesAssumption == \A m \in Messages("v1") : V1Message(m)

\* A message follows when the one before has arrived, read or not.
SendMessage ==
  /\ ~miner.gone /\ reader.pc # "done"
  /\ miner.wire = << >>
  /\ Len(miner.sent) < MaxMessages
  /\ \E m \in Messages(conn.proto) :
       miner' = [miner EXCEPT !.sent = Append(@, m), !.wire = m.bytes]
  /\ UNCHANGED <<conn, inbox, reader, ctx, handled, out, lines, cut>>

\* Bytes arrive in order, a message in one or more pieces, several at a time
\* when the reader is slow.
Deliver ==
  /\ reader.pc # "done"
  /\ \E n \in Arrivals(miner.wire) \intersect 1 .. Len(miner.wire) :
       /\ miner' = [miner EXCEPT !.wire = SubSeq(@, n + 1, Len(@))]
       /\ inbox' = [inbox EXCEPT !.socket = @ \o SubSeq(miner.wire, 1, n)]
  /\ UNCHANGED <<conn, reader, ctx, handled, out, lines, cut>>

\* The miner closes or is lost, with what is still under way.
HangUp ==
  /\ ~miner.gone /\ reader.pc # "done"
  /\ miner' = [miner EXCEPT !.gone = TRUE, !.wire = << >>]
  /\ UNCHANGED <<conn, inbox, reader, ctx, handled, out, lines, cut>>

\* The reader returns; its deferred Disconnect ends the connection.  A Disconnect
\* of another goroutine also ends it, between any two of the steps below.
End(why) == reader' = [reader EXCEPT !.pc = "done", !.why = why]

----------------------------------------------------------------------------
\* The bytes a Read of the connection gives, the sniffed one first.
Available == inbox.prefix \o inbox.socket

\* A strict port takes every connection, one with fallback only those that
\* start with the extension type of a first SV2 frame.
CanHandleFirstByte(b) == ~conn.fallback \/ b = 0

\* Mutant: the deadline of the first byte stays.
ArmedAfterSniff(sv2) == TRUE

\* The deadline of the first byte is removed again; a v1 reader sets its own.
Armed(sv2) == ~sv2

\* newClient, sniffConnectionPrefix: prefixedConn keeps the byte for the reader.
Sniff ==
  /\ reader.pc = "sniff"
  /\ inbox.socket # << >>
  /\ LET b == Head(inbox.socket)
         sv2 == CanHandleFirstByte(b)
     IN  /\ inbox' = [inbox EXCEPT !.socket = Tail(@), !.prefix = <<b>>,
                                   !.armed = Armed(sv2)]
         /\ reader' = [reader EXCEPT !.pc = IF sv2 THEN "header" ELSE "line"]
  /\ UNCHANGED <<conn, miner, ctx, handled, out, lines, cut>>

\* The place of the first newline in the buffer, 0 if there is none.
LineEnd == SelectInSeq(inbox.buf, LAMBDA b : b = NL)

\* bufio reads what the connection has; prefixedConn gives the prefix alone.
FillBuffer ==
  /\ reader.pc = "line"
  /\ LineEnd = 0
  /\ \/ /\ inbox.prefix # << >>
        /\ inbox' = [inbox EXCEPT !.buf = @ \o inbox.prefix, !.prefix = << >>]
     \/ /\ inbox.prefix = << >>
        /\ inbox.socket # << >>
        /\ inbox' = [inbox EXCEPT !.buf = @ \o inbox.socket, !.socket = << >>]
  /\ UNCHANGED <<conn, miner, reader, ctx, handled, out, lines, cut>>

\* The bytes a read still waits for: it can meet a deadline or the end.
Starved ==
  CASE reader.pc = "sniff"   -> inbox.socket = << >>
    [] reader.pc = "line"    -> LineEnd = 0 /\ Available = << >>
    [] reader.pc = "header"  -> Len(Available) < 6
    [] reader.pc = "payload" -> Len(Available) < reader.need
    [] reader.pc = "done"    -> FALSE

\* A read deadline passes.  The v1 reader loses what ReadBytes had taken from
\* the buffer and starts over, without a look at the context; the bytes may
\* also be there when it looks again in the middle of a line.
ReadTimeout ==
  /\ inbox.armed
  /\ ~miner.gone
  /\ \/ /\ reader.pc = "line"
        /\ LineEnd = 0 /\ inbox.prefix = << >>
        /\ inbox.buf = << >> => inbox.socket = << >>
        /\ cut' = IF inbox.buf = << >> THEN cut ELSE cut \union {lines + 1}
        /\ inbox' = [inbox EXCEPT !.buf = << >>]
        /\ UNCHANGED reader
     \/ /\ reader.pc # "line"
        /\ Starved
        /\ End("deadline")
        /\ UNCHANGED <<inbox, cut>>
  /\ UNCHANGED <<conn, miner, ctx, handled, out, lines>>

\* The miner has closed and not enough is left to read.
ReadEOF ==
  /\ Starved
  /\ miner.gone
  /\ End("eof")
  /\ UNCHANGED <<conn, miner, inbox, ctx, handled, out, lines, cut>>

----------------------------------------------------------------------------
(* spawnClientListener with a line in the buffer                            *)

RawLine == SubSeq(inbox.buf, 1, LineEnd)

Line == LineText(RawLine)

TakeLine ==
  /\ reader.pc = "line"
  /\ LineEnd > 0
  /\ lines' = lines + 1
  /\ inbox' = [inbox EXCEPT !.buf = SubSeq(@, LineEnd + 1, Len(@))]
  /\ UNCHANGED <<conn, miner, cut>>

\* The context, which may be cancelled at any time, is looked at before the line.
StopOnCancel ==
  /\ TakeLine
  /\ End("cancelled")
  /\ UNCHANGED <<ctx, handled, out>>

RefuseLine ==
  /\ TakeLine
  /\ Len(RawLine) > MaxLine \/ (Line # << >> /\ Line \notin DOMAIN Events)
  /\ End("refused")
  /\ UNCHANGED <<ctx, handled, out>>

SkipBlank ==
  /\ TakeLine
  /\ Len(RawLine) <= MaxLine /\ Line = << >>
  /\ UNCHANGED <<reader, ctx, handled, out>>

Event == Events[Line]

\* HandleEvent is about to call the handler of the event's method.
TakeEvent ==
  /\ TakeLine
  /\ Len(RawLine) <= MaxLine
  /\ Line \in DOMAIN Events
  /\ handled' = Append(handled, Event)

\* A reply to the event; the writer may fail and then another goroutine closes
\* the connection (ConnectionWriter).
Response(id, result) == [id |-> id, result |-> result]
NoReply == Response(0, "none")

HandleSubscribe ==
  /\ TakeEvent
  /\ Event.method = "mining.subscribe"
  /\ \/ /\ out' = Append(out, Response(Event.id, "subscribed"))
        /\ ctx' = IF Event.params = << >> THEN ctx ELSE [ctx EXCEPT !.app = Event.params[1]]
        /\ UNCHANGED reader
     \/ /\ End("write")
        /\ UNCHANGED <<ctx, out>>

\* The wallet is set before the reply; a refused identity gets no reply.  The
\* extranonce follows the reply; that its write may fail is only logged.
HandleAuthorize ==
  /\ TakeEvent
  /\ Event.method = "mining.authorize"
  /\ LET who == ParseAuthorizeIdentity(IF Event.params = << >> THEN << >> ELSE Event.params[1])
         reply == Response(Event.id, "authorized")
     IN  IF who.wallet = None
           THEN End("refused") /\ UNCHANGED <<ctx, out>>
           ELSE /\ ctx' = [ctx EXCEPT !.wallet = who.wallet, !.worker = who.worker]
                /\ \/ /\ out' = IF UseExtranonce
                                  THEN out \o <<reply, Response(0, "set_extranonce")>>
                                  ELSE Append(out, reply)
                      /\ UNCHANGED reader
                   \/ End("write") /\ UNCHANGED out

\* The share handler answers (ShareHandler); its errors are sunk.
HandleSubmit ==
  /\ TakeEvent
  /\ Event.method = "mining.submit"
  /\ out' \in {Append(out, Response(Event.id, "verdict")), Append(out, NoReply)}
  /\ UNCHANGED <<reader, ctx>>

HandleUnknown ==
  /\ TakeEvent
  /\ Event.method \notin {"mining.subscribe", "mining.authorize", "mining.submit"}
  /\ UNCHANGED <<reader, ctx, out>>

\* What happens once the goroutine is scheduled.
LineStep ==
  \/ FillBuffer \/ StopOnCancel \/ RefuseLine \/ SkipBlank
  \/ HandleSubscribe \/ HandleAuthorize \/ HandleSubmit \/ HandleUnknown

ReaderInit ==
  /\ conn \in [proto : {"v1", "v2"}, port : {"v1", "v2"}, fallback : BOOLEAN]
  /\ conn.proto = "v2" => conn.port = "v2"
  /\ conn.port = "v1" => conn.fallback
  /\ miner = [sent |-> << >>, wire |-> << >>, gone |-> FALSE]
  /\ inbox = [socket |-> << >>, prefix |-> << >>, buf |-> << >>, armed |-> TRUE]
  /\ reader = [pc |-> IF conn.port = "v1" THEN "line" ELSE "sniff",
               type |-> 0, need |-> 0, why |-> "none"]
  /\ ctx = [app |-> None, wallet |-> None, worker |-> None]
  /\ handled = << >>
  /\ out = << >>
  /\ lines = 0
  /\ cut = {}

ReaderNext ==
  \/ SendMessage \/ Deliver \/ HangUp
  \/ Sniff \/ ReadTimeout \/ ReadEOF \/ LineStep
=============================================================================
