----------------------------- MODULE Sv2Handler -----------------------------
(***************************************************************************)
(* A connection with both its readers: the v1 reader of ClientReader and   *)
(* HandleBinaryClient (src/cryptixstratum/sv2_handler.go) with the frames  *)
(* of Sv2Codec.  The handler reads a frame, answers it and goes on; a      *)
(* malformed or misplaced request is answered and ends the connection.     *)
(* Goroutines of NewBlockAvailable (JobDispatch) read and write the wallet *)
(* of the context meanwhile.                                               *)
(***************************************************************************)
EXTENDS ClientReader, Sv2Codec

CONSTANTS
  FirstChannelIDs,  \* nextChannelID when the miner connects: others opened channels
  StratumDiffs,     \* difficulties of the mining state when a channel is opened
  WalletOf          \* the wallet and worker an identity stands for

ASSUME FirstChannelIDsAssumption == FirstChannelIDs \subseteq 0 .. Values(4) - 1
ASSUME StratumDiffsAssumption == StratumDiffs \subseteq Nat \ {0}

VARIABLES
  setupComplete,  \* of HandleBinaryClient
  sv2,            \* [enabled: sv2Enabled, channel: sv2ChannelID]
  nextChannelID,  \* of the handler, shared by all connections
  held,           \* originalAddr of the dispatch goroutines of this client
  overtaken       \* history: the wallet was changed while another one was held

vars == <<readerVars, setupComplete, sv2, nextChannelID, held, overtaken>>
handlerVars == <<setupComplete, sv2, nextChannelID>>

----------------------------------------------------------------------------
(* The miner's side of the protocol, read without the bridge's codec        *)

U24At(b, i) == b[i] + Base * (b[i + 1] + Base * b[i + 2])
U32At(b, i) == b[i] + Base * (b[i + 1] + Base * (b[i + 2] + Base * b[i + 3]))
NumberAt(b, i, len) ==
  LET v[k \in 0 .. len] == IF k = 0 THEN 0 ELSE b[i + len - k] + Base * v[k - 1] IN v[len]

\* The text whose length byte is at i, and the place after it.
TextAt(b, i) == SubSeq(b, i + 1, i + b[i])
After(b, i) == i + 1 + b[i]

Kind(frame) == frame[3]
WellFramed(frame) == Len(frame) = 6 + U24At(frame, 4)
ErrorText(frame, i) == SubSeq(frame, i + 1, Len(frame))

\* What a payload means.  A message that is cut short says little.
SetupMeans(b) ==
  LET vendor == After(b, 10) + 2
      firmware == After(b, After(b, vendor))
      device == After(b, firmware)
      n == Len(b)
  IN  IF 10 <= n /\ vendor <= n /\ After(b, vendor) <= n /\ firmware <= n /\ device <= n
           /\ After(b, device) <= n + 1
        THEN [ok |-> TRUE, app |-> IF b[firmware] # 0 THEN TextAt(b, firmware)
                                   ELSE IF b[vendor] # 0 THEN TextAt(b, vendor)
                                   ELSE Text("sv2-client")]
        ELSE [ok |-> FALSE, app |-> << >>]

OpenMeans(b) ==
  IF 5 <= Len(b) /\ After(b, 5) + 3 + HashLen <= Len(b)
    THEN [ok |-> TRUE, request |-> U32At(b, 1), identity |-> TextAt(b, 5)]
    ELSE [ok |-> FALSE, request |-> IF Len(b) < 4 THEN 0 ELSE U32At(b, 1), identity |-> << >>]

SubmitMeans(b) ==
  IF Len(b) >= 24
    THEN [ok |-> TRUE, channel |-> U32At(b, 1), sequence |-> U32At(b, 5), job |-> U32At(b, 9),
          nonce |-> U32At(b, 13), ntime |-> U32At(b, 17)]
    ELSE [ok |-> FALSE]

\* A frame with the length of its payload, or the header of one that is too long.
V2Message(m) ==
  LET payload == SubSeq(m.bytes, 7, Len(m.bytes))
      type == m.bytes[3]
      fits == U24At(m.bytes, 4) <= MaxFramePayload
  IN  /\ m.bytes \in Seq(0 .. Base - 1) /\ Len(m.bytes) >= 6 /\ m.bytes[1] = 0
      /\ IF fits THEN WellFramed(m.bytes) ELSE payload = << >>
      /\ fits => m.means = [type |-> type, body |->
                             CASE type = sv2MsgSetupConnection -> SetupMeans(payload)
                               [] type = sv2MsgOpenStandardMiningChannel -> OpenMeans(payload)
                               [] type = sv2MsgSubmitSharesStandard -> SubmitMeans(payload)
                               [] OTHER -> [ok |-> TRUE]]
      /\ m.good => fits /\ m.means.body.ok
      /\ m.blank = FALSE

ASSUME V2MessagesAssumption == \A m \in Messages("v2") : V2Message(m)

\* A good request names an identity that stands for a wallet.
ASSUME IdentitiesAssumption ==
  /\ \A m \in Messages("v1") : m.good /\ ~m.blank /\ m.means.method = "mining.authorize" =>
       m.means.params # << >> /\ m.means.params[1] \in DOMAIN WalletOf
  /\ \A m \in Messages("v2") : m.good /\ m.means.type = sv2MsgOpenStandardMiningChannel =>
       m.means.body.identity \in DOMAIN WalletOf

\* The reasons for not accepting a share are short printable texts, and no other
\* is told like the one for a wrong channel.
ASSUME TextAssumption ==
  /\ \A s \in {"malformed setup connection", "malformed open channel", "setup not complete",
               "invalid wallet", "malformed submit"} : Text(s) \in Seq(Nat)
  /\ \A s \in {"wrong channel", "stale share", "duplicate share", "low difficulty",
               "invalid share"} :
       /\ Text(s) \in Seq(32 .. 126) /\ Len(Text(s)) < Base
       /\ Text(s) = Text("wrong channel") => s = "wrong channel"

----------------------------------------------------------------------------
(* readSV2Frame                                                             *)

Consume(n) ==
  inbox' = [inbox EXCEPT !.prefix = << >>, !.socket = SubSeq(Available, n + 1, Len(Available))]

ReadHeader ==
  /\ reader.pc = "header"
  /\ Len(Available) >= 6
  /\ Consume(6)
  /\ IF FrameLength(Available) > MaxFramePayload
       THEN End("refused")
       ELSE reader' = [reader EXCEPT !.pc = "payload", !.type = FrameType(Available),
                                     !.need = FrameLength(Available)]
  /\ UNCHANGED <<conn, miner, ctx, handled, out, lines, cut, handlerVars>>

Payload == SubSeq(Available, 1, reader.need)

\* The frame is complete and a handler sees its type and fields.
TakeFrame(types) ==
  /\ reader.pc = "payload"
  /\ Len(Available) >= reader.need
  /\ reader.type \in types
  /\ Consume(reader.need)
  /\ UNCHANGED <<conn, miner, lines, cut>>

Handle(body) == handled' = Append(handled, [type |-> reader.type, body |-> body])

Continue == reader' = [reader EXCEPT !.pc = "header"]

\* writeSV2Frame, after which the handler goes on; a failed write ends it.
Write(ext, type, payload) ==
  \/ out' = Append(out, encodeSV2Frame(ext, type, payload)) /\ Continue
  \/ End("write") /\ UNCHANGED out

\* The last frame of a connection that is refused, written if it can be.
WriteAndEnd(ext, type, payload) ==
  /\ out' \in {Append(out, encodeSV2Frame(ext, type, payload)), out}
  /\ End("refused")

----------------------------------------------------------------------------
SetupConnection ==
  LET p == parseSV2SetupConnectionPayload(Payload)
  IN  /\ TakeFrame({sv2MsgSetupConnection})
      /\ Handle(p)
      /\ IF p.ok
           THEN /\ ctx' = IF p.app = None THEN ctx ELSE [ctx EXCEPT !.app = p.app]
                /\ Write(sv2ExtStandard, sv2MsgSetupConnectionSuccess,
                         encodeSV2SetupConnectionSuccessPayload(2, 0))
                /\ setupComplete' = (setupComplete \/ reader'.pc = "header")
           ELSE /\ WriteAndEnd(sv2ExtStandard, sv2MsgSetupConnectionError,
                               encodeSV2SetupConnectionErrorPayload(0, "malformed setup connection"))
                /\ UNCHANGED <<ctx, setupComplete>>
      /\ UNCHANGED <<sv2, nextChannelID>>

\* Mutant: a refusal names no request.
OpenRequestLost(p) == 0

\* The request id the answers carry.
OpenRequest(p) == IF p.ok THEN p.request ELSE readSV2RequestID(Payload)

\* The reason to refuse a channel, "none" if there is none.
OpenRefusal(p) ==
  IF ~p.ok THEN "malformed open channel"
  ELSE IF ~setupComplete THEN "setup not complete"
  ELSE IF ParseAuthorizeIdentity(p.identity).wallet = None THEN "invalid wallet"
  ELSE "none"

RefuseChannel ==
  LET p == parseSV2OpenStandardChannelPayload(Payload)
  IN  /\ TakeFrame({sv2MsgOpenStandardMiningChannel})
      /\ OpenRefusal(p) # "none"
      /\ Handle([p EXCEPT !.request = OpenRequest(p)])
      /\ WriteAndEnd(sv2ExtStandard, sv2MsgOpenMiningChannelError,
                     encodeSV2OpenChannelErrorPayload(OpenRequest(p), OpenRefusal(p)))
      /\ UNCHANGED <<ctx, handlerVars>>

\* Mutant: the counter does not pass over 0.
NextChannelWraps == (nextChannelID + 1) % Values(4)

\* nextChannelID.Add(1), once more when that is 0.
NextChannel == LET n == (nextChannelID + 1) % Values(4) IN IF n = 0 THEN 1 ELSE n

\* EnableSV2 comes before the answer; the difficulty is that of the mining
\* state, which the opening initialises (JobDispatch).
OpenChannel ==
  LET p == parseSV2OpenStandardChannelPayload(Payload)
      who == ParseAuthorizeIdentity(p.identity)
  IN  /\ TakeFrame({sv2MsgOpenStandardMiningChannel})
      /\ OpenRefusal(p) = "none"
      /\ Handle(p)
      /\ ctx' = [ctx EXCEPT !.wallet = who.wallet, !.worker = who.worker]
      /\ nextChannelID' = NextChannel
      /\ sv2' = [enabled |-> TRUE, channel |-> NextChannel]
      /\ \E diff \in StratumDiffs :
           Write(sv2ExtStandard, sv2MsgOpenMiningChannelSuccess,
                 encodeSV2OpenChannelSuccessPayload(p.request, NextChannel, diffToSV2TargetLE(diff)))
      /\ UNCHANGED setupComplete

sv2SubmitStatusCode(status) ==
  CASE status = "stale" -> "stale share"
    [] status = "duplicate" -> "duplicate share"
    [] status = "lowdiff" -> "low difficulty"
    [] OTHER -> "invalid share"

WrongChannel(p) == ~sv2.enabled \/ p.channel # sv2.channel

\* HandleSubmitSV2 judges the share (ShareHandler); the rest of the frame says
\* which share it was.
SubmitShare ==
  LET p == parseSV2SubmitSharePayload(Payload)
      Answer(type, payload) == Write(sv2ExtChannel, type, payload)
      Error(code) == encodeSV2SubmitErrorPayload(p.channel, p.sequence, code)
  IN  /\ TakeFrame({sv2MsgSubmitSharesStandard})
      /\ Handle(p)
      /\ IF ~p.ok
           THEN WriteAndEnd(sv2ExtChannel, sv2MsgSubmitSharesError,
                            encodeSV2SubmitErrorPayload(0, 0, "malformed submit"))
         ELSE IF WrongChannel(p)
           THEN Answer(sv2MsgSubmitSharesError, Error("wrong channel"))
         ELSE \E status \in {"accepted", "stale", "duplicate", "lowdiff", "bad"} :
                IF status = "accepted"
                  THEN Answer(sv2MsgSubmitSharesSuccess,
                              encodeSV2SubmitSuccessPayload(p.channel, p.sequence))
                  ELSE Answer(sv2MsgSubmitSharesError, Error(sv2SubmitStatusCode(status)))
      /\ UNCHANGED <<ctx, handlerVars>>

IgnoreFrame ==
  /\ TakeFrame(0 .. Base - 1 \ {sv2MsgSetupConnection, sv2MsgOpenStandardMiningChannel,
                                sv2MsgSubmitSharesStandard})
  /\ Handle([ok |-> TRUE])
  /\ Continue
  /\ UNCHANGED <<ctx, out, handlerVars>>

FrameStep ==
  ReadHeader \/ SetupConnection \/ RefuseChannel \/ OpenChannel \/ SubmitShare \/ IgnoreFrame

----------------------------------------------------------------------------
(* NewBlockAvailable.  A template may come at any time and any number of    *)
(* goroutines may hold the same wallet; what they do once the reader has    *)
(* returned concerns no share.                                              *)

\* A goroutine starts for a client that has a wallet.
DispatchBegin ==
  /\ reader.pc # "done"
  /\ ctx.wallet # None
  /\ held' = held \union {ctx.wallet}
  /\ UNCHANGED <<readerVars, handlerVars, overtaken>>

\* It ends: with its job sent it writes the wallet back, else it leaves it.
DispatchEnd ==
  /\ reader.pc # "done"
  /\ \E originalAddr \in held :
       /\ ctx' \in {ctx, [ctx EXCEPT !.wallet = originalAddr]}
       /\ held' \in {held, held \ {originalAddr}}
  /\ UNCHANGED <<conn, miner, inbox, reader, handled, out, lines, cut, handlerVars, overtaken>>

----------------------------------------------------------------------------
Init ==
  /\ ReaderInit
  /\ setupComplete = FALSE
  /\ sv2 = [enabled |-> FALSE, channel |-> 0]
  /\ nextChannelID \in IF conn.proto = "v1" THEN {0} ELSE FirstChannelIDs
  /\ held = {}
  /\ overtaken = FALSE

\* A step of the connection's reader or of its miner.
ConnectionStep ==
  /\ (ReaderNext /\ UNCHANGED handlerVars) \/ FrameStep
  /\ overtaken' = (overtaken \/ (ctx'.wallet # ctx.wallet /\ held \ {ctx'.wallet} # {}))
  /\ UNCHANGED held

Next == ConnectionStep \/ DispatchBegin \/ DispatchEnd

Spec == Init /\ [][Next]_vars

----------------------------------------------------------------------------
(* Properties                                                               *)

\* The messages that are neither blank lines nor cut by a deadline.
Kept == Pick([i \in 1 .. Len(miner.sent) |-> i],
             {i \in 1 .. Len(miner.sent) : i \notin cut /\ ~miner.sent[i].blank})

\* However the bytes arrive, whichever port and protocol, the handlers see the
\* messages the miner sent, in their order and with their fields: only a line
\* of which a deadline took a part is missing.
HandledAsSent ==
  /\ Len(handled) <= Len(Kept)
  /\ \A i \in 1 .. Len(handled) : handled[i] = miner.sent[Kept[i]].means

\* What the miner asked for and a handler has seen.
Asks(h) ==
  IF conn.proto = "v1" THEN h.method \in {"mining.subscribe", "mining.authorize", "mining.submit"}
  ELSE h.type \in {sv2MsgSetupConnection, sv2MsgOpenStandardMiningChannel,
                   sv2MsgSubmitSharesStandard}
Requests ==
  LET seen == [i \in 1 .. Len(handled) |-> miner.sent[Kept[i]].means]
  IN  Pick(seen, {i \in 1 .. Len(handled) : Asks(seen[i])})
Replies ==
  IF conn.proto = "v1"
    THEN Pick(out, {i \in 1 .. Len(out) : out[i].result # "set_extranonce"})
    ELSE out

\* What an answer to a v1 request says.
Outcome(method) ==
  CASE method = "mining.subscribe" -> "subscribed"
    [] method = "mining.authorize" -> "authorized"
    [] OTHER -> "verdict"

\* The difficulty whose target is announced.
AtLeast(d) == IF d < LeastDiff THEN LeastDiff ELSE d

Answers(r, h) ==
  IF conn.proto = "v1"
    THEN \/ r = Response(h.id, Outcome(h.method))
         \/ h.method = "mining.submit" /\ r = NoReply
  ELSE /\ WellFramed(r)
       /\ CASE h.type = sv2MsgSetupConnection ->
                 Kind(r) = IF h.body.ok THEN sv2MsgSetupConnectionSuccess ELSE sv2MsgSetupConnectionError
            [] h.type = sv2MsgOpenStandardMiningChannel ->
                 /\ Kind(r) \in {sv2MsgOpenMiningChannelSuccess, sv2MsgOpenMiningChannelError}
                 /\ U32At(r, 7) = h.body.request
                 /\ Kind(r) = sv2MsgOpenMiningChannelSuccess =>
                      \E d \in StratumDiffs : NumberAt(r, 15, HashLen) = MaxTarget \div AtLeast(d)
            [] OTHER ->
                 IF h.body.ok
                   THEN /\ Kind(r) \in {sv2MsgSubmitSharesSuccess, sv2MsgSubmitSharesError}
                        /\ U32At(r, 7) = h.body.channel /\ U32At(r, 11) = h.body.sequence
                   ELSE /\ Kind(r) = sv2MsgSubmitSharesError
                        /\ U32At(r, 7) = 0 /\ U32At(r, 11) = 0

\* Every request is answered once, in order, with the kind of answer it asks for and
\* under its own id, request or sequence number.  There are three exceptions.  The request that
\* ends the connection may go without an answer.  A v1 submit may go without one
\* while the connection stays up, when the share handler gives an error to its
\* caller, which sinks it (stratum_server.go:107): NoReply stands for that.  An SV2 submit too short
\* to be parsed is refused under channel 0 and sequence 0 (sv2_handler.go:122).
AnswersEchoRequests ==
  /\ Len(Replies) <= Len(Requests)
  /\ reader.pc # "done" => Len(Replies) = Len(Requests)
  /\ \A i \in 1 .. Len(Replies) : Answers(Replies[i], Requests[i])

\* The channel the miner was last told it has before its i-th request, 0 if none.
Granted(i) ==
  LET opened == {j \in 1 .. i - 1 : Kind(out[j]) = sv2MsgOpenMiningChannelSuccess}
  IN  IF opened = {} THEN 0 ELSE U32At(out[CHOOSE j \in opened : \A k \in opened : k <= j], 11)

\* A share is judged exactly when it names the channel that the miner was told
\* it has, also after the channel ids have wrapped around.
SharesOnOpenChannel ==
  conn.proto = "v2" => \A i \in 1 .. Len(out) :
    Requests[i].type = sv2MsgSubmitSharesStandard /\ Requests[i].body.ok =>
      (Requests[i].body.channel = 0 \/ Requests[i].body.channel # Granted(i)) =
        (Kind(out[i]) = sv2MsgSubmitSharesError /\ ErrorText(out[i], 15) = Text("wrong channel"))

\* The last request that was granted, 0 if none was.
Authorized ==
  {i \in 1 .. Len(Replies) :
     IF conn.proto = "v1" THEN Replies[i].result = "authorized"
                          ELSE Kind(Replies[i]) = sv2MsgOpenMiningChannelSuccess}

\* Whom the i-th request was made for.
For(i) == WalletOf[IF conn.proto = "v1" THEN Requests[i].params[1] ELSE Requests[i].body.identity]

\* While the connection is up, its shares are credited to the worker of the last
\* granted request and to the wallet of a granted one: of the last, unless a
\* dispatch goroutine held the wallet of an earlier one when it was granted and
\* may have written that back (client_handler.go:189 and 216).
CreditedAsAuthorized ==
  reader.pc # "done" /\ ctx.wallet # None =>
    \E i \in Authorized :
      /\ \A j \in Authorized : j <= i
      /\ ctx.worker = For(i).worker
      /\ ctx.wallet = For(i).wallet \/ (overtaken /\ \E j \in Authorized : ctx.wallet = For(j).wallet)

\* A request the bridge may refuse: a bad one, or a channel before the setup.
Faulty(i) ==
  \/ ~miner.sent[i].good
  \/ /\ conn.proto = "v2"
     /\ miner.sent[i].means.type = sv2MsgOpenStandardMiningChannel
     /\ \A j \in 1 .. i - 1 : miner.sent[j].means.type # sv2MsgSetupConnection

\* The bridge drops a miner only for cause: a faulty message, a line that stalled
\* for a deadline, the wrong protocol for a strict port, or no first byte in
\* time.  A miner that is silent between two messages stays.
GoodMinersStayConnected ==
  /\ reader.why = "refused" =>
       \/ \E i \in 1 .. Len(miner.sent) : Faulty(i)
       \/ cut # {}
       \/ conn.proto = "v1" /\ ~conn.fallback
  /\ reader.why = "deadline" => handled = << >> /\ inbox.prefix = << >> /\ lines = 0
=============================================================================
