------------------------------ MODULE Sv2Codec ------------------------------
(***************************************************************************)
(* The binary layout of Stratum V2 messages                                *)
(* (src/cryptixstratum/sv2_codec.go).  A byte is a number below Base; the  *)
(* code has Base = 256, hashes of 32 bytes and frames of at most 1 MiB.    *)
(* Integer fields keep their width of one, two, three or four bytes.       *)
(***************************************************************************)
EXTENDS Integers, Sequences

CONSTANTS
  Base,             \* values of a byte
  HashLen,          \* bytes of a hash or target
  MaxFramePayload,  \* sv2MaxFramePayloadBytes
  MaxTarget,        \* the target of difficulty 1
  LeastDiff,        \* the least difficulty that is encoded, 0.00001 in the code
  Text(_)           \* the bytes of a program's or of an error's text

\* What so many bytes can say.
Values(len) == LET v[i \in 0 .. len] == IF i = 0 THEN 1 ELSE Base * v[i - 1] IN v[len]

ASSUME BaseAssumption == Base \in Nat /\ Base > 33
ASSUME HashLenAssumption == HashLen \in 1 .. Base - 1
ASSUME MaxFramePayloadAssumption == MaxFramePayload \in 0 .. Values(3) - 1
ASSUME MaxTargetAssumption == MaxTarget \in 1 .. Values(HashLen) - 1
ASSUME LeastDiffAssumption == LeastDiff \in Nat \ {0}

sv2ExtStandard == 0
sv2ExtChannel == (Base \div 2) * Base

sv2MsgSetupConnection == 0
sv2MsgSetupConnectionSuccess == 1
sv2MsgSetupConnectionError == 2
sv2MsgOpenStandardMiningChannel == 16
sv2MsgOpenMiningChannelSuccess == 17
sv2MsgOpenMiningChannelError == 18
sv2MsgSubmitSharesStandard == 26
sv2MsgSubmitSharesSuccess == 28
sv2MsgSubmitSharesError == 29

----------------------------------------------------------------------------
\* The low bytes of n, the least significant first.
LittleEndian(n, len) ==
  LET high[i \in 0 .. len] == IF i = 0 THEN n ELSE high[i - 1] \div Base
  IN  [i \in 1 .. len |-> high[i - 1] % Base]

U16(n) == <<n % Base, (n \div Base) % Base>>
U24(n) == <<n % Base, (n \div Base) % Base, ((n \div Base) \div Base) % Base>>
U32(n) == Append(U24(n), (((n \div Base) \div Base) \div Base) % Base)

Uint24(s) == s[1] + Base * (s[2] + Base * s[3])
Uint32(s) == s[1] + Base * (s[2] + Base * (s[3] + Base * s[4]))

\* A header of six bytes (extension, type, length), then the payload.
encodeSV2Frame(ext, type, payload) ==
  U16(ext) \o <<type>> \o U24(Len(payload)) \o payload

FrameType(header) == header[3]
FrameLength(header) == Uint24(SubSeq(header, 4, 6))

\* The elements of s at the places in I, in their order.
Pick(s, I) ==
  LET p[i \in 0 .. Len(s)] == IF i = 0 THEN << >>
                             ELSE IF i \in I THEN Append(p[i - 1], s[i]) ELSE p[i - 1]
  IN  p[Len(s)]

\* The printable bytes, cut to what one length byte can say.
putStr0_255(s) ==
  LET sanitized == Pick(s, {i \in 1 .. Len(s) : s[i] \in 32 .. 126})
      t == SubSeq(sanitized, 1, IF Len(sanitized) < Base THEN Len(sanitized) ELSE Base - 1)
  IN  <<Len(t)>> \o t

----------------------------------------------------------------------------
(* The cursor: the rest of the payload, the fields read so far, and whether *)
(* every read found enough bytes.                                           *)

newSV2Cursor(payload) == [data |-> payload, fields |-> << >>, ok |-> TRUE]

readBytes(c, n) ==
  IF c.ok /\ Len(c.data) >= n
    THEN [data |-> SubSeq(c.data, n + 1, Len(c.data)),
          fields |-> Append(c.fields, SubSeq(c.data, 1, n)), ok |-> TRUE]
    ELSE [c EXCEPT !.ok = FALSE]

readStr0_255(c) ==
  IF c.ok /\ c.data # << >>
    THEN readBytes([c EXCEPT !.data = Tail(@)], Head(c.data))
    ELSE [c EXCEPT !.ok = FALSE]

\* A layout lists the widths of the fields; Str is a text with its length byte.
Str == 0
readField(c, width) == IF width = Str THEN readStr0_255(c) ELSE readBytes(c, width)
Parse(payload, layout) ==
  LET c[i \in 0 .. Len(layout)] == IF i = 0 THEN newSV2Cursor(payload)
                                  ELSE readField(c[i - 1], layout[i])
  IN  c[Len(layout)]

\* protocol, versions, flags, host, port, vendor, hardware, firmware, device.
SetupLayout == <<1, 2, 2, 4, Str, 2, Str, Str, Str, Str>>
OpenLayout == <<4, Str, 4, HashLen>>
SubmitLayout == <<4, 4, 4, 4, 4, 4>>

\* The name of the miner's program: the firmware, else the vendor, else a default.
parseSV2SetupConnectionPayload(payload) ==
  LET c == Parse(payload, SetupLayout)
  IN  [ok |-> c.ok,
       app |-> IF ~c.ok THEN << >>
               ELSE IF c.fields[9] # << >> THEN c.fields[9]
               ELSE IF c.fields[7] # << >> THEN c.fields[7]
               ELSE Text("sv2-client")]

parseSV2OpenStandardChannelPayload(payload) ==
  LET c == Parse(payload, OpenLayout)
  IN  IF c.ok THEN [ok |-> TRUE, request |-> Uint32(c.fields[1]), identity |-> c.fields[2]]
              ELSE [ok |-> FALSE, request |-> 0, identity |-> << >>]

\* Mutant: nonce and ntime change places.
ParseSubmitSwapped(payload) ==
  LET c == Parse(payload, SubmitLayout)
      U(i) == Uint32(c.fields[i])
  IN  IF c.ok THEN [ok |-> TRUE, channel |-> U(1), sequence |-> U(2), job |-> U(3),
                    nonce |-> U(5), ntime |-> U(4)]
              ELSE [ok |-> FALSE]

\* Of a payload that is too short the caller gets an error and no field.
parseSV2SubmitSharePayload(payload) ==
  LET c == Parse(payload, SubmitLayout)
      U(i) == Uint32(c.fields[i])
  IN  IF c.ok THEN [ok |-> TRUE, channel |-> U(1), sequence |-> U(2), job |-> U(3),
                    nonce |-> U(4), ntime |-> U(5)]
              ELSE [ok |-> FALSE]

\* The request id of a payload that could not be parsed.
readSV2RequestID(payload) ==
  IF Len(payload) < 4 THEN 0 ELSE Uint32(SubSeq(payload, 1, 4))

----------------------------------------------------------------------------
encodeSV2SetupConnectionSuccessPayload(version, flags) == U16(version) \o U32(flags)
encodeSV2SetupConnectionErrorPayload(flags, code) == U32(flags) \o putStr0_255(Text(code))

\* The extranonce is nil in every call, the group channel is 0.
encodeSV2OpenChannelSuccessPayload(request, channel, target) ==
  U32(request) \o U32(channel) \o target \o <<0>> \o U32(0)
encodeSV2OpenChannelErrorPayload(request, code) == U32(request) \o putStr0_255(Text(code))

encodeSV2SubmitSuccessPayload(channel, sequence) == U32(channel) \o U32(sequence)
encodeSV2SubmitErrorPayload(channel, sequence, code) ==
  U32(channel) \o U32(sequence) \o putStr0_255(Text(code))

\* DiffToTarget of the difficulty or, if that is lower, of the least one; then
\* its bytes reversed into the low end of the hash.
diffToSV2TargetLE(diff) ==
  LittleEndian(MaxTarget \div (IF diff < LeastDiff THEN LeastDiff ELSE diff), HashLen)
=============================================================================
