---------------------------- MODULE MCSv2Handler ----------------------------
(***************************************************************************)
(* A miner that sends up to three messages, v1 lines to either port or SV2 *)
(* frames to the SV2 port.  Bytes are numbers below 210, so that the real  *)
(* message types fit and the length of a setup message takes two bytes;    *)
(* hashes have two bytes.  The channel counter starts at 0 or just before  *)
(* it wraps.                                                               *)
(***************************************************************************)
EXTENDS Sv2Handler

MCWallet == <<97, 98>>                       \* an address without prefix
MCOtherWallet == <<99, 97>>
MCDecodable == {<<CryptixPrefix>> \o MCWallet, <<CryptixPrefix>> \o MCOtherWallet}
MCAnonymous == <<63>>
MCIdentity == <<CryptixPrefix, 97, 98, 46, 119>>  \* cryptix:ab.w
MCRigIdentity == <<99, 97, 44, 114>>         \* ca,r
MCBadIdentity == <<45, 97>>                  \* -a
MCWalletOf ==
  MCIdentity :> [wallet |-> <<CryptixPrefix>> \o MCWallet, worker |-> <<119>>]
    @@ MCRigIdentity :> [wallet |-> <<CryptixPrefix>> \o MCOtherWallet, worker |-> MCAnonymous]

MCErrors == <<"sv2-client", "malformed setup connection", "malformed open channel",
              "setup not complete", "invalid wallet", "malformed submit", "wrong channel",
              "stale share", "duplicate share", "low difficulty", "invalid share">>
MCText(s) == <<32 + SelectInSeq(MCErrors, LAMBDA e : e = s)>>

----------------------------------------------------------------------------
(* v1: a line of JSON is a brace, four bytes that tell the event, a brace.  *)

MCJson(k) == <<123, k, k, k, k, 125>>
MCEvent(id, method, params) == [id |-> id, method |-> method, params |-> params]
MCEvents ==
  MCJson(40) :> MCEvent(1, "mining.subscribe", <<<<33>>>>)
    @@ MCJson(41) :> MCEvent(2, "mining.authorize", <<MCIdentity>>)
    @@ MCJson(42) :> MCEvent(3, "mining.authorize", <<MCBadIdentity>>)
    @@ MCJson(43) :> MCEvent(4, "mining.submit", << >>)
    @@ MCJson(44) :> MCEvent(5, "mining.extranonce.subscribe", << >>)
    @@ MCJson(45) :> MCEvent(6, "mining.authorize", <<MCRigIdentity>>)

MCMessage(bytes, means, good, blank) ==
  [bytes |-> bytes, means |-> means, good |-> good, blank |-> blank]

MCLines ==
  {MCMessage(t \o <<NL>>, MCEvents[t], t # MCJson(42), FALSE) : t \in DOMAIN MCEvents}
    \union {MCMessage(<<13, NL>>, MCEvent(0, "none", << >>), TRUE, TRUE),
            MCMessage(MCJson(40) \o <<32, 32, NL>>, MCEvents[MCJson(40)], FALSE, FALSE)}

----------------------------------------------------------------------------
(* SV2: what a miner encodes                                                *)

MCFrame(type, payload) == <<0, 0, type, Len(payload) % Base, Len(payload) \div Base, 0>> \o payload
MCU32(n) == <<n % Base, (n \div Base) % Base, (n \div Base^2) % Base, n \div Base^3>>

MCSetup(host, vendor, firmware) ==
  <<2, 2, 0, 2, 0>> \o MCU32(0) \o <<host>> \o [i \in 1 .. host |-> 34] \o <<5, 1, Len(vendor)>>
    \o vendor \o <<1, 34, Len(firmware)>> \o firmware \o <<0>>
MCOpen(request, identity) ==
  MCU32(request) \o <<Len(identity)>> \o identity \o MCU32(7) \o <<1, 2>>
MCSubmit(channel, sequence) ==
  MCU32(channel) \o MCU32(sequence) \o MCU32(3) \o MCU32(50) \o MCU32(60) \o MCU32(1)

MCMeans(type, body) == [type |-> type, body |-> body]
MCSetupMeans(ok, app) == MCMeans(0, [ok |-> ok, app |-> app])
MCOpenMeans(ok, request, identity) ==
  MCMeans(16, [ok |-> ok, request |-> request, identity |-> identity])
MCSubmitMeans(ok, channel, sequence) ==
  MCMeans(26, IF ok THEN [ok |-> TRUE, channel |-> channel, sequence |-> sequence,
                          job |-> 3, nonce |-> 50, ntime |-> 60]
                    ELSE [ok |-> FALSE])

MCCut(payload) == SubSeq(payload, 1, Len(payload) - 1)

MCFrames ==
  {MCMessage(MCFrame(0, MCSetup(200, <<35>>, <<33>>)), MCSetupMeans(TRUE, <<33>>), TRUE, FALSE),
   MCMessage(MCFrame(0, MCSetup(1, <<35>>, << >>)), MCSetupMeans(TRUE, <<35>>), TRUE, FALSE),
   MCMessage(MCFrame(0, MCCut(MCSetup(1, <<35>>, << >>))), MCSetupMeans(FALSE, << >>), FALSE, FALSE),
   MCMessage(MCFrame(16, MCOpen(40, MCIdentity)), MCOpenMeans(TRUE, 40, MCIdentity), TRUE, FALSE),
   MCMessage(MCFrame(16, MCOpen(41, MCRigIdentity)), MCOpenMeans(TRUE, 41, MCRigIdentity), TRUE, FALSE),
   MCMessage(MCFrame(16, MCOpen(42, MCBadIdentity)), MCOpenMeans(TRUE, 42, MCBadIdentity), FALSE, FALSE),
   MCMessage(MCFrame(16, MCCut(MCOpen(43, MCIdentity))), MCOpenMeans(FALSE, 43, << >>), FALSE, FALSE),
   MCMessage(MCFrame(26, MCSubmit(1, 44)), MCSubmitMeans(TRUE, 1, 44), TRUE, FALSE),
   MCMessage(MCFrame(26, MCSubmit(0, 45)), MCSubmitMeans(TRUE, 0, 45), TRUE, FALSE),
   MCMessage(MCFrame(26, MCCut(MCSubmit(1, 46))), MCSubmitMeans(FALSE, 0, 0), FALSE, FALSE),
   MCMessage(MCFrame(5, << >>), MCMeans(5, [ok |-> TRUE]), TRUE, FALSE),
   MCMessage(<<0, 0, 0, 1, 0, 3>>, MCMeans(0, [ok |-> FALSE]), FALSE, FALSE)}

MCMessages(proto) == IF proto = "v1" THEN MCLines ELSE MCFrames

\* A frame arrives in three pieces: its first byte, its last, and the rest; a
\* line in two, its end apart.
MCArrivals(wire) ==
  IF Len(wire) = 1 \/ \E m \in MCFrames : m.bytes = wire THEN {1} ELSE {Len(wire) - 1}

MCFirstChannelIDs == {0, Values(4) - 1}
=============================================================================
