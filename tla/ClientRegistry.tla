--------------------------- MODULE ClientRegistry ---------------------------
(***************************************************************************)
(* The life of a connection (src/gostratum/stratum_listener.go, Disconnect *)
(* in stratum_context.go, OnConnect and OnDisconnect in                    *)
(* src/cryptixstratum/client_handler.go).  Each listener has an accept     *)
(* loop, which registers a connection and starts its reader goroutine, and *)
(* a disconnect listener, which removes the connections its channel names; *)
(* both listeners share one registry and one extranonce counter.           *)
(* Anybody who holds the context may call Disconnect.                      *)
(***************************************************************************)
EXTENDS Integers, Sequences, FiniteSets

CONSTANTS
  Listeners,      \* the v1 and the SV2 listener
  Sniffs,         \* the listeners with a BinaryHandler: they read a byte first
  Clients,        \* connections
  NoClient,       \* not a connection
  ChannelCap,     \* capacity of disconnectChannel, 1024 in the code
  ExtranonceSize, \* extranonceSize in bytes, at most 3 (NewStratumServer clamps it)
  Radix,          \* values of a hex digit, 16 in the code
  DigitsPerByte,  \* 2 in the code
  NonceDigits     \* digits of a nonce, 16 in the code

ASSUME SniffsAssumption == Sniffs \subseteq Listeners
ASSUME ListenersAssumption == "none" \notin Listeners
ASSUME NoClientAssumption == NoClient \notin Clients
ASSUME ChannelCapAssumption == ChannelCap \in Nat
ASSUME ExtranonceAssumption ==
  /\ ExtranonceSize \in 0 .. 3
  /\ Radix \in Nat \ {0, 1}
  /\ DigitsPerByte \in Nat \ {0}
  /\ NonceDigits \in Nat
  /\ NonceDigits > DigitsPerByte * ExtranonceSize
\* True of all powers of a Radix above 0; the provers know no laws of ^.
ASSUME PowersAssumption ==
  /\ Radix ^ (DigitsPerByte * ExtranonceSize) > 0
  /\ Radix ^ (NonceDigits - DigitsPerByte * ExtranonceSize) > 0

VARIABLES
  accept,         \* the accept loop of each listener
  home,           \* the listener that accepted a client, "none" before that
  clientCounter,  \* c.clientCounter
  id,             \* ctx.Id
  nextExtranonce, \* c.nextExtranonce
  extranonce,     \* ctx.Extranonce as a number, -1 while empty
  clients,        \* c.clients: id -> client, as a set of pairs
  disconnecting,  \* the clients with ctx.disconnecting set
  leaving,        \* clients whose Disconnect has set the flag and not yet
                  \*   offered the event to the channel
  channel,        \* disconnectChannel of each listener
  dropped,        \* history: clients whose event found the channel full
  reaper,         \* the disconnect listener's client, NoClient when it waits
  removals,       \* history: calls of OnDisconnect per client
  registered      \* history: the clients in the order they were registered

vars == <<accept, home, clientCounter, id, nextExtranonce, extranonce, clients,
          disconnecting, leaving, channel, dropped, reaper, removals, registered>>

----------------------------------------------------------------------------
\* newClientListener
MaxExtranonce == Radix ^ (DigitsPerByte * ExtranonceSize) - 1
UseExtranonce == ExtranonceSize > 0

Waiting == [pc |-> "accept", client |-> NoClient, extra |-> -1]

\* The contexts somebody else than the accept loop holds: NewBlockAvailable
\* finds a client in the registry, the reader goroutine runs after the accept
\* loop is done with it.
InRegistry(c) == <<id[c], c>> \in clients
ReaderRuns(c) == home[c] # "none" /\ accept[home[c]].client # c

\* Mutant: the reader goroutine is started before the client is registered.
AcceptSpawnsFirst(l, c) ==
  /\ accept[l].pc = "accept"
  /\ home[c] = "none"
  /\ home' = [home EXCEPT ![c] = l]
  /\ accept' = [accept EXCEPT ![l] = [Waiting EXCEPT !.pc = "id", !.client = c]]
  /\ \/ UNCHANGED <<disconnecting, leaving>>
     \/ disconnecting' = disconnecting \union {c} /\ leaving' = leaving \union {c}
  /\ UNCHANGED <<clientCounter, id, nextExtranonce, extranonce, clients,
                 channel, dropped, reaper, removals, registered>>

\* tcpListener accepts; newClient creates the context.
Accept(l, c) ==
  /\ accept[l].pc = "accept"
  /\ home[c] = "none"
  /\ home' = [home EXCEPT ![c] = l]
  /\ accept' = [accept EXCEPT ![l] = [Waiting EXCEPT !.pc = "id", !.client = c]]
  /\ UNCHANGED <<clientCounter, id, nextExtranonce, extranonce, clients,
                 disconnecting, leaving, channel, dropped, reaper, removals,
                 registered>>

\* Mutant: the id is read and written in two steps that others get between.
DrawIdRacy(l) ==
  /\ accept[l].pc = "id"
  /\ \E n \in 0 .. clientCounter :
       /\ n >= clientCounter - 1
       /\ clientCounter' = n + 1
       /\ id' = [id EXCEPT ![accept[l].client] = n + 1]
  /\ accept' = [accept EXCEPT ![l].pc = "register"]
  /\ UNCHANGED <<home, nextExtranonce, extranonce, clients, disconnecting,
                 leaving, channel, dropped, reaper, removals, registered>>

\* OnConnect: the id comes from an atomic counter, outside the lock.
DrawId(l) ==
  /\ accept[l].pc = "id"
  /\ clientCounter' = clientCounter + 1
  /\ id' = [id EXCEPT ![accept[l].client] = clientCounter + 1]
  /\ accept' = [accept EXCEPT ![l].pc = "register"]
  /\ UNCHANGED <<home, nextExtranonce, extranonce, clients, disconnecting,
                 leaving, channel, dropped, reaper, removals, registered>>

\* Mutant: the counter wraps one connection too early.
WrapExtranonceEarly ==
  nextExtranonce' = IF nextExtranonce < MaxExtranonce - 1 THEN nextExtranonce + 1 ELSE 0

\* Mutant: the counter passes its maximum.
WrapExtranonceLate ==
  nextExtranonce' = IF nextExtranonce <= MaxExtranonce THEN nextExtranonce + 1 ELSE 0

\* The counter after a client has taken its value.
WrapExtranonce ==
  nextExtranonce' = IF nextExtranonce < MaxExtranonce THEN nextExtranonce + 1 ELSE 0

\* OnConnect under clientLock.
Register(l) ==
  LET c == accept[l].client
  IN  /\ accept[l].pc = "register"
      /\ IF UseExtranonce
           THEN /\ WrapExtranonce
                /\ accept' = [accept EXCEPT ![l].extra = nextExtranonce,
                                            ![l].pc = "extranonce"]
           ELSE /\ accept' = [accept EXCEPT ![l].pc = "extranonce"]
                /\ UNCHANGED nextExtranonce
      /\ clients' = clients \union {<<id[c], c>>}
      /\ registered' = Append(registered, c)
      /\ UNCHANGED <<home, clientCounter, id, extranonce, disconnecting,
                     leaving, channel, dropped, reaper, removals>>

\* The rest of OnConnect.  A listener without BinaryHandler is then done and
\* starts the reader goroutine.
SetExtranonce(l) ==
  /\ accept[l].pc = "extranonce"
  /\ extranonce' = [extranonce EXCEPT ![accept[l].client] = accept[l].extra]
  /\ accept' = [accept EXCEPT ![l] = IF l \in Sniffs
                                       THEN [@ EXCEPT !.pc = "sniff"]
                                       ELSE Waiting]
  /\ UNCHANGED <<home, clientCounter, id, nextExtranonce, clients,
                 disconnecting, leaving, channel, dropped, reaper, removals,
                 registered>>

\* sniffConnectionPrefix: the first byte arrives, or its deadline passes and
\* the connection ends without a reader goroutine.  The accept loop waits.
SniffDone(l) ==
  /\ accept[l].pc = "sniff"
  /\ accept' = [accept EXCEPT ![l] = Waiting]
  /\ UNCHANGED <<home, clientCounter, id, nextExtranonce, extranonce, clients,
                 disconnecting, leaving, channel, dropped, reaper, removals,
                 registered>>

SetFlag(c) ==
  /\ disconnecting' = disconnecting \union {c}
  /\ leaving' = IF c \in disconnecting THEN leaving ELSE leaving \union {c}

SniffFails(l) ==
  /\ accept[l].pc = "sniff"
  /\ accept' = [accept EXCEPT ![l] = Waiting]
  /\ SetFlag(accept[l].client)
  /\ UNCHANGED <<home, clientCounter, id, nextExtranonce, extranonce, clients,
                 channel, dropped, reaper, removals, registered>>

\* parseV1SubmitNonce, for a nonce of n digits with the value v: what is short
\* enough to be an extranonce2 goes below the client's extranonce.
Extranonce2Len == NonceDigits - DigitsPerByte * ExtranonceSize
parseV1SubmitNonce(c, n, v) ==
  IF extranonce[c] # -1 /\ n <= Extranonce2Len
    THEN extranonce[c] * Radix ^ Extranonce2Len + v
    ELSE v

----------------------------------------------------------------------------
\* Mutant: the flag is read and then set, so that a second caller still passes.
DisconnectUnguarded(c) ==
  /\ InRegistry(c) \/ ReaderRuns(c)
  /\ disconnecting' = disconnecting \union {c}
  /\ leaving' = leaving \union {c}
  /\ UNCHANGED <<accept, home, clientCounter, id, nextExtranonce, extranonce,
                 clients, channel, dropped, reaper, removals, registered>>

\* Disconnect: the flag is set by compare-and-swap; the second caller returns.
Disconnect(c) ==
  /\ InRegistry(c) \/ ReaderRuns(c)
  /\ c \notin disconnecting
  /\ SetFlag(c)
  /\ UNCHANGED <<accept, home, clientCounter, id, nextExtranonce, extranonce,
                 clients, channel, dropped, reaper, removals, registered>>

\* The event is offered to the channel; when that is full it is dropped.
OfferEvent(c) ==
  LET l == home[c]
  IN  /\ c \in leaving
      /\ leaving' = leaving \ {c}
      /\ IF Len(channel[l]) < ChannelCap
           THEN /\ channel' = [channel EXCEPT ![l] = Append(@, c)]
                /\ UNCHANGED dropped
           ELSE /\ dropped' = dropped \union {c}
                /\ UNCHANGED channel
      /\ UNCHANGED <<accept, home, clientCounter, id, nextExtranonce, extranonce,
                     clients, disconnecting, reaper, removals, registered>>

\* disconnectListener takes the next event.
TakeEvent(l) ==
  /\ reaper[l] = NoClient
  /\ channel[l] # << >>
  /\ reaper' = [reaper EXCEPT ![l] = Head(channel[l])]
  /\ channel' = [channel EXCEPT ![l] = Tail(@)]
  /\ UNCHANGED <<accept, home, clientCounter, id, nextExtranonce, extranonce,
                 clients, disconnecting, leaving, dropped, removals, registered>>

\* OnDisconnect deletes whatever the id names.
OnDisconnect(l) ==
  LET c == reaper[l]
  IN  /\ c # NoClient
      /\ clients' = {p \in clients : p[1] # id[c]}
      /\ removals' = [removals EXCEPT ![c] = @ + 1]
      /\ reaper' = [reaper EXCEPT ![l] = NoClient]
      /\ UNCHANGED <<accept, home, clientCounter, id, nextExtranonce, extranonce,
                     disconnecting, leaving, channel, dropped, registered>>

Init ==
  /\ accept = [l \in Listeners |-> Waiting]
  /\ home = [c \in Clients |-> "none"]
  /\ clientCounter = 0
  /\ id = [c \in Clients |-> 0]
  /\ nextExtranonce = 0
  /\ extranonce = [c \in Clients |-> -1]
  /\ clients = {}
  /\ disconnecting = {}
  /\ leaving = {}
  /\ channel = [l \in Listeners |-> << >>]
  /\ dropped = {}
  /\ reaper = [l \in Listeners |-> NoClient]
  /\ removals = [c \in Clients |-> 0]
  /\ registered = << >>

ListenerStep(l) == DrawId(l) \/ Register(l) \/ SetExtranonce(l) \/ SniffDone(l) \/ SniffFails(l)

ReaperStep(l) == TakeEvent(l) \/ OnDisconnect(l)

Next ==
  \/ \E l \in Listeners : ListenerStep(l) \/ ReaperStep(l)
  \/ \E l \in Listeners, c \in Clients : Accept(l, c)
  \/ \E c \in Clients : Disconnect(c) \/ OfferEvent(c)

Spec == Init /\ [][Next]_vars

\* The goroutines are scheduled and the deadline of the first byte ends sniffing;
\* nothing makes a connection arrive or end.
FairSpec ==
  /\ Spec
  /\ \A l \in Listeners : WF_vars(ListenerStep(l)) /\ WF_vars(ReaperStep(l))
  /\ \A c \in Clients : WF_vars(OfferEvent(c))

----------------------------------------------------------------------------
(* Properties                                                               *)

AcceptPcs == {"accept", "id", "register", "extranonce", "sniff"}

\* Every variable stays in its type; the channel keeps its capacity.
TypeOK ==
  /\ accept \in [Listeners -> [pc : AcceptPcs, client : Clients \union {NoClient},
                               extra : Nat \union {-1}]]
  /\ home \in [Clients -> Listeners \union {"none"}]
  /\ clientCounter \in Nat
  /\ id \in [Clients -> Nat]
  /\ nextExtranonce \in 0 .. MaxExtranonce
  /\ extranonce \in [Clients -> -1 .. MaxExtranonce]
  /\ clients \subseteq Nat \X Clients
  /\ disconnecting \subseteq Clients
  /\ leaving \subseteq disconnecting
  /\ \A l \in Listeners : channel[l] \in Seq(Clients) /\ Len(channel[l]) <= ChannelCap
  /\ dropped \subseteq disconnecting
  /\ reaper \in [Listeners -> Clients \union {NoClient}]
  /\ removals \in [Clients -> Nat]
  /\ registered \in Seq(Clients)

Queued(c) == \E l \in Listeners :
               reaper[l] = c \/ \E i \in 1 .. Len(channel[l]) : channel[l][i] = c

\* OnDisconnect never removes another client's entry: a client that was
\* registered and is not disconnecting is in the registry, so that
\* NewBlockAvailable finds it.
LiveClientsAreRegistered ==
  \A i \in 1 .. Len(registered) :
    registered[i] \notin disconnecting => InRegistry(registered[i])

\* However many goroutines call Disconnect, a client is removed once.
RemovedOnce ==
  \A c \in Clients :
    removals[c] + (IF Queued(c) THEN 1 ELSE 0) + (IF c \in dropped THEN 1 ELSE 0)
      + (IF c \in leaving THEN 1 ELSE 0) = IF c \in disconnecting THEN 1 ELSE 0

\* The number the n-th registered client was given, for those that have it.
Assigned == {i \in 1 .. Len(registered) : extranonce[registered[i]] # -1}

\* What a client can search by sending extranonce2 only.
NonceSpace(c) ==
  {parseV1SubmitNonce(c, Extranonce2Len, v) : v \in 0 .. Radix ^ Extranonce2Len - 1}

\* Miners do not duplicate work: as long as fewer than MaxExtranonce others were
\* registered between two clients, whichever listeners they came by, no nonce
\* can be reached by both.
NonceSpacesDisjoint ==
  \A i, j \in Assigned :
    i < j /\ j - i <= MaxExtranonce
      => NonceSpace(registered[i]) \intersect NonceSpace(registered[j]) = {}

\* A disconnected client is removed from the registry in the end, unless the
\* channel was full.
DisconnectedAreRemoved ==
  \A c \in Clients : c \in disconnecting ~> (~InRegistry(c) \/ c \in dropped)
=============================================================================
