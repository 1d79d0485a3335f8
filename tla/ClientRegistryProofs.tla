------------------------ MODULE ClientRegistryProofs ------------------------
(***************************************************************************)
(* Every client that is not disconnecting is in the registry, a client is  *)
(* removed once, and the nonces of clients registered close to each other  *)
(* are disjoint, for any number of listeners and connections, any capacity *)
(* of the disconnect channel and any size of the extranonce.               *)
(***************************************************************************)
EXTENDS ClientRegistry, TLAPS

\* An accept loop works on a connection that is its own.
AcceptInv ==
  \A l \in Listeners :
    /\ accept[l].pc = "accept" <=> accept[l].client = NoClient
    /\ accept[l].client # NoClient => home[accept[l].client] = l

\* A client is registered once, by the accept loop that has drawn its id.
RegisteredInv ==
  /\ \A i, j \in 1 .. Len(registered) : registered[i] = registered[j] => i = j
  /\ \A i \in 1 .. Len(registered) :
       home[registered[i]] # "none" /\ id[registered[i]] # 0
  /\ \A l \in Listeners :
       accept[l].pc \in {"id", "register"} =>
         \A i \in 1 .. Len(registered) : registered[i] # accept[l].client

\* No two clients have the same id.
IdInv ==
  /\ \A c \in Clients : id[c] <= clientCounter
  /\ \A c, d \in Clients : id[c] = id[d] /\ id[c] # 0 => c = d
  /\ \A l \in Listeners : accept[l].pc = "register" => id[accept[l].client] # 0

\* e is the number of the client that is registered after k others: k modulo
\* the number of extranonces.
Numbered(k, e) == \E q \in Nat : k = (MaxExtranonce + 1) * q + e

\* The extranonces are handed out in the order of registration, all of them
\* before one is used again.
NumberInv ==
  /\ UseExtranonce => Numbered(Len(registered), nextExtranonce)
  /\ ~UseExtranonce => \A c \in Clients : extranonce[c] = -1
  /\ \A c \in Clients : home[c] = "none" => extranonce[c] = -1
  /\ \A l \in Listeners :
       accept[l].pc \in {"id", "register"} =>
         extranonce[accept[l].client] = -1 /\ accept[l].extra = -1
  /\ \A l \in Listeners :
       accept[l].pc = "extranonce" =>
         /\ accept[l].extra \in -1 .. MaxExtranonce
         /\ ~UseExtranonce => accept[l].extra = -1
         /\ UseExtranonce =>
              \E i \in 1 .. Len(registered) :
                registered[i] = accept[l].client /\ Numbered(i - 1, accept[l].extra)
  /\ \A i \in Assigned : Numbered(i - 1, extranonce[registered[i]])

\* The event of a client is in one place, that of its own listener.
QueueInv ==
  /\ channel \in [Listeners -> Seq(Clients)]
  /\ \A c \in disconnecting : home[c] # "none"
  /\ \A p \in clients : home[p[2]] # "none"
  /\ \A l \in Listeners :
       /\ reaper[l] # NoClient => home[reaper[l]] = l
       /\ \A i \in 1 .. Len(channel[l]) :
            home[channel[l][i]] = l /\ channel[l][i] # reaper[l]
       /\ \A i, j \in 1 .. Len(channel[l]) : channel[l][i] = channel[l][j] => i = j

\* The inductive invariant.
RegistryInv ==
  /\ TypeOK
  /\ AcceptInv
  /\ RegisteredInv
  /\ IdInv
  /\ NumberInv
  /\ QueueInv
  /\ RemovedOnce
  /\ LiveClientsAreRegistered

----------------------------------------------------------------------------
(* Arithmetic                                                               *)

\* The number of extranonces, and of the values of an extranonce2.
LEMMA PowersOfRadix ==
  /\ MaxExtranonce \in Nat
  /\ Radix ^ Extranonce2Len \in Nat \ {0}
<1>1. DigitsPerByte * ExtranonceSize \in Nat /\ Extranonce2Len \in Nat /\ Radix \in Nat \ {0}
  BY ExtranonceAssumption DEF Extranonce2Len
<1>2. Radix ^ (DigitsPerByte * ExtranonceSize) \in Int /\ Radix ^ Extranonce2Len \in Int
  BY <1>1
<1> QED BY <1>2, PowersAssumption DEF MaxExtranonce, Extranonce2Len

\* The counter after the k-th client, which is WrapExtranonce.
LEMMA NumberedNext ==
  ASSUME NEW k \in Nat, NEW e \in 0 .. MaxExtranonce, Numbered(k, e)
  PROVE  Numbered(k + 1, IF e < MaxExtranonce THEN e + 1 ELSE 0)
<1>1. PICK q \in Nat : k = (MaxExtranonce + 1) * q + e
  BY DEF Numbered
<1>2. MaxExtranonce \in Nat
  BY PowersOfRadix
<1>3. CASE e < MaxExtranonce
  <2>1. k + 1 = (MaxExtranonce + 1) * q + (e + 1)
    BY <1>1, <1>2
  <2> QED BY <1>3, <2>1 DEF Numbered
<1>4. CASE ~(e < MaxExtranonce)
  <2>1. e = MaxExtranonce
    BY <1>2, <1>4
  <2>2. k + 1 = (MaxExtranonce + 1) * (q + 1) + 0 /\ q + 1 \in Nat
    BY <1>1, <1>2, <2>1
  <2> QED BY <1>4, <2>2 DEF Numbered
<1> QED BY <1>3, <1>4

\* Two clients with at most MaxExtranonce registrations from one to the other
\* have different numbers.
LEMMA NumberedApart ==
  ASSUME NEW k \in Nat, NEW m \in Nat, k < m, m - k <= MaxExtranonce,
         NEW e \in Nat, Numbered(k, e), Numbered(m, e)
  PROVE  FALSE
<1> DEFINE N == MaxExtranonce + 1
<1>1. N \in Nat \ {0} /\ m - k < N
  BY PowersOfRadix
<1>2. PICK q \in Nat : k = N * q + e
  BY DEF Numbered
<1>3. PICK p \in Nat : m = N * p + e
  BY DEF Numbered
<1> HIDE DEF N
<1>4. CASE p <= q
  <2>1. N * p <= N * q
    BY <1>1, <1>4
  <2> QED BY <1>1, <1>2, <1>3, <2>1
<1>5. CASE q < p
  <2>1. N * q + N <= N * p
    BY <1>1, <1>5
  <2> QED BY <1>1, <1>2, <1>3, <2>1
<1> QED BY <1>4, <1>5

\* Numbers in a positional system: different high digits, different numbers.
LEMMA PositionsApart ==
  ASSUME NEW P \in Nat \ {0}, NEW a \in Nat, NEW b \in Nat, a # b,
         NEW v \in 0 .. P - 1, NEW w \in 0 .. P - 1
  PROVE  a * P + v # b * P + w
<1>1. CASE a < b
  BY <1>1
<1>2. CASE b < a
  BY <1>2
<1> QED BY <1>1, <1>2

\* Clients with different extranonces search different nonces.
LEMMA NonceSpacesApart ==
  ASSUME NEW c \in Clients, NEW d \in Clients,
         extranonce[c] \in Nat, extranonce[d] \in Nat, extranonce[c] # extranonce[d]
  PROVE  NonceSpace(c) \intersect NonceSpace(d) = {}
<1> DEFINE P == Radix ^ Extranonce2Len
<1>1. P \in Nat \ {0} /\ Extranonce2Len \in Int
  BY PowersOfRadix, ExtranonceAssumption DEF Extranonce2Len
<1>2. extranonce[c] # -1 /\ extranonce[d] # -1 /\ Extranonce2Len <= Extranonce2Len
  BY <1>1
<1>3. NonceSpace(c) = {extranonce[c] * P + v : v \in 0 .. P - 1}
  BY <1>2 DEF NonceSpace, parseV1SubmitNonce
<1>4. NonceSpace(d) = {extranonce[d] * P + v : v \in 0 .. P - 1}
  BY <1>2 DEF NonceSpace, parseV1SubmitNonce
<1> HIDE DEF P
<1> SUFFICES ASSUME NEW x \in NonceSpace(c), x \in NonceSpace(d) PROVE FALSE
  OBVIOUS
<1>5. PICK v \in 0 .. P - 1 : x = extranonce[c] * P + v
  BY <1>3
<1>6. PICK w \in 0 .. P - 1 : x = extranonce[d] * P + w
  BY <1>4
<1> QED BY <1>1, <1>5, <1>6, PositionsApart

----------------------------------------------------------------------------
(* The steps                                                                *)

\* At the start no connection exists and both loops of a listener wait.
LEMMA RegistryInvInit == Init => RegistryInv
<1> SUFFICES ASSUME Init PROVE RegistryInv
  OBVIOUS
<1>0. MaxExtranonce \in Nat
  BY PowersOfRadix
<1>1. TypeOK
  BY <1>0, ChannelCapAssumption DEF Init, TypeOK, Waiting, AcceptPcs
<1>2. AcceptInv
  BY DEF Init, AcceptInv, Waiting
<1>3. RegisteredInv /\ LiveClientsAreRegistered
  BY DEF Init, RegisteredInv, LiveClientsAreRegistered, Waiting
<1>4. IdInv
  BY DEF Init, IdInv, Waiting
<1>5. NumberInv
  <2>1. Len(registered) = 0 /\ nextExtranonce = 0 /\ 0 = (MaxExtranonce + 1) * 0 + 0
    BY <1>0 DEF Init
  <2>2. Numbered(Len(registered), nextExtranonce)
    BY <2>1 DEF Numbered
  <2>3. Assigned = {}
    BY DEF Init, Assigned
  <2> QED BY <2>2, <2>3 DEF Init, NumberInv, Waiting
<1>6. QueueInv
  BY DEF Init, QueueInv
<1>7. RemovedOnce
  BY NoClientAssumption DEF Init, RemovedOnce, Queued
<1> QED BY <1>1, <1>2, <1>3, <1>4, <1>5, <1>6, <1>7 DEF RegistryInv

\* The steps of the accept loops leave the queues of events alone.
LEMMA QueueRests ==
  ASSUME TypeOK, QueueInv, UNCHANGED <<channel, reaper>>,
         \A d \in Clients : home[d] # "none" => home'[d] = home[d],
         \A d \in disconnecting' : home'[d] # "none",
         \A p \in clients' : home'[p[2]] # "none"
  PROVE  QueueInv'
<1>1. \A k \in Listeners : k # "none"
  BY ListenersAssumption
<1>2. \A k \in Listeners : \A i \in 1 .. Len(channel[k]) : channel[k][i] \in Clients
  BY DEF QueueInv
<1>3. \A k \in Listeners : \A i \in 1 .. Len(channel[k]) :
        home'[channel[k][i]] = k /\ channel[k][i] # reaper[k]
  BY <1>1, <1>2 DEF QueueInv
<1>4. \A k \in Listeners :
        reaper[k] # NoClient => reaper[k] \in Clients /\ home[reaper[k]] = k
  BY DEF QueueInv, TypeOK
<1>5. \A k \in Listeners : reaper[k] # NoClient => home'[reaper[k]] = k
  BY <1>1, <1>4
<1>6. \A k \in Listeners : \A i, j \in 1 .. Len(channel[k]) :
        channel[k][i] = channel[k][j] => i = j
  BY DEF QueueInv
<1>7. channel \in [Listeners -> Seq(Clients)]
  BY DEF QueueInv
<1> QED BY <1>3, <1>5, <1>6, <1>7 DEF QueueInv

\* A connection is accepted: nobody has heard of it before.
LEMMA AcceptKeepsInv ==
  ASSUME RegistryInv, NEW l \in Listeners, NEW c \in Clients, Accept(l, c)
  PROVE  RegistryInv'
<1>1. TypeOK /\ AcceptInv /\ RegisteredInv /\ IdInv /\ NumberInv /\ QueueInv /\ RemovedOnce
        /\ LiveClientsAreRegistered
  BY DEF RegistryInv
<1>2. /\ accept[l].pc = "accept" /\ home[c] = "none"
      /\ accept'[l] = [pc |-> "id", client |-> c, extra |-> -1]
      /\ \A k \in Listeners : k # l => accept'[k] = accept[k]
      /\ home'[c] = l /\ \A d \in Clients : d # c => home'[d] = home[d]
      /\ UNCHANGED <<clientCounter, id, nextExtranonce, extranonce, clients,
                     disconnecting, leaving, channel, dropped, reaper, removals, registered>>
  BY <1>1 DEF TypeOK, Accept, Waiting
<1>3. /\ accept'[l].pc = "id" /\ accept'[l].client = c /\ accept'[l].extra = -1
      /\ c # NoClient /\ l # "none"
      /\ \A k \in Listeners : k # "none"
  BY <1>2, NoClientAssumption, ListenersAssumption
<1>4. TypeOK'
  <2>1. accept' \in [Listeners -> [pc : AcceptPcs, client : Clients \union {NoClient},
                               extra : Nat \union {-1}]]
    BY <1>1 DEF TypeOK, Accept, Waiting, AcceptPcs
  <2>2. home' \in [Clients -> Listeners \union {"none"}]
    BY <1>1 DEF TypeOK, Accept
  <2> QED BY <1>1, <1>2, <2>1, <2>2 DEF TypeOK
<1>5. AcceptInv'
  <2>1. \A k \in Listeners : accept[k].client # NoClient => accept[k].client \in Clients
                               /\ accept[k].client # c
    BY <1>1, <1>2, <1>3 DEF TypeOK, AcceptInv
  <2>2. \A k \in Listeners : /\ accept[k].pc = "accept" <=> accept[k].client = NoClient
                             /\ accept[k].client # NoClient => home[accept[k].client] = k
    BY <1>1 DEF AcceptInv
  <2>3. ASSUME NEW k \in Listeners
        PROVE  /\ accept'[k].pc = "accept" <=> accept'[k].client = NoClient
               /\ accept'[k].client # NoClient => home'[accept'[k].client] = k
    <3>1. CASE k = l
      BY <1>2, <1>3, <3>1
    <3>2. CASE k # l
      BY <1>2, <2>1, <2>2, <3>2
    <3> QED BY <3>1, <3>2
  <2> QED BY <2>3 DEF AcceptInv
<1>6. \A i \in 1 .. Len(registered) : registered[i] \in Clients /\ registered[i] # c
  <2>1. \A i \in 1 .. Len(registered) : registered[i] \in Clients
    BY <1>1 DEF TypeOK
  <2>2. \A i \in 1 .. Len(registered) : home[registered[i]] # "none"
    BY <1>1 DEF RegisteredInv
  <2> QED BY <1>2, <2>1, <2>2
<1>7. RegisteredInv'
  BY <1>1, <1>2, <1>3, <1>6 DEF RegisteredInv
<1>8. IdInv'
  BY <1>1, <1>2, <1>3 DEF IdInv
<1>9. NumberInv'
  <2>1. Assigned' = Assigned
    BY <1>2 DEF Assigned
  <2>2. \A i \in Assigned : Numbered(i - 1, extranonce[registered[i]])
    BY <1>1 DEF NumberInv
  <2>3. /\ UseExtranonce => Numbered(Len(registered), nextExtranonce)
        /\ ~UseExtranonce => \A d \in Clients : extranonce[d] = -1
        /\ \A d \in Clients : home[d] = "none" => extranonce[d] = -1
        /\ extranonce[c] = -1
    BY <1>1, <1>2 DEF NumberInv
  <2>4. \A d \in Clients : home'[d] = "none" => extranonce[d] = -1
    BY <1>2, <1>3, <2>3
  <2>5. \A k \in Listeners :
          accept'[k].pc \in {"id", "register"} =>
            extranonce[accept'[k].client] = -1 /\ accept'[k].extra = -1
    BY <1>1, <1>2, <1>3, <2>3 DEF NumberInv
  <2>6. \A k \in Listeners :
          accept'[k].pc = "extranonce" =>
            /\ accept'[k].extra \in -1 .. MaxExtranonce
            /\ ~UseExtranonce => accept'[k].extra = -1
            /\ UseExtranonce =>
                 \E i \in 1 .. Len(registered) :
                   registered[i] = accept'[k].client /\ Numbered(i - 1, accept'[k].extra)
    BY <1>1, <1>2, <1>3 DEF NumberInv
  <2> QED BY <1>2, <2>1, <2>2, <2>3, <2>4, <2>5, <2>6 DEF NumberInv
<1>10. QueueInv'
  <2>1. \A d \in Clients : home[d] # "none" => home'[d] = home[d]
    BY <1>2
  <2>2. \A d \in disconnecting : d \in Clients /\ home[d] # "none"
    BY <1>1 DEF QueueInv, TypeOK
  <2>3. \A p \in clients : p[2] \in Clients /\ home[p[2]] # "none"
    BY <1>1 DEF QueueInv, TypeOK
  <2>4. (\A d \in disconnecting' : home'[d] # "none") /\ (\A p \in clients' : home'[p[2]] # "none")
    BY <1>2, <2>1, <2>2, <2>3
  <2> QED BY <1>1, <1>2, <2>1, <2>4, QueueRests
<1>11. RemovedOnce' /\ LiveClientsAreRegistered'
  BY <1>1, <1>2 DEF RemovedOnce, LiveClientsAreRegistered, Queued, InRegistry
<1> QED BY <1>4, <1>5, <1>7, <1>8, <1>9, <1>10, <1>11 DEF RegistryInv
\* An id is drawn: it is above all others.
LEMMA DrawIdKeepsInv ==
  ASSUME RegistryInv, NEW l \in Listeners, DrawId(l)
  PROVE  RegistryInv'
<1> DEFINE c == accept[l].client
<1>1. TypeOK /\ AcceptInv /\ RegisteredInv /\ IdInv /\ NumberInv /\ QueueInv /\ RemovedOnce
        /\ LiveClientsAreRegistered
  BY DEF RegistryInv
<1>2. c \in Clients
  BY <1>1 DEF TypeOK, AcceptInv, DrawId
<1>3. /\ accept[l].pc = "id"
      /\ accept'[l].pc = "register" /\ accept'[l].client = c
      /\ accept'[l].extra = accept[l].extra
      /\ \A k \in Listeners : k # l => accept'[k] = accept[k]
      /\ id'[c] = clientCounter + 1 /\ \A d \in Clients : d # c => id'[d] = id[d]
      /\ clientCounter' = clientCounter + 1
      /\ UNCHANGED <<home, nextExtranonce, extranonce, clients, disconnecting,
                     leaving, channel, dropped, reaper, removals, registered>>
  BY <1>1, <1>2 DEF TypeOK, DrawId
<1>4. TypeOK'
  <2>1. accept' \in [Listeners -> [pc : AcceptPcs, client : Clients \union {NoClient},
                               extra : Nat \union {-1}]]
    <3>1. /\ accept \in [Listeners -> [pc : AcceptPcs, client : Clients \union {NoClient},
                                   extra : Nat \union {-1}]]
          /\ accept' = [accept EXCEPT ![l].pc = "register"] /\ "register" \in AcceptPcs
      BY <1>1 DEF TypeOK, DrawId, AcceptPcs
    <3> QED BY <3>1
  <2>2. clientCounter + 1 \in Nat /\ clientCounter' = clientCounter + 1
    BY <1>1 DEF TypeOK, DrawId
  <2>3. id' \in [Clients -> Nat]
    BY <1>1, <2>2 DEF TypeOK, DrawId
  <2>4. \A k \in Listeners : channel'[k] \in Seq(Clients) /\ Len(channel'[k]) <= ChannelCap
    BY <1>1, <1>3 DEF TypeOK
  <2> QED BY <1>1, <1>3, <2>1, <2>2, <2>3, <2>4 DEF TypeOK
<1> HIDE DEF c
<1>5. AcceptInv'
  <2>1. ASSUME NEW k \in Listeners
        PROVE  /\ accept'[k].pc = "accept" <=> accept'[k].client = NoClient
               /\ accept'[k].client # NoClient => home[accept'[k].client] = k
    <3>1. /\ accept[k].pc = "accept" <=> accept[k].client = NoClient
          /\ accept[k].client # NoClient => home[accept[k].client] = k
      BY <1>1 DEF AcceptInv
    <3>2. CASE k = l
      BY <1>3, <3>1, <3>2 DEF c
    <3>3. CASE k # l
      BY <1>3, <3>1, <3>3
    <3> QED BY <3>2, <3>3
  <2> QED BY <1>3, <2>1 DEF AcceptInv
<1>6. \A i \in 1 .. Len(registered) : registered[i] \in Clients /\ registered[i] # c
  BY <1>1, <1>3 DEF RegisteredInv, TypeOK, c
<1>7. RegisteredInv'
  BY <1>1, <1>3, <1>6 DEF RegisteredInv, c
<1>8. IdInv'
  <2>1. clientCounter \in Nat /\ \A d \in Clients : id[d] \in Nat /\ id[d] <= clientCounter
    BY <1>1 DEF TypeOK, IdInv
  <2>2. \A d \in Clients : id'[d] <= clientCounter'
    BY <1>3, <2>1
  <2>3. \A d, e \in Clients : id'[d] = id'[e] /\ id'[d] # 0 => d = e
    BY <1>1, <1>3, <2>1 DEF IdInv
  <2>4. \A k \in Listeners : accept'[k].pc = "register" => id'[accept'[k].client] # 0
    <3>1. id'[c] # 0
      BY <1>3, <2>1
    <3>2. \A k \in Listeners : accept[k].pc = "register" => accept[k].client \in Clients
      BY <1>1 DEF TypeOK, AcceptInv
    <3>3. \A k \in Listeners :
            k # l /\ accept[k].pc = "register" => id'[accept[k].client] # 0
      BY <1>1, <1>3, <3>1, <3>2 DEF IdInv
    <3> QED BY <1>3, <3>1, <3>3
  <2> QED BY <2>2, <2>3, <2>4 DEF IdInv
<1>9. NumberInv'
  <2>1. Assigned' = Assigned
    BY <1>3 DEF Assigned
  <2>2. \A i \in Assigned : Numbered(i - 1, extranonce[registered[i]])
    BY <1>1 DEF NumberInv
  <2>3. /\ UseExtranonce => Numbered(Len(registered), nextExtranonce)
        /\ ~UseExtranonce => \A d \in Clients : extranonce[d] = -1
        /\ \A d \in Clients : home[d] = "none" => extranonce[d] = -1
    BY <1>1 DEF NumberInv
  <2>4. \A k \in Listeners :
          accept'[k].pc \in {"id", "register"} =>
            extranonce[accept'[k].client] = -1 /\ accept'[k].extra = -1
    BY <1>1, <1>3 DEF NumberInv, c
  <2>5. \A k \in Listeners :
          accept'[k].pc = "extranonce" =>
            /\ accept'[k].extra \in -1 .. MaxExtranonce
            /\ ~UseExtranonce => accept'[k].extra = -1
            /\ UseExtranonce =>
                 \E i \in 1 .. Len(registered) :
                   registered[i] = accept'[k].client /\ Numbered(i - 1, accept'[k].extra)
    BY <1>1, <1>3 DEF NumberInv
  <2> QED BY <1>3, <2>1, <2>2, <2>3, <2>4, <2>5 DEF NumberInv
<1>10. QueueInv'
  <2>1. (\A d \in disconnecting' : home'[d] # "none") /\ (\A p \in clients' : home'[p[2]] # "none")
    BY <1>1, <1>3 DEF QueueInv
  <2> QED BY <1>1, <1>3, <2>1, QueueRests
<1>11. RemovedOnce'
  BY <1>1, <1>3 DEF RemovedOnce, Queued
<1>12. LiveClientsAreRegistered'
  BY <1>1, <1>3, <1>6 DEF LiveClientsAreRegistered, InRegistry
<1> QED BY <1>4, <1>5, <1>7, <1>8, <1>9, <1>10, <1>11, <1>12 DEF RegistryInv
\* Under clientLock a client enters the registry and takes the next number.
LEMMA RegisterKeepsInv ==
  ASSUME RegistryInv, NEW l \in Listeners, Register(l)
  PROVE  RegistryInv'
<1> DEFINE c == accept[l].client
           n == Len(registered)
<1>1. TypeOK /\ AcceptInv /\ RegisteredInv /\ IdInv /\ NumberInv /\ QueueInv /\ RemovedOnce
        /\ LiveClientsAreRegistered
  BY DEF RegistryInv
<1>2. c \in Clients /\ MaxExtranonce \in Nat
  BY <1>1, PowersOfRadix DEF TypeOK, AcceptInv, Register
<1>3. /\ accept[l].pc = "register"
      /\ accept'[l].pc = "extranonce" /\ accept'[l].client = c
      /\ UseExtranonce => accept'[l].extra = nextExtranonce /\ WrapExtranonce
      /\ ~UseExtranonce => accept'[l].extra = accept[l].extra /\ UNCHANGED nextExtranonce
      /\ \A k \in Listeners : k # l => accept'[k] = accept[k]
  BY <1>1 DEF TypeOK, Register
<1>4. /\ clients' = clients \union {<<id[c], c>>}
      /\ registered' = Append(registered, c)
      /\ UNCHANGED <<home, clientCounter, id, extranonce, disconnecting,
                     leaving, channel, dropped, reaper, removals>>
  BY DEF Register
<1>5. registered \in Seq(Clients) /\ id[c] \in Nat
  BY <1>1, <1>2 DEF TypeOK
<1>6. nextExtranonce \in 0 .. MaxExtranonce /\ nextExtranonce' \in 0 .. MaxExtranonce
  BY <1>1, <1>2, <1>3 DEF TypeOK, WrapExtranonce
<1>7. TypeOK'
  <2>1. accept' \in [Listeners -> [pc : AcceptPcs, client : Clients \union {NoClient},
                               extra : Nat \union {-1}]]
    <3>1. nextExtranonce \in Nat
      BY <1>2, <1>6
    <3>2. accept' = [accept EXCEPT ![l].extra = nextExtranonce, ![l].pc = "extranonce"]
            \/ accept' = [accept EXCEPT ![l].pc = "extranonce"]
      BY DEF Register
    <3>3. accept \in [Listeners -> [pc : AcceptPcs, client : Clients \union {NoClient},
                                   extra : Nat \union {-1}]]
      BY <1>1 DEF TypeOK
    <3>4. "extranonce" \in AcceptPcs /\ nextExtranonce \in Nat \union {-1}
      BY <3>1 DEF AcceptPcs
    <3>5. CASE accept' = [accept EXCEPT ![l].extra = nextExtranonce, ![l].pc = "extranonce"]
      BY <3>3, <3>4, <3>5
    <3>6. CASE accept' = [accept EXCEPT ![l].pc = "extranonce"]
      BY <3>3, <3>4, <3>6
    <3> QED BY <3>2, <3>5, <3>6
  <2>2. clients' \subseteq Nat \X Clients
    BY <1>1, <1>2, <1>4, <1>5 DEF TypeOK
  <2>3. registered' \in Seq(Clients)
    BY <1>2, <1>4, <1>5
  <2> QED BY <1>1, <1>4, <1>6, <2>1, <2>2, <2>3 DEF TypeOK
<1>8. /\ n \in Nat /\ Len(registered') = n + 1 /\ registered'[n + 1] = c
      /\ \A i \in 1 .. n : registered'[i] = registered[i] /\ registered[i] \in Clients
  BY <1>2, <1>4, <1>5
<1>9. home[c] = l /\ l # "none" /\ id[c] # 0 /\ extranonce[c] = -1
  BY <1>1, <1>2, <1>3, NoClientAssumption, ListenersAssumption
     DEF AcceptInv, IdInv, NumberInv
<1>10. /\ \A i \in 1 .. n : registered[i] # c
       /\ \A i \in 1 .. Len(registered') : i \in 1 .. n \/ i = n + 1
       /\ \A i \in 1 .. n : i \in 1 .. Len(registered')
       /\ n + 1 \in 1 .. Len(registered')
  BY <1>1, <1>3, <1>8 DEF RegisteredInv
<1>11. \A k \in Listeners :
         k # l /\ accept[k].client # NoClient => accept[k].client # c
  BY <1>1, <1>9 DEF AcceptInv
<1>12. AcceptInv'
  BY <1>1, <1>3, <1>4 DEF AcceptInv
<1> HIDE DEF n, c
<1>13. RegisteredInv'
  <2>1. \A i, j \in 1 .. Len(registered') : registered'[i] = registered'[j] => i = j
    BY <1>1, <1>8, <1>10 DEF RegisteredInv, n
  <2>2. \A i \in 1 .. Len(registered') :
          home[registered'[i]] # "none" /\ id[registered'[i]] # 0
    BY <1>1, <1>8, <1>9, <1>10 DEF RegisteredInv, n
  <2>3. \A k \in Listeners :
          accept'[k].pc \in {"id", "register"} =>
            \A i \in 1 .. Len(registered') : registered'[i] # accept'[k].client
    <3> SUFFICES ASSUME NEW k \in Listeners, accept'[k].pc \in {"id", "register"},
                        NEW i \in 1 .. Len(registered')
                 PROVE  registered'[i] # accept'[k].client
      OBVIOUS
    <3>1. k # l /\ accept'[k] = accept[k]
      BY <1>3
    <3>2. accept[k].client # c /\ \A j \in 1 .. n : registered[j] # accept[k].client
      BY <1>1, <1>11, <3>1 DEF RegisteredInv, AcceptInv, n
    <3> QED BY <1>8, <1>10, <3>1, <3>2
  <2> QED BY <1>4, <2>1, <2>2, <2>3 DEF RegisteredInv
<1>14. IdInv'
  BY <1>1, <1>3, <1>4 DEF IdInv
<1>15. NumberInv'
  <2>1. UseExtranonce => Numbered(n, nextExtranonce)
    BY <1>1 DEF NumberInv, n
  <2>2. UseExtranonce => Numbered(Len(registered'), nextExtranonce')
    BY <1>3, <1>6, <1>8, <2>1, NumberedNext DEF WrapExtranonce
  <2>3. \A i \in Assigned' : i \in Assigned /\ registered'[i] = registered[i]
    BY <1>4, <1>8, <1>9, <1>10 DEF Assigned, n
  <2>4. \A i \in Assigned' : Numbered(i - 1, extranonce[registered'[i]])
    BY <1>1, <2>3 DEF NumberInv
  <2>5. /\ ~UseExtranonce => \A d \in Clients : extranonce[d] = -1
        /\ \A d \in Clients : home[d] = "none" => extranonce[d] = -1
    BY <1>1 DEF NumberInv
  <2>6. \A k \in Listeners :
          accept'[k].pc \in {"id", "register"} =>
            extranonce[accept'[k].client] = -1 /\ accept'[k].extra = -1
    BY <1>1, <1>3 DEF NumberInv
  <2>7. ASSUME NEW k \in Listeners, accept'[k].pc = "extranonce"
        PROVE  /\ accept'[k].extra \in -1 .. MaxExtranonce
               /\ ~UseExtranonce => accept'[k].extra = -1
               /\ UseExtranonce =>
                    \E i \in 1 .. Len(registered') :
                      registered'[i] = accept'[k].client /\ Numbered(i - 1, accept'[k].extra)
    <3>1. CASE k # l
      <4>1. /\ accept'[k] = accept[k]
            /\ accept[k].extra \in -1 .. MaxExtranonce
            /\ ~UseExtranonce => accept[k].extra = -1
            /\ UseExtranonce =>
                 \E i \in 1 .. n :
                   registered[i] = accept[k].client /\ Numbered(i - 1, accept[k].extra)
        BY <1>1, <1>3, <2>7, <3>1 DEF NumberInv, n
      <4> QED BY <1>8, <1>10, <4>1
    <3>2. CASE k = l
      <4>1. (n + 1) - 1 = n
        BY <1>8
      <4>2. ASSUME UseExtranonce
            PROVE  /\ accept'[k].extra \in -1 .. MaxExtranonce
                   /\ registered'[n + 1] = accept'[k].client
                   /\ Numbered((n + 1) - 1, accept'[k].extra)
        <5>1. accept'[k].extra = nextExtranonce
          BY <1>3, <3>2, <4>2
        <5>2. accept'[k].extra \in -1 .. MaxExtranonce
          BY <1>2, <1>6, <5>1
        <5> QED BY <1>3, <1>8, <2>1, <3>2, <4>1, <4>2, <5>1, <5>2
      <4>3. ASSUME ~UseExtranonce PROVE accept'[k].extra = -1
        BY <1>1, <1>3, <3>2, <4>3 DEF NumberInv
      <4> QED BY <1>2, <1>10, <4>2, <4>3
    <3> QED BY <3>1, <3>2
  <2> QED BY <1>4, <2>2, <2>4, <2>5, <2>6, <2>7 DEF NumberInv
<1>16. QueueInv'
  <2>1. (\A d \in disconnecting' : home'[d] # "none") /\ (\A p \in clients' : home'[p[2]] # "none")
    BY <1>1, <1>4, <1>9 DEF QueueInv
  <2> QED BY <1>1, <1>4, <2>1, QueueRests
<1>17. RemovedOnce'
  BY <1>1, <1>4 DEF RemovedOnce, Queued
<1>18. LiveClientsAreRegistered'
  BY <1>1, <1>4, <1>8, <1>10 DEF LiveClientsAreRegistered, InRegistry, n
<1> QED BY <1>7, <1>12, <1>13, <1>14, <1>15, <1>16, <1>17, <1>18 DEF RegistryInv
\* The client's extranonce is the number it took.
LEMMA SetExtranonceKeepsInv ==
  ASSUME RegistryInv, NEW l \in Listeners, SetExtranonce(l)
  PROVE  RegistryInv'
<1> DEFINE c == accept[l].client
           e == accept[l].extra
<1>1. TypeOK /\ AcceptInv /\ RegisteredInv /\ IdInv /\ NumberInv /\ QueueInv /\ RemovedOnce
        /\ LiveClientsAreRegistered
  BY DEF RegistryInv
<1>2. c \in Clients /\ MaxExtranonce \in Nat /\ accept[l].pc = "extranonce"
  BY <1>1, PowersOfRadix DEF TypeOK, AcceptInv, SetExtranonce
<1>3. /\ \/ accept'[l].pc = "accept" /\ accept'[l].client = NoClient
         \/ accept'[l].pc = "sniff" /\ accept'[l].client = c
      /\ \A k \in Listeners : k # l => accept'[k] = accept[k]
      /\ extranonce'[c] = e /\ \A d \in Clients : d # c => extranonce'[d] = extranonce[d]
      /\ UNCHANGED <<home, clientCounter, id, nextExtranonce, clients,
                     disconnecting, leaving, channel, dropped, reaper, removals, registered>>
  BY <1>1, <1>2 DEF TypeOK, SetExtranonce, Waiting
<1>4. /\ e \in -1 .. MaxExtranonce
      /\ ~UseExtranonce => e = -1
      /\ UseExtranonce => \E i \in 1 .. Len(registered) : registered[i] = c /\ Numbered(i - 1, e)
  BY <1>1, <1>2 DEF NumberInv
<1>5. home[c] = l /\ l # "none" /\ c # NoClient
  BY <1>1, <1>2, NoClientAssumption, ListenersAssumption DEF AcceptInv
<1>6. TypeOK'
  <2>1. accept' \in [Listeners -> [pc : AcceptPcs, client : Clients \union {NoClient},
                               extra : Nat \union {-1}]]
    <3>1. accept \in [Listeners -> [pc : AcceptPcs, client : Clients \union {NoClient},
                                   extra : Nat \union {-1}]]
      BY <1>1 DEF TypeOK
    <3>2. "sniff" \in AcceptPcs
          /\ Waiting \in [pc : AcceptPcs, client : Clients \union {NoClient},
                          extra : Nat \union {-1}]
      BY DEF AcceptPcs, Waiting
    <3>3. accept' = [accept EXCEPT ![l] = [@ EXCEPT !.pc = "sniff"]]
            \/ accept' = [accept EXCEPT ![l] = Waiting]
      BY DEF SetExtranonce
    <3> QED BY <3>1, <3>2, <3>3
  <2>2. extranonce' \in [Clients -> -1 .. MaxExtranonce]
    BY <1>1, <1>4 DEF TypeOK, SetExtranonce
  <2> QED BY <1>1, <1>3, <2>1, <2>2 DEF TypeOK
<1> HIDE DEF c, e
<1>7. AcceptInv'
  BY <1>1, <1>3, <1>5 DEF AcceptInv
<1>8. RegisteredInv'
  BY <1>1, <1>3 DEF RegisteredInv
<1>9. IdInv'
  BY <1>1, <1>3 DEF IdInv
<1>10. NumberInv'
  <2>1. UseExtranonce => Numbered(Len(registered), nextExtranonce)
    BY <1>1 DEF NumberInv
  <2>2. ~UseExtranonce => \A d \in Clients : extranonce'[d] = -1
    BY <1>1, <1>3, <1>4 DEF NumberInv
  <2>3. \A d \in Clients : home[d] = "none" => extranonce'[d] = -1
    BY <1>1, <1>3, <1>5 DEF NumberInv
  <2>4. \A k \in Listeners :
          accept'[k].pc \in {"id", "register"} =>
            extranonce'[accept'[k].client] = -1 /\ accept'[k].extra = -1
    <3> SUFFICES ASSUME NEW k \in Listeners, accept'[k].pc \in {"id", "register"}
                 PROVE  extranonce'[accept'[k].client] = -1 /\ accept'[k].extra = -1
      OBVIOUS
    <3>1. k # l /\ accept'[k] = accept[k]
      BY <1>3
    <3>2. accept[k].client \in Clients /\ accept[k].client # c
      BY <1>1, <1>5, <3>1 DEF AcceptInv, TypeOK
    <3>3. extranonce[accept[k].client] = -1 /\ accept[k].extra = -1
      BY <1>1, <3>1 DEF NumberInv
    <3> QED BY <1>3, <3>1, <3>2, <3>3
  <2>5. \A k \in Listeners :
          accept'[k].pc = "extranonce" =>
            /\ accept'[k].extra \in -1 .. MaxExtranonce
            /\ ~UseExtranonce => accept'[k].extra = -1
            /\ UseExtranonce =>
                 \E i \in 1 .. Len(registered) :
                   registered[i] = accept'[k].client /\ Numbered(i - 1, accept'[k].extra)
    BY <1>1, <1>3 DEF NumberInv
  <2>6. ASSUME NEW i \in Assigned' PROVE Numbered(i - 1, extranonce'[registered[i]])
    <3>1. i \in 1 .. Len(registered) /\ extranonce'[registered[i]] # -1
          /\ registered[i] \in Clients
      BY <1>1, <1>3 DEF Assigned, TypeOK
    <3>2. CASE registered[i] # c
      <4>1. extranonce'[registered[i]] = extranonce[registered[i]]
        BY <1>3, <3>1, <3>2
      <4>2. i \in Assigned
        BY <3>1, <4>1 DEF Assigned
      <4> QED BY <1>1, <4>1, <4>2 DEF NumberInv
    <3>3. CASE registered[i] = c
      <4>1. UseExtranonce
        BY <1>2, <2>2, <3>1
      <4>2. PICK j \in 1 .. Len(registered) : registered[j] = c /\ Numbered(j - 1, e)
        BY <1>4, <4>1
      <4>3. j = i
        BY <1>1, <3>1, <3>3, <4>2 DEF RegisteredInv
      <4> QED BY <1>3, <3>3, <4>2, <4>3
    <3> QED BY <3>2, <3>3
  <2> QED BY <1>3, <2>1, <2>2, <2>3, <2>4, <2>5, <2>6 DEF NumberInv
<1>11. QueueInv'
  <2>1. (\A d \in disconnecting' : home'[d] # "none") /\ (\A p \in clients' : home'[p[2]] # "none")
    BY <1>1, <1>3 DEF QueueInv
  <2> QED BY <1>1, <1>3, <2>1, QueueRests
<1>12. RemovedOnce' /\ LiveClientsAreRegistered'
  BY <1>1, <1>3 DEF RemovedOnce, Queued, LiveClientsAreRegistered, InRegistry
<1> QED BY <1>6, <1>7, <1>8, <1>9, <1>10, <1>11, <1>12 DEF RegistryInv

\* What concerns the accept loops and the registrations, when an accept loop
\* goes back to wait or none moves.
LoopsInv == AcceptInv /\ RegisteredInv /\ IdInv /\ NumberInv

\* A step after which every accept loop is where it was or waits again.
LEMMA LoopsRest ==
  ASSUME LoopsInv,
         UNCHANGED <<home, clientCounter, id, nextExtranonce, extranonce, registered>>,
         \A k \in Listeners :
           \/ accept'[k] = accept[k]
           \/ accept'[k].pc = "accept" /\ accept'[k].client = NoClient
  PROVE  LoopsInv'
<1>1. AcceptInv'
  BY DEF LoopsInv, AcceptInv
<1>2. RegisteredInv'
  BY DEF LoopsInv, RegisteredInv
<1>3. IdInv'
  BY DEF LoopsInv, IdInv
<1>4. NumberInv'
  <2>1. Assigned' = Assigned
    BY DEF Assigned
  <2>2. \A k \in Listeners :
          accept'[k].pc \in {"id", "register"} =>
            extranonce[accept'[k].client] = -1 /\ accept'[k].extra = -1
    BY DEF LoopsInv, NumberInv
  <2>3. \A k \in Listeners :
          accept'[k].pc = "extranonce" =>
            /\ accept'[k].extra \in -1 .. MaxExtranonce
            /\ ~UseExtranonce => accept'[k].extra = -1
            /\ UseExtranonce =>
                 \E i \in 1 .. Len(registered) :
                   registered[i] = accept'[k].client /\ Numbered(i - 1, accept'[k].extra)
    BY DEF LoopsInv, NumberInv
  <2> QED BY <2>1, <2>2, <2>3 DEF LoopsInv, NumberInv
<1> QED BY <1>1, <1>2, <1>3, <1>4 DEF LoopsInv

\* The compare-and-swap of Disconnect: the first caller goes on to offer the
\* event.
LEMMA SetFlagKeepsInv ==
  ASSUME RegistryInv, NEW c \in Clients, home[c] # "none", SetFlag(c),
         UNCHANGED <<home, clientCounter, id, nextExtranonce, extranonce,
                     clients, channel, dropped, reaper, removals, registered>>,
         accept' \in [Listeners -> [pc : AcceptPcs, client : Clients \union {NoClient},
                                    extra : Nat \union {-1}]],
         \A k \in Listeners :
           \/ accept'[k] = accept[k]
           \/ accept'[k].pc = "accept" /\ accept'[k].client = NoClient
  PROVE  RegistryInv'
<1>1. TypeOK /\ LoopsInv /\ QueueInv /\ RemovedOnce /\ LiveClientsAreRegistered
  BY DEF RegistryInv, LoopsInv
<1>2. /\ disconnecting' = disconnecting \union {c}
      /\ leaving' = IF c \in disconnecting THEN leaving ELSE leaving \union {c}
      /\ leaving \subseteq disconnecting /\ dropped \subseteq disconnecting
  BY <1>1 DEF SetFlag, TypeOK
<1>3. leaving' \subseteq disconnecting' /\ disconnecting' \subseteq Clients
      /\ dropped' \subseteq disconnecting'
  BY <1>1, <1>2 DEF TypeOK
<1>4. TypeOK'
  BY <1>1, <1>3 DEF TypeOK
<1>5. LoopsInv'
  BY <1>1, LoopsRest
<1>6. QueueInv'
  <2>1. (\A d \in disconnecting' : home'[d] # "none") /\ (\A p \in clients' : home'[p[2]] # "none")
    BY <1>1, <1>2 DEF QueueInv
  <2> QED BY <1>1, <2>1, QueueRests
<1>7. RemovedOnce'
  <2>1. \A d \in Clients : Queued(d)' <=> Queued(d)
    BY DEF Queued
  <2>2. \A d \in Clients : removals[d] \in Nat
    BY <1>1 DEF TypeOK
  <2> QED BY <1>1, <1>2, <2>1, <2>2 DEF RemovedOnce
<1>8. LiveClientsAreRegistered'
  BY <1>1, <1>2 DEF LiveClientsAreRegistered, InRegistry
<1> QED BY <1>4, <1>5, <1>6, <1>7, <1>8 DEF RegistryInv, LoopsInv

\* The first byte is there, or does not come.
LEMMA SniffKeepsInv ==
  ASSUME RegistryInv, NEW l \in Listeners, SniffDone(l) \/ SniffFails(l)
  PROVE  RegistryInv'
<1>1. TypeOK /\ LoopsInv /\ QueueInv /\ RemovedOnce /\ LiveClientsAreRegistered
  BY DEF RegistryInv, LoopsInv
<1>2. accept[l].pc = "sniff" /\ accept' = [accept EXCEPT ![l] = Waiting]
  BY DEF SniffDone, SniffFails
<1>3. accept' \in [Listeners -> [pc : AcceptPcs, client : Clients \union {NoClient},
                                 extra : Nat \union {-1}]]
  <2>1. accept \in [Listeners -> [pc : AcceptPcs, client : Clients \union {NoClient},
                                  extra : Nat \union {-1}]]
    BY <1>1 DEF TypeOK
  <2>2. Waiting \in [pc : AcceptPcs, client : Clients \union {NoClient}, extra : Nat \union {-1}]
    BY DEF AcceptPcs, Waiting
  <2> QED BY <1>2, <2>1, <2>2
<1>4. \A k \in Listeners :
        \/ accept'[k] = accept[k]
        \/ accept'[k].pc = "accept" /\ accept'[k].client = NoClient
  BY <1>1, <1>2 DEF TypeOK, Waiting
<1>5. accept[l].client \in Clients /\ home[accept[l].client] # "none"
  BY <1>1, <1>2, ListenersAssumption DEF TypeOK, LoopsInv, AcceptInv
<1>6. CASE SniffDone(l)
  <2>1. UNCHANGED <<home, clientCounter, id, nextExtranonce, extranonce, clients,
                    disconnecting, leaving, channel, dropped, reaper, removals, registered>>
    BY <1>6 DEF SniffDone
  <2>2. TypeOK'
    BY <1>1, <1>3, <2>1 DEF TypeOK
  <2>3. LoopsInv'
    BY <1>1, <1>4, <2>1, LoopsRest
  <2>4. QueueInv' /\ RemovedOnce' /\ LiveClientsAreRegistered'
    BY <1>1, <2>1 DEF QueueInv, RemovedOnce, LiveClientsAreRegistered, Queued, InRegistry
  <2> QED BY <2>2, <2>3, <2>4 DEF RegistryInv, LoopsInv
<1>7. CASE SniffFails(l)
  BY <1>3, <1>4, <1>5, <1>7, SetFlagKeepsInv DEF SniffFails
<1> QED BY <1>6, <1>7

\* Disconnect, by whoever holds the context.
LEMMA DisconnectKeepsInv ==
  ASSUME RegistryInv, NEW c \in Clients, Disconnect(c)
  PROVE  RegistryInv'
<1>1. TypeOK /\ QueueInv
  BY DEF RegistryInv
<1>2. home[c] # "none"
  <2>1. CASE InRegistry(c)
    BY <1>1, <2>1 DEF QueueInv, InRegistry
  <2>2. CASE ReaderRuns(c)
    BY <2>2 DEF ReaderRuns
  <2> QED BY <2>1, <2>2 DEF Disconnect
<1>3. accept' = accept
  BY DEF Disconnect
<1> QED BY <1>1, <1>2, <1>3, SetFlagKeepsInv DEF Disconnect, TypeOK
\* The event goes into the channel, or finds it full.
LEMMA OfferEventKeepsInv ==
  ASSUME RegistryInv, NEW c \in Clients, OfferEvent(c)
  PROVE  RegistryInv'
<1> DEFINE l == home[c]
<1>1. TypeOK /\ LoopsInv /\ QueueInv /\ RemovedOnce /\ LiveClientsAreRegistered
  BY DEF RegistryInv, LoopsInv
<1>2. c \in leaving /\ c \in disconnecting /\ l \in Listeners
  BY <1>1 DEF OfferEvent, TypeOK, QueueInv
<1>3. /\ leaving' = leaving \ {c}
      /\ UNCHANGED <<accept, home, clientCounter, id, nextExtranonce, extranonce,
                     clients, disconnecting, reaper, removals, registered>>
  BY DEF OfferEvent
<1>4. LoopsInv' /\ LiveClientsAreRegistered'
  BY <1>1, <1>3, LoopsRest DEF LiveClientsAreRegistered, InRegistry
<1>5. /\ removals[c] = 0 /\ ~Queued(c) /\ c \notin dropped
      /\ \A d \in Clients : removals[d] \in Nat
  BY <1>1, <1>2 DEF RemovedOnce, TypeOK
<1>6. c # NoClient /\ \A k \in Listeners : k # "none"
  BY NoClientAssumption, ListenersAssumption
<1>7. CASE Len(channel[l]) < ChannelCap
  <2>1. /\ channel' = [channel EXCEPT ![l] = Append(@, c)] /\ dropped' = dropped
        /\ channel \in [Listeners -> Seq(Clients)] /\ channel[l] \in Seq(Clients)
    BY <1>1, <1>2, <1>7 DEF OfferEvent, QueueInv
  <2>2. /\ channel'[l] = Append(channel[l], c)
        /\ \A k \in Listeners : k # l => channel'[k] = channel[k]
        /\ channel' \in [Listeners -> Seq(Clients)]
    BY <1>2, <2>1
  <2>0. home[c] = l
    OBVIOUS
  <2> HIDE DEF l
  <2>3. /\ Len(channel[l]) \in Nat /\ Len(channel'[l]) = Len(channel[l]) + 1
        /\ channel'[l][Len(channel[l]) + 1] = c
        /\ \A i \in 1 .. Len(channel[l]) : channel'[l][i] = channel[l][i]
    BY <2>1, <2>2
  <2>4. /\ \A i \in 1 .. Len(channel'[l]) : i \in 1 .. Len(channel[l]) \/ i = Len(channel[l]) + 1
        /\ \A i \in 1 .. Len(channel[l]) : i \in 1 .. Len(channel'[l])
        /\ Len(channel[l]) + 1 \in 1 .. Len(channel'[l])
    BY <2>3
  <2>5. /\ \A k \in Listeners : reaper[k] # c
        /\ \A k \in Listeners : \A i \in 1 .. Len(channel[k]) : channel[k][i] # c
    BY <1>5 DEF Queued
  <2>6. TypeOK'
    <3>1. \A k \in Listeners : channel'[k] \in Seq(Clients) /\ Len(channel'[k]) <= ChannelCap
      <4>1. \A k \in Listeners : Len(channel[k]) <= ChannelCap
        BY <1>1 DEF TypeOK
      <4>2. Len(channel'[l]) <= ChannelCap
        BY <1>7, <2>3, ChannelCapAssumption DEF l
      <4>3. \A k \in Listeners : Len(channel'[k]) <= ChannelCap
        BY <2>2, <4>1, <4>2
      <4> QED BY <2>2, <4>3
    <3>2. leaving' \subseteq disconnecting'
      BY <1>1, <1>3 DEF TypeOK
    <3> QED BY <1>1, <1>3, <2>1, <3>1, <3>2 DEF TypeOK
  <2>7. QueueInv'
    <3>1. ASSUME NEW k \in Listeners
          PROVE  /\ reaper[k] # NoClient => home[reaper[k]] = k
                 /\ \A i \in 1 .. Len(channel'[k]) :
                      home[channel'[k][i]] = k /\ channel'[k][i] # reaper[k]
                 /\ \A i, j \in 1 .. Len(channel'[k]) :
                      channel'[k][i] = channel'[k][j] => i = j
      <4>1. /\ reaper[k] # NoClient => home[reaper[k]] = k
            /\ \A i \in 1 .. Len(channel[k]) :
                 home[channel[k][i]] = k /\ channel[k][i] # reaper[k]
            /\ \A i, j \in 1 .. Len(channel[k]) : channel[k][i] = channel[k][j] => i = j
        BY <1>1 DEF QueueInv
      <4>2. CASE k # l
        BY <2>2, <4>1, <4>2
      <4>3. CASE k = l
        <5>1. \A i \in 1 .. Len(channel'[l]) :
                home[channel'[l][i]] = l /\ channel'[l][i] # reaper[l]
          <6> SUFFICES ASSUME NEW i \in 1 .. Len(channel'[l])
                       PROVE  home[channel'[l][i]] = l /\ channel'[l][i] # reaper[l]
            OBVIOUS
          <6>1. CASE i \in 1 .. Len(channel[l])
            BY <2>3, <4>1, <4>3, <6>1
          <6>2. CASE i = Len(channel[l]) + 1
            BY <2>0, <2>3, <2>5, <4>3, <6>2
          <6> QED BY <2>4, <6>1, <6>2
        <5>2. \A i, j \in 1 .. Len(channel'[l]) : channel'[l][i] = channel'[l][j] => i = j
          <6> DEFINE old == 1 .. Len(channel[l])
          <6>1. \A i \in old : channel'[l][i] = channel[l][i] /\ channel[l][i] # c
            BY <2>3, <2>5, <4>3
          <6>2. \A i, j \in old : channel[l][i] = channel[l][j] => i = j
            BY <4>1, <4>3
          <6>3. \A i \in 1 .. Len(channel'[l]) :
                  i \in old \/ (i = Len(channel[l]) + 1 /\ channel'[l][i] = c)
            BY <2>3, <2>4
          <6> QED BY <6>1, <6>2, <6>3
        <5> QED BY <4>1, <4>3, <5>1, <5>2
      <4> QED BY <4>2, <4>3
    <3> QED BY <1>1, <1>3, <2>2, <3>1 DEF QueueInv
  <2>8. RemovedOnce'
    <3>1. Queued(c)'
      BY <1>2, <2>3, <2>4 DEF Queued, l
    <3>2. ASSUME NEW d \in Clients, d # c PROVE Queued(d)' <=> Queued(d)
      <4>1. \A k \in Listeners : (\E i \in 1 .. Len(channel'[k]) : channel'[k][i] = d)
                                   <=> (\E i \in 1 .. Len(channel[k]) : channel[k][i] = d)
        BY <2>2, <2>3, <2>4, <3>2
      <4> QED BY <1>3, <4>1 DEF Queued
    <3>3. ASSUME NEW d \in Clients, d # c
          PROVE  (d \in leaving' <=> d \in leaving) /\ (d \in dropped' <=> d \in dropped)
                 /\ (d \in disconnecting' <=> d \in disconnecting)
      BY <1>3, <2>1, <3>3
    <3>4. c \notin leaving' /\ c \notin dropped' /\ c \in disconnecting' /\ removals' = removals
      BY <1>2, <1>3, <1>5, <2>1
    <3> QED BY <1>1, <1>5, <3>1, <3>2, <3>3, <3>4 DEF RemovedOnce
  <2> QED BY <1>4, <2>6, <2>7, <2>8 DEF RegistryInv, LoopsInv
<1>8. CASE ~(Len(channel[l]) < ChannelCap)
  <2>1. channel' = channel /\ dropped' = dropped \union {c}
    BY <1>8 DEF OfferEvent
  <2>2. TypeOK'
    <3>1. leaving' \subseteq disconnecting' /\ dropped' \subseteq disconnecting'
      BY <1>1, <1>2, <1>3, <2>1 DEF TypeOK
    <3> QED BY <1>1, <1>3, <2>1, <3>1 DEF TypeOK
  <2>3. QueueInv'
    BY <1>1, <1>3, <2>1 DEF QueueInv
  <2>4. RemovedOnce'
    <3>1. \A d \in Clients : Queued(d)' <=> Queued(d)
      BY <1>3, <2>1 DEF Queued
    <3>2. ASSUME NEW d \in Clients, d # c
          PROVE  (d \in leaving' <=> d \in leaving) /\ (d \in dropped' <=> d \in dropped)
                 /\ (d \in disconnecting' <=> d \in disconnecting)
      BY <1>3, <2>1, <3>2
    <3>3. c \notin leaving' /\ c \in dropped' /\ c \in disconnecting' /\ removals' = removals
      BY <1>2, <1>3, <1>5, <2>1
    <3> QED BY <1>1, <1>5, <3>1, <3>2, <3>3 DEF RemovedOnce
  <2> QED BY <1>4, <2>2, <2>3, <2>4 DEF RegistryInv, LoopsInv
<1> QED BY <1>7, <1>8

\* The disconnect listener takes an event: it stays in one place.
LEMMA TakeEventKeepsInv ==
  ASSUME RegistryInv, NEW l \in Listeners, TakeEvent(l)
  PROVE  RegistryInv'
<1> DEFINE c == Head(channel[l])
<1>1. TypeOK /\ LoopsInv /\ QueueInv /\ RemovedOnce /\ LiveClientsAreRegistered
  BY DEF RegistryInv, LoopsInv
<1>2. /\ reaper[l] = NoClient /\ channel[l] # << >>
      /\ reaper' = [reaper EXCEPT ![l] = c]
      /\ channel' = [channel EXCEPT ![l] = Tail(@)]
      /\ UNCHANGED <<accept, home, clientCounter, id, nextExtranonce, extranonce,
                     clients, disconnecting, leaving, dropped, removals, registered>>
  BY DEF TakeEvent
<1>3. channel \in [Listeners -> Seq(Clients)] /\ channel[l] \in Seq(Clients)
  BY <1>1 DEF QueueInv
<1>4. /\ Len(channel[l]) \in Nat \ {0} /\ c = channel[l][1] /\ c \in Clients
      /\ Tail(channel[l]) \in Seq(Clients) /\ Len(Tail(channel[l])) = Len(channel[l]) - 1
      /\ \A i \in 1 .. Len(channel[l]) - 1 : Tail(channel[l])[i] = channel[l][i + 1]
  BY <1>2, <1>3
<1> HIDE DEF c
<1>5. /\ channel'[l] = Tail(channel[l]) /\ reaper'[l] = c
      /\ \A k \in Listeners : k # l => channel'[k] = channel[k] /\ reaper'[k] = reaper[k]
      /\ channel' \in [Listeners -> Seq(Clients)]
      /\ reaper' \in [Listeners -> Clients \union {NoClient}]
  BY <1>1, <1>2, <1>3, <1>4 DEF TypeOK
<1>6. /\ 1 \in 1 .. Len(channel[l])
      /\ \A i \in 1 .. Len(channel'[l]) :
           i + 1 \in 1 .. Len(channel[l]) /\ i + 1 # 1 /\ channel'[l][i] = channel[l][i + 1]
      /\ \A i \in 1 .. Len(channel[l]) :
           i # 1 => i - 1 \in 1 .. Len(channel'[l]) /\ channel'[l][i - 1] = channel[l][i]
  <2>1. \A i \in 1 .. Len(channel'[l]) :
          i + 1 \in 1 .. Len(channel[l]) /\ i + 1 # 1 /\ channel'[l][i] = channel[l][i + 1]
    BY <1>4, <1>5
  <2>2. ASSUME NEW i \in 1 .. Len(channel[l]), i # 1
        PROVE  i - 1 \in 1 .. Len(channel'[l]) /\ channel'[l][i - 1] = channel[l][i]
    <3>1. i - 1 \in 1 .. Len(channel[l]) - 1 /\ (i - 1) + 1 = i
      BY <1>4, <2>2
    <3> QED BY <1>4, <1>5, <3>1
  <2> QED BY <1>4, <2>1, <2>2
<1>7. TypeOK'
  <2>1. \A k \in Listeners : channel'[k] \in Seq(Clients) /\ Len(channel'[k]) <= ChannelCap
    <3>1. \A k \in Listeners : Len(channel[k]) <= ChannelCap
      BY <1>1 DEF TypeOK
    <3>2. Len(channel'[l]) <= ChannelCap
      BY <1>4, <1>5, <3>1, ChannelCapAssumption
    <3>3. \A k \in Listeners : Len(channel'[k]) <= ChannelCap
      BY <1>5, <3>1, <3>2
    <3> QED BY <1>5, <3>3
  <2> QED BY <1>1, <1>2, <1>5, <2>1 DEF TypeOK
<1>8. LoopsInv' /\ LiveClientsAreRegistered'
  BY <1>1, <1>2, LoopsRest DEF LiveClientsAreRegistered, InRegistry
<1>9. QueueInv'
  <2>1. ASSUME NEW k \in Listeners
        PROVE  /\ reaper'[k] # NoClient => home[reaper'[k]] = k
               /\ \A i \in 1 .. Len(channel'[k]) :
                    home[channel'[k][i]] = k /\ channel'[k][i] # reaper'[k]
               /\ \A i, j \in 1 .. Len(channel'[k]) :
                    channel'[k][i] = channel'[k][j] => i = j
    <3>1. /\ reaper[k] # NoClient => home[reaper[k]] = k
          /\ \A i \in 1 .. Len(channel[k]) :
               home[channel[k][i]] = k /\ channel[k][i] # reaper[k]
          /\ \A i, j \in 1 .. Len(channel[k]) : channel[k][i] = channel[k][j] => i = j
      BY <1>1 DEF QueueInv
    <3>2. CASE k # l
      BY <1>5, <3>1, <3>2
    <3>3. CASE k = l
      <4>1. home[c] = l
        BY <1>4, <1>6, <3>1, <3>3
      <4>2. \A i \in 1 .. Len(channel'[l]) : home[channel'[l][i]] = l /\ channel'[l][i] # c
        BY <1>4, <1>6, <3>1, <3>3
      <4>3. ASSUME NEW i \in 1 .. Len(channel'[l]), NEW j \in 1 .. Len(channel'[l]),
                   channel'[l][i] = channel'[l][j]
            PROVE  i = j
        <5>1. /\ i + 1 \in 1 .. Len(channel[l]) /\ j + 1 \in 1 .. Len(channel[l])
              /\ channel[l][i + 1] = channel[l][j + 1]
          BY <1>6, <4>3
        <5>2. \A x, y \in 1 .. Len(channel[l]) : channel[l][x] = channel[l][y] => x = y
          BY <3>1, <3>3
        <5>3. i + 1 = j + 1
          BY <5>1, <5>2
        <5> QED BY <5>3
      <4> QED BY <1>5, <3>3, <4>1, <4>2, <4>3
    <3> QED BY <3>2, <3>3
  <2>2. (\A d \in disconnecting : home[d] # "none") /\ (\A p \in clients : home[p[2]] # "none")
    BY <1>1 DEF QueueInv
  <2>3. UNCHANGED <<home, disconnecting, clients>>
    BY <1>2
  <2>4. channel' \in [Listeners -> Seq(Clients)]
    BY <1>5
  <2> QED BY <2>1, <2>2, <2>3, <2>4 DEF QueueInv
<1>10. RemovedOnce'
  <2>1. ASSUME NEW d \in Clients PROVE Queued(d)' <=> Queued(d)
    <3>0. d # NoClient
      BY NoClientAssumption
    <3>1. (reaper'[l] = d \/ \E i \in 1 .. Len(channel'[l]) : channel'[l][i] = d)
            <=> (reaper[l] = d \/ \E i \in 1 .. Len(channel[l]) : channel[l][i] = d)
      <4>1. ASSUME NEW i \in 1 .. Len(channel[l]), channel[l][i] = d
            PROVE  reaper'[l] = d \/ \E j \in 1 .. Len(channel'[l]) : channel'[l][j] = d
        <5>1. CASE i = 1
          BY <1>4, <1>5, <4>1, <5>1
        <5>2. CASE i # 1
          BY <1>6, <4>1, <5>2
        <5> QED BY <5>1, <5>2
      <4>2. ASSUME reaper'[l] = d PROVE \E i \in 1 .. Len(channel[l]) : channel[l][i] = d
        BY <1>4, <1>5, <1>6, <4>2
      <4>3. ASSUME NEW i \in 1 .. Len(channel'[l]), channel'[l][i] = d
            PROVE  \E j \in 1 .. Len(channel[l]) : channel[l][j] = d
        BY <1>6, <4>3
      <4> QED BY <1>2, <3>0, <4>1, <4>2, <4>3
    <3> QED BY <1>5, <3>1 DEF Queued
  <2> QED BY <1>1, <1>2, <2>1 DEF RemovedOnce
<1> QED BY <1>7, <1>8, <1>9, <1>10 DEF RegistryInv, LoopsInv

\* OnDisconnect removes the entry of a client that is disconnecting, and of
\* nobody else: the id is its own.
LEMMA OnDisconnectKeepsInv ==
  ASSUME RegistryInv, NEW l \in Listeners, OnDisconnect(l)
  PROVE  RegistryInv'
<1>1. TypeOK /\ LoopsInv /\ QueueInv /\ RemovedOnce /\ LiveClientsAreRegistered
  BY DEF RegistryInv, LoopsInv
<1>0. PICK c \in Clients : c = reaper[l]
  BY <1>1 DEF TypeOK, OnDisconnect
<1>2. /\ c # NoClient
      /\ clients' = {p \in clients : p[1] # id[c]}
      /\ removals' = [removals EXCEPT ![c] = @ + 1]
      /\ reaper' = [reaper EXCEPT ![l] = NoClient]
      /\ UNCHANGED <<accept, home, clientCounter, id, nextExtranonce, extranonce,
                     disconnecting, leaving, channel, dropped, registered>>
  BY <1>0 DEF OnDisconnect
<1>3. c \in Clients /\ removals[c] \in Nat
  BY <1>1, <1>2 DEF TypeOK
<1>4. Queued(c) /\ home[c] = l
  BY <1>0, <1>1, <1>2 DEF Queued, QueueInv
<1>5. removals[c] = 0 /\ c \in disconnecting /\ c \notin dropped /\ c \notin leaving
  BY <1>1, <1>3, <1>4 DEF RemovedOnce
<1>6. /\ reaper'[l] = NoClient /\ \A k \in Listeners : k # l => reaper'[k] = reaper[k]
      /\ removals'[c] = 1 /\ \A d \in Clients : d # c => removals'[d] = removals[d]
  BY <1>1, <1>2, <1>3, <1>5 DEF TypeOK
<1>7. TypeOK'
  <2>1. removals[c] + 1 \in Nat
    BY <1>3
  <2>2. removals' \in [Clients -> Nat]
    BY <1>1, <1>2, <2>1 DEF TypeOK
  <2>3. reaper' \in [Listeners -> Clients \union {NoClient}]
    BY <1>1, <1>2 DEF TypeOK
  <2>4. clients' \subseteq Nat \X Clients
    BY <1>1, <1>2 DEF TypeOK
  <2> QED BY <1>1, <1>2, <2>2, <2>3, <2>4 DEF TypeOK
<1>8. LoopsInv'
  BY <1>1, <1>2, LoopsRest
<1>9. QueueInv'
  <2>1. ASSUME NEW k \in Listeners
        PROVE  /\ reaper'[k] # NoClient => home[reaper'[k]] = k
               /\ \A i \in 1 .. Len(channel[k]) :
                    home[channel[k][i]] = k /\ channel[k][i] # reaper'[k]
               /\ \A i, j \in 1 .. Len(channel[k]) : channel[k][i] = channel[k][j] => i = j
    <3>1. \A i \in 1 .. Len(channel[k]) : channel[k][i] # NoClient
      BY <1>1, NoClientAssumption DEF QueueInv
    <3>2. /\ reaper[k] # NoClient => home[reaper[k]] = k
          /\ \A i \in 1 .. Len(channel[k]) :
               home[channel[k][i]] = k /\ channel[k][i] # reaper[k]
          /\ \A i, j \in 1 .. Len(channel[k]) : channel[k][i] = channel[k][j] => i = j
      BY <1>1 DEF QueueInv
    <3>3. reaper'[k] = NoClient \/ reaper'[k] = reaper[k]
      BY <1>6
    <3> QED BY <3>1, <3>2, <3>3
  <2>2. (\A d \in disconnecting : home[d] # "none") /\ (\A p \in clients' : home[p[2]] # "none")
    BY <1>1, <1>2 DEF QueueInv
  <2>3. channel' = channel /\ home' = home /\ disconnecting' = disconnecting
    BY <1>2
  <2>4. channel \in [Listeners -> Seq(Clients)]
    BY <1>1 DEF QueueInv
  <2> QED BY <2>1, <2>2, <2>3, <2>4 DEF QueueInv
<1>10. RemovedOnce'
  <2>1. ~Queued(c)'
    <3>1. \A k \in Listeners : reaper[k] = c => k = l
      BY <1>1, <1>2, <1>4 DEF QueueInv
    <3>2. \A k \in Listeners : \A i \in 1 .. Len(channel[k]) : channel[k][i] # c
      BY <1>0, <1>1, <1>4 DEF QueueInv
    <3>3. \A k \in Listeners : reaper'[k] # c
      BY <1>2, <1>6, <3>1
    <3>4. channel' = channel
      BY <1>2
    <3> QED BY <3>2, <3>3, <3>4 DEF Queued
  <2>2. ASSUME NEW d \in Clients, d # c PROVE Queued(d)' <=> Queued(d)
    <3>1. d # NoClient /\ reaper[l] # d
      BY <1>0, <2>2, NoClientAssumption
    <3>2. \A k \in Listeners : reaper'[k] = d <=> reaper[k] = d
      BY <1>6, <3>1
    <3> QED BY <1>2, <3>2 DEF Queued
  <2>3. leaving' = leaving /\ dropped' = dropped /\ disconnecting' = disconnecting
    BY <1>2
  <2> QED BY <1>1, <1>5, <1>6, <2>1, <2>2, <2>3 DEF RemovedOnce
<1>11. LiveClientsAreRegistered'
  <2> SUFFICES ASSUME NEW i \in 1 .. Len(registered), registered[i] \notin disconnecting
               PROVE  <<id[registered[i]], registered[i]>> \in clients'
    BY <1>2 DEF LiveClientsAreRegistered, InRegistry
  <2>1. <<id[registered[i]], registered[i]>> \in clients
    BY <1>1 DEF LiveClientsAreRegistered, InRegistry
  <2>2. registered[i] \in Clients /\ id[registered[i]] # 0 /\ registered[i] # c
    <3>1. registered[i] \in Clients
      BY <1>1 DEF TypeOK
    <3>2. id[registered[i]] # 0
      BY <1>1 DEF LoopsInv, RegisteredInv
    <3> QED BY <1>5, <3>1, <3>2
  <2>3. id[registered[i]] # id[c]
    BY <1>1, <1>3, <2>2 DEF LoopsInv, IdInv
  <2> QED BY <1>2, <2>1, <2>3
<1> QED BY <1>7, <1>8, <1>9, <1>10, <1>11 DEF RegistryInv, LoopsInv

----------------------------------------------------------------------------
\* A step of anybody.
LEMMA RegistryInvStep == RegistryInv /\ [Next]_vars => RegistryInv'
<1> SUFFICES ASSUME RegistryInv, [Next]_vars PROVE RegistryInv'
  OBVIOUS
<1>1. CASE UNCHANGED vars
  <2>1. TypeOK /\ LoopsInv /\ QueueInv /\ RemovedOnce /\ LiveClientsAreRegistered
    BY DEF RegistryInv, LoopsInv
  <2>2. UNCHANGED <<accept, home, clientCounter, id, nextExtranonce, extranonce, clients,
                    disconnecting, leaving, channel, dropped, reaper, removals, registered>>
    BY <1>1 DEF vars
  <2>3. LoopsInv'
    BY <2>1, <2>2, LoopsRest
  <2>4. TypeOK' /\ QueueInv' /\ RemovedOnce' /\ LiveClientsAreRegistered'
    BY <2>1, <2>2 DEF TypeOK, QueueInv, RemovedOnce, LiveClientsAreRegistered, Queued,
                      InRegistry
  <2> QED BY <2>3, <2>4 DEF RegistryInv, LoopsInv
<1>2. ASSUME NEW l \in Listeners, ListenerStep(l) PROVE RegistryInv'
  BY <1>2, DrawIdKeepsInv, RegisterKeepsInv, SetExtranonceKeepsInv, SniffKeepsInv
     DEF ListenerStep
<1>3. ASSUME NEW l \in Listeners, ReaperStep(l) PROVE RegistryInv'
  BY <1>3, TakeEventKeepsInv, OnDisconnectKeepsInv DEF ReaperStep
<1>4. ASSUME NEW l \in Listeners, NEW c \in Clients, Accept(l, c) PROVE RegistryInv'
  BY <1>4, AcceptKeepsInv
<1>5. ASSUME NEW c \in Clients, Disconnect(c) \/ OfferEvent(c) PROVE RegistryInv'
  BY <1>5, DisconnectKeepsInv, OfferEventKeepsInv
<1> QED BY <1>1, <1>2, <1>3, <1>4, <1>5 DEF Next

\* The invariant holds of every reachable state.
THEOREM RegistryInvHolds == Spec => []RegistryInv
BY RegistryInvInit, RegistryInvStep, PTL DEF Spec

\* Every variable stays in its type, and the channel never holds more than its
\* capacity.
THEOREM RegistryTypes == Spec => []TypeOK
<1>1. RegistryInv => TypeOK
  BY DEF RegistryInv
<1> QED BY <1>1, RegistryInvHolds, PTL

\* OnDisconnect never removes the entry of a client that is alive: whoever was
\* registered and is not disconnecting is found by NewBlockAvailable.
THEOREM LiveClientsStayRegistered == Spec => []LiveClientsAreRegistered
<1>1. RegistryInv => LiveClientsAreRegistered
  BY DEF RegistryInv
<1> QED BY <1>1, RegistryInvHolds, PTL

\* However many goroutines call Disconnect, OnDisconnect runs for a client at
\* most once, and exactly once when its event was not dropped.
THEOREM ClientsAreRemovedOnce == Spec => []RemovedOnce
<1>1. RegistryInv => RemovedOnce
  BY DEF RegistryInv
<1> QED BY <1>1, RegistryInvHolds, PTL

\* With fewer registrations between two clients than there are extranonces, no
\* nonce is reached by both, for every radix and size of the extranonce.
THEOREM MinersDoNotOverlap == Spec => []NonceSpacesDisjoint
<1>1. RegistryInv => NonceSpacesDisjoint
  <2> SUFFICES ASSUME RegistryInv, NEW i \in Assigned, NEW j \in Assigned,
                      i < j, j - i <= MaxExtranonce
               PROVE  NonceSpace(registered[i]) \intersect NonceSpace(registered[j]) = {}
    BY DEF NonceSpacesDisjoint
  <2> DEFINE c == registered[i]
             d == registered[j]
  <2>1. TypeOK /\ NumberInv /\ MaxExtranonce \in Nat
    BY PowersOfRadix DEF RegistryInv
  <2>2. /\ i \in 1 .. Len(registered) /\ j \in 1 .. Len(registered)
        /\ extranonce[c] # -1 /\ extranonce[d] # -1 /\ registered \in Seq(Clients)
    BY <2>1 DEF Assigned, TypeOK
  <2>3. c \in Clients /\ d \in Clients
    BY <2>2
  <2>4. extranonce[c] \in Nat /\ extranonce[d] \in Nat
    <3>1. extranonce[c] \in -1 .. MaxExtranonce /\ extranonce[d] \in -1 .. MaxExtranonce
      BY <2>1, <2>3 DEF TypeOK
    <3> QED BY <2>1, <2>2, <3>1
  <2>5. Numbered(i - 1, extranonce[c]) /\ Numbered(j - 1, extranonce[d])
    BY <2>1 DEF NumberInv
  <2> HIDE DEF c, d
  <2>6. i - 1 \in Nat /\ j - 1 \in Nat /\ i - 1 < j - 1 /\ (j - 1) - (i - 1) <= MaxExtranonce
    BY <2>1, <2>2
  <2>7. extranonce[c] # extranonce[d]
    BY <2>4, <2>5, <2>6, NumberedApart
  <2>8. NonceSpace(c) \intersect NonceSpace(d) = {}
    BY <2>3, <2>4, <2>7, NonceSpacesApart
  <2> QED BY <2>8 DEF c, d
<1> QED BY <1>1, RegistryInvHolds, PTL
=============================================================================
