---------------------------- MODULE BridgeProofs ----------------------------
(***************************************************************************)
(* The bridge as a whole runs the block template listener undisturbed, a   *)
(* listener that has returned has nothing at work, and ListenAndServe      *)
(* receives every result once, for any number of listeners.                *)
(***************************************************************************)
EXTENDS Bridge, FiniteSetTheorems, TLAPS

----------------------------------------------------------------------------
(* The block template listener alone: no wakeup of its loop is lost, for any *)
(* number of templates and outages.                                         *)

\* The two invariants are inductive together: what was notified is never newer
\* than the node's template, so that asking for the template catches up.
ListenerInv == TypeOK /\ NoLostWakeup

\* Nothing has been notified at the start.
LEMMA ListenerInvInit == Init => ListenerInv
BY MaxOutagesAssumption DEF Init, ListenerInv, TypeOK, NoLostWakeup

\* The node and the callback: the callback leaves a token for what it notes.
LEMMA NodeStepKeepsInv ==
  ASSUME ListenerInv,
         \/ NewTemplate
         \/ \E state \in {"synced", "syncing", "down"} : NodeChanges(state)
         \/ \E t \in underway : OnNotification(t)
  PROVE  ListenerInv'
<1> USE MaxOutagesAssumption DEF ListenerInv, TypeOK, NoLostWakeup, nodeVars
<1>1. CASE NewTemplate
  BY <1>1 DEF NewTemplate
<1>2. ASSUME NEW state \in {"synced", "syncing", "down"}, NodeChanges(state)
      PROVE  ListenerInv'
  <2>1. outages' \in 0 .. MaxOutages
    BY <1>2 DEF NodeChanges
  <2>2. underway' \subseteq 1 .. template'
    BY <1>2 DEF NodeChanges
  <2> QED BY <1>2, <2>1, <2>2 DEF NodeChanges
<1>3. ASSUME NEW t \in underway, OnNotification(t)
      PROVE  ListenerInv'
  BY <1>3 DEF OnNotification
<1> QED BY <1>1, <1>2, <1>3

\* The loop: a token is given up only on the way to NewBlockAvailable, which
\* asks for the newest template.
LEMMA LoopStepKeepsInv ==
  ASSUME ListenerInv, TickerFires \/ Cancel \/ LoopStep \/ Stop
  PROVE  ListenerInv'
<1> USE DEF ListenerInv, TypeOK, NoLostWakeup, nodeVars
<1>1. CASE TickerFires
  BY <1>1 DEF TickerFires
<1>2. CASE Cancel
  BY <1>2 DEF Cancel
<1>3. CASE WaitForSync
  BY <1>3 DEF WaitForSync
<1>4. CASE Reconnect
  BY <1>4 DEF Reconnect
<1>5. CASE TakeToken
  BY <1>5 DEF TakeToken
<1>6. CASE TakeTick
  BY <1>6 DEF TakeTick
<1>7. CASE NewBlockAvailable
  BY <1>7 DEF NewBlockAvailable
<1>8. CASE ResetTicker
  BY <1>8 DEF ResetTicker
<1>9. CASE Stop
  BY <1>9 DEF Stop
<1> QED BY <1>1, <1>2, <1>3, <1>4, <1>5, <1>6, <1>7, <1>8, <1>9 DEF LoopStep

\* The loop of startBlockTemplateListener never misses a template it was
\* notified of, however notifications, outages and the ticker interleave: the
\* template has been asked for, or a token makes the loop ask.
THEOREM WakeupsAreKept == Spec => [](TypeOK /\ NoLostWakeup)
<1>1. ListenerInv /\ [Next]_vars => ListenerInv'
  <2> SUFFICES ASSUME ListenerInv, [Next]_vars PROVE ListenerInv'
    OBVIOUS
  <2>1. CASE UNCHANGED vars
    BY <2>1 DEF vars, ListenerInv, TypeOK, NoLostWakeup
  <2> QED BY <2>1, NodeStepKeepsInv, LoopStepKeepsInv DEF Next
<1>2. ListenerInv => TypeOK /\ NoLostWakeup
  BY DEF ListenerInv
<1> QED BY ListenerInvInit, <1>1, <1>2, PTL DEF Spec

----------------------------------------------------------------------------
(* The whole bridge                                                         *)

\* The listeners whose Listen has returned.
Ended == {l \in Listeners : listen[l] \in {"returned", "failed"}}

\* The results received by ListenAndServe; the one it fails with is not counted
\* down.
Received ==
  Cardinality(Listeners) - main.left + (IF main.pc = "failed" THEN 1 ELSE 0)

\* Every result is in the channel or received, once.
ResultsInv == Len(errChan) + Received = Cardinality(Ended)

\* The number of listeners is a number, and that of the ended ones no larger.
LEMMA EndedAreCounted ==
  /\ Cardinality(Listeners) \in Nat
  /\ Cardinality(Ended) \in Nat
  /\ Cardinality(Ended) <= Cardinality(Listeners)
  /\ IsFiniteSet(Ended)
<1>1. Ended \subseteq Listeners
  BY DEF Ended
<1> QED BY <1>1, ListenersAssumption, FS_Subset, FS_CardinalityType

\* The parts of the bridge that concern the listeners.
ListenTypeOK ==
  /\ listen \in [Listeners -> {"bind", "up", "stopping", "closed", "returned", "failed"}]
  /\ shutting \subseteq Listeners
  /\ accept \in [Listeners -> {"none", "accept", "client", "done"}]
  /\ reap \in [Listeners -> {"none", "run", "done"}]
  /\ errChan \in Seq({"failed", "Canceled"})
  /\ main \in [pc : {"serving", "failed", "Canceled"}, left : 0 .. Cardinality(Listeners)]

\* With the results counted the channel is never full.
LEMMA ChannelHasRoom ==
  ASSUME ListenTypeOK, ResultsInv
  PROVE  Len(errChan) <= Cardinality(Listeners)
<1>1. main.left \in 0 .. Cardinality(Listeners) /\ Len(errChan) \in Nat
  BY DEF ListenTypeOK
<1>2. Received \in Nat
  BY <1>1, EndedAreCounted DEF Received
<1> QED BY <1>1, <1>2, EndedAreCounted DEF ResultsInv

\* The inductive invariant.
ListenInv == ListenTypeOK /\ ResultsInv

\* The steps that leave the results alone.
LEMMA WorkerStepKeepsInv ==
  ASSUME ListenInv, NEW l \in Listeners,
         \/ Bind(l) \/ AcceptClient(l) \/ ClientStarted(l) \/ StopListening(l)
         \/ CloseServer(l) \/ AcceptEnds(l) \/ DisconnectListenerEnds(l)
  PROVE  ListenInv'
<1>1. /\ UNCHANGED <<errChan, main>>
      /\ ListenTypeOK'
      /\ listen'[l] \in {"returned", "failed"} <=> listen[l] \in {"returned", "failed"}
      /\ \A k \in Listeners : k # l => listen'[k] = listen[k]
  BY DEF ListenInv, ListenTypeOK, Bind, AcceptClient, ClientStarted, StopListening,
         CloseServer, AcceptEnds, DisconnectListenerEnds
<1>2. Ended' = Ended
  BY <1>1 DEF Ended
<1> QED BY <1>1, <1>2 DEF ListenInv, ResultsInv, Received

\* Listen returns, with one result.
LEMMA ReturnKeepsInv ==
  ASSUME ListenInv, NEW l \in Listeners, BindFails(l) \/ ListenReturns(l)
  PROVE  ListenInv'
<1>1. /\ main' = main /\ shutting' = shutting /\ accept' = accept /\ reap' = reap
      /\ listen[l] \notin {"returned", "failed"} /\ listen'[l] \in {"returned", "failed"}
      /\ \A k \in Listeners : k # l => listen'[k] = listen[k]
      /\ listen' \in [Listeners -> {"bind", "up", "stopping", "closed", "returned", "failed"}]
  BY DEF ListenInv, ListenTypeOK, BindFails, ListenReturns
<1>3. errChan \in Seq({"failed", "Canceled"})
      /\ \E r \in {"failed", "Canceled"} : errChan' = Append(errChan, r)
  BY DEF ListenInv, ListenTypeOK, BindFails, ListenReturns
<1>4. errChan' \in Seq({"failed", "Canceled"}) /\ Len(errChan') = Len(errChan) + 1
      /\ Len(errChan) \in Nat
  BY <1>3
<1>5. ListenTypeOK'
  BY <1>1, <1>4 DEF ListenInv, ListenTypeOK
<1>6. Ended' = Ended \union {l} /\ l \notin Ended
  BY <1>1 DEF Ended
<1>7. Cardinality(Ended') = Cardinality(Ended) + 1
  BY <1>6, EndedAreCounted, FS_AddElement
<1>8. main.left \in Nat /\ Received' = Received /\ Received \in Int
  BY <1>1, EndedAreCounted DEF Received, ListenInv, ListenTypeOK
<1>9. ResultsInv'
  BY <1>4, <1>7, <1>8, EndedAreCounted DEF ResultsInv, ListenInv
<1> QED BY <1>5, <1>9 DEF ListenInv

\* ListenAndServe receives a result: as long as it serves, one is missing.
LEMMA CollectKeepsInv ==
  ASSUME ListenInv, Collect
  PROVE  ListenInv'
<1>1. /\ main.pc = "serving" /\ errChan # << >> /\ errChan' = Tail(errChan)
      /\ UNCHANGED <<listen, shutting, accept, reap>>
  BY DEF Collect
<1>2. /\ errChan \in Seq({"failed", "Canceled"})
      /\ main \in [pc : {"serving", "failed", "Canceled"}, left : 0 .. Cardinality(Listeners)]
      /\ ResultsInv
  BY DEF ListenInv, ListenTypeOK
<1>3. /\ errChan' \in Seq({"failed", "Canceled"}) /\ Len(errChan') = Len(errChan) - 1
      /\ Len(errChan) \in Nat \ {0}
  BY <1>1, <1>2
<1>4. main.left \in 1 .. Cardinality(Listeners)
  <2>1. Received = Cardinality(Listeners) - main.left /\ main.left \in 0 .. Cardinality(Listeners)
    BY <1>1, <1>2, EndedAreCounted DEF Received
  <2> QED BY <1>2, <1>3, <2>1, EndedAreCounted DEF ResultsInv
<1>5. /\ main' \in [pc : {"serving", "failed", "Canceled"}, left : 0 .. Cardinality(Listeners)]
      /\ Received' = Received + 1
  <2>1. CASE Head(errChan) = "Canceled"
    <3>1. main'.left = main.left - 1 /\ main'.pc # "failed"
          /\ main' = [pc |-> main'.pc, left |-> main.left - 1]
          /\ main'.pc \in {"serving", "Canceled"}
      BY <2>1 DEF Collect
    <3>2. main.left - 1 \in 0 .. Cardinality(Listeners)
      BY <1>4, EndedAreCounted
    <3>3. main' \in [pc : {"serving", "failed", "Canceled"}, left : 0 .. Cardinality(Listeners)]
      BY <3>1, <3>2
    <3> QED BY <1>1, <1>4, <3>1, <3>3, EndedAreCounted DEF Received
  <2>2. CASE Head(errChan) # "Canceled"
    <3>1. main' = [main EXCEPT !.pc = "failed"]
      BY <2>2 DEF Collect
    <3>2. main' \in [pc : {"serving", "failed", "Canceled"}, left : 0 .. Cardinality(Listeners)]
          /\ main'.left = main.left /\ main'.pc = "failed"
      BY <1>2, <3>1
    <3> QED BY <1>1, <1>4, <3>2, EndedAreCounted DEF Received
  <2> QED BY <2>1, <2>2
<1>6. Ended' = Ended
  BY <1>1 DEF Ended
<1>7. Received \in Int
  BY <1>2, EndedAreCounted DEF Received
<1>8. ResultsInv'
  BY <1>2, <1>3, <1>5, <1>6, <1>7, EndedAreCounted DEF ResultsInv
<1>9. ListenTypeOK'
  BY <1>1, <1>3, <1>5 DEF ListenInv, ListenTypeOK
<1> QED BY <1>8, <1>9 DEF ListenInv

\* A step of the listeners, of ListenAndServe or of the template listener.
LEMMA ListenInvStep == ListenInv /\ [BridgeNext]_bridgeVars => ListenInv'
<1> SUFFICES ASSUME ListenInv, [BridgeNext]_bridgeVars PROVE ListenInv'
  OBVIOUS
<1>1. CASE UNCHANGED listenVars
  <2>1. Ended' = Ended
    BY <1>1 DEF Ended, listenVars
  <2> QED BY <1>1, <2>1 DEF listenVars, ListenInv, ListenTypeOK, ResultsInv, Received
<1>2. CASE TemplateStep
  BY <1>1, <1>2 DEF TemplateStep
<1>3. ASSUME NEW l \in Listeners, ListenerStep(l) \/ AcceptStep(l) \/ AcceptClient(l)
      PROVE  ListenInv'
  BY <1>3, WorkerStepKeepsInv, ReturnKeepsInv DEF ListenerStep, AcceptStep
<1>4. CASE Collect
  BY <1>4, CollectKeepsInv
<1>5. CASE UNCHANGED bridgeVars
  BY <1>1, <1>5 DEF bridgeVars
<1> QED BY <1>2, <1>3, <1>4, <1>5 DEF BridgeNext

\* Nobody has returned at the start.
LEMMA ListenInvInit == BridgeInit => ListenInv
<1> SUFFICES ASSUME BridgeInit PROVE ListenInv
  OBVIOUS
<1>1. ListenTypeOK
  BY EndedAreCounted DEF BridgeInit, ListenTypeOK
<1>2. Ended = {}
  BY DEF BridgeInit, Ended
<1>3. Cardinality(Ended) = 0
  BY <1>2, FS_EmptySet
<1>4. Len(errChan) = 0 /\ Received = 0
  BY EndedAreCounted DEF BridgeInit, Received
<1> QED BY <1>1, <1>3, <1>4 DEF ListenInv, ResultsInv

\* The invariant of the listeners holds in every reachable state: each result
\* of Listen is in errChan or received, once.
THEOREM ListenInvHolds == BridgeSpec => []ListenInv
BY ListenInvInit, ListenInvStep, PTL DEF BridgeSpec

\* The bridge runs the block template listener as it is specified on its own:
\* ListenAndServe touches it only by cancelling the context.
THEOREM BridgeRunsTheTemplateListener == BridgeSpec => Spec
<1>1. BridgeInit => Init
  BY DEF BridgeInit
<1>2. [BridgeNext]_bridgeVars => [Next]_vars
  <2> SUFFICES ASSUME [BridgeNext]_bridgeVars PROVE [Next]_vars
    OBVIOUS
  <2>1. CASE TemplateStep
    BY <2>1 DEF TemplateStep, Next
  <2>2. ASSUME NEW l \in Listeners, ListenerStep(l) \/ AcceptStep(l) \/ AcceptClient(l)
        PROVE  UNCHANGED vars
    BY <2>2 DEF ListenerStep, AcceptStep, AcceptClient, Bind, BindFails, StopListening,
                CloseServer, DisconnectListenerEnds, ListenReturns, ClientStarted, AcceptEnds
  <2>3. CASE Collect
    BY <2>3 DEF Collect, Next
  <2>4. CASE UNCHANGED bridgeVars
    BY <2>4 DEF bridgeVars
  <2> QED BY <2>1, <2>2, <2>3, <2>4 DEF BridgeNext
<1> QED BY <1>1, <1>2, PTL DEF BridgeSpec, Spec

\* No wakeup of the template loop is lost, whatever the listeners do beside it.
THEOREM BridgeKeepsWakeups == BridgeSpec => []NoLostWakeup
BY BridgeRunsTheTemplateListener, WakeupsAreKept, PTL

\* Every variable stays in its type; errChan, which is as large as the number
\* of listeners, never blocks a listener that returns.
THEOREM BridgeTypes == BridgeSpec => []BridgeTypeOK
<1>1. TypeOK /\ ListenInv => BridgeTypeOK
  BY ChannelHasRoom DEF ListenInv, ListenTypeOK, BridgeTypeOK
<1> QED BY <1>1, ListenInvHolds, BridgeRunsTheTemplateListener, WakeupsAreKept, PTL
=============================================================================
