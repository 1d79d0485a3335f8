------------------------------- MODULE Bridge -------------------------------
(***************************************************************************)
(* ListenAndServe (src/cryptixstratum/stratum_server.go) with the block    *)
(* template listener it has started: one goroutine per stratum listener    *)
(* runs Listen (src/gostratum/stratum_listener.go), which binds a port,    *)
(* starts an accept loop and a disconnect listener, waits for the context  *)
(* and takes both down again.  What Listen returns goes through errChan to *)
(* ListenAndServe, which cancels the context of all at the first failure.  *)
(***************************************************************************)
EXTENDS BlockTemplateListener, Sequences

CONSTANT Listeners  \* the v1 and, when enabled, the SV2 listener

ASSUME ListenersAssumption == IsFiniteSet(Listeners) /\ Listeners # {}

VARIABLES
  listen,    \* where Listen is, for each listener
  shutting,  \* the listeners with shuttingDown set
  accept,    \* the accept loop: "none", "accept", "client" or "done"
  reap,      \* the disconnect listener: "none", "run" or "done"
  errChan,   \* what Listen returned and ListenAndServe has not received
  main       \* ListenAndServe: [pc, left: results it still waits for]

listenVars == <<listen, shutting, accept, reap, errChan, main>>
bridgeVars == <<vars, listenVars>>

----------------------------------------------------------------------------
\* net.Listen succeeds; workerGroup.Add(2) and the two goroutines.
Bind(l) ==
  /\ listen[l] = "bind"
  /\ listen' = [listen EXCEPT ![l] = "up"]
  /\ accept' = [accept EXCEPT ![l] = "accept"]
  /\ reap' = [reap EXCEPT ![l] = "run"]
  /\ UNCHANGED <<vars, shutting, errChan, main>>

\* The port is taken: Listen returns the error.
BindFails(l) ==
  /\ listen[l] = "bind"
  /\ listen' = [listen EXCEPT ![l] = "failed"]
  /\ errChan' = Append(errChan, "failed")
  /\ UNCHANGED <<vars, shutting, accept, reap, main>>

\* newClient runs in the accept loop, up to the deadline of the first byte
\* (ClientRegistry, ClientReader).
AcceptClient(l) ==
  /\ accept[l] = "accept"
  /\ listen[l] \in {"up", "stopping"}
  /\ accept' = [accept EXCEPT ![l] = "client"]
  /\ UNCHANGED <<vars, listen, shutting, reap, errChan, main>>

ClientStarted(l) ==
  /\ accept[l] = "client"
  /\ accept' = [accept EXCEPT ![l] = "accept"]
  /\ UNCHANGED <<vars, listen, shutting, reap, errChan, main>>

\* Mutant: the flag that tells the accept loop to end is not set.
StopListeningUnflagged(l) ==
  /\ listen[l] = "up"
  /\ context = "cancelled"
  /\ listen' = [listen EXCEPT ![l] = "stopping"]
  /\ UNCHANGED <<vars, shutting, accept, reap, errChan, main>>

\* Listen sees the end of the context.
StopListening(l) ==
  /\ listen[l] = "up"
  /\ context = "cancelled"
  /\ listen' = [listen EXCEPT ![l] = "stopping"]
  /\ shutting' = shutting \union {l}
  /\ UNCHANGED <<vars, accept, reap, errChan, main>>

CloseServer(l) ==
  /\ listen[l] = "stopping"
  /\ listen' = [listen EXCEPT ![l] = "closed"]
  /\ UNCHANGED <<vars, shutting, accept, reap, errChan, main>>

\* Accept fails on the closed socket.  Without the flag the loop would go on.
AcceptEnds(l) ==
  /\ accept[l] = "accept"
  /\ listen[l] = "closed"
  /\ l \in shutting
  /\ accept' = [accept EXCEPT ![l] = "done"]
  /\ UNCHANGED <<vars, listen, shutting, reap, errChan, main>>

DisconnectListenerEnds(l) ==
  /\ reap[l] = "run"
  /\ context = "cancelled"
  /\ reap' = [reap EXCEPT ![l] = "done"]
  /\ UNCHANGED <<vars, listen, shutting, accept, errChan, main>>

\* workerGroup.Wait, then context.Canceled.
ListenReturns(l) ==
  /\ listen[l] = "closed"
  /\ accept[l] = "done" /\ reap[l] = "done"
  /\ listen' = [listen EXCEPT ![l] = "returned"]
  /\ errChan' = Append(errChan, "Canceled")
  /\ UNCHANGED <<vars, shutting, accept, reap, main>>

----------------------------------------------------------------------------
\* Mutant: a listener that could not start is waited out like one that stopped.
CollectAll ==
  /\ main.pc = "serving"
  /\ errChan # << >>
  /\ errChan' = Tail(errChan)
  /\ main' = [pc |-> IF main.left = 1 THEN Head(errChan) ELSE "serving", left |-> main.left - 1]
  /\ UNCHANGED <<vars, listen, shutting, accept, reap>>

\* The loop at the end of ListenAndServe.
Collect ==
  /\ main.pc = "serving"
  /\ errChan # << >>
  /\ errChan' = Tail(errChan)
  /\ IF Head(errChan) = "Canceled"
       THEN /\ main' = [pc |-> IF main.left = 1 THEN "Canceled" ELSE "serving",
                        left |-> main.left - 1]
            /\ UNCHANGED vars
       ELSE /\ main' = [main EXCEPT !.pc = "failed"]
            /\ Cancel
  /\ UNCHANGED <<listen, shutting, accept, reap>>

\* The block template listener and its node; only Collect cancels.
TemplateStep ==
  /\ \/ NewTemplate
     \/ \E state \in {"synced", "syncing", "down"} : NodeChanges(state)
     \/ \E t \in underway : OnNotification(t)
     \/ TickerFires
     \/ LoopStep
     \/ Stop
  /\ UNCHANGED listenVars

BridgeInit ==
  /\ Init
  /\ listen = [l \in Listeners |-> "bind"]
  /\ shutting = {}
  /\ accept = [l \in Listeners |-> "none"]
  /\ reap = [l \in Listeners |-> "none"]
  /\ errChan = << >>
  /\ main = [pc |-> "serving", left |-> Cardinality(Listeners)]

\* What a listener's goroutines do by themselves.
ListenerStep(l) ==
  \/ Bind(l) \/ BindFails(l) \/ StopListening(l) \/ CloseServer(l)
  \/ DisconnectListenerEnds(l) \/ ListenReturns(l)

AcceptStep(l) == ClientStarted(l) \/ AcceptEnds(l)

BridgeNext ==
  \/ TemplateStep
  \/ \E l \in Listeners : ListenerStep(l) \/ AcceptStep(l)
  \/ \E l \in Listeners : AcceptClient(l)
  \/ Collect

BridgeSpec == BridgeInit /\ [][BridgeNext]_bridgeVars

\* Goroutines are scheduled, time passes, and newClient ends in time.  A select
\* with several ready cases chooses at random, so that the template loop does
\* not pass over the end of the context for ever.
FairBridgeSpec ==
  /\ BridgeSpec
  /\ WF_bridgeVars(LoopStep /\ UNCHANGED listenVars)
  /\ SF_bridgeVars(Stop /\ UNCHANGED listenVars)
  /\ WF_bridgeVars(TickerFires /\ UNCHANGED listenVars)
  /\ WF_bridgeVars(Collect)
  /\ \A l \in Listeners : WF_bridgeVars(ListenerStep(l)) /\ WF_bridgeVars(AcceptStep(l))

----------------------------------------------------------------------------
(* Properties                                                               *)

\* Every variable stays in its type.
BridgeTypeOK ==
  /\ TypeOK
  /\ listen \in [Listeners -> {"bind", "up", "stopping", "closed", "returned", "failed"}]
  /\ shutting \subseteq Listeners
  /\ accept \in [Listeners -> {"none", "accept", "client", "done"}]
  /\ reap \in [Listeners -> {"none", "run", "done"}]
  /\ errChan \in Seq({"failed", "Canceled"}) /\ Len(errChan) <= Cardinality(Listeners)
  /\ main \in [pc : {"serving", "failed", "Canceled"}, left : 0 .. Cardinality(Listeners)]

\* A port that cannot be bound ends the whole bridge with that failure: it does
\* not go on with one listener, nor report a normal end.
FailureEndsBridge ==
  \A l \in Listeners : listen[l] = "failed" ~> main.pc = "failed"

\* Once the context is cancelled, every Listen returns and the block template
\* loop ends, unless the node keeps it waiting for sync.
CancelStopsBridge ==
  context = "cancelled" ~>
    /\ \A l \in Listeners : listen[l] \in {"returned", "failed"}
    /\ loop = "stopped" \/ node = "syncing"
=============================================================================
