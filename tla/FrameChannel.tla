---------------------------- MODULE FrameChannel ----------------------------
(***************************************************************************)
(* What Reply, Send and WriteRaw promise their callers, without the lock,  *)
(* the backoff loop and the socket of ConnectionWriter: a message reaches  *)
(* the peer whole and at most once, a call returns nil exactly when its    *)
(* message did, nothing is delivered after the close, and a stream that a  *)
(* cut message has made unreadable is closed in the end.                   *)
(***************************************************************************)
EXTENDS Naturals, Sequences

CONSTANTS
  Writers,    \* callers
  Results     \* what a call returns, "ok" and errors

VARIABLES
  delivered,  \* the messages the peer can read, <<w, k>> the k-th of writer w
  results,    \* what the calls of each writer returned
  broken,     \* a message was cut short
  closed      \* the connection is closed

channelVars == <<delivered, results, broken, closed>>

Current(w) == <<w, Len(results[w]) + 1>>

ChannelInit ==
  /\ delivered = {}
  /\ results = [w \in Writers |-> << >>]
  /\ broken = FALSE
  /\ closed = FALSE

Deliver(w) ==
  /\ ~closed
  /\ Current(w) \notin delivered
  /\ delivered' = delivered \union {Current(w)}
  /\ UNCHANGED <<results, broken, closed>>

Break ==
  /\ broken' = TRUE
  /\ UNCHANGED <<delivered, results, closed>>

Return(w, r) ==
  /\ (r = "ok") <=> (Current(w) \in delivered)
  /\ results' = [results EXCEPT ![w] = Append(@, r)]
  /\ UNCHANGED <<delivered, broken, closed>>

Close ==
  /\ closed' = TRUE
  /\ UNCHANGED <<delivered, results, broken>>

ChannelNext ==
  \/ \E w \in Writers : Deliver(w) \/ \E r \in Results : Return(w, r)
  \/ Break
  \/ Close

ChannelSafety == ChannelInit /\ [][ChannelNext]_channelVars

ChannelSpec == ChannelSafety /\ (broken ~> closed)
=============================================================================
