----------------------- MODULE BlockTemplateListener -----------------------
(***************************************************************************)
(* The loop that learns of new block templates                             *)
(* (src/cryptixstratum/cryptixapi.go, startBlockTemplateListener).  The    *)
(* node's client calls a callback for every notification, which leaves a   *)
(* token in a channel of capacity one; the loop checks the node's sync     *)
(* state, waits for the token, the ticker or the end of the program, and   *)
(* calls NewBlockAvailable, which asks the node for the template then      *)
(* current.  The node may fall out of sync or away at any moment, and      *)
(* notifications are lost while it is away.                                *)
(***************************************************************************)
EXTENDS Integers, FiniteSets

CONSTANTS
  MaxTemplates,  \* bound: templates the node creates
  MaxOutages     \* bound: times the node leaves the synced state

ASSUME MaxTemplatesAssumption == MaxTemplates \in Nat
ASSUME MaxOutagesAssumption == MaxOutages \in Nat

VARIABLES
  node,       \* "synced", "syncing" or "down"
  outages,    \* history: times the node left the synced state
  template,   \* the number of the node's current template
  underway,   \* notifications sent and not yet delivered
  ready,      \* tokens in blockReadyChan, 0 or 1
  ticks,      \* ticks in ticker.C, 0 or 1
  loop,       \* where the loop is
  context,    \* "live", or "cancelled"
  notified,   \* history: the newest template a callback was run for
  asked,      \* history: the template that was current at the last call of
              \*   NewBlockAvailable
  handed      \* history: the newest template NewBlockAvailable received

nodeVars == <<node, outages, template>>
vars == <<node, outages, template, underway, ready, ticks, loop, context,
          notified, asked, handed>>

----------------------------------------------------------------------------
(* The node and its RPC client.                                             *)

NewTemplate ==
  /\ node # "down"
  /\ template < MaxTemplates
  /\ template' = template + 1
  /\ underway' = underway \union {template + 1}
  /\ UNCHANGED <<node, outages, ready, ticks, loop, context, notified, asked, handed>>

NodeChanges(state) ==
  /\ node # state
  /\ outages' = IF node = "synced" THEN outages + 1 ELSE outages
  /\ outages' <= MaxOutages
  /\ node' = state
  /\ underway' = IF state = "down" THEN {} ELSE underway
  /\ UNCHANGED <<template, ready, ticks, loop, context, notified, asked, handed>>

\* Mutant: a notification that finds the loop busy is dropped.
OnNotificationWhileWaiting(t) ==
  /\ t \in underway
  /\ underway' = underway \ {t}
  /\ ready' = IF loop = "select" THEN 1 ELSE ready
  /\ notified' = IF t > notified THEN t ELSE notified
  /\ UNCHANGED <<nodeVars, ticks, loop, context, asked, handed>>

\* Mutant: the channel takes every token.
OnNotificationQueues(t) ==
  /\ t \in underway
  /\ underway' = underway \ {t}
  /\ ready' = ready + 1
  /\ notified' = IF t > notified THEN t ELSE notified
  /\ UNCHANGED <<nodeVars, ticks, loop, context, asked, handed>>

\* The callback of RegisterForNewBlockTemplateNotifications: a token is left
\* unless there is one.
OnNotification(t) ==
  /\ t \in underway
  /\ underway' = underway \ {t}
  /\ ready' = 1
  /\ notified' = IF t > notified THEN t ELSE notified
  /\ UNCHANGED <<nodeVars, ticks, loop, context, asked, handed>>

TickerFires ==
  /\ ticks = 0
  /\ ticks' = 1
  /\ UNCHANGED <<nodeVars, underway, ready, loop, context, notified, asked, handed>>

Cancel ==
  /\ context = "live"
  /\ context' = "cancelled"
  /\ UNCHANGED <<nodeVars, underway, ready, ticks, loop, notified, asked, handed>>

----------------------------------------------------------------------------
(* The loop.                                                                *)

\* waitForSync: GetInfo is asked again until the node is in sync or fails.
WaitForSync ==
  /\ loop = "sync"
  /\ node # "syncing"
  /\ loop' = IF node = "synced" THEN "select" ELSE "reconnect"
  /\ UNCHANGED <<nodeVars, underway, ready, ticks, context, notified, asked, handed>>

\* Mutant: a reconnect that fails ends the loop.
ReconnectOnce ==
  /\ loop = "reconnect"
  /\ loop' = IF node = "down" THEN "stopped" ELSE "select"
  /\ UNCHANGED <<nodeVars, underway, ready, ticks, context, notified, asked, handed>>

\* reconnect: whether it succeeds or fails, the loop goes on to wait for events.
Reconnect ==
  /\ loop = "reconnect"
  /\ loop' = "select"
  /\ UNCHANGED <<nodeVars, underway, ready, ticks, context, notified, asked, handed>>

Stop ==
  /\ loop = "select"
  /\ context = "cancelled"
  /\ loop' = "stopped"
  /\ UNCHANGED <<nodeVars, underway, ready, ticks, context, notified, asked, handed>>

TakeToken ==
  /\ loop = "select"
  /\ ready = 1
  /\ ready' = 0
  /\ loop' = "token"
  /\ UNCHANGED <<nodeVars, underway, ticks, context, notified, asked, handed>>

TakeTick ==
  /\ loop = "select"
  /\ ticks = 1
  /\ ticks' = 0
  /\ loop' = "tick"
  /\ UNCHANGED <<nodeVars, underway, ready, context, notified, asked, handed>>

\* The call of NewBlockAvailable, which asks the node for a template.
NewBlockAvailable ==
  /\ loop \in {"token", "tick"}
  /\ asked' = template
  /\ handed' = IF node = "down" THEN handed ELSE template
  /\ loop' = IF loop = "token" THEN "reset" ELSE "sync"
  /\ UNCHANGED <<nodeVars, underway, ready, ticks, context, notified>>

\* ticker.Reset after a call for a token.
ResetTicker ==
  /\ loop = "reset"
  /\ ticks' = 0
  /\ loop' = "sync"
  /\ UNCHANGED <<nodeVars, underway, ready, context, notified, asked, handed>>

Init ==
  /\ node \in {"synced", "syncing", "down"}
  /\ outages = 0
  /\ template = 1
  /\ underway = {}
  /\ ready = 0
  /\ ticks = 0
  /\ loop = "sync"
  /\ context = "live"
  /\ notified = 0
  /\ asked = 0
  /\ handed = 0

LoopStep == WaitForSync \/ Reconnect \/ TakeToken \/ TakeTick \/ NewBlockAvailable \/ ResetTicker

Next ==
  \/ NewTemplate
  \/ \E state \in {"synced", "syncing", "down"} : NodeChanges(state)
  \/ \E t \in underway : OnNotification(t)
  \/ TickerFires
  \/ Cancel
  \/ LoopStep
  \/ Stop

Spec == Init /\ [][Next]_vars

----------------------------------------------------------------------------
(* Properties                                                               *)

\* Every variable stays in its type.
TypeOK ==
  /\ node \in {"synced", "syncing", "down"}
  /\ outages \in 0 .. MaxOutages
  /\ template \in Nat
  /\ underway \subseteq 1 .. template
  /\ ready \in {0, 1} /\ ticks \in {0, 1}
  /\ loop \in {"sync", "reconnect", "select", "token", "tick", "reset", "stopped"}
  /\ context \in {"live", "cancelled"}
  /\ {notified, asked, handed} \subseteq 0 .. template

\* No wakeup is lost by the one-token channel: a template whose notification
\* came in has been asked for, or a token is there that makes the loop ask.
NoLostWakeup ==
  notified > asked => ready = 1 \/ loop = "token"

\* In spite of lost notifications and outages, once the node stays in sync the
\* newest template is handed out, unless the program ends: the ticker makes up
\* for what was lost.
NewestTemplateHandedOut ==
  <>[](node = "synced") =>
    \A t \in 1 .. MaxTemplates :
      template = t ~> (handed >= t \/ context = "cancelled")
=============================================================================
