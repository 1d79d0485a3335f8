---------------------------- MODULE ShareLedger ----------------------------
(***************************************************************************)
(* What the share handler promises a miner and the operator, without the   *)
(* worker entries, the duplicate history, the tip and the interleavings of *)
(* ShareHandler: a submit is judged once, counted once in the total row    *)
(* under the counter of its verdict, and then answered once with the       *)
(* verdict that was counted.  A block the node took counts as a block and  *)
(* then as a share.  Malformed parameters are answered and not counted.    *)
(* A submit for a template the bridge cannot read may be judged stale or a *)
(* duplicate before that shows; otherwise it is given up without a count,  *)
(* and on v1 without an answer.                                            *)
(***************************************************************************)
EXTENDS Naturals

CONSTANTS
  Clients,    \* connections, each with at most one submit under way
  SV2Clients, \* those whose submits are always answered
  Verdicts,   \* the answers a submit can get, "Malformed" and "Accepted" among them
  Counters,   \* the counters of the total row, "blocks" among them
  CounterOf(_) \* the counter of a verdict

VARIABLES
  phase,      \* "none", "received", "unreadable", "won", "share", or the verdict
              \*   to be answered
  tally,      \* the total row
  answers,    \* answers given per client and verdict
  blocks      \* blocks the node has accepted

ledgerVars == <<phase, tally, answers, blocks>>

LedgerInit ==
  /\ phase = [c \in Clients |-> "none"]
  /\ tally = [f \in Counters |-> 0]
  /\ answers = [c \in Clients |-> [v \in Verdicts |-> 0]]
  /\ blocks = 0

Receive(c) ==
  /\ phase[c] = "none"
  /\ phase'[c] \in {"received", "unreadable", "Malformed"}
  /\ phase' = [phase EXCEPT ![c] = phase'[c]]
  /\ UNCHANGED <<tally, answers, blocks>>

Win(c) ==
  /\ phase[c] = "received"
  /\ phase' = [phase EXCEPT ![c] = "won"]
  /\ blocks' = blocks + 1
  /\ UNCHANGED <<tally, answers>>

CountBlock(c) ==
  /\ phase[c] = "won"
  /\ phase' = [phase EXCEPT ![c] = "share"]
  /\ tally' = [tally EXCEPT !["blocks"] = @ + 1]
  /\ UNCHANGED <<answers, blocks>>

\* The template cannot be read: the miner is told that its share is bad, or, on
\* v1, nothing.
GiveUp(c) ==
  /\ phase[c] = "unreadable"
  /\ phase' = [phase EXCEPT ![c] = IF c \in SV2Clients THEN "Malformed" ELSE "none"]
  /\ UNCHANGED <<tally, answers, blocks>>

Judgements(p) ==
  CASE p = "received"   -> Verdicts \ {"Malformed"}
    [] p = "unreadable" -> {"Stale", "Duplicate"}
    [] p = "share"      -> {"Accepted"}

\* The verdict counted is the one that will be answered.
Count(c) ==
  /\ phase[c] \in {"received", "unreadable", "share"}
  /\ phase'[c] \in Judgements(phase[c])
  /\ phase' = [phase EXCEPT ![c] = phase'[c]]
  /\ tally' = [tally EXCEPT ![CounterOf(phase'[c])] = @ + 1]
  /\ UNCHANGED <<answers, blocks>>

Answer(c) ==
  /\ phase[c] \in Verdicts
  /\ phase' = [phase EXCEPT ![c] = "none"]
  /\ answers' = [answers EXCEPT ![c][phase[c]] = @ + 1]
  /\ UNCHANGED <<tally, blocks>>

LedgerNext ==
  \E c \in Clients :
    Receive(c) \/ GiveUp(c) \/ Win(c) \/ CountBlock(c) \/ Count(c) \/ Answer(c)

LedgerSpec == LedgerInit /\ [][LedgerNext]_ledgerVars
=============================================================================
