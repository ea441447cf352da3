------------------------ MODULE CallAgentTransactions ------------------------
(***************************************************************************)
(* What the NAT promises the MSC's Call Agent about its MGCP transactions *)
(* (spec sections 4.2, 4.4 and 5).  A transaction is new until the Call   *)
(* Agent sends it.  It is then either answered at once (by the NAT's      *)
(* parser), or it is pending on a BSC.  A pending transaction receives    *)
(* the BSC's answer or is closed without one (the NAT gave up on it).     *)
(* Every transaction is answered at most once, and a closed one never.    *)
(***************************************************************************)
EXTENDS Naturals

CONSTANT Tids

VARIABLES
    phase,      \* phase[t] \in {"new", "pending", "closed"}
    answers     \* answers[t]: answers the Call Agent received for t

vars == <<phase, answers>>

Phases == {"new", "pending", "closed"}

TypeOK ==
    /\ phase \in [Tids -> Phases]
    /\ answers \in [Tids -> Nat]

Init ==
    /\ phase = [t \in Tids |-> "new"]
    /\ answers = [t \in Tids |-> 0]

\* In one step, every transaction of S keeps its phase, except that pending
\* ones may be closed.
MayClose(S) ==
    /\ phase' \in [Tids -> Phases]
    /\ \A u \in S :
          \/ phase'[u] = phase[u]
          \/ phase[u] = "pending" /\ phase'[u] = "closed"

\* The Call Agent sends t, and it is relayed to a BSC.
Send(t) ==
    /\ phase[t] = "new"
    /\ phase'[t] = "pending"
    /\ MayClose(Tids \ {t})
    /\ UNCHANGED answers

\* The Call Agent sends t, and the NAT answers it itself.
AnswerAtOnce(t) ==
    /\ phase[t] = "new"
    /\ phase'[t] = "closed"
    /\ MayClose(Tids \ {t})
    /\ answers' = [answers EXCEPT ![t] = 1]

\* The BSC's answer to the pending t reaches the Call Agent.
Reply(t) ==
    /\ phase[t] = "pending"
    /\ phase' = [phase EXCEPT ![t] = "closed"]
    /\ answers' = [answers EXCEPT ![t] = 1]

\* Pending transactions are given up without an answer.
Abandon ==
    /\ MayClose(Tids)
    /\ UNCHANGED answers

Next ==
    \/ \E t \in Tids : Send(t) \/ AnswerAtOnce(t) \/ Reply(t)
    \/ Abandon

Spec == Init /\ [][Next]_vars

\* The Call Agent gets at most one answer per transaction, and none before
\* the transaction is closed: nothing answers a transaction it has not sent,
\* and nothing answers one that a BSC may still reply to.
AnsweredOnlyWhenClosed ==
    \A t \in Tids : answers[t] =< 1 /\ (phase[t] # "closed" => answers[t] = 0)
=============================================================================
