--------------------- MODULE CallAgentTransactionsProofs ---------------------
(***************************************************************************)
(* The Call Agent's view of MGCP transactions keeps its promise: at most  *)
(* one answer per transaction, none before it is closed.  The invariant   *)
(* is inductive once the phases and counts are known to be functions on   *)
(* Tids (TypeOK); MgcpNatTransactionProofs transfers it to the NAT through *)
(* the refinement.                                                         *)
(***************************************************************************)
EXTENDS CallAgentTransactions, TLAPS

Inv == TypeOK /\ AnsweredOnlyWhenClosed

\* A step that closes some pending transactions and leaves the counts of
\* the others alone keeps the invariant on them: a phase other than
\* "closed" after the step was the same phase before it.
LEMMA MayCloseKeeps ==
    ASSUME NEW S \in SUBSET Tids, Inv, MayClose(S),
           \A u \in S : answers'[u] = answers[u]
    PROVE  \A u \in S : answers'[u] =< 1 /\ (phase'[u] # "closed" => answers'[u] = 0)
BY DEF Inv, TypeOK, AnsweredOnlyWhenClosed, MayClose

\* Every step of the Call Agent's view preserves Inv.
LEMMA NextInv ==
    ASSUME Inv, [Next]_vars
    PROVE  Inv'
<1>1. CASE \E t \in Tids : Send(t)
  <2>1. PICK t \in Tids : Send(t)
    BY <1>1
  <2>2. MayClose(Tids \ {t}) /\ answers' = answers
    BY <2>1 DEF Send
  <2>3. \A u \in Tids \ {t} : answers'[u] =< 1 /\ (phase'[u] # "closed" => answers'[u] = 0)
    BY <2>2, MayCloseKeeps
  <2>4. answers'[t] = 0
    BY <2>1, <2>2 DEF Send, Inv, AnsweredOnlyWhenClosed, TypeOK
  <2>5. \A u \in Tids : answers'[u] =< 1 /\ (phase'[u] # "closed" => answers'[u] = 0)
    BY <2>3, <2>4
  <2>6. TypeOK'
    BY <2>2 DEF Inv, TypeOK, MayClose
  <2>. QED
    BY <2>5, <2>6 DEF Inv, AnsweredOnlyWhenClosed
<1>2. CASE \E t \in Tids : AnswerAtOnce(t)
  <2>1. PICK t \in Tids : AnswerAtOnce(t)
    BY <1>2
  <2>2. MayClose(Tids \ {t}) /\ answers' = [answers EXCEPT ![t] = 1]
    BY <2>1 DEF AnswerAtOnce
  <2>3. \A u \in Tids \ {t} : answers'[u] = answers[u]
    BY <2>2
  <2>4. \A u \in Tids \ {t} : answers'[u] =< 1 /\ (phase'[u] # "closed" => answers'[u] = 0)
    BY <2>2, <2>3, MayCloseKeeps
  <2>5. answers'[t] = 1 /\ phase'[t] = "closed"
    BY <2>1, <2>2 DEF AnswerAtOnce, Inv, TypeOK
  <2>. QED
    BY <2>2, <2>4, <2>5 DEF Inv, TypeOK, AnsweredOnlyWhenClosed, MayClose
<1>3. CASE \E t \in Tids : Reply(t)
  <2>1. PICK t \in Tids : Reply(t)
    BY <1>3
  <2>2. TypeOK'
    BY <2>1 DEF Reply, Inv, TypeOK, Phases
  <2>3. \A u \in Tids : answers'[u] =< 1 /\ (phase'[u] # "closed" => answers'[u] = 0)
    BY <2>1 DEF Reply, Inv, TypeOK, AnsweredOnlyWhenClosed
  <2>. QED
    BY <2>2, <2>3 DEF Inv, AnsweredOnlyWhenClosed
<1>4. CASE Abandon
  <2>1. MayClose(Tids) /\ answers' = answers
    BY <1>4 DEF Abandon
  <2>2. \A u \in Tids : answers'[u] =< 1 /\ (phase'[u] # "closed" => answers'[u] = 0)
    BY <2>1, MayCloseKeeps
  <2>3. TypeOK'
    BY <2>1 DEF Inv, TypeOK, MayClose
  <2>. QED
    BY <2>2, <2>3 DEF Inv, AnsweredOnlyWhenClosed
<1>5. CASE UNCHANGED vars
  BY <1>5 DEF vars, Inv, TypeOK, AnsweredOnlyWhenClosed
<1>. QED
  BY <1>1, <1>2, <1>3, <1>4, <1>5 DEF Next

\* The promise of CallAgentTransactions: in every state, each transaction
\* has been answered at most once, and only if it is closed.
THEOREM AnsweredOnlyWhenClosedHolds == Spec => []AnsweredOnlyWhenClosed
<1>1. Init => Inv
  BY DEF Init, Inv, TypeOK, AnsweredOnlyWhenClosed, Phases
<1>2. Inv => AnsweredOnlyWhenClosed
  BY DEF Inv
<1>. QED
  BY <1>1, <1>2, NextInv, PTL DEF Spec
=============================================================================
