--------------------- MODULE MgcpNatTransactionProofs ---------------------
(***************************************************************************)
(* Proof that the NAT core implements the Call Agent's view of its MGCP   *)
(* transactions (MgcpNatTransactions): every step of MgcpNat maps, under  *)
(* the refinement mapping phaseBar, to a step of CallAgentTransactions or *)
(* to a stutter.  The argument rests on the inductive invariant AInv of   *)
(* MgcpNatAnswerProofs: a fresh id is nowhere, an id is parked in at most *)
(* one slot, and a transaction its BSC may still answer is unanswered.    *)
(***************************************************************************)
EXTENDS MgcpNatAnswerProofs, MgcpNatTransactions

CAP == INSTANCE CallAgentTransactionsProofs WITH phase <- phaseBar

-----------------------------------------------------------------------------
(* How a step moves the phases.                                           *)

\* A step that parks and relays no transaction outside T, and uses no id
\* outside T, only closes pending transactions outside T: a transaction
\* leaves "pending" only by losing its slot or its BSC, and never enters it.
LEMMA StepMayClose ==
    ASSUME NEW T \in SUBSET Tids,
           \A x \in Eps : slots'[x] = slots[x] \/ slots'[x].id \in {NoTid} \cup T,
           \A b \in BSCs : toBsc'[b] \subseteq toBsc[b] \cup T,
           usedTids' \ T = usedTids \ T
    PROVE  CA!MayClose(Tids \ T)
<1>1. phaseBar' \in [Tids -> CA!Phases]
  BY DEF phaseBar, PhaseOf, CA!Phases
<1>2. ASSUME NEW u \in Tids \ T
      PROVE  \/ phaseBar'[u] = phaseBar[u]
             \/ phaseBar[u] = "pending" /\ phaseBar'[u] = "closed"
  <2>1. u \in usedTids' <=> u \in usedTids
    OBVIOUS
  <2>2. Awaited(u)' => Awaited(u)
    <3> SUFFICES ASSUME Awaited(u)' PROVE Awaited(u)
      OBVIOUS
    <3>1. PICK e \in Eps : Relayed(e, u)'
      BY DEF Awaited
    <3>2. PICK b \in BSCs : slots'[e].id = u /\ slots'[e].bsc = b /\ u \in toBsc'[b]
      BY <3>1 DEF Relayed, Parked
    <3>3. slots'[e] = slots[e]
      BY <3>2, NullAssumption
    <3>4. u \in toBsc[b]
      BY <3>2
    <3>. QED
      BY <3>2, <3>3, <3>4 DEF Awaited, Relayed, Parked
  <2>. QED
    BY <2>1, <2>2 DEF phaseBar, PhaseOf
<1>. QED
  BY <1>1, <1>2 DEF CA!MayClose

\* A step that only clears slots and forgets relayed transactions, and
\* neither uses an id nor answers, gives up pending transactions: teardown,
\* the assignment patcher, a reply without an answer and BSC loss.
LEMMA ClearingAbandons ==
    ASSUME answers' = answers, usedTids' = usedTids,
           \A b \in BSCs : toBsc'[b] \subseteq toBsc[b],
           \A e \in Eps : slots'[e] = slots[e] \/ slots'[e].id = NoTid
    PROVE  CA!Abandon
<1>1. /\ \A x \in Eps : slots'[x] = slots[x] \/ slots'[x].id \in {NoTid} \cup {}
      /\ \A b \in BSCs : toBsc'[b] \subseteq toBsc[b] \cup {}
      /\ usedTids' \ {} = usedTids \ {}
  OBVIOUS
<1>2. CA!MayClose(Tids \ {})
  BY <1>1, StepMayClose
<1>3. Tids \ {} = Tids
  OBVIOUS
<1>. QED
  BY <1>2, <1>3 DEF CA!Abandon

-----------------------------------------------------------------------------
(* One lemma per action of MgcpNat.                                       *)

LEMMA OpenConnRefines ==
    ASSUME NEW c \in Conns, NEW b \in BSCs, OpenConn(c, b)
    PROVE  CA!Abandon
BY ClearingAbandons DEF OpenConn, envVars

LEMMA CloseConnRefines ==
    ASSUME NEW c \in Conns, CloseConn(c)
    PROVE  CA!Abandon
BY ClearingAbandons, DlcxSlotsClear DEF CloseConn

LEMMA AssignPatchRefines ==
    ASSUME NEW c \in Conns, NEW cic \in Cics, AssignPatch(c, cic)
    PROVE  CA!Abandon
<1>1. slots' = DlcxSlots({m \in Open : mscEndp[m] = CicToEndpoint(cic)}, slots)
  BY DEF AssignPatch
<1>2. \A e \in Eps : slots'[e] = slots[e] \/ slots'[e].id = NoTid
  BY <1>1, DlcxSlotsClear
<1>3. answers' = answers /\ usedTids' = usedTids /\ toBsc' = toBsc
  BY DEF AssignPatch
<1>. QED
  BY <1>2, <1>3, ClearingAbandons

LEMMA BscDisconnectRefines ==
    ASSUME TypeOK, NEW b \in BSCs, BscDisconnect(b)
    PROVE  CA!Abandon
<1>1. \A e \in Eps : slots'[e] = slots[e] \/ slots'[e].id = NoTid
  BY DEF BscDisconnect, FreeSlot
<1>2. \A y \in BSCs : toBsc'[y] \subseteq toBsc[y]
  BY DEF BscDisconnect, TypeOK
<1>. QED
  BY <1>1, <1>2, ClearingAbandons DEF BscDisconnect

\* The answer counter of a transaction that has none becomes 1.
LEMMA AnswerFirst ==
    ASSUME answers \in [Tids -> 0 .. AnswerCap], NEW t \in Tids, answers[t] = 0
    PROVE  Answer(t) = [answers EXCEPT ![t] = 1]
BY DEF Answer, AnswerCap

\* BSC b answers transaction t with a CI and the answer is forwarded: the
\* pending t is closed and answered (Reply); any other reply that matches a
\* slot gives t up without an answer (Abandon).
LEMMA ForwardRefines ==
    ASSUME AInv, NEW b \in BSCs, NEW t \in Tids, NEW hasCi \in BOOLEAN,
           NEW ok \in BOOLEAN, Forward(b, t, hasCi, ok)
    PROVE  CA!Reply(t) \/ CA!Abandon
<1>. DEFINE match == {i \in MscEps : slots[i].bsc = b /\ slots[i].id = t}
            j == Least(match)
<1>1. t \in toBsc[b] /\ match # {}
  BY DEF Forward
<1>2. j \in match
  <2>1. match \in SUBSET Nat
    BY DEF MscEps
  <2>. QED
    BY <1>1, <2>1, LeastIsMinimum
<1>3. j \in Eps /\ slots[j].bsc = b /\ slots[j].id = t
  <2>1. MscEps \subseteq Eps
    BY NumEndpointsAssumption DEF MscEps, Eps
  <2>. QED
    BY <1>2, <2>1
<1>4. answers[t] = 0 /\ t \in usedTids
  BY <1>1, <1>3 DEF AInv, AwaitedUnanswered, FreshTidsUnused
<1>5. \A i \in Eps \ {j} : slots[i].id # t
  BY <1>3, NullAssumption DEF AInv, TidInOneSlot
<1>6. PICK r : slots' = [slots EXCEPT ![j] = r] /\ r.id = NoTid
  <2>1. CASE hasCi
    <3>1. slots' = [slots EXCEPT ![j] = [id |-> NoTid, state |-> "none",
                                         bsc |-> slots[j].bsc]]
      BY <2>1 DEF Forward
    <3>2. [id |-> NoTid, state |-> "none", bsc |-> slots[j].bsc].id = NoTid
      OBVIOUS
    <3>. QED
      BY <3>1, <3>2
  <2>2. CASE ~hasCi
    <3>1. slots' = [slots EXCEPT ![j] = FreeSlot]
      BY <2>2 DEF Forward
    <3>2. FreeSlot.id = NoTid
      BY DEF FreeSlot
    <3>. QED
      BY <3>1, <3>2
  <2>. QED
    BY <2>1, <2>2
<1>7. /\ \A i \in Eps \ {j} : slots'[i] = slots[i]
      /\ slots'[j].id = NoTid
  BY <1>3, <1>6 DEF AInv, TypeOK
<1>8. UNCHANGED <<toBsc, usedTids>>
  BY DEF Forward
<1>9. CASE ~(hasCi /\ ok)
  <2>1. answers' = answers
    BY <1>9 DEF Forward
  <2>. QED
    BY <1>7, <1>8, <2>1, ClearingAbandons
<1>10. CASE hasCi /\ ok
  <2>1. answers' = [answers EXCEPT ![t] = 1]
    <3>1. answers' = Answer(t)
      BY <1>10 DEF Forward
    <3>. QED
      BY <1>4, <3>1, AnswerFirst DEF AInv, TypeOK
  <2>2. phaseBar[t] = "pending"
    BY <1>1, <1>3, <1>4 DEF phaseBar, PhaseOf, Awaited, Relayed, Parked
  <2>3. ~Awaited(t)'
    <3> SUFFICES ASSUME NEW e \in Eps, slots'[e].id = t PROVE FALSE
      BY DEF Awaited, Relayed, Parked
    <3>1. CASE e = j
      BY <1>7, <3>1, NullAssumption
    <3>2. CASE e # j
      BY <1>5, <1>7, <3>2
    <3>. QED
      BY <3>1, <3>2
  <2>4. ASSUME NEW u \in Tids \ {t} PROVE Awaited(u)' <=> Awaited(u)
    <3>1. \A e \in Eps : slots'[e].id = u <=> slots[e].id = u
      BY <1>3, <1>7, NullAssumption
    <3>2. \A e \in Eps : slots'[e].id = u => slots'[e] = slots[e]
      BY <1>7, NullAssumption
    <3>. QED
      BY <1>8, <3>1, <3>2 DEF Awaited, Relayed, Parked
  <2>5. phaseBar' = [phaseBar EXCEPT ![t] = "closed"]
    BY <1>4, <1>8, <2>3, <2>4 DEF phaseBar, PhaseOf
  <2>. QED
    BY <2>1, <2>2, <2>5 DEF CA!Reply
<1>. QED
  BY <1>9, <1>10

\* The parser hands the policy callback a fresh transaction t.  When the
\* callback does not defer it, or defers a DLCX, the parser answers it at
\* once (AnswerAtOnce); a relayed CRCX or MDCX becomes pending (Send).  In
\* both cases the transaction the slot held before is given up.
LEMMA PolicyRefines ==
    ASSUME AInv, NEW e \in MscEps, NEW v \in Verbs, NEW t \in Tids,
           NEW ok \in BOOLEAN, Policy(e, v, t, ok)
    PROVE  CA!AnswerAtOnce(t) \/ CA!Send(t)
<1>1. t \notin usedTids /\ usedTids' = usedTids \cup {t}
  BY DEF Policy
<1>2. /\ answers[t] = 0
      /\ \A y \in BSCs : t \notin toBsc[y]
      /\ \A i \in Eps : slots[i].id # t
  BY <1>1 DEF AInv, FreshTidsUnused
<1>3. /\ phaseBar[t] = "new"
      /\ usedTids' \ {t} = usedTids \ {t}
      /\ t \in usedTids'
  BY <1>1 DEF phaseBar, PhaseOf
<1>4. e \in Eps
  BY NumEndpointsAssumption DEF MscEps, Eps
<1>5. Answer(t) = [answers EXCEPT ![t] = 1]
  BY <1>2, AnswerFirst DEF AInv, TypeOK
<1>6. CASE slots' = [slots EXCEPT ![e] = FreeSlot] /\ answers' = Answer(t)
           /\ toBsc' = toBsc
  <2>1. \A x \in Eps : slots'[x] = slots[x] \/ slots'[x].id = NoTid
    BY <1>6 DEF AInv, TypeOK, FreeSlot
  <2>2. CA!MayClose(Tids \ {t})
    BY <1>3, <1>6, <2>1, StepMayClose
  <2>3. ~Awaited(t)'
    BY <1>2, <2>1, NullAssumption DEF Awaited, Relayed, Parked
  <2>4. phaseBar'[t] = "closed"
    BY <1>3, <2>3 DEF phaseBar, PhaseOf
  <2>. QED
    BY <1>3, <1>5, <1>6, <2>2, <2>4 DEF CA!AnswerAtOnce
<1>7. CASE \E c \in Owners(e) : PolicyRelay(c, e, v, t)
  <2>1. PICK c \in Owners(e) : PolicyRelay(c, e, v, t)
    BY <1>7
  <2>. DEFINE b == conBsc[c]
              parked == [slots EXCEPT ![e] = [id |-> t, state |-> v, bsc |-> b]]
  <2>2. b \in BSCs
    BY DEF Owners, Open, AInv, TypeOK
  <2>3. /\ \A x \in Eps \ {e} : parked[x] = slots[x]
        /\ parked[e].id = t /\ parked[e].bsc = b
    BY <1>4 DEF AInv, TypeOK
  <2>4. CASE v \in {"CRCX", "MDCX"}
    <3>1. slots' = parked /\ toBsc' = [toBsc EXCEPT ![b] = @ \cup {t}]
          /\ answers' = answers
      BY <2>1, <2>4 DEF PolicyRelay
    <3>2. \A y \in BSCs : toBsc'[y] \subseteq toBsc[y] \cup {t}
      BY <3>1 DEF AInv, TypeOK
    <3>3. \A x \in Eps : slots'[x] = slots[x] \/ slots'[x].id \in {NoTid} \cup {t}
      BY <2>3, <3>1
    <3>4. CA!MayClose(Tids \ {t})
      BY <1>3, <3>2, <3>3, StepMayClose
    <3>5. Awaited(t)'
      <4>1. t \in toBsc'[b]
        BY <2>2, <3>1 DEF AInv, TypeOK
      <4>. QED
        BY <1>4, <2>2, <2>3, <3>1, <4>1 DEF Awaited, Relayed, Parked
    <3>6. phaseBar'[t] = "pending"
      BY <1>3, <3>5 DEF phaseBar, PhaseOf
    <3>. QED
      BY <1>3, <3>1, <3>4, <3>6 DEF CA!Send
  <2>5. CASE v = "DLCX"
    <3>1. slots' = DlcxSlots({c}, parked) /\ toBsc' = toBsc /\ answers' = Answer(t)
      BY <2>1, <2>5 DEF PolicyRelay
    <3>2. \A x \in Eps : slots'[x] = parked[x] \/ slots'[x].id = NoTid
      BY <3>1, DlcxSlotsClear
    <3>3. \A x \in Eps : slots'[x] = slots[x] \/ slots'[x].id \in {NoTid} \cup {t}
      BY <2>3, <3>2
    <3>4. CA!MayClose(Tids \ {t})
      BY <1>3, <3>1, <3>3, StepMayClose
    <3>5. ~Awaited(t)'
      BY <1>2, <3>1 DEF Awaited, Relayed, Parked
    <3>6. phaseBar'[t] = "closed"
      BY <1>3, <3>5 DEF phaseBar, PhaseOf
    <3>. QED
      BY <1>3, <1>5, <3>1, <3>4, <3>6 DEF CA!AnswerAtOnce
  <2>. QED
    BY <2>4, <2>5 DEF Verbs
<1>. QED
  BY <1>6, <1>7 DEF Policy

-----------------------------------------------------------------------------
(* The refinement.                                                        *)

\* Every step of the NAT core is a step of the Call Agent's view, or leaves
\* it unchanged.
LEMMA NextRefines == AInv /\ [Next]_vars => [CA!Next]_CA!vars
<1> SUFFICES ASSUME AInv, [Next]_vars PROVE [CA!Next]_CA!vars
  OBVIOUS
<1>1. CASE \E c \in Conns, b \in BSCs : OpenConn(c, b)
  BY <1>1, OpenConnRefines DEF CA!Next
<1>2. CASE \E c \in Conns : CloseConn(c)
  BY <1>2, CloseConnRefines DEF CA!Next
<1>3. CASE \E c \in Conns, cic \in Cics : AssignPatch(c, cic)
  BY <1>3, AssignPatchRefines DEF CA!Next
<1>4. CASE \E e \in MscEps, v \in Verbs, t \in Tids, ok \in BOOLEAN : Policy(e, v, t, ok)
  BY <1>4, PolicyRefines DEF CA!Next
<1>5. CASE \E b \in BSCs, t \in Tids, hasCi, ok \in BOOLEAN : Forward(b, t, hasCi, ok)
  BY <1>5, ForwardRefines DEF CA!Next
<1>6. CASE \E b \in BSCs : BscDisconnect(b)
  BY <1>6, BscDisconnectRefines DEF CA!Next, AInv
<1>7. CASE UNCHANGED vars
  BY <1>7 DEF vars, natVars, envVars, CA!vars, phaseBar, PhaseOf, Awaited, Relayed, Parked
<1>. QED
  BY <1>1, <1>2, <1>3, <1>4, <1>5, <1>6, <1>7 DEF Next

\* The NAT core implements CallAgentTransactions under the mapping phaseBar
\* (the property TransactionsRefined): each transaction the policy callback
\* takes is answered at once or relayed; a relayed one is answered once, by
\* bsc_mgcp_forward, or dropped and never answered later; nothing reopens.
THEOREM TransactionsRefine == Spec => TransactionsRefined
<1>1. Init => CA!Init
  BY DEF Init, CA!Init, phaseBar, PhaseOf
<1>. QED
  BY <1>1, InitAInv, NextAInv, NextRefines, PTL
     DEF Spec, TransactionsRefined, CA!Spec

\* The Call Agent's guarantee carried over to the NAT (the invariant
\* AnswerClosesTransaction): the parser and bsc_mgcp_forward answer each
\* transaction id at most once, never one the Call Agent has not used, and
\* never one still parked in a slot and relayed to its BSC.  It follows
\* from the refinement and the abstract theorem, with no further reasoning
\* about the NAT's code.
THEOREM AnswersCloseTransactions == Spec => []AnswerClosesTransaction
<1>1. CAP!Next <=> CA!Next
  BY DEF CAP!Next, CA!Next, CAP!Send, CA!Send, CAP!AnswerAtOnce, CA!AnswerAtOnce,
     CAP!Reply, CA!Reply, CAP!Abandon, CA!Abandon, CAP!MayClose, CA!MayClose,
     CAP!Phases, CA!Phases
<1>2. CA!Spec => []CA!AnsweredOnlyWhenClosed
  BY <1>1, CAP!AnsweredOnlyWhenClosedHolds, PTL
     DEF CAP!Spec, CA!Spec, CAP!Init, CA!Init, CAP!vars, CA!vars,
         CAP!AnsweredOnlyWhenClosed, CA!AnsweredOnlyWhenClosed
<1>. QED
  BY <1>2, TransactionsRefine, PTL DEF TransactionsRefined, AnswerClosesTransaction
=============================================================================
