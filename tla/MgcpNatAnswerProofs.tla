------------------------ MODULE MgcpNatAnswerProofs ------------------------
(***************************************************************************)
(* Proofs about transactions and teardown in the BSC NAT (module MgcpNat): *)
(* the Call Agent is answered at most once per transaction, and a         *)
(* teardown never writes the pending slot at index -1, for every set of   *)
(* BSCs, connections and transactions and every trunk size.               *)
(***************************************************************************)
EXTENDS MgcpNatProofs

-----------------------------------------------------------------------------
(* The inductive invariant behind AnsweredAtMostOnce.                      *)

\* A transaction id the Call Agent has not used yet has no answer, was sent
\* to no BSC and is parked in no pending slot.
FreshTidsUnused ==
    \A t \in Tids \ usedTids :
        /\ answers[t] = 0
        /\ \A b \in BSCs : t \notin toBsc[b]
        /\ \A e \in Eps : slots[e].id # t

\* A transaction id is parked in at most one pending slot (talloc_strdup of
\* a fresh id in bsc_mgcp_policy_cb, one slot per endpoint).
TidInOneSlot ==
    \A e1, e2 \in Eps :
        slots[e1].id = slots[e2].id /\ slots[e1].id # NoTid => e1 = e2

\* A parked transaction that its BSC may still answer has not been answered:
\* bsc_mgcp_forward answers it at most once, and then clears the slot.
AwaitedUnanswered ==
    \A e \in Eps :
        slots[e].bsc \in BSCs /\ slots[e].id \in toBsc[slots[e].bsc]
            => answers[slots[e].id] = 0

AInv ==
    /\ TypeOK
    /\ AnsweredAtMostOnce
    /\ FreshTidsUnused
    /\ TidInOneSlot
    /\ AwaitedUnanswered

\* One more answer to an unanswered transaction t makes its count 1 and
\* leaves the others alone.
LEMMA AnswerFresh ==
    ASSUME answers \in [Tids -> 0 .. AnswerCap], NEW t \in Tids, answers[t] = 0
    PROVE  /\ Answer(t) \in [Tids -> 0 .. AnswerCap]
           /\ Answer(t)[t] = 1
           /\ \A u \in Tids \ {t} : Answer(t)[u] = answers[u]
BY DEF Answer, AnswerCap

\* A step that only empties pending slots (sets their id to NULL), keeps
\* the answers and the used ids, and sends nothing new to a BSC keeps AInv:
\* teardown, the assignment patcher and BSC loss are such steps.
LEMMA ClearingKeepsAInv ==
    ASSUME AInv, TypeOK',
           answers' = answers, usedTids' = usedTids,
           \A b \in BSCs : toBsc'[b] \subseteq toBsc[b],
           \A e \in Eps : slots'[e] = slots[e] \/ slots'[e].id = NoTid
    PROVE  AInv'
<1>1. FreshTidsUnused'
  BY NullAssumption DEF AInv, FreshTidsUnused
<1>2. TidInOneSlot'
  BY DEF AInv, TidInOneSlot
<1>3. AwaitedUnanswered'
  <2> SUFFICES ASSUME NEW e \in Eps, slots'[e].bsc \in BSCs,
                      slots'[e].id \in toBsc'[slots'[e].bsc]
               PROVE  answers'[slots'[e].id] = 0
    BY DEF AwaitedUnanswered
  <2>1. CASE slots'[e] = slots[e]
    BY <2>1 DEF AInv, AwaitedUnanswered
  <2>2. CASE slots'[e].id = NoTid
    <3>1. toBsc'[slots'[e].bsc] \subseteq Tids
      BY DEF TypeOK
    <3>. QED
      BY <2>2, <3>1, NullAssumption
  <2>. QED
    BY <2>1, <2>2
<1>. QED
  BY <1>1, <1>2, <1>3 DEF AInv, AnsweredAtMostOnce

\* The slots bsc_mgcp_dlcx leaves are the old ones or empty.
LEMMA DlcxSlotsClear ==
    ASSUME NEW S, NEW sl, NEW e \in Eps
    PROVE  DlcxSlots(S, sl)[e] = sl[e] \/ DlcxSlots(S, sl)[e].id = NoTid
BY DEF DlcxSlots, FreeSlot

LEMMA OpenConnAInv ==
    ASSUME AInv, NEW c \in Conns, NEW b \in BSCs, OpenConn(c, b)
    PROVE  AInv'
BY OpenConnTypeOK, ClearingKeepsAInv DEF AInv, OpenConn, envVars

LEMMA CloseConnAInv ==
    ASSUME AInv, NEW c \in Conns, CloseConn(c)
    PROVE  AInv'
BY CloseConnTypeOK, ClearingKeepsAInv, DlcxSlotsClear DEF AInv, CloseConn

LEMMA AssignPatchAInv ==
    ASSUME AInv, NEW c \in Conns, NEW cic \in Cics, AssignPatch(c, cic)
    PROVE  AInv'
<1>1. slots' = DlcxSlots({m \in Open : mscEndp[m] = CicToEndpoint(cic)}, slots)
  BY DEF AssignPatch
<1>2. \A e \in Eps : slots'[e] = slots[e] \/ slots'[e].id = NoTid
  BY <1>1, DlcxSlotsClear
<1>3. answers' = answers /\ usedTids' = usedTids /\ toBsc' = toBsc
  BY DEF AssignPatch
<1>. QED
  BY <1>2, <1>3, AssignPatchTypeOK, ClearingKeepsAInv DEF AInv

LEMMA BscDisconnectAInv ==
    ASSUME AInv, NEW b \in BSCs, BscDisconnect(b)
    PROVE  AInv'
<1>1. \A e \in Eps : slots'[e] = slots[e] \/ slots'[e].id = NoTid
  BY DEF BscDisconnect, FreeSlot
<1>2. \A y \in BSCs : toBsc'[y] \subseteq toBsc[y]
  BY DEF BscDisconnect, AInv, TypeOK
<1>. QED
  BY <1>1, <1>2, BscDisconnectTypeOK, ClearingKeepsAInv DEF AInv, BscDisconnect
-----------------------------------------------------------------------------
\* The parser answers a fresh transaction itself (REJECT / CONTINUE, or a
\* failed rewrite): its count becomes 1 and no slot or BSC holds it.
LEMMA PolicyAnswerAInv ==
    ASSUME AInv, NEW e \in MscEps, NEW v \in Verbs, NEW t \in Tids,
           NEW ok \in BOOLEAN, Policy(e, v, t, ok),
           slots' = [slots EXCEPT ![e] = FreeSlot], answers' = Answer(t),
           toBsc' = toBsc
    PROVE  AInv'
<1>1. t \notin usedTids /\ usedTids' = usedTids \cup {t}
  BY DEF Policy
<1>2. /\ answers[t] = 0
      /\ \A b \in BSCs : t \notin toBsc[b]
      /\ \A i \in Eps : slots[i].id # t
  BY <1>1 DEF AInv, FreshTidsUnused
<1>3. /\ Answer(t)[t] = 1
      /\ \A u \in Tids \ {t} : Answer(t)[u] = answers[u]
  BY <1>2, AnswerFresh DEF AInv, TypeOK
<1>4. \A i \in Eps : slots'[i] = slots[i] \/ slots'[i].id = NoTid
  BY DEF AInv, TypeOK, FreeSlot
<1>5. TypeOK'
  BY PolicyTypeOK DEF AInv
<1>6. AnsweredAtMostOnce'
  BY <1>3 DEF AInv, AnsweredAtMostOnce
<1>7. FreshTidsUnused'
  BY <1>1, <1>3, <1>4, NullAssumption DEF AInv, FreshTidsUnused
<1>8. TidInOneSlot'
  BY <1>4 DEF AInv, TidInOneSlot
<1>9. AwaitedUnanswered'
  <2> SUFFICES ASSUME NEW i \in Eps, slots'[i].bsc \in BSCs,
                      slots'[i].id \in toBsc'[slots'[i].bsc]
               PROVE  answers'[slots'[i].id] = 0
    BY DEF AwaitedUnanswered
  <2>1. slots'[i] = slots[i] /\ slots[i].id \in Tids \ {t}
    BY <1>2, <1>4, <1>5, NullAssumption DEF TypeOK
  <2>. QED
    BY <1>3, <2>1 DEF AInv, AwaitedUnanswered
<1>. QED
  BY <1>5, <1>6, <1>7, <1>8, <1>9 DEF AInv

\* A fresh transaction is relayed to the BSC of connection c and parked.
\* A CRCX or MDCX is sent (DEFER) and not answered; a DLCX is answered by
\* the parser and never sent.
LEMMA PolicyRelayAInv ==
    ASSUME AInv, NEW e \in MscEps, NEW v \in Verbs, NEW t \in Tids,
           NEW ok \in BOOLEAN, Policy(e, v, t, ok),
           NEW c \in Owners(e), PolicyRelay(c, e, v, t)
    PROVE  AInv'
<1>. DEFINE b == conBsc[c]
            parked == [slots EXCEPT ![e] = [id |-> t, state |-> v, bsc |-> b]]
<1>1. t \notin usedTids /\ usedTids' = usedTids \cup {t}
  BY DEF Policy
<1>2. /\ answers[t] = 0
      /\ \A y \in BSCs : t \notin toBsc[y]
      /\ \A i \in Eps : slots[i].id # t
  BY <1>1 DEF AInv, FreshTidsUnused
<1>3. TypeOK'
  BY PolicyTypeOK DEF AInv
<1>4. b \in BSCs /\ e \in Eps
  <2>1. b \in BSCs
    BY DEF Owners, Open, AInv, TypeOK
  <2>2. e \in Eps
    BY NumEndpointsAssumption DEF MscEps, Eps
  <2>. QED
    BY <2>1, <2>2
<1>5. \A i \in Eps \ {e} : parked[i] = slots[i]
  BY DEF AInv, TypeOK
<1>6. CASE v \in {"CRCX", "MDCX"}
  <2>1. slots' = parked /\ toBsc' = [toBsc EXCEPT ![b] = @ \cup {t}]
        /\ answers' = answers
    BY <1>6 DEF PolicyRelay
  <2>2. \A y \in BSCs : toBsc'[y] \subseteq toBsc[y] \cup {t}
    BY <2>1 DEF AInv, TypeOK
  <2>3. slots'[e].id = t /\ slots'[e].bsc = b
    BY <1>4, <2>1 DEF AInv, TypeOK
  <2>4. FreshTidsUnused'
    BY <1>1, <1>5, <2>1, <2>2, <2>3 DEF AInv, FreshTidsUnused
  <2>5. TidInOneSlot'
    BY <1>2, <1>5, <2>1, <2>3 DEF AInv, TidInOneSlot
  <2>6. AwaitedUnanswered'
    <3> SUFFICES ASSUME NEW i \in Eps, slots'[i].bsc \in BSCs,
                        slots'[i].id \in toBsc'[slots'[i].bsc]
                 PROVE  answers'[slots'[i].id] = 0
      BY DEF AwaitedUnanswered
    <3>1. CASE i = e
      BY <1>2, <2>1, <2>3, <3>1
    <3>2. CASE i # e
      <4>1. slots'[i] = slots[i] /\ slots[i].id # t
        BY <1>2, <1>5, <2>1, <3>2
      <4>. QED
        BY <2>1, <2>2, <4>1 DEF AInv, AwaitedUnanswered
    <3>. QED
      BY <3>1, <3>2
  <2>. QED
    BY <1>3, <2>1, <2>4, <2>5, <2>6 DEF AInv, AnsweredAtMostOnce
<1>7. CASE v = "DLCX"
  <2>1. slots' = DlcxSlots({c}, parked) /\ toBsc' = toBsc /\ answers' = Answer(t)
    BY <1>7 DEF PolicyRelay
  <2>2. \A i \in Eps : slots'[i] = parked[i] \/ slots'[i].id = NoTid
    BY <2>1, DlcxSlotsClear
  <2>3. /\ Answer(t)[t] = 1
        /\ \A u \in Tids \ {t} : Answer(t)[u] = answers[u]
    BY <1>2, AnswerFresh DEF AInv, TypeOK
  <2>4. \A i \in Eps : slots'[i].id # NoTid =>
                          \/ slots'[i] = slots[i]
                          \/ i = e /\ slots'[i].id = t
    <3> SUFFICES ASSUME NEW i \in Eps, slots'[i].id # NoTid
                 PROVE  \/ slots'[i] = slots[i]
                        \/ i = e /\ slots'[i].id = t
      OBVIOUS
    <3>1. slots'[i] = parked[i]
      BY <2>2
    <3>2. CASE i = e
      <4>1. parked[e].id = t
        BY <1>4 DEF AInv, TypeOK
      <4>. QED
        BY <3>1, <3>2, <4>1
    <3>3. CASE i # e
      BY <1>5, <3>1, <3>3
    <3>. QED
      BY <3>2, <3>3
  <2>5. AnsweredAtMostOnce'
    BY <2>1, <2>3 DEF AInv, AnsweredAtMostOnce
  <2>6. FreshTidsUnused'
    <3> SUFFICES ASSUME NEW u \in Tids \ usedTids'
                 PROVE  /\ answers'[u] = 0
                        /\ \A y \in BSCs : u \notin toBsc'[y]
                        /\ \A i \in Eps : slots'[i].id # u
      BY DEF FreshTidsUnused
    <3>1. u # t /\ u \in Tids \ usedTids
      BY <1>1
    <3>2. answers'[u] = 0 /\ \A y \in BSCs : u \notin toBsc'[y]
      BY <2>1, <2>3, <3>1 DEF AInv, FreshTidsUnused
    <3>3. ASSUME NEW i \in Eps PROVE slots'[i].id # u
      <4>1. CASE slots'[i].id = NoTid
        BY <4>1, NullAssumption
      <4>2. CASE slots'[i].id # NoTid
        BY <2>4, <3>1, <4>2 DEF AInv, FreshTidsUnused
      <4>. QED
        BY <4>1, <4>2
    <3>. QED
      BY <3>2, <3>3
  <2>7. TidInOneSlot'
    BY <1>2, <2>4 DEF AInv, TidInOneSlot
  <2>8. AwaitedUnanswered'
    <3> SUFFICES ASSUME NEW i \in Eps, slots'[i].bsc \in BSCs,
                        slots'[i].id \in toBsc'[slots'[i].bsc]
                 PROVE  answers'[slots'[i].id] = 0
      BY DEF AwaitedUnanswered
    <3>1. slots'[i].id # NoTid /\ slots'[i].id # t
      BY <1>2, <2>1, <1>3, NullAssumption DEF TypeOK
    <3>2. slots'[i] = slots[i]
      BY <2>4, <3>1
    <3>. QED
      BY <2>1, <2>3, <3>1, <3>2 DEF AInv, AwaitedUnanswered, TypeOK
  <2>. QED
    BY <1>3, <2>5, <2>6, <2>7, <2>8 DEF AInv
<1>. QED
  BY <1>6, <1>7 DEF Verbs

LEMMA PolicyAInv ==
    ASSUME AInv, NEW e \in MscEps, NEW v \in Verbs, NEW t \in Tids,
           NEW ok \in BOOLEAN, Policy(e, v, t, ok)
    PROVE  AInv'
<1>1. CASE slots' = [slots EXCEPT ![e] = FreeSlot] /\ answers' = Answer(t)
           /\ toBsc' = toBsc
  BY <1>1, PolicyAnswerAInv
<1>2. CASE \E c \in Owners(e) : PolicyRelay(c, e, v, t)
  BY <1>2, PolicyRelayAInv
<1>. QED
  BY <1>1, <1>2 DEF Policy
-----------------------------------------------------------------------------
\* BSC b answers transaction t: the slot found is t's only one and t is
\* unanswered, so the one answer forwarded makes its count 1; a late or
\* second reply finds no slot and is not a step.
LEMMA ForwardAInv ==
    ASSUME AInv, NEW b \in BSCs, NEW t \in Tids, NEW hasCi \in BOOLEAN,
           NEW ok \in BOOLEAN, Forward(b, t, hasCi, ok)
    PROVE  AInv'
<1>. DEFINE match == {i \in MscEps : slots[i].bsc = b /\ slots[i].id = t}
            j == Least(match)
<1>1. t \in toBsc[b] /\ match # {}
  BY DEF Forward
<1>2. j \in match
  <2>1. match \in SUBSET Nat
    BY DEF MscEps
  <2>. QED
    BY <1>1, <2>1, LeastIsMinimum
<1>3. j \in Eps /\ slots[j].bsc = b /\ slots[j].id = t
  <2>1. j \in MscEps /\ slots[j].bsc = b /\ slots[j].id = t
    BY <1>2
  <2>2. MscEps \subseteq Eps
    BY NumEndpointsAssumption DEF MscEps, Eps
  <2>. QED
    BY <2>1, <2>2
<1>4. answers[t] = 0 /\ t \in usedTids
  <2>1. answers[t] = 0
    BY <1>1, <1>3 DEF AInv, AwaitedUnanswered
  <2>2. t \in usedTids
    BY <1>1 DEF AInv, FreshTidsUnused
  <2>. QED
    BY <2>1, <2>2
<1>5. \A i \in Eps \ {j} : slots[i].id # t
  BY <1>3, NullAssumption DEF AInv, TidInOneSlot
<1>6. /\ \A i \in Eps : slots'[i] = slots[i] \/ slots'[i].id = NoTid
      /\ slots'[j].id = NoTid
  <2>1. PICK r : /\ slots' = [slots EXCEPT ![j] = r]
                /\ r.id = NoTid
    <3>1. CASE hasCi
      <4>1. slots' = [slots EXCEPT ![j] = [id |-> NoTid, state |-> "none",
                                           bsc |-> slots[j].bsc]]
        BY <3>1 DEF Forward
      <4>2. [id |-> NoTid, state |-> "none", bsc |-> slots[j].bsc].id = NoTid
        OBVIOUS
      <4>. QED
        BY <4>1, <4>2
    <3>2. CASE ~hasCi
      <4>1. slots' = [slots EXCEPT ![j] = FreeSlot]
        BY <3>2 DEF Forward
      <4>2. FreeSlot.id = NoTid
        BY DEF FreeSlot
      <4>. QED
        BY <4>1, <4>2
    <3>. QED
      BY <3>1, <3>2
  <2>. QED
    BY <1>3, <2>1 DEF AInv, TypeOK
<1>7. /\ answers' \in [Tids -> 0 .. AnswerCap]
      /\ answers'[t] =< 1
      /\ \A u \in Tids \ {t} : answers'[u] = answers[u]
  <2>1. answers' = Answer(t) \/ answers' = answers
    BY DEF Forward
  <2>. QED
    BY <1>4, <2>1, AnswerFresh DEF AInv, TypeOK
<1>8. UNCHANGED <<toBsc, usedTids>>
  BY DEF Forward
<1>9. AnsweredAtMostOnce'
  BY <1>7 DEF AInv, AnsweredAtMostOnce
<1>10. FreshTidsUnused'
  BY <1>4, <1>6, <1>7, <1>8, NullAssumption DEF AInv, FreshTidsUnused
<1>11. TidInOneSlot'
  BY <1>6 DEF AInv, TidInOneSlot
<1>12. AwaitedUnanswered'
  <2> SUFFICES ASSUME NEW i \in Eps, slots'[i].bsc \in BSCs,
                      slots'[i].id \in toBsc'[slots'[i].bsc]
               PROVE  answers'[slots'[i].id] = 0
    BY DEF AwaitedUnanswered
  <2>1. slots'[i].id # NoTid
    BY <1>8, NullAssumption DEF AInv, TypeOK
  <2>2. i # j /\ slots'[i] = slots[i]
    BY <1>6, <2>1
  <2>3. slots[i].id \in Tids \ {t}
    BY <1>5, <1>8, <2>2 DEF AInv, TypeOK
  <2>. QED
    BY <1>7, <1>8, <2>2, <2>3 DEF AInv, AwaitedUnanswered
<1>. QED
  BY ForwardTypeOK, <1>9, <1>10, <1>11, <1>12 DEF AInv

LEMMA InitAInv == Init => AInv
BY InitTypeOK, NullAssumption
   DEF Init, AInv, AnsweredAtMostOnce, FreshTidsUnused, TidInOneSlot,
       AwaitedUnanswered, FreeSlot

LEMMA NextAInv == AInv /\ [Next]_vars => AInv'
<1> SUFFICES ASSUME AInv, [Next]_vars PROVE AInv'
  OBVIOUS
<1>1. CASE \E c \in Conns, b \in BSCs : OpenConn(c, b)
  BY <1>1, OpenConnAInv
<1>2. CASE \E c \in Conns : CloseConn(c)
  BY <1>2, CloseConnAInv
<1>3. CASE \E c \in Conns, cic \in Cics : AssignPatch(c, cic)
  BY <1>3, AssignPatchAInv
<1>4. CASE \E e \in MscEps, v \in Verbs, t \in Tids, ok \in BOOLEAN :
             Policy(e, v, t, ok)
  BY <1>4, PolicyAInv
<1>5. CASE \E b \in BSCs, t \in Tids, hasCi, ok \in BOOLEAN :
             Forward(b, t, hasCi, ok)
  BY <1>5, ForwardAInv
<1>6. CASE \E b \in BSCs : BscDisconnect(b)
  BY <1>6, BscDisconnectAInv
<1>7. CASE UNCHANGED vars
  BY <1>7
     DEF vars, natVars, envVars, AInv, TypeOK, AnsweredAtMostOnce,
         FreshTidsUnused, TidInOneSlot, AwaitedUnanswered
<1>. QED
  BY <1>1, <1>2, <1>3, <1>4, <1>5, <1>6, <1>7 DEF Next

\* The Call Agent gets at most one answer per transaction, for every
\* configuration and however often and late the BSCs answer: the parser's
\* own answer and a forwarded BSC reply exclude each other, and
\* bsc_mgcp_forward releases the transaction id of the reply it forwards
\* (theorem of the run nat_core).
THEOREM AnsweredOnce == Spec => []AnsweredAtMostOnce
<1>1. AInv => AnsweredAtMostOnce
  BY DEF AInv
<1>. QED
  BY InitAInv, NextAInv, <1>1, PTL DEF Spec
-----------------------------------------------------------------------------
(* Teardown indexes the pending slots in bounds.                          *)

\* A connection holding a BSC endpoint also holds a Call Agent endpoint:
\* bsc_mgcp_assign_patch sets msc_endp (line 218) before it allocates
\* bsc_endp, and every reset (bsc_mgcp_init) clears both.
BscEndpNeedsMscEndp ==
    \A c \in Open : bscEndp[c] # NoEndp => mscEndp[c] # NoEndp

BInv == TypeOK /\ BscEndpNeedsMscEndp

\* A step after which every open connection with a BSC endpoint either is
\* unchanged or holds a Call Agent endpoint keeps BInv.
LEMMA BindingKeepsBInv ==
    ASSUME BInv, TypeOK',
           \A m \in Open' : bscEndp'[m] # NoEndp =>
               \/ m \in Open /\ bscEndp'[m] = bscEndp[m] /\ mscEndp'[m] = mscEndp[m]
               \/ mscEndp'[m] # NoEndp
    PROVE  BInv'
BY DEF BInv, BscEndpNeedsMscEndp

LEMMA AssignPatchBInv ==
    ASSUME BInv, NEW c \in Conns, NEW cic \in Cics, AssignPatch(c, cic)
    PROVE  BInv'
<1>. DEFINE endp  == CicToEndpoint(cic)
            stale == {m \in Open : mscEndp[m] = endp}
<1>1. endp \in Nat
  BY CicToEndpointNat, CicsAssumption
<1>2. mscEndp' = [BscMgcpInit(stale, mscEndp) EXCEPT ![c] = endp]
  BY DEF AssignPatch
<1>3. Open' = Open /\ c \in Open
  BY DEF AssignPatch, Open
<1>4. \A m \in Open \ {c} :
        \/ m \in stale /\ bscEndp'[m] = NoEndp
        \/ m \notin stale /\ bscEndp'[m] = bscEndp[m] /\ mscEndp'[m] = mscEndp[m]
  <2> SUFFICES ASSUME NEW m \in Open \ {c}
               PROVE  \/ m \in stale /\ bscEndp'[m] = NoEndp
                      \/ m \notin stale /\ bscEndp'[m] = bscEndp[m] /\ mscEndp'[m] = mscEndp[m]
    OBVIOUS
  <2>1. m \in Conns
    BY DEF Open
  <2>2. bscEndp'[m] = BscMgcpInit(stale, bscEndp)[m]
    BY <2>1 DEF AssignPatch, BscMgcpInit
  <2>3. mscEndp'[m] = BscMgcpInit(stale, mscEndp)[m]
    BY <1>2, <2>1 DEF BscMgcpInit
  <2>. QED
    BY <2>1, <2>2, <2>3 DEF BscMgcpInit
<1>5. mscEndp'[c] # NoEndp
  <2>1. mscEndp'[c] = endp
    BY <1>2 DEF BscMgcpInit
  <2>. QED
    BY <1>1, <2>1 DEF NoEndp
<1>. QED
  BY <1>3, <1>4, <1>5, AssignPatchTypeOK, BindingKeepsBInv DEF BInv

LEMMA NextBInv == BInv /\ [Next]_vars => BInv'
<1> SUFFICES ASSUME BInv, [Next]_vars PROVE BInv'
  OBVIOUS
<1>1. TypeOK'
  BY NextTypeOK DEF BInv
<1>2. CASE \E c \in Conns, b \in BSCs : OpenConn(c, b)
  BY <1>1, <1>2, BindingKeepsBInv DEF OpenConn, Open, BInv, TypeOK
<1>3. CASE \E c \in Conns : CloseConn(c)
  BY <1>1, <1>3, BindingKeepsBInv DEF CloseConn, BscMgcpInit, Open, BInv, TypeOK
<1>4. CASE \E c \in Conns, cic \in Cics : AssignPatch(c, cic)
  BY <1>4, AssignPatchBInv
<1>5. CASE \E e \in MscEps, v \in Verbs, t \in Tids, ok \in BOOLEAN :
             Policy(e, v, t, ok)
  <2>1. PICK e \in MscEps, v \in Verbs, t \in Tids, ok \in BOOLEAN : Policy(e, v, t, ok)
    BY <1>5
  <2>2. Open' = Open
    BY <2>1 DEF Policy, Open
  <2>3. CASE UNCHANGED <<mscEndp, bscEndp>>
    BY <1>1, <2>2, <2>3, BindingKeepsBInv
  <2>4. CASE ~UNCHANGED <<mscEndp, bscEndp>>
    <3>1. PICK c \in Conns : /\ mscEndp' = BscMgcpInit({c}, mscEndp)
                             /\ bscEndp' = BscMgcpInit({c}, bscEndp)
      BY <2>1, <2>4 DEF Policy, PolicyRelay, Owners, Open
    <3>. QED
      BY <1>1, <2>2, <3>1, BindingKeepsBInv DEF BscMgcpInit, Open
  <2>. QED
    BY <2>3, <2>4
<1>6. CASE \E b \in BSCs, t \in Tids, hasCi, ok \in BOOLEAN :
             Forward(b, t, hasCi, ok)
  BY <1>1, <1>6, BindingKeepsBInv DEF Forward, Open
<1>7. CASE \E b \in BSCs : BscDisconnect(b)
  <2>1. PICK b \in BSCs : BscDisconnect(b)
    BY <1>7
  <2>2. ASSUME NEW m \in Open'
        PROVE  m \in Open /\ bscEndp'[m] = bscEndp[m] /\ mscEndp'[m] = mscEndp[m]
    <3>1. m \in Conns /\ conBsc'[m] # NoBsc
      BY DEF Open
    <3>2. m \notin {c \in Open : conBsc[c] = b}
      BY <2>1, <3>1 DEF BscDisconnect
    <3>3. m \in Open
      BY <2>1, <3>1, <3>2 DEF BscDisconnect, Open
    <3>. QED
      BY <2>1, <3>1, <3>2, <3>3 DEF BscDisconnect, BscMgcpInit
  <2>. QED
    BY <1>1, <2>2, BindingKeepsBInv
<1>8. CASE UNCHANGED vars
  BY <1>1, <1>8, BindingKeepsBInv DEF vars, natVars, Open
<1>. QED
  BY <1>2, <1>3, <1>4, <1>5, <1>6, <1>7, <1>8 DEF Next

\* bsc_mgcp_dlcx writes nat->bsc_endpoints[con->msc_endp] only for a
\* connection with a BSC endpoint, and such a connection always has a Call
\* Agent endpoint in range, even after a failed allocation: the write is
\* never at index -1 (theorem of the run nat_core).
THEOREM TeardownInBounds == Spec => []TeardownSlotInBounds
<1>1. Init => BInv
  BY InitTypeOK DEF Init, BInv, BscEndpNeedsMscEndp, Open
<1>2. BInv => TeardownSlotInBounds
  <2> SUFFICES ASSUME BInv, NEW c \in Open, bscEndp[c] # NoEndp
               PROVE  mscEndp[c] \in Eps
    BY DEF TeardownSlotInBounds
  <2>1. mscEndp[c] # NoEndp
    BY DEF BInv, BscEndpNeedsMscEndp
  <2>2. mscEndp[c] \in {NoEndp} \cup (0 .. NumEndpoints - 1)
    BY DEF BInv, TypeOK, Open
  <2>. QED
    BY <2>1, <2>2, NumEndpointsAssumption DEF Eps
<1>. QED
  BY <1>1, <1>2, NextBInv, PTL DEF Spec
=============================================================================
