--------------------------- MODULE MgcpNatProofs ---------------------------
(***************************************************************************)
(* Proofs about the media-gateway core of the BSC NAT (module MgcpNat),   *)
(* for every set of BSCs, connections and transactions, every trunk size  *)
(* and every max_endpoints.                                              *)
(***************************************************************************)
EXTENDS MgcpNat, BscEndpointsProofs

-----------------------------------------------------------------------------
(* Type correctness.                                                      *)

USE NumEndpointsAssumption, MaxEndpointsAssumption, NullAssumption

LEMMA InitTypeOK == Init => TypeOK
BY DEF Init, TypeOK, FreeSlot, Eps, AnswerCap

LEMMA OpenConnTypeOK ==
    ASSUME TypeOK, NEW c \in Conns, NEW b \in BSCs, OpenConn(c, b)
    PROVE  TypeOK'
BY DEF OpenConn, TypeOK, envVars

LEMMA CloseConnTypeOK ==
    ASSUME TypeOK, NEW c \in Conns, CloseConn(c)
    PROVE  TypeOK'
BY DEF CloseConn, TypeOK, BscMgcpInit, DlcxInUse, DlcxView, DlcxSlots,
       FreeSlot, Eps

LEMMA AssignPatchTypeOK ==
    ASSUME TypeOK, NEW c \in Conns, NEW cic \in Cics, AssignPatch(c, cic)
    PROVE  TypeOK'
<1>. DEFINE endp  == CicToEndpoint(cic)
            b     == conBsc[c]
            stale == {m \in Open : mscEndp[m] = endp}
            freed == DlcxInUse(stale)
            x     == AssignEndpoint(freed[b], lastEndp[b], MaxEndpoints)
<1>0. cic \in Nat
  BY CicsAssumption
<1>1. b \in BSCs /\ endp \in 0 .. NumEndpoints - 1
  BY <1>0, CicToEndpointNat DEF AssignPatch, Open, TypeOK
<1>2. x \in {NoEndp} \cup ValidEndpoints(MaxEndpoints)
  BY AssignEndpointRange
<1>3. freed \in [BSCs -> SUBSET ValidEndpoints(MaxEndpoints)]
  BY DEF DlcxInUse, TypeOK
<1>4. mscEndp' \in [Conns -> {NoEndp} \cup (0 .. NumEndpoints - 1)]
  BY <1>1 DEF AssignPatch, BscMgcpInit, TypeOK
<1>5. /\ bscEndp' \in [Conns -> {NoEndp} \cup ValidEndpoints(MaxEndpoints)]
      /\ inUse' \in [BSCs -> SUBSET ValidEndpoints(MaxEndpoints)]
      /\ lastEndp' \in [BSCs -> {0} \cup ValidEndpoints(MaxEndpoints)]
  <2>1. BscMgcpInit(stale, bscEndp)
           \in [Conns -> {NoEndp} \cup ValidEndpoints(MaxEndpoints)]
    BY DEF BscMgcpInit, TypeOK
  <2>2. CASE x = NoEndp
    BY <1>3, <2>1, <2>2 DEF AssignPatch, TypeOK
  <2>3. CASE x # NoEndp
    <3>1. x \in ValidEndpoints(MaxEndpoints)
      BY <1>2, <2>3
    <3>2. /\ inUse' = [freed EXCEPT ![b] = @ \cup {x}]
          /\ bscEndp' = [BscMgcpInit(stale, bscEndp) EXCEPT ![c] = x]
          /\ lastEndp' = [lastEndp EXCEPT ![b] = x]
      BY <2>3 DEF AssignPatch
    <3>. QED
      BY <1>1, <1>3, <2>1, <3>1, <3>2 DEF TypeOK
  <2>. QED
    BY <2>2, <2>3
<1>6. /\ bscView' \in [BSCs -> SUBSET ({NoEndp} \cup ValidEndpoints(MaxEndpoints))]
      /\ slots' \in [Eps -> [id : Tids \cup {NoTid},
                             state : {"none"} \cup Verbs,
                             bsc : BSCs \cup {NoBsc}]]
      /\ endpInit' \in [BSCs -> BOOLEAN]
  BY <1>1 DEF AssignPatch, DlcxView, DlcxSlots, FreeSlot, TypeOK
<1>. QED
  BY <1>4, <1>5, <1>6 DEF AssignPatch, TypeOK

LEMMA PolicyRelayTypeOK ==
    ASSUME TypeOK, NEW e \in MscEps, NEW v \in Verbs, NEW t \in Tids,
           NEW c \in Owners(e), PolicyRelay(c, e, v, t),
           UNCHANGED <<conBsc, endpInit, lastEndp, ci>>,
           usedTids' = usedTids \cup {t}
    PROVE  TypeOK'
<1>1. Answer(t) \in [Tids -> 0 .. AnswerCap]
  BY DEF Answer, AnswerCap, TypeOK
<1>2. e \in Eps /\ c \in Conns /\ conBsc[c] \in BSCs
  BY DEF MscEps, Eps, Owners, Open, TypeOK
<1>3. [slots EXCEPT ![e] = [id |-> t, state |-> v, bsc |-> conBsc[c]]]
         \in [Eps -> [id : Tids \cup {NoTid}, state : {"none"} \cup Verbs,
                      bsc : BSCs \cup {NoBsc}]]
  BY <1>2 DEF TypeOK
<1>4. CASE v = "CRCX"
  <2>1. /\ slots' = [slots EXCEPT ![e] = [id |-> t, state |-> v, bsc |-> conBsc[c]]]
        /\ toBsc' = [toBsc EXCEPT ![conBsc[c]] = @ \cup {t}]
        /\ bscView' = [bscView EXCEPT ![conBsc[c]] = @ \cup {bscEndp[c]}]
        /\ UNCHANGED <<mscEndp, bscEndp, inUse, answers>>
    BY <1>4 DEF PolicyRelay
  <2>. QED
    BY <1>2, <1>3, <2>1 DEF TypeOK
<1>5. CASE v = "MDCX"
  <2>1. /\ slots' = [slots EXCEPT ![e] = [id |-> t, state |-> v, bsc |-> conBsc[c]]]
        /\ toBsc' = [toBsc EXCEPT ![conBsc[c]] = @ \cup {t}]
        /\ UNCHANGED <<mscEndp, bscEndp, inUse, bscView, answers>>
    BY <1>5 DEF PolicyRelay
  <2>. QED
    BY <1>2, <1>3, <2>1 DEF TypeOK
<1>6. CASE v = "DLCX"
  <2>1. /\ slots' = DlcxSlots({c}, [slots EXCEPT ![e] = [id |-> t, state |-> v, bsc |-> conBsc[c]]])
        /\ inUse' = DlcxInUse({c})
        /\ bscView' = DlcxView({c})
        /\ mscEndp' = BscMgcpInit({c}, mscEndp)
        /\ bscEndp' = BscMgcpInit({c}, bscEndp)
        /\ answers' = Answer(t)
        /\ UNCHANGED toBsc
    BY <1>6 DEF PolicyRelay
  <2>. QED
    BY <1>1, <1>2, <1>3, <2>1
       DEF TypeOK, DlcxSlots, DlcxInUse, DlcxView, BscMgcpInit, FreeSlot
<1>. QED
  BY <1>4, <1>5, <1>6 DEF Verbs

LEMMA PolicyTypeOK ==
    ASSUME TypeOK, NEW e \in MscEps, NEW v \in Verbs, NEW t \in Tids,
           NEW ok \in BOOLEAN, Policy(e, v, t, ok)
    PROVE  TypeOK'
<1>1. CASE /\ Owners(e) = {} \/ ~ok
           /\ slots' = [slots EXCEPT ![e] = FreeSlot]
           /\ answers' = Answer(t)
           /\ UNCHANGED <<mscEndp, bscEndp, inUse, toBsc, bscView>>
  <2>1. Answer(t) \in [Tids -> 0 .. AnswerCap]
    BY DEF Answer, AnswerCap, TypeOK
  <2>2. e \in Eps
    BY DEF MscEps, Eps
  <2>. QED
    BY <1>1, <2>1, <2>2 DEF Policy, FreeSlot, TypeOK
<1>2. CASE \E c \in Owners(e) : PolicyRelay(c, e, v, t)
  BY <1>2, PolicyRelayTypeOK DEF Policy
<1>. QED
  BY <1>1, <1>2 DEF Policy

LEMMA ForwardTypeOK ==
    ASSUME TypeOK, NEW b \in BSCs, NEW t \in Tids, NEW hasCi \in BOOLEAN,
           NEW ok \in BOOLEAN, Forward(b, t, hasCi, ok)
    PROVE  TypeOK'
<1>. DEFINE match == {i \in MscEps : slots[i].bsc = b /\ slots[i].id = t}
            i     == Least(match)
<1>1. match # {} /\ match \in SUBSET Nat
  BY DEF Forward, MscEps
<1>2. i \in Eps
  BY <1>1, LeastIsMinimum DEF MscEps, Eps
<1>3. Answer(t) \in [Tids -> 0 .. AnswerCap]
  BY DEF Answer, AnswerCap, TypeOK
<1>4. UNCHANGED <<conBsc, mscEndp, bscEndp, endpInit, inUse, lastEndp, toBsc,
                usedTids>>
  BY DEF Forward
<1>5. CASE hasCi
  <2>1. /\ ci' = [ci EXCEPT ![i] = CiSet]
        /\ slots' = [slots EXCEPT ![i] = [id |-> NoTid, state |-> "none",
                                          bsc |-> slots[i].bsc]]
        /\ answers' = IF ok THEN Answer(t) ELSE answers
        /\ UNCHANGED bscView
    BY <1>5 DEF Forward
  <2>2. slots' \in [Eps -> [id : Tids \cup {NoTid}, state : {"none"} \cup Verbs,
                           bsc : BSCs \cup {NoBsc}]]
    <3>1. slots[i] \in [id : Tids \cup {NoTid}, state : {"none"} \cup Verbs,
                        bsc : BSCs \cup {NoBsc}]
      BY <1>2 DEF TypeOK
    <3>. QED
      BY <1>2, <2>1, <3>1 DEF TypeOK
  <2>3. answers' \in [Tids -> 0 .. AnswerCap]
    BY <1>3, <2>1 DEF TypeOK
  <2>4. ci' \in [Eps -> {CiUnused, CiSet}]
    BY <1>2, <2>1 DEF TypeOK
  <2>. QED
    BY <1>4, <2>1, <2>2, <2>3, <2>4 DEF TypeOK
<1>6. CASE ~hasCi
  <2>1. /\ ci' = [ci EXCEPT ![i] = CiUnused]
        /\ slots' = [slots EXCEPT ![i] = FreeSlot]
        /\ UNCHANGED answers
    BY <1>6 DEF Forward
  <2>2. bscView' \in [BSCs -> SUBSET ({NoEndp} \cup ValidEndpoints(MaxEndpoints))]
    BY <1>6 DEF Forward, TypeOK
  <2>. QED
    BY <1>2, <1>4, <2>1, <2>2 DEF TypeOK, FreeSlot
<1>. QED
  BY <1>5, <1>6

LEMMA BscDisconnectTypeOK ==
    ASSUME TypeOK, NEW b \in BSCs, BscDisconnect(b)
    PROVE  TypeOK'
BY DEF BscDisconnect, TypeOK, BscMgcpInit, FreeSlot, Eps

LEMMA NextTypeOK == TypeOK /\ [Next]_vars => TypeOK'
<1> SUFFICES ASSUME TypeOK, [Next]_vars PROVE TypeOK'
  OBVIOUS
<1>1. CASE \E c \in Conns, b \in BSCs : OpenConn(c, b)
  BY <1>1, OpenConnTypeOK
<1>2. CASE \E c \in Conns : CloseConn(c)
  BY <1>2, CloseConnTypeOK
<1>3. CASE \E c \in Conns, cic \in Cics : AssignPatch(c, cic)
  BY <1>3, AssignPatchTypeOK
<1>4. CASE \E e \in MscEps, v \in Verbs, t \in Tids, ok \in BOOLEAN :
             Policy(e, v, t, ok)
  BY <1>4, PolicyTypeOK
<1>5. CASE \E b \in BSCs, t \in Tids, hasCi, ok \in BOOLEAN :
             Forward(b, t, hasCi, ok)
  BY <1>5, ForwardTypeOK
<1>6. CASE \E b \in BSCs : BscDisconnect(b)
  BY <1>6, BscDisconnectTypeOK
<1>7. CASE UNCHANGED vars
  BY <1>7 DEF vars, natVars, envVars, TypeOK
<1>. QED
  BY <1>1, <1>2, <1>3, <1>4, <1>5, <1>6, <1>7 DEF Next

\* Type correctness of the NAT's state: every endpoint stored in an SCCP
\* connection, a status array, a cursor or a pending slot is one the code
\* may index, for every configuration (theorem of the run nat_core).
THEOREM TypeCorrect == Spec => []TypeOK
BY InitTypeOK, NextTypeOK, PTL DEF Spec

-----------------------------------------------------------------------------
(* Endpoint ownership.                                                    *)

\* A connection holding a BSC endpoint belongs to a BSC whose status array
\* exists, so that bsc_mgcp_dlcx (which tests con->bsc->_endpoint_status)
\* really clears the endpoint when the connection is torn down.
EndpStatusAllocated ==
    \A c \in Open : bscEndp[c] # NoEndp => endpInit[conBsc[c]]

\* The inductive invariant behind the ownership theorems.
IInv ==
    /\ TypeOK
    /\ MscEndpUnique
    /\ SoundAllocation
    /\ EndpStatusAllocated
    /\ BscConnectionsReserved

\* Teardown of a set S of open connections (bsc_mgcp_dlcx on each) keeps
\* the status byte of every endpoint held by an open connection outside S.
LEMMA TeardownKeepsOthers ==
    ASSUME IInv, NEW S \in SUBSET Open, NEW m \in Open \ S,
           bscEndp[m] # NoEndp
    PROVE  bscEndp[m] \in DlcxInUse(S)[conBsc[m]]
<1>1. conBsc[m] \in BSCs
  BY DEF Open, IInv, TypeOK
<1>2. bscEndp[m] \in inUse[conBsc[m]]
  BY DEF IInv, SoundAllocation
<1>3. bscEndp[m] \notin ReleasedBy(S, conBsc[m])
  <2> SUFFICES ASSUME NEW x \in Torn(S), conBsc[x] = conBsc[m],
                      bscEndp[x] = bscEndp[m]
               PROVE  FALSE
    BY DEF ReleasedBy
  <2>1. x \in Open /\ x # m
    BY DEF Torn
  <2>. QED
    BY <2>1 DEF IInv, SoundAllocation
<1>. QED
  BY <1>1, <1>2, <1>3 DEF DlcxInUse

\* Teardown keeps every endpoint the BSCs may still use reserved.
LEMMA TeardownKeepsReserved ==
    ASSUME IInv, NEW S
    PROVE  \A b \in BSCs : \A y \in DlcxView(S)[b] \ {NoEndp} : y \in DlcxInUse(S)[b]
BY DEF IInv, BscConnectionsReserved, DlcxView, DlcxInUse

LEMMA OpenConnIInv ==
    ASSUME IInv, NEW c \in Conns, NEW b \in BSCs, OpenConn(c, b)
    PROVE  IInv'
<1>1. TypeOK'
  BY OpenConnTypeOK DEF IInv
<1>2. Open' = Open \cup {c} /\ c \notin Open
  BY DEF Open, OpenConn, IInv, TypeOK
<1>3. MscEndpUnique'
  BY <1>2 DEF OpenConn, IInv, TypeOK, MscEndpUnique
<1>4. SoundAllocation'
  BY <1>2 DEF OpenConn, IInv, TypeOK, SoundAllocation, envVars
<1>5. EndpStatusAllocated'
  BY <1>2 DEF OpenConn, IInv, TypeOK, EndpStatusAllocated, envVars
<1>6. BscConnectionsReserved'
  BY DEF OpenConn, IInv, BscConnectionsReserved, envVars
<1>. QED
  BY <1>1, <1>3, <1>4, <1>5, <1>6 DEF IInv

LEMMA CloseConnIInv ==
    ASSUME IInv, NEW c \in Conns, CloseConn(c)
    PROVE  IInv'
<1>1. TypeOK'
  BY CloseConnTypeOK DEF IInv
<1>2. Open' = Open \ {c} /\ c \in Open
  BY DEF Open, CloseConn, IInv, TypeOK
<1>3. \A m \in Open' : /\ mscEndp'[m] = mscEndp[m]
                       /\ bscEndp'[m] = bscEndp[m]
                       /\ conBsc'[m] = conBsc[m]
  BY <1>2 DEF CloseConn, BscMgcpInit, Open
<1>4. MscEndpUnique'
  BY <1>2, <1>3 DEF IInv, MscEndpUnique
<1>5. SoundAllocation'
  <2> SUFFICES ASSUME NEW m \in Open', bscEndp'[m] # NoEndp
               PROVE  /\ bscEndp'[m] \in inUse'[conBsc'[m]]
                      /\ \A m2 \in Open' \ {m} :
                            conBsc'[m2] = conBsc'[m] => bscEndp'[m2] # bscEndp'[m]
    BY DEF SoundAllocation
  <2>1. bscEndp[m] \in DlcxInUse({c})[conBsc[m]]
    BY <1>2, <1>3, TeardownKeepsOthers
  <2>2. bscEndp'[m] \in inUse'[conBsc'[m]]
    BY <1>3, <2>1 DEF CloseConn
  <2>3. ASSUME NEW m2 \in Open' \ {m}, conBsc'[m2] = conBsc'[m]
        PROVE  bscEndp'[m2] # bscEndp'[m]
    <3>1. m2 \in Open \ {m} /\ conBsc[m2] = conBsc[m]
      BY <1>2, <1>3, <2>3
    <3>2. bscEndp[m2] # bscEndp[m]
      BY <1>2, <1>3, <3>1 DEF IInv, SoundAllocation
    <3>. QED
      BY <1>2, <1>3, <3>2
  <2>. QED
    BY <2>2, <2>3
<1>6. EndpStatusAllocated'
  BY <1>2, <1>3 DEF CloseConn, IInv, EndpStatusAllocated
<1>7. BscConnectionsReserved'
  BY TeardownKeepsReserved DEF CloseConn, BscConnectionsReserved
<1>. QED
  BY <1>1, <1>4, <1>5, <1>6, <1>7 DEF IInv

LEMMA AssignPatchIInv ==
    ASSUME IInv, NEW c \in Conns, NEW cic \in Cics, AssignPatch(c, cic)
    PROVE  IInv'
<1>. DEFINE endp  == CicToEndpoint(cic)
            b     == conBsc[c]
            stale == {m \in Open : mscEndp[m] = endp}
            freed == DlcxInUse(stale)
            x     == AssignEndpoint(freed[b], lastEndp[b], MaxEndpoints)
<1>1. TypeOK'
  BY AssignPatchTypeOK DEF IInv
<1>2. /\ c \in Open /\ b \in BSCs /\ endp \in Nat
      /\ Open' = Open /\ conBsc' = conBsc
  <2>1. cic \in Nat
    BY CicsAssumption
  <2>. QED
    BY <2>1, CicToEndpointNat DEF AssignPatch, Open, IInv, TypeOK
<1>3. x \in {NoEndp} \cup (ValidEndpoints(MaxEndpoints) \ freed[b])
  BY AssignEndpointRange
<1>4. mscEndp' = [BscMgcpInit(stale, mscEndp) EXCEPT ![c] = endp]
  BY DEF AssignPatch
<1>5. \A y \in BSCs : freed[y] \subseteq inUse'[y]
  <2>1. CASE x = NoEndp
    <3>1. inUse' = freed
      BY <2>1 DEF AssignPatch
    <3>. QED
      BY <3>1
  <2>2. CASE x # NoEndp
    <3>1. inUse' = [freed EXCEPT ![b] = freed[b] \cup {x}]
      BY <2>2 DEF AssignPatch
    <3>2. DOMAIN freed = BSCs
      BY DEF DlcxInUse
    <3>. QED
      BY <3>1, <3>2
  <2>. QED
    BY <2>1, <2>2
<1>6. \A m \in Open : bscEndp'[m] # NoEndp =>
         \/ m = c /\ x # NoEndp /\ bscEndp'[m] = x /\ x \in inUse'[b]
         \/ /\ m \notin stale /\ bscEndp'[m] = bscEndp[m]
            /\ bscEndp[m] \in freed[conBsc[m]]
  <2> SUFFICES ASSUME NEW m \in Open, bscEndp'[m] # NoEndp
               PROVE  \/ m = c /\ x # NoEndp /\ bscEndp'[m] = x /\ x \in inUse'[b]
                      \/ /\ m \notin stale /\ bscEndp'[m] = bscEndp[m]
                         /\ bscEndp[m] \in freed[conBsc[m]]
    OBVIOUS
  <2>1. CASE x # NoEndp /\ m = c
    <3>1. /\ inUse' = [freed EXCEPT ![b] = @ \cup {x}]
          /\ bscEndp' = [BscMgcpInit(stale, bscEndp) EXCEPT ![c] = x]
      BY <2>1 DEF AssignPatch
    <3>2. freed \in [BSCs -> SUBSET Int]
      BY DEF DlcxInUse, IInv, TypeOK, ValidEndpoints
    <3>. QED
      BY <1>2, <2>1, <3>1, <3>2 DEF BscMgcpInit
  <2>2. CASE ~(x # NoEndp /\ m = c)
    <3>1. m \notin stale /\ bscEndp'[m] = bscEndp[m]
      BY <1>2, <2>2 DEF AssignPatch, BscMgcpInit, Open
    <3>2. bscEndp[m] \in freed[conBsc[m]]
      BY <3>1, TeardownKeepsOthers
    <3>. QED
      BY <3>1, <3>2
  <2>. QED
    BY <2>1, <2>2
<1>7. MscEndpUnique'
  BY <1>2, <1>4 DEF IInv, MscEndpUnique, BscMgcpInit, Open
<1>8. SoundAllocation'
  <2> SUFFICES ASSUME NEW m \in Open, bscEndp'[m] # NoEndp
               PROVE  /\ bscEndp'[m] \in inUse'[conBsc[m]]
                      /\ \A m2 \in Open \ {m} :
                            conBsc[m2] = conBsc[m] => bscEndp'[m2] # bscEndp'[m]
    BY <1>2 DEF SoundAllocation
  <2>1. conBsc[m] \in BSCs
    BY DEF Open, IInv, TypeOK
  <2>2. bscEndp'[m] \in inUse'[conBsc[m]]
    BY <1>5, <1>6, <2>1
  <2>3. ASSUME NEW m2 \in Open \ {m}, conBsc[m2] = conBsc[m]
        PROVE  bscEndp'[m2] # bscEndp'[m]
    <3>1. CASE bscEndp'[m2] = NoEndp
      BY <3>1
    <3>2. CASE bscEndp'[m2] # NoEndp
      BY <1>3, <1>6, <2>3, <3>2 DEF IInv, SoundAllocation
    <3>. QED
      BY <3>1, <3>2
  <2>. QED
    BY <2>2, <2>3
<1>9. EndpStatusAllocated'
  <2> SUFFICES ASSUME NEW m \in Open, bscEndp'[m] # NoEndp
               PROVE  endpInit'[conBsc[m]]
    BY <1>2 DEF EndpStatusAllocated
  <2>1. endpInit' = [endpInit EXCEPT ![b] = TRUE]
    BY DEF AssignPatch
  <2>2. conBsc[m] \in BSCs /\ endpInit \in [BSCs -> BOOLEAN]
    BY DEF Open, IInv, TypeOK
  <2>3. CASE m = c
    BY <2>1, <2>2, <2>3
  <2>4. CASE m # c
    <3>1. bscEndp[m] # NoEndp
      BY <1>6, <2>4
    <3>2. endpInit[conBsc[m]]
      BY <3>1 DEF IInv, EndpStatusAllocated
    <3>. QED
      BY <2>1, <2>2, <3>2
  <2>. QED
    BY <2>3, <2>4
<1>10. BscConnectionsReserved'
  BY <1>5, TeardownKeepsReserved DEF AssignPatch, BscConnectionsReserved
<1>. QED
  BY <1>1, <1>7, <1>8, <1>9, <1>10 DEF IInv

LEMMA PolicyRelayIInv ==
    ASSUME IInv, NEW e \in MscEps, NEW v \in Verbs, NEW t \in Tids,
           NEW c \in Owners(e), PolicyRelay(c, e, v, t),
           UNCHANGED <<conBsc, endpInit, lastEndp, ci>>,
           usedTids' = usedTids \cup {t}
    PROVE  IInv'
<1>1. TypeOK'
  BY PolicyRelayTypeOK DEF IInv
<1>2. c \in Open /\ Open' = Open /\ conBsc[c] \in BSCs
  BY DEF Owners, Open, IInv, TypeOK
<1>3. CASE v = "CRCX"
  <2>1. /\ bscView' = [bscView EXCEPT ![conBsc[c]] = @ \cup {bscEndp[c]}]
        /\ UNCHANGED <<mscEndp, bscEndp, inUse>>
    BY <1>3 DEF PolicyRelay
  <2>2. bscEndp[c] # NoEndp => bscEndp[c] \in inUse[conBsc[c]]
    BY <1>2 DEF IInv, SoundAllocation
  <2>3. BscConnectionsReserved'
    BY <1>2, <2>1, <2>2 DEF IInv, TypeOK, BscConnectionsReserved
  <2>. QED
    BY <1>1, <1>2, <2>1, <2>3
       DEF IInv, MscEndpUnique, SoundAllocation, EndpStatusAllocated
<1>4. CASE v = "MDCX"
  <2>1. UNCHANGED <<mscEndp, bscEndp, inUse, bscView>>
    BY <1>4 DEF PolicyRelay
  <2>. QED
    BY <1>1, <1>2, <2>1
       DEF IInv, MscEndpUnique, SoundAllocation, EndpStatusAllocated,
           BscConnectionsReserved
<1>5. CASE v = "DLCX"
  <2>1. /\ inUse' = DlcxInUse({c})
        /\ bscView' = DlcxView({c})
        /\ mscEndp' = BscMgcpInit({c}, mscEndp)
        /\ bscEndp' = BscMgcpInit({c}, bscEndp)
    BY <1>5 DEF PolicyRelay
  <2>2. \A m \in Open \ {c} : mscEndp'[m] = mscEndp[m] /\ bscEndp'[m] = bscEndp[m]
    BY <2>1 DEF BscMgcpInit, Open
  <2>3. mscEndp'[c] = NoEndp /\ bscEndp'[c] = NoEndp
    BY <1>2, <2>1 DEF BscMgcpInit, Open
  <2>4. MscEndpUnique'
    BY <1>2, <2>2, <2>3 DEF IInv, MscEndpUnique
  <2>5. SoundAllocation'
    <3> SUFFICES ASSUME NEW m \in Open, bscEndp'[m] # NoEndp
                 PROVE  /\ bscEndp'[m] \in inUse'[conBsc[m]]
                        /\ \A m2 \in Open \ {m} :
                              conBsc[m2] = conBsc[m] => bscEndp'[m2] # bscEndp'[m]
      BY <1>2 DEF SoundAllocation
    <3>1. m # c /\ bscEndp'[m] = bscEndp[m]
      BY <2>2, <2>3
    <3>2. bscEndp[m] \in DlcxInUse({c})[conBsc[m]]
      BY <1>2, <3>1, TeardownKeepsOthers
    <3>. QED
      BY <2>1, <2>2, <2>3, <3>1, <3>2 DEF IInv, SoundAllocation
  <2>6. EndpStatusAllocated'
    BY <1>2, <2>2, <2>3 DEF IInv, EndpStatusAllocated
  <2>7. BscConnectionsReserved'
    BY <2>1, TeardownKeepsReserved DEF BscConnectionsReserved
  <2>. QED
    BY <1>1, <2>4, <2>5, <2>6, <2>7 DEF IInv
<1>. QED
  BY <1>3, <1>4, <1>5 DEF Verbs

LEMMA PolicyIInv ==
    ASSUME IInv, NEW e \in MscEps, NEW v \in Verbs, NEW t \in Tids,
           NEW ok \in BOOLEAN, Policy(e, v, t, ok)
    PROVE  IInv'
<1>1. CASE UNCHANGED <<mscEndp, bscEndp, inUse, toBsc, bscView>>
  <2>1. TypeOK'
    BY PolicyTypeOK DEF IInv
  <2>2. UNCHANGED <<conBsc, endpInit>>
    BY DEF Policy
  <2>3. Open' = Open
    BY <2>2 DEF Open
  <2>. QED
    BY <1>1, <2>1, <2>2, <2>3
       DEF IInv, MscEndpUnique, SoundAllocation, EndpStatusAllocated,
           BscConnectionsReserved
<1>2. CASE \E c \in Owners(e) : PolicyRelay(c, e, v, t)
  BY <1>2, PolicyRelayIInv DEF Policy
<1>. QED
  BY <1>1, <1>2 DEF Policy

LEMMA ForwardIInv ==
    ASSUME IInv, NEW b \in BSCs, NEW t \in Tids, NEW hasCi \in BOOLEAN,
           NEW ok \in BOOLEAN, Forward(b, t, hasCi, ok)
    PROVE  IInv'
<1>1. TypeOK'
  BY ForwardTypeOK DEF IInv
<1>2. UNCHANGED <<conBsc, mscEndp, bscEndp, endpInit, inUse>>
  BY DEF Forward
<1>3. Open' = Open
  BY <1>2 DEF Open
<1>4. \A y \in BSCs : bscView'[y] \subseteq bscView[y]
  <2>1. \/ bscView' = bscView
        \/ \E x \in Int : bscView' = [bscView EXCEPT ![b] = @ \ {x}]
    <3>1. \A c \in Open : bscEndp[c] \in Int
      BY DEF IInv, TypeOK, Open, NoEndp, ValidEndpoints
    <3>. QED
      BY <3>1 DEF Forward, Owners
  <2>2. bscView \in [BSCs -> SUBSET Int]
    BY DEF IInv, TypeOK, NoEndp, ValidEndpoints
  <2>. QED
    BY <2>1, <2>2
<1>5. BscConnectionsReserved'
  BY <1>2, <1>4 DEF IInv, BscConnectionsReserved
<1>. QED
  BY <1>1, <1>2, <1>3, <1>5
     DEF IInv, MscEndpUnique, SoundAllocation, EndpStatusAllocated

LEMMA BscDisconnectIInv ==
    ASSUME IInv, NEW b \in BSCs, BscDisconnect(b)
    PROVE  IInv'
<1>1. TypeOK'
  BY BscDisconnectTypeOK DEF IInv
<1>2. Open' = {m \in Open : conBsc[m] # b}
  BY DEF BscDisconnect, Open, IInv, TypeOK
<1>3. \A m \in Open' : /\ conBsc'[m] = conBsc[m]
                       /\ mscEndp'[m] = mscEndp[m]
                       /\ bscEndp'[m] = bscEndp[m]
                       /\ inUse'[conBsc[m]] = inUse[conBsc[m]]
                       /\ endpInit'[conBsc[m]] = endpInit[conBsc[m]]
  BY <1>2 DEF BscDisconnect, BscMgcpInit, Open, IInv, TypeOK
<1>4. MscEndpUnique'
  BY <1>2, <1>3 DEF IInv, MscEndpUnique
<1>5. SoundAllocation'
  BY <1>2, <1>3 DEF IInv, SoundAllocation
<1>6. EndpStatusAllocated'
  BY <1>2, <1>3 DEF IInv, EndpStatusAllocated
<1>7. BscConnectionsReserved'
  BY DEF BscDisconnect, IInv, TypeOK, BscConnectionsReserved
<1>. QED
  BY <1>1, <1>4, <1>5, <1>6, <1>7 DEF IInv

LEMMA InitIInv == Init => IInv
BY InitTypeOK
   DEF Init, IInv, Open, MscEndpUnique, SoundAllocation, EndpStatusAllocated,
       BscConnectionsReserved

LEMMA NextIInv == IInv /\ [Next]_vars => IInv'
<1> SUFFICES ASSUME IInv, [Next]_vars PROVE IInv'
  OBVIOUS
<1>1. CASE \E c \in Conns, b \in BSCs : OpenConn(c, b)
  BY <1>1, OpenConnIInv
<1>2. CASE \E c \in Conns : CloseConn(c)
  BY <1>2, CloseConnIInv
<1>3. CASE \E c \in Conns, cic \in Cics : AssignPatch(c, cic)
  BY <1>3, AssignPatchIInv
<1>4. CASE \E e \in MscEps, v \in Verbs, t \in Tids, ok \in BOOLEAN :
             Policy(e, v, t, ok)
  BY <1>4, PolicyIInv
<1>5. CASE \E b \in BSCs, t \in Tids, hasCi, ok \in BOOLEAN :
             Forward(b, t, hasCi, ok)
  BY <1>5, ForwardIInv
<1>6. CASE \E b \in BSCs : BscDisconnect(b)
  BY <1>6, BscDisconnectIInv
<1>7. CASE UNCHANGED vars
  BY <1>7
     DEF vars, natVars, envVars, IInv, TypeOK, Open, MscEndpUnique,
         SoundAllocation, EndpStatusAllocated, BscConnectionsReserved
<1>. QED
  BY <1>1, <1>2, <1>3, <1>4, <1>5, <1>6, <1>7 DEF Next

\* At most one open SCCP connection is bound to each Call Agent endpoint,
\* whatever the number of BSCs, connections and endpoints: the stale
\* connection teardown of bsc_mgcp_assign_patch keeps bsc_mgcp_find_con
\* unambiguous (theorem of the run nat_core).
THEOREM MscEndpointsUnique == Spec => []MscEndpUnique
<1>1. IInv => MscEndpUnique
  BY DEF IInv
<1>. QED
  BY InitIInv, NextIInv, <1>1, PTL DEF Spec

\* No BSC endpoint is held by two calls of the same BSC, and every endpoint
\* a call holds has its status byte set, for every configuration: the
\* allocator of bsc_assign_endpoint never hands out an endpoint a live call
\* still uses (theorem of the run nat_core).
THEOREM AllocationSound == Spec => []SoundAllocation
<1>1. IInv => SoundAllocation
  BY DEF IInv
<1>. QED
  BY InitIInv, NextIInv, <1>1, PTL DEF Spec

\* Every endpoint a BSC was sent a CRCX for, and no DLCX since, keeps its
\* status byte set, for every configuration (theorem of the run nat_core).
THEOREM ConnectionsReserved == Spec => []BscConnectionsReserved
<1>1. IInv => BscConnectionsReserved
  BY DEF IInv
<1>. QED
  BY InitIInv, NextIInv, <1>1, PTL DEF Spec
=============================================================================
