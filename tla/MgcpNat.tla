------------------------------ MODULE MgcpNat ------------------------------
(***************************************************************************)
(* The media-gateway core of the BSC NAT (bsc_mgcp_utils.c).              *)
(*                                                                         *)
(* SCCP connections (calls) are bound to a Call Agent endpoint (msc_endp)  *)
(* and to an endpoint of their BSC (bsc_endp) by the BSSMAP assignment     *)
(* patcher.  The policy callback relays the Call Agent's CRCX/MDCX/DLCX to *)
(* the BSC and parks the transaction in the endpoint's pending slot; the   *)
(* reply forwarder matches BSC replies against those slots.  Teardown      *)
(* (bsc_mgcp_dlcx) and BSC loss free what a call holds.                    *)
(*                                                                         *)
(* Data is abstracted: a message is its verb, transaction id and endpoint; *)
(* the SDP rewrite is a choice between success and failure.  The BSC is    *)
(* an environment that may answer a relayed request at any time, any       *)
(* number of times, with or without a connection identifier.              *)
(***************************************************************************)
EXTENDS BscEndpoints

CONSTANTS
    BSCs,           \* connected BSCs (struct bsc_connection)
    Conns,          \* SCCP connections (struct sccp_connections)
    Tids,           \* transaction ids the Call Agent uses, each once
    NumEndpoints,   \* trunk.number_endpoints
    MaxEndpoints,   \* cfg->max_endpoints of every BSC
    Cics,           \* CICs the MSC may put in an ASSIGNMENT REQUEST
    NoBsc,          \* NULL bsc pointer / SCCP connection not open
    NoTid           \* NULL transaction_id

ASSUME NumEndpointsAssumption == NumEndpoints \in Nat \ {0}
ASSUME MaxEndpointsAssumption == MaxEndpoints \in Nat
\* A CIC is the 16-bit value of the BSSMAP IE.
ASSUME CicsAssumption == Cics \subseteq Nat /\ \A cic \in Cics : cic =< 65535
ASSUME NullAssumption == NoBsc \notin BSCs /\ NoTid \notin Tids

\* Indices of nat->bsc_endpoints (number_endpoints + 1 entries).
Eps == 0 .. NumEndpoints

\* Trunk endpoints the loops of the code visit (1 .. number_endpoints - 1).
MscEps == 1 .. NumEndpoints - 1

Verbs == {"CRCX", "MDCX", "DLCX"}

\* An empty pending slot: what bsc_mgcp_free_endpoint leaves.
FreeSlot == [id |-> NoTid, state |-> "none", bsc |-> NoBsc]

\* endp->ci of the trunk endpoint: CI_UNUSED or a value the BSC returned.
CiUnused == "CI_UNUSED"
CiSet == "CI_SET"

\* Saturation bound of the answer counters.
AnswerCap == 2

VARIABLES
    conBsc,     \* con->bsc of each open SCCP connection, NoBsc if not open
    mscEndp,    \* con->msc_endp
    bscEndp,    \* con->bsc_endp
    endpInit,   \* bsc->_endpoint_status has been allocated
    inUse,      \* {e : bsc->_endpoint_status[e] = 1}
    lastEndp,   \* bsc->last_endpoint
    slots,      \* nat->bsc_endpoints[e]: transaction_id, transaction_state, bsc
    ci,         \* trunk.endpoints[e].ci
    toBsc,      \* transactions relayed to each BSC, which it may answer
    bscView,    \* endpoints each BSC was sent a CRCX for and no DLCX since
    usedTids,   \* transaction ids the Call Agent has used
    answers     \* number of answers the Call Agent got per transaction

natVars == <<conBsc, mscEndp, bscEndp, endpInit, inUse, lastEndp, slots, ci>>
envVars == <<toBsc, bscView, usedTids, answers>>
vars == <<natVars, envVars>>

Open == {c \in Conns : conBsc[c] # NoBsc}

\* The Call Agent receives one more answer for transaction t.
Answer(t) == [answers EXCEPT ![t] = IF @ < AnswerCap THEN @ + 1 ELSE @]

-----------------------------------------------------------------------------
(* bsc_mgcp_dlcx applied to every connection of S.  A connection with a   *)
(* BSC endpoint frees its status byte, sends "DLCX 26" for it to its BSC  *)
(* and frees the pending slot of its msc_endp; every connection of S is   *)
(* then reset by bsc_mgcp_init.  The operators give the new values.       *)
Torn(S) == {c \in S : bscEndp[c] # NoEndp /\ endpInit[conBsc[c]]}

ReleasedBy(S, b) == {bscEndp[c] : c \in {x \in Torn(S) : conBsc[x] = b}}

DlcxInUse(S) == [b \in BSCs |-> inUse[b] \ ReleasedBy(S, b)]

\* Mutant: bsc_mgcp_dlcx without the call of bsc_mgcp_send_dlcx.
DlcxViewNoSend(S) == [b \in BSCs |-> bscView[b]]

DlcxView(S) == [b \in BSCs |-> bscView[b] \ ReleasedBy(S, b)]

DlcxSlots(S, sl) ==
    [e \in Eps |-> IF \E c \in Torn(S) : mscEndp[c] = e THEN FreeSlot ELSE sl[e]]

\* bsc_mgcp_init on the connections of S.
BscMgcpInit(S, endps) == [c \in Conns |-> IF c \in S THEN NoEndp ELSE endps[c]]

-----------------------------------------------------------------------------
Init ==
    /\ conBsc = [c \in Conns |-> NoBsc]
    /\ mscEndp = [c \in Conns |-> NoEndp]
    /\ bscEndp = [c \in Conns |-> NoEndp]
    /\ endpInit = [b \in BSCs |-> FALSE]
    /\ inUse = [b \in BSCs |-> {}]
    /\ lastEndp = [b \in BSCs |-> 0]
    /\ slots = [e \in Eps |-> FreeSlot]
    /\ ci = [e \in Eps |-> CiUnused]
    /\ toBsc = [b \in BSCs |-> {}]
    /\ bscView = [b \in BSCs |-> {}]
    /\ usedTids = {}
    /\ answers = [t \in Tids |-> 0]

\* A new SCCP connection from BSC b; bsc_mgcp_init unbinds it.
OpenConn(c, b) ==
    /\ conBsc[c] = NoBsc
    /\ conBsc' = [conBsc EXCEPT ![c] = b]
    /\ mscEndp' = [mscEndp EXCEPT ![c] = NoEndp]
    /\ bscEndp' = [bscEndp EXCEPT ![c] = NoEndp]
    /\ UNCHANGED <<endpInit, inUse, lastEndp, slots, ci, envVars>>

\* The SCCP connection ends: it is torn down by bsc_mgcp_dlcx and removed.
CloseConn(c) ==
    /\ c \in Open
    /\ conBsc' = [conBsc EXCEPT ![c] = NoBsc]
    /\ mscEndp' = BscMgcpInit({c}, mscEndp)
    /\ bscEndp' = BscMgcpInit({c}, bscEndp)
    /\ inUse' = DlcxInUse({c})
    /\ bscView' = DlcxView({c})
    /\ slots' = DlcxSlots({c}, slots)
    /\ UNCHANGED <<endpInit, lastEndp, ci, toBsc, usedTids, answers>>

\* Mutant: the loop over stale connections (lines 206-216) left out.
AssignPatchNoStaleScan(c, cic) ==
    LET endp  == CicToEndpoint(cic)
        b     == conBsc[c]
        stale == {}
        freed == DlcxInUse(stale)
        x     == AssignEndpoint(freed[b], lastEndp[b], MaxEndpoints)
    IN  /\ c \in Open
        /\ endp < NumEndpoints
        /\ mscEndp' = [BscMgcpInit(stale, mscEndp) EXCEPT ![c] = endp]
        /\ endpInit' = [endpInit EXCEPT ![b] = TRUE]
        /\ IF x = NoEndp
           THEN /\ inUse' = freed
                /\ bscEndp' = BscMgcpInit(stale, bscEndp)
                /\ UNCHANGED lastEndp
           ELSE /\ inUse' = [freed EXCEPT ![b] = @ \cup {x}]
                /\ bscEndp' = [BscMgcpInit(stale, bscEndp) EXCEPT ![c] = x]
                /\ lastEndp' = [lastEndp EXCEPT ![b] = x]
        /\ bscView' = DlcxView(stale)
        /\ slots' = DlcxSlots(stale, slots)
        /\ UNCHANGED <<conBsc, ci, toBsc, usedTids, answers>>

\* Mutant: con->msc_endp set (line 218) before the stale loop, which then
\* tears down con itself.
AssignPatchBindFirst(c, cic) ==
    LET endp  == CicToEndpoint(cic)
        b     == conBsc[c]
        stale == {m \in Open : m = c \/ mscEndp[m] = endp}
        freed == DlcxInUse(stale)
        x     == AssignEndpoint(freed[b], lastEndp[b], MaxEndpoints)
    IN  /\ c \in Open
        /\ endp < NumEndpoints
        /\ mscEndp' = BscMgcpInit(stale, mscEndp)
        /\ endpInit' = [endpInit EXCEPT ![b] = TRUE]
        /\ IF x = NoEndp
           THEN /\ inUse' = freed
                /\ bscEndp' = BscMgcpInit(stale, bscEndp)
                /\ UNCHANGED lastEndp
           ELSE /\ inUse' = [freed EXCEPT ![b] = @ \cup {x}]
                /\ bscEndp' = [BscMgcpInit(stale, bscEndp) EXCEPT ![c] = x]
                /\ lastEndp' = [lastEndp EXCEPT ![b] = x]
        /\ bscView' = DlcxView(stale)
        /\ slots' = DlcxSlots(stale, slots)
        /\ UNCHANGED <<conBsc, ci, toBsc, usedTids, answers>>

\* bsc_mgcp_assign_patch: an ASSIGNMENT REQUEST carrying cic on connection
\* c.  An out-of-range endpoint fails without a change.  Every connection
\* already bound to the endpoint is torn down, msc_endp is set, the status
\* array is allocated if needed and a BSC endpoint is allocated; when the
\* allocator is full the patch fails with msc_endp already set.
AssignPatch(c, cic) ==
    LET endp  == CicToEndpoint(cic)
        b     == conBsc[c]
        stale == {m \in Open : mscEndp[m] = endp}
        freed == DlcxInUse(stale)
        x     == AssignEndpoint(freed[b], lastEndp[b], MaxEndpoints)
    IN  /\ c \in Open
        /\ endp < NumEndpoints
        /\ mscEndp' = [BscMgcpInit(stale, mscEndp) EXCEPT ![c] = endp]
        /\ endpInit' = [endpInit EXCEPT ![b] = TRUE]
        /\ IF x = NoEndp
           THEN /\ inUse' = freed
                /\ bscEndp' = BscMgcpInit(stale, bscEndp)
                /\ UNCHANGED lastEndp
           ELSE /\ inUse' = [freed EXCEPT ![b] = @ \cup {x}]
                /\ bscEndp' = [BscMgcpInit(stale, bscEndp) EXCEPT ![c] = x]
                /\ lastEndp' = [lastEndp EXCEPT ![b] = x]
        /\ bscView' = DlcxView(stale)
        /\ slots' = DlcxSlots(stale, slots)
        /\ UNCHANGED <<conBsc, ci, toBsc, usedTids, answers>>

\* bsc_mgcp_find_con: the open connections bound to Call Agent endpoint e.
Owners(e) == {c \in Open : mscEndp[c] = e}

\* The rewritten verb v with transaction t is relayed for connection c: a
\* CRCX and an MDCX are sent to c's BSC and parked (DEFER); a DLCX parks
\* the slot, tears c down and is answered by the parser (CONTINUE).
PolicyRelay(c, e, v, t) ==
    LET b      == conBsc[c]
        parked == [slots EXCEPT ![e] = [id |-> t, state |-> v, bsc |-> b]]
    IN  \/ /\ v = "CRCX"
           /\ slots' = parked
           /\ toBsc' = [toBsc EXCEPT ![b] = @ \cup {t}]
           /\ bscView' = [bscView EXCEPT ![b] = @ \cup {bscEndp[c]}]
           /\ UNCHANGED <<mscEndp, bscEndp, inUse, answers>>
        \/ /\ v = "MDCX"
           /\ slots' = parked
           /\ toBsc' = [toBsc EXCEPT ![b] = @ \cup {t}]
           /\ UNCHANGED <<mscEndp, bscEndp, inUse, bscView, answers>>
        \/ /\ v = "DLCX"
           /\ slots' = DlcxSlots({c}, parked)
           /\ inUse' = DlcxInUse({c})
           /\ bscView' = DlcxView({c})
           /\ mscEndp' = BscMgcpInit({c}, mscEndp)
           /\ bscEndp' = BscMgcpInit({c}, bscEndp)
           /\ answers' = Answer(t)
           /\ UNCHANGED toBsc

\* The MGCP parser hands the policy callback verb v with transaction t on
\* endpoint e (bsc_mgcp_policy_cb); rewriteOk is the outcome of
\* bsc_mgcp_rewrite.  A pending transaction of the slot is dropped first.
\* Without an owner (REJECT / CONTINUE) or when the rewrite fails
\* (CONTINUE) the parser answers the Call Agent itself; DEFER is answered by
\* the reply forwarder.
Policy(e, v, t, rewriteOk) ==
    /\ t \notin usedTids
    /\ usedTids' = usedTids \cup {t}
    /\ UNCHANGED <<conBsc, endpInit, lastEndp, ci>>
    /\ \/ /\ Owners(e) = {} \/ ~rewriteOk
          /\ slots' = [slots EXCEPT ![e] = FreeSlot]
          /\ answers' = Answer(t)
          /\ UNCHANGED <<mscEndp, bscEndp, inUse, toBsc, bscView>>
       \/ /\ rewriteOk
          /\ \E c \in Owners(e) : PolicyRelay(c, e, v, t)

\* Mutant: the transaction id not released on a matched reply (line 504-505).
ForwardKeepsTransaction(b, t, hasCi, rewriteOk) ==
    LET match  == {i \in MscEps : slots[i].bsc = b /\ slots[i].id = t}
        i      == Least(match)
    IN  /\ t \in toBsc[b]
        /\ match # {}
        /\ UNCHANGED <<conBsc, mscEndp, bscEndp, endpInit, inUse, lastEndp,
                       toBsc, usedTids>>
        /\ IF hasCi
           THEN /\ ci' = [ci EXCEPT ![i] = CiSet]
                /\ slots' = [slots EXCEPT ![i] = [id |-> slots[i].id, state |-> "none",
                                                  bsc |-> slots[i].bsc]]
                /\ answers' = IF rewriteOk THEN Answer(t) ELSE answers
                /\ UNCHANGED bscView
           ELSE /\ ci' = [ci EXCEPT ![i] = CiUnused]
                /\ slots' = [slots EXCEPT ![i] = FreeSlot]
                /\ \/ /\ slots[i].state = "CRCX"
                      /\ \E c \in Owners(i) :
                            /\ conBsc[c] = b
                            /\ bscView' = [bscView EXCEPT ![b] = @ \ {bscEndp[c]}]
                   \/ /\ slots[i].state # "CRCX" \/ \A c \in Owners(i) : conBsc[c] # b
                      /\ UNCHANGED bscView
                /\ UNCHANGED answers

\* bsc_mgcp_forward: BSC b answers transaction t, with or without an "I:"
\* line; rewriteOk is the outcome of the rewrite and of the enqueue towards
\* the Call Agent.  A reply that matches no pending slot of b is dropped,
\* which changes nothing.  Without a CI, free_chan_downstream sends a DLCX
\* for a pending CRCX and frees the slot and the trunk endpoint.
Forward(b, t, hasCi, rewriteOk) ==
    LET match  == {i \in MscEps : slots[i].bsc = b /\ slots[i].id = t}
        i      == Least(match)
    IN  /\ t \in toBsc[b]
        /\ match # {}
        /\ UNCHANGED <<conBsc, mscEndp, bscEndp, endpInit, inUse, lastEndp,
                       toBsc, usedTids>>
        /\ IF hasCi
           THEN /\ ci' = [ci EXCEPT ![i] = CiSet]
                /\ slots' = [slots EXCEPT ![i] = [id |-> NoTid, state |-> "none",
                                                  bsc |-> slots[i].bsc]]
                /\ answers' = IF rewriteOk THEN Answer(t) ELSE answers
                /\ UNCHANGED bscView
           ELSE /\ ci' = [ci EXCEPT ![i] = CiUnused]
                /\ slots' = [slots EXCEPT ![i] = FreeSlot]
                /\ \/ /\ slots[i].state = "CRCX"
                      /\ \E c \in Owners(i) :
                            /\ conBsc[c] = b
                            /\ bscView' = [bscView EXCEPT ![b] = @ \ {bscEndp[c]}]
                   \/ /\ slots[i].state # "CRCX" \/ \A c \in Owners(i) : conBsc[c] # b
                      /\ UNCHANGED bscView
                /\ UNCHANGED answers

\* BSC b is lost: bsc_mgcp_clear_endpoints_for frees every pending slot b
\* holds and its trunk endpoint; the NAT then drops b's SCCP connections
\* and its status array, and b comes back as a fresh connection.
BscDisconnect(b) ==
    LET held == {e \in MscEps : slots[e].bsc = b}
        gone == {c \in Open : conBsc[c] = b}
    IN  /\ slots' = [e \in Eps |-> IF e \in held THEN FreeSlot ELSE slots[e]]
        /\ ci' = [e \in Eps |-> IF e \in held THEN CiUnused ELSE ci[e]]
        /\ conBsc' = [c \in Conns |-> IF c \in gone THEN NoBsc ELSE conBsc[c]]
        /\ mscEndp' = BscMgcpInit(gone, mscEndp)
        /\ bscEndp' = BscMgcpInit(gone, bscEndp)
        /\ endpInit' = [endpInit EXCEPT ![b] = FALSE]
        /\ inUse' = [inUse EXCEPT ![b] = {}]
        /\ lastEndp' = [lastEndp EXCEPT ![b] = 0]
        /\ toBsc' = [toBsc EXCEPT ![b] = {}]
        /\ bscView' = [bscView EXCEPT ![b] = {}]
        /\ UNCHANGED <<usedTids, answers>>

Next ==
    \/ \E c \in Conns, b \in BSCs : OpenConn(c, b)
    \/ \E c \in Conns : CloseConn(c)
    \/ \E c \in Conns, cic \in Cics : AssignPatch(c, cic)
    \/ \E e \in MscEps, v \in Verbs, t \in Tids, ok \in BOOLEAN : Policy(e, v, t, ok)
    \/ \E b \in BSCs, t \in Tids, hasCi, ok \in BOOLEAN : Forward(b, t, hasCi, ok)
    \/ \E b \in BSCs : BscDisconnect(b)

Spec == Init /\ [][Next]_vars

\* BSC b gives transaction t its final reply, which carries the connection
\* identifier, and the event loop hands it to bsc_mgcp_forward.
BscAnswers(b, t) == \E rewriteOk \in BOOLEAN : Forward(b, t, TRUE, rewriteOk)

\* The NAT never times a transaction out (spec section 5): it relies on the
\* BSC's MGCP stack to give a final reply to every command it was sent
\* while the connection lasts, and its single-threaded event loop reads
\* every reply.  A reply without a CI may also come, but is not assumed.
\* Nothing is assumed of the Call Agent, the MSC or the calls.
LiveSpec == Spec /\ \A b \in BSCs, t \in Tids : WF_vars(BscAnswers(b, t))

-----------------------------------------------------------------------------
(***************************************************************************)
(* Properties.                                                             *)
(***************************************************************************)

\* Type invariant.  The endpoints are those the code can index: a BSC
\* endpoint is one the allocator hands out, a Call Agent endpoint one that
\* passed the range check of the assignment patcher.
TypeOK ==
    /\ conBsc \in [Conns -> BSCs \cup {NoBsc}]
    /\ mscEndp \in [Conns -> {NoEndp} \cup (0 .. NumEndpoints - 1)]
    /\ bscEndp \in [Conns -> {NoEndp} \cup ValidEndpoints(MaxEndpoints)]
    /\ endpInit \in [BSCs -> BOOLEAN]
    /\ inUse \in [BSCs -> SUBSET ValidEndpoints(MaxEndpoints)]
    /\ lastEndp \in [BSCs -> {0} \cup ValidEndpoints(MaxEndpoints)]
    /\ slots \in [Eps -> [id : Tids \cup {NoTid},
                          state : {"none"} \cup Verbs,
                          bsc : BSCs \cup {NoBsc}]]
    /\ ci \in [Eps -> {CiUnused, CiSet}]
    /\ toBsc \in [BSCs -> SUBSET Tids]
    /\ bscView \in [BSCs -> SUBSET ({NoEndp} \cup ValidEndpoints(MaxEndpoints))]
    /\ usedTids \in SUBSET Tids
    /\ answers \in [Tids -> 0 .. AnswerCap]

\* At most one open SCCP connection is bound to a Call Agent endpoint, so
\* that bsc_mgcp_find_con (which returns the last match) relays every verb
\* for that endpoint to the one call that owns it.  It rests on the stale
\* connection teardown of bsc_mgcp_assign_patch running before msc_endp is
\* set, across connections of every BSC.
MscEndpUnique ==
    \A c1, c2 \in Open :
        c1 # c2 /\ mscEndp[c1] # NoEndp => mscEndp[c1] # mscEndp[c2]

\* No BSC endpoint is handed to two calls at once, and the status byte of
\* every endpoint a call holds is set: across assignment, collision
\* teardown, DLCX, failed CRCX replies and BSC loss, the allocator never
\* hands out an endpoint a live call still uses.
SoundAllocation ==
    \A c \in Open :
        bscEndp[c] # NoEndp =>
            /\ bscEndp[c] \in inUse[conBsc[c]]
            /\ \A c2 \in Open \ {c} :
                  conBsc[c2] = conBsc[c] => bscEndp[c2] # bscEndp[c]

\* A call that holds a BSC endpoint also holds a Call Agent endpoint, so the
\* write bsc_mgcp_dlcx makes to nat->bsc_endpoints[con->msc_endp] is never
\* at index -1.
TeardownSlotInBounds ==
    \A c \in Open : bscEndp[c] # NoEndp => mscEndp[c] \in Eps

\* Every BSC endpoint on which the BSC may still have a connection (it was
\* sent a CRCX for it and no DLCX since) is marked in use, so the allocator
\* never gives it to a new call while the BSC still has the old one.
BscConnectionsReserved ==
    \A b \in BSCs : \A x \in bscView[b] \ {NoEndp} : x \in inUse[b]

\* The Call Agent gets at most one answer per transaction: the parser's own
\* answer to REJECT/CONTINUE, or one forwarded BSC reply to a DEFER, never
\* both and never a second forwarded reply when the BSC answers twice.
AnsweredAtMostOnce == \A t \in Tids : answers[t] =< 1

\* Transaction t is parked in the pending slot of endpoint e.
Parked(e, t) == slots[e].id = t

\* Transaction t was sent to the BSC its slot names, which may answer it.
Relayed(e, t) == Parked(e, t) /\ \E b \in BSCs : slots[e].bsc = b /\ t \in toBsc[b]

-----------------------------------------------------------------------------
(* Statements of the spec (spec.md) that the code does not keep.          *)

\* Spec sections 4.2, 4.6 and 5: a pending slot is cleared at every exit
\* path (reply, replacement, teardown, BSC loss), so no transaction stays
\* parked forever.  (Under LiveSpec.)
ParkedResolved == \A e \in MscEps, t \in Tids : Parked(e, t) ~> ~Parked(e, t)

\* Spec section 8: for every BSC, the status byte of an endpoint is 1
\* exactly when a call of that BSC holds the endpoint.
StatusMatchesOwners ==
    \A b \in BSCs :
        inUse[b] = {bscEndp[c] : c \in {x \in Open : conBsc[x] = b /\ bscEndp[x] # NoEndp}}

\* Spec section 4.4 step 5 and section 8 scenario 6: a BSC reply without a
\* CI to a pending CRCX runs the session teardown of section 4.6, which
\* clears the status byte and unbinds the session.
NoCiReplyTearsDown ==
    [][\A b \in BSCs, t \in Tids, ok \in BOOLEAN :
          Forward(b, t, FALSE, ok) =>
             \A i \in MscEps :
                (slots[i].bsc = b /\ slots[i].id = t /\ slots[i].state = "CRCX") =>
                   \A c \in Open :
                      (mscEndp[c] = i /\ conBsc[c] = b) =>
                         /\ mscEndp'[c] = NoEndp
                         /\ bscEndp[c] \notin inUse'[b]]_vars
=============================================================================
