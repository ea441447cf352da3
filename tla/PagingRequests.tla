---------------------------- MODULE PagingRequests ----------------------------
(***************************************************************************)
(* Paging requests of the MSC subscriber layer (libmsc/gsm_subscriber.c), *)
(* as this build compiles it: paging_request is under #if 0 and rc is     *)
(* -ENOTSUP, so subscr_request_channel never starts paging.               *)
(*                                                                         *)
(* A paging response starts the security procedure (gsm48_secure_channel, *)
(* not in this repository), which later calls subscr_paging_sec_cb with   *)
(* an outcome and, as param, the cb_data it was given.  The model keeps   *)
(* per subscriber the flag is_paging, the queue of requests and the       *)
(* references paging holds; the security procedures in flight; and       *)
(* whether the process has aborted.                                       *)
(***************************************************************************)
EXTENDS Integers, SequencesExt

CONSTANTS
    Subs,       \* struct vlr_subscr of the subscribers
    Cbs,        \* the gsm_cbfn / param pairs callers queue
    NoSub       \* NULL subscriber pointer

SecEvents == {"AUTH_FAILED", "NOAVAIL", "SUCCEEDED", "OTHER"}

VARIABLES
    isPaging,   \* vsub->cs.is_paging
    requests,   \* vsub->cs.requests
    pagingRefs, \* references taken by vlr_subscr_get when paging starts
    secOps,     \* security procedures in flight: the param they will pass
    aborted     \* an OSMO_ASSERT failed and the MSC aborted

vars == <<isPaging, requests, pagingRefs, secOps, aborted>>

Init ==
    /\ isPaging = [s \in Subs |-> FALSE]
    /\ requests = [s \in Subs |-> <<>>]
    /\ pagingRefs = [s \in Subs |-> 0]
    /\ secOps = {}
    /\ aborted = FALSE

\* subscr_request_channel: if s is not paged yet, paging_request is compiled
\* out, rc = -ENOTSUP and NULL is returned with nothing changed; otherwise
\* the request is queued.
RequestChannel(s, cb) ==
    /\ ~aborted
    /\ isPaging[s]
    /\ requests' = [requests EXCEPT ![s] = Append(@, cb)]
    /\ UNCHANGED <<isPaging, pagingRefs, secOps, aborted>>

\* subscr_remove_request: the i-th queued request is unlinked and freed.
RemoveRequest(s, i) ==
    /\ ~aborted
    /\ i \in DOMAIN requests[s]
    /\ requests' = [requests EXCEPT ![s] = RemoveAt(@, i)]
    /\ UNCHANGED <<isPaging, pagingRefs, secOps, aborted>>

\* subscr_rx_paging_response: gsm48_secure_channel(conn, key_seq,
\* subscr_paging_sec_cb, NULL).
RxPagingResponse ==
    /\ ~aborted
    /\ secOps' = secOps \cup {NoSub}
    /\ UNCHANGED <<isPaging, requests, pagingRefs, aborted>>

\* subscr_paging_dispatch with param p: OSMO_ASSERT(vsub && is_paging),
\* then every queued callback is run and freed, is_paging is cleared and
\* the paging reference dropped.
Dispatch(p) ==
    IF p = NoSub \/ ~isPaging[p]
    THEN /\ aborted' = TRUE
         /\ UNCHANGED <<isPaging, requests, pagingRefs>>
    ELSE /\ requests' = [requests EXCEPT ![p] = <<>>]
         /\ isPaging' = [isPaging EXCEPT ![p] = FALSE]
         /\ pagingRefs' = [pagingRefs EXCEPT ![p] = @ - 1]
         /\ UNCHANGED aborted

\* subscr_paging_sec_cb(event, param) ends a security procedure: an
\* authentication failure is dispatched as paging expired, NOAVAIL and
\* SUCCEEDED as paging succeeded, any other event returns -EINVAL.
SecCb(p, event) ==
    /\ ~aborted
    /\ p \in secOps
    /\ secOps' = secOps \ {p}
    /\ IF event = "OTHER" THEN UNCHANGED <<isPaging, requests, pagingRefs, aborted>>
       ELSE Dispatch(p)

Next ==
    \/ \E s \in Subs, cb \in Cbs : RequestChannel(s, cb)
    \/ \E s \in Subs, i \in 1 .. 2 : RemoveRequest(s, i)
    \/ RxPagingResponse
    \/ \E p \in Subs \cup {NoSub}, event \in SecEvents : SecCb(p, event)

Spec == Init /\ [][Next]_vars

\* A paging response from a subscriber never aborts the MSC: the security
\* callback hands subscr_paging_dispatch a subscriber that is being paged,
\* as its OSMO_ASSERT requires.
PagingResponseSafe == ~aborted
=============================================================================
