------------------------- MODULE EndpointAllocator -------------------------
(***************************************************************************)
(* The per-BSC endpoint allocator of bsc_mgcp_utils.c: the status array   *)
(* _endpoint_status (here the set inUse of endpoints whose byte is 1), the *)
(* cursor last_endpoint, and the scan of bsc_assign_endpoint written as    *)
(* the code runs it, iteration by iteration.  Endpoints are released by    *)
(* the teardown bsc_mgcp_dlcx.  The checks compare the scan with the       *)
(* closed form AssignEndpoint the NAT model uses.  This module holds a     *)
(* recursive function and is only model-checked.                          *)
(***************************************************************************)
EXTENDS BscEndpoints, Sequences

CONSTANTS
    MaxEndpoints,   \* cfg->max_endpoints of the BSC
    MaxInUse        \* bound on the endpoints held at once in a run

ASSUME MaxEndpointsAssumption == MaxEndpoints \in Nat
ASSUME MaxInUseAssumption == MaxInUse \in Nat

VARIABLES
    inUse,      \* {e : _endpoint_status[e] = 1}
    last,       \* last_endpoint
    failed      \* the last call of bsc_assign_endpoint returned -1

vars == <<inUse, last, failed>>

\* Mutant: the restart past max_endpoints (lines 139-143) left out.
NormalizeNoRestart(p, max) ==
    LET ts1 == IF p.ts = 0 THEN 1 ELSE p.ts
        ts2 == IF ts1 = 31 THEN 1 ELSE ts1
        mx2 == IF ts1 = 31 THEN p.mx + 1 ELSE p.mx
        mx3 == IF mx2 >= NrMultiplexes(max) THEN 0 ELSE mx2
    IN  [mx |-> mx3, ts |-> ts2]

\* One pass through the top of the loop body (lines 123-143): skip timeslot
\* 0 and 31, wrap the multiplex, and restart at (0, 1) past max_endpoints.
\* (The wrap always lands where the restart would, at (0, 1).)
\* The result is the (multiplex, timeslot) whose endpoint is tested.
Normalize(p, max) ==
    LET ts1 == IF p.ts = 0 THEN 1 ELSE p.ts
        ts2 == IF ts1 = 31 THEN 1 ELSE ts1
        mx2 == IF ts1 = 31 THEN p.mx + 1 ELSE p.mx
        mx3 == IF mx2 >= NrMultiplexes(max) THEN 0 ELSE mx2
    IN  IF TimeslotToEndpoint(mx3, ts2) >= max
        THEN [mx |-> 0, ts |-> 1]
        ELSE [mx |-> mx3, ts |-> ts2]

\* Mutant: the scan starts at last_endpoint itself (timeslot += 1 of line
\* 118 left out).
ScanCandidatesFromLast(lst, max) ==
    LET first == Normalize([mx |-> EndpointMultiplex(lst),
                            ts |-> EndpointTimeslot(lst)], max)
        walk[i \in 1 .. max] ==
            IF i = 1 THEN <<first>>
            ELSE LET prev == walk[i - 1]
                 IN  Append(prev, Normalize([prev[i - 1] EXCEPT !.ts = @ + 1], max))
        tested == IF max = 0 THEN <<>> ELSE walk[max]
    IN  [i \in 0 .. max - 1 |-> TimeslotToEndpoint(tested[i + 1].mx, tested[i + 1].ts)]

\* The endpoints tested by the scan that starts from cursor lst, in the
\* order of iterations 0 .. max - 1 (lines 117-118, then timeslot += 1 at
\* line 153).  The positions are accumulated in a sequence, so that TLC
\* computes each once.
ScanCandidates(lst, max) ==
    LET first == Normalize([mx |-> EndpointMultiplex(lst),
                            ts |-> EndpointTimeslot(lst) + 1], max)
        walk[i \in 1 .. max] ==
            IF i = 1 THEN <<first>>
            ELSE LET prev == walk[i - 1]
                 IN  Append(prev, Normalize([prev[i - 1] EXCEPT !.ts = @ + 1], max))
        tested == IF max = 0 THEN <<>> ELSE walk[max]
    IN  [i \in 0 .. max - 1 |-> TimeslotToEndpoint(tested[i + 1].mx, tested[i + 1].ts)]

\* bsc_assign_endpoint: the first tested endpoint whose status byte is 0.
ScanAssign(used, lst, max) ==
    LET cand == ScanCandidates(lst, max)
        hits == {i \in DOMAIN cand : cand[i] \notin used}
    IN  IF hits = {} THEN NoEndp ELSE cand[Least(hits)]

Init ==
    /\ inUse = {}
    /\ last = 0
    /\ failed = FALSE

\* Mutant: the result -1 (line 156) taken for an endpoint and marked.
AssignStoresFailure ==
    /\ Cardinality(inUse) < MaxInUse
    /\ LET e == ScanAssign(inUse, last, MaxEndpoints)
       IN  /\ inUse' = inUse \cup {e}
           /\ last' = e
           /\ failed' = (e = NoEndp)

\* bsc_assign_endpoint (lines 110-157) on the status array.
Assign ==
    /\ Cardinality(inUse) < MaxInUse
    /\ LET e == ScanAssign(inUse, last, MaxEndpoints)
       IN  IF e = NoEndp
           THEN /\ failed' = TRUE
                /\ UNCHANGED <<inUse, last>>
           ELSE /\ inUse' = inUse \cup {e}
                /\ last' = e
                /\ failed' = FALSE

\* bsc_mgcp_dlcx, line 307: the status byte of a torn-down call is cleared.
Release(e) ==
    /\ e \in inUse
    /\ inUse' = inUse \ {e}
    /\ failed' = FALSE
    /\ UNCHANGED last

Next == Assign \/ \E e \in inUse : Release(e)

Spec == Init /\ [][Next]_vars

-----------------------------------------------------------------------------
\* Type invariant: the status bytes set and the cursor lie among the
\* endpoints the scan may hand out.
TypeOK ==
    /\ inUse \subseteq ValidEndpoints(MaxEndpoints)
    /\ last \in {0} \cup ValidEndpoints(MaxEndpoints)
    /\ failed \in BOOLEAN

\* The scan of bsc_assign_endpoint, from every cursor it reaches, tests the
\* handable endpoints in increasing order starting after the cursor and
\* wrapping once, and tests every one of them before it gives up.  Hence
\* whatever the status array holds, the scan picks what AssignEndpoint
\* picks: allocation fails only when every handable endpoint is in use.
Rank(e, lst, max) == IF e > lst THEN e ELSE e + max

ScanFollowsCyclicOrder ==
    LET cand == ScanCandidates(last, MaxEndpoints)
        n    == Cardinality(ValidEndpoints(MaxEndpoints))
    IN  /\ {cand[i] : i \in 0 .. n - 1} = ValidEndpoints(MaxEndpoints)
        /\ \A i \in 0 .. n - 2 :
              Rank(cand[i], last, MaxEndpoints) < Rank(cand[i + 1], last, MaxEndpoints)
        /\ \A used \in {{}} \cup {{e} : e \in ValidEndpoints(MaxEndpoints)} :
              ScanAssign(used \cup inUse, last, MaxEndpoints)
                 = AssignEndpoint(used \cup inUse, last, MaxEndpoints)
=============================================================================
