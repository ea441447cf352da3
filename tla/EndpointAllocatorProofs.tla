----------------------- MODULE EndpointAllocatorProofs -----------------------
(***************************************************************************)
(* One iteration of the scan of bsc_assign_endpoint, for every             *)
(* max_endpoints: from a handable endpoint (or from the initial cursor 0), *)
(* the timeslot += 1 and the normalisation at the top of the loop body     *)
(* (lines 118 and 123-143) land on the next handable endpoint in cyclic    *)
(* order, as a (multiplex, timeslot) pair of the same form.  The scan      *)
(* chains such iterations through the recursive function walk of          *)
(* ScanCandidates; that the chain visits every handable endpoint once is  *)
(* induction over walk, which the run mc_allocator checks instead         *)
(* (ScanFollowsCyclicOrder).                                               *)
(***************************************************************************)
EXTENDS EndpointAllocator, BscEndpointsProofs

\* The handable endpoint that follows l in the cyclic order of the scan:
\* the least one above l, or else endpoint 1, the least of all.
NextHandable(l, max) ==
    LET after == {f \in ValidEndpoints(max) : f > l}
    IN  IF after # {} THEN Least(after) ELSE 1

\* A set of naturals whose member y is below all others has y as its least.
LEMMA LeastIs ==
    ASSUME NEW S \in SUBSET Nat, NEW y \in S, \A f \in S : y =< f
    PROVE  Least(S) = y
<1>1. Least(S) \in S /\ Least(S) =< y
  BY LeastIsMinimum
<1>2. y =< Least(S)
  BY <1>1
<1>3. Least(S) \in Nat /\ y \in Nat
  BY <1>1
<1>. QED
  BY <1>1, <1>2, <1>3

\* mgcp.h's decomposition inverts the packing of (multiplex, timeslot).
LEMMA PackUnpack ==
    ASSUME NEW k \in Nat, NEW t \in 0 .. 31
    PROVE  EndpointMultiplex(32 * k + t) = k /\ EndpointTimeslot(32 * k + t) = t
BY DEF EndpointMultiplex, EndpointTimeslot

\* bsc_mgcp_nr_multiplexes leaves room for max_endpoints.
LEMMA NrMultiplexesCovers ==
    ASSUME NEW max \in Nat
    PROVE  NrMultiplexes(max) \in Nat /\ max =< 32 * NrMultiplexes(max)
BY DEF NrMultiplexes

\* An endpoint above l = 32a + 30 that is handable is at least l + 3: the
\* two endpoints in between are timeslot 31 and timeslot 0 of the next
\* multiplex.
LEMMA SkipsTimeslots31And0 ==
    ASSUME NEW max \in Nat, NEW a \in Nat,
           NEW f \in ValidEndpoints(max), f > 32 * a + 30, f # 1
    PROVE  f >= 32 * a + 33
<1>1. EndpointTimeslot(32 * a + 31) = 31 /\ EndpointTimeslot(32 * a + 32) = 0
  BY DEF EndpointTimeslot
<1>2. f \notin {32 * a + 31, 32 * a + 32}
  BY <1>1 DEF ValidEndpoints
<1>3. f \in Nat
  BY DEF ValidEndpoints
<1>. QED
  BY <1>2, <1>3

\* One iteration of bsc_assign_endpoint's scan: from the cursor 0 or a
\* handable endpoint l, timeslot + 1 followed by the skips of timeslots 0
\* and 31, the multiplex wrap and the restart past max_endpoints is the
\* position of the next handable endpoint after l, wrapping to 1.  The
\* first tested position (lines 117-118) and each later one (line 153) are
\* of this form, so the scan walks the handable endpoints in cyclic order.
THEOREM ScanStepsToNextHandable ==
    ASSUME NEW max \in Nat \ {0}, NEW l \in {0} \cup ValidEndpoints(max)
    PROVE  Normalize([mx |-> EndpointMultiplex(l), ts |-> EndpointTimeslot(l) + 1], max)
             = [mx |-> EndpointMultiplex(NextHandable(l, max)),
                ts |-> EndpointTimeslot(NextHandable(l, max))]
<1>. DEFINE a == EndpointMultiplex(l)
            b == EndpointTimeslot(l)
            N == NrMultiplexes(max)
            after == {f \in ValidEndpoints(max) : f > l}
<1>1. /\ l \in Nat /\ a \in Nat /\ b \in 0 .. 30 /\ l = 32 * a + b
      /\ (l < max \/ l \in {0, 1})
  BY DEF ValidEndpoints, EndpointMultiplex, EndpointTimeslot
<1>2. N \in Nat /\ max =< 32 * N
  BY NrMultiplexesCovers
<1>3. a < N
  BY <1>1, <1>2
<1>4. after \in SUBSET Nat
  BY DEF ValidEndpoints
<1>5. EndpointMultiplex(1) = 0 /\ EndpointTimeslot(1) = 1
  BY PackUnpack
<1> HIDE DEF a, b, N
<1>6. CASE b =< 29 /\ l + 1 < max
  <2>1. Normalize([mx |-> a, ts |-> b + 1], max) = [mx |-> a, ts |-> b + 1]
    BY <1>1, <1>2, <1>3, <1>6 DEF Normalize, TimeslotToEndpoint, N
  <2>2. EndpointMultiplex(l + 1) = a /\ EndpointTimeslot(l + 1) = b + 1
    <3>1. l + 1 = 32 * a + (b + 1) /\ b + 1 \in 0 .. 31
      BY <1>1, <1>6
    <3>2. EndpointMultiplex(32 * a + (b + 1)) = a /\ EndpointTimeslot(32 * a + (b + 1)) = b + 1
      BY <1>1, <3>1, PackUnpack
    <3>. QED
      BY <3>1, <3>2
  <2>3. l + 1 \in after
    BY <1>1, <1>6, <2>2 DEF ValidEndpoints
  <2>4. NextHandable(l, max) = l + 1
    BY <1>1, <1>4, <2>3, LeastIs DEF NextHandable
  <2>. QED
    BY <2>1, <2>2, <2>4 DEF a, b
<1>7. CASE b =< 29 /\ l + 1 >= max
  <2>1. Normalize([mx |-> a, ts |-> b + 1], max) = [mx |-> 0, ts |-> 1]
    BY <1>1, <1>2, <1>3, <1>7 DEF Normalize, TimeslotToEndpoint, N
  <2>2. after \subseteq {1}
    BY <1>1, <1>7 DEF ValidEndpoints
  <2>3. NextHandable(l, max) = 1
    <3>1. CASE after = {}
      BY <3>1 DEF NextHandable
    <3>2. CASE after = {1}
      BY <3>2, LeastIs DEF NextHandable
    <3>. QED
      BY <2>2, <3>1, <3>2
  <2>. QED
    BY <1>5, <2>1, <2>3 DEF a, b
<1>8. CASE b = 30 /\ a + 1 < N /\ l + 3 < max
  <2>1. Normalize([mx |-> a, ts |-> b + 1], max) = [mx |-> a + 1, ts |-> 1]
    BY <1>1, <1>2, <1>3, <1>8 DEF Normalize, TimeslotToEndpoint, N
  <2>2. l + 3 = 32 * (a + 1) + 1
    BY <1>1, <1>8
  <2>3. EndpointMultiplex(l + 3) = a + 1 /\ EndpointTimeslot(l + 3) = 1
    <3>1. EndpointMultiplex(32 * (a + 1) + 1) = a + 1 /\ EndpointTimeslot(32 * (a + 1) + 1) = 1
      BY <1>1 DEF EndpointMultiplex, EndpointTimeslot
    <3>. QED
      BY <2>2, <3>1
  <2>4. l + 3 \in after
    BY <1>1, <1>8, <2>3 DEF ValidEndpoints
  <2>5. \A f \in after : l + 3 =< f
    <3>1. SUFFICES ASSUME NEW f \in after PROVE l + 3 =< f
      OBVIOUS
    <3>2. f \in ValidEndpoints(max) /\ f > 32 * a + 30 /\ f # 1
      BY <1>1, <1>8
    <3>. QED
      BY <1>1, <1>8, <3>2, SkipsTimeslots31And0
  <2>6. NextHandable(l, max) = l + 3
    BY <1>4, <2>4, <2>5, LeastIs DEF NextHandable
  <2>. QED
    BY <2>1, <2>3, <2>6 DEF a, b
<1>9. CASE b = 30 /\ ~(a + 1 < N /\ l + 3 < max)
  <2>1. Normalize([mx |-> a, ts |-> b + 1], max) = [mx |-> 0, ts |-> 1]
    BY <1>1, <1>2, <1>3, <1>9 DEF Normalize, TimeslotToEndpoint, N
  <2>2. \A f \in after : f >= l + 3 /\ f < max
    <3>1. SUFFICES ASSUME NEW f \in after PROVE f >= l + 3 /\ f < max
      OBVIOUS
    <3>2. f \in ValidEndpoints(max) /\ f > 32 * a + 30 /\ f # 1
      BY <1>1, <1>9
    <3>3. f >= 32 * a + 33
      BY <1>1, <3>2, SkipsTimeslots31And0
    <3>4. f < max
      BY <3>2 DEF ValidEndpoints
    <3>. QED
      BY <1>1, <1>9, <3>3, <3>4
  <2>3. after = {}
    <3>1. SUFFICES ASSUME NEW f \in after PROVE FALSE
      OBVIOUS
    <3>2. f >= 32 * (a + 1) + 1 /\ f < max /\ f \in Nat
      BY <1>1, <1>4, <1>9, <2>2
    <3>. QED
      BY <1>1, <1>2, <1>9, <3>2
  <2>4. NextHandable(l, max) = 1
    BY <2>3 DEF NextHandable
  <2>. QED
    BY <1>5, <2>1, <2>4 DEF a, b
<1>. QED
  BY <1>1, <1>6, <1>7, <1>8, <1>9
=============================================================================
