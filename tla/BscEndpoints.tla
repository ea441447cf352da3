---------------------------- MODULE BscEndpoints ----------------------------
(***************************************************************************)
(* Endpoint numbering of the BSC NAT (bsc_mgcp_utils.c and the inline      *)
(* helpers of mgcp.h that it calls): an endpoint number packs a multiplex  *)
(* and a timeslot, 32 timeslots per multiplex, and a CIC packs them the    *)
(* same way in 16 bits.  Also the allocator's choice, stated in closed     *)
(* form: the first free endpoint in cyclic order after the cursor.  The    *)
(* module EndpointAllocator checks that the code's scan makes exactly this *)
(* choice.  No recursion here, so that the NAT model can be proved about.  *)
(***************************************************************************)
EXTENDS Integers, FiniteSets

\* The value -1 the code stores in msc_endp / bsc_endp when unbound, and the
\* failure result of the allocator.
NoEndp == -1

\* bsc_mgcp_nr_multiplexes: ceil(max_endpoints / 32).
NrMultiplexes(max) == max \div 32 + (IF max % 32 # 0 THEN 1 ELSE 0)

\* mgcp.h (not in this repository): endpoint = timeslot + 32 * multiplex.
TimeslotToEndpoint(mx, ts) == ts + 32 * mx

\* mgcp.h: multiplex = endpoint / 32, timeslot = endpoint % 32.
EndpointMultiplex(e) == e \div 32
EndpointTimeslot(e) == e % 32

\* create_cic: (multiplex << 5) | (timeslot & 0x1f), returned as uint16_t.
CreateCic(e) ==
    (EndpointMultiplex(e) * 32 + (EndpointTimeslot(e) % 32)) % 65536

\* bsc_mgcp_assign_patch, lines 192-197: timeslot = cic & 0x1f and
\* multiplex = (cic & ~0x1f) >> 5, both stored in a uint8_t, then mapped to
\* an endpoint.  The cast keeps the multiplex modulo 256.
CicToEndpoint(cic) ==
    TimeslotToEndpoint(((cic - (cic % 32)) \div 32) % 256, cic % 32)

\* The endpoints bsc_assign_endpoint can hand out for a BSC configured with
\* max endpoints: below max, never timeslot 0 nor timeslot 31; and endpoint
\* 1, where the restart of lines 139-143 lands, whenever the loop runs at
\* all (max >= 1), even when 1 is not below max.
ValidEndpoints(max) ==
    {e \in 1 .. max - 1 : EndpointTimeslot(e) \notin {0, 31}} \cup {e \in {1} : max >= 1}

\* The smallest element of a non-empty set of integers.
Least(S) == CHOOSE x \in S : \A y \in S : x =< y

\* Mutant: the bound check of line 139 written "endpoint > max_endpoints",
\* so that endpoint max_endpoints itself is handed out.
AssignEndpointPastMax(inUse, last, max) ==
    LET free  == ValidEndpoints(max + 1) \ inUse
        after == {e \in free : e > last}
    IN  IF free = {} THEN NoEndp
        ELSE IF after # {} THEN Least(after)
        ELSE Least(free)

\* Mutant: the status byte test of line 146 dropped.
AssignEndpointIgnoresStatus(inUse, last, max) ==
    LET free  == ValidEndpoints(max)
        after == {e \in free : e > last}
    IN  IF free = {} THEN NoEndp
        ELSE IF after # {} THEN Least(after)
        ELSE Least(free)

\* bsc_assign_endpoint: the first endpoint with status 0 in the scan that
\* starts after last_endpoint and wraps around; NoEndp when every endpoint
\* is in use.  inUse is the set of endpoints whose status byte is 1.
AssignEndpoint(inUse, last, max) ==
    LET free  == ValidEndpoints(max) \ inUse
        after == {e \in free : e > last}
    IN  IF free = {} THEN NoEndp
        ELSE IF after # {} THEN Least(after)
        ELSE Least(free)
=============================================================================
