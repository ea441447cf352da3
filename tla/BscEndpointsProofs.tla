------------------------- MODULE BscEndpointsProofs -------------------------
(***************************************************************************)
(* Lemmas on the endpoint numbering and on the allocator's choice         *)
(* (module BscEndpoints): the first free endpoint in cyclic order after   *)
(* the cursor.  The run mc_allocator checks that the scan of              *)
(* bsc_assign_endpoint makes exactly this choice (ScanFollowsCyclicOrder); *)
(* here the choice itself is shown to be what an allocator must make, for *)
(* every status array, cursor and max_endpoints.                          *)
(***************************************************************************)
EXTENDS BscEndpoints, WellFoundedInduction, TLAPS

-----------------------------------------------------------------------------
(* Lemmas on the operators the model is built from.                       *)

\* Every non-empty set of naturals has a least element, so the scans of the
\* code that stop at the first match (bsc_assign_endpoint, the slot search
\* of bsc_mgcp_forward) are well defined.
LEMMA LeastIsMinimum ==
    ASSUME NEW S \in SUBSET Nat, S # {}
    PROVE  /\ Least(S) \in S
           /\ \A y \in S : Least(S) =< y
<1>1. PICK x \in S : \A y \in S : ~(<<y, x>> \in OpToRel(<, Nat))
  BY NatLessThanWellFounded, WFMin
<1>2. \A y \in S : y < x => <<y, x>> \in OpToRel(<, Nat)
  BY DEF OpToRel
<1>3. \A y \in S : ~(y < x)
  BY <1>1, <1>2, Zenon
<1>4. \E m \in S : \A y \in S : m =< y
  BY <1>3
<1>. QED
  BY <1>4 DEF Least

\* bsc_assign_endpoint returns -1 or an endpoint below max_endpoints that
\* is not timeslot 0 nor 31 and whose status byte is 0, whatever the status
\* array and the cursor hold.
LEMMA AssignEndpointRange ==
    ASSUME NEW U, NEW l, NEW max \in Nat
    PROVE  AssignEndpoint(U, l, max) \in {NoEndp} \cup (ValidEndpoints(max) \ U)
<1>. DEFINE free  == ValidEndpoints(max) \ U
            after == {e \in free : e > l}
<1>1. free \in SUBSET Nat /\ after \subseteq free
  BY DEF ValidEndpoints
<1>2. CASE free # {} /\ after # {}
  BY <1>1, <1>2, LeastIsMinimum DEF AssignEndpoint
<1>3. CASE free # {} /\ after = {}
  BY <1>1, <1>3, LeastIsMinimum DEF AssignEndpoint
<1>4. CASE free = {}
  BY <1>4 DEF AssignEndpoint
<1>. QED
  BY <1>2, <1>3, <1>4

\* The endpoint decoded from a CIC is a natural number.
LEMMA CicToEndpointNat ==
    ASSUME NEW cic \in Nat
    PROVE  CicToEndpoint(cic) \in Nat
<1>1. cic % 32 \in 0 .. 31
  OBVIOUS
<1>2. (cic - (cic % 32)) \div 32 \in Nat
  BY <1>1
<1>3. ((cic - (cic % 32)) \div 32) % 256 \in Nat
  BY <1>2
<1>. QED
  BY <1>1, <1>3 DEF CicToEndpoint, TimeslotToEndpoint
-----------------------------------------------------------------------------
(* The allocator's choice.                                                *)

\* Every endpoint the allocator may hand out lies in 1 .. max_endpoints.
LEMMA ValidEndpointsBounds ==
    ASSUME NEW max \in Nat
    PROVE  ValidEndpoints(max) \subseteq 1 .. max
BY DEF ValidEndpoints

\* The position of endpoint e in the scan that starts after cursor l: the
\* endpoints above the cursor first, in increasing order, then the wrap.
ScanRank(e, l, max) == IF e > l THEN e ELSE e + max

\* bsc_assign_endpoint fails (returns -1) exactly when every endpoint it
\* may hand out has its status byte set: a BSC with a free endpoint never
\* has an assignment refused.
THEOREM AssignEndpointFailsOnlyWhenFull ==
    ASSUME NEW U, NEW l, NEW max \in Nat
    PROVE  AssignEndpoint(U, l, max) = NoEndp <=> ValidEndpoints(max) \subseteq U
<1>. DEFINE free == ValidEndpoints(max) \ U
<1>1. free = {} <=> ValidEndpoints(max) \subseteq U
  OBVIOUS
<1>2. CASE free = {}
  BY <1>2 DEF AssignEndpoint
<1>3. CASE free # {}
  <2>. DEFINE after == {e \in free : e > l}
  <2>2. free \subseteq Nat
    BY DEF ValidEndpoints
  <2>1. AssignEndpoint(U, l, max) \in free
    <3>1. CASE after # {}
      BY <1>3, <2>2, <3>1, LeastIsMinimum DEF AssignEndpoint
    <3>2. CASE after = {}
      BY <1>3, <2>2, <3>2, LeastIsMinimum DEF AssignEndpoint
    <3>. QED
      BY <3>1, <3>2
  <2>. QED
    BY <1>1, <1>3, <2>1, <2>2 DEF NoEndp
<1>. QED
  BY <1>1, <1>2, <1>3

\* bsc_assign_endpoint hands out the free endpoint that comes first in the
\* scan from the cursor: every other free endpoint comes later, so the
\* endpoints are used round robin and a just-released endpoint is reused
\* only when every other one is taken or lies behind it.
THEOREM AssignEndpointFirstInScan ==
    ASSUME NEW U, NEW l \in Nat, NEW max \in Nat,
           AssignEndpoint(U, l, max) # NoEndp
    PROVE  \A f \in (ValidEndpoints(max) \ U) \ {AssignEndpoint(U, l, max)} :
               ScanRank(AssignEndpoint(U, l, max), l, max) < ScanRank(f, l, max)
<1>. DEFINE free  == ValidEndpoints(max) \ U
            after == {e \in free : e > l}
            r     == AssignEndpoint(U, l, max)
<1>1. free \subseteq 1 .. max /\ after \subseteq free
  BY ValidEndpointsBounds
<1>2. free # {}
  BY DEF AssignEndpoint
<1> SUFFICES ASSUME NEW f \in free \ {r} PROVE ScanRank(r, l, max) < ScanRank(f, l, max)
  OBVIOUS
<1>3. CASE after # {}
  <2>1. r = Least(after)
    BY <1>2, <1>3 DEF AssignEndpoint
  <2>2. r \in after /\ \A y \in after : r =< y
    BY <1>1, <1>3, <2>1, LeastIsMinimum
  <2>3. CASE f > l
    <3>1. f \in after /\ f # r /\ f \in Nat
      BY <1>1, <2>3
    <3>2. r < f /\ r > l
      BY <1>1, <2>2, <3>1
    <3>. QED
      BY <2>3, <3>2 DEF ScanRank
  <2>4. CASE ~(f > l)
    BY <1>1, <2>2, <2>4 DEF ScanRank
  <2>. QED
    BY <2>3, <2>4
<1>4. CASE after = {}
  <2>1. r = Least(free)
    BY <1>2, <1>4 DEF AssignEndpoint
  <2>2. r \in free /\ \A y \in free : r =< y
    BY <1>1, <1>2, <2>1, LeastIsMinimum
  <2>3. ~(r > l) /\ ~(f > l)
    BY <1>4, <2>2
  <2>. QED
    BY <1>1, <2>2, <2>3 DEF ScanRank
<1>. QED
  BY <1>3, <1>4
=============================================================================
