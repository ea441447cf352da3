------------------------------ MODULE CicCodec ------------------------------
(***************************************************************************)
(* The CIC of a BSSMAP ASSIGNMENT REQUEST as bsc_mgcp_assign_patch decodes *)
(* it (lines 192-197), compared with the decoding the spec states          *)
(* (section 4.1: timeslot = cic & 0x1f, multiplex = cic >> 5).  The state  *)
(* is the 16-bit CIC received from the MSC; every value is an initial     *)
(* state and nothing changes it.                                          *)
(***************************************************************************)
EXTENDS BscEndpoints

VARIABLE cic

Init == cic \in 0 .. 65535

Next == UNCHANGED cic

Spec == Init /\ [][Next]_cic

\* The endpoint the spec's decoding names.
SpecCicEndpoint(c) == TimeslotToEndpoint(c \div 32, c % 32)

\* Spec section 4.1 (CIC inverse) and section 8 (CIC round trip): the
\* assignment patcher binds the session to the endpoint whose multiplex is
\* cic >> 5 and whose timeslot is cic & 0x1f, for every 16-bit CIC; in
\* particular the range check against number_endpoints sees that endpoint.
CicDecodeMatchesSpec == CicToEndpoint(cic) = SpecCicEndpoint(cic)
=============================================================================
