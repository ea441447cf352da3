------------------------ MODULE MCEndpointAllocator ------------------------
(* Instance of the allocator for TLC: 40 endpoints span two multiplexes;  *)
(* the scan skips timeslots 31 and 0 into multiplex 1 and restarts at    *)
(* (0, 1) past endpoint 39 (lines 127-143).                              *)
EXTENDS EndpointAllocator

MCMaxEndpoints == 40
MCMaxInUse == 2

(* A BSC whose five handable endpoints (1..5) can all be held at once, so  *)
(* that the scan runs to the end and the allocation fails; past endpoint  *)
(* 5 the scan restarts at (0, 1) (lines 139-143).                        *)
MCFullMaxEndpoints == 6
MCFullMaxInUse == 6
=============================================================================
