------------------------------ MODULE MCMgcpNat -----------------------------
(* Instance of the NAT core for TLC: two BSCs, two calls, two Call Agent   *)
(* transactions; two trunk endpoints (1, 2) and BSCs with two endpoints   *)
(* each (1, 2), so that two calls can collide on a Call Agent endpoint    *)
(* and two calls exhaust a BSC; CIC 3 is out of range.                    *)
EXTENDS MgcpNatTransactions, TLC

CONSTANTS b1, b2, c1, c2, t1, t2

MCBSCs == {b1, b2}
MCConns == {c1, c2}
MCTids == {t1, t2}
MCNumEndpoints == 3
MCMaxEndpoints == 3
MCCics == {1, 2, 3}

(* For the liveness runs, which cannot use symmetry: one BSC with a      *)
(* single endpoint (1), so that a second call exhausts it.               *)
MCLiveBSCs == {b1}
MCLiveMaxEndpoints == 2
MCLiveCics == {1, 2}

MCSymmetry == Permutations(MCBSCs) \cup Permutations(MCConns) \cup Permutations(MCTids)
=============================================================================
