------------------------- MODULE MgcpNatTransactions -------------------------
(***************************************************************************)
(* The NAT core (MgcpNat) seen from the Call Agent: its transactions       *)
(* behave as CallAgentTransactions says.  The refinement mapping gives     *)
(* each transaction id its abstract phase: new while the Call Agent has   *)
(* not used it, pending while it is parked in a slot and its BSC may      *)
(* still answer it (Relayed), closed otherwise.  The answer counts are    *)
(* the NAT's own.                                                          *)
(***************************************************************************)
EXTENDS MgcpNat

\* Transaction t is relayed to a BSC and parked in some pending slot.
Awaited(t) == \E e \in Eps : Relayed(e, t)

PhaseOf(t) ==
    IF t \notin usedTids THEN "new"
    ELSE IF Awaited(t) THEN "pending"
    ELSE "closed"

phaseBar == [t \in Tids |-> PhaseOf(t)]

CA == INSTANCE CallAgentTransactions WITH phase <- phaseBar

\* The NAT implements the Call Agent's view of MGCP transactions: a
\* transaction is answered once, by the parser when the policy callback
\* does not defer it, or by bsc_mgcp_forward when its BSC replies while it
\* is still parked; a transaction the NAT drops (a newer command on the
\* endpoint, teardown, a reply without CI, BSC loss) is never answered
\* later, and no dropped transaction comes back.
TransactionsRefined == CA!Spec

\* The Call Agent is answered at most once per transaction, never for an id
\* it has not used, and never while the transaction is parked and relayed:
\* the answer of the parser or of bsc_mgcp_forward always comes with the
\* slot cleared, so a later BSC reply finds nothing to forward.
AnswerClosesTransaction == CA!AnsweredOnlyWhenClosed
=============================================================================
