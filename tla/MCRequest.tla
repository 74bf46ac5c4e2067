----------------------------- MODULE MCRequest -----------------------------
(***************************************************************************)
(* Small markets: a deployer that is admin, buyer and owner of the pool,   *)
(* two sellers, two hashes, so a result can be right, wrong, retried and   *)
(* retried wrongly again.                                                  *)
(***************************************************************************)
EXTENDS Request

CONSTANTS boss, s1, s2, q1, q2, h1, h2

MCAccount == {boss, s1, s2}
MCOneReq == {q1}
MCTwoReq == {q1, q2}
MCHash == {h1, h2}
MCAnyHash == {h1, h2, NoHash}

\* The roles the deployment scripts hand out; then also a second admin, and the
\* SELLER role for the zero address, which nothing forbids.
MCRoleChange == {[role |-> "BUYER", account |-> boss]}
                \cup [role : {"SELLER"}, account : {s1, s2}]
MCRoleChurn == MCRoleChange \cup {[role |-> "SELLER", account |-> NoOne],
                                  [role |-> "ADMIN", account |-> s1]}

\* 1 wei leaves an escrow of nothing, 11 wei strand one wei.
MCPayment == {0, 1, 11}
MCJobCost == {0, 9, 10}
MCOnePayment == {10}

MCDonation == {8}
MCNoDonation == {}
=============================================================================
