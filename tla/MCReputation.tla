--------------------------- MODULE MCReputation ----------------------------
(***************************************************************************)
(* Reputation with admins that come and go, scores of a 3-bit word, and    *)
(* deltas of both signs, the smallest one included.                        *)
(***************************************************************************)
EXTENDS Reputation

CONSTANTS a1, a2

MCAccount == {a1, a2}
MCRoleChange == [role : {"ADMIN"}, account : MCAccount]
MCDelta == {-4, -1, 2, 3}
MCScore == {-4, 0, 3}
=============================================================================
