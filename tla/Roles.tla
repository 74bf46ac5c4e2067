------------------------------- MODULE Roles -------------------------------
(***************************************************************************)
(* The Roles contract: who may act as admin, buyer or seller.              *)
(*                                                                         *)
(* A transaction either runs to its end or reverts and changes nothing, so *)
(* each action is one whole call and its guard is the conjunction of the   *)
(* call's modifiers and requires.  msg.sender is never the zero address;   *)
(* the addresses passed as arguments may be.                               *)
(***************************************************************************)
EXTENDS FiniteSets

CONSTANTS
    Account,    \* the addresses that send transactions
    NoOne,      \* address(0)
    Deployer,   \* the account that deploys the contracts
    RoleChange  \* the roles and accounts that admins grant and revoke

Address == Account \cup {NoOne}

Role == {"ADMIN", "BUYER", "SELLER", "BANNED"}

ASSUME AccountAssumption ==
    /\ NoOne \notin Account
    /\ Deployer \in Account
    /\ RoleChange \subseteq [role : Role, account : Address]

VARIABLES
    roles,      \* _roles: role -> the set of addresses that hold it
    rolesOwner  \* owner

rolesVars == <<roles, rolesOwner>>

TypeOK ==
    /\ roles \in [Role -> SUBSET Address]
    /\ rolesOwner \in Account

\* The constructor: the deployer owns the contract and is its first admin.
Init ==
    /\ roles = [r \in Role |-> IF r = "ADMIN" THEN {Deployer} ELSE {}]
    /\ rolesOwner = Deployer

HasRole(role, account) == account \in roles[role]

IsAdmin(account) == HasRole("ADMIN", account)

GrantRole(sender, role, account) ==
    /\ IsAdmin(sender)
    /\ roles' = [roles EXCEPT ![role] = @ \cup {account}]
    /\ UNCHANGED rolesOwner

RevokeRole(sender, role, account) ==
    /\ IsAdmin(sender)
    /\ roles' = [roles EXCEPT ![role] = @ \ {account}]
    /\ UNCHANGED rolesOwner

\* Mutants: ownership alone suffices; the old owner stays an admin.
TransferOwnershipMutantOwner(sender, newOwner) ==
    /\ sender = rolesOwner
    /\ newOwner # NoOne
    /\ roles' = [roles EXCEPT !["ADMIN"] = (@ \cup {newOwner}) \ {rolesOwner}]
    /\ rolesOwner' = newOwner

TransferOwnershipMutantKeep(sender, newOwner) ==
    /\ sender = rolesOwner
    /\ newOwner # NoOne
    /\ IsAdmin(sender)
    /\ roles' = [roles EXCEPT !["ADMIN"] = @ \cup {newOwner}]
    /\ rolesOwner' = newOwner

\* transferOwnership calls grantRole and then revokeRole, each of which asks
\* again that the sender is an admin.  The new owner is granted the role first,
\* so an owner that transfers to itself is left without it.
TransferOwnership(sender, newOwner) ==
    /\ sender = rolesOwner
    /\ newOwner # NoOne
    /\ IsAdmin(sender)
    /\ roles' = [roles EXCEPT !["ADMIN"] = (@ \cup {newOwner}) \ {rolesOwner}]
    /\ rolesOwner' = newOwner

Next ==
    \E sender \in Account :
        \/ \E change \in RoleChange :
              \/ GrantRole(sender, change.role, change.account)
              \/ RevokeRole(sender, change.role, change.account)
        \/ \E account \in Address : TransferOwnership(sender, account)

Spec == Init /\ [][Next]_rolesVars

-----------------------------------------------------------------------------

\* Once the last admin is gone nothing can ever change again: the owner keeps
\* its title, but transferOwnership still asks for ADMIN (Roles.sol:66-67), so
\* it is no back door by which ownership alone would rebuild the admin set.
FrozenWithoutAdmin == [][roles["ADMIN"] # {}]_rolesVars

\* Ownership and ADMIN move together: when the owner changes, the new owner
\* holds ADMIN and the old one no longer does (Roles.t.sol:37-39).
OwnershipMovesAdmin ==
    [][rolesOwner' # rolesOwner =>
          roles["ADMIN"]' = (roles["ADMIN"] \ {rolesOwner}) \cup {rolesOwner'}]_rolesVars
=============================================================================
