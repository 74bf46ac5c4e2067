-------------------------- MODULE ReputationProofs --------------------------
(***************************************************************************)
(* The properties of the Roles contract for any set of accounts, and of    *)
(* the Reputation contract, which is one, for any accounts and scores.     *)
(***************************************************************************)
EXTENDS Reputation, FiniteSetTheorems, TLAPS

-----------------------------------------------------------------------------
(* Of the Roles contract, for any set of accounts.                         *)

\* Every step is a call of an admin, and is one of three.
LEMMA StepIsACall ==
  ASSUME Next
  PROVE  \E sender \in Account :
            /\ IsAdmin(sender)
            /\ \/ \E change \in RoleChange :
                     \/ GrantRole(sender, change.role, change.account)
                     \/ RevokeRole(sender, change.role, change.account)
               \/ \E account \in Address : TransferOwnership(sender, account)
BY DEF Next, GrantRole, RevokeRole, TransferOwnership

\* Every step keeps the types.
LEMMA TypesKept == TypeOK /\ [Next]_rolesVars => TypeOK'
<1> SUFFICES ASSUME TypeOK, [Next]_rolesVars PROVE TypeOK'
  OBVIOUS
<1>1. ASSUME NEW sender \in Account, NEW change \in RoleChange,
             \/ GrantRole(sender, change.role, change.account)
             \/ RevokeRole(sender, change.role, change.account)
      PROVE  TypeOK'
  <2>1. change.role \in Role /\ change.account \in Address
    BY AccountAssumption
  <2> QED
    BY <1>1, <2>1 DEF TypeOK, GrantRole, RevokeRole
<1>2. ASSUME NEW sender \in Account, NEW account \in Address,
             TransferOwnership(sender, account)
      PROVE  TypeOK'
  BY <1>2 DEF TypeOK, TransferOwnership, Role, Address
<1>3. CASE UNCHANGED rolesVars
  BY <1>3 DEF TypeOK, rolesVars
<1> QED
  BY <1>1, <1>2, <1>3 DEF Next

LEMMA TypesAtFirst == Init => TypeOK
BY AccountAssumption DEF Init, TypeOK, Role, Address

\* Roles are held by known addresses, and the owner is never address(0).
THEOREM RolesTyped == Spec => []TypeOK
BY TypesAtFirst, TypesKept, PTL DEF Spec

\* Without an admin the contract is frozen: no call succeeds any more, the
\* owner's transferOwnership included.
THEOREM FrozenForAll == Spec => FrozenWithoutAdmin
<1>1. [Next]_rolesVars => [roles["ADMIN"] # {}]_rolesVars
  BY StepIsACall DEF IsAdmin, HasRole
<1> QED
  BY <1>1, PTL DEF Spec, FrozenWithoutAdmin

\* A change of owner moves ADMIN from the old owner to the new one and changes
\* it for nobody else.
THEOREM OwnershipMovesForAll == Spec => OwnershipMovesAdmin
<1> DEFINE Moves == rolesOwner' # rolesOwner =>
                      roles["ADMIN"]' = (roles["ADMIN"] \ {rolesOwner}) \cup {rolesOwner'}
<1>1. TypeOK /\ [Next]_rolesVars => [Moves]_rolesVars
  <2> SUFFICES ASSUME TypeOK, Next PROVE Moves
    OBVIOUS
  <2>1. ASSUME NEW sender, NEW role, NEW account,
               GrantRole(sender, role, account) \/ RevokeRole(sender, role, account)
        PROVE  Moves
    BY <2>1 DEF GrantRole, RevokeRole
  <2>2. ASSUME NEW sender, NEW account, TransferOwnership(sender, account)
        PROVE  Moves
    <3>1. roles' = [roles EXCEPT !["ADMIN"] = (@ \cup {account}) \ {rolesOwner}]
      BY <2>2 DEF TransferOwnership
    <3>2. roles'["ADMIN"] = (roles["ADMIN"] \cup {account}) \ {rolesOwner}
      BY <3>1 DEF TypeOK, Role
    <3> QED
      BY <2>2, <3>2 DEF TransferOwnership
  <2> QED
    BY <2>1, <2>2 DEF Next
<1>2. Spec => [][Moves]_rolesVars
  BY <1>1, RolesTyped, PTL DEF Spec
<1> QED
  BY <1>2 DEF OwnershipMovesAdmin

-----------------------------------------------------------------------------
(* Of the Reputation contract.                                             *)

\* A score stays between the ends of its type, and roles and authorisations are held by
\* known addresses: the checked arithmetic lets nothing else through.
THEOREM RatingsTyped == RepSpec => []RepTypeOK
<1>1. RepInit => RepTypeOK
  BY TypesAtFirst, ScoreAssumption DEF RepInit, ScoreInit, RepTypeOK, ScoreMin
<1>2. RepTypeOK /\ [RepNext]_repVars => RepTypeOK'
  <2> SUFFICES ASSUME RepTypeOK, [RepNext]_repVars PROVE RepTypeOK'
    OBVIOUS
  <2>1. UNCHANGED rolesVars => TypeOK'
    BY DEF RepTypeOK, TypeOK, rolesVars
  <2> DEFINE Scored == reputation \in [Address -> ScoreMin .. ScoreMax]
                       /\ authorizedBuyer \subseteq Address
  <2>2. UNCHANGED scoreVars => Scored'
    BY DEF RepTypeOK, scoreVars
  <2>3. ASSUME NEW sender \in Account, NEW who \in Address,
               \/ \E allowed \in BOOLEAN : AuthorizeBuyerOrContract(sender, who, allowed)
               \/ \E delta \in Delta : Award(sender, who, delta)
               \/ \E delta \in Delta : Penalize(sender, who, delta)
               \/ \E newScore \in Score : SetScore(sender, who, newScore)
        PROVE  Scored'
    <3>1. ASSUME NEW allowed \in BOOLEAN, AuthorizeBuyerOrContract(sender, who, allowed)
          PROVE  Scored'
      BY <3>1 DEF AuthorizeBuyerOrContract, RepTypeOK
    <3>2. ASSUME NEW delta \in Delta, Award(sender, who, delta) PROVE Scored'
      BY <3>2 DEF Award, CanAward, RepTypeOK
    <3>3. ASSUME NEW delta \in Delta, Penalize(sender, who, delta) PROVE Scored'
      BY <3>3 DEF Penalize, CanPenalize, RepTypeOK
    <3>4. ASSUME NEW newScore \in Score, SetScore(sender, who, newScore) PROVE Scored'
      BY <3>4, ScoreAssumption DEF SetScore, RepTypeOK
    <3> QED
      BY <2>3, <3>1, <3>2, <3>3, <3>4
  <2>4. CASE RateNext /\ UNCHANGED rolesVars
    BY <2>1, <2>3, <2>4 DEF RateNext, RepTypeOK
  <2>5. CASE Next /\ UNCHANGED scoreVars
    BY <2>2, <2>5, TypesKept DEF RepTypeOK
  <2>6. CASE UNCHANGED repVars
    BY <2>1, <2>2, <2>6 DEF repVars, rolesVars, scoreVars, RepTypeOK
  <2> QED
    BY <2>4, <2>5, <2>6 DEF RepNext
<1> QED
  BY <1>1, <1>2, PTL DEF RepSpec

\* However many accounts there are, only finitely many are authorised at a time.
LEMMA FewAuthorised == RepSpec => []IsFiniteSet(authorizedBuyer)
<1>1. RepInit => IsFiniteSet(authorizedBuyer)
  BY FS_EmptySet DEF RepInit, ScoreInit
<1>2. IsFiniteSet(authorizedBuyer) /\ [RepNext]_repVars => IsFiniteSet(authorizedBuyer)'
  <2> SUFFICES ASSUME IsFiniteSet(authorizedBuyer), [RepNext]_repVars
               PROVE  IsFiniteSet(authorizedBuyer')
    OBVIOUS
  <2>1. \/ authorizedBuyer' = authorizedBuyer
        \/ \E x : authorizedBuyer' = authorizedBuyer \cup {x}
        \/ \E x : authorizedBuyer' = authorizedBuyer \ {x}
    BY DEF RepNext, RateNext, AuthorizeBuyerOrContract, Award, Penalize, SetScore,
           scoreVars, repVars
  <2> QED
    BY <2>1, FS_AddElement, FS_RemoveElement
<1> QED
  BY <1>1, <1>2, PTL DEF RepSpec

\* Without an admin every rating uses up an authorisation, for any number of accounts.
THEOREM RatingsRunOut == RepSpec => WithoutAdminAuthorisationsRunOut
<1> DEFINE Spends == roles["ADMIN"] = {} /\ reputation' # reputation =>
                        Cardinality(authorizedBuyer') < Cardinality(authorizedBuyer)
<1>1. IsFiniteSet(authorizedBuyer) /\ [RepNext]_repVars => [Spends]_repVars
  <2> SUFFICES ASSUME IsFiniteSet(authorizedBuyer), RepNext,
                      roles["ADMIN"] = {}, reputation' # reputation
               PROVE  Cardinality(authorizedBuyer') < Cardinality(authorizedBuyer)
    OBVIOUS
  <2>1. PICK sender \in Account, who \in Address :
           \/ \E delta \in Delta : Award(sender, who, delta)
           \/ \E delta \in Delta : Penalize(sender, who, delta)
    BY DEF RepNext, RateNext, AuthorizeBuyerOrContract, SetScore, IsAdmin, HasRole, scoreVars
  <2>2. sender \in authorizedBuyer /\ authorizedBuyer' = authorizedBuyer \ {sender}
    BY <2>1 DEF Award, CanAward, Penalize, CanPenalize, MayRate, IsAdmin, HasRole
  <2>3. Cardinality(authorizedBuyer) \in Nat
    BY FS_CardinalityType
  <2>4. Cardinality(authorizedBuyer') = Cardinality(authorizedBuyer) - 1
    BY <2>2, FS_RemoveElement
  <2> QED
    BY <2>3, <2>4
<1> QED
  BY <1>1, FewAuthorised, PTL DEF RepSpec, WithoutAdminAuthorisationsRunOut
=============================================================================
