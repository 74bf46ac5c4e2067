----------------------------- MODULE Reputation -----------------------------
(***************************************************************************)
(* The Reputation contract, with the Roles contract it asks who is admin.  *)
(*                                                                         *)
(* Scores are int256 in the code.  ScoreMax stands for its largest value:  *)
(* arithmetic that leaves ScoreMin..ScoreMax reverts, as checked arithmetic *)
(* does, and that includes negating ScoreMin in the event of penalize.     *)
(***************************************************************************)
EXTENDS Integers, Roles

CONSTANTS
    ScoreMax,   \* type(int256).max
    Delta,      \* the deltas callers pass
    Score       \* the scores admins set

ScoreMin == -ScoreMax - 1

ASSUME ScoreAssumption ==
    /\ ScoreMax \in Nat
    /\ Delta \subseteq ScoreMin .. ScoreMax
    /\ Score \subseteq ScoreMin .. ScoreMax

VARIABLES
    reputation,     \* who -> score
    authorizedBuyer \* authorizedRequest of this contract: who may rate once

scoreVars == <<reputation, authorizedBuyer>>
repVars == <<scoreVars, rolesVars>>

RepTypeOK ==
    /\ TypeOK
    /\ reputation \in [Address -> ScoreMin .. ScoreMax]
    /\ authorizedBuyer \subseteq Address

ScoreInit ==
    /\ reputation = [who \in Address |-> 0]
    /\ authorizedBuyer = {}

AuthorizeBuyerOrContract(sender, who, allowed) ==
    /\ IsAdmin(sender)
    /\ authorizedBuyer' = IF allowed THEN authorizedBuyer \cup {who}
                                     ELSE authorizedBuyer \ {who}
    /\ UNCHANGED reputation

\* onlyAuthOrAdmin
MayRate(sender) == sender \in authorizedBuyer \/ IsAdmin(sender)

CanAward(sender, who, delta) ==
    /\ MayRate(sender)
    /\ reputation[who] + delta \in ScoreMin .. ScoreMax

\* Mutant: an award leaves the authorisation.
AwardMutant(sender, who, delta) ==
    /\ CanAward(sender, who, delta)
    /\ reputation' = [reputation EXCEPT ![who] = @ + delta]
    /\ UNCHANGED authorizedBuyer

\* An admin that also holds an authorisation spends it too.
Award(sender, who, delta) ==
    /\ CanAward(sender, who, delta)
    /\ reputation' = [reputation EXCEPT ![who] = @ + delta]
    /\ authorizedBuyer' = authorizedBuyer \ {sender}

\* Mutant: an unchecked subtraction.
CanPenalizeMutant(sender, who, delta) == MayRate(sender) /\ delta # ScoreMin

CanPenalize(sender, who, delta) ==
    /\ MayRate(sender)
    /\ reputation[who] - delta \in ScoreMin .. ScoreMax
    /\ delta # ScoreMin

Penalize(sender, who, delta) ==
    /\ CanPenalize(sender, who, delta)
    /\ reputation' = [reputation EXCEPT ![who] = @ - delta]
    /\ authorizedBuyer' = authorizedBuyer \ {sender}

SetScore(sender, who, newScore) ==
    /\ IsAdmin(sender)
    /\ reputation' = [reputation EXCEPT ![who] = newScore]
    /\ UNCHANGED authorizedBuyer

RateNext ==
    \E sender \in Account, who \in Address :
        \/ \E allowed \in BOOLEAN : AuthorizeBuyerOrContract(sender, who, allowed)
        \/ \E delta \in Delta : Award(sender, who, delta)
        \/ \E delta \in Delta : Penalize(sender, who, delta)
        \/ \E newScore \in Score : SetScore(sender, who, newScore)

RepInit == Init /\ ScoreInit

RepNext ==
    \/ RateNext /\ UNCHANGED rolesVars
    \/ Next /\ UNCHANGED scoreVars

RepSpec == RepInit /\ [][RepNext]_repVars

-----------------------------------------------------------------------------

\* A score moves only while someone may rate it: an admin exists, or an
\* authorisation is outstanding.  With no admin left every change of a score
\* spends one authorisation and none can be made, so an account that was
\* authorised before the admins disappeared rates once more at most, and the
\* scores then stay as they are for ever (Reputation.sol:25-51, Roles.sol:36).
WithoutAdminAuthorisationsRunOut ==
    [][roles["ADMIN"] = {} /\ reputation' # reputation =>
          Cardinality(authorizedBuyer') < Cardinality(authorizedBuyer)]_repVars
=============================================================================
