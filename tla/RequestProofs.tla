--------------------------- MODULE RequestProofs ---------------------------
(***************************************************************************)
(* The properties of the contracts for any number of accounts, requests,   *)
(* hashes and payments.                                                    *)
(*                                                                         *)
(* Every call of a Request replaces one storage.  So the proof that Inv is *)
(* inductive has one lemma per call, which says that the storage the call  *)
(* leaves is well typed and sound if the one it found was, and one lemma   *)
(* that puts that storage back among the others.                           *)
(***************************************************************************)
EXTENDS Request, FiniteSetTheorems, TLAPS

\* The constructor's two shares add up to the payment or to one wei less.
LEMMA PaymentSplit ==
  ASSUME NEW v \in Nat
  PROVE  /\ Pay!EscrowOf(v) \in Nat
         /\ Pay!AuditTaxOf(v) \in Nat
         /\ v - Pay!AuditTaxOf(v) \in Nat
         /\ v - Pay!AuditTaxOf(v) - Pay!EscrowOf(v) \in {0, 1}
BY Z3 DEF Pay!EscrowOf, Pay!AuditTaxOf

\* Whatever the payment, the two shares are natural numbers that add up to the
\* payment or to one wei less.
THEOREM SplitLosesAtMostOneWei ==
  ASSUME NEW v \in Nat
  PROVE  /\ Pay!EscrowOf(v) \in Nat
         /\ Pay!AuditTaxOf(v) \in Nat
         /\ Pay!DustOf(v) \in {0, 1}
BY Z3 DEF Pay!EscrowOf, Pay!AuditTaxOf, Pay!DustOf

\* For every price the escrow the constructor keeps out of the server's payment
\* is that price: blockchain-service.ts:96 and Request.sol:62 cancel out.
THEOREM EscrowIsThePriceForAll ==
  ASSUME NEW p \in Nat
  PROVE  Pay!ActualEscrow(p) = p
BY Z3 DEF Pay!ActualEscrow, Pay!EscrowOf, Pay!TotalPayment

\* No smaller payment would do: with one wei less the escrow misses the price.
THEOREM PaymentIsLeastForAll ==
  ASSUME NEW p \in Nat, p > 0
  PROVE  Pay!EscrowOf(Pay!TotalPayment(p) - 1) < p
BY Z3 DEF Pay!EscrowOf, Pay!TotalPayment

\* An address without a contract is sound.
LEMMA EmptySound == Empty \in Storage /\ Sound(Empty)
BY DEF Empty, Storage, Sound, EscrowSound, AttemptSound, AuditSound,
       Attempted, AnyHash, Address, State

\* What Inv says of one storage.
LEMMA InvAt ==
  ASSUME Inv, NEW q \in Req
  PROVE  req[q] \in Storage /\ Sound(req[q])
BY DEF Inv, TypeOK

\* A call that leaves a sound storage in one place leaves all of them sound.
LEMMA Replaced ==
  ASSUME Inv, NEW q \in Req, NEW s \in Storage, Sound(s),
         req' = [req EXCEPT ![q] = s]
  PROVE  /\ req' \in [Req -> Storage]
         /\ \A x \in Req : Sound(req'[x])
BY DEF Inv, TypeOK

\* A wallet that is paid, or pays, is still a wallet.
LEMMA WalletType ==
  ASSUME Inv, NEW a \in Address, NEW n \in Int,
         wallet' = [wallet EXCEPT ![a] = @ + n] \/ wallet' = [wallet EXCEPT ![a] = @ - n]
  PROVE  wallet' \in [Address -> Int]
BY DEF Inv, TypeOK

-----------------------------------------------------------------------------
(* One lemma per call of a Request.                                        *)

\* The constructor leaves the whole cost, and at most one wei more.
LEMMA DeploySound ==
  ASSUME Inv, NEW sender \in Account, NEW q \in Req, NEW v \in Payment, NEW jobCost,
         Deploy(sender, q, v, jobCost)
  PROVE  \E s \in Storage : Sound(s) /\ req' = [req EXCEPT ![q] = s]
<1> DEFINE new == [Empty EXCEPT !.state = "Created", !.owner = sender,
                                !.escrowAmount = Pay!EscrowOf(v), !.cost = jobCost,
                                !.balance = v - Pay!AuditTaxOf(v)]
<1>1. v \in Nat
  BY RequestAssumption
<1>2. jobCost = Pay!EscrowOf(v)
  BY DEF Deploy, CanDeploy
<1>3. new \in Storage
  BY <1>1, <1>2, PaymentSplit, EmptySound DEF Storage, Address, State
<1>4. Sound(new)
  BY <1>1, <1>2, PaymentSplit
  DEF Sound, EscrowSound, AttemptSound, AuditSound, Attempted, Empty
<1>5. req' = [req EXCEPT ![q] = new]
  BY DEF Deploy
<1> QED
  BY <1>3, <1>4, <1>5

\* Appointing an executor opens an attempt with no result.
LEMMA AppointExecutorSound ==
  ASSUME Inv, NEW sender \in Account, NEW q \in Req, NEW candidate \in Address,
         AppointExecutor(sender, q, candidate)
  PROVE  \E s \in Storage : Sound(s) /\ req' = [req EXCEPT ![q] = s]
<1> DEFINE new == [req[q] EXCEPT !.executor = candidate, !.state = "ExecutorAssigned"]
<1>1. req[q] \in Storage /\ Sound(req[q]) /\ req[q].state = "Created"
  BY InvAt DEF AppointExecutor, CanAppointExecutor, InState
<1>2. new \in Storage
  BY <1>1 DEF Storage, State
<1>3. Sound(new)
  BY <1>1 DEF Sound, EscrowSound, AttemptSound, AuditSound, Attempted, Storage, Empty
<1>4. req' = [req EXCEPT ![q] = new]
  BY DEF AppointExecutor
<1> QED
  BY <1>2, <1>3, <1>4

\* An audit is opened only for an attempt no audit has judged.
LEMMA RequestAuditSound ==
  ASSUME Inv, NEW sender \in Account, NEW q \in Req, RequestAudit(sender, q)
  PROVE  \E s \in Storage : Sound(s) /\ req' = [req EXCEPT ![q] = s]
<1> DEFINE new == [req[q] EXCEPT !.auditRequired = TRUE, !.state = "AuditRequested"]
<1>1. /\ req[q] \in Storage /\ Sound(req[q])
      /\ req[q].state = "ResultSubmitted" /\ ~req[q].auditRequired
  BY InvAt DEF RequestAudit, CanRequestAudit, InState
<1>2. new \in Storage
  BY <1>1 DEF Storage, State
<1>3. Sound(new)
  BY <1>1 DEF Sound, EscrowSound, AttemptSound, AuditSound, Attempted, Storage, Empty
<1>4. req' = [req EXCEPT ![q] = new]
  BY DEF RequestAudit
<1> QED
  BY <1>2, <1>3, <1>4

\* Replacing the auditor of an open audit disturbs nothing else.
LEMMA AppointAuditorSound ==
  ASSUME Inv, NEW sender \in Account, NEW q \in Req, NEW candidate \in Address,
         AppointAuditor(sender, q, candidate)
  PROVE  \E s \in Storage : Sound(s) /\ req' = [req EXCEPT ![q] = s]
<1> DEFINE new == [req[q] EXCEPT !.auditor = candidate]
<1>1. req[q] \in Storage /\ Sound(req[q]) /\ req[q].state = "AuditRequested"
  BY InvAt DEF AppointAuditor, CanAppointAuditor, InState
<1>2. new \in Storage
  BY <1>1 DEF Storage
<1>3. Sound(new)
  BY <1>1 DEF Sound, EscrowSound, AttemptSound, AuditSound, Attempted, Storage, Empty
<1>4. req' = [req EXCEPT ![q] = new]
  BY DEF AppointAuditor
<1> QED
  BY <1>2, <1>3, <1>4

\* The storage of a rejected attempt, whatever answer the audit gave or gives.
LEMMA RejectedSound ==
  ASSUME NEW q \in Req, NEW hash \in AnyHash,
         req[q] \in Storage, Sound(req[q]),
         req[q].state \in {"ExecutorAssigned", "AuditRequested"},
         req[q].auditRequired, req[q].auditor \in Account
  PROVE  LET s == [Rejected(q) EXCEPT !.auditorResultHash = hash]
         IN  s \in Storage /\ Sound(s)
<1> DEFINE s == [Rejected(q) EXCEPT !.auditorResultHash = hash]
<1>1. s \in Storage
  BY DEF Storage, Rejected, State, Address, AnyHash
<1>2. Sound(s)
  BY DEF Rejected, Sound, EscrowSound, AttemptSound, AuditSound, Attempted, Storage, Empty
<1> QED
  BY <1>1, <1>2

\* A result waits for the buyer, is confirmed, or is dropped.
LEMMA AssignResultSound ==
  ASSUME Inv, NEW sender \in Account, NEW q \in Req, NEW hash \in Submission,
         AssignResult(sender, q, hash)
  PROVE  \E s \in Storage : Sound(s) /\ req' = [req EXCEPT ![q] = s]
<1>1. /\ req[q] \in Storage /\ Sound(req[q])
      /\ req[q].state = "ExecutorAssigned" /\ req[q].executor = sender
  BY InvAt DEF AssignResult, CanAssignResult, InState
<1>2. hash \in AnyHash
  BY RequestAssumption DEF AnyHash
<1>3. CASE req[q].auditorResultHash = NoHash
  <2> DEFINE new == [req[q] EXCEPT !.resultHash = hash, !.state = "ResultSubmitted"]
  <2>1. new \in Storage
    BY <1>1, <1>2 DEF Storage, State
  <2>2. Sound(new)
    BY <1>1 DEF Sound, EscrowSound, AttemptSound, AuditSound, Attempted, Storage, Empty
  <2>3. req' = [req EXCEPT ![q] = new]
    BY <1>3 DEF AssignResult
  <2> QED
    BY <2>1, <2>2, <2>3
<1>4. CASE req[q].auditorResultHash # NoHash /\ req[q].auditorResultHash = hash
  <2> DEFINE new == [req[q] EXCEPT !.resultHash = hash, !.faultyResult = FALSE,
                                   !.state = "Audited"]
  <2>1. new \in Storage
    BY <1>1, <1>2 DEF Storage, State
  <2>2. Sound(new)
    BY <1>1, <1>4 DEF Sound, EscrowSound, AttemptSound, AuditSound, Attempted, Storage, Empty
  <2>3. req' = [req EXCEPT ![q] = new]
    BY <1>4 DEF AssignResult
  <2> QED
    BY <2>1, <2>2, <2>3
<1>5. CASE req[q].auditorResultHash # NoHash /\ req[q].auditorResultHash # hash
  <2> DEFINE kept == req[q].auditorResultHash
             new == [Rejected(q) EXCEPT !.auditorResultHash = kept]
  <2>1. req[q].auditRequired /\ req[q].auditor \in Account /\ kept \in AnyHash
    BY <1>1, <1>5 DEF Sound, AuditSound, Storage
  <2>2. new \in Storage /\ Sound(new)
    BY <1>1, <2>1, RejectedSound
  <2>3. new = Rejected(q)
    BY <1>1 DEF Rejected, Storage
  <2>4. req' = [req EXCEPT ![q] = new]
    BY <1>5, <2>3 DEF AssignResult
  <2> QED
    BY <2>2, <2>4
<1> QED
  BY <1>3, <1>4, <1>5

\* The auditor's answer confirms the attempt or drops it.
LEMMA AssignAuditResultSound ==
  ASSUME Inv, NEW sender \in Account, NEW q \in Req, NEW hash \in Submission,
         AssignAuditResult(sender, q, hash)
  PROVE  \E s \in Storage : Sound(s) /\ req' = [req EXCEPT ![q] = s]
<1>1. /\ req[q] \in Storage /\ Sound(req[q])
      /\ req[q].state = "AuditRequested" /\ req[q].auditor = sender
  BY InvAt DEF AssignAuditResult, CanAssignAuditResult, InState
<1>2. hash \in AnyHash
  BY RequestAssumption DEF AnyHash
<1>3. req[q].auditRequired
  BY <1>1 DEF Sound, AuditSound, Storage
<1>4. CASE req[q].resultHash # hash
  <2> DEFINE new == [Rejected(q) EXCEPT !.auditorResultHash = hash]
  <2>1. new \in Storage /\ Sound(new)
    BY <1>1, <1>2, <1>3, RejectedSound
  <2>2. req' = [req EXCEPT ![q] = new]
    BY <1>4 DEF AssignAuditResult
  <2> QED
    BY <2>1, <2>2
<1>5. CASE req[q].resultHash = hash
  <2> DEFINE new == [req[q] EXCEPT !.auditorResultHash = hash, !.state = "Audited"]
  <2>1. new \in Storage
    BY <1>1, <1>2 DEF Storage, State
  <2>2. Sound(new)
    BY <1>1, <1>3, <1>5 DEF Sound, EscrowSound, AttemptSound, AuditSound, Attempted, Storage, Empty
  <2>3. req' = [req EXCEPT ![q] = new]
    BY <1>5 DEF AssignAuditResult
  <2> QED
    BY <2>1, <2>2, <2>3
<1> QED
  BY <1>4, <1>5

\* Completion pays out the escrow of an attempt that no audit has rejected.
LEMMA CompleteRequestSound ==
  ASSUME Inv, NEW sender \in Account, NEW q \in Req, CompleteRequest(sender, q)
  PROVE  \E s \in Storage : Sound(s) /\ req' = [req EXCEPT ![q] = s]
<1> DEFINE new == [req[q] EXCEPT !.state = "Completed", !.escrowAmount = 0,
                                 !.balance = @ - req[q].escrowAmount]
<1>1. /\ req[q] \in Storage /\ Sound(req[q])
      /\ CanCompleteRequest(sender, q)
  BY InvAt DEF CompleteRequest
<1>a. req[q].balance - req[q].escrowAmount \in Nat
  BY <1>1 DEF Storage, CanCompleteRequest
<1>2. new \in Storage
  BY <1>1, <1>a DEF Storage, State
<1>3. Sound(new)
  BY <1>1 DEF Sound, EscrowSound, AttemptSound, AuditSound, Attempted, Storage, Empty,
              CanCompleteRequest, InState
<1>4. req' = [req EXCEPT ![q] = new]
  BY DEF CompleteRequest
<1> QED
  BY <1>2, <1>3, <1>4

-----------------------------------------------------------------------------
(* Inv is an inductive invariant.                                          *)

LEMMA InvInit == Init => Inv
<1> SUFFICES ASSUME Init PROVE Inv
  OBVIOUS
<1>1. R!TypeOK
  BY RequestAssumption DEF Init, R!Init, R!TypeOK, R!Address
<1>2. Tax!TypeOK /\ Tax!BooksMatchBalance
  BY RequestAssumption DEF Init, Tax!Init, Tax!TypeOK, Tax!BooksMatchBalance
<1>3. req \in [Req -> Storage] /\ \A q \in Req : Sound(req[q])
  BY EmptySound DEF Init
<1>4. wallet \in [Address -> Int]
  BY DEF Init
<1> QED
  BY <1>1, <1>2, <1>3, <1>4 DEF Inv, TypeOK

\* Granting, revoking and transferring keep the types of Roles.
LEMMA RolesTyped == R!TypeOK /\ R!Next => R!TypeOK'
<1> SUFFICES ASSUME R!TypeOK, NEW sender \in Account,
                    \/ \E change \in RoleChange :
                          \/ R!GrantRole(sender, change.role, change.account)
                          \/ R!RevokeRole(sender, change.role, change.account)
                    \/ \E account \in R!Address : R!TransferOwnership(sender, account)
             PROVE  R!TypeOK'
  BY DEF R!Next
<1>1. ASSUME NEW change \in RoleChange,
             \/ R!GrantRole(sender, change.role, change.account)
             \/ R!RevokeRole(sender, change.role, change.account)
      PROVE  R!TypeOK'
  <2>1. change.role \in R!Role /\ change.account \in R!Address
    BY RequestAssumption
  <2> QED
    BY <1>1, <2>1 DEF R!TypeOK, R!GrantRole, R!RevokeRole
<1>2. ASSUME NEW account \in R!Address, R!TransferOwnership(sender, account)
      PROVE  R!TypeOK'
  BY <1>2 DEF R!TypeOK, R!TransferOwnership, R!Role, R!Address
<1> QED
  BY <1>1, <1>2

\* Every movement of the pool's money keeps its books in order.
LEMMA TaxKept ==
  ASSUME Inv, NEW q \in Req, NEW amount \in Nat, NEW allowed \in BOOLEAN,
         \/ Tax!Receive(amount)
         \/ Tax!Donate(amount)
         \/ Tax!AuthorizeRequest(q, allowed)
         \/ Tax!Withdraw(q, amount)
  PROVE  Tax!TypeOK' /\ Tax!BooksMatchBalance'
BY DEF Inv, TypeOK, Tax!TypeOK, Tax!BooksMatchBalance, Tax!Receive, Tax!Donate,
       Tax!AuthorizeRequest, Tax!Withdraw, Tax!CanWithdraw

LEMMA InvNext == Inv /\ [Next]_vars => Inv'
<1> SUFFICES ASSUME Inv, [Next]_vars PROVE Inv'
  OBVIOUS
<1> DEFINE RolesKept == R!TypeOK'
           PoolKept == Tax!TypeOK' /\ Tax!BooksMatchBalance'
           ReqKept == req' \in [Req -> Storage] /\ \A q \in Req : Sound(req'[q])
           WalletKept == wallet' \in [Address -> Int]
<1>1. SUFFICES RolesKept /\ PoolKept /\ ReqKept /\ WalletKept
  BY DEF Inv, TypeOK
<1>2. UNCHANGED rolesVars => RolesKept
  BY DEF Inv, TypeOK, R!TypeOK, rolesVars
<1>3. UNCHANGED taxVars => PoolKept
  BY DEF Inv, TypeOK, Tax!TypeOK, Tax!BooksMatchBalance, taxVars
<1>4. UNCHANGED req => ReqKept
  BY DEF Inv, TypeOK
<1>5. UNCHANGED wallet => WalletKept
  BY DEF Inv, TypeOK
<1>6. CASE RolesStep
  BY <1>3, <1>4, <1>5, <1>6, RolesTyped DEF RolesStep, Inv, TypeOK
<1>7. CASE TaxStep
  <2>1. ASSUME NEW q \in Req, NEW allowed \in BOOLEAN,
               Tax!AuthorizeRequest(q, allowed), UNCHANGED <<wallet, req, rolesVars>>
        PROVE  RolesKept /\ PoolKept /\ ReqKept /\ WalletKept
    BY <1>2, <1>4, <1>5, <2>1, TaxKept
  <2>2. ASSUME NEW a \in Account, NEW amount \in Donation, Tax!Donate(amount),
               wallet' = [wallet EXCEPT ![a] = @ - amount], UNCHANGED <<req, rolesVars>>
        PROVE  RolesKept /\ PoolKept /\ ReqKept /\ WalletKept
    <3>1. amount \in Nat /\ amount \in Int /\ a \in Address
      BY RequestAssumption DEF Address
    <3>2. PoolKept
      BY <2>2, <3>1
      DEF Inv, TypeOK, Tax!TypeOK, Tax!BooksMatchBalance, Tax!Receive, Tax!Donate
    <3>3. WalletKept
      BY <2>2, <3>1, WalletType
    <3> QED
      BY <1>2, <1>4, <2>2, <3>2, <3>3
  <2> QED
    BY <1>7, <2>1, <2>2 DEF TaxStep
<1>8. ASSUME NEW sender \in Account, NEW q \in Req, RequestStep(sender, q)
      PROVE  RolesKept /\ PoolKept /\ ReqKept /\ WalletKept
  <2>0. req[q] \in Storage /\ Sound(req[q])
    BY InvAt
  <2>1. ASSUME NEW v \in Payment, NEW jobCost \in JobCost, Deploy(sender, q, v, jobCost)
        PROVE  RolesKept /\ PoolKept /\ ReqKept /\ WalletKept
    <3>1. v \in Int /\ Pay!AuditTaxOf(v) \in Nat /\ sender \in Address
      BY RequestAssumption, PaymentSplit DEF Address
    <3>2. PoolKept
      BY <2>1, <3>1, TaxKept DEF Deploy
    <3>3. WalletKept
      BY <2>1, <3>1, WalletType DEF Deploy
    <3>4. ReqKept
      BY <2>1, DeploySound, Replaced
    <3>5. UNCHANGED rolesVars
      BY <2>1 DEF Deploy
    <3> QED
      BY <1>2, <3>2, <3>3, <3>4, <3>5
  <2>2. ASSUME NEW candidate \in Address, AppointExecutor(sender, q, candidate)
        PROVE  RolesKept /\ PoolKept /\ ReqKept /\ WalletKept
    <3>1. ReqKept
      BY <2>2, AppointExecutorSound, Replaced
    <3> QED
      BY <1>2, <1>3, <1>5, <2>2, <3>1 DEF AppointExecutor
  <2>3. ASSUME NEW hash \in Submission, AssignResult(sender, q, hash)
        PROVE  RolesKept /\ PoolKept /\ ReqKept /\ WalletKept
    <3>1. ReqKept
      BY <2>3, AssignResultSound, Replaced
    <3> QED
      BY <1>2, <1>3, <1>5, <2>3, <3>1 DEF AssignResult
  <2>4. ASSUME RequestAudit(sender, q)
        PROVE  RolesKept /\ PoolKept /\ ReqKept /\ WalletKept
    <3>1. ReqKept
      BY <2>4, RequestAuditSound, Replaced
    <3> QED
      BY <1>2, <1>3, <1>5, <2>4, <3>1 DEF RequestAudit
  <2>5. ASSUME NEW candidate \in Address, AppointAuditor(sender, q, candidate)
        PROVE  RolesKept /\ PoolKept /\ ReqKept /\ WalletKept
    <3>1. ReqKept
      BY <2>5, AppointAuditorSound, Replaced
    <3> QED
      BY <1>2, <1>3, <1>5, <2>5, <3>1 DEF AppointAuditor
  <2>6. ASSUME NEW hash \in Submission, AssignAuditResult(sender, q, hash)
        PROVE  RolesKept /\ PoolKept /\ ReqKept /\ WalletKept
    <3>1. req[q].cost \in Nat /\ req[q].cost \in Int /\ req[q].auditor \in Address
      BY <2>0 DEF Storage
    <3>2. Tax!Withdraw(q, req[q].cost) /\ UNCHANGED rolesVars
      BY <2>6 DEF AssignAuditResult
    <3>3. PoolKept
      BY <3>1, <3>2, TaxKept
    <3>4. WalletKept
      BY <2>6, <3>1, WalletType DEF AssignAuditResult
    <3>5. ReqKept
      BY <2>6, AssignAuditResultSound, Replaced
    <3> QED
      BY <1>2, <3>2, <3>3, <3>4, <3>5
  <2>7. ASSUME CompleteRequest(sender, q)
        PROVE  RolesKept /\ PoolKept /\ ReqKept /\ WalletKept
    <3>1. req[q].escrowAmount \in Int /\ req[q].executor \in Address
      BY <2>0 DEF Storage
    <3>2. UNCHANGED rolesVars /\ UNCHANGED taxVars
      BY <2>7 DEF CompleteRequest
    <3>3. WalletKept
      BY <2>7, <3>1, WalletType DEF CompleteRequest
    <3>4. ReqKept
      BY <2>7, CompleteRequestSound, Replaced
    <3> QED
      BY <1>2, <1>3, <3>2, <3>3, <3>4
  <2> QED
    BY <1>8, <2>1, <2>2, <2>3, <2>4, <2>5, <2>6, <2>7 DEF RequestStep
<1>9. CASE UNCHANGED vars
  BY <1>2, <1>3, <1>4, <1>5, <1>9 DEF vars, rolesVars, taxVars
<1> QED
  BY <1>6, <1>7, <1>8, <1>9 DEF Next

\* Whatever is called, in whatever order, every storage stays sound, the types
\* hold and the pool's books match its ether.
THEOREM InvHolds == Spec => []Inv
BY InvInit, InvNext, PTL DEF Spec

-----------------------------------------------------------------------------
(* What Inv is for.                                                        *)

LEMMA InvImplies ==
  ASSUME Inv
  PROVE  EscrowBacked /\ PaidForAcceptedResult /\ RetryStartsClean
BY DEF Inv, TypeOK, Storage, Sound, EscrowSound, AttemptSound, AuditSound, Attempted,
       EscrowBacked, PaidForAcceptedResult, RetryStartsClean, InState

\* The variables keep their types: amounts stay natural numbers in particular,
\* so no subtraction of the contracts underflows.
THEOREM TypesHold == Spec => []TypeOK
<1>1. Inv => TypeOK
  BY DEF Inv
<1> QED
  BY <1>1, InvHolds, PTL

\* The escrow of a request is whole until the request completes, and then gone.
THEOREM EscrowIsBacked == Spec => []EscrowBacked
BY InvHolds, InvImplies, PTL

\* A request pays only for a result that no audit rejected and, if audited, that
\* its audit agrees with.
THEOREM PaymentsAreForAcceptedResults == Spec => []PaidForAcceptedResult
BY InvHolds, InvImplies, PTL

\* A rejected attempt leaves nothing behind for the next one.
THEOREM RetriesStartClean == Spec => []RetryStartsClean
BY InvHolds, InvImplies, PTL

-----------------------------------------------------------------------------
(* The audit's answer is final.                                            *)

\* A storage whose audit has been answered keeps the answer and its author.
Keeps(s, t) ==
    s.auditRequired /\ s.state # "AuditRequested" =>
        /\ t.auditRequired /\ t.state # "AuditRequested"
        /\ t.auditor = s.auditor
        /\ t.auditorResultHash = s.auditorResultHash

\* No call of a Request disturbs an answered audit: the constructor runs on an
\* empty storage, and an audit is neither opened twice nor answered twice.
LEMMA StepKeeps ==
  ASSUME Inv, NEW sender \in Account, NEW q \in Req, RequestStep(sender, q)
  PROVE  \A x \in Req : Keeps(req[x], req'[x])
<1>0. req \in [Req -> Storage] /\ req[q] \in Storage /\ Sound(req[q])
  BY InvAt DEF Inv, TypeOK
<1>1. ASSUME NEW v \in Payment, NEW jobCost \in JobCost, Deploy(sender, q, v, jobCost)
      PROVE  \A x \in Req : Keeps(req[x], req'[x])
  <2>1. ~req[q].auditRequired
    BY <1>0, <1>1 DEF Deploy, CanDeploy, InState, Sound, EscrowSound, Empty
  <2>2. \A x \in Req \ {q} : req'[x] = req[x]
    BY <1>0, <1>1 DEF Deploy
  <2> QED
    BY <2>1, <2>2 DEF Keeps
<1>2. ASSUME NEW candidate \in Address, AppointExecutor(sender, q, candidate)
      PROVE  \A x \in Req : Keeps(req[x], req'[x])
  BY <1>0, <1>2 DEF AppointExecutor, CanAppointExecutor, InState, Keeps, Storage
<1>3. ASSUME NEW hash \in Submission, AssignResult(sender, q, hash)
      PROVE  \A x \in Req : Keeps(req[x], req'[x])
  <2>1. req[q].state = "ExecutorAssigned" /\ req' = [req EXCEPT ![q] = req'[q]]
    BY <1>0, <1>3 DEF AssignResult, CanAssignResult, InState
  <2>2. \A x \in Req \ {q} : req'[x] = req[x]
    BY <1>0, <2>1
  <2>3. CASE req[q].auditorResultHash = NoHash
    <3>1. req' = [req EXCEPT ![q].resultHash = hash, ![q].state = "ResultSubmitted"]
      BY <1>3, <2>3 DEF AssignResult
    <3> QED
      BY <1>0, <2>2, <3>1 DEF Keeps, Storage
  <2>4. CASE req[q].auditorResultHash # NoHash /\ req[q].auditorResultHash = hash
    <3>1. req' = [req EXCEPT ![q].resultHash = hash,
                             ![q].faultyResult = FALSE,
                             ![q].state = "Audited"]
      BY <1>3, <2>4 DEF AssignResult
    <3> QED
      BY <1>0, <2>2, <3>1 DEF Keeps, Storage
  <2>5. CASE req[q].auditorResultHash # NoHash /\ req[q].auditorResultHash # hash
    <3>1. req'[q] = Rejected(q)
      BY <1>0, <1>3, <2>5 DEF AssignResult
    <3>2. Rejected(q).auditRequired = req[q].auditRequired
          /\ Rejected(q).state = "Created"
          /\ Rejected(q).auditor = req[q].auditor
          /\ Rejected(q).auditorResultHash = req[q].auditorResultHash
      BY <1>0 DEF Rejected, Storage
    <3>3. Keeps(req[q], req'[q])
      BY <3>1, <3>2 DEF Keeps
    <3>4. ASSUME NEW x \in Req \ {q} PROVE Keeps(req[x], req'[x])
      BY <2>2 DEF Keeps
    <3> QED
      BY <3>3, <3>4
  <2> QED
    BY <2>3, <2>4, <2>5
<1>4. ASSUME RequestAudit(sender, q)
      PROVE  \A x \in Req : Keeps(req[x], req'[x])
  BY <1>0, <1>4 DEF RequestAudit, CanRequestAudit, InState, Keeps, Storage
<1>5. ASSUME NEW candidate \in Address, AppointAuditor(sender, q, candidate)
      PROVE  \A x \in Req : Keeps(req[x], req'[x])
  BY <1>0, <1>5 DEF AppointAuditor, CanAppointAuditor, InState, Keeps, Storage
<1>6. ASSUME NEW hash \in Submission, AssignAuditResult(sender, q, hash)
      PROVE  \A x \in Req : Keeps(req[x], req'[x])
  <2>1. req[q].state = "AuditRequested"
    BY <1>6 DEF AssignAuditResult, CanAssignAuditResult, InState
  <2>2. \A x \in Req \ {q} : req'[x] = req[x]
    BY <1>0, <1>6 DEF AssignAuditResult
  <2> QED
    BY <2>1, <2>2 DEF Keeps
<1>7. ASSUME CompleteRequest(sender, q)
      PROVE  \A x \in Req : Keeps(req[x], req'[x])
  BY <1>0, <1>7 DEF CompleteRequest, CanCompleteRequest, InState, Keeps, Storage
<1> QED
  BY <1>1, <1>2, <1>3, <1>4, <1>5, <1>6, <1>7 DEF RequestStep

\* Once an auditor has answered, nobody can replace the answer, replace the auditor
\* or open the audit again.
THEOREM AuditsAreFinal == Spec => AuditIsFinal
<1> DEFINE Final == \A q \in Req : AuditAnswered(q) =>
                      /\ AuditAnswered(q)'
                      /\ req'[q].auditor = req[q].auditor
                      /\ req'[q].auditorResultHash = req[q].auditorResultHash
<1>1. Inv /\ [Next]_vars => [Final]_vars
  <2> SUFFICES ASSUME Inv, [Next]_vars PROVE [Final]_vars
    OBVIOUS
  <2>1. UNCHANGED req => Final
    BY DEF AuditAnswered, InState
  <2>2. ASSUME NEW sender \in Account, NEW q \in Req, RequestStep(sender, q)
        PROVE  Final
    BY <2>2, StepKeeps DEF Keeps, AuditAnswered, InState
  <2>3. RolesStep \/ TaxStep \/ UNCHANGED vars => UNCHANGED req
    BY DEF RolesStep, TaxStep, vars
  <2> QED
    BY <2>1, <2>2, <2>3 DEF Next
<1>2. Spec => [][Final]_vars
  BY <1>1, InvHolds, PTL DEF Spec
<1> QED
  BY <1>2 DEF AuditIsFinal

-----------------------------------------------------------------------------
(* A retried result is judged at once, if no hash is zero.                 *)

\* An answered audit has an answer, and so a result that waits has no audit.
Judged(s) ==
    /\ s.auditRequired /\ s.state # "AuditRequested" => s.auditorResultHash # NoHash
    /\ s.state = "ResultSubmitted" => ~s.auditRequired

\* A call that replaces one judged storage by another leaves all of them judged.
LEMMA JudgedReplaced ==
  ASSUME Inv, NEW q \in Req, NEW s, Judged(s), req' = [req EXCEPT ![q] = s],
         \A x \in Req : Judged(req[x])
  PROVE  \A x \in Req : Judged(req'[x])
BY DEF Inv, TypeOK

\* Every call keeps the storages judged: assignResult because the answer on record
\* is not the zero hash, assignAuditResult because its hash is not.
LEMMA StepJudges ==
  ASSUME NoHash \notin Submission, Inv, \A x \in Req : Judged(req[x]),
         NEW sender \in Account, NEW q \in Req, RequestStep(sender, q)
  PROVE  \A x \in Req : Judged(req'[x])
<1>0. req[q] \in Storage /\ Sound(req[q]) /\ Judged(req[q])
  BY InvAt
<1>1. ASSUME NEW v \in Payment, NEW jobCost \in JobCost, Deploy(sender, q, v, jobCost)
      PROVE  \E s : Judged(s) /\ req' = [req EXCEPT ![q] = s]
  <2> DEFINE new == [Empty EXCEPT !.state = "Created", !.owner = sender,
                                  !.escrowAmount = Pay!EscrowOf(v), !.cost = jobCost,
                                  !.balance = v - Pay!AuditTaxOf(v)]
  <2>1. req' = [req EXCEPT ![q] = new]
    BY <1>1 DEF Deploy
  <2>2. Judged(new)
    BY DEF Judged, Empty
  <2> QED
    BY <2>1, <2>2
<1>2. ASSUME NEW candidate \in Address, AppointExecutor(sender, q, candidate)
      PROVE  \E s : Judged(s) /\ req' = [req EXCEPT ![q] = s]
  <2> DEFINE new == [req[q] EXCEPT !.executor = candidate, !.state = "ExecutorAssigned"]
  <2>1. req' = [req EXCEPT ![q] = new] /\ req[q].state = "Created"
    BY <1>2 DEF AppointExecutor, CanAppointExecutor, InState
  <2>2. Judged(new)
    BY <1>0, <2>1 DEF Judged, Storage
  <2> QED
    BY <2>1, <2>2
<1>3. ASSUME NEW hash \in Submission, AssignResult(sender, q, hash)
      PROVE  \E s : Judged(s) /\ req' = [req EXCEPT ![q] = s]
  <2> DEFINE waits == [req[q] EXCEPT !.resultHash = hash, !.state = "ResultSubmitted"]
             right == [req[q] EXCEPT !.resultHash = hash, !.faultyResult = FALSE,
                                     !.state = "Audited"]
  <2>1. req[q].state = "ExecutorAssigned"
    BY <1>3 DEF AssignResult, CanAssignResult, InState
  <2>2. \/ req[q].auditorResultHash = NoHash /\ req' = [req EXCEPT ![q] = waits]
        \/ req' = [req EXCEPT ![q] = right]
        \/ req' = [req EXCEPT ![q] = Rejected(q)]
    BY <1>3 DEF AssignResult
  <2>3. req[q].auditorResultHash = NoHash => Judged(waits)
    BY <1>0, <2>1 DEF Judged, Storage
  <2>4. Judged(right)
    BY <1>0, <2>1 DEF Judged, Storage
  <2>5. Judged(Rejected(q))
    BY <1>0, <2>1 DEF Judged, Storage, Rejected
  <2> HIDE DEF waits, right
  <2> QED
    BY <2>2, <2>3, <2>4, <2>5
<1>4. ASSUME RequestAudit(sender, q)
      PROVE  \E s : Judged(s) /\ req' = [req EXCEPT ![q] = s]
  <2> DEFINE new == [req[q] EXCEPT !.auditRequired = TRUE, !.state = "AuditRequested"]
  <2>1. req' = [req EXCEPT ![q] = new]
    BY <1>4 DEF RequestAudit
  <2>2. Judged(new)
    BY <1>0 DEF Judged, Storage
  <2> QED
    BY <2>1, <2>2
<1>5. ASSUME NEW candidate \in Address, AppointAuditor(sender, q, candidate)
      PROVE  \E s : Judged(s) /\ req' = [req EXCEPT ![q] = s]
  <2> DEFINE new == [req[q] EXCEPT !.auditor = candidate]
  <2>1. req' = [req EXCEPT ![q] = new]
    BY <1>5 DEF AppointAuditor
  <2>2. Judged(new)
    BY <1>0 DEF Judged, Storage
  <2> QED
    BY <2>1, <2>2
<1>6. ASSUME NEW hash \in Submission, AssignAuditResult(sender, q, hash)
      PROVE  \E s : Judged(s) /\ req' = [req EXCEPT ![q] = s]
  <2> DEFINE faulty == [Rejected(q) EXCEPT !.auditorResultHash = hash]
             right == [req[q] EXCEPT !.auditorResultHash = hash, !.state = "Audited"]
  <2>1. req' = [req EXCEPT ![q] = faulty] \/ req' = [req EXCEPT ![q] = right]
    BY <1>6 DEF AssignAuditResult
  <2>2. Judged(faulty) /\ Judged(right)
    BY <1>0 DEF Judged, Storage, Rejected
  <2> HIDE DEF faulty, right
  <2> QED
    BY <2>1, <2>2
<1>7. ASSUME CompleteRequest(sender, q)
      PROVE  \E s : Judged(s) /\ req' = [req EXCEPT ![q] = s]
  <2> DEFINE new == [req[q] EXCEPT !.state = "Completed", !.escrowAmount = 0,
                                   !.balance = @ - req[q].escrowAmount]
  <2>1. req' = [req EXCEPT ![q] = new] /\ req[q].state \in {"ResultSubmitted", "Audited"}
    BY <1>7 DEF CompleteRequest, CanCompleteRequest
  <2>2. Judged(new)
    BY <1>0, <2>1 DEF Judged, Storage
  <2> QED
    BY <2>1, <2>2
<1> QED
  BY <1>1, <1>2, <1>3, <1>4, <1>5, <1>6, <1>7, JudgedReplaced DEF RequestStep

\* Without zero hashes no retried result waits for the buyer: the zero hash is the
\* only way into the dead end.
THEOREM RetriesAreEvaluatedAtOnce ==
  ASSUME NoHash \notin Submission
  PROVE  Spec => []RetryEvaluatedAtOnce
<1> DEFINE AllJudged == \A x \in Req : Judged(req[x])
<1>1. Init => AllJudged
  BY DEF Init, Judged, Empty
<1>2. AllJudged /\ Inv /\ [Next]_vars => AllJudged'
  <2> SUFFICES ASSUME AllJudged, Inv, [Next]_vars PROVE AllJudged'
    OBVIOUS
  <2>1. RolesStep \/ TaxStep \/ UNCHANGED vars => UNCHANGED req
    BY DEF RolesStep, TaxStep, vars
  <2>2. ASSUME NEW sender \in Account, NEW q \in Req, RequestStep(sender, q)
        PROVE  AllJudged'
    BY <2>2, StepJudges
  <2> QED
    BY <2>1, <2>2 DEF Next
<1>3. AllJudged => RetryEvaluatedAtOnce
  BY DEF Judged, RetryEvaluatedAtOnce, InState
<1> QED
  BY <1>1, <1>2, <1>3, InvHolds, PTL DEF Spec
-----------------------------------------------------------------------------
(* A payment out of the pool uses up an authorisation.                     *)

\* Whoever calls: the authorisations stay as they are, or one is given or taken; and the
\* pool loses ether only with an authorisation.
LEMMA PoolStep ==
  ASSUME Inv, [Next]_vars
  PROVE  \/ authorizedRequest' = authorizedRequest /\ repoBalance' >= repoBalance
         \/ \E q \in Req : /\ authorizedRequest' = authorizedRequest \cup {q}
                           /\ repoBalance' = repoBalance
         \/ \E q \in Req : /\ authorizedRequest' = authorizedRequest \ {q}
                           /\ q \in authorizedRequest \/ repoBalance' = repoBalance
<1> DEFINE Pool ==
         \/ authorizedRequest' = authorizedRequest /\ repoBalance' >= repoBalance
         \/ \E q \in Req : /\ authorizedRequest' = authorizedRequest \cup {q}
                           /\ repoBalance' = repoBalance
         \/ \E q \in Req : /\ authorizedRequest' = authorizedRequest \ {q}
                           /\ q \in authorizedRequest \/ repoBalance' = repoBalance
<1> SUFFICES Pool
  OBVIOUS
<1>1. repoBalance \in Nat
  BY DEF Inv, TypeOK, Tax!TypeOK
<1>2. ASSUME UNCHANGED taxVars PROVE Pool
  BY <1>1, <1>2 DEF taxVars
<1>3. ASSUME NEW amount \in Nat, Tax!Receive(amount) PROVE Pool
  BY <1>1, <1>3 DEF Tax!Receive
<1>4. CASE TaxStep
  <2>1. ASSUME NEW q \in Req, NEW allowed \in BOOLEAN, Tax!AuthorizeRequest(q, allowed)
        PROVE  Pool
    BY <2>1 DEF Tax!AuthorizeRequest
  <2>2. ASSUME NEW amount \in Donation, Tax!Donate(amount) PROVE Pool
    BY <1>3, <2>2, RequestAssumption DEF Tax!Donate
  <2> QED
    BY <1>4, <2>1, <2>2 DEF TaxStep
<1>5. ASSUME NEW sender \in Account, NEW q \in Req, RequestStep(sender, q) PROVE Pool
  <2>1. ASSUME NEW v \in Payment, NEW jobCost \in JobCost, Deploy(sender, q, v, jobCost)
        PROVE  Pool
    <3>1. v \in Nat
      BY RequestAssumption
    <3> QED
      BY <1>3, <2>1, <3>1, PaymentSplit DEF Deploy
  <2>2. ASSUME NEW hash \in Submission, AssignAuditResult(sender, q, hash) PROVE Pool
    BY <2>2 DEF AssignAuditResult, Tax!Withdraw, Tax!CanWithdraw
  <2>3. ASSUME \/ \E candidate \in Address : AppointExecutor(sender, q, candidate)
               \/ \E hash \in Submission : AssignResult(sender, q, hash)
               \/ RequestAudit(sender, q)
               \/ \E candidate \in Address : AppointAuditor(sender, q, candidate)
               \/ CompleteRequest(sender, q)
        PROVE  UNCHANGED taxVars
    BY <2>3 DEF AppointExecutor, AssignResult, RequestAudit, AppointAuditor, CompleteRequest
  <2> QED
    BY <1>2, <1>5, <2>1, <2>2, <2>3 DEF RequestStep
<1>6. RolesStep \/ UNCHANGED vars => UNCHANGED taxVars
  BY DEF RolesStep, vars, taxVars
<1> QED
  BY <1>2, <1>4, <1>5, <1>6 DEF Next

\* There are finitely many authorisations at a time, and a draw leaves one fewer: no
\* sequence of calls pays an auditor twice for one authorisation.
THEOREM DrawsSpendForAll == Spec => DrawsSpendAuthorisations
<1> DEFINE Few == IsFiniteSet(authorizedRequest)
           Spends == repoBalance' < repoBalance =>
                       Cardinality(authorizedRequest') < Cardinality(authorizedRequest)
<1>1. Init => Few
  BY FS_EmptySet DEF Init, Tax!Init
<1>2. Few /\ Inv /\ [Next]_vars => Few'
  BY PoolStep, FS_AddElement, FS_RemoveElement
<1>3. Few /\ Inv /\ [Next]_vars => [Spends]_taxVars
  <2> SUFFICES ASSUME Few, Inv, [Next]_vars, repoBalance' < repoBalance
               PROVE  Cardinality(authorizedRequest') < Cardinality(authorizedRequest)
    OBVIOUS
  <2>1. repoBalance \in Nat /\ ~(repoBalance' >= repoBalance) /\ repoBalance' # repoBalance
    BY InvNext DEF Inv, TypeOK, Tax!TypeOK
  <2>2. PICK q \in authorizedRequest : authorizedRequest' = authorizedRequest \ {q}
    BY <2>1, PoolStep
  <2>3. Cardinality(authorizedRequest) \in Nat
    BY FS_CardinalityType
  <2>4. Cardinality(authorizedRequest') = Cardinality(authorizedRequest) - 1
    BY <2>2, FS_RemoveElement
  <2> QED
    BY <2>3, <2>4
<1>4. Spec => [][Spends]_taxVars
  BY <1>1, <1>2, <1>3, InvHolds, PTL DEF Spec
<1> QED
  BY <1>4 DEF DrawsSpendAuthorisations
=============================================================================
