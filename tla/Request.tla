------------------------------ MODULE Request ------------------------------
(***************************************************************************)
(* The contracts of the market on one chain: any number of Request         *)
(* contracts, the Roles contract they ask for permissions and the          *)
(* AuditTaxRepository they pay tax to and pay auditors from.               *)
(*                                                                         *)
(* A transaction is atomic, so each action is one whole call with every    *)
(* nested call it makes: CanX is the conjunction of what the call requires *)
(* (modifiers, requires, nested requires) and X is the call that does not  *)
(* revert.  The accounts are externally owned: ether sent to one always    *)
(* arrives and runs no code.                                               *)
(***************************************************************************)
EXTENDS Integers, FiniteSets

CONSTANTS
    Account, NoOne, Deployer, RoleChange,   \* see Roles
    InitialTax, Donation, MaxPool,          \* see AuditTaxRepository
    Req,        \* the addresses of the Request contracts
    Hash,       \* the hashes a result can have
    NoHash,     \* bytes32(0)
    Submission, \* the hashes executors and auditors submit
    Payment,    \* the payments (msg.value) buyers deploy a request with
    JobCost     \* the job costs they state

VARIABLES
    roles, rolesOwner,                              \* Roles
    totalCollected, repoBalance, authorizedRequest, \* AuditTaxRepository
    req,        \* Request contract -> its storage and its ether
    wallet      \* address -> what it received less what it paid, in wei

vars == <<roles, rolesOwner, totalCollected, repoBalance, authorizedRequest, req, wallet>>

R == INSTANCE Roles
Tax == INSTANCE AuditTaxRepository WITH Client <- Req
Pay == INSTANCE Payment

ASSUME RequestAssumption ==
    /\ NoOne \notin Account
    /\ Deployer \in Account
    /\ RoleChange \subseteq [role : R!Role, account : R!Address]
    /\ InitialTax \in Nat
    /\ Donation \subseteq Nat
    /\ Payment \subseteq Nat
    /\ NoHash \notin Hash
    /\ Submission \subseteq Hash \cup {NoHash}

rolesVars == <<roles, rolesOwner>>
taxVars == <<totalCollected, repoBalance, authorizedRequest>>

Address == Account \cup {NoOne}
AnyHash == Hash \cup {NoHash}

State == {"Created", "ExecutorAssigned", "ResultSubmitted",
          "AuditRequested", "Audited", "Completed"}

\* A Request's storage; "None" is the state of an address with no contract yet.
Storage ==
    [state : State \cup {"None"},
     owner : Address, executor : Address, auditor : Address,
     resultHash : AnyHash, auditorResultHash : AnyHash,
     faultyResult : BOOLEAN, auditRequired : BOOLEAN,
     escrowAmount : Nat, cost : Nat,
     balance : Nat]

TypeOK ==
    /\ R!TypeOK
    /\ Tax!TypeOK
    /\ req \in [Req -> Storage]
    /\ wallet \in [Address -> Int]

\* Storage before the constructor runs: every field zero.
Empty ==
    [state |-> "None", owner |-> NoOne, executor |-> NoOne, auditor |-> NoOne,
     resultHash |-> NoHash, auditorResultHash |-> NoHash,
     faultyResult |-> FALSE, auditRequired |-> FALSE,
     escrowAmount |-> 0, cost |-> 0, balance |-> 0]

Init ==
    /\ R!Init
    /\ Tax!Init
    /\ req = [q \in Req |-> Empty]
    /\ wallet = [a \in Address |-> 0]

InState(q, state) == req[q].state = state

-----------------------------------------------------------------------------
(* The constructor.                                                        *)

\* Mutant: the stated cost need not be the escrow.
CanDeployMutant(sender, q, value, jobCost) ==
    /\ InState(q, "None")
    /\ R!HasRole("BUYER", sender)
    /\ value > 0

CanDeploy(sender, q, value, jobCost) ==
    /\ InState(q, "None")
    /\ R!HasRole("BUYER", sender)
    /\ value > 0
    /\ jobCost = Pay!EscrowOf(value)

Deploy(sender, q, value, jobCost) ==
    /\ CanDeploy(sender, q, value, jobCost)
    /\ req' = [req EXCEPT ![q] =
                 [Empty EXCEPT !.state = "Created",
                               !.owner = sender,
                               !.escrowAmount = Pay!EscrowOf(value),
                               !.cost = jobCost,
                               !.balance = value - Pay!AuditTaxOf(value)]]
    /\ wallet' = [wallet EXCEPT ![sender] = @ - value]
    /\ Tax!Receive(Pay!AuditTaxOf(value))
    /\ UNCHANGED rolesVars

-----------------------------------------------------------------------------
(* The calls of admins.                                                    *)

CanAppointExecutor(sender, q, candidate) ==
    /\ R!IsAdmin(sender)
    /\ InState(q, "Created")
    /\ R!HasRole("SELLER", candidate)

\* Nothing keeps the auditor of a failed attempt from executing the next one.
AppointExecutor(sender, q, candidate) ==
    /\ CanAppointExecutor(sender, q, candidate)
    /\ req' = [req EXCEPT ![q].executor = candidate,
                          ![q].state = "ExecutorAssigned"]
    /\ UNCHANGED <<wallet, rolesVars, taxVars>>

CanRequestAudit(sender, q) ==
    /\ R!IsAdmin(sender)
    /\ InState(q, "ResultSubmitted")
    /\ ~req[q].auditRequired

RequestAudit(sender, q) ==
    /\ CanRequestAudit(sender, q)
    /\ req' = [req EXCEPT ![q].auditRequired = TRUE,
                          ![q].state = "AuditRequested"]
    /\ UNCHANGED <<wallet, rolesVars, taxVars>>

\* Mutant: an auditor can be appointed at any time.
CanAppointAuditorMutant(sender, q, candidate) ==
    /\ R!IsAdmin(sender)
    /\ candidate # req[q].executor
    /\ R!HasRole("SELLER", candidate)

CanAppointAuditor(sender, q, candidate) ==
    /\ R!IsAdmin(sender)
    /\ InState(q, "AuditRequested")
    /\ candidate # req[q].executor
    /\ R!HasRole("SELLER", candidate)

\* The state does not change, so an auditor can be replaced until it answers.
AppointAuditor(sender, q, candidate) ==
    /\ CanAppointAuditor(sender, q, candidate)
    /\ req' = [req EXCEPT ![q].auditor = candidate]
    /\ UNCHANGED <<wallet, rolesVars, taxVars>>

\* Mutant: the audit is not asked about.
CanCompleteRequestMutant(sender, q) ==
    /\ R!IsAdmin(sender)
    /\ req[q].state \in {"ResultSubmitted", "Audited"}
    /\ req[q].resultHash # NoHash
    /\ req[q].escrowAmount <= req[q].balance

CanCompleteRequest(sender, q) ==
    /\ R!IsAdmin(sender)
    /\ req[q].state \in {"ResultSubmitted", "Audited"}
    /\ req[q].auditRequired => /\ InState(q, "Audited")
                               /\ req[q].auditorResultHash = req[q].resultHash
    /\ req[q].resultHash # NoHash
    /\ req[q].escrowAmount <= req[q].balance

\* Mutant: the escrow is paid but not emptied.
CompleteRequestMutant(sender, q) ==
    /\ CanCompleteRequest(sender, q)
    /\ req' = [req EXCEPT ![q].state = "Completed",
                          ![q].balance = @ - req[q].escrowAmount]
    /\ wallet' = [wallet EXCEPT ![req[q].executor] = @ + req[q].escrowAmount]
    /\ UNCHANGED <<rolesVars, taxVars>>

\* _payoutExecutor empties the escrow and sends it to the executor.
CompleteRequest(sender, q) ==
    /\ CanCompleteRequest(sender, q)
    /\ req' = [req EXCEPT ![q].state = "Completed",
                          ![q].escrowAmount = 0,
                          ![q].balance = @ - req[q].escrowAmount]
    /\ wallet' = [wallet EXCEPT ![req[q].executor] = @ + req[q].escrowAmount]
    /\ UNCHANGED <<rolesVars, taxVars>>

-----------------------------------------------------------------------------
(* The calls of executors and auditors.                                    *)

CanAssignResult(sender, q) ==
    /\ sender = req[q].executor
    /\ InState(q, "ExecutorAssigned")

\* Mutants: the rejected result is kept; the audit is forgotten with the result.
RejectedMutantKeep(q) ==
    [req[q] EXCEPT !.faultyResult = TRUE, !.executor = NoOne, !.state = "Created"]

RejectedMutantForget(q) ==
    [req[q] EXCEPT !.faultyResult = TRUE, !.executor = NoOne, !.resultHash = NoHash,
                   !.auditRequired = FALSE, !.state = "Created"]

\* The attempt of q is found faulty: its executor and its result are dropped
\* and the request waits for another executor.
Rejected(q) ==
    [req[q] EXCEPT !.faultyResult = TRUE,
                   !.executor = NoOne,
                   !.resultHash = NoHash,
                   !.state = "Created"]

\* Mutants: every result awaits the buyer; a confirmed retry stays marked faulty.
AssignResultMutantWait(sender, q, hash) ==
    /\ CanAssignResult(sender, q)
    /\ req' = [req EXCEPT ![q].resultHash = hash, ![q].state = "ResultSubmitted"]
    /\ UNCHANGED <<wallet, rolesVars, taxVars>>

AssignResultMutantFaulty(sender, q, hash) ==
    /\ CanAssignResult(sender, q)
    /\ req' = IF req[q].auditorResultHash \in {NoHash, hash}
              THEN [req EXCEPT ![q].resultHash = hash,
                               ![q].state = IF req[q].auditorResultHash = NoHash
                                            THEN "ResultSubmitted" ELSE "Audited"]
              ELSE [req EXCEPT ![q] = Rejected(q)]
    /\ UNCHANGED <<wallet, rolesVars, taxVars>>

\* The executor's result.  Once an auditor has answered (its hash is not zero)
\* the result is judged by that answer at once; otherwise it awaits the buyer.
AssignResult(sender, q, hash) ==
    /\ CanAssignResult(sender, q)
    /\ \/ /\ req[q].auditorResultHash = NoHash
          /\ req' = [req EXCEPT ![q].resultHash = hash,
                                ![q].state = "ResultSubmitted"]
       \/ /\ req[q].auditorResultHash # NoHash
          /\ req[q].auditorResultHash = hash
          /\ req' = [req EXCEPT ![q].resultHash = hash,
                                ![q].faultyResult = FALSE,
                                ![q].state = "Audited"]
       \/ /\ req[q].auditorResultHash # NoHash
          /\ req[q].auditorResultHash # hash
          /\ req' = [req EXCEPT ![q] = Rejected(q)]
    /\ UNCHANGED <<wallet, rolesVars, taxVars>>

CanAssignAuditResult(sender, q) ==
    /\ sender = req[q].auditor
    /\ InState(q, "AuditRequested")
    /\ Tax!CanWithdraw(q, req[q].cost)

\* The auditor's answer.  The auditor is paid the job's cost by the pool, before
\* and whatever the verdict; a faulty result is dropped, a confirmed one stays.
AssignAuditResult(sender, q, hash) ==
    /\ CanAssignAuditResult(sender, q)
    /\ Tax!Withdraw(q, req[q].cost)
    /\ wallet' = [wallet EXCEPT ![req[q].auditor] = @ + req[q].cost]
    /\ \/ /\ req[q].resultHash # hash
          /\ req' = [req EXCEPT ![q] = [Rejected(q) EXCEPT !.auditorResultHash = hash]]
       \/ /\ req[q].resultHash = hash
          /\ req' = [req EXCEPT ![q].auditorResultHash = hash,
                                ![q].state = "Audited"]
    /\ UNCHANGED rolesVars

-----------------------------------------------------------------------------

RolesStep == R!Next /\ UNCHANGED <<wallet, req, taxVars>>

TaxStep ==
    \/ \E q \in Req, allowed \in BOOLEAN :
          /\ Tax!AuthorizeRequest(q, allowed)
          /\ UNCHANGED <<wallet, req, rolesVars>>
    \/ \E a \in Account, amount \in Donation :
          /\ Tax!Donate(amount)
          /\ wallet' = [wallet EXCEPT ![a] = @ - amount]
          /\ UNCHANGED <<req, rolesVars>>

RequestStep(sender, q) ==
    \/ \E value \in Payment, jobCost \in JobCost : Deploy(sender, q, value, jobCost)
    \/ \E candidate \in Address : AppointExecutor(sender, q, candidate)
    \/ \E hash \in Submission : AssignResult(sender, q, hash)
    \/ RequestAudit(sender, q)
    \/ \E candidate \in Address : AppointAuditor(sender, q, candidate)
    \/ \E hash \in Submission : AssignAuditResult(sender, q, hash)
    \/ CompleteRequest(sender, q)

Next ==
    \/ RolesStep
    \/ TaxStep
    \/ \E sender \in Account, q \in Req : RequestStep(sender, q)

Spec == Init /\ [][Next]_vars

-----------------------------------------------------------------------------
(* What the contracts guarantee.                                           *)

\* The audit of q was asked for and the auditor has answered (and been paid).
AuditAnswered(q) == req[q].auditRequired /\ ~InState(q, "AuditRequested")

\* Until completion the contract holds the whole cost for its executor, after it
\* nothing but the rounding wei: no path through rejections and retries, and no
\* auditor's fee, touches the escrow (Request.sol:61-69, 220-232).
EscrowBacked ==
    \A q \in Req : req[q].state # "None" =>
        /\ req[q].escrowAmount = IF InState(q, "Completed") THEN 0 ELSE req[q].cost
        /\ req[q].balance - req[q].escrowAmount \in {0, 1}

\* A request that has paid was paid for a result someone submitted, that no audit
\* holds to be faulty and that the audit, if there was one, agrees with: whatever
\* happened in earlier attempts (completeRequest, Request.sol:197-218).
PaidForAcceptedResult ==
    \A q \in Req : InState(q, "Completed") =>
        /\ req[q].executor \in Account
        /\ req[q].resultHash # NoHash
        /\ ~req[q].faultyResult
        /\ req[q].auditRequired => /\ req[q].auditor \in Account
                                   /\ req[q].auditorResultHash = req[q].resultHash

\* A request open to a new executor carries nothing of a rejected attempt, so the
\* next one is neither paid for nor judged by its predecessor's result; both ways
\* of being rejected clear it (Request.sol:165-169 and 184-191).
RetryStartsClean ==
    \A q \in Req : req[q].state \in {"Created", "ExecutorAssigned"} =>
        /\ req[q].resultHash = NoHash
        /\ InState(q, "Created") => req[q].executor = NoOne

\* "If auditor already posted result, evaluate immediately" (Request.sol:158): a
\* result handed in after an audit never waits for the buyer.  There it could be
\* neither completed (the audit is still required, line 210) nor audited again
\* (line 129), and the escrow would be locked for good.
RetryEvaluatedAtOnce ==
    \A q \in Req : InState(q, "ResultSubmitted") => ~req[q].auditRequired

\* The auditor's answer is the ground truth for the rest of the request's life:
\* no later call replaces the answer or whoever gave it, or reopens the audit.
AuditIsFinal ==
    [][\A q \in Req : AuditAnswered(q) =>
          /\ AuditAnswered(q)'
          /\ req'[q].auditor = req[q].auditor
          /\ req'[q].auditorResultHash = req[q].auditorResultHash]_vars

\* Every payment out of the pool uses up one authorisation: between two calls of
\* the owner, k authorised requests draw money at most k times, however often they
\* are audited and however much is left (AuditTaxRepository.sol:29 and 36).
DrawsSpendAuthorisations ==
    [][repoBalance' < repoBalance =>
          Cardinality(authorizedRequest') < Cardinality(authorizedRequest)]_taxVars

\* The inductive invariant behind the properties above, one storage at a time.
Attempted == {"ResultSubmitted", "AuditRequested", "Audited", "Completed"}

EscrowSound(s) ==
    IF s.state = "None"
    THEN s = Empty
    ELSE /\ s.escrowAmount = IF s.state = "Completed" THEN 0 ELSE s.cost
         /\ s.balance - s.escrowAmount \in {0, 1}

AttemptSound(s) ==
    /\ s.state \in Attempted => s.executor \in Account
    /\ s.state = "Created" => s.executor = NoOne
    /\ s.state \in {"Created", "ExecutorAssigned"} => s.resultHash = NoHash
    /\ s.state = "Completed" => s.resultHash # NoHash /\ ~s.faultyResult

AuditSound(s) ==
    /\ ~s.auditRequired =>
          /\ s.auditorResultHash = NoHash
          /\ ~s.faultyResult
          /\ s.state \notin {"AuditRequested", "Audited"}
    /\ s.state = "AuditRequested" => s.auditorResultHash = NoHash
    /\ s.state \in {"AuditRequested", "Audited"} => ~s.faultyResult
    /\ s.state = "Audited" => s.resultHash = s.auditorResultHash
    /\ s.auditRequired /\ s.state = "Completed" => s.resultHash = s.auditorResultHash
    /\ s.auditRequired /\ s.state # "AuditRequested" => s.auditor \in Account

Sound(s) == EscrowSound(s) /\ AttemptSound(s) /\ AuditSound(s)

\* Together with the types and the pool's books, this is kept by every call.
Inv == /\ TypeOK
       /\ Tax!BooksMatchBalance
       /\ \A q \in Req : Sound(req[q])

\* The payments as the abstract specification sees them: the price in escrow, at
\* most one fee to an auditor, at most one payment to an executor.
PhaseOf(q) == CASE InState(q, "None")      -> "unfunded"
                [] InState(q, "Completed") -> "paid"
                [] OTHER                   -> "held"

AuditOf(q) == CASE AuditAnswered(q)             -> "answered"
                [] InState(q, "AuditRequested") -> "open"
                [] OTHER                        -> "none"

Job == [q \in Req |-> [phase |-> PhaseOf(q), audit |-> AuditOf(q), price |-> req[q].cost]]

E == INSTANCE Escrow WITH job <- Job, pool <- totalCollected

ImplementsEscrow == E!Spec
=============================================================================
