------------------------------- MODULE Server -------------------------------
(***************************************************************************)
(* The REST server (server.ts, blockchain-service.ts) in front of the      *)
(* contracts: the tasks it keeps in memory and the handlers of its         *)
(* endpoints, which hold every account's key.                              *)
(*                                                                         *)
(* JavaScript runs a handler without interruption up to an await.  So a    *)
(* handler is a process whose pc names the await it is in:                 *)
(*   - a start action is the code before the first await (an early return  *)
(*     changes nothing, and is no action);                                 *)
(*   - a call action is a transaction being mined, or failing;             *)
(*   - a resume action is the code between two awaits.                     *)
(* Between any two of them other handlers run, and so does the chain.      *)
(***************************************************************************)
EXTENDS Integers, FiniteSets

CONSTANTS
    Account, NoOne, Deployer, Req, NoHash, InitialTax,  \* see Request
    SellerIndex,  \* the accounts grant-seller-roles.ts makes sellers
    Buyer,        \* the accounts an admin made buyers, besides its own
    Handler,      \* the HTTP requests in progress at one time (a bound)
    Text,         \* what a computation can print
    Blank,        \* the empty string, which JavaScript takes for no value
    TrimOf,       \* String.trim on Text
    Rest,         \* what else a body may report: stderr and exit code
    Absent,       \* undefined
    Sent,         \* the bodies that executors and auditors send
    Price,        \* the prices buyers name, in wei
    Faulty,       \* whether a call can fail, or its receipt be lost
    Crashing      \* whether the server can be restarted

VARIABLES
    roles, rolesOwner, totalCollected, repoBalance, authorizedRequest, req, wallet,
    reputation, authorizedBuyer,
    tasks,      \* the tasks Map: contract address -> task
    handler     \* the state of each HTTP request in progress

contractVars == <<roles, rolesOwner, totalCollected, repoBalance, authorizedRequest, req, wallet>>
scoreVars == <<reputation, authorizedBuyer>>
chainVars == <<contractVars, scoreVars>>
vars == <<chainVars, tasks, handler>>

\* crypto.createHash('sha256'): no two texts share a hash, and none hashes to zero.
HashOf(text) == <<"sha256", text>>

Pay == INSTANCE Payment

C == INSTANCE Request
       WITH Hash <- {HashOf(t) : t \in Text}, Submission <- {HashOf(t) : t \in Text},
            RoleChange <- {}, Donation <- {}, MaxPool <- 0,
            Payment <- {Pay!TotalPayment(p) : p \in Price},
            JobCost <- {Pay!ActualEscrow(p) : p \in Price}

Score == INSTANCE Reputation
           WITH RoleChange <- {}, ScoreMax <- 1000, Delta <- {}, Score <- {}

ASSUME ServerAssumption ==
    /\ NoOne \notin Account /\ Deployer \in Account
    /\ InitialTax \in Nat /\ Price \subseteq Nat
    /\ \A text \in Text : HashOf(text) # NoHash
    /\ SellerIndex \subseteq Account /\ Buyer \subseteq Account
    /\ Blank \in Text /\ Absent \notin Text \cup Rest
    /\ TrimOf \in [Text -> Text]
    /\ Faulty \in BOOLEAN /\ Crashing \in BOOLEAN

\* A body of /complete or /submit-audit-result: one string, or the program's output in
\* parts, or both.  (zipData is stored and never read; an empty stderr is left out.)
Body == [result : Text \cup {Absent}, stdout : Text \cup {Absent}, rest : Rest \cup {Absent}]
NoBody == [result |-> Absent, stdout |-> Absent, rest |-> Absent]

ASSUME SentAssumption == Sent \subseteq Body

Legacy(body) == body.result # Absent
Structured(body) == body.stdout # Absent \/ body.rest # Absent
Given(text) == text \notin {Absent, Blank}

\* "Missing required fields": a body must have the one or the other.
Acceptable(body) == Legacy(body) \/ Structured(body)

\* Mutant: the string is preferred to its parts.
HashedMutant(body) == IF Given(body.result) THEN body.result
                      ELSE IF Given(body.stdout) THEN body.stdout ELSE Blank

\* resultForHash: what of a body the contract gets the hash of.
Hashed(body) == IF Given(body.stdout) THEN body.stdout
                ELSE IF Given(body.result) THEN body.result ELSE Blank

\* The string that is stored for a body: its own, or its parts with labels around them.
\* (A string that imitates the labels is left out.)
String == [labelled : BOOLEAN, out : Text \cup {Absent}, rest : Rest \cup {Absent}]

Stored(body) ==
    IF Legacy(body) THEN [labelled |-> FALSE, out |-> body.result, rest |-> Absent]
    ELSE IF Given(body.stdout) \/ body.rest # Absent
    THEN [labelled |-> TRUE, out |-> IF Given(body.stdout) THEN body.stdout ELSE Absent,
          rest |-> body.rest]
    ELSE [labelled |-> FALSE, out |-> Blank, rest |-> Absent]

Status == {"waiting", "completed", "audit_requested",
           "audit_passed", "audit_failed", "finalized"}

\* The fields of a task that code depends on.  executor and executorAccountIndex
\* are always written together and are one field here; so are the auditor's.
Task == [status : Status, owner : Account,
         executor : Account \cup {NoOne}, auditor : Account \cup {NoOne},
         result : String \cup {Absent}, stdout : Text \cup {Absent},
         auditorResult : String \cup {Absent}]

NoTask == [status |-> "none"]

\* What a handler remembers across an await: the task it was called for, the
\* account it acts for and the body it was sent; who it is about to rate, and
\* whether the audit passed.
Local == [q : Req, acct : Account \cup {NoOne}, body : Body,
          who : Account \cup {NoOne}, passed : BOOLEAN]

Pc == {"deploy", "deployed", "appoint", "appointed", "claim", "assignResult",
       "resultAssigned", "completeRequest", "requestCompleted", "award", "awarded",
       "requestAudit", "auditRequested", "storeAudit", "appointAuditor",
       "assignAuditResult", "auditAssigned", "rateExecutor", "rateAuditor"}

Idle == [pc |-> "idle"]

TypeOK ==
    /\ C!TypeOK
    /\ reputation \in [Account \cup {NoOne} -> Int]
    /\ tasks \in [Req -> Task \cup {NoTask}]
    /\ \A h \in Handler : \/ handler[h] = Idle
                          \/ handler[h] \in [pc : Pc, local : Local]

\* After deploy-core-contracts.ts and grant-seller-roles.ts.
Init ==
    /\ roles = [r \in C!R!Role |-> IF r = "SELLER" THEN SellerIndex
                                   ELSE IF r = "BUYER" THEN {Deployer} \cup Buyer
                                   ELSE IF r = "BANNED" THEN {} ELSE {Deployer}]
    /\ rolesOwner = Deployer
    /\ C!Tax!Init
    /\ req = [q \in Req |-> C!Empty]
    /\ wallet = [a \in Account \cup {NoOne} |-> 0]
    /\ Score!ScoreInit
    /\ tasks = [q \in Req |-> NoTask]
    /\ handler = [h \in Handler |-> Idle]

-----------------------------------------------------------------------------
(* Moving a handler along.                                                 *)

At(h, pc) == handler[h].pc = pc
Mine(h) == handler[h].local
TaskOf(h) == tasks[Mine(h).q]

Goto(h, pc, local) == handler' = [handler EXCEPT ![h] = [pc |-> pc, local |-> local]]
Continue(h, pc) == Goto(h, pc, Mine(h))
Respond(h) == handler' = [handler EXCEPT ![h] = Idle]

Update(q, task) == tasks' = [tasks EXCEPT ![q] = task]

\* Mutant: a call that reverts is taken for done.
CallMutant(h, can, transaction, next) ==
    \/ transaction /\ Continue(h, next)
    \/ ~can /\ Continue(h, next) /\ UNCHANGED chainVars

\* callRequestContractMethod and updateReputation: send a transaction and wait
\* for its receipt.  It takes effect and the handler goes on; or it reverts and
\* the handler's catch answers 500.  Where calls may fail it may also never be
\* mined, or be mined without the handler learning of it: both answer 500 too.
Call(h, can, transaction, next) ==
    \/ transaction /\ Continue(h, next)
    \/ ~can /\ Respond(h) /\ UNCHANGED chainVars
    \/ Faulty /\ transaction /\ Respond(h)
    \/ Faulty /\ Respond(h) /\ UNCHANGED chainVars

\* The same for the last call of a handler, after which it answers either way.
LastCall(h, can, transaction) ==
    /\ \/ transaction
       \/ (Faulty \/ ~can) /\ UNCHANGED chainVars
    /\ Respond(h)

\* updateReputation calls award or penalize by the sign of the change.
Rate(sender, who, delta) ==
    /\ IF delta >= 0 THEN Score!Award(sender, who, delta)
                     ELSE Score!Penalize(sender, who, -delta)
    /\ UNCHANGED contractVars

CanRate(sender) == Score!MayRate(sender)

Start(h, q, pc, acct, body) ==
    /\ At(h, "idle")
    /\ Goto(h, pc, [q |-> q, acct |-> acct, body |-> body, who |-> NoOne, passed |-> FALSE])
    /\ UNCHANGED <<chainVars, tasks>>

HasStatus(q, status) == tasks[q].status = status

-----------------------------------------------------------------------------
(* POST /tasks: deploy a Request, remember the task, appoint a seller.      *)

\* Any account may be named; the constructor refuses those that are no buyers.
StartCreate(h, q, acct) ==
    /\ C!InState(q, "None")
    /\ \A other \in Handler : At(other, "deploy") => Mine(other).q # q
    /\ Start(h, q, "deploy", acct, NoBody)

\* deployRequestContract
CallDeploy(h, price) ==
    LET sender == Mine(h).acct
        value == Pay!TotalPayment(price)
        jobCost == Pay!ActualEscrow(price)
    IN  /\ At(h, "deploy")
        /\ Call(h, C!CanDeploy(sender, Mine(h).q, value, jobCost),
                C!Deploy(sender, Mine(h).q, value, jobCost) /\ UNCHANGED scoreVars,
                "deployed")
        /\ UNCHANGED tasks

\* selectExecutorEpsilonGreedy: the accounts it may return.  With epsilon zero it is one
\* of the best, the first in the caller's order; otherwise it can be any.
Selectable(sellers, epsilon) ==
    IF epsilon = "zero"
    THEN {a \in sellers : \A other \in sellers : reputation[other] <= reputation[a]}
    ELSE sellers

\* The task is stored before the seller is selected, with the default epsilon.
ResumeDeployed(h) ==
    /\ At(h, "deployed")
    /\ Update(Mine(h).q, [status |-> "waiting", owner |-> Mine(h).acct,
                          executor |-> NoOne, auditor |-> NoOne,
                          result |-> Absent, stdout |-> Absent, auditorResult |-> Absent])
    /\ \E seller \in Selectable(SellerIndex, "positive") :
          Goto(h, "appoint", [Mine(h) EXCEPT !.acct = seller])
    /\ UNCHANGED chainVars

-----------------------------------------------------------------------------
(* POST /tasks/:address/assign and /auto-assign.                            *)

\* Both check that no executor is stored, and then wait for the account list
\* (and the reputations) before anything is written.
StartAssign(h, q, acct) ==
    /\ HasStatus(q, "waiting")
    /\ tasks[q].executor = NoOne
    /\ Start(h, q, "appoint", acct, NoBody)

\* The candidates and epsilon are the caller's; an empty list is refused.
StartAutoAssign(h, q, sellers, epsilon) ==
    /\ HasStatus(q, "waiting")
    /\ tasks[q].executor = NoOne
    /\ \E seller \in Selectable(sellers, epsilon) : Start(h, q, "appoint", seller, NoBody)

\* Mutant: the appointment is sent from account 0.
CallAppointExecutorMutant(h) ==
    LET q == Mine(h).q
    IN  /\ At(h, "appoint")
        /\ Call(h, C!CanAppointExecutor(Deployer, q, Mine(h).acct),
                C!AppointExecutor(Deployer, q, Mine(h).acct) /\ UNCHANGED scoreVars,
                "appointed")
        /\ UNCHANGED tasks

\* The appointment is sent from the account of the task's owner.
CallAppointExecutor(h) ==
    LET q == Mine(h).q
    IN  /\ At(h, "appoint")
        /\ Call(h, C!CanAppointExecutor(tasks[q].owner, q, Mine(h).acct),
                C!AppointExecutor(tasks[q].owner, q, Mine(h).acct) /\ UNCHANGED scoreVars,
                "appointed")
        /\ UNCHANGED tasks

ResumeAppointed(h) ==
    /\ At(h, "appointed")
    /\ Update(Mine(h).q, [TaskOf(h) EXCEPT !.executor = Mine(h).acct])
    /\ Respond(h)
    /\ UNCHANGED chainVars

-----------------------------------------------------------------------------
(* POST /tasks/:address/complete                                           *)

\* A task without an executor is claimed, but only after the account list has
\* arrived; any other task must be the account's own.
StartComplete(h, q, acct, body) ==
    /\ Acceptable(body)
    /\ HasStatus(q, "waiting")
    /\ \/ tasks[q].executor = NoOne /\ Start(h, q, "claim", acct, body)
       \/ tasks[q].executor = acct /\ Start(h, q, "assignResult", acct, body)

\* The claim is written to memory only: the contract appoints nobody.
ResumeClaim(h) ==
    /\ At(h, "claim")
    /\ Update(Mine(h).q, [TaskOf(h) EXCEPT !.executor = Mine(h).acct])
    /\ Continue(h, "assignResult")
    /\ UNCHANGED chainVars

CallAssignResult(h) ==
    LET q == Mine(h).q
    IN  /\ At(h, "assignResult")
        /\ Call(h, C!CanAssignResult(Mine(h).acct, q),
                C!AssignResult(Mine(h).acct, q, HashOf(Hashed(Mine(h).body))) /\ UNCHANGED scoreVars,
                "resultAssigned")
        /\ UNCHANGED tasks

ResumeResultAssigned(h) ==
    /\ At(h, "resultAssigned")
    /\ Update(Mine(h).q, [TaskOf(h) EXCEPT !.status = "completed",
                                           !.result = Stored(Mine(h).body),
                                           !.stdout = IF Structured(Mine(h).body)
                                                      THEN Mine(h).body.stdout ELSE @])
    /\ Respond(h)
    /\ UNCHANGED chainVars

-----------------------------------------------------------------------------
(* POST /tasks/:address/finalize                                           *)

\* Mutant: only an audited task is finalized.
StartFinalizeMutant(h, q) ==
    /\ HasStatus(q, "audit_passed")
    /\ Start(h, q, "completeRequest", tasks[q].owner, NoBody)

StartFinalize(h, q) ==
    /\ HasStatus(q, "completed")
    /\ tasks[q].executor # NoOne
    /\ Start(h, q, "completeRequest", tasks[q].owner, NoBody)

\* Mutant: a request already completed counts as a success, so that a finalize
\* that failed halfway can be repeated.
CallCompleteRequestMutant(h) ==
    LET q == Mine(h).q
    IN  /\ At(h, "completeRequest")
        /\ Call(h, C!CanCompleteRequest(Mine(h).acct, q) \/ C!InState(q, "Completed"),
                \/ C!CompleteRequest(Mine(h).acct, q) /\ UNCHANGED scoreVars
                \/ C!InState(q, "Completed") /\ UNCHANGED chainVars,
                "requestCompleted")
        /\ UNCHANGED tasks

CallCompleteRequest(h) ==
    LET q == Mine(h).q
    IN  /\ At(h, "completeRequest")
        /\ Call(h, C!CanCompleteRequest(Mine(h).acct, q),
                C!CompleteRequest(Mine(h).acct, q) /\ UNCHANGED scoreVars,
                "requestCompleted")
        /\ UNCHANGED tasks

\* Whoever is stored as executor by now is the one to be rated.
ResumeRequestCompleted(h) ==
    /\ At(h, "requestCompleted")
    /\ Goto(h, "award", [Mine(h) EXCEPT !.who = TaskOf(h).executor])
    /\ UNCHANGED <<chainVars, tasks>>

CallAward(h) ==
    /\ At(h, "award")
    /\ Call(h, CanRate(Mine(h).acct), Rate(Mine(h).acct, Mine(h).who, 10), "awarded")
    /\ UNCHANGED tasks

ResumeAwarded(h) ==
    /\ At(h, "awarded")
    /\ Update(Mine(h).q, [TaskOf(h) EXCEPT !.status = "finalized"])
    /\ Respond(h)
    /\ UNCHANGED chainVars

-----------------------------------------------------------------------------
(* POST /tasks/:address/request-audit                                      *)

StartRequestAudit(h, q) ==
    /\ HasStatus(q, "completed")
    /\ Start(h, q, "requestAudit", tasks[q].owner, NoBody)

CallRequestAudit(h) ==
    LET q == Mine(h).q
    IN  /\ At(h, "requestAudit")
        /\ Call(h, C!CanRequestAudit(Mine(h).acct, q),
                C!RequestAudit(Mine(h).acct, q) /\ UNCHANGED scoreVars,
                "auditRequested")
        /\ UNCHANGED tasks

ResumeAuditRequested(h) ==
    /\ At(h, "auditRequested")
    /\ Update(Mine(h).q, [TaskOf(h) EXCEPT !.status = "audit_requested"])
    /\ Respond(h)
    /\ UNCHANGED chainVars

-----------------------------------------------------------------------------
(* POST /tasks/:address/submit-audit-result                                *)

StartSubmitAudit(h, q, acct, body) ==
    /\ Acceptable(body)
    /\ HasStatus(q, "audit_requested")
    /\ Start(h, q, "storeAudit", acct, body)

\* The status was checked before the account list was awaited, and is not again.
\* The auditor and its result are stored before the contract has accepted either.
ResumeStoreAudit(h) ==
    /\ At(h, "storeAudit")
    /\ \/ /\ TaskOf(h).executor = Mine(h).acct
          /\ Respond(h)
          /\ UNCHANGED tasks
       \/ /\ TaskOf(h).executor # Mine(h).acct
          /\ Update(Mine(h).q, [TaskOf(h) EXCEPT !.auditor = Mine(h).acct,
                                                 !.auditorResult = Stored(Mine(h).body)])
          /\ Continue(h, "appointAuditor")
    /\ UNCHANGED chainVars

CallAppointAuditor(h) ==
    LET q == Mine(h).q
    IN  /\ At(h, "appointAuditor")
        /\ Call(h, C!CanAppointAuditor(tasks[q].owner, q, Mine(h).acct),
                C!AppointAuditor(tasks[q].owner, q, Mine(h).acct) /\ UNCHANGED scoreVars,
                "assignAuditResult")
        /\ UNCHANGED tasks

CallAssignAuditResult(h) ==
    LET q == Mine(h).q
    IN  /\ At(h, "assignAuditResult")
        /\ Call(h, C!CanAssignAuditResult(Mine(h).acct, q),
                C!AssignAuditResult(Mine(h).acct, q, HashOf(Hashed(Mine(h).body)))
                  /\ UNCHANGED scoreVars,
                "auditAssigned")
        /\ UNCHANGED tasks

\* The server judges for itself and does not ask the contract: trimmed stdouts if the
\* auditor's body has parts and the task a stdout, and otherwise the two stored strings.
ResultsMatch(task, body) ==
    IF Structured(body) /\ task.stdout # Absent
    THEN TrimOf[task.stdout] = TrimOf[IF body.stdout = Absent THEN Blank ELSE body.stdout]
    ELSE task.result = task.auditorResult

\* Mutant: a failed audit reopens the task.
ResumeAuditAssignedMutant(h) ==
    LET task == TaskOf(h)
        match == ResultsMatch(task, Mine(h).body)
    IN  /\ At(h, "auditAssigned")
        /\ Update(Mine(h).q, [task EXCEPT !.status = IF match THEN "audit_passed"
                                                              ELSE "waiting"])
        /\ Goto(h, "rateExecutor", [Mine(h) EXCEPT !.who = task.executor, !.passed = match])
        /\ UNCHANGED chainVars

ResumeAuditAssigned(h) ==
    LET task == TaskOf(h)
        match == ResultsMatch(task, Mine(h).body)
    IN  /\ At(h, "auditAssigned")
        /\ Update(Mine(h).q, [task EXCEPT !.status = IF match THEN "audit_passed"
                                                              ELSE "audit_failed"])
        /\ Goto(h, "rateExecutor", [Mine(h) EXCEPT !.who = task.executor, !.passed = match])
        /\ UNCHANGED chainVars

\* Both ratings are sent from account 0.
CallRateExecutor(h) ==
    /\ At(h, "rateExecutor")
    /\ Call(h, CanRate(Deployer),
            Rate(Deployer, Mine(h).who, IF Mine(h).passed THEN 10 ELSE -10), "rateAuditor")
    /\ UNCHANGED tasks

CallRateAuditor(h) ==
    /\ At(h, "rateAuditor")
    /\ LastCall(h, CanRate(Deployer), Rate(Deployer, Mine(h).acct, 2))
    /\ UNCHANGED tasks

-----------------------------------------------------------------------------

\* The user starts an endpoint.
Request(h) ==
    \E q \in Req :
        \/ \E acct \in Account : StartCreate(h, q, acct)
        \/ \E acct \in Account : StartAssign(h, q, acct)
        \/ \E sellers \in SUBSET Account, epsilon \in {"zero", "positive"} :
              StartAutoAssign(h, q, sellers, epsilon)
        \/ \E acct \in Account, body \in Sent : StartComplete(h, q, acct, body)
        \/ StartFinalize(h, q)
        \/ StartRequestAudit(h, q)
        \/ \E acct \in Account, body \in Sent : StartSubmitAudit(h, q, acct, body)

\* A handler takes its next step.
Proceed(h) ==
    \/ \E price \in Price : CallDeploy(h, price)
    \/ ResumeDeployed(h)
    \/ CallAppointExecutor(h)
    \/ ResumeAppointed(h)
    \/ ResumeClaim(h)
    \/ CallAssignResult(h)
    \/ ResumeResultAssigned(h)
    \/ CallCompleteRequest(h)
    \/ ResumeRequestCompleted(h)
    \/ CallAward(h)
    \/ ResumeAwarded(h)
    \/ CallRequestAudit(h)
    \/ ResumeAuditRequested(h)
    \/ ResumeStoreAudit(h)
    \/ CallAppointAuditor(h)
    \/ CallAssignAuditResult(h)
    \/ ResumeAuditAssigned(h)
    \/ CallRateExecutor(h)
    \/ CallRateAuditor(h)

\* authorize-request.ts, run by hand for a deployed Request.
AuthorizeScript(q) ==
    /\ ~C!InState(q, "None")
    /\ q \notin authorizedRequest
    /\ C!Tax!AuthorizeRequest(q, TRUE)
    /\ UNCHANGED <<roles, rolesOwner, req, wallet, scoreVars, tasks, handler>>

\* The process is restarted: the tasks are in memory only, the chain stays.
Restart ==
    /\ Crashing
    /\ tasks' = [q \in Req |-> NoTask]
    /\ handler' = [h \in Handler |-> Idle]
    /\ UNCHANGED chainVars

Next ==
    \/ \E h \in Handler : Request(h) \/ Proceed(h)
    \/ \E q \in Req : AuthorizeScript(q)
    \/ Restart

Spec == Init /\ [][Next]_vars

\* The event loop runs every handler on and the node answers every call; the owner
\* of a task whose result it can accept keeps asking to finalize it.
Fairness ==
    /\ \A h \in Handler : WF_vars(Proceed(h))
    /\ \A q \in Req : SF_vars(\E h \in Handler : StartFinalize(h, q))

FairSpec == Spec /\ Fairness

-----------------------------------------------------------------------------
(* What the server promises about its tasks.                               *)

\* A status is shown only when the contract has got that far: the server never
\* announces a result, an audit, a verdict or a payment that is not on chain,
\* however calls fail, receipts get lost and handlers overlap.
StatusIsOnChain ==
    \A q \in Req :
        /\ HasStatus(q, "waiting") => ~C!InState(q, "None")
        /\ HasStatus(q, "completed") => req[q].state \in C!Attempted \/ req[q].auditRequired
        /\ HasStatus(q, "audit_requested") => req[q].auditRequired
        /\ tasks[q].status \in {"audit_passed", "audit_failed"} => C!AuditAnswered(q)
        /\ HasStatus(q, "finalized") => C!InState(q, "Completed")

\* The price a buyer names is what its executor is paid: the server's rounding up
\* and the contract's rounding down cancel (blockchain-service.ts:96-98,
\* Request.sol:62-67), and the constructor accepts the job cost the server states.
PriceIsEscrowed ==
    \A q \in Req :
        /\ ~C!InState(q, "None") => req[q].cost \in Price
        /\ \A h \in Handler, price \in Price \ {0} :
              At(h, "deploy") /\ C!InState(q, "None") /\ C!R!HasRole("BUYER", Mine(h).acct) =>
              C!CanDeploy(Mine(h).acct, q, Pay!TotalPayment(price), Pay!ActualEscrow(price))

\* The server lends no rights: every call for a task but its executor's and auditor's is
\* sent from its owner's account (server.ts:274, 421, 695, 767, 882), so that what an
\* account without ADMIN buys never gets past its deposit, whoever assigns it, claims it
\* or sends a result for it.
NoRightsLent ==
    \A q \in Req : ~C!InState(q, "None") /\ ~C!R!IsAdmin(req[q].owner) =>
        /\ C!InState(q, "Created")
        /\ tasks[q] = NoTask \/ HasStatus(q, "waiting")

\* The stdout of a body is what was hashed for the contract, and no other string of it.
InParts(body) ==
    /\ body.stdout # Absent
    /\ Given(body.stdout) \/ ~Given(body.result)

\* The server's verdict is about the output the contract got the hash of.  "If results
\* match: Executor gains +10 reputation" and "If results don't match: Executor loses -10
\* reputation" (README:603-604) are decided from the body that a handler kept over four
\* awaits, the retry and the payment from the hash it sent in the middle of them
\* (server.ts:888-913).  When the auditor sent an output in parts and the task has a stdout,
\* the audit passes iff the hash on chain is of a text that equals that stdout up to white
\* space at its ends, whoever else hands in an audit meanwhile.
VerdictFollowsHash ==
    [][ \A h \in Handler :
          (At(h, "auditAssigned") /\ handler[h]' # handler[h] /\ handler[h]' # Idle) =>
            LET q == Mine(h).q
            IN  InParts(Mine(h).body) /\ tasks[q].stdout # Absent =>
                  (HasStatus(q, "audit_passed")'
                     <=> \E text \in Text :
                            /\ req[q].auditorResultHash = HashOf(text)
                            /\ TrimOf[text] = TrimOf[tasks[q].stdout]) ]_vars

\* What Market knows of the tasks.
Market == INSTANCE Market
            WITH Task <- Req, Seller <- Account, Verdict <- {"audit_passed", "audit_failed"},
                 status <- [q \in Req |-> tasks[q].status],
                 executor <- [q \in Req |-> IF tasks[q] = NoTask THEN NoOne ELSE tasks[q].executor],
                 audited <- {q \in Req : \/ HasStatus(q, "audit_requested")
                                         \/ tasks[q] # NoTask /\ C!AuditAnswered(q)}

\* "Task lifecycle: waiting -> completed -> audit_requested -> audit_passed/
\* audit_failed -> finalized" (server.ts:45), with requests that overlap: however their
\* steps fail or are interleaved, a task is never completed before it has an executor, it
\* never goes back to waiting or to a second audit, and until its audit is asked for it
\* goes through its life in order; only then can a status be overtaken.
ServesMarket == Market!Spec

\* The same without the steps of overlapping requests: however the steps of a handler
\* fail, what the server shows changes as by one whole request or not at all, an assigned
\* task is completed by its executor, keeps it, and is audited by another.
ServesInOrder == Market!SequentialSpec

\* "Prevent re-assignment if already assigned" (server.ts:407): who is stored as a task's
\* executor stays so until the server is restarted.
NotReassigned ==
    [][ \A q \in Req :
          (tasks[q] # NoTask /\ tasks[q].executor # NoOne /\ tasks[q]' # NoTask) =>
            tasks[q]'.executor = tasks[q].executor ]_vars

\* For each task the ratings come to at most one reward for a payment, one for an
\* audit and one auditor's bonus, all of which one account may get, and to at most
\* one penalty: however often an endpoint is called again after a failure or a lost
\* receipt, the contract lets the step before a rating pass once (server.ts:693-702,
\* 894-937).
RatedOncePerTask ==
    LET paid == Cardinality({q \in Req : C!InState(q, "Completed")})
        audited == Cardinality({q \in Req : C!AuditAnswered(q)})
    IN  \A a \in Account :
            reputation[a] \in (-10 * audited) .. (10 * paid + (10 + 2) * audited)

\* A result the server shows does not wait for ever: if nothing fails and its owner
\* keeps asking, it is paid, unless an audit is opened first.
CompletedIsSettled ==
    \A q \in Req : HasStatus(q, "completed") ~> ~C!InState(q, "ResultSubmitted")

\* "finalized: Buyer finalizes task (only if audit passed, releases escrow)"
\* (README:605): a task that passed its audit is finalized if its owner insists.
AuditedIsFinalized ==
    \A q \in Req : HasStatus(q, "audit_passed") ~> HasStatus(q, "finalized")
=============================================================================
