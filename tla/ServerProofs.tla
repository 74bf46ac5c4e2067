---------------------------- MODULE ServerProofs ----------------------------
(***************************************************************************)
(* The properties of the server for any number of accounts, tasks and      *)
(* requests in progress, with failing calls, lost receipts and restarts.   *)
(*                                                                         *)
(* Three facts carry the proof.  Every call the server makes is a call of  *)
(* the contracts, so that what RequestProofs shows of them holds behind    *)
(* the server.  No call takes back what a handler has seen (Progress).     *)
(* And a handler writes only what it has seen (Reached).                   *)
(*                                                                         *)
(* For the ratings two more: a handler takes on a rating only by a call    *)
(* that the contract lets pass once (Orderly), so that the tasks a rating  *)
(* was sent for can be counted, and each rating counts a task not counted  *)
(* before.                                                                 *)
(***************************************************************************)
EXTENDS Server, FiniteSetTheorems, TLAPS

\* The contracts as the server uses them, with what is proved of them.
P == INSTANCE RequestProofs
       WITH Hash <- {HashOf(t) : t \in Text}, Submission <- {HashOf(t) : t \in Text},
            RoleChange <- {}, Donation <- {}, MaxPool <- 0,
            Payment <- {Pay!TotalPayment(p) : p \in Price},
            JobCost <- {Pay!ActualEscrow(p) : p \in Price}

\* What no call takes back: a result was handed in for the storage s, an audit of it
\* was answered.
Worked(s) == s.state \in P!Attempted \/ s.auditRequired
Answered(s) == s.auditRequired /\ s.state # "AuditRequested"

\* Nobody has worked on s yet.
Fresh(s) == s.state = "Created" /\ ~s.auditRequired

\* A storage the server paid for: at the price that was named, and not touched
\* if its owner is no admin.
StorageSound(s, admins) ==
    s.state # "None" => /\ s.cost \in Price
                        /\ s.owner \notin admins => Fresh(s)

\* How the storage of a task with an owner moves, while the accounts in admins are
\* the admins.
Progress(s, t, admins) ==
    /\ s.state # "None" => t.state # "None" /\ t.owner = s.owner /\ t.cost = s.cost
    /\ Worked(s) => Worked(t)
    /\ s.auditRequired => t.auditRequired
    /\ Answered(s) => Answered(t) /\ t.auditorResultHash = s.auditorResultHash
    /\ s.state = "Completed" => t.state = "Completed"
    /\ StorageSound(s, admins) => StorageSound(t, admins)

\* The task t shows nothing that its contract s has not reached.
TaskSound(t, s, admins) ==
    \/ t = NoTask
    \/ /\ t \in Task
       /\ s.state # "None"
       /\ t.owner = s.owner
       /\ t.status = "completed" => Worked(s)
       /\ t.status = "audit_requested" => s.auditRequired
       /\ t.status \in {"audit_passed", "audit_failed"} => Answered(s)
       /\ t.status = "finalized" => s.state = "Completed"
       /\ t.owner \notin admins => t.status = "waiting"

\* What a handler at pc relies on: the contract s has got as far as the handler has
\* seen it get, and the handler acts for an account of the server.
Reached(pc, local, s) ==
    /\ pc # "deploy" => s.state # "None"
    /\ pc \in {"deployed", "completeRequest", "requestAudit"} => local.acct = s.owner
    /\ pc = "resultAssigned" => Worked(s)
    /\ pc \in {"requestCompleted", "award", "awarded"} => s.state = "Completed"
    /\ pc = "auditRequested" => s.auditRequired
    /\ pc \in {"auditAssigned", "rateExecutor", "rateAuditor"} => Answered(s)

\* A handler that is busy with the storage s and the task t.
HandlerSound(hd, s, t) ==
    /\ hd \in [pc : Pc, local : Local]
    /\ hd.local.acct \in Account
    /\ hd.pc \notin {"deploy", "deployed"} => t # NoTask
    /\ Reached(hd.pc, hd.local, s)

ServerInv ==
    /\ P!Inv
    /\ reputation \in [Account \cup {NoOne} -> Int]
    /\ tasks \in [Req -> Task \cup {NoTask}]
    /\ handler \in [Handler -> {Idle} \cup [pc : Pc, local : Local]]
    /\ \A q \in Req : /\ StorageSound(req[q], roles["ADMIN"])
                      /\ TaskSound(tasks[q], req[q], roles["ADMIN"])
    /\ \A h \in Handler : handler[h] # Idle =>
          HandlerSound(handler[h], req[handler[h].local.q], tasks[handler[h].local.q])
-----------------------------------------------------------------------------
(* The server's calls are calls of the contracts.                          *)

\* The amounts computed from a price are amounts of wei, and the escrow is the price.
LEMMA Wei ==
  ASSUME NEW p \in Nat
  PROVE  /\ Pay!TotalPayment(p) \in Nat
         /\ Pay!ActualEscrow(p) = p
         /\ p > 0 => Pay!TotalPayment(p) > 0
BY Z3 DEF Pay!TotalPayment, Pay!ActualEscrow, Pay!EscrowOf

\* The contracts' assumptions hold of the server's accounts, texts and prices.
LEMMA Assumed == P!RequestAssumption
<1>1. {Pay!TotalPayment(p) : p \in Price} \subseteq Nat
  BY ServerAssumption, Wei
<1>2. NoHash \notin {HashOf(t) : t \in Text}
  BY ServerAssumption
<1> HIDE DEF HashOf
<1> QED
  BY <1>1, <1>2, ServerAssumption DEF P!RequestAssumption, P!R!Address, P!R!Role

\* The inductive invariant of the contracts, for the server's use of them.
LEMMA ContractsKeepInv == P!Inv /\ (P!Next \/ UNCHANGED P!vars) => P!Inv'
BY P!InvNext, Assumed DEF P!RequestAssumption, P!R!Address, P!R!Role

\* What the contracts' invariant says of one of them.
LEMMA StorageAt ==
  ASSUME P!Inv, NEW q \in Req
  PROVE  req[q] \in P!Storage /\ P!Sound(req[q])
BY P!InvAt, Assumed DEF P!RequestAssumption, P!R!Address, P!R!Role

\* What the rest of the server needs to know of a step of the chain.
Moves ==
    /\ P!Inv'
    /\ roles' = roles
    /\ \A x \in Req : Progress(req[x], req'[x], roles["ADMIN"])

\* A chain that does not move, moves.
LEMMA Still ==
  ASSUME P!Inv, UNCHANGED contractVars
  PROVE  Moves
<1>1. P!Inv'
  BY ContractsKeepInv DEF P!vars, contractVars
<1>2. \A x \in Req : Progress(req[x], req'[x], roles["ADMIN"])
  BY DEF Progress, contractVars
<1> QED
  BY <1>1, <1>2 DEF Moves, contractVars

\* A call of the contract q that replaces its storage by one that has progressed.
LEMMA Called ==
  ASSUME P!Inv, NEW sender \in Account, NEW q \in Req, P!RequestStep(sender, q),
         roles' = roles, NEW s, req' = [req EXCEPT ![q] = s],
         Progress(req[q], s, roles["ADMIN"])
  PROVE  Moves /\ req'[q] = s
<1>1. P!Inv'
  BY ContractsKeepInv DEF P!Next
<1>2. req \in [Req -> P!Storage]
  BY DEF P!Inv, P!TypeOK
<1>3. \A x \in Req : Progress(req[x], req'[x], roles["ADMIN"])
  BY <1>2 DEF Progress
<1> QED
  BY <1>1, <1>2, <1>3 DEF Moves

\* The constructor: the price is in the contract, and its owner is the sender.
LEMMA DeployMoves ==
  ASSUME P!Inv, NEW sender \in Account, NEW q \in Req, NEW price \in Price,
         C!Deploy(sender, q, Pay!TotalPayment(price), Pay!ActualEscrow(price))
  PROVE  Moves /\ req'[q].state # "None" /\ req'[q].owner = sender /\ ~req'[q].auditRequired
<1> DEFINE v == Pay!TotalPayment(price)
           cost == Pay!ActualEscrow(price)
           new == [P!Empty EXCEPT !.state = "Created", !.owner = sender,
                                  !.escrowAmount = P!Pay!EscrowOf(v), !.cost = cost,
                                  !.balance = v - P!Pay!AuditTaxOf(v)]
<1>1. P!Deploy(sender, q, v, cost)
  BY DEF C!Deploy, P!Deploy, C!CanDeploy, P!CanDeploy, C!InState, P!InState,
         C!R!HasRole, P!R!HasRole, C!Empty, P!Empty, C!Pay!EscrowOf, P!Pay!EscrowOf,
         C!Pay!AuditTaxOf, P!Pay!AuditTaxOf, C!Tax!Receive, P!Tax!Receive,
         C!rolesVars, P!rolesVars
<1>2. v \in {Pay!TotalPayment(p) : p \in Price} /\ cost \in {Pay!ActualEscrow(p) : p \in Price}
  OBVIOUS
<1>3. P!RequestStep(sender, q)
  BY <1>1, <1>2 DEF P!RequestStep
<1>4. req' = [req EXCEPT ![q] = new] /\ roles' = roles /\ req[q].state = "None"
  BY <1>1 DEF P!Deploy, P!CanDeploy, P!InState, P!rolesVars
<1>5. req[q] = P!Empty
  BY <1>4, StorageAt DEF P!Sound, P!EscrowSound
<1>6. cost \in Price
  BY Wei, ServerAssumption
<1>7. /\ new.state = "Created" /\ new.owner = sender /\ new.cost = cost /\ ~new.auditRequired
  BY DEF P!Empty
<1>8. ~P!Empty.auditRequired
  BY DEF P!Empty
<1> HIDE DEF new, cost, v
<1>9. Progress(req[q], new, roles["ADMIN"])
  BY <1>4, <1>5, <1>6, <1>7, <1>8
  DEF Progress, StorageSound, Fresh, Worked, Answered, P!Attempted
<1> QED
  BY <1>3, <1>4, <1>7, <1>9, Called

\* An executor is appointed by the owner, who is an admin if it passes.
LEMMA AppointExecutorMoves ==
  ASSUME P!Inv, NEW sender \in Account, NEW q \in Req, NEW candidate \in Account,
         C!AppointExecutor(sender, q, candidate), sender = req[q].owner
  PROVE  Moves
<1> DEFINE new == [req[q] EXCEPT !.executor = candidate, !.state = "ExecutorAssigned"]
<1>1. P!AppointExecutor(sender, q, candidate) /\ candidate \in P!Address
  BY DEF C!AppointExecutor, P!AppointExecutor, C!CanAppointExecutor, P!CanAppointExecutor,
         C!InState, P!InState, C!R!HasRole, P!R!HasRole, C!R!IsAdmin, P!R!IsAdmin,
         C!rolesVars, P!rolesVars, C!taxVars, P!taxVars, P!Address
<1>2. P!RequestStep(sender, q)
  BY <1>1 DEF P!RequestStep
<1>3. /\ req' = [req EXCEPT ![q] = new] /\ roles' = roles
      /\ req[q].state = "Created" /\ sender \in roles["ADMIN"]
  BY <1>1 DEF P!AppointExecutor, P!CanAppointExecutor, P!InState, P!rolesVars,
              P!R!IsAdmin, P!R!HasRole
<1>4. Progress(req[q], new, roles["ADMIN"])
  BY <1>3, StorageAt
  DEF Progress, StorageSound, Fresh, Worked, Answered, P!Attempted, P!Storage
<1> QED
  BY <1>2, <1>3, <1>4, Called
\* An audit, once asked for, stays required.
LEMMA RequestAuditMoves ==
  ASSUME P!Inv, NEW sender \in Account, NEW q \in Req, C!RequestAudit(sender, q)
  PROVE  Moves /\ req'[q].auditRequired
<1> DEFINE new == [req[q] EXCEPT !.auditRequired = TRUE, !.state = "AuditRequested"]
<1>1. P!RequestAudit(sender, q)
  BY DEF C!RequestAudit, P!RequestAudit, C!CanRequestAudit, P!CanRequestAudit,
         C!InState, P!InState, C!R!HasRole, P!R!HasRole, C!R!IsAdmin, P!R!IsAdmin,
         C!rolesVars, P!rolesVars, C!taxVars, P!taxVars
<1>2. P!RequestStep(sender, q)
  BY <1>1 DEF P!RequestStep
<1>3. /\ req' = [req EXCEPT ![q] = new] /\ roles' = roles
      /\ req[q].state = "ResultSubmitted" /\ ~req[q].auditRequired
  BY <1>1 DEF P!RequestAudit, P!CanRequestAudit, P!InState, P!rolesVars
<1>4. Progress(req[q], new, roles["ADMIN"]) /\ new.auditRequired
  BY <1>3, StorageAt
  DEF Progress, StorageSound, Fresh, Worked, Answered, P!Attempted, P!Storage
<1> QED
  BY <1>2, <1>3, <1>4, Called

\* A new auditor changes nothing the server looks at.
LEMMA AppointAuditorMoves ==
  ASSUME P!Inv, NEW sender \in Account, NEW q \in Req, NEW candidate \in Account,
         C!AppointAuditor(sender, q, candidate)
  PROVE  Moves
<1> DEFINE new == [req[q] EXCEPT !.auditor = candidate]
<1>1. P!AppointAuditor(sender, q, candidate) /\ candidate \in P!Address
  BY DEF C!AppointAuditor, P!AppointAuditor, C!CanAppointAuditor, P!CanAppointAuditor,
         C!InState, P!InState, C!R!HasRole, P!R!HasRole, C!R!IsAdmin, P!R!IsAdmin,
         C!rolesVars, P!rolesVars, C!taxVars, P!taxVars, P!Address
<1>2. P!RequestStep(sender, q)
  BY <1>1 DEF P!RequestStep
<1>3. req' = [req EXCEPT ![q] = new] /\ roles' = roles
  BY <1>1 DEF P!AppointAuditor, P!rolesVars
<1>4. Progress(req[q], new, roles["ADMIN"])
  BY <1>3, StorageAt
  DEF Progress, StorageSound, Fresh, Worked, Answered, P!Storage
<1> QED
  BY <1>2, <1>3, <1>4, Called

\* A completed request is completed.
LEMMA CompleteRequestMoves ==
  ASSUME P!Inv, NEW sender \in Account, NEW q \in Req, C!CompleteRequest(sender, q)
  PROVE  Moves /\ req'[q].state = "Completed"
<1> DEFINE new == [req[q] EXCEPT !.state = "Completed", !.escrowAmount = 0,
                                 !.balance = @ - req[q].escrowAmount]
<1>1. P!CompleteRequest(sender, q)
  BY DEF C!CompleteRequest, P!CompleteRequest, C!CanCompleteRequest, P!CanCompleteRequest,
         C!InState, P!InState, C!R!HasRole, P!R!HasRole, C!R!IsAdmin, P!R!IsAdmin,
         C!rolesVars, P!rolesVars, C!taxVars, P!taxVars
<1>2. P!RequestStep(sender, q)
  BY <1>1 DEF P!RequestStep
<1>3. /\ req' = [req EXCEPT ![q] = new] /\ roles' = roles
      /\ req[q].state \in {"ResultSubmitted", "Audited"}
  BY <1>1 DEF P!CompleteRequest, P!CanCompleteRequest, P!rolesVars
<1>4. /\ new.state = "Completed" /\ new.auditRequired = req[q].auditRequired
      /\ new.owner = req[q].owner /\ new.cost = req[q].cost
      /\ new.auditorResultHash = req[q].auditorResultHash
  BY StorageAt DEF P!Storage
<1> HIDE DEF new
<1>5. Progress(req[q], new, roles["ADMIN"])
  BY <1>3, <1>4 DEF Progress, StorageSound, Fresh, Worked, Answered, P!Attempted
<1> QED
  BY <1>2, <1>3, <1>4, <1>5, Called

\* A result that an audit on record rejects is the one way back for a request that was
\* worked on, and then the audit stays required.
LEMMA AssignResultMoves ==
  ASSUME P!Inv, NEW sender \in Account, NEW q \in Req, NEW text \in Text,
         C!AssignResult(sender, q, HashOf(text))
  PROVE  Moves /\ Worked(req'[q])
<1> DEFINE hash == HashOf(text)
           waits == [req[q] EXCEPT !.resultHash = hash, !.state = "ResultSubmitted"]
           right == [req[q] EXCEPT !.resultHash = hash, !.faultyResult = FALSE,
                                   !.state = "Audited"]
<1>1. P!AssignResult(sender, q, hash)
  BY DEF C!AssignResult, P!AssignResult, C!CanAssignResult, P!CanAssignResult,
         C!InState, P!InState, C!Rejected, P!Rejected,
         C!rolesVars, P!rolesVars, C!taxVars, P!taxVars
<1>2. hash \in {HashOf(t) : t \in Text}
  OBVIOUS
<1>3. P!RequestStep(sender, q)
  BY <1>1, <1>2 DEF P!RequestStep
<1>4. /\ roles' = roles /\ req[q].state = "ExecutorAssigned"
      /\ \/ req' = [req EXCEPT ![q] = waits]
         \/ req' = [req EXCEPT ![q] = right]
         \/ req[q].auditorResultHash # NoHash /\ req' = [req EXCEPT ![q] = P!Rejected(q)]
  BY <1>1 DEF P!AssignResult, P!CanAssignResult, P!InState, P!rolesVars
<1>5. Progress(req[q], waits, roles["ADMIN"]) /\ Worked(waits)
  BY <1>4, StorageAt
  DEF Progress, StorageSound, Fresh, Worked, Answered, P!Attempted, P!Storage
<1>6. Progress(req[q], right, roles["ADMIN"]) /\ Worked(right)
  BY <1>4, StorageAt
  DEF Progress, StorageSound, Fresh, Worked, Answered, P!Attempted, P!Storage
<1>7. req[q].auditorResultHash # NoHash =>
        Progress(req[q], P!Rejected(q), roles["ADMIN"]) /\ Worked(P!Rejected(q))
  BY <1>4, StorageAt
  DEF Progress, StorageSound, Fresh, Worked, Answered, P!Attempted, P!Storage,
      P!Rejected, P!Sound, P!AuditSound
<1> HIDE DEF waits, right, hash
<1> QED
  BY <1>3, <1>4, <1>5, <1>6, <1>7, Called

\* An answered audit is answered, whatever the verdict.
LEMMA AssignAuditResultMoves ==
  ASSUME P!Inv, NEW sender \in Account, NEW q \in Req, NEW text \in Text,
         C!AssignAuditResult(sender, q, HashOf(text))
  PROVE  Moves /\ Answered(req'[q]) /\ req'[q].auditorResultHash = HashOf(text)
<1> DEFINE hash == HashOf(text)
           faulty == [P!Rejected(q) EXCEPT !.auditorResultHash = hash]
           right == [req[q] EXCEPT !.auditorResultHash = hash, !.state = "Audited"]
<1>1. P!AssignAuditResult(sender, q, hash)
  BY DEF C!AssignAuditResult, P!AssignAuditResult, C!CanAssignAuditResult,
         P!CanAssignAuditResult, C!InState, P!InState, C!Rejected, P!Rejected,
         C!Tax!Withdraw, P!Tax!Withdraw, C!Tax!CanWithdraw, P!Tax!CanWithdraw,
         C!rolesVars, P!rolesVars
<1>2. hash \in {HashOf(t) : t \in Text}
  OBVIOUS
<1>3. P!RequestStep(sender, q)
  BY <1>1, <1>2 DEF P!RequestStep
<1>4. /\ roles' = roles /\ req[q].state = "AuditRequested"
      /\ req' = [req EXCEPT ![q] = faulty] \/ req' = [req EXCEPT ![q] = right]
  BY <1>1 DEF P!AssignAuditResult, P!CanAssignAuditResult, P!InState, P!rolesVars
<1>5. req[q].auditRequired
  BY <1>4, StorageAt DEF P!Sound, P!AuditSound
<1>6. /\ Progress(req[q], faulty, roles["ADMIN"]) /\ Answered(faulty)
      /\ faulty.auditorResultHash = hash
  BY <1>4, <1>5, StorageAt
  DEF Progress, StorageSound, Fresh, Worked, Answered, P!Attempted, P!Storage, P!Rejected
<1>7. /\ Progress(req[q], right, roles["ADMIN"]) /\ Answered(right)
      /\ right.auditorResultHash = hash
  BY <1>4, <1>5, StorageAt
  DEF Progress, StorageSound, Fresh, Worked, Answered, P!Attempted, P!Storage
<1> HIDE DEF faulty, right
<1> QED
  BY <1>3, <1>4, <1>6, <1>7, Called

\* The authorisation script does not touch the requests.
LEMMA AuthorizeMoves ==
  ASSUME P!Inv, NEW q \in Req, C!Tax!AuthorizeRequest(q, TRUE),
         UNCHANGED <<roles, rolesOwner, req, wallet>>
  PROVE  Moves
<1>1. P!TaxStep
  BY DEF P!TaxStep, C!Tax!AuthorizeRequest, P!Tax!AuthorizeRequest, P!rolesVars
<1>2. P!Inv'
  BY <1>1, ContractsKeepInv DEF P!Next
<1> QED
  BY <1>2 DEF Moves, Progress
-----------------------------------------------------------------------------
(* One step of a handler leaves the others, and every task, sound.         *)

RepTyped == reputation \in [Account \cup {NoOne} -> Int]

\* A task stays true when its contract moves on, ...
LEMMA TaskKept ==
  ASSUME NEW t, NEW s, NEW s2, NEW admins, TaskSound(t, s, admins), Progress(s, s2, admins)
  PROVE  TaskSound(t, s2, admins)
BY DEF TaskSound, Progress

\* ... and so does what a handler relies on, when its contract and its task do.
LEMMA HandlerKept ==
  ASSUME NEW hd, NEW s, NEW s2, NEW t, NEW t2, NEW admins,
         HandlerSound(hd, s, t), Progress(s, s2, admins), t # NoTask => t2 # NoTask
  PROVE  HandlerSound(hd, s2, t2)
BY DEF HandlerSound, Reached, Progress

\* A step after which the chain has moved, the tasks are true of it and known as long as
\* they were, and one handler has gone elsewhere.
LEMMA Stepped ==
  ASSUME ServerInv, Moves, RepTyped', NEW h \in Handler, NEW hd,
         handler' = [handler EXCEPT ![h] = hd],
         hd # Idle => HandlerSound(hd, req'[hd.local.q], tasks'[hd.local.q]),
         tasks' \in [Req -> Task \cup {NoTask}],
         \A x \in Req : /\ TaskSound(tasks'[x], req'[x], roles["ADMIN"])
                        /\ tasks[x] # NoTask => tasks'[x] # NoTask
  PROVE  ServerInv'
<1>1. P!Inv' /\ roles' = roles
  BY DEF Moves
<1>2. hd \in {Idle} \cup [pc : Pc, local : Local]
  BY DEF HandlerSound
<1>3. handler' \in [Handler -> {Idle} \cup [pc : Pc, local : Local]]
  BY <1>2 DEF ServerInv
<1>4. \A x \in Req : StorageSound(req'[x], roles["ADMIN"])
  BY DEF ServerInv, Moves, Progress
<1>5. ASSUME NEW g \in Handler, handler'[g] # Idle
      PROVE  HandlerSound(handler'[g], req'[handler'[g].local.q], tasks'[handler'[g].local.q])
  <2>1. CASE g = h
    BY <1>5, <2>1 DEF ServerInv
  <2>2. CASE g # h
    <3>1. handler'[g] = handler[g]
      BY <2>2 DEF ServerInv
    <3> DEFINE q == handler[g].local.q
    <3>2. HandlerSound(handler[g], req[q], tasks[q])
      BY <1>5, <3>1 DEF ServerInv
    <3>3. q \in Req
      BY <3>2 DEF HandlerSound, Local
    <3>4. Progress(req[q], req'[q], roles["ADMIN"]) /\ (tasks[q] # NoTask => tasks'[q] # NoTask)
      BY <3>3 DEF Moves
    <3> QED
      BY <3>1, <3>2, <3>4, HandlerKept
  <2> QED
    BY <2>1, <2>2
<1> QED
  BY <1>1, <1>3, <1>4, <1>5 DEF ServerInv, RepTyped

\* The tasks, when only the chain moves.
LEMMA TasksStay ==
  ASSUME ServerInv, Moves, UNCHANGED tasks
  PROVE  /\ tasks' \in [Req -> Task \cup {NoTask}]
         /\ \A x \in Req : /\ TaskSound(tasks'[x], req'[x], roles["ADMIN"])
                           /\ tasks[x] # NoTask => tasks'[x] # NoTask
<1>1. ASSUME NEW x \in Req PROVE TaskSound(tasks[x], req'[x], roles["ADMIN"])
  BY TaskKept DEF ServerInv, Moves
<1> QED
  BY <1>1 DEF ServerInv

\* A handler that answers.
LEMMA Responds ==
  ASSUME ServerInv, Moves, RepTyped', UNCHANGED tasks, NEW h \in Handler, Respond(h)
  PROVE  ServerInv'
BY TasksStay, Stepped DEF Respond

\* A handler that goes on, its task as it was.
LEMMA Goes ==
  ASSUME ServerInv, Moves, RepTyped', UNCHANGED tasks, NEW h \in Handler, NEW pc, NEW local,
         Goto(h, pc, local),
         HandlerSound([pc |-> pc, local |-> local], req'[local.q], tasks[local.q])
  PROVE  ServerInv'
<1> DEFINE hd == [pc |-> pc, local |-> local]
<1>1. handler' = [handler EXCEPT ![h] = hd]
  BY DEF Goto
<1>2. hd.local = local
  OBVIOUS
<1> HIDE DEF hd
<1>3. HandlerSound(hd, req'[hd.local.q], tasks'[hd.local.q])
  BY <1>2 DEF hd
<1> QED
  BY <1>1, <1>3, TasksStay, Stepped

\* A handler that writes its task, the chain as it was, and answers or goes on.
LEMMA Writes ==
  ASSUME ServerInv, UNCHANGED chainVars, NEW h \in Handler, NEW q \in Req, NEW t \in Task,
         Update(q, t), TaskSound(t, req[q], roles["ADMIN"]),
         NEW hd, handler' = [handler EXCEPT ![h] = hd],
         hd # Idle => hd.local.q = q /\ HandlerSound(hd, req[q], t)
  PROVE  ServerInv'
<1>1. Moves /\ RepTyped' /\ req' = req
  BY Still DEF ServerInv, chainVars, contractVars, scoreVars, RepTyped
<1>2. t # NoTask
  BY DEF Task, NoTask, Status
<1>3. /\ tasks' \in [Req -> Task \cup {NoTask}] /\ tasks'[q] = t
      /\ \A x \in Req : x # q => tasks'[x] = tasks[x]
  BY DEF ServerInv, Update
<1>4. \A x \in Req : /\ TaskSound(tasks'[x], req'[x], roles["ADMIN"])
                     /\ tasks[x] # NoTask => tasks'[x] # NoTask
  BY <1>1, <1>2, <1>3 DEF ServerInv
<1> QED
  BY <1>1, <1>3, <1>4, Stepped

\* What of a body is hashed is a text, and what of it is stored is a string.
LEMMA HashedIsText ==
  ASSUME NEW body \in Body
  PROVE  /\ Hashed(body) \in Text
         /\ Stored(body) \in String
         /\ body.stdout \in Text \cup {Absent}
BY ServerAssumption DEF Body, Hashed, Given, Stored, String, Legacy

\* No body at all is one, for the handlers that were sent none.
LEMMA NoBodyIsBody == NoBody \in Body
BY DEF NoBody, Body

\* What is known of a handler that is somewhere.
LEMMA Somewhere ==
  ASSUME ServerInv, NEW h \in Handler, NEW pc \in Pc, At(h, pc)
  PROVE  /\ Mine(h) \in Local /\ Mine(h).q \in Req /\ Mine(h).acct \in Account
         /\ Mine(h).who \in Account \cup {NoOne}
         /\ Mine(h).body \in Body /\ Hashed(Mine(h).body) \in Text
         /\ Reached(pc, Mine(h), req[Mine(h).q])
         /\ pc \notin {"deploy", "deployed"} =>
               /\ TaskOf(h) \in Task
               /\ TaskSound(TaskOf(h), req[Mine(h).q], roles["ADMIN"])
               /\ TaskOf(h).owner \in Account
               /\ TaskOf(h).owner = req[Mine(h).q].owner
<1>1. handler[h] # Idle
  BY DEF At, Idle, Pc
<1>2. HandlerSound(handler[h], req[Mine(h).q], tasks[Mine(h).q])
  BY <1>1 DEF ServerInv, Mine
<1>3. Mine(h) \in Local /\ Mine(h).q \in Req /\ Mine(h).who \in Account \cup {NoOne}
  BY <1>2 DEF HandlerSound, Local, Mine
<1>4. /\ Mine(h).acct \in Account
      /\ Reached(pc, Mine(h), req[Mine(h).q])
      /\ pc \notin {"deploy", "deployed"} => TaskOf(h) # NoTask
  BY <1>2 DEF HandlerSound, At, Mine, TaskOf
<1>5. Mine(h).body \in Body /\ Hashed(Mine(h).body) \in Text
  BY <1>3, HashedIsText DEF Local
<1>6. TaskOf(h) # NoTask => /\ TaskOf(h) \in Task
                            /\ TaskSound(TaskOf(h), req[Mine(h).q], roles["ADMIN"])
  BY <1>3 DEF ServerInv, TaskOf
<1>7. TaskOf(h) # NoTask => TaskOf(h).owner \in Account /\ TaskOf(h).owner = req[Mine(h).q].owner
  BY <1>6 DEF TaskSound, Task
<1> QED
  BY <1>3, <1>4, <1>5, <1>6, <1>7
-----------------------------------------------------------------------------
(* One lemma per kind of step.                                             *)

\* A call that is made and after which the handler answers or goes on to next, or one
\* that is not made and after which it answers.
LEMMA CallEnds ==
  ASSUME ServerInv, NEW h \in Handler, NEW pc \in Pc \ {"deploy", "deployed"}, At(h, pc),
         NEW next \in Pc \ {"deploy", "deployed"},
         UNCHANGED tasks,
         \/ Moves /\ RepTyped' /\ Respond(h)
         \/ Moves /\ RepTyped' /\ Continue(h, next) /\ Reached(next, Mine(h), req'[Mine(h).q])
         \/ UNCHANGED chainVars /\ Respond(h)
  PROVE  ServerInv'
<1>1. CASE UNCHANGED chainVars /\ Respond(h)
  <2>1. Moves /\ RepTyped'
    BY <1>1, Still DEF ServerInv, chainVars, contractVars, scoreVars, RepTyped
  <2> QED
    BY <1>1, <2>1, Responds
<1>2. CASE Moves /\ RepTyped' /\ Respond(h)
  BY <1>2, Responds
<1>3. CASE Moves /\ RepTyped' /\ Continue(h, next) /\ Reached(next, Mine(h), req'[Mine(h).q])
  <2>1. /\ Mine(h) \in Local /\ Mine(h).acct \in Account /\ TaskOf(h) \in Task
    BY Somewhere
  <2>2. TaskOf(h) # NoTask
    BY <2>1 DEF Task, NoTask, Status
  <2> DEFINE local == Mine(h)
             hd == [pc |-> next, local |-> local]
  <2>3. hd.pc = next /\ hd.local = local /\ hd \in [pc : Pc, local : Local]
    BY <2>1
  <2>4. HandlerSound(hd, req'[local.q], tasks[local.q])
    BY <1>3, <2>1, <2>2, <2>3 DEF HandlerSound, TaskOf
  <2>5. Goto(h, next, local)
    BY <1>3 DEF Continue
  <2> QED
    BY <1>3, <2>4, <2>5, Goes
<1> QED
  BY <1>1, <1>2, <1>3

\* A handler starts for a task that is there, or for an address with none yet.
LEMMA StartKeeps ==
  ASSUME ServerInv, NEW h \in Handler, NEW q \in Req, NEW pc \in Pc \ {"deployed"},
         NEW acct \in Account, NEW body \in Body, Start(h, q, pc, acct, body),
         pc # "deploy" => tasks[q] # NoTask,
         pc \in {"completeRequest", "requestAudit"} => acct = tasks[q].owner,
         pc \in {"deploy", "appoint", "claim", "assignResult", "storeAudit",
                 "completeRequest", "requestAudit"}
  PROVE  ServerInv'
<1> DEFINE local == [q |-> q, acct |-> acct, body |-> body, who |-> NoOne, passed |-> FALSE]
<1>1. local \in Local /\ local.q = q /\ local.acct = acct /\ local.body = body
  BY DEF Local
<1>2. Moves /\ RepTyped'
  BY Still DEF Start, ServerInv, chainVars, contractVars, scoreVars, RepTyped
<1>3. Goto(h, pc, local) /\ UNCHANGED tasks /\ req' = req
  BY DEF Start, chainVars, contractVars
<1> HIDE DEF local
<1>4. tasks[q] # NoTask => req[q].state # "None" /\ tasks[q].owner = req[q].owner
  BY DEF ServerInv, TaskSound
<1>5. Reached(pc, local, req[q])
  BY <1>1, <1>4 DEF Reached
<1> DEFINE hd == [pc |-> pc, local |-> local]
<1>6. hd.pc = pc /\ hd.local = local /\ hd \in [pc : Pc, local : Local]
  BY <1>1
<1>7. HandlerSound(hd, req[q], tasks[q])
  BY <1>1, <1>5, <1>6 DEF HandlerSound
<1> QED
  BY <1>1, <1>2, <1>3, <1>7, Goes

\* The user's requests.
LEMMA RequestKeeps ==
  ASSUME ServerInv, NEW h \in Handler, Request(h)
  PROVE  ServerInv'
<1> SUFFICES ASSUME NEW q \in Req,
       \/ \E acct \in Account : StartCreate(h, q, acct)
       \/ \E acct \in Account : StartAssign(h, q, acct)
       \/ \E sellers \in SUBSET Account, epsilon \in {"zero", "positive"} :
             StartAutoAssign(h, q, sellers, epsilon)
       \/ \E acct \in Account, body \in Sent : StartComplete(h, q, acct, body)
       \/ StartFinalize(h, q)
       \/ StartRequestAudit(h, q)
       \/ \E acct \in Account, body \in Sent : StartSubmitAudit(h, q, acct, body)
             PROVE  ServerInv'
  BY DEF Request
<1>0. \A status \in Status : HasStatus(q, status) => tasks[q] # NoTask /\ tasks[q].owner \in Account
  <2>1. NoTask.status \notin Status
    BY DEF NoTask, Status
  <2>2. tasks[q] \in Task \/ tasks[q] = NoTask
    BY DEF ServerInv
  <2> QED
    BY <2>1, <2>2 DEF HasStatus, Task
<1>1. ASSUME NEW acct \in Account, StartCreate(h, q, acct) PROVE ServerInv'
  BY <1>1, StartKeeps, NoBodyIsBody DEF StartCreate, Pc
<1>2. ASSUME NEW acct \in Account, StartAssign(h, q, acct) PROVE ServerInv'
  BY <1>0, <1>2, StartKeeps, NoBodyIsBody DEF StartAssign, Pc, Status
<1>3. ASSUME NEW sellers \in SUBSET Account, NEW epsilon, StartAutoAssign(h, q, sellers, epsilon)
      PROVE  ServerInv'
  <2>1. PICK seller \in Selectable(sellers, epsilon) : Start(h, q, "appoint", seller, NoBody)
    BY <1>3 DEF StartAutoAssign
  <2>2. seller \in Account
    BY DEF Selectable
  <2> QED
    BY <1>0, <1>3, <2>1, <2>2, StartKeeps, NoBodyIsBody DEF StartAutoAssign, Pc, Status
<1>4. ASSUME NEW acct \in Account, NEW body \in Sent, StartComplete(h, q, acct, body)
      PROVE  ServerInv'
  <2>1. tasks[q] # NoTask
    BY <1>0, <1>4 DEF StartComplete, Status
  <2>2. Start(h, q, "claim", acct, body) \/ Start(h, q, "assignResult", acct, body)
    BY <1>4 DEF StartComplete
  <2> QED
    BY <2>1, <2>2, StartKeeps, SentAssumption DEF Pc
<1>5. ASSUME StartFinalize(h, q) PROVE ServerInv'
  BY <1>0, <1>5, StartKeeps, NoBodyIsBody DEF StartFinalize, Pc, Status
<1>6. ASSUME StartRequestAudit(h, q) PROVE ServerInv'
  BY <1>0, <1>6, StartKeeps, NoBodyIsBody DEF StartRequestAudit, Pc, Status
<1>7. ASSUME NEW acct \in Account, NEW body \in Sent, StartSubmitAudit(h, q, acct, body)
      PROVE  ServerInv'
  BY <1>0, <1>7, StartKeeps, SentAssumption DEF StartSubmitAudit, Pc, Status
<1> QED
  BY <1>1, <1>2, <1>3, <1>4, <1>5, <1>6, <1>7

\* The deployment: the handler goes on as the owner of a contract that is there.
LEMMA DeployKeeps ==
  ASSUME ServerInv, NEW h \in Handler, NEW price \in Price, CallDeploy(h, price)
  PROVE  ServerInv'
<1> DEFINE q == Mine(h).q
           deploys == /\ C!Deploy(Mine(h).acct, q, Pay!TotalPayment(price), Pay!ActualEscrow(price))
                      /\ UNCHANGED scoreVars
<1>1. At(h, "deploy") /\ UNCHANGED tasks
  BY DEF CallDeploy
<1>2. Mine(h) \in Local /\ q \in Req /\ Mine(h).acct \in Account
  BY <1>1, Somewhere DEF Pc
<1>3. \/ deploys /\ Continue(h, "deployed")
      \/ deploys /\ Respond(h)
      \/ UNCHANGED chainVars /\ Respond(h)
  BY DEF CallDeploy, Call
<1>4. ASSUME deploys
      PROVE  Moves /\ RepTyped' /\ req'[q].state # "None" /\ req'[q].owner = Mine(h).acct
  BY <1>2, <1>4, DeployMoves DEF ServerInv, RepTyped, scoreVars
<1>5. ASSUME UNCHANGED chainVars PROVE Moves /\ RepTyped'
  BY <1>5, Still DEF ServerInv, chainVars, contractVars, scoreVars, RepTyped
<1>6. CASE Respond(h)
  BY <1>1, <1>3, <1>4, <1>5, <1>6, Responds
<1>7. CASE deploys /\ Continue(h, "deployed")
  <2> DEFINE local == Mine(h)
             hd == [pc |-> "deployed", local |-> local]
  <2>1. hd.pc = "deployed" /\ hd.local = local /\ hd \in [pc : Pc, local : Local]
    BY <1>2 DEF Pc
  <2>2. HandlerSound(hd, req'[local.q], tasks[local.q])
    BY <1>2, <1>4, <1>7, <2>1 DEF HandlerSound, Reached
  <2>3. Goto(h, "deployed", local)
    BY <1>7 DEF Continue
  <2> QED
    BY <1>1, <1>4, <1>7, <2>2, <2>3, Goes
<1> QED
  BY <1>3, <1>6, <1>7
\* The six calls after it, each sent for a task that is there.
LEMMA AppointExecutorKeeps ==
  ASSUME ServerInv, NEW h \in Handler, CallAppointExecutor(h)
  PROVE  ServerInv'
<1> DEFINE q == Mine(h).q
<1>1. At(h, "appoint") /\ UNCHANGED tasks
  BY DEF CallAppointExecutor
<1>2. /\ Mine(h) \in Local /\ q \in Req /\ Mine(h).acct \in Account
      /\ tasks[q].owner \in Account /\ tasks[q].owner = req[q].owner
  BY <1>1, Somewhere DEF Pc, TaskOf
<1>3. \/ C!AppointExecutor(tasks[q].owner, q, Mine(h).acct) /\ UNCHANGED scoreVars /\ Continue(h, "appointed")
      \/ C!AppointExecutor(tasks[q].owner, q, Mine(h).acct) /\ UNCHANGED scoreVars /\ Respond(h)
      \/ UNCHANGED chainVars /\ Respond(h)
  BY DEF CallAppointExecutor, Call
<1>4. ASSUME C!AppointExecutor(tasks[q].owner, q, Mine(h).acct), UNCHANGED scoreVars
      PROVE  Moves /\ RepTyped' /\ Reached("appointed", Mine(h), req'[q])
  <2>1. Moves
    BY <1>2, <1>4, AppointExecutorMoves DEF ServerInv
  <2>2. req'[q].state # "None"
    BY <1>1, <1>2, <2>1, Somewhere DEF Moves, Progress, Reached, Pc
  <2> QED
    BY <1>4, <2>1, <2>2 DEF Reached, ServerInv, RepTyped, scoreVars
<1> QED
  BY <1>1, <1>3, <1>4, CallEnds DEF Pc

LEMMA AssignResultKeeps ==
  ASSUME ServerInv, NEW h \in Handler, CallAssignResult(h)
  PROVE  ServerInv'
<1> DEFINE q == Mine(h).q
<1>1. At(h, "assignResult") /\ UNCHANGED tasks
  BY DEF CallAssignResult
<1>2. /\ Mine(h) \in Local /\ q \in Req /\ Mine(h).acct \in Account
      /\ Hashed(Mine(h).body) \in Text
  BY <1>1, Somewhere DEF Pc
<1>3. \/ C!AssignResult(Mine(h).acct, q, HashOf(Hashed(Mine(h).body))) /\ UNCHANGED scoreVars /\ Continue(h, "resultAssigned")
      \/ C!AssignResult(Mine(h).acct, q, HashOf(Hashed(Mine(h).body))) /\ UNCHANGED scoreVars /\ Respond(h)
      \/ UNCHANGED chainVars /\ Respond(h)
  BY DEF CallAssignResult, Call
<1>4. ASSUME C!AssignResult(Mine(h).acct, q, HashOf(Hashed(Mine(h).body))), UNCHANGED scoreVars
      PROVE  Moves /\ RepTyped' /\ Reached("resultAssigned", Mine(h), req'[q])
  <2>1. Moves /\ Worked(req'[q])
    BY <1>2, <1>4, AssignResultMoves DEF ServerInv
  <2>2. req'[q].state # "None"
    BY <1>1, <1>2, <2>1, Somewhere DEF Moves, Progress, Reached, Pc
  <2> QED
    BY <1>4, <2>1, <2>2 DEF Reached, ServerInv, RepTyped, scoreVars
<1> QED
  BY <1>1, <1>3, <1>4, CallEnds DEF Pc

LEMMA CompleteRequestKeeps ==
  ASSUME ServerInv, NEW h \in Handler, CallCompleteRequest(h)
  PROVE  ServerInv'
<1> DEFINE q == Mine(h).q
<1>1. At(h, "completeRequest") /\ UNCHANGED tasks
  BY DEF CallCompleteRequest
<1>2. /\ Mine(h) \in Local /\ q \in Req /\ Mine(h).acct \in Account
  BY <1>1, Somewhere DEF Pc
<1>3. \/ C!CompleteRequest(Mine(h).acct, q) /\ UNCHANGED scoreVars /\ Continue(h, "requestCompleted")
      \/ C!CompleteRequest(Mine(h).acct, q) /\ UNCHANGED scoreVars /\ Respond(h)
      \/ UNCHANGED chainVars /\ Respond(h)
  BY DEF CallCompleteRequest, Call
<1>4. ASSUME C!CompleteRequest(Mine(h).acct, q), UNCHANGED scoreVars
      PROVE  Moves /\ RepTyped' /\ Reached("requestCompleted", Mine(h), req'[q])
  <2>1. Moves /\ req'[q].state = "Completed"
    BY <1>2, <1>4, CompleteRequestMoves DEF ServerInv
  <2>2. req'[q].state # "None"
    BY <1>1, <1>2, <2>1, Somewhere DEF Moves, Progress, Reached, Pc
  <2> QED
    BY <1>4, <2>1, <2>2 DEF Reached, ServerInv, RepTyped, scoreVars
<1> QED
  BY <1>1, <1>3, <1>4, CallEnds DEF Pc

LEMMA RequestAuditKeeps ==
  ASSUME ServerInv, NEW h \in Handler, CallRequestAudit(h)
  PROVE  ServerInv'
<1> DEFINE q == Mine(h).q
<1>1. At(h, "requestAudit") /\ UNCHANGED tasks
  BY DEF CallRequestAudit
<1>2. /\ Mine(h) \in Local /\ q \in Req /\ Mine(h).acct \in Account
  BY <1>1, Somewhere DEF Pc
<1>3. \/ C!RequestAudit(Mine(h).acct, q) /\ UNCHANGED scoreVars /\ Continue(h, "auditRequested")
      \/ C!RequestAudit(Mine(h).acct, q) /\ UNCHANGED scoreVars /\ Respond(h)
      \/ UNCHANGED chainVars /\ Respond(h)
  BY DEF CallRequestAudit, Call
<1>4. ASSUME C!RequestAudit(Mine(h).acct, q), UNCHANGED scoreVars
      PROVE  Moves /\ RepTyped' /\ Reached("auditRequested", Mine(h), req'[q])
  <2>1. Moves /\ req'[q].auditRequired
    BY <1>2, <1>4, RequestAuditMoves DEF ServerInv
  <2>2. req'[q].state # "None"
    BY <1>1, <1>2, <2>1, Somewhere DEF Moves, Progress, Reached, Pc
  <2> QED
    BY <1>4, <2>1, <2>2 DEF Reached, ServerInv, RepTyped, scoreVars
<1> QED
  BY <1>1, <1>3, <1>4, CallEnds DEF Pc

LEMMA AppointAuditorKeeps ==
  ASSUME ServerInv, NEW h \in Handler, CallAppointAuditor(h)
  PROVE  ServerInv'
<1> DEFINE q == Mine(h).q
<1>1. At(h, "appointAuditor") /\ UNCHANGED tasks
  BY DEF CallAppointAuditor
<1>2. /\ Mine(h) \in Local /\ q \in Req /\ Mine(h).acct \in Account
      /\ tasks[q].owner \in Account /\ tasks[q].owner = req[q].owner
  BY <1>1, Somewhere DEF Pc, TaskOf
<1>3. \/ C!AppointAuditor(tasks[q].owner, q, Mine(h).acct) /\ UNCHANGED scoreVars /\ Continue(h, "assignAuditResult")
      \/ C!AppointAuditor(tasks[q].owner, q, Mine(h).acct) /\ UNCHANGED scoreVars /\ Respond(h)
      \/ UNCHANGED chainVars /\ Respond(h)
  BY DEF CallAppointAuditor, Call
<1>4. ASSUME C!AppointAuditor(tasks[q].owner, q, Mine(h).acct), UNCHANGED scoreVars
      PROVE  Moves /\ RepTyped' /\ Reached("assignAuditResult", Mine(h), req'[q])
  <2>1. Moves
    BY <1>2, <1>4, AppointAuditorMoves DEF ServerInv
  <2>2. req'[q].state # "None"
    BY <1>1, <1>2, <2>1, Somewhere DEF Moves, Progress, Reached, Pc
  <2> QED
    BY <1>4, <2>1, <2>2 DEF Reached, ServerInv, RepTyped, scoreVars
<1> QED
  BY <1>1, <1>3, <1>4, CallEnds DEF Pc

LEMMA AssignAuditResultKeeps ==
  ASSUME ServerInv, NEW h \in Handler, CallAssignAuditResult(h)
  PROVE  ServerInv'
<1> DEFINE q == Mine(h).q
<1>1. At(h, "assignAuditResult") /\ UNCHANGED tasks
  BY DEF CallAssignAuditResult
<1>2. /\ Mine(h) \in Local /\ q \in Req /\ Mine(h).acct \in Account
      /\ Hashed(Mine(h).body) \in Text
  BY <1>1, Somewhere DEF Pc
<1>3. \/ C!AssignAuditResult(Mine(h).acct, q, HashOf(Hashed(Mine(h).body))) /\ UNCHANGED scoreVars /\ Continue(h, "auditAssigned")
      \/ C!AssignAuditResult(Mine(h).acct, q, HashOf(Hashed(Mine(h).body))) /\ UNCHANGED scoreVars /\ Respond(h)
      \/ UNCHANGED chainVars /\ Respond(h)
  BY DEF CallAssignAuditResult, Call
<1>4. ASSUME C!AssignAuditResult(Mine(h).acct, q, HashOf(Hashed(Mine(h).body))), UNCHANGED scoreVars
      PROVE  Moves /\ RepTyped' /\ Reached("auditAssigned", Mine(h), req'[q])
  <2>1. Moves /\ Answered(req'[q])
    BY <1>2, <1>4, AssignAuditResultMoves DEF ServerInv
  <2>2. req'[q].state # "None"
    BY <1>1, <1>2, <2>1, Somewhere DEF Moves, Progress, Reached, Pc
  <2> QED
    BY <1>4, <2>1, <2>2 DEF Reached, ServerInv, RepTyped, scoreVars
<1> QED
  BY <1>1, <1>3, <1>4, CallEnds DEF Pc

\* A rating changes the scores and nothing else.
LEMMA Rated ==
  ASSUME ServerInv, NEW sender, NEW who \in Account \cup {NoOne}, NEW delta \in {10, -10, 2},
         Rate(sender, who, delta)
  PROVE  Moves /\ RepTyped' /\ req' = req
<1>1. reputation \in [Account \cup {NoOne} -> Int]
  BY DEF ServerInv
<1>2. UNCHANGED contractVars
  BY DEF Rate
<1>3. \/ reputation' = [reputation EXCEPT ![who] = @ + delta]
      \/ reputation' = [reputation EXCEPT ![who] = @ - (-delta)]
  BY DEF Rate, Score!Award, Score!Penalize
<1>4. RepTyped'
  BY <1>1, <1>3 DEF RepTyped
<1> QED
  BY <1>2, <1>4, Still DEF ServerInv, contractVars

\* The three ratings.
LEMMA AwardKeeps ==
  ASSUME ServerInv, NEW h \in Handler, CallAward(h)
  PROVE  ServerInv'
<1>1. At(h, "award") /\ UNCHANGED tasks
  BY DEF CallAward
<1>2. /\ Mine(h).who \in Account \cup {NoOne}
      /\ Reached("award", Mine(h), req[Mine(h).q])
  BY <1>1, Somewhere DEF Pc
<1>3. \/ Rate(Mine(h).acct, Mine(h).who, 10) /\ Continue(h, "awarded")
      \/ Rate(Mine(h).acct, Mine(h).who, 10) /\ Respond(h)
      \/ UNCHANGED chainVars /\ Respond(h)
  BY DEF CallAward, Call
<1>4. Rate(Mine(h).acct, Mine(h).who, 10) =>
        Moves /\ RepTyped' /\ Reached("awarded", Mine(h), req'[Mine(h).q])
  BY <1>2, Rated DEF Reached
<1> QED
  BY <1>1, <1>3, <1>4, CallEnds DEF Pc

LEMMA RateExecutorKeeps ==
  ASSUME ServerInv, NEW h \in Handler, CallRateExecutor(h)
  PROVE  ServerInv'
<1> DEFINE delta == IF Mine(h).passed THEN 10 ELSE -10
<1>1. At(h, "rateExecutor") /\ UNCHANGED tasks
  BY DEF CallRateExecutor
<1>2. /\ Mine(h).who \in Account \cup {NoOne}
      /\ Reached("rateExecutor", Mine(h), req[Mine(h).q])
  BY <1>1, Somewhere DEF Pc
<1>3. \/ Rate(Deployer, Mine(h).who, delta) /\ Continue(h, "rateAuditor")
      \/ Rate(Deployer, Mine(h).who, delta) /\ Respond(h)
      \/ UNCHANGED chainVars /\ Respond(h)
  BY DEF CallRateExecutor, Call
<1>4. delta \in {10, -10, 2}
  OBVIOUS
<1> HIDE DEF delta
<1>5. Rate(Deployer, Mine(h).who, delta) =>
        Moves /\ RepTyped' /\ Reached("rateAuditor", Mine(h), req'[Mine(h).q])
  BY <1>2, <1>4, Rated DEF Reached
<1> QED
  BY <1>1, <1>3, <1>5, CallEnds DEF Pc

LEMMA RateAuditorKeeps ==
  ASSUME ServerInv, NEW h \in Handler, CallRateAuditor(h)
  PROVE  ServerInv'
<1>1. At(h, "rateAuditor") /\ UNCHANGED tasks /\ Respond(h)
  BY DEF CallRateAuditor, LastCall
<1>2. Mine(h).acct \in Account \cup {NoOne}
  BY <1>1, Somewhere DEF Pc
<1>3. Rate(Deployer, Mine(h).acct, 2) \/ UNCHANGED chainVars
  BY DEF CallRateAuditor, LastCall
<1>4. Moves /\ RepTyped'
  BY <1>2, <1>3, Rated, Still DEF ServerInv, chainVars, contractVars, scoreVars, RepTyped
<1> QED
  BY <1>1, <1>4, Responds
\* A contract that was worked on, or is being audited, has an admin for an owner.
LEMMA OwnerIsAdmin ==
  ASSUME ServerInv, NEW q \in Req, req[q].state # "None",
         Worked(req[q]) \/ req[q].state = "Completed"
  PROVE  req[q].owner \in roles["ADMIN"]
BY DEF ServerInv, StorageSound, Fresh, Worked, P!Attempted

\* A handler that writes its own task and goes on to next.
LEMMA WritesOwn ==
  ASSUME ServerInv, UNCHANGED chainVars,
         NEW h \in Handler, NEW pc \in Pc \ {"deploy"}, At(h, pc),
         NEW t \in Task, Update(Mine(h).q, t), TaskSound(t, req[Mine(h).q], roles["ADMIN"]),
         NEW next \in Pc \ {"deploy", "deployed", "completeRequest", "requestAudit"},
         Reached(next, Mine(h), req[Mine(h).q]),
         NEW local \in Local, local.q = Mine(h).q, local.body = Mine(h).body,
         local.acct \in Account,
         Goto(h, next, local)
  PROVE  ServerInv'
<1> DEFINE hd == [pc |-> next, local |-> local]
<1>1. /\ Mine(h) \in Local /\ Mine(h).q \in Req
  BY Somewhere
<1>2. hd.pc = next /\ hd.local = local /\ hd \in [pc : Pc, local : Local]
  OBVIOUS
<1>3. t # NoTask
  BY DEF Task, NoTask, Status
<1>4. HandlerSound(hd, req[Mine(h).q], t)
  BY <1>1, <1>2, <1>3 DEF HandlerSound, Reached
<1>5. handler' = [handler EXCEPT ![h] = hd]
  BY DEF Goto
<1> HIDE DEF hd
<1> QED
  BY <1>1, <1>2, <1>4, <1>5, Writes
\* The code between two awaits, which writes the task.  A waiting task is true of any
\* contract, ...
LEMMA DeployedKeeps ==
  ASSUME ServerInv, NEW h \in Handler, ResumeDeployed(h)
  PROVE  ServerInv'
<1> DEFINE q == Mine(h).q
           t == [status |-> "waiting", owner |-> Mine(h).acct,
                 executor |-> NoOne, auditor |-> NoOne,
                 result |-> Absent, stdout |-> Absent, auditorResult |-> Absent]
<1>1. At(h, "deployed") /\ UNCHANGED chainVars /\ Update(q, t)
  BY DEF ResumeDeployed
<1>2. /\ Mine(h) \in Local /\ q \in Req /\ Mine(h).acct \in Account
      /\ Mine(h).acct = req[q].owner /\ req[q].state # "None"
  BY <1>1, Somewhere DEF Pc, Reached
<1>3. t \in Task /\ TaskSound(t, req[q], roles["ADMIN"])
  BY <1>2 DEF Task, Status, TaskSound
<1> HIDE DEF t
<1>4. PICK seller \in Selectable(SellerIndex, "positive") :
         Goto(h, "appoint", [Mine(h) EXCEPT !.acct = seller])
  BY DEF ResumeDeployed
<1>5. seller \in Account
  BY ServerAssumption DEF Selectable
<1> DEFINE local == [Mine(h) EXCEPT !.acct = seller]
<1>6. /\ local \in Local /\ local.q = q /\ local.body = Mine(h).body /\ local.acct = seller
      /\ Goto(h, "appoint", local)
  BY <1>2, <1>4, <1>5 DEF Local
<1>7. Reached("appoint", Mine(h), req[q])
  BY <1>2 DEF Reached
<1> HIDE DEF local
<1> QED
  BY <1>1, <1>2, <1>3, <1>5, <1>6, <1>7, WritesOwn DEF Pc

\* ... an executor or an auditor written into it changes no status, ...
LEMMA AppointedKeeps ==
  ASSUME ServerInv, NEW h \in Handler, ResumeAppointed(h)
  PROVE  ServerInv'
<1> DEFINE q == Mine(h).q
           t == [TaskOf(h) EXCEPT !.executor = Mine(h).acct]
<1>1. At(h, "appointed") /\ UNCHANGED chainVars /\ Update(q, t) /\ Respond(h)
  BY DEF ResumeAppointed
<1>2. /\ q \in Req /\ Mine(h).acct \in Account
      /\ TaskOf(h) \in Task /\ TaskSound(TaskOf(h), req[q], roles["ADMIN"])
  BY <1>1, Somewhere DEF Pc
<1>3. t \in Task /\ t.status = TaskOf(h).status /\ t.owner = TaskOf(h).owner
  BY <1>2 DEF Task
<1>4. TaskSound(t, req[q], roles["ADMIN"])
  BY <1>2, <1>3 DEF TaskSound, NoTask, Task, Status
<1> HIDE DEF t
<1> QED
  BY <1>1, <1>2, <1>3, <1>4, Writes DEF Respond

LEMMA ClaimKeeps ==
  ASSUME ServerInv, NEW h \in Handler, ResumeClaim(h)
  PROVE  ServerInv'
<1> DEFINE q == Mine(h).q
           t == [TaskOf(h) EXCEPT !.executor = Mine(h).acct]
<1>1. At(h, "claim") /\ UNCHANGED chainVars /\ Update(q, t) /\ Continue(h, "assignResult")
  BY DEF ResumeClaim
<1>2. /\ q \in Req /\ Mine(h) \in Local /\ Mine(h).acct \in Account
      /\ TaskOf(h) \in Task /\ TaskSound(TaskOf(h), req[q], roles["ADMIN"])
      /\ Reached("claim", Mine(h), req[q])
  BY <1>1, Somewhere DEF Pc
<1>3. t \in Task /\ t.status = TaskOf(h).status /\ t.owner = TaskOf(h).owner
  BY <1>2 DEF Task
<1>4. TaskSound(t, req[q], roles["ADMIN"])
  BY <1>2, <1>3 DEF TaskSound, NoTask, Task, Status
<1>5. Reached("assignResult", Mine(h), req[q])
  BY <1>2 DEF Reached
<1> HIDE DEF t
<1> QED
  BY <1>1, <1>2, <1>3, <1>4, <1>5, WritesOwn DEF Continue, Pc

LEMMA StoreAuditKeeps ==
  ASSUME ServerInv, NEW h \in Handler, ResumeStoreAudit(h)
  PROVE  ServerInv'
<1> DEFINE q == Mine(h).q
           t == [TaskOf(h) EXCEPT !.auditor = Mine(h).acct,
                             !.auditorResult = Stored(Mine(h).body)]
<1>1. At(h, "storeAudit") /\ UNCHANGED chainVars
  BY DEF ResumeStoreAudit
<1>2. /\ q \in Req /\ Mine(h) \in Local /\ Mine(h).acct \in Account /\ Mine(h).body \in Body
      /\ TaskOf(h) \in Task /\ TaskSound(TaskOf(h), req[q], roles["ADMIN"])
      /\ Reached("storeAudit", Mine(h), req[q])
  BY <1>1, Somewhere DEF Pc
<1>3. CASE Respond(h) /\ UNCHANGED tasks
  BY <1>1, <1>3, Still, Responds
  DEF ServerInv, chainVars, contractVars, scoreVars, RepTyped
<1>4. CASE Update(q, t) /\ Continue(h, "appointAuditor")
  <2>1. t \in Task /\ t.status = TaskOf(h).status /\ t.owner = TaskOf(h).owner
    BY <1>2, HashedIsText DEF Task
  <2>2. TaskSound(t, req[q], roles["ADMIN"])
    BY <1>2, <2>1 DEF TaskSound, NoTask, Task, Status
  <2>3. Reached("appointAuditor", Mine(h), req[q])
    BY <1>2 DEF Reached
  <2> HIDE DEF t
  <2> QED
    BY <1>1, <1>2, <1>4, <2>1, <2>2, <2>3, WritesOwn DEF Continue, Pc
<1> QED
  BY <1>3, <1>4 DEF ResumeStoreAudit

\* ... and a later status is written when the contract is as far, which it is for tasks
\* of admins only.
LEMMA ResultAssignedKeeps ==
  ASSUME ServerInv, NEW h \in Handler, ResumeResultAssigned(h)
  PROVE  ServerInv'
<1> DEFINE q == Mine(h).q
           t == [TaskOf(h) EXCEPT !.status = "completed",
                             !.result = Stored(Mine(h).body),
                             !.stdout = IF Structured(Mine(h).body)
                                        THEN Mine(h).body.stdout ELSE @]
<1>1. At(h, "resultAssigned") /\ UNCHANGED chainVars /\ Update(q, t) /\ Respond(h)
  BY DEF ResumeResultAssigned
<1>2. /\ q \in Req /\ Mine(h).body \in Body
      /\ TaskOf(h) \in Task /\ TaskOf(h).owner = req[q].owner
      /\ Worked(req[q]) /\ req[q].state # "None"
  BY <1>1, Somewhere DEF Pc, Reached
<1>3. t \in Task /\ t.status = "completed" /\ t.owner = req[q].owner
  BY <1>2, HashedIsText DEF Task, Status
<1>4. TaskSound(t, req[q], roles["ADMIN"])
  BY <1>2, <1>3, OwnerIsAdmin DEF TaskSound
<1> HIDE DEF t
<1> QED
  BY <1>1, <1>2, <1>3, <1>4, Writes DEF Respond

LEMMA RequestCompletedKeeps ==
  ASSUME ServerInv, NEW h \in Handler, ResumeRequestCompleted(h)
  PROVE  ServerInv'
<1> DEFINE q == Mine(h).q
           local == [Mine(h) EXCEPT !.who = TaskOf(h).executor]
           hd == [pc |-> "award", local |-> local]
<1>1. At(h, "requestCompleted") /\ UNCHANGED <<chainVars, tasks>> /\ Goto(h, "award", local)
  BY DEF ResumeRequestCompleted
<1>2. /\ q \in Req /\ Mine(h) \in Local /\ Mine(h).acct \in Account
      /\ TaskOf(h) \in Task /\ TaskOf(h).executor \in Account \cup {NoOne}
      /\ Reached("requestCompleted", Mine(h), req[q])
  BY <1>1, Somewhere DEF Pc, Task
<1>3. local \in Local /\ local.q = q /\ local.acct = Mine(h).acct
  BY <1>2 DEF Local
<1>4. hd.pc = "award" /\ hd.local = local /\ hd \in [pc : Pc, local : Local]
  BY <1>3 DEF Pc
<1>5. tasks[q] # NoTask
  BY <1>2 DEF TaskOf, Task, NoTask, Status
<1>6. HandlerSound(hd, req[q], tasks[q])
  BY <1>2, <1>3, <1>4, <1>5 DEF HandlerSound, Reached
<1>7. Moves /\ RepTyped' /\ req' = req
  BY <1>1, Still DEF ServerInv, chainVars, contractVars, scoreVars, RepTyped
<1> HIDE DEF local
<1> QED
  BY <1>1, <1>3, <1>6, <1>7, Goes

LEMMA AwardedKeeps ==
  ASSUME ServerInv, NEW h \in Handler, ResumeAwarded(h)
  PROVE  ServerInv'
<1> DEFINE q == Mine(h).q
           t == [TaskOf(h) EXCEPT !.status = "finalized"]
<1>1. At(h, "awarded") /\ UNCHANGED chainVars /\ Update(q, t) /\ Respond(h)
  BY DEF ResumeAwarded
<1>2. /\ q \in Req /\ TaskOf(h) \in Task /\ TaskOf(h).owner = req[q].owner
      /\ req[q].state = "Completed"
  BY <1>1, Somewhere DEF Pc, Reached
<1>3. t \in Task /\ t.status = "finalized" /\ t.owner = req[q].owner
  BY <1>2 DEF Task, Status
<1>4. TaskSound(t, req[q], roles["ADMIN"])
  BY <1>2, <1>3, OwnerIsAdmin DEF TaskSound
<1> HIDE DEF t
<1> QED
  BY <1>1, <1>2, <1>3, <1>4, Writes DEF Respond

LEMMA AuditRequestedKeeps ==
  ASSUME ServerInv, NEW h \in Handler, ResumeAuditRequested(h)
  PROVE  ServerInv'
<1> DEFINE q == Mine(h).q
           t == [TaskOf(h) EXCEPT !.status = "audit_requested"]
<1>1. At(h, "auditRequested") /\ UNCHANGED chainVars /\ Update(q, t) /\ Respond(h)
  BY DEF ResumeAuditRequested
<1>2. /\ q \in Req /\ TaskOf(h) \in Task /\ TaskOf(h).owner = req[q].owner
      /\ req[q].auditRequired /\ req[q].state # "None"
  BY <1>1, Somewhere DEF Pc, Reached
<1>3. t \in Task /\ t.status = "audit_requested" /\ t.owner = req[q].owner
  BY <1>2 DEF Task, Status
<1>4. TaskSound(t, req[q], roles["ADMIN"])
  BY <1>2, <1>3, OwnerIsAdmin DEF TaskSound, Worked
<1> HIDE DEF t
<1> QED
  BY <1>1, <1>2, <1>3, <1>4, Writes DEF Respond

LEMMA AuditAssignedKeeps ==
  ASSUME ServerInv, NEW h \in Handler, ResumeAuditAssigned(h)
  PROVE  ServerInv'
<1> DEFINE q == Mine(h).q
           match == ResultsMatch(TaskOf(h), Mine(h).body)
           verdict == IF match THEN "audit_passed" ELSE "audit_failed"
           t == [TaskOf(h) EXCEPT !.status = verdict]
           executor == TaskOf(h).executor
<1>1. /\ At(h, "auditAssigned") /\ UNCHANGED chainVars /\ Update(q, t)
      /\ Goto(h, "rateExecutor", [Mine(h) EXCEPT !.who = executor, !.passed = match])
  BY DEF ResumeAuditAssigned
<1>2. /\ q \in Req /\ Mine(h) \in Local /\ Mine(h).acct \in Account
      /\ TaskOf(h) \in Task /\ TaskOf(h).owner = req[q].owner
      /\ executor \in Account \cup {NoOne}
      /\ Reached("auditAssigned", Mine(h), req[q])
  BY <1>1, Somewhere DEF Pc, Task
<1>3. match \in BOOLEAN
  BY DEF ResultsMatch
<1> HIDE DEF match
<1>4. t \in Task /\ t.status \in {"audit_passed", "audit_failed"} /\ t.owner = req[q].owner
  BY <1>2 DEF Task, Status
<1>5. Answered(req[q]) /\ req[q].state # "None"
  BY <1>2 DEF Reached
<1>6. TaskSound(t, req[q], roles["ADMIN"])
  BY <1>2, <1>4, <1>5, OwnerIsAdmin DEF TaskSound, Worked, Answered
<1>7. Reached("rateExecutor", Mine(h), req[q])
  BY <1>5 DEF Reached
<1> DEFINE local == [Mine(h) EXCEPT !.who = executor, !.passed = match]
<1>8. /\ local \in Local /\ local.q = q /\ local.body = Mine(h).body
      /\ local.acct = Mine(h).acct
  BY <1>2, <1>3 DEF Local
<1>9. Goto(h, "rateExecutor", local)
  BY <1>1
<1> HIDE DEF t, local
<1> QED
  BY <1>1, <1>2, <1>4, <1>6, <1>7, <1>8, <1>9, WritesOwn DEF Pc
-----------------------------------------------------------------------------
(* The invariant.                                                          *)

\* At first there is no task and no handler is busy.
LEMMA InvAtInit == Init => ServerInv
<1> SUFFICES ASSUME Init PROVE ServerInv
  OBVIOUS
<1>1. P!R!TypeOK
  BY ServerAssumption
  DEF Init, P!R!TypeOK, P!R!Role, P!R!Address, C!R!Role
<1>2. P!Tax!TypeOK /\ P!Tax!BooksMatchBalance
  BY ServerAssumption DEF Init, C!Tax!Init, P!Tax!TypeOK, P!Tax!BooksMatchBalance
<1>3. C!Empty = P!Empty
  BY DEF C!Empty, P!Empty
<1>4. req \in [Req -> P!Storage] /\ \A q \in Req : req[q] = P!Empty /\ P!Sound(req[q])
  BY <1>3, P!EmptySound, Assumed DEF Init, P!RequestAssumption, P!R!Address, P!R!Role
<1>5. wallet \in [P!Address -> Int]
  BY DEF Init, P!Address
<1>6. P!Inv
  BY <1>1, <1>2, <1>4, <1>5 DEF P!Inv, P!TypeOK
<1>7. reputation \in [Account \cup {NoOne} -> Int]
  BY DEF Init, Score!ScoreInit, Score!Address
<1>8. P!Empty.state = "None"
  BY DEF P!Empty
<1>9. /\ tasks \in [Req -> Task \cup {NoTask}]
      /\ handler \in [Handler -> {Idle} \cup [pc : Pc, local : Local]]
      /\ \A q \in Req : tasks[q] = NoTask
      /\ \A h \in Handler : handler[h] = Idle
  BY DEF Init
<1> QED
  BY <1>4, <1>6, <1>7, <1>8, <1>9 DEF ServerInv, StorageSound, TaskSound

\* Whatever a handler does next, ...
LEMMA ProceedKeeps ==
  ASSUME ServerInv, NEW h \in Handler, Proceed(h)
  PROVE  ServerInv'
BY DeployKeeps, DeployedKeeps, AppointExecutorKeeps, AppointedKeeps, ClaimKeeps,
   AssignResultKeeps, ResultAssignedKeeps, CompleteRequestKeeps, RequestCompletedKeeps,
   AwardKeeps, AwardedKeeps, RequestAuditKeeps, AuditRequestedKeeps, StoreAuditKeeps,
   AppointAuditorKeeps, AssignAuditResultKeeps, AuditAssignedKeeps, RateExecutorKeeps,
   RateAuditorKeeps
DEF Proceed

\* ... and whatever else happens, the server stays sound.
LEMMA InvKept == ServerInv /\ [Next]_vars => ServerInv'
<1> SUFFICES ASSUME ServerInv, [Next]_vars PROVE ServerInv'
  OBVIOUS
<1>1. ASSUME NEW h \in Handler, Request(h) \/ Proceed(h) PROVE ServerInv'
  BY <1>1, RequestKeeps, ProceedKeeps
<1>2. ASSUME NEW q \in Req, AuthorizeScript(q) PROVE ServerInv'
  <2>1. /\ C!Tax!AuthorizeRequest(q, TRUE)
        /\ UNCHANGED <<roles, rolesOwner, req, wallet, scoreVars, tasks, handler>>
    BY <1>2 DEF AuthorizeScript
  <2>2. P!Inv'
    BY <2>1, AuthorizeMoves DEF ServerInv, Moves
  <2> QED
    BY <2>1, <2>2 DEF ServerInv, scoreVars
<1>3. ASSUME Restart PROVE ServerInv'
  <2>1. /\ P!Inv' /\ UNCHANGED chainVars
        /\ tasks' = [q \in Req |-> NoTask] /\ handler' = [h \in Handler |-> Idle]
    BY <1>3, Still DEF Restart, ServerInv, Moves, chainVars
  <2> QED
    BY <2>1 DEF ServerInv, TaskSound, chainVars, contractVars, scoreVars
<1>4. ASSUME UNCHANGED vars PROVE ServerInv'
  <2>1. P!Inv'
    BY <1>4, Still DEF vars, chainVars, ServerInv, Moves
  <2> QED
    BY <1>4, <2>1 DEF ServerInv, vars, chainVars, contractVars, scoreVars
<1> QED
  BY <1>1, <1>2, <1>3, <1>4 DEF Next

\* Whatever users ask for, at whatever time, and whatever fails: the contracts are sound,
\* no task shows more than its contract has reached, and every handler goes on from
\* where it thinks it is.
THEOREM ServerInvHolds == Spec => []ServerInv
BY InvAtInit, InvKept, PTL DEF Spec

-----------------------------------------------------------------------------
(* What ServerInv is for.                                                  *)

\* The types of the tasks and the handlers, and of the contracts behind them.
THEOREM ServerTyped == Spec => []TypeOK
<1>1. ServerInv => TypeOK
  <2> SUFFICES ASSUME ServerInv PROVE TypeOK
    OBVIOUS
  <2>1. P!TypeOK
    BY DEF ServerInv, P!Inv
  <2>2. C!TypeOK
    BY <2>1 DEF C!TypeOK, P!TypeOK, C!R!TypeOK, P!R!TypeOK, C!R!Role, P!R!Role,
                C!R!Address, P!R!Address, C!Tax!TypeOK, P!Tax!TypeOK, C!Storage, P!Storage,
                C!State, P!State, C!Address, P!Address, C!AnyHash, P!AnyHash
  <2>3. \A h \in Handler : handler[h] = Idle \/ handler[h] \in [pc : Pc, local : Local]
    BY DEF ServerInv
  <2> QED
    BY <2>2, <2>3 DEF ServerInv, TypeOK
<1> QED
  BY <1>1, ServerInvHolds, PTL

\* No status is ahead of the chain, for any number of overlapping handlers, of tasks and
\* of accounts, with calls that fail, receipts that get lost and restarts.
THEOREM StatusesAreOnChain == Spec => []StatusIsOnChain
<1>1. ServerInv => StatusIsOnChain
  <2> SUFFICES ASSUME ServerInv, NEW q \in Req
               PROVE  /\ HasStatus(q, "waiting") => ~C!InState(q, "None")
                      /\ HasStatus(q, "completed") => Worked(req[q])
                      /\ HasStatus(q, "audit_requested") => req[q].auditRequired
                      /\ tasks[q].status \in {"audit_passed", "audit_failed"} => Answered(req[q])
                      /\ HasStatus(q, "finalized") => C!InState(q, "Completed")
    BY DEF StatusIsOnChain, Worked, Answered, C!AuditAnswered, C!InState, C!Attempted,
           P!Attempted
  <2>1. TaskSound(tasks[q], req[q], roles["ADMIN"])
    BY DEF ServerInv
  <2> QED
    BY <2>1 DEF TaskSound, NoTask, HasStatus, C!InState
<1> QED
  BY <1>1, ServerInvHolds, PTL

\* The contracts hold the price that was named, and accept every payment the server
\* makes out of a price, whatever the price.
THEOREM PricesAreEscrowed == Spec => []PriceIsEscrowed
<1>1. ServerInv => PriceIsEscrowed
  <2> SUFFICES ASSUME ServerInv, NEW q \in Req
               PROVE  /\ ~C!InState(q, "None") => req[q].cost \in Price
                      /\ \A h \in Handler, price \in Price \ {0} :
                            At(h, "deploy") /\ C!InState(q, "None")
                              /\ C!R!HasRole("BUYER", Mine(h).acct) =>
                            C!CanDeploy(Mine(h).acct, q, Pay!TotalPayment(price),
                                        Pay!ActualEscrow(price))
    BY DEF PriceIsEscrowed
  <2>1. ~C!InState(q, "None") => req[q].cost \in Price
    BY DEF ServerInv, StorageSound, C!InState
  <2>2. ASSUME NEW price \in Price \ {0}
        PROVE  /\ Pay!TotalPayment(price) > 0
               /\ Pay!ActualEscrow(price) = C!Pay!EscrowOf(Pay!TotalPayment(price))
    <3>1. price \in Nat /\ price > 0
      BY ServerAssumption
    <3> QED
      BY <3>1, Wei DEF Pay!ActualEscrow, Pay!EscrowOf, C!Pay!EscrowOf
  <2> QED
    BY <2>1, <2>2 DEF C!CanDeploy
<1> QED
  BY <1>1, ServerInvHolds, PTL

\* What an account without ADMIN buys stays as it was deployed, whoever asks the server
\* for what.
THEOREM NoRightsAreLent == Spec => []NoRightsLent
<1>1. ServerInv => NoRightsLent
  <2> SUFFICES ASSUME ServerInv, NEW q \in Req,
                      ~C!InState(q, "None"), ~C!R!IsAdmin(req[q].owner)
               PROVE  C!InState(q, "Created") /\ (tasks[q] = NoTask \/ HasStatus(q, "waiting"))
    BY DEF NoRightsLent
  <2>1. StorageSound(req[q], roles["ADMIN"]) /\ TaskSound(tasks[q], req[q], roles["ADMIN"])
    BY DEF ServerInv
  <2>2. req[q].state # "None" /\ req[q].owner \notin roles["ADMIN"]
    BY DEF C!InState, C!R!IsAdmin, C!R!HasRole
  <2> QED
    BY <2>1, <2>2 DEF StorageSound, Fresh, TaskSound, HasStatus, C!InState
<1> QED
  BY <1>1, ServerInvHolds, PTL

\* The contracts keep their promises behind the server: the escrow is whole until it is
\* paid, and it is paid for a result that no audit rejects.
THEOREM MoneyIsSafeBehindServer == Spec => [](C!EscrowBacked /\ C!PaidForAcceptedResult)
<1>1. ServerInv => C!EscrowBacked /\ C!PaidForAcceptedResult
  <2>1. P!Inv => P!EscrowBacked /\ P!PaidForAcceptedResult
    BY P!InvImplies, Assumed DEF P!RequestAssumption, P!R!Address, P!R!Role
  <2>2. P!EscrowBacked => C!EscrowBacked
    BY DEF P!EscrowBacked, C!EscrowBacked, P!InState, C!InState
  <2>3. P!PaidForAcceptedResult => C!PaidForAcceptedResult
    BY DEF P!PaidForAcceptedResult, C!PaidForAcceptedResult, P!InState, C!InState
  <2> QED
    BY <2>1, <2>2, <2>3 DEF ServerInv
<1> QED
  BY <1>1, ServerInvHolds, PTL

-----------------------------------------------------------------------------
(* Ratings: who has one to send, and which have been sent.                 *)

\* Where a handler still has a rating to send: for a payment, for an executor's audit,
\* and for an auditor.
ToAward == {"requestCompleted", "award"}
ToJudge == {"auditAssigned", "rateExecutor"}
ToThank == {"auditAssigned", "rateExecutor", "rateAuditor"}

Owed(pcs, q) == \E h \in Handler : handler[h].pc \in pcs /\ handler[h].local.q = q

\* The tasks a rating may have been sent for: the call before it has passed, and no
\* handler has yet to send it.
Awarded == {q \in Req : req[q].state = "Completed" /\ ~Owed(ToAward, q)}
Judged == {q \in Req : Answered(req[q]) /\ ~Owed(ToJudge, q)}
Thanked == {q \in Req : Answered(req[q]) /\ ~Owed(ToThank, q)}

\* No two handlers have the same rating to send.
Alone(pcs) ==
    \A h, g \in Handler :
        /\ handler[h].pc \in pcs /\ handler[g].pc \in pcs
        /\ handler[h].local.q = handler[g].local.q
        => h = g

\* A score is made of ratings that have been sent.
Earned(a) ==
    /\ reputation[a] <= 10 * Cardinality(Awarded) + 10 * Cardinality(Judged)
                          + 2 * Cardinality(Thanked)
    /\ -(10 * Cardinality(Judged)) <= reputation[a]

RatingInv ==
    /\ ServerInv
    /\ Alone(ToAward) /\ Alone(ToThank)
    /\ \A a \in Account : Earned(a)

\* What a handler with a rating to send has seen: the payment, or the answer.
LEMMA Seen ==
  ASSUME ServerInv, NEW g \in Handler
  PROVE  /\ handler[g].pc \in ToAward =>
               handler[g].local.q \in Req /\ req[handler[g].local.q].state = "Completed"
         /\ handler[g].pc \in ToThank =>
               handler[g].local.q \in Req /\ Answered(req[handler[g].local.q])
<1>1. handler[g].pc \in ToAward \cup ToThank =>
         HandlerSound(handler[g], req[handler[g].local.q], tasks[handler[g].local.q])
  BY DEF ServerInv, Idle, ToAward, ToThank
<1> QED
  BY <1>1 DEF HandlerSound, Reached, Local, ToAward, ToThank

\* A step of one handler, which takes on the rating of a task only by the call that the
\* contract lets pass once.
Orderly(h) ==
    /\ \A g \in Handler : g # h => handler'[g] = handler[g]
    /\ handler'[h].pc \in ToAward =>
          \/ handler[h].pc \in ToAward /\ handler'[h].local.q = handler[h].local.q
          \/ req[handler'[h].local.q].state # "Completed"
    /\ handler'[h].pc \in ToJudge =>
          \/ handler[h].pc \in ToJudge /\ handler'[h].local.q = handler[h].local.q
          \/ ~Answered(req[handler'[h].local.q])
    /\ handler'[h].pc \in ToThank =>
          \/ handler[h].pc \in ToThank /\ handler'[h].local.q = handler[h].local.q
          \/ ~Answered(req[handler'[h].local.q])

\* No rating is owed again, ...
Grows == Awarded \subseteq Awarded' /\ Judged \subseteq Judged' /\ Thanked \subseteq Thanked'

\* ... or by two.
Apart == Alone(ToAward) /\ Alone(ToThank)

LEMMA OrderlyKeeps ==
  ASSUME ServerInv, Apart, Moves, NEW h \in Handler, Orderly(h)
  PROVE  Grows /\ Apart'
<1>1. ASSUME NEW q \in Req, q \in Awarded PROVE q \in Awarded'
  <2>1. req[q].state = "Completed" /\ ~Owed(ToAward, q)
    BY <1>1 DEF Awarded
  <2>2. req'[q].state = "Completed"
    BY <2>1 DEF Moves, Progress
  <2>3. ~Owed(ToAward, q)'
    BY <2>1 DEF Owed, Orderly
  <2> QED
    BY <2>2, <2>3 DEF Awarded
<1>2. ASSUME NEW q \in Req, q \in Judged PROVE q \in Judged'
  <2>1. Answered(req[q]) /\ ~Owed(ToJudge, q)
    BY <1>2 DEF Judged
  <2>2. Answered(req'[q])
    BY <2>1 DEF Moves, Progress
  <2>3. ~Owed(ToJudge, q)'
    BY <2>1 DEF Owed, Orderly
  <2> QED
    BY <2>2, <2>3 DEF Judged
<1>3. ASSUME NEW q \in Req, q \in Thanked PROVE q \in Thanked'
  <2>1. Answered(req[q]) /\ ~Owed(ToThank, q)
    BY <1>3 DEF Thanked
  <2>2. Answered(req'[q])
    BY <2>1 DEF Moves, Progress
  <2>3. ~Owed(ToThank, q)'
    BY <2>1 DEF Owed, Orderly
  <2> QED
    BY <2>2, <2>3 DEF Thanked
<1>4. Alone(ToAward)'
  BY Seen DEF Apart, Alone, Orderly
<1>5. Alone(ToThank)'
  BY Seen DEF Apart, Alone, Orderly
<1>6. /\ Awarded \subseteq Req /\ Judged \subseteq Req /\ Thanked \subseteq Req
  BY DEF Awarded, Judged, Thanked
<1> QED
  BY <1>1, <1>2, <1>3, <1>4, <1>5, <1>6 DEF Grows, Apart

\* A handler that goes where no rating is to be sent, or answers.
LEMMA ElsewhereIsOrderly ==
  ASSUME ServerInv, NEW h \in Handler, NEW hd, handler' = [handler EXCEPT ![h] = hd],
         hd.pc \notin ToAward \cup ToThank
  PROVE  Orderly(h)
BY DEF ServerInv, Orderly, ToAward, ToJudge, ToThank

LEMMA AnswerIsOrderly ==
  ASSUME ServerInv, NEW h \in Handler, Respond(h)
  PROVE  Orderly(h)
BY ElsewhereIsOrderly DEF Respond, Idle, ToAward, ToThank

LEMMA GoIsOrderly ==
  ASSUME ServerInv, NEW h \in Handler, NEW pc, NEW local, Goto(h, pc, local),
         pc \notin ToAward \cup ToThank
  PROVE  Orderly(h)
BY ElsewhereIsOrderly DEF Goto

-----------------------------------------------------------------------------
(* Every step but a rating rates nobody.                                   *)

\* A step of one handler that rates nobody.
Quiet(h) == Moves /\ Orderly(h) /\ reputation' = reputation

LEMMA StillIsQuiet ==
  ASSUME ServerInv, UNCHANGED chainVars, NEW h \in Handler, Orderly(h)
  PROVE  Quiet(h)
BY Still DEF ServerInv, Quiet, chainVars, contractVars, scoreVars

LEMMA RequestIsQuiet ==
  ASSUME ServerInv, NEW h \in Handler, Request(h)
  PROVE  Quiet(h)
<1>1. ASSUME NEW q, NEW acct, NEW body,
             NEW pc \in {"deploy", "appoint", "claim", "assignResult", "completeRequest",
                         "requestAudit", "storeAudit"},
             Start(h, q, pc, acct, body)
      PROVE  Quiet(h)
  BY <1>1, GoIsOrderly, StillIsQuiet DEF Start, ToAward, ToThank
<1> QED
  BY <1>1 DEF Request, StartCreate, StartAssign, StartAutoAssign, StartComplete, StartFinalize,
              StartRequestAudit, StartSubmitAudit

\* Between two awaits the chain stays; ratings of the same task are passed on.
LEMMA ResumeIsQuiet ==
  ASSUME ServerInv, NEW h \in Handler,
         \/ ResumeDeployed(h) \/ ResumeAppointed(h) \/ ResumeClaim(h)
         \/ ResumeResultAssigned(h) \/ ResumeRequestCompleted(h) \/ ResumeAwarded(h)
         \/ ResumeAuditRequested(h) \/ ResumeStoreAudit(h) \/ ResumeAuditAssigned(h)
  PROVE  Quiet(h)
<1>1. UNCHANGED chainVars
  BY DEF ResumeDeployed, ResumeAppointed, ResumeClaim, ResumeResultAssigned,
         ResumeRequestCompleted, ResumeAwarded, ResumeAuditRequested, ResumeStoreAudit,
         ResumeAuditAssigned
<1>2. ASSUME NEW pc \in {"appoint", "assignResult", "appointAuditor"}, NEW local,
             Goto(h, pc, local)
      PROVE  Orderly(h)
  BY <1>2, GoIsOrderly DEF ToAward, ToThank
<1>3. ResumeDeployed(h) \/ ResumeClaim(h) \/ ResumeStoreAudit(h) => Orderly(h)
  BY <1>2, AnswerIsOrderly DEF ResumeDeployed, ResumeClaim, ResumeStoreAudit, Continue
<1>4. ResumeAppointed(h) \/ ResumeResultAssigned(h) \/ ResumeAwarded(h) \/ ResumeAuditRequested(h)
        => Orderly(h)
  BY AnswerIsOrderly DEF ResumeAppointed, ResumeResultAssigned, ResumeAwarded,
                         ResumeAuditRequested
<1>5. ASSUME ResumeRequestCompleted(h) PROVE Orderly(h)
  <2> DEFINE local == [Mine(h) EXCEPT !.who = TaskOf(h).executor]
  <2>1. At(h, "requestCompleted") /\ Goto(h, "award", local)
    BY <1>5 DEF ResumeRequestCompleted
  <2>2. local.q = handler[h].local.q
    BY <2>1, Somewhere DEF Pc, Local, Mine
  <2> HIDE DEF local
  <2> QED
    BY <2>1, <2>2 DEF ServerInv, At, Goto, Orderly, ToAward, ToJudge, ToThank
<1>6. ASSUME ResumeAuditAssigned(h) PROVE Orderly(h)
  <2> DEFINE match == ResultsMatch(TaskOf(h), Mine(h).body)
             local == [Mine(h) EXCEPT !.who = TaskOf(h).executor, !.passed = match]
  <2>1. At(h, "auditAssigned") /\ Goto(h, "rateExecutor", local)
    BY <1>6 DEF ResumeAuditAssigned
  <2> HIDE DEF match
  <2>2. local.q = handler[h].local.q
    BY <2>1, Somewhere DEF Pc, Local, Mine
  <2> HIDE DEF local
  <2> QED
    BY <2>1, <2>2 DEF ServerInv, At, Goto, Orderly, ToAward, ToJudge, ToThank
<1> QED
  BY <1>1, <1>3, <1>4, <1>5, <1>6, StillIsQuiet

\* The calls before a payment or an answer, ...
LEMMA CallIsQuiet ==
  ASSUME ServerInv, NEW h \in Handler,
         \/ \E price \in Price : CallDeploy(h, price)
         \/ CallAppointExecutor(h) \/ CallAssignResult(h) \/ CallRequestAudit(h)
         \/ CallAppointAuditor(h)
  PROVE  Quiet(h)
<1>1. ASSUME NEW pc \in {"deployed", "appointed", "resultAssigned", "auditRequested",
                         "assignAuditResult"},
             Respond(h) \/ Continue(h, pc)
      PROVE  Orderly(h)
  BY <1>1, AnswerIsOrderly, GoIsOrderly DEF Continue, ToAward, ToThank
<1>2. ASSUME Orderly(h), UNCHANGED scoreVars, Moves PROVE Quiet(h)
  BY <1>2 DEF Quiet, scoreVars
<1>3. ASSUME NEW price \in Price, CallDeploy(h, price) PROVE Quiet(h)
  <2>1. Mine(h).q \in Req /\ Mine(h).acct \in Account
    BY <1>3, Somewhere DEF CallDeploy, Pc
  <2>2. Orderly(h)
    BY <1>1, <1>3 DEF CallDeploy, Call
  <2>3. \/ UNCHANGED chainVars
        \/ /\ C!Deploy(Mine(h).acct, Mine(h).q, Pay!TotalPayment(price), Pay!ActualEscrow(price))
           /\ UNCHANGED scoreVars
    BY <1>3 DEF CallDeploy, Call
  <2> QED
    BY <1>2, <2>1, <2>2, <2>3, DeployMoves, StillIsQuiet DEF ServerInv
<1>4. ASSUME CallAppointExecutor(h) PROVE Quiet(h)
  <2>1. Mine(h).q \in Req /\ Mine(h).acct \in Account /\ TaskOf(h).owner \in Account
        /\ TaskOf(h).owner = req[Mine(h).q].owner
    BY <1>4, Somewhere DEF CallAppointExecutor, Pc
  <2>2. Orderly(h)
    BY <1>1, <1>4 DEF CallAppointExecutor, Call
  <2>3. \/ UNCHANGED chainVars
        \/ C!AppointExecutor(TaskOf(h).owner, Mine(h).q, Mine(h).acct) /\ UNCHANGED scoreVars
    BY <1>4 DEF CallAppointExecutor, Call, TaskOf
  <2> QED
    BY <1>2, <2>1, <2>2, <2>3, AppointExecutorMoves, StillIsQuiet DEF ServerInv
<1>5. ASSUME CallAssignResult(h) PROVE Quiet(h)
  <2>1. Mine(h).q \in Req /\ Mine(h).acct \in Account /\ Hashed(Mine(h).body) \in Text
    BY <1>5, Somewhere DEF CallAssignResult, Pc
  <2>2. Orderly(h)
    BY <1>1, <1>5 DEF CallAssignResult, Call
  <2>3. \/ UNCHANGED chainVars
        \/ C!AssignResult(Mine(h).acct, Mine(h).q, HashOf(Hashed(Mine(h).body))) /\ UNCHANGED scoreVars
    BY <1>5 DEF CallAssignResult, Call
  <2> QED
    BY <1>2, <2>1, <2>2, <2>3, AssignResultMoves, StillIsQuiet DEF ServerInv
<1>6. ASSUME CallRequestAudit(h) PROVE Quiet(h)
  <2>1. Mine(h).q \in Req /\ Mine(h).acct \in Account
    BY <1>6, Somewhere DEF CallRequestAudit, Pc
  <2>2. Orderly(h)
    BY <1>1, <1>6 DEF CallRequestAudit, Call
  <2>3. \/ UNCHANGED chainVars
        \/ C!RequestAudit(Mine(h).acct, Mine(h).q) /\ UNCHANGED scoreVars
    BY <1>6 DEF CallRequestAudit, Call
  <2> QED
    BY <1>2, <2>1, <2>2, <2>3, RequestAuditMoves, StillIsQuiet DEF ServerInv
<1>7. ASSUME CallAppointAuditor(h) PROVE Quiet(h)
  <2>1. Mine(h).q \in Req /\ Mine(h).acct \in Account /\ TaskOf(h).owner \in Account
    BY <1>7, Somewhere DEF CallAppointAuditor, Pc
  <2>2. Orderly(h)
    BY <1>1, <1>7 DEF CallAppointAuditor, Call
  <2>3. \/ UNCHANGED chainVars
        \/ C!AppointAuditor(TaskOf(h).owner, Mine(h).q, Mine(h).acct) /\ UNCHANGED scoreVars
    BY <1>7 DEF CallAppointAuditor, Call, TaskOf
  <2> QED
    BY <1>2, <2>1, <2>2, <2>3, AppointAuditorMoves, StillIsQuiet DEF ServerInv
<1> QED
  BY <1>3, <1>4, <1>5, <1>6, <1>7

\* ... the payment, which passes once because the request is completed by it, ...
LEMMA CompleteIsQuiet ==
  ASSUME ServerInv, NEW h \in Handler, CallCompleteRequest(h)
  PROVE  Quiet(h)
<1> DEFINE q == Mine(h).q
<1>1. Mine(h) \in Local /\ q \in Req /\ Mine(h).acct \in Account
  BY Somewhere DEF CallCompleteRequest, Pc
<1>2. \/ /\ C!CompleteRequest(Mine(h).acct, q) /\ UNCHANGED scoreVars
         /\ Respond(h) \/ Continue(h, "requestCompleted")
      \/ UNCHANGED chainVars /\ Respond(h)
  BY DEF CallCompleteRequest, Call
<1>3. CASE UNCHANGED chainVars /\ Respond(h)
  BY <1>3, AnswerIsOrderly, StillIsQuiet
<1>4. CASE /\ C!CompleteRequest(Mine(h).acct, q) /\ UNCHANGED scoreVars
           /\ Respond(h) \/ Continue(h, "requestCompleted")
  <2>1. Moves
    BY <1>1, <1>4, CompleteRequestMoves DEF ServerInv
  <2>2. req[q].state # "Completed"
    BY <1>4 DEF C!CompleteRequest, C!CanCompleteRequest
  <2>3. Continue(h, "requestCompleted") => Orderly(h)
    BY <2>2 DEF ServerInv, Continue, Goto, Orderly, ToAward, ToJudge, ToThank
  <2> QED
    BY <1>4, <2>1, <2>3, AnswerIsOrderly DEF Quiet, scoreVars
<1> QED
  BY <1>2, <1>3, <1>4

\* ... and the answer of an audit, which was not answered before.
LEMMA AnswerAuditIsQuiet ==
  ASSUME ServerInv, NEW h \in Handler, CallAssignAuditResult(h)
  PROVE  Quiet(h)
<1> DEFINE q == Mine(h).q
<1>1. Mine(h) \in Local /\ q \in Req /\ Mine(h).acct \in Account /\ Hashed(Mine(h).body) \in Text
  BY Somewhere DEF CallAssignAuditResult, Pc
<1>2. \/ /\ C!AssignAuditResult(Mine(h).acct, q, HashOf(Hashed(Mine(h).body))) /\ UNCHANGED scoreVars
         /\ Respond(h) \/ Continue(h, "auditAssigned")
      \/ UNCHANGED chainVars /\ Respond(h)
  BY DEF CallAssignAuditResult, Call
<1>3. CASE UNCHANGED chainVars /\ Respond(h)
  BY <1>3, AnswerIsOrderly, StillIsQuiet
<1>4. CASE /\ C!AssignAuditResult(Mine(h).acct, q, HashOf(Hashed(Mine(h).body))) /\ UNCHANGED scoreVars
           /\ Respond(h) \/ Continue(h, "auditAssigned")
  <2>1. Moves
    BY <1>1, <1>4, AssignAuditResultMoves DEF ServerInv
  <2>2. ~Answered(req[q])
    BY <1>4 DEF C!AssignAuditResult, C!CanAssignAuditResult, C!InState, Answered
  <2>3. Continue(h, "auditAssigned") => Orderly(h)
    BY <2>2 DEF ServerInv, Continue, Goto, Orderly, ToAward, ToJudge, ToThank
  <2> QED
    BY <1>4, <2>1, <2>3, AnswerIsOrderly DEF Quiet, scoreVars
<1> QED
  BY <1>2, <1>3, <1>4

-----------------------------------------------------------------------------
(* Counting the ratings sent.                                              *)

\* More tasks are not fewer, and one more if one is new.
LEMMA Counted ==
  ASSUME NEW S \in SUBSET Req, NEW T \in SUBSET Req, S \subseteq T, IsFiniteSet(Req)
  PROVE  /\ Cardinality(S) \in Nat /\ Cardinality(T) \in Nat
         /\ Cardinality(S) <= Cardinality(T)
         /\ S # T => Cardinality(S) + 1 <= Cardinality(T)
<1>1. IsFiniteSet(S) /\ IsFiniteSet(T)
  BY FS_Subset
<1>2. /\ Cardinality(S) \in Nat /\ Cardinality(T) \in Nat
      /\ Cardinality(S) <= Cardinality(T)
      /\ S # T => Cardinality(S) < Cardinality(T)
  BY <1>1, FS_Subset, FS_CardinalityType
<1> QED
  BY <1>2

LEMMA Ratings == Awarded \in SUBSET Req /\ Judged \in SUBSET Req /\ Thanked \in SUBSET Req
BY DEF Awarded, Judged, Thanked

\* A score keeps to its bounds when nobody is rated, and when the task that is rated was
\* not yet counted.
LEMMA Earns ==
  ASSUME RepTyped, RepTyped', Grows, IsFiniteSet(Req),
         \A a \in Account : Earned(a),
         \/ reputation' = reputation
         \/ /\ Awarded # Awarded'
            /\ \A a \in Account : reputation'[a] \in {reputation[a], reputation[a] + 10}
         \/ /\ Judged # Judged'
            /\ \A a \in Account :
                  reputation'[a] \in {reputation[a], reputation[a] + 10, reputation[a] - 10}
         \/ /\ Thanked # Thanked'
            /\ \A a \in Account : reputation'[a] \in {reputation[a], reputation[a] + 2}
  PROVE  \A a \in Account : Earned(a)'
<1> SUFFICES ASSUME NEW a \in Account PROVE Earned(a)'
  OBVIOUS
<1> DEFINE A == Cardinality(Awarded)
           J == Cardinality(Judged)
           T == Cardinality(Thanked)
<1>1. /\ A \in Nat /\ A' \in Nat /\ A <= A' /\ (Awarded # Awarded' => A + 1 <= A')
      /\ J \in Nat /\ J' \in Nat /\ J <= J' /\ (Judged # Judged' => J + 1 <= J')
      /\ T \in Nat /\ T' \in Nat /\ T <= T' /\ (Thanked # Thanked' => T + 1 <= T')
  <2>1. /\ Awarded' \in SUBSET Req /\ Judged' \in SUBSET Req /\ Thanked' \in SUBSET Req
    BY DEF Awarded, Judged, Thanked
  <2>2. A \in Nat /\ A' \in Nat /\ A <= A' /\ (Awarded # Awarded' => A + 1 <= A')
    BY <2>1, Ratings, Counted DEF Grows
  <2>3. J \in Nat /\ J' \in Nat /\ J <= J' /\ (Judged # Judged' => J + 1 <= J')
    BY <2>1, Ratings, Counted DEF Grows
  <2>4. T \in Nat /\ T' \in Nat /\ T <= T' /\ (Thanked # Thanked' => T + 1 <= T')
    BY <2>1, Ratings, Counted DEF Grows
  <2> QED
    BY <2>2, <2>3, <2>4
<1>2. reputation[a] \in Int /\ reputation'[a] \in Int
  BY DEF RepTyped
<1>3. reputation[a] <= 10 * A + 10 * J + 2 * T /\ -(10 * J) <= reputation[a]
  BY DEF Earned
<1> HIDE DEF A, J, T
<1>4. reputation'[a] <= 10 * A' + 10 * J' + 2 * T' /\ -(10 * J') <= reputation'[a]
  BY <1>1, <1>2, <1>3
<1> QED
  BY <1>4 DEF Earned, A, J, T

\* A step that rates nobody keeps the invariant.
LEMMA QuietKeeps ==
  ASSUME RatingInv, IsFiniteSet(Req), NEW h \in Handler, Quiet(h), ServerInv'
  PROVE  RatingInv'
<1>1. Grows /\ Apart'
  BY OrderlyKeeps DEF RatingInv, Quiet, Apart
<1>2. \A a \in Account : Earned(a)'
  BY <1>1, Earns DEF RatingInv, Quiet, ServerInv, RepTyped
<1> QED
  BY <1>1, <1>2 DEF RatingInv, Apart

\* A rating that is sent is not owed any more.
LEMMA RatingIsSent ==
  ASSUME ServerInv, Apart, Moves, req' = req, NEW h \in Handler, NEW hd,
         handler' = [handler EXCEPT ![h] = hd], NEW q, q = handler[h].local.q
  PROVE  /\ handler[h].pc \in ToAward /\ hd.pc \notin ToAward => Awarded # Awarded'
         /\ handler[h].pc \in ToJudge /\ hd.pc \notin ToJudge => Judged # Judged'
         /\ handler[h].pc \in ToThank /\ hd.pc \notin ToThank => Thanked # Thanked'
<1>1. handler'[h] = hd /\ \A g \in Handler : g # h => handler'[g] = handler[g]
  BY DEF ServerInv
<1>2. ASSUME handler[h].pc \in ToAward, hd.pc \notin ToAward PROVE Awarded # Awarded'
  <2>1. q \in Req /\ req'[q].state = "Completed"
    BY <1>2, Seen
  <2>2. q \notin Awarded
    BY <1>2 DEF Awarded, Owed
  <2>3. ~Owed(ToAward, q)'
    BY <1>1, <1>2 DEF Owed, Apart, Alone
  <2>4. q \in Awarded'
    BY <2>1, <2>3 DEF Awarded
  <2> QED
    BY <2>2, <2>4
<1>3. ASSUME handler[h].pc \in ToJudge, hd.pc \notin ToJudge PROVE Judged # Judged'
  <2>1. q \in Req /\ Answered(req'[q])
    BY <1>3, Seen DEF ToJudge, ToThank
  <2>2. q \notin Judged
    BY <1>3 DEF Judged, Owed
  <2>3. ~Owed(ToJudge, q)'
    BY <1>1, <1>3 DEF Owed, Apart, Alone, ToJudge, ToThank
  <2>4. q \in Judged'
    BY <2>1, <2>3 DEF Judged
  <2> QED
    BY <2>2, <2>4
<1>4. ASSUME handler[h].pc \in ToThank, hd.pc \notin ToThank PROVE Thanked # Thanked'
  <2>1. q \in Req /\ Answered(req'[q])
    BY <1>4, Seen
  <2>2. q \notin Thanked
    BY <1>4 DEF Thanked, Owed
  <2>3. ~Owed(ToThank, q)'
    BY <1>1, <1>4 DEF Owed, Apart, Alone
  <2>4. q \in Thanked'
    BY <2>1, <2>3 DEF Thanked
  <2> QED
    BY <2>2, <2>4
<1> QED
  BY <1>2, <1>3, <1>4

-----------------------------------------------------------------------------
(* The three ratings.                                                      *)

\* What a rating does to the scores.
LEMMA Scored ==
  ASSUME ServerInv, NEW sender, NEW who \in Account \cup {NoOne}, NEW delta \in {10, -10, 2},
         Rate(sender, who, delta)
  PROVE  \A a \in Account : reputation'[a] \in {reputation[a], reputation[a] + delta}
<1>1. reputation \in [Account \cup {NoOne} -> Int]
  BY DEF ServerInv
<1>2. \/ reputation' = [reputation EXCEPT ![who] = @ + delta]
      \/ reputation' = [reputation EXCEPT ![who] = @ - (-delta)]
  BY DEF Rate, Score!Award, Score!Penalize
<1> QED
  BY <1>1, <1>2

\* The three ratings: of an executor that is paid, ...
LEMMA AwardCounts ==
  ASSUME RatingInv, IsFiniteSet(Req), NEW h \in Handler, CallAward(h), ServerInv'
  PROVE  RatingInv'
<1>1. At(h, "award") /\ ServerInv /\ Apart
  BY DEF CallAward, RatingInv, Apart
<1>2. Mine(h).who \in Account \cup {NoOne}
  BY <1>1, Somewhere DEF Pc
<1>3. /\ Rate(Mine(h).acct, Mine(h).who, 10) \/ UNCHANGED chainVars
      /\ Respond(h) \/ Continue(h, "awarded")
  BY DEF CallAward, Call
<1>4. PICK hd : handler' = [handler EXCEPT ![h] = hd] /\ hd.pc \notin ToAward \cup ToThank
  <2> DEFINE goes == [pc |-> "awarded", local |-> Mine(h)]
  <2>1. Idle.pc \notin ToAward \cup ToThank /\ goes.pc \notin ToAward \cup ToThank
    BY DEF Idle, ToAward, ToThank
  <2>2. handler' = [handler EXCEPT ![h] = Idle] \/ handler' = [handler EXCEPT ![h] = goes]
    BY <1>3 DEF Continue, Goto, Respond
  <2> HIDE DEF goes
  <2> QED
    BY <2>1, <2>2
<1>5. Orderly(h)
  BY <1>1, <1>4, ElsewhereIsOrderly
<1>6. CASE UNCHANGED chainVars
  BY <1>1, <1>5, <1>6, StillIsQuiet, QuietKeeps
<1>7. CASE Rate(Mine(h).acct, Mine(h).who, 10)
  <2>1. Moves /\ req' = req /\ RepTyped'
    BY <1>1, <1>2, <1>7, Rated
  <2>2. Grows /\ Apart'
    BY <1>1, <1>5, <2>1, OrderlyKeeps
  <2>3. Awarded # Awarded'
    BY <1>1, <1>4, <2>1, RatingIsSent DEF At, ToAward
  <2>4. \A a \in Account : reputation'[a] \in {reputation[a], reputation[a] + 10}
    BY <1>1, <1>2, <1>7, Scored
  <2>5. \A a \in Account : Earned(a)'
    BY <2>1, <2>2, <2>3, <2>4, Earns DEF RatingInv, ServerInv, RepTyped
  <2> QED
    BY <2>2, <2>5 DEF RatingInv, Apart
<1> QED
  BY <1>3, <1>6, <1>7

\* ... of one that was audited, ...
LEMMA RateExecutorCounts ==
  ASSUME RatingInv, IsFiniteSet(Req), NEW h \in Handler, CallRateExecutor(h), ServerInv'
  PROVE  RatingInv'
<1> DEFINE delta == IF Mine(h).passed THEN 10 ELSE -10
<1>1. At(h, "rateExecutor") /\ ServerInv /\ Apart
  BY DEF CallRateExecutor, RatingInv, Apart
<1>2. Mine(h).who \in Account \cup {NoOne} /\ delta \in {10, -10}
  BY <1>1, Somewhere DEF Pc
<1>3. /\ Rate(Deployer, Mine(h).who, delta) \/ UNCHANGED chainVars
      /\ Respond(h) \/ Continue(h, "rateAuditor")
  BY DEF CallRateExecutor, Call
<1> HIDE DEF delta
<1>4. PICK hd : /\ handler' = [handler EXCEPT ![h] = hd] /\ hd.pc \notin ToAward \cup ToJudge
                /\ hd.pc \in ToThank => hd.local = handler[h].local
  BY <1>3 DEF Continue, Goto, Respond, Mine, Idle, ToAward, ToJudge, ToThank
<1>5. Orderly(h)
  BY <1>1, <1>4 DEF ServerInv, At, Orderly, ToAward, ToJudge, ToThank
<1>6. CASE UNCHANGED chainVars
  BY <1>1, <1>5, <1>6, StillIsQuiet, QuietKeeps
<1>7. CASE Rate(Deployer, Mine(h).who, delta)
  <2>1. Moves /\ req' = req /\ RepTyped'
    BY <1>1, <1>2, <1>7, Rated
  <2>2. Grows /\ Apart'
    BY <1>1, <1>5, <2>1, OrderlyKeeps
  <2>3. Judged # Judged'
    BY <1>1, <1>4, <2>1, RatingIsSent DEF At, ToJudge
  <2>4. \A a \in Account : reputation'[a] \in {reputation[a], reputation[a] + delta}
    BY <1>1, <1>2, <1>7, Scored
  <2>5. \A a \in Account :
           reputation'[a] \in {reputation[a], reputation[a] + 10, reputation[a] - 10}
    BY <1>1, <1>2, <2>4 DEF ServerInv
  <2>6. \A a \in Account : Earned(a)'
    BY <2>1, <2>2, <2>3, <2>5, Earns DEF RatingInv, ServerInv, RepTyped
  <2> QED
    BY <2>2, <2>6 DEF RatingInv, Apart
<1> QED
  BY <1>3, <1>6, <1>7

\* ... and of its auditor.
LEMMA RateAuditorCounts ==
  ASSUME RatingInv, IsFiniteSet(Req), NEW h \in Handler, CallRateAuditor(h), ServerInv'
  PROVE  RatingInv'
<1>1. At(h, "rateAuditor") /\ ServerInv /\ Apart
  BY DEF CallRateAuditor, RatingInv, Apart
<1>2. Mine(h).acct \in Account \cup {NoOne}
  BY <1>1, Somewhere DEF Pc
<1>3. handler' = [handler EXCEPT ![h] = Idle] /\ Idle.pc \notin ToAward \cup ToThank
  BY DEF CallRateAuditor, LastCall, Respond, Idle, ToAward, ToThank
<1>4. Orderly(h)
  BY <1>1, <1>3, ElsewhereIsOrderly
<1>5. CASE UNCHANGED chainVars
  BY <1>1, <1>4, <1>5, StillIsQuiet, QuietKeeps
<1>6. CASE Rate(Deployer, Mine(h).acct, 2)
  <2>1. Moves /\ req' = req /\ RepTyped'
    BY <1>1, <1>2, <1>6, Rated
  <2>2. Grows /\ Apart'
    BY <1>1, <1>4, <2>1, OrderlyKeeps
  <2>3. Thanked # Thanked'
    BY <1>1, <1>3, <2>1, RatingIsSent DEF At, ToThank
  <2>4. \A a \in Account : reputation'[a] \in {reputation[a], reputation[a] + 2}
    BY <1>1, <1>2, <1>6, Scored
  <2>5. \A a \in Account : Earned(a)'
    BY <2>1, <2>2, <2>3, <2>4, Earns DEF RatingInv, ServerInv, RepTyped
  <2> QED
    BY <2>2, <2>5 DEF RatingInv, Apart
<1> QED
  BY <1>5, <1>6 DEF CallRateAuditor, LastCall

-----------------------------------------------------------------------------
(* The bounds of the scores.                                               *)

\* At first no task is counted and all scores are zero.
LEMMA RatingInit == Init /\ IsFiniteSet(Req) => RatingInv
<1> SUFFICES ASSUME Init, IsFiniteSet(Req) PROVE RatingInv
  OBVIOUS
<1>1. ServerInv
  BY InvAtInit
<1>2. \A h \in Handler : handler[h].pc \notin ToAward \cup ToThank
  BY DEF Init, Idle, ToAward, ToThank
<1>3. \A a \in Account : reputation[a] = 0
  BY DEF Init, Score!ScoreInit, Score!Address
<1>4. Cardinality(Awarded) \in Nat /\ Cardinality(Judged) \in Nat /\ Cardinality(Thanked) \in Nat
  BY Ratings, FS_Subset, FS_CardinalityType
<1>5. \A a \in Account : Earned(a)
  BY <1>3, <1>4 DEF Earned
<1> QED
  BY <1>1, <1>2, <1>5 DEF RatingInv, Alone

LEMMA RatingKept == RatingInv /\ IsFiniteSet(Req) /\ [Next]_vars => RatingInv'
<1> SUFFICES ASSUME RatingInv, IsFiniteSet(Req), [Next]_vars PROVE RatingInv'
  OBVIOUS
<1>1. ServerInv /\ ServerInv' /\ Apart
  BY InvKept DEF RatingInv, Apart
<1>2. ASSUME NEW h \in Handler, Request(h) \/ Proceed(h) PROVE RatingInv'
  <2>1. CASE Request(h)
    BY <1>1, <2>1, RequestIsQuiet, QuietKeeps
  <2>2. CASE Proceed(h)
    <3>1. Quiet(h) \/ CallAward(h) \/ CallRateExecutor(h) \/ CallRateAuditor(h)
      BY <1>1, <2>2, ResumeIsQuiet, CallIsQuiet, CompleteIsQuiet, AnswerAuditIsQuiet DEF Proceed
    <3> QED
      BY <1>1, <3>1, QuietKeeps, AwardCounts, RateExecutorCounts, RateAuditorCounts
  <2> QED
    BY <1>2, <2>1, <2>2
<1>3. ASSUME UNCHANGED <<req, handler, reputation>> PROVE RatingInv'
  <2>1. Apart' /\ Grows
    BY <1>1, <1>3 DEF Apart, Alone, Grows, Awarded, Judged, Thanked, Owed
  <2>2. \A a \in Account : Earned(a)'
    BY <1>1, <1>3, <2>1, Earns DEF RatingInv, ServerInv, RepTyped
  <2> QED
    BY <1>1, <2>1, <2>2 DEF RatingInv, Apart
<1>4. ASSUME NEW q \in Req, AuthorizeScript(q) PROVE RatingInv'
  BY <1>3, <1>4 DEF AuthorizeScript, scoreVars
<1>5. ASSUME Restart PROVE RatingInv'
  <2>1. /\ UNCHANGED <<req, reputation>>
        /\ \A h \in Handler : handler'[h].pc \notin ToAward \cup ToThank
    BY <1>5 DEF Restart, chainVars, contractVars, scoreVars, Idle, ToAward, ToThank
  <2>2. Apart' /\ Grows
    BY <2>1 DEF Apart, Alone, Grows, Awarded, Judged, Thanked, Owed, ToJudge, ToThank
  <2>3. \A a \in Account : Earned(a)'
    BY <1>1, <2>1, <2>2, Earns DEF RatingInv, ServerInv, RepTyped
  <2> QED
    BY <1>1, <2>2, <2>3 DEF RatingInv, Apart
<1>6. ASSUME UNCHANGED vars PROVE RatingInv'
  BY <1>3, <1>6 DEF vars, chainVars, contractVars, scoreVars
<1> QED
  BY <1>2, <1>4, <1>5, <1>6 DEF Next

\* Nobody is rated twice for the same payment or the same audit, and no score moves for
\* anything else: for any number of tasks and of overlapping handlers, whatever is called
\* again after a failure, a lost receipt or a restart.
THEOREM RatingsAreOncePerTask ==
  ASSUME IsFiniteSet(Req)
  PROVE  Spec => []RatedOncePerTask
<1>1. RatingInv => RatedOncePerTask
  <2> SUFFICES ASSUME RatingInv PROVE RatedOncePerTask
    OBVIOUS
  <2> DEFINE Paid == {q \in Req : C!InState(q, "Completed")}
             Audited == {q \in Req : C!AuditAnswered(q)}
  <2>1. /\ Awarded \in SUBSET Paid /\ Judged \in SUBSET Audited /\ Thanked \in SUBSET Audited
        /\ Paid \in SUBSET Req /\ Audited \in SUBSET Req
    BY DEF Awarded, Judged, Thanked, C!InState, C!AuditAnswered, Answered
  <2> HIDE DEF Paid, Audited
  <2>2. IsFiniteSet(Paid) /\ IsFiniteSet(Audited)
    BY <2>1, FS_Subset
  <2>3. /\ Cardinality(Paid) \in Nat /\ Cardinality(Audited) \in Nat
        /\ Cardinality(Awarded) \in Nat /\ Cardinality(Judged) \in Nat
        /\ Cardinality(Thanked) \in Nat
        /\ Cardinality(Awarded) <= Cardinality(Paid)
        /\ Cardinality(Judged) <= Cardinality(Audited)
        /\ Cardinality(Thanked) <= Cardinality(Audited)
    BY <2>1, <2>2, FS_Subset, FS_CardinalityType
  <2>4. ASSUME NEW a \in Account
        PROVE  reputation[a] \in (-10 * Cardinality(Audited))
                      .. (10 * Cardinality(Paid) + (10 + 2) * Cardinality(Audited))
    <3>1. Earned(a) /\ reputation[a] \in Int
      BY DEF RatingInv, ServerInv
    <3> QED
      BY <2>3, <3>1 DEF Earned
  <2> QED
    BY <2>4 DEF RatedOncePerTask, Paid, Audited
<1>2. Init => RatingInv
  BY RatingInit
<1>3. RatingInv /\ [Next]_vars => RatingInv'
  BY RatingKept
<1> QED
  BY <1>1, <1>2, <1>3, PTL DEF Spec
=============================================================================
