---------------------------- MODULE EscrowProofs ----------------------------
(***************************************************************************)
(* The contracts implement Escrow, for any number of accounts, requests,   *)
(* hashes and payments: every call of Request maps to one payment of the   *)
(* abstract specification, to the opening of an audit, or to a stutter.    *)
(***************************************************************************)
EXTENDS RequestProofs

\* What Escrow sees of one storage.
JobOf(s) ==
    [phase |-> IF s.state = "None" THEN "unfunded"
               ELSE IF s.state = "Completed" THEN "paid" ELSE "held",
     audit |-> IF s.auditRequired /\ s.state # "AuditRequested" THEN "answered"
               ELSE IF s.state = "AuditRequested" THEN "open" ELSE "none",
     price |-> s.cost]

\* It sees nothing else, before a step and after it.
LEMMA JobSeen ==
  /\ Job = [x \in Req |-> JobOf(req[x])]
  /\ Job' = [x \in Req |-> JobOf(req'[x])]
<1>1. \A x \in Req : PhaseOf(x) = JobOf(req[x]).phase /\ AuditOf(x) = JobOf(req[x]).audit
  BY DEF PhaseOf, AuditOf, AuditAnswered, InState, JobOf
<1>2. \A x \in Req : PhaseOf(x)' = JobOf(req'[x]).phase /\ AuditOf(x)' = JobOf(req'[x]).audit
  BY DEF PhaseOf, AuditOf, AuditAnswered, InState, JobOf
<1> QED
  BY <1>1, <1>2 DEF Job, JobOf

\* A call that replaces one storage replaces one job, by what Escrow sees of it.
LEMMA JobReplaced ==
  ASSUME Inv, NEW q \in Req, NEW s, req' = [req EXCEPT ![q] = s]
  PROVE  Job[q] = JobOf(req[q]) /\ Job' = [Job EXCEPT ![q] = JobOf(s)]
BY JobSeen DEF Inv, TypeOK

\* A call that replaces a storage by one that looks the same is a stutter.
LEMMA JobKept ==
  ASSUME Inv, NEW q \in Req, NEW s, req' = [req EXCEPT ![q] = s], JobOf(s) = JobOf(req[q]),
         UNCHANGED <<totalCollected, wallet>>
  PROVE  UNCHANGED E!escrowVars
BY JobReplaced, JobSeen DEF E!escrowVars, Inv, TypeOK

-----------------------------------------------------------------------------
(* One lemma per call of a Request.                                        *)

\* The constructor funds the job.
LEMMA DeployFunds ==
  ASSUME Inv, NEW sender \in Account, NEW q \in Req, NEW v \in Payment, NEW jobCost,
         Deploy(sender, q, v, jobCost)
  PROVE  E!Fund(q)
<1> DEFINE new == [Empty EXCEPT !.state = "Created", !.owner = sender,
                                !.escrowAmount = Pay!EscrowOf(v), !.cost = jobCost,
                                !.balance = v - Pay!AuditTaxOf(v)]
<1>1. req' = [req EXCEPT ![q] = new] /\ jobCost = Pay!EscrowOf(v) /\ req[q].state = "None"
  BY DEF Deploy, CanDeploy, InState
<1>2. JobOf(new) = [phase |-> "held", audit |-> "none", price |-> Pay!EscrowOf(v)]
  BY <1>1 DEF JobOf, Empty
<1>3. JobOf(req[q]).phase = "unfunded"
  BY <1>1 DEF JobOf
<1>4. wallet' = [wallet EXCEPT ![sender] = @ - v]
      /\ totalCollected' = totalCollected + Pay!AuditTaxOf(v)
  BY DEF Deploy, Tax!Receive
<1> HIDE DEF new
<1>5. Job[q] = JobOf(req[q]) /\ Job' = [Job EXCEPT ![q] = JobOf(new)]
  BY <1>1, JobReplaced
<1>6. Job[q].phase = "unfunded"
      /\ Job' = [Job EXCEPT ![q] = [phase |-> "held", audit |-> "none",
                                    price |-> Pay!EscrowOf(v)]]
  BY <1>2, <1>3, <1>5
<1> QED
  BY <1>4, <1>6 DEF E!Fund, E!Pays, E!P!EscrowOf, E!P!AuditTaxOf, Pay!EscrowOf, Pay!AuditTaxOf

\* Opening an audit.
LEMMA RequestAuditOpens ==
  ASSUME Inv, NEW sender \in Account, NEW q \in Req, RequestAudit(sender, q)
  PROVE  E!OpenAudit(q)
<1> DEFINE new == [req[q] EXCEPT !.auditRequired = TRUE, !.state = "AuditRequested"]
<1>0. req[q] \in Storage
  BY InvAt
<1>1. req' = [req EXCEPT ![q] = new] /\ req[q].state = "ResultSubmitted" /\ ~req[q].auditRequired
  BY DEF RequestAudit, CanRequestAudit, InState
<1>2. JobOf(new) = [JobOf(req[q]) EXCEPT !.audit = "open"]
  BY <1>0, <1>1 DEF JobOf, Storage
<1>3. JobOf(req[q]).phase = "held" /\ JobOf(req[q]).audit = "none"
  BY <1>1 DEF JobOf
<1> HIDE DEF new
<1>4. Job[q] = JobOf(req[q]) /\ Job' = [Job EXCEPT ![q] = JobOf(new)]
  BY <1>1, JobReplaced
<1>5. Job' = [Job EXCEPT ![q].audit = "open"]
  BY <1>2, <1>4
<1>6. UNCHANGED <<totalCollected, wallet>>
  BY DEF RequestAudit, taxVars
<1> QED
  BY <1>3, <1>4, <1>5, <1>6 DEF E!OpenAudit

\* The auditor's answer pays the auditor from the pool, whatever the verdict.
LEMMA AssignAuditResultPays ==
  ASSUME Inv, NEW sender \in Account, NEW q \in Req, NEW hash,
         AssignAuditResult(sender, q, hash)
  PROVE  E!PayAuditor(q)
<1>0. req[q] \in Storage /\ Sound(req[q])
  BY InvAt
<1>1. req[q].state = "AuditRequested" /\ req[q].auditor = sender
      /\ req[q].cost <= totalCollected
  BY DEF AssignAuditResult, CanAssignAuditResult, InState, Tax!CanWithdraw
<1>2. PICK new : /\ req' = [req EXCEPT ![q] = new]
                 /\ JobOf(new) = [JobOf(req[q]) EXCEPT !.audit = "answered"]
  <2> DEFINE faulty == [Rejected(q) EXCEPT !.auditorResultHash = hash]
             right == [req[q] EXCEPT !.auditorResultHash = hash, !.state = "Audited"]
  <2>1. req' = [req EXCEPT ![q] = faulty] \/ req' = [req EXCEPT ![q] = right]
    BY DEF AssignAuditResult
  <2>2. req[q].auditRequired
    BY <1>0, <1>1 DEF Sound, AuditSound, Storage
  <2>3. JobOf(faulty) = [JobOf(req[q]) EXCEPT !.audit = "answered"]
    BY <1>0, <1>1, <2>2 DEF JobOf, Storage, Rejected
  <2>4. JobOf(right) = [JobOf(req[q]) EXCEPT !.audit = "answered"]
    BY <1>0, <1>1, <2>2 DEF JobOf, Storage
  <2> HIDE DEF faulty, right
  <2> QED
    BY <2>1, <2>3, <2>4
<1>3. Job[q] = JobOf(req[q]) /\ Job' = [Job EXCEPT ![q] = JobOf(new)]
  BY <1>2, JobReplaced
<1>4. Job' = [Job EXCEPT ![q].audit = "answered"]
  BY <1>2, <1>3
<1>5. Job[q].phase = "held" /\ Job[q].audit = "open" /\ Job[q].price = req[q].cost
  BY <1>1, <1>3 DEF JobOf
<1>6. wallet' = [wallet EXCEPT ![sender] = @ + req[q].cost]
      /\ totalCollected' = totalCollected - req[q].cost
  BY <1>1 DEF AssignAuditResult, Tax!Withdraw
<1> QED
  BY <1>1, <1>4, <1>5, <1>6 DEF E!PayAuditor, E!IsPaid

\* Completion pays the executor the price in escrow.
LEMMA CompleteRequestPays ==
  ASSUME Inv, NEW sender \in Account, NEW q \in Req, CompleteRequest(sender, q)
  PROVE  E!PayWorker(q)
<1> DEFINE new == [req[q] EXCEPT !.state = "Completed", !.escrowAmount = 0,
                                 !.balance = @ - req[q].escrowAmount]
<1>0. req[q] \in Storage /\ Sound(req[q])
  BY InvAt
<1>1. req' = [req EXCEPT ![q] = new] /\ req[q].state \in {"ResultSubmitted", "Audited"}
  BY DEF CompleteRequest, CanCompleteRequest
<1>2. JobOf(new) = [JobOf(req[q]) EXCEPT !.phase = "paid"]
  BY <1>0, <1>1 DEF JobOf, Storage
<1>3. JobOf(req[q]).phase = "held" /\ JobOf(req[q]).audit # "open"
      /\ JobOf(req[q]).price = req[q].cost
  BY <1>1 DEF JobOf
<1>4. req[q].executor \in Account /\ req[q].escrowAmount = req[q].cost
  BY <1>0, <1>1 DEF Sound, AttemptSound, EscrowSound, Attempted
<1>5. wallet' = [wallet EXCEPT ![req[q].executor] = @ + req[q].cost]
      /\ UNCHANGED totalCollected
  BY <1>4 DEF CompleteRequest, taxVars
<1> HIDE DEF new
<1>6. Job[q] = JobOf(req[q]) /\ Job' = [Job EXCEPT ![q] = JobOf(new)]
  BY <1>1, JobReplaced
<1>7. Job' = [Job EXCEPT ![q].phase = "paid"]
  BY <1>2, <1>6
<1> QED
  BY <1>3, <1>4, <1>5, <1>6, <1>7 DEF E!PayWorker, E!IsPaid

\* The three other calls move no money and open no audit.
LEMMA OthersStutter ==
  ASSUME Inv, NEW sender \in Account, NEW q \in Req,
         \/ \E candidate \in Address : AppointExecutor(sender, q, candidate)
         \/ \E candidate \in Address : AppointAuditor(sender, q, candidate)
         \/ \E hash \in Submission : AssignResult(sender, q, hash)
  PROVE  UNCHANGED E!escrowVars
<1>0. req[q] \in Storage
  BY InvAt
<1>1. UNCHANGED <<totalCollected, wallet>>
  BY DEF AppointExecutor, AppointAuditor, AssignResult, taxVars
<1>2. ASSUME NEW candidate \in Address, AppointExecutor(sender, q, candidate)
      PROVE  UNCHANGED E!escrowVars
  <2> DEFINE new == [req[q] EXCEPT !.executor = candidate, !.state = "ExecutorAssigned"]
  <2>1. req' = [req EXCEPT ![q] = new] /\ req[q].state = "Created"
    BY <1>2 DEF AppointExecutor, CanAppointExecutor, InState
  <2>2. JobOf(new) = JobOf(req[q])
    BY <1>0, <2>1 DEF JobOf, Storage
  <2> HIDE DEF new
  <2> QED
    BY <1>1, <2>1, <2>2, JobKept
<1>3. ASSUME NEW candidate \in Address, AppointAuditor(sender, q, candidate)
      PROVE  UNCHANGED E!escrowVars
  <2> DEFINE new == [req[q] EXCEPT !.auditor = candidate]
  <2>1. req' = [req EXCEPT ![q] = new]
    BY <1>3 DEF AppointAuditor
  <2>2. JobOf(new) = JobOf(req[q])
    BY <1>0 DEF JobOf, Storage
  <2> HIDE DEF new
  <2> QED
    BY <1>1, <2>1, <2>2, JobKept
<1>4. ASSUME NEW hash \in Submission, AssignResult(sender, q, hash)
      PROVE  UNCHANGED E!escrowVars
  <2>0. req[q].state = "ExecutorAssigned"
    BY <1>4 DEF AssignResult, CanAssignResult, InState
  <2> DEFINE waits == [req[q] EXCEPT !.resultHash = hash, !.state = "ResultSubmitted"]
             right == [req[q] EXCEPT !.resultHash = hash, !.faultyResult = FALSE,
                                     !.state = "Audited"]
  <2>1. \/ req' = [req EXCEPT ![q] = waits]
        \/ req' = [req EXCEPT ![q] = right]
        \/ req' = [req EXCEPT ![q] = Rejected(q)]
    BY <1>4 DEF AssignResult
  <2>2. JobOf(waits) = JobOf(req[q])
    BY <1>0, <2>0 DEF JobOf, Storage
  <2>3. JobOf(right) = JobOf(req[q])
    BY <1>0, <2>0 DEF JobOf, Storage
  <2>4. JobOf(Rejected(q)) = JobOf(req[q])
    BY <1>0, <2>0 DEF JobOf, Storage, Rejected
  <2> HIDE DEF waits, right
  <2> QED
    BY <1>1, <2>1, <2>2, <2>3, <2>4, JobKept
<1> QED
  BY <1>2, <1>3, <1>4

-----------------------------------------------------------------------------

\* The initial states map to initial states.
LEMMA InitMaps == Init => E!Init
<1> SUFFICES ASSUME Init PROVE E!Init
  OBVIOUS
<1>1. Job = [x \in Req |-> [phase |-> "unfunded", audit |-> "none", price |-> 0]]
  <2>1. JobOf(Empty) = [phase |-> "unfunded", audit |-> "none", price |-> 0]
    BY DEF JobOf, Empty
  <2>2. \A x \in Req : req[x] = Empty
    BY DEF Init
  <2> QED
    BY <2>1, <2>2, JobSeen
<1> QED
  BY <1>1 DEF Init, E!Init, Tax!Init, Address

\* Every step maps to a step or to a stutter.
LEMMA StepMaps == Inv /\ [Next]_vars => [E!Next]_(E!escrowVars)
<1> SUFFICES ASSUME Inv, [Next]_vars
             PROVE  [E!Next]_(E!escrowVars)
  OBVIOUS
<1>1. ASSUME UNCHANGED <<req, totalCollected, wallet>>
      PROVE  UNCHANGED E!escrowVars
  <2>1. UNCHANGED Job
    BY <1>1, JobSeen
  <2> QED
    BY <1>1, <2>1 DEF E!escrowVars
<1>2. CASE RolesStep
  BY <1>1, <1>2 DEF RolesStep, taxVars
<1>3. CASE TaxStep
  <2>1. ASSUME NEW q \in Req, NEW allowed \in BOOLEAN, Tax!AuthorizeRequest(q, allowed),
               UNCHANGED <<wallet, req, rolesVars>>
        PROVE  UNCHANGED E!escrowVars
    BY <1>1, <2>1 DEF Tax!AuthorizeRequest
  <2>2. ASSUME NEW a \in Account, NEW amount \in Donation, Tax!Donate(amount),
               wallet' = [wallet EXCEPT ![a] = @ - amount], UNCHANGED <<req, rolesVars>>
        PROVE  E!Donate
    <3>1. UNCHANGED Job
      BY <2>2, JobSeen
    <3> QED
      BY <2>2, <3>1 DEF E!Donate, E!Pays, Tax!Donate, Tax!Receive
  <2> QED
    BY <1>3, <2>1, <2>2 DEF TaxStep, E!Next
<1>4. ASSUME NEW sender \in Account, NEW q \in Req, RequestStep(sender, q)
      PROVE  [E!Next]_(E!escrowVars)
  <2>1. \/ E!Fund(q) \/ E!OpenAudit(q) \/ E!PayAuditor(q) \/ E!PayWorker(q)
        \/ UNCHANGED E!escrowVars
    BY <1>4, DeployFunds, RequestAuditOpens, AssignAuditResultPays, CompleteRequestPays,
       OthersStutter DEF RequestStep
  <2> QED
    BY <2>1 DEF E!Next
<1>5. CASE UNCHANGED vars
  BY <1>1, <1>5 DEF vars
<1> QED
  BY <1>2, <1>3, <1>4, <1>5 DEF Next

\* The contracts implement the abstract market: whatever is called, the money moves
\* only as Escrow says.
THEOREM RequestImplementsEscrow == Spec => ImplementsEscrow
BY InitMaps, StepMaps, InvHolds, PTL DEF Spec, ImplementsEscrow, E!Spec
=============================================================================
