------------------------------- MODULE Market -------------------------------
(***************************************************************************)
(* What the server promises to those who send it requests: the life of a   *)
(* task, as it is seen in the server's answers.  A Step is one whole       *)
(* request answered with success; that it can be taken does not mean that  *)
(* a request for it succeeds, which is up to the contract.  An Overtake is *)
(* what a request does that was checked against an earlier status, and     *)
(* overlaps others.  Server, with its handlers, the chain, faults and      *)
(* restarts, is shown to take no other steps.                              *)
(***************************************************************************)
CONSTANTS
    Task,
    Seller,     \* who can be an executor or an auditor
    NoOne,
    Verdict     \* the statuses of an audited task that are told apart

VARIABLES
    status,     \* task -> where it is in its life
    executor,   \* task -> who it is assigned to, or NoOne
    audited     \* the tasks whose audit was asked for

marketVars == <<status, executor, audited>>

\* "none": not known to the server.
TaskStatus == {"none", "waiting", "completed", "audit_requested", "finalized"} \cup Verdict

MarketTypeOK ==
    /\ status \in [Task -> TaskStatus]
    /\ executor \in [Task -> Seller \cup {NoOne}]
    /\ audited \in SUBSET Task

Nothing ==
    /\ status = [t \in Task |-> "none"]
    /\ executor = [t \in Task |-> NoOne]
    /\ audited = {}

HasStatus(t, value) == status[t] = value

CanAppoint(t) == HasStatus(t, "waiting") /\ executor[t] = NoOne
CanComplete(t, seller) == HasStatus(t, "waiting") /\ executor[t] = seller
CanAudit(t, seller) == HasStatus(t, "audit_requested") /\ executor[t] # seller

Become(t, value) ==
    /\ status' = [status EXCEPT ![t] = value]
    /\ UNCHANGED executor

Post(t) == HasStatus(t, "none") /\ Become(t, "waiting") /\ UNCHANGED audited

\* By /assign, by automatic assignment, or by the claim of a task that nobody has: the
\* server keeps a claim even if the contract then refuses the result.
Appoint(t, seller) ==
    /\ CanAppoint(t)
    /\ executor' = [executor EXCEPT ![t] = seller]
    /\ UNCHANGED <<status, audited>>

Complete(t, seller) ==
    CanComplete(t, seller) /\ Become(t, "completed") /\ UNCHANGED audited

RequestAudit(t) ==
    /\ HasStatus(t, "completed") /\ t \notin audited
    /\ Become(t, "audit_requested")
    /\ audited' = audited \cup {t}

\* Anyone but the executor can be the auditor.  The contract may still refuse one: the
\* request must be authorised to draw the fee, and the pool able to pay it.
Audit(t, seller) ==
    /\ CanAudit(t, seller)
    /\ \E verdict \in Verdict : Become(t, verdict)
    /\ UNCHANGED audited

Finalize(t) == HasStatus(t, "completed") /\ Become(t, "finalized") /\ UNCHANGED audited

\* The server is restarted.
Forget ==
    /\ status' = [t \in Task |-> "none"]
    /\ executor' = [t \in Task |-> NoOne]
    /\ audited' = {}

Step(t) ==
    \/ Post(t)
    \/ \E seller \in Seller : Appoint(t, seller) \/ Complete(t, seller) \/ Audit(t, seller)
    \/ RequestAudit(t)
    \/ Finalize(t)

\* An appointment or a claim is written without looking again who is appointed.
Rename(t) ==
    /\ ~HasStatus(t, "none")
    /\ \E seller \in Seller : executor' = [executor EXCEPT ![t] = seller]
    /\ UNCHANGED <<status, audited>>

\* With its audit the contract may have opened a second attempt at a task.  A request
\* still on its way since the first then succeeds, and shows what it was asked for.
Late(t) ==
    /\ t \in audited
    /\ \E value \in {"completed", "finalized"} \cup Verdict : Become(t, value)
    /\ UNCHANGED audited

Overtake(t) == Rename(t) \/ Late(t)

Next == Forget \/ \E t \in Task : Step(t) \/ Overtake(t)

Spec == Nothing /\ [][Next]_marketVars

\* One request at a time.
SequentialSpec == Nothing /\ [][Forget \/ \E t \in Task : Step(t)]_marketVars
=============================================================================
