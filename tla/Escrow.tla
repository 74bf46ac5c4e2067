------------------------------- MODULE Escrow -------------------------------
(***************************************************************************)
(* What the market promises about money, without saying how: a job's price *)
(* is set aside when it is funded and leaves once, to one worker, never    *)
(* while an audit is open; the pool pays at most one auditor per job, the  *)
(* job's price, and only out of what the pool holds.                       *)
(***************************************************************************)
EXTENDS Integers

CONSTANTS Req, Account, NoOne, InitialTax, Payment, Donation

VARIABLES
    job,    \* request -> phase, audit and price
    pool,   \* what the auditors can be paid from
    wallet  \* address -> what it received less what it paid

escrowVars == <<job, pool, wallet>>

P == INSTANCE Payment

Init ==
    /\ job = [q \in Req |-> [phase |-> "unfunded", audit |-> "none", price |-> 0]]
    /\ pool = InitialTax
    /\ wallet = [a \in Account \cup {NoOne} |-> 0]

Pays(a, amount) == wallet' = [wallet EXCEPT ![a] = @ - amount]
IsPaid(a, amount) == wallet' = [wallet EXCEPT ![a] = @ + amount]

Fund(q) ==
    /\ job[q].phase = "unfunded"
    /\ \E a \in Account, value \in Payment :
          /\ job' = [job EXCEPT ![q] = [phase |-> "held", audit |-> "none",
                                        price |-> P!EscrowOf(value)]]
          /\ Pays(a, value)
          /\ pool' = pool + P!AuditTaxOf(value)

OpenAudit(q) ==
    /\ job[q].phase = "held" /\ job[q].audit = "none"
    /\ job' = [job EXCEPT ![q].audit = "open"]
    /\ UNCHANGED <<pool, wallet>>

PayAuditor(q) ==
    /\ job[q].phase = "held" /\ job[q].audit = "open"
    /\ job[q].price <= pool
    /\ job' = [job EXCEPT ![q].audit = "answered"]
    /\ pool' = pool - job[q].price
    /\ \E a \in Account : IsPaid(a, job[q].price)

PayWorker(q) ==
    /\ job[q].phase = "held" /\ job[q].audit # "open"
    /\ job' = [job EXCEPT ![q].phase = "paid"]
    /\ \E a \in Account : IsPaid(a, job[q].price)
    /\ UNCHANGED pool

Donate ==
    \E a \in Account, amount \in Donation :
        /\ Pays(a, amount)
        /\ pool' = pool + amount
        /\ UNCHANGED job

Next ==
    \/ \E q \in Req : Fund(q) \/ OpenAudit(q) \/ PayAuditor(q) \/ PayWorker(q)
    \/ Donate

Spec == Init /\ [][Next]_escrowVars
=============================================================================
