------------------------------ MODULE Payment ------------------------------
(***************************************************************************)
(* The integer arithmetic that splits a payment, in wei.                   *)
(*                                                                         *)
(* A buyer names a price.  The server (blockchain-service.ts) rounds it up *)
(* to a total; the Request constructor (Request.sol) then divides that     *)
(* total into the escrow that pays the executor and the tax that goes to   *)
(* the AuditTaxRepository, each rounded down.  What neither share takes is *)
(* left in the contract for good: no function sends it anywhere.           *)
(***************************************************************************)
EXTENDS Integers

\* The share of a payment v kept to pay the executor.
EscrowOf(v) == (v * 90) \div 100

\* The share of a payment v sent to the audit tax repository.
AuditTaxOf(v) == (v * 10) \div 100

\* What no one receives of a payment v.
DustOf(v) == v - EscrowOf(v) - AuditTaxOf(v)

\* Mutant: a payment rounded down.
TotalPaymentMutant(p) == (p * 100) \div 90

\* The payment the server sends for a job of price p.
TotalPayment(p) == (p * 100 + 89) \div 90

\* The job_cost the server passes to the constructor for a job of price p.
ActualEscrow(p) == EscrowOf(TotalPayment(p))
=============================================================================
