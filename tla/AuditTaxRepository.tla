------------------------ MODULE AuditTaxRepository -------------------------
(***************************************************************************)
(* The AuditTaxRepository contract: the pool that collects the audit tax   *)
(* of every request and pays the auditors.                                 *)
(*                                                                         *)
(* The actions say what a call does to the pool; whose wallet the money    *)
(* comes from or goes to is said by the module that composes this one.     *)
(* MaxPool bounds the donations, the only income no request limits.        *)
(***************************************************************************)
EXTENDS Integers

CONSTANTS
    Client,     \* the addresses the owner authorises: Request contracts
    InitialTax, \* msg.value of the constructor
    Donation,   \* what receive() is sent from outside a request
    MaxPool     \* bound: no donation lifts the pool above it

VARIABLES
    totalCollected,     \* the pool's own account of its money
    repoBalance,        \* the ether the contract holds
    authorizedRequest   \* the clients that may withdraw once

taxVars == <<totalCollected, repoBalance, authorizedRequest>>

TypeOK ==
    /\ totalCollected \in Nat
    /\ repoBalance \in Nat
    /\ authorizedRequest \subseteq Client

Init ==
    /\ totalCollected = InitialTax
    /\ repoBalance = InitialTax
    /\ authorizedRequest = {}

\* receive(): every plain transfer is counted.
Receive(amount) ==
    /\ totalCollected' = totalCollected + amount
    /\ repoBalance' = repoBalance + amount
    /\ UNCHANGED authorizedRequest

\* A transfer by someone who is not deploying a request.
Donate(amount) ==
    /\ totalCollected + amount <= MaxPool
    /\ Receive(amount)

\* authorizeRequest, called by the repository's owner (the deployer; onlyOwner).
AuthorizeRequest(client, allowed) ==
    /\ authorizedRequest' = IF allowed THEN authorizedRequest \cup {client}
                                       ELSE authorizedRequest \ {client}
    /\ UNCHANGED <<totalCollected, repoBalance>>

\* Mutants: the pool's content is not looked at; the authorisation stays.
CanWithdrawMutant(client, amount) == client \in authorizedRequest

WithdrawMutant(client, amount) ==
    /\ client \in authorizedRequest
    /\ amount <= totalCollected
    /\ totalCollected' = totalCollected - amount
    /\ repoBalance' = repoBalance - amount
    /\ UNCHANGED authorizedRequest

\* withdraw, called by the client.  The authorisation is spent, and the final
\* transfer succeeds only if the contract really holds the amount.
CanWithdraw(client, amount) ==
    /\ client \in authorizedRequest
    /\ amount <= totalCollected
    /\ amount <= repoBalance

Withdraw(client, amount) ==
    /\ CanWithdraw(client, amount)
    /\ totalCollected' = totalCollected - amount
    /\ repoBalance' = repoBalance - amount
    /\ authorizedRequest' = authorizedRequest \ {client}

-----------------------------------------------------------------------------

\* The pool's books agree with the ether it holds, so a withdrawal the books
\* allow never fails in the transfer (AuditTaxRepository.sol:30 and 38-39).
BooksMatchBalance == totalCollected = repoBalance
==============================================================================
