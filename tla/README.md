# A verification of the compute market

This directory holds a TLA+ model of the compute market in this repository: the
Solidity contracts (`BLOCKCHAIN/contracts`), the integer arithmetic that prices a
job, the REST server (`SERVER/src`) that calls the contracts for everybody, the
executors (`EXECUTOR`) that run the jobs, and the browser window (`FRONTEND/src`) in which
they are posted, assigned and audited. TLC checks the properties on small instances; TLAPS
proves all of them but the liveness properties, and the strict order of a server that handles
one request at a time, for every instance.

In comments, `README:nnn` means `SERVER/README.md`, and a file name with a line
number is the source file of that name.

## 1. Inventory

### The system in one paragraph

A buyer posts a job to the REST server. The server deploys a `Request` contract
that holds nine tenths of the payment for whoever executes the job; the last
tenth goes to a common pool, `AuditTaxRepository`. The server appoints a seller
as executor. The seller's client polls the server, hands the code to a daemon
that runs it in a container, and posts the output back; the server sends the
output's hash to the contract. The buyer then either finalizes the task (the
escrow is paid) or asks for an audit: another seller runs the code again, is paid
from the pool, and the contract compares the two hashes. `Reputation` keeps the
scores by which sellers are chosen, `Roles` says who may do what. Buyers and sellers
look at all this in a browser window, which polls the server as the executors do.

### Components

| Component | State | Operations | Talks to |
|---|---|---|---|
| `Roles.sol` | role -> addresses, owner | grantRole, revokeRole, transferOwnership | - |
| `Reputation.sol` | scores, one-shot authorisations | award, penalize, setScore, authorizeBuyerOrContract | Roles (who is admin) |
| `AuditTaxRepository.sol` | totalCollected, its ether, one-shot authorisations | receive, withdraw, authorizeRequest | pays auditors |
| `Request.sol` | a state machine per job, executor, auditor, two hashes, escrow | constructor, appointExecutor, assignResult, requestAudit, appointAuditor, assignAuditResult, completeRequest | Roles, AuditTaxRepository |
| `blockchain-service.ts` | none | one transaction and its receipt per call; rounding of the payment; epsilon-greedy choice | the contracts |
| `server.ts` | `tasks`, a Map in memory | POST /tasks, /assign, /auto-assign, /complete, /finalize, /request-audit, /submit-audit-result; GET endpoints | blockchain-service |
| `EXECUTOR/client.ts` | processedTasks, socket buffers | poll, execute, submit | server (HTTP), daemon (a Unix socket) |
| `EXECUTOR/executor_daemon.cpp` | a child process and its pipes per connection | accept, run, reply | client.ts, docker |
| `EXECUTOR/executor_docker.sh` | a container and a volume, its exit status | prepare, run the program, zip its files, clean up | docker |
| scripts | - | deploy, grant roles, authorise a request | the contracts |
| `FRONTEND/src` | the route, a query cache, the open dialog, calls under way, timers | health gate, polling, open and dismiss, type, create, assign, finalize, request an audit | server |
| `EXECUTOR/client.py` | - | a manual test of the daemon | daemon |

### What is hard, and what makes each part correct

* **Roles.** Sequences of grants, revocations and transfers, an owner that
  transfers to itself, the last admin. Correct when nothing but an admin's call
  changes anything, and ownership carries ADMIN along.
* **Reputation.** One-shot authorisations that outlive admins; checked arithmetic at
  both ends of `int256` with deltas of either sign.
* **AuditTaxRepository.** Its books against its ether; an authorisation pays once.
* **Request.** Two ways of rejecting a result, retries, an audit that is answered
  before the next result arrives, payments from two sources. Correct when the escrow
  is whole until it is paid, once, for an accepted result; an auditor is paid
  once; and an answered audit is final.
* **Server.** Every handler tests a task, awaits one to four calls, and writes
  afterwards; handlers overlap, calls fail, receipts get lost, the process restarts and
  forgets. Correct when the status shown never runs ahead of the chain, a task goes through
  its life in order, the verdict is about what the contract has the hash of, and nobody is rated twice for
  the same thing.
* **Executor client and daemon.** A reply in pieces, or that stops halfway; two pipes
  that fill up; a child that ends between two reads, and is reaped twice; a client or
  the daemon that dies; several executors auditing one task, from lists that are
  out of date; submissions that are refused, or accepted and not answered. Correct when what is submitted is
  one run's whole output, when no client waits for ever, when what was assigned or is to be audited gets done
  as soon as the contract takes it, and when nothing that was taken is done again.
* **Sandbox script.** Five docker commands under `set -e` with a trap: each may fail, and
  what was printed before, the zip and the exit status then depend on where. Correct when the daemon
  gets the whole of what the script left, whichever way it ended.
* **Frontend.** One list and one set of details per task, fetched by a timer, by mounting, by reopening
  and by every success, so that answers overlap with newer requests; buttons that can be
  pressed again before the first call is answered; dialogs closed by timers of an earlier
  success; components that are unmounted under their calls. Correct when what is shown never goes
  back, catches up, and is what happened.

`PROJECT.json` lists every hazard at its line with the property that covers it.

## 2. Modules

| Module | Models | State and actions |
|---|---|---|
| `Payment` | the divisions in `Request.sol:62-63` and `blockchain-service.ts:94-98` | operators only |
| `Roles` | `Roles.sol` | `roles`, `rolesOwner`; one action per call |
| `AuditTaxRepository` | `AuditTaxRepository.sol` | `totalCollected`, `repoBalance` (the ether), `authorizedRequest` |
| `Reputation` | `Reputation.sol`; extends `Roles` | `reputation`, `authorizedBuyer` |
| `Request` | `Request.sol`, with instances of the three modules above | `req`: address -> storage and ether; `wallet`: what each address gained |
| `Escrow` | abstract: what the market promises about money | `job`, `pool`, `wallet` |
| `Market` | abstract: what the server promises those who call it | `status`, `executor` of each task, `audited`: those whose audit was asked for; a `Step` for each endpoint answered with success, `Overtake` for requests that overlap, `Forget` (a restart) |
| `Server` | `server.ts`, `blockchain-service.ts`, with instances of `Request` and `Reputation` | `tasks`, `handler` (a pc per HTTP request in progress) |
| `Sandbox` | `executor_docker.sh` | `child` (its place in the script, what it still has to write, its zip and status), `pipe` |
| `Daemon` | `executor_daemon.cpp`, `executor-daemon.service`; extends `Sandbox` | `daemon` (its place in the code, its buffers), `backlog`, `sock` |
| `Executor` | `client.ts`; extends `Daemon`, with an instance of `Market` | `client` (a place in the polling loop each), `processed`; `accepted`, what the server took from each, whether it heard so or not |
| `RemoteRun` | abstract: what a client may expect of having its code run | `call` |
| `Frontend` | `FRONTEND/src`, with an instance of `Market` | `page`, `cache`, `dialog`, `calls`, `timers` |
| `ReputationProofs`, `RequestProofs`, `EscrowProofs`, `ServerProofs`, `MarketProofs`, `ExecutorProofs`, `RemoteRunProofs`, `FrontendProofs` | the proofs | |
| `MC*` | values of the constants for TLC | |

**A call of a contract is one action.** A transaction runs to its end or reverts, so
`CanX` collects everything the call requires, nested calls included, and
`X` is the call that succeeds. A call that reverts changes nothing and is no
action. Accounts are externally owned: ether sent to them arrives and runs no code.
Ether is conserved by the EVM; `wallet` and `balance` record where it goes.

**A handler of the server is a process.** JavaScript runs without interruption from
one `await` to the next. `StartX` is the code up to the first `await`, `CallX`
the transaction being mined (`Call`: it succeeds, it reverts, and where
`Faulty` it is lost or mined without the handler learning of it), `ResumeX` the code
after it. The task a handler works on is a shared object, so what it reads after
an `await` is read from `tasks` at that time, and only what the code keeps in a local
variable is kept in `handler`. Awaits on reads only (the account list, the
scores) are a step boundary where the code tests before and writes after
(`claim`, `storeAudit`, `appoint`), and are merged into the next call elsewhere.

**The executors are processes that share a socket.** A client is at one `await` of its
polling loop: the two lists (`List`, in either order), the connection (`Connect`),
the reply (`Data`, `Closed`), the submission (`Submit`). The daemon is at `accept`, in
`recv`, in its read loop (`Select`, then `Poll`, the `waitpid` that does not block), in the final
`waitpid` (`Wait`), or sending. The child is the script, at one of its docker commands; it
writes whenever its pipe has room, closes its
pipes when it ends (`Leave`), and can be waited for only after that (`Exit`), which is the window the
read loop has to get right. Bytes are counted in units (a word of the header, or what one
`read` returns), so that a pipe can be full and a reply cut at each place that
matters. `sock[c]` keeps what was sent; `client[c].got` is how much of it has arrived.

**The script fails in more ways than its program.** `ExecFails` is a script that cannot be started: its process
ends without a word. `Prepare` stands for the volume and the first
two containers, up to the start of the program; `DockerFails` leaves docker's complaint on stderr and no
output. A program that fails ends the script before `Archive`; `zip` fails when there
is nothing to archive; `ArchiveFails` is a third container that does not start, or one whose `apk add` fails,
which the script takes for done; `LeaveFails` is the trap's `docker volume rm`, whose status
becomes the script's. A volume belongs to one run and is removed at its end, and is therefore no
variable.

**A window is one event loop.** An event is one action: a timer, an answer that
arrives, a click. A request of the query cache is sent, answered by the server (`Answer`) and
received (`Arrive`) in three steps, and `Invalidated` follows react-query in when it
abandons a request under way and when it joins it. A mutation is handled by the server (`Handle`) and its
success arrives later (`Succeed`); in between the dialog may be dismissed, the page left, or the
button pressed again, after which the callbacks given to `mutateAsync` are not called any more (`heard`). A
call of which nothing is heard is forgotten by the window and goes on as `Elsewhere`, which is also
everything other windows, the executors and automatic assignment do. `Task` bounds the tasks that can
be created, `MaxCalls` the calls unanswered at one time.

**`Market` joins the parts.** To an executor and to a window the server is `Market`: a request that succeeds is one
`Step`, and any number of others may be taken between two of their own. `Server` has what can happen within a
request, and implements `Market`. One request at a time takes nothing but `Step`s, whatever
fails (`ServesInOrder`). Requests that overlap may also `Overtake` each other (`ServesMarket`), in two
ways. An appointment or a claim is written without looking again who is appointed (`Rename`;
`server.ts:429`, 507, 585). And once the audit of a task was asked for, its contract may have opened a second attempt: a
request that was checked before then succeeds, and writes what it was asked for over a newer status (`Late`;
`server.ts:611`, 705, 920, 929). What `ServesMarket` still promises then is that no task is completed
without an executor, that none goes back to waiting or to a second audit, and that until its audit is asked for it goes through its
life in order.

`Executor` runs over all of `Market`: `Overtake` and `Forget` are among its faults. That a `Step` can be
taken does not mean that the contract takes it, so each submission may also be refused, any number of times: the
contract appoints no executor that only claimed the task (`server.ts:585`), and it refuses every audit until the request is authorised to draw
the fee (by the deployer, `blockchain-service.ts:132-134`) and the pool holds it. `Executor` starts with its tasks
posted. `Frontend` takes `Step`s only, one request at a time, and no restart: with `Rename` a message that
names the account a task was assigned to may be outdated when it is shown, and with `Late` a list goes back.

**Abstractions.** A `Body` has what the server tells apart of one: the string of the old format, stdout, and whatever else
(stderr and exit code), each of which may be missing. `Hashed` is the text of it that is hashed, `Stored` the string that is
kept. (A string that imitates the labels the server puts around parts is left out.) `HashOf` is injective and never zero (sha256). Trimming is a
function `TrimOf` on the printed texts. Account lists, timestamps, zip data,
requirements and events are left out. The epsilon-greedy choice is the set of accounts it may
return (`Selectable`): the best with epsilon 0, otherwise any, since each can then be the one that
is explored. Executor and account index, always written together, are one field. `Buyer`
are accounts that were granted BUYER without being admins.

`...Mutant` operators are deliberate errors: the same operation with a guard
dropped or a step forgotten. No specification uses them; each property is shown to fail
when the one named for it in `PROJECT.json` takes the place of the real operation.

## 3. What is checked

| Run | Question | Bounds |
|---|---|---|
| `permissions` | `Roles` and `Reputation` together: who can change roles and scores, when, how often? | a 3-bit score, 2 accounts and address(0), admins that come and go, deltas of both signs, the smallest one included (a third account adds no new kind of transfer) |
| `request` | the whole state machine of a request | 1 request, 3 accounts, 2 hashes and zero, payments of 0, 1 and 11 wei (nothing to escrow; one wei stranded), a pool too poor for an audit until someone donates, role churn with a second admin and a zero-address seller |
| `request_two` | two requests on one pool | 2 requests, non-zero hashes, a pool that pays one audit |
| `server_sequential` | one handler at a time: is the server the `Market` its callers rely on? | faults and restarts on; texts that trimming makes equal, the empty one, bodies of every shape (in parts, with stderr only, a string, both), a buyer that is no admin, prices of 0, 1, 7, 10 and 90 wei (none at all; three remainders modulo 9; the pool can pay no audit of the last) |
| `server_faults` | overlap and failure together | 2 handlers, up to their symmetry, faults and restarts on; a body in parts whose stdout trimming changes, a string, and a body whose string and stdout disagree |
| `server_liveness` | is a completed task paid? | 2 handlers, fair; stdout bodies of two texts |
| `executor` | do the executors get the work done, whole and once? | 2 clients, 1 daemon, 1 task, pipes of one unit; a run writes two units to stderr and leaves a file, or leaves none, or fails; the contract refuses as often as it likes; 1 fault of any kind at any time, the script's own, a restart of the server and an overtaking request included |
| `frontend` | does a window show what happened? | 1 task, 2 accounts, 2 unanswered calls, 1 failed request |

Two hashes are enough to be right, wrong, and wrong in the retry as well; a third
would only be another wrong one. Two sellers are needed for an executor and
its auditor, and are enough for both to swap roles. Rejection can repeat without
limit, so the state machine is explored through any number of retries. In the
server runs there is one task: handlers of different tasks share nothing but the
pool, which `request_two` covers, and the scores, which only add up; `ServerProofs` and
`MarketProofs` have any number of tasks. In `frontend` the two accounts are what it takes to edit a field while a call is
under way, two calls what it takes to press a button again, and one task exercises the list, its
details and each kind of dialog: entries of different tasks share only the list, whose rows
arrive together. Two clients are
what an executor and an auditor need, and what it takes for one to wait in the backlog
while the other is served; a pipe of one unit is full as soon as it holds anything. The bound on faults
(`MaxFaults`) makes "once the faults stop" expressible; with two the run no longer ends in
five minutes. The window's one fault may be the health check, an answer or a call. `TooLarge` is
empty in the run: an oversized program closes the connection without an answer, as one whose client is gone does.

No run asks TLC for deadlock: in each of these systems stopping is real. The roles
may be frozen with no authorisation left, a request completed with no admin to
authorise a withdrawal, every task settled.

`AuditTaxRepository` and `Payment` have no run of their own. The pool is checked in the
use the market makes of it: `request` with a pool that is too poor, `request_two` with
two clients (`DrawsSpendAuthorisations`; the books are a conjunct of `Inv`). The
arithmetic is proved for every number, and `PriceIsEscrowed` checks how the
server and the constructor use it.

### Runs that find a disagreement

These check one statement of the repository's own text and TLC refutes it:

* `server_reassigned` - *"Prevent re-assignment if already assigned"*, *"Auto-assign if not already assigned"*,
  *"verify it's the same executor"* (`server.ts:407`, 582, 588): a claim that found no executor overwrites the one who was
  appointed while it waited for the account list. The contract then refuses the one and the server the other. No call fails in
  this run; two handlers are enough.
* `server_audited` - *"finalized: Buyer finalizes task (only if audit passed ...)"*: only if
  there was no audit.
* `executor_status` - *"Status (4 bytes): 0 for success, 1 for failure"*: the status is that of
  a child already waited for, an uninitialised variable. The run has the daemon in the
  foreground, where it depends on a race; started as a daemon it ignores SIGCHLD, and it is so every time.
* `executor_stuck` - *"@returns Execution result or null on error"*: neither, if the daemon is killed
  after the header (`CutReplies`). The run `executor` leaves out that one moment, and all other
  faults of the daemon are answered.

### What the passing runs leave open

* `VerdictFollowsHash` is about a task with a stdout that is audited by an output in parts whose stdout is what is
  hashed (`InParts`). For these it holds with any number of handlers and any trimming, and it is proved. Otherwise
  `server.ts:905-913` compares something else than the hashes, and no text says what should count. Two plain strings are
  compared as stored, and a second auditor's may have replaced `auditorResult` while the first one's calls were in
  flight (`server.ts:863`, 912). With an empty stdout beside a string, the string is hashed and the empty text compared. And with two
  outputs that trimming makes equal, the server lets the audit pass while the contract has two different hashes, and
  rejects the result: the property says only that the verdict is about what was hashed.
* `ServesInOrder` is for one handler. With two, `Market!Overtake` happens: a finalized task can go back to the audit's
  status, and a claim overwrites an appointment. `ServesMarket`, `StatusIsOnChain`, `VerdictFollowsHash` and
  `RatedOncePerTask` are what is left then, for any number of handlers.
* `AssignedIsCompleted` and `AuditIsAnswered` have a premise, `Willing`: some day the contract refuses nothing more that the
  server would accept for this task. Without it they are false, as they are in the code: nothing authorises a request
  by itself, nothing sees to it that the pool holds the fee, and the clients try every five seconds for ever (`client.ts:431`). `Willing` is about steps of the
  contract only; that some client then gets through, though others are in its way, runs fail
  and lists are out of date, is the property.
* `NoWorkTwice` is about what the server *took*. A client that got no answer does not know (`client.ts:426-432`), does not
  mark the task, and is kept from doing it again by the status it lists; a client whose submission was refused
  does it again in a later round, and may.
* `RetryEvaluatedAtOnce` holds for non-zero hashes, which sha256 gives, and is
  proved for them; `server.ts` sends no others. The contract would accept the zero hash from an
  auditor (`Request.sol:180`) and then take it for no answer (line 159): the
  retried result waits for ever and the escrow is locked.

Other facts met while modelling, which no run states:

* `Roles.sol:5` says the owner can grant and revoke roles. It can while it has ADMIN:
  `transferOwnership` to oneself takes it away (lines 66-67), and so may another admin.
* `AuditTaxRepository.sol:27` expects that an audit is not called until the pool can pay it;
  `requestAudit` does not ask the pool. The auditor's answer then reverts.
* After `audit_failed` the contract waits for another executor, but no endpoint lets the
  server appoint one.
* "Manual assignment is still available" (`README:597`) is not so after a premature
  `/complete` of a task whose automatic assignment failed: the claim is stored in memory only
  (`server.ts:585`), the contract refuses the result, and `/assign` refuses from then on.
* A client that goes away while its code runs takes the daemon with it: the reply raises
  SIGPIPE, which the daemon does not handle and systemd does not count as a failure
  (`Send`, state `"stopped"`). `AssignedIsCompleted` and `AuditIsAnswered` except that case.
* A run that cannot be started has an empty output and status 1, as a program that prints nothing
  and fails (`RunFails`; or, with docker's complaint on stderr, `DockerFails`). The client submits it as
  the task's result, whose hash is that of the empty text; an auditor with the same trouble confirms it.
* A program that succeeds but writes no files is reported as failed: `zip` has nothing to
  do and exits with 12 (`Archive`). The files of a program that fails are never archived. An `apk add` that fails
  counts as success, with an empty zip.
* A price of 0 passes the server's validation; the server then sends no value, which the constructor refuses.
* After a failed first health check the window says "Checking system health..." until it is
  reloaded (`HealthFails`): the query has `retry: 0` and no interval, and axios throws for the 503 that would have
  shown the other page.
* Finalizing a task invalidates the key `['Tasks', 'Account']`, which no query has; the list
  changes with the next poll (`Refreshed`). A refused finalization is not shown at all.
* The five-second timer of a success closes whichever dialog of that kind is open by then, and
  the audit's `onClose` runs after the `await`, so it does the same at once (`TimerFires`, `Succeed`); "Audit
  requested" is therefore never seen.
* A dialog reopened while a request for its task is under way is joined to that request, and may
  show what was true before the row changed; if the request fails it is empty (`Open`, `FetchFails`).
* Pressing "Create" twice creates two tasks.
* With three handlers an assignment and a completion that passed their tests early can take
  a task whose audit failed back to `completed` (`Market!Late`): the contract has then indeed accepted another result.
* The auditor of an attempt that failed can be appointed executor of the next one (`Request.sol:110-119` does not look at the
  auditor). `Request.t.sol:399-403` does so on purpose, and no property forbids it.

## 4. Fairness

Contracts promise no progress: nobody has to call them. `Request`, `Roles` and the
others have safety properties only.

`Server!FairSpec` assumes (a) weak fairness of every handler's next step: the event
loop resumes a handler whose await is settled, and the node mines or rejects every
transaction (the run has no faults); (b) strong fairness of *starting* `/finalize`
for each task: its owner keeps asking as long as asking is possible again and again.
(b) is about the user, and is strong because overlapping handlers can disable
the request in between. Nothing is assumed of the other endpoints: nobody has to
assign, complete, audit or answer. Under these `CompletedIsSettled` holds,
and `AuditedIsFinalized` (run `server_audited`, with the same fairness) does not, since after an audit `/finalize` is never possible.

`Executor!FairSpec` assumes weak fairness of each client's next step, of the daemon's and of
its child's: event loops and processes are scheduled, connections deliver what was sent, and the
program a client sends ends (the daemon has no timeout, so it waits for one that does not).
The daemon's steps include `Restart`, which systemd does after a failure only (`Restart=on-failure`): a daemon
that was stopped, by a signal it handles or by SIGPIPE, stays down, and the properties say so. Faults are
under no fairness and are bounded; refusals by the contract are neither faults nor bounded, and `Willing` is a premise of the two
properties that need them to end. Nobody has to ask for an audit or pay.

`Frontend!FairSpec` assumes weak fairness of the list's timer, of every query's answer and of its
arrival: the browser runs its timers, and a query is answered or fails. Nothing is
assumed of the user, nor of calls and closing timers.

## 5. What is proved

All proofs are checked by TLAPS for any number of accounts, requests, hashes and payments, and of
handlers, clients and tasks. The assumptions are those on the constants in `Roles` (`AccountAssumption`),
`Request` (`RequestAssumption`), `Reputation` (`ScoreAssumption`), `Server` (`ServerAssumption`), `Sandbox`,
`Daemon`, `Executor` and `Frontend`: the deployer is an account, address(0) is not, amounts are natural numbers, the
zero hash is not a result's hash, a pipe holds at least one unit, a window sees finitely many tasks. TLC
evaluates them. Two theorems have a hypothesis of their own, named in their statement:

| Theorem | Hypothesis | Why |
|---|---|---|
| `RetriesAreEvaluatedAtOnce` | no submitted hash is zero | true of sha256; the contract accepts a zero hash (section 3) |
| `RatingsAreOncePerTask` | `IsFiniteSet(Req)` | it counts tasks |

* `ReputationProofs`: of `Roles` by itself, which `Reputation` never writes, typing,
  `FrozenWithoutAdmin` and `OwnershipMovesAdmin`; of both, that scores stay within their type, and
  `WithoutAdminAuthorisationsRunOut`.
* `RequestProofs`: for every price the escrow is the price, a payment one wei smaller
  would not do, and at most one wei is stranded. `Inv` is inductive, and implies `TypeOK`, `EscrowBacked`,
  `PaidForAcceptedResult` and `RetryStartsClean`; from it, `AuditIsFinal`,
  `DrawsSpendAuthorisations` and `RetryEvaluatedAtOnce`.
* `EscrowProofs`: `Request` implements `Escrow`.
* `ServerProofs`: `ServerInv` is inductive, with faults and restarts, and implies `TypeOK`, `StatusIsOnChain`,
  `PriceIsEscrowed` and `NoRightsLent`; and `EscrowBacked` and `PaidForAcceptedResult` of the contracts behind
  the server (`MoneyIsSafeBehindServer`). `RatingInv` is, and implies `RatedOncePerTask`.
* `MarketProofs`: `LifeInv` is inductive, for any number of handlers, and gives the refinement `ServesMarket` and
  `VerdictFollowsHash`.
* `ExecutorProofs`: `WorkInv` is inductive, over any server that keeps to `Market`, and gives `NoWorkTwice`, whatever fails.
* `RemoteRunProofs`: `HostInv` is inductive, with every fault, and gives `TypeOK` and the refinement
  `RunsRemotely`.
* `FrontendProofs`: `WindowInv` is inductive, and gives `TypeOK`, `MessageIsTrue` and `NeverGoesBack`.

**The contracts.** Every call of a `Request` replaces one storage record, so the
invariant is a predicate of one record, `Sound`, for all of them. It has three
parts. `EscrowSound` ties the escrow to the cost and the contract's ether.
`AttemptSound` ties executor and result to the state: without "no result while
waiting for one" a rejection followed by `completeRequest` could not be ruled out.
`AuditSound` ties the two hashes, `faultyResult` and `auditRequired`:
`PaidForAcceptedResult` alone is not inductive, since nothing in it says that a request in
state Audited has equal hashes, or that one never audited has no answer on record,
which is what keeps `assignResult` from judging it. Each call has a lemma (`DeploySound`,
...: the record it leaves is typed and sound), `Replaced` puts the record back,
and `InvNext` adds that the roles, the pool and the wallets stay typed and the pool's books
right. For the refinement, `JobOf` is what `Escrow` sees of one record: each call
changes it as one abstract step does, or not at all.

`RetriesAreEvaluatedAtOnce` needs one more fact, `Judged`: an answered audit has a
non-zero answer. It is exactly what a zero hash would take away.

**The server.** Every transaction the server sends is a call of the contracts, or leaves them
alone; so `RequestProofs`, instantiated with the server's accounts, hashes and amounts, gives the
contracts' invariant behind it. What a handler writes to `tasks` after an `await` rests on what it saw
before, when other handlers have since been at the same contract. Two predicates make that an
induction. `Progress` is what no call takes back of a contract: that a result was handed in, that an audit
was asked for or answered, that it is paid, its owner and its cost. `Reached` says for each place a handler can be at
which of these facts it has established. A call by one handler keeps the others' `Reached`, by
`Progress`; and each write of a status (`TaskSound`) follows from the writer's own. `StorageSound` has
the price, and for `NoRightsLent` that the storage of an owner without ADMIN is as deployed; the server changes no
roles, so who is an admin does not change. A lost receipt is a call whose handler goes away, and a restart forgets
tasks and handlers: both only remove what has to be shown.

*Ratings.* A rating follows a call that the contract lets pass once: `completeRequest`, after which the
request is completed, or `assignAuditResult`, after which the audit is answered. `RatedOncePerTask` bounds
the scores by counting such tasks, and is not inductive: between the call and the rating the task is
counted and the score has not moved, and another handler's rating must not take that place. `RatingInv` therefore counts
the tasks whose call has passed and of which *no handler has the rating still to send* (`Awarded`, `Judged`, `Thanked`), and
adds that no two handlers have the same one to send (`Alone`). A handler enters the stretch between call and
rating only by the call itself, when the contract had not let it pass before (`Orderly`); so the three sets only grow, and a
rating that is sent adds its task to one of them. A handler that fails on the way adds it without a rating, which is why this is
an upper bound.

*The life of a task.* A handler writes what it tested one or more awaits before, and others have been at the task since. So
`LifeInv` adds to `ServerInv` what it can still rely on (`Follows`): the auditor's handlers, that the status is `audit_requested` or the
audit has been answered; the handler that has just paid, that the task is completed, finalized, or its audit answered; the one that opened an
audit, that the task is still completed. None of these can be taken back by another handler before the audit is answered,
for two reasons: each of the calls such a write depends on passes once, so that two handlers are never at the same place before the write
(`Clash`), and the other writes need tests that fail by then. After the answer `Market` allows `Late`. Each write is then
one step (`MayWrite`): storing a task is `Post`, a name is `Appoint` or `Rename`, a result is `Complete` or `Late`, and
so on. The calls and the writes of the auditor's fields are stutters, since what fails halfway has not been shown; a restart is
`Forget`.

*Verdicts.* The verdict is written by a handler that put its own body's hash on chain, awaited the receipt and then compared
its body with the task's result. By then other auditors' handlers may have stored their texts, but none can have put
a hash on chain, since the audit is answered; so the hash there is still that of its body, the last conjunct of `Follows`.

**The executors.** A job is `Due` to a client if the server did not take it from the client before, the client does not know
of anything done for the task, and, if it is an audit, the task is not waiting. What is on a client's lists or in its hands
is due (`FoundAreDue`, `InHandIsDue`). A job that was taken is `Over`: `Market` never takes its task back to a status
in which it is listed again, by no overtaking request or restart either. That is why a lost answer does no harm,
and it is the one thing the proof needs of the server.

**A remote run.** `RunsRemotely` says that what a client submits is the whole of what one run of its code left, or the empty
reply of a run that could not be started. The bytes are spread over the host, so `HostInv` puts
them back together. What a run prints is the daemon's buffer, then the pipe, then what the script has still to
write (`Through`): moving a unit from one to the next leaves the three together as they were. Their sum is empty before
the program, the program's output during it, and one of the run's `Leavings` once the script is on its way out. A stream
the daemon has taken for ended has nothing left in its pipe and no writer, which is what makes
the final `waitpid` the end of the output. On the connection, what was sent and what is to be sent are together a
reply to its request, and what was sent is the beginning of one (`Begins`), even if the daemon is killed in between. Since the
header announces three lengths, a client that has that much has all of it. A connection that
is open at the daemon's end is in the backlog, once, or the one being served (`ConnectionsSound`), so that no client gets another's
reply.

**A window.** The server's tasks only get older (`Ages`): each step of `Market` raises a task's rank, keeps its executor and what
was asked for. So an entry of the cache shows nothing younger than the server has (`Fits`), and an answer under way nothing
older than the entry that it will replace (`NotBefore`), which is what `Invalidated`, by abandoning requests, is for;
`NeverGoesBack` follows. An assignment that is unanswered belongs to the dialog that is open
and, once accepted, names the task's executor, who does not change (`CallSound`); so the
message is true when it is shown and stays so. `TypeOK` bounds the timers by the number of tasks, and for that needs that each
was set by the success of a call for another task (`TimersSound`): a task is assigned, and its audit asked for, once.

**Only model-checked.** `ServesInOrder`, for one handler. Liveness: `CompletedIsSettled`, `SendCodeReturns`, `AssignedIsCompleted`,
`AuditIsAnswered`, `ListCatchesUp` and `DetailsCatchUp`. Liveness under fairness and ENABLED are beyond the prover,
as is induction over data, which nothing here needs. TLC also checked each of the inductive
invariants on the instances of section 3 before it was proved.

## 6. Not modelled, and why

* `EXECUTOR/client.py`: a manual test that speaks the daemon's protocol once; `Executor` has the
  same exchange.
* `/accounts` and `/reputation/:address` give out addresses, balances and scores that no property
  is about. `sendPayment` is imported and never called.
* `SubmitResultModal` and `taskComplete`, which no view uses; the lists of accounts; forms, texts
  and layout.
* Docker's isolation is taken as given. A script that outlives a daemon that was killed is left out: systemd
  kills the whole group. So is a zip that is cut short because the disk is full.
* The daemon's start (`daemonize`, `socket`, `bind`): one step that succeeds.
* In `Frontend` the server does not restart, and requests do not overtake each other. In `Executor` a server that was restarted
  has no tasks left, and no new ones are posted.
* A task that failed its audit is not executed again (no endpoint reopens it).
* Gas, reentrancy by contract accounts, `selfdestruct`ed ether: accounts are
  externally owned in this deployment (Hardhat's). Withdrawals are by requests.
* `send-op-tx.ts` and the ignition modules: templates of the toolchain.

## 7. Plan

In order of importance; the first eleven are done.

1. `Payment`, `Roles`, `AuditTaxRepository`, `Reputation`: the parts `Request` calls.
2. `Request` and `Escrow`; the invariant, and its proof.
3. `Server` over the contracts, with faults, restarts, liveness and a buyer without ADMIN.
4. `Sandbox`, `Daemon` and `Executor`: the clients, the daemon and its script, with crashes and
   liveness; `RemoteRun`, which they implement.
5. `Market`, which `Server` implements; `Executor` and `Frontend` over it.
6. Proofs of the contracts: `ReputationProofs`, `RequestProofs`, `EscrowProofs`.
7. Proofs of what uses them: `ServerProofs`, `ExecutorProofs`.
8. `RunsRemotely` as a theorem: `RemoteRunProofs`.
9. `ServesMarket` and `VerdictFollowsHash` as theorems for any number of handlers: `MarketProofs`.
   `RatedOncePerTask` as a theorem: `ServerProofs`.
10. `NeverGoesBack` and `MessageIsTrue` as theorems: `FrontendProofs`.
11. What remains true of the life of a task with any number of handlers: `Market` with `Overtake`, and `Executor` over it.
12. The product of `Server` and polling executors, so that several auditors' handlers overlap as
    their polling makes them; two tasks in one run of the server.
13. `Frontend` over requests that overtake each other, with what a window can then still promise.
