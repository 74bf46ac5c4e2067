------------------------------ MODULE Executor ------------------------------
(***************************************************************************)
(* The executors of a market: client processes (client.ts) that poll the   *)
(* server for tasks, have a daemon run the code, and submit the output.    *)
(* They share one host, and so one daemon.                                 *)
(*                                                                         *)
(* The server is any that keeps to Market, as Server is shown to; requests *)
(* that overtake each other are faults, as its restarts are.  MaxFaults    *)
(* bounds the faults of a behaviour: they may come at any time, and some   *)
(* day stop.                                                               *)
(***************************************************************************)
EXTENDS Daemon, FiniteSets

CONSTANTS
    MaxFaults   \* bound: failed requests and runs, crashes, shutdowns, overtaking requests

Task == Code    \* a task is known by the code it asks to be run

ASSUME ExecutorAssumption == MaxFaults \in Nat

VARIABLES
    status,     \* the server's tasks, as in Market
    executor,
    audited,
    client,     \* client -> its place in the polling loop
    processed,  \* client -> processedTasks
    accepted,   \* client -> the jobs the server took from it, its answer heard or not
    faults      \* how many faults there have been

Market == INSTANCE Market
            WITH Seller <- Client, NoOne <- NoClient, Verdict <- {"audited"}

serverVars == <<status, executor, audited>>
doneVars == <<processed, accepted>>
vars == <<daemonVars, serverVars, client, doneVars, faults>>

Mode == {"execute", "audit"}
Job == [task : Task, mode : Mode]
NoJob == [mode |-> "none"]

\* The start of a round: both lists are asked for, nothing is found yet.
Round == [pc |-> "poll", pending |-> Mode, found |-> {}, job |-> NoJob, got |-> 0]

Size == {0, 1} \cup UNION {{Len(run.stdout), Len(run.stderr), Len(run.stderr) + 1, Len(run.files)} :
                             run \in UNION {Runs[code] : code \in Code}}

TypeOK ==
    /\ Market!MarketTypeOK
    /\ processed \in [Client -> SUBSET Task]
    /\ accepted \in [Client -> SUBSET Job]
    /\ faults \in 0 .. MaxFaults
    /\ \A c \in Client :
          /\ client[c].pc \in {"poll", "next", "connect", "receive", "submit", "hung", "off"}
          /\ client[c].pending \subseteq Mode
          /\ client[c].found \subseteq Job
          /\ client[c].job \in Job \cup {NoJob}
          /\ client[c].got \in 0 .. Len(sock[c].data)
          /\ \A i \in 1 .. Len(sock[c].data) :
                sock[c].data[i] \in IF i = 1 THEN {0, 1} ELSE IF i <= 4 THEN Size ELSE Output
    /\ daemon.pc \in {"accept", "receive", "select", "poll", "wait", "reply", "failed", "stopped"}
    /\ daemon.client \in Client \cup {NoClient}
    /\ Len(pipe.out) <= PipeSize /\ Len(pipe.err) <= PipeSize

Init ==
    /\ DaemonInit
    /\ status = [t \in Task |-> "waiting"]
    /\ executor = [t \in Task |-> NoClient]
    /\ audited = {}
    /\ client = [c \in Client |-> Round]
    /\ processed = [c \in Client |-> {}]
    /\ accepted = [c \in Client |-> {}]
    /\ faults = 0

At(c, pc) == client[c].pc = pc
Goto(c, pc) == client' = [client EXCEPT ![c].pc = pc]
JobOf(c) == client[c].job

-----------------------------------------------------------------------------
(* Polling: findAssignedTasks and findAuditTasks, in parallel.             *)

\* Mutant: only appointed auditors audit.
MatchesMutantAppointed(c, t, mode) ==
    /\ \/ mode = "execute" /\ status[t] = "waiting"
       \/ mode = "audit" /\ status[t] = "audit_requested"
    /\ executor[t] = c
    /\ t \notin processed[c]

\* Everybody audits everything, its own work included: the server says no to that.
Matches(c, t, mode) ==
    /\ \/ mode = "execute" /\ status[t] = "waiting" /\ executor[t] = c
       \/ mode = "audit" /\ status[t] = "audit_requested"
    /\ t \notin processed[c]

\* The answer to one of the two requests; a failed one counts as an empty list.
Listed(c, mode, jobs) ==
    /\ At(c, "poll")
    /\ mode \in client[c].pending
    /\ client' = [client EXCEPT ![c].pending = @ \ {mode},
                                ![c].found = @ \cup jobs,
                                ![c].pc = IF client[c].pending = {mode} THEN "next" ELSE "poll"]
    /\ UNCHANGED <<daemonVars, serverVars, doneVars>>

List(c, mode) ==
    Listed(c, mode, {job \in Job : job.mode = mode /\ Matches(c, job.task, mode)})

\* Mutant: a task done stays on the list of the round.
TurnMutant(c) ==
    /\ At(c, "next")
    /\ \/ client' = [client EXCEPT ![c] = Round]
       \/ \E job \in client[c].found :
             client' = [client EXCEPT ![c].pc = "connect", ![c].job = job, ![c].got = 0]
    /\ sock' = [sock EXCEPT ![c].data = <<>>]
    /\ UNCHANGED <<daemon, child, pipe, backlog, serverVars, doneVars>>

\* The next task of the round, the assigned ones first, or after all of them the
\* pause before the next round.  What was received for the last one is dropped.
Turn(c) ==
    /\ At(c, "next")
    /\ \/ /\ client[c].found = {}
          /\ client' = [client EXCEPT ![c] = Round]
       \/ \E job \in client[c].found :
             /\ job.mode = "audit" => \A other \in client[c].found : other.mode = "audit"
             /\ client' = [client EXCEPT ![c].pc = "connect", ![c].job = job,
                                         ![c].found = @ \ {job}, ![c].got = 0]
    /\ sock' = [sock EXCEPT ![c].data = <<>>]
    /\ UNCHANGED <<daemon, child, pipe, backlog, serverVars, doneVars>>

-----------------------------------------------------------------------------
(* sendCode.                                                               *)

\* The connection is refused, or the request is written on it.
Connect(c) ==
    /\ At(c, "connect")
    /\ \/ /\ Down
          /\ Goto(c, "next")
          /\ UNCHANGED <<backlog, sock>>
       \/ /\ ~Down
          /\ backlog' = Append(backlog, c)
          /\ sock' = [sock EXCEPT ![c] = [open |-> TRUE, ended |-> FALSE,
                                          code |-> JobOf(c).task, data |-> <<>>]]
          /\ client' = [client EXCEPT ![c].pc = "receive", ![c].got = 0]
    /\ UNCHANGED <<daemon, child, pipe, serverVars, doneVars>>

\* Enough data for the header, and for all it announces.
Complete(data) == /\ Len(data) >= 4
                  /\ Len(data) >= 4 + data[2] + data[3] + data[4]

\* A chunk of the reply, of any length.
Data(c) ==
    /\ At(c, "receive")
    /\ \E n \in client[c].got + 1 .. Len(sock[c].data) :
          IF Complete(SubSeq(sock[c].data, 1, n))
          THEN /\ client' = [client EXCEPT ![c].got = n, ![c].pc = "submit"]
               /\ sock' = [sock EXCEPT ![c].open = FALSE]
          ELSE /\ client' = [client EXCEPT ![c].got = n]
               /\ UNCHANGED sock
    /\ UNCHANGED <<daemon, child, pipe, backlog, serverVars, doneVars>>

\* The daemon has closed the connection.  The promise is resolved with null only if
\* no header was received; otherwise nothing resolves it any more.
Closed(c) ==
    /\ At(c, "receive")
    /\ sock[c].ended
    /\ client[c].got = Len(sock[c].data)
    /\ Goto(c, IF client[c].got >= 4 THEN "hung" ELSE "next")
    /\ sock' = [sock EXCEPT ![c].open = FALSE]
    /\ UNCHANGED <<daemon, child, pipe, backlog, serverVars, doneVars>>

-----------------------------------------------------------------------------
(* completeTask and submitAuditResult.                                     *)

Accepts(c, job) == IF job.mode = "execute" THEN Market!CanComplete(job.task, c)
                                           ELSE Market!CanAudit(job.task, c)

Hand(c, job) ==
    /\ IF job.mode = "execute" THEN Market!Complete(job.task, c)
                               ELSE Market!Audit(job.task, c)
    /\ accepted' = [accepted EXCEPT ![c] = @ \cup {job}]

\* The answer decides whether the task counts as processed.  What the server accepts
\* the contract may still refuse, every time: whom it has as executor, whether it may
\* draw an audit's fee and what the pool holds are not seen from here.
Submit(c) ==
    /\ At(c, "submit")
    /\ \/ /\ Hand(c, JobOf(c))
          /\ processed' = [processed EXCEPT ![c] = @ \cup {JobOf(c).task}]
       \/ UNCHANGED <<serverVars, doneVars>>
    /\ Goto(c, "next")
    /\ UNCHANGED daemonVars

Work(c) ==
    \/ \E mode \in Mode : List(c, mode)
    \/ Turn(c)
    \/ Connect(c)
    \/ Data(c)
    \/ Closed(c)
    \/ Submit(c)

-----------------------------------------------------------------------------
(* What can go wrong.                                                      *)

\* Mutant: a task counts as processed whatever became of it.
RequestFailsMutant(c) ==
    /\ At(c, "connect") \/ At(c, "submit")
    /\ processed' = [processed EXCEPT ![c] = @ \cup {JobOf(c).task}]
    /\ Goto(c, "next")
    /\ UNCHANGED <<daemonVars, serverVars, accepted>>

\* A request to the server fails: a list, a task's code, or a submission, which may
\* have been accepted all the same.  runTask then gives the task up for this round.
RequestFails(c) ==
    \/ \E mode \in Mode : Listed(c, mode, {})
    \/ /\ At(c, "connect") \/ At(c, "submit")
       /\ Goto(c, "next")
       /\ \/ UNCHANGED <<serverVars, accepted>>
          \/ At(c, "submit") /\ Hand(c, JobOf(c))
       /\ UNCHANGED <<daemonVars, processed>>

\* The client gets a signal and exits.
Shutdown(c) ==
    /\ ~At(c, "off")
    /\ Goto(c, "off")
    /\ sock' = [sock EXCEPT ![c].open = FALSE]
    /\ UNCHANGED <<daemon, child, pipe, backlog, serverVars, doneVars>>

\* The server is restarted, or requests of others overtake each other.
ServerFault ==
    /\ Market!Forget \/ \E t \in Task : Market!Overtake(t)
    /\ UNCHANGED <<daemonVars, client, doneVars>>

Trouble ==
    /\ faults < MaxFaults
    /\ faults' = faults + 1
    /\ \/ \E c \in Client : RequestFails(c) \/ Shutdown(c)
       \/ Fault /\ UNCHANGED <<serverVars, client, doneVars>>
       \/ ServerFault

\* The server appoints an executor; the buyer asks for an audit, or pays.
Others ==
    /\ \E t \in Task :
          \/ \E c \in Client : Market!Appoint(t, c)
          \/ Market!RequestAudit(t)
          \/ Market!Finalize(t)
    /\ UNCHANGED <<daemonVars, client, doneVars>>

Next ==
    \/ Trouble
    \/ /\ \/ \E c \in Client : Work(c)
          \/ (DaemonStep \/ ChildStep) /\ UNCHANGED <<serverVars, client, doneVars>>
          \/ Others
       /\ UNCHANGED faults

Spec == Init /\ [][Next]_vars

\* Every process that can go on does so: the clients' event loops, the daemon,
\* which systemd restarts after a failure, and the program it runs, which ends.
Fairness ==
    /\ \A c \in Client : WF_vars(Work(c) /\ UNCHANGED faults)
    /\ WF_vars(DaemonStep /\ UNCHANGED <<serverVars, client, doneVars, faults>>)
    /\ WF_vars(ChildStep /\ UNCHANGED <<serverVars, client, doneVars, faults>>)

FairSpec == Spec /\ Fairness

-----------------------------------------------------------------------------
(* What the executors promise.                                             *)

\* The reply a client has received, taken apart as sendCode does.
Reported(c) ==
    LET data == sock[c].data
        part(from, size) == SubSeq(data, from, from + size - 1)
    IN  [status |-> data[1],
         stdout |-> part(5, data[2]),
         stderr |-> part(5 + data[2], data[3]),
         zip    |-> part(5 + data[2] + data[3], data[4])]

OutputOf(reported) ==
    [stdout |-> reported.stdout, stderr |-> reported.stderr, zip |-> reported.zip]

\* What a call may return: what the script leaves, or nothing at all.
Returnable ==
    [code \in Code |-> {Nothing} \cup UNION {Leavings(run) : run \in Runs[code]}]

\* A client's call, as RemoteRun knows it.
CallOf(c) ==
    CASE client[c].pc \in {"receive", "hung"} -> [state |-> "asked", code |-> JobOf(c).task]
      [] At(c, "submit") -> [state |-> "returned", code |-> JobOf(c).task,
                             output |-> OutputOf(Reported(c))]
      [] OTHER -> [state |-> "idle"]

Remote == INSTANCE RemoteRun
            WITH call <- [c \in Client |-> CallOf(c)], Output <- Returnable

\* What is submitted is the whole of what the script leaves of one run of that task's
\* code, or the empty reply of a run that could not be started: never cut short where
\* the script ends before its pipes are read, where the reply arrives in pieces or
\* where the daemon dies, and never another task's (executor_daemon.cpp:125-170,
\* client.ts:99-154, executor_docker.sh:75-92).
RunsRemotely == Remote!Spec

\* "Status (4 bytes): 0 for success, 1 for failure" (executor_daemon.cpp:261), if nothing
\* but the program goes wrong.
StatusIsTrue ==
    \A c \in Client : At(c, "submit") =>
        \A run \in Runs[JobOf(c).task] :
            OutputOf(Reported(c)) = Finished(run) => (Reported(c).status = 0 <=> Succeeds(run))

\* What the server took from a client, the client never does again, though it may not
\* have heard so (the answer was lost), be working from an old list, or see the task
\* appointed anew; and a task it has heard of is none it audits either, its own work
\* included (client.ts:339-361, 428).
NoWorkTwice ==
    \A c \in Client : client[c].pc \in {"connect", "receive", "submit"} =>
        /\ JobOf(c) \notin accepted[c]
        /\ JobOf(c).task \notin processed[c]

\* "@returns Execution result or null on error" (client.ts:61): sendCode returns,
\* whatever the child prints on which pipe and whenever the daemon is killed.
SendCodeReturns ==
    \A c \in Client : At(c, "receive") ~> client[c].pc \in {"next", "submit", "off"}

\* What the server would accept for a task is refused all the same.
Refused(t) == \E c \in Client : /\ At(c, "submit") /\ JobOf(c).task = t
                                /\ Accepts(c, JobOf(c)) /\ UNCHANGED accepted
                                /\ At(c, "next")'

\* Some day the contract refuses nothing any more.
Willing(t) == <>[][~Refused(t)]_vars

\* "Assigned executor automatically executes task and submits result" (README:594):
\* once the faults stop and if the contract takes it, unless that client was shut down
\* or the daemon stopped.
AssignedIsCompleted ==
    \A t \in Task \ TooLarge : Willing(t) =>
        (status[t] = "waiting" /\ executor[t] # NoClient ~>
            \/ status[t] # "waiting"
            \/ \E c \in Client : executor[t] = c /\ At(c, "off")
            \/ daemon.pc = "stopped")

\* An audit that was requested is answered by one of the other clients, none of which
\* was asked in particular (client.ts:352-361): if its contract is authorised to draw
\* the fee and the pool comes to hold it, and one is left that has not done the task.
\* Without that they try again every five seconds, for ever (client.ts:431).
AuditIsAnswered ==
    \A t \in Task \ TooLarge : Willing(t) =>
        (status[t] = "audit_requested" ~>
            \/ status[t] # "audit_requested"
            \/ \A c \in Client : executor[t] = c \/ t \in processed[c]
            \/ daemon.pc = "stopped"
            \/ \E c \in Client : At(c, "off"))
=============================================================================
