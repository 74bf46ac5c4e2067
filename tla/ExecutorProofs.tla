--------------------------- MODULE ExecutorProofs ---------------------------
(***************************************************************************)
(* Proof that no client repeats work that was accepted from it, whether it *)
(* heard so or not, for any number of clients, tasks and faults.           *)
(***************************************************************************)
EXTENDS Executor, TLAPS

Pcs == {"poll", "next", "connect", "receive", "submit", "hung", "off"}

\* At these places a client is busy with its job.
Busy(c) == client[c].pc \in {"connect", "receive", "submit", "hung"}

ClientsTyped ==
    /\ client \in [Client -> [pc : Pcs, pending : SUBSET Mode, found : SUBSET Job,
                              job : Job \cup {NoJob}, got : Int]]
    /\ processed \in [Client -> SUBSET Task]
    /\ accepted \in [Client -> SUBSET Job]
    /\ Market!MarketTypeOK

\* A job that the client may do: nothing of it was accepted from the client before, and
\* an audit is of work that no executor is waited for any more.
Due(c, job) ==
    /\ job.task \notin processed[c]
    /\ job \notin accepted[c]
    /\ job.mode = "audit" => status[job.task] # "waiting"

FoundAreDue == \A c \in Client : \A job \in client[c].found : Due(c, job)

\* The job in hand is due, and is not in the list of the round any more; if it is an
\* audit, only audits are left there.
InHandIsDue ==
    \A c \in Client : Busy(c) =>
        /\ JobOf(c) \in Job
        /\ JobOf(c) \notin client[c].found
        /\ Due(c, JobOf(c))
        /\ JobOf(c).mode = "audit" => \A other \in client[c].found : other.mode = "audit"

\* No market step takes a task back to where a job that was accepted is on a list again.
Over(job) ==
    /\ status[job.task] # "waiting"
    /\ job.mode = "audit" => \/ status[job.task] = "none"
                             \/ job.task \in audited /\ status[job.task] # "audit_requested"

AcceptedAreOver == \A c \in Client : \A job \in accepted[c] : Over(job)

RequestedAreAudited == \A t \in Task : status[t] = "audit_requested" => t \in audited

WorkInv ==
    /\ ClientsTyped
    /\ FoundAreDue
    /\ InHandIsDue
    /\ AcceptedAreOver
    /\ RequestedAreAudited

-----------------------------------------------------------------------------

LEMMA WorkInit == Init => WorkInv
<1> SUFFICES ASSUME Init PROVE WorkInv
    OBVIOUS
<1> USE DEF Init, Round
<1>1. ClientsTyped
    BY DEF ClientsTyped, Pcs, Mode, Market!MarketTypeOK, Market!TaskStatus
<1>2. FoundAreDue
    BY DEF FoundAreDue
<1>3. InHandIsDue
    BY DEF InHandIsDue, Busy
<1>4. AcceptedAreOver /\ RequestedAreAudited
    BY DEF AcceptedAreOver, RequestedAreAudited
<1> QED
    BY <1>1, <1>2, <1>3, <1>4 DEF WorkInv

\* The client's own steps, which leave the server alone.
LEMMA ListKeeps ==
    ASSUME WorkInv, NEW c \in Client, NEW mode \in Mode, NEW jobs \in SUBSET Job,
           \A job \in jobs : Due(c, job), Listed(c, mode, jobs)
    PROVE  WorkInv'
<1> USE DEF WorkInv, serverVars, doneVars
<1>1. /\ client'[c].found = client[c].found \cup jobs
      /\ ~Busy(c)'
      /\ \A d \in Client : d # c => client'[d] = client[d]
    BY DEF Listed, ClientsTyped, Busy
<1>2. ClientsTyped'
  <2> DEFINE next == IF client[c].pending = {mode} THEN "next" ELSE "poll"
             pending == client[c].pending \ {mode}
             found == client[c].found \cup jobs
  <2>1. next \in Pcs /\ pending \in SUBSET Mode /\ found \in SUBSET Job
    BY DEF ClientsTyped, Pcs
  <2>2. client' = [client EXCEPT ![c].pending = pending, ![c].found = found, ![c].pc = next]
    BY DEF Listed
  <2>3. UNCHANGED <<status, executor, audited, processed, accepted>>
    BY DEF Listed
  <2> HIDE DEF next, pending, found
  <2>4. client' \in [Client -> [pc : Pcs, pending : SUBSET Mode, found : SUBSET Job,
                                job : Job \cup {NoJob}, got : Int]]
    <3>1. client[c] \in [pc : Pcs, pending : SUBSET Mode, found : SUBSET Job,
                         job : Job \cup {NoJob}, got : Int]
      BY DEF ClientsTyped
    <3>2. [client[c] EXCEPT !.pending = pending, !.found = found, !.pc = next]
             \in [pc : Pcs, pending : SUBSET Mode, found : SUBSET Job,
                  job : Job \cup {NoJob}, got : Int]
      BY <2>1, <3>1
    <3> QED
      BY <2>2, <3>2 DEF ClientsTyped
  <2> QED
    BY <2>3, <2>4 DEF ClientsTyped, Market!MarketTypeOK
<1>3. FoundAreDue'
    BY <1>1 DEF FoundAreDue, ClientsTyped, Listed, Due
<1>4. InHandIsDue'
    BY <1>1 DEF InHandIsDue, Busy, ClientsTyped, Listed, Due, JobOf
<1>5. AcceptedAreOver' /\ RequestedAreAudited'
    BY DEF Listed, AcceptedAreOver, RequestedAreAudited, Over
<1> QED
    BY <1>2, <1>3, <1>4, <1>5

LEMMA TurnKeeps ==
    ASSUME WorkInv, NEW c \in Client, Turn(c)
    PROVE  WorkInv'
<1> USE DEF WorkInv, serverVars, doneVars
<1>1. /\ UNCHANGED <<status, executor, audited, processed, accepted>>
      /\ \A d \in Client : d # c => client'[d] = client[d]
    BY DEF Turn, ClientsTyped
<1>0. AcceptedAreOver' /\ RequestedAreAudited'
    BY <1>1 DEF AcceptedAreOver, RequestedAreAudited, Over
<1>2. CASE client' = [client EXCEPT ![c] = Round]
  <2>1. Round \in [pc : Pcs, pending : SUBSET Mode, found : SUBSET Job, job : Job \cup {NoJob}, got : Int]
    BY DEF Round, Pcs
  <2>2. client'[c].found = {} /\ ~Busy(c)'
    BY <1>2 DEF Round, Busy, ClientsTyped
  <2>3. ClientsTyped'
    BY <1>1, <1>2, <2>1 DEF ClientsTyped, Market!MarketTypeOK
  <2>4. FoundAreDue'
    BY <1>1, <2>2 DEF FoundAreDue, Due
  <2>5. InHandIsDue'
    BY <1>1, <2>2 DEF InHandIsDue, Busy, Due, JobOf
  <2> QED
    BY <1>0, <2>3, <2>4, <2>5
<1>3. ASSUME NEW job \in client[c].found,
             client' = [client EXCEPT ![c].pc = "connect", ![c].job = job, ![c].found = @ \ {job},
                                      ![c].got = 0],
             job.mode = "audit" => \A other \in client[c].found : other.mode = "audit"
      PROVE  WorkInv'
  <2>1. job \in Job /\ Due(c, job)
    BY DEF ClientsTyped, FoundAreDue
  <2>2. client'[c].found = client[c].found \ {job} /\ client'[c].job = job
    BY <1>3 DEF ClientsTyped
  <2>3. ClientsTyped'
    BY <1>1, <1>3, <2>1 DEF ClientsTyped, Pcs, Market!MarketTypeOK
  <2>4. FoundAreDue'
    BY <1>1, <2>2 DEF FoundAreDue, Due
  <2>5. InHandIsDue'
    <3> SUFFICES ASSUME NEW d \in Client, Busy(d)'
                 PROVE  /\ JobOf(d)' \in Job /\ JobOf(d)' \notin client'[d].found
                        /\ Due(d, JobOf(d))'
                        /\ JobOf(d)'.mode = "audit" =>
                              \A other \in client'[d].found : other.mode = "audit"
      BY DEF InHandIsDue
    <3>1. CASE d = c
      BY <1>1, <1>3, <2>1, <2>2, <3>1 DEF Due, JobOf
    <3>2. CASE d # c
      <4>1. client'[d] = client[d] /\ JobOf(d)' = JobOf(d) /\ Busy(d)
        BY <1>1, <3>2 DEF Busy, JobOf
      <4>2. Due(d, JobOf(d))'
        BY <1>1, <4>1 DEF InHandIsDue, Due
      <4> QED
        BY <4>1, <4>2 DEF InHandIsDue
    <3> QED
      BY <3>1, <3>2
  <2> QED
    BY <1>0, <2>3, <2>4, <2>5
<1> QED
    BY <1>2, <1>3 DEF Turn

\* Any step of a client with its job in hand that keeps the job and the list.
LEMMA MoveKeeps ==
    ASSUME WorkInv, NEW c \in Client, NEW pc \in Pcs, NEW got \in Int,
           client' = [client EXCEPT ![c].pc = pc, ![c].got = got],
           pc \in {"connect", "receive", "submit", "hung"} => Busy(c),
           UNCHANGED <<serverVars, doneVars>>
    PROVE  WorkInv'
<1> USE DEF WorkInv, serverVars, doneVars
<1>1. ClientsTyped'
    <2>1. [client[c] EXCEPT !.pc = pc, !.got = got]
             \in [pc : Pcs, pending : SUBSET Mode, found : SUBSET Job, job : Job \cup {NoJob},
                 got : Int]
        BY DEF ClientsTyped
    <2>2. client' = [client EXCEPT ![c] = [client[c] EXCEPT !.pc = pc, !.got = got]]
        BY DEF ClientsTyped
    <2> QED
        BY <2>1, <2>2 DEF ClientsTyped, Market!MarketTypeOK
<1>2. FoundAreDue'
    BY DEF FoundAreDue, ClientsTyped, Due
<1>3. InHandIsDue'
    BY DEF InHandIsDue, Busy, ClientsTyped, Due, JobOf
<1>4. AcceptedAreOver' /\ RequestedAreAudited'
    BY DEF AcceptedAreOver, RequestedAreAudited, Over
<1> QED
    BY <1>1, <1>2, <1>3, <1>4

LEMMA GotoKeeps ==
    ASSUME WorkInv, NEW c \in Client, NEW pc \in Pcs, Goto(c, pc),
           pc \in {"connect", "receive", "submit", "hung"} => Busy(c),
           UNCHANGED <<serverVars, doneVars>>
    PROVE  WorkInv'
<1>1. client[c].got \in Int
    BY DEF WorkInv, ClientsTyped
<1>2. client' = [client EXCEPT ![c].pc = pc, ![c].got = client[c].got]
    BY DEF Goto, WorkInv, ClientsTyped
<1> QED
    BY <1>1, <1>2, MoveKeeps

-----------------------------------------------------------------------------
(* Submissions.                                                            *)

\* The server takes the result in; processedTasks may or may not get to know it.
LEMMA HandKeeps ==
    ASSUME WorkInv, NEW c \in Client, At(c, "submit"), Hand(c, JobOf(c)), Goto(c, "next"),
           \/ UNCHANGED processed
           \/ processed' = [processed EXCEPT ![c] = @ \cup {JobOf(c).task}]
    PROVE  WorkInv'
<1> DEFINE mine == JobOf(c)
           t == mine.task
<1>1. /\ mine \in Job /\ mine \notin client[c].found /\ Due(c, mine) /\ t \in Task
      /\ mine.mode = "audit" => \A other \in client[c].found : other.mode = "audit"
    BY DEF WorkInv, InHandIsDue, Busy, At, Job
<1>2. /\ UNCHANGED <<executor, audited>>
      /\ \/ /\ mine.mode = "execute" /\ status[t] = "waiting"
            /\ status' = [status EXCEPT ![t] = "completed"]
         \/ /\ mine.mode = "audit" /\ status[t] = "audit_requested"
            /\ status' = [status EXCEPT ![t] = "audited"]
    BY <1>1 DEF Hand, Market!Complete, Market!Audit, Market!CanComplete, Market!CanAudit,
                Market!Become, Market!HasStatus, Job, Mode
<1>3. /\ \A u \in Task : u # t => status'[u] = status[u]
      /\ status[t] \in {"waiting", "audit_requested"}
      /\ status'[t] = IF mine.mode = "audit" THEN "audited" ELSE "completed"
      /\ status[t] = "waiting" <=> mine.mode # "audit"
    BY <1>1, <1>2 DEF WorkInv, ClientsTyped, Market!MarketTypeOK
<1>4. /\ accepted'[c] = accepted[c] \cup {mine}
      /\ \A d \in Client : d # c => /\ processed'[d] = processed[d]
                                   /\ accepted'[d] = accepted[d] /\ client'[d] = client[d]
      /\ processed'[c] \subseteq processed[c] \cup {t}
      /\ client'[c].found = client[c].found
      /\ ~Busy(c)'
    BY DEF WorkInv, ClientsTyped, Goto, Busy, Hand
<1> HIDE DEF mine, t
<1>5. ClientsTyped'
  <2>1. status' \in [Task -> Market!TaskStatus]
    BY <1>1, <1>2 DEF WorkInv, ClientsTyped, Market!MarketTypeOK, Market!TaskStatus
  <2>2. processed' \in [Client -> SUBSET Task] /\ accepted' \in [Client -> SUBSET Job]
    BY <1>1 DEF WorkInv, ClientsTyped, Hand, mine, t
  <2>3. client' \in [Client -> [pc : Pcs, pending : SUBSET Mode, found : SUBSET Job,
                                job : Job \cup {NoJob}, got : Int]]
    BY DEF WorkInv, ClientsTyped, Goto, Pcs
  <2> QED
    BY <1>2, <2>1, <2>2, <2>3 DEF WorkInv, ClientsTyped, Market!MarketTypeOK
\* Another job that is due stays so: a client that executes a task has no audit of it
\* on its list, and one that audits has only audits there.
<1>6. ASSUME NEW d \in Client, NEW job \in Job, Due(d, job),
             d = c => job \in client[c].found
      PROVE  Due(d, job)'
  <2>1. job.mode = "audit" => status'[job.task] # "waiting"
    BY <1>3, <1>6 DEF Due, Job
  <2>2. CASE d # c
    BY <1>4, <1>6, <2>1, <2>2 DEF Due
  <2>3. CASE d = c
    <3>1. job # mine
      BY <1>1, <1>6, <2>3
    <3>2. job.task # t
      <4>1. CASE mine.mode = "audit"
        BY <1>1, <1>6, <2>3, <3>1, <4>1 DEF Job, t
      <4>2. CASE mine.mode = "execute"
        BY <1>1, <1>3, <1>6, <3>1, <4>2 DEF Due, Job, Mode, t
      <4> QED
        BY <1>1, <4>1, <4>2 DEF Job, Mode
    <3> QED
      BY <1>4, <1>6, <2>1, <2>3, <3>1, <3>2 DEF Due
  <2> QED
    BY <2>2, <2>3
<1>7. FoundAreDue'
  <2> SUFFICES ASSUME NEW d \in Client, NEW job \in client'[d].found
               PROVE  Due(d, job)'
    BY DEF FoundAreDue
  <2>1. job \in client[d].found
    BY <1>4
  <2>2. job \in Job /\ Due(d, job)
    BY <2>1 DEF WorkInv, ClientsTyped, FoundAreDue
  <2> QED
    BY <1>6, <2>1, <2>2
<1>8. InHandIsDue'
  <2> SUFFICES ASSUME NEW d \in Client, Busy(d)'
               PROVE  /\ JobOf(d)' \in Job /\ JobOf(d)' \notin client'[d].found
                      /\ Due(d, JobOf(d))'
                      /\ JobOf(d)'.mode = "audit" =>
                            \A other \in client'[d].found : other.mode = "audit"
    BY DEF InHandIsDue
  <2>1. d # c /\ client'[d] = client[d] /\ Busy(d) /\ JobOf(d)' = JobOf(d)
    BY <1>4 DEF Busy, JobOf
  <2>2. /\ JobOf(d) \in Job /\ JobOf(d) \notin client[d].found /\ Due(d, JobOf(d))
        /\ JobOf(d).mode = "audit" => \A other \in client[d].found : other.mode = "audit"
    BY <2>1 DEF WorkInv, InHandIsDue
  <2>3. Due(d, JobOf(d))'
    BY <1>6, <2>1, <2>2 DEF Due
  <2> QED
    BY <2>1, <2>2, <2>3
<1>9. RequestedAreAudited'
    BY <1>2, <1>3 DEF WorkInv, RequestedAreAudited
<1>10. AcceptedAreOver'
  <2> SUFFICES ASSUME NEW d \in Client, NEW job \in accepted'[d]
               PROVE  Over(job)'
    BY DEF AcceptedAreOver
  <2>1. CASE job = mine
    <3>1. mine.mode = "audit" => t \in audited
      BY <1>1, <1>3 DEF WorkInv, RequestedAreAudited
    <3> QED
      BY <1>2, <1>3, <2>1, <3>1 DEF Over, t
  <2>2. CASE job \in accepted[d]
    <3>1. Over(job) /\ job.task \in Task
      BY <2>2 DEF WorkInv, AcceptedAreOver, ClientsTyped, Job
    <3>2. CASE job.task # t
      BY <1>2, <1>3, <3>1, <3>2 DEF Over
    <3>3. CASE job.task = t
      <4>1. status[t] = "audit_requested" /\ t \in audited
        BY <1>1, <1>3, <3>1, <3>3 DEF Over, WorkInv, RequestedAreAudited
      <4> QED
        BY <1>2, <1>3, <3>3, <4>1 DEF Over
    <3> QED
      BY <3>2, <3>3
  <2> QED
    BY <1>4, <2>1, <2>2
<1> QED
    BY <1>5, <1>7, <1>8, <1>9, <1>10 DEF WorkInv

-----------------------------------------------------------------------------
(* All steps.                                                              *)

\* Steps of the daemon, its child and their faults: the clients' variables stay.
LEMMA StayKeeps ==
    ASSUME WorkInv, UNCHANGED <<serverVars, client, doneVars>>
    PROVE  WorkInv'
BY DEF WorkInv, serverVars, doneVars, ClientsTyped, FoundAreDue, InHandIsDue, Busy, Due, JobOf,
       AcceptedAreOver, Over, RequestedAreAudited, Market!MarketTypeOK

\* Steps of the server that no executor takes: none takes a task to where it waits.
LEMMA ServerKeeps ==
    ASSUME WorkInv, UNCHANGED <<client, doneVars>>,
           Market!MarketTypeOK',
           \A t \in Task :
              /\ status[t] # "waiting" => status'[t] # "waiting"
              /\ status'[t] = "audit_requested" => t \in audited'
              /\ \/ status'[t] = "none"
                 \/ status'[t] = status[t] /\ (t \in audited => t \in audited')
                 \/ status'[t] # "audit_requested" /\ t \in audited'
                 \/ status[t] # "none" /\ t \notin audited
    PROVE  WorkInv'
<1>1. UNCHANGED <<client, processed, accepted>>
    BY DEF doneVars
<1>2. ClientsTyped' /\ RequestedAreAudited'
    BY <1>1 DEF WorkInv, ClientsTyped, RequestedAreAudited
<1>3. \A d \in Client, job \in Job : Due(d, job) => Due(d, job)'
    BY <1>1 DEF Due, Job
<1>4. FoundAreDue' /\ InHandIsDue'
    BY <1>1, <1>3 DEF WorkInv, ClientsTyped, FoundAreDue, InHandIsDue, Busy, JobOf
<1>5. AcceptedAreOver'
  <2> SUFFICES ASSUME NEW d \in Client, NEW job \in accepted[d]
               PROVE  Over(job)'
    BY <1>1 DEF AcceptedAreOver
  <2>1. Over(job) /\ job.task \in Task
    BY DEF WorkInv, AcceptedAreOver, ClientsTyped, Job
  <2> QED
    BY <2>1 DEF Over
<1> QED
    BY <1>2, <1>4, <1>5 DEF WorkInv

LEMMA RequestFailsKeeps ==
    ASSUME WorkInv, NEW c \in Client, RequestFails(c)
    PROVE  WorkInv'
<1>1. CASE \E mode \in Mode : Listed(c, mode, {})
    BY <1>1, ListKeeps
<1>2. ASSUME At(c, "connect") \/ At(c, "submit"), Goto(c, "next"), UNCHANGED <<serverVars, doneVars>>
      PROVE  WorkInv'
    BY <1>2, GotoKeeps DEF Pcs
<1>3. ASSUME At(c, "submit"), Goto(c, "next"), Hand(c, JobOf(c)), UNCHANGED processed
      PROVE  WorkInv'
    BY <1>3, HandKeeps
<1> QED
    BY <1>1, <1>2, <1>3 DEF RequestFails, doneVars

LEMMA WorkKeeps ==
    ASSUME WorkInv, NEW c \in Client, Work(c)
    PROVE  WorkInv'
<1>1. ASSUME NEW mode \in Mode, List(c, mode)
      PROVE  WorkInv'
  <2> DEFINE jobs == {job \in Job : job.mode = mode /\ Matches(c, job.task, mode)}
  <2>1. jobs \in SUBSET Job /\ Listed(c, mode, jobs)
    BY <1>1 DEF List
  <2>2. \A job \in jobs : Due(c, job)
    BY DEF Matches, Due, WorkInv, AcceptedAreOver, RequestedAreAudited, Over, Job
  <2> QED
    BY <2>1, <2>2, ListKeeps
<1>2. CASE Turn(c)
    BY <1>2, TurnKeeps
<1>3. CASE Connect(c)
  <2>1. CASE Goto(c, "next")
    BY <1>3, <2>1, GotoKeeps DEF Connect, Pcs
  <2>2. CASE client' = [client EXCEPT ![c].pc = "receive", ![c].got = 0]
    <3>1. Busy(c) /\ UNCHANGED <<serverVars, doneVars>>
      BY <1>3 DEF Connect, Busy, At
    <3>2. "receive" \in Pcs /\ 0 \in Int
      BY DEF Pcs
    <3> QED
      BY <2>2, <3>1, <3>2, MoveKeeps
  <2> QED
    BY <1>3, <2>1, <2>2 DEF Connect
<1>4. CASE Data(c)
  <2>1. PICK n \in client[c].got + 1 .. Len(sock[c].data) :
           \/ client' = [client EXCEPT ![c].got = n, ![c].pc = "submit"]
           \/ client' = [client EXCEPT ![c].got = n]
    BY <1>4 DEF Data
  <2>2. n \in Int /\ client[c].pc = "receive" /\ UNCHANGED <<serverVars, doneVars>>
    BY <1>4 DEF Data, At
  <2>3. Busy(c) /\ {"submit", "receive"} \subseteq Pcs
    BY <2>2 DEF Busy, Pcs
  <2>4. CASE client' = [client EXCEPT ![c].got = n, ![c].pc = "submit"]
    <3>1. client' = [client EXCEPT ![c].pc = "submit", ![c].got = n]
      BY <2>4 DEF WorkInv, ClientsTyped
    <3> QED
      BY <2>2, <2>3, <3>1, MoveKeeps
  <2>5. CASE client' = [client EXCEPT ![c].got = n]
    <3>1. client' = [client EXCEPT ![c].pc = "receive", ![c].got = n]
      BY <2>2, <2>5 DEF WorkInv, ClientsTyped
    <3> QED
      BY <2>2, <2>3, <3>1, MoveKeeps
  <2> QED
    BY <2>1, <2>4, <2>5
<1>5. CASE Closed(c)
  <2>1. Busy(c) /\ UNCHANGED <<serverVars, doneVars>>
    BY <1>5 DEF Closed, Busy, At
  <2>2. Goto(c, "hung") \/ Goto(c, "next")
    BY <1>5 DEF Closed
  <2> QED
    BY <2>1, <2>2, GotoKeeps DEF Pcs
<1>6. CASE Submit(c)
  <2>1. ASSUME Hand(c, JobOf(c)), processed' = [processed EXCEPT ![c] = @ \cup {JobOf(c).task}]
        PROVE  WorkInv'
    BY <1>6, <2>1, HandKeeps DEF Submit
  <2>2. CASE UNCHANGED <<serverVars, doneVars>>
    BY <1>6, <2>2, GotoKeeps DEF Submit, Pcs
  <2> QED
    BY <1>6, <2>1, <2>2 DEF Submit
<1> QED
    BY <1>1, <1>2, <1>3, <1>4, <1>5, <1>6 DEF Work

\* An appointment, a request for an audit, a payment, in order or out of it; a restart.
LEMMA OthersKeep ==
    ASSUME WorkInv, Others \/ ServerFault
    PROVE  WorkInv'
<1> USE DEF Market!Become, Market!HasStatus
<1>1. /\ status \in [Task -> Market!TaskStatus] /\ executor \in [Task -> Client \cup {NoClient}]
      /\ audited \in SUBSET Task /\ RequestedAreAudited
    BY DEF WorkInv, ClientsTyped, Market!MarketTypeOK
<1>2. UNCHANGED <<client, doneVars>>
    BY DEF Others, ServerFault
<1>3. ASSUME NEW t \in Task, NEW c \in Client,
             \/ Market!Appoint(t, c) \/ Market!Rename(t)
      PROVE  WorkInv'
  <2>1. UNCHANGED <<status, audited>> /\ executor' \in [Task -> Client \cup {NoClient}]
    BY <1>1, <1>3 DEF Market!Appoint, Market!Rename
  <2>2. Market!MarketTypeOK'
    BY <1>1, <2>1 DEF Market!MarketTypeOK
  <2> QED
    BY <1>1, <1>2, <2>1, <2>2, ServerKeeps DEF RequestedAreAudited
<1>4. ASSUME NEW t \in Task, Market!RequestAudit(t)
      PROVE  WorkInv'
  <2>1. /\ status[t] = "completed" /\ t \notin audited /\ audited' = audited \cup {t}
        /\ status' = [status EXCEPT ![t] = "audit_requested"] /\ UNCHANGED executor
    BY <1>4 DEF Market!RequestAudit
  <2>2. Market!MarketTypeOK'
    BY <1>1, <2>1 DEF Market!MarketTypeOK, Market!TaskStatus
  <2> QED
    BY <1>1, <1>2, <2>1, <2>2, ServerKeeps DEF RequestedAreAudited
<1>5. ASSUME NEW t \in Task, NEW value \in {"completed", "finalized", "audited"},
             status[t] = "completed" \/ t \in audited, value = "finalized" \/ t \in audited,
             Market!Become(t, value), UNCHANGED audited
      PROVE  WorkInv'
  <2>1. Market!MarketTypeOK'
    BY <1>1, <1>5 DEF Market!MarketTypeOK, Market!TaskStatus
  <2> QED
    BY <1>1, <1>2, <1>5, <2>1, ServerKeeps DEF RequestedAreAudited
<1>6. CASE Market!Forget
  <2>1. Market!MarketTypeOK'
    BY <1>6 DEF Market!Forget, Market!MarketTypeOK, Market!TaskStatus
  <2>2. \A t \in Task : status'[t] = "none"
    BY <1>6 DEF Market!Forget
  <2> QED
    BY <1>2, <2>1, <2>2, ServerKeeps
<1> QED
    BY <1>3, <1>4, <1>5, <1>6
       DEF Others, ServerFault, Market!Overtake, Market!Late, Market!Rename, Market!Finalize

LEMMA WorkNext == WorkInv /\ [Next]_vars => WorkInv'
<1> SUFFICES ASSUME WorkInv, [Next]_vars PROVE WorkInv'
    OBVIOUS
<1>1. CASE Trouble
  <2>1. ASSUME NEW c \in Client, Shutdown(c)
        PROVE  WorkInv'
    BY <2>1, GotoKeeps DEF Shutdown, Pcs
  <2>2. ASSUME NEW c \in Client, RequestFails(c)
        PROVE  WorkInv'
    BY <2>2, RequestFailsKeeps
  <2> QED
    BY <1>1, <2>1, <2>2, StayKeeps, OthersKeep DEF Trouble
<1>2. ASSUME NEW c \in Client, Work(c)
      PROVE  WorkInv'
    BY <1>2, WorkKeeps
<1>3. CASE Others
    BY <1>3, OthersKeep
<1>4. CASE UNCHANGED <<serverVars, client, doneVars>>
    BY <1>4, StayKeeps
<1> QED
    BY <1>1, <1>2, <1>3, <1>4 DEF Next, vars

\* Every job a client has found or is busy with is one it has not done yet, and can
\* still be worth doing: the invariant behind processedTasks (client.ts:339-361, 428).
THEOREM WorkInvHolds == Spec => []WorkInv
<1>1. Init => WorkInv
    BY WorkInit
<1>2. WorkInv /\ [Next]_vars => WorkInv'
    BY WorkNext
<1> QED
    BY <1>1, <1>2, PTL DEF Spec

\* What the server took from a client the client does not do again, its answer lost or
\* not; and what it knows was taken it does not audit either: for any number of clients,
\* tasks and faults, and any server that keeps to Market (client.ts:339-361, 428).
THEOREM WorkIsNotRepeated == Spec => []NoWorkTwice
<1>1. WorkInv => NoWorkTwice
    BY DEF WorkInv, InHandIsDue, NoWorkTwice, Busy, Due
<1> QED
    BY <1>1, WorkInvHolds, PTL
=============================================================================
