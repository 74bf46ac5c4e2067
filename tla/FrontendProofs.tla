--------------------------- MODULE FrontendProofs ---------------------------
(***************************************************************************)
(* Proofs about a browser window, for any number of tasks and accounts and *)
(* of calls that are unanswered: that its variables keep their types, that *)
(* what it shows never goes back, and that its messages are true.          *)
(*                                                                         *)
(* The tasks of the server only get older (Ages).  An entry of the cache   *)
(* shows no task older than the server has it, and an answer under way no  *)
(* task younger than the entry shows it.  An assignment that is unanswered *)
(* belongs to the dialog that is open, and once accepted it names the      *)
(* task's executor for good.                                               *)
(***************************************************************************)
EXTENDS Frontend, FiniteSetTheorems, TLAPS

\* What the server has answered, or nothing.
Table == {<<>>} \cup UNION {[tasks -> Stage] : tasks \in SUBSET Task}

CacheEntry == [loaded : BOOLEAN, data : Table, fetch : {"idle", "sent", "answered"}, answer : Table]

WindowTyped ==
    /\ page \in {"checking", "stuck", "home", "account", "tasks"}
    /\ dialog \in Dialog \cup {NoDialog}
    /\ dialog.kind = "assign" => page = "tasks" /\ dialog.field \in Acct \cup {NoOne}
    /\ dialog.kind \in {"info", "audit"} => page = "account"
    /\ calls \in SUBSET Call
    /\ timers \in [{"assign", "audit"} -> Nat]

Typed ==
    /\ Market!MarketTypeOK
    /\ cache \in [Key -> CacheEntry]
    /\ WindowTyped
    /\ faults \in 0 .. MaxFaults

\* What a table says of a task is not older than what the server has.
Fits(table) == \A t \in DOMAIN table : Rank[table[t]] <= Rank[StageOf(t)]

NotBefore(later, earlier) ==
    \A t \in DOMAIN later \cap DOMAIN earlier : Rank[earlier[t]] <= Rank[later[t]]

CacheSound == \A k \in Key : /\ Fits(cache[k].data)
                             /\ Fits(cache[k].answer)
                             /\ NotBefore(cache[k].answer, cache[k].data)

\* An assignment belongs to the dialog that is open.  A call that was accepted has left
\* its mark on the task.
Done(kind, t) == \/ kind = "assign" /\ executor[t] # NoOne
                 \/ kind = "audit" /\ status[t] \in {"audit_requested", "audited"}

CallSound(call) ==
    /\ call.kind = "assign" =>
          /\ call.field \in Acct
          /\ dialog.kind = "assign" /\ dialog.task = call.task
          /\ call.accepted => executor[call.task] = call.field
    /\ call.kind \in {"assign", "audit"} /\ call.accepted => Done(call.kind, call.task)

CallsSound == \A call \in calls : CallSound(call)

\* A task is assigned once, and its audit is asked for once.
OnlyOnce(some) ==
    \A call, other \in some :
        /\ call.kind \in {"assign", "audit"} /\ other.kind = call.kind
        /\ call.accepted /\ other.accepted /\ other.task = call.task
        => other = call

AcceptedOnce == OnlyOnce(calls)

\* Each timer was set by the success of a call for another task.
TimersSound ==
    \A kind \in {"assign", "audit"} : \E tasks \in SUBSET Task :
        /\ IsFiniteSet(tasks) /\ Cardinality(tasks) = timers[kind]
        /\ \A t \in tasks : Done(kind, t)
        /\ \A call \in calls : call.kind = kind /\ call.accepted => call.task \notin tasks

WindowSound == WindowTyped /\ CallsSound /\ AcceptedOnce /\ TimersSound /\ MessageIsTrue

WindowInv == Typed /\ CacheSound /\ WindowSound
-----------------------------------------------------------------------------
(* The server's tasks get older.                                           *)

LEMMA Ranks ==
    /\ Rank["none"] = 0 /\ Rank["waiting"] = 1 /\ Rank["assigned"] = 2
    /\ Rank["completed"] = 3 /\ Rank["audit_requested"] = 4 /\ Rank["settled"] = 5
    /\ \A stage \in Stage : Rank[stage] \in 0 .. 5
BY DEF Rank, Stage

LEMMA Stages ==
    ASSUME Market!MarketTypeOK, NEW t \in Task
    PROVE  /\ StageOf(t) \in Stage
           /\ status[t] = "none" => StageOf(t) = "none"
           /\ status[t] = "waiting" => StageOf(t) = IF executor[t] = NoOne THEN "waiting" ELSE "assigned"
           /\ status[t] = "completed" => StageOf(t) = "completed"
           /\ status[t] = "audit_requested" => StageOf(t) = "audit_requested"
           /\ status[t] \in {"audited", "finalized"} => StageOf(t) = "settled"
BY DEF StageOf, Stage, Market!HasStatus, Market!MarketTypeOK, Market!TaskStatus

Ages ==
    /\ Market!MarketTypeOK'
    /\ \A t \in Task :
          /\ StageOf(t) \in Stage /\ StageOf(t)' \in Stage
          /\ Rank[StageOf(t)] <= Rank[StageOf(t)']
          /\ executor[t] # NoOne => executor'[t] = executor[t]
          /\ Done("audit", t) => Done("audit", t)'

LEMMA UnchangedAges ==
    ASSUME Market!MarketTypeOK, UNCHANGED server
    PROVE  Ages
<1>1. Market!MarketTypeOK' /\ status' = status /\ executor' = executor
    BY DEF server, Market!MarketTypeOK
<1>2. \A t \in Task : StageOf(t)' = StageOf(t)
    BY <1>1 DEF StageOf, Market!HasStatus
<1> QED
    BY <1>1, <1>2, Stages, Ranks DEF Ages, Done

LEMMA StepAges ==
    ASSUME Market!MarketTypeOK, NEW t \in Task, Market!Step(t)
    PROVE  Ages
<1> USE DEF Market!HasStatus, Market!CanAppoint, Market!CanComplete, Market!CanAudit, Market!Become
<1>1. Market!MarketTypeOK'
    BY DEF Market!Step, Market!Post, Market!Appoint, Market!Complete, Market!RequestAudit,
           Market!Audit, Market!Finalize, Market!MarketTypeOK, Market!TaskStatus
<1>2. \/ status[t] = "none" /\ status'[t] = "waiting" /\ executor' = executor
      \/ /\ status[t] = "waiting" /\ status'[t] = "waiting" /\ executor[t] = NoOne
         /\ executor'[t] # NoOne
      \/ status[t] = "waiting" /\ status'[t] = "completed" /\ executor' = executor
      \/ status[t] = "completed" /\ status'[t] \in {"audit_requested", "finalized"} /\ executor' = executor
      \/ status[t] = "audit_requested" /\ status'[t] = "audited" /\ executor' = executor
    BY FrontendAssumption
       DEF Market!Step, Market!Post, Market!Appoint, Market!Complete, Market!RequestAudit,
           Market!Audit, Market!Finalize, Market!MarketTypeOK
<1>3. \A u \in Task : u # t => status'[u] = status[u] /\ executor'[u] = executor[u]
    BY DEF Market!Step, Market!Post, Market!Appoint, Market!Complete, Market!RequestAudit,
           Market!Audit, Market!Finalize, Market!MarketTypeOK
<1>4. ASSUME NEW u \in Task
      PROVE  /\ StageOf(u) \in Stage /\ StageOf(u)' \in Stage
             /\ Rank[StageOf(u)] <= Rank[StageOf(u)']
             /\ executor[u] # NoOne => executor'[u] = executor[u]
             /\ Done("audit", u) => Done("audit", u)'
  <2>1. CASE u # t
    <3>1. StageOf(u)' = StageOf(u)
      BY <1>3, <2>1 DEF StageOf
    <3> QED
      BY <1>3, <2>1, <3>1, Stages, Ranks DEF Done
  <2>2. CASE u = t
    <3>1. /\ StageOf(u)' \in Stage
          /\ status'[u] = "waiting" => StageOf(u)' = IF executor'[u] = NoOne THEN "waiting" ELSE "assigned"
          /\ status'[u] = "completed" => StageOf(u)' = "completed"
          /\ status'[u] = "audit_requested" => StageOf(u)' = "audit_requested"
          /\ status'[u] \in {"audited", "finalized"} => StageOf(u)' = "settled"
      BY <1>1 DEF StageOf, Stage, Market!MarketTypeOK, Market!TaskStatus
    <3>2. Rank[StageOf(u)] <= Rank[StageOf(u)']
      BY <1>2, <2>2, <3>1, Stages, Ranks
    <3>3. /\ executor[u] # NoOne => executor'[u] = executor[u]
          /\ Done("audit", u) => Done("audit", u)'
      BY <1>2, <2>2 DEF Done
    <3> QED
      BY <3>1, <3>2, <3>3, Stages
  <2> QED
    BY <2>1, <2>2
<1> QED
    BY <1>1, <1>4 DEF Ages

LEMMA NextAges ==
    ASSUME Typed, CallsSound, [Next]_vars
    PROVE  Ages
<1>1. Market!MarketTypeOK
    BY DEF Typed
<1>2. CASE UNCHANGED server
    BY <1>1, <1>2, UnchangedAges
<1>3. ASSUME NEW t \in Task, Market!Step(t)
      PROVE  Ages
    BY <1>1, <1>3, StepAges
<1>4. ASSUME NEW call \in calls, Handle(call)
      PROVE  Ages
  <2>1. call \in Call /\ CallSound(call)
    BY DEF Typed, WindowTyped, CallsSound
  <2>2. CASE Serve(call)
    <3>1. call.task \in Task /\ (call.kind = "assign" => call.field \in Acct)
      BY <2>1 DEF Call, CallSound
    <3>2. call.kind \in {"create", "assign", "audit", "finalize"}
      BY <2>1 DEF Call
    <3>3. Market!Step(call.task)
      BY <2>2, <3>1, <3>2 DEF Serve, Market!Step
    <3> QED
      BY <1>3, <3>1, <3>3
  <2> QED
    BY <1>2, <1>4, <2>2 DEF Handle
<1>5. CASE UNCHANGED vars
    BY <1>2, <1>5 DEF vars
<1>6. CASE Trouble
    BY <1>2, <1>6 DEF Trouble, HealthFails, FetchFails, CallFails
<1>7. CASE User
    BY <1>2, <1>7 DEF User, Navigate, Reload, Open, Dismiss, Type, Submit, Create, Finalize
<1>8. CASE HealthAnswers \/ Poll \/ \E k \in Key : Answer(k) \/ Arrive(k) \/ Collect(k)
    BY <1>2, <1>8 DEF HealthAnswers, Poll, Answer, Arrive, Collect
<1>9. CASE \E call \in calls : Succeed(call)
    BY <1>2, <1>9 DEF Succeed
<1>10. CASE \E kind \in DOMAIN timers : TimerFires(kind)
    BY <1>2, <1>10 DEF TimerFires
<1>11. CASE \E t \in Task : Elsewhere(t)
    BY <1>3, <1>11 DEF Elsewhere
<1> QED
    BY <1>4, <1>5, <1>6, <1>7, <1>8, <1>9, <1>10, <1>11 DEF Next

-----------------------------------------------------------------------------
(* The cache.                                                              *)

\* What a step may make of an entry.
KeyStep(now, next) ==
    \/ next.data = now.data /\ next.answer \in {now.answer, <<>>}
    \/ next.data = now.data /\ \E tasks \in SUBSET Task :
                                 next.answer = [t \in tasks |-> StageOf(t)]
    \/ next.data = now.answer /\ next.answer = <<>>
    \/ next.data = <<>> /\ next.answer = <<>>

CacheStep == /\ cache' \in [Key -> CacheEntry]
             /\ \A k \in Key : KeyStep(cache[k], cache'[k])

LEMMA OneKey ==
    ASSUME Typed, NEW k \in Key, NEW next \in CacheEntry, KeyStep(cache[k], next),
           cache' = [cache EXCEPT ![k] = next]
    PROVE  CacheStep
BY DEF Typed, CacheStep, KeyStep

LEMMA SameKeys ==
    ASSUME Typed, cache' = cache
    PROVE  CacheStep
BY DEF Typed, CacheStep, KeyStep

LEMMA MountedKey ==
    ASSUME Typed, NEW k \in Key, cache' = Mounted(k)
    PROVE  CacheStep
<1> DEFINE next == [cache[k] EXCEPT !.fetch = IF @ = "idle" THEN "sent" ELSE @]
<1>1. cache[k] \in CacheEntry /\ cache' = [cache EXCEPT ![k] = next]
    BY DEF Typed, Mounted
<1>2. next \in CacheEntry /\ KeyStep(cache[k], next)
    BY <1>1 DEF CacheEntry, KeyStep
<1> QED
    BY <1>1, <1>2, OneKey

LEMMA InvalidatedKeys ==
    ASSUME Typed, NEW prefix, cache' = Invalidated(prefix)
    PROVE  CacheStep
<1>1. <<>> \in Table
    BY DEF Table
<1>2. ASSUME NEW k \in Key
      PROVE  cache'[k] \in CacheEntry /\ KeyStep(cache[k], cache'[k])
  <2>1. cache[k] \in CacheEntry
    BY DEF Typed
  <2>2. cache'[k] = cache[k] \/ cache'[k] = [cache[k] EXCEPT !.fetch = "sent", !.answer = <<>>]
    BY DEF Invalidated
  <2> QED
    BY <1>1, <2>1, <2>2 DEF CacheEntry, KeyStep
<1>3. cache' = [k \in Key |-> cache'[k]]
    BY DEF Invalidated
<1> QED
    BY <1>2, <1>3 DEF CacheStep

LEMMA EmptyKeys ==
    ASSUME cache' = [k \in Key |-> Entry]
    PROVE  CacheStep
BY DEF CacheStep, KeyStep, Entry, CacheEntry, Table

LEMMA FetchedKey ==
    ASSUME Typed, NEW k \in Key,
           Answer(k) \/ Arrive(k) \/ FetchFails(k) \/ Collect(k)
    PROVE  CacheStep
<1>1. cache[k] \in CacheEntry /\ <<>> \in Table /\ cache \in [Key -> CacheEntry]
    BY DEF Typed, Table
<1>2. CASE Answer(k)
  <2> DEFINE tasks == {u \in Known : k \in {ListKey, DetailsKey(u)}}
             answer == [t \in tasks |-> StageOf(t)]
             next == [cache[k] EXCEPT !.fetch = "answered", !.answer = answer]
  <2>1. tasks \in SUBSET Task
    BY DEF Known
  <2>2. answer \in Table
    <3>1. \A t \in tasks : StageOf(t) \in Stage
      BY <2>1, Stages DEF Typed
    <3> HIDE DEF tasks
    <3>2. answer \in [tasks -> Stage]
      BY <3>1
    <3> QED
      BY <2>1, <3>2 DEF Table
  <2>3. cache' = [cache EXCEPT ![k] = next]
    BY <1>1, <1>2 DEF Answer
  <2> HIDE DEF answer
  <2>4. next \in CacheEntry
    BY <1>1, <2>2 DEF CacheEntry
  <2>5. KeyStep(cache[k], next)
    <3>1. next.data = cache[k].data /\ next.answer = answer
      BY <1>1 DEF CacheEntry
    <3> QED
      BY <2>1, <3>1 DEF KeyStep, answer
  <2> QED
    BY <2>3, <2>4, <2>5, OneKey
<1>3. CASE Arrive(k)
  <2> DEFINE next == [Entry EXCEPT !.loaded = TRUE, !.data = cache[k].answer]
  <2>1. next \in CacheEntry /\ KeyStep(cache[k], next)
    BY <1>1 DEF CacheEntry, KeyStep, Entry
  <2> QED
    BY <1>3, <2>1, OneKey DEF Arrive
<1>4. CASE FetchFails(k)
  <2> DEFINE next == [cache[k] EXCEPT !.fetch = "idle", !.answer = <<>>]
  <2>1. next \in CacheEntry /\ KeyStep(cache[k], next)
    BY <1>1 DEF CacheEntry, KeyStep
  <2>2. cache' = [cache EXCEPT ![k] = next]
    BY <1>1, <1>4 DEF FetchFails
  <2> QED
    BY <2>1, <2>2, OneKey
<1>5. CASE Collect(k)
  <2>1. Entry \in CacheEntry /\ KeyStep(cache[k], Entry)
    BY <1>1 DEF CacheEntry, KeyStep, Entry
  <2> QED
    BY <1>5, <2>1, OneKey DEF Collect
<1> QED
    BY <1>2, <1>3, <1>4, <1>5

LEMMA NextKeys ==
    ASSUME Typed, [Next]_vars
    PROVE  CacheStep
<1>0. ListKey \in Key /\ \A t \in Task : DetailsKey(t) \in Key
    BY DEF Key
<1>1. CASE UNCHANGED cache
    BY <1>1, SameKeys
<1>2. CASE Trouble
    BY <1>1, <1>2, FetchedKey DEF Trouble, HealthFails, CallFails
<1>3. CASE User
  <2>1. ASSUME NEW to, Navigate(to)
        PROVE  CacheStep
    BY <1>0, <1>1, <2>1, MountedKey DEF Navigate
  <2>2. CASE Reload
    BY <2>2, EmptyKeys DEF Reload
  <2>3. ASSUME NEW t \in Task, NEW kind \in Kind, Open(t, kind)
        PROVE  CacheStep
    BY <1>0, <1>1, <2>3, MountedKey DEF Open
  <2>4. CASE Dismiss \/ \E field \in Field : Type(field)
    BY <1>1, <2>4 DEF Dismiss, Type
  <2>5. CASE Submit \/ \E t \in Task : Create(t) \/ Finalize(t)
    BY <1>1, <2>5 DEF Submit, Create, Finalize
  <2> QED
    BY <1>3, <2>1, <2>2, <2>3, <2>4, <2>5 DEF User
<1>4. CASE HealthAnswers
    BY <1>1, <1>4 DEF HealthAnswers
<1>5. CASE Poll
    BY <1>0, <1>5, MountedKey DEF Poll
<1>6. CASE \E k \in Key : Answer(k) \/ Arrive(k) \/ Collect(k)
    BY <1>6, FetchedKey
<1>7. ASSUME NEW call \in calls, Handle(call) \/ Succeed(call)
      PROVE  CacheStep
    BY <1>1, <1>7, InvalidatedKeys DEF Handle, Succeed, Refreshed
<1>8. CASE \E kind \in DOMAIN timers : TimerFires(kind)
    BY <1>1, <1>8 DEF TimerFires
<1>9. CASE \E t \in Task : Elsewhere(t)
    BY <1>1, <1>9 DEF Elsewhere
<1> QED
    BY <1>1, <1>2, <1>3, <1>4, <1>5, <1>6, <1>7, <1>8, <1>9 DEF Next, vars

\* A table that fits goes on to fit while the tasks get older.
LEMMA TableDomain ==
    ASSUME NEW table \in Table
    PROVE  DOMAIN table \in SUBSET Task /\ \A t \in DOMAIN table : table[t] \in Stage
BY DEF Table

LEMMA CacheKeeps ==
    ASSUME Typed, CacheSound, Ages, CacheStep
    PROVE  /\ CacheSound'
           /\ \A k \in Key : NotBefore(cache'[k].data, cache[k].data)
<1> SUFFICES ASSUME NEW k \in Key
             PROVE  /\ Fits(cache[k].data)' /\ Fits(cache[k].answer)'
                    /\ NotBefore(cache'[k].answer, cache'[k].data)
                    /\ NotBefore(cache'[k].data, cache[k].data)
    BY DEF CacheSound, NotBefore
<1> DEFINE data == cache[k].data
           answer == cache[k].answer
           next == cache'[k]
<1>1. /\ data \in Table /\ answer \in Table /\ Fits(data) /\ Fits(answer) /\ NotBefore(answer, data)
      /\ next.data \in Table /\ next.answer \in Table /\ KeyStep(cache[k], next)
    BY DEF Typed, CacheSound, CacheStep, CacheEntry
<1>2. ASSUME NEW t \in Task
      PROVE  /\ StageOf(t) \in Stage /\ StageOf(t)' \in Stage
             /\ Rank[StageOf(t)] \in Nat /\ Rank[StageOf(t)'] \in Nat
             /\ Rank[StageOf(t)] <= Rank[StageOf(t)']
    BY Ranks DEF Ages
<1>3. \A stage \in Stage : Rank[stage] \in Nat
    BY Ranks
<1>4. ASSUME NEW table \in Table, Fits(table)
      PROVE  \A t \in DOMAIN table : Rank[table[t]] <= Rank[StageOf(t)']
  <2> SUFFICES ASSUME NEW t \in DOMAIN table
               PROVE  Rank[table[t]] <= Rank[StageOf(t)']
    OBVIOUS
  <2>1. t \in Task /\ table[t] \in Stage /\ Rank[table[t]] <= Rank[StageOf(t)]
    BY <1>4, TableDomain DEF Fits
  <2> QED
    BY <1>2, <1>3, <2>1
<1>5. \A table \in Table : NotBefore(table, table) /\ NotBefore(<<>>, table) /\ NotBefore(table, <<>>)
    BY <1>3, TableDomain DEF NotBefore
<1>6. CASE next.data = data /\ next.answer \in {answer, <<>>}
    BY <1>1, <1>4, <1>5, <1>6 DEF Fits
<1>7. ASSUME next.data = data, NEW tasks \in SUBSET Task, next.answer = [t \in tasks |-> StageOf(t)]
      PROVE  /\ Fits(data)' /\ Fits(answer)'
             /\ NotBefore(next.answer, next.data) /\ NotBefore(next.data, data)
  <2>1. \A t \in DOMAIN next.answer : t \in Task /\ next.answer[t] = StageOf(t)
    BY <1>7
  <2>2. NotBefore(next.answer, data)
    BY <1>1, <2>1 DEF NotBefore, Fits
  <2>3. Fits(answer)'
    BY <1>2, <2>1 DEF Fits
  <2> QED
    BY <1>1, <1>4, <1>5, <1>7, <2>2, <2>3 DEF Fits
<1>8. CASE next.data = answer /\ next.answer = <<>>
    BY <1>1, <1>4, <1>5, <1>8 DEF Fits
<1>9. CASE next.data = <<>> /\ next.answer = <<>>
    BY <1>1, <1>5, <1>9 DEF Fits
<1> QED
    BY <1>1, <1>6, <1>7, <1>8, <1>9 DEF KeyStep

-----------------------------------------------------------------------------
(* The dialogs, the calls and the timers.                                  *)

\* Detached or not, it is one of the calls there were.
From(call) == \E old \in calls : call = old \/ call = [old EXCEPT !.heard = "close"]

LEMMA SameCall ==
    ASSUME calls \in SUBSET Call, NEW call, From(call)
    PROVE  /\ call \in Call
           /\ \E old \in calls : /\ call = old \/ call = [old EXCEPT !.heard = "close"]
                                /\ call.kind = old.kind /\ call.task = old.task
                                /\ call.field = old.field /\ call.accepted = old.accepted
BY DEF From, Call

LEMMA FewerCalls ==
    ASSUME WindowSound, calls' \in SUBSET calls
    PROVE  /\ calls' \in SUBSET Call /\ AcceptedOnce'
           /\ \A call \in calls' : From(call)
BY DEF WindowSound, WindowTyped, AcceptedOnce, OnlyOnce, From

LEMMA DetachedSet ==
    ASSUME WindowSound, NEW kind
    PROVE  /\ Detached(kind) \in SUBSET Call /\ OnlyOnce(Detached(kind))
           /\ \A call \in Detached(kind) : From(call) /\ (call.kind = kind => kind = "audit")
<1>1. calls \in SUBSET Call /\ OnlyOnce(calls)
    BY DEF WindowSound, WindowTyped, AcceptedOnce
<1>2. ASSUME NEW call \in Detached(kind)
      PROVE  \/ call \in calls /\ call.kind # kind
             \/ /\ call.kind = kind /\ kind = "audit"
                /\ \E old \in calls : old.kind = "audit" /\ call = [old EXCEPT !.heard = "close"]
    BY <1>1 DEF Detached, Call
<1>3. \A call \in Detached(kind) : From(call) /\ (call.kind = kind => kind = "audit")
    BY <1>2 DEF From
<1>4. OnlyOnce(Detached(kind))
  <2> SUFFICES ASSUME NEW call \in Detached(kind), NEW other \in Detached(kind),
                      call.kind \in {"assign", "audit"}, other.kind = call.kind,
                      call.accepted, other.accepted, other.task = call.task
               PROVE  other = call
    BY DEF OnlyOnce
  <2>1. CASE call.kind # kind
    BY <1>1, <1>2, <2>1 DEF OnlyOnce
  <2>2. CASE call.kind = kind
    <3>1. PICK old \in calls : old.kind = "audit" /\ call = [old EXCEPT !.heard = "close"]
      BY <1>2, <2>2
    <3>2. PICK older \in calls : older.kind = "audit" /\ other = [older EXCEPT !.heard = "close"]
      BY <1>2, <2>2
    <3>3. old.accepted /\ older.accepted /\ older.task = old.task
      BY <1>1, <3>1, <3>2 DEF Call
    <3>4. older = old
      BY <1>1, <3>1, <3>2, <3>3 DEF OnlyOnce
    <3> QED
      BY <3>1, <3>2, <3>4
  <2> QED
    BY <2>1, <2>2
<1>5. Detached(kind) \in SUBSET Call
    BY <1>1, <1>3, SameCall
<1> QED
    BY <1>3, <1>4, <1>5

LEMMA DetachedCalls ==
    ASSUME WindowSound, NEW kind, calls' \in SUBSET Detached(kind)
    PROVE  /\ calls' \in SUBSET Call /\ AcceptedOnce'
           /\ \A call \in calls' : From(call) /\ (call.kind = kind => kind = "audit")
BY DetachedSet DEF AcceptedOnce, OnlyOnce

\* What was done to a task stays done.
LEMMA StaysDone ==
    ASSUME Ages, NEW kind \in {"assign", "audit"}, NEW t \in Task, Done(kind, t)
    PROVE  Done(kind, t)'
<1>1. CASE kind = "assign"
    BY <1>1 DEF Done, Ages
<1>2. CASE kind = "audit"
    BY <1>2 DEF Ages
<1> QED
    BY <1>1, <1>2

LEMMA CallsKeep ==
    ASSUME WindowSound, Ages, NEW call, From(call),
           call.kind = "assign" => dialog'.kind = "assign" /\ dialog'.task = dialog.task
    PROVE  CallSound(call)'
<1>1. PICK old \in calls : /\ call.kind = old.kind /\ call.task = old.task
                           /\ call.field = old.field /\ call.accepted = old.accepted
    BY SameCall DEF WindowSound, WindowTyped
<1>2. CallSound(old) /\ old.task \in Task
    BY DEF WindowSound, WindowTyped, CallsSound, Call
<1>3. old.kind \in {"assign", "audit"} /\ old.accepted => Done(old.kind, old.task)'
    BY <1>2, StaysDone DEF CallSound
<1>4. call.kind = "assign" =>
         /\ call.field \in Acct
         /\ dialog'.kind = "assign" /\ dialog'.task = call.task
         /\ call.accepted => executor'[call.task] = call.field
  <2>1. call.kind = "assign" /\ call.accepted => executor[call.task] = call.field /\ call.field # NoOne
    BY <1>1, <1>2, FrontendAssumption DEF CallSound
  <2> QED
    BY <1>1, <1>2, <2>1 DEF CallSound, Ages
<1> QED
    BY <1>1, <1>3, <1>4 DEF CallSound

\* A timer that fires, or none, or the end of all of them.
LEMMA TimersKeep ==
    ASSUME WindowSound, Ages, \A call \in calls' : From(call) \/ ~call.accepted, NEW kind \in {"assign", "audit"},
           \/ timers'[kind] \in {timers[kind], 0}
           \/ timers[kind] > 0 /\ timers'[kind] = timers[kind] - 1
    PROVE  \E tasks \in SUBSET Task :
              /\ IsFiniteSet(tasks) /\ Cardinality(tasks) = timers'[kind]
              /\ \A t \in tasks : Done(kind, t)'
              /\ \A call \in calls' : call.kind = kind /\ call.accepted => call.task \notin tasks
<1>1. PICK tasks \in SUBSET Task :
         /\ IsFiniteSet(tasks) /\ Cardinality(tasks) = timers[kind]
         /\ \A t \in tasks : Done(kind, t)
         /\ \A call \in calls : call.kind = kind /\ call.accepted => call.task \notin tasks
    BY DEF WindowSound, TimersSound
<1>2. \A t \in tasks : Done(kind, t)'
    BY <1>1, StaysDone
<1>3. \A call \in calls' : call.kind = kind /\ call.accepted => call.task \notin tasks
  <2> SUFFICES ASSUME NEW call \in calls', call.kind = kind, call.accepted
               PROVE  call.task \notin tasks
    OBVIOUS
  <2>1. From(call)
    OBVIOUS
  <2>2. PICK old \in calls : /\ call.kind = old.kind /\ call.task = old.task
                             /\ call.field = old.field /\ call.accepted = old.accepted
    BY <2>1, SameCall DEF WindowSound, WindowTyped
  <2> QED
    BY <1>1, <2>2
<1>4. CASE timers'[kind] = timers[kind]
    BY <1>1, <1>2, <1>3, <1>4
<1>5. CASE timers'[kind] = 0
  <2>1. IsFiniteSet({}) /\ Cardinality({}) = 0 /\ {} \in SUBSET Task
    BY FS_EmptySet
  <2> WITNESS {} \in SUBSET Task
  <2> QED
    BY <1>5, <2>1
<1>6. CASE timers[kind] > 0 /\ timers'[kind] = timers[kind] - 1
  <2>1. tasks # {}
    BY <1>1, <1>6, FS_EmptySet
  <2>2. PICK t \in tasks : TRUE
    BY <2>1
  <2>3. /\ IsFiniteSet(tasks \ {t}) /\ Cardinality(tasks \ {t}) = timers[kind] - 1
        /\ tasks \ {t} \in SUBSET Task
    BY <1>1, <2>2, FS_RemoveElement
  <2> QED
    BY <1>2, <1>3, <1>6, <2>3
<1> QED
    BY <1>4, <1>5, <1>6

\* A message that is there stays true.
LEMMA MessageStays ==
    ASSUME WindowSound, Ages,
           dialog'.kind = "assign" =>
              \/ dialog'.told = NoOne
              \/ dialog.kind = "assign" /\ dialog'.task = dialog.task /\ dialog'.told = dialog.told
    PROVE  MessageIsTrue'
<1> SUFFICES ASSUME dialog'.kind = "assign", dialog'.told # NoOne
             PROVE  executor'[dialog'.task] = dialog'.told
    BY DEF MessageIsTrue
<1>1. executor[dialog.task] = dialog'.told /\ dialog.kind = "assign" /\ dialog'.task = dialog.task
    BY DEF WindowSound, MessageIsTrue
<1>2. dialog.task \in Task
    BY <1>1 DEF WindowSound, WindowTyped, Dialog, NoDialog
<1> QED
    BY <1>1, <1>2 DEF Ages

\* A step that makes no new call, accepts none and sets no timer.
LEMMA LessKeeps ==
    ASSUME WindowSound, Ages, WindowTyped', AcceptedOnce',
           \A call \in calls' :
              /\ From(call)
              /\ call.kind = "assign" => dialog'.kind = "assign" /\ dialog'.task = dialog.task,
           dialog'.kind = "assign" =>
              \/ dialog'.told = NoOne
              \/ dialog.kind = "assign" /\ dialog'.task = dialog.task /\ dialog'.told = dialog.told,
           \A kind \in {"assign", "audit"} :
              \/ timers'[kind] \in {timers[kind], 0}
              \/ timers[kind] > 0 /\ timers'[kind] = timers[kind] - 1
    PROVE  WindowSound'
<1>1. CallsSound'
    BY CallsKeep DEF CallsSound
<1>2. TimersSound'
    BY TimersKeep DEF TimersSound
<1>3. MessageIsTrue'
    BY MessageStays
<1> QED
    BY <1>1, <1>2, <1>3 DEF WindowSound

\* The calls of the dialog that is open are the only assignments there are.
LEMMA AssignsOpen ==
    ASSUME WindowSound, NEW call \in calls, call.kind = "assign"
    PROVE  dialog.kind = "assign" /\ dialog.task = call.task
BY DEF WindowSound, CallsSound, CallSound

LEMMA StillKeeps ==
    ASSUME WindowSound, Ages, UNCHANGED <<page, dialog, timers>>, calls' \in SUBSET calls
    PROVE  WindowSound'
<1>1. calls' \in SUBSET Call /\ AcceptedOnce' /\ \A call \in calls' : From(call)
    BY FewerCalls
<1>2. WindowTyped'
    BY <1>1 DEF WindowSound, WindowTyped
<1>3. \A call \in calls' : call.kind = "assign" => dialog'.kind = "assign" /\ dialog'.task = dialog.task
    BY AssignsOpen
<1> QED
    BY <1>1, <1>2, <1>3, LessKeeps

\* The page, or everything, is left.
LEMMA LeaveKeeps ==
    ASSUME WindowSound, Ages, page' \in {"checking", "stuck", "home", "account", "tasks"},
           dialog' = NoDialog, calls' = {}, timers' = NoTimers
    PROVE  WindowSound'
<1>1. timers' \in [{"assign", "audit"} -> {0}]
    BY DEF NoTimers, WindowSound, WindowTyped
<1>2. WindowTyped'
    BY <1>1 DEF WindowTyped, NoDialog
<1>3. AcceptedOnce'
    BY DEF AcceptedOnce, OnlyOnce
<1> QED
    BY <1>1, <1>2, <1>3, LessKeeps DEF NoDialog

\* A dialog is closed by its user, or by a timer.
LEMMA CloseKeeps ==
    ASSUME WindowSound, Ages, dialog' = NoDialog, calls' = Detached(dialog.kind), UNCHANGED page,
           timers' \in [{"assign", "audit"} -> Nat],
           \A kind \in {"assign", "audit"} :
              \/ timers'[kind] \in {timers[kind], 0}
              \/ timers[kind] > 0 /\ timers'[kind] = timers[kind] - 1
    PROVE  WindowSound'
<1>1. /\ calls' \in SUBSET Call /\ AcceptedOnce'
      /\ \A call \in calls' : From(call) /\ (call.kind = dialog.kind => dialog.kind = "audit")
    BY DetachedCalls
<1>2. WindowTyped'
    BY <1>1 DEF WindowSound, WindowTyped, NoDialog
<1>3. ASSUME NEW call \in calls'
      PROVE  call.kind # "assign"
  <2>1. PICK old \in calls : call.kind = old.kind
    BY <1>1, SameCall DEF WindowSound, WindowTyped
  <2> QED
    BY <1>1, <2>1, AssignsOpen
<1> QED
    BY <1>1, <1>2, <1>3, LessKeeps DEF NoDialog

LEMMA OpenKeeps ==
    ASSUME Typed, WindowSound, Ages, NEW t \in Task, NEW kind \in Kind, Open(t, kind)
    PROVE  WindowSound'
<1>1. /\ dialog = NoDialog /\ UNCHANGED <<page, calls, timers>>
      /\ dialog' = [kind |-> kind, task |-> t, field |-> NoOne, told |-> NoOne,
                    row |-> IF kind = "info" /\ cache[DetailsKey(t)].fetch = "idle" THEN Row(t) ELSE "none"]
      /\ Offers(t, kind)
    BY DEF Open
<1>2. Row(t) \in Stage
  <2>1. cache[ListKey].data \in Table /\ t \in DOMAIN cache[ListKey].data
    BY <1>1 DEF Offers, Listed, Typed, Key, CacheEntry
  <2> QED
    BY <2>1, TableDomain DEF Row
<1>3. dialog' \in Dialog
    BY <1>1, <1>2 DEF Dialog, Field, Stage
<1>4. /\ kind = "assign" => page = "tasks"
      /\ kind \in {"info", "audit"} => page = "account"
    BY <1>1 DEF Offers
<1>5. WindowTyped'
    BY <1>1, <1>3, <1>4 DEF WindowSound, WindowTyped
<1>6. calls' \in SUBSET calls
    BY <1>1
<1>7. AcceptedOnce' /\ \A call \in calls' : From(call)
    BY <1>6, FewerCalls
<1>8. \A call \in calls' : call.kind # "assign"
    BY <1>1, AssignsOpen DEF NoDialog
<1> QED
    BY <1>1, <1>5, <1>7, <1>8, LessKeeps

\* What a dialog says is changed, but for its task and its message.
LEMMA EditKeeps ==
    ASSUME WindowSound, Ages, dialog \in Dialog, dialog' \in Dialog,
           dialog'.kind = dialog.kind, dialog'.task = dialog.task, dialog'.told = dialog.told,
           dialog.kind = "assign" => dialog'.field \in Acct \cup {NoOne},
           UNCHANGED <<page, calls, timers>>
    PROVE  WindowSound'
<1>1. WindowTyped'
    BY DEF WindowSound, WindowTyped
<1>2. AcceptedOnce' /\ \A call \in calls' : From(call)
    BY FewerCalls
<1>3. \A call \in calls' : call.kind = "assign" => dialog'.kind = "assign" /\ dialog'.task = dialog.task
    BY AssignsOpen
<1> QED
    BY <1>1, <1>2, <1>3, LessKeeps

LEMMA TypeKeeps ==
    ASSUME WindowSound, Ages, NEW field \in Field, Type(field)
    PROVE  WindowSound'
<1>1. dialog \in Dialog
    BY DEF Type, WindowSound, WindowTyped, NoDialog
<1>2. /\ dialog' \in Dialog /\ dialog'.kind = dialog.kind /\ dialog'.task = dialog.task
      /\ dialog'.told = dialog.told /\ dialog'.field = field
      /\ (dialog.kind = "assign" => field \in Acct) /\ UNCHANGED <<page, calls, timers>>
    BY <1>1 DEF Type, Dialog
<1> QED
    BY <1>1, <1>2, EditKeeps

LEMMA FetchFailsKeeps ==
    ASSUME WindowSound, Ages, NEW k \in Key, FetchFails(k)
    PROVE  WindowSound'
<1>1. CASE dialog' = dialog
    BY <1>1, StillKeeps DEF FetchFails
<1>2. CASE k \in {DetailsKey(t) : t \in Task} /\ Active(k) /\ dialog' = [dialog EXCEPT !.row = "none"]
  <2>1. k # ListKey
    BY <1>2 DEF ListKey, DetailsKey
  <2>2. dialog.kind \in {"info", "assign"}
    BY <1>2, <2>1 DEF Active
  <2>3. dialog \in Dialog
    BY <2>2 DEF WindowSound, WindowTyped, NoDialog
  <2>4. /\ dialog' \in Dialog /\ dialog'.kind = dialog.kind /\ dialog'.task = dialog.task
        /\ dialog'.told = dialog.told /\ dialog'.field = dialog.field
    BY <1>2, <2>3 DEF Dialog, Stage
  <2>5. dialog.kind = "assign" => dialog.field \in Acct \cup {NoOne}
    BY DEF WindowSound, WindowTyped
  <2> QED
    BY <2>3, <2>4, <2>5, EditKeeps DEF FetchFails
<1> QED
    BY <1>1, <1>2 DEF FetchFails

\* A call is made: those of its kind before it are heard no more.
LEMMA PostKeeps ==
    ASSUME WindowSound, Ages, NEW kind \in {"create", "assign", "audit", "finalize"},
           NEW t \in Task, NEW field \in Field, Post(kind, t, field),
           kind = "assign" => dialog.kind = "assign" /\ dialog.task = t /\ field \in Acct,
           UNCHANGED <<page, dialog, timers>>
    PROVE  WindowSound'
<1> DEFINE new == [kind |-> kind, task |-> t, field |-> field, heard |-> "all", accepted |-> FALSE]
<1>1. calls' = Detached(kind) \cup {new} /\ calls \in SUBSET Call
    BY DEF Post, WindowSound, WindowTyped
<1>2. /\ Detached(kind) \in SUBSET Call /\ OnlyOnce(Detached(kind))
      /\ \A call \in Detached(kind) : From(call)
    BY DetachedSet
<1>3. new \in Call /\ ~new.accepted
    BY DEF Call
<1>4. AcceptedOnce'
    BY <1>1, <1>2, <1>3 DEF AcceptedOnce, OnlyOnce
<1>5. WindowTyped'
    BY <1>1, <1>2, <1>3 DEF WindowSound, WindowTyped
<1>6. ASSUME NEW call \in Detached(kind)
      PROVE  CallSound(call)'
  <2>1. PICK old \in calls : call.kind = old.kind
    BY <1>1, <1>2, SameCall
  <2>2. call.kind = "assign" => dialog'.kind = "assign" /\ dialog'.task = dialog.task
    BY <2>1, AssignsOpen
  <2> QED
    BY <1>2, <2>2, CallsKeep
<1>7. CallSound(new)'
    BY DEF CallSound
<1>8. CallsSound'
    BY <1>1, <1>6, <1>7 DEF CallsSound
<1>9. TimersSound'
  <2>1. \A call \in calls' : From(call) \/ ~call.accepted
    BY <1>1, <1>2, <1>3
  <2> QED
    BY <2>1, TimersKeep DEF TimersSound
<1>10. MessageIsTrue'
    BY MessageStays
<1> QED
    BY <1>4, <1>5, <1>8, <1>9, <1>10 DEF WindowSound

\* The server accepts a call: nothing of its kind was done to the task before.
LEMMA AcceptKeeps ==
    ASSUME Typed, WindowSound, Ages, NEW call \in calls, ~call.accepted, Accepts(call), Serve(call),
           calls' = (calls \ {call}) \cup {[call EXCEPT !.accepted = TRUE]},
           UNCHANGED <<page, dialog, timers>>
    PROVE  WindowSound'
<1> DEFINE accepted == [call EXCEPT !.accepted = TRUE]
<1>1. /\ calls \in SUBSET Call /\ call \in Call /\ CallSound(call) /\ OnlyOnce(calls)
      /\ status \in [Task -> Market!TaskStatus] /\ executor \in [Task -> Acct \cup {NoOne}]
    BY DEF WindowSound, WindowTyped, CallsSound, AcceptedOnce, Typed, Market!MarketTypeOK
<1>2. /\ accepted \in Call /\ accepted.kind = call.kind /\ accepted.task = call.task
      /\ accepted.field = call.field /\ accepted.accepted /\ call.task \in Task
    BY <1>1 DEF Call
<1>3. call.kind = "assign" =>
         /\ executor[call.task] = NoOne /\ executor'[call.task] = call.field
         /\ call.field \in Acct
    BY <1>1, <1>2 DEF CallSound, Serve, Market!Appoint, Market!CanAppoint
<1>4. call.kind = "audit" => status[call.task] = "completed" /\ status'[call.task] = "audit_requested"
    BY <1>1, <1>2 DEF Serve, Market!RequestAudit, Market!HasStatus, Market!Become
<1>5. call.kind \in {"assign", "audit"} => ~Done(call.kind, call.task) /\ Done(call.kind, call.task)'
    BY <1>3, <1>4, FrontendAssumption DEF Done
<1> HIDE DEF accepted
<1>6. calls' = (calls \ {call}) \cup {accepted}
    BY DEF accepted
<1>7. WindowTyped'
    BY <1>1, <1>2, <1>6 DEF WindowSound, WindowTyped
<1>8. AcceptedOnce'
  <2>1. ASSUME NEW other \in calls, other.kind = call.kind, other.kind \in {"assign", "audit"},
               other.accepted
        PROVE  other.task # call.task
    BY <1>5, <2>1 DEF WindowSound, CallsSound, CallSound
  <2> QED
    BY <1>1, <1>2, <1>6, <2>1 DEF AcceptedOnce, OnlyOnce
<1>9. CallsSound'
  <2>1. CallSound(accepted)'
    BY <1>1, <1>2, <1>3, <1>5 DEF CallSound
  <2>2. ASSUME NEW other \in calls
        PROVE  CallSound(other)'
    BY AssignsOpen, CallsKeep DEF From
  <2> QED
    BY <1>6, <2>1, <2>2 DEF CallsSound
<1>10. TimersSound'
  <2> SUFFICES ASSUME NEW kind \in {"assign", "audit"}
               PROVE  \E tasks \in SUBSET Task :
                         /\ IsFiniteSet(tasks) /\ Cardinality(tasks) = timers'[kind]
                         /\ \A t \in tasks : Done(kind, t)'
                         /\ \A other \in calls' : other.kind = kind /\ other.accepted => other.task \notin tasks
    BY DEF TimersSound
  <2>1. PICK tasks \in SUBSET Task :
           /\ IsFiniteSet(tasks) /\ Cardinality(tasks) = timers[kind]
           /\ \A t \in tasks : Done(kind, t)
           /\ \A other \in calls : other.kind = kind /\ other.accepted => other.task \notin tasks
    BY DEF WindowSound, TimersSound
  <2>2. call.kind = kind => call.task \notin tasks
    BY <1>5, <2>1
  <2>3. \A t \in tasks : Done(kind, t)'
    BY <2>1, StaysDone
  <2> QED
    BY <1>2, <1>6, <2>1, <2>2, <2>3
<1>11. MessageIsTrue'
    BY MessageStays
<1> QED
    BY <1>7, <1>8, <1>9, <1>10, <1>11 DEF WindowSound

LEMMA SucceedKeeps ==
    ASSUME WindowSound, Ages, NEW call \in calls, Succeed(call)
    PROVE  WindowSound'
<1> DEFINE closes == call.kind = "audit" /\ dialog.kind = "audit"
           sets(kind) == call.heard = "all" /\ call.kind = kind
<1>1. /\ calls \in SUBSET Call /\ call \in Call /\ CallSound(call) /\ OnlyOnce(calls)
      /\ call.accepted /\ UNCHANGED <<status, executor, page>>
    BY DEF Succeed, server, WindowSound, WindowTyped, CallsSound, AcceptedOnce
<1>2. /\ timers \in [{"assign", "audit"} -> Nat]
      /\ timers' = [kind \in {"assign", "audit"} |-> timers[kind] + IF sets(kind) THEN 1 ELSE 0]
    BY DEF Succeed, WindowSound, WindowTyped
<1>3. calls' = (IF closes THEN Detached("audit") ELSE calls) \ {call, [call EXCEPT !.heard = "close"]}
    BY DEF Succeed
<1>4. calls' \in SUBSET Call /\ AcceptedOnce' /\ \A other \in calls' : From(other)
    BY <1>3, FewerCalls, DetachedCalls
<1>5. /\ closes => dialog' = NoDialog
      /\ call.kind = "assign" => dialog' = [dialog EXCEPT !.told = call.field]
      /\ ~closes /\ call.kind # "assign" => dialog' = dialog
    BY DEF Succeed, Told
<1>6. call.kind = "assign" =>
         /\ dialog \in Dialog /\ dialog.kind = "assign" /\ dialog.task = call.task
         /\ call.field \in Acct /\ executor[call.task] = call.field
    BY <1>1 DEF CallSound, WindowSound, WindowTyped, NoDialog
<1>7. call.kind = "assign" =>
         /\ dialog' \in Dialog /\ dialog'.kind = "assign" /\ dialog'.task = dialog.task
         /\ dialog'.field = dialog.field /\ dialog'.told = call.field
    BY <1>5, <1>6 DEF Dialog
<1>8. WindowTyped'
  <2>1. timers' \in [{"assign", "audit"} -> Nat]
    BY <1>2
  <2> HIDE DEF sets
  <2> QED
    BY <1>1, <1>4, <1>5, <1>6, <1>7, <2>1 DEF WindowSound, WindowTyped, NoDialog
<1>9. CallsSound'
  <2> SUFFICES ASSUME NEW other \in calls'
               PROVE  CallSound(other)'
    BY DEF CallsSound
  <2>1. From(other)
    BY <1>4
  <2>2. PICK old \in calls : other.kind = old.kind
    BY <1>1, <2>1, SameCall
  <2>3. other.kind = "assign" => dialog'.kind = "assign" /\ dialog'.task = dialog.task
    BY <1>5, <1>7, <2>2, AssignsOpen
  <2> QED
    BY <2>1, <2>3, CallsKeep
<1>10. TimersSound'
  <2> SUFFICES ASSUME NEW kind \in {"assign", "audit"}
               PROVE  \E tasks \in SUBSET Task :
                         /\ IsFiniteSet(tasks) /\ Cardinality(tasks) = timers'[kind]
                         /\ \A t \in tasks : Done(kind, t)'
                         /\ \A other \in calls' : other.kind = kind /\ other.accepted => other.task \notin tasks
    BY DEF TimersSound
  <2>1. CASE ~sets(kind)
    <3>1. timers'[kind] = timers[kind]
      BY <1>2, <2>1
    <3> QED
      BY <1>4, <3>1, TimersKeep
  <2>2. CASE sets(kind)
    <3>1. timers'[kind] = timers[kind] + 1 /\ call.kind = kind /\ call.task \in Task
      BY <1>1, <1>2, <2>2 DEF Call
    <3>2. PICK tasks \in SUBSET Task :
             /\ IsFiniteSet(tasks) /\ Cardinality(tasks) = timers[kind]
             /\ \A t \in tasks : Done(kind, t)
             /\ \A other \in calls : other.kind = kind /\ other.accepted => other.task \notin tasks
      BY DEF WindowSound, TimersSound
    <3> DEFINE more == tasks \cup {call.task}
    <3>3. call.task \notin tasks
      BY <1>1, <3>1, <3>2
    <3>4. IsFiniteSet(more) /\ Cardinality(more) = timers'[kind] /\ more \in SUBSET Task
      <4>1. IsFiniteSet(more) /\ Cardinality(more) = Cardinality(tasks) + 1
        BY <3>2, <3>3, FS_AddElement
      <4> QED
        BY <3>1, <3>2, <4>1
    <3>5. Done(kind, call.task)
      BY <1>1, <3>1 DEF CallSound
    <3>6. \A t \in more : Done(kind, t)'
      BY <3>1, <3>2, <3>5, StaysDone
    <3>7. ASSUME NEW other \in calls', other.kind = kind, other.accepted
          PROVE  other.task \notin more
      <4>1. PICK old \in calls : /\ other = old \/ other = [old EXCEPT !.heard = "close"]
                                 /\ other.kind = old.kind /\ other.task = old.task
                                 /\ other.accepted = old.accepted
        BY <1>1, <1>4, SameCall
      <4>2. old # call
        BY <1>3, <4>1
      <4>3. old.task # call.task
        BY <1>1, <3>1, <3>7, <4>1, <4>2 DEF OnlyOnce
      <4> QED
        BY <3>2, <3>7, <4>1, <4>3
    <3> HIDE DEF more
    <3> QED
      BY <3>4, <3>6, <3>7
  <2> QED
    BY <2>1, <2>2
<1>11. MessageIsTrue'
  <2>1. CASE call.kind = "assign"
    BY <1>1, <1>6, <1>7, <2>1 DEF MessageIsTrue
  <2>2. CASE call.kind # "assign"
    BY <1>5, <2>2, MessageStays DEF NoDialog
  <2> QED
    BY <2>1, <2>2
<1> QED
    BY <1>4, <1>8, <1>9, <1>10, <1>11 DEF WindowSound

LEMMA TimerFiresKeeps ==
    ASSUME WindowSound, Ages, NEW kind \in DOMAIN timers, TimerFires(kind)
    PROVE  WindowSound'
<1>1. /\ timers \in [{"assign", "audit"} -> Nat] /\ kind \in {"assign", "audit"} /\ timers[kind] > 0
      /\ timers' = [timers EXCEPT ![kind] = @ - 1] /\ UNCHANGED page
    BY DEF TimerFires, WindowSound, WindowTyped
<1>2. /\ timers' \in [{"assign", "audit"} -> Nat]
      /\ \A other \in {"assign", "audit"} :
            \/ timers'[other] \in {timers[other], 0}
            \/ timers[other] > 0 /\ timers'[other] = timers[other] - 1
    BY <1>1
<1>3. CASE dialog.kind = kind /\ dialog' = NoDialog /\ calls' = Detached(kind)
    BY <1>1, <1>2, <1>3, CloseKeeps
<1>4. CASE UNCHANGED <<dialog, calls>>
  <2>1. AcceptedOnce' /\ \A call \in calls' : From(call)
    BY <1>4, FewerCalls
  <2>2. WindowTyped'
    BY <1>1, <1>2, <1>4 DEF WindowSound, WindowTyped
  <2>3. \A call \in calls' : call.kind = "assign" => dialog'.kind = "assign" /\ dialog'.task = dialog.task
    BY <1>4, AssignsOpen
  <2> QED
    BY <1>2, <1>4, <2>1, <2>2, <2>3, LessKeeps
<1> QED
    BY <1>3, <1>4 DEF TimerFires

LEMMA UserKeeps ==
    ASSUME Typed, WindowSound, Ages, User
    PROVE  WindowSound'
<1>1. ASSUME NEW to \in {"home", "account", "tasks"}, Navigate(to)
      PROVE  WindowSound'
    BY <1>1, LeaveKeeps DEF Navigate
<1>2. CASE Reload
    BY <1>2, LeaveKeeps DEF Reload
<1>3. ASSUME NEW t \in Task, NEW kind \in Kind, Open(t, kind)
      PROVE  WindowSound'
    BY <1>3, OpenKeeps
<1>4. CASE Dismiss
  <2>1. timers' \in [{"assign", "audit"} -> Nat] /\ timers' = timers
    BY <1>4 DEF Dismiss, WindowSound, WindowTyped
  <2> QED
    BY <1>4, <2>1, CloseKeeps DEF Dismiss
<1>5. ASSUME NEW field \in Field, Type(field)
      PROVE  WindowSound'
    BY <1>5, TypeKeeps
<1>6. CASE Submit
  <2>1. dialog \in Dialog /\ dialog.kind \in {"assign", "audit"} /\ dialog.field # NoOne
    BY <1>6 DEF Submit, WindowSound, WindowTyped, NoDialog
  <2>2. /\ dialog.task \in Task /\ dialog.field \in Field
        /\ dialog.kind = "assign" => dialog.field \in Acct
    BY <2>1 DEF Dialog, WindowSound, WindowTyped
  <2> QED
    BY <1>6, <2>1, <2>2, PostKeeps DEF Submit
<1>7. ASSUME NEW t \in Task, Create(t) \/ Finalize(t)
      PROVE  WindowSound'
    BY <1>7, PostKeeps DEF Create, Finalize, Field
<1> QED
    BY <1>1, <1>2, <1>3, <1>4, <1>5, <1>6, <1>7 DEF User

LEMMA WindowKeeps ==
    ASSUME Typed, WindowSound, Ages, [Next]_vars
    PROVE  WindowSound'
<1>1. CASE UNCHANGED <<page, dialog, calls, timers>>
    BY <1>1, StillKeeps
<1>2. CASE HealthAnswers \/ HealthFails
  <2>1. /\ page = "checking" /\ page' \in {"home", "stuck"} /\ UNCHANGED <<dialog, calls, timers>>
    BY <1>2 DEF HealthAnswers, HealthFails
  <2>2. WindowTyped'
    BY <2>1 DEF WindowSound, WindowTyped
  <2>3. AcceptedOnce' /\ \A call \in calls' : From(call)
    BY <2>1, FewerCalls
  <2>4. \A call \in calls' : call.kind = "assign" => dialog'.kind = "assign" /\ dialog'.task = dialog.task
    BY <2>1, AssignsOpen
  <2> QED
    BY <2>1, <2>2, <2>3, <2>4, LessKeeps
<1>3. ASSUME NEW k \in Key, FetchFails(k)
      PROVE  WindowSound'
    BY <1>3, FetchFailsKeeps
<1>4. ASSUME NEW call \in calls, CallFails(call)
      PROVE  WindowSound'
    BY <1>4, StillKeeps DEF CallFails
<1>5. CASE User
    BY <1>5, UserKeeps
<1>6. CASE Poll \/ \E k \in Key : Answer(k) \/ Arrive(k) \/ Collect(k)
    BY <1>1, <1>6 DEF Poll, Answer, Arrive, Collect
<1>7. ASSUME NEW call \in calls, Handle(call)
      PROVE  WindowSound'
    BY <1>7, AcceptKeeps, StillKeeps DEF Handle
<1>8. ASSUME NEW call \in calls, Succeed(call)
      PROVE  WindowSound'
    BY <1>8, SucceedKeeps
<1>9. ASSUME NEW kind \in DOMAIN timers, TimerFires(kind)
      PROVE  WindowSound'
    BY <1>9, TimerFiresKeeps
<1>10. CASE \E t \in Task : Elsewhere(t)
    BY <1>1, <1>10 DEF Elsewhere
<1> QED
    BY <1>1, <1>2, <1>3, <1>4, <1>5, <1>6, <1>7, <1>8, <1>9, <1>10 DEF Next, Trouble, vars

-----------------------------------------------------------------------------
(* The theorems.                                                           *)

LEMMA WindowInit == Init => WindowInv
<1> SUFFICES ASSUME Init PROVE WindowInv
    OBVIOUS
<1> USE DEF Init
<1>1. WindowTyped /\ Typed
    BY FrontendAssumption DEF WindowTyped, Typed, NoDialog, Entry, CacheEntry, Table, Market!Nothing,
       Market!MarketTypeOK, Market!TaskStatus
<1>2. CacheSound
    BY DEF CacheSound, Fits, NotBefore, Entry
<1>3. CallsSound /\ AcceptedOnce /\ MessageIsTrue
    BY DEF CallsSound, AcceptedOnce, OnlyOnce, MessageIsTrue, NoDialog
<1>4. TimersSound
  <2>1. IsFiniteSet({}) /\ Cardinality({}) = 0 /\ {} \in SUBSET Task
    BY FS_EmptySet
  <2> QED
    BY <2>1 DEF TimersSound
<1> QED
    BY <1>1, <1>2, <1>3, <1>4 DEF WindowInv, WindowSound

LEMMA WindowNext ==
    ASSUME WindowInv, [Next]_vars
    PROVE  /\ WindowInv'
           /\ \A k \in Key : NotBefore(cache'[k].data, cache[k].data)
<1>1. Typed /\ CacheSound /\ WindowSound /\ CallsSound
    BY DEF WindowInv, WindowSound
<1>2. Ages /\ CacheStep
    BY <1>1, NextAges, NextKeys
<1>3. CacheSound' /\ \A k \in Key : NotBefore(cache'[k].data, cache[k].data)
    BY <1>1, <1>2, CacheKeeps
<1>4. WindowSound'
    BY <1>1, <1>2, WindowKeeps
<1>5. faults' \in 0 .. MaxFaults
    BY <1>1, FrontendAssumption DEF Typed, Next, Trouble, vars
<1>6. Typed'
    BY <1>2, <1>4, <1>5 DEF Typed, Ages, CacheStep, WindowSound
<1> QED
    BY <1>3, <1>4, <1>6 DEF WindowInv

\* The cache, the dialogs, the unanswered calls and the timers of a window fit the server's
\* tasks and each other, whatever the user and others do and in whatever order answers
\* arrive (FRONTEND/src: tasksGet.ts, taskAddressGet.ts, AssignModal.tsx, Modal.tsx).
THEOREM WindowInvHolds == Spec => []WindowInv
<1>1. Init => WindowInv
    BY WindowInit
<1>2. WindowInv /\ [Next]_vars => WindowInv'
    BY WindowNext
<1> QED
    BY <1>1, <1>2, PTL DEF Spec

\* Every variable of a window keeps its type: among them that a dialog is open on its own
\* page only, that only a call made from an assignment's dialog puts a message into it,
\* and that there are never more timers to close dialogs than there are tasks
\* (AssignModal.tsx:51-61, RequestAuditModal.tsx).
THEOREM WindowTypeOK == Spec => []TypeOK
<1>1. WindowInv => TypeOK
  <2> SUFFICES ASSUME WindowInv PROVE TypeOK
    OBVIOUS
  <2>1. Typed /\ WindowTyped /\ TimersSound
    BY DEF WindowInv, WindowSound
  <2>2. ASSUME NEW k \in Key
        PROVE  /\ cache[k].fetch \in {"idle", "sent", "answered"}
               /\ \A t \in DOMAIN cache[k].data : cache[k].data[t] \in Stage
    BY <2>1, TableDomain DEF Typed, CacheEntry
  <2>3. timers \in [{"assign", "audit"} -> 0 .. Cardinality(Task)]
    <3>1. ASSUME NEW kind \in {"assign", "audit"}
          PROVE  timers[kind] \in 0 .. Cardinality(Task)
      <4>1. PICK tasks \in SUBSET Task : IsFiniteSet(tasks) /\ Cardinality(tasks) = timers[kind]
        BY <2>1 DEF TimersSound
      <4>2. Cardinality(tasks) <= Cardinality(Task) /\ Cardinality(tasks) \in Nat /\ Cardinality(Task) \in Nat
        BY FrontendAssumption, FS_Subset, FS_CardinalityType
      <4> QED
        BY <4>1, <4>2
    <3> QED
      BY <2>1, <3>1 DEF WindowTyped
  <2> QED
    BY <2>1, <2>2, <2>3 DEF TypeOK, Typed, WindowTyped
<1> QED
    BY <1>1, WindowInvHolds, PTL

\* The account that a success message names is the task's executor at the server, for any
\* number of accounts, tasks and calls, though the field is edited and the button pressed
\* again while calls are under way (AssignModal.tsx:37-56).
THEOREM MessagesAreTrue == Spec => []MessageIsTrue
<1>1. WindowInv => MessageIsTrue
    BY DEF WindowInv, WindowSound
<1> QED
    BY <1>1, WindowInvHolds, PTL

\* What the list and the details show of a task never goes back, whichever requests of
\* polls, dialogs and calls are under way at the same time, fail or are abandoned
\* (tasksGet.ts:39-45, AssignModal.tsx:53).
THEOREM WindowNeverGoesBack == Spec => NeverGoesBack
<1> DEFINE Onward == \A k \in Key : \A t \in DOMAIN cache[k].data \cap DOMAIN cache'[k].data :
                        Rank[cache[k].data[t]] <= Rank[cache'[k].data[t]]
<1>1. WindowInv /\ [Next]_vars => [Onward]_vars
    BY WindowNext DEF NotBefore
<1> QED
    BY <1>1, WindowInvHolds, PTL DEF Spec, NeverGoesBack
=============================================================================
