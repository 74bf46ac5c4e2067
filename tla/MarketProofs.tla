---------------------------- MODULE MarketProofs ----------------------------
(***************************************************************************)
(* What the server shows to its clients, compared with the contracts and   *)
(* with the market it promises, for any number of handlers.                *)
(*                                                                         *)
(* A handler writes what it tested one or more awaits ago.  Three facts    *)
(* carry the proof.  Until an audit is answered, what a handler relies on  *)
(* cannot be taken back by another (Follows): the contract lets each of    *)
(* the calls that the writes depend on pass once.  For the same reason two *)
(* handlers of a task are never at the same place before such a write      *)
(* (Clash).  And once the audit is answered, Market lets a request that    *)
(* comes late write what it was asked for.                                 *)
(***************************************************************************)
EXTENDS ServerProofs

\* Before its task is stored, between payment and reward, and from the submission of an
\* audit to its verdict.
Creating == {"deploy", "deployed"}
Paid == {"requestCompleted", "award", "awarded"}
Auditors == {"storeAudit", "appointAuditor", "assignAuditResult", "auditAssigned"}

\* What starts once a result is shown.
Later == {"completeRequest", "requestAudit", "auditRequested"} \cup Paid \cup Auditors

\* What a handler relies on, of the storage s and the task t it is busy with.
Follows(hd, s, t) ==
    /\ hd.pc \in Creating => t = NoTask /\ ~s.auditRequired
    /\ hd.pc \in Later => t.status # "waiting"
    /\ hd.pc \in {"assignResult", "resultAssigned"} => t.executor # NoOne
    /\ hd.pc = "resultAssigned" => t.status = "waiting" \/ Answered(s)
    /\ hd.pc \in Paid => t.status \in {"completed", "finalized"} \/ Answered(s)
    /\ hd.pc = "auditRequested" => t.status = "completed" /\ ~Answered(s)
    /\ hd.pc \in Auditors => t.status = "audit_requested" \/ Answered(s)
    /\ hd.pc = "auditAssigned" => s.auditorResultHash = HashOf(Hashed(hd.local.body))

\* Where two handlers of one task never are.
Clash(hd, other, s) ==
    \/ hd.pc \in Creating /\ other.pc \in Creating
    \/ hd.pc = "auditRequested" /\ other.pc = "auditRequested"
    \/ hd.pc = "resultAssigned" /\ other.pc = "resultAssigned" /\ ~Answered(s)

\* Nothing but a waiting task lacks an executor.
HasExecutor(t) == t # NoTask /\ t.status # "waiting" => t.executor # NoOne

LifeInv ==
    /\ ServerInv
    /\ \A h \in Handler : handler[h] # Idle =>
          Follows(handler[h], req[handler[h].local.q], tasks[handler[h].local.q])
    /\ \A g, h \in Handler :
          /\ handler[g] # Idle /\ handler[h] # Idle /\ g # h
          /\ handler[g].local.q = handler[h].local.q
          => ~Clash(handler[g], handler[h], req[handler[h].local.q])
    /\ \A q \in Req : HasExecutor(tasks[q])
-----------------------------------------------------------------------------
(* One step of a handler, as the others see it.                            *)

\* What a handler at pc can make of the task t, if its contract's storage is s: name an
\* executor, store a new task, go one step further in its life, or be late.
MayWrite(pc, s, t, t2) ==
    /\ t2 # NoTask
    /\ \/ /\ t # NoTask /\ t2.status = t.status
          /\ t2.executor \in Account \/ t2.executor = t.executor
       \/ /\ t = NoTask /\ pc = "deployed"
          /\ t2.status = "waiting" /\ t2.executor = NoOne
       \/ /\ t # NoTask /\ t2.executor = t.executor
          /\ \/ /\ Answered(s)
                /\ t.executor # NoOne \/ t.status # "waiting"
                /\ t2.status \in {"completed", "finalized", "audit_passed", "audit_failed"}
             \/ /\ pc = "resultAssigned"
                /\ t.status = "waiting" /\ t2.status = "completed"
             \/ /\ pc = "awarded"
                /\ t.status \in {"completed", "finalized"} /\ t2.status = "finalized"
             \/ /\ pc = "auditRequested"
                /\ t.status = "completed" /\ t2.status = "audit_requested"

\* A handler changes one contract, and an audit is answered by a handler that submits one.
ChainSteps(h) ==
    \A x \in Req : req'[x] # req[x] =>
        /\ handler[h] # Idle /\ handler[h].local.q = x
        /\ Answered(req'[x]) /\ ~Answered(req[x]) => handler[h].pc \in Auditors

TaskSteps(h) ==
    \/ UNCHANGED tasks
    \/ /\ UNCHANGED req
       /\ handler[h] # Idle
       /\ \E t : /\ Update(handler[h].local.q, t)
                 /\ MayWrite(handler[h].pc, req[handler[h].local.q],
                           tasks[handler[h].local.q], t)

\* Where the handler goes it has what it relies on, and meets nobody.
Arrives(h) ==
    handler'[h] # Idle =>
        LET q == handler'[h].local.q
        IN  /\ q \in Req
            /\ Follows(handler'[h], req'[q], tasks'[q])
            /\ \A g \in Handler \ {h} : handler[g] # Idle /\ handler[g].local.q = q =>
                  ~Clash(handler'[h], handler[g], req'[q])

Steps(h) ==
    /\ \A g \in Handler : g # h => handler'[g] = handler[g]
    /\ ChainSteps(h)
    /\ TaskSteps(h)
    /\ Arrives(h)

\* What is known of any handler that is busy.
LEMMA Busy ==
  ASSUME LifeInv, NEW g \in Handler, handler[g] # Idle
  PROVE  LET q == handler[g].local.q
         IN  /\ q \in Req /\ handler[g].pc \in Pc /\ handler[g].local \in Local
             /\ handler[g].pc \notin Creating => tasks[q] # NoTask
             /\ Reached(handler[g].pc, handler[g].local, req[q])
             /\ Follows(handler[g], req[q], tasks[q])
             /\ HasExecutor(tasks[q])
             /\ tasks[q] \in Task \cup {NoTask}
             /\ TaskSound(tasks[q], req[q], roles["ADMIN"])
<1>1. HandlerSound(handler[g], req[handler[g].local.q], tasks[handler[g].local.q])
  BY DEF LifeInv, ServerInv
<1>2. handler[g].local.q \in Req /\ handler[g].local \in Local /\ handler[g].pc \in Pc
  BY <1>1 DEF HandlerSound, Local
<1> QED
  BY <1>1, <1>2 DEF LifeInv, ServerInv, HandlerSound, Creating

\* The step of one handler takes nothing back that another one relies on.
LEMMA FollowsKept ==
  ASSUME NEW hd, NEW other, NEW s, NEW t, NEW s2, NEW t2, NEW admins,
         Follows(hd, s, t), Follows(other, s, t),
         Reached(hd.pc, hd.local, s), Reached(other.pc, other.local, s),
         hd.pc \notin Creating => t # NoTask,
         other.pc \notin Creating => t # NoTask,
         ~Clash(hd, other, s),
         Progress(s, s2, admins),
         Answered(s2) /\ ~Answered(s) => hd.pc \in Auditors,
         \/ t2 = t
         \/ s2 = s /\ MayWrite(hd.pc, s, t, t2)
  PROVE  Follows(other, s2, t2)
<1>1. hd.pc \notin Creating /\ other.pc \notin Creating
  BY DEF Follows, Clash
<1>2. t # NoTask /\ (Answered(s) => Answered(s2))
  BY <1>1 DEF Progress
<1>3. CASE t2 = t
  BY <1>1, <1>2, <1>3 DEF Follows, Reached, Progress, Paid, Auditors
<1>4. CASE s2 = s /\ MayWrite(hd.pc, s, t, t2)
  <2>1. other.pc \in Later => t2.status # "waiting"
    BY <1>2, <1>4 DEF Follows, MayWrite
  <2>2. other.pc \in {"assignResult", "resultAssigned"} => t2.executor # NoOne
    BY <1>2, <1>4, ServerAssumption DEF Follows, MayWrite
  <2>3. other.pc = "resultAssigned" => t2.status = "waiting" \/ Answered(s)
    BY <1>2, <1>4 DEF Follows, MayWrite, Clash, Paid
  <2>4. other.pc \in Paid => t2.status \in {"completed", "finalized"} \/ Answered(s)
    BY <1>2, <1>4 DEF Follows, MayWrite, Paid, Reached, Answered
  <2>5. other.pc = "auditRequested" => t2.status = "completed" /\ ~Answered(s)
    BY <1>2, <1>4 DEF Follows, MayWrite, Clash, Paid, Reached, Answered
  <2>6. other.pc \in Auditors => t2.status = "audit_requested" \/ Answered(s)
    BY <1>2, <1>4 DEF Follows, MayWrite, Auditors, Paid
  <2> QED
    BY <1>1, <1>4, <2>1, <2>2, <2>3, <2>4, <2>5, <2>6 DEF Follows
<1> QED
  BY <1>3, <1>4

LEMMA StepsKeep ==
  ASSUME LifeInv, ServerInv', Moves, NEW h \in Handler, Steps(h)
  PROVE  LifeInv'
<1>1. ASSUME NEW x \in Req
      PROVE  /\ Progress(req[x], req'[x], roles["ADMIN"])
             /\ \/ UNCHANGED tasks[x]
                \/ /\ handler[h] # Idle /\ handler[h].local.q = x
                   /\ req'[x] = req[x]
                   /\ MayWrite(handler[h].pc, req[x], tasks[x], tasks'[x])
  <2>1. Progress(req[x], req'[x], roles["ADMIN"])
    BY DEF Moves
  <2>2. CASE UNCHANGED tasks
    BY <2>1, <2>2
  <2>3. CASE /\ UNCHANGED req /\ handler[h] # Idle
             /\ \E t : /\ Update(handler[h].local.q, t)
                       /\ MayWrite(handler[h].pc, req[handler[h].local.q],
                                 tasks[handler[h].local.q], t)
    <3>1. PICK t : /\ Update(handler[h].local.q, t)
                   /\ MayWrite(handler[h].pc, req[handler[h].local.q],
                             tasks[handler[h].local.q], t)
      BY <2>3
    <3>2. tasks'[x] = IF x = handler[h].local.q THEN t ELSE tasks[x]
      BY <3>1 DEF Update, LifeInv, ServerInv
    <3> QED
      BY <2>1, <2>3, <3>1, <3>2
  <2> QED
    BY <2>2, <2>3 DEF Steps, TaskSteps
<1>2. ASSUME NEW x \in Req PROVE HasExecutor(tasks'[x])
  <2>1. CASE UNCHANGED tasks[x]
    BY <2>1 DEF LifeInv
  <2>2. CASE MayWrite(handler[h].pc, req[x], tasks[x], tasks'[x]) /\ handler[h] # Idle
             /\ handler[h].local.q = x
    <3>1. HasExecutor(tasks[x]) /\ Follows(handler[h], req[x], tasks[x])
      BY <2>2 DEF LifeInv
    <3> QED
      BY <2>2, <3>1, ServerAssumption DEF HasExecutor, MayWrite, Follows
  <2> QED
    BY <1>1, <2>1, <2>2
<1>3. ASSUME NEW g \in Handler, handler'[g] # Idle
      PROVE  Follows(handler'[g], req'[handler'[g].local.q], tasks'[handler'[g].local.q])
  <2>1. CASE g = h
    BY <1>3, <2>1 DEF Steps, Arrives
  <2>2. CASE g # h
    <3> DEFINE q == handler[g].local.q
    <3>1. handler'[g] = handler[g] /\ handler[g] # Idle
      BY <1>3, <2>2 DEF Steps
    <3>2. /\ q \in Req /\ Follows(handler[g], req[q], tasks[q])
          /\ Reached(handler[g].pc, handler[g].local, req[q])
          /\ handler[g].pc \notin Creating => tasks[q] # NoTask
      BY <3>1, Busy
    <3>3. CASE handler[h] # Idle /\ handler[h].local.q = q
      <4>1. /\ Follows(handler[h], req[q], tasks[q])
            /\ Reached(handler[h].pc, handler[h].local, req[q])
            /\ handler[h].pc \notin Creating => tasks[q] # NoTask
        BY <3>3, Busy
      <4>2. ~Clash(handler[h], handler[g], req[q])
        BY <2>2, <3>1, <3>3 DEF LifeInv
      <4>3. Answered(req'[q]) /\ ~Answered(req[q]) => handler[h].pc \in Auditors
        BY <3>2 DEF Steps, ChainSteps
      <4>4. /\ Progress(req[q], req'[q], roles["ADMIN"])
            /\ \/ tasks'[q] = tasks[q]
               \/ req'[q] = req[q] /\ MayWrite(handler[h].pc, req[q], tasks[q], tasks'[q])
        BY <1>1, <3>2
      <4> HIDE DEF q
      <4>5. Follows(handler[g], req'[q], tasks'[q])
        BY <3>2, <4>1, <4>2, <4>3, <4>4, FollowsKept
      <4> QED
        BY <3>1, <4>5 DEF q
    <3>4. CASE ~(handler[h] # Idle /\ handler[h].local.q = q)
      <4>1. req'[q] = req[q] /\ tasks'[q] = tasks[q]
        BY <1>1, <3>2, <3>4 DEF Steps, ChainSteps
      <4> QED
        BY <3>1, <3>2, <4>1
    <3> QED
      BY <3>3, <3>4
  <2> QED
    BY <2>1, <2>2
<1>4. ASSUME NEW g \in Handler, NEW k \in Handler, handler'[g] # Idle, handler'[k] # Idle, g # k,
             handler'[g].local.q = handler'[k].local.q
      PROVE  ~Clash(handler'[g], handler'[k], req'[handler'[k].local.q])
  <2> DEFINE q == handler'[k].local.q
  <2>0. \A hd, other, s : Clash(hd, other, s) <=> Clash(other, hd, s)
    BY DEF Clash
  <2>1. CASE g = h
    BY <1>4, <2>1 DEF Steps, Arrives
  <2>2. CASE k = h
    BY <1>4, <2>0, <2>2 DEF Steps, Arrives
  <2>3. CASE g # h /\ k # h
    <3>1. handler'[g] = handler[g] /\ handler'[k] = handler[k]
      BY <2>3 DEF Steps
    <3>2. q \in Req /\ ~Clash(handler[g], handler[k], req[q])
      BY <1>4, <3>1, Busy DEF LifeInv
    <3>3. Answered(req[q]) => Answered(req'[q])
      BY <1>1, <3>2 DEF Progress
    <3> QED
      BY <3>1, <3>2, <3>3 DEF Clash
  <2> QED
    BY <2>1, <2>2, <2>3
<1> QED
  BY <1>2, <1>3, <1>4 DEF LifeInv
-----------------------------------------------------------------------------
(* One step of a handler, as the clients see it.                           *)

\* The state that Market is about.
Statuses == [q \in Req |-> tasks[q].status]
Executors == [q \in Req |-> IF tasks[q] = NoTask THEN NoOne ELSE tasks[q].executor]
Audited == {q \in Req : \/ HasStatus(q, "audit_requested")
                        \/ tasks[q] # NoTask /\ C!AuditAnswered(q)}

\* What a handler does is nothing to the clients, or one step of the market.
Serves == Market!Next \/ UNCHANGED Market!marketVars

\* A chain that moves on shows no audit that was not asked for.
LEMMA HiddenServes ==
  ASSUME LifeInv, Moves, NEW h \in Handler, ChainSteps(h), UNCHANGED tasks
  PROVE  Serves
<1>1. ASSUME NEW q \in Req PROVE q \in Audited' <=> q \in Audited
  <2>1. Answered(req[q]) => Answered(req'[q])
    BY DEF Moves, Progress
  <2>2. CASE Answered(req'[q]) /\ ~Answered(req[q]) /\ tasks[q] # NoTask
    <3>1. handler[h] # Idle /\ handler[h].local.q = q /\ handler[h].pc \in Auditors
      BY <2>2 DEF ChainSteps
    <3>2. tasks[q].status = "audit_requested"
      BY <2>2, <3>1, Busy DEF Follows
    <3> QED
      BY <3>2 DEF Audited, HasStatus
  <2> QED
    BY <2>1, <2>2 DEF Audited, HasStatus, C!AuditAnswered, C!InState, Answered
<1>2. Audited' = Audited
  BY <1>1 DEF Audited
<1> QED
  BY <1>2 DEF Serves, Market!marketVars, Audited

\* A written task is the only one shown differently.
LEMMA Shown ==
  ASSUME LifeInv, UNCHANGED req, NEW q \in Req, NEW t, t # NoTask, Update(q, t)
  PROVE  /\ tasks'[q] = t
         /\ Statuses' = [Statuses EXCEPT ![q] = t.status]
         /\ Executors' = [Executors EXCEPT ![q] = t.executor]
         /\ \A x \in Req \ {q} : x \in Audited' <=> x \in Audited
         /\ q \in Audited' <=> t.status = "audit_requested" \/ Answered(req[q])
         /\ q \in Audited <=> \/ tasks[q].status = "audit_requested"
                              \/ tasks[q] # NoTask /\ Answered(req[q])
<1>1. tasks'[q] = t /\ (\A x \in Req : x # q => tasks'[x] = tasks[x])
  BY DEF LifeInv, ServerInv, Update
<1>2. ASSUME NEW x \in Req
      PROVE  x \in Audited <=> \/ tasks[x].status = "audit_requested"
                               \/ tasks[x] # NoTask /\ Answered(req[x])
  BY DEF Audited, HasStatus, C!AuditAnswered, C!InState, Answered
<1>3. ASSUME NEW x \in Req
      PROVE  x \in Audited' <=> \/ tasks'[x].status = "audit_requested"
                                \/ tasks'[x] # NoTask /\ Answered(req[x])
  BY DEF Audited, HasStatus, C!AuditAnswered, C!InState, Answered
<1>4. /\ Statuses' = [Statuses EXCEPT ![q] = t.status]
      /\ Executors' = [Executors EXCEPT ![q] = t.executor]
  BY <1>1 DEF Statuses, Executors
<1>5. \A x \in Req \ {q} : x \in Audited' <=> x \in Audited
  BY <1>1, <1>2, <1>3
<1> QED
  BY <1>1, <1>2, <1>3, <1>4, <1>5

\* The writes, one by one.
LEMMA WriteServes ==
  ASSUME LifeInv, UNCHANGED req, NEW h \in Handler, handler[h] # Idle,
         NEW q, q = handler[h].local.q, NEW t, Update(q, t),
         MayWrite(handler[h].pc, req[q], tasks[q], t)
  PROVE  Serves
<1>1. /\ q \in Req /\ Follows(handler[h], req[q], tasks[q]) /\ HasExecutor(tasks[q])
      /\ tasks[q] \in Task \cup {NoTask}
      /\ handler[h].pc \notin Creating => tasks[q] # NoTask
  BY Busy
<1>2. /\ tasks'[q] = t /\ t # NoTask
      /\ Statuses' = [Statuses EXCEPT ![q] = t.status]
      /\ Executors' = [Executors EXCEPT ![q] = t.executor]
      /\ \A x \in Req \ {q} : x \in Audited' <=> x \in Audited
      /\ q \in Audited' <=> t.status = "audit_requested" \/ Answered(req[q])
      /\ q \in Audited <=> \/ tasks[q].status = "audit_requested"
                           \/ tasks[q] # NoTask /\ Answered(req[q])
  BY <1>1, Shown DEF MayWrite
<1>3. /\ Statuses[q] = tasks[q].status
      /\ Executors[q] = IF tasks[q] = NoTask THEN NoOne ELSE tasks[q].executor
  BY <1>1 DEF Statuses, Executors
<1>4. Audited \subseteq Req /\ Audited' \subseteq Req
  BY DEF Audited
<1>5. ASSUME t.executor = Executors[q] PROVE Market!Become(q, t.status)
  <2>1. Executors' = Executors
    BY <1>1, <1>2, <1>5 DEF Executors
  <2> QED
    BY <1>2, <2>1 DEF Market!Become, Statuses, Executors
<1>6. ASSUME t.status = Statuses[q] PROVE Statuses' = Statuses
  BY <1>1, <1>2, <1>6 DEF Statuses
<1>7. ASSUME q \in Audited' <=> q \in Audited PROVE Audited' = Audited
  BY <1>2, <1>4, <1>7
<1>8. ASSUME t.status = Statuses[q], t.executor = Executors[q], tasks[q] # NoTask PROVE Serves
  <2>1. Audited' = Audited /\ Statuses' = Statuses
    BY <1>2, <1>3, <1>6, <1>7, <1>8
  <2>2. Executors' = Executors
    BY <1>1, <1>2, <1>8 DEF Executors
  <2> QED
    BY <2>1, <2>2 DEF Serves, Market!marketVars, Statuses, Executors, Audited
<1>9. CASE tasks[q] # NoTask /\ t.status = tasks[q].status /\ t.executor \in Account
  <2>1. Audited' = Audited /\ Statuses' = Statuses
    BY <1>2, <1>3, <1>6, <1>7, <1>9
  <2>2. Statuses[q] # "none"
    BY <1>1, <1>3, <1>9 DEF Task, Status
  <2>3. Market!Rename(q)
    BY <1>2, <1>9, <2>1, <2>2 DEF Market!Rename, Market!HasStatus, Statuses, Executors, Audited
  <2> QED
    BY <1>1, <2>3 DEF Serves, Market!Next, Market!Overtake
<1>10. CASE /\ tasks[q] = NoTask /\ handler[h].pc = "deployed"
            /\ t.status = "waiting" /\ t.executor = NoOne
  <2>1. ~Answered(req[q])
    BY <1>1, <1>10 DEF Follows, Creating, Answered
  <2>2. Audited' = Audited
    BY <1>2, <1>7, <1>10, <2>1 DEF NoTask
  <2>3. Market!Become(q, "waiting") /\ Statuses[q] = "none"
    BY <1>3, <1>5, <1>10 DEF NoTask
  <2>4. Market!Post(q)
    BY <2>2, <2>3 DEF Market!Post, Market!HasStatus, Statuses, Audited
  <2> QED
    BY <1>1, <2>4 DEF Serves, Market!Next, Market!Step
<1>11. CASE /\ tasks[q] # NoTask /\ t.executor = tasks[q].executor /\ Answered(req[q])
            /\ t.status \in {"completed", "finalized", "audit_passed", "audit_failed"}
  <2>1. Audited' = Audited /\ q \in Audited
    BY <1>2, <1>7, <1>11
  <2>2. Market!Become(q, t.status)
    BY <1>3, <1>5, <1>11
  <2>3. Market!Late(q)
    BY <1>11, <2>1, <2>2 DEF Market!Late, Audited
  <2> QED
    BY <1>1, <2>3 DEF Serves, Market!Next, Market!Overtake
<1>12. CASE /\ tasks[q] # NoTask /\ t.executor = tasks[q].executor
            /\ handler[h].pc = "resultAssigned"
            /\ tasks[q].status = "waiting" /\ t.status = "completed"
  <2>1. Audited' = Audited
    BY <1>2, <1>7, <1>12
  <2>2. Market!Become(q, "completed") /\ Statuses[q] = "waiting"
    BY <1>3, <1>5, <1>12
  <2>3. PICK seller \in Account : Executors[q] = seller
    BY <1>1, <1>3, <1>12 DEF Follows, Task
  <2>4. Market!Complete(q, seller)
    BY <2>1, <2>2, <2>3
    DEF Market!Complete, Market!CanComplete, Market!HasStatus, Statuses, Executors, Audited
  <2> QED
    BY <1>1, <2>4 DEF Serves, Market!Next, Market!Step
<1>13. CASE /\ tasks[q] # NoTask /\ t.executor = tasks[q].executor
            /\ handler[h].pc = "awarded"
            /\ tasks[q].status = "completed" /\ t.status = "finalized"
  <2>1. Audited' = Audited
    BY <1>2, <1>7, <1>13
  <2>2. Market!Become(q, "finalized") /\ Statuses[q] = "completed"
    BY <1>3, <1>5, <1>13
  <2>3. Market!Finalize(q)
    BY <2>1, <2>2 DEF Market!Finalize, Market!HasStatus, Statuses, Audited
  <2> QED
    BY <1>1, <2>3 DEF Serves, Market!Next, Market!Step
<1>14. CASE /\ tasks[q] # NoTask /\ t.executor = tasks[q].executor
            /\ handler[h].pc = "auditRequested"
            /\ tasks[q].status = "completed" /\ t.status = "audit_requested"
  <2>1. ~Answered(req[q])
    BY <1>1, <1>14 DEF Follows
  <2>2. q \notin Audited /\ q \in Audited'
    BY <1>2, <1>14, <2>1
  <2>3. Audited' = Audited \cup {q}
    BY <1>1, <1>2, <1>4, <2>2
  <2>4. Market!Become(q, "audit_requested") /\ Statuses[q] = "completed"
    BY <1>3, <1>5, <1>14
  <2>5. Market!RequestAudit(q)
    BY <2>2, <2>3, <2>4 DEF Market!RequestAudit, Market!HasStatus, Statuses, Audited
  <2> QED
    BY <1>1, <2>5 DEF Serves, Market!Next, Market!Step
<1> QED
  BY <1>3, <1>8, <1>9, <1>10, <1>11, <1>12, <1>13, <1>14 DEF MayWrite

LEMMA StepsServe ==
  ASSUME LifeInv, Moves, NEW h \in Handler, Steps(h)
  PROVE  Serves
<1>1. CASE UNCHANGED tasks
  BY <1>1, HiddenServes DEF Steps
<1>2. CASE /\ UNCHANGED req /\ handler[h] # Idle
           /\ \E t : /\ Update(handler[h].local.q, t)
                     /\ MayWrite(handler[h].pc, req[handler[h].local.q],
                               tasks[handler[h].local.q], t)
  BY <1>2, WriteServes
<1> QED
  BY <1>1, <1>2 DEF Steps, TaskSteps
-----------------------------------------------------------------------------
(* A handler that answers, goes on or writes its task.                     *)

LEMMA StillChain ==
  ASSUME UNCHANGED contractVars, NEW h \in Handler
  PROVE  ChainSteps(h)
BY DEF ChainSteps, contractVars

\* A call changes the contract of the handler's task; which of the calls answers an audit
\* is seen from the storage before and after it.
LEMMA CallsChain ==
  ASSUME LifeInv, NEW h \in Handler, handler[h] # Idle, NEW s,
         req' = [req EXCEPT ![handler[h].local.q] = s],
         Answered(s) /\ ~Answered(req[handler[h].local.q]) => handler[h].pc \in Auditors
  PROVE  ChainSteps(h)
<1>1. req \in [Req -> P!Storage]
  BY DEF LifeInv, ServerInv, P!Inv, P!TypeOK
<1> QED
  BY <1>1 DEF ChainSteps

LEMMA AnswerSteps ==
  ASSUME LifeInv, UNCHANGED tasks, NEW h \in Handler, ChainSteps(h), Respond(h)
  PROVE  Steps(h)
<1>1. handler'[h] = Idle /\ \A g \in Handler : g # h => handler'[g] = handler[g]
  BY DEF LifeInv, ServerInv, Respond
<1> QED
  BY <1>1 DEF Steps, TaskSteps, Arrives

LEMMA GoSteps ==
  ASSUME LifeInv, UNCHANGED tasks, NEW h \in Handler, ChainSteps(h), NEW pc, NEW local,
         Goto(h, pc, local), NEW q \in Req, local.q = q,
         NEW hd, hd = [pc |-> pc, local |-> local],
         Follows(hd, req'[q], tasks[q]),
         \A g \in Handler \ {h} : handler[g] # Idle /\ handler[g].local.q = q =>
            ~Clash(hd, handler[g], req'[q])
  PROVE  Steps(h)
<1>1. handler'[h] = hd /\ \A g \in Handler : g # h => handler'[g] = handler[g]
  BY DEF LifeInv, ServerInv, Goto
<1>2. hd.local.q = q
  OBVIOUS
<1> QED
  BY <1>1, <1>2 DEF Steps, TaskSteps, Arrives

\* Where no clash is possible.
Safe(pc) == pc \notin Creating \cup {"auditRequested", "resultAssigned"}

LEMMA WriteSteps ==
  ASSUME LifeInv, UNCHANGED chainVars, NEW h \in Handler, handler[h] # Idle,
         NEW q, q = handler[h].local.q, NEW t, Update(q, t),
         MayWrite(handler[h].pc, req[q], tasks[q], t),
         NEW hd, handler' = [handler EXCEPT ![h] = hd],
         hd # Idle => hd.local.q = q /\ Safe(hd.pc) /\ Follows(hd, req[q], t)
  PROVE  Steps(h)
<1>1. handler'[h] = hd /\ \A g \in Handler : g # h => handler'[g] = handler[g]
  BY DEF LifeInv, ServerInv
<1>2. q \in Req
  BY Busy
<1>3. tasks'[q] = t /\ req' = req
  BY <1>2 DEF LifeInv, ServerInv, Update, chainVars, contractVars
<1>4. \A g : Safe(hd.pc) => ~Clash(hd, handler[g], req[q])
  BY DEF Safe, Clash
<1>5. ChainSteps(h)
  BY StillChain DEF chainVars
<1>6. TaskSteps(h)
  BY <1>3 DEF TaskSteps
<1>7. Arrives(h)
  BY <1>1, <1>2, <1>3, <1>4 DEF Arrives
<1> QED
  BY <1>1, <1>5, <1>6, <1>7 DEF Steps

\* What is known of a handler that is somewhere.
LEMMA Finds ==
  ASSUME LifeInv, NEW h \in Handler, NEW pc \in Pc, At(h, pc)
  PROVE  /\ handler[h] # Idle /\ handler[h].pc = pc /\ Mine(h) = handler[h].local
         /\ Mine(h) \in Local /\ Mine(h).q \in Req /\ Mine(h).acct \in Account
         /\ Mine(h).acct # NoOne
         /\ Mine(h).body \in Body /\ Hashed(Mine(h).body) \in Text
         /\ TaskOf(h) = tasks[Mine(h).q]
         /\ pc \notin Creating => TaskOf(h) \in Task /\ TaskOf(h) # NoTask
         /\ Reached(pc, Mine(h), req[Mine(h).q])
         /\ Follows(handler[h], req[Mine(h).q], TaskOf(h))
         /\ HasExecutor(TaskOf(h))
<1>1. handler[h] # Idle /\ handler[h].pc = pc /\ Mine(h) = handler[h].local
  BY DEF At, Idle, Pc, Mine
<1>2. /\ Mine(h) \in Local /\ Mine(h).q \in Req /\ Mine(h).acct \in Account
      /\ Mine(h).body \in Body /\ Hashed(Mine(h).body) \in Text
      /\ Reached(pc, Mine(h), req[Mine(h).q])
      /\ pc \notin Creating => TaskOf(h) \in Task
  BY Somewhere DEF LifeInv, Creating
<1>3. Follows(handler[h], req[Mine(h).q], TaskOf(h)) /\ HasExecutor(TaskOf(h))
  BY <1>1, Busy DEF TaskOf
<1>4. TaskOf(h) \in Task => TaskOf(h) # NoTask
  BY DEF Task, NoTask, Status
<1>5. TaskOf(h) = tasks[Mine(h).q] /\ Mine(h).acct # NoOne
  BY <1>2, ServerAssumption DEF TaskOf
<1> QED
  BY <1>1, <1>2, <1>3, <1>4, <1>5

-----------------------------------------------------------------------------
(* The user's requests.                                                    *)

LEMMA RequestSteps ==
  ASSUME LifeInv, NEW h \in Handler, Request(h)
  PROVE  Steps(h)
<1>1. ASSUME NEW q \in Req, NEW acct, NEW body,
             NEW pc \in {"appoint", "claim", "assignResult", "completeRequest",
                         "requestAudit", "storeAudit"},
             Start(h, q, pc, acct, body),
             pc = "assignResult" => tasks[q].executor # NoOne,
             pc \in {"completeRequest", "requestAudit"} => HasStatus(q, "completed"),
             pc = "storeAudit" => HasStatus(q, "audit_requested")
      PROVE  Steps(h)
  <2> DEFINE local == [q |-> q, acct |-> acct, body |-> body, who |-> NoOne, passed |-> FALSE]
             hd == [pc |-> pc, local |-> local]
  <2>1. /\ Goto(h, pc, local) /\ UNCHANGED tasks /\ UNCHANGED chainVars
        /\ local.q = q /\ hd.pc = pc
    BY <1>1 DEF Start
  <2> HIDE DEF local
  <2>2. Follows(hd, req[q], tasks[q])
    BY <1>1 DEF HasStatus, Follows, Creating, Later, Paid, Auditors
  <2>3. \A g : ~Clash(hd, handler[g], req[q])
    BY DEF Clash, Creating
  <2>4. ChainSteps(h) /\ req' = req
    BY <2>1, StillChain DEF chainVars, contractVars
  <2> QED
    BY <2>1, <2>2, <2>3, <2>4, GoSteps
<1>2. ASSUME NEW q \in Req, NEW acct \in Account, StartCreate(h, q, acct)
      PROVE  Steps(h)
  <2> DEFINE local == [q |-> q, acct |-> acct, body |-> NoBody, who |-> NoOne, passed |-> FALSE]
             hd == [pc |-> "deploy", local |-> local]
  <2>1. /\ Goto(h, "deploy", local) /\ UNCHANGED tasks /\ UNCHANGED chainVars
        /\ local.q = q /\ hd.pc = "deploy"
        /\ req[q].state = "None"
        /\ \A g \in Handler : At(g, "deploy") => Mine(g).q # q
    BY <1>2 DEF StartCreate, Start, C!InState
  <2> HIDE DEF local
  <2>2. tasks[q] = NoTask
    BY <2>1 DEF LifeInv, ServerInv, TaskSound
  <2>3. ~req[q].auditRequired
    BY <2>1, StorageAt DEF LifeInv, ServerInv, P!Sound, P!EscrowSound, P!Empty
  <2>4. \A g \in Handler : handler[g].pc \in Creating => handler[g].local.q # q
    <3> SUFFICES ASSUME NEW g \in Handler, handler[g].pc = "deployed", handler[g].local.q = q
                 PROVE  FALSE
      BY <2>1 DEF At, Mine, Creating
    <3>1. Reached("deployed", Mine(g), req[q])
      BY Finds DEF At, Mine, Pc
    <3> QED
      BY <2>1, <3>1 DEF Reached
  <2>5. Follows(hd, req[q], tasks[q])
    BY <2>1, <2>2, <2>3 DEF Follows, Later, Paid, Auditors
  <2>6. \A g \in Handler : handler[g].local.q = q => ~Clash(hd, handler[g], req[q])
    BY <2>1, <2>4 DEF Clash
  <2>7. ChainSteps(h) /\ req' = req
    BY <2>1, StillChain DEF chainVars, contractVars
  <2> QED
    BY <2>1, <2>5, <2>6, <2>7, GoSteps
<1>3. PICK q \in Req :
       \/ \E acct \in Account : StartCreate(h, q, acct)
       \/ \E acct \in Account : StartAssign(h, q, acct)
       \/ \E sellers \in SUBSET Account, epsilon \in {"zero", "positive"} :
             StartAutoAssign(h, q, sellers, epsilon)
       \/ \E acct \in Account, body \in Sent : StartComplete(h, q, acct, body)
       \/ StartFinalize(h, q)
       \/ StartRequestAudit(h, q)
       \/ \E acct \in Account, body \in Sent : StartSubmitAudit(h, q, acct, body)
  BY DEF Request
<1>4. CASE \E acct \in Account : StartCreate(h, q, acct)
  BY <1>2, <1>4
<1>5. CASE \/ \E acct \in Account : StartAssign(h, q, acct)
           \/ \E sellers \in SUBSET Account, epsilon \in {"zero", "positive"} :
                 StartAutoAssign(h, q, sellers, epsilon)
  BY <1>1, <1>5 DEF StartAssign, StartAutoAssign
<1>6. CASE \E acct \in Account, body \in Sent : StartComplete(h, q, acct, body)
  BY <1>1, <1>6, ServerAssumption DEF StartComplete
<1>7. CASE \/ StartFinalize(h, q) \/ StartRequestAudit(h, q)
           \/ \E acct \in Account, body \in Sent : StartSubmitAudit(h, q, acct, body)
  BY <1>1, <1>7 DEF StartFinalize, StartRequestAudit, StartSubmitAudit
<1> QED
  BY <1>3, <1>4, <1>5, <1>6, <1>7

-----------------------------------------------------------------------------
(* Calls.                                                                  *)

\* A call that answers no audit.
LEMMA WorkChain ==
  ASSUME LifeInv, NEW h \in Handler, handler[h] # Idle, NEW q, q = handler[h].local.q,
         NEW sender,
         \/ \E value, cost : C!Deploy(sender, q, value, cost)
         \/ \E candidate : C!AppointExecutor(sender, q, candidate)
         \/ \E hash : C!AssignResult(sender, q, hash)
         \/ C!CompleteRequest(sender, q)
         \/ C!RequestAudit(sender, q)
  PROVE  ChainSteps(h)
<1>1. q \in Req /\ req[q] \in P!Storage
  BY Busy, StorageAt DEF LifeInv, ServerInv
<1>2. ASSUME NEW value, NEW cost, C!Deploy(sender, q, value, cost)
      PROVE  ChainSteps(h)
  <2> DEFINE s == [C!Empty EXCEPT !.state = "Created", !.owner = sender,
                                  !.escrowAmount = C!Pay!EscrowOf(value), !.cost = cost,
                                  !.balance = value - C!Pay!AuditTaxOf(value)]
  <2>1. req' = [req EXCEPT ![q] = s]
    BY <1>2 DEF C!Deploy
  <2>2. ~Answered(s)
    BY DEF Answered, C!Empty
  <2> HIDE DEF s
  <2> QED
    BY <2>1, <2>2, CallsChain
<1>3. ASSUME NEW candidate, C!AppointExecutor(sender, q, candidate)
      PROVE  ChainSteps(h)
  <2> DEFINE s == [req[q] EXCEPT !.executor = candidate, !.state = "ExecutorAssigned"]
  <2>1. req' = [req EXCEPT ![q] = s] /\ req[q].state = "Created"
    BY <1>3 DEF C!AppointExecutor, C!CanAppointExecutor, C!InState
  <2>2. s.auditRequired = req[q].auditRequired
    BY <1>1 DEF P!Storage
  <2>3. Answered(s) => Answered(req[q])
    BY <2>1, <2>2 DEF Answered
  <2> HIDE DEF s
  <2> QED
    BY <2>1, <2>3, CallsChain
<1>4. ASSUME NEW hash, C!AssignResult(sender, q, hash)
      PROVE  ChainSteps(h)
  <2>1. req[q].state = "ExecutorAssigned"
    BY <1>4 DEF C!AssignResult, C!CanAssignResult, C!InState
  <2>2. PICK s : /\ req' = [req EXCEPT ![q] = s]
                 /\ s.auditRequired = req[q].auditRequired
    <3> DEFINE waits == [req[q] EXCEPT !.resultHash = hash, !.state = "ResultSubmitted"]
               right == [req[q] EXCEPT !.resultHash = hash, !.faultyResult = FALSE,
                                       !.state = "Audited"]
    <3>1. \/ req' = [req EXCEPT ![q] = waits] \/ req' = [req EXCEPT ![q] = right]
          \/ req' = [req EXCEPT ![q] = C!Rejected(q)]
      BY <1>4 DEF C!AssignResult
    <3>2. /\ waits.auditRequired = req[q].auditRequired
          /\ right.auditRequired = req[q].auditRequired
          /\ C!Rejected(q).auditRequired = req[q].auditRequired
      BY <1>1 DEF P!Storage, C!Rejected
    <3> HIDE DEF waits, right
    <3> QED
      BY <3>1, <3>2
  <2>3. Answered(s) => Answered(req[q])
    BY <2>1, <2>2 DEF Answered
  <2> QED
    BY <2>2, <2>3, CallsChain
<1>5. ASSUME C!CompleteRequest(sender, q) PROVE ChainSteps(h)
  <2> DEFINE s == [req[q] EXCEPT !.state = "Completed", !.escrowAmount = 0,
                                 !.balance = @ - req[q].escrowAmount]
  <2>1. req' = [req EXCEPT ![q] = s] /\ req[q].state \in {"ResultSubmitted", "Audited"}
    BY <1>5 DEF C!CompleteRequest, C!CanCompleteRequest
  <2>2. s.auditRequired = req[q].auditRequired
    BY <1>1 DEF P!Storage
  <2>3. Answered(s) => Answered(req[q])
    BY <2>1, <2>2 DEF Answered
  <2> HIDE DEF s
  <2> QED
    BY <2>1, <2>3, CallsChain
<1>6. ASSUME C!RequestAudit(sender, q) PROVE ChainSteps(h)
  <2> DEFINE s == [req[q] EXCEPT !.auditRequired = TRUE, !.state = "AuditRequested"]
  <2>1. req' = [req EXCEPT ![q] = s]
    BY <1>6 DEF C!RequestAudit
  <2>2. ~Answered(s)
    BY <1>1 DEF P!Storage, Answered
  <2> HIDE DEF s
  <2> QED
    BY <2>1, <2>2, CallsChain
<1> QED
  BY <1>2, <1>3, <1>4, <1>5, <1>6

\* A call of a handler that is about an audit.
LEMMA AuditChain ==
  ASSUME LifeInv, NEW h \in Handler, handler[h] # Idle, NEW q, q = handler[h].local.q,
         NEW sender, handler[h].pc \in Auditors,
         \/ \E candidate : C!AppointAuditor(sender, q, candidate)
         \/ \E hash : C!AssignAuditResult(sender, q, hash)
  PROVE  ChainSteps(h)
<1>1. \E s : req' = [req EXCEPT ![q] = s]
  BY DEF C!AppointAuditor, C!AssignAuditResult
<1> QED
  BY <1>1, CallsChain

\* After a call the handler answers, or goes on to where it must find what it relies on.
LEMMA CallSteps ==
  ASSUME LifeInv, NEW h \in Handler, NEW pc \in Pc, At(h, pc), UNCHANGED tasks, ChainSteps(h),
         NEW next, Respond(h) \/ Continue(h, next),
         NEW hd, hd = [pc |-> next, local |-> Mine(h)],
         Continue(h, next) =>
            /\ Follows(hd, req'[Mine(h).q], TaskOf(h))
            /\ \A g \in Handler \ {h} :
                  handler[g] # Idle /\ handler[g].local.q = Mine(h).q =>
                     ~Clash(hd, handler[g], req'[Mine(h).q])
  PROVE  Steps(h)
<1>1. CASE Respond(h)
  BY <1>1, AnswerSteps
<1>2. CASE Continue(h, next)
  <2>1. Mine(h).q \in Req /\ TaskOf(h) = tasks[Mine(h).q]
    BY Finds
  <2>2. Goto(h, next, Mine(h))
    BY <1>2 DEF Continue
  <2> QED
    BY <1>2, <2>1, <2>2, GoSteps
<1> QED
  BY <1>1, <1>2

LEMMA DeploySteps ==
  ASSUME LifeInv, NEW h \in Handler, NEW price \in Price, CallDeploy(h, price)
  PROVE  Steps(h)
<1> DEFINE q == Mine(h).q
           done == C!Deploy(Mine(h).acct, q, Pay!TotalPayment(price), Pay!ActualEscrow(price))
           hd == [pc |-> "deployed", local |-> Mine(h)]
<1>1. /\ At(h, "deploy") /\ UNCHANGED tasks
      /\ done \/ UNCHANGED chainVars
      /\ Respond(h) \/ (Continue(h, "deployed") /\ done)
  BY DEF CallDeploy, Call
<1>2. /\ handler[h] # Idle /\ handler[h].pc = "deploy" /\ q = handler[h].local.q
      /\ q \in Req /\ Mine(h).acct \in Account
      /\ Follows(handler[h], req[q], TaskOf(h))
  BY <1>1, Finds DEF Pc
<1>3. done => ~req'[q].auditRequired
  BY <1>2, DeployMoves DEF LifeInv, ServerInv
<1>4. done => ChainSteps(h)
  BY <1>2, WorkChain
<1> HIDE DEF done
<1>5. ChainSteps(h)
  BY <1>1, <1>4, StillChain DEF chainVars
<1>6. hd.pc = "deployed"
  OBVIOUS
<1> HIDE DEF hd
<1>7. done => Follows(hd, req'[q], TaskOf(h))
  BY <1>2, <1>3, <1>6 DEF Follows, Creating, Later, Paid, Auditors
<1>8. ASSUME NEW g \in Handler \ {h}, handler[g] # Idle, handler[g].local.q = q
      PROVE  ~Clash(hd, handler[g], req'[q])
  BY <1>2, <1>6, <1>8 DEF LifeInv, Clash, Creating
<1>9. CASE Respond(h)
  BY <1>1, <1>5, <1>9, AnswerSteps
<1>10. CASE Continue(h, hd.pc) /\ done
  BY <1>1, <1>5, <1>7, <1>8, <1>10, CallSteps DEF Pc, hd
<1> QED
  BY <1>1, <1>9, <1>10 DEF hd

LEMMA AppointExecutorSteps ==
  ASSUME LifeInv, NEW h \in Handler, CallAppointExecutor(h)
  PROVE  Steps(h)
<1> DEFINE q == Mine(h).q
           done == C!AppointExecutor(tasks[q].owner, q, Mine(h).acct)
           hd == [pc |-> "appointed", local |-> Mine(h)]
<1>1. /\ At(h, "appoint") /\ UNCHANGED tasks
      /\ done \/ UNCHANGED chainVars
      /\ Respond(h) \/ Continue(h, "appointed")
  BY DEF CallAppointExecutor, Call
<1>2. handler[h] # Idle /\ q = handler[h].local.q
  BY <1>1, Finds DEF Pc
<1>3. done => ChainSteps(h)
  BY <1>2, WorkChain
<1>4. ChainSteps(h)
  BY <1>1, <1>3, StillChain DEF chainVars
<1>5. hd.pc = "appointed"
  OBVIOUS
<1> HIDE DEF hd, done
<1>6. Follows(hd, req'[q], TaskOf(h)) /\ \A g : ~Clash(hd, handler[g], req'[q])
  BY <1>5 DEF Follows, Clash, Creating, Later, Paid, Auditors
<1> QED
  BY <1>1, <1>4, <1>6, CallSteps DEF Pc, hd

\* A result is taken by the contract once, before the audit is answered.
LEMMA AssignResultSteps ==
  ASSUME LifeInv, NEW h \in Handler, CallAssignResult(h)
  PROVE  Steps(h)
<1> DEFINE q == Mine(h).q
           done == C!AssignResult(Mine(h).acct, q, HashOf(Hashed(Mine(h).body)))
           hd == [pc |-> "resultAssigned", local |-> Mine(h)]
<1>1. /\ At(h, "assignResult") /\ UNCHANGED tasks
      /\ done \/ UNCHANGED chainVars
      /\ Respond(h) \/ (Continue(h, "resultAssigned") /\ done)
  BY DEF CallAssignResult, Call
<1>2. /\ handler[h] # Idle /\ handler[h].pc = "assignResult" /\ q = handler[h].local.q
      /\ q \in Req /\ Mine(h).acct \in Account /\ Hashed(Mine(h).body) \in Text
      /\ Follows(handler[h], req[q], TaskOf(h)) /\ TaskOf(h) \in Task /\ TaskOf(h) # NoTask
      /\ TaskOf(h) = tasks[q]
  BY <1>1, Finds DEF Pc, Creating
<1>3. TaskSound(TaskOf(h), req[q], roles["ADMIN"])
  BY <1>2 DEF LifeInv, ServerInv
<1>4. done => ChainSteps(h)
  BY <1>2, WorkChain
<1>5. ChainSteps(h)
  BY <1>1, <1>4, StillChain DEF chainVars
<1>6. done => req[q].state = "ExecutorAssigned"
  BY DEF C!AssignResult, C!CanAssignResult, C!InState
<1>7. done => (Answered(req[q]) => Answered(req'[q]))
  BY <1>2, AssignResultMoves DEF LifeInv, ServerInv, Moves, Progress
<1>8. hd.pc = "resultAssigned"
  OBVIOUS
<1> HIDE DEF done, hd
<1>9. done /\ ~Answered(req'[q]) => ~Worked(req[q])
  BY <1>6, <1>7 DEF Worked, Answered, P!Attempted
<1>10. done /\ ~Answered(req'[q]) => TaskOf(h).status = "waiting"
  BY <1>2, <1>3, <1>6, <1>9 DEF TaskSound, Task, Status, Worked, Answered
<1>11. done => Follows(hd, req'[q], TaskOf(h))
  BY <1>2, <1>8, <1>10 DEF Follows, Creating, Later, Paid, Auditors
<1>12. ASSUME NEW g \in Handler \ {h}, handler[g] # Idle, handler[g].local.q = q, done
       PROVE  ~Clash(hd, handler[g], req'[q])
  <2>1. Reached(handler[g].pc, handler[g].local, req[q])
    BY <1>12, Busy
  <2> QED
    BY <1>8, <1>9, <1>12, <2>1 DEF Clash, Creating, Reached
<1>13. CASE Respond(h)
  BY <1>1, <1>5, <1>13, AnswerSteps
<1>14. CASE Continue(h, hd.pc) /\ done
  BY <1>1, <1>5, <1>11, <1>12, <1>14, CallSteps DEF Pc, hd
<1> QED
  BY <1>1, <1>13, <1>14 DEF hd

LEMMA CompleteRequestSteps ==
  ASSUME LifeInv, NEW h \in Handler, CallCompleteRequest(h)
  PROVE  Steps(h)
<1> DEFINE q == Mine(h).q
           done == C!CompleteRequest(Mine(h).acct, q)
           hd == [pc |-> "requestCompleted", local |-> Mine(h)]
<1>1. /\ At(h, "completeRequest") /\ UNCHANGED tasks
      /\ done \/ UNCHANGED chainVars
      /\ Respond(h) \/ (Continue(h, "requestCompleted") /\ done)
  BY DEF CallCompleteRequest, Call
<1>2. /\ handler[h] # Idle /\ handler[h].pc = "completeRequest" /\ q = handler[h].local.q
      /\ q \in Req /\ Mine(h).acct \in Account
      /\ Follows(handler[h], req[q], TaskOf(h)) /\ TaskOf(h) \in Task /\ TaskOf(h) # NoTask
      /\ TaskOf(h) = tasks[q]
  BY <1>1, Finds DEF Pc, Creating
<1>3. TaskSound(TaskOf(h), req[q], roles["ADMIN"]) /\ TaskOf(h).status # "waiting"
  BY <1>2 DEF LifeInv, ServerInv, Follows, Later
<1>4. done => ChainSteps(h)
  BY <1>2, WorkChain
<1>5. ChainSteps(h)
  BY <1>1, <1>4, StillChain DEF chainVars
<1>6. done => /\ req'[q].state = "Completed"
              /\ req[q].auditRequired => req'[q].auditRequired
  BY <1>2, CompleteRequestMoves DEF LifeInv, ServerInv, Moves, Progress
<1>7. hd.pc = "requestCompleted"
  OBVIOUS
<1> HIDE DEF done, hd
<1>8. done => TaskOf(h).status \in {"completed", "finalized"} \/ Answered(req'[q])
  BY <1>2, <1>3, <1>6 DEF TaskSound, Task, Status, Answered
<1>9. done => Follows(hd, req'[q], TaskOf(h))
  BY <1>3, <1>7, <1>8 DEF Follows, Creating, Paid, Auditors
<1>10. \A g : ~Clash(hd, handler[g], req'[q])
  BY <1>7 DEF Clash, Creating
<1>11. CASE Respond(h)
  BY <1>1, <1>5, <1>11, AnswerSteps
<1>12. CASE Continue(h, hd.pc) /\ done
  BY <1>1, <1>5, <1>9, <1>10, <1>12, CallSteps DEF Pc, hd
<1> QED
  BY <1>1, <1>11, <1>12 DEF hd

\* An audit is asked for once.
LEMMA RequestAuditSteps ==
  ASSUME LifeInv, NEW h \in Handler, CallRequestAudit(h)
  PROVE  Steps(h)
<1> DEFINE q == Mine(h).q
           done == C!RequestAudit(Mine(h).acct, q)
           hd == [pc |-> "auditRequested", local |-> Mine(h)]
<1>1. /\ At(h, "requestAudit") /\ UNCHANGED tasks
      /\ done \/ UNCHANGED chainVars
      /\ Respond(h) \/ (Continue(h, "auditRequested") /\ done)
  BY DEF CallRequestAudit, Call
<1>2. /\ handler[h] # Idle /\ handler[h].pc = "requestAudit" /\ q = handler[h].local.q
      /\ q \in Req /\ Mine(h).acct \in Account
      /\ Follows(handler[h], req[q], TaskOf(h)) /\ TaskOf(h) \in Task /\ TaskOf(h) # NoTask
      /\ TaskOf(h) = tasks[q]
  BY <1>1, Finds DEF Pc, Creating
<1>3. TaskSound(TaskOf(h), req[q], roles["ADMIN"]) /\ TaskOf(h).status # "waiting"
  BY <1>2 DEF LifeInv, ServerInv, Follows, Later
<1>4. done => ChainSteps(h)
  BY <1>2, WorkChain
<1>5. ChainSteps(h)
  BY <1>1, <1>4, StillChain DEF chainVars
<1>6. done => req[q].state = "ResultSubmitted" /\ ~req[q].auditRequired
  BY DEF C!RequestAudit, C!CanRequestAudit, C!InState
<1>7. done => ~Answered(req'[q])
  <2> DEFINE s == [req[q] EXCEPT !.auditRequired = TRUE, !.state = "AuditRequested"]
  <2>1. req[q] \in P!Storage /\ req \in [Req -> P!Storage]
    BY <1>2, StorageAt DEF LifeInv, ServerInv, P!Inv, P!TypeOK
  <2>2. s.state = "AuditRequested"
    BY <2>1 DEF P!Storage
  <2>3. done => req' = [req EXCEPT ![q] = s]
    BY DEF C!RequestAudit
  <2> HIDE DEF s, done
  <2> QED
    BY <1>2, <2>1, <2>2, <2>3 DEF Answered
<1>8. hd.pc = "auditRequested"
  OBVIOUS
<1> HIDE DEF done, hd
<1>9. done => TaskOf(h).status = "completed"
  BY <1>2, <1>3, <1>6 DEF TaskSound, Task, Status, Answered
<1>10. done => Follows(hd, req'[q], TaskOf(h))
  BY <1>3, <1>7, <1>8, <1>9 DEF Follows, Creating, Paid, Auditors
<1>11. ASSUME NEW g \in Handler \ {h}, handler[g] # Idle, handler[g].local.q = q, done
       PROVE  ~Clash(hd, handler[g], req'[q])
  <2>1. Reached(handler[g].pc, handler[g].local, req[q])
    BY <1>11, Busy
  <2> QED
    BY <1>6, <1>8, <1>11, <2>1 DEF Clash, Creating, Reached
<1>12. CASE Respond(h)
  BY <1>1, <1>5, <1>12, AnswerSteps
<1>13. CASE Continue(h, hd.pc) /\ done
  BY <1>1, <1>5, <1>10, <1>11, <1>13, CallSteps DEF Pc, hd
<1> QED
  BY <1>1, <1>12, <1>13 DEF hd

LEMMA AppointAuditorSteps ==
  ASSUME LifeInv, NEW h \in Handler, CallAppointAuditor(h)
  PROVE  Steps(h)
<1> DEFINE q == Mine(h).q
           done == C!AppointAuditor(tasks[q].owner, q, Mine(h).acct)
           hd == [pc |-> "assignAuditResult", local |-> Mine(h)]
<1>1. /\ At(h, "appointAuditor") /\ UNCHANGED tasks
      /\ done \/ UNCHANGED chainVars
      /\ Respond(h) \/ (Continue(h, "assignAuditResult") /\ done)
  BY DEF CallAppointAuditor, Call
<1>2. /\ handler[h] # Idle /\ handler[h].pc = "appointAuditor" /\ q = handler[h].local.q
      /\ q \in Req /\ Mine(h).acct \in Account
      /\ Follows(handler[h], req[q], TaskOf(h)) /\ tasks[q].owner \in Account
  BY <1>1, Finds DEF Pc, Creating, Task
<1>3. done => ChainSteps(h)
  BY <1>2, AuditChain DEF Auditors
<1>4. ChainSteps(h)
  BY <1>1, <1>3, StillChain DEF chainVars
<1>5. done => (Answered(req[q]) => Answered(req'[q]))
  BY <1>2, AppointAuditorMoves DEF LifeInv, ServerInv, Moves, Progress
<1>6. hd.pc = "assignAuditResult"
  OBVIOUS
<1> HIDE DEF done, hd
<1>7. done => Follows(hd, req'[q], TaskOf(h))
  BY <1>2, <1>5, <1>6 DEF Follows, Creating, Later, Paid, Auditors
<1>8. \A g : ~Clash(hd, handler[g], req'[q])
  BY <1>6 DEF Clash, Creating
<1>9. CASE Respond(h)
  BY <1>1, <1>4, <1>9, AnswerSteps
<1>10. CASE Continue(h, hd.pc) /\ done
  BY <1>1, <1>4, <1>7, <1>8, <1>10, CallSteps DEF Pc, hd
<1> QED
  BY <1>1, <1>9, <1>10 DEF hd

\* The answer of an audit puts on chain the hash of what the handler was sent.
LEMMA AssignAuditResultSteps ==
  ASSUME LifeInv, NEW h \in Handler, CallAssignAuditResult(h)
  PROVE  Steps(h)
<1> DEFINE q == Mine(h).q
           done == C!AssignAuditResult(Mine(h).acct, q, HashOf(Hashed(Mine(h).body)))
           hd == [pc |-> "auditAssigned", local |-> Mine(h)]
<1>1. /\ At(h, "assignAuditResult") /\ UNCHANGED tasks
      /\ done \/ UNCHANGED chainVars
      /\ Respond(h) \/ (Continue(h, "auditAssigned") /\ done)
  BY DEF CallAssignAuditResult, Call
<1>2. /\ handler[h] # Idle /\ handler[h].pc = "assignAuditResult" /\ q = handler[h].local.q
      /\ q \in Req /\ Mine(h).acct \in Account /\ Hashed(Mine(h).body) \in Text
      /\ Follows(handler[h], req[q], TaskOf(h))
  <2> HIDE DEF done, hd
  <2> QED
    BY <1>1, Finds DEF Pc
<1>3. done => ChainSteps(h)
  <2>1. done => \E hash : C!AssignAuditResult(Mine(h).acct, q, hash)
    OBVIOUS
  <2> HIDE DEF done
  <2> QED
    BY <1>2, <2>1, AuditChain DEF Auditors
<1>4. ChainSteps(h)
  BY <1>1, <1>3, StillChain DEF chainVars
<1>5. done => /\ Answered(req'[q])
              /\ req'[q].auditorResultHash = HashOf(Hashed(Mine(h).body))
  BY <1>2, AssignAuditResultMoves DEF LifeInv, ServerInv
<1>6. hd.pc = "auditAssigned" /\ hd.local = Mine(h)
  OBVIOUS
<1> HIDE DEF done, hd
<1>7. done => Follows(hd, req'[q], TaskOf(h))
  BY <1>2, <1>5, <1>6 DEF Follows, Creating, Later, Paid, Auditors
<1>8. \A g : ~Clash(hd, handler[g], req'[q])
  BY <1>6 DEF Clash, Creating
<1>9. CASE Respond(h)
  BY <1>1, <1>4, <1>9, AnswerSteps
<1>10. CASE Continue(h, hd.pc) /\ done
  BY <1>1, <1>4, <1>7, <1>8, <1>10, CallSteps DEF Pc, hd
<1> QED
  BY <1>1, <1>9, <1>10 DEF hd

\* A rating is no business of the contract's.
LEMMA RatingSteps ==
  ASSUME LifeInv, NEW h \in Handler,
         CallAward(h) \/ CallRateExecutor(h) \/ CallRateAuditor(h)
  PROVE  Steps(h)
<1>1. UNCHANGED contractVars /\ UNCHANGED tasks
  BY DEF CallAward, CallRateExecutor, CallRateAuditor, Call, LastCall, Rate, chainVars
<1>2. ChainSteps(h) /\ req' = req
  BY <1>1, StillChain DEF contractVars
<1>3. CASE CallAward(h)
  <2> DEFINE hd == [pc |-> "awarded", local |-> Mine(h)]
  <2>1. At(h, "award") /\ (Respond(h) \/ Continue(h, "awarded"))
    BY <1>3 DEF CallAward, Call
  <2>2. handler[h].pc = "award" /\ Follows(handler[h], req[Mine(h).q], TaskOf(h))
    BY <2>1, Finds DEF Pc
  <2>3. hd.pc = "awarded"
    OBVIOUS
  <2> HIDE DEF hd
  <2>4. Follows(hd, req[Mine(h).q], TaskOf(h)) /\ \A g : ~Clash(hd, handler[g], req[Mine(h).q])
    BY <2>2, <2>3 DEF Follows, Clash, Creating, Later, Paid, Auditors
  <2> QED
    BY <1>1, <1>2, <2>1, <2>4, CallSteps DEF Pc, hd
<1>4. CASE CallRateExecutor(h)
  <2> DEFINE hd == [pc |-> "rateAuditor", local |-> Mine(h)]
  <2>1. At(h, "rateExecutor") /\ (Respond(h) \/ Continue(h, "rateAuditor"))
    BY <1>4 DEF CallRateExecutor, Call
  <2>2. hd.pc = "rateAuditor"
    OBVIOUS
  <2> HIDE DEF hd
  <2>3. Follows(hd, req[Mine(h).q], TaskOf(h)) /\ \A g : ~Clash(hd, handler[g], req[Mine(h).q])
    BY <2>2 DEF Follows, Clash, Creating, Later, Paid, Auditors
  <2> QED
    BY <1>1, <1>2, <2>1, <2>3, CallSteps DEF Pc, hd
<1>5. CASE CallRateAuditor(h)
  BY <1>1, <1>2, <1>5, AnswerSteps DEF CallRateAuditor, LastCall
<1> QED
  BY <1>3, <1>4, <1>5

-----------------------------------------------------------------------------
(* The code between two awaits.                                            *)

LEMMA DeployedSteps ==
  ASSUME LifeInv, NEW h \in Handler, ResumeDeployed(h)
  PROVE  Steps(h)
<1> DEFINE q == Mine(h).q
           t == [status |-> "waiting", owner |-> Mine(h).acct,
                 executor |-> NoOne, auditor |-> NoOne,
                 result |-> Absent, stdout |-> Absent, auditorResult |-> Absent]
           local(seller) == [Mine(h) EXCEPT !.acct = seller]
           hd(seller) == [pc |-> "appoint", local |-> local(seller)]
<1>1. At(h, "deployed") /\ Update(q, t) /\ UNCHANGED chainVars
  BY DEF ResumeDeployed
<1>2. PICK seller : handler' = [handler EXCEPT ![h] = hd(seller)]
  BY DEF ResumeDeployed, Goto
<1>3. /\ handler[h] # Idle /\ handler[h].pc = "deployed" /\ q = handler[h].local.q
      /\ Mine(h) \in Local /\ tasks[q] = NoTask
  BY <1>1, Finds DEF Pc, Follows, Creating
<1>4. t.status = "waiting" /\ t.executor = NoOne /\ t # NoTask
  BY DEF NoTask
<1>5. /\ hd(seller).pc = "appoint" /\ hd(seller).local = local(seller)
      /\ local(seller).q = q
  BY <1>3 DEF Local
<1> HIDE DEF t, hd, local
<1>6. MayWrite(handler[h].pc, req[q], tasks[q], t)
  BY <1>3, <1>4 DEF MayWrite
<1>7. Safe(hd(seller).pc) /\ Follows(hd(seller), req[q], t)
  BY <1>5 DEF Safe, Follows, Creating, Later, Paid, Auditors
<1> QED
  BY <1>1, <1>2, <1>3, <1>5, <1>6, <1>7, WriteSteps

LEMMA AppointedSteps ==
  ASSUME LifeInv, NEW h \in Handler, ResumeAppointed(h)
  PROVE  Steps(h)
<1> DEFINE q == Mine(h).q
           t == [TaskOf(h) EXCEPT !.executor = Mine(h).acct]
<1>1. At(h, "appointed") /\ Update(q, t) /\ UNCHANGED chainVars /\ Respond(h)
  BY DEF ResumeAppointed
<1>2. /\ handler[h] # Idle /\ q = handler[h].local.q /\ Mine(h).acct \in Account
      /\ TaskOf(h) = tasks[q] /\ TaskOf(h) \in Task /\ TaskOf(h) # NoTask
  BY <1>1, Finds DEF Pc, Creating
<1>3. t.status = tasks[q].status /\ t.executor = Mine(h).acct /\ t # NoTask
  BY <1>2 DEF Task, NoTask
<1> HIDE DEF t
<1>4. MayWrite(handler[h].pc, req[q], tasks[q], t)
  BY <1>2, <1>3 DEF MayWrite
<1> QED
  BY <1>1, <1>2, <1>4, WriteSteps DEF Respond

LEMMA ClaimSteps ==
  ASSUME LifeInv, NEW h \in Handler, ResumeClaim(h)
  PROVE  Steps(h)
<1> DEFINE q == Mine(h).q
           t == [TaskOf(h) EXCEPT !.executor = Mine(h).acct]
           hd == [pc |-> "assignResult", local |-> Mine(h)]
<1>1. /\ At(h, "claim") /\ Update(q, t) /\ UNCHANGED chainVars
      /\ handler' = [handler EXCEPT ![h] = hd] /\ hd.pc = "assignResult" /\ hd.local.q = q
  BY DEF ResumeClaim, Continue, Goto
<1>2. /\ handler[h] # Idle /\ q = handler[h].local.q /\ Mine(h).acct \in Account
      /\ Mine(h).acct # NoOne
      /\ TaskOf(h) = tasks[q] /\ TaskOf(h) \in Task /\ TaskOf(h) # NoTask
  BY <1>1, Finds DEF Pc, Creating
<1>3. t.status = tasks[q].status /\ t.executor = Mine(h).acct /\ t # NoTask
  BY <1>2 DEF Task, NoTask
<1> HIDE DEF t, hd
<1>4. MayWrite(handler[h].pc, req[q], tasks[q], t)
  BY <1>2, <1>3 DEF MayWrite
<1>5. Safe(hd.pc) /\ Follows(hd, req[q], t)
  BY <1>1, <1>2, <1>3 DEF Safe, Follows, Creating, Later, Paid, Auditors
<1> QED
  BY <1>1, <1>2, <1>4, <1>5, WriteSteps

LEMMA ResultAssignedSteps ==
  ASSUME LifeInv, NEW h \in Handler, ResumeResultAssigned(h)
  PROVE  Steps(h)
<1> DEFINE q == Mine(h).q
           t == [TaskOf(h) EXCEPT !.status = "completed",
                                  !.result = Stored(Mine(h).body),
                                  !.stdout = IF Structured(Mine(h).body)
                                             THEN Mine(h).body.stdout ELSE @]
<1>1. At(h, "resultAssigned") /\ Update(q, t) /\ UNCHANGED chainVars /\ Respond(h)
  BY DEF ResumeResultAssigned
<1>2. /\ handler[h] # Idle /\ handler[h].pc = "resultAssigned" /\ q = handler[h].local.q
      /\ TaskOf(h) = tasks[q] /\ TaskOf(h) \in Task /\ TaskOf(h) # NoTask
      /\ Follows(handler[h], req[q], TaskOf(h))
  BY <1>1, Finds DEF Pc, Creating
<1>3. t.status = "completed" /\ t.executor = tasks[q].executor /\ t # NoTask
  BY <1>2 DEF Task, NoTask
<1>4. /\ tasks[q].executor # NoOne
      /\ tasks[q].status = "waiting" \/ Answered(req[q])
  BY <1>2 DEF Follows
<1> HIDE DEF t
<1>5. MayWrite(handler[h].pc, req[q], tasks[q], t)
  BY <1>2, <1>3, <1>4 DEF MayWrite
<1> QED
  BY <1>1, <1>2, <1>5, WriteSteps DEF Respond

LEMMA RequestCompletedSteps ==
  ASSUME LifeInv, NEW h \in Handler, ResumeRequestCompleted(h)
  PROVE  Steps(h)
<1> DEFINE q == Mine(h).q
           local == [Mine(h) EXCEPT !.who = TaskOf(h).executor]
           hd == [pc |-> "award", local |-> local]
<1>1. /\ At(h, "requestCompleted") /\ UNCHANGED <<chainVars, tasks>>
      /\ Goto(h, "award", local) /\ hd.pc = "award"
  BY DEF ResumeRequestCompleted
<1>2. /\ handler[h].pc = "requestCompleted" /\ q \in Req /\ TaskOf(h) = tasks[q]
      /\ Mine(h) \in Local /\ Follows(handler[h], req[q], TaskOf(h))
  BY <1>1, Finds DEF Pc
<1>3. local.q = q /\ hd = [pc |-> "award", local |-> local]
  BY <1>2 DEF Local
<1>4. ChainSteps(h) /\ req' = req
  BY <1>1, StillChain DEF chainVars, contractVars
<1> HIDE DEF local, hd
<1>5. Follows(hd, req'[q], tasks[q]) /\ \A g : ~Clash(hd, handler[g], req'[q])
  BY <1>1, <1>2, <1>4 DEF Follows, Clash, Creating, Later, Paid, Auditors
<1> QED
  BY <1>1, <1>2, <1>3, <1>4, <1>5, GoSteps

LEMMA AwardedSteps ==
  ASSUME LifeInv, NEW h \in Handler, ResumeAwarded(h)
  PROVE  Steps(h)
<1> DEFINE q == Mine(h).q
           t == [TaskOf(h) EXCEPT !.status = "finalized"]
<1>1. At(h, "awarded") /\ Update(q, t) /\ UNCHANGED chainVars /\ Respond(h)
  BY DEF ResumeAwarded
<1>2. /\ handler[h] # Idle /\ handler[h].pc = "awarded" /\ q = handler[h].local.q
      /\ TaskOf(h) = tasks[q] /\ TaskOf(h) \in Task /\ TaskOf(h) # NoTask
      /\ Follows(handler[h], req[q], TaskOf(h))
  BY <1>1, Finds DEF Pc, Creating
<1>3. t.status = "finalized" /\ t.executor = tasks[q].executor /\ t # NoTask
  BY <1>2 DEF Task, NoTask
<1>4. /\ tasks[q].status # "waiting"
      /\ tasks[q].status \in {"completed", "finalized"} \/ Answered(req[q])
  BY <1>2 DEF Follows, Later, Paid
<1> HIDE DEF t
<1>5. MayWrite(handler[h].pc, req[q], tasks[q], t)
  BY <1>2, <1>3, <1>4 DEF MayWrite
<1> QED
  BY <1>1, <1>2, <1>5, WriteSteps DEF Respond

LEMMA AuditRequestedSteps ==
  ASSUME LifeInv, NEW h \in Handler, ResumeAuditRequested(h)
  PROVE  Steps(h)
<1> DEFINE q == Mine(h).q
           t == [TaskOf(h) EXCEPT !.status = "audit_requested"]
<1>1. At(h, "auditRequested") /\ Update(q, t) /\ UNCHANGED chainVars /\ Respond(h)
  BY DEF ResumeAuditRequested
<1>2. /\ handler[h] # Idle /\ handler[h].pc = "auditRequested" /\ q = handler[h].local.q
      /\ TaskOf(h) = tasks[q] /\ TaskOf(h) \in Task /\ TaskOf(h) # NoTask
      /\ TaskOf(h).status = "completed"
  BY <1>1, Finds DEF Pc, Creating, Follows
<1>3. t.status = "audit_requested" /\ t.executor = tasks[q].executor /\ t # NoTask
  BY <1>2 DEF Task, NoTask
<1> HIDE DEF t
<1>4. MayWrite(handler[h].pc, req[q], tasks[q], t)
  BY <1>2, <1>3 DEF MayWrite
<1> QED
  BY <1>1, <1>2, <1>4, WriteSteps DEF Respond

LEMMA StoreAuditSteps ==
  ASSUME LifeInv, NEW h \in Handler, ResumeStoreAudit(h)
  PROVE  Steps(h)
<1> DEFINE q == Mine(h).q
           t == [TaskOf(h) EXCEPT !.auditor = Mine(h).acct, !.auditorResult = Stored(Mine(h).body)]
           hd == [pc |-> "appointAuditor", local |-> Mine(h)]
<1>1. /\ At(h, "storeAudit") /\ UNCHANGED chainVars
      /\ \/ UNCHANGED tasks /\ Respond(h)
         \/ Update(q, t) /\ handler' = [handler EXCEPT ![h] = hd]
      /\ hd.pc = "appointAuditor" /\ hd.local.q = q
  BY DEF ResumeStoreAudit, Continue, Goto
<1>2. /\ handler[h] # Idle /\ handler[h].pc = "storeAudit" /\ q = handler[h].local.q
      /\ TaskOf(h) = tasks[q] /\ TaskOf(h) \in Task /\ TaskOf(h) # NoTask
      /\ Follows(handler[h], req[q], TaskOf(h))
  BY <1>1, Finds DEF Pc, Creating
<1>3. t.status = tasks[q].status /\ t.executor = tasks[q].executor /\ t # NoTask
  BY <1>2 DEF Task, NoTask
<1> HIDE DEF t, hd
<1>4. MayWrite(handler[h].pc, req[q], tasks[q], t)
  BY <1>2, <1>3 DEF MayWrite
<1>5. Safe(hd.pc) /\ Follows(hd, req[q], t)
  BY <1>1, <1>2, <1>3 DEF Safe, Follows, Creating, Later, Paid, Auditors
<1>6. CASE UNCHANGED tasks /\ Respond(h)
  BY <1>1, <1>6, StillChain, AnswerSteps DEF chainVars
<1>7. CASE Update(q, t) /\ handler' = [handler EXCEPT ![h] = hd]
  BY <1>1, <1>2, <1>4, <1>5, <1>7, WriteSteps
<1> QED
  BY <1>1, <1>6, <1>7

LEMMA AuditAssignedSteps ==
  ASSUME LifeInv, NEW h \in Handler, ResumeAuditAssigned(h)
  PROVE  Steps(h)
<1> DEFINE q == Mine(h).q
           match == ResultsMatch(TaskOf(h), Mine(h).body)
           verdict == IF match THEN "audit_passed" ELSE "audit_failed"
           t == [TaskOf(h) EXCEPT !.status = verdict]
           local == [Mine(h) EXCEPT !.who = TaskOf(h).executor, !.passed = match]
           hd == [pc |-> "rateExecutor", local |-> local]
<1>1. /\ At(h, "auditAssigned") /\ Update(q, t) /\ UNCHANGED chainVars
      /\ handler' = [handler EXCEPT ![h] = hd] /\ hd.pc = "rateExecutor" /\ hd.local = local
  BY DEF ResumeAuditAssigned, Goto
<1>2. /\ handler[h] # Idle /\ handler[h].pc = "auditAssigned" /\ q = handler[h].local.q
      /\ TaskOf(h) = tasks[q] /\ TaskOf(h) \in Task /\ TaskOf(h) # NoTask
      /\ Mine(h) \in Local
      /\ Reached("auditAssigned", Mine(h), req[q]) /\ Follows(handler[h], req[q], TaskOf(h))
  BY <1>1, Finds DEF Pc, Creating
<1>3. t.status = verdict /\ t.executor = tasks[q].executor /\ t # NoTask
  BY <1>2 DEF Task, NoTask
<1>4. tasks[q].status # "waiting" /\ Answered(req[q])
  BY <1>2 DEF Follows, Reached, Later, Auditors
<1>5. local.q = q
  BY <1>2 DEF Local
<1>6. verdict \in {"audit_passed", "audit_failed"}
  OBVIOUS
<1> HIDE DEF t, hd, local, verdict
<1>7. MayWrite(handler[h].pc, req[q], tasks[q], t)
  BY <1>2, <1>3, <1>4, <1>6 DEF MayWrite
<1>8. Safe(hd.pc) /\ Follows(hd, req[q], t)
  BY <1>1 DEF Safe, Follows, Creating, Later, Paid, Auditors
<1> QED
  BY <1>1, <1>2, <1>5, <1>7, <1>8, WriteSteps

LEMMA ProceedSteps ==
  ASSUME LifeInv, NEW h \in Handler, Proceed(h)
  PROVE  Steps(h)
BY DeploySteps, AppointExecutorSteps, AssignResultSteps, CompleteRequestSteps,
   RequestAuditSteps, AppointAuditorSteps, AssignAuditResultSteps, RatingSteps,
   DeployedSteps, AppointedSteps, ClaimSteps, ResultAssignedSteps, RequestCompletedSteps,
   AwardedSteps, AuditRequestedSteps, StoreAuditSteps, AuditAssignedSteps
DEF Proceed

-----------------------------------------------------------------------------
(* The market.                                                             *)

\* Whatever a handler does, the chain moves on.
LEMMA ProceedMoves ==
  ASSUME ServerInv, NEW h \in Handler, Request(h) \/ Proceed(h)
  PROVE  Moves
<1>1. ASSUME NEW sender, NEW who \in Account \cup {NoOne}, NEW delta \in {10, -10, 2},
             Rate(sender, who, delta) \/ UNCHANGED chainVars
      PROVE  Moves
  BY <1>1, Rated, Still DEF ServerInv, chainVars
<1>2. CallAward(h) => Moves
  <2> SUFFICES ASSUME CallAward(h) PROVE Moves
    OBVIOUS
  <2>1. Mine(h).who \in Account \cup {NoOne}
    BY Somewhere DEF CallAward, Pc
  <2>2. Rate(Mine(h).acct, Mine(h).who, 10) \/ UNCHANGED chainVars
    BY DEF CallAward, Call
  <2> QED
    BY <1>1, <2>1, <2>2
<1>3. CallRateExecutor(h) => Moves
  <2> SUFFICES ASSUME CallRateExecutor(h) PROVE Moves
    OBVIOUS
  <2> DEFINE delta == IF Mine(h).passed THEN 10 ELSE -10
  <2>1. Mine(h).who \in Account \cup {NoOne} /\ delta \in {10, -10, 2}
    BY Somewhere DEF CallRateExecutor, Pc
  <2>2. Rate(Deployer, Mine(h).who, delta) \/ UNCHANGED chainVars
    BY DEF CallRateExecutor, Call
  <2> HIDE DEF delta
  <2> QED
    BY <1>1, <2>1, <2>2
<1>4. CallRateAuditor(h) => Moves
  <2> SUFFICES ASSUME CallRateAuditor(h) PROVE Moves
    OBVIOUS
  <2>1. Mine(h).acct \in Account \cup {NoOne}
    BY Somewhere DEF CallRateAuditor, Pc
  <2>2. Rate(Deployer, Mine(h).acct, 2) \/ UNCHANGED chainVars
    BY DEF CallRateAuditor, LastCall
  <2> QED
    BY <1>1, <2>1, <2>2
<1>5. Request(h) => Moves
  BY RequestIsQuiet DEF Quiet
<1> QED
  BY <1>2, <1>3, <1>4, <1>5, ResumeIsQuiet, CallIsQuiet, CompleteIsQuiet, AnswerAuditIsQuiet
  DEF Proceed, Quiet

\* What is relied on stays, and the clients see a step of the market.
LEMMA LifeKept == LifeInv /\ [Next]_vars => LifeInv' /\ Serves
<1> SUFFICES ASSUME LifeInv, [Next]_vars PROVE LifeInv' /\ Serves
  OBVIOUS
<1>1. ServerInv /\ ServerInv'
  BY InvKept DEF LifeInv
<1>2. ASSUME NEW h \in Handler, Request(h) \/ Proceed(h) PROVE LifeInv' /\ Serves
  <2>1. Moves /\ Steps(h)
    BY <1>1, <1>2, ProceedMoves, RequestSteps, ProceedSteps
  <2> QED
    BY <1>1, <2>1, StepsKeep, StepsServe
<1>3. ASSUME UNCHANGED <<req, tasks, handler>> PROVE LifeInv' /\ Serves
  <2>1. LifeInv'
    BY <1>1, <1>3 DEF LifeInv
  <2>2. Serves
    BY <1>3 DEF Serves, Market!marketVars, HasStatus, C!AuditAnswered, C!InState
  <2> QED
    BY <2>1, <2>2
<1>4. ASSUME NEW q \in Req, AuthorizeScript(q) PROVE LifeInv' /\ Serves
  BY <1>3, <1>4 DEF AuthorizeScript
<1>5. ASSUME Restart PROVE LifeInv' /\ Serves
  <2>1. /\ \A h \in Handler : handler'[h] = Idle
        /\ \A q \in Req : tasks'[q] = NoTask
    BY <1>5 DEF Restart
  <2>2. LifeInv'
    BY <1>1, <2>1 DEF LifeInv, HasExecutor
  <2>3. /\ Statuses' = [q \in Req |-> "none"]
        /\ Executors' = [q \in Req |-> NoOne]
    BY <2>1 DEF Statuses, Executors, NoTask
  <2>4. Audited' = {}
    BY <2>1 DEF Audited, HasStatus, NoTask
  <2>5. Market!Forget
    BY <2>3, <2>4 DEF Market!Forget, Statuses, Executors, Audited
  <2> QED
    BY <2>2, <2>5 DEF Serves, Market!Next
<1>6. ASSUME UNCHANGED vars PROVE LifeInv' /\ Serves
  BY <1>3, <1>6 DEF vars, chainVars, contractVars
<1> QED
  BY <1>2, <1>4, <1>5, <1>6 DEF Next

LEMMA LifeInit == Init => LifeInv /\ Market!Nothing
<1> SUFFICES ASSUME Init PROVE LifeInv /\ Market!Nothing
  OBVIOUS
<1>1. /\ \A h \in Handler : handler[h] = Idle
      /\ \A q \in Req : tasks[q] = NoTask
  BY DEF Init
<1>2. LifeInv
  BY <1>1, InvAtInit DEF LifeInv, HasExecutor
<1>3. Statuses = [q \in Req |-> "none"] /\ Executors = [q \in Req |-> NoOne] /\ Audited = {}
  BY <1>1 DEF Statuses, Executors, Audited, NoTask, HasStatus
<1>4. Market!Nothing
  BY <1>3 DEF Market!Nothing, Statuses, Executors, Audited
<1> QED
  BY <1>2, <1>4

\* The tasks the server shows live as Market says, for any number of requests in progress
\* at once, with failing calls, lost receipts and restarts.
THEOREM MarketIsServed == Spec => ServesMarket
<1>1. LifeInv /\ [Next]_vars => [Market!Next]_(Market!marketVars)
  BY LifeKept DEF Serves
<1>2. LifeInv /\ [Next]_vars => LifeInv'
  BY LifeKept
<1> QED
  BY <1>1, <1>2, LifeInit, PTL DEF Spec, ServesMarket, Market!Spec

-----------------------------------------------------------------------------
(* The verdict.                                                            *)

\* What the step of a handler away from auditAssigned must do.
FollowsHash(h) ==
    (At(h, "auditAssigned") /\ handler[h]' # handler[h] /\ handler[h]' # Idle) =>
        LET q == Mine(h).q
        IN  InParts(Mine(h).body) /\ tasks[q].stdout # Absent =>
              (HasStatus(q, "audit_passed")'
                 <=> \E text \in Text :
                        /\ req[q].auditorResultHash = HashOf(text)
                        /\ TrimOf[text] = TrimOf[tasks[q].stdout])

\* It is the handler's own step that takes it there, and the one after the answer.
LEMMA VerdictIsNext ==
  ASSUME LifeInv, [Next]_vars, NEW h \in Handler, At(h, "auditAssigned"),
         handler[h]' # handler[h], handler[h]' # Idle
  PROVE  ResumeAuditAssigned(h)
<1>1. ASSUME NEW g \in Handler, Request(g) \/ Proceed(g), g # h PROVE FALSE
  BY <1>1, RequestSteps, ProceedSteps DEF Steps
<1>2. ~Request(h)
  BY DEF Request, StartCreate, StartAssign, StartAutoAssign, StartComplete, StartFinalize,
         StartRequestAudit, StartSubmitAudit, Start, At
<1>3. Proceed(h) => ResumeAuditAssigned(h)
  BY DEF Proceed, At, CallDeploy, ResumeDeployed, CallAppointExecutor, ResumeAppointed,
         ResumeClaim, CallAssignResult, ResumeResultAssigned, CallCompleteRequest,
         ResumeRequestCompleted, CallAward, ResumeAwarded, CallRequestAudit,
         ResumeAuditRequested, ResumeStoreAudit, CallAppointAuditor, CallAssignAuditResult,
         CallRateExecutor, CallRateAuditor
<1>4. ~Restart
  BY DEF Restart
<1>5. \A q \in Req : ~AuthorizeScript(q)
  BY DEF AuthorizeScript
<1> QED
  BY <1>1, <1>2, <1>3, <1>4, <1>5 DEF Next, vars

LEMMA VerdictFollows ==
  ASSUME LifeInv, NEW h \in Handler, ResumeAuditAssigned(h)
  PROVE  FollowsHash(h)
<1> DEFINE q == Mine(h).q
           body == Mine(h).body
           match == ResultsMatch(TaskOf(h), body)
           verdict == IF match THEN "audit_passed" ELSE "audit_failed"
           t == [TaskOf(h) EXCEPT !.status = verdict]
           local == [Mine(h) EXCEPT !.who = TaskOf(h).executor, !.passed = match]
<1>1. At(h, "auditAssigned") /\ Update(q, t) /\ Goto(h, "rateExecutor", local)
  BY DEF ResumeAuditAssigned
<1>2. /\ q \in Req /\ Mine(h) \in Local /\ body \in Body /\ Hashed(body) \in Text
      /\ TaskOf(h) = tasks[q] /\ TaskOf(h) \in Task
      /\ req[q].auditorResultHash = HashOf(Hashed(body))
  BY <1>1, Finds DEF Pc, Creating, Follows, At, Mine
<1>3. local.q = q /\ handler'[h].local = local
  BY <1>1, <1>2 DEF Local, Goto, LifeInv, ServerInv
<1>4. tasks'[q] = t /\ t.status = verdict
  BY <1>1, <1>2 DEF Update, LifeInv, ServerInv, Task
<1> HIDE DEF t, local
<1>5. HasStatus(q, "audit_passed")' <=> match
  BY <1>3, <1>4 DEF HasStatus, Mine
<1>6. SUFFICES ASSUME InParts(body), tasks[q].stdout # Absent
               PROVE  match <=> \E text \in Text :
                                   /\ req[q].auditorResultHash = HashOf(text)
                                   /\ TrimOf[text] = TrimOf[tasks[q].stdout]
  BY <1>5 DEF FollowsHash
<1>7. Hashed(body) = body.stdout
  BY <1>6 DEF InParts, Hashed, Given
<1>8. match <=> TrimOf[tasks[q].stdout] = TrimOf[body.stdout]
  BY <1>2, <1>6 DEF InParts, ResultsMatch, Structured
<1> HIDE DEF match
<1> QED
  BY <1>2, <1>7, <1>8 DEF HashOf

\* A verdict on two stdouts is shown, and rated, as the hash on chain has it, for any number
\* of handlers of which several may audit one task at a time and be sent other things
\* (server.ts:863, 888-913).
THEOREM VerdictsAreOnChain == Spec => VerdictFollowsHash
<1>1. LifeInv /\ [Next]_vars => \A h \in Handler : FollowsHash(h)
  BY VerdictIsNext, VerdictFollows DEF FollowsHash
<1>2. LifeInv /\ [Next]_vars => LifeInv'
  BY LifeKept
<1>3. LifeInv /\ [Next]_vars => [ \A h \in Handler : FollowsHash(h) ]_vars
  BY <1>1
<1> QED
  BY <1>2, <1>3, LifeInit, PTL DEF Spec, VerdictFollowsHash, FollowsHash
=============================================================================
