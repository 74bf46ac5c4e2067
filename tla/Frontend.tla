------------------------------ MODULE Frontend ------------------------------
(***************************************************************************)
(* One browser window (FRONTEND/src): the query cache its views share, the *)
(* dialogs, and the calls to the server that are still unanswered.         *)
(*                                                                         *)
(* The server is the Market here: it answers a request at some time        *)
(* between its being sent and its answer's arrival, in one step, and no    *)
(* request Overtakes another; Server has its handlers, and what they can   *)
(* do to each other.  What happens in the window is one event of its loop. *)
(***************************************************************************)
EXTENDS Integers, FiniteSets, SequencesExt

CONSTANTS
    Task,
    Acct,       \* the account indices a user may type
    NoOne,      \* no account; an empty field
    MaxCalls,   \* bound: the calls unanswered at one time
    MaxFaults   \* bound: requests that fail

ASSUME FrontendAssumption ==
    /\ NoOne \notin Acct
    /\ IsFiniteSet(Task)    \* Task bounds the tasks there can be
    /\ {MaxCalls, MaxFaults} \subseteq Nat

VARIABLES
    status,     \* the server's tasks, as in Market
    executor,
    audited,
    page,       \* the route ("home" without a list), or the gate in front of all of them
    cache,      \* query key -> its entry in the QueryClient
    dialog,     \* the dialog that is open
    calls,      \* the mutations that are unanswered
    timers,     \* kind of dialog -> the setTimeouts that will close one
    faults

server == <<status, executor, audited>>
vars == <<server, page, cache, dialog, calls, timers, faults>>

Market == INSTANCE Market WITH Seller <- Acct, Verdict <- {"audited"}

\* What the views tell apart of a task, as a row of the list or in its details: a
\* waiting task with an executor is "assigned"; "settled" is audited or finalized.
Stage == {"none", "waiting", "assigned", "completed", "audit_requested", "settled"}

Rank == [stage \in Stage |->
           CASE stage = "none" -> 0 [] stage = "waiting" -> 1 [] stage = "assigned" -> 2
             [] stage = "completed" -> 3 [] stage = "audit_requested" -> 4 [] stage = "settled" -> 5]

StageOf(t) == CASE Market!HasStatus(t, "waiting") -> IF executor[t] = NoOne THEN "waiting" ELSE "assigned"
                [] status[t] \in {"audited", "finalized"} -> "settled"
                [] OTHER -> status[t]

ListKey == <<"Tasks">>
DetailsKey(t) == <<"taskAddress", t>>
Key == {ListKey} \cup {DetailsKey(t) : t \in Task}

\* An entry of the cache, and where its request is, if it has one.
Entry == [loaded |-> FALSE, data |-> <<>>, fetch |-> "idle", answer |-> <<>>]

Kind == {"info", "assign", "audit"}
NoDialog == [kind |-> "none"]
Field == Acct \cup {NoOne, "reason"}

\* row: what the list showed of the task when an info dialog was opened, or "none" if
\* no request for the details was sent then, or it failed.  field: what was typed.
\* told: the account the success message names.
Dialog == [kind : Kind, task : Task, row : Stage, field : Field, told : Acct \cup {NoOne}]

\* A call the server has to act on, or whose success is still to arrive.
\* heard: "all", if the component is mounted and has not called again since: only
\* then are the callbacks given to mutateAsync called.  "close", if at least the
\* view behind an audit's dialog is still mounted.  A call of which nothing is heard
\* any more is like one from another window: Elsewhere.
Call == [kind : {"create", "assign", "audit", "finalize"}, task : Task, field : Field,
         heard : {"all", "close"}, accepted : BOOLEAN]

TypeOK ==
    /\ Market!MarketTypeOK
    /\ page \in {"checking", "stuck", "home", "account", "tasks"}
    /\ \A k \in Key : /\ cache[k].fetch \in {"idle", "sent", "answered"}
                      /\ \A t \in DOMAIN cache[k].data : cache[k].data[t] \in Stage
    /\ dialog \in Dialog \cup {NoDialog}
    /\ dialog.kind = "assign" => page = "tasks"
    /\ dialog.kind \in {"info", "audit"} => page = "account"
    /\ calls \subseteq Call
    /\ timers \in [{"assign", "audit"} -> 0 .. Cardinality(Task)]
    /\ faults \in 0 .. MaxFaults

Init ==
    /\ Market!Nothing
    /\ page = "checking"
    /\ cache = [k \in Key |-> Entry]
    /\ dialog = NoDialog
    /\ calls = {}
    /\ timers = [kind \in {"assign", "audit"} |-> 0]
    /\ faults = 0

-----------------------------------------------------------------------------
(* The query cache (react-query, with its default staleTime of 0).         *)

ListShown == page \in {"account", "tasks"}

\* The queries that a mounted component uses.
Active(k) == \/ k = ListKey /\ ListShown
             \/ dialog.kind \in {"info", "assign"} /\ k = DetailsKey(dialog.task)

\* Mutant: loaded data is never stale.
MountedMutant(k) == [cache EXCEPT ![k].fetch = IF @ = "idle" /\ ~cache[k].loaded THEN "sent" ELSE @]

\* Mounting a component fetches what it uses, unless that is under way.
Mounted(k) == [cache EXCEPT ![k].fetch = IF @ = "idle" THEN "sent" ELSE @]

\* invalidateQueries fetches every active query whose key begins with the given one; a
\* request under way is abandoned, except for the first.
Invalidated(prefix) ==
    [k \in Key |-> IF IsPrefix(prefix, k) /\ Active(k) /\ (cache[k].fetch = "idle" \/ cache[k].loaded)
                   THEN [cache[k] EXCEPT !.fetch = "sent", !.answer = <<>>]
                   ELSE cache[k]]

\* Mutant: the request is not repeated after an answer.
PollMutant == /\ Active(ListKey)
              /\ ~cache[ListKey].loaded
              /\ cache' = Mounted(ListKey)
              /\ UNCHANGED <<server, page, dialog, calls, timers>>

\* refetchInterval, of the list only.
Poll == /\ Active(ListKey)
        /\ cache' = Mounted(ListKey)
        /\ UNCHANGED <<server, page, dialog, calls, timers>>

Known == {t \in Task : ~Market!HasStatus(t, "none")}

\* GET /tasks or /tasks/:address, at the server.
Answer(k) ==
    /\ cache[k].fetch = "sent"
    /\ cache' = [cache EXCEPT ![k].fetch = "answered",
                   ![k].answer = [t \in {u \in Known : k \in {ListKey, DetailsKey(u)}} |-> StageOf(t)]]
    /\ UNCHANGED <<server, page, dialog, calls, timers>>

Arrive(k) ==
    /\ cache[k].fetch = "answered"
    /\ cache' = [cache EXCEPT ![k] = [Entry EXCEPT !.loaded = TRUE, !.data = cache[k].answer]]
    /\ UNCHANGED <<server, page, dialog, calls, timers>>

\* retry is 0: a failed request leaves what is there.
FetchFails(k) ==
    /\ cache[k].fetch # "idle"
    /\ cache' = [cache EXCEPT ![k].fetch = "idle", ![k].answer = <<>>]
    /\ dialog' = IF k \in {DetailsKey(t) : t \in Task} /\ Active(k)
                 THEN [dialog EXCEPT !.row = "none"] ELSE dialog
    /\ UNCHANGED <<server, page, calls, timers>>

\* What no component has used for five minutes is dropped.
Collect(k) ==
    /\ ~Active(k) /\ cache[k].loaded /\ cache[k].fetch = "idle"
    /\ cache' = [cache EXCEPT ![k] = Entry]
    /\ UNCHANGED <<server, page, dialog, calls, timers>>

-----------------------------------------------------------------------------
(* Pages and dialogs.                                                      *)

HealthAnswers ==
    /\ page = "checking"
    /\ page' = "home"
    /\ UNCHANGED <<server, cache, dialog, calls, timers>>

\* GET /health answers 503 when the node does not respond.  axios takes that for an error,
\* useGetHealth asks once, and the views for an unhealthy server are never reached.
HealthFails ==
    /\ page = "checking"
    /\ page' = "stuck"
    /\ UNCHANGED <<server, cache, dialog, calls, timers>>

NoTimers == [kind \in DOMAIN timers |-> 0]

\* Mutant: dialogs outlive their page.
NavigateMutant(to) ==
    /\ page \in {"home", "account", "tasks"} \ {to}
    /\ page' = to
    /\ cache' = IF to = "home" THEN cache ELSE Mounted(ListKey)
    /\ UNCHANGED <<server, dialog, calls, timers>>

\* The user follows a link: components are unmounted, and their timers close nothing.
Navigate(to) ==
    /\ page \in {"home", "account", "tasks"} \ {to}
    /\ page' = to
    /\ dialog' = NoDialog
    /\ calls' = {}
    /\ timers' = NoTimers
    /\ cache' = IF to = "home" THEN cache ELSE Mounted(ListKey)
    /\ UNCHANGED server

\* The page is loaded anew: everything is gone but what the server was sent.
Reload ==
    /\ page # "checking"
    /\ page' = "checking"
    /\ cache' = [k \in Key |-> Entry]
    /\ dialog' = NoDialog
    /\ calls' = {}
    /\ timers' = NoTimers
    /\ UNCHANGED server

Listed(t) == t \in DOMAIN cache[ListKey].data
Row(t) == cache[ListKey].data[t]

\* RequestedTasks and Tasks: which buttons a row has.
Offers(t, kind) ==
    /\ ListShown /\ Listed(t)
    /\ CASE kind = "info" -> page = "account"
         [] kind = "audit" -> page = "account" /\ Row(t) = "completed"
         [] kind = "assign" -> page = "tasks" /\ Row(t) = "waiting"

Open(t, kind) ==
    /\ dialog = NoDialog
    /\ Offers(t, kind)
    /\ dialog' = [kind |-> kind, task |-> t, field |-> NoOne, told |-> NoOne,
                  row |-> IF kind = "info" /\ cache[DetailsKey(t)].fetch = "idle" THEN Row(t) ELSE "none"]
    /\ cache' = IF kind = "audit" THEN cache ELSE Mounted(DetailsKey(t))
    /\ UNCHANGED <<server, page, calls, timers>>

\* A component that is unmounted, or calls again, hears no more of its calls; the
\* audit's handler goes on all the same.
Detached(kind) == {call \in calls : call.kind # kind} \cup
                  {[call EXCEPT !.heard = "close"] : call \in {c \in calls : c.kind = kind /\ kind = "audit"}}

\* Cancel, Escape, or a click beside the dialog.
Dismiss ==
    /\ dialog # NoDialog
    /\ dialog' = NoDialog
    /\ calls' = Detached(dialog.kind)
    /\ UNCHANGED <<server, page, cache, timers>>

Type(field) ==
    /\ \/ dialog.kind = "audit" /\ field = "reason"
       \/ dialog.kind = "assign" /\ field \in Acct /\ cache[DetailsKey(dialog.task)].loaded
    /\ dialog' = [dialog EXCEPT !.field = field]
    /\ UNCHANGED <<server, page, cache, calls, timers>>

-----------------------------------------------------------------------------
(* Mutations.                                                              *)

Post(kind, t, field) ==
    /\ Cardinality(Detached(kind)) < MaxCalls
    /\ calls' = Detached(kind) \cup {[kind |-> kind, task |-> t, field |-> field,
                                     heard |-> "all", accepted |-> FALSE]}

\* A button may be pressed again while its call is unanswered.
Submit ==
    /\ dialog.kind \in {"assign", "audit"}
    /\ dialog.field # NoOne
    /\ Post(dialog.kind, dialog.task, dialog.field)
    /\ UNCHANGED <<server, page, cache, dialog, timers>>

\* The form on the account's page.  (Task bounds the tasks there can be.)
Create(t) ==
    /\ page = "account" /\ dialog = NoDialog /\ cache[ListKey].loaded
    /\ Market!HasStatus(t, "none")
    /\ Post("create", t, NoOne)
    /\ UNCHANGED <<server, page, cache, dialog, timers>>

\* A row that has the button for an audit has one to finalize the task as well.
Finalize(t) ==
    /\ dialog = NoDialog
    /\ Offers(t, "audit")
    /\ Post("finalize", t, NoOne)
    /\ UNCHANGED <<server, page, cache, dialog, timers>>

Accepts(call) ==
    CASE call.kind = "create" -> Market!HasStatus(call.task, "none")
      [] call.kind = "assign" -> Market!CanAppoint(call.task)
      [] OTHER                -> Market!HasStatus(call.task, "completed")

Serve(call) ==
    CASE call.kind = "create"   -> Market!Post(call.task)
      [] call.kind = "assign"   -> Market!Appoint(call.task, call.field)
      [] call.kind = "audit"    -> Market!RequestAudit(call.task)
      [] call.kind = "finalize" -> Market!Finalize(call.task)

\* A refusal changes nothing but the text in an error box (of finalize, nothing at all).
Handle(call) ==
    /\ ~call.accepted
    /\ IF Accepts(call)
       THEN /\ Serve(call)
            /\ calls' = (calls \ {call}) \cup {[call EXCEPT !.accepted = TRUE]}
       ELSE /\ calls' = calls \ {call}
            /\ UNCHANGED server
    /\ UNCHANGED <<page, cache, dialog, timers>>

\* The connection fails, before or after the server has acted.
CallFails(call) ==
    /\ calls' = calls \ {call}
    /\ UNCHANGED <<server, page, cache, dialog, timers>>

\* Mutant: the message names what the field holds by now.
ToldMutant(call) == dialog.field

\* The message is made where the call was: it names what was typed then.
Told(call) == call.field

\* Mutant: the list is corrected in place, and a request under way left alone.
RefreshedMutant(call) ==
    IF call.heard = "all"
    THEN [cache EXCEPT ![ListKey].data = [t \in DOMAIN @ |-> StageOf(t)]] ELSE cache

\* What onSuccess refreshes.  finalize invalidates a key that no query has.
Refreshed(call) ==
    IF call.heard = "all"
    THEN Invalidated(IF call.kind = "finalize" THEN <<"Tasks", "Account">> ELSE ListKey) ELSE cache

\* onSuccess, and what comes after the await.  The audit's onClose comes
\* after the await and is no such callback: it closes whichever audit dialog is open.
Succeed(call) ==
    LET heard == call.heard = "all"
        closes == call.kind = "audit" /\ dialog.kind = "audit"
    IN  /\ call.accepted
        /\ cache' = Refreshed(call)
        /\ timers' = [kind \in DOMAIN timers |->
                        timers[kind] + IF heard /\ call.kind = kind THEN 1 ELSE 0]
        /\ dialog' = IF closes THEN NoDialog
                     ELSE IF call.kind = "assign" THEN [dialog EXCEPT !.told = Told(call)]
                     ELSE dialog
        /\ calls' = (IF closes THEN Detached("audit") ELSE calls) \ {call, [call EXCEPT !.heard = "close"]}
        /\ UNCHANGED <<server, page>>

\* Five seconds after a success: the dialog of that kind is closed, whichever it is.
TimerFires(kind) ==
    /\ timers[kind] > 0
    /\ timers' = [timers EXCEPT ![kind] = @ - 1]
    /\ IF dialog.kind = kind THEN dialog' = NoDialog /\ calls' = Detached(kind)
                             ELSE UNCHANGED <<dialog, calls>>
    /\ UNCHANGED <<server, page, cache>>

-----------------------------------------------------------------------------

\* Everybody else: executors, auditors, automatic assignment, and the calls of other
\* windows and of components that are gone.
Elsewhere(t) == Market!Step(t) /\ UNCHANGED <<page, cache, dialog, calls, timers>>

User ==
    \/ \E to \in {"home", "account", "tasks"} : Navigate(to)
    \/ Reload
    \/ \E t \in Task, kind \in Kind : Open(t, kind)
    \/ Dismiss
    \/ \E field \in Field : Type(field)
    \/ Submit
    \/ \E t \in Task : Create(t) \/ Finalize(t)

Trouble ==
    /\ faults < MaxFaults
    /\ faults' = faults + 1
    /\ \/ HealthFails
       \/ \E k \in Key : FetchFails(k)
       \/ \E call \in calls : CallFails(call)

Next ==
    \/ Trouble
    \/ /\ \/ User
          \/ HealthAnswers
          \/ Poll
          \/ \E k \in Key : Answer(k) \/ Arrive(k) \/ Collect(k)
          \/ \E call \in calls : Handle(call) \/ Succeed(call)
          \/ \E kind \in DOMAIN timers : TimerFires(kind)
          \/ \E t \in Task : Elsewhere(t)
       /\ UNCHANGED faults

Spec == Init /\ [][Next]_vars

\* Timers go off, and what is sent is answered: nothing is assumed of a user.
Fairness ==
    /\ WF_vars(Poll /\ UNCHANGED faults)
    /\ \A k \in Key : WF_vars(Answer(k) /\ UNCHANGED faults) /\ WF_vars(Arrive(k) /\ UNCHANGED faults)

FairSpec == Spec /\ Fairness

-----------------------------------------------------------------------------
(* What the window promises.                                               *)

Shows(k, t, stage) == t \in DOMAIN cache[k].data /\ Rank[cache[k].data[t]] >= Rank[stage]

\* The list and the details a window shows never go back to an earlier state of a task:
\* an answer sent before one that is already shown is not shown after it, whatever calls,
\* polls and dialogs fetch at the same time (tasksGet.ts:39-45, AssignModal.tsx:53).
NeverGoesBack ==
    [][\A k \in Key : \A t \in DOMAIN cache[k].data \cap DOMAIN cache'[k].data :
          Rank[cache[k].data[t]] <= Rank[cache'[k].data[t]]]_vars

\* An open list is brought up to date again and again, whatever happens to the tasks,
\* although requests fail and finalizing a task refreshes nothing
\* (tasksGet.ts:43, RequestedTasks.tsx:33-35).
ListCatchesUp ==
    \A t \in Task : []<>(ListShown /\ ~Market!HasStatus(t, "none") => Shows(ListKey, t, StageOf(t)))

\* A dialog opened from a row comes to show at least what the row showed, from whatever
\* the cache held before, unless its request fails or is joined to an earlier one
\* (taskAddressGet.ts:66-73, Modal.tsx:51).
DetailsCatchUp ==
    \A t \in Task : []<>(dialog.kind = "info" /\ dialog.task = t /\ dialog.row # "none"
                             => Shows(DetailsKey(t), t, dialog.row))

\* "Assigned task for account index: ..." (AssignModal.tsx:56) names the account the
\* server assigned the task to, though the field is edited and the button is pressed
\* again while the calls are under way, and others assign it too.
MessageIsTrue ==
    dialog.kind = "assign" /\ dialog.told # NoOne => executor[dialog.task] = dialog.told
=============================================================================
