------------------------------- MODULE Daemon -------------------------------
(***************************************************************************)
(* The executor daemon (executor_daemon.cpp): it serves one connection at  *)
(* a time, runs the code it is sent in a child process, reads the child's  *)
(* two pipes until it has ended, and replies with a header of four words   *)
(* (status and three sizes), stdout, stderr and the zipped files.          *)
(*                                                                         *)
(* Data is counted in units: a word of the header, or as much as one read  *)
(* of a pipe returns.  A connection is the client's own: sock[c] holds all *)
(* the daemon has sent on it, of which the client keeps how much it has    *)
(* received.                                                               *)
(***************************************************************************)
EXTENDS Sandbox

CONSTANTS
    Client,     \* the processes that connect, one connection each at a time
    NoClient,
    TooLarge,   \* the programs of more than 10 MB
    Foreground, \* started with -f; otherwise daemonize() ignores SIGCHLD
    CutReplies  \* whether the daemon may also be killed after a reply's header

ASSUME DaemonAssumption ==
    /\ NoClient \notin Client
    /\ TooLarge \subseteq Code
    /\ Foreground \in BOOLEAN /\ CutReplies \in BOOLEAN

VARIABLES
    daemon,     \* the daemon's place in its code and its local variables
    backlog,    \* connections not accepted yet, in order
    sock        \* client -> its connection

daemonVars == <<daemon, sandboxVars, backlog, sock>>

Idle == [pc |-> "accept", client |-> NoClient, out |-> <<>>, err |-> <<>>,
         outOpen |-> FALSE, errOpen |-> FALSE, reaped |-> FALSE, reply |-> <<>>]

Down == daemon.pc \in {"failed", "stopped"}

DaemonInit ==
    /\ daemon = Idle
    /\ child = NoChild
    /\ pipe = EmptyPipes
    /\ backlog = <<>>
    /\ sock = [c \in Client |-> [open |-> FALSE, ended |-> TRUE, data |-> <<>>]]

-----------------------------------------------------------------------------
(* main and handle_client: the request.                                    *)

\* handle_client returns and main closes the connection.
Close(c) ==
    /\ daemon' = Idle
    /\ sock' = [sock EXCEPT ![c].ended = TRUE]

Accept ==
    /\ daemon.pc = "accept"
    /\ backlog # <<>>
    /\ daemon' = [Idle EXCEPT !.pc = "receive", !.client = Head(backlog)]
    /\ backlog' = Tail(backlog)
    /\ UNCHANGED <<child, pipe, sock>>

\* A client that is gone may or may not have sent the whole payload before; an
\* oversized one is not read.  Neither gets a reply.  Otherwise the code is run.
Receive(code) ==
    LET c == daemon.client
    IN  /\ daemon.pc = "receive"
        /\ code = sock[c].code
        /\ \/ /\ ~sock[c].open \/ code \in TooLarge
              /\ Close(c)
              /\ UNCHANGED child
           \/ /\ code \notin TooLarge
              /\ \E run \in Runs[code] : child' = Started(run)
              /\ daemon' = [daemon EXCEPT !.pc = "select", !.outOpen = TRUE, !.errOpen = TRUE]
              /\ UNCHANGED sock
        /\ UNCHANGED <<pipe, backlog>>

\* Mutant: sizes that count a terminating zero.
ReplyMutant(status, out, err, zip) ==
    <<status, Len(out) + 1, Len(err) + 1, Len(zip) + 1>> \o out \o err \o zip

Reply(status, out, err, zip) ==
    <<status, Len(out), Len(err), Len(zip)>> \o out \o err \o zip

\* The temporary files, the pipes or the fork fail: an empty reply with status 1.
RunFails ==
    /\ daemon.pc = "receive"
    /\ sock[daemon.client].code \notin TooLarge
    /\ daemon' = [daemon EXCEPT !.pc = "reply", !.reply = Reply(1, <<>>, <<>>, <<>>)]
    /\ UNCHANGED <<child, pipe, backlog, sock>>

-----------------------------------------------------------------------------
(* execute_via_script: the parent.                                         *)

ReadsOut == daemon.outOpen /\ pipe.out # <<>>

\* Mutant: stderr is read when stdout is at its end.
ReadsErrMutant == ~daemon.outOpen /\ daemon.errOpen /\ pipe.err # <<>>

ReadsErr == daemon.errOpen /\ pipe.err # <<>>

\* select and the reads: one unit of each open pipe that has one; the end of a
\* pipe that is empty and whose writer has closed it; or the timeout.
Select ==
    /\ daemon.pc = "select"
    /\ daemon' = [daemon EXCEPT !.pc = "poll",
                    !.out = IF ReadsOut THEN Append(@, Head(pipe.out)) ELSE @,
                    !.err = IF ReadsErr THEN Append(@, Head(pipe.err)) ELSE @,
                    !.outOpen = @ /\ (Alive \/ pipe.out # <<>>),
                    !.errOpen = @ /\ (Alive \/ pipe.err # <<>>)]
    /\ pipe' = [out |-> IF ReadsOut THEN Tail(pipe.out) ELSE pipe.out,
                err |-> IF ReadsErr THEN Tail(pipe.err) ELSE pipe.err]
    /\ UNCHANGED <<child, backlog, sock>>

\* Mutant: what is left in the pipes is not read.
DrainedMutant == [daemon EXCEPT !.pc = "wait", !.reaped = TRUE]

\* The child was reaped by the loop, and the pipes are read to their ends.
Drained == [daemon EXCEPT !.pc = "wait", !.reaped = TRUE,
                          !.out = @ \o pipe.out, !.err = @ \o pipe.err]

\* waitpid with WNOHANG: after a child that has ended the loop ends; otherwise it
\* goes on while a pipe is open.
Poll ==
    /\ daemon.pc = "poll"
    /\ \/ /\ InState("dead")
          /\ daemon' = Drained
          /\ pipe' = EmptyPipes
       \/ /\ ~InState("dead")
          /\ daemon' = [daemon EXCEPT !.pc = IF daemon.outOpen \/ daemon.errOpen
                                             THEN "select" ELSE "wait"]
          /\ UNCHANGED pipe
    /\ UNCHANGED <<child, backlog, sock>>

\* The final waitpid fails if the child was reaped already, by the loop or by the
\* system where SIGCHLD is ignored, and leaves status uninitialised: whatever it
\* holds decides.  The zip file is read, and handle_client prepares the reply.
Wait ==
    /\ daemon.pc = "wait"
    /\ InState("dead")
    /\ \E ok \in IF daemon.reaped \/ ~Foreground THEN BOOLEAN ELSE {child.ok} :
          daemon' = [Idle EXCEPT !.pc = "reply", !.client = daemon.client,
                       !.reply = Reply(IF ok THEN 0 ELSE 1, daemon.out, daemon.err, child.zip)]
    /\ child' = NoChild
    /\ pipe' = EmptyPipes
    /\ UNCHANGED <<backlog, sock>>

\* The daemon is gone: its connections are closed, and those in the backlog too.
GoDown(pc) ==
    /\ daemon' = [Idle EXCEPT !.pc = pc]
    /\ child' = NoChild
    /\ pipe' = EmptyPipes
    /\ backlog' = <<>>
    /\ sock' = [c \in Client |-> [sock[c] EXCEPT !.ended = TRUE]]

\* One unit of the reply; with the last one the connection is closed.  Sending to
\* a client that is gone raises SIGPIPE, which the daemon does not handle.
Send ==
    LET c == daemon.client
    IN  /\ daemon.pc = "reply"
        /\ \/ /\ ~sock[c].open
              /\ GoDown("stopped")
           \/ /\ sock[c].open
              /\ sock' = [sock EXCEPT ![c].data = Append(@, Head(daemon.reply)),
                                      ![c].ended = Len(daemon.reply) = 1]
              /\ daemon' = IF Len(daemon.reply) = 1 THEN Idle
                           ELSE [daemon EXCEPT !.reply = Tail(@)]
              /\ UNCHANGED <<child, pipe, backlog>>

-----------------------------------------------------------------------------
(* The daemon ends and is started again.                                   *)

\* SIGTERM or SIGINT: noticed between two connections only.
Stop == daemon.pc = "accept" /\ GoDown("stopped")

\* The daemon is killed.
Crash ==
    /\ ~Down
    /\ CutReplies \/ ~(daemon.pc = "reply" /\ Len(sock[daemon.client].data) >= 4)
    /\ GoDown("failed")

\* executor-daemon.service: Restart=on-failure.
Restart ==
    /\ daemon.pc = "failed"
    /\ daemon' = Idle
    /\ UNCHANGED <<child, pipe, backlog, sock>>

ChildStep == ScriptStep /\ UNCHANGED <<daemon, backlog, sock>>

DaemonStep ==
    \/ Accept
    \/ \E code \in Code : Receive(code)
    \/ Select
    \/ Poll
    \/ Wait
    \/ Send
    \/ Restart

Fault ==
    \/ RunFails
    \/ ScriptFault /\ UNCHANGED <<daemon, backlog, sock>>
    \/ Stop
    \/ Crash
=============================================================================
