------------------------------ MODULE Sandbox ------------------------------
(***************************************************************************)
(* The child process of the daemon: executor_docker.sh, which runs a       *)
(* program in a container and zips the files it leaves, and the two pipes  *)
(* it writes to.                                                           *)
(*                                                                         *)
(* The script is at one of its docker commands.  Under set -e the first    *)
(* one that fails ends it, and the trap removes the volume on the way out. *)
(* The volume is a run's own and nothing else sees it: it is not kept.     *)
(***************************************************************************)
EXTENDS Integers, Sequences

CONSTANTS
    Code,       \* the programs that can be run
    Output,     \* what a unit of output can be
    Message,    \* the one that docker, or apk, complains with
    Runs,       \* code -> the ways a run of it can go
    PipeSize    \* how many units a pipe holds before its writer blocks

ASSUME SandboxAssumption ==
    /\ Message \in Output
    /\ \A code \in Code : Runs[code] \subseteq
          [stdout : Seq(Output), stderr : Seq(Output), files : Seq(Output), ok : BOOLEAN]
    /\ PipeSize \in Nat \ {0}

VARIABLES
    child,      \* the script: where it is, what is still to be written, what it leaves
    pipe        \* the two pipes

sandboxVars == <<child, pipe>>

NoChild == [state |-> "none"]
EmptyPipes == [out |-> <<>>, err |-> <<>>]

\* The child is forked, to become the script.  (What the script does before its first
\* docker command cannot fail: the daemon gives it a code file and an output path.)
Started(run) == [state |-> "prepare", run |-> run, out |-> <<>>, err |-> <<>>,
                 zip |-> <<>>, ok |-> TRUE]

InState(state) == child.state = state
Alive == child.state \in {"prepare", "program", "archive", "leave"}

\* A command has ended only when what it printed is written.
Written == child.out = <<>> /\ child.err = <<>>

WriteOut ==
    /\ Alive /\ child.out # <<>>
    /\ Len(pipe.out) < PipeSize
    /\ pipe' = [pipe EXCEPT !.out = Append(@, Head(child.out))]
    /\ child' = [child EXCEPT !.out = Tail(@)]

WriteErr ==
    /\ Alive /\ child.err # <<>>
    /\ Len(pipe.err) < PipeSize
    /\ pipe' = [pipe EXCEPT !.err = Append(@, Head(child.err))]
    /\ child' = [child EXCEPT !.err = Tail(@)]

\* The volume, a directory in it that nobody may write to, and the program's container.
Prepare ==
    /\ InState("prepare")
    /\ child' = [child EXCEPT !.state = "program",
                              !.out = child.run.stdout, !.err = child.run.stderr]
    /\ UNCHANGED pipe

\* The program ends.  If it failed the rest of the script is not reached.
ProgramEnds ==
    /\ InState("program") /\ Written
    /\ child' = IF child.run.ok THEN [child EXCEPT !.state = "archive"]
                                ELSE [child EXCEPT !.state = "leave", !.ok = FALSE]
    /\ UNCHANGED pipe

\* zip fails if there is nothing to put in an archive, and the script with it.
Archive ==
    /\ InState("archive")
    /\ child' = [child EXCEPT !.state = "leave", !.zip = child.run.files,
                              !.ok = child.run.files # <<>>]
    /\ UNCHANGED pipe

\* The trap, and the exit, which closes the pipes.
Leave ==
    /\ InState("leave") /\ Written
    /\ child' = [child EXCEPT !.state = "closed"]
    /\ UNCHANGED pipe

\* A process that has ended can be waited for only after its files are closed.
Exit ==
    /\ InState("closed")
    /\ child' = [child EXCEPT !.state = "dead"]
    /\ UNCHANGED pipe

Complain(ok) ==
    /\ child' = [child EXCEPT !.state = "leave", !.err = <<Message>>, !.ok = ok]
    /\ UNCHANGED pipe

\* The script itself cannot be started: the child ends without a word.
ExecFails ==
    /\ InState("prepare")
    /\ child' = [child EXCEPT !.state = "closed", !.ok = FALSE]
    /\ UNCHANGED pipe

\* Docker cannot create the volume, or run the first container or the second.
DockerFails == InState("prepare") /\ Complain(FALSE)

\* The third container does not start; or it cannot install zip, and counts as done.
ArchiveFails == InState("archive") /\ \E ok \in BOOLEAN : Complain(ok)

\* The volume cannot be removed: the trap's status becomes the script's.
LeaveFails ==
    /\ InState("leave") /\ Written
    /\ child' = [child EXCEPT !.state = "closed", !.ok = FALSE]
    /\ UNCHANGED pipe

ScriptStep == WriteOut \/ WriteErr \/ Prepare \/ ProgramEnds \/ Archive \/ Leave \/ Exit

ScriptFault == ExecFails \/ DockerFails \/ ArchiveFails \/ LeaveFails

-----------------------------------------------------------------------------
(* What the script may leave of a run.                                     *)

Finished(run) == [stdout |-> run.stdout, stderr |-> run.stderr,
                  zip |-> IF run.ok THEN run.files ELSE <<>>]

\* A program that wrote nothing counts as failed: there is nothing to zip.
Succeeds(run) == run.ok /\ run.files # <<>>

Nothing == [stdout |-> <<>>, stderr |-> <<>>, zip |-> <<>>]

NotStarted == [stdout |-> <<>>, stderr |-> <<Message>>, zip |-> <<>>]

NotArchived(run) == [stdout |-> run.stdout, stderr |-> Append(run.stderr, Message), zip |-> <<>>]

Leavings(run) == {Nothing, Finished(run), NotStarted} \cup IF run.ok THEN {NotArchived(run)} ELSE {}
=============================================================================
