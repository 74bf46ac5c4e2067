----------------------------- MODULE RemoteRun -----------------------------
(***************************************************************************)
(* What an executor's client may count on when it has code run elsewhere:  *)
(* a call ends with one whole output of that code, or with nothing.        *)
(***************************************************************************)
CONSTANTS
    Client,
    Code,
    Output      \* code -> the outputs a run of it may leave

VARIABLE call   \* client -> the call it is in

Idle == [state |-> "idle"]

Init == call = [c \in Client |-> Idle]

Become(c, next) == call' = [call EXCEPT ![c] = next]

Ask(c, code) ==
    /\ call[c] = Idle
    /\ Become(c, [state |-> "asked", code |-> code])

Return(c) ==
    /\ call[c].state = "asked"
    /\ \E output \in Output[call[c].code] :
          Become(c, [state |-> "returned", code |-> call[c].code, output |-> output])

\* Nothing comes of the call.
GiveUp(c) == call[c].state = "asked" /\ Become(c, Idle)

\* The output is handed on, or dropped.
Use(c) == call[c].state = "returned" /\ Become(c, Idle)

Next == \E c \in Client :
    \/ \E code \in Code : Ask(c, code)
    \/ Return(c)
    \/ GiveUp(c)
    \/ Use(c)

Spec == Init /\ [][Next]_call
=============================================================================
