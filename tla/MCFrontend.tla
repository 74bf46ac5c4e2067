----------------------------- MODULE MCFrontend -----------------------------
(***************************************************************************)
(* One window, one task, two accounts to type, two calls at a time.        *)
(***************************************************************************)
EXTENDS Frontend

CONSTANTS t1, t2, a1, a2

MCOneTask == {t1}
MCTwoTasks == {t1, t2}
MCAcct == {a1, a2}
=============================================================================
