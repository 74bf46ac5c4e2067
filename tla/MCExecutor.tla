----------------------------- MODULE MCExecutor -----------------------------
(***************************************************************************)
(* Two executors that share a daemon.  A run writes more to stderr than    *)
(* its pipe holds, or leaves no file, or fails.                            *)
(***************************************************************************)
EXTENDS Executor

CONSTANTS c1, c2, t1, t2, a, b, z, m

MCClient == {c1, c2}
MCOneTask == {t1}
MCTwoTasks == {t1, t2}
MCOutput == {a, b, z, m}

MCGood == [stdout |-> <<a>>, stderr |-> <<b, b>>, files |-> <<z>>, ok |-> TRUE]
MCNoFiles == [stdout |-> <<a>>, stderr |-> <<>>, files |-> <<>>, ok |-> TRUE]
MCBad == [stdout |-> <<a>>, stderr |-> <<>>, files |-> <<z>>, ok |-> FALSE]
MCRuns == [t \in {t1, t2} |-> IF t = t1 THEN {MCGood, MCNoFiles, MCBad}
                                        ELSE {[MCBad EXCEPT !.stdout = <<z>>]}]
=============================================================================
