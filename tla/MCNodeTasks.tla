---------------------------- MODULE MCNodeTasks ----------------------------
(* Small instances of NodeTasks: the values of its constants, one set per run. *)
EXTENDS NodeTasks

\* two inputs of one kind each, of different size
MCKindOf   == [i \in Inputs |-> IF i = "probe" THEN "k1" ELSE "k2"]
MCArgBytes == [i \in Inputs |-> IF i = "probe" THEN 1 ELSE 2]

Req(i, k, s, d) == [input |-> i, key |-> k, supersedes |-> s, notAfter |-> d]
Rep(i, d, ok, ind) ==
  [input |-> i, notAfter |-> d, outcome |-> [ok |-> ok, indeterminate |-> ind, body |-> "b"]]

\* legacy and expiring requests, a keyed one, and a retry of the first task
MCRequests == {Req("probe", NoKey, NoTaskId, 0), Req("probe", "k", NoTaskId, 2),
               Req("upgrade", NoKey, NoTaskId, 2), Req("probe", NoKey, 1, 2)}
MCReports  == {Rep("probe", 0, TRUE, FALSE), Rep("probe", 2, FALSE, FALSE),
               Rep("probe", 2, TRUE, TRUE), Rep("upgrade", 2, TRUE, FALSE)}
=============================================================================
