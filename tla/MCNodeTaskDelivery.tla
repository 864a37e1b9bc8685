------------------------- MODULE MCNodeTaskDelivery -------------------------
(* Small instances of NodeTaskDelivery. *)
EXTENDS NodeTaskDelivery

MCKindOf   == [i \in Inputs |-> "k1"]
MCArgBytes == [i \in Inputs |-> 1]

Req(k, s, d) == [input |-> "probe", key |-> k, supersedes |-> s, notAfter |-> d]

\* an expiring request, and a retry of the first task that never expires
MCRequests == {Req(NoKey, NoTaskId, 2), Req(NoKey, 1, 0)}

\* requests that never expire, and a retry of the first task that does
MCLasting == {Req(NoKey, NoTaskId, 0), Req(NoKey, 1, 2)}
=============================================================================
