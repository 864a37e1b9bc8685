----------------------------- MODULE TaskLedger -----------------------------
(***************************************************************************)
(* What the table of native agent tasks promises, without its rows, quotas *)
(* and evidence: a ledger with one entry for each agent and task.  An      *)
(* entry only moves forward: an outcome comes after an offer, a withdrawn  *)
(* or fenced task is never offered, and nothing leaves an outcome or a     *)
(* fence, except that an agent with nothing open is dropped as a whole.    *)
(***************************************************************************)
CONSTANTS Agents, TaskIds

VARIABLE entry

Outcomes == {"succeeded", "failed", "indeterminate"}
Entries  == {"none", "queued", "offered", "withdrawn", "fenced"} \cup Outcomes
Ledgers  == [Agents -> [TaskIds -> Entries]]

\* The entries of which no task of the agent is known.
Foreign == {"none", "fenced"}

Follows(e) ==
  {e} \cup IF e = "none" THEN {"queued", "fenced"}
           ELSE IF e = "queued" THEN {"offered", "withdrawn", "fenced"}
           ELSE IF e = "offered" THEN Outcomes
           ELSE IF e = "withdrawn" THEN {"fenced"} ELSE {}

LInit == entry = [a \in Agents |-> [t \in TaskIds |-> "none"]]

\* Any number of an agent's entries move at once; an identifier that becomes a
\* task of this agent is no other agent's task.
Record(a) ==
  /\ entry' \in Ledgers
  /\ \A b \in Agents \ {a} : entry'[b] = entry[b]
  /\ \A t \in TaskIds :
       /\ entry'[a][t] \in Follows(entry[a][t])
       /\ entry[a][t] = "none" /\ entry'[a][t] \notin Foreign =>
            \A b \in Agents : entry[b][t] \in Foreign

\* An agent is dropped only with its history settled.
Forget(a) ==
  /\ \A t \in TaskIds : entry[a][t] \in Outcomes \cup {"none"}
  /\ entry' = [entry EXCEPT ![a] = [t \in TaskIds |-> "none"]]

LNext == \E a \in Agents : Record(a) \/ Forget(a)

LSpec == LInit /\ [][LNext]_entry
=============================================================================
