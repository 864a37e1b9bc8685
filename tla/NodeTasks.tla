------------------------------ MODULE NodeTasks ------------------------------
(***************************************************************************)
(* The control plane's durable record of the tasks it hands to native      *)
(* agents (node_agent_task_repo.go, node_agent_task_quarantine.go).        *)
(*                                                                         *)
(* A task is created queued, offered in sync responses until the agent     *)
(* reports a result, and ends in one immutable terminal status.  A result  *)
(* the control plane cannot tie to an offer it remembers (its database may *)
(* have been restored from a backup) is kept as quarantined evidence: the  *)
(* receipt is acknowledged, the task is fenced from dispatch, and nothing  *)
(* is ever promoted to a terminal status from evidence.                    *)
(*                                                                         *)
(* Every operation runs in one database transaction that first locks the   *)
(* agent's owner row, so each is one action here.  A call that returns an  *)
(* error rolls back and is a disabled action.                              *)
(***************************************************************************)
EXTENDS Naturals, FiniteSets, FiniteSetsExt

CONSTANTS
  Agents,       \* native agent identities
  TaskIds,      \* task identifiers, global over all agents
  NoTaskId,     \* the empty SupersedesTaskID
  Inputs,       \* (kind, args, input digest) of a task, one opaque value
  Kinds,        \* task kinds an agent may advertise
  KindOf,       \* the kind of an input
  ArgBytes,     \* the length of an input's args
  Keys,         \* idempotency keys
  NoKey,        \* the absent idempotency key
  Bodies,       \* what a result carries besides its two flags
  MaxActive,    \* nodeAgentTaskQuota.MaxActiveTasks (256 in the code)
  MaxArgBytes,  \* nodeAgentTaskQuota.MaxActiveArgBytes (16 MiB)
  MaxEvidence,  \* nodeAgentTaskQuarantineQuota.MaxRows (256)
  MaxOffer,     \* nodeprotocol.MaxTasksPerResponse
  Requests,     \* the requests callers make
  Reports,      \* the results agents report
  Budgets,      \* the bytes a response may have left for tasks
  MaxBatch,     \* bound on the results of one report, for the model checker
  MaxTime       \* bound on the clock, for the model checker

ASSUME ConstantsAssumption ==
  /\ NoTaskId \notin TaskIds /\ NoKey \notin Keys
  /\ IsFiniteSet(TaskIds) /\ IsFiniteSet(Agents)
  /\ KindOf \in [Inputs -> Kinds] /\ ArgBytes \in [Inputs -> Nat]
  /\ MaxActive \in Nat \ {0} /\ MaxArgBytes \in Nat \ {0}
  /\ MaxEvidence \in Nat \ {0} /\ MaxOffer \in Nat \ {0}
  /\ Budgets \subseteq Nat /\ MaxBatch \in Nat /\ MaxTime \in Nat

ASSUME InputsAssumption ==
  /\ Requests \subseteq [input : Inputs, key : Keys \cup {NoKey},
                         supersedes : TaskIds \cup {NoTaskId}, notAfter : Nat]
  /\ Reports \subseteq [input : Inputs, notAfter : Nat,
       outcome : [ok : BOOLEAN, indeterminate : BOOLEAN, body : Bodies]]

VARIABLES
  task,      \* node_agent_tasks: the row stored under each identifier
  evidence,  \* node_agent_task_result_quarantines, keyed by agent and task
  agents,    \* agents whose owner row exists
  now        \* the control plane's clock; deadlines are points on it

vars == <<task, evidence, agents, now>>
-----------------------------------------------------------------------------
Active   == {"queued", "offered"}
Terminal == {"succeeded", "failed", "indeterminate"}

\* A result as reported: the task's identity as the agent knows it, and what
\* happened.  A deadline of 0 is the nil lifecycle of a legacy task.
Outcome == [ok : BOOLEAN, indeterminate : BOOLEAN, body : Bodies]
Report  == [input : Inputs, notAfter : Nat, outcome : Outcome]
Request == [input : Inputs, key : Keys \cup {NoKey},
            supersedes : TaskIds \cup {NoTaskId}, notAfter : Nat]

NoReport   == [none |-> TRUE]
NoRow      == [status |-> "absent"]
NoEvidence == [reason |-> "none"]

Reasons  == {"unknown_task", "never_offered"}
Evidence == [reason : Reasons, report : Report]
Row == [agent : Agents, request : Request, status : Active \cup Terminal,
        born : Nat,            \* created_at, the dispatch order
        offered : Nat,         \* last_offered_at, 0 when never offered
        closed : Reasons \cup {"open", "task_authorization_expired"},
        report : Report \cup {NoReport}]

TypeOK ==
  /\ task \in [TaskIds -> Row \cup {NoRow}]
  /\ evidence \in [Agents -> [TaskIds -> Evidence \cup {NoEvidence}]]
  /\ agents \in SUBSET Agents
  /\ now \in Nat \ {0}

Init ==
  /\ task = [t \in TaskIds |-> NoRow]
  /\ evidence = [a \in Agents |-> [t \in TaskIds |-> NoEvidence]]
  /\ agents = Agents
  /\ now = 1
-----------------------------------------------------------------------------
Stored     == {t \in TaskIds : task[t].status # "absent"}
Owned(a)   == {t \in Stored : task[t].agent = a}
ActiveOf(a) == {t \in Owned(a) : task[t].status \in Active}
Open(a)    == {t \in ActiveOf(a) : task[t].closed = "open"}
Fenced(a)  == {t \in TaskIds : evidence[a][t] # NoEvidence}

ArgUse(a)  == MapThenSumSet(LAMBDA t : ArgBytes[task[t].request.input], ActiveOf(a))

\* Slip: closing a dispatch frees its place.
RoomIfFewOpen(a, input) ==
  Cardinality(Open(a)) < MaxActive /\ ArgUse(a) + ArgBytes[input] <= MaxArgBytes

\* enforceActiveQuota: a dispatch-closed task still holds its place.
RoomFor(a, input) ==
  /\ Cardinality(ActiveOf(a)) < MaxActive
  /\ ArgUse(a) + ArgBytes[input] <= MaxArgBytes

\* Slips: a failure is superseded once only; any ended task may be retried.
SupersedableOnce(a, s) ==
  s \in Owned(a) /\ task[s].status = "failed" /\ \A u \in Stored : task[u].request.supersedes # s
SupersedableEnded(a, s) == s \in Owned(a) /\ task[s].status \in Terminal

\* The row a retry may supersede: a failed task of the same agent.
Supersedable(a, s) == s \in Owned(a) /\ task[s].status = "failed"

\* Slip: only unresolved tasks are searched for the key.
ActiveAliases(a, key) == {t \in ActiveOf(a) : key # NoKey /\ task[t].request.key = key}

Aliases(a, key) == {t \in Owned(a) : key # NoKey /\ task[t].request.key = key}

\* An alias found by its idempotency key returns the original whatever
\* deadline the caller recomputed; the same identifier must match exactly.
SameRequest(t, a, req) ==
  task[t].agent = a /\ [task[t].request EXCEPT !.notAfter = req.notAfter] = req

\* What CreateOrGet answers: the order of its checks matters, a replay is
\* found before the fence and before the quota.
CreateVerdict(a, t, req) ==
  IF req.supersedes # NoTaskId /\ ~Supersedable(a, req.supersedes) THEN "conflict"
  ELSE IF t \in Stored
       THEN IF SameRequest(t, a, req) /\ task[t].request = req THEN "replay" ELSE "conflict"
  ELSE IF Aliases(a, req.key) # {}
       THEN IF \A u \in Aliases(a, req.key) : SameRequest(u, a, req)
            THEN "replay" ELSE "conflict"
  ELSE IF t \in Fenced(a) THEN "conflict"
  ELSE IF ~RoomFor(a, req.input) THEN "exhausted" ELSE "create"

CreateOrGet(a, t, req) ==
  /\ a \in agents
  /\ CreateVerdict(a, t, req) = "create"
  /\ task' = [task EXCEPT ![t] =
       [agent |-> a, request |-> req, status |-> "queued",
        born |-> Cardinality(Owned(a)) + 1, offered |-> 0,
        closed |-> "open", report |-> NoReport]]
  /\ UNCHANGED <<evidence, agents, now>>
-----------------------------------------------------------------------------
Expired(t) == task[t].request.notAfter # 0 /\ task[t].request.notAfter <= now

\* Slips: evidence does not stop dispatch; the scan ends at a fenced task
\* instead of passing over it.
EligibleUnfenced(a, kinds, expiry) ==
  {t \in Open(a) : /\ ~Expired(t) /\ KindOf[task[t].request.input] \in kinds
                   /\ task[t].request.notAfter # 0 => expiry}
EligibleInFront(a, kinds, expiry) ==
  {t \in Open(a) : /\ ~Expired(t) /\ KindOf[task[t].request.input] \in kinds
                   /\ \A u \in Open(a) \cap Fenced(a) : task[t].born < task[u].born}

\* Expiry is decided first; then what this agent can run and has not already
\* answered.  kinds and expiry are what the current report advertises.
Eligible(a, kinds, expiry) ==
  {t \in Open(a) \ Fenced(a) :
     /\ ~Expired(t)
     /\ KindOf[task[t].request.input] \in kinds
     /\ task[t].request.notAfter # 0 => expiry}

\* The response takes eligible tasks oldest first, up to the count limit,
\* skipping those whose encoding does not fit what is left of its budget.
Older(S, t) == {u \in S : task[u].born < task[t].born}
Bytes(S)    == MapThenSumSet(LAMBDA t : ArgBytes[task[t].request.input], S)
IsResponse(S, E, budget) ==
  \A t \in E : t \in S <=>
    /\ Cardinality(Older(S, t)) < MaxOffer
    /\ Bytes(Older(S, t)) + ArgBytes[task[t].request.input] <= budget

\* Slip: expiry invents an outcome.
ExpireAsFailure(t) ==
  [task[t] EXCEPT !.closed = "task_authorization_expired", !.status = "failed"]

\* Expiry says nothing about what the agent did: the status stays.
ExpireRow(t) == [task[t] EXCEPT !.closed = "task_authorization_expired"]

\* Offer: every open task past its deadline is closed, whatever the agent can
\* run and however small the budget; the chosen ones are marked offered.  The
\* code refuses a backlog larger than MaxActive as corrupt.
OfferTasks(a, kinds, expiry, budget, S) ==
  /\ a \in agents
  /\ Cardinality(Open(a)) <= MaxActive
  /\ S \subseteq Eligible(a, kinds, expiry)
  /\ IsResponse(S, Eligible(a, kinds, expiry), budget)
  /\ task' = [t \in TaskIds |->
       IF t \in Open(a) /\ Expired(t)
       THEN ExpireRow(t)
       ELSE IF t \in S THEN [task[t] EXCEPT !.status = "offered", !.offered = now]
       ELSE task[t]]
  /\ UNCHANGED <<evidence, agents, now>>

Offer(a, kinds, expiry, budget) ==
  \E S \in SUBSET TaskIds : OfferTasks(a, kinds, expiry, budget, S)
-----------------------------------------------------------------------------
\* resultStatus: an indeterminate result is never a success.
ResultStatus(o) == IF o.indeterminate THEN "indeterminate"
                   ELSE IF o.ok THEN "succeeded" ELSE "failed"

\* Slip: an ended task refuses even the report it already has.
AdmissibleOnce(a, t, r) ==
  /\ t \in Stored => /\ task[t].agent = a /\ task[t].request.input = r.input
                    /\ task[t].status \notin Terminal
  /\ t \in Fenced(a) => evidence[a][t].report = r

\* Conflicts are found before the first write.  A stored row must be this
\* agent's and name the same input and deadline; a terminal row, and evidence,
\* accept only the very same report again.
Admissible(a, t, r) ==
  /\ t \in Stored =>
       /\ task[t].agent = a
       /\ task[t].request.input = r.input
       /\ task[t].request.notAfter = r.notAfter
       /\ task[t].status \in Terminal => task[t].report = r
  /\ t \in Fenced(a) => evidence[a][t].report = r

\* Slip: a result of a queued task is taken note of nowhere.
NeedsEvidenceUnknown(a, t) == t \notin Fenced(a) /\ t \notin Stored

\* A report that needs evidence: of no known task, or of one that this
\* database does not remember offering.
NeedsEvidence(a, t) ==
  t \notin Fenced(a) /\ (t \in Stored => task[t].status = "queued")

NewEvidence(a, batch) == {t \in DOMAIN batch : NeedsEvidence(a, t)}

\* Slip: the quota is looked at for replays too.
EvidenceRoomAlways(a, F) ==
  Cardinality(Fenced(a)) < MaxEvidence /\ Cardinality(Fenced(a)) + Cardinality(F) <= MaxEvidence

\* enforceQuarantineQuota: an exact replay needs no room.
EvidenceRoom(a, F) == F # {} => Cardinality(Fenced(a)) + Cardinality(F) <= MaxEvidence

EvidenceFor(t, r) ==
  [reason |-> IF t \in Stored THEN "never_offered" ELSE "unknown_task", report |-> r]

\* Slips: the reason is looked up without evidence; dispatch is left open.
ClosedByEvidence(a, t) == evidence[a][t].reason
LeftOpen(a, t) == task[t].closed

ClosedBecause(a, t) ==
  IF task[t].closed # "open" THEN task[t].closed
  ELSE IF t \in Fenced(a) THEN evidence[a][t].reason ELSE "never_offered"

\* Slip: a closed row takes nothing.
SettleIfOpen(a, t, r) ==
  IF task[t].status \in Terminal \/ task[t].closed # "open" THEN task[t]
  ELSE IF task[t].status = "queued" \/ t \in Fenced(a)
  THEN [task[t] EXCEPT !.closed = ClosedBecause(a, t)]
  ELSE [task[t] EXCEPT !.status = ResultStatus(r.outcome), !.report = r]

\* What the batch does to one stored row.  Evidence, new or old, only closes
\* dispatch; a row offered and unfenced takes the result as its end.
Settle(a, t, r) ==
  IF task[t].status \in Terminal THEN task[t]
  ELSE IF task[t].status = "queued" \/ t \in Fenced(a)
  THEN [task[t] EXCEPT !.closed = ClosedBecause(a, t)]
  ELSE [task[t] EXCEPT !.status = ResultStatus(r.outcome), !.report = r]

CompleteVerdict(a, batch) ==
  IF \E t \in DOMAIN batch : ~Admissible(a, t, batch[t]) THEN "conflict"
  ELSE IF ~EvidenceRoom(a, NewEvidence(a, batch)) THEN "exhausted" ELSE "accept"

\* CompleteBatch: one report, all of its results or none.  The batch is a
\* function from identifiers, so the duplicate the code rejects cannot occur.
CompleteBatch(a, batch) ==
  /\ a \in agents
  /\ CompleteVerdict(a, batch) = "accept"
  /\ evidence' = [evidence EXCEPT ![a] = [t \in TaskIds |->
       IF t \in NewEvidence(a, batch) THEN EvidenceFor(t, batch[t]) ELSE @[t]]]
  /\ task' = [t \in TaskIds |->
       IF t \in DOMAIN batch \cap Stored THEN Settle(a, t, batch[t]) ELSE task[t]]
  /\ UNCHANGED <<agents, now>>
-----------------------------------------------------------------------------
\* Slip: evidence does not stop the deletion of its agent.
DeleteWithEvidence(a) ==
  /\ a \in agents /\ ActiveOf(a) = {}
  /\ task' = [t \in TaskIds |-> IF t \in Owned(a) THEN NoRow ELSE task[t]]
  /\ evidence' = [evidence EXCEPT ![a] = [t \in TaskIds |-> NoEvidence]]
  /\ agents' = agents \ {a} /\ now' = now

\* Deleting a native panel takes its agent along: refused while evidence or an
\* active task is left, so that only settled history is dropped.
DeleteAgent(a) ==
  /\ a \in agents
  /\ Fenced(a) = {} /\ ActiveOf(a) = {}
  /\ task' = [t \in TaskIds |-> IF t \in Owned(a) THEN NoRow ELSE task[t]]
  /\ agents' = agents \ {a}
  /\ UNCHANGED <<evidence, now>>

Tick == now < MaxTime /\ now' = now + 1 /\ UNCHANGED <<task, evidence, agents>>

Batches == UNION {[S -> Reports] : S \in {X \in SUBSET TaskIds : X # {} /\ Cardinality(X) <= MaxBatch}}

Next ==
  \/ \E a \in Agents :
       \/ \E t \in TaskIds, req \in Requests : CreateOrGet(a, t, req)
       \/ \E kinds \in SUBSET Kinds, expiry \in BOOLEAN, budget \in Budgets :
            Offer(a, kinds, expiry, budget)
       \/ \E batch \in Batches : CompleteBatch(a, batch)
       \/ DeleteAgent(a)
  \/ Tick

Spec == Init /\ [][Next]_vars
-----------------------------------------------------------------------------
\* A receipt of evidence never settles a task: a task whose own agent's result
\* was quarantined stays queued with its dispatch closed, in whatever order
\* creation, offers, expiry and reports came (CompleteBatch, Offer, and the
\* fence in CreateOrGet together).
EvidenceFencesTask ==
  \A a \in Agents : \A t \in Owned(a) \cap Fenced(a) :
    task[t].status = "queued" /\ task[t].closed # "open" /\ task[t].offered = 0

\* A terminal task was really put in a response, before its authorization
\* ended, and carries exactly the report its status was computed from.
TerminalWasOffered ==
  \A t \in Stored : task[t].status \in Terminal =>
    /\ task[t].offered # 0
    /\ task[t].request.notAfter # 0 => task[t].offered < task[t].request.notAfter
    /\ task[t].report # NoReport
    /\ task[t].status = ResultStatus(task[t].report.outcome)
    /\ task[t].report.input = task[t].request.input

\* Admission is one serial decision per agent: the number of unresolved tasks
\* and of evidence rows never passes its cap, whatever the batches.  The first
\* bound is what keeps Offer's backlog check from failing a sync.
WithinQuotas ==
  \A a \in Agents :
    /\ Cardinality(ActiveOf(a)) <= MaxActive
    /\ Cardinality(Fenced(a)) <= MaxEvidence

\* One agent never has two tasks under one idempotency key, so a lost reply to
\* a creation cannot make the caller's retry a second side effect.
OneTaskPerKey ==
  \A t, u \in Stored :
    /\ task[t].agent = task[u].agent
    /\ task[t].request.key = task[u].request.key /\ task[t].request.key # NoKey
    => t = u

\* A caller that repeats the request that made a task gets that task again in
\* every later state: at capacity, after dispatch closed, after the end, and
\* although the superseded task is looked at first.
CreationReplays ==
  \A t \in Stored : CreateVerdict(task[t].agent, t, task[t].request) = "replay"

\* The agent keeps a result until it is acknowledged and then sends the same
\* report again: whatever was once accepted is accepted again, even with the
\* evidence quota full.  The exception is evidence about an identifier that
\* another agent's task came to own.
HeldBy(a, t, r) ==
  \/ t \in Owned(a) /\ task[t].status \in Terminal /\ task[t].report = r
  \/ t \in Fenced(a) /\ evidence[a][t].report = r
AcceptedReplays ==
  \A a \in agents : \A t \in TaskIds : \A r \in Reports :
    HeldBy(a, t, r) /\ (t \in Stored => task[t].agent = a)
      => CompleteVerdict(a, [u \in {t} |-> r]) = "accept"

\* An acknowledged result is on record and stays on record: every report of an
\* accepted batch is held after the step, and what is held is never dropped
\* or overwritten, except with the deleted agent itself.
ResultsKept ==
  [][/\ \A a \in agents' : \A t \in TaskIds, r \in Reports : HeldBy(a, t, r) => HeldBy(a, t, r)'
     /\ \A a \in Agents, batch \in Batches :
          CompleteBatch(a, batch) => \A t \in DOMAIN batch : HeldBy(a, t, batch[t])']_vars

\* A terminal task never changes again, and a closed dispatch never reopens:
\* once closed the task is not offered any more, though a result of an earlier
\* offer may still end it.
SettledForGood ==
  [][\A t \in Stored \cap Stored' :
       /\ task[t].status \in Terminal => task'[t] = task[t]
       /\ task[t].closed # "open" =>
            task'[t].closed = task[t].closed /\ task'[t].offered = task[t].offered]_vars
-----------------------------------------------------------------------------
\* The ledger entry a row and the evidence about it stand for.
EntryOf(a, t) ==
  IF t \in Owned(a) /\ task[t].status \in Terminal THEN task[t].status
  ELSE IF t \in Fenced(a) THEN "fenced"
  ELSE IF t \notin Owned(a) THEN "none"
  ELSE IF task[t].status = "queued" /\ task[t].closed # "open" THEN "withdrawn"
  ELSE task[t].status

Ledger == INSTANCE TaskLedger WITH
  entry <- [a \in Agents |-> [t \in TaskIds |-> EntryOf(a, t)]]

\* The tables implement the ledger: whatever CreateOrGet, Offer, CompleteBatch
\* and the deletion of an agent do to rows and evidence in one transaction, no
\* task skips its offer, comes back after its end, or loses an open entry.
KeepsLedger == Ledger!LSpec
=============================================================================
