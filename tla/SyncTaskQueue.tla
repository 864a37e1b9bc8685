---------------------------- MODULE SyncTaskQueue ----------------------------
(***************************************************************************)
(* The retry queue for writes to remote panels and mail (sync_tasks):      *)
(* sync_task_repo.go, and the four processors that drain it, the           *)
(* ProcessDueTasks of the user, node, cert and mailer services.            *)
(*                                                                         *)
(* A processor lists a page of due tasks, then for each of its own types   *)
(* claims the row, runs the side effect, and writes the outcome; each of   *)
(* these is a database call of its own.  Handlers enqueue with a check     *)
(* followed by an insert, and an admin may cancel, retry or purge rows at  *)
(* any moment in between.                                                  *)
(***************************************************************************)
EXTENDS Naturals, FiniteSets

CONSTANTS
  MaxId,        \* bound on the rows ever created, for the model checker
  Types,        \* task types
  Targets,      \* what a task is about: a user, a node, a certificate
  NodeTypes,    \* the node types, which a server migration retires
  FreshTypes,   \* types enqueued without looking for an active task: node_create
  Workers,      \* processors
  TypesOf,      \* the types each processor runs; disjoint
  GatedWorkers, \* processors under the operation gate: all but the mailer
  Callers,      \* concurrent request handlers that enqueue
  MaxAttempts,  \* maxUserTaskAttempts, maxNodeTaskAttempts (100)
  Page,         \* the limit every processor lists with (20)
  Backoff,      \* deleteTaskBackoff, nodeTaskBackoff: a flat minute
  MaxTime,      \* bound on the clock, for the model checker
  MaxRetries,   \* bound on the admin's retries
  MaxBlips,     \* bound on database calls that fail
  MaxRestarts   \* bound on restarts

ASSUME QueueAssumption ==
  /\ {MaxId, MaxTime, MaxRetries, MaxBlips, MaxRestarts} \subseteq Nat
  /\ Backoff \in Nat /\ MaxAttempts \in Nat \ {0} /\ Page \in Nat \ {0}
  /\ TypesOf \in [Workers -> SUBSET Types] /\ GatedWorkers \subseteq Workers
  /\ \A v, w \in Workers : v # w => TypesOf[v] \cap TypesOf[w] = {}

Ids  == 1..MaxId
Keys == [type : Types, target : Targets]

VARIABLES
  row,       \* sync_tasks
  lastId,    \* the highest identifier issued; rows are never renumbered
  todo,      \* what each processor has listed and not come to yet
  cur,       \* the task each processor has claimed and is running
  caller,    \* the key a handler found no active task for and will insert
  now,
  retries, blips, restarts

queue  == <<row, lastId>>
procs  == <<todo, cur>>
counts == <<retries, blips, restarts>>
qvars  == <<queue, procs, caller, now, counts>>
-----------------------------------------------------------------------------
Active == {"pending", "running"}
Ended  == {"succeeded", "canceled", "retired"}

Row == [key : Keys, status : Active \cup Ended, attempts : Nat,
        due : Nat,            \* next_run_at
        error : BOOLEAN,      \* last_error is not empty
        finished : Nat]       \* finished_at, 0 for null
NoRow == [status |-> "absent"]

\* A processor works from the rows as it listed them, not as they are now.
\* read says that the execution has looked at its target.
Listed == [id : Ids, key : Keys, attempts : Nat, due : Nat, read : BOOLEAN]
Idle   == [id |-> 0]
NoKey  == [type |-> "none"]

Stored    == {i \in Ids : row[i].status # "absent"}
ActiveFor(k) == {i \in Stored : row[i].key = k /\ row[i].status \in Active}

QTypeOK ==
  /\ row \in [Ids -> Row \cup {NoRow}]
  /\ lastId \in 0..MaxId /\ \A i \in Stored : i <= lastId
  /\ todo \in [Workers -> SUBSET Listed]
  /\ cur \in [Workers -> Listed \cup {Idle}]
  /\ caller \in [Callers -> Keys \cup {NoKey}]
  /\ now \in Nat \ {0}
  /\ {retries, blips, restarts} \subseteq Nat

QInit ==
  /\ row = [i \in Ids |-> NoRow] /\ lastId = 0
  /\ todo = [w \in Workers |-> {}] /\ cur = [w \in Workers |-> Idle]
  /\ caller = [c \in Callers |-> NoKey]
  /\ now = 1
  /\ retries = 0 /\ blips = 0 /\ restarts = 0
-----------------------------------------------------------------------------
\* enqueueUserTask, enqueueNodeTask, enqueueCertTask, enqueueMailNotify: an
\* active task for the same key, pending or running, makes the request a no-op.
GetActiveByTarget(c, k) ==
  /\ caller[c] = NoKey
  /\ k.type \in FreshTypes \/ ActiveFor(k) = {}
  /\ caller' = [caller EXCEPT ![c] = k]
  /\ UNCHANGED <<queue, procs, now, counts>>

Create(c) ==
  /\ caller[c] # NoKey /\ lastId < MaxId
  /\ lastId' = lastId + 1
  /\ row' = [row EXCEPT ![lastId + 1] =
       [key |-> caller[c], status |-> "pending", attempts |-> 0, due |-> now,
        error |-> FALSE, finished |-> 0]]
  /\ caller' = [caller EXCEPT ![c] = NoKey]
  /\ UNCHANGED <<procs, now, counts>>
-----------------------------------------------------------------------------
\* ORDER BY next_run_at, id.  The page is taken before types are looked at.
Before(i, j) == row[i].due < row[j].due \/ (row[i].due = row[j].due /\ i < j)
Due          == {i \in Stored : row[i].status = "pending" /\ row[i].due <= now}
PageOfDue    == {i \in Due : Cardinality({j \in Due : Before(j, i)}) < Page}

ListDue(w) ==
  /\ todo[w] = {} /\ cur[w] = Idle /\ Due # {}
  /\ todo' = [todo EXCEPT ![w] =
       {[id |-> i, key |-> row[i].key, attempts |-> row[i].attempts, due |-> row[i].due,
         read |-> FALSE] : i \in PageOfDue}]
  /\ UNCHANGED <<queue, cur, caller, now, counts>>

First(S, t) == t \in S /\ \A u \in S : t.due < u.due \/ (t.due = u.due /\ t.id <= u.id)

\* The next task of the page: not of this processor's types, or no longer
\* pending; or its claim fails in the database and it waits for another round.
Skip(w, t) ==
  /\ cur[w] = Idle /\ First(todo[w], t)
  /\ todo' = [todo EXCEPT ![w] = @ \ {t}]
  /\ \/ t.key.type \notin TypesOf[w] /\ UNCHANGED blips
     \/ row[t.id].status # "pending" /\ UNCHANGED blips
     \/ blips < MaxBlips /\ blips' = blips + 1
  /\ UNCHANGED <<queue, cur, caller, now, retries, restarts>>

MarkRunning(w, t) ==
  /\ cur[w] = Idle /\ First(todo[w], t)
  /\ t.key.type \in TypesOf[w] /\ row[t.id].status = "pending"
  /\ row' = [row EXCEPT ![t.id].status = "running"]
  /\ todo' = [todo EXCEPT ![w] = @ \ {t}]
  /\ cur' = [cur EXCEPT ![w] = t]
  /\ UNCHANGED <<lastId, caller, now, counts>>

\* runUserTask, runNodeTask, runCertTask read the target's current state and
\* then spend seconds on the remote call.
ReadTarget(w) ==
  /\ cur[w] # Idle /\ ~cur[w].read
  /\ cur' = [cur EXCEPT ![w].read = TRUE]
  /\ UNCHANGED <<queue, todo, caller, now, counts>>

\* WHERE status NOT IN (canceled, retired); a purged row matches nothing.
\* Slips: only a purged row is left alone; a purged row is written again.
WritableAny(i) == row[i].status # "absent"
WritableGone(i) == row[i].status \notin {"canceled", "retired"}
Writable(i) == row[i].status \notin {"absent", "canceled", "retired"}

Succeeded(i) ==
  IF Writable(i)
  THEN [row EXCEPT ![i].status = "succeeded", ![i].error = FALSE, ![i].finished = now]
  ELSE row

\* The clock's bound also bounds the backoff: at the bound a retry is due at once.
NextRun == IF now + Backoff > MaxTime THEN MaxTime ELSE now + Backoff

\* Slip: a retry is not counted.
RetriedUncounted(i) ==
  IF Writable(i) THEN [row EXCEPT ![i].status = "pending", ![i].error = TRUE, ![i].due = NextRun]
  ELSE row

Retried(i) ==
  IF Writable(i)
  THEN [row EXCEPT ![i].status = "pending", ![i].error = TRUE,
                   ![i].attempts = @ + 1, ![i].due = NextRun]
  ELSE row

\* Only the status and the finish time: last_error stays as it was.
Canceled(i) ==
  IF row[i].status \in Active
  THEN [row EXCEPT ![i].status = "canceled", ![i].finished = now]
  ELSE row

\* Slip: the cap is one too high.
GivesUpLate(t, permanent) == permanent \/ t.attempts >= MaxAttempts
\* The cap is compared with the attempts as listed.
GivesUp(t, permanent) == permanent \/ t.attempts + 1 >= MaxAttempts

Succeed(w) ==
  /\ cur[w] # Idle /\ cur[w].read
  /\ row' = Succeeded(cur[w].id)
  /\ cur' = [cur EXCEPT ![w] = Idle]
  /\ UNCHANGED <<lastId, todo, caller, now, counts>>

\* The side effect failed: cancel on a permanent error or at the cap, else retry.
FailRun(w, permanent) ==
  /\ cur[w] # Idle
  /\ IF GivesUp(cur[w], permanent)
     THEN row' = Canceled(cur[w].id)
     ELSE row' = Retried(cur[w].id)
  /\ cur' = [cur EXCEPT ![w] = Idle]
  /\ UNCHANGED <<lastId, todo, caller, now, counts>>

\* Writing the outcome fails: the error is logged and the processor goes on.
LoseOutcome(w) ==
  /\ cur[w] # Idle
  /\ blips < MaxBlips /\ blips' = blips + 1
  /\ cur' = [cur EXCEPT ![w] = Idle]
  /\ UNCHANGED <<queue, todo, caller, now, retries, restarts>>
-----------------------------------------------------------------------------
\* The admin's view (admin_sync_tasks.go).
Cancel(i) ==
  /\ row[i].status \in Active
  /\ row' = Canceled(i)
  /\ UNCHANGED <<lastId, procs, caller, now, counts>>

\* Any row but a retired one, a running one too; the attempts are kept.
RetryNow(i) ==
  /\ row[i].status \notin {"absent", "retired"}
  /\ retries < MaxRetries /\ retries' = retries + 1
  /\ row' = [row EXCEPT ![i].status = "pending", ![i].error = FALSE,
                        ![i].due = now, ![i].finished = 0]
  /\ UNCHANGED <<lastId, procs, caller, now, blips, restarts>>

\* A server migration, exclusive of everything under the operation gate, retires
\* the node tasks of the old backend, whatever their status.
Retire(k) ==
  /\ k.type \in NodeTypes
  /\ \A w \in GatedWorkers : todo[w] = {} /\ cur[w] = Idle
  /\ \E i \in Stored : row[i].key = k /\ row[i].status # "retired"
  /\ row' = [i \in Ids |->
       IF i \in Stored /\ row[i].key = k /\ row[i].status # "retired"
       THEN [row[i] EXCEPT !.status = "retired",
               !.finished = IF row[i].finished = 0 THEN now ELSE row[i].finished]
       ELSE row[i]]
  /\ UNCHANGED <<lastId, procs, caller, now, counts>>

Purge(S) == row' = [i \in Ids |-> IF i \in S THEN NoRow ELSE row[i]]

\* The one-click clear, and the hourly pruning of old successes.
DeleteFinished ==
  /\ \E i \in Stored : row[i].status \in Ended
  /\ Purge({i \in Stored : row[i].status \in Ended})
  /\ UNCHANGED <<lastId, procs, caller, now, counts>>
DeleteSucceededBefore(cutoff) ==
  /\ LET S == {i \in Stored : /\ row[i].status = "succeeded"
                              /\ row[i].finished \in 1..(cutoff - 1)}
     IN S # {} /\ Purge(S)
  /\ UNCHANGED <<lastId, procs, caller, now, counts>>

\* Slip: boot leaves the interrupted rows alone.
ResetNothing == row
\* Boot puts what was running back, due at once.
ResetRunning ==
  [i \in Ids |-> IF row[i].status = "running"
                 THEN [row[i] EXCEPT !.status = "pending", !.due = now] ELSE row[i]]

Restart ==
  /\ restarts < MaxRestarts /\ restarts' = restarts + 1
  /\ row' = ResetRunning
  /\ todo' = [w \in Workers |-> {}] /\ cur' = [w \in Workers |-> Idle]
  /\ caller' = [c \in Callers |-> NoKey]
  /\ UNCHANGED <<lastId, now, retries, blips>>

Tick == now < MaxTime /\ now' = now + 1 /\ UNCHANGED <<queue, procs, caller, counts>>

WorkerStep(w) ==
  \/ ListDue(w)
  \/ \E t \in todo[w] : Skip(w, t) \/ MarkRunning(w, t)
  \/ ReadTarget(w) \/ Succeed(w) \/ \E permanent \in BOOLEAN : FailRun(w, permanent)
  \/ LoseOutcome(w)

QNext ==
  \/ \E c \in Callers : Create(c) \/ \E k \in Keys : GetActiveByTarget(c, k)
  \/ \E w \in Workers : WorkerStep(w)
  \/ \E i \in Ids : Cancel(i) \/ RetryNow(i)
  \/ \E k \in Keys : Retire(k)
  \/ DeleteFinished \/ DeleteSucceededBefore(now)
  \/ Restart \/ Tick

QSpec == QInit /\ [][QNext]_qvars

\* The loops run for ever and a side effect ends one way or another.  A handler
\* that has looked goes on to insert.
QFairness ==
  /\ WF_qvars(Tick)
  /\ \A c \in Callers : WF_qvars(Create(c))
  /\ \A w \in Workers :
       /\ WF_qvars(ListDue(w))
       /\ WF_qvars(\E t \in todo[w] : Skip(w, t) \/ MarkRunning(w, t))
       /\ WF_qvars(ReadTarget(w) \/ Succeed(w) \/ \E permanent \in BOOLEAN : FailRun(w, permanent))

FairQSpec == QSpec /\ QFairness
-----------------------------------------------------------------------------
\* A canceled or retired task never comes back but by the admin's retry (or the
\* purge), and a retired one not even so: neither a runner that had listed or
\* even claimed it before, nor its outcome, nor a restart revives it.
StoppedStaysStopped ==
  [][\A i \in Stored : row[i].status \in {"canceled", "retired"} =>
       \/ row'[i] = row[i] \/ i \notin Stored'
       \/ row[i].status = "canceled" /\ row'[i].status = "retired"
       \/ row[i].status = "canceled" /\ retries' = retries + 1 /\ row'[i].status = "pending"]_qvars

\* A side effect runs only for a row that is active at that moment for its
\* runner: what a processor is running was pending when it started, and every
\* row marked running is being run by a live processor of its type, so that a
\* restart strands nothing (while the database answers).
RunningIsAttended ==
  blips = 0 => \A i \in Stored : row[i].status = "running" =>
    \E w \in Workers : cur[w] # Idle /\ cur[w].id = i /\ row[i].key.type \in TypesOf[w]

\* The copy of the attempts a processor decides with is never stale, so no task
\* is tried more often than the cap and the admin's retries allow.
AttemptsCapped ==
  /\ \A i \in Stored : row[i].attempts < MaxAttempts
  /\ \A w \in Workers : \A t \in todo[w] \cup {cur[w]} :
       t # Idle /\ t.key.type \in TypesOf[w] /\ t.id \in Stored =>
         t.attempts = row[t.id].attempts

\* Every queued task ends, although others before it keep failing and a restart
\* interrupts it: the cap, the backoff, the order of the page and ResetRunning
\* together.  One failed database call is enough to lose it: a row whose outcome
\* could not be written stays running and is not listed again before a restart.
EveryTaskEnds ==
  \A i \in Ids : row[i].status \in Active ~> (row[i].status \notin Active \/ blips > 0)
-----------------------------------------------------------------------------
\* The job a row and the processors' claims on it stand for.
StatusOf(i) == IF i > lastId THEN "unborn" ELSE IF i \in Stored THEN row[i].status ELSE "gone"
TriesOf(i)  == IF i \in Stored THEN row[i].attempts ELSE 0
Underway(i) == \E w \in Workers : cur[w].id = i
JobOf(i)    == [status |-> StatusOf(i), tries |-> TriesOf(i), held |-> Underway(i)]

Jobs == INSTANCE JobLedger WITH job <- [i \in Ids |-> JobOf(i)], asked <- retries

\* The queue implements the ledger of jobs: although claims and outcomes are
\* separate calls made from listed copies, and rows are canceled, retried,
\* purged, retired and reset in between, no task is run by two processors, no
\* failure is counted twice, and no outcome revives what has ended.
KeepsJobs == Jobs!JSpec
=============================================================================
