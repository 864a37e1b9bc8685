# Passwall Sub Panel: specifications

TLA+ models of the control plane in this repository (`internal/`), the small
instances TLC checks, and theorems TLAPS checks. `PROJECT.json` maps every
definition to the lines it stands for, and lists components, runs, properties,
hazards, findings and theorems. Paths below are relative to the repository.

Contents: 1 inventory; 2 the modules; 3 findings; 4 what is proved;
5 what is only model-checked; 6 what is left out; 7 plan; 8 how to run.

## 1. Inventory

PSP sells access to proxies. It keeps users, nodes and certificates in SQL and
makes two kinds of remote servers follow: **panels** (3X-UI, S-UI), called over
HTTP and answering at once, and **native agents** (`passwall-node`), which poll
PSP and apply what they are given later. There is one server process; its
concurrency is HTTP handlers against background loops (`internal/app`), with the
database as the only shared state and few locks: one per user (`keyedmutex`),
one per native agent, and an operation gate that a backend migration takes alone.

### Parts with a module

| Part | State | Operations | What is hard, and what makes it correct |
|---|---|---|---|
| Native agent tasks: `sqlstore/node_agent_task_repo.go`, `..._quarantine.go` | task rows, quarantined results, per-agent quotas | create-or-get, offer, complete a batch, expire, delete the agent | Every operation is one transaction under the owner row, but callers retry, agents repeat results, deadlines close dispatch and the database may be restored. No invented outcome, nothing dispatched twice after it was answered, replays accepted at capacity. |
| Native task exchange: `service/nodesync` (task half) | requests held by the server, replies on the way | ingest, offer, reply, fail | Lost and late messages, overlapping requests, agent crashes, restores. What the agent forgets is on record; only known failures are retried; every task settles. |
| Native configuration streams: `nodesync` (config and roster), `node_agent_repo.go` | versioned document per stream, row states, credentials applied | load snapshot, record report, confirm rows, mint, reply | An admin edits while an exchange runs; receipts for old intents; a failed round between two mints. No report refused, nothing confirmed that never ran, convergence. |
| Sync-task queue: `sync_task_repo.go`, the four `ProcessDueTasks` | `sync_tasks` rows | enqueue, list, claim, succeed, retry, cancel, retire, purge, boot reset | Claims and outcomes are separate database calls; admins cancel and retry in between; processors share a page. Stopped tasks stay stopped, caps hold, every task ends. |
| User access: `service/user`, with `service/sharedclient` and the poll's part in it | account and service axes, emergency window and uses, soft deletion; the client row; the client on the panel; two queued tasks per user | suspend, lift, resume, grant, edit, delete, resync, push | Some paths hold the user lock, some the emergency lock, some nothing, and each saves or pushes from its own copy. A suspension is not lifted on an older decision, a grant keeps a location hold, the panel comes to follow the row, a deletion ends. |
| Traffic metering: `service/traffic`, `domain/traffic_cap.go` | counters with epochs, lifetimes, period baselines, snapshots; the intent and the cap on the panel | poll, roll over, enforce, edit the usage, push the floor | Counters go back or start over with a new epoch; two rows are written by two calls from copies minutes old; a cap mixes numbers read at different times. Nothing is charged twice, and nobody is cut off with quota left. |
| Node configuration: `service/node`, `service/reconcile`, `service/inboundcfg`, `cert/deploy.go` | configuration, stamp, sync state, enabled flag; the upstream inbound | edit, switch, task run, reconcile, certificate, normalise | Six writers read the row, wait on the network and write a whole copy back. Desired ports stay the admin's; the panel converges. |

### Parts without one

| Part | State and operations | What is hard, and what would make it correct |
|---|---|---|
| Shared clients on several inbounds and panels (`service/sharedclient`, `pkg/clientplan`) | one client per user and panel, attached to inbounds; provision, rotate, orphan removal | A panel fails half way; a stale client is deleted while its replacement serves only some inbounds. Their lifecycle on one panel is in UserAccess and TrafficMeter. |
| Legacy client sync (`service/sync`) | per-node clients | Replaced by shared clients; deletion still goes through it. |
| Node lifecycle (`service/node`, other than configuration) | create, import, detach, delete | A create whose answer was lost must adopt the inbound it made, and only if no other node owns it. |
| Quota directives (`nodesync`) | grants, residual headroom, coverage | Several agents serve one client; grants are computed from the same headroom before any is recorded. |
| Certificates (`service/cert`, `adapters/acme`) | certificates, bindings; issue, renew, deploy | A failed deployment must not ask the authority again; a binding stored before a failed first deployment has no task. |
| Backend migration (`servermigration`, `operationgate`) | gate, schema steps; drain, switch | The hourly mail pass runs outside the gate a switch waits for. |
| Mail and alerts | mail tasks, throttles | Mail tasks are tasks of the queue; the rest renders and sends. |
| Login and second factors (`auth`, `twofa`, `login2fa`, `passkey`, `recovery`, `registration`) | tokens, recovery codes | Single use under concurrent redemption; a reset token consumed before the password is stored; old codes deleted and a new one created in two calls. |
| Login guard, captcha | an event table | One counting query per attempt. |
| Risk, geography, rollups, metrics, health | measurements and verdicts | Formulas over samples, no protocol. |
| Agent upgrades | a task request | A producer of native tasks. |
| Rendering, groups, locale, audit, authorization policy | stored rows | Row editing and pure formatting. |
| Panel adapters, other storage, utility packages | none of their own | HTTP and SQL encodings; what a push does upstream is in NodeConfig. |
| Transport, wiring, commands, web interface, deployment | none | Routing and construction. The loops `app` starts are the fairness of the modules. |

### How the parts interact

- Handlers write a row, push to the panel, and on failure enqueue a sync task.
  Task runners read the row again and push (NodeConfig, SyncTaskQueue).
- `reconcile` lists panels and nodes and repairs drift with no task of its own.
- A native agent's poll carries results and receipts one way, tasks and documents
  the other; one handler at a time per agent (NodeTaskDelivery, NodeStreams).
- Service-state changes, the poll's enforcement and membership changes all end in
  a push of the user's clients: the intent goes on the client row, then to the panel.
  UserAccess models who may write what; TrafficMeter models the cap that goes
  along. The two meet in the suspension for traffic: when it is due is free in the
  first and computed in the second, where its effect on the service is one flag.

## 2. The modules

| Module | Models | Composes | Theorems in |
|---|---|---|---|
| `TaskLedger` | abstract: what the task table promises | | |
| `NodeTasks` | the task and quarantine tables | implements `TaskLedger` | `NodeTasks_proofs` |
| `NodeTaskDelivery` | exchange, agent journal, restore | extends `NodeTasks`: its handlers call that module's operations | `NodeTaskDelivery_proofs` |
| `JobLedger` | abstract: what the queue promises of a job | | |
| `SyncTaskQueue` | queue and processors | implements `JobLedger` | `SyncTaskQueue_proofs` |
| `NodeConfig` | one node's row, its panel and its writers | its two task rows are the queue's, reduced to one per type | `NodeConfig_proofs` |
| `NodeStreams` | config and roster streams, edits, the agent | takes the row writes of a native node from the edit handler | `NodeStreams_proofs` |
| `UserAccess` | one account, its client on one panel and everything that writes them | its two tasks are the queue's, one per type | `UserAccess_proofs` |
| `TrafficMeter` | one user's counters, cap and the polls, edits and pushes around them | takes the push of a lifecycle from the shared client | `TrafficMeter_proofs` |

`MC<Module>` gives the constants their values. Some definitions are preceded by
a variant marked *Slip*: the same definition with a plausible mistake in it. No
behaviour uses them; they are there to show that a property notices the mistake.

### NodeTasks

`CreateOrGet`, `OfferTasks`, `CompleteBatch` and `DeleteAgent` are one action
each, because the code runs each in one transaction that first locks the
agent's owner row; a call that returns an error rolls back and is a disabled
action. `CreateVerdict` and `CompleteVerdict` keep the order of the code's
checks, which matters: a replay is recognised before the fence and the quota.
The input of a task (kind, arguments, digest) is one value with a kind and a
size. Deadlines are points on the server's clock; 0 is a legacy task's missing
lifecycle. `agents` are those whose owner row exists.

Run `node_tasks`: three identifiers, one agent, two inputs of sizes 1 and 2,
quotas of two tasks, three bytes and two pieces of evidence, one offer per reply,
batches of two, a clock of two ticks. Two quota places and three identifiers let
every quota be hit by a count, by bytes and by a task whose dispatch was closed;
two ticks separate before and after a deadline; a batch of two lets one half
conflict. One agent is enough for quotas and fencing, which are per agent.
Admission across agents (an identifier another agent owns) is not exercised by
the run and is covered by the proofs.

`KeepsLedger` is the refinement: `TaskLedger` has one entry per agent and task
that only moves forward (an outcome after an offer, nothing after an outcome or
a fence but the agent's deletion). The entry is what a row and the evidence say together; a batch of
results moves several entries in one step.

### NodeTaskDelivery

The agent is external (another repository) and modelled as the exchange relies on
it (`docs/adr/0031`, `0032`): a durable journal, an outbox of results sent whole
until acknowledged, one request at a time in its own view while the server may
hold older ones it gave up on (`Slots`). `Ingest` and `Respond` are the two
commits of the handler, and a failure may come before, between or after them.
`Crash` loses the outcome of a running task and journals it as indeterminate.
`Backup` and `Restore` put an old table back; identifiers minted since stay
minted, since they are random.

Runs: `task_delivery` checks safety with two overlapping requests, two restores,
one agent crash and room for one piece of evidence. The tasks are an expiring
one and a retry of it, because expiry and supersession are what restores and late
answers collide with. `task_liveness` checks that tasks settle and the outbox
drains with one request held, two restores, tasks that never expire, a retry of the first that
does, and enough evidence room (with a full quarantine a result waits for ever: nothing releases
evidence). A task that never expires and was answered before a restore stays open and fenced
for good: it must not hide the one behind it, which `Offer` reaches by passing over it
(`node_agent_task_repo.go:507`). One restore brings the fence about, the second puts it in
front of an unanswered task.

Fairness: weak for the agent's poll, for starting and finishing what it holds and
for the handler's steps; strong for a batch being committed, a reply being
produced and a reply being received. Agents poll on a timer, exchanges fail now
and then but not always, and deadlines and handlers end a task.

### SyncTaskQueue

A processor lists a page of due rows (of every type), claims those of its own
types one by one, runs the side effect and writes the outcome: `ListDue`, `Skip`,
`MarkRunning`, `ReadTarget`, `Succeed`, `FailRun`, each a database call of its own,
working from the row as listed. Handlers look for an active task and then insert
(`GetActiveByTarget`, `Create`). Administrators cancel, retry and purge; a
migration retires; boot resets running rows. `LoseOutcome` is an outcome that could not
be stored.

`KeepsJobs` is the refinement: `JobLedger` has one entry per identifier (what became
of it, failures counted, whether an execution is under way) and the number of runs
an admin asked for. Rows, listed copies and claims together are that entry. An
execution begins on a pending job that nobody runs and ends with one outcome or
unheard; a job an admin asks for again while it runs is answered by that
run, which the ledger says openly.

Run `sync_queue`: two rows, two processors sharing pages of one row, two attempts,
a backoff of one tick, and one retry, one failed call and one restart. A page of
one is the smallest in which one processor's row hides another's; two attempts
distinguish a retry from giving up.

Fairness: the clock ticks, a handler that looked inserts, each processor lists,
goes through its page and ends a run. `runSyncTaskLoop` ticks every 30 seconds
for ever (`app.go:1804`), the mail loop hourly; side effects have timeouts. A row
whose outcome could not be written stays running until the next boot, which
`EveryTaskEnds` excepts: that is the behaviour of the code.

### NodeConfig

One row (configuration, stamp, sync state, enabled), the panel's inbound, the
update and the switch task, and one record per writer holding its program
counter and its copy of the row. A write by `UpdateInboundConfig` stores the whole
configuration of the copy (`Stored`, never the enabled column). The stamp is
`config_synced_at`, compared for equality only, so `FreshStamp` is any number that
nobody holds. `PanelForm` is what the panel makes of a body it is sent, `Modern`
the fingerprint normalisation. A call to the panel fails applied or not applied
(`Fails`). Of the panel's other inbounds only whether there are any is kept (`others`).
A reconcile cycle works from what it has cached of the panel: the listing, which may fail
and then leaves nothing (`Prefetch`), and inbounds fetched one by one on behalf of clients
(`LoadInbound`, part `"ownerships"`). A panel of which nothing is cached counts as
unreachable (`Reachable`). `want` and `asked` are history: the configuration last asked for, and
every port asked for.

`Parts` turns background writers on. Runs:

- `config_converges`: an edit, a switch, reconcile, the runner, an operator who
  edits and deletes the inbound, removes the panel's others or adds the first, and one
  failing call or listing. Safety (`PortIsIntended`) and the two convergence properties.
  `MissingIsDisabled` is stated for a panel that lists something else; section 3 says
  what happens on one that does not. One switch is what puts a node back on that reconcile
  disabled or is about to disable. The normaliser and certificates are off here: they loop
  for ever only under an adversarial schedule of rewrites, which no bound removes.
- `config_normaliser`: the normaliser and a certificate against two edits.
- `config_two_edits`: see section 3.

Two ports and one operator's port, a legacy, a modern and a rewritten body are
enough to tell every copy from every other; two edits are what a lost update
takes; one fault decides whether a pushed copy is marked pending.

Fairness: weak for each writer's steps. Handlers run to their end and the loops
are tickers; the bounds on edits, faults and drifts make "eventually" mean "once
people stop".

### NodeStreams

A listener's row, a client's row with its attachment, and two documents minted
from them. An exchange runs under the agent's lock: `Begin` takes the snapshot and
records the report (one action, since the report is checked against the streams
only, which nothing else writes), `ReconcileClients` and `ConfirmNodes` act on a
full report, `MintConfig` and `Respond` mint and reply. `EditIntent` and
`MarkPending` are the two writes of a native edit. A document is identified by its
content, as its etag is.

Run `streams`: an edit and a rotation of the credential, two requests held, one
fault (a failed exchange, a lost or abandoned message). One edit suffices for
every race with a snapshot; a rotation for every race of a credential. `ran`, the
intents the core has run, is history. `ConfirmedWasRun` says that an exchange
confirms only what the core has run at some time: after an edit and its undoing,
a late full report may mark the row synced a moment early, which `Converges`
shows to be transient.

Fairness: weak for the agent's poll and application and for the handler's steps,
strong for full reports and for a held request being served (the lock is a mutex).

### UserAccess

The row's account, service reason and its time, emergency window and uses; the
client row's intent and whether the panel ever confirmed the client; the client on
the panel; the user lock and the emergency lock; the queued push and the queued
deletion. Each goroutine has an operation, a step and its copy of the row, and
each read, write and panel call is a step of its own. `Save` writes every column
but those of the service and the window (`pollOwnedColumns`), so a row deleted
meanwhile is inserted again; `Mark` and `Clear` write the service's columns only.
`Locked` lists the operations that hold the user lock from first read to last
push; the grant holds the emergency lock over its three writes, and the
detector's conditional write takes it. Whether a user is out of quota is
free here: `quota` and `rollover` may begin whenever the row the poll listed allows it.

Runs:

- `user_access`: any three operations by two goroutines, from a user in good
  standing, one suspended for traffic or one suspended for location. Three operations are what an old
  decision takes to go wrong (lift decided, resumed, suspended again);
  one tick separates a suspension from a newer one. No loops or faults: the three
  safety properties are about rows, which pushes do not write.
- `user_progress`: up to three of deletion, edit and grant, one after the other,
  against the healing sweep and the task runner, with one failed panel call and one
  crash, under fairness. The fault and the crash fall between every two steps of
  each operation; goroutines racing each other are the subject of `user_access`.
- `user_deleted`: section 3.

Fairness: weak for every goroutine's steps and for the sweep; strong for the
runner taking up a queued push or deletion: it serves one task at a time, and
a task put back waits out its backoff while others run, but `ProcessDueTasks` handles
every due row and runs again 30 seconds later for ever. The
attempt cap, SyncTaskQueue's subject, is left out: a deletion fails only by a fault, so
it never comes to the cap here; a push to a client missing from the panel fails each
time it is tried until the sweep creates the client.

### TrafficMeter

One user, one shared client, one panel, and one direction of bytes. `usage` is
the user row (lifetime, period baseline, period), `meter` the client row
(lifetime, last reading, epoch), `snap` the user's latest snapshot, `desired` the
client row's intent. A poll is `PollOnce` to `FlushState`, one step per read or
write; an edit of the usage `SetPeriodUsage` to `Switch`. Nothing keeps polls and
edits apart: the timer's loop (`app.go:1915`) and the administrator's request
(`admin_traffic.go:396`) call the same function. A push reads the user's columns,
writes the intent, lists the client row and writes `last reading + headroom` unless
the panel's cap is within the band. Pushes may begin at any time, which
covers the floor push after a poll, the push of a suspension or resumption, the
sweeps and the queue. The panel counts, cuts off at its cap, and may reset its
counter: a plain counter goes back (`Kinds` 0), an epoch counter starts a new
epoch. `carried`, `raised`, `upset` and the panel's `of` are history: `upset`
notes that two polls or edits overlapped (`overlap`), that a rollover wrote the user
row before the client counters (`early`), or that only one of the two rows was
written (`cut`). The properties name which of these they bear; section 3 says what happens
otherwise.

Run `traffic`: two polls or edits in every overlap, one push at a time, an
allowance of two, chunks of two on a start of one (so that the allowance is overshot), a
turn of the period, one reset and one fault. `Starts` is 1: a user already charged
something (section 3, fourth traffic observation). Two polls are what an old copy takes; a second pusher would let an
older cap land after a newer one, which the proofs cover for any number.

## 3. Findings

Two runs expect a violation: the code does not do what its documentation says.

| Run | What happens |
|---|---|
| `config_two_edits` | Two edits overlap and the push of the first fails late: `markConfigPending` (`node.go:803`) writes the first handler's copy over the second edit, and the retry pushes the first. For native nodes the same write follows every edit, without any failure. |
| `user_deleted` | A membership resync reads the user, a deletion saves its mark and removes the client, and the resync, which holds a lock the deletion never takes, creates the client again before the row goes. Nothing is left that would remove it. |

Further disagreements met while modelling. The models have the behaviour; no
run is devoted to it, and the properties are stated so that they do not hide it.

Queue and nodes:

- A handler that finds a running task for its key queues nothing, although that run has
  already read the node (`node.go:1253`; the comment at 1249 relies on
  the runner reading later). Reconcile pushes the edit instead. The look and the
  insert being two calls, two handlers may also both insert (`user.go:3252`).
- Giving up calls `Cancel`, which stores status and finish time only: the error of
  the last attempt is logged and not stored, although the comment at `user.go:3104`
  says it is preserved for the admin.
- Reconcile's push is applied but reports an error: the row is marked pending with
  no task, and later cycles find the panel in sync and return before touching the
  state (`reconcile.go:969`). `types.go:404` says that pending means a retry is queued.
- `InSync` does not compare the enable flag (`inboundcfg.go:309`), so a flip on the
  panel stays until something else drifts; `inboundcfg.go:277` says that it heals.
- After a database restore the agent reports a version ahead of the stored one at
  the same epoch; `RecordApplied` refuses it (`node_agent_repo.go:482`) and the exchange ends
  before anything is minted. `docs/psp-node-agent.md:438` says that a restore raises the
  epoch; nothing does. `Starts = {"restored"}` in NodeStreams shows it.

- A node whose inbound was deleted is never disabled if the panel lists no other: a panel of
  which nothing is cached counts as unreachable (`reconcile.go:850`), one that answered and
  listed nothing included (`reconcile.go:566`), and each cycle reports `panel_unreachable` and
  skips the node. The comment at `reconcile.go:827` says that an inbound that "genuinely no longer
  exists" goes through the branch that disables the node, and so does a failed listing, which
  never does. `MissingIsDisabled` therefore supposes `others`; without that it is violated.
- After a failed listing, `loadInbound` fetches inbounds one by one for the clients of users
  not yet moved to a shared one (`reconcile.go:310`, `437`) and caches them. One of them
  suffices for the panel to count as reachable, and every other enabled node of it that is not cached
  is disabled although its inbound is there; nothing switches it on again. The
  comment at `reconcile.go:852` knows only what the listing cached. `LiveNodeKept` says that
  reconcile disables no such node; it is violated with `"ownerships"` among `Parts` and proved without.
- A node created or imported after the panel was listed and before `checkNodes` lists the nodes
  is taken for one whose inbound disappeared and disabled. Nodes are not created in NodeConfig;
  this is for NodeLifecycle (section 7).

User access:

- A profile edit or a window reset of a row read before its deletion inserts
  the row again after it was dropped.
- A crash between the save of `pending_delete` and the queueing of its task
  leaves an account that the sweep skips and no task finishes. `QueuedDeletionFinishes` therefore
  starts from the queued task.
- The rollover decides on the poll's list and then clears whatever reason is there
  (`traffic.go:1540`), a newer hard hold included; so does a profile edit that gives quota
  back. `LiftIsDue` is about the conditional paths only.
- An administrator's pause between a grant's read and its write is overwritten by
  the grant: the pause takes neither lock.
- `ResetEmergencyUsage` (`user.go:2065`) says that it clears the window and the
  uses, and saves through `Save`, which omits those columns (`user_repo.go:84`):
  nothing is stored.

Traffic, each seen with a variant of the run's constants or properties:

1. A rollover writes the user row before the client counters, against "ORDERING IS
   LOAD-BEARING" (`traffic.go:932`): a push between the two computes a cap too
   strict by the poll's increment, and a user with quota left is cut off. If the
   counters then fail or the process stops, the increment is charged twice.
2. The edit of the usage writes the client counters back as it read them
   (`reseedSharedBaselines`). A poll that finished in between has charged
   the user, and the next one charges the same bytes again; the comment in `SetPeriodUsage` calls
   this race-safe because the pair reverts together, but the user row does not revert.
3. The user's flush failing after the client's loses the increment, although
   the comment at `traffic.go:925` says that the next cycle derives it again.
4. A user whose lifetime is 0 starts from the latest snapshot
   (`traffic.go:1404`). If the counters failed after that snapshot was written, the increment is
   charged from the snapshot and from the reading. An edit of the usage after the same
   failure also starts from that snapshot, at any lifetime (`traffic.go:2606`), and the next poll
   charges the increment again. `raised` is what the edit adds to the lifetime it read, so it
   contains the increment taken from the snapshot, and `ChargedOnce` does not show this one.
5. Overlapping polls charge one increment twice to the user or, with an older copy written
   last, lose one.
6. After an epoch is adopted at a count of 0, the next reading is taken as the first
   and charges nothing.

## 4. What is proved

For every value of the constants (the assumptions are named in the modules:
finite sets of tasks, positive quotas, disjoint processor types, a panel form
that is idempotent and agrees with the normaliser, a positive allowance):

**NodeTasks.** `TypeCorrect`; then the inductive invariant `RecordInv`, which
says of every task what its row implies about offers and reports (told) and
what evidence implies about its row (fencing). `EvidenceAlwaysFences`,
`TerminalAlwaysOffered` and `AcceptedAlwaysReplays` follow from it.
It is needed because neither half is inductive alone: that a result of an offered
row ends it rests on the row having no evidence, and that evidence keeps a row
queued rests on an offer skipping fenced rows. `ResultsAlwaysKept` and
`SettledStays` are action properties proved one operation at a time with the
step summary `KeepsTasks`. `CreationAlwaysReplays` rests on `RetriesFailed` (a task
that supersedes another was admitted when that one had failed, and a failure is
final), `KeysStayUnique` on the alias search, `QuotasHold` on the finiteness of the
tables and on no step but an admission making a task active. `TablesKeepLedger`
proves the refinement: the guards of each operation make it a move forward (an
offer skips what is fenced, `KeepsTasks` says what a report leaves alone), and
admission's look at the owners keeps an identifier one agent's. The facts about a
step are stated for `Operation(a)`, one transaction with a batch of any size, so
that the exchange can use them for its own, larger batches.

**NodeTaskDelivery.** The exchange runs the same transactions, but a restore puts
old rows next to a journal that went on, so nothing that rests on a row staying
where it is can be carried over. The invariant says instead what outlasts it:

- `OneIdentity`: wherever an identifier is named (row, saved row, journal, reply on
  its way), it is the same agent's and the same request, and was minted.
- `Answers`: every result under way, every piece of evidence and every outcome,
  current or saved, is in the journal of its agent as done. What the journal says
  is never unsaid (`SaidForGood`), so a restore cannot make it false.
- `Tables`: what NodeTasks promises of rows and evidence, said of the saved tables too.
- `Acknowledged`: what was ingested, what a reply acknowledges and what has left
  the outbox is on record. This half is lost with a restore and assumes none.

None of the properties is inductive by itself: each is about the current row, and
the next restore brings another. `OutcomeAlwaysTheAgents` follows from
`Answers`; `OutboxNeverRefused` from `Answers` and `OneIdentity` (the report agrees
with the row on the request, with its evidence and with its outcome);
`AcknowledgedAlwaysHeld` from `Acknowledged`; `RetryAlwaysAfterFailure` from `Tables`
and `Answers`. `PromisesOutliveRestores` says that keys, replayed creations
and quotas hold across restores. `AnsweredAlwaysStaysPut` and
`ExchangeKeepsLedger` are about every step but a restore, from any reachable state, including those
only a restore leads to. Nothing is assumed of the number of agents, requests
held, restores or crashes.

**SyncTaskQueue.** `QueueTypeCorrect`; `CopyInv`: a processor's copy of a row of its
own type carries the row's key and attempts, because only the processor of that
type counts attempts and identifiers are never reused. From it
`AttemptsNeverStale`; with disjoint types, `RunningAttended`; and `StoppedForGood`
from the guard of each write. `QueueKeepsJobs` proves the refinement of the ledger, one
lemma per kind of step. It adds to `CopyInv` that a task is in one processor's hands
at most (`Exclusive`) and is no success while it is (`Unheard`): the write of a failure
spares only canceled and retired rows (`sync_task_repo.go:207`), so without
these a late failure could revive a task that had succeeded.

**NodeConfig.** `ConfigTypeCorrect`, one lemma per writer; `CopiesInv`: every copy
that may still be written back carries a port that was asked for, and a row once
captured does. `PortIsIntended` is not inductive without it, since a stale copy
may replace the row. From it `PortAlwaysIntended`. `NormaliserAlwaysKeepsTheRest`
uses the agreement of panel form and modern form. `ListedLiveNodeKept` assumes that inbounds
are not fetched one by one, and rests on `SeenInv`: a cycle that has cached something but not
the node's inbound was given a listing without it, and an inbound that is gone stays gone
(`GoneForGood`). Certificates against
reconcile, which no run combines, are covered by these proofs.

**NodeStreams**, under the assumption that no database was restored (`restored` is
not among `Starts`; with a restore the properties are false, section 3).
`SInv` orders the documents: what the core runs is no later than what the agent
holds, that no later than the reply on its way and every reported document, and all
of these no later than what was minted; of two rosters the later never has the older
credential, because a snapshot is taken under the agent's lock and credentials only
move forward. To this it adds what a full report proves (`Receipts`) and that the
exchange in progress has a snapshot at least as new as the last mint (`Exchange`).
`ReportsAccepted`, `NeverAhead` and `ConfirmedWasRun` are each too weak to survive a
step: a report refused later is one that was sent earlier, so the order must be
known of everything still travelling. Theorems: `StreamsTypeCorrect`,
`ReportsAlwaysAccepted`, `AppliedNeverAhead`, `ConfirmedAlwaysRan`.

**UserAccess.** `TypeCorrect`; `AInv`: who holds which lock at which step, and that
what a lift and a grant have read still holds when they write; `GInv` adds the
steps a grant can be at. The argument of `GrantAlwaysKeepsHold` has two locks: the operations that
write `geo_auto` hold the user lock, but a grant does not; what keeps the two apart
is that the detector's one write is made under the emergency lock, which the grant
holds from before its read until after its last write, and that the read refused a
user with a hard hold. `GrantAlwaysSpendsOneUse` rests on the same lock: the window the grant
found closed can only be closed again, and the uses it counted can only be its own.
`LiftAlwaysDue` rests on the user lock, since whoever suspends for location holds it, as the lift does from its
read on.

**TrafficMeter.** `MeterTypeCorrect` (`TInv`: an edit's snapshot is no lower than
the usage it sets, so no baseline is negative). `NeverOvercharged` from `CInv`: for
the row and every copy of it, lifetime plus what the panel would still yield from
that reading is at most what was carried. It has to be said of copies, because an
overlapping poll may write any of them back, and with the unread part, because a
reading adds it. No assumption about overlap, failures or resets is made.
`CutsOnlyWhenSpent` and `EachByteChargedOnce` assume that 0 is not among `Starts`
(observation 4 above). `QInv` says, while nothing has upset the order, that at most one
worker is under way and that every number a cap may be made of (the row, the intent, a
push's copies and the panel's cap) leaves at least the allowance to the baseline it
was computed for. It is needed because a cap outlives the numbers it was made of. `EInv` says step by step how far
the two rows may be apart, and that they are level between polls.

## 5. What is only model-checked

- Liveness: `EveryTaskSettles`, `OutboxDrains`, `EveryTaskEnds`,
  `DesiredReachesPanel`, `MissingIsDisabled`, `Converges` of NodeStreams and of UserAccess,
  `QueuedDeletionFinishes`. Liveness under fairness is outside what the prover handles.

Every safety invariant and action property of the passing runs is stated by a theorem.

Proved without a run: `TerminalAlwaysOffered` and `SettledStays`, which the
refinement of the ledger implies on the instance; `PromisesOutliveRestores`, whose parts
the run `node_tasks` checks without restores; `ExchangeKeepsLedger` (a restore itself
is no step of the ledger: it takes entries back, which is what it is for); and
`QueueKeepsJobs`; and `ListedLiveNodeKept`, whose property is false of the code as a whole (section 3).
`KeepsJobs` added to the PROPERTIES of `SyncTaskQueue.cfg` holds on that
instance, but more than doubles the time of the run.

## 6. What is left out of the modelled parts

- NodeTasks: the corruption checks on rows read back, encodings and digests. The
  quota of bytes is in the guards; no property is stated about the sum (a fold, of
  which the prover cannot do the induction). Evidence is never released: the code
  has no operation that does.
- NodeTaskDelivery: several agents, which share nothing but identifiers; telemetry.
- SyncTaskQueue: what a task does to its target.
- NodeConfig: creation, import, detach and deletion of nodes, observed endpoint
  columns, the switch that disables reverse pushes, and database errors. An inbound whose
  settings cannot be parsed is not cached, as if it were not listed, which the model
  does not have; nor a listing made for the panel's other nodes while this one is disabled.
- NodeStreams: quota directives, recorded issue rows, telemetry, the core-catalog
  check that can fail a round, the reload after a normalisation, and more than
  one listener and client. An epoch is constant because nothing changes it.
- UserAccess: creation of accounts and their sign-in, credential resets, moves between
  groups, expiry (a grant to an expired user takes another branch), a client on several
  panels or inbounds, removal of orphans, database errors.
- TrafficMeter: the two directions (both are summed the same way), several clients of a
  user, per-node counters and the reports, the counters of legacy clients, emergency quota,
  the back-pressure that skips floor pushes, geography and connection policy.
  A user without an allowance has no cap and is not modelled.

The other parts of section 1 have no module. Most of the repository's lines are
theirs: request handlers, rendering, storage encodings, panel adapters and mail,
which edit rows or format text and follow no protocol of their own.

## 7. Plan

What would come next, in the order of what matters:

1. **NodeLifecycle**: the create task that adopts an inbound whose answer was lost,
   deletion guarded by unmanaged clients; composed with the queue's retry.
2. **QuotaDirectives**: grants of two agents to one client from one headroom.
3. **CertDeploy**: issue, renew and deploy through the queue; a binding stored
   before a failed first deployment.
4. **SharedClients**: one client on several inbounds, partial failures, removal of
   stale clients (`sharedclient.go:1040`).
5. **SingleUse** (recovery codes, reset tokens) and **MigrationGate**, both small.
6. **More proofs**: an abstract specification of the account and of the meter, which
   their modules would implement as the tables and the queue implement their ledgers.

The hazards of these parts are in `PROJECT.json` with a note. There is one safety
run and, where fairness is stated, one liveness run per component.

## 8. How to run

`tlc -config NodeTasks.cfg MCNodeTasks.tla` and likewise for the other
configurations (`PROJECT.json` lists the pairs); `tlapm NodeTasks_proofs.tla` for
the proofs. Every passing run ends within three minutes with two workers.
`CHECK_DEADLOCK FALSE` is set everywhere because every module may stop: with edits,
retries, faults and the clock at their bounds, nothing is left to do.
