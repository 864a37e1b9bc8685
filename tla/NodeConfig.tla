----------------------------- MODULE NodeConfig -----------------------------
(***************************************************************************)
(* One node's inbound configuration and everyone who writes it.            *)
(*                                                                         *)
(* PSP keeps the configuration it wants on the node's row (node_repo.go)   *)
(* and pushes it to the upstream panel.  The admin's handlers, the node    *)
(* task runner (node.go), the reconcile cycle (reconcile.go), certificate  *)
(* deployment (deploy.go) and the REALITY normaliser each read the row,    *)
(* spend seconds on the panel, and write the row back, without a lock      *)
(* between the steps; an operator may edit the panel directly.             *)
(*                                                                         *)
(* config_synced_at doubles as the row's version.  It is only compared for *)
(* equality, so a stamp here is any number nobody holds (FreshStamp).      *)
(* The database answers every call; a call to the panel may fail, applied  *)
(* or not.  The task rows are those of SyncTaskQueue, reduced to one per   *)
(* type with its deduplication.                                            *)
(***************************************************************************)
EXTENDS Naturals, FiniteSets

CONSTANTS
  Ports,      \* listener ports
  Bodies,     \* stream, settings and the other owned fields, one value
  PanelForm,  \* what the panel stores for a body it is sent
  Modern,     \* the body with its REALITY fingerprint normalised
  Forms,      \* configurations an admin submits
  Drifts,     \* configurations an operator sets on the panel
  Handlers,   \* concurrent admin edits
  Togglers,   \* concurrent admin switches of the node
  FirstStamps, \* 0: a node never captured, 1: captured and in sync
  Parts,      \* which background writers run, of Writers below
  MaxEdits, MaxToggles, MaxCerts, MaxFaults, MaxDrifts  \* bounds for the model checker

Writers == {"reconcile", "cert", "normaliser", "operator", "switch", "remover", "ownerships"}

ASSUME ConfigAssumption ==
  /\ PanelForm \in [Bodies -> Bodies] /\ Modern \in [Bodies -> Bodies]
  /\ \A b \in Bodies : /\ PanelForm[PanelForm[b]] = PanelForm[b]
                        /\ Modern[PanelForm[Modern[b]]] = Modern[PanelForm[b]]
  /\ IsFiniteSet(Handlers)
  /\ Forms \cup Drifts \subseteq [port : Ports, body : Bodies, cert : BOOLEAN]
  /\ Parts \subseteq Writers /\ FirstStamps \subseteq {0, 1}
  /\ {MaxEdits, MaxToggles, MaxCerts, MaxFaults, MaxDrifts} \subseteq Nat

VARIABLES
  row,    \* the node's row: cfg, stamp, state, enabled
  live,   \* the panel's inbound
  others, \* whether the panel lists other inbounds than the node's
  task,   \* the update and the switch task of this node
  edit, switch, runner, rec, cert, norm,  \* who is at which step, with which copy
  want,   \* the configuration last asked for (history)
  asked,  \* the ports asked for (history)
  used    \* how much of each bound is used up

actors == <<edit, switch, runner, rec, cert, norm>>
nvars  == <<row, live, others, task, actors, want, asked, used>>
-----------------------------------------------------------------------------
Cfg   == [port : Ports, body : Bodies, cert : BOOLEAN]
State == {"", "synced", "pending", "failed"}
Row   == [cfg : Cfg, stamp : Nat, state : State, enabled : BOOLEAN]
Gone  == [gone |-> TRUE]
Live  == [cfg : Cfg, enable : BOOLEAN, gone : {FALSE}]

Status == {"none", "pending", "running"}
Steps  == [edit   |-> {"idle", "push", "pending", "enqueue"},
           switch |-> {"idle", "push", "enqueue"},
           runner |-> {"idle", "read", "push", "check", "flip", "gaveup", "failed"},
           rec    |-> {"idle", "list", "visit", "push", "capture", "write", "adopt", "pending"},
           cert   |-> {"idle", "write", "enqueue"},
           norm   |-> {"idle", "swap", "read", "push", "enqueue", "confirm"}]

NTypeOK ==
  /\ row \in Row /\ live \in Live \cup {Gone} /\ others \in BOOLEAN
  /\ task \in [{"update", "switch"} -> Status]
  /\ edit \in [Handlers -> [pc : Steps.edit, n : Row]]
  /\ switch \in [Togglers -> [pc : Steps.switch, enable : BOOLEAN]]
  /\ runner \in [pc : Steps.runner, type : {"update", "switch"}, n : Row]
  /\ rec \in [pc : Steps.rec, n : Row, seen : Live \cup {Gone}, others : BOOLEAN]
  /\ cert \in [pc : Steps.cert, n : Row] /\ norm \in [pc : Steps.norm, n : Row]
  /\ want \in Cfg /\ asked \subseteq Ports
  /\ used \in [{"edits", "toggles", "certs", "faults", "drifts"} -> Nat]

\* The version check compares stamps; a stamp nobody holds is a new one.
Stamps == {row.stamp, runner.n.stamp, rec.n.stamp, cert.n.stamp, norm.n.stamp}
            \cup {edit[h].n.stamp : h \in Handlers}
FreshStamp == CHOOSE s \in 1..(Cardinality(Stamps) + 1) : s \notin Stamps

\* A finished actor's copy is forgotten.
Blank == [cfg |-> CHOOSE c \in Cfg : TRUE, stamp |-> 0, state |-> "", enabled |-> FALSE]
Rest(a) == [a EXCEPT !.pc = "idle", !.n = Blank]

\* UpdateInboundConfig writes the whole snapshot of the copy, and nothing else.
Stored(n) == [n EXCEPT !.enabled = row.enabled]

Use(what) == used' = [used EXCEPT ![what] = @ + 1]
-----------------------------------------------------------------------------
\* The panel stores its own form of the body; the spec's enable flag comes along.
Applied(c, enable) ==
  [cfg |-> [c EXCEPT !.body = PanelForm[c.body]], enable |-> enable, gone |-> FALSE]

Switched(enable) == [live EXCEPT !.enable = enable]

\* A call to the panel that leaves `after` behind.
Succeeds(after) == live # Gone /\ live' = after /\ UNCHANGED used

\* A call that returns an error may still have been applied.  Each failure uses
\* up a fault, except that calls about a deleted inbound always fail.
Fails(after) ==
  \/ live = Gone /\ UNCHANGED <<live, used>>
  \/ live # Gone /\ used.faults < MaxFaults /\ Use("faults") /\ live' \in {live, after}

Pushed(n)    == Succeeds(Applied(n.cfg, n.enabled))
PushFails(n) == Fails(Applied(n.cfg, n.enabled))

\* The owned fields, without the enable flag.
InSync(n, l) == n.cfg = l.cfg

\* enqueueNodeTask: a task that is pending or running absorbs the request.
Enqueued(type) == IF task[type] = "none" THEN [task EXCEPT ![type] = "pending"] ELSE task

\* Capture: everything the panel reports but the port, which is the admin's.
CapturedWhole(n, l) == [n EXCEPT !.cfg = l.cfg, !.stamp = FreshStamp, !.state = "synced"]      \* Slip.
CapturedDrift(n, l) == [n EXCEPT !.cfg = l.cfg, !.stamp = FreshStamp, !.state = "drift"]       \* Slip.
CapturedNot(n, l)   == [n EXCEPT !.stamp = FreshStamp, !.state = "synced"]                     \* Slip.
Captured(n, l) == [n EXCEPT !.cfg = [l.cfg EXCEPT !.port = n.cfg.port],
                            !.stamp = FreshStamp, !.state = "synced"]
Adopted(n, l)  == [n EXCEPT !.cfg = l.cfg, !.stamp = FreshStamp, !.state = "synced"]
-----------------------------------------------------------------------------
\* The admin's edit: the snapshot is written first, claiming to be synced.  In
\* the handler's copy `enabled` is the form's flag, which is pushed, not stored.
AdminEdit(h, c, enable) ==
  /\ edit[h].pc = "idle" /\ used.edits < MaxEdits /\ Use("edits")
  /\ LET n == [cfg |-> c, stamp |-> FreshStamp, state |-> "synced", enabled |-> enable]
     IN row' = Stored(n) /\ edit' = [edit EXCEPT ![h] = [pc |-> "push", n |-> n]]
  /\ want' = c /\ asked' = asked \cup {c.port}
  /\ UNCHANGED <<live, others, task, switch, runner, rec, cert, norm>>

AdminPush(h) ==
  /\ edit[h].pc = "push"
  /\ \/ Pushed(edit[h].n) /\ edit' = [edit EXCEPT ![h] = Rest(edit[h])]
     \/ PushFails(edit[h].n) /\ edit' = [edit EXCEPT ![h].pc = "pending"]
  /\ UNCHANGED <<row, others, task, switch, runner, rec, cert, norm, want, asked>>

\* markConfigPending writes the handler's copy back, whatever the row is by now.
AdminMarkPending(h) ==
  /\ edit[h].pc = "pending"
  /\ row' = Stored([edit[h].n EXCEPT !.state = "pending"])
  /\ edit' = [edit EXCEPT ![h] = [pc |-> "enqueue", n |-> Blank]]
  /\ UNCHANGED <<live, others, task, switch, runner, rec, cert, norm, want, asked, used>>

AdminEnqueue(h) ==
  /\ edit[h].pc = "enqueue"
  /\ task' = Enqueued("update") /\ edit' = [edit EXCEPT ![h] = Rest(edit[h])]
  /\ UNCHANGED <<row, live, others, switch, runner, rec, cert, norm, want, asked, used>>

\* SetEnabled: its own column, its own call to the panel, its own task.
SetEnabled(t, enable) ==
  /\ "switch" \in Parts /\ switch[t].pc = "idle"
  /\ used.toggles < MaxToggles /\ Use("toggles")
  /\ row' = [row EXCEPT !.enabled = enable]
  /\ switch' = [switch EXCEPT ![t] = [pc |-> "push", enable |-> enable]]
  /\ UNCHANGED <<live, others, task, edit, runner, rec, cert, norm, want, asked>>

SwitchPush(t) ==
  /\ switch[t].pc = "push"
  /\ \/ Succeeds(Switched(switch[t].enable))
        /\ switch' = [switch EXCEPT ![t] = [pc |-> "idle", enable |-> FALSE]]
     \/ Fails(Switched(switch[t].enable))
        /\ switch' = [switch EXCEPT ![t] = [pc |-> "enqueue", enable |-> FALSE]]
  /\ UNCHANGED <<row, others, task, edit, runner, rec, cert, norm, want, asked>>

SwitchEnqueue(t) ==
  /\ switch[t].pc = "enqueue"
  /\ task' = Enqueued("switch") /\ switch' = [switch EXCEPT ![t].pc = "idle"]
  /\ UNCHANGED <<row, live, others, edit, runner, rec, cert, norm, want, asked, used>>
-----------------------------------------------------------------------------
\* The node task runner: one processor, one task at a time.
TaskClaim(type) ==
  /\ runner.pc = "idle" /\ task[type] = "pending"
  /\ task' = [task EXCEPT ![type] = "running"]
  /\ runner' = [runner EXCEPT !.pc = "read", !.type = type]
  /\ UNCHANGED <<row, live, others, edit, switch, rec, cert, norm, want, asked, used>>

\* The snapshot pushed is the row's, not the one in the task.
TaskRead ==
  /\ runner.pc = "read"
  /\ runner' = [runner EXCEPT !.pc = "push", !.n = row]
  /\ UNCHANGED <<row, live, others, task, edit, switch, rec, cert, norm, want, asked, used>>

TaskEnds == task' = [task EXCEPT ![runner.type] = "none"]

\* A failed run is retried until the attempts run out; when that is, is the
\* matter of SyncTaskQueue.
TaskPush ==
  /\ runner.pc = "push"
  /\ LET after == IF runner.type = "update" THEN Applied(runner.n.cfg, runner.n.enabled)
                                            ELSE Switched(runner.n.enabled)
     IN \/ /\ Succeeds(after)
           /\ IF runner.type = "update"
              THEN runner' = [runner EXCEPT !.pc = "check"] /\ UNCHANGED task
              ELSE runner' = Rest(runner) /\ TaskEnds
        \/ /\ Fails(after)
           /\ \/ /\ runner' = Rest(runner)
                 /\ task' = [task EXCEPT ![runner.type] = "pending"]
              \/ /\ runner' = [Rest(runner) EXCEPT !.pc = IF runner.type = "update" THEN "gaveup" ELSE "idle"]
                 /\ TaskEnds
  /\ UNCHANGED <<row, others, edit, switch, rec, cert, norm, want, asked>>

\* Only the snapshot that was pushed may be called synced.
TaskRecheck ==
  IF row.stamp = runner.n.stamp /\ row.state # "synced"
  THEN runner' = [runner EXCEPT !.pc = "flip", !.n = row] /\ UNCHANGED task
  ELSE runner' = Rest(runner) /\ TaskEnds
TaskCheck ==
  /\ runner.pc = "check" /\ TaskRecheck
  /\ UNCHANGED <<row, live, others, edit, switch, rec, cert, norm, want, asked, used>>

TaskFlip ==
  /\ runner.pc = "flip"
  /\ row' = Stored([runner.n EXCEPT !.state = "synced"])
  /\ runner' = Rest(runner) /\ TaskEnds
  /\ UNCHANGED <<live, others, edit, switch, rec, cert, norm, want, asked, used>>

\* markConfigSyncGaveUp: read, then write the whole copy back as failed.
TaskGaveUp ==
  /\ runner.pc = "gaveup"
  /\ runner' = IF row.state = "failed" THEN Rest(runner)
                                       ELSE [runner EXCEPT !.pc = "failed", !.n = row]
  /\ UNCHANGED <<row, live, others, task, edit, switch, rec, cert, norm, want, asked, used>>

TaskMarkFailed ==
  /\ runner.pc = "failed"
  /\ row' = Stored([runner.n EXCEPT !.state = "failed"])
  /\ runner' = Rest(runner)
  /\ UNCHANGED <<live, others, task, edit, switch, rec, cert, norm, want, asked, used>>
-----------------------------------------------------------------------------
\* The reconcile cycle.  What it has cached of the panel: the node's inbound, if
\* it was there, and whether there was any other.
Cycle(seen, any) == rec' = [pc |-> "list", n |-> Blank, seen |-> seen, others |-> any]
RecRest == rec' = [pc |-> "idle", n |-> Blank, seen |-> Gone, others |-> FALSE]

\* prefetchInbounds: a listing that fails leaves nothing in the cache.
Prefetch ==
  /\ "reconcile" \in Parts /\ rec.pc = "idle" /\ row.enabled
  /\ \/ Cycle(live, others) /\ UNCHANGED used
     \/ used.faults < MaxFaults /\ Use("faults") /\ Cycle(Gone, FALSE)
  /\ UNCHANGED <<row, live, others, task, edit, switch, runner, cert, norm, want, asked>>

\* loadInbound: the clients of users not yet moved to a shared one are visited
\* next, and an inbound of theirs that is not cached is fetched and cached.  A
\* fetch that fails leaves the cache as it was.
LoadInbound ==
  /\ "ownerships" \in Parts /\ rec.pc = "list"
  /\ \/ rec.seen = Gone /\ live # Gone /\ rec' = [rec EXCEPT !.seen = live]
     \/ ~rec.others /\ others /\ rec' = [rec EXCEPT !.others = TRUE]
  /\ UNCHANGED <<row, live, others, task, edit, switch, runner, cert, norm, want, asked, used>>

\* A disabled node is skipped.  Other nodes are reconciled before this one.
ListNodes ==
  /\ rec.pc = "list"
  /\ IF row.enabled THEN rec' = [rec EXCEPT !.pc = "visit", !.n = row] ELSE RecRest
  /\ UNCHANGED <<row, live, others, task, edit, switch, runner, cert, norm, want, asked, used>>

\* A panel of which nothing is cached counts as unreachable, also when it
\* answered and listed nothing; its nodes are left alone.
Reachable == rec.seen # Gone \/ rec.others
SkipUnreachable ==
  /\ rec.pc = "visit" /\ ~Reachable /\ RecRest
  /\ UNCHANGED <<row, live, others, task, edit, switch, runner, cert, norm, want, asked, used>>

\* Slip: an inbound that is not listed is taken for a panel that is not.
SkipMissing ==
  /\ rec.pc = "visit" /\ rec.seen = Gone /\ RecRest
  /\ UNCHANGED <<row, live, others, task, edit, switch, runner, cert, norm, want, asked, used>>
DisableMissing ==
  /\ rec.pc = "visit" /\ Reachable /\ rec.seen = Gone
  /\ row' = [row EXCEPT !.enabled = FALSE] /\ RecRest
  /\ UNCHANGED <<live, others, task, edit, switch, runner, cert, norm, want, asked, used>>

\* reconcileInboundConfig: nothing to do in sync; otherwise read the row again
\* and leave it to the next cycle when it has another stamp or was disabled.
Drifted(n, l) == n.stamp = 0 \/ ~InSync(n, l)
Reread(n) ==
  IF ~Drifted(n, rec.seen) \/ row.stamp # n.stamp \/ ~row.enabled THEN RecRest
  ELSE rec' = [rec EXCEPT !.pc = IF n.stamp = 0 THEN "adopt" ELSE "push",
                          !.n  = IF n.stamp = 0 THEN Adopted(row, rec.seen) ELSE row]

VisitNode ==
  /\ rec.pc = "visit" /\ rec.seen # Gone /\ Reread(rec.n)
  /\ UNCHANGED <<row, live, others, task, edit, switch, runner, cert, norm, want, asked, used>>

DriftPush ==
  /\ rec.pc = "push"
  /\ \/ Pushed(rec.n) /\ rec' = [rec EXCEPT !.pc = "capture"]
     \/ PushFails(rec.n) /\ rec' = [rec EXCEPT !.pc = "pending"]
  /\ UNCHANGED <<row, others, task, edit, switch, runner, cert, norm, want, asked>>

\* What the panel kept becomes the snapshot, unless it cannot be read.
Recapture ==
  /\ rec.pc = "capture"
  /\ \/ Succeeds(live) /\ rec' = [rec EXCEPT !.pc = "write", !.n = Captured(rec.n, live)]
     \/ Fails(live) /\ rec' = [rec EXCEPT !.pc = "pending"]
  /\ UNCHANGED <<row, others, task, edit, switch, runner, cert, norm, want, asked>>

DriftWrite ==
  /\ rec.pc = "write" /\ row' = Stored(rec.n) /\ RecRest
  /\ UNCHANGED <<live, others, task, edit, switch, runner, cert, norm, want, asked, used>>

\* Adopting an inbound that was never captured makes what the panel has the intent.
AdoptWrite ==
  /\ rec.pc = "adopt" /\ row' = Stored(rec.n) /\ RecRest
  /\ asked' = asked \cup {rec.n.cfg.port}
  /\ want' = IF row.stamp = 0 THEN rec.n.cfg ELSE want
  /\ UNCHANGED <<live, others, task, edit, switch, runner, cert, norm, used>>

\* markConfigSyncStatePending, with the copy read before the push.
DriftPending ==
  /\ rec.pc = "pending"
  /\ row' = IF rec.n.state = "pending" THEN row ELSE Stored([rec.n EXCEPT !.state = "pending"])
  /\ RecRest
  /\ UNCHANGED <<live, others, task, edit, switch, runner, cert, norm, want, asked, used>>
-----------------------------------------------------------------------------
\* A certificate is written inline into the configuration and pushed by a task.
CertRead ==
  /\ "cert" \in Parts /\ cert.pc = "idle" /\ row.stamp # 0 /\ ~row.cfg.cert
  /\ used.certs < MaxCerts /\ Use("certs")
  /\ cert' = [pc |-> "write", n |-> row]
  /\ UNCHANGED <<row, live, others, task, edit, switch, runner, rec, norm, want, asked>>

CertWrite ==
  /\ cert.pc = "write"
  /\ row' = Stored([cert.n EXCEPT !.cfg.cert = TRUE, !.stamp = FreshStamp, !.state = "pending"])
  /\ want' = [want EXCEPT !.cert = TRUE]
  /\ cert' = [pc |-> "enqueue", n |-> Blank]
  /\ UNCHANGED <<live, others, task, edit, switch, runner, rec, norm, asked, used>>

CertEnqueue ==
  /\ cert.pc = "enqueue"
  /\ task' = Enqueued("update") /\ cert' = Rest(cert)
  /\ UNCHANGED <<row, live, others, edit, switch, runner, rec, norm, want, asked, used>>

\* The normaliser lists the nodes and swaps a legacy body, if it is still there.
NormList ==
  /\ "normaliser" \in Parts /\ norm.pc = "idle"
  /\ row.stamp # 0 /\ Modern[row.cfg.body] # row.cfg.body
  /\ norm' = [pc |-> "swap", n |-> row]
  /\ UNCHANGED <<row, live, others, task, edit, switch, runner, rec, cert, want, asked, used>>

Modernised(n) == [n EXCEPT !.cfg.body = Modern[n.cfg.body], !.stamp = FreshStamp, !.state = "pending"]
\* Slip: the listed node is written, not the stream alone.
SwapWhole(n) == row' = Stored(Modernised(n)) /\ norm' = [pc |-> "read", n |-> Blank]
CompareAndSwapRealityStream(n) ==
  IF row.stamp # 0 /\ row.cfg.body = n.cfg.body /\ row.cfg.cert = n.cfg.cert
  THEN row' = Modernised(row) /\ norm' = [pc |-> "read", n |-> Blank]
  ELSE UNCHANGED row /\ norm' = Rest(norm)
NormSwap ==
  /\ norm.pc = "swap" /\ CompareAndSwapRealityStream(norm.n)
  /\ UNCHANGED <<live, others, task, edit, switch, runner, rec, cert, want, asked, used>>

NormRead ==
  /\ norm.pc = "read" /\ norm' = [pc |-> "push", n |-> row]
  /\ UNCHANGED <<row, live, others, task, edit, switch, runner, rec, cert, want, asked, used>>

NormPush ==
  /\ norm.pc = "push"
  /\ \/ Pushed(norm.n) /\ norm' = [norm EXCEPT !.pc = "confirm"]
     \/ PushFails(norm.n) /\ norm' = [pc |-> "enqueue", n |-> Blank]
  /\ UNCHANGED <<row, others, task, edit, switch, runner, rec, cert, want, asked>>

NormEnqueue ==
  /\ norm.pc = "enqueue"
  /\ task' = Enqueued("update") /\ norm' = Rest(norm)
  /\ UNCHANGED <<row, live, others, edit, switch, runner, rec, cert, want, asked, used>>

\* ConfirmAppliedConfig: synced, if the row still asks for what was pushed.
ConfirmAppliedConfig ==
  /\ norm.pc = "confirm" /\ norm' = Rest(norm)
  /\ row' = IF row.cfg = norm.n.cfg /\ row.enabled = norm.n.enabled
            THEN [row EXCEPT !.state = "synced"] ELSE row
  /\ UNCHANGED <<live, others, task, edit, switch, runner, rec, cert, want, asked, used>>
-----------------------------------------------------------------------------
\* The operator at the upstream panel.
Operator(after) ==
  /\ live # Gone /\ used.drifts < MaxDrifts /\ Use("drifts") /\ live' = after
  /\ UNCHANGED <<row, others, task, edit, switch, runner, rec, cert, norm, want, asked>>
OperatorEdits ==
  "operator" \in Parts /\ \E c \in Drifts : Operator([live EXCEPT !.cfg = Applied(c, TRUE).cfg])
OperatorSwitches == "operator" \in Parts /\ Operator(Switched(~live.enable))
OperatorDeletes  == "remover" \in Parts /\ Operator(Gone)

\* The last other inbound is removed from the panel, or a first one added.
OperatorElsewhere ==
  /\ "remover" \in Parts /\ used.drifts < MaxDrifts /\ Use("drifts") /\ others' = ~others
  /\ UNCHANGED <<row, live, task, edit, switch, runner, rec, cert, norm, want, asked>>
-----------------------------------------------------------------------------
NInit ==
  /\ \E c \in Forms :
       /\ live = Applied(c, TRUE) /\ want = live.cfg /\ asked = {c.port}
       /\ \E s \in FirstStamps :
            row = [cfg |-> live.cfg, stamp |-> s, state |-> IF s = 0 THEN "" ELSE "synced", enabled |-> TRUE]
  /\ others \in BOOLEAN
  /\ task = [type \in {"update", "switch"} |-> "none"]
  /\ edit = [h \in Handlers |-> [pc |-> "idle", n |-> Blank]]
  /\ switch = [t \in Togglers |-> [pc |-> "idle", enable |-> FALSE]]
  /\ runner = [pc |-> "idle", type |-> "update", n |-> Blank]
  /\ rec = [pc |-> "idle", n |-> Blank, seen |-> Gone, others |-> FALSE]
  /\ cert = [pc |-> "idle", n |-> Blank] /\ norm = cert
  /\ used = [b \in {"edits", "toggles", "certs", "faults", "drifts"} |-> 0]

EditStep(h)   == AdminPush(h) \/ AdminMarkPending(h) \/ AdminEnqueue(h)
SwitchStep(t) == SwitchPush(t) \/ SwitchEnqueue(t)
RunnerStep == \/ \E type \in {"update", "switch"} : TaskClaim(type)
              \/ TaskRead \/ TaskPush \/ TaskCheck \/ TaskFlip \/ TaskGaveUp \/ TaskMarkFailed
ReconcileStep == \/ Prefetch \/ LoadInbound \/ ListNodes \/ SkipUnreachable \/ DisableMissing \/ VisitNode
                 \/ DriftPush \/ Recapture \/ DriftWrite \/ AdoptWrite \/ DriftPending
CertStep == CertRead \/ CertWrite \/ CertEnqueue
NormStep == NormList \/ NormSwap \/ NormRead \/ NormPush \/ NormEnqueue \/ ConfirmAppliedConfig

NNext ==
  \/ \E h \in Handlers, c \in Forms, enable \in BOOLEAN : AdminEdit(h, c, enable)
  \/ \E t \in Togglers, enable \in BOOLEAN : SetEnabled(t, enable)
  \/ \E h \in Handlers : EditStep(h)
  \/ \E t \in Togglers : SwitchStep(t)
  \/ RunnerStep \/ ReconcileStep \/ CertStep \/ NormStep
  \/ OperatorEdits \/ OperatorSwitches \/ OperatorDeletes \/ OperatorElsewhere

NSpec == NInit /\ [][NNext]_nvars

\* Handlers and background loops go on; the loops are tickers that never end.
NFair == /\ \A h \in Handlers : WF_nvars(EditStep(h))
         /\ \A t \in Togglers : WF_nvars(SwitchStep(t))
         /\ WF_nvars(RunnerStep) /\ WF_nvars(ReconcileStep)
         /\ WF_nvars(CertStep) /\ WF_nvars(NormStep)
NLiveSpec == NSpec /\ NFair
-----------------------------------------------------------------------------
\* The port of a captured node is one the admin chose, or the one it was first
\* captured with: Capture (inboundcfg.go) never turns a port an operator set on
\* the panel into the desired one.
PortIsIntended == row.stamp # 0 => row.cfg.port \in asked

\* What the row asks for is what was last asked of it, up to the panel's and the
\* normaliser's rewriting of the body: no stale copy undoes an admin's edit.
Meaning(c) == [c EXCEPT !.body = Modern[PanelForm[c.body]]]
NoEditReverted == Meaning(row.cfg) = Meaning(want)

\* The normaliser changes the fingerprint and nothing else, also when an edit
\* or a certificate landed after it listed the node.
NormaliserKeepsTheRest ==
  [][norm' # norm => Meaning(row'.cfg) = Meaning(row.cfg)]_nvars

\* Once edits, failures and drift end, the panel keeps what the row of an enabled
\* node asks for, although it stores its own form of what it is sent.
DesiredReachesPanel == <>[](live # Gone /\ row.enabled => InSync(row, live))

\* A node whose inbound is gone is disabled by reconcile, also after lost listings
\* and a switch back on, unless nothing else is left on the panel: checkNodes takes
\* a panel that lists nothing for one that cannot be reached (reconcile.go:566, 850).
MissingIsDisabled == <>[](live = Gone /\ others => ~row.enabled)

\* What the comment of checkNodes says (reconcile.go:827): only an inbound that
\* disappeared has its node disabled.  No run lists it, since it holds only without
\* "ownerships" among Parts: after a failed listing, fetching one inbound makes
\* every other inbound of the panel look missing.
LiveNodeKept == [][rec' # rec /\ row.enabled /\ ~row'.enabled => live = Gone]_nvars

=============================================================================
