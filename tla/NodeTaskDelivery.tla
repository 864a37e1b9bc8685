-------------------------- MODULE NodeTaskDelivery --------------------------
(***************************************************************************)
(* NodeTasks composed with what drives it: the sync exchange of            *)
(* nodesync.go, the agent's durable journal and outbox as the control      *)
(* plane relies on them (docs/adr/0031, 0032; the agent lives in another   *)
(* repository), lost requests and replies, an agent that crashes while a   *)
(* task runs, and a control plane restored from a backup.                  *)
(*                                                                         *)
(* A sync request carries every result not yet acknowledged.  The handler  *)
(* first commits the batch, then offers tasks, then replies; a failure in  *)
(* between leaves the committed part in place and the agent repeats the    *)
(* whole batch.                                                            *)
(***************************************************************************)
EXTENDS NodeTasks

CONSTANTS
  Slots,         \* how many requests of one agent the server may hold
  MaxRestores,   \* bound on restores, for the model checker
  MaxCrashes     \* bound on agent crashes, for the model checker

VARIABLES
  journal,   \* what each agent durably knows of each task
  outbox,    \* results an agent has not seen acknowledged
  request,   \* the sync requests the server holds for each agent
  reply,     \* the reply on its way back, or none
  minted,    \* identifiers ever issued; a fresh issuer never repeats one
  backup,    \* the saved tables
  restores, crashes

net   == <<request, reply>>
agent == <<journal, outbox, crashes>>
saved == <<minted, backup, restores>>
dvars == <<vars, net, agent, saved>>

Idle == [stage |-> "idle"]
NoneHeld == [state |-> "none"]
Journal == [state : {"received", "running"}, request : Request]
           \cup [state : {"done"}, request : Request, report : Report]
-----------------------------------------------------------------------------
DInit ==
  /\ Init
  /\ journal = [a \in Agents |-> [t \in TaskIds |-> NoneHeld]]
  /\ outbox = [a \in Agents |-> {}]
  /\ request = [a \in Agents |-> [s \in Slots |-> Idle]]
  /\ reply = [a \in Agents |-> Idle]
  /\ minted = {}
  /\ backup = [task |-> task, evidence |-> evidence]
  /\ restores = 0 /\ crashes = 0

\* Slip: identifiers come from the database, which a restore takes back.
CreateReused(a, t, req) ==
  /\ t \notin Stored
  /\ req.notAfter # 0 => now < req.notAfter
  /\ CreateOrGet(a, t, req)
  /\ minted' = minted \cup {t}
  /\ UNCHANGED <<net, agent, backup, restores>>

\* Producers mint a fresh identifier and snapshot a deadline still to come.
Create(a, t, req) ==
  /\ t \notin minted
  /\ req.notAfter # 0 => now < req.notAfter
  /\ CreateOrGet(a, t, req)
  /\ minted' = minted \cup {t}
  /\ UNCHANGED <<net, agent, backup, restores>>

Done(a) == {t \in TaskIds : journal[a][t].state = "done"}

Waiting(a) == reply[a] # Idle \/ \E s \in Slots : request[a][s] # Idle /\ request[a][s].waiting

\* The agent reports its whole outbox; it waits for one exchange at a time, but
\* the server may still hold earlier requests the agent has given up on.
Send(a) ==
  /\ ~Waiting(a)
  /\ \E s \in Slots :
       /\ request[a][s] = Idle
       /\ request' = [request EXCEPT ![a][s] =
            [stage |-> "sent", waiting |-> TRUE,
             results |-> [t \in outbox[a] |-> journal[a][t].report]]]
  /\ UNCHANGED <<vars, reply, agent, saved>>

\* ingestReport, under the agent's lock: commit the batch, or answer non-2xx
\* and change nothing.  An empty batch is accepted without a transaction.
Ingest(a) ==
  /\ \A s \in Slots : request[a][s].stage # "ingested"
  /\ \E s \in Slots :
       /\ request[a][s].stage = "sent"
       /\ LET batch == request[a][s].results
              go    == request' = [request EXCEPT ![a][s].stage = "ingested"]
          IN \/ DOMAIN batch = {} /\ go /\ UNCHANGED vars
             \/ DOMAIN batch # {} /\ CompleteBatch(a, batch) /\ go
             \/ /\ DOMAIN batch # {} /\ CompleteVerdict(a, batch) # "accept"
                /\ request' = [request EXCEPT ![a][s] = Idle] /\ UNCHANGED vars
  /\ UNCHANGED <<reply, agent, saved>>

\* offerTasks, then the 2xx: the acknowledgement and the tasks travel together,
\* to nobody when the agent has given up waiting.
Respond(a) ==
  \E s \in Slots, budget \in Budgets, S \in SUBSET TaskIds :
    /\ request[a][s].stage = "ingested"
    /\ OfferTasks(a, Kinds, TRUE, budget, S)
    /\ reply' = IF request[a][s].waiting
                THEN [reply EXCEPT ![a] =
                       [stage |-> "reply", acked |-> DOMAIN request[a][s].results,
                        tasks |-> [t \in S |-> task[t].request]]]
                ELSE reply
    /\ request' = [request EXCEPT ![a][s] = Idle]
    /\ UNCHANGED <<agent, saved>>

\* The agent times out, the handler fails at any point after the request was
\* sent, or the reply is lost.  Whatever was committed stays.
Fail(a) ==
  /\ \/ \E s \in Slots :
          /\ request[a][s] # Idle
          /\ \/ request' = [request EXCEPT ![a][s] = Idle]
             \/ request[a][s].waiting /\ request' = [request EXCEPT ![a][s].waiting = FALSE]
          /\ UNCHANGED reply
     \/ reply[a] # Idle /\ reply' = [reply EXCEPT ![a] = Idle] /\ UNCHANGED request
  /\ UNCHANGED <<vars, agent, saved>>

\* The agent drops what was acknowledged, journals a task it has not seen, and
\* answers one it has already ended with the recorded result again.
Receive(a) ==
  /\ reply[a] # Idle
  /\ LET known == DOMAIN reply[a].tasks \cap Done(a)
         new   == {t \in DOMAIN reply[a].tasks : journal[a][t] = NoneHeld}
     IN /\ outbox' = [outbox EXCEPT ![a] = (@ \ reply[a].acked) \cup known]
        /\ journal' = [journal EXCEPT ![a] = [t \in TaskIds |->
             IF t \in new THEN [state |-> "received", request |-> reply[a].tasks[t]]
             ELSE @[t]]]
  /\ reply' = [reply EXCEPT ![a] = Idle]
  /\ UNCHANGED <<vars, request, crashes, saved>>

\* An authorization is live while the deadline is ahead on the control plane's
\* own clock (the agent bounds that clock from above before it starts).
Live(req) == req.notAfter = 0 \/ now < req.notAfter

Start(a, t) ==
  /\ journal[a][t].state = "received" /\ Live(journal[a][t].request)
  /\ journal' = [journal EXCEPT ![a][t].state = "running"]
  /\ UNCHANGED <<vars, net, outbox, crashes, saved>>

End(a, t, o) ==
  /\ journal' = [journal EXCEPT ![a][t] =
       [state |-> "done", request |-> @.request,
        report |-> [input |-> @.request.input, notAfter |-> @.request.notAfter, outcome |-> o]]]
  /\ outbox' = [outbox EXCEPT ![a] = @ \cup {t}]
  /\ UNCHANGED <<vars, net, saved>>

\* A handler ends with success or failure, or a received task expires unstarted.
Finish(a, t) ==
  /\ \/ journal[a][t].state = "running"
        /\ \E ok \in BOOLEAN, b \in Bodies :
             End(a, t, [ok |-> ok, indeterminate |-> FALSE, body |-> b])
     \/ journal[a][t].state = "received" /\ ~Live(journal[a][t].request)
        /\ \E b \in Bodies : End(a, t, [ok |-> FALSE, indeterminate |-> FALSE, body |-> b])
  /\ UNCHANGED crashes

\* A crash between the claim and the durable result: nobody can say what the
\* side effect did, and recovery records exactly that.
Crash(a, t) ==
  /\ crashes < MaxCrashes /\ crashes' = crashes + 1
  /\ journal[a][t].state = "running"
  /\ \E b \in Bodies : End(a, t, [ok |-> FALSE, indeterminate |-> TRUE, body |-> b])

Backup ==
  /\ restores < MaxRestores
  /\ backup' = [task |-> task, evidence |-> evidence]
  /\ UNCHANGED <<vars, net, agent, minted, restores>>

\* Back to the saved tables; the evidence table may be the saved one or, when
\* only task rows are brought back, the current one.  The requests being served
\* die with the process.
Restore ==
  /\ restores < MaxRestores /\ restores' = restores + 1
  /\ task' = backup.task /\ evidence' \in {backup.evidence, evidence}
  /\ request' = [a \in Agents |-> [s \in Slots |-> Idle]]
  /\ UNCHANGED <<agents, now, reply, agent, minted, backup>>

TickD == Tick /\ UNCHANGED <<net, agent, saved>>

AgentStep(a) ==
  \/ Send(a) \/ Receive(a)
  \/ \E t \in TaskIds : Start(a, t) \/ Finish(a, t) \/ Crash(a, t)
ServerStep(a) ==
  \/ Ingest(a) \/ Respond(a)
  \/ \E t \in TaskIds, req \in Requests : Create(a, t, req)

DNext ==
  \/ \E a \in Agents : AgentStep(a) \/ ServerStep(a) \/ Fail(a)
  \/ Backup \/ Restore \/ TickD

DSpec == DInit /\ [][DNext]_dvars

\* The agent polls forever and its handlers end; an exchange tried again and
\* again succeeds now and then.  Producers, failures and restores owe nothing.
Commit(a) == Ingest(a) /\ \E s \in Slots : request[a][s].stage = "sent" /\ request[a][s].waiting
                                         /\ request'[a][s].stage = "ingested"
Answer(a) == Respond(a) /\ reply' # reply
Fairness ==
  \A a \in Agents :
    /\ WF_dvars(Send(a)) /\ WF_dvars(Ingest(a)) /\ SF_dvars(Commit(a)) /\ WF_dvars(Respond(a))
    /\ SF_dvars(Answer(a)) /\ SF_dvars(Receive(a))
    /\ \A t \in TaskIds : WF_dvars(Start(a, t)) /\ WF_dvars(Finish(a, t))

FairDSpec == DSpec /\ Fairness
-----------------------------------------------------------------------------
\* What the control plane calls an outcome is the outcome the agent recorded:
\* no loss, repetition, crash or restore makes it settle a task on its own.
OutcomeIsTheAgents ==
  \A t \in Stored : task[t].status \in Terminal =>
    LET j == journal[task[t].agent][t]
    IN j.state = "done" /\ j.report = task[t].report

\* A result waiting in the outbox is never answered with a conflict.  The batch
\* is accepted or refused as a whole and before configuration is served, so
\* one conflicting result would cut the agent off for good.
OutboxNeverConflicts ==
  \A a \in agents : \A t \in outbox[a] :
    CompleteVerdict(a, [u \in {t} |-> journal[a][t].report]) # "conflict"

\* What the agent may forget, the control plane has on record: a result
\* leaves the outbox only once committed (until a restore loses the record).
AcknowledgedIsHeld ==
  restores = 0 => \A a \in agents : \A t \in Done(a) \ outbox[a] :
    HeldBy(a, t, journal[a][t].report)

\* A retry is created only where the first attempt is known to have failed: it
\* never repeats a side effect that happened or may have happened.
RetryOnlyAfterFailure ==
  \A t \in Stored : task[t].request.supersedes # NoTaskId =>
    LET j == journal[task[t].agent][task[t].request.supersedes]
    IN j.state = "done" /\ ~j.report.outcome.ok /\ ~j.report.outcome.indeterminate

\* A task whose result is on record is not offered again, and evidence is
\* never promoted to an outcome: not even when a restore brings back the row
\* as it was before its dispatch was closed.
AnsweredStaysPut ==
  [][restores' = restores =>
      \A a \in agents : \A t \in Owned(a) \cap Done(a) :
        HeldBy(a, t, journal[a][t].report) =>
          task'[t].offered = task[t].offered /\ task'[t].status = task[t].status]_dvars

\* Every task ends: it gets its outcome, is closed, or is fenced by evidence of
\* one, although older offered tasks are offered first each round and a restore
\* may leave an older task fenced and open for good, which Offer must pass over.
EveryTaskSettles ==
  \A t \in TaskIds :
    t \in Stored ~> \/ t \notin Stored \/ task[t].status \in Terminal
                    \/ task[t].closed # "open" \/ \E a \in Agents : t \in Fenced(a)

\* Every recorded result is acknowledged in the end, whatever was lost on the
\* way, while evidence has room.
OutboxDrains ==
  \A a \in Agents : \A t \in TaskIds : t \in outbox[a] ~> t \notin outbox[a]
=============================================================================
