----------------------- MODULE NodeTaskDelivery_proofs -----------------------
(***************************************************************************)
(* What the exchange with the agents promises for every number of agents,  *)
(* tasks and requests, every loss, delay and crash, and any number of      *)
(* restores.  The tables of NodeTasks are changed by the same operations   *)
(* here, so the lemmas about those are used again; new is that a restore   *)
(* puts old tables next to a journal that went on.                         *)
(***************************************************************************)
EXTENDS NodeTaskDelivery, NodeTasks_proofs

\* The server's side of one exchange, and the reply on its way.
HeldRequest == [stage : {"sent", "ingested"}, waiting : BOOLEAN, results : AnyBatch]
Offered     == UNION {[S -> Request] : S \in SUBSET TaskIds}
HeldReply   == [stage : {"reply"}, acked : SUBSET TaskIds, tasks : Offered]

JournalType ==
  /\ journal \in [Agents -> [TaskIds -> Journal \cup {NoneHeld}]]
  /\ outbox \in [Agents -> SUBSET TaskIds]
  /\ \A a \in Agents : outbox[a] \subseteq Done(a)

NetType ==
  /\ request \in [Agents -> [Slots -> HeldRequest \cup {Idle}]]
  /\ reply \in [Agents -> HeldReply \cup {Idle}]

SavedType ==
  /\ minted \in SUBSET TaskIds
  /\ backup.task \in [TaskIds -> Row \cup {NoRow}]
  /\ backup.evidence \in [Agents -> [TaskIds -> Evidence \cup {NoEvidence}]]
  /\ restores \in Nat

DTypeOK == TypeOK /\ JournalType /\ NetType /\ SavedType
-----------------------------------------------------------------------------
\* Where a task is named: in its row, in the saved row, in the agent's journal,
\* or in a reply on its way.
Claims(a, t, q) ==
  \/ t \in Stored /\ task[t].agent = a /\ task[t].request = q
  \/ backup.task[t] # NoRow /\ backup.task[t].agent = a /\ backup.task[t].request = q
  \/ journal[a][t] # NoneHeld /\ journal[a][t].request = q
  \/ reply[a] # Idle /\ t \in DOMAIN reply[a].tasks /\ reply[a].tasks[t] = q

\* An identifier names one task for good, although a restore takes its row back:
\* wherever it is named, it is the same agent's and the same request.
OneIdentity ==
  \A t \in TaskIds : \A a \in Agents, q \in Request : Claims(a, t, q) =>
    /\ t \in minted
    /\ \A b \in Agents, p \in Request : Claims(b, t, p) => b = a /\ p = q

\* The agent's own word: what its journal says happened.
Said(a, t, r) == t \in Done(a) /\ journal[a][t].report = r

\* An answer is about the request the journal holds.
AnswersFit ==
  \A a \in Agents : \A t \in Done(a) :
    /\ journal[a][t].report.input = journal[a][t].request.input
    /\ journal[a][t].report.notAfter = journal[a][t].request.notAfter

\* Every result on the way, every piece of evidence and every outcome, saved or
\* current, is the agent's own word.
ResultsSaid ==
  \A a \in Agents, s \in Slots : request[a][s] # Idle =>
    \A t \in DOMAIN request[a][s].results : Said(a, t, request[a][s].results[t])
EvidenceSaid(E) ==
  \A a \in Agents, t \in TaskIds : E[a][t] # NoEvidence => Said(a, t, E[a][t].report)
EndsSaid(T) ==
  \A t \in TaskIds : T[t].status \in Terminal =>
    /\ Said(T[t].agent, t, T[t].report)
    /\ T[t].status = ResultStatus(T[t].report.outcome)

Answers ==
  /\ AnswersFit /\ ResultsSaid
  /\ EvidenceSaid(evidence) /\ EvidenceSaid(backup.evidence)
  /\ EndsSaid(task) /\ EndsSaid(backup.task)

\* Until something was restored: what was ingested, what a reply acknowledges
\* and what has left the outbox is on record.
Acknowledged ==
  restores = 0 => \A a \in Agents :
    /\ \A s \in Slots : request[a][s].stage = "ingested" =>
         \A t \in DOMAIN request[a][s].results : HeldBy(a, t, request[a][s].results[t])
    /\ reply[a] # Idle =>
         \A t \in reply[a].acked : t \in Done(a) /\ HeldBy(a, t, journal[a][t].report)
    /\ \A t \in Done(a) \ outbox[a] : HeldBy(a, t, journal[a][t].report)

\* What NodeTasks promises of the rows and of the evidence, said of saved tables:
\* a retry follows a failure, a key names one task, and both keep their caps.
RetriesIn(T) ==
  \A t, s \in TaskIds : T[t].status # "absent" /\ T[t].request.supersedes = s =>
    T[s].agent = T[t].agent /\ T[s].status = "failed"
KeysIn(T) ==
  \A t, u \in TaskIds :
    /\ T[t].status # "absent" /\ T[u].status # "absent" /\ T[t].agent = T[u].agent
    /\ T[t].request.key = T[u].request.key /\ T[t].request.key # NoKey
    => t = u
RoomIn(T) ==
  \A a \in Agents :
    Cardinality({t \in TaskIds : T[t].status \in Active /\ T[t].agent = a}) <= MaxActive
EvidenceRoomIn(E) ==
  \A a \in Agents : Cardinality({t \in TaskIds : E[a][t] # NoEvidence}) <= MaxEvidence

RowsIn(T) == RetriesIn(T) /\ KeysIn(T) /\ RoomIn(T)
Tables ==
  /\ RetriesFailed /\ OneTaskPerKey /\ WithinQuotas
  /\ RowsIn(backup.task) /\ EvidenceRoomIn(backup.evidence)
-----------------------------------------------------------------------------
LEMMA EmptyRow == \A r \in Row \cup {NoRow} : r.status = "absent" <=> r = NoRow
BY RowIsNotEmpty DEF NoRow

\* The operations as the exchange calls them: a task under a fresh identifier,
\* the offers of a reply, or the results of one request.
Exchange(a) ==
  \/ \E t \in TaskIds \ minted, req \in Requests : CreateOrGet(a, t, req) /\ t \in minted'
  \/ \E budget \in Budgets, S \in SUBSET TaskIds : OfferTasks(a, Kinds, TRUE, budget, S)
  \/ \E s \in Slots : request[a][s].stage = "sent" /\ CompleteBatch(a, request[a][s].results)

LEMMA HeldResults ==
  ASSUME NetType, NEW a \in Agents, NEW s \in Slots, request[a][s] # Idle
  PROVE  request[a][s].results \in AnyBatch
BY DEF NetType, HeldRequest

LEMMA ExchangeOperates ==
  ASSUME NetType, NEW a \in Agents, Exchange(a)
  PROVE  Operation(a)
<1>1. \A s \in Slots : request[a][s].stage = "sent" => request[a][s].results \in AnyBatch
  BY HeldResults DEF Idle
<1> QED BY <1>1 DEF Exchange, Operation

\* A step does one of three things to the tables: an operation of NodeTasks,
\* nothing (they may be saved meanwhile), or a restore.
LEMMA TablesNext ==
  ASSUME [DNext]_dvars
  PROVE  \/ /\ \E a \in Agents : Exchange(a)
            /\ backup' = backup /\ restores' = restores
         \/ /\ task' = task /\ evidence' = evidence /\ agents' = agents
            /\ now' \in {now, now + 1} /\ restores' = restores
            /\ backup' \in {backup, [task |-> task, evidence |-> evidence]}
         \/ Restore
<1>1. ASSUME NEW a \in Agents, AgentStep(a) \/ Fail(a)
      PROVE  UNCHANGED <<task, evidence, agents, now, backup, restores>>
  <2>1. ASSUME NEW t \in TaskIds, Start(a, t) \/ Finish(a, t) \/ Crash(a, t)
        PROVE  UNCHANGED <<task, evidence, agents, now, backup, restores>>
    BY <2>1 DEF Start, Finish, Crash, End, vars, saved
  <2>2. ASSUME Send(a) \/ Receive(a) \/ Fail(a)
        PROVE  UNCHANGED <<task, evidence, agents, now, backup, restores>>
    BY <2>2 DEF Send, Receive, Fail, vars, saved
  <2> QED BY <1>1, <2>1, <2>2 DEF AgentStep
<1>2. ASSUME NEW a \in Agents, Ingest(a)
      PROVE  \/ UNCHANGED <<task, evidence, agents, now, backup, restores>>
             \/ Exchange(a) /\ UNCHANGED <<backup, restores>>
  <2>1. PICK s \in Slots :
          /\ request[a][s].stage = "sent"
          /\ UNCHANGED vars \/ CompleteBatch(a, request[a][s].results)
    BY <1>2 DEF Ingest
  <2>2. UNCHANGED <<backup, restores>>
    BY <1>2 DEF Ingest, saved
  <2> QED BY <2>1, <2>2 DEF Exchange, vars
<1>3. ASSUME NEW a \in Agents, Respond(a)
      PROVE  Exchange(a) /\ UNCHANGED <<backup, restores>>
  BY <1>3 DEF Respond, Exchange, saved
<1>4. ASSUME NEW a \in Agents, NEW t \in TaskIds, NEW req \in Requests, Create(a, t, req)
      PROVE  Exchange(a) /\ UNCHANGED <<backup, restores>>
  BY <1>4 DEF Create, Exchange
<1>5. CASE Backup
  BY <1>5 DEF Backup, vars
<1>6. CASE TickD
  BY <1>6 DEF TickD, Tick, saved
<1>7. CASE UNCHANGED dvars
  BY <1>7 DEF dvars, vars, saved
<1>8. CASE Restore
  BY <1>8
<1> QED BY <1>1, <1>2, <1>3, <1>4, <1>5, <1>6, <1>7, <1>8 DEF DNext, ServerStep
-----------------------------------------------------------------------------
\* The end of a task as the agent journals it.
EndOf(q, o) ==
  [state |-> "done", request |-> q,
   report |-> [input |-> q.input, notAfter |-> q.notAfter, outcome |-> o]]

\* A task that was received or runs ends; everything else stays.
Ends(a, t) ==
  \E o \in Outcome :
    /\ journal[a][t].state \in {"received", "running"}
    /\ journal' = [journal EXCEPT ![a][t] = EndOf(journal[a][t].request, o)]
    /\ outbox' = [outbox EXCEPT ![a] = @ \cup {t}]

LEMMA EndsOnce ==
  ASSUME JournalType, NEW a \in Agents, NEW t \in TaskIds, Finish(a, t) \/ Crash(a, t)
  PROVE  Ends(a, t) /\ UNCHANGED <<request, reply, minted, task, backup>>
<1>1. ASSUME NEW o \in Outcome, journal[a][t].state \in {"received", "running"}, End(a, t, o)
      PROVE  Ends(a, t) /\ UNCHANGED <<request, reply, minted, task, backup>>
  BY <1>1 DEF End, Ends, EndOf, JournalType, vars, net, saved
<1>2. \A ok, ind \in BOOLEAN, b \in Bodies : [ok |-> ok, indeterminate |-> ind, body |-> b] \in Outcome
  BY DEF Outcome
<1> QED BY <1>1, <1>2 DEF Finish, Crash

LEMMA JournalRow ==
  ASSUME JournalType, NEW a \in Agents, NEW t \in TaskIds
  PROVE  /\ journal[a][t].state \in {"received", "running"} =>
              journal[a][t].request \in Request /\ journal[a][t] # NoneHeld /\ t \notin Done(a)
         /\ t \in Done(a) => /\ journal[a][t].request \in Request
                             /\ journal[a][t].report \in Report /\ journal[a][t] # NoneHeld
BY DEF JournalType, Journal, NoneHeld, Done

\* What one step does to one line of a journal: nothing, or the next of its four
\* stages.
JournalStep(a, t) ==
  \/ journal'[a][t] = journal[a][t]
  \/ /\ journal[a][t] = NoneHeld /\ reply[a] # Idle /\ t \in DOMAIN reply[a].tasks
     /\ journal'[a][t] = [state |-> "received", request |-> reply[a].tasks[t]]
  \/ /\ journal[a][t].state = "received"
     /\ journal'[a][t] = [journal[a][t] EXCEPT !.state = "running"]
  \/ \E o \in Outcome :
       /\ journal[a][t].state \in {"received", "running"}
       /\ journal'[a][t] = EndOf(journal[a][t].request, o)

LEMMA JournalNext ==
  ASSUME JournalType, [DNext]_dvars, NEW a \in Agents, NEW t \in TaskIds
  PROVE  JournalStep(a, t)
<1>1. ASSUME NEW b \in Agents, Receive(b) PROVE JournalStep(a, t)
  BY <1>1 DEF JournalStep, Receive, JournalType
<1>2. ASSUME NEW b \in Agents, NEW u \in TaskIds, Start(b, u) PROVE JournalStep(a, t)
  BY <1>2 DEF JournalStep, Start, JournalType
<1>3. ASSUME NEW b \in Agents, NEW u \in TaskIds, Finish(b, u) \/ Crash(b, u) PROVE JournalStep(a, t)
  <2>1. Ends(b, u)
    BY <1>3, EndsOnce
  <2> QED BY <2>1 DEF JournalStep, Ends, JournalType
<1>4. ASSUME NEW b \in Agents, Send(b) \/ Fail(b) \/ ServerStep(b) PROVE journal' = journal
  BY <1>4 DEF Send, Fail, ServerStep, Ingest, Respond, Create, agent
<1>5. Backup \/ Restore \/ TickD \/ UNCHANGED dvars => journal' = journal
  BY DEF Backup, Restore, TickD, dvars, agent
<1> QED BY <1>1, <1>2, <1>3, <1>4, <1>5 DEF DNext, AgentStep, JournalStep

\* What an agent has said it never unsays.
LEMMA SaidForGood ==
  ASSUME JournalType, [DNext]_dvars, NEW a \in Agents, NEW t \in Done(a)
  PROVE  t \in Done(a)' /\ journal'[a][t] = journal[a][t]
<1>1. t \in TaskIds /\ journal[a][t].state = "done" /\ journal[a][t] # NoneHeld
  BY DEF Done, NoneHeld
<1>2. journal'[a][t] = journal[a][t]
  BY <1>1, JournalNext DEF JournalStep, NoneHeld
<1> QED BY <1>1, <1>2 DEF Done
-----------------------------------------------------------------------------
LEMMA TablesTyped ==
  ASSUME DTypeOK, [DNext]_dvars
  PROVE  TypeOK'
<1>1. CASE Restore
  <2>1. task' = backup.task /\ evidence' \in {backup.evidence, evidence} /\ agents' = agents /\ now' = now
    BY <1>1 DEF Restore
  <2> QED BY <2>1 DEF DTypeOK, TypeOK, SavedType
<1>2. CASE task' = task /\ evidence' = evidence /\ agents' = agents /\ now' \in {now, now + 1}
  BY <1>2 DEF DTypeOK, TypeOK
<1>3. ASSUME NEW a \in Agents, Exchange(a) PROVE TypeOK'
  BY <1>3, ExchangeOperates, OperationTyped DEF DTypeOK
<1> QED BY <1>1, <1>2, <1>3, TablesNext

LEMMA SavedTyped ==
  ASSUME DTypeOK, [DNext]_dvars
  PROVE  SavedType'
<1>1. backup' \in {backup, [task |-> task, evidence |-> evidence]} /\ restores' \in {restores, restores + 1}
  BY TablesNext DEF Restore
<1>2. minted' \in SUBSET TaskIds
  <2>1. ASSUME NEW a \in Agents, NEW t \in TaskIds, NEW req \in Requests, Create(a, t, req)
        PROVE  minted' = minted \cup {t}
    BY <2>1 DEF Create
  <2>2. ASSUME NEW a \in Agents, AgentStep(a) \/ Fail(a) \/ Ingest(a) \/ Respond(a)
        PROVE  minted' = minted
    <3>1. ASSUME NEW t \in TaskIds, Finish(a, t) \/ Crash(a, t) PROVE minted' = minted
      BY <3>1, EndsOnce DEF DTypeOK
    <3> QED BY <2>2, <3>1 DEF AgentStep, Send, Receive, Start, Fail, Ingest, Respond, saved
  <2>3. Backup \/ Restore \/ TickD \/ UNCHANGED dvars => minted' = minted
    BY DEF Backup, Restore, TickD, dvars, saved
  <2> QED BY <2>1, <2>2, <2>3 DEF DNext, ServerStep, DTypeOK, SavedType
<1> QED BY <1>1, <1>2 DEF SavedType, DTypeOK, TypeOK

LEMMA EndType ==
  ASSUME NEW q \in Request, NEW o \in Outcome
  PROVE  /\ EndOf(q, o) \in Journal /\ EndOf(q, o).state = "done" /\ EndOf(q, o).request = q
         /\ EndOf(q, o).report.input = q.input /\ EndOf(q, o).report.notAfter = q.notAfter
<1>1. [input |-> q.input, notAfter |-> q.notAfter, outcome |-> o] \in Report
  BY DEF Request, Report
<1> QED BY <1>1 DEF EndOf, Journal

\* The whole of a reply's tasks are requests.
LEMMA ReplyTasks ==
  ASSUME NetType, NEW a \in Agents, reply[a] # Idle
  PROVE  /\ reply[a].acked \subseteq TaskIds /\ DOMAIN reply[a].tasks \subseteq TaskIds
         /\ \A t \in DOMAIN reply[a].tasks : reply[a].tasks[t] \in Request
<1>1. reply[a].tasks \in Offered /\ reply[a].acked \subseteq TaskIds
  BY DEF NetType, HeldReply
<1> QED BY <1>1 DEF Offered

LEMMA JournalTyped ==
  ASSUME JournalType, NetType, [DNext]_dvars
  PROVE  JournalType'
<1>1. ASSUME NEW a \in Agents, NEW t \in TaskIds
      PROVE  journal'[a][t] \in Journal \cup {NoneHeld}
  <2>1. CASE journal'[a][t] = journal[a][t]
    BY <2>1 DEF JournalType
  <2>2. CASE /\ reply[a] # Idle /\ t \in DOMAIN reply[a].tasks
             /\ journal'[a][t] = [state |-> "received", request |-> reply[a].tasks[t]]
    <3>1. reply[a].tasks[t] \in Request
      BY <2>2, ReplyTasks
    <3> QED BY <2>2, <3>1 DEF Journal
  <2>3. CASE journal[a][t].state = "received" /\ journal'[a][t] = [journal[a][t] EXCEPT !.state = "running"]
    <3>1. journal[a][t] \in [state : {"received", "running"}, request : Request]
      BY <2>3 DEF JournalType, Journal, NoneHeld
    <3> QED BY <2>3, <3>1 DEF Journal
  <2>4. ASSUME NEW o \in Outcome, journal[a][t].state \in {"received", "running"},
               journal'[a][t] = EndOf(journal[a][t].request, o)
        PROVE  journal'[a][t] \in Journal
    BY <2>4, JournalRow, EndType
  <2> QED BY <2>1, <2>2, <2>3, <2>4, JournalNext DEF JournalStep
<1>2. journal' \in [Agents -> [TaskIds -> Journal \cup {NoneHeld}]]
  <2> DEFINE Shaped == journal' = [a \in Agents |-> [t \in TaskIds |-> journal'[a][t]]]
  <2>1. ASSUME NEW b \in Agents, Receive(b) PROVE Shaped
    BY <2>1 DEF Receive, JournalType
  <2>2. ASSUME NEW b \in Agents, NEW u \in TaskIds, Start(b, u) PROVE Shaped
    BY <2>2 DEF Start, JournalType
  <2>3. ASSUME NEW b \in Agents, NEW u \in TaskIds, Finish(b, u) \/ Crash(b, u) PROVE Shaped
    <3>1. PICK o \in Outcome : journal' = [journal EXCEPT ![b][u] = EndOf(journal[b][u].request, o)]
      BY <2>3, EndsOnce DEF Ends
    <3>2. journal \in [Agents -> [TaskIds -> Journal \cup {NoneHeld}]]
      BY DEF JournalType
    <3> HIDE DEF EndOf
    <3> QED BY ONLY <3>1, <3>2
  <2>4. journal' = journal => Shaped
    BY DEF JournalType
  <2>5. ASSUME NEW b \in Agents, Send(b) \/ Fail(b) \/ ServerStep(b) PROVE journal' = journal
    BY <2>5 DEF Send, Fail, ServerStep, Ingest, Respond, Create, agent
  <2>6. Backup \/ Restore \/ TickD \/ UNCHANGED dvars => journal' = journal
    BY DEF Backup, Restore, TickD, dvars, agent
  <2>7. Shaped
    BY <2>1, <2>2, <2>3, <2>4, <2>5, <2>6 DEF DNext, AgentStep
  <2> HIDE DEF Shaped
  <2> QED BY <1>1, <2>7 DEF Shaped
<1>3. outbox' \in [Agents -> SUBSET TaskIds] /\ \A a \in Agents : outbox'[a] \subseteq Done(a)'
  <2>1. \A a \in Agents : outbox[a] \subseteq Done(a)'
    BY SaidForGood DEF JournalType
  <2>2. ASSUME NEW b \in Agents, Receive(b)
        PROVE  outbox' \in [Agents -> SUBSET TaskIds] /\ \A a \in Agents : outbox'[a] \subseteq Done(a)'
    <3>1. Done(b) \subseteq Done(b)' /\ Done(b) \subseteq TaskIds
      BY SaidForGood DEF Done
    <3>2. outbox' = [outbox EXCEPT ![b] = (@ \ reply[b].acked) \cup (DOMAIN reply[b].tasks \cap Done(b))]
      BY <2>2 DEF Receive
    <3> QED BY <2>1, <3>1, <3>2 DEF JournalType
  <2>3. ASSUME NEW b \in Agents, NEW u \in TaskIds, Finish(b, u) \/ Crash(b, u)
        PROVE  outbox' \in [Agents -> SUBSET TaskIds] /\ \A a \in Agents : outbox'[a] \subseteq Done(a)'
    <3>1. Ends(b, u)
      BY <2>3, EndsOnce
    <3>2. PICK o \in Outcome : journal' = [journal EXCEPT ![b][u] = EndOf(journal[b][u].request, o)]
      BY <3>1 DEF Ends
    <3>3. u \in Done(b)'
      BY <3>2 DEF Done, JournalType, EndOf
    <3>4. outbox' = [outbox EXCEPT ![b] = @ \cup {u}]
      BY <3>1 DEF Ends
    <3> QED BY <2>1, <3>3, <3>4 DEF JournalType
  <2>4. ASSUME NEW b \in Agents, Send(b) \/ Fail(b) \/ ServerStep(b) \/ \E u \in TaskIds : Start(b, u)
        PROVE  outbox' = outbox
    BY <2>4 DEF Send, Fail, Start, ServerStep, Ingest, Respond, Create, agent
  <2>5. Backup \/ Restore \/ TickD \/ UNCHANGED dvars => outbox' = outbox
    BY DEF Backup, Restore, TickD, dvars, agent
  <2>6. outbox' = outbox =>
          outbox' \in [Agents -> SUBSET TaskIds] /\ \A a \in Agents : outbox'[a] \subseteq Done(a)'
    BY <2>1 DEF JournalType
  <2> QED BY <2>2, <2>3, <2>4, <2>5, <2>6 DEF DNext, AgentStep
<1> QED BY <1>2, <1>3 DEF JournalType

LEMMA NetTyped ==
  ASSUME DTypeOK, [DNext]_dvars
  PROVE  NetType'
<1> USE DEF DTypeOK
<1>1. ASSUME NEW a \in Agents, Send(a) PROVE NetType'
  <2> DEFINE batch == [t \in outbox[a] |-> journal[a][t].report]
             mail  == [stage |-> "sent", waiting |-> TRUE, results |-> batch]
  <2>1. outbox[a] \subseteq Done(a) /\ outbox[a] \in SUBSET TaskIds
    BY DEF JournalType
  <2>2. \A t \in outbox[a] : journal[a][t].report \in Report
    BY <2>1, JournalRow
  <2>3. batch \in AnyBatch
    BY <2>1, <2>2 DEF AnyBatch
  <2>4. mail \in HeldRequest
    BY <2>3 DEF HeldRequest
  <2>5. \E s \in Slots : request' = [request EXCEPT ![a][s] = mail]
    BY <1>1 DEF Send
  <2>6. reply' = reply
    BY <1>1 DEF Send
  <2> HIDE DEF mail
  <2> QED BY <2>4, <2>5, <2>6 DEF NetType
<1>2. ASSUME NEW a \in Agents, NEW s \in Slots, request[a][s].stage = "sent",
             request' = [request EXCEPT ![a][s].stage = "ingested"], reply' = reply
      PROVE  NetType'
  <2>1. request[a][s] \in HeldRequest
    BY <1>2 DEF NetType, Idle
  <2>2. [request[a][s] EXCEPT !.stage = "ingested"] \in HeldRequest
    BY <2>1 DEF HeldRequest
  <2> QED BY <1>2, <2>2 DEF NetType
<1>3. ASSUME NEW a \in Agents, NEW s \in Slots, request' = [request EXCEPT ![a][s] = Idle],
             reply' \in [Agents -> HeldReply \cup {Idle}]
      PROVE  NetType'
  BY <1>3 DEF NetType
<1>4. ASSUME NEW a \in Agents, Ingest(a) PROVE NetType'
  <2>1. reply' = reply /\ reply \in [Agents -> HeldReply \cup {Idle}]
    BY <1>4 DEF Ingest, NetType
  <2>2. \E s \in Slots :
          \/ request[a][s].stage = "sent" /\ request' = [request EXCEPT ![a][s].stage = "ingested"]
          \/ request' = [request EXCEPT ![a][s] = Idle]
    BY <1>4 DEF Ingest
  <2> QED BY <1>2, <1>3, <2>1, <2>2
<1>5. ASSUME NEW a \in Agents, Respond(a) PROVE NetType'
  <2>1. PICK s \in Slots, budget \in Budgets, S \in SUBSET TaskIds :
          /\ request[a][s].stage = "ingested"
          /\ OfferTasks(a, Kinds, TRUE, budget, S)
          /\ reply' = IF request[a][s].waiting
                      THEN [reply EXCEPT ![a] =
                             [stage |-> "reply", acked |-> DOMAIN request[a][s].results,
                              tasks |-> [t \in S |-> task[t].request]]]
                      ELSE reply
          /\ request' = [request EXCEPT ![a][s] = Idle]
    BY <1>5 DEF Respond
  <2>2. DOMAIN request[a][s].results \in SUBSET TaskIds
    <3>1. request[a][s].results \in AnyBatch
      BY <2>1 DEF NetType, Idle, HeldRequest
    <3> QED BY <3>1, BatchType
  <2>3. [t \in S |-> task[t].request] \in Offered
    <3>1. \A t \in S : task[t].request \in Request
      BY <2>1, OpenRow DEF OfferTasks, Eligible, Row
    <3> QED BY <3>1 DEF Offered
  <2> DEFINE mail == [stage |-> "reply", acked |-> DOMAIN request[a][s].results,
                      tasks |-> [t \in S |-> task[t].request]]
  <2>4. mail \in HeldReply
    BY <2>2, <2>3 DEF HeldReply
  <2>5. reply' = reply \/ reply' = [reply EXCEPT ![a] = mail]
    BY <2>1
  <2> HIDE DEF mail
  <2>6. reply' \in [Agents -> HeldReply \cup {Idle}]
    BY <2>4, <2>5 DEF NetType
  <2> QED BY <1>3, <2>1, <2>6
<1>6. ASSUME NEW a \in Agents, Fail(a) PROVE NetType'
  <2>1. CASE reply' = [reply EXCEPT ![a] = Idle] /\ UNCHANGED request
    BY <2>1 DEF NetType
  <2>2. ASSUME NEW s \in Slots, request[a][s] # Idle, request' = [request EXCEPT ![a][s].waiting = FALSE],
               UNCHANGED reply
        PROVE  NetType'
    <3>1. request[a][s] \in HeldRequest
      BY <2>2 DEF NetType
    <3>2. [request[a][s] EXCEPT !.waiting = FALSE] \in HeldRequest
      BY <3>1 DEF HeldRequest
    <3> QED BY <2>2, <3>2 DEF NetType
  <2>3. ASSUME NEW s \in Slots, request' = [request EXCEPT ![a][s] = Idle], UNCHANGED reply
        PROVE  NetType'
    BY <1>3, <2>3 DEF NetType
  <2> QED BY <1>6, <2>1, <2>2, <2>3 DEF Fail
<1>7. ASSUME NEW a \in Agents, Receive(a) PROVE NetType'
  BY <1>7 DEF Receive, NetType
<1>8. CASE Restore
  BY <1>8 DEF Restore, NetType
<1>9. ASSUME NEW a \in Agents, NEW t \in TaskIds,
             Start(a, t) \/ Finish(a, t) \/ Crash(a, t) \/ \E req \in Requests : Create(a, t, req)
      PROVE  request' = request /\ reply' = reply
  BY <1>9, EndsOnce DEF Start, Create, net
<1>10. Backup \/ TickD \/ UNCHANGED dvars => request' = request /\ reply' = reply
  BY DEF Backup, TickD, dvars, net
<1>11. request' = request /\ reply' = reply => NetType'
  BY DEF NetType
<1> QED BY <1>1, <1>4, <1>5, <1>6, <1>7, <1>8, <1>9, <1>10, <1>11 DEF DNext, AgentStep, ServerStep

LEMMA DTyped == DSpec => []DTypeOK
<1>1. DInit => DTypeOK
  <2> SUFFICES ASSUME DInit PROVE DTypeOK
    OBVIOUS
  <2>1. TypeOK
    BY DEF DInit, Init, TypeOK
  <2>2. JournalType
    BY DEF DInit, JournalType
  <2>3. NetType
    BY DEF DInit, NetType
  <2>4. SavedType
    BY <2>1 DEF DInit, SavedType, TypeOK
  <2> QED BY <2>1, <2>2, <2>3, <2>4 DEF DTypeOK
<1>2. DTypeOK /\ [DNext]_dvars => DTypeOK'
  BY TablesTyped, SavedTyped, JournalTyped, NetTyped DEF DTypeOK
<1> QED BY <1>1, <1>2, PTL DEF DSpec
-----------------------------------------------------------------------------
\* What one step does to one request the server holds: it is dropped, kept, has
\* its results committed, or is new and carries the whole outbox.
RequestStep(a, s) ==
  \/ request'[a][s] = Idle
  \/ /\ request[a][s] # Idle /\ request'[a][s].results = request[a][s].results
     /\ \/ request'[a][s].stage = request[a][s].stage
        \/ DOMAIN request[a][s].results = {}
        \/ CompleteBatch(a, request[a][s].results)
  \/ request'[a][s] = [stage |-> "sent", waiting |-> TRUE,
                       results |-> [t \in outbox[a] |-> journal[a][t].report]]

LEMMA RequestNext ==
  ASSUME NetType, [DNext]_dvars, NEW a \in Agents, NEW s \in Slots
  PROVE  RequestStep(a, s)
<1>1. request'[a][s] = request[a][s] => RequestStep(a, s)
  BY DEF RequestStep
<1>2. ASSUME NEW b \in Agents, Send(b) PROVE RequestStep(a, s)
  <2>1. PICK u \in Slots : request' = [request EXCEPT ![b][u] =
          [stage |-> "sent", waiting |-> TRUE, results |-> [t \in outbox[b] |-> journal[b][t].report]]]
    BY <1>2 DEF Send
  <2>2. ~(b = a /\ u = s) => request'[a][s] = request[a][s]
    BY <2>1 DEF NetType
  <2>3. b = a /\ u = s => request'[a][s] = [stage |-> "sent", waiting |-> TRUE,
                              results |-> [t \in outbox[a] |-> journal[a][t].report]]
    BY <2>1 DEF NetType
  <2> QED BY <1>1, <2>2, <2>3 DEF RequestStep
<1>3. ASSUME NEW b \in Agents, NEW u \in Slots, request' = [request EXCEPT ![b][u] = Idle] PROVE RequestStep(a, s)
  BY <1>1, <1>3 DEF NetType, RequestStep
<1>4. ASSUME NEW b \in Agents, Ingest(b) PROVE RequestStep(a, s)
  <2>1. PICK u \in Slots :
          \/ request' = [request EXCEPT ![b][u] = Idle]
          \/ /\ request[b][u].stage = "sent"
             /\ request' = [request EXCEPT ![b][u].stage = "ingested"]
             /\ DOMAIN request[b][u].results = {} \/ CompleteBatch(b, request[b][u].results)
    BY <1>4 DEF Ingest
  <2>2. CASE request' = [request EXCEPT ![b][u] = Idle]
    BY <1>3, <2>2
  <2>3. CASE /\ request[b][u].stage = "sent"
             /\ request' = [request EXCEPT ![b][u].stage = "ingested"]
             /\ DOMAIN request[b][u].results = {} \/ CompleteBatch(b, request[b][u].results)
    <3>1. request[b][u] \in HeldRequest /\ request[b][u] # Idle
      BY <2>3 DEF NetType, Idle
    <3>2. [request[b][u] EXCEPT !.stage = "ingested"].results = request[b][u].results
      BY <3>1 DEF HeldRequest
    <3>3. CASE b = a /\ u = s
      <4>1. request'[a][s] = [request[b][u] EXCEPT !.stage = "ingested"]
        BY <2>3, <3>3 DEF NetType
      <4> QED BY <2>3, <3>1, <3>2, <3>3, <4>1 DEF RequestStep
    <3>4. CASE ~(b = a /\ u = s)
      BY <1>1, <2>3, <3>4 DEF NetType
    <3> QED BY <3>3, <3>4
  <2> QED BY <2>1, <2>2, <2>3
<1>5. ASSUME NEW b \in Agents, Respond(b) PROVE RequestStep(a, s)
  BY <1>3, <1>5 DEF Respond
<1>6. ASSUME NEW b \in Agents, Fail(b) PROVE RequestStep(a, s)
  <2>1. ASSUME NEW u \in Slots, request[b][u] # Idle, request' = [request EXCEPT ![b][u].waiting = FALSE]
        PROVE  RequestStep(a, s)
    <3>1. request[b][u] \in HeldRequest
      BY <2>1 DEF NetType
    <3>2. /\ [request[b][u] EXCEPT !.waiting = FALSE].results = request[b][u].results
          /\ [request[b][u] EXCEPT !.waiting = FALSE].stage = request[b][u].stage
      BY <3>1 DEF HeldRequest
    <3>3. CASE b = a /\ u = s
      <4>1. request'[a][s] = [request[b][u] EXCEPT !.waiting = FALSE]
        BY <2>1, <3>3 DEF NetType
      <4> QED BY <2>1, <3>2, <3>3, <4>1 DEF RequestStep
    <3>4. CASE ~(b = a /\ u = s)
      BY <1>1, <2>1, <3>4 DEF NetType
    <3> QED BY <3>3, <3>4
  <2>2. UNCHANGED request => RequestStep(a, s)
    BY <1>1
  <2> QED BY <1>3, <1>6, <2>1, <2>2 DEF Fail
<1>7. Restore => RequestStep(a, s)
  BY DEF Restore, RequestStep
<1>8. ASSUME NEW b \in Agents, NEW t \in TaskIds,
             Start(b, t) \/ Finish(b, t) \/ Crash(b, t) \/ \E req \in Requests : Create(b, t, req)
      PROVE  request' = request
  BY <1>8 DEF Start, Finish, Crash, End, Create, net
<1>9. ASSUME NEW b \in Agents, Receive(b) PROVE request' = request
  BY <1>9 DEF Receive
<1>10. Backup \/ TickD \/ UNCHANGED dvars => request' = request
  BY DEF Backup, TickD, dvars, net
<1>11. request' = request => RequestStep(a, s)
  BY <1>1
<1> QED BY <1>2, <1>4, <1>5, <1>6, <1>7, <1>8, <1>9, <1>10, <1>11 DEF DNext, AgentStep, ServerStep

\* And to the reply on its way to one agent: it is gone, kept, or made of a
\* committed request and of offered tasks.
LEMMA ReplyNext ==
  ASSUME NetType, [DNext]_dvars, NEW a \in Agents
  PROVE  \/ reply'[a] \in {reply[a], Idle}
         \/ \E s \in Slots, S \in SUBSET Open(a) :
              /\ request[a][s].stage = "ingested"
              /\ reply'[a] = [stage |-> "reply", acked |-> DOMAIN request[a][s].results,
                              tasks |-> [t \in S |-> task[t].request]]
<1>1. ASSUME NEW b \in Agents, Respond(b), reply'[a] # reply[a]
      PROVE  \E s \in Slots, S \in SUBSET Open(a) :
              /\ request[a][s].stage = "ingested"
              /\ reply'[a] = [stage |-> "reply", acked |-> DOMAIN request[a][s].results,
                              tasks |-> [t \in S |-> task[t].request]]
  <2>1. PICK s \in Slots, budget \in Budgets, S \in SUBSET TaskIds :
          /\ request[b][s].stage = "ingested"
          /\ OfferTasks(b, Kinds, TRUE, budget, S)
          /\ reply' = IF request[b][s].waiting
                      THEN [reply EXCEPT ![b] =
                             [stage |-> "reply", acked |-> DOMAIN request[b][s].results,
                              tasks |-> [t \in S |-> task[t].request]]]
                      ELSE reply
    BY <1>1 DEF Respond
  <2>2. S \in SUBSET Open(b)
    BY <2>1 DEF OfferTasks, Eligible
  <2>3. b = a
    BY <1>1, <2>1 DEF NetType
  <2>4. reply'[a] = [stage |-> "reply", acked |-> DOMAIN request[b][s].results,
                     tasks |-> [t \in S |-> task[t].request]]
    BY <1>1, <2>1, <2>3 DEF NetType
  <2> QED BY <2>1, <2>2, <2>3, <2>4
<1>2. ASSUME NEW b \in Agents, Fail(b) \/ Receive(b) PROVE reply'[a] \in {reply[a], Idle}
  BY <1>2 DEF Fail, Receive, NetType
<1>3. ASSUME NEW b \in Agents, Send(b) \/ Ingest(b) PROVE reply' = reply
  BY <1>3 DEF Send, Ingest
<1>4. ASSUME NEW b \in Agents, NEW t \in TaskIds,
             Start(b, t) \/ Finish(b, t) \/ Crash(b, t) \/ \E req \in Requests : Create(b, t, req)
      PROVE  reply' = reply
  BY <1>4 DEF Start, Finish, Crash, End, Create, net
<1>5. Backup \/ Restore \/ TickD \/ UNCHANGED dvars => reply' = reply
  BY DEF Backup, Restore, TickD, dvars, net
<1> QED BY <1>1, <1>2, <1>3, <1>4, <1>5 DEF DNext, AgentStep, ServerStep
-----------------------------------------------------------------------------
LEMMA SaidStays ==
  ASSUME JournalType, [DNext]_dvars, NEW a \in Agents, NEW t, NEW r, Said(a, t, r)
  PROVE  Said(a, t, r)'
<1>1. t \in Done(a)
  BY DEF Said
<1> QED BY <1>1, SaidForGood DEF Said

LEMMA AnswersFitNext ==
  ASSUME JournalType, AnswersFit, [DNext]_dvars
  PROVE  AnswersFit'
<1> SUFFICES ASSUME NEW a \in Agents, NEW t \in Done(a)'
             PROVE  /\ journal'[a][t].report.input = journal'[a][t].request.input
                    /\ journal'[a][t].report.notAfter = journal'[a][t].request.notAfter
  BY DEF AnswersFit
<1>1. t \in TaskIds /\ journal'[a][t].state = "done"
  BY DEF Done
<1>2. CASE t \in Done(a)
  BY <1>2, SaidForGood DEF AnswersFit
<1>3. CASE t \notin Done(a)
  <2>1. journal'[a][t] # journal[a][t]
    BY <1>1, <1>3 DEF Done
  <2>2. journal[a][t].state = "received" => [journal[a][t] EXCEPT !.state = "running"].state # "done"
    <3>1. journal[a][t].state = "received" => journal[a][t] \in [state : {"received", "running"}, request : Request]
      BY <1>1 DEF JournalType, Journal, NoneHeld
    <3> QED BY <3>1
  <2>3. PICK o \in Outcome : /\ journal[a][t].state \in {"received", "running"}
                             /\ journal'[a][t] = EndOf(journal[a][t].request, o)
    <3>1. JournalStep(a, t)
      BY <1>1, JournalNext
    <3>2. \A q : [state |-> "received", request |-> q].state # "done"
      OBVIOUS
    <3> QED BY <1>1, <2>1, <2>2, <3>1, <3>2 DEF JournalStep
  <2>4. journal[a][t].request \in Request
    BY <1>1, <2>3, JournalRow
  <2> QED BY <2>3, <2>4, EndType
<1> QED BY <1>2, <1>3

LEMMA ResultsSaidNext ==
  ASSUME JournalType, NetType, ResultsSaid, [DNext]_dvars
  PROVE  ResultsSaid'
<1> SUFFICES ASSUME NEW a \in Agents, NEW s \in Slots, request'[a][s] # Idle,
                    NEW t \in DOMAIN request'[a][s].results
             PROVE  t \in Done(a)' /\ journal'[a][t].report = request'[a][s].results[t]
  BY DEF ResultsSaid, Said
<1>1. CASE request[a][s] # Idle /\ request'[a][s].results = request[a][s].results
  <2>1. t \in Done(a) /\ journal[a][t].report = request[a][s].results[t]
    BY <1>1 DEF ResultsSaid, Said
  <2> QED BY <1>1, <2>1, SaidForGood
<1>2. CASE request'[a][s] = [stage |-> "sent", waiting |-> TRUE,
                             results |-> [u \in outbox[a] |-> journal[a][u].report]]
  <2>1. t \in outbox[a] /\ request'[a][s].results[t] = journal[a][t].report
    BY <1>2
  <2>2. t \in Done(a)
    BY <2>1 DEF JournalType
  <2> QED BY <2>1, <2>2, SaidForGood
<1> QED BY <1>1, <1>2, RequestNext DEF RequestStep

LEMMA EvidenceStays ==
  ASSUME JournalType, [DNext]_dvars, NEW E, EvidenceSaid(E)
  PROVE  \A a \in Agents, t \in TaskIds :
           E[a][t] # NoEvidence => t \in Done(a)' /\ journal'[a][t].report = E[a][t].report
BY SaidForGood DEF EvidenceSaid, Said

LEMMA EvidenceSaidNext ==
  ASSUME DTypeOK, Answers, [DNext]_dvars
  PROVE  EvidenceSaid(evidence)' /\ EvidenceSaid(backup.evidence)'
<1> USE DEF DTypeOK, Answers
<1> DEFINE Kept(E) == \A a \in Agents, t \in TaskIds :
             E[a][t] # NoEvidence => t \in Done(a)' /\ journal'[a][t].report = E[a][t].report
<1>1. Kept(evidence) /\ Kept(backup.evidence)
  BY EvidenceStays
<1>2. Kept(backup.evidence')
  <2>1. backup'.evidence \in {backup.evidence, evidence}
    BY TablesNext DEF Restore
  <2> QED BY <1>1, <2>1
<1>3. Kept(evidence')
  <2>1. CASE evidence' \in {evidence, backup.evidence}
    BY <1>1, <2>1
  <2>2. ASSUME NEW b \in Agents, NEW s \in Slots, request[b][s].stage = "sent",
               CompleteBatch(b, request[b][s].results)
        PROVE  Kept(evidence')
    <3> DEFINE batch == request[b][s].results
    <3>1. batch \in AnyBatch /\ request[b][s] # Idle
      BY <2>2, HeldResults DEF Idle
    <3>2. \A t \in DOMAIN batch : Said(b, t, batch[t])
      BY <3>1 DEF ResultsSaid
    <3>3. \A t \in DOMAIN batch : t \in Done(b)' /\ journal'[b][t].report = batch[t]
      BY <3>2, SaidForGood DEF Said
    <3> HIDE DEF batch
    <3>4. ASSUME NEW a \in Agents, NEW t \in TaskIds, evidence'[a][t] # NoEvidence
          PROVE  t \in Done(a)' /\ journal'[a][t].report = evidence'[a][t].report
      <4>1. CASE a = b /\ t \in NewEvidence(b, batch)
        <5>1. evidence'[a][t] = EvidenceFor(t, batch[t]) /\ t \in DOMAIN batch
          BY <2>2, <3>1, <4>1, BatchEvidence DEF NewEvidence, batch
        <5> QED BY <3>3, <4>1, <5>1 DEF EvidenceFor
      <4>2. CASE ~(a = b /\ t \in NewEvidence(b, batch))
        <5>1. evidence'[a][t] = evidence[a][t]
          BY <2>2, <3>1, <4>2, BatchEvidence DEF batch
        <5> QED BY <1>1, <3>4, <5>1
      <4> QED BY <4>1, <4>2
    <3> QED BY <3>4
  <2>3. ASSUME NEW b \in Agents, Exchange(b) PROVE Kept(evidence')
    BY <2>1, <2>2, <2>3 DEF Exchange, CreateOrGet, OfferTasks
  <2> HIDE DEF Kept
  <2> QED BY <2>1, <2>3, TablesNext DEF Restore
<1> QED BY <1>2, <1>3 DEF EvidenceSaid, Said

LEMMA EndsStay ==
  ASSUME JournalType, [DNext]_dvars, NEW T \in [TaskIds -> Row \cup {NoRow}], EndsSaid(T)
  PROVE  \A t \in TaskIds : T[t].status \in Terminal =>
           /\ journal'[T[t].agent][t].state = "done" /\ journal'[T[t].agent][t].report = T[t].report
           /\ T[t].status = ResultStatus(T[t].report.outcome)
<1> SUFFICES ASSUME NEW t \in TaskIds, T[t].status \in Terminal
             PROVE  /\ journal'[T[t].agent][t].state = "done" /\ journal'[T[t].agent][t].report = T[t].report
                    /\ T[t].status = ResultStatus(T[t].report.outcome)
  OBVIOUS
<1>1. T[t].agent \in Agents
  <2>1. T[t] # NoRow
    BY DEF NoRow, Terminal
  <2> QED BY <2>1 DEF Row
<1>2. t \in Done(T[t].agent) /\ journal[T[t].agent][t].report = T[t].report
  BY DEF EndsSaid, Said
<1>3. journal'[T[t].agent][t] = journal[T[t].agent][t] /\ journal[T[t].agent][t].state = "done"
  BY <1>1, <1>2, SaidForGood DEF Done
<1> QED BY <1>2, <1>3 DEF EndsSaid

\* The rows an operation leaves ended: those that were, and those a result of
\* this very report ended.
LEMMA NewEnds ==
  ASSUME TypeOK, NetType, NEW a \in Agents, Exchange(a), NEW t \in TaskIds,
         task'[t].status \in Terminal, task'[t] # task[t]
  PROVE  \E s \in Slots :
           /\ request[a][s] # Idle /\ t \in DOMAIN request[a][s].results
           /\ task'[t].agent = a /\ task'[t].report = request[a][s].results[t]
           /\ task'[t].status = ResultStatus(task'[t].report.outcome)
<1>1. ~ \E u \in TaskIds, req \in Requests : CreateOrGet(a, u, req)
  BY CreatedRow DEF Terminal
<1>2. ASSUME NEW budget \in Budgets, NEW S \in SUBSET TaskIds, OfferTasks(a, Kinds, TRUE, budget, S)
      PROVE  FALSE
  <2>1. t \in Open(a) /\ task[t] \in Row /\ task[t].status \notin Terminal
    BY <1>2, OfferedRows, OpenRow
  <2>2. \/ task'[t] = [task[t] EXCEPT !.closed = "task_authorization_expired"]
        \/ task'[t] = [task[t] EXCEPT !.status = "offered", !.offered = now]
    BY <1>2, OfferedRows
  <2>3. task'[t].status \in {task[t].status, "offered"}
    BY <2>1, <2>2 DEF Row
  <2> QED BY <2>1, <2>3 DEF Terminal
<1>3. PICK s \in Slots : request[a][s].stage = "sent" /\ CompleteBatch(a, request[a][s].results)
  BY <1>1, <1>2 DEF Exchange
<1> DEFINE batch == request[a][s].results
<1>4. request[a][s] # Idle /\ batch \in AnyBatch
  BY <1>3, HeldResults DEF Idle
<1> HIDE DEF batch
<1>5. t \in DOMAIN batch /\ t \in Stored /\ task'[t] = Settle(a, t, batch[t])
  BY <1>3 DEF CompleteBatch, batch
<1>6. task[t] \in Row /\ task[t].agent = a
  BY <1>3, <1>4, <1>5, StoredRow, BatchAdmitted DEF Admissible, batch
<1>7. task[t].status \notin Terminal
  BY <1>5 DEF Settle
<1>8. task'[t] # [task[t] EXCEPT !.closed = ClosedBecause(a, t)]
  BY <1>6, <1>7 DEF Row
<1>9. task'[t] = [task[t] EXCEPT !.status = ResultStatus(batch[t].outcome), !.report = batch[t]]
  BY <1>5, <1>7, <1>8 DEF Settle
<1>10. /\ task'[t].agent = a /\ task'[t].report = batch[t]
       /\ task'[t].status = ResultStatus(batch[t].outcome)
  BY <1>6, <1>9 DEF Row
<1> QED BY <1>4, <1>5, <1>10 DEF batch

LEMMA EndsSaidNext ==
  ASSUME DTypeOK, Answers, [DNext]_dvars
  PROVE  EndsSaid(task)' /\ EndsSaid(backup.task)'
<1> USE DEF DTypeOK, Answers
<1> DEFINE Kept(T) == \A t \in TaskIds : T[t].status \in Terminal =>
             /\ journal'[T[t].agent][t].state = "done" /\ journal'[T[t].agent][t].report = T[t].report
             /\ T[t].status = ResultStatus(T[t].report.outcome)
<1>1. Kept(task)
  BY EndsStay DEF TypeOK
<1>2. Kept(backup.task)
  BY EndsStay DEF SavedType
<1>3. Kept(backup'.task)
  <2>1. backup'.task \in {backup.task, task}
    BY TablesNext DEF Restore
  <2> QED BY <1>1, <1>2, <2>1
<1>4. Kept(task')
  <2>1. CASE task' \in {task, backup.task}
    BY <1>1, <1>2, <2>1
  <2>2. ASSUME NEW b \in Agents, Exchange(b) PROVE Kept(task')
    <3> SUFFICES ASSUME NEW t \in TaskIds, task'[t].status \in Terminal
                 PROVE  /\ journal'[task'[t].agent][t].state = "done"
                        /\ journal'[task'[t].agent][t].report = task'[t].report
                        /\ task'[t].status = ResultStatus(task'[t].report.outcome)
      OBVIOUS
    <3>1. CASE task'[t] = task[t]
      BY <1>1, <3>1
    <3>2. CASE task'[t] # task[t]
      <4>1. PICK s \in Slots :
              /\ request[b][s] # Idle /\ t \in DOMAIN request[b][s].results
              /\ task'[t].agent = b /\ task'[t].report = request[b][s].results[t]
              /\ task'[t].status = ResultStatus(task'[t].report.outcome)
        BY <2>2, <3>2, NewEnds
      <4>2. t \in Done(b) /\ journal[b][t].report = task'[t].report
        BY <4>1 DEF ResultsSaid, Said
      <4> QED BY <4>1, <4>2, SaidForGood DEF Done
    <3> QED BY <3>1, <3>2
  <2> HIDE DEF Kept
  <2> QED BY <2>1, <2>2, TablesNext DEF Restore
<1> QED BY <1>3, <1>4 DEF EndsSaid, Said, Done, Terminal

LEMMA AnswersNext ==
  ASSUME DTypeOK, Answers, [DNext]_dvars
  PROVE  Answers'
<1> USE DEF DTypeOK, Answers
<1>1. AnswersFit' /\ ResultsSaid'
  BY AnswersFitNext, ResultsSaidNext
<1> QED BY <1>1, EvidenceSaidNext, EndsSaidNext

LEMMA AnswersAlways == DSpec => []Answers
<1>1. DInit => Answers
  <2> SUFFICES ASSUME DInit PROVE Answers
    OBVIOUS
  <2>1. AnswersFit /\ ResultsSaid
    BY DEF DInit, AnswersFit, ResultsSaid, Done, NoneHeld
  <2>2. EvidenceSaid(evidence) /\ EvidenceSaid(backup.evidence)
    BY DEF DInit, Init, EvidenceSaid
  <2>3. EndsSaid(task) /\ EndsSaid(backup.task)
    BY DEF DInit, Init, EndsSaid, NoRow, Terminal
  <2> QED BY <2>1, <2>2, <2>3 DEF Answers
<1>2. DTypeOK /\ Answers /\ [DNext]_dvars => Answers'
  BY AnswersNext
<1> QED BY <1>1, <1>2, DTyped, PTL DEF DSpec

\* What the control plane calls an outcome is what the agent recorded, whatever
\* was lost, repeated, interrupted or restored (CompleteBatch under nodesync).
THEOREM OutcomeAlwaysTheAgents == DSpec => []OutcomeIsTheAgents
<1>1. DTypeOK /\ Answers => OutcomeIsTheAgents
  BY DEF Answers, EndsSaid, Said, OutcomeIsTheAgents, Done, Stored
<1> QED BY <1>1, DTyped, AnswersAlways, PTL
-----------------------------------------------------------------------------
LEMMA MintedGrows ==
  ASSUME [DNext]_dvars, JournalType
  PROVE  minted \subseteq minted'
<1>1. ASSUME NEW a \in Agents, NEW t \in TaskIds, Finish(a, t) \/ Crash(a, t) PROVE minted' = minted
  BY <1>1, EndsOnce
<1>2. ASSUME NEW a \in Agents, AgentStep(a) \/ Fail(a) \/ Ingest(a) \/ Respond(a) PROVE minted' = minted
  BY <1>1, <1>2 DEF AgentStep, Send, Receive, Start, Fail, Ingest, Respond, saved
<1>3. ASSUME NEW a \in Agents, NEW t \in TaskIds, NEW req \in Requests, Create(a, t, req)
      PROVE  minted \subseteq minted'
  BY <1>3 DEF Create
<1>4. Backup \/ Restore \/ TickD \/ UNCHANGED dvars => minted' = minted
  BY DEF Backup, Restore, TickD, dvars, saved
<1> QED BY <1>2, <1>3, <1>4 DEF DNext, ServerStep

LEMMA SavedStored ==
  ASSUME DTypeOK, NEW t \in TaskIds
  PROVE  /\ task[t] # NoRow <=> t \in Stored
         /\ backup.task[t] # NoRow <=> backup.task[t].status # "absent"
BY EmptyRow DEF DTypeOK, TypeOK, SavedType, Stored

\* A row names a task that was named before, or one under a fresh identifier.
LEMMA RowsNext ==
  ASSUME DTypeOK, TypeOK', [DNext]_dvars, NEW t \in TaskIds, t \in Stored'
  PROVE  \/ /\ t \in Stored /\ task'[t].agent = task[t].agent
            /\ task'[t].request = task[t].request
         \/ /\ backup.task[t] # NoRow /\ task'[t] = backup.task[t]
         \/ t \notin minted /\ t \in minted'
<1> USE DEF DTypeOK
<1>1. CASE Restore
  <2>1. task' = backup.task
    BY <1>1 DEF Restore
  <2> QED BY <2>1, SavedStored DEF Stored
<1>2. CASE task' = task
  BY <1>2 DEF Stored
<1>3. ASSUME NEW a \in Agents, Exchange(a)
      PROVE  \/ /\ t \in Stored /\ task'[t].agent = task[t].agent
                /\ task'[t].request = task[t].request
             \/ t \notin minted /\ t \in minted'
  <2>1. ASSUME NEW u \in TaskIds \ minted, NEW req \in Requests, CreateOrGet(a, u, req), u \in minted'
        PROVE  \/ t \in Stored /\ task'[t] = task[t]
               \/ t \notin minted /\ t \in minted'
    BY <2>1, CreatedRow
  <2>2. \A s \in Slots : request[a][s].stage = "sent" => request[a][s].results \in AnyBatch
    BY HeldResults DEF Idle
  <2>3. KeepsTasks => t \in Stored /\ task'[t].agent = task[t].agent /\ task'[t].request = task[t].request
    BY DEF KeepsTasks
  <2> QED BY <1>3, <2>1, <2>2, <2>3, OfferKeeps, CompleteKeeps DEF Exchange
<1> QED BY <1>1, <1>2, <1>3, TablesNext

\* Nobody names anything new but a fresh identifier.
LEMMA ClaimsNext ==
  ASSUME DTypeOK, TypeOK', [DNext]_dvars, NEW a \in Agents, NEW t \in TaskIds, NEW q, Claims(a, t, q)'
  PROVE  \/ Claims(a, t, q)
         \/ t \notin minted /\ t \in minted' /\ task'[t].agent = a /\ task'[t].request = q
<1> USE DEF DTypeOK
<1>1. CASE t \in Stored' /\ task'[t].agent = a /\ task'[t].request = q
  BY <1>1, RowsNext DEF Claims
<1>2. CASE backup'.task[t] # NoRow /\ backup'.task[t].agent = a /\ backup'.task[t].request = q
  <2>1. backup' \in {backup, [task |-> task, evidence |-> evidence]}
    BY TablesNext DEF Restore
  <2>2. backup'.task[t] \in {backup.task[t], task[t]}
    BY <2>1
  <2> QED BY <1>2, <2>2, SavedStored DEF Claims
<1>3. CASE journal'[a][t] # NoneHeld /\ journal'[a][t].request = q
  <2>1. JournalStep(a, t)
    BY JournalNext
  <2>2. CASE journal'[a][t] = journal[a][t]
    BY <1>3, <2>2 DEF Claims
  <2>3. CASE /\ reply[a] # Idle /\ t \in DOMAIN reply[a].tasks
             /\ journal'[a][t] = [state |-> "received", request |-> reply[a].tasks[t]]
    BY <1>3, <2>3 DEF Claims
  <2>4. CASE journal[a][t].state = "received" /\ journal'[a][t] = [journal[a][t] EXCEPT !.state = "running"]
    <3>1. journal[a][t] \in [state : {"received", "running"}, request : Request]
      BY <2>4 DEF JournalType, Journal, NoneHeld
    <3>2. journal'[a][t].request = journal[a][t].request /\ journal[a][t] # NoneHeld
      BY <2>4, <3>1 DEF NoneHeld
    <3> QED BY <1>3, <3>2 DEF Claims
  <2>5. ASSUME NEW o \in Outcome, journal[a][t].state \in {"received", "running"},
               journal'[a][t] = EndOf(journal[a][t].request, o)
        PROVE  Claims(a, t, q)
    <3>1. journal[a][t] # NoneHeld
      BY <2>5, JournalRow
    <3>2. journal'[a][t].request = journal[a][t].request
      BY <2>5 DEF EndOf
    <3> QED BY <1>3, <3>1, <3>2 DEF Claims
  <2> QED BY <2>1, <2>2, <2>3, <2>4, <2>5 DEF JournalStep
<1>4. CASE reply'[a] # Idle /\ t \in DOMAIN reply'[a].tasks /\ reply'[a].tasks[t] = q
  <2>1. CASE reply'[a] = reply[a]
    BY <1>4, <2>1 DEF Claims
  <2>2. ASSUME NEW s \in Slots, NEW S \in SUBSET Open(a),
               reply'[a] = [stage |-> "reply", acked |-> DOMAIN request[a][s].results,
                            tasks |-> [u \in S |-> task[u].request]]
        PROVE  Claims(a, t, q)
    <3>1. t \in Open(a) /\ task[t].request = q
      BY <1>4, <2>2
    <3> QED BY <3>1, OpenRow DEF Claims
  <2> QED BY <1>4, <2>1, <2>2, ReplyNext
<1> QED BY <1>1, <1>2, <1>3, <1>4 DEF Claims

LEMMA IdentityNext ==
  ASSUME DTypeOK, TypeOK', OneIdentity, [DNext]_dvars
  PROVE  OneIdentity'
<1> SUFFICES ASSUME NEW t \in TaskIds, NEW a \in Agents, NEW q \in Request, Claims(a, t, q)'
             PROVE  /\ t \in minted'
                    /\ \A b \in Agents, p \in Request : Claims(b, t, p)' => b = a /\ p = q
  BY DEF OneIdentity
<1>1. CASE t \in minted
  <2>1. \A b \in Agents, p \in Request : Claims(b, t, p)' => Claims(b, t, p)
    BY <1>1, ClaimsNext
  <2>2. Claims(a, t, q)
    BY <2>1
  <2>3. t \in minted'
    BY <1>1, MintedGrows DEF DTypeOK
  <2> QED BY <2>1, <2>2, <2>3 DEF OneIdentity
<1>2. CASE t \notin minted
  <2>1. \A b \in Agents, p \in Request : ~Claims(b, t, p)
    BY <1>2 DEF OneIdentity
  <2>2. \A b \in Agents, p \in Request : Claims(b, t, p)' =>
          t \in minted' /\ task'[t].agent = b /\ task'[t].request = p
    BY <2>1, ClaimsNext
  <2> QED BY <2>2
<1> QED BY <1>1, <1>2

LEMMA IdentityAlways == DSpec => []OneIdentity
<1>1. DInit => OneIdentity
  BY DEF DInit, Init, OneIdentity, Claims, Stored, NoRow
<1>2. DTypeOK /\ DTypeOK' /\ OneIdentity /\ [DNext]_dvars => OneIdentity'
  BY IdentityNext DEF DTypeOK
<1> QED BY <1>1, <1>2, DTyped, PTL DEF DSpec

\* The agent's results are never refused as a conflict: whatever was restored,
\* the row and the evidence of a task are about the task the agent answers.
THEOREM OutboxNeverRefused == DSpec => []OutboxNeverConflicts
<1>1. DTypeOK /\ OneIdentity /\ Answers => OutboxNeverConflicts
  <2> SUFFICES ASSUME DTypeOK, OneIdentity, Answers, NEW a \in agents, NEW t \in outbox[a]
               PROVE  CompleteVerdict(a, [u \in {t} |-> journal[a][t].report]) # "conflict"
    BY DEF OutboxNeverConflicts
  <2> USE DEF DTypeOK
  <2> DEFINE r == journal[a][t].report
  <2>1. a \in Agents /\ t \in TaskIds /\ t \in Done(a)
    BY DEF TypeOK, JournalType
  <2>2. /\ journal[a][t].request \in Request /\ journal[a][t] # NoneHeld
        /\ r.input = journal[a][t].request.input /\ r.notAfter = journal[a][t].request.notAfter
    BY <2>1, JournalRow DEF Answers, AnswersFit
  <2>3. Claims(a, t, journal[a][t].request)
    BY <2>2 DEF Claims
  <2>4. ASSUME t \in Stored
        PROVE  task[t].agent = a /\ task[t].request = journal[a][t].request
    <3>1. task[t] \in Row
      BY <2>4, <2>1, StoredRow
    <3>2. Claims(task[t].agent, t, task[t].request)
      BY <2>4 DEF Claims
    <3> QED BY <2>1, <2>2, <2>3, <3>1, <3>2 DEF OneIdentity, Row
  <2>5. t \in Stored /\ task[t].status \in Terminal => task[t].report = r
    BY <2>1, <2>4 DEF Answers, EndsSaid, Said
  <2>6. t \in Fenced(a) => evidence[a][t].report = r
    BY <2>1 DEF Answers, EvidenceSaid, Said, Fenced
  <2>7. Admissible(a, t, r)
    BY <2>2, <2>4, <2>5, <2>6 DEF Admissible
  <2> HIDE DEF r
  <2> DEFINE batch == [u \in {t} |-> r]
  <2>8. DOMAIN batch = {t} /\ batch[t] = r
    OBVIOUS
  <2> HIDE DEF batch
  <2>9. CompleteVerdict(a, batch) # "conflict"
    BY <2>7, <2>8 DEF CompleteVerdict
  <2> QED BY <2>9 DEF batch, r
<1> QED BY <1>1, DTyped, IdentityAlways, AnswersAlways, PTL
-----------------------------------------------------------------------------
\* Only a restore takes back what is on record.
LEMMA HeldStays ==
  ASSUME DTypeOK, TypeOK', [DNext]_dvars, restores' = restores,
         NEW b \in Agents, NEW t \in TaskIds, NEW r, HeldBy(b, t, r)
  PROVE  HeldBy(b, t, r)'
<1>1. ~Restore
  BY DEF Restore, DTypeOK, SavedType
<1>2. ASSUME NEW a \in Agents, Exchange(a) PROVE HeldBy(b, t, r)'
  BY <1>2, ExchangeOperates, OperationHeld DEF DTypeOK
<1>3. CASE task' = task /\ evidence' = evidence
  BY <1>3 DEF HeldBy, Owned, Stored, Fenced
<1> QED BY <1>1, <1>2, <1>3, TablesNext

\* A result leaves the outbox, or is never put there, only by a reply.
LEMMA OutboxNext ==
  ASSUME JournalType, [DNext]_dvars, NEW a \in Agents, NEW t \in Done(a)' \ outbox'[a]
  PROVE  /\ t \in Done(a)
         /\ t \notin outbox[a] \/ (reply[a] # Idle /\ t \in reply[a].acked)
<1> DEFINE Left == /\ t \in Done(a)
                   /\ t \notin outbox[a] \/ (reply[a] # Idle /\ t \in reply[a].acked)
<1>1. ASSUME NEW b \in Agents, Receive(b) PROVE Left
  <2>1. t \in Done(a)
    BY <1>1 DEF Receive, JournalType, Done
  <2>2. t \notin outbox[a] \/ (reply[a] # Idle /\ t \in reply[a].acked)
    BY <1>1 DEF Receive, JournalType
  <2> QED BY <2>1, <2>2
<1>2. ASSUME NEW b \in Agents, NEW u \in TaskIds, Finish(b, u) \/ Crash(b, u) PROVE Left
  <2>1. Ends(b, u)
    BY <1>2, EndsOnce
  <2>2. ~(a = b /\ t = u) /\ t \notin outbox[a]
    BY <2>1 DEF Ends, JournalType
  <2> QED BY <2>1, <2>2 DEF Ends, JournalType, Done
<1>3. ASSUME NEW b \in Agents, NEW u \in TaskIds, Start(b, u) PROVE Left
  <2>1. journal' = [journal EXCEPT ![b][u].state = "running"] /\ outbox' = outbox
    BY <1>3 DEF Start
  <2>2. journal[b][u] \in [state : {"received", "running"}, request : Request]
    BY <1>3 DEF Start, JournalType, Journal, NoneHeld
  <2>3. [journal[b][u] EXCEPT !.state = "running"].state # "done"
    BY <2>2
  <2>4. t \in Done(a)
    <3>1. t \in TaskIds /\ journal'[a][t].state = "done"
      BY DEF Done
    <3>2. ~(a = b /\ t = u)
      BY <2>1, <2>3, <3>1 DEF JournalType
    <3> QED BY <2>1, <3>1, <3>2 DEF JournalType, Done
  <2> QED BY <2>1, <2>4
<1>4. journal' = journal /\ outbox' = outbox => Left
  BY DEF Done
<1>5. ASSUME NEW b \in Agents, Send(b) \/ Fail(b) \/ ServerStep(b) PROVE journal' = journal /\ outbox' = outbox
  BY <1>5 DEF Send, Fail, ServerStep, Ingest, Respond, Create, agent
<1>6. Backup \/ Restore \/ TickD \/ UNCHANGED dvars => journal' = journal /\ outbox' = outbox
  BY DEF Backup, Restore, TickD, dvars, agent
<1> QED BY <1>1, <1>2, <1>3, <1>4, <1>5, <1>6 DEF DNext, AgentStep

LEMMA AcknowledgedNext ==
  ASSUME DTypeOK, TypeOK', Answers, Acknowledged, [DNext]_dvars
  PROVE  Acknowledged'
<1> USE DEF DTypeOK
<1> SUFFICES ASSUME restores' = 0, NEW a \in Agents
    PROVE  /\ \A s \in Slots : request'[a][s].stage = "ingested" =>
                \A t \in DOMAIN request'[a][s].results : HeldBy(a, t, request[a][s].results[t])'
           /\ reply'[a] # Idle =>
                \A t \in reply'[a].acked : t \in Done(a)' /\ HeldBy(a, t, journal[a][t].report)'
           /\ \A t \in Done(a)' \ outbox'[a] : HeldBy(a, t, journal[a][t].report)'
  BY DEF Acknowledged
<1>1. restores = 0 /\ restores' = restores
  BY TablesNext DEF Restore, SavedType
<1>2. ASSUME NEW t \in Done(a), HeldBy(a, t, journal[a][t].report)
      PROVE  t \in Done(a)' /\ HeldBy(a, t, journal[a][t].report)'
  <2>1. PICK r : r = journal[a][t].report
    OBVIOUS
  <2>2. HeldBy(a, t, r)'
    BY <1>1, <1>2, <2>1, HeldStays DEF Done
  <2>3. journal'[a][t].report = r /\ t \in Done(a)'
    BY <2>1, SaidForGood
  <2> QED BY <2>2, <2>3 DEF HeldBy
<1>3. ASSUME NEW s \in Slots, request'[a][s].stage = "ingested", NEW t \in DOMAIN request'[a][s].results
      PROVE  HeldBy(a, t, request[a][s].results[t])'
  <2>1. /\ request[a][s] # Idle /\ request'[a][s].results = request[a][s].results
        /\ \/ request'[a][s].stage = request[a][s].stage
           \/ DOMAIN request[a][s].results = {}
           \/ CompleteBatch(a, request[a][s].results)
    <3>1. request'[a][s] # Idle
      BY <1>3 DEF Idle
    <3>2. \A f : request'[a][s] # [stage |-> "sent", waiting |-> TRUE, results |-> f]
      BY <1>3
    <3> QED BY <3>1, <3>2, RequestNext DEF RequestStep
  <2>2. request[a][s].results \in AnyBatch /\ t \in DOMAIN request[a][s].results
    BY <1>3, <2>1, HeldResults
  <2>3. t \in TaskIds
    BY <2>2, BatchType
  <2>4. PICK r : r = request[a][s].results[t]
    OBVIOUS
  <2>5. HeldBy(a, t, r)'
    <3>1. CASE request[a][s].stage = "ingested"
      <4>1. HeldBy(a, t, r)
        BY <1>1, <2>2, <2>4, <3>1 DEF Acknowledged
      <4> QED BY <1>1, <2>3, <4>1, HeldStays
    <3>2. CASE CompleteBatch(a, request[a][s].results)
      <4>1. PICK batch \in AnyBatch : batch = request[a][s].results
        BY <2>2
      <4>2. HeldBy(a, t, batch[t])'
        BY <2>2, <3>2, <4>1, AcceptedIsHeld
      <4> QED BY <2>4, <4>1, <4>2
    <3> QED BY <1>3, <2>1, <2>2, <3>1, <3>2
  <2> QED BY <2>1, <2>4, <2>5 DEF HeldBy
<1>4. ASSUME reply'[a] # Idle, NEW t \in reply'[a].acked
      PROVE  t \in Done(a)' /\ HeldBy(a, t, journal[a][t].report)'
  <2>1. CASE reply'[a] = reply[a]
    BY <1>1, <1>2, <1>4, <2>1 DEF Acknowledged
  <2>2. ASSUME NEW s \in Slots, NEW S \in SUBSET Open(a), request[a][s].stage = "ingested",
               reply'[a] = [stage |-> "reply", acked |-> DOMAIN request[a][s].results,
                            tasks |-> [u \in S |-> task[u].request]]
        PROVE  t \in Done(a) /\ HeldBy(a, t, journal[a][t].report)
    <3>1. t \in DOMAIN request[a][s].results /\ request[a][s] # Idle
      BY <1>4, <2>2 DEF Idle
    <3>2. HeldBy(a, t, request[a][s].results[t])
      BY <1>1, <2>2, <3>1 DEF Acknowledged
    <3> QED BY <3>1, <3>2 DEF Answers, ResultsSaid, Said
  <2> QED BY <1>2, <1>4, <2>1, <2>2, ReplyNext
<1>5. ASSUME NEW t \in Done(a)' \ outbox'[a]
      PROVE  HeldBy(a, t, journal[a][t].report)'
  <2>1. t \in Done(a) /\ (t \notin outbox[a] \/ (reply[a] # Idle /\ t \in reply[a].acked))
    BY OutboxNext
  <2>2. HeldBy(a, t, journal[a][t].report)
    BY <1>1, <2>1 DEF Acknowledged
  <2> QED BY <1>2, <2>1, <2>2
<1> QED BY <1>3, <1>4, <1>5

LEMMA AcknowledgedAlways == DSpec => []Acknowledged
<1>1. DInit => Acknowledged
  BY DEF DInit, Acknowledged, Idle, Done, NoneHeld
<1>2. DTypeOK /\ DTypeOK' /\ Answers /\ Acknowledged /\ [DNext]_dvars => Acknowledged'
  BY AcknowledgedNext DEF DTypeOK
<1> QED BY <1>1, <1>2, DTyped, AnswersAlways, PTL DEF DSpec

\* What the agent may forget the control plane has on record: however requests
\* and replies were lost or delayed, a result leaves the outbox only committed.
THEOREM AcknowledgedAlwaysHeld == DSpec => []AcknowledgedIsHeld
<1>1. DTypeOK /\ Acknowledged => AcknowledgedIsHeld
  BY DEF DTypeOK, TypeOK, Acknowledged, AcknowledgedIsHeld
<1> QED BY <1>1, DTyped, AcknowledgedAlways, PTL
-----------------------------------------------------------------------------
LEMMA TableToSave ==
  ASSUME RetriesFailed, OneTaskPerKey, WithinQuotas
  PROVE  RowsIn(task) /\ EvidenceRoomIn(evidence)
<1>1. RetriesIn(task) /\ KeysIn(task)
  BY DEF RetriesIn, RetriesFailed, KeysIn, OneTaskPerKey, Stored
<1>2. ASSUME NEW a
      PROVE  ActiveOf(a) = {t \in TaskIds : task[t].status \in Active /\ task[t].agent = a}
  BY DEF ActiveOf, Owned, Stored, Active
<1>3. RoomIn(task)
  BY <1>2 DEF RoomIn, WithinQuotas
<1>4. EvidenceRoomIn(evidence)
  BY DEF EvidenceRoomIn, Fenced, WithinQuotas
<1> QED BY <1>1, <1>3, <1>4 DEF RowsIn

LEMMA TableBroughtBack ==
  ASSUME task' = backup.task, evidence' \in {backup.evidence, evidence},
         RowsIn(backup.task), EvidenceRoomIn(backup.evidence), WithinQuotas
  PROVE  (RetriesFailed /\ OneTaskPerKey /\ WithinQuotas)'
<1>1. RetriesIn(task') /\ KeysIn(task') /\ RoomIn(task')
  BY DEF RowsIn
<1>2. RetriesFailed' /\ OneTaskPerKey'
  BY <1>1 DEF RetriesIn, RetriesFailed, KeysIn, OneTaskPerKey, Stored
<1>3. ASSUME NEW a
      PROVE  ActiveOf(a)' = {t \in TaskIds : task'[t].status \in Active /\ task'[t].agent = a}
  BY DEF ActiveOf, Owned, Stored, Active
<1>4. \A a \in Agents : Cardinality(ActiveOf(a)') <= MaxActive
  BY <1>1, <1>3 DEF RoomIn
<1>5. EvidenceRoomIn(evidence')
  <2>1. EvidenceRoomIn(evidence)
    BY DEF WithinQuotas, EvidenceRoomIn, Fenced
  <2> QED BY <2>1
<1>6. \A a \in Agents : Cardinality(Fenced(a)') <= MaxEvidence
  BY <1>5 DEF EvidenceRoomIn, Fenced
<1> QED BY <1>2, <1>4, <1>6 DEF WithinQuotas

LEMMA TablesKept ==
  ASSUME DTypeOK, TypeOK', Tables, [DNext]_dvars
  PROVE  Tables'
<1> USE DEF DTypeOK, Tables
<1>1. RowsIn(task) /\ EvidenceRoomIn(evidence)
  BY TableToSave
<1>2. RowsIn(backup'.task) /\ EvidenceRoomIn(backup'.evidence)
  <2>1. backup' \in {backup, [task |-> task, evidence |-> evidence]}
    BY TablesNext DEF Restore
  <2> QED BY <1>1, <2>1
<1>3. CASE Restore
  <2>1. task' = backup.task /\ evidence' \in {backup.evidence, evidence}
    BY <1>3 DEF Restore
  <2> QED BY <1>2, <2>1, TableBroughtBack
<1>4. CASE task' = task /\ evidence' = evidence
  BY <1>2, <1>4 DEF RetriesFailed, OneTaskPerKey, WithinQuotas, Stored, ActiveOf, Owned, Fenced
<1>5. ASSUME NEW a \in Agents, Exchange(a) PROVE (RetriesFailed /\ OneTaskPerKey /\ WithinQuotas)'
  <2>1. Operation(a)
    BY <1>5, ExchangeOperates
  <2>2. RetriesFailed' /\ OneTaskPerKey'
    BY <2>1, OperationRetries, OperationKeys
  <2>3. WithinQuotas'
    <3>1. \A b \in Agents : Cardinality(ActiveOf(b)') <= MaxActive /\ Cardinality(Fenced(b)') <= MaxEvidence
      BY <2>1, OperationActive, OperationEvidence DEF WithinQuotas
    <3> QED BY <3>1 DEF WithinQuotas
  <2> QED BY <2>2, <2>3
<1> QED BY <1>2, <1>3, <1>4, <1>5, TablesNext

LEMMA TablesAlways == DSpec => []Tables
<1>1. DInit => Tables
  <2> SUFFICES ASSUME DInit PROVE Tables
    OBVIOUS
  <2>1. RetriesFailed /\ OneTaskPerKey
    BY DEF DInit, Init, RetriesFailed, OneTaskPerKey, Stored, NoRow
  <2>2. WithinQuotas
    <3>1. \A a \in Agents : ActiveOf(a) = {} /\ Fenced(a) = {}
      BY DEF DInit, Init, ActiveOf, Owned, Stored, Fenced, NoRow
    <3>2. Cardinality({}) = 0 /\ 0 <= MaxActive /\ 0 <= MaxEvidence
      BY FS_EmptySet, ConstantsAssumption
    <3> QED BY <3>1, <3>2 DEF WithinQuotas
  <2>3. RowsIn(backup.task) /\ EvidenceRoomIn(backup.evidence)
    BY <2>1, <2>2, TableToSave DEF DInit
  <2> QED BY <2>1, <2>2, <2>3 DEF Tables
<1>2. DTypeOK /\ DTypeOK' /\ Tables /\ [DNext]_dvars => Tables'
  BY TablesKept DEF DTypeOK
<1> QED BY <1>1, <1>2, DTyped, PTL DEF DSpec

\* A retry repeats only what the agent itself reported as failed.
THEOREM RetryAlwaysAfterFailure == DSpec => []RetryOnlyAfterFailure
<1>1. DTypeOK /\ Answers /\ Tables => RetryOnlyAfterFailure
  <2> SUFFICES ASSUME DTypeOK, Answers, Tables, NEW t \in Stored, task[t].request.supersedes # NoTaskId
               PROVE  LET j == journal[task[t].agent][task[t].request.supersedes]
                      IN j.state = "done" /\ ~j.report.outcome.ok /\ ~j.report.outcome.indeterminate
    BY DEF RetryOnlyAfterFailure
  <2> DEFINE s == task[t].request.supersedes
  <2>1. t \in TaskIds /\ task[t] \in Row /\ s \in TaskIds
    BY StoredRow DEF DTypeOK, Stored, Row, Request
  <2>2. s \in Stored /\ task[s].agent = task[t].agent /\ task[s].status = "failed"
    BY <2>1 DEF Tables, RetriesFailed
  <2>3. Said(task[t].agent, s, task[s].report) /\ "failed" = ResultStatus(task[s].report.outcome)
    BY <2>1, <2>2 DEF Answers, EndsSaid, Terminal
  <2>4. ~task[s].report.outcome.ok /\ ~task[s].report.outcome.indeterminate
    BY <2>3 DEF ResultStatus
  <2> QED BY <2>3, <2>4 DEF Said, Done
<1> QED BY <1>1, DTyped, AnswersAlways, TablesAlways, PTL

\* Bringing back old tables breaks neither the keys, nor the replay of
\* creations, nor the caps: NodeTasks' promises about rows survive a restore.
THEOREM PromisesOutliveRestores == DSpec => [](OneTaskPerKey /\ CreationReplays /\ WithinQuotas)
<1>1. DTypeOK /\ Tables => OneTaskPerKey /\ CreationReplays /\ WithinQuotas
  BY RetriesReplay DEF DTypeOK, Tables
<1> QED BY <1>1, DTyped, TablesAlways, PTL
-----------------------------------------------------------------------------
\* A task whose result is on record is not offered again, and evidence is never
\* promoted to an outcome, whatever reports and offers follow.
THEOREM AnsweredAlwaysStaysPut == DSpec => AnsweredStaysPut
<1> DEFINE Put == restores' = restores =>
      \A a \in agents : \A t \in Owned(a) \cap Done(a) :
        HeldBy(a, t, journal[a][t].report) =>
          task'[t].offered = task[t].offered /\ task'[t].status = task[t].status
<1>1. DTypeOK /\ TypeOK' /\ [DNext]_dvars => [Put]_dvars
  <2> SUFFICES ASSUME DTypeOK, TypeOK', [DNext]_dvars, restores' = restores,
                      NEW a \in Agents, NEW t \in Owned(a), HeldBy(a, t, journal[a][t].report)
               PROVE  task'[t].offered = task[t].offered /\ task'[t].status = task[t].status
    BY DEF DTypeOK, TypeOK
  <2> USE DEF DTypeOK
  <2>1. ~Restore
    BY DEF Restore, SavedType
  <2>2. /\ t \in Stored /\ t \in TaskIds /\ task[t].agent = a /\ task[t] \in Row
        /\ task[t].status \in Terminal \/ t \in Fenced(a)
    BY StoredRow DEF Owned, Stored, HeldBy
  <2>3. ASSUME NEW b \in Agents, NEW u \in TaskIds, NEW req \in Requests, CreateOrGet(b, u, req)
        PROVE  task'[t] = task[t]
    BY <2>2, <2>3, CreatedRow
  <2>4. ASSUME NEW b \in Agents, NEW budget \in Budgets, NEW S \in SUBSET TaskIds,
               OfferTasks(b, Kinds, TRUE, budget, S)
        PROVE  task'[t].offered = task[t].offered /\ task'[t].status = task[t].status
    <3>1. \/ task'[t] = task[t]
          \/ task'[t] = [task[t] EXCEPT !.closed = "task_authorization_expired"]
      <4>1. t \in Open(b) => b = a /\ task[t].status \notin Terminal
        BY <2>2, OpenRow
      <4> QED BY <2>2, <2>4, <4>1, OfferedRows
    <3> QED BY <2>2, <3>1 DEF Row
  <2>5. ASSUME NEW b \in Agents, NEW batch \in AnyBatch, CompleteBatch(b, batch)
        PROVE  task'[t].offered = task[t].offered /\ task'[t].status = task[t].status
    <3>1. CASE t \notin DOMAIN batch
      BY <2>2, <2>5, <3>1 DEF CompleteBatch
    <3>2. CASE t \in DOMAIN batch
      <4>1. b = a
        BY <2>2, <2>5, <3>2, BatchAdmitted DEF Admissible
      <4>2. task'[t] = Settle(a, t, batch[t])
        BY <2>2, <2>5, <3>2, <4>1 DEF CompleteBatch
      <4>3. task'[t] = task[t] \/ task'[t] = [task[t] EXCEPT !.closed = ClosedBecause(a, t)]
        BY <2>2, <4>2 DEF Settle
      <4> QED BY <2>2, <4>3 DEF Row
    <3> QED BY <3>1, <3>2
  <2>6. ASSUME NEW b \in Agents, Exchange(b)
        PROVE  task'[t].offered = task[t].offered /\ task'[t].status = task[t].status
    <3>1. \A s \in Slots : request[b][s].stage = "sent" => request[b][s].results \in AnyBatch
      BY HeldResults DEF Idle
    <3> QED BY <2>3, <2>4, <2>5, <2>6, <3>1 DEF Exchange
  <2> QED BY <2>1, <2>6, TablesNext
<1>2. [Put]_dvars => [restores' = restores =>
      \A a \in agents : \A t \in Owned(a) \cap Done(a) :
        HeldBy(a, t, journal[a][t].report) =>
          task'[t].offered = task[t].offered /\ task'[t].status = task[t].status]_dvars
  OBVIOUS
<1> QED BY <1>1, <1>2, DTyped, PTL DEF DSpec, AnsweredStaysPut, DTypeOK

\* Nothing but a restore breaks the ledger: whatever was lost, repeated or
\* brought back before, every step of the exchange moves entries only forward.
LedgerButForRestores ==
  Ledger!LInit /\ [][restores' = restores => [Ledger!LNext]_Book]_dvars

\* The exchange with the agents implements the ledger of NodeTasks between any
\* two restores, also on tables that a restore brought back.
THEOREM ExchangeKeepsLedger == DSpec => LedgerButForRestores
<1>1. DInit => Ledger!LInit
  BY DEF DInit, Init, Ledger!LInit, EntryOf, Owned, Stored, Fenced, NoRow
<1>2. DTypeOK /\ TypeOK' /\ [DNext]_dvars => [restores' = restores => [Ledger!LNext]_Book]_dvars
  <2> SUFFICES ASSUME DTypeOK, TypeOK', [DNext]_dvars, restores' = restores
               PROVE  [Ledger!LNext]_Book
    OBVIOUS
  <2>1. ~Restore
    BY DEF Restore, DTypeOK, SavedType
  <2>2. ASSUME NEW a \in Agents, Exchange(a) PROVE Ledger!LNext
    BY <2>2, ExchangeOperates, OperationForward DEF DTypeOK, Ledger!LNext
  <2>3. task' = task /\ evidence' = evidence => UNCHANGED Book
    BY DEF Book, EntryOf, Owned, Stored, Fenced
  <2> QED BY <2>1, <2>2, <2>3, TablesNext
<1> QED BY <1>1, <1>2, DTyped, PTL DEF DSpec, LedgerButForRestores, DTypeOK
=============================================================================
