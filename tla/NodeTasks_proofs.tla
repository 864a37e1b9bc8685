-------------------------- MODULE NodeTasks_proofs --------------------------
(***************************************************************************)
(* What NodeTasks promises for every number of agents and tasks, every     *)
(* quota, and every order of calls.                                        *)
(***************************************************************************)
EXTENDS NodeTasks, FiniteSetTheorems, TLAPS

\* A row is never the empty row: they differ in their status.
LEMMA RowIsNotEmpty == \A r \in Row : r # NoRow /\ r.status # "absent"
BY DEF Row, NoRow, Active, Terminal

LEMMA EvidenceIsNotEmpty == \A e \in Evidence : e # NoEvidence
BY DEF Evidence, NoEvidence, Reasons

\* A stored identifier holds a row, with the fields of a row.
LEMMA StoredRow ==
  ASSUME TypeOK, NEW t \in TaskIds
  PROVE  t \in Stored <=> task[t] \in Row
BY RowIsNotEmpty DEF TypeOK, Stored, NoRow

LEMMA FencedEvidence ==
  ASSUME TypeOK, NEW a \in Agents, NEW t \in TaskIds
  PROVE  t \in Fenced(a) <=> evidence[a][t] \in Evidence
BY EvidenceIsNotEmpty DEF TypeOK, Fenced

\* One report: any number of results, about any tasks.  The batches of Next are
\* those the model checker enumerates; what a step does is shown for all.
AnyBatch == UNION {[S -> Report] : S \in SUBSET TaskIds}

LEMMA BatchIsAny == Batches \subseteq AnyBatch
<1>1. Reports \subseteq Report
  BY InputsAssumption DEF Report, Outcome
<1>2. ASSUME NEW S \in SUBSET TaskIds, NEW batch \in [S -> Reports]
      PROVE  batch \in AnyBatch
  BY <1>1 DEF AnyBatch
<1> QED BY <1>2 DEF Batches

LEMMA BatchType ==
  ASSUME NEW batch \in AnyBatch
  PROVE  DOMAIN batch \subseteq TaskIds /\ \A t \in DOMAIN batch : batch[t] \in Report
BY DEF AnyBatch

LEMMA ResultStatusTerminal == \A o : ResultStatus(o) \in Terminal
BY DEF ResultStatus, Terminal

\* What a result does to a row leaves it a row.
LEMMA SettleType ==
  ASSUME TypeOK, NEW a \in Agents, NEW t \in Stored, NEW r \in Report
  PROVE  Settle(a, t, r) \in Row
<1> task[t] \in Row /\ t \in TaskIds
  BY StoredRow DEF Stored
<1>1. CASE task[t].status \in Terminal
  BY <1>1 DEF Settle
<1>2. CASE /\ task[t].status \notin Terminal
           /\ task[t].status = "queued" \/ t \in Fenced(a)
  <2>1. ClosedBecause(a, t) \in Reasons \cup {"open", "task_authorization_expired"}
    BY FencedEvidence DEF Row, Evidence, Reasons, ClosedBecause
  <2>2. Settle(a, t, r) = [task[t] EXCEPT !.closed = ClosedBecause(a, t)]
    BY <1>2 DEF Settle
  <2> QED BY <2>1, <2>2 DEF Row
<1>3. CASE /\ task[t].status \notin Terminal
           /\ ~(task[t].status = "queued" \/ t \in Fenced(a))
  <2>1. Settle(a, t, r) = [task[t] EXCEPT !.status = ResultStatus(r.outcome), !.report = r]
    BY <1>3 DEF Settle
  <2>2. ResultStatus(r.outcome) \in Active \cup Terminal
    BY ResultStatusTerminal
  <2> QED BY <2>1, <2>2 DEF Row
<1> QED BY <1>1, <1>2, <1>3

-----------------------------------------------------------------------------
\* The operations on an agent's tables: creation, the offers of a response, and
\* the results of a report of any size.
Operation(a) ==
  \/ \E t \in TaskIds, req \in Requests : CreateOrGet(a, t, req)
  \/ \E kinds \in SUBSET Kinds, expiry \in BOOLEAN, budget \in Budgets, S \in SUBSET TaskIds :
       OfferTasks(a, kinds, expiry, budget, S)
  \/ \E batch \in AnyBatch : CompleteBatch(a, batch)

LEMMA NextOperates ==
  ASSUME [Next]_vars
  PROVE  \/ \E a \in Agents : Operation(a) \/ DeleteAgent(a)
         \/ Tick \/ UNCHANGED vars
BY BatchIsAny DEF Next, Offer, Operation

LEMMA CreateTyped ==
  ASSUME TypeOK, NEW a \in Agents, NEW t \in TaskIds, NEW req \in Requests, CreateOrGet(a, t, req)
  PROVE  TypeOK'
<1>1. req \in Request
  BY InputsAssumption DEF Request
<1>2. Owned(a) \subseteq TaskIds /\ IsFiniteSet(Owned(a))
  BY ConstantsAssumption, FS_Subset DEF Owned, Stored
<1>3. Cardinality(Owned(a)) + 1 \in Nat
  BY <1>2, FS_CardinalityType
<1> DEFINE row == [agent |-> a, request |-> req, status |-> "queued",
                   born |-> Cardinality(Owned(a)) + 1, offered |-> 0,
                   closed |-> "open", report |-> NoReport]
<1>4. row \in Row
  BY <1>1, <1>3 DEF Row, Active
<1>5. task' = [task EXCEPT ![t] = row]
  BY DEF CreateOrGet
<1> HIDE DEF row
<1> QED BY <1>4, <1>5 DEF TypeOK, CreateOrGet

LEMMA OfferTyped ==
  ASSUME TypeOK, NEW a \in Agents, NEW kinds, NEW expiry, NEW budget, NEW S,
         OfferTasks(a, kinds, expiry, budget, S)
  PROVE  TypeOK'
<1>1. ASSUME NEW t \in Open(a)
      PROVE  /\ t \in Stored /\ task[t] \in Row
             /\ ExpireRow(t) \in Row
             /\ [task[t] EXCEPT !.status = "offered", !.offered = now] \in Row
  <2>1. t \in Stored /\ task[t] \in Row
    BY StoredRow DEF Open, ActiveOf, Owned, Stored
  <2> QED BY <2>1 DEF Row, TypeOK, Active, ExpireRow
<1>2. S \subseteq Open(a)
  BY DEF OfferTasks, Eligible
<1>3. ASSUME NEW t \in TaskIds
      PROVE  task'[t] \in Row \cup {NoRow}
  BY <1>1, <1>2 DEF OfferTasks, TypeOK
<1>4. task' \in [TaskIds -> Row \cup {NoRow}]
  BY <1>3 DEF OfferTasks
<1> QED BY <1>4 DEF OfferTasks, TypeOK

LEMMA CompleteTyped ==
  ASSUME TypeOK, NEW a \in Agents, NEW batch \in AnyBatch, CompleteBatch(a, batch)
  PROVE  TypeOK'
<1>1. ASSUME NEW t \in TaskIds
      PROVE  task'[t] \in Row \cup {NoRow}
  BY BatchType, SettleType DEF CompleteBatch, TypeOK
<1>2. task' \in [TaskIds -> Row \cup {NoRow}]
  BY <1>1 DEF CompleteBatch
<1>3. ASSUME NEW t \in DOMAIN batch
      PROVE  EvidenceFor(t, batch[t]) \in Evidence
  BY <1>3, BatchType DEF EvidenceFor, Evidence, Reasons
<1> DEFINE row == [t \in TaskIds |->
             IF t \in NewEvidence(a, batch) THEN EvidenceFor(t, batch[t]) ELSE evidence[a][t]]
<1>4. row \in [TaskIds -> Evidence \cup {NoEvidence}]
  BY <1>3 DEF NewEvidence, TypeOK
<1>5. evidence' = [evidence EXCEPT ![a] = row]
  BY DEF CompleteBatch, TypeOK
<1> HIDE DEF row
<1> QED BY <1>2, <1>4, <1>5 DEF CompleteBatch, TypeOK

LEMMA OperationTyped ==
  ASSUME TypeOK, NEW a \in Agents, Operation(a)
  PROVE  TypeOK'
BY CreateTyped, OfferTyped, CompleteTyped DEF Operation

\* The tables, the clock and the agents keep their shape whatever is called.
THEOREM TypeCorrect == Spec => []TypeOK
<1>1. Init => TypeOK
  BY DEF Init, TypeOK
<1>2. TypeOK /\ [Next]_vars => TypeOK'
  <2> SUFFICES ASSUME TypeOK, [Next]_vars PROVE TypeOK'
    OBVIOUS
  <2>1. ASSUME NEW a \in Agents, DeleteAgent(a) PROVE TypeOK'
    BY <2>1 DEF DeleteAgent, TypeOK
  <2>2. CASE Tick
    BY <2>2 DEF Tick, TypeOK
  <2>3. CASE UNCHANGED vars
    BY <2>3 DEF vars, TypeOK
  <2> QED BY <2>1, <2>2, <2>3, NextOperates, OperationTyped
<1> QED BY <1>1, <1>2, PTL DEF Spec
-----------------------------------------------------------------------------
\* What offers and results have in common: no task appears, vanishes or is
\* asked anew, an end is final, and a closed dispatch stays closed.
KeepsTasks ==
  /\ Stored' = Stored
  /\ \A t \in Stored :
       /\ task'[t].agent = task[t].agent
       /\ task'[t].request = task[t].request
       /\ task[t].status \in Terminal => task'[t] = task[t]
       /\ task[t].closed # "open" =>
            task'[t].closed = task[t].closed /\ task'[t].offered = task[t].offered

LEMMA StoredNext ==
  ASSUME TypeOK', NEW t \in TaskIds
  PROVE  t \in Stored' <=> task'[t] \in Row
BY RowIsNotEmpty DEF TypeOK, Stored, NoRow

\* What a creation adds: one queued row, of a task nobody has and nobody answered.
LEMMA CreatedRow ==
  ASSUME TypeOK, NEW a \in Agents, NEW u \in TaskIds, NEW req, CreateOrGet(a, u, req)
  PROVE  /\ u \notin Stored /\ u \notin Fenced(a) /\ Stored' = Stored \cup {u}
         /\ task'[u].agent = a /\ task'[u].request = req /\ task'[u].status = "queued"
         /\ task'[u].offered = 0 /\ task'[u].closed = "open"
         /\ \A t \in TaskIds : t # u => task'[t] = task[t]
         /\ \A b \in Agents : Fenced(b)' = Fenced(b)
<1>1. u \notin Stored /\ u \notin Fenced(a)
  BY DEF CreateOrGet, CreateVerdict
<1>2. /\ task'[u].agent = a /\ task'[u].request = req /\ task'[u].status = "queued"
      /\ task'[u].offered = 0 /\ task'[u].closed = "open"
      /\ \A t \in TaskIds : t # u => task'[t] = task[t]
      /\ \A b \in Agents : Fenced(b)' = Fenced(b)
  BY DEF CreateOrGet, TypeOK, Fenced
<1>3. Stored' = Stored \cup {u}
  BY <1>1, <1>2 DEF Stored
<1> QED BY <1>1, <1>2, <1>3

LEMMA OpenRow ==
  ASSUME TypeOK, NEW a \in Agents, NEW t \in Open(a)
  PROVE  /\ t \in Stored /\ t \in TaskIds /\ task[t] \in Row /\ task[t].agent = a
         /\ task[t].status \in Active /\ task[t].status \notin Terminal /\ task[t].closed = "open"
BY StoredRow DEF Open, ActiveOf, Owned, Stored, Active, Terminal

\* An offer does one of three things to a row: nothing, close it, or mark it.
LEMMA OfferedRows ==
  ASSUME TypeOK, NEW a \in Agents, NEW kinds, NEW expiry, NEW budget, NEW S,
         OfferTasks(a, kinds, expiry, budget, S), NEW t \in TaskIds
  PROVE  \/ task'[t] = task[t]
         \/ t \in Open(a) /\ task'[t] = [task[t] EXCEPT !.closed = "task_authorization_expired"]
         \/ /\ t \in Open(a) /\ t \notin Fenced(a) /\ ~Expired(t)
            /\ task'[t] = [task[t] EXCEPT !.status = "offered", !.offered = now]
BY DEF OfferTasks, Eligible, ExpireRow

LEMMA OfferKeeps ==
  ASSUME TypeOK, TypeOK', NEW a \in Agents, NEW kinds, NEW expiry, NEW budget, NEW S,
         OfferTasks(a, kinds, expiry, budget, S)
  PROVE  KeepsTasks
<1>1. ASSUME NEW t \in Open(a)
      PROVE  /\ [task[t] EXCEPT !.closed = "task_authorization_expired"] \in Row
             /\ [task[t] EXCEPT !.status = "offered", !.offered = now] \in Row
  <2>1. task[t] \in Row /\ now \in Nat
    BY OpenRow DEF TypeOK
  <2> QED BY <2>1 DEF Row, Active
<1>2. ASSUME NEW t \in TaskIds
      PROVE  t \in Stored' <=> t \in Stored
  <2>1. ASSUME t \in Open(a)
        PROVE  (t \in Stored /\ task'[t] \in Row) \/ task'[t] = task[t]
    <3>1. t \in Stored
      BY <2>1, OpenRow
    <3>2. task'[t] \in Row \/ task'[t] = task[t]
      BY <1>1, <2>1, OfferedRows
    <3> QED BY <3>1, <3>2
  <2>2. t \notin Open(a) => task'[t] = task[t]
    BY OfferedRows
  <2> QED BY <2>1, <2>2, StoredRow, StoredNext
<1>3. Stored' = Stored
  BY <1>2 DEF Stored
<1>4. ASSUME NEW t \in Stored
      PROVE  /\ task'[t].agent = task[t].agent
             /\ task'[t].request = task[t].request
             /\ task[t].status \in Terminal => task'[t] = task[t]
             /\ task[t].closed # "open" =>
                  task'[t].closed = task[t].closed /\ task'[t].offered = task[t].offered
  <2>1. t \in TaskIds /\ task[t] \in Row
    BY StoredRow DEF Stored
  <2>2. CASE task'[t] = task[t]
    BY <2>2
  <2>3. CASE t \in Open(a) /\ task'[t] = [task[t] EXCEPT !.closed = "task_authorization_expired"]
    BY <2>1, <2>3, OpenRow DEF Row
  <2>4. CASE t \in Open(a) /\ task'[t] = [task[t] EXCEPT !.status = "offered", !.offered = now]
    BY <2>1, <2>4, OpenRow DEF Row
  <2> QED BY <2>1, <2>2, <2>3, <2>4, OfferedRows
<1> QED BY <1>3, <1>4 DEF KeepsTasks

LEMMA CompleteKeeps ==
  ASSUME TypeOK, TypeOK', NEW a \in Agents, NEW batch \in AnyBatch, CompleteBatch(a, batch)
  PROVE  KeepsTasks
<1>1. \A t \in TaskIds : task'[t] = IF t \in DOMAIN batch \cap Stored THEN Settle(a, t, batch[t]) ELSE task[t]
  BY DEF CompleteBatch
<1>2. ASSUME NEW t \in TaskIds
      PROVE  t \in Stored' <=> t \in Stored
  BY <1>1, BatchType, SettleType, StoredRow, StoredNext
<1>3. Stored' = Stored
  BY <1>2 DEF Stored
<1>4. ASSUME NEW t \in Stored, NEW r
      PROVE  /\ Settle(a, t, r).agent = task[t].agent
             /\ Settle(a, t, r).request = task[t].request
             /\ task[t].status \in Terminal => Settle(a, t, r) = task[t]
             /\ Settle(a, t, r).offered = task[t].offered
             /\ task[t].closed # "open" => Settle(a, t, r).closed = task[t].closed
  <2>1. task[t] \in Row
    BY StoredRow DEF Stored
  <2>2. CASE Settle(a, t, r) = task[t]
    BY <2>2
  <2>3. CASE task[t].status \notin Terminal /\ Settle(a, t, r) = [task[t] EXCEPT !.closed = ClosedBecause(a, t)]
    <3>1. task[t].closed # "open" => ClosedBecause(a, t) = task[t].closed
      BY DEF ClosedBecause
    <3> QED BY <2>1, <2>3, <3>1 DEF Row
  <2>4. CASE /\ task[t].status \notin Terminal
             /\ Settle(a, t, r) = [task[t] EXCEPT !.status = ResultStatus(r.outcome), !.report = r]
    BY <2>1, <2>4 DEF Row
  <2> QED BY <2>2, <2>3, <2>4 DEF Settle
<1>5. ASSUME NEW t \in Stored
      PROVE  task'[t] = task[t] \/ task'[t] = Settle(a, t, batch[t])
  BY <1>1 DEF Stored
<1>6. ASSUME NEW t \in Stored
      PROVE  /\ task'[t].agent = task[t].agent
             /\ task'[t].request = task[t].request
             /\ task[t].status \in Terminal => task'[t] = task[t]
             /\ task[t].closed # "open" =>
                  task'[t].closed = task[t].closed /\ task'[t].offered = task[t].offered
  <2>1. CASE task'[t] = task[t]
    BY <2>1
  <2>2. CASE task'[t] = Settle(a, t, batch[t])
    BY <1>4, <2>2
  <2> QED BY <1>5, <2>1, <2>2
<1> QED BY <1>3, <1>6 DEF KeepsTasks
-----------------------------------------------------------------------------
\* A terminal row is never written again and a closed dispatch never reopens,
\* for every order of creations, offers, results and deletions.
THEOREM SettledStays == Spec => SettledForGood
<1> DEFINE Stays == \A t \in Stored \cap Stored' :
      /\ task[t].status \in Terminal => task'[t] = task[t]
      /\ task[t].closed # "open" =>
           task'[t].closed = task[t].closed /\ task'[t].offered = task[t].offered
<1>1. TypeOK /\ TypeOK' /\ [Next]_vars => [Stays]_vars
  <2> SUFFICES ASSUME TypeOK, TypeOK', [Next]_vars PROVE [Stays]_vars
    OBVIOUS
  <2>1. ASSUME NEW a \in Agents, NEW t \in TaskIds, NEW req \in Requests, CreateOrGet(a, t, req)
        PROVE  Stays
    BY <2>1, CreatedRow DEF Stored
  <2>2. KeepsTasks => Stays
    BY DEF KeepsTasks
  <2>3. ASSUME NEW a \in Agents, DeleteAgent(a) PROVE Stays
    <3>1. \A u \in TaskIds : task'[u] = IF u \in Owned(a) THEN NoRow ELSE task[u]
      BY <2>3 DEF DeleteAgent
    <3>2. \A u \in Stored \cap Stored' : task'[u] = task[u]
      BY <3>1 DEF Stored, NoRow
    <3> QED BY <3>2
  <2>4. Tick => Stays
    BY DEF Tick
  <2> QED BY <2>1, <2>2, <2>3, <2>4, NextOperates, OfferKeeps, CompleteKeeps DEF Operation
<1>2. [Stays]_vars => [\A t \in Stored \cap Stored' :
      /\ task[t].status \in Terminal => task'[t] = task[t]
      /\ task[t].closed # "open" =>
           task'[t].closed = task[t].closed /\ task'[t].offered = task[t].offered]_vars
  OBVIOUS
<1> QED BY <1>1, <1>2, TypeCorrect, PTL DEF Spec, SettledForGood

-----------------------------------------------------------------------------
\* Whatever a task supersedes is, and stays, a failed task of the same agent.
RetriesFailed ==
  \A t, s \in TaskIds : t \in Stored /\ task[t].request.supersedes = s =>
    s \in Stored /\ task[s].agent = task[t].agent /\ task[s].status = "failed"

LEMMA KeepsRetries ==
  ASSUME TypeOK, RetriesFailed, KeepsTasks
  PROVE  RetriesFailed'
<1> SUFFICES ASSUME NEW t \in TaskIds, NEW s \in TaskIds,
                    t \in Stored', task'[t].request.supersedes = s
             PROVE  s \in Stored' /\ task'[s].agent = task'[t].agent /\ task'[s].status = "failed"
  BY DEF RetriesFailed
<1>1. t \in Stored /\ task'[t].agent = task[t].agent /\ task'[t].request = task[t].request
  BY DEF KeepsTasks
<1>2. s \in Stored /\ task[s].agent = task[t].agent /\ task[s].status = "failed"
  BY <1>1 DEF RetriesFailed
<1>3. task'[s] = task[s] /\ s \in Stored'
  BY <1>2 DEF KeepsTasks, Terminal
<1> QED BY <1>1, <1>2, <1>3

LEMMA CreateRetries ==
  ASSUME TypeOK, RetriesFailed, NEW a \in Agents, NEW u \in TaskIds, NEW req \in Requests,
         CreateOrGet(a, u, req)
  PROVE  RetriesFailed'
<1> SUFFICES ASSUME NEW t \in TaskIds, NEW s \in TaskIds,
                    t \in Stored', task'[t].request.supersedes = s
             PROVE  s \in Stored' /\ task'[s].agent = task'[t].agent /\ task'[s].status = "failed"
  BY DEF RetriesFailed
<1>1. req.supersedes # NoTaskId => Supersedable(a, req.supersedes)
  BY DEF CreateOrGet, CreateVerdict
<1>2. \A v \in Stored : v \in Stored' /\ task'[v] = task[v]
  BY CreatedRow DEF Stored
<1>3. CASE t = u
  <2>1. Supersedable(a, s)
    BY <1>1, <1>3, CreatedRow, ConstantsAssumption
  <2>2. s \in Stored /\ task[s].agent = a /\ task[s].status = "failed"
    BY <2>1 DEF Supersedable, Owned
  <2> QED BY <1>2, <1>3, <2>2, CreatedRow
<1>4. CASE t # u
  <2>1. t \in Stored /\ task'[t] = task[t]
    BY <1>4, CreatedRow
  <2>2. s \in Stored /\ task[s].agent = task[t].agent /\ task[s].status = "failed"
    BY <2>1 DEF RetriesFailed
  <2> QED BY <1>2, <2>1, <2>2
<1> QED BY <1>3, <1>4

LEMMA OperationRetries ==
  ASSUME TypeOK, TypeOK', RetriesFailed, NEW a \in Agents, Operation(a)
  PROVE  RetriesFailed'
BY CreateRetries, OfferKeeps, CompleteKeeps, KeepsRetries DEF Operation

LEMMA RetriesAlways == Spec => []RetriesFailed
<1>1. Init => RetriesFailed
  BY DEF Init, RetriesFailed, Stored, NoRow
<1>2. TypeOK /\ TypeOK' /\ RetriesFailed /\ [Next]_vars => RetriesFailed'
  <2> SUFFICES ASSUME TypeOK, TypeOK', RetriesFailed, [Next]_vars PROVE RetriesFailed'
    OBVIOUS
  <2>1. ASSUME NEW a \in Agents, DeleteAgent(a) PROVE RetriesFailed'
    <3>1. \A u \in TaskIds : task'[u] = IF u \in Owned(a) THEN NoRow ELSE task[u]
      BY <2>1 DEF DeleteAgent
    <3>2. \A u \in TaskIds : u \in Stored' <=> u \in Stored /\ task[u].agent # a
      BY <3>1 DEF Stored, NoRow, Owned
    <3>3. ASSUME NEW t \in TaskIds, NEW s \in TaskIds,
                 t \in Stored', task'[t].request.supersedes = s
          PROVE  s \in Stored' /\ task'[s].agent = task'[t].agent /\ task'[s].status = "failed"
      <4>1. t \in Stored /\ task[t].agent # a /\ task'[t] = task[t]
        BY <3>1, <3>2, <3>3 DEF Owned
      <4>2. s \in Stored /\ task[s].agent = task[t].agent /\ task[s].status = "failed"
        BY <3>3, <4>1 DEF RetriesFailed
      <4>3. s \in Stored' /\ task'[s] = task[s]
        BY <3>1, <3>2, <4>1, <4>2 DEF Owned
      <4> QED BY <4>1, <4>2, <4>3
    <3> QED BY <3>3 DEF RetriesFailed
  <2>2. ASSUME Tick \/ UNCHANGED vars PROVE RetriesFailed'
    BY <2>2 DEF Tick, vars, RetriesFailed, Stored
  <2> QED BY <2>1, <2>2, NextOperates, OperationRetries
<1> QED BY <1>1, <1>2, TypeCorrect, PTL DEF Spec

LEMMA RetriesReplay ==
  ASSUME TypeOK, RetriesFailed
  PROVE  CreationReplays
<1> SUFFICES ASSUME NEW t \in Stored
             PROVE  CreateVerdict(task[t].agent, t, task[t].request) = "replay"
  BY DEF CreationReplays
<1> DEFINE req == task[t].request
<1>1. req \in Request
  BY StoredRow DEF Stored, Row
<1>2. [req EXCEPT !.notAfter = req.notAfter] = req
  BY <1>1 DEF Request
<1>3. req.supersedes # NoTaskId => Supersedable(task[t].agent, req.supersedes)
  BY <1>1, StoredRow DEF RetriesFailed, Supersedable, Owned, Request, Stored
<1> QED BY <1>2, <1>3 DEF CreateVerdict, SameRequest

\* A caller may repeat the request that made a task in every later state.
THEOREM CreationAlwaysReplays == Spec => []CreationReplays
BY RetriesReplay, TypeCorrect, RetriesAlways, PTL
-----------------------------------------------------------------------------
\* What the record says of one task: queued until offered, never offered at or
\* past its deadline, and ended by a report on that very task.
Told(t) ==
  t \in Stored =>
    /\ task[t].status = "queued" <=> task[t].offered = 0
    /\ task[t].offered # 0 /\ task[t].request.notAfter # 0 =>
         task[t].offered < task[t].request.notAfter
    /\ task[t].status \in Terminal =>
         /\ task[t].report \in Report
         /\ task[t].status = ResultStatus(task[t].report.outcome)
         /\ task[t].report.input = task[t].request.input
         /\ task[t].report.notAfter = task[t].request.notAfter

\* And of one task of an agent that has evidence about it: it is fenced, and
\* the evidence is about that very task.
Fencing(a, t) ==
  t \in Stored /\ task[t].agent = a /\ t \in Fenced(a) =>
    /\ task[t].status = "queued" /\ task[t].closed # "open"
    /\ evidence[a][t].report.input = task[t].request.input
    /\ evidence[a][t].report.notAfter = task[t].request.notAfter

RecordInv == \A t \in TaskIds : Told(t) /\ \A a \in Agents : Fencing(a, t)

LEMMA OfferRecords ==
  ASSUME TypeOK, TypeOK', RecordInv, NEW a \in Agents, NEW kinds, NEW expiry, NEW budget, NEW S,
         OfferTasks(a, kinds, expiry, budget, S)
  PROVE  RecordInv'
<1>1. KeepsTasks /\ evidence' = evidence
  BY OfferKeeps DEF OfferTasks
<1>2. \A b \in Agents : Fenced(b)' = Fenced(b)
  BY <1>1 DEF Fenced
<1> SUFFICES ASSUME NEW t \in TaskIds PROVE Told(t)' /\ \A b \in Agents : Fencing(b, t)'
  BY DEF RecordInv
<1>3. CASE task'[t] = task[t]
  BY <1>1, <1>2, <1>3 DEF KeepsTasks, RecordInv, Told, Fencing
<1>4. CASE t \in Open(a) /\ task'[t] = [task[t] EXCEPT !.closed = "task_authorization_expired"]
  <2>1. /\ task'[t].agent = task[t].agent /\ task'[t].request = task[t].request
        /\ task'[t].status = task[t].status /\ task'[t].offered = task[t].offered
        /\ task'[t].report = task[t].report /\ task'[t].closed # "open"
    BY <1>4, OpenRow DEF Row
  <2> QED BY <1>1, <1>2, <2>1 DEF KeepsTasks, RecordInv, Told, Fencing
<1>5. CASE /\ t \in Open(a) /\ t \notin Fenced(a) /\ ~Expired(t)
           /\ task'[t] = [task[t] EXCEPT !.status = "offered", !.offered = now]
  <2>1. /\ task'[t].agent = a /\ task'[t].request = task[t].request
        /\ task'[t].status = "offered" /\ task'[t].offered = now
        /\ task[t].request.notAfter \in Nat /\ now \in Nat \ {0}
    BY <1>5, OpenRow DEF Row, Request, TypeOK
  <2>2. task[t].request.notAfter # 0 => now < task[t].request.notAfter
    BY <1>5, <2>1 DEF Expired
  <2> QED BY <1>2, <1>5, <2>1, <2>2 DEF Told, Fencing, Terminal
<1> QED BY <1>3, <1>4, <1>5, OfferedRows

\* What a batch leaves in the evidence table.
LEMMA BatchEvidence ==
  ASSUME TypeOK, NEW a \in Agents, NEW batch \in AnyBatch, CompleteBatch(a, batch),
         NEW b \in Agents, NEW t \in TaskIds
  PROVE  evidence'[b][t] = IF b = a /\ t \in NewEvidence(a, batch)
                           THEN EvidenceFor(t, batch[t]) ELSE evidence[b][t]
BY DEF CompleteBatch, TypeOK

LEMMA BatchFences ==
  ASSUME TypeOK, NEW a \in Agents, NEW batch \in AnyBatch, CompleteBatch(a, batch), NEW b \in Agents
  PROVE  Fenced(b)' = IF b = a THEN Fenced(b) \cup NewEvidence(a, batch) ELSE Fenced(b)
<1>1. NewEvidence(a, batch) \subseteq TaskIds
  BY BatchType DEF NewEvidence
<1>2. \A t \in DOMAIN batch : EvidenceFor(t, batch[t]) # NoEvidence
  BY BatchType, EvidenceIsNotEmpty DEF EvidenceFor, Evidence, Reasons
<1>3. NewEvidence(a, batch) \subseteq DOMAIN batch
  BY DEF NewEvidence
<1> QED BY <1>1, <1>2, <1>3, BatchEvidence DEF Fenced

LEMMA BatchAdmitted ==
  ASSUME NEW a \in Agents, NEW batch \in AnyBatch, CompleteBatch(a, batch), NEW t \in DOMAIN batch
  PROVE  Admissible(a, t, batch[t])
BY DEF CompleteBatch, CompleteVerdict

LEMMA CompleteRecords ==
  ASSUME TypeOK, TypeOK', RecordInv, NEW a \in Agents, NEW batch \in AnyBatch, CompleteBatch(a, batch)
  PROVE  RecordInv'
<1>1. KeepsTasks
  BY CompleteKeeps
<1> SUFFICES ASSUME NEW t \in TaskIds PROVE Told(t)' /\ \A b \in Agents : Fencing(b, t)'
  BY DEF RecordInv
<1>2. CASE t \notin Stored
  BY <1>1, <1>2 DEF KeepsTasks, Told, Fencing
<1>3. CASE t \in Stored /\ t \notin DOMAIN batch
  <2>1. task'[t] = task[t] /\ t \notin NewEvidence(a, batch)
    BY <1>3 DEF CompleteBatch, NewEvidence
  <2>2. \A b \in Agents : evidence'[b][t] = evidence[b][t]
    BY <2>1, BatchEvidence
  <2>3. \A b \in Agents : t \in Fenced(b)' <=> t \in Fenced(b)
    BY <2>1, BatchFences
  <2> QED BY <1>1, <2>1, <2>2, <2>3 DEF KeepsTasks, RecordInv, Told, Fencing
<1>4. CASE t \in Stored /\ t \in DOMAIN batch
  <2> DEFINE r == batch[t]
  <2>1. /\ task[t] \in Row /\ r \in Report
        /\ task'[t] = Settle(a, t, r)
    BY <1>4, StoredRow, BatchType DEF CompleteBatch
  <2>2. /\ task[t].agent = a /\ task[t].request.input = r.input /\ task[t].request.notAfter = r.notAfter
        /\ t \in Fenced(a) => evidence[a][t].report = r
    BY <1>4, BatchAdmitted DEF Admissible
  <2>3. t \in NewEvidence(a, batch) <=> t \notin Fenced(a) /\ task[t].status = "queued"
    BY <1>4 DEF NewEvidence, NeedsEvidence
  <2>4. t \in Fenced(a)' <=> t \in Fenced(a) \/ task[t].status = "queued"
    BY <2>3, BatchFences
  <2>5. t \in Fenced(a)' => evidence'[a][t].report = r
    <3>1. CASE t \in NewEvidence(a, batch)
      <4>1. evidence'[a][t] = EvidenceFor(t, r)
        BY <3>1, BatchEvidence
      <4> QED BY <4>1 DEF EvidenceFor
    <3>2. CASE t \notin NewEvidence(a, batch)
      <4>1. evidence'[a][t] = evidence[a][t]
        BY <3>2, BatchEvidence
      <4>2. t \in Fenced(a)' => t \in Fenced(a)
        BY <2>3, <2>4, <3>2
      <4> QED BY <2>2, <4>1, <4>2
    <3> QED BY <3>1, <3>2
  <2>6. Told(t) /\ Fencing(a, t)
    BY DEF RecordInv
  <2> HIDE DEF r
  <2>7. CASE task[t].status \in Terminal
    <3>1. task'[t] = task[t] /\ t \notin Fenced(a)'
      BY <1>4, <2>1, <2>2, <2>4, <2>6, <2>7 DEF Settle, Fencing, Terminal
    <3> QED BY <1>1, <1>4, <2>2, <2>6, <3>1 DEF KeepsTasks, Told, Fencing
  <2>8. CASE task[t].status = "queued"
    <3>1. task'[t] = [task[t] EXCEPT !.closed = ClosedBecause(a, t)]
      BY <2>1, <2>8 DEF Settle, Terminal
    <3>2. ClosedBecause(a, t) # "open"
      BY FencedEvidence DEF ClosedBecause, Evidence, Reasons
    <3>3. /\ task'[t].agent = a /\ task'[t].request = task[t].request
          /\ task'[t].status = "queued" /\ task'[t].offered = task[t].offered
          /\ task'[t].closed # "open"
      BY <2>1, <2>2, <2>8, <3>1, <3>2 DEF Row
    <3> QED BY <1>1, <1>4, <2>2, <2>5, <2>6, <2>8, <3>3 DEF KeepsTasks, Told, Fencing, Terminal
  <2>9. CASE task[t].status = "offered"
    <3>1. t \notin Fenced(a) /\ t \notin Fenced(a)'
      BY <1>4, <2>2, <2>4, <2>6, <2>9 DEF Fencing
    <3>2. task'[t] = [task[t] EXCEPT !.status = ResultStatus(r.outcome), !.report = r]
      BY <2>1, <2>9, <3>1 DEF Settle, Terminal
    <3>3. /\ task'[t].agent = a /\ task'[t].request = task[t].request
          /\ task'[t].status = ResultStatus(r.outcome) /\ task'[t].offered = task[t].offered
          /\ task'[t].report = r
      BY <2>1, <2>2, <3>2 DEF Row
    <3>4. ResultStatus(r.outcome) # "queued"
      BY ResultStatusTerminal DEF Terminal
    <3> QED BY <1>4, <2>1, <2>2, <2>6, <2>9, <3>1, <3>3, <3>4 DEF Told, Fencing
  <2> QED BY <2>1, <2>7, <2>8, <2>9 DEF Row, Active
<1> QED BY <1>2, <1>3, <1>4

LEMMA CreateRecords ==
  ASSUME TypeOK, RecordInv, NEW a \in Agents, NEW u \in TaskIds, NEW req \in Requests,
         CreateOrGet(a, u, req)
  PROVE  RecordInv'
<1>1. evidence' = evidence
  BY DEF CreateOrGet
<1>2. Told(u)' /\ \A b \in Agents : Fencing(b, u)'
  BY CreatedRow DEF Told, Fencing, Terminal
<1>3. ASSUME NEW t \in TaskIds, t # u PROVE Told(t)' /\ \A b \in Agents : Fencing(b, t)'
  BY <1>1, <1>3, CreatedRow DEF RecordInv, Told, Fencing
<1> QED BY <1>2, <1>3 DEF RecordInv

LEMMA OperationRecords ==
  ASSUME TypeOK, TypeOK', RecordInv, NEW a \in Agents, Operation(a)
  PROVE  RecordInv'
BY CreateRecords, OfferRecords, CompleteRecords DEF Operation

LEMMA RecordAlways == Spec => []RecordInv
<1>1. Init => RecordInv
  BY DEF Init, RecordInv, Told, Fencing, Stored, NoRow
<1>2. TypeOK /\ TypeOK' /\ RecordInv /\ [Next]_vars => RecordInv'
  <2> SUFFICES ASSUME TypeOK, TypeOK', RecordInv, [Next]_vars PROVE RecordInv'
    OBVIOUS
  <2>1. ASSUME NEW a \in Agents, DeleteAgent(a) PROVE RecordInv'
    <3>1. \A t \in TaskIds : task'[t] = IF t \in Owned(a) THEN NoRow ELSE task[t]
      BY <2>1 DEF DeleteAgent
    <3>2. \A t \in TaskIds : t \in Stored' => t \in Stored /\ task'[t] = task[t]
      BY <3>1 DEF Stored, NoRow
    <3>3. evidence' = evidence /\ \A b \in Agents : Fenced(b)' = Fenced(b)
      BY <2>1 DEF DeleteAgent, Fenced
    <3> QED BY <3>2, <3>3 DEF RecordInv, Told, Fencing
  <2>2. ASSUME Tick \/ UNCHANGED vars PROVE RecordInv'
    BY <2>2 DEF Tick, vars, RecordInv, Told, Fencing, Stored, Fenced
  <2> QED BY <2>1, <2>2, NextOperates, OperationRecords
<1> QED BY <1>1, <1>2, TypeCorrect, PTL DEF Spec

\* A receipt of evidence never settles a task, however creation, offers, expiry
\* and reports were ordered.
THEOREM EvidenceAlwaysFences == Spec => []EvidenceFencesTask
<1>1. TypeOK /\ RecordInv => EvidenceFencesTask
  BY DEF RecordInv, Told, Fencing, EvidenceFencesTask, Owned, Stored
<1> QED BY <1>1, TypeCorrect, RecordAlways, PTL

\* A terminal task was put in a response before its deadline, and its status is
\* that of the report it carries, a report on that very task.
THEOREM TerminalAlwaysOffered == Spec => []TerminalWasOffered
<1>1. TypeOK /\ RecordInv => TerminalWasOffered
  <2> SUFFICES ASSUME TypeOK, RecordInv, NEW t \in Stored, task[t].status \in Terminal
               PROVE  /\ task[t].offered # 0
                      /\ task[t].request.notAfter # 0 => task[t].offered < task[t].request.notAfter
                      /\ task[t].report # NoReport
                      /\ task[t].status = ResultStatus(task[t].report.outcome)
                      /\ task[t].report.input = task[t].request.input
    BY DEF TerminalWasOffered
  <2>1. Told(t)
    BY DEF RecordInv, Stored
  <2>2. \A r \in Report : r # NoReport
    BY DEF Report, NoReport
  <2> QED BY <2>1, <2>2 DEF Told, Terminal
<1> QED BY <1>1, TypeCorrect, RecordAlways, PTL

\* What was once accepted is accepted again, with the evidence quota full too.
THEOREM AcceptedAlwaysReplays == Spec => []AcceptedReplays
<1>1. TypeOK /\ RecordInv => AcceptedReplays
  <2> SUFFICES ASSUME TypeOK, RecordInv, NEW a \in agents, NEW t \in TaskIds, NEW r \in Reports,
                      HeldBy(a, t, r), t \in Stored => task[t].agent = a
               PROVE  CompleteVerdict(a, [u \in {t} |-> r]) = "accept"
    BY DEF AcceptedReplays
  <2> DEFINE batch == [u \in {t} |-> r]
  <2>1. DOMAIN batch = {t} /\ batch[t] = r
    OBVIOUS
  <2>2. Told(t) /\ Fencing(a, t) /\ a \in Agents
    BY DEF RecordInv, TypeOK
  <2>3. Admissible(a, t, r)
    <3>1. CASE t \in Owned(a) /\ task[t].status \in Terminal /\ task[t].report = r
      BY <2>2, <3>1 DEF Admissible, Told, Fencing, Owned, Terminal
    <3>2. CASE t \in Fenced(a) /\ evidence[a][t].report = r
      BY <2>2, <3>2 DEF Admissible, Fencing, Terminal
    <3> QED BY <3>1, <3>2 DEF HeldBy
  <2>4. ~NeedsEvidence(a, t)
    BY DEF HeldBy, NeedsEvidence, Owned, Terminal
  <2> HIDE DEF batch
  <2>5. NewEvidence(a, batch) = {}
    BY <2>1, <2>4 DEF NewEvidence
  <2>6. CompleteVerdict(a, batch) = "accept"
    BY <2>1, <2>3, <2>5 DEF CompleteVerdict, EvidenceRoom
  <2> QED BY <2>6 DEF batch
<1> QED BY <1>1, TypeCorrect, RecordAlways, PTL
-----------------------------------------------------------------------------
\* An accepted report is on record: each of its results ended its task, was the
\* end of it already, or is evidence.
LEMMA AcceptedIsHeld ==
  ASSUME TypeOK, TypeOK', NEW a \in Agents, NEW batch \in AnyBatch, CompleteBatch(a, batch),
         NEW t \in DOMAIN batch
  PROVE  HeldBy(a, t, batch[t])'
<1> DEFINE r == batch[t]
<1>1. t \in TaskIds /\ Admissible(a, t, r)
  BY BatchType, BatchAdmitted
<1>2. CASE t \in NewEvidence(a, batch)
  <2>1. evidence'[a][t] = EvidenceFor(t, r) /\ t \in Fenced(a)'
    BY <1>1, <1>2, BatchEvidence, BatchFences
  <2> QED BY <2>1 DEF EvidenceFor, HeldBy
<1>3. CASE t \in Fenced(a)
  <2>1. t \notin NewEvidence(a, batch)
    BY <1>3 DEF NewEvidence, NeedsEvidence
  <2>2. evidence'[a][t] = evidence[a][t] /\ t \in Fenced(a)'
    BY <1>1, <1>3, <2>1, BatchEvidence, BatchFences
  <2> QED BY <1>1, <1>3, <2>2 DEF Admissible, HeldBy
<1>4. CASE t \notin Fenced(a) /\ t \notin NewEvidence(a, batch)
  <2>1. t \in Stored /\ task[t].status # "queued" /\ task[t].agent = a /\ task[t] \in Row
    BY <1>1, <1>4, StoredRow DEF NewEvidence, NeedsEvidence, Admissible
  <2>2. task'[t] = Settle(a, t, r)
    BY <1>1, <2>1 DEF CompleteBatch
  <2>3. task'[t].status \in Terminal /\ task'[t].report = r /\ task'[t].agent = a
    <3>1. CASE task[t].status \in Terminal
      BY <1>1, <2>1, <2>2, <3>1 DEF Settle, Admissible
    <3>2. CASE task[t].status \notin Terminal
      <4>1. task'[t] = [task[t] EXCEPT !.status = ResultStatus(r.outcome), !.report = r]
        BY <1>4, <2>1, <2>2, <3>2 DEF Settle
      <4> QED BY <2>1, <4>1, ResultStatusTerminal DEF Row
    <3> QED BY <3>1, <3>2
  <2>4. t \in Stored'
    BY <2>1, CompleteKeeps DEF KeepsTasks
  <2> QED BY <2>3, <2>4 DEF HeldBy, Owned
<1> QED BY <1>2, <1>3, <1>4

\* What is held stays held, whatever the report: rows that ended and evidence
\* are left as they are.
LEMMA KeepsHeld ==
  ASSUME \A u \in Stored : u \in Stored' /\ task'[u].agent = task[u].agent
                           /\ (task[u].status \in Terminal => task'[u] = task[u]),
         NEW b \in Agents, NEW t \in TaskIds,
         t \in Fenced(b) => t \in Fenced(b)' /\ evidence'[b][t] = evidence[b][t],
         NEW r, HeldBy(b, t, r)
  PROVE  HeldBy(b, t, r)'
BY DEF HeldBy, Owned

LEMMA OperationHeld ==
  ASSUME TypeOK, TypeOK', NEW a \in Agents, Operation(a),
         NEW b \in Agents, NEW t \in TaskIds, NEW r, HeldBy(b, t, r)
  PROVE  HeldBy(b, t, r)'
<1>1. ASSUME NEW batch \in AnyBatch, CompleteBatch(a, batch), t \in Fenced(b)
      PROVE  t \in Fenced(b)' /\ evidence'[b][t] = evidence[b][t]
  <2>1. t \in Fenced(b)'
    BY <1>1, BatchFences
  <2>2. ~(b = a /\ t \in NewEvidence(a, batch))
    BY <1>1 DEF NewEvidence, NeedsEvidence
  <2> QED BY <1>1, <2>1, <2>2, BatchEvidence
<1>2. ASSUME UNCHANGED evidence, t \in Fenced(b)
      PROVE  t \in Fenced(b)' /\ evidence'[b][t] = evidence[b][t]
  BY <1>2 DEF Fenced
<1>3. CASE \E u \in TaskIds, req \in Requests : CreateOrGet(a, u, req)
  <2>1. \A u \in Stored : u \in Stored' /\ task'[u] = task[u]
    BY <1>3, CreatedRow DEF Stored
  <2> QED BY <1>2, <1>3, <2>1, KeepsHeld DEF CreateOrGet
<1>4. ASSUME KeepsTasks, t \in Fenced(b) => t \in Fenced(b)' /\ evidence'[b][t] = evidence[b][t]
      PROVE  HeldBy(b, t, r)'
  BY <1>4, KeepsHeld DEF KeepsTasks
<1>5. CASE \E kinds \in SUBSET Kinds, expiry \in BOOLEAN, budget \in Budgets, S \in SUBSET TaskIds :
             OfferTasks(a, kinds, expiry, budget, S)
  BY <1>2, <1>4, <1>5, OfferKeeps DEF OfferTasks
<1>6. CASE \E batch \in AnyBatch : CompleteBatch(a, batch)
  BY <1>1, <1>4, <1>6, CompleteKeeps
<1> QED BY <1>3, <1>5, <1>6 DEF Operation

\* An acknowledged result is on record and stays there: what is held is never
\* dropped or overwritten but with its agent, and an accepted batch is held.
THEOREM ResultsAlwaysKept == Spec => ResultsKept
<1> DEFINE Kept == /\ \A a \in agents' : \A t \in TaskIds, r \in Reports : HeldBy(a, t, r) => HeldBy(a, t, r)'
                   /\ \A a \in Agents, batch \in Batches :
                        CompleteBatch(a, batch) => \A t \in DOMAIN batch : HeldBy(a, t, batch[t])'
<1>1. TypeOK /\ TypeOK' /\ [Next]_vars => [Kept]_vars
  <2> SUFFICES ASSUME TypeOK, TypeOK', Next PROVE Kept
    OBVIOUS
  <2>1. ASSUME NEW a \in Agents, NEW batch \in Batches, CompleteBatch(a, batch), NEW t \in DOMAIN batch
        PROVE  HeldBy(a, t, batch[t])'
    BY <2>1, BatchIsAny, AcceptedIsHeld
  <2>2. ASSUME NEW a \in Agents, Operation(a)
        PROVE  \A b \in agents' : \A t \in TaskIds, r \in Reports : HeldBy(b, t, r) => HeldBy(b, t, r)'
    BY <2>2, OperationHeld DEF TypeOK
  <2>3. ASSUME NEW a \in Agents, DeleteAgent(a)
        PROVE  \A b \in agents' : \A t \in TaskIds, r \in Reports : HeldBy(b, t, r) => HeldBy(b, t, r)'
    <3>1. UNCHANGED evidence /\ a \notin agents' /\ agents' \subseteq Agents
          /\ \A t \in TaskIds : task'[t] = IF t \in Owned(a) THEN NoRow ELSE task[t]
      BY <2>3 DEF DeleteAgent, TypeOK
    <3>2. \A t \in Stored : task[t].agent # a => t \in Stored' /\ task'[t] = task[t]
      BY <3>1 DEF Stored, Owned
    <3>3. \A b \in Agents : Fenced(b)' = Fenced(b)
      BY <3>1 DEF Fenced
    <3> QED BY <3>1, <3>2, <3>3 DEF HeldBy, Owned
  <2>4. ASSUME Tick \/ UNCHANGED vars
        PROVE  \A b \in agents' : \A t \in TaskIds, r \in Reports : HeldBy(b, t, r) => HeldBy(b, t, r)'
    BY <2>4 DEF Tick, vars, HeldBy, Owned, Stored, Fenced
  <2>5. \A b \in agents' : \A t \in TaskIds, r \in Reports : HeldBy(b, t, r) => HeldBy(b, t, r)'
    BY <2>2, <2>3, <2>4, NextOperates
  <2> QED BY <2>1, <2>5
<1> QED BY <1>1, TypeCorrect, PTL DEF Spec, ResultsKept
-----------------------------------------------------------------------------
LEMMA OperationKeys ==
  ASSUME TypeOK, TypeOK', OneTaskPerKey, NEW a \in Agents, Operation(a)
  PROVE  OneTaskPerKey'
<1>1. ASSUME NEW u \in TaskIds, NEW req \in Requests, CreateOrGet(a, u, req)
      PROVE  OneTaskPerKey'
  <2>1. Aliases(a, req.key) = {}
    BY <1>1, CreatedRow DEF CreateOrGet, CreateVerdict
  <2>2. \A t \in Stored : task[t].agent = a /\ task[t].request.key = req.key => req.key = NoKey
    BY <2>1 DEF Aliases, Owned
  <2>3. \A t \in Stored : task'[t] = task[t]
    BY <1>1, CreatedRow DEF Stored
  <2>4. Stored' = Stored \cup {u} /\ task'[u].agent = a /\ task'[u].request = req
    BY <1>1, CreatedRow
  <2> QED BY <2>2, <2>3, <2>4 DEF OneTaskPerKey
<1>2. KeepsTasks => OneTaskPerKey'
  BY DEF KeepsTasks, OneTaskPerKey
<1> QED BY <1>1, <1>2, OfferKeeps, CompleteKeeps DEF Operation

\* A lost reply to a creation cannot become a second task: an agent never has
\* two tasks under one idempotency key.
THEOREM KeysStayUnique == Spec => []OneTaskPerKey
<1>1. Init => OneTaskPerKey
  BY DEF Init, OneTaskPerKey, Stored, NoRow
<1>2. TypeOK /\ TypeOK' /\ OneTaskPerKey /\ [Next]_vars => OneTaskPerKey'
  <2> SUFFICES ASSUME TypeOK, TypeOK', OneTaskPerKey, [Next]_vars PROVE OneTaskPerKey'
    OBVIOUS
  <2>1. ASSUME NEW a \in Agents, DeleteAgent(a) PROVE OneTaskPerKey'
    <3>1. \A t \in TaskIds : task'[t] = IF t \in Owned(a) THEN NoRow ELSE task[t]
      BY <2>1 DEF DeleteAgent
    <3>2. \A t \in Stored' : t \in Stored /\ task'[t] = task[t]
      BY <3>1 DEF Stored, NoRow
    <3> QED BY <3>2 DEF OneTaskPerKey
  <2>2. ASSUME Tick \/ UNCHANGED vars PROVE OneTaskPerKey'
    BY <2>2 DEF Tick, vars, OneTaskPerKey, Stored
  <2> QED BY <2>1, <2>2, NextOperates, OperationKeys
<1> QED BY <1>1, <1>2, TypeCorrect, PTL DEF Spec

-----------------------------------------------------------------------------
LEMMA FiniteTables ==
  ASSUME NEW a
  PROVE  /\ IsFiniteSet(ActiveOf(a)) /\ Cardinality(ActiveOf(a)) \in Nat
         /\ IsFiniteSet(Fenced(a)) /\ Cardinality(Fenced(a)) \in Nat
<1>1. ActiveOf(a) \subseteq TaskIds /\ Fenced(a) \subseteq TaskIds
  BY DEF ActiveOf, Owned, Stored, Fenced
<1>2. IsFiniteSet(ActiveOf(a)) /\ IsFiniteSet(Fenced(a))
  BY <1>1, ConstantsAssumption, FS_Subset
<1> QED BY <1>2, FS_CardinalityType

\* Offers and results never add an unresolved task.
LEMMA KeepsActive ==
  ASSUME TypeOK, TypeOK', KeepsTasks, NEW a
  PROVE  ActiveOf(a)' \subseteq ActiveOf(a)
<1> SUFFICES ASSUME NEW t \in ActiveOf(a)' PROVE t \in ActiveOf(a)
  OBVIOUS
<1>1. t \in Stored /\ task'[t].agent = task[t].agent
  BY DEF ActiveOf, Owned, KeepsTasks
<1>2. task[t].status \notin Terminal
  BY <1>1 DEF KeepsTasks, ActiveOf, Active, Terminal
<1>3. task[t] \in Row
  BY <1>1, StoredRow DEF Stored
<1> QED BY <1>1, <1>2, <1>3 DEF ActiveOf, Owned, Row

LEMMA FewerActive ==
  ASSUME NEW b \in Agents, ActiveOf(b)' \subseteq ActiveOf(b)
  PROVE  Cardinality(ActiveOf(b)') <= Cardinality(ActiveOf(b))
BY FiniteTables, FS_Subset, FS_CardinalityType

\* A creation finds room first; offers and results only take tasks away.
LEMMA OperationActive ==
  ASSUME TypeOK, TypeOK', NEW a \in Agents, Operation(a), NEW b \in Agents,
         Cardinality(ActiveOf(b)) <= MaxActive
  PROVE  Cardinality(ActiveOf(b)') <= MaxActive
<1>1. MaxActive \in Nat /\ Cardinality(ActiveOf(b)) \in Nat /\ Cardinality(ActiveOf(b)') \in Nat
  <2>1. IsFiniteSet(ActiveOf(b)')
    <3>1. ActiveOf(b)' \subseteq TaskIds
      BY DEF ActiveOf, Owned, Stored
    <3> QED BY <3>1, ConstantsAssumption, FS_Subset
  <2> QED BY <2>1, ConstantsAssumption, FiniteTables, FS_CardinalityType
<1>2. ASSUME ActiveOf(b)' \subseteq ActiveOf(b)
      PROVE  Cardinality(ActiveOf(b)') <= MaxActive
  BY <1>1, <1>2, FewerActive
<1>3. ASSUME NEW u \in TaskIds, NEW req \in Requests, CreateOrGet(a, u, req)
      PROVE  Cardinality(ActiveOf(b)') <= MaxActive
  <2>1. Cardinality(ActiveOf(a)) < MaxActive
    BY <1>3, CreatedRow DEF CreateOrGet, CreateVerdict, RoomFor
  <2>2. \A t \in Stored : task'[t] = task[t]
    BY <1>3, CreatedRow DEF Stored
  <2>3. /\ u \notin Stored /\ Stored' = Stored \cup {u}
        /\ task'[u].agent = a /\ task'[u].status = "queued"
    BY <1>3, CreatedRow
  <2>4. CASE b # a
    BY <1>2, <2>2, <2>3, <2>4 DEF ActiveOf, Owned
  <2>5. CASE b = a
    <3>1. ActiveOf(b)' = ActiveOf(b) \cup {u} /\ u \notin ActiveOf(b)
      BY <2>2, <2>3, <2>5 DEF ActiveOf, Owned, Active
    <3>2. Cardinality(ActiveOf(b)') = Cardinality(ActiveOf(b)) + 1
      BY <3>1, FiniteTables, FS_AddElement
    <3> QED BY <1>1, <2>1, <2>5, <3>2
  <2> QED BY <2>4, <2>5
<1>4. KeepsTasks => ActiveOf(b)' \subseteq ActiveOf(b)
  BY KeepsActive
<1> QED BY <1>2, <1>3, <1>4, OfferKeeps, CompleteKeeps DEF Operation

\* A report finds room for all its evidence before it writes any.
LEMMA OperationEvidence ==
  ASSUME TypeOK, NEW a \in Agents, Operation(a), NEW b \in Agents,
         Cardinality(Fenced(b)) <= MaxEvidence
  PROVE  Cardinality(Fenced(b)') <= MaxEvidence
<1>1. ASSUME NEW batch \in AnyBatch, CompleteBatch(a, batch)
      PROVE  Cardinality(Fenced(b)') <= MaxEvidence
  <2> DEFINE F == NewEvidence(a, batch)
  <2>1. EvidenceRoom(a, F)
    BY <1>1 DEF CompleteBatch, CompleteVerdict
  <2>2. CASE b = a /\ F # {}
    <3>1. F \subseteq TaskIds /\ Fenced(b)' = Fenced(b) \cup F /\ Fenced(b) \cap F = {}
      BY <1>1, <2>2, BatchType, BatchFences DEF NewEvidence, NeedsEvidence
    <3>2. IsFiniteSet(F)
      BY <3>1, ConstantsAssumption, FS_Subset
    <3> HIDE DEF F
    <3>3. Cardinality(F) \in Nat
      BY <3>2, FS_CardinalityType
    <3>4. Cardinality(Fenced(b) \cup F)
            = Cardinality(Fenced(b)) + Cardinality(F) - Cardinality(Fenced(b) \cap F)
      BY <3>2, FiniteTables, FS_Union
    <3>5. Cardinality(Fenced(b) \cap F) = 0
      BY <3>1, FS_EmptySet
    <3>6. Cardinality(Fenced(b)) + Cardinality(F) <= MaxEvidence
      BY <2>1, <2>2 DEF EvidenceRoom
    <3> QED BY <3>1, <3>3, <3>4, <3>5, <3>6, FiniteTables, ConstantsAssumption
  <2>3. CASE ~(b = a /\ F # {})
    <3>1. Fenced(b)' = Fenced(b)
      BY <1>1, <2>3, BatchFences
    <3> QED BY <3>1
  <2> QED BY <2>2, <2>3
<1>2. UNCHANGED evidence => Fenced(b)' = Fenced(b)
  BY DEF Fenced
<1> QED BY <1>1, <1>2 DEF Operation, CreateOrGet, OfferTasks

\* Neither the unresolved tasks nor the evidence of an agent pass their caps,
\* whatever the sizes of the batches.
THEOREM QuotasHold == Spec => []WithinQuotas
<1>1. Init => WithinQuotas
  <2> SUFFICES ASSUME Init, NEW a \in Agents
               PROVE  Cardinality(ActiveOf(a)) <= MaxActive /\ Cardinality(Fenced(a)) <= MaxEvidence
    BY DEF WithinQuotas
  <2>1. ActiveOf(a) = {} /\ Fenced(a) = {}
    BY DEF Init, ActiveOf, Owned, Stored, Fenced, NoRow
  <2> QED BY <2>1, FS_EmptySet, ConstantsAssumption
<1>2. TypeOK /\ TypeOK' /\ WithinQuotas /\ [Next]_vars => WithinQuotas'
  <2> SUFFICES ASSUME TypeOK, TypeOK', WithinQuotas, [Next]_vars, NEW b \in Agents
               PROVE  Cardinality(ActiveOf(b)') <= MaxActive /\ Cardinality(Fenced(b)') <= MaxEvidence
    BY DEF WithinQuotas
  <2>1. Cardinality(ActiveOf(b)) <= MaxActive /\ Cardinality(Fenced(b)) <= MaxEvidence
    BY DEF WithinQuotas
  <2>2. ASSUME ActiveOf(b)' \subseteq ActiveOf(b), UNCHANGED evidence
        PROVE  Cardinality(ActiveOf(b)') <= MaxActive /\ Cardinality(Fenced(b)') <= MaxEvidence
    <3>1. Fenced(b)' = Fenced(b)
      BY <2>2 DEF Fenced
    <3>2. Cardinality(ActiveOf(b)') <= Cardinality(ActiveOf(b)) /\ Cardinality(ActiveOf(b)') \in Nat
      BY <2>2, FewerActive, FiniteTables, FS_Subset, FS_CardinalityType
    <3> QED BY <2>1, <3>1, <3>2, FiniteTables, ConstantsAssumption
  <2>3. ASSUME NEW a \in Agents, DeleteAgent(a)
        PROVE  ActiveOf(b)' \subseteq ActiveOf(b) /\ UNCHANGED evidence
    <3>1. \A t \in TaskIds : task'[t] = IF t \in Owned(a) THEN NoRow ELSE task[t]
      BY <2>3 DEF DeleteAgent
    <3>2. \A t \in Stored' : t \in Stored /\ task'[t] = task[t]
      BY <3>1 DEF Stored, NoRow
    <3> QED BY <2>3, <3>2 DEF ActiveOf, Owned, DeleteAgent
  <2>4. ASSUME Tick \/ UNCHANGED vars
        PROVE  ActiveOf(b)' \subseteq ActiveOf(b) /\ UNCHANGED evidence
    BY <2>4 DEF Tick, vars, ActiveOf, Owned, Stored
  <2> QED BY <2>1, <2>2, <2>3, <2>4, NextOperates, OperationActive, OperationEvidence
<1> QED BY <1>1, <1>2, TypeCorrect, PTL DEF Spec
-----------------------------------------------------------------------------
\* The tables implement the ledger.  Each step moves the entries of one agent,
\* every one of them forward, and leaves the other agents' entries alone.
Book == [a \in Agents |-> [t \in TaskIds |-> EntryOf(a, t)]]

LEMMA EntryTypeNext ==
  ASSUME TypeOK', NEW a \in Agents, NEW t \in TaskIds
  PROVE  EntryOf(a, t)' \in Ledger!Entries
<1>1. t \in Owned(a)' => task'[t] \in Row
  BY StoredNext DEF Owned
<1> QED BY <1>1 DEF EntryOf, Row, Active, Terminal, Ledger!Entries, Ledger!Outcomes

\* One agent's move forward is a step of the ledger.
Forward(a, t) ==
  /\ EntryOf(a, t)' \in Ledger!Follows(EntryOf(a, t))
  /\ EntryOf(a, t) = "none" /\ EntryOf(a, t)' \notin Ledger!Foreign =>
       \A b \in Agents : EntryOf(b, t) \in Ledger!Foreign

LEMMA ForwardRecords ==
  ASSUME TypeOK', NEW a \in Agents, \A t \in TaskIds : Forward(a, t),
         \A b \in Agents \ {a}, t \in TaskIds : EntryOf(b, t)' = EntryOf(b, t)
  PROVE  Ledger!Record(a)
<1>1. Book' \in Ledger!Ledgers
  <2>1. \A b \in Agents, t \in TaskIds : EntryOf(b, t)' \in Ledger!Entries
    BY EntryTypeNext
  <2> QED BY <2>1 DEF Book, Ledger!Ledgers
<1> QED BY <1>1 DEF Ledger!Record, Forward, Book

\* An entry depends on the agent's own row and evidence alone.
LEMMA SameEntry ==
  ASSUME NEW b \in Agents, NEW t \in TaskIds, t \in Stored' <=> t \in Stored,
         t \in Stored => task'[t] = task[t], t \in Fenced(b)' <=> t \in Fenced(b)
  PROVE  EntryOf(b, t)' = EntryOf(b, t)
BY DEF EntryOf, Owned

LEMMA StayingMovesForward ==
  ASSUME NEW a \in Agents, NEW t \in TaskIds, EntryOf(a, t)' = EntryOf(a, t)
  PROVE  Forward(a, t)
BY DEF Forward, Ledger!Follows, Ledger!Foreign

\* A task somebody owns: no other agent's entry shows it.
LEMMA OthersSeeNothing ==
  ASSUME NEW b \in Agents, NEW t \in TaskIds, t \notin Owned(b)
  PROVE  EntryOf(b, t) = IF t \in Fenced(b) THEN "fenced" ELSE "none"
BY DEF EntryOf

LEMMA CreateForward ==
  ASSUME TypeOK, TypeOK', NEW a \in Agents, NEW u \in TaskIds, NEW req \in Requests,
         CreateOrGet(a, u, req)
  PROVE  Ledger!Record(a)
<1>1. u \notin Stored /\ u \notin Fenced(a)
  BY CreatedRow
<1>2. /\ task'[u].agent = a /\ task'[u].status = "queued" /\ task'[u].closed = "open"
      /\ \A t \in TaskIds : t # u => task'[t] = task[t]
      /\ \A b \in Agents : Fenced(b)' = Fenced(b)
  BY CreatedRow
<1>3. Stored' = Stored \cup {u}
  BY CreatedRow
<1>4. \A b \in Agents, t \in TaskIds : t # u => EntryOf(b, t)' = EntryOf(b, t)
  BY <1>2, <1>3, SameEntry
<1>5. \A b \in Agents : EntryOf(b, u) \in Ledger!Foreign
  BY <1>1, OthersSeeNothing DEF Owned, Ledger!Foreign
<1>6. \A b \in Agents \ {a} : EntryOf(b, u)' = EntryOf(b, u)
  BY <1>1, <1>2, <1>3 DEF EntryOf, Owned
<1>7. EntryOf(a, u) = "none"
  BY <1>1 DEF EntryOf, Owned
<1>8. EntryOf(a, u)' = "queued"
  BY <1>1, <1>2, <1>3 DEF EntryOf, Owned, Terminal
<1>9. Forward(a, u)
  BY <1>5, <1>7, <1>8 DEF Forward, Ledger!Follows
<1> QED BY <1>4, <1>6, <1>9, StayingMovesForward, ForwardRecords

\* What offers and results do alike: they leave the other agents' entries alone.
LEMMA OthersKept ==
  ASSUME KeepsTasks, NEW a \in Agents, NEW b \in Agents \ {a}, NEW t \in TaskIds,
         t \in Owned(a) \/ (t \in Stored => task'[t] = task[t]), Fenced(b)' = Fenced(b)
  PROVE  EntryOf(b, t)' = EntryOf(b, t)
<1>1. CASE t \in Owned(a)
  <2>1. t \notin Owned(b) /\ t \notin Owned(b)'
    BY <1>1 DEF Owned, KeepsTasks
  <2> QED BY <2>1 DEF EntryOf
<1>2. CASE t \in Stored => task'[t] = task[t]
  BY <1>2, SameEntry DEF KeepsTasks
<1> QED BY <1>1, <1>2

LEMMA OfferForward ==
  ASSUME TypeOK, TypeOK', NEW a \in Agents, NEW kinds, NEW expiry, NEW budget, NEW S,
         OfferTasks(a, kinds, expiry, budget, S)
  PROVE  Ledger!Record(a)
<1>1. KeepsTasks /\ \A b \in Agents : Fenced(b)' = Fenced(b)
  BY OfferKeeps DEF OfferTasks, Fenced
<1>2. \A b \in Agents \ {a}, t \in TaskIds : EntryOf(b, t)' = EntryOf(b, t)
  <2> SUFFICES ASSUME NEW b \in Agents \ {a}, NEW t \in TaskIds PROVE EntryOf(b, t)' = EntryOf(b, t)
    OBVIOUS
  <2>1. t \in Owned(a) \/ task'[t] = task[t]
    BY OfferedRows DEF Open, ActiveOf
  <2> QED BY <1>1, <2>1, OthersKept
<1>3. ASSUME NEW t \in TaskIds PROVE Forward(a, t)
  <2>1. CASE task'[t] = task[t]
    BY <1>1, <2>1, SameEntry, StayingMovesForward DEF KeepsTasks
  <2>2. CASE t \in Open(a) /\ task'[t] = [task[t] EXCEPT !.closed = "task_authorization_expired"]
    <3>1. /\ t \in Owned(a) /\ t \in Owned(a)' /\ (t \in Fenced(a)' <=> t \in Fenced(a))
          /\ task[t].status \in Active /\ task[t].closed = "open"
      BY <1>1, <2>2, OpenRow DEF Owned, KeepsTasks
    <3>2. task'[t].status = task[t].status /\ task'[t].closed # "open"
      BY <2>2, OpenRow DEF Row
    <3> QED BY <3>1, <3>2 DEF EntryOf, Active, Terminal, Forward, Ledger!Follows
  <2>3. CASE /\ t \in Open(a) /\ t \notin Fenced(a) /\ ~Expired(t)
             /\ task'[t] = [task[t] EXCEPT !.status = "offered", !.offered = now]
    <3>1. /\ t \in Owned(a) /\ t \in Owned(a)' /\ t \notin Fenced(a)'
          /\ task[t].status \in Active /\ task[t].closed = "open"
      BY <1>1, <2>3, OpenRow DEF Owned, KeepsTasks
    <3>2. task'[t].status = "offered"
      BY <2>3, OpenRow DEF Row
    <3> QED BY <2>3, <3>1, <3>2 DEF EntryOf, Active, Terminal, Forward, Ledger!Follows
  <2> QED BY <2>1, <2>2, <2>3, OfferedRows
<1> QED BY <1>2, <1>3, ForwardRecords

LEMMA CompleteForward ==
  ASSUME TypeOK, TypeOK', NEW a \in Agents, NEW batch \in AnyBatch, CompleteBatch(a, batch)
  PROVE  Ledger!Record(a)
<1>1. KeepsTasks /\ \A b \in Agents \ {a} : Fenced(b)' = Fenced(b)
  BY CompleteKeeps, BatchFences
<1>2. \A b \in Agents \ {a}, t \in TaskIds : EntryOf(b, t)' = EntryOf(b, t)
  <2> SUFFICES ASSUME NEW b \in Agents \ {a}, NEW t \in TaskIds PROVE EntryOf(b, t)' = EntryOf(b, t)
    OBVIOUS
  <2>1. t \in Owned(a) \/ (t \in Stored => task'[t] = task[t])
    BY BatchAdmitted DEF CompleteBatch, Admissible, Owned
  <2> QED BY <1>1, <2>1, OthersKept
<1>3. ASSUME NEW t \in TaskIds PROVE Forward(a, t)
  <2>1. CASE t \notin DOMAIN batch
    <3>1. task'[t] = task[t] /\ (t \in Fenced(a)' <=> t \in Fenced(a))
      BY <2>1, BatchFences DEF CompleteBatch, NewEvidence
    <3> QED BY <1>1, <3>1, SameEntry, StayingMovesForward DEF KeepsTasks
  <2>2. CASE t \in DOMAIN batch /\ t \notin Stored
    <3>1. t \notin Owned(a) /\ t \notin Owned(a)'
      BY <1>1, <2>2 DEF Owned, KeepsTasks
    <3>2. t \in Fenced(a)'
      BY <2>2, BatchFences DEF NewEvidence, NeedsEvidence
    <3> QED BY <3>1, <3>2 DEF EntryOf, Forward, Ledger!Follows, Ledger!Foreign
  <2>3. CASE t \in DOMAIN batch /\ t \in Stored
    <3> DEFINE r == batch[t]
    <3>1. /\ task[t] \in Row /\ task'[t] = Settle(a, t, r) /\ task[t].agent = a
          /\ t \in Owned(a) /\ t \in Owned(a)'
      BY <1>1, <2>3, StoredRow, BatchAdmitted DEF CompleteBatch, Admissible, Owned, KeepsTasks
    <3>2. t \in Fenced(a)' <=> t \in Fenced(a) \/ task[t].status = "queued"
      BY <2>3, BatchFences DEF NewEvidence, NeedsEvidence
    <3>3. CASE task[t].status \in Terminal
      BY <1>1, <2>3, <3>1, <3>3, StayingMovesForward DEF KeepsTasks, EntryOf
    <3>4. CASE task[t].status = "queued"
      <4>1. task'[t].status = "queued" /\ t \in Fenced(a)'
        BY <3>1, <3>2, <3>4 DEF Settle, Row, Terminal
      <4>2. EntryOf(a, t)' = "fenced"
        BY <3>1, <4>1 DEF EntryOf, Terminal
      <4>3. EntryOf(a, t) \in {"fenced", "withdrawn", "queued"}
        BY <3>1, <3>4 DEF EntryOf, Terminal
      <4> QED BY <4>2, <4>3 DEF Forward, Ledger!Follows
    <3>5. CASE task[t].status = "offered" /\ t \in Fenced(a)
      <4>1. task'[t].status = "offered" /\ t \in Fenced(a)'
        BY <3>1, <3>2, <3>5 DEF Settle, Row, Terminal
      <4> QED BY <3>1, <3>5, <4>1 DEF EntryOf, Terminal, Forward, Ledger!Follows
    <3>6. CASE task[t].status = "offered" /\ t \notin Fenced(a)
      <4>1. t \notin Fenced(a)'
        BY <3>2, <3>6
      <4>2. task'[t].status = ResultStatus(r.outcome)
        BY <3>1, <3>6 DEF Settle, Terminal, Row
      <4>3. EntryOf(a, t)' \in Terminal
        BY <3>1, <4>2, ResultStatusTerminal DEF EntryOf
      <4>4. EntryOf(a, t) = "offered"
        BY <3>1, <3>6 DEF EntryOf, Terminal
      <4> QED BY <4>3, <4>4 DEF Forward, Terminal, Ledger!Follows, Ledger!Outcomes
    <3> QED BY <3>1, <3>3, <3>4, <3>5, <3>6 DEF Row, Active
  <2> QED BY <2>1, <2>2, <2>3
<1> QED BY <1>2, <1>3, ForwardRecords

LEMMA OperationForward ==
  ASSUME TypeOK, TypeOK', NEW a \in Agents, Operation(a)
  PROVE  Ledger!Record(a)
BY CreateForward, OfferForward, CompleteForward DEF Operation

LEMMA DeleteForgets ==
  ASSUME TypeOK, TypeOK', NEW a \in Agents, DeleteAgent(a)
  PROVE  Ledger!Forget(a)
<1>1. /\ \A t \in TaskIds : task'[t] = IF t \in Owned(a) THEN NoRow ELSE task[t]
      /\ \A b \in Agents : Fenced(b)' = Fenced(b)
      /\ Fenced(a) = {} /\ ActiveOf(a) = {}
  BY DEF DeleteAgent, Fenced
<1>2. ASSUME NEW t \in TaskIds
      PROVE  EntryOf(a, t) \in Ledger!Outcomes \cup {"none"}
  <2>1. t \in Owned(a) => task[t].status \in Terminal
    BY <1>1, StoredRow DEF ActiveOf, Owned, Row
  <2> QED BY <1>1, <2>1 DEF EntryOf, Terminal, Ledger!Outcomes
<1>3. \A t \in TaskIds : t \in Stored' <=> t \in Stored \ Owned(a)
  BY <1>1 DEF Stored, NoRow
<1>4. \A t \in TaskIds : EntryOf(a, t)' = "none"
  <2>1. \A t \in TaskIds : t \notin Owned(a)'
    BY <1>1, <1>3 DEF Owned
  <2> QED BY <1>1, <2>1 DEF EntryOf
<1>5. ASSUME NEW b \in Agents \ {a}, NEW t \in TaskIds
      PROVE  EntryOf(b, t)' = EntryOf(b, t)
  <2>1. CASE t \in Owned(a)
    <3>1. t \notin Owned(b) /\ t \notin Owned(b)'
      BY <1>3, <2>1 DEF Owned
    <3> QED BY <1>1, <3>1 DEF EntryOf
  <2>2. CASE t \notin Owned(a)
    BY <1>1, <1>3, <2>2, SameEntry
  <2> QED BY <2>1, <2>2
<1>6. Book' = [Book EXCEPT ![a] = [t \in TaskIds |-> "none"]]
  BY <1>4, <1>5 DEF Book
<1> QED BY <1>2, <1>6 DEF Ledger!Forget, Book

\* The tables implement the ledger, for every number of agents and tasks.
THEOREM TablesKeepLedger == Spec => KeepsLedger
<1>1. Init => Ledger!LInit
  BY DEF Init, Ledger!LInit, EntryOf, Owned, Stored, Fenced, NoRow
<1>2. TypeOK /\ TypeOK' /\ [Next]_vars => [Ledger!LNext]_Book
  <2> SUFFICES ASSUME TypeOK, TypeOK', [Next]_vars PROVE [Ledger!LNext]_Book
    OBVIOUS
  <2>1. Tick \/ UNCHANGED vars => UNCHANGED Book
    BY DEF Tick, vars, Book, EntryOf, Owned, Stored, Fenced
  <2> QED BY <2>1, NextOperates, OperationForward, DeleteForgets DEF Ledger!LNext
<1> QED BY <1>1, <1>2, TypeCorrect, PTL DEF Spec, KeepsLedger, Ledger!LSpec, Book
=============================================================================
