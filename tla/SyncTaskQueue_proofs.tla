------------------------ MODULE SyncTaskQueue_proofs ------------------------
(***************************************************************************)
(* What the retry queue promises for any number of rows, processors and    *)
(* handlers, any cap and page size, and any order of calls.                *)
(*                                                                         *)
(* The argument about the attempts: a processor decides with the copy of a *)
(* row it listed.  Copies() says why that copy is current: a row keeps its *)
(* key and its identifier for ever, the processors' types are disjoint, and*)
(* one processor never holds two copies of one row, so between listing and *)
(* recording nobody else counts an attempt.                                *)
(***************************************************************************)
EXTENDS SyncTaskQueue, TLAPS

LEMMA RowIsStored ==
  ASSUME QTypeOK, NEW i \in Ids
  PROVE  i \in Stored <=> row[i] \in Row
BY DEF QTypeOK, Stored, Row, NoRow, Active, Ended

LEMMA NotIdle == \A t \in Listed : t # Idle /\ t.id # 0
BY DEF Listed, Idle, Ids

LEMMA StatusTypes ==
  /\ \A i \in Ids : QTypeOK => row[i] \in Row \cup {NoRow}
  /\ \A i \in Ids : QTypeOK /\ row[i].status # "absent" => row[i] \in Row
BY DEF QTypeOK, NoRow

\* What an outcome, a cancel and a boot write are rows again.
LEMMA OutcomeType ==
  ASSUME QTypeOK, NEW i \in Ids
  PROVE  /\ Succeeded(i) \in [Ids -> Row \cup {NoRow}]
         /\ Retried(i) \in [Ids -> Row \cup {NoRow}]
         /\ Canceled(i) \in [Ids -> Row \cup {NoRow}]
<1>1. now \in Nat /\ NextRun \in Nat
  BY QueueAssumption DEF QTypeOK, NextRun
<1>2. row \in [Ids -> Row \cup {NoRow}]
  BY DEF QTypeOK
<1>3. Succeeded(i) \in [Ids -> Row \cup {NoRow}]
  <2>1. CASE Writable(i)
    <3>1. row[i] \in Row
      BY <2>1, StatusTypes DEF Writable
    <3>2. [row[i] EXCEPT !.status = "succeeded", !.error = FALSE, !.finished = now] \in Row
      BY <3>1, <1>1 DEF Row, Active, Ended
    <3>3. Succeeded(i) = [row EXCEPT ![i] =
            [row[i] EXCEPT !.status = "succeeded", !.error = FALSE, !.finished = now]]
      BY <2>1, <1>2, <3>1 DEF Succeeded, Row
    <3> QED BY <3>2, <3>3, <1>2
  <2>2. CASE ~Writable(i)
    BY <2>2, <1>2 DEF Succeeded
  <2> QED BY <2>1, <2>2
<1>4. Retried(i) \in [Ids -> Row \cup {NoRow}]
  <2>1. CASE Writable(i)
    <3>1. row[i] \in Row
      BY <2>1, StatusTypes DEF Writable
    <3> DEFINE n == row[i].attempts + 1
               r == [row[i] EXCEPT !.status = "pending", !.error = TRUE,
                                   !.attempts = n, !.due = NextRun]
    <3>a. n \in Nat
      BY <3>1 DEF Row
    <3>2. r \in Row
      <4> HIDE DEF n
      <4> QED BY <3>1, <3>a, <1>1 DEF Row, Active, Ended
    <3>3. Retried(i) = [row EXCEPT ![i] = r]
      BY <2>1, <1>2, <3>1 DEF Retried, Row
    <3> QED BY <3>2, <3>3, <1>2
  <2>2. CASE ~Writable(i)
    BY <2>2, <1>2 DEF Retried
  <2> QED BY <2>1, <2>2
<1>5. Canceled(i) \in [Ids -> Row \cup {NoRow}]
  <2>1. CASE row[i].status \in Active
    <3>1. row[i] \in Row
      BY <2>1, StatusTypes DEF Active
    <3>2. [row[i] EXCEPT !.status = "canceled", !.finished = now] \in Row
      BY <3>1, <1>1 DEF Row, Active, Ended
    <3>3. Canceled(i) = [row EXCEPT ![i] =
            [row[i] EXCEPT !.status = "canceled", !.finished = now]]
      BY <2>1, <1>2, <3>1 DEF Canceled, Row
    <3> QED BY <3>2, <3>3, <1>2
  <2>2. CASE row[i].status \notin Active
    BY <2>2, <1>2 DEF Canceled
  <2> QED BY <2>1, <2>2
<1> QED BY <1>3, <1>4, <1>5
-----------------------------------------------------------------------------
\* The table, the processors' copies and the handlers keep their shape.
THEOREM QueueTypeCorrect == QSpec => []QTypeOK
<1>1. QInit => QTypeOK
  BY QueueAssumption DEF QInit, QTypeOK, Stored, NoRow
<1>2. QTypeOK /\ [QNext]_qvars => QTypeOK'
  <2> SUFFICES ASSUME QTypeOK, [QNext]_qvars PROVE QTypeOK'
    OBVIOUS
  <2> USE DEF queue, procs, counts
  <2>r. ASSUME NEW R \in [Ids -> Row \cup {NoRow}], row' = R, lastId' = lastId,
               \A i \in Ids : row[i].status = "absent" => R[i].status = "absent"
        PROVE  row' \in [Ids -> Row \cup {NoRow}] /\ lastId' \in 0..MaxId /\ \A i \in Stored' : i <= lastId'
    BY <2>r DEF QTypeOK, Stored
  <2>o. ASSUME NEW i \in Ids, NEW R \in {Succeeded(i), Retried(i), Canceled(i)}, row' = R, lastId' = lastId
        PROVE  row' \in [Ids -> Row \cup {NoRow}] /\ lastId' \in 0..MaxId /\ \A j \in Stored' : j <= lastId'
    <3>1. R \in [Ids -> Row \cup {NoRow}]
      BY <2>o, OutcomeType
    <3>2. \A j \in Ids : row[j].status = "absent" => R[j].status = "absent"
      BY <2>o DEF Succeeded, Retried, Canceled, Writable, Active, QTypeOK
    <3> QED BY <3>1, <3>2, <2>o, <2>r
  <2>c. ASSUME NEW w \in Workers, cur[w] # Idle PROVE cur[w] \in Listed /\ cur[w].id \in Ids
    BY <2>c DEF QTypeOK, Listed
  <2>1. ASSUME NEW c \in Callers, Create(c) PROVE QTypeOK'
    <3> DEFINE r == [key |-> caller[c], status |-> "pending", attempts |-> 0, due |-> now,
                     error |-> FALSE, finished |-> 0]
    <3>1. caller[c] \in Keys /\ lastId + 1 \in Ids
      BY <2>1, QueueAssumption DEF Create, QTypeOK, Ids
    <3>2. r \in Row
      BY <3>1 DEF Row, Active, QTypeOK
    <3>3. row' = [row EXCEPT ![lastId + 1] = r]
      BY <2>1 DEF Create
    <3>4. row' \in [Ids -> Row \cup {NoRow}]
      BY <3>2, <3>3 DEF QTypeOK
    <3>5. lastId' \in 0..MaxId /\ \A i \in Stored' : i <= lastId'
      BY <2>1, <3>1, <3>3, QueueAssumption DEF Create, QTypeOK, Stored, Ids
    <3> QED BY <2>1, <3>4, <3>5 DEF Create, QTypeOK
  <2>2. ASSUME NEW c \in Callers, NEW k \in Keys, GetActiveByTarget(c, k) PROVE QTypeOK'
    BY <2>2 DEF GetActiveByTarget, QTypeOK, Stored
  <2>3. ASSUME NEW w \in Workers, ListDue(w) PROVE QTypeOK'
    <3>1. \A i \in PageOfDue : [id |-> i, key |-> row[i].key, attempts |-> row[i].attempts,
                                 due |-> row[i].due, read |-> FALSE] \in Listed
      <4> SUFFICES ASSUME NEW i \in PageOfDue
                   PROVE  [id |-> i, key |-> row[i].key, attempts |-> row[i].attempts,
                           due |-> row[i].due, read |-> FALSE] \in Listed
        OBVIOUS
      <4>1. i \in Ids /\ row[i] \in Row
        BY RowIsStored DEF PageOfDue, Due, Stored
      <4> QED BY <4>1 DEF Row, Listed
    <3>2. todo' \in [Workers -> SUBSET Listed]
      BY <2>3, <3>1 DEF ListDue, QTypeOK
    <3> QED BY <2>3, <3>2 DEF ListDue, QTypeOK, Stored
  <2>4. ASSUME NEW w \in Workers, NEW t \in todo[w], Skip(w, t) PROVE QTypeOK'
    BY <2>4, QueueAssumption DEF Skip, QTypeOK, Stored
  <2>5. ASSUME NEW w \in Workers, NEW t \in todo[w], MarkRunning(w, t) PROVE QTypeOK'
    <3>1. t \in Listed /\ t.id \in Ids
      BY DEF QTypeOK, Listed
    <3>2. row[t.id] \in Row
      BY <3>1, <2>5, StatusTypes DEF MarkRunning
    <3>3. [row[t.id] EXCEPT !.status = "running"] \in Row
      BY <3>2 DEF Row, Active
    <3>4. row' = [row EXCEPT ![t.id] = [row[t.id] EXCEPT !.status = "running"]]
      BY <2>5 DEF MarkRunning
    <3>5. row' \in [Ids -> Row \cup {NoRow}] /\ Stored' = Stored
      BY <3>1, <3>2, <3>3, <3>4, <2>5 DEF QTypeOK, Stored, MarkRunning
    <3> QED BY <2>5, <3>1, <3>5 DEF MarkRunning, QTypeOK
  <2>6. ASSUME NEW w \in Workers, ReadTarget(w) PROVE QTypeOK'
    <3>1. [cur[w] EXCEPT !.read = TRUE] \in Listed
      BY <2>6, <2>c DEF ReadTarget, Listed
    <3>2. cur' \in [Workers -> Listed \cup {Idle}]
      BY <2>6, <3>1 DEF ReadTarget, QTypeOK
    <3> QED BY <2>6, <3>2 DEF ReadTarget, QTypeOK, Stored
  <2>7. ASSUME NEW w \in Workers, Succeed(w) PROVE QTypeOK'
    BY <2>7, <2>c, <2>o DEF Succeed, QTypeOK
  <2>8. ASSUME NEW w \in Workers, NEW p \in BOOLEAN, FailRun(w, p) PROVE QTypeOK'
    BY <2>8, <2>c, <2>o DEF FailRun, QTypeOK
  <2>9. ASSUME NEW w \in Workers, LoseOutcome(w) PROVE QTypeOK'
    BY <2>9, QueueAssumption DEF LoseOutcome, QTypeOK, Stored
  <2>10. ASSUME NEW i \in Ids, Cancel(i) PROVE QTypeOK'
    BY <2>10, <2>o DEF Cancel, QTypeOK
  <2>11. ASSUME NEW i \in Ids, RetryNow(i) PROVE QTypeOK'
    <3> DEFINE r == [row[i] EXCEPT !.status = "pending", !.error = FALSE, !.due = now, !.finished = 0]
    <3>1. row[i] \in Row
      BY <2>11, StatusTypes DEF RetryNow
    <3>2. r \in Row
      BY <3>1 DEF Row, Active, QTypeOK
    <3>3. row' = [row EXCEPT ![i] = r]
      BY <2>11, <3>1 DEF RetryNow, QTypeOK, Row
    <3>4. row' \in [Ids -> Row \cup {NoRow}] /\ Stored' = Stored
      BY <3>1, <3>2, <3>3, <2>11 DEF QTypeOK, Stored, RetryNow
    <3> QED BY <2>11, <3>4, QueueAssumption DEF RetryNow, QTypeOK
  <2>12. ASSUME NEW k \in Keys, Retire(k) PROVE QTypeOK'
    <3>1. ASSUME NEW i \in Stored
          PROVE  [row[i] EXCEPT !.status = "retired",
                    !.finished = IF row[i].finished = 0 THEN now ELSE row[i].finished] \in Row
      <4> DEFINE f == IF row[i].finished = 0 THEN now ELSE row[i].finished
      <4>1. row[i] \in Row /\ f \in Nat
        BY RowIsStored DEF Stored, QTypeOK, Row
      <4>2. [row[i] EXCEPT !.status = "retired", !.finished = f] \in Row
        <5> HIDE DEF f
        <5> QED BY <4>1 DEF Row, Ended
      <4> QED BY <4>2
    <3>2. ASSUME NEW i \in Ids PROVE row'[i] \in Row \cup {NoRow} /\ (i \in Stored' => i \in Stored)
      BY <2>12, <3>1, StatusTypes DEF Retire, Stored
    <3>3. row' \in [Ids -> Row \cup {NoRow}]
      BY <2>12, <3>2 DEF Retire
    <3> QED BY <2>12, <3>2, <3>3 DEF Retire, QTypeOK, Stored
  <2>13. ASSUME DeleteFinished \/ \E cutoff \in Nat : DeleteSucceededBefore(cutoff) PROVE QTypeOK'
    <3>1. PICK S : Purge(S) /\ UNCHANGED <<lastId, procs, caller, now, counts>>
      BY <2>13 DEF DeleteFinished, DeleteSucceededBefore
    <3> QED BY <3>1 DEF Purge, QTypeOK, Stored, NoRow
  <2>14. CASE Restart
    <3>1. ASSUME NEW i \in Ids PROVE row'[i] \in Row \cup {NoRow} /\ (i \in Stored' => i \in Stored)
      <4>1. CASE row[i].status = "running"
        <5>1. row[i] \in Row
          BY <4>1, StatusTypes
        <5>2. [row[i] EXCEPT !.status = "pending", !.due = now] \in Row
          BY <5>1 DEF Row, Active, QTypeOK
        <5> QED BY <2>14, <4>1, <5>2 DEF Restart, ResetRunning, Stored
      <4>2. CASE row[i].status # "running"
        BY <2>14, <4>2, StatusTypes DEF Restart, ResetRunning, Stored
      <4> QED BY <4>1, <4>2
    <3>2. row' \in [Ids -> Row \cup {NoRow}]
      BY <2>14, <3>1 DEF Restart, ResetRunning
    <3> QED BY <2>14, <3>1, <3>2, QueueAssumption DEF Restart, QTypeOK, Stored
  <2>15. CASE Tick
    BY <2>15 DEF Tick, QTypeOK, Stored
  <2>16. CASE UNCHANGED qvars
    BY <2>16 DEF qvars, QTypeOK, Stored
  <2>17. now \in Nat
    BY DEF QTypeOK
  <2> QED BY <2>1, <2>2, <2>3, <2>4, <2>5, <2>6, <2>7, <2>8, <2>9, <2>10, <2>11, <2>12, <2>13,
             <2>14, <2>15, <2>16, <2>17 DEF QNext, WorkerStep
<1> QED BY <1>1, <1>2, PTL DEF QSpec
-----------------------------------------------------------------------------
\* A copy names a row that was issued, has that row's key while it exists, and
\* for the processor that may run it, its attempts.
Copy(w, t) ==
  /\ t.id <= lastId
  /\ t.id \in Stored => row[t.id].key = t.key
  /\ t.id \in Stored /\ t.key.type \in TypesOf[w] => row[t.id].attempts = t.attempts

Held(w) ==
  /\ \A t \in todo[w] : Copy(w, t)
  /\ \A t, u \in todo[w] : t.id = u.id => t = u
  /\ cur[w] # Idle =>
       /\ Copy(w, cur[w]) /\ cur[w].key.type \in TypesOf[w]
       /\ \A t \in todo[w] : t.id # cur[w].id
Copies == \A w \in Workers : Held(w)

CopyInv == QTypeOK /\ Copies /\ \A i \in Stored : row[i].attempts < MaxAttempts

\* A step that adds no row and counts no attempt.
KeepsRows ==
  /\ lastId' = lastId
  /\ \A i \in Stored' : /\ i \in Stored
                        /\ row'[i].key = row[i].key /\ row'[i].attempts = row[i].attempts

LEMMA KeptCopies ==
  ASSUME QTypeOK, KeepsRows, NEW w \in Workers, NEW t \in Listed, Copy(w, t)
  PROVE  Copy(w, t)'
BY DEF Copy, KeepsRows

LEMMA KeptCap ==
  ASSUME KeepsRows, \A i \in Stored : row[i].attempts < MaxAttempts
  PROVE  \A i \in Stored' : row'[i].attempts < MaxAttempts
BY DEF KeepsRows

\* Cancels, successes, claims, retries by the admin, retirements, purges, boots.
LEMMA WritesKeepRows ==
  ASSUME QTypeOK, NEW i \in Ids, lastId' = lastId,
         row' = Succeeded(i) \/ row' = Canceled(i)
  PROVE  KeepsRows
<1>1. CASE row' = Succeeded(i)
  BY <1>1 DEF QTypeOK, KeepsRows, Succeeded, Writable, Stored, Row
<1>2. CASE row' = Canceled(i)
  BY <1>2 DEF QTypeOK, KeepsRows, Canceled, Active, Stored, Row
<1> QED BY <1>1, <1>2

LEMMA OtherWritesKeepRows ==
  ASSUME QTypeOK
  PROVE  /\ \A i \in Ids : RetryNow(i) => KeepsRows
         /\ \A k \in Keys : Retire(k) => KeepsRows
         /\ \A w \in Workers : \A t \in todo[w] : MarkRunning(w, t) => KeepsRows
         /\ Restart => KeepsRows
         /\ \A S : Purge(S) /\ lastId' = lastId => KeepsRows
         /\ UNCHANGED queue => KeepsRows
<1>1. ASSUME NEW i \in Ids, RetryNow(i) PROVE KeepsRows
  BY <1>1 DEF RetryNow, QTypeOK, KeepsRows, Stored, Row
<1>2. ASSUME NEW k \in Keys, Retire(k) PROVE KeepsRows
  BY <1>2, RowIsStored DEF Retire, KeepsRows, Stored, Row
<1>3. ASSUME NEW w \in Workers, NEW t \in todo[w], MarkRunning(w, t) PROVE KeepsRows
  BY <1>3 DEF MarkRunning, QTypeOK, KeepsRows, Stored, Row, Listed
<1>4. ASSUME Restart PROVE KeepsRows
  BY <1>4, RowIsStored DEF Restart, ResetRunning, KeepsRows, Stored, Row
<1>5. ASSUME NEW S, Purge(S), lastId' = lastId PROVE KeepsRows
  BY <1>5 DEF Purge, KeepsRows, Stored, NoRow
<1>6. ASSUME UNCHANGED queue PROVE KeepsRows
  BY <1>6 DEF queue, KeepsRows, Stored
<1> QED BY <1>1, <1>2, <1>3, <1>4, <1>5, <1>6

\* A retry counts one attempt on the row it may still write, and touches no
\* other field that names the row.
LEMMA RetriedRow ==
  ASSUME QTypeOK, NEW i \in Ids, row' = Retried(i)
  PROVE  /\ \A j \in Ids : j # i => row'[j] = row[j]
         /\ i \in Stored => /\ row'[i].status # "absent" /\ row'[i].key = row[i].key
                            /\ row'[i].attempts \in {row[i].attempts, row[i].attempts + 1}
         /\ i \notin Stored => row'[i] = row[i]
<1>1. CASE Writable(i)
  <2>1. row[i] \in Row /\ i \in Stored
    BY <1>1, StatusTypes DEF Writable, Stored
  <2> DEFINE r == [row[i] EXCEPT !.status = "pending", !.error = TRUE,
                                !.attempts = row[i].attempts + 1, !.due = NextRun]
  <2>2. row' = [row EXCEPT ![i] = r]
    BY <1>1 DEF Retried
  <2>3. r.status = "pending" /\ r.key = row[i].key /\ r.attempts = row[i].attempts + 1
    BY <2>1 DEF Row
  <2> HIDE DEF r
  <2>4. row'[i] = r /\ \A j \in Ids : j # i => row'[j] = row[j]
    BY <2>2 DEF QTypeOK
  <2> QED BY <2>1, <2>3, <2>4
<1>2. CASE ~Writable(i)
  <2>1. row' = row
    BY <1>2 DEF Retried
  <2> QED BY <2>1 DEF Stored
<1> QED BY <1>1, <1>2

\* What a retry does to the copies: the runner's own is gone, and no other
\* processor that holds a copy of that row may run it.
LEMMA RetryKeepsCopies ==
  ASSUME CopyInv, NEW w \in Workers, cur[w] # Idle, lastId' = lastId,
         row' = Retried(cur[w].id),
         NEW v \in Workers, NEW t \in Listed, Copy(v, t),
         v = w => t.id # cur[w].id
  PROVE  Copy(v, t)'
<1>1. cur[w] \in Listed /\ cur[w].id \in Ids /\ cur[w].key.type \in TypesOf[w] /\ Copy(w, cur[w])
  BY DEF CopyInv, Copies, Held, QTypeOK, Listed
<1>2. Stored' = Stored /\ \A i \in Stored : row'[i].key = row[i].key
  BY <1>1, RetriedRow DEF CopyInv, Stored
<1>3. CASE t.id # cur[w].id
  <2>1. t.id \in Stored => row'[t.id].attempts = row[t.id].attempts
    BY <1>1, <1>3, RetriedRow DEF CopyInv, Stored
  <2> QED BY <1>2, <2>1 DEF Copy
<1>4. CASE t.id = cur[w].id /\ v # w
  <2>1. t.id \in Stored => t.key.type \notin TypesOf[v]
    BY <1>1, <1>4, QueueAssumption DEF Copy
  <2> QED BY <1>2, <2>1 DEF Copy
<1> QED BY <1>3, <1>4

\* The copies are current in every reachable state: the inductive invariant.
LEMMA CopiesAlways == QSpec => []CopyInv
<1>1. QInit => CopyInv
  <2> SUFFICES ASSUME QInit PROVE CopyInv
    OBVIOUS
  <2>1. QTypeOK
    BY QueueAssumption DEF QInit, QTypeOK, Stored, NoRow
  <2> QED BY <2>1 DEF QInit, CopyInv, Copies, Held, Copy, Stored, NoRow, Idle
<1>2. QTypeOK' /\ CopyInv /\ [QNext]_qvars => CopyInv'
  <2> SUFFICES ASSUME QTypeOK', CopyInv, [QNext]_qvars PROVE CopyInv'
    OBVIOUS
  <2> USE DEF queue, procs, counts
  <2>t. QTypeOK /\ Copies /\ \A i \in Stored : row[i].attempts < MaxAttempts
    BY DEF CopyInv
  <2>l. ASSUME NEW w \in Workers
        PROVE  /\ \A t \in todo[w] : t \in Listed /\ t.id \in Ids
               /\ cur[w] # Idle => cur[w] \in Listed /\ cur[w].id \in Ids
    BY <2>t DEF QTypeOK, Listed
  \* rows kept, and the processors hold only what they held
  <2>k. ASSUME KeepsRows,
               \A w \in Workers : /\ todo'[w] \subseteq todo[w]
                                  /\ cur'[w] # Idle => cur'[w] = cur[w]
        PROVE  CopyInv'
    <3>1. \A i \in Stored' : row'[i].attempts < MaxAttempts
      BY <2>k, <2>t, KeptCap
    <3>2. ASSUME NEW w \in Workers
          PROVE  Held(w)'
      <4>1. \A t \in todo'[w] : t \in Listed /\ Copy(w, t)
        BY <2>k, <2>t, <2>l DEF Copies, Held
      <4>2. \A t \in todo'[w] : Copy(w, t)'
        BY <4>1, <2>k, <2>t, KeptCopies
      <4>3. ASSUME cur'[w] # Idle
            PROVE  Copy(w, cur[w])' /\ cur'[w].key.type \in TypesOf[w]
                   /\ \A t \in todo'[w] : t.id # cur'[w].id
        <5>1. cur'[w] = cur[w] /\ cur[w] # Idle
          BY <4>3, <2>k
        <5>2. cur[w] \in Listed /\ Copy(w, cur[w])
          BY <5>1, <2>l, <2>t DEF Copies, Held
        <5>3. Copy(w, cur[w])'
          <6> DEFINE c == cur[w]
          <6>1. \A t \in Listed : Copy(w, t) => Copy(w, t)'
            BY <2>k, <2>t, KeptCopies
          <6> QED BY <5>1, <5>2, <6>1 DEF Copy
        <5> QED BY <5>1, <5>3, <2>k, <2>t DEF Copies, Held, Copy
      <4> QED BY <4>2, <4>3, <2>k, <2>t DEF Copies, Held
    <3> QED BY <3>1, <3>2, <2>t DEF CopyInv, Copies
  <2>1. ASSUME NEW c \in Callers, Create(c) PROVE CopyInv'
    <3>1. lastId + 1 \in Ids /\ lastId \in Nat
      BY <2>1, <2>t, QueueAssumption DEF Create, QTypeOK, Ids
    <3>2. /\ \A i \in Ids : i # lastId + 1 => row'[i] = row[i]
          /\ row'[lastId + 1].attempts = 0
          /\ lastId' = lastId + 1
      BY <2>1, <3>1, <2>t DEF Create, QTypeOK
    <3>3. \A i \in Stored' : row'[i].attempts < MaxAttempts
      BY <3>1, <3>2, <2>t, QueueAssumption DEF Stored
    <3>4. ASSUME NEW w \in Workers, NEW t \in Listed, Copy(w, t) PROVE Copy(w, t)'
      <4>1. t.id \in Ids /\ t.id <= lastId /\ t.id # lastId + 1 /\ t.id <= lastId + 1
        BY <3>1, <3>4 DEF Copy, Listed, Ids
      <4> QED BY <4>1, <3>2, <3>4 DEF Copy, Stored
    <3>5. Copies'
      <4>1. UNCHANGED procs
        BY <2>1 DEF Create
      <4> SUFFICES ASSUME NEW w \in Workers
                   PROVE  Held(w)'
        BY DEF Copies
      <4>2. cur'[w] # Idle => Copy(w, cur[w])'
        BY <4>1, <3>4, <2>l, <2>t DEF Copies, Held, Copy
      <4> QED BY <4>1, <4>2, <3>4, <2>l, <2>t DEF Copies, Held
    <3> QED BY <3>3, <3>5 DEF CopyInv
  <2>2. ASSUME NEW c \in Callers, NEW k \in Keys, GetActiveByTarget(c, k) PROVE CopyInv'
    BY <2>2, <2>k, <2>t, OtherWritesKeepRows DEF GetActiveByTarget
  <2>3. ASSUME NEW w \in Workers, ListDue(w) PROVE CopyInv'
    <3> DEFINE L == {[id |-> i, key |-> row[i].key, attempts |-> row[i].attempts,
                      due |-> row[i].due, read |-> FALSE] : i \in PageOfDue}
    <3>1. KeepsRows /\ UNCHANGED <<row, lastId, cur>> /\ todo' = [todo EXCEPT ![w] = L] /\ cur[w] = Idle
      BY <2>3, <2>t, OtherWritesKeepRows DEF ListDue
    <3>2. /\ \A t \in L : t.id \in Stored /\ t.key = row[t.id].key /\ t.attempts = row[t.id].attempts
          /\ \A t, u \in L : t.id = u.id => t = u
      <4>1. ASSUME NEW t \in L
            PROVE  t.id \in PageOfDue /\ t = [id |-> t.id, key |-> row[t.id].key,
                     attempts |-> row[t.id].attempts, due |-> row[t.id].due, read |-> FALSE]
        <5>1. PICK i \in PageOfDue : t = [id |-> i, key |-> row[i].key, attempts |-> row[i].attempts,
                                          due |-> row[i].due, read |-> FALSE]
          OBVIOUS
        <5>2. t.id = i
          BY <5>1
        <5> QED BY <5>1, <5>2
      <4>2. \A t \in L : t.id \in Stored /\ t.key = row[t.id].key /\ t.attempts = row[t.id].attempts
        <5> HIDE DEF L
        <5>1. PageOfDue \subseteq Stored
          BY DEF PageOfDue, Due
        <5> QED BY <4>1, <5>1
      <4>3. ASSUME NEW t \in L, NEW u \in L, t.id = u.id PROVE t = u
        <5> HIDE DEF L
        <5> QED BY <4>1, <4>3
      <4> QED BY <4>2, <4>3
    <3>3. \A v \in Workers : \A t \in L : Copy(v, t)
      BY <3>2, <2>t DEF Copy, QTypeOK
    <3>4. todo'[w] = L /\ \A v \in Workers : v # w => todo'[v] = todo[v]
      BY <3>1, <2>t DEF QTypeOK
    <3>5. \A v \in Workers : \A t \in todo'[v] : Copy(v, t)
      BY <3>3, <3>4, <2>t DEF Copies, Held
    <3> HIDE DEF L
    <3>6. Copies'
      BY <3>1, <3>2, <3>4, <3>5, <2>t DEF Copies, Held, Copy, Stored
    <3> QED BY <3>1, <3>6, <2>t DEF CopyInv, Stored
  <2>4. ASSUME NEW w \in Workers, NEW t \in todo[w], Skip(w, t) PROVE CopyInv'
    <3>1. KeepsRows
      BY <2>4, <2>t, OtherWritesKeepRows DEF Skip
    <3> QED BY <3>1, <2>4, <2>k, <2>t DEF Skip, QTypeOK
  <2>5. ASSUME NEW w \in Workers, NEW t \in todo[w], MarkRunning(w, t) PROVE CopyInv'
    <3>1. KeepsRows
      BY <2>5, <2>t, OtherWritesKeepRows
    <3>2. /\ todo'[w] = todo[w] \ {t} /\ cur'[w] = t
          /\ \A v \in Workers : v # w => todo'[v] = todo[v] /\ cur'[v] = cur[v]
      BY <2>5, <2>t DEF MarkRunning, QTypeOK
    <3>3. \A v \in Workers : \A u \in Listed : Copy(v, u) => Copy(v, u)'
      BY <3>1, <2>t, KeptCopies
    <3>4. ASSUME NEW v \in Workers
          PROVE  Held(v)'
      <4>1. CASE v = w
        <5>1. t \in Listed /\ Copy(w, t) /\ t.key.type \in TypesOf[w]
          BY <2>5, <2>l, <2>t DEF MarkRunning, Copies, Held
        <5>2. Copy(w, cur[w])'
          BY <5>1, <3>2, <3>3 DEF Copy
        <5>3. \A u \in todo'[w] : Copy(w, u)'
          BY <3>2, <3>3, <2>l, <2>t DEF Copies, Held
        <5>4. \A u \in todo'[w] : u.id # cur'[w].id
          BY <3>2, <2>t DEF Copies, Held
        <5> QED BY <4>1, <5>1, <5>2, <5>3, <5>4, <3>2, <2>t DEF Copies, Held
      <4>2. CASE v # w
        <5>1. cur'[v] # Idle => Copy(v, cur[v])'
          BY <4>2, <3>2, <3>3, <2>l, <2>t DEF Copies, Held, Copy
        <5> QED BY <4>2, <5>1, <3>2, <3>3, <2>l, <2>t DEF Copies, Held
      <4> QED BY <4>1, <4>2
    <3> QED BY <3>1, <3>4, <2>t, KeptCap DEF CopyInv, Copies
  <2>6. ASSUME NEW w \in Workers, ReadTarget(w) PROVE CopyInv'
    <3>1. KeepsRows /\ UNCHANGED <<row, lastId, todo>>
      BY <2>6, <2>t, OtherWritesKeepRows DEF ReadTarget
    <3>2. /\ cur'[w] = [cur[w] EXCEPT !.read = TRUE] /\ cur[w] # Idle
          /\ \A v \in Workers : v # w => cur'[v] = cur[v]
      BY <2>6, <2>t DEF ReadTarget, QTypeOK
    <3>3. cur'[w].id = cur[w].id /\ cur'[w].key = cur[w].key /\ cur'[w].attempts = cur[w].attempts
      BY <3>2, <2>l DEF Listed
    <3>4. ASSUME NEW v \in Workers PROVE Held(v)'
      <4>1. CASE v = w
        BY <4>1, <3>1, <3>2, <3>3, <2>t DEF Copies, Held, Copy, Stored
      <4>2. CASE v # w
        BY <4>2, <3>1, <3>2, <2>t DEF Copies, Held, Copy, Stored
      <4> QED BY <4>1, <4>2
    <3> QED BY <3>1, <3>4, <2>t DEF CopyInv, Copies, Stored
  <2>7. ASSUME NEW w \in Workers, Succeed(w) PROVE CopyInv'
    <3>1. KeepsRows
      BY <2>7, <2>l, <2>t, WritesKeepRows DEF Succeed
    <3> QED BY <3>1, <2>7, <2>k, <2>t DEF Succeed, QTypeOK
  <2>8. ASSUME NEW w \in Workers, NEW p \in BOOLEAN, FailRun(w, p) PROVE CopyInv'
    <3>1. CASE row' = Canceled(cur[w].id)
      <4>1. KeepsRows
        BY <2>8, <3>1, <2>l, <2>t, WritesKeepRows DEF FailRun
      <4> QED BY <4>1, <2>8, <2>k, <2>t DEF FailRun, QTypeOK
    <3>2. CASE ~GivesUp(cur[w], p) /\ row' = Retried(cur[w].id)
      <4> DEFINE i == cur[w].id
      <4>1. /\ cur[w] # Idle /\ lastId' = lastId /\ todo' = todo
            /\ cur'[w] = Idle /\ \A v \in Workers : v # w => cur'[v] = cur[v]
        BY <2>8, <2>t DEF FailRun, QTypeOK
      <4>2. i \in Ids /\ Copy(w, cur[w]) /\ cur[w].key.type \in TypesOf[w] /\ cur[w].attempts + 1 < MaxAttempts
        <5>1. cur[w] \in Listed /\ Copy(w, cur[w]) /\ cur[w].key.type \in TypesOf[w]
          BY <4>1, <2>l, <2>t DEF Copies, Held
        <5>2. cur[w].attempts \in Nat /\ ~(cur[w].attempts + 1 >= MaxAttempts)
          BY <5>1, <3>2 DEF Listed, GivesUp
        <5> QED BY <5>1, <5>2, QueueAssumption DEF Listed
      <4>3. \A v \in Workers : \A t \in Listed :
               Copy(v, t) /\ (v = w => t.id # i) => Copy(v, t)'
        BY <3>2, <4>1, RetryKeepsCopies
      <4>4. ASSUME NEW v \in Workers
            PROVE  /\ \A t \in todo'[v] : Copy(v, t)'
                   /\ cur'[v] # Idle => cur'[v] = cur[v] /\ Copy(v, cur[v])'
        <5>1. \A t \in todo'[v] : Copy(v, t)'
          BY <4>1, <4>3, <2>l, <2>t DEF Copies, Held
        <5>2. cur'[v] # Idle => cur'[v] = cur[v] /\ Copy(v, cur[v])'
          BY <4>1, <4>3, <2>l, <2>t DEF Copies, Held, Copy
        <5> QED BY <5>1, <5>2
      <4>5. Copies'
        BY <4>1, <4>4, <2>t DEF Copies, Held
      <4>6. ASSUME NEW j \in Stored' PROVE row'[j].attempts < MaxAttempts
        <5>1. CASE j # i
          BY <5>1, <4>2, <3>2, <2>t DEF Retried, QTypeOK, Stored
        <5>2. CASE j = i
          <6>1. j \in Stored /\ row[i].attempts = cur[w].attempts /\ row[i].attempts + 1 < MaxAttempts
            BY <5>2, <4>2, <3>2, <2>t DEF Retried, QTypeOK, Stored, Copy, Writable
          <6>2. row'[i].attempts = row[i].attempts \/ row'[i].attempts = row[i].attempts + 1
            BY <6>1, <3>2, <4>2, <2>t, RetriedRow
          <6> QED BY <6>1, <6>2, <5>2, <2>t
        <5> QED BY <5>1, <5>2
      <4> QED BY <4>5, <4>6 DEF CopyInv
    <3> QED BY <3>1, <3>2, <2>8 DEF FailRun
  <2>9. ASSUME NEW w \in Workers, LoseOutcome(w) PROVE CopyInv'
    <3>1. KeepsRows
      BY <2>9, <2>t, OtherWritesKeepRows DEF LoseOutcome
    <3> QED BY <3>1, <2>9, <2>k, <2>t DEF LoseOutcome, QTypeOK
  <2>10. ASSUME NEW i \in Ids, Cancel(i) PROVE CopyInv'
    <3>1. KeepsRows
      BY <2>10, <2>t, WritesKeepRows DEF Cancel
    <3> QED BY <3>1, <2>10, <2>k DEF Cancel
  <2>11. ASSUME NEW i \in Ids, RetryNow(i) PROVE CopyInv'
    <3>1. KeepsRows
      BY <2>11, <2>t, OtherWritesKeepRows
    <3> QED BY <3>1, <2>11, <2>k DEF RetryNow
  <2>12. ASSUME NEW k \in Keys, Retire(k) PROVE CopyInv'
    <3>1. KeepsRows
      BY <2>12, <2>t, OtherWritesKeepRows
    <3> QED BY <3>1, <2>12, <2>k DEF Retire
  <2>13. ASSUME DeleteFinished \/ DeleteSucceededBefore(now) PROVE CopyInv'
    <3>1. PICK S : Purge(S) /\ UNCHANGED <<lastId, procs, caller, now, counts>>
      BY <2>13 DEF DeleteFinished, DeleteSucceededBefore
    <3>2. KeepsRows
      BY <3>1, <2>t, OtherWritesKeepRows
    <3> QED BY <3>1, <3>2, <2>k
  <2>14. CASE Restart
    <3>1. KeepsRows
      BY <2>14, <2>t, OtherWritesKeepRows
    <3> QED BY <3>1, <2>14, <2>k DEF Restart
  <2>15. CASE Tick \/ UNCHANGED qvars
    <3>1. KeepsRows
      BY <2>15, <2>t, OtherWritesKeepRows DEF Tick, qvars
    <3> QED BY <3>1, <2>15, <2>k DEF Tick, qvars
  <2> QED BY <2>1, <2>2, <2>3, <2>4, <2>5, <2>6, <2>7, <2>8, <2>9, <2>10, <2>11, <2>12, <2>13,
             <2>14, <2>15 DEF QNext, WorkerStep
<1> QED BY <1>1, <1>2, QueueTypeCorrect, PTL DEF QSpec

\* No task is tried more often than the cap allows, and the decision is made
\* with the row's own count although it is made from a copy.
THEOREM AttemptsNeverStale == QSpec => []AttemptsCapped
<1>1. CopyInv => AttemptsCapped
  BY DEF CopyInv, Copies, Held, Copy, AttemptsCapped
<1> QED BY <1>1, CopiesAlways, PTL
-----------------------------------------------------------------------------
\* While the database answers, every row marked running is in the hands of the
\* processor of its type, whatever the admin does and across restarts.
THEOREM RunningAttended == QSpec => []RunningIsAttended
<1>1. QInit => RunningIsAttended
  BY DEF QInit, RunningIsAttended, Stored, NoRow
<1>2. CopyInv /\ RunningIsAttended /\ [QNext]_qvars => RunningIsAttended'
  <2> SUFFICES ASSUME QTypeOK, Copies, RunningIsAttended, [QNext]_qvars, blips' = 0,
                      NEW i \in Stored', row'[i].status = "running"
               PROVE  \E w \in Workers : cur'[w] # Idle /\ cur'[w].id = i /\ row'[i].key.type \in TypesOf[w]
    BY DEF RunningIsAttended, CopyInv
  <2> USE DEF queue, procs, counts
  <2>i. i \in Ids
    BY DEF Stored
  \* a step that leaves i running as it was and its runner at work
  <2>k. ASSUME blips = 0, row[i].status = "running", row'[i].key = row[i].key,
               \A w \in Workers : cur[w] # Idle /\ cur[w].id = i => cur'[w] # Idle /\ cur'[w].id = i
        PROVE  \E w \in Workers : cur'[w] # Idle /\ cur'[w].id = i /\ row'[i].key.type \in TypesOf[w]
    BY <2>k, <2>i DEF RunningIsAttended, Stored
  \* the same for a step that only rewrites rows
  <2>r. ASSUME UNCHANGED <<cur, blips>>, row'[i] = row[i]
        PROVE  \E w \in Workers : cur'[w] # Idle /\ cur'[w].id = i /\ row'[i].key.type \in TypesOf[w]
    BY <2>r, <2>k
  <2>1. ASSUME NEW c \in Callers, Create(c) PROVE row'[i] = row[i] /\ UNCHANGED <<cur, blips>>
    BY <2>1, <2>i DEF Create, QTypeOK
  <2>2. ASSUME NEW w \in Workers, NEW t \in todo[w], MarkRunning(w, t)
        PROVE  \E v \in Workers : cur'[v] # Idle /\ cur'[v].id = i /\ row'[i].key.type \in TypesOf[v]
    <3>1. t \in Listed /\ cur'[w] = t /\ cur[w] = Idle /\ blips = 0 /\ t.key.type \in TypesOf[w]
      BY <2>2 DEF MarkRunning, QTypeOK
    <3>2. CASE i = t.id
      <4>1. row'[i].key = row[i].key /\ i \in Stored
        BY <2>2, <3>2, <2>i DEF MarkRunning, QTypeOK, Row, Stored
      <4>2. row[i].key = t.key
        BY <3>2, <4>1 DEF Copies, Held, Copy
      <4> QED BY <3>1, <3>2, <4>1, <4>2, NotIdle
    <3>3. CASE i # t.id
      <4>1. row'[i] = row[i] /\ \A v \in Workers : v # w => cur'[v] = cur[v]
        BY <2>2, <3>3, <2>i DEF MarkRunning, QTypeOK
      <4> QED BY <3>1, <4>1, <2>k
    <3> QED BY <3>2, <3>3
  <2>3. ASSUME NEW w \in Workers, ReadTarget(w)
        PROVE  \E v \in Workers : cur'[v] # Idle /\ cur'[v].id = i /\ row'[i].key.type \in TypesOf[v]
    <3>1. cur[w] \in Listed /\ row' = row /\ blips = 0
          /\ cur'[w] = [cur[w] EXCEPT !.read = TRUE] /\ \A v \in Workers : v # w => cur'[v] = cur[v]
      BY <2>3 DEF ReadTarget, QTypeOK
    <3>2. cur'[w] \in Listed /\ cur'[w].id = cur[w].id
      BY <3>1 DEF Listed
    <3> QED BY <3>1, <3>2, NotIdle, <2>k
  \* an outcome ends the running of its own row and of no other
  <2>4. ASSUME NEW w \in Workers, cur[w] # Idle, cur' = [cur EXCEPT ![w] = Idle], blips' = blips,
               row' \in {Succeeded(cur[w].id), Retried(cur[w].id), Canceled(cur[w].id)}
        PROVE  \E v \in Workers : cur'[v] # Idle /\ cur'[v].id = i /\ row'[i].key.type \in TypesOf[v]
    <3>1. cur[w].id \in Ids
      BY <2>4 DEF QTypeOK, Listed
    <3>2. i # cur[w].id
      BY <2>4, <3>1, StatusTypes DEF Succeeded, Retried, Canceled, Writable, Active, QTypeOK, Row
    <3>3. row'[i] = row[i] /\ \A v \in Workers : v # w => cur'[v] = cur[v]
      BY <2>4, <3>1, <3>2, <2>i DEF Succeeded, Retried, Canceled, QTypeOK
    <3> QED BY <2>4, <3>2, <3>3, <2>k
  <2>5. ASSUME NEW j \in Ids, Cancel(j) \/ RetryNow(j) PROVE row'[i] = row[i] /\ UNCHANGED <<cur, blips>>
    BY <2>5, <2>i, StatusTypes DEF Cancel, Canceled, RetryNow, Active, QTypeOK, Row
  <2>6. ASSUME NEW k \in Keys, Retire(k) PROVE row'[i] = row[i] /\ UNCHANGED <<cur, blips>>
    BY <2>6, <2>i, StatusTypes DEF Retire, Stored, Row
  <2>7. ASSUME DeleteFinished \/ DeleteSucceededBefore(now)
        PROVE  row'[i] = row[i] /\ UNCHANGED <<cur, blips>>
    BY <2>7, <2>i DEF DeleteFinished, DeleteSucceededBefore, Purge, NoRow
  <2>8. CASE Restart
    BY <2>8, <2>i, StatusTypes DEF Restart, ResetRunning, QTypeOK, Row
  <2>9. ASSUME NEW w \in Workers, LoseOutcome(w) PROVE FALSE
    BY <2>9 DEF LoseOutcome, QTypeOK
  <2>10. ASSUME NEW w \in Workers, NEW t \in todo[w], Skip(w, t)
         PROVE  blips = 0 /\ UNCHANGED <<row, cur>>
    BY <2>10 DEF Skip, QTypeOK
  <2>11. ASSUME UNCHANGED <<row, cur, blips>> PROVE row'[i] = row[i] /\ UNCHANGED <<cur, blips>>
    BY <2>11
  <2>12. ASSUME NEW w \in Workers, Succeed(w) \/ \E p \in BOOLEAN : FailRun(w, p)
         PROVE  \E v \in Workers : cur'[v] # Idle /\ cur'[v].id = i /\ row'[i].key.type \in TypesOf[v]
    BY <2>12, <2>4 DEF Succeed, FailRun
  <2> QED
    BY <2>1, <2>2, <2>3, <2>5, <2>6, <2>7, <2>8, <2>9, <2>10, <2>11, <2>12, <2>k, <2>r
    DEF QNext, WorkerStep, GetActiveByTarget, ListDue, Tick, qvars
<1> QED BY <1>1, <1>2, CopiesAlways, PTL DEF QSpec

\* Neither a listed copy, nor a claim, nor an outcome, nor a boot revives what
\* was canceled or retired.
THEOREM StoppedForGood == QSpec => StoppedStaysStopped
<1> DEFINE Stays(i) ==
      \/ row'[i] = row[i] \/ i \notin Stored'
      \/ row[i].status = "canceled" /\ row'[i].status = "retired"
      \/ row[i].status = "canceled" /\ retries' = retries + 1 /\ row'[i].status = "pending"
<1>1. ASSUME QTypeOK, [QNext]_qvars, NEW i \in Stored, row[i].status \in {"canceled", "retired"}
      PROVE  Stays(i)
  <2> USE DEF queue, procs, counts
  <2>i. i \in Ids /\ row[i] \in Row
    BY <1>1, RowIsStored DEF Stored
  <2>1. ASSUME NEW c \in Callers, Create(c) PROVE row'[i] = row[i]
    <3>1. i # lastId + 1
      BY <1>1 DEF QTypeOK, Ids
    <3> QED BY <1>1, <2>1, <3>1, <2>i DEF Create, QTypeOK
  <2>2. ASSUME NEW w \in Workers, NEW t \in todo[w], MarkRunning(w, t) PROVE row'[i] = row[i]
    BY <1>1, <2>2, <2>i DEF MarkRunning, QTypeOK
  <2>3. ASSUME NEW j \in Ids, row' \in {Succeeded(j), Retried(j), Canceled(j)} PROVE row'[i] = row[i]
    BY <1>1, <2>3, <2>i DEF Succeeded, Retried, Canceled, Writable, Active, QTypeOK
  <2>4. ASSUME NEW w \in Workers, Succeed(w) \/ \E p \in BOOLEAN : FailRun(w, p)
        PROVE  row'[i] = row[i]
    <3>1. cur[w].id \in Ids
      BY <1>1, <2>4 DEF Succeed, FailRun, QTypeOK, Listed
    <3> QED BY <2>3, <2>4, <3>1 DEF Succeed, FailRun
  <2>5. ASSUME NEW j \in Ids, Cancel(j) PROVE row'[i] = row[i]
    BY <2>3, <2>5 DEF Cancel
  <2>6. ASSUME NEW j \in Ids, RetryNow(j) PROVE Stays(i)
    BY <1>1, <2>6, <2>i DEF RetryNow, QTypeOK, Row
  <2>7. ASSUME NEW k \in Keys, Retire(k) PROVE Stays(i)
    BY <1>1, <2>7, <2>i DEF Retire, Row
  <2>8. ASSUME DeleteFinished \/ DeleteSucceededBefore(now) PROVE Stays(i)
    BY <2>8, <2>i DEF DeleteFinished, DeleteSucceededBefore, Purge, Stored, NoRow
  <2>9. CASE Restart
    BY <1>1, <2>9, <2>i DEF Restart, ResetRunning
  <2>10. ASSUME UNCHANGED row PROVE Stays(i)
    BY <2>10
  <2> QED
    BY <1>1, <2>1, <2>2, <2>4, <2>5, <2>6, <2>7, <2>8, <2>9, <2>10
    DEF QNext, WorkerStep, GetActiveByTarget, ListDue, Skip, ReadTarget, LoseOutcome, Tick, qvars
<1>2. QTypeOK /\ [QNext]_qvars => [\A i \in Stored : row[i].status \in {"canceled", "retired"} => Stays(i)]_qvars
  BY <1>1
<1> QED BY <1>2, QueueTypeCorrect, PTL DEF QSpec, StoppedStaysStopped
-----------------------------------------------------------------------------
\* A task is in the hands of one processor at most, and is not done while it is.
Exclusive ==
  \A v, w \in Workers : cur[v] # Idle /\ cur[w] # Idle /\ cur[v].id = cur[w].id => v = w
Unheard ==
  \A w \in Workers : cur[w] # Idle => row[cur[w].id].status # "succeeded"

RunInv == CopyInv /\ Exclusive /\ Unheard

\* What a processor claims is in no other's hands: the row has one type, and the
\* types are disjoint.
LEMMA ClaimedAlone ==
  ASSUME CopyInv, NEW w \in Workers, NEW t \in todo[w], MarkRunning(w, t)
  PROVE  /\ t \in Listed /\ t.id \in Ids /\ t.id \in Stored
         /\ \A v \in Workers : cur[v].id # t.id
<1>1. t \in Listed /\ t.id \in Ids /\ t.id # 0 /\ QTypeOK /\ Copies
  BY NotIdle DEF CopyInv, QTypeOK, Listed
<1>2. t.id \in Stored /\ row[t.id].key = t.key /\ t.key.type \in TypesOf[w] /\ cur[w] = Idle
  BY <1>1 DEF MarkRunning, Stored, Copies, Held, Copy
<1>3. ASSUME NEW v \in Workers, cur[v].id = t.id PROVE FALSE
  <2>1. cur[v] # Idle
    BY <1>1, <1>3 DEF Idle
  <2>2. v # w
    BY <1>2, <2>1
  <2>3. cur[v].key = t.key /\ cur[v].key.type \in TypesOf[v]
    BY <1>1, <1>2, <1>3, <2>1 DEF Copies, Held, Copy
  <2> QED BY <1>2, <2>2, <2>3, QueueAssumption
<1> QED BY <1>1, <1>2, <1>3

\* A step that makes nothing a success and puts nothing into a processor's hands.
QuietRuns ==
  /\ \A i \in Ids : row'[i].status = "succeeded" => row[i].status = "succeeded"
  /\ \A w \in Workers : cur'[w] # Idle => cur[w] # Idle /\ cur'[w].id = cur[w].id

\* Every step is quiet but a claim and a success.
LEMMA MostlyQuiet ==
  ASSUME QTypeOK, [QNext]_qvars
  PROVE  \/ QuietRuns
         \/ \E w \in Workers : Succeed(w) \/ \E t \in todo[w] : MarkRunning(w, t)
<1> USE DEF queue, procs, counts
<1>1. ASSUME NEW i \in Ids, row' \in {Retried(i), Canceled(i)}
      PROVE  \A j \in Ids : row'[j].status = "succeeded" => row[j].status = "succeeded"
  BY <1>1, StatusTypes DEF Retried, Canceled, Writable, Active, QTypeOK, Row
<1>2. ASSUME NEW w \in Workers, cur[w] # Idle, cur' = [cur EXCEPT ![w] = Idle]
      PROVE  /\ cur[w].id \in Ids
             /\ \A v \in Workers : cur'[v] # Idle => cur[v] # Idle /\ cur'[v].id = cur[v].id
  BY <1>2 DEF QTypeOK, Listed
<1>3. ASSUME NEW c \in Callers, Create(c) PROVE QuietRuns
  BY <1>3 DEF Create, QuietRuns, QTypeOK
<1>4. ASSUME NEW w \in Workers, ReadTarget(w) PROVE QuietRuns
  <2>1. cur[w] \in Listed /\ row' = row
        /\ cur'[w] = [cur[w] EXCEPT !.read = TRUE] /\ \A v \in Workers : v # w => cur'[v] = cur[v]
    BY <1>4 DEF ReadTarget, QTypeOK
  <2>2. cur'[w].id = cur[w].id
    BY <2>1 DEF Listed
  <2> QED BY <1>4, <2>1, <2>2 DEF ReadTarget, QuietRuns
<1>5. ASSUME NEW w \in Workers, NEW p \in BOOLEAN, FailRun(w, p) PROVE QuietRuns
  <2>1. cur[w] # Idle /\ cur' = [cur EXCEPT ![w] = Idle]
        /\ row' \in {Retried(cur[w].id), Canceled(cur[w].id)}
    BY <1>5 DEF FailRun
  <2> QED BY <1>1, <1>2, <2>1 DEF QuietRuns
<1>6. ASSUME NEW w \in Workers, LoseOutcome(w) PROVE QuietRuns
  BY <1>2, <1>6 DEF LoseOutcome, QuietRuns
<1>7. ASSUME NEW i \in Ids, Cancel(i) \/ RetryNow(i) PROVE QuietRuns
  <2>1. CASE Cancel(i)
    BY <1>1, <2>1 DEF Cancel, QuietRuns
  <2>2. CASE RetryNow(i)
    BY <2>2, StatusTypes DEF RetryNow, QuietRuns, QTypeOK, Row
  <2> QED BY <1>7, <2>1, <2>2
<1>8. ASSUME NEW k \in Keys, Retire(k) PROVE QuietRuns
  BY <1>8, RowIsStored DEF Retire, QuietRuns, Row
<1>9. ASSUME DeleteFinished \/ DeleteSucceededBefore(now) PROVE QuietRuns
  BY <1>9 DEF DeleteFinished, DeleteSucceededBefore, Purge, QuietRuns, NoRow
<1>10. CASE Restart
  BY <1>10, RowIsStored, StatusTypes DEF Restart, ResetRunning, QuietRuns, Row
<1>11. CASE UNCHANGED <<row, cur>>
  BY <1>11 DEF QuietRuns
<1> QED BY <1>3, <1>4, <1>5, <1>6, <1>7, <1>8, <1>9, <1>10, <1>11
        DEF QNext, WorkerStep, GetActiveByTarget, ListDue, Skip, Tick, qvars

LEMMA RunsAlways == QSpec => []RunInv
<1>1. QInit => Exclusive /\ Unheard
  BY DEF QInit, Exclusive, Unheard
<1>2. RunInv /\ CopyInv' /\ [QNext]_qvars => (Exclusive /\ Unheard)'
  <2> SUFFICES ASSUME CopyInv, Exclusive, Unheard, [QNext]_qvars
               PROVE  (Exclusive /\ Unheard)'
    BY DEF RunInv
  <2>t. QTypeOK /\ \A w \in Workers : cur[w] # Idle => cur[w].id \in Ids
    BY DEF CopyInv, QTypeOK, Listed
  <2>1. CASE QuietRuns
    BY <2>t, <2>1 DEF QuietRuns, Exclusive, Unheard
  <2>2. ASSUME NEW w \in Workers, Succeed(w) PROVE (Exclusive /\ Unheard)'
    <3>1. /\ cur[w] # Idle /\ cur'[w] = Idle /\ \A v \in Workers : v # w => cur'[v] = cur[v]
          /\ \A i \in Ids : i # cur[w].id => row'[i] = row[i]
      BY <2>t, <2>2 DEF Succeed, Succeeded, QTypeOK
    <3> QED BY <2>t, <3>1 DEF Exclusive, Unheard
  <2>3. ASSUME NEW w \in Workers, NEW t \in todo[w], MarkRunning(w, t) PROVE (Exclusive /\ Unheard)'
    <3>1. /\ t.id \in Ids /\ \A v \in Workers : cur[v].id # t.id
          /\ t \in Listed /\ t.id \in Stored
      BY <2>3, ClaimedAlone
    <3>2. cur'[w] = t /\ \A v \in Workers : v # w => cur'[v] = cur[v]
      BY <2>t, <2>3 DEF MarkRunning, QTypeOK
    <3>3. row'[t.id].status = "running" /\ \A i \in Ids : i # t.id => row'[i] = row[i]
      BY <2>t, <2>3, <3>1, StatusTypes DEF MarkRunning, QTypeOK, Stored, Row
    <3> QED BY <2>t, <3>1, <3>2, <3>3 DEF Exclusive, Unheard
  <2> QED BY <2>t, <2>1, <2>2, <2>3, MostlyQuiet
<1> QED BY <1>1, <1>2, CopiesAlways, PTL DEF QSpec, RunInv
-----------------------------------------------------------------------------
LEMMA JobTyped ==
  ASSUME RunInv, NEW i \in Ids
  PROVE  JobOf(i) \in Jobs!Job
<1>1. QTypeOK /\ \A j \in Stored : row[j] \in Row /\ row[j].attempts < MaxAttempts
  BY StatusTypes DEF RunInv, CopyInv, Stored
<1>2. StatusOf(i) \in Jobs!Statuses
  BY <1>1 DEF StatusOf, Jobs!Statuses, Jobs!Open, Jobs!Ended, Row, Active, Ended
<1>3. TriesOf(i) \in 0..(MaxAttempts - 1)
  <2>1. i \in Stored => row[i].attempts \in Nat /\ row[i].attempts < MaxAttempts
    BY <1>1 DEF Row
  <2> QED BY <2>1, QueueAssumption DEF TriesOf
<1>4. Underway(i) \in BOOLEAN
  BY DEF Underway
<1> QED BY <1>2, <1>3, <1>4 DEF JobOf, Jobs!Job

\* A row that stays as it was is the same job, as far as the row goes.
LEMMA SameRow ==
  ASSUME lastId' = lastId, NEW i \in Ids, row'[i] = row[i]
  PROVE  StatusOf(i)' = StatusOf(i) /\ TriesOf(i)' = TriesOf(i)
BY DEF StatusOf, TriesOf, Stored

LEMMA StoredJob ==
  ASSUME QTypeOK, NEW i \in Stored
  PROVE  i \in Ids /\ StatusOf(i) = row[i].status /\ TriesOf(i) = row[i].attempts
BY DEF StatusOf, TriesOf, Stored, QTypeOK, Ids

\* A row that was and is stored.
LEMMA RewrittenRow ==
  ASSUME QTypeOK, lastId' = lastId, NEW i \in Stored, row'[i].status # "absent"
  PROVE  StatusOf(i)' = row'[i].status /\ TriesOf(i)' = row'[i].attempts
BY DEF StatusOf, TriesOf, Stored, QTypeOK, Ids

LEMMA SameRuns ==
  ASSUME \A w \in Workers : cur'[w].id = cur[w].id, NEW i \in Ids
  PROVE  Underway(i)' = Underway(i)
BY DEF Underway

LEMMA JobChanges ==
  ASSUME NEW i \in Ids, \A j \in Ids \ {i} : JobOf(j)' = JobOf(j)
  PROVE  [j \in Ids |-> JobOf(j)]' = [[j \in Ids |-> JobOf(j)] EXCEPT ![i] = JobOf(i)']
OBVIOUS

JobsTyped == \A i \in Ids : JobOf(i) \in Jobs!Job

\* One job changes as the ledger has it, and nobody asked for a run.
LEMMA JobBecomes ==
  ASSUME JobsTyped', NEW i \in Ids, \A j \in Ids \ {i} : JobOf(j)' = JobOf(j), retries' = retries
  PROVE  Jobs!Becomes(i, JobOf(i)')
<1>1. JobOf(i)' \in Jobs!Job
  BY DEF JobsTyped
<1> QED BY <1>1, JobChanges DEF Jobs!Becomes

\* A processor lets go of its task, and the row says the same as before, or that
\* the task ended, or that it is to be tried once more.
LEMMA ExecutionEnds ==
  ASSUME RunInv, JobsTyped', lastId' = lastId, retries' = retries,
         NEW w \in Workers, cur[w] # Idle, cur' = [cur EXCEPT ![w] = Idle],
         NEW i \in Ids, i = cur[w].id,
         \A j \in Ids \ {i} : row'[j] = row[j],
         \/ row'[i] = row[i]
         \/ /\ i \in Stored /\ row[i].status \in Active /\ row'[i].attempts = row[i].attempts
            /\ row'[i].status \in {"succeeded", "canceled"}
         \/ /\ i \in Stored /\ row[i].status \in Active /\ row'[i].attempts = row[i].attempts + 1
            /\ row'[i].status = "pending"
  PROVE  Jobs!End(i)
<1>1. QTypeOK /\ Exclusive /\ i # 0 /\ \A v \in Workers : cur[v] # Idle => cur[v].id \in Ids
  BY DEF RunInv, CopyInv, QTypeOK, Listed, Ids
<1>2. cur'[w] = Idle /\ \A v \in Workers : v # w => cur'[v] = cur[v]
  BY <1>1 DEF QTypeOK
<1>3. Underway(i) = TRUE
  BY DEF Underway
<1>4. Underway(i)' = FALSE
  BY <1>1, <1>2 DEF Underway, Exclusive, Idle
<1>5. ASSUME NEW j \in Ids \ {i} PROVE JobOf(j)' = JobOf(j)
  <2>1. Underway(j)' = Underway(j)
    BY <1>1, <1>2, <1>5 DEF Underway, Idle, Ids
  <2> QED BY <1>5, <2>1, SameRow DEF JobOf
<1>6. Jobs!Becomes(i, JobOf(i)')
  BY <1>5, JobBecomes
<1>7. JobOf(i)' = Jobs!As(StatusOf(i)', TriesOf(i)', FALSE)
  BY <1>4 DEF JobOf, Jobs!As
<1>8. /\ [j \in Ids |-> JobOf(j)][i].status = StatusOf(i)
      /\ [j \in Ids |-> JobOf(j)][i].tries = TriesOf(i)
  BY DEF JobOf
<1>9. [j \in Ids |-> JobOf(j)][i].held
  BY <1>3 DEF JobOf
<1>10. CASE row'[i] = row[i]
  <2>1. JobOf(i)' = Jobs!As([j \in Ids |-> JobOf(j)][i].status, [j \in Ids |-> JobOf(j)][i].tries, FALSE)
    BY <1>7, <1>8, <1>10, SameRow
  <2> QED BY <1>6, <1>9, <2>1 DEF Jobs!End
<1>11. CASE /\ i \in Stored /\ row[i].status \in Active /\ row'[i].attempts = row[i].attempts
            /\ row'[i].status \in {"succeeded", "canceled"}
  <2>1. /\ StatusOf(i) \in Jobs!Open /\ TriesOf(i)' = TriesOf(i)
        /\ StatusOf(i)' = row'[i].status
    BY <1>1, <1>11, StoredJob, RewrittenRow DEF Jobs!Open, Active
  <2>2. [j \in Ids |-> JobOf(j)][i].status \in Jobs!Open
    BY <1>8, <2>1
  <2>3. JobOf(i)' = Jobs!As(row'[i].status, [j \in Ids |-> JobOf(j)][i].tries, FALSE)
    BY <1>7, <1>8, <2>1
  <2> QED BY <1>6, <1>9, <1>11, <2>2, <2>3 DEF Jobs!End
<1>12. CASE /\ i \in Stored /\ row[i].status \in Active /\ row'[i].attempts = row[i].attempts + 1
            /\ row'[i].status = "pending"
  <2>1. /\ StatusOf(i) \in Jobs!Open /\ TriesOf(i)' = TriesOf(i) + 1
        /\ StatusOf(i)' = "pending"
    BY <1>1, <1>12, StoredJob, RewrittenRow DEF Jobs!Open, Active
  <2>2. [j \in Ids |-> JobOf(j)][i].status \in Jobs!Open
    BY <1>8, <2>1
  <2>3. JobOf(i)' = Jobs!As("pending", [j \in Ids |-> JobOf(j)][i].tries + 1, FALSE)
    BY <1>7, <1>8, <2>1
  <2> QED BY <1>6, <1>9, <2>2, <2>3 DEF Jobs!End
<1> QED BY <1>10, <1>11, <1>12

\* A step that rewrites one row and leaves the processors alone.
LEMMA RowAlone ==
  ASSUME QTypeOK, lastId' = lastId, NEW i \in Stored,
         \A j \in Ids \ {i} : row'[j] = row[j],
         row'[i].status # "absent", row'[i].attempts = row[i].attempts,
         \A w \in Workers : cur'[w].id = cur[w].id
  PROVE  /\ i \in Ids /\ \A j \in Ids \ {i} : JobOf(j)' = JobOf(j)
         /\ [j \in Ids |-> JobOf(j)][i].status = row[i].status
         /\ JobOf(i)' = Jobs!As(row'[i].status, [j \in Ids |-> JobOf(j)][i].tries,
                                                [j \in Ids |-> JobOf(j)][i].held)
<1>1. \A j \in Ids \ {i} : JobOf(j)' = JobOf(j)
  BY SameRow, SameRuns DEF JobOf
<1>2. i \in Ids /\ Underway(i)' = Underway(i)
  BY StoredJob, SameRuns
<1>3. JobOf(i)' = [status |-> row'[i].status, tries |-> TriesOf(i), held |-> Underway(i)]
  BY <1>2, StoredJob, RewrittenRow DEF JobOf
<1>4. [j \in Ids |-> JobOf(j)][i] = [status |-> row[i].status, tries |-> TriesOf(i), held |-> Underway(i)]
  BY <1>2, StoredJob DEF JobOf
<1> QED BY <1>1, <1>2, <1>3, <1>4 DEF Jobs!As

LEMMA JobsAlways == QSpec => []JobsTyped
<1>1. RunInv => JobsTyped
  BY JobTyped DEF JobsTyped
<1> QED BY <1>1, RunsAlways, PTL

\* A step that changes no row and lets go of nothing is not seen in the ledger.
LEMMA SameJobs ==
  ASSUME UNCHANGED <<row, lastId, retries>>, \A w \in Workers : cur'[w].id = cur[w].id
  PROVE  UNCHANGED <<[i \in Ids |-> JobOf(i)], retries>>
<1>1. \A i \in Ids : JobOf(i)' = JobOf(i)
  BY SameRow, SameRuns DEF JobOf
<1> QED BY <1>1

\* An enqueued row is a job that was never known.
LEMMA EnqueuedJob ==
  ASSUME RunInv, JobsTyped', NEW c \in Callers, Create(c)
  PROVE  \E i \in Ids : Jobs!Enqueue(i)
<1>0. /\ QTypeOK /\ lastId \in Nat /\ lastId + 1 \in Ids
      /\ \A w \in Workers : cur[w] = Idle \/ cur[w].id <= lastId
  <2>1. QTypeOK /\ lastId \in 0..MaxId /\ lastId < MaxId
    BY DEF RunInv, CopyInv, QTypeOK, Create
  <2>2. lastId \in Nat /\ lastId + 1 \in Ids
    BY <2>1, QueueAssumption DEF Ids
  <2>3. \A w \in Workers : cur[w] = Idle \/ cur[w].id <= lastId
    BY DEF RunInv, CopyInv, Copies, Held, Copy
  <2> QED BY <2>1, <2>2, <2>3
<1>1. PICK i \in Ids : i = lastId + 1
  BY <1>0
<1>2. /\ lastId' = lastId + 1 /\ \A j \in Ids \ {i} : row'[j] = row[j]
      /\ row'[i].status = "pending" /\ row'[i].attempts = 0 /\ UNCHANGED <<cur, retries>>
  BY <1>0, <1>1 DEF Create, QTypeOK, procs, counts
<1>3. i \notin Stored /\ i \in Stored' /\ Underway(i) = FALSE
  <2>1. i \notin Stored
    BY <1>0, <1>1 DEF QTypeOK
  <2>2. i \in Stored'
    BY <1>1, <1>2 DEF Stored
  <2>3. \A w \in Workers : cur[w].id # i
    BY <1>0, <1>1 DEF Idle, Ids
  <2> QED BY <2>1, <2>2, <2>3 DEF Underway
<1>4. StatusOf(i) = "unborn" /\ TriesOf(i) = 0 /\ StatusOf(i)' = "pending" /\ TriesOf(i)' = 0
  BY <1>0, <1>1, <1>2, <1>3 DEF StatusOf, TriesOf
<1>5. Underway(i)' = FALSE
  BY <1>2, <1>3, SameRuns
<1>6. [j \in Ids |-> JobOf(j)][i] = Jobs!Unborn /\ JobOf(i)' = Jobs!As("pending", 0, FALSE)
  BY <1>1, <1>3, <1>4, <1>5 DEF JobOf, Jobs!Unborn, Jobs!As
<1>7. ASSUME NEW j \in Ids \ {i} PROVE JobOf(j)' = JobOf(j)
  <2>1. j \in Nat /\ (j > lastId <=> j > lastId + 1) /\ (j \in Stored <=> j \in Stored')
    BY <1>0, <1>1, <1>2 DEF Ids, Stored
  <2>2. StatusOf(j)' = StatusOf(j) /\ TriesOf(j)' = TriesOf(j)
    BY <1>1, <1>2, <2>1 DEF StatusOf, TriesOf
  <2> QED BY <1>2, <2>2, SameRuns DEF JobOf
<1>8. Jobs!Becomes(i, JobOf(i)')
  BY <1>1, <1>2, <1>7, JobBecomes
<1> QED BY <1>1, <1>6, <1>8 DEF Jobs!Enqueue

\* A claim begins an execution of a job that nobody runs.
LEMMA BegunJob ==
  ASSUME RunInv, JobsTyped', NEW w \in Workers, NEW t \in todo[w], MarkRunning(w, t)
  PROVE  \E i \in Ids : Jobs!Begin(i)
<1> DEFINE i == t.id
<1>1. QTypeOK /\ i \in Ids /\ i \in Stored /\ t \in Listed /\ \A v \in Workers : cur[v].id # i
  BY ClaimedAlone DEF RunInv, CopyInv
<1>2. /\ cur[w] = Idle /\ cur'[w] = t /\ \A v \in Workers : v # w => cur'[v] = cur[v]
      /\ row[i].status = "pending" /\ UNCHANGED <<lastId, retries>>
  BY <1>1 DEF MarkRunning, QTypeOK, counts
<1>3. /\ \A j \in Ids \ {i} : row'[j] = row[j]
      /\ row'[i].status = "running" /\ row'[i].attempts = row[i].attempts
  BY <1>1, StatusTypes DEF MarkRunning, QTypeOK, Stored, Row
<1>4. Underway(i) = FALSE /\ Underway(i)' = TRUE
  BY <1>1, <1>2 DEF Underway
<1>5. ASSUME NEW j \in Ids \ {i} PROVE JobOf(j)' = JobOf(j)
  <2>1. Underway(j)' = Underway(j)
    BY <1>2, <1>5 DEF Underway, Idle, Ids
  <2> QED BY <1>2, <1>3, <1>5, <2>1, SameRow DEF JobOf
<1>6. Jobs!Becomes(i, JobOf(i)')
  BY <1>1, <1>2, <1>5, JobBecomes
<1>7. StatusOf(i) = "pending" /\ StatusOf(i)' = "running" /\ TriesOf(i)' = TriesOf(i)
  BY <1>1, <1>2, <1>3, StoredJob, RewrittenRow
<1>8. /\ [j \in Ids |-> JobOf(j)][i].status = "pending"
      /\ [j \in Ids |-> JobOf(j)][i].tries = TriesOf(i)
      /\ ~[j \in Ids |-> JobOf(j)][i].held
  BY <1>1, <1>4, <1>7 DEF JobOf
<1>9. JobOf(i)' = Jobs!As("running", TriesOf(i), TRUE)
  BY <1>4, <1>7 DEF JobOf, Jobs!As
<1> QED BY <1>1, <1>6, <1>8, <1>9 DEF Jobs!Begin

\* Whatever outcome is written or lost ends the execution.
LEMMA EndedJob ==
  ASSUME RunInv, JobsTyped', NEW w \in Workers,
         Succeed(w) \/ LoseOutcome(w) \/ \E p \in BOOLEAN : FailRun(w, p)
  PROVE  \E i \in Ids : Jobs!End(i)
<1>0. QTypeOK /\ cur[w] # Idle /\ cur' = [cur EXCEPT ![w] = Idle] /\ UNCHANGED <<lastId, retries>>
  BY DEF RunInv, CopyInv, Succeed, LoseOutcome, FailRun, queue, counts
<1>a. PICK i \in Ids : i = cur[w].id
  BY <1>0 DEF QTypeOK, Listed
<1>1. QTypeOK /\ cur[w] # Idle /\ i = cur[w].id /\ cur' = [cur EXCEPT ![w] = Idle]
      /\ UNCHANGED <<lastId, retries>>
  BY <1>0, <1>a
<1>2. i \in Ids /\ row[i].status # "succeeded"
  BY <1>1 DEF QTypeOK, Listed, RunInv, Unheard
<1>3. Writable(i) => i \in Stored /\ row[i] \in Row /\ row[i].status \in Active
  BY <1>1, <1>2, StatusTypes DEF Writable, Stored, Row, Active, Ended
<1>4. CASE row' = row
  BY <1>1, <1>2, <1>4, ExecutionEnds
<1>5. CASE row' = Succeeded(i) /\ row' # row
  <2>1. /\ Writable(i) /\ \A j \in Ids \ {i} : row'[j] = row[j]
        /\ row'[i].status = "succeeded" /\ row'[i].attempts = row[i].attempts
    BY <1>1, <1>2, <1>3, <1>5 DEF Succeeded, QTypeOK, Row
  <2> QED BY <1>1, <1>2, <1>3, <2>1, ExecutionEnds
<1>6. CASE row' = Canceled(i) /\ row' # row
  <2>1. row[i].status \in Active /\ i \in Stored /\ row[i] \in Row
    BY <1>1, <1>2, <1>6, StatusTypes DEF Canceled, Stored, Active
  <2>2. /\ \A j \in Ids \ {i} : row'[j] = row[j]
        /\ row'[i].status = "canceled" /\ row'[i].attempts = row[i].attempts
    BY <1>1, <1>2, <1>6, <2>1 DEF Canceled, QTypeOK, Row
  <2> QED BY <1>1, <1>2, <2>1, <2>2, ExecutionEnds
<1>7. CASE row' = Retried(i) /\ row' # row
  <2>1. Writable(i)
    BY <1>7 DEF Retried
  <2> DEFINE n == row[i].attempts + 1
             r == [row[i] EXCEPT !.status = "pending", !.error = TRUE, !.attempts = n, !.due = NextRun]
  <2>2. row' = [row EXCEPT ![i] = r]
    BY <1>7, <2>1 DEF Retried
  <2>3. r.status = "pending" /\ r.attempts = row[i].attempts + 1
    BY <1>3, <2>1 DEF Row
  <2> HIDE DEF r
  <2>4. row'[i] = r /\ \A j \in Ids \ {i} : row'[j] = row[j]
    BY <1>1, <1>2, <2>2 DEF QTypeOK
  <2> QED BY <1>1, <1>2, <1>3, <2>1, <2>3, <2>4, ExecutionEnds
<1> QED BY <1>1, <1>4, <1>5, <1>6, <1>7 DEF Succeed, LoseOutcome, FailRun, queue

LEMMA StoppedJob ==
  ASSUME RunInv, JobsTyped', NEW i \in Ids, Cancel(i)
  PROVE  Jobs!Stop(i)
<1>1. QTypeOK /\ i \in Stored /\ row[i] \in Row /\ row[i].status \in Active
  BY StatusTypes DEF RunInv, CopyInv, Cancel, Stored, Active
<1>2. /\ \A j \in Ids \ {i} : row'[j] = row[j]
      /\ row'[i].status = "canceled" /\ row'[i].attempts = row[i].attempts
      /\ UNCHANGED <<lastId, cur, retries>>
  BY <1>1 DEF Cancel, Canceled, QTypeOK, Row, procs, counts
<1>3. /\ \A j \in Ids \ {i} : JobOf(j)' = JobOf(j)
      /\ [j \in Ids |-> JobOf(j)][i].status = row[i].status
      /\ JobOf(i)' = Jobs!As("canceled", [j \in Ids |-> JobOf(j)][i].tries,
                                         [j \in Ids |-> JobOf(j)][i].held)
  BY <1>1, <1>2, RowAlone
<1>4. Jobs!Becomes(i, JobOf(i)')
  BY <1>2, <1>3, JobBecomes
<1> QED BY <1>1, <1>3, <1>4 DEF Jobs!Stop, Jobs!Open, Active

LEMMA AskedJob ==
  ASSUME RunInv, NEW i \in Ids, RetryNow(i)
  PROVE  Jobs!Ask(i)
<1>1. QTypeOK /\ i \in Stored /\ row[i] \in Row /\ row[i].status \in Active \cup {"succeeded", "canceled"}
  BY StatusTypes DEF RunInv, CopyInv, RetryNow, Stored, Row, Active, Ended
<1>2. /\ \A j \in Ids \ {i} : row'[j] = row[j]
      /\ row'[i].status = "pending" /\ row'[i].attempts = row[i].attempts
      /\ UNCHANGED <<lastId, cur>> /\ retries' = retries + 1
  BY <1>1 DEF RetryNow, QTypeOK, Row, procs
<1>3. /\ \A j \in Ids \ {i} : JobOf(j)' = JobOf(j)
      /\ [j \in Ids |-> JobOf(j)][i].status = row[i].status
      /\ JobOf(i)' = Jobs!As("pending", [j \in Ids |-> JobOf(j)][i].tries,
                                        [j \in Ids |-> JobOf(j)][i].held)
  BY <1>1, <1>2, RowAlone
<1>4. [j \in Ids |-> JobOf(j)]' = [[j \in Ids |-> JobOf(j)] EXCEPT ![i] = JobOf(i)']
  BY <1>3, JobChanges
<1> QED BY <1>1, <1>2, <1>3, <1>4 DEF Jobs!Ask, Jobs!Open, Active

\* A migration retires, and a purge deletes, what it names and nothing else.
LEMMA RetiredJobs ==
  ASSUME RunInv, NEW k \in Keys, Retire(k)
  PROVE  \E S \in SUBSET Ids : Jobs!Retire(S)
<1>1. QTypeOK /\ \A i \in Stored : i \in Ids /\ row[i] \in Row
  BY StatusTypes DEF RunInv, CopyInv, Stored
<1>2. UNCHANGED <<lastId, cur, retries>>
  BY DEF Retire, procs, counts
<1>3. PICK S \in SUBSET Ids : S = {i \in Stored : row[i].key = k /\ row[i].status # "retired"}
  BY <1>1
<1>4. ASSUME NEW i \in S
      PROVE  /\ [j \in Ids |-> JobOf(j)][i].status \notin {"unborn", "gone"}
             /\ JobOf(i)' = Jobs!As("retired", [j \in Ids |-> JobOf(j)][i].tries,
                                               [j \in Ids |-> JobOf(j)][i].held)
  <2>1. i \in Stored /\ i \in Ids /\ row[i] \in Row
    BY <1>1, <1>3
  <2>2. row'[i].status = "retired" /\ row'[i].attempts = row[i].attempts
    BY <1>3, <2>1 DEF Retire, Row
  <2>3. StatusOf(i) = row[i].status /\ StatusOf(i)' = "retired" /\ TriesOf(i)' = TriesOf(i)
    BY <1>1, <1>2, <2>1, <2>2, StoredJob, RewrittenRow
  <2>4. Underway(i)' = Underway(i)
    BY <1>2, <2>1, SameRuns
  <2>5. JobOf(i)' = Jobs!As("retired", TriesOf(i), Underway(i))
    BY <2>3, <2>4 DEF JobOf, Jobs!As
  <2>6. /\ [j \in Ids |-> JobOf(j)][i].status = StatusOf(i)
        /\ [j \in Ids |-> JobOf(j)][i].tries = TriesOf(i)
        /\ [j \in Ids |-> JobOf(j)][i].held = Underway(i)
    BY <2>1 DEF JobOf
  <2> QED BY <2>1, <2>3, <2>5, <2>6 DEF Row, Active, Ended
<1>5. ASSUME NEW i \in Ids, i \notin S PROVE JobOf(i)' = [j \in Ids |-> JobOf(j)][i]
  <2>1. row'[i] = row[i]
    BY <1>3, <1>5 DEF Retire
  <2> QED BY <1>2, <2>1, SameRow, SameRuns DEF JobOf
<1> QED BY <1>2, <1>4, <1>5 DEF Jobs!Retire

LEMMA DeletedJobs ==
  ASSUME RunInv, DeleteFinished \/ DeleteSucceededBefore(now)
  PROVE  \E S \in SUBSET Ids : Jobs!Delete(S)
<1>1. QTypeOK /\ \A i \in Stored : i \in Ids /\ row[i] \in Row
  BY StatusTypes DEF RunInv, CopyInv, Stored
<1>2. UNCHANGED <<lastId, cur, retries>>
  BY DEF DeleteFinished, DeleteSucceededBefore, procs, counts
<1>3. PICK S \in SUBSET Ids : Purge(S) /\ \A i \in S : i \in Stored /\ row[i].status \in Ended
  <2>1. \E S : Purge(S) /\ \A i \in S : i \in Stored /\ row[i].status \in Ended
    BY DEF DeleteFinished, DeleteSucceededBefore, Ended
  <2> QED BY <1>1, <2>1
<1>4. ASSUME NEW i \in S
      PROVE  /\ [j \in Ids |-> JobOf(j)][i].status \in Jobs!Ended
             /\ JobOf(i)' = Jobs!As("gone", 0, [j \in Ids |-> JobOf(j)][i].held)
  <2>1. i \in Stored /\ i \in Ids /\ i <= lastId /\ lastId \in Nat /\ row[i].status \in Ended
    BY <1>1, <1>3 DEF QTypeOK
  <2>2. i \notin Stored'
    BY <1>3, <2>1 DEF Purge, Stored, NoRow
  <2>3. StatusOf(i)' = "gone" /\ TriesOf(i)' = 0 /\ StatusOf(i) = row[i].status
    BY <1>1, <1>2, <2>1, <2>2, StoredJob DEF StatusOf, TriesOf, Ids
  <2>4. Underway(i)' = Underway(i)
    BY <1>2, <2>1, SameRuns
  <2>5. JobOf(i)' = Jobs!As("gone", 0, Underway(i))
    BY <2>3, <2>4 DEF JobOf, Jobs!As
  <2>6. /\ [j \in Ids |-> JobOf(j)][i].status = StatusOf(i)
        /\ [j \in Ids |-> JobOf(j)][i].held = Underway(i)
    BY <2>1 DEF JobOf
  <2> QED BY <2>1, <2>3, <2>5, <2>6 DEF Ended, Jobs!Ended
<1>5. ASSUME NEW i \in Ids, i \notin S PROVE JobOf(i)' = [j \in Ids |-> JobOf(j)][i]
  <2>1. row'[i] = row[i]
    BY <1>3, <1>5 DEF Purge
  <2> QED BY <1>2, <2>1, SameRow, SameRuns DEF JobOf
<1> QED BY <1>2, <1>3, <1>4, <1>5 DEF Jobs!Delete

\* A boot leaves nothing running and nothing in anybody's hands.
LEMMA InterruptedJobs ==
  ASSUME RunInv, Restart
  PROVE  Jobs!Boot
<1>1. QTypeOK /\ UNCHANGED <<lastId, retries>> /\ \A w \in Workers : cur'[w] = Idle
  BY DEF RunInv, CopyInv, Restart
<1>2. ASSUME NEW i \in Ids
      PROVE  JobOf(i)' = Jobs!As(IF StatusOf(i) = "running" THEN "pending" ELSE StatusOf(i), TriesOf(i), FALSE)
  <2>1. Underway(i)' = FALSE
    BY <1>1 DEF Underway, Idle, Ids
  <2>2. CASE row[i].status = "running"
    <3>1. row[i] \in Row /\ i \in Stored
      BY <1>1, <2>2, StatusTypes DEF Stored
    <3>2. row'[i].status = "pending" /\ row'[i].attempts = row[i].attempts
      BY <2>2, <3>1 DEF Restart, ResetRunning, Row
    <3>3. StatusOf(i) = "running" /\ StatusOf(i)' = "pending" /\ TriesOf(i)' = TriesOf(i)
      BY <1>1, <2>2, <3>1, <3>2, StoredJob, RewrittenRow
    <3> QED BY <2>1, <3>3 DEF JobOf, Jobs!As
  <2>3. CASE row[i].status # "running"
    <3>1. row'[i] = row[i]
      BY <2>3 DEF Restart, ResetRunning
    <3>2. StatusOf(i)' = StatusOf(i) /\ TriesOf(i)' = TriesOf(i) /\ StatusOf(i) # "running"
      BY <1>1, <2>3, <3>1, SameRow DEF StatusOf
    <3> QED BY <2>1, <3>2 DEF JobOf, Jobs!As
  <2> QED BY <2>2, <2>3
<1>3. \A i \in Ids : /\ [j \in Ids |-> JobOf(j)][i].status = StatusOf(i)
                     /\ [j \in Ids |-> JobOf(j)][i].tries = TriesOf(i)
  BY DEF JobOf
<1> QED BY <1>1, <1>2, <1>3 DEF Jobs!Boot

\* Every call on the queue, in whatever order and from however old a copy, is a
\* step of the ledger of jobs or is not seen there: one execution at a time, each
\* failure counted once, and no way back from an end but the admin's.
THEOREM QueueKeepsJobs == QSpec => KeepsJobs
<1>1. QInit => Jobs!JInit
  <2> SUFFICES ASSUME QInit PROVE Jobs!JInit
    OBVIOUS
  <2>1. ASSUME NEW i \in Ids PROVE JobOf(i) = Jobs!Unborn
    <3>1. StatusOf(i) = "unborn" /\ TriesOf(i) = 0 /\ Underway(i) = FALSE
      BY QueueAssumption DEF QInit, StatusOf, TriesOf, Underway, Stored, NoRow, Idle, Ids
    <3> QED BY <3>1 DEF JobOf, Jobs!Unborn, Jobs!As
  <2> QED BY <2>1 DEF Jobs!JInit, QInit
<1>2. RunInv /\ JobsTyped' /\ [QNext]_qvars => [Jobs!JNext]_<<[i \in Ids |-> JobOf(i)], retries>>
  <2> SUFFICES ASSUME RunInv, JobsTyped', [QNext]_qvars
               PROVE  [Jobs!JNext]_<<[i \in Ids |-> JobOf(i)], retries>>
    OBVIOUS
  <2>1. ASSUME NEW c \in Callers, Create(c) PROVE Jobs!JNext
    BY <2>1, EnqueuedJob DEF Jobs!JNext
  <2>2. ASSUME NEW w \in Workers, NEW t \in todo[w], MarkRunning(w, t) PROVE Jobs!JNext
    BY <2>2, BegunJob DEF Jobs!JNext
  <2>3. ASSUME NEW w \in Workers, Succeed(w) \/ LoseOutcome(w) \/ \E p \in BOOLEAN : FailRun(w, p)
        PROVE  Jobs!JNext
    BY <2>3, EndedJob DEF Jobs!JNext
  <2>4. ASSUME NEW i \in Ids, Cancel(i) \/ RetryNow(i) PROVE Jobs!JNext
    BY <2>4, StoppedJob, AskedJob DEF Jobs!JNext
  <2>5. ASSUME NEW k \in Keys, Retire(k) PROVE Jobs!JNext
    BY <2>5, RetiredJobs DEF Jobs!JNext
  <2>6. ASSUME DeleteFinished \/ DeleteSucceededBefore(now) PROVE Jobs!JNext
    BY <2>6, DeletedJobs DEF Jobs!JNext
  <2>7. CASE Restart
    BY <2>7, InterruptedJobs DEF Jobs!JNext
  <2>8. ASSUME NEW w \in Workers, ReadTarget(w)
        PROVE  UNCHANGED <<[i \in Ids |-> JobOf(i)], retries>>
    <3>1. cur[w] \in Listed /\ UNCHANGED <<row, lastId, retries>>
          /\ cur'[w] = [cur[w] EXCEPT !.read = TRUE] /\ \A v \in Workers : v # w => cur'[v] = cur[v]
      BY <2>8 DEF ReadTarget, RunInv, CopyInv, QTypeOK, queue, counts
    <3>2. cur'[w].id = cur[w].id
      BY <3>1 DEF Listed
    <3> QED BY <3>1, <3>2, SameJobs
  <2>9. CASE UNCHANGED <<row, lastId, retries, cur>>
    BY <2>9, SameJobs
  <2> QED BY <2>1, <2>2, <2>3, <2>4, <2>5, <2>6, <2>7, <2>8, <2>9
          DEF QNext, WorkerStep, GetActiveByTarget, ListDue, Skip, Tick, qvars, queue, procs, counts
<1> QED BY <1>1, <1>2, RunsAlways, JobsAlways, PTL DEF QSpec, KeepsJobs, Jobs!JSpec
=============================================================================
