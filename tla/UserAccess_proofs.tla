-------------------------- MODULE UserAccess_proofs --------------------------
(***************************************************************************)
(* Proofs about UserAccess, for any workers, operations and bounds: the    *)
(* row keeps its shape, the automatic lift is never early, and an          *)
(* emergency grant neither loses a use nor replaces a location suspension. *)
(*                                                                         *)
(* The argument is the two locks.  An operation that holds one finds what  *)
(* it read still true when it writes, although most operations hold none:  *)
(* they write nothing that would make it false.                            *)
(***************************************************************************)
EXTENDS UserAccess, TLAPS

\* Where an operation can be.
Placed(q) ==
  /\ At(q, "lock") => worker[q].op \in Locked
  /\ At(q, "elock") \/ At(q, "grant") => worker[q].op = "emergency"
  /\ At(q, "window") => worker[q].op \in {"rollover", "quota"}

\* Who holds the locks.
HoldsLock(q)  == worker[q].op \in Locked /\ ~At(q, "idle") /\ ~At(q, "lock") => ulock = q
HoldsELock(q) ==
  worker[q].op = "emergency" /\ worker[q].pc \in {"read", "save", "mark", "grant"} => elock = q

\* What a lift has read is still so: the suspension it ends is no newer.
LiftKnows(q) ==
  Doing(q, "lift", "clear") /\ user.svc = "geo_auto" => user.at <= worker[q].cutoff

\* What a grant has read is still so: no window, no location suspension, no use more.
GrantKnows(q) ==
  worker[q].op = "emergency" /\ worker[q].pc \in {"save", "mark", "grant"} =>
    /\ user.svc # "geo_auto" /\ user.until <= now
    /\ user.used <= worker[q].snap.used /\ worker[q].snap.used < MaxUses

Inv(q) == Placed(q) /\ HoldsLock(q) /\ HoldsELock(q) /\ LiftKnows(q) /\ GrantKnows(q)
AInv == TypeOK /\ \A q \in Procs : Inv(q)

\* A step of p as the others see it.
Moved(p) == worker' \in [Procs -> Calls] /\ \A q \in Procs \ {p} : worker'[q] = worker[q]

\* p takes a lock that is free, or gives back its own.
Mine(p, lock, new) == new = lock \/ (lock = Nobody /\ new = p) \/ (lock = p /\ new = Nobody)

\* A new location suspension is written under both locks, a use under the emergency lock.
WritesOf(p) ==
  /\ user'.svc = "geo_auto" =>
       (user.svc = "geo_auto" /\ user'.at = user.at) \/ (ulock = p /\ elock = Nobody)
  /\ (user'.used <= user.used /\ (user'.until = user.until \/ user'.until = 0)) \/ elock = p

LEMMA NobodyRuns == Nobody \notin Procs
BY AccessAssumption DEF Nobody, Procs

\* Everyone but p is left with what they know.
LEMMA OthersKeep ==
  ASSUME AInv, NEW p \in Procs, Moved(p), Mine(p, ulock, ulock'), Mine(p, elock, elock'),
         user' \in Rows, now' = now, WritesOf(p), Inv(p)'
  PROVE  \A q \in Procs : Inv(q)'
<1> SUFFICES ASSUME NEW q \in Procs, q # p PROVE Inv(q)'
  OBVIOUS
<1>1. worker'[q] = worker[q] /\ Inv(q) /\ q # Nobody
  BY NobodyRuns DEF AInv, Moved
<1>2. now \in Nat /\ user \in Rows /\ worker[q] \in Calls /\ MaxUses \in Nat
  BY AccessAssumption DEF AInv, TypeOK
<1>3. Placed(q)'
  BY <1>1 DEF Inv, Placed, At
<1>4. HoldsLock(q)'
  BY <1>1 DEF Inv, HoldsLock, At, Mine
<1>5. HoldsELock(q)'
  BY <1>1 DEF Inv, HoldsELock, Mine
<1>6. LiftKnows(q)'
  <2> SUFFICES ASSUME Doing(q, "lift", "clear"), user'.svc = "geo_auto"
               PROVE  user'.at <= worker[q].cutoff
    BY <1>1 DEF LiftKnows, Doing
  <2>1. ulock = q
    BY <1>1 DEF Inv, HoldsLock, At, Doing, Locked
  <2>2. user.svc = "geo_auto" /\ user'.at = user.at
    BY <2>1 DEF WritesOf
  <2> QED BY <1>1, <2>2 DEF Inv, LiftKnows
<1>7. GrantKnows(q)'
  <2> SUFFICES ASSUME worker[q].op = "emergency", worker[q].pc \in {"save", "mark", "grant"}
               PROVE  /\ user'.svc # "geo_auto" /\ user'.until <= now
                      /\ user'.used <= worker[q].snap.used /\ worker[q].snap.used < MaxUses
    BY <1>1 DEF GrantKnows
  <2>1. elock = q /\ elock # p /\ elock # Nobody
    BY <1>1 DEF Inv, HoldsELock
  <2>2. /\ user.svc # "geo_auto" /\ user.until <= now
        /\ user.used <= worker[q].snap.used /\ worker[q].snap.used < MaxUses
    BY <1>1 DEF Inv, GrantKnows
  <2>3. user'.svc # "geo_auto"
    BY <2>1, <2>2 DEF WritesOf
  <2>4. user'.used <= user.used /\ (user'.until = user.until \/ user'.until = 0)
    BY <2>1 DEF WritesOf
  <2>5. /\ user'.used \in Nat /\ user.used \in Nat /\ worker[q].snap.used \in Nat
        /\ user.until \in Nat
    BY <1>2, AccessAssumption DEF Rows, Calls
  <2> QED BY <1>2, <2>2, <2>3, <2>4, <2>5
<1> QED BY <1>3, <1>4, <1>5, <1>6, <1>7 DEF Inv

-----------------------------------------------------------------------------
(* The shapes of a step: it moves p, ends p, and writes the row or not. *)

LEMMA Numbers == MaxUses \in Nat /\ MaxTime \in Nat /\ MaxOps \in Nat /\ MaxFaults \in Nat
                 /\ MaxCrashes \in Nat /\ HoldTime \in Nat
BY AccessAssumption

LEMMA GoneIsRow == Gone \in Rows
BY Numbers DEF Gone, Rows, Reasons, Hours

LEMMA IdleIsCall == Idle \in Calls
BY GoneIsRow DEF Idle, Calls, Operations, Steps, Reasons

LEMMA MoveMoves ==
  ASSUME AInv, NEW p \in Procs, NEW pc \in Steps, Move(p, pc)
  PROVE  Moved(p) /\ worker'[p] = [worker[p] EXCEPT !.pc = pc]
<1>1. worker \in [Procs -> Calls]
  BY DEF AInv, TypeOK
<1>2. [worker[p] EXCEPT !.pc = pc] \in Calls
  BY <1>1 DEF Calls
<1> QED BY <1>1, <1>2 DEF Move, Moved

LEMMA MoveWithMoves ==
  ASSUME AInv, NEW p \in Procs, NEW pc \in Steps, NEW u \in Rows, MoveWith(p, pc, u)
  PROVE  /\ Moved(p)
         /\ worker'[p].op = worker[p].op /\ worker'[p].cutoff = worker[p].cutoff
         /\ worker'[p].pc = pc /\ worker'[p].snap = u
<1>1. worker \in [Procs -> Calls]
  BY DEF AInv, TypeOK
<1>2. [worker[p] EXCEPT !.pc = pc, !.snap = u] \in Calls
  BY <1>1 DEF Calls
<1>3. Moved(p) /\ worker'[p] = [worker[p] EXCEPT !.pc = pc, !.snap = u]
  BY <1>1, <1>2 DEF MoveWith, Moved
<1> QED BY <1>1, <1>3 DEF Calls

LEMMA EndMoves ==
  ASSUME AInv, NEW p \in Procs, End(p)
  PROVE  Moved(p) /\ worker'[p] = Idle /\ Mine(p, ulock, ulock')
BY IdleIsCall DEF AInv, TypeOK, End, Moved, Mine

LEMMA NoWrite ==
  ASSUME AInv, NEW p \in Procs, user' = user
  PROVE  user' \in Rows /\ WritesOf(p)
BY Numbers DEF AInv, TypeOK, WritesOf, Rows

\* The places at which nothing that was read is used again but the copy.
Plain == Steps \ {"lock", "elock", "window", "read", "save", "mark", "grant", "clear"}

LEMMA PlainStep ==
  ASSUME AInv, NEW p \in Procs, Moved(p), worker'[p].op = worker[p].op, worker'[p].pc \in Plain,
         ~At(p, "idle"), ~At(p, "lock"), ulock' = ulock, Mine(p, elock, elock'),
         user' \in Rows, now' = now, WritesOf(p)
  PROVE  \A q \in Procs : Inv(q)'
<1>1. Inv(p)'
  BY DEF AInv, Inv, Placed, HoldsLock, HoldsELock, LiftKnows, GrantKnows, At, Doing, Plain
<1> QED BY <1>1, OthersKeep DEF Mine

LEMMA EndStep ==
  ASSUME AInv, NEW p \in Procs, End(p), Mine(p, elock, elock'),
         user' \in Rows, now' = now, WritesOf(p)
  PROVE  \A q \in Procs : Inv(q)'
<1>1. Moved(p) /\ worker'[p] = Idle /\ Mine(p, ulock, ulock')
  BY EndMoves
<1>2. Inv(p)'
  BY <1>1 DEF Inv, Placed, HoldsLock, HoldsELock, LiftKnows, GrantKnows, At, Doing, Idle, Locked
<1> QED BY <1>1, <1>2, OthersKeep

-----------------------------------------------------------------------------
(* One lemma for each step, the pushes first. *)

LEMMA EffectiveIsBoolean == \A u : Effective(u) \in BOOLEAN
BY DEF Effective

LEMMA AsIsPanel == \A b : As(b) \in {"absent", "on", "off"}
BY DEF As

LEMMA WantKeeps == ASSUME AInv, NEW p \in Procs, Want(p) PROVE AInv'
<1>1. Moved(p) /\ worker'[p] = [worker[p] EXCEPT !.pc = "list"]
  BY MoveMoves DEF Want, Steps
<1>2. TypeOK'
  BY <1>1, EffectiveIsBoolean DEF AInv, TypeOK, Moved, Want, locks, tasks, clock
<1>3. \A q \in Procs : Inv(q)'
  BY <1>1, PlainStep, NoWrite DEF AInv, TypeOK, Calls, Want, locks, clock, Mine, Plain, Steps, At
<1> QED BY <1>2, <1>3 DEF AInv

LEMMA PushedKeeps ==
  ASSUME AInv, NEW p \in Procs, Pushed(p), user' = user, elock' = elock, now' = now,
         At(p, "list") \/ At(p, "write")
  PROVE  /\ Moved(p) /\ (\A q \in Procs : Inv(q)')
         /\ ulock' \in Procs \cup {Nobody} /\ push' \in {"none", "pending", "running"}
<1>0. push' \in {"none", "pending", "running"}
  BY DEF Pushed, AInv, TypeOK
<1>1. CASE worker[p].op = "resync"
  <2>1. Moved(p) /\ worker'[p] = [worker[p] EXCEPT !.pc = "plist"] /\ ulock' = ulock
    BY <1>1, MoveMoves DEF Pushed, Steps
  <2>2. \A q \in Procs : Inv(q)'
    BY <2>1, PlainStep, NoWrite DEF AInv, TypeOK, Calls, Mine, Plain, Steps, At
  <2> QED BY <1>0, <2>1, <2>2 DEF AInv, TypeOK
<1>2. CASE worker[p].op # "resync"
  <2>1. End(p)
    BY <1>2 DEF Pushed
  <2>2. \A q \in Procs : Inv(q)'
    BY <2>1, EndStep, NoWrite DEF Mine
  <2> QED BY <1>0, <2>1, <2>2, EndMoves DEF AInv, TypeOK, End
<1> QED BY <1>1, <1>2

LEMMA ListKeeps == ASSUME AInv, NEW p \in Procs, List(p) PROVE AInv'
<1>1. CASE client.applied
  <2>1. /\ worker' = [worker EXCEPT ![p].pc = "write", ![p].sent = client.desired]
        /\ ulock' = ulock /\ push' = push
    BY <1>1 DEF List
  <2>a. worker[p] \in Calls /\ client.desired \in BOOLEAN
    BY DEF AInv, TypeOK
  <2>2. [worker[p] EXCEPT !.pc = "write", !.sent = client.desired] \in Calls
    BY <2>a DEF Calls, Steps
  <2>3. Moved(p) /\ worker'[p] = [worker[p] EXCEPT !.pc = "write", !.sent = client.desired]
    BY <2>1, <2>2 DEF AInv, TypeOK, Moved
  <2>4. TypeOK'
    BY <2>1, <2>3 DEF AInv, TypeOK, Moved, List, rows, clock
  <2>5. \A q \in Procs : Inv(q)'
    BY <2>1, <2>3, PlainStep, NoWrite
    DEF AInv, TypeOK, Calls, List, rows, clock, Mine, Plain, Steps, At
  <2> QED BY <2>4, <2>5 DEF AInv
<1>2. CASE ~client.applied
  <2>1. /\ Moved(p) /\ (\A q \in Procs : Inv(q)')
        /\ ulock' \in Procs \cup {Nobody} /\ push' \in {"none", "pending", "running"}
    BY <1>2, PushedKeeps DEF List, rows, clock
  <2>2. TypeOK'
    BY <2>1 DEF AInv, TypeOK, Moved, List, rows, clock
  <2> QED BY <2>1, <2>2 DEF AInv
<1> QED BY <1>1, <1>2

LEMMA FailedKeeps ==
  ASSUME AInv, NEW p \in Procs, Failed(p), user' = user, elock' = elock, ulock' = ulock,
         now' = now, At(p, "write")
  PROVE  Moved(p) /\ (\A q \in Procs : Inv(q)')
<1>1. PICK pc \in {"plist", "queue"} : Move(p, pc)
  BY DEF Failed
<1>2. Moved(p) /\ worker'[p] = [worker[p] EXCEPT !.pc = pc]
  BY <1>1, MoveMoves DEF Steps
<1>3. worker'[p].op = worker[p].op /\ worker'[p].pc = pc
  BY <1>2 DEF AInv, TypeOK, Calls
<1>4. pc \in Plain /\ ~At(p, "idle") /\ ~At(p, "lock") /\ Mine(p, elock, elock')
  BY DEF Plain, Steps, At, Mine
<1> QED BY <1>2, <1>3, <1>4, PlainStep, NoWrite

LEMMA FaultCounts ==
  ASSUME AInv, Fault PROVE faults' \in 0..MaxFaults
BY Numbers DEF Fault, AInv, TypeOK

LEMMA WriteKeeps == ASSUME AInv, NEW p \in Procs, Write(p) PROVE AInv'
<1>1. user' = user /\ elock' = elock /\ now' = now
  BY DEF Write
<1>2. panel' \in {"absent", "on", "off"} /\ faults' \in 0..MaxFaults
  BY AsIsPanel, FaultCounts DEF Write, AInv, TypeOK
<1>3. /\ Moved(p) /\ (\A q \in Procs : Inv(q)')
      /\ ulock' \in Procs \cup {Nobody} /\ push' \in {"none", "pending", "running"}
  <2>1. CASE Pushed(p)
    BY <1>1, <2>1, PushedKeeps DEF Write
  <2>2. CASE Failed(p) /\ ulock' = ulock /\ push' = push
    BY <1>1, <2>2, FailedKeeps DEF Write, AInv, TypeOK
  <2> QED BY <2>1, <2>2 DEF Write
<1>4. TypeOK'
  BY <1>1, <1>2, <1>3 DEF AInv, TypeOK, Moved, Write
<1> QED BY <1>3, <1>4 DEF AInv

LEMMA QueueKeeps == ASSUME AInv, NEW p \in Procs, Queue(p) PROVE AInv'
<1>1. \A q \in Procs : Inv(q)'
  BY EndStep, NoWrite DEF Queue, rows, clock, Mine
<1>2. /\ push' \in {"none", "pending", "running"} /\ remove' \in {"none", "pending", "running"}
  BY DEF Queue, Queued, AInv, TypeOK
<1>3. Moved(p) /\ ulock' \in Procs \cup {Nobody}
  BY EndMoves DEF Queue, End, AInv, TypeOK
<1>4. TypeOK'
  BY <1>2, <1>3 DEF AInv, TypeOK, Moved, Queue, rows, clock
<1> QED BY <1>1, <1>4 DEF AInv

LEMMA MovePlain ==
  ASSUME AInv, NEW p \in Procs, NEW pc \in Plain, Move(p, pc), ~At(p, "idle"), ~At(p, "lock"),
         ulock' = ulock, elock' = elock, user' \in Rows, now' = now, WritesOf(p)
  PROVE  Moved(p) /\ \A q \in Procs : Inv(q)'
<1>1. Moved(p) /\ worker'[p] = [worker[p] EXCEPT !.pc = pc]
  BY MoveMoves DEF Plain
<1>2. worker'[p].op = worker[p].op /\ worker'[p].pc \in Plain
  BY <1>1 DEF AInv, TypeOK, Calls
<1> QED BY <1>1, <1>2, PlainStep DEF Mine

LEMMA MoveWithPlain ==
  ASSUME AInv, NEW p \in Procs, NEW pc \in Plain, NEW u \in Rows, MoveWith(p, pc, u),
         ~At(p, "idle"), ~At(p, "lock"),
         ulock' = ulock, Mine(p, elock, elock'), user' \in Rows, now' = now, WritesOf(p)
  PROVE  Moved(p) /\ \A q \in Procs : Inv(q)'
<1>0. pc \in Steps
  BY DEF Plain
<1>1. Moved(p) /\ worker'[p].op = worker[p].op /\ worker'[p].pc \in Plain
  BY <1>0, MoveWithMoves
<1> QED BY <1>1, PlainStep

LEMMA EndTypes ==
  ASSUME AInv, NEW p \in Procs, End(p)
  PROVE  Moved(p) /\ ulock' \in Procs \cup {Nobody}
BY EndMoves DEF End, AInv, TypeOK

LEMMA PlanKeeps == ASSUME AInv, NEW p \in Procs, Plan(p) PROVE AInv'
<1>1. Moved(p) /\ \A q \in Procs : Inv(q)'
  BY MovePlain, NoWrite DEF Plan, Plain, Steps, At, locks, clock
<1>2. TypeOK'
  BY <1>1 DEF AInv, TypeOK, Moved, Plan, locks, tasks, clock
<1> QED BY <1>1, <1>2 DEF AInv

LEMMA ListClientsKeeps == ASSUME AInv, NEW p \in Procs, ListClients(p) PROVE AInv'
<1>1. CASE client.exists
  <2>1. /\ worker' = [worker EXCEPT ![p].pc = "provision", ![p].sent = client.desired]
        /\ ulock' = ulock
    BY <1>1 DEF ListClients
  <2>a. worker[p] \in Calls /\ client.desired \in BOOLEAN
    BY DEF AInv, TypeOK
  <2>2. [worker[p] EXCEPT !.pc = "provision", !.sent = client.desired] \in Calls
    BY <2>a DEF Calls, Steps
  <2>3. Moved(p) /\ worker'[p] = [worker[p] EXCEPT !.pc = "provision", !.sent = client.desired]
    BY <2>1, <2>2 DEF AInv, TypeOK, Moved
  <2>4. TypeOK'
    BY <2>1, <2>3 DEF AInv, TypeOK, Moved, ListClients, rows, tasks, clock
  <2>5. \A q \in Procs : Inv(q)'
    BY <2>1, <2>3, PlainStep, NoWrite
    DEF AInv, TypeOK, Calls, ListClients, rows, clock, Mine, Plain, Steps, At
  <2> QED BY <2>4, <2>5 DEF AInv
<1>2. CASE ~client.exists
  <2>1. End(p)
    BY <1>2 DEF ListClients
  <2>2. \A q \in Procs : Inv(q)'
    BY <2>1, EndStep, NoWrite DEF ListClients, rows, clock, Mine
  <2>3. TypeOK'
    BY <2>1, EndTypes DEF AInv, TypeOK, Moved, ListClients, rows, tasks, clock
  <2> QED BY <2>2, <2>3 DEF AInv
<1> QED BY <1>1, <1>2

LEMMA ProvisionKeeps == ASSUME AInv, NEW p \in Procs, Provision(p) PROVE AInv'
<1>1. user' = user /\ elock' = elock /\ now' = now /\ At(p, "provision")
  BY DEF Provision
<1>2. panel' \in {"absent", "on", "off"} /\ faults' \in 0..MaxFaults
  BY AsIsPanel, FaultCounts DEF Provision, AInv, TypeOK
<1>3. Moved(p) /\ (\A q \in Procs : Inv(q)') /\ ulock' \in Procs \cup {Nobody}
  <2>1. CASE Move(p, "confirm") /\ ulock' = ulock
    BY <1>1, <2>1, MovePlain, NoWrite DEF Plain, Steps, At, AInv, TypeOK
  <2>2. CASE End(p)
    BY <1>1, <2>2, EndStep, EndTypes, NoWrite DEF Mine
  <2> QED BY <2>1, <2>2 DEF Provision
<1>4. TypeOK'
  BY <1>2, <1>3 DEF AInv, TypeOK, Moved, Provision, tasks
<1> QED BY <1>3, <1>4 DEF AInv

LEMMA ConfirmKeeps == ASSUME AInv, NEW p \in Procs, Confirm(p) PROVE AInv'
<1>1. \A q \in Procs : Inv(q)'
  BY EndStep, NoWrite DEF Confirm, clock, Mine
<1>2. TypeOK'
  BY EndTypes DEF AInv, TypeOK, Moved, Confirm, tasks, clock
<1> QED BY <1>1, <1>2 DEF AInv

LEMMA ListForDeleteKeeps == ASSUME AInv, NEW p \in Procs, ListForDelete(p) PROVE AInv'
<1>0. PICK pc \in {"cut", "drop"} : Move(p, pc)
  BY DEF ListForDelete
<1>1. Moved(p) /\ \A q \in Procs : Inv(q)'
  BY <1>0, MovePlain, NoWrite DEF ListForDelete, Plain, Steps, At, rows, locks, clock
<1>2. TypeOK'
  BY <1>1 DEF AInv, TypeOK, Moved, ListForDelete, rows, locks, tasks, clock
<1> QED BY <1>1, <1>2 DEF AInv

LEMMA CutKeeps == ASSUME AInv, NEW p \in Procs, Cut(p) PROVE AInv'
<1>0. PICK pc \in {"forget", "queue"} : Move(p, pc)
  BY DEF Cut
<1>1. Moved(p) /\ \A q \in Procs : Inv(q)'
  BY <1>0, MovePlain, NoWrite DEF Cut, Plain, Steps, At, locks
<1>2. panel' \in {"absent", "on", "off"} /\ faults' \in 0..MaxFaults
  BY FaultCounts DEF Cut, AInv, TypeOK
<1>3. TypeOK'
  BY <1>1, <1>2 DEF AInv, TypeOK, Moved, Cut, locks, tasks
<1> QED BY <1>1, <1>3 DEF AInv

LEMMA ForgetKeeps == ASSUME AInv, NEW p \in Procs, Forget(p) PROVE AInv'
<1>1. Moved(p) /\ \A q \in Procs : Inv(q)'
  BY MovePlain, NoWrite DEF Forget, Plain, Steps, At, locks, clock
<1>2. TypeOK'
  BY <1>1 DEF AInv, TypeOK, Moved, Forget, NoClient, locks, tasks, clock
<1> QED BY <1>1, <1>2 DEF AInv

LEMMA DropKeeps == ASSUME AInv, NEW p \in Procs, Drop(p) PROVE AInv'
<1>0. user' \in Rows /\ WritesOf(p)
  BY GoneIsRow, Numbers DEF Drop, Gone, WritesOf, AInv, TypeOK, Rows
<1>1. \A q \in Procs : Inv(q)'
  BY <1>0, EndStep DEF Drop, clock, Mine
<1>2. TypeOK'
  BY <1>0, EndTypes DEF AInv, TypeOK, Moved, Drop, clock
<1> QED BY <1>1, <1>2 DEF AInv

-----------------------------------------------------------------------------
(* The steps that read, write the row, or take a lock. *)

LEMMA LockKeeps == ASSUME AInv, NEW p \in Procs, Lock(p) PROVE AInv'
<1>0. PICK pc \in {"mark", "read"} : Move(p, pc)
  BY DEF Lock
<1>a. pc \in Steps
  BY DEF Steps
<1>1. Moved(p) /\ worker'[p] = [worker[p] EXCEPT !.pc = pc]
  BY <1>0, <1>a, MoveMoves
<1>2. worker'[p].op = worker[p].op /\ worker'[p].pc = pc /\ worker[p].op \in Locked
  BY <1>1 DEF AInv, TypeOK, Calls, Inv, Placed, Lock
<1>3. Inv(p)'
  BY <1>2 DEF Inv, Placed, HoldsLock, HoldsELock, LiftKnows, GrantKnows, At, Doing, Locked, Lock
<1>4. \A q \in Procs : Inv(q)'
  BY <1>1, <1>3, OthersKeep, NoWrite DEF Lock, Mine, rows, clock
<1>5. TypeOK'
  BY <1>1 DEF AInv, TypeOK, Moved, Lock, rows, tasks, clock
<1> QED BY <1>4, <1>5 DEF AInv

LEMMA ELockKeeps == ASSUME AInv, NEW p \in Procs, ELock(p) PROVE AInv'
<1>1. Moved(p) /\ worker'[p] = [worker[p] EXCEPT !.pc = "read"]
  BY MoveMoves DEF ELock, Steps
<1>2. worker'[p].op = worker[p].op /\ worker'[p].pc = "read" /\ worker[p].op = "emergency"
  BY <1>1 DEF AInv, TypeOK, Calls, Inv, Placed, ELock
<1>3. Inv(p)'
  BY <1>2 DEF Inv, Placed, HoldsLock, HoldsELock, LiftKnows, GrantKnows, At, Doing, Locked, ELock
<1>4. \A q \in Procs : Inv(q)'
  BY <1>1, <1>3, OthersKeep, NoWrite DEF ELock, Mine, rows, clock
<1>5. TypeOK'
  BY <1>1 DEF AInv, TypeOK, Moved, ELock, rows, tasks, clock
<1> QED BY <1>4, <1>5 DEF AInv

LEMMA EndWindowKeeps == ASSUME AInv, NEW p \in Procs, EndWindow(p) PROVE AInv'
<1>0. user' \in Rows /\ WritesOf(p)
  BY Numbers DEF EndWindow, AInv, TypeOK, Rows, WritesOf, Hours
<1>1. Moved(p) /\ worker'[p] = [worker[p] EXCEPT !.pc = "read"]
  BY MoveMoves DEF EndWindow, Steps
<1>2. worker'[p].op = worker[p].op /\ worker'[p].pc = "read" /\ worker[p].op \in {"rollover", "quota"}
  BY <1>1 DEF AInv, TypeOK, Calls, Inv, Placed, EndWindow
<1>3. Inv(p)'
  BY <1>2 DEF Inv, Placed, HoldsLock, HoldsELock, LiftKnows, GrantKnows, At, Doing, Locked
<1>4. \A q \in Procs : Inv(q)'
  BY <1>0, <1>1, <1>3, OthersKeep DEF EndWindow, Mine, locks, clock
<1>5. TypeOK'
  BY <1>0, <1>1 DEF AInv, TypeOK, Moved, EndWindow, locks, tasks, clock
<1> QED BY <1>4, <1>5 DEF AInv

LEMMA ReadKeeps == ASSUME AInv, NEW p \in Procs, Read(p) PROVE AInv'
<1>0. /\ At(p, "read") /\ user' = user /\ now' = now /\ user \in Rows
      /\ UNCHANGED <<rows, clock>>
  BY DEF Read, rows, clock, AInv, TypeOK
<1>1. CASE MayGo(worker[p], user)
  <2>0. AfterRead(worker[p].op) \in {"mark", "clear", "plan", "want", "save"}
    BY DEF AfterRead
  <2>1. UNCHANGED <<locks, tasks>> /\ MoveWith(p, AfterRead(worker[p].op), user)
    BY <1>1 DEF Read
  <2>2. AfterRead(worker[p].op) \in Steps
    BY <2>0 DEF Steps
  <2>3. /\ Moved(p)
        /\ worker'[p].op = worker[p].op /\ worker'[p].cutoff = worker[p].cutoff
        /\ worker'[p].pc = AfterRead(worker[p].op) /\ worker'[p].snap = user
    BY <1>0, <2>1, <2>2, MoveWithMoves
  <2>4. Placed(p)' /\ HoldsLock(p)' /\ HoldsELock(p)'
    BY <1>0, <2>0, <2>1, <2>3
    DEF Placed, HoldsLock, HoldsELock, At, locks, AInv, Inv
  <2>5. LiftKnows(p)'
    BY <1>0, <1>1, <2>3 DEF LiftKnows, Doing, MayGo
  <2>6. GrantKnows(p)'
    <3> SUFFICES ASSUME worker[p].op = "emergency"
                 PROVE  /\ user.svc # "geo_auto" /\ user.until <= now
                        /\ user.used <= user.used /\ user.used < MaxUses
      BY <1>0, <2>3 DEF GrantKnows
    <3> QED BY <1>0, <1>1, Numbers DEF MayGo, Hard, Remains, Rows
  <2>7. \A q \in Procs : Inv(q)'
    BY <1>0, <2>1, <2>3, <2>4, <2>5, <2>6, OthersKeep, NoWrite DEF Inv, Mine, locks
  <2>8. TypeOK'
    BY <1>0, <2>1, <2>3 DEF AInv, TypeOK, Moved, locks, rows, tasks, clock
  <2> QED BY <2>7, <2>8 DEF AInv
<1>2. CASE ~MayGo(worker[p], user) /\ worker[p].op = "detect"
  <2>1. Move(p, "queue") /\ UNCHANGED <<locks, tasks>>
    BY <1>2 DEF Read
  <2>2. Moved(p) /\ \A q \in Procs : Inv(q)'
    BY <1>0, <2>1, MovePlain, NoWrite DEF Plain, Steps, At, locks
  <2>3. TypeOK'
    BY <1>0, <2>1, <2>2 DEF AInv, TypeOK, Moved, locks, rows, tasks, clock
  <2> QED BY <2>2, <2>3 DEF AInv
<1>3. CASE ~MayGo(worker[p], user) /\ worker[p].op # "detect"
  <2>1. /\ End(p)
        /\ elock' = IF elock = p THEN Nobody ELSE elock
        /\ push' \in {push, "none"} /\ remove' \in {remove, "none"}
    BY <1>3 DEF Read
  <2>2. \A q \in Procs : Inv(q)'
    BY <1>0, <2>1, EndStep, NoWrite DEF Mine
  <2>3. Moved(p) /\ ulock' \in Procs \cup {Nobody}
    BY <2>1, EndTypes
  <2>4. TypeOK'
    BY <1>0, <2>1, <2>3 DEF AInv, TypeOK, Moved, rows, clock
  <2> QED BY <2>2, <2>4 DEF AInv
<1> QED BY <1>1, <1>2, <1>3

LEMMA ServiceIsRow ==
  ASSUME AInv, NEW u \in Rows, NEW r \in Reasons PROVE WithService(u, r) \in Rows
<1>1. now \in 0..MaxTime /\ 0 \in 0..MaxTime
  BY Numbers DEF AInv, TypeOK
<1> QED BY <1>1 DEF WithService, Rows

LEMMA ServiceWrites ==
  ASSUME AInv, NEW p \in Procs, NEW r \in Reasons \ {"geo_auto"}, user' = WithService(user, r)
  PROVE  /\ user' \in Rows /\ WritesOf(p)
         /\ user'.until = user.until /\ user'.used = user.used
         /\ user'.svc = "geo_auto" => user.svc = "geo_auto"
<1>0. user \in Rows
  BY DEF AInv, TypeOK
<1>1. CASE user' = user
  BY <1>0, <1>1, NoWrite
<1>2. CASE user' # user
  <2>1. user' = [user EXCEPT !.svc = r, !.at = 0]
    BY <1>2 DEF WithService
  <2>2. user' \in Rows
    BY <1>0, ServiceIsRow
  <2>3. user'.svc = r /\ user'.used = user.used /\ user'.until = user.until
    BY <1>0, <2>1 DEF Rows
  <2>4. user.used \in Nat
    BY <1>0, Numbers DEF Rows
  <2> QED BY <2>2, <2>3, <2>4 DEF WritesOf
<1> QED BY <1>1, <1>2

LEMMA SavedIsAccount ==
  ASSUME AInv, NEW p \in Procs
  PROVE  /\ worker[p].snap \in Rows /\ Saved(worker[p]) \in Accounts \cup {"gone"}
         /\ [worker[p].snap EXCEPT !.account = Saved(worker[p])] \in Rows
<1>1. worker[p].snap \in Rows
  BY DEF AInv, TypeOK, Calls
<1>2. Saved(worker[p]) \in Accounts \cup {"gone"}
  BY <1>1 DEF Saved, Accounts, Rows
<1> QED BY <1>1, <1>2 DEF Rows

LEMMA SaveKeeps == ASSUME AInv, NEW p \in Procs, Save(p) PROVE AInv'
<1> DEFINE w == worker[p]
           kept == [w.snap EXCEPT !.account = Saved(w)]
<1>0. At(p, "save") /\ now' = now /\ elock' = elock /\ user \in Rows /\ w \in Calls
  BY DEF Save, clock, AInv, TypeOK
<1>1. /\ user' \in Rows /\ user'.svc = user.svc /\ user'.at = user.at
      /\ user'.until = user.until /\ user'.used = user.used
  BY <1>0, SavedIsAccount DEF Save, Rows
<1>2. WritesOf(p)
  BY <1>0, <1>1, Numbers DEF WritesOf, Rows
<1>3. Moved(p) /\ (\A q \in Procs : Inv(q)') /\ ulock' \in Procs \cup {Nobody}
  <2>1. CASE End(p)
    BY <1>0, <1>1, <1>2, <2>1, EndStep, EndTypes DEF Mine
  <2>2. CASE \E pc \in AfterSave(w) : pc # "end" /\ MoveWith(p, pc, kept) /\ ulock' = ulock
    <3>1. PICK pc \in AfterSave(w) : pc # "end" /\ MoveWith(p, pc, kept) /\ ulock' = ulock
      BY <2>2
    <3>2. CASE w.op = "emergency"
      <4>1. pc = "mark" /\ pc \in Steps /\ kept \in Rows
        BY <3>1, <3>2, SavedIsAccount DEF AfterSave, Steps
      <4>2. Moved(p) /\ worker'[p].op = "emergency" /\ worker'[p].pc = "mark" /\ worker'[p].snap = kept
        BY <3>1, <3>2, <4>1, MoveWithMoves
      <4>3. kept.used = w.snap.used
        BY <1>0 DEF Calls, Rows
      <4>4. GrantKnows(p)'
        BY <1>0, <1>1, <3>2, <4>2, <4>3 DEF GrantKnows, AInv, Inv, At
      <4>5. Inv(p)'
        BY <1>0, <3>2, <4>2, <4>4
        DEF Inv, AInv, Placed, HoldsLock, HoldsELock, LiftKnows, At, Doing, Locked
      <4>6. \A q \in Procs : Inv(q)'
        BY <1>0, <1>1, <1>2, <3>1, <4>2, <4>5, OthersKeep DEF Mine
      <4> QED BY <3>1, <4>2, <4>6 DEF AInv, TypeOK
    <3>3. CASE w.op # "emergency"
      <4>1. pc \in {"rows", "clear", "want"} /\ kept \in Rows
        BY <3>1, <3>3, SavedIsAccount DEF AfterSave
      <4>2. pc \in Steps
        BY <4>1 DEF Steps
      <4>3. Moved(p) /\ worker'[p].op = w.op /\ worker'[p].pc = pc
        BY <3>1, <4>1, <4>2, MoveWithMoves
      <4>4. HoldsLock(p)' /\ GrantKnows(p)' /\ HoldsELock(p)' /\ Placed(p)'
        BY <1>0, <3>1, <3>3, <4>1, <4>3
        DEF HoldsLock, GrantKnows, HoldsELock, Placed, AInv, Inv, At
      <4>5. LiftKnows(p)'
        BY <1>0, <3>1, <3>3, <4>1, <4>3 DEF LiftKnows, Doing, AfterSave
      <4>6. \A q \in Procs : Inv(q)'
        BY <1>0, <1>1, <1>2, <3>1, <4>3, <4>4, <4>5, OthersKeep DEF Mine, Inv
      <4> QED BY <3>1, <4>3, <4>6 DEF AInv, TypeOK
    <3> QED BY <3>2, <3>3
  <2> QED BY <2>1, <2>2 DEF Save
<1>4. TypeOK'
  BY <1>0, <1>1, <1>3 DEF AInv, TypeOK, Moved, Save, tasks, clock
<1> QED BY <1>3, <1>4 DEF AInv

LEMMA MarkKeeps == ASSUME AInv, NEW p \in Procs, Mark(p) PROVE AInv'
<1> DEFINE w == worker[p]
           r == MarkedAs(w.op)
<1>0. /\ At(p, "mark") /\ now' = now /\ elock' = elock /\ ulock' = ulock /\ w.op # "detect"
      /\ user \in Rows /\ w \in Calls /\ w.snap \in Rows
      /\ r \in Reasons \ {"geo_auto"}
  BY DEF Mark, locks, clock, AInv, TypeOK, Calls, MarkedAs, Reasons, Suspended, Hard
<1>1. /\ user' \in Rows /\ WritesOf(p)
      /\ user'.until = user.until /\ user'.used = user.used
      /\ user'.svc = "geo_auto" => user.svc = "geo_auto"
  BY <1>0, ServiceWrites DEF Mark
<1>2. WithService(w.snap, r) \in Rows /\ WithService(w.snap, r).used = w.snap.used
  BY <1>0, ServiceIsRow DEF WithService, Rows
<1>3. CASE w.op = "emergency"
  <2>1. MoveWith(p, "grant", WithService(w.snap, r))
    BY <1>3 DEF Mark
  <2>2. /\ Moved(p) /\ worker'[p].op = "emergency" /\ worker'[p].pc = "grant"
        /\ worker'[p].snap = WithService(w.snap, r)
    BY <1>2, <1>3, <2>1, MoveWithMoves DEF Steps
  <2>3. GrantKnows(p)'
    BY <1>0, <1>1, <1>2, <1>3, <2>2 DEF GrantKnows, AInv, Inv, At
  <2>4. Inv(p)'
    BY <1>0, <1>3, <2>2, <2>3
    DEF Inv, AInv, Placed, HoldsLock, HoldsELock, LiftKnows, At, Doing, Locked
  <2>5. \A q \in Procs : Inv(q)'
    BY <1>0, <1>1, <2>2, <2>4, OthersKeep DEF Mine
  <2>6. TypeOK'
    BY <1>1, <2>2 DEF AInv, TypeOK, Moved, Mark, locks, tasks, clock
  <2> QED BY <2>5, <2>6 DEF AInv
<1>4. CASE w.op # "emergency"
  <2>1. MoveWith(p, "want", WithService(w.snap, r))
    BY <1>4 DEF Mark
  <2>2. Moved(p) /\ \A q \in Procs : Inv(q)'
    BY <1>0, <1>1, <1>2, <2>1, MoveWithPlain DEF Plain, Steps, At, Mine
  <2>3. TypeOK'
    BY <1>1, <2>2 DEF AInv, TypeOK, Moved, Mark, locks, tasks, clock
  <2> QED BY <2>2, <2>3 DEF AInv
<1> QED BY <1>3, <1>4

LEMMA DetectKeeps == ASSUME AInv, NEW p \in Procs, Detect(p) PROVE AInv'
<1>0. /\ worker[p].op = "detect" /\ At(p, "mark") /\ now' = now /\ elock' = elock
      /\ user \in Rows /\ elock = Nobody /\ ulock = p
  BY DEF Detect, Doing, clock, AInv, TypeOK, Inv, HoldsLock, Locked, At
<1>1. CASE Here(user) /\ user.svc = "none"
  <2>1. user' = WithService(user, "geo_auto") /\ Move(p, "read") /\ ulock' = ulock
    BY <1>1 DEF Detect
  <2>2. user' \in Rows /\ user'.used = user.used /\ user'.until = user.until
    BY <1>0, <2>1, ServiceIsRow DEF WithService, Rows, Reasons, Suspended, Hard
  <2>3. WritesOf(p)
    BY <1>0, <2>2, Numbers DEF WritesOf, Rows
  <2>4. Moved(p) /\ worker'[p] = [worker[p] EXCEPT !.pc = "read"]
    BY <2>1, MoveMoves DEF Steps
  <2>5. worker'[p].op = "detect" /\ worker'[p].pc = "read"
    BY <1>0, <2>4 DEF AInv, TypeOK, Calls
  <2>6. Inv(p)'
    BY <1>0, <2>1, <2>5
    DEF Inv, Placed, HoldsLock, HoldsELock, LiftKnows, GrantKnows, At, Doing
  <2>7. \A q \in Procs : Inv(q)'
    BY <1>0, <2>1, <2>2, <2>3, <2>4, <2>6, OthersKeep DEF Mine
  <2>8. TypeOK'
    BY <2>1, <2>2, <2>4 DEF AInv, TypeOK, Moved, Detect, tasks, clock
  <2> QED BY <2>7, <2>8 DEF AInv
<1>2. CASE ~(Here(user) /\ user.svc = "none")
  <2>1. user' = user /\ End(p)
    BY <1>2 DEF Detect
  <2>2. \A q \in Procs : Inv(q)'
    BY <1>0, <2>1, EndStep, NoWrite DEF Mine
  <2>3. TypeOK'
    BY <2>1, EndTypes DEF AInv, TypeOK, Moved, Detect, tasks, clock
  <2> QED BY <2>2, <2>3 DEF AInv
<1> QED BY <1>1, <1>2

LEMMA ClearKeeps == ASSUME AInv, NEW p \in Procs, Clear(p) PROVE AInv'
<1> DEFINE w == worker[p]
<1>0. /\ At(p, "clear") /\ now' = now /\ elock' = elock /\ user \in Rows /\ w.snap \in Rows
      /\ "none" \in Reasons \ {"geo_auto"}
  BY DEF Clear, clock, AInv, TypeOK, Calls, Reasons
<1>1. CASE user' = user /\ End(p)
  <2>2. \A q \in Procs : Inv(q)'
    BY <1>0, <1>1, EndStep, NoWrite DEF Mine
  <2>3. TypeOK'
    BY <1>1, EndTypes DEF AInv, TypeOK, Moved, Clear, tasks, clock
  <2> QED BY <2>2, <2>3 DEF AInv
<1>2. CASE /\ user' = WithService(user, "none") /\ ulock' = ulock
           /\ MoveWith(p, "want", WithService(w.snap, "none"))
  <2>1. user' \in Rows /\ WritesOf(p) /\ WithService(w.snap, "none") \in Rows
    BY <1>0, <1>2, ServiceWrites, ServiceIsRow
  <2>2. Moved(p) /\ \A q \in Procs : Inv(q)'
    BY <1>0, <1>2, <2>1, MoveWithPlain DEF Plain, Steps, At, Mine
  <2>3. TypeOK'
    BY <1>2, <2>1, <2>2 DEF AInv, TypeOK, Moved, Clear, tasks, clock
  <2> QED BY <2>2, <2>3 DEF AInv
<1> QED BY <1>1, <1>2 DEF Clear

LEMMA GrantedIsRow ==
  ASSUME AInv, NEW u \in Rows, NEW n \in 0..MaxUses PROVE Granted(u, n) \in Rows
<1>1. now + Hours \in 0..(MaxTime + Hours)
  BY Numbers DEF AInv, TypeOK, Hours
<1> QED BY <1>1 DEF Granted, Rows

LEMMA GrantKeeps == ASSUME AInv, NEW p \in Procs, Grant(p) PROVE AInv'
<1> DEFINE snap == worker[p].snap
<1>0. /\ At(p, "grant") /\ now' = now /\ ulock' = ulock /\ elock' = Nobody
      /\ user \in Rows /\ snap \in Rows /\ worker[p].op = "emergency" /\ elock = p
  BY DEF Grant, locks, clock, AInv, TypeOK, Calls, Inv, Placed, HoldsELock, At
<1>1. snap.used + 1 \in 0..MaxUses
  BY <1>0, Numbers DEF AInv, Inv, GrantKnows, At, Rows
<1>2. user' \in Rows /\ Granted(snap, snap.used + 1) \in Rows
  BY <1>0, <1>1, GrantedIsRow DEF Grant
<1>3. user'.svc = user.svc /\ user'.at = user.at
  BY <1>0 DEF Grant, Granted, Rows
<1>4. WritesOf(p)
  BY <1>0, <1>3 DEF WritesOf
<1>5. MoveWith(p, "want", Granted(snap, snap.used + 1)) /\ Mine(p, elock, elock')
  BY <1>0 DEF Grant, Mine
<1>6. Moved(p) /\ \A q \in Procs : Inv(q)'
  BY <1>0, <1>2, <1>4, <1>5, MoveWithPlain DEF Plain, Steps, At
<1>7. TypeOK'
  BY <1>0, <1>2, <1>6 DEF AInv, TypeOK, Moved, Grant, tasks, clock
<1> QED BY <1>6, <1>7 DEF AInv

-----------------------------------------------------------------------------
(* Beginning an operation, the loops, time and a crash. *)

\* What a goroutine that begins is: it has taken no lock and read nothing.
Fresh(c) ==
  /\ c \in Calls /\ c.pc \in {"lock", "elock", "window", "read"}
  /\ c.pc # "lock" => c.op \notin Locked
  /\ c.pc = "lock" => c.op \in Locked
  /\ c.op = "emergency" => c.pc = "elock"
  /\ c.pc = "elock" => c.op = "emergency"
  /\ c.pc = "window" => c.op \in {"rollover", "quota"}

LEMMA FreshKeeps ==
  ASSUME AInv, NEW p \in Procs, NEW c, Fresh(c), worker' = [worker EXCEPT ![p] = c],
         user' = user, ulock' = ulock, elock' = elock, now' = now
  PROVE  Moved(p) /\ \A q \in Procs : Inv(q)'
<1>1. Moved(p) /\ worker'[p] = c
  BY DEF AInv, TypeOK, Moved, Fresh
<1>2. Inv(p)'
  BY <1>1
  DEF Fresh, Inv, Placed, HoldsLock, HoldsELock, LiftKnows, GrantKnows, At, Doing
<1> QED BY <1>1, <1>2, OthersKeep, NoWrite DEF Mine

LEMMA CallIsFresh ==
  ASSUME AInv, NEW op \in AllOps
  PROVE  Fresh(Call(op, FirstStep(op)))
<1>1. user \in Rows /\ user.svc \in Reasons /\ now - HoldTime \in Int
  BY Numbers DEF AInv, TypeOK, Rows
<1>2. FirstStep(op) \in {"lock", "elock", "window", "read"}
  BY DEF FirstStep
<1>3. /\ Call(op, FirstStep(op)).op = op /\ Call(op, FirstStep(op)).pc = FirstStep(op)
      /\ Call(op, FirstStep(op)) \in Calls
  BY <1>1, <1>2 DEF Call, Idle, Calls, Operations, Steps
<1>4. op = "emergency" \/ op = "rollover" \/ op = "quota" => op \notin Locked
  BY DEF Locked
<1> QED BY <1>2, <1>3, <1>4 DEF Fresh, FirstStep

LEMMA BeginKeeps ==
  ASSUME AInv, NEW p \in Workers, NEW op \in Ops, Begin(p, op) PROVE AInv'
<1>0. p \in Procs /\ op \in AllOps
  BY AccessAssumption DEF Procs
<1>1. Moved(p) /\ \A q \in Procs : Inv(q)'
  BY <1>0, CallIsFresh, FreshKeeps DEF Begin, rows, locks
<1>2. begun' \in 0..MaxOps
  BY Numbers DEF Begin, AInv, TypeOK
<1>3. TypeOK'
  BY <1>1, <1>2 DEF AInv, TypeOK, Moved, Begin, rows, locks, tasks
<1> QED BY <1>1, <1>3 DEF AInv

LEMMA HealKeeps == ASSUME AInv, Heal PROVE AInv'
<1> DEFINE c == [Idle EXCEPT !.op = "resync", !.pc = "lock"]
<1>0. "healer" \in Procs /\ Fresh(c)
  BY IdleIsCall DEF Procs, Fresh, Idle, Calls, Operations, Steps, Locked
<1>1. Moved("healer") /\ \A q \in Procs : Inv(q)'
  BY <1>0, FreshKeeps DEF Heal, rows, locks, clock
<1>2. TypeOK'
  BY <1>1 DEF AInv, TypeOK, Moved, Heal, rows, locks, tasks, clock
<1> QED BY <1>1, <1>2 DEF AInv

LEMMA RunKeeps ==
  ASSUME AInv, NEW op \in {"push", "remove"}, Run(op), UNCHANGED <<rows, locks, clock>>
  PROVE  Moved("runner") /\ \A q \in Procs : Inv(q)'
<1> DEFINE c == [Idle EXCEPT !.op = op, !.pc = "read"]
<1>0. "runner" \in Procs /\ Fresh(c)
  BY IdleIsCall DEF Procs, Fresh, Idle, Calls, Operations, Steps, Locked
<1> QED BY <1>0, FreshKeeps DEF Run, rows, locks, clock

LEMMA RunPushKeeps == ASSUME AInv, RunPush PROVE AInv'
<1>1. Moved("runner") /\ \A q \in Procs : Inv(q)'
  BY RunKeeps DEF RunPush
<1>2. TypeOK'
  BY <1>1 DEF AInv, TypeOK, Moved, RunPush, rows, locks, clock
<1> QED BY <1>1, <1>2 DEF AInv

LEMMA RunRemoveKeeps == ASSUME AInv, RunRemove PROVE AInv'
<1>1. Moved("runner") /\ \A q \in Procs : Inv(q)'
  BY RunKeeps DEF RunRemove
<1>2. TypeOK'
  BY <1>1 DEF AInv, TypeOK, Moved, RunRemove, rows, locks, clock
<1> QED BY <1>1, <1>2 DEF AInv

LEMMA TickKeeps == ASSUME AInv, Tick PROVE AInv'
<1>1. user' = user /\ worker' = worker /\ ulock' = ulock /\ elock' = elock
  BY DEF Tick, rows, locks
<1>2. now \in Nat /\ now' = now + 1 /\ now' \in 0..MaxTime /\ user.until \in Nat
  BY Numbers DEF Tick, AInv, TypeOK, Rows, Hours
<1>3. ASSUME NEW q \in Procs PROVE Inv(q)'
  BY <1>1, <1>2
  DEF AInv, Inv, Placed, HoldsLock, HoldsELock, LiftKnows, GrantKnows, At, Doing
<1>4. TypeOK'
  BY <1>2 DEF AInv, TypeOK, Tick, rows, locks, tasks
<1> QED BY <1>3, <1>4 DEF AInv

LEMMA CrashKeeps == ASSUME AInv, Crash PROVE AInv'
<1>1. worker' = [p \in Procs |-> Idle]
  BY DEF Crash
<1>2. ASSUME NEW q \in Procs PROVE Inv(q)'
  BY <1>1 DEF Inv, Placed, HoldsLock, HoldsELock, LiftKnows, GrantKnows, At, Doing, Idle
<1>3. crashes' \in 0..MaxCrashes
  BY Numbers DEF Crash, AInv, TypeOK
<1>4. TypeOK'
  BY <1>1, <1>3, IdleIsCall DEF AInv, TypeOK, Crash, rows, Again
<1> QED BY <1>2, <1>4 DEF AInv

-----------------------------------------------------------------------------
(* The invariant. *)

LEMMA InitInv == Init => AInv
<1> SUFFICES ASSUME Init PROVE AInv
  OBVIOUS
<1>1. worker = [p \in Procs |-> Idle]
  BY DEF Init
<1>2. ASSUME NEW q \in Procs PROVE Inv(q)
  BY <1>1 DEF Inv, Placed, HoldsLock, HoldsELock, LiftKnows, GrantKnows, At, Doing, Idle
<1>3. user \in Rows
  BY Numbers, AccessAssumption DEF Init, Rows, Accounts, Hours
<1>4. TypeOK
  BY <1>1, <1>3, IdleIsCall, EffectiveIsBoolean, Numbers DEF Init, TypeOK
<1> QED BY <1>2, <1>4 DEF AInv

LEMMA StepKeeps == ASSUME AInv, NEW p \in Procs, Step(p) PROVE AInv'
BY LockKeeps, ELockKeeps, EndWindowKeeps, ReadKeeps, SaveKeeps, MarkKeeps, DetectKeeps,
   ClearKeeps, GrantKeeps, WantKeeps, ListKeeps, WriteKeeps, QueueKeeps, PlanKeeps,
   ListClientsKeeps, ProvisionKeeps, ConfirmKeeps, ListForDeleteKeeps, CutKeeps,
   ForgetKeeps, DropKeeps
DEF Step

LEMMA StutterKeeps == ASSUME AInv, UNCHANGED vars PROVE AInv'
<1>1. /\ user' = user /\ client' = client /\ panel' = panel /\ ulock' = ulock /\ elock' = elock
      /\ push' = push /\ remove' = remove /\ worker' = worker /\ now' = now
      /\ begun' = begun /\ faults' = faults /\ crashes' = crashes
  BY DEF vars, rows, locks, tasks, clock
<1>2. TypeOK'
  BY <1>1 DEF AInv, TypeOK
<1>3. ASSUME NEW q \in Procs PROVE Inv(q)'
  BY <1>1 DEF AInv, Inv, Placed, HoldsLock, HoldsELock, LiftKnows, GrantKnows, At, Doing
<1> QED BY <1>2, <1>3 DEF AInv

LEMMA NextKeeps == AInv /\ [Next]_vars => AInv'
<1> SUFFICES ASSUME AInv, [Next]_vars PROVE AInv'
  OBVIOUS
<1>1. CASE \E p \in Workers, op \in Ops : Begin(p, op)
  BY <1>1, BeginKeeps
<1>2. CASE \E p \in Procs : Step(p)
  BY <1>2, StepKeeps
<1>3. CASE Heal \/ RunPush \/ RunRemove \/ Tick \/ Crash
  BY <1>3, HealKeeps, RunPushKeeps, RunRemoveKeeps, TickKeeps, CrashKeeps
<1>4. CASE UNCHANGED vars
  BY <1>4, StutterKeeps
<1> QED BY <1>1, <1>2, <1>3, <1>4 DEF Next

-----------------------------------------------------------------------------
(* What a grant can be doing, and whose step it is. *)

\* Where an emergency grant can be.
GrantSteps  == {"elock", "read", "save", "mark", "grant", "want", "list", "write", "queue"}
Granting(q) == worker[q].op = "emergency" => At(q, "idle") \/ worker[q].pc \in GrantSteps

GInv == AInv /\ \A q \in Procs : Granting(q)

\* A step of p leaves the others where they are, and a grant among its own steps.
Along(p) ==
  /\ \A q \in Procs \ {p} : worker'[q] = worker[q]
  /\ worker'[p] = Idle \/ worker'[p].op = worker[p].op
  /\ Granting(p) => Granting(p)'

LEMMA EndAlong == ASSUME AInv, NEW p \in Procs, End(p) PROVE Along(p)
BY DEF AInv, TypeOK, End, Along, Granting, Idle

LEMMA MoveAlong ==
  ASSUME AInv, NEW p \in Procs, NEW pc \in Steps, Move(p, pc),
         worker[p].op = "emergency" /\ worker[p].pc \in GrantSteps => pc \in GrantSteps,
         ~At(p, "idle")
  PROVE  Along(p)
<1>1. Moved(p) /\ worker'[p] = [worker[p] EXCEPT !.pc = pc]
  BY MoveMoves
<1>2. worker'[p].op = worker[p].op /\ worker'[p].pc = pc
  BY <1>1 DEF AInv, TypeOK, Calls
<1> QED BY <1>1, <1>2 DEF Along, Granting, Moved, At

LEMMA MoveWithAlong ==
  ASSUME AInv, NEW p \in Procs, NEW pc \in Steps, NEW u, MoveWith(p, pc, u),
         worker[p].op = "emergency" /\ worker[p].pc \in GrantSteps => pc \in GrantSteps,
         ~At(p, "idle")
  PROVE  Along(p)
<1>1. worker \in [Procs -> Calls]
  BY DEF AInv, TypeOK
<1>2. \A q \in Procs \ {p} : worker'[q] = worker[q]
  BY <1>1 DEF MoveWith
<1>3. worker'[p] = [worker[p] EXCEPT !.pc = pc, !.snap = u]
  BY <1>1 DEF MoveWith
<1>4. worker'[p].op = worker[p].op /\ worker'[p].pc = pc
  BY <1>1, <1>3 DEF Calls
<1> QED BY <1>2, <1>4 DEF Along, Granting, At

LEMMA SendAlong ==
  ASSUME AInv, NEW p \in Procs, NEW pc \in Steps, NEW b,
         worker' = [worker EXCEPT ![p].pc = pc, ![p].sent = b],
         worker[p].op = "emergency" /\ worker[p].pc \in GrantSteps => pc \in GrantSteps,
         ~At(p, "idle")
  PROVE  Along(p)
<1>1. worker \in [Procs -> Calls]
  BY DEF AInv, TypeOK
<1>2. \A q \in Procs \ {p} : worker'[q] = worker[q]
  BY <1>1
<1>3. worker'[p] = [worker[p] EXCEPT !.pc = pc, !.sent = b]
  BY <1>1
<1>4. worker'[p].op = worker[p].op /\ worker'[p].pc = pc
  BY <1>1, <1>3 DEF Calls
<1> QED BY <1>2, <1>4 DEF Along, Granting, At

\* Only resyncs and deletions leave the steps of a grant, and they do no other.
LEMMA StepAlong == ASSUME AInv, NEW p \in Procs, Step(p) PROVE Along(p)
<1>1. CASE Lock(p)
  <2>1. PICK pc \in {"mark", "read"} : Move(p, pc)
    BY <1>1 DEF Lock
  <2> QED BY <1>1, <2>1, MoveAlong DEF Lock, At, Steps, GrantSteps
<1>2. CASE ELock(p) \/ EndWindow(p)
  BY <1>2, MoveAlong DEF ELock, EndWindow, At, Steps, GrantSteps
<1>3. CASE Read(p)
  <2>1. AfterRead(worker[p].op) \in Steps
    BY DEF AfterRead, Steps
  <2>2. worker[p].op = "emergency" => AfterRead(worker[p].op) \in GrantSteps
    BY DEF AfterRead, GrantSteps
  <2>3. CASE MoveWith(p, AfterRead(worker[p].op), user)
    BY <1>3, <2>1, <2>2, <2>3, MoveWithAlong DEF Read, At
  <2>4. CASE Move(p, "queue")
    BY <1>3, <2>4, MoveAlong DEF Read, At, Steps, GrantSteps
  <2> QED BY <1>3, <2>3, <2>4, EndAlong DEF Read
<1>4. CASE Save(p)
  <2>1. CASE \E pc \in AfterSave(worker[p]) \ {"end"} :
               MoveWith(p, pc, [worker[p].snap EXCEPT !.account = Saved(worker[p])])
    <3>1. PICK pc \in AfterSave(worker[p]) \ {"end"} :
               MoveWith(p, pc, [worker[p].snap EXCEPT !.account = Saved(worker[p])])
      BY <2>1
    <3>2. pc \in Steps
      BY DEF AfterSave, Steps
    <3>3. worker[p].op = "emergency" => pc \in GrantSteps
      BY DEF AfterSave, GrantSteps
    <3> QED BY <1>4, <3>1, <3>2, <3>3, MoveWithAlong DEF Save, At
  <2> QED BY <1>4, <2>1, EndAlong DEF Save
<1>5. CASE Mark(p)
  <2>1. PICK pc \in {"grant", "want"} :
               MoveWith(p, pc, WithService(worker[p].snap, MarkedAs(worker[p].op)))
    BY <1>5 DEF Mark
  <2> QED BY <1>5, <2>1, MoveWithAlong DEF Mark, At, Steps, GrantSteps
<1>6. CASE Detect(p)
  BY <1>6, EndAlong, MoveAlong DEF Detect, Doing, At, Steps, GrantSteps
<1>7. CASE Clear(p)
  <2>1. CASE MoveWith(p, "want", WithService(worker[p].snap, "none"))
    BY <1>7, <2>1, MoveWithAlong DEF Clear, At, Steps, GrantSteps
  <2> QED BY <1>7, <2>1, EndAlong DEF Clear
<1>8. CASE Grant(p)
  <2>1. PICK u : MoveWith(p, "want", u)
    BY <1>8 DEF Grant
  <2> QED BY <1>8, <2>1, MoveWithAlong DEF Grant, At, Steps, GrantSteps
<1>9. CASE Want(p)
  BY <1>9, MoveAlong DEF Want, At, Steps, GrantSteps
<1>10. ASSUME Pushed(p), ~At(p, "idle") PROVE Along(p)
  BY <1>10, EndAlong, MoveAlong DEF Pushed, At, Steps
<1>11. CASE List(p)
  BY <1>10, <1>11, SendAlong DEF List, At, Steps, GrantSteps
<1>12. CASE Write(p)
  <2>1. CASE Failed(p)
    <3>1. CASE worker[p].op = "resync"
      BY <1>12, <2>1, <3>1, MoveAlong DEF Failed, Write, At, Steps
    <3>2. CASE worker[p].op # "resync"
      BY <1>12, <2>1, <3>2, MoveAlong DEF Failed, Write, At, Steps, GrantSteps
    <3> QED BY <3>1, <3>2
  <2> QED BY <1>10, <1>12, <2>1 DEF Write, At
<1>13. CASE Queue(p) \/ Confirm(p) \/ Drop(p)
  BY <1>13, EndAlong DEF Queue, Confirm, Drop
<1>14. CASE Plan(p) \/ Provision(p)
  BY <1>14, EndAlong, MoveAlong DEF Plan, Provision, At, Steps, GrantSteps
<1>15. CASE ListClients(p)
  BY <1>15, EndAlong, SendAlong DEF ListClients, At, Steps, GrantSteps
<1>16. CASE ListForDelete(p)
  <2>1. PICK pc \in {"cut", "drop"} : Move(p, pc)
    BY <1>16 DEF ListForDelete
  <2> QED BY <1>16, <2>1, MoveAlong DEF ListForDelete, At, Steps, GrantSteps
<1>17. CASE Cut(p)
  <2>1. PICK pc \in {"forget", "queue"} : Move(p, pc)
    BY <1>17 DEF Cut
  <2> QED BY <1>17, <2>1, MoveAlong DEF Cut, At, Steps, GrantSteps
<1>18. CASE Forget(p)
  BY <1>18, MoveAlong DEF Forget, At, Steps, GrantSteps
<1> QED BY <1>1, <1>2, <1>3, <1>4, <1>5, <1>6, <1>7, <1>8, <1>9, <1>11, <1>12, <1>13,
           <1>14, <1>15, <1>16, <1>17, <1>18 DEF Step

LEMMA NotAStep ==
  ASSUME AInv, Next, NEW p \in Procs, worker'[p] # worker[p], ~At(p, "idle")
  PROVE  Step(p) \/ (worker'[p] = Idle /\ user' = user)
<1>0. worker \in [Procs -> Calls]
  BY DEF AInv, TypeOK
<1>1. CASE \E q \in Workers, op \in Ops : Begin(q, op)
  BY <1>0, <1>1 DEF Begin, At
<1>2. CASE \E q \in Procs : Step(q)
  BY <1>2, StepAlong DEF Along
<1>3. CASE Heal \/ RunPush \/ RunRemove
  BY <1>0, <1>3 DEF Heal, RunPush, RunRemove, Run, At
<1>4. CASE Tick
  BY <1>4 DEF Tick
<1>5. CASE Crash
  BY <1>5 DEF Crash, rows
<1> QED BY <1>1, <1>2, <1>3, <1>4, <1>5 DEF Next

LEMMA GrantingKept ==
  ASSUME GInv, [Next]_vars, NEW p \in Procs PROVE Granting(p)'
<1>0. worker \in [Procs -> Calls] /\ Granting(p) /\ AInv
  BY DEF GInv, AInv, TypeOK
<1>1. CASE \E q \in Workers, op \in Ops : Begin(q, op)
  <2>1. PICK q \in Workers, op \in Ops : Begin(q, op)
    BY <1>1
  <2>2. CASE q = p
    <3>1. worker'[p] = Call(op, FirstStep(op))
      BY <1>0, <2>1, <2>2 DEF Begin
    <3>2. worker'[p].op = op /\ worker'[p].pc = FirstStep(op)
      BY <3>1 DEF Call, Idle
    <3> QED BY <3>2 DEF Granting, FirstStep, GrantSteps, Locked
  <2>3. CASE q # p
    BY <1>0, <2>1, <2>3 DEF Begin, Granting, At
  <2> QED BY <2>2, <2>3
<1>2. CASE \E q \in Procs : Step(q)
  <2>1. PICK q \in Procs : Step(q)
    BY <1>2
  <2>2. Along(q)
    BY <1>0, <2>1, StepAlong
  <2> QED BY <1>0, <2>2 DEF Along, Granting, At
<1>3. CASE Heal
  BY <1>0, <1>3 DEF Heal, Granting, At, Idle
<1>4. CASE RunPush \/ RunRemove
  BY <1>0, <1>4 DEF RunPush, RunRemove, Run, Granting, At, Idle
<1>5. CASE Tick \/ UNCHANGED vars
  BY <1>0, <1>5 DEF Tick, vars, Granting, At
<1>6. CASE Crash
  BY <1>6 DEF Crash, Granting, Idle
<1> QED BY <1>1, <1>2, <1>3, <1>4, <1>5, <1>6 DEF Next

LEMMA Safe == Spec => []GInv
<1>1. Init => GInv
  <2> SUFFICES ASSUME Init PROVE \A q \in Procs : Granting(q)
    BY InitInv DEF GInv
  <2> QED BY DEF Init, Granting, Idle
<1>2. GInv /\ [Next]_vars => GInv'
  BY NextKeeps, GrantingKept DEF GInv
<1> QED BY <1>1, <1>2, PTL DEF Spec

-----------------------------------------------------------------------------
(* The theorems. *)

\* The row and every copy of it keep their shape, whatever the operations in progress:
\* in particular the uses on record never exceed the uses a user has.
THEOREM TypeCorrect == Spec => []TypeOK
<1>1. GInv => TypeOK
  BY DEF GInv, AInv
<1> QED BY <1>1, Safe, PTL

\* LiftServiceIfHeldSince decides on the row it read under the lock; nothing without the
\* lock writes a later location suspension, so the one it ends was due.
THEOREM LiftAlwaysDue == Spec => LiftIsDue
<1> DEFINE Due == \A p \in Workers :
             Doing(p, "lift", "clear") /\ StepOf(p) /\ user.svc = "geo_auto" /\ user'.svc # "geo_auto"
               => user.at <= worker[p].cutoff
<1>1. GInv /\ [Next]_vars => [Due]_vars
  <2> SUFFICES ASSUME GInv, NEW p \in Workers, Doing(p, "lift", "clear"), user.svc = "geo_auto"
               PROVE  user.at <= worker[p].cutoff
    OBVIOUS
  <2> QED BY DEF GInv, AInv, Inv, LiftKnows, Procs
<1> QED BY <1>1, Safe, PTL DEF Spec, LiftIsDue

\* UseEmergencyAccess checks for a hard hold and then writes the reason; the detector's
\* write waits for the emergency lock, so no location suspension is written over.
THEOREM GrantAlwaysKeepsHold == Spec => GrantKeepsHold
<1> DEFINE Keeps == \A p \in Workers :
             worker[p].op = "emergency" /\ StepOf(p) /\ user.svc = "geo_auto"
               => user'.svc = "geo_auto"
<1>1. GInv /\ [Next]_vars => [Keeps]_vars
  <2> SUFFICES ASSUME GInv, Next, NEW p \in Workers, worker[p].op = "emergency", StepOf(p),
                      user.svc = "geo_auto"
               PROVE  user'.svc = "geo_auto"
    BY DEF vars
  <2>1. p \in Procs /\ AInv /\ user \in Rows /\ Granting(p) /\ Inv(p)
    BY DEF Procs, GInv, AInv, TypeOK
  <2>2. worker[p].pc \notin {"save", "mark", "grant"}
    BY <2>1 DEF Inv, GrantKnows
  <2>3. CASE At(p, "idle")
    <3>1. \A q \in Procs : ~Step(q) \/ q # p
      BY <2>3 DEF Step, Lock, ELock, EndWindow, Read, Save, Mark, Detect, Clear, Grant, Want, List,
                  Write, Queue, Plan, ListClients, Provision, Confirm, ListForDelete, Cut,
                  Forget, Drop, At, Doing
    <3>2. ~ \E q \in Procs : Step(q)
      BY <2>1, <3>1, StepAlong DEF Along, StepOf
    <3>3. user' = user
      BY <3>2 DEF Next, Begin, Heal, RunPush, RunRemove, Tick, Crash, rows
    <3> QED BY <3>3
  <2>4. CASE worker[p].pc \in GrantSteps
    <3>1. worker[p].pc \in {"elock", "read", "want", "list", "write", "queue"} /\ ~At(p, "idle")
      BY <2>2, <2>4 DEF GrantSteps, At
    <3>2. Step(p) \/ user' = user
      BY <2>1, <3>1, NotAStep DEF StepOf
    <3>3. Step(p) => user' = user
      BY <3>1 DEF Step, Lock, ELock, EndWindow, Read, Save, Mark, Detect, Clear, Grant, Want, List,
                  Write, Queue, Plan, ListClients, Provision, Confirm, ListForDelete, Cut,
                  Forget, Drop, At, Doing, rows
    <3> QED BY <3>2, <3>3
  <2> QED BY <2>1, <2>3, <2>4 DEF Granting
<1> QED BY <1>1, Safe, PTL DEF Spec, GrantKeepsHold

\* UseEmergencyAccess counts the use from its own copy of the row; the emergency lock
\* keeps the copy good until the count is written.
THEOREM GrantAlwaysSpendsOneUse == Spec => GrantSpendsOneUse
<1> DEFINE Spends == \A p \in Workers :
             Doing(p, "emergency", "grant") /\ worker'[p].pc = "want" /\ Here(user)
               => user'.used > user.used /\ user.until <= now
<1>1. GInv /\ [Next]_vars => [Spends]_vars
  <2> SUFFICES ASSUME GInv, Next, NEW p \in Workers, Doing(p, "emergency", "grant"),
                      worker'[p].pc = "want", Here(user)
               PROVE  user'.used > user.used /\ user.until <= now
    BY DEF vars
  <2>1. p \in Procs /\ AInv /\ user \in Rows /\ worker[p].snap \in Rows /\ Inv(p)
    BY DEF Procs, GInv, AInv, TypeOK, Calls
  <2>2. user.until <= now /\ user.used <= worker[p].snap.used
    BY <2>1 DEF Inv, GrantKnows, Doing
  <2>3. Step(p)
    BY <2>1, NotAStep DEF Doing, At, Idle
  <2>4. Grant(p)
    BY <2>3 DEF Step, Lock, ELock, EndWindow, Read, Save, Mark, Detect, Clear, Want, List,
                Write, Queue, Plan, ListClients, Provision, Confirm, ListForDelete, Cut,
                Forget, Drop, At, Doing
  <2>5. user'.used = worker[p].snap.used + 1
    BY <2>1, <2>4 DEF Grant, Granted, Rows
  <2> QED BY <2>1, <2>2, <2>5, Numbers DEF Rows
<1> QED BY <1>1, Safe, PTL DEF Spec, GrantSpendsOneUse
=============================================================================
