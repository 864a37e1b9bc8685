------------------------- MODULE NodeConfig_proofs --------------------------
(***************************************************************************)
(* What holds of a node's configuration for any ports, bodies, forms and   *)
(* drifts, any number of handlers and any bounds.                          *)
(*                                                                         *)
(* The port: every copy an actor may write back carries, when it was taken *)
(* from a captured row, a port somebody asked for (CopiesInv).  A copy is  *)
(* pushed or captured only after its stamp was seen, capturing keeps its   *)
(* port, and asked only grows.                                             *)
(*                                                                         *)
(* The listing: what it misses beside other inbounds is gone (SeenInv), as *)
(* long as nothing but listings fills the cache.                           *)
(***************************************************************************)
EXTENDS NodeConfig, FiniteSetTheorems, TLAPS

Bounds == {"edits", "toggles", "certs", "faults", "drifts"}

\* Among one stamp more than are held, one is not held.
LEMMA FreshIsNew ==
  ASSUME NTypeOK
  PROVE  FreshStamp \in Nat \ {0} /\ FreshStamp \notin Stamps
<1> DEFINE held == {edit[h].n.stamp : h \in Handlers}
           five == {row.stamp, runner.n.stamp, rec.n.stamp, cert.n.stamp, norm.n.stamp}
           k    == Cardinality(Stamps)
<1>1. IsFiniteSet(held)
  <2> DEFINE f == [h \in Handlers |-> edit[h].n.stamp]
  <2>1. f \in Surjection(Handlers, held)
    BY DEF Surjection
  <2> QED BY <2>1, FS_Surjection, ConfigAssumption
<1>2. IsFiniteSet(five)
  <2> five = {row.stamp} \cup {runner.n.stamp} \cup {rec.n.stamp} \cup {cert.n.stamp} \cup {norm.n.stamp}
    OBVIOUS
  <2> HIDE DEF five
  <2> QED BY FS_Singleton, FS_Union
<1>u. Stamps = five \cup held
  BY DEF Stamps
<1> HIDE DEF held, five
<1>3. IsFiniteSet(Stamps) /\ k \in Nat
  BY <1>1, <1>2, <1>u, FS_Union, FS_CardinalityType
<1>4. IsFiniteSet(1..(k + 1)) /\ Cardinality(1..(k + 1)) = k + 1
  BY <1>3, FS_Interval
<1>5. \E s \in 1..(k + 1) : s \notin Stamps
  <2>1. SUFFICES ASSUME 1..(k + 1) \subseteq Stamps PROVE FALSE
    OBVIOUS
  <2>2. k + 1 <= k
    BY <1>3, <1>4, <2>1, FS_Subset
  <2> QED BY <1>3, <2>2
<1>6. FreshStamp \in 1..(k + 1) /\ FreshStamp \notin Stamps
  BY <1>5 DEF FreshStamp
<1> QED BY <1>3, <1>6
-----------------------------------------------------------------------------
\* What the helpers return.
LEMMA BlankType == ASSUME NTypeOK PROVE Blank \in Row
<1>1. (CHOOSE c \in Cfg : TRUE) \in Cfg
  BY DEF NTypeOK, Row
<1> QED BY <1>1 DEF Blank, Row, State

LEMMA StoredType == ASSUME NTypeOK, NEW n \in Row PROVE Stored(n) \in Row
BY DEF NTypeOK, Stored, Row

LEMMA AppliedType ==
  ASSUME NEW c \in Cfg, NEW e \in BOOLEAN
  PROVE  Applied(c, e) \in Live
BY ConfigAssumption DEF Applied, Cfg, Live

LEMMA SwitchedType ==
  ASSUME NTypeOK, live # Gone, NEW e \in BOOLEAN
  PROVE  Switched(e) \in Live
BY DEF NTypeOK, Switched, Live

LEMMA CapturedType ==
  ASSUME NTypeOK, NEW n \in Row, NEW l \in Live
  PROVE  Captured(n, l) \in Row /\ Adopted(n, l) \in Row
BY FreshIsNew DEF Captured, Adopted, Row, Live, Cfg, State

LEMMA ModernisedType ==
  ASSUME NTypeOK, NEW n \in Row
  PROVE  Modernised(n) \in Row
BY FreshIsNew, ConfigAssumption DEF Modernised, Row, Cfg, State

LEMMA EnqueuedType ==
  ASSUME NTypeOK, NEW type \in {"update", "switch"}
  PROVE  Enqueued(type) \in [{"update", "switch"} -> Status]
BY DEF NTypeOK, Enqueued, Status

\* A call to the panel leaves an inbound or none, and counts a failure.
LEMMA CallType ==
  ASSUME NTypeOK, NEW after, live # Gone => after \in Live, Succeeds(after) \/ Fails(after)
  PROVE  live' \in Live \cup {Gone} /\ used' \in [Bounds -> Nat]
BY DEF NTypeOK, Succeeds, Fails, Use, Bounds

LEMMA UseType ==
  ASSUME NTypeOK, NEW what \in Bounds, Use(what)
  PROVE  used' \in [Bounds -> Nat]
BY DEF NTypeOK, Use, Bounds
-----------------------------------------------------------------------------
\* The copies of an actor that moves on are rows.
LEMMA EditTypes ==
  ASSUME NTypeOK, NEW h \in Handlers, NEW c \in Cfg, NEW enable \in BOOLEAN,
         AdminEdit(h, c, enable) \/ EditStep(h)
  PROVE  NTypeOK'
<1> DEFINE Copies == [pc : Steps.edit, n : Row]
<1>1. edit \in [Handlers -> Copies] /\ edit[h] \in Copies
  BY DEF NTypeOK
<1>2. CASE AdminEdit(h, c, enable)
  <2> DEFINE n == [cfg |-> c, stamp |-> FreshStamp, state |-> "synced", enabled |-> enable]
  <2>1. n \in Row
    BY <1>1, FreshIsNew DEF Row, State
  <2>2. row' = Stored(n) /\ edit' = [edit EXCEPT ![h] = [pc |-> "push", n |-> n]]
    BY <1>2 DEF AdminEdit
  <2>3. row' \in Row
    BY <2>1, <2>2, StoredType
  <2>4. edit' \in [Handlers -> Copies]
    <3> HIDE DEF n
    <3> QED BY <1>1, <2>1, <2>2 DEF Steps
  <2>5. want' \in Cfg /\ asked' \subseteq Ports /\ used' \in [Bounds -> Nat]
    BY <1>1, <1>2, UseType DEF AdminEdit, NTypeOK, Cfg, Bounds
  <2> QED BY <1>2, <2>3, <2>4, <2>5 DEF AdminEdit, NTypeOK, Bounds
<1>3. CASE AdminPush(h)
  <2> DEFINE after == Applied(edit[h].n.cfg, edit[h].n.enabled)
  <2>1. after \in Live /\ (Succeeds(after) \/ Fails(after))
    BY <1>1, <1>3, AppliedType DEF AdminPush, Pushed, PushFails, Row
  <2>2. live' \in Live \cup {Gone} /\ used' \in [Bounds -> Nat]
    BY <2>1, CallType
  <2>a. Rest(edit[h]) \in Copies
    BY <1>1, BlankType DEF Rest, Steps
  <2>b. [edit[h] EXCEPT !.pc = "pending"] \in Copies
    BY <1>1 DEF Steps
  <2>c. \/ edit' = [edit EXCEPT ![h] = Rest(edit[h])]
        \/ edit' = [edit EXCEPT ![h] = [edit[h] EXCEPT !.pc = "pending"]]
    BY <1>1, <1>3 DEF AdminPush
  <2>3. edit' \in [Handlers -> Copies]
    BY <1>1, <2>a, <2>b, <2>c
  <2> QED BY <1>3, <2>2, <2>3 DEF AdminPush, NTypeOK, Bounds
<1>4. CASE AdminMarkPending(h)
  <2>1. [edit[h].n EXCEPT !.state = "pending"] \in Row
    BY <1>1 DEF Row, State
  <2>2. row' \in Row
    BY <1>4, <2>1, StoredType DEF AdminMarkPending
  <2>3. edit' \in [Handlers -> Copies]
    BY <1>1, <1>4, BlankType DEF AdminMarkPending, Steps
  <2> QED BY <1>4, <2>2, <2>3 DEF AdminMarkPending, NTypeOK
<1>5. CASE AdminEnqueue(h)
  <2>1. task' \in [{"update", "switch"} -> Status]
    BY <1>5, EnqueuedType DEF AdminEnqueue
  <2>2. edit' \in [Handlers -> Copies]
    BY <1>1, <1>5, BlankType DEF AdminEnqueue, Rest, Steps
  <2> QED BY <1>5, <2>1, <2>2 DEF AdminEnqueue, NTypeOK
<1> QED BY <1>2, <1>3, <1>4, <1>5 DEF EditStep

LEMMA SwitchTypes ==
  ASSUME NTypeOK, NEW t \in Togglers, NEW enable \in BOOLEAN,
         SetEnabled(t, enable) \/ SwitchStep(t)
  PROVE  NTypeOK'
<1> DEFINE Switches == [pc : Steps.switch, enable : BOOLEAN]
<1>1. switch \in [Togglers -> Switches] /\ switch[t] \in Switches
  BY DEF NTypeOK
<1>2. switch' \in [Togglers -> Switches]
  <2>1. CASE SetEnabled(t, enable)
    BY <1>1, <2>1 DEF SetEnabled, Steps
  <2>2. CASE SwitchPush(t)
    <3>1. PICK pc \in Steps.switch :
            switch' = [switch EXCEPT ![t] = [pc |-> pc, enable |-> FALSE]]
      BY <2>2 DEF SwitchPush, Steps
    <3> QED BY <1>1, <3>1
  <2>3. CASE SwitchEnqueue(t)
    <3>1. [switch[t] EXCEPT !.pc = "idle"] \in Switches
      BY <1>1 DEF Steps
    <3> QED BY <1>1, <2>3, <3>1 DEF SwitchEnqueue
  <2> QED BY <2>1, <2>2, <2>3 DEF SwitchStep
<1>3. CASE SetEnabled(t, enable)
  <2>1. row' \in Row /\ used' \in [Bounds -> Nat]
    BY <1>3, UseType DEF SetEnabled, NTypeOK, Row, Bounds
  <2> QED BY <1>2, <1>3, <2>1 DEF SetEnabled, NTypeOK, Bounds
<1>4. CASE SwitchPush(t)
  <2>1. live # Gone => Switched(switch[t].enable) \in Live
    BY <1>1, SwitchedType
  <2>2. live' \in Live \cup {Gone} /\ used' \in [Bounds -> Nat]
    BY <1>4, <2>1, CallType DEF SwitchPush
  <2> QED BY <1>2, <1>4, <2>2 DEF SwitchPush, NTypeOK, Bounds
<1>5. CASE SwitchEnqueue(t)
  <2>1. task' \in [{"update", "switch"} -> Status]
    BY <1>5, EnqueuedType DEF SwitchEnqueue
  <2> QED BY <1>2, <1>5, <2>1 DEF SwitchEnqueue, NTypeOK
<1> QED BY <1>3, <1>4, <1>5 DEF SwitchStep

LEMMA RunnerTypes ==
  ASSUME NTypeOK, RunnerStep
  PROVE  NTypeOK'
<1> DEFINE Runners == [pc : Steps.runner, type : {"update", "switch"}, n : Row]
<1>1. runner \in Runners /\ row \in Row /\ task \in [{"update", "switch"} -> Status]
  BY DEF NTypeOK
<1>2. Rest(runner) \in Runners
  BY <1>1, BlankType DEF Rest, Steps
<1>3. TaskEnds => task' \in [{"update", "switch"} -> Status]
  BY <1>1 DEF TaskEnds, Status
<1>4. ASSUME NEW type \in {"update", "switch"}, TaskClaim(type)
      PROVE  NTypeOK'
  <2>1. runner' \in Runners /\ task' \in [{"update", "switch"} -> Status]
    BY <1>1, <1>4 DEF TaskClaim, Steps, Status
  <2> QED BY <1>4, <2>1 DEF TaskClaim, NTypeOK
<1>5. CASE TaskRead
  <2>1. runner' \in Runners
    BY <1>1, <1>5 DEF TaskRead, Steps
  <2> QED BY <1>5, <2>1 DEF TaskRead, NTypeOK
<1>6. CASE TaskPush
  <2> DEFINE after == IF runner.type = "update" THEN Applied(runner.n.cfg, runner.n.enabled)
                                                ELSE Switched(runner.n.enabled)
  <2>1. live # Gone => after \in Live
    BY <1>1, AppliedType, SwitchedType DEF Row
  <2>2. Succeeds(after) \/ Fails(after)
    BY <1>6 DEF TaskPush
  <2>3. live' \in Live \cup {Gone} /\ used' \in [Bounds -> Nat]
    BY <2>1, <2>2, CallType
  <2>a. [runner EXCEPT !.pc = "check"] \in Runners
    BY <1>1 DEF Steps
  <2>b. \A pc \in {"gaveup", "idle"} : [Rest(runner) EXCEPT !.pc = pc] \in Runners
    BY <1>2 DEF Steps
  <2>4. runner' \in Runners
    BY <1>2, <1>6, <2>a, <2>b DEF TaskPush
  <2>5. task' \in [{"update", "switch"} -> Status]
    BY <1>1, <1>3, <1>6 DEF TaskPush, Status
  <2> QED BY <1>6, <2>3, <2>4, <2>5 DEF TaskPush, NTypeOK, Bounds
<1>7. CASE TaskCheck
  <2>1. runner' \in Runners
    BY <1>1, <1>2, <1>7 DEF TaskCheck, TaskRecheck, Steps
  <2>2. task' \in [{"update", "switch"} -> Status]
    BY <1>1, <1>3, <1>7 DEF TaskCheck, TaskRecheck
  <2> QED BY <1>7, <2>1, <2>2 DEF TaskCheck, NTypeOK
<1>8. CASE TaskFlip
  <2>1. [runner.n EXCEPT !.state = "synced"] \in Row
    BY <1>1 DEF Row, State
  <2>2. row' \in Row
    BY <1>8, <2>1, StoredType DEF TaskFlip
  <2> QED BY <1>2, <1>3, <1>8, <2>2 DEF TaskFlip, NTypeOK
<1>9. CASE TaskGaveUp
  <2>1. runner' \in Runners
    BY <1>1, <1>2, <1>9 DEF TaskGaveUp, Steps
  <2> QED BY <1>9, <2>1 DEF TaskGaveUp, NTypeOK
<1>10. CASE TaskMarkFailed
  <2>1. [runner.n EXCEPT !.state = "failed"] \in Row
    BY <1>1 DEF Row, State
  <2>2. row' \in Row
    BY <1>10, <2>1, StoredType DEF TaskMarkFailed
  <2> QED BY <1>2, <1>10, <2>2 DEF TaskMarkFailed, NTypeOK
<1> QED BY <1>4, <1>5, <1>6, <1>7, <1>8, <1>9, <1>10 DEF RunnerStep

LEMMA ReconcileTypes ==
  ASSUME NTypeOK, ReconcileStep
  PROVE  NTypeOK'
<1> DEFINE Cycles == [pc : Steps.rec, n : Row, seen : Live \cup {Gone}, others : BOOLEAN]
<1>1. rec \in Cycles /\ row \in Row
  BY DEF NTypeOK
<1>2. RecRest => rec' \in Cycles
  BY BlankType DEF RecRest, Steps
<1>3. CASE Prefetch
  <2>1. rec' \in Cycles
    <3>1. ASSUME NEW seen \in Live \cup {Gone}, NEW any \in BOOLEAN, Cycle(seen, any)
          PROVE  rec' \in Cycles
      BY <3>1, BlankType DEF Cycle, Steps
    <3>2. Cycle(live, others) \/ Cycle(Gone, FALSE)
      BY <1>3 DEF Prefetch
    <3>3. live \in Live \cup {Gone} /\ others \in BOOLEAN
      BY DEF NTypeOK
    <3> QED BY <3>1, <3>2, <3>3
  <2>2. used' \in [Bounds -> Nat]
    BY <1>3, UseType DEF Prefetch, NTypeOK, Bounds
  <2> QED BY <1>3, <2>1, <2>2 DEF Prefetch, NTypeOK, Bounds
<1>a. CASE LoadInbound
  <2>1. rec' \in Cycles
    BY <1>1, <1>a DEF LoadInbound, NTypeOK
  <2> QED BY <1>a, <2>1 DEF LoadInbound, NTypeOK
<1>b. CASE SkipUnreachable
  BY <1>2, <1>b DEF SkipUnreachable, NTypeOK
<1>4. CASE ListNodes
  <2>1. rec' \in Cycles
    BY <1>1, <1>2, <1>4 DEF ListNodes, Steps
  <2> QED BY <1>4, <2>1 DEF ListNodes, NTypeOK
<1>5. CASE DisableMissing
  <2>1. row' \in Row
    BY <1>1, <1>5 DEF DisableMissing, Row
  <2> QED BY <1>2, <1>5, <2>1 DEF DisableMissing, NTypeOK
<1>6. CASE VisitNode
  <2>1. rec.seen \in Live
    BY <1>1, <1>6 DEF VisitNode
  <2>2. Adopted(row, rec.seen) \in Row
    BY <1>1, <2>1, CapturedType
  <2>3. ASSUME NEW pc \in Steps.rec, NEW n \in Row
        PROVE  [rec EXCEPT !.pc = pc, !.n = n] \in Cycles
    BY <1>1
  <2>a. "adopt" \in Steps.rec /\ "push" \in Steps.rec
    BY DEF Steps
  <2> HIDE DEF Cycles
  <2>4. rec' \in Cycles
    <3>1. CASE RecRest
      BY <1>2, <3>1
    <3>2. CASE ~RecRest /\ rec.n.stamp = 0
      <4>1. rec' = [rec EXCEPT !.pc = "adopt", !.n = Adopted(row, rec.seen)]
        BY <1>6, <3>2 DEF VisitNode, Reread
      <4> QED BY <2>2, <2>3, <2>a, <4>1
    <3>3. CASE ~RecRest /\ rec.n.stamp # 0
      <4>1. rec' = [rec EXCEPT !.pc = "push", !.n = row]
        BY <1>6, <3>3 DEF VisitNode, Reread
      <4> QED BY <1>1, <2>3, <2>a, <4>1
    <3> QED BY <3>1, <3>2, <3>3
  <2> QED BY <1>6, <2>4 DEF VisitNode, NTypeOK, Cycles
<1>7. CASE DriftPush
  <2> DEFINE after == Applied(rec.n.cfg, rec.n.enabled)
  <2>1. after \in Live /\ (Succeeds(after) \/ Fails(after))
    BY <1>1, <1>7, AppliedType DEF DriftPush, Pushed, PushFails, Row
  <2>2. live' \in Live \cup {Gone} /\ used' \in [Bounds -> Nat]
    BY <2>1, CallType
  <2>3. rec' \in Cycles
    BY <1>1, <1>7 DEF DriftPush, Steps
  <2> QED BY <1>7, <2>2, <2>3 DEF DriftPush, NTypeOK, Bounds
<1>8. CASE Recapture
  <2>1. live # Gone => live \in Live
    BY DEF NTypeOK
  <2>2. live' \in Live \cup {Gone} /\ used' \in [Bounds -> Nat]
    BY <1>8, <2>1, CallType DEF Recapture
  <2>3. rec' \in Cycles
    <3>1. CASE Succeeds(live) /\ rec' = [rec EXCEPT !.pc = "write", !.n = Captured(rec.n, live)]
      <4>1. Captured(rec.n, live) \in Row
        BY <1>1, <2>1, <3>1, CapturedType DEF Succeeds
      <4> QED BY <1>1, <3>1, <4>1 DEF Steps
    <3>2. CASE rec' = [rec EXCEPT !.pc = "pending"]
      BY <1>1, <3>2 DEF Steps
    <3> QED BY <1>8, <3>1, <3>2 DEF Recapture
  <2> QED BY <1>8, <2>2, <2>3 DEF Recapture, NTypeOK, Bounds
<1>9. CASE DriftWrite
  <2>1. row' \in Row
    BY <1>1, <1>9, StoredType DEF DriftWrite
  <2> QED BY <1>2, <1>9, <2>1 DEF DriftWrite, NTypeOK
<1>10. CASE AdoptWrite
  <2>1. row' \in Row
    BY <1>1, <1>10, StoredType DEF AdoptWrite
  <2>2. want' \in Cfg /\ asked' \subseteq Ports
    BY <1>1, <1>10 DEF AdoptWrite, NTypeOK, Row, Cfg
  <2> QED BY <1>2, <1>10, <2>1, <2>2 DEF AdoptWrite, NTypeOK
<1>11. CASE DriftPending
  <2>1. [rec.n EXCEPT !.state = "pending"] \in Row
    BY <1>1 DEF Row, State
  <2>2. row' \in Row
    BY <1>1, <1>11, <2>1, StoredType DEF DriftPending
  <2> QED BY <1>2, <1>11, <2>2 DEF DriftPending, NTypeOK
<1> QED BY <1>3, <1>a, <1>4, <1>b, <1>5, <1>6, <1>7, <1>8, <1>9, <1>10, <1>11 DEF ReconcileStep

LEMMA CertTypes ==
  ASSUME NTypeOK, CertStep
  PROVE  NTypeOK'
<1> DEFINE Copies == [pc : Steps.cert, n : Row]
<1>1. cert \in Copies /\ row \in Row
  BY DEF NTypeOK
<1>2. CASE CertRead
  <2>1. cert' \in Copies /\ used' \in [Bounds -> Nat]
    BY <1>1, <1>2, UseType DEF CertRead, Steps, Bounds
  <2> QED BY <1>2, <2>1 DEF CertRead, NTypeOK, Bounds
<1>3. CASE CertWrite
  <2>1. [cert.n EXCEPT !.cfg.cert = TRUE, !.stamp = FreshStamp, !.state = "pending"] \in Row
    BY <1>1, FreshIsNew DEF Row, Cfg, State
  <2>2. row' \in Row
    BY <1>3, <2>1, StoredType DEF CertWrite
  <2>3. want' \in Cfg /\ cert' \in Copies
    BY <1>3, BlankType DEF CertWrite, NTypeOK, Cfg, Steps
  <2> QED BY <1>3, <2>2, <2>3 DEF CertWrite, NTypeOK
<1>4. CASE CertEnqueue
  <2>1. task' \in [{"update", "switch"} -> Status] /\ cert' \in Copies
    BY <1>1, <1>4, EnqueuedType, BlankType DEF CertEnqueue, Rest, Steps
  <2> QED BY <1>4, <2>1 DEF CertEnqueue, NTypeOK
<1> QED BY <1>2, <1>3, <1>4 DEF CertStep

LEMMA NormTypes ==
  ASSUME NTypeOK, NormStep
  PROVE  NTypeOK'
<1> DEFINE Copies == [pc : Steps.norm, n : Row]
<1>1. norm \in Copies /\ row \in Row
  BY DEF NTypeOK
<1>2. Rest(norm) \in Copies
  BY <1>1, BlankType DEF Rest, Steps
<1>3. CASE NormList \/ NormRead
  <2>1. norm' \in Copies
    BY <1>1, <1>3 DEF NormList, NormRead, Steps
  <2> QED BY <1>3, <2>1 DEF NormList, NormRead, NTypeOK
<1>4. CASE NormSwap
  <2>1. row' \in Row
    BY <1>1, <1>4, ModernisedType DEF NormSwap, CompareAndSwapRealityStream
  <2>2. norm' \in Copies
    BY <1>2, <1>4, BlankType DEF NormSwap, CompareAndSwapRealityStream, Steps
  <2> QED BY <1>4, <2>1, <2>2 DEF NormSwap, NTypeOK
<1>5. CASE NormPush
  <2> DEFINE after == Applied(norm.n.cfg, norm.n.enabled)
  <2>1. after \in Live /\ (Succeeds(after) \/ Fails(after))
    BY <1>1, <1>5, AppliedType DEF NormPush, Pushed, PushFails, Row
  <2>2. live' \in Live \cup {Gone} /\ used' \in [Bounds -> Nat]
    BY <2>1, CallType
  <2>3. norm' \in Copies
    BY <1>1, <1>5, BlankType DEF NormPush, Steps
  <2> QED BY <1>5, <2>2, <2>3 DEF NormPush, NTypeOK, Bounds
<1>6. CASE NormEnqueue
  <2>1. task' \in [{"update", "switch"} -> Status]
    BY <1>6, EnqueuedType DEF NormEnqueue
  <2> QED BY <1>2, <1>6, <2>1 DEF NormEnqueue, NTypeOK
<1>7. CASE ConfirmAppliedConfig
  <2>1. row' \in Row
    BY <1>1, <1>7 DEF ConfirmAppliedConfig, Row, State
  <2> QED BY <1>2, <1>7, <2>1 DEF ConfirmAppliedConfig, NTypeOK
<1> QED BY <1>3, <1>4, <1>5, <1>6, <1>7 DEF NormStep

LEMMA OperatorTypes ==
  ASSUME NTypeOK,
         OperatorEdits \/ OperatorSwitches \/ OperatorDeletes \/ OperatorElsewhere
  PROVE  NTypeOK'
<1>0. CASE OperatorElsewhere
  <2>1. others' \in BOOLEAN /\ used' \in [Bounds -> Nat]
    BY <1>0, UseType DEF OperatorElsewhere, Bounds
  <2> QED BY <1>0, <2>1 DEF OperatorElsewhere, NTypeOK, Bounds
<1>a. SUFFICES ASSUME OperatorEdits \/ OperatorSwitches \/ OperatorDeletes
               PROVE  NTypeOK'
  BY <1>0
<1>1. PICK after \in Live \cup {Gone} : Operator(after)
  <2>1. CASE OperatorEdits
    <3>1. PICK c \in Drifts : Operator([live EXCEPT !.cfg = Applied(c, TRUE).cfg])
      BY <2>1 DEF OperatorEdits
    <3>2. Applied(c, TRUE) \in Live
      BY AppliedType, ConfigAssumption DEF Cfg
    <3>3. live \in Live
      BY <3>1 DEF Operator, NTypeOK
    <3>4. [live EXCEPT !.cfg = Applied(c, TRUE).cfg] \in Live
      BY <3>2, <3>3 DEF Live
    <3> QED BY <3>1, <3>4
  <2>2. CASE OperatorSwitches
    <3>1. live \in Live
      BY <2>2 DEF OperatorSwitches, Operator, NTypeOK
    <3>2. Switched(~live.enable) \in Live
      BY <3>1 DEF Switched, Live
    <3> QED BY <2>2, <3>2 DEF OperatorSwitches
  <2>3. CASE OperatorDeletes
    BY <2>3 DEF OperatorDeletes
  <2> QED BY <1>a, <2>1, <2>2, <2>3
<1>2. used' \in [Bounds -> Nat]
  BY <1>1, UseType DEF Operator, Bounds
<1> QED BY <1>1, <1>2 DEF Operator, NTypeOK, Bounds

LEMMA InitTypes == NInit => NTypeOK
<1> SUFFICES ASSUME NInit PROVE NTypeOK
  OBVIOUS
<1>1. PICK c \in Forms : /\ live = Applied(c, TRUE) /\ want = live.cfg /\ asked = {c.port}
                         /\ \E s \in FirstStamps :
                              row = [cfg |-> live.cfg, stamp |-> s,
                                     state |-> IF s = 0 THEN "" ELSE "synced", enabled |-> TRUE]
  BY DEF NInit
<1>2. live \in Live /\ want \in Cfg /\ asked \subseteq Ports
  BY <1>1, AppliedType, ConfigAssumption DEF Cfg, Live
<1>3. row \in Row
  <2>1. PICK s \in FirstStamps :
           row = [cfg |-> live.cfg, stamp |-> s,
                  state |-> IF s = 0 THEN "" ELSE "synced", enabled |-> TRUE]
    BY <1>1
  <2>2. s \in Nat /\ (IF s = 0 THEN "" ELSE "synced") \in State
    BY ConfigAssumption DEF State
  <2>3. live.cfg \in Cfg
    BY <1>2 DEF Live
  <2> QED BY <2>1, <2>2, <2>3 DEF Row
<1>4. Blank \in Row
  <2>1. (CHOOSE c2 \in Cfg : TRUE) \in Cfg
    BY <1>2
  <2> QED BY <2>1 DEF Blank, Row, State
<1>5. used \in [Bounds -> Nat] /\ task \in [{"update", "switch"} -> Status]
  BY DEF NInit, Bounds, Status
<1>6. /\ edit \in [Handlers -> [pc : Steps.edit, n : Row]]
      /\ switch \in [Togglers -> [pc : Steps.switch, enable : BOOLEAN]]
      /\ runner \in [pc : Steps.runner, type : {"update", "switch"}, n : Row]
      /\ rec \in [pc : Steps.rec, n : Row, seen : Live \cup {Gone}, others : BOOLEAN]
      /\ cert \in [pc : Steps.cert, n : Row] /\ norm \in [pc : Steps.norm, n : Row]
  BY <1>4 DEF NInit, Steps
<1>7. others \in BOOLEAN
  BY DEF NInit
<1> QED BY <1>2, <1>3, <1>5, <1>6, <1>7 DEF NTypeOK, Bounds

LEMMA StepTypes == NTypeOK /\ [NNext]_nvars => NTypeOK'
<1> SUFFICES ASSUME NTypeOK, [NNext]_nvars PROVE NTypeOK'
  OBVIOUS
<1>1. CASE UNCHANGED nvars
  BY <1>1 DEF NTypeOK, nvars, actors
<1>2. CASE \E h \in Handlers, c \in Forms, enable \in BOOLEAN : AdminEdit(h, c, enable)
  BY <1>2, EditTypes, ConfigAssumption DEF Cfg
<1>3. CASE \E t \in Togglers, enable \in BOOLEAN : SetEnabled(t, enable)
  BY <1>3, SwitchTypes
<1>4. CASE \E h \in Handlers : EditStep(h)
  <2>1. row.cfg \in Cfg
    BY DEF NTypeOK, Row
  <2> QED BY <1>4, <2>1, EditTypes
<1>5. CASE \E t \in Togglers : SwitchStep(t)
  BY <1>5, SwitchTypes
<1> QED BY <1>1, <1>2, <1>3, <1>4, <1>5, RunnerTypes, ReconcileTypes, CertTypes, NormTypes,
            OperatorTypes DEF NNext

\* Every row, every copy and every inbound has its shape (NTypeOK).
THEOREM ConfigTypeCorrect == NSpec => []NTypeOK
<1> QED BY InitTypes, StepTypes, PTL DEF NSpec
-----------------------------------------------------------------------------
\* Whatever may be written back carries a port that was asked for.
CopiesInv ==
  /\ row.stamp # 0 => row.cfg.port \in asked
  /\ \A h \in Handlers : edit[h].pc \in {"push", "pending"} => edit[h].n.cfg.port \in asked
  /\ runner.n.stamp # 0 => runner.n.cfg.port \in asked
  /\ rec.pc \in {"push", "capture", "write", "pending"} => rec.n.cfg.port \in asked
  /\ cert.pc = "write" => cert.n.cfg.port \in asked

LEMMA InitCopies == NInit => CopiesInv
<1> SUFFICES ASSUME NInit PROVE CopiesInv
  OBVIOUS
<1>1. PICK c \in Forms : /\ live = Applied(c, TRUE) /\ asked = {c.port}
                         /\ \E s \in FirstStamps :
                              row = [cfg |-> live.cfg, stamp |-> s,
                                     state |-> IF s = 0 THEN "" ELSE "synced", enabled |-> TRUE]
  BY DEF NInit
<1>a. row.cfg = live.cfg
  <2>1. PICK s : row = [cfg |-> live.cfg, stamp |-> s,
                        state |-> IF s = 0 THEN "" ELSE "synced", enabled |-> TRUE]
    BY <1>1
  <2> DEFINE state == IF s = 0 THEN "" ELSE "synced"
  <2>2. row = [cfg |-> live.cfg, stamp |-> s, state |-> state, enabled |-> TRUE]
    BY <2>1
  <2> HIDE DEF state
  <2> QED BY <2>2
<1>2. row.cfg.port \in asked
  BY <1>1, <1>a, ConfigAssumption DEF Applied
<1>3. Blank.stamp = 0
  BY DEF Blank
<1> QED BY <1>2, <1>3 DEF NInit, CopiesInv

\* What Stored, Rest and the helpers keep of a copy.
LEMMA KeepsPort ==
  ASSUME NTypeOK, NEW n \in Row
  PROVE  /\ Stored(n).cfg = n.cfg /\ Stored(n).stamp = n.stamp
         /\ \A state \in State : /\ Stored([n EXCEPT !.state = state]).cfg = n.cfg
                                  /\ Stored([n EXCEPT !.state = state]).stamp = n.stamp
BY DEF Stored, Row

LEMMA CapturedPort ==
  ASSUME NTypeOK, NEW n \in Row, NEW l \in Live
  PROVE  Captured(n, l).cfg.port = n.cfg.port
BY DEF Captured, Row, Live, Cfg

LEMMA BlankStamp == Blank.stamp = 0
BY DEF Blank

LEMMA EditCopies ==
  ASSUME NTypeOK, CopiesInv, NEW h \in Handlers, NEW c \in Cfg, NEW enable \in BOOLEAN,
         AdminEdit(h, c, enable) \/ EditStep(h)
  PROVE  CopiesInv'
<1>1. edit \in [Handlers -> [pc : Steps.edit, n : Row]]
  BY DEF NTypeOK
<1>2. CASE AdminEdit(h, c, enable)
  <2> DEFINE n == [cfg |-> c, stamp |-> FreshStamp, state |-> "synced", enabled |-> enable]
  <2>1. n \in Row /\ n.cfg = c
    BY FreshIsNew DEF Row, State
  <2>2. row' = Stored(n) /\ edit' = [edit EXCEPT ![h] = [pc |-> "push", n |-> n]]
    BY <1>2 DEF AdminEdit
  <2>3. row'.cfg = c
    <3> HIDE DEF n
    <3> QED BY <2>1, <2>2, KeepsPort
  <2>4. asked' = asked \cup {c.port}
    BY <1>2 DEF AdminEdit
  <2>5. \A g \in Handlers : edit'[g].pc \in {"push", "pending"} => edit'[g].n.cfg.port \in asked'
    <3> HIDE DEF n
    <3> QED BY <1>1, <2>1, <2>2, <2>4 DEF CopiesInv
  <2> QED BY <1>2, <2>3, <2>4, <2>5 DEF AdminEdit, CopiesInv
<1>3. CASE AdminPush(h)
  <2>1. \A g \in Handlers : edit'[g].pc \in {"push", "pending"} =>
                               edit[g].pc \in {"push", "pending"} /\ edit'[g].n = edit[g].n
    <3>1. CASE edit' = [edit EXCEPT ![h] = Rest(edit[h])]
      BY <1>1, <3>1 DEF Rest
    <3>2. CASE edit' = [edit EXCEPT ![h].pc = "pending"]
      BY <1>1, <1>3, <3>2 DEF AdminPush
    <3> QED BY <1>3, <3>1, <3>2 DEF AdminPush
  <2> QED BY <1>3, <2>1 DEF AdminPush, CopiesInv
<1>4. CASE AdminMarkPending(h)
  <2>1. row'.cfg = edit[h].n.cfg
    BY <1>1, <1>4, KeepsPort DEF AdminMarkPending, State
  <2>2. row'.cfg.port \in asked
    BY <1>4, <2>1 DEF AdminMarkPending, CopiesInv
  <2> QED BY <1>1, <1>4, <2>2 DEF AdminMarkPending, CopiesInv
<1>5. CASE AdminEnqueue(h)
  BY <1>1, <1>5 DEF AdminEnqueue, Rest, CopiesInv
<1> QED BY <1>2, <1>3, <1>4, <1>5 DEF EditStep

LEMMA RunnerCopies ==
  ASSUME NTypeOK, CopiesInv, RunnerStep
  PROVE  CopiesInv'
<1>1. runner \in [pc : Steps.runner, type : {"update", "switch"}, n : Row]
  BY DEF NTypeOK
<1>2. Rest(runner).n.stamp = 0
  BY <1>1, BlankStamp DEF Rest
<1>3. ASSUME NEW type \in {"update", "switch"}, TaskClaim(type)
      PROVE  CopiesInv'
  BY <1>1, <1>3 DEF TaskClaim, CopiesInv
<1>4. CASE TaskRead
  BY <1>1, <1>4 DEF TaskRead, CopiesInv
<1>5. CASE TaskPush
  <2>1. runner'.n = runner.n \/ runner'.n.stamp = 0
    BY <1>1, <1>2, <1>5 DEF TaskPush, Rest
  <2> QED BY <1>5, <2>1 DEF TaskPush, CopiesInv
<1>6. CASE TaskCheck
  <2>1. runner'.n = row \/ runner'.n.stamp = 0
    BY <1>1, <1>2, <1>6 DEF TaskCheck, TaskRecheck
  <2> QED BY <1>6, <2>1 DEF TaskCheck, CopiesInv
<1>7. CASE TaskFlip \/ TaskMarkFailed
  <2>1. row'.cfg = runner.n.cfg /\ row'.stamp = runner.n.stamp
    BY <1>1, <1>7, KeepsPort DEF TaskFlip, TaskMarkFailed, State
  <2> QED BY <1>2, <1>7, <2>1 DEF TaskFlip, TaskMarkFailed, CopiesInv
<1>8. CASE TaskGaveUp
  <2>1. runner'.n = row \/ runner'.n.stamp = 0
    BY <1>1, <1>2, <1>8 DEF TaskGaveUp
  <2> QED BY <1>8, <2>1 DEF TaskGaveUp, CopiesInv
<1> QED BY <1>3, <1>4, <1>5, <1>6, <1>7, <1>8 DEF RunnerStep

LEMMA ReconcileCopies ==
  ASSUME NTypeOK, CopiesInv, ReconcileStep
  PROVE  CopiesInv'
<1>1. /\ rec \in [pc : Steps.rec, n : Row, seen : Live \cup {Gone}, others : BOOLEAN]
      /\ row \in Row
  BY DEF NTypeOK
<1>2. CASE Prefetch \/ ListNodes
  <2>1. rec'.pc \in {"idle", "list", "visit"}
    <3>1. CASE Prefetch
      BY <3>1 DEF Prefetch, Cycle
    <3>2. CASE RecRest
      BY <3>2 DEF RecRest
    <3>3. CASE rec' = [rec EXCEPT !.pc = "visit", !.n = row]
      BY <1>1, <3>3
    <3> QED BY <1>2, <3>1, <3>2, <3>3 DEF ListNodes
  <2> QED BY <1>2, <2>1 DEF Prefetch, ListNodes, CopiesInv
<1>a. CASE LoadInbound
  <2>1. rec'.pc = rec.pc
    BY <1>1, <1>a DEF LoadInbound
  <2> QED BY <1>a, <2>1 DEF LoadInbound, CopiesInv
<1>b. CASE SkipUnreachable
  BY <1>b DEF SkipUnreachable, RecRest, CopiesInv
<1>3. CASE DisableMissing
  BY <1>1, <1>3 DEF DisableMissing, RecRest, CopiesInv, Row
<1>4. CASE VisitNode
  <2>1. rec'.pc \in {"idle", "adopt"} \/ (rec'.n = row /\ row.stamp # 0)
    <3>1. CASE RecRest
      BY <3>1 DEF RecRest
    <3>2. CASE ~RecRest /\ rec.n.stamp = 0
      <4>1. rec' = [rec EXCEPT !.pc = "adopt", !.n = Adopted(row, rec.seen)]
        BY <1>4, <3>2 DEF VisitNode, Reread
      <4> QED BY <1>1, <4>1
    <3>3. CASE ~RecRest /\ rec.n.stamp # 0
      <4>1. rec' = [rec EXCEPT !.pc = "push", !.n = row] /\ row.stamp = rec.n.stamp
        BY <1>4, <3>3 DEF VisitNode, Reread
      <4> QED BY <1>1, <3>3, <4>1
    <3> QED BY <3>1, <3>2, <3>3
  <2> QED BY <1>4, <2>1 DEF VisitNode, CopiesInv
<1>5. CASE DriftPush
  BY <1>1, <1>5 DEF DriftPush, CopiesInv
<1>6. CASE Recapture
  <2>1. rec'.n.cfg.port = rec.n.cfg.port
    <3>1. CASE Succeeds(live) /\ rec' = [rec EXCEPT !.pc = "write", !.n = Captured(rec.n, live)]
      <4>1. live \in Live
        BY <3>1 DEF Succeeds, NTypeOK
      <4> QED BY <1>1, <3>1, <4>1, CapturedPort
    <3>2. CASE rec' = [rec EXCEPT !.pc = "pending"]
      BY <1>1, <3>2
    <3> QED BY <1>6, <3>1, <3>2 DEF Recapture
  <2> QED BY <1>6, <2>1 DEF Recapture, CopiesInv
<1>7. CASE DriftWrite
  <2>1. row'.cfg = rec.n.cfg
    BY <1>1, <1>7, KeepsPort DEF DriftWrite
  <2> QED BY <1>7, <2>1 DEF DriftWrite, RecRest, CopiesInv
<1>8. CASE AdoptWrite
  <2>1. row'.cfg = rec.n.cfg
    BY <1>1, <1>8, KeepsPort DEF AdoptWrite
  <2> QED BY <1>8, <2>1 DEF AdoptWrite, RecRest, CopiesInv
<1>9. CASE DriftPending
  <2>1. row' = row \/ row'.cfg = rec.n.cfg
    BY <1>1, <1>9, KeepsPort DEF DriftPending, State
  <2> QED BY <1>9, <2>1 DEF DriftPending, RecRest, CopiesInv
<1> QED BY <1>2, <1>a, <1>b, <1>3, <1>4, <1>5, <1>6, <1>7, <1>8, <1>9 DEF ReconcileStep

LEMMA OtherCopies ==
  ASSUME NTypeOK, CopiesInv,
         \/ CertStep \/ NormStep
         \/ OperatorEdits \/ OperatorSwitches \/ OperatorDeletes \/ OperatorElsewhere
         \/ \E t \in Togglers, enable \in BOOLEAN : SetEnabled(t, enable)
         \/ \E t \in Togglers : SwitchStep(t)
  PROVE  CopiesInv'
<1>1. row \in Row /\ cert \in [pc : Steps.cert, n : Row]
  BY DEF NTypeOK
<1>2. CASE CertRead \/ CertEnqueue
  <2>1. cert'.pc = "write" => cert'.n = row /\ row.stamp # 0
    <3>1. CASE CertRead
      BY <3>1 DEF CertRead
    <3>2. CASE cert' = Rest(cert)
      BY <1>1, <3>2 DEF Rest
    <3> QED BY <1>2, <3>1, <3>2 DEF CertEnqueue
  <2> QED BY <1>2, <2>1 DEF CertRead, CertEnqueue, CopiesInv
<1>3. CASE CertWrite
  <2> DEFINE n == [cert.n EXCEPT !.cfg.cert = TRUE, !.stamp = FreshStamp, !.state = "pending"]
  <2>1. n \in Row /\ n.cfg.port = cert.n.cfg.port
    BY <1>1, FreshIsNew DEF Row, Cfg, State
  <2>2. row' = Stored(n)
    BY <1>3 DEF CertWrite
  <2>3. row'.cfg = n.cfg
    <3> HIDE DEF n
    <3> QED BY <2>1, <2>2, KeepsPort
  <2> QED BY <1>3, <2>1, <2>3 DEF CertWrite, CopiesInv
<1>4. CASE NormSwap
  <2>1. \/ row' = row
        \/ row.stamp # 0 /\ row' = Modernised(row)
    BY <1>4 DEF NormSwap, CompareAndSwapRealityStream
  <2>a. Modernised(row).cfg.port = row.cfg.port
    BY <1>1 DEF Modernised, Row, Cfg
  <2>2. row'.stamp # 0 => (row.stamp # 0 /\ row'.cfg.port = row.cfg.port)
    BY <2>1, <2>a
  <2> QED BY <1>4, <2>2 DEF NormSwap, CopiesInv
<1>5. CASE NormList \/ NormRead \/ NormPush \/ NormEnqueue
  BY <1>5 DEF NormList, NormRead, NormPush, NormEnqueue, CopiesInv
<1>6. CASE ConfirmAppliedConfig
  BY <1>1, <1>6 DEF ConfirmAppliedConfig, CopiesInv, Row
<1>7. CASE OperatorEdits \/ OperatorSwitches \/ OperatorDeletes \/ OperatorElsewhere
  BY <1>7 DEF OperatorEdits, OperatorSwitches, OperatorDeletes, OperatorElsewhere, Operator,
              CopiesInv
<1>8. ASSUME NEW t \in Togglers, NEW enable \in BOOLEAN, SetEnabled(t, enable)
      PROVE  CopiesInv'
  BY <1>1, <1>8 DEF SetEnabled, CopiesInv, Row
<1>9. ASSUME NEW t \in Togglers, SwitchStep(t)
      PROVE  CopiesInv'
  BY <1>9 DEF SwitchStep, SwitchPush, SwitchEnqueue, CopiesInv
<1> QED BY <1>2, <1>3, <1>4, <1>5, <1>6, <1>7, <1>8, <1>9 DEF CertStep, NormStep

LEMMA StepCopies == NTypeOK /\ CopiesInv /\ [NNext]_nvars => CopiesInv'
<1> SUFFICES ASSUME NTypeOK, CopiesInv, [NNext]_nvars PROVE CopiesInv'
  OBVIOUS
<1>1. CASE UNCHANGED nvars
  BY <1>1 DEF CopiesInv, nvars, actors
<1>2. CASE \E h \in Handlers, c \in Forms, enable \in BOOLEAN : AdminEdit(h, c, enable)
  BY <1>2, EditCopies, ConfigAssumption DEF Cfg
<1>3. CASE \E h \in Handlers : EditStep(h)
  <2>1. row.cfg \in Cfg
    BY DEF NTypeOK, Row
  <2> QED BY <1>3, <2>1, EditCopies
<1> QED BY <1>1, <1>2, <1>3, RunnerCopies, ReconcileCopies, OtherCopies DEF NNext

\* No interleaving makes a port desired that nobody asked for and that was not
\* adopted (PortIsIntended): Capture keeps the port of the copy it was given.
THEOREM PortAlwaysIntended == NSpec => []PortIsIntended
<1>1. CopiesInv => PortIsIntended
  BY DEF CopiesInv, PortIsIntended
<1> QED BY <1>1, ConfigTypeCorrect, InitCopies, StepCopies, PTL DEF NSpec
-----------------------------------------------------------------------------
\* The normaliser's steps leave the meaning of the row alone.
LEMMA SwapKeepsMeaning ==
  ASSUME NTypeOK
  PROVE  Meaning(Modernised(row).cfg) = Meaning(row.cfg)
BY ConfigAssumption DEF NTypeOK, Meaning, Modernised, Row, Cfg

\* CompareAndSwapRealityStream and the confirmation touch no port, certificate
\* or other body (NormaliserKeepsTheRest).
THEOREM NormaliserAlwaysKeepsTheRest == NSpec => NormaliserKeepsTheRest
<1>1. NTypeOK /\ [NNext]_nvars => [norm' # norm => Meaning(row'.cfg) = Meaning(row.cfg)]_nvars
  <2> SUFFICES ASSUME NTypeOK, NNext, norm' # norm
               PROVE  Meaning(row'.cfg) = Meaning(row.cfg)
    OBVIOUS
  <2>1. NormStep
    BY DEF NNext, AdminEdit, SetEnabled, EditStep, AdminPush, AdminMarkPending, AdminEnqueue,
           SwitchStep, SwitchPush, SwitchEnqueue, RunnerStep, TaskClaim, TaskRead, TaskPush,
           TaskCheck, TaskFlip, TaskGaveUp, TaskMarkFailed, ReconcileStep, Prefetch, ListNodes,
           LoadInbound, SkipUnreachable, DisableMissing, VisitNode, DriftPush, Recapture, DriftWrite, AdoptWrite, DriftPending,
           CertStep, CertRead, CertWrite, CertEnqueue, OperatorEdits, OperatorSwitches,
           OperatorDeletes, OperatorElsewhere, Operator
  <2>2. row' = row \/ row' = Modernised(row) \/ row'.cfg = row.cfg
    BY <2>1 DEF NTypeOK, Row, NormStep, NormList, NormSwap, NormRead, NormPush, NormEnqueue,
                CompareAndSwapRealityStream, ConfirmAppliedConfig
  <2> QED BY <2>2, SwapKeepsMeaning
<1> QED BY <1>1, ConfigTypeCorrect, PTL DEF NSpec, NormaliserKeepsTheRest
-----------------------------------------------------------------------------
\* While only listings fill the cache, an inbound missing beside others is gone.
SeenInv == rec.others /\ rec.seen = Gone => live = Gone

\* An inbound that is gone stays gone: the panel does not reuse its number.
LEMMA GoneForGood ==
  ASSUME NTypeOK, live = Gone, NNext
  PROVE  live' = Gone
<1>1. \A after : (Succeeds(after) \/ Fails(after)) => live' = live
  BY DEF Succeeds, Fails
<1>2. ASSUME NEW h \in Handlers, NEW c \in Forms, NEW enable \in BOOLEAN,
             AdminEdit(h, c, enable)
      PROVE  live' = live
  BY <1>2 DEF AdminEdit
<1>3. ASSUME NEW t \in Togglers, NEW enable \in BOOLEAN, SetEnabled(t, enable) \/ SwitchStep(t)
      PROVE  live' = live
  BY <1>1, <1>3 DEF SetEnabled, SwitchStep, SwitchPush, SwitchEnqueue
<1>4. RunnerStep => live' = live
  BY <1>1 DEF RunnerStep, TaskClaim, TaskRead, TaskPush, TaskCheck, TaskFlip, TaskGaveUp, TaskMarkFailed
<1>5. ReconcileStep => live' = live
  BY <1>1 DEF ReconcileStep, Prefetch, LoadInbound, ListNodes, SkipUnreachable, DisableMissing,
              VisitNode, DriftPush, Pushed, PushFails, Recapture, DriftWrite, AdoptWrite, DriftPending
<1>6. CertStep \/ NormStep => live' = live
  BY <1>1 DEF CertStep, CertRead, CertWrite, CertEnqueue, NormStep, NormList, NormSwap, NormRead,
              NormPush, Pushed, PushFails, NormEnqueue, ConfirmAppliedConfig
<1>7. OperatorEdits \/ OperatorSwitches \/ OperatorDeletes \/ OperatorElsewhere => live' = live
  BY DEF OperatorEdits, OperatorSwitches, OperatorDeletes, OperatorElsewhere, Operator
<1>8. CASE \E h \in Handlers : EditStep(h)
  <2>1. PICK h \in Handlers : EditStep(h)
    BY <1>8
  <2> QED BY <1>1, <2>1 DEF EditStep, AdminPush, Pushed, PushFails, AdminMarkPending, AdminEnqueue
<1> QED BY <1>2, <1>3, <1>4, <1>5, <1>6, <1>7, <1>8 DEF NNext

\* Whoever is not the cycle leaves what it has cached alone.
LEMMA OnlyCycleCaches ==
  ASSUME NNext, rec' # rec
  PROVE  ReconcileStep
BY DEF NNext, AdminEdit, SetEnabled, EditStep, AdminPush, AdminMarkPending, AdminEnqueue,
       SwitchStep, SwitchPush, SwitchEnqueue, RunnerStep, TaskClaim, TaskRead, TaskPush,
       TaskCheck, TaskFlip, TaskGaveUp, TaskMarkFailed, CertStep, CertRead, CertWrite,
       CertEnqueue, NormStep, NormList, NormSwap, NormRead, NormPush, NormEnqueue,
       ConfirmAppliedConfig, OperatorEdits, OperatorSwitches, OperatorDeletes,
       OperatorElsewhere, Operator

LEMMA StepSeen ==
  ASSUME "ownerships" \notin Parts, NTypeOK, SeenInv, [NNext]_nvars
  PROVE  SeenInv'
<1>1. live = Gone => live' = Gone
  BY GoneForGood DEF nvars
<1>2. CASE rec' = rec
  BY <1>1, <1>2 DEF SeenInv
<1>3. CASE rec' # rec
  <2>1. ReconcileStep
    BY <1>3, OnlyCycleCaches DEF nvars, actors
  <2>2. rec \in [pc : Steps.rec, n : Row, seen : Live \cup {Gone}, others : BOOLEAN]
    BY DEF NTypeOK
  <2>3. CASE Prefetch
    <3>1. Cycle(live, others) \/ Cycle(Gone, FALSE)
      BY <2>3 DEF Prefetch
    <3> QED BY <1>1, <3>1 DEF Cycle, SeenInv
  <2>4. CASE RecRest
    BY <2>4 DEF RecRest, SeenInv
  <2>5. CASE rec'.seen = rec.seen /\ rec'.others = rec.others
    BY <1>1, <2>5 DEF SeenInv
  <2>6. ~LoadInbound
    BY DEF LoadInbound
  <2>7. ListNodes \/ VisitNode => RecRest \/ (rec'.seen = rec.seen /\ rec'.others = rec.others)
    BY <2>2 DEF ListNodes, VisitNode, Reread
  <2>8. DriftPush \/ Recapture => rec'.seen = rec.seen /\ rec'.others = rec.others
    BY <2>2 DEF DriftPush, Recapture
  <2> QED BY <2>1, <2>3, <2>4, <2>5, <2>6, <2>7, <2>8
          DEF ReconcileStep, SkipUnreachable, DisableMissing, DriftWrite, AdoptWrite, DriftPending
<1> QED BY <1>2, <1>3

\* Where every user has moved to a shared client, no inbound is fetched on its own
\* and checkNodes disables a node only when its inbound is gone (LiveNodeKept):
\* the fallback of loadInbound alone is what makes a live node look missing.
THEOREM ListedLiveNodeKept ==
  ASSUME "ownerships" \notin Parts
  PROVE  NSpec => LiveNodeKept
<1>1. NInit => SeenInv
  <2> SUFFICES ASSUME NInit PROVE SeenInv
    OBVIOUS
  <2>1. rec = [pc |-> "idle", n |-> Blank, seen |-> Gone, others |-> FALSE]
    BY DEF NInit
  <2>2. ~rec.others
    BY <2>1
  <2> QED BY <2>2 DEF SeenInv
<1>2. NTypeOK /\ SeenInv /\ [NNext]_nvars => SeenInv'
  BY StepSeen
<1>3. NTypeOK /\ SeenInv /\ [NNext]_nvars
        => [rec' # rec /\ row.enabled /\ ~row'.enabled => live = Gone]_nvars
  <2> SUFFICES ASSUME NTypeOK, SeenInv, NNext, rec' # rec, row.enabled, ~row'.enabled
               PROVE  live = Gone
    OBVIOUS
  <2>1. ReconcileStep
    BY OnlyCycleCaches
  <2>2. rec.n \in Row /\ \A n \in Row : Stored(n).enabled = row.enabled
    BY DEF NTypeOK, Stored, Row
  <2>3. [rec.n EXCEPT !.state = "pending"] \in Row
    BY <2>2 DEF Row, State
  <2>4. DisableMissing
    BY <2>1, <2>2, <2>3 DEF ReconcileStep, Prefetch, LoadInbound, ListNodes, SkipUnreachable,
       VisitNode, DriftPush, Recapture, DriftWrite, AdoptWrite, DriftPending
  <2> QED BY <2>4 DEF DisableMissing, Reachable, SeenInv
<1> QED BY <1>1, <1>2, <1>3, ConfigTypeCorrect, PTL DEF NSpec, LiveNodeKept
=============================================================================
