------------------------ MODULE TrafficMeter_proofs ------------------------
(***************************************************************************)
(* Theorems about TrafficMeter: type correctness, that no client is ever   *)
(* charged for more than it carried, that a cap never cuts off a user who  *)
(* has something left, and that every byte is charged once to the client   *)
(* and once to the user.                                                   *)
(***************************************************************************)
EXTENDS TrafficMeter, TLAPS

\* The snapshot an edit is about to build on is no lower than the usage it sets.
Edits == \A w \in Workers : at[w].pc = "write" => at[w].prev >= at[w].x
TInv  == MTypeOK /\ Edits

\* What every step keeps of the workers' copies, whoever moves.
Kept(w, c) == c \in Copies /\ (c.pc = "write" => c.prev >= c.x)

\* One worker moves to a copy of the right shape, the others stay.
LEMMA MoveKeeps ==
  ASSUME TInv, NEW w \in Workers, NEW c, Kept(w, c), Move(w, c)
  PROVE  /\ at' \in [Workers -> Copies] /\ Edits'
         /\ at'[w] = c /\ \A v \in Workers : v # w => at'[v] = at[v]
  BY DEF TInv, MTypeOK, Edits, Kept, Move

\* One push moves to a copy of the right shape, the others stay.
LEMMA PutKeeps ==
  ASSUME MTypeOK, NEW x \in Pushers, NEW c \in Pushes, Put(x, c)
  PROVE  /\ push' \in [Pushers -> Pushes]
         /\ push'[x] = c /\ \A y \in Pushers : y # x => push'[y] = push[y]
  BY DEF MTypeOK, Put

\* A bound that is spent stays a natural number.
LEMMA SpendKeeps ==
  ASSUME MTypeOK, NEW b \in Bounds, Spend(b)
  PROVE  left' \in [Bounds -> Nat]
  BY DEF MTypeOK, Spend, Bounds

\* A worker at rest and an idle push have the right shape.
LEMMA RestKept == ASSUME NEW w \in Workers PROVE Kept(w, Rest) /\ Rest \in Copies
  BY DEF Kept, Rest, Copies, Blank, Usage, Meter, PollSteps, EditSteps

LEMMA DoneKept == Done \in Pushes
  BY DEF Done, Pushes, PushSteps

\* What a reading charges is not negative, and it never lowers the lifetime.
LEMMA ReadingTyped ==
  ASSUME MTypeOK, NEW m \in Meter
  PROVE  Reading(m) \in Meter /\ Delta(m) \in Nat /\ Reading(m).life = m.life + Delta(m)
  BY DEF MTypeOK, Meter, Reading, Delta, Adopts

LEMMA ChargedTyped ==
  ASSUME MTypeOK, NEW w \in Workers
  PROVE  /\ Charged(w) \in Usage /\ Life(w) \in Nat
         /\ Charged(w).life = Life(w) /\ Charged(w).start = period
         /\ Charged(w).base = IF Rolls(w) THEN Life(w) - at[w].d ELSE at[w].u.base
  <1>1. at[w] \in Copies /\ period \in Nat  BY DEF MTypeOK
  <1>2. /\ at[w].u.life \in Nat /\ at[w].u.base \in Nat /\ at[w].prev \in Nat /\ at[w].d \in Nat
    BY <1>1 DEF Copies, Usage
  <1>3. Life(w) \in Nat /\ (at[w].d # 0 => Life(w) >= at[w].d)  BY <1>2 DEF Life
  <1> QED  BY <1>1, <1>2, <1>3 DEF Charged, Usage

LEMMA EditedTyped ==
  ASSUME TInv, NEW w \in Workers, at[w].pc = "write"
  PROVE  /\ Edited(w) \in Usage /\ Edited(w).life >= at[w].u.life
         /\ Edited(w).base <= Edited(w).life
  <1>1. at[w] \in Copies /\ period \in Nat /\ at[w].prev >= at[w].x  BY DEF TInv, MTypeOK, Edits
  <1>2. at[w].u.life \in Nat /\ at[w].prev \in Nat /\ at[w].x \in Nat  BY <1>1 DEF Copies, Usage
  <1> QED  BY <1>1, <1>2 DEF Edited, Larger, Usage

\* A worker that goes on to another step than an edit's write keeps its copies.
LEMMA GoKeeps ==
  ASSUME TInv, NEW w \in Workers, NEW step \in {"idle"} \cup PollSteps \cup EditSteps,
         step # "write", Go(w, step)
  PROVE  at' \in [Workers -> Copies] /\ Edits'
  <1> DEFINE c == [at[w] EXCEPT !.pc = step]
  <1>1. at[w] \in Copies  BY DEF TInv, MTypeOK
  <1>2. c \in Copies /\ c.pc # "write"  BY <1>1 DEF Copies
  <1> QED  BY <1>2, MoveKeeps DEF Go, Kept

\* A worker that ends comes to rest.
LEMMA EndKeeps ==
  ASSUME TInv, NEW w \in Workers, End(w)
  PROVE  at' \in [Workers -> Copies] /\ Edits'
  BY RestKept, MoveKeeps DEF End

LEMMA InitTyped == ASSUME Init PROVE TInv
  <1>1. PICK s \in Starts, k \in Kinds :
          /\ usage = [life |-> s, base |-> 0, start |-> 0] /\ held = FALSE /\ snap = s
          /\ meter = [life |-> s, raw |-> s, epoch |-> IF s = 0 THEN 0 ELSE k]
          /\ desired = [head |-> Limit, on |-> TRUE, of |-> 0]
          /\ panel = [count |-> s, epoch |-> k, cap |-> 0, on |-> TRUE, of |-> 0]
          /\ carried = s
    BY DEF Init
  <1>2. /\ at = [w \in Workers |-> Rest] /\ push = [x \in Pushers |-> Done]
        /\ period = 0 /\ raised = 0 /\ upset = {}
        /\ left = [ops |-> MaxOps, resets |-> MaxResets, faults |-> MaxFaults]
    BY DEF Init
  <1>3. s \in Nat /\ k \in Nat  BY MeterAssumption
  <1>4. usage \in Usage /\ meter \in Meter /\ desired \in Desired
    BY <1>1, <1>3, MeterAssumption DEF Usage, Meter, Desired
  <1>5. panel \in [count : Nat, epoch : Nat, cap : Nat, on : BOOLEAN, of : Nat]
    BY <1>1, <1>3
  <1>6. at \in [Workers -> Copies] /\ push \in [Pushers -> Pushes]
    BY <1>2, RestKept, DoneKept
  <1>7. left \in [Bounds -> Nat]  BY <1>2, MeterAssumption DEF Bounds
  <1>8. Edits  BY <1>2 DEF Edits, Rest
  <1> QED  BY <1>1, <1>2, <1>3, <1>4, <1>5, <1>6, <1>7, <1>8 DEF TInv, MTypeOK

\* The panel's own steps.
LEMMA PanelTyped ==
  ASSUME TInv, (\E n \in Chunks : Carry(n)) \/ Deplete \/ Reset \/ Turn
  PROVE  TInv'
  <1>1. ASSUME NEW n \in Chunks, Carry(n) PROVE TInv'
    BY <1>1, MeterAssumption DEF Carry, TInv, MTypeOK, Edits
  <1>2. CASE Deplete  BY <1>2 DEF Deplete, TInv, MTypeOK, Edits, past
  <1>3. CASE Reset
    <2>1. left' \in [Bounds -> Nat]  BY <1>3, SpendKeeps DEF Reset, Bounds, TInv
    <2> DEFINE e == IF panel.epoch = 0 THEN 0 ELSE panel.epoch + 1
    <2>2. e \in Nat  BY DEF TInv, MTypeOK
    <2>3. panel' = [panel EXCEPT !.count = 0, !.epoch = e]  BY <1>3 DEF Reset
    <2>4. panel' \in [count : Nat, epoch : Nat, cap : Nat, on : BOOLEAN, of : Nat]
      <3> HIDE DEF e
      <3> QED  BY <2>2, <2>3 DEF TInv, MTypeOK
    <2> QED  BY <1>3, <2>1, <2>4 DEF Reset, TInv, MTypeOK, Edits, past
  <1>4. CASE Turn  BY <1>4 DEF Turn, TInv, MTypeOK, Edits, past, state
  <1> QED  BY <1>1, <1>2, <1>3, <1>4

\* What is left of the allowance, or 1, is never 0.
LEMMA FloorTyped ==
  ASSUME NEW u, u.life \in Nat, u.base \in Nat
  PROVE  TrafficFloor(u) \in Nat \ {0}
  BY MeterAssumption DEF TrafficFloor, Used

\* The pushes' steps.
LEMMA PushTyped ==
  ASSUME TInv, NEW x \in Pushers, Fetch(x) \/ Want(x) \/ List(x) \/ Write(x)
  PROVE  TInv'
  <1>0. push[x] \in Pushes  BY DEF TInv, MTypeOK
  <1>1. CASE Fetch(x)
    <2> DEFINE c == [Done EXCEPT !.pc = "want", !.life = usage.life, !.base = usage.base,
                                 !.on = ~held]
    <2>1. c \in Pushes  BY DEF Done, Pushes, PushSteps, TInv, MTypeOK, Usage
    <2>2. Put(x, c)  BY <1>1 DEF Fetch
    <2>3. push' \in [Pushers -> Pushes]  BY <2>1, <2>2, PutKeeps DEF TInv
    <2> QED  BY <1>1, <2>3 DEF Fetch, TInv, MTypeOK, Edits, past, state
  <1>2. CASE Want(x)
    <2> DEFINE c == [Done EXCEPT !.pc = "list"]
    <2>1. c \in Pushes  BY DEF Done, Pushes, PushSteps
    <2>2. push' \in [Pushers -> Pushes]  BY <1>2, <2>1, PutKeeps DEF TInv, Want
    <2>3. desired' \in Desired
      <3>1. push[x].life \in Nat /\ push[x].base \in Nat /\ push[x].on \in BOOLEAN
        BY <1>0 DEF Pushes
      <3>2. TrafficFloor(push[x]) \in Nat \ {0}  BY <3>1, FloorTyped
      <3> QED  BY <1>2, <3>1, <3>2 DEF Want, Desired
    <2> QED  BY <1>2, <2>2, <2>3 DEF Want, TInv, MTypeOK, Edits, past
  <1>3. CASE List(x)
    <2> DEFINE c == [Done EXCEPT !.pc = "write", !.raw = meter.raw, !.head = desired.head,
                                 !.on = desired.on, !.of = desired.of]
    <2>1. c \in Pushes  BY DEF Done, Pushes, PushSteps, TInv, MTypeOK, Meter, Desired
    <2>2. push' \in [Pushers -> Pushes]  BY <1>3, <2>1, PutKeeps DEF TInv, List
    <2> QED  BY <1>3, <2>2 DEF List, TInv, MTypeOK, Edits, past, state
  <1>4. CASE Write(x)
    <2>1. push' \in [Pushers -> Pushes]  BY <1>4, DoneKept, PutKeeps DEF TInv, Write
    <2>2. left' \in [Bounds -> Nat]
      <3>1. "faults" \in Bounds  BY DEF Bounds
      <3>2. UNCHANGED left \/ Spend("faults")  BY <1>4 DEF Write
      <3> QED  BY <3>1, <3>2, SpendKeeps DEF TInv, MTypeOK
    <2>3. panel' \in [count : Nat, epoch : Nat, cap : Nat, on : BOOLEAN, of : Nat]
      <3>1. /\ push[x].raw \in Nat /\ push[x].head \in Nat /\ push[x].on \in BOOLEAN
            /\ push[x].of \in Nat
        BY <1>0 DEF Pushes
      <3>2. PanelQuotaCap(push[x]) \in Nat  BY <3>1 DEF PanelQuotaCap
      <3> QED  BY <1>4, <3>1, <3>2 DEF Write, TInv, MTypeOK
    <2> QED  BY <1>4, <2>1, <2>2, <2>3 DEF Write, TInv, MTypeOK, Edits, past
  <1> QED  BY <1>1, <1>2, <1>3, <1>4

\* A poll or an edit that begins.
LEMMA BeginTyped ==
  ASSUME TInv, NEW w \in Workers, NEW x \in Nat, NEW step \in {"latest", "prior"},
         Begin(w, step, x)
  PROVE  TInv'
  <1> DEFINE c == [Rest EXCEPT !.pc = step, !.u = usage, !.held = held, !.x = x]
  <1>1. c \in Copies
    BY DEF Rest, Copies, Blank, Usage, Meter, PollSteps, EditSteps, TInv, MTypeOK
  <1>2. c.pc # "write"  BY DEF Rest
  <1>3. Kept(w, c)  BY <1>1, <1>2 DEF Kept
  <1>4. at' \in [Workers -> Copies] /\ Edits'  BY <1>3, MoveKeeps DEF Begin
  <1>5. left' \in [Bounds -> Nat]  BY SpendKeeps DEF Begin, Bounds, TInv
  <1>6. upset' \subseteq {"overlap", "early", "cut"}  BY DEF Begin, Crowd, TInv, MTypeOK
  <1> QED  BY <1>4, <1>5, <1>6 DEF Begin, TInv, MTypeOK, state

\* The reads of the lists and of the panel.
LEMMA ReadsTyped ==
  ASSUME TInv, NEW w \in Workers,
         \/ Latest(w, "latest", "clients") \/ Latest(w, "prior", "insert")
         \/ Clients(w, "clients", "panel") \/ Clients(w, "list", "reseed")
         \/ ReadPanel(w)
  PROVE  TInv'
  <1>0. at[w] \in Copies /\ snap \in Nat /\ meter \in Meter  BY DEF TInv, MTypeOK
  <1>1. ASSUME NEW from, NEW step \in {"clients", "insert"}, Latest(w, from, step) PROVE TInv'
    <2> DEFINE c == [at[w] EXCEPT !.pc = step, !.prev = snap]
    <2>1. c \in Copies /\ c.pc # "write"  BY <1>0 DEF Copies, PollSteps, EditSteps
    <2>2. at' \in [Workers -> Copies] /\ Edits'  BY <1>1, <2>1, MoveKeeps DEF Latest, Kept
    <2> QED  BY <1>1, <2>2 DEF Latest, TInv, MTypeOK, state, past
  <1>2. ASSUME NEW from, NEW step \in {"panel", "reseed"}, Clients(w, from, step) PROVE TInv'
    <2> DEFINE c == [at[w] EXCEPT !.pc = step, !.m = meter]
    <2>1. c \in Copies /\ c.pc # "write"  BY <1>0 DEF Copies, PollSteps, EditSteps
    <2>2. at' \in [Workers -> Copies] /\ Edits'  BY <1>2, <2>1, MoveKeeps DEF Clients, Kept
    <2> QED  BY <1>2, <2>2 DEF Clients, TInv, MTypeOK, state, past
  <1>3. CASE ReadPanel(w)
    <2> DEFINE c == [at[w] EXCEPT !.pc = "charge", !.m = Reading(at[w].m),
                       !.d = Delta(at[w].m), !.dirty = (Reading(at[w].m) # at[w].m)]
    <2>1. at[w].m \in Meter  BY <1>0 DEF Copies
    <2>2. Reading(at[w].m) \in Meter /\ Delta(at[w].m) \in Nat
      BY <2>1, ReadingTyped DEF TInv
    <2>3. c \in Copies /\ c.pc # "write"  BY <1>0, <2>2 DEF Copies, PollSteps, EditSteps
    <2>4. "charge" \in PollSteps /\ "faults" \in Bounds  BY DEF PollSteps, Bounds
    <2>5. Move(w, c) \/ Go(w, "charge")  BY <1>3 DEF ReadPanel
    <2>6. at' \in [Workers -> Copies] /\ Edits'
      BY <2>3, <2>4, <2>5, MoveKeeps, GoKeeps DEF Kept
    <2>7. left' \in [Bounds -> Nat]
      BY <1>3, <2>4, SpendKeeps DEF ReadPanel, TInv, MTypeOK
    <2> QED  BY <1>3, <2>6, <2>7 DEF ReadPanel, TInv, MTypeOK, state, past
  <1> QED  BY <1>1, <1>2, <1>3

\* What a poll charges and decides.
LEMMA ChargesTyped ==
  ASSUME TInv, NEW w \in Workers,
         Charge(w) \/ RollOver(w) \/ Resume(w) \/ Enforce(w)
  PROVE  TInv'
  <1>0. at[w] \in Copies /\ Charged(w) \in Usage  BY ChargedTyped DEF TInv, MTypeOK
  <1>f. "faults" \in Bounds  BY DEF Bounds
  <1>1. CASE Charge(w)
    <2> DEFINE c == [at[w] EXCEPT !.pc = "enforce", !.u = Charged(w)]
    <2>1. c \in Copies /\ c.pc # "write"  BY <1>0 DEF Copies, PollSteps, EditSteps
    <2>2. at' \in [Workers -> Copies] /\ Edits'  BY <1>1, <2>1, MoveKeeps DEF Charge, Kept
    <2> QED  BY <1>1, <2>2 DEF Charge, TInv, MTypeOK, state, past
  <1>2. CASE RollOver(w)
    <2> DEFINE s == IF at[w].held THEN "resume" ELSE "enforce"
               c == [at[w] EXCEPT !.pc = s, !.u = Charged(w), !.rolled = TRUE]
    <2>1. s \in PollSteps /\ s # "write"  BY DEF PollSteps
    <2>2. c \in Copies /\ c.pc # "write"  BY <1>0, <2>1 DEF Copies
    <2>3. at' \in [Workers -> Copies] /\ Edits'  BY <1>2, <2>2, MoveKeeps DEF RollOver, Kept
    <2>4. left' \in [Bounds -> Nat]  BY <1>2, <1>f, SpendKeeps DEF RollOver, TInv, MTypeOK
    <2>5. usage' \in Usage /\ upset' \subseteq {"overlap", "early", "cut"}
      BY <1>0, <1>2 DEF RollOver, TInv, MTypeOK
    <2> QED  BY <1>2, <2>3, <2>4, <2>5 DEF RollOver, TInv, MTypeOK
  <1>3. CASE Resume(w)
    <2> DEFINE c == [at[w] EXCEPT !.pc = "enforce", !.held = FALSE]
    <2>1. c \in Copies /\ c.pc # "write"  BY <1>0 DEF Copies, PollSteps, EditSteps
    <2>2. at' \in [Workers -> Copies] /\ Edits'  BY <1>3, <2>1, MoveKeeps DEF Resume, Kept
    <2> QED  BY <1>3, <2>2 DEF Resume, TInv, MTypeOK, past
  <1>4. CASE Enforce(w)
    <2>1. Go(w, "flush") \/ End(w)  BY <1>4 DEF Enforce
    <2>2. "flush" \in PollSteps  BY DEF PollSteps
    <2>3. at' \in [Workers -> Copies] /\ Edits'  BY <2>1, <2>2, GoKeeps, EndKeeps
    <2>4. held' \in BOOLEAN  BY <1>4 DEF Enforce
    <2> QED  BY <1>4, <2>3, <2>4 DEF Enforce, TInv, MTypeOK, past
  <1> QED  BY <1>1, <1>2, <1>3, <1>4

\* What a poll writes.
LEMMA FlushesTyped ==
  ASSUME TInv, NEW w \in Workers,
         FlushSnapshot(w) \/ FlushCounters(w) \/ FlushState(w)
  PROVE  TInv'
  <1>0. /\ at[w] \in Copies /\ at[w].u \in Usage /\ at[w].m \in Meter /\ at[w].u.life \in Nat
    BY DEF TInv, MTypeOK, Copies, Usage
  <1>f. "faults" \in Bounds /\ "counters" \in PollSteps /\ "state" \in PollSteps
    BY DEF Bounds, PollSteps
  <1>1. CASE FlushSnapshot(w)
    <2>1. at' \in [Workers -> Copies] /\ Edits'  BY <1>1, <1>f, GoKeeps DEF FlushSnapshot
    <2>2. left' \in [Bounds -> Nat]  BY <1>1, <1>f, SpendKeeps DEF FlushSnapshot, TInv, MTypeOK
    <2>3. snap' \in Nat  BY <1>0, <1>1 DEF FlushSnapshot, TInv, MTypeOK
    <2> QED  BY <1>1, <2>1, <2>2, <2>3 DEF FlushSnapshot, TInv, MTypeOK, past
  <1>2. CASE FlushCounters(w)
    <2>1. Go(w, "state") \/ End(w)  BY <1>2 DEF FlushCounters, AfterCounters
    <2>2. at' \in [Workers -> Copies] /\ Edits'  BY <2>1, <1>f, GoKeeps, EndKeeps
    <2>3. left' \in [Bounds -> Nat]  BY <1>2, <1>f, SpendKeeps DEF FlushCounters, TInv, MTypeOK
    <2>4. meter' \in Meter /\ upset' \subseteq {"overlap", "early", "cut"}
      BY <1>0, <1>2 DEF FlushCounters, TInv, MTypeOK
    <2> QED  BY <1>2, <2>2, <2>3, <2>4 DEF FlushCounters, TInv, MTypeOK
  <1>3. CASE FlushState(w)
    <2>1. at' \in [Workers -> Copies] /\ Edits'  BY <1>3, EndKeeps DEF FlushState
    <2>2. left' \in [Bounds -> Nat]  BY <1>3, <1>f, SpendKeeps DEF FlushState, TInv, MTypeOK
    <2>3. usage' \in Usage /\ upset' \subseteq {"overlap", "early", "cut"}
      BY <1>0, <1>3 DEF FlushState, TInv, MTypeOK
    <2> QED  BY <1>3, <2>1, <2>2, <2>3 DEF FlushState, TInv, MTypeOK
  <1> QED  BY <1>1, <1>2, <1>3

\* What an edit writes.
LEMMA EditsTyped ==
  ASSUME TInv, NEW w \in Workers,
         InsertSnapshot(w) \/ UpdateTrafficState(w) \/ Reseed(w) \/ Switch(w)
  PROVE  TInv'
  <1>0. /\ at[w] \in Copies /\ at[w].m \in Meter /\ at[w].u.life \in Nat
        /\ at[w].prev \in Nat /\ at[w].x \in Nat
    BY DEF TInv, MTypeOK, Copies, Usage
  <1>f. "faults" \in Bounds /\ "list" \in EditSteps /\ "switch" \in EditSteps
    BY DEF Bounds, EditSteps
  <1>1. CASE InsertSnapshot(w)
    <2> DEFINE b == Larger(at[w].prev, at[w].x)
               c == [at[w] EXCEPT !.pc = "write", !.prev = b]
    <2>1. b \in Nat /\ b >= at[w].x  BY <1>0 DEF Larger
    <2>2. c \in Copies /\ c.prev >= c.x  BY <1>0, <2>1 DEF Copies, PollSteps, EditSteps
    <2>3. Move(w, c) \/ End(w)  BY <1>1 DEF InsertSnapshot
    <2>4. at' \in [Workers -> Copies] /\ Edits'
      BY <2>2, <2>3, MoveKeeps, EndKeeps DEF Kept
    <2>5. left' \in [Bounds -> Nat]  BY <1>1, <1>f, SpendKeeps DEF InsertSnapshot, TInv, MTypeOK
    <2>6. snap' \in Nat  BY <1>1, <2>1 DEF InsertSnapshot, TInv, MTypeOK
    <2> QED  BY <1>1, <2>4, <2>5, <2>6 DEF InsertSnapshot, TInv, MTypeOK, past
  <1>2. CASE UpdateTrafficState(w)
    <2>1. at' \in [Workers -> Copies] /\ Edits'
      BY <1>2, <1>f, GoKeeps, EndKeeps DEF UpdateTrafficState
    <2>2. left' \in [Bounds -> Nat]
      BY <1>2, <1>f, SpendKeeps DEF UpdateTrafficState, TInv, MTypeOK
    <2>3. Edited(w) \in Usage /\ Edited(w).life >= at[w].u.life /\ Edited(w).life \in Nat
      BY <1>2, EditedTyped DEF UpdateTrafficState, Usage
    <2>4. usage' \in Usage /\ raised' \in Nat
      BY <1>0, <1>2, <2>3 DEF UpdateTrafficState, TInv, MTypeOK
    <2> QED  BY <1>2, <2>1, <2>2, <2>4 DEF UpdateTrafficState, TInv, MTypeOK
  <1>3. CASE Reseed(w)
    <2>1. at' \in [Workers -> Copies] /\ Edits'  BY <1>3, <1>f, GoKeeps DEF Reseed
    <2>2. left' \in [Bounds -> Nat]  BY <1>3, <1>f, SpendKeeps DEF Reseed, TInv, MTypeOK
    <2>3. meter' \in Meter  BY <1>0, <1>3 DEF Reseed, TInv, MTypeOK
    <2> QED  BY <1>3, <2>1, <2>2, <2>3 DEF Reseed, TInv, MTypeOK, past
  <1>4. CASE Switch(w)
    <2>1. at' \in [Workers -> Copies] /\ Edits'  BY <1>4, EndKeeps DEF Switch
    <2>2. held' = held \/ held' = (at[w].x >= Limit)  BY <1>4 DEF Switch
    <2>3. held' \in BOOLEAN
      <3>1. CASE held' = held  BY <3>1 DEF TInv, MTypeOK
      <3>2. CASE held' = (at[w].x >= Limit)
        <4>1. (at[w].x >= Limit) \in BOOLEAN  OBVIOUS
        <4> QED  BY <3>2, <4>1, Zenon
      <3> QED  BY <2>2, <3>1, <3>2
    <2> QED  BY <1>4, <2>1, <2>3 DEF Switch, TInv, MTypeOK, past
  <1> QED  BY <1>1, <1>2, <1>3, <1>4

LEMMA CrashTyped == ASSUME TInv, Crash PROVE TInv'
  <1>1. at' \in [Workers -> Copies] /\ Edits'
    <2>1. Rest \in Copies /\ Rest.pc # "write"
      BY DEF Rest, Copies, Blank, Usage, Meter, PollSteps, EditSteps
    <2> QED  BY <2>1 DEF Crash, Edits
  <1>2. push' \in [Pushers -> Pushes]  BY DoneKept DEF Crash
  <1>3. left' \in [Bounds -> Nat]  BY SpendKeeps DEF Crash, TInv, Bounds
  <1>4. upset' \subseteq {"overlap", "early", "cut"}  BY DEF Crash, TInv, MTypeOK
  <1> QED  BY <1>1, <1>2, <1>3, <1>4 DEF Crash, TInv, MTypeOK, state

\* Every step keeps the types.
LEMMA StepTyped == ASSUME TInv, [Next]_vars PROVE TInv'
  <1>1. CASE (\E n \in Chunks : Carry(n)) \/ Deplete \/ Reset \/ Turn  BY <1>1, PanelTyped
  <1>2. ASSUME NEW x \in Pushers, Fetch(x) \/ Want(x) \/ List(x) \/ Write(x) PROVE TInv'
    BY <1>2, PushTyped
  <1>3. ASSUME NEW w \in Workers, Poll(w) PROVE TInv'
    <2>1. CASE PollOnce(w)  BY <2>1, BeginTyped DEF PollOnce
    <2>2. CASE Latest(w, "latest", "clients") \/ Clients(w, "clients", "panel") \/ ReadPanel(w)
      BY <2>2, ReadsTyped
    <2>3. CASE Charge(w) \/ RollOver(w) \/ Resume(w) \/ Enforce(w)  BY <2>3, ChargesTyped
    <2>4. CASE FlushSnapshot(w) \/ FlushCounters(w) \/ FlushState(w)  BY <2>4, FlushesTyped
    <2> QED  BY <1>3, <2>1, <2>2, <2>3, <2>4 DEF Poll
  <1>4. ASSUME NEW w \in Workers, Edit(w) PROVE TInv'
    <2>1. CASE SetPeriodUsage(w)
      <3>1. PICK x \in Amounts : Begin(w, "prior", x)  BY <2>1 DEF SetPeriodUsage
      <3>2. x \in Nat  BY MeterAssumption
      <3> QED  BY <3>1, <3>2, BeginTyped
    <2>2. CASE Latest(w, "prior", "insert") \/ Clients(w, "list", "reseed")
      BY <2>2, ReadsTyped
    <2>3. CASE InsertSnapshot(w) \/ UpdateTrafficState(w) \/ Reseed(w) \/ Switch(w)
      BY <2>3, EditsTyped
    <2> QED  BY <1>4, <2>1, <2>2, <2>3 DEF Edit
  <1>5. CASE Crash  BY <1>5, CrashTyped
  <1>6. CASE UNCHANGED vars  BY <1>6 DEF vars, state, past, TInv, MTypeOK, Edits
  <1> QED  BY <1>1, <1>2, <1>3, <1>4, <1>5, <1>6 DEF Next

LEMMA AlwaysTyped == Spec => []TInv
  BY InitTyped, StepTyped, PTL DEF Spec

\* Rows, copies and history keep their shape, and no counter is negative, whatever
\* overlaps and fails.
THEOREM MeterTypeCorrect == Spec => []MTypeOK
  <1>1. TInv => MTypeOK  BY DEF TInv
  <1> QED  BY <1>1, AlwaysTyped, PTL
-----------------------------------------------------------------------------
\* No copy of the client's counters, in the row or with a worker, can end up above what
\* the client carried, even if the panel's whole counter is charged on top of it.
Unread(c)   == IF panel.count >= c.raw THEN panel.count - c.raw ELSE panel.count
Covered(c)  == c.life + Unread(c) <= carried
Fair        == panel.count <= carried /\ Covered(meter) /\ \A w \in Workers : Covered(at[w].m)
CInv        == TInv /\ Fair

\* A worker's counters after a step: its own, the row's, none, or its own read anew.
NewCounters(v) ==
  \/ at'[v].m = at[v].m \/ at'[v].m = meter \/ at'[v].m = Rest.m
  \/ at'[v].m = Reading(at[v].m)

\* What every step but Carry and Reset does to the counters.
Recorded ==
  /\ panel'.count = panel.count /\ UNCHANGED carried
  /\ meter' = meter \/ \E w \in Workers : meter' = at[w].m
  /\ \A v \in Workers : NewCounters(v)

\* Counters at rest and the row's counters are covered, and a reading keeps them so.
LEMMA CountersCovered ==
  ASSUME CInv
  PROVE  /\ Covered(Rest.m)
         /\ \A m \in Meter : Covered(m) => Covered(Reading(m))
  <1>1. panel.count \in Nat /\ carried \in Nat /\ panel.epoch \in Nat  BY DEF CInv, TInv, MTypeOK
  <1>2. Covered(Rest.m)  BY <1>1 DEF Covered, Unread, Rest, CInv, Fair
  <1>3. ASSUME NEW m \in Meter, Covered(m) PROVE Covered(Reading(m))
    <2>1. m.life \in Nat /\ m.raw \in Nat  BY DEF Meter
    <2>2. Delta(m) \in Nat /\ Delta(m) <= Unread(m)
      BY <1>1, <2>1 DEF Delta, Unread, Adopts
    <2>3. CASE Adopts(m) \/ m.raw = 0 \/ Delta(m) > 0
      <3>1. Reading(m).life = m.life + Delta(m) /\ Reading(m).raw = panel.count
        BY <2>3 DEF Reading
      <3> QED  BY <1>1, <1>3, <2>1, <2>2, <3>1 DEF Covered, Unread
    <2>4. CASE ~(Adopts(m) \/ m.raw = 0 \/ Delta(m) > 0)  BY <1>3, <2>4 DEF Reading
    <2> QED  BY <2>3, <2>4
  <1> QED  BY <1>2, <1>3

\* A step that only records keeps every copy covered.
LEMMA RecordingFair == ASSUME CInv, Recorded PROVE Fair'
  <1>1. Covered(Rest.m) /\ \A m \in Meter : Covered(m) => Covered(Reading(m))
    BY CountersCovered
  <1>2. \A w \in Workers : at[w].m \in Meter /\ Covered(at[w].m)
    BY DEF CInv, TInv, MTypeOK, Copies, Fair
  <1>3. panel'.count = panel.count /\ carried' = carried  BY DEF Recorded
  <1>4. ASSUME NEW v \in Workers PROVE Covered(at[v].m)'
    <2>1. Covered(at'[v].m)  BY <1>1, <1>2 DEF Recorded, NewCounters, CInv, Fair
    <2> QED  BY <1>3, <2>1 DEF Covered, Unread
  <1>5. Covered(meter)'
    <2>1. Covered(meter')  BY <1>2 DEF Recorded, CInv, Fair
    <2> QED  BY <1>3, <2>1 DEF Covered, Unread
  <1> QED  BY <1>3, <1>4, <1>5 DEF CInv, Fair

\* A worker that moves leaves the counters of the others alone.
LEMMA MoveCounters ==
  ASSUME TInv, NEW w \in Workers, NEW c, Move(w, c),
         \/ c.m = at[w].m \/ c.m = meter \/ c.m = Rest.m \/ c.m = Reading(at[w].m)
  PROVE  \A v \in Workers : NewCounters(v)
  BY DEF TInv, MTypeOK, Move, NewCounters

LEMMA GoCounters ==
  ASSUME TInv, NEW w \in Workers, NEW step, Go(w, step)
  PROVE  \A v \in Workers : NewCounters(v)
  <1> DEFINE c == [at[w] EXCEPT !.pc = step]
  <1>1. c.m = at[w].m  BY DEF TInv, MTypeOK, Copies
  <1> QED  BY <1>1, MoveCounters DEF Go

LEMMA EndCounters ==
  ASSUME TInv, NEW w \in Workers, End(w)
  PROVE  \A v \in Workers : NewCounters(v)
  BY MoveCounters DEF End

\* The poll's steps only record.
LEMMA PollRecords == ASSUME TInv, NEW w \in Workers, Poll(w) PROVE Recorded
  <1>0. at[w] \in Copies  BY DEF TInv, MTypeOK
  <1>1. CASE PollOnce(w)
    <2> DEFINE c == [Rest EXCEPT !.pc = "latest", !.u = usage, !.held = held, !.x = 0]
    <2>1. c.m = Rest.m  BY DEF Rest
    <2> QED  BY <1>1, <2>1, MoveCounters DEF PollOnce, Begin, Recorded, state
  <1>2. CASE Latest(w, "latest", "clients")
    <2> DEFINE c == [at[w] EXCEPT !.pc = "clients", !.prev = snap]
    <2>1. c.m = at[w].m  BY <1>0 DEF Copies
    <2> QED  BY <1>2, <2>1, MoveCounters DEF Latest, Recorded, state, past
  <1>3. CASE Clients(w, "clients", "panel")
    <2> DEFINE c == [at[w] EXCEPT !.pc = "panel", !.m = meter]
    <2>1. c.m = meter  BY <1>0 DEF Copies
    <2> QED  BY <1>3, <2>1, MoveCounters DEF Clients, Recorded, state, past
  <1>4. CASE ReadPanel(w)
    <2> DEFINE c == [at[w] EXCEPT !.pc = "charge", !.m = Reading(at[w].m),
                       !.d = Delta(at[w].m), !.dirty = (Reading(at[w].m) # at[w].m)]
    <2>1. c.m = Reading(at[w].m)  BY <1>0 DEF Copies
    <2>2. Move(w, c) \/ Go(w, "charge")  BY <1>4 DEF ReadPanel
    <2>3. \A v \in Workers : NewCounters(v)  BY <2>1, <2>2, MoveCounters, GoCounters
    <2> QED  BY <1>4, <2>3 DEF ReadPanel, Recorded, state, past
  <1>5. CASE Charge(w)
    <2> DEFINE c == [at[w] EXCEPT !.pc = "enforce", !.u = Charged(w)]
    <2>1. c.m = at[w].m  BY <1>0 DEF Copies
    <2> QED  BY <1>5, <2>1, MoveCounters DEF Charge, Recorded, state, past
  <1>6. CASE RollOver(w)
    <2> DEFINE c == [at[w] EXCEPT !.pc = IF at[w].held THEN "resume" ELSE "enforce",
                                  !.u = Charged(w), !.rolled = TRUE]
    <2>1. c.m = at[w].m  BY <1>0 DEF Copies
    <2> QED  BY <1>6, <2>1, MoveCounters DEF RollOver, Recorded
  <1>7. CASE Resume(w)
    <2> DEFINE c == [at[w] EXCEPT !.pc = "enforce", !.held = FALSE]
    <2>1. c.m = at[w].m  BY <1>0 DEF Copies
    <2> QED  BY <1>7, <2>1, MoveCounters DEF Resume, Recorded, past
  <1>8. CASE Enforce(w)
    <2>1. Go(w, "flush") \/ End(w)  BY <1>8 DEF Enforce
    <2>2. \A v \in Workers : NewCounters(v)  BY <2>1, GoCounters, EndCounters
    <2> QED  BY <1>8, <2>2 DEF Enforce, Recorded, past
  <1>9. CASE FlushSnapshot(w)
    BY <1>9, GoCounters DEF FlushSnapshot, Recorded, past
  <1>10. CASE FlushCounters(w)
    <2>1. Go(w, "state") \/ End(w)  BY <1>10 DEF FlushCounters, AfterCounters
    <2>2. \A v \in Workers : NewCounters(v)  BY <2>1, GoCounters, EndCounters
    <2> QED  BY <1>10, <2>2 DEF FlushCounters, Recorded
  <1>11. CASE FlushState(w)
    BY <1>11, EndCounters DEF FlushState, Recorded
  <1> QED
    BY <1>1, <1>2, <1>3, <1>4, <1>5, <1>6, <1>7, <1>8, <1>9, <1>10, <1>11 DEF Poll

\* The edit's steps only record.
LEMMA EditRecords == ASSUME TInv, NEW w \in Workers, Edit(w) PROVE Recorded
  <1>0. at[w] \in Copies  BY DEF TInv, MTypeOK
  <1>1. CASE SetPeriodUsage(w)
    <2>1. PICK x \in Amounts : Begin(w, "prior", x)  BY <1>1 DEF SetPeriodUsage
    <2> DEFINE c == [Rest EXCEPT !.pc = "prior", !.u = usage, !.held = held, !.x = x]
    <2>2. c.m = Rest.m  BY DEF Rest
    <2> QED  BY <2>1, <2>2, MoveCounters DEF Begin, Recorded, state
  <1>2. CASE Latest(w, "prior", "insert")
    <2> DEFINE c == [at[w] EXCEPT !.pc = "insert", !.prev = snap]
    <2>1. c.m = at[w].m  BY <1>0 DEF Copies
    <2> QED  BY <1>2, <2>1, MoveCounters DEF Latest, Recorded, state, past
  <1>3. CASE InsertSnapshot(w)
    <2> DEFINE c == [at[w] EXCEPT !.pc = "write", !.prev = Larger(at[w].prev, at[w].x)]
    <2>1. c.m = at[w].m  BY <1>0 DEF Copies
    <2>2. Move(w, c) \/ End(w)  BY <1>3 DEF InsertSnapshot
    <2>3. \A v \in Workers : NewCounters(v)  BY <2>1, <2>2, MoveCounters, EndCounters
    <2> QED  BY <1>3, <2>3 DEF InsertSnapshot, Recorded, past
  <1>4. CASE UpdateTrafficState(w)
    <2>1. Go(w, "list") \/ End(w)  BY <1>4 DEF UpdateTrafficState
    <2>2. \A v \in Workers : NewCounters(v)  BY <2>1, GoCounters, EndCounters
    <2> QED  BY <1>4, <2>2 DEF UpdateTrafficState, Recorded
  <1>5. CASE Clients(w, "list", "reseed")
    <2> DEFINE c == [at[w] EXCEPT !.pc = "reseed", !.m = meter]
    <2>1. c.m = meter  BY <1>0 DEF Copies
    <2> QED  BY <1>5, <2>1, MoveCounters DEF Clients, Recorded, state, past
  <1>6. CASE Reseed(w)  BY <1>6, GoCounters DEF Reseed, Recorded, past
  <1>7. CASE Switch(w)  BY <1>7, EndCounters DEF Switch, Recorded, past
  <1> QED  BY <1>1, <1>2, <1>3, <1>4, <1>5, <1>6, <1>7 DEF Edit

\* The pushes, the sweep, the calendar and a crash only record as well.
LEMMA OthersRecord ==
  ASSUME TInv, Deplete \/ Turn \/ Crash
               \/ (\E x \in Pushers : Fetch(x) \/ Want(x) \/ List(x) \/ Write(x))
               \/ UNCHANGED vars
  PROVE  Recorded
  <1>0. /\ panel \in [count : Nat, epoch : Nat, cap : Nat, on : BOOLEAN, of : Nat]
    BY DEF TInv, MTypeOK
  <1>1. CASE Deplete  BY <1>0, <1>1 DEF Deplete, Recorded, NewCounters, past
  <1>2. CASE Turn  BY <1>2 DEF Turn, Recorded, NewCounters, past, state
  <1>3. CASE Crash
    <2>1. \A v \in Workers : at'[v].m = Rest.m  BY <1>3 DEF Crash
    <2> QED  BY <1>3, <2>1 DEF Crash, Recorded, NewCounters, state
  <1>4. ASSUME NEW x \in Pushers, Fetch(x) \/ Want(x) \/ List(x) \/ Write(x) PROVE Recorded
    <2>1. panel'.count = panel.count
      BY <1>0, <1>4 DEF Fetch, Want, List, Write, state
    <2>2. UNCHANGED <<carried, meter, at>>
      BY <1>4 DEF Fetch, Want, List, Write, state, past
    <2> QED  BY <2>1, <2>2 DEF Recorded, NewCounters
  <1>5. CASE UNCHANGED vars  BY <1>5 DEF vars, state, past, Recorded, NewCounters
  <1> QED  BY <1>1, <1>2, <1>3, <1>4, <1>5

\* The client carries, or its counter goes back.
LEMMA CountingFair ==
  ASSUME CInv, (\E n \in Chunks : Carry(n)) \/ Reset
  PROVE  Fair'
  <1>0. /\ panel \in [count : Nat, epoch : Nat, cap : Nat, on : BOOLEAN, of : Nat]
        /\ carried \in Nat /\ meter \in Meter /\ \A w \in Workers : at[w].m \in Meter
    BY DEF CInv, TInv, MTypeOK, Copies
  <1>1. UNCHANGED <<meter, at>>  BY DEF Carry, Reset
  <1>2. ASSUME NEW n \in Chunks, Carry(n) PROVE Fair'
    <2>1. n \in Nat  BY MeterAssumption
    <2>2. panel'.count = panel.count + n /\ carried' = carried + n  BY <1>0, <1>2 DEF Carry
    <2>3. ASSUME NEW m \in Meter, Covered(m)
          PROVE  m.life + (IF panel'.count >= m.raw THEN panel'.count - m.raw
                           ELSE panel'.count) <= carried'
      <3>1. m.life \in Nat /\ m.raw \in Nat  BY DEF Meter
      <3> QED  BY <1>0, <2>1, <2>2, <2>3, <3>1 DEF Covered, Unread
    <2> QED  BY <1>0, <1>1, <2>1, <2>2, <2>3 DEF CInv, Fair, Covered, Unread
  <1>3. CASE Reset
    <2>1. panel'.count = 0 /\ carried' = carried  BY <1>0, <1>3 DEF Reset, past
    <2>2. ASSUME NEW m \in Meter, Covered(m)
          PROVE  m.life + (IF panel'.count >= m.raw THEN panel'.count - m.raw
                           ELSE panel'.count) <= carried'
      <3>1. m.life \in Nat /\ m.raw \in Nat  BY DEF Meter
      <3> QED  BY <1>0, <2>1, <2>2, <3>1 DEF Covered, Unread
    <2> QED  BY <1>0, <1>1, <2>1, <2>2 DEF CInv, Fair, Covered, Unread
  <1> QED  BY <1>2, <1>3

LEMMA InitFair == ASSUME Init PROVE CInv
  <1>1. TInv  BY InitTyped
  <1>2. PICK s \in Starts, k \in Kinds :
          /\ meter = [life |-> s, raw |-> s, epoch |-> IF s = 0 THEN 0 ELSE k]
          /\ panel = [count |-> s, epoch |-> k, cap |-> 0, on |-> TRUE, of |-> 0]
          /\ carried = s /\ at = [w \in Workers |-> Rest]
    BY DEF Init
  <1>3. s \in Nat  BY MeterAssumption
  <1> QED  BY <1>1, <1>2, <1>3 DEF CInv, Fair, Covered, Unread, Rest

LEMMA StepFair == ASSUME CInv, [Next]_vars PROVE CInv'
  <1>1. TInv'  BY StepTyped DEF CInv
  <1>2. Fair'
    <2>1. CASE (\E n \in Chunks : Carry(n)) \/ Reset  BY <2>1, CountingFair
    <2>2. CASE Deplete \/ Turn \/ Crash
               \/ (\E x \in Pushers : Fetch(x) \/ Want(x) \/ List(x) \/ Write(x))
               \/ UNCHANGED vars
      BY <2>2, OthersRecord, RecordingFair DEF CInv
    <2>3. ASSUME NEW w \in Workers, Poll(w) \/ Edit(w) PROVE Fair'
      BY <2>3, PollRecords, EditRecords, RecordingFair DEF CInv
    <2> QED  BY <2>1, <2>2, <2>3 DEF Next
  <1> QED  BY <1>1, <1>2 DEF CInv

\* The client is never charged for more than it carried: however polls and edits
\* overlap, whichever writes fail and whenever the counter goes back or the process stops.
THEOREM NeverOvercharged == Spec => []ClientNeverOvercharged
  <1>1. CInv => ClientNeverOvercharged
    <2> SUFFICES ASSUME CInv PROVE ClientNeverOvercharged  OBVIOUS
    <2>1. /\ meter.life \in Nat /\ meter.raw \in Nat /\ panel.count \in Nat /\ carried \in Nat
      BY DEF CInv, TInv, MTypeOK, Meter
    <2> QED  BY <2>1 DEF CInv, Fair, Covered, Unread, ClientNeverOvercharged
  <1> QED  BY <1>1, InitFair, StepFair, PTL DEF Spec
-----------------------------------------------------------------------------
\* Nothing has upset the order of the writes but cut flushes.
Calm == upset \subseteq {"cut"}

\* One poll or edit at a time.
Alone ==
  \A v, w \in Workers : at[v].pc # "idle" /\ at[w].pc # "idle" => v = w

\* The user is charged nothing the client is not, but for what administrators added.
Row ==
  usage.life > 0 /\ usage.base <= usage.life /\ usage.life <= meter.life + raised

\* What a worker's copies are worth, step by step.
Copied(w) ==
  /\ at[w].pc \in {"latest", "clients", "panel", "charge", "prior", "insert", "write"} =>
       at[w].u.life = usage.life /\ at[w].u.base <= at[w].u.life
  /\ at[w].pc \in {"panel", "reseed"} => at[w].m.life = meter.life
  /\ at[w].pc \in {"panel", "latest", "clients"} => at[w].d = 0
  /\ at[w].pc \in {"charge", "resume", "enforce", "flush", "counters"} =>
       at[w].m.life = meter.life + at[w].d
  /\ at[w].pc \in {"resume", "enforce", "flush", "counters", "state"} =>
       /\ usage.life <= at[w].u.life /\ at[w].u.base <= at[w].u.life
       /\ at[w].u.life <= at[w].m.life + raised
  /\ at[w].pc = "state" => at[w].m.life = meter.life

\* An intent allows no less than the allowance, and a push no less than the intent.
Allows == desired.head + usage.life >= Limit + desired.of
Pushed(x) ==
  /\ push[x].pc = "want" => push[x].base <= push[x].life /\ push[x].life <= usage.life
  /\ push[x].pc = "write" =>
       push[x].raw + push[x].head + carried + raised >= Limit + push[x].of + panel.count
Capped == panel.cap # 0 => panel.cap + carried + raised >= Limit + panel.of + panel.count

Caps  == Allows /\ Capped /\ \A x \in Pushers : Pushed(x)
Sound == Alone /\ Row /\ Caps /\ \A w \in Workers : Copied(w)
QInv  == CInv /\ (Calm => Sound)

\* The counters, copies and bounds are natural numbers.
LEMMA Numbers ==
  ASSUME TInv
  PROVE  /\ usage.life \in Nat /\ usage.base \in Nat /\ meter.life \in Nat /\ meter.raw \in Nat
         /\ panel.count \in Nat /\ panel.cap \in Nat /\ panel.of \in Nat
         /\ carried \in Nat /\ raised \in Nat /\ desired.head \in Nat /\ desired.of \in Nat
         /\ Limit \in Nat
         /\ \A w \in Workers :
              /\ at[w].u.life \in Nat /\ at[w].u.base \in Nat /\ at[w].m.life \in Nat
              /\ at[w].m.raw \in Nat /\ at[w].d \in Nat /\ at[w].prev \in Nat /\ at[w].x \in Nat
         /\ \A x \in Pushers :
              /\ push[x].life \in Nat /\ push[x].base \in Nat /\ push[x].raw \in Nat
              /\ push[x].head \in Nat /\ push[x].of \in Nat
  <1>1. /\ usage \in Usage /\ meter \in Meter /\ desired \in Desired
        /\ panel \in [count : Nat, epoch : Nat, cap : Nat, on : BOOLEAN, of : Nat]
        /\ carried \in Nat /\ raised \in Nat
        /\ \A w \in Workers : at[w] \in Copies
        /\ \A x \in Pushers : push[x] \in Pushes
    BY DEF TInv, MTypeOK
  <1>2. \A w \in Workers : at[w].u \in Usage /\ at[w].m \in Meter /\ at[w].d \in Nat
                           /\ at[w].prev \in Nat /\ at[w].x \in Nat
    BY <1>1 DEF Copies
  <1>3. \A x \in Pushers :
          /\ push[x].life \in Nat /\ push[x].base \in Nat /\ push[x].raw \in Nat
          /\ push[x].head \in Nat /\ push[x].of \in Nat
    BY <1>1 DEF Pushes
  <1> QED  BY <1>1, <1>2, <1>3, MeterAssumption DEF Usage, Meter, Desired

\* What has upset the order once stays on record.
LEMMA UpsetGrows == ASSUME [Next]_vars PROVE upset \subseteq upset'
  <1>1. ASSUME NEW n \in Chunks, Carry(n) PROVE upset \subseteq upset'  BY <1>1 DEF Carry
  <1>2. CASE Deplete \/ Reset \/ Turn  BY <1>2 DEF Deplete, Reset, Turn, past
  <1>3. ASSUME NEW x \in Pushers, Fetch(x) \/ Want(x) \/ List(x) \/ Write(x)
        PROVE  upset \subseteq upset'
    BY <1>3 DEF Fetch, Want, List, Write, past
  <1>4. ASSUME NEW w \in Workers, Poll(w) PROVE upset \subseteq upset'
    BY <1>4 DEF Poll, PollOnce, Begin, Latest, Clients, ReadPanel, Charge, RollOver, Resume,
                Enforce, FlushSnapshot, FlushCounters, FlushState, past
  <1>5. ASSUME NEW w \in Workers, Edit(w) PROVE upset \subseteq upset'
    BY <1>5 DEF Edit, SetPeriodUsage, Begin, Latest, Clients, InsertSnapshot,
                UpdateTrafficState, Reseed, Switch, past
  <1>6. CASE Crash  BY <1>6 DEF Crash
  <1>7. CASE UNCHANGED vars  BY <1>7 DEF vars, past
  <1> QED  BY <1>1, <1>2, <1>3, <1>4, <1>5, <1>6, <1>7 DEF Next

LEMMA CalmBefore == ASSUME [Next]_vars, Calm' PROVE Calm
  BY UpsetGrows DEF Calm

\* When the usage only grows, what was pushed and what the panel has still allow enough.
LEMMA GrowthKeepsCaps ==
  ASSUME TInv, Caps, UNCHANGED <<push, desired, panel, carried>>,
         usage'.life \in Nat, raised' \in Nat, usage'.life >= usage.life, raised' >= raised
  PROVE  Caps'
  <1> USE Numbers
  <1>1. Allows'  BY DEF Caps, Allows
  <1>2. Capped'  BY DEF Caps, Capped
  <1>3. \A x \in Pushers : Pushed(x)'  BY DEF Caps, Pushed
  <1> QED  BY <1>1, <1>2, <1>3 DEF Caps

\* A worker that is alone moves: what it leaves behind is sound if its own copies are.
LEMMA MoveSound ==
  ASSUME TInv, Sound, NEW w \in Workers, NEW c, Move(w, c),
         \A v \in Workers : v # w => at[v].pc = "idle",
         at'[w] = c => Copied(w)', Row', Caps'
  PROVE  Sound'
  <1>1. at'[w] = c /\ \A v \in Workers : v # w => at'[v].pc = "idle"
    BY DEF TInv, MTypeOK, Move
  <1>2. Alone'  BY <1>1 DEF Alone
  <1>3. \A v \in Workers : Copied(v)'  BY <1>1 DEF Copied
  <1> QED  BY <1>1, <1>2, <1>3 DEF Sound

\* Whoever is at work is alone.
LEMMA OthersIdle ==
  ASSUME Sound, NEW w \in Workers, at[w].pc # "idle"
  PROVE  \A v \in Workers : v # w => at[v].pc = "idle"
  BY DEF Sound, Alone

\* A step that only moves a worker: its new copies have to be sound.
LEMMA QuietMoveSound ==
  ASSUME TInv, Sound, NEW w \in Workers, NEW c, Move(w, c), at[w].pc # "idle",
         at'[w] = c => Copied(w)', UNCHANGED <<usage, meter, raised, push, desired, panel, carried>>
  PROVE  Sound'
  <1>1. Row'  BY DEF Sound, Row
  <1>2. Caps'  BY Numbers, GrowthKeepsCaps DEF Sound
  <1> QED  BY <1>1, <1>2, OthersIdle, MoveSound

\* A worker may end at any time.
LEMMA EndSound ==
  ASSUME TInv, Sound, NEW w \in Workers, End(w), at[w].pc # "idle",
         UNCHANGED <<usage, meter, raised, push, desired, panel, carried>>
  PROVE  Sound'
  <1>1. at'[w] = Rest => Copied(w)'  BY DEF Copied, Rest
  <1> QED  BY <1>1, QuietMoveSound DEF End

\* A worker that takes another step and keeps its copies has the same ones.
LEMMA GoCopies ==
  ASSUME TInv, NEW w \in Workers, NEW step, NEW c, c = [at[w] EXCEPT !.pc = step]
  PROVE  c.pc = step /\ c.u = at[w].u /\ c.m = at[w].m /\ c.d = at[w].d
  BY DEF TInv, MTypeOK, Copies

\* The first step of a poll or an edit.
LEMMA BeginSound ==
  ASSUME TInv, Sound, Calm', NEW w \in Workers, NEW x \in Nat,
         NEW step \in {"latest", "prior"}, Begin(w, step, x)
  PROVE  Sound'
  <1> DEFINE c == [Rest EXCEPT !.pc = step, !.u = usage, !.held = held, !.x = x]
  <1>1. Quiet  BY DEF Calm, Begin, Crowd
  <1>2. c.pc = step /\ c.u = usage /\ c.d = 0  BY DEF Rest
  <1>3. Move(w, c)  BY DEF Begin
  <1>4. UNCHANGED <<usage, meter, raised, push, desired, panel, carried>>  BY DEF Begin, state
  <1>5. Row' /\ Caps'  BY <1>4, Numbers, GrowthKeepsCaps DEF Sound, Row
  <1> HIDE DEF c
  <1>6. at'[w] = c => Copied(w)'  BY <1>2, <1>4 DEF Copied, Sound, Row
  <1> QED  BY <1>1, <1>3, <1>5, <1>6, MoveSound DEF Quiet

\* The reads of the lists and of the panel.
LEMMA ReadsSound ==
  ASSUME TInv, Sound, NEW w \in Workers,
         \/ Latest(w, "latest", "clients") \/ Latest(w, "prior", "insert")
         \/ Clients(w, "clients", "panel") \/ Clients(w, "list", "reseed")
         \/ ReadPanel(w)
  PROVE  Sound'
  <1>0. at[w] \in Copies /\ Copied(w)  BY DEF TInv, MTypeOK, Sound
  <1>u. UNCHANGED <<usage, meter, raised, push, desired, panel, carried>> /\ at[w].pc # "idle"
    BY DEF Latest, Clients, ReadPanel, state, past
  <1>1. ASSUME NEW from, NEW step, Latest(w, from, step),
               <<from, step>> \in {<<"latest", "clients">>, <<"prior", "insert">>}
        PROVE  Sound'
    <2> DEFINE c == [at[w] EXCEPT !.pc = step, !.prev = snap]
    <2>1. c.pc = step /\ c.u = at[w].u /\ c.m = at[w].m /\ c.d = at[w].d  BY <1>0 DEF Copies
    <2>2. Move(w, c)  BY <1>1 DEF Latest
    <2> HIDE DEF c
    <2>3. at'[w] = c => Copied(w)'  BY <1>0, <1>u, <1>1, <2>1 DEF Copied, Latest
    <2> QED  BY <1>u, <2>2, <2>3, QuietMoveSound
  <1>2. ASSUME NEW from, NEW step, Clients(w, from, step),
               <<from, step>> \in {<<"clients", "panel">>, <<"list", "reseed">>}
        PROVE  Sound'
    <2> DEFINE c == [at[w] EXCEPT !.pc = step, !.m = meter]
    <2>1. c.pc = step /\ c.u = at[w].u /\ c.m = meter /\ c.d = at[w].d  BY <1>0 DEF Copies
    <2>2. Move(w, c)  BY <1>2 DEF Clients
    <2> HIDE DEF c
    <2>3. at'[w] = c => Copied(w)'  BY <1>0, <1>u, <1>2, <2>1 DEF Copied, Clients
    <2> QED  BY <1>u, <2>2, <2>3, QuietMoveSound
  <1>3. CASE ReadPanel(w)
    <2>0. at[w].pc = "panel" /\ at[w].m \in Meter  BY <1>0, <1>3 DEF ReadPanel, Copies
    <2>1. Reading(at[w].m).life = at[w].m.life + Delta(at[w].m)  BY <2>0, ReadingTyped DEF TInv
    <2> DEFINE c == [at[w] EXCEPT !.pc = "charge", !.m = Reading(at[w].m),
                       !.d = Delta(at[w].m), !.dirty = (Reading(at[w].m) # at[w].m)]
               g == [at[w] EXCEPT !.pc = "charge"]
    <2>2. c.pc = "charge" /\ c.u = at[w].u /\ c.m = Reading(at[w].m) /\ c.d = Delta(at[w].m)
      BY <1>0 DEF Copies
    <2>3. g.pc = "charge" /\ g.u = at[w].u /\ g.m = at[w].m /\ g.d = at[w].d  BY GoCopies
    <2>4. Move(w, c) \/ Move(w, g)  BY <1>3 DEF ReadPanel, Go
    <2> HIDE DEF c, g
    <2>5. at'[w] = c => Copied(w)'  BY <1>0, <1>u, <2>0, <2>1, <2>2 DEF Copied
    <2>6. at'[w] = g => Copied(w)'  BY <1>0, <1>u, <2>0, <2>3, Numbers DEF Copied
    <2> QED  BY <1>u, <2>4, <2>5, <2>6, QuietMoveSound
  <1> QED  BY <1>1, <1>2, <1>3

\* What a poll charges and decides.
LEMMA ChargesSound ==
  ASSUME TInv, Sound, Calm', NEW w \in Workers,
         Charge(w) \/ RollOver(w) \/ Resume(w) \/ Enforce(w)
  PROVE  Sound'
  <1>0. at[w] \in Copies /\ Copied(w)  BY DEF TInv, MTypeOK, Sound
  <1>c. at[w].pc = "charge" =>
          /\ Charged(w).life = usage.life + at[w].d
          /\ Charged(w).base <= Charged(w).life
    <2>1. SUFFICES ASSUME at[w].pc = "charge"
                   PROVE  /\ Charged(w).life = usage.life + at[w].d
                          /\ Charged(w).base <= Charged(w).life
      OBVIOUS
    <2>2. usage.life > 0 /\ at[w].u.life = usage.life /\ at[w].u.base <= at[w].u.life
      BY <1>0, <2>1 DEF Copied, Sound, Row
    <2>3. Life(w) = usage.life + at[w].d  BY <2>2, Numbers DEF Life
    <2> QED  BY <2>2, <2>3, Numbers DEF Charged
  <1>1. CASE Charge(w)
    <2>u. UNCHANGED <<usage, meter, raised, push, desired, panel, carried>> /\ at[w].pc # "idle"
      BY <1>1 DEF Charge, state, past
    <2> DEFINE c == [at[w] EXCEPT !.pc = "enforce", !.u = Charged(w)]
    <2>1. c.pc = "enforce" /\ c.u = Charged(w) /\ c.m = at[w].m /\ c.d = at[w].d
      BY <1>0 DEF Copies
    <2>2. Move(w, c) /\ at[w].pc = "charge"  BY <1>1 DEF Charge
    <2> HIDE DEF c
    <2>3. at'[w] = c => Copied(w)'
      BY <1>0, <1>c, <2>u, <2>1, <2>2, Numbers DEF Copied, Sound, Row
    <2> QED  BY <2>u, <2>2, <2>3, QuietMoveSound
  <1>2. CASE RollOver(w)
    <2> DEFINE s == IF at[w].held THEN "resume" ELSE "enforce"
               c == [at[w] EXCEPT !.pc = s, !.u = Charged(w), !.rolled = TRUE]
    <2>1. c.pc = s /\ c.u = Charged(w) /\ c.m = at[w].m /\ c.d = at[w].d
      BY <1>0 DEF Copies
    <2>2. /\ Move(w, c) /\ at[w].pc = "charge"
          /\ UNCHANGED <<meter, raised, push, desired, panel, carried>>
      BY <1>2 DEF RollOver
    <2>3. usage' = usage \/ (usage' = Charged(w) /\ at[w].d = 0)
      BY <1>2, Numbers DEF RollOver, Calm
    <2>4. s \in {"resume", "enforce"}  OBVIOUS
    <2> HIDE DEF c, s
    <2>5. usage'.life = usage.life /\ usage'.base <= usage'.life
      BY <1>c, <2>2, <2>3, Numbers DEF Sound, Row
    <2>6. Row' /\ Caps'  BY <2>2, <2>5, Numbers, GrowthKeepsCaps DEF Sound, Row
    <2>7. at'[w] = c => Copied(w)'
      BY <1>0, <1>c, <2>1, <2>2, <2>4, <2>5, Numbers DEF Copied, Sound, Row
    <2> QED  BY <2>2, <2>6, <2>7, OthersIdle, MoveSound
  <1>3. CASE Resume(w)
    <2>u. UNCHANGED <<usage, meter, raised, push, desired, panel, carried>> /\ at[w].pc # "idle"
      BY <1>3 DEF Resume, past
    <2> DEFINE c == [at[w] EXCEPT !.pc = "enforce", !.held = FALSE]
    <2>1. c.pc = "enforce" /\ c.u = at[w].u /\ c.m = at[w].m /\ c.d = at[w].d
      BY <1>0 DEF Copies
    <2>2. Move(w, c) /\ at[w].pc = "resume"  BY <1>3 DEF Resume
    <2> HIDE DEF c
    <2>3. at'[w] = c => Copied(w)'  BY <1>0, <2>u, <2>1, <2>2 DEF Copied
    <2> QED  BY <2>u, <2>2, <2>3, QuietMoveSound
  <1>4. CASE Enforce(w)
    <2>u. UNCHANGED <<usage, meter, raised, push, desired, panel, carried>> /\ at[w].pc # "idle"
      BY <1>4 DEF Enforce, past
    <2> DEFINE c == [at[w] EXCEPT !.pc = "flush"]
    <2>1. c.pc = "flush" /\ c.u = at[w].u /\ c.m = at[w].m /\ c.d = at[w].d  BY GoCopies
    <2>2. (Move(w, c) \/ End(w)) /\ at[w].pc = "enforce"  BY <1>4 DEF Enforce, Go
    <2> HIDE DEF c
    <2>3. at'[w] = c => Copied(w)'  BY <1>0, <2>u, <2>1, <2>2 DEF Copied
    <2> QED  BY <2>u, <2>2, <2>3, QuietMoveSound, EndSound
  <1> QED  BY <1>1, <1>2, <1>3, <1>4

\* What a poll writes.
LEMMA FlushesSound ==
  ASSUME TInv, Sound, NEW w \in Workers,
         FlushSnapshot(w) \/ FlushCounters(w) \/ FlushState(w)
  PROVE  Sound'
  <1>0. at[w] \in Copies /\ Copied(w)  BY DEF TInv, MTypeOK, Sound
  <1>1. CASE FlushSnapshot(w)
    <2>u. UNCHANGED <<usage, meter, raised, push, desired, panel, carried>> /\ at[w].pc # "idle"
      BY <1>1 DEF FlushSnapshot, past
    <2> DEFINE c == [at[w] EXCEPT !.pc = "counters"]
    <2>1. c.pc = "counters" /\ c.u = at[w].u /\ c.m = at[w].m /\ c.d = at[w].d  BY GoCopies
    <2>2. Move(w, c) /\ at[w].pc = "flush"  BY <1>1 DEF FlushSnapshot, Go
    <2> HIDE DEF c
    <2>3. at'[w] = c => Copied(w)'  BY <1>0, <2>u, <2>1, <2>2 DEF Copied
    <2> QED  BY <2>u, <2>2, <2>3, QuietMoveSound
  <1>2. CASE FlushCounters(w)
    <2> DEFINE c == [at[w] EXCEPT !.pc = "state"]
    <2>1. c.pc = "state" /\ c.u = at[w].u /\ c.m = at[w].m /\ c.d = at[w].d  BY GoCopies
    <2>2. /\ at[w].pc = "counters"
          /\ UNCHANGED <<usage, raised, push, desired, panel, carried>>
          /\ \/ meter' = at[w].m /\ (Move(w, c) \/ Move(w, Rest))
             \/ meter' = meter /\ Move(w, Rest)
      BY <1>2 DEF FlushCounters, AfterCounters, Go, End
    <2> HIDE DEF c
    <2>3. meter'.life >= meter.life /\ meter'.life \in Nat
      BY <1>0, <2>2, Numbers DEF Copied
    <2>4. Row'  BY <2>2, <2>3, Numbers DEF Sound, Row
    <2>5. Caps'  BY <2>2, Numbers, GrowthKeepsCaps DEF Sound
    <2>6. meter' = at[w].m /\ at'[w] = c => Copied(w)'  BY <1>0, <2>1, <2>2 DEF Copied
    <2>7. at'[w] = Rest => Copied(w)'  BY DEF Copied, Rest
    <2>8. \A v \in Workers : v # w => at[v].pc = "idle"  BY <2>2, OthersIdle
    <2>9. CASE Move(w, Rest)  BY <2>4, <2>5, <2>7, <2>8, <2>9, MoveSound
    <2>10. CASE Move(w, c) /\ meter' = at[w].m  BY <2>4, <2>5, <2>6, <2>8, <2>10, MoveSound
    <2> QED  BY <2>2, <2>9, <2>10
  <1>3. CASE FlushState(w)
    <2>1. /\ at[w].pc = "state" /\ End(w)
          /\ UNCHANGED <<meter, raised, push, desired, panel, carried>>
          /\ usage' = at[w].u \/ usage' = usage
      BY <1>3 DEF FlushState
    <2>2. /\ usage'.life >= usage.life /\ usage'.life \in Nat
          /\ usage'.base <= usage'.life /\ usage'.life <= meter.life + raised
      BY <1>0, <2>1, Numbers DEF Copied, Sound, Row
    <2>3. Row' /\ Caps'  BY <2>1, <2>2, Numbers, GrowthKeepsCaps DEF Sound, Row
    <2>4. at'[w] = Rest => Copied(w)'  BY DEF Copied, Rest
    <2> QED  BY <2>1, <2>3, <2>4, OthersIdle, MoveSound DEF End
  <1> QED  BY <1>1, <1>2, <1>3

\* What an edit writes.
LEMMA EditsSound ==
  ASSUME TInv, Sound, NEW w \in Workers,
         InsertSnapshot(w) \/ UpdateTrafficState(w) \/ Reseed(w) \/ Switch(w)
  PROVE  Sound'
  <1>0. at[w] \in Copies /\ Copied(w)  BY DEF TInv, MTypeOK, Sound
  <1>1. CASE InsertSnapshot(w)
    <2>u. UNCHANGED <<usage, meter, raised, push, desired, panel, carried>> /\ at[w].pc # "idle"
      BY <1>1 DEF InsertSnapshot, past
    <2> DEFINE c == [at[w] EXCEPT !.pc = "write", !.prev = Larger(at[w].prev, at[w].x)]
    <2>1. c.pc = "write" /\ c.u = at[w].u /\ c.m = at[w].m /\ c.d = at[w].d
      BY <1>0 DEF Copies
    <2>2. (Move(w, c) \/ End(w)) /\ at[w].pc = "insert"  BY <1>1 DEF InsertSnapshot
    <2> HIDE DEF c
    <2>3. at'[w] = c => Copied(w)'  BY <1>0, <2>u, <2>1, <2>2 DEF Copied
    <2> QED  BY <2>u, <2>2, <2>3, QuietMoveSound, EndSound
  <1>2. CASE UpdateTrafficState(w)
    <2> DEFINE c == [at[w] EXCEPT !.pc = "list"]
    <2>1. c.pc = "list"  BY GoCopies
    <2>2. /\ at[w].pc = "write" /\ (Move(w, c) \/ Move(w, Rest))
          /\ UNCHANGED <<meter, push, desired, panel, carried>>
          /\ \/ usage' = Edited(w) /\ raised' = raised + (Edited(w).life - at[w].u.life)
             \/ UNCHANGED <<usage, raised>>
      BY <1>2 DEF UpdateTrafficState, Go, End
    <2>3. /\ Edited(w).life \in Nat /\ Edited(w).life >= at[w].u.life
          /\ Edited(w).base <= Edited(w).life
      BY <2>2, EditedTyped DEF Usage
    <2> HIDE DEF c
    <2>4. at[w].u.life = usage.life  BY <1>0, <2>2 DEF Copied
    <2>5. /\ usage'.life >= usage.life /\ usage'.life \in Nat /\ usage'.base <= usage'.life
          /\ raised' >= raised /\ raised' \in Nat /\ usage'.life <= meter.life + raised'
      BY <2>2, <2>3, <2>4, Numbers DEF Sound, Row
    <2>6. Row' /\ Caps'  BY <2>2, <2>5, Numbers, GrowthKeepsCaps DEF Sound, Row
    <2>7. at'[w] = c \/ at'[w] = Rest => Copied(w)'  BY <2>1 DEF Copied, Rest
    <2> QED  BY <2>2, <2>6, <2>7, OthersIdle, MoveSound
  <1>3. CASE Reseed(w)
    <2> DEFINE c == [at[w] EXCEPT !.pc = "switch"]
    <2>1. c.pc = "switch"  BY GoCopies
    <2>2. /\ at[w].pc = "reseed" /\ Move(w, c)
          /\ UNCHANGED <<usage, raised, push, desired, panel, carried>>
          /\ meter' = at[w].m \/ meter' = meter
      BY <1>3 DEF Reseed, Go, past
    <2> HIDE DEF c
    <2>3. meter'.life = meter.life  BY <1>0, <2>2 DEF Copied
    <2>4. Row' /\ Caps'  BY <2>2, <2>3, Numbers, GrowthKeepsCaps DEF Sound, Row
    <2>5. at'[w] = c => Copied(w)'  BY <2>1 DEF Copied
    <2> QED  BY <2>2, <2>4, <2>5, OthersIdle, MoveSound
  <1>4. CASE Switch(w)  BY <1>4, EndSound DEF Switch, past
  <1> QED  BY <1>1, <1>2, <1>3, <1>4

\* A step of no worker that leaves the usage and the client row alone.
LEMMA CapsSound ==
  ASSUME Sound, UNCHANGED <<at, usage, meter, raised>>, Caps'
  PROVE  Sound'
  BY DEF Sound, Alone, Row, Copied

\* The client carries, is cut off or its counter goes back; the period turns.
LEMMA PanelSound ==
  ASSUME TInv, Sound, (\E n \in Chunks : Carry(n)) \/ Deplete \/ Reset \/ Turn
  PROVE  Sound'
  <1>0. panel \in [count : Nat, epoch : Nat, cap : Nat, on : BOOLEAN, of : Nat]
    BY DEF TInv, MTypeOK
  <1>1. UNCHANGED <<at, usage, meter, raised, push, desired>>
    BY DEF Carry, Deplete, Reset, Turn, past, state
  <1>2. /\ panel'.cap = panel.cap /\ panel'.of = panel.of /\ panel'.count \in Nat
        /\ carried' \in Nat /\ panel'.count - carried' <= panel.count - carried
    <2>1. ASSUME NEW n \in Chunks, Carry(n)
          PROVE  /\ panel'.cap = panel.cap /\ panel'.of = panel.of
                 /\ panel'.count = panel.count + n /\ carried' = carried + n /\ n \in Nat
      BY <1>0, <2>1, MeterAssumption DEF Carry
    <2>2. ASSUME NEW n \in Chunks, Carry(n)
          PROVE  /\ panel'.cap = panel.cap /\ panel'.of = panel.of /\ panel'.count \in Nat
                 /\ carried' \in Nat /\ panel'.count - carried' <= panel.count - carried
      BY <2>1, <2>2, Numbers
    <2>3. CASE Deplete  BY <1>0, <2>3, Numbers DEF Deplete, past
    <2>4. CASE Reset  BY <1>0, <2>4, Numbers DEF Reset, past
    <2>5. CASE Turn  BY <2>5, Numbers DEF Turn, past, state
    <2> QED  BY <2>2, <2>3, <2>4, <2>5
  <1>3. Allows'  BY <1>1 DEF Sound, Caps, Allows
  <1>4. Capped'  BY <1>1, <1>2, Numbers DEF Sound, Caps, Capped
  <1>5. \A x \in Pushers : Pushed(x)'  BY <1>1, <1>2, Numbers DEF Sound, Caps, Pushed
  <1> QED  BY <1>1, <1>3, <1>4, <1>5, CapsSound DEF Caps

\* What is left of the allowance is never given less than is left.
LEMMA FloorAllows ==
  ASSUME NEW u, u.life \in Nat, u.base \in Nat, u.base <= u.life
  PROVE  TrafficFloor(u) + u.life >= Limit + u.base /\ TrafficFloor(u) \in Nat
  BY MeterAssumption DEF TrafficFloor, Used

\* The pushes: the cap adds what the intent allows to the reading, and the client row is
\* never charged for more than was carried.
LEMMA PushSound ==
  ASSUME CInv, Sound, NEW x \in Pushers, Fetch(x) \/ Want(x) \/ List(x) \/ Write(x)
  PROVE  Sound'
  <1>0. TInv /\ push[x] \in Pushes /\ Pushed(x)  BY DEF CInv, TInv, MTypeOK, Sound, Caps
  <1>u. UNCHANGED <<at, usage, meter, raised, carried>>
    BY DEF Fetch, Want, List, Write, past, state
  <1>d. /\ Done.pc = "idle" /\ Done \in Pushes
        /\ \A c : Put(x, c) => push'[x] = c /\ \A y \in Pushers : y # x => push'[y] = push[y]
    BY <1>0, DoneKept DEF Put, Done, TInv, MTypeOK
  <1>1. CASE Fetch(x)
    <2> DEFINE c == [Done EXCEPT !.pc = "want", !.life = usage.life, !.base = usage.base,
                                 !.on = ~held]
    <2>1. c.pc = "want" /\ c.life = usage.life /\ c.base = usage.base  BY DEF Done
    <2>2. Put(x, c) /\ UNCHANGED <<desired, panel>>  BY <1>1 DEF Fetch, state
    <2> HIDE DEF c
    <2>3. \A y \in Pushers : Pushed(y)'
      BY <1>0, <1>d, <1>u, <2>1, <2>2, Numbers DEF Pushed, Sound, Caps, Row
    <2>4. Caps'  BY <1>u, <2>2, <2>3 DEF Sound, Caps, Allows, Capped
    <2> QED  BY <1>u, <2>4, CapsSound
  <1>2. CASE Want(x)
    <2> DEFINE c == [Done EXCEPT !.pc = "list"]
    <2>1. c.pc = "list"  BY DEF Done
    <2>2. Put(x, c) /\ UNCHANGED panel /\ push[x].pc = "want"  BY <1>2 DEF Want
    <2> HIDE DEF c
    <2>3. \A y \in Pushers : Pushed(y)'
      BY <1>d, <1>u, <2>1, <2>2 DEF Pushed, Sound, Caps
    <2>4. desired'.head = TrafficFloor(push[x]) /\ desired'.of = push[x].base
      BY <1>2 DEF Want
    <2>5. /\ push[x].base <= push[x].life /\ push[x].life <= usage.life
          /\ push[x].base \in Nat /\ push[x].life \in Nat
      BY <1>0, <2>2, Numbers DEF Pushed
    <2>6. /\ TrafficFloor(push[x]) + push[x].life >= Limit + push[x].base
          /\ TrafficFloor(push[x]) \in Nat
      BY <2>5, FloorAllows
    <2>7. Allows'  BY <1>0, <1>u, <2>4, <2>5, <2>6, Numbers DEF Allows
    <2>8. Capped'  BY <1>u, <2>2 DEF Capped, Sound, Caps
    <2> QED  BY <1>u, <2>3, <2>7, <2>8, CapsSound DEF Caps
  <1>3. CASE List(x)
    <2> DEFINE c == [Done EXCEPT !.pc = "write", !.raw = meter.raw, !.head = desired.head,
                                 !.on = desired.on, !.of = desired.of]
    <2>1. c.pc = "write" /\ c.raw = meter.raw /\ c.head = desired.head /\ c.of = desired.of
      BY DEF Done
    <2>2. Put(x, c) /\ UNCHANGED <<desired, panel>>  BY <1>3 DEF List, state
    <2> HIDE DEF c
    <2>3. meter.raw + desired.head + carried + raised >= Limit + desired.of + panel.count
      <3>1. meter.raw + carried >= meter.life + panel.count
        BY <1>0, Numbers DEF CInv, Fair, Covered, Unread
      <3>2. /\ desired.head + usage.life >= Limit + desired.of
            /\ usage.life <= meter.life + raised
        BY DEF Sound, Caps, Allows, Row
      <3> QED  BY <1>0, <3>1, <3>2, Numbers
    <2>4. \A y \in Pushers : Pushed(y)'
      BY <1>0, <1>d, <1>u, <2>1, <2>2, <2>3 DEF Pushed, Sound, Caps
    <2>5. Caps'  BY <1>u, <2>2, <2>4 DEF Sound, Caps, Allows, Capped
    <2> QED  BY <1>u, <2>5, CapsSound
  <1>4. CASE Write(x)
    <2>1. Put(x, Done) /\ UNCHANGED desired /\ push[x].pc = "write"  BY <1>4 DEF Write
    <2>2. push[x].raw + push[x].head + carried + raised >= Limit + push[x].of + panel.count
      BY <1>0, <2>1 DEF Pushed
    <2>3. panel \in [count : Nat, epoch : Nat, cap : Nat, on : BOOLEAN, of : Nat]
      BY <1>0 DEF TInv, MTypeOK
    <2>4. /\ panel'.count = panel.count
          /\ \/ UNCHANGED panel
             \/ panel'.of = push[x].of /\ panel'.cap >= push[x].raw + push[x].head
                /\ panel'.cap \in Nat
      <3>1. CASE Holds(push[x]) /\ panel' = [panel EXCEPT !.of = push[x].of]
        BY <1>0, <2>3, <3>1, Numbers DEF Holds, WithinBand, PanelQuotaCap
      <3>2. CASE panel' = [panel EXCEPT !.cap = PanelQuotaCap(push[x]), !.on = push[x].on,
                                        !.of = push[x].of]
        BY <1>0, <2>3, <3>2, Numbers DEF PanelQuotaCap
      <3> QED  BY <1>4, <3>1, <3>2 DEF Write
    <2>5. Capped'
      BY <1>0, <1>u, <2>2, <2>4, Numbers DEF Capped, Sound, Caps
    <2>6. Allows'  BY <1>u, <2>1 DEF Allows, Sound, Caps
    <2>7. \A y \in Pushers : Pushed(y)'
      BY <1>d, <1>u, <2>1, <2>4 DEF Pushed, Sound, Caps
    <2> QED  BY <1>u, <2>5, <2>6, <2>7, CapsSound DEF Caps
  <1> QED  BY <1>1, <1>2, <1>3, <1>4

LEMMA CrashSound == ASSUME TInv, Sound, Crash PROVE Sound'
  <1>1. /\ \A w \in Workers : at'[w].pc = "idle"
        /\ \A x \in Pushers : push'[x].pc = "idle"
    BY DEF Crash, Rest, Done
  <1>2. UNCHANGED <<usage, meter, raised, carried, desired, panel>>  BY DEF Crash, state
  <1>3. Alone' /\ \A w \in Workers : Copied(w)'  BY <1>1 DEF Alone, Copied
  <1>4. Row' /\ Caps'  BY <1>1, <1>2 DEF Sound, Row, Caps, Allows, Capped, Pushed
  <1> QED  BY <1>3, <1>4 DEF Sound

\* A user who has been charged something at the start starts sound.
LEMMA InitSound == ASSUME 0 \notin Starts, Init PROVE QInv
  <1>1. CInv  BY InitFair
  <1>2. PICK s \in Starts, k \in Kinds :
          /\ usage = [life |-> s, base |-> 0, start |-> 0]
          /\ meter = [life |-> s, raw |-> s, epoch |-> IF s = 0 THEN 0 ELSE k]
          /\ desired = [head |-> Limit, on |-> TRUE, of |-> 0]
          /\ panel = [count |-> s, epoch |-> k, cap |-> 0, on |-> TRUE, of |-> 0]
          /\ carried = s
    BY DEF Init
  <1>3. /\ at = [w \in Workers |-> Rest] /\ push = [x \in Pushers |-> Done]
        /\ raised = 0
    BY DEF Init
  <1>4. s \in Nat /\ s > 0 /\ Limit \in Nat  BY MeterAssumption
  <1>5. /\ \A w \in Workers : at[w].pc = "idle"
        /\ \A x \in Pushers : push[x].pc = "idle"
    BY <1>3 DEF Rest, Done
  <1>6. Alone /\ \A w \in Workers : Copied(w)  BY <1>5 DEF Alone, Copied
  <1>7. Row  BY <1>2, <1>3, <1>4 DEF Row
  <1>8. Caps  BY <1>2, <1>3, <1>4, <1>5 DEF Caps, Allows, Capped, Pushed
  <1> QED  BY <1>1, <1>6, <1>7, <1>8 DEF QInv, Sound

LEMMA StepSound == ASSUME QInv, [Next]_vars PROVE QInv'
  <1>1. CInv'  BY StepFair DEF QInv
  <1>2. SUFFICES ASSUME Calm' PROVE Sound'  BY <1>1 DEF QInv
  <1>3. CInv /\ TInv /\ Sound  BY <1>2, CalmBefore DEF QInv, CInv
  <1>4. CASE (\E n \in Chunks : Carry(n)) \/ Deplete \/ Reset \/ Turn  BY <1>3, <1>4, PanelSound
  <1>5. ASSUME NEW x \in Pushers, Fetch(x) \/ Want(x) \/ List(x) \/ Write(x) PROVE Sound'
    BY <1>3, <1>5, PushSound
  <1>6. ASSUME NEW w \in Workers, Poll(w) PROVE Sound'
    <2>1. CASE PollOnce(w)  BY <1>2, <1>3, <2>1, BeginSound DEF PollOnce
    <2>2. CASE Latest(w, "latest", "clients") \/ Clients(w, "clients", "panel") \/ ReadPanel(w)
      BY <1>3, <2>2, ReadsSound
    <2>3. CASE Charge(w) \/ RollOver(w) \/ Resume(w) \/ Enforce(w)
      BY <1>2, <1>3, <2>3, ChargesSound
    <2>4. CASE FlushSnapshot(w) \/ FlushCounters(w) \/ FlushState(w)
      BY <1>3, <2>4, FlushesSound
    <2> QED  BY <1>6, <2>1, <2>2, <2>3, <2>4 DEF Poll
  <1>7. ASSUME NEW w \in Workers, Edit(w) PROVE Sound'
    <2>1. CASE SetPeriodUsage(w)
      <3>1. PICK x \in Amounts : Begin(w, "prior", x)  BY <2>1 DEF SetPeriodUsage
      <3>2. x \in Nat  BY MeterAssumption
      <3> QED  BY <1>2, <1>3, <3>1, <3>2, BeginSound
    <2>2. CASE Latest(w, "prior", "insert") \/ Clients(w, "list", "reseed")
      BY <1>3, <2>2, ReadsSound
    <2>3. CASE InsertSnapshot(w) \/ UpdateTrafficState(w) \/ Reseed(w) \/ Switch(w)
      BY <1>3, <2>3, EditsSound
    <2> QED  BY <1>7, <2>1, <2>2, <2>3 DEF Edit
  <1>8. CASE Crash  BY <1>3, <1>8, CrashSound
  <1>9. CASE UNCHANGED vars
    BY <1>3, <1>9 DEF vars, state, past, Sound, Alone, Row, Caps, Allows, Capped, Pushed, Copied
  <1> QED  BY <1>4, <1>5, <1>6, <1>7, <1>8, <1>9 DEF Next

\* The panel cuts off only a user who has spent the allowance the cap was computed for, if
\* the user was charged something before the meter started, as long as polls and edits do
\* not overlap and no rollover wrote the usage before the counters.
THEOREM CutsOnlyWhenSpent == 0 \notin Starts /\ Spec => []CutOnlyWhenSpent
  <1>1. QInv => CutOnlyWhenSpent
    <2> SUFFICES ASSUME QInv, Spent, upset \subseteq {"cut"}
                 PROVE  carried + raised >= Limit + panel.of
      BY DEF CutOnlyWhenSpent
    <2>1. TInv /\ Capped  BY DEF QInv, CInv, Calm, Sound, Caps
    <2> QED  BY <2>1, Numbers DEF Capped, Spent
  <1>2. 0 \notin Starts /\ Init => QInv  BY InitSound
  <1>3. QInv /\ [Next]_vars => QInv'  BY StepSound
  <1> QED  BY <1>1, <1>2, <1>3, PTL DEF Spec
-----------------------------------------------------------------------------
\* No flush was cut between the two rows and no polls or edits overlapped.
Even == upset \subseteq {"early"}

\* The user is charged exactly what the client is, and what administrators added.
Level == usage.life = meter.life + raised

\* How far the two rows are apart while a worker is at a step.
Paced(w) ==
  /\ at[w].pc \in {"latest", "clients", "panel", "charge"} => Level /\ ~at[w].rolled
  /\ at[w].pc \in EditSteps => Level
  /\ at[w].pc \in {"latest", "clients", "panel", "charge", "prior", "insert", "write"} =>
       at[w].u.life = usage.life
  /\ at[w].pc \in {"latest", "clients", "panel"} => at[w].d = 0
  /\ at[w].pc \in {"panel", "reseed"} => at[w].m.life = meter.life
  /\ at[w].pc \in {"charge", "resume", "enforce", "flush", "counters"} =>
       at[w].m.life = meter.life + at[w].d
  /\ at[w].pc \in {"charge", "resume", "enforce"} => at[w].d = 0 \/ at[w].dirty
  /\ at[w].pc \in {"resume", "enforce", "flush", "counters"} =>
       /\ at[w].u.life = meter.life + at[w].d + raised
       /\ usage.life = IF at[w].rolled THEN at[w].u.life ELSE meter.life + raised
  /\ at[w].pc = "state" =>
       /\ at[w].d > 0 /\ at[w].u.life = meter.life + raised
       /\ usage.life + at[w].d = meter.life + raised

Steady == Alone /\ usage.life > 0 /\ (Quiet => Level) /\ \A w \in Workers : Paced(w)
EInv   == TInv /\ (Even => Steady)

LEMMA EvenBefore == ASSUME [Next]_vars, Even' PROVE Even
  BY UpsetGrows DEF Even

\* A worker that is alone moves: the two rows stay in step if its own copies are.
LEMMA MoveSteady ==
  ASSUME TInv, Steady, NEW w \in Workers, NEW c, Move(w, c),
         \A v \in Workers : v # w => at[v].pc = "idle",
         usage'.life > 0, at'[w] = c => Paced(w)', c.pc = "idle" => Level'
  PROVE  Steady'
  <1>1. at'[w] = c /\ \A v \in Workers : v # w => at'[v].pc = "idle"
    BY DEF TInv, MTypeOK, Move
  <1>2. Alone'  BY <1>1 DEF Alone
  <1>3. \A v \in Workers : Paced(v)'  BY <1>1 DEF Paced, EditSteps
  <1>4. (Quiet => Level)'  BY <1>1 DEF Quiet
  <1> QED  BY <1>2, <1>3, <1>4 DEF Steady

LEMMA OthersRest ==
  ASSUME Steady, NEW w \in Workers, at[w].pc # "idle"
  PROVE  \A v \in Workers : v # w => at[v].pc = "idle"
  BY DEF Steady, Alone

\* A worker ends where the rows are level.
LEMMA EndSteady ==
  ASSUME TInv, Steady, NEW w \in Workers, End(w), at[w].pc # "idle", usage'.life > 0, Level'
  PROVE  Steady'
  <1>1. at'[w] = Rest => Paced(w)'  BY DEF Paced, Rest, EditSteps
  <1> QED  BY <1>1, OthersRest, MoveSteady DEF End

\* The first step of a poll or an edit.
LEMMA BeginSteady ==
  ASSUME TInv, Steady, Even', NEW w \in Workers, NEW x \in Nat,
         NEW step \in {"latest", "prior"}, Begin(w, step, x)
  PROVE  Steady'
  <1> DEFINE c == [Rest EXCEPT !.pc = step, !.u = usage, !.held = held, !.x = x]
  <1>1. Quiet  BY DEF Even, Begin, Crowd
  <1>2. c.pc = step /\ c.u = usage /\ c.d = 0 /\ c.rolled = FALSE  BY DEF Rest
  <1>3. Move(w, c)  BY DEF Begin
  <1>4. UNCHANGED <<usage, meter, raised>>  BY DEF Begin, state
  <1> HIDE DEF c
  <1>5. Level'  BY <1>1, <1>4 DEF Steady, Level
  <1>6. at'[w] = c => Paced(w)'  BY <1>2, <1>4, <1>5 DEF Paced
  <1> QED  BY <1>1, <1>2, <1>3, <1>4, <1>6, MoveSteady DEF Quiet, Steady

\* The reads of the lists and of the panel.
LEMMA ReadsSteady ==
  ASSUME TInv, Steady, NEW w \in Workers,
         \/ Latest(w, "latest", "clients") \/ Latest(w, "prior", "insert")
         \/ Clients(w, "clients", "panel") \/ Clients(w, "list", "reseed")
         \/ ReadPanel(w)
  PROVE  Steady'
  <1>0. at[w] \in Copies /\ Paced(w) /\ usage.life > 0  BY DEF TInv, MTypeOK, Steady
  <1>u. UNCHANGED <<usage, meter, raised>> /\ at[w].pc # "idle"
    BY DEF Latest, Clients, ReadPanel, state, past
  <1>l. Level'
    BY <1>0, <1>u DEF Latest, Clients, ReadPanel, Paced, EditSteps, Level
  <1>1. ASSUME NEW from, NEW step, Latest(w, from, step),
               <<from, step>> \in {<<"latest", "clients">>, <<"prior", "insert">>}
        PROVE  Steady'
    <2> DEFINE c == [at[w] EXCEPT !.pc = step, !.prev = snap]
    <2>1. /\ c.pc = step /\ c.u = at[w].u /\ c.m = at[w].m /\ c.d = at[w].d
          /\ c.rolled = at[w].rolled
      BY <1>0 DEF Copies
    <2>2. Move(w, c)  BY <1>1 DEF Latest
    <2> HIDE DEF c
    <2>3. at'[w] = c => Paced(w)'  BY <1>0, <1>u, <1>l, <1>1, <2>1 DEF Paced, Latest
    <2> QED  BY <1>0, <1>u, <1>l, <2>2, <2>3, OthersRest, MoveSteady
  <1>2. ASSUME NEW from, NEW step, Clients(w, from, step),
               <<from, step>> \in {<<"clients", "panel">>, <<"list", "reseed">>}
        PROVE  Steady'
    <2> DEFINE c == [at[w] EXCEPT !.pc = step, !.m = meter]
    <2>1. /\ c.pc = step /\ c.u = at[w].u /\ c.m = meter /\ c.d = at[w].d
          /\ c.rolled = at[w].rolled
      BY <1>0 DEF Copies
    <2>2. Move(w, c)  BY <1>2 DEF Clients
    <2> HIDE DEF c
    <2>3. at'[w] = c => Paced(w)'  BY <1>0, <1>u, <1>l, <1>2, <2>1 DEF Paced, Clients
    <2> QED  BY <1>0, <1>u, <1>l, <2>2, <2>3, OthersRest, MoveSteady
  <1>3. CASE ReadPanel(w)
    <2>0. at[w].pc = "panel" /\ at[w].m \in Meter /\ at[w].d = 0
      BY <1>0, <1>3 DEF ReadPanel, Copies, Paced
    <2>1. Reading(at[w].m).life = at[w].m.life + Delta(at[w].m) /\ Delta(at[w].m) \in Nat
      BY <2>0, ReadingTyped DEF TInv
    <2> DEFINE c == [at[w] EXCEPT !.pc = "charge", !.m = Reading(at[w].m),
                       !.d = Delta(at[w].m), !.dirty = (Reading(at[w].m) # at[w].m)]
               g == [at[w] EXCEPT !.pc = "charge"]
    <2>2. /\ c.pc = "charge" /\ c.u = at[w].u /\ c.m = Reading(at[w].m)
          /\ c.d = Delta(at[w].m) /\ c.dirty = (Reading(at[w].m) # at[w].m)
          /\ c.rolled = at[w].rolled
      BY <1>0 DEF Copies
    <2>3. /\ g.pc = "charge" /\ g.u = at[w].u /\ g.m = at[w].m /\ g.d = at[w].d
          /\ g.rolled = at[w].rolled
      BY <1>0 DEF Copies
    <2>4. Move(w, c) \/ Move(w, g)  BY <1>3 DEF ReadPanel, Go
    <2>5. c.d = 0 \/ c.dirty
      <3>1. Delta(at[w].m) # 0 => Reading(at[w].m) # at[w].m  BY <2>1, Numbers
      <3> QED  BY <2>2, <3>1
    <2> HIDE DEF c, g
    <2>6. at'[w] = c => Paced(w)'
      BY <1>0, <1>u, <1>l, <2>0, <2>1, <2>2, <2>5 DEF Paced, EditSteps
    <2>7. at'[w] = g => Paced(w)'
      BY <1>0, <1>u, <1>l, <2>0, <2>3, Numbers DEF Paced, EditSteps
    <2> QED  BY <1>0, <1>u, <1>l, <2>4, <2>6, <2>7, OthersRest, MoveSteady
  <1> QED  BY <1>1, <1>2, <1>3

\* What a poll charges and decides.
LEMMA ChargesSteady ==
  ASSUME TInv, Steady, Even', NEW w \in Workers,
         Charge(w) \/ RollOver(w) \/ Resume(w) \/ Enforce(w)
  PROVE  Steady'
  <1>0. at[w] \in Copies /\ Paced(w) /\ usage.life > 0  BY DEF TInv, MTypeOK, Steady
  <1>c. at[w].pc = "charge" => Charged(w).life = usage.life + at[w].d
    BY <1>0, Numbers DEF Charged, Life, Paced
  <1>1. CASE Charge(w)
    <2>u. UNCHANGED <<usage, meter, raised>> /\ at[w].pc = "charge"
      BY <1>1 DEF Charge, state, past
    <2> DEFINE c == [at[w] EXCEPT !.pc = "enforce", !.u = Charged(w)]
    <2>1. /\ c.pc = "enforce" /\ c.u = Charged(w) /\ c.m = at[w].m /\ c.d = at[w].d
          /\ c.rolled = at[w].rolled /\ c.dirty = at[w].dirty
      BY <1>0 DEF Copies
    <2>2. Move(w, c)  BY <1>1 DEF Charge
    <2> HIDE DEF c
    <2>3. at'[w] = c => Paced(w)'
      BY <1>0, <1>c, <2>u, <2>1, Numbers DEF Paced, Level, EditSteps
    <2> QED  BY <1>0, <2>u, <2>1, <2>2, <2>3, OthersRest, MoveSteady
  <1>2. CASE RollOver(w)
    <2> DEFINE s == IF at[w].held THEN "resume" ELSE "enforce"
               c == [at[w] EXCEPT !.pc = s, !.u = Charged(w), !.rolled = TRUE]
    <2>1. /\ c.pc = s /\ c.u = Charged(w) /\ c.m = at[w].m /\ c.d = at[w].d
          /\ c.rolled = TRUE /\ c.dirty = at[w].dirty
      BY <1>0 DEF Copies
    <2>2. Move(w, c) /\ at[w].pc = "charge" /\ UNCHANGED <<meter, raised>>
      BY <1>2 DEF RollOver
    <2>3. usage' = Charged(w) \/ (usage' = usage /\ at[w].d = 0)
      BY <1>2, Numbers DEF RollOver, Even
    <2>4. s \in {"resume", "enforce"}  OBVIOUS
    <2> HIDE DEF c, s
    <2>5. usage'.life = Charged(w).life /\ usage'.life > 0
      BY <1>0, <1>c, <2>2, <2>3, Numbers
    <2>6. at'[w] = c => Paced(w)'
      BY <1>0, <1>c, <2>1, <2>2, <2>4, <2>5, Numbers DEF Paced, Level, EditSteps
    <2> QED  BY <2>1, <2>2, <2>4, <2>5, <2>6, OthersRest, MoveSteady
  <1>3. CASE Resume(w)
    <2>u. UNCHANGED <<usage, meter, raised>> /\ at[w].pc = "resume"
      BY <1>3 DEF Resume, past
    <2> DEFINE c == [at[w] EXCEPT !.pc = "enforce", !.held = FALSE]
    <2>1. /\ c.pc = "enforce" /\ c.u = at[w].u /\ c.m = at[w].m /\ c.d = at[w].d
          /\ c.rolled = at[w].rolled /\ c.dirty = at[w].dirty
      BY <1>0 DEF Copies
    <2>2. Move(w, c)  BY <1>3 DEF Resume
    <2> HIDE DEF c
    <2>3. at'[w] = c => Paced(w)'  BY <1>0, <2>u, <2>1 DEF Paced, EditSteps
    <2> QED  BY <1>0, <2>u, <2>1, <2>2, <2>3, OthersRest, MoveSteady
  <1>4. CASE Enforce(w)
    <2>u. UNCHANGED <<usage, meter, raised>> /\ at[w].pc = "enforce"
      BY <1>4 DEF Enforce, past
    <2> DEFINE c == [at[w] EXCEPT !.pc = "flush"]
    <2>1. /\ c.pc = "flush" /\ c.u = at[w].u /\ c.m = at[w].m /\ c.d = at[w].d
          /\ c.rolled = at[w].rolled
      BY <1>0 DEF Copies
    <2>2. Move(w, c) \/ (End(w) /\ ~at[w].dirty)  BY <1>4 DEF Enforce, Go
    <2> HIDE DEF c
    <2>3. at'[w] = c => Paced(w)'  BY <1>0, <2>u, <2>1 DEF Paced, EditSteps
    <2>4. ~at[w].dirty => Level'  BY <1>0, <2>u, Numbers DEF Paced, Level
    <2> QED  BY <1>0, <2>u, <2>1, <2>2, <2>3, <2>4, OthersRest, MoveSteady, EndSteady
  <1> QED  BY <1>1, <1>2, <1>3, <1>4

\* What a poll writes.
LEMMA FlushesSteady ==
  ASSUME TInv, Steady, Even', NEW w \in Workers,
         FlushSnapshot(w) \/ FlushCounters(w) \/ FlushState(w)
  PROVE  Steady'
  <1>0. at[w] \in Copies /\ Paced(w) /\ usage.life > 0  BY DEF TInv, MTypeOK, Steady
  <1>1. CASE FlushSnapshot(w)
    <2>u. UNCHANGED <<usage, meter, raised>> /\ at[w].pc = "flush"
      BY <1>1 DEF FlushSnapshot, past
    <2> DEFINE c == [at[w] EXCEPT !.pc = "counters"]
    <2>1. /\ c.pc = "counters" /\ c.u = at[w].u /\ c.m = at[w].m /\ c.d = at[w].d
          /\ c.rolled = at[w].rolled
      BY <1>0 DEF Copies
    <2>2. Move(w, c)  BY <1>1 DEF FlushSnapshot, Go
    <2> HIDE DEF c
    <2>3. at'[w] = c => Paced(w)'  BY <1>0, <2>u, <2>1 DEF Paced, EditSteps
    <2> QED  BY <1>0, <2>u, <2>1, <2>2, <2>3, OthersRest, MoveSteady
  <1>2. CASE FlushCounters(w)
    <2> DEFINE c == [at[w] EXCEPT !.pc = "state"]
    <2>1. /\ c.pc = "state" /\ c.u = at[w].u /\ c.m = at[w].m /\ c.d = at[w].d
      BY <1>0 DEF Copies
    <2>2. /\ at[w].pc = "counters" /\ UNCHANGED <<usage, raised>>
          /\ at[w].m.life = meter.life + at[w].d
          /\ at[w].u.life = meter.life + at[w].d + raised
          /\ usage.life = IF at[w].rolled THEN at[w].u.life ELSE meter.life + raised
      BY <1>0, <1>2 DEF FlushCounters, Paced
    <2>3. CASE meter' = at[w].m /\ at[w].d > 0 /\ ~at[w].rolled /\ Move(w, c)
      <3> HIDE DEF c
      <3>1. at'[w] = c => Paced(w)'
        BY <2>1, <2>2, <2>3, Numbers DEF Paced, EditSteps
      <3> QED  BY <1>0, <2>1, <2>2, <2>3, <3>1, OthersRest, MoveSteady
    <2>4. CASE meter' = at[w].m /\ ~(at[w].d > 0 /\ ~at[w].rolled) /\ End(w)
      <3>1. Level'  BY <2>2, <2>4, Numbers DEF Level
      <3> QED  BY <1>0, <2>2, <2>4, <3>1, EndSteady
    <2>5. CASE meter' = meter /\ ~(at[w].d > 0 /\ at[w].rolled) /\ End(w)
      <3>1. Level'  BY <2>2, <2>5, Numbers DEF Level
      <3> QED  BY <1>0, <2>2, <2>5, <3>1, EndSteady
    <2> QED  BY <1>2, <2>3, <2>4, <2>5 DEF FlushCounters, AfterCounters, Go, Even
  <1>3. CASE FlushState(w)
    <2>1. usage' = at[w].u  BY <1>3 DEF FlushState, Even
    <2>2. at[w].pc = "state" /\ End(w) /\ UNCHANGED <<meter, raised>>  BY <1>3 DEF FlushState
    <2>3. Level' /\ usage'.life > 0  BY <1>0, <2>1, <2>2, Numbers DEF Paced, Level
    <2> QED  BY <2>2, <2>3, EndSteady
  <1> QED  BY <1>1, <1>2, <1>3

\* What an edit writes.
LEMMA EditsSteady ==
  ASSUME TInv, Steady, NEW w \in Workers,
         InsertSnapshot(w) \/ UpdateTrafficState(w) \/ Reseed(w) \/ Switch(w)
  PROVE  Steady'
  <1>0. at[w] \in Copies /\ Paced(w) /\ usage.life > 0  BY DEF TInv, MTypeOK, Steady
  <1>1. CASE InsertSnapshot(w)
    <2>u. UNCHANGED <<usage, meter, raised>> /\ at[w].pc = "insert"
      BY <1>1 DEF InsertSnapshot, past
    <2>l. Level'  BY <1>0, <2>u DEF Paced, EditSteps, Level
    <2> DEFINE c == [at[w] EXCEPT !.pc = "write", !.prev = Larger(at[w].prev, at[w].x)]
    <2>1. c.pc = "write" /\ c.u = at[w].u  BY <1>0 DEF Copies
    <2>2. Move(w, c) \/ End(w)  BY <1>1 DEF InsertSnapshot
    <2> HIDE DEF c
    <2>3. at'[w] = c => Paced(w)'  BY <1>0, <2>u, <2>l, <2>1 DEF Paced, EditSteps
    <2> QED  BY <1>0, <2>u, <2>l, <2>1, <2>2, <2>3, OthersRest, MoveSteady, EndSteady
  <1>2. CASE UpdateTrafficState(w)
    <2> DEFINE c == [at[w] EXCEPT !.pc = "list"]
    <2>1. c.pc = "list"  BY GoCopies
    <2>2. /\ at[w].pc = "write" /\ (Move(w, c) \/ End(w)) /\ UNCHANGED meter
          /\ \/ usage' = Edited(w) /\ raised' = raised + (Edited(w).life - at[w].u.life)
             \/ UNCHANGED <<usage, raised>>
      BY <1>2 DEF UpdateTrafficState, Go
    <2>3. Edited(w).life \in Nat /\ Edited(w).life >= at[w].u.life
      BY <2>2, EditedTyped DEF Usage
    <2> HIDE DEF c
    <2>4. at[w].u.life = usage.life /\ Level  BY <1>0, <2>2 DEF Paced, EditSteps
    <2>5. Level' /\ usage'.life > 0  BY <1>0, <2>2, <2>3, <2>4, Numbers DEF Level
    <2>6. at'[w] = c => Paced(w)'  BY <2>1, <2>5 DEF Paced
    <2> QED  BY <2>1, <2>2, <2>5, <2>6, OthersRest, MoveSteady, EndSteady
  <1>3. CASE Reseed(w)
    <2> DEFINE c == [at[w] EXCEPT !.pc = "switch"]
    <2>1. c.pc = "switch"  BY GoCopies
    <2>2. /\ at[w].pc = "reseed" /\ Move(w, c) /\ UNCHANGED <<usage, raised>>
          /\ meter' = at[w].m \/ meter' = meter
      BY <1>3 DEF Reseed, Go, past
    <2> HIDE DEF c
    <2>3. Level'  BY <1>0, <2>2 DEF Paced, Level, EditSteps
    <2>4. at'[w] = c => Paced(w)'  BY <2>1, <2>3 DEF Paced
    <2> QED  BY <1>0, <2>1, <2>2, <2>4, OthersRest, MoveSteady
  <1>4. CASE Switch(w)
    <2>1. at[w].pc = "switch" /\ End(w) /\ UNCHANGED <<usage, meter, raised>>
      BY <1>4 DEF Switch, past
    <2>2. Level'  BY <1>0, <2>1 DEF Paced, Level, EditSteps
    <2> QED  BY <1>0, <2>1, <2>2, EndSteady
  <1> QED  BY <1>1, <1>2, <1>3, <1>4

\* The panel, the pushes and the calendar leave the two rows alone.
LEMMA AsideSteady ==
  ASSUME Steady, UNCHANGED <<at, usage, meter, raised>>
  PROVE  Steady'
  BY DEF Steady, Alone, Quiet, Level, Paced

\* A crash that is not on record as a cut happened where the rows were level.
LEMMA CrashSteady == ASSUME TInv, Steady, Even', Crash PROVE Steady'
  <1>1. /\ \A w \in Workers : at'[w].pc = "idle"
        /\ UNCHANGED <<usage, meter, raised>>
    BY DEF Crash, Rest, state
  <1>2. \A w \in Workers : ~Between(w)  BY DEF Crash, Even
  <1>3. ASSUME NEW w \in Workers, at[w].pc # "idle" PROVE Level
    <2>1. Paced(w) /\ ~Between(w) /\ at[w] \in Copies  BY <1>2 DEF Steady, TInv, MTypeOK
    <2>2. at[w].pc \in PollSteps \cup EditSteps  BY <1>3, <2>1 DEF Copies
    <2>3. CASE at[w].pc \in {"resume", "enforce", "flush", "counters"}
      BY <2>1, <2>3, Numbers DEF Paced, Between, Level
    <2>4. CASE at[w].pc = "state"  BY <2>1, <2>4 DEF Paced, Between
    <2>5. CASE at[w].pc \in {"latest", "clients", "panel", "charge"} \cup EditSteps
      BY <2>1, <2>5 DEF Paced
    <2> QED  BY <2>2, <2>3, <2>4, <2>5 DEF PollSteps
  <1>4. Level  BY <1>3 DEF Steady, Quiet
  <1>5. Alone' /\ \A w \in Workers : Paced(w)'  BY <1>1 DEF Alone, Paced, EditSteps
  <1> QED  BY <1>1, <1>4, <1>5 DEF Steady, Level

LEMMA InitSteady == ASSUME 0 \notin Starts, Init PROVE EInv
  <1>1. TInv  BY InitTyped
  <1>2. PICK s \in Starts, k \in Kinds :
          /\ usage = [life |-> s, base |-> 0, start |-> 0]
          /\ meter = [life |-> s, raw |-> s, epoch |-> IF s = 0 THEN 0 ELSE k]
    BY DEF Init
  <1>3. at = [w \in Workers |-> Rest] /\ raised = 0  BY DEF Init
  <1>4. s \in Nat /\ s > 0  BY MeterAssumption
  <1>5. \A w \in Workers : at[w].pc = "idle"  BY <1>3 DEF Rest
  <1>6. Alone /\ \A w \in Workers : Paced(w)  BY <1>5 DEF Alone, Paced, EditSteps
  <1>7. Level /\ usage.life > 0  BY <1>2, <1>3, <1>4 DEF Level
  <1> QED  BY <1>1, <1>6, <1>7 DEF EInv, Steady

LEMMA StepSteady == ASSUME EInv, [Next]_vars PROVE EInv'
  <1>1. TInv'  BY StepTyped DEF EInv
  <1>2. SUFFICES ASSUME Even' PROVE Steady'  BY <1>1 DEF EInv
  <1>3. TInv /\ Steady  BY <1>2, EvenBefore DEF EInv
  <1>4. CASE \/ (\E n \in Chunks : Carry(n)) \/ Deplete \/ Reset \/ Turn
             \/ (\E x \in Pushers : Fetch(x) \/ Want(x) \/ List(x) \/ Write(x))
             \/ UNCHANGED vars
    <2>1. UNCHANGED <<at, usage, meter, raised>>
      BY <1>4 DEF Carry, Deplete, Reset, Turn, Fetch, Want, List, Write, vars, state, past
    <2> QED  BY <1>3, <2>1, AsideSteady
  <1>5. ASSUME NEW w \in Workers, Poll(w) PROVE Steady'
    <2>1. CASE PollOnce(w)  BY <1>2, <1>3, <2>1, BeginSteady DEF PollOnce
    <2>2. CASE Latest(w, "latest", "clients") \/ Clients(w, "clients", "panel") \/ ReadPanel(w)
      BY <1>3, <2>2, ReadsSteady
    <2>3. CASE Charge(w) \/ RollOver(w) \/ Resume(w) \/ Enforce(w)
      BY <1>2, <1>3, <2>3, ChargesSteady
    <2>4. CASE FlushSnapshot(w) \/ FlushCounters(w) \/ FlushState(w)
      BY <1>2, <1>3, <2>4, FlushesSteady
    <2> QED  BY <1>5, <2>1, <2>2, <2>3, <2>4 DEF Poll
  <1>6. ASSUME NEW w \in Workers, Edit(w) PROVE Steady'
    <2>1. CASE SetPeriodUsage(w)
      <3>1. PICK x \in Amounts : Begin(w, "prior", x)  BY <2>1 DEF SetPeriodUsage
      <3>2. x \in Nat  BY MeterAssumption
      <3> QED  BY <1>2, <1>3, <3>1, <3>2, BeginSteady
    <2>2. CASE Latest(w, "prior", "insert") \/ Clients(w, "list", "reseed")
      BY <1>3, <2>2, ReadsSteady
    <2>3. CASE InsertSnapshot(w) \/ UpdateTrafficState(w) \/ Reseed(w) \/ Switch(w)
      BY <1>3, <2>3, EditsSteady
    <2> QED  BY <1>6, <2>1, <2>2, <2>3 DEF Edit
  <1>7. CASE Crash  BY <1>2, <1>3, <1>7, CrashSteady
  <1> QED  BY <1>4, <1>5, <1>6, <1>7 DEF Next

\* Between polls nothing is charged to the client and not to the user, nor to the user
\* twice, if the user was charged something before the meter started, no polls and edits
\* overlapped and no flush was cut between the two rows.
THEOREM EachByteChargedOnce == 0 \notin Starts /\ Spec => []ChargedOnce
  <1>1. EInv => ChargedOnce  BY DEF EInv, Even, Steady, Level, ChargedOnce
  <1>2. 0 \notin Starts /\ Init => EInv  BY InitSteady
  <1>3. EInv /\ [Next]_vars => EInv'  BY StepSteady
  <1> QED  BY <1>1, <1>2, <1>3, PTL DEF Spec
=============================================================================
