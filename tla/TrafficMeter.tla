---------------------------- MODULE TrafficMeter ----------------------------
(***************************************************************************)
(* How the traffic of one user is metered and capped                       *)
(* (internal/service/traffic, internal/domain/traffic_cap.go).             *)
(*                                                                         *)
(* The panel counts what the user's shared client carries and cuts the     *)
(* client off at its cap.  A poll reads the counter, charges what was      *)
(* added since its last reading to the client row and to the user row,     *)
(* and suspends a user whose allowance is spent.  A push recomputes the    *)
(* cap: the last reading plus what is left of the allowance.  The two      *)
(* rows are written by separate calls from copies read minutes before,     *)
(* polls may overlap each other and the administrator's edit of the usage, *)
(* and any of the writes may fail.                                         *)
(***************************************************************************)
EXTENDS Integers, FiniteSets

CONSTANTS
  Workers,      \* goroutines that poll or edit the usage
  Pushers,      \* goroutines that push the lifecycle
  Limit,        \* the allowance of a period
  BandDivisor,  \* the share of the headroom a stored cap may be too generous by
  Starts,       \* usage the user and the client may have on record at the start
  Kinds,        \* counters of the panel: 0 may go back, 1 starts a new epoch on a reset
  Amounts,      \* usage an administrator may set
  Chunks,       \* what the client may carry at a time
  MaxCarried,   \* bound on the traffic carried
  MaxPeriods,   \* bound on the turns of the period
  MaxOps,       \* bound on polls and edits begun
  MaxResets,    \* bound on resets of the panel's counter
  MaxFaults     \* bound on calls that fail and crashes of the process

ASSUME MeterAssumption ==
  /\ Limit \in Nat \ {0} /\ BandDivisor \in Nat \ {0}
  /\ Chunks \subseteq Nat /\ Starts \subseteq Nat /\ Kinds \subseteq {0, 1} /\ Amounts \subseteq Nat
  /\ MaxCarried \in Nat /\ MaxPeriods \in Nat /\ MaxOps \in Nat
  /\ MaxResets \in Nat /\ MaxFaults \in Nat

VARIABLES
  usage,    \* the traffic columns of the user row
  held,     \* whether the service is suspended for traffic
  snap,     \* the total of the user's latest snapshot
  meter,    \* the counters of the client row
  desired,  \* the lifecycle of the client row
  panel,    \* the client on the panel
  at,       \* where each worker is, and its copies
  push,     \* where each push is, and its copies
  period,   \* the calendar's current period
  carried,  \* history: all the traffic the client has carried
  raised,   \* history: what administrators added to the usage
  upset,    \* history: what has happened that may part the two rows
  left      \* what is left of the bounds

state == <<usage, held, snap, meter, desired, panel>>
past  == <<carried, raised, upset>>
vars  == <<state, at, push, period, past, left>>

Larger(a, b) == IF a > b THEN a ELSE b

Usage   == [life : Nat, base : Nat, start : Nat]
Meter   == [life : Nat, raw : Nat, epoch : Nat]
Desired == [head : Nat \ {0}, on : BOOLEAN, of : Nat]

PollSteps == {"latest", "clients", "panel", "charge", "resume", "enforce", "flush", "counters", "state"}
EditSteps == {"prior", "insert", "write", "list", "reseed", "switch"}
PushSteps == {"idle", "want", "list", "write"}

\* prev is the snapshot read, d what the poll charges, dirty whether the client row has
\* counters to write, rolled whether the period turned in this poll, x the usage to set.
Copies == [pc : {"idle"} \cup PollSteps \cup EditSteps, u : Usage, held : BOOLEAN, prev : Nat,
           m : Meter, d : Nat, dirty : BOOLEAN, rolled : BOOLEAN, x : Nat]
Blank == [life |-> 0, base |-> 0, start |-> 0]
Rest  == [pc |-> "idle", u |-> Blank, held |-> FALSE, prev |-> 0,
          m |-> [life |-> 0, raw |-> 0, epoch |-> 0], d |-> 0, dirty |-> FALSE,
          rolled |-> FALSE, x |-> 0]

\* A push has the user's columns first, then the client row: raw, head, on and of.
Pushes == [pc : PushSteps, life : Nat, base : Nat, on : BOOLEAN, raw : Nat, head : Nat, of : Nat]
Done   == [pc |-> "idle", life |-> 0, base |-> 0, on |-> FALSE, raw |-> 0, head |-> 0, of |-> 0]

Bounds == {"ops", "resets", "faults"}
Spend(b) == left[b] > 0 /\ left' = [left EXCEPT ![b] = left[b] - 1]

Init ==
  \E s \in Starts, k \in Kinds :
    /\ usage = [life |-> s, base |-> 0, start |-> 0] /\ held = FALSE /\ snap = s
    /\ meter = [life |-> s, raw |-> s, epoch |-> IF s = 0 THEN 0 ELSE k]
    /\ desired = [head |-> Limit, on |-> TRUE, of |-> 0]
    /\ panel = [count |-> s, epoch |-> k, cap |-> 0, on |-> TRUE, of |-> 0]
    /\ at = [w \in Workers |-> Rest] /\ push = [x \in Pushers |-> Done]
    /\ period = 0 /\ carried = s /\ raised = 0 /\ upset = {}
    /\ left = [ops |-> MaxOps, resets |-> MaxResets, faults |-> MaxFaults]
-----------------------------------------------------------------------------
\* The panel: what it carries, the sweep that cuts a client off at its cap, and a
\* counter that goes back to zero.  `of` is history, the baseline the cap was computed for.
Spent == panel.cap # 0 /\ panel.count >= panel.cap

Carry(n) ==
  /\ panel.on /\ ~Spent /\ carried + n <= MaxCarried
  /\ panel' = [panel EXCEPT !.count = panel.count + n]
  /\ carried' = carried + n
  /\ UNCHANGED <<usage, held, snap, meter, desired, at, push, period, raised, upset, left>>

Deplete ==
  /\ panel.on /\ Spent
  /\ panel' = [panel EXCEPT !.on = FALSE]
  /\ UNCHANGED <<usage, held, snap, meter, desired, at, push, period, past, left>>

Reset ==
  /\ panel.count > 0 /\ Spend("resets")
  /\ panel' = [panel EXCEPT !.count = 0,
                            !.epoch = IF panel.epoch = 0 THEN 0 ELSE panel.epoch + 1]
  /\ UNCHANGED <<usage, held, snap, meter, desired, at, push, period, past>>

Turn ==
  /\ period < MaxPeriods /\ period' = period + 1
  /\ UNCHANGED <<state, at, push, past, left>>
-----------------------------------------------------------------------------
\* The pushes.  A floor push follows a poll, a suspension and a resumption push, and
\* so do the sweeps, the queued retries and most requests about the user: here a push
\* of the user's row as it is may begin at any time.
Used(u) == IF u.life >= u.base THEN u.life - u.base ELSE 0

\* trafficFloor: 1, not 0, when nothing is left, since a panel takes 0 for unlimited.
TrafficFloor(u) == IF Used(u) < Limit THEN Limit - Used(u) ELSE 1

\* Slip: the headroom is sent as it is, against a counter that is never reset.
BareCap(r) == r.head
PanelQuotaCap(r) == r.raw + r.head

\* A cap that is too strict is always corrected.
WithinBand(stored, r) ==
  stored >= PanelQuotaCap(r) /\ stored - PanelQuotaCap(r) <= r.head \div BandDivisor

Put(x, c) == push' = [push EXCEPT ![x] = c]

Fetch(x) ==
  /\ push[x].pc = "idle"
  /\ Put(x, [Done EXCEPT !.pc = "want", !.life = usage.life, !.base = usage.base, !.on = ~held])
  /\ UNCHANGED <<state, at, period, past, left>>

\* The intent goes on the client row, and whatever intent is there then is pushed.
Want(x) ==
  /\ push[x].pc = "want"
  /\ desired' = [head |-> TrafficFloor(push[x]), on |-> push[x].on, of |-> push[x].base]
  /\ Put(x, [Done EXCEPT !.pc = "list"])
  /\ UNCHANGED <<usage, held, snap, meter, panel, at, period, past, left>>

List(x) ==
  /\ push[x].pc = "list"
  /\ Put(x, [Done EXCEPT !.pc = "write", !.raw = meter.raw, !.head = desired.head,
                          !.on = desired.on, !.of = desired.of])
  /\ UNCHANGED <<state, at, period, past, left>>

\* The call to the panel: nothing to write, written, or failed before or after it was.
\* When the panel could not be read first, the write is made whatever it holds.
Holds(r) == WithinBand(panel.cap, r) /\ panel.on = r.on

Write(x) ==
  /\ push[x].pc = "write"
  /\ \/ /\ Holds(push[x]) /\ UNCHANGED left
        /\ panel' = [panel EXCEPT !.of = push[x].of]
     \/ /\ (~Holds(push[x]) /\ UNCHANGED left) \/ Spend("faults")
        /\ panel' = [panel EXCEPT !.cap = PanelQuotaCap(push[x]), !.on = push[x].on,
                                  !.of = push[x].of]
     \/ Spend("faults") /\ UNCHANGED panel
  /\ Put(x, Done)
  /\ UNCHANGED <<usage, held, snap, meter, desired, at, period, past>>
-----------------------------------------------------------------------------
\* The poll.  It lists the users, their latest snapshots and the clients, and reads the
\* panels.  Nothing keeps two polls, or a poll and an edit, apart.
Quiet == \A w \in Workers : at[w].pc = "idle"
Crowd == IF Quiet THEN {} ELSE {"overlap"}

Move(w, c)  == at' = [at EXCEPT ![w] = c]
Go(w, step) == Move(w, [at[w] EXCEPT !.pc = step])
End(w)      == Move(w, Rest)

Begin(w, step, x) ==
  /\ at[w].pc = "idle" /\ Spend("ops")
  /\ Move(w, [Rest EXCEPT !.pc = step, !.u = usage, !.held = held, !.x = x])
  /\ upset' = upset \cup Crowd
  /\ UNCHANGED <<state, push, period, carried, raised>>

PollOnce(w) == Begin(w, "latest", 0)

\* One read of a list, into the worker's copies.
Latest(w, step, next) ==
  /\ at[w].pc = step
  /\ Move(w, [at[w] EXCEPT !.pc = next, !.prev = snap])
  /\ UNCHANGED <<state, push, period, past, left>>

Clients(w, step, next) ==
  /\ at[w].pc = step
  /\ Move(w, [at[w] EXCEPT !.pc = next, !.m = meter])
  /\ UNCHANGED <<state, push, period, past, left>>

\* recordSharedClientStats: a new epoch, or the first reading ever, is taken as the new
\* baseline and charges nothing.  A plain counter that went back counts from zero.
Adopts(m) == panel.epoch > 0 /\ m.epoch # panel.epoch
\* Slip: a counter that went back is subtracted all the same.
DeltaUnchecked(m) == IF Adopts(m) \/ m.raw = 0 THEN 0 ELSE panel.count - m.raw
Delta(m) ==
  IF Adopts(m) \/ m.raw = 0 THEN 0
  ELSE IF panel.count >= m.raw THEN panel.count - m.raw
       ELSE IF panel.epoch > 0 THEN 0 ELSE panel.count
\* Slip: the reading is not kept.
ReadingLost(m) == [m EXCEPT !.life = m.life + Delta(m)]
Reading(m) ==
  IF Adopts(m) \/ m.raw = 0 \/ Delta(m) > 0
  THEN [life |-> m.life + Delta(m), raw |-> panel.count,
        epoch |-> IF panel.epoch > 0 THEN panel.epoch ELSE m.epoch]
  ELSE m

ReadPanel(w) ==
  /\ at[w].pc = "panel"
  /\ \/ /\ Move(w, [at[w] EXCEPT !.pc = "charge", !.m = Reading(at[w].m),
                 !.d = Delta(at[w].m), !.dirty = (Reading(at[w].m) # at[w].m)])
        /\ UNCHANGED left
     \/ Spend("faults") /\ Go(w, "charge")
  /\ UNCHANGED <<state, push, period, past>>

\* recordAndEnforce: the user's lifetime; a user without one starts from the latest
\* snapshot.  When the period has turned, the baseline is the lifetime before this poll.
Life(w) ==
  IF at[w].d = 0 THEN at[w].u.life
  ELSE (IF at[w].u.life = 0 THEN at[w].prev ELSE at[w].u.life) + at[w].d
Rolls(w) == at[w].u.start # period
Charged(w) ==
  [life |-> Life(w), base |-> IF Rolls(w) THEN Life(w) - at[w].d ELSE at[w].u.base,
   start |-> period]

Charge(w) ==
  /\ at[w].pc = "charge" /\ ~Rolls(w)
  /\ Move(w, [at[w] EXCEPT !.pc = "enforce", !.u = Charged(w)])
  /\ UNCHANGED <<state, push, period, past, left>>

\* A rollover writes the user row at once, before the client's counters, so that the
\* resumption that follows reads the new period.
RollOver(w) ==
  /\ at[w].pc = "charge" /\ Rolls(w)
  /\ Move(w, [at[w] EXCEPT !.pc = IF at[w].held THEN "resume" ELSE "enforce",
                            !.u = Charged(w), !.rolled = TRUE])
  /\ \/ /\ usage' = Charged(w) /\ UNCHANGED left
        /\ upset' = upset \cup (IF at[w].d > 0 THEN {"early"} ELSE {})
     \/ /\ Spend("faults") /\ UNCHANGED usage
        /\ upset' = upset \cup (IF at[w].d > 0 THEN {"cut"} ELSE {})
  /\ UNCHANGED <<held, snap, meter, desired, panel, push, period, carried, raised>>

Resume(w) ==
  /\ at[w].pc = "resume"
  /\ held' = FALSE
  /\ Move(w, [at[w] EXCEPT !.pc = "enforce", !.held = FALSE])
  /\ UNCHANGED <<usage, snap, meter, desired, panel, push, period, past, left>>

\* Only a user who moved bytes is looked at.  With nothing to write the poll is over.
Enforce(w) ==
  /\ at[w].pc = "enforce"
  /\ held' = (held \/ (at[w].d > 0 /\ Used(at[w].u) >= Limit /\ ~at[w].held))
  /\ IF at[w].dirty THEN Go(w, "flush") ELSE End(w)
  /\ UNCHANGED <<usage, snap, meter, desired, panel, push, period, past, left>>

FlushSnapshot(w) ==
  /\ at[w].pc = "flush"
  /\ \/ snap' = (IF at[w].d > 0 THEN at[w].u.life ELSE snap) /\ UNCHANGED left
     \/ Spend("faults") /\ UNCHANGED snap
  /\ Go(w, "counters")
  /\ UNCHANGED <<usage, held, meter, desired, panel, push, period, past>>

\* Slip: the user's state is written although the client's counters were not.
AfterCountersAnyway(w, ok) == IF at[w].d > 0 /\ ~at[w].rolled THEN Go(w, "state") ELSE End(w)
\* Counters that were not written hold the user's state back.
AfterCounters(w, ok) == IF ok /\ at[w].d > 0 /\ ~at[w].rolled THEN Go(w, "state") ELSE End(w)

FlushCounters(w) ==
  /\ at[w].pc = "counters"
  /\ \/ meter' = at[w].m /\ AfterCounters(w, TRUE) /\ UNCHANGED <<upset, left>>
     \/ /\ Spend("faults") /\ AfterCounters(w, FALSE) /\ UNCHANGED meter
        /\ upset' = upset \cup (IF at[w].d > 0 /\ at[w].rolled THEN {"cut"} ELSE {})
  /\ UNCHANGED <<usage, held, snap, desired, panel, push, period, carried, raised>>

FlushState(w) ==
  /\ at[w].pc = "state"
  /\ \/ usage' = at[w].u /\ UNCHANGED <<upset, left>>
     \/ Spend("faults") /\ UNCHANGED usage /\ upset' = upset \cup {"cut"}
  /\ End(w)
  /\ UNCHANGED <<held, snap, meter, desired, panel, push, period, carried, raised>>
-----------------------------------------------------------------------------
\* The administrator's edit of the usage of this period (SetPeriodUsage).
SetPeriodUsage(w) == \E x \in Amounts : Begin(w, "prior", x)

InsertSnapshot(w) ==
  /\ at[w].pc = "insert"
  /\ \/ /\ snap' = Larger(at[w].prev, at[w].x) /\ UNCHANGED left
        /\ Move(w, [at[w] EXCEPT !.pc = "write", !.prev = Larger(at[w].prev, at[w].x)])
     \/ Spend("faults") /\ End(w) /\ UNCHANGED snap
  /\ UNCHANGED <<usage, held, meter, desired, panel, push, period, past>>

Edited(w) ==
  LET life == Larger(at[w].u.life, at[w].prev)
  IN [life |-> life, base |-> life - at[w].x, start |-> period]

UpdateTrafficState(w) ==
  /\ at[w].pc = "write"
  /\ \/ /\ usage' = Edited(w) /\ raised' = raised + (Edited(w).life - at[w].u.life)
        /\ Go(w, "list") /\ UNCHANGED left
     \/ Spend("faults") /\ End(w) /\ UNCHANGED <<usage, raised>>
  /\ UNCHANGED <<held, snap, meter, desired, panel, push, period, carried, upset>>

\* reseedSharedBaselines writes the counters back as it read them; the per-client
\* baselines it sets are for display.
Reseed(w) ==
  /\ at[w].pc = "reseed"
  /\ \/ meter' = at[w].m /\ UNCHANGED left
     \/ Spend("faults") /\ UNCHANGED meter
  /\ Go(w, "switch")
  /\ UNCHANGED <<usage, held, snap, desired, panel, push, period, past>>

Switch(w) ==
  /\ at[w].pc = "switch"
  /\ held' = (IF (at[w].x >= Limit) # at[w].held THEN at[w].x >= Limit ELSE held)
  /\ End(w)
  /\ UNCHANGED <<usage, snap, meter, desired, panel, push, period, past, left>>
-----------------------------------------------------------------------------
\* Whether stopping here leaves only one of the two rows written.
Between(w) ==
  /\ at[w].d > 0
  /\ \/ at[w].pc = "state"
     \/ at[w].rolled /\ at[w].pc \in {"resume", "enforce", "flush", "counters"}

Crash ==
  /\ Spend("faults")
  /\ at' = [w \in Workers |-> Rest] /\ push' = [x \in Pushers |-> Done]
  /\ upset' = upset \cup (IF \E w \in Workers : Between(w) THEN {"cut"} ELSE {})
  /\ UNCHANGED <<state, period, carried, raised>>

Poll(w) ==
  \/ PollOnce(w) \/ Latest(w, "latest", "clients") \/ Clients(w, "clients", "panel")
  \/ ReadPanel(w) \/ Charge(w) \/ RollOver(w) \/ Resume(w) \/ Enforce(w)
  \/ FlushSnapshot(w) \/ FlushCounters(w) \/ FlushState(w)

Edit(w) ==
  \/ SetPeriodUsage(w) \/ Latest(w, "prior", "insert") \/ InsertSnapshot(w)
  \/ UpdateTrafficState(w) \/ Clients(w, "list", "reseed") \/ Reseed(w) \/ Switch(w)

Next ==
  \/ \E n \in Chunks : Carry(n)
  \/ Deplete \/ Reset \/ Turn
  \/ \E x \in Pushers : Fetch(x)
  \/ \E x \in Pushers : Want(x) \/ List(x) \/ Write(x)
  \/ \E w \in Workers : Poll(w) \/ Edit(w)
  \/ Crash

Spec == Init /\ [][Next]_vars
-----------------------------------------------------------------------------
\* The type invariant: rows, copies and history keep their shape; no counter is negative.
MTypeOK ==
  /\ usage \in Usage /\ held \in BOOLEAN /\ snap \in Nat /\ meter \in Meter
  /\ desired \in Desired
  /\ panel \in [count : Nat, epoch : Nat, cap : Nat, on : BOOLEAN, of : Nat]
  /\ at \in [Workers -> Copies] /\ push \in [Pushers -> Pushes]
  /\ period \in Nat /\ carried \in Nat /\ raised \in Nat
  /\ upset \subseteq {"overlap", "early", "cut"}
  /\ left \in [Bounds -> Nat]

\* The client is never charged for more than it carried: however polls and edits
\* overlap, whichever writes fail and whenever the counter goes back or the process stops.
ClientNeverOvercharged == meter.life <= carried

\* Nothing is charged to the client and not to the user or the other way round, but
\* for polls and edits that overlap and flushes cut between the two rows: a failed write
\* of the client's counters holds the user's state back.  What an edit takes over from
\* the snapshot of a poll whose counters failed counts as raised by the edit.
ChargedOnce ==
  Quiet /\ upset \subseteq {"early"} => usage.life = meter.life + raised

\* The panel cuts off only a user who has spent the allowance the cap was computed for,
\* although the cap mixes a reading and a usage read at different times; as long as polls
\* and edits do not overlap and no rollover wrote the usage before the counters.
CutOnlyWhenSpent ==
  Spent /\ upset \subseteq {"cut"} => carried + raised >= Limit + panel.of
=============================================================================
