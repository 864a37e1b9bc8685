----------------------------- MODULE UserAccess -----------------------------
(***************************************************************************)
(* One user account, its shared client on one panel, and everything that   *)
(* writes them: administrators, the user's own emergency grant, the        *)
(* traffic poll, the location detector, deletion, the membership resync    *)
(* and the sync-task runner (internal/service/user/user.go).               *)
(*                                                                         *)
(* Each operation reads the row, writes some of its columns and then       *)
(* pushes what its own copy of the row asks for: the intent goes on the    *)
(* client row first, and from there to the panel.  Some operations hold    *)
(* the user's lock throughout, the emergency grant and the poll's clear    *)
(* hold the emergency lock over their writes, the others hold nothing.     *)
(* Quota and expiry are the reasons on the row; when they hold is free.    *)
(***************************************************************************)
EXTENDS Integers, FiniteSets

CONSTANTS
  Workers,     \* the goroutines of requests and of the traffic poll
  Ops,         \* the operations they perform
  Loops,       \* which of the loops "healer" and "runner" are up
  Starts,      \* the reasons the service may be suspended for at the start
  MaxUses,     \* emergency grants a user may take
  HoldTime,    \* how long an automatic location suspension lasts
  MaxTime,     \* bound on the clock
  MaxOps,      \* bound on the operations begun by workers
  MaxFaults,   \* bound on panel calls that fail
  MaxCrashes   \* bound on crashes of the process

\* A hold by a person or by the client policy, and the location detector's own.
Hard      == {"service_manual", "geo_auto"}
Suspended == Hard \cup {"traffic_exceeded"}
Reasons   == {"none"} \cup Suspended

AllOps == {"suspend", "quota", "resume", "rollover", "detect", "lift", "resumeif",
           "enable", "disable", "profile", "emergency", "reset", "delete"}

ASSUME AccessAssumption ==
  /\ MaxUses \in Nat /\ HoldTime \in Nat /\ MaxTime \in Nat /\ MaxOps \in Nat
  /\ MaxFaults \in Nat /\ MaxCrashes \in Nat
  /\ Ops \subseteq AllOps /\ Starts \subseteq Reasons
  /\ Loops \subseteq {"healer", "runner"} /\ Workers \cap {"healer", "runner", "nobody"} = {}

VARIABLES
  user,     \* the account's row, or Gone
  client,   \* its client row, or NoClient: intent, and whether the panel confirmed it
  panel,    \* the client on the panel
  ulock,    \* who holds the user's lock
  elock,    \* who holds the emergency lock
  push,     \* the queued push of this user
  remove,   \* the queued deletion of this user
  worker,   \* where each goroutine is, and its copy of the row
  now, begun, faults, crashes

rows  == <<user, client, panel>>
locks == <<ulock, elock>>
tasks == <<push, remove>>
clock == <<now, begun, faults, crashes>>
vars  == <<rows, locks, tasks, worker, clock>>

Gone     == [account |-> "gone", svc |-> "none", at |-> 0, until |-> 0, used |-> 0]
NoClient == [desired |-> FALSE, applied |-> FALSE, exists |-> FALSE]
Nobody   == "nobody"
Procs    == Workers \cup {"healer", "runner"}
Hours    == 1  \* how long an emergency window lasts

Accounts == {"active", "manual", "pending_delete"}
Rows     == [account : Accounts \cup {"gone"}, svc : Reasons, at : 0..MaxTime,
             until : 0..(MaxTime + Hours), used : 0..MaxUses]
Idle     == [op |-> "idle", pc |-> "idle", snap |-> Gone, cutoff |-> 0,
             reason |-> "none", sent |-> FALSE]

Here(u) == u.account # "gone"

\* What the panel is asked for: an account lock and a hard hold cut the service,
\* an emergency window gives it back to a user out of quota.
Effective(u) ==
  u.account = "active" /\ u.svc \notin Hard /\ (u.until > now \/ u.svc = "none")

\* Slip: the lift decides without the lock.
LockedForWrites == {"detect", "resync"}

\* The operations that hold the user's lock from their first read to their last push.
Locked == {"detect", "lift", "resumeif", "resync"}

Init ==
  /\ now = 0 /\ begun = 0 /\ faults = 0 /\ crashes = 0
  /\ \E r \in Starts : user = [account |-> "active", svc |-> r, at |-> 0, until |-> 0, used |-> 0]
  /\ client = [desired |-> Effective(user), applied |-> TRUE, exists |-> TRUE]
  /\ panel = IF Effective(user) THEN "on" ELSE "off"
  /\ ulock = Nobody /\ elock = Nobody /\ push = "none" /\ remove = "none"
  /\ worker = [p \in Procs |-> Idle]

At(p, pc) == worker[p].pc = pc
Doing(p, op, pc) == worker[p].op = op /\ worker[p].pc = pc

Move(p, pc) == worker' = [worker EXCEPT ![p].pc = pc]
MoveWith(p, pc, u) == worker' = [worker EXCEPT ![p].pc = pc, ![p].snap = u]

\* The end of an operation: the user's lock is released with it.
End(p) ==
  /\ worker' = [worker EXCEPT ![p] = Idle]
  /\ ulock' = IF ulock = p THEN Nobody ELSE ulock

(***************************************************************************)
(* Beginning an operation, and its first read.                             *)
(***************************************************************************)

\* What an operation knows before it reads or waits: the poll's list of users, the
\* reason a screen showed, the time before which a suspension is due.
Call(op, pc) ==
  [Idle EXCEPT !.op = op, !.pc = pc, !.snap = user, !.cutoff = now - HoldTime,
               !.reason = user.svc]

\* A rollover is decided on the poll's list, a screen resumes the reason it shows.
Reasonable(op) ==
  /\ Here(user)
  /\ op = "rollover" => user.svc = "traffic_exceeded"
  /\ op = "quota" => /\ user.account = "active" /\ user.svc \notin Hard
                     /\ user.svc = "traffic_exceeded" => user.until > now
  /\ op = "resumeif" => user.svc \in Suspended
  /\ op = "lift" => user.svc = "geo_auto"

FirstStep(op) ==
  IF op \in Locked THEN "lock"
  ELSE IF op = "emergency" THEN "elock"
  ELSE IF op = "rollover" \/ (op = "quota" /\ user.until > now) THEN "window" ELSE "read"

Begin(p, op) ==
  /\ At(p, "idle") /\ begun < MaxOps /\ Reasonable(op)
  /\ begun' = begun + 1
  /\ worker' = [worker EXCEPT ![p] = Call(op, FirstStep(op))]
  /\ UNCHANGED <<rows, locks, tasks, now, faults, crashes>>

\* The sweep over all accounts skips those being deleted; it acts on a listed
\* user, who is read again under the lock.
Heal ==
  /\ "healer" \in Loops /\ At("healer", "idle")
  /\ Here(user) /\ user.account # "pending_delete"
  /\ worker' = [worker EXCEPT !["healer"] = [Idle EXCEPT !.op = "resync", !.pc = "lock"]]
  /\ UNCHANGED <<rows, locks, tasks, clock>>

Lock(p) ==
  /\ At(p, "lock") /\ ulock = Nobody
  /\ ulock' = p
  /\ Move(p, IF worker[p].op = "detect" THEN "mark" ELSE "read")
  /\ UNCHANGED <<rows, elock, tasks, clock>>

\* Slip: the grant is not serialised.
ELockShared(p) ==
  /\ At(p, "elock")
  /\ elock' = p
  /\ Move(p, "read")
  /\ UNCHANGED <<rows, ulock, tasks, clock>>

ELock(p) ==
  /\ At(p, "elock") /\ elock = Nobody
  /\ elock' = p
  /\ Move(p, "read")
  /\ UNCHANGED <<rows, ulock, tasks, clock>>

\* The poll ends the emergency window of a user whose period turned over, or who
\* used the window up, in one write under the emergency lock.
EndWindow(p) ==
  /\ At(p, "window") /\ elock = Nobody
  /\ user' = [user EXCEPT !.until = 0]
  /\ Move(p, "read")
  /\ UNCHANGED <<client, panel, locks, tasks, clock>>

\* Slip: the last use is never the last.
RemainsOne(u) == u.used <= MaxUses

\* The uses of emergency access that are left.
Remains(u) == u.used < MaxUses

\* Whether the row an operation has read lets it go on.
MayGo(w, u) ==
  /\ Here(u)
  /\ w.op = "quota" => u.svc \notin Hard
  /\ w.op = "lift" => u.svc = "geo_auto" /\ u.at <= w.cutoff
  /\ w.op = "resumeif" => u.svc = w.reason
  /\ w.op = "emergency" => u.account = "active" /\ u.until <= now /\ u.svc \notin Hard
                           /\ Remains(u)
  /\ w.op = "reset" => u.used > 0 \/ u.until > 0
  /\ w.op = "resync" => u.account # "pending_delete"

AfterRead(op) ==
  IF op \in {"suspend", "quota"} THEN "mark"
  ELSE IF op \in {"resume", "rollover", "lift", "resumeif"} THEN "clear"
  ELSE IF op = "resync" THEN "plan"
  ELSE IF op \in {"detect", "push"} THEN "want" ELSE "save"

\* A refused operation ends; the detector's own suspension is written before it
\* reads, so a user gone since then leaves a push to queue.
Read(p) ==
  /\ At(p, "read")
  /\ IF MayGo(worker[p], user)
     THEN MoveWith(p, AfterRead(worker[p].op), user) /\ UNCHANGED <<locks, tasks>>
     ELSE IF worker[p].op = "detect" THEN Move(p, "queue") /\ UNCHANGED <<locks, tasks>>
     ELSE /\ End(p)
          /\ elock' = IF elock = p THEN Nobody ELSE elock
          /\ push' = IF worker[p].op = "push" THEN "none" ELSE push
          /\ remove' = IF worker[p].op = "remove" THEN "none" ELSE remove
  /\ UNCHANGED <<rows, clock>>

(***************************************************************************)
(* The writes of the user row.                                             *)
(***************************************************************************)

\* The account an operation saves: its own copy's, unless changing it is its point.
Saved(w) ==
  IF w.op = "enable" THEN "active"
  ELSE IF w.op = "disable" THEN "manual"
  ELSE IF w.op \in {"delete", "remove"} THEN "pending_delete" ELSE w.snap.account

\* A profile edit also resumes a user its copy shows out of quota, if the edit gives
\* quota back or an emergency window is open.
AfterSave(w) ==
  IF w.op = "reset" THEN {"end"}
  ELSE IF w.op = "emergency" THEN {"mark"}
  ELSE IF w.op \in {"delete", "remove"} THEN {"rows"}
  ELSE IF w.op = "profile" /\ w.snap.svc = "traffic_exceeded"
       THEN {"clear"} \cup IF w.snap.until > now THEN {} ELSE {"want", "end"}
  ELSE IF w.op = "profile" THEN {"want", "end"} ELSE {"want"}

\* Saving writes every column but those of the service and of the emergency window;
\* a row deleted meanwhile is inserted again, with those at their defaults.
Save(p) ==
  LET w == worker[p] IN
  /\ At(p, "save")
  /\ user' = [user EXCEPT !.account = Saved(w)]
  /\ \E pc \in AfterSave(w) :
       IF pc = "end" THEN End(p)
       ELSE MoveWith(p, pc, [w.snap EXCEPT !.account = Saved(w)]) /\ UNCHANGED ulock
  /\ UNCHANGED <<client, panel, elock, tasks, clock>>

\* The columns of the service, written to a row that still exists.
WithService(u, r) ==
  IF Here(u) THEN [u EXCEPT !.svc = r, !.at = IF r = "geo_auto" THEN now ELSE 0] ELSE u

MarkedAs(op) == IF op = "suspend" THEN "service_manual" ELSE "traffic_exceeded"

Mark(p) ==
  LET r == MarkedAs(worker[p].op) IN
  /\ At(p, "mark") /\ worker[p].op # "detect"
  /\ user' = WithService(user, r)
  /\ MoveWith(p, IF worker[p].op = "emergency" THEN "grant" ELSE "want",
              WithService(worker[p].snap, r))
  /\ UNCHANGED <<client, panel, locks, tasks, clock>>

\* Slip: the write takes no emergency lock.
DetectAnyway(p) ==
  /\ Doing(p, "detect", "mark")
  /\ IF Here(user) /\ user.svc = "none"
     THEN user' = WithService(user, "geo_auto") /\ Move(p, "read") /\ UNCHANGED ulock
     ELSE UNCHANGED user /\ End(p)
  /\ UNCHANGED <<client, panel, elock, tasks, clock>>

\* The detector suspends a user in good standing only, in one conditional write
\* under the emergency lock.
Detect(p) ==
  /\ Doing(p, "detect", "mark") /\ elock = Nobody
  /\ IF Here(user) /\ user.svc = "none"
     THEN user' = WithService(user, "geo_auto") /\ Move(p, "read") /\ UNCHANGED ulock
     ELSE UNCHANGED user /\ End(p)
  /\ UNCHANGED <<client, panel, elock, tasks, clock>>

\* A lift and the resume of a screen clear their own reason only; the plain resume,
\* the rollover and the profile edit clear whatever is there.
Conditional == {"lift", "resumeif"}

Clear(p) ==
  LET w == worker[p] IN
  /\ At(p, "clear")
  /\ IF w.op \in Conditional /\ user.svc # w.reason
     THEN UNCHANGED user /\ End(p)
     ELSE user' = WithService(user, "none") /\ UNCHANGED ulock
          /\ MoveWith(p, "want", WithService(w.snap, "none"))
  /\ UNCHANGED <<client, panel, elock, tasks, clock>>

\* The window is opened and a use spent; the emergency lock ends here, before the push.
Granted(u, used) == IF Here(u) THEN [u EXCEPT !.until = now + Hours, !.used = used] ELSE u

Grant(p) ==
  LET used == worker[p].snap.used + 1 IN
  /\ At(p, "grant")
  /\ user' = Granted(user, used)
  /\ elock' = Nobody
  /\ MoveWith(p, "want", Granted(worker[p].snap, used))
  /\ UNCHANGED <<client, panel, ulock, tasks, clock>>

(***************************************************************************)
(* The push: intent on the client row, then the panel.                     *)
(***************************************************************************)

Want(p) ==
  /\ At(p, "want")
  /\ client' = IF client.exists THEN [client EXCEPT !.desired = Effective(worker[p].snap)] ELSE client
  /\ Move(p, "list")
  /\ UNCHANGED <<user, panel, locks, tasks, clock>>

\* What ends a push that needs nothing more, and the task that asked for it.
Pushed(p) ==
  /\ IF worker[p].op = "resync" THEN Move(p, "plist") /\ UNCHANGED ulock ELSE End(p)
  /\ push' = IF worker[p].op = "push" THEN "none" ELSE push

\* A failed push is queued, unless one is queued; the runner's own goes back, and a
\* resync goes on to provisioning.
Failed(p) == Move(p, IF worker[p].op = "resync" THEN "plist" ELSE "queue")

\* Only a client the panel confirmed once is pushed; the row is read here.
List(p) ==
  /\ At(p, "list")
  /\ IF client.applied
     THEN /\ worker' = [worker EXCEPT ![p].pc = "write", ![p].sent = client.desired]
          /\ UNCHANGED <<ulock, push>>
     ELSE Pushed(p)
  /\ UNCHANGED <<rows, elock, remove, clock>>

\* A call to the panel that is lost or answered with an error may have been applied.
Fault == faults < MaxFaults /\ faults' = faults + 1

As(sent) == IF sent THEN "on" ELSE "off"

Write(p) ==
  /\ At(p, "write")
  /\ \/ /\ panel # "absent" /\ panel' = As(worker[p].sent)
        /\ Pushed(p) /\ UNCHANGED faults
     \/ /\ panel = "absent" /\ UNCHANGED <<panel, faults, ulock, push>> /\ Failed(p)
     \/ /\ panel # "absent" /\ Fault /\ panel' \in {panel, As(worker[p].sent)}
        /\ Failed(p) /\ UNCHANGED <<ulock, push>>
  /\ UNCHANGED <<user, client, elock, remove, now, begun, crashes>>

Queued(t) == IF t = "none" THEN "pending" ELSE t

Queue(p) ==
  /\ At(p, "queue")
  /\ IF worker[p].op \in {"delete", "remove"}
     THEN UNCHANGED push /\ remove' = IF worker[p].op = "remove" THEN "pending" ELSE Queued(remove)
     ELSE UNCHANGED remove /\ push' = IF worker[p].op = "push" THEN "pending" ELSE Queued(push)
  /\ End(p)
  /\ UNCHANGED <<rows, elock, clock>>

(***************************************************************************)
(* The membership resync: client row, lifecycle, client on the panel.      *)
(***************************************************************************)

\* Slip: a client the panel confirmed is taken to be in order.
PlanOnce(p) ==
  /\ At(p, "plan")
  /\ client' = [client EXCEPT !.exists = TRUE]
  /\ Move(p, IF client.applied THEN "plist" ELSE "want")
  /\ UNCHANGED <<user, panel, locks, tasks, clock>>

\* The client row of the user's group is made, asking for nothing yet.
Plan(p) ==
  /\ At(p, "plan")
  /\ client' = [client EXCEPT !.exists = TRUE]
  /\ Move(p, "want")
  /\ UNCHANGED <<user, panel, locks, tasks, clock>>

ListClients(p) ==
  /\ At(p, "plist")
  /\ IF client.exists
     THEN /\ worker' = [worker EXCEPT ![p].pc = "provision", ![p].sent = client.desired]
          /\ UNCHANGED ulock
     ELSE End(p)
  /\ UNCHANGED <<rows, elock, tasks, clock>>

\* A missing client is created as its row wants it, an existing one is left as it is.
Provision(p) ==
  /\ At(p, "provision")
  /\ \/ /\ panel' = IF panel = "absent" THEN As(worker[p].sent) ELSE panel
        /\ Move(p, "confirm") /\ UNCHANGED <<ulock, faults>>
     \/ /\ panel = "absent" /\ Fault /\ panel' \in {panel, As(worker[p].sent)} /\ End(p)
  /\ UNCHANGED <<user, client, elock, tasks, now, begun, crashes>>

Confirm(p) ==
  /\ At(p, "confirm")
  /\ client' = IF client.exists THEN [client EXCEPT !.applied = TRUE] ELSE client
  /\ End(p)
  /\ UNCHANGED <<user, panel, elock, tasks, clock>>

(***************************************************************************)
(* Deletion: the client on the panel, its row, the user row.               *)
(***************************************************************************)

ListForDelete(p) ==
  /\ At(p, "rows")
  /\ Move(p, IF client.exists THEN "cut" ELSE "drop")
  /\ UNCHANGED <<rows, locks, tasks, clock>>

Cut(p) ==
  /\ At(p, "cut")
  /\ \/ panel' = "absent" /\ Move(p, "forget") /\ UNCHANGED faults
     \/ Fault /\ panel' \in {panel, "absent"} /\ Move(p, "queue")
  /\ UNCHANGED <<user, client, locks, tasks, now, begun, crashes>>

Forget(p) ==
  /\ At(p, "forget")
  /\ client' = NoClient
  /\ Move(p, "drop")
  /\ UNCHANGED <<user, panel, locks, tasks, clock>>

Drop(p) ==
  /\ At(p, "drop")
  /\ user' = Gone
  /\ End(p)
  /\ remove' = IF worker[p].op = "remove" THEN "none" ELSE remove
  /\ UNCHANGED <<client, panel, elock, push, clock>>

(***************************************************************************)
(* The runner, time, and a crash.                                          *)
(***************************************************************************)

Run(op) == worker' = [worker EXCEPT !["runner"] = [Idle EXCEPT !.op = op, !.pc = "read"]]

RunPush ==
  /\ "runner" \in Loops /\ At("runner", "idle") /\ push = "pending"
  /\ push' = "running" /\ Run("push")
  /\ UNCHANGED <<rows, locks, remove, clock>>

RunRemove ==
  /\ "runner" \in Loops /\ At("runner", "idle") /\ remove = "pending"
  /\ remove' = "running" /\ Run("remove")
  /\ UNCHANGED <<rows, locks, push, clock>>

Tick ==
  /\ now < MaxTime /\ now' = now + 1
  /\ UNCHANGED <<rows, locks, tasks, worker, begun, faults, crashes>>

\* Slip: a running task is left to the goroutine that ran it.
AgainAsIs(t) == t

\* A task left running by a crash is made pending at the start.
Again(t) == IF t = "running" THEN "pending" ELSE t

\* The goroutines and their locks are lost.
Crash ==
  /\ crashes < MaxCrashes /\ crashes' = crashes + 1
  /\ worker' = [p \in Procs |-> Idle]
  /\ ulock' = Nobody /\ elock' = Nobody
  /\ push' = Again(push) /\ remove' = Again(remove)
  /\ UNCHANGED <<rows, now, begun, faults>>

Step(p) ==
  \/ Lock(p) \/ ELock(p) \/ EndWindow(p) \/ Read(p)
  \/ Save(p) \/ Mark(p) \/ Detect(p) \/ Clear(p) \/ Grant(p)
  \/ Want(p) \/ List(p) \/ Write(p) \/ Queue(p)
  \/ Plan(p) \/ ListClients(p) \/ Provision(p) \/ Confirm(p)
  \/ ListForDelete(p) \/ Cut(p) \/ Forget(p) \/ Drop(p)

Next ==
  \/ \E p \in Workers, op \in Ops : Begin(p, op)
  \/ \E p \in Procs : Step(p)
  \/ Heal \/ RunPush \/ RunRemove \/ Tick \/ Crash

Spec == Init /\ [][Next]_vars

(***************************************************************************)
(* Properties.                                                             *)
(***************************************************************************)

Operations == AllOps \cup {"idle", "resync", "push", "remove"}
Steps == {"idle", "lock", "elock", "window", "read", "save", "mark", "clear", "grant",
          "want", "list", "write", "queue", "plan", "plist", "provision", "confirm",
          "rows", "cut", "forget", "drop"}
Calls == [op : Operations, pc : Steps, snap : Rows, cutoff : Int, reason : Reasons,
          sent : BOOLEAN]

\* Every row and every copy of it keeps its shape, and no user takes more emergency
\* grants than the settings allow, although each grant counts from its own copy.
TypeOK ==
  /\ user \in Rows
  /\ client \in [desired : BOOLEAN, applied : BOOLEAN, exists : BOOLEAN]
  /\ panel \in {"absent", "on", "off"}
  /\ ulock \in Procs \cup {Nobody} /\ elock \in Procs \cup {Nobody}
  /\ push \in {"none", "pending", "running"} /\ remove \in {"none", "pending", "running"}
  /\ worker \in [Procs -> Calls]
  /\ now \in 0..MaxTime /\ begun \in 0..MaxOps
  /\ faults \in 0..MaxFaults /\ crashes \in 0..MaxCrashes

StepOf(p) == worker'[p] # worker[p]

\* The automatic end of a location suspension never ends one written after its cutoff:
\* the user may have been resumed, and suspended again, since the poll decided.
LiftIsDue ==
  [][\A p \in Workers :
       Doing(p, "lift", "clear") /\ StepOf(p) /\ user.svc = "geo_auto" /\ user'.svc # "geo_auto"
         => user.at <= worker[p].cutoff]_vars

\* An emergency grant, which writes the service's reason three times over, never
\* replaces a location suspension, whenever the detector writes it.
GrantKeepsHold ==
  [][\A p \in Workers :
       worker[p].op = "emergency" /\ StepOf(p) /\ user.svc = "geo_auto"
         => user'.svc = "geo_auto"]_vars

\* However grants and the poll's clears interleave, a grant opens a window only when
\* none is open and leaves more uses on record than there were.
GrantSpendsOneUse ==
  [][\A p \in Workers :
       Doing(p, "emergency", "grant") /\ worker'[p].pc = "want" /\ Here(user)
         => user'.used > user.used /\ user.until <= now]_vars

\* What the panel lets through, and what it should.
Matches == Here(user) /\ user.account # "pending_delete" => panel = As(Effective(user))

FairSpec ==
  /\ Spec
  /\ \A p \in Procs : WF_vars(Step(p))
  /\ WF_vars(Heal) /\ SF_vars(RunPush) /\ SF_vars(RunRemove)

\* Once writes cease the panel comes to follow the row for good: pushes of old copies,
\* failures and a crash after the write are made up for.
Converges == <>[]Matches

\* A queued deletion ends with the user's row gone: whichever of its steps fails, and
\* whatever edits and crashes come between.
QueuedDeletionFinishes == (remove # "none") ~> (user.account = "gone")

\* When the row of a user is removed there is no client of that user on the panel.
DeletedIsCutOff ==
  [][Here(user) /\ ~Here(user)' => panel = "absent"]_vars
=============================================================================
