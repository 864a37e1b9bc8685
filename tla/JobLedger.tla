------------------------------ MODULE JobLedger ------------------------------
(***************************************************************************)
(* What the retry queue promises, without its processors, pages, clock and *)
(* keys: every job is run by one execution at a time, which began while    *)
(* the job was pending and speaks of it at most once; a failed execution   *)
(* is counted, and counted once; what is stopped or done starts again only *)
(* when an admin asks; and a boot leaves nothing running.                  *)
(***************************************************************************)
EXTENDS Naturals

CONSTANTS Ids, MaxAttempts

VARIABLES
  job,    \* what is known of each job
  asked   \* how often an admin asked for another run

Open     == {"pending", "running"}
Ended    == {"succeeded", "canceled", "retired"}
Statuses == {"unborn", "gone"} \cup Open \cup Ended

\* tries counts the failed executions; held says that one is under way.
Job    == [status : Statuses, tries : 0..(MaxAttempts - 1), held : BOOLEAN]
As(s, n, h) == [status |-> s, tries |-> n, held |-> h]
Unborn == As("unborn", 0, FALSE)

JInit == job = [i \in Ids |-> Unborn] /\ asked = 0

\* One job changes, and nobody asked for a run.
Becomes(i, j) == j \in Job /\ job' = [job EXCEPT ![i] = j] /\ UNCHANGED asked

Enqueue(i) == job[i] = Unborn /\ Becomes(i, As("pending", 0, FALSE))

Begin(i) ==
  /\ job[i].status = "pending" /\ ~job[i].held
  /\ Becomes(i, As("running", job[i].tries, TRUE))

\* An execution ends: unheard (the job was stopped or deleted under it, or its
\* word was lost), done, given up, or to be tried again.
End(i) ==
  /\ job[i].held
  /\ \/ Becomes(i, As(job[i].status, job[i].tries, FALSE))
     \/ /\ job[i].status \in Open
        /\ \/ \E s \in {"succeeded", "canceled"} : Becomes(i, As(s, job[i].tries, FALSE))
           \/ Becomes(i, As("pending", job[i].tries + 1, FALSE))

Stop(i) ==
  /\ job[i].status \in Open
  /\ Becomes(i, As("canceled", job[i].tries, job[i].held))

\* The admin may ask for another run of anything that was not retired, even while
\* an execution is under way, which then answers for the new run too.
Ask(i) ==
  /\ job[i].status \in Open \cup {"succeeded", "canceled"}
  /\ job' = [job EXCEPT ![i] = As("pending", job[i].tries, job[i].held)]
  /\ asked' = asked + 1

\* Jobs are retired, or deleted once they ended, any number at a time.
Retire(S) ==
  /\ \A i \in S : job[i].status \notin {"unborn", "gone"}
  /\ job' = [i \in Ids |-> IF i \in S THEN As("retired", job[i].tries, job[i].held) ELSE job[i]]
  /\ UNCHANGED asked

Delete(S) ==
  /\ \A i \in S : job[i].status \in Ended
  /\ job' = [i \in Ids |-> IF i \in S THEN As("gone", 0, job[i].held) ELSE job[i]]
  /\ UNCHANGED asked

\* Executions die with the process, and what they were running waits again.
Boot ==
  /\ job' = [i \in Ids |->
       As(IF job[i].status = "running" THEN "pending" ELSE job[i].status, job[i].tries, FALSE)]
  /\ UNCHANGED asked

JNext ==
  \/ \E S \in SUBSET Ids : Retire(S) \/ Delete(S)
  \/ \E i \in Ids : Enqueue(i) \/ Begin(i) \/ End(i) \/ Stop(i) \/ Ask(i)
  \/ Boot

JSpec == JInit /\ [][JNext]_<<job, asked>>
=============================================================================
