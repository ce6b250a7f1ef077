------------------------------ MODULE FleetKill ------------------------------
(* Fleet kill with undo, on the hub: server/hub/fleetkill.mjs.               *)
(*                                                                           *)
(* A start pauses every builder that is up, waits for all the answers, opens *)
(* an undo window and then kills on the builders its pause reached.  An undo *)
(* resumes them.  A builder that answers 429 is sent the same action once    *)
(* more after a delay, by a retry that is bound to its job; a newer job      *)
(* holds the older jobs' retries while it pauses and drops them once its     *)
(* undo window opens.                                                        *)
(*                                                                           *)
(* Between two awaits the code runs undisturbed, so what follows the last    *)
(* answer of a phase is part of the action that takes that answer.  Time is  *)
(* left out: a timer fires at any moment, and a send ends at any moment with *)
(* any outcome.                                                              *)
EXTENDS Integers

CONSTANTS
  Builders,   \* the builders of the fleet
  MaxJobs,    \* bound: how many fleet kills are started
  Answers     \* the outcomes a send may have, some or all of Outcomes

VARIABLES
  job,      \* the jobs by number, in the order in which they are started
  stopped   \* stop() was called: the hub is going away

vars == <<job, stopped>>

Jobs == 1..MaxJobs

-----------------------------------------------------------------------------
(* The state of a job *)

(* What the hub makes of one send: an answer of 200, no answer in time, 429,
   or any other refusal, which includes a request that was never sent. *)
Outcomes == {"ok", "unknown", "limited", "refused"}

ASSUME JobsAssumption == MaxJobs \in Nat
ASSUME AnswersAssumption == Answers \subseteq Outcomes

(* A builder's row in a phase: not sent to, sent to, or the outcome. *)
Rows == {"none", "out"} \cup Outcomes

(* Outcomes after which the builder may have taken the pause. *)
Reached == {"ok", "unknown"}

Active == {"pausing", "cancelling", "pending", "killing"}
States == {"none", "killed", "cancelled", "failed", "aborted"} \cup Active

(* The retry of a job: the action, the builders still to be sent to, and the
   one whose answer the loop awaits.  "held" is an entry that a newer job has
   taken off its timer. *)
RetryStates == {"none", "armed", "held", "running", "done", "dropped"}
NoRetry == [st |-> "none", act |-> "none", todo |-> {}, cur |-> {}]

NoRows == [b \in Builders |-> "none"]

NewJob ==
  [state |-> "none", cancelRequested |-> FALSE, undone |-> FALSE,
   over |-> FALSE, pause |-> NoRows, resume |-> NoRows, kill |-> NoRows,
   retry |-> NoRetry]

Started(x) == x.state # "none"

With(rows, S) == {b \in Builders : rows[b] \in S}

(* Send to the builders of S.  The set `resumed` of a job keeps a builder from
   being sent to twice in one phase. *)
Sent(rows, S) ==
  [b \in Builders |-> IF b \in S /\ rows[b] = "none" THEN "out" ELSE rows[b]]

-----------------------------------------------------------------------------
(* Retries *)

(* retryLimited: arm one retry for the builders that answered 429. *)
RetryLimited(x, act) ==
  LET limited == With(x[act], {"limited"}) IN
  IF limited = {} THEN x
  ELSE [x EXCEPT !.retry =
          [st |-> "armed", act |-> act, todo |-> limited, cur |-> {}]]

WithRetry(x, from, to) ==
  IF x.retry.st = from THEN [x EXCEPT !.retry.st = to] ELSE x

(* suspendRetriesOtherThan: a start takes the others' retries off their timers. *)
Suspended(jobs) == [i \in Jobs |-> WithRetry(jobs[i], "armed", "held")]

\* Mutation: a failed start forgets the retries it held.
Restored_Forgotten(jobs) == jobs

(* restore: the start came to nothing, the held retries are armed again. *)
Restored(jobs) ==
  [i \in Jobs |-> WithRetry(jobs[i], "held", IF stopped THEN "dropped" ELSE "armed")]

\* Mutation: only the held retries are dropped.
Superseded_HeldOnly(jobs, j) ==
  [i \in Jobs |-> WithRetry(jobs[i], "held", "dropped")]

(* supersede: job j is pending; every other job is over, and so are the held
   retries. *)
Superseded(jobs, j) ==
  [i \in Jobs |->
     IF i = j \/ ~Started(jobs[i]) THEN jobs[i]
     ELSE [WithRetry(jobs[i], "held", "dropped") EXCEPT !.over = TRUE]]

\* Mutation: the loop does not advance.
RetryFires_SendsTwice(j) ==
  LET r == job[j].retry IN
  /\ r.st = "armed"
  /\ IF stopped \/ job[j].over
     THEN job' = [job EXCEPT ![j].retry.st = "dropped"]
     ELSE \E b \in r.todo :
            job' = [job EXCEPT ![j].retry = [r EXCEPT !.st = "running", !.cur = {b}]]
  /\ UNCHANGED stopped

(* The timer of a retry: dropped if the hub stops or a newer job is pending,
   else the loop sends to the first builder.  Which one comes first is left
   open. *)
RetryFires(j) ==
  LET r == job[j].retry IN
  /\ r.st = "armed"
  /\ IF stopped \/ job[j].over
     THEN job' = [job EXCEPT ![j].retry.st = "dropped"]
     ELSE \E b \in r.todo :
            job' = [job EXCEPT ![j].retry =
                      [r EXCEPT !.st = "running", !.cur = {b}, !.todo = @ \ {b}]]
  /\ UNCHANGED stopped

(* The answer to a retry's send: the loop goes on, whatever happened to its job
   in the meantime. *)
RetryAnswered(j) ==
  LET r == job[j].retry IN
  /\ r.st = "running"
  /\ \/ /\ r.todo = {}
        /\ job' = [job EXCEPT ![j].retry = [r EXCEPT !.st = "done", !.cur = {}]]
     \/ \E b \in r.todo :
          job' = [job EXCEPT ![j].retry = [r EXCEPT !.cur = {b}, !.todo = @ \ {b}]]
  /\ UNCHANGED stopped

-----------------------------------------------------------------------------
(* Start: pause, and what follows the last answer *)

(* After the last resume of an undo. *)
UndoEnds(x) ==
  IF With(x.resume, {"out"}) = {} THEN RetryLimited(x, "resume") ELSE x

(* finishCancel: every builder the pause reached is resumed, if it was not yet. *)
FinishCancel(x) ==
  UndoEnds([x EXCEPT !.state = "cancelled",
                     !.resume = Sent(@, With(x.pause, Reached))])

\* Mutation: an undo during the pauses is forgotten.
PausesIn_UndoForgotten(jobs, j, x) ==
  \/ /\ stopped
     /\ job' = Restored([jobs EXCEPT ![j] = [x EXCEPT !.state = "aborted"]])
  \/ /\ ~stopped /\ With(x.pause, Reached) = {}
     /\ job' = Restored([jobs EXCEPT ![j] = [x EXCEPT !.state = "failed"]])
  \/ /\ ~stopped /\ With(x.pause, Reached) # {}
     /\ job' = Superseded([jobs EXCEPT ![j] = [x EXCEPT !.state = "pending"]], j)

(* start, after every pause was answered; x is job j with its last answer. *)
PausesIn(jobs, j, x) ==
  \/ /\ stopped
     /\ job' = Restored([jobs EXCEPT ![j] = [x EXCEPT !.state = "aborted"]])
  \/ /\ ~stopped /\ x.cancelRequested
     /\ job' = [Restored(jobs) EXCEPT ![j] = FinishCancel(x)]
  \/ /\ ~stopped /\ ~x.cancelRequested /\ With(x.pause, Reached) = {}
     /\ job' = Restored([jobs EXCEPT ![j] = [x EXCEPT !.state = "failed"]])
  \/ /\ ~stopped /\ ~x.cancelRequested /\ With(x.pause, Reached) # {}
     /\ job' = Superseded([jobs EXCEPT ![j] = [x EXCEPT !.state = "pending"]], j)

(* start: refused while another job is active; S are the builders that are up. *)
Start(j, S) ==
  LET x == [NewJob EXCEPT !.state = "pausing", !.pause = Sent(@, S)] IN
  /\ ~stopped
  /\ ~Started(job[j])
  /\ \A i \in Jobs : i < j => Started(job[i])
  /\ \A i \in Jobs : job[i].state \notin Active
  /\ IF S = {} THEN PausesIn(Suspended(job), j, x)
     ELSE job' = [Suspended(job) EXCEPT ![j] = x]
  /\ UNCHANGED stopped

(* The answer to one pause.  If the job was undone in the meantime, a builder
   the pause reached is resumed at once. *)
PauseAnswered(j, b, o) ==
  LET x == [job[j] EXCEPT !.pause[b] = o]
      y == IF x.cancelRequested /\ o \in Reached
           THEN [x EXCEPT !.resume = Sent(@, {b})] ELSE x
  IN
  /\ job[j].pause[b] = "out"
  /\ IF With(x.pause, {"out"}) # {} THEN job' = [job EXCEPT ![j] = y]
     ELSE PausesIn(job, j, y)
  /\ UNCHANGED stopped

-----------------------------------------------------------------------------
(* Undo *)

\* Mutation: an undo resumes everyone at once.
UndoPausing_AllAtOnce(j) ==
  /\ ~stopped
  /\ job[j].state = "pausing"
  /\ job' = [job EXCEPT ![j] =
               [job[j] EXCEPT !.state = "cancelling", !.cancelRequested = TRUE,
                              !.undone = TRUE,
                              !.resume = Sent(@, With(job[j].pause, Reached \cup {"out"}))]]
  /\ UNCHANGED stopped

(* undo while the pauses are outstanding: those already answered are resumed
   now, the others when their answers come. *)
UndoPausing(j) ==
  /\ ~stopped
  /\ job[j].state = "pausing"
  /\ job' = [job EXCEPT ![j] =
               [job[j] EXCEPT !.state = "cancelling", !.cancelRequested = TRUE,
                              !.undone = TRUE,
                              !.resume = Sent(@, With(job[j].pause, Reached))]]
  /\ UNCHANGED stopped

(* undo inside the window: the timer is cleared and the builders that are up
   now, S, are resumed by a fan-out. *)
UndoPending(j, S) ==
  /\ ~stopped
  /\ job[j].state = "pending"
  /\ job' = [job EXCEPT ![j] =
               UndoEnds([job[j] EXCEPT !.state = "cancelled", !.undone = TRUE,
                                       !.resume = Sent(@, S)])]
  /\ UNCHANGED stopped

(* The answer to one resume.  While pauses are outstanding (or if the hub
   stopped then) nobody waits for it yet. *)
ResumeAnswered(j, b, o) ==
  LET x == [job[j] EXCEPT !.resume[b] = o] IN
  /\ job[j].resume[b] = "out"
  /\ job' = [job EXCEPT ![j] = IF x.state = "cancelled" THEN UndoEnds(x) ELSE x]
  /\ UNCHANGED stopped

-----------------------------------------------------------------------------
(* Kill *)

(* The end of the undo window: killPhase sends to the builders the pause
   reached. *)
KillPhase(j) ==
  /\ job[j].state = "pending"
  /\ job' = [job EXCEPT ![j] =
               [job[j] EXCEPT !.state = "killing",
                              !.kill = Sent(@, With(job[j].pause, Reached))]]
  /\ UNCHANGED stopped

\* Mutation: a 429 to the kill is taken as final.
KillAnswered_NoRetry(j, b, o) ==
  LET x == [job[j] EXCEPT !.kill[b] = o] IN
  /\ job[j].kill[b] = "out"
  /\ job' = [job EXCEPT ![j] =
               IF With(x.kill, {"out"}) # {} THEN x
               ELSE [x EXCEPT !.state = "killed"]]
  /\ UNCHANGED stopped

(* The answer to one kill; the last one ends the job. *)
KillAnswered(j, b, o) ==
  LET x == [job[j] EXCEPT !.kill[b] = o] IN
  /\ job[j].kill[b] = "out"
  /\ job' = [job EXCEPT ![j] =
               IF With(x.kill, {"out"}) # {} THEN x
               ELSE [RetryLimited(x, "kill") EXCEPT !.state = "killed"]]
  /\ UNCHANGED stopped

(* stop: timers are cleared; sends, and loops that wait for them, go on. *)
Stop ==
  /\ ~stopped
  /\ stopped' = TRUE
  /\ job' = [i \in Jobs |->
               [WithRetry(job[i], "armed", "dropped") EXCEPT
                  !.state = IF @ = "pending" THEN "aborted" ELSE @]]

-----------------------------------------------------------------------------
Init ==
  /\ job = [j \in Jobs |-> NewJob]
  /\ stopped = FALSE

Answered(j) ==
  \E b \in Builders, o \in Answers :
    \/ PauseAnswered(j, b, o)
    \/ ResumeAnswered(j, b, o)
    \/ KillAnswered(j, b, o)

Next ==
  \/ \E j \in Jobs :
       \/ \E S \in SUBSET Builders : Start(j, S) \/ UndoPending(j, S)
       \/ UndoPausing(j)
       \/ KillPhase(j)
       \/ Answered(j)
       \/ RetryFires(j)
       \/ RetryAnswered(j)
  \/ Stop

Spec == Init /\ [][Next]_vars

(* The event loop serves the timers, and every send ends: the relay gives each
   request a timeout.  Nobody has to start, undo or stop anything. *)
Fairness ==
  \A j \in Jobs :
    /\ WF_vars(KillPhase(j)) /\ WF_vars(RetryFires(j)) /\ WF_vars(RetryAnswered(j))
    /\ WF_vars(Answered(j))

FairSpec == Spec /\ Fairness

-----------------------------------------------------------------------------
(* Type correctness. *)
RetryType ==
  [st : RetryStates, act : {"none", "resume", "kill"},
   todo : SUBSET Builders, cur : SUBSET Builders]

JobType ==
  [state : States, cancelRequested : BOOLEAN, undone : BOOLEAN, over : BOOLEAN,
   pause : [Builders -> Rows], resume : [Builders -> Rows],
   kill : [Builders -> Rows], retry : RetryType]

(* Every job has the shape that `start` gives it, and a retry never waits for
   a builder that it has yet to send to. *)
TypeOK ==
  /\ job \in [Jobs -> JobType]
  /\ stopped \in BOOLEAN
  /\ \A j \in Jobs : job[j].retry.cur \cap job[j].retry.todo = {}

(* No builder is sent the kill of a job that was undone, however early the
   undo came, or of one whose pause did not reach it (SR19 F2, F6): not by the
   kill phase and not by its retry. *)
KillIsWarned ==
  \A j \in Jobs, b \in Builders :
    \/ job[j].kill[b] # "none"
    \/ job[j].retry.act = "kill" /\ b \in job[j].retry.todo \cup job[j].retry.cur
    => ~job[j].undone /\ job[j].pause[b] \in {"ok", "unknown"}

(* A resume never overtakes the pause it undoes: while a job's pause of a
   builder is unanswered, the job has sent that builder no resume.  Otherwise
   the pause could land last and the undone kill would leave the builder
   paused. *)
ResumeAfterPause ==
  \A j \in Jobs, b \in Builders :
    job[j].resume[b] # "none" => job[j].undone /\ job[j].pause[b] # "out"

(* The undo window of job j has been open. *)
WasPending(j) ==
  \/ job[j].state \in {"pending", "killing", "killed"}
  \/ job[j].undone /\ ~job[j].cancelRequested

(* No retry of a job sets out once the undo window of a newer one has opened
   (SR19 F3): neither those the newer job held nor those that were armed while
   it was pausing. *)
NoStaleRetry ==
  [][\A j, k \in Jobs :
       /\ job[j].retry.st # "running"
       /\ job'[j].retry.st = "running"
       => ~(j < k /\ WasPending(k))]_vars

(* What a comment of `start` says: older jobs never send anything
   again.  It does not hold of the sends that a running retry has left. *)
OlderJobsAreSilent ==
  [][\A j, k \in Jobs, b \in Builders :
       /\ b \notin job[j].retry.cur
       /\ b \in job'[j].retry.cur
       => ~(j < k /\ WasPending(k))]_vars

(* The last word of a job's phase to builder b: an answer other than 429, or
   the second envelope. *)
Settled(j, act, b) ==
  \/ job[j][act][b] \in {"ok", "unknown", "refused"}
  \/ job[j][act][b] = "limited" /\ job[j].retry.st = "done"

(* An undo during the pauses resumes every builder a pause reached, early or
   late, and sends again to those that answered 429, also when newer fleet
   kills that fail or are undone come in between (SR19 F2, R3); only a newer
   job's undo window or the end of the hub frees it from that. *)
UndoIsDelivered ==
  \A j \in Jobs, b \in Builders :
    job[j].cancelRequested /\ job[j].pause[b] \in {"ok", "unknown"}
      ~> stopped \/ job[j].over \/ Settled(j, "resume", b)

(* A kill that is not undone goes to every builder its pause reached, and a
   second time to those that answered 429 (SR19 F3: the kill must win). *)
KillWins ==
  \A j \in Jobs, b \in Builders :
    job[j].state = "pending" /\ job[j].pause[b] \in {"ok", "unknown"}
      ~> stopped \/ job[j].undone \/ job[j].over \/ Settled(j, "kill", b)

=============================================================================
