--------------------------- MODULE FleetKillProofs ---------------------------
(* Proofs about FleetKill, for any fleet and any number of fleet kills.       *)
(*                                                                            *)
(* KillIsWarned and ResumeAfterPause are about one job, and so is most of the *)
(* invariant: JobOK says how the fields of one job go together, and the       *)
(* lemmas of the first part show that the operators on jobs keep it.  What    *)
(* one job does to another is in Quiet (nothing but hold, re-arm or drop its  *)
(* retry) and in Linked (the jobs before one that was pending are over).      *)
EXTENDS FleetKill, TLAPS

JobOK(x) ==
  /\ x \in JobType
  /\ x.retry.cur \cap x.retry.todo = {}
  /\ x.undone => x.state \in {"cancelling", "cancelled", "aborted"}
  /\ x.cancelRequested => x.undone
  /\ x.state = "cancelling" => x.cancelRequested
  /\ x.state = "none" => ~x.over
  /\ \A b \in Builders :
       /\ x.kill[b] # "none" =>
            x.state \in {"killing", "killed"} /\ x.pause[b] \in Reached
       /\ x.resume[b] # "none" => x.undone /\ x.pause[b] # "out"
       /\ x.pause[b] = "out" => x.state \in {"pausing", "cancelling"}
       /\ x.retry.act = "kill" /\ b \in x.retry.todo \cup x.retry.cur =>
            x.kill[b] # "none"

(* The undo window of a job has been open. *)
HasBeenPending(x) ==
  \/ x.state \in {"pending", "killing", "killed"}
  \/ x.undone /\ ~x.cancelRequested

(* The retry of a job that is over does not set out. *)
SetsOutInTime(x, y) ==
  y.retry.st = "running" => x.retry.st = "running" \/ ~x.over

(* A step from x to y that opens no undo window and starts no job. *)
Quiet(x, y) ==
  /\ JobOK(y)
  /\ Started(y) = Started(x)
  /\ x.over => y.over
  /\ HasBeenPending(y) => HasBeenPending(x)
  /\ SetsOutInTime(x, y)

(* Jobs start in order, and a job is over once a newer one was pending. *)
Linked(jobs) ==
  \A j, k \in Jobs : j < k =>
    /\ Started(jobs[k]) => Started(jobs[j])
    /\ HasBeenPending(jobs[k]) => jobs[j].over

Good(jobs) ==
  /\ jobs \in [Jobs -> JobType]
  /\ \A j \in Jobs : JobOK(jobs[j])
  /\ Linked(jobs)

IInv == Good(job) /\ stopped \in BOOLEAN

-----------------------------------------------------------------------------
(* The operators on one job *)

(* A send adds "out" rows and changes no other. *)
LEMMA SentRows ==
  ASSUME NEW rows \in [Builders -> Rows], NEW S
  PROVE  /\ Sent(rows, S) \in [Builders -> Rows]
         /\ \A b \in Builders :
              /\ rows[b] # "none" => Sent(rows, S)[b] = rows[b]
              /\ rows[b] = "none" /\ b \notin S => Sent(rows, S)[b] = "none"
BY DEF Sent, Rows, Outcomes

(* Holding, re-arming and dropping a retry is quiet. *)
LEMMA WithRetryQuiet ==
  ASSUME NEW x, JobOK(x), NEW from, NEW to \in RetryStates, to # "running"
  PROVE  /\ Quiet(x, WithRetry(x, from, to))
         /\ WithRetry(x, from, to).state = x.state
BY SMTT(30) DEF Quiet, SetsOutInTime, JobOK, WithRetry, HasBeenPending, Started, JobType, RetryType

(* Nothing happens to a job that is left alone. *)
LEMMA SameQuiet ==
  ASSUME NEW x, JobOK(x)
  PROVE  Quiet(x, x)
BY DEF Quiet, SetsOutInTime

(* Arming a retry is quiet: those it is for were sent to. *)
LEMMA RetryLimitedQuiet ==
  ASSUME NEW x, JobOK(x), NEW act \in {"resume", "kill"}
  PROVE  /\ Quiet(x, RetryLimited(x, act))
         /\ RetryLimited(x, act).state = x.state
<1> DEFINE limited == With(x[act], {"limited"})
           r == [st |-> "armed", act |-> act, todo |-> limited, cur |-> {}]
           y == [x EXCEPT !.retry = r]
<1>1. CASE limited = {}
  BY <1>1, SameQuiet DEF RetryLimited
<1>2. CASE limited # {}
  <2>1. RetryLimited(x, act) = y
    BY <1>2 DEF RetryLimited
  <2>2. /\ limited \subseteq Builders
        /\ act = "kill" => \A b \in limited : x.kill[b] # "none"
    <3>1. CASE act = "kill" BY <3>1 DEF With
    <3>2. CASE act = "resume" BY <3>2 DEF With
    <3> QED BY <3>1, <3>2
  <2> HIDE DEF limited
  <2>3. r \in RetryType
    BY <2>2 DEF RetryType, RetryStates
  <2>4. /\ y \in JobType
        /\ y.state = x.state /\ y.cancelRequested = x.cancelRequested
        /\ y.undone = x.undone /\ y.over = x.over /\ y.pause = x.pause
        /\ y.resume = x.resume /\ y.kill = x.kill /\ y.retry = r
    BY <2>3 DEF JobOK, JobType
  <2>5. /\ r.st = "armed" /\ r.act = act /\ r.todo = limited /\ r.cur = {}
    OBVIOUS
  <2> HIDE DEF y, r
  <2>6. JobOK(y)
    BY <2>2, <2>4, <2>5 DEF JobOK
  <2> QED
    BY <2>1, <2>4, <2>5, <2>6 DEF Quiet, SetsOutInTime, HasBeenPending, Started
<1> QED BY <1>1, <1>2

(* The end of an undo is quiet. *)
LEMMA UndoEndsQuiet ==
  ASSUME NEW x, JobOK(x)
  PROVE  Quiet(x, UndoEnds(x)) /\ UndoEnds(x).state = x.state
BY RetryLimitedQuiet, SameQuiet DEF UndoEnds

-----------------------------------------------------------------------------
(* Steps of all jobs *)

(* Quiet steps of the jobs keep what connects them. *)
LEMMA GoodQuiet ==
  ASSUME NEW a, Good(a), NEW f, f = [i \in Jobs |-> f[i]],
         \A i \in Jobs : Quiet(a[i], f[i])
  PROVE  Good(f)
<1>1. \A i \in Jobs : JobOK(f[i]) /\ f[i] \in JobType
  BY DEF Quiet, JobOK
<1>2. f \in [Jobs -> JobType]
  BY <1>1
<1>3. Linked(f)
  BY DEF Good, Linked, Quiet
<1> QED BY <1>1, <1>2, <1>3 DEF Good

(* A quiet step of one job. *)
LEMMA OneQuiet ==
  ASSUME IInv, NEW j \in Jobs, NEW y, Quiet(job[j], y), job' = [job EXCEPT ![j] = y]
  PROVE  Good(job') /\ \A i \in Jobs : SetsOutInTime(job[i], job'[i])
<1>1. job' = [i \in Jobs |-> job'[i]]
  BY DEF IInv, Good
<1>2. \A i \in Jobs : Quiet(job[i], job'[i])
  BY SameQuiet DEF IInv, Good
<1> QED BY <1>1, <1>2, GoodQuiet DEF IInv, Quiet

(* A step that moves every retry from one state to another. *)
LEMMA AllRetriesQuiet ==
  ASSUME NEW a, Good(a), NEW from, NEW to \in RetryStates, to # "running",
         NEW f, f = [i \in Jobs |-> WithRetry(a[i], from, to)]
  PROVE  Good(f) /\ \A i \in Jobs : Quiet(a[i], f[i])
<1>1. \A i \in Jobs : Quiet(a[i], f[i])
  BY WithRetryQuiet DEF Good
<1> QED BY <1>1, GoodQuiet

(* Replacing the record of one job, quietly. *)
LEMMA ExceptQuiet ==
  ASSUME NEW a, Good(a), NEW j \in Jobs, NEW y, Quiet(a[j], y)
  PROVE  /\ Good([a EXCEPT ![j] = y])
         /\ \A i \in Jobs : Quiet(a[i], [a EXCEPT ![j] = y][i])
<1> DEFINE f == [a EXCEPT ![j] = y]
<1>1. f = [i \in Jobs |-> f[i]]
  BY DEF Good
<1>2. \A i \in Jobs : Quiet(a[i], f[i])
  BY SameQuiet DEF Good
<1> HIDE DEF f
<1>3. Good(f)
  BY <1>1, <1>2, GoodQuiet
<1> QED BY <1>2, <1>3 DEF f

(* Quiet steps in a row. *)
LEMMA QuietTwice ==
  ASSUME NEW x, NEW y, NEW z, Quiet(x, y), Quiet(y, z)
  PROVE  Quiet(x, z)
BY DEF Quiet, SetsOutInTime

-----------------------------------------------------------------------------
(* The end of the pauses *)

(* An undo that was asked for during the pauses resumes quietly. *)
LEMMA FinishCancelQuiet ==
  ASSUME NEW x, JobOK(x), x.cancelRequested, x.state \in {"pausing", "cancelling"},
         With(x.pause, {"out"}) = {}
  PROVE  Quiet(x, FinishCancel(x))
<1> DEFINE rows == Sent(x.resume, With(x.pause, Reached))
           z == [x EXCEPT !.state = "cancelled", !.resume = rows]
<1>1. \A b \in Builders : x.pause[b] # "out"
  BY DEF With
<1>2. rows \in [Builders -> Rows]
  BY SentRows DEF JobOK, JobType
<1> HIDE DEF rows
<1>3. /\ z \in JobType
      /\ z.state = "cancelled" /\ z.cancelRequested = x.cancelRequested
      /\ z.undone = x.undone /\ z.over = x.over /\ z.pause = x.pause
      /\ z.resume = rows /\ z.kill = x.kill /\ z.retry = x.retry
  BY <1>2 DEF JobOK, JobType, States
<1>4. FinishCancel(x) = UndoEnds(z)
  BY DEF FinishCancel, rows
<1> HIDE DEF z
<1>5. Quiet(x, z)
  BY <1>1, <1>3 DEF JobOK, Quiet, SetsOutInTime, HasBeenPending, Started
<1> QED
  BY <1>4, <1>5, UndoEndsQuiet, QuietTwice DEF Quiet

(* A job that ends before its undo window opens does so quietly. *)
LEMMA EndsQuiet ==
  ASSUME NEW x, JobOK(x), x.state \in {"pausing", "cancelling"},
         With(x.pause, {"out"}) = {},
         NEW st \in {"aborted", "failed"}, st = "failed" => ~x.cancelRequested
  PROVE  Quiet(x, [x EXCEPT !.state = st])
<1> DEFINE z == [x EXCEPT !.state = st]
<1>1. \A b \in Builders : x.pause[b] # "out"
  BY DEF With
<1>2. /\ z \in JobType
      /\ z.state = st /\ z.cancelRequested = x.cancelRequested
      /\ z.undone = x.undone /\ z.over = x.over /\ z.pause = x.pause
      /\ z.resume = x.resume /\ z.kill = x.kill /\ z.retry = x.retry
  BY DEF JobOK, JobType, States
<1> HIDE DEF z
<1>3. Quiet(x, z)
  BY <1>1, <1>2 DEF JobOK, Quiet, SetsOutInTime, HasBeenPending, Started
<1> QED BY <1>3 DEF z

(* What follows the last pause: the jobs stay good, and no retry sets out. *)
LEMMA PausesInGood ==
  ASSUME stopped \in BOOLEAN, NEW jobs, jobs = [i \in Jobs |-> jobs[i]],
         NEW j \in Jobs, NEW x, Good([jobs EXCEPT ![j] = x]),
         x.state \in {"pausing", "cancelling"}, With(x.pause, {"out"}) = {},
         PausesIn(jobs, j, x)
  PROVE  /\ Good(job')
         /\ \A i \in Jobs : SetsOutInTime([jobs EXCEPT ![j] = x][i], job'[i])
<1> DEFINE base == [jobs EXCEPT ![j] = x]
           to == IF stopped THEN "dropped" ELSE "armed"
<1>1. /\ Good(base) /\ base[j] = x
      /\ \A i \in Jobs : i # j => base[i] = jobs[i]
      /\ base = [i \in Jobs |-> base[i]]
      /\ \A y : [jobs EXCEPT ![j] = y] = [base EXCEPT ![j] = y]
  OBVIOUS
<1>2. to \in RetryStates /\ to # "running"
  BY DEF RetryStates
<1>3. \A f : Restored(f) = [i \in Jobs |-> WithRetry(f[i], "held", to)]
  BY DEF Restored
<1> SUFFICES Good(job') /\ \A i \in Jobs : SetsOutInTime(base[i], job'[i])
  OBVIOUS
<1> HIDE DEF base, to
<1>4. JobOK(x)
  BY <1>1 DEF Good
<1>5. ASSUME NEW y, Quiet(x, y), job' = Restored([base EXCEPT ![j] = y])
      PROVE  Good(job') /\ \A i \in Jobs : SetsOutInTime(base[i], job'[i])
  <2> DEFINE f == [base EXCEPT ![j] = y]
  <2>1. Good(f) /\ \A i \in Jobs : Quiet(base[i], f[i])
    BY <1>1, <1>5, ExceptQuiet
  <2>2. job' = [i \in Jobs |-> WithRetry(f[i], "held", to)]
    BY <1>3, <1>5
  <2> HIDE DEF f
  <2>3. Good(job') /\ \A i \in Jobs : Quiet(f[i], job'[i])
    BY <1>2, <2>1, <2>2, AllRetriesQuiet
  <2> QED BY <2>1, <2>3, QuietTwice DEF Quiet
<1>6. CASE /\ stopped
           /\ job' = Restored([jobs EXCEPT ![j] = [x EXCEPT !.state = "aborted"]])
  <2>1. Quiet(x, [x EXCEPT !.state = "aborted"])
    BY <1>4, EndsQuiet
  <2> QED BY <1>1, <1>5, <1>6, <2>1
<1>7. CASE /\ ~stopped /\ x.cancelRequested
           /\ job' = [Restored(jobs) EXCEPT ![j] = FinishCancel(x)]
  <2>1. /\ job' = [i \in Jobs |-> job'[i]]
        /\ job'[j] = FinishCancel(x)
        /\ \A i \in Jobs : i # j => job'[i] = WithRetry(base[i], "held", to)
    BY <1>1, <1>3, <1>7
  <2>2. Quiet(x, FinishCancel(x))
    BY <1>4, <1>7, FinishCancelQuiet
  <2>3. \A i \in Jobs : i # j => Quiet(base[i], job'[i])
    BY <1>1, <1>2, <2>1, WithRetryQuiet DEF Good
  <2>4. \A i \in Jobs : Quiet(base[i], job'[i])
    BY <1>1, <2>1, <2>2, <2>3
  <2> QED BY <1>1, <2>1, <2>4, GoodQuiet DEF Quiet
<1>8. CASE /\ ~stopped /\ ~x.cancelRequested /\ With(x.pause, Reached) = {}
           /\ job' = Restored([jobs EXCEPT ![j] = [x EXCEPT !.state = "failed"]])
  <2>1. Quiet(x, [x EXCEPT !.state = "failed"])
    BY <1>4, <1>8, EndsQuiet
  <2> QED BY <1>1, <1>5, <1>8, <2>1
<1>9. CASE /\ ~stopped /\ ~x.cancelRequested /\ With(x.pause, Reached) # {}
           /\ job' = Superseded([jobs EXCEPT ![j] = [x EXCEPT !.state = "pending"]], j)
  <2> DEFINE y == [x EXCEPT !.state = "pending"]
  <2>1. /\ y \in JobType
        /\ y.state = "pending" /\ y.cancelRequested = x.cancelRequested
        /\ y.undone = x.undone /\ y.over = x.over /\ y.pause = x.pause
        /\ y.resume = x.resume /\ y.kill = x.kill /\ y.retry = x.retry
    BY <1>4 DEF JobOK, JobType, States, Active
  <2>2. /\ job' = [i \in Jobs |-> job'[i]]
        /\ job'[j] = y
        /\ \A i \in Jobs : i # j =>
             job'[i] = IF ~Started(base[i]) THEN base[i]
                       ELSE [WithRetry(base[i], "held", "dropped") EXCEPT !.over = TRUE]
    BY <1>1, <1>9 DEF Superseded
  <2> HIDE DEF y
  <2>3. \A b \in Builders : x.pause[b] # "out"
    BY DEF With
  <2>4. JobOK(y) /\ Started(y) /\ Started(x)
    BY <1>4, <1>9, <2>1, <2>3 DEF JobOK, Started
  <2>5. ASSUME NEW i \in Jobs, i # j
        PROVE  Quiet(base[i], job'[i]) /\ (Started(base[i]) => job'[i].over)
    <3> DEFINE w == WithRetry(base[i], "held", "dropped")
               z == [w EXCEPT !.over = TRUE]
    <3>1. JobOK(base[i])
      BY <1>1 DEF Good
    <3>2. Quiet(base[i], w)
      BY <3>1, WithRetryQuiet DEF RetryStates
    <3>3. job'[i] = IF ~Started(base[i]) THEN base[i] ELSE z
      BY <2>2, <2>5
    <3> HIDE DEF w
    <3>4. /\ z \in JobType
          /\ z.state = w.state /\ z.cancelRequested = w.cancelRequested
          /\ z.undone = w.undone /\ z.over = TRUE /\ z.pause = w.pause
          /\ z.resume = w.resume /\ z.kill = w.kill /\ z.retry = w.retry
      BY <3>2 DEF Quiet, JobOK, JobType
    <3> HIDE DEF z
    <3>8. CASE Started(base[i])
      <4>1. JobOK(w) /\ w.state # "none"
        BY <3>2, <3>8 DEF Quiet, Started
      <4>2. JobOK(z)
        BY <3>4, <4>1 DEF JobOK
      <4>3. Quiet(w, z)
        BY <3>4, <4>2 DEF Quiet, SetsOutInTime, HasBeenPending, Started
      <4> QED BY <3>2, <3>3, <3>4, <3>8, <4>3, QuietTwice
    <3>9. CASE ~Started(base[i])
      BY <3>1, <3>3, <3>9, SameQuiet
    <3> QED BY <3>8, <3>9
  <2>6. \A i \in Jobs : JobOK(job'[i]) /\ job'[i] \in JobType
    BY <2>2, <2>4, <2>5 DEF Quiet, JobOK
  <2>7. job' \in [Jobs -> JobType]
    BY <2>2, <2>6
  <2>8. Linked(job')
    <3> SUFFICES ASSUME NEW i \in Jobs, NEW k \in Jobs, i < k
                 PROVE  /\ Started(job'[k]) => Started(job'[i])
                        /\ HasBeenPending(job'[k]) => job'[i].over
      BY DEF Linked
    <3>1. /\ Started(base[k]) => Started(base[i])
          /\ HasBeenPending(base[k]) => base[i].over
      BY <1>1 DEF Good, Linked
    <3>2. CASE k = j
      <4>1. i # j BY <3>2 DEF Jobs
      <4> QED BY <1>1, <2>2, <2>4, <2>5, <3>1, <3>2, <4>1 DEF Quiet
    <3>3. CASE i = j
      <4>1. k # j BY <3>3 DEF Jobs
      <4> QED BY <1>1, <2>1, <2>2, <2>4, <2>5, <3>1, <3>3, <4>1 DEF Quiet
    <3>4. CASE i # j /\ k # j
      BY <2>5, <3>1, <3>4 DEF Quiet
    <3> QED BY <3>2, <3>3, <3>4
  <2>9. \A i \in Jobs : SetsOutInTime(base[i], job'[i])
    BY <1>1, <2>1, <2>2, <2>5 DEF Quiet, SetsOutInTime
  <2> QED BY <2>6, <2>7, <2>8, <2>9 DEF Good
<1> QED BY <1>6, <1>7, <1>8, <1>9 DEF PausesIn

-----------------------------------------------------------------------------
(* The actions *)

(* What every step does: it keeps the invariant, and no stale retry sets out. *)
StepOK == Good(job') /\ \A i \in Jobs : SetsOutInTime(job[i], job'[i])

LEMMA StartOK ==
  ASSUME IInv, NEW j \in Jobs, NEW S \in SUBSET Builders, Start(j, S)
  PROVE  StepOK
<1> DEFINE x == [NewJob EXCEPT !.state = "pausing", !.pause = Sent(@, S)]
           base == [Suspended(job) EXCEPT ![j] = x]
<1>1. NoRows \in [Builders -> Rows]
  BY DEF NoRows, Rows
<1>2. Sent(NoRows, S) \in [Builders -> Rows]
  BY <1>1, SentRows
<1>3. /\ x \in JobType
      /\ x.state = "pausing" /\ ~x.cancelRequested /\ ~x.undone /\ ~x.over
      /\ x.resume = NoRows /\ x.kill = NoRows /\ x.retry = NoRetry
      /\ x.pause = Sent(NoRows, S)
  BY <1>1, <1>2 DEF NewJob, JobType, States, Active, RetryType, RetryStates, NoRetry
<1>4. base = [Suspended(job) EXCEPT ![j] = x]
  OBVIOUS
<1>5. x = [NewJob EXCEPT !.state = "pausing", !.pause = Sent(@, S)]
  OBVIOUS
<1> HIDE DEF x, base
<1>6. JobOK(x) /\ Started(x) /\ ~HasBeenPending(x) /\ x.retry.st = "none"
  BY <1>3 DEF JobOK, NoRows, NoRetry, Started, HasBeenPending
<1>7. /\ Suspended(job) = [i \in Jobs |-> Suspended(job)[i]]
      /\ \A i \in Jobs : Quiet(job[i], Suspended(job)[i])
  <2>1. Suspended(job) = [i \in Jobs |-> WithRetry(job[i], "armed", "held")]
    BY DEF Suspended
  <2> QED BY <2>1, AllRetriesQuiet DEF IInv, RetryStates
<1>8. /\ base = [i \in Jobs |-> base[i]]
      /\ base[j] = x
      /\ \A i \in Jobs : i # j => base[i] = Suspended(job)[i]
  BY <1>4, <1>7
<1>9. \A i \in Jobs : JobOK(base[i]) /\ base[i] \in JobType
  BY <1>6, <1>7, <1>8 DEF Quiet, JobOK
<1>10. base \in [Jobs -> JobType]
  BY <1>8, <1>9
<1>11. Linked(base)
  <2> SUFFICES ASSUME NEW i \in Jobs, NEW k \in Jobs, i < k
               PROVE  /\ Started(base[k]) => Started(base[i])
                      /\ HasBeenPending(base[k]) => base[i].over
    BY DEF Linked
  <2>1. /\ Started(job[k]) => Started(job[i])
        /\ HasBeenPending(job[k]) => job[i].over
    BY DEF IInv, Good, Linked
  <2>2. CASE k = j
    <3>1. Started(job[i]) /\ i # j
      BY <2>2 DEF Start, Jobs
    <3> QED BY <1>6, <1>7, <1>8, <2>2, <3>1 DEF Quiet
  <2>3. CASE i = j
    <3>1. ~Started(job[k]) /\ k # j
      BY <2>1, <2>3 DEF Start, Jobs
    <3>2. JobOK(job[k])
      BY DEF IInv, Good
    <3>3. ~HasBeenPending(job[k])
      BY <3>1, <3>2 DEF JobOK, HasBeenPending, Started
    <3> QED BY <1>6, <1>7, <1>8, <2>3, <3>1, <3>3 DEF Quiet
  <2>4. CASE i # j /\ k # j
    BY <1>7, <1>8, <2>1, <2>4 DEF Quiet
  <2> QED BY <2>2, <2>3, <2>4
<1>12. Good(base)
  BY <1>9, <1>10, <1>11 DEF Good
<1>13. \A i \in Jobs : SetsOutInTime(job[i], base[i]) /\ (job[i].over /\ i # j => base[i].over)
  BY <1>6, <1>7, <1>8 DEF Quiet, SetsOutInTime
<1>14. CASE S = {}
  <2>1. PausesIn(Suspended(job), j, x)
    BY <1>5, <1>14 DEF Start
  <2>2. With(x.pause, {"out"}) = {}
    BY <1>3, <1>14 DEF With, Sent, NoRows
  <2>3. Good(job') /\ \A i \in Jobs : SetsOutInTime(base[i], job'[i])
    BY <1>3, <1>4, <1>7, <1>12, <2>1, <2>2, PausesInGood DEF IInv
  <2>4. ~job[j].over
    BY DEF IInv, Good, JobOK, Start, Started
  <2>5. \A i \in Jobs : SetsOutInTime(job[i], job'[i])
    BY <1>13, <2>3, <2>4 DEF SetsOutInTime
  <2> QED BY <2>3, <2>5 DEF StepOK
<1>15. CASE S # {}
  <2>1. job' = base
    BY <1>4, <1>5, <1>15 DEF Start
  <2> QED BY <1>12, <1>13, <2>1 DEF StepOK
<1> QED BY <1>14, <1>15

(* The form of every action that steps one job quietly. *)
LEMMA OneStepOK ==
  ASSUME IInv, NEW j \in Jobs, NEW y, Quiet(job[j], y), job' = [job EXCEPT ![j] = y]
  PROVE  StepOK
BY OneQuiet DEF StepOK

LEMMA PauseAnsweredOK ==
  ASSUME IInv, NEW j \in Jobs, NEW b \in Builders, NEW o \in Outcomes,
         PauseAnswered(j, b, o)
  PROVE  StepOK
<1> DEFINE x == [job[j] EXCEPT !.pause[b] = o]
           y == IF x.cancelRequested /\ o \in Reached
                THEN [x EXCEPT !.resume = Sent(@, {b})] ELSE x
<1>1. JobOK(job[j]) /\ job[j].pause[b] = "out"
  BY DEF IInv, Good, PauseAnswered
<1>2. /\ x \in JobType
      /\ x.state = job[j].state /\ x.cancelRequested = job[j].cancelRequested
      /\ x.undone = job[j].undone /\ x.over = job[j].over
      /\ x.pause = [job[j].pause EXCEPT ![b] = o]
      /\ x.resume = job[j].resume /\ x.kill = job[j].kill /\ x.retry = job[j].retry
  BY <1>1 DEF JobOK, JobType, Rows
<1>3. /\ x.pause \in [Builders -> Rows] /\ x.pause[b] = o
      /\ \A c \in Builders : c # b => x.pause[c] = job[j].pause[c]
  BY <1>1, <1>2 DEF JobOK, JobType, Rows
<1>4. o # "out" /\ x.state \in {"pausing", "cancelling"}
  BY <1>1, <1>2 DEF JobOK, Outcomes
<1> HIDE DEF x
<1>5. JobOK(x)
  BY <1>1, <1>2, <1>3, <1>4 DEF JobOK
<1>6. Quiet(job[j], x)
  BY <1>2, <1>5 DEF Quiet, SetsOutInTime, HasBeenPending, Started
<1>7. Quiet(x, y) /\ y.state = x.state /\ y.pause = x.pause
  <2> DEFINE rows == Sent(x.resume, {b})
             z == [x EXCEPT !.resume = rows]
  <2>1. /\ rows \in [Builders -> Rows]
        /\ \A c \in Builders : c # b => (rows[c] # "none" => x.resume[c] # "none")
    BY <1>5, SentRows DEF JobOK, JobType
  <2> HIDE DEF rows
  <2>2. /\ z \in JobType
        /\ z.state = x.state /\ z.cancelRequested = x.cancelRequested
        /\ z.undone = x.undone /\ z.over = x.over /\ z.pause = x.pause
        /\ z.resume = rows /\ z.kill = x.kill /\ z.retry = x.retry
    BY <1>2, <2>1 DEF JobType
  <2>3. y = IF x.cancelRequested /\ o \in Reached THEN z ELSE x
    BY DEF rows
  <2> HIDE DEF z
  <2>4. ASSUME x.cancelRequested PROVE JobOK(z)
    BY <1>3, <1>4, <1>5, <2>1, <2>2, <2>4 DEF JobOK
  <2>5. ASSUME x.cancelRequested PROVE Quiet(x, z)
    BY <2>2, <2>4, <2>5 DEF Quiet, SetsOutInTime, HasBeenPending, Started
  <2> QED BY <1>5, <2>2, <2>3, <2>5, SameQuiet
<1>8. Quiet(job[j], y)
  BY <1>6, <1>7, QuietTwice
<1>9. IF With(x.pause, {"out"}) # {} THEN job' = [job EXCEPT ![j] = y]
      ELSE PausesIn(job, j, y)
  BY DEF PauseAnswered, x
<1> HIDE DEF y
<1>10. CASE With(x.pause, {"out"}) # {}
  BY <1>8, <1>9, <1>10, OneStepOK
<1>11. CASE With(x.pause, {"out"}) = {}
  <2> DEFINE base == [job EXCEPT ![j] = y]
  <2>1. Good(base) /\ \A i \in Jobs : Quiet(job[i], base[i])
    BY <1>8, ExceptQuiet DEF IInv
  <2>2. job = [i \in Jobs |-> job[i]]
    BY DEF IInv, Good
  <2>3. Good(job') /\ \A i \in Jobs : SetsOutInTime(base[i], job'[i])
    BY <1>4, <1>7, <1>9, <1>11, <2>1, <2>2, PausesInGood DEF IInv
  <2> HIDE DEF base
  <2> QED BY <2>1, <2>3 DEF StepOK, Quiet, SetsOutInTime
<1> QED BY <1>10, <1>11

LEMMA UndoPausingOK ==
  ASSUME IInv, NEW j \in Jobs, UndoPausing(j)
  PROVE  StepOK
<1> DEFINE x == job[j]
           rows == Sent(x.resume, With(x.pause, Reached))
           y == [x EXCEPT !.state = "cancelling", !.cancelRequested = TRUE,
                          !.undone = TRUE, !.resume = rows]
<1>1. JobOK(x) /\ x.state = "pausing" /\ job' = [job EXCEPT ![j] = y]
  BY DEF IInv, Good, UndoPausing
<1>2. /\ rows \in [Builders -> Rows]
      /\ \A c \in Builders : rows[c] # "none" => x.resume[c] # "none" \/ x.pause[c] \in Reached
  BY <1>1, SentRows DEF JobOK, JobType, With
<1> HIDE DEF x, rows
<1>3. /\ y \in JobType
      /\ y.state = "cancelling" /\ y.cancelRequested /\ y.undone
      /\ y.over = x.over /\ y.pause = x.pause
      /\ y.resume = rows /\ y.kill = x.kill /\ y.retry = x.retry
  BY <1>1, <1>2 DEF JobOK, JobType, States, Active
<1> HIDE DEF y
<1>4. JobOK(y)
  BY <1>1, <1>2, <1>3 DEF JobOK, Reached
<1>5. Quiet(x, y)
  BY <1>1, <1>3, <1>4 DEF Quiet, SetsOutInTime, HasBeenPending, Started
<1> QED BY <1>1, <1>5, OneStepOK DEF x

LEMMA UndoPendingOK ==
  ASSUME IInv, NEW j \in Jobs, NEW S \in SUBSET Builders, UndoPending(j, S)
  PROVE  StepOK
<1> DEFINE x == job[j]
           rows == Sent(x.resume, S)
           y == [x EXCEPT !.state = "cancelled", !.undone = TRUE, !.resume = rows]
<1>1. /\ JobOK(x) /\ x.state = "pending"
      /\ job' = [job EXCEPT ![j] = UndoEnds(y)]
  BY DEF IInv, Good, UndoPending
<1>2. rows \in [Builders -> Rows]
  BY <1>1, SentRows DEF JobOK, JobType
<1> HIDE DEF x, rows
<1>3. /\ y \in JobType
      /\ y.state = "cancelled" /\ y.cancelRequested = x.cancelRequested /\ y.undone
      /\ y.over = x.over /\ y.pause = x.pause
      /\ y.resume = rows /\ y.kill = x.kill /\ y.retry = x.retry
  BY <1>1, <1>2 DEF JobOK, JobType, States
<1> HIDE DEF y
<1>4. JobOK(y)
  BY <1>1, <1>3 DEF JobOK
<1>5. Quiet(x, y)
  BY <1>1, <1>3, <1>4 DEF Quiet, SetsOutInTime, HasBeenPending, Started
<1>6. Quiet(x, UndoEnds(y))
  BY <1>4, <1>5, UndoEndsQuiet, QuietTwice
<1> QED BY <1>1, <1>6, OneStepOK DEF x

LEMMA ResumeAnsweredOK ==
  ASSUME IInv, NEW j \in Jobs, NEW b \in Builders, NEW o \in Outcomes,
         ResumeAnswered(j, b, o)
  PROVE  StepOK
<1> DEFINE x == job[j]
           y == [x EXCEPT !.resume[b] = o]
<1>1. /\ JobOK(x) /\ x.resume[b] = "out"
      /\ job' = [job EXCEPT ![j] = IF y.state = "cancelled" THEN UndoEnds(y) ELSE y]
  BY DEF IInv, Good, ResumeAnswered
<1> HIDE DEF x
<1>2. /\ y \in JobType
      /\ y.state = x.state /\ y.cancelRequested = x.cancelRequested
      /\ y.undone = x.undone /\ y.over = x.over /\ y.pause = x.pause
      /\ y.resume = [x.resume EXCEPT ![b] = o]
      /\ y.kill = x.kill /\ y.retry = x.retry
  BY <1>1 DEF JobOK, JobType, Rows
<1>3. \A c \in Builders : c # b => y.resume[c] = x.resume[c]
  BY <1>1, <1>2 DEF JobOK, JobType
<1> HIDE DEF y
<1>4. JobOK(y)
  BY <1>1, <1>2, <1>3 DEF JobOK
<1>5. Quiet(x, y)
  BY <1>2, <1>4 DEF Quiet, SetsOutInTime, HasBeenPending, Started
<1>6. Quiet(x, UndoEnds(y))
  BY <1>4, <1>5, UndoEndsQuiet, QuietTwice
<1> QED BY <1>1, <1>5, <1>6, OneStepOK DEF x

LEMMA KillPhaseOK ==
  ASSUME IInv, NEW j \in Jobs, KillPhase(j)
  PROVE  StepOK
<1> DEFINE x == job[j]
           rows == Sent(x.kill, With(x.pause, Reached))
           y == [x EXCEPT !.state = "killing", !.kill = rows]
<1>1. JobOK(x) /\ x.state = "pending" /\ job' = [job EXCEPT ![j] = y]
  BY DEF IInv, Good, KillPhase
<1>2. /\ rows \in [Builders -> Rows]
      /\ \A c \in Builders : x.kill[c] # "none" => rows[c] # "none"
      /\ \A c \in Builders : rows[c] # "none" => x.kill[c] # "none" \/ x.pause[c] \in Reached
  BY <1>1, SentRows DEF JobOK, JobType, With
<1> HIDE DEF x, rows
<1>3. /\ y \in JobType
      /\ y.state = "killing" /\ y.cancelRequested = x.cancelRequested
      /\ y.undone = x.undone /\ y.over = x.over /\ y.pause = x.pause
      /\ y.resume = x.resume /\ y.kill = rows /\ y.retry = x.retry
  BY <1>1, <1>2 DEF JobOK, JobType, States, Active
<1> HIDE DEF y
<1>4. JobOK(y)
  BY <1>1, <1>2, <1>3 DEF JobOK
<1>5. Quiet(x, y)
  BY <1>1, <1>3, <1>4 DEF Quiet, SetsOutInTime, HasBeenPending, Started
<1> QED BY <1>1, <1>5, OneStepOK DEF x

LEMMA KillAnsweredOK ==
  ASSUME IInv, NEW j \in Jobs, NEW b \in Builders, NEW o \in Outcomes,
         KillAnswered(j, b, o)
  PROVE  StepOK
<1> DEFINE x == job[j]
           y == [x EXCEPT !.kill[b] = o]
           w == RetryLimited(y, "kill")
           z == [w EXCEPT !.state = "killed"]
<1>1. /\ JobOK(x) /\ x.kill[b] = "out"
      /\ job' = [job EXCEPT ![j] = IF With(y.kill, {"out"}) # {} THEN y ELSE z]
  BY DEF IInv, Good, KillAnswered
<1> HIDE DEF x
<1>2. /\ y \in JobType
      /\ y.state = x.state /\ y.cancelRequested = x.cancelRequested
      /\ y.undone = x.undone /\ y.over = x.over /\ y.pause = x.pause
      /\ y.kill = [x.kill EXCEPT ![b] = o]
      /\ y.resume = x.resume /\ y.retry = x.retry
  BY <1>1 DEF JobOK, JobType, Rows
<1>3. /\ y.kill[b] = o /\ o # "none"
      /\ \A c \in Builders : c # b => y.kill[c] = x.kill[c]
      /\ x.state \in {"killing", "killed"}
  BY <1>1, <1>2 DEF JobOK, JobType, Outcomes
<1> HIDE DEF y
<1>4. JobOK(y)
  BY <1>1, <1>2, <1>3 DEF JobOK
<1>5. Quiet(x, y)
  BY <1>2, <1>4 DEF Quiet, SetsOutInTime, HasBeenPending, Started
<1>6. Quiet(y, w) /\ w.state = y.state
  BY <1>4, RetryLimitedQuiet
<1> HIDE DEF w
<1>7. /\ z \in JobType
      /\ z.state = "killed" /\ z.cancelRequested = w.cancelRequested
      /\ z.undone = w.undone /\ z.over = w.over /\ z.pause = w.pause
      /\ z.resume = w.resume /\ z.kill = w.kill /\ z.retry = w.retry
  BY <1>6 DEF Quiet, JobOK, JobType, States
<1> HIDE DEF z
<1>8. JobOK(z)
  BY <1>2, <1>3, <1>6, <1>7 DEF Quiet, JobOK
<1>9. Quiet(w, z)
  BY <1>2, <1>3, <1>6, <1>7, <1>8 DEF Quiet, SetsOutInTime, HasBeenPending, Started
<1>10. Quiet(x, z)
  BY <1>5, <1>6, <1>9, QuietTwice
<1> QED BY <1>1, <1>5, <1>10, OneStepOK DEF x

LEMMA RetryFiresOK ==
  ASSUME IInv, NEW j \in Jobs, RetryFires(j)
  PROVE  StepOK
<1> DEFINE x == job[j]
<1>1. JobOK(x) /\ x.retry \in RetryType /\ x.retry.st = "armed"
  BY DEF IInv, Good, RetryFires, JobOK, JobType
<1>2. CASE stopped \/ x.over
  <2> DEFINE y == [x EXCEPT !.retry.st = "dropped"]
  <2>1. job' = [job EXCEPT ![j] = y]
    BY <1>2 DEF RetryFires
  <2>2. y = WithRetry(x, "armed", "dropped")
    BY <1>1 DEF WithRetry
  <2> HIDE DEF x, y
  <2>3. Quiet(x, y)
    BY <1>1, <2>2, WithRetryQuiet DEF RetryStates
  <2> QED BY <2>1, <2>3, OneStepOK DEF x
<1>3. CASE ~(stopped \/ x.over)
  <2>1. PICK b \in x.retry.todo :
          job' = [job EXCEPT ![j].retry =
                    [x.retry EXCEPT !.st = "running", !.cur = {b}, !.todo = @ \ {b}]]
    BY <1>3 DEF RetryFires
  <2> DEFINE r == [x.retry EXCEPT !.st = "running", !.cur = {b}, !.todo = @ \ {b}]
             y == [x EXCEPT !.retry = r]
  <2>2. job' = [job EXCEPT ![j] = y]
    BY <2>1
  <2>3. /\ r \in RetryType /\ r.act = x.retry.act
        /\ r.cur = {b} /\ r.todo = x.retry.todo \ {b}
    BY <1>1 DEF RetryType, RetryStates
  <2> HIDE DEF x, r
  <2>4. /\ y \in JobType
        /\ y.state = x.state /\ y.cancelRequested = x.cancelRequested
        /\ y.undone = x.undone /\ y.over = x.over /\ y.pause = x.pause
        /\ y.resume = x.resume /\ y.kill = x.kill /\ y.retry = r
    BY <1>1, <2>3 DEF JobOK, JobType
  <2> HIDE DEF y
  <2>5. JobOK(y)
    BY <1>1, <2>3, <2>4 DEF JobOK
  <2>6. Quiet(x, y)
    BY <1>3, <2>4, <2>5 DEF Quiet, SetsOutInTime, HasBeenPending, Started
  <2> QED BY <2>2, <2>6, OneStepOK DEF x
<1> QED BY <1>2, <1>3

LEMMA RetryAnsweredOK ==
  ASSUME IInv, NEW j \in Jobs, RetryAnswered(j)
  PROVE  StepOK
<1> DEFINE x == job[j]
<1>1. JobOK(x) /\ x.retry \in RetryType /\ x.retry.st = "running"
  BY DEF IInv, Good, RetryAnswered, JobOK, JobType
<1>2. ASSUME NEW r \in RetryType, r.act = x.retry.act, r.cur \cap r.todo = {},
             r.cur \cup r.todo \subseteq x.retry.cur \cup x.retry.todo,
             job' = [job EXCEPT ![j].retry = r]
      PROVE  StepOK
  <2> DEFINE y == [x EXCEPT !.retry = r]
  <2>1. job' = [job EXCEPT ![j] = y]
    BY <1>2
  <2> HIDE DEF x
  <2>2. /\ y \in JobType
        /\ y.state = x.state /\ y.cancelRequested = x.cancelRequested
        /\ y.undone = x.undone /\ y.over = x.over /\ y.pause = x.pause
        /\ y.resume = x.resume /\ y.kill = x.kill /\ y.retry = r
    BY <1>1 DEF JobOK, JobType
  <2> HIDE DEF y
  <2>3. JobOK(y)
    BY <1>1, <1>2, <2>2 DEF JobOK
  <2>4. Quiet(x, y)
    BY <1>1, <2>2, <2>3 DEF Quiet, SetsOutInTime, HasBeenPending, Started
  <2> QED BY <2>1, <2>4, OneStepOK DEF x
<1>3. CASE x.retry.todo = {} /\ job' = [job EXCEPT ![j].retry =
                                         [x.retry EXCEPT !.st = "done", !.cur = {}]]
  <2> DEFINE r == [x.retry EXCEPT !.st = "done", !.cur = {}]
  <2>1. /\ r \in RetryType /\ r.act = x.retry.act
        /\ r.cur = {} /\ r.todo = x.retry.todo
    BY <1>1 DEF RetryType, RetryStates
  <2>2. job' = [job EXCEPT ![j].retry = r]
    BY <1>3
  <2> HIDE DEF x, r
  <2> QED BY <1>2, <2>1, <2>2
<1>4. CASE \E b \in x.retry.todo :
             job' = [job EXCEPT ![j].retry = [x.retry EXCEPT !.cur = {b}, !.todo = @ \ {b}]]
  <2>1. PICK b \in x.retry.todo :
          job' = [job EXCEPT ![j].retry = [x.retry EXCEPT !.cur = {b}, !.todo = @ \ {b}]]
    BY <1>4
  <2> DEFINE r == [x.retry EXCEPT !.cur = {b}, !.todo = @ \ {b}]
  <2>2. /\ r \in RetryType /\ r.act = x.retry.act
        /\ r.cur = {b} /\ r.todo = x.retry.todo \ {b}
    BY <1>1 DEF RetryType
  <2>3. job' = [job EXCEPT ![j].retry = r]
    BY <2>1
  <2> HIDE DEF x, r
  <2> QED BY <1>2, <2>2, <2>3
<1> QED BY <1>3, <1>4 DEF RetryAnswered

LEMMA StopOK ==
  ASSUME IInv, Stop
  PROVE  StepOK
<1> DEFINE w(i) == WithRetry(job[i], "armed", "dropped")
<1>1. job' = [i \in Jobs |-> job'[i]]
  BY DEF Stop
<1>2. ASSUME NEW i \in Jobs PROVE Quiet(job[i], job'[i])
  <2> DEFINE x == w(i)
             y == [x EXCEPT !.state = IF x.state = "pending" THEN "aborted" ELSE x.state]
  <2>1. job'[i] = y
    BY DEF Stop
  <2>2. Quiet(job[i], x)
    BY WithRetryQuiet DEF IInv, Good, RetryStates
  <2> HIDE DEF w
  <2>3. JobOK(x)
    BY <2>2 DEF Quiet
  <2> HIDE DEF x
  <2>4. /\ y \in JobType
        /\ y.state = IF x.state = "pending" THEN "aborted" ELSE x.state
        /\ y.cancelRequested = x.cancelRequested
        /\ y.undone = x.undone /\ y.over = x.over /\ y.pause = x.pause
        /\ y.resume = x.resume /\ y.kill = x.kill /\ y.retry = x.retry
    BY <2>3 DEF JobOK, JobType, States
  <2> HIDE DEF y
  <2>5. JobOK(y)
    BY <2>3, <2>4 DEF JobOK
  <2>6. Quiet(x, y)
    BY <2>4, <2>5 DEF Quiet, SetsOutInTime, HasBeenPending, Started
  <2> QED BY <2>1, <2>2, <2>6, QuietTwice
<1> QED BY <1>1, <1>2, GoodQuiet DEF IInv, StepOK, Quiet

-----------------------------------------------------------------------------
(* The theorems *)

LEMMA InitOK == Init => IInv
<1> SUFFICES ASSUME Init PROVE IInv
  OBVIOUS
<1>1. NoRows \in [Builders -> Rows] /\ \A b \in Builders : NoRows[b] = "none"
  BY DEF NoRows, Rows
<1> HIDE DEF NoRows
<1>2. NewJob \in JobType
  BY <1>1 DEF NewJob, JobType, States, RetryType, RetryStates, NoRetry
<1>3. JobOK(NewJob) /\ ~HasBeenPending(NewJob) /\ ~Started(NewJob)
  BY <1>1, <1>2 DEF JobOK, NewJob, NoRetry, HasBeenPending, Started
<1>4. \A j \in Jobs : job[j] = NewJob
  BY DEF Init
<1>5. job \in [Jobs -> JobType]
  BY <1>2 DEF Init
<1>6. Linked(job)
  BY <1>3, <1>4 DEF Linked
<1> QED BY <1>3, <1>4, <1>5, <1>6 DEF Init, IInv, Good

(* Every step keeps the invariant, and lets no stale retry set out. *)
LEMMA NextOK ==
  ASSUME IInv, [Next]_vars
  PROVE  IInv' /\ \A i \in Jobs : SetsOutInTime(job[i], job'[i])
<1>1. ASSUME NEW j \in Jobs, NEW S \in SUBSET Builders, Start(j, S)
      PROVE  StepOK /\ UNCHANGED stopped
  BY <1>1, StartOK DEF Start
<1>2. ASSUME NEW j \in Jobs, NEW S \in SUBSET Builders, UndoPending(j, S)
      PROVE  StepOK /\ UNCHANGED stopped
  BY <1>2, UndoPendingOK DEF UndoPending
<1>3. ASSUME NEW j \in Jobs, UndoPausing(j)
      PROVE  StepOK /\ UNCHANGED stopped
  BY <1>3, UndoPausingOK DEF UndoPausing
<1>4. ASSUME NEW j \in Jobs, KillPhase(j)
      PROVE  StepOK /\ UNCHANGED stopped
  BY <1>4, KillPhaseOK DEF KillPhase
<1>5. ASSUME NEW j \in Jobs, Answered(j)
      PROVE  StepOK /\ UNCHANGED stopped
  <2>1. PICK b \in Builders, o \in Answers :
          PauseAnswered(j, b, o) \/ ResumeAnswered(j, b, o) \/ KillAnswered(j, b, o)
    BY <1>5 DEF Answered
  <2>2. StepOK
    BY <2>1, AnswersAssumption, PauseAnsweredOK, ResumeAnsweredOK, KillAnsweredOK
  <2>3. UNCHANGED stopped
    BY <2>1 DEF PauseAnswered, ResumeAnswered, KillAnswered
  <2> QED BY <2>2, <2>3
<1>6. ASSUME NEW j \in Jobs, RetryFires(j)
      PROVE  StepOK /\ UNCHANGED stopped
  BY <1>6, RetryFiresOK DEF RetryFires
<1>7. ASSUME NEW j \in Jobs, RetryAnswered(j)
      PROVE  StepOK /\ UNCHANGED stopped
  BY <1>7, RetryAnsweredOK DEF RetryAnswered
<1>8. CASE Stop
  BY <1>8, StopOK DEF Stop, StepOK, IInv
<1>9. CASE UNCHANGED vars
  BY <1>9, SameQuiet DEF vars, IInv, Good, JobOK, SetsOutInTime, Linked
<1>10. ASSUME StepOK, UNCHANGED stopped
       PROVE  IInv' /\ \A i \in Jobs : SetsOutInTime(job[i], job'[i])
  BY <1>10 DEF StepOK, IInv, Good, Linked
<1> QED BY <1>1, <1>2, <1>3, <1>4, <1>5, <1>6, <1>7, <1>8, <1>9, <1>10 DEF Next

THEOREM InductiveInvariant == Spec => []IInv
<1>1. IInv /\ [Next]_vars => IInv'
  BY NextOK
<1> QED BY InitOK, <1>1, PTL DEF Spec

(* Every job keeps its shape, for any fleet and number of jobs. *)
THEOREM TypeCorrect == Spec => []TypeOK
<1>1. IInv => TypeOK
  BY DEF IInv, Good, JobOK, TypeOK
<1> QED BY <1>1, InductiveInvariant, PTL

(* An undone fleet kill kills nobody, and neither does one whose pause did not
   reach the builder: in any fleet, whatever the answers, undos and retries. *)
THEOREM KillsAreWarned == Spec => []KillIsWarned
<1>1. IInv => KillIsWarned
  BY DEF IInv, Good, JobOK, KillIsWarned, Reached
<1> QED BY <1>1, InductiveInvariant, PTL

(* No resume is sent to a builder while the pause it undoes is outstanding. *)
THEOREM ResumesFollowPauses == Spec => []ResumeAfterPause
<1>1. IInv => ResumeAfterPause
  BY DEF IInv, Good, JobOK, ResumeAfterPause
<1> QED BY <1>1, InductiveInvariant, PTL

(* No retry sets out once a newer job's undo window has opened. *)
THEOREM StaleRetriesStay == Spec => NoStaleRetry
<1> DEFINE A == \A j, k \in Jobs :
                  /\ job[j].retry.st # "running"
                  /\ job'[j].retry.st = "running"
                  => ~(j < k /\ WasPending(k))
<1>1. IInv /\ [Next]_vars => [A]_vars
  BY NextOK DEF IInv, Good, Linked, SetsOutInTime, HasBeenPending, WasPending
<1> QED BY <1>1, InductiveInvariant, PTL DEF Spec, NoStaleRetry

=============================================================================
