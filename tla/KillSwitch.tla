----------------------------- MODULE KillSwitch -----------------------------
(* The builder's kill switch: server/control/killswitch.mjs.  A job pauses  *)
(* the builder, sends Escape to the victims one after the other, waits for  *)
(* its grace and then kills the victims of the inventory of that moment,    *)
(* one after the other.  That inventory is the collector's, which knows     *)
(* nothing of a session launched since it last listed the panes.  A cancel  *)
(* may come between any two of these, and so may the end of the process.    *)
(* Every session is a victim by the rule of selectVictims; who may cancel,  *)
(* and the rate limits, are left out.                                       *)
EXTENDS Pause

CONSTANT Jobs

VARIABLES
  job,      \* the jobs: state, step, and the sessions still to do
  failed,   \* the sessions whose kill failed
  started,  \* history: the sessions launched since the list from which the job last
            \* chose its victims
  stopping  \* the shutdown has run and the process still lives

killVars == <<job, failed, started, stopping>>

States == {"none", "grace", "killing", "killed", "cancelled", "gone"}
Steps  == {"idle", "interrupt", "timer", "kill"}

KillTypeOK ==
  /\ job \in [Jobs -> [state : States, step : Steps, todo : SUBSET Sessions, zero : BOOLEAN]]
  /\ failed \in [Jobs -> SUBSET Sessions]
  /\ started \in [Jobs -> SUBSET Sessions]
  /\ stopping \in BOOLEAN

NoJob == [state |-> "none", step |-> "idle", todo |-> {}, zero |-> FALSE]

KillInit ==
  /\ job = [j \in Jobs |-> NoJob]
  /\ failed = [j \in Jobs |-> {}]
  /\ started = [j \in Jobs |-> {}]
  /\ stopping = FALSE

-----------------------------------------------------------------------------
\* killAll: the victims, then the pause of the builder, which may fail (no
\* state directory, or an error of the file system).
KillAll(j, zero) ==
  /\ job[j].state = "none"
  /\ ~stopping
  /\ job' = [job EXCEPT ![j] = [state |-> "grace", step |-> "interrupt",
                                todo |-> seen, zero |-> zero]]
  /\ started' = [started EXCEPT ![j] = {}]
  /\ PauseNow(All) \/ UNCHANGED <<sentinel, holds>>
  /\ UNCHANGED <<sessionVars, cli, call, failed, stopping>>

\* The answer to one Escape; a failure is only noted.
Interrupt(j, s) ==
  /\ job[j].step = "interrupt"
  /\ s \in job[j].todo
  /\ job' = [job EXCEPT ![j].todo = @ \ {s}]
  /\ UNCHANGED <<pauseVars, failed, started, stopping>>

\* The victims of the start, as far as they still run.
Killing_FirstVictims(j) ==
  /\ job' = [job EXCEPT ![j] = [state |-> "killing", step |-> "kill",
                                todo |-> seen \ started[j], zero |-> FALSE]]
  /\ started' = [started EXCEPT ![j] = live \ seen]

\* The first lines of killPhase: the victims are chosen again.
Killing(j) ==
  /\ job' = [job EXCEPT ![j] = [state |-> "killing", step |-> "kill", todo |-> seen, zero |-> FALSE]]
  /\ started' = [started EXCEPT ![j] = live \ seen]

\* The state is not looked at again after the interrupts.
Interrupted_NoRecheck(j) ==
  /\ job[j].step = "interrupt"
  /\ job[j].todo = {}
  /\ \/ job[j].zero  /\ Killing(j)
     \/ ~job[j].zero /\ job' = [job EXCEPT ![j].step = "timer"] /\ UNCHANGED started
  /\ UNCHANGED <<pauseVars, failed, stopping>>

\* killAll after the last Escape: a job that was cancelled meanwhile ends, one
\* without grace kills, the others wait.
Interrupted(j) ==
  /\ job[j].step = "interrupt"
  /\ job[j].todo = {}
  /\ \/ /\ job[j].state # "grace"
        /\ job' = [job EXCEPT ![j].step = "idle"]
        /\ UNCHANGED started
     \/ /\ job[j].state = "grace"
        /\ job[j].zero
        /\ Killing(j)
     \/ /\ job[j].state = "grace"
        /\ ~job[j].zero
        /\ job' = [job EXCEPT ![j].step = "timer"]
        /\ UNCHANGED started
  /\ UNCHANGED <<pauseVars, failed, stopping>>

\* The timer of the grace.
Timer(j) ==
  /\ job[j].step = "timer"
  /\ Killing(j)
  /\ UNCHANGED <<pauseVars, failed, stopping>>

\* The answer to one kill: an unknown session fails, tmux may fail.
KillOne(j, s) ==
  /\ job[j].step = "kill"
  /\ s \in job[j].todo
  /\ job' = [job EXCEPT ![j].todo = @ \ {s}]
  /\ \/ s \in live /\ Ends(s) /\ UNCHANGED failed
     \/ failed' = [failed EXCEPT ![j] = @ \cup {s}] /\ UNCHANGED live
  /\ UNCHANGED <<listed, seen, sentinel, cli, call, holds, started, stopping>>

\* The end of killPhase.
Killed(j) ==
  /\ job[j].step = "kill"
  /\ job[j].todo = {}
  /\ job' = [job EXCEPT ![j].state = "killed", ![j].step = "idle"]
  /\ UNCHANGED <<pauseVars, failed, started, stopping>>

\* A job that is not to kill: its timer is cleared if there is one.
Cancelled(r) == [r EXCEPT !.state = "cancelled", !.zero = FALSE,
                          !.step = IF @ = "timer" THEN "idle" ELSE @]

\* cancel: only within the grace.
Cancel(j) ==
  /\ job[j].state = "grace"
  /\ job' = [job EXCEPT ![j] = Cancelled(@)]
  /\ UNCHANGED <<pauseVars, failed, started, stopping>>

\* stopAll at shutdown: every pending grace is dropped.
StopAll ==
  /\ ~stopping
  /\ stopping' = TRUE
  /\ job' = [j \in Jobs |->
               IF job[j].state = "grace" THEN Cancelled(job[j]) ELSE job[j]]
  /\ UNCHANGED <<pauseVars, failed, started>>

\* The end of the process, with or without a shutdown, and a new one: the jobs
\* were in memory.
ForgetJobs ==
  /\ job' = [j \in Jobs |-> IF job[j].state = "none" THEN job[j]
                            ELSE [NoJob EXCEPT !.state = "gone"]]
  /\ stopping' = FALSE
  /\ failed' = [j \in Jobs |-> {}]
  /\ started' = [j \in Jobs |-> {}]

\* A session is launched.
Launch(s) ==
  /\ Begins(s)
  /\ started' = [j \in Jobs |-> IF job[j].step = "idle" /\ job[j].state # "killed" THEN {}
                                ELSE started[j] \cup {s}]
  /\ UNCHANGED <<listed, seen, sentinel, cli, call, holds, job, failed, stopping>>

\* A session ends by itself.
Dies(s) ==
  /\ Ends(s)
  /\ UNCHANGED <<listed, seen, sentinel, cli, call, holds, killVars>>

=============================================================================
