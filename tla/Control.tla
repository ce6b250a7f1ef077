------------------------------ MODULE Control -------------------------------
(* The control plane of a builder: pauses by operators, from the API and    *)
(* from the command line, budget caps and the quota guard, and the kill     *)
(* switch, over the same sentinels and the same sessions.                   *)
EXTENDS Budget, KillSwitch

vars == <<pauseVars, budgetVars, killVars>>

TypeOK == PauseTypeOK /\ BudgetTypeOK /\ KillTypeOK

Init == PauseInit /\ BudgetInit /\ KillInit

\* The handlers of the server run when none is half done.
OperatorStep ==
  /\ Idle
  /\ \E c \in Scopes : RunPause(c) \/ RunResume(c)
  /\ UNCHANGED <<budgetVars, killVars>>

OverrideStep ==
  /\ \E c \in Scopes : RunOverride(c)
  /\ UNCHANGED killVars

LiftStep == Override /\ UNCHANGED killVars

BudgetStep ==
  /\ NewWindow \/ \E c \in Scopes : SetBudget(c) \/ Spend(c)
  /\ UNCHANGED killVars

\* The tick: that it begins, what it does with one scope, its calls, its end.
BeginStep  == TickBegins /\ UNCHANGED killVars
RowStep(c) == (Row(c) \/ Quota(c)) /\ UNCHANGED killVars
CallStep   == (WriteCall \/ UnlinkCall) /\ UNCHANGED killVars
EndStep    == (Save \/ TickEnds) /\ UNCHANGED killVars
FailStep   == TickFails /\ UNCHANGED killVars

KillStart ==
  /\ Idle
  /\ \E j \in Jobs, zero \in BOOLEAN : KillAll(j, zero)
  /\ UNCHANGED budgetVars

KillProgress(j) ==
  /\ Idle
  /\ \/ Interrupted(j) \/ Timer(j) \/ Killed(j)
     \/ \E s \in Sessions : Interrupt(j, s) \/ KillOne(j, s)
  /\ UNCHANGED budgetVars

KillStop ==
  /\ Idle
  /\ StopAll \/ \E j \in Jobs : Cancel(j)
  /\ UNCHANGED budgetVars

CliStep ==
  /\ \/ CliWrite
     \/ \E op \in {"pause", "resume"}, c \in Scopes : CliRead(op, c)
  /\ UNCHANGED <<budgetVars, killVars>>

\* Sessions come and go at any time; no file call of a handler looks at them, so
\* it is enough that they do so, and are listed, between two handlers.
SessionStep ==
  /\ Idle
  /\ \/ \E s \in Sessions : Launch(s) \/ Dies(s)
     \/ (List \/ Land) /\ UNCHANGED killVars
  /\ UNCHANGED budgetVars

\* The process ends and starts again.  What a half done tick has not saved is
\* lost, and with it the memory of the holds it has just written over.
Restart ==
  /\ ForgetJobs
  /\ tick' = NoTick
  /\ call' = NoCall
  /\ holds' = holds \ Lost
  /\ listed' = {}
  /\ seen' = {}
  /\ UNCHANGED <<live, sentinel, cli, over, rolling, overridden, lifted, under>>

Next ==
  \/ OperatorStep
  \/ OverrideStep
  \/ LiftStep
  \/ BudgetStep
  \/ BeginStep
  \/ \E c \in Scopes : RowStep(c)
  \/ CallStep
  \/ EndStep
  \/ FailStep
  \/ KillStart
  \/ \E j \in Jobs : KillProgress(j)
  \/ KillStop
  \/ CliStep
  \/ SessionStep
  \/ Restart

Spec == Init /\ [][Next]_vars

\* The 30 s timer fires for ever and gets its turn between the handlers, and what
\* has begun ends.  Not every tick fails, or is cut off by a restart, before it has
\* looked at a scope or while it writes: that is the environment's part, without
\* which no cap is ever enforced.
FairSpec ==
  /\ Spec
  /\ WF_vars(LiftStep)
  /\ WF_vars(EndStep)
  /\ SF_vars(BeginStep)
  /\ SF_vars(CallStep)
  /\ \A c \in Scopes : SF_vars(RowStep(c))

-----------------------------------------------------------------------------
\* A pause an operator has written stays until somebody resumes that scope: a
\* budget pause over it, the lift of that budget pause, the quota guard, a
\* cancelled kill, ticks, restarts and the command line between any two file
\* calls do not lift it (pause.mjs:30, budget.mjs:402, killswitch.mjs:28), but for
\* the moment between the unlink and the write of liftBudget.  Not claimed are a
\* pause the command line writes while a tick is between its read and its write
\* of the same file, and one a failed tick has made the budget forget (`holds`).
OperatorHoldStays ==
  \A c \in holds : sentinel[c] # None \/ call = [op |-> "restore", scope |-> c]

\* Within a window whose start is fixed, a scope a remote user has lifted with
\* `override` is not put under a budget pause again before the next set-budget
\* for it (budget.mjs:468).
OverrideIsHonoured == ~rolling => \A c \in lifted : sentinel[c] # "budget"

\* A scope that stays over its cap, with no valid override, is put under a budget
\* pause again and again, whatever removes it (budget.mjs:477).
OverBudgetIsHeld ==
  \A c \in Scopes :
    <>[](c \in over /\ c \in Acted /\ c \notin Marked) => []<>(sentinel[c] = "budget")

\* A cancel is final: the job kills nothing, also when the cancel came while
\* its interrupts were still being sent (killswitch.mjs:466).
CancelIsFinal ==
  [][\A j \in Jobs : job[j].state = "cancelled" => job'[j].state \in {"cancelled", "gone"}]_vars

\* When a job has killed, the sessions that still run were launched after the list
\* of the collector from which it chose its victims for the last time, or their
\* kill failed: those launched during the interrupts and the grace, and listed by
\* then, are gone (killswitch.mjs:345).
KillReachesAll ==
  \A j \in Jobs : job[j].state = "killed" => live \subseteq started[j] \cup failed[j]

=============================================================================
