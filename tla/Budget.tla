------------------------------- MODULE Budget -------------------------------
(* Budget caps and the quota guard: server/control/budget.mjs and the       *)
(* `resume {override}` path of server/control/handlers.mjs.  Every lane has *)
(* one session; spend and limits are abstracted to the set of scopes that   *)
(* are over their cap.  The override marks and the remembered holds are     *)
(* rows of the database, which survive a restart.  A tick is synchronous,   *)
(* but for the command line: it looks at one file after the other, acts on  *)
(* it in a call of its own, and saves what it remembers at its end; it may  *)
(* throw, and the process may die, between any two of these.  The `held:`   *)
(* marks only word the audit; ceilings and warn events are left out.        *)
(*                                                                          *)
(* A window has a fixed start (`tonight`, from 06:00 to 18:00) or one that  *)
(* is a number of hours ago and so another one at every look (every other   *)
(* window, and `tonight` at night).  A mark is good for one start.          *)
EXTENDS Pause

CONSTANTS Capped,  \* the scopes a cap is set on
          Low      \* the sessions of the lanes with priority `low`

ASSUME LowAreSessions == Low \subseteq Sessions
ASSUME CappedAreScopes == Capped \subseteq Scopes

VARIABLES
  over,        \* the scopes at or above their cap in this window
  rolling,     \* the start of the window moves with the clock
  overridden,  \* budget.overrideBy: the marks of the last fixed start
  lifted,      \* history: the scopes an override was noted for since the window's
               \* last change and the scope's last set-budget
  under,       \* budget.under: the hold a budget pause was written over
  tick         \* the tick that runs

budgetVars == <<over, rolling, overridden, lifted, under, tick>>

Memory == [Scopes -> {None, "operator", "quota"}]

NoTick == [at |-> "idle"]
Ticks  == [at : {"rows", "high", "low"}, lift : BOOLEAN, todo : SUBSET Scopes, under : Memory]

\* No handler of the server is half done.
Idle == tick = NoTick /\ call = NoCall

BudgetTypeOK ==
  /\ over \subseteq Capped
  /\ rolling \in BOOLEAN
  /\ overridden \subseteq Scopes
  /\ lifted \subseteq Scopes
  /\ under \in Memory
  /\ tick \in Ticks \cup {NoTick}

BudgetInit ==
  /\ over = {}
  /\ rolling \in BOOLEAN
  /\ overridden = {}
  /\ lifted = {}
  /\ under = [c \in Scopes |-> None]
  /\ tick = NoTick

-----------------------------------------------------------------------------
\* The scopes a row of the evaluation acts on: the builder, and the sessions of
\* the inventory.
Acted == seen \cup {All}

\* readOverrideBy: no mark is for the start a rolling window has now.
Marked == IF rolling THEN {} ELSE overridden

\* The marks are not looked at.
ToPause_NoOverride == {c \in Acted \cap over : sentinel[c] # "budget"}

\* A scope that is held already, by anybody, is left as it is.
ToPause_AnyHoldWillDo == {c \in (Acted \cap over) \ Marked : sentinel[c] = None}

\* What a tick pauses: over, not yet held for the budget, not overridden.
ToPause == {c \in (Acted \cap over) \ Marked : sentinel[c] # "budget"}

\* What a tick with `lift` lifts: a budget pause no cap holds any more.
ToLift == {c \in Acted \ over : sentinel[c] = "budget"}

\* tick(), up to its rows.
Begin(lift) ==
  tick' = [at |-> "rows", lift |-> lift, todo |-> Acted, under |-> under]

\* A scope that is held for the budget already is not skipped.
Remembering_Again(c) ==
  IF c \in Acted \cap over THEN [tick.under EXCEPT ![c] = sentinel[c]] ELSE tick.under

\* Only the pause of this tick is remembered.
Remembering_ThisOnly(c) ==
  [tick.under EXCEPT ![c] = IF c \in ToPause /\ sentinel[c] # None THEN sentinel[c] ELSE None]

\* The hold that the budget pause of this row is about to be written over.
Remembering(c) ==
  IF c \in ToPause /\ sentinel[c] # None THEN [tick.under EXCEPT ![c] = sentinel[c]] ELSE tick.under

\* The row of scope `c`: the reads.
Row(c) ==
  /\ tick.at = "rows" /\ call = NoCall /\ c \in tick.todo
  /\ tick' = [tick EXCEPT !.todo = @ \ {c}, !.under = Remembering(c)]
  /\ \/ c \in ToPause              /\ call' = [op |-> "budget", scope |-> c]
     \/ c \in ToLift /\ tick.lift  /\ call' = [op |-> "unlink", scope |-> c]
     \/ c \notin ToPause /\ ~(c \in ToLift /\ tick.lift) /\ UNCHANGED call
  /\ UNCHANGED <<sessionVars, sentinel, cli, holds, over, rolling, overridden, lifted, under>>

\* quotaGuard, with the quota above its threshold or below the resume level
\* (`autoResume`): the reads for one session.
Quota(c) ==
  /\ tick.at \in {"high", "low"} /\ call = NoCall /\ c \in tick.todo
  /\ tick' = [tick EXCEPT !.todo = @ \ {c}]
  /\ \/ tick.at = "high" /\ sentinel[c] = None    /\ call' = [op |-> "quota", scope |-> c]
     \/ tick.at = "low"  /\ sentinel[c] = "quota" /\ call' = [op |-> "unlink", scope |-> c]
     \/ sentinel[c] # (IF tick.at = "high" THEN None ELSE "quota") /\ UNCHANGED call
  /\ UNCHANGED <<sessionVars, sentinel, cli, holds, over, rolling, overridden, lifted, under>>

\* pause() by the tick: the write, and in liftBudget the one that gives back the
\* hold the budget pause was written over.
WriteCall ==
  /\ tick # NoTick /\ call # NoCall /\ call.op # "unlink"
  /\ call' = NoCall
  /\ \/ /\ call.op = "restore"
        /\ sentinel' = [sentinel EXCEPT ![call.scope] = tick.under[call.scope]]
        /\ tick' = [tick EXCEPT !.under[call.scope] = None]
     \/ /\ call.op # "restore"
        /\ sentinel' = [sentinel EXCEPT ![call.scope] = call.op]
        /\ UNCHANGED tick
  /\ UNCHANGED <<sessionVars, cli, holds, over, rolling, overridden, lifted, under>>

\* resume() by the tick: the unlink; liftBudget goes on to restore when there was
\* a file and a hold is remembered.
UnlinkCall ==
  /\ tick # NoTick /\ call # NoCall /\ call.op = "unlink"
  /\ sentinel' = [sentinel EXCEPT ![call.scope] = None]
  /\ call' = IF tick.at = "rows" /\ None \notin {sentinel[call.scope], tick.under[call.scope]}
             THEN [call EXCEPT !.op = "restore"] ELSE NoCall
  /\ UNCHANGED <<sessionVars, cli, holds, budgetVars>>

\* The end of the rows: the sweep of the remembered holds and their kvWrite; then
\* quotaGuard.
Save ==
  /\ tick.at = "rows" /\ call = NoCall /\ tick.todo = {}
  /\ under' = [c \in Scopes |-> IF sentinel[c] = "budget" THEN tick.under[c] ELSE None]
  /\ \/ tick' = NoTick
     \/ tick' = [tick EXCEPT !.at = "high", !.todo = Low \cap seen, !.under = under']
     \/ tick' = [tick EXCEPT !.at = "low", !.todo = Sessions, !.under = under']
  /\ UNCHANGED <<pauseVars, over, rolling, overridden, lifted>>

TickEnds ==
  /\ tick.at \in {"high", "low"} /\ call = NoCall /\ tick.todo = {}
  /\ tick' = NoTick
  /\ UNCHANGED <<pauseVars, over, rolling, overridden, lifted, under>>

\* The holds that are lost when a tick ends here: those it has written over, or
\* is about to give back, with nothing saved.
Lost ==
  {c \in Scopes : /\ tick # NoTick
                  /\ \/ sentinel[c] = "budget" /\ tick.under[c] # under[c]
                     \/ call = [op |-> "restore", scope |-> c]}

\* A file or database call throws, which is only logged.
TickFails ==
  /\ tick # NoTick
  /\ tick' = NoTick
  /\ call' = NoCall
  /\ holds' = holds \ Lost
  /\ UNCHANGED <<sessionVars, sentinel, cli, over, rolling, overridden, lifted, under>>

\* The 30 s timer.
TickBegins ==
  /\ Idle
  /\ Begin(FALSE)
  /\ UNCHANGED <<pauseVars, over, rolling, overridden, lifted, under>>

\* setBudget: a new cap for `c` puts it above or below its spend, forgets its
\* override, and evaluates at once with `lift`.  The caps of the whole builder
\* may get another window with it; the marks of the old one stay in their row and
\* are good again if its start is, one day, the window's once more.
SetBudget(c) ==
  /\ Idle
  /\ \/ /\ c \in Capped
        /\ over' \in {over \cup {c}, over \ {c}}
        /\ overridden' = overridden \ {c}
        /\ lifted' = lifted \ {c}
        /\ UNCHANGED rolling
     \/ /\ c = All
        /\ over' \in SUBSET Capped
        /\ rolling' \in IF rolling THEN BOOLEAN ELSE {TRUE}
        /\ overridden' \in {{}, overridden \ {c}}
        /\ lifted' = {}
  /\ Begin(TRUE)
  /\ UNCHANGED <<pauseVars, under>>

\* `resume {override}` of a remote user: the read that finds a budget pause (the
\* removal of another kind is RunResume's) ...
RunOverride(c) ==
  /\ Idle
  /\ sentinel[c] = "budget"
  /\ call' = [op |-> "override", scope |-> c]
  /\ UNCHANGED <<sessionVars, sentinel, cli, holds, budgetVars>>

\* ... and the unlink, of whatever is there by then.  It is noted in a row of marks
\* for the start the window has now, unless the database fails.
Override ==
  /\ tick = NoTick /\ call # NoCall
  /\ call' = NoCall
  /\ Unlink(call.scope)
  /\ \/ /\ sentinel[call.scope] # None
        /\ lifted' = lifted \cup {call.scope}
        /\ overridden' = IF rolling THEN {} ELSE overridden \cup {call.scope}
     \/ UNCHANGED <<lifted, overridden>>
  /\ UNCHANGED <<sessionVars, cli, over, rolling, under, tick>>

\* A scope's spend reaches its cap, or falls below it as a rolling window moves.
Spend(c) ==
  /\ Idle
  /\ c \in Capped \cap Acted
  /\ \/ over' = over \cup {c}
     \/ rolling /\ over' = over \ {c}
  /\ UNCHANGED <<pauseVars, rolling, overridden, lifted, under, tick>>

\* `tonight` at 06:00 and 18:00: the one window ends and its marks with it.
NewWindow ==
  /\ Idle
  /\ rolling' = ~rolling
  /\ over' \in SUBSET over
  /\ overridden' = {}
  /\ lifted' = {}
  /\ UNCHANGED <<pauseVars, under, tick>>

=============================================================================
