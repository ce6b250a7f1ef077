---------------------------- MODULE ControlProofs ----------------------------
(* Proofs about Control, for any sessions, any caps and any number of kills.  *)
(*                                                                            *)
(* The properties about pauses speak of the sentinels alone; what keeps them  *)
(* is what the budget remembers of a hold it writes over, which a tick has in *)
(* memory before it saves it, and what the server may still be about to do to *)
(* a file it has read: the command line may have come in between.  PauseInv   *)
(* ties these together, KillInv the step of each kill to its state, to the    *)
(* sessions that run and to those the collector knows.                        *)
EXTENDS Control, TLAPS

(* What the budget remembers, saved or about to be. *)
Remembered == IF tick = NoTick THEN under ELSE tick.under

(* A call belongs to the handler that decided on it, and a tick puts no budget *)
(* pause on a scope with a valid mark.                                         *)
CallOK ==
  call # NoCall =>
    /\ call.op \in {"budget", "restore"} => tick # NoTick /\ tick.at = "rows"
    /\ call.op \in {"quota", "unlink"} => tick # NoTick
    /\ call.op = "quota" => tick.at # "rows"
    /\ call.op = "override" => tick = NoTick
    /\ call.op = "budget" => call.scope \notin Marked

(* Where a hold of `c` is: in its file, in the memory of the budget pause over  *)
(* it, or on its way back from there ...                                        *)
HoldIsSomewhere(c) ==
  \/ sentinel[c] = "operator"
  \/ Remembered[c] = "operator" /\ sentinel[c] = "budget"
  \/ Remembered[c] = "operator" /\ call = [op |-> "restore", scope |-> c]

(* ... and no call that the server is about to make on its file loses it. *)
HoldIsSafe(c) ==
  Between(c) =>
    \/ call.op = "override"
    \/ tick # NoTick /\ tick.at = "rows" /\ Remembered[c] = "operator"

HoldsKept == \A c \in holds : HoldIsSomewhere(c) /\ HoldIsSafe(c)

(* After its rows a tick remembers what it has saved. *)
MemorySaved == tick # NoTick /\ tick.at # "rows" => tick.under = under

(* Within a fixed window the scopes that were lifted have their mark. *)
LiftsMarked == ~rolling => \A c \in lifted : c \in overridden /\ sentinel[c] # "budget"

PauseInv ==
  /\ PauseTypeOK
  /\ BudgetTypeOK
  /\ CallOK
  /\ MemorySaved
  /\ HoldsKept
  /\ LiftsMarked

(* A job: its step belongs to its state, and once it kills, every session that *)
(* runs is still to be killed, was launched since, or could not be killed.     *)
JobOK(j) ==
  /\ job[j].step = "kill" <=> job[j].state = "killing"
  /\ job[j].step = "timer" => job[j].state = "grace"
  /\ job[j].state \in {"none", "killed"} => job[j].step = "idle"
  /\ job[j].state = "killing" => live \subseteq job[j].todo \cup started[j] \cup failed[j]
  /\ job[j].state = "killed" => live \subseteq started[j] \cup failed[j]

KillInv ==
  /\ live \subseteq Sessions /\ seen \subseteq Sessions
  /\ KillTypeOK
  /\ \A j \in Jobs : JobOK(j)

IInv == PauseInv /\ KillInv

-----------------------------------------------------------------------------
(* Pauses *)

LEMMA ScopesTyped == Sessions \subseteq Scopes /\ All \in Scopes
BY DEF Scopes

(* A call is one of its kind or none at all. *)
LEMMA CallsTyped ==
  ASSUME call \in Calls
  PROVE  /\ call # NoCall
         /\ call.scope \in Scopes
         /\ call.op \in {"budget", "quota", "unlink", "restore", "override"}
         /\ call = [op |-> call.op, scope |-> call.scope]
BY DEF Calls, NoCall

(* The tick has a memory; being idle is none of its forms. *)
LEMMA TicksTyped ==
  ASSUME tick \in Ticks
  PROVE  /\ tick # NoTick
         /\ tick.at \in {"rows", "high", "low"}
         /\ tick.todo \subseteq Scopes
         /\ tick.under \in Memory
         /\ tick.lift \in BOOLEAN
BY DEF Ticks, NoTick

LEMMA TicksNotIdle == NoTick \notin Ticks
BY DEF Ticks, NoTick

(* What leaves the pauses and the budget alone. *)
LEMMA PauseStutters ==
  ASSUME PauseInv, live' \subseteq Sessions, listed' \subseteq Sessions, seen' \subseteq Sessions,
         UNCHANGED <<sentinel, cli, call, holds, budgetVars>>
  PROVE  PauseInv'
<1>1. PauseTypeOK' /\ BudgetTypeOK' /\ CallOK'
  BY DEF PauseInv, PauseTypeOK, BudgetTypeOK, CallOK, Marked, budgetVars
<1>2. HoldsKept'
  BY DEF PauseInv, HoldsKept, HoldIsSomewhere, HoldIsSafe, Remembered, Between, budgetVars
<1>3. LiftsMarked'
  BY DEF PauseInv, LiftsMarked, MemorySaved, budgetVars
<1>4. MemorySaved'
  BY DEF PauseInv, MemorySaved, budgetVars
<1> QED BY <1>1, <1>2, <1>3, <1>4 DEF PauseInv

(* An operator's pause, wherever it comes from and whatever the server is in    *)
(* the middle of.                                                               *)
LEMMA WritePauseKeeps ==
  ASSUME PauseInv, NEW c \in Scopes, WritePause(c), cli' \in Commands \cup {NoCommand},
         UNCHANGED <<sessionVars, call, budgetVars>>
  PROVE  PauseInv'
<1> USE DEF PauseInv
<1>1. PauseTypeOK' /\ BudgetTypeOK' /\ CallOK' /\ MemorySaved'
  BY DEF WritePause, PauseTypeOK, BudgetTypeOK, CallOK, MemorySaved, Marked, budgetVars, sessionVars, Kinds
<1>2. HoldsKept'
  <2> SUFFICES ASSUME NEW d \in holds' PROVE HoldIsSomewhere(d)' /\ HoldIsSafe(d)'
    BY DEF HoldsKept
  <2>1. d \in Scopes /\ (d \in holds \/ (d = c /\ ~Between(d)))
    BY DEF WritePause, PauseTypeOK
  <2>2. HoldIsSomewhere(d)'
    BY <2>1 DEF WritePause, PauseTypeOK, HoldsKept, HoldIsSomewhere, Remembered, budgetVars
  <2>3. HoldIsSafe(d)'
    BY <2>1 DEF HoldsKept, HoldIsSafe, Between, Remembered, budgetVars
  <2> QED BY <2>2, <2>3
<1>3. LiftsMarked'
  BY DEF WritePause, PauseTypeOK, BudgetTypeOK, LiftsMarked, budgetVars
<1> QED BY <1>1, <1>2, <1>3

(* A resume lifts the hold with the sentinel. *)
LEMMA UnlinkKeeps ==
  ASSUME PauseInv, NEW c \in Scopes, Unlink(c), cli' \in Commands \cup {NoCommand},
         UNCHANGED <<sessionVars, call, budgetVars>>
  PROVE  PauseInv'
<1> USE DEF PauseInv
<1>1. PauseTypeOK' /\ BudgetTypeOK' /\ CallOK' /\ MemorySaved'
  BY DEF Unlink, PauseTypeOK, BudgetTypeOK, CallOK, MemorySaved, Marked, budgetVars, sessionVars
<1>2. HoldsKept'
  <2> SUFFICES ASSUME NEW d \in holds' PROVE HoldIsSomewhere(d)' /\ HoldIsSafe(d)'
    BY DEF HoldsKept
  <2>1. d \in holds /\ d # c /\ d \in Scopes /\ sentinel'[d] = sentinel[d]
    BY DEF Unlink, PauseTypeOK
  <2> QED
    BY <2>1 DEF HoldsKept, HoldIsSomewhere, HoldIsSafe, Between, Remembered, budgetVars
<1>3. LiftsMarked'
  BY DEF Unlink, PauseTypeOK, BudgetTypeOK, LiftsMarked, None, budgetVars
<1> QED BY <1>1, <1>2, <1>3

LEMMA PauseNowKeeps ==
  ASSUME PauseInv, NEW c \in Scopes, PauseNow(c), UNCHANGED <<sessionVars, cli, call, budgetVars>>
  PROVE  PauseInv'
<1>1. CASE WritePause(c)
  BY <1>1, WritePauseKeeps DEF PauseInv, PauseTypeOK
<1>2. CASE UNCHANGED <<sentinel, holds>>
  BY <1>2, PauseStutters DEF PauseInv, PauseTypeOK, sessionVars
<1> QED BY <1>1, <1>2 DEF PauseNow

(* An operator through the API. *)
LEMMA OperatorKeeps ==
  ASSUME PauseInv, OperatorStep
  PROVE  PauseInv'
<1> PICK c \in Scopes : RunPause(c) \/ RunResume(c)
  BY DEF OperatorStep
<1>0. UNCHANGED budgetVars /\ cli \in Commands \cup {NoCommand}
  BY DEF OperatorStep, PauseInv, PauseTypeOK
<1>1. CASE RunPause(c)
  BY <1>0, <1>1, PauseNowKeeps DEF RunPause
<1>2. CASE RunResume(c)
  BY <1>0, <1>2, UnlinkKeeps DEF RunResume
<1> QED BY <1>1, <1>2

(* The command line: its write may come after any number of other steps, and in *)
(* the middle of any.                                                           *)
LEMMA CliKeeps ==
  ASSUME PauseInv, CliStep
  PROVE  PauseInv'
<1>0. UNCHANGED <<sessionVars, call, budgetVars>>
  BY DEF CliStep, CliWrite, CliRead
<1>1. CASE \E op \in {"pause", "resume"}, c \in Scopes : CliRead(op, c)
  <2>1. cli' \in Commands /\ UNCHANGED <<sentinel, holds>>
    BY <1>1 DEF CliRead, Commands
  <2>2. PauseTypeOK'
    BY <1>0, <2>1 DEF PauseInv, PauseTypeOK, sessionVars
  <2>3. BudgetTypeOK' /\ CallOK' /\ MemorySaved' /\ HoldsKept' /\ LiftsMarked'
    BY <1>0, <2>1
    DEF PauseInv, BudgetTypeOK, CallOK, MemorySaved, Marked, HoldsKept, HoldIsSomewhere, HoldIsSafe, Remembered,
        Between, LiftsMarked, budgetVars
  <2> QED BY <2>2, <2>3 DEF PauseInv
<1>2. CASE CliWrite
  <2>1. cli \in Commands /\ cli' = NoCommand
    BY <1>2 DEF CliWrite, PauseInv, PauseTypeOK
  <2>2. cli.scope \in Scopes
    BY <2>1 DEF Commands
  <2>3. WritePause(cli.scope) \/ Unlink(cli.scope)
    BY <1>2 DEF CliWrite
  <2> QED BY <1>0, <2>1, <2>2, <2>3, WritePauseKeeps, UnlinkKeeps
<1> QED BY <1>1, <1>2 DEF CliStep

-----------------------------------------------------------------------------
(* The budget *)

(* The handler begins with every call made. *)
LEMMA BeginKeeps ==
  ASSUME PauseInv, Idle, NEW lift \in BOOLEAN, Begin(lift), UNCHANGED <<pauseVars, under>>,
         over' \subseteq Capped, rolling' \in BOOLEAN,
         overridden' \subseteq Scopes, lifted' \subseteq Scopes, LiftsMarked'
  PROVE  PauseInv'
<1> USE DEF PauseInv
<1>1. UNCHANGED <<live, listed, seen, sentinel, cli, call, holds>> /\ call = NoCall /\ tick = NoTick
  BY DEF pauseVars, sessionVars, Idle
<1>2. tick' \in Ticks /\ tick'.under = under
  BY <1>1 DEF Begin, Ticks, Acted, PauseTypeOK, BudgetTypeOK, Scopes
<1>3. tick' # NoTick
  BY <1>2 DEF Ticks, NoTick
<1>4. PauseTypeOK' /\ BudgetTypeOK'
  BY <1>1, <1>2 DEF PauseTypeOK, BudgetTypeOK
<1>5. CallOK' /\ MemorySaved'
  BY <1>1 DEF CallOK, MemorySaved, Begin
<1>6. HoldsKept'
  BY <1>1, <1>2, <1>3 DEF HoldsKept, HoldIsSomewhere, HoldIsSafe, Remembered, Between
<1> QED BY <1>4, <1>5, <1>6

LEMMA SetBudgetKeeps ==
  ASSUME PauseInv, NEW c \in Scopes, SetBudget(c)
  PROVE  PauseInv'
<1>1. /\ Idle /\ Begin(TRUE) /\ UNCHANGED <<pauseVars, under>>
      /\ over' \subseteq Capped /\ rolling' \in BOOLEAN
      /\ overridden' \subseteq Scopes /\ lifted' \subseteq Scopes
  BY DEF SetBudget, PauseInv, BudgetTypeOK
<1>2. LiftsMarked'
  <2>0. UNCHANGED sentinel
    BY <1>1 DEF pauseVars
  <2>1. CASE lifted' = {}
    BY <2>1 DEF LiftsMarked
  <2>2. CASE overridden' = overridden \ {c} /\ lifted' = lifted \ {c} /\ UNCHANGED rolling
    BY <2>0, <2>2 DEF LiftsMarked, PauseInv
  <2> QED BY <2>1, <2>2 DEF SetBudget
<1> QED BY <1>1, <1>2, BeginKeeps

LEMMA TickBeginsKeeps ==
  ASSUME PauseInv, TickBegins
  PROVE  PauseInv'
<1>1. /\ Idle /\ Begin(FALSE) /\ UNCHANGED <<pauseVars, under>>
      /\ over' \subseteq Capped /\ rolling' \in BOOLEAN
      /\ overridden' \subseteq Scopes /\ lifted' \subseteq Scopes
  BY DEF TickBegins, PauseInv, BudgetTypeOK
<1>2. LiftsMarked'
  BY DEF TickBegins, PauseInv, LiftsMarked, pauseVars
<1> QED BY <1>1, <1>2, BeginKeeps

(* A row remembers the hold it is about to write over before it does. *)
LEMMA RowKeeps ==
  ASSUME PauseInv, NEW c \in Scopes, Row(c)
  PROVE  PauseInv'
<1> USE DEF PauseInv
<1>1. /\ tick.at = "rows" /\ call = NoCall
      /\ tick' = [tick EXCEPT !.todo = @ \ {c}, !.under = Remembering(c)]
      /\ UNCHANGED <<live, listed, seen, sentinel, cli, holds, over, rolling, overridden, lifted, under>>
  BY DEF Row, sessionVars
<1>2. tick \in Ticks
  BY <1>1 DEF BudgetTypeOK, NoTick
<1>3. /\ tick # NoTick /\ tick.under \in Memory
      /\ sentinel \in [Scopes -> Kinds \cup {None}] /\ holds \subseteq Scopes
  BY <1>2, TicksTyped DEF PauseTypeOK
<1>4. Remembering(c) \in Memory
  BY <1>3 DEF Remembering, ToPause, Memory, Kinds
<1>5. tick' \in Ticks /\ tick'.at = "rows" /\ tick'.under = Remembering(c)
  BY <1>1, <1>2, <1>4 DEF Ticks
<1>6. tick' # NoTick
  BY <1>5 DEF Ticks, NoTick
<1>7. \/ c \in ToPause /\ call' = [op |-> "budget", scope |-> c]
      \/ c \in ToLift /\ tick.lift /\ call' = [op |-> "unlink", scope |-> c]
      \/ c \notin ToPause /\ call' = NoCall
  BY <1>1 DEF Row
<1>8. PauseTypeOK' /\ BudgetTypeOK'
  BY <1>1, <1>5, <1>7 DEF PauseTypeOK, BudgetTypeOK, Calls
<1>9. CallOK' /\ MemorySaved'
  BY <1>1, <1>5, <1>6, <1>7 DEF CallOK, MemorySaved, ToPause, Marked, NoCall
<1>10. HoldsKept'
  <2> SUFFICES ASSUME NEW d \in holds PROVE HoldIsSomewhere(d)' /\ HoldIsSafe(d)'
    BY <1>1 DEF HoldsKept
  <2>1. d \in Scopes
    BY <1>3
  <2>2. \/ sentinel[d] = "operator"
        \/ sentinel[d] = "budget" /\ tick.under[d] = "operator"
    BY <1>1, <1>3 DEF HoldsKept, HoldIsSomewhere, Remembered, NoCall
  <2>3. Remembered'[d] = IF d = c /\ c \in ToPause /\ sentinel[c] # None THEN sentinel[d]
                         ELSE tick.under[d]
    BY <1>3, <1>5, <1>6, <2>1 DEF Remembered, Remembering, Memory
  <2>4. sentinel'[d] = sentinel[d]
    BY <1>1
  <2>5. HoldIsSomewhere(d)'
    BY <2>2, <2>3, <2>4 DEF HoldIsSomewhere, ToPause
  <2>6. Between(d)' => d = c /\ (c \in ToPause \/ c \in ToLift)
    BY <1>7 DEF Between, NoCall
  <2>7. Between(d)' => Remembered'[d] = "operator"
    BY <2>2, <2>3, <2>6 DEF ToPause, ToLift, None
  <2> QED BY <1>5, <1>6, <2>5, <2>7 DEF HoldIsSafe
<1>11. LiftsMarked'
  BY <1>1 DEF LiftsMarked
<1> QED BY <1>8, <1>9, <1>10, <1>11

(* The quota guard touches no file with a hold. *)
LEMMA QuotaKeeps ==
  ASSUME PauseInv, NEW c \in Scopes, Quota(c)
  PROVE  PauseInv'
<1> USE DEF PauseInv
<1>1. /\ tick.at \in {"high", "low"} /\ call = NoCall
      /\ tick' = [tick EXCEPT !.todo = @ \ {c}]
      /\ UNCHANGED <<live, listed, seen, sentinel, cli, holds, over, rolling, overridden, lifted, under>>
  BY DEF Quota, sessionVars
<1>2. tick \in Ticks
  BY <1>1 DEF BudgetTypeOK, NoTick
<1>3. /\ tick' \in Ticks /\ tick'.under = tick.under /\ tick'.at = tick.at
      /\ tick # NoTick /\ tick' # NoTick
  BY <1>1, <1>2 DEF Ticks, NoTick
<1>4. \/ sentinel[c] = None /\ call' = [op |-> "quota", scope |-> c]
      \/ sentinel[c] = "quota" /\ call' = [op |-> "unlink", scope |-> c]
      \/ call' = NoCall
  BY <1>1 DEF Quota
<1>5. PauseTypeOK' /\ BudgetTypeOK' /\ CallOK' /\ MemorySaved'
  BY <1>1, <1>3, <1>4 DEF PauseTypeOK, BudgetTypeOK, Calls, CallOK, MemorySaved, NoCall
<1>6. HoldsKept'
  <2> SUFFICES ASSUME NEW d \in holds PROVE HoldIsSomewhere(d)' /\ HoldIsSafe(d)'
    BY <1>1 DEF HoldsKept
  <2>1. \/ sentinel[d] = "operator"
        \/ sentinel[d] = "budget" /\ tick.under[d] = "operator"
    BY <1>1, <1>3 DEF HoldsKept, HoldIsSomewhere, Remembered, NoCall
  <2>2. Between(d)' => d = c /\ sentinel[d] \in {None, "quota"}
    BY <1>4 DEF Between, NoCall
  <2>3. ~Between(d)'
    BY <2>1, <2>2 DEF None
  <2> QED BY <1>1, <1>3, <2>1, <2>3 DEF HoldIsSomewhere, HoldIsSafe, Remembered
<1>7. LiftsMarked'
  BY <1>1 DEF LiftsMarked
<1> QED BY <1>5, <1>6, <1>7

(* The writes of a tick. *)
LEMMA WriteCallKeeps ==
  ASSUME PauseInv, WriteCall
  PROVE  PauseInv'
<1> USE DEF PauseInv
<1> DEFINE c == call.scope
<1>1. /\ tick # NoTick /\ call # NoCall /\ call.op # "unlink" /\ call' = NoCall
      /\ UNCHANGED <<live, listed, seen, cli, holds, over, rolling, overridden, lifted, under>>
  BY DEF WriteCall, sessionVars
<1>2. tick \in Ticks /\ call \in Calls
  BY <1>1 DEF BudgetTypeOK, PauseTypeOK
<1>3. /\ c \in Scopes /\ call.op \in {"budget", "quota", "restore"}
      /\ call = [op |-> call.op, scope |-> c]
      /\ tick.under \in Memory
      /\ sentinel \in [Scopes -> Kinds \cup {None}] /\ holds \subseteq Scopes
  BY <1>1, <1>2, CallsTyped, TicksTyped DEF CallOK, PauseTypeOK
<1>4. CASE /\ call.op = "restore"
           /\ sentinel' = [sentinel EXCEPT ![c] = tick.under[c]]
           /\ tick' = [tick EXCEPT !.under[c] = None]
  <2>1. /\ tick' \in Ticks /\ tick' # NoTick /\ tick'.at = "rows"
        /\ tick'.under = [tick.under EXCEPT ![c] = None]
    BY <1>1, <1>2, <1>3, <1>4 DEF Ticks, NoTick, Memory, CallOK
  <2>2. /\ sentinel' \in [Scopes -> Kinds \cup {None}]
        /\ sentinel'[c] = tick.under[c] /\ sentinel'[c] # "budget"
        /\ \A d \in Scopes \ {c} : sentinel'[d] = sentinel[d]
    BY <1>3, <1>4 DEF Memory, Kinds, None
  <2>3. PauseTypeOK' /\ BudgetTypeOK' /\ CallOK' /\ MemorySaved'
    BY <1>1, <2>1, <2>2 DEF PauseTypeOK, BudgetTypeOK, CallOK, MemorySaved
  <2>4. HoldsKept'
    <3> SUFFICES ASSUME NEW d \in holds PROVE HoldIsSomewhere(d)' /\ HoldIsSafe(d)'
      BY <1>1 DEF HoldsKept
    <3>1. d \in Scopes /\ HoldIsSomewhere(d) /\ HoldIsSafe(d)
      BY <1>3 DEF HoldsKept
    <3>2. HoldIsSafe(d)'
      BY <1>1 DEF HoldIsSafe, Between
    <3>3. CASE d = c
      BY <1>1, <1>3, <1>4, <2>2, <3>1, <3>3 DEF HoldIsSomewhere, HoldIsSafe, Between, Remembered
    <3>4. CASE d # c
      <4>1. sentinel'[d] = sentinel[d] /\ Remembered'[d] = Remembered[d]
        BY <1>1, <1>3, <2>1, <2>2, <3>1, <3>4 DEF Remembered, Memory
      <4>2. call # [op |-> "restore", scope |-> d]
        BY <1>3, <3>4
      <4> QED BY <3>1, <3>2, <4>1, <4>2 DEF HoldIsSomewhere
    <3> QED BY <3>2, <3>3, <3>4
  <2>5. LiftsMarked'
    BY <1>1, <2>2 DEF LiftsMarked, BudgetTypeOK
  <2> QED BY <2>3, <2>4, <2>5
<1>5. CASE call.op # "restore"
  <2>0. sentinel' = [sentinel EXCEPT ![c] = call.op] /\ tick' = tick
    BY <1>5 DEF WriteCall
  <2>1. /\ sentinel' \in [Scopes -> Kinds \cup {None}]
        /\ sentinel'[c] = call.op
        /\ \A d \in Scopes \ {c} : sentinel'[d] = sentinel[d]
    BY <1>3, <1>5, <2>0 DEF Kinds
  <2>2. PauseTypeOK' /\ BudgetTypeOK' /\ CallOK' /\ MemorySaved'
    BY <1>1, <2>0, <2>1 DEF PauseTypeOK, BudgetTypeOK, CallOK, MemorySaved
  <2>3. HoldsKept'
    <3> SUFFICES ASSUME NEW d \in holds PROVE HoldIsSomewhere(d)' /\ HoldIsSafe(d)'
      BY <1>1 DEF HoldsKept
    <3>1. d \in Scopes /\ HoldIsSomewhere(d) /\ HoldIsSafe(d) /\ Remembered' = Remembered
      BY <1>1, <1>3, <2>0 DEF HoldsKept, Remembered
    <3>2. HoldIsSafe(d)'
      BY <1>1 DEF HoldIsSafe, Between
    <3>3. CASE d = c
      <4>1. tick.at = "rows" /\ Remembered[d] = "operator"
        BY <1>1, <1>3, <3>1, <3>3 DEF HoldIsSafe, Between
      <4>2. call.op = "budget"
        BY <1>1, <1>3, <1>5, <4>1 DEF CallOK
      <4> QED BY <2>1, <3>1, <3>2, <3>3, <4>1, <4>2 DEF HoldIsSomewhere
    <3>4. CASE d # c
      BY <1>3, <1>5, <2>1, <3>1, <3>2, <3>4 DEF HoldIsSomewhere
    <3> QED BY <3>3, <3>4
  <2>4. LiftsMarked'
    BY <1>1, <1>3, <1>5, <2>1 DEF LiftsMarked, BudgetTypeOK, CallOK, Marked
  <2> QED BY <2>2, <2>3, <2>4
<1> QED BY <1>4, <1>5 DEF WriteCall

(* The unlinks of a tick: of a hold only to give it back. *)
LEMMA UnlinkCallKeeps ==
  ASSUME PauseInv, UnlinkCall
  PROVE  PauseInv'
<1> USE DEF PauseInv
<1> DEFINE c == call.scope
<1> DEFINE back == tick.at = "rows" /\ None \notin {sentinel[c], tick.under[c]}
<1>1. /\ tick # NoTick /\ call # NoCall /\ call.op = "unlink"
      /\ sentinel' = [sentinel EXCEPT ![c] = None]
      /\ UNCHANGED <<live, listed, seen, cli, holds, over, rolling, overridden, lifted, under, tick>>
  BY DEF UnlinkCall, sessionVars, budgetVars
<1>2. tick \in Ticks /\ call \in Calls
  BY <1>1 DEF BudgetTypeOK, PauseTypeOK
<1>3. /\ c \in Scopes /\ call = [op |-> call.op, scope |-> c]
      /\ sentinel \in [Scopes -> Kinds \cup {None}] /\ holds \subseteq Scopes
  BY <1>1, <1>2, CallsTyped DEF PauseTypeOK
<1>4. call' = IF back THEN [op |-> "restore", scope |-> c] ELSE NoCall
  BY <1>2 DEF UnlinkCall, Calls
<1>5. /\ sentinel' \in [Scopes -> Kinds \cup {None}] /\ sentinel'[c] = None
      /\ \A d \in Scopes \ {c} : sentinel'[d] = sentinel[d]
  BY <1>1, <1>3
<1>6. PauseTypeOK' /\ BudgetTypeOK' /\ CallOK' /\ MemorySaved'
  BY <1>1, <1>3, <1>4, <1>5 DEF PauseTypeOK, BudgetTypeOK, Calls, CallOK, MemorySaved, NoCall
<1>7. HoldsKept'
  <2> SUFFICES ASSUME NEW d \in holds PROVE HoldIsSomewhere(d)' /\ HoldIsSafe(d)'
    BY <1>1 DEF HoldsKept
  <2>1. d \in Scopes /\ HoldIsSomewhere(d) /\ HoldIsSafe(d)
    BY <1>3 DEF HoldsKept
  <2>2. Remembered' = Remembered /\ Remembered = tick.under
    BY <1>1 DEF Remembered
  <2>3. CASE d = c
    <3>1. tick.at = "rows" /\ tick.under[c] = "operator"
      BY <1>1, <2>1, <2>2, <2>3 DEF HoldIsSafe, Between
    <3>2. sentinel[c] \in {"operator", "budget"}
      BY <1>1, <2>1, <2>3 DEF HoldIsSomewhere
    <3>3. back
      BY <3>1, <3>2 DEF None
    <3> QED BY <1>1, <1>4, <2>2, <2>3, <3>1, <3>3 DEF HoldIsSomewhere, HoldIsSafe, Between
  <2>4. CASE d # c
    <3>1. ~Between(d)' /\ call # [op |-> "restore", scope |-> d]
      BY <1>1, <1>4, <2>4 DEF Between, NoCall
    <3> QED BY <1>5, <2>1, <2>2, <2>4, <3>1 DEF HoldIsSomewhere, HoldIsSafe
  <2> QED BY <2>3, <2>4
<1>8. LiftsMarked'
  BY <1>1, <1>5 DEF LiftsMarked, BudgetTypeOK, None
<1> QED BY <1>6, <1>7, <1>8

(* The end of the rows saves what the tick remembers, but for pauses that are   *)
(* gone.                                                                        *)
LEMMA EndKeeps ==
  ASSUME PauseInv, Save \/ TickEnds
  PROVE  PauseInv'
<1> USE DEF PauseInv
<1>0. /\ call = NoCall /\ tick \in Ticks
      /\ UNCHANGED <<live, listed, seen, sentinel, cli, call, holds, over, rolling, overridden, lifted>>
  BY DEF Save, TickEnds, pauseVars, sessionVars, BudgetTypeOK, NoTick
<1>1. tick # NoTick /\ tick.under \in Memory /\ tick.lift \in BOOLEAN
  BY <1>0, TicksTyped
<1>2. PauseTypeOK' /\ CallOK' /\ LiftsMarked'
  BY <1>0 DEF PauseTypeOK, CallOK, LiftsMarked
<1>3. \A c \in holds : \/ sentinel[c] = "operator"
                       \/ sentinel[c] = "budget" /\ tick.under[c] = "operator"
  BY <1>0, <1>1 DEF HoldsKept, HoldIsSomewhere, Remembered, NoCall
<1>4. CASE Save
  <2>1. under' = [c \in Scopes |-> IF sentinel[c] = "budget" THEN tick.under[c] ELSE None]
    BY <1>4 DEF Save
  <2>2. under' \in Memory
    BY <1>1, <2>1 DEF Memory
  <2>3. tick' = NoTick \/ (tick' \in Ticks /\ tick'.under = under')
    <3>1. Low \cap seen \subseteq Scopes
      BY LowAreSessions, ScopesTyped
    <3>2. CASE tick' = [tick EXCEPT !.at = "high", !.todo = Low \cap seen, !.under = under']
      BY <1>0, <2>2, <3>1, <3>2 DEF Ticks
    <3>3. CASE tick' = [tick EXCEPT !.at = "low", !.todo = Sessions, !.under = under']
      BY <1>0, <2>2, <3>3, ScopesTyped DEF Ticks
    <3> QED BY <1>4, <3>2, <3>3 DEF Save
  <2>4. BudgetTypeOK'
    BY <1>0, <2>2, <2>3 DEF BudgetTypeOK
  <2>5. Remembered' = under'
    BY <2>3, TicksNotIdle DEF Remembered
  <2>6. HoldsKept' /\ MemorySaved'
    <3> SUFFICES ASSUME NEW c \in holds PROVE HoldIsSomewhere(c)' /\ HoldIsSafe(c)'
      BY <1>0, <2>3 DEF HoldsKept, MemorySaved
    <3>1. c \in Scopes
      BY DEF PauseTypeOK
    <3> QED BY <1>0, <1>3, <2>1, <2>5, <3>1 DEF HoldIsSomewhere, HoldIsSafe, Between
  <2> QED BY <1>2, <2>4, <2>6
<1>5. CASE TickEnds
  <2>1. tick' = NoTick /\ UNCHANGED under /\ tick.under = under
    BY <1>1, <1>5 DEF TickEnds, MemorySaved
  <2>2. BudgetTypeOK' /\ MemorySaved'
    BY <1>0, <2>1 DEF BudgetTypeOK, MemorySaved
  <2>3. HoldsKept'
    BY <1>0, <1>3, <2>1 DEF HoldsKept, HoldIsSomewhere, HoldIsSafe, Between, Remembered
  <2> QED BY <1>2, <2>2, <2>3
<1> QED BY <1>4, <1>5

(* What a handler is in the middle of when it ends there - it throws, or the    *)
(* process dies - is lost with the holds it has not saved.                      *)
LEMMA CutOffKeeps ==
  ASSUME PauseInv, tick' = NoTick, call' = NoCall, holds' = holds \ Lost,
         live' \subseteq Sessions, listed' \subseteq Sessions, seen' \subseteq Sessions,
         UNCHANGED <<sentinel, cli, over, rolling, overridden, lifted, under>>
  PROVE  PauseInv'
<1> USE DEF PauseInv
<1>1. PauseTypeOK' /\ BudgetTypeOK' /\ CallOK' /\ MemorySaved' /\ LiftsMarked'
  BY DEF PauseTypeOK, BudgetTypeOK, CallOK, MemorySaved, LiftsMarked
<1>2. HoldsKept'
  <2> SUFFICES ASSUME NEW c \in holds, c \notin Lost
               PROVE  HoldIsSomewhere(c)' /\ HoldIsSafe(c)'
    BY DEF HoldsKept
  <2>1. c \in Scopes /\ HoldIsSomewhere(c)
    BY DEF HoldsKept, PauseTypeOK
  <2>2. Remembered' = under /\ ~Between(c)'
    BY DEF Remembered, Between
  <2>3. CASE tick = NoTick
    <3>1. call # [op |-> "restore", scope |-> c]
      BY <2>3 DEF CallOK, NoCall
    <3> QED BY <2>1, <2>2, <2>3, <3>1 DEF HoldIsSomewhere, HoldIsSafe, Remembered
  <2>4. CASE tick # NoTick
    <3>1. /\ call # [op |-> "restore", scope |-> c]
          /\ sentinel[c] = "budget" => tick.under[c] = under[c]
      BY <2>1, <2>4 DEF Lost
    <3> QED BY <2>1, <2>2, <2>4, <3>1 DEF HoldIsSomewhere, HoldIsSafe, Remembered
  <2> QED BY <2>3, <2>4
<1> QED BY <1>1, <1>2

LEMMA FailKeeps ==
  ASSUME PauseInv, TickFails
  PROVE  PauseInv'
BY CutOffKeeps DEF TickFails, PauseInv, PauseTypeOK, sessionVars

(* An override is decided on ... *)
LEMMA OverrideBegins ==
  ASSUME PauseInv, NEW c \in Scopes, RunOverride(c)
  PROVE  PauseInv'
<1> USE DEF PauseInv
<1>1. /\ tick = NoTick /\ call = NoCall /\ call' = [op |-> "override", scope |-> c]
      /\ UNCHANGED <<live, listed, seen, sentinel, cli, holds, over, rolling, overridden, lifted, under, tick>>
  BY DEF RunOverride, Idle, sessionVars, budgetVars
<1>2. PauseTypeOK' /\ BudgetTypeOK' /\ CallOK' /\ MemorySaved' /\ LiftsMarked'
  BY <1>1 DEF PauseTypeOK, BudgetTypeOK, CallOK, MemorySaved, LiftsMarked, Calls
<1>3. HoldsKept'
  BY <1>1 DEF HoldsKept, HoldIsSomewhere, HoldIsSafe, Remembered, NoCall
<1> QED BY <1>2, <1>3

(* ... and done. *)
LEMMA OverrideKeeps ==
  ASSUME PauseInv, Override
  PROVE  PauseInv'
<1> USE DEF PauseInv
<1> DEFINE c == call.scope
<1>1. /\ tick = NoTick /\ call # NoCall /\ call' = NoCall /\ Unlink(c)
      /\ UNCHANGED <<live, listed, seen, cli, over, rolling, under, tick>>
      /\ \/ /\ lifted' = lifted \cup {c}
            /\ overridden' = IF rolling THEN {} ELSE overridden \cup {c}
         \/ UNCHANGED <<lifted, overridden>>
  BY DEF Override, sessionVars
<1>2. call \in Calls /\ c \in Scopes
  BY <1>1, CallsTyped DEF PauseTypeOK
<1>3. /\ sentinel' \in [Scopes -> Kinds \cup {None}]
      /\ holds' = holds \ {c} /\ holds \subseteq Scopes
      /\ sentinel'[c] = None
      /\ \A d \in Scopes \ {c} : sentinel'[d] = sentinel[d]
  BY <1>1, <1>2 DEF Unlink, PauseTypeOK
<1>4. PauseTypeOK' /\ BudgetTypeOK' /\ CallOK' /\ MemorySaved'
  BY <1>1, <1>2, <1>3 DEF PauseTypeOK, BudgetTypeOK, CallOK, MemorySaved
<1>5. HoldsKept'
  <2> SUFFICES ASSUME NEW d \in holds, d # c PROVE HoldIsSomewhere(d)' /\ HoldIsSafe(d)'
    BY <1>3 DEF HoldsKept
  <2>1. d \in Scopes /\ HoldIsSomewhere(d) /\ call # [op |-> "restore", scope |-> d]
    BY <1>3 DEF HoldsKept
  <2> QED BY <1>1, <1>3, <2>1 DEF HoldIsSomewhere, HoldIsSafe, Remembered, Between
<1>6. LiftsMarked'
  BY <1>1, <1>2, <1>3 DEF LiftsMarked, BudgetTypeOK, None
<1> QED BY <1>4, <1>5, <1>6

(* Spend and windows move between the handlers. *)
LEMMA BudgetKeeps ==
  ASSUME PauseInv, BudgetStep
  PROVE  PauseInv'
<1> USE DEF PauseInv
<1>1. CASE Idle /\ UNCHANGED <<pauseVars, under, tick>> /\ over' \subseteq Capped /\ rolling' \in BOOLEAN
           /\ (\/ lifted' = {} /\ overridden' = {}
              \/ UNCHANGED <<rolling, lifted, overridden>>)
  <2>1. /\ call = NoCall
        /\ UNCHANGED <<live, listed, seen, sentinel, cli, call, holds, under, tick>>
    BY <1>1 DEF Idle, pauseVars, sessionVars
  <2>2. PauseTypeOK' /\ BudgetTypeOK' /\ CallOK' /\ MemorySaved'
    BY <1>1, <2>1 DEF PauseTypeOK, BudgetTypeOK, CallOK, MemorySaved
  <2>3. HoldsKept'
    BY <2>1 DEF HoldsKept, HoldIsSomewhere, HoldIsSafe, Remembered, Between
  <2>4. LiftsMarked'
    BY <1>1, <2>1 DEF LiftsMarked
  <2> QED BY <2>2, <2>3, <2>4
<1>2. CASE NewWindow
  BY <1>1, <1>2 DEF NewWindow, BudgetTypeOK
<1>3. ASSUME NEW c \in Scopes, Spend(c) PROVE PauseInv'
  BY <1>1, <1>3 DEF Spend, BudgetTypeOK
<1> QED BY <1>2, <1>3, SetBudgetKeeps DEF BudgetStep

(* The kill switch pauses as an operator does; sessions come and go. *)
LEMMA OthersKeepPauses ==
  ASSUME PauseInv, live' \subseteq Sessions,
         \/ KillStart
         \/ \E j \in Jobs : KillProgress(j)
         \/ KillStop
         \/ SessionStep
  PROVE  PauseInv'
<1>0. UNCHANGED <<cli, call, budgetVars>>
  BY DEF KillStart, KillProgress, KillStop, SessionStep, KillAll, Interrupted, Timer, Killed,
         Interrupt, KillOne, StopAll, Cancel, Launch, Dies, List, Land, pauseVars
<1>1. listed' \subseteq Sessions /\ seen' \subseteq Sessions
  BY DEF KillStart, KillProgress, KillStop, SessionStep, KillAll, Interrupted, Timer, Killed,
         Interrupt, KillOne, StopAll, Cancel, Launch, Dies, List, Land, pauseVars, sessionVars,
         PauseInv, PauseTypeOK
<1>2. CASE UNCHANGED <<sentinel, holds>>
  BY <1>0, <1>1, <1>2, PauseStutters
<1>3. CASE PauseNow(All) /\ UNCHANGED sessionVars
  BY <1>0, <1>3, ScopesTyped, PauseNowKeeps
<1>4. KillStart => \/ PauseNow(All) /\ UNCHANGED sessionVars
                   \/ UNCHANGED <<sentinel, holds>>
  BY DEF KillStart, KillAll
<1>5. (\E j \in Jobs : KillProgress(j)) \/ KillStop \/ SessionStep => UNCHANGED <<sentinel, holds>>
  BY DEF KillProgress, KillStop, SessionStep, Interrupted, Timer, Killed,
         Interrupt, KillOne, StopAll, Cancel, Launch, Dies, List, Land, pauseVars
<1> QED BY <1>2, <1>3, <1>4, <1>5

-----------------------------------------------------------------------------
(* Kills *)

(* What leaves the kills and the sessions alone. *)
LEMMA KillStutters ==
  ASSUME KillInv, UNCHANGED <<sessionVars, killVars>>
  PROVE  KillInv'
BY DEF KillInv, KillTypeOK, JobOK, killVars, sessionVars

(* A step of one job that leaves the sessions alone. *)
LEMMA JobStep ==
  ASSUME KillInv, NEW j \in Jobs, UNCHANGED <<live, seen, failed>>,
         NEW r, r \in [state : States, step : Steps, todo : SUBSET Sessions, zero : BOOLEAN],
         job' = [job EXCEPT ![j] = r],
         \/ started' = started
         \/ \E new \in SUBSET Sessions : started' = [started EXCEPT ![j] = new],
         stopping' \in BOOLEAN,
         JobOK(j)'
  PROVE  KillInv'
<1>1. KillTypeOK'
  BY DEF KillInv, KillTypeOK
<1>2. ASSUME NEW k \in Jobs, k # j PROVE JobOK(k)'
  <2>1. job'[k] = job[k] /\ started'[k] = started[k]
    BY <1>2 DEF KillInv, KillTypeOK
  <2>2. JobOK(k)
    BY DEF KillInv
  <2> QED BY <2>1, <2>2 DEF JobOK
<1> QED BY <1>1, <1>2 DEF KillInv

LEMMA KillAllKeeps ==
  ASSUME KillInv, NEW j \in Jobs, NEW zero \in BOOLEAN, KillAll(j, zero)
  PROVE  KillInv'
<1> DEFINE r == [state |-> "grace", step |-> "interrupt", todo |-> seen, zero |-> zero]
<1>1. r \in [state : States, step : Steps, todo : SUBSET Sessions, zero : BOOLEAN]
  BY DEF KillInv, States, Steps
<1>2. /\ job' = [job EXCEPT ![j] = r]
      /\ started' = [started EXCEPT ![j] = {}]
      /\ UNCHANGED <<live, seen, failed, stopping>>
  BY DEF KillAll, sessionVars
<1>3. JobOK(j)'
  BY <1>2 DEF JobOK, KillInv, KillTypeOK
<1>4. stopping' \in BOOLEAN
  BY <1>2 DEF KillInv, KillTypeOK
<1> HIDE DEF r
<1> QED BY <1>1, <1>2, <1>3, <1>4, JobStep

(* Choosing the victims. *)
LEMMA KillingKeeps ==
  ASSUME KillInv, NEW j \in Jobs, Killing(j), UNCHANGED <<live, seen, failed, stopping>>
  PROVE  KillInv'
<1> DEFINE r == [state |-> "killing", step |-> "kill", todo |-> seen, zero |-> FALSE]
<1>1. r \in [state : States, step : Steps, todo : SUBSET Sessions, zero : BOOLEAN]
  BY DEF KillInv, States, Steps
<1>2. /\ job' = [job EXCEPT ![j] = r]
      /\ started' = [started EXCEPT ![j] = live \ seen]
      /\ live \ seen \in SUBSET Sessions
  BY DEF Killing, KillInv
<1>3. JobOK(j)'
  BY <1>2 DEF JobOK, KillInv, KillTypeOK
<1>4. stopping' \in BOOLEAN
  BY DEF KillInv, KillTypeOK
<1> HIDE DEF r
<1> QED BY <1>1, <1>2, <1>3, <1>4, JobStep

LEMMA ProgressKeeps ==
  ASSUME KillInv, NEW j \in Jobs, KillProgress(j)
  PROVE  KillInv'
<1> USE DEF KillInv
<1>0. /\ job[j] \in [state : States, step : Steps, todo : SUBSET Sessions, zero : BOOLEAN]
      /\ stopping \in BOOLEAN
      /\ JobOK(j)
  BY DEF KillTypeOK
<1>1. ASSUME NEW s \in Sessions, Interrupt(j, s) PROVE KillInv'
  <2> DEFINE r == [job[j] EXCEPT !.todo = @ \ {s}]
  <2>1. r \in [state : States, step : Steps, todo : SUBSET Sessions, zero : BOOLEAN]
    BY <1>0
  <2>2. job' = [job EXCEPT ![j] = r] /\ UNCHANGED <<live, seen, failed, started, stopping>>
    BY <1>1 DEF Interrupt, pauseVars, sessionVars
  <2>3. JobOK(j)'
    BY <1>0, <1>1, <2>2 DEF JobOK, KillTypeOK, Interrupt
  <2> HIDE DEF r
  <2> QED BY <1>0, <2>1, <2>2, <2>3, JobStep
<1>2. CASE Interrupted(j)
  <2>0. UNCHANGED <<live, seen, failed, stopping>> /\ job[j].step = "interrupt"
    BY <1>2 DEF Interrupted, pauseVars, sessionVars
  <2>1. CASE Killing(j)
    BY <2>0, <2>1, KillingKeeps
  <2>2. CASE /\ job[j].state # "grace"
             /\ job' = [job EXCEPT ![j].step = "idle"]
             /\ UNCHANGED started
    <3> DEFINE r == [job[j] EXCEPT !.step = "idle"]
    <3>1. r \in [state : States, step : Steps, todo : SUBSET Sessions, zero : BOOLEAN]
      BY <1>0 DEF Steps
    <3>2. job' = [job EXCEPT ![j] = r]
      BY <2>2
    <3>3. JobOK(j)'
      BY <1>0, <2>0, <2>2 DEF JobOK, KillTypeOK
    <3> HIDE DEF r
    <3> QED BY <1>0, <2>0, <2>2, <3>1, <3>2, <3>3, JobStep
  <2>3. CASE /\ job[j].state = "grace"
             /\ job' = [job EXCEPT ![j].step = "timer"]
             /\ UNCHANGED started
    <3> DEFINE r == [job[j] EXCEPT !.step = "timer"]
    <3>1. r \in [state : States, step : Steps, todo : SUBSET Sessions, zero : BOOLEAN]
      BY <1>0 DEF Steps
    <3>2. job' = [job EXCEPT ![j] = r]
      BY <2>3
    <3>3. JobOK(j)'
      BY <1>0, <2>0, <2>3 DEF JobOK, KillTypeOK
    <3> HIDE DEF r
    <3> QED BY <1>0, <2>0, <2>3, <3>1, <3>2, <3>3, JobStep
  <2> QED BY <1>2, <2>1, <2>2, <2>3 DEF Interrupted
<1>3. CASE Timer(j)
  BY <1>3, KillingKeeps DEF Timer, pauseVars, sessionVars
<1>4. CASE Killed(j)
  <2> DEFINE r == [job[j] EXCEPT !.state = "killed", !.step = "idle"]
  <2>1. r \in [state : States, step : Steps, todo : SUBSET Sessions, zero : BOOLEAN]
    BY <1>0 DEF States, Steps
  <2>2. job' = [job EXCEPT ![j] = r] /\ UNCHANGED <<live, seen, failed, started, stopping>>
    BY <1>4 DEF Killed, pauseVars, sessionVars
  <2>3. JobOK(j)'
    BY <1>0, <1>4, <2>2 DEF JobOK, KillTypeOK, Killed
  <2> HIDE DEF r
  <2> QED BY <1>0, <2>1, <2>2, <2>3, JobStep
<1>5. ASSUME NEW s \in Sessions, KillOne(j, s) PROVE KillInv'
  <2>1. /\ job' = [job EXCEPT ![j].todo = @ \ {s}]
        /\ UNCHANGED <<seen, started, stopping>>
        /\ \/ live' = live \ {s} /\ UNCHANGED failed
           \/ failed' = [failed EXCEPT ![j] = @ \cup {s}] /\ UNCHANGED live
    BY <1>5 DEF KillOne, Ends
  <2>2. KillTypeOK' /\ live' \subseteq Sessions
    BY <2>1 DEF KillTypeOK
  <2>3. JobOK(j)'
    BY <1>0, <1>5, <2>1 DEF JobOK, KillTypeOK, KillOne
  <2>4. ASSUME NEW k \in Jobs, k # j PROVE JobOK(k)'
    <3>1. job'[k] = job[k] /\ started'[k] = started[k] /\ failed'[k] = failed[k] /\ live' \subseteq live
      BY <2>1, <2>4 DEF KillTypeOK
    <3> QED BY <3>1 DEF JobOK
  <2> QED BY <2>1, <2>2, <2>3, <2>4
<1> QED BY <1>1, <1>2, <1>3, <1>4, <1>5 DEF KillProgress

(* A job that is stopped in its grace is cancelled and its timer is gone. *)
LEMMA CancelledOK ==
  ASSUME NEW r \in [state : States, step : Steps, todo : SUBSET Sessions, zero : BOOLEAN]
  PROVE  /\ Cancelled(r) \in [state : States, step : Steps, todo : SUBSET Sessions, zero : BOOLEAN]
         /\ Cancelled(r).state = "cancelled"
         /\ Cancelled(r).step = IF r.step = "timer" THEN "idle" ELSE r.step
BY DEF Cancelled, States, Steps

LEMMA StopKeeps ==
  ASSUME KillInv, KillStop
  PROVE  KillInv'
<1> USE DEF KillInv
<1>1. ASSUME NEW j \in Jobs, Cancel(j) PROVE KillInv'
  <2>1. /\ job[j] \in [state : States, step : Steps, todo : SUBSET Sessions, zero : BOOLEAN]
        /\ stopping \in BOOLEAN
    BY DEF KillTypeOK
  <2>2. /\ job[j].state = "grace"
        /\ job' = [job EXCEPT ![j] = Cancelled(job[j])]
        /\ UNCHANGED <<live, seen, failed, started, stopping>>
    BY <1>1 DEF Cancel, pauseVars, sessionVars
  <2>3. JobOK(j)'
    BY <2>1, <2>2, CancelledOK DEF JobOK, KillTypeOK
  <2> QED BY <2>1, <2>2, <2>3, CancelledOK, JobStep
<1>2. CASE StopAll
  <2>1. /\ stopping' = TRUE
        /\ job' = [j \in Jobs |-> IF job[j].state = "grace" THEN Cancelled(job[j]) ELSE job[j]]
        /\ UNCHANGED <<live, seen, failed, started>>
    BY <1>2 DEF StopAll, pauseVars, sessionVars
  <2>2. KillTypeOK'
    BY <2>1, CancelledOK DEF KillTypeOK
  <2>3. ASSUME NEW j \in Jobs PROVE JobOK(j)'
    BY <2>1, CancelledOK DEF JobOK, KillTypeOK
  <2> QED BY <2>1, <2>2, <2>3
<1> QED BY <1>1, <1>2 DEF KillStop

LEMMA SessionsKeep ==
  ASSUME KillInv, listed \subseteq Sessions, SessionStep
  PROVE  KillInv'
<1> USE DEF KillInv
<1>1. ASSUME NEW s \in Sessions, Dies(s) PROVE KillInv'
  <2>1. live' = live \ {s} /\ UNCHANGED <<seen, killVars>>
    BY <1>1 DEF Dies, Ends
  <2> QED BY <2>1 DEF KillTypeOK, JobOK, killVars
<1>2. ASSUME NEW s \in Sessions, Launch(s) PROVE KillInv'
  <2>1. /\ live' = live \cup {s}
        /\ started' = [j \in Jobs |-> IF job[j].step = "idle" /\ job[j].state # "killed" THEN {}
                                      ELSE started[j] \cup {s}]
        /\ UNCHANGED <<seen, job, failed, stopping>>
    BY <1>2 DEF Launch, Begins
  <2>2. KillTypeOK'
    BY <2>1 DEF KillTypeOK
  <2>3. ASSUME NEW j \in Jobs PROVE JobOK(j)'
    BY <2>1 DEF JobOK, KillTypeOK
  <2> QED BY <2>1, <2>2, <2>3
<1>3. CASE (List \/ Land) /\ UNCHANGED killVars
  BY <1>3 DEF List, Land, KillTypeOK, JobOK, killVars
<1> QED BY <1>1, <1>2, <1>3 DEF SessionStep

LEMMA RestartForgets ==
  ASSUME KillInv, Restart
  PROVE  KillInv'
<1>1. ForgetJobs /\ UNCHANGED live /\ seen' = {}
  BY DEF Restart
<1>2. KillTypeOK'
  BY <1>1 DEF ForgetJobs, KillInv, KillTypeOK, NoJob, States, Steps
<1>3. ASSUME NEW j \in Jobs PROVE JobOK(j)'
  BY <1>1 DEF ForgetJobs, KillInv, KillTypeOK, JobOK, NoJob
<1> QED BY <1>1, <1>2, <1>3 DEF KillInv

-----------------------------------------------------------------------------
(* The invariant *)

LEMMA InitOK ==
  ASSUME Init
  PROVE  IInv
<1>1. PauseTypeOK /\ BudgetTypeOK
  BY DEF Init, PauseInit, BudgetInit, PauseTypeOK, BudgetTypeOK, Memory
<1>2. CallOK /\ MemorySaved /\ HoldsKept /\ LiftsMarked
  BY DEF Init, PauseInit, BudgetInit, CallOK, MemorySaved, HoldsKept, LiftsMarked
<1>3. KillInv
  BY DEF Init, PauseInit, KillInit, KillInv, KillTypeOK, JobOK, NoJob, States, Steps
<1> QED BY <1>1, <1>2, <1>3 DEF IInv, PauseInv

LEMMA NextOK ==
  ASSUME IInv, [Next]_vars
  PROVE  IInv'
<1> USE DEF IInv
<1>1. CASE OperatorStep
  BY <1>1, OperatorKeeps, KillStutters
  DEF OperatorStep, RunPause, RunResume
<1>2. CASE OverrideStep \/ LiftStep
  <2>1. UNCHANGED <<sessionVars, killVars>>
    BY <1>2 DEF OverrideStep, LiftStep, RunOverride, Override
  <2> QED BY <1>2, <2>1, OverrideBegins, OverrideKeeps, KillStutters DEF OverrideStep, LiftStep
<1>3. CASE BudgetStep
  <2>1. UNCHANGED <<sessionVars, killVars>>
    BY <1>3 DEF BudgetStep, SetBudget, NewWindow, Spend, pauseVars
  <2> QED BY <1>3, <2>1, BudgetKeeps, KillStutters
<1>4. CASE BeginStep \/ EndStep \/ FailStep
  <2>1. UNCHANGED <<sessionVars, killVars>>
    BY <1>4 DEF BeginStep, EndStep, FailStep, TickBegins, Save, TickEnds, TickFails, pauseVars
  <2> QED
    BY <1>4, <2>1, TickBeginsKeeps, EndKeeps, FailKeeps, KillStutters DEF BeginStep, EndStep, FailStep
<1>5. ASSUME NEW c \in Scopes, RowStep(c) PROVE IInv'
  <2>1. UNCHANGED <<sessionVars, killVars>>
    BY <1>5 DEF RowStep, Row, Quota
  <2> QED BY <1>5, <2>1, RowKeeps, QuotaKeeps, KillStutters DEF RowStep
<1>6. CASE CallStep
  <2>1. UNCHANGED <<sessionVars, killVars>>
    BY <1>6 DEF CallStep, WriteCall, UnlinkCall
  <2> QED BY <1>6, <2>1, WriteCallKeeps, UnlinkCallKeeps, KillStutters DEF CallStep
<1>7. CASE KillStart
  <2>1. KillInv'
    BY <1>7, KillAllKeeps DEF KillStart
  <2> QED BY <1>7, <2>1, OthersKeepPauses DEF KillInv
<1>8. ASSUME NEW j \in Jobs, KillProgress(j) PROVE IInv'
  <2>1. KillInv'
    BY <1>8, ProgressKeeps
  <2> QED BY <1>8, <2>1, OthersKeepPauses DEF KillInv
<1>9. CASE KillStop
  <2>1. KillInv'
    BY <1>9, StopKeeps
  <2> QED BY <1>9, <2>1, OthersKeepPauses DEF KillInv
<1>10. CASE CliStep
  <2>1. UNCHANGED <<sessionVars, killVars>>
    BY <1>10 DEF CliStep, CliRead, CliWrite
  <2> QED BY <1>10, <2>1, CliKeeps, KillStutters
<1>11. CASE SessionStep
  <2>1. KillInv'
    BY <1>11, SessionsKeep DEF PauseInv, PauseTypeOK
  <2> QED BY <1>11, <2>1, OthersKeepPauses DEF KillInv
<1>12. CASE Restart
  <2>1. PauseInv'
    BY <1>12, CutOffKeeps DEF Restart, PauseInv, PauseTypeOK
  <2> QED BY <1>12, <2>1, RestartForgets
<1>13. CASE UNCHANGED vars
  <2>1. PauseInv'
    BY <1>13, PauseStutters DEF vars, pauseVars, sessionVars, PauseInv, PauseTypeOK
  <2> QED BY <1>13, <2>1, KillStutters DEF vars, pauseVars
<1> QED
  BY <1>1, <1>2, <1>3, <1>4, <1>5, <1>6, <1>7, <1>8, <1>9, <1>10, <1>11, <1>12, <1>13 DEF Next

(* The invariant of the control plane is one. *)
THEOREM InductiveInvariant == Spec => []IInv
BY InitOK, NextOK, PTL DEF Spec

(* TypeOK: the types of the sentinels, marks and jobs. *)
THEOREM TypeCorrect == Spec => []TypeOK
<1>1. IInv => TypeOK
  BY DEF IInv, PauseInv, KillInv, TypeOK
<1> QED BY <1>1, InductiveInvariant, PTL

(* OperatorHoldStays: a pause an operator wrote (pause.mjs:161) is there until  *)
(* somebody resumes the scope, whatever budget, quota, kill switch and restarts *)
(* do and wherever the command line comes between their file calls.             *)
THEOREM OperatorHoldsStay == Spec => []OperatorHoldStays
<1>1. IInv => OperatorHoldStays
  BY DEF IInv, PauseInv, HoldsKept, HoldIsSomewhere, OperatorHoldStays, None
<1> QED BY <1>1, InductiveInvariant, PTL

(* OverrideIsHonoured: no budget pause on a scope that was lifted in a window   *)
(* with a fixed start (budget.mjs:468).                                         *)
THEOREM OverridesAreHonoured == Spec => []OverrideIsHonoured
<1>1. IInv => OverrideIsHonoured
  BY DEF IInv, PauseInv, LiftsMarked, OverrideIsHonoured
<1> QED BY <1>1, InductiveInvariant, PTL

(* KillReachesAll: who runs after a kill was launched since the list from which *)
(* it chose its victims, or could not be killed (killswitch.mjs:345).           *)
THEOREM KillsReachAll == Spec => []KillReachesAll
<1>1. IInv => KillReachesAll
  BY DEF IInv, KillInv, JobOK, KillReachesAll
<1> QED BY <1>1, InductiveInvariant, PTL

(* CancelIsFinal: a cancelled job stays cancelled or is forgotten               *)
(* (killswitch.mjs:466).                                                        *)
THEOREM CancelsAreFinal == Spec => CancelIsFinal
<1>1. ASSUME IInv, [Next]_vars
      PROVE  [\A j \in Jobs : job[j].state = "cancelled" => job'[j].state \in {"cancelled", "gone"}]_vars
  <2> SUFFICES ASSUME NEW j \in Jobs, job[j].state = "cancelled", Next
               PROVE  job'[j].state \in {"cancelled", "gone"}
    BY <1>1
  <2>1. /\ job[j] \in [state : States, step : Steps, todo : SUBSET Sessions, zero : BOOLEAN]
        /\ job \in [Jobs -> [state : States, step : Steps, todo : SUBSET Sessions, zero : BOOLEAN]]
        /\ job[j].step \notin {"kill", "timer"}
    BY <1>1 DEF IInv, KillInv, KillTypeOK, JobOK
  <2>2. ASSUME NEW k \in Jobs, KillProgress(k) PROVE job'[j].state \in {"cancelled", "gone"}
    BY <2>1, <2>2 DEF KillProgress, Interrupt, Interrupted, Killing, Timer, KillOne, Killed
  <2>3. CASE KillStart
    BY <2>1, <2>3 DEF KillStart, KillAll
  <2>4. CASE KillStop
    BY <2>1, <2>4 DEF KillStop, StopAll, Cancel
  <2>5. CASE Restart
    BY <2>1, <2>5 DEF Restart, ForgetJobs, NoJob
  <2>6. CASE \/ OperatorStep \/ OverrideStep \/ LiftStep \/ BudgetStep \/ BeginStep
             \/ (\E c \in Scopes : RowStep(c)) \/ CallStep \/ EndStep \/ FailStep
             \/ CliStep \/ SessionStep
    <3>1. job' = job
      BY <2>6
      DEF OperatorStep, OverrideStep, LiftStep, BudgetStep, BeginStep, RowStep, CallStep, EndStep,
          FailStep, CliStep, SessionStep, killVars, Launch, Dies
    <3> QED BY <3>1
  <2> QED BY <2>2, <2>3, <2>4, <2>5, <2>6 DEF Next
<1> QED BY <1>1, InductiveInvariant, PTL DEF Spec, CancelIsFinal

=============================================================================
