------------------------------- MODULE Bridge -------------------------------
(* The bridge of the cockpit room to its agent (server/cockpit/bridge.mjs): *)
(* one child process, the turn it runs, the prompts written to it, and what *)
(* the screens were told.  The operators here are the bridge's own part of  *)
(* each event; Cockpit.tla puts them together with the supervisor, which    *)
(* the bridge calls back in the same step.                                  *)
(*                                                                          *)
(* Text, tools, redaction, instructions and the adapter of the agent's      *)
(* events are left out: none of them changes the turn or the child.  The    *)
(* agent reads a line only once it has been written.                        *)
EXTENDS Naturals, FiniteSets

CONSTANTS Prompts,   \* the clientIds of the screens' prompts
          MaxTurns,  \* bound: no prompt is sent once so many turns were counted
          Nobody     \* no prompt

ASSUME NobodyIsNoPrompt == Nobody \notin Prompts
ASSUME TurnsBounded     == MaxTurns \in Nat

VARIABLES
  child,      \* the child: none, alive, its stdin ended, or sent a SIGKILL
  state,      \* the bridge's state
  killedFor,  \* why the bridge ends the child: a turn's silence, or another reason
  steer,      \* the agent's canSteer: it reads a prompt within a turn
  cancels,    \* the agent's canCancelQueued: a stop drops what is queued
  receipt,    \* an interrupt was written to the child, so receipts may come
  turn,       \* the turn the room holds
  turnCount,  \* the number of the last turn
  st,         \* each prompt in the bridge's map
  wr,         \* each prompt whose write is awaited, and whether it must fail
  tid,        \* the turn each prompt was sent in
  echoed,     \* the prompts the screens got an echo of
  open,       \* the turns the screens saw begin and not end
  dropped     \* of these, the turns the bridge let go without an end

bridge == <<child, state, killedFor, steer, cancels, receipt, turn, turnCount, st, wr,
            tid, echoed, open, dropped>>

NoTurn == [id |-> 0, prompt |-> Nobody, started |-> FALSE, stopping |-> FALSE]
Turns  == [id : Nat \ {0}, prompt : Prompts, started : BOOLEAN, stopping : BOOLEAN]

BridgeTypeOK ==
  /\ child \in {"none", "alive", "closed", "killed"}
  /\ state \in {"down", "starting", "up", "refused"}
  /\ killedFor \in {"none", "liveness", "other"}
  /\ steer \in BOOLEAN /\ cancels \in BOOLEAN /\ receipt \in BOOLEAN
  /\ turn \in Turns \cup {NoTurn}
  /\ turnCount \in Nat /\ turn.id <= turnCount
  /\ st \in [Prompts -> {"none", "new", "queued", "held", "still", "armed", "resent", "taken"}]
  /\ wr \in [Prompts -> {"no", "writing", "failing"}]
  /\ tid \in [Prompts -> Nat]
  /\ echoed \subseteq Prompts
  /\ open \subseteq 1..turnCount /\ dropped \subseteq 1..turnCount

BridgeInit ==
  /\ child = "alive" /\ state = "starting" /\ killedFor = "none"
  /\ steer = TRUE /\ cancels = FALSE /\ receipt = FALSE
  /\ turn = NoTurn /\ turnCount = 0
  /\ st = [p \in Prompts |-> "none"]
  /\ wr = [p \in Prompts |-> "no"]
  /\ tid = [p \in Prompts |-> 0]
  /\ echoed = {} /\ open = {} /\ dropped = {}

\* The prompts the agent has and has not read.
Sent == {p \in Prompts : st[p] \in {"new", "queued", "still", "armed", "resent"} /\ wr[p] = "no"}

-----------------------------------------------------------------------------
\* newTurn(), for prompt p.
NewTurn(p, started) ==
  /\ turnCount' = turnCount + 1
  /\ turn' = [id |-> turnCount + 1, prompt |-> p, started |-> started, stopping |-> FALSE]

\* The prompts after a turn: those it took are forgotten, and its own; what was
\* held is written; and what was queued and is no receipt's is armed for a resend.
AfterTurn ==
  [p \in Prompts |->
     CASE st[p] = "taken" \/ (st[p] = "new" /\ turn.prompt = p) -> "none"
       [] st[p] \in {"held", "queued"} -> "armed"
       [] OTHER -> st[p]]

\* The screens are told only of a turn the agent had begun.
EndTurn_StartedOnly ==
  /\ turn' = NoTurn
  /\ open' = IF turn.started THEN open \ {turn.id} ELSE open
  /\ st' = AfterTurn

\* endTurn(): the screens get its `turn.end`.
EndTurn ==
  /\ turn' = NoTurn
  /\ open' = open \ {turn.id}
  /\ st' = AfterTurn

\* The turn is not ended with the child: the child was told to go for the
\* silence of an earlier turn.
Outlives == turn # NoTurn /\ ~turn.stopping /\ killedFor = "liveness"

\* exited(): the turn ends with the child, untaken prompts are forgotten, and
\* what is still being written cannot arrive.
ChildGone ==
  /\ turn' = IF Outlives THEN turn ELSE NoTurn
  /\ open' = IF Outlives THEN open ELSE open \ {turn.id}
  /\ dropped' = IF Outlives THEN dropped \cup ({turn.id} \cap open) ELSE dropped
  /\ st' = [p \in Prompts |-> IF Outlives /\ st[p] = "taken" THEN "taken" ELSE "none"]
  /\ wr' = [p \in Prompts |-> IF wr[p] = "no" THEN "no" ELSE "failing"]
  /\ receipt' = FALSE
  /\ UNCHANGED <<turnCount, tid, echoed>>

\* start(): a child for the session asked for, whose `ready` is not known.
Started ==
  /\ child' = "alive"
  /\ state' = "starting"
  /\ killedFor' = "none"
  /\ steer' = TRUE /\ cancels' = FALSE

\* No child is started: the bridge is down, or refused for good.
NotStarted ==
  /\ child' = "none"
  /\ state' = IF state = "refused" THEN "refused" ELSE "down"
  /\ UNCHANGED <<killedFor, steer, cancels>>

\* interrupt(): it cannot be written to a child whose stdin has ended.
Interrupt == receipt' = (receipt \/ child \in {"alive", "killed"})

\* markStopping() and interrupt(): held prompts are dropped if the agent can
\* drop those it has.
BeginStop ==
  /\ turn' = [turn EXCEPT !.stopping = TRUE]
  /\ Interrupt
  /\ st' = [p \in Prompts |-> IF cancels /\ st[p] = "held" THEN "none" ELSE st[p]]

-----------------------------------------------------------------------------
\* closeStdin(): what is written from now on fails, what is in the pipe does not.
CloseStdin ==
  /\ child' = IF child = "alive" THEN "closed" ELSE child
  /\ killedFor' = "other"

\* A prompt of a screen (link.mjs prompt, then the bridge's): known ids only get
\* their echo again.  It is written at once, or held for a running turn.
Prompt(p) ==
  /\ p \notin echoed /\ wr[p] = "no"
  /\ state = "up" /\ child # "none"
  /\ turnCount < MaxTurns
  /\ \/ /\ turn = NoTurn
        /\ NewTurn(p, FALSE)
        /\ st' = [st EXCEPT ![p] = "new"]
        /\ wr' = [wr EXCEPT ![p] = IF child = "closed" THEN "failing" ELSE "writing"]
        /\ tid' = [tid EXCEPT ![p] = turnCount + 1]
        /\ UNCHANGED echoed
     \/ /\ turn # NoTurn /\ steer
        /\ st' = [st EXCEPT ![p] = "queued"]
        /\ wr' = [wr EXCEPT ![p] = IF child = "closed" THEN "failing" ELSE "writing"]
        /\ tid' = [tid EXCEPT ![p] = turn.id]
        /\ UNCHANGED <<turn, turnCount, echoed>>
     \/ /\ turn # NoTurn /\ ~steer
        /\ st' = [st EXCEPT ![p] = "held"]
        /\ tid' = [tid EXCEPT ![p] = turn.id]
        /\ echoed' = echoed \cup {p}
        /\ UNCHANGED <<turn, turnCount, wr>>
  /\ UNCHANGED <<child, state, killedFor, steer, cancels, receipt, open, dropped>>

\* The line is in the pipe, after the line that began its turn: every screen
\* gets the echo.
Written(p) ==
  /\ wr[p] = "writing"
  /\ \A q \in Prompts \ {p} : ~(wr[q] = "writing" /\ st[q] = "new" /\ tid[q] = tid[p])
  /\ wr' = [wr EXCEPT ![p] = "no"]
  /\ echoed' = echoed \cup {p}
  /\ open' = IF st[p] = "new" THEN open \cup {tid[p]} ELSE open
  /\ UNCHANGED <<child, state, killedFor, steer, cancels, receipt, turn, turnCount, st, tid, dropped>>

\* The turn that began for prompt p, which no screen has seen.
OwnTurn(p) == turn.prompt = p /\ ~turn.started

\* The line cannot be written: the prompt is refused, its turn never was, and the
\* child of the moment is killed.
WriteFails(p) ==
  /\ wr[p] # "no"
  /\ wr' = [wr EXCEPT ![p] = "no"]
  /\ tid' = [tid EXCEPT ![p] = 0]
  /\ st' = [st EXCEPT ![p] = "none"]
  /\ turn' = IF OwnTurn(p) THEN NoTurn ELSE turn
  /\ turnCount' = IF OwnTurn(p) THEN turnCount - 1 ELSE turnCount
  /\ killedFor' = "other"
  /\ child' = IF child = "none" THEN "none" ELSE "killed"
  /\ UNCHANGED <<state, steer, cancels, receipt, echoed, open, dropped>>

\* The agent has read prompt p: its turn starts, it joins the running turn, or
\* it is taken as the next turn, also in place of one that has not started.
Taken(p) ==
  /\ child # "none" /\ p \in Sent
  /\ st' = [st EXCEPT ![p] = "taken"]
  /\ \/ /\ turn.prompt = p /\ ~turn.started
        /\ turn' = [turn EXCEPT !.started = TRUE]
        /\ UNCHANGED <<turnCount, open, dropped>>
     \/ /\ turn.started
        /\ UNCHANGED <<turn, turnCount, open, dropped>>
     \/ /\ turn.prompt # p /\ ~turn.started
        /\ NewTurn(p, TRUE)
        /\ open' = open \cup {turnCount + 1}
        /\ dropped' = IF turn = NoTurn THEN dropped ELSE dropped \cup {turn.id}
  /\ UNCHANGED <<child, state, killedFor, steer, cancels, receipt, wr, tid, echoed>>

\* The receipt of an interrupt names the prompts the agent drops (dead), and those
\* that stay its to take and are never written again.
Interrupted ==
  /\ child # "none" /\ receipt
  /\ \E dead \in SUBSET Sent : \E kept \in SUBSET (Sent \ dead) :
       st' = [p \in Prompts |->
                CASE p \in dead -> "none"
                  [] p \in kept /\ st[p] \in {"queued", "armed"} -> "still"
                  [] OTHER -> st[p]]
  /\ UNCHANGED <<child, state, killedFor, steer, cancels, receipt, turn, turnCount, wr, tid, echoed, open, dropped>>

\* 10 s after its turn's end a prompt nobody took is written once more; while a
\* turn runs it waits for that turn's end.
Resend(p) ==
  /\ st[p] = "armed"
  /\ st' = [st EXCEPT ![p] = IF turn = NoTurn THEN "resent" ELSE "queued"]
  /\ UNCHANGED <<child, state, killedFor, steer, cancels, receipt, turn, turnCount, wr, tid, echoed, open, dropped>>

\* 10 s after that the screens hear that it was not taken.
NotTaken(p) ==
  /\ st[p] = "resent"
  /\ st' = [st EXCEPT ![p] = "none"]
  /\ UNCHANGED <<child, state, killedFor, steer, cancels, receipt, turn, turnCount, wr, tid, echoed, open, dropped>>

=============================================================================
