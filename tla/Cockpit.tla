------------------------------ MODULE Cockpit -------------------------------
(* The cockpit room's agent session: the supervisor (server/cockpit/        *)
(* session.mjs) over the bridge of Bridge.tla.  Screens send prompts, stop  *)
(* the turn or ask for a new conversation; the agent answers, is silent,    *)
(* refuses signals or exits at any moment; the supervisor's timers end what *)
(* does not end by itself and start the next child.                         *)
(*                                                                          *)
(* A callback of the bridge runs within the step that calls it.  Time is    *)
(* the order of the timers of one stop or one renewal; a SIGINT or SIGTERM  *)
(* obliges the child to nothing.  The restart's wait is none or some.  The  *)
(* status line, the audit lines, the conversation's store and the room's    *)
(* own end are left out.                                                    *)
EXTENDS Bridge

VARIABLES
  phase,          \* the supervisor's phase
  want,           \* what the next start asks for, and why a new session
  step,           \* the next restart waits
  resumeFails,    \* resumes in a row that failed at once
  replaceForced,  \* the child that exits is replaced at once
  stopping,       \* the stop that runs, and which of its timers is next
  renewing        \* `new`: waits for the turn, for the exit, or was left waiting

session == <<phase, want, step, resumeFails, replaceForced, stopping, renewing>>
vars    == <<bridge, session>>

NoStop == [turn |-> 0, stage |-> "no", ended |-> FALSE]
Wants  == [resume : BOOLEAN, reason : {"none", "owner", "forced"}]
Resume == [resume |-> TRUE, reason |-> "none"]
Fresh(reason) == [resume |-> FALSE, reason |-> reason]

TypeOK ==
  /\ BridgeTypeOK
  /\ phase \in {"starting", "up", "down", "refused"}
  /\ want \in Wants
  /\ step \in BOOLEAN /\ replaceForced \in BOOLEAN
  /\ resumeFails \in 0..1
  /\ stopping \in [turn : Nat, stage : {"no", "asked", "forced", "termed", "over"}, ended : BOOLEAN]
  /\ renewing \in {"no", "waitTurn", "closing", "left"}

\* start() at the room's start: session.json names a session, or there is none.
Init ==
  /\ BridgeInit
  /\ phase = "starting"
  /\ want \in {Resume, Fresh("none")}
  /\ step = FALSE /\ resumeFails = 0
  /\ replaceForced = FALSE
  /\ stopping = NoStop
  /\ renewing = "no"

-----------------------------------------------------------------------------
\* spawnNow()
Spawn == Started /\ phase' = "starting"

\* renewNow(): the old child is gone, the new session starts.
RenewNow ==
  /\ Spawn
  /\ want' = Fresh("owner")
  /\ renewing' = "no" /\ stopping' = NoStop
  /\ step' = FALSE /\ resumeFails' = 0

\* A start that failed: it is tried again, the second time after a wait, and
\* two resumes in a row that fail at once are given up for a new session.
StartFailed(quick) ==
  LET fails == IF want.resume /\ quick THEN resumeFails + 1 ELSE 0
  IN  /\ resumeFails' = fails % 2
      /\ want' = IF fails = 2 THEN Fresh("forced") ELSE want
      /\ step' = TRUE
      /\ IF step THEN NotStarted /\ phase' = "down" ELSE Spawn
      /\ UNCHANGED <<replaceForced, stopping, renewing>>

\* A stop that runs is looked at before a renewal.
Renews_UnlessStopping == renewing # "no" /\ stopping = NoStop

\* A renewal comes before everything else an exit may mean.
Renews == renewing # "no"

\* onExit(): what follows the child's exit.  quick: it failed within 10 s of its
\* start with a code of its own.
OnExit(quick) ==
  IF state = "refused"
  THEN /\ NotStarted
       /\ phase' = "refused"
       /\ UNCHANGED <<want, step, resumeFails, replaceForced, stopping, renewing>>
  ELSE IF Renews
  THEN RenewNow /\ UNCHANGED replaceForced
  ELSE IF replaceForced
  THEN /\ Spawn
       /\ replaceForced' = FALSE
       /\ UNCHANGED <<want, step, resumeFails, stopping, renewing>>
  ELSE IF stopping # NoStop
  THEN /\ Spawn
       /\ stopping' = NoStop
       /\ want' = [want EXCEPT !.resume = TRUE]
       /\ UNCHANGED <<step, resumeFails, replaceForced, renewing>>
  ELSE IF state = "starting"
  THEN StartFailed(quick)
  ELSE /\ Spawn
       /\ want' = Resume
       /\ step' = TRUE /\ resumeFails' = 0
       /\ UNCHANGED <<replaceForced, stopping, renewing>>

\* The child ends, by itself or by a signal.
Exit ==
  /\ child # "none"
  /\ ChildGone
  /\ \E quick \in {FALSE, child # "killed"} : OnExit(quick)

\* kill(): the child counts as gone whether it ends or not.
Kill == ChildGone /\ OnExit(FALSE)

-----------------------------------------------------------------------------
\* A renewal that waits for the turn is not told of its end.
OnTurnEnd_StopOnly(stop) ==
  /\ stopping' = IF stop.stage = "asked" THEN NoStop ELSE stop
  /\ UNCHANGED renewing

\* onTurnEnd(): a stop that has not used its timers is over, and a renewal that
\* waited for the turn closes the child's stdin.  Without a child the exit is
\* left to decide.
OnTurnEnd(stop) ==
  IF child = "none"
  THEN /\ stopping' = stop
       /\ renewing' = IF renewing = "waitTurn" THEN "left" ELSE renewing
  ELSE /\ stopping' = IF stop.stage = "asked" THEN NoStop ELSE stop
       /\ renewing' = IF renewing = "waitTurn" THEN "closing" ELSE renewing

\* With the end of the turn a renewal closes the child's stdin.
ClosedIfDue ==
  IF child # "none" /\ renewing = "waitTurn" THEN CloseStdin ELSE UNCHANGED <<child, killedFor>>

\* The agent's `ready`: the session asked for, or a new one, is up.
Ready ==
  /\ child # "none" /\ state = "starting"
  /\ state' = "up" /\ phase' = "up"
  /\ steer' \in BOOLEAN /\ cancels' \in BOOLEAN
  /\ want' = IF want.resume THEN want ELSE Resume
  /\ step' = FALSE /\ resumeFails' = 0
  /\ UNCHANGED <<child, killedFor, receipt, turn, turnCount, st, wr, tid, echoed, open, dropped,
                 replaceForced, stopping, renewing>>

\* Its `ready` names another session than the one asked for: the child is killed
\* and a new session replaces it.
Mismatch ==
  /\ child # "none" /\ state = "starting" /\ want.resume
  /\ ChildGone
  /\ \/ renewing # "no" /\ RenewNow /\ replaceForced' = TRUE
     \/ /\ renewing = "no"
        /\ Spawn
        /\ want' = Fresh("forced")
        /\ replaceForced' = FALSE
        /\ UNCHANGED <<step, resumeFails, stopping, renewing>>

\* Its `ready` allows more tools than the room does: no start follows its exit.
ReadyRefused ==
  /\ child # "none" /\ state = "starting"
  /\ state' = "refused" /\ CloseStdin
  /\ UNCHANGED <<steer, cancels, receipt, turn, turnCount, st, wr, tid, echoed, open, dropped, session>>

\* The agent ends its turn.  Outside a started turn nothing is shown, but a stop
\* that has sent its SIGINT hears of it.
TurnEnds ==
  LET heard == [stopping EXCEPT !.ended = (@ \/ stopping.stage = "forced")]
  IN  /\ child # "none" /\ state # "starting"
      /\ \/ turn.started /\ EndTurn /\ OnTurnEnd(heard) /\ ClosedIfDue
         \/ ~turn.started /\ stopping' = heard /\ UNCHANGED <<child, killedFor, turn, open, st, renewing>>
      /\ UNCHANGED <<state, steer, cancels, receipt, turnCount, wr, tid, echoed, dropped,
                     phase, want, step, resumeFails, replaceForced>>

\* silent(): five minutes of a turn without a line.  It ends, and the child is
\* told to go.
Silent ==
  /\ child # "none" /\ state # "starting"
  /\ turn # NoTurn /\ wr[turn.prompt] # "writing"
  /\ EndTurn /\ OnTurnEnd(stopping)
  /\ killedFor' = "liveness"
  /\ child' = IF renewing = "waitTurn" /\ child = "alive" THEN "closed" ELSE child
  /\ UNCHANGED <<state, steer, cancels, receipt, turnCount, wr, tid, echoed, dropped,
                 phase, want, step, resumeFails, replaceForced>>

\* The agent calls a tool outside its list: it is interrupted, the turn ends and
\* the child is refused.
ToolRefused ==
  /\ child # "none" /\ state = "up" /\ turn.started
  /\ Interrupt /\ EndTurn /\ OnTurnEnd(stopping)
  /\ state' = "refused" /\ CloseStdin
  /\ UNCHANGED <<steer, cancels, turnCount, wr, tid, echoed, dropped,
                 phase, want, step, resumeFails, replaceForced>>

-----------------------------------------------------------------------------
\* prompt(): nothing is sent while no session is up or a new one is asked for.
Send(p) == phase = "up" /\ renewing = "no" /\ Prompt(p) /\ UNCHANGED session

AskedStop == [turn |-> turn.id, stage |-> "asked", ended |-> FALSE]

\* stop(): of the running turn, as a screen saw it; an earlier stop is over.
Stop ==
  /\ turn.id \in open /\ stopping.turn # turn.id
  /\ BeginStop
  /\ stopping' = AskedStop
  /\ UNCHANGED <<child, state, killedFor, steer, cancels, turnCount, wr, tid, echoed, open, dropped,
                 phase, want, step, resumeFails, replaceForced, renewing>>

\* newConversation() while a turn runs: the turn is stopped first.
NewInTurn ==
  /\ turn # NoTurn
  /\ renewing' = "waitTurn"
  /\ \/ stopping.turn # turn.id /\ BeginStop /\ stopping' = AskedStop
     \/ stopping.turn = turn.id /\ UNCHANGED <<turn, receipt, st, stopping>>
  /\ UNCHANGED <<child, state, killedFor, steer, cancels, phase, want, step, resumeFails>>

\* newConversation() with no turn: the child's stdin is closed, or the new
\* session starts at once.
NewNow ==
  /\ turn = NoTurn
  /\ \/ child = "none" /\ RenewNow
     \/ /\ child # "none"
        /\ renewing' = "closing" /\ CloseStdin
        /\ UNCHANGED <<state, steer, cancels, phase, want, step, resumeFails, stopping>>
  /\ UNCHANGED <<turn, receipt, st>>

New ==
  /\ renewing = "no" /\ phase # "refused"
  /\ ~(phase = "starting" /\ want.reason # "none")
  /\ NewInTurn \/ NewNow
  /\ UNCHANGED <<turnCount, wr, tid, echoed, open, dropped, replaceForced>>

\* restartForLogin(): the login is back and the room is idle.
RestartForLogin ==
  /\ phase = "up" /\ child # "none" /\ turn = NoTurn
  /\ stopping = NoStop /\ renewing = "no"
  /\ want' = Resume
  /\ replaceForced' = TRUE
  /\ CloseStdin
  /\ UNCHANGED <<state, steer, cancels, receipt, turn, turnCount, st, wr, tid, echoed, open, dropped,
                 phase, step, resumeFails, stopping, renewing>>

-----------------------------------------------------------------------------
\* 5 s after the stop: SIGINT, and the turn ends on every screen.  The write of
\* the turn's prompt has had its own 5 s before.
ForceTimer ==
  /\ stopping.stage = "asked"
  /\ \/ /\ turn.id # stopping.turn
        /\ stopping' = NoStop
        /\ UNCHANGED <<child, killedFor, turn, open, st, renewing>>
     \/ /\ turn.id = stopping.turn /\ wr[turn.prompt] # "writing"
        /\ EndTurn /\ OnTurnEnd([stopping EXCEPT !.stage = "forced"])
        /\ ClosedIfDue
  /\ UNCHANGED <<state, steer, cancels, receipt, turnCount, wr, tid, echoed, dropped,
                 phase, want, step, resumeFails, replaceForced>>

\* 8 s: SIGTERM, unless the agent ended its turn after all or `new` replaces it.
TermTimer ==
  /\ stopping.stage = "forced"
  /\ stopping' = CASE renewing # "no" -> [stopping EXCEPT !.stage = "over"]
                   [] renewing = "no" /\ stopping.ended -> NoStop
                   [] OTHER -> [stopping EXCEPT !.stage = "termed"]
  /\ UNCHANGED <<bridge, phase, want, step, resumeFails, replaceForced, renewing>>

\* 10 s: SIGKILL, and the session is resumed without the child.
KillTimer ==
  /\ stopping.stage = "termed"
  /\ \/ renewing = "no" /\ child # "none" /\ Kill
     \/ /\ renewing # "no" \/ child = "none"
        /\ stopping' = [stopping EXCEPT !.stage = "over"]
        /\ UNCHANGED <<bridge, phase, want, step, resumeFails, replaceForced, renewing>>

\* A child whose stdin was closed for `new` is killed 7 s later.
RenewTimer == renewing = "closing" /\ child # "none" /\ Kill

\* No `ready` within 30 s of the start.
ReadyTimer == state = "starting" /\ child # "none" /\ Kill

\* The wait before a restart is over.
RestartTimer ==
  /\ phase = "down"
  /\ Spawn
  /\ UNCHANGED <<receipt, turn, turnCount, st, wr, tid, echoed, open, dropped,
                 want, step, resumeFails, replaceForced, stopping, renewing>>

-----------------------------------------------------------------------------
\* The agent reads its stdin in order: the prompt that began a turn before those
\* that were queued in it.
ReadsInOrder(p) ==
  turn.prompt \in Sent \ {p} /\ ~turn.started => tid[p] # turn.id

WriteEnds(p) == (Written(p) \/ WriteFails(p)) /\ UNCHANGED session

Agent ==
  \/ Ready \/ Mismatch \/ ReadyRefused \/ TurnEnds \/ ToolRefused \/ Exit
  \/ (\E p \in Prompts : ReadsInOrder(p) /\ Taken(p)) /\ UNCHANGED session
  \/ Interrupted /\ UNCHANGED session

Screens == (\E p \in Prompts : Send(p)) \/ Stop \/ New

Timers ==
  \/ ForceTimer \/ TermTimer \/ KillTimer \/ RenewTimer \/ ReadyTimer \/ RestartTimer \/ Silent
  \/ \E p \in Prompts : (Resend(p) \/ NotTaken(p)) /\ UNCHANGED session

Next ==
  \/ Agent \/ Screens \/ Timers \/ RestartForLogin
  \/ \E p \in Prompts : WriteEnds(p)

Spec == Init /\ [][Next]_vars

\* The timers fire and a write ends within its 5 s.  Nothing is expected of a
\* child: it may not even end on the SIGKILL of a write that failed, which need
\* not reach it.
FairSpec ==
  /\ Spec
  /\ WF_vars(ForceTimer) /\ WF_vars(RenewTimer) /\ WF_vars(RestartTimer)
  /\ \A p \in Prompts : WF_vars(WriteEnds(p))

-----------------------------------------------------------------------------
\* Every turn the screens saw begin either runs or has ended on them, however it
\* ended: its own end, a stop, silence, a refused tool, a write that failed or
\* the child's exit (bridge.mjs:660, :283, :699).  The turns the bridge lets go
\* are counted apart.
ShownTurnsEnd == open \ dropped \subseteq {turn.id}

\* The supervisor and the bridge agree on who acts next: a session is up or
\* starts only with a child; while a restart waits there is no child, no turn, no
\* stop and no renewal that only a child could end; and a refused agent has none.
\* As long as no turn was let go and the agent is not refused, a turn that is
\* being stopped has its stop before its first timer, a renewal waits for the end
\* of such a turn or of a child that was killed or whose stdin has ended, and none
\* is left with nothing to wait for (session.mjs:251, :361, :392).
InStep ==
  /\ TypeOK
  /\ phase = "up" => child # "none" /\ state \in {"up", "refused"}
  /\ phase = "starting" => child # "none" /\ state \in {"starting", "refused"}
  /\ phase = "down" => /\ child = "none" /\ state = "down"
                       /\ turn = NoTurn /\ stopping = NoStop /\ renewing = "no"
  /\ phase = "refused" => child = "none" /\ state = "refused"
  /\ dropped = {} /\ phase # "refused" =>
       /\ turn.stopping => stopping.turn = turn.id /\ stopping.stage = "asked"
       /\ renewing = "waitTurn" => turn.stopping \/ child = "killed"
       /\ renewing = "closing" => child \in {"closed", "killed"}
       /\ renewing # "left"

\* A new conversation that was asked for starts, whatever the agent does with
\* the turn, its stdin and the signals, unless the agent is refused, a turn was
\* let go, or the stopped turn's prompt could not be written: the turn is then
\* taken back without an end, and only the exit of the child that was sent a
\* SIGKILL for it starts the conversation (session.mjs:378, bridge.mjs:719).
NewIsHonoured ==
  renewing # "no" ~> \/ phase = "starting" /\ want = Fresh("owner")
                     \/ phase = "refused"
                     \/ dropped # {}
                     \/ child = "killed" /\ ~turn.stopping

\* A turn that is not being stopped is not replaced: a turn begins only when none
\* runs (protocols.md section 3.4).
OneTurnAtATime ==
  [][turn # NoTurn /\ ~turn.stopping /\ turn' # NoTurn => turn'.id = turn.id]_vars

=============================================================================
