---------------------------- MODULE CockpitProofs ----------------------------
(* Proofs about Cockpit, for any prompts and any number of turns.             *)
(*                                                                            *)
(* BridgeInv ties the turn, the prompts and their writes to what the screens  *)
(* have seen; PhaseInv ties the supervisor's phase to the child; and TurnInv, *)
(* as long as no turn was let go and the agent is not refused, the stop and   *)
(* the renewal to the turn and the child they wait for.                       *)
EXTENDS Cockpit, TLAPS

(* A turn has the last number, is on the screens once its prompt is written,  *)
(* and on none before; who is being written has its turn, or was let go.      *)
BridgeInv ==
  /\ turn # NoTurn => turn.id = turnCount
  /\ turn # NoTurn /\ wr[turn.prompt] = "no" => turn.id \in open /\ turn.prompt \in echoed
  /\ turn # NoTurn /\ wr[turn.prompt] # "no" => turn.id \notin open \cup dropped /\ ~turn.started
  /\ turn # NoTurn /\ wr[turn.prompt] = "writing" =>
       st[turn.prompt] = "new" /\ tid[turn.prompt] = turn.id
  /\ \A p \in Prompts :
       /\ wr[p] = "no" /\ st[p] # "none" => p \in echoed
       /\ wr[p] = "writing" /\ st[p] = "new" =>
            \/ turn # NoTurn /\ turn.prompt = p
            \/ tid[p] \in dropped
  /\ killedFor = "liveness" => state # "starting"
  /\ ShownTurnsEnd

PhaseInv ==
  /\ phase = "up" => child # "none" /\ state \in {"up", "refused"}
  /\ phase = "starting" => child # "none" /\ state \in {"starting", "refused"}
  /\ phase = "down" => /\ child = "none" /\ state = "down" /\ turn = NoTurn
                       /\ stopping = NoStop /\ renewing = "no"
  /\ phase = "refused" => child = "none" /\ state = "refused"
  /\ stopping.stage # "no" => stopping.turn # 0

TurnInv ==
  dropped = {} /\ phase # "refused" =>
    /\ turn.stopping => stopping.turn = turn.id /\ stopping.stage = "asked"
    /\ renewing = "waitTurn" => turn.stopping \/ child = "killed"
    /\ renewing = "closing" => child \in {"closed", "killed"}
    /\ renewing # "left"
    /\ turn # NoTurn /\ turn.stopping /\ wr[turn.prompt] # "no" => renewing # "no"
    /\ stopping # NoStop =>
         /\ turn # NoTurn /\ stopping.turn = turn.id =>
              turn.stopping \/ (child = "killed" /\ renewing # "no")
         /\ stopping.turn <= turnCount \/ (child = "killed" /\ renewing # "no")

IInv == TypeOK /\ BridgeInv /\ PhaseInv /\ TurnInv

-----------------------------------------------------------------------------
(* Turns *)

LEMMA TurnFields ==
  ASSUME BridgeTypeOK
  PROVE  /\ turn = NoTurn => /\ turn.id = 0 /\ turn.prompt = Nobody
                            /\ turn.started = FALSE /\ turn.stopping = FALSE
         /\ turn # NoTurn => /\ turn \in Turns
                            /\ turn.id \in Nat /\ turn.id # 0 /\ turn.prompt \in Prompts
                            /\ turn.started \in BOOLEAN /\ turn.stopping \in BOOLEAN
BY DEF BridgeTypeOK, NoTurn, Turns

LEMMA TurnNumber ==
  ASSUME BridgeTypeOK
  PROVE  turn # NoTurn => turn.id \in 1..turnCount
<1>1. turnCount \in Nat /\ turn.id <= turnCount
  BY DEF BridgeTypeOK
<1>2. turn # NoTurn => turn.id \in Nat /\ turn.id # 0
  BY TurnFields
<1> QED BY <1>1, <1>2

LEMMA NewTurnFields ==
  ASSUME BridgeTypeOK, NEW p \in Prompts, NEW started \in BOOLEAN, NewTurn(p, started)
  PROVE  /\ turn' \in Turns /\ turn' # NoTurn
         /\ turnCount' = turnCount + 1 /\ turnCount' \in Nat
         /\ turn'.id = turnCount + 1 /\ turn'.prompt = p
         /\ turn'.started = started /\ turn'.stopping = FALSE
BY DEF BridgeTypeOK, NewTurn, Turns, NoTurn

(* What is left of the prompts after a turn. *)
LEMMA AfterTurnOK ==
  ASSUME BridgeTypeOK
  PROVE  /\ AfterTurn \in [Prompts -> {"none", "new", "queued", "held", "still", "armed", "resent", "taken"}]
         /\ \A p \in Prompts :
              /\ AfterTurn[p] # "none" => st[p] # "none"
              /\ AfterTurn[p] = "new" => st[p] = "new" /\ turn.prompt # p
BY DEF BridgeTypeOK, AfterTurn

(* The end of a turn keeps what BridgeInv says, whoever ends it. *)
LEMMA EndTurnKeeps ==
  ASSUME BridgeTypeOK, BridgeInv, EndTurn,
         turn # NoTurn, wr[turn.prompt] # "writing",
         killedFor' = "liveness" => state' # "starting",
         UNCHANGED <<turnCount, wr, tid, echoed, dropped>>
  PROVE  /\ turn' = NoTurn
         /\ st' \in [Prompts -> {"none", "new", "queued", "held", "still", "armed", "resent", "taken"}]
         /\ open' \subseteq 1..turnCount'
         /\ BridgeInv'
<1>1. turn' = NoTurn /\ open' = open \ {turn.id} /\ st' = AfterTurn
  BY DEF EndTurn
<1>2. open' \subseteq 1..turnCount'
  BY <1>1 DEF BridgeTypeOK
<1>3. \A p \in Prompts :
        /\ wr'[p] = "no" /\ st'[p] # "none" => p \in echoed'
        /\ wr'[p] = "writing" /\ st'[p] = "new" => tid'[p] \in dropped'
  BY <1>1, AfterTurnOK DEF BridgeInv
<1>4. ShownTurnsEnd'
  BY <1>1 DEF BridgeInv, ShownTurnsEnd
<1> QED BY <1>1, <1>2, <1>3, <1>4, AfterTurnOK DEF BridgeInv

(* The end of a child: a turn that outlives it and was on the screens is let go. *)
LEMMA ChildGoneKeeps ==
  ASSUME BridgeTypeOK, BridgeInv, ChildGone,
         killedFor' = "liveness" => state' # "starting"
  PROVE  /\ turn' \in Turns \cup {NoTurn} /\ turn'.id <= turnCount'
         /\ turnCount' \in Nat
         /\ st' \in [Prompts -> {"none", "new", "queued", "held", "still", "armed", "resent", "taken"}]
         /\ wr' \in [Prompts -> {"no", "writing", "failing"}]
         /\ tid' \in [Prompts -> Nat]
         /\ echoed' \subseteq Prompts
         /\ open' \subseteq 1..turnCount' /\ dropped' \subseteq 1..turnCount'
         /\ receipt' \in BOOLEAN
         /\ BridgeInv'
         /\ turn' # NoTurn => turn' = turn /\ ~turn.stopping /\ killedFor = "liveness"
         /\ dropped \subseteq dropped'
<1>0. /\ turn' = IF Outlives THEN turn ELSE NoTurn
      /\ open' = IF Outlives THEN open ELSE open \ {turn.id}
      /\ dropped' = IF Outlives THEN dropped \cup ({turn.id} \cap open) ELSE dropped
      /\ st' = [p \in Prompts |-> IF Outlives /\ st[p] = "taken" THEN "taken" ELSE "none"]
      /\ wr' = [p \in Prompts |-> IF wr[p] = "no" THEN "no" ELSE "failing"]
      /\ receipt' = FALSE
      /\ UNCHANGED <<turnCount, tid, echoed>>
  BY DEF ChildGone
<1>1. /\ turn' \in Turns \cup {NoTurn} /\ turn'.id <= turnCount'
      /\ turnCount' \in Nat
      /\ open' \subseteq 1..turnCount' /\ dropped' \subseteq 1..turnCount'
  <2>1. turnCount \in Nat /\ turn.id <= turnCount /\ turn \in Turns \cup {NoTurn}
    BY DEF BridgeTypeOK
  <2>2. NoTurn.id = 0
    BY DEF NoTurn
  <2>3. turn' \in Turns \cup {NoTurn} /\ turn'.id <= turnCount'
    BY <1>0, <2>1, <2>2
  <2> QED BY <1>0, <2>1, <2>3 DEF BridgeTypeOK
<1>2. /\ st' \in [Prompts -> {"none", "new", "queued", "held", "still", "armed", "resent", "taken"}]
      /\ wr' \in [Prompts -> {"no", "writing", "failing"}]
      /\ tid' \in [Prompts -> Nat]
      /\ echoed' \subseteq Prompts
      /\ receipt' \in BOOLEAN
  BY <1>0 DEF BridgeTypeOK
<1>3. \A p \in Prompts :
        /\ wr'[p] = "no" /\ st'[p] # "none" => p \in echoed'
        /\ wr'[p] # "writing"
        /\ wr'[p] = "no" <=> wr[p] = "no"
  BY <1>0 DEF BridgeTypeOK, BridgeInv
<1>4. CASE Outlives
  <2>1. turn # NoTurn /\ turn' = turn /\ turn.prompt \in Prompts /\ ~turn.stopping /\ killedFor = "liveness"
    BY <1>0, <1>4, TurnFields DEF Outlives
  <2>2. ShownTurnsEnd'
    BY <1>0, <1>4, <2>1 DEF BridgeInv, ShownTurnsEnd
  <2>3. wr[turn.prompt] # "no" => turn.id \notin open' \cup dropped' /\ ~turn.started
    BY <1>0, <1>4, <2>1 DEF BridgeInv
  <2>4. wr[turn.prompt] = "no" => turn.id \in open' /\ turn.prompt \in echoed'
    BY <1>0, <1>4, <2>1 DEF BridgeInv
  <2> QED BY <1>0, <1>1, <1>2, <1>3, <1>4, <2>1, <2>2, <2>3, <2>4 DEF BridgeInv
<1>5. CASE ~Outlives
  <2>1. ShownTurnsEnd'
    BY <1>0, <1>5 DEF BridgeInv, ShownTurnsEnd, NoTurn
  <2> QED BY <1>0, <1>1, <1>2, <1>3, <1>5, <2>1 DEF BridgeInv
<1> QED BY <1>4, <1>5

-----------------------------------------------------------------------------
(* The child's end and what follows *)

(* A child that has gone leaves a stop and a renewal as they are; what they     *)
(* wait for then is what OnExit decides.                                        *)
LEMMA OnExitCases ==
  ASSUME TypeOK, child # "none", NEW quick \in BOOLEAN, OnExit(quick)
  PROVE  \/ /\ state = "refused" /\ NotStarted /\ phase' = "refused"
            /\ UNCHANGED <<want, step, resumeFails, replaceForced, stopping, renewing>>
         \/ RenewNow /\ UNCHANGED replaceForced
         \/ /\ renewing = "no" /\ Spawn
            /\ want' \in Wants /\ step' \in BOOLEAN /\ resumeFails' \in 0..1
            /\ replaceForced' \in BOOLEAN /\ stopping' \in {stopping, NoStop}
            /\ UNCHANGED renewing
         \/ /\ renewing = "no" /\ stopping = NoStop /\ state = "starting"
            /\ NotStarted /\ phase' = "down"
            /\ want' \in Wants /\ step' \in BOOLEAN /\ resumeFails' \in 0..1
            /\ UNCHANGED <<replaceForced, stopping, renewing>>
<1> USE DEF TypeOK
<1>1. CASE state = "refused"
  BY <1>1 DEF OnExit
<1>2. CASE state # "refused" /\ renewing # "no"
  BY <1>2 DEF OnExit, Renews
<1>3. CASE state # "refused" /\ renewing = "no" /\ replaceForced
  BY <1>3 DEF OnExit, Renews
<1>4. CASE state # "refused" /\ renewing = "no" /\ ~replaceForced /\ stopping # NoStop
  <2>1. /\ Spawn /\ stopping' = NoStop /\ want' = [want EXCEPT !.resume = TRUE]
        /\ UNCHANGED <<step, resumeFails, replaceForced, renewing>>
    BY <1>4 DEF OnExit, Renews
  <2> QED BY <1>4, <2>1 DEF Wants
<1>5. CASE state # "refused" /\ renewing = "no" /\ ~replaceForced /\ stopping = NoStop
  <2>1. CASE state = "starting"
    <3>1. StartFailed(quick)
      BY <1>5, <2>1 DEF OnExit, Renews
    <3> DEFINE fails == IF want.resume /\ quick THEN resumeFails + 1 ELSE 0
    <3>2. fails \in 0..2
      OBVIOUS
    <3>3. /\ resumeFails' = fails % 2
          /\ want' = IF fails = 2 THEN Fresh("forced") ELSE want
          /\ step' = TRUE
          /\ \/ step /\ NotStarted /\ phase' = "down"
             \/ ~step /\ Spawn
          /\ UNCHANGED <<replaceForced, stopping, renewing>>
      BY <3>1 DEF StartFailed
    <3> HIDE DEF fails
    <3>4. resumeFails' \in 0..1
      BY <3>2, <3>3
    <3>5. want' \in Wants
      BY <3>3 DEF Fresh, Wants
    <3> QED BY <1>5, <2>1, <3>3, <3>4, <3>5
  <2>2. CASE state # "starting"
    <3>1. /\ Spawn /\ want' = Resume /\ step' = TRUE /\ resumeFails' = 0
          /\ UNCHANGED <<replaceForced, stopping, renewing>>
      BY <1>5, <2>2 DEF OnExit, Renews
    <3>2. want' \in Wants /\ step' \in BOOLEAN /\ resumeFails' \in 0..1
      BY <3>1 DEF Resume, Wants
    <3> QED BY <1>5, <3>1, <3>2
  <2> QED BY <2>1, <2>2
<1> QED BY <1>1, <1>2, <1>3, <1>4, <1>5

LEMMA SpawnFields ==
  ASSUME Spawn
  PROVE  /\ child' = "alive" /\ state' = "starting" /\ killedFor' = "none" /\ phase' = "starting"
         /\ steer' \in BOOLEAN /\ cancels' \in BOOLEAN
BY DEF Spawn, Started

LEMMA RenewFields ==
  ASSUME RenewNow
  PROVE  /\ Spawn /\ want' \in Wants /\ renewing' = "no" /\ stopping' = NoStop
         /\ step' \in BOOLEAN /\ resumeFails' \in 0..1
<1>1. Spawn /\ renewing' = "no" /\ stopping' = NoStop
  BY DEF RenewNow
<1>2. want' \in Wants
  BY DEF RenewNow, Fresh, Wants
<1>3. step' \in BOOLEAN
  BY DEF RenewNow
<1>4. resumeFails' \in 0..1
  BY DEF RenewNow
<1> QED BY <1>1, <1>2, <1>3, <1>4

LEMMA NoStopTyped ==
  /\ NoStop \in [turn : Nat, stage : {"no", "asked", "forced", "termed", "over"}, ended : BOOLEAN]
  /\ NoTurn.stopping = FALSE /\ NoTurn.id = 0
  /\ NoStop.turn = 0 /\ NoStop.stage = "no"
BY DEF NoStop, NoTurn

(* The child is gone and OnExit has decided. *)
LEMMA GoneKeeps ==
  ASSUME IInv, child # "none", ChildGone, NEW quick \in BOOLEAN, OnExit(quick)
  PROVE  IInv'
<1> USE DEF IInv
<1>0. phase # "refused" /\ phase # "down"
  BY DEF PhaseInv
<1>1. CASE state = "refused" /\ NotStarted /\ phase' = "refused"
           /\ UNCHANGED <<want, step, resumeFails, replaceForced, stopping, renewing>>
  <2>1. child' = "none" /\ state' = "refused" /\ UNCHANGED <<killedFor, steer, cancels>>
    BY <1>1 DEF NotStarted
  <2>2. BridgeTypeOK' /\ BridgeInv'
    BY <2>1, ChildGoneKeeps DEF TypeOK, BridgeTypeOK
  <2>3. TypeOK'
    BY <1>1, <2>2 DEF TypeOK
  <2> QED BY <1>1, <2>1, <2>2, <2>3 DEF PhaseInv, TurnInv
<1>2. CASE RenewNow /\ UNCHANGED replaceForced
  <2>1. /\ child' = "alive" /\ state' = "starting" /\ killedFor' = "none" /\ phase' = "starting"
        /\ want' \in Wants /\ renewing' = "no" /\ stopping' = NoStop
        /\ step' \in BOOLEAN /\ resumeFails' \in 0..1
        /\ steer' \in BOOLEAN /\ cancels' \in BOOLEAN
    BY <1>2, RenewFields, SpawnFields
  <2>2. BridgeTypeOK' /\ BridgeInv' /\ (turn' # NoTurn => turn' = turn /\ ~turn.stopping)
    BY <2>1, ChildGoneKeeps DEF TypeOK, BridgeTypeOK
  <2>3. TypeOK'
    BY <1>2, <2>1, <2>2, NoStopTyped DEF TypeOK
  <2>4. TurnInv'
    BY <2>1, <2>2, NoStopTyped DEF TurnInv
  <2> QED BY <2>1, <2>2, <2>3, <2>4, NoStopTyped DEF PhaseInv
<1>3. CASE /\ renewing = "no" /\ Spawn
           /\ want' \in Wants /\ step' \in BOOLEAN /\ resumeFails' \in 0..1
           /\ replaceForced' \in BOOLEAN /\ stopping' \in {stopping, NoStop}
           /\ UNCHANGED renewing
  <2>1. /\ child' = "alive" /\ state' = "starting" /\ killedFor' = "none" /\ phase' = "starting"
        /\ steer' \in BOOLEAN /\ cancels' \in BOOLEAN
    BY <1>3, SpawnFields
  <2>2. /\ BridgeTypeOK' /\ BridgeInv' /\ (turn' # NoTurn => turn' = turn /\ ~turn.stopping)
        /\ dropped \subseteq dropped' /\ turnCount' = turnCount
    BY <2>1, ChildGoneKeeps DEF TypeOK, BridgeTypeOK, ChildGone
  <2>3. TypeOK'
    BY <1>3, <2>2, <2>1, NoStopTyped DEF TypeOK
  <2>4. TurnInv'
    BY <1>0, <1>3, <2>1, <2>2, NoStopTyped DEF TurnInv
  <2>5. PhaseInv'
    BY <1>3, <2>1, NoStopTyped DEF PhaseInv
  <2> QED BY <2>2, <2>3, <2>4, <2>5
<1>4. CASE /\ renewing = "no" /\ stopping = NoStop /\ state = "starting"
           /\ NotStarted /\ phase' = "down"
           /\ want' \in Wants /\ step' \in BOOLEAN /\ resumeFails' \in 0..1
           /\ UNCHANGED <<replaceForced, stopping, renewing>>
  <2>1. child' = "none" /\ state' = "down" /\ UNCHANGED <<killedFor, steer, cancels>>
    BY <1>4 DEF NotStarted
  <2>2. BridgeTypeOK' /\ BridgeInv' /\ (turn' # NoTurn => killedFor = "liveness")
    BY <2>1, ChildGoneKeeps DEF TypeOK, BridgeTypeOK
  <2>3. turn' = NoTurn
    BY <1>4, <2>2 DEF BridgeInv
  <2>4. TypeOK'
    BY <1>4, <2>2 DEF TypeOK
  <2> QED BY <1>4, <2>1, <2>2, <2>3, <2>4, NoStopTyped DEF PhaseInv, TurnInv
<1> QED BY <1>1, <1>2, <1>3, <1>4, OnExitCases

LEMMA ExitKeeps ==
  ASSUME IInv, Exit
  PROVE  IInv'
<1> PICK quick \in {FALSE, child # "killed"} : OnExit(quick)
  BY DEF Exit
<1>1. quick \in BOOLEAN
  BY DEF IInv, TypeOK
<1> QED BY <1>1, GoneKeeps DEF Exit

LEMMA KillKeeps ==
  ASSUME IInv, child # "none", Kill
  PROVE  IInv'
BY GoneKeeps DEF Kill

(* A child that is killed for another session is replaced in the same step. *)
LEMMA MismatchKeeps ==
  ASSUME IInv, Mismatch
  PROVE  IInv'
<1> USE DEF IInv
<1>1. /\ child # "none" /\ state = "starting" /\ ChildGone /\ phase # "refused"
      /\ \/ renewing # "no" /\ RenewNow /\ replaceForced' = TRUE
         \/ /\ renewing = "no"
            /\ Spawn /\ want' = Fresh("forced") /\ replaceForced' = FALSE
            /\ UNCHANGED <<step, resumeFails, stopping, renewing>>
  BY DEF Mismatch, PhaseInv
<1>2. /\ child' = "alive" /\ state' = "starting" /\ killedFor' = "none" /\ phase' = "starting"
      /\ steer' \in BOOLEAN /\ cancels' \in BOOLEAN
  BY <1>1, RenewFields, SpawnFields
<1>3. /\ BridgeTypeOK' /\ BridgeInv' /\ (turn' # NoTurn => turn' = turn /\ ~turn.stopping)
      /\ dropped \subseteq dropped' /\ turnCount' = turnCount
  BY <1>1, <1>2, ChildGoneKeeps DEF TypeOK, BridgeTypeOK, ChildGone
<1>4. TypeOK'
  <2>1. Fresh("forced") \in Wants
    BY DEF Fresh, Wants
  <2>2. replaceForced' \in BOOLEAN
    BY <1>1
  <2> QED BY <1>1, <1>2, <1>3, <2>1, <2>2, RenewFields, NoStopTyped DEF TypeOK
<1>5. TurnInv'
  BY <1>1, <1>2, <1>3, RenewFields, NoStopTyped DEF TurnInv
<1>6. PhaseInv'
  BY <1>1, <1>2, RenewFields, NoStopTyped DEF PhaseInv
<1> QED BY <1>3, <1>4, <1>5, <1>6

-----------------------------------------------------------------------------
(* The agent and its session *)

LEMMA ReadyKeeps ==
  ASSUME IInv, Ready
  PROVE  IInv'
<1> USE DEF IInv
<1>1. /\ child # "none" /\ state = "starting" /\ state' = "up" /\ phase' = "up"
      /\ steer' \in BOOLEAN /\ cancels' \in BOOLEAN /\ want' \in {want, Resume}
      /\ step' = FALSE /\ resumeFails' = 0
      /\ UNCHANGED <<child, killedFor, receipt, turn, turnCount, st, wr, tid, echoed, open, dropped,
                     replaceForced, stopping, renewing>>
  BY DEF Ready
<1>2. BridgeTypeOK'
  BY <1>1 DEF TypeOK, BridgeTypeOK
<1>3. TypeOK'
  <2>1. Resume \in Wants
    BY DEF Resume, Wants
  <2>2. resumeFails' \in 0..1
    BY <1>1
  <2>3. step' \in BOOLEAN
    BY <1>1
  <2> QED BY <1>1, <1>2, <2>1, <2>2, <2>3 DEF TypeOK
<1>4. BridgeInv'
  BY <1>1 DEF BridgeInv, ShownTurnsEnd
<1>5. PhaseInv' /\ TurnInv'
  BY <1>1 DEF PhaseInv, TurnInv
<1> QED BY <1>3, <1>4, <1>5

(* The child's stdin is closed and nothing else of the bridge changes, but that *)
(* the agent may be refused.                                                    *)
LEMMA CloseKeeps ==
  ASSUME IInv, child # "none", CloseStdin, state' \in {state, "refused"},
         renewing' \in {renewing, "closing"}, renewing' # renewing => turn = NoTurn,
         want' \in Wants, replaceForced' \in BOOLEAN,
         UNCHANGED <<steer, cancels, receipt, turn, turnCount, st, wr, tid, echoed, open, dropped,
                     phase, step, resumeFails, stopping>>
  PROVE  IInv'
<1> USE DEF IInv
<1>1. /\ child' = IF child = "alive" THEN "closed" ELSE child
      /\ killedFor' = "other"
  BY DEF CloseStdin
<1>2. child' \in {"closed", "killed"} /\ (child = "killed" => child' = "killed")
  BY <1>1 DEF TypeOK, BridgeTypeOK
<1>3. BridgeTypeOK'
  BY <1>1, <1>2 DEF TypeOK, BridgeTypeOK
<1>4. TypeOK'
  BY <1>3 DEF TypeOK
<1>5. BridgeInv'
  BY <1>1 DEF BridgeInv, ShownTurnsEnd
<1>6. PhaseInv'
  BY <1>2 DEF PhaseInv
<1>7. TurnInv'
  BY <1>2, TurnFields DEF TurnInv, PhaseInv, TypeOK
<1> QED BY <1>4, <1>5, <1>6, <1>7

LEMMA ReadyRefusedKeeps ==
  ASSUME IInv, ReadyRefused
  PROVE  IInv'
BY CloseKeeps DEF ReadyRefused, session, IInv, TypeOK

LEMMA RestartForLoginKeeps ==
  ASSUME IInv, RestartForLogin
  PROVE  IInv'
<1>1. Resume \in Wants
  BY DEF Resume, Wants
<1> QED BY <1>1, CloseKeeps DEF RestartForLogin

-----------------------------------------------------------------------------
(* The end of a turn *)

StopRecords == [turn : Nat, stage : {"no", "asked", "forced", "termed", "over"}, ended : BOOLEAN]

(* Whoever ends the turn, what waited for it goes on. *)
LEMMA EndedKeeps ==
  ASSUME IInv, turn # NoTurn, wr[turn.prompt] # "writing", EndTurn,
         NEW stop \in StopRecords, stop.turn = stopping.turn,
         stop.stage # "no" => stopping.stage # "no",
         OnTurnEnd(stop),
         child' \in {"none", "alive", "closed", "killed"},
         child' = "none" <=> child = "none", child = "killed" => child' = "killed",
         child \in {"closed", "killed"} => child' \in {"closed", "killed"},
         child # "none" /\ renewing = "waitTurn" => child' \in {"closed", "killed"},
         state' \in {state, "refused"},
         killedFor' \in {"none", "liveness", "other"},
         killedFor' = "liveness" => state' # "starting",
         receipt' \in BOOLEAN,
         UNCHANGED <<steer, cancels, turnCount, wr, tid, echoed, dropped,
                     phase, want, step, resumeFails, replaceForced>>
  PROVE  IInv'
<1> USE DEF IInv
<1>1. /\ turn' = NoTurn
      /\ st' \in [Prompts -> {"none", "new", "queued", "held", "still", "armed", "resent", "taken"}]
      /\ open' \subseteq 1..turnCount'
      /\ BridgeInv'
  BY EndTurnKeeps DEF TypeOK
<1>2. /\ stopping' \in {stop, NoStop}
      /\ child # "none" => renewing' = IF renewing = "waitTurn" THEN "closing" ELSE renewing
      /\ renewing' \in {renewing, "closing", "left"}
  BY DEF OnTurnEnd
<1>3. BridgeTypeOK'
  <2>1. NoTurn.id <= turnCount
    BY NoStopTyped DEF TypeOK, BridgeTypeOK
  <2> QED BY <1>1, <2>1 DEF TypeOK, BridgeTypeOK
<1>4. TypeOK'
  BY <1>2, <1>3, NoStopTyped DEF TypeOK, StopRecords
<1>5. PhaseInv'
  BY <1>2, NoStopTyped DEF PhaseInv
<1>6. TurnInv'
  <2>1. SUFFICES ASSUME dropped = {}, phase # "refused" PROVE TurnInv'
    BY DEF TurnInv
  <2>2. child # "none"
    BY <2>1 DEF PhaseInv, TypeOK
  <2>3. stopping' # NoStop => stopping'.turn <= turnCount \/ (child' = "killed" /\ renewing' # "no")
    <3>1. CASE stopping = NoStop
      BY <1>2, <3>1, NoStopTyped DEF TypeOK, BridgeTypeOK
    <3>2. CASE stopping # NoStop
      BY <1>2, <2>1, <2>2, <3>2 DEF TurnInv
    <3> QED BY <3>1, <3>2
  <2> QED BY <1>1, <1>2, <2>1, <2>2, <2>3, NoStopTyped DEF TurnInv
<1> QED BY <1>1, <1>4, <1>5, <1>6

LEMMA TurnEndsKeeps ==
  ASSUME IInv, TurnEnds
  PROVE  IInv'
<1> USE DEF IInv
<1> DEFINE heard == [stopping EXCEPT !.ended = (@ \/ stopping.stage = "forced")]
<1>1. /\ child # "none" /\ state # "starting"
      /\ \/ turn.started /\ EndTurn /\ OnTurnEnd(heard) /\ ClosedIfDue
         \/ ~turn.started /\ stopping' = heard /\ UNCHANGED <<child, killedFor, turn, open, st, renewing>>
      /\ UNCHANGED <<state, steer, cancels, receipt, turnCount, wr, tid, echoed, dropped,
                     phase, want, step, resumeFails, replaceForced>>
  BY DEF TurnEnds
<1>2. heard \in StopRecords /\ heard.turn = stopping.turn /\ heard.stage = stopping.stage
  BY DEF TypeOK, StopRecords
<1>3. stopping.stage # "forced" => heard = stopping
  BY DEF TypeOK
<1> HIDE DEF heard
<1>4. CASE turn.started /\ EndTurn /\ OnTurnEnd(heard) /\ ClosedIfDue
  <2>1. turn # NoTurn /\ wr[turn.prompt] # "writing"
    BY <1>4, TurnFields DEF TypeOK, BridgeInv
  <2>2. /\ child' = IF renewing = "waitTurn" /\ child = "alive" THEN "closed" ELSE child
        /\ killedFor' \in {killedFor, "other"}
    BY <1>1, <1>4 DEF ClosedIfDue, CloseStdin
  <2>3. /\ child \in {"none", "alive", "closed", "killed"} /\ child' \in {"none", "alive", "closed", "killed"}
        /\ killedFor' \in {"none", "liveness", "other"}
    BY <2>2 DEF TypeOK, BridgeTypeOK
  <2>4. receipt' \in BOOLEAN
    BY <1>1 DEF TypeOK, BridgeTypeOK
  <2> QED BY <1>1, <1>2, <1>4, <2>1, <2>2, <2>3, <2>4, EndedKeeps
<1>5. CASE ~turn.started /\ stopping' = heard /\ UNCHANGED <<child, killedFor, turn, open, st, renewing>>
  <2>1. BridgeTypeOK'
    BY <1>1, <1>5 DEF TypeOK, BridgeTypeOK
  <2>2. TypeOK'
    BY <1>1, <1>2, <1>5, <2>1 DEF TypeOK, StopRecords
  <2>3. BridgeInv'
    BY <1>1, <1>5 DEF BridgeInv, ShownTurnsEnd
  <2>4. PhaseInv'
    BY <1>1, <1>2, <1>5 DEF PhaseInv
  <2>5. TurnInv'
    <3>1. stopping = NoStop => stopping' = NoStop
      BY <1>3, <1>5, NoStopTyped
    <3> QED BY <1>1, <1>2, <1>5, <3>1 DEF TurnInv
  <2> QED BY <2>2, <2>3, <2>4, <2>5
<1> QED BY <1>1, <1>4, <1>5

LEMMA SilentKeeps ==
  ASSUME IInv, Silent
  PROVE  IInv'
<1>1. stopping \in StopRecords /\ child \in {"none", "alive", "closed", "killed"}
  BY DEF IInv, TypeOK, BridgeTypeOK, StopRecords
<1>2. receipt' \in BOOLEAN
  BY DEF Silent, IInv, TypeOK, BridgeTypeOK
<1> QED BY <1>1, <1>2, EndedKeeps DEF Silent

LEMMA ToolRefusedKeeps ==
  ASSUME IInv, ToolRefused
  PROVE  IInv'
<1>1. stopping \in StopRecords /\ child \in {"none", "alive", "closed", "killed"}
  BY DEF IInv, TypeOK, BridgeTypeOK, StopRecords
<1>2. turn # NoTurn /\ wr[turn.prompt] # "writing"
  BY TurnFields DEF ToolRefused, IInv, TypeOK, BridgeInv
<1>3. receipt' \in BOOLEAN
  BY DEF ToolRefused, Interrupt, IInv, TypeOK, BridgeTypeOK
<1> QED BY <1>1, <1>2, <1>3, EndedKeeps DEF ToolRefused, CloseStdin

LEMMA ForceTimerKeeps ==
  ASSUME IInv, ForceTimer
  PROVE  IInv'
<1> USE DEF IInv
<1>1. CASE turn.id # stopping.turn
  <2>1. /\ stopping' = NoStop
        /\ UNCHANGED <<child, killedFor, turn, open, st, renewing, state, steer, cancels, receipt, turnCount,
                       wr, tid, echoed, dropped, phase, want, step, resumeFails, replaceForced>>
    BY <1>1 DEF ForceTimer
  <2>2. BridgeTypeOK'
    BY <2>1 DEF TypeOK, BridgeTypeOK
  <2>3. TypeOK'
    BY <2>1, <2>2, NoStopTyped DEF TypeOK
  <2>4. BridgeInv'
    BY <2>1 DEF BridgeInv, ShownTurnsEnd
  <2>5. PhaseInv' /\ TurnInv'
    BY <1>1, <2>1, NoStopTyped DEF PhaseInv, TurnInv
  <2> QED BY <2>3, <2>4, <2>5
<1>2. CASE turn.id = stopping.turn
  <2> DEFINE stop == [stopping EXCEPT !.stage = "forced"]
  <2>1. /\ stopping.stage = "asked" /\ wr[turn.prompt] # "writing"
        /\ EndTurn /\ OnTurnEnd(stop) /\ ClosedIfDue
        /\ UNCHANGED <<state, steer, cancels, receipt, turnCount, wr, tid, echoed, dropped,
                       phase, want, step, resumeFails, replaceForced>>
    BY <1>2 DEF ForceTimer
  <2>2. stop \in StopRecords /\ stop.turn = stopping.turn
    BY DEF TypeOK, StopRecords
  <2> HIDE DEF stop
  <2>3. turn # NoTurn
    BY <1>2, <2>1, NoStopTyped DEF PhaseInv
  <2>4. /\ child' = IF child # "none" /\ renewing = "waitTurn" /\ child = "alive" THEN "closed" ELSE child
        /\ killedFor' \in {killedFor, "other"}
    BY <2>1 DEF ClosedIfDue, CloseStdin
  <2>5. /\ child \in {"none", "alive", "closed", "killed"} /\ child' \in {"none", "alive", "closed", "killed"}
        /\ killedFor' \in {"none", "liveness", "other"}
    BY <2>4 DEF TypeOK, BridgeTypeOK
  <2>6. killedFor' = "liveness" => state' # "starting"
    BY <2>1, <2>4 DEF BridgeInv
  <2>7. receipt' \in BOOLEAN
    BY <2>1 DEF TypeOK, BridgeTypeOK
  <2> QED BY <2>1, <2>2, <2>3, <2>4, <2>5, <2>6, <2>7, EndedKeeps
<1> QED BY <1>1, <1>2

-----------------------------------------------------------------------------
(* What the screens ask for *)

(* A stop of a turn the screens may or may not have seen. *)
LEMMA BeginStopKeeps ==
  ASSUME IInv, turn # NoTurn, BeginStop, stopping' = AskedStop,
         renewing' \in {renewing, "waitTurn"},
         wr[turn.prompt] # "no" => renewing' # "no",
         UNCHANGED <<child, state, killedFor, steer, cancels, turnCount, wr, tid, echoed, open, dropped,
                     phase, want, step, resumeFails, replaceForced>>
  PROVE  IInv'
<1> USE DEF IInv
<1>1. /\ turn \in Turns /\ turn.id \in Nat /\ turn.id # 0 /\ turn.prompt \in Prompts
      /\ turn' = [turn EXCEPT !.stopping = TRUE]
      /\ st' = [p \in Prompts |-> IF cancels /\ st[p] = "held" THEN "none" ELSE st[p]]
      /\ receipt' = (receipt \/ child \in {"alive", "killed"})
  BY TurnFields DEF TypeOK, BeginStop, Interrupt
<1>2. /\ turn' \in Turns /\ turn' # NoTurn /\ turn'.id = turn.id /\ turn'.prompt = turn.prompt
      /\ turn'.started = turn.started /\ turn'.stopping = TRUE
  <2>1. /\ turn' \in Turns /\ turn'.id = turn.id /\ turn'.prompt = turn.prompt
        /\ turn'.started = turn.started /\ turn'.stopping = TRUE
    BY <1>1 DEF Turns
  <2> QED BY <2>1, NoStopTyped
<1>3. /\ stopping'.turn = turn.id /\ stopping'.stage = "asked"
      /\ stopping' \in StopRecords
  BY <1>1 DEF AskedStop, StopRecords
<1>4. BridgeTypeOK'
  <2>1. receipt' \in BOOLEAN
    BY <1>1 DEF TypeOK, BridgeTypeOK
  <2>2. st' \in [Prompts -> {"none", "new", "queued", "held", "still", "armed", "resent", "taken"}]
    BY <1>1 DEF TypeOK, BridgeTypeOK
  <2> QED BY <1>2, <2>1, <2>2 DEF TypeOK, BridgeTypeOK
<1>5. TypeOK'
  BY <1>3, <1>4 DEF TypeOK, StopRecords
<1>6. BridgeInv'
  <2>1. \A p \in Prompts : /\ st'[p] # "none" => st[p] # "none"
                           /\ st'[p] = "new" <=> st[p] = "new"
    BY <1>1 DEF TypeOK, BridgeTypeOK
  <2> QED BY <1>1, <1>2, <2>1 DEF BridgeInv, ShownTurnsEnd
<1>7. PhaseInv'
  BY <1>1, <1>3 DEF PhaseInv
<1>8. turn.id <= turnCount
  BY DEF TypeOK, BridgeTypeOK
<1>9. TurnInv'
  BY <1>1, <1>2, <1>3, <1>8 DEF TurnInv
<1> QED BY <1>5, <1>6, <1>7, <1>9

LEMMA StopKeeps ==
  ASSUME IInv, Stop
  PROVE  IInv'
<1>1. turn # NoTurn
  BY NoStopTyped DEF Stop, IInv, TypeOK, BridgeTypeOK
<1>2. wr[turn.prompt] = "no"
  BY <1>1 DEF Stop, IInv, BridgeInv
<1> QED BY <1>1, <1>2, BeginStopKeeps DEF Stop

LEMMA NewKeeps ==
  ASSUME IInv, New
  PROVE  IInv'
<1> USE DEF IInv
<1>1. /\ renewing = "no" /\ phase # "refused"
      /\ UNCHANGED <<turnCount, wr, tid, echoed, open, dropped, replaceForced>>
      /\ NewInTurn \/ NewNow
  BY DEF New
<1>2. CASE NewInTurn
  <2>1. /\ turn # NoTurn /\ renewing' = "waitTurn"
        /\ UNCHANGED <<child, state, killedFor, steer, cancels, phase, want, step, resumeFails>>
        /\ \/ stopping.turn # turn.id /\ BeginStop /\ stopping' = AskedStop
           \/ stopping.turn = turn.id /\ UNCHANGED <<turn, receipt, st, stopping>>
    BY <1>2 DEF NewInTurn
  <2>2. CASE BeginStop /\ stopping' = AskedStop
    BY <1>1, <2>1, <2>2, BeginStopKeeps
  <2>3. CASE stopping.turn = turn.id /\ UNCHANGED <<turn, receipt, st, stopping>>
    <3>1. BridgeTypeOK'
      BY <1>1, <2>1, <2>3 DEF TypeOK, BridgeTypeOK
    <3>2. TypeOK'
      BY <1>1, <2>1, <2>3, <3>1 DEF TypeOK
    <3>3. BridgeInv'
      BY <1>1, <2>1, <2>3 DEF BridgeInv, ShownTurnsEnd
    <3>4. PhaseInv'
      BY <1>1, <2>1, <2>3 DEF PhaseInv
    <3>5. stopping # NoStop
      BY <2>1, <2>3, TurnFields, NoStopTyped DEF TypeOK
    <3>6. TurnInv'
      BY <1>1, <2>1, <2>3, <3>5 DEF TurnInv
    <3> QED BY <3>2, <3>3, <3>4, <3>6
  <2> QED BY <2>1, <2>2, <2>3
<1>3. CASE NewNow
  <2>1. turn = NoTurn /\ UNCHANGED <<turn, receipt, st>>
    BY <1>3 DEF NewNow
  <2>2. CASE child = "none" /\ RenewNow
    <3>1. /\ child' = "alive" /\ state' = "starting" /\ killedFor' = "none" /\ phase' = "starting"
          /\ want' \in Wants /\ renewing' = "no" /\ stopping' = NoStop
          /\ step' \in BOOLEAN /\ resumeFails' \in 0..1
          /\ steer' \in BOOLEAN /\ cancels' \in BOOLEAN
      BY <2>2, RenewFields, SpawnFields
    <3>2. BridgeTypeOK'
      BY <1>1, <2>1, <3>1 DEF TypeOK, BridgeTypeOK
    <3>3. TypeOK'
      BY <1>1, <3>1, <3>2, NoStopTyped DEF TypeOK
    <3>4. BridgeInv'
      BY <1>1, <2>1, <3>1 DEF BridgeInv, ShownTurnsEnd
    <3>5. PhaseInv'
      BY <3>1, NoStopTyped DEF PhaseInv
    <3>6. TurnInv'
      BY <2>1, <3>1, NoStopTyped DEF TurnInv
    <3> QED BY <3>3, <3>4, <3>5, <3>6
  <2>3. CASE /\ child # "none" /\ renewing' = "closing" /\ CloseStdin
             /\ UNCHANGED <<state, steer, cancels, phase, want, step, resumeFails, stopping>>
    <3>1. want' \in Wants /\ replaceForced' \in BOOLEAN
      BY <1>1, <2>3 DEF TypeOK
    <3> QED BY <1>1, <2>1, <2>3, <3>1, CloseKeeps
  <2> QED BY <1>3, <2>2, <2>3 DEF NewNow
<1> QED BY <1>1, <1>2, <1>3

-----------------------------------------------------------------------------
(* Prompts *)

(* A step of the prompts alone: none of them is new to the bridge. *)
LEMMA PromptsKeep ==
  ASSUME IInv,
         st' \in [Prompts -> {"none", "new", "queued", "held", "still", "armed", "resent", "taken"}],
         \A p \in Prompts : /\ st'[p] # "none" => st[p] # "none"
                            /\ st'[p] = "new" => st[p] = "new"
                            /\ wr[p] = "writing" /\ st[p] = "new" => st'[p] = "new",
         receipt' \in BOOLEAN,
         UNCHANGED <<child, state, killedFor, steer, cancels, turn, turnCount, wr, tid, echoed, open, dropped,
                     session>>
  PROVE  IInv'
<1> USE DEF IInv, session
<1>1. BridgeTypeOK'
  BY DEF TypeOK, BridgeTypeOK
<1>2. TypeOK'
  BY <1>1 DEF TypeOK
<1>3. BridgeInv'
  BY TurnFields DEF TypeOK, BridgeInv, ShownTurnsEnd
<1>4. PhaseInv' /\ TurnInv'
  BY DEF PhaseInv, TurnInv
<1> QED BY <1>2, <1>3, <1>4

LEMMA InterruptedKeeps ==
  ASSUME IInv, Interrupted, UNCHANGED session
  PROVE  IInv'
<1>1. PICK dead \in SUBSET Sent, kept \in SUBSET Sent :
        st' = [p \in Prompts |->
                CASE p \in dead -> "none"
                  [] p \in kept /\ st[p] \in {"queued", "armed"} -> "still"
                  [] OTHER -> st[p]]
  BY DEF Interrupted
<1>2. \A p \in Prompts : /\ st'[p] \in {st[p], "none", "still"}
                         /\ st'[p] # st[p] => p \in Sent
                         /\ st'[p] = "still" => st[p] # "none"
  BY <1>1 DEF Sent
<1>3. st' \in [Prompts -> {"none", "new", "queued", "held", "still", "armed", "resent", "taken"}]
  BY <1>1, <1>2 DEF IInv, TypeOK, BridgeTypeOK
<1>4. \A p \in Prompts : /\ st'[p] # "none" => st[p] # "none"
                         /\ st'[p] = "new" => st[p] = "new"
                         /\ wr[p] = "writing" /\ st[p] = "new" => st'[p] = "new"
  BY <1>2 DEF Sent
<1>5. receipt' \in BOOLEAN
  BY DEF Interrupted, IInv, TypeOK, BridgeTypeOK
<1> QED BY <1>3, <1>4, <1>5, PromptsKeep DEF Interrupted

LEMMA ResendKeeps ==
  ASSUME IInv, NEW p \in Prompts, Resend(p) \/ NotTaken(p), UNCHANGED session
  PROVE  IInv'
<1>1. /\ st[p] \in {"armed", "resent"}
      /\ st' \in {[st EXCEPT ![p] = "resent"], [st EXCEPT ![p] = "queued"], [st EXCEPT ![p] = "none"]}
      /\ UNCHANGED <<child, state, killedFor, steer, cancels, receipt, turn, turnCount, wr, tid, echoed, open, dropped>>
  BY DEF Resend, NotTaken
<1>2. st' \in [Prompts -> {"none", "new", "queued", "held", "still", "armed", "resent", "taken"}]
  BY <1>1 DEF IInv, TypeOK, BridgeTypeOK
<1>3. \A q \in Prompts : /\ st'[q] # "none" => st[q] # "none"
                         /\ st'[q] = "new" => st[q] = "new"
                         /\ wr[q] = "writing" /\ st[q] = "new" => st'[q] = "new"
  BY <1>1 DEF IInv, TypeOK, BridgeTypeOK
<1>4. receipt' \in BOOLEAN
  BY <1>1 DEF IInv, TypeOK, BridgeTypeOK
<1> QED BY <1>1, <1>2, <1>3, <1>4, PromptsKeep

(* A turn begins with a prompt that is being written, and no screen sees it; a  *)
(* prompt that joins a turn, or waits for its end, changes no turn.              *)
LEMMA SendKeeps ==
  ASSUME IInv, NEW p \in Prompts, Send(p)
  PROVE  IInv'
<1> USE DEF IInv
<1>1. /\ phase = "up" /\ renewing = "no" /\ child # "none" /\ UNCHANGED session
      /\ p \notin echoed /\ wr[p] = "no"
      /\ UNCHANGED <<child, state, killedFor, steer, cancels, receipt, open, dropped>>
  BY DEF Send, Prompt
<1>2. st[p] = "none"
  BY <1>1 DEF BridgeInv
<1>3. turn # NoTurn => turn.prompt # p
  BY <1>1 DEF BridgeInv
<1>4. PhaseInv'
  BY <1>1 DEF PhaseInv, session
<1>5. CASE turn = NoTurn
  <2>1. /\ NewTurn(p, FALSE)
        /\ st' = [st EXCEPT ![p] = "new"]
        /\ wr' = [wr EXCEPT ![p] = IF child = "closed" THEN "failing" ELSE "writing"]
        /\ tid' = [tid EXCEPT ![p] = turnCount + 1]
        /\ UNCHANGED echoed
    BY <1>5 DEF Send, Prompt
  <2>2. /\ turn' \in Turns /\ turn' # NoTurn
        /\ turnCount' = turnCount + 1 /\ turnCount' \in Nat
        /\ turn'.id = turnCount + 1 /\ turn'.prompt = p
        /\ turn'.started = FALSE /\ turn'.stopping = FALSE
    BY <2>1, NewTurnFields DEF TypeOK
  <2>3. /\ turnCount \in Nat /\ open \subseteq 1..turnCount /\ dropped \subseteq 1..turnCount
        /\ st' \in [Prompts -> {"none", "new", "queued", "held", "still", "armed", "resent", "taken"}]
        /\ wr' \in [Prompts -> {"no", "writing", "failing"}]
        /\ tid' \in [Prompts -> Nat]
    BY <2>1 DEF TypeOK, BridgeTypeOK
  <2>4. BridgeTypeOK'
    BY <1>1, <2>1, <2>2, <2>3 DEF TypeOK, BridgeTypeOK
  <2>5. TypeOK'
    BY <1>1, <2>4 DEF TypeOK, session
  <2>6. ShownTurnsEnd'
    BY <1>1, <1>5, <2>3, NoStopTyped DEF BridgeInv, ShownTurnsEnd
  <2>7. \A q \in Prompts :
          /\ wr'[q] = "no" /\ st'[q] # "none" => q \in echoed'
          /\ wr'[q] = "writing" /\ st'[q] = "new" => turn'.prompt = q \/ tid'[q] \in dropped'
    BY <1>1, <1>5, <2>1, <2>2 DEF TypeOK, BridgeTypeOK, BridgeInv
  <2>8. /\ wr'[p] # "no" /\ st'[p] = "new" /\ tid'[p] = turnCount + 1
        /\ turnCount + 1 \notin open \cup dropped
    <3>1. wr'[p] # "no" /\ st'[p] = "new" /\ tid'[p] = turnCount + 1
      BY <2>1 DEF TypeOK, BridgeTypeOK
    <3>2. turnCount + 1 \notin open \cup dropped
      BY <2>3
    <3> QED BY <3>1, <3>2
  <2>9. BridgeInv'
    BY <1>1, <2>2, <2>6, <2>7, <2>8 DEF BridgeInv
  <2>10. TurnInv'
    BY <1>1, <2>2, <2>3 DEF TurnInv, TypeOK, session
  <2> QED BY <1>4, <2>5, <2>9, <2>10
<1>6. CASE turn # NoTurn
  <2>1. /\ \/ /\ st' = [st EXCEPT ![p] = "queued"]
              /\ wr' \in {[wr EXCEPT ![p] = "failing"], [wr EXCEPT ![p] = "writing"]}
              /\ UNCHANGED echoed
           \/ /\ st' = [st EXCEPT ![p] = "held"]
              /\ echoed' = echoed \cup {p}
              /\ UNCHANGED wr
        /\ tid' = [tid EXCEPT ![p] = turn.id]
        /\ UNCHANGED <<turn, turnCount>>
    BY <1>6 DEF Send, Prompt
  <2>2. turn.id \in Nat /\ turn.prompt \in Prompts
    BY <1>6, TurnFields DEF TypeOK
  <2>3. BridgeTypeOK'
    BY <1>1, <2>1, <2>2 DEF TypeOK, BridgeTypeOK
  <2>4. TypeOK'
    BY <1>1, <2>3 DEF TypeOK, session
  <2>5. \A q \in Prompts \ {p} : wr'[q] = wr[q] /\ st'[q] = st[q] /\ tid'[q] = tid[q]
    BY <2>1 DEF TypeOK, BridgeTypeOK
  <2>6. st'[p] # "new" /\ (wr'[p] = "no" => p \in echoed') /\ echoed \subseteq echoed'
    BY <1>1, <2>1 DEF TypeOK, BridgeTypeOK
  <2>7. BridgeInv'
    BY <1>1, <1>3, <2>1, <2>2, <2>5, <2>6 DEF BridgeInv, ShownTurnsEnd
  <2>8. TurnInv'
    BY <1>1, <1>3, <2>1, <2>2, <2>5 DEF TurnInv, session
  <2> QED BY <1>4, <2>4, <2>7, <2>8
<1> QED BY <1>5, <1>6

(* The echo and the start of the prompt's turn, or of one that was let go.      *)
LEMMA WrittenKeeps ==
  ASSUME IInv, NEW p \in Prompts, Written(p), UNCHANGED session
  PROVE  IInv'
<1> USE DEF IInv
<1>1. /\ wr[p] = "writing"
      /\ wr' = [wr EXCEPT ![p] = "no"]
      /\ echoed' = echoed \cup {p}
      /\ open' = IF st[p] = "new" THEN open \cup {tid[p]} ELSE open
      /\ UNCHANGED <<child, state, killedFor, steer, cancels, receipt, turn, turnCount, st, tid, dropped>>
  BY DEF Written
<1>2. wr'[p] = "no" /\ \A q \in Prompts \ {p} : wr'[q] = wr[q]
  BY <1>1 DEF TypeOK, BridgeTypeOK
<1>3. st[p] = "new" => \/ turn # NoTurn /\ turn.prompt = p /\ tid[p] = turn.id
                      \/ tid[p] \in dropped
  BY <1>1 DEF BridgeInv
<1>4. turn # NoTurn => turn.prompt \in Prompts /\ turn.id \in 1..turnCount
  BY TurnFields, TurnNumber DEF TypeOK
<1>5. open' \subseteq 1..turnCount
  BY <1>1, <1>3, <1>4 DEF TypeOK, BridgeTypeOK
<1>6. BridgeTypeOK'
  BY <1>1, <1>5 DEF TypeOK, BridgeTypeOK
<1>7. TypeOK'
  BY <1>6 DEF TypeOK, session
<1>8. BridgeInv'
  <2>1. turn # NoTurn /\ turn.prompt = p => turn.id \in open'
    BY <1>1, <1>3 DEF BridgeInv
  <2>2. turn # NoTurn /\ turn.prompt # p /\ wr[turn.prompt] = "no" => turn.id \in open'
    BY <1>1 DEF BridgeInv
  <2>3. turn # NoTurn /\ turn.prompt # p /\ wr[turn.prompt] # "no" => turn.id \notin open' \cup dropped
    BY <1>1, <1>3, <1>4 DEF BridgeInv
  <2>4. ShownTurnsEnd'
    BY <1>1, <1>3 DEF BridgeInv, ShownTurnsEnd
  <2> QED BY <1>1, <1>2, <1>4, <2>1, <2>2, <2>3, <2>4 DEF BridgeInv
<1>9. PhaseInv'
  BY <1>1 DEF PhaseInv, session
<1>10. TurnInv'
  BY <1>1, <1>2, <1>4 DEF TurnInv, session
<1> QED BY <1>7, <1>8, <1>9, <1>10

(* A turn that is taken back was on no screen, so its number is free again.     *)
LEMMA WriteFailsKeeps ==
  ASSUME IInv, NEW p \in Prompts, WriteFails(p), UNCHANGED session
  PROVE  IInv'
<1> USE DEF IInv
<1>1. /\ wr[p] # "no"
      /\ wr' = [wr EXCEPT ![p] = "no"]
      /\ tid' = [tid EXCEPT ![p] = 0]
      /\ st' = [st EXCEPT ![p] = "none"]
      /\ turn' = IF OwnTurn(p) THEN NoTurn ELSE turn
      /\ turnCount' = IF OwnTurn(p) THEN turnCount - 1 ELSE turnCount
      /\ killedFor' = "other"
      /\ child' = IF child = "none" THEN "none" ELSE "killed"
      /\ UNCHANGED <<state, steer, cancels, receipt, echoed, open, dropped>>
  BY DEF WriteFails
<1>2. /\ wr'[p] = "no" /\ st'[p] = "none"
      /\ \A q \in Prompts \ {p} : wr'[q] = wr[q] /\ st'[q] = st[q] /\ tid'[q] = tid[q]
  BY <1>1 DEF TypeOK, BridgeTypeOK
<1>3. /\ st' \in [Prompts -> {"none", "new", "queued", "held", "still", "armed", "resent", "taken"}]
      /\ wr' \in [Prompts -> {"no", "writing", "failing"}]
      /\ tid' \in [Prompts -> Nat]
  BY <1>1 DEF TypeOK, BridgeTypeOK
<1>4. PhaseInv'
  <2>1. phase = "down" => ~OwnTurn(p)
    BY TurnFields, NobodyIsNoPrompt DEF PhaseInv, OwnTurn, TypeOK
  <2> QED BY <1>1, <2>1 DEF PhaseInv, session
<1>5. CASE OwnTurn(p)
  <2>1. turn.prompt = p /\ turn # NoTurn /\ turn.id = turnCount /\ turn.id \in Nat /\ turn.id # 0
    BY <1>5, TurnFields, NobodyIsNoPrompt DEF OwnTurn, TypeOK, BridgeInv
  <2>2. turnCount \notin open \cup dropped
    BY <1>1, <2>1 DEF BridgeInv
  <2>3. /\ turnCount' = turnCount - 1 /\ turnCount' \in Nat /\ turn' = NoTurn
        /\ open \subseteq 1..turnCount' /\ dropped \subseteq 1..turnCount'
    BY <1>1, <1>5, <2>1, <2>2 DEF TypeOK, BridgeTypeOK
  <2>4. BridgeTypeOK'
    <3>1. turn' \in Turns \cup {NoTurn} /\ turn'.id <= turnCount'
      BY <2>3, NoStopTyped
    <3> QED BY <1>1, <1>3, <2>3, <3>1 DEF TypeOK, BridgeTypeOK
  <2>5. TypeOK'
    BY <2>4 DEF TypeOK, session
  <2>6. BridgeInv'
    <3>1. ShownTurnsEnd'
      BY <1>1, <2>1, <2>2, <2>3 DEF BridgeInv, ShownTurnsEnd
    <3>2. \A q \in Prompts :
            /\ wr'[q] = "no" /\ st'[q] # "none" => q \in echoed'
            /\ wr'[q] = "writing" /\ st'[q] = "new" => tid'[q] \in dropped'
      BY <1>1, <1>2, <2>1 DEF BridgeInv
    <3> QED BY <1>1, <2>3, <3>1, <3>2 DEF BridgeInv
  <2>7. TurnInv'
    <3>1. SUFFICES ASSUME dropped = {}, phase # "refused" PROVE TurnInv'
      BY <1>1 DEF TurnInv, session
    <3>2. child' = "killed"
      BY <1>1, <2>1, <3>1 DEF PhaseInv, TypeOK
    <3>3. stopping # NoStop => stopping.turn <= turnCount - 1 \/ renewing # "no"
      <4>1. SUFFICES ASSUME stopping # NoStop, renewing = "no" PROVE stopping.turn <= turnCount - 1
        OBVIOUS
      <4>2. stopping.turn # turn.id
        BY <1>1, <2>1, <3>1, <4>1 DEF TurnInv
      <4>3. stopping.turn <= turnCount /\ stopping.turn \in Nat /\ turnCount \in Nat
        BY <3>1, <4>1 DEF TurnInv, TypeOK, BridgeTypeOK
      <4> QED BY <2>1, <4>2, <4>3
    <3> QED BY <2>3, <3>1, <3>2, <3>3, NoStopTyped DEF TurnInv, session
  <2> QED BY <1>4, <2>5, <2>6, <2>7
<1>6. CASE ~OwnTurn(p)
  <2>1. turn' = turn /\ turnCount' = turnCount
    BY <1>1, <1>6
  <2>2. turn # NoTurn => turn.prompt # p /\ turn.prompt \in Prompts
    BY <1>1, <1>6, TurnFields DEF OwnTurn, TypeOK, BridgeInv
  <2>3. BridgeTypeOK'
    BY <1>1, <1>3, <2>1 DEF TypeOK, BridgeTypeOK
  <2>4. TypeOK'
    BY <2>3 DEF TypeOK, session
  <2>5. BridgeInv'
    BY <1>1, <1>2, <2>1, <2>2 DEF BridgeInv, ShownTurnsEnd
  <2>6. TurnInv'
    <3>1. SUFFICES ASSUME dropped = {}, phase # "refused" PROVE TurnInv'
      BY <1>1 DEF TurnInv, session
    <3>2. CASE child = "none"
      <4>1. turn = NoTurn /\ stopping = NoStop /\ renewing = "no"
        BY <3>1, <3>2 DEF PhaseInv, TypeOK
      <4> QED BY <2>1, <4>1, NoStopTyped DEF TurnInv, session
    <3>3. CASE child # "none"
      BY <1>1, <1>2, <2>1, <2>2, <3>1, <3>3 DEF TurnInv, session
    <3> QED BY <3>2, <3>3
  <2> QED BY <1>4, <2>4, <2>5, <2>6
<1> QED BY <1>5, <1>6

(* The agent has read a prompt: a turn that begins with it is on the screens at *)
(* once, and one it takes the place of is let go.                               *)
LEMMA TakenKeeps ==
  ASSUME IInv, NEW p \in Prompts, Taken(p), UNCHANGED session
  PROVE  IInv'
<1> USE DEF IInv
<1>1. /\ child # "none" /\ wr[p] = "no" /\ st[p] # "none"
      /\ st' = [st EXCEPT ![p] = "taken"]
      /\ UNCHANGED <<child, state, killedFor, steer, cancels, receipt, wr, tid, echoed>>
  BY DEF Taken, Sent
<1>2. /\ p \in echoed /\ st'[p] = "taken"
      /\ \A q \in Prompts \ {p} : st'[q] = st[q]
      /\ st' \in [Prompts -> {"none", "new", "queued", "held", "still", "armed", "resent", "taken"}]
  BY <1>1 DEF TypeOK, BridgeTypeOK, BridgeInv
<1>3. PhaseInv'
  BY <1>1 DEF PhaseInv, session
<1>4. CASE /\ turn.prompt = p /\ ~turn.started
           /\ turn' = [turn EXCEPT !.started = TRUE]
           /\ UNCHANGED <<turnCount, open, dropped>>
  <2>1. turn # NoTurn /\ turn \in Turns
    BY <1>4, TurnFields, NobodyIsNoPrompt DEF TypeOK
  <2>2. /\ turn' \in Turns /\ turn'.id = turn.id /\ turn'.prompt = turn.prompt
        /\ turn'.started = TRUE /\ turn'.stopping = turn.stopping
    BY <1>4, <2>1 DEF Turns
  <2>3. turn' # NoTurn
    BY <2>2 DEF NoTurn
  <2>4. BridgeTypeOK'
    BY <1>1, <1>2, <1>4, <2>2 DEF TypeOK, BridgeTypeOK
  <2>5. TypeOK'
    BY <2>4 DEF TypeOK, session
  <2>6. BridgeInv'
    BY <1>1, <1>2, <1>4, <2>1, <2>2, <2>3 DEF BridgeInv, ShownTurnsEnd
  <2>7. TurnInv'
    BY <1>1, <1>4, <2>1, <2>2, <2>3 DEF TurnInv, session
  <2> QED BY <1>3, <2>5, <2>6, <2>7
<1>5. CASE turn.started /\ UNCHANGED <<turn, turnCount, open, dropped>>
  <2>1. turn # NoTurn /\ (turn.prompt = p => wr[turn.prompt] = "no")
    BY <1>1, <1>5, TurnFields DEF TypeOK
  <2>2. BridgeTypeOK'
    BY <1>1, <1>2, <1>5 DEF TypeOK, BridgeTypeOK
  <2>3. TypeOK'
    BY <2>2 DEF TypeOK, session
  <2>4. BridgeInv'
    BY <1>1, <1>2, <1>5, <2>1 DEF BridgeInv, ShownTurnsEnd
  <2>5. TurnInv'
    BY <1>1, <1>5 DEF TurnInv, session
  <2> QED BY <1>3, <2>3, <2>4, <2>5
<1>6. CASE /\ turn.prompt # p /\ ~turn.started
           /\ NewTurn(p, TRUE)
           /\ open' = open \cup {turnCount + 1}
           /\ dropped' = IF turn = NoTurn THEN dropped ELSE dropped \cup {turn.id}
  <2>1. /\ turn' \in Turns /\ turn' # NoTurn
        /\ turnCount' = turnCount + 1 /\ turnCount' \in Nat
        /\ turn'.id = turnCount + 1 /\ turn'.prompt = p
        /\ turn'.started = TRUE /\ turn'.stopping = FALSE
    BY <1>6, NewTurnFields DEF TypeOK
  <2>2. turn # NoTurn => turn.id \in 1..turnCount
    BY TurnNumber DEF TypeOK
  <2>3. open' \subseteq 1..turnCount' /\ dropped' \subseteq 1..turnCount'
    <3>1. turnCount \in Nat /\ open \subseteq 1..turnCount /\ dropped \subseteq 1..turnCount
      BY DEF TypeOK, BridgeTypeOK
    <3>2. 1..turnCount \subseteq 1..turnCount' /\ turnCount + 1 \in 1..turnCount'
      BY <2>1, <3>1
    <3> QED BY <1>6, <2>2, <3>1, <3>2
  <2>4. BridgeTypeOK'
    BY <1>1, <1>2, <2>1, <2>3 DEF TypeOK, BridgeTypeOK
  <2>5. TypeOK'
    BY <2>4 DEF TypeOK, session
  <2>6. ShownTurnsEnd'
    <3>1. turn = NoTurn => turn.id \notin open
      BY NoStopTyped DEF TypeOK, BridgeTypeOK
    <3> QED BY <1>6, <2>1, <3>1 DEF BridgeInv, ShownTurnsEnd
  <2>7. \A q \in Prompts :
          /\ wr'[q] = "no" /\ st'[q] # "none" => q \in echoed'
          /\ wr'[q] = "writing" /\ st'[q] = "new" => tid'[q] \in dropped'
    BY <1>1, <1>2, <1>6 DEF BridgeInv
  <2>8. BridgeInv'
    BY <1>1, <1>2, <1>6, <2>1, <2>6, <2>7 DEF BridgeInv
  <2>9. TurnInv'
    <3>1. SUFFICES ASSUME dropped' = {}, phase # "refused" PROVE TurnInv'
      BY DEF TurnInv, session
    <3>2. turn = NoTurn /\ dropped = {}
      BY <1>6, <3>1
    <3>3. turnCount \in Nat /\ stopping.turn \in Nat
      BY DEF TypeOK, BridgeTypeOK
    <3> QED BY <1>1, <2>1, <3>1, <3>2, <3>3, NoStopTyped DEF TurnInv, session
  <2> QED BY <1>3, <2>5, <2>8, <2>9
<1> QED BY <1>4, <1>5, <1>6 DEF Taken

-----------------------------------------------------------------------------
(* Timers *)

LEMMA TermTimerKeeps ==
  ASSUME IInv, NEW stage \in {"termed", "over"},
         stopping.stage \in {"forced", "termed"},
         stopping' \in {NoStop, [stopping EXCEPT !.stage = stage]},
         UNCHANGED <<bridge, phase, want, step, resumeFails, replaceForced, renewing>>
  PROVE  IInv'
<1> USE DEF IInv, bridge
<1>1. /\ stopping' \in StopRecords
      /\ stopping' # NoStop => stopping'.turn = stopping.turn
      /\ stopping'.stage # "no" => stopping'.turn = stopping.turn
  BY NoStopTyped DEF TypeOK, StopRecords
<1>2. BridgeTypeOK'
  BY DEF TypeOK, BridgeTypeOK
<1>3. TypeOK'
  BY <1>1, <1>2 DEF TypeOK, StopRecords
<1>4. BridgeInv'
  BY DEF BridgeInv, ShownTurnsEnd
<1>5. PhaseInv'
  BY <1>1, NoStopTyped DEF PhaseInv
<1>6. TurnInv'
  BY <1>1, NoStopTyped DEF TurnInv
<1> QED BY <1>3, <1>4, <1>5, <1>6

LEMMA RestartTimerKeeps ==
  ASSUME IInv, RestartTimer
  PROVE  IInv'
<1> USE DEF IInv
<1>1. /\ phase = "down" /\ turn = NoTurn /\ stopping = NoStop /\ renewing = "no"
      /\ UNCHANGED <<receipt, turn, turnCount, st, wr, tid, echoed, open, dropped,
                     want, step, resumeFails, replaceForced, stopping, renewing>>
  BY DEF RestartTimer, PhaseInv
<1>2. /\ child' = "alive" /\ state' = "starting" /\ killedFor' = "none" /\ phase' = "starting"
      /\ steer' \in BOOLEAN /\ cancels' \in BOOLEAN
  BY SpawnFields DEF RestartTimer
<1>3. BridgeTypeOK'
  BY <1>1, <1>2 DEF TypeOK, BridgeTypeOK
<1>4. TypeOK'
  BY <1>1, <1>2, <1>3 DEF TypeOK
<1>5. BridgeInv'
  BY <1>1, <1>2 DEF BridgeInv, ShownTurnsEnd
<1>6. PhaseInv' /\ TurnInv'
  BY <1>1, <1>2, NoStopTyped DEF PhaseInv, TurnInv
<1> QED BY <1>4, <1>5, <1>6

LEMMA TimersKeep ==
  ASSUME IInv, Timers
  PROVE  IInv'
<1>1. CASE TermTimer
  BY <1>1, TermTimerKeeps DEF TermTimer
<1>2. CASE KillTimer
  BY <1>2, TermTimerKeeps, KillKeeps DEF KillTimer
<1>3. CASE RenewTimer \/ ReadyTimer
  BY <1>3, KillKeeps DEF RenewTimer, ReadyTimer
<1> QED BY <1>1, <1>2, <1>3, ForceTimerKeeps, RestartTimerKeeps, SilentKeeps, ResendKeeps DEF Timers

-----------------------------------------------------------------------------
(* The invariant *)

LEMMA InitOK == Init => IInv
<1> SUFFICES ASSUME Init PROVE IInv
  OBVIOUS
<1>1. BridgeTypeOK
  <2>1. NoTurn.id <= 0 /\ 0 \in Nat /\ NoTurn \in Turns \cup {NoTurn}
    BY NoStopTyped
  <2>2. TRUE \in BOOLEAN /\ FALSE \in BOOLEAN
    OBVIOUS
  <2> QED BY <2>1, <2>2 DEF BridgeTypeOK, Init, BridgeInit
<1>2. want \in Wants
  <2>1. Resume \in Wants
    BY DEF Resume, Wants
  <2>2. Fresh("none") \in Wants
    BY DEF Fresh, Wants
  <2> QED BY <2>1, <2>2 DEF Init
<1> USE DEF Init, BridgeInit
<1>3. resumeFails \in 0..1
  OBVIOUS
<1>4. TypeOK
  BY <1>1, <1>2, <1>3, NoStopTyped DEF TypeOK
<1>5. BridgeInv
  BY DEF BridgeInv, ShownTurnsEnd
<1>6. PhaseInv /\ TurnInv
  BY NoStopTyped DEF PhaseInv, TurnInv
<1> QED BY <1>4, <1>5, <1>6 DEF IInv

LEMMA StutterKeeps == IInv /\ UNCHANGED vars => IInv'
BY DEF IInv, TypeOK, BridgeTypeOK, BridgeInv, ShownTurnsEnd, PhaseInv, TurnInv, vars, bridge, session

LEMMA NextOK == IInv /\ [Next]_vars => IInv'
<1> SUFFICES ASSUME IInv, [Next]_vars PROVE IInv'
  OBVIOUS
<1>1. CASE Agent
  BY <1>1, ReadyKeeps, MismatchKeeps, ReadyRefusedKeeps, TurnEndsKeeps, ToolRefusedKeeps,
     ExitKeeps, TakenKeeps, InterruptedKeeps DEF Agent
<1>2. CASE Screens
  BY <1>2, SendKeeps, StopKeeps, NewKeeps DEF Screens
<1>3. CASE \E p \in Prompts : WriteEnds(p)
  BY <1>3, WrittenKeeps, WriteFailsKeeps DEF WriteEnds
<1> QED BY <1>1, <1>2, <1>3, TimersKeep, RestartForLoginKeeps, StutterKeeps DEF Next

(* The invariant holds in every state of every behaviour. *)
THEOREM InductiveInvariant == Spec => []IInv
BY InitOK, NextOK, PTL DEF Spec

(* Every turn the screens saw begin runs, has ended on them, or is one of those *)
(* the bridge let go (bridge.mjs endTurn, exited and takePrompt).               *)
THEOREM ShownTurnsDoEnd == Spec => []ShownTurnsEnd
<1>1. IInv => ShownTurnsEnd
  BY DEF IInv, BridgeInv
<1> QED BY <1>1, InductiveInvariant, PTL

(* The supervisor and the bridge agree on who acts next: a session is up or     *)
(* starts only with a child, nothing waits for a child while a restart is due,  *)
(* and, as long as no turn was let go, a stop and a renewal have a turn or a    *)
(* child whose end they wait for (session.mjs onExit, onTurnEnd and             *)
(* newConversation).                                                            *)
THEOREM SupervisorIsInStep == Spec => []InStep
<1>1. ASSUME IInv PROVE InStep
  BY <1>1, NoStopTyped DEF IInv, InStep, PhaseInv, TurnInv
<1> QED BY <1>1, InductiveInvariant, PTL

=============================================================================
