------------------------------- MODULE Pause --------------------------------
(* The pause sentinels of a builder: server/control/pause.mjs, the `pause`  *)
(* and `resume` actions of server/control/handlers.mjs, and the command     *)
(* line, which reads and writes the same files from a process of its own.   *)
(* A file is there or not and has a kind; its `by`, `at` and `reason` and   *)
(* the mirrors by session id are left out.                                  *)
(*                                                                          *)
(* A file call is one step.  The command line reads in one and writes in    *)
(* another.  The handlers of the server do not interleave with each other,  *)
(* but the command line comes between their reads and their writes too: the *)
(* call a handler has decided on is in `call` until it is made.  RunPause   *)
(* and RunResume need no such step: nobody but the server writes a kind     *)
(* other than `operator`, so they do what they would at their last call.    *)
EXTENDS Naturals

CONSTANTS Sessions,  \* session names
          All        \* the builder-wide scope

ASSUME AllIsReserved == All \notin Sessions

Scopes == Sessions \cup {All}

VARIABLES
  live,      \* the sessions that run
  listed,    \* those the collector listed last
  seen,      \* its inventory, state.all(): what the server believes to run
  sentinel,  \* the kind of the file of each scope, or None
  cli,       \* a command that has read and not yet written
  call,      \* the file call the server has decided on and not yet made
  holds      \* history: the scopes an operator has paused and nobody resumed, but
             \* for the pauses that were written under a call of the server's on
             \* the same file, or that a tick forgot because it failed

sessionVars == <<live, listed, seen>>
pauseVars   == <<sessionVars, sentinel, cli, call, holds>>

None  == "none"
Kinds == {"operator", "quota", "budget"}
Rank  == [none |-> 0, operator |-> 1, quota |-> 2, budget |-> 3]

NoCommand == [op |-> "idle"]
Commands  == [op : {"pause", "resume"}, scope : Scopes]

NoCall == [op |-> "idle"]
Calls  == [op : {"budget", "quota", "unlink", "restore", "override"}, scope : Scopes]

PauseTypeOK ==
  /\ live \subseteq Sessions /\ listed \subseteq Sessions /\ seen \subseteq Sessions
  /\ sentinel \in [Scopes -> Kinds \cup {None}]
  /\ cli \in Commands \cup {NoCommand}
  /\ call \in Calls \cup {NoCall}
  /\ holds \subseteq Scopes

PauseInit ==
  /\ live \in SUBSET Sessions
  /\ listed = {}
  /\ seen = {}
  /\ sentinel = [c \in Scopes |-> None]
  /\ cli = NoCommand
  /\ call = NoCall
  /\ holds = {}

-----------------------------------------------------------------------------
\* pause(): a sentinel of a higher kind is kept, and then nothing is written.
Keeps(there, kind) == Rank[there] > Rank[kind]

\* The server is between its read and its write of the file of `c`.
Between(c) == call # NoCall /\ call.scope = c

\* pause() of kind operator on `c`, once it is decided that it writes.
WritePause(c) ==
  /\ sentinel' = [sentinel EXCEPT ![c] = "operator"]
  /\ holds' = IF Between(c) THEN holds ELSE holds \cup {c}

\* The unlink of resume(): the file goes, whatever its kind is by then.
Unlink(c) ==
  /\ sentinel' = [sentinel EXCEPT ![c] = None]
  /\ holds' = holds \ {c}

\* pause() of kind operator by the server.
PauseNow(c) ==
  IF Keeps(sentinel[c], "operator") THEN UNCHANGED <<sentinel, holds>> ELSE WritePause(c)

\* The `pause` action.
RunPause(c) == PauseNow(c) /\ UNCHANGED <<sessionVars, cli, call>>

\* The `resume` action: an operator's pause goes for any caller, one of the quota
\* guard for a remote user with `override`; a budget pause stays here.
RunResume(c) ==
  /\ sentinel[c] \in {"operator", "quota"}
  /\ Unlink(c)
  /\ UNCHANGED <<sessionVars, cli, call>>

\* `laneboard pause` and `laneboard resume`: readJson in one step, which is the
\* only one when there is nothing to write or to remove ...
CliRead(op, c) ==
  /\ cli = NoCommand
  /\ \/ op = "pause"  /\ ~Keeps(sentinel[c], "operator")
     \/ op = "resume" /\ sentinel[c] = "operator"
  /\ cli' = [op |-> op, scope |-> c]
  /\ UNCHANGED <<sessionVars, sentinel, call, holds>>

\* ... writeAtomic or unlinkSync in another.
CliWrite ==
  /\ cli # NoCommand
  /\ cli' = NoCommand
  /\ IF cli.op = "pause" THEN WritePause(cli.scope) ELSE Unlink(cli.scope)
  /\ UNCHANGED <<sessionVars, call>>

-----------------------------------------------------------------------------
\* A session is launched, or ends.
Begins(s) == live' = live \cup {s}
Ends(s)   == live' = live \ {s}

\* state.tick: the collector lists the panes ...
List ==
  /\ listed' = live
  /\ UNCHANGED <<live, seen, sentinel, cli, call, holds>>

\* ... and has its inventory some awaits later.
Land ==
  /\ seen' = listed
  /\ UNCHANGED <<live, listed, sentinel, cli, call, holds>>

=============================================================================
