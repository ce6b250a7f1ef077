----------------------------- MODULE Approvals ------------------------------
(* Held permission requests: the queue of server/control/approvals.mjs and  *)
(* the intake route of server/routes/approvals.mjs.  A hook of an agent     *)
(* posts its request and waits on the connection; users decide, a timer     *)
(* runs out, the agent goes on without an answer, and the process restarts. *)
(* Every way out but a decision leaves the agent with its own dialog.       *)
(*                                                                          *)
(* Closing an approval and the reply of the handler that waits for it are   *)
(* one step: only microtasks lie between them.  What a request asks, who    *)
(* may decide, the preview and the event log are left out, and so is the    *)
(* route's own timer, which is due 5 s after the queue's.                   *)
EXTENDS Naturals, FiniteSets

CONSTANTS Hooks,        \* permission requests
          Sids,         \* sessions of agents
          SidOf,        \* the session of each request
          OnTimeout,    \* `approvals.onTimeout` as each request found it
          Bound,        \* the requests that came with the session's transcript path
          MaxPending,   \* approvals open at once
          MaxInFlight   \* requests being read at once

ASSUME HooksHaveSessions == SidOf \in [Hooks -> Sids]
ASSUME TimeoutsTyped     == OnTimeout \in [Hooks -> {"dialog", "deny"}]
ASSUME BoundAreHooks     == Bound \subseteq Hooks
ASSUME LimitsTyped       == MaxPending \in Nat /\ MaxInFlight \in Nat

VARIABLES
  handler,   \* the route's handler of each request
  inFlight,  \* the route's counter of requests being read
  status,    \* the approval of each request
  sock,      \* the connection: open, left by the agent, closed for the server
  got        \* what the agent goes on with

vars == <<handler, inFlight, status, sock, got>>

Final   == {"allowed", "denied", "released", "timeout", "abandoned", "superseded", "lost"}
Answers == {"allow", "deny", "dialog"}

TypeOK ==
  /\ handler \in [Hooks -> {"none", "reading", "held", "ended"}]
  /\ inFlight \in 0..MaxInFlight
  /\ status \in [Hooks -> {"none", "pending"} \cup Final]
  /\ sock \in [Hooks -> {"none", "open", "left", "closed"}]
  /\ got \in [Hooks -> {"none"} \cup Answers]

Init ==
  /\ handler = [h \in Hooks |-> "none"]
  /\ inFlight = 0
  /\ status = [h \in Hooks |-> "none"]
  /\ sock = [h \in Hooks |-> "none"]
  /\ got = [h \in Hooks |-> "none"]

Pending == {h \in Hooks : status[h] = "pending"}

-----------------------------------------------------------------------------
\* The handlers of H end; each connection that is still open carries its
\* answer, and the others carry none.
Reply(H, answer) ==
  /\ handler' = [h \in Hooks |-> IF h \in H THEN "ended" ELSE handler[h]]
  /\ got' = [h \in Hooks |-> IF h \in H /\ sock[h] = "open" THEN answer ELSE got[h]]
  /\ sock' = [h \in Hooks |-> IF h \in H THEN "closed" ELSE sock[h]]

\* close(): the approvals of H leave the queue for good.
Close(H, st, answer) ==
  /\ status' = [h \in Hooks |-> IF h \in H THEN st ELSE status[h]]
  /\ Reply(H, answer)

\* One request too many is let in.
Busy_OneMore == inFlight > MaxInFlight

\* The route reads no more requests.
Busy == inFlight >= MaxInFlight

\* A hook posts its request: it is refused, or its body is read.
Arrive(h) ==
  /\ handler[h] = "none"
  /\ \/ /\ Busy
        /\ handler' = [handler EXCEPT ![h] = "ended"]
        /\ sock' = [sock EXCEPT ![h] = "closed"]
        /\ got' = [got EXCEPT ![h] = "dialog"]
        /\ UNCHANGED inFlight
     \/ /\ ~Busy
        /\ handler' = [handler EXCEPT ![h] = "reading"]
        /\ sock' = [sock EXCEPT ![h] = "open"]
        /\ inFlight' = inFlight + 1
        /\ UNCHANGED got
  /\ UNCHANGED status

\* The body cannot be read in time, is too large or is no JSON, or the queue
\* does not take the request.
Refuse(h) ==
  /\ handler[h] = "reading"
  /\ inFlight' = inFlight - 1
  /\ Reply({h}, "dialog")
  /\ UNCHANGED status

\* The connection is not looked at again.
Opened_NoRecheck(h) ==
  /\ status' = [status EXCEPT ![h] = "pending"]
  /\ handler' = [handler EXCEPT ![h] = "held"]
  /\ UNCHANGED <<sock, got>>

\* open(), and the route's look at the connection: it may have closed while
\* the body was read, before anybody listened for that.
Opened(h) ==
  IF sock[h] = "closed"
  THEN Close({h}, "abandoned", "dialog")
  ELSE /\ status' = [status EXCEPT ![h] = "pending"]
       /\ handler' = [handler EXCEPT ![h] = "held"]
       /\ UNCHANGED <<sock, got>>

\* The body has been read.
BodyRead(h) ==
  /\ handler[h] = "reading"
  /\ inFlight' = inFlight - 1
  /\ IF Cardinality(Pending) >= MaxPending
     THEN Reply({h}, "dialog") /\ UNCHANGED status
     ELSE Opened(h)

\* An approval that has been closed is decided again.
Decide_Closed(h, st) ==
  /\ status[h] \in Final
  /\ status' = [status EXCEPT ![h] = st]
  /\ UNCHANGED <<handler, inFlight, sock, got>>

\* decide(): approve, deny or release, by any of the users who see it.
Decide(h, st) ==
  /\ status[h] = "pending"
  /\ \/ st = "allowed"  /\ Close({h}, st, "allow")
     \/ st = "denied"   /\ Close({h}, st, "deny")
     \/ st = "released" /\ Close({h}, st, "dialog")
  /\ UNCHANGED inFlight

\* The timer runs only when a timeout denies.
Timeout_DenyOnly(h) ==
  /\ status[h] = "pending"
  /\ OnTimeout[h] = "deny"
  /\ Close({h}, "timeout", "deny")
  /\ UNCHANGED inFlight

\* The hold runs out: the agent has its dialog, or the request is denied.
Timeout(h) ==
  /\ status[h] = "pending"
  /\ Close({h}, "timeout", OnTimeout[h])
  /\ UNCHANGED inFlight

\* The session goes on (PostToolUse, Stop, SessionEnd, UserPromptSubmit): its
\* requests were answered elsewhere.  Only those of its transcript are closed.
Supersede(sid) ==
  /\ Close({h \in Pending : SidOf[h] = sid /\ h \in Bound}, "superseded", "dialog")
  /\ UNCHANGED inFlight

\* The agent goes on by itself: the hook is cancelled or answered in the pane.
Leave(h) ==
  /\ sock[h] = "open"
  /\ sock' = [sock EXCEPT ![h] = "left"]
  /\ got' = [got EXCEPT ![h] = "dialog"]
  /\ UNCHANGED <<handler, inFlight, status>>

\* The server sees that the connection is closed: a held request is abandoned.
SeeClose(h) ==
  /\ sock[h] = "left"
  /\ IF handler[h] = "held"
     THEN Close({h}, "abandoned", "dialog")
     ELSE /\ sock' = [sock EXCEPT ![h] = "closed"]
          /\ UNCHANGED <<handler, status, got>>
  /\ UNCHANGED inFlight

\* The process ends and starts again: its memory and its connections are gone.
Restart ==
  LET lost == {h \in Hooks : handler[h] \in {"reading", "held"}}
  IN  /\ status' = [h \in Hooks |-> IF status[h] = "pending" THEN "lost" ELSE status[h]]
      /\ inFlight' = 0
      /\ Reply(lost, "dialog")

Decision == \E h \in Hooks, st \in {"allowed", "denied", "released"} : Decide(h, st)
Agent == \E h \in Hooks : Arrive(h) \/ Leave(h) \/ SeeClose(h)
Intake(h) == Refuse(h) \/ BodyRead(h)

Next ==
  \/ Agent
  \/ \E h \in Hooks : Intake(h)
  \/ Decision
  \/ \E h \in Hooks : Timeout(h)
  \/ \E sid \in Sids : Supersede(sid)
  \/ Restart

Spec == Init /\ [][Next]_vars

\* The read of a body ends, by its timer if need be, and the timer of a held
\* request fires.  Nobody has to decide.
FairSpec ==
  /\ Spec
  /\ \A h \in Hooks : WF_vars(Intake(h)) /\ WF_vars(Timeout(h))

-----------------------------------------------------------------------------
\* The agent and the record tell one story: an agent runs the tool because it
\* was told so only if the approval says allowed, and an approval that says
\* allowed or denied was answered so unless the agent had gone on by itself;
\* whatever else happens, the agent has its dialog (approvals.mjs:163).
AnswerIsDecision ==
  \A h \in Hooks :
    /\ got[h] = "allow" => status[h] = "allowed"
    /\ got[h] = "deny"  => status[h] \in {"denied", "timeout"}
    /\ status[h] = "allowed" => got[h] \in {"allow", "dialog"}
    /\ status[h] = "denied"  => got[h] \in {"deny", "dialog"}
    /\ status[h] \in Final => got[h] # "none"

\* Nothing is held for nobody: a pending approval has a handler that waits and
\* a connection the server has not seen close (routes/approvals.mjs:278); and
\* the counter is the number of bodies being read (routes/approvals.mjs:258).
NoLeak ==
  /\ \A h \in Pending : handler[h] = "held" /\ sock[h] # "closed"
  /\ inFlight = Cardinality({h \in Hooks : handler[h] = "reading"})

\* Every request ends, whether anybody decides or not.
EveryHoldEnds ==
  \A h \in Hooks : handler[h] \in {"reading", "held"} ~> handler[h] = "ended"

=============================================================================
