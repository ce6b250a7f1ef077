--------------------------- MODULE ApprovalsProofs ---------------------------
(* Proofs about Approvals, for any requests, sessions and limits.             *)
(*                                                                            *)
(* What is said of an answer and a record holds because of where the request  *)
(* is: ReqOK says, for each stage of its handler, what its approval, its      *)
(* connection and its agent's answer may be.  Counted is about the counter.   *)
EXTENDS Approvals, FiniteSetTheorems, TLAPS

Reading == {h \in Hooks : handler[h] = "reading"}

Typed ==
  /\ handler \in [Hooks -> {"none", "reading", "held", "ended"}]
  /\ status \in [Hooks -> {"none", "pending"} \cup Final]
  /\ sock \in [Hooks -> {"none", "open", "left", "closed"}]
  /\ got \in [Hooks -> {"none"} \cup Answers]

(* One request. *)
ReqOK(h) ==
  /\ handler[h] = "none" => status[h] = "none" /\ sock[h] = "none" /\ got[h] = "none"
  /\ handler[h] = "reading" => status[h] = "none" /\ sock[h] # "none"
  /\ handler[h] = "held" => status[h] = "pending" /\ sock[h] \in {"open", "left"}
  /\ handler[h] = "ended" => status[h] # "pending" /\ sock[h] = "closed" /\ got[h] # "none"
  /\ sock[h] = "open" => got[h] = "none"
  /\ sock[h] = "left" => got[h] = "dialog"
  /\ sock[h] = "closed" /\ handler[h] = "reading" => got[h] = "dialog"
  /\ got[h] = "allow" => status[h] = "allowed"
  /\ got[h] = "deny" => status[h] \in {"denied", "timeout"}
  /\ status[h] = "allowed" => got[h] # "deny"
  /\ status[h] = "denied" => got[h] # "allow"

AllOK == Typed /\ \A h \in Hooks : ReqOK(h)

(* The counter counts, and stays below its limit. *)
Counted ==
  /\ IsFiniteSet(Reading)
  /\ inFlight = Cardinality(Reading)
  /\ inFlight <= MaxInFlight

IInv == AllOK /\ Counted

-----------------------------------------------------------------------------
(* Requests *)

(* The end of handlers without a decision leaves their records as they are. *)
LEMMA ReplyKeeps ==
  ASSUME AllOK, NEW H \in SUBSET Hooks,
         \A h \in H : handler[h] = "reading",
         Reply(H, "dialog"), UNCHANGED status
  PROVE  AllOK' /\ Reading' = Reading \ H
<1> USE DEF AllOK, Typed
<1>1. Typed'
  BY DEF Reply, Answers
<1>2. ASSUME NEW h \in Hooks PROVE ReqOK(h)'
  BY <1>2 DEF Reply, ReqOK
<1>3. Reading' = Reading \ H
  BY DEF Reply, Reading
<1> QED BY <1>1, <1>2, <1>3

(* Closing approvals whose answer goes with their new state. *)
LEMMA CloseKeeps ==
  ASSUME AllOK, NEW H \in SUBSET Hooks,
         \A h \in H : handler[h] \in {"reading", "held"},
         NEW st \in Final, NEW answer \in Answers,
         answer = "allow" => st = "allowed",
         answer = "deny" => st \in {"denied", "timeout"},
         Close(H, st, answer)
  PROVE  AllOK' /\ Reading' = Reading \ H
<1> USE DEF AllOK, Typed
<1>1. Typed'
  BY DEF Close, Reply, Answers
<1>2. ASSUME NEW h \in Hooks PROVE ReqOK(h)'
  <2>1. CASE h \notin H
    BY <2>1 DEF Close, Reply, ReqOK
  <2>2. CASE h \in H
    BY <2>2 DEF Close, Reply, ReqOK, Answers, Final
  <2> QED BY <2>1, <2>2
<1>3. Reading' = Reading \ H
  BY DEF Close, Reply, Reading
<1> QED BY <1>1, <1>2, <1>3

-----------------------------------------------------------------------------
(* The counter *)

(* A handler that is not reading ends, and nothing is read more or less. *)
LEMMA SameCount ==
  ASSUME Counted, Reading' = Reading, UNCHANGED inFlight
  PROVE  Counted'
BY DEF Counted

(* A body has been read. *)
LEMMA OneLess ==
  ASSUME Counted, NEW h \in Reading, Reading' = Reading \ {h}, inFlight' = inFlight - 1
  PROVE  Counted'
<1>1. IsFiniteSet(Reading') /\ inFlight' = Cardinality(Reading')
  BY FS_RemoveElement DEF Counted
<1>2. inFlight \in Nat
  BY FS_CardinalityType DEF Counted
<1>3. inFlight' <= MaxInFlight
  BY <1>2, LimitsTyped DEF Counted
<1> QED BY <1>1, <1>3 DEF Counted

-----------------------------------------------------------------------------
(* The steps *)

LEMMA ArriveKeeps ==
  ASSUME IInv, NEW h \in Hooks, Arrive(h)
  PROVE  IInv'
<1> USE DEF IInv, AllOK, Typed
<1>1. handler[h] = "none" /\ UNCHANGED status /\ h \notin Reading
  BY DEF Arrive, Reading
<1>2. CASE Busy
  <2>1. /\ handler' = [handler EXCEPT ![h] = "ended"]
        /\ sock' = [sock EXCEPT ![h] = "closed"]
        /\ got' = [got EXCEPT ![h] = "dialog"]
        /\ UNCHANGED inFlight
    BY <1>2 DEF Arrive
  <2>2. Typed'
    BY <1>1, <2>1 DEF Answers
  <2>3. ASSUME NEW g \in Hooks PROVE ReqOK(g)'
    BY <1>1, <2>1, <2>3 DEF ReqOK
  <2>4. Reading' = Reading
    BY <1>1, <2>1 DEF Reading
  <2> QED BY <2>1, <2>2, <2>3, <2>4, SameCount
<1>3. CASE ~Busy
  <2>1. /\ handler' = [handler EXCEPT ![h] = "reading"]
        /\ sock' = [sock EXCEPT ![h] = "open"]
        /\ inFlight' = inFlight + 1
        /\ UNCHANGED got
    BY <1>3 DEF Arrive
  <2>2. Typed'
    BY <1>1, <2>1
  <2>3. ASSUME NEW g \in Hooks PROVE ReqOK(g)'
    BY <1>1, <2>1, <2>3 DEF ReqOK
  <2>4. Reading' = Reading \cup {h}
    BY <1>1, <2>1 DEF Reading
  <2>5. IsFiniteSet(Reading') /\ inFlight' = Cardinality(Reading')
    BY <1>1, <2>1, <2>4, FS_AddElement DEF Counted
  <2>6. inFlight \in Nat
    BY FS_CardinalityType DEF Counted
  <2>7. inFlight' <= MaxInFlight
    BY <1>3, <2>1, <2>6, LimitsTyped DEF Busy
  <2> QED BY <2>2, <2>3, <2>5, <2>7 DEF Counted
<1> QED BY <1>2, <1>3

LEMMA IntakeKeeps ==
  ASSUME IInv, NEW h \in Hooks, Intake(h)
  PROVE  IInv'
<1> USE DEF IInv
<1>1. h \in Reading /\ inFlight' = inFlight - 1
  BY DEF Intake, Refuse, BodyRead, Reading
<1>2. CASE Reply({h}, "dialog") /\ UNCHANGED status
  BY <1>1, <1>2, ReplyKeeps, OneLess DEF Reading
<1>3. CASE Opened(h)
  <2>1. CASE sock[h] = "closed"
    <3>1. Close({h}, "abandoned", "dialog")
      BY <1>3, <2>1 DEF Opened
    <3>2. AllOK' /\ Reading' = Reading \ {h}
      BY <1>1, <3>1, CloseKeeps DEF Reading, Final, Answers
    <3> QED BY <1>1, <3>2, OneLess
  <2>2. CASE sock[h] # "closed"
    <3>1. /\ status' = [status EXCEPT ![h] = "pending"]
          /\ handler' = [handler EXCEPT ![h] = "held"]
          /\ UNCHANGED <<sock, got>>
      BY <1>3, <2>2 DEF Opened
    <3>2. AllOK'
      BY <1>1, <2>2, <3>1 DEF AllOK, Typed, ReqOK, Reading
    <3>3. Reading' = Reading \ {h}
      BY <1>1, <3>1 DEF AllOK, Typed, Reading
    <3> QED BY <1>1, <3>2, <3>3, OneLess
  <2> QED BY <2>1, <2>2
<1> QED BY <1>2, <1>3 DEF Intake, Refuse, BodyRead

(* Whoever closes held approvals. *)
LEMMA HeldClosed ==
  ASSUME IInv, NEW H \in SUBSET Hooks, \A h \in H : handler[h] = "held",
         NEW st \in Final, NEW answer \in Answers,
         answer = "allow" => st = "allowed",
         answer = "deny" => st \in {"denied", "timeout"},
         Close(H, st, answer), UNCHANGED inFlight
  PROVE  IInv'
<1>1. AllOK' /\ Reading' = Reading \ H
  BY CloseKeeps DEF IInv
<1>2. Reading' = Reading
  BY <1>1 DEF Reading
<1> QED BY <1>1, <1>2, SameCount DEF IInv

LEMMA PendingIsHeld ==
  ASSUME AllOK, NEW h \in Hooks
  PROVE  status[h] = "pending" <=> handler[h] = "held"
BY DEF AllOK, Typed, ReqOK

LEMMA DecideKeeps ==
  ASSUME IInv, NEW h \in Hooks, NEW st \in {"allowed", "denied", "released"}, Decide(h, st)
  PROVE  IInv'
<1>1. handler[h] = "held" /\ UNCHANGED inFlight
  BY PendingIsHeld DEF Decide, IInv
<1>2. CASE st = "allowed" /\ Close({h}, st, "allow")
  BY <1>1, <1>2, HeldClosed DEF Final, Answers
<1>3. CASE st = "denied" /\ Close({h}, st, "deny")
  BY <1>1, <1>3, HeldClosed DEF Final, Answers
<1>4. CASE st = "released" /\ Close({h}, st, "dialog")
  BY <1>1, <1>4, HeldClosed DEF Final, Answers
<1> QED BY <1>2, <1>3, <1>4 DEF Decide

LEMMA TimeoutKeeps ==
  ASSUME IInv, NEW h \in Hooks, Timeout(h)
  PROVE  IInv'
<1>1. /\ handler[h] = "held" /\ UNCHANGED inFlight
      /\ Close({h}, "timeout", OnTimeout[h])
  BY PendingIsHeld DEF Timeout, IInv
<1>2. OnTimeout[h] \in {"dialog", "deny"}
  BY TimeoutsTyped
<1> QED BY <1>1, <1>2, HeldClosed DEF Final, Answers

LEMMA SupersedeKeeps ==
  ASSUME IInv, NEW sid \in Sids, Supersede(sid)
  PROVE  IInv'
<1> DEFINE H == {h \in Pending : SidOf[h] = sid /\ h \in Bound}
<1>1. H \in SUBSET Hooks /\ \A h \in H : handler[h] = "held"
  BY PendingIsHeld DEF Pending, IInv
<1>2. Close(H, "superseded", "dialog") /\ UNCHANGED inFlight
  BY DEF Supersede
<1> HIDE DEF H
<1> QED BY <1>1, <1>2, HeldClosed DEF Final, Answers

LEMMA AgentKeeps ==
  ASSUME IInv, NEW h \in Hooks, Leave(h) \/ SeeClose(h)
  PROVE  IInv'
<1> USE DEF IInv
<1>1. CASE Leave(h)
  <2>1. AllOK'
    BY <1>1 DEF Leave, AllOK, Typed, ReqOK, Answers
  <2>2. Reading' = Reading /\ UNCHANGED inFlight
    BY <1>1 DEF Leave, Reading
  <2> QED BY <2>1, <2>2, SameCount
<1>2. CASE SeeClose(h) /\ handler[h] = "held"
  BY <1>2, HeldClosed DEF SeeClose, Final, Answers
<1>3. CASE SeeClose(h) /\ handler[h] # "held"
  <2>1. AllOK'
    BY <1>3 DEF SeeClose, AllOK, Typed, ReqOK
  <2>2. Reading' = Reading /\ UNCHANGED inFlight
    BY <1>3 DEF SeeClose, Reading
  <2> QED BY <2>1, <2>2, SameCount
<1> QED BY <1>1, <1>2, <1>3

LEMMA RestartKeeps ==
  ASSUME IInv, Restart
  PROVE  IInv'
<1> DEFINE lost == {h \in Hooks : handler[h] \in {"reading", "held"}}
<1>1. /\ status' = [h \in Hooks |-> IF status[h] = "pending" THEN "lost" ELSE status[h]]
      /\ inFlight' = 0
      /\ Reply(lost, "dialog")
  BY DEF Restart
<1> USE DEF IInv, AllOK, Typed
<1>2. Typed'
  BY <1>1 DEF Reply, Answers, Final
<1>3. ASSUME NEW h \in Hooks PROVE ReqOK(h)'
  <2>1. CASE handler[h] \in {"reading", "held"}
    BY <1>1, <2>1 DEF Reply, ReqOK
  <2>2. CASE handler[h] \notin {"reading", "held"}
    BY <1>1, <2>2 DEF Reply, ReqOK
  <2> QED BY <2>1, <2>2
<1>4. Reading' = {}
  BY <1>1 DEF Reply, Reading
<1>5. Counted'
  BY <1>1, <1>4, FS_EmptySet, LimitsTyped DEF Counted
<1> QED BY <1>2, <1>3, <1>5

-----------------------------------------------------------------------------
(* The invariant *)

LEMMA InitOK ==
  ASSUME Init
  PROVE  IInv
<1>1. AllOK
  BY DEF Init, AllOK, Typed, ReqOK
<1>2. Reading = {}
  BY DEF Init, Reading
<1>3. Counted
  BY <1>2, FS_EmptySet, LimitsTyped DEF Init, Counted
<1> QED BY <1>1, <1>3 DEF IInv

LEMMA NextOK ==
  ASSUME IInv, [Next]_vars
  PROVE  IInv'
<1>1. CASE UNCHANGED vars
  BY <1>1 DEF vars, IInv, AllOK, Typed, ReqOK, Counted, Reading
<1> QED
  BY <1>1, ArriveKeeps, AgentKeeps, IntakeKeeps, DecideKeeps, TimeoutKeeps, SupersedeKeeps, RestartKeeps
  DEF Next, Agent, Decision

(* The invariant of the approvals is one. *)
THEOREM InductiveInvariant == Spec => []IInv
BY InitOK, NextOK, PTL DEF Spec

(* TypeOK: the types of the requests, and a counter within its limit           *)
(* (routes/approvals.mjs:221).                                                 *)
THEOREM TypeCorrect == Spec => []TypeOK
<1>1. IInv => TypeOK
  <2> SUFFICES ASSUME IInv PROVE TypeOK
    OBVIOUS
  <2>1. inFlight \in 0..MaxInFlight
    BY FS_CardinalityType, LimitsTyped DEF IInv, Counted
  <2> QED BY <2>1 DEF IInv, AllOK, Typed, TypeOK
<1> QED BY <1>1, InductiveInvariant, PTL

(* AnswerIsDecision: the agent and the record tell one story, whatever order   *)
(* decisions, timeouts, disconnects and restarts come in (approvals.mjs:163).  *)
THEOREM AnswersAreDecisions == Spec => []AnswerIsDecision
<1>1. IInv => AnswerIsDecision
  BY DEF IInv, AllOK, Typed, ReqOK, AnswerIsDecision, Final, Answers
<1> QED BY <1>1, InductiveInvariant, PTL

(* NoLeak: a pending approval has somebody who waits, and the counter is that  *)
(* of the bodies being read (routes/approvals.mjs:258, :278).                  *)
THEOREM NothingLeaks == Spec => []NoLeak
<1>1. IInv => NoLeak
  BY PendingIsHeld DEF IInv, AllOK, ReqOK, Counted, Reading, Pending, NoLeak
<1> QED BY <1>1, InductiveInvariant, PTL

=============================================================================
