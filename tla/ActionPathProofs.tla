-------------------------- MODULE ActionPathProofs --------------------------
(***************************************************************************)
(* Proofs about ActionPath, for every set of ids and slots and every skew, *)
(* ttl and preload that satisfy WindowsCover.                              *)
(***************************************************************************)
EXTENDS ActionPath, TLAPS, FiniteSetTheorems

USE DEF hubVars, netVars, builderVars

LEMMA Constants ==
  /\ Skew \in Nat /\ Ttl \in Nat /\ Preload \in Nat /\ Drift \in Nat
  /\ MaxTime \in Nat /\ BudgetMax \in Nat /\ BootMax \in Nat
  BY WindowsTyped

LEMMA EntryType ==
  ASSUME log \in Seq(Entries), NEW i \in 1..Len(log)
  PROVE  /\ log[i] \in Entries
         /\ log[i].id \in Ids /\ log[i].ts \in Nat /\ log[i].phase \in Phases
<1>1. log[i] \in Entries OBVIOUS
<1> QED BY <1>1 DEF Entries

\* What appending one entry does to the log.
LEMMA RecordFacts ==
  ASSUME log \in Seq(Entries), now \in Nat, NEW id \in Ids, NEW phase \in Phases,
         Record(id, phase)
  PROVE  /\ log' \in Seq(Entries)
         /\ Len(log') = Len(log) + 1
         /\ \A i \in 1..Len(log) : log'[i] = log[i]
         /\ log'[Len(log) + 1] = [id |-> id, ts |-> now, phase |-> phase]
<1>1. [id |-> id, ts |-> now, phase |-> phase] \in Entries BY DEF Entries
<1> QED BY <1>1 DEF Record, Line

\* The log gets at most a few entries more, all of one id and of this moment.
Extends(id) ==
  /\ log' \in Seq(Entries)
  /\ Len(log) <= Len(log')
  /\ \A i \in 1..Len(log) : log'[i] = log[i]
  /\ \A i \in 1..Len(log') : i \in 1..Len(log) \/ (log'[i].id = id /\ log'[i].ts = now)

LEMMA RecordExtends ==
  ASSUME log \in Seq(Entries), now \in Nat, NEW id \in Ids, NEW phase \in Phases,
         Record(id, phase) \/ UNCHANGED log
  PROVE  Extends(id)
<1>1. CASE UNCHANGED log
  <2>1. /\ log' \in Seq(Entries)
        /\ Len(log) <= Len(log')
        /\ \A i \in 1..Len(log) : log'[i] = log[i]
    BY <1>1
  <2>2. \A i \in 1..Len(log') : i \in 1..Len(log) BY <1>1
  <2> QED BY <2>1, <2>2 DEF Extends
<1>2. CASE Record(id, phase)
  <2>1. /\ log' \in Seq(Entries)
        /\ Len(log') = Len(log) + 1
        /\ \A i \in 1..Len(log) : log'[i] = log[i]
        /\ log'[Len(log) + 1] = [id |-> id, ts |-> now, phase |-> phase]
    BY <1>2, RecordFacts
  <2>2. Len(log) \in Nat OBVIOUS
  <2>3. Len(log) <= Len(log') BY <2>1, <2>2
  <2>4. ASSUME NEW i \in 1..Len(log')
        PROVE  i \in 1..Len(log) \/ (log'[i].id = id /\ log'[i].ts = now)
    <3>1. i \in 1..Len(log) \/ i = Len(log) + 1 BY <2>1, <2>2
    <3> QED BY <2>1, <3>1
  <2> QED BY <2>1, <2>3, <2>4 DEF Extends
<1> QED BY <1>1, <1>2

\* A start that is on disk although its append threw, and the refusal.
LEMMA BothFacts ==
  ASSUME log \in Seq(Entries), now \in Nat, NEW id \in Ids,
         log' = log \o <<Line(id, "start"), Line(id, "refused")>>
  PROVE  /\ Extends(id)
         /\ Len(log') = Len(log) + 2
         /\ \A i \in 1..Len(log) : log'[i] = log[i]
         /\ log'[Len(log) + 1] = [id |-> id, ts |-> now, phase |-> "start"]
         /\ log'[Len(log) + 2] = [id |-> id, ts |-> now, phase |-> "refused"]
<1> DEFINE two == <<Line(id, "start"), Line(id, "refused")>>
<1>1. Line(id, "start") \in Entries /\ Line(id, "refused") \in Entries
  BY DEF Line, Entries, Phases
<1>2. two \in Seq(Entries) /\ Len(two) = 2 BY <1>1
<1>3. two[1] = Line(id, "start") /\ two[2] = Line(id, "refused") OBVIOUS
<1> HIDE DEF two
<1>4. log' = log \o two BY DEF two
<1>5. /\ log' \in Seq(Entries) /\ Len(log) \in Nat /\ Len(log') = Len(log) + 2
      /\ \A i \in 1..Len(log) : log'[i] = log[i]
      /\ log'[Len(log) + 1] = two[1] /\ log'[Len(log) + 2] = two[2]
  BY <1>2, <1>4
<1>6. ASSUME NEW i \in 1..Len(log')
      PROVE  i \in 1..Len(log) \/ (log'[i].id = id /\ log'[i].ts = now)
  <2>1. i \in 1..Len(log) \/ i = Len(log) + 1 \/ i = Len(log) + 2 BY <1>5
  <2> QED BY <1>3, <1>5, <2>1 DEF Line
<1>7. Extends(id)
  <2>1. Len(log) <= Len(log') BY <1>5
  <2> QED BY <1>5, <1>6, <2>1 DEF Extends
<1> QED BY <1>3, <1>5, <1>7 DEF Line

LEMMA SlotType ==
  ASSUME slot \in [Slots -> SlotStates], NEW s \in Slots
  PROVE  \/ slot[s] = Free
         \/ /\ slot[s].st \in {"checking", "started", "ranOk", "ranFailed"}
            /\ slot[s].id \in Ids
            /\ slot[s] = [st |-> slot[s].st, id |-> slot[s].id]
            /\ slot[s] # Free
<1>1. slot[s] \in SlotStates OBVIOUS
<1> QED BY <1>1 DEF SlotStates, Free

LEMMA BusySlot ==
  ASSUME slot \in [Slots -> SlotStates], NEW s \in Slots,
         slot[s].st \in {"checking", "started", "ranOk", "ranFailed"}
  PROVE  slot[s].id \in Ids /\ slot[s] # Free
  BY SlotType DEF Free

LEMMA BusyType ==
  ASSUME NEW st \in {"checking", "started", "ranOk", "ranFailed"}, NEW id \in Ids
  PROVE  /\ Busy(st, id) \in SlotStates
         /\ Busy(st, id) # Free
         /\ Busy(st, id).st = st /\ Busy(st, id).id = id
  BY DEF SlotStates, Busy, Free

\* A slot that is freed, taken or moved on keeps the type of `slot`.
LEMMA SlotUpdate ==
  ASSUME slot \in [Slots -> SlotStates], NEW s \in Slots, NEW v \in SlotStates
  PROVE  [slot EXCEPT ![s] = v] \in [Slots -> SlotStates]
  OBVIOUS

\* What verifyEnvelope's `add` keeps covers the rest of the envelope's window.
LEMMA RetainCovers ==
  ASSUME NEW ts \in Nat, NEW t \in Nat
  PROVE  /\ RetainFrom(ts, t) \in Int
         /\ RetainFrom(ts, t) <= t + Ttl
         /\ ts <= t + Skew => RetainFrom(ts, t) + Ttl >= ts + Skew
  BY Constants, WindowsCover DEF RetainFrom

\* Every id the log holds since t - Preload is in the boot cache of a restart
\* at t: the cache never answers `full`.
LEMMA PreloadHolds ==
  ASSUME NEW t \in Nat, log \in Seq(Entries), NEW i \in 1..Len(log),
         log[i].ts >= t - Preload
  PROVE  Preloaded(t)[log[i].id] = t
<1>1. RecentIds(i, t - Preload) \subseteq Ids
  <2> SUFFICES ASSUME NEW j \in 1..i PROVE log[j].id \in Ids
    BY DEF RecentIds
  <2>1. j \in 1..Len(log) OBVIOUS
  <2> QED BY <2>1, EntryType
<1>2. Cardinality(RecentIds(i, t - Preload)) <= Cardinality(Ids)
  BY <1>1, IdsFinite, FS_Subset
<1>3. /\ Cardinality(Ids) \in Nat
      /\ Cardinality(RecentIds(i, t - Preload)) \in Nat
  BY <1>1, IdsFinite, FS_Subset, FS_CardinalityType
<1>4. Cardinality(RecentIds(i, t - Preload)) <= BootMax
  BY <1>2, <1>3, Constants, WindowsCover
<1>5. log[i].id \in Ids BY EntryType
<1> QED BY <1>4, <1>5 DEF Preloaded

LEMMA PreloadType ==
  ASSUME NEW t \in Nat
  PROVE  Preloaded(t) \in [Ids -> Int] /\ \A id \in Ids : Preloaded(t)[id] <= t
  BY Constants DEF Preloaded, Never

LEMMA NoNoncesType ==
  /\ NoNonces \in [Ids -> Int]
  /\ \A id \in Ids : \A t \in Nat : NoNonces[id] <= t /\ NoNonces[id] <= t + Ttl
  BY Constants DEF NoNonces, Never

-----------------------------------------------------------------------------
LEMMA InitType == Init => TypeOK
<1> SUFFICES ASSUME Init PROVE TypeOK OBVIOUS
<1>1. now \in Nat /\ now = 0 BY DEF Init
<1>2. /\ \A id \in Ids : budget[id] <= now + Ttl
      /\ \A id \in Ids : boot[id] <= now
  BY <1>1, NoNoncesType DEF Init
<1> QED BY <1>2, NoNoncesType DEF Init, TypeOK, Clamped, SlotStates, HubStep, HubFacts

LEMMA NextType == TypeOK /\ [Next]_vars => TypeOK'
<1> SUFFICES ASSUME TypeOK, [Next]_vars PROVE TypeOK' OBVIOUS
<1> USE DEF TypeOK, Clamped
<1>1. CASE Tick
  <2>1. now' \in Nat /\ now' = now + 1 BY <1>1 DEF Tick
  <2>2. /\ \A id \in Ids : budget[id] <= now' + Ttl
        /\ \A id \in Ids : boot[id] <= now'
    BY <2>1, Constants
  <2> QED BY <1>1, <2>1, <2>2 DEF Tick
<1>2. CASE HubCrash BY <1>2 DEF HubCrash, HubStep
<1>3. CASE LoseAnswer BY <1>3 DEF LoseAnswer
<1>4. CASE BuilderCrash
  <2>1. slot' \in [Slots -> SlotStates] BY <1>4 DEF BuilderCrash, SlotStates
  <2> QED BY <1>4, <2>1, NoNoncesType DEF BuilderCrash
<1>5. ASSUME NEW opened \in BOOLEAN, BuilderBoot(opened) PROVE TypeOK'
  <2>1. boot' \in [Ids -> Int] /\ \A id \in Ids : boot'[id] <= now
    BY <1>5, PreloadType, NoNoncesType DEF BuilderBoot
  <2> QED BY <1>5, <2>1 DEF BuilderBoot
<1>6. ASSUME NEW id \in Ids, Hub(id) PROVE TypeOK'
  <2>1. CASE RelaySend(id)
    <3>1. PICK ts \in 0..(now + Drift) : sentTs' = [sentTs EXCEPT ![id] = ts]
      BY <2>1 DEF RelaySend
    <3>2. sentTs' \in [Ids -> Nat] BY <3>1, Constants
    <3> QED BY <2>1, <3>2 DEF RelaySend, HubStep, HubFacts
  <2>2. CASE RelayAuditFails(id) BY <2>2 DEF RelayAuditFails, HubStep
  <2>3. CASE Post(id) BY <2>3 DEF Post, HubStep
  <2>4. CASE ConnectFails(id)
    BY <2>4 DEF ConnectFails, Finish, HubStep, HubFacts
  <2>5. CASE TakeAnswer(id)
    BY <2>5, ZenonT(30) DEF TakeAnswer, Finish, HubStep, HubFacts, Answers
  <2>6. CASE NoAnswer(id) BY <2>6 DEF NoAnswer, Finish, HubStep, HubFacts
  <2> QED BY <1>6, <2>1, <2>2, <2>3, <2>4, <2>5, <2>6 DEF Hub
<1>7. ASSUME NEW id \in Ids, Lose(id) PROVE TypeOK'
  BY <1>7 DEF Lose
<1>8. ASSUME NEW id \in Ids, Arrive(id) PROVE TypeOK'
  <2>0. /\ [budget EXCEPT ![id] = RetainFrom(sentTs[id], now)] \in [Ids -> Int]
        /\ \A x \in Ids : [budget EXCEPT ![id] = RetainFrom(sentTs[id], now)][x] <= now + Ttl
    <3>1. RetainFrom(sentTs[id], now) \in Int /\ RetainFrom(sentTs[id], now) <= now + Ttl
      BY RetainCovers
    <3> QED BY <3>1
  <2>1. CASE ReceiveRefused(id)
    BY <2>1 DEF ReceiveRefused, Answer, Answers
  <2>2. CASE ReceiveUnavailable(id)
    BY <2>0, <2>2 DEF ReceiveUnavailable, Answer, Answers
  <2>3. ASSUME NEW s \in Slots, Receive(id, s) PROVE TypeOK'
    <3>1. Busy("checking", id) \in SlotStates BY BusyType
    <3>2. slot' \in [Slots -> SlotStates] BY <2>3, <3>1, SlotUpdate DEF Receive
    <3> QED BY <2>0, <2>3, <3>2 DEF Receive
  <2> QED BY <1>8, <2>1, <2>2, <2>3 DEF Arrive
<1>9. ASSUME NEW s \in Slots, Dispatch(s) PROVE TypeOK'
  <2>0. Free \in SlotStates BY DEF SlotStates
  <2>1. CASE Refuse(s)
    <3>1. slot[s].id \in Ids BY <2>1, BusySlot DEF Refuse
    <3>2. log' \in Seq(Entries)
      BY <2>1, <3>1, RecordFacts, BothFacts DEF Refuse, Phases, Extends
    <3>3. slot' \in [Slots -> SlotStates] BY <2>0, <2>1, SlotUpdate DEF Refuse
    <3> QED BY <2>1, <3>1, <3>2, <3>3 DEF Refuse, Answer, Answers
  <2>2. CASE Start(s)
    <3>1. slot[s].id \in Ids BY <2>2, BusySlot DEF Start
    <3>2. log' \in Seq(Entries) BY <2>2, <3>1, RecordFacts DEF Start, Phases
    <3>3. slot' \in [Slots -> SlotStates]
      BY <2>2, <3>1, BusyType, SlotUpdate DEF Start
    <3> QED BY <2>2, <3>2, <3>3 DEF Start
  <2>3. CASE Execute(s)
    <3>1. slot[s].id \in Ids BY <2>3, BusySlot DEF Execute
    <3>2. PICK st \in {"ranOk", "ranFailed"} : 
                  slot' = [slot EXCEPT ![s] = Busy(st, slot[s].id)]
      BY <2>3 DEF Execute
    <3>3. slot' \in [Slots -> SlotStates]
      BY <3>1, <3>2, BusyType, SlotUpdate
    <3>4. runs' \in [Ids -> Nat] BY <2>3, <3>1 DEF Execute
    <3> QED BY <2>3, <3>3, <3>4 DEF Execute
  <2>4. CASE Outcome(s)
    <3>1. slot[s].id \in Ids BY <2>4, BusySlot DEF Outcome
    <3>2. log' \in Seq(Entries)
      BY <2>4, <3>1, RecordFacts DEF Outcome, Phases
    <3>3. slot' \in [Slots -> SlotStates] BY <2>0, <2>4, SlotUpdate DEF Outcome
    <3> QED BY <2>4, <3>1, <3>2, <3>3 DEF Outcome, Answer, Answers
  <2> QED BY <1>9, <2>1, <2>2, <2>3, <2>4 DEF Dispatch
<1>10. CASE UNCHANGED vars BY <1>10 DEF vars
<1> QED BY <1>1, <1>2, <1>3, <1>4, <1>5, <1>6, <1>7, <1>8, <1>9, <1>10 DEF Next

\* Every variable has its type (the whole of ActionPath).
THEOREM TypeCorrect == Spec => []TypeOK
<1>1. Init => TypeOK BY InitType
<1>2. TypeOK /\ [Next]_vars => TypeOK' BY NextType
<1> QED BY <1>1, <1>2, PTL DEF Spec

-----------------------------------------------------------------------------
LEMMA InitInv == Init => IInv
  BY InitType DEF Init, IInv, HubInv, LogInv, NonceInv, SlotInv, RunsInv,
     OneStory, Active, Free

\* The heart of the matter: an envelope that verifyEnvelope accepts, on a
\* builder whose audit log is open, is neither in dispatch nor in the log.
LEMMA AcceptedIsNew ==
  ASSUME IInv, NEW id \in Ids, Verified(id), up, auditOpen
  PROVE  /\ \A s \in Slots : ~ Active(s, id)
         /\ \A i \in 1..Len(log) : log[i].id # id
<1> USE DEF IInv, TypeOK
<1>1. ~ Closed(id) BY Constants DEF Verified, FreshTs, Closed
<1>2. ~ Covers(budget, id)
  BY <1>1, Constants DEF Verified, NewNonce, Held, Covers, Closed
<1>3. ~ Covers(boot, id)
  BY <1>1, Constants DEF Verified, NewNonce, Held, Covers, Closed
<1>4. \A s \in Slots : ~ Active(s, id)
  BY <1>2 DEF NonceInv, Active
<1>5. \A i \in 1..Len(log) : log[i].id # id
  BY <1>1, <1>2, <1>3 DEF NonceInv
<1> QED BY <1>4, <1>5

LEMMA WindowArithmetic ==
  ASSUME NEW e \in Nat, NEW ts \in Nat, NEW t \in Nat, e <= t, ts <= e + Skew
  PROVE  /\ e >= t - Preload => t + Ttl >= ts + Skew
         /\ ~ (e >= t - Preload) => t > ts + Skew
  BY Constants, WindowsCover

\* After a restart the boot cache covers every id of the log whose window is
\* still open.
LEMMA BootCovers ==
  ASSUME IInv, NEW i \in 1..Len(log)
  PROVE  \/ Preloaded(now)[log[i].id] + Ttl >= sentTs[log[i].id] + Skew
         \/ Closed(log[i].id)
<1> USE DEF IInv, TypeOK
<1>1. /\ log[i].ts \in Nat /\ log[i].id \in Ids
      /\ sentTs[log[i].id] \in Nat
  BY EntryType
<1>2. log[i].ts <= now /\ log[i].ts + Skew >= sentTs[log[i].id]
  BY DEF LogInv
<1>3. CASE log[i].ts >= now - Preload
  <2>1. Preloaded(now)[log[i].id] = now BY <1>3, PreloadHolds
  <2> QED BY <1>1, <1>2, <1>3, <2>1, WindowArithmetic
<1>4. CASE ~ (log[i].ts >= now - Preload)
  BY <1>1, <1>2, <1>4, WindowArithmetic DEF Closed
<1> QED BY <1>3, <1>4

\* Steps of the hub and the network leave what the builder knows alone.
LEMMA BuilderUnmoved ==
  ASSUME IInv, UNCHANGED <<now, sentTs, builderVars>>
  PROVE  LogInv' /\ NonceInv' /\ SlotInv' /\ RunsInv' /\ OneStory'
  BY DEF IInv, LogInv, NonceInv, SlotInv, RunsInv, OneStory, Active, Covers,
     Closed, Logged

\* Steps of the hub and the network.
LEMMA HubSteps ==
  ASSUME IInv, NEW id \in Ids, Hub(id)
  PROVE  HubInv' /\ LogInv' /\ NonceInv' /\ SlotInv' /\ RunsInv' /\ OneStory'
<1> USE DEF IInv, TypeOK
<1>1. CASE RelaySend(id)
  <2>1. /\ \A s \in Slots : ~ Active(s, id)
        /\ \A i \in 1..Len(log) : log[i].id # id
    BY <1>1 DEF RelaySend, HubInv
  <2>2. \A x \in Ids : x # id => sentTs'[x] = sentTs[x]
    BY <1>1 DEF RelaySend
  <2>3. \A i \in 1..Len(log) : sentTs'[log[i].id] = sentTs[log[i].id]
    BY <2>1, <2>2, EntryType
  <2>4. \A s \in Slots : slot[s] # Free => sentTs'[slot[s].id] = sentTs[slot[s].id]
    BY <2>1, <2>2, SlotType DEF Active
  <2>5. LogInv' BY <1>1, <2>3 DEF RelaySend, LogInv
  <2>6. NonceInv'
    BY <1>1, <2>3, <2>4 DEF RelaySend, NonceInv, Covers, Closed
  <2>7. SlotInv' /\ RunsInv' /\ OneStory'
    BY <1>1 DEF RelaySend, SlotInv, RunsInv, OneStory, Active, Logged
  <2>8. HubInv'
    BY <1>1 DEF RelaySend, HubInv, Active
  <2> QED BY <2>5, <2>6, <2>7, <2>8
<1>2. CASE RelayAuditFails(id)
  BY <1>2, BuilderUnmoved DEF RelayAuditFails, HubInv, Active
<1>3. CASE Post(id)
  BY <1>3, BuilderUnmoved DEF Post, HubInv, Active
<1>4. CASE ConnectFails(id)
  BY <1>4, BuilderUnmoved DEF ConnectFails, Finish, HubInv, Active
<1>5. CASE TakeAnswer(id)
  BY <1>5, BuilderUnmoved DEF TakeAnswer, Finish, HubInv, Active, Answers
<1>6. CASE NoAnswer(id)
  BY <1>6, BuilderUnmoved DEF NoAnswer, Finish, HubInv, Active
<1> QED BY <1>1, <1>2, <1>3, <1>4, <1>5, <1>6 DEF Hub

\* An envelope arrives.
LEMMA ArriveSteps ==
  ASSUME IInv, NEW id \in Ids, Arrive(id)
  PROVE  HubInv' /\ LogInv' /\ NonceInv' /\ SlotInv' /\ RunsInv' /\ OneStory'
<1> USE DEF IInv, TypeOK
<1>1. CASE ReceiveRefused(id)
  BY <1>1, BuilderUnmoved DEF ReceiveRefused, Answer, HubInv, Active
<1>2. CASE ReceiveUnavailable(id)
  <2>1. LogInv' /\ SlotInv' /\ RunsInv' /\ OneStory'
    BY <1>2 DEF ReceiveUnavailable, LogInv, SlotInv, RunsInv, OneStory, Active,
       Logged
  <2>2. NonceInv' BY <1>2 DEF ReceiveUnavailable, NonceInv
  <2>3. HubInv' BY <1>2 DEF ReceiveUnavailable, Answer, HubInv, Active
  <2> QED BY <2>1, <2>2, <2>3
<1>3. ASSUME NEW s \in Slots, Receive(id, s)
      PROVE  HubInv' /\ LogInv' /\ NonceInv' /\ SlotInv' /\ RunsInv' /\ OneStory'
  <2> USE <1>3 DEF Receive
  <2>1. /\ \A t \in Slots : ~ Active(t, id)
        /\ \A i \in 1..Len(log) : log[i].id # id
    BY AcceptedIsNew
  <2>2. /\ slot'[s] # Free /\ slot'[s].id = id /\ slot'[s].st = "checking"
        /\ \A t \in Slots : t # s => slot'[t] = slot[t]
    BY BusyType
  <2>3. budget'[id] + Ttl >= sentTs[id] + Skew
    <3>1. sentTs[id] <= now + Skew BY Constants DEF Verified, FreshTs
    <3> QED BY <3>1, RetainCovers
  <2>4. \A x \in Ids : x # id => budget'[x] = budget[x] OBVIOUS
  <2>5. LogInv' BY DEF LogInv
  <2>6. NonceInv'
    <3>1. ASSUME NEW t \in Slots, slot'[t] # Free
          PROVE  /\ up /\ auditOpen
                 /\ budget'[slot'[t].id] + Ttl >= sentTs[slot'[t].id] + Skew
                 /\ now + Skew >= sentTs[slot'[t].id]
      <4>1. CASE t = s
        BY <2>2, <2>3, <4>1, Constants DEF Verified, FreshTs
      <4>2. CASE t # s
        BY <2>1, <2>2, <2>4, <3>1, <4>2, SlotType DEF NonceInv, Covers, Active
      <4> QED BY <4>1, <4>2
    <3>2. \A i \in 1..Len(log) :
            Covers(budget, log[i].id)' <=> Covers(budget, log[i].id)
      BY <2>1, <2>4, EntryType DEF Covers
    <3> QED BY <3>1, <3>2 DEF NonceInv, Covers, Closed
  <2>7. SlotInv'
    <3>1. \A t \in Slots : \A x \in Ids :
            Active(t, x)' <=> IF t = s THEN x = id ELSE Active(t, x)
      BY <2>2 DEF Active
    <3>2. \A t, u \in Slots : \A x \in Ids :
            Active(t, x)' /\ Active(u, x)' => t = u
      <4>1. \A t, u \in Slots : \A x \in Ids : Active(t, x) /\ Active(u, x) => t = u
        BY DEF SlotInv
      <4>2. \A t \in Slots : ~ Active(t, id) BY <2>1
      <4> HIDE DEF Receive, IInv
      <4> QED BY <3>1, <4>1, <4>2
    <3>3. runs' = runs /\ log' = log OBVIOUS
    <3> QED BY <2>1, <2>2, <3>2, <3>3 DEF SlotInv, Logged
  <2>8. RunsInv' /\ OneStory' BY DEF RunsInv, OneStory, Logged
  <2>9. HubInv'
    BY <2>2, ZenonT(30) DEF HubInv, Active
  <2> QED BY <2>5, <2>6, <2>7, <2>8, <2>9
<1> QED BY <1>1, <1>2, <1>3 DEF Arrive

\* Execute, the one step that runs an action: its id has not run before.
LEMMA ExecuteStep ==
  ASSUME IInv, NEW s \in Slots, Execute(s)
  PROVE  HubInv' /\ LogInv' /\ NonceInv' /\ SlotInv' /\ RunsInv' /\ OneStory'
<1> USE DEF IInv, TypeOK
<1> DEFINE id == slot[s].id
<1>1. id \in Ids /\ slot[s] # Free /\ slot[s].st = "started"
  BY BusySlot DEF Execute
<1>2. PICK st \in {"ranOk", "ranFailed"} : slot' = [slot EXCEPT ![s] = Busy(st, id)]
  BY DEF Execute
<1>3. /\ slot'[s] # Free /\ slot'[s].id = id /\ slot'[s].st = st
      /\ \A t \in Slots : t # s => slot'[t] = slot[t]
  BY <1>1, <1>2, BusyType
<1>4. runs[id] = 0 /\ runs'[id] = 1 /\ \A x \in Ids : x # id => runs'[x] = runs[x]
  BY <1>1 DEF Execute, SlotInv
<1>5. UNCHANGED <<now, sentTs, hub, hubAudit, wire, answers, up, auditOpen,
                  budget, boot, log>>
  BY DEF Execute
<1>6. Logged(id, "start") BY <1>1 DEF SlotInv
<1>7. \A t \in Slots : slot'[t].id = slot[t].id /\ (slot'[t] # Free <=> slot[t] # Free)
  BY <1>1, <1>3
<1> HIDE DEF id
<1>15. \A i \in 1..Len(log) : log[i].id = id => log[i].phase = "start"
  BY <1>1 DEF SlotInv, id
<1>8. LogInv' /\ OneStory'
  <2>1. LogInv' BY <1>5 DEF LogInv
  <2>2. \A i \in 1..Len(log) : log[i].phase # "start" => runs'[log[i].id] = runs[log[i].id]
    BY <1>4, <1>15, EntryType
  <2> QED BY <1>5, <2>1, <2>2 DEF OneStory
<1>9. NonceInv' BY <1>5, <1>7 DEF NonceInv, Covers, Closed
<1>10. \A t \in Slots, x \in Ids : Active(t, x)' <=> Active(t, x)
  BY <1>7 DEF Active
<1>11. Active(s, id) BY <1>1 DEF Active, id
<1>12. SlotInv'
  <2>1. \A t \in Slots : t # s /\ slot[t] # Free => slot[t].id # id
    BY <1>1, <1>11 DEF SlotInv, Active
  <2>2. \A t, u \in Slots : \A x \in Ids : Active(t, x)' /\ Active(u, x)' => t = u
    BY <1>10 DEF SlotInv
  <2>3. ASSUME NEW t \in Slots, t # s
        PROVE  /\ slot'[t].st = "started" => runs'[slot'[t].id] = 0
               /\ slot'[t].st \in {"ranOk", "ranFailed"} => runs'[slot'[t].id] = 1
    BY <1>3, <1>4, <2>1, <2>3, BusySlot DEF SlotInv
  <2>4. ASSUME NEW t \in Slots
        PROVE  /\ slot'[t].st = "checking" =>
                    \A i \in 1..Len(log) : log[i].id # slot'[t].id
               /\ slot'[t].st \in {"started", "ranOk", "ranFailed"} =>
                    /\ Logged(slot'[t].id, "start")
                    /\ \A i \in 1..Len(log) : log[i].id = slot'[t].id => log[i].phase = "start"
    <3>1. CASE t = s
      BY <1>1, <1>3, <3>1 DEF SlotInv, id
    <3>2. CASE t # s
      BY <1>3, <3>2 DEF SlotInv
    <3> QED BY <3>1, <3>2
  <2>5. /\ slot'[s].st = "started" => runs'[slot'[s].id] = 0
        /\ slot'[s].st \in {"ranOk", "ranFailed"} => runs'[slot'[s].id] = 1
    BY <1>3, <1>4 DEF id
  <2> QED BY <1>5, <2>2, <2>3, <2>4, <2>5 DEF SlotInv, Logged
<1>13. RunsInv'
  <2> SUFFICES ASSUME NEW x \in Ids
               PROVE  runs'[x] <= 1 /\ (runs'[x] > 0 => Logged(x, "start"))
    BY <1>5 DEF RunsInv, Logged
  <2>1. CASE x = id BY <1>4, <1>6, <2>1
  <2>2. CASE x # id BY <1>4, <2>2 DEF RunsInv
  <2> QED BY <2>1, <2>2
<1>14. HubInv'
  <2>1. hub[id] \notin {"new", "sent"} /\ hubAudit[id] \notin {"none", "unsent"}
    BY <1>1, <1>11 DEF HubInv
  <2>2. \A x \in Ids : x # id => runs'[x] = runs[x] BY <1>4
  <2>3. \A x \in Ids : runs[x] > 0 => runs'[x] > 0
    <3> SUFFICES ASSUME NEW x \in Ids, runs[x] > 0 PROVE runs'[x] > 0 OBVIOUS
    <3>1. CASE x = id BY <1>4, <3>1
    <3>2. CASE x # id BY <2>2, <3>2
    <3> QED BY <3>1, <3>2
  <2>4. \A x \in Ids : /\ hub[x] = "new" => hubAudit[x] = "none"
                       /\ hub[x] \in {"sent", "posted"} => hubAudit[x] = "sent"
                       /\ <<x, "ok">> \in answers => runs'[x] > 0
                       /\ hubAudit[x] = "ok" => runs'[x] > 0
    BY <2>3 DEF HubInv
  <2>5. ASSUME NEW x \in Ids,
               hub[x] \in {"new", "sent"} \/ hubAudit[x] \in {"none", "unsent"}
        PROVE  /\ x \notin wire
               /\ runs'[x] = 0
               /\ \A t \in Slots : ~ Active(t, x)
               /\ \A i \in 1..Len(log) : log[i].id # x
    BY <2>1, <2>2, <2>5 DEF HubInv
  <2> QED BY <1>5, <1>10, <2>4, <2>5 DEF HubInv
<1> QED BY <1>8, <1>9, <1>12, <1>13, <1>14

\* What the steps that end or record a request have in common.
LEMMA RecordSteps ==
  ASSUME IInv, NEW s \in Slots, NEW id \in Ids, Active(s, id),
         Extends(id), NEW a \in Answers, a = "ok" => runs[id] > 0,
         UNCHANGED answers \/ Answer(id, a),
         UNCHANGED <<now, hubVars, wire, up, auditOpen, budget, boot, runs>>,
         \A t \in Slots : slot'[t] # Free => /\ slot[t] # Free
                                             /\ slot'[t].id = slot[t].id
  PROVE  HubInv' /\ LogInv' /\ NonceInv' /\ RunsInv'
<1> USE DEF IInv, TypeOK
<1>1. /\ Len(log) \in Nat /\ Len(log') \in Nat /\ Len(log) <= Len(log')
      /\ \A i \in 1..Len(log) : log'[i] = log[i]
      /\ \A i \in 1..Len(log') : i \in 1..Len(log) \/ (log'[i].id = id /\ log'[i].ts = now)
  BY DEF Extends
<1>2. slot[s] # Free /\ slot[s].id = id BY DEF Active
<1>3. now + Skew >= sentTs[id] /\ Covers(budget, id) /\ up /\ auditOpen
  BY <1>2 DEF NonceInv
<1>4. hub[id] \notin {"new", "sent"} /\ hubAudit[id] \notin {"none", "unsent"}
  BY DEF HubInv
<1>5. LogInv'
  <2> SUFFICES ASSUME NEW i \in 1..Len(log')
               PROVE  log'[i].ts <= now /\ log'[i].ts + Skew >= sentTs[log'[i].id]
    BY DEF LogInv
  <2>1. CASE i \in 1..Len(log) BY <1>1, <2>1 DEF LogInv
  <2>2. CASE log'[i].id = id /\ log'[i].ts = now
    BY <1>3, <2>2
  <2> QED BY <1>1, <2>1, <2>2
<1>6. NonceInv'
  <2>1. ASSUME NEW i \in 1..Len(log')
        PROVE  Covers(budget, log'[i].id) \/ Covers(boot, log'[i].id) \/ Closed(log'[i].id)
    <3>1. CASE i \in 1..Len(log) BY <1>1, <1>3, <3>1 DEF NonceInv
    <3>2. CASE log'[i].id = id BY <1>3, <3>2
    <3> QED BY <1>1, <3>1, <3>2
  <2>2. \A t \in Slots : slot'[t] # Free =>
          /\ up /\ auditOpen /\ Covers(budget, slot'[t].id)
          /\ now + Skew >= sentTs[slot'[t].id]
    BY DEF NonceInv
  <2> QED BY <2>1, <2>2 DEF NonceInv, Covers, Closed
<1>7. \A x \in Ids, ph \in Phases : Logged(x, ph) => Logged(x, ph)'
  <2> SUFFICES ASSUME NEW x \in Ids, NEW ph \in Phases, Logged(x, ph)
               PROVE  Logged(x, ph)'
    OBVIOUS
  <2>1. PICK i \in 1..Len(log) : log[i].id = x /\ log[i].phase = ph BY DEF Logged
  <2>2. i \in 1..Len(log') /\ log'[i] = log[i] BY <1>1
  <2> HIDE DEF IInv, TypeOK
  <2> QED BY <2>1, <2>2 DEF Logged
<1>8. RunsInv' BY <1>7 DEF RunsInv, Phases
<1>9. HubInv'
  <2>1. \A x \in Ids : <<x, "ok">> \in answers' => runs[x] > 0
    BY DEF HubInv, Answer
  <2>2. \A x \in Ids, t \in Slots : Active(t, x)' => Active(t, x) BY DEF Active
  <2>3. ASSUME NEW x \in Ids, x # id, \A i \in 1..Len(log) : log[i].id # x
        PROVE  \A i \in 1..Len(log') : log'[i].id # x
    <3>1. \A i \in 1..Len(log') : i \in 1..Len(log) \/ log'[i].id = id BY <1>1
    <3> QED BY <1>1, <2>3, <3>1
  <2>4. \A x \in Ids : /\ hub[x] = "new" => hubAudit[x] = "none"
                       /\ hub[x] \in {"sent", "posted"} => hubAudit[x] = "sent"
                       /\ hubAudit[x] = "ok" => runs[x] > 0
    BY DEF HubInv
  <2>5. ASSUME NEW x \in Ids,
               hub[x] \in {"new", "sent"} \/ hubAudit[x] \in {"none", "unsent"}
        PROVE  /\ x \notin wire
               /\ runs[x] = 0
               /\ \A t \in Slots : ~ Active(t, x)'
               /\ \A i \in 1..Len(log') : log'[i].id # x
    BY <1>4, <2>2, <2>3, <2>5 DEF HubInv
  <2> QED BY <2>1, <2>4, <2>5 DEF HubInv
<1> QED BY <1>5, <1>6, <1>8, <1>9

\* The other requests' ids are not the one that is recorded.
LEMMA OthersUndisturbed ==
  ASSUME IInv, NEW s \in Slots, NEW id \in Ids, Active(s, id),
         Extends(id), UNCHANGED runs,
         NEW t \in Slots, t # s, slot'[t] = slot[t]
  PROVE  /\ slot'[t].st = "checking" =>
              \A i \in 1..Len(log') : log'[i].id # slot'[t].id
         /\ slot'[t].st \in {"started", "ranOk", "ranFailed"} =>
              /\ Logged(slot[t].id, "start")'
              /\ \A i \in 1..Len(log') : log'[i].id = slot'[t].id => log'[i].phase = "start"
         /\ slot'[t].st = "started" => runs'[slot'[t].id] = 0
         /\ slot'[t].st \in {"ranOk", "ranFailed"} => runs'[slot'[t].id] = 1
<1> USE DEF IInv, TypeOK
<1>1. /\ Len(log) \in Nat /\ Len(log') \in Nat /\ Len(log) <= Len(log')
      /\ \A i \in 1..Len(log) : log'[i] = log[i]
      /\ \A i \in 1..Len(log') : i \in 1..Len(log) \/ log'[i].id = id
  <2>1. log \in Seq(Entries) OBVIOUS
  <2> HIDE DEF IInv, TypeOK
  <2> QED BY <2>1 DEF Extends
<1>2. slot[t] # Free => slot[t].id # id BY SlotType DEF SlotInv, Active
<1>3. slot[t].st \in {"checking", "started", "ranOk", "ranFailed"} => slot[t] # Free
  BY DEF Free
<1>4. ASSUME slot[t].st = "checking"
      PROVE  \A i \in 1..Len(log') : log'[i].id # slot[t].id
  BY <1>1, <1>2, <1>3, <1>4 DEF SlotInv
<1>5. ASSUME slot[t].st \in {"started", "ranOk", "ranFailed"}
      PROVE  /\ \A i \in 1..Len(log') : log'[i].id = slot[t].id => log'[i].phase = "start"
             /\ \E i \in 1..Len(log') : log'[i].id = slot[t].id /\ log'[i].phase = "start"
  <2>1. Logged(slot[t].id, "start") BY <1>5 DEF SlotInv
  <2>2. \A i \in 1..Len(log) : log[i].id = slot[t].id => log[i].phase = "start"
    BY <1>5 DEF SlotInv
  <2>3. \E i \in 1..Len(log') : log'[i].id = slot[t].id /\ log'[i].phase = "start"
    <3>1. PICK i \in 1..Len(log) : log[i].id = slot[t].id /\ log[i].phase = "start"
      BY <2>1 DEF Logged
    <3>2. i \in 1..Len(log') /\ log'[i] = log[i] BY <1>1
    <3> HIDE DEF IInv, TypeOK
    <3> QED BY <3>1, <3>2
  <2>4. \A i \in 1..Len(log') : log'[i].id = slot[t].id => log'[i].phase = "start"
    BY <1>1, <1>2, <1>3, <1>5, <2>2
  <2> QED BY <2>3, <2>4
<1>6. /\ slot[t].st = "started" => runs[slot[t].id] = 0
      /\ slot[t].st \in {"ranOk", "ranFailed"} => runs[slot[t].id] = 1
  BY DEF SlotInv
<1>7. slot'[t].st \in {"started", "ranOk", "ranFailed"} => Logged(slot[t].id, "start")'
  BY <1>5 DEF Logged
<1> HIDE DEF IInv, TypeOK
<1> QED BY <1>4, <1>5, <1>6, <1>7

\* The steps that write to the builder's log.
LEMMA DispatchSteps ==
  ASSUME IInv, NEW s \in Slots, Dispatch(s)
  PROVE  HubInv' /\ LogInv' /\ NonceInv' /\ SlotInv' /\ RunsInv' /\ OneStory'
<1> USE DEF IInv, TypeOK
<1> DEFINE id == slot[s].id
<1>0. \A t, u \in Slots : \A x \in Ids : Active(t, x) /\ Active(u, x) => t = u
  BY DEF SlotInv
<1>1. CASE Refuse(s)
  <2>1. slot[s].st = "checking" /\ id \in Ids /\ Active(s, id)
    BY <1>1, BusySlot DEF Refuse, Active
  <2>2. /\ slot'[s] = Free
        /\ \A t \in Slots : t # s => slot'[t] = slot[t]
    BY <1>1 DEF Refuse
  <2>3. \A i \in 1..Len(log) : log[i].id # id BY <2>1 DEF SlotInv
  <2>4. /\ Answer(id, "refused")
        /\ UNCHANGED <<now, hubVars, wire, up, auditOpen, budget, boot, runs>>
    BY <1>1 DEF Refuse
  <2>5. \A t \in Slots : slot'[t] # Free => slot[t] # Free /\ slot'[t].id = slot[t].id
    BY <2>2
  <2>10. /\ log \in Seq(Entries) /\ now \in Nat /\ Len(log) \in Nat
         /\ "refused" \in Phases /\ "start" \in Phases
    BY DEF Phases
  <2>11. \/ UNCHANGED log
         \/ Record(id, "refused")
         \/ Record(id, "start")
         \/ log' = log \o <<Line(id, "start"), Line(id, "refused")>>
    BY <1>1 DEF Refuse
  <2>12. Extends(id)
    <3> HIDE DEF IInv, TypeOK, id
    <3> QED BY <2>1, <2>10, <2>11, RecordExtends, BothFacts
  <2>6. HubInv' /\ LogInv' /\ NonceInv' /\ RunsInv'
    <3> HIDE DEF IInv, TypeOK, id
    <3> QED BY <2>1, <2>4, <2>5, <2>12, RecordSteps DEF Answers
  <2>13. runs[id] = 0
    <3>1. ~ Logged(id, "start") BY <2>3 DEF Logged
    <3> QED BY <2>1, <3>1 DEF RunsInv
  <2>7. OneStory'
    <3>0. OneStory BY DEF IInv
    <3>1. CASE UNCHANGED log BY <2>4, <3>0, <3>1 DEF OneStory
    <3>2. ASSUME NEW phase \in {"start", "refused"}, Record(id, phase) PROVE OneStory'
      <4>1. /\ Len(log') = Len(log) + 1
            /\ \A i \in 1..Len(log) : log'[i] = log[i]
            /\ log'[Len(log) + 1] = [id |-> id, ts |-> now, phase |-> phase]
        <5> HIDE DEF IInv, TypeOK, id
        <5> QED BY <2>1, <2>10, <3>2, RecordFacts
      <4> HIDE DEF IInv, TypeOK, id
      <4>2. \A j \in 1..Len(log') : j \in 1..Len(log) \/ j = Len(log) + 1
        BY <2>10, <4>1
      <4>3. \A i, j \in 1..Len(log') : i < j /\ log'[i].id = log'[j].id =>
              log'[i].phase = "start" /\ log'[j].phase # "start"
        BY <2>3, <2>10, <3>0, <4>1, <4>2 DEF OneStory
      <4>4. \A j \in 1..Len(log') : log'[j].phase = "done" =>
              /\ runs'[log'[j].id] > 0
              /\ \E i \in 1..(j - 1) : log'[i].id = log'[j].id /\ log'[i].phase = "start"
        <5> SUFFICES ASSUME NEW j \in 1..Len(log'), log'[j].phase = "done"
                     PROVE  /\ runs'[log'[j].id] > 0
                            /\ \E i \in 1..(j - 1) : log'[i].id = log'[j].id /\ log'[i].phase = "start"
          OBVIOUS
        <5>1. j \in 1..Len(log) /\ log'[j] = log[j] BY <4>1, <4>2
        <5>2. PICK i \in 1..(j - 1) : log[i].id = log[j].id /\ log[i].phase = "start"
          BY <3>0, <5>1 DEF OneStory
        <5>3. i \in 1..Len(log) /\ log'[i] = log[i] BY <2>10, <4>1, <5>1
        <5>4. runs[log[j].id] > 0 BY <3>0, <5>1 DEF OneStory
        <5> QED BY <2>4, <5>1, <5>2, <5>3, <5>4
      <4>5. \A j \in 1..Len(log') : log'[j].phase = "refused" => runs'[log'[j].id] = 0
        BY <2>4, <2>13, <3>0, <4>1, <4>2 DEF OneStory
      <4> QED BY <4>3, <4>4, <4>5 DEF OneStory
    <3>3. CASE log' = log \o <<Line(id, "start"), Line(id, "refused")>>
      <4>1. /\ Len(log') = Len(log) + 2
            /\ \A i \in 1..Len(log) : log'[i] = log[i]
            /\ log'[Len(log) + 1] = [id |-> id, ts |-> now, phase |-> "start"]
            /\ log'[Len(log) + 2] = [id |-> id, ts |-> now, phase |-> "refused"]
        <5> HIDE DEF IInv, TypeOK, id
        <5> QED BY <2>1, <2>10, <3>3, BothFacts
      <4> HIDE DEF IInv, TypeOK, id
      <4>2. \A j \in 1..Len(log') : j \in 1..Len(log) \/ j = Len(log) + 1 \/ j = Len(log) + 2
        BY <2>10, <4>1
      <4>3. \A i, j \in 1..Len(log') : i < j /\ log'[i].id = log'[j].id =>
              log'[i].phase = "start" /\ log'[j].phase # "start"
        BY <2>3, <2>10, <3>0, <4>1, <4>2 DEF OneStory
      <4>4. \A j \in 1..Len(log') : log'[j].phase = "done" =>
              /\ runs'[log'[j].id] > 0
              /\ \E i \in 1..(j - 1) : log'[i].id = log'[j].id /\ log'[i].phase = "start"
        <5> SUFFICES ASSUME NEW j \in 1..Len(log'), log'[j].phase = "done"
                     PROVE  /\ runs'[log'[j].id] > 0
                            /\ \E i \in 1..(j - 1) : log'[i].id = log'[j].id /\ log'[i].phase = "start"
          OBVIOUS
        <5>1. j \in 1..Len(log) /\ log'[j] = log[j] BY <4>1, <4>2
        <5>2. PICK i \in 1..(j - 1) : log[i].id = log[j].id /\ log[i].phase = "start"
          BY <3>0, <5>1 DEF OneStory
        <5>3. i \in 1..Len(log) /\ log'[i] = log[i] BY <2>10, <4>1, <5>1
        <5>4. runs[log[j].id] > 0 BY <3>0, <5>1 DEF OneStory
        <5> QED BY <2>4, <5>1, <5>2, <5>3, <5>4
      <4>5. \A j \in 1..Len(log') : log'[j].phase = "refused" => runs'[log'[j].id] = 0
        BY <2>4, <2>13, <3>0, <4>1, <4>2 DEF OneStory
      <4> QED BY <4>3, <4>4, <4>5 DEF OneStory
    <3> QED BY <2>11, <3>1, <3>2, <3>3
  <2>8. SlotInv'
    <3>1. \A t, u \in Slots : \A x \in Ids : Active(t, x)' /\ Active(u, x)' => t = u
      BY <1>0, <2>5 DEF Active
    <3>2. slot'[s].st = "free" BY <2>2 DEF Free
    <3> HIDE DEF IInv, TypeOK, id
    <3> QED BY <2>1, <2>2, <2>4, <2>12, <3>1, <3>2, OthersUndisturbed DEF SlotInv
  <2> QED BY <2>6, <2>7, <2>8
<1>2. CASE Start(s)
  <2>1. slot[s].st = "checking" /\ id \in Ids /\ Active(s, id)
    BY <1>2, BusySlot DEF Start, Active
  <2>2. /\ slot'[s].st = "started" /\ slot'[s].id = id
        /\ \A t \in Slots : t # s => slot'[t] = slot[t]
    BY <1>2, <2>1, BusyType DEF Start
  <2>3. \A i \in 1..Len(log) : log[i].id # id BY <2>1 DEF SlotInv
  <2>4. /\ Record(id, "start")
        /\ UNCHANGED <<now, hubVars, wire, answers, up, auditOpen, budget, boot, runs>>
    BY <1>2 DEF Start
  <2>5. \A t \in Slots : slot'[t] # Free => slot[t] # Free /\ slot'[t].id = slot[t].id
    BY <2>1, <2>2 DEF Active
  <2>11. Extends(id)
    <3>1. log \in Seq(Entries) /\ now \in Nat /\ "start" \in Phases BY DEF Phases
    <3> HIDE DEF IInv, TypeOK, id
    <3> QED BY <2>1, <2>4, <3>1, RecordExtends
  <2>6. HubInv' /\ LogInv' /\ NonceInv' /\ RunsInv'
    <3> HIDE DEF IInv, TypeOK, id
    <3>1. "refused" \in Answers BY DEF Answers
    <3> QED BY <2>1, <2>4, <2>5, <2>11, <3>1, RecordSteps
  <2>7. /\ Len(log) \in Nat /\ Len(log') = Len(log) + 1
        /\ \A i \in 1..Len(log) : log'[i] = log[i]
        /\ log'[Len(log) + 1] = [id |-> id, ts |-> now, phase |-> "start"]
    <3> HIDE DEF id
    <3>1. log \in Seq(Entries) /\ now \in Nat /\ "start" \in Phases BY DEF Phases
    <3> HIDE DEF IInv, TypeOK
    <3> QED BY <2>1, <2>4, <3>1, RecordFacts
  <2>8. OneStory'
    <3>1. OneStory OBVIOUS
    <3> HIDE DEF IInv, TypeOK, id
    <3> QED BY <2>3, <2>4, <2>7, <3>1 DEF OneStory
  <2>9. runs[id] = 0
    <3>1. ~ Logged(id, "start") BY <2>3 DEF Logged
    <3> QED BY <2>1, <3>1 DEF RunsInv
  <2>10. SlotInv'
    <3>1. \A t, u \in Slots : \A x \in Ids : Active(t, x)' /\ Active(u, x)' => t = u
      BY <1>0, <2>5 DEF Active
    <3> HIDE DEF IInv, TypeOK, id
    <3>2. \E i \in 1..Len(log') : log'[i].id = id /\ log'[i].phase = "start"
      BY <2>7
    <3>3. \A i \in 1..Len(log') : log'[i].id = id => log'[i].phase = "start"
      BY <2>3, <2>7
    <3>4. /\ Logged(slot[s].id, "start")' /\ slot'[s].id = slot[s].id
          /\ runs'[slot'[s].id] = 0
      BY <2>2, <2>4, <2>9, <3>2 DEF id, Logged
    <3> QED BY <2>1, <2>2, <2>4, <2>11, <3>1, <3>3, <3>4, OthersUndisturbed DEF SlotInv
  <2> QED BY <2>6, <2>8, <2>10
<1>3. CASE Execute(s) BY <1>3, ExecuteStep
<1>4. CASE Outcome(s)
  <2>1. slot[s].st \in {"ranOk", "ranFailed"} /\ id \in Ids /\ Active(s, id)
    BY <1>4, BusySlot DEF Outcome, Active
  <2>2. /\ slot'[s] = Free
        /\ \A t \in Slots : t # s => slot'[t] = slot[t]
    BY <1>4 DEF Outcome
  <2>3. /\ \A i \in 1..Len(log) : log[i].id = id => log[i].phase = "start"
        /\ Logged(id, "start")
        /\ runs[id] = 1
    BY <2>1 DEF SlotInv
  <2>4. PICK a \in Answers : Answer(id, a)
    BY <1>4 DEF Outcome, Answers
  <2>5. /\ Record(id, "done") \/ UNCHANGED log
        /\ UNCHANGED <<now, hubVars, wire, up, auditOpen, budget, boot, runs>>
    BY <1>4 DEF Outcome
  <2>6. \A t \in Slots : slot'[t] # Free => slot[t] # Free /\ slot'[t].id = slot[t].id
    BY <2>2
  <2>10. Extends(id)
    <3>1. log \in Seq(Entries) /\ now \in Nat /\ "done" \in Phases BY DEF Phases
    <3> HIDE DEF IInv, TypeOK, id
    <3> QED BY <2>1, <2>5, <3>1, RecordExtends
  <2>7. HubInv' /\ LogInv' /\ NonceInv' /\ RunsInv'
    <3>1. a = "ok" => runs[id] > 0 BY <2>3
    <3> HIDE DEF IInv, TypeOK, id
    <3> QED BY <2>1, <2>4, <2>5, <2>6, <2>10, <3>1, RecordSteps
  <2>8. OneStory'
    <3>1. CASE UNCHANGED log BY <2>5, <3>1 DEF OneStory
    <3>2. CASE Record(id, "done")
      <4>1. /\ Len(log) \in Nat /\ Len(log') = Len(log) + 1
            /\ \A i \in 1..Len(log) : log'[i] = log[i]
            /\ log'[Len(log) + 1] = [id |-> id, ts |-> now, phase |-> "done"]
        <5> HIDE DEF id
        <5>1. log \in Seq(Entries) /\ now \in Nat OBVIOUS
        <5>2. "done" \in Phases BY DEF Phases
        <5> HIDE DEF IInv, TypeOK
        <5> QED BY <2>1, <3>2, <5>1, <5>2, RecordFacts
      <4>2. OneStory OBVIOUS
      <4> HIDE DEF IInv, TypeOK, id
      <4>3. ASSUME NEW i \in 1..Len(log'), NEW j \in 1..Len(log'),
                   i < j, log'[i].id = log'[j].id
            PROVE  log'[i].phase = "start" /\ log'[j].phase # "start"
        <5>1. CASE j \in 1..Len(log) BY <4>1, <4>2, <4>3, <5>1 DEF OneStory
        <5>2. CASE j = Len(log) + 1 BY <2>3, <4>1, <4>3, <5>2
        <5> QED BY <4>1, <5>1, <5>2
      <4>4. ASSUME NEW j \in 1..Len(log'), log'[j].phase = "done"
            PROVE  /\ runs'[log'[j].id] > 0
                   /\ \E i \in 1..(j - 1) : log'[i].id = log'[j].id /\ log'[i].phase = "start"
        <5>1. CASE j \in 1..Len(log) BY <2>5, <4>1, <4>2, <4>4, <5>1 DEF OneStory
        <5>2. CASE j = Len(log) + 1 BY <2>3, <2>5, <4>1, <5>2 DEF Logged
        <5> QED BY <4>1, <5>1, <5>2
      <4>5. \A j \in 1..Len(log') : log'[j].phase = "refused" => runs'[log'[j].id] = 0
        BY <2>5, <4>1, <4>2 DEF OneStory
      <4> QED BY <4>3, <4>4, <4>5 DEF OneStory
    <3> QED BY <2>5, <3>1, <3>2
  <2>9. SlotInv'
    <3>1. \A t, u \in Slots : \A x \in Ids : Active(t, x)' /\ Active(u, x)' => t = u
      BY <1>0, <2>6 DEF Active
    <3>2. slot'[s].st = "free" BY <2>2 DEF Free
    <3> HIDE DEF IInv, TypeOK, id
    <3> QED BY <2>1, <2>2, <2>5, <2>10, <3>1, <3>2, OthersUndisturbed DEF SlotInv
  <2> QED BY <2>7, <2>8, <2>9
<1> QED BY <1>1, <1>2, <1>3, <1>4 DEF Dispatch

LEMMA NextInv == IInv /\ [Next]_vars => IInv'
<1> SUFFICES ASSUME IInv, [Next]_vars PROVE IInv' OBVIOUS
<1>0. TypeOK /\ TypeOK' BY NextType DEF IInv
<1> SUFFICES HubInv' /\ LogInv' /\ NonceInv' /\ SlotInv' /\ RunsInv' /\ OneStory'
  BY <1>0 DEF IInv
<1>1. CASE Tick
  <2> USE <1>1 DEF Tick, IInv, TypeOK
  <2>1. LogInv' BY EntryType DEF LogInv
  <2>2. NonceInv'
    <3>1. \A s \in Slots : slot[s] # Free => slot[s].id \in Ids BY SlotType
    <3>2. \A i \in 1..Len(log) : log[i].id \in Ids BY EntryType
    <3> QED BY <3>1, <3>2, Constants, SMTT(30) DEF NonceInv, Covers, Closed
  <2>3. SlotInv' /\ RunsInv' /\ OneStory' /\ HubInv'
    BY DEF SlotInv, RunsInv, OneStory, HubInv, Active, Logged
  <2> QED BY <2>1, <2>2, <2>3
<1>2. CASE HubCrash
  <2> USE <1>2 DEF HubCrash, IInv, TypeOK
  <2>1. HubInv' BY DEF HubInv, Active
  <2> QED BY <2>1, BuilderUnmoved
<1>3. CASE LoseAnswer
  <2> USE <1>3 DEF LoseAnswer, IInv, TypeOK
  <2>1. HubInv' BY DEF HubInv, Active
  <2> QED BY <2>1, BuilderUnmoved
<1>4. CASE BuilderCrash
  <2> USE <1>4 DEF BuilderCrash, IInv
  <2>1. \A s \in Slots : slot'[s] = Free /\ slot'[s].st = "free" BY DEF Free
  <2>2. LogInv' /\ RunsInv' /\ OneStory' BY DEF LogInv, RunsInv, OneStory, Logged
  <2>3. NonceInv' /\ SlotInv' BY <2>1 DEF NonceInv, SlotInv, Active
  <2>4. HubInv' BY <2>1 DEF HubInv, Active
  <2> QED BY <2>2, <2>3, <2>4
<1>5. ASSUME NEW opened \in BOOLEAN, BuilderBoot(opened)
      PROVE  HubInv' /\ LogInv' /\ NonceInv' /\ SlotInv' /\ RunsInv' /\ OneStory'
  <2> USE <1>5 DEF BuilderBoot, IInv
  <2>1. \A s \in Slots : slot[s] = Free BY DEF NonceInv
  <2>2. LogInv' /\ RunsInv' /\ OneStory' /\ SlotInv' /\ HubInv'
    BY DEF LogInv, RunsInv, OneStory, SlotInv, HubInv, Active, Logged
  <2>3. opened => \A i \in 1..Len(log) : Covers(boot, log[i].id)' \/ Closed(log[i].id)'
    <3> SUFFICES ASSUME opened, NEW i \in 1..Len(log)
                 PROVE  Covers(boot, log[i].id)' \/ Closed(log[i].id)'
      OBVIOUS
    <3>1. boot' = Preloaded(now) OBVIOUS
    <3> QED BY <3>1, BootCovers DEF Covers, Closed
  <2>4. NonceInv' BY <2>1, <2>3 DEF NonceInv
  <2> QED BY <2>2, <2>4
<1>6. ASSUME NEW id \in Ids, Lose(id)
      PROVE  HubInv' /\ LogInv' /\ NonceInv' /\ SlotInv' /\ RunsInv' /\ OneStory'
  <2> USE <1>6 DEF Lose, IInv, TypeOK
  <2>1. HubInv' BY DEF HubInv, Active
  <2> QED BY <2>1, BuilderUnmoved
<1>7. CASE UNCHANGED vars
  <2>1. HubInv' BY <1>7 DEF vars, IInv, HubInv, Active
  <2> QED BY <1>7, <2>1, BuilderUnmoved DEF vars
<1> QED BY <1>1, <1>2, <1>3, <1>4, <1>5, <1>6, <1>7, HubSteps, ArriveSteps,
           DispatchSteps DEF Next

LEMMA InductiveInvariant == Spec => []IInv
<1>1. Init => IInv BY InitInv
<1>2. IInv /\ [Next]_vars => IInv' BY NextInv
<1> QED BY <1>1, <1>2, PTL DEF Spec

\* However often an envelope arrives and the builder restarts, its action runs
\* at most once: the replay window that nonces.mjs, checkTs and preloadNonces
\* close between them.
THEOREM RunsAtMostOnce == Spec => []AtMostOnce
<1>1. IInv => AtMostOnce BY DEF IInv, RunsInv, AtMostOnce
<1> QED BY <1>1, InductiveInvariant, PTL

\* The builder's log tells one story per id (the order of dispatch's entries).
THEOREM LogTellsOneStory == Spec => []OneStory
<1>1. IInv => OneStory BY DEF IInv
<1> QED BY <1>1, InductiveInvariant, PTL

\* What ran is on record on both sides (dispatch's `start`, the relay's `sent`).
THEOREM RunsAreRecorded == Spec => []RunIsRecorded
<1>1. IInv => RunIsRecorded
  <2> SUFFICES ASSUME IInv, NEW id \in Ids, runs[id] > 0
               PROVE  Logged(id, "start") /\ hubAudit[id] # "none"
    BY DEF RunIsRecorded
  <2>1. Logged(id, "start") BY DEF IInv, RunsInv
  <2>2. hubAudit[id] = "none" => runs[id] = 0 BY DEF IInv, HubInv
  <2> QED BY <2>1, <2>2
<1> QED BY <1>1, InductiveInvariant, PTL

\* The relay's `ok` and `not sent` are never wrong (errorName, sendAs).
THEOREM VerdictsAreTrue == Spec => []VerdictIsTrue
<1>1. IInv => VerdictIsTrue
  BY DEF IInv, HubInv, VerdictIsTrue, Active
<1> QED BY <1>1, InductiveInvariant, PTL

=============================================================================
