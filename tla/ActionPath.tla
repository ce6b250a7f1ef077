----------------------------- MODULE ActionPath -----------------------------
(***************************************************************************)
(* The way of one signed action from the hub to a builder and back:        *)
(*                                                                         *)
(*   hub/relay.mjs sendAs     audit `sent`, POST once, audit `done`        *)
(*   the network              loses, delays, duplicates and reorders       *)
(*   fleet/auth.mjs           timestamp window and nonce caches            *)
(*   fleet/dispatch.mjs       checks, `start` entry, run, outcome entry    *)
(*   fleet/api-v1.mjs         opens the log at boot, preloads the nonces   *)
(*                                                                         *)
(* Both processes crash and restart at any point; the builder's audit log  *)
(* is the only thing it keeps.  The relay runs once per id (a new UUID).   *)
(***************************************************************************)
EXTENDS Integers, Sequences, FiniteSets

CONSTANTS Ids,        \* envelope ids, one per relayed action
          Slots,      \* requests the builder can be handling at a time
          Skew,       \* fleet.clockSkewMs
          Ttl,        \* how long a nonce cache keeps a nonce
          Preload,    \* how far back the log is read at boot
          BudgetMax,  \* live nonces one key's budget holds
          BootMax,    \* live nonces the boot cache holds
          Drift,      \* how far the hub's clock is from the builder's
          MaxTime     \* bound on the builder's clock

ASSUME IdsFinite    == IsFiniteSet(Ids)
ASSUME WindowsTyped == /\ {Skew, Ttl, Preload, Drift, MaxTime} \subseteq Nat
                       /\ {BudgetMax, BootMax} \subseteq Nat

\* What the constants of the code and the limits of its configuration give:
\* a nonce (300 s) and the preload (300 s) outlive the whole window of an
\* envelope (2 * 120 s at most), and the boot cache has room for the ids it
\* is given.
ASSUME WindowsCover == /\ Ttl >= 2 * Skew
                       /\ Preload >= 2 * Skew
                       /\ Cardinality(Ids) <= BootMax

VARIABLES
  now,       \* the builder's clock
  sentTs,    \* the `ts` the hub signed into each envelope
  hub,       \* where the hub's call of sendAs for an id is
  hubAudit,  \* what the hub's audit log says of an id
  wire,      \* ids of which a copy may still reach the builder
  answers,   \* <<id, answer>> on their way back
  up,        \* the builder's process runs
  auditOpen, \* its audit log could be opened at boot
  slot,      \* the requests in dispatch
  budget,    \* nonce cache of (purpose 'action', this key): id -> retainFrom
  boot,      \* boot nonce cache: id -> retainFrom
  log,       \* the builder's audit log
  runs       \* how often the action of an id was executed

hubVars     == <<sentTs, hub, hubAudit>>
netVars     == <<wire, answers>>
builderVars == <<up, auditOpen, slot, budget, boot, log, runs>>
vars        == <<now, sentTs, hub, hubAudit, wire, answers, up, auditOpen,
                 slot, budget, boot, log, runs>>

Answers  == {"ok", "refused"}
HubStep  == {"new", "sent", "posted", "done", "crashed"}
HubFacts == {"none", "sent", "ok", "refused", "unsent", "unknown"}
Phases   == {"start", "done", "refused"}
Entries  == [id : Ids, ts : Nat, phase : Phases]

Free         == [st |-> "free"]
Busy(st, id) == [st |-> st, id |-> id]
SlotStates   == {Free} \cup [st : {"checking", "started", "ranOk", "ranFailed"}, id : Ids]

(***************************************************************************)
(* Nonce caches.  An id that is not held has a retainFrom so old that it   *)
(* is expired at any time, so dropping an expired nonce changes nothing.   *)
(***************************************************************************)
Never == -1 - Ttl

Held(cache, id, t) == t - cache[id] <= Ttl

HeldIds(cache, t) == {id \in Ids : Held(cache, id, t)}

\* `add`: kept from max(ts, now), the future part clamped to the ttl
RetainFrom(ts, t) == LET base == IF ts > t THEN ts ELSE t
                     IN  IF base > t + Ttl THEN t + Ttl ELSE base

RecentIds(n, since) == {log[i].id : i \in {j \in 1..n : log[j].ts >= since}}

\* The preload goes back one skew only.
Preloaded_WindowTooShort(t) ==
  [id \in Ids |->
     IF \E i \in 1..Len(log) : log[i].id = id /\ log[i].ts >= t - Skew
     THEN t ELSE Never]

\* The boot cache a restart builds: ids of the entries of the last Preload
\* milliseconds, in chain order, until the cache answers `full`.
Preloaded(t) ==
  [id \in Ids |->
     IF \E i \in 1..Len(log) : /\ log[i].id = id
                               /\ log[i].ts >= t - Preload
                               /\ Cardinality(RecentIds(i, t - Preload)) <= BootMax
     THEN t ELSE Never]

NoNonces == [id \in Ids |-> Never]

(***************************************************************************)
(* What the builder decides on an envelope that arrives.                   *)
(***************************************************************************)
\* An envelope from the future is not stale.
FreshTs_PastOnly(id) == now - sentTs[id] <= Skew

FreshTs(id) == /\ now - sentTs[id] <= Skew
               /\ sentTs[id] - now <= Skew

NewNonce(id) == /\ ~ Held(boot, id, now)
                /\ ~ Held(budget, id, now)

BudgetRoom == Cardinality(HeldIds(budget, now)) < BudgetMax

Verified(id) == FreshTs(id) /\ NewNonce(id) /\ BudgetRoom

-----------------------------------------------------------------------------
Init ==
  /\ now = 0
  /\ sentTs = [id \in Ids |-> 0]
  /\ hub = [id \in Ids |-> "new"]
  /\ hubAudit = [id \in Ids |-> "none"]
  /\ wire = {}
  /\ answers = {}
  /\ up = TRUE
  /\ auditOpen = TRUE
  /\ slot = [s \in Slots |-> Free]
  /\ budget = NoNonces
  /\ boot = NoNonces
  /\ log = <<>>
  /\ runs = [id \in Ids |-> 0]

Tick ==
  /\ now < MaxTime
  /\ now' = now + 1
  /\ UNCHANGED <<hubVars, netVars, builderVars>>

(***************************************************************************)
(* The hub: sendAs.                                                        *)
(***************************************************************************)

\* The envelope is signed and the `sent` entry is in the hub's log.
RelaySend(id) ==
  /\ hub[id] = "new"
  /\ \E ts \in {t \in 0..(now + Drift) : now <= t + Drift} :
       sentTs' = [sentTs EXCEPT ![id] = ts]
  /\ hub' = [hub EXCEPT ![id] = "sent"]
  /\ hubAudit' = [hubAudit EXCEPT ![id] = "sent"]
  /\ UNCHANGED <<now, netVars, builderVars>>

\* Fail closed: an action the hub cannot record is not sent.
RelayAuditFails(id) ==
  /\ hub[id] = "new"
  /\ hub' = [hub EXCEPT ![id] = "done"]
  /\ UNCHANGED <<now, sentTs, hubAudit, netVars, builderVars>>

Post(id) ==
  /\ hub[id] = "sent"
  /\ hub' = [hub EXCEPT ![id] = "posted"]
  /\ wire' = wire \cup {id}
  /\ UNCHANGED <<now, sentTs, hubAudit, answers, builderVars>>

\* The `done` entry; when its append fails the caller is told, the log is not.
Finish(id, fact) ==
  /\ hub' = [hub EXCEPT ![id] = "done"]
  /\ \/ hubAudit' = [hubAudit EXCEPT ![id] = fact]
     \/ UNCHANGED hubAudit

\* A connection that breaks later is taken for one that was never made.
ConnectFails_AnyError(id) ==
  /\ hub[id] \in {"sent", "posted"}
  /\ Finish(id, "unsent")
  /\ UNCHANGED <<now, sentTs, netVars, builderVars>>

\* No connection was made (ECONNREFUSED, ENOTFOUND, ...): nothing was sent.
ConnectFails(id) ==
  /\ hub[id] = "sent"
  /\ Finish(id, "unsent")
  /\ UNCHANGED <<now, sentTs, netVars, builderVars>>

TakeAnswer(id) ==
  /\ hub[id] = "posted"
  /\ \E a \in Answers : /\ <<id, a>> \in answers
                        /\ answers' = answers \ {<<id, a>>}
                        /\ Finish(id, a)
  /\ UNCHANGED <<now, sentTs, wire, builderVars>>

\* No timeout: only a connection that breaks ends the call.
NoAnswer_NoTimeout(id) ==
  /\ hub[id] = "posted"
  /\ ~ up
  /\ Finish(id, "unknown")
  /\ UNCHANGED <<now, sentTs, netVars, builderVars>>

\* The error's name is recorded as the outcome.
NoAnswer_ErrorAsFact(id) ==
  /\ hub[id] = "posted"
  /\ Finish(id, "timeout")
  /\ UNCHANGED <<now, sentTs, netVars, builderVars>>

\* The timeout, a broken connection or an answer that cannot be read.
NoAnswer(id) ==
  /\ hub[id] = "posted"
  /\ Finish(id, "unknown")
  /\ UNCHANGED <<now, sentTs, netVars, builderVars>>

\* A restart of the hub forgets every call it was in.
HubCrash ==
  /\ \E id \in Ids : hub[id] \in {"sent", "posted"}
  /\ hub' = [id \in Ids |-> IF hub[id] \in {"sent", "posted"} THEN "crashed" ELSE hub[id]]
  /\ UNCHANGED <<now, sentTs, hubAudit, netVars, builderVars>>

(***************************************************************************)
(* The network.  A copy stays on the wire until it is lost, so an envelope *)
(* may arrive late, more than once, and after a restart of the builder.    *)
(***************************************************************************)
Lose(id) ==
  /\ id \in wire
  /\ wire' = wire \ {id}
  /\ UNCHANGED <<now, hubVars, answers, builderVars>>

LoseAnswer ==
  /\ \E m \in answers : answers' = answers \ {m}
  /\ UNCHANGED <<now, hubVars, wire, builderVars>>

(***************************************************************************)
(* The builder: postAction and dispatch.                                   *)
(***************************************************************************)
Line(id, phase) == [id |-> id, ts |-> now, phase |-> phase]

Record(id, phase) == log' = Append(log, Line(id, phase))

Answer(id, a) == answers' = answers \cup {<<id, a>>}

\* verifyEnvelope refuses (stale, replay, nonce-cache-full); not audited.
ReceiveRefused(id) ==
  /\ up /\ id \in wire
  /\ ~ Verified(id)
  /\ Answer(id, "refused")
  /\ UNCHANGED <<now, hubVars, wire, builderVars>>

\* Verified, its nonce spent, but there is no audit log: 503.
ReceiveUnavailable(id) ==
  /\ up /\ id \in wire
  /\ Verified(id)
  /\ ~ auditOpen
  /\ budget' = [budget EXCEPT ![id] = RetainFrom(sentTs[id], now)]
  /\ Answer(id, "refused")
  /\ UNCHANGED <<now, hubVars, wire, up, auditOpen, slot, boot, log, runs>>

\* Verified: dispatch starts its checks, some of which are awaited.
Receive(id, s) ==
  /\ up /\ id \in wire
  /\ Verified(id)
  /\ auditOpen
  /\ slot[s] = Free
  /\ budget' = [budget EXCEPT ![id] = RetainFrom(sentTs[id], now)]
  /\ slot' = [slot EXCEPT ![s] = Busy("checking", id)]
  /\ UNCHANGED <<now, hubVars, netVars, up, auditOpen, boot, log, runs>>

\* An append that throws leaves no line, or the whole line (its fsync failed).
\* A check refuses, or the append of the `start` entry throws: the action does
\* not run.  The refusal is audited too, if the log takes it.
Refuse(s) ==
  /\ slot[s].st = "checking"
  /\ \/ Record(slot[s].id, "refused")
     \/ Record(slot[s].id, "start")
     \/ log' = log \o <<Line(slot[s].id, "start"), Line(slot[s].id, "refused")>>
     \/ UNCHANGED log
  /\ Answer(slot[s].id, "refused")
  /\ slot' = [slot EXCEPT ![s] = Free]
  /\ UNCHANGED <<now, hubVars, wire, up, auditOpen, budget, boot, runs>>

\* A `start` entry that cannot be written is only logged.
Start_AuditOptional(s) ==
  /\ slot[s].st = "checking"
  /\ Record(slot[s].id, "start") \/ UNCHANGED log
  /\ slot' = [slot EXCEPT ![s] = Busy("started", slot[s].id)]
  /\ UNCHANGED <<now, hubVars, netVars, up, auditOpen, budget, boot, runs>>

\* The pre-action entry is on disk.
Start(s) ==
  /\ slot[s].st = "checking"
  /\ Record(slot[s].id, "start")
  /\ slot' = [slot EXCEPT ![s] = Busy("started", slot[s].id)]
  /\ UNCHANGED <<now, hubVars, netVars, up, auditOpen, budget, boot, runs>>

\* The action runs and returns or throws.
Execute(s) ==
  /\ slot[s].st = "started"
  /\ runs' = [runs EXCEPT ![slot[s].id] = @ + 1]
  /\ \E st \in {"ranOk", "ranFailed"} : slot' = [slot EXCEPT ![s] = Busy(st, slot[s].id)]
  /\ UNCHANGED <<now, hubVars, netVars, up, auditOpen, budget, boot, log>>

\* The outcome entry; when its append fails the answer says `auditFailed`.
Outcome(s) ==
  /\ slot[s].st \in {"ranOk", "ranFailed"}
  /\ \/ Record(slot[s].id, "done")
     \/ UNCHANGED log
  /\ Answer(slot[s].id, IF slot[s].st = "ranOk" THEN "ok" ELSE "refused")
  /\ slot' = [slot EXCEPT ![s] = Free]
  /\ UNCHANGED <<now, hubVars, wire, up, auditOpen, budget, boot, runs>>

BuilderCrash ==
  /\ up
  /\ up' = FALSE
  /\ auditOpen' = FALSE
  /\ slot' = [s \in Slots |-> Free]
  /\ budget' = NoNonces
  /\ boot' = NoNonces
  /\ UNCHANGED <<now, hubVars, netVars, log, runs>>

\* initV1, before the builder listens.
BuilderBoot(opened) ==
  /\ ~ up
  /\ up' = TRUE
  /\ auditOpen' = opened
  /\ boot' = IF opened THEN Preloaded(now) ELSE NoNonces
  /\ UNCHANGED <<now, hubVars, netVars, slot, budget, log, runs>>

-----------------------------------------------------------------------------
Hub(id) == \/ RelaySend(id)
           \/ RelayAuditFails(id)
           \/ Post(id)
           \/ ConnectFails(id)
           \/ TakeAnswer(id)
           \/ NoAnswer(id)

Arrive(id) == \/ ReceiveRefused(id)
              \/ ReceiveUnavailable(id)
              \/ \E s \in Slots : Receive(id, s)

Dispatch(s) == \/ Refuse(s)
               \/ Start(s)
               \/ Execute(s)
               \/ Outcome(s)

Next ==
  \/ Tick
  \/ HubCrash
  \/ LoseAnswer
  \/ BuilderCrash
  \/ \E opened \in BOOLEAN : BuilderBoot(opened)
  \/ \E id \in Ids : Hub(id) \/ Lose(id) \/ Arrive(id)
  \/ \E s \in Slots : Dispatch(s)

Spec == Init /\ [][Next]_vars

\* The hub's event loop runs a call it is in, and its timeout fires.
FairSpec == Spec /\ \A id \in Ids : /\ WF_vars(Post(id) \/ ConnectFails(id))
                                    /\ WF_vars(NoAnswer(id))

-----------------------------------------------------------------------------
Clamped == \A id \in Ids : budget[id] <= now + Ttl /\ boot[id] <= now

\* Every variable has its type; a nonce is kept from no time that is further
\* ahead than the ttl, one of the boot cache from none ahead of the clock (the
\* clamp in nonces.mjs `add`, and api-v1.mjs `preloadNonces`).
TypeOK ==
  /\ now \in Nat
  /\ sentTs \in [Ids -> Nat]
  /\ hub \in [Ids -> HubStep]
  /\ hubAudit \in [Ids -> HubFacts]
  /\ wire \subseteq Ids
  /\ answers \subseteq Ids \X Answers
  /\ up \in BOOLEAN
  /\ auditOpen \in BOOLEAN
  /\ slot \in [Slots -> SlotStates]
  /\ budget \in [Ids -> Int]
  /\ boot \in [Ids -> Int]
  /\ Clamped
  /\ log \in Seq(Entries)
  /\ runs \in [Ids -> Nat]

Logged(id, phase) == \E i \in 1..Len(log) : log[i].id = id /\ log[i].phase = phase

\* An action runs at most once, however often its envelope arrives and
\* however often the builder restarts between two arrivals: the timestamp
\* window, the nonce caches and the ids preloaded from the audit log leave no
\* gap between them (nonces.mjs, auth.mjs checkTs, api-v1.mjs preloadNonces).
AtMostOnce == \A id \in Ids : runs[id] <= 1

\* The audit log tells one story per id, and a true one: at most a start and
\* then one entry that ends it; a `done` only after its start and of an action
\* that ran; a refusal, which may follow a start whose append threw with its
\* line on disk, only of an action that did not run (dispatch.mjs).
OneStory ==
  /\ \A i, j \in 1..Len(log) :
       i < j /\ log[i].id = log[j].id => /\ log[i].phase = "start"
                                         /\ log[j].phase # "start"
  /\ \A j \in 1..Len(log) :
       log[j].phase = "done" => /\ runs[log[j].id] > 0
                                /\ \E i \in 1..(j - 1) : /\ log[i].id = log[j].id
                                                         /\ log[i].phase = "start"
  /\ \A j \in 1..Len(log) : log[j].phase = "refused" => runs[log[j].id] = 0

\* Nothing runs off the record: an action that was executed has its `start`
\* entry on the builder and its `sent` entry on the hub, whatever crashed
\* since (dispatch.mjs `append({phase: 'start'})`, relay.mjs `sent`).
RunIsRecorded ==
  \A id \in Ids : runs[id] > 0 => Logged(id, "start") /\ hubAudit[id] # "none"

\* The hub's `done` entry never misleads: `ok` means that the action ran, and
\* "not sent" (ok false, no status) that it has not run and never will, so
\* an operator may repeat it (relay.mjs NOT_SENT_CODES, errorName).
VerdictIsTrue ==
  \A id \in Ids : /\ hubAudit[id] = "ok" => runs[id] > 0
                  /\ hubAudit[id] = "unsent" => /\ runs[id] = 0
                                                /\ id \notin wire
                                                /\ \A s \in Slots : slot[s] # Free => slot[s].id # id

(***************************************************************************)
(* The inductive strengthening of the four invariants above.               *)
(***************************************************************************)
Active(s, id) == slot[s] # Free /\ slot[s].id = id

Covers(cache, id) == cache[id] + Ttl >= sentTs[id] + Skew

\* No time is left at which an arriving copy of the envelope is still fresh.
Closed(id) == now > sentTs[id] + Skew

\* The hub only has a verdict when it is told; before it posts, no trace of
\* the id is anywhere.
HubInv ==
  \A id \in Ids :
    /\ hub[id] = "new" => hubAudit[id] = "none"
    /\ hub[id] \in {"sent", "posted"} => hubAudit[id] = "sent"
    /\ \/ hub[id] \in {"new", "sent"}
       \/ hubAudit[id] \in {"none", "unsent"}
       => /\ id \notin wire
          /\ runs[id] = 0
          /\ \A s \in Slots : ~ Active(s, id)
          /\ \A i \in 1..Len(log) : log[i].id # id
    /\ <<id, "ok">> \in answers => runs[id] > 0
    /\ hubAudit[id] = "ok" => runs[id] > 0

\* Log entries are never ahead of the clock, and never from before the
\* envelope's window.
LogInv ==
  \A i \in 1..Len(log) : /\ log[i].ts <= now
                         /\ log[i].ts + Skew >= sentTs[log[i].id]

\* An id that is in dispatch or in the log cannot be accepted again.
NonceInv ==
  /\ \A s \in Slots : slot[s] # Free =>
       /\ up /\ auditOpen
       /\ Covers(budget, slot[s].id)
       /\ now + Skew >= sentTs[slot[s].id]
  /\ up /\ auditOpen => \A i \in 1..Len(log) :
       Covers(budget, log[i].id) \/ Covers(boot, log[i].id) \/ Closed(log[i].id)

\* How far the request in a slot has come is what the log says of its id.
SlotInv ==
  /\ \A s, t \in Slots : \A id \in Ids : Active(s, id) /\ Active(t, id) => s = t
  /\ \A s \in Slots :
       /\ slot[s].st = "checking" =>
            \A i \in 1..Len(log) : log[i].id # slot[s].id
       /\ slot[s].st \in {"started", "ranOk", "ranFailed"} =>
            /\ Logged(slot[s].id, "start")
            /\ \A i \in 1..Len(log) : log[i].id = slot[s].id => log[i].phase = "start"
       /\ slot[s].st = "started" => runs[slot[s].id] = 0
       /\ slot[s].st \in {"ranOk", "ranFailed"} => runs[slot[s].id] = 1

RunsInv == \A id \in Ids : /\ runs[id] <= 1
                           /\ runs[id] > 0 => Logged(id, "start")

IInv == TypeOK /\ HubInv /\ LogInv /\ NonceInv /\ SlotInv /\ RunsInv /\ OneStory

\* A call of the relay ends, with the builder down, silent or gone: the hub
\* answers its caller, unless the hub itself is restarted first.
RelayEnds ==
  \A id \in Ids : hub[id] \in {"sent", "posted"} ~> hub[id] \in {"done", "crashed"}

=============================================================================
