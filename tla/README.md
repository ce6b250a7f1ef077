# Laneboard in TLA+

Laneboard runs Claude sessions ("lanes") on several machines (*builders*) and
shows and steers them from one *hub*. Both are Node processes: single-threaded
event loops, whose handlers interleave at every `await`, and which talk over
HTTP and WebSockets. This directory holds TLA+ models of the parts whose
correctness does not show in a unit test, the TLC configurations that check
them and the theorems TLAPS proves about them. Paths are relative to the
repository; `server/` is its server code.

Run `tlc -config X.cfg M` in this directory to check a model and `tlapm M.tla`
to check the proofs of a module. `PROJECT.json` lists the runs, which source
lines each definition stands for, the mutations that show that each property
can fail, the hazards the properties are for and the findings.

## The system

| Component | State it keeps | Operations | What makes it hard | What makes it correct |
|---|---|---|---|---|
| Signed action path: `hub/relay`, `fleet/auth`, `nonces`, `dispatch`, `api-v1` | nonce caches in memory, the audit log on disk | relay, verify, check, start, run, record, boot | lost, late and repeated requests; timeouts; restarts of both ends; two clocks | runs at most once, always on the record, the hub's log never misleads |
| Audit log: `fleet/audit` | files chained by hashes, a cached head, a lock file | append, rotate, recover, verify, read | crashes and power losses between system calls, failed calls | acknowledged entries are never lost or moved |
| Audit reconciliation: `hub/audit-reconcile` | per builder: anchor, fork, index of matches, replayed from the hub's log | pull, anchor, raise a fork, rebase, replay, report | pages and operators interleave with a log that changes; restarts | no false alarm, every rewrite seen, progress |
| Fleet kill on the hub: `hub/fleetkill` | jobs, timers, held retries | pause all, undo, kill, retry | undo racing sends, retries of an old job racing a new one | an undone kill kills nobody; the kill reaches whom the pause reached |
| Kill switch of a builder: `control/killswitch` | jobs in memory, the inventory of sessions | interrupt, wait out a grace, choose victims, kill, cancel, stop | each answer of tmux is awaited, and sessions, cancels and shutdowns come in between | a cancel is final; nobody who should die is left |
| Pause and budget: `control/pause`, `control/budget`, `control/handlers` | sentinel files, rows of marks, overrides and remembered holds | pause, resume, override, set a cap, tick, quota guard | a command line in another process, ticks against operators, a crash inside a tick | an operator's pause is never lifted by the budget; an override lasts its window; a cap holds |
| Approvals: `control/approvals`, `routes/approvals` | held hook requests, a counter of bodies being read | arrive, hold, decide, expire, supersede, disconnect, restart | a decision racing a timeout, a disconnect or the agent's own answer | one answer per request, and the record tells it; nothing is held for nobody |
| Cockpit room: `cockpit/bridge`, `cockpit/session`, `cockpit/link` | an agent's child process, its turn, the prompts written to it, timers of stops and renewals | prompt, take, end, stop, renew, restart, kill | an agent that dies, is silent, ignores signals or answers late, at any moment | every turn ends on the screens; there is always somebody who acts next |
| Upstream link: `hub/upstream`, `fleet/stream`, `hub/fleet-store` | sequence numbers, epoch, ring of frames, merged view | connect, snapshot, delta, resync, backoff | reconnects, restarts (new epoch), frames during a snapshot | the hub's view becomes the builder's state |
| Rate limits: `fleet/ratelimit` | GCRA buckets | take | several buckets per call, fan-out parents | no bucket is charged by a refused call |
| Alarms: `fleet/alarms`, `alarms-store` | live alarms | derive, reconcile, acknowledge | restarts, flapping | one raise per episode, an acknowledgement survives |
| Hub link to browsers: `hub/client-ws`, `ws` | clients, scopes | connect, scope, broadcast | ordering of snapshot and deltas | a client's view is the store's |
| Terminals: `hub/term-proxy`, `terminals` | sockets | attach, pipe, close | half-open pairs, backpressure | both ends close |
| Lanes, runs, review, collectors, packages | records and views | jobs of git and tmux commands, parsing | partial failure of a job | later, or not modelled (see below) |

**Interaction.** A browser's request goes to the hub's relay, which records it
in the hub's audit log, signs it and posts it to a builder. The builder
verifies it, checks it, records a `start` entry, runs it and records the
outcome in its own audit log. The reconciliation pulls that log through the
signed read proxy and compares it with the hub's. The fleet kill is a hub
action that sends many such requests; on the builder they become a pause, a
resume or a job of its own kill switch, which writes the same pause sentinels
as operators, the budget's ticks and the command line. A hook of an agent on the
builder posts a permission request and waits for the answer that a user gives
through the hub. The upstream link carries the builder's state to the hub's
store, from which the browser link and the alarms are fed. The cockpit room is
apart from all this: one agent's child process, a bridge that speaks to it, a
supervisor that starts and ends it, and screens that are linked to them.

## Modules

| Module | What it is |
|---|---|
| `ActionPath` | one signed action from the hub to a builder and back |
| `MCActionPath` | its instances for TLC |
| `ActionPathProofs` | its inductive invariant and theorems |
| `AuditChain` | what an audit log promises, without files |
| `AuditLog` | the log on disk, which implements `AuditChain` |
| `MCAuditLog` | its instances for TLC |
| `AuditLogProofs` | what verification finds, the writer's invariant, the refinement |
| `AuditReconcile` | the hub following a builder's log |
| `MCAuditReconcile` | its instances for TLC |
| `AuditReconcileProofs` | its inductive invariants and theorems |
| `FleetKill` | fleet kills with undo and retries, on the hub |
| `MCFleetKill` | its instances for TLC |
| `FleetKillProofs` | its inductive invariant and theorems |
| `Pause` | the pause sentinels of a builder, and the command line |
| `Budget` | caps, ticks, overrides and the quota guard, which extends `Pause` |
| `KillSwitch` | a builder's kill jobs, which extends `Pause` |
| `Control` | the three composed: one builder's control plane |
| `MCControl` | its instances for TLC |
| `ControlProofs` | its inductive invariant and theorems |
| `Approvals` | held permission requests: the queue and the intake route |
| `MCApprovals` | its instance for TLC |
| `ApprovalsProofs` | its inductive invariant and theorems |
| `Bridge` | the cockpit's bridge to its agent: child, turn, prompts |
| `Cockpit` | the supervisor over the bridge |
| `MCCockpit` | its instances for TLC |
| `CockpitProofs` | its inductive invariant and theorems |
| `Stream` | what a builder sends: ticks, the diff baseline, numbered frames |
| `Upstream` | the hub's end of the stream, which extends `Stream` |
| `MCUpstream` | its instances for TLC |
| `UpstreamProofs` | its inductive invariant and theorems |

`AuditLog` is the log `ActionPath` writes with `Record` and the hub's log
`AuditReconcile` writes with `Logged`; both take from it what `AuditChain`
promises (an entry whose append returned stays where it is) and that an append
may fail. `AuditReconcile` abstracts `ActionPath` to `RelayLogs` and
`BuilderAppends`. `FleetKill` sends many of the requests that `ActionPath`
follows one by one, and takes from it that a send ends. `Control` is the
builder such a request reaches: `RunPause`, `RunResume`, `KillAll` and `Cancel`
are what `Execute` leaves open in `ActionPath`.

### ActionPath

`hub[id]` is the program counter of `sendAs` for one envelope; `hubAudit[id]`
what the hub's log says of it. `RelaySend`, `Post`, `ConnectFails`,
`TakeAnswer`, `NoAnswer` are the stretches of `sendAs` between its awaits.
`wire` holds the envelopes of which a copy may still arrive: one that arrives
stays there, so copies come again, late, in any order and after a restart.
`Receive*` is `postAction` up to the first await of `dispatch`: freshness,
both nonce caches, the key's budget and the audit log's availability.
`slot[s]` is one request in `dispatch`: `checking` (all checks, some awaited),
`started` (its `start` entry is on disk), `ranOk`/`ranFailed`, and free again
after the outcome entry. `BuilderBoot` is `initV1`: open the log, preload
the ids of its recent entries into the boot cache. An append may throw before
its line is written (`Record` does nothing) or after it, in its fsync (`Line`
is written all the same): `Start` then counts as failed, the action does not
run, and a refusal of the same id follows the start. `OneStory` allows that
pair, and only for an action that did not run.

A nonce cache is a function from ids to `retainFrom` with a default so old that
it has expired; a dropped nonce and an expired one are the same. Ids are UUIDs
made by the hub for each action, so the model relays each once. What the
action does, the text of the checks, the signature and the rate limits are
abstracted: a check refuses or not.

Assumptions (`WindowsCover`): ttl and preload are at least twice the skew (the
code has 300 s, 300 s, and a configured skew of at most 120 s), and the boot
cache has room for the ids. The clock of the builder never goes back.

### AuditLog and AuditChain

The file system is three variables: `dir` (names to files), `disk` (what the
operating system sees) and `synced` (what the last fsync made durable), with
`dirs` the directories a power loss may leave. Lines are whole entries, torn
lines, and entries glued to a torn line; an entry's hash is its number, so
`prev` names the entry it chains onto. `append` is split at its system calls
(`Begin`, `Write`, `Fsync`, and the steps of `rotate`: `Link`, `Create`,
`Fill`, `Rename`, `Reopen`), each with its failure. `Crash` keeps what was
written, `PowerLoss` what was synced and any part of the rest. `found` is
what verification finds, with the code's walk over the files and its rule for
torn lines.

`AuditChain` says what a user of the log may rely on: `Extend`, `Ack`, `Lose`
(never a safe entry) and `StartOver`. The last is tied to the operator: `era`
counts how often the log was moved aside by hand, only `MoveAside` moves it, and
only a step that moves it may start the chain over. `KeepsPromise` is the
refinement, with the chain that verification finds, the position of the last
acknowledged entry in it, and `era`.

The model takes a journaling file system: names become durable in order, and
an fsync makes the earlier ones durable. `Writeback` says whether files that
are no longer written reach the disk before a power loss (kernels write dirty
pages back within half a minute); the passing run and the refinement theorem assume
it, and finding 5 shows why they must. Without power losses nothing is assumed
(`CrashesLoseNothing`). One writer is assumed (the lock file).

### AuditReconcile

`blog` is the builder's log, which the builder appends to, and which an
operator may move aside or restore from a backup (`BuilderRewrites`). `durable`
is what a replay of the hub's log gives, `tail` its entries the hub has not
scanned since it wrote them, `mem` what the hub holds in memory: scanning folds
`Note` over `tail`, a restart replaces `mem` by `durable`. `pull` is one
`pullOnce`: asked (an await), answered, then either the next page or the
end, which is one synchronous stretch: `RaiseFork`, `EndWithoutAnchor`,
`EndWithAnchor` or `AnchorFails`. The builder's answer is computed when it
answers and used later; everything may happen in between. `ReadHead` and
`RebaseToHead` are the two halves of `rebaseToHead`.

Every scan of the hub's own log may fail (`ScanEnds`, `After`, `Unread`):
`scanHub` logs that and returns, and the pull goes on with the facts it had. A
hub that restarts and cannot read its log starts with nothing (`NothingRead`) and
takes the whole of it in a later scan, over what it found meanwhile (`Resumed`).
The relay may give up on an action (`RelayGivesUp`: a timeout, a broken
connection, the hub's end with the request in flight): its outcome stays unknown
or its `done` is never written, and it is judged all the same when it has settled
(`Settled`, after `stateOf`). `NoFalseAlarm` says of such an action only that it is
not in the part of the builder's log the hub has read, since the builder may still
record it.

The scan that an indexing relies on may be the one that fails. What that pull
reads is then taken for unknown to the hub and never looked at again: one failed
read gives a false `unknown-on-hub` and, once the action is judged, a false
`missing-on-builder`, where `audit-reconcile.mjs:38-45` promises neither. The
observer `blind` marks a pull that was indexed so, until the next rebase, and the
two properties leave that out, and nothing else.

Abstracted: several builders (they share nothing but the hub's log), the
comparison of outcomes, the cap of the index, a hub log that is moved aside or
whose unread part is longer than a page, the grace times (an action may be judged
at once, which is stricter), and answers no honest builder gives.

### FleetKill

`job[j]` is one `start`: its `state` is the code's (`pausing`, `cancelling`,
`pending`, `killing` and the final ones), `pause`, `resume` and `kill` have one
row per builder (not sent, `out`, or the outcome), `undone` stands for an
accepted undo, `cancelRequested` for one that came during the pauses, `over`
for `supersededBy`. `retry` is the entry that `later` keeps for the job and the
loop its timer starts: `armed` on its timer, `held` by a newer start,
`running` with the builder it waits for in `cur` and those to come in `todo`.

The hub is one event loop, so what it does after the last answer of a phase
(`PausesIn`, `UndoEnds`, the end of the kill) belongs to the action that takes
that answer. `Start` and `UndoPending` choose the builders that are up at that
moment. Answers, timers, undos, newer starts and `Stop` come in any order.

Left out: what a builder does with an action (that is `Control`), the
clock (a timer may fire at any moment, so a retry's due time is no state), the
`include` keys, who may undo, the audit notes, the pruning of old jobs and the
path for a relay that cannot send to single builders. The order in which a loop
takes its builders is left open.

### Pause, Budget, KillSwitch and Control

`sentinel[c]` is the kind of the file of scope `c` (a session, or the whole
builder), or none. A file call is a step. The handlers of the server do not
interleave with each other (`Idle`), but the command line works on the same files
from its own process: it reads in `CliRead` and writes in `CliWrite`, and it comes
between the reads and the writes of the server too, where a handler that has
decided on a call holds it in `call`. `holds` is a history variable: the scopes
for which an operator has written a pause and nobody has resumed, but for those
that were written under a call of the server's on the same file (it overwrites
them unseen) and those a tick has forgotten because it ended before it saved.

A budget tick is `TickBegins`, one `Row` per scope (its look at the sentinel and
what it remembers), each pause or lift in a call of its own (`WriteCall`,
`UnlinkCall`, and a `restore` after a lift), `Save` (the remembered holds go into
their row), the `Quota` rows and `TickEnds`. It may fail between any two of these
(`TickFails`: `routes/budget.mjs:63` only logs it), or the process may end
(`Restart`). `SetBudget` evaluates at once and lifts. An override is a read, an
unlink of whatever is there by then, and a mark. Spend and limits are abstracted
to which scopes are over their cap.

A window's start is fixed (`tonight`, between 06:00 and 18:00) or `rolling`: the
other windows, and `tonight` at night, start a number of hours ago, at another
moment at every look. A mark is good for one start, so in a rolling window none
is (`Marked`). `lifted` is a history variable: the scopes that were overridden in
this window.

`live` are the sessions that run, `listed` those the collector has listed, `seen`
its inventory, which lands some awaits later (`List`, `Land`) and which the budget
and the kill switch act on. `job[j]` of the kill switch has the code's `state` and
the `step` that `killAll` or `killPhase` is at; `Interrupt` and `KillOne` are the
answers of tmux to one session, between which everything else may happen, and
`Killing` chooses the victims again from the inventory of that moment. `started` is
a history variable: the sessions launched since that inventory was listed.
`StopAll` is the shutdown, `ForgetJobs` the end of the process.

Left out: the fields and the mirror of a sentinel, ceilings, warnings, audit
notes, `include` keys, who may cancel.

### Approvals

`handler[h]` is the route's handler of one request (`reading` its body, `held`
on the queue's promise, ended), `status[h]` its approval in the queue,
`sock[h]` the connection of the hook (the agent may have left before the server
sees it), and `got[h]` what the agent goes on with. `BodyRead` is the stretch
from the body to the hold: the limit of pending approvals, `open`, and the look
at a connection that closed while nobody listened. `Close` settles an approval
and, in the same step, sends the reply: only microtasks lie between the two.
`Timeout`, `Decide`, `Supersede`, `SeeClose` and `Restart` race for it.

Left out: what a request asks, who may decide, previews and events, and the
route's own timer, which is due 5 s after the queue's.

### Bridge and Cockpit

`Bridge` has the variables of the bridge: the `child` (`closed`: its stdin was
ended; `killed`: a SIGKILL was sent and the exit has not come), `killedFor`,
the room's `turn`, and for each prompt its place in the bridge's map (`st`),
its write (`wr`) and the turn it was sent in (`tid`). `open` is what the screens
saw begin and not end, and `dropped` a history variable: the turns the bridge let
go without an end. `Cockpit` has the supervisor's, and its actions put both
together, because the bridge calls the supervisor back within its step: `Exit`
is `ChildGone` and then `OnExit`; the end of a turn is `EndTurn`, `OnTurnEnd`,
and the end of the child's stdin if a renewal waited for it. `Kill` is the
SIGKILL of a timer, after which the child counts as gone whether it ends or not.

`stopping` holds the turn of the stop that runs and which of its timers (5 s
SIGINT and the forced end, 8 s SIGTERM, 10 s SIGKILL) is next; `renewing` is
`new` waiting for the turn's end (`waitTurn`) or for the child's (`closing`).
`steer` and `cancels` are two capabilities of the agent, `canSteer` and
`canCancelQueued`, in any combination; `receipt` says that an interrupt was written to
this child, so a receipt may come and name any queued prompts.
The agent may take, end, refuse, exit or do nothing at any moment; no signal
obliges it to anything, and a SIGKILL that the bridge sends need not reach it
(`sudo` may stand between, and the exit is taken from `close`, which waits for the
pipes). One thing is assumed of it: it reads its stdin in order, so the prompt
that began a turn is taken before those queued in that turn (`ReadsInOrder`);
`onTaken` itself has no such guard. Time is the order of the timers of one stop or one
renewal; that a write has its 5 s before a stop's timers or a turn's silence are due
is a guard of `ForceTimer` and `Silent`.

Left out: text, tools, redaction, the adapter, the status line, the audit, the
links' sequence numbers, the conversation on disk, the login and the room's own
end. The wait before a restart is none or some (`step`).

### Stream and Upstream

`Stream` is the builder: `builder.sessions` is what a snapshot shows at any
moment (what ticks have read, with the flags that decorators put on it), `base`
is `lastSerialised` of `ws.mjs`, `seq` its counter and `epoch` the process.
`Changes` is one reading inside a tick, or a flag that is set or cleared;
`Broadcast` the `broadcastFrom` at a tick's end, which a tick that throws does not
reach, `BroadcastEvent` any frame that leaves the baseline alone,
`BroadcastToOthers` a tick that ends while the hub is not connected. `wire` is
the connection: frames arrive in order, and are gone with it. A session is what it
looks like, the number of the change that made it so and the process it comes
from; one that is gone is one that looks so. The baseline compares looks only, so
a change that is undone before the next broadcast is never sent, though a
snapshot may have shown it: `fleeting` is a history variable that holds those.

`Upstream` adds `hub`, the fields of the class of that name and the merged
`view` of the store. Its handlers are operators from a state of the hub to the
states it may go to, because the same code runs for a frame that arrives and
for one that is replayed after a resync: `Taken` is `_onMessage`, `Processed`
`_process`, `Buffered` `_bufferFrame`, `AfterFetch` what `_resync` does after
its await, in one stretch. `Answer` is the builder's answer to the snapshot
request, by whichever process lives then; `TakeSnapshot` comes later, and
frames, a drop or a restart in between.

The store refuses a snapshot of more sessions than its cap and keeps the view it
has, drops sessions with bad names, and takes no new ones when it is full
(`TakesOfSnapshot`, `TakesOfDelta`; sessions that a delta adds come before those
it removes, so at the cap a new one is dropped although another goes). The
upstream does not look at that and takes the frame's number (`Applied`). `hub.told`
is what the view would be without refusals, `Shown(s)` says that the store has
what the hub was last told of `s`; the properties speak of sessions that are shown,
`NoStepBack` of all of them, and the theorem `GoodNamesAreShown` says that with good
names and no more sessions than the cap every one is shown. The store's budgets in
bytes are left out.

The clock is abstracted: a gap may or may not be a repeated one (which closes
the socket), a resync may or may not be over its budget. Left out: hello and the
rate charge (both end in a connection that is lost, `Drop`), the replay of the
stream's ring (the hub never asks for one), the store's other records and
the cleaning of a session's fields.

## What is checked

| Run | Instance | Shows |
|---|---|---|
| `action_path` | 1 id, 2 slots, skew 1, ttl 2, preload 2, clocks 2 apart, time to 6 | `TypeOK`, `AtMostOnce`, `OneStory`, `RunIsRecorded`, `VerdictIsTrue`, `RelayEnds` |
| `audit_log` | 4 files of 2 lines, 2 rotations, 6 entries | `TypeOK`, `HeadIsCurrent`, `KeepsPromise` |
| `audit_reconcile` | 1 id, 2 entries, pages of 1, 2 pages per pull, 2 rewrites, rebases, restarts or failed scans | `TypeOK`, `NoFalseAlarm`, `NoFalseUnknown`, `ForkIsReal`, `RestartKeepsMatches`, `RewriteIsSeen`, `CatchesUp` |
| `audit_reconcile_race` | 3 entries, rebase during a pull | finds `NoFalseAlarm` violated |
| `fleet_kill` | 2 builders, 2 fleet kills, answers `ok` and `limited` | `TypeOK`, `KillIsWarned`, `ResumeAfterPause`, `NoStaleRetry`, `UndoIsDelivered`, `KillWins` |
| `fleet_kill_stale` | the same | finds `OlderJobsAreSilent` violated |
| `control` | 1 session of a low-priority lane, a cap on it, no kill job | `TypeOK`, `OperatorHoldStays`, `OverrideIsHonoured`, `OverBudgetIsHeld` |
| `control_kill` | 1 session, 1 kill job, no caps | `KillReachesAll`, `CancelIsFinal` |
| `approvals` | 4 requests of 2 sessions, 2 read and 2 pending at once | `TypeOK`, `AnswerIsDecision`, `NoLeak`, `EveryHoldEnds` |
| `cockpit` | 3 prompts, 2 turns | `InStep` (with `TypeOK`), `ShownTurnsEnd`, `NewIsHonoured` |
| `cockpit_turns` | the same | finds `OneTurnAtATime` violated |
| `upstream` | 3 sessions of which 1 has a bad name, a store for 1, 2 changes, 4 frames per process, 2 faults, a buffer of 1 frame | `TypeOK`, `NothingIsMissed`, `OneEpoch`, `NoStepBack`, `CatchesUp` |

**Bounds.** The action path's window arithmetic needs a clock that outruns
skew, ttl and preload after the latest timestamp a fast clock can sign
(2 + 1 + 2), which time 6 gives; a second id adds only the fill of a cache (a
full one refuses, or keeps the oldest at boot: chain order until it is full), which the theorems cover for any
number of ids and any limits. Two slots are what it takes for two copies of one
envelope to be in dispatch. For the log, two rotations make a chain whose
middle file is neither the first nor the current one, the fourth file is one
left by a rotation that was undone. For the reconciliation, two pages make a
pull with an await between two reads; two faults allow a rewrite and the rebase
it needs, or a restart and a failed scan, in one behaviour. With these bounds
no new part of a log is longer than one pull, which is the hypothesis of
`CatchesUp`. With 3 entries and one page per pull (1.06 million states, too many
for a run beside the others) it is, and `CatchesUp` passes there as stated and
fails without the hypothesis (finding 6). Two fleet kills are an older one with a retry
and a newer one that holds, restores or drops it; two builders make a retry
that still has a send to do while it waits for an answer. The code asks of an
outcome whether it reached the builder and whether it was a 429, which `ok` and
`limited` decide; the proofs take all four. For the control
plane, the kill switch and the budget meet only in the sentinel of the whole
builder, which a kill writes as any operator's pause, so each has a run of its own;
one session that comes and goes, with ticks, caps, windows, the command line and
restarts in any order, shows every interleaving of one scope's file calls, and the
theorems take any number of sessions, caps and jobs together. Four approvals, with limits of two, are two that are held, one that is
refused and one of another session. Three prompts are one that starts a turn,
one that is queued in it and one that starts the next; `MaxTurns` only stops new
prompts, not turns the agent takes up by itself. For the stream, four frames are
what it takes to overflow the buffer twice in one resync (a lost one, the next
that shows the gap, and one more for each fetch, since a buffer may also be full of
bytes), and a fault is a lost frame, a lost connection or a restart,
so any two of them meet in one behaviour. Three sessions and room for one make a
store that refuses for each of its reasons. Nothing changes at the builder
after its last frame, which is never a lost one: the real builder sends vitals
every five seconds, and it is the next frame that shows a loss.

**Fairness.** `FairSpec` of `ActionPath`: the hub's event loop continues a
call it is in (`Post` or `ConnectFails`), and its timeout fires (`NoAnswer`);
nothing is assumed of the builder or the network. `FairSpec` of
`AuditReconcile`: the interval timer ticks, every read ends (it has a
timeout), and neither the reads nor the hub's own appends fail for ever
(strong fairness); without the last two nobody could promise progress. `FairSpec` of
`FleetKill`: timers fire and sends end (the relay gives each a timeout); no one
has to undo or start anything. `FairSpec` of `Control`: the 30 s timer of the
budget fires for ever and gets its turn between the handlers, a tick goes on, and
not every tick fails or is cut off by a restart before it has come to a scope
(strong fairness); if they all did, no cap could be enforced. `FairSpec` of
`Approvals`: the read of a body ends (it has a timeout) and the timer of a hold
fires; nobody has to decide. `FairSpec` of `Cockpit`: the timers of a stop, of a
renewal and of a restart fire and a write ends within its 5 s; nothing is expected
of the child, not even that it ends when it was sent a SIGKILL. `FairSpec` of `Upstream`: the builder's ticks go
on, the hub's loop serves its socket and its timers, a fetch ends (it has a
timeout) and a connection can be made again; nothing is assumed of a fetch's
success. Deadlock is not checked in `AuditLog`, which
stops when the bound on its entries is reached, nor in `FleetKill`, where
nothing is left to do once the hub has stopped or every job has ended, nor in `Cockpit`,
where a refused room stays refused, nor in `Upstream`, whose frames are bounded.

## What is proved

`ActionPathProofs` proves for every value of the constants that satisfies the
assumptions above: `TypeCorrect`, `RunsAtMostOnce`, `LogTellsOneStory`,
`RunsAreRecorded` and `VerdictsAreTrue`. The four properties are not
inductive: that an action runs once says nothing about the nonces that keep it
so. `IInv` adds what connects them:

- `NonceInv`: an id in dispatch is covered by the key's cache until its
  envelope is stale, and, whenever the log is open, an id in the log is covered
  by one of the caches or its envelope is stale. A cache *covers* an id if it
  holds it until the envelope's last fresh moment, `ts + skew`; `ttl >= 2 *
  skew` makes `add` cover what it adds, `preload >= 2 * skew` makes the
  preload cover what was logged.
- `LogInv`: no entry is older than its envelope's window or ahead of the
  clock; so a preload either reaches it or its envelope is stale.
- `SlotInv`: how far a request is is what the log says of its id, and no two
  requests have the same id.
- `HubInv`: before the hub posts an id, no trace of it is anywhere.

`InductiveInvariant` proves `Spec => []IInv` with one lemma per group of
actions; each theorem follows from it. The preload's cut-off at the cache's
limit needs a cardinality argument, which uses the finiteness of `Ids`.

`FleetKillProofs` proves, for any set of builders and any number of fleet
kills, `TypeCorrect`, `KillsAreWarned`, `ResumesFollowPauses` and
`StaleRetriesStay`. Its invariant has two levels. `JobOK` ties the fields of one
job together: a kill row or a kill retry exists only in states an undo cannot
be in, and behind a pause that reached the builder; a pause is only outstanding
in the two states that wait for it. `Linked` ties the jobs: they start in order
and every job before one whose window was open is over, which is what stops the
retries of `NoStaleRetry`. Most steps are `Quiet` for every job (they open no
window and start no job), and quiet steps keep `Linked`; `Start` and the opening
of a window are proved by themselves.

`ControlProofs` proves, for any sessions, caps, lanes and kill jobs,
`TypeCorrect`, `OperatorHoldsStay`, `OverridesAreHonoured`, `KillsReachAll` and
`CancelsAreFinal`. That a sentinel is there says nothing about what a later call
puts in its place; `HoldsKept` adds, for every scope in `holds`, that the
operator's file is there, or a budget pause that remembers it, or the restore of
it is under way (`HoldIsSomewhere`), and that a call the server has decided on for
that file is an override or one of a tick that remembers the hold (`HoldIsSafe`); what is remembered is the database's row, or that of a tick that
has not saved (`Remembered`). `LiftsMarked` adds that every override has its mark; no
tick can have decided against it, since an override comes between two ticks. `JobOK` ties a kill's
step to its state, and while it kills, the sessions that run to those still to do,
those launched since the list and those whose kill failed.

`ApprovalsProofs` proves, for any requests, sessions and limits, `TypeCorrect`,
`AnswersAreDecisions` and `NothingLeaks`. `ReqOK` says for each stage of a
request's handler what its approval, connection and answer may be; `Counted`
that the counter is the cardinality of the requests being read, which needs
those to be finite: a set that grows and shrinks by one element.

`CockpitProofs` proves, for any prompts and any number of turns,
`SupervisorIsInStep` and `ShownTurnsDoEnd`. Neither property is inductive.
`BridgeInv` ties the turn to its prompt's write: a turn is on the screens if and
only if that write is done, and a prompt being written has the turn or lost it
to another (which is what `Taken` in place of a turn leaves behind). `PhaseInv`
ties the supervisor's phase to the child, whatever was let go. `TurnInv` ties stops
and renewals to what they wait for, as long as no turn was let go; its hard case is a failed write, which gives the turn's
number back: a stop may then hold a number that the next turn gets, unless its
child has been killed and a renewal follows.

`AuditReconcileProofs` proves, for any ids, page sizes and bounds, `TypeCorrect`,
`RestartKeeps`, `NothingFalselyUnknown`, `ForksAreReal` and `AlarmsAreReal`.
`ReplayInv` relates four states of the hub's facts: what it holds, what it would
hold after its next scan, what a restart would give it, and what is judged.
Most steps append to the hub's log, so all of this rests on two equations of
the replay (`ReplayEmpty`, `ReplayAppend`) and on `ReplaySimulates`: what every
entry keeps, a replay keeps. A failed scan is no step of the replay, only one that
comes later; that a restart may note the whole log at once, over what was found in
the meantime, is what `Resumed` and the conjuncts of `ReplayInv` that relate `mem`
to the next scan are for. The last two theorems need `CoverInv` (what the
pull has read, or an anchor has passed, is in the index or was relayed before a
rebase, unless a pull was indexed `blind`) and `ForkInv`, and the hypothesis that no rebase meets a pull. That one is
not a convenience: `audit_reconcile_race` is what happens without it.

`UpstreamProofs` proves, for any sessions, changes and size of the buffer,
any names and any cap of the store, `TypeCorrect`, `NothingMissed`,
`EpochsDoNotMix`, `NeverBack` and `GoodNamesAreShown`. Most of it speaks of `told`,
what the hub was given, which no refusal disturbs; `Behind` adds that what the store
shows of a session is that or older, and `HubIsSane` that with good names and room
nothing is refused. Its invariant
`HubInv(b, h, rest)` speaks of *one* state of the hub and of the set of frames
that are still to come to it, so that the same lemmas serve a frame that
arrives and a frame that is replayed after a fetch, where what is to come is the
rest of the buffer and then the wire. `NoneIsLate` says that nothing to come is older
than what the hub shows, `NoneIsLost` that with it nothing is missing but what
a gap in the numbers betrays. The replay is an induction over the buffer
(`ReplayKeeps`), its steps those of `TakenKeeps`.

`AuditLogProofs` proves, for any numbers of files, names, lines and entries,
`TypeCorrect`, `NeverForks` and, with `Writeback`, `KeepsItsPromise`: the log
refines `AuditChain`. It has three parts.

- *Verification.* What is found is a recursion over the files of the chain and
  the lines of each. Two looks at the files agree when the files of the chain
  are alike (`SameChain`, `SameFiles`), a line more continues what was found
  (`LineMore`), and a file plays no part in a chain that is shorter than its own
  (`ShorterChains`), nor does its own rotated name (`OwnName`). The last two
  rest on one fact: an entry is newer than the one it chains onto, so each file
  back has a shorter chain; a name that would make the chain go round in a circle
  makes it invalid instead.
- *The writer.* `LogInv` (`WriterKnows`) says at each stage of an append or
  a rotation how what the writer remembers fits what is found. It
  is why a failed rotation needs no look at the files before the next append.
- *The promise.* `LossInv` says of every directory that a power loss may leave
  that the chain it leads to is a beginning of the present one and holds
  every safe entry: with the files as they are (`SeenFrom`), with the current file cut
  back to what was synced, and for a directory whose current file is still
  the one before (`FallsBack`). TLC checked it before it was proved. Each action
  then shows `Kept`, a step of `AuditChain` that loses no acknowledged entry, so
  that `AckedStay` comes with the refinement; `CrashesLoseNothing` is the same
  without power losses and without `Writeback`.

No theorem takes a hypothesis on constants but those named above and the
modules' own assumptions. What a recursive definition computes is proved
where it is needed by induction over sets (`SetInduction`: a set with zero and
all successors has every natural), since the library's induction theorems
take operators the provers cannot instantiate.

Only model-checked: liveness (`RelayEnds`, `RewriteIsSeen`, `CatchesUp` of both
modules, `UndoIsDelivered`, `KillWins`, `OverBudgetIsHeld`, `EveryHoldEnds`,
`NewIsHonoured`), which is outside what the prover handles. Every invariant,
action property and refinement of a passing run is a theorem.

A pause that an operator asks for while a higher one is there is kept and not
written (`pause.mjs:167`); `docs/fleet/control.md:136-139` says so, and no property
claims otherwise.

## Findings

With a run that shows them:

1. **A rebase during a pull is undone** (`audit_reconcile_race`): the pull
   anchors where it started from.
2. **An undo's retry goes on during a newer kill** (`fleet_kill_stale`):
   `retryLimited` asks whether its job is superseded when its timer fires and not
   between its sends, so a loop that waits for a slow builder while a newer kill
   opens its window then resumes builders the newer one has paused.
   `fleetkill.mjs:467` says older jobs never send again.
3. **A turn takes the place of one that has not started** (`cockpit_turns`): an
   agent that takes an earlier turn's queued prompt just after a screen has begun
   the next turn makes the bridge replace that turn (`bridge.mjs:545`), which the
   screens saw begin and never see end. `protocols.md:516` knows the case only
   for an agent without a turn.

Stated in the modules and refuted by TLC there, without a run of their own (add
the property to the configuration of the module):

4. **Two torn lines stop the log** (`AuditLog`, `ChainVerifies`): two cut-off
   writes in one gap (a full disk does it) make every later append fail.
5. **A rotation leaves an unsynced file behind** (`AuditLog`, `KeepsPromise` and
   `AckedAreFound`, without `Writeback`): after a failed write or fsync and a
   rotation, a power loss can break the chain in front of acknowledged entries.
6. **A long log is not followed after a rebase** (`AuditReconcile`, `CatchesUp`
   without the bound on the new entries, with 3 entries and one page per pull): a
   fork's error is only cleared by the last page of a pull, and ends each pull of a
   log that is longer than one pull may read.

Met while modelling, and excepted in the properties by a history variable, a
hypothesis or by name:

7. A change that is undone before the next broadcast stays in a view that a
   snapshot showed it to: deltas are computed against the last broadcast, but a
   snapshot shows flags that were set since, and sessions that a tick read before it
   threw; no delta takes that back until the session changes otherwise
   (`ws.mjs:57`, `state.mjs:695`; `fleeting`).
8. A hub that cannot read its own log just when it indexes a pull takes what that
   pull brought for unknown, and may later report it missing
   (`audit-reconcile.mjs:473`; `blind`), where `audit-reconcile.mjs:38-45` rules
   both out.
9. In a rolling window (`12h`, `24h`, `7d`, `tonight` at night) an override does not
   hold: its mark is for a start that the next tick does not have any more
   (`budget.mjs:334`, `util.mjs:78-101`), so the budget pause is back at once, where
   `docs/fleet/control.md:158-162` says the mark holds until the window ends.
   `OverrideIsHonoured` speaks of windows with a fixed start. What the pause is
   written over then is not there any more, and the hold that was remembered
   before the override is still in its row: the lift of that second pause gives back
   an operator's pause that the override had removed.
10. An operator's pause that the command line writes between a tick's look at the
    sentinel and its write is overwritten and not remembered (`budget.mjs:465`,
    `pause.mjs:164-170`; left out of `holds`).
11. A tick that fails or is killed after the sentinels and before the rows loses the
    hold a budget pause was just written over (`budget.mjs:510`,
    `routes/budget.mjs:63`; `Lost`).
12. A session launched after the collector's last list is not among the victims of a
    kill (`killswitch.mjs:345` takes `state.all()`; `started`), where
    `killswitch.mjs:24-25` says that a lane launched during the grace is killed too.
13. The upstream takes the number of a snapshot or delta that the store refuses
    (`upstream.mjs:654-656`, `fleet-store.mjs:523-530`; `Shown`): nothing asks again,
    and the view stays behind, or another process's, until the session's next news.
14. A turn begun between the SIGTERM for an earlier turn's silence and the child's
    exit outlives the child without a `turn.end` (`bridge.mjs:293`; `dropped`),
    where `protocols.md:1274` ends every turn with its child.
15. A prompt whose write fails kills the child of that moment, which may be a
    newer one than the one it was written to (`bridge.mjs:719`, `WriteFails`). It
    takes its turn back without an end, and if that turn was being stopped for a
    new conversation, only the exit of the killed child starts it, which the
    signal need not bring about (`NewIsHonoured` names the case).
16. A turn that ends with no child leaves `renewing` set with nobody to clear it
    (`session.mjs:364`, `left`); only a turn that was let go (14) gets there, which
    is why `InStep` speaks of renewals only as long as none was.
17. `replaceForced` outlives a child that was not the one to be replaced: the
    next exit, whatever it is, then starts a child at once (`session.mjs`,
    `OnExit`).
18. `silent()` sends a SIGTERM and nothing after it: a child that ignores it stays,
    and the next exit is taken for that silence (`Silent`).
19. `fleet/audit.mjs:19-20` names `read({after}).afterIndex` over HTTP, which
    `getAudit` in `fleet/api-v1.mjs` does not return; the reconciliation checks it
    only when it is there.

## Plan

Done: the signed path, the log, its reconciliation, the upstream link, the fleet
kill with the builder's own switch, pauses and budgets, approvals, and the
cockpit's child and turns. Left, in this order; each with its runs, and theorems
where they are named.

1. The cockpit's links: sequence numbers, the replay after a reconnect, the
   conversation on disk and its resume.
2. `AuditLock`: `acquireLock` among several openers of one log.
3. An abstract view for `Upstream` (the builder's states in order, some of them
   skipped) that it refines, the approvals of the store with their rate limit,
   and the links to browsers.
4. `RateLimit` and `Reconcile` (the comparison of outcomes) as algorithms
   against reference definitions; the alarms' reconcile.
5. Terminals, and the lane jobs (launch, retire, archive) as sequences of
   commands that may fail in the middle.
6. Theorems of the new modules; that `Upstream` refines the abstract view of 3.

## Not modelled

Cryptography and key files (signatures are sound), the effects of actions
(tmux, git), parsing (transcripts, diffs, CI), views for display, SQL, HTTP
plumbing, configuration, deployment. Most of the repository by lines is the
browser's UI (`public/js`: views, maps, the galaxy wall), which draws what the
server sends and keeps no state anybody else relies on; a model of it would
restate layout. Rate limits, alarms, terminals, lanes, runs and review are
within reach and in the plan or behind it. `PROJECT.json` names each part and the
reason.
