--------------------------- MODULE AuditReconcile ---------------------------
(***************************************************************************)
(* The hub follows the audit log of a builder: hub/audit-reconcile.mjs.    *)
(*                                                                         *)
(* Every minute, and when a builder comes up, the hub pulls the entries    *)
(* after the head it has anchored, page by page; checks that they continue *)
(* it; records those that answer its own actions (`audit.match`) and the   *)
(* new head (`audit.anchor`) in its own log; and reports its actions that  *)
(* the builder's log lacks.  A log that no longer holds the anchored head  *)
(* is a fork, raised until an operator rebases the builder.  The hub may   *)
(* restart at any point and replays its log.  A read of that log may fail: *)
(* scanHub then leaves what is known as it is, and the pull goes on.       *)
(*                                                                         *)
(* One builder, of which nothing is shared with another; its answers are   *)
(* those of an honest builder whose log may be moved aside or restored.    *)
(***************************************************************************)
EXTENDS Integers, Sequences, FiniteSets, SequencesExt

CONSTANTS Ids,            \* envelope ids the hub relays to this builder
          Local,          \* the id of an entry that is not via the hub
          MaxEntries,     \* bound on the entries the builder ever writes
          MaxFaults,      \* bound on rewrites, rebases, restarts and failed scans
          PageSize,       \* entries in an answer (MAX_READ_LIMIT)
          MaxPages,       \* answers taken in one pull
          RebaseInFlight  \* an operator may rebase while a pull is running

ASSUME ReconcileConstants == /\ Local \notin Ids
                             /\ MaxEntries \in Nat /\ MaxFaults \in Nat
                             /\ PageSize \in Nat \ {0} /\ MaxPages \in Nat \ {0}
                             /\ RebaseInFlight \in BOOLEAN

VARIABLES
  blog,      \* the builder's audit log: entries [h, id]
  written,   \* entries it ever wrote, for fresh hashes
  recorded,  \* ids of which it ever wrote the outcome
  givenUp,   \* ids of which the hub will not learn the outcome from the relay
  durable,   \* what a replay of the hub's log gives
  tail,      \* the hub's log entries after the hub's cursor
  mem,       \* what the hub holds: the relayed ids, and of the builder its
             \* anchor, fork, index, unknown ids, ...
  pull,      \* the pull that is running
  headRead,  \* the head rebaseToHead has read and not used yet
  rewritten, \* observer: the builder's log lost entries since the last rebase
  blind,     \* observer: a pull was indexed since then with the hub's log unread
  faults     \* rewrites, rebases, restarts and failed scans so far

builderVars == <<blog, written, recorded, givenUp>>
hubVars     == <<durable, tail, mem, pull, headRead>>
observers   == <<rewritten, blind>>
vars == <<blog, written, recorded, givenUp, durable, tail, mem, pull, headRead,
          rewritten, blind, faults>>

Genesis == [hash |-> 0, count |-> 0]
Heads   == [hash : 0..MaxEntries, count : 0..MaxEntries]
LogEntries == [h : 1..MaxEntries, id : Ids \cup {Local}]

HeadOf(s) == IF s = <<>> THEN Genesis ELSE [hash |-> Last(s).h, count |-> Len(s)]

\* A head is on the builder's log: everything up to it is what it was.
OnLog(head) == \/ head.count = 0
               \/ head.count <= Len(blog) /\ blog[head.count].h = head.hash

(***************************************************************************)
(* The hub's log.  An entry is noted when it is scanned: after a restart   *)
(* all of them, else those after the cursor, the hub's own ones included.  *)
(* What is unread fits one page: a scan reads all of it or nothing.        *)
(***************************************************************************)
\* `done`: answered; `unsent`: it never reached the builder; `rebased`: a
\* rebase has been noted.
Fresh == [sent |-> {}, done |-> {}, unsent |-> {}, anchor |-> Genesis, fork |-> FALSE,
          index |-> {}, unknown |-> {}, judged |-> {}, unjudged |-> {}, rebased |-> FALSE,
          err |-> "none"]

\* resetBuilderFacts, the anchor, and which actions are not judged any more.
Rebased(b, head, before) ==
  [b EXCEPT !.anchor = head, !.fork = FALSE, !.index = {}, !.unknown = {}, !.judged = {},
            !.unjudged = IF head.count > 0 THEN before ELSE {}, !.rebased = TRUE]

\* The whole log, whose facts are f, noted by a hub that had read none of it:
\* its own anchor and fork, and what it judged, are overwritten as the entries say.
Resumed(b, f) == [f EXCEPT !.fork = @ \/ (b.fork /\ ~ f.rebased),
                           !.judged = IF f.rebased THEN {} ELSE b.judged, !.err = b.err]

\* noteHubEntry
Note(b, e) ==
  CASE e.action = "sent"   -> [b EXCEPT !.sent = @ \cup {e.id}]
    [] e.action = "done"   -> [b EXCEPT !.done = @ \cup {e.id}]
    [] e.action = "unsent" -> [b EXCEPT !.unsent = @ \cup {e.id}]
    [] e.action = "match"  -> [b EXCEPT !.index = @ \cup {x \in e.matched : x.id \in b.sent}]
    [] e.action = "fork"   -> [b EXCEPT !.fork = TRUE]
    [] e.action = "anchor" -> [b EXCEPT !.anchor = e.head]
    [] e.action = "rebase" -> Rebased(b, e.head, e.before)
    [] e.action = "log"    -> Resumed(b, e.facts)

\* Facts b and the entries after them.
Replay(b, entries) == FoldLeft(Note, b, entries)

Scanned == Replay(mem, tail)

\* The hub started without reading its log.
NothingRead == tail # <<>> /\ tail[1].action = "log"

\* scanHub: what the hub holds, and what is unread, after a scan that could
\* read the log, or could not.
After(ok)  == IF ok THEN Scanned ELSE mem
Unread(ok) == IF ok THEN <<>> ELSE tail
ScanEnds(ok) == /\ ok \/ (tail # <<>> /\ faults < MaxFaults)
                /\ faults' = IF ok THEN faults ELSE faults + 1

\* Actions that can be judged: a pull that starts later must see their entry.
Settled == durable.done \cup givenUp

\* The entries follow those of `unread` that the cursor has not passed.
Logged(unread, entries) ==
  /\ durable' = Replay(durable, entries)
  /\ tail' = unread \o entries

(***************************************************************************)
(* A pull.                                                                 *)
(***************************************************************************)
NoAnswer == [kind |-> "none", entries |-> <<>>, more |-> FALSE]

NoPull == [st |-> "none", anchor |-> Genesis, tip |-> Genesis, pages |-> 0, fresh |-> {},
           settled |-> {}, answer |-> NoAnswer]

\* A log that has not grown since the anchor has regressed.
Segment_OffByOne(tip) ==
  IF tip.count > 0 /\ Len(blog) <= tip.count THEN [NoAnswer EXCEPT !.kind = "fork"]
  ELSE LET last == IF tip.count + PageSize < Len(blog) THEN tip.count + PageSize ELSE Len(blog)
       IN  [kind |-> "page", entries |-> SubSeq(blog, tip.count + 1, last),
            more |-> last < Len(blog)]

\* What the builder answers to a page asked after `tip`, as checkSegment sees it.
Segment(tip) ==
  IF ~ OnLog(tip) THEN [NoAnswer EXCEPT !.kind = "fork"]
  ELSE LET last == IF tip.count + PageSize < Len(blog) THEN tip.count + PageSize ELSE Len(blog)
       IN  [kind |-> "page", entries |-> SubSeq(blog, tip.count + 1, last),
            more |-> last < Len(blog)]

\* The tip and the entries via the hub, with the answered page.
PageTip_OffByOne == [hash |-> IF pull.answer.entries = <<>> THEN pull.tip.hash
                              ELSE Last(pull.answer.entries).h,
                     count |-> pull.tip.count + Len(pull.answer.entries) + 1]
PageTip   == IF pull.answer.entries = <<>> THEN pull.tip
             ELSE [hash |-> Last(pull.answer.entries).h,
                   count |-> pull.tip.count + Len(pull.answer.entries)]
PageFresh == pull.fresh \cup {e \in Range(pull.answer.entries) : e.id # Local}

Forked == pull.answer.kind = "fork"
Failed == pull.answer.kind = "failed"

LastPage == ~ pull.answer.more
GoesOn  == pull.answer.kind = "page" /\ ~ LastPage /\ pull.pages < MaxPages

\* How the pull ends: where it got to, what it leaves in `error`.
EndTip   == IF Failed THEN pull.tip ELSE PageTip
EndFresh == IF Failed THEN pull.fresh ELSE PageFresh
EndErr_Sticky == IF Failed THEN "failed" ELSE mem.err
EndErr   == IF Failed THEN "failed" ELSE IF LastPage THEN "none" ELSE mem.err
Complete == ~ Failed /\ LastPage

\* pulledAt: the actions that had been answered when the pull started are judged.
Judge_AtEnd(b) == IF Complete THEN [b EXCEPT !.judged = durable.done, !.err = EndErr]
                              ELSE [b EXCEPT !.err = EndErr]
Judge(b) == IF Complete THEN [b EXCEPT !.judged = pull.settled, !.err = EndErr]
                        ELSE [b EXCEPT !.err = EndErr]

\* The state the hub indexes a pull in: the log is read again, since the
\* relay writes `sent` before it posts.
ForIndexing_NoRescan(ok) == mem
ForIndexing(ok) == After(ok)

Matched(b) == {e \in EndFresh : e.id \in b.sent} \ b.index

\* Ids via the hub that the hub did not send; a hub that has read nothing
\* counts none (floorTs).
Unknown(b, ok) == IF NothingRead /\ ~ ok THEN {} ELSE {e.id : e \in EndFresh} \ b.sent

MatchEntry(b) == IF Matched(b) = {} THEN <<>>
                 ELSE <<[action |-> "match", matched |-> Matched(b)]>>

-----------------------------------------------------------------------------
Init ==
  /\ blog = <<>> /\ written = 0 /\ recorded = {} /\ givenUp = {}
  /\ durable = Fresh /\ tail = <<>> /\ mem = Fresh
  /\ pull = NoPull
  /\ headRead = <<>>
  /\ rewritten = FALSE /\ blind = FALSE
  /\ faults = 0

(***************************************************************************)
(* The builder and the relay (see ActionPath).                             *)
(***************************************************************************)
\* The outcome of a relayed action, or an entry that is not via the hub.  It is
\* written before the builder answers, or never; if the hub has no answer,
\* perhaps long after it gave up.
BuilderAppends(id) ==
  /\ written < MaxEntries
  /\ id # Local => id \in durable.sent \ (recorded \cup durable.done \cup durable.unsent)
  /\ blog' = Append(blog, [h |-> written + 1, id |-> id])
  /\ written' = written + 1
  /\ recorded' = recorded \cup ({id} \ {Local})
  /\ UNCHANGED <<givenUp, hubVars, observers, faults>>

\* The log is moved aside, or restored from a backup.
BuilderRewrites ==
  /\ faults < MaxFaults
  /\ \E n \in 0..(Len(blog) - 1) : blog' = SubSeq(blog, 1, n)
  /\ rewritten' = TRUE
  /\ headRead' = [i \in DOMAIN headRead |-> [headRead[i] EXCEPT !.stale = TRUE]]
  /\ faults' = faults + 1
  /\ UNCHANGED <<written, recorded, givenUp, durable, tail, mem, pull, blind>>

\* Relayed, and neither ended nor given up.
InFlight == durable.sent \ (durable.done \cup durable.unsent \cup givenUp)

\* The relay's entries in the hub's log: `sent` before the POST; `done` with
\* the builder's answer, or that nothing was sent.
RelayLogs(action, id) ==
  /\ action = "sent" => id \notin durable.sent
  /\ action = "done" => id \in InFlight
  /\ action = "unsent" => id \in InFlight \ recorded
  /\ Logged(tail, <<[action |-> action, id |-> id]>>)
  /\ UNCHANGED <<builderVars, mem, pull, headRead, observers, faults>>

\* No answer, or none that can be read: `done` with an unknown outcome, or no
\* `done` at all (it could not be written).  Of either only the time counts.
RelayGivesUp(id) ==
  /\ id \in InFlight
  /\ givenUp' = givenUp \cup {id}
  /\ UNCHANGED <<blog, written, recorded, hubVars, observers, faults>>

(***************************************************************************)
(* The hub.                                                                *)
(***************************************************************************)
\* The log is scanned; unless a pull is running, one starts.
Tick ==
  /\ \E ok \in BOOLEAN : ScanEnds(ok) /\ mem' = After(ok) /\ tail' = Unread(ok)
  /\ pull' = IF pull.st # "none" THEN pull
             ELSE [NoPull EXCEPT !.st = "asked", !.anchor = mem'.anchor, !.tip = mem'.anchor,
                                 !.pages = 1, !.settled = Settled]
  /\ UNCHANGED <<builderVars, durable, headRead, observers>>

Answered(answer) ==
  /\ pull.st = "asked"
  /\ pull' = [pull EXCEPT !.st = "answered", !.answer = answer]
  /\ UNCHANGED <<builderVars, durable, tail, mem, headRead, observers, faults>>

BuilderAnswers == Answered(Segment(pull.tip))

\* The builder is down, the read times out, or the answer is malformed.
ReadFails == Answered([NoAnswer EXCEPT !.kind = "failed"])

AskNextPage ==
  /\ pull.st = "answered" /\ GoesOn
  /\ pull' = [pull EXCEPT !.st = "asked", !.tip = PageTip, !.fresh = PageFresh,
                          !.pages = @ + 1, !.answer = NoAnswer]
  /\ UNCHANGED <<builderVars, durable, tail, mem, headRead, observers, faults>>

Ends == /\ pull.st = "answered" /\ ~ GoesOn
        /\ pull' = NoPull
        /\ UNCHANGED <<builderVars, headRead, rewritten>>

\* A rewritten log is one more failed read.
RaiseFork_AsFailure ==
  /\ Ends /\ Forked
  /\ mem' = [mem EXCEPT !.err = "failed"]
  /\ UNCHANGED <<durable, tail, blind, faults>>

\* A fork is raised, once; what the pull has read so far is dropped.
RaiseFork ==
  /\ Ends /\ Forked
  /\ mem' = [mem EXCEPT !.fork = TRUE, !.err = "fork"]
  /\ \/ ~ mem.fork /\ Logged(tail, <<[action |-> "fork"]>>)
     \/ UNCHANGED <<durable, tail>>
  /\ UNCHANGED <<blind, faults>>

\* Nothing new, or an earlier fork's `error` that is still there: no anchor.
EndWithoutAnchor ==
  /\ Ends /\ ~ Forked
  /\ EndErr = "fork" \/ EndTip = pull.anchor
  /\ mem' = IF EndErr = "fork" THEN mem ELSE Judge(mem)
  /\ UNCHANGED <<durable, tail, blind, faults>>

Moves == Ends /\ ~ Forked /\ EndErr # "fork" /\ EndTip # pull.anchor

\* The facts b that the pull leaves behind.
Indexed(b, ok) == Judge([b EXCEPT !.anchor = EndTip, !.index = @ \cup Matched(b),
                                  !.unknown = @ \cup Unknown(b, ok)])

\* The matches are recorded, then the anchor that covers them.
EndWithAnchor_Only ==
  /\ Moves
  /\ \E ok \in BOOLEAN :
       /\ ScanEnds(ok)
       /\ Logged(Unread(ok), <<[action |-> "anchor", head |-> EndTip]>>)
       /\ mem' = Indexed(ForIndexing(ok), ok)
       /\ blind' = (blind \/ ~ ok)

EndWithAnchor ==
  /\ Moves
  /\ \E ok \in BOOLEAN :
       LET b == ForIndexing(ok)
       IN  /\ ScanEnds(ok)
           /\ Logged(Unread(ok), MatchEntry(b) \o <<[action |-> "anchor", head |-> EndTip]>>)
           /\ mem' = Indexed(b, ok)
           /\ blind' = (blind \/ ~ ok)

\* The hub's log cannot be written, perhaps after the matches: the segment
\* will be pulled again.
AnchorFails ==
  /\ Moves
  /\ \E ok \in BOOLEAN :
       LET b == ForIndexing(ok)
       IN  /\ ScanEnds(ok)
           /\ \E entries \in {<<>>, MatchEntry(b)} : Logged(Unread(ok), entries)
           /\ mem' = [b EXCEPT !.err = "failed"]
  /\ UNCHANGED blind

RebaseOnto(head) ==
  /\ Logged(tail, <<[action |-> "rebase", head |-> head, before |-> durable.sent]>>)
  /\ mem' = Rebased(mem, head, durable.sent)
  /\ blind' = FALSE

MayRebase == /\ faults < MaxFaults
             /\ RebaseInFlight \/ pull.st = "none"
             /\ faults' = faults + 1

\* An operator rebases the builder: its log is read from the start again.
Rebase ==
  /\ MayRebase
  /\ RebaseOnto(Genesis)
  /\ rewritten' = FALSE
  /\ UNCHANGED <<builderVars, pull, headRead>>

\* rebaseToHead: the builder is asked for its head ...
ReadHead ==
  /\ headRead = <<>> /\ faults < MaxFaults
  /\ headRead' = <<[head |-> HeadOf(blog), stale |-> FALSE]>>
  /\ UNCHANGED <<builderVars, durable, tail, mem, pull, observers, faults>>

\* ... and then rebased onto it.
RebaseToHead ==
  /\ headRead # <<>>
  /\ MayRebase
  /\ RebaseOnto(headRead[1].head)
  /\ rewritten' = headRead[1].stale
  /\ headRead' = <<>>
  /\ UNCHANGED <<builderVars, pull>>

\* The log is read from its start, if it can be; what was in flight is lost.
HubRestart ==
  /\ faults < MaxFaults
  /\ \/ mem' = durable /\ tail' = <<>>
     \/ mem' = Fresh /\ tail' = <<[action |-> "log", facts |-> durable]>>
  /\ pull' = NoPull
  /\ headRead' = <<>>
  /\ givenUp' = givenUp \cup InFlight
  /\ faults' = faults + 1
  /\ UNCHANGED <<blog, written, recorded, durable, observers>>

EndPull == RaiseFork \/ EndWithoutAnchor \/ EndWithAnchor \/ AnchorFails

Next ==
  \/ \E id \in Ids \cup {Local} : BuilderAppends(id)
  \/ BuilderRewrites
  \/ \E id \in Ids, action \in {"sent", "done", "unsent"} : RelayLogs(action, id)
  \/ \E id \in Ids : RelayGivesUp(id)
  \/ Tick \/ BuilderAnswers \/ ReadFails \/ AskNextPage \/ EndPull
  \/ Rebase \/ ReadHead \/ RebaseToHead
  \/ HubRestart

Spec == Init /\ [][Next]_vars

\* The timer ticks, a pull goes on (its reads time out), and neither the
\* builder's reads nor the hub's log fail for ever.
FairSpec == /\ Spec
            /\ WF_vars(Tick)
            /\ WF_vars(BuilderAnswers \/ ReadFails) /\ SF_vars(BuilderAnswers)
            /\ WF_vars(AskNextPage)
            /\ WF_vars(EndPull) /\ SF_vars(EndWithAnchor)

-----------------------------------------------------------------------------
Facts == [sent : SUBSET Ids, done : SUBSET Ids, unsent : SUBSET Ids, anchor : Heads,
          fork : BOOLEAN, index : SUBSET LogEntries, unknown : SUBSET Ids, judged : SUBSET Ids,
          unjudged : SUBSET Ids, rebased : BOOLEAN, err : {"none", "failed", "fork"}]

\* Every variable has its type; a replay of the log judges nothing before the
\* first pull.
TypeOK ==
  /\ blog \in Seq(LogEntries)
  /\ written \in 0..MaxEntries /\ recorded \subseteq Ids /\ givenUp \subseteq Ids
  /\ durable \in Facts /\ mem \in Facts
  /\ durable.judged = {}
  /\ pull.st \in {"none", "asked", "answered"}
  /\ pull.anchor \in Heads /\ pull.tip \in Heads /\ pull.pages \in 0..MaxPages
  /\ pull.fresh \subseteq LogEntries /\ pull.settled \subseteq Ids
  /\ pull.answer.kind \in {"none", "failed", "fork", "page"}
  /\ Len(headRead) <= 1
  /\ rewritten \in BOOLEAN /\ blind \in BOOLEAN /\ faults \in 0..MaxFaults

\* The hub reports an action as `missing-on-builder` (computeMismatches,
\* stateOf), unless it knows that nothing was sent.
Missing(id) == /\ id \in (mem.sent \cap mem.judged) \ (mem.unsent \cup mem.unjudged)
               /\ \A e \in mem.index : e.id # id

\* An action reported missing is not in the builder's log if the builder
\* answered it, and not in the part the hub has read if the outcome is unknown
\* (the builder may still record it): not because the pull started too early,
\* was cut off, or passed over it, not after a rebase, a restart of the hub or
\* a scan that failed, unless it was the one before an indexing.
NoFalseAlarm ==
  ~ blind =>
    \A id \in Ids : Missing(id) =>
      \A i \in DOMAIN blog : blog[i].id = id =>
        /\ id \notin durable.done
        /\ OnLog(mem.anchor) => i > mem.anchor.count

\* No action that the hub sent is counted as unknown to it: the log is read
\* again after the builder answered (SR14 M1), and only if that very read
\* fails can one be, whatever other scans failed before.
NoFalseUnknown == ~ blind => mem.unknown \cap durable.sent = {}

\* A fork is only raised of a log that lost entries since the last rebase.
ForkIsReal == mem.fork => rewritten

\* A restart of the hub keeps the anchor and every match (SR14 M2): a hub that
\* has read its log since holds that anchor, and none holds another match.
RestartKeepsMatches == /\ ~ NothingRead => mem.anchor = durable.anchor
                       /\ Scanned.anchor = durable.anchor
                       /\ mem.index \subseteq durable.index

\* A builder's log that no longer holds the anchored head is seen to be a
\* fork, unless it is restored or rebased.
RewriteIsSeen == ~ OnLog(mem.anchor) ~> mem.fork \/ OnLog(mem.anchor)

\* A log without a fork whose new entries fit one pull in the end is followed
\* to its head: after a rebase too ("raises it again until `rebase(builder)`
\* is called by a human").
CatchesUp == <>[](~ mem.fork /\ Len(blog) - mem.anchor.count <= PageSize * MaxPages)
               => []<>(mem.anchor = HeadOf(blog))

=============================================================================
