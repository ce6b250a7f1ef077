------------------------------- MODULE Upstream -------------------------------
(* The hub's end of a builder's stream: server/hub/upstream.mjs, with the part *)
(* of server/hub/fleet-store.mjs that merges sessions into the hub's view.     *)
(*                                                                            *)
(* The stream starts with a snapshot.  Every other frame must have the next   *)
(* number of the same epoch.  If it does not, the hub fetches a snapshot over *)
(* HTTP, keeps the frames that arrive meanwhile, and replays those that the   *)
(* snapshot does not cover, or it closes the socket and connects again.       *)
(*                                                                            *)
(* The store may refuse what it is given: a snapshot of too many sessions, a  *)
(* session with a bad name, a new one when it is full.  The hub does not ask: *)
(* the frame is taken, with its number.                                       *)
(*                                                                            *)
(* Time and bytes are left out: a gap may always count as a repeated one, a   *)
(* fetch as one too many, a connection as silent for too long, a buffer as    *)
(* full.                                                                      *)
EXTENDS Stream, FiniteSets

CONSTANTS
  BufferCap,   \* resyncBufferFrames
  StoreCap,    \* the sessions of a builder that the store holds (LIMITS.sessions)
  Unsafe       \* the sessions whose names it does not take (isSafeName)

ASSUME CapAssumption == BufferCap \in Nat \ {0}
ASSUME StoreAssumption ==
  IsFiniteSet(Sessions) /\ Unsafe \subseteq Sessions /\ StoreCap \in Nat

VARIABLE hub   \* the Upstream of this builder and its entry in the store: `view` is
               \* what the store shows, `told` what it would if it took all it is
               \* given, `snap` says whether it has taken a snapshot yet

vars == <<builder, wire, done, hub>>

Null == -1

(* The HTTP snapshot of a resync. *)
NoFetch == [st |-> "none"]
Asked == [st |-> "asked"]
Answered(snap) == [st |-> "answered", snap |-> snap]

(* The socket: none, open, or closed by the hub and not yet gone. *)
SocketStates == {"off", "open", "closing"}

-----------------------------------------------------------------------------
(* The handlers, as operators from the hub's state to its next states.  Where
   the code asks the clock there are several. *)

(* The sessions that are there, in a view or in a frame. *)
There(sessions) == {s \in DOMAIN sessions : sessions[s].is # Gone}

(* The sets with all of `must` and as much of `may` as the limit allows; which,
   depends on the order in which they come. *)
Fills(must, may) ==
  {T \in SUBSET (must \cup may) :
     /\ must \subseteq T
     /\ Cardinality(T) = IF Cardinality(must \cup may) < StoreCap
                         THEN Cardinality(must \cup may) ELSE StoreCap}

(* applySnapshot: all of it or nothing. *)
Refuses(f) == Cardinality(There(f.sessions)) > StoreCap

TakesOfSnapshot(f) == IF Refuses(f) THEN {{}} ELSE {Sessions \ Unsafe}

(* applyDelta: without a snapshot nothing; else it reads so many sessions, new
   ones while there is room, and then so many that are gone. *)
TakesOfDelta(h, f) ==
  IF ~h.snap THEN {{}}
  ELSE {T \in SUBSET DOMAIN f.sessions :
          \E read \in Fills({}, There(f.sessions)),
             gone \in Fills({}, DOMAIN f.sessions \ There(f.sessions)) :
            \E shown \in Fills(There(h.view), read \ Unsafe) :
              T = (read \cap shown) \cup (gone \ Unsafe)}

(* applySnapshot and applyDelta, with the number that the frame brings. *)
Applied(h, f) ==
  {[h EXCEPT !.seq = f.seq, !.epoch = f.epoch,
             !.view = [s \in Sessions |-> IF s \in T THEN f.sessions[s] ELSE @[s]],
             !.told = [s \in Sessions |->
                         IF s \in DOMAIN f.sessions THEN f.sessions[s] ELSE @[s]],
             !.snap = @ \/ (f.type = "snapshot" /\ ~Refuses(f))] :
   T \in IF f.type = "snapshot" THEN TakesOfSnapshot(f) ELSE TakesOfDelta(h, f)}

(* _closeWith *)
Closing(h) ==
  [h EXCEPT !.socket = "closing", !.resyncing = FALSE, !.buffer = <<>>,
            !.overflowed = FALSE]

(* _gap, for the first gap in a while: start a resync, if there is budget. *)
Resyncing(h, f) ==
  [h EXCEPT !.resyncing = TRUE, !.overflowed = FALSE, !.refetched = FALSE,
            !.buffer = <<f>>, !.fetch = Asked]

(* _bufferFrame, of a frame that does not fit. *)
Overflowed(h) ==
  IF h.refetched THEN Closing(h)
  ELSE [h EXCEPT !.overflowed = TRUE, !.buffer = <<>>]

\* Mutation: one frame more than the cap.
Buffered_OneMore(h, f) ==
  IF h.overflowed THEN {h}
  ELSE IF Len(h.buffer) <= BufferCap
       THEN {[h EXCEPT !.buffer = Append(@, f)], Overflowed(h)}
  ELSE {Overflowed(h)}

(* _bufferFrame: the cap on the frames, or the one on their bytes. *)
Buffered(h, f) ==
  IF h.overflowed THEN {h}
  ELSE IF Len(h.buffer) < BufferCap
       THEN {[h EXCEPT !.buffer = Append(@, f)], Overflowed(h)}
  ELSE {Overflowed(h)}

(* The tests of _process on a frame that is not a snapshot. *)
SameEpoch(h, f) == h.epoch \in {Null, f.epoch}
Duplicate(h, f) == SameEpoch(h, f) /\ h.seq # Null /\ f.seq <= h.seq
InOrder(h, f) == SameEpoch(h, f) /\ h.seq # Null /\ f.seq = h.seq + 1

\* Mutation: a gap goes unnoticed.
Processed_NoGap(h, f) ==
  IF f.type = "snapshot" THEN Applied(h, f)
  ELSE IF Duplicate(h, f) THEN {h}
  ELSE IF SameEpoch(h, f) /\ h.seq # Null THEN Applied(h, f)
  ELSE {Closing(h), Resyncing(h, f)}

\* Mutation: frames that the snapshot covers are applied again.
Processed_Again(h, f) ==
  IF f.type = "snapshot" \/ InOrder(h, f) \/ Duplicate(h, f) THEN Applied(h, f)
  ELSE {Closing(h), Resyncing(h, f)}

\* Mutation: the number is compared, the epoch is not.
Processed_AnyEpoch(h, f) ==
  IF f.type = "snapshot" THEN Applied(h, f)
  ELSE IF h.seq # Null /\ f.seq <= h.seq THEN {h}
  ELSE IF h.seq # Null /\ f.seq = h.seq + 1 THEN Applied(h, f)
  ELSE {Closing(h), Resyncing(h, f)}

(* _process *)
Processed(h, f) ==
  IF f.type = "snapshot" \/ InOrder(h, f) THEN Applied(h, f)
  ELSE IF Duplicate(h, f) THEN {h}
  ELSE {Closing(h), Resyncing(h, f)}

(* _onMessage, and one step of the replay: it buffers while a resync goes on and
   does nothing once the socket is closing. *)
Taken(h, f) ==
  IF h.socket # "open" THEN {h}
  ELSE IF h.resyncing THEN Buffered(h, f)
  ELSE Processed(h, f)

(* The loop at the end of _resync, over the frames that were kept. *)
Replayed(h, frames) ==
  LET after[n \in 0..Len(frames)] ==
        IF n = 0 THEN {h} ELSE UNION {Taken(x, frames[n]) : x \in after[n - 1]}
  IN  after[Len(frames)]

(* _resync, after its await: apply the snapshot and replay, or, if frames were
   dropped meanwhile, fetch another one. *)
Refetching(h) ==
  [h EXCEPT !.overflowed = FALSE, !.refetched = TRUE, !.buffer = <<>>,
            !.fetch = Asked]

ResyncEnds(h) ==
  [h EXCEPT !.resyncing = FALSE, !.refetched = FALSE, !.buffer = <<>>,
            !.fetch = NoFetch]

AfterFetch(h, snap) ==
  UNION {IF h.overflowed THEN {Refetching(x), Closing([x EXCEPT !.fetch = NoFetch])}
         ELSE Replayed(ResyncEnds(x), h.buffer) : x \in Applied(h, snap)}

-----------------------------------------------------------------------------
(* _connect and _openStream: hello was fine and the builder took the stream. *)
Connect ==
  /\ hub.socket = "off"
  /\ Attach
  /\ hub' = [hub EXCEPT !.socket = "open", !.seq = Null, !.epoch = Null,
                        !.resyncing = FALSE, !.buffer = <<>>,
                        !.overflowed = FALSE, !.refetched = FALSE]
  /\ UNCHANGED done

(* A frame arrives. *)
Receive ==
  /\ wire # <<>>
  /\ hub.socket # "off"
  /\ wire' = Tail(wire)
  /\ hub' \in Taken(hub, Head(wire))
  /\ UNCHANGED <<builder, done>>

(* The builder, whichever process it is by now, answers GET /api/v1/snapshot. *)
Answer ==
  /\ hub.fetch = Asked
  /\ hub' = [hub EXCEPT !.fetch = Answered(SnapshotFrame)]
  /\ UNCHANGED <<builder, wire, done>>

(* The hub goes on after the await; a socket that is closing is left alone. *)
TakeSnapshot ==
  /\ hub.fetch.st = "answered"
  /\ IF hub.socket = "open" THEN hub' \in AfterFetch(hub, hub.fetch.snap)
     ELSE hub' = [hub EXCEPT !.fetch = NoFetch]
  /\ UNCHANGED <<builder, wire, done>>

\* Mutation: a resync that fails leaves the socket open.
FetchFails_StaysOpen ==
  /\ hub.fetch = Asked
  /\ hub' = [hub EXCEPT !.fetch = NoFetch]
  /\ UNCHANGED <<builder, wire, done>>

(* The fetch fails or times out. *)
FetchFails ==
  /\ hub.fetch = Asked
  /\ hub' = IF hub.socket = "open" THEN [Closing(hub) EXCEPT !.fetch = NoFetch]
            ELSE [hub EXCEPT !.fetch = NoFetch]
  /\ UNCHANGED <<builder, wire, done>>

(* What the 'close' handler resets; a fetch that is under way is aborted. *)
Closed(h) ==
  [h EXCEPT !.socket = "off", !.resyncing = FALSE, !.buffer = <<>>,
            !.overflowed = FALSE, !.fetch = NoFetch]

(* The 'close' event: the hub closed the socket, or the builder is gone. *)
SocketEnds ==
  /\ hub.socket = "closing" \/ (hub.socket = "open" /\ ~builder.hub)
  /\ Detach
  /\ hub' = Closed(hub)
  /\ UNCHANGED done

(* The 'close' event of a connection that was lost: the network, a stream client
   too far behind, silence for staleMs, or more than the frame rate allows. *)
Drop ==
  /\ hub.socket = "open"
  /\ done.faults < MaxFaults
  /\ Detach
  /\ hub' = Closed(hub)
  /\ done' = [done EXCEPT !.faults = @ + 1]

-----------------------------------------------------------------------------
Init ==
  /\ StreamInit
  /\ hub = [socket |-> "off", seq |-> Null, epoch |-> Null, resyncing |-> FALSE,
            buffer |-> <<>>, overflowed |-> FALSE, refetched |-> FALSE,
            fetch |-> NoFetch, view |-> Fresh(0), told |-> Fresh(0), snap |-> FALSE]

Next ==
  \/ StreamNext /\ UNCHANGED hub
  \/ Connect
  \/ Receive
  \/ Answer
  \/ TakeSnapshot
  \/ FetchFails
  \/ SocketEnds
  \/ Drop

Spec == Init /\ [][Next]_vars

(* The builder ticks on, the hub's event loop serves the socket and its timers,
   a fetch ends (it has a timeout), and the hub can connect again. *)
Fairness ==
  /\ WF_vars(Broadcast /\ UNCHANGED hub)
  /\ WF_vars(Connect) /\ WF_vars(Receive) /\ WF_vars(SocketEnds)
  /\ WF_vars(Answer \/ FetchFails) /\ WF_vars(TakeSnapshot)

FairSpec == Spec /\ Fairness

-----------------------------------------------------------------------------
(* Type correctness; the hub never keeps more frames than the cap. *)
TypeOK ==
  /\ builder \in [epoch : Epochs, seq : 0..MaxSeq, sessions : [Sessions -> Values],
                  base : [Sessions -> Values], hub : BOOLEAN,
                  fleeting : SUBSET (0..MaxChanges)]
  /\ \A i \in 1..Len(wire) : wire[i] \in Frames
  /\ done \in [changes : 0..MaxChanges, faults : 0..MaxFaults]
  /\ hub.socket \in SocketStates
  /\ hub.seq \in {Null} \cup 0..MaxSeq
  /\ hub.epoch \in {Null} \cup Epochs
  /\ hub.view \in [Sessions -> Values] /\ hub.told \in [Sessions -> Values]
  /\ {hub.resyncing, hub.overflowed, hub.refetched, hub.snap} \subseteq BOOLEAN
  /\ hub.fetch.st \in {"none", "asked", "answered"}
  /\ Len(hub.buffer) <= BufferCap
  /\ \A i \in 1..Len(hub.buffer) : hub.buffer[i] \in Frames

(* The hub has taken every frame that the process it is connected to sent. *)
UpToDate ==
  /\ hub.socket = "open" /\ ~hub.resyncing /\ builder.hub
  /\ hub.epoch = builder.epoch /\ hub.seq = builder.seq

(* The store has what the hub was last told of a session. *)
Shown(s) == hub.view[s] = hub.told[s]

(* A hub that has taken the builder's last frame, by whatever way (frames that
   were lost, a resync, a replay, a reconnection), has missed nothing that was
   broadcast of a session, unless the store refused it, and what it shows of it is
   never ahead of the builder. *)
NothingIsMissed ==
  UpToDate =>
    \A s \in Sessions :
      Shown(s) => /\ builder.base[s].data <= hub.view[s].data
                  /\ hub.view[s].data <= builder.sessions[s].data

(* A delta of another process than the one whose frames the hub counts is not
   applied even if its number fits: a session in the view comes from that one,
   unless the store has refused what it said of it. *)
OneEpoch ==
  hub.socket # "off" /\ hub.epoch # Null =>
    \A s \in Sessions : Shown(s) => hub.view[s].epoch = hub.epoch

(* A session in the hub's view never goes back to something older, whatever the
   store refuses: frames that were kept during a fetch do not undo the snapshot,
   and a late frame or answer of an old process does not undo the new one. *)
NoStepBack ==
  [][\A s \in Sessions :
       LET old == hub.view[s]  new == hub'.view[s] IN
       \/ old.epoch < new.epoch
       \/ old.epoch = new.epoch /\ old.data <= new.data]_vars

(* Whatever was lost, the view becomes what the builder has, except for a session
   that the store refused, and for one that a snapshot showed as it was before any
   broadcast and that was then as before again: no delta brings that. *)
CatchesUp ==
  <>[](/\ hub.socket = "open"
       /\ \A s \in Sessions :
            Shown(s) => \/ hub.view[s].is = builder.sessions[s].is
                        \/ hub.view[s].data \in builder.fleeting)
=============================================================================
