-------------------------------- MODULE Stream --------------------------------
(* What a builder sends to its hub: server/state.mjs (tick, snapshot),        *)
(* server/ws.mjs (broadcastFrom, send) and server/fleet/stream.mjs.           *)
(*                                                                            *)
(* A tick rereads the sessions one by one, with awaits in between, and then   *)
(* broadcasts what differs from the sessions it broadcast last, the diff      *)
(* baseline.  Broadcast frames are numbered; a snapshot is stamped with the   *)
(* number of the last one.  A snapshot may be made at any time and shows what *)
(* has been read so far.  So it may show what no broadcast will: a tick that  *)
(* throws broadcasts nothing, and a flag of a decorator (paused,              *)
(* awaitingApproval) may come and go between two ticks.                       *)
(*                                                                            *)
(* A session that is gone is one whose look says so: `removed` is how a delta *)
(* brings that.                                                               *)
EXTENDS Integers, Sequences

CONSTANTS
  Sessions,      \* the names of the builder's sessions
  Looks,         \* what a session that is there may be like
  Gone,          \* what one is like that is not
  MaxChanges,    \* bound: how often a session changes
  MaxSeq,        \* bound: the frames that one process of the builder numbers
  MaxFaults      \* bound: lost frames, lost connections and restarts together

ASSUME LooksAssumption == Gone \notin Looks
ASSUME BoundsAssumption == MaxChanges \in Nat /\ MaxSeq \in Nat /\ MaxFaults \in Nat

VARIABLES
  builder,   \* the builder's process
  wire,      \* the frames under way on the hub's stream, in order
  done       \* how much of the bounds is used up

Epochs == 1..(MaxFaults + 1)

(* A session: what it is like, the number of the change that made it so (0: none
   yet), which no frame has, and the process it comes from, which is the epoch of
   the frame. *)
Values == [epoch : 0..(MaxFaults + 1), data : 0..MaxChanges, is : Looks \cup {Gone}]

Fresh(e) == [s \in Sessions |-> [epoch |-> e, data |-> 0, is |-> Gone]]

(* A process after its start: `sessions` is what a snapshot shows, `base` the
   diff baseline, `hub` says whether the hub's client is connected to it, and
   `fleeting` has the changes that were undone before a broadcast had them. *)
NewProcess(e) ==
  [epoch |-> e, seq |-> 0, sessions |-> Fresh(e), base |-> Fresh(e), hub |-> FALSE,
   fleeting |-> {}]

(* A frame, or the body of GET /api/v1/snapshot.  A delta has the sessions that
   changed; one without any stands for all frames that bring no session
   (events, vitals, the map, alarms, approvals). *)
Frames ==
  [type : {"snapshot", "delta"}, epoch : Epochs, seq : 0..MaxSeq,
   sessions : UNION {[S -> Values] : S \in SUBSET Sessions}]

SnapshotFrame ==
  [type |-> "snapshot", epoch |-> builder.epoch, seq |-> builder.seq,
   sessions |-> builder.sessions]

Delta(sessions) ==
  [type |-> "delta", epoch |-> builder.epoch, seq |-> builder.seq + 1,
   sessions |-> sessions]

(* diffSessions: the sessions that differ from the baseline, which is then that
   of the sessions as they are. *)
Changed == {s \in Sessions : builder.sessions[s].is # builder.base[s].is}

NextBase == [s \in Sessions |-> IF s \in Changed THEN builder.sessions[s]
                                ELSE builder.base[s]]

-----------------------------------------------------------------------------
(* The bound on frames: after the last one nothing changes any more. *)
Goes == builder.seq < MaxSeq

(* A session changes: a tick has read it, or seen that it is gone, or a flag's
   source has changed.  It stays so if the tick throws; the next one reads it
   again. *)
Changes(s) ==
  /\ Goes
  /\ done.changes < MaxChanges
  /\ \E look \in (Looks \cup {Gone}) \ {builder.sessions[s].is} :
       builder' = [builder EXCEPT
         !.sessions[s] = [@ EXCEPT !.data = done.changes + 1, !.is = look],
         !.fleeting = IF s \in Changed THEN @ \cup {builder.sessions[s].data} ELSE @]
  /\ done' = [done EXCEPT !.changes = @ + 1]
  /\ UNCHANGED wire

(* broadcastFrom, at the end of a tick, when the hub is a client: what differs
   from the baseline is numbered and sent. *)
Broadcast ==
  /\ builder.hub
  /\ Goes
  /\ builder' = [builder EXCEPT !.seq = @ + 1, !.base = NextBase]
  /\ wire' = Append(wire, Delta([s \in Changed |-> builder.sessions[s]]))
  /\ UNCHANGED done

(* The same when it is not: the baseline moves, and the number too if a browser
   is connected to the builder. *)
BroadcastToOthers ==
  /\ ~builder.hub
  /\ Goes
  /\ \E browsers \in BOOLEAN :
       builder' = [builder EXCEPT !.seq = IF browsers THEN @ + 1 ELSE @,
                                  !.base = NextBase]
  /\ UNCHANGED <<wire, done>>

(* broadcastEvent and the other frames that leave the baseline alone.  Such a
   frame is not the builder's last one: vitals alone make one every five
   seconds. *)
BroadcastEvent ==
  /\ builder.seq + 1 < MaxSeq
  /\ builder' = [builder EXCEPT !.seq = @ + 1]
  /\ wire' = IF builder.hub THEN Append(wire, Delta(<<>>)) ELSE wire
  /\ UNCHANGED done

(* The number moves and the frame is not sent: a tap that throws is logged and
   passed over.  It is not the last frame either. *)
BroadcastLost ==
  /\ builder.hub
  /\ builder.seq + 1 < MaxSeq
  /\ done.faults < MaxFaults
  /\ builder' = [builder EXCEPT !.seq = @ + 1, !.base = NextBase]
  /\ done' = [done EXCEPT !.faults = @ + 1]
  /\ UNCHANGED wire

(* attachStream: the client's first frame is a snapshot. *)
Attach ==
  /\ builder' = [builder EXCEPT !.hub = TRUE]
  /\ wire' = <<SnapshotFrame>>

(* The connection is gone, with the frames still on it. *)
Detach ==
  /\ builder' = [builder EXCEPT !.hub = FALSE]
  /\ wire' = <<>>

(* A new process: a new epoch, nothing read yet.  Frames of the old one may
   still arrive until the hub notices. *)
Restart ==
  /\ done.faults < MaxFaults
  /\ builder' = NewProcess(builder.epoch + 1)
  /\ done' = [done EXCEPT !.faults = @ + 1]
  /\ UNCHANGED wire

StreamInit ==
  /\ builder = NewProcess(1)
  /\ wire = <<>>
  /\ done = [changes |-> 0, faults |-> 0]

StreamNext ==
  \/ \E s \in Sessions : Changes(s)
  \/ Broadcast
  \/ BroadcastToOthers
  \/ BroadcastEvent
  \/ BroadcastLost
  \/ Restart
=============================================================================
