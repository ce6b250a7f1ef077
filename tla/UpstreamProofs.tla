---------------------------- MODULE UpstreamProofs ----------------------------
(* Proofs about Upstream, for any sessions, buffer and bounds.                *)
(*                                                                            *)
(* The invariant speaks of one state of the hub and of the set of frames that *)
(* are still to come to it, so that it can be carried through the replay of   *)
(* the frames kept during a fetch, where what is to come is the rest of them  *)
(* and then the wire.  Four things are said: what the hub may be doing        *)
(* (HubIsSane), in which order the frames come (InLine), that what is to come *)
(* is no older than what the hub shows (NoneIsLate), and that with it nothing *)
(* is missing but what a gap in the numbers betrays (NoneIsLost).             *)
EXTENDS Upstream, SequenceTheorems, WellFoundedInduction, FiniteSetTheorems, TLAPS

Builders == [epoch : Epochs, seq : 0..MaxSeq, sessions : [Sessions -> Values],
             base : [Sessions -> Values], hub : BOOLEAN,
             fleeting : SUBSET (0..MaxChanges)]

Fetches == {NoFetch, Asked} \cup [st : {"answered"}, snap : Frames]

Hubs == [socket : SocketStates, seq : {Null} \cup 0..MaxSeq, epoch : {Null} \cup Epochs,
         resyncing : BOOLEAN, buffer : Seq(Frames), overflowed : BOOLEAN,
         refetched : BOOLEAN, fetch : Fetches, view : [Sessions -> Values],
         told : [Sessions -> Values], snap : BOOLEAN]

TypeInv ==
  /\ builder \in Builders
  /\ wire \in Seq(Frames)
  /\ done \in [changes : 0..MaxChanges, faults : 0..MaxFaults]
  /\ hub \in Hubs /\ Len(hub.buffer) <= BufferCap

(* The baseline is what the builder's process once read.                     *)
OneProcess(b) ==
  \A s \in Sessions : /\ b.sessions[s].epoch = b.epoch /\ b.base[s].epoch = b.epoch
                      /\ b.base[s].data <= b.sessions[s].data

BuilderInv ==
  /\ OneProcess(builder)
  /\ builder.epoch <= done.faults + 1
  /\ \A s \in Sessions : builder.sessions[s].data <= done.changes

(* A session as it was before, or as it is.                                   *)
Behind(older, newer) ==
  \A s \in Sessions : \/ older[s].epoch < newer[s].epoch
                      \/ older[s].epoch = newer[s].epoch /\ older[s].data <= newer[s].data

(* A hub that has been told more, and shows no less.                          *)
Onward(h, x) == Behind(h.told, x.told) /\ Behind(h.view, x.view)

(* No session of a frame is older than what was shown at number n of an epoch. *)
NotOlder(epoch, n, shown, f) ==
  f.epoch = epoch /\ n < f.seq =>
    \A s \in DOMAIN f.sessions : shown[s].data <= f.sessions[s].data

(* Frame f was numbered before frame g.                                       *)
Precedes(f, g) ==
  \/ f.epoch < g.epoch
  \/ /\ f.epoch = g.epoch /\ f.seq < g.seq
     /\ \A s \in DOMAIN f.sessions \cap DOMAIN g.sessions :
          f.sessions[s].data <= g.sessions[s].data

(* A frame that builder b sent, or an earlier process of it.                  *)
SentBy(b, f) ==
  /\ \A s \in DOMAIN f.sessions : f.sessions[s].epoch = f.epoch
  /\ f.type = "snapshot" => DOMAIN f.sessions = Sessions
  /\ f.epoch <= b.epoch
  /\ f.epoch = b.epoch =>
       f.seq <= b.seq /\ \A s \in DOMAIN f.sessions : f.sessions[s].data <= b.sessions[s].data

(* In what follows h is a state of the hub, rest the frames to come to it.    *)
Kept(h) == {h.buffer[i] : i \in DOMAIN h.buffer}

(* The store has room for all sessions there are.                             *)
HasRoom == Cardinality(Sessions) <= StoreCap

(* A fetch goes with a resync, a buffer with both.  What the store refuses    *)
(* leaves it with something older; that is never for want of room if it has   *)
(* room for all, once it was given a snapshot.                               *)
HubIsSane(h) ==
  /\ h \in Hubs /\ Len(h.buffer) <= BufferCap
  /\ h.socket = "off" => h.fetch = NoFetch
  /\ h.socket = "open" /\ h.fetch # NoFetch => h.resyncing
  /\ ~ h.resyncing => h.buffer = <<>>
  /\ h.seq = Null <=> h.epoch = Null
  /\ h.epoch # Null => \A s \in Sessions : h.told[s].epoch = h.epoch
  /\ Behind(h.view, h.told)
  /\ HasRoom => /\ h.seq # Null => h.snap
                /\ \A s \in Sessions \ Unsafe : h.view[s] = h.told[s]

(* A snapshot on the wire is the first frame; no other is kept.               *)
InLine(h, rest) ==
  /\ \A i, j \in DOMAIN h.buffer : i < j => Precedes(h.buffer[i], h.buffer[j])
  /\ \A f \in Kept(h), g \in rest : Precedes(f, g)
  /\ \A f \in Kept(h) : f.type = "delta"
  /\ \A f \in rest :
       f.type = "snapshot" => /\ h.seq = Null /\ ~ h.resyncing /\ h.fetch = NoFetch
                              /\ \A g \in rest \ {f} : Precedes(f, g)

NoneIsLate(b, h, rest) ==
  /\ Behind(h.told, b.sessions)
  /\ h.epoch <= b.epoch /\ (h.epoch = b.epoch => h.seq <= b.seq)
  /\ \A f \in rest \cup Kept(h) : SentBy(b, f) /\ NotOlder(h.epoch, h.seq, h.told, f)
  /\ \A f \in rest : f.type = "snapshot" => Behind(h.told, f.sessions)
  /\ h.fetch.st = "answered" =>
       LET snap == h.fetch.snap
       IN  /\ snap.type = "snapshot" /\ SentBy(b, snap) /\ Behind(h.told, snap.sessions)
           /\ \A f \in rest \cup Kept(h) : NotOlder(snap.epoch, snap.seq, snap.sessions, f)

(* What b has broadcast is shown at number n, or will be with the frames to   *)
(* come, or one of their numbers is missing.                                  *)
Covered(b, n, shown, frames) ==
  \/ \E m \in (n + 1)..b.seq : \A f \in frames : ~ (f.epoch = b.epoch /\ f.seq = m)
  \/ \A s \in Sessions :
       \/ b.base[s].data <= shown[s].data
       \/ \E f \in frames : /\ f.epoch = b.epoch /\ n < f.seq /\ s \in DOMAIN f.sessions
                            /\ b.base[s].data <= f.sessions[s].data

NoneIsLost(b, h, rest) ==
  b.hub =>
    /\ h.socket = "open" /\ ~ h.resyncing /\ h.epoch = b.epoch =>
         Covered(b, h.seq, h.told, rest)
    /\ h.socket = "open" /\ h.fetch.st = "answered" /\ ~ h.overflowed
         /\ h.fetch.snap.epoch = b.epoch =>
         Covered(b, h.fetch.snap.seq, h.fetch.snap.sessions, rest \cup Kept(h))
    /\ \A f \in rest : f.type = "snapshot" /\ f.epoch = b.epoch =>
         Covered(b, f.seq, f.sessions, rest)

HubInv(b, h, rest) ==
  HubIsSane(h) /\ InLine(h, rest) /\ NoneIsLate(b, h, rest) /\ NoneIsLost(b, h, rest)

FramesOf(w) == {w[i] : i \in DOMAIN w}

InARow(w) == \A i, j \in DOMAIN w : i < j => Precedes(w[i], w[j])

OnWire == FramesOf(wire)

WireInv == InARow(wire)

LinkInv == TypeInv /\ BuilderInv /\ WireInv /\ HubInv(builder, hub, OnWire)

-----------------------------------------------------------------------------
(* Fields.                                                                   *)

LEMMA Bounds == /\ MaxFaults \in Nat /\ MaxSeq \in Nat /\ MaxChanges \in Nat
                /\ BufferCap \in Nat /\ BufferCap >= 1 /\ Null = -1
BY BoundsAssumption, CapAssumption DEF Null

LEMMA FrameFields ==
  ASSUME NEW f \in Frames
  PROVE  /\ f.type \in {"snapshot", "delta"}
         /\ f.epoch \in Epochs /\ f.epoch \in Nat /\ f.epoch # Null
         /\ f.seq \in 0..MaxSeq /\ f.seq \in Nat
         /\ DOMAIN f.sessions \in SUBSET Sessions
         /\ f.sessions \in [DOMAIN f.sessions -> Values]
         /\ \A s \in DOMAIN f.sessions : f.sessions[s] \in Values
<1>1. PICK S \in SUBSET Sessions : f.sessions \in [S -> Values]
  BY DEF Frames
<1>2. f.type \in {"snapshot", "delta"} /\ f.epoch \in Epochs /\ f.seq \in 0..MaxSeq
  BY DEF Frames
<1> QED BY <1>1, <1>2, Bounds DEF Epochs

LEMMA ValueFields ==
  ASSUME NEW v \in Values
  PROVE  v.epoch \in Nat /\ v.data \in Nat
BY Bounds DEF Values

LEMMA HubFields ==
  ASSUME NEW h \in Hubs
  PROVE  /\ h.socket \in SocketStates /\ h.seq \in {Null} \cup 0..MaxSeq /\ h.seq \in Int
         /\ h.epoch \in {Null} \cup Epochs /\ h.epoch \in Int
         /\ h.resyncing \in BOOLEAN /\ h.overflowed \in BOOLEAN /\ h.refetched \in BOOLEAN
         /\ h.buffer \in Seq(Frames) /\ h.fetch \in Fetches /\ h.told \in [Sessions -> Values]
         /\ h.view \in [Sessions -> Values] /\ h.snap \in BOOLEAN
         /\ Kept(h) \in SUBSET Frames
<1>1. /\ h.socket \in SocketStates /\ h.seq \in {Null} \cup 0..MaxSeq
      /\ h.epoch \in {Null} \cup Epochs
      /\ h.resyncing \in BOOLEAN /\ h.overflowed \in BOOLEAN /\ h.refetched \in BOOLEAN
      /\ h.buffer \in Seq(Frames) /\ h.fetch \in Fetches /\ h.told \in [Sessions -> Values]
      /\ h.view \in [Sessions -> Values] /\ h.snap \in BOOLEAN
  BY DEF Hubs
<1>2. \A i \in DOMAIN h.buffer : h.buffer[i] \in Frames
  BY <1>1
<1> QED BY <1>1, <1>2, Bounds DEF Epochs, Kept

LEMMA FetchFields ==
  ASSUME NEW fetch \in Fetches
  PROVE  /\ fetch.st \in {"none", "asked", "answered"}
         /\ fetch.st = "answered" => fetch.snap \in Frames /\ fetch # NoFetch /\ fetch # Asked
         /\ fetch.st # "answered" => fetch \in {NoFetch, Asked}
         /\ fetch.st = "none" <=> fetch = NoFetch
BY DEF Fetches, NoFetch, Asked

LEMMA NoFetchFields ==
  /\ NoFetch \in Fetches /\ Asked \in Fetches
  /\ NoFetch.st = "none" /\ Asked.st = "asked" /\ Asked # NoFetch
BY DEF Fetches, NoFetch, Asked

(* What a frame changes, and that it changes nothing else.                    *)
AppliedFrom(h, f, x) ==
  /\ x \in Hubs /\ x.seq = f.seq /\ x.epoch = f.epoch
  /\ \A s \in Sessions :
       /\ x.told[s] = IF s \in DOMAIN f.sessions THEN f.sessions[s] ELSE h.told[s]
       /\ x.view[s] = h.view[s] \/ (s \in DOMAIN f.sessions /\ x.view[s] = f.sessions[s])
  /\ x.socket = h.socket /\ x.resyncing = h.resyncing /\ x.buffer = h.buffer
  /\ x.overflowed = h.overflowed /\ x.refetched = h.refetched /\ x.fetch = h.fetch

LEMMA AppliedFields ==
  ASSUME NEW h \in Hubs, NEW f \in Frames, f.type = "snapshot" => DOMAIN f.sessions = Sessions,
         NEW x \in Applied(h, f)
  PROVE  AppliedFrom(h, f, x)
<1> DEFINE w == [s \in Sessions |-> IF s \in DOMAIN f.sessions THEN f.sessions[s] ELSE h.told[s]]
           p == h.snap \/ (f.type = "snapshot" /\ ~ Refuses(f))
           v(T) == [s \in Sessions |-> IF s \in T THEN f.sessions[s] ELSE h.view[s]]
<1>1. PICK T \in IF f.type = "snapshot" THEN TakesOfSnapshot(f) ELSE TakesOfDelta(h, f) :
        x = [h EXCEPT !.seq = f.seq, !.epoch = f.epoch, !.view = v(T), !.told = w, !.snap = p]
  BY DEF Applied
<1>2. T \subseteq DOMAIN f.sessions
  BY <1>1 DEF TakesOfSnapshot, TakesOfDelta
<1>3. /\ f.seq \in 0..MaxSeq /\ f.epoch \in Epochs /\ DOMAIN f.sessions \subseteq Sessions
      /\ \A s \in DOMAIN f.sessions : f.sessions[s] \in Values
      /\ h.told \in [Sessions -> Values] /\ h.view \in [Sessions -> Values]
  BY FrameFields, HubFields
<1> DEFINE u == v(T)
<1>4. /\ w \in [Sessions -> Values] /\ u \in [Sessions -> Values]
      /\ \A s \in Sessions :
           /\ w[s] = IF s \in DOMAIN f.sessions THEN f.sessions[s] ELSE h.told[s]
           /\ u[s] = h.view[s] \/ (s \in DOMAIN f.sessions /\ u[s] = f.sessions[s])
  BY <1>2, <1>3
<1>5. p \in BOOLEAN /\ x = [h EXCEPT !.seq = f.seq, !.epoch = f.epoch, !.view = u, !.told = w,
                                    !.snap = p]
  BY <1>1
<1> HIDE DEF w, u, p, v
<1>6. /\ x \in Hubs /\ x.seq = f.seq /\ x.epoch = f.epoch /\ x.told = w /\ x.view = u
      /\ x.socket = h.socket /\ x.resyncing = h.resyncing /\ x.buffer = h.buffer
      /\ x.overflowed = h.overflowed /\ x.refetched = h.refetched /\ x.fetch = h.fetch
  BY <1>3, <1>4, <1>5 DEF Hubs
<1> QED BY <1>4, <1>6 DEF AppliedFrom

-----------------------------------------------------------------------------
(* The order of frames and of what is shown.                                 *)

LEMMA BehindItself ==
  ASSUME NEW v \in [Sessions -> Values]
  PROVE  Behind(v, v)
BY ValueFields DEF Behind

LEMMA BehindTransitive ==
  ASSUME NEW u \in [Sessions -> Values], NEW v \in [Sessions -> Values],
         NEW w \in [Sessions -> Values], Behind(u, v), Behind(v, w)
  PROVE  Behind(u, w)
<1> SUFFICES ASSUME NEW s \in Sessions
             PROVE  \/ u[s].epoch < w[s].epoch
                    \/ u[s].epoch = w[s].epoch /\ u[s].data <= w[s].data
  BY DEF Behind
<1>1. /\ u[s].epoch \in Nat /\ v[s].epoch \in Nat /\ w[s].epoch \in Nat
      /\ u[s].data \in Nat /\ v[s].data \in Nat /\ w[s].data \in Nat
  BY ValueFields
<1>2. /\ u[s].epoch < v[s].epoch \/ (u[s].epoch = v[s].epoch /\ u[s].data <= v[s].data)
      /\ v[s].epoch < w[s].epoch \/ (v[s].epoch = w[s].epoch /\ v[s].data <= w[s].data)
  BY DEF Behind
<1> QED BY <1>1, <1>2

LEMMA OnwardItself ==
  ASSUME NEW h \in Hubs
  PROVE  Onward(h, h)
BY HubFields, BehindItself DEF Onward

LEMMA OnwardTransitive ==
  ASSUME NEW h \in Hubs, NEW x \in Hubs, NEW y \in Hubs, Onward(h, x), Onward(x, y)
  PROVE  Onward(h, y)
<1>1. Behind(h.told, y.told)
  BY HubFields, BehindTransitive DEF Onward
<1>2. Behind(h.view, y.view)
  BY HubFields, BehindTransitive DEF Onward
<1> QED BY <1>1, <1>2 DEF Onward

(* The store shows something of what the hub is told, or what it showed before. *)
LEMMA ViewFollows ==
  ASSUME NEW h \in Hubs, NEW f, NEW x, AppliedFrom(h, f, x),
         Behind(h.view, h.told), Behind(h.told, x.told)
  PROVE  Onward(h, x) /\ Behind(x.view, x.told)
<1>1. /\ h.view \in [Sessions -> Values] /\ h.told \in [Sessions -> Values]
      /\ x.view \in [Sessions -> Values] /\ x.told \in [Sessions -> Values]
  BY HubFields DEF AppliedFrom
<1>2. Behind(h.view, x.told) /\ Behind(x.told, x.told) /\ Behind(h.view, h.view)
  BY <1>1, BehindItself, BehindTransitive
<1>3. \A s \in Sessions : x.view[s] = h.view[s] \/ x.view[s] = x.told[s]
  BY DEF AppliedFrom
<1>4. Behind(h.view, x.view) /\ Behind(x.view, x.told)
  BY <1>2, <1>3 DEF Behind
<1> QED BY <1>4 DEF Onward

(* A store with room for all takes all that have a good name.                *)
LEMMA FillsAll ==
  ASSUME HasRoom, NEW must \in SUBSET Sessions, NEW may \in SUBSET Sessions,
         NEW T \in Fills(must, may)
  PROVE  T = must \cup may
<1> DEFINE all == must \cup may
<1>1. all \in SUBSET Sessions /\ T \in SUBSET all
  BY DEF Fills
<1>2. IsFiniteSet(all) /\ Cardinality(all) <= Cardinality(Sessions)
  BY <1>1, StoreAssumption, FS_Subset
<1>3. Cardinality(all) \in Nat /\ Cardinality(Sessions) \in Nat
  BY <1>2, StoreAssumption, FS_CardinalityType
<1>4. Cardinality(T) = Cardinality(all)
  <2>1. Cardinality(T) = IF Cardinality(all) < StoreCap THEN Cardinality(all) ELSE StoreCap
    BY DEF Fills
  <2> QED BY <1>2, <1>3, <2>1, StoreAssumption DEF HasRoom
<1> QED BY <1>1, <1>2, <1>4, FS_Subset

LEMMA AppliedStores ==
  ASSUME HasRoom, NEW h \in Hubs, NEW f \in Frames,
         f.type = "snapshot" => DOMAIN f.sessions = Sessions,
         f.type # "snapshot" => h.snap,
         \A s \in Sessions \ Unsafe : h.view[s] = h.told[s],
         NEW x \in Applied(h, f)
  PROVE  x.snap = TRUE /\ \A s \in Sessions \ Unsafe : x.view[s] = x.told[s]
<1> DEFINE told == [s \in Sessions |-> IF s \in DOMAIN f.sessions THEN f.sessions[s] ELSE h.told[s]]
           p == h.snap \/ (f.type = "snapshot" /\ ~ Refuses(f))
           v(T) == [s \in Sessions |-> IF s \in T THEN f.sessions[s] ELSE h.view[s]]
<1>1. PICK T \in IF f.type = "snapshot" THEN TakesOfSnapshot(f) ELSE TakesOfDelta(h, f) :
        x = [h EXCEPT !.seq = f.seq, !.epoch = f.epoch, !.view = v(T), !.told = told, !.snap = p]
  BY DEF Applied
<1>2. There(f.sessions) \in SUBSET Sessions /\ There(h.view) \in SUBSET Sessions
      /\ DOMAIN f.sessions \in SUBSET Sessions
  BY FrameFields, HubFields DEF There
<1>3. f.type = "snapshot" => ~ Refuses(f)
  <2>1. Cardinality(There(f.sessions)) <= Cardinality(Sessions)
        /\ IsFiniteSet(There(f.sessions))
    BY <1>2, StoreAssumption, FS_Subset
  <2>2. Cardinality(There(f.sessions)) \in Nat /\ Cardinality(Sessions) \in Nat
    BY <2>1, StoreAssumption, FS_CardinalityType
  <2> QED BY <2>1, <2>2, StoreAssumption DEF Refuses, HasRoom
<1>4. p = TRUE
  BY <1>3, HubFields
<1>5. DOMAIN f.sessions \ Unsafe \subseteq T /\ (T \ Unsafe) \subseteq DOMAIN f.sessions
  <2>1. CASE f.type = "snapshot"
    BY <1>1, <1>3, <2>1 DEF TakesOfSnapshot
  <2>2. CASE f.type # "snapshot"
    <3>1. PICK read \in Fills({}, There(f.sessions)),
               gone \in Fills({}, DOMAIN f.sessions \ There(f.sessions)) :
            \E shown \in Fills(There(h.view), read \ Unsafe) :
              T = (read \cap shown) \cup (gone \ Unsafe)
      BY <1>1, <2>2 DEF TakesOfDelta
    <3>2. read = There(f.sessions) /\ gone = DOMAIN f.sessions \ There(f.sessions)
      <4>1. read = {} \cup There(f.sessions)
        BY <1>2, FillsAll
      <4>2. DOMAIN f.sessions \ There(f.sessions) \in SUBSET Sessions
        BY <1>2
      <4>3. gone = {} \cup (DOMAIN f.sessions \ There(f.sessions))
        BY <4>2, FillsAll
      <4> QED BY <4>1, <4>3
    <3>3. PICK shown \in Fills(There(h.view), read \ Unsafe) :
            T = (read \cap shown) \cup (gone \ Unsafe)
      BY <3>1
    <3>4. shown = There(h.view) \cup (read \ Unsafe)
      <4>1. read \ Unsafe \in SUBSET Sessions
        BY <1>2, <3>2
      <4> QED BY <1>2, <4>1, FillsAll
    <3>5. There(f.sessions) \subseteq DOMAIN f.sessions
      BY DEF There
    <3> QED BY <3>2, <3>3, <3>4, <3>5
  <2> QED BY <2>1, <2>2
<1> DEFINE u == v(T)
<1>6. \A s \in Sessions \ Unsafe : u[s] = told[s]
  BY <1>5
<1> HIDE DEF u, told, p
<1>7. x = [h EXCEPT !.seq = f.seq, !.epoch = f.epoch, !.view = u, !.told = told, !.snap = p]
  BY <1>1 DEF u
<1> HIDE DEF v
<1>8. x.view = u /\ x.told = told /\ x.snap = p
  BY <1>7 DEF Hubs
<1> QED BY <1>4, <1>6, <1>8

LEMMA OneComesFirst ==
  ASSUME NEW f \in Frames, NEW g \in Frames, Precedes(f, g)
  PROVE  ~ Precedes(g, f) /\ f # g /\ (f.epoch = g.epoch => f.seq < g.seq)
<1>1. f.epoch \in Nat /\ g.epoch \in Nat /\ f.seq \in Nat /\ g.seq \in Nat
  BY FrameFields
<1> QED BY <1>1 DEF Precedes

(* Covering does not depend on frames that are numbered already.              *)
LEMMA CoveredWithout ==
  ASSUME NEW b, NEW n \in Int, NEW shown, NEW frames, NEW f \in Frames,
         f.epoch = b.epoch => f.seq <= n,
         Covered(b, n, shown, frames)
  PROVE  Covered(b, n, shown, frames \ {f})
<1>1. f.seq \in Nat
  BY FrameFields
<1> QED BY <1>1 DEF Covered

(* The next frame, applied, covers what it covered by being on its way.       *)
LEMMA CoveredNext ==
  ASSUME NEW b \in Builders, NEW n \in Int, NEW shown, NEW new, NEW frames \in SUBSET Frames,
         NEW f \in frames, f.epoch = b.epoch, f.seq = n + 1,
         \A s \in Sessions : /\ b.base[s].data \in Nat /\ shown[s].data \in Nat
                             /\ new[s].data \in Nat /\ shown[s].data <= new[s].data
                             /\ s \in DOMAIN f.sessions => new[s] = f.sessions[s],
         \A g \in frames \ {f} : g.epoch = f.epoch => f.seq < g.seq,
         Covered(b, n, shown, frames)
  PROVE  Covered(b, f.seq, new, frames \ {f})
<1>1. b.seq \in Nat /\ f.seq \in Nat
  BY FrameFields, Bounds DEF Builders
<1>2. CASE \E m \in (n + 1)..b.seq : \A g \in frames : ~ (g.epoch = b.epoch /\ g.seq = m)
  <2>1. PICK m \in (n + 1)..b.seq : \A g \in frames : ~ (g.epoch = b.epoch /\ g.seq = m)
    BY <1>2
  <2>2. m # f.seq
    BY <2>1
  <2>3. m \in (f.seq + 1)..b.seq
    BY <1>1, <2>1, <2>2
  <2> QED BY <2>1, <2>3 DEF Covered
<1>3. CASE \A s \in Sessions :
             \/ b.base[s].data <= shown[s].data
             \/ \E g \in frames : /\ g.epoch = b.epoch /\ n < g.seq /\ s \in DOMAIN g.sessions
                                  /\ b.base[s].data <= g.sessions[s].data
  <2> SUFFICES ASSUME NEW s \in Sessions
               PROVE  \/ b.base[s].data <= new[s].data
                      \/ \E g \in frames \ {f} :
                           /\ g.epoch = b.epoch /\ f.seq < g.seq /\ s \in DOMAIN g.sessions
                           /\ b.base[s].data <= g.sessions[s].data
    BY DEF Covered
  <2>1. CASE b.base[s].data <= shown[s].data
    BY <2>1
  <2>2. CASE \E g \in frames : /\ g.epoch = b.epoch /\ n < g.seq /\ s \in DOMAIN g.sessions
                               /\ b.base[s].data <= g.sessions[s].data
    <3>1. PICK g \in frames : /\ g.epoch = b.epoch /\ n < g.seq /\ s \in DOMAIN g.sessions
                              /\ b.base[s].data <= g.sessions[s].data
      BY <2>2
    <3>2. CASE g = f
      BY <3>1, <3>2
    <3>3. CASE g # f
      <4>1. f.seq < g.seq
        BY <3>1, <3>3
      <4> QED BY <3>1, <3>3, <4>1
    <3> QED BY <3>2, <3>3
  <2> QED BY <1>3, <2>1, <2>2
<1> QED BY <1>2, <1>3 DEF Covered

-----------------------------------------------------------------------------
(* One frame comes to the hub: of those to come, it was numbered first.       *)

IsNext(f, rest) == f \in rest /\ \A g \in rest \ {f} : Precedes(f, g)

LEMMA SnapshotsGoFirst ==
  ASSUME NEW h, NEW rest \in SUBSET Frames, InLine(h, rest), NEW f, IsNext(f, rest)
  PROVE  \A g \in rest \ {f} : g.type = "delta"
<1> SUFFICES ASSUME NEW g \in rest \ {f}, g.type = "snapshot" PROVE FALSE
  BY FrameFields
<1>1. f \in Frames /\ g \in Frames /\ Precedes(f, g) /\ Precedes(g, f)
  BY DEF InLine, IsNext
<1> QED BY <1>1, OneComesFirst

LEMMA EmptyBuffer ==
  ASSUME NEW h, h.buffer = <<>>
  PROVE  Kept(h) = {} /\ DOMAIN h.buffer = {} /\ Len(h.buffer) = 0
BY DEF Kept

(* Fewer frames to come are in line as well, and no later.                    *)
LEMMA FewerToCome ==
  ASSUME NEW b, NEW h, NEW rest, NEW less, less \subseteq rest,
         InLine(h, rest), NoneIsLate(b, h, rest)
  PROVE  InLine(h, less) /\ NoneIsLate(b, h, less)
<1>1. InLine(h, less)
  BY DEF InLine
<1>2. NoneIsLate(b, h, less)
  BY DEF NoneIsLate
<1> QED BY <1>1, <1>2

(* A hub that closes its socket drops what it kept.                           *)
LEMMA SilencedKeeps ==
  ASSUME NEW b, NEW h, NEW x \in Hubs, NEW rest, NEW less, less \subseteq rest,
         HubIsSane(h), NoneIsLate(b, h, rest), h.socket # "off",
         \A g \in less : g.type = "delta",
         x.socket = "closing", x.buffer = <<>>, x.resyncing = FALSE,
         x.seq = h.seq, x.epoch = h.epoch, x.told = h.told /\ x.view = h.view /\ x.snap = h.snap,
         x.fetch \in {h.fetch, NoFetch}
  PROVE  HubInv(b, x, less)
<1>1. Kept(x) = {} /\ DOMAIN x.buffer = {} /\ Len(x.buffer) = 0
  BY EmptyBuffer
<1>2. HubIsSane(x)
  BY <1>1, Bounds DEF HubIsSane
<1>3. InLine(x, less)
  BY <1>1 DEF InLine
<1>4. NoneIsLate(b, x, less)
  <2>1. /\ Behind(x.told, b.sessions)
        /\ x.epoch <= b.epoch /\ (x.epoch = b.epoch => x.seq <= b.seq)
    BY DEF NoneIsLate
  <2>2. \A f \in less \cup Kept(x) : SentBy(b, f) /\ NotOlder(x.epoch, x.seq, x.told, f)
    BY <1>1 DEF NoneIsLate
  <2>3. CASE x.fetch = NoFetch
    BY <2>1, <2>2, <2>3, NoFetchFields DEF NoneIsLate
  <2>4. CASE x.fetch = h.fetch
    BY <1>1, <2>1, <2>2, <2>4 DEF NoneIsLate
  <2> QED BY <2>3, <2>4
<1>5. NoneIsLost(b, x, less)
  BY DEF NoneIsLost
<1> QED BY <1>2, <1>3, <1>4, <1>5 DEF HubInv

LEMMA ClosingFields ==
  ASSUME NEW h \in Hubs
  PROVE  LET x == Closing(h)
         IN  /\ x \in Hubs /\ x.socket = "closing" /\ x.buffer = <<>> /\ x.resyncing = FALSE
             /\ x.seq = h.seq /\ x.epoch = h.epoch /\ x.told = h.told /\ x.view = h.view
             /\ x.snap = h.snap /\ x.fetch = h.fetch
<1>1. <<>> \in Seq(Frames)
  OBVIOUS
<1>2. Closing(h) = [h EXCEPT !.socket = "closing", !.resyncing = FALSE, !.buffer = <<>>,
                             !.overflowed = FALSE]
  BY DEF Closing
<1> QED BY <1>1, <1>2 DEF Hubs, SocketStates

(* A frame is passed over: the socket is closing, the buffer has overflowed,  *)
(* or what it brings is there already.                                       *)
LEMMA PassedOver ==
  ASSUME NEW b, NEW h, NEW rest \in SUBSET Frames, HubInv(b, h, rest),
         NEW f, IsNext(f, rest),
         \/ h.socket # "open"
         \/ h.resyncing /\ h.overflowed
         \/ ~ h.resyncing /\ Duplicate(h, f)
  PROVE  HubInv(b, h, rest \ {f})
<1>1. rest \ {f} \subseteq rest /\ f \in Frames
  BY DEF IsNext
<1>2. HubIsSane(h) /\ InLine(h, rest \ {f}) /\ NoneIsLate(b, h, rest \ {f})
  BY <1>1, FewerToCome DEF HubInv
<1>3. \A g \in rest \ {f} : g.type # "snapshot"
  BY SnapshotsGoFirst DEF HubInv
<1>4. NoneIsLost(b, h, rest \ {f})
  <2> SUFFICES ASSUME b.hub, h.socket = "open", h.resyncing => h.overflowed
               PROVE  /\ ~ h.resyncing /\ h.epoch = b.epoch =>
                           Covered(b, h.seq, h.told, rest \ {f})
                      /\ ~ (h.fetch.st = "answered" /\ ~ h.overflowed)
    BY <1>3 DEF NoneIsLost
  <2>1. h.fetch.st = "answered" => h.resyncing
    BY FetchFields, HubFields DEF HubInv, HubIsSane
  <2>2. ASSUME ~ h.resyncing, h.epoch = b.epoch
        PROVE  Covered(b, h.seq, h.told, rest \ {f})
    <3>1. Covered(b, h.seq, h.told, rest) /\ Duplicate(h, f)
      BY <2>2 DEF HubInv, NoneIsLost
    <3>2. h.seq \in Int
      BY HubFields DEF HubInv, HubIsSane
    <3>3. f.seq <= h.seq
      BY <3>1 DEF Duplicate
    <3> QED BY <1>1, <3>1, <3>2, <3>3, CoveredWithout
  <2> QED BY <2>1, <2>2
<1> QED BY <1>2, <1>4 DEF HubInv

(* A gap starts a resync.                                                    *)
LEMMA ResyncingKeeps ==
  ASSUME NEW b, NEW h, NEW rest \in SUBSET Frames, HubInv(b, h, rest),
         NEW f, IsNext(f, rest), h.socket = "open", ~ h.resyncing, f.type = "delta"
  PROVE  /\ HubInv(b, Resyncing(h, f), rest \ {f})
         /\ Resyncing(h, f).told = h.told /\ Resyncing(h, f).view = h.view
<1> DEFINE x == Resyncing(h, f)
<1>1. f \in Frames /\ h \in Hubs
  BY DEF IsNext, HubInv, HubIsSane
<1>2. <<f>> \in Seq(Frames) /\ Len(<<f>>) = 1 /\ DOMAIN <<f>> = {1} /\ <<f>>[1] = f
  BY <1>1
<1>3. /\ x \in Hubs /\ x.socket = h.socket /\ x.seq = h.seq /\ x.epoch = h.epoch
      /\ x.told = h.told /\ x.view = h.view /\ x.snap = h.snap
      /\ x.resyncing = TRUE /\ x.buffer = <<f>> /\ x.fetch = Asked
  BY <1>1, <1>2, NoFetchFields DEF Resyncing, Hubs
<1> HIDE DEF x
<1>4. Kept(x) = {f}
  BY <1>2, <1>3 DEF Kept
<1>5. \A g \in rest \ {f} : g.type = "delta" /\ Precedes(f, g)
  BY SnapshotsGoFirst DEF HubInv, IsNext
<1>6. HubIsSane(x)
  <2>1. Len(x.buffer) <= BufferCap
    BY <1>2, <1>3, Bounds
  <2> QED BY <1>3, <2>1 DEF HubInv, HubIsSane
<1>7. InLine(x, rest \ {f})
  BY <1>2, <1>3, <1>4, <1>5 DEF InLine
<1>8. NoneIsLate(b, x, rest \ {f})
  <2>1. (rest \ {f}) \cup Kept(x) = rest
    BY <1>4 DEF IsNext
  <2> QED BY <1>3, <1>5, <2>1, NoFetchFields DEF HubInv, NoneIsLate
<1>9. NoneIsLost(b, x, rest \ {f})
  BY <1>3, <1>5, NoFetchFields DEF NoneIsLost
<1> QED BY <1>3, <1>6, <1>7, <1>8, <1>9 DEF HubInv, x

(* A frame that arrives during a resync goes to the end of the buffer.        *)
LEMMA BufferedKeeps ==
  ASSUME NEW b, NEW h, NEW rest \in SUBSET Frames, HubInv(b, h, rest),
         NEW f, IsNext(f, rest), h.resyncing, NEW x \in Buffered(h, f), h.socket = "open"
  PROVE  HubInv(b, x, rest \ {f}) /\ x.told = h.told /\ x.view = h.view /\ x.snap = h.snap
<1>1. f \in Frames /\ f \in rest /\ h \in Hubs /\ h.buffer \in Seq(Frames)
  BY HubFields DEF IsNext, HubInv, HubIsSane
<1>2. \A g \in rest : g.type = "delta"
  BY <1>1, FrameFields DEF HubInv, InLine
<1>3. CASE h.overflowed
  <2>1. x = h
    BY <1>3 DEF Buffered
  <2> QED BY <1>3, <2>1, PassedOver
<1>4. CASE ~ h.overflowed /\ Len(h.buffer) < BufferCap /\ x = [h EXCEPT !.buffer = Append(@, f)]
  <2> DEFINE t == Append(h.buffer, f)
  <2>1. /\ t \in Seq(Frames) /\ Len(t) = Len(h.buffer) + 1 /\ Len(h.buffer) \in Nat
        /\ t[Len(h.buffer) + 1] = f /\ \A i \in 1..Len(h.buffer) : t[i] = h.buffer[i]
    BY <1>1
  <2>2. x = [h EXCEPT !.buffer = t]
    BY <1>4
  <2> HIDE DEF t
  <2>3. DOMAIN t = 1..Len(t) /\ DOMAIN h.buffer = 1..Len(h.buffer)
    BY <1>1, <2>1
  <2>4. /\ x \in Hubs /\ x.buffer = t /\ x.socket = h.socket /\ x.seq = h.seq
        /\ x.epoch = h.epoch /\ x.told = h.told /\ x.view = h.view /\ x.snap = h.snap
        /\ x.resyncing = h.resyncing
        /\ x.fetch = h.fetch /\ x.overflowed = h.overflowed
    BY <1>1, <2>1, <2>2 DEF Hubs
  <2>5. Kept(x) = Kept(h) \cup {f}
    BY <2>1, <2>3, <2>4 DEF Kept
  <2>6. HubIsSane(x)
    <3>1. Len(x.buffer) <= BufferCap
      BY <1>4, <2>1, <2>4, Bounds
    <3> QED BY <2>4, <3>1 DEF HubInv, HubIsSane
  <2>7. InLine(x, rest \ {f})
    <3>1. ASSUME NEW i \in DOMAIN t, NEW j \in DOMAIN t, i < j PROVE Precedes(t[i], t[j])
      <4>1. i \in DOMAIN h.buffer /\ t[i] = h.buffer[i] /\ t[i] \in Kept(h)
        BY <2>1, <2>3, <3>1 DEF Kept
      <4>2. CASE j \in DOMAIN h.buffer
        BY <2>1, <2>3, <3>1, <4>1, <4>2 DEF HubInv, InLine
      <4>3. CASE j \notin DOMAIN h.buffer
        <5>1. t[j] = f
          BY <2>1, <2>3, <4>3
        <5> QED BY <1>1, <4>1, <5>1 DEF HubInv, InLine
      <4> QED BY <4>2, <4>3
    <3>2. \A e \in Kept(x), g \in rest \ {f} : Precedes(e, g)
      BY <2>5 DEF HubInv, InLine, IsNext
    <3>3. \A e \in Kept(x) : e.type = "delta"
      BY <1>1, <1>2, <2>5 DEF HubInv, InLine
    <3> QED BY <1>2, <2>4, <3>1, <3>2, <3>3 DEF InLine
  <2>8. (rest \ {f}) \cup Kept(x) = rest \cup Kept(h)
    BY <1>1, <2>5
  <2>9. NoneIsLate(b, x, rest \ {f})
    BY <2>4, <2>8 DEF HubInv, NoneIsLate
  <2>10. NoneIsLost(b, x, rest \ {f})
    BY <1>2, <2>4, <2>8 DEF HubInv, NoneIsLost
  <2> QED BY <2>4, <2>6, <2>7, <2>9, <2>10 DEF HubInv
<1>5. CASE ~ h.overflowed /\ h.refetched /\ x = Closing(h)
  <2>1. HubInv(b, Closing(h), rest \ {f})
    <3> DEFINE y == Closing(h)
    <3>1. /\ y \in Hubs /\ y.socket = "closing" /\ y.buffer = <<>> /\ y.resyncing = FALSE
          /\ y.seq = h.seq /\ y.epoch = h.epoch /\ y.told = h.told /\ y.view = h.view
          /\ y.snap = h.snap /\ y.fetch = h.fetch
      BY <1>1, ClosingFields
    <3>2. rest \ {f} \subseteq rest
      OBVIOUS
    <3> HIDE DEF y
    <3> QED BY <1>2, <3>1, <3>2, SilencedKeeps DEF HubInv, y
  <2> QED BY <1>1, <1>5, <2>1, ClosingFields
<1>6. CASE ~ h.overflowed /\ ~ h.refetched /\ x = [h EXCEPT !.overflowed = TRUE, !.buffer = <<>>]
  <2>1. <<>> \in Seq(Frames)
    OBVIOUS
  <2>2. /\ x \in Hubs /\ x.buffer = <<>> /\ x.socket = h.socket /\ x.seq = h.seq
        /\ x.epoch = h.epoch /\ x.told = h.told /\ x.view = h.view /\ x.snap = h.snap
        /\ x.resyncing = h.resyncing
        /\ x.fetch = h.fetch /\ x.overflowed = TRUE
    BY <1>1, <1>6, <2>1 DEF Hubs
  <2>3. Kept(x) = {} /\ DOMAIN x.buffer = {} /\ Len(x.buffer) = 0
    BY <2>2, EmptyBuffer
  <2>4. HubIsSane(x)
    BY <2>2, <2>3, Bounds DEF HubInv, HubIsSane
  <2>5. InLine(x, rest \ {f})
    BY <1>2, <2>3 DEF InLine
  <2>6. NoneIsLate(b, x, rest \ {f})
    BY <2>2, <2>3 DEF HubInv, NoneIsLate
  <2>7. NoneIsLost(b, x, rest \ {f})
    BY <1>2, <2>2 DEF HubInv, NoneIsLost
  <2> QED BY <2>2, <2>4, <2>5, <2>6, <2>7 DEF HubInv
<1> QED BY <1>3, <1>4, <1>5, <1>6 DEF Buffered, Overflowed

(* The first snapshot, or the frame with the next number, is applied.         *)
LEMMA AppliedKeeps ==
  ASSUME NEW b \in Builders, OneProcess(b), NEW h, NEW rest \in SUBSET Frames,
         HubInv(b, h, rest), NEW f, IsNext(f, rest), h.socket = "open", ~ h.resyncing,
         f.type = "snapshot" \/ InOrder(h, f), NEW x \in Applied(h, f)
  PROVE  HubInv(b, x, rest \ {f}) /\ Onward(h, x)
<1> DEFINE less == rest \ {f}
<1>1. f \in Frames /\ f \in rest /\ h \in Hubs /\ h.told \in [Sessions -> Values]
  BY HubFields DEF IsNext, HubInv, HubIsSane
<1>2. AppliedFrom(h, f, x)
  BY <1>1, AppliedFields DEF HubInv, NoneIsLate, SentBy
<1>3. x \in Hubs /\ x.told \in [Sessions -> Values]
  BY <1>2, HubFields DEF AppliedFrom
<1>4. f.type # "snapshot" =>
        f.type = "delta" /\ h.epoch = f.epoch /\ f.seq = h.seq + 1 /\ h.seq # Null
  BY <1>1, FrameFields DEF InOrder, SameEpoch, HubInv, HubIsSane
<1>5. f.type = "snapshot" => DOMAIN f.sessions = Sessions
  BY <1>1 DEF HubInv, NoneIsLate, SentBy
<1>6. \A g \in less : g.type = "delta" /\ Precedes(f, g)
  BY SnapshotsGoFirst DEF HubInv, IsNext
<1>7. h.fetch = NoFetch /\ h.buffer = <<>> /\ Kept(x) = {} /\ Kept(h) = {}
  <2>1. h.fetch = NoFetch /\ h.buffer = <<>>
    BY DEF HubInv, HubIsSane
  <2> QED BY <1>2, <2>1, EmptyBuffer DEF AppliedFrom
<1>8. \A s \in Sessions : x.told[s].epoch = f.epoch
  <2>1. \A s \in DOMAIN f.sessions : f.sessions[s].epoch = f.epoch
    BY <1>1 DEF HubInv, NoneIsLate, SentBy
  <2>2. f.type # "snapshot" => \A s \in Sessions : h.told[s].epoch = f.epoch
    BY <1>1, <1>4, FrameFields DEF HubInv, HubIsSane
  <2> QED BY <1>2, <1>5, <2>1, <2>2 DEF AppliedFrom
<1>14. Behind(h.told, x.told)
  <2>1. CASE f.type = "snapshot"
    <3>1. \A s \in Sessions : x.told[s] = f.sessions[s]
      BY <1>2, <1>5, <2>1 DEF AppliedFrom
    <3> QED BY <1>1, <2>1, <3>1 DEF HubInv, NoneIsLate, Behind
  <2>2. CASE f.type # "snapshot"
    <3> SUFFICES ASSUME NEW s \in Sessions
                 PROVE  h.told[s].epoch = x.told[s].epoch /\ h.told[s].data <= x.told[s].data
      BY DEF Behind
    <3>1. h.told[s].epoch = x.told[s].epoch
      BY <1>1, <1>4, <1>8, <2>2, FrameFields DEF HubInv, HubIsSane
    <3>2. CASE s \in DOMAIN f.sessions
      <4>1. NotOlder(h.epoch, h.seq, h.told, f) /\ h.seq < f.seq
        BY <1>1, <1>4, <2>2, FrameFields, HubFields DEF HubInv, NoneIsLate
      <4> QED BY <1>2, <1>4, <2>2, <3>1, <3>2, <4>1 DEF AppliedFrom, NotOlder
    <3>3. CASE s \notin DOMAIN f.sessions
      BY <1>1, <1>2, <3>1, <3>3, ValueFields DEF AppliedFrom
    <3> QED BY <3>1, <3>2, <3>3
  <2> QED BY <2>1, <2>2
<1>16. Onward(h, x) /\ Behind(x.view, x.told)
  BY <1>1, <1>2, <1>14, ViewFollows DEF HubInv, HubIsSane
<1>17. HasRoom => x.snap /\ \A s \in Sessions \ Unsafe : x.view[s] = x.told[s]
  BY <1>1, <1>4, <1>5, AppliedStores DEF HubInv, HubIsSane
<1>9. HubIsSane(x)
  <2>1. x.seq # Null /\ x.epoch # Null
    BY <1>1, <1>2, FrameFields, Bounds DEF AppliedFrom
  <2> QED BY <1>2, <1>7, <1>8, <1>16, <1>17, <2>1 DEF AppliedFrom, HubInv, HubIsSane
<1>10. InLine(x, less)
  <2>1. DOMAIN x.buffer = {}
    BY <1>2, <1>7, EmptyBuffer DEF AppliedFrom
  <2> QED BY <1>6, <1>7, <2>1 DEF InLine
<1>11. Behind(x.told, b.sessions)
  <2> SUFFICES ASSUME NEW s \in Sessions
               PROVE  \/ x.told[s].epoch < b.sessions[s].epoch
                      \/ /\ x.told[s].epoch = b.sessions[s].epoch
                         /\ x.told[s].data <= b.sessions[s].data
    BY DEF Behind
  <2>1. CASE s \in DOMAIN f.sessions
    <3>1. /\ x.told[s] = f.sessions[s] /\ f.sessions[s].epoch = f.epoch
          /\ f.epoch <= b.epoch /\ b.sessions[s].epoch = b.epoch
          /\ f.epoch = b.epoch => f.sessions[s].data <= b.sessions[s].data
      BY <1>1, <1>2, <2>1 DEF AppliedFrom, OneProcess, HubInv, NoneIsLate, SentBy
    <3>2. f.epoch \in Nat /\ b.epoch \in Nat
      BY <1>1, FrameFields, Bounds DEF Builders, Epochs
    <3> QED BY <3>1, <3>2
  <2>2. CASE s \notin DOMAIN f.sessions
    BY <1>2, <2>2 DEF AppliedFrom, HubInv, NoneIsLate, Behind
  <2> QED BY <2>1, <2>2
<1>12. ASSUME NEW g \in less PROVE SentBy(b, g) /\ NotOlder(x.epoch, x.seq, x.told, g)
  <2>1. SentBy(b, g) /\ NotOlder(h.epoch, h.seq, h.told, g) /\ g \in Frames
    BY DEF HubInv, NoneIsLate
  <2> SUFFICES ASSUME g.epoch = f.epoch, f.seq < g.seq, NEW s \in DOMAIN g.sessions
               PROVE  x.told[s].data <= g.sessions[s].data
    BY <1>2, <2>1 DEF AppliedFrom, NotOlder
  <2>2. s \in Sessions
    BY <2>1, FrameFields
  <2>3. CASE s \in DOMAIN f.sessions
    <3>1. x.told[s] = f.sessions[s]
      BY <1>2, <2>2, <2>3 DEF AppliedFrom
    <3>2. f.epoch \in Nat /\ Precedes(f, g)
      BY <1>1, <1>6, FrameFields
    <3> QED BY <2>3, <3>1, <3>2 DEF Precedes
  <2>4. CASE s \notin DOMAIN f.sessions
    <3>1. x.told[s] = h.told[s] /\ h.epoch = f.epoch /\ f.seq = h.seq + 1
      BY <1>2, <1>4, <1>5, <2>2, <2>4 DEF AppliedFrom
    <3>2. h.seq < g.seq
      BY <1>1, <2>1, <3>1, FrameFields, HubFields
    <3> QED BY <2>1, <3>1, <3>2 DEF NotOlder
  <2> QED BY <2>3, <2>4
<1>13. NoneIsLate(b, x, less)
  <2>1. x.epoch <= b.epoch /\ (x.epoch = b.epoch => x.seq <= b.seq)
    BY <1>1, <1>2 DEF AppliedFrom, HubInv, NoneIsLate, SentBy
  <2> QED BY <1>2, <1>6, <1>7, <1>11, <1>12, <2>1, NoFetchFields DEF AppliedFrom, NoneIsLate
<1>15. NoneIsLost(b, x, less)
  <2> SUFFICES ASSUME b.hub, f.epoch = b.epoch PROVE Covered(b, x.seq, x.told, less)
    BY <1>2, <1>6, <1>7, NoFetchFields DEF AppliedFrom, NoneIsLost
  <2>1. CASE f.type = "snapshot"
    <3>1. Covered(b, f.seq, f.sessions, rest)
      BY <1>1, <2>1 DEF HubInv, NoneIsLost
    <3>2. f.seq \in Int /\ f.seq <= f.seq
      BY <1>1, FrameFields
    <3>3. Covered(b, f.seq, f.sessions, less)
      BY <1>1, <3>1, <3>2, CoveredWithout
    <3>4. x.seq = f.seq /\ \A s \in Sessions : x.told[s] = f.sessions[s]
      BY <1>2, <1>5, <2>1 DEF AppliedFrom
    <3> QED BY <3>3, <3>4 DEF Covered
  <2>2. CASE f.type # "snapshot"
    <3>1. Covered(b, h.seq, h.told, rest) /\ h.seq \in Int
      BY <1>1, <1>4, <2>2, HubFields DEF HubInv, NoneIsLost
    <3>2. ASSUME NEW s \in Sessions
          PROVE  /\ b.base[s].data \in Nat /\ h.told[s].data \in Nat
                 /\ x.told[s].data \in Nat /\ h.told[s].data <= x.told[s].data
                 /\ s \in DOMAIN f.sessions => x.told[s] = f.sessions[s]
      <4>1. b.base[s] \in Values /\ h.told[s] \in Values /\ x.told[s] \in Values
        BY <1>1, <1>3 DEF Builders
      <4>2. h.told[s].epoch = x.told[s].epoch /\ x.told[s].epoch \in Nat
        BY <1>1, <1>4, <1>8, <2>2, FrameFields DEF HubInv, HubIsSane
      <4> QED BY <1>2, <1>14, <4>1, <4>2, ValueFields DEF AppliedFrom, Behind
    <3>3. ASSUME NEW g \in less, g.epoch = f.epoch PROVE f.seq < g.seq
      BY <1>1, <1>6, <3>3, OneComesFirst
    <3>4. Covered(b, f.seq, x.told, less)
      BY <1>1, <1>4, <2>2, <3>1, <3>2, <3>3, CoveredNext
    <3> QED BY <1>2, <3>4 DEF AppliedFrom
  <2> QED BY <2>1, <2>2
<1> QED BY <1>9, <1>10, <1>13, <1>15, <1>16 DEF HubInv

(* Whatever the hub does with the next frame.                                *)
LEMMA TakenKeeps ==
  ASSUME NEW b \in Builders, OneProcess(b), NEW h, NEW rest \in SUBSET Frames,
         HubInv(b, h, rest), NEW f, IsNext(f, rest), NEW x \in Taken(h, f)
  PROVE  HubInv(b, x, rest \ {f}) /\ Onward(h, x)
<1>1. h \in Hubs /\ f \in Frames /\ Onward(h, h)
  BY OnwardItself DEF HubInv, HubIsSane, IsNext
<1>0. ASSUME x.told = h.told /\ x.view = h.view PROVE Onward(h, x)
  BY <1>0, <1>1 DEF Onward
<1>2. CASE h.socket # "open"
  <2>1. x = h
    BY <1>2 DEF Taken
  <2> QED BY <1>1, <1>2, <2>1, PassedOver
<1>3. CASE h.socket = "open" /\ h.resyncing
  <2>1. x \in Buffered(h, f)
    BY <1>3 DEF Taken
  <2> QED BY <1>0, <1>1, <1>3, <2>1, BufferedKeeps
<1>4. CASE h.socket = "open" /\ ~ h.resyncing
  <2>1. x \in Processed(h, f)
    BY <1>4 DEF Taken
  <2>2. CASE f.type = "snapshot" \/ InOrder(h, f)
    <3>1. x \in Applied(h, f)
      BY <2>1, <2>2 DEF Processed
    <3> QED BY <1>4, <2>2, <3>1, AppliedKeeps
  <2>3. CASE ~ (f.type = "snapshot" \/ InOrder(h, f)) /\ Duplicate(h, f)
    <3>1. x = h
      BY <2>1, <2>3 DEF Processed
    <3> QED BY <1>1, <1>4, <2>3, <3>1, PassedOver
  <2>4. CASE f.type # "snapshot" /\ x = Resyncing(h, f)
    <3>1. f.type = "delta"
      BY <1>1, <2>4, FrameFields
    <3> QED BY <1>0, <1>1, <1>4, <2>4, <3>1, ResyncingKeeps
  <2>5. CASE x = Closing(h)
    <3> DEFINE y == Closing(h)
    <3>1. /\ y \in Hubs /\ y.socket = "closing" /\ y.buffer = <<>> /\ y.resyncing = FALSE
          /\ y.seq = h.seq /\ y.epoch = h.epoch /\ y.told = h.told /\ y.view = h.view
          /\ y.snap = h.snap /\ y.fetch = h.fetch
      BY <1>1, ClosingFields
    <3>2. rest \ {f} \subseteq rest /\ \A g \in rest \ {f} : g.type = "delta"
      BY SnapshotsGoFirst DEF HubInv
    <3>3. x = y
      BY <2>5
    <3> HIDE DEF y
    <3> QED BY <1>0, <1>1, <1>4, <3>1, <3>2, <3>3, SilencedKeeps DEF HubInv
  <2> QED BY <2>1, <2>2, <2>3, <2>4, <2>5 DEF Processed
<1> QED BY <1>2, <1>3, <1>4

-----------------------------------------------------------------------------
(* The replay of the frames that were kept.                                  *)

(* Induction over the naturals: a set with 0 and all successors has them all. *)
LEMMA SetInduction ==
  ASSUME NEW S, 0 \in S, \A n \in Nat : n \in S => n+1 \in S
  PROVE  Nat \subseteq S
<1> SUFFICES ASSUME NEW k \in Nat, k \notin S PROVE FALSE
  OBVIOUS
<1> DEFINE R == OpToRel(<, Nat)
           T == {n \in Nat : n \notin S}
<1>1. T \subseteq Nat /\ T # {}
  OBVIOUS
<1>2. \E x \in T : \A y \in T : ~ (<<y, x>> \in R)
  <2> HIDE DEF R, T
  <2> QED BY <1>1, NatLessThanWellFounded, WFMin DEF R
<1>3. PICK x \in T : \A y \in T : ~ (<<y, x>> \in R)
  BY <1>2
<1>4. \A y \in T : ~ (y < x)
  BY <1>3 DEF OpToRel
<1>5. x \in Nat /\ x # 0 /\ x - 1 \in Nat /\ x - 1 < x
  OBVIOUS
<1>6. x - 1 \in S
  BY <1>4, <1>5
<1> QED BY <1>5, <1>6, x = (x - 1) + 1

(* After n frames the hub is in one of the states after[n].                   *)
LEMMA ReplayedSteps ==
  ASSUME NEW h, NEW frames \in Seq(Frames)
  PROVE  \E after : /\ after[0] = {h}
                    /\ \A n \in 1..Len(frames) :
                         after[n] = UNION {Taken(x, frames[n]) : x \in after[n - 1]}
                    /\ Replayed(h, frames) = after[Len(frames)]
<1> DEFINE Run(a, m) ==
             a = [n \in 0..m |-> IF n = 0 THEN {h}
                                 ELSE UNION {Taken(x, frames[n]) : x \in a[n - 1]}]
           after == CHOOSE a : Run(a, Len(frames))
           S == {m \in Nat : \E a : Run(a, m)}
<1>1. 0 \in S
  <2>1. Run([n \in 0..0 |-> {h}], 0)
    OBVIOUS
  <2> QED BY <2>1
<1>2. ASSUME NEW m \in Nat, m \in S PROVE m + 1 \in S
  <2>1. PICK a : Run(a, m)
    BY <1>2
  <2> DEFINE c == [n \in 0..(m + 1) |->
                     IF n = m + 1 THEN UNION {Taken(x, frames[n]) : x \in a[m]} ELSE a[n]]
  <2>2. ASSUME NEW n \in 0..(m + 1)
        PROVE  c[n] = IF n = 0 THEN {h} ELSE UNION {Taken(x, frames[n]) : x \in c[n - 1]}
    <3>1. CASE n = m + 1
      <4>1. c[n - 1] = a[m] /\ n # 0 /\ c[n] = UNION {Taken(x, frames[n]) : x \in a[m]}
        BY <3>1
      <4> HIDE DEF c
      <4> QED BY <4>1
    <3>2. CASE n # m + 1
      <4>1. n \in 0..m /\ c[n] = a[n] /\ (n # 0 => c[n - 1] = a[n - 1])
        BY <3>2
      <4>2. a[n] = IF n = 0 THEN {h} ELSE UNION {Taken(x, frames[n]) : x \in a[n - 1]}
        BY <2>1, <4>1
      <4> HIDE DEF c
      <4> QED BY <4>1, <4>2
    <3> QED BY <3>1, <3>2
  <2>3. Run(c, m + 1)
    BY <2>2
  <2>4. \E x : Run(x, m + 1)
    <3> HIDE DEF c, Run
    <3> QED BY <2>3
  <2> HIDE DEF Run
  <2> QED BY <2>4
<1>3. Nat \subseteq S
  <2> HIDE DEF S
  <2> QED BY <1>1, <1>2, SetInduction
<1>4. Run(after, Len(frames)) /\ Len(frames) \in Nat
  <2>1. Len(frames) \in Nat
    OBVIOUS
  <2>2. \E a : Run(a, Len(frames))
    BY <1>3, <2>1
  <2> HIDE DEF Run
  <2> QED BY <2>1, <2>2
<1>5. Replayed(h, frames) = after[Len(frames)]
  BY DEF Replayed
<1> HIDE DEF after
<1> QED BY <1>4, <1>5

LEMMA ReplayKeeps ==
  ASSUME NEW b \in Builders, OneProcess(b), NEW h, NEW frames \in Seq(Frames),
         NEW rest \in SUBSET Frames,
         HubInv(b, h, rest \cup {frames[i] : i \in DOMAIN frames}),
         \A i, j \in DOMAIN frames : i < j => Precedes(frames[i], frames[j]),
         \A i \in DOMAIN frames : \A g \in rest : Precedes(frames[i], g),
         NEW x \in Replayed(h, frames)
  PROVE  HubInv(b, x, rest) /\ Onward(h, x)
<1> DEFINE N == Len(frames)
           ToCome(n) == rest \cup {frames[i] : i \in (n + 1)..N}
<1>1. N \in Nat /\ DOMAIN frames = 1..N /\ \A i \in 1..N : frames[i] \in Frames
  OBVIOUS
<1>2. PICK after : /\ after[0] = {h}
                   /\ \A n \in 1..N :
                        after[n] = UNION {Taken(y, frames[n]) : y \in after[n - 1]}
                   /\ Replayed(h, frames) = after[N]
  BY ReplayedSteps
<1> HIDE DEF N
<1>3. h \in Hubs /\ Onward(h, h)
  BY OnwardItself DEF HubInv, HubIsSane
<1> DEFINE S == {n \in Nat : n <= N =>
                   \A y \in after[n] : HubInv(b, y, ToCome(n)) /\ Onward(h, y)}
<1>4. 0 \in S
  <2>1. ToCome(0) = rest \cup {frames[i] : i \in DOMAIN frames}
    BY <1>1
  <2> HIDE DEF ToCome
  <2> QED BY <1>2, <1>3, <2>1
<1>5. ASSUME NEW n \in Nat, n \in S PROVE n + 1 \in S
  <2> SUFFICES ASSUME n + 1 <= N, NEW y \in after[n + 1]
               PROVE  HubInv(b, y, ToCome(n + 1)) /\ Onward(h, y)
    OBVIOUS
  <2> DEFINE f == frames[n + 1]
  <2>1. n + 1 \in 1..N /\ n <= N /\ (n + 1) - 1 = n
    BY <1>1
  <2>2. PICK z \in after[n] : y \in Taken(z, f)
    BY <1>2, <2>1
  <2>3. HubInv(b, z, ToCome(n)) /\ Onward(h, z)
    BY <1>5, <2>1, <2>2
  <2>4. ToCome(n) \in SUBSET Frames /\ f \in ToCome(n) /\ f \in Frames
    BY <1>1, <2>1
  <2>5. ToCome(n) = ToCome(n + 1) \cup {f}
    <3>1. (n + 1)..N = {n + 1} \cup ((n + 1) + 1)..N
      BY <1>1, <2>1
    <3> QED BY <3>1
  <2>6. \A g \in ToCome(n + 1) : Precedes(f, g) /\ g # f
    <3>1. ASSUME NEW g \in ToCome(n + 1) PROVE Precedes(f, g)
      <4>1. CASE g \in rest
        BY <1>1, <2>1, <4>1
      <4>2. CASE g \notin rest
        <5>1. PICK i \in ((n + 1) + 1)..N : g = frames[i]
          BY <3>1, <4>2
        <5>2. i \in 1..N /\ n + 1 < i
          BY <1>1, <5>1
        <5> QED BY <1>1, <2>1, <5>1, <5>2
      <4> QED BY <4>1, <4>2
    <3>2. \A g \in ToCome(n + 1) : g \in Frames
      BY <2>4, <2>5
    <3> HIDE DEF ToCome, f
    <3> QED BY <2>4, <3>1, <3>2, OneComesFirst
  <2> HIDE DEF ToCome, f
  <2>7. IsNext(f, ToCome(n)) /\ ToCome(n) \ {f} = ToCome(n + 1)
    BY <2>4, <2>5, <2>6 DEF IsNext
  <2>8. HubInv(b, y, ToCome(n + 1)) /\ Onward(z, y)
    <3> DEFINE all == ToCome(n)
    <3>1. all \in SUBSET Frames /\ HubInv(b, z, all) /\ IsNext(f, all)
      BY <2>3, <2>4, <2>7
    <3> HIDE DEF all
    <3>2. HubInv(b, y, all \ {f}) /\ Onward(z, y)
      BY <2>2, <3>1, TakenKeeps
    <3> QED BY <2>7, <3>2 DEF all
  <2>9. z \in Hubs /\ y \in Hubs
    BY <2>3, <2>8 DEF HubInv, HubIsSane
  <2> QED BY <1>3, <2>3, <2>8, <2>9, OnwardTransitive
<1>6. Nat \subseteq S
  <2> HIDE DEF S
  <2> QED BY <1>4, <1>5, SetInduction
<1>7. HubInv(b, x, ToCome(N)) /\ Onward(h, x)
  BY <1>1, <1>2, <1>6
<1>8. ToCome(N) = rest
  BY <1>1
<1> QED BY <1>7, <1>8

(* The hub goes on after a fetch: the snapshot, then the frames that were kept. *)
LEMMA FetchTakenKeeps ==
  ASSUME NEW b \in Builders, OneProcess(b), NEW h, NEW rest \in SUBSET Frames,
         HubInv(b, h, rest), h.socket = "open", h.fetch.st = "answered",
         NEW x \in AfterFetch(h, h.fetch.snap)
  PROVE  HubInv(b, x, rest) /\ Onward(h, x)
<1>0. PICK y \in Applied(h, h.fetch.snap) :
        x \in IF h.overflowed THEN {Refetching(y), Closing([y EXCEPT !.fetch = NoFetch])}
              ELSE Replayed(ResyncEnds(y), h.buffer)
  BY DEF AfterFetch
<1> DEFINE snap == h.fetch.snap
           z == ResyncEnds(y)
           all == rest \cup Kept(h)
<1>1. /\ h \in Hubs /\ h.told \in [Sessions -> Values] /\ snap \in Frames
      /\ h.fetch # NoFetch /\ h.resyncing /\ h.buffer \in Seq(Frames)
      /\ rest \subseteq all /\ all \in SUBSET Frames
  BY HubFields, FetchFields DEF HubInv, HubIsSane
<1>2. /\ snap.type = "snapshot" /\ SentBy(b, snap) /\ Behind(h.told, snap.sessions)
      /\ \A f \in all : SentBy(b, f) /\ NotOlder(snap.epoch, snap.seq, snap.sessions, f)
  BY DEF HubInv, NoneIsLate
<1>3. /\ DOMAIN snap.sessions = Sessions /\ snap.sessions \in [Sessions -> Values]
      /\ \A s \in Sessions : snap.sessions[s].epoch = snap.epoch
      /\ snap.epoch \in Nat /\ snap.seq \in Nat /\ snap.epoch # Null /\ snap.seq # Null
  BY <1>1, <1>2, FrameFields, Bounds DEF SentBy
<1>4. \A f \in all : f.type = "delta"
  BY <1>1, FrameFields DEF HubInv, InLine
<1>5. AppliedFrom(h, snap, y)
  BY <1>0, <1>1, <1>3, AppliedFields
<1>6. y.told = snap.sessions
  <2> HIDE DEF snap
  <2>1. y.told \in [Sessions -> Values] /\ \A s \in Sessions : y.told[s] = snap.sessions[s]
    BY <1>3, <1>5, HubFields DEF AppliedFrom
  <2> QED BY <1>3, <2>1
<1>15. Onward(h, y) /\ Behind(y.view, y.told)
  BY <1>1, <1>2, <1>5, <1>6, ViewFollows DEF HubInv, HubIsSane
<1>16. HasRoom => y.snap /\ \A s \in Sessions \ Unsafe : y.view[s] = y.told[s]
  BY <1>0, <1>1, <1>2, <1>3, AppliedStores DEF HubInv, HubIsSane
<1>7. /\ z \in Hubs /\ z.socket = "open" /\ ~ z.resyncing /\ z.buffer = <<>>
      /\ z.fetch = NoFetch /\ z.seq = snap.seq /\ z.epoch = snap.epoch /\ z.told = snap.sessions
      /\ z.view = y.view /\ z.snap = y.snap
  <2>1. y \in Hubs /\ y.socket = "open" /\ y.seq = snap.seq /\ y.epoch = snap.epoch
    BY <1>5 DEF AppliedFrom
  <2>2. <<>> \in Seq(Frames)
    OBVIOUS
  <2> HIDE DEF snap
  <2> QED BY <1>6, <2>1, <2>2, NoFetchFields DEF ResyncEnds, Hubs
<1> HIDE DEF z, snap, all
<1>8. Kept(z) = {} /\ DOMAIN z.buffer = {} /\ Len(z.buffer) = 0
  BY <1>7, EmptyBuffer
<1>9. Behind(z.told, b.sessions) /\ z.epoch <= b.epoch /\ (z.epoch = b.epoch => z.seq <= b.seq)
  <2>1. /\ snap.epoch <= b.epoch
        /\ snap.epoch = b.epoch =>
             /\ snap.seq <= b.seq
             /\ \A s \in Sessions : snap.sessions[s].data <= b.sessions[s].data
    BY <1>2, <1>3 DEF SentBy
  <2>2. b.epoch \in Nat /\ \A s \in Sessions : b.sessions[s].epoch = b.epoch
    BY Bounds DEF Builders, Epochs, OneProcess
  <2> QED BY <1>3, <1>7, <2>1, <2>2 DEF Behind
<1>10. HubIsSane(z) /\ InLine(z, all) /\ NoneIsLate(b, z, all)
  <2>1. HubIsSane(z)
    BY <1>3, <1>6, <1>7, <1>8, <1>15, <1>16, Bounds DEF HubIsSane
  <2>2. InLine(z, all)
    BY <1>4, <1>8 DEF InLine
  <2>3. NoneIsLate(b, z, all)
    BY <1>2, <1>4, <1>7, <1>8, <1>9, NoFetchFields DEF NoneIsLate
  <2> QED BY <2>1, <2>2, <2>3
<1>11. /\ y \in Hubs /\ y.socket = "open" /\ y.resyncing = TRUE /\ y.seq = snap.seq
       /\ y.epoch = snap.epoch /\ y.refetched = h.refetched /\ y.overflowed = h.overflowed
  <2>1. h.resyncing = TRUE
    BY <1>1, HubFields
  <2> QED BY <1>5, <2>1 DEF AppliedFrom
<1>12. CASE h.overflowed /\ x = Refetching(y)
  <2>1. <<>> \in Seq(Frames)
    OBVIOUS
  <2>2. /\ x \in Hubs /\ x.socket = "open" /\ x.resyncing = TRUE /\ x.buffer = <<>>
        /\ x.fetch = Asked /\ x.seq = snap.seq /\ x.epoch = snap.epoch
        /\ x.told = snap.sessions /\ x.view = y.view /\ x.snap = y.snap
    BY <1>6, <1>11, <1>12, <2>1, NoFetchFields DEF Refetching, Hubs
  <2>3. Kept(x) = {} /\ DOMAIN x.buffer = {} /\ Len(x.buffer) = 0
    BY <2>2, EmptyBuffer
  <2>4. HubIsSane(x)
    BY <1>3, <1>6, <1>15, <1>16, <2>2, <2>3, Bounds DEF HubIsSane
  <2>5. InLine(x, rest)
    BY <1>1, <1>4, <2>3 DEF InLine
  <2>6. NoneIsLate(b, x, rest)
    BY <1>1, <1>2, <1>4, <1>7, <1>9, <2>2, <2>3, NoFetchFields DEF NoneIsLate
  <2>7. NoneIsLost(b, x, rest)
    BY <1>1, <1>4, <2>2, NoFetchFields DEF NoneIsLost
  <2> QED BY <1>6, <1>15, <2>2, <2>4, <2>5, <2>6, <2>7 DEF HubInv, Onward
<1>13. CASE x = Closing([y EXCEPT !.fetch = NoFetch])
  <2> DEFINE w == [y EXCEPT !.fetch = NoFetch]
  <2>1. /\ w \in Hubs /\ w.seq = snap.seq /\ w.epoch = snap.epoch
        /\ w.told = snap.sessions /\ w.view = y.view /\ w.snap = y.snap /\ w.fetch = NoFetch
    BY <1>6, <1>11, NoFetchFields DEF Hubs
  <2> HIDE DEF w
  <2>2. x = Closing(w)
    BY <1>13 DEF w
  <2>3. /\ x \in Hubs /\ x.socket = "closing" /\ x.buffer = <<>> /\ x.resyncing = FALSE
        /\ x.seq = snap.seq /\ x.epoch = snap.epoch /\ x.told = snap.sessions
        /\ x.view = y.view /\ x.snap = y.snap /\ x.fetch = NoFetch
    BY <2>1, <2>2, ClosingFields
  <2>4. HubInv(b, x, rest)
    BY <1>1, <1>4, <1>7, <1>10, <2>3, SilencedKeeps
  <2> QED BY <1>6, <1>15, <2>3, <2>4 DEF Onward
<1>14. CASE ~ h.overflowed /\ x \in Replayed(z, h.buffer)
  <2>1. NoneIsLost(b, z, all)
    <3>1. b.hub /\ snap.epoch = b.epoch => Covered(b, snap.seq, snap.sessions, all)
      BY <1>14 DEF HubInv, NoneIsLost, snap, all
    <3> QED BY <1>4, <1>7, <3>1, NoFetchFields DEF NoneIsLost
  <2>2. all = rest \cup {h.buffer[i] : i \in DOMAIN h.buffer}
    BY DEF all, Kept
  <2>3. /\ \A i, j \in DOMAIN h.buffer : i < j => Precedes(h.buffer[i], h.buffer[j])
        /\ \A i \in DOMAIN h.buffer : \A g \in rest : Precedes(h.buffer[i], g)
    BY DEF HubInv, InLine, Kept
  <2>4. HubInv(b, z, rest \cup {h.buffer[i] : i \in DOMAIN h.buffer})
    BY <1>10, <2>1, <2>2 DEF HubInv
  <2>5. HubInv(b, x, rest) /\ Onward(z, x)
    <3> DEFINE frames == h.buffer
    <3>1. /\ frames \in Seq(Frames) /\ x \in Replayed(z, frames)
          /\ HubInv(b, z, rest \cup {frames[i] : i \in DOMAIN frames})
          /\ \A i, j \in DOMAIN frames : i < j => Precedes(frames[i], frames[j])
          /\ \A i \in DOMAIN frames : \A g \in rest : Precedes(frames[i], g)
      BY <1>1, <1>14, <2>3, <2>4
    <3> HIDE DEF frames
    <3> QED BY <3>1, ReplayKeeps
  <2>6. x \in Hubs /\ Onward(h, z)
    BY <1>6, <1>7, <1>15, <2>5 DEF HubInv, HubIsSane, Onward
  <2> QED BY <1>1, <1>7, <2>5, <2>6, OnwardTransitive
<1> QED BY <1>0, <1>12, <1>13, <1>14 DEF z

-----------------------------------------------------------------------------
(* The wire.                                                                 *)

LEMMA FirstOnWire ==
  ASSUME NEW w \in Seq(Frames), w # <<>>, InARow(w)
  PROVE  /\ Tail(w) \in Seq(Frames) /\ InARow(Tail(w))
         /\ IsNext(Head(w), FramesOf(w))
         /\ FramesOf(Tail(w)) = FramesOf(w) \ {Head(w)}
<1> DEFINE t == Tail(w)
<1>1. /\ Len(w) \in Nat \ {0} /\ DOMAIN w = 1..Len(w) /\ Head(w) = w[1] /\ Head(w) \in Frames
      /\ t \in Seq(Frames) /\ DOMAIN t = 1..(Len(w) - 1)
      /\ \A i \in 1..(Len(w) - 1) : t[i] = w[i + 1]
  OBVIOUS
<1> HIDE DEF t
<1>2. ASSUME NEW i \in DOMAIN t, NEW j \in DOMAIN t, i < j PROVE Precedes(t[i], t[j])
  <2>1. /\ i + 1 \in DOMAIN w /\ j + 1 \in DOMAIN w /\ i + 1 < j + 1
        /\ t[i] = w[i + 1] /\ t[j] = w[j + 1]
    BY <1>1, <1>2
  <2> QED BY <2>1 DEF InARow
<1>3. FramesOf(w) = {Head(w)} \cup FramesOf(t)
  <2>1. \A i \in DOMAIN w : i = 1 \/ (i - 1 \in DOMAIN t /\ t[i - 1] = w[i])
    BY <1>1
  <2>2. \A i \in DOMAIN t : i + 1 \in DOMAIN w /\ t[i] = w[i + 1]
    BY <1>1
  <2>3. 1 \in DOMAIN w
    BY <1>1
  <2> QED BY <1>1, <2>1, <2>2, <2>3 DEF FramesOf
<1>4. \A g \in FramesOf(t) : Precedes(Head(w), g) /\ g \in Frames
  <2>1. \A i \in DOMAIN t : 1 \in DOMAIN w /\ i + 1 \in DOMAIN w /\ 1 < i + 1 /\ t[i] = w[i + 1]
    BY <1>1
  <2> QED BY <1>1, <2>1 DEF FramesOf, InARow
<1>5. Head(w) \notin FramesOf(t)
  BY <1>1, <1>4, OneComesFirst
<1> QED BY <1>1, <1>2, <1>3, <1>4, <1>5 DEF IsNext, InARow, t

LEMMA LastOnWire ==
  ASSUME NEW w \in Seq(Frames), InARow(w), NEW f \in Frames,
         \A g \in FramesOf(w) : Precedes(g, f)
  PROVE  /\ Append(w, f) \in Seq(Frames) /\ InARow(Append(w, f))
         /\ FramesOf(Append(w, f)) = FramesOf(w) \cup {f}
<1> DEFINE t == Append(w, f)
<1>1. /\ Len(w) \in Nat /\ DOMAIN w = 1..Len(w)
      /\ t \in Seq(Frames) /\ DOMAIN t = 1..(Len(w) + 1)
      /\ t[Len(w) + 1] = f /\ \A i \in 1..Len(w) : t[i] = w[i]
  OBVIOUS
<1> HIDE DEF t
<1>2. ASSUME NEW i \in DOMAIN t, NEW j \in DOMAIN t, i < j PROVE Precedes(t[i], t[j])
  <2>1. i \in DOMAIN w /\ t[i] = w[i] /\ (j \in DOMAIN w \/ j = Len(w) + 1)
    BY <1>1, <1>2
  <2> QED BY <1>1, <1>2, <2>1 DEF InARow, FramesOf
<1>3. FramesOf(t) = FramesOf(w) \cup {f}
  BY <1>1 DEF FramesOf
<1> QED BY <1>1, <1>2, <1>3 DEF InARow, t

-----------------------------------------------------------------------------
(* The builder goes on: what it sent before is not late.                     *)

Ahead(b, c) ==
  \/ b.epoch < c.epoch
  \/ /\ b.epoch = c.epoch /\ b.seq <= c.seq
     /\ \A s \in Sessions : b.sessions[s].data <= c.sessions[s].data

LEMMA BuilderFields ==
  ASSUME NEW b \in Builders
  PROVE  /\ b.epoch \in Epochs /\ b.epoch \in Nat /\ b.epoch # Null
         /\ b.seq \in 0..MaxSeq /\ b.seq \in Nat /\ b.hub \in BOOLEAN
         /\ b.sessions \in [Sessions -> Values] /\ b.base \in [Sessions -> Values]
         /\ \A s \in Sessions : /\ b.sessions[s] \in Values /\ b.base[s] \in Values
                                /\ b.sessions[s].data \in Nat /\ b.base[s].data \in Nat
<1>1. /\ b.epoch \in Epochs /\ b.seq \in 0..MaxSeq /\ b.hub \in BOOLEAN
      /\ b.sessions \in [Sessions -> Values] /\ b.base \in [Sessions -> Values]
  BY DEF Builders
<1>2. \A s \in Sessions : b.sessions[s] \in Values /\ b.base[s] \in Values
  BY <1>1
<1> QED BY <1>1, <1>2, ValueFields, Bounds DEF Epochs

LEMMA StillNotLate ==
  ASSUME NEW b \in Builders, OneProcess(b), NEW c \in Builders, OneProcess(c), Ahead(b, c),
         NEW h \in Hubs, NEW rest \in SUBSET Frames, NoneIsLate(b, h, rest)
  PROVE  NoneIsLate(c, h, rest)
<1>1. b.epoch \in Nat /\ c.epoch \in Nat /\ b.seq \in Nat /\ c.seq \in Nat
  BY BuilderFields
<1>2. h.epoch \in Int /\ h.seq \in Int /\ Kept(h) \in SUBSET Frames
      /\ (h.fetch.st = "answered" => h.fetch.snap \in Frames)
  BY HubFields, FetchFields
<1>3. Behind(h.told, c.sessions)
  <2>1. Behind(b.sessions, c.sessions)
    BY DEF Ahead, Behind, OneProcess
  <2> QED BY <2>1, BehindTransitive, HubFields, BuilderFields DEF NoneIsLate
<1>4. h.epoch <= c.epoch /\ (h.epoch = c.epoch => h.seq <= c.seq)
  BY <1>1, <1>2 DEF Ahead, NoneIsLate
<1>5. ASSUME NEW f \in Frames, SentBy(b, f) PROVE SentBy(c, f)
  <2>1. f.epoch \in Nat /\ f.seq \in Nat
    BY FrameFields
  <2>2. f.epoch <= c.epoch
    BY <1>1, <1>5, <2>1 DEF Ahead, SentBy
  <2>3. ASSUME f.epoch = c.epoch
        PROVE  /\ f.seq <= c.seq
               /\ \A s \in DOMAIN f.sessions : f.sessions[s].data <= c.sessions[s].data
    <3>1. /\ f.epoch = b.epoch /\ b.epoch = c.epoch /\ b.seq <= c.seq
          /\ \A s \in Sessions : b.sessions[s].data <= c.sessions[s].data
      BY <1>1, <1>5, <2>1, <2>3 DEF Ahead, SentBy
    <3>2. f.seq <= c.seq
      BY <1>1, <1>5, <2>1, <3>1 DEF SentBy
    <3>3. ASSUME NEW s \in DOMAIN f.sessions PROVE f.sessions[s].data <= c.sessions[s].data
      <4>1. s \in Sessions /\ f.sessions[s].data \in Nat
        BY FrameFields, ValueFields
      <4> QED BY <1>5, <3>1, <4>1, BuilderFields DEF SentBy
    <3> QED BY <3>2, <3>3
  <2> QED BY <1>5, <2>2, <2>3 DEF SentBy
<1> QED BY <1>2, <1>3, <1>4, <1>5 DEF NoneIsLate

(* A builder without the hub as a client owes it nothing.                     *)
LEMMA GoesOnAlone ==
  ASSUME NEW b \in Builders, OneProcess(b), NEW c \in Builders, OneProcess(c), Ahead(b, c),
         NEW h, NEW rest \in SUBSET Frames, HubInv(b, h, rest), ~ c.hub
  PROVE  HubInv(c, h, rest)
<1>1. h \in Hubs
  BY DEF HubInv, HubIsSane
<1>2. NoneIsLate(c, h, rest)
  BY <1>1, StillNotLate DEF HubInv
<1> QED BY <1>2 DEF HubInv, NoneIsLost

(* Nothing is broadcast.                                                     *)
LEMMA GoesOnInSilence ==
  ASSUME NEW b \in Builders, OneProcess(b), NEW c \in Builders, OneProcess(c), Ahead(b, c),
         NEW h, NEW rest \in SUBSET Frames, HubInv(b, h, rest),
         c.epoch = b.epoch, c.seq = b.seq, c.base = b.base, c.hub = b.hub
  PROVE  HubInv(c, h, rest)
<1>1. h \in Hubs
  BY DEF HubInv, HubIsSane
<1>2. NoneIsLate(c, h, rest)
  BY <1>1, StillNotLate DEF HubInv
<1>3. ASSUME NEW n, NEW shown, NEW frames, Covered(b, n, shown, frames)
      PROVE  Covered(c, n, shown, frames)
  BY <1>3 DEF Covered
<1>4. NoneIsLost(c, h, rest)
  BY <1>3 DEF HubInv, NoneIsLost
<1> QED BY <1>2, <1>4 DEF HubInv

(* A frame is numbered and not sent: its number is missing.                   *)
LEMMA NumberMissing ==
  ASSUME NEW b \in Builders, OneProcess(b), NEW c \in Builders, OneProcess(c), Ahead(b, c),
         NEW h, NEW rest \in SUBSET Frames, HubInv(b, h, rest),
         c.epoch = b.epoch, c.seq = b.seq + 1
  PROVE  HubInv(c, h, rest)
<1>1. h \in Hubs /\ Kept(h) \in SUBSET Frames /\ h.seq \in Int
  BY HubFields DEF HubInv, HubIsSane
<1>2. NoneIsLate(c, h, rest)
  BY <1>1, StillNotLate DEF HubInv
<1>3. ASSUME NEW n \in Int, n <= b.seq, NEW shown, NEW frames \in SUBSET (rest \cup Kept(h))
      PROVE  Covered(c, n, shown, frames)
  <2>1. b.seq + 1 \in (n + 1)..c.seq
    BY <1>3, BuilderFields
  <2>2. ASSUME NEW f \in frames, f.epoch = c.epoch PROVE f.seq # b.seq + 1
    <3>1. SentBy(b, f) /\ f \in Frames
      BY <1>1 DEF HubInv, NoneIsLate
    <3>2. f.seq <= b.seq
      BY <2>2, <3>1 DEF SentBy
    <3> QED BY <3>1, <3>2, FrameFields, BuilderFields
  <2> QED BY <2>1, <2>2 DEF Covered
<1>4. h.epoch = c.epoch => h.seq <= b.seq
  BY DEF HubInv, NoneIsLate
<1>5. h.fetch.st = "answered" /\ h.fetch.snap.epoch = c.epoch =>
        h.fetch.snap.seq \in Int /\ h.fetch.snap.seq <= b.seq
  <2> SUFFICES ASSUME h.fetch.st = "answered", h.fetch.snap.epoch = c.epoch
               PROVE  h.fetch.snap.seq \in Int /\ h.fetch.snap.seq <= b.seq
    OBVIOUS
  <2>1. h.fetch.snap \in Frames /\ SentBy(b, h.fetch.snap)
    BY <1>1, HubFields, FetchFields DEF HubInv, NoneIsLate
  <2> QED BY <2>1, FrameFields DEF SentBy
<1>6. \A f \in rest : f.epoch = c.epoch => f.seq \in Int /\ f.seq <= b.seq
  BY FrameFields DEF HubInv, NoneIsLate, SentBy
<1>7. NoneIsLost(c, h, rest)
  BY <1>1, <1>3, <1>4, <1>5, <1>6 DEF NoneIsLost
<1> QED BY <1>2, <1>7 DEF HubInv

(* A frame that is sent comes after all others, and covers what it brings.    *)
LEMMA SentKeeps ==
  ASSUME NEW b \in Builders, OneProcess(b), NEW c \in Builders, OneProcess(c),
         c.epoch = b.epoch, c.seq = b.seq + 1, c.sessions = b.sessions, b.hub,
         NEW h, NEW rest \in SUBSET Frames, HubInv(b, h, rest),
         NEW f \in Frames, f.type = "delta", f.epoch = b.epoch, f.seq = b.seq + 1,
         \A s \in DOMAIN f.sessions : f.sessions[s] = b.sessions[s],
         \A s \in Sessions : s \in DOMAIN f.sessions \/ c.base[s] = b.base[s]
  PROVE  HubInv(c, h, rest \cup {f}) /\ \A g \in rest : Precedes(g, f)
<1>1. /\ h \in Hubs /\ Kept(h) \in SUBSET Frames /\ h.seq \in Int /\ h.epoch \in Int
      /\ h.told \in [Sessions -> Values]
  BY HubFields DEF HubInv, HubIsSane
<1>2. /\ b.epoch \in Nat /\ b.epoch # Null /\ b.seq \in Nat /\ DOMAIN f.sessions \subseteq Sessions
      /\ \A s \in Sessions : b.sessions[s].data \in Nat
  BY BuilderFields, FrameFields
<1>3. Ahead(b, c)
  BY <1>2 DEF Ahead
<1>4. NoneIsLate(c, h, rest)
  BY <1>1, <1>3, StillNotLate DEF HubInv
<1>5. ASSUME NEW g \in Frames, SentBy(b, g) PROVE Precedes(g, f)
  <2>1. g.epoch \in Nat /\ g.seq \in Nat
    BY FrameFields
  <2>2. CASE g.epoch = b.epoch
    <3>1. g.seq <= b.seq /\ \A s \in DOMAIN g.sessions : g.sessions[s].data <= b.sessions[s].data
      BY <1>5, <2>2 DEF SentBy
    <3>2. g.seq < f.seq
      BY <1>2, <2>1, <3>1
    <3> QED BY <2>2, <3>1, <3>2 DEF Precedes
  <2>3. CASE g.epoch # b.epoch
    BY <1>2, <1>5, <2>1, <2>3 DEF SentBy, Precedes
  <2> QED BY <2>2, <2>3
<1>6. \A g \in rest \cup Kept(h) : g \in Frames /\ Precedes(g, f)
  BY <1>1, <1>5 DEF HubInv, NoneIsLate
<1>7. InLine(h, rest \cup {f})
  BY <1>6 DEF HubInv, InLine
<1>8. SentBy(c, f)
  <2>1. ASSUME NEW s \in DOMAIN f.sessions
        PROVE  f.sessions[s].epoch = f.epoch /\ f.sessions[s].data <= c.sessions[s].data
    <3>1. s \in Sessions /\ f.sessions[s] = b.sessions[s]
      BY <1>2
    <3>2. b.sessions[s].epoch = b.epoch /\ b.sessions[s].data <= c.sessions[s].data
      BY <1>2, <3>1 DEF OneProcess
    <3> QED BY <3>1, <3>2
  <2>2. f.type # "snapshot" /\ f.epoch = c.epoch /\ f.epoch <= c.epoch /\ f.seq <= c.seq
    BY <1>2
  <2> QED BY <2>1, <2>2 DEF SentBy
<1>9. NotOlder(h.epoch, h.seq, h.told, f)
  <2> SUFFICES ASSUME h.epoch = f.epoch, NEW s \in DOMAIN f.sessions
               PROVE  h.told[s].data <= f.sessions[s].data
    BY DEF NotOlder
  <2>1. h.told[s].epoch = b.epoch /\ s \in Sessions
    BY <1>2 DEF HubInv, HubIsSane
  <2>2. b.sessions[s].epoch = b.epoch
    BY <2>1 DEF OneProcess
  <2> QED BY <1>2, <2>1, <2>2 DEF HubInv, NoneIsLate, Behind
<1>10. ASSUME NEW snap, SentBy(b, snap), snap.type = "snapshot"
       PROVE  NotOlder(snap.epoch, snap.seq, snap.sessions, f)
  BY <1>2, <1>10 DEF NotOlder, SentBy
<1>11. (rest \cup {f}) \cup Kept(h) = (rest \cup Kept(h)) \cup {f}
  OBVIOUS
<1>12. NoneIsLate(c, h, rest \cup {f})
  <2>1. \A g \in (rest \cup {f}) \cup Kept(h) : SentBy(c, g) /\ NotOlder(h.epoch, h.seq, h.told, g)
    BY <1>4, <1>8, <1>9 DEF NoneIsLate
  <2>2. \A g \in rest \cup {f} : g.type = "snapshot" => Behind(h.told, g.sessions)
    BY <1>4 DEF NoneIsLate
  <2>3. h.fetch.st = "answered" =>
          NotOlder(h.fetch.snap.epoch, h.fetch.snap.seq, h.fetch.snap.sessions, f)
    BY <1>10 DEF HubInv, NoneIsLate
  <2> QED BY <1>4, <2>1, <2>2, <2>3 DEF NoneIsLate
<1>13. ASSUME NEW n \in Int, n <= b.seq, NEW shown, NEW frames, Covered(b, n, shown, frames)
       PROVE  Covered(c, n, shown, frames \cup {f})
  <2>1. CASE \E m \in (n + 1)..b.seq : \A g \in frames : ~ (g.epoch = b.epoch /\ g.seq = m)
    <3>1. PICK m \in (n + 1)..b.seq : \A g \in frames : ~ (g.epoch = b.epoch /\ g.seq = m)
      BY <2>1
    <3>2. m \in (n + 1)..c.seq /\ m # f.seq
      BY <1>2, <3>1
    <3> QED BY <3>1, <3>2 DEF Covered
  <2>2. CASE \A s \in Sessions :
               \/ b.base[s].data <= shown[s].data
               \/ \E g \in frames : /\ g.epoch = b.epoch /\ n < g.seq /\ s \in DOMAIN g.sessions
                                    /\ b.base[s].data <= g.sessions[s].data
    <3> SUFFICES ASSUME NEW s \in Sessions
                 PROVE  \/ c.base[s].data <= shown[s].data
                        \/ \E g \in frames \cup {f} :
                             /\ g.epoch = c.epoch /\ n < g.seq /\ s \in DOMAIN g.sessions
                             /\ c.base[s].data <= g.sessions[s].data
      BY DEF Covered
    <3>1. CASE s \in DOMAIN f.sessions
      <4>1. c.base[s].data <= f.sessions[s].data
        BY <3>1 DEF OneProcess
      <4>2. n < f.seq
        BY <1>2, <1>13
      <4> QED BY <3>1, <4>1, <4>2
    <3>2. CASE c.base[s] = b.base[s]
      BY <2>2, <3>2
    <3> QED BY <3>1, <3>2
  <2> QED BY <1>13, <2>1, <2>2 DEF Covered
<1>14. NoneIsLost(c, h, rest \cup {f})
  <2>1. ASSUME h.socket = "open", ~ h.resyncing, h.epoch = c.epoch
        PROVE  Covered(c, h.seq, h.told, rest \cup {f})
    BY <1>1, <1>13, <2>1 DEF HubInv, NoneIsLate, NoneIsLost
  <2>2. ASSUME h.socket = "open", h.fetch.st = "answered", ~ h.overflowed,
               h.fetch.snap.epoch = c.epoch
        PROVE  Covered(c, h.fetch.snap.seq, h.fetch.snap.sessions, (rest \cup {f}) \cup Kept(h))
    <3> DEFINE snap == h.fetch.snap
    <3>1. snap \in Frames /\ SentBy(b, snap)
      BY <1>1, <2>2, HubFields, FetchFields DEF HubInv, NoneIsLate
    <3>2. snap.seq \in Int /\ snap.seq <= b.seq
      BY <2>2, <3>1, FrameFields DEF SentBy
    <3>3. Covered(b, snap.seq, snap.sessions, rest \cup Kept(h))
      BY <2>2 DEF HubInv, NoneIsLost
    <3> HIDE DEF snap
    <3>4. Covered(c, snap.seq, snap.sessions, (rest \cup Kept(h)) \cup {f})
      BY <1>13, <3>2, <3>3
    <3> QED BY <1>11, <3>4 DEF snap
  <2>3. ASSUME NEW g \in rest, g.type = "snapshot", g.epoch = c.epoch
        PROVE  Covered(c, g.seq, g.sessions, rest \cup {f})
    <3>1. g.seq \in Int /\ g.seq <= b.seq
      BY <2>3, FrameFields DEF HubInv, NoneIsLate, SentBy
    <3> QED BY <1>13, <2>3, <3>1 DEF HubInv, NoneIsLost
  <2> QED BY <2>1, <2>2, <2>3 DEF NoneIsLost
<1> QED BY <1>6, <1>7, <1>12, <1>14 DEF HubInv

-----------------------------------------------------------------------------
(* The hub connects, asks for a snapshot and gives up.                       *)

LEMMA ShownByItself ==
  ASSUME NEW b \in Builders, OneProcess(b), NEW frames
  PROVE  Covered(b, b.seq, b.sessions, frames)
BY DEF Covered, OneProcess

(* The snapshot of builder b. *)
SnapshotOf(b) == [type |-> "snapshot", epoch |-> b.epoch, seq |-> b.seq, sessions |-> b.sessions]

LEMMA SnapshotFields ==
  ASSUME NEW b \in Builders, OneProcess(b)
  PROVE  /\ SnapshotOf(b) \in Frames /\ SentBy(b, SnapshotOf(b))
         /\ SnapshotOf(b).type = "snapshot" /\ SnapshotOf(b).epoch = b.epoch
         /\ SnapshotOf(b).seq = b.seq /\ SnapshotOf(b).sessions = b.sessions
<1> DEFINE f == SnapshotOf(b)
<1>1. f.type = "snapshot" /\ f.epoch = b.epoch /\ f.seq = b.seq /\ f.sessions = b.sessions
  BY DEF SnapshotOf
<1>2. f \in Frames
  BY BuilderFields DEF SnapshotOf, Frames
<1>3. DOMAIN b.sessions = Sessions
  BY BuilderFields
<1>4. \A s \in Sessions : b.sessions[s].data <= b.sessions[s].data
  BY BuilderFields
<1>5. b.epoch <= b.epoch /\ b.seq <= b.seq
  BY BuilderFields
<1> HIDE DEF f
<1>6. SentBy(b, f)
  BY <1>1, <1>3, <1>4, <1>5 DEF SentBy, OneProcess
<1> QED BY <1>1, <1>2, <1>6 DEF f

LEMMA ConnectKeeps ==
  ASSUME NEW b \in Builders, OneProcess(b), NEW h, NEW rest, HubInv(b, h, rest),
         h.socket = "off",
         NEW c \in Builders, OneProcess(c), c.epoch = b.epoch, c.seq = b.seq,
         c.sessions = b.sessions,
         NEW x \in Hubs, x.socket = "open", x.seq = Null, x.epoch = Null, ~ x.resyncing,
         x.buffer = <<>>, x.fetch = h.fetch, x.told = h.told /\ x.view = h.view /\ x.snap = h.snap
  PROVE  HubInv(c, x, {SnapshotOf(c)})
<1> DEFINE f == SnapshotOf(c)
<1>1. /\ f \in Frames /\ SentBy(c, f) /\ f.type = "snapshot" /\ f.epoch = c.epoch
      /\ f.seq = c.seq /\ f.sessions = c.sessions
  BY SnapshotFields
<1> HIDE DEF f
<1>2. Kept(x) = {} /\ DOMAIN x.buffer = {} /\ Len(x.buffer) = 0
  BY EmptyBuffer
<1>3. x.fetch = NoFetch
  BY DEF HubInv, HubIsSane
<1>4. HubIsSane(x)
  BY <1>2, <1>3, Bounds DEF HubInv, HubIsSane
<1>5. InLine(x, {f})
  BY <1>2, <1>3 DEF InLine
<1>6. Behind(x.told, c.sessions)
  BY DEF HubInv, NoneIsLate
<1>7. NoneIsLate(c, x, {f})
  <2>1. x.epoch <= c.epoch /\ x.epoch # c.epoch
    BY BuilderFields, Bounds
  <2> QED BY <1>1, <1>2, <1>3, <1>6, <2>1, NoFetchFields DEF NoneIsLate, NotOlder
<1>8. NoneIsLost(c, x, {f})
  <2>1. Covered(c, c.seq, c.sessions, {f}) /\ x.epoch # c.epoch
    BY BuilderFields, ShownByItself
  <2> QED BY <1>1, <1>3, <2>1, NoFetchFields DEF NoneIsLost
<1> QED BY <1>4, <1>5, <1>7, <1>8 DEF HubInv, f

LEMMA AnswerKeeps ==
  ASSUME NEW b \in Builders, OneProcess(b), NEW h, NEW rest \in SUBSET Frames,
         HubInv(b, h, rest), h.fetch = Asked,
         NEW x, x = [h EXCEPT !.fetch = Answered(SnapshotOf(b))]
  PROVE  HubInv(b, x, rest)
<1> DEFINE f == SnapshotOf(b)
<1>1. /\ f \in Frames /\ SentBy(b, f) /\ f.type = "snapshot" /\ f.epoch = b.epoch
      /\ f.seq = b.seq /\ f.sessions = b.sessions
  BY SnapshotFields
<1> HIDE DEF f
<1>2. Answered(f) \in Fetches /\ Answered(f).st = "answered" /\ Answered(f).snap = f
  BY <1>1 DEF Fetches, Answered
<1>3. Answered(f) # NoFetch
  BY <1>2, NoFetchFields
<1>4. h \in Hubs /\ Kept(h) \in SUBSET Frames
  BY HubFields DEF HubInv, HubIsSane
<1>5. /\ x \in Hubs /\ x.socket = h.socket /\ x.seq = h.seq /\ x.epoch = h.epoch
      /\ x.resyncing = h.resyncing /\ x.buffer = h.buffer /\ x.overflowed = h.overflowed
      /\ x.told = h.told /\ x.view = h.view /\ x.snap = h.snap /\ x.fetch = Answered(f)
  <2> DEFINE a == Answered(f)
  <2>1. a \in Fetches /\ x = [h EXCEPT !.fetch = a]
    BY <1>2 DEF f
  <2> HIDE DEF a
  <2>2. /\ x \in Hubs /\ x.socket = h.socket /\ x.seq = h.seq /\ x.epoch = h.epoch
        /\ x.resyncing = h.resyncing /\ x.buffer = h.buffer /\ x.overflowed = h.overflowed
        /\ x.told = h.told /\ x.view = h.view /\ x.snap = h.snap /\ x.fetch = a
    BY <1>4, <2>1 DEF Hubs
  <2> QED BY <2>2 DEF a
<1>6. Kept(x) = Kept(h)
  BY <1>5 DEF Kept
<1>7. HubIsSane(x)
  BY <1>3, <1>5, NoFetchFields DEF HubInv, HubIsSane
<1>8. \A g \in rest : g.type # "snapshot"
  BY NoFetchFields DEF HubInv, InLine
<1>9. InLine(x, rest)
  BY <1>5, <1>6, <1>8 DEF HubInv, InLine
<1>10. NoneIsLate(b, x, rest)
  <2>1. \A g \in rest \cup Kept(x) : NotOlder(f.epoch, f.seq, f.sessions, g)
    <3> SUFFICES ASSUME NEW g \in rest \cup Kept(x), g.epoch = b.epoch, b.seq < g.seq PROVE FALSE
      BY <1>1 DEF NotOlder
    <3>1. g \in Frames /\ SentBy(b, g)
      BY <1>4, <1>6 DEF HubInv, NoneIsLate
    <3> QED BY <3>1, FrameFields, BuilderFields DEF SentBy
  <2>2. Behind(h.told, f.sessions)
    BY <1>1 DEF HubInv, NoneIsLate
  <2> QED BY <1>1, <1>2, <1>5, <1>6, <2>1, <2>2 DEF HubInv, NoneIsLate
<1>11. NoneIsLost(b, x, rest)
  <2>1. \A frames : Covered(b, f.seq, f.sessions, frames)
    BY <1>1, ShownByItself
  <2> QED BY <1>2, <1>5, <1>6, <1>8, <2>1 DEF HubInv, NoneIsLost
<1> QED BY <1>7, <1>9, <1>10, <1>11 DEF HubInv

(* The answer of a fetch, or its failure, finds no open socket.               *)
LEMMA FetchDropped ==
  ASSUME NEW b, NEW h, NEW rest \in SUBSET Frames, HubInv(b, h, rest),
         h.socket # "open", h.fetch # NoFetch, NEW x, x = [h EXCEPT !.fetch = NoFetch]
  PROVE  HubInv(b, x, rest) /\ x.told = h.told /\ x.view = h.view /\ x.snap = h.snap
<1>1. h \in Hubs
  BY DEF HubInv, HubIsSane
<1>2. /\ x \in Hubs /\ x.socket = h.socket /\ x.seq = h.seq /\ x.epoch = h.epoch
      /\ x.resyncing = h.resyncing /\ x.buffer = h.buffer /\ x.overflowed = h.overflowed
      /\ x.told = h.told /\ x.view = h.view /\ x.snap = h.snap
      /\ x.fetch = NoFetch
  BY <1>1, NoFetchFields DEF Hubs
<1>3. Kept(x) = Kept(h) /\ \A g \in rest : g.type # "snapshot"
  BY <1>2 DEF Kept, HubInv, InLine
<1>4. HubIsSane(x)
  BY <1>2 DEF HubInv, HubIsSane
<1>5. InLine(x, rest)
  BY <1>2, <1>3 DEF HubInv, InLine
<1>6. NoneIsLate(b, x, rest)
  BY <1>2, <1>3, NoFetchFields DEF HubInv, NoneIsLate
<1>7. NoneIsLost(b, x, rest)
  BY <1>2, <1>3 DEF NoneIsLost
<1> QED BY <1>2, <1>4, <1>5, <1>6, <1>7 DEF HubInv

(* The fetch fails and the socket is closed.                                 *)
GivenUp(h) == [Closing(h) EXCEPT !.fetch = NoFetch]

LEMMA FetchFailedKeeps ==
  ASSUME NEW b, NEW h, NEW rest \in SUBSET Frames, HubInv(b, h, rest),
         h.socket = "open", h.fetch = Asked, NEW x, x = GivenUp(h)
  PROVE  HubInv(b, x, rest) /\ x.told = h.told /\ x.view = h.view /\ x.snap = h.snap
<1>1. h \in Hubs
  BY DEF HubInv, HubIsSane
<1> DEFINE y == Closing(h)
<1>2. /\ y \in Hubs /\ y.socket = "closing" /\ y.buffer = <<>> /\ y.resyncing = FALSE
      /\ y.seq = h.seq /\ y.epoch = h.epoch /\ y.told = h.told /\ y.view = h.view /\ y.snap = h.snap
  BY <1>1, ClosingFields
<1>3. x = [y EXCEPT !.fetch = NoFetch]
  BY DEF GivenUp
<1> HIDE DEF y
<1>4. /\ x \in Hubs /\ x.socket = "closing" /\ x.buffer = <<>> /\ x.resyncing = FALSE
      /\ x.seq = h.seq /\ x.epoch = h.epoch /\ x.told = h.told /\ x.view = h.view /\ x.snap = h.snap
      /\ x.fetch = NoFetch
  BY <1>2, <1>3, NoFetchFields DEF Hubs
<1>5. \A g \in rest : g.type = "delta"
  BY NoFetchFields, FrameFields DEF HubInv, InLine
<1>6. rest \subseteq rest
  OBVIOUS
<1> QED BY <1>4, <1>5, <1>6, SilencedKeeps DEF HubInv

(* The connection is gone, with all frames that were to come.                 *)
LEMMA ClosedKeeps ==
  ASSUME NEW b, NEW h, NEW rest, HubInv(b, h, rest),
         NEW c, c.epoch = b.epoch, c.seq = b.seq, c.sessions = b.sessions, ~ c.hub
  PROVE  /\ HubInv(c, Closed(h), {})
         /\ Closed(h).told = h.told /\ Closed(h).view = h.view
<1> DEFINE x == Closed(h)
<1>1. h \in Hubs /\ <<>> \in Seq(Frames)
  BY DEF HubInv, HubIsSane
<1>2. /\ x \in Hubs /\ x.socket = "off" /\ x.seq = h.seq /\ x.epoch = h.epoch
      /\ x.resyncing = FALSE /\ x.buffer = <<>> /\ x.told = h.told /\ x.view = h.view /\ x.snap = h.snap
      /\ x.fetch = NoFetch
  BY <1>1, NoFetchFields DEF Closed, Hubs, SocketStates
<1> HIDE DEF x
<1>3. Kept(x) = {} /\ DOMAIN x.buffer = {} /\ Len(x.buffer) = 0
  BY <1>2, EmptyBuffer
<1>4. HubIsSane(x)
  BY <1>2, <1>3, Bounds DEF HubInv, HubIsSane
<1>5. InLine(x, {})
  BY <1>3 DEF InLine
<1>6. NoneIsLate(c, x, {})
  BY <1>2, <1>3, NoFetchFields DEF HubInv, NoneIsLate
<1>7. NoneIsLost(c, x, {})
  BY DEF NoneIsLost
<1> QED BY <1>2, <1>4, <1>5, <1>6, <1>7 DEF HubInv, x

-----------------------------------------------------------------------------
(* The invariant holds at the start and is kept by every step.               *)

LEMMA FreshProcess ==
  ASSUME NEW e \in 0..(MaxFaults + 1)
  PROVE  /\ Fresh(e) \in [Sessions -> Values]
         /\ \A s \in Sessions : Fresh(e)[s].epoch = e /\ Fresh(e)[s].data = 0
         /\ e # 0 => /\ NewProcess(e) \in Builders /\ OneProcess(NewProcess(e))
                     /\ NewProcess(e).epoch = e /\ NewProcess(e).seq = 0
                     /\ NewProcess(e).hub = FALSE /\ NewProcess(e).sessions = Fresh(e)
<1>1. Fresh(e) \in [Sessions -> Values]
  BY Bounds DEF Fresh, Values
<1>2. \A s \in Sessions : Fresh(e)[s].epoch = e /\ Fresh(e)[s].data = 0
  BY DEF Fresh
<1> DEFINE b == NewProcess(e)
<1>3. /\ b.epoch = e /\ b.seq = 0 /\ b.sessions = Fresh(e) /\ b.base = Fresh(e)
      /\ b.hub = FALSE
  BY DEF NewProcess
<1>4. e # 0 => b \in Builders
  BY <1>1, Bounds DEF NewProcess, Builders, Epochs
<1> HIDE DEF b
<1>5. OneProcess(b)
  <2>1. ASSUME NEW s \in Sessions
        PROVE  /\ b.sessions[s].epoch = b.epoch /\ b.base[s].epoch = b.epoch
               /\ b.base[s].data <= b.sessions[s].data
    <3>1. b.sessions[s] = Fresh(e)[s] /\ b.base[s] = Fresh(e)[s]
      BY <1>3
    <3>2. Fresh(e)[s].epoch = e /\ Fresh(e)[s].data = 0
      BY <1>2
    <3> QED BY <1>3, <3>1, <3>2
  <2> QED BY <2>1 DEF OneProcess
<1> QED BY <1>1, <1>2, <1>3, <1>4, <1>5 DEF b

LEMMA LinkInit == Init => LinkInv
<1> SUFFICES ASSUME Init PROVE LinkInv
  OBVIOUS
<1>1. /\ 0 \in 0..(MaxFaults + 1) /\ 1 \in 0..(MaxFaults + 1)
      /\ done \in [changes : 0..MaxChanges, faults : 0..MaxFaults]
      /\ done.faults = 0 /\ done.changes = 0
  BY Bounds DEF Init, StreamInit
<1>2. /\ builder \in Builders /\ OneProcess(builder) /\ builder.epoch = 1
      /\ builder.sessions = Fresh(1) /\ builder.seq = 0
  <2>1. builder = NewProcess(1)
    BY DEF Init, StreamInit
  <2>2. 1 \in 0..(MaxFaults + 1) /\ 1 # 0
    BY <1>1
  <2> QED BY <2>1, <2>2, FreshProcess
<1>3. /\ Fresh(0) \in [Sessions -> Values]
      /\ \A s \in Sessions : Fresh(0)[s].epoch = 0 /\ Fresh(1)[s].epoch = 1 /\ Fresh(1)[s].data = 0
  BY <1>1, FreshProcess
<1>4. wire = <<>> /\ wire \in Seq(Frames) /\ OnWire = {} /\ WireInv
  BY DEF Init, StreamInit, OnWire, WireInv, FramesOf, InARow
<1>5. /\ hub.socket = "off" /\ hub.seq = Null /\ hub.epoch = Null /\ hub.resyncing = FALSE
      /\ hub.buffer = <<>> /\ hub.fetch = NoFetch /\ hub.told = Fresh(0)
      /\ hub.view = Fresh(0)
  BY DEF Init
<1>6. hub \in Hubs
  <2>1. <<>> \in Seq(Frames)
    OBVIOUS
  <2> QED BY <1>3, <2>1, NoFetchFields DEF Init, Hubs, SocketStates
<1>7. Kept(hub) = {} /\ DOMAIN hub.buffer = {} /\ Len(hub.buffer) = 0
  BY <1>5, EmptyBuffer
<1>8. HubIsSane(hub)
  <2>1. Behind(hub.view, hub.told)
    BY <1>3, <1>5, BehindItself
  <2> QED BY <1>5, <1>6, <1>7, <2>1, Bounds DEF HubIsSane
<1>9. InLine(hub, {})
  BY <1>7 DEF InLine
<1>10. NoneIsLate(builder, hub, {})
  <2>1. Behind(hub.told, builder.sessions)
    <3>1. ASSUME NEW s \in Sessions PROVE hub.told[s].epoch < builder.sessions[s].epoch
      <4>1. hub.told[s].epoch = 0 /\ builder.sessions[s].epoch = 1
        BY <1>2, <1>3, <1>5
      <4> QED BY <4>1
    <3> QED BY <3>1 DEF Behind
  <2> QED BY <1>2, <1>5, <1>7, <2>1, Bounds, NoFetchFields DEF NoneIsLate
<1>11. NoneIsLost(builder, hub, {})
  BY <1>5, NoFetchFields DEF NoneIsLost
<1>12. TypeInv
  BY <1>1, <1>2, <1>4, <1>6, <1>7, Bounds DEF TypeInv
<1>13. BuilderInv
  BY <1>1, <1>2, <1>3 DEF BuilderInv
<1> QED BY <1>4, <1>8, <1>9, <1>10, <1>11, <1>12, <1>13 DEF LinkInv, HubInv

LEMMA LinkFields ==
  ASSUME LinkInv
  PROVE  /\ builder \in Builders /\ OneProcess(builder)
         /\ wire \in Seq(Frames) /\ OnWire = FramesOf(wire) /\ OnWire \in SUBSET Frames
         /\ InARow(wire) /\ HubInv(builder, hub, OnWire)
         /\ hub \in Hubs /\ hub.told \in [Sessions -> Values] /\ Onward(hub, hub)
         /\ done \in [changes : 0..MaxChanges, faults : 0..MaxFaults]
         /\ done.changes \in 0..MaxChanges /\ done.faults \in 0..MaxFaults
         /\ builder.epoch <= done.faults + 1
         /\ \A s \in Sessions : builder.sessions[s].data <= done.changes
<1>1. hub \in Hubs
  BY DEF LinkInv, TypeInv
<1>2. hub.told \in [Sessions -> Values] /\ Onward(hub, hub)
  BY <1>1, HubFields, OnwardItself
<1>3. /\ done \in [changes : 0..MaxChanges, faults : 0..MaxFaults]
      /\ done.changes \in 0..MaxChanges /\ done.faults \in 0..MaxFaults
  BY DEF LinkInv, TypeInv
<1>4. wire \in Seq(Frames)
  BY DEF LinkInv, TypeInv
<1>5. \A i \in DOMAIN wire : wire[i] \in Frames
  BY <1>4
<1>6. OnWire = FramesOf(wire) /\ OnWire \in SUBSET Frames
  BY <1>5 DEF OnWire, FramesOf
<1> QED BY <1>1, <1>2, <1>3, <1>4, <1>6 DEF LinkInv, TypeInv, BuilderInv, WireInv

(* What a step has to show.                                                  *)
LEMMA StepTo ==
  ASSUME builder' \in Builders, OneProcess(builder'),
         builder'.epoch <= done'.faults + 1,
         \A s \in Sessions : builder'.sessions[s].data <= done'.changes,
         done' \in [changes : 0..MaxChanges, faults : 0..MaxFaults],
         wire' \in Seq(Frames), InARow(wire'), HubInv(builder', hub', FramesOf(wire'))
  PROVE  LinkInv'
<1>1. hub' \in Hubs /\ Len(hub'.buffer) <= BufferCap
  BY DEF HubInv, HubIsSane
<1>2. TypeInv' /\ BuilderInv' /\ WireInv'
  BY <1>1 DEF TypeInv, BuilderInv, WireInv
<1>3. HubInv(builder', hub', OnWire')
  BY DEF OnWire
<1> QED BY <1>2, <1>3 DEF LinkInv

(* Builder b with one session changed; b with another number and baseline.    *)
WithSession(b, s, v, F) ==
  [b EXCEPT !.sessions = [b.sessions EXCEPT ![s] = v], !.fleeting = F]

WithNumber(b, n, base) == [b EXCEPT !.seq = n, !.base = base]

Mixed(b, base) ==
  base \in [Sessions -> Values] /\ \A s \in Sessions : base[s] \in {b.base[s], b.sessions[s]}

LEMMA SessionChanged ==
  ASSUME NEW b \in Builders, OneProcess(b), NEW s \in Sessions, NEW v \in Values,
         v.epoch = b.epoch, b.sessions[s].data <= v.data,
         NEW F \in SUBSET (0..MaxChanges),
         NEW c, c = WithSession(b, s, v, F)
  PROVE  /\ c \in Builders /\ OneProcess(c) /\ Ahead(b, c)
         /\ c.epoch = b.epoch /\ c.seq = b.seq /\ c.base = b.base /\ c.hub = b.hub
         /\ \A t \in Sessions : c.sessions[t] = IF t = s THEN v ELSE b.sessions[t]
<1> DEFINE w == [b.sessions EXCEPT ![s] = v]
<1>1. w \in [Sessions -> Values] /\ \A t \in Sessions : w[t] = IF t = s THEN v ELSE b.sessions[t]
  <2>1. b.sessions \in [Sessions -> Values]
    BY BuilderFields
  <2> QED BY <2>1
<1>2. c = [b EXCEPT !.sessions = w, !.fleeting = F]
  BY DEF WithSession
<1> HIDE DEF w
<1>3. /\ c \in Builders /\ c.epoch = b.epoch /\ c.seq = b.seq /\ c.base = b.base
      /\ c.hub = b.hub /\ c.sessions = w
  BY <1>1, <1>2 DEF Builders
<1>4. ASSUME NEW t \in Sessions PROVE b.sessions[t].data <= w[t].data
  <2>1. b.sessions[t].data \in Nat /\ w[t] = IF t = s THEN v ELSE b.sessions[t]
    BY <1>1, BuilderFields
  <2> QED BY <2>1
<1>5. \A t \in Sessions : w[t].data \in Nat
  BY <1>1, ValueFields
<1>6. OneProcess(c)
  <2> SUFFICES ASSUME NEW t \in Sessions
               PROVE  /\ w[t].epoch = b.epoch /\ b.base[t].epoch = b.epoch
                      /\ b.base[t].data <= w[t].data
    BY <1>3 DEF OneProcess
  <2>1. /\ b.sessions[t].epoch = b.epoch /\ b.base[t].epoch = b.epoch
        /\ b.base[t].data <= b.sessions[t].data
    BY DEF OneProcess
  <2> QED BY <1>1, <1>4, <1>5, <2>1, BuilderFields
<1>7. Ahead(b, c)
  BY <1>3, <1>4, BuilderFields DEF Ahead
<1> QED BY <1>1, <1>3, <1>6, <1>7

LEMMA Numbered ==
  ASSUME NEW b \in Builders, OneProcess(b), NEW n \in {b.seq, b.seq + 1}, b.seq < MaxSeq,
         NEW base, Mixed(b, base), NEW c, c = WithNumber(b, n, base)
  PROVE  /\ c \in Builders /\ OneProcess(c) /\ Ahead(b, c)
         /\ c.epoch = b.epoch /\ c.seq = n /\ c.base = base /\ c.hub = b.hub
         /\ c.sessions = b.sessions
<1>1. n \in 0..MaxSeq /\ b.seq <= n
  BY BuilderFields, Bounds
<1>2. /\ c \in Builders /\ c.epoch = b.epoch /\ c.seq = n /\ c.base = base
      /\ c.hub = b.hub /\ c.sessions = b.sessions
  BY <1>1 DEF Builders, Mixed, WithNumber
<1>3. OneProcess(c)
  <2> SUFFICES ASSUME NEW s \in Sessions
               PROVE  /\ b.sessions[s].epoch = b.epoch /\ base[s].epoch = b.epoch
                      /\ base[s].data <= b.sessions[s].data
    BY <1>2 DEF OneProcess
  <2>1. /\ b.sessions[s].epoch = b.epoch /\ b.base[s].epoch = b.epoch
        /\ b.base[s].data <= b.sessions[s].data /\ b.sessions[s].data \in Nat
        /\ base[s] = b.base[s] \/ base[s] = b.sessions[s]
    BY BuilderFields DEF OneProcess, Mixed
  <2> QED BY <2>1
<1>4. Ahead(b, c)
  BY <1>1, <1>2, BuilderFields DEF Ahead
<1> QED BY <1>2, <1>3, <1>4

LEMMA DeltaFields ==
  ASSUME builder \in Builders, builder.seq < MaxSeq,
         NEW S \in SUBSET Sessions, NEW w \in [S -> Values]
  PROVE  /\ Delta(w) \in Frames /\ Delta(w).type = "delta" /\ Delta(w).epoch = builder.epoch
         /\ Delta(w).seq = builder.seq + 1 /\ Delta(w).sessions = w
<1>1. builder.seq + 1 \in 0..MaxSeq /\ builder.epoch \in Epochs
  BY BuilderFields, Bounds
<1> QED BY <1>1 DEF Delta, Frames

LEMMA NoSessions == <<>> \in [{} -> Values] /\ DOMAIN <<>> = {}
<1>1. <<>> \in Seq(Values) /\ Len(<<>>) = 0
  OBVIOUS
<1>2. PICK n \in Nat : <<>> \in [1..n -> Values]
  BY <1>1, SeqDef
<1>3. DOMAIN <<>> = 1..n /\ DOMAIN <<>> = 1..0 /\ 1..0 = {}
  BY <1>1, <1>2
<1> QED BY <1>2, <1>3

(* The builder's steps leave the hub as it is. *)

LEMMA SessionStep ==
  ASSUME LinkInv, NEW s \in Sessions, Changes(s), hub' = hub
  PROVE  LinkInv'
<1> DEFINE k == done.changes + 1
<1>1. /\ builder \in Builders /\ OneProcess(builder) /\ wire' = wire /\ k \in 0..MaxChanges
      /\ builder.sessions \in [Sessions -> Values] /\ builder.sessions[s] \in Values
  BY LinkFields, BuilderFields, Bounds DEF Changes
<1>2. done' \in [changes : 0..MaxChanges, faults : 0..MaxFaults]
      /\ done'.changes = k /\ done'.faults = done.faults
  <2>1. done' = [done EXCEPT !.changes = k]
    BY DEF Changes
  <2> HIDE DEF k
  <2> QED BY <1>1, <2>1, LinkFields
<1>3. PICK v \in Values, F \in SUBSET (0..MaxChanges) :
        /\ v.epoch = builder.epoch /\ builder.sessions[s].data <= v.data /\ v.data <= k
        /\ builder' = [builder EXCEPT !.sessions = [builder.sessions EXCEPT ![s] = v],
                                     !.fleeting = F]
  <2> DEFINE old == builder.sessions[s]
             F == IF s \in Changed THEN builder.fleeting \cup {old.data} ELSE builder.fleeting
  <2>1. PICK look \in (Looks \cup {Gone}) \ {old.is} :
          builder' = [builder EXCEPT
            !.sessions = [builder.sessions EXCEPT ![s] = [old EXCEPT !.data = k, !.is = look]],
            !.fleeting = F]
    BY DEF Changes
  <2> DEFINE v == [old EXCEPT !.data = k, !.is = look]
  <2>2. old \in Values /\ old.epoch = builder.epoch /\ old.data <= done.changes /\ old.data \in Nat
    BY <1>1, LinkFields, BuilderFields DEF OneProcess
  <2>3. done.changes \in Nat /\ old.data \in 0..MaxChanges /\ look \in Looks \cup {Gone}
    BY <2>1, <2>2, LinkFields, Bounds DEF Values
  <2>4. F \in SUBSET (0..MaxChanges)
    <3>1. builder.fleeting \in SUBSET (0..MaxChanges)
      BY <1>1 DEF Builders
    <3> QED BY <2>3, <3>1
  <2>5. v \in Values /\ v.epoch = old.epoch /\ v.data = k
    <3> HIDE DEF old, k
    <3> QED BY <1>1, <2>2, <2>3 DEF Values
  <2>6. builder.sessions[s].data <= v.data /\ v.data <= k
    <3> HIDE DEF v
    <3> QED BY <2>2, <2>3, <2>5
  <2>7. builder' = [builder EXCEPT !.sessions = [builder.sessions EXCEPT ![s] = v],
                                  !.fleeting = F]
    BY <2>1
  <2> HIDE DEF v, F
  <2> QED BY <2>2, <2>4, <2>5, <2>6, <2>7
<1> DEFINE c == builder'
<1>4. /\ c \in Builders /\ OneProcess(c) /\ Ahead(builder, c)
      /\ c.epoch = builder.epoch /\ c.seq = builder.seq /\ c.base = builder.base
      /\ c.hub = builder.hub
      /\ \A t \in Sessions : c.sessions[t] = IF t = s THEN v ELSE builder.sessions[t]
  <2>1. c = WithSession(builder, s, v, F)
    BY <1>3 DEF WithSession
  <2> HIDE DEF c
  <2>2. v \in Values /\ v.epoch = builder.epoch /\ builder.sessions[s].data <= v.data
    BY <1>3
  <2> QED BY <1>1, <2>1, <2>2, SessionChanged
<1>5. \A t \in Sessions : c.sessions[t].data <= done'.changes
  <2> SUFFICES ASSUME NEW t \in Sessions PROVE c.sessions[t].data <= done'.changes
    OBVIOUS
  <2>1. builder.sessions[t].data <= done.changes /\ builder.sessions[t].data \in Nat
    BY <1>1, LinkFields, BuilderFields
  <2>2. done.changes \in Nat
    BY LinkFields, Bounds
  <2> HIDE DEF c
  <2> QED BY <1>2, <1>3, <1>4, <2>1, <2>2
<1>6. HubInv(c, hub, OnWire)
  <2> HIDE DEF c
  <2> QED BY <1>1, <1>4, LinkFields, GoesOnInSilence
<1>7. c.epoch <= done'.faults + 1
  BY <1>2, <1>4, LinkFields
<1>8. /\ HubInv(builder', hub', FramesOf(wire')) /\ wire' \in Seq(Frames) /\ InARow(wire')
  BY <1>1, <1>6, LinkFields
<1> QED BY <1>2, <1>4, <1>5, <1>7, <1>8, StepTo

(* The steps that number a frame, or none, and move the baseline, or not. *)
LEMMA NumberStep ==
  ASSUME LinkInv, hub' = hub,
         Broadcast \/ BroadcastToOthers \/ BroadcastEvent \/ BroadcastLost
  PROVE  LinkInv'
<1>1. /\ builder \in Builders /\ OneProcess(builder) /\ OnWire \in SUBSET Frames
      /\ HubInv(builder, hub, OnWire) /\ wire \in Seq(Frames) /\ InARow(wire)
      /\ OnWire = FramesOf(wire)
  BY LinkFields
<1>2. builder.seq < MaxSeq
  <2>1. builder.seq < MaxSeq \/ builder.seq + 1 < MaxSeq
    BY DEF Broadcast, BroadcastToOthers, BroadcastEvent, BroadcastLost, Goes
  <2> QED BY <1>1, <2>1, BuilderFields, Bounds
<1> DEFINE c == builder'
<1>30. /\ NextBase \in [Sessions -> Values] /\ builder.base \in [Sessions -> Values]
       /\ \A s \in Sessions : /\ NextBase[s] \in {builder.base[s], builder.sessions[s]}
                              /\ s \in Changed \/ NextBase[s] = builder.base[s]
  BY <1>1, BuilderFields DEF NextBase
<1>3. PICK n \in {builder.seq, builder.seq + 1}, base \in {builder.base, NextBase} :
        c = [builder EXCEPT !.seq = n, !.base = base]
  <2>1. CASE Broadcast \/ BroadcastLost
    BY <2>1 DEF Broadcast, BroadcastLost
  <2>2. CASE BroadcastToOthers
    <3>1. PICK browsers \in BOOLEAN :
            c = [builder EXCEPT !.seq = IF browsers THEN @ + 1 ELSE @, !.base = NextBase]
      BY <2>2 DEF BroadcastToOthers
    <3> DEFINE n == IF browsers THEN builder.seq + 1 ELSE builder.seq
    <3>2. n \in {builder.seq, builder.seq + 1}
          /\ c = [builder EXCEPT !.seq = n, !.base = NextBase]
      BY <3>1
    <3> HIDE DEF n, c
    <3> QED BY <3>2
  <2>3. CASE BroadcastEvent
    <3>1. c = [builder EXCEPT !.seq = builder.seq + 1, !.base = builder.base]
      <4>1. c = [builder EXCEPT !.seq = builder.seq + 1]
        BY <2>3 DEF BroadcastEvent
      <4> HIDE DEF c
      <4> QED BY <1>1, <4>1 DEF Builders
    <3> HIDE DEF c
    <3> QED BY <3>1
  <2> QED BY <2>1, <2>2, <2>3
<1>4. /\ c \in Builders /\ OneProcess(c) /\ Ahead(builder, c)
      /\ c.epoch = builder.epoch /\ c.seq = n /\ c.base = base /\ c.hub = builder.hub
      /\ c.sessions = builder.sessions
  <2>1. Mixed(builder, base)
    BY <1>1, <1>30, BuilderFields DEF Mixed
  <2>2. c = WithNumber(builder, n, base)
    BY <1>3 DEF WithNumber
  <2> HIDE DEF c
  <2> QED BY <1>1, <1>2, <2>1, <2>2, Numbered
<1>5. /\ done' \in [changes : 0..MaxChanges, faults : 0..MaxFaults]
      /\ done'.changes = done.changes /\ done'.faults \in Nat /\ done.faults <= done'.faults
  <2>1. CASE UNCHANGED done
    BY <2>1, LinkFields, Bounds
  <2>2. CASE done' = [done EXCEPT !.faults = @ + 1] /\ done.faults < MaxFaults
    <3> DEFINE k == done.faults + 1
    <3>1. k \in 0..MaxFaults /\ k \in Nat /\ done.faults <= k
      BY <2>2, LinkFields, Bounds
    <3>2. done' = [done EXCEPT !.faults = k]
      BY <2>2
    <3> HIDE DEF k
    <3> QED BY <3>1, <3>2, LinkFields
  <2> QED BY <2>1, <2>2 DEF Broadcast, BroadcastToOthers, BroadcastEvent, BroadcastLost
<1>6. /\ c.epoch <= done'.faults + 1 /\ \A s \in Sessions : c.sessions[s].data <= done'.changes
  <2>1. builder.epoch <= done.faults + 1 /\ builder.epoch \in Nat /\ done.faults \in Nat
    BY <1>1, LinkFields, BuilderFields, Bounds
  <2> HIDE DEF c
  <2> QED BY <1>4, <1>5, <2>1, LinkFields
<1>7. ASSUME wire' = wire, HubInv(c, hub, OnWire) PROVE LinkInv'
  <2>1. HubInv(builder', hub', FramesOf(wire')) /\ wire' \in Seq(Frames) /\ InARow(wire')
    BY <1>1, <1>7
  <2> QED BY <1>4, <1>5, <1>6, <2>1, StepTo
<1>8. ASSUME builder.hub, n = builder.seq + 1,
             NEW S \in SUBSET Sessions, NEW w \in [S -> Values],
             \A s \in S : w[s] = builder.sessions[s],
             \A s \in Sessions : s \in S \/ c.base[s] = builder.base[s],
             wire' = Append(wire, Delta(w))
      PROVE  LinkInv'
  <2> DEFINE f == Delta(w)
  <2>1. /\ f \in Frames /\ f.type = "delta" /\ f.epoch = builder.epoch
        /\ f.seq = builder.seq + 1 /\ f.sessions = w /\ DOMAIN w = S
    BY <1>1, <1>2, DeltaFields
  <2>2. /\ \A s \in DOMAIN f.sessions : f.sessions[s] = builder.sessions[s]
        /\ \A s \in Sessions : s \in DOMAIN f.sessions \/ c.base[s] = builder.base[s]
    BY <1>8, <2>1
  <2>3. wire' = Append(wire, f)
    BY <1>8
  <2> HIDE DEF f
  <2>4. HubInv(c, hub, OnWire \cup {f}) /\ \A g \in OnWire : Precedes(g, f)
    <3> HIDE DEF c
    <3> QED BY <1>1, <1>4, <1>8, <2>1, <2>2, SentKeeps, ZenonT(30)
  <2>5. /\ wire' \in Seq(Frames) /\ InARow(wire') /\ FramesOf(wire') = OnWire \cup {f}
    BY <1>1, <2>1, <2>3, <2>4, LastOnWire
  <2>6. HubInv(builder', hub', FramesOf(wire'))
    BY <2>4, <2>5
  <2> QED BY <1>4, <1>5, <1>6, <2>5, <2>6, StepTo
<1>9. CASE Broadcast
  <2> DEFINE w == [s \in Changed |-> builder.sessions[s]]
  <2>1. builder.hub /\ wire' = Append(wire, Delta(w)) /\ c = [builder EXCEPT
          !.seq = builder.seq + 1, !.base = NextBase]
    BY <1>9 DEF Broadcast
  <2>2. Changed \in SUBSET Sessions /\ w \in [Changed -> Values]
    BY <1>1, BuilderFields DEF Changed
  <2>3. \A s \in Changed : w[s] = builder.sessions[s]
    OBVIOUS
  <2>4. c.seq = builder.seq + 1 /\ c.base = NextBase
    <3> HIDE DEF c
    <3> QED BY <1>1, <2>1 DEF Builders
  <2>5. \A s \in Sessions : s \in Changed \/ c.base[s] = builder.base[s]
    BY <1>30, <2>4
  <2> HIDE DEF w, c
  <2> QED BY <1>4, <1>8, <2>1, <2>2, <2>3, <2>4, <2>5 DEF c
<1>10. CASE BroadcastToOthers
  <2>1. ~ builder.hub /\ wire' = wire
    BY <1>10 DEF BroadcastToOthers
  <2>2. HubInv(c, hub, OnWire)
    <3> HIDE DEF c
    <3> QED BY <1>1, <1>4, <2>1, GoesOnAlone
  <2> QED BY <1>7, <2>1, <2>2
<1>11. CASE BroadcastEvent
  <2>1. c = [builder EXCEPT !.seq = builder.seq + 1]
    BY <1>11 DEF BroadcastEvent
  <2>2. c.seq = builder.seq + 1 /\ c.base = builder.base
    <3> HIDE DEF c
    <3> QED BY <1>1, <2>1 DEF Builders
  <2>3. CASE builder.hub
    <3>1. wire' = Append(wire, Delta(<<>>))
      BY <1>11, <2>3 DEF BroadcastEvent
    <3>2. <<>> \in [{} -> Values] /\ {} \in SUBSET Sessions
      BY NoSessions
    <3> HIDE DEF c
    <3> QED BY <1>4, <1>8, <2>2, <2>3, <3>1, <3>2 DEF c
  <2>4. CASE ~ builder.hub
    <3>1. wire' = wire
      BY <1>11, <2>4 DEF BroadcastEvent
    <3>2. HubInv(c, hub, OnWire)
      <4> HIDE DEF c
      <4> QED BY <1>1, <1>4, <2>4, GoesOnAlone
    <3> QED BY <1>7, <3>1, <3>2
  <2> QED BY <2>3, <2>4
<1>12. CASE BroadcastLost
  <2>1. wire' = wire /\ c = [builder EXCEPT !.seq = builder.seq + 1, !.base = NextBase]
    BY <1>12 DEF BroadcastLost
  <2>2. c.seq = builder.seq + 1
    <3> HIDE DEF c
    <3> QED BY <1>1, <2>1 DEF Builders
  <2>3. HubInv(c, hub, OnWire)
    <3> HIDE DEF c
    <3> QED BY <1>1, <1>4, <2>2, NumberMissing
  <2> QED BY <1>7, <2>1, <2>3
<1> QED BY <1>9, <1>10, <1>11, <1>12

LEMMA RestartStep ==
  ASSUME LinkInv, Restart, hub' = hub
  PROVE  LinkInv'
<1> DEFINE e == builder.epoch + 1
           c == NewProcess(e)
           k == done.faults + 1
<1>1. /\ builder \in Builders /\ OneProcess(builder) /\ builder.epoch \in Nat
      /\ builder.epoch <= done.faults + 1 /\ done.faults \in 0..MaxFaults
      /\ done.changes \in Nat
  BY LinkFields, BuilderFields, Bounds
<1>2. builder' = c /\ wire' = wire /\ done.faults < MaxFaults /\ done' = [done EXCEPT !.faults = k]
  BY DEF Restart
<1>3. e \in 0..(MaxFaults + 1) /\ e # 0 /\ builder.epoch < e /\ e <= k + 1 /\ k \in 0..MaxFaults
  BY <1>1, <1>2, Bounds
<1> HIDE DEF e, k
<1>4. /\ c \in Builders /\ OneProcess(c) /\ c.epoch = e /\ c.hub = FALSE
      /\ c.sessions = Fresh(e) /\ \A s \in Sessions : Fresh(e)[s].data = 0
  BY <1>3, FreshProcess
<1> HIDE DEF c
<1>5. /\ done' \in [changes : 0..MaxChanges, faults : 0..MaxFaults]
      /\ done'.changes = done.changes /\ done'.faults = k
  BY <1>2, <1>3, LinkFields
<1>6. Ahead(builder, c)
  BY <1>3, <1>4 DEF Ahead
<1>7. HubInv(c, hub, OnWire)
  BY <1>1, <1>4, <1>6, LinkFields, GoesOnAlone
<1>8. /\ HubInv(builder', hub', FramesOf(wire')) /\ wire' \in Seq(Frames) /\ InARow(wire')
      /\ builder' \in Builders /\ OneProcess(builder')
  BY <1>2, <1>4, <1>7, LinkFields
<1>9. /\ builder'.epoch <= done'.faults + 1
      /\ \A s \in Sessions : builder'.sessions[s].data <= done'.changes
  BY <1>1, <1>2, <1>3, <1>4, <1>5
<1> QED BY <1>5, <1>8, <1>9, StepTo

(* The hub's steps. *)

(* A step that changes nothing of the builder and the bounds. *)
LEMMA HubStepTo ==
  ASSUME LinkInv, builder' = builder, done' = done,
         wire' \in Seq(Frames), InARow(wire'), HubInv(builder, hub', FramesOf(wire'))
  PROVE  LinkInv'
BY LinkFields, StepTo

LEMMA ReceiveStep ==
  ASSUME LinkInv, Receive
  PROVE  LinkInv' /\ Onward(hub, hub')
<1> DEFINE f == Head(wire)
<1>1. /\ wire # <<>> /\ wire' = Tail(wire) /\ hub' \in Taken(hub, f)
      /\ builder' = builder /\ done' = done
  BY DEF Receive
<1>2. /\ builder \in Builders /\ OneProcess(builder) /\ OnWire \in SUBSET Frames
      /\ HubInv(builder, hub, OnWire) /\ wire \in Seq(Frames) /\ InARow(wire)
      /\ OnWire = FramesOf(wire)
  BY LinkFields
<1>3. /\ wire' \in Seq(Frames) /\ InARow(wire') /\ IsNext(f, OnWire)
      /\ FramesOf(wire') = OnWire \ {f}
  BY <1>1, <1>2, FirstOnWire
<1> HIDE DEF f
<1>4. HubInv(builder, hub', OnWire \ {f}) /\ Onward(hub, hub')
  BY <1>1, <1>2, <1>3, TakenKeeps
<1> QED BY <1>1, <1>3, <1>4, HubStepTo

LEMMA ConnectStep ==
  ASSUME LinkInv, Connect
  PROVE  LinkInv' /\ hub'.told = hub.told /\ hub'.view = hub.view
<1> DEFINE c == builder'
<1>1. /\ builder \in Builders /\ OneProcess(builder) /\ HubInv(builder, hub, OnWire)
      /\ hub \in Hubs /\ hub.socket = "off" /\ done' = done
  BY LinkFields DEF Connect
<1>2. c = [builder EXCEPT !.hub = TRUE]
  BY DEF Connect, Attach
<1> HIDE DEF c
<1>3. /\ c \in Builders /\ c.epoch = builder.epoch /\ c.seq = builder.seq
      /\ c.sessions = builder.sessions /\ c.base = builder.base
  BY <1>1, <1>2 DEF Builders
<1>4. OneProcess(c)
  BY <1>1, <1>3 DEF OneProcess
<1> DEFINE x == hub'
<1>5. /\ x \in Hubs /\ x.socket = "open" /\ x.seq = Null /\ x.epoch = Null /\ ~ x.resyncing
      /\ x.buffer = <<>> /\ x.fetch = hub.fetch /\ x.told = hub.told /\ x.view = hub.view
      /\ x.snap = hub.snap
  <2>1. x = [hub EXCEPT !.socket = "open", !.seq = Null, !.epoch = Null,
                        !.resyncing = FALSE, !.buffer = <<>>,
                        !.overflowed = FALSE, !.refetched = FALSE]
    BY DEF Connect
  <2>2. <<>> \in Seq(Frames)
    OBVIOUS
  <2> HIDE DEF x
  <2> QED BY <1>1, <2>1, <2>2 DEF Hubs, SocketStates
<1> DEFINE f == SnapshotOf(c)
<1>6. HubInv(c, x, {f})
  <2> HIDE DEF x
  <2> QED BY <1>1, <1>3, <1>4, <1>5, ConnectKeeps
<1>7. f \in Frames
  BY <1>3, <1>4, SnapshotFields
<1>8. wire' = <<f>>
  <2>1. wire' = <<SnapshotFrame>>
    BY DEF Connect, Attach
  <2> QED BY <1>3, <2>1 DEF SnapshotFrame, SnapshotOf
<1> HIDE DEF f
<1>9. wire' \in Seq(Frames) /\ InARow(wire') /\ FramesOf(wire') = {f}
  <2>1. <<f>> \in Seq(Frames) /\ DOMAIN <<f>> = {1} /\ <<f>>[1] = f
    BY <1>7
  <2> QED BY <1>8, <2>1 DEF InARow, FramesOf
<1>10. builder' = c
  BY DEF c
<1>11. /\ builder'.epoch <= done'.faults + 1
       /\ \A s \in Sessions : builder'.sessions[s].data <= done'.changes
  BY <1>1, <1>3, <1>10, LinkFields
<1>12. done' \in [changes : 0..MaxChanges, faults : 0..MaxFaults]
  BY <1>1, LinkFields
<1> QED BY <1>3, <1>4, <1>5, <1>6, <1>9, <1>10, <1>11, <1>12, StepTo

LEMMA FetchStep ==
  ASSUME LinkInv, Answer \/ TakeSnapshot \/ FetchFails
  PROVE  LinkInv' /\ Onward(hub, hub')
<1>1. /\ builder \in Builders /\ OneProcess(builder) /\ OnWire \in SUBSET Frames
      /\ HubInv(builder, hub, OnWire) /\ wire \in Seq(Frames) /\ InARow(wire)
      /\ OnWire = FramesOf(wire) /\ hub \in Hubs /\ Onward(hub, hub)
  BY LinkFields
<1>2. builder' = builder /\ wire' = wire /\ done' = done
  BY DEF Answer, TakeSnapshot, FetchFails
<1> SUFFICES HubInv(builder, hub', OnWire) /\ Onward(hub, hub')
  BY <1>1, <1>2, HubStepTo
<1>0. ASSUME hub'.told = hub.told /\ hub'.view = hub.view PROVE Onward(hub, hub')
  BY <1>0, <1>1 DEF Onward
<1>3. CASE Answer
  <2>1. hub.fetch = Asked /\ hub' = [hub EXCEPT !.fetch = Answered(SnapshotOf(builder))]
    BY <1>3 DEF Answer, SnapshotFrame, SnapshotOf
  <2>2. HubInv(builder, hub', OnWire)
    BY <1>1, <2>1, AnswerKeeps
  <2>3. hub'.told = hub.told /\ hub'.view = hub.view
    <3> DEFINE a == Answered(SnapshotOf(builder))
    <3>1. hub' = [hub EXCEPT !.fetch = a]
      BY <2>1
    <3> HIDE DEF a
    <3> QED BY <1>1, <3>1 DEF Hubs
  <2> QED BY <1>0, <2>2, <2>3
<1>4. CASE hub.socket # "open" /\ (TakeSnapshot \/ FetchFails)
  <2>1. hub' = [hub EXCEPT !.fetch = NoFetch] /\ hub.fetch # NoFetch
    BY <1>4, NoFetchFields DEF TakeSnapshot, FetchFails
  <2> QED BY <1>0, <1>1, <1>4, <2>1, FetchDropped
<1>5. CASE hub.socket = "open" /\ FetchFails
  <2>1. hub' = [Closing(hub) EXCEPT !.fetch = NoFetch] /\ hub.fetch = Asked
    BY <1>5 DEF FetchFails
  <2> DEFINE x == hub'
  <2>2. x = GivenUp(hub) /\ hub.fetch = Asked
    BY <2>1 DEF GivenUp
  <2>3. HubInv(builder, x, OnWire) /\ x.told = hub.told /\ x.view = hub.view
    <3> HIDE DEF x
    <3> QED BY <1>1, <1>5, <2>2, FetchFailedKeeps
  <2> QED BY <1>0, <2>3
<1>6. CASE hub.socket = "open" /\ TakeSnapshot
  <2>1. hub' \in AfterFetch(hub, hub.fetch.snap) /\ hub.fetch.st = "answered"
    BY <1>6 DEF TakeSnapshot
  <2> QED BY <1>1, <1>6, <2>1, FetchTakenKeeps
<1> QED BY <1>3, <1>4, <1>5, <1>6

LEMMA CloseStep ==
  ASSUME LinkInv, SocketEnds \/ Drop
  PROVE  LinkInv' /\ hub'.told = hub.told /\ hub'.view = hub.view
<1> DEFINE c == builder'
<1>1. /\ builder \in Builders /\ OneProcess(builder) /\ HubInv(builder, hub, OnWire)
      /\ done.faults \in 0..MaxFaults /\ builder.epoch <= done.faults + 1
      /\ builder.epoch \in Nat
  BY LinkFields, BuilderFields
<1>2. c = [builder EXCEPT !.hub = FALSE] /\ wire' = <<>> /\ hub' = Closed(hub)
  BY DEF SocketEnds, Drop, Detach
<1> HIDE DEF c
<1>3. /\ c \in Builders /\ c.epoch = builder.epoch /\ c.seq = builder.seq
      /\ c.sessions = builder.sessions /\ c.base = builder.base /\ ~ c.hub
  BY <1>1, <1>2 DEF Builders
<1>4. OneProcess(c)
  BY <1>1, <1>3 DEF OneProcess
<1>5. /\ done' \in [changes : 0..MaxChanges, faults : 0..MaxFaults]
      /\ done'.changes = done.changes /\ done'.faults \in Nat /\ done.faults <= done'.faults
  <2>1. CASE SocketEnds
    BY <1>1, <2>1, LinkFields, Bounds DEF SocketEnds
  <2>2. CASE Drop
    <3> DEFINE k == done.faults + 1
    <3>1. k \in 0..MaxFaults /\ k \in Nat /\ done.faults <= k
      BY <1>1, <2>2, Bounds DEF Drop
    <3>2. done' = [done EXCEPT !.faults = k]
      BY <2>2 DEF Drop
    <3> HIDE DEF k
    <3> QED BY <3>1, <3>2, LinkFields
  <2> QED BY <2>1, <2>2
<1>6. HubInv(c, hub', {}) /\ hub'.told = hub.told /\ hub'.view = hub.view
  BY <1>1, <1>2, <1>3, ClosedKeeps
<1>7. wire' \in Seq(Frames) /\ InARow(wire') /\ FramesOf(wire') = {}
  BY <1>2 DEF InARow, FramesOf
<1>8. builder' = c
  BY DEF c
<1>9. /\ builder'.epoch <= done'.faults + 1
      /\ \A s \in Sessions : builder'.sessions[s].data <= done'.changes
  <2>1. builder.epoch <= done'.faults + 1
    BY <1>1, <1>5, Bounds
  <2> QED BY <1>3, <1>5, <1>8, <2>1, LinkFields
<1> QED BY <1>3, <1>4, <1>5, <1>6, <1>7, <1>8, <1>9, StepTo

LEMMA LinkStep ==
  ASSUME LinkInv, [Next]_vars
  PROVE  LinkInv' /\ Onward(hub, hub')
<1>1. Onward(hub, hub)
  BY LinkFields
<1>0. ASSUME hub'.told = hub.told /\ hub'.view = hub.view PROVE Onward(hub, hub')
  BY <1>0, <1>1 DEF Onward
<1>2. CASE UNCHANGED vars
  <2>1. builder' = builder /\ wire' = wire /\ done' = done /\ hub' = hub
    BY <1>2 DEF vars
  <2>2. HubInv(builder, hub', FramesOf(wire')) /\ wire' \in Seq(Frames) /\ InARow(wire')
    BY <2>1, LinkFields
  <2> QED BY <1>1, <2>1, <2>2, HubStepTo
<1>3. CASE StreamNext /\ UNCHANGED hub
  <2>1. CASE \E s \in Sessions : Changes(s)
    BY <1>1, <1>3, <2>1, SessionStep
  <2>2. CASE Broadcast \/ BroadcastToOthers \/ BroadcastEvent \/ BroadcastLost
    BY <1>1, <1>3, <2>2, NumberStep
  <2>3. CASE Restart
    BY <1>1, <1>3, <2>3, RestartStep
  <2> QED BY <1>3, <2>1, <2>2, <2>3 DEF StreamNext
<1>4. CASE Connect
  BY <1>0, <1>4, ConnectStep
<1>5. CASE Receive
  BY <1>5, ReceiveStep
<1>6. CASE Answer \/ TakeSnapshot \/ FetchFails
  BY <1>6, FetchStep
<1>7. CASE SocketEnds \/ Drop
  BY <1>0, <1>7, CloseStep
<1> QED BY <1>2, <1>3, <1>4, <1>5, <1>6, <1>7 DEF Next

-----------------------------------------------------------------------------
(* At every moment the frames that are to come, the snapshot that was fetched  *)
(* and the hub's view fit together: in order, none too old to be applied, and  *)
(* none missing that its number does not betray.                             *)
THEOREM LinkHolds == Spec => []LinkInv
<1>1. LinkInv /\ [Next]_vars => LinkInv'
  BY LinkStep
<1> QED BY <1>1, LinkInit, PTL DEF Spec

(* Upstream never keeps more frames during a fetch than its cap, and its       *)
(* fields and the builder's stay within their types.                         *)
THEOREM TypeCorrect == Spec => []TypeOK
<1>1. LinkInv => TypeOK
  <2> SUFFICES ASSUME LinkInv PROVE TypeOK
    OBVIOUS
  <2>1. /\ builder \in Builders /\ hub \in Hubs /\ wire \in Seq(Frames)
        /\ done \in [changes : 0..MaxChanges, faults : 0..MaxFaults]
    BY LinkFields
  <2>2. /\ hub.socket \in SocketStates /\ hub.seq \in {Null} \cup 0..MaxSeq
        /\ hub.epoch \in {Null} \cup Epochs /\ hub.view \in [Sessions -> Values]
        /\ hub.told \in [Sessions -> Values] /\ hub.snap \in BOOLEAN
        /\ hub.resyncing \in BOOLEAN /\ hub.overflowed \in BOOLEAN
        /\ hub.refetched \in BOOLEAN /\ hub.buffer \in Seq(Frames)
        /\ hub.fetch.st \in {"none", "asked", "answered"}
    BY <2>1, HubFields, FetchFields
  <2>3. Len(hub.buffer) <= BufferCap
    BY DEF LinkInv, TypeInv
  <2>4. /\ \A i \in 1..Len(wire) : wire[i] \in Frames
        /\ \A i \in 1..Len(hub.buffer) : hub.buffer[i] \in Frames
    BY <2>1, <2>2
  <2> QED BY <2>1, <2>2, <2>3, <2>4 DEF TypeOK, Builders
<1> QED BY <1>1, LinkHolds, PTL

(* A hub whose number is that of the builder's last frame, in the same epoch,  *)
(* has missed nothing that was broadcast of a session that its store took:     *)
(* what it lost on the way, it got by a snapshot, and the frames it kept       *)
(* meanwhile were replayed onto it.                                          *)
THEOREM NothingMissed == Spec => []NothingIsMissed
<1>1. LinkInv => NothingIsMissed
  <2> SUFFICES ASSUME LinkInv, UpToDate, NEW s \in Sessions, Shown(s)
               PROVE  /\ builder.base[s].data <= hub.view[s].data
                      /\ hub.view[s].data <= builder.sessions[s].data
    BY DEF NothingIsMissed
  <2>1. /\ builder \in Builders /\ OneProcess(builder) /\ hub \in Hubs
        /\ HubInv(builder, hub, OnWire) /\ OnWire \in SUBSET Frames
    BY LinkFields
  <2>2. builder.epoch # Null /\ builder.epoch \in Nat /\ builder.seq \in Nat
    BY <2>1, BuilderFields
  <2>3. Covered(builder, hub.seq, hub.told, OnWire)
    BY <2>1 DEF UpToDate, HubInv, NoneIsLost
  <2>4. \A f \in OnWire : f.epoch = builder.epoch => ~ (hub.seq < f.seq)
    <3> SUFFICES ASSUME NEW f \in OnWire, f.epoch = builder.epoch PROVE ~ (builder.seq < f.seq)
      BY DEF UpToDate
    <3>1. f.seq <= builder.seq /\ f.seq \in Nat
      BY <2>1, FrameFields DEF HubInv, NoneIsLate, SentBy
    <3> QED BY <2>2, <3>1
  <2>5. (hub.seq + 1)..builder.seq = {}
    BY <2>2 DEF UpToDate
  <2>6. builder.base[s].data <= hub.told[s].data
    BY <2>3, <2>4, <2>5 DEF Covered
  <2>7. hub.told[s].epoch = builder.epoch /\ builder.sessions[s].epoch = builder.epoch
    BY <2>1, <2>2 DEF UpToDate, HubInv, HubIsSane, OneProcess
  <2>8. hub.told[s].data <= builder.sessions[s].data
    BY <2>1, <2>2, <2>7 DEF HubInv, NoneIsLate, Behind
  <2> QED BY <2>6, <2>8 DEF Shown
<1> QED BY <1>1, LinkHolds, PTL

(* The store goes without a session only if its name is bad, as long as there  *)
(* are no more sessions than it has room for.                                *)
THEOREM GoodNamesAreShown ==
  Spec => [](Cardinality(Sessions) <= StoreCap => \A s \in Sessions \ Unsafe : Shown(s))
<1>1. LinkInv => (Cardinality(Sessions) <= StoreCap => \A s \in Sessions \ Unsafe : Shown(s))
  BY DEF LinkInv, HubInv, HubIsSane, HasRoom, Shown
<1> QED BY <1>1, LinkHolds, PTL

(* A delta of one process of the builder is never applied to the state of      *)
(* another, even if its number fits: a session of which the store has what it  *)
(* was last told comes from the process whose frames the hub counts.          *)
THEOREM EpochsDoNotMix == Spec => []OneEpoch
<1>1. LinkInv => OneEpoch
  BY DEF LinkInv, HubInv, HubIsSane, OneEpoch, Shown
<1> QED BY <1>1, LinkHolds, PTL

(* What the hub shows of a session never goes back: neither frames that were   *)
(* kept during a fetch nor a late snapshot undo what came after them.         *)
THEOREM NeverBack == Spec => NoStepBack
<1>1. LinkInv /\ [Next]_vars =>
        [\A s \in Sessions :
           LET old == hub.view[s]  new == hub'.view[s] IN
           \/ old.epoch < new.epoch
           \/ old.epoch = new.epoch /\ old.data <= new.data]_vars
  BY LinkStep DEF Onward, Behind
<1> QED BY <1>1, LinkHolds, PTL DEF Spec, NoStepBack

=============================================================================
