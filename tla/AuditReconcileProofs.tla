------------------------- MODULE AuditReconcileProofs -------------------------
(***************************************************************************)
(* Proofs about AuditReconcile, for any ids, pages and bounds.             *)
(*                                                                         *)
(* FoldLeft is recursive, so it is brought to its two equations first      *)
(* (ReplayEmpty, ReplayAppend): induction over the naturals as a fact      *)
(* about sets, which needs no operator as a parameter.  ReplayInv then     *)
(* relates what the hub holds, what it would hold after a scan and what a  *)
(* restart would give it, whether or not its scans succeed; CoverInv says  *)
(* which entries of the builder's log the pull and the index account for,  *)
(* unless one was indexed blind, ForkInv what holds of a log that was      *)
(* never rewritten.  The last two hold if no rebase meets a pull.          *)
(***************************************************************************)
EXTENDS AuditReconcile, SequenceTheorems, WellFoundedInduction, TLAPS

(* The hub's entries about the builder, an answer, a pull.                   *)
Logs == {f \in Facts : f.judged = {} /\ f.unknown = {}}
HubEntries == [action : {"sent", "done", "unsent"}, id : Ids]
                \cup [action : {"match"}, matched : SUBSET LogEntries]
                \cup [action : {"fork"}]
                \cup [action : {"anchor"}, head : Heads]
                \cup [action : {"rebase"}, head : Heads, before : SUBSET Ids]
                \cup [action : {"log"}, facts : Logs]

Answers == [kind : {"none", "failed", "fork", "page"}, entries : Seq(LogEntries),
            more : BOOLEAN]

Pulls == [st : {"none", "asked", "answered"}, anchor : Heads, tip : Heads,
          pages : 0..MaxPages, fresh : SUBSET LogEntries, settled : SUBSET Ids,
          answer : Answers]

TypeInv ==
  /\ blog \in Seq(LogEntries)
  /\ written \in 0..MaxEntries /\ recorded \in SUBSET Ids /\ givenUp \in SUBSET Ids
  /\ durable \in Facts /\ mem \in Facts /\ Scanned \in Facts
  /\ durable.judged = {}
  /\ tail \in Seq(HubEntries)
  /\ pull \in Pulls
  /\ headRead \in Seq([head : Heads, stale : BOOLEAN]) /\ Len(headRead) <= 1
  /\ rewritten \in BOOLEAN /\ blind \in BOOLEAN /\ faults \in 0..MaxFaults

(* Entries have hashes of their own; each id was relayed before it was        *)
(* recorded, and the relay never has an answer after it gave up.             *)
LogInv ==
  /\ Len(blog) <= written
  /\ \A i \in DOMAIN blog : blog[i].h <= written /\ blog[i].id \in recorded \cup {Local}
  /\ recorded \subseteq durable.sent
  /\ durable.done \cap givenUp = {}

(* The hub, its next scan and its next start: they agree on the anchor and on *)
(* what is not judged (the hub itself perhaps only once it has read its log), *)
(* matches only grow, and nothing is unknown of a hub that never was blind.   *)
ReplayInv ==
  /\ Scanned.sent = durable.sent /\ mem.sent \subseteq durable.sent
  /\ NothingRead \/ mem.anchor = durable.anchor
  /\ Scanned.anchor = durable.anchor
  /\ mem.unjudged \subseteq durable.unjudged /\ Scanned.unjudged = durable.unjudged
  /\ mem.index \subseteq Scanned.index /\ Scanned.index \subseteq durable.index
  /\ blind \/ mem.unknown = {}
  /\ Scanned.unknown \subseteq mem.unknown /\ durable.unknown = {}
  /\ mem.judged \subseteq Settled /\ Scanned.judged \subseteq mem.judged

(* A head that was read is older than the next entry; a pull that has moved   *)
(* is past its anchor.                                                       *)
PullInv ==
  /\ mem.anchor.hash <= written /\ durable.anchor.hash <= written
  /\ pull.tip.hash <= written /\ PageTip.hash <= written
  /\ PageTip.count <= MaxEntries
  /\ \A i \in DOMAIN headRead : headRead[i].head.hash <= written
  /\ pull.st = "none" => pull = NoPull
  /\ pull.st = "answered" => pull.answer.kind # "none"
  /\ pull.answer.kind # "page" => pull.answer.entries = <<>>
  /\ pull.settled \subseteq Settled
  /\ \A e \in PageFresh : e.id \in recorded
  /\ pull.anchor.count <= pull.tip.count
  /\ pull.fresh # {} => pull.anchor.count < pull.tip.count

(* A log that still has the head, and its entries up to there; those of some  *)
(* ids, wherever they are: all have been seen, or were relayed before a       *)
(* rebase.                                                                   *)
Reaches(log, head) ==
  head.count = 0 \/ (head.count <= Len(log) /\ log[head.count].h = head.hash)

Explained(log, head, seen, unjudged) ==
  Reaches(log, head) =>
    \A i \in 1..head.count : log[i].id = Local \/ log[i] \in seen \/ log[i].id \in unjudged

AllSeen(log, ids, seen, unjudged) ==
  \A i \in DOMAIN log : log[i].id \in ids => log[i] \in seen \/ log[i].id \in unjudged

Covered ==
  /\ Explained(blog, durable.anchor, Scanned.index, durable.unjudged)
  /\ Explained(blog, mem.anchor, mem.index, mem.unjudged)
  /\ Explained(blog, pull.tip, pull.fresh \cup mem.index, mem.unjudged)
  /\ Explained(blog, PageTip, PageFresh \cup mem.index, mem.unjudged)
  /\ pull.answer.kind = "page" /\ LastPage =>
       AllSeen(blog, pull.settled \cap durable.done, PageFresh \cup mem.index, mem.unjudged)
  /\ AllSeen(blog, mem.judged \cap durable.done, mem.index, mem.unjudged)

CoverInv == ~ blind => Covered

ForkInv ==
  /\ ~ rewritten =>
       /\ Reaches(blog, mem.anchor) /\ Reaches(blog, durable.anchor)
       /\ Reaches(blog, pull.tip) /\ Reaches(blog, PageTip)
       /\ pull.answer.kind # "fork"
       /\ mem.fork = FALSE /\ Scanned.fork = FALSE /\ durable.fork = FALSE
  /\ \A i \in DOMAIN headRead : headRead[i].stale \/ Reaches(blog, headRead[i].head)

SafeInv == TypeInv /\ LogInv /\ ReplayInv /\ PullInv
PulledInv == CoverInv /\ ForkInv
-----------------------------------------------------------------------------
(* Replay *)

(* Induction over the naturals: a set with 0 and all successors has them all. *)
LEMMA SetInduction ==
  ASSUME NEW S, 0 \in S, \A n \in Nat : n \in S => n+1 \in S
  PROVE  Nat \subseteq S
<1> SUFFICES ASSUME NEW k \in Nat, k \notin S PROVE FALSE
  OBVIOUS
<1> DEFINE R == OpToRel(<, Nat)
           T == {n \in Nat : n \notin S}
<1>1. IsWellFoundedOn(R, Nat)
  BY NatLessThanWellFounded
<1>2. T \subseteq Nat /\ T # {}
  OBVIOUS
<1>3. \E x \in T : \A y \in T : ~ (<<y, x>> \in R)
  <2> HIDE DEF R, T
  <2> QED BY <1>1, <1>2, WFMin
<1>4. PICK x \in T : \A y \in T : ~ (<<y, x>> \in R)
  BY <1>3
<1>5. \A y \in T : ~ (y < x)
  BY <1>4 DEF OpToRel
<1>6. x # 0 /\ x \in Nat
  OBVIOUS
<1>7. x - 1 \in Nat /\ x - 1 < x
  BY <1>6
<1>8. x - 1 \in S
  BY <1>5, <1>7
<1> QED BY <1>7, <1>8, x = (x - 1) + 1

(* A set of positive numbers up to n has a largest one, and Max is it.        *)
LEMMA MaxOfSome ==
  ASSUME NEW n \in Nat, NEW T \in SUBSET (1..n), T # {}
  PROVE  Max(T) \in T /\ \A y \in T : y <= Max(T)
<1> DEFINE S == {k \in Nat : \A U \in SUBSET (1..k) : U # {} => \E x \in U : \A y \in U : y <= x}
<1>1. 0 \in S
  <2>1. \A U \in SUBSET (1..0) : U = {}
    OBVIOUS
  <2> QED BY <2>1
<1>2. ASSUME NEW k \in Nat, k \in S PROVE k + 1 \in S
  <2> SUFFICES ASSUME NEW U \in SUBSET (1..(k+1)), U # {}
               PROVE  \E x \in U : \A y \in U : y <= x
    OBVIOUS
  <2>1. CASE k + 1 \in U
    BY <2>1
  <2>2. CASE k + 1 \notin U
    <3>1. U \in SUBSET (1..k)
      BY <2>2
    <3> QED BY <1>2, <3>1
  <2> QED BY <2>1, <2>2
<1>3. Nat \subseteq S
  <2> HIDE DEF S
  <2> QED BY <1>1, <1>2, SetInduction
<1>4. \E x \in T : \A y \in T : y <= x
  BY <1>3
<1> QED BY <1>4 DEF Max

(* FoldLeft takes the indexes away from the last one down.                   *)
LEMMA MaxOfInterval ==
  ASSUME NEW n \in Nat, n # 0
  PROVE  Max(1..n) = n /\ (1..n) \ {n} = 1..(n-1)
<1>1. Max(1..n) \in 1..n /\ \A y \in 1..n : y <= Max(1..n)
  <2>1. 1..n \in SUBSET (1..n) /\ 1..n # {}
    OBVIOUS
  <2> QED BY <2>1, MaxOfSome
<1>2. n \in 1..n
  OBVIOUS
<1> QED BY <1>1, <1>2

(* Replay goes through the values a[n] after n entries.                       *)
LEMMA ReplayFold ==
  ASSUME NEW b, NEW s, NEW X, s \in Seq(X)
  PROVE  \E a : /\ a[0] = b
                /\ \A n \in 1..Len(s) : a[n] = Note(a[n-1], s[n])
                /\ Replay(b, s) = a[Len(s)]
<1> DEFINE Step(it, T) == IF T = {} THEN b ELSE LET x == Max(T) IN Note(it[T \ {x}], s[x])
           Iter(it, U) == it = [T \in SUBSET U |-> Step(it, T)]
           it0 == CHOOSE it : Iter(it, DOMAIN s)
           S == {n \in Nat : \E it : Iter(it, 1..n)}
<1>1. Replay(b, s) = it0[DOMAIN s]
  BY DEF Replay, FoldLeft, MapThenFoldSet
<1>2. 0 \in S
  <2>1. Iter([T \in SUBSET (1..0) |-> b], 1..0)
    OBVIOUS
  <2> QED BY <2>1
<1>3. ASSUME NEW n \in Nat, n \in S PROVE n + 1 \in S
  <2>1. PICK it : Iter(it, 1..n)
    BY <1>3
  <2> DEFINE N == n + 1
             nxt == [T \in SUBSET (1..N) |->
                       IF N \in T THEN Note(it[T \ {N}], s[N]) ELSE it[T]]
  <2>2. ASSUME NEW T \in SUBSET (1..N) PROVE nxt[T] = Step(nxt, T)
    <3>1. CASE N \in T
      <4>1. Max(T) = N
        <5>1. N \in Nat /\ T # {} BY <3>1
        <5>2. Max(T) \in T /\ N <= Max(T) BY <5>1, <3>1, MaxOfSome
        <5>3. Max(T) \in 1..N BY <5>2
        <5> QED BY <5>1, <5>2, <5>3
      <4>2. T \ {N} \in SUBSET (1..N) /\ N \notin T \ {N}
        OBVIOUS
      <4> HIDE DEF N
      <4> QED BY <3>1, <4>1, <4>2
    <3>2. CASE N \notin T /\ T # {}
      <4>1. T \in SUBSET (1..n) BY <3>2
      <4>2. Max(T) \in T BY <4>1, <3>2, MaxOfSome
      <4>3. T \ {Max(T)} \in SUBSET (1..n) /\ T \ {Max(T)} \in SUBSET (1..N) /\ N \notin T \ {Max(T)}
        BY <3>2, <4>1
      <4>4. it[T] = Note(it[T \ {Max(T)}], s[Max(T)]) BY <2>1, <4>1, <3>2
      <4> HIDE DEF N
      <4> QED BY <3>2, <4>3, <4>4
    <3>3. CASE T = {}
      <4>1. N \notin T /\ T \in SUBSET (1..n) /\ it[T] = b BY <2>1, <3>3
      <4> HIDE DEF N
      <4> QED BY <3>3, <4>1
    <3> QED BY <3>1, <3>2, <3>3
  <2>3. Iter(nxt, 1..N)
    <3> HIDE DEF Step
    <3> QED BY <2>2
  <2>4. \E x : Iter(x, 1..N)
    <3> HIDE DEF nxt, Iter
    <3> QED BY <2>3
  <2> HIDE DEF Iter
  <2> QED BY <2>4
<1>4. Nat \subseteq S
  <2> HIDE DEF S
  <2> QED BY <1>2, <1>3, SetInduction
<1>5. DOMAIN s = 1..Len(s) /\ Len(s) \in Nat
  OBVIOUS
<1>6. Iter(it0, 1..Len(s))
  <2>1. \E it : Iter(it, DOMAIN s)
    BY <1>4, <1>5
  <2> HIDE DEF Iter
  <2> QED BY <2>1, <1>5
<1> DEFINE a == [n \in 0..Len(s) |-> it0[1..n]]
<1>7. a[0] = b
  <2>1. 1..0 = {} /\ {} \in SUBSET (1..Len(s))
    OBVIOUS
  <2>2. it0[{}] = b
    <3> HIDE DEF it0
    <3> QED BY <1>6
  <2> HIDE DEF it0
  <2> QED BY <2>1, <2>2, <1>5
<1>8. ASSUME NEW n \in 1..Len(s) PROVE a[n] = Note(a[n-1], s[n])
  <2>0. n \in Nat /\ 1 <= n /\ n <= Len(s)
    BY <1>5
  <2>1. 1..n \subseteq 1..Len(s) /\ 1 \in 1..n
    BY <2>0, <1>5
  <2>2. Max(1..n) = n /\ (1..n) \ {n} = 1..(n-1)
    BY <2>0, MaxOfInterval
  <2>3. it0[1..n] = Note(it0[1..(n-1)], s[n])
    <3> HIDE DEF it0
    <3> QED BY <1>6, <2>1, <2>2, 1..n # {}, 1..n \in SUBSET (1..Len(s))
  <2> HIDE DEF it0
  <2> QED BY <2>3, <1>5
<1>9. Replay(b, s) = a[Len(s)]
  <2> HIDE DEF it0
  <2> QED BY <1>1, <1>5
<1> HIDE DEF a
<1> QED BY <1>7, <1>8, <1>9

(* Nothing is noted of no entries.                                           *)
LEMMA ReplayEmpty == \A b : Replay(b, <<>>) = b
<1> SUFFICES ASSUME NEW b PROVE Replay(b, <<>>) = b
  OBVIOUS
<1>1. <<>> \in Seq(HubEntries) /\ Len(<<>>) = 0
  OBVIOUS
<1> QED BY <1>1, ReplayFold, ZenonT(30)

(* The last entry is noted last.                                             *)
LEMMA ReplayAppend ==
  ASSUME NEW b, NEW s \in Seq(HubEntries), NEW e \in HubEntries
  PROVE  Replay(b, s \o <<e>>) = Note(Replay(b, s), e)
<1> DEFINE t == s \o <<e>>
<1>1. /\ t \in Seq(HubEntries) /\ Len(t) = Len(s) + 1 /\ t[Len(t)] = e /\ Len(s) \in Nat
      /\ \A i \in 1..Len(s) : t[i] = s[i]
  OBVIOUS
<1> HIDE DEF t
<1>2. PICK x : /\ x[0] = b
               /\ \A n \in 1..Len(s) : x[n] = Note(x[n-1], s[n])
               /\ Replay(b, s) = x[Len(s)]
  BY ReplayFold
<1>3. PICK y : /\ y[0] = b
               /\ \A n \in 1..Len(t) : y[n] = Note(y[n-1], t[n])
               /\ Replay(b, t) = y[Len(t)]
  <2>1. t \in Seq(HubEntries)
    BY <1>1
  <2> QED BY <2>1, ReplayFold
<1> DEFINE S == {n \in Nat : n <= Len(s) => x[n] = y[n]}
<1>4. 0 \in S
  BY <1>2, <1>3
<1>5. ASSUME NEW n \in Nat, n \in S PROVE n + 1 \in S
  <2> SUFFICES ASSUME n + 1 <= Len(s) PROVE x[n + 1] = y[n + 1]
    OBVIOUS
  <2>1. n + 1 \in 1..Len(s) /\ n + 1 \in 1..Len(t) /\ n <= Len(s) /\ (n + 1) - 1 = n
    BY <1>1
  <2>2. x[n + 1] = Note(x[n], s[n + 1]) /\ y[n + 1] = Note(y[n], t[n + 1])
    BY <1>2, <1>3, <2>1
  <2> QED BY <1>1, <1>5, <2>1, <2>2
<1>6. Nat \subseteq S
  <2> HIDE DEF S
  <2> QED BY <1>4, <1>5, SetInduction
<1>7. x[Len(s)] = y[Len(s)]
  BY <1>1, <1>6
<1>8. Len(t) \in 1..Len(t) /\ Len(t) - 1 = Len(s)
  BY <1>1
<1>9. Replay(b, t) = Note(y[Len(s)], e)
  BY <1>1, <1>3, <1>8
<1> QED BY <1>2, <1>7, <1>9 DEF t

(* A relation that every entry keeps is kept by a replay.                     *)
LEMMA ReplaySimulates ==
  ASSUME NEW Rel, NEW b, NEW c, <<b, c>> \in Rel, NEW s \in Seq(HubEntries),
         \A x, y : \A e \in HubEntries :
           <<x, y>> \in Rel => <<Note(x, e), Note(y, e)>> \in Rel
  PROVE  <<Replay(b, s), Replay(c, s)>> \in Rel
<1>1. PICK x : /\ x[0] = b
               /\ \A n \in 1..Len(s) : x[n] = Note(x[n-1], s[n])
               /\ Replay(b, s) = x[Len(s)]
  BY ReplayFold
<1>2. PICK y : /\ y[0] = c
               /\ \A n \in 1..Len(s) : y[n] = Note(y[n-1], s[n])
               /\ Replay(c, s) = y[Len(s)]
  BY ReplayFold
<1> DEFINE S == {n \in Nat : n <= Len(s) => <<x[n], y[n]>> \in Rel}
<1>3. 0 \in S
  BY <1>1, <1>2
<1>4. ASSUME NEW n \in Nat, n \in S PROVE n + 1 \in S
  <2> SUFFICES ASSUME n + 1 <= Len(s) PROVE <<x[n + 1], y[n + 1]>> \in Rel
    OBVIOUS
  <2>1. n + 1 \in 1..Len(s) /\ n <= Len(s) /\ (n + 1) - 1 = n /\ s[n + 1] \in HubEntries
    OBVIOUS
  <2>2. x[n + 1] = Note(x[n], s[n + 1]) /\ y[n + 1] = Note(y[n], s[n + 1])
    BY <1>1, <1>2, <2>1
  <2> QED BY <1>4, <2>1, <2>2
<1>5. Nat \subseteq S
  <2> HIDE DEF S
  <2> QED BY <1>3, <1>4, SetInduction
<1> QED BY <1>1, <1>2, <1>5, Len(s) \in Nat

-----------------------------------------------------------------------------
(* What one entry, and a replay, make of the facts.                          *)

LEMMA FactsFields ==
  ASSUME NEW b \in Facts
  PROVE  /\ b.sent \in SUBSET Ids /\ b.done \in SUBSET Ids /\ b.anchor \in Heads
         /\ b.unsent \in SUBSET Ids /\ b.rebased \in BOOLEAN
         /\ b.fork \in BOOLEAN /\ b.index \in SUBSET LogEntries /\ b.unknown \in SUBSET Ids
         /\ b.judged \in SUBSET Ids /\ b.unjudged \in SUBSET Ids
         /\ b.err \in {"none", "failed", "fork"}
BY DEF Facts

LEMMA HubEntryFields ==
  ASSUME NEW e \in HubEntries
  PROVE  /\ e.action \in {"sent", "done", "unsent", "match", "fork", "anchor", "rebase", "log"}
         /\ e.action \in {"sent", "done", "unsent"} => e.id \in Ids
         /\ e.action = "match" => e.matched \in SUBSET LogEntries
         /\ e.action \in {"anchor", "rebase"} => e.head \in Heads
         /\ e.action = "rebase" => e.before \in SUBSET Ids
         /\ e.action = "log" => e.facts \in Facts /\ e.facts.judged = {} /\ e.facts.unknown = {}
BY DEF HubEntries, Logs

RebasedFrom(b, head, before, c) ==
  /\ c \in Facts
  /\ c.sent = b.sent /\ c.done = b.done
  /\ c.anchor = head /\ c.fork = FALSE /\ c.index = {} /\ c.unknown = {} /\ c.judged = {}
  /\ c.unjudged = IF head.count > 0 THEN before ELSE {}

LEMMA RebasedFields ==
  ASSUME NEW b \in Facts, NEW head \in Heads, NEW before \in SUBSET Ids
  PROVE  RebasedFrom(b, head, before, Rebased(b, head, before))
<1> DEFINE U == IF head.count > 0 THEN before ELSE {}
<1>1. U \in SUBSET Ids
  OBVIOUS
<1> HIDE DEF U
<1>2. LET c == [b EXCEPT !.anchor = head, !.fork = FALSE, !.index = {}, !.unknown = {},
                         !.judged = {}, !.unjudged = U, !.rebased = TRUE]
      IN  /\ c \in Facts
          /\ c.sent = b.sent /\ c.done = b.done
          /\ c.anchor = head /\ c.fork = FALSE /\ c.index = {} /\ c.unknown = {}
          /\ c.judged = {} /\ c.unjudged = U
  BY <1>1 DEF Facts
<1> QED BY <1>2 DEF Rebased, RebasedFrom, U

(* What an entry changes, and that it changes nothing else.                  *)
NotedFrom(b, e, c) ==
  /\ c \in Facts
  /\ c.sent = CASE e.action = "sent" -> b.sent \cup {e.id}
                [] e.action = "log" -> e.facts.sent
                [] OTHER -> b.sent
  /\ c.done = CASE e.action = "done" -> b.done \cup {e.id}
                [] e.action = "log" -> e.facts.done
                [] OTHER -> b.done
  /\ c.anchor = CASE e.action \in {"anchor", "rebase"} -> e.head
                  [] e.action = "log" -> e.facts.anchor
                  [] OTHER -> b.anchor
  /\ c.fork = CASE e.action = "fork" -> TRUE
                [] e.action = "rebase" -> FALSE
                [] e.action = "log" -> (e.facts.fork \/ (b.fork /\ ~ e.facts.rebased))
                [] OTHER -> b.fork
  /\ c.index = CASE e.action = "match" -> b.index \cup {x \in e.matched : x.id \in b.sent}
                 [] e.action = "rebase" -> {}
                 [] e.action = "log" -> e.facts.index
                 [] OTHER -> b.index
  /\ c.unknown = IF e.action \in {"rebase", "log"} THEN {} ELSE b.unknown
  /\ c.judged = CASE e.action = "rebase" -> {}
                  [] e.action = "log" -> IF e.facts.rebased THEN {} ELSE b.judged
                  [] OTHER -> b.judged
  /\ c.unjudged = CASE e.action = "rebase" -> IF e.head.count > 0 THEN e.before ELSE {}
                    [] e.action = "log" -> e.facts.unjudged
                    [] OTHER -> b.unjudged

LEMMA NoteFields ==
  ASSUME NEW b \in Facts, NEW e \in HubEntries
  PROVE  NotedFrom(b, e, Note(b, e))
<1>1. /\ e.action \in {"sent", "done", "unsent", "match", "fork", "anchor", "rebase", "log"}
      /\ e.action \in {"sent", "done", "unsent"} => e.id \in Ids
      /\ e.action = "match" => e.matched \in SUBSET LogEntries
      /\ e.action \in {"anchor", "rebase"} => e.head \in Heads
      /\ e.action = "rebase" => e.before \in SUBSET Ids
      /\ e.action = "log" => e.facts \in Facts /\ e.facts.judged = {} /\ e.facts.unknown = {}
  BY HubEntryFields
<1>2. CASE e.action = "sent"
  <2>1. Note(b, e) = [b EXCEPT !.sent = @ \cup {e.id}]
    BY <1>2 DEF Note
  <2> QED BY <1>1, <1>2, <2>1 DEF Facts, NotedFrom
<1>3. CASE e.action = "done"
  <2>1. Note(b, e) = [b EXCEPT !.done = @ \cup {e.id}]
    BY <1>3 DEF Note
  <2> QED BY <1>1, <1>3, <2>1 DEF Facts, NotedFrom
<1>4. CASE e.action = "match"
  <2>1. Note(b, e) = [b EXCEPT !.index = @ \cup {x \in e.matched : x.id \in b.sent}]
    BY <1>4 DEF Note
  <2>2. b.index \cup {x \in e.matched : x.id \in b.sent} \in SUBSET LogEntries
    BY <1>1, <1>4, FactsFields
  <2> QED BY <1>1, <1>4, <2>1, <2>2 DEF Facts, NotedFrom
<1>5. CASE e.action = "fork"
  <2>1. Note(b, e) = [b EXCEPT !.fork = TRUE]
    BY <1>5 DEF Note
  <2> QED BY <1>1, <1>5, <2>1 DEF Facts, NotedFrom
<1>6. CASE e.action = "anchor"
  <2>1. Note(b, e) = [b EXCEPT !.anchor = e.head]
    BY <1>6 DEF Note
  <2> QED BY <1>1, <1>6, <2>1 DEF Facts, NotedFrom
<1>7. CASE e.action = "rebase"
  <2>1. Note(b, e) = Rebased(b, e.head, e.before)
    BY <1>7 DEF Note
  <2>2. RebasedFrom(b, e.head, e.before, Note(b, e))
    BY <1>1, <1>7, <2>1, RebasedFields
  <2> QED BY <1>7, <2>2 DEF RebasedFrom, NotedFrom
<1>8. CASE e.action = "unsent"
  <2>1. Note(b, e) = [b EXCEPT !.unsent = @ \cup {e.id}]
    BY <1>8 DEF Note
  <2> QED BY <1>1, <1>8, <2>1 DEF Facts, NotedFrom
<1>9. CASE e.action = "log"
  <2> DEFINE f == e.facts
             k == f.fork \/ (b.fork /\ ~ f.rebased)
             j == IF f.rebased THEN {} ELSE b.judged
  <2>1. f \in Facts /\ f.unknown = {}
    BY <1>1, <1>9
  <2>2. Note(b, e) = [f EXCEPT !.fork = k, !.judged = j, !.err = b.err]
    BY <1>9 DEF Note, Resumed
  <2>3. k \in BOOLEAN /\ j \in SUBSET Ids /\ b.err \in {"none", "failed", "fork"}
    BY FactsFields
  <2> DEFINE c == Note(b, e)
  <2> HIDE DEF k, j, f
  <2>4. /\ c \in Facts /\ c.sent = f.sent /\ c.done = f.done /\ c.anchor = f.anchor
        /\ c.fork = k /\ c.index = f.index /\ c.unknown = {} /\ c.judged = j
        /\ c.unjudged = f.unjudged
    BY <2>1, <2>2, <2>3 DEF Facts
  <2> HIDE DEF c
  <2>5. NotedFrom(b, e, c)
    BY <1>9, <2>4 DEF NotedFrom, f, k, j
  <2> QED BY <2>5 DEF c
<1> QED BY <1>1, <1>2, <1>3, <1>4, <1>5, <1>6, <1>7, <1>8, <1>9

LEMMA ReplayOne ==
  ASSUME NEW b, NEW e \in HubEntries
  PROVE  Replay(b, <<e>>) = Note(b, e)
<1>1. <<>> \in Seq(HubEntries) /\ <<>> \o <<e>> = <<e>>
  OBVIOUS
<1> QED BY <1>1, ReplayAppend, ReplayEmpty

(* What is sent and done does not depend on the rest.                         *)
LEMMA ReplayKeepsRelayed ==
  ASSUME NEW b \in Facts, NEW c \in Facts, c.sent = b.sent, c.done = b.done,
         NEW s \in Seq(HubEntries)
  PROVE  /\ Replay(c, s) \in Facts
         /\ Replay(c, s).sent = Replay(b, s).sent
         /\ Replay(c, s).done = Replay(b, s).done
<1> DEFINE Rel == {p \in Facts \X Facts : p[1].sent = p[2].sent /\ p[1].done = p[2].done}
<1>1. <<b, c>> \in Rel
  OBVIOUS
<1>2. ASSUME NEW x, NEW y, NEW e \in HubEntries, <<x, y>> \in Rel
      PROVE  <<Note(x, e), Note(y, e)>> \in Rel
  <2>1. x \in Facts /\ y \in Facts /\ x.sent = y.sent /\ x.done = y.done
    BY <1>2
  <2> DEFINE v == Note(x, e)
             w == Note(y, e)
  <2>0. NotedFrom(x, e, v) /\ NotedFrom(y, e, w)
    BY <2>1, NoteFields
  <2> HIDE DEF v, w
  <2>2. v \in Facts /\ w \in Facts
    BY <2>0 DEF NotedFrom
  <2>3. v.sent = w.sent
    BY <2>0, <2>1 DEF NotedFrom
  <2>4. v.done = w.done
    BY <2>0, <2>1 DEF NotedFrom
  <2>5. <<v, w>> \in Rel
    BY <2>2, <2>3, <2>4
  <2> QED BY <2>5 DEF v, w
<1>3. <<Replay(b, s), Replay(c, s)>> \in Rel
  <2> HIDE DEF Rel
  <2> QED BY <1>1, <1>2, ReplaySimulates
<1> QED BY <1>3

(* A replay reads no more than what was sent and done: facts that agree on    *)
(* these differ in no more after it than they did before, and if one has more *)
(* matches, it keeps no others.                                              *)
LEMMA ReplayKeepsFacts ==
  ASSUME NEW b \in Facts, NEW c \in Facts, NEW s \in Seq(HubEntries),
         c.sent = b.sent, c.done = b.done, b.index \subseteq c.index, c.unjudged = b.unjudged
  PROVE  LET x == Replay(b, s)
             y == Replay(c, s)
         IN  /\ y \in Facts
             /\ y.sent = x.sent /\ y.done = x.done /\ y.unjudged = x.unjudged
             /\ x.index \subseteq y.index /\ y.index \subseteq x.index \cup c.index
             /\ c.index = b.index => y.index = x.index
             /\ c.anchor = b.anchor => y.anchor = x.anchor
             /\ c.fork = b.fork => y.fork = x.fork
             /\ y.unknown \subseteq c.unknown
             /\ c.unknown \subseteq b.unknown => y.unknown \subseteq x.unknown
             /\ y.judged \subseteq c.judged
             /\ c.judged \subseteq b.judged => y.judged \subseteq x.judged
<1> DEFINE Alike(x, y) == /\ y.sent = x.sent /\ y.done = x.done /\ y.unjudged = x.unjudged
                          /\ x.index \subseteq y.index /\ y.index \subseteq x.index \cup c.index
                          /\ c.index = b.index => y.index = x.index
                          /\ c.anchor = b.anchor => y.anchor = x.anchor
                          /\ c.fork = b.fork => y.fork = x.fork
                          /\ y.unknown \subseteq c.unknown
                          /\ c.unknown \subseteq b.unknown => y.unknown \subseteq x.unknown
                          /\ y.judged \subseteq c.judged
                          /\ c.judged \subseteq b.judged => y.judged \subseteq x.judged
           Rel == {p \in Facts \X Facts : Alike(p[1], p[2])}
<1>1. <<b, c>> \in Rel
  OBVIOUS
<1>2. ASSUME NEW x, NEW y, NEW e \in HubEntries, <<x, y>> \in Rel
      PROVE  <<Note(x, e), Note(y, e)>> \in Rel
  <2>1. x \in Facts /\ y \in Facts /\ Alike(x, y)
    BY <1>2
  <2> DEFINE v == Note(x, e)
             w == Note(y, e)
  <2>0. NotedFrom(x, e, v) /\ NotedFrom(y, e, w)
    BY <2>1, NoteFields
  <2> HIDE DEF v, w
  <2>2. v \in Facts /\ w \in Facts
    BY <2>0 DEF NotedFrom
  <2>3. w.sent = v.sent /\ w.done = v.done
    BY <2>0, <2>1 DEF NotedFrom
  <2>4. c.anchor = b.anchor => w.anchor = v.anchor
    BY <2>0, <2>1 DEF NotedFrom
  <2>5. v.index \subseteq w.index /\ w.index \subseteq v.index \cup c.index
    BY <2>0, <2>1 DEF NotedFrom
  <2>6. c.index = b.index => w.index = v.index
    BY <2>0, <2>1 DEF NotedFrom
  <2>7. w.unjudged = v.unjudged
    BY <2>0, <2>1 DEF NotedFrom
  <2>8. c.fork = b.fork => w.fork = v.fork
    BY <2>0, <2>1 DEF NotedFrom
  <2>9. /\ w.unknown \subseteq c.unknown
        /\ c.unknown \subseteq b.unknown => w.unknown \subseteq v.unknown
    BY <2>0, <2>1 DEF NotedFrom
  <2>10. /\ w.judged \subseteq c.judged
         /\ c.judged \subseteq b.judged => w.judged \subseteq v.judged
    BY <2>0, <2>1 DEF NotedFrom
  <2>11. Alike(v, w)
    BY <2>3, <2>4, <2>5, <2>6, <2>7, <2>8, <2>9, <2>10
  <2>12. <<v, w>> \in Rel
    <3> HIDE DEF Alike
    <3> QED BY <2>2, <2>11
  <2> HIDE DEF Rel
  <2> QED BY <2>12 DEF v, w
<1>3. <<Replay(b, s), Replay(c, s)>> \in Rel
  <2> HIDE DEF Rel
  <2> QED BY <1>1, <1>2, ReplaySimulates
<1> QED BY <1>3

(* In particular the facts that do not differ before it do not differ after.  *)
LEMMA ReplayIsAlike ==
  ASSUME NEW b \in Facts, NEW c \in Facts, NEW s \in Seq(HubEntries),
         c.sent = b.sent, c.done = b.done, c.anchor = b.anchor,
         c.unjudged = b.unjudged, c.index = b.index, c.fork = b.fork
  PROVE  LET x == Replay(b, s)
             y == Replay(c, s)
         IN  /\ y \in Facts /\ y.sent = x.sent /\ y.done = x.done
             /\ y.anchor = x.anchor /\ y.unjudged = x.unjudged /\ y.fork = x.fork
             /\ y.index = x.index
             /\ y.unknown \subseteq c.unknown /\ y.judged \subseteq c.judged
<1>1. b.index \subseteq c.index
  OBVIOUS
<1> DEFINE x == Replay(b, s)
           y == Replay(c, s)
<1>2. /\ y \in Facts /\ y.sent = x.sent /\ y.done = x.done /\ y.unjudged = x.unjudged
      /\ c.index = b.index => y.index = x.index
      /\ c.anchor = b.anchor => y.anchor = x.anchor
      /\ c.fork = b.fork => y.fork = x.fork
      /\ y.unknown \subseteq c.unknown /\ y.judged \subseteq c.judged
  BY <1>1, ReplayKeepsFacts
<1> HIDE DEF x, y
<1> QED BY <1>2 DEF x, y

-----------------------------------------------------------------------------
(* Pulls, answers and pages.                                                 *)

LEMMA PullFields ==
  ASSUME NEW p \in Pulls
  PROVE  /\ p.st \in {"none", "asked", "answered"}
         /\ p.anchor \in Heads /\ p.tip \in Heads /\ p.pages \in 0..MaxPages
         /\ p.fresh \in SUBSET LogEntries /\ p.settled \in SUBSET Ids /\ p.answer \in Answers
         /\ p.answer.kind \in {"none", "failed", "fork", "page"}
         /\ p.answer.entries \in Seq(LogEntries) /\ p.answer.more \in BOOLEAN
BY DEF Pulls, Answers

LEMMA HeadFields ==
  ASSUME NEW head \in Heads
  PROVE  head.hash \in 0..MaxEntries /\ head.count \in 0..MaxEntries
BY DEF Heads

LEMMA GenesisHead == Genesis \in Heads /\ Genesis.hash = 0 /\ Genesis.count = 0
BY ReconcileConstants DEF Genesis, Heads

LEMMA NoAnswerFields ==
  ASSUME NEW k \in {"none", "failed", "fork", "page"}
  PROVE  LET a == [NoAnswer EXCEPT !.kind = k]
         IN  a \in Answers /\ a.kind = k /\ a.entries = <<>> /\ a.more = FALSE
<1>1. <<>> \in Seq(LogEntries)
  OBVIOUS
<1> QED BY <1>1 DEF NoAnswer, Answers

LEMMA NoPullFields ==
  /\ NoPull \in Pulls
  /\ NoPull.st = "none" /\ NoPull.anchor = Genesis /\ NoPull.tip = Genesis
  /\ NoPull.pages = 0 /\ NoPull.fresh = {} /\ NoPull.settled = {}
  /\ NoPull.answer.kind = "none" /\ NoPull.answer.entries = <<>>
<1>1. <<>> \in Seq(LogEntries)
  OBVIOUS
<1>2. NoAnswer \in Answers
  BY <1>1 DEF NoAnswer, Answers
<1>3. 0 \in 0..MaxPages
  BY ReconcileConstants
<1> QED BY <1>2, <1>3, GenesisHead DEF NoPull, Pulls, NoAnswer

LEMMA HeadReadFields ==
  ASSUME TypeInv, NEW i \in DOMAIN headRead
  PROVE  i = 1 /\ headRead[i].head \in Heads /\ headRead[i].stale \in BOOLEAN
<1> DEFINE S == [head : Heads, stale : BOOLEAN]
<1>1. headRead \in Seq(S) /\ Len(headRead) <= 1
  BY DEF TypeInv
<1>2. headRead[i] \in S /\ i = 1
  <2> HIDE DEF S
  <2> QED BY <1>1
<1> QED BY <1>2

(* A page moves the tip on by its entries, and brings those via the hub.      *)
LEMMA PageFacts ==
  ASSUME TypeInv, PullInv
  PROVE  /\ PageTip \in Heads /\ PageFresh \in SUBSET LogEntries
         /\ pull.tip.count <= PageTip.count
         /\ pull.fresh \subseteq PageFresh
         /\ PageFresh # {} => pull.anchor.count < PageTip.count
         /\ PageTip.count = pull.tip.count + Len(pull.answer.entries)
         /\ pull.answer.entries = <<>> => PageTip = pull.tip /\ PageFresh = pull.fresh
         /\ \A i \in 1..Len(pull.answer.entries) :
              pull.answer.entries[i].id # Local => pull.answer.entries[i] \in PageFresh
<1> DEFINE en == pull.answer.entries
<1>1. /\ en \in Seq(LogEntries) /\ pull.tip \in Heads /\ pull.anchor \in Heads
      /\ pull.fresh \in SUBSET LogEntries
  BY PullFields DEF TypeInv
<1>2. pull.tip.count \in Nat /\ pull.anchor.count \in Nat
  BY <1>1, HeadFields, ReconcileConstants
<1>3. /\ PageTip.count <= MaxEntries /\ pull.anchor.count <= pull.tip.count
      /\ pull.fresh # {} => pull.anchor.count < pull.tip.count
  BY DEF PullInv
<1>4. PageFresh = pull.fresh \cup {e \in Range(en) : e.id # Local}
  BY DEF PageFresh
<1> HIDE DEF en
<1>5. Len(en) \in Nat /\ DOMAIN en = 1..Len(en) /\ \A i \in 1..Len(en) : en[i] \in LogEntries
  BY <1>1
<1>6. /\ PageFresh \in SUBSET LogEntries /\ pull.fresh \subseteq PageFresh
      /\ \A i \in 1..Len(en) : en[i].id # Local => en[i] \in PageFresh
  BY <1>1, <1>4, <1>5 DEF Range
<1>7. CASE en = <<>>
  <2>1. PageTip = pull.tip
    BY <1>7 DEF PageTip, en
  <2>2. Range(en) = {}
    BY <1>7 DEF Range
  <2>3. Len(en) = 0
    BY <1>7
  <2> QED BY <1>1, <1>2, <1>3, <1>4, <1>6, <2>1, <2>2, <2>3 DEF en
<1>8. CASE en # <<>>
  <2>1. Len(en) > 0 /\ Last(en) = en[Len(en)] /\ Len(en) \in 1..Len(en)
    BY <1>1, <1>5, <1>8 DEF Last
  <2>2. PageTip = [hash |-> Last(en).h, count |-> pull.tip.count + Len(en)]
    BY <1>8 DEF PageTip, en
  <2>3. Last(en).h \in 0..MaxEntries
    BY <1>5, <2>1 DEF LogEntries
  <2>4. PageTip.count = pull.tip.count + Len(en) /\ PageTip.hash = Last(en).h
    BY <2>2
  <2>5. PageTip.count \in 0..MaxEntries
    BY <1>2, <1>3, <1>5, <2>4, ReconcileConstants
  <2>6. PageTip \in Heads
    BY <2>2, <2>3, <2>4, <2>5 DEF Heads
  <2>7. pull.tip.count <= PageTip.count /\ pull.anchor.count < PageTip.count
    BY <1>2, <1>3, <1>5, <2>1, <2>4
  <2> QED BY <1>6, <1>8, <2>4, <2>6, <2>7 DEF en
<1> QED BY <1>7, <1>8

LEMMA EndFacts ==
  ASSUME TypeInv, PullInv
  PROVE  /\ EndTip \in Heads /\ EndFresh \in SUBSET LogEntries
         /\ EndErr \in {"none", "failed", "fork"}
         /\ EndTip.hash <= written
         /\ \A e \in EndFresh : e.id \in recorded
<1>1. pull.tip \in Heads /\ pull.fresh \in SUBSET LogEntries
  BY PullFields DEF TypeInv
<1>2. PageTip \in Heads /\ PageFresh \in SUBSET LogEntries /\ pull.fresh \subseteq PageFresh
  BY PageFacts
<1>3. mem.err \in {"none", "failed", "fork"}
  BY FactsFields DEF TypeInv
<1>4. pull.tip.hash <= written /\ PageTip.hash <= written /\ \A e \in PageFresh : e.id \in recorded
  BY DEF PullInv
<1> QED BY <1>1, <1>2, <1>3, <1>4 DEF EndTip, EndFresh, EndErr

(* The builder answers with the entries after the tip, as many as fit.        *)
LEMMA SegmentFacts ==
  ASSUME TypeInv, NEW tip \in Heads
  PROVE  LET a == Segment(tip)
         IN  /\ a \in Answers /\ a.kind \in {"fork", "page"}
             /\ a.kind = "fork" <=> ~ OnLog(tip)
             /\ a.kind # "page" => a.entries = <<>>
             /\ a.kind = "page" =>
                  /\ tip.count + Len(a.entries) <= Len(blog)
                  /\ \A i \in 1..Len(a.entries) : a.entries[i] = blog[tip.count + i]
                  /\ ~ a.more => tip.count + Len(a.entries) = Len(blog)
<1>1. CASE ~ OnLog(tip)
  BY <1>1, NoAnswerFields DEF Segment
<1>2. CASE OnLog(tip)
  <2> DEFINE last == IF tip.count + PageSize < Len(blog) THEN tip.count + PageSize ELSE Len(blog)
             en == SubSeq(blog, tip.count + 1, last)
  <2>1. blog \in Seq(LogEntries) /\ tip.count \in Nat /\ tip.count <= Len(blog)
    BY <1>2, HeadFields, ReconcileConstants DEF TypeInv, OnLog
  <2>2. last \in Nat /\ tip.count <= last /\ last <= Len(blog)
    BY <2>1, ReconcileConstants
  <2>3. (~ (last < Len(blog))) => last = Len(blog)
    BY <2>1, <2>2
  <2> HIDE DEF last
  <2>4. /\ en \in Seq(LogEntries) /\ Len(en) = last - tip.count
        /\ \A i \in 1..Len(en) : en[i] = blog[tip.count + i]
    <3>1. \A i \in (tip.count + 1)..last : blog[i] \in LogEntries
      BY <2>1, <2>2
    <3>2. Len(en) = last - tip.count
      BY <2>1, <2>2, SubSeqProperties
    <3>3. en \in Seq(LogEntries)
      BY <2>1, <2>2, SubSeqProperties
    <3>4. ASSUME NEW i \in 1..Len(en) PROVE en[i] = blog[tip.count + i]
      BY <2>1, <2>2, <3>2, SubSeqProperties, SMTT(30)
    <3> QED BY <3>2, <3>3, <3>4
  <2>5. Segment(tip) = [kind |-> "page", entries |-> en, more |-> last < Len(blog)]
    BY <1>2 DEF Segment, last
  <2> HIDE DEF en
  <2>6. (last < Len(blog)) \in BOOLEAN
    OBVIOUS
  <2> DEFINE a == Segment(tip)
  <2>7. a.kind = "page" /\ a.entries = en /\ a.more = (last < Len(blog))
    BY <2>5
  <2>8. a \in Answers
    BY <2>4, <2>5, <2>6 DEF Answers
  <2>9. tip.count + Len(en) = last
    BY <2>1, <2>2, <2>4
  <2> HIDE DEF a
  <2> QED BY <1>2, <2>2, <2>3, <2>4, <2>7, <2>8, <2>9 DEF a
<1> QED BY <1>1, <1>2

-----------------------------------------------------------------------------
(* What is safe whatever the operator does: one lemma per step.               *)

LEMMA ScannedSame ==
  ASSUME mem' = mem, tail' = tail
  PROVE  Scanned' = Scanned
BY DEF Scanned

LEMMA ScannedAppend ==
  ASSUME TypeInv, NEW e \in HubEntries, mem' = mem, tail' = tail \o <<e>>
  PROVE  Scanned' = Note(Scanned, e) /\ tail' \in Seq(HubEntries)
<1>1. tail \in Seq(HubEntries)
  BY DEF TypeInv
<1>2. Scanned' = Note(Scanned, e)
  BY <1>1, ReplayAppend DEF Scanned
<1>3. <<e>> \in Seq(HubEntries)
  OBVIOUS
<1> QED BY <1>1, <1>2, <1>3

(* A pull that is over, or has not read anything.                            *)
LEMMA PullStarts ==
  ASSUME pull' \in Pulls, pull'.fresh = {}, pull'.answer.entries = <<>>
  PROVE  PageTip' = pull'.tip /\ PageFresh' = {}
<1>1. Range(<<>>) = {}
  BY DEF Range
<1> QED BY <1>1 DEF PageTip, PageFresh

LEMMA PullEnds ==
  ASSUME TypeInv, LogInv, PullInv, pull' = NoPull, written' = written,
         recorded \subseteq recorded',
         mem'.anchor.hash <= written, durable'.anchor.hash <= written,
         \A i \in DOMAIN headRead' : headRead'[i].head.hash <= written
  PROVE  PullInv'
<1>1. written \in Nat
  BY ReconcileConstants DEF TypeInv
<1>2. PageTip' = Genesis /\ PageFresh' = {}
  BY NoPullFields, PullStarts
<1>3. 0 <= written /\ 0 <= MaxEntries
  BY <1>1, ReconcileConstants
<1> QED BY <1>1, <1>2, <1>3, NoPullFields, GenesisHead DEF PullInv

(* The pull is left alone.                                                   *)
LEMMA PullSame ==
  ASSUME TypeInv, LogInv, PullInv, pull' = pull, written <= written', written' \in Nat,
         Settled \subseteq Settled', recorded \subseteq recorded',
         mem'.anchor.hash <= written', durable'.anchor.hash <= written',
         \A i \in DOMAIN headRead' : headRead'[i].head \in Heads /\ headRead'[i].head.hash <= written'
  PROVE  PullInv'
<1>1. PageTip' = PageTip /\ PageFresh' = PageFresh
  BY DEF PageTip, PageFresh
<1>2. written \in Nat /\ pull.tip.hash \in Nat /\ PageTip.hash \in Nat
  <2>1. pull.tip \in Heads /\ PageTip \in Heads
    BY PullFields, PageFacts DEF TypeInv
  <2> QED BY <2>1, HeadFields, ReconcileConstants DEF TypeInv
<1>3. pull.tip.hash <= written' /\ PageTip.hash <= written'
  BY <1>2 DEF PullInv
<1> QED BY <1>1, <1>3 DEF PullInv

LEMMA InitSafe == Init => SafeInv
<1> SUFFICES ASSUME Init PROVE SafeInv
  OBVIOUS
<1>1. Scanned = Fresh
  BY ReplayEmpty DEF Init, Scanned
<1>2. Fresh \in Facts
  BY GenesisHead DEF Fresh, Facts
<1>3. PageTip = Genesis /\ PageFresh = {}
  <2>1. Range(<<>>) = {}
    BY DEF Range
  <2> QED BY <2>1, NoPullFields DEF Init, PageTip, PageFresh
<1>4. TypeInv
  <2>1. <<>> \in Seq(LogEntries) /\ <<>> \in Seq(HubEntries)
        /\ <<>> \in Seq([head : Heads, stale : BOOLEAN]) /\ Len(<<>>) <= 1
    OBVIOUS
  <2>2. 0 \in 0..MaxEntries /\ 0 \in 0..MaxFaults
    BY ReconcileConstants
  <2>3. Fresh.judged = {}
    BY DEF Fresh
  <2>4. blog = <<>> /\ tail = <<>> /\ headRead = <<>> /\ mem = Fresh /\ durable = Fresh
        /\ written = 0 /\ recorded = {} /\ givenUp = {} /\ pull = NoPull
        /\ rewritten = FALSE /\ blind = FALSE /\ faults = 0
    BY DEF Init
  <2> QED BY <1>1, <1>2, <2>1, <2>2, <2>3, <2>4, NoPullFields DEF TypeInv
<1>5. LogInv
  BY DEF Init, LogInv, Fresh
<1>6. ReplayInv
  BY <1>1 DEF Init, ReplayInv, Fresh
<1>7. PullInv
  <2>1. 0 <= MaxEntries
    BY ReconcileConstants
  <2> QED BY <1>3, <2>1, NoPullFields, GenesisHead DEF Init, PullInv, Fresh
<1> QED BY <1>4, <1>5, <1>6, <1>7 DEF SafeInv

LEMMA BuilderAppendsSafe ==
  ASSUME SafeInv, NEW id \in Ids \cup {Local}, BuilderAppends(id)
  PROVE  SafeInv'
<1> USE DEF SafeInv
<1> DEFINE e == [h |-> written + 1, id |-> id]
<1>1. /\ written < MaxEntries /\ blog' = Append(blog, e) /\ written' = written + 1
      /\ recorded' = recorded \cup ({id} \ {Local})
      /\ id # Local => id \in durable.sent
      /\ durable' = durable /\ tail' = tail /\ mem' = mem /\ pull' = pull
      /\ headRead' = headRead /\ rewritten' = rewritten /\ faults' = faults
      /\ givenUp' = givenUp /\ blind' = blind
  BY DEF BuilderAppends, hubVars, observers
<1>2. Scanned' = Scanned
  BY <1>1, ScannedSame
<1>3. written \in Nat /\ written' \in 0..MaxEntries /\ written <= written' /\ written' \in Nat
  BY <1>1, ReconcileConstants DEF TypeInv
<1>4. e \in LogEntries
  BY <1>1, <1>3, ReconcileConstants DEF LogEntries
<1>5. blog \in Seq(LogEntries)
  BY DEF TypeInv
<1>6. /\ blog' \in Seq(LogEntries) /\ Len(blog') = Len(blog) + 1 /\ Len(blog) \in Nat
      /\ \A i \in 1..Len(blog) : blog'[i] = blog[i]
      /\ blog'[Len(blog) + 1] = e
  BY <1>1, <1>4, <1>5
<1>7. recorded' \in SUBSET Ids
  BY <1>1 DEF TypeInv
<1>8. TypeInv'
  BY <1>1, <1>2, <1>3, <1>6, <1>7 DEF TypeInv
<1>9. LogInv'
  <2>1. Len(blog') <= written'
    BY <1>1, <1>3, <1>6 DEF LogInv
  <2>2. ASSUME NEW i \in DOMAIN blog'
        PROVE  blog'[i].h <= written' /\ blog'[i].id \in recorded' \cup {Local}
    <3>1. CASE i \in 1..Len(blog)
      <4>1. blog[i] \in LogEntries /\ blog'[i] = blog[i] /\ i \in DOMAIN blog
        BY <1>5, <1>6, <3>1
      <4>2. blog[i].h \in Nat /\ blog[i].h <= written /\ blog[i].id \in recorded \cup {Local}
        BY <4>1, ReconcileConstants DEF LogInv, LogEntries
      <4> QED BY <1>1, <1>3, <4>1, <4>2
    <3>2. CASE i = Len(blog) + 1
      <4>1. blog'[i].h = written + 1 /\ blog'[i].id = id
        BY <1>6, <3>2
      <4> QED BY <1>1, <1>3, <4>1
    <3>3. i \in 1..(Len(blog) + 1)
      BY <1>6
    <3> QED BY <1>6, <3>1, <3>2, <3>3
  <2>3. recorded' \subseteq durable'.sent /\ durable'.done \cap givenUp' = {}
    BY <1>1 DEF LogInv
  <2> QED BY <2>1, <2>2, <2>3 DEF LogInv
<1>10. ReplayInv'
  BY <1>1, <1>2 DEF ReplayInv, NothingRead, Settled
<1>11. PullInv'
  <2>1. mem'.anchor \in Heads /\ durable'.anchor \in Heads /\ Settled' = Settled
    BY <1>1, FactsFields DEF TypeInv, Settled
  <2>2. mem.anchor.hash <= written' /\ durable.anchor.hash <= written'
    BY <1>1, <1>3, <2>1, HeadFields, ReconcileConstants DEF PullInv
  <2>3. ASSUME NEW i \in DOMAIN headRead
        PROVE  headRead[i].head \in Heads /\ headRead[i].head.hash <= written'
    <3>2. headRead[i].head \in Heads /\ headRead[i].head.hash <= written
      BY HeadReadFields DEF PullInv
    <3> QED BY <1>3, <3>2, HeadFields, ReconcileConstants
  <2> QED BY <1>1, <1>3, <2>1, <2>2, <2>3, PullSame
<1> QED BY <1>8, <1>9, <1>10, <1>11

LEMMA BuilderRewritesSafe ==
  ASSUME SafeInv, BuilderRewrites
  PROVE  SafeInv'
<1> USE DEF SafeInv
<1>1. /\ faults < MaxFaults /\ faults' = faults + 1 /\ rewritten' = TRUE
      /\ headRead' = [i \in DOMAIN headRead |-> [headRead[i] EXCEPT !.stale = TRUE]]
      /\ written' = written /\ recorded' = recorded /\ durable' = durable /\ tail' = tail
      /\ mem' = mem /\ pull' = pull /\ givenUp' = givenUp /\ blind' = blind
  BY DEF BuilderRewrites
<1>2. PICK n \in 0..(Len(blog) - 1) : blog' = SubSeq(blog, 1, n)
  BY DEF BuilderRewrites
<1>3. Scanned' = Scanned
  BY <1>1, ScannedSame
<1>4. /\ blog' \in Seq(LogEntries) /\ Len(blog') = n /\ n \in Nat /\ n <= Len(blog)
      /\ \A i \in 1..n : i \in DOMAIN blog /\ blog'[i] = blog[i]
  <2>1. blog \in Seq(LogEntries)
    BY DEF TypeInv
  <2>2. n \in Nat /\ n <= Len(blog) /\ Len(blog) \in Nat
    BY <1>2, <2>1
  <2>3. \A i \in 1..n : blog[i] \in LogEntries
    BY <2>1, <2>2
  <2> QED BY <1>2, <2>1, <2>2, <2>3, SubSeqProperties
<1>5. headRead' \in Seq([head : Heads, stale : BOOLEAN]) /\ Len(headRead') <= 1
      /\ \A i \in DOMAIN headRead' : i \in DOMAIN headRead /\ headRead'[i].head = headRead[i].head
  <2> DEFINE S == [head : Heads, stale : BOOLEAN]
  <2>1. headRead \in Seq(S) /\ Len(headRead) \in Nat /\ Len(headRead) <= 1
    BY DEF TypeInv
  <2>2. \A i \in DOMAIN headRead : headRead[i] \in S
    <3> HIDE DEF S
    <3> QED BY <2>1
  <2>3. \A i \in DOMAIN headRead : headRead'[i] \in S /\ headRead'[i].head = headRead[i].head
    BY <1>1, <2>2
  <2>4. DOMAIN headRead = 1..Len(headRead) /\ DOMAIN headRead' = DOMAIN headRead
    BY <1>1, <2>1
  <2>5. headRead' \in [1..Len(headRead) -> S]
    <3> HIDE DEF S
    <3> QED BY <1>1, <2>3, <2>4
  <2> HIDE DEF S
  <2>6. headRead' \in Seq(S)
    BY <2>1, <2>5
  <2>7. Len(headRead') = Len(headRead)
    BY <2>1, <2>4, <2>6
  <2> QED BY <2>1, <2>3, <2>4, <2>6, <2>7 DEF S
<1>6. TypeInv'
  <2>1. faults' \in 0..MaxFaults
    BY <1>1, ReconcileConstants DEF TypeInv
  <2> QED BY <1>1, <1>3, <1>4, <1>5, <2>1 DEF TypeInv
<1>7. LogInv'
  <2>1. written \in Nat /\ Len(blog) \in Nat /\ Len(blog) <= written
    BY ReconcileConstants DEF TypeInv, LogInv
  <2>2. DOMAIN blog' = 1..n
    BY <1>4
  <2> QED BY <1>1, <1>4, <2>1, <2>2 DEF LogInv
<1>8. ReplayInv'
  BY <1>1, <1>3 DEF ReplayInv, NothingRead, Settled
<1>9. PullInv'
  <2>1. PageTip' = PageTip /\ PageFresh' = PageFresh
    BY <1>1 DEF PageTip, PageFresh
  <2> QED BY <1>1, <1>5, <2>1 DEF PullInv, Settled
<1> QED BY <1>6, <1>7, <1>8, <1>9

(* What was not read is still not read when more is logged.                   *)
LEMMA NothingReadStays ==
  ASSUME NEW u \in Seq(HubEntries), NEW v \in Seq(HubEntries), u # <<>>, u[1].action = "log",
         tail' = u \o v
  PROVE  NothingRead'
<1>1. u \o v # <<>> /\ (u \o v)[1] = u[1]
  OBVIOUS
<1> QED BY <1>1 DEF NothingRead

LEMMA RelayLogsSafe ==
  ASSUME SafeInv, NEW id \in Ids, NEW action \in {"sent", "done", "unsent"},
         RelayLogs(action, id)
  PROVE  SafeInv'
<1> USE DEF SafeInv
<1> DEFINE e == [action |-> action, id |-> id]
<1>1. e \in HubEntries /\ e.action = action /\ e.id = id
  BY DEF HubEntries
<1> HIDE DEF e
<1>2. /\ action = "done" => id \notin givenUp
      /\ durable' = Replay(durable, <<e>>) /\ tail' = tail \o <<e>> /\ mem' = mem
      /\ blog' = blog /\ written' = written /\ recorded' = recorded /\ pull' = pull
      /\ headRead' = headRead /\ rewritten' = rewritten /\ faults' = faults
      /\ givenUp' = givenUp /\ blind' = blind
  BY DEF RelayLogs, Logged, InFlight, builderVars, observers, e
<1>3. durable' = Note(durable, e)
  BY <1>1, <1>2, ReplayOne
<1>4. Scanned' = Note(Scanned, e) /\ tail' \in Seq(HubEntries)
  BY <1>1, <1>2, ScannedAppend
<1>5. NotedFrom(durable, e, durable') /\ NotedFrom(Scanned, e, Scanned')
  BY <1>1, <1>3, <1>4, NoteFields DEF TypeInv
<1>6. e.action \notin {"match", "fork", "anchor", "rebase", "log"}
  BY <1>1
<1>7. /\ durable' \in Facts /\ Scanned' \in Facts
      /\ durable'.judged = durable.judged
      /\ durable.sent \subseteq durable'.sent /\ durable.done \subseteq durable'.done
      /\ durable'.done \cap givenUp \subseteq durable.done
  BY <1>1, <1>2, <1>5, <1>6 DEF NotedFrom
<1>8. TypeInv'
  BY <1>2, <1>4, <1>7 DEF TypeInv
<1>9. LogInv'
  BY <1>2, <1>7 DEF LogInv
<1>10. durable'.anchor = durable.anchor /\ Scanned'.anchor = Scanned.anchor
  BY <1>5, <1>6 DEF NotedFrom
<1>11. Settled \subseteq Settled'
  BY <1>2, <1>7 DEF Settled
<1>12. ReplayInv'
  <2>1. Scanned'.sent = durable'.sent
    BY <1>5, <1>6 DEF NotedFrom, ReplayInv
  <2>2. NothingRead => NothingRead'
    <3>1. <<e>> \in Seq(HubEntries) /\ tail \in Seq(HubEntries)
      BY <1>1 DEF TypeInv
    <3> QED BY <1>2, <3>1, NothingReadStays DEF NothingRead
  <2>4. durable'.unjudged = durable.unjudged /\ Scanned'.unjudged = Scanned.unjudged
    BY <1>5, <1>6 DEF NotedFrom
  <2>5. durable'.index = durable.index /\ Scanned'.index = Scanned.index
    BY <1>5, <1>6 DEF NotedFrom
  <2>6. durable'.unknown = durable.unknown /\ Scanned'.unknown = Scanned.unknown
    BY <1>5, <1>6 DEF NotedFrom
  <2>7. Scanned'.judged = Scanned.judged
    BY <1>5, <1>6 DEF NotedFrom
  <2> QED BY <1>2, <1>7, <1>10, <1>11, <2>1, <2>2, <2>4, <2>5, <2>6, <2>7 DEF ReplayInv
<1>13. PullInv'
  <2>1. PageTip' = PageTip /\ PageFresh' = PageFresh
    BY <1>2 DEF PageTip, PageFresh
  <2> QED BY <1>2, <1>10, <1>11, <2>1 DEF PullInv
<1> QED BY <1>8, <1>9, <1>12, <1>13

LEMMA RelayGivesUpSafe ==
  ASSUME SafeInv, NEW id \in Ids, RelayGivesUp(id)
  PROVE  SafeInv'
<1> USE DEF SafeInv
<1>1. /\ id \notin durable.done /\ givenUp' = givenUp \cup {id}
      /\ durable' = durable /\ tail' = tail /\ mem' = mem
      /\ blog' = blog /\ written' = written /\ recorded' = recorded /\ pull' = pull
      /\ headRead' = headRead /\ rewritten' = rewritten /\ faults' = faults /\ blind' = blind
  BY DEF RelayGivesUp, InFlight, hubVars, observers
<1>2. Scanned' = Scanned
  BY <1>1, ScannedSame
<1>3. Settled \subseteq Settled'
  BY <1>1 DEF Settled
<1>4. TypeInv'
  BY <1>1, <1>2 DEF TypeInv
<1>5. LogInv'
  BY <1>1 DEF LogInv
<1>6. ReplayInv'
  BY <1>1, <1>2, <1>3 DEF ReplayInv, NothingRead
<1>7. PullInv'
  <2>1. PageTip' = PageTip /\ PageFresh' = PageFresh
    BY <1>1 DEF PageTip, PageFresh
  <2> QED BY <1>1, <1>3, <2>1 DEF PullInv
<1> QED BY <1>4, <1>5, <1>6, <1>7

(* After a scan, whether it could read the log or not, the hub holds nothing  *)
(* that the next one would not give it, and no fewer matches than before.     *)
LEMMA AfterFacts ==
  ASSUME SafeInv, NEW ok \in BOOLEAN
  PROVE  LET b == After(ok)
             u == Unread(ok)
         IN  /\ b \in Facts /\ u \in Seq(HubEntries) /\ Replay(b, u) = Scanned
             /\ b.sent \subseteq durable.sent
             /\ b.unjudged \subseteq durable.unjudged /\ mem.unjudged \subseteq b.unjudged
             /\ b.index \subseteq Scanned.index /\ mem.index \subseteq b.index
             /\ b.unknown \subseteq mem.unknown /\ Scanned.unknown \subseteq b.unknown
             /\ b.judged \subseteq mem.judged /\ Scanned.judged \subseteq b.judged
             /\ b.anchor \in {mem.anchor, durable.anchor}
             /\ b.fork \in {mem.fork, Scanned.fork}
             /\ (u # <<>> /\ u[1].action = "log") \/ b.anchor = durable.anchor
<1> USE DEF SafeInv
<1>1. CASE ok
  <2>1. After(ok) = Scanned /\ Unread(ok) = <<>> /\ <<>> \in Seq(HubEntries)
    BY <1>1 DEF After, Unread
  <2>2. Replay(Scanned, <<>>) = Scanned
    BY ReplayEmpty
  <2> QED BY <2>1, <2>2 DEF TypeInv, ReplayInv
<1>2. CASE ~ ok
  <2>1. After(ok) = mem /\ Unread(ok) = tail /\ Replay(mem, tail) = Scanned
    BY <1>2 DEF After, Unread, Scanned
  <2> QED BY <2>1 DEF TypeInv, ReplayInv, NothingRead
<1> QED BY <1>1, <1>2

LEMMA TickSafe ==
  ASSUME SafeInv, Tick
  PROVE  SafeInv'
<1> USE DEF SafeInv
<1>1. PICK ok \in BOOLEAN : ScanEnds(ok) /\ mem' = After(ok) /\ tail' = Unread(ok)
  BY DEF Tick
<1>2. /\ blog' = blog /\ written' = written /\ recorded' = recorded /\ givenUp' = givenUp
      /\ durable' = durable /\ headRead' = headRead /\ rewritten' = rewritten /\ blind' = blind
  BY DEF Tick, builderVars, observers
<1>3. /\ mem' \in Facts /\ tail' \in Seq(HubEntries) /\ Scanned' = Scanned
      /\ mem'.sent \subseteq durable.sent
      /\ mem'.unjudged \subseteq durable.unjudged
      /\ mem'.index \subseteq Scanned.index
      /\ mem'.unknown \subseteq mem.unknown /\ Scanned.unknown \subseteq mem'.unknown
      /\ mem'.judged \subseteq mem.judged /\ Scanned.judged \subseteq mem'.judged
      /\ mem'.anchor \in {mem.anchor, durable.anchor}
      /\ NothingRead' \/ mem'.anchor = durable.anchor
  BY <1>1, AfterFacts DEF Scanned, NothingRead
<1>4. faults' \in 0..MaxFaults
  BY <1>1, ReconcileConstants DEF ScanEnds, TypeInv
<1>5. Settled' = Settled /\ Settled \in SUBSET Ids
  BY <1>2, FactsFields DEF Settled, TypeInv
<1>6. mem'.anchor \in Heads /\ mem'.anchor.hash <= written
  BY <1>3, FactsFields DEF PullInv
<1>7. LogInv'
  BY <1>2 DEF LogInv
<1>8. ReplayInv'
  BY <1>2, <1>3, <1>5 DEF ReplayInv
<1>9. CASE pull.st # "none"
  <2>1. pull' = pull
    BY <1>9 DEF Tick
  <2>2. PageTip' = PageTip /\ PageFresh' = PageFresh
    BY <2>1 DEF PageTip, PageFresh
  <2>3. PullInv'
    BY <1>2, <1>5, <1>6, <2>1, <2>2 DEF PullInv
  <2>4. TypeInv'
    BY <1>2, <1>3, <1>4, <2>1 DEF TypeInv
  <2> QED BY <1>7, <1>8, <2>3, <2>4
<1>10. CASE pull.st = "none"
  <2>1. pull' = [NoPull EXCEPT !.st = "asked", !.anchor = mem'.anchor, !.tip = mem'.anchor,
                               !.pages = 1, !.settled = Settled]
    BY <1>10 DEF Tick
  <2>2. 1 \in 0..MaxPages
    BY ReconcileConstants
  <2>3. pull' \in Pulls
    BY <1>5, <1>6, <2>1, <2>2, NoPullFields DEF Pulls
  <2>4. /\ pull'.st = "asked" /\ pull'.anchor = mem'.anchor /\ pull'.tip = mem'.anchor
        /\ pull'.fresh = {} /\ pull'.settled = Settled
        /\ pull'.answer.kind = "none" /\ pull'.answer.entries = <<>>
    BY <2>1, NoPullFields DEF Pulls
  <2>5. PageTip' = mem'.anchor /\ PageFresh' = {}
    BY <2>3, <2>4, PullStarts
  <2>6. mem'.anchor.count \in 0..MaxEntries
    BY <1>6, HeadFields
  <2>7. mem'.anchor.count <= MaxEntries /\ mem'.anchor.count <= mem'.anchor.count
    BY <2>6, ReconcileConstants
  <2>8. PullInv'
    BY <1>2, <1>5, <1>6, <2>4, <2>5, <2>7 DEF PullInv
  <2>9. TypeInv'
    BY <1>2, <1>3, <1>4, <2>3 DEF TypeInv
  <2> QED BY <1>7, <1>8, <2>8, <2>9
<1> QED BY <1>9, <1>10

(* An answer is a page of what follows the tip, or brings no entries.         *)
LEMMA AnsweredSafe ==
  ASSUME SafeInv, NEW a \in Answers, Answered(a), a.kind # "none",
         a.kind # "page" => a.entries = <<>>,
         a.kind = "page" =>
           /\ pull.tip.count + Len(a.entries) <= Len(blog)
           /\ \A i \in 1..Len(a.entries) : a.entries[i] = blog[pull.tip.count + i]
  PROVE  SafeInv'
<1> USE DEF SafeInv
<1>1. /\ pull.st = "asked" /\ pull' = [pull EXCEPT !.st = "answered", !.answer = a]
      /\ blog' = blog /\ written' = written /\ recorded' = recorded /\ durable' = durable
      /\ tail' = tail /\ mem' = mem /\ givenUp' = givenUp /\ blind' = blind
      /\ headRead' = headRead /\ rewritten' = rewritten /\ faults' = faults
  BY DEF Answered, builderVars, observers
<1>2. Scanned' = Scanned
  BY <1>1, ScannedSame
<1>3. pull \in Pulls /\ pull.tip \in Heads /\ pull.fresh \in SUBSET LogEntries
  BY PullFields DEF TypeInv
<1>4. /\ pull' \in Pulls /\ pull'.st = "answered" /\ pull'.answer = a
      /\ pull'.anchor = pull.anchor /\ pull'.tip = pull.tip /\ pull'.fresh = pull.fresh
      /\ pull'.settled = pull.settled
  BY <1>1, <1>3 DEF Pulls
<1>5. /\ a.entries \in Seq(LogEntries) /\ Len(a.entries) \in Nat
      /\ DOMAIN a.entries = 1..Len(a.entries)
  BY DEF Answers
<1>6. ASSUME NEW i \in 1..Len(a.entries)
      PROVE  /\ a.entries[i].h <= written
             /\ a.entries[i].id # Local => a.entries[i].id \in recorded
             /\ pull.tip.count + Len(a.entries) <= Len(blog)
  <2>1. a.kind = "page"
    BY <1>5
  <2>2. pull.tip.count \in Nat /\ Len(blog) \in Nat /\ blog \in Seq(LogEntries)
    BY <1>3, HeadFields, ReconcileConstants DEF TypeInv
  <2>3. pull.tip.count + i \in DOMAIN blog
    BY <1>5, <2>1, <2>2
  <2> QED BY <2>1, <2>3 DEF LogInv
<1>7. PageTip'.hash <= written /\ PageTip'.count <= MaxEntries
  <2>1. CASE a.entries = <<>>
    <3>1. PageTip' = pull.tip
      BY <1>4, <2>1 DEF PageTip
    <3>2. pull.tip.count <= MaxEntries
      BY <1>3, HeadFields, ReconcileConstants
    <3> QED BY <3>1, <3>2 DEF PullInv
  <2>2. CASE a.entries # <<>>
    <3>1. Len(a.entries) \in 1..Len(a.entries) /\ Last(a.entries) = a.entries[Len(a.entries)]
      BY <1>5, <2>2 DEF Last
    <3>2. PageTip' = [hash |-> Last(a.entries).h, count |-> pull.tip.count + Len(a.entries)]
      BY <1>4, <2>2 DEF PageTip
    <3>3. Len(blog) <= written /\ written <= MaxEntries /\ Len(blog) \in Nat /\ written \in Nat
      BY ReconcileConstants DEF LogInv, TypeInv
    <3>4. pull.tip.count + Len(a.entries) <= Len(blog) /\ pull.tip.count \in Nat
      BY <1>3, <1>6, <3>1, HeadFields, ReconcileConstants
    <3>5. pull.tip.count + Len(a.entries) <= MaxEntries
      BY <1>5, <3>3, <3>4, ReconcileConstants
    <3> QED BY <1>6, <3>1, <3>2, <3>5
  <2> QED BY <2>1, <2>2
<1>8. \A x \in PageFresh' : x.id \in recorded
  <2>1. PageFresh' = pull.fresh \cup {x \in Range(a.entries) : x.id # Local}
    BY <1>4 DEF PageFresh
  <2>2. \A x \in pull.fresh : x.id \in recorded
    BY DEF PullInv, PageFresh
  <2>3. \A x \in Range(a.entries) : x.id # Local => x.id \in recorded
    BY <1>5, <1>6 DEF Range
  <2> QED BY <2>1, <2>2, <2>3
<1>9. TypeInv'
  BY <1>1, <1>2, <1>4 DEF TypeInv
<1>10. LogInv'
  BY <1>1 DEF LogInv
<1>11. ReplayInv'
  BY <1>1, <1>2 DEF ReplayInv, NothingRead, Settled
<1>12. PullInv'
  BY <1>1, <1>4, <1>7, <1>8 DEF PullInv, Settled
<1> QED BY <1>9, <1>10, <1>11, <1>12

LEMMA BuilderAnswersSafe ==
  ASSUME SafeInv, BuilderAnswers
  PROVE  SafeInv'
<1> DEFINE a == Segment(pull.tip)
<1>1. TypeInv /\ pull.tip \in Heads /\ Answered(a)
  BY PullFields DEF SafeInv, TypeInv, BuilderAnswers
<1>2. /\ a \in Answers /\ a.kind # "none"
      /\ a.kind # "page" => a.entries = <<>>
      /\ a.kind = "page" =>
           /\ pull.tip.count + Len(a.entries) <= Len(blog)
           /\ \A i \in 1..Len(a.entries) : a.entries[i] = blog[pull.tip.count + i]
  BY <1>1, SegmentFacts
<1> HIDE DEF a
<1> QED BY <1>1, <1>2, AnsweredSafe

LEMMA ReadFailsSafe ==
  ASSUME SafeInv, ReadFails
  PROVE  SafeInv'
<1> DEFINE a == [NoAnswer EXCEPT !.kind = "failed"]
<1>1. a \in Answers /\ a.kind = "failed" /\ a.entries = <<>>
  BY NoAnswerFields
<1>2. Answered(a)
  BY DEF ReadFails
<1> HIDE DEF a
<1> QED BY <1>1, <1>2, AnsweredSafe

LEMMA AskNextPageSafe ==
  ASSUME SafeInv, AskNextPage
  PROVE  SafeInv'
<1> USE DEF SafeInv
<1>1. /\ pull.st = "answered" /\ pull.pages < MaxPages
      /\ pull' = [pull EXCEPT !.st = "asked", !.tip = PageTip, !.fresh = PageFresh,
                              !.pages = @ + 1, !.answer = NoAnswer]
      /\ blog' = blog /\ written' = written /\ recorded' = recorded /\ durable' = durable
      /\ tail' = tail /\ mem' = mem /\ givenUp' = givenUp /\ blind' = blind
      /\ headRead' = headRead /\ rewritten' = rewritten /\ faults' = faults
  BY DEF AskNextPage, GoesOn, builderVars, observers
<1>2. Scanned' = Scanned
  BY <1>1, ScannedSame
<1>3. pull \in Pulls /\ pull.pages \in Nat /\ pull.pages + 1 \in 0..MaxPages
  BY <1>1, PullFields, ReconcileConstants DEF TypeInv
<1>4. NoAnswer \in Answers /\ NoAnswer.kind = "none" /\ NoAnswer.entries = <<>>
  BY NoPullFields, PullFields DEF NoPull
<1>5. /\ PageTip \in Heads /\ PageFresh \in SUBSET LogEntries
      /\ pull.tip.count <= PageTip.count
      /\ PageFresh # {} => pull.anchor.count < PageTip.count
  BY PageFacts
<1>6. /\ pull' \in Pulls /\ pull'.st = "asked" /\ pull'.tip = PageTip /\ pull'.fresh = PageFresh
      /\ pull'.answer = NoAnswer /\ pull'.anchor = pull.anchor /\ pull'.settled = pull.settled
  BY <1>1, <1>3, <1>4, <1>5 DEF Pulls
<1>7. PageTip' = PageTip /\ PageFresh' = PageFresh
  <2>1. Range(<<>>) = {}
    BY DEF Range
  <2>2. PageTip' = pull'.tip
    BY <1>4, <1>6 DEF PageTip
  <2>3. PageFresh' = pull'.fresh \cup {e \in Range(<<>>) : e.id # Local}
    BY <1>4, <1>6 DEF PageFresh
  <2> QED BY <1>6, <2>1, <2>2, <2>3
<1>8. pull.anchor.count <= PageTip.count
  <2>1. pull.anchor \in Heads /\ pull.tip \in Heads
    BY <1>3, PullFields
  <2>2. pull.anchor.count <= pull.tip.count
    BY DEF PullInv
  <2> QED BY <1>5, <2>1, <2>2, HeadFields, ReconcileConstants
<1>9. TypeInv'
  BY <1>1, <1>2, <1>6 DEF TypeInv
<1>10. LogInv'
  BY <1>1 DEF LogInv
<1>11. ReplayInv'
  BY <1>1, <1>2 DEF ReplayInv, NothingRead, Settled
<1>12. PullInv'
  BY <1>1, <1>4, <1>5, <1>6, <1>7, <1>8 DEF PullInv, Settled
<1> QED BY <1>9, <1>10, <1>11, <1>12

-----------------------------------------------------------------------------
(* How a pull ends.                                                          *)

(* Facts that differ in the index only, by the matches that b finds.          *)
WithMatches(b, f, c) ==
  /\ c \in Facts
  /\ c.sent = f.sent /\ c.done = f.done /\ c.anchor = f.anchor /\ c.fork = f.fork
  /\ c.unknown = f.unknown /\ c.judged = f.judged /\ c.unjudged = f.unjudged
  /\ c.index = f.index \cup Matched(b)

(* The match entry brings b's matches to all that know what b knows was sent, *)
(* and is noted after those before it.                                       *)
LEMMA MatchIsNoted ==
  ASSUME SafeInv, NEW b \in Facts, NEW f \in Facts, b.sent \subseteq f.sent,
         NEW g, NEW u \in Seq(HubEntries)
  PROVE  /\ MatchEntry(b) \in Seq(HubEntries)
         /\ Matched(b) \in SUBSET LogEntries
         /\ WithMatches(b, f, Replay(f, MatchEntry(b)))
         /\ Replay(g, u \o MatchEntry(b)) = Replay(Replay(g, u), MatchEntry(b))
<1> USE DEF SafeInv
<1> DEFINE M == Matched(b)
           m == [action |-> "match", matched |-> M]
<1>1. EndFresh \in SUBSET LogEntries
  BY EndFacts
<1>2. M \in SUBSET LogEntries /\ \A e \in M : e.id \in f.sent
  BY <1>1 DEF Matched
<1>3. CASE M = {}
  <2>1. MatchEntry(b) = <<>> /\ <<>> \in Seq(HubEntries) /\ u \o <<>> = u
    BY <1>3 DEF MatchEntry
  <2>2. Replay(f, MatchEntry(b)) = f
    BY <2>1, ReplayEmpty
  <2>3. Replay(g, u \o MatchEntry(b)) = Replay(Replay(g, u), MatchEntry(b))
    BY <2>1, ReplayEmpty
  <2> HIDE DEF M
  <2> QED BY <1>2, <1>3, <2>1, <2>2, <2>3 DEF WithMatches, M
<1>4. CASE M # {}
  <2>1. MatchEntry(b) = <<m>>
    BY <1>4 DEF MatchEntry
  <2> HIDE DEF M
  <2>2. m \in HubEntries /\ m.action = "match" /\ m.matched = M
    BY <1>2 DEF HubEntries
  <2> HIDE DEF m
  <2>3. <<m>> \in Seq(HubEntries)
    BY <2>2
  <2>4. Replay(f, <<m>>) = Note(f, m)
    BY <2>2, ReplayOne
  <2> DEFINE c == Note(f, m)
  <2>5. NotedFrom(f, m, c)
    BY <2>2, NoteFields
  <2> HIDE DEF c
  <2>6. {x \in m.matched : x.id \in f.sent} = M
    BY <1>2, <2>2
  <2>7. c.index = f.index \cup M
    BY <2>2, <2>5, <2>6 DEF NotedFrom
  <2>8. /\ c \in Facts /\ c.sent = f.sent /\ c.done = f.done /\ c.anchor = f.anchor
        /\ c.fork = f.fork /\ c.unknown = f.unknown /\ c.judged = f.judged
        /\ c.unjudged = f.unjudged
    BY <2>2, <2>5 DEF NotedFrom
  <2>9. WithMatches(b, f, c)
    BY <2>7, <2>8 DEF WithMatches, M
  <2>10. Replay(g, u \o <<m>>) = Replay(Replay(g, u), <<m>>)
    BY <2>2, ReplayAppend, ReplayOne
  <2> QED BY <1>2, <2>1, <2>3, <2>4, <2>9, <2>10 DEF c, M
<1> QED BY <1>3, <1>4

LEMMA NothingUnknown ==
  ASSUME SafeInv
  PROVE  Unknown(Scanned, TRUE) = {}
<1>1. \A e \in EndFresh : e.id \in Scanned.sent
  BY EndFacts DEF SafeInv, LogInv, ReplayInv
<1> QED BY <1>1 DEF Unknown

(* Facts that differ in what is judged and in error only.                     *)
LEMMA JudgeFields ==
  ASSUME SafeInv, NEW b \in Facts
  PROVE  LET c == Judge(b)
         IN  /\ c \in Facts
             /\ c.sent = b.sent /\ c.done = b.done /\ c.anchor = b.anchor /\ c.fork = b.fork
             /\ c.index = b.index /\ c.unknown = b.unknown /\ c.unjudged = b.unjudged
             /\ c.judged = IF Complete THEN pull.settled ELSE b.judged
<1>1. EndErr \in {"none", "failed", "fork"}
  BY EndFacts DEF SafeInv
<1>2. pull.settled \in SUBSET Ids
  BY PullFields DEF SafeInv, TypeInv
<1>3. CASE Complete
  <2>1. Judge(b) = [b EXCEPT !.judged = pull.settled, !.err = EndErr]
    BY <1>3 DEF Judge
  <2> QED BY <1>1, <1>2, <1>3, <2>1 DEF Facts
<1>4. CASE ~ Complete
  <2>1. Judge(b) = [b EXCEPT !.err = EndErr]
    BY <1>4 DEF Judge
  <2> QED BY <1>1, <1>4, <2>1 DEF Facts
<1> QED BY <1>3, <1>4

LEMMA RaiseForkFields ==
  ASSUME SafeInv, RaiseFork
  PROVE  /\ mem' \in Facts /\ Scanned' \in Facts /\ durable' \in Facts
         /\ tail' \in Seq(HubEntries) /\ mem'.sent = mem.sent
         /\ NothingRead => NothingRead'
         /\ mem'.anchor = mem.anchor /\ mem'.unjudged = mem.unjudged /\ mem'.index = mem.index
         /\ mem'.unknown = mem.unknown /\ mem'.judged = mem.judged
         /\ durable'.sent = durable.sent /\ durable'.done = durable.done
         /\ durable'.anchor = durable.anchor /\ durable'.unjudged = durable.unjudged
         /\ durable'.index = durable.index /\ durable'.unknown = durable.unknown
         /\ durable'.judged = durable.judged
         /\ Scanned'.sent = Scanned.sent /\ Scanned'.done = Scanned.done
         /\ Scanned'.anchor = Scanned.anchor /\ Scanned'.unjudged = Scanned.unjudged
         /\ Scanned'.index = Scanned.index /\ Scanned'.unknown \subseteq Scanned.unknown
         /\ Scanned'.judged \subseteq Scanned.judged
<1> USE DEF SafeInv
<1> DEFINE e == [action |-> "fork"]
           x == Replay(mem', tail)
<1>1. mem' = [mem EXCEPT !.fork = TRUE, !.err = "fork"]
  BY DEF RaiseFork
<1>2. mem \in Facts /\ durable \in Facts /\ tail \in Seq(HubEntries)
  BY DEF TypeInv
<1>3. /\ mem' \in Facts /\ mem'.sent = mem.sent /\ mem'.done = mem.done
      /\ mem'.anchor = mem.anchor /\ mem'.unjudged = mem.unjudged /\ mem'.index = mem.index
      /\ mem'.unknown = mem.unknown /\ mem'.judged = mem.judged
  BY <1>1, <1>2 DEF Facts
<1>4. /\ x \in Facts /\ x.sent = Scanned.sent /\ x.done = Scanned.done
      /\ x.anchor = Scanned.anchor /\ x.index = Scanned.index
      /\ x.unknown \subseteq Scanned.unknown
      /\ x.unjudged = Scanned.unjudged /\ x.judged \subseteq Scanned.judged
  BY <1>2, <1>3, ReplayKeepsFacts DEF Scanned
<1> HIDE DEF x
<1>5. CASE durable' = durable /\ tail' = tail
  <2>1. Scanned' = x
    BY <1>5 DEF Scanned, x
  <2>2. NothingRead' = NothingRead
    BY <1>5 DEF NothingRead
  <2> QED BY <1>2, <1>3, <1>4, <1>5, <2>1, <2>2
<1>6. CASE Logged(tail, <<e>>)
  <2>1. e \in HubEntries /\ e.action = "fork"
    BY DEF HubEntries
  <2> HIDE DEF e
  <2>2. durable' = Note(durable, e)
    BY <1>6, <2>1, ReplayOne DEF Logged
  <2>3. tail' = tail \o <<e>>
    BY <1>6 DEF Logged
  <2>4. Scanned' = Note(x, e)
    BY <1>2, <2>1, <2>3, ReplayAppend DEF Scanned, x
  <2>5. <<e>> \in Seq(HubEntries)
    BY <2>1
  <2>6. tail' \in Seq(HubEntries)
    BY <1>2, <2>3, <2>5
  <2>7. NotedFrom(durable, e, durable') /\ NotedFrom(x, e, Scanned')
    BY <1>2, <1>4, <2>1, <2>2, <2>4, NoteFields
  <2>8. /\ durable' \in Facts /\ durable'.sent = durable.sent /\ durable'.done = durable.done
        /\ durable'.anchor = durable.anchor /\ durable'.unjudged = durable.unjudged
        /\ durable'.index = durable.index /\ durable'.unknown = durable.unknown
        /\ durable'.judged = durable.judged
    BY <2>1, <2>7 DEF NotedFrom
  <2>9. /\ Scanned' \in Facts /\ Scanned'.sent = x.sent /\ Scanned'.done = x.done
        /\ Scanned'.anchor = x.anchor /\ Scanned'.unjudged = x.unjudged
        /\ Scanned'.index = x.index /\ Scanned'.unknown = x.unknown
        /\ Scanned'.judged = x.judged
    BY <2>1, <2>7 DEF NotedFrom
  <2>10. NothingRead => NothingRead'
    BY <1>2, <2>3, <2>5, NothingReadStays DEF NothingRead
  <2> QED BY <1>3, <1>4, <2>6, <2>8, <2>9, <2>10
<1> QED BY <1>5, <1>6 DEF RaiseFork

LEMMA EndWithoutAnchorFields ==
  ASSUME SafeInv, EndWithoutAnchor
  PROVE  /\ durable' = durable /\ tail' = tail
         /\ mem' \in Facts /\ Scanned' \in Facts /\ mem'.sent = mem.sent
         /\ mem'.anchor = mem.anchor /\ mem'.unjudged = mem.unjudged /\ mem'.index = mem.index
         /\ mem'.unknown = mem.unknown /\ mem'.fork = mem.fork
         /\ Scanned'.sent = Scanned.sent /\ Scanned'.done = Scanned.done
         /\ Scanned'.anchor = Scanned.anchor /\ Scanned'.unjudged = Scanned.unjudged
         /\ Scanned'.index = Scanned.index /\ Scanned'.unknown \subseteq Scanned.unknown
         /\ Scanned'.fork = Scanned.fork /\ Scanned'.judged \subseteq mem'.judged
         /\ \/ mem'.judged = mem.judged /\ Scanned'.judged \subseteq Scanned.judged
            \/ EndErr # "fork" /\ Complete /\ mem'.judged = pull.settled
<1> USE DEF SafeInv
<1>1. durable' = durable /\ tail' = tail /\ mem' = IF EndErr = "fork" THEN mem ELSE Judge(mem)
  BY DEF EndWithoutAnchor
<1>2. mem \in Facts /\ tail \in Seq(HubEntries)
  BY DEF TypeInv
<1>3. /\ mem' \in Facts /\ mem'.sent = mem.sent /\ mem'.done = mem.done
      /\ mem'.anchor = mem.anchor /\ mem'.unjudged = mem.unjudged /\ mem'.index = mem.index
      /\ mem'.unknown = mem.unknown /\ mem'.fork = mem.fork
      /\ \/ mem'.judged = mem.judged
         \/ EndErr # "fork" /\ Complete /\ mem'.judged = pull.settled
  <2>1. CASE EndErr = "fork"
    BY <1>1, <1>2, <2>1
  <2>2. CASE EndErr # "fork"
    <3> DEFINE c == Judge(mem)
    <3>1. /\ c \in Facts
          /\ c.sent = mem.sent /\ c.done = mem.done /\ c.anchor = mem.anchor
          /\ c.fork = mem.fork /\ c.index = mem.index /\ c.unknown = mem.unknown
          /\ c.unjudged = mem.unjudged
          /\ c.judged = IF Complete THEN pull.settled ELSE mem.judged
      BY <1>2, JudgeFields
    <3>2. mem' = c
      BY <1>1, <2>2
    <3> HIDE DEF c
    <3> QED BY <2>2, <3>1, <3>2
  <2> QED BY <2>1, <2>2
<1>4. Scanned' = Replay(mem', tail)
  BY <1>1 DEF Scanned
<1> DEFINE y == Replay(mem', tail)
<1>5. /\ y \in Facts /\ y.sent = Scanned.sent /\ y.done = Scanned.done
      /\ y.anchor = Scanned.anchor /\ y.index = Scanned.index
      /\ y.unknown \subseteq Scanned.unknown
      /\ y.unjudged = Scanned.unjudged /\ y.fork = Scanned.fork
      /\ y.judged \subseteq mem'.judged
      /\ mem'.judged \subseteq mem.judged => y.judged \subseteq Scanned.judged
  BY <1>2, <1>3, ReplayKeepsFacts DEF Scanned
<1> HIDE DEF y
<1> QED BY <1>1, <1>3, <1>4, <1>5 DEF y

LEMMA EndWithAnchorFields ==
  ASSUME SafeInv, NEW ok \in BOOLEAN, mem' = Indexed(After(ok), ok),
         Logged(Unread(ok), MatchEntry(After(ok)) \o <<[action |-> "anchor", head |-> EndTip]>>)
  PROVE  LET b == After(ok)
         IN  /\ mem' \in Facts /\ Scanned' \in Facts /\ durable' \in Facts
             /\ tail' \in Seq(HubEntries)
             /\ mem'.sent = b.sent /\ mem'.anchor = EndTip /\ mem'.unjudged = b.unjudged
             /\ mem'.index = b.index \cup Matched(b)
             /\ mem'.unknown = b.unknown \cup Unknown(b, ok) /\ mem'.fork = b.fork
             /\ mem'.judged = IF Complete THEN pull.settled ELSE b.judged
             /\ durable'.sent = durable.sent /\ durable'.done = durable.done
             /\ durable'.anchor = EndTip /\ durable'.unjudged = durable.unjudged
             /\ durable'.index = durable.index \cup Matched(b)
             /\ durable'.unknown = durable.unknown /\ durable'.judged = durable.judged
             /\ durable'.fork = durable.fork
             /\ Scanned'.sent = Scanned.sent /\ Scanned'.done = Scanned.done
             /\ Scanned'.anchor = EndTip /\ Scanned'.unjudged = Scanned.unjudged
             /\ Scanned'.index = Scanned.index \cup Matched(b)
             /\ Scanned'.unknown \subseteq mem'.unknown /\ Scanned'.judged \subseteq mem'.judged
             /\ Scanned'.fork = Scanned.fork
<1> USE DEF SafeInv
<1> DEFINE b == After(ok)
           u == Unread(ok)
           M == Matched(b)
           a == [action |-> "anchor", head |-> EndTip]
           en == MatchEntry(b)
           c == [b EXCEPT !.anchor = EndTip, !.index = @ \cup M,
                          !.unknown = @ \cup Unknown(b, ok)]
           y == Replay(mem', u)
           d == Replay(durable, en)
           n == Replay(y, en)
<1>1. Logged(u, en \o <<a>>) /\ mem' = Judge(c)
  BY DEF Indexed
<1>2. /\ Scanned \in Facts /\ durable \in Facts /\ Scanned.sent = durable.sent
      /\ b \in Facts /\ u \in Seq(HubEntries) /\ Replay(b, u) = Scanned
      /\ b.sent \subseteq durable.sent /\ b.index \subseteq Scanned.index
  BY AfterFacts DEF TypeInv, ReplayInv
<1>3. EndTip \in Heads /\ EndFresh \in SUBSET LogEntries
  BY EndFacts
<1>4. a \in HubEntries /\ a.action = "anchor" /\ a.head = EndTip
  BY <1>3 DEF HubEntries
<1> HIDE DEF a
<1>5. Unknown(b, ok) \in SUBSET Ids
  <2>1. \A e \in EndFresh : e.id \in recorded
    BY EndFacts
  <2> QED BY <2>1 DEF Unknown, TypeInv
<1> HIDE DEF b, u
<1>6. en \in Seq(HubEntries) /\ M \in SUBSET LogEntries
  BY <1>2, MatchIsNoted
<1>7. /\ c \in Facts /\ c.sent = b.sent /\ c.done = b.done /\ c.anchor = EndTip
      /\ c.fork = b.fork /\ c.index = b.index \cup M
      /\ c.unknown = b.unknown \cup Unknown(b, ok)
      /\ c.judged = b.judged /\ c.unjudged = b.unjudged
  <2> DEFINE U == Unknown(b, ok)
  <2>1. U \in SUBSET Ids
    BY <1>5
  <2> HIDE DEF M, U
  <2>2. b.index \cup M \in SUBSET LogEntries /\ b.unknown \cup U \in SUBSET Ids
    BY <1>2, <1>6, <2>1, FactsFields
  <2>3. c = [b EXCEPT !.anchor = EndTip, !.index = @ \cup M, !.unknown = @ \cup U]
    BY DEF U
  <2> HIDE DEF c
  <2>4. /\ c \in Facts /\ c.sent = b.sent /\ c.done = b.done /\ c.anchor = EndTip
        /\ c.fork = b.fork /\ c.index = b.index \cup M
        /\ c.unknown = b.unknown \cup U
        /\ c.judged = b.judged /\ c.unjudged = b.unjudged
    BY <1>2, <1>3, <2>2, <2>3 DEF Facts
  <2> QED BY <2>4 DEF U
<1> HIDE DEF c
<1>8. /\ mem' \in Facts /\ mem'.sent = c.sent /\ mem'.done = c.done /\ mem'.anchor = c.anchor
      /\ mem'.fork = c.fork /\ mem'.index = c.index /\ mem'.unknown = c.unknown
      /\ mem'.unjudged = c.unjudged
      /\ mem'.judged = IF Complete THEN pull.settled ELSE c.judged
  <2> DEFINE j == Judge(c)
  <2>1. /\ j \in Facts
        /\ j.sent = c.sent /\ j.done = c.done /\ j.anchor = c.anchor /\ j.fork = c.fork
        /\ j.index = c.index /\ j.unknown = c.unknown /\ j.unjudged = c.unjudged
        /\ j.judged = IF Complete THEN pull.settled ELSE c.judged
    BY <1>7, JudgeFields
  <2>2. mem' = j
    BY <1>1
  <2> HIDE DEF j
  <2> QED BY <2>1, <2>2
<1>9. /\ y \in Facts /\ y.sent = Scanned.sent /\ y.done = Scanned.done
      /\ y.unjudged = Scanned.unjudged /\ y.fork = Scanned.fork
      /\ Scanned.index \subseteq y.index /\ y.index \subseteq Scanned.index \cup mem'.index
      /\ y.unknown \subseteq mem'.unknown /\ y.judged \subseteq mem'.judged
  <2>1. /\ mem' \in Facts /\ mem'.sent = b.sent /\ mem'.done = b.done /\ mem'.fork = b.fork
        /\ b.index \subseteq mem'.index /\ mem'.unjudged = b.unjudged
    BY <1>7, <1>8
  <2> HIDE DEF M
  <2> QED BY <1>2, <2>1, ReplayKeepsFacts
<1>10. /\ tail' = (u \o en) \o <<a>> /\ tail' \in Seq(HubEntries) /\ u \o en \in Seq(HubEntries)
  <2> HIDE DEF en
  <2>1. <<a>> \in Seq(HubEntries)
    BY <1>4
  <2>2. u \o en \in Seq(HubEntries) /\ (u \o en) \o <<a>> \in Seq(HubEntries)
    BY <1>2, <1>6, <2>1
  <2>3. u \o (en \o <<a>>) = (u \o en) \o <<a>>
    BY <1>2, <1>6, <2>1, ConcatAssociative
  <2> QED BY <1>1, <2>2, <2>3 DEF Logged
<1>11. WithMatches(b, durable, d) /\ WithMatches(b, y, n)
  <2>1. b.sent \subseteq y.sent
    BY <1>2, <1>9
  <2> HIDE DEF y
  <2> QED BY <1>2, <1>9, <2>1, MatchIsNoted
<1>12. durable' = Note(d, a)
  BY <1>1, <1>4, <1>6, ReplayAppend DEF Logged
<1>13. Scanned' = Note(n, a)
  <2>1. Scanned' = Note(Replay(mem', u \o en), a)
    BY <1>4, <1>10, ReplayAppend DEF Scanned
  <2>2. Replay(mem', u \o en) = n
    BY <1>2, MatchIsNoted
  <2> QED BY <2>1, <2>2
<1> HIDE DEF d, n, y
<1>14. NotedFrom(d, a, durable') /\ NotedFrom(n, a, Scanned')
  BY <1>4, <1>11, <1>12, <1>13, NoteFields DEF WithMatches
<1>15. /\ durable' \in Facts /\ durable'.sent = d.sent /\ durable'.done = d.done
       /\ durable'.anchor = EndTip /\ durable'.unjudged = d.unjudged
       /\ durable'.index = d.index /\ durable'.unknown = d.unknown
       /\ durable'.judged = d.judged /\ durable'.fork = d.fork
  BY <1>4, <1>14 DEF NotedFrom
<1>16. /\ Scanned' \in Facts /\ Scanned'.sent = n.sent /\ Scanned'.done = n.done
       /\ Scanned'.anchor = EndTip /\ Scanned'.unjudged = n.unjudged
       /\ Scanned'.index = n.index /\ Scanned'.unknown = n.unknown
       /\ Scanned'.judged = n.judged /\ Scanned'.fork = n.fork
  BY <1>4, <1>14 DEF NotedFrom
<1>17. /\ d.sent = durable.sent /\ d.done = durable.done /\ d.unjudged = durable.unjudged
       /\ d.index = durable.index \cup M /\ d.unknown = durable.unknown
       /\ d.judged = durable.judged /\ d.fork = durable.fork
  BY <1>11 DEF WithMatches
<1>18. /\ n.sent = y.sent /\ n.done = y.done /\ n.unjudged = y.unjudged
       /\ n.index = y.index \cup M /\ n.unknown = y.unknown
       /\ n.judged = y.judged /\ n.fork = y.fork
  BY <1>11 DEF WithMatches
<1>19. n.index = Scanned.index \cup M
  BY <1>2, <1>7, <1>8, <1>9, <1>18
<1> HIDE DEF M
<1>20. /\ mem'.sent = b.sent /\ mem'.anchor = EndTip /\ mem'.unjudged = b.unjudged
       /\ mem'.index = b.index \cup M /\ mem'.unknown = b.unknown \cup Unknown(b, ok)
       /\ mem'.fork = b.fork
       /\ mem'.judged = IF Complete THEN pull.settled ELSE b.judged
  BY <1>7, <1>8
<1>21. /\ Scanned'.sent = Scanned.sent /\ Scanned'.done = Scanned.done
       /\ Scanned'.unjudged = Scanned.unjudged /\ Scanned'.index = Scanned.index \cup M
       /\ Scanned'.unknown \subseteq mem'.unknown /\ Scanned'.judged \subseteq mem'.judged
       /\ Scanned'.fork = Scanned.fork
  BY <1>9, <1>16, <1>18, <1>19
<1>22. /\ durable'.sent = durable.sent /\ durable'.done = durable.done
       /\ durable'.unjudged = durable.unjudged /\ durable'.index = durable.index \cup M
       /\ durable'.unknown = durable.unknown /\ durable'.judged = durable.judged
       /\ durable'.fork = durable.fork
  BY <1>15, <1>17
<1>23. mem' \in Facts
  BY <1>8
<1> QED BY <1>10, <1>15, <1>16, <1>20, <1>21, <1>22, <1>23 DEF M, b

\* What is left behind when the log cannot be written.
AsFailed(b) == [b EXCEPT !.err = "failed"]

LEMMA AnchorFailsFields ==
  ASSUME SafeInv, NEW ok \in BOOLEAN, NEW en \in {<<>>, MatchEntry(After(ok))},
         Logged(Unread(ok), en), mem' = AsFailed(After(ok))
  PROVE  LET b == After(ok)
         IN  /\ mem' \in Facts /\ Scanned' \in Facts /\ durable' \in Facts
             /\ tail' \in Seq(HubEntries) /\ (NothingRead' \/ b.anchor = durable.anchor)
             /\ mem'.sent = b.sent /\ mem'.anchor = b.anchor /\ mem'.unjudged = b.unjudged
             /\ mem'.index = b.index /\ mem'.unknown = b.unknown
             /\ mem'.fork = b.fork /\ mem'.judged = b.judged
             /\ durable'.sent = durable.sent /\ durable'.done = durable.done
             /\ durable'.anchor = durable.anchor /\ durable'.unjudged = durable.unjudged
             /\ durable.index \subseteq durable'.index /\ Scanned'.index \subseteq durable'.index
             /\ durable'.unknown = durable.unknown /\ durable'.judged = durable.judged
             /\ durable'.fork = durable.fork
             /\ Scanned'.sent = Scanned.sent /\ Scanned'.done = Scanned.done
             /\ Scanned'.anchor = Scanned.anchor /\ Scanned'.unjudged = Scanned.unjudged
             /\ Scanned.index \subseteq Scanned'.index
             /\ Scanned'.unknown \subseteq b.unknown /\ Scanned'.judged \subseteq b.judged
             /\ Scanned'.fork = Scanned.fork
<1> USE DEF SafeInv
<1> DEFINE b == After(ok)
           u == Unread(ok)
           M == Matched(b)
           y == Replay(mem', u)
<1>1. mem' = AsFailed(b) /\ Logged(u, en) /\ (en = <<>> \/ en = MatchEntry(b))
  OBVIOUS
<1>2. /\ Scanned \in Facts /\ durable \in Facts /\ Scanned.sent = durable.sent
      /\ Scanned.index \subseteq durable.index
      /\ b \in Facts /\ u \in Seq(HubEntries) /\ Replay(b, u) = Scanned
      /\ b.sent \subseteq durable.sent
      /\ (u # <<>> /\ u[1].action = "log") \/ b.anchor = durable.anchor
  BY AfterFacts DEF TypeInv, ReplayInv
<1> HIDE DEF b, u
<1>3. /\ mem' \in Facts /\ mem'.sent = b.sent /\ mem'.done = b.done
      /\ mem'.anchor = b.anchor /\ mem'.unjudged = b.unjudged
      /\ mem'.index = b.index /\ mem'.unknown = b.unknown
      /\ mem'.fork = b.fork /\ mem'.judged = b.judged
  BY <1>1, <1>2 DEF Facts, AsFailed
<1>4. /\ y \in Facts /\ y.sent = Scanned.sent /\ y.done = Scanned.done
      /\ y.anchor = Scanned.anchor /\ y.unjudged = Scanned.unjudged /\ y.fork = Scanned.fork
      /\ y.index = Scanned.index
      /\ y.unknown \subseteq mem'.unknown /\ y.judged \subseteq mem'.judged
  <2> HIDE DEF y
  <2> QED BY <1>2, <1>3, ReplayIsAlike DEF y
<1>5. en \in Seq(HubEntries)
  <2>1. <<>> \in Seq(HubEntries)
    OBVIOUS
  <2>2. MatchEntry(b) \in Seq(HubEntries)
    BY <1>2, MatchIsNoted
  <2> QED BY <1>1, <2>1, <2>2
<1>6. tail' = u \o en /\ durable' = Replay(durable, en)
  BY <1>1 DEF Logged
<1>7. tail' \in Seq(HubEntries)
  BY <1>2, <1>5, <1>6
<1>8. NothingRead' \/ b.anchor = durable.anchor
  BY <1>2, <1>5, <1>6, NothingReadStays
<1>9. CASE en = <<>>
  <2>1. u \o <<>> = u
    BY <1>2
  <2>2. durable' = durable /\ Scanned' = y
    BY <1>6, <1>9, <2>1, ReplayEmpty DEF Scanned
  <2> HIDE DEF y
  <2> QED BY <1>2, <1>3, <1>4, <1>7, <1>8, <2>2 DEF b
<1>10. CASE en = MatchEntry(b)
  <2> DEFINE n == Replay(y, en)
  <2>1. Scanned' = n
    BY <1>2, <1>6, <1>10, MatchIsNoted DEF Scanned
  <2>2. WithMatches(b, durable, durable')
    BY <1>2, <1>6, <1>10, MatchIsNoted
  <2> HIDE DEF y
  <2>3. WithMatches(b, y, n)
    BY <1>2, <1>4, <1>10, MatchIsNoted
  <2> HIDE DEF n
  <2>4. /\ durable' \in Facts /\ durable'.sent = durable.sent /\ durable'.done = durable.done
        /\ durable'.anchor = durable.anchor /\ durable'.unjudged = durable.unjudged
        /\ durable'.unknown = durable.unknown /\ durable'.judged = durable.judged
        /\ durable'.fork = durable.fork /\ durable'.index = durable.index \cup M
    BY <2>2 DEF WithMatches
  <2>5. /\ Scanned' \in Facts /\ Scanned'.sent = y.sent /\ Scanned'.done = y.done
        /\ Scanned'.anchor = y.anchor /\ Scanned'.unjudged = y.unjudged
        /\ Scanned'.unknown = y.unknown /\ Scanned'.judged = y.judged
        /\ Scanned'.fork = y.fork /\ Scanned'.index = y.index \cup M
    BY <2>1, <2>3 DEF WithMatches
  <2> HIDE DEF M
  <2> QED BY <1>2, <1>3, <1>4, <1>7, <1>8, <2>4, <2>5 DEF b
<1> QED BY <1>1, <1>9, <1>10

LEMMA RebaseFields ==
  ASSUME SafeInv, NEW head \in Heads, RebaseOnto(head)
  PROVE  /\ tail' \in Seq(HubEntries)
         /\ RebasedFrom(durable, head, durable.sent, durable')
         /\ RebasedFrom(mem, head, durable.sent, mem')
         /\ RebasedFrom(Scanned, head, durable.sent, Scanned')
<1> USE DEF SafeInv
<1> DEFINE e == [action |-> "rebase", head |-> head, before |-> durable.sent]
           x == Replay(mem', tail)
<1>1. Logged(tail, <<e>>) /\ mem' = Rebased(mem, head, durable.sent)
  BY DEF RebaseOnto
<1>2. mem \in Facts /\ durable \in Facts /\ Scanned \in Facts /\ tail \in Seq(HubEntries)
  BY DEF TypeInv
<1>3. durable.sent \in SUBSET Ids
  BY <1>2, FactsFields
<1>4. e \in HubEntries /\ e.action = "rebase" /\ e.head = head /\ e.before = durable.sent
  BY <1>3 DEF HubEntries
<1> HIDE DEF e
<1>5. RebasedFrom(mem, head, durable.sent, mem')
  BY <1>1, <1>2, <1>3, RebasedFields
<1>6. mem' \in Facts /\ mem'.sent = mem.sent /\ mem'.done = mem.done
  BY <1>5 DEF RebasedFrom
<1>7. x \in Facts /\ x.sent = Scanned.sent /\ x.done = Scanned.done
  BY <1>2, <1>6, ReplayKeepsRelayed DEF Scanned
<1>8. durable' = Note(durable, e)
  BY <1>1, <1>4, ReplayOne DEF Logged
<1>9. tail' = tail \o <<e>>
  BY <1>1 DEF Logged
<1>10. Scanned' = Note(x, e)
  BY <1>2, <1>4, <1>9, ReplayAppend DEF Scanned
<1> HIDE DEF x
<1>11. NotedFrom(durable, e, durable') /\ NotedFrom(x, e, Scanned')
  BY <1>2, <1>4, <1>7, <1>8, <1>10, NoteFields
<1>12. RebasedFrom(durable, head, durable.sent, durable')
  BY <1>4, <1>11 DEF NotedFrom, RebasedFrom
<1>13. RebasedFrom(Scanned, head, durable.sent, Scanned')
  BY <1>4, <1>7, <1>11 DEF NotedFrom, RebasedFrom
<1>14. <<e>> \in Seq(HubEntries)
  BY <1>4
<1> QED BY <1>2, <1>5, <1>9, <1>12, <1>13, <1>14

LEMMA RaiseForkSafe ==
  ASSUME SafeInv, RaiseFork
  PROVE  SafeInv'
<1> USE DEF SafeInv
<1>1. /\ pull' = NoPull /\ blog' = blog /\ written' = written /\ recorded' = recorded
      /\ headRead' = headRead /\ rewritten' = rewritten /\ faults' = faults
      /\ givenUp' = givenUp /\ blind' = blind
  BY DEF RaiseFork, Ends, builderVars
<1>2. TypeInv'
  BY <1>1, RaiseForkFields, NoPullFields DEF TypeInv
<1>3. LogInv'
  BY <1>1, RaiseForkFields DEF LogInv
<1>4. ReplayInv'
  <2>1. Settled' = Settled
    BY <1>1, RaiseForkFields DEF Settled
  <2> QED BY <1>1, <2>1, RaiseForkFields DEF ReplayInv
<1>5. PullInv'
  <2>1. mem'.anchor.hash <= written /\ durable'.anchor.hash <= written
    BY RaiseForkFields DEF PullInv
  <2> QED BY <1>1, <2>1, PullEnds DEF PullInv
<1> QED BY <1>2, <1>3, <1>4, <1>5

LEMMA EndWithoutAnchorSafe ==
  ASSUME SafeInv, EndWithoutAnchor
  PROVE  SafeInv'
<1> USE DEF SafeInv
<1>1. /\ pull' = NoPull /\ blog' = blog /\ written' = written /\ recorded' = recorded
      /\ headRead' = headRead /\ rewritten' = rewritten /\ faults' = faults
      /\ givenUp' = givenUp /\ blind' = blind
  BY DEF EndWithoutAnchor, Ends, builderVars
<1>2. TypeInv'
  BY <1>1, EndWithoutAnchorFields, NoPullFields DEF TypeInv
<1>3. LogInv'
  BY <1>1, EndWithoutAnchorFields DEF LogInv
<1>4. ReplayInv'
  <2>1. Settled' = Settled /\ NothingRead' = NothingRead
    BY <1>1, EndWithoutAnchorFields DEF Settled, NothingRead
  <2>2. mem'.judged \subseteq Settled
    BY EndWithoutAnchorFields DEF ReplayInv, PullInv
  <2> QED BY <1>1, <2>1, <2>2, EndWithoutAnchorFields DEF ReplayInv
<1>5. PullInv'
  <2>1. mem'.anchor.hash <= written /\ durable'.anchor.hash <= written
    BY EndWithoutAnchorFields DEF PullInv
  <2> QED BY <1>1, <2>1, PullEnds DEF PullInv
<1> QED BY <1>2, <1>3, <1>4, <1>5

LEMMA EndWithAnchorSafe ==
  ASSUME SafeInv, EndWithAnchor
  PROVE  SafeInv'
<1> USE DEF SafeInv
<1>1. /\ pull' = NoPull /\ blog' = blog /\ written' = written /\ recorded' = recorded
      /\ headRead' = headRead /\ rewritten' = rewritten /\ givenUp' = givenUp
  BY DEF EndWithAnchor, Moves, Ends, builderVars
<1>2. PICK ok \in BOOLEAN :
        /\ ScanEnds(ok) /\ mem' = Indexed(After(ok), ok) /\ blind' = (blind \/ ~ ok)
        /\ Logged(Unread(ok), MatchEntry(After(ok)) \o <<[action |-> "anchor", head |-> EndTip]>>)
  BY DEF EndWithAnchor, ForIndexing
<1> DEFINE b == After(ok)
<1>3. /\ mem' \in Facts /\ Scanned' \in Facts /\ durable' \in Facts
      /\ tail' \in Seq(HubEntries)
      /\ mem'.sent = b.sent /\ mem'.anchor = EndTip /\ mem'.unjudged = b.unjudged
      /\ mem'.index = b.index \cup Matched(b)
      /\ mem'.unknown = b.unknown \cup Unknown(b, ok)
      /\ mem'.judged = IF Complete THEN pull.settled ELSE b.judged
      /\ durable'.sent = durable.sent /\ durable'.done = durable.done
      /\ durable'.anchor = EndTip /\ durable'.unjudged = durable.unjudged
      /\ durable'.index = durable.index \cup Matched(b)
      /\ durable'.unknown = durable.unknown /\ durable'.judged = durable.judged
      /\ Scanned'.sent = Scanned.sent
      /\ Scanned'.anchor = EndTip /\ Scanned'.unjudged = Scanned.unjudged
      /\ Scanned'.index = Scanned.index \cup Matched(b)
      /\ Scanned'.unknown \subseteq mem'.unknown /\ Scanned'.judged \subseteq mem'.judged
  BY <1>2, EndWithAnchorFields
<1>4. /\ b.sent \subseteq durable.sent /\ b.unjudged \subseteq durable.unjudged
      /\ b.index \subseteq Scanned.index /\ b.unknown \subseteq mem.unknown
      /\ b.judged \subseteq mem.judged
  BY AfterFacts
<1>5. faults' \in 0..MaxFaults /\ blind' \in BOOLEAN
  BY <1>2, ReconcileConstants DEF ScanEnds, TypeInv
<1>6. blind' \/ mem'.unknown = {}
  <2>1. CASE ok
    <3>1. Unknown(b, ok) = {}
      BY <2>1, NothingUnknown DEF After
    <3> HIDE DEF b
    <3>2. blind \/ mem.unknown = {}
      BY DEF ReplayInv
    <3> QED BY <1>2, <1>3, <1>4, <3>1, <3>2
  <2> QED BY <1>2, <2>1
<1> HIDE DEF b
<1>7. TypeInv'
  BY <1>1, <1>3, <1>5, NoPullFields DEF TypeInv
<1>8. LogInv'
  BY <1>1, <1>3 DEF LogInv
<1>9. ReplayInv'
  <2>1. Settled' = Settled
    BY <1>1, <1>3 DEF Settled
  <2>2. mem'.judged \subseteq Settled
    BY <1>3, <1>4 DEF ReplayInv, PullInv
  <2>3. mem'.index \subseteq Scanned'.index /\ Scanned'.index \subseteq durable'.index
    BY <1>3, <1>4 DEF ReplayInv
  <2> QED BY <1>3, <1>4, <1>6, <2>1, <2>2, <2>3 DEF ReplayInv
<1>10. PullInv'
  <2>1. mem'.anchor.hash <= written /\ durable'.anchor.hash <= written
    BY <1>3, EndFacts
  <2> QED BY <1>1, <2>1, PullEnds DEF PullInv
<1> QED BY <1>7, <1>8, <1>9, <1>10

LEMMA AnchorFailsSafe ==
  ASSUME SafeInv, AnchorFails
  PROVE  SafeInv'
<1> USE DEF SafeInv
<1>1. /\ pull' = NoPull /\ blog' = blog /\ written' = written /\ recorded' = recorded
      /\ headRead' = headRead /\ rewritten' = rewritten
      /\ givenUp' = givenUp /\ blind' = blind
  BY DEF AnchorFails, Moves, Ends, builderVars
<1>2. PICK ok \in BOOLEAN :
        /\ ScanEnds(ok) /\ mem' = AsFailed(After(ok))
        /\ \E en \in {<<>>, MatchEntry(After(ok))} : Logged(Unread(ok), en)
  BY DEF AnchorFails, ForIndexing, AsFailed
<1> DEFINE b == After(ok)
<1>3. /\ mem' \in Facts /\ Scanned' \in Facts /\ durable' \in Facts
      /\ tail' \in Seq(HubEntries) /\ (NothingRead' \/ b.anchor = durable.anchor)
      /\ mem'.sent = b.sent /\ mem'.anchor = b.anchor /\ mem'.unjudged = b.unjudged
      /\ mem'.index = b.index /\ mem'.unknown = b.unknown /\ mem'.judged = b.judged
      /\ durable'.sent = durable.sent /\ durable'.done = durable.done
      /\ durable'.anchor = durable.anchor /\ durable'.unjudged = durable.unjudged
      /\ Scanned'.index \subseteq durable'.index
      /\ durable'.unknown = durable.unknown /\ durable'.judged = durable.judged
      /\ Scanned'.sent = Scanned.sent
      /\ Scanned'.anchor = Scanned.anchor /\ Scanned'.unjudged = Scanned.unjudged
      /\ Scanned.index \subseteq Scanned'.index
      /\ Scanned'.unknown \subseteq b.unknown /\ Scanned'.judged \subseteq b.judged
  BY <1>2, AnchorFailsFields
<1>4. /\ b.sent \subseteq durable.sent /\ b.unjudged \subseteq durable.unjudged
      /\ b.index \subseteq Scanned.index /\ b.unknown \subseteq mem.unknown
      /\ b.judged \subseteq mem.judged /\ b.anchor \in {mem.anchor, durable.anchor}
  BY AfterFacts
<1> HIDE DEF b
<1>5. faults' \in 0..MaxFaults
  BY <1>2, ReconcileConstants DEF ScanEnds, TypeInv
<1>6. TypeInv'
  BY <1>1, <1>3, <1>5, NoPullFields DEF TypeInv
<1>7. LogInv'
  BY <1>1, <1>3 DEF LogInv
<1>8. ReplayInv'
  <2>1. Settled' = Settled
    BY <1>1, <1>3 DEF Settled
  <2> QED BY <1>1, <1>3, <1>4, <2>1 DEF ReplayInv
<1>9. PullInv'
  <2>1. mem'.anchor.hash <= written /\ durable'.anchor.hash <= written
    BY <1>3, <1>4 DEF PullInv
  <2> QED BY <1>1, <2>1, PullEnds DEF PullInv
<1> QED BY <1>6, <1>7, <1>8, <1>9

-----------------------------------------------------------------------------
(* The operator, and restarts.                                               *)

LEMMA RebaseOntoSafe ==
  ASSUME SafeInv, NEW head \in Heads, head.hash <= written, RebaseOnto(head),
         blog' = blog, written' = written, recorded' = recorded, pull' = pull,
         rewritten' \in BOOLEAN, faults' \in 0..MaxFaults, givenUp' = givenUp,
         headRead' \in {headRead, <<>>}
  PROVE  SafeInv'
<1> USE DEF SafeInv
<1>1. /\ tail' \in Seq(HubEntries)
      /\ RebasedFrom(durable, head, durable.sent, durable')
      /\ RebasedFrom(mem, head, durable.sent, mem')
      /\ RebasedFrom(Scanned, head, durable.sent, Scanned')
  BY RebaseFields
<1>2. <<>> \in Seq([head : Heads, stale : BOOLEAN]) /\ Len(<<>>) <= 1
  OBVIOUS
<1>3. TypeInv'
  BY <1>1, <1>2 DEF TypeInv, RebasedFrom, RebaseOnto
<1>4. LogInv'
  BY <1>1 DEF LogInv, RebasedFrom
<1>5. ReplayInv'
  BY <1>1 DEF ReplayInv, RebasedFrom
<1>6. PullInv'
  <2>1. PageTip' = PageTip /\ PageFresh' = PageFresh
    BY DEF PageTip, PageFresh
  <2>2. durable'.done = durable.done /\ mem'.anchor = head /\ durable'.anchor = head
    BY <1>1 DEF RebasedFrom
  <2>3. Settled' = Settled
    BY <2>2 DEF Settled
  <2> QED BY <2>1, <2>2, <2>3 DEF PullInv
<1> QED BY <1>3, <1>4, <1>5, <1>6

LEMMA RebaseSafe ==
  ASSUME SafeInv, Rebase
  PROVE  SafeInv'
<1>1. /\ faults < MaxFaults /\ faults' = faults + 1 /\ RebaseOnto(Genesis) /\ rewritten' = FALSE
      /\ blog' = blog /\ written' = written /\ recorded' = recorded /\ pull' = pull
      /\ headRead' = headRead /\ givenUp' = givenUp
  BY DEF Rebase, MayRebase, builderVars
<1>2. faults' \in 0..MaxFaults /\ 0 <= written
  BY <1>1, ReconcileConstants DEF SafeInv, TypeInv
<1> QED BY <1>1, <1>2, GenesisHead, RebaseOntoSafe

LEMMA RebaseToHeadSafe ==
  ASSUME SafeInv, RebaseToHead
  PROVE  SafeInv'
<1>1. /\ headRead # <<>> /\ faults < MaxFaults /\ faults' = faults + 1
      /\ RebaseOnto(headRead[1].head) /\ rewritten' = headRead[1].stale
      /\ blog' = blog /\ written' = written /\ recorded' = recorded /\ pull' = pull
      /\ headRead' = <<>> /\ givenUp' = givenUp
  BY DEF RebaseToHead, MayRebase, builderVars
<1>2. 1 \in DOMAIN headRead
  BY <1>1 DEF SafeInv, TypeInv
<1>3. headRead[1].head \in Heads /\ headRead[1].stale \in BOOLEAN
  BY <1>2, HeadReadFields DEF SafeInv
<1>4. headRead[1].head.hash <= written
  BY <1>2 DEF SafeInv, PullInv
<1>5. faults' \in 0..MaxFaults
  BY <1>1, ReconcileConstants DEF SafeInv, TypeInv
<1> QED BY <1>1, <1>3, <1>4, <1>5, RebaseOntoSafe

LEMMA HeadOfBlog ==
  ASSUME SafeInv
  PROVE  HeadOf(blog) \in Heads /\ HeadOf(blog).hash <= written /\ OnLog(HeadOf(blog))
<1> USE DEF SafeInv
<1>1. blog \in Seq(LogEntries) /\ written \in Nat /\ Len(blog) <= written /\ written <= MaxEntries
  BY ReconcileConstants DEF TypeInv, LogInv
<1>2. CASE blog = <<>>
  <2>1. HeadOf(blog) = Genesis
    BY <1>2 DEF HeadOf
  <2> QED BY <1>1, <2>1, GenesisHead DEF OnLog
<1>3. CASE blog # <<>>
  <2> DEFINE n == Len(blog)
             head == HeadOf(blog)
  <2>1. n \in Nat /\ n \in DOMAIN blog /\ n > 0 /\ Last(blog) = blog[n]
    BY <1>1, <1>3 DEF Last
  <2>2. head = [hash |-> blog[n].h, count |-> n]
    BY <1>3, <2>1 DEF HeadOf
  <2>3. blog[n] \in LogEntries
    BY <1>1, <2>1
  <2>4. blog[n].h \in 0..MaxEntries /\ blog[n].h <= written
    BY <2>1, <2>3, ReconcileConstants DEF LogEntries, LogInv
  <2>5. n \in 0..MaxEntries
    BY <1>1, <2>1, ReconcileConstants
  <2> HIDE DEF n
  <2>6. head \in Heads /\ head.hash = blog[n].h /\ head.count = n
    BY <2>2, <2>4, <2>5 DEF Heads
  <2> HIDE DEF head
  <2>7. OnLog(head)
    BY <2>1, <2>6 DEF OnLog, n
  <2> QED BY <2>4, <2>6, <2>7 DEF head
<1> QED BY <1>2, <1>3

LEMMA ReadHeadSafe ==
  ASSUME SafeInv, ReadHead
  PROVE  SafeInv'
<1> USE DEF SafeInv
<1> DEFINE r == [head |-> HeadOf(blog), stale |-> FALSE]
<1>1. /\ headRead' = <<r>>
      /\ blog' = blog /\ written' = written /\ recorded' = recorded /\ durable' = durable
      /\ tail' = tail /\ mem' = mem /\ pull' = pull /\ rewritten' = rewritten /\ faults' = faults
      /\ givenUp' = givenUp /\ blind' = blind
  BY DEF ReadHead, builderVars, observers
<1>2. r \in [head : Heads, stale : BOOLEAN] /\ r.head = HeadOf(blog) /\ r.head.hash <= written
  BY HeadOfBlog
<1> HIDE DEF r
<1>3. headRead' \in Seq([head : Heads, stale : BOOLEAN]) /\ Len(headRead') <= 1
      /\ \A i \in DOMAIN headRead' : headRead'[i] = r
  <2> DEFINE S == [head : Heads, stale : BOOLEAN]
  <2> HIDE DEF S
  <2>1. r \in S
    BY <1>2 DEF S
  <2> QED BY <1>1, <2>1 DEF S
<1>4. Scanned' = Scanned
  BY <1>1, ScannedSame
<1>5. TypeInv'
  BY <1>1, <1>3, <1>4 DEF TypeInv
<1>6. LogInv'
  BY <1>1 DEF LogInv
<1>7. ReplayInv'
  BY <1>1, <1>4 DEF ReplayInv, NothingRead, Settled
<1>8. PullInv'
  <2>1. PageTip' = PageTip /\ PageFresh' = PageFresh
    BY <1>1 DEF PageTip, PageFresh
  <2> QED BY <1>1, <1>2, <1>3, <2>1 DEF PullInv, Settled
<1> QED BY <1>5, <1>6, <1>7, <1>8

(* A hub that starts without its log would be given all of it by a scan.      *)
LEMMA UnreadFields ==
  ASSUME SafeInv, mem' = Fresh, tail' = <<[action |-> "log", facts |-> durable]>>
  PROVE  /\ Fresh \in Facts /\ tail' \in Seq(HubEntries) /\ NothingRead' /\ Scanned' \in Facts
         /\ Scanned'.sent = durable.sent /\ Scanned'.anchor = durable.anchor
         /\ Scanned'.unjudged = durable.unjudged /\ Scanned'.index = durable.index
         /\ Scanned'.unknown = {} /\ Scanned'.judged = {} /\ Scanned'.fork = durable.fork
<1> DEFINE e == [action |-> "log", facts |-> durable]
<1>1. Fresh \in Facts /\ Fresh.fork = FALSE /\ Fresh.judged = {}
  BY GenesisHead DEF Fresh, Facts
<1>2. durable \in Facts /\ durable.judged = {} /\ durable.unknown = {}
  BY DEF SafeInv, TypeInv, ReplayInv
<1>3. e \in HubEntries /\ e.action = "log" /\ e.facts = durable
  BY <1>2 DEF HubEntries, Logs
<1> HIDE DEF e
<1>4. tail' = <<e>> /\ tail'[1] = e /\ tail' \in Seq(HubEntries) /\ tail' # <<>>
  BY <1>3 DEF e
<1>5. Scanned' = Note(Fresh, e)
  BY <1>3, <1>4, ReplayOne DEF Scanned
<1>6. NotedFrom(Fresh, e, Scanned')
  BY <1>1, <1>3, <1>5, NoteFields
<1>7. /\ Scanned' \in Facts
      /\ Scanned'.sent = durable.sent /\ Scanned'.anchor = durable.anchor
      /\ Scanned'.unjudged = durable.unjudged /\ Scanned'.index = durable.index
      /\ Scanned'.unknown = {} /\ Scanned'.judged = {}
  BY <1>1, <1>3, <1>6 DEF NotedFrom
<1>8. Scanned'.fork = (durable.fork \/ (Fresh.fork /\ ~ durable.rebased))
  BY <1>3, <1>6 DEF NotedFrom
<1>9. Scanned'.fork = durable.fork
  BY <1>1, <1>2, <1>8, FactsFields
<1>10. NothingRead'
  BY <1>3, <1>4 DEF NothingRead
<1> QED BY <1>1, <1>4, <1>7, <1>9, <1>10

LEMMA HubRestartSafe ==
  ASSUME SafeInv, HubRestart
  PROVE  SafeInv'
<1> USE DEF SafeInv
<1>1. /\ faults < MaxFaults /\ faults' = faults + 1
      /\ pull' = NoPull /\ headRead' = <<>> /\ givenUp' = givenUp \cup InFlight
      /\ blog' = blog /\ written' = written /\ recorded' = recorded /\ durable' = durable
      /\ rewritten' = rewritten /\ blind' = blind
      /\ \/ mem' = durable /\ tail' = <<>>
         \/ mem' = Fresh /\ tail' = <<[action |-> "log", facts |-> durable]>>
  BY DEF HubRestart, observers
<1>2. faults' \in 0..MaxFaults
  BY <1>1, ReconcileConstants DEF TypeInv
<1>3. /\ <<>> \in Seq(HubEntries) /\ <<>> \in Seq([head : Heads, stale : BOOLEAN])
      /\ Len(<<>>) <= 1 /\ DOMAIN <<>> = {}
  OBVIOUS
<1>4. givenUp' \in SUBSET Ids /\ durable'.done \cap givenUp' = {} /\ Settled \subseteq Settled'
  BY <1>1, FactsFields DEF InFlight, TypeInv, LogInv, Settled
<1>5. /\ mem' \in Facts /\ tail' \in Seq(HubEntries) /\ Scanned' \in Facts
      /\ mem'.sent \subseteq durable.sent /\ Scanned'.sent = durable.sent
      /\ Scanned'.anchor = durable.anchor /\ (NothingRead' \/ mem'.anchor = durable.anchor)
      /\ mem'.unjudged \subseteq durable.unjudged /\ Scanned'.unjudged = durable.unjudged
      /\ mem'.index \subseteq Scanned'.index /\ Scanned'.index = durable.index
      /\ mem'.unknown = {} /\ Scanned'.unknown = {}
      /\ mem'.judged = {} /\ Scanned'.judged = {}
      /\ mem'.anchor \in {Genesis, durable.anchor}
  <2>1. CASE mem' = durable /\ tail' = <<>>
    <3>1. Scanned' = durable
      BY <2>1, ReplayEmpty DEF Scanned
    <3> QED BY <1>3, <2>1, <3>1 DEF TypeInv, ReplayInv
  <2>2. CASE mem' = Fresh /\ tail' = <<[action |-> "log", facts |-> durable]>>
    <3>1. /\ Fresh.sent = {} /\ Fresh.unjudged = {} /\ Fresh.index = {} /\ Fresh.unknown = {}
          /\ Fresh.judged = {} /\ Fresh.anchor = Genesis
      BY DEF Fresh
    <3> QED BY <2>2, <3>1, UnreadFields
  <2> QED BY <1>1, <2>1, <2>2
<1>6. TypeInv'
  BY <1>1, <1>2, <1>3, <1>4, <1>5, NoPullFields DEF TypeInv
<1>7. LogInv'
  BY <1>1, <1>4 DEF LogInv
<1>8. ReplayInv'
  BY <1>1, <1>4, <1>5 DEF ReplayInv
<1>9. PullInv'
  <2>1. 0 <= written
    BY ReconcileConstants DEF TypeInv
  <2>2. mem'.anchor.hash <= written /\ durable'.anchor.hash <= written
    BY <1>1, <1>5, <2>1, GenesisHead DEF PullInv
  <2> QED BY <1>1, <1>3, <2>2, PullEnds
<1> QED BY <1>6, <1>7, <1>8, <1>9

(* Every step keeps what is safe.                                            *)
LEMMA NextSafe == SafeInv /\ [Next]_vars => SafeInv'
<1> SUFFICES ASSUME SafeInv, [Next]_vars PROVE SafeInv'
  OBVIOUS
<1>1. ASSUME NEW id \in Ids \cup {Local}, BuilderAppends(id) PROVE SafeInv'
  BY <1>1, BuilderAppendsSafe
<1>2. CASE BuilderRewrites
  BY <1>2, BuilderRewritesSafe
<1>3. ASSUME NEW id \in Ids, NEW action \in {"sent", "done", "unsent"}, RelayLogs(action, id)
      PROVE  SafeInv'
  BY <1>3, RelayLogsSafe
<1>14. ASSUME NEW id \in Ids, RelayGivesUp(id) PROVE SafeInv'
  BY <1>14, RelayGivesUpSafe
<1>4. CASE Tick
  BY <1>4, TickSafe
<1>5. CASE BuilderAnswers
  BY <1>5, BuilderAnswersSafe
<1>6. CASE ReadFails
  BY <1>6, ReadFailsSafe
<1>7. CASE AskNextPage
  BY <1>7, AskNextPageSafe
<1>8. CASE EndPull
  BY <1>8, RaiseForkSafe, EndWithoutAnchorSafe, EndWithAnchorSafe, AnchorFailsSafe DEF EndPull
<1>9. CASE Rebase
  BY <1>9, RebaseSafe
<1>10. CASE ReadHead
  BY <1>10, ReadHeadSafe
<1>11. CASE RebaseToHead
  BY <1>11, RebaseToHeadSafe
<1>12. CASE HubRestart
  BY <1>12, HubRestartSafe
<1>13. CASE UNCHANGED vars
  <2> USE <1>13 DEF vars
  <2>1. Scanned' = Scanned
    BY ScannedSame
  <2>2. PageTip' = PageTip /\ PageFresh' = PageFresh
    BY DEF PageTip, PageFresh
  <2>3. TypeInv'
    BY <2>1 DEF SafeInv, TypeInv
  <2>4. LogInv'
    BY DEF SafeInv, LogInv
  <2>5. ReplayInv'
    BY <2>1 DEF SafeInv, ReplayInv, NothingRead, Settled
  <2>6. PullInv'
    BY <2>2 DEF SafeInv, PullInv, Settled
  <2> QED BY <2>3, <2>4, <2>5, <2>6 DEF SafeInv
<1> QED BY <1>1, <1>2, <1>3, <1>4, <1>5, <1>6, <1>7, <1>8, <1>9, <1>10, <1>11, <1>12, <1>13,
           <1>14
        DEF Next

-----------------------------------------------------------------------------
(* Logs that grow at their end or are cut there.                             *)

LEMMA ReachesAppend ==
  ASSUME NEW log \in Seq(LogEntries), NEW e, NEW head \in Heads, head.hash < e.h
  PROVE  Reaches(Append(log, e), head) <=> Reaches(log, head)
<1>1. Len(log) \in Nat /\ head.count \in Nat /\ head.hash \in Nat
  BY HeadFields, ReconcileConstants
<1> DEFINE t == Append(log, e)
<1>2. Len(t) = Len(log) + 1 /\ t[Len(log) + 1] = e /\ \A i \in 1..Len(log) : t[i] = log[i]
  BY <1>1
<1> HIDE DEF t
<1>3. CASE head.count = 0
  BY <1>3 DEF Reaches
<1>4. CASE head.count # 0 /\ head.count <= Len(log)
  <2>1. head.count \in 1..Len(log)
    BY <1>1, <1>4
  <2> QED BY <1>1, <1>2, <1>4, <2>1 DEF Reaches, t
<1>5. CASE head.count = Len(log) + 1
  <2>1. t[head.count].h # head.hash
    BY <1>1, <1>2, <1>5
  <2> QED BY <1>1, <1>2, <1>5, <2>1 DEF Reaches, t
<1>6. CASE head.count > Len(log) + 1
  BY <1>1, <1>2, <1>6 DEF Reaches, t
<1> QED BY <1>1, <1>3, <1>4, <1>5, <1>6

LEMMA ExplainedAppend ==
  ASSUME NEW log \in Seq(LogEntries), NEW e, NEW head \in Heads, head.hash < e.h,
         NEW seen, NEW unjudged, Explained(log, head, seen, unjudged)
  PROVE  Explained(Append(log, e), head, seen, unjudged)
<1> SUFFICES ASSUME Reaches(Append(log, e), head), NEW i \in 1..head.count
             PROVE  /\ Append(log, e)[i] = log[i]
                    /\ log[i].id = Local \/ log[i] \in seen \/ log[i].id \in unjudged
  BY DEF Explained
<1>1. Reaches(log, head)
  BY ReachesAppend
<1>2. head.count \in Nat /\ Len(log) \in Nat
  BY HeadFields, ReconcileConstants
<1>3. i \in 1..Len(log)
  BY <1>1, <1>2 DEF Reaches
<1>4. Append(log, e)[i] = log[i]
  BY <1>3
<1> QED BY <1>1, <1>4 DEF Explained

LEMMA AllSeenAppend ==
  ASSUME NEW log \in Seq(LogEntries), NEW e, NEW ids, e.id \notin ids,
         NEW seen, NEW unjudged, AllSeen(log, ids, seen, unjudged)
  PROVE  AllSeen(Append(log, e), ids, seen, unjudged)
<1> SUFFICES ASSUME NEW i \in DOMAIN Append(log, e), Append(log, e)[i].id \in ids
             PROVE  Append(log, e)[i] \in seen \/ Append(log, e)[i].id \in unjudged
  BY DEF AllSeen
<1>1. i \in 1..(Len(log) + 1) /\ Append(log, e)[Len(log) + 1] = e /\ Len(log) \in Nat
  OBVIOUS
<1>2. i # Len(log) + 1
  BY <1>1
<1>3. i \in DOMAIN log /\ Append(log, e)[i] = log[i]
  BY <1>1, <1>2
<1> QED BY <1>3 DEF AllSeen

(* What is left of a log that is cut.                                        *)
CutTo(log, n, new) ==
  /\ n \in Nat /\ n <= Len(log) /\ DOMAIN new = 1..n /\ Len(new) = n
  /\ \A i \in 1..n : i \in DOMAIN log /\ new[i] = log[i]

LEMMA ExplainedCut ==
  ASSUME NEW log \in Seq(LogEntries), NEW n, NEW new, CutTo(log, n, new),
         NEW head \in Heads, NEW seen, NEW unjudged,
         Explained(log, head, seen, unjudged)
  PROVE  Explained(new, head, seen, unjudged)
<1> SUFFICES ASSUME Reaches(new, head), NEW i \in 1..head.count
             PROVE  new[i].id = Local \/ new[i] \in seen \/ new[i].id \in unjudged
  BY DEF Explained
<1>1. head.count \in Nat /\ Len(log) \in Nat /\ n \in Nat /\ n <= Len(log) /\ Len(new) = n
  BY HeadFields, ReconcileConstants DEF CutTo
<1>2. head.count \in 1..n /\ i \in 1..n
  BY <1>1 DEF Reaches
<1>3. new[i] = log[i] /\ new[head.count] = log[head.count]
  BY <1>2 DEF CutTo
<1>4. Reaches(log, head)
  BY <1>1, <1>2, <1>3 DEF Reaches
<1> QED BY <1>3, <1>4 DEF Explained

LEMMA AllSeenCut ==
  ASSUME NEW log, NEW n, NEW new, CutTo(log, n, new),
         NEW ids, NEW seen, NEW unjudged, AllSeen(log, ids, seen, unjudged)
  PROVE  AllSeen(new, ids, seen, unjudged)
BY DEF AllSeen, CutTo

(* Having seen more, or judging less, explains no less.                      *)
LEMMA ExplainedMore ==
  ASSUME NEW log, NEW head, NEW seen, NEW more, NEW unjudged, NEW unjudged2,
         seen \subseteq more, unjudged \subseteq unjudged2,
         Explained(log, head, seen, unjudged)
  PROVE  Explained(log, head, more, unjudged2)
BY DEF Explained

LEMMA AllSeenMore ==
  ASSUME NEW log, NEW ids, NEW fewer, NEW seen, NEW more, NEW unjudged, NEW unjudged2,
         seen \subseteq more, fewer \subseteq ids, unjudged \subseteq unjudged2,
         AllSeen(log, ids, seen, unjudged)
  PROVE  AllSeen(log, fewer, more, unjudged2)
BY DEF AllSeen

LEMMA GenesisExplained ==
  ASSUME NEW log, NEW seen, NEW unjudged
  PROVE  Explained(log, Genesis, seen, unjudged) /\ Reaches(log, Genesis)
<1>1. Genesis.count = 0 /\ 1..0 = {}
  BY GenesisHead
<1> QED BY <1>1 DEF Explained, Reaches

-----------------------------------------------------------------------------
(* What holds if no rebase meets a pull: one lemma per step.                  *)

LEMMA InitPulled == Init => PulledInv
<1> SUFFICES ASSUME Init PROVE PulledInv
  OBVIOUS
<1>1. Scanned = Fresh /\ Fresh.anchor = Genesis /\ Fresh.fork = FALSE
  BY ReplayEmpty DEF Init, Scanned, Fresh
<1>2. PageTip = Genesis
  BY NoPullFields DEF Init, PageTip
<1>3. CoverInv
  <2>1. pull.answer.kind # "page" /\ DOMAIN blog = {}
    BY NoPullFields DEF Init
  <2> QED BY <1>1, <1>2, <2>1, GenesisExplained, NoPullFields
          DEF Init, CoverInv, Covered, AllSeen
<1>4. ForkInv
  BY <1>1, <1>2, GenesisExplained, NoPullFields DEF Init, ForkInv
<1> QED BY <1>3, <1>4 DEF PulledInv

(* The log and the pull stay, the indexes lose nothing, and what is answered  *)
(* now was not to be judged before.                                          *)
LEMMA CoverSame ==
  ASSUME Covered, blog' = blog, pull' = pull,
         Explained(blog, mem'.anchor, mem'.index, mem'.unjudged),
         durable'.anchor = durable.anchor, durable'.unjudged = durable.unjudged,
         mem.index \subseteq mem'.index, mem.unjudged \subseteq mem'.unjudged,
         Scanned.index \subseteq Scanned'.index, mem'.judged \subseteq mem.judged,
         durable'.done \cap (pull.settled \cup mem.judged) \subseteq durable.done
  PROVE  Covered'
<1>1. PageTip' = PageTip /\ PageFresh' = PageFresh /\ LastPage' = LastPage
  BY DEF PageTip, PageFresh, LastPage
<1>2. Explained(blog, durable.anchor, Scanned'.index, durable.unjudged)
  BY ExplainedMore DEF Covered
<1>3. pull.fresh \cup mem.index \subseteq pull.fresh \cup mem'.index
  OBVIOUS
<1>4. PageFresh \cup mem.index \subseteq PageFresh \cup mem'.index
  OBVIOUS
<1>5. Explained(blog, pull.tip, pull.fresh \cup mem'.index, mem'.unjudged)
  BY <1>3, ExplainedMore DEF Covered
<1>6. Explained(blog, PageTip, PageFresh \cup mem'.index, mem'.unjudged)
  BY <1>4, ExplainedMore DEF Covered
<1>7. pull.answer.kind = "page" /\ LastPage =>
        AllSeen(blog, pull.settled \cap durable'.done, PageFresh \cup mem'.index, mem'.unjudged)
  <2>1. pull.settled \cap durable'.done \subseteq pull.settled \cap durable.done
    OBVIOUS
  <2> QED BY <1>4, <2>1, AllSeenMore DEF Covered
<1>8. AllSeen(blog, mem'.judged \cap durable'.done, mem'.index, mem'.unjudged)
  <2>1. mem'.judged \cap durable'.done \subseteq mem.judged \cap durable.done
    OBVIOUS
  <2> QED BY <2>1, AllSeenMore DEF Covered
<1> QED BY <1>1, <1>2, <1>5, <1>6, <1>7, <1>8 DEF Covered

(* A pull ends, and what it leaves behind is covered.                         *)
LEMMA CoverEnds ==
  ASSUME blog' = blog, pull' = NoPull,
         Explained(blog, durable'.anchor, Scanned'.index, durable'.unjudged),
         Explained(blog, mem'.anchor, mem'.index, mem'.unjudged),
         AllSeen(blog, mem'.judged \cap durable'.done, mem'.index, mem'.unjudged)
  PROVE  Covered'
<1>1. PageTip' = Genesis /\ pull'.tip = Genesis /\ pull'.answer.kind = "none"
  BY NoPullFields DEF PageTip
<1> QED BY <1>1, GenesisExplained DEF Covered

(* What the hub holds after a scan, or after one that failed, is covered.     *)
LEMMA AfterCovered ==
  ASSUME SafeInv, Covered, NEW ok \in BOOLEAN
  PROVE  Explained(blog, After(ok).anchor, After(ok).index, After(ok).unjudged)
BY DEF SafeInv, ReplayInv, Covered, After

LEMMA ForkSame ==
  ASSUME ForkInv, blog' = blog, pull' = pull,
         mem'.anchor \in {mem.anchor, durable.anchor}, durable'.anchor = durable.anchor,
         rewritten' = rewritten, headRead' = headRead,
         mem'.fork \in {mem.fork, Scanned.fork},
         Scanned'.fork = Scanned.fork, durable'.fork = durable.fork
  PROVE  ForkInv'
<1>1. PageTip' = PageTip
  BY DEF PageTip
<1> QED BY <1>1 DEF ForkInv

LEMMA ForkEnds ==
  ASSUME ForkInv, blog' = blog, pull' = NoPull, headRead' \in {headRead, <<>>},
         ~ rewritten' => /\ Reaches(blog, mem'.anchor) /\ Reaches(blog, durable'.anchor)
                         /\ mem'.fork = FALSE /\ Scanned'.fork = FALSE /\ durable'.fork = FALSE
  PROVE  ForkInv'
<1>1. PageTip' = Genesis /\ pull'.tip = Genesis /\ pull'.answer.kind = "none"
  BY NoPullFields DEF PageTip
<1>2. DOMAIN <<>> = {}
  OBVIOUS
<1> QED BY <1>1, <1>2, GenesisExplained DEF ForkInv

LEMMA BuilderAppendsPulled ==
  ASSUME SafeInv, PulledInv, NEW id \in Ids \cup {Local}, BuilderAppends(id)
  PROVE  PulledInv'
<1> USE DEF SafeInv, PulledInv
<1> DEFINE e == [h |-> written + 1, id |-> id]
<1>1. /\ blog' = Append(blog, e)
      /\ id # Local => id \notin durable.done
      /\ durable' = durable /\ tail' = tail /\ mem' = mem /\ pull' = pull
      /\ headRead' = headRead /\ rewritten' = rewritten /\ blind' = blind
  BY DEF BuilderAppends, hubVars, observers
<1>2. Scanned' = Scanned
  BY <1>1, ScannedSame
<1>3. PageTip' = PageTip /\ PageFresh' = PageFresh /\ LastPage' = LastPage
  BY <1>1 DEF PageTip, PageFresh, LastPage
<1>4. blog \in Seq(LogEntries) /\ written \in Nat /\ e.h = written + 1 /\ e.id = id
  BY ReconcileConstants DEF TypeInv
<1> HIDE DEF e
<1>5. /\ mem.anchor \in Heads /\ pull.tip \in Heads /\ PageTip \in Heads
      /\ durable.anchor \in Heads /\ durable.anchor.hash < e.h
      /\ mem.anchor.hash < e.h /\ pull.tip.hash < e.h /\ PageTip.hash < e.h
  <2>1. mem.anchor \in Heads /\ pull.tip \in Heads /\ PageTip \in Heads /\ durable.anchor \in Heads
    BY FactsFields, PullFields, PageFacts DEF TypeInv
  <2>2. /\ mem.anchor.hash <= written /\ durable.anchor.hash <= written
        /\ pull.tip.hash <= written /\ PageTip.hash <= written
    BY DEF PullInv
  <2> QED BY <1>4, <2>1, <2>2, HeadFields, ReconcileConstants
<1>6. CoverInv'
  <2> SUFFICES ASSUME ~ blind' PROVE Covered'
    BY DEF CoverInv
  <2> USE DEF CoverInv
  <2>1. e.id \notin durable.done
    BY <1>1, <1>4, FactsFields, ReconcileConstants DEF TypeInv
  <2>2. e.id \notin pull.settled \cap durable.done /\ e.id \notin mem.judged \cap durable.done
    BY <2>1
  <2>3. Explained(blog', durable.anchor, Scanned.index, durable.unjudged)
    BY <1>1, <1>4, <1>5, ExplainedAppend DEF Covered
  <2>4. Explained(blog', mem.anchor, mem.index, mem.unjudged)
    BY <1>1, <1>4, <1>5, ExplainedAppend DEF Covered
  <2>5. Explained(blog', pull.tip, pull.fresh \cup mem.index, mem.unjudged)
    BY <1>1, <1>4, <1>5, ExplainedAppend DEF Covered
  <2>6. Explained(blog', PageTip, PageFresh \cup mem.index, mem.unjudged)
    BY <1>1, <1>4, <1>5, ExplainedAppend DEF Covered
  <2>7. pull.answer.kind = "page" /\ LastPage =>
          AllSeen(blog', pull.settled \cap durable.done, PageFresh \cup mem.index, mem.unjudged)
    BY <1>1, <1>4, <2>2, AllSeenAppend DEF Covered
  <2>8. AllSeen(blog', mem.judged \cap durable.done, mem.index, mem.unjudged)
    BY <1>1, <1>4, <2>2, AllSeenAppend DEF Covered
  <2> QED BY <1>1, <1>2, <1>3, <2>3, <2>4, <2>5, <2>6, <2>7, <2>8 DEF Covered
<1>7. ForkInv'
  <2>1. /\ Reaches(blog', mem.anchor) <=> Reaches(blog, mem.anchor)
        /\ Reaches(blog', durable.anchor) <=> Reaches(blog, durable.anchor)
        /\ Reaches(blog', pull.tip) <=> Reaches(blog, pull.tip)
        /\ Reaches(blog', PageTip) <=> Reaches(blog, PageTip)
    BY <1>1, <1>4, <1>5, ReachesAppend
  <2>2. ASSUME NEW i \in DOMAIN headRead
        PROVE  Reaches(blog', headRead[i].head) <=> Reaches(blog, headRead[i].head)
    <3>1. headRead[i].head \in Heads /\ headRead[i].head.hash <= written
      BY HeadReadFields DEF PullInv
    <3>2. headRead[i].head.hash < e.h
      BY <1>4, <3>1, HeadFields, ReconcileConstants
    <3> QED BY <1>1, <1>4, <3>1, <3>2, ReachesAppend
  <2> QED BY <1>1, <1>2, <1>3, <2>1, <2>2 DEF ForkInv
<1> QED BY <1>6, <1>7

LEMMA BuilderRewritesPulled ==
  ASSUME SafeInv, PulledInv, BuilderRewrites
  PROVE  PulledInv'
<1> USE DEF SafeInv, PulledInv
<1>1. /\ rewritten' = TRUE
      /\ headRead' = [i \in DOMAIN headRead |-> [headRead[i] EXCEPT !.stale = TRUE]]
      /\ tail' = tail /\ mem' = mem /\ pull' = pull /\ durable' = durable /\ blind' = blind
  BY DEF BuilderRewrites
<1>2. PICK n \in 0..(Len(blog) - 1) : blog' = SubSeq(blog, 1, n)
  BY DEF BuilderRewrites
<1>3. Scanned' = Scanned
  BY <1>1, ScannedSame
<1>4. PageTip' = PageTip /\ PageFresh' = PageFresh /\ LastPage' = LastPage
  BY <1>1 DEF PageTip, PageFresh, LastPage
<1>5. blog \in Seq(LogEntries)
  BY DEF TypeInv
<1>6. CutTo(blog, n, blog')
  <2>1. n \in Nat /\ n <= Len(blog) /\ Len(blog) \in Nat
    BY <1>2, <1>5
  <2>2. \A i \in 1..n : blog[i] \in LogEntries
    BY <1>5, <2>1
  <2>3. blog' \in Seq(LogEntries) /\ Len(blog') = n /\ \A i \in 1..n : blog'[i] = blog[i]
    BY <1>2, <2>1, <2>2, SubSeqProperties
  <2> QED BY <1>5, <2>1, <2>3 DEF CutTo
<1>7. mem.anchor \in Heads /\ durable.anchor \in Heads /\ pull.tip \in Heads /\ PageTip \in Heads
  BY FactsFields, PullFields, PageFacts DEF TypeInv
<1>8. CoverInv'
  <2> SUFFICES ASSUME ~ blind' PROVE Covered'
    BY DEF CoverInv
  <2>0. Covered
    BY <1>1 DEF CoverInv
  <2>1. Explained(blog', durable.anchor, Scanned.index, durable.unjudged)
    BY <1>5, <1>6, <1>7, <2>0, ExplainedCut DEF Covered
  <2>2. Explained(blog', mem.anchor, mem.index, mem.unjudged)
    BY <1>5, <1>6, <1>7, <2>0, ExplainedCut DEF Covered
  <2>3. Explained(blog', pull.tip, pull.fresh \cup mem.index, mem.unjudged)
    BY <1>5, <1>6, <1>7, <2>0, ExplainedCut DEF Covered
  <2>4. Explained(blog', PageTip, PageFresh \cup mem.index, mem.unjudged)
    BY <1>5, <1>6, <1>7, <2>0, ExplainedCut DEF Covered
  <2>5. pull.answer.kind = "page" /\ LastPage =>
          AllSeen(blog', pull.settled \cap durable.done, PageFresh \cup mem.index, mem.unjudged)
    BY <1>6, <2>0, AllSeenCut DEF Covered
  <2>6. AllSeen(blog', mem.judged \cap durable.done, mem.index, mem.unjudged)
    BY <1>6, <2>0, AllSeenCut DEF Covered
  <2> QED BY <1>1, <1>3, <1>4, <2>1, <2>2, <2>3, <2>4, <2>5, <2>6 DEF Covered
<1>9. ForkInv'
  <2>1. ASSUME NEW i \in DOMAIN headRead' PROVE headRead'[i].stale = TRUE
    <3> DEFINE S == [head : Heads, stale : BOOLEAN]
    <3>1. headRead \in Seq(S)
      BY DEF TypeInv
    <3>2. headRead[i] \in S
      <4> HIDE DEF S
      <4> QED BY <1>1, <3>1
    <3>3. headRead'[i] = [headRead[i] EXCEPT !.stale = TRUE]
      BY <1>1
    <3> QED BY <3>2, <3>3
  <2> QED BY <1>1, <2>1 DEF ForkInv
<1> QED BY <1>8, <1>9

(* An action that is answered now was not to be judged before.               *)
LEMMA RelayLogsPulled ==
  ASSUME SafeInv, PulledInv, NEW id \in Ids, NEW action \in {"sent", "done", "unsent"},
         RelayLogs(action, id)
  PROVE  PulledInv'
<1> USE DEF SafeInv, PulledInv
<1> DEFINE e == [action |-> action, id |-> id]
<1>1. e \in HubEntries /\ e.action = action /\ e.id = id
  BY DEF HubEntries
<1> HIDE DEF e
<1>2. /\ action = "done" => id \notin Settled
      /\ durable' = Replay(durable, <<e>>) /\ tail' = tail \o <<e>> /\ mem' = mem
      /\ blog' = blog /\ pull' = pull /\ headRead' = headRead /\ rewritten' = rewritten
      /\ blind' = blind
  BY DEF RelayLogs, InFlight, Settled, Logged, builderVars, observers, e
<1>3. durable' = Note(durable, e) /\ Scanned' = Note(Scanned, e)
  BY <1>1, <1>2, ReplayOne, ScannedAppend
<1>4. NotedFrom(durable, e, durable') /\ NotedFrom(Scanned, e, Scanned')
  BY <1>1, <1>3, NoteFields DEF TypeInv
<1>5. /\ Scanned'.index = Scanned.index /\ Scanned'.fork = Scanned.fork
      /\ durable'.fork = durable.fork /\ durable'.anchor = durable.anchor
      /\ durable'.unjudged = durable.unjudged
      /\ durable'.done \subseteq durable.done \cup {id}
      /\ action # "done" => durable'.done = durable.done
  BY <1>1, <1>4 DEF NotedFrom
<1>6. durable'.done \cap (pull.settled \cup mem.judged) \subseteq durable.done
  BY <1>2, <1>5 DEF PullInv, ReplayInv
<1>7. CoverInv'
  <2> SUFFICES ASSUME ~ blind' PROVE Covered'
    BY DEF CoverInv
  <2>1. Covered
    BY <1>2 DEF CoverInv
  <2>2. Explained(blog, mem.anchor, mem.index, mem.unjudged)
    BY <2>1 DEF Covered
  <2> QED BY <1>2, <1>5, <1>6, <2>1, <2>2, CoverSame
<1>8. ForkInv'
  BY <1>2, <1>5, ForkSame
<1> QED BY <1>7, <1>8

(* A step that leaves the builder's log, the hub and its log alone.          *)
LEMMA HubSamePulled ==
  ASSUME PulledInv, blog' = blog, durable' = durable, tail' = tail, mem' = mem, pull' = pull,
         rewritten' = rewritten, blind' = blind
  PROVE  CoverInv' /\ (headRead' = headRead => ForkInv')
<1> USE DEF PulledInv
<1>1. Scanned' = Scanned
  BY ScannedSame
<1>2. CoverInv'
  <2> SUFFICES ASSUME ~ blind' PROVE Covered'
    BY DEF CoverInv
  <2>1. Covered
    BY DEF CoverInv
  <2>2. Explained(blog, mem.anchor, mem.index, mem.unjudged)
    BY <2>1 DEF Covered
  <2> QED BY <1>1, <2>1, <2>2, CoverSame
<1>3. ASSUME headRead' = headRead PROVE ForkInv'
  BY <1>1, <1>3, ForkSame
<1> QED BY <1>2, <1>3

LEMMA RelayGivesUpPulled ==
  ASSUME SafeInv, PulledInv, NEW id \in Ids, RelayGivesUp(id)
  PROVE  PulledInv'
<1>1. /\ blog' = blog /\ durable' = durable /\ tail' = tail /\ mem' = mem /\ pull' = pull
      /\ headRead' = headRead /\ rewritten' = rewritten /\ blind' = blind
  BY DEF RelayGivesUp, hubVars, observers
<1> QED BY <1>1, HubSamePulled DEF PulledInv

LEMMA TickPulled ==
  ASSUME SafeInv, PulledInv, Tick
  PROVE  PulledInv'
<1> USE DEF SafeInv, PulledInv
<1>1. PICK ok \in BOOLEAN : mem' = After(ok) /\ tail' = Unread(ok)
  BY DEF Tick
<1>2. /\ blog' = blog /\ durable' = durable /\ headRead' = headRead
      /\ rewritten' = rewritten /\ blind' = blind
  BY DEF Tick, builderVars, observers
<1>3. /\ Scanned' = Scanned
      /\ mem.unjudged \subseteq mem'.unjudged /\ mem.index \subseteq mem'.index
      /\ mem'.judged \subseteq mem.judged
      /\ mem'.anchor \in {mem.anchor, durable.anchor} /\ mem'.fork \in {mem.fork, Scanned.fork}
  BY <1>1, AfterFacts DEF Scanned
<1>4. Covered => Explained(blog, mem'.anchor, mem'.index, mem'.unjudged)
  BY <1>1, AfterCovered
<1>5. CASE pull.st # "none"
  <2>1. pull' = pull
    BY <1>5 DEF Tick
  <2>2. CoverInv'
    <3> SUFFICES ASSUME ~ blind' PROVE Covered'
      BY DEF CoverInv
    <3>1. Covered
      BY <1>2 DEF CoverInv
    <3> QED BY <1>2, <1>3, <1>4, <2>1, <3>1, CoverSame
  <2>3. ForkInv'
    BY <1>2, <1>3, <2>1, ForkSame
  <2> QED BY <2>2, <2>3
<1>6. CASE pull.st = "none"
  <2>1. pull' = [NoPull EXCEPT !.st = "asked", !.anchor = mem'.anchor, !.tip = mem'.anchor,
                               !.pages = 1, !.settled = Settled]
    BY <1>6 DEF Tick
  <2>2. /\ pull'.tip = mem'.anchor /\ pull'.fresh = {}
        /\ pull'.answer.kind = "none" /\ pull'.answer.entries = <<>>
    BY <2>1, NoPullFields DEF Pulls
  <2>3. PageTip' = mem'.anchor /\ PageFresh' = {}
    <3>1. Range(<<>>) = {}
      BY DEF Range
    <3> QED BY <2>2, <3>1 DEF PageTip, PageFresh
  <2>4. CoverInv'
    <3> SUFFICES ASSUME ~ blind' PROVE Covered'
      BY DEF CoverInv
    <3>1. Covered
      BY <1>2 DEF CoverInv
    <3>2. {} \cup mem'.index = mem'.index
      OBVIOUS
    <3>3. AllSeen(blog, mem'.judged \cap durable.done, mem'.index, mem'.unjudged)
      <4>1. mem'.judged \cap durable.done \subseteq mem.judged \cap durable.done
        BY <1>3
      <4> QED BY <1>3, <3>1, <4>1, AllSeenMore DEF Covered
    <3>4. Explained(blog, durable.anchor, Scanned.index, durable.unjudged)
      BY <3>1 DEF Covered
    <3> QED BY <1>2, <1>3, <1>4, <2>2, <2>3, <3>1, <3>2, <3>3, <3>4 DEF Covered
  <2>5. ForkInv'
    BY <1>2, <1>3, <2>2, <2>3 DEF ForkInv
  <2> QED BY <2>4, <2>5
<1> QED BY <1>5, <1>6

(* What an answer adds to the pull.                                          *)
LEMMA AnsweredFields ==
  ASSUME SafeInv, NEW a \in Answers, Answered(a)
  PROVE  /\ blog' = blog /\ mem' = mem /\ tail' = tail /\ durable' = durable
         /\ headRead' = headRead /\ rewritten' = rewritten /\ blind' = blind
         /\ pull'.tip = pull.tip /\ pull'.fresh = pull.fresh /\ pull'.settled = pull.settled
         /\ pull'.answer = a
         /\ a.entries = <<>> => PageTip' = pull.tip /\ PageFresh' = pull.fresh
         /\ a.entries # <<>> => PageTip'.hash = a.entries[Len(a.entries)].h
         /\ PageTip'.count = pull.tip.count + Len(a.entries)
         /\ pull.fresh \subseteq PageFresh'
         /\ \A i \in 1..Len(a.entries) : a.entries[i].id # Local => a.entries[i] \in PageFresh'
<1> USE DEF SafeInv
<1>1. /\ pull' = [pull EXCEPT !.st = "answered", !.answer = a]
      /\ blog' = blog /\ mem' = mem /\ tail' = tail /\ durable' = durable
      /\ headRead' = headRead /\ rewritten' = rewritten /\ blind' = blind
  BY DEF Answered, builderVars, observers
<1>2. pull \in Pulls /\ pull.tip \in Heads /\ pull.tip.count \in Nat
  BY PullFields, HeadFields, ReconcileConstants DEF TypeInv
<1>3. /\ pull'.tip = pull.tip /\ pull'.fresh = pull.fresh /\ pull'.settled = pull.settled
      /\ pull'.answer = a
  BY <1>1, <1>2 DEF Pulls
<1> DEFINE en == a.entries
<1>4. en \in Seq(LogEntries)
  BY DEF Answers
<1>5. /\ PageTip' = IF en = <<>> THEN pull.tip
                    ELSE [hash |-> Last(en).h, count |-> pull.tip.count + Len(en)]
      /\ PageFresh' = pull.fresh \cup {e \in Range(en) : e.id # Local}
  BY <1>3 DEF PageTip, PageFresh
<1> HIDE DEF en
<1>6. Len(en) \in Nat /\ DOMAIN en = 1..Len(en)
  BY <1>4
<1>7. /\ pull.fresh \subseteq PageFresh'
      /\ \A i \in 1..Len(en) : en[i].id # Local => en[i] \in PageFresh'
  BY <1>5, <1>6 DEF Range
<1>8. CASE en = <<>>
  <2>1. Len(en) = 0 /\ Range(en) = {}
    BY <1>8 DEF Range
  <2> QED BY <1>1, <1>2, <1>3, <1>5, <1>7, <1>8, <2>1 DEF en
<1>9. CASE en # <<>>
  <2>1. PageTip' = [hash |-> en[Len(en)].h, count |-> pull.tip.count + Len(en)]
    BY <1>5, <1>9 DEF Last
  <2> QED BY <1>1, <1>3, <1>7, <1>9, <2>1 DEF en
<1> QED BY <1>8, <1>9

(* An answer without entries covers what was covered.                         *)
LEMMA EmptyAnswerPulled ==
  ASSUME SafeInv, PulledInv, NEW a \in Answers, Answered(a),
         a.entries = <<>>, a.kind # "page", a.kind = "fork" => rewritten
  PROVE  PulledInv'
<1> USE DEF SafeInv, PulledInv
<1>1. /\ blog' = blog /\ mem' = mem /\ tail' = tail /\ durable' = durable
      /\ headRead' = headRead /\ rewritten' = rewritten /\ blind' = blind
      /\ pull'.tip = pull.tip /\ pull'.fresh = pull.fresh /\ pull'.answer = a
      /\ PageTip' = pull.tip /\ PageFresh' = pull.fresh
  BY AnsweredFields
<1>2. Scanned' = Scanned
  BY <1>1, ScannedSame
<1>3. CoverInv'
  BY <1>1, <1>2 DEF CoverInv, Covered
<1>4. ForkInv'
  BY <1>1, <1>2 DEF ForkInv
<1> QED BY <1>3, <1>4

LEMMA ReadFailsPulled ==
  ASSUME SafeInv, PulledInv, ReadFails
  PROVE  PulledInv'
<1> DEFINE a == [NoAnswer EXCEPT !.kind = "failed"]
<1>1. a \in Answers /\ a.kind = "failed" /\ a.entries = <<>>
  BY NoAnswerFields
<1>2. Answered(a)
  BY DEF ReadFails
<1> HIDE DEF a
<1> QED BY <1>1, <1>2, EmptyAnswerPulled

(* A page continues a log that reaches the tip: what follows the tip is in it. *)
LEMMA BuilderAnswersPulled ==
  ASSUME SafeInv, PulledInv, BuilderAnswers
  PROVE  PulledInv'
<1> USE DEF SafeInv, PulledInv
<1> DEFINE a == Segment(pull.tip)
<1>1. /\ pull.tip \in Heads /\ pull.tip.count \in Nat /\ Answered(a)
      /\ blog \in Seq(LogEntries) /\ Len(blog) \in Nat
  BY PullFields, HeadFields, ReconcileConstants DEF TypeInv, BuilderAnswers
<1>2. /\ a \in Answers /\ a.kind \in {"fork", "page"}
      /\ a.kind = "fork" <=> ~ Reaches(blog, pull.tip)
      /\ a.kind # "page" => a.entries = <<>>
      /\ a.kind = "page" =>
           /\ pull.tip.count + Len(a.entries) <= Len(blog)
           /\ \A i \in 1..Len(a.entries) : a.entries[i] = blog[pull.tip.count + i]
           /\ ~ a.more => pull.tip.count + Len(a.entries) = Len(blog)
  BY <1>1, SegmentFacts DEF OnLog, Reaches
<1> HIDE DEF a
<1>3. CASE a.kind # "page"
  BY <1>1, <1>2, <1>3, EmptyAnswerPulled DEF ForkInv
<1>4. CASE a.kind = "page"
  <2> DEFINE n == Len(a.entries)
  <2>1. n \in Nat
    BY <1>2 DEF Answers
  <2>2. /\ blog' = blog /\ mem' = mem /\ tail' = tail /\ durable' = durable
        /\ headRead' = headRead /\ rewritten' = rewritten /\ blind' = blind
        /\ pull'.tip = pull.tip /\ pull'.fresh = pull.fresh /\ pull'.settled = pull.settled
        /\ pull'.answer = a
        /\ PageTip'.count = pull.tip.count + n
        /\ pull.fresh \subseteq PageFresh'
        /\ \A i \in 1..n : a.entries[i].id # Local => a.entries[i] \in PageFresh'
    BY <1>1, <1>2, AnsweredFields
  <2> HIDE DEF n
  <2>3. Scanned' = Scanned
    BY <2>2, ScannedSame
  <2>4. pull.tip.count + n <= Len(blog) /\ Reaches(blog, pull.tip)
    BY <1>2, <1>4 DEF n
  <2>5. CoverInv'
    <3> SUFFICES ASSUME ~ blind' PROVE Covered'
      BY DEF CoverInv
    <3>0. Covered
      BY <2>2 DEF CoverInv
    <3>1. ASSUME NEW i \in 1..(pull.tip.count + n)
          PROVE  \/ blog[i].id = Local
                 \/ blog[i] \in PageFresh' \cup mem.index
                 \/ blog[i].id \in mem.unjudged
      <4>1. CASE i <= pull.tip.count
        <5>1. i \in 1..pull.tip.count
          BY <1>1, <2>1, <4>1
        <5> QED BY <2>2, <2>4, <3>0, <5>1 DEF Covered, Explained
      <4>2. CASE i > pull.tip.count
        <5>1. i - pull.tip.count \in 1..n /\ pull.tip.count + (i - pull.tip.count) = i
          BY <1>1, <2>1, <4>2
        <5>2. a.entries[i - pull.tip.count] = blog[i]
          BY <1>2, <1>4, <5>1 DEF n
        <5> QED BY <2>2, <5>1, <5>2
      <4> QED BY <1>1, <2>1, <4>1, <4>2
    <3>2. Explained(blog, PageTip', PageFresh' \cup mem.index, mem.unjudged)
      BY <2>2, <3>1 DEF Explained
    <3>3. ~ a.more =>
            AllSeen(blog, pull.settled \cap durable.done, PageFresh' \cup mem.index, mem.unjudged)
      <4> SUFFICES ASSUME ~ a.more, NEW i \in DOMAIN blog, blog[i].id \in pull.settled
                   PROVE  blog[i] \in PageFresh' \cup mem.index \/ blog[i].id \in mem.unjudged
        BY DEF AllSeen
      <4>1. i \in 1..(pull.tip.count + n)
        BY <1>1, <1>2, <1>4 DEF n
      <4>2. blog[i].id # Local
        BY PullFields, ReconcileConstants DEF TypeInv
      <4> QED BY <3>1, <4>1, <4>2
    <3> QED BY <2>2, <2>3, <3>0, <3>2, <3>3 DEF Covered, LastPage
  <2>6. ForkInv'
    <3>1. Reaches(blog, PageTip')
      <4>1. CASE a.entries = <<>>
        BY <1>1, <1>2, <2>4, <4>1, AnsweredFields
      <4>2. CASE a.entries # <<>>
        <5>1. n \in 1..n
          BY <1>2, <4>2 DEF Answers, n
        <5>2. PageTip'.hash = a.entries[n].h
          BY <1>1, <1>2, <4>2, AnsweredFields DEF n
        <5>3. a.entries[n] = blog[pull.tip.count + n]
          BY <1>2, <1>4, <5>1 DEF n
        <5> QED BY <2>2, <2>4, <5>2, <5>3 DEF Reaches
      <4> QED BY <4>1, <4>2
    <3> QED BY <1>4, <2>2, <2>3, <3>1 DEF ForkInv
  <2> QED BY <2>5, <2>6
<1> QED BY <1>3, <1>4

LEMMA AskNextPagePulled ==
  ASSUME SafeInv, PulledInv, AskNextPage
  PROVE  PulledInv'
<1> USE DEF SafeInv, PulledInv
<1>1. /\ pull' = [pull EXCEPT !.st = "asked", !.tip = PageTip, !.fresh = PageFresh,
                              !.pages = @ + 1, !.answer = NoAnswer]
      /\ blog' = blog /\ durable' = durable /\ tail' = tail /\ mem' = mem
      /\ headRead' = headRead /\ rewritten' = rewritten /\ blind' = blind
  BY DEF AskNextPage, builderVars, observers
<1>2. Scanned' = Scanned
  BY <1>1, ScannedSame
<1>3. NoAnswer.kind = "none" /\ NoAnswer.entries = <<>>
  BY DEF NoAnswer
<1>4. pull'.tip = PageTip /\ pull'.fresh = PageFresh /\ pull'.answer = NoAnswer
  BY <1>1 DEF TypeInv, Pulls
<1>5. PageTip' = PageTip /\ PageFresh' = PageFresh
  <2>1. Range(<<>>) = {}
    BY DEF Range
  <2>2. PageTip' = pull'.tip
    BY <1>3, <1>4 DEF PageTip
  <2>3. PageFresh' = pull'.fresh \cup {e \in Range(<<>>) : e.id # Local}
    BY <1>3, <1>4 DEF PageFresh
  <2> QED BY <1>4, <2>1, <2>2, <2>3
<1>6. CoverInv'
  BY <1>1, <1>2, <1>3, <1>4, <1>5 DEF CoverInv, Covered
<1>7. ForkInv'
  BY <1>1, <1>2, <1>3, <1>4, <1>5 DEF ForkInv
<1> QED BY <1>6, <1>7

(* A fork is answered only of a log that lost entries.                        *)
LEMMA RaiseForkPulled ==
  ASSUME SafeInv, PulledInv, RaiseFork
  PROVE  PulledInv'
<1> USE DEF SafeInv, PulledInv
<1>1. /\ pull.answer.kind = "fork" /\ pull' = NoPull /\ blog' = blog /\ blind' = blind
      /\ headRead' = headRead /\ rewritten' = rewritten
  BY DEF RaiseFork, Ends, Forked, builderVars
<1>2. rewritten' = TRUE
  BY <1>1 DEF ForkInv, TypeInv
<1>3. /\ mem'.anchor = mem.anchor /\ mem'.index = mem.index /\ mem'.unjudged = mem.unjudged
      /\ mem'.judged = mem.judged /\ Scanned'.index = Scanned.index
      /\ durable'.anchor = durable.anchor /\ durable'.unjudged = durable.unjudged
      /\ durable'.done = durable.done
  BY RaiseForkFields
<1>4. CoverInv'
  <2> SUFFICES ASSUME ~ blind' PROVE Covered'
    BY DEF CoverInv
  <2>1. Covered
    BY <1>1 DEF CoverInv
  <2>2. /\ Explained(blog, durable.anchor, Scanned.index, durable.unjudged)
        /\ Explained(blog, mem.anchor, mem.index, mem.unjudged)
        /\ AllSeen(blog, mem.judged \cap durable.done, mem.index, mem.unjudged)
    BY <2>1 DEF Covered
  <2> QED BY <1>1, <1>3, <2>2, CoverEnds
<1>5. ForkInv'
  BY <1>1, <1>2, ForkEnds
<1> QED BY <1>4, <1>5

(* A pull that read its last page has read a page.                            *)
LEMMA CompleteIsPage ==
  ASSUME SafeInv, pull.st = "answered", ~ Forked, Complete
  PROVE  /\ pull.answer.kind = "page" /\ LastPage
         /\ EndTip = PageTip /\ EndFresh = PageFresh
<1>1. pull.answer.kind \in {"none", "failed", "fork", "page"} /\ pull.answer.kind # "none"
  BY PullFields DEF SafeInv, TypeInv, PullInv
<1> QED BY <1>1 DEF Complete, Forked, Failed, EndTip, EndFresh

(* A complete pull that did not move has seen nothing new via the hub.        *)
LEMMA EndWithoutAnchorPulled ==
  ASSUME SafeInv, PulledInv, EndWithoutAnchor
  PROVE  PulledInv'
<1> USE DEF SafeInv, PulledInv
<1>1. /\ pull.st = "answered" /\ ~ Forked /\ blind' = blind
      /\ EndErr = "fork" \/ EndTip = pull.anchor
      /\ pull' = NoPull /\ blog' = blog /\ headRead' = headRead /\ rewritten' = rewritten
  BY DEF EndWithoutAnchor, Ends, builderVars
<1>2. /\ durable' = durable /\ mem'.anchor = mem.anchor /\ mem'.fork = mem.fork
      /\ mem'.index = mem.index /\ mem'.unjudged = mem.unjudged
      /\ Scanned'.index = Scanned.index /\ Scanned'.fork = Scanned.fork
      /\ \/ mem'.judged = mem.judged
         \/ EndErr # "fork" /\ Complete /\ mem'.judged = pull.settled
  BY EndWithoutAnchorFields
<1>3. CoverInv'
  <2> SUFFICES ASSUME ~ blind' PROVE Covered'
    BY DEF CoverInv
  <2>1. Covered
    BY <1>1 DEF CoverInv
  <2>2. AllSeen(blog, mem'.judged \cap durable.done, mem.index, mem.unjudged)
    <3>1. CASE mem'.judged = mem.judged
      BY <2>1, <3>1 DEF Covered
    <3>2. CASE EndErr # "fork" /\ Complete /\ mem'.judged = pull.settled
      <4>1. pull.answer.kind = "page" /\ LastPage /\ PageTip = pull.anchor
        BY <1>1, <3>2, CompleteIsPage
      <4>2. pull.anchor.count \in Nat
        BY PullFields, HeadFields, ReconcileConstants DEF TypeInv
      <4>3. PageFresh = {}
        BY <4>1, <4>2, PageFacts
      <4>4. PageFresh \cup mem.index = mem.index
        BY <4>3
      <4> QED BY <2>1, <3>2, <4>1, <4>4 DEF Covered
    <3> QED BY <1>2, <3>1, <3>2
  <2>3. /\ Explained(blog, durable.anchor, Scanned.index, durable.unjudged)
        /\ Explained(blog, mem.anchor, mem.index, mem.unjudged)
    BY <2>1 DEF Covered
  <2> QED BY <1>1, <1>2, <2>2, <2>3, CoverEnds
<1>4. ForkInv'
  BY <1>1, <1>2, ForkEnds DEF ForkInv
<1> QED BY <1>3, <1>4

(* What the pull has read is matched before its end becomes the anchor; if    *)
(* the hub's log was not read then, the hub was blind.                       *)
LEMMA EndWithAnchorPulled ==
  ASSUME SafeInv, PulledInv, EndWithAnchor
  PROVE  PulledInv'
<1> USE DEF SafeInv, PulledInv
<1>1. /\ pull.st = "answered" /\ ~ Forked
      /\ pull' = NoPull /\ blog' = blog /\ headRead' = headRead /\ rewritten' = rewritten
  BY DEF EndWithAnchor, Moves, Ends, builderVars
<1>2. PICK ok \in BOOLEAN :
        /\ mem' = Indexed(After(ok), ok) /\ blind' = (blind \/ ~ ok)
        /\ Logged(Unread(ok), MatchEntry(After(ok)) \o <<[action |-> "anchor", head |-> EndTip]>>)
  BY DEF EndWithAnchor, ForIndexing
<1> DEFINE b == After(ok)
<1>3. /\ mem'.anchor = EndTip /\ mem'.unjudged = b.unjudged
      /\ mem'.index = b.index \cup Matched(b) /\ mem'.fork = b.fork
      /\ mem'.judged = IF Complete THEN pull.settled ELSE b.judged
      /\ durable'.done = durable.done /\ durable'.anchor = EndTip
      /\ durable'.unjudged = durable.unjudged /\ durable'.fork = durable.fork
      /\ Scanned'.index = Scanned.index \cup Matched(b) /\ Scanned'.fork = Scanned.fork
  BY <1>2, EndWithAnchorFields
<1>4. /\ b.fork \in {mem.fork, Scanned.fork} /\ b.judged \subseteq mem.judged
      /\ mem.unjudged \subseteq b.unjudged /\ b.unjudged \subseteq durable.unjudged
      /\ mem.index \subseteq b.index /\ b.index \subseteq Scanned.index
  BY AfterFacts
<1>5. ~ rewritten => Reaches(blog, EndTip)
  BY DEF ForkInv, EndTip
<1>6. CoverInv'
  <2> SUFFICES ASSUME ~ blind' PROVE Covered'
    BY DEF CoverInv
  <2>1. ok /\ Covered
    BY <1>2 DEF CoverInv
  <2>2. b.sent = durable.sent
    BY <2>1 DEF After, ReplayInv
  <2> DEFINE index == b.index \cup Matched(b)
  <2>3. EndFresh \cup mem.index \subseteq index
    <3>1. \A e \in EndFresh : e.id \in b.sent
      BY <2>2, EndFacts DEF LogInv
    <3> QED BY <1>4, <3>1 DEF Matched
  <2>4. index \subseteq Scanned'.index /\ mem'.index = index
    BY <1>3, <1>4
  <2> HIDE DEF index, b
  <2>5. Explained(blog, EndTip, EndFresh \cup mem.index, mem.unjudged)
    BY <2>1 DEF Covered, EndTip, EndFresh
  <2>6. Explained(blog, EndTip, index, b.unjudged)
    BY <1>4, <2>3, <2>5, ExplainedMore
  <2>7. Explained(blog, EndTip, Scanned'.index, durable.unjudged)
    BY <1>4, <2>4, <2>6, ExplainedMore
  <2>8. AllSeen(blog, mem'.judged \cap durable.done, index, b.unjudged)
    <3>1. CASE Complete
      <4>1. pull.answer.kind = "page" /\ LastPage /\ EndFresh = PageFresh
        BY <1>1, <3>1, CompleteIsPage
      <4>2. AllSeen(blog, pull.settled \cap durable.done, EndFresh \cup mem.index, mem.unjudged)
        BY <2>1, <4>1 DEF Covered
      <4>3. mem'.judged = pull.settled
        BY <1>3, <3>1
      <4> QED BY <1>4, <2>3, <4>2, <4>3, AllSeenMore
    <3>2. CASE ~ Complete
      <4>1. mem'.judged \cap durable.done \subseteq mem.judged \cap durable.done
        BY <1>3, <1>4, <3>2
      <4>2. mem.index \subseteq index
        BY <2>3
      <4> QED BY <1>4, <2>1, <4>1, <4>2, AllSeenMore DEF Covered
    <3> QED BY <3>1, <3>2
  <2> QED BY <1>1, <1>3, <2>4, <2>6, <2>7, <2>8, CoverEnds
<1> HIDE DEF b
<1>7. ForkInv'
  BY <1>1, <1>3, <1>4, <1>5, ForkEnds DEF ForkInv
<1> QED BY <1>6, <1>7

LEMMA AnchorFailsPulled ==
  ASSUME SafeInv, PulledInv, AnchorFails
  PROVE  PulledInv'
<1> USE DEF SafeInv, PulledInv
<1>1. /\ pull' = NoPull /\ blog' = blog /\ headRead' = headRead /\ rewritten' = rewritten
      /\ blind' = blind
  BY DEF AnchorFails, Moves, Ends, builderVars
<1>2. PICK ok \in BOOLEAN : /\ mem' = AsFailed(After(ok))
                            /\ \E en \in {<<>>, MatchEntry(After(ok))} : Logged(Unread(ok), en)
  BY DEF AnchorFails, ForIndexing, AsFailed
<1> DEFINE b == After(ok)
<1>3. /\ mem'.anchor = b.anchor /\ mem'.unjudged = b.unjudged /\ mem'.index = b.index
      /\ mem'.fork = b.fork /\ mem'.judged = b.judged
      /\ durable'.done = durable.done /\ durable'.anchor = durable.anchor
      /\ durable'.unjudged = durable.unjudged /\ durable'.fork = durable.fork
      /\ Scanned.index \subseteq Scanned'.index /\ Scanned'.fork = Scanned.fork
  BY <1>2, AnchorFailsFields
<1>4. /\ b.fork \in {mem.fork, Scanned.fork} /\ b.judged \subseteq mem.judged
      /\ mem.unjudged \subseteq b.unjudged /\ mem.index \subseteq b.index
      /\ b.anchor \in {mem.anchor, durable.anchor}
  BY AfterFacts
<1>5. Covered => Explained(blog, b.anchor, b.index, b.unjudged)
  BY AfterCovered
<1> HIDE DEF b
<1>6. CoverInv'
  <2> SUFFICES ASSUME ~ blind' PROVE Covered'
    BY DEF CoverInv
  <2>1. Covered
    BY <1>1 DEF CoverInv
  <2>2. Explained(blog, durable.anchor, Scanned'.index, durable.unjudged)
    BY <1>3, <2>1, ExplainedMore DEF Covered
  <2>3. AllSeen(blog, b.judged \cap durable.done, b.index, b.unjudged)
    <3>1. b.judged \cap durable.done \subseteq mem.judged \cap durable.done
      BY <1>4
    <3> QED BY <1>4, <2>1, <3>1, AllSeenMore DEF Covered
  <2> QED BY <1>1, <1>3, <1>5, <2>1, <2>2, <2>3, CoverEnds
<1>7. ForkInv'
  BY <1>1, <1>3, <1>4, ForkEnds DEF ForkInv
<1> QED BY <1>6, <1>7

(* A rebase judges nothing the hub had relayed before, and no pull is running *)
(* that could bring back what was read before it.                            *)
LEMMA RebaseOntoPulled ==
  ASSUME SafeInv, PulledInv, NEW head \in Heads, RebaseOnto(head), pull.st = "none",
         blog' = blog, pull' = pull, headRead' \in {headRead, <<>>},
         ~ rewritten' => Reaches(blog, head)
  PROVE  PulledInv'
<1> USE DEF SafeInv, PulledInv
<1>1. pull' = NoPull
  BY DEF PullInv
<1> DEFINE before == IF head.count > 0 THEN durable.sent ELSE {}
<1>2. /\ mem'.anchor = head /\ mem'.fork = FALSE /\ durable'.fork = FALSE
      /\ durable'.anchor = head /\ durable'.unjudged = before
      /\ Scanned'.fork = FALSE /\ mem'.judged = {} /\ mem'.unjudged = before
  BY RebaseFields DEF RebasedFrom
<1>3. ASSUME NEW seen PROVE Explained(blog, head, seen, before)
  <2> SUFFICES ASSUME Reaches(blog, head), NEW i \in 1..head.count
               PROVE  blog[i].id = Local \/ blog[i].id \in before
    BY DEF Explained
  <2>1. head.count \in Nat /\ blog \in Seq(LogEntries) /\ Len(blog) \in Nat
    BY HeadFields, ReconcileConstants DEF TypeInv
  <2>2. i \in DOMAIN blog /\ head.count > 0
    BY <2>1 DEF Reaches
  <2> QED BY <1>2, <2>2 DEF LogInv
<1> HIDE DEF before
<1>4. AllSeen(blog, mem'.judged \cap durable'.done, mem'.index, mem'.unjudged)
  BY <1>2 DEF AllSeen
<1>5. CoverInv'
  BY <1>1, <1>2, <1>3, <1>4, CoverEnds DEF CoverInv
<1>6. ForkInv'
  BY <1>1, <1>2, ForkEnds
<1> QED BY <1>5, <1>6

LEMMA RebasePulled ==
  ASSUME ~ RebaseInFlight, SafeInv, PulledInv, Rebase
  PROVE  PulledInv'
<1>1. /\ RebaseOnto(Genesis) /\ pull.st = "none" /\ rewritten' = FALSE
      /\ blog' = blog /\ pull' = pull /\ headRead' = headRead
  BY DEF Rebase, MayRebase, builderVars
<1> QED BY <1>1, GenesisHead, GenesisExplained, RebaseOntoPulled

LEMMA RebaseToHeadPulled ==
  ASSUME ~ RebaseInFlight, SafeInv, PulledInv, RebaseToHead
  PROVE  PulledInv'
<1>1. /\ headRead # <<>> /\ RebaseOnto(headRead[1].head) /\ pull.st = "none"
      /\ rewritten' = headRead[1].stale
      /\ blog' = blog /\ pull' = pull /\ headRead' = <<>>
  BY DEF RebaseToHead, MayRebase, builderVars
<1>2. 1 \in DOMAIN headRead
  BY <1>1 DEF SafeInv, TypeInv
<1>3. headRead[1].head \in Heads
  BY <1>2, HeadReadFields DEF SafeInv
<1>4. headRead[1].stale \/ Reaches(blog, headRead[1].head)
  BY <1>2 DEF PulledInv, ForkInv
<1> QED BY <1>1, <1>3, <1>4, RebaseOntoPulled

LEMMA ReadHeadPulled ==
  ASSUME SafeInv, PulledInv, ReadHead
  PROVE  PulledInv'
<1> USE DEF SafeInv, PulledInv
<1> DEFINE r == [head |-> HeadOf(blog), stale |-> FALSE]
<1>1. /\ headRead' = <<r>> /\ blog' = blog /\ durable' = durable /\ tail' = tail
      /\ mem' = mem /\ pull' = pull /\ rewritten' = rewritten /\ blind' = blind
  BY DEF ReadHead, builderVars, observers
<1>2. Scanned' = Scanned
  BY <1>1, ScannedSame
<1>3. PageTip' = PageTip
  BY <1>1 DEF PageTip
<1>4. Reaches(blog, r.head)
  BY HeadOfBlog DEF OnLog, Reaches
<1> HIDE DEF r
<1>5. CoverInv'
  BY <1>1, HubSamePulled
<1>6. ForkInv'
  BY <1>1, <1>2, <1>3, <1>4 DEF ForkInv
<1> QED BY <1>5, <1>6

LEMMA HubRestartPulled ==
  ASSUME SafeInv, PulledInv, HubRestart
  PROVE  PulledInv'
<1> USE DEF SafeInv, PulledInv
<1>1. /\ durable' = durable /\ pull' = NoPull /\ blind' = blind
      /\ headRead' = <<>> /\ blog' = blog /\ rewritten' = rewritten
      /\ \/ mem' = durable /\ tail' = <<>>
         \/ mem' = Fresh /\ tail' = <<[action |-> "log", facts |-> durable]>>
  BY DEF HubRestart, observers
<1>2. /\ Scanned'.index = durable.index /\ Scanned'.fork = durable.fork
      /\ \/ mem'.anchor = durable.anchor /\ mem'.index = durable.index
            /\ mem'.unjudged = durable.unjudged /\ mem'.fork = durable.fork
         \/ mem'.anchor = Genesis /\ mem'.fork = FALSE
      /\ mem'.judged = {}
  <2>1. CASE mem' = durable /\ tail' = <<>>
    <3>1. Scanned' = durable
      BY <2>1, ReplayEmpty DEF Scanned
    <3> QED BY <2>1, <3>1 DEF TypeInv
  <2>2. CASE mem' = Fresh /\ tail' = <<[action |-> "log", facts |-> durable]>>
    <3>1. Fresh.judged = {} /\ Fresh.anchor = Genesis /\ Fresh.fork = FALSE
      BY DEF Fresh
    <3> QED BY <2>2, <3>1, UnreadFields
  <2> QED BY <1>1, <2>1, <2>2
<1>3. CoverInv'
  <2> SUFFICES ASSUME ~ blind' PROVE Covered'
    BY DEF CoverInv
  <2>1. Covered
    BY <1>1 DEF CoverInv
  <2>2. Explained(blog, durable.anchor, durable.index, durable.unjudged)
    <3>1. Scanned.index \subseteq durable.index
      BY DEF ReplayInv
    <3> QED BY <2>1, <3>1, ExplainedMore DEF Covered
  <2>3. Explained(blog, mem'.anchor, mem'.index, mem'.unjudged)
    BY <1>2, <2>2, GenesisExplained
  <2>4. AllSeen(blog, mem'.judged \cap durable'.done, mem'.index, mem'.unjudged)
    BY <1>2 DEF AllSeen
  <2> QED BY <1>1, <1>2, <2>2, <2>3, <2>4, CoverEnds
<1>4. ForkInv'
  BY <1>1, <1>2, GenesisExplained, ForkEnds DEF ForkInv
<1> QED BY <1>3, <1>4

LEMMA NextPulled ==
  ASSUME ~ RebaseInFlight, SafeInv, PulledInv, [Next]_vars
  PROVE  PulledInv'
<1>1. ASSUME NEW id \in Ids \cup {Local}, BuilderAppends(id) PROVE PulledInv'
  BY <1>1, BuilderAppendsPulled
<1>2. CASE BuilderRewrites
  BY <1>2, BuilderRewritesPulled
<1>3. ASSUME NEW id \in Ids, NEW action \in {"sent", "done", "unsent"}, RelayLogs(action, id)
      PROVE  PulledInv'
  BY <1>3, RelayLogsPulled
<1>14. ASSUME NEW id \in Ids, RelayGivesUp(id) PROVE PulledInv'
  BY <1>14, RelayGivesUpPulled
<1>4. CASE Tick
  BY <1>4, TickPulled
<1>5. CASE BuilderAnswers
  BY <1>5, BuilderAnswersPulled
<1>6. CASE ReadFails
  BY <1>6, ReadFailsPulled
<1>7. CASE AskNextPage
  BY <1>7, AskNextPagePulled
<1>8. CASE EndPull
  BY <1>8, RaiseForkPulled, EndWithoutAnchorPulled, EndWithAnchorPulled, AnchorFailsPulled
  DEF EndPull
<1>9. CASE Rebase
  BY <1>9, RebasePulled
<1>10. CASE ReadHead
  BY <1>10, ReadHeadPulled
<1>11. CASE RebaseToHead
  BY <1>11, RebaseToHeadPulled
<1>12. CASE HubRestart
  BY <1>12, HubRestartPulled
<1>13. CASE UNCHANGED vars
  BY <1>13, HubSamePulled DEF vars, PulledInv
<1> QED BY <1>1, <1>2, <1>3, <1>4, <1>5, <1>6, <1>7, <1>8, <1>9, <1>10, <1>11, <1>12, <1>13,
           <1>14
        DEF Next

-----------------------------------------------------------------------------
(* The theorems.                                                             *)

(* What holds whatever the operator does.                                    *)
THEOREM Safe == Spec => []SafeInv
BY InitSafe, NextSafe, PTL DEF Spec

(* What the hub knows of the builder stays well formed, and nothing is judged *)
(* by a replay of the log alone (noteHubEntry, scanHub).                      *)
THEOREM TypeCorrect == Spec => []TypeOK
<1>1. SafeInv => TypeOK
  BY PullFields DEF SafeInv, TypeInv, TypeOK
<1> QED BY <1>1, Safe, PTL

(* A restart of the hub at any point gives it the anchor it held and every    *)
(* match it had (SR14 M2), at the latest when it can read its log: the        *)
(* matches are logged before the anchor.                                     *)
THEOREM RestartKeeps == Spec => []RestartKeepsMatches
<1>1. SafeInv => RestartKeepsMatches
  <2> SUFFICES ASSUME SafeInv PROVE RestartKeepsMatches
    OBVIOUS
  <2> QED BY DEF SafeInv, ReplayInv, RestartKeepsMatches
<1> QED BY <1>1, Safe, PTL

(* The hub takes no action it sent for one it does not know (SR14 M1) unless  *)
(* a pull was indexed while its own log could not be read: the relay logs     *)
(* `sent` before it posts, and the log is read after the pull.  Scans that    *)
(* failed at other times do no harm.                                         *)
THEOREM NothingFalselyUnknown == Spec => []NoFalseUnknown
<1>1. SafeInv => NoFalseUnknown
  BY DEF SafeInv, ReplayInv, NoFalseUnknown
<1> QED BY <1>1, Safe, PTL

(* What holds if the operator does not rebase during a pull.                  *)
THEOREM Pulled == ASSUME ~ RebaseInFlight PROVE Spec => [](SafeInv /\ PulledInv)
<1>1. Init => SafeInv /\ PulledInv
  BY InitSafe, InitPulled
<1>2. SafeInv /\ PulledInv /\ [Next]_vars => (SafeInv /\ PulledInv)'
  BY NextSafe, NextPulled
<1> QED BY <1>1, <1>2, PTL DEF Spec

(* If no rebase meets a pull, only a log that lost entries is raised as a     *)
(* fork: an honest builder that appends never is, however pages, restarts and *)
(* failed reads and writes of the hub's log interleave.                      *)
THEOREM ForksAreReal == ASSUME ~ RebaseInFlight PROVE Spec => []ForkIsReal
<1>1. SafeInv /\ PulledInv => ForkIsReal
  BY DEF PulledInv, ForkInv, ForkIsReal
<1> QED BY <1>1, Pulled, PTL

(* If no rebase meets a pull, and none was indexed with the hub's log unread, *)
(* an action that the hub reports missing on the builder is missing there if  *)
(* it was answered, and in the part the hub has read if nobody knows its      *)
(* outcome (computeMismatches, stateOf).                                     *)
THEOREM AlarmsAreReal == ASSUME ~ RebaseInFlight PROVE Spec => []NoFalseAlarm
<1>1. ASSUME SafeInv, PulledInv PROVE NoFalseAlarm
  <2> SUFFICES ASSUME ~ blind, NEW id \in Ids, Missing(id),
                      NEW i \in DOMAIN blog, blog[i].id = id
               PROVE  id \notin durable.done /\ (OnLog(mem.anchor) => i > mem.anchor.count)
    BY DEF NoFalseAlarm
  <2>1. Covered
    BY <1>1 DEF PulledInv, CoverInv
  <2>2. /\ id \in mem.judged /\ id \notin mem.unjudged
        /\ \A e \in mem.index : e.id # id
    BY DEF Missing
  <2>3. id \notin durable.done
    BY <2>1, <2>2 DEF Covered, AllSeen
  <2>4. ASSUME OnLog(mem.anchor), ~ (i > mem.anchor.count) PROVE FALSE
    <3>1. blog \in Seq(LogEntries) /\ mem.anchor \in Heads
      BY <1>1, FactsFields DEF SafeInv, TypeInv
    <3>2. i \in 1..mem.anchor.count
      BY <2>4, <3>1, HeadFields, ReconcileConstants
    <3>3. Reaches(blog, mem.anchor)
      BY <2>4 DEF OnLog, Reaches
    <3>4. blog[i].id = Local \/ blog[i] \in mem.index \/ blog[i].id \in mem.unjudged
      BY <2>1, <3>2, <3>3 DEF Covered, Explained
    <3> QED BY <2>2, <3>4, ReconcileConstants
  <2> QED BY <2>3, <2>4
<1>2. SafeInv /\ PulledInv => NoFalseAlarm
  BY <1>1
<1> QED BY <1>2, Pulled, PTL

=============================================================================
