---------------------------- MODULE AuditLogProofs ----------------------------
(* Proofs about AuditLog, for any files, names, sizes and numbers of entries. *)
(*                                                                            *)
(* What a verification of the files finds is a recursion over the files of    *)
(* the chain and the lines of each.  The first part says of that recursion    *)
(* what a writer relies on: which files it looks at, what one more line or    *)
(* one more file adds to it.  The second is the invariant of the writer: what *)
(* it keeps in memory against what is in the files, at each of its steps.     *)
EXTENDS AuditLog, SequenceTheorems, WellFoundedInduction, TLAPS

(* Lines, files and verdicts with the entries up to number u only.  An entry  *)
(* is newer than the one it chains onto, so a chain is not longer than the    *)
(* number of its last entry.                                                 *)
LinesTo(u) ==
  {Torn, Glued} \cup {l \in [kind : {"entry"}, n : 1..u, prev : 0..u,
                             target : Names \cup {NoName}] : l.prev < l.n}

FilesTo(u) == [lines : Seq(LinesTo(u)), open : BOOLEAN]

VerdictsTo(u) ==
  {v \in [ok : BOOLEAN, head : 0..u, pending : BOOLEAN, chain : Seq(1..u)] :
     Len(v.chain) <= v.head}

MemoriesTo(u) ==
  [hash : 0..u, count : Nat, size : Nat \X BOOLEAN,
   fileLines : Nat, torn : BOOLEAN, invalid : BOOLEAN]

(* The names are taken in their order.                                       *)
InOrder(d) == \A j, k \in Names : d.rotated[k] # 0 /\ j < k => d.rotated[j] # 0

TypeInv ==
  /\ dir \in dirs /\ dirs \subseteq Dirs /\ \A d \in dirs : InOrder(d)
  /\ used \in 0..MaxEntries /\ entry \in 0..used /\ acked \subseteq 1..used
  /\ disk \in [Inodes -> FilesTo(used)] /\ synced \in [Inodes -> FilesTo(used)]
  /\ pc \in {"down", "idle", "link", "create", "fill", "rename", "reopen",
             "write", "fsync", "broken"}
  /\ fd \in Inodes \cup {0}
  /\ mem \in MemoriesTo(used)
  /\ found = Analyze(dir, disk)

(* What the writer remembers, m, is what is found, v, with file f the last.   *)
Agrees(m, f, v) ==
  /\ m.size = Size(f) /\ (m.invalid <=> ~ v.ok) /\ m.hash = v.head
  /\ m.count = Len(v.chain) /\ (m.torn <=> f.open)

IdleInv ==
  pc = "idle" =>
    fd # 0 /\ (dir.cur = fd /\ mem.size = Size(disk[fd]) => Agrees(mem, disk[fd], found))

(* Before the new entry is in the chain. *)
WriterInv ==
  pc \in {"write", "link", "create", "fill", "rename"} =>
    /\ fd # 0 /\ dir.cur = fd /\ Agrees(mem, disk[fd], found) /\ found.ok
    /\ entry = used /\ mem.hash < entry

(* The directory without a name. *)
Unlinked(d, k) == [d EXCEPT !.tmp = 0, !.rotated = [@ EXCEPT ![k] = 0]]

LinkedInv ==
  pc \in {"create", "fill", "rename"} =>
    /\ LinkedName \in Names /\ dir.rotated[LinkedName] = fd
    /\ \A j \in Names : dir.rotated[j] # 0 => j <= LinkedName

RotatingInv ==
  /\ pc \in {"fill", "rename"} =>
       /\ dir.tmp # 0 /\ dir.tmp # dir.cur /\ \A k \in Names : dir.rotated[k] # dir.tmp
  /\ pc = "rename" =>
       disk[dir.tmp] = [lines |-> <<Entry(entry, mem.hash, LinkedName)>>, open |-> FALSE]

(* When it is, and the writer has not noted it yet. *)
Extended ==
  /\ found.ok /\ found.head = entry
  /\ Len(found.chain) = mem.count + 1 /\ found.chain[mem.count + 1] = entry
  /\ dir.cur # 0 /\ ~ disk[dir.cur].open /\ entry = used /\ 0 < entry

ExtendedInv ==
  /\ pc = "reopen" => Extended
  /\ pc = "fsync" => /\ Extended /\ dir.cur = fd /\ ~ mem.invalid
                     /\ Len(disk[fd].lines) = mem.size[1] + 1

LogInv ==
  TypeInv /\ IdleInv /\ WriterInv /\ LinkedInv /\ RotatingInv /\ ExtendedInv

-----------------------------------------------------------------------------
(* The lines of one file.                                                    *)

(* Induction over the naturals: a set with 0 and all successors has them all. *)
LEMMA SetInduction ==
  ASSUME NEW S, 0 \in S, \A n \in Nat : n \in S => n+1 \in S
  PROVE  Nat \subseteq S
<1> SUFFICES ASSUME NEW k \in Nat, k \notin S PROVE FALSE
  OBVIOUS
<1> DEFINE R == OpToRel(<, Nat)
           T == {n \in Nat : n \notin S}
<1>1. T \subseteq Nat /\ T # {}
  OBVIOUS
<1>2. \E x \in T : \A y \in T : ~ (<<y, x>> \in R)
  <2> HIDE DEF R, T
  <2> QED BY <1>1, NatLessThanWellFounded, WFMin DEF R
<1>3. PICK x \in T : \A y \in T : ~ (<<y, x>> \in R)
  BY <1>2
<1>4. \A y \in T : ~ (y < x)
  BY <1>3 DEF OpToRel
<1>5. x \in Nat /\ x # 0 /\ x - 1 \in Nat /\ x - 1 < x
  OBVIOUS
<1>6. x - 1 \in S
  BY <1>4, <1>5
<1> QED BY <1>5, <1>6, x = (x - 1) + 1

(* What is found after n lines, after[n].                                     *)
LEMMA ReadSteps ==
  ASSUME NEW v, NEW L, NEW lines \in Seq(L)
  PROVE  \E after : /\ after[0] = Passed(v)
                    /\ \A n \in 1..Len(lines) : after[n] = Feed(after[n - 1], lines[n])
                    /\ Read(v, lines) = after[Len(lines)]
<1> DEFINE Run(a, m) ==
             a = [n \in 0..m |-> IF n = 0 THEN Passed(v)
                                 ELSE Feed(a[n - 1], lines[n])]
           after == CHOOSE a : Run(a, Len(lines))
           S == {m \in Nat : \E a : Run(a, m)}
<1>1. 0 \in S
  <2>1. Run([n \in 0..0 |-> Passed(v)], 0)
    OBVIOUS
  <2> QED BY <2>1
<1>2. ASSUME NEW m \in Nat, m \in S PROVE m + 1 \in S
  <2>1. PICK a : Run(a, m)
    BY <1>2
  <2> DEFINE c == [n \in 0..(m + 1) |-> IF n = m + 1 THEN Feed(a[m], lines[n]) ELSE a[n]]
  <2>2. ASSUME NEW n \in 0..(m + 1)
        PROVE  c[n] = IF n = 0 THEN Passed(v) ELSE Feed(c[n - 1], lines[n])
    <3>1. CASE n = m + 1
      <4>1. c[n - 1] = a[m] /\ n # 0 /\ c[n] = Feed(a[m], lines[n])
        BY <3>1
      <4> HIDE DEF c
      <4> QED BY <4>1
    <3>2. CASE n # m + 1
      <4>1. n \in 0..m /\ c[n] = a[n] /\ (n # 0 => c[n - 1] = a[n - 1])
        BY <3>2
      <4>2. a[n] = IF n = 0 THEN Passed(v) ELSE Feed(a[n - 1], lines[n])
        BY <2>1, <4>1
      <4> HIDE DEF c
      <4> QED BY <4>1, <4>2
    <3> QED BY <3>1, <3>2
  <2>3. Run(c, m + 1)
    BY <2>2
  <2>4. \E x : Run(x, m + 1)
    <3> HIDE DEF c, Run
    <3> QED BY <2>3
  <2> HIDE DEF Run
  <2> QED BY <2>4
<1>3. Nat \subseteq S
  <2> HIDE DEF S
  <2> QED BY <1>1, <1>2, SetInduction
<1>4. Run(after, Len(lines)) /\ Len(lines) \in Nat
  <2>1. Len(lines) \in Nat
    OBVIOUS
  <2>2. \E a : Run(a, Len(lines))
    BY <1>3, <2>1
  <2> HIDE DEF Run
  <2> QED BY <2>1, <2>2
<1>5. Read(v, lines) = after[Len(lines)]
  BY DEF Read
<1> HIDE DEF after
<1> QED BY <1>4, <1>5

(* One line more. *)
LEMMA ReadAppend ==
  ASSUME NEW v, NEW L, NEW lines \in Seq(L), NEW l \in L
  PROVE  Read(v, Append(lines, l)) = Feed(Read(v, lines), l)
<1> DEFINE N == Len(lines)
           more == Append(lines, l)
<1>1. /\ N \in Nat /\ more \in Seq(L) /\ Len(more) = N + 1 /\ more[N + 1] = l
      /\ \A n \in 1..N : more[n] = lines[n]
  OBVIOUS
<1>2. PICK a : /\ a[0] = Passed(v)
               /\ \A n \in 1..N : a[n] = Feed(a[n - 1], lines[n])
               /\ Read(v, lines) = a[N]
  BY ReadSteps
<1> HIDE DEF more
<1>3. PICK c : /\ c[0] = Passed(v)
               /\ \A n \in 1..Len(more) : c[n] = Feed(c[n - 1], more[n])
               /\ Read(v, more) = c[Len(more)]
  BY <1>1, ReadSteps
<1> HIDE DEF N
<1> DEFINE S == {n \in Nat : n <= N => a[n] = c[n]}
<1>4. 0 \in S
  BY <1>2, <1>3
<1>5. ASSUME NEW n \in Nat, n \in S PROVE n + 1 \in S
  <2> SUFFICES ASSUME n + 1 <= N PROVE a[n + 1] = c[n + 1]
    OBVIOUS
  <2>1. n + 1 \in 1..N /\ n + 1 \in 1..Len(more) /\ n <= N /\ (n + 1) - 1 = n
    BY <1>1
  <2> QED BY <1>1, <1>2, <1>3, <1>5, <2>1
<1>6. Nat \subseteq S
  <2> HIDE DEF S
  <2> QED BY <1>4, <1>5, SetInduction
<1>7. a[N] = c[N]
  BY <1>1, <1>6
<1>8. N + 1 \in 1..Len(more) /\ (N + 1) - 1 = N
  BY <1>1
<1> QED BY <1>1, <1>2, <1>3, <1>7, <1>8 DEF more

LEMMA VerdictFields ==
  ASSUME NEW u \in Nat, NEW v \in VerdictsTo(u)
  PROVE  /\ v.ok \in BOOLEAN /\ v.head \in 0..u /\ v.head \in Nat /\ v.pending \in BOOLEAN
         /\ v.chain \in Seq(1..u) /\ Len(v.chain) \in Nat /\ Len(v.chain) <= v.head
         /\ Passed(v) \in VerdictsTo(u)
<1>1. /\ v \in [ok : BOOLEAN, head : 0..u, pending : BOOLEAN, chain : Seq(1..u)]
      /\ Len(v.chain) <= v.head
  BY DEF VerdictsTo
<1>2. v.chain \in Seq(1..u)
  BY <1>1
<1>3. Len(v.chain) \in Nat
  BY <1>2
<1>4. Passed(v) \in VerdictsTo(u)
  BY <1>1 DEF VerdictsTo, Passed
<1> QED BY <1>1, <1>2, <1>3, <1>4

(* The entry that continues the chain adds itself; no line mends a broken one. *)
LEMMA FeedKeeps ==
  ASSUME NEW u \in Nat, NEW v \in VerdictsTo(u), NEW l \in LinesTo(u)
  PROVE  LET w == Feed(v, l)
         IN  /\ w \in VerdictsTo(u)
             /\ w.ok => v.ok /\ Len(v.chain) <= Len(w.chain)
             /\ w.ok /\ l.kind = "entry" => Len(v.chain) < Len(w.chain)
<1> DEFINE w == Feed(v, l)
<1>1. /\ v.ok \in BOOLEAN /\ v.head \in 0..u /\ v.head \in Nat /\ v.pending \in BOOLEAN
      /\ v.chain \in Seq(1..u) /\ Len(v.chain) \in Nat /\ Len(v.chain) <= v.head
  BY VerdictFields
<1>2. CASE ~ v.ok
  BY <1>1, <1>2 DEF Feed
<1>3. CASE v.ok /\ l.kind = "torn" /\ ~ v.pending
  <2>1. w = [v EXCEPT !.pending = TRUE]
    BY <1>3 DEF Feed
  <2>2. w \in VerdictsTo(u) /\ w.chain = v.chain
    BY <2>1 DEF VerdictsTo
  <2> QED BY <1>1, <1>3, <2>2
<1>4. CASE v.ok /\ l.kind = "entry" /\ l.prev = v.head
  <2>1. l.n \in 1..u /\ l.prev < l.n
    BY <1>4 DEF LinesTo, Torn, Glued
  <2> DEFINE longer == Append(v.chain, l.n)
  <2>2. longer \in Seq(1..u) /\ Len(longer) = Len(v.chain) + 1
    BY <1>1, <2>1
  <2>3. w = [ok |-> TRUE, head |-> l.n, pending |-> FALSE, chain |-> longer]
    BY <1>4 DEF Feed
  <2> HIDE DEF longer
  <2>4. Len(longer) <= l.n
    BY <1>1, <1>4, <2>1, <2>2
  <2>5. w \in VerdictsTo(u) /\ w.chain = longer
    BY <2>1, <2>2, <2>3, <2>4 DEF VerdictsTo
  <2> QED BY <1>1, <1>4, <2>2, <2>5
<1>5. CASE /\ v.ok /\ ~ (l.kind = "torn" /\ ~ v.pending)
           /\ ~ (l.kind = "entry" /\ l.prev = v.head)
  <2>1. w = [v EXCEPT !.ok = FALSE]
    BY <1>5 DEF Feed
  <2>2. w \in VerdictsTo(u) /\ ~ w.ok
    BY <2>1 DEF VerdictsTo
  <2> QED BY <2>2
<1> QED BY <1>2, <1>3, <1>4, <1>5

(* So does a whole file. *)
LEMMA ReadKeeps ==
  ASSUME NEW u \in Nat, NEW v \in VerdictsTo(u), NEW lines \in Seq(LinesTo(u))
  PROVE  LET w == Read(v, lines)
         IN  /\ w \in VerdictsTo(u)
             /\ w.ok => v.ok /\ Len(v.chain) <= Len(w.chain)
             /\ w.ok /\ Len(lines) > 0 /\ lines[1].kind = "entry" => Len(v.chain) < Len(w.chain)
<1> DEFINE N == Len(lines)
<1>1. N \in Nat /\ \A n \in 1..N : lines[n] \in LinesTo(u)
  OBVIOUS
<1>2. PICK a : /\ a[0] = Passed(v)
               /\ \A n \in 1..N : a[n] = Feed(a[n - 1], lines[n])
               /\ Read(v, lines) = a[N]
  BY ReadSteps
<1> HIDE DEF N
<1> DEFINE Good(n, w) ==
             /\ w \in VerdictsTo(u)
             /\ w.ok => v.ok /\ Len(v.chain) <= Len(w.chain)
             /\ w.ok /\ n > 0 /\ lines[1].kind = "entry" => Len(v.chain) < Len(w.chain)
           S == {n \in Nat : n <= N => Good(n, a[n])}
<1>3. 0 \in S
  <2>1. a[0].ok = v.ok /\ a[0].chain = v.chain /\ a[0] \in VerdictsTo(u)
    BY <1>2, VerdictFields DEF VerdictsTo, Passed
  <2> QED BY <2>1, VerdictFields
<1>4. ASSUME NEW n \in Nat, n \in S PROVE n + 1 \in S
  <2> SUFFICES ASSUME n + 1 <= N PROVE Good(n + 1, a[n + 1])
    OBVIOUS
  <2>1. n + 1 \in 1..N /\ n <= N /\ (n + 1) - 1 = n
    BY <1>1
  <2>2. a[n + 1] = Feed(a[n], lines[n + 1]) /\ lines[n + 1] \in LinesTo(u) /\ Good(n, a[n])
    BY <1>1, <1>2, <1>4, <2>1
  <2> DEFINE x == a[n]
             y == Feed(a[n], lines[n + 1])
  <2>3. /\ y \in VerdictsTo(u)
        /\ y.ok => x.ok /\ Len(x.chain) <= Len(y.chain)
        /\ y.ok /\ lines[n + 1].kind = "entry" => Len(x.chain) < Len(y.chain)
    BY <2>2, FeedKeeps
  <2>4. Len(v.chain) \in Nat /\ Len(x.chain) \in Nat /\ Len(y.chain) \in Nat
    BY <2>2, <2>3, VerdictFields
  <2>5. a[n + 1] = y
    BY <2>2
  <2> HIDE DEF x, y
  <2>6. /\ y.ok => v.ok /\ Len(v.chain) <= Len(y.chain)
        /\ y.ok /\ lines[1].kind = "entry" => Len(v.chain) < Len(y.chain)
    BY <2>2, <2>3, <2>4, SMTT(30) DEF x
  <2> QED BY <2>3, <2>5, <2>6
<1>5. Nat \subseteq S
  <2> HIDE DEF S
  <2> QED BY <1>3, <1>4, SetInduction
<1>6. Good(N, a[N])
  BY <1>1, <1>5
<1> QED BY <1>2, <1>6 DEF N

-----------------------------------------------------------------------------
(* The files of the chain.                                                   *)

(* What is found in file i when V[k - 1] is found in the files before it.     *)
OneFile(d, c, V, k, i) ==
  IF ~ StartsRotated(c[i]) THEN Read(Start, c[i].lines)
  ELSE IF k = 0 \/ Before(d, c, i) = 0 THEN Broken
  ELSE Read(V[k - 1][Before(d, c, i)], c[i].lines)

LEMMA VerifiedSteps ==
  ASSUME NEW d, NEW c
  PROVE  \A k \in 0..MaxEntries, i \in Inodes :
           Verified(d, c)[k][i] = OneFile(d, c, Verified(d, c), k, i)
<1> DEFINE Run(V, m) ==
             V = [k \in 0..m |-> [i \in Inodes |->
                   IF ~ StartsRotated(c[i]) THEN Read(Start, c[i].lines)
                   ELSE IF k = 0 \/ Before(d, c, i) = 0 THEN Broken
                   ELSE Read(V[k - 1][Before(d, c, i)], c[i].lines)]]
           V == CHOOSE W : Run(W, MaxEntries)
           S == {m \in Nat : \E W : Run(W, m)}
<1>1. 0 \in S
  <2> DEFINE W == [k \in 0..0 |-> [i \in Inodes |-> OneFile(d, c, <<>>, 0, i)]]
  <2>1. Run(W, 0)
    BY DEF OneFile
  <2>2. \E X : Run(X, 0)
    <3> HIDE DEF W, Run
    <3> QED BY <2>1
  <2> HIDE DEF Run
  <2> QED BY <2>2
<1>2. ASSUME NEW m \in Nat, m \in S PROVE m + 1 \in S
  <2>1. PICK W : Run(W, m)
    BY <1>2
  <2> DEFINE X == [k \in 0..(m + 1) |-> IF k = m + 1
                                        THEN [i \in Inodes |-> OneFile(d, c, W, k, i)]
                                        ELSE W[k]]
  <2>2. ASSUME NEW k \in 0..(m + 1)
        PROVE  X[k] = [i \in Inodes |-> OneFile(d, c, X, k, i)]
    <3>1. CASE k = m + 1
      <4>1. X[k - 1] = W[k - 1] /\ X[k] = [i \in Inodes |-> OneFile(d, c, W, k, i)]
        BY <3>1
      <4> HIDE DEF X
      <4> QED BY <4>1 DEF OneFile
    <3>2. CASE k # m + 1
      <4>1. k \in 0..m /\ X[k] = W[k] /\ (k # 0 => X[k - 1] = W[k - 1])
        BY <3>2
      <4>2. W[k] = [i \in Inodes |-> OneFile(d, c, W, k, i)]
        BY <2>1, <4>1 DEF OneFile
      <4> HIDE DEF X
      <4> QED BY <4>1, <4>2 DEF OneFile
    <3> QED BY <3>1, <3>2
  <2>3. X = [k \in 0..(m + 1) |-> X[k]]
    OBVIOUS
  <2>4. \E Y : Run(Y, m + 1)
    <3>1. Run(X, m + 1)
      <4> HIDE DEF X
      <4>1. X = [k \in 0..(m + 1) |-> [i \in Inodes |-> OneFile(d, c, X, k, i)]]
        BY <2>2, <2>3
      <4> QED BY <4>1 DEF OneFile
    <3> HIDE DEF X, Run
    <3> QED BY <3>1
  <2> HIDE DEF Run
  <2> QED BY <2>4
<1>3. Nat \subseteq S
  <2> HIDE DEF S
  <2> QED BY <1>1, <1>2, SetInduction
<1>4. Run(V, MaxEntries)
  <2>1. \E W : Run(W, MaxEntries)
    BY <1>3, LogConstants
  <2> HIDE DEF Run
  <2> QED BY <2>1
<1>5. Verified(d, c) = V
  BY DEF Verified
<1>6. V = [k \in 0..MaxEntries |-> [i \in Inodes |-> OneFile(d, c, V, k, i)]]
  BY <1>4 DEF OneFile
<1> HIDE DEF V
<1>7. ASSUME NEW k \in 0..MaxEntries, NEW i \in Inodes
      PROVE  V[k][i] = OneFile(d, c, V, k, i)
  <2>1. V[k] = [j \in Inodes |-> OneFile(d, c, V, k, j)]
    BY <1>6
  <2> QED BY <2>1
<1> QED BY <1>5, <1>7

(* A rotate entry names a file. *)
LEMMA RotateEntry ==
  ASSUME NEW u \in 0..MaxEntries, NEW d \in Dirs, NEW c \in [Inodes -> FilesTo(u)],
         NEW i \in Inodes, StartsRotated(c[i])
  PROVE  /\ c[i].lines \in Seq(LinesTo(u)) /\ Len(c[i].lines) > 0
         /\ c[i].lines[1].kind = "entry"
         /\ c[i].lines[1].target \in Names
         /\ Before(d, c, i) \in Inodes \cup {0}
<1> DEFINE f == c[i]
<1>1. f.lines \in Seq(LinesTo(u))
  BY DEF FilesTo
<1>2. Len(f.lines) > 0 /\ f.lines[1].kind = "entry" /\ f.lines[1].target # NoName
  BY DEF StartsRotated
<1> HIDE DEF f
<1>3. f.lines[1] \in LinesTo(u)
  BY <1>1, <1>2
<1>4. f.lines[1].target \in Names
  BY <1>2, <1>3 DEF LinesTo, Torn, Glued
<1>5. d.rotated[f.lines[1].target] \in Inodes \cup {0}
  BY <1>4 DEF Dirs
<1> QED BY <1>1, <1>2, <1>4, <1>5 DEF f, Before

LEMMA StartTypes ==
  ASSUME NEW u \in Nat
  PROVE  /\ Start \in VerdictsTo(u) /\ Broken \in VerdictsTo(u)
         /\ ~ Broken.ok /\ Start.ok /\ Start.chain = <<>> /\ Start.head = 0
         /\ Start.pending = FALSE
<1>1. Start = [ok |-> TRUE, head |-> 0, pending |-> FALSE, chain |-> <<>>]
  BY DEF Start, Genesis
<1>2. <<>> \in Seq(1..u) /\ Len(<<>>) = 0 /\ 0 \in 0..u
  OBVIOUS
<1>3. Start \in VerdictsTo(u)
  BY <1>1, <1>2 DEF VerdictsTo
<1>4. Broken \in VerdictsTo(u) /\ ~ Broken.ok
  <2>1. Len(Start.chain) <= Start.head
    BY <1>1, <1>2
  <2> QED BY <1>3, <2>1 DEF Broken, VerdictsTo
<1> QED BY <1>1, <1>3, <1>4

LEMMA VerifiedTypes ==
  ASSUME NEW u \in 0..MaxEntries, NEW d \in Dirs, NEW c \in [Inodes -> FilesTo(u)]
  PROVE  /\ \A k \in 0..MaxEntries, i \in Inodes : Verified(d, c)[k][i] \in VerdictsTo(u)
         /\ Analyze(d, c) \in VerdictsTo(u)
<1> DEFINE V == Verified(d, c)
           S == {k \in Nat : k <= MaxEntries => \A i \in Inodes : V[k][i] \in VerdictsTo(u)}
<1>0. u \in Nat /\ MaxEntries \in Nat
  BY LogConstants
<1>1. ASSUME NEW k \in 0..MaxEntries, NEW i \in Inodes,
             k > 0 => \A j \in Inodes : V[k - 1][j] \in VerdictsTo(u)
      PROVE  V[k][i] \in VerdictsTo(u)
  <2>1. V[k][i] = OneFile(d, c, V, k, i)
    BY VerifiedSteps
  <2>2. c[i].lines \in Seq(LinesTo(u))
    BY DEF FilesTo
  <2> HIDE DEF V
  <2>3. CASE ~ StartsRotated(c[i])
    <3> DEFINE lines == c[i].lines
    <3>1. V[k][i] = Read(Start, lines)
      BY <2>1, <2>3 DEF OneFile
    <3>2. lines \in Seq(LinesTo(u)) /\ Start \in VerdictsTo(u)
      BY <1>0, <2>2, StartTypes
    <3> HIDE DEF lines
    <3>3. Read(Start, lines) \in VerdictsTo(u)
      BY <1>0, <3>2, ReadKeeps
    <3> QED BY <3>1, <3>3
  <2>4. CASE StartsRotated(c[i])
    <3>1. Before(d, c, i) \in Inodes \cup {0}
      BY <2>4, RotateEntry
    <3>2. CASE k = 0 \/ Before(d, c, i) = 0
      BY <1>0, <2>1, <2>4, <3>2, StartTypes DEF OneFile
    <3>3. CASE k # 0 /\ Before(d, c, i) # 0
      <4>1. V[k - 1][Before(d, c, i)] \in VerdictsTo(u)
        BY <1>1, <3>1, <3>3
      <4>2. V[k][i] = Read(V[k - 1][Before(d, c, i)], c[i].lines)
        BY <2>1, <2>4, <3>3 DEF OneFile
      <4> DEFINE x == V[k - 1][Before(d, c, i)]
                 lines == c[i].lines
      <4> HIDE DEF x, lines
      <4>3. Read(x, lines) \in VerdictsTo(u)
        BY <1>0, <2>2, <4>1, ReadKeeps DEF x, lines
      <4> QED BY <4>2, <4>3 DEF x, lines
    <3> QED BY <3>2, <3>3
  <2> QED BY <2>3, <2>4
<1> HIDE DEF V
<1>2. 0 \in S
  BY <1>0, <1>1
<1>3. ASSUME NEW k \in Nat, k \in S PROVE k + 1 \in S
  <2> SUFFICES ASSUME k + 1 <= MaxEntries PROVE \A i \in Inodes : V[k + 1][i] \in VerdictsTo(u)
    OBVIOUS
  <2>1. k + 1 \in 0..MaxEntries /\ k <= MaxEntries /\ (k + 1) - 1 = k
    BY <1>0
  <2> QED BY <1>1, <1>3, <2>1
<1>4. Nat \subseteq S
  <2> HIDE DEF S
  <2> QED BY <1>2, <1>3, SetInduction
<1>5. \A k \in 0..MaxEntries, i \in Inodes : V[k][i] \in VerdictsTo(u)
  BY <1>4
<1>6. Analyze(d, c) \in VerdictsTo(u)
  <2>1. d.cur \in Inodes \cup {0} /\ MaxEntries \in 0..MaxEntries
    BY <1>0 DEF Dirs
  <2>2. CASE d.cur = 0
    BY <1>0, <2>2, StartTypes DEF Analyze
  <2>3. CASE d.cur # 0
    <3>1. Analyze(d, c) = V[MaxEntries][d.cur]
      BY <2>3 DEF Analyze, V
    <3> QED BY <1>5, <2>1, <2>3, <3>1
  <2> QED BY <2>2, <2>3
<1> QED BY <1>5, <1>6 DEF V

(* Two looks at the files, in directory d with contents c and in e with g, do *)
(* not differ for the files of S: none of them has changed, and each has the  *)
(* same one before it.                                                        *)
Alike(d, c, e, g, S) ==
  \A i \in S :
    /\ g[i] = c[i]
    /\ StartsRotated(c[i]) /\ Before(d, c, i) # 0 =>
         Before(d, c, i) \in S /\ Before(e, g, i) = Before(d, c, i)

(* An unbroken chain in S is found whatever is looked at elsewhere, and in    *)
(* any number of steps that is not less than its length.                     *)
LEMMA SameChain ==
  ASSUME NEW u \in 0..MaxEntries, NEW d \in Dirs, NEW c \in [Inodes -> FilesTo(u)],
         NEW e, NEW g, NEW S \in SUBSET Inodes, Alike(d, c, e, g, S)
  PROVE  \A k, m \in 0..MaxEntries : \A i \in S :
           Verified(d, c)[k][i].ok /\ Len(Verified(d, c)[k][i].chain) <= m
             => Verified(e, g)[m][i] = Verified(d, c)[k][i]
<1> DEFINE V == Verified(d, c)
           W == Verified(e, g)
           Found(k) == \A m \in 0..MaxEntries : \A i \in S :
                         V[k][i].ok /\ Len(V[k][i].chain) <= m => W[m][i] = V[k][i]
           T == {k \in Nat : k <= MaxEntries => Found(k)}
<1>0. u \in Nat /\ MaxEntries \in Nat
  BY LogConstants
<1>v. /\ \A k \in 0..MaxEntries, i \in Inodes : V[k][i] = OneFile(d, c, V, k, i)
      /\ \A k \in 0..MaxEntries, i \in Inodes : W[k][i] = OneFile(e, g, W, k, i)
      /\ \A k \in 0..MaxEntries, i \in Inodes : V[k][i] \in VerdictsTo(u)
  BY VerifiedSteps, VerifiedTypes
<1> HIDE DEF V, W
<1>1. ASSUME NEW k \in 0..MaxEntries, k > 0 => Found(k - 1),
             NEW m \in 0..MaxEntries, NEW i \in S,
             V[k][i].ok, Len(V[k][i].chain) <= m
      PROVE  W[m][i] = V[k][i]
  <2>1. /\ V[k][i] = OneFile(d, c, V, k, i) /\ W[m][i] = OneFile(e, g, W, m, i)
        /\ V[k][i] \in VerdictsTo(u) /\ i \in Inodes /\ g[i] = c[i]
    BY <1>v DEF Alike
  <2>2. CASE ~ StartsRotated(c[i])
    BY <2>1, <2>2 DEF OneFile
  <2>3. CASE StartsRotated(c[i])
    <3> DEFINE b == Before(d, c, i)
               lines == c[i].lines
               x == V[k - 1][b]
               y == V[k][i]
    <3>1. k # 0 /\ b # 0
      BY <1>0, <1>1, <2>1, <2>3, StartTypes DEF OneFile
    <3>2. b \in S /\ Before(e, g, i) = b
      BY <2>3, <3>1 DEF Alike
    <3>3. y = Read(x, lines)
      BY <2>1, <2>3, <3>1 DEF OneFile
    <3>4. /\ lines \in Seq(LinesTo(u)) /\ Len(lines) > 0 /\ lines[1].kind = "entry"
          /\ k - 1 \in 0..MaxEntries /\ x \in VerdictsTo(u)
      BY <1>0, <1>v, <2>1, <2>3, <3>1, <3>2, RotateEntry
    <3> HIDE DEF lines
    <3>5. x.ok /\ Len(x.chain) < Len(y.chain)
      <4> HIDE DEF x
      <4>1. y.ok
        BY <1>1
      <4> HIDE DEF y
      <4> QED BY <1>0, <3>3, <3>4, <4>1, ReadKeeps
    <3>6. Len(x.chain) \in Nat /\ Len(y.chain) \in Nat /\ Len(y.chain) <= m
      <4>1. y \in VerdictsTo(u) /\ Len(y.chain) <= m
        BY <1>1, <2>1
      <4> HIDE DEF x, y
      <4> QED BY <1>0, <3>4, <4>1, VerdictFields
    <3>7. m # 0 /\ m - 1 \in 0..MaxEntries /\ Len(x.chain) <= m - 1
      <4> HIDE DEF x, y
      <4> QED BY <1>0, <3>5, <3>6
    <3>8. W[m - 1][b] = x
      BY <1>0, <1>1, <3>1, <3>2, <3>5, <3>7
    <3>9. W[m][i] = Read(W[m - 1][b], lines)
      BY <2>1, <2>3, <3>1, <3>2, <3>7 DEF OneFile, lines
    <3> QED BY <3>3, <3>8, <3>9
  <2> QED BY <2>2, <2>3
<1>2. 0 \in T
  BY <1>0, <1>1, SMTT(30)
<1>3. ASSUME NEW k \in Nat, k \in T PROVE k + 1 \in T
  <2> SUFFICES ASSUME k + 1 <= MaxEntries PROVE Found(k + 1)
    OBVIOUS
  <2>1. k + 1 \in 0..MaxEntries /\ k <= MaxEntries /\ (k + 1) - 1 = k
    BY <1>0
  <2>2. Found(k)
    BY <1>3, <2>1
  <2> QED BY <1>1, <2>1, <2>2
<1>4. Nat \subseteq T
  <2> HIDE DEF T
  <2> QED BY <1>2, <1>3, SetInduction
<1>5. \A k \in 0..MaxEntries : Found(k)
  BY <1>4
<1> QED BY <1>5 DEF V, W

(* So the whole log is found again when its files are alike. *)
LEMMA SameLog ==
  ASSUME NEW u \in 0..MaxEntries, NEW d \in Dirs, NEW c \in [Inodes -> FilesTo(u)],
         NEW e, NEW g, NEW S \in SUBSET Inodes, Alike(d, c, e, g, S),
         d.cur # 0 => d.cur \in S, e.cur = d.cur, Analyze(d, c).ok
  PROVE  Analyze(e, g) = Analyze(d, c)
<1>0. u \in Nat /\ MaxEntries \in Nat /\ MaxEntries \in 0..MaxEntries
  BY LogConstants
<1>1. CASE d.cur = 0
  BY <1>1 DEF Analyze
<1>2. CASE d.cur # 0
  <2> DEFINE v == Verified(d, c)[MaxEntries][d.cur]
  <2>1. Analyze(d, c) = v /\ Analyze(e, g) = Verified(e, g)[MaxEntries][d.cur]
    BY <1>2 DEF Analyze
  <2>2. v \in VerdictsTo(u)
    BY <1>0, <1>2, VerifiedTypes
  <2>3. Len(v.chain) <= MaxEntries
    <3> HIDE DEF v
    <3>1. v.head \in 0..u /\ Len(v.chain) \in Nat /\ Len(v.chain) <= v.head
      BY <1>0, <2>2, VerdictFields
    <3> QED BY <1>0, <3>1
  <2> QED BY <1>0, <1>2, <2>1, <2>3, SameChain
<1> QED BY <1>1, <1>2

(* Any chain is found in as many steps as there can be entries. *)
LEMMA ChainLength ==
  ASSUME NEW u \in 0..MaxEntries, NEW v \in VerdictsTo(u)
  PROVE  Len(v.chain) \in Nat /\ Len(v.chain) <= MaxEntries
<1>1. u \in Nat /\ MaxEntries \in Nat
  BY LogConstants
<1>2. v.head \in 0..u /\ Len(v.chain) \in Nat /\ Len(v.chain) <= v.head
  BY <1>1, VerdictFields
<1> QED BY <1>1, <1>2

(* The file before one in an unbroken chain ends a shorter chain. *)
LEMMA BeforeIsShorter ==
  ASSUME NEW u \in 0..MaxEntries, NEW d \in Dirs, NEW c \in [Inodes -> FilesTo(u)],
         NEW i \in Inodes, Verified(d, c)[MaxEntries][i].ok, StartsRotated(c[i])
  PROVE  LET b == Before(d, c, i)
             p == Verified(d, c)[MaxEntries][b]
             q == Verified(d, c)[MaxEntries][i]
         IN  /\ MaxEntries # 0 /\ b \in Inodes /\ p.ok /\ Len(p.chain) < Len(q.chain)
             /\ q = Read(p, c[i].lines)
<1> DEFINE V == Verified(d, c)
           M == MaxEntries
           b == Before(d, c, i)
           ls == c[i].lines
           p == V[M - 1][b]
           q == V[M][i]
<1>0. u \in Nat /\ M \in Nat /\ M \in 0..M
  BY LogConstants
<1>1. q = OneFile(d, c, V, M, i)
  BY <1>0, VerifiedSteps
<1>2. M # 0 /\ b # 0
  BY <1>0, <1>1, StartTypes DEF OneFile
<1>3. /\ b \in Inodes /\ ls \in Seq(LinesTo(u)) /\ Len(ls) > 0 /\ ls[1].kind = "entry"
  BY <1>2, RotateEntry
<1>4. q = Read(p, ls) /\ M - 1 \in 0..M
  BY <1>0, <1>1, <1>2 DEF OneFile
<1>5. p \in VerdictsTo(u)
  BY <1>3, <1>4, VerifiedTypes
<1>6. p.ok /\ Len(p.chain) < Len(q.chain)
  <2>1. q.ok
    OBVIOUS
  <2> HIDE DEF p, q, ls, M
  <2> QED BY <1>0, <1>3, <1>4, <1>5, <2>1, ReadKeeps
<1>7. V[M][b] = p
  <2>1. Alike(d, c, d, c, Inodes)
    BY RotateEntry DEF Alike
  <2>2. Len(p.chain) <= M
    BY <1>5, ChainLength
  <2> QED BY <1>0, <1>3, <1>4, <1>6, <2>1, <2>2, SameChain
<1> QED BY <1>2, <1>3, <1>4, <1>6, <1>7

(* A shorter chain than the one that ends with file x does not hold x: it is   *)
(* found whatever happens to that file.                                      *)
LEMMA ShorterChains ==
  ASSUME NEW u \in 0..MaxEntries, NEW d \in Dirs, NEW c \in [Inodes -> FilesTo(u)],
         NEW g, NEW x \in Inodes, \A i \in Inodes : i # x => g[i] = c[i],
         NEW i \in Inodes, Verified(d, c)[MaxEntries][i].ok,
         Len(Verified(d, c)[MaxEntries][i].chain) < Len(Verified(d, c)[MaxEntries][x].chain),
         NEW m \in 0..MaxEntries, Len(Verified(d, c)[MaxEntries][i].chain) <= m
  PROVE  Verified(d, g)[m][i] = Verified(d, c)[MaxEntries][i]
<1> DEFINE v(j) == Verified(d, c)[MaxEntries][j]
           S == {j \in Inodes : v(j).ok /\ Len(v(j).chain) < Len(v(x).chain)}
<1>0. MaxEntries \in Nat /\ MaxEntries \in 0..MaxEntries
  BY LogConstants
<1>1. \A j \in Inodes : Len(v(j).chain) \in Nat
  BY <1>0, VerifiedTypes, ChainLength
<1>2. ASSUME NEW j \in S
      PROVE  /\ g[j] = c[j]
             /\ StartsRotated(c[j]) => Before(d, c, j) \in S /\ Before(d, g, j) = Before(d, c, j)
  <2>1. j # x /\ j \in Inodes /\ v(j).ok /\ Len(v(j).chain) < Len(v(x).chain)
    BY <1>1
  <2>2. g[j] = c[j]
    BY <2>1
  <2>3. ASSUME StartsRotated(c[j])
        PROVE  Before(d, c, j) \in S
    <3> DEFINE b == Before(d, c, j)
    <3>1. b \in Inodes /\ v(b).ok /\ Len(v(b).chain) < Len(v(j).chain)
      BY <2>1, <2>3, BeforeIsShorter
    <3> DEFINE n == Len(v(b).chain)
               o == Len(v(j).chain)
               r == Len(v(x).chain)
    <3>2. n \in Nat /\ o \in Nat /\ r \in Nat /\ n < o /\ o < r
      BY <1>1, <2>1, <3>1
    <3>3. n < r
      <4> HIDE DEF n, o, r
      <4> QED BY <3>2
    <3> QED BY <3>1, <3>3
  <2> QED BY <2>2, <2>3 DEF Before
<1>3. Alike(d, c, d, g, S) /\ S \in SUBSET Inodes /\ i \in S
  <2>1. i \in S
    OBVIOUS
  <2> HIDE DEF S
  <2> QED BY <1>2, <2>1 DEF Alike, S
<1> HIDE DEF S
<1> QED BY <1>0, <1>3, SameChain

(* A name of file x plays no part in the unbroken chain that ends with x. *)
LEMMA OwnName ==
  ASSUME NEW u \in 0..MaxEntries, NEW d \in Dirs, NEW c \in [Inodes -> FilesTo(u)],
         NEW x \in Inodes, Verified(d, c)[MaxEntries][x].ok,
         NEW k \in Names, d.rotated[k] = x
  PROVE  Verified(Unlinked(d, k), c)[MaxEntries][x] = Verified(d, c)[MaxEntries][x]
<1> DEFINE v(j) == Verified(d, c)[MaxEntries][j]
           e == Unlinked(d, k)
           S == {j \in Inodes : v(j).ok /\ Len(v(j).chain) <= Len(v(x).chain)}
<1>0. MaxEntries \in Nat /\ MaxEntries \in 0..MaxEntries
  BY LogConstants
<1>1. \A j \in Inodes : Len(v(j).chain) \in Nat /\ Len(v(j).chain) <= MaxEntries
  BY <1>0, VerifiedTypes, ChainLength
<1>2. \A j \in Names : j # k => e.rotated[j] = d.rotated[j]
  BY DEF Unlinked, Dirs
<1> HIDE DEF e
<1>3. ASSUME NEW j \in S, StartsRotated(c[j])
      PROVE  Before(d, c, j) \in S /\ Before(e, c, j) = Before(d, c, j)
  <2> DEFINE b == Before(d, c, j)
             n == Len(v(b).chain)
             o == Len(v(j).chain)
             r == Len(v(x).chain)
  <2>1. j \in Inodes /\ v(j).ok /\ o <= r
    OBVIOUS
  <2>2. b \in Inodes /\ v(b).ok /\ n < o
    BY <1>3, <2>1, BeforeIsShorter
  <2>3. n \in Nat /\ o \in Nat /\ r \in Nat
    BY <1>1, <2>1, <2>2
  <2>4. n < r
    <3> HIDE DEF n, o, r
    <3> QED BY <2>1, <2>2, <2>3
  <2>5. b # x
    BY <2>3, <2>4
  <2>6. c[j].lines[1].target \in Names
    BY <1>3, <2>1, RotateEntry
  <2>7. c[j].lines[1].target # k
    BY <2>5 DEF Before
  <2>8. n <= r
    <3> HIDE DEF n, o, r
    <3> QED BY <2>3, <2>4
  <2> QED BY <1>2, <2>2, <2>6, <2>7, <2>8 DEF Before
<1>4. Alike(d, c, e, c, S) /\ S \in SUBSET Inodes /\ x \in S
  <2>1. x \in S
    BY <1>1
  <2> HIDE DEF S
  <2> QED BY <1>3, <2>1 DEF Alike, S
<1> HIDE DEF S
<1> QED BY <1>0, <1>1, <1>4, SameChain DEF e

(* Files with the same lines and the same ones before them give the same       *)
(* verdicts, good or bad.                                                    *)
LEMMA SameFiles ==
  ASSUME NEW u \in 0..MaxEntries, NEW d \in Dirs, NEW c \in [Inodes -> FilesTo(u)],
         NEW e, NEW g, NEW S \in SUBSET Inodes,
         \A i \in S : /\ g[i].lines = c[i].lines
                      /\ StartsRotated(c[i]) =>
                           /\ Before(e, g, i) = Before(d, c, i)
                           /\ Before(d, c, i) # 0 => Before(d, c, i) \in S
  PROVE  \A k \in 0..MaxEntries : \A i \in S : Verified(e, g)[k][i] = Verified(d, c)[k][i]
<1> DEFINE V == Verified(d, c)
           W == Verified(e, g)
           T == {k \in Nat : k <= MaxEntries => \A i \in S : W[k][i] = V[k][i]}
<1>0. MaxEntries \in Nat
  BY LogConstants
<1>v. /\ \A k \in 0..MaxEntries, i \in Inodes : V[k][i] = OneFile(d, c, V, k, i)
      /\ \A k \in 0..MaxEntries, i \in Inodes : W[k][i] = OneFile(e, g, W, k, i)
  BY VerifiedSteps
<1> HIDE DEF V, W
<1>1. ASSUME NEW k \in 0..MaxEntries, NEW i \in S,
             k > 0 => \A j \in S : W[k - 1][j] = V[k - 1][j]
      PROVE  W[k][i] = V[k][i]
  <2>1. /\ V[k][i] = OneFile(d, c, V, k, i) /\ W[k][i] = OneFile(e, g, W, k, i)
        /\ g[i].lines = c[i].lines /\ i \in Inodes
    BY <1>v
  <2>2. StartsRotated(g[i]) = StartsRotated(c[i])
    BY <2>1 DEF StartsRotated
  <2>3. CASE ~ StartsRotated(c[i])
    BY <2>1, <2>2, <2>3 DEF OneFile
  <2>4. CASE StartsRotated(c[i])
    <3> DEFINE b == Before(d, c, i)
    <3>1. Before(e, g, i) = b /\ (b # 0 => b \in S)
      BY <2>4
    <3>2. k # 0 /\ b # 0 => W[k - 1][b] = V[k - 1][b]
      BY <1>0, <1>1, <3>1
    <3> HIDE DEF b
    <3> QED BY <2>1, <2>2, <2>4, <3>1, <3>2 DEF OneFile, b
  <2> QED BY <2>3, <2>4
<1>2. 0 \in T
  BY <1>0, <1>1
<1>3. ASSUME NEW k \in Nat, k \in T PROVE k + 1 \in T
  <2> SUFFICES ASSUME k + 1 <= MaxEntries PROVE \A i \in S : W[k + 1][i] = V[k + 1][i]
    OBVIOUS
  <2>1. k + 1 \in 0..MaxEntries /\ k <= MaxEntries /\ (k + 1) - 1 = k
    BY <1>0
  <2> QED BY <1>1, <1>3, <2>1
<1>4. Nat \subseteq T
  <2> HIDE DEF T
  <2> QED BY <1>2, <1>3, SetInduction
<1> QED BY <1>4 DEF V, W

(* Nor does a file that has no name matter, in a directory that differs only   *)
(* in what is not a name.                                                    *)
LEMMA Elsewhere ==
  ASSUME NEW u \in 0..MaxEntries, NEW d \in Dirs, NEW c \in [Inodes -> FilesTo(u)],
         NEW x \in Inodes, \A k \in Names : d.rotated[k] # x,
         NEW e, e.rotated = d.rotated, NEW g, \A i \in Inodes : i # x => g[i] = c[i]
  PROVE  /\ \A k \in 0..MaxEntries, i \in Inodes :
              i # x => Verified(e, g)[k][i] = Verified(d, c)[k][i]
         /\ d.cur # x /\ e.cur = d.cur => Analyze(e, g) = Analyze(d, c)
<1> DEFINE S == {i \in Inodes : i # x}
<1>1. ASSUME NEW i \in S, StartsRotated(c[i])
      PROVE  Before(e, g, i) = Before(d, c, i) /\ (Before(d, c, i) # 0 => Before(d, c, i) \in S)
  <2>1. c[i].lines[1].target \in Names /\ Before(d, c, i) \in Inodes \cup {0}
    BY <1>1, RotateEntry
  <2> QED BY <2>1 DEF Before
<1>2. \A i \in S : g[i].lines = c[i].lines
  OBVIOUS
<1>3. \A k \in 0..MaxEntries : \A i \in S : Verified(e, g)[k][i] = Verified(d, c)[k][i]
  <2>1. S \in SUBSET Inodes
    OBVIOUS
  <2> HIDE DEF S
  <2> QED BY <1>1, <1>2, <2>1, SameFiles, SMTT(30)
<1>4. MaxEntries \in 0..MaxEntries /\ d.cur \in Inodes \cup {0}
  BY LogConstants DEF Dirs
<1> QED BY <1>3, <1>4 DEF Analyze

(* A new name for a file takes none away. *)
LEMMA NewName ==
  ASSUME NEW u \in 0..MaxEntries, NEW d \in Dirs, NEW c \in [Inodes -> FilesTo(u)],
         NEW k \in Names, d.rotated[k] = 0, NEW e,
         \A j \in Names : j # k => e.rotated[j] = d.rotated[j]
  PROVE  Alike(d, c, e, c, Inodes)
<1> SUFFICES ASSUME NEW i \in Inodes, StartsRotated(c[i]), Before(d, c, i) # 0
             PROVE  Before(d, c, i) \in Inodes /\ Before(e, c, i) = Before(d, c, i)
  BY DEF Alike
<1>1. c[i].lines[1].target \in Names /\ Before(d, c, i) \in Inodes \cup {0}
  BY RotateEntry
<1> QED BY <1>1 DEF Before

(* A line more in a file: what is found up to that file is continued by it.   *)
LEMMA LineMore ==
  ASSUME NEW u \in 0..MaxEntries, NEW d \in Dirs, NEW c \in [Inodes -> FilesTo(u)],
         NEW w \in 0..MaxEntries, NEW g, NEW x \in Inodes,
         NEW l \in LinesTo(w), l.target = NoName,
         c[x].lines \in Seq(LinesTo(w)), g[x].lines = Append(c[x].lines, l),
         \A i \in Inodes : i # x => g[i] = c[i],
         Verified(d, c)[MaxEntries][x].ok
  PROVE  Verified(d, g)[MaxEntries][x] = Feed(Verified(d, c)[MaxEntries][x], l)
<1> DEFINE V == Verified(d, c)
           W == Verified(d, g)
           M == MaxEntries
           lines == c[x].lines
           more == g[x].lines
<1>0. M \in Nat /\ M \in 0..M
  BY LogConstants
<1>1. W[M][x] = OneFile(d, g, W, M, x) /\ V[M][x] = OneFile(d, c, V, M, x)
  BY <1>0, VerifiedSteps
<1>2. more = Append(lines, l) /\ lines \in Seq(LinesTo(w))
  OBVIOUS
<1>3. CASE ~ StartsRotated(c[x])
  <2> HIDE DEF V, W, M
  <2>1. ~ StartsRotated(g[x])
    <3>1. CASE Len(lines) = 0
      <4>1. more[1] = l
        BY <1>2, <3>1
      <4> QED BY <4>1 DEF StartsRotated
    <3>2. CASE Len(lines) # 0
      <4>1. Len(lines) > 0 /\ more[1] = lines[1]
        BY <1>2, <3>2
      <4> QED BY <1>3, <4>1 DEF StartsRotated
    <3> QED BY <3>1, <3>2
  <2>2. V[M][x] = Read(Start, lines) /\ W[M][x] = Read(Start, more)
    BY <1>1, <1>3, <2>1 DEF OneFile
  <2>3. Read(Start, more) = Feed(Read(Start, lines), l)
    <3> HIDE DEF lines, more
    <3> QED BY <1>2, ReadAppend
  <2> QED BY <2>2, <2>3 DEF V, W, M
<1>4. CASE StartsRotated(c[x])
  <2> DEFINE b == Before(d, c, x)
             p == V[M][b]
  <2>1. Len(lines) > 0 /\ more[1] = lines[1] /\ Len(more) > 0
    BY <1>2, <1>4 DEF StartsRotated
  <2>2. StartsRotated(g[x]) /\ Before(d, g, x) = b
    BY <1>4, <2>1 DEF StartsRotated, Before
  <2>3. /\ M # 0 /\ b \in Inodes /\ p.ok /\ Len(p.chain) < Len(V[M][x].chain)
        /\ V[M][x] = Read(p, lines)
    BY <1>4, BeforeIsShorter
  <2>4. Len(p.chain) <= M - 1 /\ M - 1 \in 0..M
    <3> DEFINE n == Len(p.chain)
               o == Len(V[M][x].chain)
    <3>1. n \in Nat /\ o \in Nat /\ o <= M /\ n < o
      BY <1>0, <2>3, VerifiedTypes, ChainLength
    <3> HIDE DEF n, o, M
    <3>2. n <= M - 1 /\ M - 1 \in 0..M
      BY <1>0, <2>3, <3>1
    <3> QED BY <3>2 DEF n
  <2>5. W[M - 1][b] = p
    <3>1. /\ Verified(d, c)[MaxEntries][b].ok /\ b \in Inodes /\ M - 1 \in 0..MaxEntries
          /\ Len(Verified(d, c)[MaxEntries][b].chain) < Len(Verified(d, c)[MaxEntries][x].chain)
          /\ Len(Verified(d, c)[MaxEntries][b].chain) <= M - 1
      BY <2>3, <2>4
    <3> DEFINE m == M - 1
    <3> HIDE DEF b, m
    <3>2. Verified(d, g)[m][b] = Verified(d, c)[MaxEntries][b]
      BY <3>1, ShorterChains DEF m
    <3> QED BY <3>2 DEF m
  <2>6. b # 0
    BY <2>3, LogConstants
  <2>7. W[M][x] = Read(p, more)
    <3> HIDE DEF V, W, M, b, p
    <3> QED BY <1>1, <2>2, <2>3, <2>5, <2>6 DEF OneFile
  <2>8. Read(p, more) = Feed(Read(p, lines), l)
    <3> HIDE DEF lines, more, p
    <3> QED BY <1>2, ReadAppend
  <2> QED BY <2>3, <2>7, <2>8
<1> QED BY <1>3, <1>4

-----------------------------------------------------------------------------
(* What the writer puts into the files.                                      *)

LEMMA Monotone ==
  ASSUME NEW u \in Nat, NEW w \in Nat, u <= w
  PROVE  /\ LinesTo(u) \subseteq LinesTo(w) /\ FilesTo(u) \subseteq FilesTo(w)
         /\ [Inodes -> FilesTo(u)] \subseteq [Inodes -> FilesTo(w)]
         /\ MemoriesTo(u) \subseteq MemoriesTo(w)
<1>1. LinesTo(u) \subseteq LinesTo(w)
  BY DEF LinesTo
<1>2. Seq(LinesTo(u)) \subseteq Seq(LinesTo(w))
  BY <1>1
<1>3. FilesTo(u) \subseteq FilesTo(w)
  BY <1>2 DEF FilesTo
<1>4. MemoriesTo(u) \subseteq MemoriesTo(w)
  BY DEF MemoriesTo
<1> QED BY <1>1, <1>3, <1>4

LEMMA NewEntry ==
  ASSUME NEW u \in Nat, NEW n \in 1..u, NEW prev \in 0..u, prev < n,
         NEW target \in Names \cup {NoName}
  PROVE  /\ Entry(n, prev, target) \in LinesTo(u)
         /\ Entry(n, prev, target).kind = "entry" /\ Entry(n, prev, target).n = n
         /\ Entry(n, prev, target).prev = prev /\ Entry(n, prev, target).target = target
BY DEF Entry, LinesTo

LEMMA FileFields ==
  ASSUME NEW u \in Nat, NEW f \in FilesTo(u)
  PROVE  /\ f.lines \in Seq(LinesTo(u)) /\ f.open \in BOOLEAN /\ Len(f.lines) \in Nat
         /\ Size(f) \in Nat \X BOOLEAN /\ Size(f)[1] = Len(f.lines) /\ Size(f)[2] = f.open
<1>1. f.lines \in Seq(LinesTo(u)) /\ f.open \in BOOLEAN
  BY DEF FilesTo
<1>2. Len(f.lines) \in Nat
  BY <1>1
<1> QED BY <1>1, <1>2 DEF Size

(* A write leaves a file of the same lines or of one more, and one whose size *)
(* has not changed is the same.                                              *)
LEMMA WriteTypes ==
  ASSUME NEW u \in Nat, NEW f \in FilesTo(u), NEW l \in LinesTo(u), NEW torn \in BOOLEAN
  PROVE  /\ Whole(f, l, torn) \in FilesTo(u) /\ Parts(f, l, torn) \subseteq FilesTo(u)
         /\ torn = f.open => /\ Whole(f, l, torn).lines = Append(f.lines, l)
                             /\ ~ Whole(f, l, torn).open
                             /\ \A g \in Parts(f, l, torn) : Size(g) = Size(f) => g = f
<1>0. f.lines \in Seq(LinesTo(u)) /\ f.open \in BOOLEAN /\ Len(f.lines) \in Nat
  BY FileFields
<1> DEFINE more == Append(f.lines, l)
           glued == Append(Front(f.lines), Glued)
           cut == Append(f.lines, Torn)
<1>1. /\ more \in Seq(LinesTo(u)) /\ Len(more) = Len(f.lines) + 1
      /\ cut \in Seq(LinesTo(u)) /\ Len(cut) = Len(f.lines) + 1
      /\ glued \in Seq(LinesTo(u))
  <2>1. Torn \in LinesTo(u) /\ Glued \in LinesTo(u)
    BY DEF LinesTo
  <2>2. Front(f.lines) \in Seq(LinesTo(u))
    BY <1>0 DEF Front
  <2> QED BY <1>0, <2>1, <2>2
<1>2. Whole(f, l, torn) = [lines |-> IF f.open /\ ~ torn THEN glued ELSE more, open |-> FALSE]
  BY DEF Whole
<1> HIDE DEF more, glued, cut
<1>3. Whole(f, l, torn) \in FilesTo(u)
  BY <1>1, <1>2 DEF FilesTo
<1> DEFINE unended == [Whole(f, l, torn) EXCEPT !.open = TRUE]
           ended == [f EXCEPT !.open = FALSE]
<1>4. /\ unended \in FilesTo(u) /\ unended.open = TRUE
      /\ unended.lines = IF f.open /\ ~ torn THEN glued ELSE more
  <2> DEFINE w == Whole(f, l, torn)
  <2>1. w \in FilesTo(u) /\ w.lines = IF f.open /\ ~ torn THEN glued ELSE more
    BY <1>2, <1>3
  <2> HIDE DEF w
  <2>2. /\ [w EXCEPT !.open = TRUE] \in FilesTo(u) /\ [w EXCEPT !.open = TRUE].open = TRUE
        /\ [w EXCEPT !.open = TRUE].lines = w.lines
    BY <2>1 DEF FilesTo
  <2> QED BY <2>1, <2>2 DEF w
<1>5. ended \in FilesTo(u) /\ ended.open = FALSE
  BY DEF FilesTo
<1>6. Parts(f, l, torn) \subseteq
        {f, unended, [lines |-> cut, open |-> TRUE]} \cup IF f.open THEN {ended} ELSE {}
  BY DEF Parts, cut
<1> HIDE DEF unended, ended
<1>7. Parts(f, l, torn) \subseteq FilesTo(u)
  <2>1. [lines |-> cut, open |-> TRUE] \in FilesTo(u)
    BY <1>1 DEF FilesTo
  <2> QED BY <1>4, <1>5, <1>6, <2>1
<1>8. ASSUME torn = f.open
      PROVE  Whole(f, l, torn).lines = Append(f.lines, l) /\ ~ Whole(f, l, torn).open
  BY <1>2, <1>8 DEF more
<1>9. ASSUME torn = f.open, NEW g \in Parts(f, l, torn), Size(g) = Size(f) PROVE g = f
  <2>1. Len(g.lines) = Len(f.lines) /\ g.open = f.open
    BY <1>9 DEF Size
  <2>2. CASE g = unended
    BY <1>0, <1>1, <1>4, <1>9, <2>1, <2>2
  <2>3. CASE g = [lines |-> cut, open |-> TRUE]
    BY <1>0, <1>1, <2>1, <2>3
  <2>4. CASE f.open /\ g = ended
    BY <1>5, <2>1, <2>4
  <2> QED BY <1>6, <1>9, <2>2, <2>3, <2>4
<1> QED BY <1>3, <1>7, <1>8, <1>9

LEMMA ComputedTypes ==
  ASSUME NEW u \in Nat, NEW f \in FilesTo(u), NEW v \in VerdictsTo(u)
  PROVE  Computed(v, f) \in MemoriesTo(u) /\ Agrees(Computed(v, f), f, v)
<1>1. /\ v.ok \in BOOLEAN /\ v.head \in 0..u /\ Len(v.chain) \in Nat
      /\ f.open \in BOOLEAN /\ Len(f.lines) \in Nat /\ Size(f) \in Nat \X BOOLEAN
  BY VerdictFields, FileFields
<1>2. Computed(v, f) \in MemoriesTo(u)
  BY <1>1 DEF Computed, MemoriesTo
<1>3. Agrees(Computed(v, f), f, v)
  BY <1>1 DEF Computed, Agrees
<1> QED BY <1>2, <1>3

LEMMA NoMemTypes == ASSUME NEW u \in Nat PROVE NoMem \in MemoriesTo(u)
<1>1. 0 \in 0..u /\ 0 \in Nat
  OBVIOUS
<1>2. FALSE \in BOOLEAN
  OBVIOUS
<1>3. <<0, FALSE>> \in Nat \X BOOLEAN
  BY <1>1, <1>2
<1> QED BY <1>1, <1>3 DEF NoMem, MemoriesTo

-----------------------------------------------------------------------------
(* The invariant of the writer.                                              *)

(* What all its steps need of the state they start from. *)
LEMMA TypeFacts ==
  ASSUME TypeInv
  PROVE  /\ used \in Nat /\ MaxEntries \in Nat /\ used \in 0..MaxEntries
         /\ entry \in Nat /\ entry \in 0..used
         /\ dir \in Dirs /\ InOrder(dir) /\ dir.cur \in Inodes \cup {0}
         /\ dir.tmp \in Inodes \cup {0} /\ dir.rotated \in [Names -> Inodes \cup {0}]
         /\ 0 \notin Inodes /\ 0 \notin Names /\ Names \subseteq Nat
         /\ found \in VerdictsTo(used)
         /\ \A i \in Inodes : disk[i] \in FilesTo(used) /\ synced[i] \in FilesTo(used)
         /\ mem.hash \in 0..used /\ mem.hash \in Nat /\ mem.count \in Nat
         /\ mem.invalid \in BOOLEAN /\ mem.torn \in BOOLEAN
<1>1. /\ used \in 0..MaxEntries /\ MaxEntries \in Nat /\ entry \in 0..used
      /\ dir \in Dirs /\ InOrder(dir) /\ disk \in [Inodes -> FilesTo(used)]
      /\ synced \in [Inodes -> FilesTo(used)] /\ mem \in MemoriesTo(used)
      /\ found = Analyze(dir, disk)
  BY LogConstants DEF TypeInv
<1>2. found \in VerdictsTo(used)
  BY <1>1, VerifiedTypes
<1>3. /\ dir.cur \in Inodes \cup {0} /\ dir.tmp \in Inodes \cup {0}
      /\ dir.rotated \in [Names -> Inodes \cup {0}]
  BY <1>1 DEF Dirs
<1>4. /\ mem.hash \in 0..used /\ mem.count \in Nat
      /\ mem.invalid \in BOOLEAN /\ mem.torn \in BOOLEAN
  BY <1>1 DEF MemoriesTo
<1>5. 0 \notin Inodes /\ 0 \notin Names /\ Names \subseteq Nat
  BY LogConstants
<1> QED BY <1>1, <1>2, <1>3, <1>4, <1>5

(* Down, nothing but the types is promised. *)
LEMMA DownIsSafe ==
  ASSUME TypeInv', pc' \in {"down", "broken"}
  PROVE  LogInv'
BY DEF LogInv, IdleInv, WriterInv, LinkedInv, RotatingInv, ExtendedInv

LEMMA InitStep == Init => LogInv
<1> SUFFICES ASSUME Init PROVE LogInv
  OBVIOUS
<1>1. pc = "down"
  BY DEF Init
<1>2. Start = Analyze(NoDir, disk)
  BY DEF Analyze, NoDir
<1>3. NoDir \in Dirs /\ InOrder(NoDir)
  BY DEF NoDir, Dirs, InOrder, NoRotated
<1>4. Empty \in FilesTo(0)
  BY DEF Empty, FilesTo
<1>5. TypeInv
  BY <1>1, <1>2, <1>3, <1>4, LogConstants, NoMemTypes DEF Init, TypeInv
<1> QED BY <1>1, <1>5 DEF LogInv, IdleInv, WriterInv, LinkedInv, RotatingInv, ExtendedInv

(* openAudit: what the writer remembers is what it has just found. *)
LEMMA OpenStep == LogInv /\ Open => LogInv'
<1> SUFFICES ASSUME LogInv, Open PROVE LogInv'
  OBVIOUS
<1> USE TypeFacts DEF LogInv
<1> DEFINE r == Recovered(dir)
<1>1. /\ pc' = "idle" /\ fd' = dir'.cur /\ used' = used /\ entry' = entry /\ acked' = acked
      /\ found' = Analyze(dir', disk') /\ mem' = Computed(found', disk'[fd'])
  BY DEF Open, Observe
<1>2. r \in Dirs /\ r.rotated = dir.rotated /\ (dir.tmp = 0 => r = dir)
  BY DEF Recovered, Dirs
<1>3. /\ dir' \in Dirs /\ dir'.cur \in Inodes /\ InOrder(dir')
      /\ dir' \in dirs' /\ dirs' \subseteq Dirs /\ \A d \in dirs' : InOrder(d)
      /\ disk' \in [Inodes -> FilesTo(used)] /\ synced' \in [Inodes -> FilesTo(used)]
  <2>1. InOrder(r)
    BY <1>2 DEF InOrder
  <2>2. CASE r.cur # 0
    <3>1. dir' = r /\ dirs' = (IF dir.tmp = 0 THEN dirs ELSE {r}) /\ UNCHANGED fileVars
      BY <2>2 DEF Open
    <3> HIDE DEF r
    <3>2. r.cur \in Inodes
      BY <1>2, <2>2 DEF Dirs
    <3>3. dir' \in dirs' /\ dirs' \subseteq Dirs /\ \A d \in dirs' : InOrder(d)
      BY <1>2, <2>1, <3>1 DEF TypeInv
    <3> QED BY <1>2, <2>1, <3>1, <3>2, <3>3 DEF TypeInv, fileVars
  <2>3. CASE r.cur = 0
    <3>1. PICK i \in Fresh : /\ dir' = [r EXCEPT !.cur = i] /\ dirs' = dirs \cup {dir'}
                             /\ disk' = [disk EXCEPT ![i] = Empty]
                             /\ synced' = [synced EXCEPT ![i] = Empty]
      BY <2>3 DEF Open
    <3> HIDE DEF r
    <3>2. i \in Inodes /\ Empty \in FilesTo(used)
      BY DEF Fresh, Empty, FilesTo
    <3>3. dir' \in Dirs /\ dir'.cur = i /\ dir'.rotated = r.rotated
      BY <1>2, <3>1, <3>2 DEF Dirs
    <3>4. InOrder(dir')
      BY <2>1, <3>3 DEF InOrder
    <3> QED BY <3>1, <3>2, <3>3, <3>4 DEF TypeInv
  <2> QED BY <2>2, <2>3
<1>4. found' \in VerdictsTo(used) /\ disk'[fd'] \in FilesTo(used)
  BY <1>1, <1>3, VerifiedTypes
<1>5. mem' \in MemoriesTo(used) /\ Agrees(mem', disk'[fd'], found')
  BY <1>1, <1>4, ComputedTypes
<1>6. TypeInv'
  BY <1>1, <1>3, <1>5 DEF TypeInv
<1>7. IdleInv'
  BY <1>1, <1>3, <1>5 DEF IdleInv
<1> QED BY <1>1, <1>6, <1>7 DEF WriterInv, LinkedInv, RotatingInv, ExtendedInv

(* append's checks. *)
LEMMA BeginStep == LogInv /\ Begin => LogInv'
<1> SUFFICES ASSUME LogInv, Begin PROVE LogInv'
  OBVIOUS
<1> USE TypeFacts DEF LogInv
<1>1. /\ pc = "idle" /\ used < MaxEntries /\ dir.cur = fd /\ mem' = Ensured
      /\ dir' = dir /\ dirs' = dirs /\ disk' = disk /\ synced' = synced /\ fd' = fd
      /\ acked' = acked /\ found' = found
  BY DEF Begin, fileVars
<1>2. fd \in Inodes /\ disk[fd] \in FilesTo(used)
  BY <1>1 DEF IdleInv
<1>3. mem' \in MemoriesTo(used) /\ Agrees(mem', disk'[fd'], found')
  <2>1. CASE mem.size = Size(disk[fd])
    <3>1. mem' = mem
      BY <1>1, <2>1 DEF Ensured
    <3> QED BY <1>1, <2>1, <3>1 DEF IdleInv, TypeInv
  <2>2. CASE mem.size # Size(disk[fd])
    <3>1. mem' = Computed(found, disk[fd])
      BY <1>1, <2>2 DEF Ensured
    <3>2. mem' \in MemoriesTo(used) /\ Agrees(mem', disk[fd], found)
      BY <1>2, <3>1, ComputedTypes
    <3> QED BY <1>1, <3>2
  <2> QED BY <2>1, <2>2
<1>4. CASE mem'.invalid
  <2>1. pc' = "idle" /\ used' = used /\ entry' = entry
    BY <1>1, <1>4 DEF Begin
  <2>2. TypeInv'
    BY <1>1, <1>3, <2>1 DEF TypeInv
  <2>3. IdleInv'
    BY <1>1, <1>2, <1>3, <2>1 DEF IdleInv
  <2> QED BY <2>1, <2>2, <2>3 DEF WriterInv, LinkedInv, RotatingInv, ExtendedInv
<1>5. CASE ~ mem'.invalid
  <2>1. pc' \in {"link", "write"} /\ used' = used + 1 /\ entry' = used + 1
    BY <1>1, <1>5 DEF Begin
  <2>2. used' \in 0..MaxEntries /\ used' \in Nat /\ used <= used' /\ entry' \in 0..used'
    BY <1>1, <2>1
  <2>3. TypeInv'
    <3>1. /\ disk \in [Inodes -> FilesTo(used')] /\ synced \in [Inodes -> FilesTo(used')]
          /\ mem' \in MemoriesTo(used')
      BY <1>3, <2>2, Monotone DEF TypeInv
    <3>2. acked' \subseteq 1..used'
      BY <1>1, <2>2 DEF TypeInv
    <3> QED BY <1>1, <2>1, <2>2, <3>1, <3>2 DEF TypeInv
  <2>4. mem'.hash < entry'
    BY <1>3, <2>1 DEF MemoriesTo
  <2>5. WriterInv'
    <3>1. found'.ok
      BY <1>3, <1>5 DEF Agrees
    <3> QED BY <1>1, <1>2, <1>3, <2>1, <2>4, <3>1 DEF WriterInv
  <2> QED BY <2>1, <2>3, <2>5 DEF IdleInv, LinkedInv, RotatingInv, ExtendedInv
<1> QED BY <1>4, <1>5

(* linkRotated: one name more, which no entry holds yet. *)
LEMMA LinkStep == LogInv /\ Link => LogInv'
<1> SUFFICES ASSUME LogInv, Link PROVE LogInv'
  OBVIOUS
<1> USE TypeFacts DEF LogInv
<1>1. PICK k \in Names : /\ dir.rotated[k] = 0
                         /\ \A j \in Names : dir.rotated[j] = 0 => k <= j
                         /\ dir' = [dir EXCEPT !.rotated[k] = fd]
                         /\ dirs' = dirs \cup {dir'}
  BY DEF Link, SetDir
<1>2. /\ pc = "link" /\ pc' = "create" /\ disk' = disk /\ synced' = synced /\ fd' = fd
      /\ mem' = mem /\ entry' = entry /\ used' = used /\ acked' = acked
      /\ found' = Analyze(dir', disk)
  BY DEF Link, Observe, fileVars
<1>3. /\ fd # 0 /\ dir.cur = fd /\ fd \in Inodes /\ Agrees(mem, disk[fd], found) /\ found.ok
      /\ found = Analyze(dir, disk) /\ entry = used /\ mem.hash < entry
  BY <1>2 DEF WriterInv, TypeInv
<1>4. /\ dir' \in Dirs /\ dir'.cur = fd /\ dir'.rotated[k] = fd
      /\ \A j \in Names : j # k => dir'.rotated[j] = dir.rotated[j]
  BY <1>1, <1>3 DEF Dirs
<1>5. \A j \in Names : dir'.rotated[j] # 0 => j <= k
  <2> SUFFICES ASSUME NEW j \in Names, dir'.rotated[j] # 0, ~ (j <= k) PROVE FALSE
    OBVIOUS
  <2>1. k < j /\ j # k
    OBVIOUS
  <2> QED BY <1>1, <1>4, <2>1 DEF InOrder
<1>6. InOrder(dir')
  <2> SUFFICES ASSUME NEW j \in Names, NEW i \in Names, dir'.rotated[i] # 0, j < i
               PROVE  dir'.rotated[j] # 0
    BY DEF InOrder
  <2>1. j < k
    BY <1>5
  <2>2. ~ (k <= j)
    BY <2>1
  <2> QED BY <1>1, <1>4, <2>1, <2>2
<1>7. LinkedName' = k
  BY <1>1, <1>2, <1>3, <1>4, <1>5 DEF LinkedName
<1>9. found' = found
  <2>1. disk \in [Inodes -> FilesTo(used)] /\ Inodes \in SUBSET Inodes
    BY DEF TypeInv
  <2>2. Alike(dir, disk, dir', disk, Inodes)
    BY <1>1, <1>4, <2>1, NewName
  <2>3. Analyze(dir', disk) = Analyze(dir, disk)
    BY <1>3, <1>4, <2>1, <2>2, SameLog
  <2> QED BY <1>2, <1>3, <2>3
<1>10. TypeInv'
  BY <1>1, <1>2, <1>4, <1>6 DEF TypeInv
<1>11. WriterInv'
  BY <1>2, <1>3, <1>4, <1>9 DEF WriterInv
<1>12. LinkedInv'
  BY <1>2, <1>4, <1>5, <1>7 DEF LinkedInv
<1> QED BY <1>2, <1>10, <1>11, <1>12 DEF IdleInv, RotatingInv, ExtendedInv

(* `.rotating` is created, a file that is not of the log. *)
LEMMA CreateStep == LogInv /\ Create => LogInv'
<1> SUFFICES ASSUME LogInv, Create PROVE LogInv'
  OBVIOUS
<1> USE TypeFacts DEF LogInv
<1> DEFINE begun == [lines |-> <<Torn>>, open |-> TRUE]
<1>1. PICK i \in Fresh : /\ dir' = [dir EXCEPT !.tmp = i] /\ dirs' = dirs \cup {dir'}
                         /\ disk' = [disk EXCEPT ![i] = begun]
                         /\ synced' = [synced EXCEPT ![i] = Empty]
  BY DEF Create, SetDir
<1>2. /\ pc = "create" /\ pc' = "fill" /\ fd' = fd /\ mem' = mem /\ entry' = entry
      /\ used' = used /\ acked' = acked /\ found' = Analyze(dir', disk')
  BY DEF Create, Observe
<1>3. i \in Inodes /\ i # dir.cur /\ \A k \in Names : dir.rotated[k] # i
  BY DEF Fresh, TypeInv, NamedInodes
<1>4. dir' \in Dirs /\ dir'.cur = dir.cur /\ dir'.rotated = dir.rotated /\ dir'.tmp = i
  BY <1>1, <1>3 DEF Dirs
<1>5. begun \in FilesTo(used) /\ Empty \in FilesTo(used)
  <2>1. Torn \in LinesTo(used)
    BY DEF LinesTo
  <2> QED BY <2>1 DEF FilesTo, Empty
<1> HIDE DEF begun
<1>6. InOrder(dir')
  BY <1>4 DEF InOrder
<1>7. TypeInv'
  BY <1>1, <1>2, <1>3, <1>4, <1>5, <1>6 DEF TypeInv
<1>8. LinkedName' = LinkedName
  BY <1>2, <1>4 DEF LinkedName
<1>9. \A j \in Inodes : j # i => disk'[j] = disk[j]
  BY <1>1
<1>10. found' = found
  BY <1>2, <1>3, <1>4, <1>9, Elsewhere DEF TypeInv
<1>11. disk'[fd] = disk[fd] /\ fd # 0 /\ dir.cur = fd
  BY <1>2, <1>3, <1>9 DEF WriterInv
<1>12. WriterInv'
  BY <1>2, <1>4, <1>10, <1>11 DEF WriterInv
<1>13. LinkedInv'
  BY <1>2, <1>4, <1>8 DEF LinkedInv
<1>14. RotatingInv'
  BY <1>2, <1>3, <1>4 DEF RotatingInv
<1> QED BY <1>2, <1>7, <1>12, <1>13, <1>14 DEF IdleInv, ExtendedInv

(* The rotate entry is in it; it is still not of the log. *)
LEMMA FillStep == LogInv /\ Fill => LogInv'
<1> SUFFICES ASSUME LogInv, Fill PROVE LogInv'
  OBVIOUS
<1> USE TypeFacts DEF LogInv
<1> DEFINE f == [lines |-> <<Entry(entry, mem.hash, LinkedName)>>, open |-> FALSE]
<1>1. /\ pc = "fill" /\ pc' = "rename" /\ dir' = dir /\ dirs' = {dir} /\ fd' = fd /\ mem' = mem
      /\ entry' = entry /\ used' = used /\ acked' = acked /\ found' = Analyze(dir', disk')
      /\ disk' = [disk EXCEPT ![dir.tmp] = f] /\ synced' = [synced EXCEPT ![dir.tmp] = f]
  BY DEF Fill, Observe
<1>2. dir.tmp \in Inodes /\ dir.tmp # dir.cur /\ \A k \in Names : dir.rotated[k] # dir.tmp
  BY <1>1 DEF RotatingInv
<1>3. f \in FilesTo(used)
  <2>1. entry \in 1..used /\ mem.hash < entry /\ LinkedName \in Names
    BY <1>1 DEF WriterInv, LinkedInv
  <2>2. Entry(entry, mem.hash, LinkedName) \in LinesTo(used)
    BY <2>1, NewEntry
  <2> QED BY <2>2 DEF FilesTo
<1>4. LinkedName' = LinkedName
  BY <1>1 DEF LinkedName
<1>5. disk'[dir.tmp] = f
  BY <1>1, <1>2 DEF TypeInv
<1>6. RotatingInv'
  BY <1>1, <1>2, <1>4, <1>5 DEF RotatingInv
<1> HIDE DEF f
<1>7. TypeInv'
  BY <1>1, <1>2, <1>3 DEF TypeInv
<1>8. \A j \in Inodes : j # dir.tmp => disk'[j] = disk[j]
  BY <1>1
<1>9. found' = found
  <2> DEFINE g == disk'
             x == dir.tmp
  <2>1. /\ disk \in [Inodes -> FilesTo(used)] /\ x \in Inodes /\ dir.cur # x
        /\ \A k \in Names : dir.rotated[k] # x
        /\ \A i \in Inodes : i # x => g[i] = disk[i]
        /\ found = Analyze(dir, disk) /\ found' = Analyze(dir, g)
    BY <1>1, <1>2, <1>8 DEF TypeInv
  <2> HIDE DEF g, x
  <2>2. Analyze(dir, g) = Analyze(dir, disk)
    BY <2>1, Elsewhere
  <2> QED BY <2>1, <2>2
<1>10. disk'[fd] = disk[fd] /\ fd # 0 /\ dir.cur = fd
  BY <1>1, <1>2, <1>8 DEF WriterInv
<1>11. WriterInv'
  BY <1>1, <1>9, <1>10 DEF WriterInv
<1>12. LinkedInv'
  BY <1>1, <1>4 DEF LinkedInv
<1> QED BY <1>1, <1>6, <1>7, <1>11, <1>12 DEF IdleInv, ExtendedInv

(* Now it is the current file, and the chain has the rotate entry. *)
(* The new file's one line is read after all that was found before. *)
LEMMA NewFile ==
  ASSUME LogInv, Rename
  PROVE  LET E == Entry(entry, mem.hash, LinkedName)
         IN  found' = Feed(Passed(found), E) /\ E \in LinesTo(used)
<1> USE TypeFacts DEF LogInv
<1> DEFINE E == Entry(entry, mem.hash, LinkedName)
           V == Verified(dir, disk)
           W == Verified(dir', disk)
           M == MaxEntries
           t == dir.tmp
<1>1. /\ pc = "rename" /\ dir' = [dir EXCEPT !.cur = t, !.tmp = 0] /\ disk' = disk
      /\ found' = Analyze(dir', disk)
  BY DEF Rename, SetDir, Observe, fileVars
<1>2. /\ t \in Inodes /\ t # 0 /\ disk[t] = [lines |-> <<E>>, open |-> FALSE]
      /\ LinkedName \in Names /\ dir.rotated[LinkedName] = fd /\ fd # 0 /\ dir.cur = fd
      /\ fd \in Inodes /\ Agrees(mem, disk[fd], found) /\ found.ok /\ entry = used
      /\ mem.hash < entry /\ found = Analyze(dir, disk)
      /\ disk \in [Inodes -> FilesTo(used)]
  BY <1>1 DEF RotatingInv, LinkedInv, WriterInv, TypeInv
<1>3. /\ dir' \in Dirs /\ dir'.cur = t /\ dir'.rotated = dir.rotated
  BY <1>1, <1>2 DEF Dirs
<1>4. /\ E \in LinesTo(used) /\ E.kind = "entry" /\ E.n = entry /\ E.prev = mem.hash
      /\ E.target = LinkedName
  BY <1>2, NewEntry
<1>5. found = V[M][fd] /\ found' = W[M][t]
  BY <1>1, <1>2, <1>3 DEF Analyze
<1> HIDE DEF E
<1>6. StartsRotated(disk[t]) /\ Before(dir', disk, t) = fd /\ disk[t].lines = <<E>>
  BY <1>2, <1>3, <1>4 DEF StartsRotated, Before, NoName
<1>7. M # 0 /\ M - 1 \in 0..M /\ M \in 0..M /\ Len(found.chain) <= M - 1
  <2>1. /\ Len(found.chain) \in Nat /\ found.head \in Nat /\ Len(found.chain) <= found.head
    BY VerdictFields
  <2>2. found.head = mem.hash
    BY <1>2 DEF Agrees
  <2> QED BY <1>2, <2>1, <2>2
<1>8. W[M - 1][fd] = found
  <2>1. Alike(dir, disk, dir', disk, Inodes)
    BY <1>2, <1>3, RotateEntry DEF Alike, Before
  <2>2. \A k, m \in 0..M : \A i \in Inodes : V[k][i].ok /\ Len(V[k][i].chain) <= m => W[m][i] = V[k][i]
    BY <1>2, <2>1, SameChain
  <2> HIDE DEF V, W, M
  <2> QED BY <1>2, <1>5, <1>7, <2>2
<1>9. found' = Read(found, <<E>>)
  <2>1. W[M][t] = OneFile(dir', disk, W, M, t)
    BY <1>2, <1>7, VerifiedSteps
  <2> HIDE DEF V, W, M
  <2> QED BY <1>2, <1>5, <1>6, <1>7, <1>8, <2>1 DEF OneFile
<1>10. found' = Feed(Passed(found), E)
  <2>1. Read(found, Append(<<>>, E)) = Feed(Read(found, <<>>), E)
    <3> DEFINE none == <<>>
    <3>1. none \in Seq(LinesTo(used)) /\ E \in LinesTo(used)
      BY <1>4
    <3> HIDE DEF none
    <3>2. Read(found, Append(none, E)) = Feed(Read(found, none), E)
      BY <3>1, ReadAppend
    <3> QED BY <3>2 DEF none
  <2>2. Read(found, <<>>) = Passed(found)
    <3>1. <<>> \in Seq(LinesTo(used)) /\ Len(<<>>) = 0
      OBVIOUS
    <3> QED BY <3>1, ReadSteps
  <2>3. Append(<<>>, E) = <<E>>
    OBVIOUS
  <2> QED BY <1>9, <2>1, <2>2, <2>3
<1> QED BY <1>4, <1>10 DEF E

LEMMA RenameStep == LogInv /\ Rename => LogInv'
<1> SUFFICES ASSUME LogInv, Rename PROVE LogInv'
  OBVIOUS
<1> USE TypeFacts DEF LogInv
<1> DEFINE E == Entry(entry, mem.hash, LinkedName)
<1>1. /\ pc = "rename" /\ pc' = "reopen" /\ dir' = [dir EXCEPT !.cur = dir.tmp, !.tmp = 0]
      /\ dirs' = dirs \cup {dir'} /\ disk' = disk /\ synced' = synced /\ fd' = fd /\ mem' = mem
      /\ entry' = entry /\ used' = used /\ acked' = acked /\ found' = Analyze(dir', disk)
  BY DEF Rename, SetDir, Observe, fileVars
<1>2. /\ dir.tmp \in Inodes /\ dir.tmp # 0 /\ ~ disk[dir.tmp].open
      /\ LinkedName \in Names /\ dir.rotated[LinkedName] = fd /\ fd # 0 /\ dir.cur = fd
      /\ fd \in Inodes /\ Agrees(mem, disk[fd], found) /\ found.ok /\ entry = used
      /\ mem.hash < entry /\ found = Analyze(dir, disk)
      /\ disk \in [Inodes -> FilesTo(used)]
  BY <1>1 DEF RotatingInv, LinkedInv, WriterInv, TypeInv
<1>3. /\ dir' \in Dirs /\ dir'.cur = dir.tmp /\ dir'.rotated = dir.rotated
  BY <1>1, <1>2 DEF Dirs
<1>4. InOrder(dir')
  BY <1>3 DEF InOrder
<1>5. TypeInv'
  BY <1>1, <1>3, <1>4 DEF TypeInv
<1>6. /\ E \in LinesTo(used) /\ E.kind = "entry" /\ E.n = entry /\ E.prev = mem.hash
      /\ E.target = LinkedName
  BY <1>2, NewEntry
<1>7. found' = Feed(Passed(found), E)
  BY NewFile
<1> HIDE DEF E
<1>8. /\ found'.ok /\ found'.head = entry
       /\ Len(found'.chain) = mem.count + 1 /\ found'.chain[mem.count + 1] = entry
  <2> DEFINE p == Passed(found)
  <2>1. p.ok /\ p.head = mem.hash /\ Len(p.chain) = mem.count /\ p.chain \in Seq(1..used)
    BY <1>2, VerdictFields DEF Passed, VerdictsTo, Agrees
  <2> HIDE DEF p
  <2>2. found' = [ok |-> TRUE, head |-> entry, pending |-> FALSE, chain |-> Append(p.chain, entry)]
    BY <1>6, <1>7, <2>1 DEF Feed, p
  <2>3. /\ Len(Append(p.chain, entry)) = mem.count + 1
        /\ Append(p.chain, entry)[mem.count + 1] = entry
    <3> DEFINE c == p.chain
    <3>1. c \in Seq(1..used) /\ Len(c) = mem.count /\ entry \in 1..used
      BY <1>2, <2>1
    <3> HIDE DEF c
    <3>2. Len(Append(c, entry)) = Len(c) + 1 /\ Append(c, entry)[Len(c) + 1] = entry
      BY <3>1, AppendProperties
    <3> QED BY <3>1, <3>2 DEF c
  <2> QED BY <2>2, <2>3
<1>9. ExtendedInv'
  BY <1>1, <1>2, <1>3, <1>8 DEF ExtendedInv, Extended
<1> QED BY <1>1, <1>5, <1>9 DEF IdleInv, WriterInv, LinkedInv, RotatingInv

(* The writer notes it. *)
LEMMA ReopenStep == LogInv /\ Reopen => LogInv'
<1> SUFFICES ASSUME LogInv, Reopen PROVE LogInv'
  OBVIOUS
<1> USE TypeFacts DEF LogInv
<1>1. /\ pc = "reopen" /\ dir' = dir /\ dirs' = {dir} /\ disk' = disk /\ synced' = synced
      /\ fd' = dir.cur /\ acked' = acked /\ found' = found
      /\ mem' = [hash |-> entry, count |-> mem.count + 1, size |-> Size(disk[dir.cur]),
                 fileLines |-> 1, torn |-> FALSE, invalid |-> FALSE]
  BY DEF Reopen, fileVars
<1>2. /\ found.ok /\ found.head = entry /\ Len(found.chain) = mem.count + 1
      /\ dir.cur # 0 /\ ~ disk[dir.cur].open /\ entry = used /\ dir.cur \in Inodes
  BY <1>1 DEF ExtendedInv, Extended
<1>3. Size(disk[dir.cur]) \in Nat \X BOOLEAN
  BY <1>2, FileFields
<1>4. mem' \in MemoriesTo(used) /\ Agrees(mem', disk'[fd'], found')
  BY <1>1, <1>2, <1>3 DEF MemoriesTo, Agrees
<1>5. CASE used < MaxEntries
  <2>1. pc' = "write" /\ used' = used + 1 /\ entry' = used + 1
    BY <1>5 DEF Reopen
  <2>2. used' \in 0..MaxEntries /\ used' \in Nat /\ used <= used' /\ entry' \in 0..used'
    BY <1>5, <2>1
  <2>3. TypeInv'
    <3>1. /\ disk \in [Inodes -> FilesTo(used')] /\ synced \in [Inodes -> FilesTo(used')]
          /\ mem' \in MemoriesTo(used')
      BY <1>4, <2>2, Monotone DEF TypeInv
    <3>2. acked' \subseteq 1..used'
      BY <1>1, <2>2 DEF TypeInv
    <3> QED BY <1>1, <2>1, <2>2, <3>1, <3>2 DEF TypeInv
  <2>4. WriterInv'
    BY <1>1, <1>2, <1>4, <2>1 DEF WriterInv
  <2> QED BY <2>1, <2>3, <2>4 DEF IdleInv, LinkedInv, RotatingInv, ExtendedInv
<1>6. CASE ~ (used < MaxEntries)
  <2>1. pc' = "idle" /\ used' = used /\ entry' = entry
    BY <1>6 DEF Reopen
  <2>2. TypeInv'
    BY <1>1, <1>4, <2>1 DEF TypeInv
  <2>3. IdleInv'
    BY <1>1, <1>2, <1>4, <2>1 DEF IdleInv
  <2> QED BY <2>1, <2>2, <2>3 DEF WriterInv, LinkedInv, RotatingInv, ExtendedInv
<1> QED BY <1>5, <1>6

LEMMA ReopenFailsStep == LogInv /\ ReopenFails => LogInv'
<1> SUFFICES ASSUME LogInv, ReopenFails PROVE LogInv'
  OBVIOUS
<1>1. TypeInv'
  BY DEF LogInv, TypeInv, ReopenFails, fileVars
<1>2. pc' = "broken"
  BY DEF ReopenFails
<1> QED BY <1>1, <1>2, DownIsSafe

(* An undone rotation leaves the log as it was. *)
LEMMA RotateFailsStep == LogInv /\ RotateFails => LogInv'
<1> SUFFICES ASSUME LogInv, RotateFails PROVE LogInv'
  OBVIOUS
<1> USE TypeFacts DEF LogInv
<1>1. /\ pc \in {"link", "create", "fill", "rename"} /\ pc' = "idle"
      /\ dir' = [dir EXCEPT !.tmp = 0,
                            !.rotated = IF pc = "link" THEN @ ELSE [@ EXCEPT ![LinkedName] = 0]]
      /\ dirs' = dirs \cup {dir'} /\ disk' = disk /\ synced' = synced /\ fd' = fd /\ mem' = mem
      /\ entry' = entry /\ used' = used /\ acked' = acked /\ found' = Analyze(dir', disk)
  BY DEF RotateFails, SetDir, Observe, fileVars
<1>2. /\ fd # 0 /\ dir.cur = fd /\ fd \in Inodes /\ Agrees(mem, disk[fd], found) /\ found.ok
      /\ found = Analyze(dir, disk)
  BY <1>1 DEF WriterInv, TypeInv
<1>3. /\ dir' \in Dirs /\ dir'.cur = fd /\ InOrder(dir') /\ found' = found
  <2>1. CASE pc = "link"
    <3>1. dir' \in Dirs /\ dir'.cur = fd /\ dir'.rotated = dir.rotated
      BY <1>1, <1>2, <2>1 DEF Dirs
    <3>2. InOrder(dir')
      BY <3>1 DEF InOrder
    <3>3. Alike(dir, disk, dir', disk, Inodes)
      BY <3>1, RotateEntry DEF Alike, Before, TypeInv
    <3>4. disk \in [Inodes -> FilesTo(used)]
      BY DEF TypeInv
    <3>5. Analyze(dir', disk) = Analyze(dir, disk)
      BY <1>2, <3>1, <3>3, <3>4, SameLog
    <3> QED BY <1>1, <1>2, <3>1, <3>2, <3>5
  <2>2. CASE pc # "link"
    <3>1. pc \in {"create", "fill", "rename"} /\ dir' = Unlinked(dir, LinkedName)
      BY <1>1, <2>2 DEF Unlinked
    <3>2. /\ LinkedName \in Names /\ dir.rotated[LinkedName] = fd
          /\ \A j \in Names : dir.rotated[j] # 0 => j <= LinkedName
      BY <3>1 DEF LinkedInv
    <3>3. /\ dir' \in Dirs /\ dir'.cur = fd /\ dir'.rotated[LinkedName] = 0
          /\ \A j \in Names : j # LinkedName => dir'.rotated[j] = dir.rotated[j]
      BY <1>2, <3>1, <3>2 DEF Dirs, Unlinked
    <3>4. InOrder(dir')
      <4> DEFINE n == LinkedName
      <4>1. n \in Nat
        BY <3>2
      <4> HIDE DEF n
      <4> SUFFICES ASSUME NEW j \in Names, NEW i \in Names, dir'.rotated[i] # 0, j < i
                   PROVE  dir'.rotated[j] # 0
        BY DEF InOrder
      <4>2. i # n /\ dir.rotated[i] # 0 /\ i <= n
        BY <3>2, <3>3 DEF n
      <4>3. j # n
        BY <4>1, <4>2
      <4> QED BY <3>3, <4>2, <4>3 DEF InOrder, n
    <3>5. Analyze(dir', disk) = Analyze(dir, disk)
      <4>1. disk \in [Inodes -> FilesTo(used)] /\ Verified(dir, disk)[MaxEntries][fd].ok
        BY <1>2 DEF TypeInv, Analyze
      <4>2. Verified(dir', disk)[MaxEntries][fd] = Verified(dir, disk)[MaxEntries][fd]
        BY <1>2, <3>1, <3>2, <4>1, OwnName
      <4> QED BY <1>2, <3>3, <4>2 DEF Analyze
    <3> QED BY <1>1, <1>2, <3>3, <3>4, <3>5
  <2> QED BY <2>1, <2>2
<1>4. TypeInv'
  BY <1>1, <1>3 DEF TypeInv
<1>5. IdleInv'
  BY <1>1, <1>2, <1>3 DEF IdleInv
<1> QED BY <1>1, <1>4, <1>5 DEF WriterInv, LinkedInv, RotatingInv, ExtendedInv

(* The whole line is in the file. *)
LEMMA WriteStep == LogInv /\ Write => LogInv'
<1> SUFFICES ASSUME LogInv, Write PROVE LogInv'
  OBVIOUS
<1> USE TypeFacts DEF LogInv
<1> DEFINE E == Entry(entry, mem.hash, NoName)
           f == Whole(disk[fd], E, mem.torn)
           V == Verified(dir, disk)
           M == MaxEntries
<1>1. /\ pc = "write" /\ pc' = "fsync" /\ dir' = dir /\ dirs' = dirs /\ synced' = synced
      /\ fd' = fd /\ mem' = mem /\ entry' = entry /\ used' = used /\ acked' = acked
      /\ disk' = [disk EXCEPT ![fd] = f] /\ found' = Analyze(dir, disk')
  BY DEF Write, Observe
<1>2. /\ fd # 0 /\ dir.cur = fd /\ fd \in Inodes /\ Agrees(mem, disk[fd], found) /\ found.ok
      /\ entry = used /\ mem.hash < entry /\ found = Analyze(dir, disk)
      /\ disk \in [Inodes -> FilesTo(used)] /\ entry \in 1..used
  BY <1>1 DEF WriterInv, TypeInv
<1>3. /\ E \in LinesTo(used) /\ E.kind = "entry" /\ E.n = entry /\ E.prev = mem.hash
      /\ E.target = NoName
  BY <1>2, NewEntry
<1> HIDE DEF E
<1>4. /\ f \in FilesTo(used) /\ f.lines = Append(disk[fd].lines, E) /\ ~ f.open
      /\ disk[fd].lines \in Seq(LinesTo(used)) /\ Size(disk[fd])[1] = Len(disk[fd].lines)
  <2>1. mem.torn = disk[fd].open
    BY <1>2, FileFields DEF Agrees
  <2>2. f \in FilesTo(used) /\ f.lines = Append(disk[fd].lines, E) /\ ~ f.open
    BY <1>2, <1>3, <2>1, WriteTypes
  <2>3. disk[fd].lines \in Seq(LinesTo(used)) /\ Size(disk[fd])[1] = Len(disk[fd].lines)
    BY <1>2, FileFields
  <2> QED BY <2>2, <2>3
<1> HIDE DEF f
<1>5. /\ disk' \in [Inodes -> FilesTo(used)] /\ disk'[fd] = f
      /\ \A i \in Inodes : i # fd => disk'[i] = disk[i]
  BY <1>1, <1>2, <1>4
<1>6. TypeInv'
  BY <1>1, <1>5 DEF TypeInv
<1>7. found = V[M][fd] /\ found' = Verified(dir, disk')[M][fd]
  BY <1>1, <1>2 DEF Analyze
<1>8. found' = Feed(found, E)
  <2> DEFINE g == disk'
  <2>1. /\ g \in [Inodes -> FilesTo(used)] /\ g[fd].lines = Append(disk[fd].lines, E)
        /\ \A i \in Inodes : i # fd => g[i] = disk[i]
    BY <1>4, <1>5
  <2> HIDE DEF g
  <2>2. Verified(dir, g)[MaxEntries][fd] = Feed(Verified(dir, disk)[MaxEntries][fd], E)
    <3>1. /\ used \in 0..MaxEntries /\ dir \in Dirs /\ disk \in [Inodes -> FilesTo(used)]
          /\ fd \in Inodes /\ E \in LinesTo(used) /\ E.target = NoName
          /\ disk[fd].lines \in Seq(LinesTo(used))
          /\ Verified(dir, disk)[MaxEntries][fd].ok
      BY <1>2, <1>3, <1>4, <1>7
    <3> HIDE TypeFacts
    <3> QED BY <2>1, <3>1, LineMore, SMTT(60)
  <2> QED BY <1>7, <2>2 DEF g
<1>9. /\ found'.ok /\ found'.head = entry
      /\ Len(found'.chain) = mem.count + 1 /\ found'.chain[mem.count + 1] = entry
  <2>1. found.head = mem.hash /\ Len(found.chain) = mem.count /\ found.chain \in Seq(1..used)
    BY <1>2, VerdictFields DEF Agrees
  <2>2. found' = [ok |-> TRUE, head |-> entry, pending |-> FALSE,
                  chain |-> Append(found.chain, entry)]
    BY <1>2, <1>3, <1>8, <2>1 DEF Feed
  <2>3. /\ Len(Append(found.chain, entry)) = mem.count + 1
        /\ Append(found.chain, entry)[mem.count + 1] = entry
    <3> DEFINE c == found.chain
    <3>1. c \in Seq(1..used) /\ Len(c) = mem.count /\ entry \in 1..used
      BY <1>2, <2>1
    <3> HIDE DEF c
    <3>2. Len(Append(c, entry)) = Len(c) + 1 /\ Append(c, entry)[Len(c) + 1] = entry
      BY <3>1, AppendProperties
    <3> QED BY <3>1, <3>2 DEF c
  <2> QED BY <2>2, <2>3
<1>10. Len(disk'[fd].lines) = mem.size[1] + 1 /\ ~ disk'[fd].open /\ ~ mem.invalid
  <2>1. mem.size[1] = Len(disk[fd].lines) /\ ~ mem.invalid
    BY <1>2, <1>4 DEF Agrees
  <2>2. Len(Append(disk[fd].lines, E)) = Len(disk[fd].lines) + 1
    BY <1>3, <1>4
  <2> QED BY <1>4, <1>5, <2>1, <2>2
<1>11. ExtendedInv'
  BY <1>1, <1>2, <1>9, <1>10 DEF ExtendedInv, Extended
<1> QED BY <1>1, <1>6, <1>11 DEF IdleInv, WriterInv, LinkedInv, RotatingInv

(* What a failed write leaves has another size, or is what was there. *)
LEMMA WriteFailsStep == LogInv /\ WriteFails => LogInv'
<1> SUFFICES ASSUME LogInv, WriteFails PROVE LogInv'
  OBVIOUS
<1> USE TypeFacts DEF LogInv
<1> DEFINE E == Entry(entry, mem.hash, NoName)
<1>1. PICK f \in Parts(disk[fd], E, mem.torn) : disk' = [disk EXCEPT ![fd] = f]
  BY DEF WriteFails
<1>2. /\ pc = "write" /\ pc' = "idle" /\ dir' = dir /\ dirs' = dirs /\ synced' = synced
      /\ fd' = fd /\ mem' = mem /\ entry' = entry /\ used' = used /\ acked' = acked
      /\ found' = Analyze(dir, disk')
  BY DEF WriteFails, Observe
<1>3. /\ fd # 0 /\ dir.cur = fd /\ fd \in Inodes /\ Agrees(mem, disk[fd], found)
      /\ entry = used /\ mem.hash < entry /\ found = Analyze(dir, disk)
      /\ disk \in [Inodes -> FilesTo(used)] /\ entry \in 1..used
  BY <1>2 DEF WriterInv, TypeInv
<1>4. E \in LinesTo(used)
  BY <1>3, NewEntry
<1> HIDE DEF E
<1>5. f \in FilesTo(used) /\ (Size(f) = Size(disk[fd]) => f = disk[fd])
  <2>1. mem.torn = disk[fd].open
    BY <1>3, FileFields DEF Agrees
  <2> QED BY <1>1, <1>3, <1>4, <2>1, WriteTypes
<1>6. disk' \in [Inodes -> FilesTo(used)] /\ disk'[fd] = f
  BY <1>1, <1>3, <1>5
<1>7. TypeInv'
  BY <1>2, <1>6 DEF TypeInv
<1>8. mem.size = Size(disk'[fd]) => Agrees(mem, disk'[fd], found')
  <2> SUFFICES ASSUME mem.size = Size(f) PROVE Agrees(mem, f, found')
    BY <1>6
  <2>1. f = disk[fd]
    BY <1>3, <1>5 DEF Agrees
  <2>2. disk' = disk
    BY <1>1, <1>3, <2>1
  <2> QED BY <1>2, <1>3, <2>1, <2>2
<1>9. IdleInv'
  BY <1>2, <1>3, <1>8 DEF IdleInv
<1> QED BY <1>2, <1>7, <1>9 DEF WriterInv, LinkedInv, RotatingInv, ExtendedInv

(* append returns: the writer notes the new head. *)
LEMMA FsyncStep == LogInv /\ Fsync => LogInv'
<1> SUFFICES ASSUME LogInv, Fsync PROVE LogInv'
  OBVIOUS
<1> USE TypeFacts DEF LogInv
<1>1. /\ pc = "fsync" /\ pc' = "idle" /\ dir' = dir /\ dirs' = {dir} /\ disk' = disk
      /\ synced' = [synced EXCEPT ![fd] = disk[fd]] /\ fd' = fd /\ entry' = entry
      /\ used' = used /\ acked' = acked \cup {entry} /\ found' = found
      /\ mem' = [mem EXCEPT !.hash = entry, !.count = mem.count + 1, !.size = Size(disk[fd]),
                            !.fileLines = mem.fileLines + 1, !.torn = FALSE]
  BY DEF Fsync
<1>2. /\ found.ok /\ found.head = entry /\ Len(found.chain) = mem.count + 1 /\ fd # 0
      /\ dir.cur = fd /\ fd \in Inodes /\ ~ disk[fd].open /\ entry = used /\ 0 < entry
      /\ ~ mem.invalid
  BY <1>1 DEF ExtendedInv, Extended
<1>3. Size(disk[fd]) \in Nat \X BOOLEAN /\ mem \in MemoriesTo(used)
  BY <1>2, FileFields DEF TypeInv
<1>4. mem' \in MemoriesTo(used)
  <2> DEFINE z == Size(disk[fd])
  <2>1. /\ mem.count + 1 \in Nat /\ mem.fileLines + 1 \in Nat /\ entry \in 0..used
        /\ z \in Nat \X BOOLEAN /\ mem \in MemoriesTo(used)
        /\ mem' = [mem EXCEPT !.hash = entry, !.count = mem.count + 1, !.size = z,
                              !.fileLines = mem.fileLines + 1, !.torn = FALSE]
    BY <1>1, <1>3 DEF MemoriesTo
  <2> DEFINE n == mem.count + 1
             o == mem.fileLines + 1
  <2> HIDE DEF z, n, o
  <2>2. [mem EXCEPT !.hash = entry, !.count = n, !.size = z, !.fileLines = o, !.torn = FALSE]
          \in MemoriesTo(used)
    BY <2>1 DEF MemoriesTo, n, o
  <2> QED BY <2>1, <2>2 DEF n, o
<1>5. Agrees(mem', disk[fd], found)
  BY <1>1, <1>2, <1>3 DEF MemoriesTo, Agrees
<1>6. TypeInv'
  <2>1. synced' \in [Inodes -> FilesTo(used)]
    BY <1>1, <1>2 DEF TypeInv
  <2>2. acked' \subseteq 1..used
    BY <1>1, <1>2 DEF TypeInv
  <2> QED BY <1>1, <1>4, <2>1, <2>2 DEF TypeInv
<1>7. IdleInv'
  BY <1>1, <1>2, <1>5 DEF IdleInv
<1> QED BY <1>1, <1>6, <1>7 DEF WriterInv, LinkedInv, RotatingInv, ExtendedInv

(* The file is a line longer than the writer remembers. *)
LEMMA FsyncFailsStep == LogInv /\ FsyncFails => LogInv'
<1> SUFFICES ASSUME LogInv, FsyncFails PROVE LogInv'
  OBVIOUS
<1> USE TypeFacts DEF LogInv
<1>1. /\ pc = "fsync" /\ pc' = "idle" /\ dir' = dir /\ dirs' = dirs /\ disk' = disk
      /\ synced' = synced /\ fd' = fd /\ mem' = mem /\ entry' = entry /\ used' = used
      /\ acked' = acked /\ found' = found
  BY DEF FsyncFails, fileVars
<1>2. /\ dir.cur = fd /\ fd # 0 /\ fd \in Inodes /\ Len(disk[fd].lines) = mem.size[1] + 1
  BY <1>1 DEF ExtendedInv, Extended
<1>3. mem.size # Size(disk[fd])
  <2>1. Size(disk[fd])[1] = Len(disk[fd].lines) /\ Len(disk[fd].lines) \in Nat
    BY <1>2, FileFields
  <2>2. mem.size[1] \in Nat
    BY DEF TypeInv, MemoriesTo
  <2> QED BY <1>2, <2>1, <2>2
<1>4. TypeInv'
  BY <1>1 DEF TypeInv
<1>5. IdleInv'
  BY <1>1, <1>2, <1>3 DEF IdleInv
<1> QED BY <1>1, <1>4, <1>5 DEF WriterInv, LinkedInv, RotatingInv, ExtendedInv

LEMMA CrashStep == LogInv /\ Crash => LogInv'
<1> SUFFICES ASSUME LogInv, Crash PROVE LogInv'
  OBVIOUS
<1>1. TypeInv'
  BY TypeFacts, NoMemTypes DEF LogInv, TypeInv, Crash, Down, fileVars
<1>2. pc' = "down"
  BY DEF Crash, Down
<1> QED BY <1>1, <1>2, DownIsSafe

LEMMA CrashInWriteStep == LogInv /\ CrashInWrite => LogInv'
<1> SUFFICES ASSUME LogInv, CrashInWrite PROVE LogInv'
  OBVIOUS
<1> USE TypeFacts DEF LogInv
<1> DEFINE E == Entry(entry, mem.hash, NoName)
<1>1. PICK f \in Parts(disk[fd], E, mem.torn) : disk' = [disk EXCEPT ![fd] = f]
  BY DEF CrashInWrite
<1>2. /\ pc = "write" /\ pc' = "down" /\ fd' = 0 /\ mem' = NoMem /\ dir' = dir /\ dirs' = dirs
      /\ synced' = synced /\ entry' = entry /\ used' = used /\ acked' = acked
      /\ found' = Analyze(dir, disk')
  BY DEF CrashInWrite, Down, Observe
<1>3. fd \in Inodes /\ entry \in 1..used /\ mem.hash < entry
  BY <1>2 DEF WriterInv
<1>4. E \in LinesTo(used)
  BY <1>3, NewEntry
<1> HIDE DEF E
<1>5. f \in FilesTo(used)
  BY <1>1, <1>3, <1>4, WriteTypes
<1>6. disk' \in [Inodes -> FilesTo(used)]
  BY <1>1, <1>3, <1>5 DEF TypeInv
<1>7. TypeInv'
  BY <1>2, <1>6, NoMemTypes DEF TypeInv
<1> QED BY <1>2, <1>7, DownIsSafe

LEMMA PowerLossStep == LogInv /\ PowerLoss => LogInv'
<1> SUFFICES ASSUME LogInv, PowerLoss PROVE LogInv'
  OBVIOUS
<1> USE TypeFacts DEF LogInv
<1>1. PICK keep \in {"all", "none", "part"} : disk' = [i \in Inodes |-> Fallback(i, keep)]
  BY DEF PowerLoss
<1>2. /\ pc' = "down" /\ fd' = 0 /\ mem' = NoMem /\ synced' = disk' /\ dir' \in dirs
      /\ dirs' = {dir'} /\ entry' = entry /\ used' = used /\ acked' = acked
      /\ found' = Analyze(dir', disk')
  BY DEF PowerLoss, Down, Observe
<1>3. ASSUME NEW i \in Inodes PROVE Fallback(i, keep) \in FilesTo(used)
  <2>1. disk[i] \in FilesTo(used) /\ synced[i] \in FilesTo(used)
    BY <1>3
  <2> DEFINE s == synced[i].lines
             cut == Append(s, Torn)
  <2>2. cut \in Seq(LinesTo(used))
    <3>1. s \in Seq(LinesTo(used)) /\ Torn \in LinesTo(used)
      BY <2>1, FileFields DEF LinesTo
    <3> HIDE DEF s
    <3> QED BY <3>1
  <2>3. Fallback(i, keep) \in {disk[i], synced[i], [lines |-> cut, open |-> TRUE]}
    BY DEF Fallback
  <2> HIDE DEF cut
  <2>4. [lines |-> cut, open |-> TRUE] \in FilesTo(used)
    BY <2>2 DEF FilesTo
  <2> QED BY <2>1, <2>3, <2>4
<1>4. disk' \in [Inodes -> FilesTo(used)]
  BY <1>1, <1>3
<1>5. dir' \in dirs' /\ dirs' \subseteq Dirs /\ \A d \in dirs' : InOrder(d)
  BY <1>2 DEF TypeInv
<1>6. TypeInv'
  BY <1>2, <1>4, <1>5, NoMemTypes DEF TypeInv
<1> QED BY <1>2, <1>6, DownIsSafe

LEMMA MoveAsideStep == LogInv /\ MoveAside => LogInv'
<1> SUFFICES ASSUME LogInv, MoveAside PROVE LogInv'
  OBVIOUS
<1> USE TypeFacts DEF LogInv
<1>1. /\ pc \in {"down", "idle", "broken"} /\ pc' = pc /\ dir' = [dir EXCEPT !.cur = 0]
      /\ dirs' = {dir'} /\ disk' = disk /\ synced' = synced /\ fd' = fd /\ mem' = mem
      /\ entry' = entry /\ used' = used /\ acked' = {} /\ found' = Analyze(dir', disk)
  BY DEF MoveAside, Observe, fileVars
<1>2. dir' \in Dirs /\ dir'.cur = 0 /\ dir'.rotated = dir.rotated
  BY <1>1 DEF Dirs
<1>3. InOrder(dir')
  BY <1>2 DEF InOrder
<1>4. TypeInv'
  BY <1>1, <1>2, <1>3 DEF TypeInv
<1>5. IdleInv'
  BY <1>1, <1>2 DEF IdleInv
<1> QED BY <1>1, <1>4, <1>5 DEF WriterInv, LinkedInv, RotatingInv, ExtendedInv

LEMMA NextStep == LogInv /\ [Next]_vars => LogInv'
<1> SUFFICES ASSUME LogInv, [Next]_vars PROVE LogInv'
  OBVIOUS
<1>1. CASE Open
  BY <1>1, OpenStep
<1>2. CASE Append1
  BY <1>2, BeginStep, WriteStep, WriteFailsStep, FsyncStep, FsyncFailsStep DEF Append1
<1>3. CASE Rotate
  BY <1>3, LinkStep, CreateStep, FillStep, RenameStep, ReopenStep, ReopenFailsStep,
     RotateFailsStep DEF Rotate
<1>4. CASE Crash
  BY <1>4, CrashStep
<1>5. CASE CrashInWrite
  BY <1>5, CrashInWriteStep
<1>6. CASE PowerLoss
  BY <1>6, PowerLossStep
<1>7. CASE MoveAside
  BY <1>7, MoveAsideStep
<1>8. CASE UNCHANGED vars
  BY <1>8 DEF LogInv, TypeInv, IdleInv, WriterInv, LinkedInv, RotatingInv, ExtendedInv,
     Extended, LinkedName, vars
<1> QED BY <1>1, <1>2, <1>3, <1>4, <1>5, <1>6, <1>7, <1>8 DEF Next

(* At every step of an append and of a rotation, and after every failed one,  *)
(* what the writer remembers fits what is in the files.                      *)
THEOREM WriterKnows == Spec => []LogInv
<1>1. Init => LogInv
  BY InitStep
<1>2. LogInv /\ [Next]_vars => LogInv'
  BY NextStep
<1> QED BY <1>1, <1>2, PTL DEF Spec

(* Every variable has its type. *)
THEOREM TypeCorrect == Spec => []TypeOK
<1> DEFINE EraType == era \in {0, 1}
<1>2. Init => EraType
  BY DEF Init
<1>3. EraType /\ [Next]_vars => EraType'
  BY DEF Next, MoveAside, vars
<1>1. LogInv /\ EraType => TypeOK
  <2> SUFFICES ASSUME LogInv, EraType PROVE TypeOK
    OBVIOUS
  <2>1. TypeInv /\ used \in Nat /\ used \in 0..MaxEntries /\ entry \in 0..used /\ MaxEntries \in Nat
    BY TypeFacts DEF LogInv
  <2>2. LinesTo(used) \subseteq Lines
    BY <2>1 DEF LinesTo, Lines
  <2>3. FilesTo(used) \subseteq Files
    BY <2>2 DEF FilesTo, Files
  <2>4. mem \in [hash : 0..MaxEntries, count : Nat, size : Nat \X BOOLEAN,
                 fileLines : Nat, torn : BOOLEAN, invalid : BOOLEAN]
    BY <2>1 DEF TypeInv, MemoriesTo
  <2>5. disk \in [Inodes -> Files] /\ synced \in [Inodes -> Files]
    BY <2>3 DEF LogInv, TypeInv
  <2>6. entry \in 0..MaxEntries /\ acked \subseteq 1..MaxEntries
    BY <2>1 DEF TypeInv
  <2>7. pc \in {"link", "create", "fill", "rename", "write", "fsync"} => fd = dir.cur /\ fd # 0
    BY DEF LogInv, WriterInv, ExtendedInv, Extended
  <2> QED BY <2>1, <2>4, <2>5, <2>6, <2>7 DEF TypeInv, TypeOK
<1> HIDE DEF EraType
<1> QED BY <1>1, <1>2, <1>3, WriterKnows, PTL DEF Spec

(* The head that append hands out and chains the next entry onto is the head   *)
(* on disk: an append never forks its own chain.                              *)
THEOREM NeverForks == Spec => []HeadIsCurrent
<1>1. LogInv => HeadIsCurrent
  <2> SUFFICES ASSUME LogInv, pc \in {"idle", "write"}, dir.cur = fd, mem.size = Size(disk[fd])
               PROVE  /\ mem.invalid = ~ found.ok /\ mem.hash = found.head
                      /\ mem.count = Len(found.chain) /\ mem.torn = disk[fd].open
    BY DEF HeadIsCurrent
  <2>1. Agrees(mem, disk[fd], found) /\ fd # 0
    BY DEF LogInv, IdleInv, WriterInv
  <2>2. fd \in Inodes /\ found.ok \in BOOLEAN /\ disk[fd].open \in BOOLEAN
        /\ mem.invalid \in BOOLEAN /\ mem.torn \in BOOLEAN
    BY <2>1, TypeFacts, VerdictFields, FileFields DEF LogInv, TypeInv
  <2> QED BY <2>1, <2>2 DEF Agrees
<1> QED BY <1>1, WriterKnows, PTL

-----------------------------------------------------------------------------
(* The promise of the log: what is safe, and what a step may do to the chain. *)

Begins(a, b) == Len(a) <= Len(b) /\ \A i \in 1..Len(a) : a[i] = b[i]

(* s is the place of the last of the entries A in chain c, or 0. *)
IsLast(s, c, A) ==
  /\ s \in 0..Len(c) /\ (s # 0 => c[s] \in A)
  /\ \A i \in 1..Len(c) : c[i] \in A => i <= s

LEMMA LastOne ==
  ASSUME NEW n \in Nat, NEW I \in SUBSET (1..n), I # {}
  PROVE  Max(I) \in I /\ \A i \in I : i <= Max(I)
<1> DEFINE S == {m \in Nat : \A J \in SUBSET (1..m) : J # {} => \E x \in J : \A y \in J : x >= y}
<1>1. 0 \in S
  <2>1. 1..0 = {}
    OBVIOUS
  <2> QED BY <2>1
<1>2. ASSUME NEW m \in Nat, m \in S PROVE m + 1 \in S
  <2> SUFFICES ASSUME NEW J \in SUBSET (1..(m + 1)), J # {} PROVE \E x \in J : \A y \in J : x >= y
    OBVIOUS
  <2>1. CASE m + 1 \in J
    BY <2>1
  <2>2. CASE m + 1 \notin J
    <3>1. J \in SUBSET (1..m)
      BY <2>2
    <3> QED BY <1>2, <3>1
  <2> QED BY <2>1, <2>2
<1>3. Nat \subseteq S
  <2> HIDE DEF S
  <2> QED BY <1>1, <1>2, SetInduction
<1>4. \E x \in I : \A y \in I : x >= y
  BY <1>3
<1>5. Max(I) \in I /\ \A y \in I : Max(I) >= y
  BY <1>4 DEF Max
<1> QED BY <1>5

LastIn(c, A) == SelectLastInSeq(c, LAMBDA n : n \in A)

LEMMA LastInIsLast ==
  ASSUME NEW c \in Seq(Nat), NEW A
  PROVE  IsLast(LastIn(c, A), c, A)
<1> DEFINE I == {i \in 1..Len(c) : c[i] \in A}
           s == LastIn(c, A)
<1>1. s = IF I # {} THEN Max(I) ELSE 0
  BY DEF LastIn, SelectLastInSeq
<1>2. Len(c) \in Nat
  OBVIOUS
<1> HIDE DEF s
<1>3. CASE I = {}
  <2>1. s = 0 /\ \A i \in 1..Len(c) : c[i] \notin A
    BY <1>1, <1>3
  <2> QED BY <1>2, <2>1 DEF IsLast, s
<1>4. CASE I # {}
  <2>1. I \in SUBSET (1..Len(c))
    OBVIOUS
  <2>2. s \in I /\ \A i \in I : i <= s
    <3> HIDE DEF I
    <3> QED BY <1>1, <1>2, <1>4, <2>1, LastOne
  <2>3. s \in 1..Len(c) /\ c[s] \in A /\ \A i \in 1..Len(c) : c[i] \in A => i <= s
    BY <2>2
  <2> QED BY <1>2, <2>3 DEF IsLast, s
<1> QED BY <1>3, <1>4

LEMMA OneLast ==
  ASSUME NEW c \in Seq(Nat), NEW A, NEW s, IsLast(s, c, A)
  PROVE  LastIn(c, A) = s /\ s \in Nat /\ s <= Len(c)
<1> DEFINE t == LastIn(c, A)
<1>1. IsLast(t, c, A) /\ Len(c) \in Nat
  BY LastInIsLast
<1> HIDE DEF t
<1>2. s \in Nat /\ t \in Nat /\ s <= Len(c) /\ t <= Len(c)
  BY <1>1 DEF IsLast
<1>3. s # 0 => s <= t
  BY <1>1, <1>2 DEF IsLast
<1>4. t # 0 => t <= s
  BY <1>1, <1>2 DEF IsLast
<1> QED BY <1>2, <1>3, <1>4 DEF t

LEMMA SafeIs == Safe = LastIn(found.chain, acked) /\ Safe' = LastIn(found'.chain, acked')
BY DEF Safe, LastIn, SelectLastInSeq

LEMMA BeginsIsPrefix ==
  ASSUME NEW a \in Seq(Nat), NEW b \in Seq(Nat), Begins(a, b)
  PROVE  /\ Len(a) = Len(b) => a = b
         /\ Len(a) # Len(b) => Promise!IsStrictPrefix(a, b)
<1>1. Len(a) \in Nat /\ Len(b) \in Nat /\ Len(a) <= Len(b)
  BY DEF Begins
<1>2. SubSeq(a, 1, Len(a)) = SubSeq(b, 1, Len(a))
  <2> DEFINE x == SubSeq(a, 1, Len(a))
             y == SubSeq(b, 1, Len(a))
  <2>1. /\ x \in Seq(Nat) /\ Len(x) = Len(a) /\ \A i \in 1..Len(a) : x[i] = a[i]
        /\ y \in Seq(Nat) /\ Len(y) = Len(a) /\ \A i \in 1..Len(a) : y[i] = b[i]
    BY <1>1
  <2> HIDE DEF x, y
  <2>2. x = y
    BY <2>1, SeqEqual DEF Begins
  <2> QED BY <2>2 DEF x, y
<1>3. Len(a) = Len(b) => a = b
  BY SeqEqual DEF Begins
<1>4. Len(a) # Len(b) => a # b
  OBVIOUS
<1> QED BY <1>1, <1>2, <1>3, <1>4 DEF Promise!IsPrefix, Promise!IsStrictPrefix

(* A step of the promise, or none, in which no acknowledged entry is lost. *)
Kept == /\ [Promise!Step]_<<found.chain, Safe>>
        /\ AckedAreFound => AckedAreFound'

LEMMA InChain ==
  ASSUME NEW c \in Seq(Nat), NEW A
  PROVE  A \subseteq Range(c) <=> \A n \in A : \E i \in 1..Len(c) : c[i] = n
BY DEF Range

LEMMA SameKept ==
  ASSUME found'.chain = found.chain, acked' = acked
  PROVE  Kept /\ Safe' = Safe
BY SafeIs DEF Kept, AckedAreFound

(* Entries that nobody was told of come on, or go. *)
LEMMA GrownKept ==
  ASSUME found.chain \in Seq(Nat), found'.chain \in Seq(Nat), acked' = acked,
         Begins(found.chain, found'.chain),
         \A i \in 1..Len(found'.chain) : i > Len(found.chain) => found'.chain[i] \notin acked
  PROVE  Kept /\ Safe' = Safe
<1> DEFINE c == found.chain
           g == found'.chain
           s == LastIn(c, acked)
<1>1. Safe = s /\ Safe' = LastIn(g, acked)
  BY SafeIs
<1>2. IsLast(s, c, acked) /\ Len(c) \in Nat /\ Len(g) \in Nat
  BY LastInIsLast
<1>3. c \in Seq(Nat) /\ g \in Seq(Nat) /\ Begins(c, g)
  OBVIOUS
<1>4. IsLast(s, g, acked)
  <2>1. \A i \in 1..Len(g) : i > Len(c) => g[i] \notin acked
    OBVIOUS
  <2> HIDE DEF c, g, s
  <2>2. s \in 0..Len(g) /\ (s # 0 => g[s] \in acked)
    BY <1>2, <1>3 DEF Begins, IsLast
  <2>3. ASSUME NEW i \in 1..Len(g), g[i] \in acked PROVE i <= s
    <3>1. i \in 1..Len(c) /\ c[i] = g[i]
      BY <1>2, <1>3, <2>1, <2>3 DEF Begins
    <3> QED BY <1>2, <2>3, <3>1 DEF IsLast
  <2> QED BY <2>2, <2>3 DEF IsLast
<1>5. LastIn(g, acked) = s
  <2> HIDE DEF c, g, s
  <2> QED BY <1>3, <1>4, OneLast
<1>6. c = g \/ Promise!IsStrictPrefix(c, g)
  BY <1>3, BeginsIsPrefix
<1>7. AckedAreFound => AckedAreFound'
  <2> SUFFICES ASSUME AckedAreFound, NEW n \in acked PROVE \E i \in 1..Len(g) : g[i] = n
    BY <1>3, InChain DEF AckedAreFound
  <2>1. PICK i \in 1..Len(c) : c[i] = n
    BY <1>3, InChain DEF AckedAreFound
  <2> HIDE DEF c, g
  <2>2. i \in 1..Len(g) /\ g[i] = c[i]
    BY <1>2, <1>3, <2>1 DEF Begins
  <2> QED BY <2>1, <2>2
<1> QED BY <1>1, <1>5, <1>6, <1>7 DEF Kept, Promise!Step, Promise!Extend

LEMMA ShrunkKept ==
  ASSUME found.chain \in Seq(Nat), found'.chain \in Seq(Nat), acked' = acked,
         Begins(found'.chain, found.chain), Safe <= Len(found'.chain)
  PROVE  Kept /\ Safe' = Safe
<1> DEFINE c == found.chain
           g == found'.chain
           s == LastIn(c, acked)
<1>1. Safe = s /\ Safe' = LastIn(g, acked) /\ s <= Len(g)
  BY SafeIs
<1>2. IsLast(s, c, acked) /\ Len(c) \in Nat /\ Len(g) \in Nat
  BY LastInIsLast
<1>3. c \in Seq(Nat) /\ g \in Seq(Nat) /\ Begins(g, c)
  OBVIOUS
<1>4. IsLast(s, g, acked)
  <2> HIDE DEF c, g, s
  <2>1. s \in 0..Len(g) /\ (s # 0 => g[s] \in acked)
    BY <1>1, <1>2, <1>3 DEF Begins, IsLast
  <2>2. ASSUME NEW i \in 1..Len(g), g[i] \in acked PROVE i <= s
    <3>1. i \in 1..Len(c) /\ c[i] = g[i]
      BY <1>2, <1>3 DEF Begins
    <3> QED BY <1>2, <2>2, <3>1 DEF IsLast
  <2> QED BY <2>1, <2>2 DEF IsLast
<1>5. LastIn(g, acked) = s
  <2> HIDE DEF c, g, s
  <2> QED BY <1>3, <1>4, OneLast
<1>6. c = g \/ Promise!IsStrictPrefix(g, c)
  BY <1>3, BeginsIsPrefix
<1>7. AckedAreFound => AckedAreFound'
  <2> SUFFICES ASSUME AckedAreFound, NEW n \in acked PROVE \E i \in 1..Len(g) : g[i] = n
    BY <1>3, InChain DEF AckedAreFound
  <2>1. PICK i \in 1..Len(c) : c[i] = n
    BY <1>3, InChain DEF AckedAreFound
  <2> HIDE DEF c, g, s
  <2>2. i \in 1..Len(g)
    BY <1>1, <1>2, <2>1 DEF IsLast
  <2> QED BY <1>3, <2>1, <2>2 DEF Begins
<1> QED BY <1>1, <1>5, <1>6, <1>7 DEF Kept, Promise!Step, Promise!Lose

(* What a power loss leaves of the files: all of the files before the last    *)
(* one, which are not written any more, and of that what was synced.          *)
Cut == [i \in Inodes |-> IF i = dir.cur THEN synced[i] ELSE disk[i]]

(* v finds nothing but what is found now, and no safe entry less. *)
KeptIn(v) == Begins(v.chain, found.chain) /\ Safe <= Len(v.chain)

(* In a directory that may be on disk the chain that ends with the current    *)
(* file is the same, ...                                                      *)
SeenFrom(d) ==
  dir.cur # 0 =>
    /\ Verified(d, disk)[MaxEntries][dir.cur] = found
    /\ KeptIn(Verified(d, Cut)[MaxEntries][dir.cur])
    /\ \/ Verified(d, Cut)[MaxEntries][dir.cur].ok
       \/ synced[dir.cur].lines = disk[dir.cur].lines

(* ... but its current file may be an earlier one, or not be there yet.       *)
FallsBack(d) ==
  /\ d.cur = 0 => acked = {}
  /\ d.cur \notin {0, dir.cur} =>
       /\ Analyze(d, disk).ok /\ KeptIn(Analyze(d, disk))
       /\ Len(Analyze(d, disk).chain) < Len(found.chain)

RotationKept ==
  /\ dir.tmp # 0 =>
       /\ pc \in {"fill", "rename", "down"}
       /\ \/ synced[dir.tmp].lines = disk[dir.tmp].lines
          \/ synced[dir.tmp].lines = <<>> /\ disk[dir.tmp].lines = <<Torn>>
  /\ pc = "rename" => dirs = {dir} /\ synced[dir.tmp] = disk[dir.tmp]

NotAcked ==
  pc \in {"write", "link", "create", "fill", "rename", "reopen", "fsync"} => entry \notin acked

LossInv ==
  /\ RotationKept /\ NotAcked
  /\ dir.cur = 0 => dirs = {dir}
  /\ \A d \in dirs : SeenFrom(d) /\ FallsBack(d)

LEMMA VerdictChain ==
  ASSUME NEW u \in Nat, NEW v \in VerdictsTo(u)
  PROVE  v.chain \in Seq(Nat) /\ Len(v.chain) \in Nat
<1>1. v.chain \in Seq(1..u)
  BY VerdictFields
<1> QED BY <1>1

LEMMA BeginsSelf ==
  ASSUME NEW c \in Seq(Nat), NEW A
  PROVE  Begins(c, c) /\ LastIn(c, A) <= Len(c) /\ LastIn(c, A) \in Nat /\ Len(c) \in Nat
<1>1. Len(c) \in Nat
  OBVIOUS
<1>2. LastIn(c, A) <= Len(c) /\ LastIn(c, A) \in Nat
  BY LastInIsLast, OneLast
<1> QED BY <1>1, <1>2 DEF Begins

LEMMA LossFacts ==
  ASSUME TypeInv
  PROVE  /\ disk \in [Inodes -> FilesTo(used)] /\ Cut \in [Inodes -> FilesTo(used)]
         /\ dirs \subseteq Dirs /\ KeptIn(found) /\ found.chain \in Seq(Nat) /\ Safe \in Nat
         /\ MaxEntries \in 0..MaxEntries /\ found = Analyze(dir, disk)
<1> USE TypeFacts
<1>1. disk \in [Inodes -> FilesTo(used)] /\ Cut \in [Inodes -> FilesTo(used)]
  BY DEF TypeInv, Cut
<1>2. found.chain \in Seq(Nat)
  BY VerdictChain
<1>3. KeptIn(found) /\ Safe \in Nat
  BY <1>2, BeginsSelf, SafeIs DEF KeptIn
<1> QED BY <1>1, <1>2, <1>3 DEF TypeInv

(* Nothing else in the files or in the directory counts. *)
LEMMA SameLines ==
  ASSUME NEW u \in 0..MaxEntries, NEW d \in Dirs, NEW c \in [Inodes -> FilesTo(u)],
         NEW e, e.rotated = d.rotated, NEW g, \A i \in Inodes : g[i].lines = c[i].lines,
         NEW k \in 0..MaxEntries, NEW i \in Inodes
  PROVE  Verified(e, g)[k][i] = Verified(d, c)[k][i]
<1>1. ASSUME NEW j \in Inodes, StartsRotated(c[j])
      PROVE  Before(e, g, j) = Before(d, c, j) /\ (Before(d, c, j) # 0 => Before(d, c, j) \in Inodes)
  <2>1. Before(d, c, j) \in Inodes \cup {0}
    BY <1>1, RotateEntry
  <2> QED BY <2>1 DEF Before
<1>2. \A j \in Inodes : /\ g[j].lines = c[j].lines
                        /\ StartsRotated(c[j]) =>
                             /\ Before(e, g, j) = Before(d, c, j)
                             /\ Before(d, c, j) # 0 => Before(d, c, j) \in Inodes
  BY <1>1
<1>3. \A m \in 0..MaxEntries : \A j \in Inodes : Verified(e, g)[m][j] = Verified(d, c)[m][j]
  BY <1>2, SameFiles, Inodes \in SUBSET Inodes
<1> QED BY <1>3

(* A directory with the same names and current file. *)
LEMMA Twin ==
  ASSUME TypeInv, NEW d \in Dirs, SeenFrom(d), FallsBack(d),
         NEW e, e.rotated = d.rotated, e.cur = d.cur
  PROVE  SeenFrom(e) /\ FallsBack(e)
<1> USE TypeFacts, LossFacts
<1>1. ASSUME NEW c \in [Inodes -> FilesTo(used)], NEW i \in Inodes
      PROVE  Verified(e, c)[MaxEntries][i] = Verified(d, c)[MaxEntries][i]
  BY SameLines
<1>2. Analyze(e, disk) = Analyze(d, disk)
  BY <1>1 DEF Analyze, Dirs
<1> QED BY <1>1, <1>2 DEF SeenFrom, FallsBack

(* One in which the current file has a name more, or less. *)
LEMMA OtherName ==
  ASSUME TypeInv, dir.cur # 0, found.ok, SeenFrom(dir), NEW e \in Dirs, e.cur = dir.cur,
         \A c \in [Inodes -> FilesTo(used)] :
           Verified(dir, c)[MaxEntries][dir.cur].ok =>
             Verified(e, c)[MaxEntries][dir.cur] = Verified(dir, c)[MaxEntries][dir.cur]
  PROVE  SeenFrom(e) /\ FallsBack(e)
<1> USE TypeFacts, LossFacts
<1> DEFINE x == dir.cur
           v == Verified(dir, Cut)[MaxEntries][x]
           w == Verified(e, Cut)[MaxEntries][x]
<1>1. Verified(e, disk)[MaxEntries][x] = found
  BY DEF SeenFrom
<1>2. KeptIn(w) /\ (w.ok \/ synced[x].lines = disk[x].lines)
  <2>1. CASE v.ok
    <3>1. w = v
      BY <2>1
    <3> QED BY <2>1, <3>1 DEF SeenFrom
  <2>2. CASE ~ v.ok
    <3>1. synced[x].lines = disk[x].lines
      BY <2>2 DEF SeenFrom
    <3>2. \A i \in Inodes : Cut[i].lines = disk[i].lines
      BY <3>1 DEF Cut
    <3>3. w = Verified(e, disk)[MaxEntries][x]
      <4>1. /\ x \in Inodes /\ disk \in [Inodes -> FilesTo(used)] /\ used \in 0..MaxEntries
            /\ MaxEntries \in 0..MaxEntries
        OBVIOUS
      <4> HIDE TypeFacts, LossFacts
      <4> HIDE DEF x
      <4> QED BY <3>2, <4>1, SameLines
    <3> QED BY <1>1, <3>1, <3>3
  <2> QED BY <2>1, <2>2
<1> QED BY <1>1, <1>2 DEF SeenFrom, FallsBack

(* Nothing of what a power loss depends on changes. *)
LEMMA Quiet ==
  ASSUME NEW d, SeenFrom(d), FallsBack(d), dir'.cur = dir.cur,
         disk' = disk, synced' = synced, found' = found, acked' = acked
  PROVE  SeenFrom(d)' /\ FallsBack(d)'
<1>1. Cut' = Cut /\ Safe' = Safe
  BY SafeIs DEF Cut
<1> QED BY <1>1 DEF SeenFrom, FallsBack, KeptIn

LEMMA QuietSteps ==
  LogInv /\ LossInv /\ (Begin \/ Crash \/ Reopen \/ ReopenFails \/ FsyncFails)
    => LossInv' /\ Kept
<1> SUFFICES ASSUME LogInv, LossInv, Begin \/ Crash \/ Reopen \/ ReopenFails \/ FsyncFails
             PROVE  LossInv' /\ Kept
  OBVIOUS
<1> USE TypeFacts DEF LogInv
<1>1. /\ dir' = dir /\ dirs' \in {dirs, {dir}} /\ disk' = disk /\ synced' = synced
      /\ found' = found /\ acked' = acked
  BY DEF Begin, Crash, Reopen, ReopenFails, FsyncFails, fileVars
<1>2. /\ pc' \notin {"create", "fill", "rename", "reopen", "fsync"}
      /\ dir.tmp # 0 => pc' = "down"
      /\ pc' \in {"write", "link"} => entry' = used + 1
  BY DEF Begin, Crash, Down, Reopen, ReopenFails, FsyncFails, LossInv, RotationKept
<1>3. RotationKept'
  BY <1>1, <1>2 DEF LossInv, RotationKept
<1>4. NotAcked'
  <2>1. used + 1 \notin acked
    BY DEF TypeInv
  <2> QED BY <1>1, <1>2, <2>1 DEF NotAcked
<1>5. dir \in dirs /\ dirs' \subseteq dirs
  BY <1>1 DEF TypeInv
<1>6. dir'.cur = 0 => dirs' = {dir'}
  BY <1>1 DEF LossInv
<1>7. \A d \in dirs' : SeenFrom(d)' /\ FallsBack(d)'
  BY <1>1, <1>5, Quiet DEF LossInv
<1>8. Kept
  BY <1>1, SameKept
<1> QED BY <1>3, <1>4, <1>6, <1>7, <1>8 DEF LossInv

LEMMA LinkKept == LogInv /\ LogInv' /\ LossInv /\ Link => LossInv' /\ Kept
<1> SUFFICES ASSUME LogInv, LogInv', LossInv, Link PROVE LossInv' /\ Kept
  OBVIOUS
<1> USE TypeFacts, LossFacts DEF LogInv
<1>1. PICK k \in Names : /\ dir.rotated[k] = 0
                         /\ dir' = [dir EXCEPT !.rotated[k] = fd]
                         /\ dirs' = dirs \cup {dir'}
  BY DEF Link, SetDir
<1>2. /\ pc = "link" /\ pc' = "create" /\ disk' = disk /\ synced' = synced
      /\ entry' = entry /\ acked' = acked /\ found' = Analyze(dir', disk)
  BY DEF Link, Observe, fileVars
<1>3. /\ fd # 0 /\ dir.cur = fd /\ fd \in Inodes /\ found.ok /\ dir.tmp = 0
  BY <1>2 DEF WriterInv, LossInv, RotationKept
<1>4. /\ dir'.cur = fd /\ dir'.tmp = 0 /\ dir' \in Dirs
      /\ \A j \in Names : j # k => dir'.rotated[j] = dir.rotated[j]
  BY <1>1, <1>3 DEF Dirs
<1>5. ASSUME NEW c \in [Inodes -> FilesTo(used)], Verified(dir, c)[MaxEntries][fd].ok
      PROVE  Verified(dir', c)[MaxEntries][fd] = Verified(dir, c)[MaxEntries][fd]
  <2>1. Alike(dir, c, dir', c, Inodes)
    BY <1>1, <1>4, NewName
  <2>2. Len(Verified(dir, c)[MaxEntries][fd].chain) <= MaxEntries
    BY <1>3, VerifiedTypes, ChainLength
  <2> QED BY <1>3, <1>5, <2>1, <2>2, SameChain, SMTT(30)
<1>6. ASSUME NEW e, e = dir' PROVE SeenFrom(e) /\ FallsBack(e)
  BY <1>3, <1>4, <1>5, <1>6, OtherName DEF LossInv, TypeInv
<1>7. found' = found
  BY <1>2, <1>3, <1>4, <1>5 DEF Analyze
<1>8. \A d \in dirs' : SeenFrom(d)' /\ FallsBack(d)'
  BY <1>1, <1>2, <1>3, <1>4, <1>6, <1>7, Quiet DEF LossInv
<1>9. Kept
  BY <1>2, <1>7, SameKept
<1> QED BY <1>2, <1>3, <1>4, <1>8, <1>9 DEF LossInv, RotationKept, NotAcked

(* Nothing that was written to the current file is still to be synced. *)
LEMMA Settled ==
  ASSUME NEW u \in 0..MaxEntries, disk' \in [Inodes -> FilesTo(u)], dir' \in Dirs,
         found' = Analyze(dir', disk'),
         dir'.cur # 0 => synced'[dir'.cur] = disk'[dir'.cur],
         dir'.cur = 0 => acked' = {},
         NEW d, d = dir'
  PROVE  SeenFrom(d)' /\ FallsBack(d)'
<1>1. dir'.cur \in Inodes \cup {0} /\ MaxEntries \in 0..MaxEntries /\ u \in Nat
  BY LogConstants DEF Dirs
<1>2. /\ found'.chain \in Seq(Nat) /\ Begins(found'.chain, found'.chain)
      /\ Safe' <= Len(found'.chain)
  <2>1. found' \in VerdictsTo(u)
    BY VerifiedTypes
  <2>2. found'.chain \in Seq(Nat)
    <3> DEFINE v == found'
    <3> HIDE DEF v
    <3>1. v \in VerdictsTo(u) => v.chain \in Seq(Nat)
      BY <1>1, VerdictChain
    <3> QED BY <2>1, <3>1 DEF v
  <2> QED BY <2>2, BeginsSelf, SafeIs
<1>3. CASE dir'.cur = 0
  BY <1>3 DEF SeenFrom, FallsBack
<1>4. CASE dir'.cur # 0
  <2>1. Cut' = disk'
    BY <1>4 DEF Cut
  <2>2. found' = Verified(d, disk')[MaxEntries][dir'.cur]
    BY <1>4 DEF Analyze
  <2> QED BY <1>2, <1>4, <2>1, <2>2 DEF SeenFrom, FallsBack, KeptIn
<1> QED BY <1>3, <1>4

(* A file that the directory does not name gets other contents. *)
LEMMA Unnamed ==
  ASSUME TypeInv, NEW d \in Dirs, SeenFrom(d), FallsBack(d),
         NEW x \in Inodes, x # dir.cur, x # d.cur, \A k \in Names : d.rotated[k] # x,
         dir'.cur = dir.cur, found' = found, acked' = acked,
         \A i \in Inodes : i # x => disk'[i] = disk[i] /\ synced'[i] = synced[i]
  PROVE  SeenFrom(d)' /\ FallsBack(d)'
<1> DEFINE g == disk'
           h == Cut'
<1>1. /\ used \in 0..MaxEntries /\ MaxEntries \in 0..MaxEntries /\ dir.cur \in Inodes \cup {0}
      /\ disk \in [Inodes -> FilesTo(used)] /\ Cut \in [Inodes -> FilesTo(used)]
  BY TypeFacts, LossFacts
<1>2. \A i \in Inodes : i # x => g[i] = disk[i] /\ h[i] = Cut[i]
  BY DEF Cut
<1> HIDE DEF g, h
<1>3. /\ \A k \in 0..MaxEntries, i \in Inodes : i # x => Verified(d, g)[k][i] = Verified(d, disk)[k][i]
      /\ Analyze(d, g) = Analyze(d, disk)
  BY <1>1, <1>2, Elsewhere
<1>4. \A k \in 0..MaxEntries, i \in Inodes : i # x => Verified(d, h)[k][i] = Verified(d, Cut)[k][i]
  BY <1>1, <1>2, Elsewhere
<1>5. Safe' = Safe
  BY SafeIs
<1>6. SeenFrom(d)'
  <2>1. dir.cur # 0 =>
          /\ Verified(d, disk')[MaxEntries][dir.cur] = Verified(d, disk)[MaxEntries][dir.cur]
          /\ Verified(d, Cut')[MaxEntries][dir.cur] = Verified(d, Cut)[MaxEntries][dir.cur]
    BY <1>1, <1>3, <1>4 DEF g, h
  <2>2. dir.cur # 0 => disk'[dir.cur] = disk[dir.cur] /\ synced'[dir.cur] = synced[dir.cur]
    BY <1>1
  <2> QED BY <1>5, <2>1, <2>2 DEF SeenFrom, KeptIn
<1>7. FallsBack(d)'
  <2>1. Analyze(d, disk)' = Analyze(d, disk)
    BY <1>3 DEF g
  <2> QED BY <1>5, <2>1 DEF FallsBack, KeptIn
<1> QED BY <1>6, <1>7

LEMMA CreateKept == LogInv /\ LossInv /\ Create => LossInv' /\ Kept
<1> SUFFICES ASSUME LogInv, LossInv, Create PROVE LossInv' /\ Kept
  OBVIOUS
<1> USE TypeFacts, LossFacts DEF LogInv
<1>1. PICK x \in Fresh :
        /\ dir' = [dir EXCEPT !.tmp = x] /\ dirs' = dirs \cup {dir'}
        /\ disk' = [disk EXCEPT ![x] = [lines |-> <<Torn>>, open |-> TRUE]]
        /\ synced' = [synced EXCEPT ![x] = Empty]
  BY DEF Create, SetDir
<1>2. /\ pc = "create" /\ pc' = "fill" /\ acked' = acked /\ entry' = entry
      /\ found' = Analyze(dir', disk')
  BY DEF Create, Observe
<1>3. /\ x \in Inodes /\ x # fd /\ dir.cur = fd /\ fd # 0 /\ found = Analyze(dir, disk)
      /\ \A d \in dirs : d.cur # x /\ \A k \in Names : d.rotated[k] # x
  BY <1>1, <1>2 DEF Fresh, NamedInodes, WriterInv, TypeInv
<1>4. dir'.rotated = dir.rotated /\ dir'.cur = dir.cur /\ dir'.tmp = x /\ dir' \in Dirs
  BY <1>1, <1>3 DEF Dirs
<1>5. /\ \A i \in Inodes : i # x => disk'[i] = disk[i] /\ synced'[i] = synced[i]
      /\ disk'[x].lines = <<Torn>> /\ synced'[x].lines = <<>>
  BY <1>1, <1>3 DEF TypeInv, Empty
<1>6. dir \in dirs /\ dir \in Dirs /\ SeenFrom(dir) /\ FallsBack(dir)
  BY DEF LossInv, TypeInv
<1>7. found' = found
  BY <1>2, <1>3, <1>4, <1>5, <1>6, Elsewhere, SMTT(30)
<1>8. ASSUME NEW d \in dirs' PROVE d \in Dirs /\ SeenFrom(d) /\ FallsBack(d)
  <2>1. CASE d \in dirs
    BY <2>1 DEF LossInv, TypeInv
  <2>2. CASE d = dir'
    BY <1>4, <1>6, <2>2, Twin
  <2> QED BY <1>1, <2>1, <2>2
<1>9. ASSUME NEW d \in dirs' PROVE SeenFrom(d)' /\ FallsBack(d)'
  <2>1. d.cur # x /\ \A k \in Names : d.rotated[k] # x
    BY <1>1, <1>3, <1>4, <1>6
  <2> QED BY <1>2, <1>3, <1>4, <1>5, <1>7, <1>8, <2>1, Unnamed
<1>10. Kept
  BY <1>2, <1>7, SameKept
<1>11. RotationKept' /\ NotAcked'
  BY <1>2, <1>4, <1>5 DEF RotationKept, NotAcked, LossInv
<1> QED BY <1>3, <1>4, <1>9, <1>10, <1>11 DEF LossInv

LEMMA FillKept == LogInv /\ LossInv /\ Fill => LossInv' /\ Kept
<1> SUFFICES ASSUME LogInv, LossInv, Fill PROVE LossInv' /\ Kept
  OBVIOUS
<1> USE TypeFacts, LossFacts DEF LogInv
<1> DEFINE x == dir.tmp
           f == [lines |-> <<Entry(entry, mem.hash, LinkedName)>>, open |-> FALSE]
<1>1. /\ pc = "fill" /\ pc' = "rename" /\ dir' = dir /\ dirs' = {dir} /\ acked' = acked
      /\ disk' = [disk EXCEPT ![x] = f] /\ synced' = [synced EXCEPT ![x] = f]
      /\ entry' = entry /\ found' = Analyze(dir', disk')
  BY DEF Fill, Observe
<1> HIDE DEF f
<1>2. /\ x \in Inodes /\ x # dir.cur /\ \A k \in Names : dir.rotated[k] # x
      /\ dir.cur # 0
  BY <1>1 DEF RotatingInv, WriterInv
<1>3. /\ \A i \in Inodes : i # x => disk'[i] = disk[i] /\ synced'[i] = synced[i]
      /\ disk'[x] = f /\ synced'[x] = f
  BY <1>1, <1>2 DEF TypeInv
<1>4. dir \in Dirs /\ SeenFrom(dir) /\ FallsBack(dir) /\ found = Analyze(dir, disk)
  BY DEF LossInv, TypeInv
<1>5. found' = found
  <2> DEFINE g == disk'
  <2>1. /\ used \in 0..MaxEntries /\ disk \in [Inodes -> FilesTo(used)]
        /\ \A i \in Inodes : i # x => g[i] = disk[i]
    BY <1>3
  <2> HIDE TypeFacts, LossFacts
  <2> HIDE DEF g
  <2>2. Analyze(dir, g) = Analyze(dir, disk)
    BY <1>2, <1>4, <2>1, Elsewhere
  <2> QED BY <1>1, <1>4, <2>2 DEF g
<1>6. ASSUME NEW d, d = dir PROVE SeenFrom(d)' /\ FallsBack(d)'
  BY <1>1, <1>2, <1>3, <1>4, <1>5, <1>6, Unnamed
<1>7. Kept
  BY <1>1, <1>5, SameKept
<1>8. RotationKept' /\ NotAcked'
  BY <1>1, <1>3 DEF RotationKept, NotAcked, LossInv
<1> QED BY <1>1, <1>2, <1>6, <1>7, <1>8 DEF LossInv

LEMMA RotateFailsKept == LogInv /\ LossInv /\ RotateFails => LossInv' /\ Kept
<1> SUFFICES ASSUME LogInv, LossInv, RotateFails PROVE LossInv' /\ Kept
  OBVIOUS
<1> USE TypeFacts, LossFacts DEF LogInv
<1>1. /\ pc \in {"link", "create", "fill", "rename"} /\ pc' = "idle" /\ disk' = disk
      /\ synced' = synced /\ acked' = acked /\ dirs' = dirs \cup {dir'}
      /\ found' = Analyze(dir', disk)
      /\ dir' = [dir EXCEPT !.tmp = 0,
                            !.rotated = IF pc = "link" THEN @ ELSE [@ EXCEPT ![LinkedName] = 0]]
  BY DEF RotateFails, SetDir, Observe, fileVars
<1>2. /\ dir.cur = fd /\ fd # 0 /\ fd \in Inodes /\ found.ok /\ dir \in Dirs /\ dir \in dirs
      /\ SeenFrom(dir) /\ FallsBack(dir) /\ dirs \subseteq Dirs
      /\ Verified(dir, disk)[MaxEntries][fd] = found
  BY <1>1 DEF WriterInv, LossInv, TypeInv, SeenFrom
<1>3. dir'.tmp = 0 /\ dir'.cur = fd
  BY <1>1, <1>2 DEF Dirs
<1>4. ASSUME NEW e, e = dir'
      PROVE  SeenFrom(e) /\ FallsBack(e) /\ Verified(e, disk)[MaxEntries][fd] = found
  <2>1. CASE pc = "link"
    <3>1. e.rotated = dir.rotated /\ e.cur = dir.cur
      BY <1>1, <1>2, <1>4, <2>1 DEF Dirs
    <3>2. SeenFrom(e) /\ FallsBack(e)
      BY <1>2, <3>1, Twin
    <3> QED BY <1>2, <3>2 DEF SeenFrom
  <2>2. CASE pc # "link"
    <3>1. LinkedName \in Names /\ dir.rotated[LinkedName] = fd
      BY <1>1, <2>2 DEF LinkedInv
    <3>2. e = Unlinked(dir, LinkedName)
      BY <1>1, <1>4, <2>2 DEF Unlinked
    <3>3. e \in Dirs /\ e.cur = dir.cur
      BY <1>2, <3>1, <3>2 DEF Unlinked, Dirs
    <3>4. ASSUME NEW c \in [Inodes -> FilesTo(used)], Verified(dir, c)[MaxEntries][fd].ok
          PROVE  Verified(e, c)[MaxEntries][fd] = Verified(dir, c)[MaxEntries][fd]
      <4>1. used \in 0..MaxEntries
        OBVIOUS
      <4> HIDE TypeFacts, LossFacts
      <4> QED BY <1>2, <3>1, <3>2, <3>4, <4>1, OwnName
    <3>5. SeenFrom(e) /\ FallsBack(e)
      BY <1>2, <3>3, <3>4, OtherName
    <3> QED BY <1>2, <3>4, <3>5
  <2> QED BY <2>1, <2>2
<1>5. found' = found
  BY <1>1, <1>2, <1>3, <1>4 DEF Analyze
<1>6. ASSUME NEW d \in dirs' PROVE SeenFrom(d)' /\ FallsBack(d)'
  <2>1. SeenFrom(d) /\ FallsBack(d)
    BY <1>1, <1>4 DEF LossInv
  <2> QED BY <1>1, <1>2, <1>3, <1>5, <2>1, Quiet
<1>7. Kept
  BY <1>1, <1>5, SameKept
<1>8. RotationKept' /\ NotAcked'
  BY <1>1, <1>3 DEF RotationKept, NotAcked
<1> QED BY <1>2, <1>3, <1>6, <1>7, <1>8 DEF LossInv

(* The last entry of the chain becomes the last safe one. *)
LEMMA FsyncKept == LogInv /\ LossInv /\ Fsync => LossInv' /\ Kept
<1> SUFFICES ASSUME LogInv, LossInv, Fsync PROVE LossInv' /\ Kept
  OBVIOUS
<1> USE TypeFacts, LossFacts DEF LogInv
<1> DEFINE c == found.chain
           s == LastIn(c, acked)
           n == mem.count + 1
<1>1. /\ pc = "fsync" /\ pc' = "idle" /\ dir' = dir /\ dirs' = {dir} /\ disk' = disk
      /\ synced' = [synced EXCEPT ![fd] = disk[fd]] /\ acked' = acked \cup {entry}
      /\ found' = found
  BY DEF Fsync
<1>2. /\ dir.cur = fd /\ fd # 0 /\ dir.tmp = 0 /\ entry \notin acked
      /\ Len(c) = n /\ c[n] = entry /\ dir \in Dirs
  BY <1>1 DEF ExtendedInv, Extended, LossInv, RotationKept, NotAcked
<1>3. synced'[dir'.cur] = disk'[dir'.cur]
  BY <1>1, <1>2 DEF TypeInv
<1>4. found' = Analyze(dir', disk') /\ disk' \in [Inodes -> FilesTo(used)] /\ dir' \in Dirs
  BY <1>1, <1>2 DEF TypeInv
<1>5. ASSUME NEW d \in dirs' PROVE SeenFrom(d)' /\ FallsBack(d)'
  BY <1>1, <1>2, <1>3, <1>4, Settled
<1>6. Kept
  <2>1. /\ c \in Seq(Nat) /\ n \in Nat /\ n # 0
        /\ Safe = s /\ Safe' = LastIn(c, acked') /\ IsLast(s, c, acked)
    BY <1>1, SafeIs, LastInIsLast
  <2> HIDE DEF c, s, n
  <2>2. s \in Nat /\ s < n
    BY <1>2, <2>1 DEF IsLast
  <2>3. IsLast(n, c, acked')
    BY <1>1, <1>2, <2>1 DEF IsLast
  <2>4. LastIn(c, acked') = n
    BY <2>1, <2>3, OneLast
  <2>5. Safe < Safe' /\ Safe' <= Len(found.chain) /\ found'.chain = found.chain
    BY <1>1, <1>2, <2>1, <2>2, <2>4 DEF c
  <2>6. AckedAreFound => AckedAreFound'
    <3> SUFFICES ASSUME AckedAreFound, NEW e \in acked' PROVE \E i \in 1..Len(c) : c[i] = e
      BY <1>1, <2>1, InChain, ZenonT(30) DEF AckedAreFound, c
    <3>1. CASE e = entry
      BY <1>2, <2>1, <3>1
    <3>2. CASE e \in acked
      BY <2>1, <3>2, InChain DEF AckedAreFound, c
    <3> QED BY <1>1, <3>1, <3>2
  <2> QED BY <2>5, <2>6 DEF Kept, Promise!Step, Promise!Ack
<1>7. RotationKept' /\ NotAcked'
  BY <1>1, <1>2 DEF RotationKept, NotAcked
<1> QED BY <1>1, <1>2, <1>5, <1>6, <1>7 DEF LossInv

LEMMA NoChain ==
  ASSUME NEW A
  PROVE  /\ Start.chain = <<>> /\ Start.ok /\ <<>> \in Seq(Nat) /\ Len(<<>>) = 0
         /\ LastIn(<<>>, A) = 0
<1>1. Start.chain = <<>> /\ Start.ok
  BY StartTypes
<1>2. <<>> \in Seq(Nat) /\ Len(<<>>) = 0
  OBVIOUS
<1>3. IsLast(0, <<>>, A)
  BY DEF IsLast
<1> QED BY <1>1, <1>2, <1>3, OneLast

LEMMA MoveAsideKept ==
  LogInv /\ LossInv /\ MoveAside => LossInv' /\ Promise!StartOver /\ AckedAreFound'
<1> SUFFICES ASSUME LogInv, LossInv, MoveAside
             PROVE  LossInv' /\ Promise!StartOver /\ AckedAreFound'
  OBVIOUS
<1> USE TypeFacts, LossFacts DEF LogInv
<1>1. /\ pc \in {"down", "idle", "broken"} /\ pc' = pc /\ dir' = [dir EXCEPT !.cur = 0]
      /\ dirs' = {dir'} /\ acked' = {} /\ disk' = disk /\ synced' = synced
      /\ found' = Analyze(dir', disk') /\ era' = 1 - era
  BY DEF MoveAside, Observe, fileVars
<1>2. dir'.cur = 0 /\ dir'.tmp = dir.tmp /\ dir' \in Dirs
  BY <1>1 DEF Dirs
<1>3. disk' \in [Inodes -> FilesTo(used)]
  BY <1>1
<1>4. ASSUME NEW d \in dirs' PROVE SeenFrom(d)' /\ FallsBack(d)'
  BY <1>1, <1>2, <1>3, Settled
<1>5. Promise!StartOver /\ AckedAreFound'
  <2>1. found' = Start
    BY <1>1, <1>2 DEF Analyze
  <2>2. found'.chain = <<>> /\ Safe' = 0
    BY <2>1, NoChain, SafeIs
  <2> QED BY <1>1, <2>2 DEF Promise!StartOver, AckedAreFound
<1>6. RotationKept' /\ NotAcked'
  BY <1>1, <1>2 DEF RotationKept, NotAcked, LossInv
<1> QED BY <1>1, <1>4, <1>5, <1>6 DEF LossInv

(* A file without a line says nothing. *)
LEMMA NoLines ==
  ASSUME NEW d, NEW c, NEW i \in Inodes, c[i].lines = <<>>
  PROVE  Verified(d, c)[MaxEntries][i] = Start
<1>1. Len(<<>>) = 0 /\ MaxEntries \in 0..MaxEntries /\ <<>> \in Seq(Lines)
  BY LogConstants
<1>2. ~ StartsRotated(c[i])
  BY <1>1 DEF StartsRotated
<1>3. Verified(d, c)[MaxEntries][i] = Read(Start, <<>>)
  BY <1>1, <1>2, VerifiedSteps DEF OneFile
<1>4. Read(Start, <<>>) = Passed(Start)
  BY <1>1, ReadSteps
<1>5. Passed(Start) = Start
  <2> DEFINE none == <<>>
             yes == TRUE
             no == FALSE
             s == [ok |-> yes, head |-> 0, pending |-> no, chain |-> none]
  <2>1. Start = s
    BY DEF Start, Genesis
  <2>2. Passed(Start) = [s EXCEPT !.pending = no]
    BY <2>1 DEF Passed
  <2>3. [s EXCEPT !.pending = no] = s
    <3> HIDE DEF none, yes, no
    <3> QED OBVIOUS
  <2> QED BY <2>1, <2>2, <2>3
<1> QED BY <1>3, <1>4, <1>5

(* With no entry acknowledged and none found, a chain may come on.            *)
LEMMA FirstKept ==
  ASSUME found = Start, found'.chain \in Seq(Nat), acked = {}, acked' = {}
  PROVE  Kept /\ Safe' = 0
<1>1. found.chain = <<>> /\ found.chain \in Seq(Nat) /\ Len(found.chain) = 0 /\ Safe = 0
  BY NoChain, SafeIs
<1>2. Begins(found.chain, found'.chain)
  <2> DEFINE g == found'.chain
  <2>1. Len(g) \in Nat
    OBVIOUS
  <2> HIDE DEF g
  <2> QED BY <1>1, <2>1 DEF Begins, g
<1>3. Kept /\ Safe' = Safe
  BY <1>1, <1>2, GrownKept
<1> QED BY <1>1, <1>3

LEMMA OpenKept == LogInv /\ LogInv' /\ LossInv /\ Open => LossInv' /\ Kept
<1> SUFFICES ASSUME LogInv, LogInv', LossInv, Open PROVE LossInv' /\ Kept
  OBVIOUS
<1> USE TypeFacts, LossFacts DEF LogInv
<1>1. /\ pc = "down" /\ pc' = "idle" /\ acked' = acked /\ found' = Analyze(dir', disk')
      /\ dir \in dirs /\ dir \in Dirs /\ SeenFrom(dir) /\ FallsBack(dir) /\ NotAcked'
      /\ disk' \in [Inodes -> FilesTo(used)]
  BY DEF Open, Observe, TypeInv, LossInv, NotAcked
<1>2. CASE dir.tmp = 0 /\ dir.cur # 0
  <2>1. dir' = dir /\ dirs' = dirs /\ disk' = disk /\ synced' = synced
    BY <1>2 DEF Open, Recovered, fileVars
  <2>2. found' = found
    BY <1>1, <2>1
  <2>3. ASSUME NEW d \in dirs' PROVE SeenFrom(d)' /\ FallsBack(d)'
    BY <1>1, <2>1, <2>2, <2>3, Quiet DEF LossInv
  <2> QED BY <1>1, <1>2, <2>1, <2>2, <2>3, SameKept DEF LossInv, RotationKept
<1>3. CASE dir.tmp # 0 /\ dir.cur # 0
  <2>1. /\ dir' = [dir EXCEPT !.tmp = 0] /\ dirs' = {dir'} /\ disk' = disk /\ synced' = synced
    BY <1>1, <1>3 DEF Open, Recovered, fileVars, Dirs
  <2>2. /\ dir'.cur = dir.cur /\ dir'.tmp = 0 /\ dir'.rotated = dir.rotated
    BY <1>1, <2>1 DEF Dirs
  <2>3. ASSUME NEW e, e = dir' PROVE SeenFrom(e) /\ FallsBack(e)
    BY <1>1, <2>2, <2>3, Twin
  <2>4. found' = found
    BY <1>1, <1>3, <2>1, <2>2, <2>3 DEF Analyze, SeenFrom
  <2>5. ASSUME NEW d \in dirs' PROVE SeenFrom(d)' /\ FallsBack(d)'
    BY <1>1, <2>1, <2>2, <2>3, <2>4, <2>5, Quiet
  <2> QED BY <1>1, <1>3, <2>1, <2>2, <2>4, <2>5, SameKept DEF LossInv, RotationKept
<1>4. CASE dir.tmp # 0 /\ dir.cur = 0
  <2> DEFINE x == dir.tmp
             g == Cut'
  <2>1. /\ dir' = [dir EXCEPT !.cur = x, !.tmp = 0] /\ dirs' = {dir'} /\ disk' = disk
        /\ synced' = synced
    BY <1>1, <1>4 DEF Open, Recovered, fileVars, Dirs
  <2>2. dir'.cur = x /\ dir'.tmp = 0 /\ x \in Inodes /\ dir' \in Dirs
    BY <1>1, <1>4, <2>1 DEF Dirs
  <2>3. acked = {} /\ found = Start
    BY <1>1, <1>4 DEF FallsBack, Analyze
  <2>4. found' = Verified(dir', disk)[MaxEntries][x]
    BY <1>1, <2>1, <2>2 DEF Analyze
  <2>5. found'.chain \in Seq(Nat)
    <3> DEFINE v == found'
    <3>1. v \in VerdictsTo(used)
      BY <2>2, <2>4, VerifiedTypes
    <3> HIDE DEF v
    <3>2. v.chain \in Seq(Nat)
      BY <3>1, VerdictChain
    <3> QED BY <3>2 DEF v
  <2>6. Kept /\ Safe' = 0
    BY <1>1, <2>3, <2>5, FirstKept
  <2>7. ASSUME NEW d, d = dir' PROVE SeenFrom(d)' /\ FallsBack(d)'
    <3> DEFINE v == Verified(d, g)[MaxEntries][x]
    <3>1. \A i \in Inodes : g[i] = IF i = x THEN synced[i] ELSE disk[i]
      BY <2>1, <2>2 DEF Cut
    <3>4. ASSUME Begins(v.chain, found'.chain), Safe' <= Len(v.chain),
                 v.ok \/ synced[x].lines = disk[x].lines
          PROVE  SeenFrom(d)' /\ FallsBack(d)'
      <4>1. Verified(d, disk')[MaxEntries][dir'.cur] = found' /\ Verified(d, Cut')[MaxEntries][dir'.cur] = v
        BY <2>1, <2>2, <2>4, <2>7
      <4>2. synced'[dir'.cur] = synced[x] /\ disk'[dir'.cur] = disk[x] /\ d.cur = x /\ dir'.cur = x /\ x # 0
        BY <2>1, <2>2, <2>7
      <4> HIDE DEF v, x, g
      <4> QED BY <3>4, <4>1, <4>2 DEF SeenFrom, FallsBack, KeptIn
    <3>2. CASE synced[x].lines = disk[x].lines
      <4>1. \A i \in Inodes : g[i].lines = disk[i].lines
        BY <3>1, <3>2
      <4>2. v = found'
        <5>1. /\ used \in 0..MaxEntries /\ MaxEntries \in 0..MaxEntries
              /\ disk \in [Inodes -> FilesTo(used)] /\ d \in Dirs
          BY <2>2, <2>7
        <5> HIDE TypeFacts, LossFacts
        <5> HIDE DEF g, x
        <5>2. v = Verified(d, disk)[MaxEntries][x]
          BY <2>2, <4>1, <5>1, SameLines
        <5> QED BY <2>4, <2>7, <5>2
      <4>3. Begins(found'.chain, found'.chain) /\ Safe' <= Len(found'.chain)
        BY <2>5, SafeIs, BeginsSelf
      <4> QED BY <3>2, <3>4, <4>2, <4>3
    <3>3. CASE synced[x].lines = <<>>
      <4>1. v = Start
        BY <2>2, <3>1, <3>3, NoLines
      <4>2. Begins(<<>>, found'.chain)
        <5> DEFINE c == found'.chain
        <5>1. Len(c) \in Nat /\ Len(<<>>) = 0
          BY <2>5
        <5> HIDE DEF c
        <5> QED BY <5>1 DEF Begins, c
      <4>3. Begins(v.chain, found'.chain) /\ Safe' <= Len(v.chain) /\ v.ok
        <5>1. v.chain = <<>> /\ Len(v.chain) = 0 /\ v.ok
          BY <4>1, NoChain
        <5> HIDE DEF v
        <5> QED BY <2>6, <4>2, <5>1
      <4> QED BY <3>4, <4>3
    <3> QED BY <1>1, <1>4, <3>2, <3>3 DEF LossInv, RotationKept
  <2> QED BY <1>1, <2>1, <2>2, <2>6, <2>7 DEF LossInv, RotationKept
<1>5. CASE dir.tmp = 0 /\ dir.cur = 0
  <2>1. PICK x \in Fresh : /\ dir' = [dir EXCEPT !.cur = x] /\ dirs' = dirs \cup {dir'}
                           /\ disk' = [disk EXCEPT ![x] = Empty]
                           /\ synced' = [synced EXCEPT ![x] = Empty]
    BY <1>5 DEF Open, Recovered
  <2>2. /\ x \in Inodes /\ x # 0 /\ dir'.cur = x /\ dir'.tmp = 0
        /\ disk'[x].lines = <<>> /\ synced'[x].lines = <<>> /\ Cut'[x].lines = <<>>
        /\ dirs' = {dir, dir'}
    BY <1>1, <1>5, <2>1 DEF Fresh, Dirs, Empty, TypeInv, LossInv, Cut
  <2>3. acked = {} /\ found = Start
    BY <1>1, <1>5 DEF FallsBack, Analyze
  <2>4. \A d : /\ Verified(d, disk')[MaxEntries][x] = Start
               /\ Verified(d, Cut')[MaxEntries][x] = Start
    BY <2>2, NoLines
  <2>5. found' = Start
    BY <1>1, <2>2, <2>4 DEF Analyze
  <2>6. Kept /\ Safe' = 0
    BY <1>1, <2>3, <2>5, NoChain, FirstKept
  <2>7. KeptIn(Start)'
    BY <2>5, <2>6, NoChain, BeginsSelf DEF KeptIn
  <2>8. ASSUME NEW d \in {dir, dir'} PROVE SeenFrom(d)' /\ FallsBack(d)'
    BY <1>1, <1>5, <2>2, <2>3, <2>4, <2>5, <2>7, NoChain DEF SeenFrom, FallsBack
  <2> QED BY <1>1, <2>2, <2>6, <2>8 DEF LossInv, RotationKept
<1> QED BY <1>2, <1>3, <1>4, <1>5

LEMMA BeginsMore ==
  ASSUME NEW c \in Seq(Nat), NEW n \in Nat
  PROVE  /\ Append(c, n) \in Seq(Nat) /\ Begins(c, Append(c, n))
         /\ Len(Append(c, n)) = Len(c) + 1 /\ Append(c, n)[Len(c) + 1] = n
BY AppendProperties DEF Begins

LEMMA BeginsTwice ==
  ASSUME NEW a \in Seq(Nat), NEW b \in Seq(Nat), NEW c \in Seq(Nat), Begins(a, b), Begins(b, c)
  PROVE  Begins(a, c)
<1>1. Len(a) \in Nat /\ Len(b) \in Nat /\ Len(c) \in Nat
  OBVIOUS
<1> QED BY <1>1 DEF Begins

(* An entry that nobody was told of at the end of the chain. *)
LEMMA LongerKept ==
  ASSUME found.chain \in Seq(Nat), NEW n \in Nat, n \notin acked, acked' = acked,
         found'.chain = Append(found.chain, n)
  PROVE  /\ Kept /\ Safe' = Safe /\ found'.chain \in Seq(Nat)
         /\ Begins(found.chain, found'.chain) /\ Len(found'.chain) = Len(found.chain) + 1
<1> DEFINE c == found.chain
           g == found'.chain
<1>1. c \in Seq(Nat) /\ Len(c) \in Nat /\ g = Append(c, n)
  OBVIOUS
<1> HIDE DEF c, g
<1>2. g \in Seq(Nat) /\ Begins(c, g) /\ Len(g) = Len(c) + 1 /\ g[Len(c) + 1] = n
  BY <1>1, BeginsMore
<1>3. \A i \in 1..Len(g) : i > Len(c) => g[i] \notin acked
  BY <1>1, <1>2
<1> QED BY <1>1, <1>2, <1>3, GrownKept DEF c, g

LEMMA RenameKept == LogInv /\ LossInv /\ Rename => LossInv' /\ Kept
<1> SUFFICES ASSUME LogInv, LossInv, Rename PROVE LossInv' /\ Kept
  OBVIOUS
<1> USE TypeFacts, LossFacts DEF LogInv
<1> DEFINE x == dir.tmp
           E == Entry(entry, mem.hash, LinkedName)
<1>1. /\ pc = "rename" /\ pc' = "reopen" /\ dir' = [dir EXCEPT !.cur = x, !.tmp = 0]
      /\ dirs' = dirs \cup {dir'} /\ disk' = disk /\ synced' = synced
      /\ entry' = entry /\ acked' = acked /\ found' = Analyze(dir', disk)
  BY DEF Rename, SetDir, Observe, fileVars
<1>2. /\ x \in Inodes /\ x # 0 /\ x # dir.cur /\ dir.cur # 0 /\ found.ok /\ mem.hash < entry
      /\ dirs = {dir} /\ synced[x] = disk[x] /\ entry \notin acked
      /\ SeenFrom(dir) /\ dir \in Dirs /\ mem.hash = found.head
  BY <1>1 DEF RotatingInv, WriterInv, Agrees, LossInv, RotationKept, NotAcked, TypeInv
<1>3. dir' \in Dirs /\ dir'.cur = x /\ dir'.tmp = 0 /\ dir'.rotated = dir.rotated
  BY <1>1, <1>2 DEF Dirs
<1>4. found'.chain = Append(found.chain, entry) /\ found'.ok
  <2> DEFINE p == Passed(found)
  <2>1. p.ok /\ p.head = mem.hash /\ p.chain = found.chain
    BY <1>2 DEF Passed, VerdictsTo
  <2>2. found' = Feed(p, E) /\ E.kind = "entry" /\ E.n = entry /\ E.prev = mem.hash
    BY NewFile DEF Entry
  <2> HIDE DEF p, E
  <2>3. found' = [ok |-> TRUE, head |-> E.n, pending |-> FALSE, chain |-> Append(p.chain, E.n)]
    BY <2>1, <2>2 DEF Feed
  <2> QED BY <2>1, <2>2, <2>3
<1>5. /\ Kept /\ Safe' = Safe /\ found'.chain \in Seq(Nat)
      /\ Begins(found.chain, found'.chain) /\ Len(found'.chain) = Len(found.chain) + 1
  BY <1>1, <1>2, <1>4, LongerKept
<1>6. KeptIn(found)' /\ KeptIn(found) /\ Len(found.chain) \in Nat
  <2>1. Begins(found'.chain, found'.chain) /\ Safe' <= Len(found'.chain)
    BY <1>5, BeginsSelf, SafeIs
  <2>2. Len(found.chain) \in Nat
    BY VerdictFields
  <2> QED BY <2>1, <2>2 DEF KeptIn
<1>7. \A i \in Inodes : Cut'[i] = disk[i]
  BY <1>1, <1>2, <1>3 DEF Cut
<1>8. Cut' = disk
  BY <1>7 DEF Cut, TypeInv
<1>9. ASSUME NEW d \in dirs' PROVE SeenFrom(d)' /\ FallsBack(d)'
  <2>1. d = dir \/ d = dir'
    BY <1>1, <1>2
  <2>2. Verified(d, disk)[MaxEntries][x] = found'
    <3>1. Verified(dir', disk)[MaxEntries][x] = found'
      BY <1>1, <1>2, <1>3 DEF Analyze
    <3>2. Verified(dir', disk)[MaxEntries][x] = Verified(dir, disk)[MaxEntries][x]
      <4> DEFINE e == dir'
      <4>1. e.rotated = dir.rotated /\ used \in 0..MaxEntries /\ MaxEntries \in 0..MaxEntries
            /\ disk \in [Inodes -> FilesTo(used)]
        BY <1>3
      <4> HIDE TypeFacts, LossFacts
      <4> HIDE DEF e, x
      <4>2. Verified(e, disk)[MaxEntries][x] = Verified(dir, disk)[MaxEntries][x]
        BY <1>2, <4>1, SameLines
      <4> QED BY <4>2 DEF e
    <3> QED BY <2>1, <3>1, <3>2
  <2>3. SeenFrom(d)'
    <3>1. Verified(d, disk')[MaxEntries][dir'.cur] = found' /\ Verified(d, Cut')[MaxEntries][dir'.cur] = found'
      BY <1>1, <1>3, <1>8, <2>2
    <3> QED BY <1>4, <1>6, <3>1 DEF SeenFrom, KeptIn
  <2>4. FallsBack(d)'
    <3>1. CASE d = dir
      <4>1. Analyze(d, disk') = found
        BY <1>1, <3>1
      <4>2. Begins(found.chain, found'.chain) /\ Safe' <= Len(found.chain) /\ found.ok
            /\ Len(found.chain) < Len(found'.chain)
        BY <1>2, <1>5, <1>6 DEF KeptIn
      <4> QED BY <1>2, <3>1, <4>1, <4>2 DEF FallsBack, KeptIn
    <3>2. CASE d = dir'
      BY <1>2, <1>3, <3>2 DEF FallsBack
    <3> QED BY <2>1, <3>1, <3>2
  <2> QED BY <2>3, <2>4
<1>10. RotationKept' /\ NotAcked'
  BY <1>1, <1>2, <1>3 DEF RotationKept, NotAcked
<1> QED BY <1>2, <1>3, <1>5, <1>9, <1>10 DEF LossInv

(* A write adds a line to the current file, or none, and the chain's files    *)
(* before it are as they were.                                               *)
LEMMA Wrote ==
  ASSUME LogInv, LossInv, pc = "write", dir' = dir, dirs' = dirs, synced' = synced,
         acked' = acked, found' = Analyze(dir', disk'), NEW f,
         disk' = [disk EXCEPT ![fd] = f],
         NEW l \in LinesTo(used), l.target = NoName,
         l.kind = "entry" => l.n = entry,
         f.lines = disk[fd].lines \/ f.lines = Append(disk[fd].lines, l)
  PROVE  Kept /\ \A d \in dirs : SeenFrom(d)' /\ FallsBack(d)'
<1> USE TypeFacts, LossFacts DEF LogInv
<1> DEFINE g == disk'
           M == MaxEntries
<1>1. /\ dir.cur = fd /\ fd # 0 /\ fd \in Inodes /\ found.ok /\ entry \notin acked
      /\ dir \in dirs /\ dirs \subseteq Dirs /\ disk \in [Inodes -> FilesTo(used)]
      /\ used \in 0..M /\ M \in 0..M /\ disk[fd].lines \in Seq(LinesTo(used))
  BY FileFields DEF WriterInv, LossInv, NotAcked, TypeInv
<1>2. /\ g[fd].lines = disk[fd].lines \/ g[fd].lines = Append(disk[fd].lines, l)
      /\ \A i \in Inodes : i # fd => g[i] = disk[i]
  BY <1>1
<1>3. Cut' = Cut
  <2>1. \A i \in Inodes : (IF i = dir'.cur THEN synced'[i] ELSE disk'[i]) =
                          (IF i = dir.cur THEN synced[i] ELSE disk[i])
    BY <1>1, <1>2
  <2> QED BY <2>1 DEF Cut
<1> HIDE DEF g
<1>4. ASSUME NEW d \in dirs
      PROVE  /\ Verified(d, disk)[M][fd] = found
             /\ Verified(d, g)[M][fd] = IF g[fd].lines = disk[fd].lines THEN found ELSE Feed(found, l)
  <2>1. Verified(d, disk)[M][fd] = found /\ d \in Dirs
    BY <1>1 DEF LossInv, SeenFrom
  <2>2. CASE g[fd].lines = disk[fd].lines
    <3>1. \A i \in Inodes : g[i].lines = disk[i].lines
      BY <1>2, <2>2
    <3>2. /\ used \in 0..MaxEntries /\ d \in Dirs /\ disk \in [Inodes -> FilesTo(used)]
          /\ MaxEntries \in 0..MaxEntries /\ fd \in Inodes
      BY <1>1, <2>1
    <3> HIDE TypeFacts, LossFacts
    <3>3. Verified(d, g)[MaxEntries][fd] = Verified(d, disk)[MaxEntries][fd]
      BY <3>1, <3>2, SameLines
    <3> QED BY <2>1, <2>2, <3>3
  <2>3. CASE g[fd].lines # disk[fd].lines
    <3>1. /\ g[fd].lines = Append(disk[fd].lines, l) /\ Verified(d, disk)[MaxEntries][fd].ok
          /\ l \in LinesTo(used) /\ l.target = NoName
      BY <1>1, <1>2, <2>1, <2>3
    <3>2. /\ used \in 0..MaxEntries /\ d \in Dirs /\ disk \in [Inodes -> FilesTo(used)]
          /\ fd \in Inodes /\ disk[fd].lines \in Seq(LinesTo(used))
          /\ \A i \in Inodes : i # fd => g[i] = disk[i]
      BY <1>1, <1>2, <2>1
    <3> HIDE TypeFacts, LossFacts
    <3>3. Verified(d, g)[MaxEntries][fd] = Feed(Verified(d, disk)[MaxEntries][fd], l)
      BY <3>1, <3>2, LineMore
    <3> QED BY <2>1, <2>3, <3>3
  <2> QED BY <2>1, <2>2, <2>3
<1>5. found' = Verified(dir, g)[M][fd]
  BY <1>1 DEF Analyze, g
<1>6. ASSUME NEW d \in dirs PROVE Verified(d, g)[M][fd] = found'
  BY <1>1, <1>4, <1>5
<1>7. found'.chain = found.chain \/ found'.chain = Append(found.chain, entry)
  <2>1. CASE found' = found
    BY <2>1
  <2>2. CASE found' = Feed(found, l)
    <3> DEFINE c == found.chain
               h == Append(c, l.n)
    <3>1. /\ found \in [ok : BOOLEAN, head : 0..used, pending : BOOLEAN, chain : Seq(1..used)]
          /\ found.chain = c
      BY DEF VerdictsTo
    <3> HIDE DEF c, h
    <3>2. \/ Feed(found, l).chain = c
          \/ Feed(found, l).chain = h /\ l.kind = "entry"
      BY <3>1 DEF Feed, h
    <3> QED BY <2>2, <3>2 DEF c, h
  <2> QED BY <1>1, <1>4, <1>5, <2>1, <2>2
<1>8. /\ Kept /\ Safe' = Safe /\ found'.chain \in Seq(Nat)
      /\ Begins(found.chain, found'.chain) /\ Len(found.chain) <= Len(found'.chain)
  <2>1. CASE found'.chain = found.chain
    <3>1. Kept /\ Safe' = Safe
      BY <2>1, SameKept
    <3>2. Begins(found.chain, found.chain) /\ Len(found.chain) \in Nat /\ found.chain \in Seq(Nat)
      BY BeginsSelf
    <3> QED BY <2>1, <3>1, <3>2
  <2>2. CASE found'.chain = Append(found.chain, entry)
    <3>1. /\ Len(found.chain) \in Nat /\ found.chain \in Seq(Nat)
          /\ entry \in Nat /\ entry \notin acked
      BY <1>1, VerdictFields
    <3> HIDE TypeFacts, LossFacts
    <3>2. /\ Kept /\ Safe' = Safe /\ found'.chain \in Seq(Nat)
          /\ Begins(found.chain, found'.chain) /\ Len(found'.chain) = Len(found.chain) + 1
      BY <2>2, <3>1, LongerKept
    <3> QED BY <3>1, <3>2
  <2> QED BY <1>7, <2>1, <2>2
<1>9. ASSUME NEW u \in Nat, NEW v \in VerdictsTo(u), KeptIn(v)
      PROVE  Begins(v.chain, found'.chain) /\ Safe' <= Len(v.chain)
  <2>1. v.chain \in Seq(Nat)
    BY VerdictChain
  <2> QED BY <1>8, <1>9, <2>1, BeginsTwice DEF KeptIn
<1>10. ASSUME NEW d \in dirs PROVE SeenFrom(d)'
  <2> DEFINE v == Verified(d, Cut)[M][fd]
  <2>1. KeptIn(v) /\ (v.ok \/ synced[fd].lines = disk[fd].lines) /\ d \in Dirs
    BY <1>1 DEF LossInv, SeenFrom
  <2>2. v \in VerdictsTo(used)
    BY <1>1, <2>1, VerifiedTypes
  <2>3. v.ok
    <3> SUFFICES ASSUME synced[fd].lines = disk[fd].lines PROVE v.ok
      BY <2>1
    <3>1. \A i \in Inodes : Cut[i].lines = disk[i].lines
      BY <1>1 DEF Cut
    <3>2. v = Verified(d, disk)[M][fd]
      <4> HIDE TypeFacts, LossFacts
      <4> QED BY <1>1, <2>1, <3>1, SameLines, SMTT(30)
    <3> QED BY <1>1, <1>4, <3>2
  <2>4. Begins(v.chain, found'.chain) /\ Safe' <= Len(v.chain)
    <3> HIDE DEF v
    <3> QED BY <1>9, <2>1, <2>2
  <2>5. Verified(d, disk')[MaxEntries][dir'.cur] = found'
    BY <1>1, <1>6 DEF g
  <2>6. Verified(d, Cut')[MaxEntries][dir'.cur] = v
    BY <1>1, <1>3
  <2> HIDE DEF v
  <2> QED BY <2>3, <2>4, <2>5, <2>6 DEF SeenFrom, KeptIn
<1>11. ASSUME NEW d \in dirs PROVE FallsBack(d)'
  <2>1. CASE d.cur \in {0, fd}
    BY <1>1, <2>1 DEF LossInv, FallsBack
  <2>2. CASE d.cur \notin {0, fd}
    <3> DEFINE v == Analyze(d, disk)
               i == d.cur
    <3>1. /\ v.ok /\ KeptIn(v) /\ Len(v.chain) < Len(found.chain) /\ d \in Dirs /\ i \in Inodes
          /\ v = Verified(d, disk)[MaxEntries][i]
      BY <1>1, <2>2 DEF LossInv, FallsBack, Analyze, Dirs
    <3>2. v \in VerdictsTo(used)
      BY <1>1, <3>1, VerifiedTypes
    <3>3. Len(v.chain) <= M
      BY <1>1, <3>2, ChainLength
    <3>4. Verified(d, g)[MaxEntries][i] = v
      <4>1. /\ Verified(d, disk)[MaxEntries][i].ok /\ Len(Verified(d, disk)[MaxEntries][i].chain) <= M
            /\ Len(Verified(d, disk)[MaxEntries][i].chain) < Len(Verified(d, disk)[MaxEntries][fd].chain)
        BY <1>4, <3>1, <3>3
      <4> HIDE TypeFacts, LossFacts
      <4> HIDE DEF v, i
      <4> QED BY <1>1, <1>2, <3>1, <4>1, ShorterChains
    <3>5. Analyze(d, disk') = v
      BY <2>2, <3>4 DEF Analyze, g
    <3>6. Begins(v.chain, found'.chain) /\ Safe' <= Len(v.chain)
      <4> HIDE DEF v
      <4> QED BY <1>9, <3>1, <3>2
    <3>7. Len(v.chain) < Len(found'.chain)
      <4>1. Len(v.chain) \in Nat /\ Len(found.chain) \in Nat /\ Len(found'.chain) \in Nat
        BY <1>8, <3>2, VerdictFields
      <4> DEFINE n == Len(v.chain)
                 o == Len(found.chain)
                 r == Len(found'.chain)
      <4>2. n \in Nat /\ o \in Nat /\ r \in Nat /\ n < o /\ o <= r
        BY <1>8, <3>1, <4>1
      <4> HIDE DEF n, o, r
      <4>3. n < r
        BY <4>2
      <4> QED BY <4>3 DEF n, r
    <3> HIDE DEF v
    <3> QED BY <1>1, <2>2, <3>1, <3>5, <3>6, <3>7 DEF FallsBack, KeptIn
  <2> QED BY <2>1, <2>2
<1> QED BY <1>8, <1>10, <1>11

(* File g has the lines of f, or those and line l or a part of one. *)
AddsTo(g, f, l) ==
  g.lines = f.lines \/ g.lines = Append(f.lines, l) \/ g.lines = Append(f.lines, Torn)

LEMMA PartLines ==
  ASSUME NEW u \in Nat, NEW f \in FilesTo(u), NEW l, NEW torn, torn = f.open,
         NEW g \in Parts(f, l, torn)
  PROVE  AddsTo(g, f, l)
<1> USE DEF AddsTo
<1> DEFINE more == Append(f.lines, l)
           cut == Append(f.lines, Torn)
<1>1. f.open \in BOOLEAN /\ f \in [lines : Seq(LinesTo(u)), open : BOOLEAN]
  BY FileFields DEF FilesTo
<1>2. Whole(f, l, torn) = [lines |-> more, open |-> FALSE]
  BY <1>1 DEF Whole
<1>3. \/ g = f \/ g = [Whole(f, l, torn) EXCEPT !.open = TRUE]
      \/ g = [lines |-> cut, open |-> TRUE] \/ g = [f EXCEPT !.open = FALSE]
  BY DEF Parts
<1>4. CASE g = [Whole(f, l, torn) EXCEPT !.open = TRUE]
  <2> HIDE DEF more
  <2>1. g.lines = more
    BY <1>2, <1>4
  <2> QED BY <2>1 DEF more
<1>5. CASE g = [lines |-> cut, open |-> TRUE]
  <2> HIDE DEF cut
  <2>1. g.lines = cut
    BY <1>5
  <2> QED BY <2>1 DEF cut
<1>6. CASE g = f \/ g = [f EXCEPT !.open = FALSE]
  BY <1>1, <1>6
<1> QED BY <1>3, <1>4, <1>5, <1>6

LEMMA WriteKept == LogInv /\ LossInv /\ Write => LossInv' /\ Kept
<1> SUFFICES ASSUME LogInv, LossInv, Write PROVE LossInv' /\ Kept
  OBVIOUS
<1> USE TypeFacts DEF LogInv
<1> DEFINE E == Entry(entry, mem.hash, NoName)
           f == Whole(disk[fd], E, mem.torn)
<1>1. /\ pc = "write" /\ pc' = "fsync" /\ dir' = dir /\ dirs' = dirs /\ synced' = synced
      /\ acked' = acked /\ entry' = entry /\ disk' = [disk EXCEPT ![fd] = f]
      /\ found' = Analyze(dir', disk')
  BY DEF Write, Observe
<1>2. /\ fd \in Inodes /\ Agrees(mem, disk[fd], found) /\ entry = used /\ mem.hash < entry
      /\ dir.cur # 0 /\ disk[fd] \in FilesTo(used) /\ entry \in 1..used
  BY <1>1 DEF WriterInv
<1>3. E \in LinesTo(used) /\ E.target = NoName /\ E.n = entry
  BY <1>2, NewEntry
<1>4. f.lines = Append(disk[fd].lines, E)
  <2>1. mem.torn = disk[fd].open
    BY <1>2, FileFields DEF Agrees
  <2> HIDE DEF E
  <2> QED BY <1>2, <1>3, <2>1, WriteTypes
<1> HIDE DEF E, f
<1>5. Kept /\ \A d \in dirs : SeenFrom(d)' /\ FallsBack(d)'
  <2> HIDE TypeFacts
  <2> HIDE DEF LogInv
  <2> QED BY <1>1, <1>3, <1>4, Wrote
<1>6. RotationKept' /\ NotAcked' /\ dir'.cur # 0
  BY <1>1, <1>2 DEF RotationKept, NotAcked, LossInv
<1> QED BY <1>1, <1>5, <1>6 DEF LossInv

LEMMA BrokenWriteKept == LogInv /\ LossInv /\ (WriteFails \/ CrashInWrite) => LossInv' /\ Kept
<1> SUFFICES ASSUME LogInv, LossInv, WriteFails \/ CrashInWrite PROVE LossInv' /\ Kept
  OBVIOUS
<1> USE TypeFacts DEF LogInv
<1> DEFINE E == Entry(entry, mem.hash, NoName)
<1>1. PICK f \in Parts(disk[fd], E, mem.torn) : disk' = [disk EXCEPT ![fd] = f]
  BY DEF WriteFails, CrashInWrite
<1>2. /\ pc = "write" /\ pc' \in {"idle", "down"} /\ dir' = dir /\ dirs' = dirs
      /\ synced' = synced /\ acked' = acked /\ found' = Analyze(dir', disk')
  BY DEF WriteFails, CrashInWrite, Down, Observe
<1>3. /\ fd \in Inodes /\ Agrees(mem, disk[fd], found) /\ entry = used /\ mem.hash < entry
      /\ dir.cur # 0 /\ disk[fd] \in FilesTo(used) /\ entry \in 1..used
  BY <1>2 DEF WriterInv
<1>4. E \in LinesTo(used) /\ E.target = NoName /\ E.n = entry
  BY <1>3, NewEntry
<1>5. Torn \in LinesTo(used) /\ Torn.target = NoName /\ Torn.kind # "entry"
  BY DEF LinesTo, Torn, NoName
<1> HIDE DEF E
<1>6. PICK l \in {E, Torn} : f.lines = disk[fd].lines \/ f.lines = Append(disk[fd].lines, l)
  <2>1. mem.torn = disk[fd].open
    BY <1>3, FileFields DEF Agrees
  <2>2. AddsTo(f, disk[fd], E)
    <3>1. disk[fd] \in FilesTo(used) /\ used \in Nat
      BY <1>3
    <3> HIDE TypeFacts
    <3> QED BY <1>1, <2>1, <3>1, PartLines
  <2> HIDE TypeFacts
  <2> HIDE DEF Torn
  <2> QED BY <2>2 DEF AddsTo
<1>7. l \in LinesTo(used) /\ l.target = NoName /\ (l.kind = "entry" => l.n = entry)
  BY <1>4, <1>5
<1>8. Kept /\ \A d \in dirs : SeenFrom(d)' /\ FallsBack(d)'
  <2> HIDE TypeFacts
  <2> HIDE DEF LogInv
  <2> QED BY <1>1, <1>2, <1>6, <1>7, Wrote
<1>9. RotationKept' /\ NotAcked' /\ dir'.cur # 0
  BY <1>2, <1>3 DEF RotationKept, NotAcked, LossInv
<1> QED BY <1>2, <1>8, <1>9 DEF LossInv

(* The machine falls back to a directory d and a current file of which it has *)
(* all, what was synced, or that and a part of a line: no safe entry is lost.  *)
LEMMA PowerLossKept == Writeback /\ LogInv /\ LossInv /\ PowerLoss => LossInv' /\ Kept
<1> SUFFICES ASSUME Writeback, LogInv, LossInv, PowerLoss PROVE LossInv' /\ Kept
  OBVIOUS
<1> USE TypeFacts, LossFacts DEF LogInv
<1> DEFINE x == dir.cur
           g == disk'
           M == MaxEntries
<1>1. PICK keep \in {"all", "none", "part"} : disk' = [i \in Inodes |-> Fallback(i, keep)]
  BY DEF PowerLoss
<1>2. /\ pc' = "down" /\ synced' = disk' /\ dir' \in dirs /\ dirs' = {dir'} /\ acked' = acked
      /\ found' = Analyze(dir', disk')
  BY DEF PowerLoss, Down, Observe
<1>3. /\ \A i \in Inodes : i # x => g[i] = disk[i]
      /\ x # 0 => \/ g[x].lines = disk[x].lines \/ g[x].lines = synced[x].lines
                  \/ /\ g[x].lines = Append(synced[x].lines, Torn)
                     /\ Len(disk[x].lines) > Len(synced[x].lines)
  <2>1. \A i \in Inodes : g[i] = Fallback(i, keep)
    BY <1>1
  <2>2. ASSUME NEW i \in Inodes, i # x PROVE Fallback(i, keep) = disk[i]
    BY <2>2 DEF Fallback
  <2>3. \/ Fallback(x, keep) = disk[x] \/ Fallback(x, keep) = synced[x]
        \/ /\ Fallback(x, keep) = [lines |-> Append(synced[x].lines, Torn), open |-> TRUE]
           /\ Len(disk[x].lines) > Len(synced[x].lines)
    <3>1. CASE keep = "all"
      BY <3>1 DEF Fallback
    <3>2. CASE keep = "none"
      BY <3>2 DEF Fallback
    <3>3. CASE keep = "part" /\ Len(disk[x].lines) > Len(synced[x].lines)
      BY <3>3 DEF Fallback
    <3>4. CASE keep = "part" /\ ~ (Len(disk[x].lines) > Len(synced[x].lines))
      BY <3>4 DEF Fallback
    <3> QED BY <3>1, <3>2, <3>3, <3>4
  <2>4. x # 0 => g[x] = Fallback(x, keep)
    BY <2>1
  <2> DEFINE more == Append(synced[x].lines, Torn)
             old == synced[x]
             new == disk[x]
  <2>5. \/ Fallback(x, keep) = new \/ Fallback(x, keep) = old
        \/ Fallback(x, keep) = [lines |-> more, open |-> TRUE] /\ Len(new.lines) > Len(old.lines)
    BY <2>3
  <2>6. x # 0 => \/ g[x].lines = new.lines \/ g[x].lines = old.lines
                 \/ g[x].lines = more /\ Len(new.lines) > Len(old.lines)
    <3> HIDE TypeFacts, LossFacts
    <3> HIDE DEF g, x, more, old, new
    <3> QED BY <2>4, <2>5
  <2>7. \A i \in Inodes : i # x => g[i] = disk[i]
    BY <2>1, <2>2
  <2> HIDE TypeFacts, LossFacts
  <2> HIDE DEF g
  <2> QED BY <2>6, <2>7
<1>4. ASSUME NEW i \in Inodes PROVE g[i] \in FilesTo(used)
  <2>1. disk[i] \in FilesTo(used) /\ synced[i] \in FilesTo(used) /\ synced[i].lines \in Seq(LinesTo(used))
    BY FileFields
  <2>2. Torn \in LinesTo(used)
    BY DEF LinesTo
  <2>3. Append(synced[i].lines, Torn) \in Seq(LinesTo(used))
    <3> HIDE DEF Torn
    <3> QED BY <2>1, <2>2
  <2>4. [lines |-> Append(synced[i].lines, Torn), open |-> TRUE] \in FilesTo(used)
    BY <2>3 DEF FilesTo
  <2> QED BY <1>1, <2>1, <2>4 DEF Fallback
<1>5. g \in [Inodes -> FilesTo(used)]
  BY <1>1, <1>4
<1> HIDE DEF g
<1>6. PICK d \in dirs : d = dir'
  BY <1>2
<1>7. d \in Dirs /\ SeenFrom(d) /\ FallsBack(d) /\ (x = 0 => d = dir)
  BY DEF LossInv
<1>8. found' \in VerdictsTo(used) /\ found'.chain \in Seq(Nat)
  <2> DEFINE v == found'
  <2>1. v \in VerdictsTo(used)
    BY <1>2, <1>5, <1>6, <1>7, VerifiedTypes DEF g
  <2> HIDE DEF v
  <2>2. v.chain \in Seq(Nat)
    BY <2>1, VerdictChain
  <2> QED BY <2>1, <2>2 DEF v
<1>9. Begins(found'.chain, found.chain) /\ Safe <= Len(found'.chain)
  <2>1. CASE d.cur = 0
    <3>1. found' = Start /\ acked = {}
      BY <1>2, <1>6, <1>7, <2>1 DEF Analyze, FallsBack
    <3>2. found'.chain = <<>> /\ Len(found'.chain) = 0 /\ Safe = 0
      <4>1. Safe \in Nat /\ Safe = LastIn(found.chain, {})
        BY <3>1, SafeIs
      <4>2. IsLast(LastIn(found.chain, {}), found.chain, {})
        BY LastInIsLast
      <4>3. LastIn(found.chain, {}) = 0
        BY <4>2 DEF IsLast
      <4> QED BY <3>1, <4>1, <4>3, NoChain
    <3>3. Len(found.chain) \in Nat
      BY VerdictFields
    <3> QED BY <3>2, <3>3 DEF Begins
  <2>2. CASE d.cur # 0 /\ d.cur = x
    <3> DEFINE v == Verified(d, Cut)[M][x]
    <3>1. /\ Verified(d, disk)[M][x] = found /\ KeptIn(v) /\ x \in Inodes
          /\ v.ok \/ synced[x].lines = disk[x].lines
      BY <1>7, <2>2 DEF SeenFrom
    <3>2. found' = Verified(d, g)[M][x]
      BY <1>2, <1>6, <2>2 DEF Analyze, g
    <3>3. \A i \in Inodes : i # x => Cut[i] = disk[i] /\ g[i] = Cut[i]
      BY <1>3 DEF Cut
    <3>4. Cut[x] = synced[x]
      BY <3>1 DEF Cut
    <3>5. /\ used \in 0..MaxEntries /\ d \in Dirs /\ disk \in [Inodes -> FilesTo(used)]
          /\ MaxEntries \in 0..MaxEntries /\ Cut \in [Inodes -> FilesTo(used)]
          /\ KeptIn(found)
      BY <1>7
    <3> HIDE TypeFacts, LossFacts
    <3>6. CASE g[x].lines = disk[x].lines
      <4>1. \A i \in Inodes : g[i].lines = disk[i].lines
        BY <1>3, <3>6
      <4>2. Verified(d, g)[MaxEntries][x] = Verified(d, disk)[MaxEntries][x]
        <5> HIDE DEF x
        <5> QED BY <3>1, <3>5, <4>1, SameLines
      <4> QED BY <3>1, <3>2, <3>5, <4>2 DEF KeptIn
    <3>7. CASE g[x].lines = synced[x].lines
      <4>1. \A i \in Inodes : g[i].lines = Cut[i].lines
        BY <3>3, <3>4, <3>7
      <4>2. Verified(d, g)[MaxEntries][x] = Verified(d, Cut)[MaxEntries][x]
        <5> HIDE DEF x
        <5> QED BY <3>1, <3>5, <4>1, SameLines
      <4> QED BY <3>1, <3>2, <4>2 DEF KeptIn
    <3>8. CASE /\ g[x].lines = Append(synced[x].lines, Torn)
               /\ Len(disk[x].lines) > Len(synced[x].lines)
      <4>1. v.ok
        <5>1. Len(synced[x].lines) \in Nat
          BY <3>1, TypeFacts, FileFields
        <5> QED BY <3>1, <3>8, <5>1
      <4>2. /\ Torn \in LinesTo(used) /\ Torn.target = NoName /\ Torn.kind = "torn"
            /\ Cut[x].lines \in Seq(LinesTo(used)) /\ g[x].lines = Append(Cut[x].lines, Torn)
        <5>1. Torn \in LinesTo(used) /\ Torn.target = NoName /\ Torn.kind = "torn"
          BY DEF LinesTo, Torn, NoName
        <5>2. Cut[x] \in FilesTo(used) /\ used \in Nat
          BY <3>1, <3>5, TypeFacts
        <5> QED BY <3>4, <3>8, <5>1, <5>2, FileFields
      <4>3. Verified(d, g)[MaxEntries][x] = Feed(Verified(d, Cut)[MaxEntries][x], Torn)
        <5>1. \A i \in Inodes : i # x => g[i] = Cut[i]
          BY <3>3
        <5> HIDE DEF x, Torn
        <5> QED BY <3>1, <3>5, <4>1, <4>2, <5>1, LineMore
      <4>4. v \in VerdictsTo(used)
        BY <3>1, <3>5, VerifiedTypes
      <4> HIDE DEF v
      <4>5. Feed(v, Torn).chain = v.chain
        BY <4>2, <4>4 DEF Feed, VerdictsTo
      <4> QED BY <3>1, <3>2, <4>3, <4>5 DEF KeptIn, v
    <3> QED BY <1>3, <2>2, <3>6, <3>7, <3>8
  <2>3. CASE d.cur # 0 /\ d.cur # x
    <3> DEFINE i == d.cur
               v == Analyze(d, disk)
    <3>1. /\ v.ok /\ KeptIn(v) /\ Len(v.chain) < Len(found.chain) /\ i \in Inodes
          /\ v = Verified(d, disk)[M][i] /\ x # 0 /\ x \in Inodes
          /\ Verified(d, disk)[M][x] = found
      BY <1>7, <2>3 DEF SeenFrom, FallsBack, Analyze, Dirs
    <3>2. Len(v.chain) <= M
      BY <1>7, VerifiedTypes, ChainLength
    <3>3. /\ used \in 0..MaxEntries /\ d \in Dirs /\ disk \in [Inodes -> FilesTo(used)]
          /\ MaxEntries \in 0..MaxEntries
          /\ Verified(d, disk)[MaxEntries][i].ok
          /\ Len(Verified(d, disk)[MaxEntries][i].chain) <= MaxEntries
          /\ Len(Verified(d, disk)[MaxEntries][i].chain) < Len(Verified(d, disk)[MaxEntries][x].chain)
      BY <1>7, <3>1, <3>2
    <3>4. Verified(d, g)[MaxEntries][i] = Verified(d, disk)[MaxEntries][i]
      <4> HIDE TypeFacts, LossFacts
      <4> HIDE DEF x, i, v
      <4> QED BY <1>3, <3>1, <3>3, ShorterChains DEF x
    <3>5. found' = v
      BY <1>2, <1>6, <2>3, <3>1, <3>4 DEF Analyze, g
    <3> QED BY <3>1, <3>5 DEF KeptIn
  <2> QED BY <2>1, <2>2, <2>3
<1>10. Kept /\ Safe' = Safe
  BY <1>2, <1>8, <1>9, ShrunkKept
<1>11. dir'.cur = 0 => acked' = {}
  BY <1>2, <1>6, <1>7 DEF FallsBack
<1>12. ASSUME NEW e \in dirs' PROVE SeenFrom(e)' /\ FallsBack(e)'
  BY <1>2, <1>5, <1>6, <1>7, <1>11, Settled DEF g
<1>13. RotationKept' /\ NotAcked'
  BY <1>2 DEF RotationKept, NotAcked
<1> QED BY <1>2, <1>10, <1>12, <1>13 DEF LossInv

LEMMA InitKept == Init => LossInv /\ Promise!Init
<1> SUFFICES ASSUME Init PROVE LossInv /\ Promise!Init
  OBVIOUS
<1>1. /\ dir = NoDir /\ dirs = {NoDir} /\ acked = {} /\ pc = "down" /\ found = Start
      /\ dir.cur = 0 /\ dir.tmp = 0
  BY DEF Init, NoDir
<1>2. LossInv
  BY <1>1 DEF LossInv, RotationKept, NotAcked, SeenFrom, FallsBack
<1>3. found.chain = <<>> /\ Safe = 0 /\ era = 0
  BY <1>1, NoChain, SafeIs DEF Init
<1> QED BY <1>2, <1>3 DEF Promise!Init

LEMMA StepKept ==
  ASSUME LogInv, LogInv', LossInv, PowerLoss => Writeback,
         Open \/ Append1 \/ Rotate \/ Crash \/ CrashInWrite \/ PowerLoss
  PROVE  LossInv' /\ Kept
<1>1. CASE Open
  BY <1>1, OpenKept
<1>2. CASE Begin \/ Crash \/ Reopen \/ ReopenFails \/ FsyncFails
  BY <1>2, QuietSteps
<1>3. CASE Link
  BY <1>3, LinkKept
<1>4. CASE Create
  BY <1>4, CreateKept
<1>5. CASE Fill
  BY <1>5, FillKept
<1>6. CASE Rename
  BY <1>6, RenameKept
<1>7. CASE RotateFails
  BY <1>7, RotateFailsKept
<1>8. CASE Write
  BY <1>8, WriteKept
<1>9. CASE WriteFails \/ CrashInWrite
  BY <1>9, BrokenWriteKept
<1>10. CASE Fsync
  BY <1>10, FsyncKept
<1>11. CASE PowerLoss /\ Writeback
  BY <1>11, PowerLossKept
<1> QED
  BY <1>1, <1>2, <1>3, <1>4, <1>5, <1>6, <1>7, <1>8, <1>9, <1>10, <1>11
     DEF Append1, Rotate

(* A step of the log is one of its promise; only MoveAside starts over. *)
Promised == /\ [Promise!Next]_<<found.chain, Safe, era>>
            /\ era' # era => MoveAside
            /\ AckedAreFound => AckedAreFound'

LEMMA NextKept ==
  LogInv /\ LogInv' /\ LossInv /\ [Next]_vars /\ [PowerLoss => Writeback]_vars
    => LossInv' /\ Promised
<1> SUFFICES ASSUME LogInv, LogInv', LossInv, [Next]_vars, [PowerLoss => Writeback]_vars
             PROVE  LossInv' /\ Promised
  OBVIOUS
<1>1. CASE UNCHANGED vars
  <2>1. /\ dir' = dir /\ dirs' = dirs /\ pc' = pc /\ entry' = entry /\ disk' = disk
        /\ synced' = synced /\ found' = found /\ acked' = acked /\ era' = era
    BY <1>1 DEF vars
  <2>2. Kept
    BY <2>1, SameKept
  <2>3. ASSUME NEW d \in dirs' PROVE SeenFrom(d)' /\ FallsBack(d)'
    BY <2>1, Quiet DEF LossInv
  <2>4. Promised
    BY <2>1, <2>2 DEF Kept, Promised, Promise!Next
  <2> QED BY <2>1, <2>3, <2>4 DEF LossInv, RotationKept, NotAcked
<1>2. CASE MoveAside
  <2>1. LossInv' /\ Promise!StartOver /\ AckedAreFound'
    BY <1>2, MoveAsideKept
  <2> QED BY <1>2, <2>1 DEF Promised, Promise!Next
<1>3. CASE /\ ~ UNCHANGED vars /\ UNCHANGED era
           /\ Open \/ Append1 \/ Rotate \/ Crash \/ CrashInWrite \/ PowerLoss
  <2>1. LossInv' /\ Kept
    BY <1>3, StepKept
  <2> QED BY <1>3, <2>1 DEF Kept, Promised, Promise!Next
<1> QED BY <1>1, <1>2, <1>3 DEF Next

(* The log implements its promise: whatever fails, crashes or loses power, at *)
(* any step of an append or a rotation, what a verification finds changes only *)
(* at its end, no entry is lost once an append of it, or of a later one, has  *)
(* returned, and it is another log only when the operator has moved this one  *)
(* aside.  A power loss must find the files that are not written any more on  *)
(* disk.                                                                     *)
THEOREM KeepsItsPromise ==
  ASSUME Writeback PROVE Spec => KeepsPromise /\ [][era' # era => MoveAside]_vars
<1>1. Init => LossInv /\ Promise!Init
  BY InitKept
<1>2. LogInv /\ LogInv' /\ LossInv /\ [Next]_vars => LossInv' /\ Promised
  BY NextKept
<1> QED BY <1>1, <1>2, WriterKnows, PTL DEF Spec, KeepsPromise, Promise!Spec, Promised

(* No acknowledged entry is lost, be it the last or not: all are found when   *)
(* the log is verified, after any crashes, lost writes and undone rotations. *)
THEOREM AckedStay == ASSUME Writeback PROVE Spec => []AckedAreFound
<1>1. Init => LossInv /\ AckedAreFound
  BY InitKept DEF Init, AckedAreFound
<1>2. LogInv /\ LogInv' /\ LossInv /\ [Next]_vars => LossInv' /\ (AckedAreFound => AckedAreFound')
  BY NextKept DEF Promised
<1> QED BY <1>1, <1>2, WriterKnows, PTL DEF Spec

(* Where the machine keeps its power both hold of any kernel: a process that  *)
(* dies, at any system call, takes nothing with it.                          *)
THEOREM CrashesLoseNothing == Spec /\ [][~ PowerLoss]_vars => KeepsPromise /\ []AckedAreFound
<1>1. Init => LossInv /\ Promise!Init /\ AckedAreFound
  BY InitKept DEF Init, AckedAreFound
<1>2. /\ LogInv /\ LogInv' /\ LossInv /\ [Next]_vars /\ [~ PowerLoss]_vars => LossInv' /\ Promised
      /\ Promised => (AckedAreFound => AckedAreFound')
  BY NextKept DEF Promised
<1> QED BY <1>1, <1>2, WriterKnows, PTL DEF Spec, KeepsPromise, Promise!Spec, Promised

=============================================================================
