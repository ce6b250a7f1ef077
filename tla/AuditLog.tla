------------------------------ MODULE AuditLog ------------------------------
(***************************************************************************)
(* The builder's (and the hub's) audit log on disk: fleet/audit.mjs.       *)
(*                                                                         *)
(* One writer appends lines to the current file; a full file gets a second *)
(* name and is replaced by a new one whose first entry names it.  `append` *)
(* is one synchronous call, but it is not atomic for a crash, so it is     *)
(* split at its system calls.  A process crash keeps what was written, a   *)
(* power loss only what was synced.  The single-writer lock is assumed.    *)
(*                                                                         *)
(* File system: names reach the disk in the order they were made, and an   *)
(* fsync makes those before it durable (a journaling file system).         *)
(***************************************************************************)
EXTENDS Integers, Sequences, FiniteSets, SequencesExt

CONSTANTS Inodes,      \* files (a set of numbers > 0; freed ones are reused)
          Names,       \* rotated names (a set of numbers > 0)
          MaxLines,    \* lines a file holds before it is rotated (maxBytes)
          MaxEntries,  \* bound on the entries ever written
          Writeback    \* files no longer written reach the disk in time

ASSUME LogConstants == /\ Inodes \subseteq Nat \ {0}
                       /\ Names \subseteq Nat \ {0}
                       /\ IsFiniteSet(Inodes) /\ IsFiniteSet(Names)
                       /\ MaxLines \in Nat \ {0}
                       /\ MaxEntries \in Nat
                       /\ Writeback \in BOOLEAN

VARIABLES
  dir,     \* the directory: current file, `.rotating`, rotated names
  dirs,    \* the directories a power loss may leave
  disk,    \* content of the files, as the operating system sees it
  synced,  \* content of the files at their last fsync
  pc,      \* how far the writer is
  fd,      \* the file it has open (0: none)
  mem,     \* its cached state {hash, count, size, fileLines, torn, invalid}
  entry,   \* the entry it is writing
  used,    \* entries ever written, for fresh hashes
  acked,   \* entries whose append returned since the log was started over
  found,   \* observer: what verifying the files on disk finds
  era      \* observer: changes when an operator moves the log aside, only then

vars == <<dir, dirs, disk, synced, pc, fd, mem, entry, used, acked, found, era>>
fileVars == <<disk, synced>>

(***************************************************************************)
(* Lines, files, directories.  An entry's hash is its number, `prev` the   *)
(* hash it chains onto; a rotate entry names the file before (`target`).   *)
(***************************************************************************)
Genesis == 0
NoName  == 0

Entry(n, prev, target) == [kind |-> "entry", n |-> n, prev |-> prev, target |-> target]
Torn == [kind |-> "torn", n |-> 0, prev |-> 0, target |-> 0]
Glued == [kind |-> "glued", n |-> 0, prev |-> 0, target |-> 0]
Lines == {Torn, Glued} \cup [kind : {"entry"}, n : 1..MaxEntries,
                             prev : 0..MaxEntries, target : Names \cup {NoName}]

\* `open`: the last line has no newline.
Empty == [lines |-> <<>>, open |-> FALSE]
Size(f) == <<Len(f.lines), f.open>>

NoRotated == [k \in Names |-> 0]
NamedInodes(d) == {d.cur, d.tmp} \cup {d.rotated[k] : k \in Names}

(***************************************************************************)
(* Verification: chainFiles, createVerifier, analyzeChain.                 *)
(***************************************************************************)
StartsRotated(f) == Len(f.lines) > 0 /\ f.lines[1].kind = "entry" /\ f.lines[1].target # NoName

Before(d, content, i) == d.rotated[content[i].lines[1].target]

\* `feed`: one torn line is tolerated in a gap, and none at a file's end
\* except in the last line written to it.
Feed(v, l) ==
  IF ~ v.ok THEN v
  ELSE CASE l.kind = "torn" /\ ~ v.pending      -> [v EXCEPT !.pending = TRUE]
         [] l.kind = "entry" /\ l.prev = v.head -> [ok |-> TRUE, head |-> l.n, pending |-> FALSE,
                                                    chain |-> Append(v.chain, l.n)]
         [] OTHER                               -> [v EXCEPT !.ok = FALSE]

Start == [ok |-> TRUE, head |-> Genesis, pending |-> FALSE, chain |-> <<>>]
Broken == [Start EXCEPT !.ok = FALSE]

\* `result` with tailOk: a torn line at the end of a file is passed over.
Passed(v) == [v EXCEPT !.pending = FALSE]

\* scanFile: the lines of one file, after those of the file before.
Read(v, lines) ==
  LET after[n \in 0..Len(lines)] ==
        IF n = 0 THEN Passed(v) ELSE Feed(after[n - 1], lines[n])
  IN  after[Len(lines)]

\* The chain that ends with file i, at most k files before it: every file but
\* the oldest names, in its first entry, the one before it.
Verified(d, content) ==
  LET upTo[k \in 0..MaxEntries] ==
        [i \in Inodes |->
           IF ~ StartsRotated(content[i]) THEN Read(Start, content[i].lines)
           ELSE IF k = 0 \/ Before(d, content, i) = 0 THEN Broken
           ELSE Read(upTo[k - 1][Before(d, content, i)], content[i].lines)]
  IN  upTo

\* As each file that names another has an entry to do it, there are no more of
\* them than entries, unless they go round in a circle.
Analyze(d, content) ==
  IF d.cur = 0 THEN Start ELSE Verified(d, content)[MaxEntries][d.cur]

\* computeState: what is found in a chain whose current file is f.
Computed(v, f) ==
  [hash |-> v.head, count |-> Len(v.chain), size |-> Size(f),
   fileLines |-> Len(f.lines), torn |-> f.open, invalid |-> ~ v.ok]

NoMem == [hash |-> 0, count |-> 0, size |-> <<0, FALSE>>, fileLines |-> 0,
          torn |-> FALSE, invalid |-> TRUE]

(***************************************************************************)
(* What a write of line `l` can leave in file f.  A line that follows an   *)
(* unfinished one starts with a newline if the writer knows of it (`torn`) *)
(* and is glued to it otherwise.  Any prefix may be written.               *)
(***************************************************************************)
Whole(f, l, torn) ==
  IF f.open /\ ~ torn
  THEN [lines |-> Append(Front(f.lines), Glued), open |-> FALSE]
  ELSE [lines |-> Append(f.lines, l), open |-> FALSE]

Parts(f, l, torn) ==
  {f, [Whole(f, l, torn) EXCEPT !.open = TRUE]}
    \cup IF f.open /\ ~ torn THEN {}
         ELSE {[lines |-> Append(f.lines, Torn), open |-> TRUE]}
    \cup IF f.open /\ torn THEN {[f EXCEPT !.open = FALSE]} ELSE {}

-----------------------------------------------------------------------------
NoDir == [cur |-> 0, tmp |-> 0, rotated |-> NoRotated]

Init ==
  /\ dir = NoDir
  /\ dirs = {NoDir}
  /\ disk = [i \in Inodes |-> Empty]
  /\ synced = [i \in Inodes |-> Empty]
  /\ pc = "down"
  /\ fd = 0
  /\ mem = NoMem
  /\ entry = 0
  /\ used = 0
  /\ acked = {}
  /\ found = Start
  /\ era = 0

Observe == found' = Analyze(dir', disk')

\* A directory change the disk may not have yet.
SetDir(d) == dir' = d /\ dirs' = dirs \cup {d}

\* A file nobody has a name for or holds open.
Fresh == {i \in Inodes : i # fd /\ \A d \in dirs : i \notin NamedInodes(d)}

\* recoverRotation: finish or drop a rotation that crashed.
Recovered(d) == IF d.tmp = 0 THEN d
                ELSE IF d.cur # 0 THEN [d EXCEPT !.tmp = 0]
                ELSE [d EXCEPT !.cur = d.tmp, !.tmp = 0]

\* openAudit: open (or create) the current file and verify the chain.
Open ==
  /\ pc = "down"
  /\ LET r == Recovered(dir)
     IN  IF r.cur # 0
         THEN /\ dir' = r
              /\ dirs' = IF dir.tmp = 0 THEN dirs ELSE {r}
              /\ UNCHANGED fileVars
         ELSE \E i \in Fresh :
                /\ \A j \in Fresh : i <= j
                /\ dir' = [r EXCEPT !.cur = i]
                /\ dirs' = dirs \cup {dir'}
                /\ disk' = [disk EXCEPT ![i] = Empty]
                /\ synced' = [synced EXCEPT ![i] = Empty]
  /\ Observe
  /\ fd' = dir'.cur
  /\ mem' = Computed(found', disk'[fd'])
  /\ pc' = "idle"
  /\ UNCHANGED <<entry, used, acked>>

\* The cached state is never checked against the file.
Ensured_Cached == mem

\* `ensure`: the cached state, unless the file is not what was last written.
Ensured == IF mem.size = Size(disk[fd]) THEN mem ELSE Computed(found, disk[fd])

\* append: the checks, and the choice whether the file is full.  A removed
\* file (AUDIT_DETACHED) or an invalid chain refuses it.
Begin ==
  /\ pc = "idle"
  /\ used < MaxEntries
  /\ dir.cur = fd
  /\ mem' = Ensured
  /\ IF mem'.invalid THEN UNCHANGED <<pc, used, entry>>
     ELSE /\ pc' = IF mem'.fileLines > 0 /\ Len(disk[fd].lines) >= MaxLines
                   THEN "link" ELSE "write"
          /\ used' = used + 1
          /\ entry' = used + 1
  /\ UNCHANGED <<dir, dirs, fileVars, fd, acked, found>>

\* linkRotated: the full file gets a second name, one that is free.
Link ==
  /\ pc = "link"
  /\ \E k \in Names :
       /\ dir.rotated[k] = 0
       /\ \A j \in Names : dir.rotated[j] = 0 => k <= j
       /\ SetDir([dir EXCEPT !.rotated[k] = fd])
  /\ pc' = "create"
  /\ UNCHANGED <<fileVars, fd, mem, entry, used, acked>>
  /\ Observe

\* The name that this rotation made.
LinkedName == CHOOSE k \in Names : /\ dir.rotated[k] = fd
                                   /\ \A j \in Names : dir.rotated[j] = fd => j <= k

\* `.rotating` is created and being written.
Create ==
  /\ pc = "create"
  /\ \E i \in Fresh :
       /\ \A j \in Fresh : i <= j
       /\ SetDir([dir EXCEPT !.tmp = i])
       /\ disk' = [disk EXCEPT ![i] = [lines |-> <<Torn>>, open |-> TRUE]]
       /\ synced' = [synced EXCEPT ![i] = Empty]
  /\ pc' = "fill"
  /\ UNCHANGED <<fd, mem, entry, used, acked>>
  /\ Observe

\* Its rotate entry is complete and synced.
Fill ==
  /\ pc = "fill"
  /\ LET f == [lines |-> <<Entry(entry, mem.hash, LinkedName)>>, open |-> FALSE]
     IN  /\ disk' = [disk EXCEPT ![dir.tmp] = f]
         /\ synced' = [synced EXCEPT ![dir.tmp] = f]
  /\ dirs' = {dir}
  /\ pc' = "rename"
  /\ UNCHANGED <<dir, fd, mem, entry, used, acked>>
  /\ Observe

Rename ==
  /\ pc = "rename"
  /\ SetDir([dir EXCEPT !.cur = dir.tmp, !.tmp = 0])
  /\ pc' = "reopen"
  /\ UNCHANGED <<fileVars, fd, mem, entry, used, acked>>
  /\ Observe

\* The directory is synced and the new file opened; the entry that did not
\* fit follows the rotate entry.
Reopen ==
  /\ pc = "reopen"
  /\ dirs' = {dir}
  /\ fd' = dir.cur
  /\ mem' = [hash |-> entry, count |-> mem.count + 1, size |-> Size(disk[dir.cur]),
             fileLines |-> 1, torn |-> FALSE, invalid |-> FALSE]
  /\ IF used < MaxEntries
     THEN pc' = "write" /\ used' = used + 1 /\ entry' = used + 1
     ELSE pc' = "idle" /\ UNCHANGED <<used, entry>>
  /\ UNCHANGED <<dir, fileVars, acked, found>>

\* The new file cannot be opened: this instance refuses to write any more.
ReopenFails ==
  /\ pc = "reopen"
  /\ dirs' = {dir}
  /\ pc' = "broken"
  /\ fd' = 0
  /\ UNCHANGED <<dir, fileVars, mem, entry, used, acked, found>>

\* A system call of `rotate` before or at the rename fails: undone.
RotateFails ==
  /\ pc \in {"link", "create", "fill", "rename"}
  /\ SetDir([dir EXCEPT !.tmp = 0,
                        !.rotated = IF pc = "link" THEN @ ELSE [@ EXCEPT ![LinkedName] = 0]])
  /\ pc' = "idle"
  /\ UNCHANGED <<fileVars, fd, mem, entry, used, acked>>
  /\ Observe

Write ==
  /\ pc = "write"
  /\ disk' = [disk EXCEPT ![fd] = Whole(@, Entry(entry, mem.hash, NoName), mem.torn)]
  /\ pc' = "fsync"
  /\ UNCHANGED <<dir, dirs, synced, fd, mem, entry, used, acked>>
  /\ Observe

\* No space, or an I/O error: part of the line is in the file.
WriteFails ==
  /\ pc = "write"
  /\ \E f \in Parts(disk[fd], Entry(entry, mem.hash, NoName), mem.torn) :
       disk' = [disk EXCEPT ![fd] = f]
  /\ pc' = "idle"
  /\ UNCHANGED <<dir, dirs, synced, fd, mem, entry, used, acked>>
  /\ Observe

\* The entry before is reported as the one that was appended.
Fsync_WrongHash ==
  /\ pc = "fsync"
  /\ synced' = [synced EXCEPT ![fd] = disk[fd]]
  /\ dirs' = {dir}
  /\ mem' = [mem EXCEPT !.hash = entry, !.count = @ + 1, !.size = Size(disk[fd]),
                        !.fileLines = @ + 1, !.torn = FALSE]
  /\ acked' = acked \cup {mem.hash}
  /\ pc' = "idle"
  /\ UNCHANGED <<dir, disk, fd, entry, used, found>>

\* `append` returns before the entry is durable.
Fsync_Skipped ==
  /\ pc = "fsync"
  /\ mem' = [mem EXCEPT !.hash = entry, !.count = @ + 1, !.size = Size(disk[fd]),
                        !.fileLines = @ + 1, !.torn = FALSE]
  /\ acked' = acked \cup {entry}
  /\ pc' = "idle"
  /\ UNCHANGED <<dir, dirs, fileVars, fd, entry, used, found>>

\* The entry is durable and `append` returns.
Fsync ==
  /\ pc = "fsync"
  /\ synced' = [synced EXCEPT ![fd] = disk[fd]]
  /\ dirs' = {dir}
  /\ mem' = [mem EXCEPT !.hash = entry, !.count = @ + 1, !.size = Size(disk[fd]),
                        !.fileLines = @ + 1, !.torn = FALSE]
  /\ acked' = acked \cup {entry}
  /\ pc' = "idle"
  /\ UNCHANGED <<dir, disk, fd, entry, used, found>>

FsyncFails ==
  /\ pc = "fsync"
  /\ pc' = "idle"
  /\ UNCHANGED <<dir, dirs, fileVars, fd, mem, entry, used, acked, found>>

Down == pc' = "down" /\ fd' = 0 /\ mem' = NoMem

\* The process dies (or closes the log): what was written stays.
Crash ==
  /\ pc # "down"
  /\ Down
  /\ UNCHANGED <<dir, dirs, fileVars, entry, used, acked, found>>

\* The process dies in the middle of the write.
CrashInWrite ==
  /\ pc = "write"
  /\ \E f \in Parts(disk[fd], Entry(entry, mem.hash, NoName), mem.torn) :
       disk' = [disk EXCEPT ![fd] = f]
  /\ Down
  /\ UNCHANGED <<dir, dirs, synced, entry, used, acked>>
  /\ Observe

\* The machine loses power: a file falls back to what was synced, with all,
\* none or part of the rest, the directory to one it may have on disk.  With
\* Writeback the kernel has written the files that are not open by then.
Fallback(i, keep) ==
  IF keep = "all" \/ (Writeback /\ i # dir.cur) THEN disk[i]
  ELSE IF keep = "part" /\ Len(disk[i].lines) > Len(synced[i].lines)
       THEN [lines |-> Append(synced[i].lines, Torn), open |-> TRUE]
       ELSE synced[i]

PowerLoss ==
  /\ Down
  /\ \E keep \in {"all", "none", "part"} :
       disk' = [i \in Inodes |-> Fallback(i, keep)]
  /\ synced' = disk'
  /\ dir' \in dirs
  /\ dirs' = {dir'}
  /\ UNCHANGED <<entry, used, acked>>
  /\ Observe

\* The operator moves the log aside to start a new chain.
MoveAside ==
  /\ pc \in {"down", "idle", "broken"}
  /\ dir.cur # 0
  /\ dir' = [dir EXCEPT !.cur = 0]
  /\ dirs' = {dir'}
  /\ acked' = {}
  /\ era' = 1 - era
  /\ UNCHANGED <<fileVars, pc, fd, mem, entry, used>>
  /\ Observe

Rotate == Link \/ Create \/ Fill \/ Rename \/ Reopen \/ ReopenFails \/ RotateFails
Append1 == Begin \/ Write \/ WriteFails \/ Fsync \/ FsyncFails

Next == \/ /\ Open \/ Append1 \/ Rotate \/ Crash \/ CrashInWrite \/ PowerLoss
           /\ UNCHANGED era
        \/ MoveAside

Spec == Init /\ [][Next]_vars

-----------------------------------------------------------------------------
Files == [lines : Seq(Lines), open : BOOLEAN]
Dirs  == [cur : Inodes \cup {0}, tmp : Inodes \cup {0}, rotated : [Names -> Inodes \cup {0}]]

\* Every variable has its type; what an append or a rotation has open until
\* the rename is the current file.
TypeOK ==
  /\ dir \in Dirs /\ dirs \subseteq Dirs /\ dir \in dirs
  /\ disk \in [Inodes -> Files] /\ synced \in [Inodes -> Files]
  /\ pc \in {"down", "idle", "link", "create", "fill", "rename", "reopen",
             "write", "fsync", "broken"}
  /\ fd \in Inodes \cup {0}
  /\ mem \in [hash : 0..MaxEntries, count : Nat, size : Nat \X BOOLEAN,
              fileLines : Nat, torn : BOOLEAN, invalid : BOOLEAN]
  /\ entry \in 0..MaxEntries /\ used \in 0..MaxEntries
  /\ acked \subseteq 1..MaxEntries
  /\ found = Analyze(dir, disk)
  /\ era \in {0, 1}
  /\ pc \in {"link", "create", "fill", "rename", "write", "fsync"} => fd = dir.cur /\ fd # 0

\* The log implements its promise: an acknowledged entry and all before it
\* survive every crash, power loss, failed write and half-done rotation, and
\* stay where they are in the chain, until an operator moves the log aside.
Safe == SelectLastInSeq(found.chain, LAMBDA n : n \in acked)
Promise == INSTANCE AuditChain WITH chain <- found.chain, safe <- Safe, era <- era
KeepsPromise == Promise!Spec

\* The head the writer keeps in memory and hands out is the head on disk,
\* whenever the file has the size it last wrote (`ensure`): an append never
\* forks its own chain.
HeadIsCurrent ==
  pc \in {"idle", "write"} /\ dir.cur = fd /\ mem.size = Size(disk[fd])
    => /\ mem.invalid = ~ found.ok
       /\ mem.hash = found.head
       /\ mem.count = Len(found.chain)
       /\ mem.torn = disk[fd].open

\* Every acknowledged entry is found when the log is verified, whatever
\* crashed ("Rotation is crash-safe").
AckedAreFound == acked \subseteq Range(found.chain)

\* No crash or error damages the chain: it verifies, so the next append is
\* not refused ("a torn tail is the one tolerated defect").
ChainVerifies == found.ok

=============================================================================
