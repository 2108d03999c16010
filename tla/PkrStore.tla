------------------------------ MODULE PkrStore ------------------------------
(***************************************************************************)
(* The SQLite authority of src/src/store.ts: commands with idempotent      *)
(* replay, the event log and its compaction into archives, snapshots and   *)
(* their restoration into a path without a store.                          *)
(*                                                                         *)
(* One transaction is one step.  Everything the code does outside a        *)
(* transaction is a step of its own: a compaction chooses the rows it      *)
(* archives before its transaction begins, and a snapshot is eight queries *)
(* (listEvents is two of them) between which any process may commit.       *)
(*                                                                         *)
(* The records are one record here, which every command revises once, and  *)
(* whose revision stands for its content; journal entries of external      *)
(* effects are in PkrExecution.                                            *)
(***************************************************************************)
EXTENDS Integers, FiniteSets

CONSTANTS
    Commands,   \* command ids
    Contents,   \* contents a command id may be used with
    NoContent,  \* the command was not committed
    Procs,      \* processes that use the store
    Keeps,      \* values of keepRecentEvents
    MaxEvents,  \* events of one command, at most
    MaxSeq,     \* bound on the length of the history
    Alone       \* operations the operator does not overlap (see below)

ASSUME NoContentAssumption == NoContent \notin Contents
ASSUME NonEmptyAssumption == Commands # {} /\ Contents # {}
ASSUME KeepsAssumption == Keeps \subseteq Nat \ {0}
ASSUME BoundsAssumption == MaxEvents \in Nat \ {0} /\ MaxSeq \in Nat
ASSUME AloneAssumption == Alone \subseteq {"compact", "snapshot", "restore"}

VARIABLES
    exists,     \* there is a database at the path
    commands,   \* the commands table
    rev,        \* the revision of the record
    sequence,   \* metadata project_sequence
    live,       \* the events table
    archives,   \* the event_archives table, each row the events it holds
    retention,  \* metadata retention_policy; 0 before the first compaction
    snapshot,   \* the snapshot file, as a set of at most one
    pend        \* what each process is in the middle of

database == <<exists, commands, rev, sequence, live, archives, retention>>
vars == <<exists, commands, rev, sequence, live, archives, retention, snapshot, pend>>

-----------------------------------------------------------------------------
(* Types.                                                                  *)

Event == [seq : Nat \ {0}, cmd : Commands, rev : Nat \ {0}]

\* A row of commands: the content's digest and the result's event range.
Result == [content : Contents \cup {NoContent}, first : Nat, last : Nat]
NotCommitted == [content |-> NoContent, first |-> 0, last |-> 0]

\* The payload of a snapshot.  The digest covers records and events.
Snapshot == [commands  : [Commands -> Result],
             retention : Keeps \cup {0},
             sequence  : Nat,
             digest    : [rev : Nat, events : SUBSET Event],
             rev       : Nat,
             events    : SUBSET Event]

\* n, rows: how many events a compaction will archive, and which.  n, half, got:
\* the queries a snapshot has done, the archives its listEvents has read, and the
\* payload so far.
Pending == [op      : {"idle", "command", "compact", "snapshot", "restore"},
            cmd     : Commands,
            content : Contents,
            rev     : Nat,
            rows    : SUBSET Event,
            keep    : Keeps \cup {0},
            n       : Nat,
            half    : SUBSET (SUBSET Event),
            got     : Snapshot]

TypeOK ==
    /\ exists \in BOOLEAN
    /\ commands \in [Commands -> Result]
    /\ rev \in Nat
    /\ sequence \in Nat
    /\ live \subseteq Event
    /\ archives \subseteq SUBSET Event
    /\ retention \in Keeps \cup {0}
    /\ snapshot \subseteq Snapshot
    /\ pend \in [Procs -> Pending]

-----------------------------------------------------------------------------
(* Initial state: prepareStore has created an empty store.                 *)

NoCommands == [c \in Commands |-> NotCommitted]
EmptySnapshot ==
    [commands |-> NoCommands, retention |-> 0, sequence |-> 0,
     digest |-> [rev |-> 0, events |-> {}], rev |-> 0, events |-> {}]
Idle ==
    [op |-> "idle", cmd |-> CHOOSE c \in Commands : TRUE,
     content |-> CHOOSE d \in Contents : TRUE, rev |-> 0, rows |-> {},
     keep |-> 0, n |-> 0, half |-> {}, got |-> EmptySnapshot]

EmptyStore ==
    /\ commands' = NoCommands
    /\ rev' = 0
    /\ sequence' = 0
    /\ live' = {}
    /\ archives' = {}
    /\ retention' = 0

Init ==
    /\ exists = TRUE
    /\ commands = NoCommands
    /\ rev = 0
    /\ sequence = 0
    /\ live = {}
    /\ archives = {}
    /\ retention = 0
    /\ snapshot = {}
    /\ pend = [p \in Procs |-> Idle]

-----------------------------------------------------------------------------
(* The logical history.                                                    *)

Listed(ars, rows) == (UNION ars) \cup rows

Seqs(E) == {e.seq : e \in E}

\* listEvents, of archive rows and live rows read one after the other, throws
\* unless the events of both form one interval, none of them twice.
Contiguous(ars, rows) ==
    /\ \A A, B \in ars : A # B => Seqs(A) \cap Seqs(B) = {}
    /\ \A A \in ars : Seqs(A) \cap Seqs(rows) = {}
    /\ LET S == Seqs(Listed(ars, rows)) IN \A i, j \in S : i..j \subseteq S

\* The events of E are numbered 1 to n.
Numbered(E, n) ==
    /\ Seqs(E) = 1..n
    /\ \A e, f \in E : e.seq = f.seq => e = f

LastSeq(E) ==
    LET Last(n) == \A m \in Seqs(E) : m <= n IN
    IF \E n \in Seqs(E) : Last(n) THEN CHOOSE n \in Seqs(E) : Last(n) ELSE 0

\* validateStore, which every process that opens the project runs.
Opens ==
    /\ exists
    /\ Contiguous(archives, live)
    /\ live # {} => sequence = LastSeq(live)
    /\ Listed(archives, live) # {} =>
         /\ 1 \in Seqs(Listed(archives, live))
         /\ sequence = LastSeq(Listed(archives, live))

IsIdle(p) == pend[p].op = "idle"
Doing(o) == {p \in Procs : pend[p].op = o}
Stop(p) == pend' = [pend EXCEPT ![p] = Idle]

\* The operator who keeps operation o apart from the rest has nobody at it.
Apart(o) == o \in Alone => Doing(o) = {}

-----------------------------------------------------------------------------
(* execute.                                                                *)

\* What process p keeps of what it has read.
Begin(p, o, c, d, r, n, E, k) ==
    pend' = [pend EXCEPT ![p] =
        [op |-> o, cmd |-> c, content |-> d, rev |-> r, rows |-> E, keep |-> k,
         n |-> n, half |-> {}, got |-> EmptySnapshot]]

\* A caller finds no result of its command and reads the record.  A command that
\* has a result is replayed, or refused if its content differs: no change.
CommandRead(p, c, d) ==
    /\ IsIdle(p)
    /\ Opens
    /\ commands[c] = NotCommitted
    /\ Begin(p, "command", c, d, rev, 0, {}, 0)
    /\ UNCHANGED <<database, snapshot>>

\* Fault: the next event takes the sequence of the last one.
Appended_SameSequence(c, s, n, r) ==
    {[seq |-> i, cmd |-> c, rev |-> r] : i \in s .. s + n - 1}

\* appendEvent, n times, after the project sequence s, at record revision r.
Appended(c, s, n, r) ==
    {[seq |-> i, cmd |-> c, rev |-> r] : i \in s + 1 .. s + n}

\* BEGIN IMMEDIATE ... COMMIT: no result yet, and the record as it was read.
CommandCommit(p) ==
    LET o == pend[p] IN
    /\ o.op = "command"
    /\ commands[o.cmd] = NotCommitted
    /\ rev = o.rev
    /\ Apart("snapshot")
    /\ \E n \in 1..MaxEvents :
          /\ sequence + n <= MaxSeq
          /\ rev' = rev + 1
          /\ sequence' = sequence + n
          /\ live' = live \cup Appended(o.cmd, sequence, n, rev + 1)
          /\ commands' = [commands EXCEPT ![o.cmd] =
                [content |-> o.content, first |-> sequence + 1, last |-> sequence + n]]
    /\ Stop(p)
    /\ UNCHANGED <<exists, archives, retention, snapshot>>

\* ROLLBACK: the command has a result (replayed or PKR-RUNTIME-006), or the record
\* has another revision (PKR-RUNTIME-005).
CommandRollback(p) ==
    /\ pend[p].op = "command"
    /\ commands[pend[p].cmd] # NotCommitted \/ rev # pend[p].rev
    /\ Stop(p)
    /\ UNCHANGED <<database, snapshot>>

-----------------------------------------------------------------------------
(* compact.                                                                *)

\* Fault: one event too many is archived.
ArchiveCount_OneMore(n, k) == n - k + 1

ArchiveCount(n, k) == n - k

\* SELECT ... ORDER BY sequence LIMIT n
Oldest(E, n) == {e \in E : Cardinality({f \in E : f.seq <= e.seq}) <= n}

\* The count of what is to be archived, from COUNT(*); nothing if there are at
\* most k live events.
CompactCount(p, k) ==
    LET n == ArchiveCount(Cardinality(live), k) IN
    /\ IsIdle(p)
    /\ Opens
    /\ Apart("compact")
    /\ n > 0
    /\ Begin(p, "compact", Idle.cmd, Idle.content, 0, n, {}, k)
    /\ UNCHANGED <<database, snapshot>>

\* A query later: the rows themselves.
CompactRows(p) ==
    LET o == pend[p] IN
    /\ o.op = "compact"
    /\ o.rows = {}
    /\ Oldest(live, o.n) # {}
    /\ Begin(p, "compact", o.cmd, o.content, 0, o.n, Oldest(live, o.n), o.keep)
    /\ UNCHANGED <<database, snapshot>>

Spans(E, i) == \E f, g \in E : f.seq <= i /\ i <= g.seq

\* E and F have the same first and the same last sequence.
SameSpan(E, F) == \A i \in 1..sequence : Spans(E, i) <=> Spans(F, i)

\* DELETE ... BETWEEN first AND last of E.
Between(E) == {e \in live : Spans(E, e.seq)}

\* Fault: at commit, all but the k newest live events are deleted.
CompactCommit_DeleteAllOld(p) ==
    LET o == pend[p] IN
    /\ o.op = "compact"
    /\ o.rows # {}
    /\ Apart("snapshot")
    /\ archives' = archives \cup {o.rows}
    /\ live' = live \ Oldest(live, Cardinality(live) - o.keep)
    /\ retention' = o.keep
    /\ Stop(p)
    /\ UNCHANGED <<exists, commands, rev, sequence, snapshot>>

\* Fault: the archive that is written replaces the older ones.
CompactCommit_OneArchive(p) ==
    LET o == pend[p] IN
    /\ o.op = "compact"
    /\ o.rows # {}
    /\ Apart("snapshot")
    /\ archives' = {o.rows}
    /\ live' = live \ Between(o.rows)
    /\ retention' = o.keep
    /\ Stop(p)
    /\ UNCHANGED <<exists, commands, rev, sequence, snapshot>>

\* The archive row, the deletion and the policy, in one transaction.
CompactCommit(p) ==
    LET o == pend[p] IN
    /\ o.op = "compact"
    /\ o.rows # {}
    /\ Apart("snapshot")
    /\ \A A \in archives : ~SameSpan(A, o.rows)
    /\ archives' = archives \cup {o.rows}
    /\ live' = live \ Between(o.rows)
    /\ retention' = o.keep
    /\ Stop(p)
    /\ UNCHANGED <<exists, commands, rev, sequence, snapshot>>

\* UNIQUE(project_id, first_sequence, last_sequence): another process has archived
\* the same rows.  Or there are no rows, whose first one is asked for its sequence.
CompactFailed(p) ==
    LET o == pend[p] IN
    /\ o.op = "compact"
    /\ IF o.rows = {} THEN Oldest(live, o.n) = {}
                      ELSE \E A \in archives : SameSpan(A, o.rows)
    /\ Stop(p)
    /\ UNCHANGED <<database, snapshot>>

-----------------------------------------------------------------------------
(* createSnapshot: nine queries and the rename.                            *)

\* o is left with query n done, half read so far of listEvents, and payload s.
Continue(p, n, half, s) ==
    /\ pend' = [pend EXCEPT ![p] =
         [op |-> "snapshot", cmd |-> Idle.cmd, content |-> Idle.content, rev |-> 0,
          rows |-> {}, keep |-> 0, n |-> n, half |-> half, got |-> s]]
    /\ UNCHANGED <<database, snapshot>>

AtQuery(p, n) == pend[p].op = "snapshot" /\ pend[p].n = n

\* The retention policy and the commands.
SnapshotBegin(p) ==
    /\ IsIdle(p)
    /\ Opens
    /\ snapshot = {}
    /\ Continue(p, 1, {},
          [commands |-> commands, retention |-> retention, sequence |-> 0,
           digest |-> [rev |-> 0, events |-> {}], rev |-> 0, events |-> {}])

\* The first query of listEvents, for projectSequence, stateDigest and events.
SnapshotArchives(p) ==
    LET o == pend[p] IN
    /\ o.op = "snapshot"
    /\ o.n \in {1, 4, 7}
    /\ Continue(p, o.n + 1, archives, o.got)

\* What the listEvents after query n, which returned E, adds to the payload s.
WithEvents(s, n, E) ==
    CASE n = 2 -> [s EXCEPT !.sequence = LastSeq(E)]
      [] n = 5 -> [s EXCEPT !.digest = [rev |-> s.digest.rev, events |-> E]]
      [] n = 8 -> [s EXCEPT !.events = E]

\* Its second query, and the check of what it returns.
SnapshotLive(p) ==
    LET o == pend[p] IN
    /\ o.op = "snapshot"
    /\ o.n \in {2, 5, 8}
    /\ Contiguous(o.half, live)
    /\ Continue(p, o.n + 1, {}, WithEvents(o.got, o.n, Listed(o.half, live)))

\* The records, for stateDigest and for the payload.
SnapshotRecords(p) ==
    LET o == pend[p] IN
    /\ o.op = "snapshot"
    /\ o.n \in {3, 6}
    /\ Continue(p, o.n + 1, {},
          IF o.n = 3
          THEN [o.got EXCEPT !.digest = [rev |-> rev, events |-> {}]]
          ELSE [o.got EXCEPT !.rev = rev])

\* listEvents throws.
SnapshotFailed(p) ==
    LET o == pend[p] IN
    /\ o.op = "snapshot"
    /\ o.n \in {2, 5, 8}
    /\ ~Contiguous(o.half, live)
    /\ Stop(p)
    /\ UNCHANGED <<database, snapshot>>

\* Fault: the commands are read last.
SnapshotPublish_CommandsLast(p) ==
    /\ AtQuery(p, 9)
    /\ snapshot' = {[pend[p].got EXCEPT !.commands = commands]}
    /\ Stop(p)
    /\ UNCHANGED database

\* The checksummed file is renamed into place and reported.
SnapshotPublish(p) ==
    /\ AtQuery(p, 9)
    /\ snapshot' = {pend[p].got}
    /\ Stop(p)
    /\ UNCHANGED database

-----------------------------------------------------------------------------
(* readSnapshot, restoreSnapshot, and the loss they are for.               *)

\* validateSnapshot: event k of the list has sequence k, the last of them is the
\* project sequence, and the digest is that of the records and events.
Accepts(s) ==
    /\ Numbered(s.events, s.sequence)
    /\ s.digest = [rev |-> s.rev, events |-> s.events]

\* The store is lost with the processes that had it open.
Lose ==
    /\ exists
    /\ snapshot # {}
    /\ exists' = FALSE
    /\ EmptyStore
    /\ pend' = [p \in Procs |-> Idle]
    /\ UNCHANGED snapshot

\* A process opens the path and prepareStore creates an empty store.
Create(p) ==
    /\ IsIdle(p)
    /\ ~exists
    /\ Apart("restore")
    /\ exists' = TRUE
    /\ EmptyStore
    /\ UNCHANGED <<snapshot, pend>>

\* An accepted snapshot and no file at the path; the store is built beside it.
RestoreCheck(p) ==
    /\ IsIdle(p)
    /\ ~exists
    /\ Apart("restore")
    /\ \E s \in snapshot :
          /\ Accepts(s)
          /\ pend' = [pend EXCEPT ![p] =
               [op |-> "restore", cmd |-> Idle.cmd, content |-> Idle.content,
                rev |-> 0, rows |-> {}, keep |-> 0, n |-> 0, half |-> {}, got |-> s]]
    /\ UNCHANGED <<database, snapshot>>

\* p is done, and whoever has a file open that was at the path before p's rename
\* changes nothing there any more.
Leave(p) ==
    pend' = [q \in Procs |->
        IF q # p /\ pend[q].op = "restore" THEN pend[q] ELSE Idle]

\* Fault: commands are not part of what is restored.
RestoreRename_NoCommands(p) ==
    LET s == pend[p].got IN
    /\ pend[p].op = "restore"
    /\ exists' = TRUE
    /\ commands' = NoCommands
    /\ rev' = s.rev
    /\ sequence' = s.sequence
    /\ live' = s.events
    /\ archives' = {}
    /\ retention' = s.retention
    /\ Leave(p)
    /\ UNCHANGED snapshot

\* The store is renamed onto the path, whatever is there by now.  The comparison
\* with the snapshot that follows changes nothing.
RestoreRename(p) ==
    LET s == pend[p].got IN
    /\ pend[p].op = "restore"
    /\ exists' = TRUE
    /\ commands' = s.commands
    /\ rev' = s.rev
    /\ sequence' = s.sequence
    /\ live' = s.events
    /\ archives' = {}
    /\ retention' = s.retention
    /\ Leave(p)
    /\ UNCHANGED snapshot

\* A process is killed; its transaction rolls back.
Crash(p) ==
    /\ ~IsIdle(p)
    /\ Stop(p)
    /\ UNCHANGED <<database, snapshot>>

-----------------------------------------------------------------------------

ProcNext(p) ==
    \/ \E c \in Commands, d \in Contents : CommandRead(p, c, d)
    \/ CommandCommit(p)
    \/ CommandRollback(p)
    \/ \E k \in Keeps : CompactCount(p, k)
    \/ CompactRows(p)
    \/ CompactCommit(p)
    \/ CompactFailed(p)
    \/ SnapshotBegin(p)
    \/ SnapshotArchives(p)
    \/ SnapshotLive(p)
    \/ SnapshotRecords(p)
    \/ SnapshotFailed(p)
    \/ SnapshotPublish(p)
    \/ Create(p)
    \/ RestoreCheck(p)
    \/ RestoreRename(p)
    \/ Crash(p)

Next == Lose \/ \E p \in Procs : ProcNext(p)

Spec == Init /\ [][Next]_vars

-----------------------------------------------------------------------------
(* Properties.                                                             *)

\* Whatever was committed, compacted, lost and restored, listEvents returns one
\* contiguous history that begins at sequence 1 and ends at the project
\* sequence, so that every process can open the store.
HistoryContiguous ==
    /\ \A A \in archives : Seqs(A) \cap Seqs(live) = {}
    /\ \A A, B \in archives : A # B => Seqs(A) \cap Seqs(B) = {}
    /\ Numbered(Listed(archives, live), sequence)

\* While a store exists, no event of its history disappears and no archive
\* changes: not by compactions, however they overlap, and not by a restoration.
EventsKept ==
    exists /\ exists' =>
        /\ archives \subseteq archives'
        /\ Listed(archives, live) \subseteq Listed(archives', live')
\* The same, of every step.
HistoryKept == [][EventsKept]_vars

\* Compaction leaves the events that the policy in force says to keep live, also
\* if commands commit while it chooses what to archive.
RecentKept == Cardinality(live) >= retention

EventsOf(c, E) == {e.seq : e \in {f \in E : f.cmd = c}}

\* The results cs are those of the events E, which has none of a command without
\* a result.
Applied(cs, E) ==
    \A c \in Commands :
        EventsOf(c, E) =
            IF cs[c] = NotCommitted THEN {} ELSE cs[c].first .. cs[c].last

\* The history holds the events of a command exactly where its recorded result
\* says, and no event of a command without a result: no retry, race, compaction
\* or restoration has run it twice or half.
AppliedOnce == Applied(commands, Listed(archives, live))

\* The events E explain the revision r of the record and contain those of all the
\* commands that have a result in cs.
Cut(r, E, cs) ==
    /\ r = 0 <=> E = {}
    /\ \A e \in E : e.rev <= r
    /\ E # {} => \E e \in E : e.rev = r
    /\ \A c \in Commands :
         cs[c] # NotCommitted => EventsOf(c, E) = cs[c].first .. cs[c].last

\* What readSnapshot accepts agrees in its records and events, although commands
\* committed and events were archived between its queries: its events explain the
\* revision of its record and contain those of all its commands.  It need not be a
\* state the store was in: it may have the events of a command and not its result.
AcceptedIsACut ==
    \A s \in snapshot : Accepts(s) => Cut(s.rev, s.events, s.commands)

-----------------------------------------------------------------------------
(* Strengthenings that make the properties inductive.                      *)

\* No two events have one sequence.
Keyed(E) == \A e, f \in E : e.seq = f.seq => e = f

\* Of the events of D, E holds every one that is older than one of its own.
ClosedIn(E, D) == \A e \in E, f \in D : f.seq <= e.seq => f \in E

\* The events table has its key, and holds nothing later than the metadata says.
LiveKeyed == Keyed(live) /\ \A e \in live : e.seq <= sequence

\* A compaction runs on a store that exists and archives the oldest live events,
\* or ones that are live no more; what a restoration will install was accepted.
PendingSound ==
    \A p \in Procs :
        LET o == pend[p] IN
        /\ o.op = "compact" =>
             /\ exists
             /\ \A e \in o.rows : e.seq <= sequence
             /\ ClosedIn(o.rows, live)
        /\ o.op = "restore" => Numbered(o.got.events, o.got.sequence)

\* These hold however operations overlap.
StoreInv == TypeOK /\ LiveKeyed /\ PendingSound

\* One compaction at a time, of rows that are still live.
OneCompaction ==
    \A p \in Doing("compact") :
        /\ pend[p].rows \subseteq live
        /\ Doing("compact") = {p}

HistoryInv == StoreInv /\ HistoryContiguous /\ OneCompaction

\* One restoration at a time, into a path without a store.
OneRestore ==
    \A p \in Doing("restore") : ~exists /\ Doing("restore") = {p}

\* All events there are.
History == Listed(archives, live)

\* What a snapshot that no commit overlaps has read is what is there.
ReadsTrue(o) ==
    /\ exists
    /\ o.n \in 1..9
    /\ o.got.commands = commands
    /\ o.n \in {2, 5, 8} => o.half = archives
    /\ o.n >= 3 => o.got.sequence = sequence
    /\ o.n >= 4 => o.got.digest.rev = rev
    /\ o.n >= 6 => o.got.digest.events = History
    /\ o.n >= 7 => o.got.rev = rev
    /\ o.n >= 9 => o.got.events = History

\* A compaction archives events of the history, and a restoration installs
\* results that agree with its events.
HoldsTrue(o) ==
    /\ o.op = "compact" => o.rows \subseteq History
    /\ o.op = "snapshot" => ReadsTrue(o)
    /\ o.op = "restore" => Applied(o.got.commands, o.got.events)

\* Results and history agree in the store, in the snapshot file and in what every
\* process is about to write.
AppliedInv ==
    /\ Numbered(History, sequence)
    /\ Applied(commands, History)
    /\ \A p \in Procs : HoldsTrue(pend[p])
    /\ \A s \in snapshot : Accepts(s) /\ Applied(s.commands, s.events)

\* A history is not empty without live events: its last one is live.
NewestLive == sequence > 0 => \E e \in live : e.seq = sequence

\* A compaction has counted that as many events remain as it will have to keep,
\* and has not chosen more than it counted.
LeavesEnough(o) ==
    /\ o.keep > 0
    /\ Cardinality(live) >= o.n + o.keep
    /\ o.rows # {} => Cardinality(o.rows) <= o.n

\* A snapshot has read archives that are still there, and a policy that the
\* history it has read, or is about to read, satisfies.
ReadsKept(o) ==
    /\ exists
    /\ o.half \subseteq archives
    /\ o.got.retention <= IF o.n <= 2 THEN sequence ELSE o.got.sequence

\* What a process is about to archive, to publish or to install keeps the policy.
KeptBy(o) ==
    /\ o.op = "compact" => LeavesEnough(o)
    /\ o.op = "snapshot" => ReadsKept(o)
    /\ o.op = "restore" => o.got.retention <= o.got.sequence

KeptInv ==
    /\ NewestLive
    /\ RecentKept
    /\ \A p \in Procs : KeptBy(pend[p])
    /\ \A s \in snapshot : s.retention <= s.sequence

\* The store was not lost since its first snapshot began.
Intact == snapshot = {} \/ Doing("snapshot") # {}

\* A snapshot has read results that are final and no later revision than there is;
\* events that it reads at the revision it asks for before and after are a cut.
ReadsCut(o) ==
    LET d == o.got.digest IN
    /\ \A c \in Commands :
         o.got.commands[c] # NotCommitted => o.got.commands[c] = commands[c]
    /\ o.n >= 4 => d.rev <= rev
    /\ /\ o.n >= 6
       /\ d.rev = IF o.n = 6 THEN rev ELSE o.got.rev
       /\ Numbered(d.events, LastSeq(d.events))
       => Cut(d.rev, d.events, o.got.commands)

\* The store is a cut of itself.
StoreCut ==
    /\ exists
    /\ Doing("restore") = {}
    /\ Cut(rev, History, commands)
    /\ Applied(commands, History)

CutInv ==
    /\ Intact => StoreCut
    /\ \A p \in Procs : pend[p].op = "snapshot" => ReadsCut(pend[p])
    /\ AcceptedIsACut

=============================================================================
