----------------------------- MODULE PkrProject -----------------------------
(***************************************************************************)
(* The project directory .pkr: the SQLite file, its schema, the projections *)
(* written beside it and the alpha export written from it, as the processes *)
(* of several `pkr` commands find, create, migrate, remove and rewrite them *)
(* (src/src/store.ts, runtime.ts, projection.ts).                           *)
(*                                                                          *)
(* Opening a store reads the schema in statements of their own, outside any *)
(* transaction, and then runs at most one transaction on it; everything     *)
(* between two statements of one process is another process's chance, and a *)
(* process may be killed between any two.                                   *)
(*                                                                          *)
(* A project command is one step of the project sequence.  Rows are not     *)
(* modelled: PkrStore has the history, the journal and their transactions.  *)
(***************************************************************************)
EXTENDS Naturals, FiniteSets, TLC

CONSTANTS
    Procs,          \* `pkr` processes
    Requests,       \* bootstrap request ids `pkr init` may use
    Jobs,           \* what the processes may be asked to do, a subset of AllJobs
    MaxSeq          \* bound on the project sequence

AllJobs == {"init", "command", "effect", "compact", "export"}

ASSUME ProjectAssumption ==
    /\ Procs # {} /\ Requests # {}
    /\ Jobs \subseteq AllJobs
    /\ MaxSeq \in Nat \ {0}

VARIABLES
    db,             \* the database of the directory
    dir,            \* the state directory exists
    file,           \* the sequence a projection file shows of the project of the directory,
                    \* 0: there is none, or one of a project that was removed
    out,            \* the alpha export
    proc,           \* what each process is doing, and what it has read
    bootstraps      \* bootstrap transactions committed in this directory, counted to two

vars == <<db, dir, file, out, proc, bootstraps>>

----------------------------------------------------------------------------
(* The forms of a database.                                                 *)

NoRequest == "none"
CandidateTables == {"event_archives", "external_effects", "repository_evidence"}

SchemaOf(d) == [core |-> d.core, cand |-> d.cand, marked |-> d.marked, version |-> d.version]
NoSchema == [core |-> FALSE, cand |-> {}, marked |-> FALSE, version |-> 0]
Alpha   == [core |-> TRUE, cand |-> {}, marked |-> FALSE, version |-> 0]
Legacy  == [core |-> TRUE, cand |-> CandidateTables \ {"repository_evidence"},
            marked |-> TRUE, version |-> 1]
Current == [core |-> TRUE, cand |-> CandidateTables, marked |-> TRUE, version |-> 2]

Store(s, n) ==
    [core |-> s.core, cand |-> s.cand, marked |-> s.marked, version |-> s.version,
     seq |-> n, archived |-> 0, journal |-> FALSE, request |-> NoRequest]

\* A file SQLite has just created, and no file.
Empty == Store(NoSchema, 0)
Absent == [Empty EXCEPT !.request = "absent"]

NoExport == [state |-> "none", seq |-> 0, records |-> 0, first |-> 0, last |-> 0]

Connecting == {"connect", "inspect", "marker", "version", "create", "checkAlpha",
               "migrate", "upgrade", "check", "validate"}
Rebuilding == {"read", "draft", "rename"}
Copying == {"metadata", "records", "events", "finish"}
Working == {"opened", "work", "clear", "archives", "target"} \cup Rebuilding \cup Copying
Places == {"idle", "refused", "bare", "orphan", "done"} \cup Connecting \cup Working

(* A process: where it is; the command it runs; of an init, the request and  *)
(* whether the state directory existed; whether no other process changed the *)
(* database since this one began to open it, and none rebuilt the            *)
(* projections since this one began to; whether its temporary projection     *)
(* file is on disk; whether the file it has open was removed; and the        *)
(* tables, marker and sequences it has read.                                 *)
Idle == [at |-> "idle", job |-> "command", request |-> NoRequest, existed |-> TRUE,
         quiet |-> TRUE, alone |-> FALSE, tmp |-> FALSE, lost |-> FALSE,
         cand |-> {}, marked |-> FALSE, seq |-> 0, archived |-> 0, since |-> 0]

----------------------------------------------------------------------------

\* The database may be new, or left by an earlier release, or by this one, and that by
\* an init which did not come to its bootstrap.
Init ==
    /\ db \in {Absent} \cup {Store(s, n) : s \in {Alpha, Legacy, Current}, n \in {0, 1}}
    /\ dir = (db # Absent)
    /\ file = db.seq
    /\ out = NoExport
    /\ proc = [p \in Procs |-> Idle]
    /\ bootstraps = 0

At(p, place) == proc[p].at = place

\* p alone moves; the database stays.
Moves(p, mine) ==
    /\ proc' = [proc EXCEPT ![p] = mine]
    /\ UNCHANGED db
Goes(p, place) == Moves(p, [proc[p] EXCEPT !.at = place])

\* p moves and makes the database d: what others are opening is disturbed.
Becomes(p, d, place) ==
    /\ db' = d
    /\ proc' = [q \in Procs |->
                  IF q = p THEN [proc[q] EXCEPT !.at = place]
                  ELSE [proc[q] EXCEPT !.quiet = @ /\ (d = db \/ proc[q].at \notin Connecting)]]

Files == <<dir, file, out, bootstraps>>

(* runtime.ts PkrRuntime.init: it looks whether the state directory is there *)
(* and then creates it; the clean-up of a failure depends on that look.      *)
StartInit(p, r) ==
    /\ At(p, "idle") /\ "init" \in Jobs
    /\ Moves(p, [Idle EXCEPT !.at = "connect", !.job = "init", !.request = r, !.existed = dir])
    /\ UNCHANGED Files

MakeDir(p) ==
    /\ At(p, "connect") /\ proc[p].job = "init" /\ ~dir
    /\ dir' = TRUE
    /\ UNCHANGED <<db, proc, file, out, bootstraps>>

\* runtime.ts PkrRuntime.open: there must be a database file.
StartOpen(p, j) ==
    /\ At(p, "idle") /\ db # Absent
    /\ Moves(p, [Idle EXCEPT !.at = "connect", !.job = j])
    /\ UNCHANGED Files

\* The constructor creates the directory and the file when they are missing.
Connect(p) ==
    /\ At(p, "connect")
    /\ Becomes(p, IF db = Absent THEN Empty ELSE db, "inspect")
    /\ dir' = TRUE
    /\ UNCHANGED <<file, out, bootstraps>>

----------------------------------------------------------------------------
(* store.ts prepareStore, one action per statement or transaction.          *)

\* A refused open is an error of the command; what it read is forgotten.
Refused(p) == Moves(p, [Idle EXCEPT !.at = "refused", !.quiet = proc[p].quiet])

Inspect(p) ==
    /\ At(p, "inspect")
    /\ Moves(p, [proc[p] EXCEPT !.cand = db.cand, !.at = IF db.core THEN "marker" ELSE "create"])
    /\ UNCHANGED Files

\* CREATE TABLE fails when another process created the tables meanwhile.
CreateSchema(p) ==
    /\ At(p, "create")
    /\ \/ db.core /\ Refused(p)
       \/ ~db.core /\ Becomes(p, Store(Current, 0), "opened")
    /\ UNCHANGED Files

ReadMarker(p) ==
    /\ At(p, "marker")
    /\ Moves(p, [proc[p] EXCEPT !.marked = db.marked, !.at = "version"])
    /\ UNCHANGED Files

\* Fault: a v1 store must already have every table of a v2 one.
Verdict_AllTables(cand, marked, version) ==
    CASE ~marked /\ version = 0 /\ cand = {} -> "checkAlpha"
      [] marked /\ version \in {1, 2} /\ cand = CandidateTables ->
            (IF version = 1 THEN "upgrade" ELSE "check")
      [] OTHER -> "refused"

\* Where the tables, the marker and the version, read apart, lead.
Verdict(cand, marked, version) ==
    CASE ~marked /\ version = 0 /\ cand = {} -> "checkAlpha"
      [] marked /\ version = 1 /\ Legacy.cand \subseteq cand -> "upgrade"
      [] marked /\ version = 2 /\ cand = CandidateTables -> "check"
      [] OTHER -> "refused"

ReadVersion(p) ==
    /\ At(p, "version")
    /\ LET v == Verdict(proc[p].cand, proc[p].marked, db.version)
       IN  \/ v = "refused" /\ Refused(p)
           \/ v # "refused" /\ Goes(p, v)
    /\ UNCHANGED Files

\* validateStore reads metadata.project_sequence and then the events ...
ReadSequence(p) ==
    /\ proc[p].at \in {"checkAlpha", "check"}
    /\ Moves(p, [proc[p] EXCEPT !.seq = db.seq, !.archived = db.archived,
                                !.marked = At(p, "check"), !.at = "validate"])
    /\ UNCHANGED Files

(* ... which end at that sequence, or the store is called stale.  A command  *)
(* committed meanwhile makes it so; a compaction committed between the       *)
(* archives and the live events it reads hides the events moved.             *)
Validate(p) ==
    /\ At(p, "validate")
    /\ \/ /\ proc[p].seq # db.seq \/ proc[p].archived # db.archived
          /\ Refused(p)
       \/ /\ proc[p].seq = db.seq
          /\ Goes(p, IF proc[p].marked THEN "opened" ELSE "migrate")
    /\ UNCHANGED Files

\* Fault: the version is left to a later statement.
Migrate_Unversioned(p) ==
    /\ At(p, "migrate") /\ ~db.marked /\ db.seq # 0
    /\ Becomes(p, [db EXCEPT !.cand = CandidateTables, !.marked = TRUE], "check")
    /\ UNCHANGED Files

\* An alpha without a Project is refused by every open; one with a Project becomes
\* current in one transaction, where the marker's row must be new.
Migrate(p) ==
    /\ At(p, "migrate")
    /\ \/ db.seq = 0 /\ Moves(p, [Idle EXCEPT !.at = "bare"])
       \/ db.seq # 0 /\ db.marked /\ Refused(p)
       \/ /\ db.seq # 0 /\ ~db.marked
          /\ Becomes(p, [db EXCEPT !.cand = CandidateTables, !.marked = TRUE, !.version = 2], "check")
    /\ UNCHANGED Files

\* A v1 candidate gets what it misses, and is validated, in one transaction.
Upgrade(p) ==
    /\ At(p, "upgrade")
    /\ Becomes(p, [db EXCEPT !.cand = CandidateTables, !.version = 2], "opened")
    /\ UNCHANGED Files

\* findProjectId: `init` needs a store without a Project, the rest one with it.
Find(p) ==
    /\ At(p, "opened")
    /\ \/ /\ (db.seq = 0) = (proc[p].job = "init")
          /\ Moves(p, [Idle EXCEPT !.at = "work", !.job = proc[p].job, !.seq = proc[p].seq,
                       !.request = proc[p].request, !.existed = proc[p].existed])
       \/ /\ (db.seq = 0) # (proc[p].job = "init")
          /\ Moves(p, Idle)
    /\ UNCHANGED Files

----------------------------------------------------------------------------
(* PkrRuntime.init after the store is open: the bootstrap transaction, the   *)
(* projections, and the clean-up of a failure.                               *)

\* What others are after the removal: whoever has the database open is left with a
\* removed file, and whoever rebuilds the projections goes on with what it has read.
Bereft(m) ==
    CASE m.at = "connect" -> [m EXCEPT !.quiet = FALSE]
      [] m.at \in {"idle", "refused", "bare", "done"} -> [m EXCEPT !.alone = FALSE]
      [] OTHER -> [Idle EXCEPT !.at = IF m.at \in {"clear"} \cup Rebuilding THEN m.at ELSE "orphan",
                               !.job = m.job, !.existed = m.existed, !.lost = TRUE]

\* rm(stateDir).
RemoveState(p) ==
    /\ db' = Absent /\ dir' = FALSE /\ file' = 0
    /\ proc' = [q \in Procs |-> IF q = p THEN Idle ELSE Bereft(proc[q])]
    /\ out' = [out EXCEPT !.state = IF @ = "open" THEN "debris" ELSE @]

\* A failed init removes the directory unless it was there when it looked.
InitFails(p) ==
    \/ ~proc[p].existed /\ RemoveState(p)
    \/ /\ proc[p].existed
       /\ Moves(p, Idle)
       /\ UNCHANGED <<dir, file, out>>

\* The request's own earlier commit is replayed, another's is a conflict.
Bootstrap(p) ==
    /\ At(p, "work") /\ proc[p].job = "init"
    /\ \/ /\ db.request = proc[p].request
          /\ Goes(p, "clear") /\ UNCHANGED Files
       \/ /\ db.request # proc[p].request /\ db.seq # 0
          /\ InitFails(p) /\ UNCHANGED bootstraps
       \/ /\ db.request # proc[p].request /\ db.seq = 0
          /\ Becomes(p, [db EXCEPT !.seq = 1, !.request = proc[p].request], "clear")
          /\ bootstraps' = IF bootstraps = 0 THEN 1 ELSE 2
          /\ UNCHANGED <<dir, file, out>>

----------------------------------------------------------------------------
(* The commands of an open project.                                          *)

\* runtime.ts mutate: commit, and then rebuild the projections.
Command(p) ==
    /\ At(p, "work") /\ proc[p].job = "command" /\ db.seq < MaxSeq
    /\ Becomes(p, [db EXCEPT !.seq = @ + 1], "clear")
    /\ UNCHANGED Files

\* Reserving an effect or storing evidence appends no event.
Effect(p) ==
    /\ At(p, "work") /\ proc[p].job = "effect"
    /\ Becomes(p, [db EXCEPT !.journal = TRUE], "done")
    /\ UNCHANGED Files

\* Compaction keeps at least one live event.
Compact(p) ==
    /\ At(p, "work") /\ proc[p].job = "compact" /\ db.seq > db.archived + 1
    /\ Becomes(p, [db EXCEPT !.archived = db.seq - 1], "done")
    /\ UNCHANGED Files

\* A command that finds nothing to do, or is refused, changes nothing.
Nothing(p) ==
    /\ At(p, "work") /\ proc[p].job \in {"command", "compact"}
    /\ Moves(p, Idle)
    /\ UNCHANGED Files

----------------------------------------------------------------------------
(* projection.ts rebuildProjections, on one of the files: remove the         *)
(* directory, read the records, write a temporary file, rename it.  All goes *)
(* by the path, also for a process whose own database was removed with the   *)
(* directory: it makes the directory again, and shows what it has open.      *)

\* What a projection written from the database p has open shows of the project.
Shown(p) == IF proc[p].lost THEN 0 ELSE db.seq

Clear(p) ==
    /\ At(p, "clear")
    /\ file' = 0 /\ dir' = TRUE
    /\ proc' = [q \in Procs |->
                  IF q # p THEN [proc[q] EXCEPT !.tmp = FALSE, !.alone = FALSE]
                  ELSE [proc[q] EXCEPT !.at = "read", !.since = Shown(p),
                            !.alone = \A r \in Procs \ {p} : proc[r].at \notin Rebuilding]]
    /\ UNCHANGED <<db, out, bootstraps>>

\* Fault: the projections show what the process read when it opened the store.
Read_Cached(p) ==
    /\ At(p, "read")
    /\ Goes(p, "draft")
    /\ UNCHANGED Files

Read(p) ==
    /\ At(p, "read")
    /\ Moves(p, [proc[p] EXCEPT !.seq = Shown(p), !.at = "draft"])
    /\ UNCHANGED Files

\* util.ts writeJsonAtomic makes the directory again if it must.
Draft(p) ==
    /\ At(p, "draft")
    /\ Moves(p, [proc[p] EXCEPT !.tmp = TRUE, !.at = "rename"])
    /\ dir' = TRUE
    /\ UNCHANGED <<file, out, bootstraps>>

(* The rename finds its temporary file gone when another process removed the *)
(* directory: the caller gets an error for a command that is committed, and  *)
(* an init takes it for its own failure.                                     *)
Rename(p) ==
    /\ At(p, "rename")
    /\ \/ /\ proc[p].tmp
          /\ file' = proc[p].seq
          /\ Moves(p, [proc[p] EXCEPT !.tmp = FALSE, !.at = "done"])
          /\ UNCHANGED <<dir, out>>
       \/ /\ ~proc[p].tmp /\ proc[p].job = "init"
          /\ InitFails(p)
       \/ /\ ~proc[p].tmp /\ proc[p].job # "init"
          /\ Moves(p, Idle)
          /\ UNCHANGED <<dir, file, out>>
    /\ UNCHANGED bootstraps

----------------------------------------------------------------------------
(* store.ts exportPublicAlpha: three checks and four copies, each a SELECT   *)
(* of its own, into a target written in one transaction.                     *)

\* The journal first: evidence and effects.
ExportJournal(p) ==
    /\ At(p, "work") /\ proc[p].job = "export"
    /\ Moves(p, IF db.journal THEN Idle ELSE [proc[p] EXCEPT !.at = "archives"])
    /\ UNCHANGED Files

ExportArchives(p) ==
    /\ At(p, "archives")
    /\ Moves(p, IF db.archived # 0 THEN Idle ELSE [proc[p] EXCEPT !.at = "target"])
    /\ UNCHANGED Files

\* A target that exists is refused; a killed export leaves one.
ExportTarget(p) ==
    /\ At(p, "target")
    /\ \/ /\ out.state # "none"
          /\ Moves(p, Idle) /\ UNCHANGED out
       \/ /\ out.state = "none"
          /\ out' = [out EXCEPT !.state = "open"]
          /\ Goes(p, "metadata")
    /\ UNCHANGED <<dir, file, bootstraps>>

Copy(p, from, to, o) ==
    /\ At(p, from)
    /\ out' = o
    /\ Goes(p, to)
    /\ UNCHANGED <<dir, file, bootstraps>>

CopyMetadata(p) == Copy(p, "metadata", "records", [out EXCEPT !.seq = db.seq])
CopyRecords(p) == Copy(p, "records", "events", [out EXCEPT !.records = db.seq])
\* Fault: the sequence is copied with the events, after the records.
CopyEvents_Sequence(p) ==
    Copy(p, "events", "finish",
         [state |-> out.state, seq |-> db.seq, records |-> out.records,
          first |-> db.archived + 1, last |-> db.seq])

CopyEvents(p) ==
    Copy(p, "events", "finish", [out EXCEPT !.first = db.archived + 1, !.last = db.seq])
\* The commands are copied last, and the target's transaction commits.
FinishExport(p) == Copy(p, "finish", "done", [out EXCEPT !.state = "done"])

----------------------------------------------------------------------------

\* The command is over: it has succeeded, or its error is shown.
Done(p) ==
    /\ proc[p].at \in {"done", "refused", "bare"}
    /\ Moves(p, Idle)
    /\ UNCHANGED Files

(* A process whose directory was removed works on a file nobody finds again. *)
(* It ends, or it commits there and rebuilds the projections, of whatever    *)
(* project has the directory by then (an init writes config.json first), or  *)
(* it fails, and a failing init removes the directory once more.             *)
Orphan(p) ==
    /\ At(p, "orphan")
    /\ \/ /\ \/ Moves(p, Idle)
             \/ proc[p].job \in {"init", "command"} /\ Goes(p, "clear")
          /\ dir' \in {dir, TRUE}
          /\ UNCHANGED <<file, out>>
       \/ /\ proc[p].job = "init"
          /\ InitFails(p)
    /\ UNCHANGED bootstraps

\* The process dies between two statements: an open transaction rolls back.
Kill(p) ==
    /\ proc[p].at \in Connecting \cup Working
    /\ Moves(p, Idle)
    /\ out' = IF proc[p].at \in Copying THEN [NoExport EXCEPT !.state = "debris"] ELSE out
    /\ UNCHANGED <<dir, file, bootstraps>>

Open(p) ==
    \/ MakeDir(p) \/ Connect(p) \/ Inspect(p) \/ CreateSchema(p) \/ ReadMarker(p) \/ ReadVersion(p)
    \/ ReadSequence(p) \/ Validate(p) \/ Migrate(p) \/ Upgrade(p) \/ Find(p)
Rebuild(p) == Clear(p) \/ Read(p) \/ Draft(p) \/ Rename(p)
Export(p) ==
    \/ ExportJournal(p) \/ ExportArchives(p) \/ ExportTarget(p)
    \/ CopyMetadata(p) \/ CopyRecords(p) \/ CopyEvents(p) \/ FinishExport(p)

Next ==
    \E p \in Procs :
        \/ \E r \in Requests : StartInit(p, r)
        \/ \E j \in Jobs \ {"init"} : StartOpen(p, j)
        \/ Open(p) \/ Bootstrap(p)
        \/ Command(p) \/ Effect(p) \/ Compact(p) \/ Nothing(p)
        \/ Rebuild(p) \/ Export(p)
        \/ Done(p) \/ Orphan(p) \/ Kill(p)

Spec == Init /\ [][Next]_vars

----------------------------------------------------------------------------
(* Properties.                                                              *)

Seqs == 0..MaxSeq
Databases == [core : BOOLEAN, cand : SUBSET CandidateTables, marked : BOOLEAN, version : 0..2,
              seq : Seqs, archived : Seqs, journal : BOOLEAN,
              request : Requests \cup {NoRequest, "absent"}]
Exports == [state : {"none", "open", "debris", "done"}, seq : Seqs, records : Seqs,
            first : Seqs, last : Seqs]
Processes == [at : Places, job : AllJobs, request : Requests \cup {NoRequest},
              existed : BOOLEAN, quiet : BOOLEAN, alone : BOOLEAN, tmp : BOOLEAN,
              lost : BOOLEAN,
              cand : SUBSET CandidateTables, marked : BOOLEAN,
              seq : Seqs, archived : Seqs, since : Seqs]
TypeOK ==
    /\ db \in Databases
    /\ dir \in BOOLEAN /\ file \in Seqs
    /\ out \in Exports
    /\ proc \in [Procs -> Processes]
    /\ bootstraps \in 0..2

(* However processes that create, migrate and upgrade one file interleave    *)
(* and die, the file has the schema of one release, never of two, and the    *)
(* one a process works on is the current one.                                *)
SchemaWhole ==
    /\ SchemaOf(db) \in {NoSchema, Alpha, Legacy, Current}
    /\ \A p \in Procs : proc[p].at \in Working /\ ~proc[p].lost => SchemaOf(db) = Current

(* prepareStore reads the schema piece by piece and refuses what does not    *)
(* fit together.  It refuses only when another process changed the database  *)
(* while it was reading: whatever was killed before, the next open succeeds, *)
(* unless the store is an alpha without a Project (the place bare).          *)
RefusedOnlyByOthers == \A p \in Procs : At(p, "refused") => ~proc[p].quiet

\* What validateStore(false) accepts of an unmarked store.
AlphaAccepts(o) == o.first = 1 /\ o.last = o.seq

(* The export copies the sequence, the records and the events in separate    *)
(* reads while other processes commit and compact.  A copy that an opening   *)
(* accepts holds the records of the very sequence its events end at.         *)
AcceptedExportIsOfOneMoment ==
    out.state = "done" /\ AlphaAccepts(out) => out.records = out.seq

(* A rebuild no other rebuild overlapped, of this project or of one that was *)
(* removed, when its command reports success, has left the projections at    *)
(* least as new as the commit it followed.                                   *)
LoneRebuildShowsCommit ==
    \A p \in Procs : At(p, "done") /\ proc[p].alone => file >= proc[p].since

(* "Concurrent requests compete on both `projectId` and project `name`; at   *)
(* most one may commit."  The code does not keep it: an init that loses      *)
(* removes the directory with the project the winner has committed.          *)
AtMostOneBootstrap == bootstraps <= 1
----------------------------------------------------------------------------
(* Strengthenings that make the properties inductive.                       *)

\* What a process that opens the database has learnt of it stays true: the schema
\* only moves on.  Who works on a removed file at most rebuilds the projections, and
\* shows nothing of this project by it.
SchemaLearnt ==
    \A p \in Procs :
        /\ proc[p].lost => proc[p].at \in {"orphan", "clear", "done"} \cup Rebuilding
        /\ proc[p].lost => proc[p].since = 0
        /\ At(p, "orphan") => proc[p].lost
        /\ proc[p].at \in Connecting \ {"connect", "inspect", "create"} => db.core
        /\ At(p, "version") /\ proc[p].marked => db.marked
        /\ At(p, "upgrade") => db.marked
        /\ At(p, "check") => SchemaOf(db) = Current
        /\ At(p, "validate") /\ proc[p].marked => SchemaOf(db) = Current

\* A process that nobody disturbs has read what is there.
QuietReads ==
    \A p \in Procs : proc[p].quiet =>
        /\ At(p, "create") => ~db.core
        /\ proc[p].at \in {"marker", "version"} => proc[p].cand = db.cand
        /\ At(p, "version") => proc[p].marked = db.marked
        /\ At(p, "validate") => proc[p].seq = db.seq /\ proc[p].archived = db.archived
        /\ At(p, "validate") /\ ~proc[p].marked => ~db.marked
        /\ proc[p].at \in {"checkAlpha", "migrate"} => ~db.marked

\* One process at a time writes the export, each part no older than the one before.
ExportInOrder ==
    /\ \A p \in Procs : proc[p].at \in Copying =>
         /\ out.state = "open"
         /\ \A q \in Procs : proc[q].at \in Copying => q = p
         /\ At(p, "records") => out.seq <= db.seq
         /\ At(p, "events") => out.seq <= out.records /\ out.records <= db.seq
         /\ At(p, "finish") => out.seq <= out.records /\ out.records <= out.last
    /\ out.state = "done" => out.seq <= out.records /\ out.records <= out.last

\* No other process rebuilds the projections beside one that does so alone, and what
\* that one has read of the project is no older than the commit it followed.
AloneRebuilds ==
    \A p \in Procs : proc[p].alone =>
        /\ proc[p].at \in Rebuilding \cup {"done"}
        /\ \A q \in Procs \ {p} : proc[q].at \notin Rebuilding
        /\ At(p, "read") => proc[p].since <= db.seq
        /\ proc[p].at \in {"draft", "rename"} => proc[p].since <= proc[p].seq

ProjectInv ==
    /\ TypeOK /\ db.archived < MaxSeq
    /\ SchemaWhole /\ SchemaLearnt
    /\ RefusedOnlyByOthers /\ QuietReads
    /\ AcceptedExportIsOfOneMoment /\ ExportInOrder
    /\ LoneRebuildShowsCommit /\ AloneRebuilds
=============================================================================
