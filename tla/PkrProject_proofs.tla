------------------------- MODULE PkrProject_proofs -------------------------
(***************************************************************************)
(* Proofs about PkrProject, for every set of processes, of requests and of *)
(* jobs and every bound on the project sequence.                           *)
(***************************************************************************)
EXTENDS PkrProject, TLAPS

-----------------------------------------------------------------------------
(* What a process has learnt, as a relation of a process and a database.   *)

Learnt(m, d) ==
    /\ m.at \in Working /\ ~m.lost => SchemaOf(d) = Current
    /\ m.lost => m.at \in {"orphan", "clear", "done"} \cup Rebuilding
    /\ m.lost => m.since = 0
    /\ m.at = "orphan" => m.lost
    /\ m.at \in Connecting \ {"connect", "inspect", "create"} => d.core
    /\ m.at = "version" /\ m.marked => d.marked
    /\ m.at = "upgrade" => d.marked
    /\ m.at = "check" => SchemaOf(d) = Current
    /\ m.at = "validate" /\ m.marked => SchemaOf(d) = Current
    /\ m.at = "refused" => ~m.quiet
    /\ m.quiet =>
         /\ m.at = "create" => ~d.core
         /\ m.at \in {"marker", "version"} => m.cand = d.cand
         /\ m.at = "version" => m.marked = d.marked
         /\ m.at = "validate" => m.seq = d.seq /\ m.archived = d.archived
         /\ m.at = "validate" /\ ~m.marked => ~d.marked
         /\ m.at \in {"checkAlpha", "migrate"} => ~d.marked

LEMMA LearntMeans ==
    (SchemaWhole /\ SchemaLearnt /\ RefusedOnlyByOthers /\ QuietReads)
      <=> /\ SchemaOf(db) \in {NoSchema, Alpha, Legacy, Current}
          /\ \A p \in Procs : Learnt(proc[p], db)
BY DEF SchemaWhole, SchemaLearnt, RefusedOnlyByOthers, QuietReads, Learnt, At

LEMMA LearntMeansNext ==
    (SchemaWhole /\ SchemaLearnt /\ RefusedOnlyByOthers /\ QuietReads)'
      <=> /\ SchemaOf(db') \in {NoSchema, Alpha, Legacy, Current}
          /\ \A p \in Procs : Learnt(proc'[p], db')
BY DEF SchemaWhole, SchemaLearnt, RefusedOnlyByOthers, QuietReads, Learnt, At, SchemaOf

\* The fields of a process.
LEMMA ProcessType ==
    ASSUME NEW m \in Processes
    PROVE  /\ m.at \in Places /\ m.job \in AllJobs /\ m.request \in Requests \cup {NoRequest}
           /\ m.existed \in BOOLEAN /\ m.quiet \in BOOLEAN /\ m.alone \in BOOLEAN
           /\ m.tmp \in BOOLEAN /\ m.lost \in BOOLEAN /\ m.cand \subseteq CandidateTables /\ m.marked \in BOOLEAN
           /\ m.seq \in Seqs /\ m.archived \in Seqs /\ m.since \in Seqs
BY DEF Processes

\* The fields of a database.
LEMMA DatabaseType ==
    ASSUME NEW d \in Databases
    PROVE  /\ d.core \in BOOLEAN /\ d.cand \subseteq CandidateTables /\ d.marked \in BOOLEAN
           /\ d.version \in 0..2 /\ d.seq \in Seqs /\ d.archived \in Seqs
           /\ d.journal \in BOOLEAN
BY DEF Databases

LEMMA SeqsFacts == Seqs \subseteq Nat /\ 0 \in Seqs /\ 1 \in Seqs /\ 0 < MaxSeq
BY ProjectAssumption DEF Seqs

\* The databases the code makes.
LEMMA StoreType ==
    ASSUME NEW s \in {NoSchema, Alpha, Legacy, Current}, NEW k \in Seqs
    PROVE  /\ Store(s, k) \in Databases /\ SchemaOf(Store(s, k)) = s
           /\ Store(s, k).seq = k /\ Store(s, k).archived = 0
           /\ Store(s, k).core = s.core /\ Store(s, k).marked = s.marked
<1>1. /\ s.core \in BOOLEAN /\ s.cand \subseteq CandidateTables /\ s.marked \in BOOLEAN
      /\ s.version \in 0..2
      /\ s = [core |-> s.core, cand |-> s.cand, marked |-> s.marked, version |-> s.version]
  <2> DEFINE Has(r) ==
        /\ r.core \in BOOLEAN /\ r.cand \subseteq CandidateTables /\ r.marked \in BOOLEAN
        /\ r.version \in 0..2
        /\ r = [core |-> r.core, cand |-> r.cand, marked |-> r.marked, version |-> r.version]
  <2>1. Has(NoSchema)
    BY DEF NoSchema
  <2>2. Has(Alpha)
    BY DEF Alpha
  <2>3. Has(Legacy)
    BY DEF Legacy
  <2>4. Has(Current)
    BY DEF Current
  <2> HIDE DEF Has
  <2>5. Has(s)
    BY <2>1, <2>2, <2>3, <2>4
  <2> QED
    BY <2>5 DEF Has
<1>2. /\ Store(s, k).seq = k /\ Store(s, k).archived = 0
      /\ Store(s, k).core = s.core /\ Store(s, k).marked = s.marked
      /\ Store(s, k).cand = s.cand /\ Store(s, k).version = s.version
  BY DEF Store
<1>3. SchemaOf(Store(s, k)) = s
  BY <1>1, <1>2 DEF SchemaOf
<1>4. Store(s, k) \in Databases
  BY <1>1, SeqsFacts DEF Store, Databases
<1> QED
  BY <1>2, <1>3, <1>4

LEMMA AbsentType ==
    /\ Absent \in Databases /\ SchemaOf(Absent) = NoSchema
    /\ Absent.seq = 0 /\ Absent.archived = 0
    /\ ~Absent.core /\ ~Absent.marked /\ Absent.cand = {}
<1> USE SeqsFacts
<1>1. /\ Absent.core = FALSE /\ Absent.cand = {} /\ Absent.marked = FALSE
      /\ Absent.version = 0 /\ Absent.seq = 0 /\ Absent.archived = 0
  BY DEF Absent, Empty, Store, NoSchema
<1>2. Absent \in Databases
  <2>1. /\ Empty \in Databases
        /\ Absent = [Empty EXCEPT !.request = "absent"]
    BY StoreType DEF Empty, Absent
  <2> QED
    BY <2>1 DEF Databases
<1>3. SchemaOf(Absent) = NoSchema
  BY <1>1 DEF SchemaOf, NoSchema
<1> QED
  BY <1>1, <1>2, <1>3

\* The schemas of the releases differ, and so do their tables.
LEMMA Schemas ==
    ASSUME NEW d \in Databases
    PROVE  /\ SchemaOf(d) = NoSchema <=> ~d.core /\ d.cand = {} /\ ~d.marked /\ d.version = 0
           /\ SchemaOf(d) = Alpha <=> d.core /\ d.cand = {} /\ ~d.marked /\ d.version = 0
           /\ SchemaOf(d) = Legacy <=> d.core /\ d.cand = Legacy.cand /\ d.marked /\ d.version = 1
           /\ SchemaOf(d) = Current <=>
                d.core /\ d.cand = CandidateTables /\ d.marked /\ d.version = 2
BY DatabaseType DEF SchemaOf, NoSchema, Alpha, Legacy, Current

-----------------------------------------------------------------------------
(* Steps that leave the export and the projections alone.                  *)

\* p comes to be n; of the others only what disturbs them changes.
Comes(p, n) ==
    /\ proc' \in [Procs -> Processes]
    /\ proc'[p] = n
    /\ \A q \in Procs \ {p} : /\ proc'[q].at = proc[q].at /\ proc'[q].alone = proc[q].alone
                              /\ proc'[q].seq = proc[q].seq /\ proc'[q].since = proc[q].since

\* Where p does not copy or rebuild, its step is none of the others' business.
LEMMA PlainStep ==
    ASSUME ProjectInv, TypeOK', NEW p \in Procs, NEW n, Comes(p, n),
           ~n.alone, n.at \notin Copying \cup Rebuilding,
           file' = file, out' = out, db.core => db.seq <= db'.seq
    PROVE  /\ (AcceptedExportIsOfOneMoment /\ ExportInOrder)'
           /\ (LoneRebuildShowsCommit /\ AloneRebuilds)'
<1>1. /\ \A q \in Procs : Learnt(proc[q], db)
      /\ TypeOK /\ ExportInOrder /\ AloneRebuilds /\ LoneRebuildShowsCommit
      /\ AcceptedExportIsOfOneMoment
  BY LearntMeans DEF ProjectInv
<1>2. \A q \in Procs : proc'[q].at \in Copying => q # p /\ proc[q].at \in Copying
  BY DEF Comes
<1>3. \A q \in Procs : proc'[q].at \in Copying \cup Rebuilding =>
         /\ q # p /\ proc[q].at = proc'[q].at
         /\ db.core \/ (proc[q].at \notin Copying /\ proc[q].since = 0)
  <2>1. ASSUME NEW q \in Procs, proc'[q].at \in Copying \cup Rebuilding
        PROVE  /\ q # p /\ proc[q].at = proc'[q].at
               /\ db.core \/ (proc[q].at \notin Copying /\ proc[q].since = 0)
    <3>1. q # p /\ proc[q].at = proc'[q].at
      BY <2>1 DEF Comes
    <3>2. CASE ~proc[q].lost
      <4>1. SchemaOf(db) = Current
        BY <1>1, <2>1, <3>1, <3>2 DEF Learnt, Working
      <4> QED
        BY <3>1, <4>1, Schemas, <1>1 DEF TypeOK
    <3>3. CASE proc[q].lost
      <4>1. proc[q].since = 0 /\ proc[q].at \in {"orphan", "clear", "done"} \cup Rebuilding
        BY <1>1, <3>3 DEF Learnt
      <4> QED
        BY <3>1, <4>1 DEF Copying, Rebuilding
    <3> QED
      BY <3>2, <3>3
  <2> QED
    BY <2>1
<1>4. /\ db.seq \in Nat /\ db'.seq \in Nat /\ out.seq \in Nat /\ out.records \in Nat
      /\ out.last \in Nat
      /\ \A q \in Procs : proc[q].since \in Nat /\ proc[q].seq \in Nat
  BY <1>1, SeqsFacts DEF TypeOK, Databases, Exports, Processes
<1>5. (AcceptedExportIsOfOneMoment)'
  BY <1>1 DEF AcceptedExportIsOfOneMoment
<1>6. ExportInOrder'
  <2>1. ASSUME NEW q \in Procs, proc'[q].at \in Copying
        PROVE  /\ out.state = "open"
               /\ \A r \in Procs : proc'[r].at \in Copying => r = q
               /\ proc'[q].at = "records" => out.seq <= db'.seq
               /\ proc'[q].at = "events" => out.seq <= out.records /\ out.records <= db'.seq
               /\ proc'[q].at = "finish" => out.seq <= out.records /\ out.records <= out.last
    <3>1. proc[q].at = proc'[q].at /\ db.seq <= db'.seq
      BY <1>3, <2>1
    <3>2. /\ out.state = "open"
          /\ \A r \in Procs : proc[r].at \in Copying => r = q
          /\ proc[q].at = "records" => out.seq <= db.seq
          /\ proc[q].at = "events" => out.seq <= out.records /\ out.records <= db.seq
          /\ proc[q].at = "finish" => out.seq <= out.records /\ out.records <= out.last
      BY <1>1, <2>1, <3>1 DEF ExportInOrder, At
    <3> QED
      BY <1>2, <1>4, <3>1, <3>2
  <2>2. out.state = "done" => out.seq <= out.records /\ out.records <= out.last
    BY <1>1 DEF ExportInOrder
  <2> QED
    BY <2>1, <2>2 DEF ExportInOrder, At
<1>7. ASSUME NEW q \in Procs, proc'[q].alone
      PROVE  /\ q # p /\ proc[q].alone /\ proc[q].at = proc'[q].at
             /\ proc[q].seq = proc'[q].seq /\ proc[q].since = proc'[q].since
             /\ proc[q].at = "read" => db.seq <= db'.seq \/ proc[q].since = 0
  <2>1. /\ q # p /\ proc[q].alone /\ proc[q].at = proc'[q].at
        /\ proc[q].seq = proc'[q].seq /\ proc[q].since = proc'[q].since
    BY <1>7 DEF Comes
  <2>2. proc[q].at = "read" => db.seq <= db'.seq \/ proc[q].since = 0
    BY <1>3, <2>1 DEF Rebuilding
  <2> QED
    BY <2>1, <2>2
<1>8. AloneRebuilds'
  <2>1. ASSUME NEW q \in Procs, proc'[q].alone
        PROVE  /\ proc'[q].at \in Rebuilding \cup {"done"}
               /\ \A r \in Procs \ {q} : proc'[r].at \notin Rebuilding
               /\ proc'[q].at = "read" => proc'[q].since <= db'.seq
               /\ proc'[q].at \in {"draft", "rename"} => proc'[q].since <= proc'[q].seq
    <3>1. /\ proc[q].at \in Rebuilding \cup {"done"}
          /\ \A r \in Procs \ {q} : proc[r].at \notin Rebuilding
          /\ proc[q].at = "read" => proc[q].since <= db.seq
          /\ proc[q].at \in {"draft", "rename"} => proc[q].since <= proc[q].seq
      BY <1>1, <1>7, <2>1 DEF AloneRebuilds, At
    <3>2. \A r \in Procs \ {q} : proc'[r].at \notin Rebuilding
      BY <1>3, <3>1
    <3> QED
      BY <1>4, <1>7, <2>1, <3>1, <3>2
  <2> QED
    BY <2>1 DEF AloneRebuilds, At
<1>9. LoneRebuildShowsCommit'
  BY <1>1, <1>7 DEF LoneRebuildShowsCommit, At
<1> QED
  BY <1>5, <1>6, <1>8, <1>9

\* p moves, the database stays.
LEMMA MovePlain ==
    ASSUME ProjectInv, NEW p \in Procs, NEW n \in Processes, Moves(p, n), Learnt(n, db),
           ~n.alone, n.at \notin Copying \cup Rebuilding,
           file' = file, out' = out, dir' \in BOOLEAN, bootstraps' \in 0..2
    PROVE  ProjectInv'
<1>1. /\ TypeOK /\ db.archived < MaxSeq /\ SchemaOf(db) \in {NoSchema, Alpha, Legacy, Current}
      /\ \A q \in Procs : Learnt(proc[q], db)
  BY LearntMeans DEF ProjectInv
<1>2. db' = db /\ proc' = [proc EXCEPT ![p] = n]
  BY DEF Moves
<1>3. TypeOK' /\ (db.archived < MaxSeq)'
  BY <1>1, <1>2 DEF TypeOK
<1>4. \A q \in Procs : Learnt(proc'[q], db')
  BY <1>1, <1>2 DEF TypeOK
<1>5. Comes(p, n)
  BY <1>1, <1>2, <1>3 DEF TypeOK, Comes
<1>6. db.seq <= db'.seq
  <2>1. db.seq \in Nat
    BY <1>1, SeqsFacts, DatabaseType DEF TypeOK
  <2> QED
    BY <1>2, <2>1
<1>7. (SchemaWhole /\ SchemaLearnt /\ RefusedOnlyByOthers /\ QuietReads)'
  <2>1. SchemaOf(db') \in {NoSchema, Alpha, Legacy, Current}
    BY <1>1, <1>2
  <2> QED
    BY <1>4, <2>1, LearntMeansNext
<1>8. /\ (AcceptedExportIsOfOneMoment /\ ExportInOrder)'
      /\ (LoneRebuildShowsCommit /\ AloneRebuilds)'
  BY <1>3, <1>5, <1>6, PlainStep
<1> QED
  BY <1>3, <1>7, <1>8 DEF ProjectInv

\* What others have learnt survives a change of the database, of which only the quiet
\* would have to know.
LEMMA OthersLearnt ==
    ASSUME NEW m \in Processes, NEW d \in Databases, NEW e \in Databases, Learnt(m, d),
           d.core => e.core, d.marked => e.marked,
           SchemaOf(d) = Current => SchemaOf(e) = Current, d # e
    PROVE  Learnt([m EXCEPT !.quiet = @ /\ (e = d \/ m.at \notin Connecting)], e)
<1> DEFINE n == [m EXCEPT !.quiet = @ /\ (e = d \/ m.at \notin Connecting)]
<1>1. /\ n.at = m.at /\ n.marked = m.marked /\ (n.quiet => m.quiet /\ m.at \notin Connecting)
      /\ n.lost = m.lost /\ n.since = m.since
  BY DEF Processes
<1> HIDE DEF n
<1>2. Learnt(n, e)
  BY <1>1 DEF Learnt, Connecting
<1> QED
  BY <1>2 DEF n

\* p makes the database d.
LEMMA BecomePlain ==
    ASSUME ProjectInv, NEW p \in Procs, NEW d \in Databases, NEW place \in Places,
           Becomes(p, d, place), d.archived < MaxSeq,
           SchemaOf(d) \in {NoSchema, Alpha, Legacy, Current},
           db.core => d.core /\ db.seq <= d.seq, db.marked => d.marked,
           SchemaOf(db) = Current => SchemaOf(d) = Current,
           Learnt([proc[p] EXCEPT !.at = place], d),
           ~proc[p].alone, place \notin Copying \cup Rebuilding,
           file' = file, out' = out, dir' \in BOOLEAN, bootstraps' \in 0..2
    PROVE  ProjectInv'
<1> DEFINE n == [proc[p] EXCEPT !.at = place]
<1>1. /\ TypeOK /\ db \in Databases /\ \A q \in Procs : proc[q] \in Processes
      /\ \A q \in Procs : Learnt(proc[q], db)
  BY LearntMeans DEF ProjectInv, TypeOK
<1>2. /\ db' = d
      /\ proc' = [q \in Procs |->
                    IF q = p THEN n
                    ELSE [proc[q] EXCEPT !.quiet = @ /\ (d = db \/ proc[q].at \notin Connecting)]]
  BY DEF Becomes
<1>3. n \in Processes /\ n.at = place /\ ~n.alone
  BY <1>1 DEF Processes
<1>4. \A q \in Procs :
        [proc[q] EXCEPT !.quiet = @ /\ (d = db \/ proc[q].at \notin Connecting)] \in Processes
  BY <1>1 DEF Processes
<1>5. TypeOK' /\ (db.archived < MaxSeq)'
  <2> HIDE DEF n
  <2> QED
    BY <1>1, <1>2, <1>3, <1>4 DEF TypeOK
<1>6. ASSUME NEW q \in Procs \ {p}
      PROVE  /\ Learnt(proc'[q], db')
             /\ proc'[q].at = proc[q].at /\ proc'[q].alone = proc[q].alone
             /\ proc'[q].seq = proc[q].seq /\ proc'[q].since = proc[q].since
  <2>1. proc'[q] = [proc[q] EXCEPT !.quiet = @ /\ (d = db \/ proc[q].at \notin Connecting)]
    BY <1>2
  <2>2. CASE d = db
    <3>1. proc'[q] = proc[q]
      BY <1>1, <2>1, <2>2 DEF Processes
    <3> QED
      BY <1>1, <1>2, <2>2, <3>1
  <2>3. CASE d # db
    BY <1>1, <1>2, <2>1, <2>3, OthersLearnt DEF Processes
  <2> QED
    BY <2>2, <2>3
<1>7. proc'[p] = n
  BY <1>2
<1>8. Comes(p, n)
  BY <1>5, <1>6, <1>7 DEF Comes, TypeOK
<1>9. (SchemaWhole /\ SchemaLearnt /\ RefusedOnlyByOthers /\ QuietReads)'
  <2>1. SchemaOf(db') \in {NoSchema, Alpha, Legacy, Current} /\ Learnt(proc'[p], db')
    BY <1>2, <1>7
  <2>2. \A q \in Procs : Learnt(proc'[q], db')
    BY <1>6, <2>1
  <2> QED
    BY <2>1, <2>2, LearntMeansNext
<1>10. /\ (AcceptedExportIsOfOneMoment /\ ExportInOrder)'
       /\ (LoneRebuildShowsCommit /\ AloneRebuilds)'
  BY <1>2, <1>3, <1>5, <1>8, PlainStep
<1> QED
  BY <1>5, <1>9, <1>10 DEF ProjectInv

\* The directory is removed: who works in it works on a removed file, and nothing is
\* exported there any more.
LEMMA RemoveKeeps ==
    ASSUME ProjectInv, NEW p \in Procs, RemoveState(p), bootstraps' \in 0..2
    PROVE  ProjectInv'
<1>1. /\ TypeOK /\ \A q \in Procs : proc[q] \in Processes
      /\ \A q \in Procs : Learnt(proc[q], db)
      /\ ExportInOrder /\ AcceptedExportIsOfOneMoment
  <2>1. TypeOK /\ ExportInOrder /\ AcceptedExportIsOfOneMoment
    BY DEF ProjectInv
  <2>2. \A q \in Procs : Learnt(proc[q], db)
    BY LearntMeans DEF ProjectInv
  <2> QED
    BY <2>1, <2>2 DEF TypeOK
<1>2. Absent \in Databases /\ ~Absent.core /\ Absent.archived = 0
      /\ SchemaOf(Absent) = NoSchema
  BY AbsentType
<1>3. /\ Idle \in Processes /\ ~Idle.alone /\ Idle.at = "idle" /\ ~Idle.lost /\ Idle.since = 0
  BY SeqsFacts DEF Idle, Processes, Places, AllJobs
<1>4. ASSUME NEW q \in Procs
      PROVE  /\ proc'[q] \in Processes
             /\ proc'[q].at \in {"idle", "connect", "refused", "bare", "done", "orphan", "clear"}
                                \cup Rebuilding
             /\ proc'[q].alone => proc[q].at = "connect" /\ proc[q].alone
             /\ proc'[q].at \in {"idle", "connect", "refused", "bare", "done"} /\ q # p =>
                  /\ proc[q].at = proc'[q].at
                  /\ proc'[q].quiet => proc[q].quiet
                  /\ proc'[q].lost = proc[q].lost /\ proc'[q].since = proc[q].since
             /\ proc'[q].at \in {"orphan", "clear"} \cup Rebuilding =>
                  proc'[q].lost /\ proc'[q].since = 0
             /\ q = p => proc'[q] = Idle
  <2>1. proc'[q] = IF q = p THEN Idle ELSE Bereft(proc[q])
    BY DEF RemoveState
  <2>2. CASE q = p
    BY <1>3, <2>1, <2>2 DEF Rebuilding
  <2>3. CASE q # p /\ proc[q].at = "connect"
    <3>1. proc'[q] = [proc[q] EXCEPT !.quiet = FALSE]
      BY <2>1, <2>3 DEF Bereft
    <3> QED
      BY <1>1, <2>3, <3>1 DEF Processes, Rebuilding
  <2>4. CASE q # p /\ proc[q].at \in {"idle", "refused", "bare", "done"}
    <3>1. proc'[q] = [proc[q] EXCEPT !.alone = FALSE]
      BY <2>1, <2>4 DEF Bereft
    <3> QED
      BY <1>1, <2>4, <3>1 DEF Processes, Rebuilding
  <2>5. CASE q # p /\ proc[q].at \notin {"connect", "idle", "refused", "bare", "done"}
    <3> DEFINE place == IF proc[q].at \in {"clear"} \cup Rebuilding THEN proc[q].at ELSE "orphan"
    <3>1. proc[q].job \in AllJobs /\ proc[q].existed \in BOOLEAN
      BY <1>1, ProcessType
    <3>2. proc'[q] = [Idle EXCEPT !.at = place, !.job = proc[q].job,
                                  !.existed = proc[q].existed, !.lost = TRUE]
      BY <2>1, <2>5 DEF Bereft
    <3>3. place \in {"orphan", "clear"} \cup Rebuilding /\ place \in Places
      BY DEF Places, Working
    <3> HIDE DEF place
    <3>4. /\ proc'[q] \in Processes /\ proc'[q].at = place /\ ~proc'[q].alone
          /\ proc'[q].lost /\ proc'[q].since = 0
      BY <1>3, <3>1, <3>2, <3>3 DEF Processes
    <3> QED
      BY <2>5, <3>3, <3>4 DEF Rebuilding
  <2> QED
    BY <2>2, <2>3, <2>4, <2>5
<1>5. /\ db' = Absent /\ dir' = FALSE /\ file' = 0
      /\ out' = [out EXCEPT !.state = IF @ = "open" THEN "debris" ELSE @]
      /\ proc' \in [Procs -> Processes]
  BY <1>4 DEF RemoveState
<1>6. /\ out' \in Exports /\ out'.seq = out.seq /\ out'.records = out.records
      /\ out'.first = out.first /\ out'.last = out.last
      /\ out'.state = "done" => out.state = "done"
  BY <1>1, <1>5 DEF TypeOK, Exports
<1>7. TypeOK' /\ (db.archived < MaxSeq)'
  <2>1. /\ db' \in Databases /\ db'.archived = 0 /\ 0 < MaxSeq
        /\ dir' \in BOOLEAN /\ file' \in Seqs
    BY <1>2, <1>5, SeqsFacts
  <2>2. TypeOK'
    BY <1>5, <1>6, <2>1 DEF TypeOK
  <2> QED
    BY <2>1, <2>2
<1>8. ASSUME NEW q \in Procs
      PROVE  Learnt(proc'[q], db')
  <2>1. CASE q = p
    BY <1>3, <1>4, <2>1 DEF Learnt, Working, Rebuilding, Copying, Connecting
  <2>2. CASE q # p /\ proc'[q].at \in {"idle", "connect", "refused", "bare", "done"}
    BY <1>1, <1>4, <2>2 DEF Learnt, Working, Rebuilding, Copying, Connecting
  <2>3. CASE proc'[q].at \in {"orphan", "clear"} \cup Rebuilding
    BY <1>4, <2>3 DEF Learnt, Working, Rebuilding, Copying, Connecting
  <2> QED
    BY <1>4, <2>1, <2>2, <2>3
<1>9. (SchemaWhole /\ SchemaLearnt /\ RefusedOnlyByOthers /\ QuietReads)'
  <2>1. SchemaOf(db') \in {NoSchema, Alpha, Legacy, Current}
    BY <1>2, <1>5
  <2> QED
    BY <1>8, <2>1, LearntMeansNext
<1>10. (AcceptedExportIsOfOneMoment /\ ExportInOrder)'
  <2>1. \A q \in Procs : proc'[q].at \notin Copying
    BY <1>4 DEF Copying, Rebuilding
  <2> QED
    BY <1>1, <1>6, <2>1 DEF AcceptedExportIsOfOneMoment, ExportInOrder, AlphaAccepts, At
<1>11. \A q \in Procs : ~proc'[q].alone
  <2>1. \A q \in Procs : proc[q].at = "connect" => ~proc[q].alone
    BY DEF ProjectInv, AloneRebuilds, Rebuilding
  <2> QED
    BY <1>4, <2>1
<1>12. (LoneRebuildShowsCommit /\ AloneRebuilds)'
  BY <1>11 DEF LoneRebuildShowsCommit, AloneRebuilds
<1> QED
  BY <1>7, <1>9, <1>10, <1>12 DEF ProjectInv

-----------------------------------------------------------------------------
(* What the invariant says of one process.                                 *)

LEMMA OfProcess ==
    ASSUME ProjectInv, NEW p \in Procs
    PROVE  /\ TypeOK /\ db \in Databases /\ db.archived < MaxSeq /\ proc[p] \in Processes
           /\ SchemaOf(db) \in {NoSchema, Alpha, Legacy, Current}
           /\ Learnt(proc[p], db)
           /\ proc[p].alone => proc[p].at \in Rebuilding \cup {"done"}
           /\ proc[p].lost => proc[p].at \in {"orphan", "clear", "done"} \cup Rebuilding
<1>1. TypeOK /\ db.archived < MaxSeq
  BY DEF ProjectInv
<1>2. SchemaOf(db) \in {NoSchema, Alpha, Legacy, Current} /\ Learnt(proc[p], db)
  BY LearntMeans DEF ProjectInv
<1>3. proc[p].alone => proc[p].at \in Rebuilding \cup {"done"}
  BY DEF ProjectInv, AloneRebuilds
<1>4. proc[p].lost => proc[p].at \in {"orphan", "clear", "done"} \cup Rebuilding
  BY <1>2 DEF Learnt
<1> QED
  BY <1>1, <1>2, <1>3, <1>4 DEF TypeOK

LEMMA IdleType ==
    /\ Idle \in Processes /\ Idle.at = "idle" /\ ~Idle.alone /\ Idle.quiet /\ ~Idle.lost
BY SeqsFacts DEF Idle, Processes, Places, AllJobs

\* Nothing has been learnt in these places.
LEMMA NothingLearnt ==
    ASSUME NEW m, m.at \in {"idle", "connect", "inspect", "bare"}, ~m.lost, NEW d
    PROVE  Learnt(m, d)
BY DEF Learnt, Working, Rebuilding, Copying, Connecting

\* Who works on the database needs to know only its schema.
LEMMA WorkersLearn ==
    ASSUME NEW m, m.at \in Working \cup {"done"}, ~m.lost, NEW d, SchemaOf(d) = Current
    PROVE  Learnt(m, d)
BY DEF Learnt, Working, Rebuilding, Copying, Connecting

LEMMA GoIdleKeeps ==
    ASSUME ProjectInv, NEW p \in Procs, Moves(p, Idle),
           file' = file, out' = out, dir' \in BOOLEAN, bootstraps' \in 0..2
    PROVE  ProjectInv'
<1>1. Learnt(Idle, db) /\ Idle.at \notin Copying \cup Rebuilding
  BY NothingLearnt, IdleType DEF Copying, Rebuilding
<1> QED
  BY <1>1, IdleType, MovePlain

\* An export's debris, and a finished export, are nobody's work.
LEMMA InitFailsKeeps ==
    ASSUME ProjectInv, NEW p \in Procs, InitFails(p), bootstraps' \in 0..2
    PROVE  ProjectInv'
<1>1. CASE RemoveState(p)
  BY <1>1, RemoveKeeps
<1>2. CASE Moves(p, Idle) /\ UNCHANGED <<dir, file, out>>
  BY <1>2, GoIdleKeeps DEF ProjectInv, TypeOK
<1> QED
  BY <1>1, <1>2 DEF InitFails

LEMMA StartInitKeeps ==
    ASSUME ProjectInv, NEW p \in Procs, NEW r \in Requests, StartInit(p, r)
    PROVE  ProjectInv'
<1> DEFINE n == [Idle EXCEPT !.at = "connect", !.job = "init", !.request = r, !.existed = dir]
<1>1. /\ dir \in BOOLEAN /\ bootstraps \in 0..2
  BY DEF ProjectInv, TypeOK
<1>2. n \in Processes /\ n.at = "connect" /\ ~n.alone /\ ~n.lost
  BY <1>1, IdleType DEF Processes, Places, Connecting, AllJobs
<1>3. Moves(p, n) /\ UNCHANGED Files
  BY DEF StartInit
<1> HIDE DEF n
<1> QED
  BY <1>1, <1>2, <1>3, MovePlain, NothingLearnt DEF Files, Copying, Rebuilding

LEMMA StartOpenKeeps ==
    ASSUME ProjectInv, NEW p \in Procs, NEW j \in Jobs, StartOpen(p, j)
    PROVE  ProjectInv'
<1> DEFINE n == [Idle EXCEPT !.at = "connect", !.job = j]
<1>1. /\ dir \in BOOLEAN /\ bootstraps \in 0..2
  BY DEF ProjectInv, TypeOK
<1>2. n \in Processes /\ n.at = "connect" /\ ~n.alone /\ ~n.lost
  BY <1>1, IdleType, ProjectAssumption DEF Processes, Places, Connecting
<1>3. Moves(p, n) /\ UNCHANGED Files
  BY DEF StartOpen
<1> HIDE DEF n
<1> QED
  BY <1>1, <1>2, <1>3, MovePlain, NothingLearnt DEF Files, Copying, Rebuilding

\* A step of p that leaves everything but p alone.
LEMMA MoveOnly ==
    ASSUME ProjectInv, NEW p \in Procs, NEW n \in Processes, Moves(p, n), Learnt(n, db),
           ~n.alone, n.at \notin Copying \cup Rebuilding, UNCHANGED Files
    PROVE  ProjectInv'
<1>1. dir' \in BOOLEAN /\ bootstraps' \in 0..2 /\ file' = file /\ out' = out
  BY DEF ProjectInv, TypeOK, Files
<1> QED
  BY <1>1, MovePlain

\* An init makes the directory that is missing.
LEMMA MakeDirKeeps ==
    ASSUME ProjectInv, NEW p \in Procs, MakeDir(p)
    PROVE  ProjectInv'
<1>1. proc[p] \in Processes /\ proc[p].at = "connect" /\ ~proc[p].alone /\ Learnt(proc[p], db)
  BY OfProcess DEF MakeDir, At, Rebuilding
<1>2. Moves(p, proc[p])
  BY DEF MakeDir, Moves, ProjectInv, TypeOK
<1>3. dir' \in BOOLEAN /\ bootstraps' \in 0..2 /\ file' = file /\ out' = out
  BY DEF MakeDir, ProjectInv, TypeOK
<1> QED
  BY <1>1, <1>2, <1>3, MovePlain DEF Copying, Rebuilding

LEMMA RefusedKeeps ==
    ASSUME ProjectInv, NEW p \in Procs, Refused(p), ~proc[p].quiet, UNCHANGED Files
    PROVE  ProjectInv'
<1> DEFINE n == [Idle EXCEPT !.at = "refused", !.quiet = proc[p].quiet]
<1>1. n \in Processes /\ n.at = "refused" /\ ~n.alone /\ ~n.quiet /\ ~n.lost
  BY IdleType, OfProcess, ProcessType DEF Processes, Places
<1>2. Moves(p, n)
  BY DEF Refused
<1> HIDE DEF n
<1>3. Learnt(n, db)
  BY <1>1 DEF Learnt, Working, Rebuilding, Copying, Connecting
<1> QED
  BY <1>1, <1>2, <1>3, MoveOnly DEF Copying, Rebuilding

LEMMA InspectKeeps ==
    ASSUME ProjectInv, NEW p \in Procs, Inspect(p)
    PROVE  ProjectInv'
<1> DEFINE n == [proc[p] EXCEPT !.cand = db.cand, !.at = IF db.core THEN "marker" ELSE "create"]
<1>1. /\ n \in Processes /\ n.at = IF db.core THEN "marker" ELSE "create"
      /\ ~n.alone /\ n.cand = db.cand /\ ~n.lost
  BY OfProcess, DatabaseType
     DEF Inspect, At, Processes, Places, Connecting, Rebuilding
<1>2. Moves(p, n) /\ UNCHANGED Files
  BY DEF Inspect
<1> HIDE DEF n
<1>3. Learnt(n, db)
  BY <1>1 DEF Learnt, Working, Rebuilding, Copying, Connecting
<1> QED
  BY <1>1, <1>2, <1>3, MoveOnly DEF Copying, Rebuilding

LEMMA ReadMarkerKeeps ==
    ASSUME ProjectInv, NEW p \in Procs, ReadMarker(p)
    PROVE  ProjectInv'
<1> DEFINE n == [proc[p] EXCEPT !.marked = db.marked, !.at = "version"]
<1>0. proc[p].at = "marker" /\ Learnt(proc[p], db) /\ ~proc[p].alone /\ ~proc[p].lost
  BY OfProcess DEF ReadMarker, At, Rebuilding
<1>1. /\ n \in Processes /\ n.at = "version" /\ ~n.alone /\ n.cand = proc[p].cand
      /\ n.marked = db.marked /\ n.quiet = proc[p].quiet /\ ~n.lost
  BY <1>0, OfProcess, DatabaseType DEF Processes, Places, Connecting
<1>2. Moves(p, n) /\ UNCHANGED Files
  BY DEF ReadMarker
<1> HIDE DEF n
<1>3. Learnt(n, db)
  BY <1>0, <1>1 DEF Learnt, Working, Rebuilding, Copying, Connecting
<1> QED
  BY <1>1, <1>2, <1>3, MoveOnly DEF Copying, Rebuilding

\* A reader whom nobody disturbed understands each of the releases' schemas.
LEMMA QuietVerdict ==
    ASSUME NEW d \in Databases, d.core, SchemaOf(d) \in {NoSchema, Alpha, Legacy, Current}
    PROVE  Verdict(d.cand, d.marked, d.version) # "refused"
<1>1. SchemaOf(d) \in {Alpha, Legacy, Current}
  BY Schemas
<1>2. Legacy.cand \subseteq CandidateTables /\ CandidateTables # {}
  BY DEF Legacy, CandidateTables
<1>3. CASE SchemaOf(d) = Alpha
  BY <1>3, Schemas DEF Verdict
<1>4. CASE SchemaOf(d) = Legacy
  BY <1>4, Schemas DEF Verdict
<1>5. CASE SchemaOf(d) = Current
  BY <1>2, <1>5, Schemas DEF Verdict
<1> QED
  BY <1>1, <1>3, <1>4, <1>5

LEMMA ReadVersionKeeps ==
    ASSUME ProjectInv, NEW p \in Procs, ReadVersion(p)
    PROVE  ProjectInv'
<1> DEFINE v == Verdict(proc[p].cand, proc[p].marked, db.version)
           n == [proc[p] EXCEPT !.at = v]
<1>0. /\ proc[p].at = "version" /\ Learnt(proc[p], db) /\ ~proc[p].alone
      /\ db \in Databases /\ proc[p] \in Processes
      /\ SchemaOf(db) \in {NoSchema, Alpha, Legacy, Current} /\ UNCHANGED Files
  BY OfProcess DEF ReadVersion, At, Rebuilding
<1>1. /\ db.core /\ (proc[p].marked => db.marked)
      /\ proc[p].quiet => proc[p].cand = db.cand /\ proc[p].marked = db.marked
  BY <1>0 DEF Learnt, Connecting
<1>2. CASE v = "refused" /\ Refused(p)
  <2>1. ~proc[p].quiet
    BY <1>0, <1>1, <1>2, QuietVerdict
  <2> QED
    BY <1>0, <1>2, <2>1, RefusedKeeps
<1>3. CASE v # "refused" /\ Goes(p, v)
  <2>1. /\ v \in {"checkAlpha", "upgrade", "check"}
        /\ v = "checkAlpha" => ~proc[p].marked
        /\ v = "upgrade" => proc[p].marked
        /\ v = "check" => proc[p].marked /\ db.version = 2
    BY <1>3 DEF Verdict
  <2>2. v = "check" => SchemaOf(db) = Current
    BY <1>0, <2>1, Schemas
  <2> HIDE DEF v
  <2>3. /\ n \in Processes /\ n.at = v /\ ~n.alone /\ n.quiet = proc[p].quiet /\ ~n.lost
    BY <1>0, <2>1, OfProcess DEF Rebuilding, Processes, Places, Connecting
  <2>4. Moves(p, n)
    BY <1>3 DEF Goes
  <2> HIDE DEF n
  <2>5. Learnt(n, db)
    BY <1>1, <2>1, <2>2, <2>3 DEF Learnt, Working, Rebuilding, Copying, Connecting
  <2> QED
    BY <1>0, <2>1, <2>3, <2>4, <2>5, MoveOnly DEF Copying, Rebuilding
<1> QED
  BY <1>2, <1>3 DEF ReadVersion

LEMMA ReadSequenceKeeps ==
    ASSUME ProjectInv, NEW p \in Procs, ReadSequence(p)
    PROVE  ProjectInv'
<1> DEFINE n == [proc[p] EXCEPT !.seq = db.seq, !.archived = db.archived,
                                !.marked = At(p, "check"), !.at = "validate"]
<1>0. /\ proc[p].at \in {"checkAlpha", "check"} /\ Learnt(proc[p], db) /\ ~proc[p].alone
      /\ proc[p] \in Processes /\ db \in Databases
  BY OfProcess DEF ReadSequence, Rebuilding
<1>1. /\ n.at = "validate" /\ n.marked = (proc[p].at = "check") /\ n.quiet = proc[p].quiet
      /\ n.seq = db.seq /\ n.archived = db.archived /\ ~n.alone /\ ~n.lost
  BY <1>0, OfProcess DEF Processes, At, Rebuilding
<1>2. n \in Processes
  BY <1>0, DatabaseType DEF Processes, At, Places, Connecting
<1>3. Moves(p, n) /\ UNCHANGED Files
  BY DEF ReadSequence
<1> HIDE DEF n
<1>4. Learnt(n, db)
  BY <1>0, <1>1 DEF Learnt, Working, Rebuilding, Copying, Connecting
<1> QED
  BY <1>1, <1>2, <1>3, <1>4, MoveOnly DEF Copying, Rebuilding

LEMMA ValidateKeeps ==
    ASSUME ProjectInv, NEW p \in Procs, Validate(p)
    PROVE  ProjectInv'
<1>0. /\ proc[p].at = "validate" /\ Learnt(proc[p], db) /\ ~proc[p].alone
      /\ proc[p] \in Processes /\ UNCHANGED Files
  BY OfProcess DEF Validate, At, Rebuilding
<1>1. CASE Refused(p) /\ (proc[p].seq # db.seq \/ proc[p].archived # db.archived)
  <2>1. ~proc[p].quiet
    BY <1>0, <1>1 DEF Learnt
  <2> QED
    BY <1>0, <1>1, <2>1, RefusedKeeps
<1>2. CASE Goes(p, IF proc[p].marked THEN "opened" ELSE "migrate")
  <2> DEFINE to == IF proc[p].marked THEN "opened" ELSE "migrate"
             n == [proc[p] EXCEPT !.at = to]
  <2>1. n \in Processes /\ n.at = to /\ ~n.alone /\ n.quiet = proc[p].quiet /\ ~n.lost
    BY <1>0, OfProcess DEF Processes, Places, Connecting, Working, Rebuilding
  <2>2. Moves(p, n)
    BY <1>2 DEF Goes
  <2> HIDE DEF n
  <2>3. Learnt(n, db)
    BY <1>0, <2>1 DEF Learnt, Working, Rebuilding, Copying, Connecting
  <2> QED
    BY <1>0, <2>1, <2>2, <2>3, MoveOnly DEF Copying, Rebuilding
<1> QED
  BY <1>1, <1>2 DEF Validate

LEMMA FindKeeps ==
    ASSUME ProjectInv, NEW p \in Procs, Find(p)
    PROVE  ProjectInv'
<1>0. /\ SchemaOf(db) = Current /\ proc[p] \in Processes /\ UNCHANGED Files
  BY OfProcess DEF Find, At, Learnt, Working, Rebuilding
<1>1. CASE Moves(p, Idle)
  BY <1>0, <1>1, MoveOnly, IdleType, NothingLearnt DEF Copying, Rebuilding
<1>2. CASE Moves(p, [Idle EXCEPT !.at = "work", !.job = proc[p].job, !.seq = proc[p].seq,
                       !.request = proc[p].request, !.existed = proc[p].existed])
  <2> DEFINE n == [Idle EXCEPT !.at = "work", !.job = proc[p].job, !.seq = proc[p].seq,
                       !.request = proc[p].request, !.existed = proc[p].existed]
  <2>1. n \in Processes /\ n.at = "work" /\ ~n.alone /\ ~n.lost
    BY <1>0, IdleType, ProcessType DEF Processes, Places, Working
  <2> HIDE DEF n
  <2>2. Learnt(n, db)
    BY <1>0, <2>1, WorkersLearn DEF Working
  <2>3. Moves(p, n)
    BY <1>2 DEF n
  <2> QED
    BY <1>0, <2>1, <2>2, <2>3, MoveOnly DEF Copying, Rebuilding
<1> QED
  BY <1>1, <1>2 DEF Find

\* A worker goes on to another place of its work.
LEMMA WorkerGoes ==
    ASSUME ProjectInv, NEW p \in Procs, proc[p].at \in Working, ~proc[p].alone, ~proc[p].lost,
           NEW to \in Working \cup {"done"}, to \notin Copying \cup Rebuilding,
           Goes(p, to), UNCHANGED Files
    PROVE  ProjectInv'
<1> DEFINE n == [proc[p] EXCEPT !.at = to]
<1>1. n \in Processes /\ n.at = to /\ ~n.alone /\ ~n.lost /\ SchemaOf(db) = Current
  BY OfProcess DEF Processes, Places, Learnt
<1>2. Moves(p, n)
  BY DEF Goes
<1> HIDE DEF n
<1> QED
  BY <1>1, <1>2, MoveOnly, WorkersLearn

LEMMA IdleOnly ==
    ASSUME ProjectInv, NEW p \in Procs, Moves(p, Idle), UNCHANGED Files
    PROVE  ProjectInv'
BY MoveOnly, IdleType, NothingLearnt DEF Copying, Rebuilding

LEMMA NothingKeeps ==
    ASSUME ProjectInv, NEW p \in Procs, Nothing(p)
    PROVE  ProjectInv'
BY IdleOnly DEF Nothing

LEMMA ExportJournalKeeps ==
    ASSUME ProjectInv, NEW p \in Procs, ExportJournal(p)
    PROVE  ProjectInv'
<1>0. proc[p].at = "work" /\ ~proc[p].alone /\ ~proc[p].lost /\ UNCHANGED Files
  BY OfProcess DEF ExportJournal, At, Rebuilding
<1>1. CASE Moves(p, Idle)
  BY <1>0, <1>1, IdleOnly
<1>2. CASE Goes(p, "archives")
  BY <1>0, <1>2, WorkerGoes DEF Working, Copying, Rebuilding
<1> QED
  BY <1>1, <1>2 DEF ExportJournal, Goes

LEMMA ExportArchivesKeeps ==
    ASSUME ProjectInv, NEW p \in Procs, ExportArchives(p)
    PROVE  ProjectInv'
<1>0. proc[p].at = "archives" /\ ~proc[p].alone /\ ~proc[p].lost /\ UNCHANGED Files
  BY OfProcess DEF ExportArchives, At, Rebuilding
<1>1. CASE Moves(p, Idle)
  BY <1>0, <1>1, IdleOnly
<1>2. CASE Goes(p, "target")
  BY <1>0, <1>2, WorkerGoes DEF Working, Copying, Rebuilding
<1> QED
  BY <1>1, <1>2 DEF ExportArchives, Goes

LEMMA DoneKeeps ==
    ASSUME ProjectInv, NEW p \in Procs, Done(p)
    PROVE  ProjectInv'
BY IdleOnly DEF Done

LEMMA OrphanKeeps ==
    ASSUME ProjectInv, NEW p \in Procs, Orphan(p)
    PROVE  ProjectInv'
<1>1. bootstraps' \in 0..2 /\ dir \in BOOLEAN
  BY DEF Orphan, ProjectInv, TypeOK
<1>2. CASE InitFails(p)
  BY <1>1, <1>2, InitFailsKeeps
<1>3. CASE Moves(p, Idle) /\ dir' \in {dir, TRUE} /\ UNCHANGED <<file, out>>
  BY <1>1, <1>3, GoIdleKeeps
<1>4. CASE Goes(p, "clear") /\ dir' \in {dir, TRUE} /\ UNCHANGED <<file, out>>
  <2> DEFINE n == [proc[p] EXCEPT !.at = "clear"]
  <2>1. proc[p] \in Processes /\ proc[p].lost /\ proc[p].since = 0 /\ ~proc[p].alone
    BY OfProcess DEF Orphan, At, Learnt, Rebuilding
  <2>2. n \in Processes /\ n.at = "clear" /\ n.lost /\ n.since = 0 /\ ~n.alone
    BY <2>1 DEF Processes, Places, Working
  <2>3. Moves(p, n)
    BY <1>4 DEF Goes
  <2> HIDE DEF n
  <2>4. Learnt(n, db) /\ n.at \notin Copying \cup Rebuilding
    BY <2>2 DEF Learnt, Working, Rebuilding, Copying, Connecting
  <2> QED
    BY <1>1, <1>4, <2>2, <2>3, <2>4, MovePlain
<1> QED
  BY <1>2, <1>3, <1>4 DEF Orphan

\* p makes the database d, of a schema of p's liking, and does nothing else.
LEMMA BecomeOnly ==
    ASSUME ProjectInv, NEW p \in Procs, NEW d \in Databases, NEW place \in Places,
           Becomes(p, d, place), d.archived < MaxSeq,
           SchemaOf(d) \in {NoSchema, Alpha, Legacy, Current},
           db.core => d.core /\ db.seq <= d.seq, db.marked => d.marked,
           SchemaOf(db) = Current => SchemaOf(d) = Current,
           Learnt([proc[p] EXCEPT !.at = place], d),
           ~proc[p].alone, place \notin Copying \cup Rebuilding, UNCHANGED Files
    PROVE  ProjectInv'
<1>1. dir' \in BOOLEAN /\ bootstraps' \in 0..2 /\ file' = file /\ out' = out
  BY DEF ProjectInv, TypeOK, Files
<1> QED
  BY <1>1, BecomePlain

LEMMA ConnectKeeps ==
    ASSUME ProjectInv, NEW p \in Procs, Connect(p)
    PROVE  ProjectInv'
<1> DEFINE d == IF db = Absent THEN Empty ELSE db
<1>0. /\ proc[p] \in Processes /\ ~proc[p].alone /\ ~proc[p].lost
      /\ db \in Databases /\ db.archived < MaxSeq
      /\ SchemaOf(db) \in {NoSchema, Alpha, Legacy, Current} /\ bootstraps \in 0..2
  BY OfProcess DEF Connect, At, Rebuilding, TypeOK
<1>1. /\ Empty \in Databases /\ SchemaOf(Empty) = NoSchema /\ Empty.archived = 0
      /\ Empty.seq = 0
  BY StoreType, SeqsFacts DEF Empty
<1>2. NoSchema # Current
  BY DEF NoSchema, Current
<1>3. /\ d \in Databases /\ d.archived < MaxSeq
      /\ SchemaOf(d) \in {NoSchema, Alpha, Legacy, Current}
      /\ db.core => d.core /\ db.seq <= d.seq
      /\ db.marked => d.marked
      /\ SchemaOf(db) = Current => SchemaOf(d) = Current
  <2>1. CASE db = Absent
    BY <1>1, <1>2, <2>1, AbsentType, SeqsFacts
  <2>2. CASE db # Absent
    <3>1. db.seq \in Nat
      BY <1>0, DatabaseType, SeqsFacts
    <3> QED
      BY <1>0, <2>2, <3>1
  <2> QED
    BY <2>1, <2>2
<1>4. Becomes(p, d, "inspect")
  BY DEF Connect
<1> HIDE DEF d
<1>5. Learnt([proc[p] EXCEPT !.at = "inspect"], d)
  <2> DEFINE n == [proc[p] EXCEPT !.at = "inspect"]
  <2>1. n.at = "inspect" /\ ~n.lost
    BY <1>0 DEF Processes
  <2> HIDE DEF n
  <2>2. Learnt(n, d)
    BY <2>1, NothingLearnt
  <2> QED
    BY <2>2 DEF n
<1>6. dir' \in BOOLEAN /\ bootstraps' \in 0..2 /\ file' = file /\ out' = out
  BY <1>0 DEF Connect
<1>7. "inspect" \in Places /\ "inspect" \notin Copying \cup Rebuilding
  BY DEF Places, Connecting, Copying, Rebuilding
<1> QED
  BY <1>0, <1>3, <1>4, <1>5, <1>6, <1>7, BecomePlain

LEMMA CreateSchemaKeeps ==
    ASSUME ProjectInv, NEW p \in Procs, CreateSchema(p)
    PROVE  ProjectInv'
<1>0. /\ proc[p] \in Processes /\ proc[p].at = "create" /\ ~proc[p].alone /\ ~proc[p].lost
      /\ Learnt(proc[p], db) /\ db \in Databases /\ UNCHANGED Files
      /\ SchemaOf(db) \in {NoSchema, Alpha, Legacy, Current}
  BY OfProcess DEF CreateSchema, At, Rebuilding
<1>1. CASE db.core /\ Refused(p)
  BY <1>0, <1>1, RefusedKeeps DEF Learnt
<1>2. CASE ~db.core /\ Becomes(p, Store(Current, 0), "opened")
  <2> DEFINE d == Store(Current, 0)
  <2>1. /\ d \in Databases /\ SchemaOf(d) = Current /\ d.archived = 0 /\ 0 < MaxSeq
    BY StoreType, SeqsFacts
  <2>2. ~db.marked /\ SchemaOf(db) # Current
    BY <1>0, <1>2, Schemas
  <2>3. [proc[p] EXCEPT !.at = "opened"].at = "opened" /\ ~[proc[p] EXCEPT !.at = "opened"].lost
    BY <1>0 DEF Processes
  <2>4. Becomes(p, d, "opened")
    BY <1>2
  <2> HIDE DEF d
  <2>5. Learnt([proc[p] EXCEPT !.at = "opened"], d)
    BY <2>1, <2>3, WorkersLearn DEF Working
  <2>6. "opened" \in Places /\ "opened" \notin Copying \cup Rebuilding
    BY DEF Places, Working, Copying, Rebuilding
  <2> QED
    BY <1>0, <1>2, <2>1, <2>2, <2>4, <2>5, <2>6, BecomeOnly
<1> QED
  BY <1>1, <1>2 DEF CreateSchema

LEMMA MigrateKeeps ==
    ASSUME ProjectInv, NEW p \in Procs, Migrate(p)
    PROVE  ProjectInv'
<1>0. /\ proc[p] \in Processes /\ proc[p].at = "migrate" /\ ~proc[p].alone /\ ~proc[p].lost
      /\ Learnt(proc[p], db) /\ db \in Databases /\ UNCHANGED Files
      /\ db.archived < MaxSeq /\ db.core
      /\ SchemaOf(db) \in {NoSchema, Alpha, Legacy, Current}
  BY OfProcess DEF Migrate, At, Rebuilding, Learnt, Connecting
<1>1. CASE db.marked /\ Refused(p)
  BY <1>0, <1>1, RefusedKeeps DEF Learnt
<1>2. CASE ~db.marked /\ Becomes(p, [db EXCEPT !.cand = CandidateTables, !.marked = TRUE,
                                               !.version = 2], "check")
  <2> DEFINE d == [db EXCEPT !.cand = CandidateTables, !.marked = TRUE, !.version = 2]
             n == [proc[p] EXCEPT !.at = "check"]
  <2>1. /\ d \in Databases /\ d.archived = db.archived /\ d.seq = db.seq /\ d.core = db.core
        /\ d.marked /\ d.cand = CandidateTables /\ d.version = 2
    <3>1. db \in Databases
      BY <1>0
    <3>2. CandidateTables \in SUBSET CandidateTables /\ 2 \in 0..2
      OBVIOUS
    <3>3. d \in Databases
      BY <3>1, <3>2 DEF Databases
    <3> QED
      BY <3>1, <3>3 DEF Databases
  <2>2. Becomes(p, d, "check")
    BY <1>2
  <2>3. db.seq \in Nat
    BY <1>0, DatabaseType, SeqsFacts
  <2>4. n.at = "check" /\ ~n.lost
    BY <1>0 DEF Processes
  <2> HIDE DEF d, n
  <2>5. SchemaOf(d) = Current
    BY <1>0, <2>1, Schemas
  <2>6. Learnt(n, d)
    BY <1>0, <2>1, <2>4, <2>5 DEF Learnt, Working, Rebuilding, Copying
  <2>7. "check" \in Places /\ "check" \notin Copying \cup Rebuilding
    BY DEF Places, Connecting, Copying, Rebuilding
  <2>8. d.archived < MaxSeq /\ db.seq <= d.seq
    BY <1>0, <2>1, <2>3
  <2>9. Learnt([proc[p] EXCEPT !.at = "check"], d)
    BY <2>6 DEF n
  <2> QED
    BY <1>0, <2>1, <2>2, <2>5, <2>7, <2>8, <2>9, BecomeOnly
<1>3. CASE Moves(p, [Idle EXCEPT !.at = "bare"])
  <2> DEFINE n == [Idle EXCEPT !.at = "bare"]
  <2>1. n \in Processes /\ n.at = "bare" /\ ~n.alone /\ ~n.lost
    BY IdleType DEF Processes, Places
  <2>2. Moves(p, n)
    BY <1>3
  <2> HIDE DEF n
  <2> QED
    BY <1>0, <2>1, <2>2, MoveOnly, NothingLearnt DEF Copying, Rebuilding
<1> QED
  BY <1>1, <1>2, <1>3 DEF Migrate

LEMMA UpgradeKeeps ==
    ASSUME ProjectInv, NEW p \in Procs, Upgrade(p)
    PROVE  ProjectInv'
<1>0. /\ proc[p] \in Processes /\ proc[p].at = "upgrade" /\ ~proc[p].alone /\ ~proc[p].lost
      /\ Learnt(proc[p], db) /\ db \in Databases /\ UNCHANGED Files
      /\ db.archived < MaxSeq /\ db.core /\ db.marked
  BY OfProcess DEF Upgrade, At, Rebuilding, Learnt, Connecting
<1> DEFINE d == [db EXCEPT !.cand = CandidateTables, !.version = 2]
           n == [proc[p] EXCEPT !.at = "opened"]
<1>1. /\ d \in Databases /\ d.archived = db.archived /\ d.seq = db.seq /\ d.core = db.core
      /\ d.marked = db.marked /\ d.cand = CandidateTables /\ d.version = 2
  <2>1. db \in Databases
    BY <1>0
  <2>2. CandidateTables \in SUBSET CandidateTables /\ 2 \in 0..2
    OBVIOUS
  <2>3. d \in Databases
    BY <2>1, <2>2 DEF Databases
  <2> QED
    BY <2>1, <2>3 DEF Databases
<1>2. Becomes(p, d, "opened")
  BY DEF Upgrade
<1>3. db.seq \in Nat
  BY <1>0, DatabaseType, SeqsFacts
<1>4. n.at = "opened" /\ ~n.lost
  BY <1>0 DEF Processes
<1> HIDE DEF d, n
<1>5. SchemaOf(d) = Current
  BY <1>0, <1>1, Schemas
<1>6. Learnt(n, d)
  BY <1>4, <1>5, WorkersLearn DEF Working
<1>7. "opened" \in Places /\ "opened" \notin Copying \cup Rebuilding
  BY DEF Places, Working, Copying, Rebuilding
<1>8. d.archived < MaxSeq /\ db.seq <= d.seq
  BY <1>0, <1>1, <1>3
<1>9. Learnt([proc[p] EXCEPT !.at = "opened"], d)
  BY <1>6 DEF n
<1>10. SchemaOf(d) \in {NoSchema, Alpha, Legacy, Current}
  BY <1>5
<1> QED
  BY <1>0, <1>1, <1>2, <1>5, <1>7, <1>8, <1>9, <1>10, BecomeOnly

\* A worker changes rows of the database, and not its schema.
LEMMA WorkerChanges ==
    ASSUME ProjectInv, NEW p \in Procs, proc[p].at \in Working, ~proc[p].alone, ~proc[p].lost,
           NEW d \in Databases, SchemaOf(d) = SchemaOf(db), d.archived < MaxSeq,
           db.seq <= d.seq, NEW to \in {"clear", "done"}, Becomes(p, d, to),
           file' = file, out' = out, dir' = dir, bootstraps' \in 0..2
    PROVE  ProjectInv'
<1> DEFINE n == [proc[p] EXCEPT !.at = to]
<1>0. /\ proc[p] \in Processes /\ Learnt(proc[p], db) /\ db \in Databases /\ dir \in BOOLEAN
  BY OfProcess DEF TypeOK
<1>1. SchemaOf(d) = Current /\ SchemaOf(db) = Current
  BY <1>0 DEF Learnt
<1>2. db.core /\ d.core /\ db.marked /\ d.marked
  BY <1>0, <1>1, Schemas
<1>3. n.at = to /\ ~n.lost /\ to \in Working \cup {"done"}
  BY <1>0 DEF Processes, Working
<1> HIDE DEF n
<1>4. Learnt(n, d)
  BY <1>1, <1>3, WorkersLearn
<1>5. to \in Places /\ to \notin Copying \cup Rebuilding
  BY DEF Places, Working, Copying, Rebuilding
<1> QED
  BY <1>0, <1>1, <1>2, <1>4, <1>5, BecomePlain DEF n

LEMMA BootstrapKeeps ==
    ASSUME ProjectInv, NEW p \in Procs, Bootstrap(p)
    PROVE  ProjectInv'
<1>0. /\ proc[p] \in Processes /\ proc[p].at = "work" /\ ~proc[p].alone /\ proc[p].at \in Working
      /\ ~proc[p].lost
      /\ db \in Databases /\ db.archived < MaxSeq /\ bootstraps \in 0..2
  BY OfProcess DEF Bootstrap, At, Rebuilding, Working, TypeOK
<1>1. CASE Goes(p, "clear") /\ UNCHANGED Files
  BY <1>0, <1>1, WorkerGoes DEF Working, Copying, Rebuilding
<1>2. CASE InitFails(p) /\ UNCHANGED bootstraps
  BY <1>0, <1>2, InitFailsKeeps
<1>3. CASE /\ db.seq = 0
           /\ Becomes(p, [db EXCEPT !.seq = 1, !.request = proc[p].request], "clear")
           /\ bootstraps' = IF bootstraps = 0 THEN 1 ELSE 2
           /\ UNCHANGED <<dir, file, out>>
  <2> DEFINE d == [db EXCEPT !.seq = 1, !.request = proc[p].request]
  <2>1. proc[p].request \in Requests \cup {NoRequest}
    BY <1>0, ProcessType
  <2>2. /\ d \in Databases /\ d.archived = db.archived /\ d.seq = 1
        /\ d.core = db.core /\ d.cand = db.cand /\ d.marked = db.marked /\ d.version = db.version
    BY <1>0, <2>1, SeqsFacts DEF Databases
  <2>3. Becomes(p, d, "clear") /\ bootstraps' \in 0..2
    BY <1>3
  <2> HIDE DEF d
  <2>4. SchemaOf(d) = SchemaOf(db)
    BY <2>2 DEF SchemaOf
  <2> QED
    BY <1>0, <1>3, <2>2, <2>3, <2>4, WorkerChanges
<1> QED
  BY <1>1, <1>2, <1>3 DEF Bootstrap

LEMMA CommandKeeps ==
    ASSUME ProjectInv, NEW p \in Procs, Command(p)
    PROVE  ProjectInv'
<1>0. /\ proc[p] \in Processes /\ proc[p].at = "work" /\ ~proc[p].alone /\ proc[p].at \in Working
      /\ ~proc[p].lost
      /\ db \in Databases /\ db.archived < MaxSeq /\ bootstraps \in 0..2
  BY OfProcess DEF Command, At, Rebuilding, Working, TypeOK
<1> DEFINE d == [db EXCEPT !.seq = @ + 1]
<1>1. db.seq \in Nat /\ db.seq + 1 \in Seqs
  <2>1. db.seq \in Seqs /\ db.seq < MaxSeq
    BY <1>0, DatabaseType DEF Command
  <2> QED
    BY <2>1, ProjectAssumption DEF Seqs
<1>2. /\ d \in Databases /\ d.archived = db.archived /\ d.seq = db.seq + 1
      /\ d.core = db.core /\ d.cand = db.cand /\ d.marked = db.marked /\ d.version = db.version
  BY <1>0, <1>1 DEF Databases
<1>3. Becomes(p, d, "clear") /\ UNCHANGED Files
  BY DEF Command
<1> HIDE DEF d
<1>4. SchemaOf(d) = SchemaOf(db)
  BY <1>2 DEF SchemaOf
<1> QED
  BY <1>0, <1>1, <1>2, <1>3, <1>4, WorkerChanges DEF Files

LEMMA EffectKeeps ==
    ASSUME ProjectInv, NEW p \in Procs, Effect(p)
    PROVE  ProjectInv'
<1>0. /\ proc[p] \in Processes /\ proc[p].at = "work" /\ ~proc[p].alone /\ proc[p].at \in Working
      /\ ~proc[p].lost
      /\ db \in Databases /\ db.archived < MaxSeq /\ bootstraps \in 0..2 /\ db.seq \in Nat
  BY OfProcess, DatabaseType, SeqsFacts DEF Effect, At, Rebuilding, Working, TypeOK
<1> DEFINE d == [db EXCEPT !.journal = TRUE]
<1>2. /\ d \in Databases /\ d.archived = db.archived /\ d.seq = db.seq
      /\ d.core = db.core /\ d.cand = db.cand /\ d.marked = db.marked /\ d.version = db.version
  BY <1>0 DEF Databases
<1>3. Becomes(p, d, "done") /\ UNCHANGED Files
  BY DEF Effect
<1> HIDE DEF d
<1>4. SchemaOf(d) = SchemaOf(db)
  BY <1>2 DEF SchemaOf
<1> QED
  BY <1>0, <1>2, <1>3, <1>4, WorkerChanges DEF Files

LEMMA CompactKeeps ==
    ASSUME ProjectInv, NEW p \in Procs, Compact(p)
    PROVE  ProjectInv'
<1>0. /\ proc[p] \in Processes /\ proc[p].at = "work" /\ ~proc[p].alone /\ proc[p].at \in Working
      /\ ~proc[p].lost
      /\ db \in Databases /\ bootstraps \in 0..2
      /\ db.seq \in Seqs /\ db.archived \in Nat /\ db.seq > db.archived + 1
  BY OfProcess, DatabaseType, SeqsFacts DEF Compact, At, Rebuilding, Working, TypeOK
<1> DEFINE d == [db EXCEPT !.archived = db.seq - 1]
<1>1. db.seq \in Nat /\ db.seq - 1 \in Seqs /\ db.seq - 1 < MaxSeq
  BY <1>0, ProjectAssumption DEF Seqs
<1>2. /\ d \in Databases /\ d.archived = db.seq - 1 /\ d.seq = db.seq
      /\ d.core = db.core /\ d.cand = db.cand /\ d.marked = db.marked /\ d.version = db.version
  BY <1>0, <1>1 DEF Databases
<1>3. Becomes(p, d, "done") /\ UNCHANGED Files
  BY DEF Compact
<1> HIDE DEF d
<1>4. SchemaOf(d) = SchemaOf(db)
  BY <1>2 DEF SchemaOf
<1> QED
  BY <1>0, <1>1, <1>2, <1>3, <1>4, WorkerChanges DEF Files

-----------------------------------------------------------------------------
(* Steps of a rebuild and of the export, which have the database stay.     *)

\* Who has become n, or has only lost its temporary file, knows what it knew.
LEMMA LearntStays ==
    ASSUME ProjectInv, NEW p \in Procs, db' = db, Learnt(proc'[p], db),
           \A q \in Procs \ {p} :
              /\ proc'[q].at = proc[q].at /\ proc'[q].quiet = proc[q].quiet
              /\ proc'[q].cand = proc[q].cand /\ proc'[q].marked = proc[q].marked
              /\ proc'[q].seq = proc[q].seq /\ proc'[q].archived = proc[q].archived
              /\ proc'[q].lost = proc[q].lost /\ proc'[q].since = proc[q].since
    PROVE  (SchemaWhole /\ SchemaLearnt /\ RefusedOnlyByOthers /\ QuietReads)'
<1>1. /\ SchemaOf(db) \in {NoSchema, Alpha, Legacy, Current}
      /\ \A q \in Procs : Learnt(proc[q], db)
  BY LearntMeans DEF ProjectInv
<1>2. SchemaOf(db') \in {NoSchema, Alpha, Legacy, Current}
  BY <1>1
<1>3. \A q \in Procs \ {p} : Learnt(proc'[q], db)
  BY <1>1 DEF Learnt
<1>4. \A q \in Procs : Learnt(proc'[q], db')
  BY <1>3
<1> QED
  BY <1>2, <1>4, LearntMeansNext

LEMMA ExportStays ==
    ASSUME ProjectInv, db' = db, out' = out,
           \A q \in Procs : proc'[q].at \in Copying => proc'[q].at = proc[q].at
    PROVE  (AcceptedExportIsOfOneMoment /\ ExportInOrder)'
<1>1. AcceptedExportIsOfOneMoment /\ ExportInOrder
  BY DEF ProjectInv
<1>2. AcceptedExportIsOfOneMoment'
  BY <1>1 DEF AcceptedExportIsOfOneMoment
<1>3. ExportInOrder'
  BY <1>1 DEF ExportInOrder, At
<1> QED
  BY <1>2, <1>3

LEMMA RebuildStays ==
    ASSUME ProjectInv, db' = db, file' = file,
           \A q \in Procs : proc'[q].at \in Rebuilding => proc[q].at \in Rebuilding,
           \A q \in Procs : proc'[q].alone =>
              /\ proc[q].alone /\ proc'[q].at = proc[q].at
              /\ proc'[q].seq = proc[q].seq /\ proc'[q].since = proc[q].since
    PROVE  (LoneRebuildShowsCommit /\ AloneRebuilds)'
<1>1. LoneRebuildShowsCommit /\ AloneRebuilds
  BY DEF ProjectInv
<1>2. LoneRebuildShowsCommit'
  BY <1>1 DEF LoneRebuildShowsCommit, At
<1>3. ASSUME NEW q \in Procs, proc'[q].alone
      PROVE  /\ proc'[q].at \in Rebuilding \cup {"done"}
             /\ \A r \in Procs \ {q} : proc'[r].at \notin Rebuilding
             /\ proc'[q].at = "read" => proc'[q].since <= db'.seq
             /\ proc'[q].at \in {"draft", "rename"} => proc'[q].since <= proc'[q].seq
  <2>1. /\ proc[q].alone /\ proc'[q].at = proc[q].at
        /\ proc'[q].seq = proc[q].seq /\ proc'[q].since = proc[q].since
    BY <1>3
  <2>2. /\ proc[q].at \in Rebuilding \cup {"done"}
        /\ \A r \in Procs \ {q} : proc[r].at \notin Rebuilding
        /\ proc[q].at = "read" => proc[q].since <= db.seq
        /\ proc[q].at \in {"draft", "rename"} => proc[q].since <= proc[q].seq
    BY <1>1, <2>1 DEF AloneRebuilds, At
  <2> QED
    BY <2>1, <2>2
<1>4. AloneRebuilds'
  BY <1>3 DEF AloneRebuilds, At
<1> QED
  BY <1>2, <1>4

LEMMA ClearKeeps ==
    ASSUME ProjectInv, NEW p \in Procs, Clear(p)
    PROVE  ProjectInv'
<1>0. /\ TypeOK /\ proc[p].at = "clear" /\ Learnt(proc[p], db) /\ db.seq \in Seqs
      /\ db.seq \in Nat /\ db.archived < MaxSeq /\ \A q \in Procs : proc[q] \in Processes
  BY OfProcess, DatabaseType, SeqsFacts DEF Clear, At, TypeOK
<1>1. /\ file' = 0 /\ db' = db /\ dir' = TRUE /\ out' = out /\ bootstraps' = bootstraps
  BY DEF Clear
<1>2. ASSUME NEW q \in Procs \ {p}
      PROVE  /\ proc'[q] \in Processes /\ ~proc'[q].alone
             /\ proc'[q].at = proc[q].at /\ proc'[q].quiet = proc[q].quiet
             /\ proc'[q].cand = proc[q].cand /\ proc'[q].marked = proc[q].marked
             /\ proc'[q].seq = proc[q].seq /\ proc'[q].archived = proc[q].archived
             /\ proc'[q].lost = proc[q].lost /\ proc'[q].since = proc[q].since
  <2>1. proc'[q] = [proc[q] EXCEPT !.tmp = FALSE, !.alone = FALSE]
    BY DEF Clear
  <2> QED
    BY <1>0, <2>1 DEF Processes
<1>3. /\ proc'[p] \in Processes /\ proc'[p].at = "read" /\ proc'[p].since = Shown(p)
      /\ proc'[p].lost = proc[p].lost /\ Shown(p) \in Seqs /\ Shown(p) <= db.seq
      /\ proc[p].lost => Shown(p) = 0
      /\ proc'[p].alone => \A r \in Procs \ {p} : proc[r].at \notin Rebuilding
  <2> DEFINE b == \A r \in Procs \ {p} : proc[r].at \notin Rebuilding
  <2>1. proc'[p] = [proc[p] EXCEPT !.at = "read", !.since = Shown(p), !.alone = b]
    BY DEF Clear
  <2>2. b \in BOOLEAN
    OBVIOUS
  <2> HIDE DEF b
  <2>3. Shown(p) \in Seqs /\ Shown(p) <= db.seq /\ (proc[p].lost => Shown(p) = 0)
    BY <1>0, SeqsFacts DEF Shown
  <2>4. /\ proc'[p] \in Processes /\ proc'[p].at = "read" /\ proc'[p].since = Shown(p)
        /\ proc'[p].alone = b /\ proc'[p].lost = proc[p].lost
    BY <1>0, <2>1, <2>2, <2>3 DEF Processes, Places, Working, Rebuilding
  <2> QED
    BY <2>3, <2>4 DEF b
<1>4. proc' \in [Procs -> Processes]
  <2>1. \A q \in Procs : proc'[q] \in Processes
    BY <1>2, <1>3
  <2> QED
    BY <2>1 DEF Clear
<1>5. TypeOK'
  BY <1>0, <1>1, <1>4, SeqsFacts DEF TypeOK
<1>6. (SchemaWhole /\ SchemaLearnt /\ RefusedOnlyByOthers /\ QuietReads)'
  <2>1. Learnt(proc'[p], db)
    BY <1>0, <1>3 DEF Learnt, Working, Rebuilding, Copying, Connecting
  <2> QED
    BY <1>1, <1>2, <2>1, LearntStays
<1>7. (AcceptedExportIsOfOneMoment /\ ExportInOrder)'
  BY <1>1, <1>2, <1>3, ExportStays DEF Copying
<1>8. (LoneRebuildShowsCommit /\ AloneRebuilds)'
  <2>1. ASSUME NEW q \in Procs, proc'[q].alone
        PROVE  /\ proc'[q].at = "read" /\ proc'[q].since <= db'.seq
               /\ \A r \in Procs \ {q} : proc'[r].at \notin Rebuilding
    <3>1. q = p
      BY <1>2, <2>1
    <3>2. proc'[q].since <= db'.seq
      BY <1>0, <1>1, <1>3, <3>1
    <3> QED
      BY <1>2, <1>3, <2>1, <3>1, <3>2
  <2> QED
    BY <2>1 DEF LoneRebuildShowsCommit, AloneRebuilds, At, Rebuilding
<1>9. (db.archived < MaxSeq)'
  BY <1>0, <1>1
<1> QED
  BY <1>5, <1>6, <1>7, <1>8, <1>9 DEF ProjectInv

\* While p rebuilds nobody else is alone, and p comes to be n.
LEMMA RebuilderMoves ==
    ASSUME ProjectInv, NEW p \in Procs, proc[p].at \in Rebuilding,
           NEW n \in Processes, Moves(p, n), n.at \in {"draft", "rename", "done"},
           n.alone => proc[p].alone, n.lost = proc[p].lost, n.since = proc[p].since,
           n.alone /\ n.at \in {"draft", "rename"} => n.since <= n.seq,
           n.alone /\ n.at = "done" => n.since <= file',
           file' \in Seqs, dir' \in BOOLEAN, UNCHANGED <<out, bootstraps>>
    PROVE  ProjectInv'
<1>0. /\ TypeOK /\ Learnt(proc[p], db) /\ db.archived < MaxSeq /\ AloneRebuilds
  BY OfProcess DEF ProjectInv
<1>1. /\ db' = db /\ proc' \in [Procs -> Processes] /\ proc'[p] = n
      /\ \A q \in Procs \ {p} : proc'[q] = proc[q]
  BY <1>0 DEF Moves, TypeOK
<1>2. TypeOK'
  BY <1>0, <1>1 DEF TypeOK
<1>3. (SchemaWhole /\ SchemaLearnt /\ RefusedOnlyByOthers /\ QuietReads)'
  <2>1. Learnt(proc'[p], db)
    BY <1>0, <1>1 DEF Learnt, Working, Rebuilding, Copying, Connecting
  <2> QED
    BY <1>1, <2>1, LearntStays
<1>4. (AcceptedExportIsOfOneMoment /\ ExportInOrder)'
  BY <1>1, ExportStays DEF Copying
<1>5. \A q \in Procs : proc'[q].alone => q = p
  BY <1>0, <1>1 DEF AloneRebuilds
<1>6. n.alone => \A q \in Procs \ {p} : proc'[q].at \notin Rebuilding
  BY <1>0, <1>1 DEF AloneRebuilds
<1>7. AloneRebuilds'
  BY <1>1, <1>5, <1>6 DEF AloneRebuilds, At, Rebuilding
<1>8. LoneRebuildShowsCommit'
  <2>1. n.alone /\ n.at = "done" => file' >= n.since
    <3>1. file' \in Nat /\ n.since \in Nat
      BY ProcessType, SeqsFacts
    <3> QED
      BY <3>1
  <2> QED
    BY <1>1, <1>5, <2>1 DEF LoneRebuildShowsCommit, At
<1>9. (db.archived < MaxSeq)'
  BY <1>0, <1>1
<1> QED
  BY <1>2, <1>3, <1>4, <1>7, <1>8, <1>9 DEF ProjectInv

LEMMA ReadKeeps ==
    ASSUME ProjectInv, NEW p \in Procs, Read(p)
    PROVE  ProjectInv'
<1> DEFINE n == [proc[p] EXCEPT !.seq = Shown(p), !.at = "draft"]
<1>0. /\ proc[p].at = "read" /\ proc[p] \in Processes /\ db \in Databases /\ file \in Seqs
      /\ Learnt(proc[p], db) /\ dir \in BOOLEAN
  BY OfProcess DEF Read, At, TypeOK
<1>1. proc[p].alone => proc[p].since <= Shown(p)
  <2>1. proc[p].alone => proc[p].since <= db.seq
    BY <1>0 DEF ProjectInv, AloneRebuilds, At
  <2>2. proc[p].lost => proc[p].since <= 0
    BY <1>0 DEF Learnt
  <2> QED
    BY <2>1, <2>2 DEF Shown
<1>2. Shown(p) \in Seqs
  BY <1>0, DatabaseType, SeqsFacts DEF Shown
<1>3. /\ n \in Processes /\ n.at = "draft" /\ n.alone = proc[p].alone
      /\ n.seq = Shown(p) /\ n.since = proc[p].since /\ n.lost = proc[p].lost
  BY <1>0, <1>2 DEF Processes, Places, Working, Rebuilding
<1>4. Moves(p, n) /\ UNCHANGED Files
  BY DEF Read
<1> HIDE DEF n
<1>5. proc[p].at \in Rebuilding
  BY <1>0 DEF Rebuilding
<1> QED
  BY <1>0, <1>1, <1>3, <1>4, <1>5, RebuilderMoves DEF Files

LEMMA DraftKeeps ==
    ASSUME ProjectInv, NEW p \in Procs, Draft(p)
    PROVE  ProjectInv'
<1> DEFINE n == [proc[p] EXCEPT !.tmp = TRUE, !.at = "rename"]
<1>0. /\ proc[p].at = "draft" /\ proc[p] \in Processes /\ file \in Seqs
  BY OfProcess DEF Draft, At, TypeOK
<1>1. proc[p].alone => proc[p].since <= proc[p].seq
  BY <1>0 DEF ProjectInv, AloneRebuilds, At
<1>3. /\ n \in Processes /\ n.at = "rename" /\ n.alone = proc[p].alone
      /\ n.seq = proc[p].seq /\ n.since = proc[p].since /\ n.lost = proc[p].lost
  BY <1>0 DEF Processes, Places, Working, Rebuilding
<1>4. Moves(p, n) /\ dir' \in BOOLEAN /\ UNCHANGED <<file, out, bootstraps>>
  BY DEF Draft
<1> HIDE DEF n
<1>5. proc[p].at \in Rebuilding
  BY <1>0 DEF Rebuilding
<1> QED
  BY <1>0, <1>1, <1>3, <1>4, <1>5, RebuilderMoves DEF Files

LEMMA RenameKeeps ==
    ASSUME ProjectInv, NEW p \in Procs, Rename(p)
    PROVE  ProjectInv'
<1>0. /\ proc[p].at = "rename" /\ proc[p] \in Processes /\ dir \in BOOLEAN
      /\ bootstraps' \in 0..2 /\ bootstraps' = bootstraps
  BY OfProcess DEF Rename, At, TypeOK
<1>1. CASE /\ file' = proc[p].seq
           /\ Moves(p, [proc[p] EXCEPT !.tmp = FALSE, !.at = "done"])
           /\ UNCHANGED <<dir, out>>
  <2> DEFINE n == [proc[p] EXCEPT !.tmp = FALSE, !.at = "done"]
  <2>1. proc[p].alone => proc[p].since <= proc[p].seq
    BY <1>0 DEF ProjectInv, AloneRebuilds, At
  <2>2. /\ n \in Processes /\ n.at = "done" /\ n.alone = proc[p].alone
        /\ n.since = proc[p].since /\ file' \in Seqs /\ n.lost = proc[p].lost
    BY <1>0, <1>1, ProcessType DEF Processes, Places
  <2>3. Moves(p, n)
    BY <1>1
  <2> HIDE DEF n
  <2>4. proc[p].at \in Rebuilding
    BY <1>0 DEF Rebuilding
  <2> QED
    BY <1>0, <1>1, <2>1, <2>2, <2>3, <2>4, RebuilderMoves
<1>2. CASE InitFails(p)
  BY <1>0, <1>2, InitFailsKeeps
<1>3. CASE Moves(p, Idle) /\ UNCHANGED <<dir, file, out>>
  BY <1>0, <1>3, GoIdleKeeps
<1> QED
  BY <1>1, <1>2, <1>3 DEF Rename

\* What the export's writer does to the rest: it moves, and the target changes.
LEMMA WriterMoves ==
    ASSUME ProjectInv, NEW p \in Procs, proc[p].at \in Working, ~proc[p].alone,
           NEW n \in Processes, Moves(p, n), Learnt(n, db), ~n.alone, n.at \notin Rebuilding,
           out' \in Exports, UNCHANGED <<dir, file, bootstraps>>,
           (AcceptedExportIsOfOneMoment /\ ExportInOrder)'
    PROVE  ProjectInv'
<1>0. TypeOK /\ db.archived < MaxSeq
  BY DEF ProjectInv
<1>1. /\ db' = db /\ proc' \in [Procs -> Processes] /\ proc'[p] = n
      /\ \A q \in Procs \ {p} : proc'[q] = proc[q]
  BY <1>0 DEF Moves, TypeOK
<1>2. TypeOK'
  BY <1>0, <1>1 DEF TypeOK
<1>3. (SchemaWhole /\ SchemaLearnt /\ RefusedOnlyByOthers /\ QuietReads)'
  BY <1>1, LearntStays
<1>4. (LoneRebuildShowsCommit /\ AloneRebuilds)'
  BY <1>1, RebuildStays
<1>5. (db.archived < MaxSeq)'
  BY <1>0, <1>1
<1> QED
  BY <1>2, <1>3, <1>4, <1>5 DEF ProjectInv

\* ... and where it is on its way.
LEMMA WriterGoes ==
    ASSUME ProjectInv, NEW p \in Procs, proc[p].at \in Copying \cup {"target"},
           NEW to \in Copying \cup {"done"}, Goes(p, to),
           out' \in Exports, UNCHANGED <<dir, file, bootstraps>>,
           (AcceptedExportIsOfOneMoment /\ ExportInOrder)'
    PROVE  ProjectInv'
<1> DEFINE n == [proc[p] EXCEPT !.at = to]
<1>1. /\ proc[p] \in Processes /\ ~proc[p].alone /\ proc[p].at \in Working
      /\ SchemaOf(db) = Current /\ ~proc[p].lost
  BY OfProcess DEF Learnt, Working, Copying, Rebuilding
<1>2. n \in Processes /\ n.at = to /\ ~n.alone /\ ~n.lost
  BY <1>1 DEF Processes, Places, Working
<1>3. Moves(p, n)
  BY DEF Goes
<1> HIDE DEF n
<1>4. Learnt(n, db) /\ n.at \notin Rebuilding
  BY <1>1, <1>2, WorkersLearn DEF Working, Copying, Rebuilding
<1> QED
  BY <1>1, <1>2, <1>3, <1>4, WriterMoves

LEMMA ExportTargetKeeps ==
    ASSUME ProjectInv, NEW p \in Procs, ExportTarget(p)
    PROVE  ProjectInv'
<1>0. /\ TypeOK /\ proc[p].at = "target" /\ out \in Exports /\ ExportInOrder
      /\ UNCHANGED <<dir, file, bootstraps>> /\ dir \in BOOLEAN /\ bootstraps \in 0..2
      /\ proc \in [Procs -> Processes]
  BY DEF ExportTarget, At, ProjectInv, TypeOK
<1>1. CASE Moves(p, Idle) /\ UNCHANGED out
  BY <1>0, <1>1, GoIdleKeeps
<1>2. CASE /\ out.state = "none" /\ out' = [out EXCEPT !.state = "open"]
           /\ Goes(p, "metadata")
  <2>1. out' \in Exports /\ out'.state = "open"
    BY <1>0, <1>2 DEF Exports
  <2>2. /\ proc'[p].at = "metadata"
        /\ \A q \in Procs \ {p} : proc'[q] = proc[q]
    BY <1>0, <1>2 DEF Goes, Moves, Processes
  <2>3. \A q \in Procs : proc[q].at \notin Copying
    BY <1>0, <1>2 DEF ExportInOrder
  <2>4. AcceptedExportIsOfOneMoment' /\ ExportInOrder'
    BY <2>1, <2>2, <2>3 DEF AcceptedExportIsOfOneMoment, ExportInOrder, At
  <2> QED
    BY <1>0, <1>2, <2>1, <2>4, WriterGoes DEF Copying
<1> QED
  BY <1>1, <1>2 DEF ExportTarget

\* One process writes the export: what is asked of the writers is asked of p.
LEMMA CopyKeeps ==
    ASSUME ProjectInv, NEW p \in Procs, NEW from \in Copying, NEW to \in Copying \cup {"done"},
           NEW o \in Exports, Copy(p, from, to, o),
           to \in Copying => o.state = "open",
           to = "records" => o.seq <= db.seq,
           to = "events" => o.seq <= o.records /\ o.records <= db.seq,
           to = "finish" => o.seq <= o.records /\ o.records <= o.last,
           o.state = "done" => o.seq <= o.records /\ o.records <= o.last,
           o.state = "done" /\ AlphaAccepts(o) => o.records = o.seq
    PROVE  ProjectInv'
<1>0. /\ proc[p].at = from /\ out' = o /\ Goes(p, to) /\ UNCHANGED <<dir, file, bootstraps>>
      /\ proc \in [Procs -> Processes] /\ ExportInOrder
  BY DEF Copy, At, ProjectInv, TypeOK
<1>1. /\ db' = db /\ proc'[p].at = to
      /\ \A q \in Procs \ {p} : proc'[q] = proc[q]
  BY <1>0 DEF Goes, Moves, Processes
<1>2. \A q \in Procs : proc'[q].at \in Copying => q = p
  BY <1>0, <1>1 DEF ExportInOrder
<1>3. ExportInOrder'
  BY <1>0, <1>1, <1>2 DEF ExportInOrder, At
<1>4. AcceptedExportIsOfOneMoment'
  BY <1>0 DEF AcceptedExportIsOfOneMoment
<1> QED
  BY <1>0, <1>3, <1>4, WriterGoes

\* What the writer at a place knows of the export so far.
LEMMA OfWriter ==
    ASSUME ProjectInv, NEW p \in Procs, proc[p].at \in Copying
    PROVE  /\ out \in Exports /\ out.state = "open"
           /\ out.seq \in Seqs /\ out.records \in Seqs /\ out.first \in Seqs /\ out.last \in Seqs
           /\ db.seq \in Seqs /\ db.archived \in Seqs /\ db.archived < MaxSeq
           /\ proc[p].at = "records" => out.seq <= db.seq
           /\ proc[p].at = "events" => out.seq <= out.records /\ out.records <= db.seq
           /\ proc[p].at = "finish" => out.seq <= out.records /\ out.records <= out.last
<1>1. out \in Exports /\ ExportInOrder /\ db \in Databases /\ db.archived < MaxSeq
  BY DEF ProjectInv, TypeOK
<1>2. /\ out.seq \in Seqs /\ out.records \in Seqs /\ out.first \in Seqs /\ out.last \in Seqs
  BY <1>1 DEF Exports
<1> QED
  BY <1>1, <1>2, DatabaseType DEF ExportInOrder, At

LEMMA CopyMetadataKeeps ==
    ASSUME ProjectInv, NEW p \in Procs, CopyMetadata(p)
    PROVE  ProjectInv'
<1> DEFINE o == [out EXCEPT !.seq = db.seq]
<1>1. proc[p].at = "metadata" /\ Copy(p, "metadata", "records", o)
  BY DEF CopyMetadata, Copy, At
<1>2. /\ out \in Exports /\ out.state = "open" /\ db.seq \in Seqs
  BY <1>1, OfWriter DEF Copying
<1>3. o \in Exports /\ o.seq = db.seq /\ o.state = "open"
  BY <1>2 DEF Exports
<1> HIDE DEF o
<1>4. o.seq <= db.seq
  <2>1. db.seq \in Nat
    BY <1>2, SeqsFacts
  <2> QED
    BY <1>3, <2>1
<1> QED
  BY <1>1, <1>3, <1>4, CopyKeeps DEF Copying

LEMMA CopyRecordsKeeps ==
    ASSUME ProjectInv, NEW p \in Procs, CopyRecords(p)
    PROVE  ProjectInv'
<1> DEFINE o == [out EXCEPT !.records = db.seq]
<1>1. proc[p].at = "records" /\ Copy(p, "records", "events", o)
  BY DEF CopyRecords, Copy, At
<1>2. /\ out \in Exports /\ out.state = "open" /\ db.seq \in Seqs /\ out.seq <= db.seq
  BY <1>1, OfWriter DEF Copying
<1>3. o \in Exports /\ o.seq = out.seq /\ o.records = db.seq /\ o.state = "open"
  BY <1>2 DEF Exports
<1> HIDE DEF o
<1>4. o.seq <= o.records /\ o.records <= db.seq
  <2>1. db.seq \in Nat
    BY <1>2, SeqsFacts
  <2> QED
    BY <1>2, <1>3, <2>1
<1> QED
  BY <1>1, <1>3, <1>4, CopyKeeps DEF Copying

LEMMA CopyEventsKeeps ==
    ASSUME ProjectInv, NEW p \in Procs, CopyEvents(p)
    PROVE  ProjectInv'
<1> DEFINE o == [out EXCEPT !.first = db.archived + 1, !.last = db.seq]
<1>1. proc[p].at = "events" /\ Copy(p, "events", "finish", o)
  BY DEF CopyEvents, Copy, At
<1>2. /\ out \in Exports /\ out.state = "open" /\ db.seq \in Seqs
      /\ out.seq <= out.records /\ out.records <= db.seq
      /\ db.archived \in Seqs /\ db.archived < MaxSeq
  BY <1>1, OfWriter DEF Copying
<1>3. db.archived + 1 \in Seqs
  BY <1>2, ProjectAssumption DEF Seqs
<1>4. o \in Exports /\ o.seq = out.seq /\ o.records = out.records /\ o.last = db.seq
      /\ o.state = "open"
  BY <1>2, <1>3 DEF Exports
<1> HIDE DEF o
<1> QED
  BY <1>1, <1>2, <1>4, CopyKeeps DEF Copying

LEMMA FinishExportKeeps ==
    ASSUME ProjectInv, NEW p \in Procs, FinishExport(p)
    PROVE  ProjectInv'
<1> DEFINE o == [out EXCEPT !.state = "done"]
<1>1. proc[p].at = "finish" /\ Copy(p, "finish", "done", o)
  BY DEF FinishExport, Copy, At
<1>2. /\ out \in Exports
      /\ out.seq <= out.records /\ out.records <= out.last
      /\ out.seq \in Nat /\ out.records \in Nat /\ out.last \in Nat
  BY <1>1, OfWriter, SeqsFacts DEF Copying
<1>4. o \in Exports /\ o.seq = out.seq /\ o.records = out.records /\ o.last = out.last
  BY <1>2 DEF Exports
<1> HIDE DEF o
<1>5. AlphaAccepts(o) => o.records = o.seq
  BY <1>2, <1>4 DEF AlphaAccepts
<1> QED
  BY <1>1, <1>2, <1>4, <1>5, CopyKeeps DEF Copying

LEMMA KillKeeps ==
    ASSUME ProjectInv, NEW p \in Procs, Kill(p)
    PROVE  ProjectInv'
<1>0. /\ Moves(p, Idle) /\ UNCHANGED <<dir, file, bootstraps>>
      /\ dir \in BOOLEAN /\ bootstraps \in 0..2 /\ proc \in [Procs -> Processes]
      /\ ExportInOrder
  BY DEF Kill, ProjectInv, TypeOK
<1>1. CASE proc[p].at \notin Copying
  <2>1. out' = out
    BY <1>1 DEF Kill
  <2> QED
    BY <1>0, <2>1, GoIdleKeeps
<1>2. CASE proc[p].at \in Copying
  <2>1. out' = [NoExport EXCEPT !.state = "debris"]
    BY <1>2 DEF Kill
  <2>2. out' \in Exports /\ out'.state = "debris"
    BY <2>1, SeqsFacts DEF NoExport, Exports
  <2>3. proc'[p] = Idle /\ \A q \in Procs \ {p} : proc'[q] = proc[q]
    BY <1>0 DEF Moves
  <2>4. \A q \in Procs : proc'[q].at \notin Copying
    BY <1>0, <1>2, <2>3, IdleType DEF ExportInOrder, Copying
  <2>5. AcceptedExportIsOfOneMoment' /\ ExportInOrder'
    BY <2>2, <2>4 DEF AcceptedExportIsOfOneMoment, ExportInOrder
  <2>6. proc[p].at \in Working /\ ~proc[p].alone
    BY <1>2, OfProcess DEF Working, Copying, Rebuilding
  <2> QED
    BY <1>0, <2>2, <2>5, <2>6, WriterMoves, IdleType, NothingLearnt DEF Rebuilding
<1> QED
  BY <1>1, <1>2

-----------------------------------------------------------------------------
(* The invariant, and what it is for.                                      *)

LEMMA ProjectInvInit == Init => ProjectInv
<1> SUFFICES ASSUME Init PROVE ProjectInv
  OBVIOUS
<1>1. /\ db \in Databases /\ SchemaOf(db) \in {NoSchema, Alpha, Legacy, Current}
      /\ db.archived = 0 /\ db.seq \in Seqs
  <2>1. CASE db = Absent
    BY <2>1, AbsentType, SeqsFacts
  <2>2. ASSUME NEW s \in {Alpha, Legacy, Current}, NEW k \in {0, 1}, db = Store(s, k)
        PROVE  /\ db \in Databases /\ SchemaOf(db) \in {NoSchema, Alpha, Legacy, Current}
               /\ db.archived = 0 /\ db.seq \in Seqs
    BY <2>2, StoreType, SeqsFacts
  <2> QED
    BY <2>1, <2>2 DEF Init
<1>2. /\ dir \in BOOLEAN /\ file \in Seqs /\ bootstraps \in 0..2
      /\ proc = [p \in Procs |-> Idle] /\ out = NoExport
  BY <1>1 DEF Init
<1>3. NoExport \in Exports /\ NoExport.state = "none"
  BY SeqsFacts DEF NoExport, Exports
<1>4. TypeOK
  BY <1>1, <1>2, <1>3, IdleType DEF TypeOK
<1>5. SchemaWhole /\ SchemaLearnt /\ RefusedOnlyByOthers /\ QuietReads
  <2>1. \A p \in Procs : Learnt(proc[p], db)
    <3>1. Learnt(Idle, db)
      BY IdleType, NothingLearnt
    <3> QED
      BY <1>2, <3>1
  <2> QED
    BY <1>1, <2>1, LearntMeans
<1>6. AcceptedExportIsOfOneMoment /\ ExportInOrder
  BY <1>2, <1>3, IdleType DEF AcceptedExportIsOfOneMoment, ExportInOrder, Copying
<1>7. LoneRebuildShowsCommit /\ AloneRebuilds
  BY <1>2, IdleType DEF LoneRebuildShowsCommit, AloneRebuilds
<1>8. db.archived < MaxSeq
  BY <1>1, SeqsFacts
<1> QED
  BY <1>4, <1>5, <1>6, <1>7, <1>8 DEF ProjectInv

LEMMA ProjectInvNext == ProjectInv /\ [Next]_vars => ProjectInv'
<1> SUFFICES ASSUME ProjectInv, [Next]_vars PROVE ProjectInv'
  OBVIOUS
<1>1. CASE UNCHANGED vars
  BY <1>1 DEF vars, ProjectInv, TypeOK, SchemaWhole, SchemaLearnt, RefusedOnlyByOthers,
              QuietReads, AcceptedExportIsOfOneMoment, ExportInOrder, AlphaAccepts,
              LoneRebuildShowsCommit, AloneRebuilds, At, SchemaOf
<1>2. ASSUME NEW p \in Procs,
             \/ \E r \in Requests : StartInit(p, r)
             \/ \E j \in Jobs \ {"init"} : StartOpen(p, j)
      PROVE  ProjectInv'
  BY <1>2, StartInitKeeps, StartOpenKeeps
<1>3. ASSUME NEW p \in Procs, Open(p) \/ Bootstrap(p)
      PROVE  ProjectInv'
  BY <1>3, MakeDirKeeps, ConnectKeeps, InspectKeeps, CreateSchemaKeeps, ReadMarkerKeeps,
     ReadVersionKeeps, ReadSequenceKeeps, ValidateKeeps, MigrateKeeps, UpgradeKeeps, FindKeeps,
     BootstrapKeeps DEF Open
<1>4. ASSUME NEW p \in Procs, Command(p) \/ Effect(p) \/ Compact(p) \/ Nothing(p)
      PROVE  ProjectInv'
  BY <1>4, CommandKeeps, EffectKeeps, CompactKeeps, NothingKeeps
<1>5. ASSUME NEW p \in Procs, Rebuild(p)
      PROVE  ProjectInv'
  BY <1>5, ClearKeeps, ReadKeeps, DraftKeeps, RenameKeeps DEF Rebuild
<1>6. ASSUME NEW p \in Procs, Export(p)
      PROVE  ProjectInv'
  BY <1>6, ExportJournalKeeps, ExportArchivesKeeps, ExportTargetKeeps, CopyMetadataKeeps,
     CopyRecordsKeeps, CopyEventsKeeps, FinishExportKeeps DEF Export
<1>7. ASSUME NEW p \in Procs, Done(p) \/ Orphan(p) \/ Kill(p)
      PROVE  ProjectInv'
  BY <1>7, DoneKeeps, OrphanKeeps, KillKeeps
<1> QED
  BY <1>1, <1>2, <1>3, <1>4, <1>5, <1>6, <1>7 DEF Next

\* However many processes open, create, migrate, remove, rewrite and export one project
\* directory, and wherever they are killed, what each has read of it stays true enough
\* for what it does next (store.ts prepareStore, exportPublicAlpha; projection.ts).
THEOREM ProjectIsSound == Spec => []ProjectInv
<1>1. Init => ProjectInv
  BY ProjectInvInit
<1>2. ProjectInv /\ [Next]_vars => ProjectInv'
  BY ProjectInvNext
<1> QED
  BY <1>1, <1>2, PTL DEF Spec

\* Every variable keeps its form.
THEOREM ProjectTypeCorrect == Spec => []TypeOK
<1>1. ProjectInv => TypeOK
  BY DEF ProjectInv
<1> QED
  BY <1>1, ProjectIsSound, PTL

\* The file has the schema of one release, and who works on it the current one, although
\* a schema is created, migrated and upgraded after it was looked at (store.ts prepareStore).
THEOREM TheSchemaIsWhole == Spec => []SchemaWhole
<1>1. ProjectInv => SchemaWhole
  BY DEF ProjectInv
<1> QED
  BY <1>1, ProjectIsSound, PTL

\* An open is refused only when another process changed the database under it
\* (store.ts prepareStore, validateStore).
THEOREM OnlyOthersRefuse == Spec => []RefusedOnlyByOthers
<1>1. ProjectInv => RefusedOnlyByOthers
  BY DEF ProjectInv
<1> QED
  BY <1>1, ProjectIsSound, PTL

\* An alpha export that an opening accepts is of one moment, although its parts are read
\* one by one beside other processes' commits and compactions (store.ts exportPublicAlpha).
THEOREM AcceptedExportsAreCuts == Spec => []AcceptedExportIsOfOneMoment
<1>1. ProjectInv => AcceptedExportIsOfOneMoment
  BY DEF ProjectInv
<1> QED
  BY <1>1, ProjectIsSound, PTL

\* A rebuild that no other overlapped shows the commit it followed, or a later one
\* (projection.ts rebuildProjections, runtime.ts mutate).
THEOREM ALoneRebuildIsFresh == Spec => []LoneRebuildShowsCommit
<1>1. ProjectInv => LoneRebuildShowsCommit
  BY DEF ProjectInv
<1> QED
  BY <1>1, ProjectIsSound, PTL

=============================================================================
