--------------------------- MODULE PkrStore_proofs ---------------------------
(***************************************************************************)
(* Proofs about PkrStore, for every set of commands and processes, every   *)
(* retention and every bound.                                              *)
(***************************************************************************)
EXTENDS PkrStore, FiniteSetTheorems, FunctionTheorems, TLAPS

-----------------------------------------------------------------------------
(* Events that are numbered, and the oldest of them.                       *)

\* A set of keyed events below a bound is finite.
LEMMA KeyedFinite ==
    ASSUME NEW E \in SUBSET Event, NEW n \in Nat, Keyed(E),
           \A e \in E : e.seq <= n
    PROVE  IsFiniteSet(E)
<1> DEFINE f == [e \in E |-> e.seq]
<1>1. f \in [E -> 0..n]
  BY DEF Event
<1>2. \A x, y \in E : f[x] = f[y] => x = y
  BY DEF Keyed
<1>3. f \in Injection(E, 0..n)
  <2> HIDE DEF f
  <2> QED BY <1>1, <1>2, Fun_IsInj
<1>4. IsFiniteSet(0..n)
  BY FS_Interval
<1> QED
  BY <1>3, <1>4, FS_Injection

\* The oldest events are events, and an event that is older than one of them is
\* one of them.
LEMMA OldestClosed ==
    ASSUME NEW E \in SUBSET Event, IsFiniteSet(E), NEW n \in Nat
    PROVE  Oldest(E, n) \subseteq E /\ ClosedIn(Oldest(E, n), E)
<1>1. Oldest(E, n) \subseteq E
  BY DEF Oldest
<1>2. ASSUME NEW e \in Oldest(E, n), NEW f \in E, f.seq <= e.seq
      PROVE  f \in Oldest(E, n)
  <2> DEFINE D == {g \in E : g.seq <= e.seq}
             F == {g \in E : g.seq <= f.seq}
  <2>1. e.seq \in Nat /\ f.seq \in Nat /\ \A g \in E : g.seq \in Nat
    BY <1>1, <1>2 DEF Event
  <2>2. F \in SUBSET D
    BY <1>2, <2>1
  <2>3. IsFiniteSet(D)
    BY FS_Subset
  <2>4. Cardinality(F) <= Cardinality(D) /\ IsFiniteSet(F)
    BY <2>2, <2>3, FS_Subset
  <2>5. Cardinality(D) \in Nat /\ Cardinality(F) \in Nat
    BY <2>3, <2>4, FS_CardinalityType
  <2>6. Cardinality(D) <= n
    BY DEF Oldest
  <2> QED
    BY <2>4, <2>5, <2>6 DEF Oldest
<1> QED
  BY <1>1, <1>2 DEF ClosedIn

\* An event that was appended has a later sequence than the store had.
LEMMA AppendedType ==
    ASSUME NEW c \in Commands, NEW s \in Nat, NEW n \in Nat, NEW r \in Nat \ {0}
    PROVE  /\ Appended(c, s, n, r) \subseteq Event
           /\ \A e \in Appended(c, s, n, r) : s < e.seq /\ e.seq <= s + n
           /\ Keyed(Appended(c, s, n, r))
           /\ Seqs(Appended(c, s, n, r)) = s + 1 .. s + n
<1>1. Appended(c, s, n, r) \subseteq Event
  BY DEF Appended, Event
<1>2. \A e \in Appended(c, s, n, r) : s < e.seq /\ e.seq <= s + n
  BY DEF Appended
<1>3. Keyed(Appended(c, s, n, r))
  BY DEF Appended, Keyed
<1>4. Seqs(Appended(c, s, n, r)) \subseteq s + 1 .. s + n
  BY DEF Appended, Seqs
<1>5. ASSUME NEW i \in s + 1 .. s + n
      PROVE  i \in Seqs(Appended(c, s, n, r))
  <2>1. [seq |-> i, cmd |-> c, rev |-> r] \in Appended(c, s, n, r)
    BY DEF Appended
  <2> QED
    BY <2>1 DEF Seqs
<1> QED
  BY <1>1, <1>2, <1>3, <1>4, <1>5

\* The last sequence of a list is a number, 0 of the empty one.
LEMMA LastSeqType ==
    ASSUME NEW E \in SUBSET Event
    PROVE  LastSeq(E) \in Nat
<1>1. Seqs(E) \subseteq Nat
  BY DEF Seqs, Event
<1> QED
  BY <1>1 DEF LastSeq

-----------------------------------------------------------------------------
(* What holds however operations overlap.                                  *)

\* The values a process starts from have their types.
LEMMA IdleType ==
    /\ Idle \in Pending
    /\ Idle.cmd \in Commands
    /\ Idle.content \in Contents
    /\ Idle.op = "idle"
    /\ EmptySnapshot \in Snapshot
    /\ NoCommands \in [Commands -> Result]
<1>1. /\ (CHOOSE c \in Commands : TRUE) \in Commands
      /\ (CHOOSE d \in Contents : TRUE) \in Contents
  BY NonEmptyAssumption
<1>2. NoCommands \in [Commands -> Result]
  BY DEF NoCommands, NotCommitted, Result
<1>3. EmptySnapshot \in Snapshot
  BY <1>2 DEF EmptySnapshot, Snapshot
<1> QED
  BY <1>1, <1>2, <1>3 DEF Idle, Pending

\* The empty store and idle processes satisfy the invariant.
LEMMA InitStoreInv == Init => StoreInv
<1> SUFFICES ASSUME Init PROVE StoreInv
  OBVIOUS
<1>1. TypeOK
  BY IdleType DEF Init, TypeOK, NoCommands
<1>2. LiveKeyed
  BY DEF Init, LiveKeyed, Keyed
<1>3. PendingSound
  BY IdleType DEF Init, PendingSound
<1> QED
  BY <1>1, <1>2, <1>3 DEF StoreInv

\* A process goes from one query to the next, or gives up, and the database stays.
LEMMA PendStep ==
    ASSUME StoreInv, UNCHANGED database, snapshot' \subseteq Snapshot,
           NEW p \in Procs, NEW r \in Pending, pend' = [pend EXCEPT ![p] = r],
           r.op = "compact" =>
              /\ exists
              /\ \A e \in r.rows : e.seq <= sequence
              /\ ClosedIn(r.rows, live),
           r.op = "restore" => Numbered(r.got.events, r.got.sequence)
    PROVE  StoreInv'
<1>1. TypeOK'
  BY DEF StoreInv, TypeOK, database
<1>2. LiveKeyed'
  BY DEF StoreInv, LiveKeyed, database
<1>3. PendingSound'
  <2> SUFFICES ASSUME NEW q \in Procs
               PROVE  LET o == pend'[q] IN
                      /\ o.op = "compact" =>
                           /\ exists
                           /\ \A e \in o.rows : e.seq <= sequence
                           /\ ClosedIn(o.rows, live)
                      /\ o.op = "restore" => Numbered(o.got.events, o.got.sequence)
    BY DEF PendingSound, database, ClosedIn
  <2>1. CASE q = p
    BY <2>1 DEF StoreInv, TypeOK
  <2>2. CASE q # p
    <3>1. pend'[q] = pend[q]
      BY <2>2 DEF StoreInv, TypeOK
    <3> QED
      BY <3>1 DEF StoreInv, PendingSound
  <2> QED
    BY <2>1, <2>2
<1> QED
  BY <1>1, <1>2, <1>3 DEF StoreInv

\* A process that gives up leaves the database as it is.
LEMMA StopStep ==
    ASSUME StoreInv, NEW p \in Procs, Stop(p), UNCHANGED <<database, snapshot>>
    PROVE  StoreInv'
<1>1. snapshot' \subseteq Snapshot
  BY DEF StoreInv, TypeOK
<1> QED
  BY <1>1, IdleType, PendStep DEF Stop

\* The live events are finitely many.
LEMMA LiveFinite ==
    ASSUME StoreInv
    PROVE  IsFiniteSet(live) /\ Cardinality(live) \in Nat
<1>1. IsFiniteSet(live)
  BY KeyedFinite DEF StoreInv, TypeOK, LiveKeyed
<1> QED
  BY <1>1, FS_CardinalityType

\* A caller that has read the record holds no rows and no snapshot.
LEMMA CommandReadStep ==
    ASSUME StoreInv, NEW p \in Procs, NEW c \in Commands, NEW d \in Contents,
           CommandRead(p, c, d)
    PROVE  StoreInv'
<1> DEFINE r == [op |-> "command", cmd |-> c, content |-> d, rev |-> rev,
                 rows |-> {}, keep |-> 0, n |-> 0, half |-> {}, got |-> EmptySnapshot]
<1>1. r \in Pending
  BY IdleType DEF StoreInv, TypeOK, Pending
<1>2. r.op = "command"
  OBVIOUS
<1>3. pend' = [pend EXCEPT ![p] = r] /\ UNCHANGED <<database, snapshot>>
  BY DEF CommandRead, Begin
<1>4. snapshot' \subseteq Snapshot
  BY <1>3 DEF StoreInv, TypeOK
<1> HIDE DEF r
<1> QED
  BY <1>1, <1>2, <1>3, <1>4, PendStep

\* Both queries of a compaction.
LEMMA CompactReadStep ==
    ASSUME StoreInv, NEW p \in Procs,
           (\E k \in Keeps : CompactCount(p, k)) \/ CompactRows(p)
    PROVE  StoreInv'
<1>1. PICK n \in Nat, k \in Keeps \cup {0}, E \in SUBSET Event,
           c \in Commands, d \in Contents :
        /\ Begin(p, "compact", c, d, 0, n, E, k)
        /\ exists
        /\ E \subseteq live /\ ClosedIn(E, live)
        /\ UNCHANGED <<database, snapshot>>
  <2>1. CASE \E k \in Keeps : CompactCount(p, k)
    <3>1. PICK k \in Keeps : CompactCount(p, k)
      BY <2>1
    <3>2. ArchiveCount(Cardinality(live), k) \in Nat
      BY <3>1, LiveFinite, KeepsAssumption DEF CompactCount, ArchiveCount
    <3>3. ClosedIn({}, live)
      BY DEF ClosedIn
    <3> QED
      BY <3>1, <3>2, <3>3, IdleType DEF CompactCount, Opens
  <2>2. CASE CompactRows(p)
    <3>1. pend[p] \in Pending
      BY DEF StoreInv, TypeOK
    <3>2. pend[p].n \in Nat /\ pend[p].keep \in Keeps \cup {0}
          /\ pend[p].cmd \in Commands /\ pend[p].content \in Contents
      BY <3>1 DEF Pending
    <3>3. exists
      BY <2>2 DEF CompactRows, StoreInv, PendingSound
    <3>4. live \in SUBSET Event
      BY DEF StoreInv, TypeOK
    <3>5. /\ Oldest(live, pend[p].n) \subseteq live
          /\ ClosedIn(Oldest(live, pend[p].n), live)
      BY <3>2, <3>4, LiveFinite, OldestClosed
    <3> QED
      BY <2>2, <3>2, <3>3, <3>4, <3>5 DEF CompactRows
  <2> QED
    BY <2>1, <2>2
<1> DEFINE r == [op |-> "compact", cmd |-> c, content |-> d, rev |-> 0, rows |-> E,
                 keep |-> k, n |-> n, half |-> {}, got |-> EmptySnapshot]
<1>2. r \in Pending
  BY IdleType DEF Pending
<1>3. r.op = "compact" /\ r.rows = E
  OBVIOUS
<1>4. pend' = [pend EXCEPT ![p] = r]
  BY <1>1 DEF Begin
<1>5. \A e \in E : e.seq <= sequence
  BY <1>1 DEF StoreInv, LiveKeyed
<1>6. snapshot' \subseteq Snapshot
  BY <1>1 DEF StoreInv, TypeOK
<1> HIDE DEF r
<1> QED
  BY <1>1, <1>2, <1>3, <1>4, <1>5, <1>6, PendStep

\* Whatever events a listEvents returned, the payload keeps its type.
LEMMA WithEventsType ==
    ASSUME NEW s \in Snapshot, NEW n \in {2, 5, 8}, NEW E \in SUBSET Event
    PROVE  WithEvents(s, n, E) \in Snapshot
<1>1. /\ s.commands \in [Commands -> Result] /\ s.retention \in Keeps \cup {0}
      /\ s.sequence \in Nat /\ s.digest \in [rev : Nat, events : SUBSET Event]
      /\ s.rev \in Nat /\ s.events \in SUBSET Event
  BY DEF Snapshot
<1>2. CASE n = 2
  <2>1. WithEvents(s, n, E) = [s EXCEPT !.sequence = LastSeq(E)]
    BY <1>2 DEF WithEvents
  <2> QED
    BY <2>1, LastSeqType DEF Snapshot
<1>3. CASE n = 5
  <2>1. WithEvents(s, n, E) =
          [s EXCEPT !.digest = [rev |-> s.digest.rev, events |-> E]]
    BY <1>3 DEF WithEvents
  <2>2. [rev |-> s.digest.rev, events |-> E] \in [rev : Nat, events : SUBSET Event]
    BY <1>1
  <2> QED
    BY <2>1, <2>2 DEF Snapshot
<1>4. CASE n = 8
  <2>1. WithEvents(s, n, E) = [s EXCEPT !.events = E]
    BY <1>4 DEF WithEvents
  <2> QED
    BY <2>1 DEF Snapshot
<1> QED
  BY <1>2, <1>3, <1>4

\* A query of a snapshot.
LEMMA ContinueStep ==
    ASSUME StoreInv, NEW p \in Procs, NEW n \in Nat,
           NEW half \in SUBSET (SUBSET Event), NEW s \in Snapshot,
           Continue(p, n, half, s)
    PROVE  StoreInv'
<1> DEFINE r == [op |-> "snapshot", cmd |-> Idle.cmd, content |-> Idle.content,
                 rev |-> 0, rows |-> {}, keep |-> 0, n |-> n, half |-> half,
                 got |-> s]
<1>1. r \in Pending /\ r.op = "snapshot"
  BY IdleType DEF Pending
<1>2. pend' = [pend EXCEPT ![p] = r] /\ UNCHANGED <<database, snapshot>>
  BY DEF Continue
<1>3. snapshot' \subseteq Snapshot
  BY <1>2 DEF StoreInv, TypeOK
<1> HIDE DEF r
<1> QED
  BY <1>1, <1>2, <1>3, PendStep

\* Every query of a snapshot, and its publication.
LEMMA SnapshotStep ==
    ASSUME StoreInv, NEW p \in Procs,
           \/ SnapshotBegin(p) \/ SnapshotArchives(p) \/ SnapshotLive(p)
           \/ SnapshotRecords(p) \/ SnapshotPublish(p)
    PROVE  StoreInv'
<1> DEFINE o == pend[p]
<1>1. o \in Pending
  BY DEF StoreInv, TypeOK
<1>2. o.n \in Nat /\ o.half \in SUBSET (SUBSET Event) /\ o.got \in Snapshot
  BY <1>1 DEF Pending
<1>3. CASE SnapshotBegin(p)
  <2>1. [commands |-> commands, retention |-> retention, sequence |-> 0,
         digest |-> [rev |-> 0, events |-> {}], rev |-> 0, events |-> {}] \in Snapshot
    BY DEF StoreInv, TypeOK, Snapshot
  <2> QED
    BY <1>3, <2>1, ContinueStep DEF SnapshotBegin
<1>4. CASE SnapshotArchives(p)
  <2>1. archives \in SUBSET (SUBSET Event) /\ o.n + 1 \in Nat
    BY <1>2 DEF StoreInv, TypeOK
  <2> QED
    BY <1>2, <1>4, <2>1, ContinueStep DEF SnapshotArchives
<1>5. CASE SnapshotLive(p)
  <2>1. Listed(o.half, live) \in SUBSET Event
    BY <1>2 DEF StoreInv, TypeOK, Listed
  <2>2. o.n \in {2, 5, 8}
    BY <1>5 DEF SnapshotLive
  <2>3. WithEvents(o.got, o.n, Listed(o.half, live)) \in Snapshot
    BY <1>2, <2>1, <2>2, WithEventsType
  <2>4. o.n + 1 \in Nat /\ {} \in SUBSET (SUBSET Event)
    BY <1>2
  <2>5. Continue(p, o.n + 1, {}, WithEvents(o.got, o.n, Listed(o.half, live)))
    BY <1>5 DEF SnapshotLive
  <2> QED
    BY <2>3, <2>4, <2>5, ContinueStep
<1>6. CASE SnapshotRecords(p)
  <2> DEFINE s == IF o.n = 3
                  THEN [o.got EXCEPT !.digest = [rev |-> rev, events |-> {}]]
                  ELSE [o.got EXCEPT !.rev = rev]
  <2>1. rev \in Nat
    BY DEF StoreInv, TypeOK
  <2>2. [rev |-> rev, events |-> {}] \in [rev : Nat, events : SUBSET Event]
    BY <2>1
  <2>3. [o.got EXCEPT !.digest = [rev |-> rev, events |-> {}]] \in Snapshot
    BY <1>2, <2>2 DEF Snapshot
  <2>4. [o.got EXCEPT !.rev = rev] \in Snapshot
    BY <1>2, <2>1 DEF Snapshot
  <2>5. s \in Snapshot
    BY <2>3, <2>4
  <2>6. Continue(p, o.n + 1, {}, s)
    BY <1>6 DEF SnapshotRecords
  <2>7. o.n + 1 \in Nat /\ {} \in SUBSET (SUBSET Event)
    BY <1>2
  <2> HIDE DEF s
  <2> QED
    BY <2>5, <2>6, <2>7, ContinueStep
<1>7. CASE SnapshotPublish(p)
  <2>1. UNCHANGED database /\ Stop(p) /\ snapshot' = {o.got}
    BY <1>7 DEF SnapshotPublish
  <2>2. snapshot' \subseteq Snapshot
    BY <1>2, <2>1
  <2> QED
    BY <2>1, <2>2, IdleType, PendStep DEF Stop
<1> QED
  BY <1>3, <1>4, <1>5, <1>6, <1>7

\* What a restoration will install has been accepted.
LEMMA RestoreCheckStep ==
    ASSUME StoreInv, NEW p \in Procs, RestoreCheck(p)
    PROVE  StoreInv'
<1>1. PICK s \in snapshot :
        /\ Accepts(s)
        /\ pend' = [pend EXCEPT ![p] =
             [op |-> "restore", cmd |-> Idle.cmd, content |-> Idle.content, rev |-> 0,
              rows |-> {}, keep |-> 0, n |-> 0, half |-> {}, got |-> s]]
  BY DEF RestoreCheck
<1> DEFINE r == [op |-> "restore", cmd |-> Idle.cmd, content |-> Idle.content,
                 rev |-> 0, rows |-> {}, keep |-> 0, n |-> 0, half |-> {}, got |-> s]
<1>2. s \in Snapshot /\ UNCHANGED <<database, snapshot>> /\ snapshot' \subseteq Snapshot
  BY DEF RestoreCheck, StoreInv, TypeOK
<1>3. r \in Pending /\ r.op = "restore" /\ r.got = s
  BY <1>2, IdleType DEF Pending
<1>4. Numbered(s.events, s.sequence)
  BY <1>1 DEF Accepts
<1>5. pend' = [pend EXCEPT ![p] = r]
  BY <1>1
<1> HIDE DEF r
<1> QED
  BY <1>2, <1>3, <1>4, <1>5, PendStep

\* The stopped process is idle, the others as they were.
LEMMA StopPend ==
    ASSUME StoreInv, NEW p \in Procs, Stop(p), NEW q \in Procs
    PROVE  /\ pend' \in [Procs -> Pending]
           /\ q = p => pend'[q].op = "idle"
           /\ q # p => pend'[q] = pend[q]
BY IdleType DEF StoreInv, TypeOK, Stop

\* What the fields of a pending operation are.
LEMMA PendingType ==
    ASSUME StoreInv, NEW p \in Procs
    PROVE  /\ pend[p] \in Pending
           /\ pend[p].cmd \in Commands
           /\ pend[p].content \in Contents
           /\ pend[p].rows \in SUBSET Event
           /\ pend[p].keep \in Keeps \cup {0}
           /\ pend[p].got \in Snapshot
           /\ \A e \in pend[p].rows : e.seq \in Nat
<1>1. pend[p] \in Pending
  BY DEF StoreInv, TypeOK
<1> QED
  BY <1>1 DEF Pending, Event

\* What a command appends is later than every live event, and than
\* every row that a compaction has chosen.
LEMMA CommandCommitStep ==
    ASSUME StoreInv, NEW p \in Procs, CommandCommit(p)
    PROVE  StoreInv'
<1> DEFINE o == pend[p]
<1>1. PICK n \in 1..MaxEvents :
        /\ rev' = rev + 1
        /\ sequence' = sequence + n
        /\ live' = live \cup Appended(o.cmd, sequence, n, rev + 1)
        /\ commands' = [commands EXCEPT ![o.cmd] =
              [content |-> o.content, first |-> sequence + 1, last |-> sequence + n]]
  BY DEF CommandCommit
<1> DEFINE App == Appended(o.cmd, sequence, n, rev + 1)
<1>2. /\ Stop(p)
      /\ UNCHANGED <<exists, archives, retention, snapshot>>
  BY DEF CommandCommit
<1>3. sequence \in Nat /\ rev \in Nat /\ n \in Nat /\ rev + 1 \in Nat \ {0}
  BY BoundsAssumption DEF StoreInv, TypeOK
<1>4. /\ App \subseteq Event
      /\ \A e \in App : sequence < e.seq /\ e.seq <= sequence + n
      /\ Keyed(App)
  BY <1>3, PendingType, AppendedType
<1>5. TypeOK'
  <2>1. [content |-> o.content, first |-> sequence + 1, last |-> sequence + n] \in Result
    BY <1>3, PendingType DEF Result
  <2>2. commands' \in [Commands -> Result]
    BY <1>1, <2>1 DEF StoreInv, TypeOK
  <2>3. pend' \in [Procs -> Pending]
    BY <1>2, StopPend
  <2> QED
    BY <1>1, <1>2, <1>3, <1>4, <2>2, <2>3 DEF StoreInv, TypeOK
<1>6. \A e \in live : e.seq \in Nat /\ e.seq <= sequence
  BY DEF StoreInv, LiveKeyed, TypeOK, Event
<1>7. \A e \in App : e.seq \in Nat
  BY <1>4 DEF Event
<1>8. LiveKeyed'
  <2>1. \A e \in live' : e.seq <= sequence'
    BY <1>1, <1>3, <1>4, <1>6, <1>7
  <2>2. ASSUME NEW e \in live', NEW f \in live', e.seq = f.seq
        PROVE  e = f
    <3>1. CASE e \in live /\ f \in live
      BY <2>2, <3>1 DEF StoreInv, LiveKeyed, Keyed
    <3>2. CASE e \in App /\ f \in App
      BY <1>4, <2>2, <3>2 DEF Keyed
    <3>3. CASE e \in live /\ f \in App
      BY <1>3, <1>4, <1>6, <1>7, <2>2, <3>3
    <3>4. CASE e \in App /\ f \in live
      BY <1>3, <1>4, <1>6, <1>7, <2>2, <3>4
    <3> HIDE DEF App
    <3> QED
      BY <1>1, <3>1, <3>2, <3>3, <3>4 DEF App
  <2> QED
    BY <2>1, <2>2 DEF LiveKeyed, Keyed
<1>9. PendingSound'
  <2> SUFFICES ASSUME NEW q \in Procs
               PROVE  LET r == pend'[q] IN
                      /\ r.op = "compact" =>
                           /\ exists'
                           /\ \A e \in r.rows : e.seq <= sequence'
                           /\ \A e \in r.rows, f \in live' : f.seq <= e.seq => f \in r.rows
                      /\ r.op = "restore" => Numbered(r.got.events, r.got.sequence)
    BY DEF PendingSound, ClosedIn
  <2>1. CASE q = p
    BY <1>2, <2>1, StopPend
  <2>2. CASE q # p
    <3> DEFINE r == pend[q]
    <3>1. pend'[q] = r
      BY <1>2, <2>2, StopPend
    <3>2. ASSUME r.op = "compact"
          PROVE  /\ exists'
                 /\ \A e \in r.rows : e.seq <= sequence'
                 /\ \A e \in r.rows, f \in live' : f.seq <= e.seq => f \in r.rows
      <4>1. /\ exists
            /\ \A e \in r.rows : e.seq \in Nat /\ e.seq <= sequence
            /\ \A e \in r.rows, f \in live : f.seq <= e.seq => f \in r.rows
        BY <3>2, PendingType DEF StoreInv, PendingSound, ClosedIn
      <4>2. ASSUME NEW e \in r.rows, NEW f \in App
            PROVE  ~(f.seq <= e.seq)
        BY <1>3, <1>4, <1>7, <4>1
      <4> QED
        BY <1>1, <1>2, <1>3, <4>1, <4>2
    <3>3. r.op = "restore" => Numbered(r.got.events, r.got.sequence)
      BY DEF StoreInv, PendingSound
    <3> QED
      BY <3>1, <3>2, <3>3
  <2> QED
    BY <2>1, <2>2
<1> QED
  BY <1>5, <1>8, <1>9 DEF StoreInv

\* Fewer live events keep their key, and stay closed under the rows of others.
LEMMA CompactCommitStep ==
    ASSUME StoreInv, NEW p \in Procs, CompactCommit(p)
    PROVE  StoreInv'
<1> DEFINE o == pend[p]
<1>1. /\ archives' = archives \cup {o.rows}
      /\ live' = live \ Between(o.rows)
      /\ retention' = o.keep
      /\ Stop(p)
      /\ UNCHANGED <<exists, commands, rev, sequence, snapshot>>
  BY DEF CompactCommit
<1>2. TypeOK'
  <2>1. pend' \in [Procs -> Pending]
    BY <1>1, StopPend
  <2> QED
    BY <1>1, <2>1, PendingType DEF StoreInv, TypeOK
<1>3. LiveKeyed'
  BY <1>1 DEF StoreInv, LiveKeyed, Keyed
<1>4. PendingSound'
  <2> SUFFICES ASSUME NEW q \in Procs
               PROVE  LET r == pend'[q] IN
                      /\ r.op = "compact" =>
                           /\ exists
                           /\ \A e \in r.rows : e.seq <= sequence
                           /\ \A e \in r.rows, f \in live' : f.seq <= e.seq => f \in r.rows
                      /\ r.op = "restore" => Numbered(r.got.events, r.got.sequence)
    BY <1>1 DEF PendingSound, ClosedIn
  <2>1. CASE q = p
    BY <1>1, <2>1, StopPend
  <2>2. CASE q # p
    <3>1. pend'[q] = pend[q]
      BY <1>1, <2>2, StopPend
    <3>2. live' \subseteq live
      BY <1>1
    <3> QED
      BY <3>1, <3>2 DEF StoreInv, PendingSound, ClosedIn
  <2> QED
    BY <2>1, <2>2
<1> QED
  BY <1>2, <1>3, <1>4 DEF StoreInv

\* An empty store: by loss, or created.
LEMMA EmptyStep ==
    ASSUME StoreInv, EmptyStore, snapshot' = snapshot, exists' \in BOOLEAN,
           \/ pend' = [p \in Procs |-> Idle]
           \/ pend' = pend /\ ~exists
    PROVE  StoreInv'
<1>1. TypeOK'
  BY IdleType DEF StoreInv, TypeOK, EmptyStore
<1>2. LiveKeyed'
  BY DEF EmptyStore, LiveKeyed, Keyed
<1>3. PendingSound'
  <2>1. CASE pend' = [p \in Procs |-> Idle]
    BY <2>1, IdleType DEF PendingSound
  <2>2. CASE pend' = pend /\ ~exists
    BY <2>2 DEF StoreInv, PendingSound
  <2> QED
    BY <2>1, <2>2
<1> QED
  BY <1>1, <1>2, <1>3 DEF StoreInv

\* The restored store is numbered, so that it has its key.
LEMMA RestoreRenameStep ==
    ASSUME StoreInv, NEW p \in Procs, RestoreRename(p)
    PROVE  StoreInv'
<1> DEFINE s == pend[p].got
<1>1. /\ exists' = TRUE /\ commands' = s.commands /\ rev' = s.rev
      /\ sequence' = s.sequence /\ live' = s.events /\ archives' = {}
      /\ retention' = s.retention /\ Leave(p) /\ snapshot' = snapshot
  BY DEF RestoreRename
<1>2. s \in Snapshot
  BY PendingType
<1>3. Numbered(s.events, s.sequence)
  BY DEF StoreInv, PendingSound, RestoreRename
<1>4. pend' \in [Procs -> Pending]
  BY <1>1, IdleType DEF StoreInv, TypeOK, Leave
<1>5. TypeOK'
  BY <1>1, <1>2, <1>4 DEF StoreInv, TypeOK, Snapshot
<1>6. LiveKeyed'
  <2>1. \A e \in s.events : e.seq \in 1..s.sequence
    BY <1>3 DEF Numbered, Seqs
  <2>2. s.sequence \in Nat
    BY <1>2 DEF Snapshot
  <2>3. \A e \in s.events : e.seq <= s.sequence
    BY <2>1, <2>2
  <2> QED
    BY <1>1, <1>3, <2>3 DEF LiveKeyed, Keyed, Numbered
<1>7. PendingSound'
  <2>1. ASSUME NEW q \in Procs
        PROVE  /\ pend'[q].op # "compact"
               /\ pend'[q].op = "restore" => pend'[q] = pend[q]
    <3>1. pend'[q] = IF q # p /\ pend[q].op = "restore" THEN pend[q] ELSE Idle
      BY <1>1 DEF Leave
    <3>2. CASE q # p /\ pend[q].op = "restore"
      BY <3>1, <3>2
    <3>3. CASE ~(q # p /\ pend[q].op = "restore")
      BY <3>1, <3>3, IdleType
    <3> QED
      BY <3>2, <3>3
  <2> QED
    BY <2>1 DEF StoreInv, PendingSound
<1> QED
  BY <1>5, <1>6, <1>7 DEF StoreInv

\* Every step preserves the invariant.
LEMMA NextStoreInv == StoreInv /\ [Next]_vars => StoreInv'
<1> SUFFICES ASSUME StoreInv, [Next]_vars PROVE StoreInv'
  OBVIOUS
<1>1. CASE UNCHANGED vars
  BY <1>1 DEF vars, StoreInv, TypeOK, LiveKeyed, PendingSound, Keyed, ClosedIn
<1>2. CASE Lose
  BY <1>2, EmptyStep DEF Lose
<1>3. ASSUME NEW p \in Procs, ProcNext(p)
      PROVE  StoreInv'
  <2>1. CASE \E c \in Commands, d \in Contents : CommandRead(p, c, d)
    BY <2>1, CommandReadStep
  <2>2. CASE CommandCommit(p)
    BY <2>2, CommandCommitStep
  <2>3. CASE \/ CommandRollback(p) \/ CompactFailed(p) \/ SnapshotFailed(p) \/ Crash(p)
    BY <2>3, StopStep DEF CommandRollback, CompactFailed, SnapshotFailed, Crash
  <2>4. CASE (\E k \in Keeps : CompactCount(p, k)) \/ CompactRows(p)
    BY <2>4, CompactReadStep
  <2>5. CASE CompactCommit(p)
    BY <2>5, CompactCommitStep
  <2>6. CASE \/ SnapshotBegin(p) \/ SnapshotArchives(p) \/ SnapshotLive(p)
             \/ SnapshotRecords(p) \/ SnapshotPublish(p)
    BY <2>6, SnapshotStep
  <2>7. CASE Create(p)
    BY <2>7, EmptyStep DEF Create
  <2>8. CASE RestoreCheck(p)
    BY <2>8, RestoreCheckStep
  <2>9. CASE RestoreRename(p)
    BY <2>9, RestoreRenameStep
  <2> QED
    BY <1>3, <2>1, <2>2, <2>3, <2>4, <2>5, <2>6, <2>7, <2>8, <2>9 DEF ProcNext
<1> QED
  BY <1>1, <1>2, <1>3 DEF Next

\* StoreInv holds of every behaviour, whatever operations overlap.
THEOREM StoreSound == Spec => []StoreInv
BY InitStoreInv, NextStoreInv, PTL DEF Spec

\* Every table, the snapshot file and what each process holds keep their types.
THEOREM StoreTypeCorrect == Spec => []TypeOK
<1>1. StoreInv => TypeOK
  BY DEF StoreInv
<1> QED
  BY <1>1, StoreSound, PTL

-----------------------------------------------------------------------------
(* What each step does to the operations.                                  *)

\* Only the process that begins an operation changes its own.
LEMMA BeginOp ==
    ASSUME StoreInv, NEW p \in Procs, NEW q \in Procs,
           NEW o, NEW c, NEW d, NEW r, NEW n, NEW E, NEW k,
           Begin(p, o, c, d, r, n, E, k)
    PROVE  /\ q = p => pend'[q].op = o /\ pend'[q].rows = E
           /\ q # p => pend'[q] = pend[q]
BY DEF Begin, StoreInv, TypeOK

\* Only the process that takes a snapshot changes what it has read.
LEMMA ContinueOp ==
    ASSUME StoreInv, NEW p \in Procs, NEW q \in Procs,
           NEW n, NEW half, NEW s, Continue(p, n, half, s)
    PROVE  /\ q = p => pend'[q].op = "snapshot"
           /\ q # p => pend'[q] = pend[q]
BY DEF Continue, StoreInv, TypeOK

\* The steps that neither compact nor restore, nor change the database.
OtherRead(p) ==
    \/ \E c \in Commands, d \in Contents : CommandRead(p, c, d)
    \/ CommandRollback(p) \/ CompactFailed(p) \/ SnapshotFailed(p) \/ Crash(p)
    \/ SnapshotBegin(p) \/ SnapshotArchives(p) \/ SnapshotLive(p)
    \/ SnapshotRecords(p) \/ SnapshotPublish(p)

\* They start neither a compaction nor a restoration.
LEMMA OtherReadOp ==
    ASSUME StoreInv, NEW p \in Procs, NEW q \in Procs, OtherRead(p)
    PROVE  /\ UNCHANGED database
           /\ pend'[q].op \in {"compact", "restore"} => pend'[q] = pend[q]
<1>1. CASE \E c \in Commands, d \in Contents : CommandRead(p, c, d)
  <2>1. PICK c \in Commands, d \in Contents : CommandRead(p, c, d)
    BY <1>1
  <2>2. Begin(p, "command", c, d, rev, 0, {}, 0) /\ UNCHANGED database
    BY <2>1 DEF CommandRead
  <2> QED
    BY <2>2, BeginOp
<1>2. CASE \/ CommandRollback(p) \/ CompactFailed(p) \/ SnapshotFailed(p) \/ Crash(p)
           \/ SnapshotPublish(p)
  <2>1. Stop(p) /\ UNCHANGED database
    BY <1>2 DEF CommandRollback, CompactFailed, SnapshotFailed, Crash, SnapshotPublish
  <2> QED
    BY <2>1, StopPend
<1>3. CASE \/ SnapshotBegin(p) \/ SnapshotArchives(p) \/ SnapshotLive(p)
           \/ SnapshotRecords(p)
  <2>1. \E n, half, s : Continue(p, n, half, s)
    BY <1>3 DEF SnapshotBegin, SnapshotArchives, SnapshotLive, SnapshotRecords
  <2>2. UNCHANGED database
    BY <2>1 DEF Continue
  <2> QED
    BY <2>1, <2>2, ContinueOp
<1> QED
  BY <1>1, <1>2, <1>3 DEF OtherRead

-----------------------------------------------------------------------------
(* Nothing is lost while compactions overlap at will.                      *)

\* A restoration that is kept apart finds no store until it installs its own.
LEMMA NextOneRestore ==
    ASSUME "restore" \in Alone, StoreInv, OneRestore, [Next]_vars
    PROVE  OneRestore'
<1> DEFINE Restoring(q) == pend[q].op = "restore"
<1>1. \A q \in Procs : Restoring(q) =>
         ~exists /\ \A r \in Procs : Restoring(r) => r = q
  BY DEF OneRestore, Doing
<1>2. SUFFICES \A q \in Procs : pend'[q].op = "restore" =>
         ~exists' /\ \A r \in Procs : pend'[r].op = "restore" => r = q
  BY DEF OneRestore, Doing
<1>3. ASSUME exists' = exists,
             \A q \in Procs : pend'[q].op = "restore" => pend[q].op = "restore"
      PROVE  \A q \in Procs : pend'[q].op = "restore" =>
         ~exists' /\ \A r \in Procs : pend'[r].op = "restore" => r = q
  BY <1>1, <1>3
<1>4. CASE UNCHANGED vars
  BY <1>3, <1>4 DEF vars
<1>5. CASE Lose
  BY <1>5, IdleType DEF Lose
<1>6. ASSUME NEW p \in Procs, ProcNext(p)
      PROVE  \A q \in Procs : pend'[q].op = "restore" =>
         ~exists' /\ \A r \in Procs : pend'[r].op = "restore" => r = q
  <2>1. CASE OtherRead(p)
    <3>1. exists' = exists
      BY <2>1, OtherReadOp DEF database
    <3> QED
      BY <1>3, <2>1, <3>1, OtherReadOp
  <2>2. CASE CommandCommit(p) \/ CompactCommit(p)
    <3>1. Stop(p) /\ exists' = exists
      BY <2>2 DEF CommandCommit, CompactCommit
    <3>2. \A q \in Procs : pend'[q].op = "restore" => pend[q].op = "restore"
      BY <3>1, StopPend
    <3> QED
      BY <1>3, <3>1, <3>2
  <2>3. CASE (\E k \in Keeps : CompactCount(p, k)) \/ CompactRows(p)
    <3>1. /\ exists' = exists
          /\ \E c, d, n, E, k : Begin(p, "compact", c, d, 0, n, E, k)
      BY <2>3 DEF CompactCount, CompactRows, database
    <3>2. \A q \in Procs : pend'[q].op = "restore" => pend[q].op = "restore"
      BY <3>1, BeginOp
    <3> QED
      BY <1>3, <3>1, <3>2
  <2>4. CASE Create(p)
    BY <2>4 DEF Create, Apart, Doing
  <2>5. CASE RestoreCheck(p)
    <3>1. ~exists' /\ \A q \in Procs : pend[q].op # "restore"
      BY <2>5 DEF RestoreCheck, Apart, Doing, database
    <3>2. \A q \in Procs : q # p => pend'[q] = pend[q]
      BY <2>5 DEF RestoreCheck, StoreInv, TypeOK
    <3> QED
      BY <3>1, <3>2
  <2>6. CASE RestoreRename(p)
    <3>1. pend[p].op = "restore" /\ Leave(p)
      BY <2>6 DEF RestoreRename
    <3>2. \A q \in Procs : q # p => pend[q].op # "restore"
      BY <1>1, <3>1
    <3>3. \A q \in Procs : pend'[q] = Idle
      BY <3>1, <3>2 DEF Leave
    <3> QED
      BY <3>3, IdleType
  <2> QED
    BY <1>6, <2>1, <2>2, <2>3, <2>4, <2>5, <2>6 DEF ProcNext, OtherRead
<1> QED
  BY <1>4, <1>5, <1>6 DEF Next

\* What a compaction deletes is in the archive that it writes.
LEMMA CompactKeeps ==
    ASSUME StoreInv, NEW p \in Procs, CompactCommit(p)
    PROVE  Listed(archives, live) \subseteq Listed(archives', live')
<1> DEFINE E == pend[p].rows
<1>1. archives' = archives \cup {E} /\ live' = live \ Between(E)
  BY DEF CompactCommit
<1>2. ASSUME NEW e \in Between(E)
      PROVE  e \in E
  <2>1. e \in live /\ \E g \in E : e.seq <= g.seq
    BY <1>2 DEF Between, Spans
  <2>2. ClosedIn(E, live)
    BY DEF StoreInv, PendingSound, CompactCommit
  <2> QED
    BY <2>1, <2>2 DEF ClosedIn
<1> HIDE DEF E
<1> QED
  BY <1>1, <1>2 DEF Listed

\* No step takes an event from the history of a store that stays.
LEMMA StepKeeps ==
    ASSUME StoreInv, OneRestore, [Next]_vars
    PROVE  EventsKept
<1>1. CASE UNCHANGED database
  BY <1>1 DEF EventsKept, database
<1>2. CASE UNCHANGED vars
  BY <1>2 DEF EventsKept, vars
<1>3. CASE Lose
  BY <1>3 DEF EventsKept, Lose
<1>4. ASSUME NEW p \in Procs, ProcNext(p)
      PROVE  EventsKept
  <2>1. CASE OtherRead(p)
    BY <1>1, <2>1, OtherReadOp
  <2>2. CASE (\E k \in Keeps : CompactCount(p, k)) \/ CompactRows(p) \/ RestoreCheck(p)
    BY <1>1, <2>2 DEF CompactCount, CompactRows, RestoreCheck
  <2>3. CASE CommandCommit(p)
    BY <2>3 DEF CommandCommit, EventsKept, Listed
  <2>4. CASE CompactCommit(p)
    <3>1. archives \subseteq archives'
      BY <2>4 DEF CompactCommit
    <3> QED
      BY <2>4, <3>1, CompactKeeps DEF EventsKept
  <2>5. CASE Create(p)
    BY <2>5 DEF Create, EventsKept
  <2>6. CASE RestoreRename(p)
    BY <2>6 DEF RestoreRename, OneRestore, Doing, EventsKept
  <2> QED
    BY <1>4, <2>1, <2>2, <2>3, <2>4, <2>5, <2>6 DEF ProcNext, OtherRead
<1> QED
  BY <1>2, <1>3, <1>4 DEF Next

\* If restorations are kept apart, no event of the history ever disappears while
\* its store exists, and no archive changes, although any number of processes
\* compact at the same time.
THEOREM NothingIsLost ==
    ASSUME "restore" \in Alone
    PROVE  Spec => HistoryKept
<1>1. Init => OneRestore
  BY IdleType DEF Init, OneRestore, Doing
<1>2. StoreInv /\ OneRestore /\ [Next]_vars => OneRestore'
  BY NextOneRestore
<1>3. StoreInv /\ OneRestore /\ [Next]_vars => [EventsKept]_vars
  BY StepKeeps
<1> QED
  BY <1>1, <1>2, <1>3, StoreSound, PTL DEF Spec, HistoryKept

-----------------------------------------------------------------------------
(* The history is whole while compactions are kept apart from each other.  *)

\* One process compacts, and it archives rows that nobody else can take away.
LEMMA NextOneCompaction ==
    ASSUME "compact" \in Alone, StoreInv, OneCompaction, [Next]_vars
    PROVE  OneCompaction'
<1>1. \A q \in Procs : pend[q].op = "compact" =>
         pend[q].rows \subseteq live /\ \A r \in Procs : pend[r].op = "compact" => r = q
  BY DEF OneCompaction, Doing
<1>2. SUFFICES \A q \in Procs : pend'[q].op = "compact" =>
         pend'[q].rows \subseteq live' /\ \A r \in Procs : pend'[r].op = "compact" => r = q
  BY DEF OneCompaction, Doing
<1> DEFINE Goal == \A q \in Procs : pend'[q].op = "compact" =>
         pend'[q].rows \subseteq live' /\ \A r \in Procs : pend'[r].op = "compact" => r = q
<1>3. ASSUME live \subseteq live',
             \A q \in Procs : pend'[q].op = "compact" => pend'[q] = pend[q]
      PROVE  Goal
  BY <1>1, <1>3
<1>4. CASE UNCHANGED vars
  BY <1>3, <1>4 DEF vars
<1>5. CASE Lose
  BY <1>5, IdleType DEF Lose
<1>6. ASSUME NEW p \in Procs, ProcNext(p)
      PROVE  Goal
  <2>1. CASE OtherRead(p)
    <3>1. live' = live
      BY <2>1, OtherReadOp DEF database
    <3> QED
      BY <1>3, <2>1, <3>1, OtherReadOp
  <2>2. CASE CommandCommit(p)
    <3>1. Stop(p) /\ live \subseteq live'
      BY <2>2 DEF CommandCommit
    <3>2. \A q \in Procs : pend'[q].op = "compact" => pend'[q] = pend[q]
      BY <3>1, StopPend
    <3> QED
      BY <1>3, <3>1, <3>2
  <2>3. CASE \E k \in Keeps : CompactCount(p, k)
    <3>1. /\ \A q \in Procs : pend[q].op # "compact"
          /\ \E c, d, n, k : Begin(p, "compact", c, d, 0, n, {}, k)
      BY <2>3 DEF CompactCount, Apart, Doing
    <3>2. /\ pend'[p].rows = {}
          /\ \A q \in Procs : q # p => pend'[q] = pend[q]
      BY <3>1, BeginOp
    <3> QED
      BY <3>1, <3>2
  <2>4. CASE CompactRows(p)
    <3> DEFINE E == Oldest(live, pend[p].n)
    <3>1. /\ pend[p].op = "compact" /\ live' = live
          /\ \E c, d, n, k : Begin(p, "compact", c, d, 0, n, E, k)
      BY <2>4 DEF CompactRows, database
    <3>2. /\ pend'[p].rows = E
          /\ \A q \in Procs : q # p => pend'[q] = pend[q]
      BY <3>1, BeginOp
    <3>3. E \subseteq live
      BY DEF Oldest
    <3>4. \A q \in Procs : q # p => pend'[q].op # "compact"
      BY <1>1, <3>1, <3>2
    <3> HIDE DEF E
    <3> QED
      BY <3>1, <3>2, <3>3, <3>4
  <2>5. CASE CompactCommit(p)
    <3>1. pend[p].op = "compact" /\ Stop(p)
      BY <2>5 DEF CompactCommit
    <3>2. \A q \in Procs : pend'[q].op # "compact"
      BY <1>1, <3>1, StopPend
    <3> QED
      BY <3>2
  <2>6. CASE Create(p)
    <3>1. pend' = pend /\ ~exists
      BY <2>6 DEF Create
    <3>2. \A q \in Procs : pend[q].op # "compact"
      BY <3>1 DEF StoreInv, PendingSound
    <3> QED
      BY <3>1, <3>2
  <2>7. CASE RestoreCheck(p)
    <3>1. ~exists
      BY <2>7 DEF RestoreCheck
    <3>2. \A q \in Procs : pend[q].op # "compact"
      BY <3>1 DEF StoreInv, PendingSound
    <3>3. \A q \in Procs : pend'[q].op # "compact"
      BY <2>7, <3>2 DEF RestoreCheck, StoreInv, TypeOK
    <3> QED
      BY <3>3
  <2>8. CASE RestoreRename(p)
    <3>1. ASSUME NEW q \in Procs
          PROVE  pend'[q].op # "compact"
      <4>1. pend'[q] = IF q # p /\ pend[q].op = "restore" THEN pend[q] ELSE Idle
        BY <2>8 DEF RestoreRename, Leave
      <4>2. CASE q # p /\ pend[q].op = "restore"
        BY <4>1, <4>2
      <4>3. CASE ~(q # p /\ pend[q].op = "restore")
        BY <4>1, <4>3, IdleType
      <4> QED
        BY <4>2, <4>3
    <3> QED
      BY <3>1
  <2> QED
    BY <1>6, <2>1, <2>2, <2>3, <2>4, <2>5, <2>6, <2>7, <2>8 DEF ProcNext, OtherRead
<1> QED
  BY <1>4, <1>5, <1>6 DEF Next

\* A command's events continue the numbering.
LEMMA CommandContiguous ==
    ASSUME StoreInv, HistoryContiguous, NEW p \in Procs, CommandCommit(p)
    PROVE  HistoryContiguous'
<1> DEFINE o == pend[p]
<1>1. PICK n \in 1..MaxEvents :
        /\ sequence' = sequence + n
        /\ live' = live \cup Appended(o.cmd, sequence, n, rev + 1)
  BY DEF CommandCommit
<1> DEFINE App == Appended(o.cmd, sequence, n, rev + 1)
           Old == Listed(archives, live)
<1>2. archives' = archives
  BY DEF CommandCommit
<1>3. sequence \in Nat /\ n \in Nat /\ n > 0 /\ rev + 1 \in Nat \ {0}
  BY <1>1, BoundsAssumption DEF StoreInv, TypeOK
<1>4. /\ App \subseteq Event
      /\ Keyed(App)
      /\ Seqs(App) = sequence + 1 .. sequence + n
  <2>1. o.cmd \in Commands
    BY PendingType
  <2> HIDE DEF o
  <2> QED
    BY <1>3, <2>1, AppendedType
<1>5. Seqs(Old) = 1..sequence /\ \A e, f \in Old : e.seq = f.seq => e = f
  BY DEF HistoryContiguous, Numbered
<1> HIDE DEF App
<1>6. live' = live \cup App
  BY <1>1 DEF App
<1>7. \A A \in archives : A \subseteq Old
  BY DEF Listed
<1>8. \A e \in Old : e.seq \in 1..sequence
  BY <1>5 DEF Seqs
<1>9. \A e \in App : e.seq \in sequence + 1 .. sequence + n
  BY <1>4 DEF Seqs
<1>10. \A e \in Old, f \in App : e.seq # f.seq
  BY <1>3, <1>8, <1>9
<1>11. \A A \in archives : Seqs(A) \cap Seqs(live') = {}
  <2> SUFFICES ASSUME NEW A \in archives, NEW e \in A, NEW f \in live', e.seq = f.seq
               PROVE  FALSE
    BY DEF Seqs
  <2>1. CASE f \in live
    BY <2>1 DEF HistoryContiguous, Seqs
  <2>2. CASE f \in App
    BY <1>7, <1>10, <2>2
  <2> QED
    BY <1>6, <2>1, <2>2
<1>12. Listed(archives', live') = Old \cup App
  BY <1>2, <1>6 DEF Listed
<1>13. Seqs(Old \cup App) = 1..sequence'
  <2>1. Seqs(Old \cup App) = Seqs(Old) \cup Seqs(App)
    BY DEF Seqs
  <2>2. 1..sequence + n = (1..sequence) \cup (sequence + 1 .. sequence + n)
    BY <1>3
  <2> QED
    BY <1>1, <1>4, <1>5, <2>1, <2>2
<1>14. \A e, f \in Old \cup App : e.seq = f.seq => e = f
  BY <1>4, <1>5, <1>10 DEF Keyed
<1> HIDE DEF Old
<1> QED
  BY <1>2, <1>11, <1>12, <1>13, <1>14 DEF HistoryContiguous, Numbered

\* A compaction that was alone moves its rows, and nothing else, to the archive.
LEMMA CompactContiguous ==
    ASSUME StoreInv, HistoryContiguous, OneCompaction, NEW p \in Procs, CompactCommit(p)
    PROVE  HistoryContiguous'
<1> DEFINE E == pend[p].rows
<1>1. archives' = archives \cup {E} /\ live' = live \ Between(E) /\ sequence' = sequence
  BY DEF CompactCommit
<1>2. E \subseteq live
  BY DEF OneCompaction, Doing, CompactCommit
<1>3. \A e \in live : e.seq \in Nat
  BY DEF StoreInv, TypeOK, Event
<1>4. ClosedIn(E, live) /\ Keyed(live)
  BY DEF StoreInv, PendingSound, LiveKeyed, CompactCommit
<1> HIDE DEF E
<1>5. Between(E) = E
  <2>1. \A e \in E : e \in Between(E)
    BY <1>2, <1>3 DEF Between, Spans
  <2>2. \A e \in Between(E) : e \in E
    BY <1>4 DEF Between, Spans, ClosedIn
  <2> QED
    BY <2>1, <2>2
<1>6. live' = live \ E
  BY <1>1, <1>5
<1>7. Listed(archives', live') = Listed(archives, live)
  BY <1>1, <1>2, <1>6 DEF Listed
<1>8. \A A \in archives : Seqs(A) \cap Seqs(live) = {}
  BY DEF HistoryContiguous
<1>9. Seqs(E) \subseteq Seqs(live) /\ Seqs(live') \subseteq Seqs(live)
  BY <1>2, <1>6 DEF Seqs
<1>10. Seqs(E) \cap Seqs(live') = {}
  BY <1>2, <1>4, <1>6 DEF Keyed, Seqs
<1>11. \A A \in archives' : Seqs(A) \cap Seqs(live') = {}
  BY <1>1, <1>8, <1>9, <1>10
<1>12. \A A, B \in archives' : A # B => Seqs(A) \cap Seqs(B) = {}
  <2>1. \A A, B \in archives : A # B => Seqs(A) \cap Seqs(B) = {}
    BY DEF HistoryContiguous
  <2>2. \A A \in archives : Seqs(A) \cap Seqs(E) = {}
    BY <1>8, <1>9
  <2> QED
    BY <1>1, <2>1, <2>2
<1> QED
  BY <1>1, <1>7, <1>11, <1>12 DEF HistoryContiguous

\* An empty store has an empty history.
LEMMA EmptyContiguous ==
    ASSUME EmptyStore
    PROVE  HistoryContiguous'
<1>1. archives' = {} /\ live' = {} /\ sequence' = 0
  BY DEF EmptyStore
<1>2. Listed(archives', live') = {}
  BY <1>1 DEF Listed
<1>3. Seqs({}) = {} /\ 1..0 = {}
  BY DEF Seqs
<1> QED
  BY <1>1, <1>2, <1>3 DEF HistoryContiguous, Numbered

\* An accepted snapshot is restored as one live history.
LEMMA RestoreContiguous ==
    ASSUME StoreInv, NEW p \in Procs, RestoreRename(p)
    PROVE  HistoryContiguous'
<1> DEFINE s == pend[p].got
<1>1. archives' = {} /\ live' = s.events /\ sequence' = s.sequence
  BY DEF RestoreRename
<1>2. Numbered(s.events, s.sequence)
  BY DEF StoreInv, PendingSound, RestoreRename
<1>3. Listed(archives', live') = s.events
  BY <1>1 DEF Listed
<1> QED
  BY <1>1, <1>2, <1>3 DEF HistoryContiguous

\* Every step keeps the history whole.
LEMMA NextContiguous ==
    ASSUME StoreInv, HistoryContiguous, OneCompaction, [Next]_vars
    PROVE  HistoryContiguous'
<1>1. CASE UNCHANGED vars \/ UNCHANGED database
  <2>1. UNCHANGED <<archives, live, sequence>>
    BY <1>1 DEF vars, database
  <2> QED
    BY <2>1 DEF HistoryContiguous
<1>2. CASE Lose
  BY <1>2, EmptyContiguous DEF Lose
<1>3. ASSUME NEW p \in Procs, ProcNext(p)
      PROVE  HistoryContiguous'
  <2>1. CASE OtherRead(p)
    BY <1>1, <2>1, OtherReadOp
  <2>2. CASE (\E k \in Keeps : CompactCount(p, k)) \/ CompactRows(p) \/ RestoreCheck(p)
    BY <1>1, <2>2 DEF CompactCount, CompactRows, RestoreCheck
  <2>3. CASE CommandCommit(p)
    BY <2>3, CommandContiguous
  <2>4. CASE CompactCommit(p)
    BY <2>4, CompactContiguous
  <2>5. CASE Create(p)
    BY <2>5, EmptyContiguous DEF Create
  <2>6. CASE RestoreRename(p)
    BY <2>6, RestoreContiguous
  <2> QED
    BY <1>3, <2>1, <2>2, <2>3, <2>4, <2>5, <2>6 DEF ProcNext, OtherRead
<1> QED
  BY <1>1, <1>2, <1>3 DEF Next

\* An empty store has a whole history.
LEMMA InitHistoryInv == Init => HistoryInv
<1> SUFFICES ASSUME Init PROVE HistoryInv
  OBVIOUS
<1>1. OneCompaction
  BY IdleType DEF Init, OneCompaction, Doing
<1>2. HistoryContiguous
  <2>1. Listed(archives, live) = {}
    BY DEF Init, Listed
  <2>2. Seqs({}) = {} /\ 1..0 = {}
    BY DEF Seqs
  <2> QED
    BY <2>1, <2>2 DEF Init, HistoryContiguous, Numbered
<1> QED
  BY <1>1, <1>2, InitStoreInv DEF HistoryInv

\* Every step keeps the invariant of the history.
LEMMA NextHistoryInv ==
    ASSUME "compact" \in Alone, HistoryInv, [Next]_vars
    PROVE  HistoryInv'
BY NextStoreInv, NextOneCompaction, NextContiguous DEF HistoryInv

\* If compactions are kept apart from each other, the archives and the live events
\* are always one history, numbered from 1 to the project sequence, through every
\* race of commands, snapshots and restorations.
THEOREM HistoryIsWhole ==
    ASSUME "compact" \in Alone
    PROVE  Spec => []HistoryContiguous
<1>1. HistoryInv /\ [Next]_vars => HistoryInv'
  BY NextHistoryInv
<1>2. HistoryInv => HistoryContiguous
  BY DEF HistoryInv
<1> QED
  BY <1>1, <1>2, InitHistoryInv, PTL DEF Spec

-----------------------------------------------------------------------------
(* Results and events agree while no commit overlaps a snapshot.           *)

\* A process goes on to r, or gives up, and the database stays.
LEMMA AppliedRead ==
    ASSUME StoreInv, AppliedInv, UNCHANGED database, NEW p \in Procs, NEW r,
           pend' = [pend EXCEPT ![p] = r], HoldsTrue(r),
           \A s \in snapshot' : Accepts(s) /\ Applied(s.commands, s.events)
    PROVE  AppliedInv'
<1>1. History' = History
  BY DEF History, Listed, database
<1>2. Numbered(History, sequence)' /\ Applied(commands, History)'
  <2>1. sequence' = sequence /\ commands' = commands
    BY DEF database
  <2> QED
    BY <1>1, <2>1 DEF AppliedInv
<1>3. ASSUME NEW q \in Procs
      PROVE  HoldsTrue(pend[q])'
  <2>1. HoldsTrue(pend'[q])
    BY DEF StoreInv, TypeOK, AppliedInv
  <2> QED
    BY <1>1, <2>1 DEF HoldsTrue, ReadsTrue, database
<1> QED
  BY <1>2, <1>3 DEF AppliedInv

\* A process that gives up.
LEMMA AppliedStop ==
    ASSUME StoreInv, AppliedInv, NEW p \in Procs, Stop(p), UNCHANGED database,
           \A s \in snapshot' : Accepts(s) /\ Applied(s.commands, s.events)
    PROVE  AppliedInv'
<1>1. HoldsTrue(Idle)
  BY IdleType DEF HoldsTrue
<1> QED
  BY <1>1, AppliedRead DEF Stop

\* A process that has read a record, or what it will compact, holds events of the
\* history.
LEMMA AppliedBegin ==
    ASSUME StoreInv, AppliedInv, NEW p \in Procs, UNCHANGED <<database, snapshot>>,
           NEW o \in {"command", "compact"}, NEW c, NEW d, NEW r, NEW n, NEW k,
           NEW E \in SUBSET live, Begin(p, o, c, d, r, n, E, k)
    PROVE  AppliedInv'
<1> DEFINE b == [op |-> o, cmd |-> c, content |-> d, rev |-> r, rows |-> E,
                 keep |-> k, n |-> n, half |-> {}, got |-> EmptySnapshot]
<1>1. HoldsTrue(b)
  BY DEF HoldsTrue, History, Listed
<1>2. pend' = [pend EXCEPT ![p] = b]
  BY DEF Begin
<1>3. \A s \in snapshot' : Accepts(s) /\ Applied(s.commands, s.events)
  BY DEF AppliedInv
<1> HIDE DEF b
<1> QED
  BY <1>1, <1>2, <1>3, AppliedRead

\* The last sequence of numbered events is their number.
LEMMA NumberedLast ==
    ASSUME NEW E, NEW n \in Nat, Numbered(E, n)
    PROVE  LastSeq(E) = n
<1>1. Seqs(E) = 1..n
  BY DEF Numbered
<1>2. CASE n = 0
  BY <1>1, <1>2 DEF LastSeq
<1>3. CASE n > 0
  <2>1. n \in Seqs(E) /\ \A m \in Seqs(E) : m <= n
    BY <1>1, <1>3
  <2>2. \A k \in Seqs(E) : (\A m \in Seqs(E) : m <= k) => k = n
    BY <1>1, <2>1
  <2> QED
    BY <2>1, <2>2 DEF LastSeq
<1> QED
  BY <1>2, <1>3

\* What a snapshot reads next is what is there.
LEMMA AppliedContinue ==
    ASSUME StoreInv, AppliedInv, NEW p \in Procs, NEW n, NEW half, NEW s,
           Continue(p, n, half, s),
           ReadsTrue([op |-> "snapshot", cmd |-> Idle.cmd, content |-> Idle.content,
                      rev |-> 0, rows |-> {}, keep |-> 0, n |-> n, half |-> half,
                      got |-> s])
    PROVE  AppliedInv'
<1> DEFINE r == [op |-> "snapshot", cmd |-> Idle.cmd, content |-> Idle.content,
                 rev |-> 0, rows |-> {}, keep |-> 0, n |-> n, half |-> half,
                 got |-> s]
<1>1. HoldsTrue(r)
  BY DEF HoldsTrue
<1>2. pend' = [pend EXCEPT ![p] = r] /\ UNCHANGED <<database, snapshot>>
  BY DEF Continue
<1>3. \A t \in snapshot' : Accepts(t) /\ Applied(t.commands, t.events)
  BY <1>2 DEF AppliedInv
<1> HIDE DEF r
<1> QED
  BY <1>1, <1>2, <1>3, AppliedRead

\* Every query of a snapshot, and its publication.
LEMMA AppliedSnapshot ==
    ASSUME StoreInv, AppliedInv, NEW p \in Procs,
           \/ SnapshotBegin(p) \/ SnapshotArchives(p) \/ SnapshotLive(p)
           \/ SnapshotRecords(p) \/ SnapshotPublish(p)
    PROVE  AppliedInv'
<1> DEFINE o == pend[p]
<1>1. CASE SnapshotBegin(p)
  BY <1>1, AppliedContinue DEF SnapshotBegin, Opens, ReadsTrue
<1>2. o.op = "snapshot" => ReadsTrue(o)
  BY DEF AppliedInv, HoldsTrue
<1>3. o.got \in Snapshot
  BY PendingType
<1>4. CASE SnapshotArchives(p)
  BY <1>2, <1>4, AppliedContinue DEF SnapshotArchives, ReadsTrue
<1>5. CASE SnapshotLive(p)
  <2> DEFINE s == WithEvents(o.got, o.n, History)
  <2>1. o.op = "snapshot" /\ o.n \in {2, 5, 8} /\ o.half = archives
    BY <1>2, <1>5 DEF SnapshotLive, ReadsTrue
  <2>2. Continue(p, o.n + 1, {}, s)
    BY <1>5, <2>1 DEF SnapshotLive, History
  <2>3. LastSeq(History) = sequence
    BY NumberedLast DEF AppliedInv, StoreInv, TypeOK
  <2>4. CASE o.n = 2
    <3>1. s = [o.got EXCEPT !.sequence = sequence]
      BY <2>3, <2>4 DEF WithEvents
    <3> HIDE DEF s
    <3> QED
      BY <1>2, <1>3, <2>1, <2>2, <2>4, <3>1, AppliedContinue DEF ReadsTrue, Snapshot
  <2>5. CASE o.n = 5
    <3>1. s = [o.got EXCEPT !.digest = [rev |-> o.got.digest.rev, events |-> History]]
      BY <2>5 DEF WithEvents
    <3> HIDE DEF s
    <3> QED
      BY <1>2, <1>3, <2>1, <2>2, <2>5, <3>1, AppliedContinue DEF ReadsTrue, Snapshot
  <2>6. CASE o.n = 8
    <3>1. s = [o.got EXCEPT !.events = History]
      BY <2>6 DEF WithEvents
    <3> HIDE DEF s
    <3> QED
      BY <1>2, <1>3, <2>1, <2>2, <2>6, <3>1, AppliedContinue DEF ReadsTrue, Snapshot
  <2> QED
    BY <2>1, <2>4, <2>5, <2>6
<1>6. CASE SnapshotRecords(p)
  <2>1. o.op = "snapshot" /\ o.n \in {3, 6}
    BY <1>6 DEF SnapshotRecords
  <2>2. CASE o.n = 3
    <3> DEFINE s == [o.got EXCEPT !.digest = [rev |-> rev, events |-> {}]]
    <3>1. Continue(p, 4, {}, s)
      BY <1>6, <2>2 DEF SnapshotRecords
    <3>2. /\ s.commands = o.got.commands /\ s.sequence = o.got.sequence
          /\ s.digest.rev = rev
      BY <1>3 DEF Snapshot
    <3> HIDE DEF s
    <3> QED
      BY <1>2, <2>1, <2>2, <3>1, <3>2, AppliedContinue DEF ReadsTrue
  <2>3. CASE o.n = 6
    <3> DEFINE s == [o.got EXCEPT !.rev = rev]
    <3>1. Continue(p, 7, {}, s)
      BY <1>6, <2>3 DEF SnapshotRecords
    <3>2. /\ s.commands = o.got.commands /\ s.sequence = o.got.sequence
          /\ s.digest = o.got.digest /\ s.rev = rev
      BY <1>3 DEF Snapshot
    <3> HIDE DEF s
    <3> QED
      BY <1>2, <2>1, <2>3, <3>1, <3>2, AppliedContinue DEF ReadsTrue
  <2> QED
    BY <2>1, <2>2, <2>3
<1>7. CASE SnapshotPublish(p)
  <2>1. Stop(p) /\ UNCHANGED database /\ snapshot' = {o.got} /\ o.op = "snapshot" /\ o.n = 9
    BY <1>7 DEF SnapshotPublish, AtQuery
  <2>2. /\ o.got.commands = commands /\ o.got.sequence = sequence
        /\ o.got.digest.rev = o.got.rev /\ o.got.digest.events = o.got.events
        /\ o.got.events = History
    BY <1>2, <2>1 DEF ReadsTrue
  <2>3. o.got.digest = [rev |-> o.got.rev, events |-> o.got.events]
    <3>1. o.got.digest \in [rev : Nat, events : SUBSET Event]
      BY <1>3 DEF Snapshot
    <3>2. o.got.digest = [rev |-> o.got.digest.rev, events |-> o.got.digest.events]
      BY <3>1
    <3> QED
      BY <2>2, <3>2
  <2>4. Accepts(o.got) /\ Applied(o.got.commands, o.got.events)
    BY <2>2, <2>3 DEF AppliedInv, Accepts
  <2> QED
    BY <2>1, <2>4, AppliedStop
<1> QED
  BY <1>1, <1>4, <1>5, <1>6, <1>7

\* No process is in the middle of a snapshot that is kept apart.
LEMMA NoSnapshot ==
    ASSUME "snapshot" \in Alone, Apart("snapshot"), NEW q \in Procs
    PROVE  pend[q].op # "snapshot"
BY DEF Apart, Doing

\* The events that a command appends are its own, and all of them.
LEMMA AppendedOf ==
    ASSUME NEW c \in Commands, NEW s \in Nat, NEW n \in Nat, NEW r \in Nat \ {0},
           NEW b \in Commands
    PROVE  EventsOf(b, Appended(c, s, n, r)) = IF b = c THEN s + 1 .. s + n ELSE {}
<1>1. CASE b # c
  BY <1>1 DEF EventsOf, Appended
<1>2. CASE b = c
  <2>1. \A i \in s + 1 .. s + n :
          [seq |-> i, cmd |-> c, rev |-> r] \in Appended(c, s, n, r)
    BY DEF Appended
  <2>2. \A e \in Appended(c, s, n, r) : e.seq \in s + 1 .. s + n /\ e.cmd = c
    BY DEF Appended
  <2>3. ASSUME NEW i \in s + 1 .. s + n
        PROVE  i \in EventsOf(b, Appended(c, s, n, r))
    <3> DEFINE e == [seq |-> i, cmd |-> c, rev |-> r]
    <3>1. e \in Appended(c, s, n, r) /\ e.cmd = b /\ e.seq = i
      BY <1>2, <2>1
    <3> HIDE DEF e
    <3> QED
      BY <3>1 DEF EventsOf
  <2>4. \A i \in EventsOf(b, Appended(c, s, n, r)) : i \in s + 1 .. s + n
    BY <2>2 DEF EventsOf
  <2> QED
    BY <1>2, <2>3, <2>4
<1> QED
  BY <1>1, <1>2

\* A commit appends the events of a command that had none.
LEMMA CommitApplies ==
    ASSUME StoreInv, Applied(commands, History), NEW p \in Procs, CommandCommit(p)
    PROVE  Applied(commands', History')
<1> DEFINE c == pend[p].cmd
           d == pend[p].content
<1>1. PICK n \in 1..MaxEvents :
        /\ sequence' = sequence + n
        /\ live' = live \cup Appended(c, sequence, n, rev + 1)
        /\ commands' = [commands EXCEPT ![c] =
              [content |-> d, first |-> sequence + 1, last |-> sequence + n]]
  BY DEF CommandCommit
<1> DEFINE App == Appended(c, sequence, n, rev + 1)
<1>2. commands[c] = NotCommitted /\ archives' = archives
  BY DEF CommandCommit
<1>3. /\ c \in Commands /\ d \in Contents
      /\ sequence \in Nat /\ n \in Nat /\ n > 0 /\ rev + 1 \in Nat \ {0}
  BY <1>1, PendingType, BoundsAssumption DEF StoreInv, TypeOK
<1>4. ASSUME NEW b \in Commands
      PROVE  EventsOf(b, App) = IF b = c THEN sequence + 1 .. sequence + n ELSE {}
  <2> HIDE DEF c, d
  <2> QED
    BY <1>3, AppendedOf
<1>5. History' = History \cup App
  BY <1>1, <1>2 DEF History, Listed
<1> HIDE DEF App
<1>6. Applied(commands', History')
  <2> SUFFICES ASSUME NEW b \in Commands
               PROVE  EventsOf(b, History') =
                        IF commands'[b] = NotCommitted THEN {}
                        ELSE commands'[b].first .. commands'[b].last
    BY DEF Applied
  <2>1. EventsOf(b, History') = EventsOf(b, History) \cup EventsOf(b, App)
    BY <1>5 DEF EventsOf
  <2>2. EventsOf(b, History) =
          IF commands[b] = NotCommitted THEN {} ELSE commands[b].first .. commands[b].last
    BY DEF Applied
  <2>3. commands \in [Commands -> Result]
    BY DEF StoreInv, TypeOK
  <2>4. CASE b # c
    <3>1. commands'[b] = commands[b]
      BY <1>1, <2>3, <2>4
    <3> QED
      BY <1>4, <2>1, <2>2, <2>4, <3>1
  <2>5. CASE b = c
    <3>1. commands'[b] = [content |-> d, first |-> sequence + 1, last |-> sequence + n]
      BY <1>1, <1>3, <2>3, <2>5
    <3>2. d # NoContent
      BY <1>3, NoContentAssumption
    <3>3. commands'[b] # NotCommitted
      BY <3>1, <3>2 DEF NotCommitted
    <3>4. commands'[b].first = sequence + 1 /\ commands'[b].last = sequence + n
      BY <3>1
    <3>5. EventsOf(b, History) = {}
      BY <1>2, <2>2, <2>5
    <3> QED
      BY <1>4, <2>1, <2>5, <3>3, <3>4, <3>5
  <2> QED
    BY <2>4, <2>5
<1> QED
  BY <1>6

\* Results and history agree after a commit that no snapshot overlaps.
LEMMA AppliedCommit ==
    ASSUME "snapshot" \in Alone, StoreInv, AppliedInv, NEW p \in Procs,
           CommandCommit(p)
    PROVE  AppliedInv'
<1> DEFINE c == pend[p].cmd
<1>1. PICK n \in 1..MaxEvents :
        /\ sequence' = sequence + n
        /\ live' = live \cup Appended(c, sequence, n, rev + 1)
  BY DEF CommandCommit
<1> DEFINE App == Appended(c, sequence, n, rev + 1)
<1>2. /\ Stop(p)
      /\ UNCHANGED <<exists, archives, snapshot>>
      /\ Apart("snapshot")
  BY DEF CommandCommit
<1>3. /\ c \in Commands
      /\ sequence \in Nat /\ n \in Nat /\ n > 0 /\ rev + 1 \in Nat \ {0}
  BY <1>1, PendingType, BoundsAssumption DEF StoreInv, TypeOK
<1>4. /\ App \subseteq Event /\ Keyed(App)
      /\ Seqs(App) = sequence + 1 .. sequence + n
  BY <1>3, AppendedType
<1>5. History' = History \cup App
  BY <1>1, <1>2 DEF History, Listed
<1>6. Seqs(History) = 1..sequence /\ \A e, f \in History : e.seq = f.seq => e = f
  BY DEF AppliedInv, Numbered
<1> HIDE DEF App
<1>7. Numbered(History, sequence)'
  <2>1. Seqs(History') = 1..sequence'
    <3>1. Seqs(History \cup App) = Seqs(History) \cup Seqs(App)
      BY DEF Seqs
    <3>2. 1..sequence + n = (1..sequence) \cup (sequence + 1 .. sequence + n)
      BY <1>3
    <3> QED
      BY <1>1, <1>4, <1>5, <1>6, <3>1, <3>2
  <2>2. \A e \in History, f \in App : e.seq # f.seq
    <3>1. \A e \in History : e.seq \in 1..sequence
      BY <1>6 DEF Seqs
    <3>2. \A f \in App : f.seq \in sequence + 1 .. sequence + n
      BY <1>4 DEF Seqs
    <3> QED
      BY <1>3, <3>1, <3>2
  <2>3. \A e, f \in History' : e.seq = f.seq => e = f
    BY <1>4, <1>5, <1>6, <2>2 DEF Keyed
  <2> QED
    BY <2>1, <2>3 DEF Numbered
<1>8. Applied(commands, History)'
  BY CommitApplies DEF AppliedInv
<1>9. ASSUME NEW q \in Procs
      PROVE  HoldsTrue(pend[q])'
  <2>1. CASE q = p
    <3>1. pend'[q].op = "idle"
      BY <1>2, <2>1, StopPend
    <3> QED
      BY <3>1 DEF HoldsTrue
  <2>2. CASE q # p
    <3>1. pend'[q] = pend[q] /\ pend[q].op # "snapshot"
      BY <1>2, <2>2, StopPend, NoSnapshot
    <3>2. HoldsTrue(pend[q])
      BY DEF AppliedInv
    <3> QED
      BY <1>5, <3>1, <3>2 DEF HoldsTrue
  <2> QED
    BY <2>1, <2>2
<1>10. (\A s \in snapshot : Accepts(s) /\ Applied(s.commands, s.events))'
  BY <1>2 DEF AppliedInv, Accepts, Applied
<1> QED
  BY <1>7, <1>8, <1>9, <1>10 DEF AppliedInv

\* A compaction moves events, and adds and takes none.
LEMMA AppliedCompact ==
    ASSUME "snapshot" \in Alone, StoreInv, AppliedInv, NEW p \in Procs, CompactCommit(p)
    PROVE  AppliedInv'
<1> DEFINE E == pend[p].rows
<1>1. /\ archives' = archives \cup {E} /\ live' = live \ Between(E)
      /\ Apart("snapshot") /\ Stop(p) /\ pend[p].op = "compact"
      /\ UNCHANGED <<commands, sequence, snapshot>>
  BY DEF CompactCommit
<1>2. E \subseteq History
  BY <1>1 DEF AppliedInv, HoldsTrue
<1> HIDE DEF E
<1>3. History' \subseteq History
  BY <1>1, <1>2 DEF History, Listed
<1>4. History' = History
  BY <1>3, CompactKeeps DEF History
<1>5. Numbered(History, sequence)' /\ Applied(commands, History)'
  BY <1>1, <1>4 DEF AppliedInv
<1>6. ASSUME NEW q \in Procs
      PROVE  HoldsTrue(pend[q])'
  <2>1. CASE q = p
    <3>1. pend'[q].op = "idle"
      BY <1>1, <2>1, StopPend
    <3> QED
      BY <3>1 DEF HoldsTrue
  <2>2. CASE q # p
    <3>1. pend'[q] = pend[q] /\ pend[q].op # "snapshot"
      BY <1>1, <2>2, StopPend, NoSnapshot
    <3>2. HoldsTrue(pend[q])
      BY DEF AppliedInv
    <3> QED
      BY <1>4, <3>1, <3>2 DEF HoldsTrue
  <2> QED
    BY <2>1, <2>2
<1>7. (\A s \in snapshot : Accepts(s) /\ Applied(s.commands, s.events))'
  BY <1>1 DEF AppliedInv, Accepts, Applied
<1> QED
  BY <1>5, <1>6, <1>7 DEF AppliedInv

\* A store without commands has no events.
LEMMA AppliedEmpty ==
    ASSUME StoreInv, AppliedInv, EmptyStore, snapshot' = snapshot,
           \/ pend' = [p \in Procs |-> Idle]
           \/ pend' = pend /\ ~exists
    PROVE  AppliedInv'
<1>1. History' = {} /\ sequence' = 0 /\ commands' = NoCommands
  BY DEF EmptyStore, History, Listed
<1>2. Numbered(History, sequence)'
  <2>1. Seqs({}) = {} /\ 1..0 = {}
    BY DEF Seqs
  <2> QED
    BY <1>1, <2>1 DEF Numbered
<1>3. Applied(commands, History)'
  BY <1>1 DEF Applied, EventsOf, NoCommands
<1>4. ASSUME NEW q \in Procs
      PROVE  HoldsTrue(pend[q])'
  <2>1. CASE pend' = [p \in Procs |-> Idle]
    BY <2>1, IdleType DEF HoldsTrue
  <2>2. CASE pend' = pend /\ ~exists
    <3>1. pend[q].op \notin {"compact", "snapshot"}
      BY <2>2 DEF StoreInv, PendingSound, AppliedInv, HoldsTrue, ReadsTrue
    <3> QED
      BY <2>2, <3>1 DEF AppliedInv, HoldsTrue
  <2> QED
    BY <2>1, <2>2
<1>5. (\A s \in snapshot : Accepts(s) /\ Applied(s.commands, s.events))'
  BY DEF AppliedInv, Accepts, Applied
<1> QED
  BY <1>2, <1>3, <1>4, <1>5 DEF AppliedInv

\* What is restored is an accepted snapshot, results and events.
LEMMA AppliedRestore ==
    ASSUME StoreInv, AppliedInv, NEW p \in Procs, RestoreCheck(p) \/ RestoreRename(p)
    PROVE  AppliedInv'
<1>1. CASE RestoreCheck(p)
  <2>1. PICK s \in snapshot :
          pend' = [pend EXCEPT ![p] =
            [op |-> "restore", cmd |-> Idle.cmd, content |-> Idle.content, rev |-> 0,
             rows |-> {}, keep |-> 0, n |-> 0, half |-> {}, got |-> s]]
    BY <1>1 DEF RestoreCheck
  <2> DEFINE r == [op |-> "restore", cmd |-> Idle.cmd, content |-> Idle.content,
                   rev |-> 0, rows |-> {}, keep |-> 0, n |-> 0, half |-> {}, got |-> s]
  <2>2. HoldsTrue(r)
    BY DEF HoldsTrue, AppliedInv
  <2>3. pend' = [pend EXCEPT ![p] = r]
    BY <2>1
  <2>4. UNCHANGED <<database, snapshot>>
    BY <1>1 DEF RestoreCheck
  <2>5. \A t \in snapshot' : Accepts(t) /\ Applied(t.commands, t.events)
    BY <2>4 DEF AppliedInv
  <2> HIDE DEF r
  <2> QED
    BY <2>2, <2>3, <2>4, <2>5, AppliedRead
<1>2. CASE RestoreRename(p)
  <2> DEFINE s == pend[p].got
  <2>1. /\ commands' = s.commands /\ sequence' = s.sequence /\ live' = s.events
        /\ archives' = {} /\ snapshot' = snapshot /\ Leave(p)
        /\ pend[p].op = "restore"
    BY <1>2 DEF RestoreRename
  <2>2. History' = s.events
    BY <2>1 DEF History, Listed
  <2>3. Numbered(s.events, s.sequence) /\ Applied(s.commands, s.events)
    BY <2>1 DEF StoreInv, PendingSound, AppliedInv, HoldsTrue
  <2>4. Numbered(History, sequence)' /\ Applied(commands, History)'
    BY <2>1, <2>2, <2>3
  <2>5. ASSUME NEW q \in Procs
        PROVE  HoldsTrue(pend[q])'
    <3>1. pend'[q] = IF q # p /\ pend[q].op = "restore" THEN pend[q] ELSE Idle
      BY <2>1 DEF Leave
    <3>2. CASE q # p /\ pend[q].op = "restore"
      BY <3>1, <3>2 DEF AppliedInv, HoldsTrue
    <3>3. CASE ~(q # p /\ pend[q].op = "restore")
      BY <3>1, <3>3, IdleType DEF HoldsTrue
    <3> QED
      BY <3>2, <3>3
  <2>6. (\A t \in snapshot : Accepts(t) /\ Applied(t.commands, t.events))'
    BY <2>1 DEF AppliedInv, Accepts, Applied
  <2> QED
    BY <2>4, <2>5, <2>6 DEF AppliedInv
<1> QED
  BY <1>1, <1>2

\* Every step keeps results and events together.
LEMMA NextApplied ==
    ASSUME "snapshot" \in Alone, StoreInv, AppliedInv, [Next]_vars
    PROVE  AppliedInv'
<1>1. CASE UNCHANGED vars
  BY <1>1 DEF vars, AppliedInv, History, Listed, HoldsTrue, ReadsTrue, Accepts, Applied,
              Numbered
<1>2. CASE Lose
  BY <1>2, AppliedEmpty DEF Lose
<1>3. ASSUME NEW p \in Procs, ProcNext(p)
      PROVE  AppliedInv'
  <2>1. \A s \in snapshot : Accepts(s) /\ Applied(s.commands, s.events)
    BY DEF AppliedInv
  <2>2. CASE \E c \in Commands, d \in Contents : CommandRead(p, c, d)
    <3>1. PICK c \in Commands, d \in Contents : CommandRead(p, c, d)
      BY <2>2
    <3>2. {} \in SUBSET live
      OBVIOUS
    <3> QED
      BY <3>1, <3>2, AppliedBegin DEF CommandRead
  <2>3. CASE \/ CommandRollback(p) \/ CompactFailed(p) \/ SnapshotFailed(p) \/ Crash(p)
    BY <2>1, <2>3, AppliedStop DEF CommandRollback, CompactFailed, SnapshotFailed, Crash
  <2>4. CASE (\E k \in Keeps : CompactCount(p, k)) \/ CompactRows(p)
    <3>1. Oldest(live, pend[p].n) \in SUBSET live /\ {} \in SUBSET live
      BY DEF Oldest
    <3>2. PICK E \in SUBSET live :
            /\ \E c, d, n, k : Begin(p, "compact", c, d, 0, n, E, k)
            /\ UNCHANGED <<database, snapshot>>
      BY <2>4, <3>1 DEF CompactCount, CompactRows
    <3> QED
      BY <3>2, AppliedBegin
  <2>5. CASE CommandCommit(p)
    BY <2>5, AppliedCommit
  <2>6. CASE CompactCommit(p)
    BY <2>6, AppliedCompact
  <2>7. CASE \/ SnapshotBegin(p) \/ SnapshotArchives(p) \/ SnapshotLive(p)
             \/ SnapshotRecords(p) \/ SnapshotPublish(p)
    BY <2>7, AppliedSnapshot
  <2>8. CASE Create(p)
    BY <2>8, AppliedEmpty DEF Create
  <2>9. CASE RestoreCheck(p) \/ RestoreRename(p)
    BY <2>9, AppliedRestore
  <2> QED
    BY <1>3, <2>2, <2>3, <2>4, <2>5, <2>6, <2>7, <2>8, <2>9 DEF ProcNext
<1> QED
  BY <1>1, <1>2, <1>3 DEF Next

\* The empty store and idle processes satisfy the invariant.
LEMMA InitApplied == Init => AppliedInv
<1> SUFFICES ASSUME Init PROVE AppliedInv
  OBVIOUS
<1>1. History = {} /\ sequence = 0 /\ commands = NoCommands
  BY DEF Init, History, Listed
<1>2. Seqs({}) = {} /\ 1..0 = {}
  BY DEF Seqs
<1>3. Numbered(History, sequence)
  BY <1>1, <1>2 DEF Numbered
<1>4. Applied(commands, History)
  BY <1>1 DEF Applied, EventsOf, NoCommands
<1>5. \A p \in Procs : HoldsTrue(pend[p])
  BY IdleType DEF Init, HoldsTrue
<1> QED
  BY <1>3, <1>4, <1>5 DEF Init, AppliedInv

\* Results and history agree in the store, in every snapshot and in every
\* restoration.
LEMMA AppliedSound ==
    ASSUME "snapshot" \in Alone
    PROVE  Spec => []AppliedInv
<1>1. StoreInv /\ AppliedInv /\ [Next]_vars => AppliedInv'
  BY NextApplied
<1> QED
  BY <1>1, InitApplied, StoreSound, PTL DEF Spec

\* If no commit overlaps a snapshot, the history always holds the events of each
\* committed command exactly once, where its result says, through every retry,
\* race, overlapping compaction, crash, loss and restoration.
THEOREM CommandsAppliedOnce ==
    ASSUME "snapshot" \in Alone
    PROVE  Spec => []AppliedOnce
<1>1. AppliedInv => AppliedOnce
  BY DEF AppliedInv, AppliedOnce, History
<1> QED
  BY <1>1, AppliedSound, PTL

-----------------------------------------------------------------------------
(* The retention policy is kept while compactions are kept apart.          *)

\* Of events below a bound, one is the newest.
LEMMA SomeNewest ==
    ASSUME NEW E \in SUBSET Event, NEW n \in Nat, \A e \in E : e.seq <= n, E # {}
    PROVE  \E e \in E : \A f \in E : f.seq <= e.seq
<1> DEFINE T == {k \in Nat : \E e \in E : e.seq = n - k}
<1>1. \A e \in E : e.seq \in Nat /\ n - e.seq \in Nat /\ e.seq = n - (n - e.seq)
  BY DEF Event
<1>2. \A e \in E : n - e.seq \in T
  BY <1>1
<1>3. T # {} /\ T \subseteq Nat
  BY <1>2
<1>4. PICK x \in T : \A y \in T : <<y, x>> \notin OpToRel(<, Nat)
  BY <1>3, WFMin, NatLessThanWellFounded, Zenon
<1>5. \A y \in T : ~(y < x)
  BY <1>4, Zenon DEF OpToRel
<1>6. x \in Nat /\ \E e \in E : e.seq = n - x
  BY <1>4, Zenon
<1>7. \A y \in T : x <= y
  BY <1>5, <1>6
<1>8. PICK e \in E : e.seq = n - x
  BY <1>6
<1>9. \A f \in E : x <= n - f.seq
  BY <1>2, <1>7
<1>10. \A f \in E : f.seq <= e.seq
  BY <1>1, <1>6, <1>8, <1>9
<1> QED
  BY <1>10

\* The n oldest events are at most n.
LEMMA OldestBound ==
    ASSUME NEW E \in SUBSET Event, IsFiniteSet(E), NEW m \in Nat,
           \A e \in E : e.seq <= m, NEW n \in Nat
    PROVE  Cardinality(Oldest(E, n)) <= n
<1> DEFINE O == Oldest(E, n)
<1>1. O \in SUBSET E
  BY DEF Oldest
<1>2. CASE O = {}
  BY <1>2, FS_EmptySet
<1>3. CASE O # {}
  <2>1. PICK e \in O : \A f \in O : f.seq <= e.seq
    BY <1>1, <1>3, SomeNewest
  <2> DEFINE D == {f \in E : f.seq <= e.seq}
  <2>2. Cardinality(D) <= n
    BY <2>1 DEF Oldest
  <2>3. IsFiniteSet(D)
    BY FS_Subset
  <2>4. O \in SUBSET D
    BY <1>1, <2>1
  <2>5. IsFiniteSet(O) /\ Cardinality(O) <= Cardinality(D)
    BY <2>3, <2>4, FS_Subset
  <2>6. Cardinality(O) \in Nat /\ Cardinality(D) \in Nat
    BY <2>3, <2>5, FS_CardinalityType
  <2> QED
    BY <2>2, <2>5, <2>6
<1> QED
  BY <1>2, <1>3

\* Keyed events are no more than their last sequence.
LEMMA KeyedBound ==
    ASSUME NEW E \in SUBSET Event, NEW n \in Nat, Keyed(E), \A e \in E : e.seq <= n
    PROVE  Cardinality(E) <= n
<1> DEFINE f == [e \in E |-> e.seq]
<1>1. f \in [E -> 1..n]
  BY DEF Event
<1>2. \A x, y \in E : f[x] = f[y] => x = y
  BY DEF Keyed
<1>3. f \in Injection(E, 1..n)
  <2> HIDE DEF f
  <2> QED BY <1>1, <1>2, Fun_IsInj
<1>4. IsFiniteSet(1..n) /\ Cardinality(1..n) = n
  BY FS_Interval
<1> QED
  BY <1>3, <1>4, FS_Injection

\* Numbered events are at least as many as their last sequence.
LEMMA NumberedBound ==
    ASSUME NEW E \in SUBSET Event, NEW n \in Nat, Numbered(E, n)
    PROVE  n <= Cardinality(E)
<1> DEFINE f == [e \in E |-> e.seq]
<1>1. \A e \in E : e.seq \in 1..n
  BY DEF Numbered, Seqs
<1>2. f \in [E -> 1..n]
  BY <1>1
<1>3. \A i \in 1..n : \E e \in E : f[e] = i
  BY DEF Numbered, Seqs
<1>4. f \in Surjection(E, 1..n)
  <2> HIDE DEF f
  <2> QED BY <1>2, <1>3, Fun_IsSurj
<1>5. \A e \in E : e.seq <= n
  BY <1>1
<1>6. IsFiniteSet(E)
  BY <1>5, KeyedFinite DEF Numbered, Keyed
<1>7. Cardinality(1..n) = n
  BY FS_Interval
<1> QED
  BY <1>4, <1>6, <1>7, FS_Surjection

\* A list that has the newest event ends there.
LEMMA ListedLast ==
    ASSUME NEW E \in SUBSET Event, NEW n \in Nat, \A e \in E : e.seq <= n,
           NEW d \in E, d.seq = n
    PROVE  LastSeq(E) = n
<1>1. Seqs(E) \subseteq Nat /\ n \in Seqs(E) /\ \A m \in Seqs(E) : m <= n
  BY DEF Seqs, Event
<1>2. \A k \in Seqs(E) : (\A m \in Seqs(E) : m <= k) => k = n
  BY <1>1
<1> QED
  BY <1>1, <1>2 DEF LastSeq

\* A process goes from one query to the next, or gives up, and the database stays.
LEMMA KeptRead ==
    ASSUME StoreInv, KeptInv, UNCHANGED database, NEW p \in Procs, NEW r,
           pend' = [pend EXCEPT ![p] = r], KeptBy(r),
           \A s \in snapshot' : s.retention <= s.sequence
    PROVE  KeptInv'
<1>1. NewestLive' /\ RecentKept'
  BY DEF KeptInv, NewestLive, RecentKept, database
<1>2. ASSUME NEW q \in Procs
      PROVE  KeptBy(pend[q])'
  <2>1. KeptBy(pend'[q])
    BY DEF KeptInv, StoreInv, TypeOK
  <2> QED
    BY <2>1 DEF KeptBy, LeavesEnough, ReadsKept, database
<1> QED
  BY <1>1, <1>2 DEF KeptInv

\* A process that gives up leaves the store as it is.
LEMMA KeptStop ==
    ASSUME StoreInv, KeptInv, NEW p \in Procs, Stop(p), UNCHANGED database,
           \A s \in snapshot' : s.retention <= s.sequence
    PROVE  KeptInv'
<1>1. KeptBy(Idle)
  BY IdleType DEF KeptBy
<1> QED
  BY <1>1, KeptRead DEF Stop

\* The number of events to archive, and then the oldest of them, although
\* commands may have committed in between.
LEMMA KeptCompactRead ==
    ASSUME StoreInv, KeptInv, NEW p \in Procs,
           (\E k \in Keeps : CompactCount(p, k)) \/ CompactRows(p)
    PROVE  KeptInv'
<1> DEFINE Counted(c, d, k, n, E) ==
             /\ Begin(p, "compact", c, d, 0, n, E, k)
             /\ k > 0
             /\ Cardinality(live) >= n + k
             /\ E # {} => Cardinality(E) <= n
             /\ UNCHANGED <<database, snapshot>>
<1>1. PICK c, d, k, n, E : Counted(c, d, k, n, E)
  <2>1. ASSUME NEW k \in Keeps, CompactCount(p, k)
        PROVE  \E c, d, h, m, E : Counted(c, d, h, m, E)
    <3> DEFINE n == ArchiveCount(Cardinality(live), k)
    <3>1. k \in Nat \ {0} /\ Cardinality(live) \in Nat
      BY KeepsAssumption, LiveFinite
    <3>2. k > 0 /\ Cardinality(live) >= n + k
      BY <3>1 DEF ArchiveCount
    <3>3. /\ Begin(p, "compact", Idle.cmd, Idle.content, 0, n, {}, k)
          /\ UNCHANGED <<database, snapshot>>
      BY <2>1 DEF CompactCount
    <3> HIDE DEF n
    <3>4. Counted(Idle.cmd, Idle.content, k, n, {})
      BY <3>2, <3>3
    <3> QED
      BY <3>4
  <2>2. CASE CompactRows(p)
    <3> DEFINE o == pend[p]
    <3>1. LeavesEnough(o)
      BY <2>2 DEF CompactRows, KeptInv, KeptBy
    <3>2. o.n \in Nat
      BY PendingType DEF Pending
    <3>3. live \in SUBSET Event /\ IsFiniteSet(live) /\ sequence \in Nat
          /\ \A e \in live : e.seq <= sequence
      BY LiveFinite DEF StoreInv, TypeOK, LiveKeyed
    <3>4. Cardinality(Oldest(live, o.n)) <= o.n
      BY <3>2, <3>3, OldestBound
    <3>5. /\ Begin(p, "compact", o.cmd, o.content, 0, o.n, Oldest(live, o.n), o.keep)
          /\ UNCHANGED <<database, snapshot>>
      BY <2>2 DEF CompactRows
    <3> HIDE DEF o
    <3>6. Counted(o.cmd, o.content, o.keep, o.n, Oldest(live, o.n))
      BY <3>1, <3>4, <3>5 DEF LeavesEnough
    <3> QED
      BY <3>6
  <2> QED
    BY <2>1, <2>2
<1> DEFINE r == [op |-> "compact", cmd |-> c, content |-> d, rev |-> 0, rows |-> E,
                 keep |-> k, n |-> n, half |-> {}, got |-> EmptySnapshot]
<1>2. pend' = [pend EXCEPT ![p] = r]
  BY <1>1 DEF Begin
<1>3. KeptBy(r)
  BY <1>1 DEF KeptBy, LeavesEnough
<1>4. UNCHANGED database /\ \A s \in snapshot' : s.retention <= s.sequence
  BY <1>1 DEF KeptInv
<1> HIDE DEF r
<1> QED
  BY <1>2, <1>3, <1>4, KeptRead

\* The history is at least as long as the policy asks for.
LEMMA RetentionBound ==
    ASSUME StoreInv, RecentKept
    PROVE  retention \in Nat /\ retention <= sequence
<1>1. Cardinality(live) <= sequence
  BY KeyedBound DEF StoreInv, TypeOK, LiveKeyed
<1>2. Cardinality(live) \in Nat /\ sequence \in Nat /\ retention \in Nat
  BY LiveFinite, KeepsAssumption DEF StoreInv, TypeOK
<1> QED
  BY <1>1, <1>2 DEF RecentKept

\* Of a whole history every event is part of, and the last one is live, what is
\* listed from some of its archives ends at the project sequence.
LEMMA ReadsEnd ==
    ASSUME StoreInv, HistoryContiguous, NewestLive, NEW half \in SUBSET archives
    PROVE  LastSeq(Listed(half, live)) = sequence
<1> DEFINE E == Listed(half, live)
<1>1. E \in SUBSET Event /\ sequence \in Nat
  BY DEF StoreInv, TypeOK, Listed
<1>2. E \subseteq Listed(archives, live)
  BY DEF Listed
<1>3. \A e \in E : e.seq \in 1..sequence
  BY <1>2 DEF HistoryContiguous, Numbered, Seqs
<1>4. \A e \in E : e.seq <= sequence
  BY <1>3
<1>5. CASE sequence = 0
  <2>1. \A e \in E : FALSE
    BY <1>3, <1>5
  <2>2. E = {}
    BY <2>1
  <2>3. Seqs({}) = {}
    BY DEF Seqs
  <2>4. LastSeq({}) = 0
    BY <2>3 DEF LastSeq
  <2> QED
    BY <1>5, <2>2, <2>4
<1>6. CASE sequence # 0
  <2>1. PICK e \in live : e.seq = sequence
    BY <1>1, <1>6 DEF NewestLive
  <2>2. e \in E
    BY DEF Listed
  <2> HIDE DEF E
  <2>3. LastSeq(E) = sequence
    BY <1>1, <1>4, <2>1, <2>2, ListedLast
  <2> QED
    BY <2>3 DEF E
<1> QED
  BY <1>5, <1>6

\* What listEvents returns is all that it adds to the payload.
LEMMA WithEventsKeeps ==
    ASSUME NEW s \in Snapshot, NEW n \in {2, 5, 8}, NEW E \in SUBSET Event
    PROVE  LET w == WithEvents(s, n, E) IN
           /\ w.commands = s.commands
           /\ w.retention = s.retention
           /\ w.rev = s.rev
           /\ w.digest.rev = s.digest.rev
           /\ w.sequence = IF n = 2 THEN LastSeq(E) ELSE s.sequence
           /\ w.digest.events = IF n = 5 THEN E ELSE s.digest.events
<1>1. CASE n = 2
  <2>1. WithEvents(s, n, E) = [s EXCEPT !.sequence = LastSeq(E)]
    BY <1>1 DEF WithEvents
  <2> QED
    BY <1>1, <2>1 DEF Snapshot
<1>2. CASE n = 5
  <2>1. WithEvents(s, n, E) =
          [s EXCEPT !.digest = [rev |-> s.digest.rev, events |-> E]]
    BY <1>2 DEF WithEvents
  <2> QED
    BY <1>2, <2>1 DEF Snapshot
<1>3. CASE n = 8
  <2>1. WithEvents(s, n, E) = [s EXCEPT !.events = E]
    BY <1>3 DEF WithEvents
  <2> QED
    BY <1>3, <2>1 DEF Snapshot
<1> QED
  BY <1>1, <1>2, <1>3

\* A query of a snapshot.
LEMMA KeptContinue ==
    ASSUME StoreInv, KeptInv, NEW p \in Procs, NEW n, NEW half, NEW s,
           Continue(p, n, half, s), exists, half \subseteq archives,
           s.retention <= IF n <= 2 THEN sequence ELSE s.sequence
    PROVE  KeptInv'
<1> DEFINE r == [op |-> "snapshot", cmd |-> Idle.cmd, content |-> Idle.content,
                 rev |-> 0, rows |-> {}, keep |-> 0, n |-> n, half |-> half,
                 got |-> s]
<1>1. pend' = [pend EXCEPT ![p] = r] /\ UNCHANGED <<database, snapshot>>
  BY DEF Continue
<1>2. KeptBy(r)
  BY DEF KeptBy, ReadsKept
<1>3. UNCHANGED database /\ \A t \in snapshot' : t.retention <= t.sequence
  BY <1>1 DEF KeptInv
<1> HIDE DEF r
<1> QED
  BY <1>1, <1>2, <1>3, KeptRead

\* Every query of a snapshot, and its publication.
LEMMA KeptSnapshot ==
    ASSUME StoreInv, HistoryContiguous, KeptInv, NEW p \in Procs,
           \/ SnapshotBegin(p) \/ SnapshotArchives(p) \/ SnapshotLive(p)
           \/ SnapshotRecords(p) \/ SnapshotPublish(p)
    PROVE  KeptInv'
<1> DEFINE o == pend[p]
<1>1. o.n \in Nat /\ o.half \in SUBSET (SUBSET Event) /\ o.got \in Snapshot
  BY PendingType DEF Pending
<1>2. o.op = "snapshot" => ReadsKept(o)
  BY DEF KeptInv, KeptBy
<1>3. CASE SnapshotBegin(p)
  <2> DEFINE s == [commands |-> commands, retention |-> retention, sequence |-> 0,
                   digest |-> [rev |-> 0, events |-> {}], rev |-> 0, events |-> {}]
  <2>1. Continue(p, 1, {}, s) /\ exists
    BY <1>3 DEF SnapshotBegin, Opens
  <2>2. s.retention <= sequence
    BY RetentionBound DEF KeptInv
  <2> HIDE DEF s
  <2> QED
    BY <2>1, <2>2, KeptContinue
<1>4. CASE SnapshotArchives(p)
  <2>1. o.n \in {1, 4, 7} /\ Continue(p, o.n + 1, archives, o.got) /\ ReadsKept(o)
    BY <1>2, <1>4 DEF SnapshotArchives
  <2>2. o.got.retention <= IF o.n + 1 <= 2 THEN sequence ELSE o.got.sequence
    BY <2>1 DEF ReadsKept
  <2>3. exists
    BY <2>1 DEF ReadsKept
  <2> HIDE DEF o
  <2> QED
    BY <2>1, <2>2, <2>3, KeptContinue
<1>5. CASE SnapshotLive(p)
  <2> DEFINE E == Listed(o.half, live)
             s == WithEvents(o.got, o.n, E)
  <2>1. o.n \in {2, 5, 8} /\ Continue(p, o.n + 1, {}, s) /\ ReadsKept(o)
    BY <1>2, <1>5 DEF SnapshotLive
  <2>2. E \in SUBSET Event
    BY <1>1 DEF StoreInv, TypeOK, Listed
  <2>3. LastSeq(E) = sequence
    BY <2>1, ReadsEnd DEF ReadsKept, KeptInv
  <2>4. /\ s.retention = o.got.retention
        /\ s.sequence = IF o.n = 2 THEN LastSeq(E) ELSE o.got.sequence
    BY <1>1, <2>1, <2>2, WithEventsKeeps
  <2>5. s.retention <= IF o.n + 1 <= 2 THEN sequence ELSE s.sequence
    BY <2>1, <2>3, <2>4 DEF ReadsKept
  <2>6. exists
    BY <2>1 DEF ReadsKept
  <2> HIDE DEF o, s
  <2> QED
    BY <2>1, <2>5, <2>6, KeptContinue
<1>6. CASE SnapshotRecords(p)
  <2> DEFINE s == IF o.n = 3
                  THEN [o.got EXCEPT !.digest = [rev |-> rev, events |-> {}]]
                  ELSE [o.got EXCEPT !.rev = rev]
  <2>1. o.n \in {3, 6} /\ Continue(p, o.n + 1, {}, s) /\ ReadsKept(o)
    BY <1>2, <1>6 DEF SnapshotRecords
  <2>2. s.retention = o.got.retention /\ s.sequence = o.got.sequence
    BY <1>1 DEF Snapshot
  <2>3. s.retention <= IF o.n + 1 <= 2 THEN sequence ELSE s.sequence
    BY <2>1, <2>2 DEF ReadsKept
  <2>4. exists
    BY <2>1 DEF ReadsKept
  <2> HIDE DEF o, s
  <2> QED
    BY <2>1, <2>3, <2>4, KeptContinue
<1>7. CASE SnapshotPublish(p)
  <2>1. UNCHANGED database /\ Stop(p) /\ snapshot' = {o.got} /\ ReadsKept(o) /\ o.n = 9
    BY <1>2, <1>7 DEF SnapshotPublish, AtQuery
  <2>2. o.got.retention <= o.got.sequence
    BY <2>1 DEF ReadsKept
  <2>3. \A s \in snapshot' : s.retention <= s.sequence
    BY <2>1, <2>2
  <2> QED
    BY <2>1, <2>3, KeptStop
<1> QED
  BY <1>3, <1>4, <1>5, <1>6, <1>7

\* What a process has counted and read are numbers.
LEMMA PendingNumbers ==
    ASSUME StoreInv, NEW p \in Procs
    PROVE  /\ pend[p].n \in Nat /\ pend[p].keep \in Nat
           /\ pend[p].got.retention \in Nat /\ pend[p].got.sequence \in Nat
           /\ pend[p].got.rev \in Nat /\ pend[p].got.digest.rev \in Nat
           /\ pend[p].got.digest.events \in SUBSET Event
<1>1. pend[p].n \in Nat
  BY PendingType DEF Pending
<1>2. Keeps \cup {0} \subseteq Nat
  BY KeepsAssumption
<1>3. pend[p].keep \in Nat
  BY <1>2, PendingType
<1>4. pend[p].got \in Snapshot
  BY PendingType
<1>5. pend[p].got.retention \in Nat /\ pend[p].got.sequence \in Nat
  BY <1>2, <1>4 DEF Snapshot
<1>6. pend[p].got.rev \in Nat /\ pend[p].got.digest \in [rev : Nat, events : SUBSET Event]
  BY <1>4 DEF Snapshot
<1> QED
  BY <1>1, <1>3, <1>5, <1>6

\* A commit adds live events, of which the last one has the project sequence.
LEMMA KeptCommit ==
    ASSUME StoreInv, HistoryContiguous, KeptInv, NEW p \in Procs, CommandCommit(p)
    PROVE  KeptInv'
<1> DEFINE c == pend[p].cmd
<1>1. PICK n \in 1..MaxEvents :
        /\ sequence' = sequence + n
        /\ live' = live \cup Appended(c, sequence, n, rev + 1)
  BY DEF CommandCommit
<1> DEFINE App == Appended(c, sequence, n, rev + 1)
<1>2. Stop(p) /\ UNCHANGED <<exists, archives, retention, snapshot>>
  BY DEF CommandCommit
<1>3. /\ c \in Commands /\ sequence \in Nat /\ n \in Nat /\ n > 0
      /\ rev + 1 \in Nat \ {0}
  BY <1>1, PendingType, BoundsAssumption DEF StoreInv, TypeOK
<1>4. Seqs(App) = sequence + 1 .. sequence + n
  BY <1>3, AppendedType
<1> HIDE DEF App, c
<1>5. NewestLive'
  <2>1. sequence + n \in Seqs(App)
    BY <1>3, <1>4
  <2>2. \E e \in App : e.seq = sequence + n
    BY <2>1 DEF Seqs
  <2> QED
    BY <1>1, <2>2 DEF NewestLive, App
<1>6. Cardinality(live) <= Cardinality(live')
  <2>1. StoreInv'
    BY CommandCommitStep
  <2>2. IsFiniteSet(live')
    BY <2>1, KeyedFinite DEF StoreInv, TypeOK, LiveKeyed
  <2> QED
    BY <1>1, <2>2, FS_Subset
<1>7. Cardinality(live') \in Nat /\ Cardinality(live) \in Nat
  <2>1. StoreInv'
    BY CommandCommitStep
  <2>2. IsFiniteSet(live')
    BY <2>1, KeyedFinite DEF StoreInv, TypeOK, LiveKeyed
  <2> QED
    BY <2>2, LiveFinite, FS_CardinalityType
<1>8. retention \in Nat
  BY KeepsAssumption DEF StoreInv, TypeOK
<1>9. RecentKept'
  BY <1>2, <1>6, <1>7, <1>8 DEF KeptInv, RecentKept
<1>10. ASSUME NEW q \in Procs
       PROVE  KeptBy(pend[q])'
  <2>1. CASE q = p
    <3>1. pend'[q].op = "idle"
      BY <1>2, <2>1, StopPend
    <3> QED
      BY <3>1 DEF KeptBy
  <2>2. CASE q # p
    <3>1. PICK o : o = pend[q]
      OBVIOUS
    <3>2. pend'[q] = o
      BY <1>2, <2>2, <3>1, StopPend
    <3>3. KeptBy(o)
      BY <3>1 DEF KeptInv
    <3>4. o.n \in Nat /\ o.keep \in Nat
      BY <3>1, PendingNumbers
    <3>5. o.got.retention \in Nat
      BY <3>1, PendingNumbers
    <3>6. o.op = "compact" => LeavesEnough(pend[q])'
      <4>1. ASSUME LeavesEnough(o)
            PROVE  Cardinality(live') >= o.n + o.keep
        <5>1. Cardinality(live) >= o.n + o.keep
          BY <4>1 DEF LeavesEnough
        <5> QED
          BY <1>6, <1>7, <3>4, <5>1
      <4> QED
        BY <3>2, <3>3, <4>1 DEF KeptBy, LeavesEnough
    <3>7. o.op = "snapshot" => ReadsKept(pend[q])'
      BY <1>1, <1>2, <1>3, <3>2, <3>3, <3>5 DEF KeptBy, ReadsKept
    <3> QED
      BY <3>2, <3>3, <3>6, <3>7 DEF KeptBy
  <2> QED
    BY <2>1, <2>2
<1> QED
  BY <1>2, <1>5, <1>9, <1>10 DEF KeptInv

\* Of a compaction that is kept apart from others, the rows are still live when it
\* commits, and exactly they are deleted.
LEMMA DeletesRows ==
    ASSUME StoreInv, OneCompaction, NEW p \in Procs, CompactCommit(p)
    PROVE  /\ pend[p].rows \subseteq live
           /\ live' = live \ pend[p].rows
           /\ History' = History
<1> DEFINE E == pend[p].rows
<1>1. archives' = archives \cup {E} /\ live' = live \ Between(E)
  BY DEF CompactCommit
<1>2. E \subseteq live
  BY DEF OneCompaction, Doing, CompactCommit
<1>3. \A e \in live : e.seq \in Nat
  BY DEF StoreInv, TypeOK, Event
<1>4. ClosedIn(E, live)
  BY DEF StoreInv, PendingSound, CompactCommit
<1> HIDE DEF E
<1>5. Between(E) = E
  <2>1. \A e \in E : e \in Between(E)
    BY <1>2, <1>3 DEF Between, Spans
  <2>2. \A e \in Between(E) : e \in E
    BY <1>4 DEF Between, Spans, ClosedIn
  <2> QED
    BY <2>1, <2>2
<1>6. live' = live \ E
  BY <1>1, <1>5
<1>7. History' = History
  BY <1>1, <1>2, <1>6 DEF History, Listed
<1> QED
  BY <1>2, <1>6, <1>7 DEF E

\* A compaction deletes no more than it counted, so that what it had to keep is
\* left, and the last event with it.
LEMMA KeptCompact ==
    ASSUME StoreInv, OneCompaction, KeptInv, NEW p \in Procs, CompactCommit(p)
    PROVE  KeptInv'
<1> DEFINE o == pend[p]
           E == o.rows
<1>1. /\ archives' = archives \cup {E} /\ retention' = o.keep /\ E # {}
      /\ Stop(p) /\ UNCHANGED <<exists, sequence, snapshot>> /\ o.op = "compact"
  BY DEF CompactCommit
<1>2. E \in SUBSET live /\ live' = live \ E
  BY DeletesRows
<1>3. LeavesEnough(o)
  BY <1>1 DEF KeptInv, KeptBy
<1>4. /\ o.keep > 0 /\ Cardinality(live) >= o.n + o.keep
      /\ Cardinality(E) <= o.n
  <2>1. E # {}
    BY <1>1
  <2> QED
    BY <1>3, <2>1, Zenon DEF LeavesEnough
<1>5. o.n \in Nat /\ o.keep \in Nat
  BY PendingNumbers
<1>6. ClosedIn(E, live)
  BY <1>1 DEF StoreInv, PendingSound
<1> HIDE DEF o, E
<1>7. IsFiniteSet(live) /\ Cardinality(live) \in Nat
  BY LiveFinite
<1>8. IsFiniteSet(E) /\ Cardinality(E) \in Nat
  BY <1>2, <1>7, FS_Subset, FS_CardinalityType
<1>9. Cardinality(live') = Cardinality(live) - Cardinality(E) /\ IsFiniteSet(live')
  <2>1. live \cap E = E
    BY <1>2
  <2>2. /\ IsFiniteSet(live \ E)
        /\ Cardinality(live \ E) = Cardinality(live) - Cardinality(live \cap E)
    BY <1>7, FS_Difference
  <2> QED
    BY <1>2, <2>1, <2>2
<1>10. Cardinality(live') >= o.keep
  BY <1>4, <1>5, <1>7, <1>8, <1>9
<1>11. RecentKept'
  BY <1>1, <1>10 DEF RecentKept
<1>12. NewestLive'
  <2> SUFFICES ASSUME sequence > 0
               PROVE  \E e \in live' : e.seq = sequence
    BY <1>1 DEF NewestLive
  <2>1. PICK d \in live : d.seq = sequence
    BY DEF KeptInv, NewestLive
  <2>2. live' # {}
    <3>1. Cardinality({}) = 0
      BY FS_EmptySet
    <3> QED
      BY <1>4, <1>5, <1>10, <3>1
  <2>3. PICK e \in live : e \notin E
    BY <1>2, <2>2
  <2>4. e.seq <= sequence
    BY DEF StoreInv, LiveKeyed
  <2>5. d \notin E
    BY <1>6, <2>1, <2>3, <2>4 DEF ClosedIn
  <2> QED
    BY <1>2, <2>1, <2>5
<1>13. ASSUME NEW q \in Procs
       PROVE  KeptBy(pend[q])'
  <2>1. CASE q = p
    <3>1. pend'[q].op = "idle"
      BY <1>1, <2>1, StopPend
    <3> QED
      BY <3>1 DEF KeptBy
  <2>2. CASE q # p
    <3>1. pend'[q] = pend[q] /\ KeptBy(pend[q])
      BY <1>1, <2>2, StopPend DEF KeptInv
    <3>2. pend[q].op # "compact"
      BY <1>1, <2>2 DEF OneCompaction, Doing, o
    <3> QED
      BY <1>1, <3>1, <3>2 DEF KeptBy, ReadsKept
  <2> QED
    BY <2>1, <2>2
<1> QED
  BY <1>1, <1>11, <1>12, <1>13 DEF KeptInv

\* A store without events owes none.
LEMMA KeptEmpty ==
    ASSUME StoreInv, KeptInv, EmptyStore, snapshot' = snapshot,
           \/ pend' = [p \in Procs |-> Idle]
           \/ pend' = pend /\ ~exists
    PROVE  KeptInv'
<1>1. NewestLive' /\ RecentKept'
  BY FS_EmptySet DEF EmptyStore, NewestLive, RecentKept
<1>2. ASSUME NEW q \in Procs
      PROVE  KeptBy(pend[q])'
  <2>1. CASE pend' = [p \in Procs |-> Idle]
    <3>1. pend'[q].op = "idle"
      BY <2>1, IdleType
    <3> QED
      BY <3>1 DEF KeptBy
  <2>2. CASE pend' = pend /\ ~exists
    <3>1. pend[q].op # "compact"
      BY <2>2 DEF StoreInv, PendingSound
    <3>2. pend[q].op # "snapshot"
      BY <2>2 DEF KeptInv, KeptBy, ReadsKept
    <3> QED
      BY <2>2, <3>1, <3>2 DEF KeptInv, KeptBy
  <2> QED
    BY <2>1, <2>2
<1> QED
  BY <1>1, <1>2 DEF KeptInv

\* An accepted snapshot is restored with the policy it was taken under, and with
\* at least that many events.
LEMMA KeptRestore ==
    ASSUME StoreInv, KeptInv, NEW p \in Procs, RestoreCheck(p) \/ RestoreRename(p)
    PROVE  KeptInv'
<1>1. CASE RestoreCheck(p)
  <2>1. PICK s \in snapshot :
          pend' = [pend EXCEPT ![p] =
            [op |-> "restore", cmd |-> Idle.cmd, content |-> Idle.content, rev |-> 0,
             rows |-> {}, keep |-> 0, n |-> 0, half |-> {}, got |-> s]]
    BY <1>1 DEF RestoreCheck
  <2> DEFINE r == [op |-> "restore", cmd |-> Idle.cmd, content |-> Idle.content,
                   rev |-> 0, rows |-> {}, keep |-> 0, n |-> 0, half |-> {},
                   got |-> s]
  <2>2. KeptBy(r)
    BY DEF KeptInv, KeptBy
  <2>3. UNCHANGED database /\ \A t \in snapshot' : t.retention <= t.sequence
    BY <1>1 DEF RestoreCheck, KeptInv
  <2> HIDE DEF r
  <2>4. pend' = [pend EXCEPT ![p] = r]
    BY <2>1 DEF r
  <2> QED
    BY <2>2, <2>3, <2>4, KeptRead
<1>2. CASE RestoreRename(p)
  <2> DEFINE s == pend[p].got
  <2>1. /\ sequence' = s.sequence /\ live' = s.events /\ retention' = s.retention
        /\ Leave(p) /\ snapshot' = snapshot /\ pend[p].op = "restore"
    BY <1>2 DEF RestoreRename
  <2>2. Numbered(s.events, s.sequence) /\ s.retention <= s.sequence
    BY <2>1 DEF StoreInv, PendingSound, KeptInv, KeptBy
  <2>3. s.sequence \in Nat /\ s.retention \in Nat /\ s.events \in SUBSET Event
    BY PendingNumbers, PendingType DEF Snapshot
  <2> HIDE DEF s
  <2>4. NewestLive'
    <3>1. s.sequence > 0 => s.sequence \in Seqs(s.events)
      BY <2>2, <2>3 DEF Numbered
    <3>2. s.sequence > 0 => \E e \in s.events : e.seq = s.sequence
      BY <3>1 DEF Seqs
    <3> QED
      BY <2>1, <3>2 DEF NewestLive
  <2>5. s.sequence <= Cardinality(s.events)
    BY <2>2, <2>3, NumberedBound
  <2>6. Cardinality(s.events) \in Nat
    <3>1. \A e \in s.events : e.seq \in 1..s.sequence
      BY <2>2 DEF Numbered, Seqs
    <3>2. \A e \in s.events : e.seq <= s.sequence
      BY <2>3, <3>1
    <3>3. IsFiniteSet(s.events)
      BY <2>2, <2>3, <3>2, KeyedFinite DEF Numbered, Keyed
    <3> QED
      BY <3>3, FS_CardinalityType
  <2>7. RecentKept'
    BY <2>1, <2>2, <2>3, <2>5, <2>6 DEF RecentKept
  <2>8. ASSUME NEW q \in Procs
        PROVE  KeptBy(pend[q])'
    <3>1. pend'[q] = IF q # p /\ pend[q].op = "restore" THEN pend[q] ELSE Idle
      BY <2>1 DEF Leave
    <3>2. CASE q # p /\ pend[q].op = "restore"
      BY <3>1, <3>2 DEF KeptInv, KeptBy
    <3>3. CASE ~(q # p /\ pend[q].op = "restore")
      <4>1. pend'[q].op = "idle"
        BY <3>1, <3>3, IdleType
      <4> QED
        BY <4>1 DEF KeptBy
    <3> QED
      BY <3>2, <3>3
  <2> QED
    BY <2>1, <2>4, <2>7, <2>8 DEF KeptInv
<1> QED
  BY <1>1, <1>2

\* Every step keeps the policy.
LEMMA NextKept ==
    ASSUME HistoryInv, KeptInv, [Next]_vars
    PROVE  KeptInv'
<1> USE DEF HistoryInv
<1>1. CASE UNCHANGED vars
  BY <1>1 DEF vars, KeptInv, NewestLive, RecentKept, KeptBy, LeavesEnough, ReadsKept
<1>2. CASE Lose
  BY <1>2, KeptEmpty DEF Lose
<1>3. \A s \in snapshot : s.retention <= s.sequence
  BY DEF KeptInv
<1>4. ASSUME NEW p \in Procs, ProcNext(p)
      PROVE  KeptInv'
  <2>1. CASE \E c \in Commands, d \in Contents : CommandRead(p, c, d)
    <3>1. PICK c \in Commands, d \in Contents : CommandRead(p, c, d)
      BY <2>1
    <3> DEFINE r == [op |-> "command", cmd |-> c, content |-> d, rev |-> rev,
                     rows |-> {}, keep |-> 0, n |-> 0, half |-> {},
                     got |-> EmptySnapshot]
    <3>2. KeptBy(r)
      BY DEF KeptBy
    <3>3. pend' = [pend EXCEPT ![p] = r] /\ UNCHANGED <<database, snapshot>>
      BY <3>1 DEF CommandRead, Begin
    <3> HIDE DEF r
    <3> QED
      BY <1>3, <3>2, <3>3, KeptRead
  <2>2. CASE CommandCommit(p)
    BY <2>2, KeptCommit
  <2>3. CASE \/ CommandRollback(p) \/ CompactFailed(p) \/ SnapshotFailed(p) \/ Crash(p)
    BY <1>3, <2>3, KeptStop DEF CommandRollback, CompactFailed, SnapshotFailed, Crash
  <2>4. CASE (\E k \in Keeps : CompactCount(p, k)) \/ CompactRows(p)
    BY <2>4, KeptCompactRead
  <2>5. CASE CompactCommit(p)
    BY <2>5, KeptCompact
  <2>6. CASE \/ SnapshotBegin(p) \/ SnapshotArchives(p) \/ SnapshotLive(p)
             \/ SnapshotRecords(p) \/ SnapshotPublish(p)
    BY <2>6, KeptSnapshot
  <2>7. CASE Create(p)
    BY <2>7, KeptEmpty DEF Create
  <2>8. CASE RestoreCheck(p) \/ RestoreRename(p)
    BY <2>8, KeptRestore
  <2> QED
    BY <1>4, <2>1, <2>2, <2>3, <2>4, <2>5, <2>6, <2>7, <2>8 DEF ProcNext
<1> QED
  BY <1>1, <1>2, <1>4 DEF Next

\* What holds of a history keeps holding, with the policy that is in force.
LEMMA KeptSound ==
    ASSUME "compact" \in Alone
    PROVE  Spec => [](HistoryInv /\ KeptInv)
<1>1. Init => KeptInv
  <2> SUFFICES ASSUME Init PROVE KeptInv
    OBVIOUS
  <2>1. NewestLive /\ RecentKept
    BY FS_EmptySet DEF Init, NewestLive, RecentKept
  <2>2. \A p \in Procs : KeptBy(pend[p])
    BY IdleType DEF Init, KeptBy
  <2> QED
    BY <2>1, <2>2 DEF Init, KeptInv
<1>2. HistoryInv /\ KeptInv /\ [Next]_vars => HistoryInv' /\ KeptInv'
  BY NextHistoryInv, NextKept
<1> QED
  BY <1>1, <1>2, InitHistoryInv, PTL DEF Spec

\* If compactions are kept apart from each other, a compaction leaves the events
\* that its policy says to keep, although commands commit while it chooses what to
\* archive, and a restoration brings them back with the policy.
THEOREM RecentIsKept ==
    ASSUME "compact" \in Alone
    PROVE  Spec => []RecentKept
<1>1. KeptInv => RecentKept
  BY DEF KeptInv
<1> QED
  BY <1>1, KeptSound, PTL

-----------------------------------------------------------------------------
(* An accepted snapshot is a cut, although commits overlap it.             *)

\* A process goes on to r, or gives up, and the database stays.
LEMMA CutRead ==
    ASSUME StoreInv, CutInv, UNCHANGED database, NEW p \in Procs, NEW r,
           pend' = [pend EXCEPT ![p] = r], r.op # "restore",
           r.op = "snapshot" => Intact /\ ReadsCut(r),
           snapshot' = {} => snapshot = {}, AcceptedIsACut'
    PROVE  CutInv'
<1>1. \A q \in Procs : pend'[q] = IF q = p THEN r ELSE pend[q]
  BY DEF StoreInv, TypeOK
<1>2. Intact' => Intact
  BY <1>1 DEF Intact, Doing
<1>3. Intact' => StoreCut'
  <2>1. ASSUME StoreCut
        PROVE  StoreCut'
    <3>1. Doing("restore")' = {}
      BY <1>1, <2>1 DEF StoreCut, Doing
    <3>2. History' = History /\ UNCHANGED <<exists, rev, commands>>
      BY DEF History, Listed, database
    <3> QED
      BY <2>1, <3>1, <3>2 DEF StoreCut
  <2> QED
    BY <1>2, <2>1 DEF CutInv
<1>4. ASSUME NEW q \in Procs, pend'[q].op = "snapshot"
      PROVE  ReadsCut(pend[q])'
  <2>1. ReadsCut(pend'[q])
    BY <1>1, <1>4 DEF CutInv
  <2> QED
    BY <2>1 DEF ReadsCut, database
<1> QED
  BY <1>3, <1>4 DEF CutInv

\* A process that gives up leaves the store as it is.
LEMMA CutStop ==
    ASSUME StoreInv, CutInv, NEW p \in Procs, Stop(p), UNCHANGED database,
           snapshot' = {} => snapshot = {}, AcceptedIsACut'
    PROVE  CutInv'
BY IdleType, CutRead DEF Stop

\* What is not in the middle of a snapshot when the store is lost, or after, asks
\* nothing of it.
LEMMA CutGone ==
    ASSUME CutInv, snapshot' = snapshot, snapshot # {},
           \A q \in Procs : pend'[q].op # "snapshot"
    PROVE  CutInv'
<1>1. ~Intact'
  BY DEF Intact, Doing
<1>2. AcceptedIsACut'
  BY DEF CutInv, AcceptedIsACut
<1> QED
  BY <1>1, <1>2 DEF CutInv

\* Events that listEvents accepts, of archives that are there and of the live
\* events, are the whole history.
LEMMA ReadsWhole ==
    ASSUME StoreInv, HistoryContiguous, NewestLive, NEW half \in SUBSET archives,
           Numbered(Listed(half, live), LastSeq(Listed(half, live)))
    PROVE  Listed(half, live) = History
<1> DEFINE E == Listed(half, live)
<1>1. LastSeq(E) = sequence
  BY ReadsEnd
<1>2. Seqs(E) = 1..sequence
  BY <1>1 DEF Numbered
<1>3. E \subseteq History
  BY DEF History, Listed
<1>4. Seqs(History) = 1..sequence /\ \A e, f \in History : e.seq = f.seq => e = f
  BY DEF HistoryContiguous, Numbered, History
<1>5. ASSUME NEW h \in History
      PROVE  h \in E
  <2> HIDE DEF E
  <2>1. h.seq \in Seqs(E)
    BY <1>2, <1>4 DEF Seqs
  <2>2. PICK e \in E : e.seq = h.seq
    BY <2>1 DEF Seqs
  <2> QED
    BY <1>3, <1>4, <2>2
<1> QED
  BY <1>3, <1>5

\* A query of a snapshot.
LEMMA CutContinue ==
    ASSUME StoreInv, CutInv, NEW p \in Procs, NEW n, NEW half, NEW s,
           Continue(p, n, half, s), Intact,
           ReadsCut([op |-> "snapshot", cmd |-> Idle.cmd, content |-> Idle.content,
                     rev |-> 0, rows |-> {}, keep |-> 0, n |-> n, half |-> half,
                     got |-> s])
    PROVE  CutInv'
<1> DEFINE r == [op |-> "snapshot", cmd |-> Idle.cmd, content |-> Idle.content,
                 rev |-> 0, rows |-> {}, keep |-> 0, n |-> n, half |-> half,
                 got |-> s]
<1>1. pend' = [pend EXCEPT ![p] = r] /\ UNCHANGED <<database, snapshot>>
  BY DEF Continue
<1>2. r.op = "snapshot" /\ ReadsCut(r)
  OBVIOUS
<1>3. AcceptedIsACut'
  BY <1>1 DEF CutInv, AcceptedIsACut
<1> HIDE DEF r
<1> QED
  BY <1>1, <1>2, <1>3, CutRead

\* What ReadsCut says of a process with n queries done and payload s.
LEMMA ReadsCutOf ==
    ASSUME NEW n \in Nat, NEW s, NEW half,
           \A c \in Commands :
             s.commands[c] # NotCommitted => s.commands[c] = commands[c],
           n >= 4 => s.digest.rev <= rev,
           /\ n >= 6
           /\ s.digest.rev = IF n = 6 THEN rev ELSE s.rev
           /\ Numbered(s.digest.events, LastSeq(s.digest.events))
           => Cut(s.digest.rev, s.digest.events, s.commands)
    PROVE  ReadsCut([op |-> "snapshot", cmd |-> Idle.cmd, content |-> Idle.content,
                     rev |-> 0, rows |-> {}, keep |-> 0, n |-> n, half |-> half,
                     got |-> s])
BY DEF ReadsCut

\* Every query of a snapshot: the events for the digest are all there are if they
\* begin at 1, and of the revision that was read before them if it is still that.
LEMMA CutQuery ==
    ASSUME HistoryInv, KeptInv, CutInv, NEW p \in Procs,
           \/ SnapshotBegin(p) \/ SnapshotArchives(p) \/ SnapshotLive(p)
           \/ SnapshotRecords(p)
    PROVE  CutInv'
<1> USE DEF HistoryInv
<1> DEFINE o == pend[p]
           g == o.got
<1>1. g \in Snapshot /\ o.n \in Nat /\ o.half \in SUBSET (SUBSET Event)
  BY PendingType DEF Pending
<1>2. ASSUME o.op = "snapshot"
      PROVE  Intact /\ StoreCut /\ ReadsCut(o) /\ ReadsKept(o)
  BY <1>2 DEF CutInv, Intact, Doing, KeptInv, KeptBy
<1>3. CASE SnapshotBegin(p)
  <2> DEFINE s == [commands |-> commands, retention |-> retention, sequence |-> 0,
                   digest |-> [rev |-> 0, events |-> {}], rev |-> 0, events |-> {}]
  <2>1. Continue(p, 1, {}, s) /\ Intact
    BY <1>3 DEF SnapshotBegin, Intact
  <2>2. \A c \in Commands : s.commands[c] # NotCommitted => s.commands[c] = commands[c]
    OBVIOUS
  <2> HIDE DEF s
  <2>3. 1 \in Nat /\ ~(1 >= 4) /\ ~(1 >= 6)
    OBVIOUS
  <2> QED
    BY <2>1, <2>2, <2>3, ReadsCutOf, CutContinue
<1>4. CASE SnapshotArchives(p)
  <2>1. /\ o.op = "snapshot" /\ o.n \in {1, 4, 7}
        /\ Continue(p, o.n + 1, archives, g)
    BY <1>4 DEF SnapshotArchives
  <2>2. ReadsCut(o) /\ Intact
    BY <1>2, <2>1
  <2>3. \A c \in Commands : g.commands[c] # NotCommitted => g.commands[c] = commands[c]
    BY <2>2 DEF ReadsCut
  <2>4. o.n + 1 >= 4 => g.digest.rev <= rev
    BY <2>1, <2>2 DEF ReadsCut
  <2>5. ASSUME o.n = 7, g.digest.rev = g.rev,
               Numbered(g.digest.events, LastSeq(g.digest.events))
        PROVE  Cut(g.digest.rev, g.digest.events, g.commands)
    BY <2>2, <2>5 DEF ReadsCut
  <2> HIDE DEF o, g
  <2>6. /\ o.n + 1 >= 6
        /\ g.digest.rev = IF o.n + 1 = 6 THEN rev ELSE g.rev
        /\ Numbered(g.digest.events, LastSeq(g.digest.events))
        => Cut(g.digest.rev, g.digest.events, g.commands)
    BY <2>1, <2>5
  <2>7. o.n + 1 \in Nat
    BY <1>1
  <2> QED
    BY <2>1, <2>2, <2>3, <2>4, <2>6, <2>7, ReadsCutOf, CutContinue
<1>5. CASE SnapshotLive(p)
  <2> DEFINE E == Listed(o.half, live)
             s == WithEvents(g, o.n, E)
  <2>1. o.op = "snapshot" /\ o.n \in {2, 5, 8} /\ Continue(p, o.n + 1, {}, s)
    BY <1>5 DEF SnapshotLive
  <2>2. ReadsCut(o) /\ Intact /\ StoreCut /\ ReadsKept(o)
    BY <1>2, <2>1
  <2>3. E \in SUBSET Event
    BY <1>1 DEF StoreInv, TypeOK, Listed
  <2>4. /\ s.commands = g.commands /\ s.rev = g.rev /\ s.digest.rev = g.digest.rev
        /\ s.digest.events = IF o.n = 5 THEN E ELSE g.digest.events
    BY <1>1, <2>1, <2>3, WithEventsKeeps
  <2>5. \A c \in Commands : g.commands[c] # NotCommitted => g.commands[c] = commands[c]
    BY <2>2 DEF ReadsCut
  <2>6. o.n >= 4 => g.digest.rev <= rev
    BY <2>2 DEF ReadsCut
  <2>7. ASSUME o.n = 5, g.digest.rev = rev, Numbered(E, LastSeq(E))
        PROVE  Cut(rev, E, g.commands)
    <3>1. E = History
      BY <2>2, <2>7, ReadsWhole DEF ReadsKept, KeptInv
    <3>2. Cut(rev, History, commands)
      BY <2>2 DEF StoreCut
    <3> QED
      BY <2>5, <3>1, <3>2 DEF Cut
  <2>8. ASSUME o.n = 8, g.digest.rev = g.rev,
               Numbered(g.digest.events, LastSeq(g.digest.events))
        PROVE  Cut(g.digest.rev, g.digest.events, g.commands)
    BY <2>2, <2>8 DEF ReadsCut
  <2> HIDE DEF s, g, E
  <2>9. /\ o.n + 1 >= 6
        /\ s.digest.rev = IF o.n + 1 = 6 THEN rev ELSE s.rev
        /\ Numbered(s.digest.events, LastSeq(s.digest.events))
        => Cut(s.digest.rev, s.digest.events, s.commands)
    <3>1. CASE o.n = 2
      BY <3>1
    <3>2. CASE o.n = 5
      BY <2>4, <2>7, <3>2
    <3>3. CASE o.n = 8
      BY <2>4, <2>8, <3>3
    <3> QED
      BY <2>1, <3>1, <3>2, <3>3
  <2>10. o.n + 1 >= 4 => s.digest.rev <= rev
    BY <2>1, <2>4, <2>6
  <2>11. \A c \in Commands : s.commands[c] # NotCommitted => s.commands[c] = commands[c]
    BY <2>4, <2>5
  <2> HIDE DEF o
  <2>12. o.n + 1 \in Nat
    BY <1>1
  <2> QED
    BY <2>1, <2>2, <2>9, <2>10, <2>11, <2>12, ReadsCutOf, CutContinue
<1>6. CASE SnapshotRecords(p)
  <2> DEFINE s == IF o.n = 3
                  THEN [g EXCEPT !.digest = [rev |-> rev, events |-> {}]]
                  ELSE [g EXCEPT !.rev = rev]
  <2>1. o.op = "snapshot" /\ o.n \in {3, 6} /\ Continue(p, o.n + 1, {}, s)
    BY <1>6 DEF SnapshotRecords
  <2>2. ReadsCut(o) /\ Intact
    BY <1>2, <2>1
  <2>3. /\ s.commands = g.commands
        /\ o.n = 3 => s.digest.rev = rev
        /\ o.n = 6 => s.rev = rev /\ s.digest = g.digest
    BY <1>1, <2>1 DEF Snapshot
  <2>4. \A c \in Commands : s.commands[c] # NotCommitted => s.commands[c] = commands[c]
    BY <2>2, <2>3 DEF ReadsCut
  <2>5. o.n = 6 => s.digest.rev <= rev
    BY <2>2, <2>3 DEF ReadsCut
  <2>6. ASSUME o.n = 6, s.digest.rev = s.rev,
               Numbered(s.digest.events, LastSeq(s.digest.events))
        PROVE  Cut(s.digest.rev, s.digest.events, s.commands)
    <3> HIDE DEF s
    <3> QED
      BY <2>2, <2>3, <2>6 DEF ReadsCut
  <2>7. rev \in Nat
    BY DEF StoreInv, TypeOK
  <2> HIDE DEF s, o
  <2>8. /\ o.n + 1 >= 4 => s.digest.rev <= rev
        /\ /\ o.n + 1 >= 6
           /\ s.digest.rev = IF o.n + 1 = 6 THEN rev ELSE s.rev
           /\ Numbered(s.digest.events, LastSeq(s.digest.events))
           => Cut(s.digest.rev, s.digest.events, s.commands)
    BY <2>1, <2>3, <2>5, <2>6, <2>7
  <2>9. o.n + 1 \in Nat
    BY <1>1
  <2> QED
    BY <2>1, <2>2, <2>4, <2>8, <2>9, ReadsCutOf, CutContinue
<1> QED
  BY <1>3, <1>4, <1>5, <1>6

\* A snapshot that will be accepted has read the same revision and the same events
\* twice, so that what it publishes is a cut.
LEMMA CutPublish ==
    ASSUME HistoryInv, CutInv, NEW p \in Procs, SnapshotPublish(p)
    PROVE  CutInv'
<1> USE DEF HistoryInv
<1> DEFINE g == pend[p].got
<1>1. /\ pend[p].op = "snapshot" /\ pend[p].n = 9 /\ snapshot' = {g}
      /\ Stop(p) /\ UNCHANGED database
  BY DEF SnapshotPublish, AtQuery
<1>2. g \in Snapshot
  BY PendingType
<1>3. ASSUME Accepts(g)
      PROVE  Cut(g.rev, g.events, g.commands)
  <2>1. Numbered(g.events, g.sequence) /\ g.digest = [rev |-> g.rev, events |-> g.events]
    BY <1>3 DEF Accepts
  <2>2. g.sequence \in Nat
    BY <1>2 DEF Snapshot
  <2>3. LastSeq(g.events) = g.sequence
    BY <2>1, <2>2, NumberedLast
  <2>4. g.digest.rev = g.rev /\ g.digest.events = g.events
    BY <2>1
  <2>5. Cut(g.digest.rev, g.digest.events, g.commands)
    BY <1>1, <2>1, <2>3, <2>4 DEF CutInv, ReadsCut
  <2> QED
    BY <2>4, <2>5
<1> HIDE DEF g
<1>4. AcceptedIsACut'
  <2>1. \A s \in snapshot' : Accepts(s) => Cut(s.rev, s.events, s.commands)
    BY <1>1, <1>3
  <2> QED
    BY <2>1 DEF AcceptedIsACut, Accepts, Cut
<1> QED
  BY <1>1, <1>4, CutStop

\* A commit raises the revision above what any snapshot has read, and its events
\* explain it.
LEMMA CutCommit ==
    ASSUME HistoryInv, CutInv, NEW p \in Procs, CommandCommit(p)
    PROVE  CutInv'
<1> USE DEF HistoryInv
<1> DEFINE c == pend[p].cmd
<1>1. PICK n \in 1..MaxEvents : live' = live \cup Appended(c, sequence, n, rev + 1)
  BY DEF CommandCommit
<1> DEFINE App == Appended(c, sequence, n, rev + 1)
<1>2. /\ Stop(p) /\ rev' = rev + 1 /\ commands[c] = NotCommitted
      /\ UNCHANGED <<exists, archives, snapshot>>
  BY DEF CommandCommit
<1>3. \A b \in Commands : b # c => commands'[b] = commands[b]
  BY DEF CommandCommit, StoreInv, TypeOK
<1>4. rev \in Nat /\ sequence \in Nat /\ n \in Nat /\ n > 0
  BY <1>1, BoundsAssumption DEF StoreInv, TypeOK
<1>5. \A q \in Procs : pend'[q].op \in {"snapshot", "restore"} => pend'[q] = pend[q]
  BY <1>2, StopPend
<1>6. Intact' => Intact
  BY <1>2, <1>5 DEF Intact, Doing
<1>7. ASSUME StoreCut
      PROVE  StoreCut'
  <2>1. Doing("restore")' = {}
    BY <1>5, <1>7 DEF StoreCut, Doing
  <2>2. Applied(commands', History')
    BY <1>7, CommitApplies DEF StoreCut
  <2>3. History' = History \cup App
    BY <1>1, <1>2 DEF History, Listed
  <2>4. \A e \in App : e.rev = rev + 1
    BY DEF Appended
  <2>5. App # {}
    <3>1. [seq |-> sequence + 1, cmd |-> c, rev |-> rev + 1] \in App
      BY <1>4 DEF Appended
    <3> QED
      BY <3>1
  <2>6. \A e \in History : e.rev \in Nat /\ e.rev <= rev
    <3>1. History \subseteq Event
      BY DEF StoreInv, TypeOK, History, Listed
    <3>2. \A e \in History : e.rev <= rev
      BY <1>7 DEF StoreCut, Cut
    <3> QED
      BY <3>1, <3>2 DEF Event
  <2> HIDE DEF App
  <2>7. Cut(rev', History', commands')
    <3>1. \A e \in History' : e.rev <= rev'
      BY <1>2, <1>4, <2>3, <2>4, <2>6
    <3>2. History' # {} /\ \E e \in History' : e.rev = rev'
      BY <1>2, <2>3, <2>4, <2>5
    <3>3. rev' # 0
      BY <1>2, <1>4
    <3>4. \A b \in Commands : commands'[b] # NotCommitted =>
            EventsOf(b, History') = commands'[b].first .. commands'[b].last
      BY <2>2 DEF Applied
    <3> QED
      BY <3>1, <3>2, <3>3, <3>4 DEF Cut
  <2> QED
    BY <1>2, <1>7, <2>1, <2>2, <2>7 DEF StoreCut
<1>8. ASSUME NEW q \in Procs, pend'[q].op = "snapshot"
      PROVE  ReadsCut(pend[q])'
  <2>1. PICK o : o = pend[q] /\ pend'[q] = o
    BY <1>5, <1>8
  <2>2. ReadsCut(o)
    BY <1>8, <2>1 DEF CutInv
  <2>3. o.got.digest.rev \in Nat /\ o.n \in Nat
    BY <2>1, PendingNumbers
  <2>4. \A b \in Commands :
          o.got.commands[b] # NotCommitted => o.got.commands[b] = commands'[b]
    BY <1>2, <1>3, <2>2 DEF ReadsCut
  <2>5. o.n >= 4 => o.got.digest.rev <= rev
    BY <2>2 DEF ReadsCut
  <2>6. /\ o.n >= 4 => o.got.digest.rev <= rev'
        /\ o.n = 6 => o.got.digest.rev # rev'
    BY <1>2, <1>4, <2>3, <2>5
  <2>7. ASSUME o.n >= 6, o.n # 6, o.got.digest.rev = o.got.rev,
               Numbered(o.got.digest.events, LastSeq(o.got.digest.events))
        PROVE  Cut(o.got.digest.rev, o.got.digest.events, o.got.commands)
    BY <2>2, <2>7 DEF ReadsCut
  <2> QED
    BY <2>1, <2>4, <2>6, <2>7 DEF ReadsCut
<1>9. AcceptedIsACut'
  BY <1>2 DEF CutInv, AcceptedIsACut
<1> QED
  BY <1>6, <1>7, <1>8, <1>9 DEF CutInv

\* A compaction moves events, and adds and takes none.
LEMMA CutCompact ==
    ASSUME HistoryInv, CutInv, NEW p \in Procs, CompactCommit(p)
    PROVE  CutInv'
<1> USE DEF HistoryInv
<1>1. Stop(p) /\ UNCHANGED <<exists, rev, commands, snapshot>>
  BY DEF CompactCommit
<1>2. History' = History
  BY DeletesRows
<1>3. \A q \in Procs : pend'[q].op \in {"snapshot", "restore"} => pend'[q] = pend[q]
  BY <1>1, StopPend
<1>4. Intact' => Intact
  BY <1>1, <1>3 DEF Intact, Doing
<1>5. ASSUME StoreCut
      PROVE  StoreCut'
  <2>1. Doing("restore")' = {}
    BY <1>3, <1>5 DEF StoreCut, Doing
  <2> QED
    BY <1>1, <1>2, <1>5, <2>1 DEF StoreCut
<1>6. ASSUME NEW q \in Procs, pend'[q].op = "snapshot"
      PROVE  ReadsCut(pend[q])'
  <2>1. ReadsCut(pend'[q])
    BY <1>3, <1>6 DEF CutInv
  <2> QED
    BY <1>1, <2>1 DEF ReadsCut
<1>7. AcceptedIsACut'
  BY <1>1 DEF CutInv, AcceptedIsACut
<1> QED
  BY <1>4, <1>5, <1>6, <1>7 DEF CutInv

\* Every step leaves accepted snapshots cuts.
LEMMA NextCut ==
    ASSUME HistoryInv, KeptInv, CutInv, [Next]_vars
    PROVE  CutInv'
<1>1. StoreInv
  BY DEF HistoryInv
<1>2. ASSUME snapshot' = snapshot
      PROVE  AcceptedIsACut'
  BY <1>2 DEF CutInv, AcceptedIsACut
<1>3. ~exists => /\ snapshot # {} /\ \A q \in Procs : pend[q].op # "snapshot"
  BY DEF CutInv, StoreCut, Intact, Doing
<1>4. CASE UNCHANGED vars
  <2>1. History' = History
    BY <1>4 DEF vars, History, Listed
  <2> QED
    BY <1>2, <1>4, <2>1 DEF vars, CutInv, StoreCut, Intact, ReadsCut, Doing
<1>5. CASE Lose
  <2>1. snapshot' = snapshot /\ snapshot # {} /\ \A q \in Procs : pend'[q] = Idle
    BY <1>5 DEF Lose
  <2> QED
    BY <2>1, IdleType, CutGone
<1>6. ASSUME NEW p \in Procs, ProcNext(p)
      PROVE  CutInv'
  <2>1. CASE \E c \in Commands, d \in Contents : CommandRead(p, c, d)
    <3>1. PICK c \in Commands, d \in Contents : CommandRead(p, c, d)
      BY <2>1
    <3> DEFINE r == [op |-> "command", cmd |-> c, content |-> d, rev |-> rev,
                     rows |-> {}, keep |-> 0, n |-> 0, half |-> {},
                     got |-> EmptySnapshot]
    <3>2. r.op = "command"
      OBVIOUS
    <3>3. pend' = [pend EXCEPT ![p] = r] /\ UNCHANGED <<database, snapshot>>
      BY <3>1 DEF CommandRead, Begin
    <3> HIDE DEF r
    <3> QED
      BY <1>1, <1>2, <3>2, <3>3, CutRead
  <2>2. CASE CommandCommit(p)
    BY <2>2, CutCommit
  <2>3. CASE \/ CommandRollback(p) \/ CompactFailed(p) \/ SnapshotFailed(p) \/ Crash(p)
    BY <1>1, <1>2, <2>3, CutStop
      DEF CommandRollback, CompactFailed, SnapshotFailed, Crash
  <2>4. CASE (\E k \in Keeps : CompactCount(p, k)) \/ CompactRows(p)
    <3>1. PICK c, d, n, E, k :
            Begin(p, "compact", c, d, 0, n, E, k) /\ UNCHANGED <<database, snapshot>>
      BY <2>4 DEF CompactCount, CompactRows
    <3> DEFINE r == [op |-> "compact", cmd |-> c, content |-> d, rev |-> 0,
                     rows |-> E, keep |-> k, n |-> n, half |-> {},
                     got |-> EmptySnapshot]
    <3>2. r.op = "compact"
      OBVIOUS
    <3>3. pend' = [pend EXCEPT ![p] = r]
      BY <3>1 DEF Begin
    <3> HIDE DEF r
    <3> QED
      BY <1>1, <1>2, <3>1, <3>2, <3>3, CutRead
  <2>5. CASE CompactCommit(p)
    BY <2>5, CutCompact
  <2>6. CASE SnapshotBegin(p) \/ SnapshotArchives(p) \/ SnapshotLive(p) \/ SnapshotRecords(p)
    BY <2>6, CutQuery
  <2>7. CASE SnapshotPublish(p)
    BY <2>7, CutPublish
  <2>8. CASE Create(p)
    BY <1>3, <2>8, CutGone DEF Create
  <2>9. CASE RestoreCheck(p)
    <3>1. PICK s \in snapshot : pend' = [pend EXCEPT ![p] =
             [op |-> "restore", cmd |-> Idle.cmd, content |-> Idle.content,
              rev |-> 0, rows |-> {}, keep |-> 0, n |-> 0, half |-> {}, got |-> s]]
      BY <2>9 DEF RestoreCheck
    <3>2. ~exists /\ snapshot' = snapshot
      BY <2>9 DEF RestoreCheck
    <3>3. \A q \in Procs : pend'[q].op # "snapshot"
      BY <1>1, <1>3, <3>1, <3>2 DEF StoreInv, TypeOK
    <3> QED
      BY <1>3, <3>2, <3>3, CutGone
  <2>10. CASE RestoreRename(p)
    <3>1. pend[p].op = "restore" /\ Leave(p) /\ snapshot' = snapshot
      BY <2>10 DEF RestoreRename
    <3>2. snapshot # {}
      BY <3>1 DEF CutInv, StoreCut, Intact, Doing
    <3>3. \A q \in Procs : pend'[q].op # "snapshot"
      BY <3>1, IdleType DEF Leave
    <3> QED
      BY <3>1, <3>2, <3>3, CutGone
  <2> QED
    BY <1>6, <2>1, <2>2, <2>3, <2>4, <2>5, <2>6, <2>7, <2>8, <2>9, <2>10 DEF ProcNext
<1> QED
  BY <1>4, <1>5, <1>6 DEF Next

\* If compactions are kept apart from each other, of a snapshot that
\* readSnapshot accepts the events explain the revision of the record and contain
\* those of all its commands, although any number of processes commit commands and
\* archive events between its queries.
THEOREM AcceptedSnapshotsAreCuts ==
    ASSUME "compact" \in Alone
    PROVE  Spec => []AcceptedIsACut
<1>1. Init => CutInv
  <2> SUFFICES ASSUME Init PROVE CutInv
    OBVIOUS
  <2>1. History = {} /\ rev = 0 /\ commands = NoCommands
    BY DEF Init, History, Listed
  <2>2. \A c \in Commands : NoCommands[c] = NotCommitted /\ EventsOf(c, {}) = {}
    BY DEF NoCommands, EventsOf
  <2>3. Cut(0, {}, NoCommands) /\ Applied(NoCommands, {})
    BY <2>2 DEF Cut, Applied
  <2>4. \A p \in Procs : pend[p].op = "idle"
    BY IdleType DEF Init
  <2>5. StoreCut
    BY <2>1, <2>3, <2>4 DEF Init, StoreCut, Doing
  <2>6. AcceptedIsACut
    BY DEF Init, AcceptedIsACut
  <2> QED
    BY <2>4, <2>5, <2>6 DEF CutInv
<1>2. HistoryInv /\ KeptInv /\ CutInv /\ [Next]_vars => CutInv'
  BY NextCut
<1>3. CutInv => AcceptedIsACut
  BY DEF CutInv
<1> QED
  BY <1>1, <1>2, <1>3, KeptSound, PTL DEF Spec

=============================================================================
