------------------------ MODULE PkrExecution_proofs ------------------------
(***************************************************************************)
(* Proofs about PkrExecution, for every set of Tasks, Assignments, Agents  *)
(* and processes: its types, what the model itself keeps, and, when verify *)
(* is given the Assignment of the Task it is given, as the LPS and the     *)
(* Supervisor do, the lane of a Task and the refinement of TaskGovernance. *)
(***************************************************************************)
EXTENDS PkrExecution, TLAPS

-----------------------------------------------------------------------------
(* Type correctness.                                                       *)

\* The default records, of nothing stored and of a process that does nothing, have
\* their types.
LEMMA DefaultTypes ==
    /\ NewTask \in Task
    /\ NoneAsg \in Assignment
    /\ None \in Lease
    /\ None \in Session
    /\ None \in Run
    /\ Idle \in Pending
<1>1. /\ (CHOOSE t \in Tasks : TRUE) \in Tasks
      /\ (CHOOSE a \in Assignments : TRUE) \in Assignments
      /\ (CHOOSE g \in Agents : TRUE) \in Agents
  BY NonEmptyAssumption
<1>2. NewTask \in Task
  BY DEF NewTask, Task
<1>3. NoneAsg \in Assignment
  BY <1>1 DEF NoneAsg, Assignment, Actors
<1>4. None \in Lease /\ None \in Session /\ None \in Run
  BY DEF None, Lease, Session, Run
<1>5. Idle \in Pending
  BY <1>1, <1>2, <1>3, <1>4 DEF Idle, Waiting, Pending, Mutations, Actors, EffectKinds
<1> QED
  BY <1>2, <1>3, <1>4, <1>5

\* Stopping leaves a process idle and the others as they are.
LEMMA StopType ==
    ASSUME TypeOK, NEW p \in Procs, Stop(p)
    PROVE  pend' \in [Procs -> Pending]
BY DefaultTypes DEF TypeOK, Stop

\* A process that waits is in a state of its type.
LEMMA AwaitType ==
    ASSUME TypeOK, NEW p \in Procs, NEW o \in {"expiring", "reserve", "execute"},
           NEW k \in EffectKinds, NEW a \in Assignments, Await(p, o, k, a)
    PROVE  pend' \in [Procs -> Pending]
<1>1. /\ (CHOOSE t \in Tasks : TRUE) \in Tasks
      /\ (CHOOSE g \in Agents : TRUE) \in Actors
  BY NonEmptyAssumption DEF Actors
<1>2. Waiting(o, k, a) \in Pending
  BY <1>1, DefaultTypes DEF Waiting, Pending
<1> QED
  BY <1>2 DEF TypeOK, Await

\* A prepared operation keeps records of their types.
LEMMA PrepareType ==
    ASSUME TypeOK, NEW p \in Procs, NEW o \in Mutations, NEW a \in Assignments,
           NEW t \in Tasks, NEW by \in Actors, NEW passed \in BOOLEAN,
           NEW r \in Assignments \cup {NoAssignment}, 
           Prepare(p, o, a, t, by, passed, r)
    PROVE  pend' \in [Procs -> Pending]
<1> DEFINE seen == [task |-> task[t], asg |-> asg[a], lease |-> lease[a],
                    sess |-> sess[a],
                    run |-> IF r = NoAssignment THEN None ELSE run[r]]
<1>1. (IF r = NoAssignment THEN None ELSE run[r]) \in Run
  BY DefaultTypes DEF TypeOK
<1>2. seen \in [task : Task, asg : Assignment, lease : Lease, sess : Session,
                run : Run]
  BY <1>1 DEF TypeOK
<1>3. [op |-> o, asg |-> a, task |-> t, by |-> by, passed |-> passed,
       kind |-> "provider", run |-> r, seen |-> seen] \in Pending
  BY <1>2 DEF Pending, EffectKinds
<1> QED
  BY <1>3 DEF TypeOK, Prepare

\* The record a revision makes has the type of the record it revises.
LEMMA RevisedTypes ==
    /\ \A r \in Assignment, s \in LiveAssignment \cup TerminalAssignment :
          RevisedAsg(r, s) \in Assignment
    /\ \A r \in Lease, s \in {"active", "renewed", "released", "revoked", "expired"} :
          Revised(r, s) \in Lease
    /\ \A r \in Session, s \in {"active", "closing", "closed", "failed", "expired"} :
          Revised(r, s) \in Session
    /\ \A r \in Run, s \in {"implementing", "verifying", "blocked", "done"} :
          Revised(r, s) \in Run
<1>1. \A r \in Assignment, s \in LiveAssignment \cup TerminalAssignment :
        RevisedAsg(r, s) \in Assignment
  BY DEF RevisedAsg, Assignment
<1>2. \A r \in Lease, s \in {"active", "renewed", "released", "revoked", "expired"} :
        Revised(r, s) \in Lease
  BY DEF Revised, Lease, LiveLease
<1>3. \A r \in Session, s \in {"active", "closing", "closed", "failed", "expired"} :
        Revised(r, s) \in Session
  BY DEF Revised, Session
<1>4. \A r \in Run, s \in {"implementing", "verifying", "blocked", "done"} :
        Revised(r, s) \in Run
  BY DEF Revised, Run
<1> QED
  BY <1>1, <1>2, <1>3, <1>4

\* A WorkflowRun that is found is one of those there are.
LEMMA RunFoundType ==
    ASSUME NEW t \in Tasks, NEW a \in Assignments
    PROVE  RunFound(t, a) \in Assignments \cup {NoAssignment}
BY DEF RunFound

\* What a prepared operation carries has its type.
LEMMA PendingTypes ==
    ASSUME TypeOK, NEW p \in Procs
    PROVE  /\ pend[p] \in Pending
           /\ pend[p].asg \in Assignments
           /\ pend[p].task \in Tasks
           /\ pend[p].by \in Actors
           /\ pend[p].passed \in BOOLEAN
           /\ pend[p].kind \in EffectKinds
           /\ pend[p].run \in Assignments \cup {NoAssignment}
           /\ pend[p].seen.task \in Task
           /\ pend[p].seen.asg \in Assignment
           /\ pend[p].seen.lease \in Lease
           /\ pend[p].seen.sess \in Session
           /\ pend[p].seen.run \in Run
<1>1. pend[p] \in Pending
  BY DEF TypeOK
<1>2. pend[p].seen \in [task : Task, asg : Assignment, lease : Lease,
                        sess : Session, run : Run]
  BY <1>1 DEF Pending
<1> QED
  BY <1>1, <1>2 DEF Pending

\* Each record that a transaction replaces keeps its type.
LEMMA PutTypes ==
    ASSUME TypeOK, NEW p \in Procs
    PROVE  /\ \A ph \in {"verifying", "blocked", "done", "cancelled"},
                 why \in {"CallbackSubmitted", "ProviderExecutionFailed",
                          "VerificationFailed", "VerificationPassed",
                          "AssignmentCancelled", "LeaseExpired"} :
                PutTask(p, ph, why) => task' \in [Tasks -> Task]
           /\ \A s \in LiveAssignment \cup TerminalAssignment :
                PutAsg(p, s) => asg' \in [Assignments -> Assignment]
           /\ \A s \in {"active", "renewed", "released", "revoked", "expired"} :
                PutLease(p, s) => lease' \in [Assignments -> Lease]
           /\ \A s \in {"active", "closing", "closed", "failed", "expired"} :
                PutSess(p, s) => sess' \in [Assignments -> Session]
           /\ \A s \in {"implementing", "verifying", "blocked", "done"} :
                PutRun(p, s) => run' \in [Assignments -> Run]
<1> USE PendingTypes, RevisedTypes
<1>1. ASSUME NEW ph \in {"verifying", "blocked", "done", "cancelled"},
             NEW why \in {"CallbackSubmitted", "ProviderExecutionFailed",
                          "VerificationFailed", "VerificationPassed",
                          "AssignmentCancelled", "LeaseExpired"},
             PutTask(p, ph, why)
      PROVE  task' \in [Tasks -> Task]
  <2>1. RevisedTask(pend[p].seen.task, ph, why) \in Task
    BY DEF RevisedTask, Task
  <2> QED
    BY <1>1, <2>1 DEF PutTask, TypeOK
<1>2. ASSUME NEW s \in LiveAssignment \cup TerminalAssignment, PutAsg(p, s)
      PROVE  asg' \in [Assignments -> Assignment]
  BY <1>2 DEF PutAsg, TypeOK
<1>3. ASSUME NEW s \in {"active", "renewed", "released", "revoked", "expired"},
             PutLease(p, s)
      PROVE  lease' \in [Assignments -> Lease]
  BY <1>3 DEF PutLease, TypeOK
<1>4. ASSUME NEW s \in {"active", "closing", "closed", "failed", "expired"},
             PutSess(p, s)
      PROVE  sess' \in [Assignments -> Session]
  BY <1>4 DEF PutSess, TypeOK
<1>5. ASSUME NEW s \in {"implementing", "verifying", "blocked", "done"},
             PutRun(p, s)
      PROVE  run' \in [Assignments -> Run]
  BY <1>5 DEF PutRun, TypeOK
<1> QED
  BY <1>1, <1>2, <1>3, <1>4, <1>5

\* Every step of every operation keeps the types.
LEMMA TypeStep ==
    ASSUME TypeOK, [Next]_vars
    PROVE  TypeOK'
<1> USE PendingTypes, PutTypes, StopType, AwaitType, PrepareType, RunFoundType
<1>1. ASSUME NEW p \in Procs, NEW a \in Assignments, NEW t \in Tasks,
             NEW g \in Agents, DispatchRead(p, a, t, g)
      PROVE  TypeOK'
  <2>1. pend' \in [Procs -> Pending]
    BY <1>1 DEF DispatchRead, Mutations, Actors
  <2> QED
    BY <1>1, <2>1 DEF DispatchRead, NothingStored, records, TypeOK
<1>2. ASSUME NEW p \in Procs, DispatchCommit(p)
      PROVE  TypeOK'
  <2> DEFINE o == pend[p]
  <2>1. [phase |-> "inProgress", reason |-> "AssignmentRunning",
         rev |-> o.seen.task.rev + 2] \in Task
    BY DEF Task
  <2>2. [state |-> "running", task |-> o.task, agent |-> o.by, rev |-> 3]
           \in Assignment
    BY DEF Assignment, LiveAssignment
  <2>3. /\ [state |-> "active", rev |-> 1] \in Lease
        /\ [state |-> "active", rev |-> 1] \in Session
        /\ [state |-> "implementing", rev |-> 1] \in Run
    BY DEF Lease, LiveLease, Session, Run
  <2> QED
    BY <1>2, <2>1, <2>2, <2>3 DEF DispatchCommit, Commits, TypeOK
<1>3. ASSUME NEW p \in Procs, NEW a \in Assignments,
             NEW o \in {"callback", "failure"}, ReportRead(p, o, a)
      PROVE  TypeOK'
  <2>1. asg[a].task \in Tasks /\ asg[a].agent \in Actors
    BY DEF TypeOK, Assignment
  <2>2. o \in Mutations /\ RunFound(asg[a].task, a) \in Assignments \cup {NoAssignment}
    BY <2>1 DEF Mutations
  <2>3. Prepare(p, o, a, asg[a].task, asg[a].agent, FALSE, RunFound(asg[a].task, a))
    BY <1>3 DEF ReportRead
  <2>4. pend' \in [Procs -> Pending]
    BY <2>1, <2>2, <2>3
  <2> QED
    BY <1>3, <2>4 DEF ReportRead, NothingStored, records, TypeOK
<1>4. ASSUME NEW p \in Procs, CallbackCommit(p)
      PROVE  TypeOK'
  BY <1>4 DEF CallbackCommit, Commits, TypeOK, LiveAssignment
<1>5. ASSUME NEW p \in Procs, FailureCommit(p)
      PROVE  TypeOK'
  BY <1>5 DEF FailureCommit, Commits, TypeOK, TerminalAssignment
<1>6. ASSUME NEW p \in Procs, NEW t \in Tasks, NEW a \in Assignments,
             NEW by \in Actors, NEW passed \in BOOLEAN,
             VerifyRead(p, t, a, by, passed)
      PROVE  TypeOK'
  <2>1. pend' \in [Procs -> Pending]
    BY <1>6 DEF VerifyRead, Mutations
  <2> QED
    BY <1>6, <2>1 DEF VerifyRead, NothingStored, records, TypeOK
<1>7. ASSUME NEW p \in Procs, VerifyCommit(p)
      PROVE  TypeOK'
  <2> DEFINE o == pend[p]
  <2>1. /\ asg' \in [Assignments -> Assignment]
        /\ run' \in [Assignments -> Run]
    BY <1>7 DEF VerifyCommit, TerminalAssignment
  <2>2. task' \in [Tasks -> Task]
    BY <1>7 DEF VerifyCommit
  <2>3. sess' \in [Assignments -> Session]
    BY <1>7 DEF VerifyCommit, TypeOK
  <2>4. accepted' \subseteq [task : Tasks, asg : Assignments, by : Actors]
    BY <1>7 DEF VerifyCommit, TypeOK
  <2> QED
    BY <1>7, <2>1, <2>2, <2>3, <2>4 DEF VerifyCommit, Commits, TypeOK
<1>8. ASSUME NEW p \in Procs, NEW a \in Assignments,
             HeartbeatRead(p, a) \/ CancelRead(p, a) \/ ExpireRead(p, a)
      PROVE  TypeOK'
  <2>1. asg[a].task \in Tasks /\ asg[a].agent \in Actors
    BY DEF TypeOK, Assignment
  <2>2. pend' \in [Procs -> Pending]
    BY <1>8, <2>1 DEF HeartbeatRead, CancelRead, ExpireRead, Mutations
  <2> QED
    BY <1>8, <2>2
       DEF HeartbeatRead, CancelRead, ExpireRead, NothingStored, records, TypeOK
<1>9. ASSUME NEW p \in Procs, HeartbeatCommit(p)
      PROVE  TypeOK'
  <2>1. pend[p].op = "heartbeat" /\ Stop(p)
    BY <1>9 DEF HeartbeatCommit, Commits
  <2>2. lease' \in [Assignments -> Lease]
    BY <1>9 DEF HeartbeatCommit
  <2>3. sess' \in [Assignments -> Session]
    <3>1. Revised(pend[p].seen.sess, pend[p].seen.sess.state) \in Session
      BY DEF Revised, Session
    <3> QED
      BY <1>9, <3>1 DEF HeartbeatCommit, PutSess, TypeOK
  <2> QED
    BY <1>9, <2>1, <2>2, <2>3 DEF HeartbeatCommit, TypeOK
<1>10. ASSUME NEW p \in Procs, CancelCommit(p)
       PROVE  TypeOK'
  <2>1. asg' \in [Assignments -> Assignment]
    BY <1>10 DEF CancelCommit, TerminalAssignment
  <2>2. lease' \in [Assignments -> Lease] /\ sess' \in [Assignments -> Session]
    BY <1>10 DEF CancelCommit, TypeOK
  <2>3. task' \in [Tasks -> Task]
    BY <1>10 DEF CancelCommit, TypeOK
  <2> QED
    BY <1>10, <2>1, <2>2, <2>3 DEF CancelCommit, Commits, TypeOK
<1>11. ASSUME NEW p \in Procs, ExpireCommit(p)
       PROVE  TypeOK'
  <2> DEFINE a == pend[p].asg
  <2>1. /\ asg' \in [Assignments -> Assignment]
        /\ lease' \in [Assignments -> Lease]
        /\ sess' \in [Assignments -> Session]
        /\ task' \in [Tasks -> Task]
    BY <1>11 DEF ExpireCommit, TerminalAssignment
  <2>2. Revised(run[a], "blocked") \in Run
    BY RevisedTypes DEF TypeOK
  <2>3. run' \in [Assignments -> Run]
    BY <1>11, <2>2 DEF ExpireCommit, TypeOK
  <2> QED
    BY <1>11, <2>1, <2>3 DEF ExpireCommit, Commits, TypeOK
<1>12. ASSUME NEW a \in Assignments, Elapse(a)
       PROVE  TypeOK'
  BY <1>12 DEF Elapse, records, TypeOK
<1>13. ASSUME NEW p \in Procs, NEW a \in Assignments, ObserveElapsed(p, a)
       PROVE  TypeOK'
  BY <1>13 DEF ObserveElapsed, NothingStored, records, TypeOK, EffectKinds
<1>14. ASSUME NEW p \in Procs, ExpireRefused(p) \/ Conflict(p) \/ Crash(p)
       PROVE  TypeOK'
  BY <1>14 DEF ExpireRefused, Conflict, Crash, NothingStored, records, TypeOK
<1>15. ASSUME NEW p \in Procs, NEW k \in EffectKinds, NEW a \in Assignments,
              EffectCheck(p, k, a)
       PROVE  TypeOK'
  BY <1>15 DEF EffectCheck, NothingStored, records, TypeOK
<1>16. ASSUME NEW p \in Procs, EffectReserve(p)
       PROVE  TypeOK'
  <2>1. pend' \in [Procs -> Pending]
    BY <1>16 DEF EffectReserve
  <2>2. effect' \in [EffectKinds ->
                     [Assignments -> {"none", "pending", "succeeded", "failed"}]]
    <3>1. CASE effect[pend[p].kind][pend[p].asg] = "none"
      <4>1. effect' = [effect EXCEPT ![pend[p].kind][pend[p].asg] = "pending"]
        BY <1>16, <3>1 DEF EffectReserve
      <4> QED
        BY <4>1 DEF TypeOK
    <3>2. CASE effect[pend[p].kind][pend[p].asg] # "none"
      BY <1>16, <3>2 DEF EffectReserve, TypeOK
    <3> QED
      BY <3>1, <3>2
  <2> QED
    BY <1>16, <2>1, <2>2 DEF EffectReserve, records, TypeOK
<1>17. ASSUME NEW p \in Procs, EffectDone(p)
       PROVE  TypeOK'
  BY <1>17 DEF EffectDone, records, TypeOK
<1>18. ASSUME NEW k \in EffectKinds, NEW a \in Assignments, EffectReconcile(k, a)
       PROVE  TypeOK'
  BY <1>18 DEF EffectReconcile, records, TypeOK
<1>19. ASSUME UNCHANGED vars
       PROVE  TypeOK'
  BY <1>19 DEF vars, records, TypeOK
<1> QED
  BY <1>1, <1>2, <1>3, <1>4, <1>5, <1>6, <1>7, <1>8, <1>9, <1>10, <1>11, <1>12,
     <1>13, <1>14, <1>15, <1>16, <1>17, <1>18, <1>19 DEF Next, ProcNext

\* PkrExecution is type-correct: every record of every table, the effect journal
\* and what each process holds keep their types.
THEOREM TypeCorrect == Spec => []TypeOK
<1>1. Init => TypeOK
  BY DefaultTypes DEF Init, TypeOK
<1>2. TypeOK /\ [Next]_vars => TypeOK'
  BY TypeStep
<1> QED
  BY <1>1, <1>2, PTL DEF Spec

-----------------------------------------------------------------------------
(* What a process has read (SnapshotFaithful), for every pairing of Tasks  *)
(* and Assignments that verify may be given.                               *)

\* Every record is, after a step, what it was or a later revision, and no
\* Assignment vanishes.
Forward ==
    /\ \A t \in Tasks : Behind(task[t], task'[t])
    /\ \A a \in Assignments :
         /\ Behind(asg[a], asg'[a])
         /\ Behind(lease[a], lease'[a])
         /\ Behind(sess[a], sess'[a])
         /\ Behind(run[a], run'[a])
         /\ asg[a].state # "none" => asg'[a].state # "none"

\* Later than a later revision is a later revision.
LEMMA BehindTransitive ==
    ASSUME NEW x, NEW y, NEW z, x.rev \in Nat, y.rev \in Nat, z.rev \in Nat,
           Behind(x, y), Behind(y, z)
    PROVE  Behind(x, z)
BY DEF Behind

\* The revisions are numbers.
LEMMA RevisionTypes ==
    ASSUME TypeOK
    PROVE  /\ \A t \in Tasks : task[t].rev \in Nat
           /\ \A a \in Assignments : /\ asg[a].rev \in Nat
                                     /\ lease[a].rev \in Nat
                                     /\ sess[a].rev \in Nat
                                     /\ run[a].rev \in Nat
BY DEF TypeOK, Task, Assignment, Lease, Session, Run

\* A record that has only moved forward is still behind no snapshot.
LEMMA ForwardKeeps ==
    ASSUME TypeOK, TypeOK', Forward, SnapshotFaithful, NEW q \in Procs,
           pend[q].op \in Mutations, pend'[q] = pend[q]
    PROVE  LET o == pend[q] IN
           /\ Behind(o.seen.task, task'[o.task])
           /\ Behind(o.seen.asg, asg'[o.asg])
           /\ Behind(o.seen.lease, lease'[o.asg])
           /\ Behind(o.seen.sess, sess'[o.asg])
           /\ o.run # NoAssignment => Behind(o.seen.run, run'[o.run])
<1> DEFINE o == pend[q]
<1>1. /\ o.asg \in Assignments /\ o.task \in Tasks
      /\ o.run \in Assignments \cup {NoAssignment}
      /\ o.seen.task.rev \in Nat /\ o.seen.asg.rev \in Nat
      /\ o.seen.lease.rev \in Nat /\ o.seen.sess.rev \in Nat
      /\ o.seen.run.rev \in Nat
  BY PendingTypes DEF Task, Assignment, Lease, Session, Run
<1>2. /\ \A t \in Tasks : task[t].rev \in Nat /\ task'[t].rev \in Nat
      /\ \A a \in Assignments : /\ asg[a].rev \in Nat /\ asg'[a].rev \in Nat
                                /\ lease[a].rev \in Nat /\ lease'[a].rev \in Nat
                                /\ sess[a].rev \in Nat /\ sess'[a].rev \in Nat
                                /\ run[a].rev \in Nat /\ run'[a].rev \in Nat
  BY DEF TypeOK, Task, Assignment, Lease, Session, Run
<1>3. /\ Behind(o.seen.task, task[o.task])
      /\ Behind(o.seen.asg, asg[o.asg])
      /\ Behind(o.seen.lease, lease[o.asg])
      /\ Behind(o.seen.sess, sess[o.asg])
      /\ o.run # NoAssignment => Behind(o.seen.run, run[o.run])
  BY DEF SnapshotFaithful
<1>4. Behind(o.seen.task, task'[o.task])
  BY <1>1, <1>2, <1>3, BehindTransitive DEF Forward
<1>5. Behind(o.seen.asg, asg'[o.asg])
  BY <1>1, <1>2, <1>3, BehindTransitive DEF Forward
<1>6. Behind(o.seen.lease, lease'[o.asg])
  BY <1>1, <1>2, <1>3, BehindTransitive DEF Forward
<1>7. Behind(o.seen.sess, sess'[o.asg])
  BY <1>1, <1>2, <1>3, BehindTransitive DEF Forward
<1>8. o.run # NoAssignment => Behind(o.seen.run, run'[o.run])
  BY <1>1, <1>2, <1>3, BehindTransitive DEF Forward
<1> QED
  BY <1>4, <1>5, <1>6, <1>7, <1>8

\* A step that moves the records forward and prepares nothing keeps ReadInv.
LEMMA StopKeeps ==
    ASSUME ReadInv, TypeOK', Forward, Fresh',
           \A q \in Procs : pend'[q] = pend[q] \/ pend'[q].op \notin Mutations
    PROVE  ReadInv'
<1>1. ASSUME NEW q \in Procs, pend'[q].op \in Mutations
      PROVE  pend'[q] = pend[q]
  BY <1>1
<1>2. SnapshotFaithful'
  BY <1>1, ForwardKeeps DEF SnapshotFaithful, ReadInv
<1>3. Existing'
  <2> SUFFICES ASSUME NEW q \in Procs, pend'[q].op \in Mutations
               PROVE  /\ pend'[q].op = "dispatch" => pend'[q].seen.asg.state = "none"
                      /\ pend'[q].op # "dispatch" => asg'[pend'[q].asg].state # "none"
                      /\ pend'[q].run # NoAssignment => asg'[pend'[q].run].state # "none"
    BY DEF Existing, Mutations
  <2>1. pend'[q] = pend[q]
    BY <1>1
  <2>2. pend[q].asg \in Assignments /\ pend[q].run \in Assignments \cup {NoAssignment}
    BY PendingTypes DEF ReadInv
  <2> QED
    BY <2>1, <2>2 DEF ReadInv, Existing, Forward
<1> QED
  BY <1>2, <1>3 DEF ReadInv

\* Preparing an operation on records that exist, or a dispatch of a new
\* Assignment, keeps ReadInv.
LEMMA PrepareKeeps ==
    ASSUME ReadInv, TypeOK', NothingStored, NEW p \in Procs, NEW o \in Mutations,
           NEW a \in Assignments, NEW t \in Tasks, NEW by, NEW passed,
           NEW r \in Assignments \cup {NoAssignment},
           Prepare(p, o, a, t, by, passed, r),
           o = "dispatch" <=> asg[a].state = "none",
           r # NoAssignment => asg[r].state # "none"
    PROVE  ReadInv'
<1>1. UNCHANGED <<task, asg, lease, sess, run>>
  BY DEF NothingStored, records
<1>2. /\ pend'[p].op = o /\ pend'[p].asg = a /\ pend'[p].task = t /\ pend'[p].run = r
      /\ pend'[p].seen.task = task[t] /\ pend'[p].seen.asg = asg[a]
      /\ pend'[p].seen.lease = lease[a] /\ pend'[p].seen.sess = sess[a]
      /\ r # NoAssignment => pend'[p].seen.run = run[r]
      /\ \A q \in Procs \ {p} : pend'[q] = pend[q]
  BY DEF Prepare, ReadInv, TypeOK
<1>3. SnapshotFaithful'
  BY <1>1, <1>2 DEF SnapshotFaithful, Behind, ReadInv
<1>4. Existing'
  BY <1>1, <1>2 DEF Existing, ReadInv
<1>5. Fresh'
  BY <1>1 DEF Fresh, ReadInv
<1> QED
  BY <1>3, <1>4, <1>5 DEF ReadInv

\* What compare-and-set gives a committing operation: the records it writes are
\* at the revision it read.
LEMMA CasMeans ==
    ASSUME ReadInv, NEW p \in Procs, pend[p].op \in Mutations, CasHolds(pend[p])
    PROVE  LET o == pend[p] IN
           /\ WritesTask(o) => task[o.task] = o.seen.task
           /\ WritesAsg(o) => asg[o.asg] = o.seen.asg
           /\ WritesLease(o) => lease[o.asg] = o.seen.lease
           /\ WritesSess(o) => sess[o.asg] = o.seen.sess
           /\ WritesRun(o) => run[o.run] = o.seen.run
<1>1. /\ pend[p].seen.task.rev \in Nat /\ pend[p].seen.asg.rev \in Nat
      /\ pend[p].seen.lease.rev \in Nat /\ pend[p].seen.sess.rev \in Nat
      /\ pend[p].seen.run.rev \in Nat
  BY PendingTypes DEF ReadInv, Task, Assignment, Lease, Session, Run
<1> QED
  BY <1>1 DEF ReadInv, SnapshotFaithful, Behind, CasHolds, WritesRun

\* Each put of a committing transaction moves its record to the next revision.
LEMMA PutForward ==
    ASSUME ReadInv, NEW p \in Procs, pend[p].op \in Mutations, CasHolds(pend[p])
    PROVE  LET o == pend[p] IN
           /\ \A ph, why : WritesTask(o) /\ PutTask(p, ph, why) =>
                 \A t \in Tasks : Behind(task[t], task'[t])
           /\ \A s : WritesAsg(o) /\ s # "none" /\ PutAsg(p, s) =>
                 \A a \in Assignments : Behind(asg[a], asg'[a])
                    /\ (asg[a].state # "none" => asg'[a].state # "none")
           /\ \A s : WritesLease(o) /\ PutLease(p, s) =>
                 \A a \in Assignments : Behind(lease[a], lease'[a])
           /\ \A s : WritesSess(o) /\ PutSess(p, s) =>
                 \A a \in Assignments : Behind(sess[a], sess'[a])
           /\ \A s : (o.run = NoAssignment \/ WritesRun(o)) /\ PutRun(p, s) =>
                 \A a \in Assignments : Behind(run[a], run'[a])
<1> DEFINE o == pend[p]
<1>1. /\ o.asg \in Assignments /\ o.task \in Tasks
      /\ o.run \in Assignments \cup {NoAssignment}
  BY PendingTypes DEF ReadInv
<1>2. /\ \A t \in Tasks : task[t].rev \in Nat
      /\ \A a \in Assignments : /\ asg[a].rev \in Nat
                                /\ lease[a].rev \in Nat
                                /\ sess[a].rev \in Nat
                                /\ run[a].rev \in Nat
  BY RevisionTypes DEF ReadInv
<1>3. /\ task \in [Tasks -> Task] /\ asg \in [Assignments -> Assignment]
      /\ lease \in [Assignments -> Lease] /\ sess \in [Assignments -> Session]
      /\ run \in [Assignments -> Run]
  BY DEF ReadInv, TypeOK
<1>4. ASSUME NEW ph, NEW why, WritesTask(o), PutTask(p, ph, why), NEW t \in Tasks
      PROVE  Behind(task[t], task'[t])
  BY <1>1, <1>2, <1>3, <1>4, CasMeans DEF PutTask, RevisedTask, Behind
<1>5. ASSUME NEW s, WritesAsg(o), s # "none", PutAsg(p, s), NEW a \in Assignments
      PROVE  Behind(asg[a], asg'[a]) /\ (asg[a].state # "none" => asg'[a].state # "none")
  BY <1>1, <1>2, <1>3, <1>5, CasMeans DEF PutAsg, RevisedAsg, Behind
<1>6. ASSUME NEW s, WritesLease(o), PutLease(p, s), NEW a \in Assignments
      PROVE  Behind(lease[a], lease'[a])
  BY <1>1, <1>2, <1>3, <1>6, CasMeans DEF PutLease, Revised, Behind
<1>7. ASSUME NEW s, WritesSess(o), PutSess(p, s), NEW a \in Assignments
      PROVE  Behind(sess[a], sess'[a])
  BY <1>1, <1>2, <1>3, <1>7, CasMeans DEF PutSess, Revised, Behind
<1>8. ASSUME NEW s, o.run = NoAssignment \/ WritesRun(o), PutRun(p, s),
             NEW a \in Assignments
      PROVE  Behind(run[a], run'[a])
  BY <1>1, <1>2, <1>3, <1>8, CasMeans DEF PutRun, Revised, Behind
<1> QED
  BY <1>4, <1>5, <1>6, <1>7, <1>8

\* The new Assignment of a committing dispatch has no records yet.
LEMMA DispatchIsFresh ==
    ASSUME ReadInv, NEW p \in Procs, DispatchCommit(p)
    PROVE  LET o == pend[p] IN
           /\ asg[o.asg].state = "none" /\ asg[o.asg].rev = 0
           /\ lease[o.asg] = None
           /\ sess[o.asg] = None /\ run[o.asg] = None
           /\ asg[o.asg] = o.seen.asg
           /\ task[o.task] = o.seen.task
<1>1. pend[p].op = "dispatch" /\ CasHolds(pend[p])
  BY DEF DispatchCommit, Commits
<1>2. asg[pend[p].asg] = pend[p].seen.asg /\ task[pend[p].task] = pend[p].seen.task
  BY <1>1, CasMeans DEF WritesAsg, WritesTask, Mutations
<1>3. pend[p].seen.asg.state = "none" /\ pend[p].asg \in Assignments
  BY <1>1, PendingTypes DEF ReadInv, Existing
<1> QED
  BY <1>2, <1>3 DEF ReadInv, Fresh

\* Every commit moves the records it writes forward and leaves the others.
LEMMA CommitForward ==
    ASSUME ReadInv, TypeOK', NEW p \in Procs,
           \/ DispatchCommit(p) \/ CallbackCommit(p) \/ FailureCommit(p)
           \/ VerifyCommit(p) \/ HeartbeatCommit(p) \/ CancelCommit(p)
           \/ ExpireCommit(p)
    PROVE  Forward
<1> DEFINE o == pend[p]
<1>a. /\ o.asg \in Assignments /\ o.task \in Tasks
      /\ o.run \in Assignments \cup {NoAssignment}
  BY PendingTypes DEF ReadInv
<1>b. /\ task \in [Tasks -> Task] /\ asg \in [Assignments -> Assignment]
      /\ lease \in [Assignments -> Lease] /\ sess \in [Assignments -> Session]
      /\ run \in [Assignments -> Run]
  BY DEF ReadInv, TypeOK
<1>c. /\ \A t \in Tasks : task[t].rev \in Nat
      /\ \A a \in Assignments : asg[a].rev \in Nat /\ run[a].rev \in Nat
  BY RevisionTypes DEF ReadInv
<1>1. CASE DispatchCommit(p)
  <2>1. /\ asg[o.asg].state = "none" /\ asg[o.asg].rev = 0
        /\ lease[o.asg] = None
        /\ sess[o.asg] = None /\ run[o.asg] = None
        /\ asg[o.asg] = o.seen.asg /\ task[o.task] = o.seen.task
    BY <1>1, DispatchIsFresh
  <2> QED
    BY <1>1, <1>a, <1>b, <1>c, <2>1 DEF DispatchCommit, Forward, Behind, None
<1>2. CASE CallbackCommit(p)
  <2>1. o.op = "callback" /\ CasHolds(o)
    BY <1>2 DEF CallbackCommit, Commits
  <2>2. /\ WritesTask(o) /\ WritesAsg(o) /\ WritesLease(o) /\ WritesSess(o)
        /\ o.run = NoAssignment \/ WritesRun(o)
    BY <2>1 DEF WritesTask, WritesAsg, WritesLease, WritesSess, WritesRun
  <2> QED
    BY <1>2, <2>1, <2>2, PutForward DEF CallbackCommit, Forward, Mutations
<1>3. CASE FailureCommit(p)
  <2>1. o.op = "failure" /\ CasHolds(o)
    BY <1>3 DEF FailureCommit, Commits
  <2>2. /\ WritesTask(o) /\ WritesAsg(o) /\ WritesLease(o) /\ WritesSess(o)
        /\ o.run = NoAssignment \/ WritesRun(o)
    BY <2>1 DEF WritesTask, WritesAsg, WritesLease, WritesSess, WritesRun
  <2> QED
    BY <1>3, <2>1, <2>2, PutForward DEF FailureCommit, Forward, Mutations
<1>4. CASE VerifyCommit(p)
  <2>1. o.op = "verify" /\ CasHolds(o)
    BY <1>4 DEF VerifyCommit, Commits
  <2>2. /\ WritesTask(o) /\ WritesAsg(o)
        /\ o.run = NoAssignment \/ WritesRun(o)
        /\ o.seen.sess.state = "closing" => WritesSess(o)
    BY <2>1 DEF WritesTask, WritesAsg, WritesSess, WritesRun
  <2>3. \A t \in Tasks : Behind(task[t], task'[t])
    BY <1>4, <2>1, <2>2, PutForward DEF VerifyCommit, Mutations
  <2>4. \A a \in Assignments : /\ Behind(asg[a], asg'[a])
                               /\ asg[a].state # "none" => asg'[a].state # "none"
    BY <1>4, <2>1, <2>2, PutForward DEF VerifyCommit, Mutations
  <2>5. \A a \in Assignments : Behind(sess[a], sess'[a])
    <3>1. CASE o.seen.sess.state = "closing"
      BY <1>4, <2>1, <2>2, <3>1, PutForward DEF VerifyCommit, Mutations
    <3>2. CASE o.seen.sess.state # "closing"
      BY <1>4, <3>2 DEF VerifyCommit, Behind
    <3> QED
      BY <3>1, <3>2
  <2>6. \A a \in Assignments : Behind(run[a], run'[a])
    BY <1>4, <2>1, <2>2, PutForward DEF VerifyCommit, Mutations
  <2> QED
    BY <1>4, <2>3, <2>4, <2>5, <2>6 DEF VerifyCommit, Forward, Behind
<1>5. CASE HeartbeatCommit(p)
  <2>1. o.op = "heartbeat" /\ CasHolds(o)
    BY <1>5 DEF HeartbeatCommit, Commits
  <2>2. WritesLease(o) /\ WritesSess(o)
    BY <2>1 DEF WritesLease, WritesSess
  <2>3. \A a \in Assignments : Behind(lease[a], lease'[a]) /\ Behind(sess[a], sess'[a])
    BY <1>5, <2>1, <2>2, PutForward DEF HeartbeatCommit, Mutations
  <2> QED
    BY <1>5, <2>3 DEF HeartbeatCommit, Forward, Behind
<1>6. CASE CancelCommit(p)
  <2>1. o.op = "cancel" /\ CasHolds(o) /\ o.op \in Mutations
    BY <1>6 DEF CancelCommit, Commits, Mutations
  <2>2. \A a \in Assignments : /\ Behind(asg[a], asg'[a])
                               /\ asg[a].state # "none" => asg'[a].state # "none"
    BY <1>6, <2>1, PutForward DEF CancelCommit, WritesAsg
  <2>3. \A a \in Assignments : Behind(lease[a], lease'[a])
    BY <1>6, <2>1, PutForward DEF CancelCommit, Behind
  <2>4. \A a \in Assignments : Behind(sess[a], sess'[a])
    BY <1>6, <2>1, PutForward DEF CancelCommit, Behind
  <2>5. \A t \in Tasks : Behind(task[t], task'[t])
    BY <1>6, <2>1, PutForward DEF CancelCommit, Behind
  <2> QED
    BY <1>6, <2>2, <2>3, <2>4, <2>5 DEF CancelCommit, Forward, Behind
<1>7. CASE ExpireCommit(p)
  <2>1. o.op = "expire" /\ CasHolds(o) /\ o.op \in Mutations
    BY <1>7 DEF ExpireCommit, Commits, Mutations
  <2>2. WritesTask(o) /\ WritesAsg(o) /\ WritesLease(o) /\ WritesSess(o)
    BY <2>1 DEF WritesTask, WritesAsg, WritesLease, WritesSess
  <2>3. \A a \in Assignments : Behind(run[a], run'[a])
    BY <1>7, <1>a, <1>b, <1>c DEF ExpireCommit, Revised, Behind
  <2> QED
    BY <1>7, <2>1, <2>2, <2>3, PutForward DEF ExpireCommit, Forward
<1> QED
  BY <1>1, <1>2, <1>3, <1>4, <1>5, <1>6, <1>7

\* A commit writes records of its own Assignment, and of the WorkflowRun it found.
LEMMA CommitLocal ==
    ASSUME ReadInv, NEW p \in Procs,
           \/ DispatchCommit(p) \/ CallbackCommit(p) \/ FailureCommit(p)
           \/ VerifyCommit(p) \/ HeartbeatCommit(p) \/ CancelCommit(p)
           \/ ExpireCommit(p),
           NEW a \in Assignments, a # pend[p].asg
    PROVE  /\ asg'[a] = asg[a]
           /\ lease'[a] = lease[a]
           /\ sess'[a] = sess[a]
           /\ a # pend[p].run => run'[a] = run[a]
<1> DEFINE o == pend[p]
<1>1. /\ o.asg \in Assignments
      /\ o.run \in Assignments \cup {NoAssignment}
  BY PendingTypes DEF ReadInv
<1>2. /\ asg \in [Assignments -> Assignment]
      /\ lease \in [Assignments -> Lease] /\ sess \in [Assignments -> Session]
      /\ run \in [Assignments -> Run]
  BY DEF ReadInv, TypeOK
<1>3. ASSUME \/ DispatchCommit(p) \/ CallbackCommit(p) \/ FailureCommit(p)
             \/ VerifyCommit(p) \/ CancelCommit(p) \/ ExpireCommit(p)
      PROVE  asg'[a] = asg[a]
  BY <1>1, <1>2, <1>3
     DEF DispatchCommit, CallbackCommit, FailureCommit, VerifyCommit,
         CancelCommit, ExpireCommit, PutAsg
<1>4. ASSUME \/ DispatchCommit(p) \/ CallbackCommit(p) \/ FailureCommit(p)
             \/ HeartbeatCommit(p) \/ CancelCommit(p) \/ ExpireCommit(p)
      PROVE  lease'[a] = lease[a]
  BY <1>1, <1>2, <1>4
     DEF DispatchCommit, CallbackCommit, FailureCommit, HeartbeatCommit,
         CancelCommit, ExpireCommit, PutLease
<1>5. sess'[a] = sess[a]
  BY <1>1, <1>2
     DEF DispatchCommit, CallbackCommit, FailureCommit, VerifyCommit,
         HeartbeatCommit, CancelCommit, ExpireCommit, PutSess
<1>6. a # o.run => run'[a] = run[a]
  BY <1>1, <1>2
     DEF DispatchCommit, CallbackCommit, FailureCommit, VerifyCommit,
         HeartbeatCommit, CancelCommit, ExpireCommit, PutRun
<1>7. HeartbeatCommit(p) => asg'[a] = asg[a]
  BY DEF HeartbeatCommit
<1>8. VerifyCommit(p) => lease'[a] = lease[a]
  BY DEF VerifyCommit
<1> QED
  BY <1>3, <1>4, <1>5, <1>6, <1>7, <1>8

\* After a commit, an id that was not dispatched still names no record.
LEMMA CommitFresh ==
    ASSUME ReadInv, TypeOK', NEW p \in Procs,
           \/ DispatchCommit(p) \/ CallbackCommit(p) \/ FailureCommit(p)
           \/ VerifyCommit(p) \/ HeartbeatCommit(p) \/ CancelCommit(p)
           \/ ExpireCommit(p)
    PROVE  Fresh'
<1> SUFFICES ASSUME NEW a \in Assignments, asg'[a].state = "none"
             PROVE  asg'[a].rev = 0 /\ lease'[a] = None /\ sess'[a] = None
                    /\ run'[a] = None
  BY DEF Fresh
<1>1. asg[a].state = "none"
  BY CommitForward DEF Forward
<1>2. /\ pend[p].op \in Mutations
      /\ pend[p].op = "dispatch" => DispatchCommit(p)
  BY DEF DispatchCommit, CallbackCommit, FailureCommit, VerifyCommit,
         HeartbeatCommit, CancelCommit, ExpireCommit, Commits, Mutations
<1>3. a # pend[p].asg
  <2>1. CASE pend[p].op = "dispatch"
    <3>1. asg' = [asg EXCEPT ![pend[p].asg] =
                    [state |-> "running", task |-> pend[p].task,
                     agent |-> pend[p].by, rev |-> 3]]
      BY <1>2, <2>1 DEF DispatchCommit
    <3> QED
      BY <3>1 DEF ReadInv, TypeOK
  <2>2. CASE pend[p].op # "dispatch"
    BY <1>1, <1>2, <2>2 DEF ReadInv, Existing
  <2> QED
    BY <2>1, <2>2
<1>4. a # pend[p].run
  BY <1>1, <1>2, NoAssignmentAssumption DEF ReadInv, Existing
<1>5. asg'[a] = asg[a] /\ lease'[a] = lease[a] /\ sess'[a] = sess[a] /\ run'[a] = run[a]
  BY <1>3, <1>4, CommitLocal
<1> QED
  BY <1>1, <1>5 DEF ReadInv, Fresh

\* ReadInv is inductive.
LEMMA ReadInvStep ==
    ASSUME ReadInv, [Next]_vars
    PROVE  ReadInv'
<1>1. TypeOK'
  BY TypeStep DEF ReadInv
<1>2. ASSUME NEW p \in Procs,
             \/ DispatchCommit(p) \/ CallbackCommit(p) \/ FailureCommit(p)
             \/ VerifyCommit(p) \/ HeartbeatCommit(p) \/ CancelCommit(p)
             \/ ExpireCommit(p)
      PROVE  ReadInv'
  <2>1. Forward /\ Fresh'
    BY <1>1, <1>2, CommitForward, CommitFresh
  <2>2. Stop(p)
    BY <1>2 DEF DispatchCommit, CallbackCommit, FailureCommit, VerifyCommit,
                HeartbeatCommit, CancelCommit, ExpireCommit, Commits
  <2>3. \A q \in Procs : pend'[q] = pend[q] \/ pend'[q].op \notin Mutations
    BY <2>2 DEF Stop, Idle, Waiting, Mutations, ReadInv, TypeOK
  <2> QED
    BY <1>1, <2>1, <2>3, StopKeeps
<1>3. ASSUME UNCHANGED records,
             \A q \in Procs : pend'[q] = pend[q] \/ pend'[q].op \notin Mutations
      PROVE  ReadInv'
  <2>1. Forward /\ Fresh'
    BY <1>3 DEF records, Forward, Behind, Fresh, ReadInv
  <2> QED
    BY <1>1, <1>3, <2>1, StopKeeps
<1>4. ASSUME NEW p \in Procs,
             \/ ExpireRefused(p) \/ Conflict(p) \/ Crash(p)
             \/ \E a \in Assignments : ObserveElapsed(p, a)
             \/ \E k \in EffectKinds, a \in Assignments : EffectCheck(p, k, a)
             \/ EffectReserve(p) \/ EffectDone(p)
      PROVE  ReadInv'
  <2>1. UNCHANGED records
    BY <1>4 DEF ExpireRefused, Conflict, Crash, ObserveElapsed, EffectCheck,
                EffectReserve, EffectDone, NothingStored
  <2>2. \/ Stop(p)
        \/ \E o \in {"expiring", "reserve", "execute"} : \E k, a : Await(p, o, k, a)
    BY <1>4 DEF ExpireRefused, Conflict, Crash, ObserveElapsed, EffectCheck,
                EffectReserve, EffectDone
  <2>3. \A q \in Procs : pend'[q] = pend[q] \/ pend'[q].op \notin Mutations
    BY <2>2 DEF Stop, Await, Idle, Waiting, Mutations, ReadInv, TypeOK
  <2> QED
    BY <1>3, <2>1, <2>3
<1>5. ASSUME NEW p \in Procs, NEW a \in Assignments, NEW t \in Tasks,
             NEW g \in Agents, DispatchRead(p, a, t, g)
      PROVE  ReadInv'
  <2>1. /\ Prepare(p, "dispatch", a, t, g, FALSE, NoAssignment)
        /\ NothingStored /\ asg[a].state = "none"
    BY <1>5 DEF DispatchRead
  <2> QED
    BY <1>1, <2>1, PrepareKeeps DEF Mutations
<1>6. ASSUME NEW p \in Procs, NEW a \in Assignments,
             HeartbeatRead(p, a) \/ CancelRead(p, a) \/ ExpireRead(p, a)
      PROVE  ReadInv'
  <2>1. PICK o \in {"heartbeat", "cancel", "expire"} :
          Prepare(p, o, a, asg[a].task, asg[a].agent, FALSE, NoAssignment)
    BY <1>6 DEF HeartbeatRead, CancelRead, ExpireRead
  <2>2. NothingStored
    BY <1>6 DEF HeartbeatRead, CancelRead, ExpireRead
  <2>3. asg[a].state # "none"
    <3>1. LeaseIsLive(a) => asg[a].state # "none"
      BY DEF ReadInv, Fresh, None, LeaseIsLive, LiveLease
    <3> QED
      BY <1>6, <3>1 DEF HeartbeatRead, CancelRead, ExpireRead
  <2>4. asg[a].task \in Tasks
    BY DEF ReadInv, TypeOK, Assignment
  <2> QED
    BY <1>1, <2>1, <2>2, <2>3, <2>4, PrepareKeeps DEF Mutations
<1>7. ASSUME NEW t \in Tasks, NEW a \in Assignments,
             RunFound(t, a) # NoAssignment
      PROVE  asg[RunFound(t, a)].state # "none"
  BY <1>7 DEF RunFound, Of
<1>8. ASSUME NEW p \in Procs, NEW a \in Assignments,
             NEW o \in {"callback", "failure"}, ReportRead(p, o, a)
      PROVE  ReadInv'
  <2>1. /\ Prepare(p, o, a, asg[a].task, asg[a].agent, FALSE,
                   RunFound(asg[a].task, a))
        /\ NothingStored /\ asg[a].state # "none"
    BY <1>8 DEF ReportRead, ExecutionIsLive
  <2>2. asg[a].task \in Tasks
    BY DEF ReadInv, TypeOK, Assignment
  <2> QED
    BY <1>1, <1>7, <2>1, <2>2, RunFoundType, PrepareKeeps DEF Mutations
<1>9. ASSUME NEW p \in Procs, NEW t \in Tasks, NEW a \in Assignments,
             NEW by \in Actors, NEW passed \in BOOLEAN,
             VerifyRead(p, t, a, by, passed)
      PROVE  ReadInv'
  <2>1. /\ Prepare(p, "verify", a, t, by, passed, RunFound(t, a))
        /\ NothingStored /\ asg[a].state # "none"
    BY <1>9 DEF VerifyRead
  <2> QED
    BY <1>1, <1>7, <2>1, RunFoundType, PrepareKeeps DEF Mutations
<1>10. ASSUME \/ \E a \in Assignments : Elapse(a)
              \/ \E k \in EffectKinds, a \in Assignments : EffectReconcile(k, a)
              \/ UNCHANGED vars
       PROVE  ReadInv'
  <2>1. UNCHANGED records /\ UNCHANGED pend
    BY <1>10 DEF Elapse, EffectReconcile, vars, records
  <2> QED
    BY <1>3, <2>1
<1> QED
  BY <1>2, <1>4, <1>5, <1>6, <1>8, <1>9, <1>10 DEF Next, ProcNext

\* ReadInv holds of every behaviour.
THEOREM ReadsHold == Spec => []ReadInv
<1>1. Init => ReadInv
  <2> SUFFICES ASSUME Init
               PROVE  ReadInv
    OBVIOUS
  <2>1. TypeOK
    BY DefaultTypes DEF Init, TypeOK
  <2>2. Fresh
    BY DEF Init, Fresh, NoneAsg
  <2>3. Existing /\ SnapshotFaithful
    BY DEF Init, Existing, SnapshotFaithful, Idle, Waiting, Mutations
  <2> QED
    BY <2>1, <2>2, <2>3 DEF ReadInv
<1>2. ReadInv /\ [Next]_vars => ReadInv'
  BY ReadInvStep
<1> QED
  BY <1>1, <1>2, PTL DEF Spec

\* Compare-and-set on revisions is sound: whatever an operation has read, and
\* whatever other processes have committed since, a record that still has the
\* revision that was read has the content that was read.
THEOREM SnapshotSafe == Spec => []SnapshotFaithful
<1>1. ReadInv => SnapshotFaithful
  BY DEF ReadInv
<1> QED
  BY <1>1, ReadsHold, PTL

-----------------------------------------------------------------------------
(* The external-effect fence.                                              *)

\* A step that runs no external process and leaves the journal keeps the fence.
LEMMA FenceKeeps ==
    ASSUME TypeOK, RunsUnderEntry, UNCHANGED effect,
           \A q \in Procs : pend'[q] = pend[q] \/ pend'[q].op # "execute"
    PROVE  RunsUnderEntry'
BY DEF RunsUnderEntry

\* The fence is inductive.
LEMMA FenceStep ==
    ASSUME TypeOK, RunsUnderEntry, [Next]_vars
    PROVE  RunsUnderEntry'
<1>1. ASSUME NEW p \in Procs, NEW x, pend' = [pend EXCEPT ![p] = x],
             x.op # "execute", UNCHANGED effect
      PROVE  RunsUnderEntry'
  BY <1>1, FenceKeeps DEF TypeOK
<1>2. Idle.op # "execute"
  BY DEF Idle, Waiting
<1>3. ASSUME NEW p \in Procs, Stop(p), UNCHANGED effect
      PROVE  RunsUnderEntry'
  BY <1>1, <1>2, <1>3 DEF Stop
<1>4. ASSUME NEW p \in Procs,
             \/ DispatchCommit(p) \/ CallbackCommit(p) \/ FailureCommit(p)
             \/ VerifyCommit(p) \/ HeartbeatCommit(p) \/ CancelCommit(p)
             \/ ExpireCommit(p) \/ ExpireRefused(p) \/ Conflict(p) \/ Crash(p)
      PROVE  RunsUnderEntry'
  <2>1. Stop(p) /\ UNCHANGED effect
    BY <1>4 DEF DispatchCommit, CallbackCommit, FailureCommit, VerifyCommit,
                HeartbeatCommit, CancelCommit, ExpireCommit, ExpireRefused,
                Conflict, Crash, Commits, NothingStored
  <2> QED
    BY <1>3, <2>1
<1>5. ASSUME NEW p \in Procs, NEW o, NEW a, NEW t, NEW by, NEW passed, NEW r,
             Prepare(p, o, a, t, by, passed, r), o # "execute", NothingStored
      PROVE  RunsUnderEntry'
  <2>1. pend'[p].op = o /\ \A q \in Procs \ {p} : pend'[q] = pend[q]
    BY <1>5 DEF Prepare, TypeOK
  <2>2. UNCHANGED effect
    BY <1>5 DEF NothingStored
  <2> QED
    BY <1>5, <2>1, <2>2, FenceKeeps
<1>6. ASSUME NEW p \in Procs, NEW a \in Assignments, NEW t \in Tasks,
             NEW g \in Agents, DispatchRead(p, a, t, g)
      PROVE  RunsUnderEntry'
  BY <1>5, <1>6 DEF DispatchRead
<1>7. ASSUME NEW p \in Procs, NEW a \in Assignments,
             HeartbeatRead(p, a) \/ CancelRead(p, a) \/ ExpireRead(p, a)
      PROVE  RunsUnderEntry'
  BY <1>5, <1>7 DEF HeartbeatRead, CancelRead, ExpireRead
<1>8. ASSUME NEW p \in Procs, NEW a \in Assignments,
             NEW o \in {"callback", "failure"}, ReportRead(p, o, a)
      PROVE  RunsUnderEntry'
  BY <1>5, <1>8 DEF ReportRead
<1>9. ASSUME NEW p \in Procs, NEW t \in Tasks, NEW a \in Assignments,
             NEW by \in Actors, NEW passed \in BOOLEAN,
             VerifyRead(p, t, a, by, passed)
      PROVE  RunsUnderEntry'
  BY <1>5, <1>9 DEF VerifyRead
<1>10. ASSUME NEW p \in Procs, NEW o, NEW k, NEW a, Await(p, o, k, a),
              o # "execute", UNCHANGED effect
       PROVE  RunsUnderEntry'
  <2>1. pend'[p].op = o /\ \A q \in Procs \ {p} : pend'[q] = pend[q]
    BY <1>10 DEF Await, Waiting, TypeOK
  <2> QED
    BY <1>10, <2>1, FenceKeeps
<1>11. ASSUME NEW p \in Procs, NEW a \in Assignments, ObserveElapsed(p, a)
       PROVE  RunsUnderEntry'
  BY <1>10, <1>11 DEF ObserveElapsed, NothingStored
<1>12. ASSUME NEW p \in Procs, NEW k \in EffectKinds, NEW a \in Assignments,
              EffectCheck(p, k, a)
       PROVE  RunsUnderEntry'
  BY <1>10, <1>12 DEF EffectCheck, NothingStored
<1>13. ASSUME NEW p \in Procs, EffectReserve(p)
       PROVE  RunsUnderEntry'
  <2> DEFINE o == pend[p]
  <2>1. CASE effect[o.kind][o.asg] # "none"
    BY <1>3, <1>13, <2>1 DEF EffectReserve
  <2>2. CASE effect[o.kind][o.asg] = "none"
    <3>1. /\ effect' = [effect EXCEPT ![o.kind][o.asg] = "pending"]
          /\ pend' = [pend EXCEPT ![p] = Waiting("execute", o.kind, o.asg)]
      BY <1>13, <2>2 DEF EffectReserve, Await
    <3>2. \A q \in Procs : /\ pend[q].kind \in EffectKinds
                           /\ pend[q].asg \in Assignments
      BY PendingTypes
    <3>3. /\ pend'[p].op = "execute" /\ pend'[p].kind = o.kind /\ pend'[p].asg = o.asg
          /\ \A q \in Procs \ {p} : pend'[q] = pend[q]
      BY <3>1 DEF Waiting, TypeOK
    <3>4. \A k \in EffectKinds, a \in Assignments :
            /\ (k = o.kind /\ a = o.asg) => effect'[k][a] = "pending"
            /\ ~(k = o.kind /\ a = o.asg) => effect'[k][a] = effect[k][a]
      BY <3>1, <3>2 DEF TypeOK
    <3>5. \A q \in Procs \ {p} : pend[q].op = "execute" =>
            ~(pend[q].kind = o.kind /\ pend[q].asg = o.asg)
      BY <2>2 DEF RunsUnderEntry
    <3> QED
      BY <3>2, <3>3, <3>4, <3>5 DEF RunsUnderEntry
  <2> QED
    BY <2>1, <2>2
<1>14. ASSUME NEW p \in Procs, EffectDone(p)
       PROVE  RunsUnderEntry'
  <2> DEFINE o == pend[p]
  <2>1. /\ o.op = "execute" /\ pend' = [pend EXCEPT ![p] = Idle]
        /\ effect' = [effect EXCEPT ![o.kind][o.asg] =
                        IF @ = "pending" THEN "succeeded" ELSE @]
    BY <1>14 DEF EffectDone, Stop
  <2>2. \A q \in Procs : /\ pend[q].kind \in EffectKinds
                         /\ pend[q].asg \in Assignments
    BY PendingTypes
  <2>3. \A q \in Procs \ {p} : pend'[q] = pend[q]
    BY <2>1 DEF TypeOK
  <2>4. pend'[p].op # "execute"
    BY <1>2, <2>1 DEF TypeOK
  <2>5. \A k \in EffectKinds, a \in Assignments :
          ~(k = o.kind /\ a = o.asg) => effect'[k][a] = effect[k][a]
    BY <2>1, <2>2 DEF TypeOK
  <2> QED
    BY <2>1, <2>2, <2>3, <2>4, <2>5 DEF RunsUnderEntry
<1>15. ASSUME NEW k \in EffectKinds, NEW a \in Assignments, EffectReconcile(k, a)
       PROVE  RunsUnderEntry'
  <2>1. \A j \in EffectKinds, b \in Assignments :
          ~(j = k /\ b = a) => effect'[j][b] = effect[j][b]
    BY <1>15 DEF EffectReconcile, TypeOK
  <2>2. \A q \in Procs : /\ pend[q].kind \in EffectKinds
                         /\ pend[q].asg \in Assignments
    BY PendingTypes
  <2> QED
    BY <1>15, <2>1, <2>2 DEF EffectReconcile, RunsUnderEntry
<1>16. ASSUME UNCHANGED vars \/ \E a \in Assignments : Elapse(a)
       PROVE  RunsUnderEntry'
  BY <1>16 DEF vars, Elapse, RunsUnderEntry
<1> QED
  BY <1>4, <1>6, <1>7, <1>8, <1>9, <1>11, <1>12, <1>13, <1>14, <1>15, <1>16
     DEF Next, ProcNext

\* RunsUnderEntry is an invariant.
THEOREM FenceHolds == Spec => []RunsUnderEntry
<1>1. Init => RunsUnderEntry
  BY DEF Init, RunsUnderEntry, Idle, Waiting
<1>2. TypeOK /\ RunsUnderEntry /\ [Next]_vars => RunsUnderEntry'
  BY FenceStep
<1> QED
  BY <1>1, <1>2, TypeCorrect, PTL DEF Spec

\* The journal entry of an effect does not go back, and only a reservation makes one.
LEMMA JournalStep ==
    ASSUME TypeOK, [Next]_vars, NEW k \in EffectKinds, NEW a \in Assignments
    PROVE  /\ effect[k][a] # "none" => effect'[k][a] # "none"
           /\ effect[k][a] \in {"succeeded", "failed"} => effect'[k][a] = effect[k][a]
<1>1. ASSUME NEW p \in Procs, EffectReserve(p)
      PROVE  effect[k][a] # "none" => effect'[k][a] = effect[k][a]
  <2>1. CASE effect[pend[p].kind][pend[p].asg] = "none"
    <3>1. effect' = [effect EXCEPT ![pend[p].kind][pend[p].asg] = "pending"]
      BY <1>1, <2>1 DEF EffectReserve
    <3> QED
      BY <2>1, <3>1, PendingTypes DEF TypeOK
  <2>2. CASE effect[pend[p].kind][pend[p].asg] # "none"
    BY <1>1, <2>2 DEF EffectReserve
  <2> QED
    BY <2>1, <2>2
<1>2. ASSUME NEW p \in Procs, EffectDone(p)
      PROVE  \/ effect'[k][a] = effect[k][a]
             \/ effect[k][a] = "pending" /\ effect'[k][a] = "succeeded"
  BY <1>2, PendingTypes DEF EffectDone, TypeOK
<1>3. ASSUME NEW j \in EffectKinds, NEW b \in Assignments, EffectReconcile(j, b)
      PROVE  \/ effect'[k][a] = effect[k][a]
             \/ effect[k][a] = "pending" /\ effect'[k][a] = "failed"
  BY <1>3 DEF EffectReconcile, TypeOK
<1>4. ASSUME NEW p \in Procs,
             \/ \E b \in Assignments, t \in Tasks, g \in Agents : DispatchRead(p, b, t, g)
             \/ \E b \in Assignments, o \in {"callback", "failure"} : ReportRead(p, o, b)
             \/ \E t \in Tasks, b \in Assignments, by \in Actors, passed \in BOOLEAN :
                   VerifyRead(p, t, b, by, passed)
             \/ \E b \in Assignments : \/ HeartbeatRead(p, b) \/ CancelRead(p, b)
                                      \/ ExpireRead(p, b) \/ ObserveElapsed(p, b)
             \/ \E j \in EffectKinds, b \in Assignments : EffectCheck(p, j, b)
             \/ DispatchCommit(p) \/ CallbackCommit(p) \/ FailureCommit(p)
             \/ VerifyCommit(p) \/ HeartbeatCommit(p) \/ CancelCommit(p)
             \/ ExpireCommit(p) \/ ExpireRefused(p) \/ Conflict(p) \/ Crash(p)
      PROVE  UNCHANGED effect
  BY <1>4 DEF DispatchRead, ReportRead, VerifyRead, HeartbeatRead, CancelRead, ExpireRead,
              ObserveElapsed, EffectCheck, DispatchCommit, CallbackCommit, FailureCommit,
              VerifyCommit, HeartbeatCommit, CancelCommit, ExpireCommit, ExpireRefused,
              Conflict, Crash, NothingStored
<1>5. ASSUME UNCHANGED vars \/ \E b \in Assignments : Elapse(b)
      PROVE  UNCHANGED effect
  BY <1>5 DEF vars, Elapse
<1> QED
  BY <1>1, <1>2, <1>3, <1>4, <1>5 DEF Next, ProcNext

\* A process comes to run an external process only by reserving it.
LEMMA ExecutesByReserving ==
    ASSUME TypeOK, [Next]_vars, NEW q \in Procs,
           NEW k \in EffectKinds, NEW a \in Assignments, Executes(q, k, a)'
    PROVE  Executes(q, k, a) \/ effect[k][a] = "none"
<1>1. ASSUME NEW p \in Procs, NEW x, pend' = [pend EXCEPT ![p] = x], x.op # "execute"
      PROVE  Executes(q, k, a)
  BY <1>1 DEF Executes, TypeOK
<1>2. ASSUME NEW p \in Procs, EffectReserve(p), effect[k][a] # "none"
      PROVE  Executes(q, k, a)
  <2>1. CASE effect[pend[p].kind][pend[p].asg] = "none"
    <3>1. pend' = [pend EXCEPT ![p] = Waiting("execute", pend[p].kind, pend[p].asg)]
      BY <1>2, <2>1 DEF EffectReserve, Await
    <3> QED
      BY <1>2, <2>1, <3>1 DEF Executes, Waiting, TypeOK
  <2>2. CASE effect[pend[p].kind][pend[p].asg] # "none"
    BY <1>1, <1>2, <2>2 DEF EffectReserve, Stop, Idle, Waiting
  <2> QED
    BY <2>1, <2>2
<1>3. ASSUME NEW p \in Procs, Stop(p)
      PROVE  Executes(q, k, a)
  <2>1. Idle.op # "execute"
    BY DEF Idle, Waiting
  <2> QED
    BY <1>1, <1>3, <2>1 DEF Stop
<1>4. ASSUME NEW p \in Procs, NEW o, NEW b, NEW t, NEW by, NEW passed, NEW r,
             Prepare(p, o, b, t, by, passed, r), o # "execute"
      PROVE  Executes(q, k, a)
  <2>1. pend'[p].op = o /\ \A x \in Procs \ {p} : pend'[x] = pend[x]
    BY <1>4 DEF Prepare, TypeOK
  <2> QED
    BY <1>4, <2>1 DEF Executes
<1>5. ASSUME NEW p \in Procs, NEW o, NEW j, NEW b, Await(p, o, j, b), o # "execute"
      PROVE  Executes(q, k, a)
  <2>1. Waiting(o, j, b).op # "execute"
    BY <1>5 DEF Waiting
  <2> QED
    BY <1>1, <1>5, <2>1 DEF Await
<1>6. ASSUME NEW p \in Procs,
             \/ DispatchCommit(p) \/ CallbackCommit(p) \/ FailureCommit(p)
             \/ VerifyCommit(p) \/ HeartbeatCommit(p) \/ CancelCommit(p)
             \/ ExpireCommit(p) \/ ExpireRefused(p) \/ Conflict(p) \/ Crash(p)
             \/ EffectDone(p)
      PROVE  Executes(q, k, a)
  BY <1>3, <1>6 DEF DispatchCommit, CallbackCommit, FailureCommit, VerifyCommit,
                    HeartbeatCommit, CancelCommit, ExpireCommit, ExpireRefused,
                    Conflict, Crash, Commits, EffectDone
<1>7. ASSUME NEW p \in Procs, NEW b \in Assignments, NEW t \in Tasks,
             NEW g \in Agents, DispatchRead(p, b, t, g)
      PROVE  Executes(q, k, a)
  BY <1>4, <1>7 DEF DispatchRead
<1>8. ASSUME NEW p \in Procs, NEW b \in Assignments,
             \/ \E o \in {"callback", "failure"} : ReportRead(p, o, b)
             \/ HeartbeatRead(p, b) \/ CancelRead(p, b) \/ ExpireRead(p, b)
      PROVE  Executes(q, k, a)
  BY <1>4, <1>8 DEF ReportRead, HeartbeatRead, CancelRead, ExpireRead
<1>9. ASSUME NEW p \in Procs, NEW t \in Tasks, NEW b \in Assignments,
             NEW by \in Actors, NEW passed \in BOOLEAN, VerifyRead(p, t, b, by, passed)
      PROVE  Executes(q, k, a)
  BY <1>4, <1>9 DEF VerifyRead
<1>10. ASSUME NEW p \in Procs, NEW b \in Assignments,
              ObserveElapsed(p, b) \/ \E j \in EffectKinds : EffectCheck(p, j, b)
       PROVE  Executes(q, k, a)
  BY <1>5, <1>10 DEF ObserveElapsed, EffectCheck
<1>11. ASSUME \/ UNCHANGED vars \/ \E b \in Assignments : Elapse(b)
              \/ \E j \in EffectKinds, b \in Assignments : EffectReconcile(j, b)
       PROVE  Executes(q, k, a)
  BY <1>11 DEF vars, Elapse, EffectReconcile, Executes
<1> QED
  BY <1>2, <1>6, <1>7, <1>8, <1>9, <1>10, <1>11 DEF Next, ProcNext

\* For any number of processes, kills, restarts and recoveries, the external process of
\* an effect is started at most once: only where no entry is, in one process, and an
\* entry, pending or terminal, is never removed.
THEOREM FenceSafe == Spec => EffectRunsOnce
<1>1. TypeOK /\ TypeOK' /\ RunsUnderEntry' /\ [Next]_vars => StartsOnce
  <2> SUFFICES ASSUME TypeOK, TypeOK', RunsUnderEntry', [Next]_vars,
                      NEW k \in EffectKinds, NEW a \in Assignments
               PROVE  /\ effect[k][a] # "none" =>
                            /\ effect'[k][a] # "none"
                            /\ \A p \in Procs : Executes(p, k, a)' => Executes(p, k, a)
                      /\ effect[k][a] \in {"succeeded", "failed"} =>
                            effect'[k][a] = effect[k][a]
                      /\ \A p, q \in Procs : Executes(p, k, a)' /\ Executes(q, k, a)' =>
                            p = q /\ effect'[k][a] # "none"
    BY DEF StartsOnce
  <2>1. \A p, q \in Procs : Executes(p, k, a)' /\ Executes(q, k, a)' =>
            p = q /\ effect'[k][a] = "pending"
    BY DEF RunsUnderEntry, Executes
  <2> QED
    BY <2>1, JournalStep, ExecutesByReserving
<1> QED
  BY <1>1, FenceHolds, TypeCorrect, PTL DEF Spec, EffectRunsOnce

-----------------------------------------------------------------------------
(* The lane of a Task: LaneInv is inductive when verify is given the        *)
(* Assignment of the Task it is given.                                      *)

\* The parts of LaneInv that are about records.
Lane == OneLiveLane /\ PhaseAgreement

\* Records that do not change keep what is said of them.
LEMMA LaneStutters ==
    ASSUME Lane, UNCHANGED <<task, asg, lease, sess, run>>
    PROVE  Lane'
BY DEF Lane, OneLiveLane, PhaseAgreement, AsgAgrees, TaskAgrees,
       Of, IsLive, LeaseIsLive

\* A live Assignment is left for a later state, with its Task.
LEMMA LaneMoves ==
    ASSUME TypeOK, TypeOK', Lane, NEW a \in Assignments, IsLive(a),
           NEW t \in Tasks, asg[a].task = t,
           NEW r, r.task = t, r.agent = asg[a].agent,
           r.state \in {"submitted"} \cup TerminalAssignment,
           NEW k, task' = [task EXCEPT ![t] = k], TaskAgrees(t)',
           asg' = [asg EXCEPT ![a] = r],
           \A b \in Assignments \ {a} :
               lease'[b] = lease[b] /\ sess'[b] = sess[b] /\ run'[b] = run[b],
           AsgAgrees(a)'
    PROVE  Lane'
<1>1. /\ t \in Tasks /\ asg'[a] = r /\ task'[t] = k
      /\ \A b \in Assignments \ {a} : asg'[b] = asg[b]
      /\ \A u \in Tasks \ {t} : task'[u] = task[u]
  BY DEF TypeOK, Assignment
<1>2. asg[a].state # "none" /\ r.state # "none" /\ asg[a].state # "closed"
  BY DEF IsLive, LiveAssignment, TerminalAssignment
<1>3. \A b \in Assignments \ {a} : asg[b].state # "none" /\ IsLive(b) => asg[b].task # t
  BY <1>2 DEF Lane, OneLiveLane
<1>4. \A b \in Assignments : LeaseIsLive(b)' /\ asg'[b].state # "none" => asg'[b].state = "running"
  <2> SUFFICES ASSUME NEW b \in Assignments, LeaseIsLive(b)', asg'[b].state # "none"
               PROVE  asg'[b].state = "running"
    OBVIOUS
  <2>1. asg'[b].state \in {"running", "submitted"} \cup TerminalAssignment
    BY DEF TypeOK, Assignment, LiveAssignment
  <2>2. CASE b = a
    BY <2>1, <2>2, <1>1 DEF AsgAgrees, LeaseIsLive, LiveLease
  <2>3. CASE b # a
    <3>1. LeaseIsLive(b) /\ AsgAgrees(b)
      BY <2>3 DEF LeaseIsLive, Lane, PhaseAgreement
    <3> QED
      BY <2>1, <2>3, <3>1, <1>1 DEF AsgAgrees, LeaseIsLive, LiveLease
  <2> QED
    BY <2>2, <2>3
<1>5. OneLiveLane'
  <2> SUFFICES ASSUME NEW b \in Assignments, NEW c \in Assignments,
                      asg'[b].state # "none", asg'[c].state # "none",
                      asg'[b].task = asg'[c].task, IsLive(b)', IsLive(c)'
               PROVE  b = c
    BY <1>4 DEF OneLiveLane, IsLive, LiveAssignment
  <2>1. asg'[b].task = asg[b].task /\ asg'[c].task = asg[c].task
    BY <1>1
  <2>2. IsLive(b) /\ IsLive(c)
    BY <1>1 DEF IsLive
  <2>3. asg[b].state # "none" /\ asg[c].state # "none"
    BY <2>2 DEF IsLive, LiveAssignment
  <2> QED
    BY <2>1, <2>2, <2>3 DEF Lane, OneLiveLane
<1>6. ASSUME NEW b \in Assignments
      PROVE  AsgAgrees(b)'
  <2>1. CASE b = a
    BY <2>1
  <2>2. CASE b # a
    <3>1. AsgAgrees(b)
      BY DEF Lane, PhaseAgreement
    <3>2. /\ asg'[b] = asg[b] /\ lease'[b] = lease[b] /\ sess'[b] = sess[b]
          /\ run'[b] = run[b]
      BY <1>1, <2>2
    <3>3. IsLive(b) => task'[asg[b].task] = task[asg[b].task]
      <4>1. asg[b].task \in Tasks
        BY DEF TypeOK, Assignment
      <4>2. IsLive(b) => asg[b].task # t
        BY <1>3, <2>2 DEF IsLive, LiveAssignment
      <4> QED
        BY <1>1, <4>1, <4>2
    <3> QED
      BY <3>1, <3>2, <3>3 DEF AsgAgrees, LeaseIsLive, IsLive, LiveAssignment
  <2> QED
    BY <2>1, <2>2
<1>7. ASSUME NEW u \in Tasks
      PROVE  TaskAgrees(u)'
  <2>1. CASE u = t
    BY <2>1
  <2>2. CASE u # t
    <3>1. \A b \in Of(u) : b # a /\ b \in Assignments /\ b \in Of(u)' /\ asg'[b] = asg[b]
      BY <1>1, <2>2 DEF Of
    <3>2. task'[u] = task[u] /\ TaskAgrees(u)
      BY <1>1, <2>2 DEF Lane, PhaseAgreement
    <3> QED
      BY <3>1, <3>2 DEF TaskAgrees
  <2> QED
    BY <2>1, <2>2
<1> QED
  BY <1>5, <1>6, <1>7 DEF Lane, PhaseAgreement

\* A new Assignment of a Task that nobody works on is the only live one of it.
LEMMA LaneOpens ==
    ASSUME TypeOK, TypeOK', Lane, NEW a \in Assignments, asg[a].state = "none",
           NEW t \in Tasks, task[t].phase \in {"backlog", "blocked"},
           NEW r, r.state = "running", r.task = t,
           NEW k, k.phase = "inProgress",
           task' = [task EXCEPT ![t] = k],
           asg' = [asg EXCEPT ![a] = r],
           \A b \in Assignments \ {a} :
               lease'[b] = lease[b] /\ sess'[b] = sess[b] /\ run'[b] = run[b],
           AsgAgrees(a)'
    PROVE  Lane'
<1>1. /\ asg'[a] = r /\ task'[t] = k
      /\ \A b \in Assignments \ {a} : asg'[b] = asg[b]
      /\ \A u \in Tasks \ {t} : task'[u] = task[u]
  BY DEF TypeOK
<1>2. \A b \in Assignments : asg[b].task = t => ~IsLive(b)
  BY DEF Lane, PhaseAgreement, AsgAgrees, IsLive, LiveAssignment
<1>3. \A b \in Assignments : asg[b].state # "none" /\ LeaseIsLive(b) => IsLive(b)
  BY DEF Lane, PhaseAgreement, AsgAgrees, IsLive, LiveAssignment, TypeOK, Assignment
<1>4. \A b \in Assignments \ {a} : asg'[b].state # "none" /\ asg'[b].task = t =>
          ~IsLive(b)' /\ ~LeaseIsLive(b)'
  BY <1>1, <1>2, <1>3 DEF IsLive, LeaseIsLive
<1>5. OneLiveLane'
  <2> SUFFICES ASSUME NEW b \in Assignments, NEW c \in Assignments,
                      asg'[b].state # "none", asg'[c].state # "none",
                      asg'[b].task = asg'[c].task,
                      \/ IsLive(b)' /\ IsLive(c)'
                      \/ LeaseIsLive(b)' /\ LeaseIsLive(c)'
               PROVE  b = c
    BY DEF OneLiveLane
  <2>1. CASE asg'[b].task = t
    BY <1>4, <2>1
  <2>2. CASE asg'[b].task # t
    <3>1. b # a /\ c # a
      BY <1>1, <2>2
    <3>2. /\ asg[b].state # "none" /\ asg[c].state # "none"
          /\ asg[b].task = asg[c].task
          /\ \/ IsLive(b) /\ IsLive(c)
             \/ LeaseIsLive(b) /\ LeaseIsLive(c)
      BY <1>1, <3>1 DEF IsLive, LeaseIsLive
    <3> QED
      BY <3>2 DEF Lane, OneLiveLane
  <2> QED
    BY <2>1, <2>2
<1>6. ASSUME NEW b \in Assignments
      PROVE  AsgAgrees(b)'
  <2>1. CASE b = a
    BY <2>1
  <2>2. CASE b # a
    <3>1. /\ asg'[b] = asg[b] /\ lease'[b] = lease[b] /\ sess'[b] = sess[b]
          /\ run'[b] = run[b]
      BY <1>1, <2>2
    <3>2. IsLive(b) => task'[asg[b].task] = task[asg[b].task]
      BY <1>1, <1>2 DEF TypeOK, Assignment
    <3>3. AsgAgrees(b)
      BY DEF Lane, PhaseAgreement
    <3> QED
      BY <3>1, <3>2, <3>3 DEF AsgAgrees, LeaseIsLive, IsLive, LiveAssignment
  <2> QED
    BY <2>1, <2>2
<1>7. ASSUME NEW u \in Tasks
      PROVE  TaskAgrees(u)'
  <2>1. CASE u = t
    BY <1>1, <2>1 DEF TaskAgrees, Of
  <2>2. CASE u # t
    <3>1. \A b \in Of(u) : b # a /\ b \in Of(u)' /\ asg'[b] = asg[b]
      BY <1>1 DEF Of
    <3>2. task'[u] = task[u] /\ TaskAgrees(u)
      BY <1>1, <2>2 DEF Lane, PhaseAgreement
    <3> QED
      BY <3>1, <3>2 DEF TaskAgrees
  <2> QED
    BY <2>1, <2>2
<1> QED
  BY <1>5, <1>6, <1>7 DEF Lane, PhaseAgreement

\* Records that keep their states keep what is said of them.
LEMMA LaneRenews ==
    ASSUME Lane, UNCHANGED <<task, asg, run>>,
           \A b \in Assignments :
               /\ LeaseIsLive(b)' <=> LeaseIsLive(b)
               /\ lease[b].state = "released" => lease'[b] = lease[b]
               /\ sess'[b].state = sess[b].state
    PROVE  Lane'
<1>1. OneLiveLane'
  BY DEF Lane, OneLiveLane, IsLive
<1>2. \A b \in Assignments : AsgAgrees(b)'
  BY DEF Lane, PhaseAgreement, AsgAgrees
<1>3. \A t \in Tasks : TaskAgrees(t)'
  BY DEF Lane, PhaseAgreement, TaskAgrees, Of
<1> QED
  BY <1>1, <1>2, <1>3 DEF Lane, PhaseAgreement

\* What a committing operation replaces is what it has read, and its guards were
\* about that.
LEMMA CommitReplaces ==
    ASSUME ReadInv, NEW p \in Procs, Guarded(pend[p]),
           pend[p].op \in {"callback", "failure", "verify", "cancel", "expire"},
           CasHolds(pend[p]), Lane
    PROVE  LET o == pend[p]
               a == o.asg IN
           /\ a \in Assignments
           /\ asg[a] = o.seen.asg /\ task[o.task] = o.seen.task
           /\ o.task = asg[a].task
           /\ IsLive(a)
           /\ o.op = "verify" => asg[a].state = "submitted"
           /\ o.op \in {"callback", "failure", "expire"} => asg[a].state = "running"
<1> DEFINE o == pend[p]
<1>1. o.asg \in Assignments /\ o.op \in Mutations
  BY PendingTypes DEF ReadInv, Mutations
<1>2. WritesAsg(o) /\ WritesTask(o)
  BY DEF WritesAsg, WritesTask, Guarded
<1>3. asg[o.asg] = o.seen.asg /\ task[o.task] = o.seen.task
  BY <1>1, <1>2, CasMeans
<1> QED
  BY <1>1, <1>3 DEF Guarded, IsLive, LiveAssignment, Mutations

\* A commit that ends the Assignment of its Task leaves a lane.
LEMMA LaneEnds ==
    ASSUME ReadInv, TypeOK', Lane, NEW p \in Procs, Guarded(pend[p]),
           CasHolds(pend[p]),
           pend[p].op \in {"callback", "failure", "verify", "cancel", "expire"},
           NEW a \in Assignments, a = pend[p].asg,
           NEW s \in {"submitted"} \cup TerminalAssignment,
           NEW ph \in {"verifying", "blocked", "done", "cancelled"}, NEW why,
           PutAsg(p, s), PutTask(p, ph, why),
           \A b \in Assignments \ {a} :
               lease'[b] = lease[b] /\ sess'[b] = sess[b] /\ run'[b] = run[b],
           AsgAgrees(a)',
           ph = "verifying" => s = "submitted"
    PROVE  Lane'
<1>1. /\ asg[a] = pend[p].seen.asg /\ pend[p].task = asg[a].task /\ IsLive(a)
      /\ asg[a].task \in Tasks
  BY CommitReplaces DEF ReadInv, TypeOK, Assignment
<1> SUFFICES ASSUME NEW t \in Tasks, t = asg[a].task,
                    NEW r, r = RevisedAsg(pend[p].seen.asg, s),
                    NEW k, k = RevisedTask(pend[p].seen.task, ph, why)
             PROVE  Lane'
  BY <1>1
<1>2. r.task = t /\ r.agent = asg[a].agent /\ r.state = s /\ k.phase = ph
  BY <1>1 DEF RevisedAsg, RevisedTask
<1>3. task' = [task EXCEPT ![t] = k] /\ asg' = [asg EXCEPT ![a] = r]
  BY <1>1 DEF PutTask, PutAsg
<1>4. task'[t] = k /\ asg'[a] = r
  BY <1>1, <1>3 DEF ReadInv, TypeOK
<1>5. TaskAgrees(t)'
  <2>1. s = "submitted" => a \in Of(t)'
    BY <1>2, <1>4 DEF Of
  <2> QED
    BY <1>2, <1>4, <2>1 DEF TaskAgrees
<1>6. TypeOK
  BY DEF ReadInv
<1> QED
  BY <1>1, <1>2, <1>3, <1>5, <1>6, LaneMoves

\* Every commit keeps the lane.
LEMMA LaneCommits ==
    ASSUME ReadInv, TypeOK', Lane, NEW p \in Procs, Guarded(pend[p]),
           \/ DispatchCommit(p) \/ CallbackCommit(p) \/ FailureCommit(p)
           \/ VerifyCommit(p) \/ HeartbeatCommit(p) \/ CancelCommit(p)
           \/ ExpireCommit(p)
    PROVE  Lane'
<1> DEFINE o == pend[p]
<1>1. /\ o.asg \in Assignments /\ o.task \in Tasks
      /\ o.run \in Assignments \cup {NoAssignment}
  BY PendingTypes DEF ReadInv
<1> SUFFICES ASSUME NEW a \in Assignments, a = o.asg, NEW t \in Tasks, t = o.task
             PROVE  Lane'
  BY <1>1
<1>2. /\ asg \in [Assignments -> Assignment]
      /\ lease \in [Assignments -> Lease] /\ sess \in [Assignments -> Session]
      /\ run \in [Assignments -> Run]
  BY DEF ReadInv, TypeOK
<1>3. o.run \in {a, NoAssignment} =>
        \A b \in Assignments \ {a} :
          lease'[b] = lease[b] /\ sess'[b] = sess[b] /\ run'[b] = run[b]
  BY CommitLocal, NoAssignmentAssumption
<1>4. ASSUME DispatchCommit(p)
      PROVE  Lane'
  <2> SUFFICES ASSUME NEW r, r = [state |-> "running", task |-> t,
                                  agent |-> o.by, rev |-> 3],
                      NEW k, k = [phase |-> "inProgress",
                                  reason |-> "AssignmentRunning",
                                  rev |-> o.seen.task.rev + 2]
               PROVE  Lane'
    OBVIOUS
  <2>1. o.op = "dispatch" /\ CasHolds(o) /\ o.op \in Mutations
    BY <1>4 DEF DispatchCommit, Commits, Mutations
  <2>2. WritesTask(o) /\ WritesAsg(o)
    BY <2>1 DEF WritesTask, WritesAsg
  <2>3. task[t] = o.seen.task /\ asg[a] = o.seen.asg
    BY <2>1, <2>2, CasMeans
  <2>4. task[t].phase \in {"backlog", "blocked"} /\ asg[a].state = "none"
    BY <2>1, <2>3 DEF Guarded, ReadInv, Existing
  <2>5. /\ task' = [task EXCEPT ![t] = k]
        /\ asg' = [asg EXCEPT ![a] = r]
        /\ accepted' = accepted
    BY <1>4 DEF DispatchCommit
  <2>6. \A b \in Assignments \ {a} :
          lease'[b] = lease[b] /\ sess'[b] = sess[b] /\ run'[b] = run[b]
    BY <1>1, <1>2, <1>4 DEF DispatchCommit
  <2>7. AsgAgrees(a)'
    <3>1. /\ asg'[a] = r /\ task'[t] = k
          /\ lease'[a].state = "active" /\ sess'[a].state = "active"
          /\ run'[a].state = "implementing"
      BY <1>1, <1>2, <1>4, <2>5 DEF DispatchCommit, ReadInv, TypeOK
    <3> QED
      BY <3>1 DEF AsgAgrees, LeaseIsLive, LiveLease, TerminalAssignment
  <2>8. TypeOK
    BY DEF ReadInv
  <2>9. r.state = "running" /\ r.task = t /\ k.phase = "inProgress"
    OBVIOUS
  <2> QED
    BY <1>1, <2>4, <2>5, <2>6, <2>7, <2>8, <2>9, LaneOpens
<1>5. ASSUME CallbackCommit(p)
      PROVE  Lane'
  <2>1. o.op = "callback" /\ CasHolds(o) /\ o.op \in Mutations /\ o.run = a
    BY <1>5 DEF CallbackCommit, Commits, Mutations, Guarded
  <2>2. /\ PutAsg(p, "submitted") /\ PutTask(p, "verifying", "CallbackSubmitted")
        /\ PutLease(p, "released") /\ PutSess(p, "closing") /\ PutRun(p, "verifying")
        /\ accepted' = accepted
    BY <1>5 DEF CallbackCommit
  <2>3. o.task = asg[a].task /\ asg[a] = o.seen.asg
    BY <2>1, CommitReplaces
  <2>4. AsgAgrees(a)'
    <3>1. /\ asg'[a].state = "submitted" /\ asg'[a].task = t
          /\ lease'[a].state = "released" /\ sess'[a].state = "closing"
          /\ task'[t].phase = "verifying"
      BY <1>1, <1>2, <2>2, <2>3
         DEF PutAsg, PutLease, PutSess, PutTask, RevisedAsg, RevisedTask, Revised,
             ReadInv, TypeOK
    <3>2. run'[a].state = "verifying"
      BY <1>1, <1>2, <2>1, <2>2, NoAssignmentAssumption DEF PutRun, Revised
    <3> QED
      BY <3>1, <3>2 DEF AsgAgrees, TerminalAssignment
  <2> QED
    BY <1>3, <2>1, <2>2, <2>4, LaneEnds
<1>6. ASSUME FailureCommit(p)
      PROVE  Lane'
  <2>1. o.op = "failure" /\ CasHolds(o) /\ o.op \in Mutations /\ o.run = a
    BY <1>6 DEF FailureCommit, Commits, Mutations, Guarded
  <2>2. /\ PutAsg(p, "failed") /\ PutTask(p, "blocked", "ProviderExecutionFailed")
        /\ PutLease(p, "released") /\ accepted' = accepted
    BY <1>6 DEF FailureCommit
  <2>3. AsgAgrees(a)'
    BY <1>1, <1>2, <2>2
       DEF PutAsg, PutLease, RevisedAsg, Revised, AsgAgrees, LeaseIsLive, LiveLease
  <2> QED
    BY <1>3, <2>1, <2>2, <2>3, LaneEnds DEF TerminalAssignment
<1>7. ASSUME VerifyCommit(p)
      PROVE  Lane'
  <2>1. o.op = "verify" /\ CasHolds(o) /\ o.op \in Mutations /\ o.run = a
    BY <1>7 DEF VerifyCommit, Commits, Mutations, Guarded
  <2>2. asg[a] = o.seen.asg /\ asg[a].state = "submitted" /\ o.by # asg[a].agent
    BY <2>1, CommitReplaces DEF Guarded
  <2>3. ~LeaseIsLive(a) /\ lease' = lease
    BY <1>1, <1>7, <2>2
       DEF Lane, PhaseAgreement, AsgAgrees, LeaseIsLive, LiveLease, VerifyCommit
  <2>4. CASE o.passed
    <3>1. /\ PutAsg(p, "closed") /\ PutTask(p, "done", "VerificationPassed")
      BY <1>7, <2>4 DEF VerifyCommit
    <3>2. AsgAgrees(a)'
      BY <1>1, <1>2, <2>3, <3>1 DEF PutAsg, RevisedAsg, AsgAgrees, LeaseIsLive
    <3> QED
      BY <1>3, <2>1, <2>2, <3>1, <3>2, LaneEnds DEF TerminalAssignment
  <2>5. CASE ~o.passed
    <3>1. /\ PutAsg(p, "failed") /\ PutTask(p, "blocked", "VerificationFailed")
          /\ accepted' = accepted
      BY <1>7, <2>5 DEF VerifyCommit
    <3>2. AsgAgrees(a)'
      BY <1>1, <1>2, <2>3, <3>1 DEF PutAsg, RevisedAsg, AsgAgrees, LeaseIsLive
    <3> QED
      BY <1>3, <2>1, <2>2, <3>1, <3>2, LaneEnds DEF TerminalAssignment
  <2> QED
    BY <2>4, <2>5
<1>8. ASSUME HeartbeatCommit(p)
      PROVE  Lane'
  <2>1. o.op = "heartbeat" /\ CasHolds(o) /\ o.op \in Mutations
    BY <1>8 DEF HeartbeatCommit, Commits, Mutations
  <2>2. WritesLease(o) /\ WritesSess(o)
    BY <2>1 DEF WritesLease, WritesSess
  <2>3. lease[a] = o.seen.lease /\ sess[a] = o.seen.sess
    BY <2>1, <2>2, CasMeans
  <2>4. LeaseIsLive(a)
    BY <2>1, <2>3 DEF Guarded, LeaseIsLive
  <2>5. /\ lease' = [lease EXCEPT ![a] = Revised(o.seen.lease, "renewed")]
        /\ sess' = [sess EXCEPT ![a] = Revised(o.seen.sess, o.seen.sess.state)]
        /\ UNCHANGED <<task, asg, run>>
    BY <1>8 DEF HeartbeatCommit, PutLease, PutSess
  <2>6. ASSUME NEW b \in Assignments
        PROVE  /\ LeaseIsLive(b)' <=> LeaseIsLive(b)
               /\ lease[b].state = "released" => lease'[b] = lease[b]
               /\ sess'[b].state = sess[b].state
    <3>1. CASE b = a
      BY <1>1, <1>2, <2>3, <2>4, <2>5, <3>1 DEF LeaseIsLive, LiveLease, Revised
    <3>2. CASE b # a
      BY <1>1, <1>2, <2>5, <3>2 DEF LeaseIsLive
    <3> QED
      BY <3>1, <3>2
  <2> QED
    BY <2>5, <2>6, LaneRenews
<1>9. ASSUME CancelCommit(p)
      PROVE  Lane'
  <2>1. o.op = "cancel" /\ CasHolds(o) /\ o.op \in Mutations
    BY <1>9 DEF CancelCommit, Commits, Mutations
  <2>2. WritesTask(o)
    BY <2>1 DEF WritesTask, Guarded
  <2>3. /\ PutAsg(p, "cancelled") /\ PutTask(p, "cancelled", "AssignmentCancelled")
        /\ IF WritesLease(o) THEN PutLease(p, "revoked") ELSE UNCHANGED lease
        /\ accepted' = accepted /\ run' = run
    BY <1>9, <2>2 DEF CancelCommit
  <2>4. \A b \in Assignments \ {a} :
          lease'[b] = lease[b] /\ sess'[b] = sess[b] /\ run'[b] = run[b]
    BY <1>9, <2>3, CommitLocal
  <2>5. ~LeaseIsLive(a)'
    <3>1. CASE WritesLease(o)
      BY <1>1, <1>2, <2>3, <3>1 DEF PutLease, Revised, LeaseIsLive, LiveLease
    <3>2. CASE ~WritesLease(o)
      <4>1. o.seen.lease.state \notin LiveLease
        BY <2>1, <3>2 DEF WritesLease
      <4>2. asg[a].state = "submitted"
        BY <2>1, <4>1, CommitReplaces DEF Guarded, LiveAssignment
      <4> QED
        BY <1>1, <2>3, <3>2, <4>2
           DEF Lane, PhaseAgreement, AsgAgrees, LeaseIsLive, LiveLease
    <3> QED
      BY <3>1, <3>2
  <2>6. AsgAgrees(a)'
    BY <1>1, <1>2, <2>3, <2>5 DEF PutAsg, RevisedAsg, AsgAgrees
  <2> QED
    BY <2>1, <2>3, <2>4, <2>6, LaneEnds DEF TerminalAssignment
<1>10. ASSUME ExpireCommit(p)
       PROVE  Lane'
  <2>1. o.op = "expire" /\ CasHolds(o) /\ o.op \in Mutations
    BY <1>10 DEF ExpireCommit, Commits, Mutations
  <2>2. /\ PutAsg(p, "expired") /\ PutTask(p, "blocked", "LeaseExpired")
        /\ PutLease(p, "expired") /\ accepted' = accepted
        /\ \A b \in Assignments \ {a} : run'[b] = run[b]
    BY <1>1, <1>2, <1>10 DEF ExpireCommit
  <2>3. \A b \in Assignments \ {a} :
          lease'[b] = lease[b] /\ sess'[b] = sess[b] /\ run'[b] = run[b]
    BY <1>10, <2>2, CommitLocal
  <2>4. AsgAgrees(a)'
    BY <1>1, <1>2, <2>2
       DEF PutAsg, PutLease, RevisedAsg, Revised, AsgAgrees, LeaseIsLive, LiveLease
  <2> QED
    BY <2>1, <2>2, <2>3, <2>4, LaneEnds DEF TerminalAssignment
<1> QED
  BY <1>4, <1>5, <1>6, <1>7, <1>8, <1>9, <1>10

-----------------------------------------------------------------------------
(* What the guards establish (Guarded), and the theorem.                   *)

\* What is prepared is what was read.
LEMMA PrepareMeans ==
    ASSUME TypeOK, NEW p \in Procs, NEW o, NEW a, NEW t, NEW by, NEW passed, NEW r,
           Prepare(p, o, a, t, by, passed, r)
    PROVE  /\ pend'[p].op = o /\ pend'[p].asg = a /\ pend'[p].task = t
           /\ pend'[p].by = by /\ pend'[p].run = r
           /\ pend'[p].seen.task = task[t] /\ pend'[p].seen.asg = asg[a]
           /\ pend'[p].seen.lease = lease[a] /\ pend'[p].seen.sess = sess[a]
           /\ \A q \in Procs \ {p} : pend'[q] = pend[q]
BY DEF Prepare, TypeOK

\* The WorkflowRun of an Assignment of the Task is its own.
LEMMA RunFoundIsOwn ==
    ASSUME NEW a \in Assignments, asg[a].state # "none"
    PROVE  RunFound(asg[a].task, a) = a
BY DEF RunFound, Of

\* A process that prepares nothing keeps what its guards established.
LEMMA GuardedKeeps ==
    ASSUME NEW p \in Procs, Guarded(pend[p]),
           pend'[p] = pend[p] \/ pend'[p].op \notin Mutations
    PROVE  Guarded(pend'[p])
BY DEF Guarded, Mutations

\* Every step leaves what is prepared guarded.
LEMMA GuardedStep ==
    ASSUME LaneInv, [Next]_vars, MixedVerify = FALSE, NEW q \in Procs
    PROVE  Guarded(pend'[q])
<1> USE DEF LaneInv, ReadInv
<1>1. Guarded(pend[q]) /\ TypeOK
  OBVIOUS
<1>2. ASSUME pend'[q] = pend[q]
      PROVE  Guarded(pend'[q])
  BY <1>1, <1>2
<1>3. ASSUME NEW p \in Procs,
             Stop(p) \/ \E o \in {"expiring", "reserve", "execute"} : \E k, a : Await(p, o, k, a)
      PROVE  Guarded(pend'[q])
  <2>1. pend'[q] = pend[q] \/ pend'[q].op \notin Mutations
    BY <1>1, <1>3 DEF Stop, Await, Idle, Waiting, Mutations, TypeOK
  <2> QED
    BY <1>1, <2>1, GuardedKeeps
<1>4. ASSUME NEW p \in Procs, NEW a \in Assignments, NEW t \in Tasks,
             NEW g \in Agents, DispatchRead(p, a, t, g)
      PROVE  Guarded(pend'[q])
  <2>1. Prepare(p, "dispatch", a, t, g, FALSE, NoAssignment)
    BY <1>4 DEF DispatchRead
  <2>2. \/ task[t].phase = "backlog"
        \/ task[t].phase = "blocked" /\ task[t].reason = "LeaseExpired"
    BY <1>4 DEF DispatchRead, Dispatchable, Recoverable
  <2>3. /\ pend'[p].op = "dispatch" /\ pend'[p].asg = a /\ pend'[p].task = t
        /\ pend'[p].by = g /\ pend'[p].run = NoAssignment
        /\ pend'[p].seen.task = task[t] /\ pend'[p].seen.asg = asg[a]
        /\ pend'[p].seen.lease = lease[a] /\ pend'[p].seen.sess = sess[a]
        /\ \A x \in Procs \ {p} : pend'[x] = pend[x]
    BY <1>1, <2>1, PrepareMeans
  <2>4. CASE q = p
    BY <1>1, <2>1, <2>2, <2>3, <2>4 DEF Guarded, Mutations
  <2>5. CASE q # p
    BY <1>2, <2>3, <2>5
  <2> QED
    BY <2>4, <2>5
<1>5. ASSUME NEW p \in Procs, NEW a \in Assignments,
             NEW o \in {"callback", "failure"}, ReportRead(p, o, a)
      PROVE  Guarded(pend'[q])
  <2>1. /\ Prepare(p, o, a, asg[a].task, asg[a].agent, FALSE,
                   RunFound(asg[a].task, a))
        /\ asg[a].state = "running"
    BY <1>5 DEF ReportRead, ExecutionIsLive
  <2>2. RunFound(asg[a].task, a) = a
    BY <2>1, RunFoundIsOwn
  <2>3. /\ pend'[p].op = o /\ pend'[p].asg = a /\ pend'[p].task = asg[a].task
        /\ pend'[p].by = asg[a].agent /\ pend'[p].run = RunFound(asg[a].task, a)
        /\ pend'[p].seen.task = task[asg[a].task] /\ pend'[p].seen.asg = asg[a]
        /\ pend'[p].seen.lease = lease[a] /\ pend'[p].seen.sess = sess[a]
        /\ \A x \in Procs \ {p} : pend'[x] = pend[x]
    BY <1>1, <2>1, PrepareMeans
  <2>4. CASE q = p
    BY <1>1, <2>1, <2>2, <2>3, <2>4 DEF Guarded, Mutations
  <2>5. CASE q # p
    BY <1>2, <2>3, <2>5
  <2> QED
    BY <2>4, <2>5
<1>6. ASSUME NEW p \in Procs, NEW t \in Tasks, NEW a \in Assignments,
             NEW by \in Actors, NEW passed \in BOOLEAN,
             VerifyRead(p, t, a, by, passed)
      PROVE  Guarded(pend'[q])
  <2>1. /\ Prepare(p, "verify", a, t, by, passed, RunFound(t, a))
        /\ asg[a].task = t /\ asg[a].state = "submitted" /\ by # asg[a].agent
    BY <1>6 DEF VerifyRead
  <2>2. RunFound(t, a) = a
    BY <2>1, RunFoundIsOwn
  <2>3. /\ pend'[p].op = "verify" /\ pend'[p].asg = a /\ pend'[p].task = t
        /\ pend'[p].by = by /\ pend'[p].run = RunFound(t, a)
        /\ pend'[p].seen.task = task[t] /\ pend'[p].seen.asg = asg[a]
        /\ pend'[p].seen.lease = lease[a] /\ pend'[p].seen.sess = sess[a]
        /\ \A x \in Procs \ {p} : pend'[x] = pend[x]
    BY <1>1, <2>1, PrepareMeans
  <2>4. CASE q = p
    BY <1>1, <2>1, <2>2, <2>3, <2>4 DEF Guarded, Mutations
  <2>5. CASE q # p
    BY <1>2, <2>3, <2>5
  <2> QED
    BY <2>4, <2>5
<1>7. ASSUME NEW p \in Procs, NEW a \in Assignments, HeartbeatRead(p, a)
      PROVE  Guarded(pend'[q])
  <2>1. /\ Prepare(p, "heartbeat", a, asg[a].task, asg[a].agent, FALSE, NoAssignment)
        /\ sess[a].state = "active" /\ lease[a].state \in LiveLease
    BY <1>7 DEF HeartbeatRead, LeaseIsLive
  <2>2. /\ pend'[p].op = "heartbeat" /\ pend'[p].asg = a /\ pend'[p].task = asg[a].task
        /\ pend'[p].by = asg[a].agent /\ pend'[p].run = NoAssignment
        /\ pend'[p].seen.task = task[asg[a].task] /\ pend'[p].seen.asg = asg[a]
        /\ pend'[p].seen.lease = lease[a] /\ pend'[p].seen.sess = sess[a]
        /\ \A x \in Procs \ {p} : pend'[x] = pend[x]
    BY <1>1, <2>1, PrepareMeans
  <2>3. CASE q = p
    BY <1>1, <2>1, <2>2, <2>3 DEF Guarded, Mutations
  <2>4. CASE q # p
    BY <1>2, <2>2, <2>4
  <2> QED
    BY <2>3, <2>4
<1>8. ASSUME NEW p \in Procs, NEW a \in Assignments, CancelRead(p, a)
      PROVE  Guarded(pend'[q])
  <2>1. /\ Prepare(p, "cancel", a, asg[a].task, asg[a].agent, FALSE, NoAssignment)
        /\ asg[a].state # "none" /\ asg[a].state \notin TerminalAssignment
    BY <1>8 DEF CancelRead
  <2>2. /\ asg[a].state \in LiveAssignment
        /\ task[asg[a].task].phase \in {"inProgress", "verifying"}
        /\ asg[a].state = "running" => lease[a].state \in LiveLease
    BY <2>1 DEF PhaseAgreement, AsgAgrees, LiveAssignment, LeaseIsLive, TypeOK, Assignment
  <2>3. /\ pend'[p].op = "cancel" /\ pend'[p].asg = a /\ pend'[p].task = asg[a].task
        /\ pend'[p].by = asg[a].agent /\ pend'[p].run = NoAssignment
        /\ pend'[p].seen.task = task[asg[a].task] /\ pend'[p].seen.asg = asg[a]
        /\ pend'[p].seen.lease = lease[a] /\ pend'[p].seen.sess = sess[a]
        /\ \A x \in Procs \ {p} : pend'[x] = pend[x]
    BY <1>1, <2>1, PrepareMeans
  <2>4. CASE q = p
    BY <1>1, <2>1, <2>2, <2>3, <2>4 DEF Guarded, Mutations
  <2>5. CASE q # p
    BY <1>2, <2>3, <2>5
  <2> QED
    BY <2>4, <2>5
<1>9. ASSUME NEW p \in Procs, NEW a \in Assignments, ExpireRead(p, a)
      PROVE  Guarded(pend'[q])
  <2>1. /\ Prepare(p, "expire", a, asg[a].task, asg[a].agent, FALSE, NoAssignment)
        /\ asg[a].state = "running"
    BY <1>9 DEF ExpireRead
  <2>2. /\ pend'[p].op = "expire" /\ pend'[p].asg = a /\ pend'[p].task = asg[a].task
        /\ pend'[p].by = asg[a].agent /\ pend'[p].run = NoAssignment
        /\ pend'[p].seen.task = task[asg[a].task] /\ pend'[p].seen.asg = asg[a]
        /\ pend'[p].seen.lease = lease[a] /\ pend'[p].seen.sess = sess[a]
        /\ \A x \in Procs \ {p} : pend'[x] = pend[x]
    BY <1>1, <2>1, PrepareMeans
  <2>3. CASE q = p
    BY <1>1, <2>1, <2>2, <2>3 DEF Guarded, Mutations
  <2>4. CASE q # p
    BY <1>2, <2>2, <2>4
  <2> QED
    BY <2>3, <2>4
<1>10. ASSUME NEW p \in Procs,
              \/ DispatchCommit(p) \/ CallbackCommit(p) \/ FailureCommit(p)
              \/ VerifyCommit(p) \/ HeartbeatCommit(p) \/ CancelCommit(p)
              \/ ExpireCommit(p) \/ ExpireRefused(p) \/ Conflict(p) \/ Crash(p)
              \/ \E a \in Assignments : ObserveElapsed(p, a)
              \/ \E k \in EffectKinds, a \in Assignments : EffectCheck(p, k, a)
              \/ EffectReserve(p) \/ EffectDone(p)
       PROVE  Guarded(pend'[q])
  BY <1>3, <1>10
     DEF DispatchCommit, CallbackCommit, FailureCommit, VerifyCommit, HeartbeatCommit,
         CancelCommit, ExpireCommit, Commits, ExpireRefused, Conflict, Crash,
         ObserveElapsed, EffectCheck, EffectReserve, EffectDone
<1>11. ASSUME \/ \E a \in Assignments : Elapse(a)
              \/ \E k \in EffectKinds, a \in Assignments : EffectReconcile(k, a)
              \/ UNCHANGED vars
       PROVE  Guarded(pend'[q])
  BY <1>1, <1>11 DEF Elapse, EffectReconcile, vars
<1> QED
  BY <1>4, <1>5, <1>6, <1>7, <1>8, <1>9, <1>10, <1>11 DEF Next, ProcNext

\* LaneInv is inductive.
LEMMA LaneInvStep ==
    ASSUME LaneInv, [Next]_vars, MixedVerify = FALSE
    PROVE  LaneInv'
<1>1. ReadInv' /\ ReadInv
  BY ReadInvStep DEF LaneInv
<1>2. TypeOK' /\ Lane /\ \A p \in Procs : Guarded(pend[p])
  BY <1>1 DEF ReadInv, LaneInv, Lane
<1>3. \A p \in Procs : Guarded(pend'[p])
  BY GuardedStep
<1>4. ASSUME NEW p \in Procs,
             \/ DispatchCommit(p) \/ CallbackCommit(p) \/ FailureCommit(p)
             \/ VerifyCommit(p) \/ HeartbeatCommit(p) \/ CancelCommit(p)
             \/ ExpireCommit(p)
      PROVE  Lane'
  BY <1>1, <1>2, <1>4, LaneCommits
<1>5. ASSUME UNCHANGED <<task, asg, lease, sess, run>>
      PROVE  Lane'
  BY <1>2, <1>5, LaneStutters
<1>6. ASSUME NEW p \in Procs,
             \/ \E a \in Assignments, t \in Tasks, g \in Agents : DispatchRead(p, a, t, g)
             \/ \E a \in Assignments, o \in {"callback", "failure"} : ReportRead(p, o, a)
             \/ \E t \in Tasks, a \in Assignments, by \in Actors, passed \in BOOLEAN :
                   VerifyRead(p, t, a, by, passed)
             \/ \E a \in Assignments : HeartbeatRead(p, a)
             \/ \E a \in Assignments : CancelRead(p, a)
             \/ \E a \in Assignments : ExpireRead(p, a)
             \/ \E a \in Assignments : ObserveElapsed(p, a)
             \/ \E k \in EffectKinds, a \in Assignments : EffectCheck(p, k, a)
             \/ ExpireRefused(p) \/ Conflict(p) \/ Crash(p)
             \/ EffectReserve(p) \/ EffectDone(p)
      PROVE  Lane'
  <2>1. UNCHANGED <<task, asg, lease, sess, run>>
    BY <1>6 DEF DispatchRead, ReportRead, VerifyRead, HeartbeatRead, CancelRead,
                ExpireRead, ObserveElapsed, EffectCheck, ExpireRefused, Conflict, Crash,
                EffectReserve, EffectDone, NothingStored, records
  <2> QED
    BY <1>5, <2>1
<1>7. ASSUME \/ \E a \in Assignments : Elapse(a)
             \/ \E k \in EffectKinds, a \in Assignments : EffectReconcile(k, a)
             \/ UNCHANGED vars
      PROVE  Lane'
  BY <1>5, <1>7 DEF Elapse, EffectReconcile, vars, records
<1>8. Lane'
  BY <1>4, <1>6, <1>7 DEF Next, ProcNext
<1> QED
  BY <1>1, <1>3, <1>8 DEF LaneInv, Lane

\* LaneInv holds at the start.
LEMMA LaneStarts ==
    ASSUME Init
    PROVE  LaneInv
<1>1. ReadInv
  <2>1. TypeOK
    BY DefaultTypes DEF Init, TypeOK
  <2>2. Fresh
    BY DEF Init, Fresh, NoneAsg
  <2> QED
    BY <2>1, <2>2
       DEF Init, ReadInv, Existing, SnapshotFaithful, Idle, Waiting, Mutations
<1>2. \A p \in Procs : Guarded(pend[p])
  BY DEF Init, Guarded, Idle, Waiting, Mutations
<1>3. \A a \in Assignments : asg[a].state = "none"
  BY DEF Init, NoneAsg
<1>4. \A t \in Tasks : task[t].phase = "backlog"
  BY DEF Init, NewTask
<1>5. OneLiveLane /\ PhaseAgreement
  BY <1>3, <1>4
     DEF OneLiveLane, PhaseAgreement, AsgAgrees, TaskAgrees,
         TerminalAssignment
<1> QED
  BY <1>1, <1>2, <1>5 DEF LaneInv

\* Where verify is given the Assignment of the Task it is given, LaneInv holds of
\* every behaviour.
THEOREM LaneHolds ==
    ASSUME MixedVerify = FALSE
    PROVE  Spec => []LaneInv
<1>1. Init => LaneInv
  BY LaneStarts
<1>2. LaneInv /\ [Next]_vars => LaneInv'
  BY LaneInvStep
<1> QED
  BY <1>1, <1>2, PTL DEF Spec

\* Task, Assignment, Lease, Session and WorkflowRun agree, whatever interleaves and
\* whatever process is killed.
THEOREM RecordsAgree ==
    ASSUME MixedVerify = FALSE
    PROVE  Spec => []PhaseAgreement
<1>1. LaneInv => PhaseAgreement
  BY DEF LaneInv
<1> QED
  BY <1>1, LaneHolds, PTL

-----------------------------------------------------------------------------
(* Whichever pairs verify is given: MixedInv is inductive with no          *)
(* assumption about the constants.                                         *)

\* A process that prepares nothing keeps what it has checked.
LEMMA CheckedKeeps ==
    ASSUME NEW p \in Procs, Checked(pend[p]),
           pend'[p] = pend[p] \/ pend'[p].op \notin Mutations
    PROVE  Checked(pend'[p])
BY DEF Checked, Mutations

\* Every step leaves what is prepared checked.
LEMMA CheckedStep ==
    ASSUME MixedInv, [Next]_vars, NEW q \in Procs
    PROVE  Checked(pend'[q])
<1> USE DEF MixedInv, ReadInv
<1>1. Checked(pend[q]) /\ TypeOK
  OBVIOUS
<1>2. ASSUME pend'[q] = pend[q]
      PROVE  Checked(pend'[q])
  BY <1>1, <1>2
<1>3. ASSUME NEW p \in Procs,
             Stop(p) \/ \E o \in {"expiring", "reserve", "execute"} : \E k, a : Await(p, o, k, a)
      PROVE  Checked(pend'[q])
  <2>1. pend'[q] = pend[q] \/ pend'[q].op \notin Mutations
    BY <1>1, <1>3 DEF Stop, Await, Idle, Waiting, Mutations, TypeOK
  <2> QED
    BY <1>1, <2>1, CheckedKeeps
<1>4. ASSUME NEW p \in Procs, NEW o, NEW a, NEW t, NEW by, NEW passed, NEW r,
             Prepare(p, o, a, t, by, passed, r),
             o = "dispatch" =>
               \/ task[t].phase = "backlog"
               \/ task[t].phase = "blocked" /\ task[t].reason = "LeaseExpired",
             o \in {"callback", "failure", "expire"} => asg[a].state = "running",
             o = "verify" => /\ task[t].phase = "verifying"
                             /\ asg[a].state = "submitted" /\ by # asg[a].agent,
             o = "cancel" => /\ asg[a].state \in LiveAssignment
                             /\ asg[a].state = "running" => lease[a].state \in LiveLease,
             o = "heartbeat" => lease[a].state \in LiveLease,
             o \notin {"dispatch", "heartbeat", "verify"} => asg[a].task = t
      PROVE  Checked(pend'[q])
  <2>1. /\ pend'[p].op = o /\ pend'[p].task = t /\ pend'[p].by = by
        /\ pend'[p].seen.task = task[t] /\ pend'[p].seen.asg = asg[a]
        /\ pend'[p].seen.lease = lease[a]
        /\ \A x \in Procs \ {p} : pend'[x] = pend[x]
    BY <1>1, <1>4, PrepareMeans
  <2>2. CASE q = p
    BY <1>4, <2>1, <2>2 DEF Checked
  <2>3. CASE q # p
    BY <1>2, <2>1, <2>3
  <2> QED
    BY <2>2, <2>3
<1>5. ASSUME NEW p \in Procs, NEW a \in Assignments, NEW t \in Tasks,
             NEW g \in Agents, DispatchRead(p, a, t, g)
      PROVE  Checked(pend'[q])
  BY <1>4, <1>5 DEF DispatchRead, Dispatchable, Recoverable
<1>6. ASSUME NEW p \in Procs, NEW a \in Assignments,
             NEW o \in {"callback", "failure"}, ReportRead(p, o, a)
      PROVE  Checked(pend'[q])
  BY <1>4, <1>6 DEF ReportRead, ExecutionIsLive
<1>7. ASSUME NEW p \in Procs, NEW t \in Tasks, NEW a \in Assignments,
             NEW by \in Actors, NEW passed \in BOOLEAN,
             VerifyRead(p, t, a, by, passed)
      PROVE  Checked(pend'[q])
  BY <1>4, <1>7 DEF VerifyRead
<1>8. ASSUME NEW p \in Procs, NEW a \in Assignments, HeartbeatRead(p, a)
      PROVE  Checked(pend'[q])
  BY <1>4, <1>8 DEF HeartbeatRead, LeaseIsLive
<1>9. ASSUME NEW p \in Procs, NEW a \in Assignments, CancelRead(p, a)
      PROVE  Checked(pend'[q])
  <2>1. /\ asg[a].state \in LiveAssignment
        /\ asg[a].state = "running" => lease[a].state \in LiveLease
    BY <1>9 DEF CancelRead, LivePhase, LeaseIsLive, TypeOK, Assignment
  <2> QED
    BY <1>4, <1>9, <2>1 DEF CancelRead
<1>10. ASSUME NEW p \in Procs, NEW a \in Assignments, ExpireRead(p, a)
       PROVE  Checked(pend'[q])
  BY <1>4, <1>10 DEF ExpireRead
<1>11. ASSUME NEW p \in Procs,
              \/ DispatchCommit(p) \/ CallbackCommit(p) \/ FailureCommit(p)
              \/ VerifyCommit(p) \/ HeartbeatCommit(p) \/ CancelCommit(p)
              \/ ExpireCommit(p) \/ ExpireRefused(p) \/ Conflict(p) \/ Crash(p)
              \/ \E a \in Assignments : ObserveElapsed(p, a)
              \/ \E k \in EffectKinds, a \in Assignments : EffectCheck(p, k, a)
              \/ EffectReserve(p) \/ EffectDone(p)
       PROVE  Checked(pend'[q])
  BY <1>3, <1>11
     DEF DispatchCommit, CallbackCommit, FailureCommit, VerifyCommit, HeartbeatCommit,
         CancelCommit, ExpireCommit, Commits, ExpireRefused, Conflict, Crash,
         ObserveElapsed, EffectCheck, EffectReserve, EffectDone
<1>12. ASSUME \/ \E a \in Assignments : Elapse(a)
              \/ \E k \in EffectKinds, a \in Assignments : EffectReconcile(k, a)
              \/ UNCHANGED vars
       PROVE  Checked(pend'[q])
  BY <1>1, <1>12 DEF Elapse, EffectReconcile, vars
<1> QED
  BY <1>5, <1>6, <1>7, <1>8, <1>9, <1>10, <1>11, <1>12 DEF Next, ProcNext

\* The parts of MixedInv that are about records.
Mixed == (\A a \in Assignments : LivePhase(a)) /\ OneHolder /\ DoneIsAccepted

\* Records that do not change keep them.
LEMMA MixedStutters ==
    ASSUME Mixed, UNCHANGED <<task, asg, lease, accepted>>
    PROVE  Mixed'
BY DEF Mixed, LivePhase, OneHolder, DoneIsAccepted, IsLive, LeaseIsLive

\* Acceptances are kept by whatever leaves what is done done and what is closed as
\* it is, and makes nothing else done.
LEMMA AcceptedStays ==
    ASSUME TypeOK, DoneIsAccepted, accepted' = accepted,
           \A t \in Tasks : task'[t].phase = "done" <=> task[t].phase = "done",
           \A a \in Assignments : asg[a].state = "closed" => asg'[a] = asg[a]
    PROVE  DoneIsAccepted'
<1>1. \A v \in accepted : v.task \in Tasks /\ v.asg \in Assignments
  BY DEF TypeOK
<1> QED
  BY <1>1 DEF DoneIsAccepted

\* And by a new one, of a Task that was not done and a result that was not accepted.
LEMMA AcceptedGrows ==
    ASSUME TypeOK, DoneIsAccepted,
           NEW t \in Tasks, NEW a \in Assignments, NEW g,
           task[t].phase # "done", asg[a].state # "closed",
           task'[t].phase = "done", \A u \in Tasks \ {t} : task'[u] = task[u],
           asg'[a].state = "closed", \A b \in Assignments \ {a} : asg'[b] = asg[b],
           g # asg'[a].agent,
           accepted' = accepted \cup {[task |-> t, asg |-> a, by |-> g]}
    PROVE  DoneIsAccepted'
<1>1. \A v \in accepted : /\ v.task \in Tasks /\ v.asg \in Assignments
                          /\ v.task # t /\ v.asg # a
  BY DEF TypeOK, DoneIsAccepted
<1>2. ASSUME NEW u \in Tasks, task'[u].phase = "done"
      PROVE  \E v \in accepted' : v.task = u
  <2>1. CASE u = t
    <3>1. [task |-> t, asg |-> a, by |-> g] \in accepted'
      OBVIOUS
    <3>2. [task |-> t, asg |-> a, by |-> g].task = u
      BY <2>1
    <3> QED
      BY <3>1, <3>2
  <2>2. CASE u # t
    <3>1. PICK v \in accepted : v.task = u
      BY <1>2, <2>2 DEF DoneIsAccepted
    <3> QED
      BY <3>1
  <2> QED
    BY <2>1, <2>2
<1>3. \A v \in accepted' : /\ task'[v.task].phase = "done"
                           /\ asg'[v.asg].state = "closed"
                           /\ v.by # asg'[v.asg].agent
  BY <1>1 DEF DoneIsAccepted
<1>4. \A v, w \in accepted' : v.task = w.task \/ v.asg = w.asg => v = w
  BY <1>1 DEF DoneIsAccepted
<1> QED
  BY <1>2, <1>3, <1>4 DEF DoneIsAccepted

\* One Assignment and at most one Task change.  Whoever else holds the Task finds it
\* in a phase it may be in, and nobody does when the Assignment becomes live.
LEMMA HolderMoves ==
    ASSUME TypeOK, Mixed, NEW a \in Assignments, NEW t \in Tasks,
           \A b \in Assignments \ {a} : asg'[b] = asg[b] /\ lease'[b] = lease[b],
           \A u \in Tasks \ {t} : task'[u] = task[u],
           LivePhase(a)',
           \A b \in Assignments \ {a} : IsLive(b) /\ asg[b].task = t => LivePhase(b)',
           IsLive(a)' => \A b \in Assignments \ {a} :
                            IsLive(b) => asg[b].task # asg'[a].task
    PROVE  (\A b \in Assignments : LivePhase(b)') /\ OneHolder'
<1>1. ASSUME NEW b \in Assignments \ {a}
      PROVE  LivePhase(b)'
  <2>1. asg'[b] = asg[b] /\ lease'[b] = lease[b] /\ LivePhase(b) /\ asg[b].task \in Tasks
    BY DEF Mixed, TypeOK, Assignment
  <2>2. CASE IsLive(b) /\ asg[b].task = t
    BY <2>2
  <2>3. CASE IsLive(b) /\ asg[b].task # t
    <3>1. task'[asg[b].task] = task[asg[b].task]
      BY <2>1, <2>3
    <3> QED
      BY <2>1, <3>1 DEF LivePhase, LeaseIsLive
  <2>4. CASE ~IsLive(b)
    BY <2>1, <2>4 DEF LivePhase, LeaseIsLive, IsLive, LiveAssignment
  <2> QED
    BY <2>2, <2>3, <2>4
<1>2. OneHolder'
  BY DEF Mixed, OneHolder, IsLive
<1> QED
  BY <1>1, <1>2

\* What a commit has read still is what it replaces.
LEMMA MixedReplaces ==
    ASSUME MixedInv, NEW p \in Procs, CasHolds(pend[p]), pend[p].op \in Mutations
    PROVE  LET o == pend[p] IN
           /\ o.asg \in Assignments /\ o.task \in Tasks
           /\ o.op # "heartbeat" => asg[o.asg] = o.seen.asg
           /\ WritesTask(o) => task[o.task] = o.seen.task
           /\ WritesLease(o) => lease[o.asg] = o.seen.lease
           /\ o.op = "dispatch" => asg[o.asg].state = "none"
<1>1. ReadInv /\ pend[p].asg \in Assignments /\ pend[p].task \in Tasks
  BY PendingTypes DEF MixedInv, ReadInv
<1>2. pend[p].op # "heartbeat" => WritesAsg(pend[p])
  BY DEF WritesAsg
<1>3. pend[p].op = "dispatch" => pend[p].seen.asg.state = "none"
  BY <1>1 DEF ReadInv, Existing
<1> QED
  BY <1>1, <1>2, <1>3, CasMeans

\* A dispatch gives the Task its only holder.
LEMMA MixedDispatch ==
    ASSUME MixedInv, TypeOK', NEW p \in Procs, DispatchCommit(p)
    PROVE  Mixed'
<1> DEFINE o == pend[p]
<1>1. TypeOK /\ ReadInv /\ Mixed /\ Checked(o)
  BY DEF MixedInv, ReadInv, Mixed
<1>2. o.op = "dispatch" /\ CasHolds(o) /\ o.op \in Mutations /\ WritesTask(o)
  BY DEF DispatchCommit, Commits, Mutations, WritesTask
<1> SUFFICES ASSUME NEW a \in Assignments, a = o.asg, NEW t \in Tasks, t = o.task
             PROVE  Mixed'
  BY <1>2, MixedReplaces
<1>3. /\ asg[a].state = "none"
      /\ \/ task[t].phase = "backlog"
         \/ task[t].phase = "blocked" /\ task[t].reason = "LeaseExpired"
  BY <1>1, <1>2, MixedReplaces DEF Checked
<1>4. /\ task'[t].phase = "inProgress" /\ \A u \in Tasks \ {t} : task'[u] = task[u]
      /\ asg'[a].state = "running" /\ asg'[a].task = t /\ lease'[a].state = "active"
      /\ \A b \in Assignments \ {a} : asg'[b] = asg[b] /\ lease'[b] = lease[b]
      /\ accepted' = accepted
  BY <1>1 DEF DispatchCommit, TypeOK
<1>5. \A b \in Assignments : IsLive(b) => asg[b].task # t
  BY <1>1, <1>3 DEF Mixed, LivePhase, IsLive, LiveAssignment
<1>6. LivePhase(a)'
  BY <1>4 DEF LivePhase, LeaseIsLive, LiveLease
<1>7. (\A b \in Assignments : LivePhase(b)') /\ OneHolder'
  BY <1>1, <1>4, <1>5, <1>6, HolderMoves
<1>8. DoneIsAccepted'
  <2>1. \A u \in Tasks : task'[u].phase = "done" <=> task[u].phase = "done"
    BY <1>3, <1>4
  <2>2. \A b \in Assignments : asg[b].state = "closed" => asg'[b] = asg[b]
    BY <1>3, <1>4
  <2> QED BY <1>1, <1>4, <2>1, <2>2, AcceptedStays DEF Mixed
<1> QED
  BY <1>7, <1>8 DEF Mixed

\* A report, a cancellation or an expiry takes the Task from its only holder.
LEMMA MixedEnds ==
    ASSUME MixedInv, TypeOK', NEW p \in Procs,
           \/ CallbackCommit(p) \/ FailureCommit(p)
           \/ CancelCommit(p) \/ ExpireCommit(p)
    PROVE  Mixed'
<1> DEFINE o == pend[p]
<1>1. TypeOK /\ ReadInv /\ Mixed /\ Checked(o)
  BY DEF MixedInv, ReadInv, Mixed
<1>2. /\ o.op \in {"callback", "failure", "cancel", "expire"} /\ CasHolds(o)
      /\ o.op \in Mutations
      /\ CancelCommit(p) <=> o.op = "cancel"
  BY DEF CallbackCommit, FailureCommit, CancelCommit, ExpireCommit, Commits, Mutations
<1> SUFFICES ASSUME NEW a \in Assignments, a = o.asg, NEW t \in Tasks, t = o.task
             PROVE  Mixed'
  BY <1>2, MixedReplaces
<1>3. /\ asg[a] = o.seen.asg /\ asg[a].task = t /\ IsLive(a)
      /\ o.op # "cancel" => asg[a].state = "running"
      /\ o.op # "cancel" => WritesTask(o)
      /\ WritesTask(o) => task[t] = o.seen.task
  BY <1>1, <1>2, MixedReplaces
     DEF Checked, IsLive, LiveAssignment, Mutations, WritesTask
<1>4. \A b \in Assignments \ {a} : IsLive(b) => asg[b].task # t
  BY <1>1, <1>3 DEF Mixed, OneHolder
<1>5. \A b \in Assignments \ {a} : asg'[b] = asg[b] /\ lease'[b] = lease[b]
  BY <1>1, CommitLocal
<1>6. \A u \in Tasks \ {t} : task'[u] = task[u]
  BY <1>1 DEF CallbackCommit, FailureCommit, CancelCommit, ExpireCommit, PutTask, TypeOK
<1>7. accepted' = accepted
  BY DEF CallbackCommit, FailureCommit, CancelCommit, ExpireCommit
<1>8. /\ asg'[a].task = t
      /\ o.op = "callback" => asg'[a].state = "submitted" /\ task'[t].phase = "verifying"
      /\ o.op # "callback" => asg'[a].state \in TerminalAssignment
  BY <1>1, <1>3
     DEF CallbackCommit, FailureCommit, CancelCommit, ExpireCommit, Commits, PutAsg,
         PutTask, RevisedAsg, RevisedTask, TypeOK, TerminalAssignment
<1>9. ~LeaseIsLive(a)'
  <2>1. CASE o.op # "cancel" \/ WritesLease(o)
    BY <1>1, <2>1
       DEF CallbackCommit, FailureCommit, CancelCommit, ExpireCommit, Commits, PutLease,
           Revised, LeaseIsLive, LiveLease, TypeOK
  <2>2. CASE o.op = "cancel" /\ ~WritesLease(o)
    <3>1. asg[a].state = "submitted" /\ lease' = lease
      BY <1>1, <1>2, <1>3, <2>2
         DEF CancelCommit, WritesLease, Checked, IsLive, LiveAssignment
    <3> QED
      BY <1>1, <3>1 DEF Mixed, LivePhase, LeaseIsLive
  <2> QED
    BY <2>1, <2>2
<1>10. LivePhase(a)'
  BY <1>8, <1>9 DEF LivePhase, TerminalAssignment
<1>11. (\A b \in Assignments : LivePhase(b)') /\ OneHolder'
  BY <1>1, <1>3, <1>4, <1>5, <1>6, <1>8, <1>10, HolderMoves
<1>12. (task[t].phase # "done" /\ task'[t].phase # "done") \/ task'[t] = task[t]
  <2>1. CASE o.op # "cancel"
    <3>1. task[t].phase = "inProgress"
      BY <1>1, <1>3, <2>1 DEF Mixed, LivePhase
    <3>2. task'[t].phase \in {"verifying", "blocked"}
      BY <1>1, <1>2, <2>1
         DEF CallbackCommit, FailureCommit, ExpireCommit, Commits, PutTask, RevisedTask, TypeOK
    <3> QED
      BY <3>1, <3>2
  <2>2. CASE o.op = "cancel" /\ WritesTask(o)
    <3>1. task'[t].phase = "cancelled"
      BY <1>1, <1>2, <2>2 DEF CancelCommit, PutTask, RevisedTask, TypeOK
    <3> QED
      BY <1>3, <2>2, <3>1 DEF WritesTask
  <2>3. CASE o.op = "cancel" /\ ~WritesTask(o)
    BY <1>2, <2>3 DEF CancelCommit
  <2> QED
    BY <2>1, <2>2, <2>3
<1>13. DoneIsAccepted'
  <2>1. \A u \in Tasks : task'[u].phase = "done" <=> task[u].phase = "done"
    BY <1>6, <1>12
  <2>2. \A b \in Assignments : asg[b].state = "closed" => asg'[b] = asg[b]
    BY <1>3, <1>5 DEF IsLive, LiveAssignment
  <2> QED BY <1>1, <1>7, <2>1, <2>2, AcceptedStays DEF Mixed
<1> QED
  BY <1>11, <1>13 DEF Mixed

\* A verdict ends one Assignment and leaves the holder of the Task, who may be
\* another, with a Task that is done or blocked.
LEMMA MixedVerdict ==
    ASSUME MixedInv, TypeOK', NEW p \in Procs, VerifyCommit(p)
    PROVE  Mixed'
<1> DEFINE o == pend[p]
<1>1. TypeOK /\ ReadInv /\ Mixed /\ Checked(o)
  BY DEF MixedInv, ReadInv, Mixed
<1>2. o.op = "verify" /\ CasHolds(o) /\ o.op \in Mutations /\ WritesTask(o)
  BY DEF VerifyCommit, Commits, Mutations, WritesTask
<1> SUFFICES ASSUME NEW a \in Assignments, a = o.asg, NEW t \in Tasks, t = o.task
             PROVE  Mixed'
  BY <1>2, MixedReplaces
<1>3. /\ asg[a].state = "submitted" /\ task[t].phase = "verifying"
      /\ o.by # asg[a].agent /\ asg[a] = o.seen.asg
  BY <1>1, <1>2, MixedReplaces DEF Checked
<1>4. \A b \in Assignments \ {a} : asg'[b] = asg[b] /\ lease'[b] = lease[b]
  BY <1>1, CommitLocal
<1>5. \A u \in Tasks \ {t} : task'[u] = task[u]
  BY <1>1 DEF VerifyCommit, PutTask, TypeOK
<1>6. /\ task'[t].phase = IF o.passed THEN "done" ELSE "blocked"
      /\ task'[t].reason = IF o.passed THEN "VerificationPassed" ELSE "VerificationFailed"
      /\ asg'[a].state = IF o.passed THEN "closed" ELSE "failed"
      /\ asg'[a].agent = asg[a].agent
      /\ lease' = lease
  BY <1>1, <1>3 DEF VerifyCommit, PutTask, PutAsg, RevisedTask, RevisedAsg, TypeOK
<1>7. LivePhase(a)'
  BY <1>1, <1>3, <1>6 DEF Mixed, LivePhase, LeaseIsLive
<1>8. ASSUME NEW b \in Assignments \ {a}, IsLive(b), asg[b].task = t
      PROVE  LivePhase(b)'
  <2>1. asg[b].state = "submitted" /\ ~LeaseIsLive(b)
    BY <1>1, <1>3, <1>8 DEF Mixed, LivePhase, IsLive, LiveAssignment
  <2> QED
    BY <1>4, <1>6, <1>8, <2>1 DEF LivePhase, LeaseIsLive
<1>9. ~IsLive(a)'
  BY <1>6 DEF IsLive, LiveAssignment
<1>10. (\A b \in Assignments : LivePhase(b)') /\ OneHolder'
  BY <1>1, <1>4, <1>5, <1>7, <1>8, <1>9, HolderMoves
<1>11. DoneIsAccepted'
  <2>1. CASE o.passed
    <3>1. accepted' = accepted \cup {[task |-> t, asg |-> a, by |-> o.by]}
      BY <2>1 DEF VerifyCommit
    <3>2. /\ task[t].phase # "done" /\ asg[a].state # "closed"
          /\ task'[t].phase = "done" /\ asg'[a].state = "closed" /\ o.by # asg'[a].agent
      BY <1>3, <1>6, <2>1
    <3> QED
      BY <1>1, <1>4, <1>5, <3>1, <3>2, AcceptedGrows DEF Mixed
  <2>2. CASE ~o.passed
    <3>1. accepted' = accepted
      BY <2>2 DEF VerifyCommit
    <3>2. \A u \in Tasks : task'[u].phase = "done" <=> task[u].phase = "done"
      BY <1>3, <1>5, <1>6, <2>2
    <3>3. \A b \in Assignments : asg[b].state = "closed" => asg'[b] = asg[b]
      BY <1>3, <1>4
    <3> QED
      BY <1>1, <3>1, <3>2, <3>3, AcceptedStays DEF Mixed
  <2> QED
    BY <2>1, <2>2
<1> QED
  BY <1>10, <1>11 DEF Mixed

\* A heartbeat renews a live Lease.
LEMMA MixedRenews ==
    ASSUME MixedInv, TypeOK', NEW p \in Procs, HeartbeatCommit(p)
    PROVE  Mixed'
<1> DEFINE o == pend[p]
<1>1. TypeOK /\ ReadInv /\ Mixed /\ Checked(o)
  BY DEF MixedInv, ReadInv, Mixed
<1>2. o.op = "heartbeat" /\ CasHolds(o) /\ o.op \in Mutations /\ WritesLease(o)
  BY DEF HeartbeatCommit, Commits, Mutations, WritesLease
<1>3. o.asg \in Assignments /\ lease[o.asg].state \in LiveLease
  BY <1>1, <1>2, MixedReplaces DEF Checked
<1>4. \A b \in Assignments : LeaseIsLive(b)' <=> LeaseIsLive(b)
  BY <1>1, <1>3 DEF HeartbeatCommit, PutLease, Revised, LeaseIsLive, LiveLease, TypeOK
<1>5. UNCHANGED <<task, asg, accepted>>
  BY DEF HeartbeatCommit
<1> QED
  BY <1>1, <1>4, <1>5 DEF Mixed, LivePhase, OneHolder, DoneIsAccepted, IsLive

\* MixedInv is inductive.
LEMMA MixedInvStep ==
    ASSUME MixedInv, [Next]_vars
    PROVE  MixedInv'
<1>1. ReadInv' /\ TypeOK' /\ Mixed
  BY ReadInvStep DEF MixedInv, Mixed, ReadInv
<1>2. \A p \in Procs : Checked(pend'[p])
  BY CheckedStep
<1>3. ASSUME NEW p \in Procs,
             \/ DispatchCommit(p) \/ CallbackCommit(p) \/ FailureCommit(p)
             \/ VerifyCommit(p) \/ HeartbeatCommit(p) \/ CancelCommit(p)
             \/ ExpireCommit(p)
      PROVE  Mixed'
  BY <1>1, <1>3, MixedDispatch, MixedEnds, MixedVerdict, MixedRenews
<1>4. ASSUME NEW p \in Procs,
             \/ \E a \in Assignments, t \in Tasks, g \in Agents : DispatchRead(p, a, t, g)
             \/ \E a \in Assignments, o \in {"callback", "failure"} : ReportRead(p, o, a)
             \/ \E t \in Tasks, a \in Assignments, by \in Actors, passed \in BOOLEAN :
                   VerifyRead(p, t, a, by, passed)
             \/ \E a \in Assignments : HeartbeatRead(p, a)
             \/ \E a \in Assignments : CancelRead(p, a)
             \/ \E a \in Assignments : ExpireRead(p, a)
             \/ \E a \in Assignments : ObserveElapsed(p, a)
             \/ \E k \in EffectKinds, a \in Assignments : EffectCheck(p, k, a)
             \/ ExpireRefused(p) \/ Conflict(p) \/ Crash(p)
             \/ EffectReserve(p) \/ EffectDone(p)
      PROVE  UNCHANGED <<task, asg, lease, accepted>>
  BY <1>4 DEF DispatchRead, ReportRead, VerifyRead, HeartbeatRead, CancelRead,
              ExpireRead, ObserveElapsed, EffectCheck, ExpireRefused, Conflict, Crash,
              EffectReserve, EffectDone, NothingStored, records
<1>5. ASSUME \/ \E a \in Assignments : Elapse(a)
             \/ \E k \in EffectKinds, a \in Assignments : EffectReconcile(k, a)
             \/ UNCHANGED vars
      PROVE  UNCHANGED <<task, asg, lease, accepted>>
  BY <1>5 DEF Elapse, EffectReconcile, vars, records
<1>6. Mixed'
  BY <1>1, <1>3, <1>4, <1>5, MixedStutters DEF Next, ProcNext
<1> QED
  BY <1>1, <1>2, <1>6 DEF MixedInv, Mixed

\* MixedInv holds of every behaviour, whichever pairs verify is given.
THEOREM MixedHolds == Spec => []MixedInv
<1>1. Init => MixedInv
  <2> SUFFICES ASSUME Init PROVE MixedInv
    OBVIOUS
  <2>1. ReadInv
    BY LaneStarts DEF LaneInv
  <2>2. \A p \in Procs : Checked(pend[p])
    BY DEF Init, Checked, Idle, Waiting, Mutations
  <2>3. \A a \in Assignments : asg[a].state = "none" /\ lease[a].state = "none"
    BY DEF Init, NoneAsg, None
  <2>4. accepted = {} /\ \A t \in Tasks : task[t].phase = "backlog"
    BY DEF Init, NewTask
  <2> QED
    BY <2>1, <2>2, <2>3, <2>4
       DEF MixedInv, LivePhase, OneHolder, DoneIsAccepted, IsLive, LeaseIsLive,
           LiveAssignment, LiveLease
<1>2. MixedInv /\ [Next]_vars => MixedInv'
  BY MixedInvStep
<1> QED
  BY <1>1, <1>2, PTL DEF Spec

\* However many processes dispatch, recover, report and verify, and whatever pairs
\* verify is given, no Task ever has two live Assignments or two live Leases.
THEOREM LaneIsSingle == Spec => []OneLiveLane
<1>1. MixedInv => OneLiveLane
  BY DEF MixedInv, LivePhase, OneHolder, OneLiveLane, IsLive, LiveAssignment
<1> QED
  BY <1>1, MixedHolds, PTL

\* Whatever pairs verify is given: a Task is done only when a result was accepted for
\* it by somebody else than the Agent of that result, what was accepted stays, and
\* neither a Task nor a result is accepted twice.
THEOREM DoneWasAccepted == Spec => []DoneIsAccepted
<1>1. MixedInv => DoneIsAccepted
  BY DEF MixedInv
<1> QED
  BY <1>1, MixedHolds, PTL

-----------------------------------------------------------------------------
(* What has ended (EndedStays).                                            *)

\* A commit writes records that have not ended.
LEMMA CommitSpares ==
    ASSUME LaneInv, NEW p \in Procs,
           \/ DispatchCommit(p) \/ CallbackCommit(p) \/ FailureCommit(p)
           \/ VerifyCommit(p) \/ HeartbeatCommit(p) \/ CancelCommit(p)
           \/ ExpireCommit(p)
    PROVE  LET o == pend[p] IN
           /\ WritesTask(o) => task[o.task].phase \notin {"done", "cancelled"}
           /\ WritesAsg(o) => asg[o.asg].state \notin TerminalAssignment
           /\ WritesLease(o) =>
                 lease[o.asg].state \notin {"released", "revoked", "expired"}
           /\ WritesSess(o) =>
                 sess[o.asg].state \notin {"closed", "failed", "expired"}
<1> DEFINE o == pend[p]
<1>1. ReadInv /\ Lane /\ Guarded(o)
  BY DEF LaneInv, Lane
<1>2. /\ o.op \in Mutations /\ CasHolds(o)
      /\ o.asg \in Assignments /\ o.task \in Tasks
  BY <1>1, PendingTypes
     DEF DispatchCommit, CallbackCommit, FailureCommit, VerifyCommit, HeartbeatCommit,
         CancelCommit, ExpireCommit, Commits, Mutations, ReadInv
<1>3. /\ WritesTask(o) => task[o.task] = o.seen.task
      /\ WritesAsg(o) => asg[o.asg] = o.seen.asg
      /\ WritesLease(o) => lease[o.asg] = o.seen.lease
      /\ WritesSess(o) => sess[o.asg] = o.seen.sess
  BY <1>1, <1>2, CasMeans
<1>4. CASE o.op = "dispatch"
  <2>1. o.seen.asg.state = "none" /\ o.seen.task.phase \in {"backlog", "blocked"}
    BY <1>1, <1>2, <1>4 DEF ReadInv, Existing, Guarded
  <2>2. asg[o.asg].state = "none"
    BY <1>3, <1>4, <2>1 DEF WritesAsg
  <2>3. lease[o.asg] = None /\ sess[o.asg] = None
    BY <1>1, <1>2, <2>2 DEF ReadInv, Fresh
  <2> QED
    BY <1>3, <2>1, <2>2, <2>3 DEF None, TerminalAssignment
<1>5. CASE o.op \in {"callback", "failure", "expire"}
  <2>1. asg[o.asg].state = "running" /\ o.task = asg[o.asg].task
    BY <1>1, <1>2, <1>5, CommitReplaces
  <2>2. /\ task[o.task].phase = "inProgress" /\ LeaseIsLive(o.asg)
        /\ sess[o.asg].state = "active"
    BY <1>1, <1>2, <2>1 DEF Lane, PhaseAgreement, AsgAgrees
  <2> QED
    BY <2>1, <2>2 DEF TerminalAssignment, LeaseIsLive, LiveLease
<1>6. CASE o.op = "verify"
  <2>1. asg[o.asg].state = "submitted" /\ o.task = asg[o.asg].task
    BY <1>1, <1>2, <1>6, CommitReplaces
  <2>2. task[o.task].phase = "verifying" /\ sess[o.asg].state = "closing"
    BY <1>1, <1>2, <2>1 DEF Lane, PhaseAgreement, AsgAgrees
  <2> QED
    BY <1>6, <2>1, <2>2 DEF TerminalAssignment, WritesLease
<1>7. CASE o.op = "heartbeat"
  BY <1>1, <1>3, <1>7
     DEF WritesTask, WritesAsg, Guarded, LiveLease
<1>8. CASE o.op = "cancel"
  <2>1. IsLive(o.asg) /\ o.seen.task.phase \in {"inProgress", "verifying"}
    BY <1>1, <1>2, <1>8, CommitReplaces DEF Guarded
  <2> QED
    BY <1>3, <1>8, <2>1
       DEF WritesLease, WritesSess, IsLive, LiveAssignment, LiveLease, TerminalAssignment
<1> QED
  BY <1>2, <1>4, <1>5, <1>6, <1>7, <1>8 DEF Mutations

\* A commit replaces no other records than those it says it writes.
LEMMA CommitWrites ==
    ASSUME ReadInv, NEW p \in Procs,
           \/ DispatchCommit(p) \/ CallbackCommit(p) \/ FailureCommit(p)
           \/ VerifyCommit(p) \/ HeartbeatCommit(p) \/ CancelCommit(p)
           \/ ExpireCommit(p)
    PROVE  LET o == pend[p] IN
           /\ \A t \in Tasks : t # o.task \/ ~WritesTask(o) => task'[t] = task[t]
           /\ ~WritesAsg(o) => asg' = asg
           /\ ~WritesLease(o) => lease' = lease
           /\ ~WritesSess(o) => sess' = sess
<1> DEFINE o == pend[p]
<1>1. task \in [Tasks -> Task] /\ o.task \in Tasks
  BY PendingTypes DEF ReadInv, TypeOK
<1>2. CASE DispatchCommit(p) \/ CallbackCommit(p) \/ FailureCommit(p) \/ ExpireCommit(p)
  <2>1. WritesTask(o) /\ WritesAsg(o) /\ WritesLease(o) /\ WritesSess(o)
    BY <1>2
       DEF DispatchCommit, CallbackCommit, FailureCommit, ExpireCommit, Commits,
           WritesTask, WritesAsg, WritesLease, WritesSess
  <2> QED
    BY <1>1, <1>2, <2>1
       DEF DispatchCommit, CallbackCommit, FailureCommit, ExpireCommit, PutTask
<1>3. CASE VerifyCommit(p)
  <2>1. /\ o.op = "verify" /\ WritesTask(o) /\ WritesAsg(o)
        /\ WritesSess(o) <=> o.seen.sess.state = "closing"
    BY <1>3 DEF VerifyCommit, Commits, WritesTask, WritesAsg, WritesSess
  <2>2. lease' = lease /\ (~WritesSess(o) => sess' = sess)
    BY <1>3, <2>1 DEF VerifyCommit
  <2>3. \A t \in Tasks : t # o.task => task'[t] = task[t]
    BY <1>1, <1>3 DEF VerifyCommit, PutTask
  <2> QED
    BY <2>1, <2>2, <2>3
<1>4. CASE HeartbeatCommit(p)
  <2>1. o.op = "heartbeat" /\ WritesLease(o) /\ WritesSess(o)
    BY <1>4 DEF HeartbeatCommit, Commits, WritesLease, WritesSess
  <2>2. task' = task /\ asg' = asg
    BY <1>4 DEF HeartbeatCommit
  <2> QED
    BY <2>1, <2>2
<1>5. CASE CancelCommit(p)
  <2>1. o.op = "cancel" /\ WritesAsg(o)
    BY <1>5 DEF CancelCommit, Commits, WritesAsg
  <2>2. /\ ~WritesLease(o) => lease' = lease
        /\ ~WritesSess(o) => sess' = sess
        /\ ~WritesTask(o) => task' = task
        /\ \A t \in Tasks : t # o.task => task'[t] = task[t]
    BY <1>1, <1>5 DEF CancelCommit, PutTask
  <2> QED
    BY <2>1, <2>2
<1> QED
  BY <1>2, <1>3, <1>4, <1>5

\* No step changes what has ended.
LEMMA EndedStep ==
    ASSUME LaneInv, [Next]_vars
    PROVE  EndedKept
<1>1. ASSUME NEW p \in Procs,
             \/ DispatchCommit(p) \/ CallbackCommit(p) \/ FailureCommit(p)
             \/ VerifyCommit(p) \/ HeartbeatCommit(p) \/ CancelCommit(p)
             \/ ExpireCommit(p)
      PROVE  EndedKept
  <2>1. ReadInv
    BY DEF LaneInv
  <2>2. \A t \in Tasks : task[t].phase \in {"done", "cancelled"} => task'[t] = task[t]
    BY <1>1, <2>1, CommitSpares, CommitWrites
  <2>3. ASSUME NEW a \in Assignments
        PROVE  /\ asg[a].state \in TerminalAssignment => asg'[a] = asg[a]
               /\ lease[a].state \in {"released", "revoked", "expired"} =>
                     lease'[a] = lease[a]
               /\ sess[a].state \in {"closed", "failed", "expired"} =>
                     sess'[a] = sess[a]
    <3>1. CASE a = pend[p].asg
      BY <1>1, <2>1, <3>1, CommitSpares, CommitWrites
    <3>2. CASE a # pend[p].asg
      BY <1>1, <2>1, <3>2, CommitLocal
    <3> QED
      BY <3>1, <3>2
  <2> QED
    BY <2>2, <2>3 DEF EndedKept
<1>2. ASSUME UNCHANGED <<task, asg, lease, sess>>
      PROVE  EndedKept
  BY <1>2 DEF EndedKept
<1>3. ASSUME NEW p \in Procs,
             \/ \E a \in Assignments, t \in Tasks, g \in Agents : DispatchRead(p, a, t, g)
             \/ \E a \in Assignments, o \in {"callback", "failure"} : ReportRead(p, o, a)
             \/ \E t \in Tasks, a \in Assignments, by \in Actors, passed \in BOOLEAN :
                   VerifyRead(p, t, a, by, passed)
             \/ \E a \in Assignments : HeartbeatRead(p, a)
             \/ \E a \in Assignments : CancelRead(p, a)
             \/ \E a \in Assignments : ExpireRead(p, a)
             \/ \E a \in Assignments : ObserveElapsed(p, a)
             \/ \E k \in EffectKinds, a \in Assignments : EffectCheck(p, k, a)
             \/ ExpireRefused(p) \/ Conflict(p) \/ Crash(p)
             \/ EffectReserve(p) \/ EffectDone(p)
      PROVE  EndedKept
  <2>1. UNCHANGED <<task, asg, lease, sess>>
    BY <1>3 DEF DispatchRead, ReportRead, VerifyRead, HeartbeatRead, CancelRead,
                ExpireRead, ObserveElapsed, EffectCheck, ExpireRefused, Conflict, Crash,
                EffectReserve, EffectDone, NothingStored, records
  <2> QED
    BY <1>2, <2>1
<1>4. ASSUME \/ \E a \in Assignments : Elapse(a)
             \/ \E k \in EffectKinds, a \in Assignments : EffectReconcile(k, a)
             \/ UNCHANGED vars
      PROVE  EndedKept
  BY <1>2, <1>4 DEF Elapse, EffectReconcile, vars, records
<1> QED
  BY <1>1, <1>3, <1>4 DEF Next, ProcNext

\* What has ended stays as it is: no process that read a Task, an Assignment, a Lease
\* or a Session while it was live can write it back after it ended.
THEOREM EndedIsFinal ==
    ASSUME MixedVerify = FALSE
    PROVE  Spec => EndedStays
<1>1. LaneInv /\ [Next]_vars => [EndedKept]_vars
  BY EndedStep
<1> QED
  BY <1>1, LaneHolds, PTL DEF Spec, EndedStays

----------------------------------------------------------------------------
(* What TaskGovernance sees of the records.                                 *)

PhaseOf(k) ==
    IF k.phase = "blocked" /\ k.reason = "LeaseExpired" THEN "interrupted" ELSE k.phase

\* A step that leaves Tasks and Assignments alone shows nothing.
LEMMA GovernanceStutters ==
    ASSUME UNCHANGED <<task, asg>>
    PROVE  UNCHANGED <<Phases, Lanes, Used>>
BY DEF Phases, Lanes, Used, Of, IsLive

\* Nobody holds a Task that is not worked on; a live Assignment holds its Task alone.
LEMMA LaneHolder ==
    ASSUME TypeOK, Lane, NEW t \in Tasks
    PROVE  /\ task[t].phase \in {"backlog", "blocked"} => Lanes[t] = {}
           /\ \A a \in Assignments : IsLive(a) /\ asg[a].task = t => Lanes[t] = {a}
<1>1. Lanes[t] = {a \in Of(t) : IsLive(a)}
  BY DEF Lanes
<1>2. ASSUME NEW a \in Lanes[t]
      PROVE  task[t].phase \notin {"backlog", "blocked"}
  <2>1. a \in Assignments /\ asg[a].task = t /\ IsLive(a)
    BY <1>1 DEF Of
  <2> QED
    BY <2>1 DEF Lane, PhaseAgreement, AsgAgrees, IsLive, LiveAssignment
<1>3. ASSUME NEW a \in Assignments, IsLive(a), asg[a].task = t
      PROVE  Lanes[t] = {a}
  <2>1. a \in Lanes[t]
    BY <1>1, <1>3 DEF Of, IsLive, LiveAssignment
  <2>2. \A b \in Lanes[t] : b = a
    BY <1>1, <1>3 DEF Of, Lane, OneLiveLane, IsLive, LiveAssignment
  <2> QED BY <2>1, <2>2
<1> QED
  BY <1>2, <1>3

\* A commit that replaces a Task and an Assignment of it, and no other.
Writes(a, t) ==
    /\ \A b \in Assignments \ {a} : asg'[b] = asg[b]
    /\ \A u \in Tasks \ {t} : task'[u] = task[u]
    /\ asg'[a].task = t /\ asg'[a].state # "none"
    /\ asg[a].state = "none" \/ asg[a].task = t

\* One Task comes to a phase and to who holds it, and no other Task changes.
Shows(t, ph, holders) ==
    /\ Phases'[t] = ph /\ Lanes'[t] = holders
    /\ \A u \in Tasks \ {t} : Phases'[u] = Phases[u] /\ Lanes'[u] = Lanes[u]

LEMMA ShowsMeans ==
    ASSUME NEW t \in Tasks, NEW ph, NEW holders, Shows(t, ph, holders)
    PROVE  Phases' = [Phases EXCEPT ![t] = ph] /\ Lanes' = [Lanes EXCEPT ![t] = holders]
<1>1. \A u \in Tasks : /\ Phases'[u] = [Phases EXCEPT ![t] = ph][u]
                       /\ Lanes'[u] = [Lanes EXCEPT ![t] = holders][u]
  BY DEF Shows, Phases, Lanes
<1> QED
  BY <1>1 DEF Phases, Lanes

LEMMA WriteShows ==
    ASSUME NEW a \in Assignments, NEW t \in Tasks, Writes(a, t)
    PROVE  /\ Shows(t, PhaseOf(task'[t]),
                    IF asg'[a].state \in LiveAssignment THEN Lanes[t] \cup {a}
                                                        ELSE Lanes[t] \ {a})
           /\ Used' = Used \cup {a}
<1> USE DEF Writes
<1>1. Phases'[t] = PhaseOf(task'[t])
  BY DEF Phases, PhaseOf
<1>2. \A u \in Tasks \ {t} : Phases'[u] = Phases[u]
  BY DEF Phases
<1>3. \A u \in Tasks : /\ Lanes[u] = {b \in Of(u) : IsLive(b)}
                       /\ Lanes'[u] = {b \in Of(u)' : IsLive(b)'}
  BY DEF Lanes
<1>4. Lanes'[t] = IF asg'[a].state \in LiveAssignment THEN Lanes[t] \cup {a} ELSE Lanes[t] \ {a}
  <2>1. Lanes'[t] \subseteq Assignments /\ Lanes[t] \subseteq Assignments
    BY <1>3 DEF Of
  <2>2. \A b \in Assignments \ {a} : b \in Lanes'[t] <=> b \in Lanes[t]
    BY <1>3 DEF Of, IsLive
  <2>3. a \in Lanes'[t] <=> asg'[a].state \in LiveAssignment
    BY <1>3 DEF Of, IsLive
  <2> QED BY <2>1, <2>2, <2>3
<1>5. ASSUME NEW u \in Tasks \ {t} PROVE Lanes'[u] = Lanes[u]
  <2>1. Lanes'[u] \subseteq Assignments /\ Lanes[u] \subseteq Assignments
    BY <1>3 DEF Of
  <2>2. \A b \in Assignments \ {a} : b \in Lanes'[u] <=> b \in Lanes[u]
    BY <1>3 DEF Of, IsLive
  <2>3. a \notin Lanes'[u] /\ a \notin Lanes[u]
    BY <1>3 DEF Of
  <2> QED BY <2>1, <2>2, <2>3
<1>6. Used' = Used \cup {a}
  BY DEF Used
<1> QED
  BY <1>1, <1>2, <1>4, <1>5, <1>6 DEF Shows

----------------------------------------------------------------------------
(* Each commit is a step of TaskGovernance.                                 *)

LEMMA DispatchOpens ==
    ASSUME LaneInv, NEW p \in Procs, DispatchCommit(p)
    PROVE  Governance!Next
<1> DEFINE o == pend[p]
<1>1. ReadInv /\ TypeOK /\ Lane /\ Guarded(o)
  BY DEF LaneInv, Lane, ReadInv
<1>2. /\ o.op = "dispatch" /\ CasHolds(o) /\ o.op \in Mutations
      /\ o.asg \in Assignments /\ o.task \in Tasks
  BY <1>1, PendingTypes DEF DispatchCommit, Commits, Mutations
<1> SUFFICES ASSUME NEW a \in Assignments, a = o.asg, NEW t \in Tasks, t = o.task
             PROVE  Governance!Next
  BY <1>2
<1>3. task[t] = o.seen.task /\ asg[a] = o.seen.asg
  BY <1>1, <1>2, CasMeans DEF WritesTask, WritesAsg
<1>4. /\ asg[a].state = "none" /\ task[t].phase \in {"backlog", "blocked"}
      /\ PhaseOf(task[t]) \in {"backlog", "interrupted"}
  BY <1>1, <1>2, <1>3 DEF Guarded, ReadInv, Existing, PhaseOf
<1>5. /\ Writes(a, t) /\ asg'[a].state = "running"
      /\ task'[t].phase = "inProgress"
  <2>1. /\ task' = [task EXCEPT ![t] = [phase |-> "inProgress", reason |-> "AssignmentRunning",
                                        rev |-> o.seen.task.rev + 2]]
        /\ asg' = [asg EXCEPT ![a] = [state |-> "running", task |-> t, agent |-> o.by,
                                      rev |-> 3]]
    BY DEF DispatchCommit
  <2>2. /\ \A b \in Assignments \ {a} : asg'[b] = asg[b]
        /\ asg'[a].task = t /\ asg'[a].state = "running"
    BY <1>1, <2>1 DEF TypeOK
  <2>3. /\ \A u \in Tasks \ {t} : task'[u] = task[u]
        /\ task'[t].phase = "inProgress"
    BY <1>1, <2>1 DEF TypeOK
  <2> QED BY <1>4, <2>2, <2>3 DEF Writes
<1>6. Lanes[t] = {} /\ Phases[t] \in {"backlog", "interrupted"} /\ a \notin Used
  BY <1>1, <1>4, LaneHolder DEF Phases, PhaseOf, Used
<1>7. /\ PhaseOf(task'[t]) = "inProgress"
      /\ {a} = IF asg'[a].state \in LiveAssignment THEN Lanes[t] \cup {a} ELSE Lanes[t] \ {a}
  BY <1>5, <1>6 DEF PhaseOf, LiveAssignment
<1>8. Shows(t, "inProgress", {a}) /\ Used' = Used \cup {a}
  <2>1. Shows(t, PhaseOf(task'[t]),
              IF asg'[a].state \in LiveAssignment THEN Lanes[t] \cup {a} ELSE Lanes[t] \ {a})
        /\ Used' = Used \cup {a}
    BY <1>5, WriteShows
  <2> QED BY <1>7, <2>1, Zenon
<1>9. Governance!Open(t, a)
  BY <1>6, <1>8, ShowsMeans DEF Governance!Open
<1> QED
  BY <1>9 DEF Governance!Next

\* What a report, a verdict, a cancellation or an expiry writes and shows.
LEMMA EndingShows ==
    ASSUME LaneInv, NEW p \in Procs, CasHolds(pend[p]),
           pend[p].op \in {"callback", "failure", "verify", "cancel", "expire"},
           NEW s \in {"submitted"} \cup TerminalAssignment, NEW ph, NEW why,
           PutAsg(p, s), PutTask(p, ph, why)
    PROVE  /\ pend[p].task \in Tasks
           /\ Phases[pend[p].task] = IF asg[pend[p].asg].state = "running"
                                     THEN "inProgress" ELSE "verifying"
           /\ Shows(pend[p].task,
                    IF ph = "blocked" /\ why = "LeaseExpired" THEN "interrupted" ELSE ph,
                    IF s = "submitted" THEN Lanes[pend[p].task] ELSE {})
           /\ Used' = Used
<1> DEFINE o == pend[p]
<1>1. ReadInv /\ TypeOK /\ Lane /\ Guarded(o)
  BY DEF LaneInv, Lane, ReadInv
<1>2. o.asg \in Assignments /\ asg[o.asg] = o.seen.asg /\ o.task = asg[o.asg].task /\ IsLive(o.asg)
  BY <1>1, CommitReplaces
<1>3. o.task \in Tasks
  BY <1>1, <1>2 DEF TypeOK, Assignment
<1> SUFFICES ASSUME NEW a \in Assignments, a = o.asg, NEW t \in Tasks, t = o.task
             PROVE  /\ Phases[t] = IF asg[a].state = "running" THEN "inProgress" ELSE "verifying"
                    /\ Shows(t,
                         IF ph = "blocked" /\ why = "LeaseExpired" THEN "interrupted" ELSE ph,
                         IF s = "submitted" THEN Lanes[t] ELSE {})
                    /\ Used' = Used
  BY <1>2, <1>3
<1>4. s # "none" /\ (s \in LiveAssignment <=> s = "submitted")
  BY DEF TerminalAssignment, LiveAssignment
<1>5. /\ Writes(a, t) /\ asg'[a].state = s
      /\ task'[t].phase = ph /\ task'[t].reason = why
  BY <1>1, <1>2, <1>4 DEF PutTask, PutAsg, RevisedTask, RevisedAsg, Writes, TypeOK
<1>6. Phases[t] = IF asg[a].state = "running" THEN "inProgress" ELSE "verifying"
  BY <1>1, <1>2 DEF Lane, PhaseAgreement, AsgAgrees, IsLive, LiveAssignment, Phases
<1>7. Lanes[t] = {a} /\ a \in Used
  BY <1>1, <1>2, LaneHolder DEF Used, IsLive, LiveAssignment
<1>8. /\ PhaseOf(task'[t]) =
           IF ph = "blocked" /\ why = "LeaseExpired" THEN "interrupted" ELSE ph
      /\ (IF asg'[a].state \in LiveAssignment THEN Lanes[t] \cup {a} ELSE Lanes[t] \ {a}) =
           IF s = "submitted" THEN Lanes[t] ELSE {}
  BY <1>4, <1>5, <1>7 DEF PhaseOf
<1>9. Shows(t, PhaseOf(task'[t]),
            IF asg'[a].state \in LiveAssignment THEN Lanes[t] \cup {a} ELSE Lanes[t] \ {a})
      /\ Used' = Used \cup {a}
  BY <1>5, WriteShows
<1> QED
  BY <1>6, <1>7, <1>8, <1>9

LEMMA CallbackSubmits ==
    ASSUME LaneInv, NEW p \in Procs, CallbackCommit(p)
    PROVE  Governance!Next
<1>1. /\ pend[p].op = "callback" /\ CasHolds(pend[p])
      /\ PutAsg(p, "submitted") /\ PutTask(p, "verifying", "CallbackSubmitted")
  BY DEF CallbackCommit, Commits
<1>2. asg[pend[p].asg].state = "running"
  BY <1>1, CommitReplaces DEF LaneInv, Lane
<1> SUFFICES ASSUME NEW t, t = pend[p].task
             PROVE  Governance!Next
  OBVIOUS
<1>3. /\ t \in Tasks /\ Phases[t] = "inProgress" /\ Shows(t, "verifying", Lanes[t])
      /\ Used' = Used
  BY <1>1, <1>2, EndingShows
<1>4. Phases' = [Phases EXCEPT ![t] = "verifying"] /\ Lanes' = [Lanes EXCEPT ![t] = Lanes[t]]
  BY <1>3, ShowsMeans
<1>5. Lanes' = Lanes
  BY <1>4 DEF Lanes
<1> QED
  BY <1>3, <1>4, <1>5 DEF Governance!Next, Governance!Submit

\* The lane is left, to the phase that the commit writes.
LEMMA EndingLeaves ==
    ASSUME LaneInv, NEW p \in Procs, CasHolds(pend[p]),
           pend[p].op \in {"failure", "verify", "cancel", "expire"},
           NEW s \in TerminalAssignment, NEW ph, NEW why,
           PutAsg(p, s), PutTask(p, ph, why)
    PROVE  Governance!Leave(pend[p].task,
              IF asg[pend[p].asg].state = "running" THEN "inProgress" ELSE "verifying",
              IF ph = "blocked" /\ why = "LeaseExpired" THEN "interrupted" ELSE ph)
<1> SUFFICES ASSUME NEW t, t = pend[p].task,
                    NEW from, from = IF asg[pend[p].asg].state = "running"
                                     THEN "inProgress" ELSE "verifying",
                    NEW to, to = IF ph = "blocked" /\ why = "LeaseExpired"
                                 THEN "interrupted" ELSE ph
             PROVE  Governance!Leave(t, from, to)
  OBVIOUS
<1>1. s # "submitted"
  BY DEF TerminalAssignment
<1>2. t \in Tasks /\ Phases[t] = from /\ Shows(t, to, {}) /\ Used' = Used
  BY <1>1, EndingShows
<1> QED
  BY <1>2, ShowsMeans DEF Governance!Leave

LEMMA CommitLeaves ==
    ASSUME LaneInv, NEW p \in Procs,
           FailureCommit(p) \/ ExpireCommit(p) \/ VerifyCommit(p) \/ CancelCommit(p)
    PROVE  Governance!Next
<1> DEFINE o == pend[p]
           Leaves(from, to) == Governance!Leave(o.task, from, to)
<1>1. ReadInv /\ Lane /\ Guarded(o)
  BY DEF LaneInv, Lane
<1>2. o.op \in {"failure", "verify", "cancel", "expire"} /\ CasHolds(o)
  BY DEF FailureCommit, ExpireCommit, VerifyCommit, CancelCommit, Commits
<1>3. /\ o.asg \in Assignments /\ o.task \in Tasks /\ IsLive(o.asg)
      /\ o.op = "verify" => asg[o.asg].state = "submitted"
      /\ o.op \in {"failure", "expire"} => asg[o.asg].state = "running"
  BY <1>1, <1>2, CommitReplaces, PendingTypes DEF ReadInv
<1>4. {"failed", "expired", "closed", "cancelled"} \subseteq TerminalAssignment
  BY DEF TerminalAssignment
<1>5. CASE FailureCommit(p)
  <2>1. o.op = "failure" /\ PutAsg(p, "failed") /\ PutTask(p, "blocked", "ProviderExecutionFailed")
    BY <1>5 DEF FailureCommit, Commits
  <2>2. Leaves("inProgress", "blocked")
    BY <1>2, <1>3, <1>4, <2>1, EndingLeaves
  <2> QED BY <1>3, <2>2 DEF Governance!Next
<1>6. CASE ExpireCommit(p)
  <2>1. o.op = "expire" /\ PutAsg(p, "expired") /\ PutTask(p, "blocked", "LeaseExpired")
    BY <1>6 DEF ExpireCommit, Commits
  <2>2. Leaves("inProgress", "interrupted")
    BY <1>2, <1>3, <1>4, <2>1, EndingLeaves
  <2> QED BY <1>3, <2>2 DEF Governance!Next
<1>7. CASE VerifyCommit(p)
  <2>1. /\ o.op = "verify"
        /\ o.passed => PutAsg(p, "closed") /\ PutTask(p, "done", "VerificationPassed")
        /\ ~o.passed => PutAsg(p, "failed") /\ PutTask(p, "blocked", "VerificationFailed")
    BY <1>7 DEF VerifyCommit, Commits
  <2>2. o.passed => Leaves("verifying", "done")
    BY <1>2, <1>3, <1>4, <2>1, EndingLeaves
  <2>3. ~o.passed => Leaves("verifying", "blocked")
    BY <1>2, <1>3, <1>4, <2>1, EndingLeaves
  <2> QED BY <1>3, <2>2, <2>3 DEF Governance!Next
<1>8. CASE CancelCommit(p)
  <2>1. o.op = "cancel" /\ PutAsg(p, "cancelled") /\ WritesTask(o)
    BY <1>1, <1>8 DEF CancelCommit, Commits, WritesTask, Guarded
  <2>2. PutTask(p, "cancelled", "AssignmentCancelled")
    BY <1>8, <2>1 DEF CancelCommit
  <2>3. Leaves("inProgress", "cancelled") \/ Leaves("verifying", "cancelled")
    BY <1>2, <1>4, <2>1, <2>2, EndingLeaves
  <2> QED BY <1>3, <2>3 DEF Governance!Next
<1> QED
  BY <1>5, <1>6, <1>7, <1>8

----------------------------------------------------------------------------
(* The refinement.                                                          *)

LEMMA GovernanceStarts ==
    ASSUME Init
    PROVE  Governance!Init
<1>1. Phases = [t \in Tasks |-> "backlog"]
  BY DEF Init, Phases, NewTask
<1>2. \A a \in Assignments : asg[a].state = "none"
  BY DEF Init, NoneAsg
<1>3. Lanes = [t \in Tasks |-> {}] /\ Used = {}
  BY <1>2 DEF Lanes, Used, Of
<1> QED
  BY <1>1, <1>3 DEF Governance!Init

LEMMA GovernanceStep ==
    ASSUME LaneInv, [Next]_vars
    PROVE  [Governance!Next]_(Governance!vars)
<1>1. ASSUME UNCHANGED <<task, asg>>
      PROVE  UNCHANGED Governance!vars
  BY <1>1, GovernanceStutters DEF Governance!vars
<1>2. ASSUME NEW p \in Procs,
             \/ \E a \in Assignments, t \in Tasks, g \in Agents : DispatchRead(p, a, t, g)
             \/ \E a \in Assignments, o \in {"callback", "failure"} : ReportRead(p, o, a)
             \/ \E t \in Tasks, a \in Assignments, by \in Actors, passed \in BOOLEAN :
                   VerifyRead(p, t, a, by, passed)
             \/ \E a \in Assignments : HeartbeatRead(p, a)
             \/ \E a \in Assignments : CancelRead(p, a)
             \/ \E a \in Assignments : ExpireRead(p, a)
             \/ \E a \in Assignments : ObserveElapsed(p, a)
             \/ \E k \in EffectKinds, a \in Assignments : EffectCheck(p, k, a)
             \/ ExpireRefused(p) \/ Conflict(p) \/ Crash(p) \/ HeartbeatCommit(p)
             \/ EffectReserve(p) \/ EffectDone(p)
      PROVE  UNCHANGED <<task, asg>>
  BY <1>2 DEF DispatchRead, ReportRead, VerifyRead, HeartbeatRead, CancelRead,
              ExpireRead, ObserveElapsed, EffectCheck, ExpireRefused, Conflict, Crash,
              HeartbeatCommit, EffectReserve, EffectDone, NothingStored, records
<1>3. ASSUME \/ \E a \in Assignments : Elapse(a)
             \/ \E k \in EffectKinds, a \in Assignments : EffectReconcile(k, a)
             \/ UNCHANGED vars
      PROVE  UNCHANGED <<task, asg>>
  BY <1>3 DEF Elapse, EffectReconcile, vars, records
<1> QED
  BY <1>1, <1>2, <1>3, DispatchOpens, CallbackSubmits, CommitLeaves
     DEF Next, ProcNext

\* Every commit of every process is one step of TaskGovernance, or shows nothing.
THEOREM Implements ==
    ASSUME MixedVerify = FALSE
    PROVE  Spec => ImplementsGovernance
<1>1. Init => Governance!Init
  BY GovernanceStarts
<1>2. LaneInv /\ [Next]_vars => [Governance!Next]_(Governance!vars)
  BY GovernanceStep
<1> QED
  BY <1>1, <1>2, LaneHolds, PTL DEF Spec, ImplementsGovernance, Governance!Spec

=============================================================================
