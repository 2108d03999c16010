---------------------------- MODULE PkrExecution ----------------------------
(***************************************************************************)
(* The governed execution of Tasks: dispatch, callback, provider failure,  *)
(* independent verification, heartbeat, cancellation, Lease expiry and the *)
(* journal of external effects, as src/src/runtime.ts implements them over *)
(* the SQLite store of src/src/store.ts.                                   *)
(*                                                                         *)
(* Every operation of the Runtime is two steps of an operating-system      *)
(* process (a CLI invocation or a Supervisor).  It first reads records and *)
(* checks its guards, outside any transaction; then one BEGIN IMMEDIATE    *)
(* transaction writes all of its records, each with compare-and-set on the *)
(* revision that was read.  Between the two, any other process may commit. *)
(* The reads of one operation are a single step here: an Assignment never  *)
(* changes state without its Task changing revision, so that a transaction *)
(* whose Task revision still holds has read one consistent state.          *)
(*                                                                         *)
(* A dispatch derives the ids of its Assignment, Session, Lease and        *)
(* WorkflowRun from its command id (runtime.ts:993-997), so one element of *)
(* Assignments names all four, and its command as well.                    *)
(***************************************************************************)
EXTENDS Integers, FiniteSets

CONSTANTS
    Tasks,          \* Tasks created by createTask, in backlog
    Assignments,    \* ids a dispatch may create
    Agents,         \* active Agents
    Verifiers,      \* other principals that may act as verifier
    Procs,          \* processes that have the project open
    NoAssignment,   \* no WorkflowRun is found for an execution
    MaxLeaseRev,    \* bound on heartbeats: the largest revision of a Lease
    MixedVerify     \* verify may name an Assignment of another Task

ASSUME NonEmptyAssumption ==
    Tasks # {} /\ Assignments # {} /\ Agents # {} /\ Verifiers # {}
ASSUME NoAssignmentAssumption == NoAssignment \notin Assignments
ASSUME MaxLeaseRevAssumption == MaxLeaseRev \in Nat \ {0}
ASSUME MixedVerifyAssumption == MixedVerify \in BOOLEAN

VARIABLES
    task,       \* Task records: phase, reason, revision
    asg,        \* Assignment records
    lease,      \* Lease records
    sess,       \* AgentSession records
    run,        \* WorkflowRun records
    elapsed,    \* elapsed[a]: the expiry of Lease and Session is in the past
    effect,     \* the external_effects journal
    accepted,   \* acceptance Verifications: [task, asg, by]
    pend        \* the operation each process is in the middle of

records == <<task, asg, lease, sess, run>>
vars == <<task, asg, lease, sess, run, elapsed, effect, accepted, pend>>

Actors == Agents \cup Verifiers
EffectKinds == {"provider", "verification"}

LiveAssignment == {"running", "submitted"}
LiveLease == {"active", "renewed"}
TerminalAssignment == {"closed", "cancelled", "expired", "failed"}

-----------------------------------------------------------------------------
(* Types.  Revision 0 is a record that does not exist.                     *)

Task == [phase  : {"backlog", "inProgress", "verifying", "blocked", "done",
                   "cancelled"},
         reason : {"Created", "AssignmentRunning", "CallbackSubmitted",
                   "ProviderExecutionFailed", "VerificationFailed",
                   "VerificationPassed", "AssignmentCancelled", "LeaseExpired"},
         rev    : Nat]

\* Offered and accepted exist only inside the dispatch transaction.
Assignment == [state : {"none"} \cup LiveAssignment \cup TerminalAssignment,
               task  : Tasks,
               agent : Actors,
               rev   : Nat]

Lease == [state : {"none", "released", "revoked", "expired"} \cup LiveLease,
          rev   : Nat]

Session == [state : {"none", "active", "closing", "closed", "failed",
                     "expired"},
            rev   : Nat]

Run == [state : {"none", "implementing", "verifying", "blocked", "done"},
        rev   : Nat]

Mutations == {"dispatch", "callback", "failure", "verify", "heartbeat",
              "cancel", "expire"}

\* An operation between its reads and its commit.  "expiring": the process has
\* seen an elapsed expiry and is about to call expireLease.  "reserve": it has
\* checked that an effect may start.  "execute": it runs the external process.
Pending == [op     : Mutations \cup {"idle", "expiring", "reserve", "execute"},
            asg    : Assignments,
            task   : Tasks,
            by     : Actors,
            passed : BOOLEAN,
            kind   : EffectKinds,
            run    : Assignments \cup {NoAssignment},
            seen   : [task : Task, asg : Assignment, lease : Lease,
                      sess : Session, run : Run]]

TypeOK ==
    /\ task \in [Tasks -> Task]
    /\ asg \in [Assignments -> Assignment]
    /\ lease \in [Assignments -> Lease]
    /\ sess \in [Assignments -> Session]
    /\ run \in [Assignments -> Run]
    /\ elapsed \in [Assignments -> BOOLEAN]
    /\ effect \in [EffectKinds ->
                     [Assignments -> {"none", "pending", "succeeded", "failed"}]]
    /\ accepted \subseteq [task : Tasks, asg : Assignments, by : Actors]
    /\ pend \in [Procs -> Pending]

-----------------------------------------------------------------------------
(* Initial state: Tasks are in backlog, nothing was dispatched.            *)

NewTask == [phase |-> "backlog", reason |-> "Created", rev |-> 1]
NoneAsg == [state |-> "none", task |-> CHOOSE t \in Tasks : TRUE,
            agent |-> CHOOSE g \in Agents : TRUE, rev |-> 0]
None == [state |-> "none", rev |-> 0]

\* A process that is in the middle of o and keeps no record.
Waiting(o, k, a) ==
    [op |-> o, asg |-> a, kind |-> k, passed |-> FALSE, run |-> NoAssignment,
     task |-> CHOOSE t \in Tasks : TRUE, by |-> CHOOSE g \in Agents : TRUE,
     seen |-> [task |-> NewTask, asg |-> NoneAsg, lease |-> None,
               sess |-> None, run |-> None]]
Idle == Waiting("idle", "provider", CHOOSE a \in Assignments : TRUE)

Init ==
    /\ task = [t \in Tasks |-> NewTask]
    /\ asg = [a \in Assignments |-> NoneAsg]
    /\ lease = [a \in Assignments |-> None]
    /\ sess = [a \in Assignments |-> None]
    /\ run = [a \in Assignments |-> None]
    /\ elapsed = [a \in Assignments |-> FALSE]
    /\ effect = [k \in EffectKinds |-> [a \in Assignments |-> "none"]]
    /\ accepted = {}
    /\ pend = [p \in Procs |-> Idle]

-----------------------------------------------------------------------------
(* Reading.                                                                *)

Of(t) == {a \in Assignments : asg[a].state # "none" /\ asg[a].task = t}
IsLive(a) == asg[a].state \in LiveAssignment
LeaseIsLive(a) == lease[a].state \in LiveLease
IsIdle(p) == pend[p].op = "idle"

\* The operation o of p on Assignment a of Task t has passed its guards; it
\* keeps every record it read, r naming the WorkflowRun it found.
Prepare(p, o, a, t, by, passed, r) ==
    pend' = [pend EXCEPT ![p] =
        [op |-> o, asg |-> a, task |-> t, by |-> by, passed |-> passed,
         kind |-> "provider", run |-> r,
         seen |-> [task  |-> task[t],
                   asg   |-> asg[a],
                   lease |-> lease[a],
                   sess  |-> sess[a],
                   run   |-> IF r = NoAssignment THEN None ELSE run[r]]]]

Await(p, o, k, a) == pend' = [pend EXCEPT ![p] = Waiting(o, k, a)]

Stop(p) == pend' = [pend EXCEPT ![p] = Idle]

NothingStored == UNCHANGED <<records, elapsed, effect, accepted>>

\* The WorkflowRun bound to the Assignment, else the Task's only one.
RunFound(t, a) ==
    IF a \in Of(t) THEN a
    ELSE IF \E b \in Assignments : Of(t) = {b}
         THEN CHOOSE b \in Assignments : Of(t) = {b}
         ELSE NoAssignment

-----------------------------------------------------------------------------
(* Committing.                                                             *)

\* Fault: a record is rewritten under the revision it had.
Revised_SameRevision(r, s) == [state |-> s, rev |-> r.rev]

Revised(r, s) == [state |-> s, rev |-> r.rev + 1]
RevisedAsg(r, s) ==
    [state |-> s, task |-> r.task, agent |-> r.agent, rev |-> r.rev + 1]
\* Fault: phase and reason change places.
RevisedTask_Swapped(r, ph, why) ==
    [phase |-> why, reason |-> ph, rev |-> r.rev + 1]

RevisedTask(r, ph, why) == [phase |-> ph, reason |-> why, rev |-> r.rev + 1]

WritesTask(o) ==
    /\ o.op \notin {"heartbeat"}
    /\ o.op = "cancel" => o.seen.task.phase \in {"inProgress", "blocked", "verifying"}
WritesAsg(o) == o.op \notin {"heartbeat"}
WritesLease(o) ==
    /\ o.op \notin {"verify"}
    /\ o.op = "cancel" => o.seen.lease.state \in LiveLease
WritesSess(o) ==
    /\ o.op = "cancel" => o.seen.sess.state = "active"
    /\ o.op = "verify" => o.seen.sess.state = "closing"
WritesRun(o) ==
    /\ o.op \in {"callback", "failure", "verify"}
    /\ o.run # NoAssignment

\* Fault: the Task is put without an expected revision.
CasHolds_NotTask(o) ==
    /\ WritesAsg(o) => asg[o.asg].rev = o.seen.asg.rev
    /\ WritesLease(o) => lease[o.asg].rev = o.seen.lease.rev
    /\ WritesSess(o) => sess[o.asg].rev = o.seen.sess.rev

\* putRecord: every record that is written still has the revision it was read
\* at.  A dispatch whose command has committed before finds its Assignment.
CasHolds(o) ==
    /\ WritesTask(o) => task[o.task].rev = o.seen.task.rev
    /\ WritesAsg(o) => asg[o.asg].rev = o.seen.asg.rev
    /\ WritesLease(o) => lease[o.asg].rev = o.seen.lease.rev
    /\ WritesSess(o) => sess[o.asg].rev = o.seen.sess.rev
    /\ WritesRun(o) => run[o.run].rev = o.seen.run.rev

\* The transaction of p, prepared as o, commits.
Commits(p, o) ==
    /\ pend[p].op = o
    /\ CasHolds(pend[p])
    /\ Stop(p)

\* The records that a committed transaction replaces, computed from what was
\* read and not from what is stored.
PutTask(p, ph, why) ==
    LET o == pend[p] IN
    task' = [task EXCEPT ![o.task] = RevisedTask(o.seen.task, ph, why)]
PutAsg(p, s) ==
    LET o == pend[p] IN asg' = [asg EXCEPT ![o.asg] = RevisedAsg(o.seen.asg, s)]
PutLease(p, s) ==
    LET o == pend[p] IN
    lease' = [lease EXCEPT ![o.asg] = Revised(o.seen.lease, s)]
PutSess(p, s) ==
    LET o == pend[p] IN
    sess' = [sess EXCEPT ![o.asg] = Revised(o.seen.sess, s)]
\* Fault: the WorkflowRun is forgotten.
PutRun_Forgotten(p, s) == run' = run

PutRun(p, s) ==
    LET o == pend[p] IN
    run' = IF o.run = NoAssignment THEN run
           ELSE [run EXCEPT ![o.run] = Revised(o.seen.run, s)]

\* A record changed meanwhile (PKR-RUNTIME-005), or the command was committed by
\* another process and is replayed: the transaction rolls back.
Conflict(p) ==
    /\ pend[p].op \in Mutations
    /\ ~CasHolds(pend[p])
    /\ Stop(p)
    /\ NothingStored

\* The process is killed between its reads and its commit, or while it waits
\* for an external process.
Crash(p) ==
    /\ ~IsIdle(p)
    /\ Stop(p)
    /\ NothingStored

-----------------------------------------------------------------------------
(* dispatch.                                                               *)

\* Fault: any blocked Task with an expired Assignment in its past is reopened.
Recoverable_AnyBlock(t, prior) ==
    /\ task[t].phase = "blocked"
    /\ prior \in Of(t)
    /\ asg[prior].state = "expired"

\* The recovery that dispatch is asked for: an expired Assignment of a Task that
\* is blocked because its Lease expired.
Recoverable(t, prior) ==
    /\ task[t].phase = "blocked"
    /\ task[t].reason = "LeaseExpired"
    /\ prior \in Of(t)
    /\ asg[prior].state = "expired"

\* No expired Assignment of the Task has left an effect that may have happened.
Absorbed(t) ==
    \A b \in Of(t) : asg[b].state = "expired" =>
        \A k \in EffectKinds : effect[k][b] \in {"none", "failed"}

\* The lane of the Task is free, and there is a reason to take it.
Dispatchable(t) ==
    /\ \A b \in Of(t) : ~IsLive(b) /\ ~LeaseIsLive(b)
    /\ \/ task[t].phase = "backlog"
       \/ \E prior \in Assignments : Recoverable(t, prior) /\ Absorbed(t)

DispatchRead(p, a, t, g) ==
    /\ IsIdle(p)
    /\ asg[a].state = "none"
    /\ Dispatchable(t)
    /\ Prepare(p, "dispatch", a, t, g, FALSE, NoAssignment)
    /\ NothingStored

\* Task to ready and inProgress, Assignment to offered, accepted and running,
\* Session, Lease and WorkflowRun created: one transaction.
DispatchCommit(p) ==
    LET o == pend[p] IN
    /\ Commits(p, "dispatch")
    /\ task' = [task EXCEPT ![o.task] =
                  [phase |-> "inProgress", reason |-> "AssignmentRunning",
                   rev |-> o.seen.task.rev + 2]]
    /\ asg' = [asg EXCEPT ![o.asg] =
                 [state |-> "running", task |-> o.task, agent |-> o.by, rev |-> 3]]
    /\ lease' = [lease EXCEPT ![o.asg] = [state |-> "active", rev |-> 1]]
    /\ sess' = [sess EXCEPT ![o.asg] = [state |-> "active", rev |-> 1]]
    /\ run' = [run EXCEPT ![o.asg] = [state |-> "implementing", rev |-> 1]]
    /\ elapsed' = [elapsed EXCEPT ![o.asg] = FALSE]
    /\ UNCHANGED <<effect, accepted>>

-----------------------------------------------------------------------------
(* callback and recordProviderFailure.                                     *)

ExecutionIsLive(a) ==
    /\ asg[a].state = "running"
    /\ LeaseIsLive(a)
    /\ sess[a].state = "active"
    /\ ~elapsed[a]

\* The work report o \in {"callback", "failure"} of a live execution.
ReportRead(p, o, a) ==
    /\ IsIdle(p)
    /\ ExecutionIsLive(a)
    /\ Prepare(p, o, a, asg[a].task, asg[a].agent, FALSE,
               RunFound(asg[a].task, a))
    /\ NothingStored

CallbackCommit(p) ==
    /\ Commits(p, "callback")
    /\ PutAsg(p, "submitted")
    /\ PutTask(p, "verifying", "CallbackSubmitted")
    /\ PutLease(p, "released")
    /\ PutSess(p, "closing")
    /\ PutRun(p, "verifying")
    /\ UNCHANGED <<elapsed, effect, accepted>>

FailureCommit(p) ==
    /\ Commits(p, "failure")
    /\ PutAsg(p, "failed")
    /\ PutTask(p, "blocked", "ProviderExecutionFailed")
    /\ PutLease(p, "released")
    /\ PutSess(p, "failed")
    /\ PutRun(p, "blocked")
    /\ UNCHANGED <<elapsed, effect, accepted>>

-----------------------------------------------------------------------------
(* verify: the verdict of the independent Repository Verifier.             *)

\* The code looks at the phase of the Task and at the state of the Assignment,
\* each on its own.  Callers that derive the pair from the Task are MixedVerify =
\* FALSE; `pkr verify --task --assignment` passes any pair.
VerifyRead(p, t, a, by, passed) ==
    /\ IsIdle(p)
    /\ MixedVerify \/ asg[a].task = t
    /\ task[t].phase = "verifying"
    /\ asg[a].state = "submitted"
    /\ by # asg[a].agent
    /\ Prepare(p, "verify", a, t, by, passed, RunFound(t, a))
    /\ NothingStored

VerifyCommit(p) ==
    LET o == pend[p] IN
    /\ Commits(p, "verify")
    /\ PutAsg(p, IF o.passed THEN "closed" ELSE "failed")
    /\ IF o.passed THEN PutTask(p, "done", "VerificationPassed")
                   ELSE PutTask(p, "blocked", "VerificationFailed")
    /\ PutRun(p, IF o.passed THEN "done" ELSE "blocked")
    /\ IF o.seen.sess.state = "closing"
       THEN PutSess(p, IF o.passed THEN "closed" ELSE "failed")
       ELSE UNCHANGED sess
    /\ accepted' = IF o.passed
                   THEN accepted \cup {[task |-> o.task, asg |-> o.asg, by |-> o.by]}
                   ELSE accepted
    /\ UNCHANGED <<lease, elapsed, effect>>

-----------------------------------------------------------------------------
(* heartbeat, cancelAssignment, expireLease, and the clock.                *)

\* The Lease and the Session, and neither the Task nor the Assignment.
HeartbeatRead(p, a) ==
    /\ IsIdle(p)
    /\ sess[a].state = "active"
    /\ LeaseIsLive(a)
    /\ ~elapsed[a]
    /\ lease[a].rev < MaxLeaseRev
    /\ Prepare(p, "heartbeat", a, asg[a].task, asg[a].agent, FALSE, NoAssignment)
    /\ NothingStored

HeartbeatCommit(p) ==
    LET o == pend[p] IN
    /\ Commits(p, "heartbeat")
    /\ PutSess(p, o.seen.sess.state)
    /\ PutLease(p, "renewed")
    /\ elapsed' = [elapsed EXCEPT ![o.asg] = FALSE]
    /\ UNCHANGED <<task, asg, run, effect, accepted>>

\* Fault: an Assignment that has ended is cancelled again.
CancelRead_Ended(p, a) ==
    /\ IsIdle(p)
    /\ asg[a].state # "none"
    /\ Prepare(p, "cancel", a, asg[a].task, asg[a].agent, FALSE, NoAssignment)
    /\ NothingStored

CancelRead(p, a) ==
    /\ IsIdle(p)
    /\ asg[a].state # "none"
    /\ asg[a].state \notin TerminalAssignment
    /\ Prepare(p, "cancel", a, asg[a].task, asg[a].agent, FALSE, NoAssignment)
    /\ NothingStored

CancelCommit(p) ==
    LET o == pend[p] IN
    /\ Commits(p, "cancel")
    /\ PutAsg(p, "cancelled")
    /\ IF WritesLease(o) THEN PutLease(p, "revoked") ELSE UNCHANGED lease
    /\ IF WritesSess(o) THEN PutSess(p, "closed") ELSE UNCHANGED sess
    /\ IF WritesTask(o) THEN PutTask(p, "cancelled", "AssignmentCancelled")
                        ELSE UNCHANGED task
    /\ UNCHANGED <<run, elapsed, effect, accepted>>

\* The hour since dispatch or the last heartbeat passes.
Elapse(a) ==
    /\ LeaseIsLive(a)
    /\ ~elapsed[a]
    /\ elapsed' = [elapsed EXCEPT ![a] = TRUE]
    /\ UNCHANGED <<records, effect, accepted, pend>>

\* recoverInterruptedSessions, callback, recordProviderFailure or heartbeat sees
\* an elapsed expiry; expireLease, called next, reads the records again.
ObserveElapsed(p, a) ==
    /\ IsIdle(p)
    /\ LeaseIsLive(a)
    /\ elapsed[a]
    /\ Await(p, "expiring", "provider", a)
    /\ NothingStored

\* From there, or from an operator's `pkr lease expire`, which may come at any
\* time.  Whether the Lease has elapsed is not looked at again.
ExpireRead(p, a) ==
    /\ IsIdle(p) \/ (pend[p].op = "expiring" /\ pend[p].asg = a)
    /\ LeaseIsLive(a)
    /\ asg[a].state = "running"
    /\ sess[a].state = "active"
    /\ Prepare(p, "expire", a, asg[a].task, asg[a].agent, FALSE, NoAssignment)
    /\ NothingStored

\* expireLease fails: the Lease is no longer live.
ExpireRefused(p) ==
    /\ pend[p].op = "expiring"
    /\ ~LeaseIsLive(pend[p].asg)
    /\ Stop(p)
    /\ NothingStored

\* The WorkflowRun is the one record read inside the transaction.
ExpireCommit(p) ==
    LET a == pend[p].asg IN
    /\ Commits(p, "expire")
    /\ PutLease(p, "expired")
    /\ PutAsg(p, "expired")
    /\ PutSess(p, "expired")
    /\ PutTask(p, "blocked", "LeaseExpired")
    /\ run' = IF run[a].state = "implementing"
              THEN [run EXCEPT ![a] = Revised(@, "blocked")]
              ELSE run
    /\ UNCHANGED <<elapsed, effect, accepted>>

-----------------------------------------------------------------------------
(* The external-effect fence: beginExternalEffect, beginVerificationEffect *)
(* and completeExternalEffect.  An effect id is derived from the kind and  *)
(* the Assignment.                                                         *)

EffectAllowed(k, a) ==
    IF k = "provider"
    THEN asg[a].state = "running" /\ LeaseIsLive(a) /\ ~elapsed[a]
    ELSE asg[a].state = "submitted" /\ task[asg[a].task].phase = "verifying"

EffectCheck(p, k, a) ==
    /\ IsIdle(p)
    /\ effect[k][a] = "none"
    /\ EffectAllowed(k, a)
    /\ Await(p, "reserve", k, a)
    /\ NothingStored

\* Fault: a pending entry does not keep the external process from running.
EffectReserve_Again(p) ==
    LET o == pend[p] IN
    /\ o.op = "reserve"
    /\ effect' = [effect EXCEPT ![o.kind][o.asg] = "pending"]
    /\ Await(p, "execute", o.kind, o.asg)
    /\ UNCHANGED <<records, elapsed, accepted>>

\* The transaction of store.beginExternalEffect: insert the pending entry and
\* run the external process, unless there is an entry.
EffectReserve(p) ==
    LET o == pend[p] IN
    /\ o.op = "reserve"
    /\ IF effect[o.kind][o.asg] = "none"
       THEN /\ effect' = [effect EXCEPT ![o.kind][o.asg] = "pending"]
            /\ Await(p, "execute", o.kind, o.asg)
       ELSE /\ Stop(p)
            /\ UNCHANGED effect
    /\ UNCHANGED <<records, elapsed, accepted>>

\* The process returned, with whatever result: completeExternalEffect, which
\* refuses to replace a terminal entry.
EffectDone(p) ==
    LET o == pend[p] IN
    /\ o.op = "execute"
    /\ effect' = [effect EXCEPT ![o.kind][o.asg] =
                    IF @ = "pending" THEN "succeeded" ELSE @]
    /\ Stop(p)
    /\ UNCHANGED <<records, elapsed, accepted>>

\* The owner finds out that a pending effect of a process that is gone never
\* happened, and completes it as failed through the same API.
EffectReconcile(k, a) ==
    /\ effect[k][a] = "pending"
    /\ \A p \in Procs : pend[p].op = "execute" =>
           pend[p].asg # a \/ pend[p].kind # k
    /\ effect' = [effect EXCEPT ![k][a] = "failed"]
    /\ UNCHANGED <<records, elapsed, accepted, pend>>

-----------------------------------------------------------------------------

ProcNext(p) ==
    \/ \E a \in Assignments, t \in Tasks, g \in Agents : DispatchRead(p, a, t, g)
    \/ DispatchCommit(p)
    \/ \E a \in Assignments, o \in {"callback", "failure"} : ReportRead(p, o, a)
    \/ CallbackCommit(p)
    \/ FailureCommit(p)
    \/ \E t \in Tasks, a \in Assignments, by \in Actors, passed \in BOOLEAN :
          VerifyRead(p, t, a, by, passed)
    \/ VerifyCommit(p)
    \/ \E a \in Assignments : HeartbeatRead(p, a)
    \/ HeartbeatCommit(p)
    \/ \E a \in Assignments : CancelRead(p, a)
    \/ CancelCommit(p)
    \/ \E a \in Assignments : ObserveElapsed(p, a)
    \/ \E a \in Assignments : ExpireRead(p, a)
    \/ ExpireRefused(p)
    \/ ExpireCommit(p)
    \/ \E k \in EffectKinds, a \in Assignments : EffectCheck(p, k, a)
    \/ EffectReserve(p)
    \/ EffectDone(p)
    \/ Conflict(p)
    \/ Crash(p)

Next ==
    \/ \E p \in Procs : ProcNext(p)
    \/ \E a \in Assignments : Elapse(a)
    \/ \E k \in EffectKinds, a \in Assignments : EffectReconcile(k, a)

Spec == Init /\ [][Next]_vars

-----------------------------------------------------------------------------
(* Properties.                                                             *)

\* No Task ever has two Assignments, or two Leases, that are live: whatever
\* processes raced to dispatch, recover or report, one of them lost the
\* compare-and-set on the Task.
OneLiveLane ==
    \A a, b \in Assignments :
        asg[a].state # "none" /\ asg[b].state # "none" /\ asg[a].task = asg[b].task
        => /\ IsLive(a) /\ IsLive(b) => a = b
           /\ LeaseIsLive(a) /\ LeaseIsLive(b) => a = b

\* A live Assignment determines the phase of its Task and the states of its Lease,
\* its Session and its WorkflowRun; one that has ended holds no Lease.
AsgAgrees(a) ==
    /\ asg[a].state = "running" =>
         /\ task[asg[a].task].phase = "inProgress"
         /\ LeaseIsLive(a)
         /\ sess[a].state = "active"
         /\ run[a].state = "implementing"
    /\ asg[a].state = "submitted" =>
         /\ task[asg[a].task].phase = "verifying"
         /\ lease[a].state = "released"
         /\ sess[a].state = "closing"
         /\ run[a].state = "verifying"
    /\ asg[a].state \in TerminalAssignment => ~LeaseIsLive(a)

\* A Task that is worked on or verified has an Assignment that explains it.
TaskAgrees(t) ==
    /\ task[t].phase = "inProgress" => \E a \in Of(t) : asg[a].state = "running"
    /\ task[t].phase = "verifying" => \E a \in Of(t) : asg[a].state = "submitted"

\* Five records of five tables tell one story, however the processes interleave
\* and wherever one of them is killed.
PhaseAgreement ==
    /\ \A a \in Assignments : AsgAgrees(a)
    /\ \A t \in Tasks : TaskAgrees(t)

\* However many processes verify at once, cancel, expire and dispatch again what is
\* being verified, every Task that is done was accepted, every acceptance is of a Task
\* that stays done and of an Assignment that stays closed, by somebody else than its
\* Agent, and neither a Task, of whose Assignments several may have been submitted, nor
\* a result is accepted twice.  This holds of any pair that verify is given (MixedVerify),
\* but not that the Assignment is one of the Task.
DoneIsAccepted ==
    /\ \A t \in Tasks : task[t].phase = "done" => \E v \in accepted : v.task = t
    /\ \A v \in accepted :
          /\ task[v.task].phase = "done"
          /\ asg[v.asg].state = "closed"
          /\ v.by # asg[v.asg].agent
    /\ \A v, w \in accepted : v.task = w.task \/ v.asg = w.asg => v = w

\* The record new is what old was when it was read, or a later revision.
Behind(old, new) == old.rev < new.rev \/ old = new

\* What a process read is still what is stored, or the revision has moved on: the
\* compare-and-set on revisions detects every intervening change, of each of the
\* five records, to an operation that is about to write it.
SnapshotFaithful ==
    \A p \in Procs :
        LET o == pend[p] IN
        o.op \in Mutations =>
            /\ Behind(o.seen.task, task[o.task])
            /\ Behind(o.seen.asg, asg[o.asg])
            /\ Behind(o.seen.lease, lease[o.asg])
            /\ Behind(o.seen.sess, sess[o.asg])
            /\ o.run # NoAssignment => Behind(o.seen.run, run[o.run])

\* p runs the external process of the effect of kind k for a.
Executes(p, k, a) ==
    pend[p].op = "execute" /\ pend[p].kind = k /\ pend[p].asg = a

\* An effect starts only where the journal has no entry for it and in one process;
\* its entry stays for ever, and a terminal one as it is.
StartsOnce ==
    \A k \in EffectKinds, a \in Assignments :
        /\ effect[k][a] # "none" =>
              /\ effect'[k][a] # "none"
              /\ \A p \in Procs : Executes(p, k, a)' => Executes(p, k, a)
        /\ effect[k][a] \in {"succeeded", "failed"} => effect'[k][a] = effect[k][a]
        /\ \A p, q \in Procs : Executes(p, k, a)' /\ Executes(q, k, a)' =>
              p = q /\ effect'[k][a] # "none"
\* The external process of an effect is therefore started at most once, however
\* many processes try and wherever they are killed: an entry that a killed process
\* left pending is never run again (specs/0018).
EffectRunsOnce == [][StartsOnce]_vars

\* A Task that is done or cancelled, and an Assignment, Lease or Session that has
\* ended, stay as they are, although processes that read them while they were
\* live commit later.
EndedKept ==
    /\ \A t \in Tasks : task[t].phase \in {"done", "cancelled"} => task'[t] = task[t]
    /\ \A a \in Assignments :
         /\ asg[a].state \in TerminalAssignment => asg'[a] = asg[a]
         /\ lease[a].state \in {"released", "revoked", "expired"} =>
               lease'[a] = lease[a]
         /\ sess[a].state \in {"closed", "failed", "expired"} => sess'[a] = sess[a]
\* The same, of every step.
EndedStays == [][EndedKept]_vars

-----------------------------------------------------------------------------
(* Strengthenings that make the properties inductive.                      *)

\* An id that was not dispatched names no record.
Fresh ==
    \A a \in Assignments : asg[a].state = "none" =>
        asg[a].rev = 0 /\ lease[a] = None /\ sess[a] = None /\ run[a] = None

\* A prepared dispatch has read that its Assignment is new; what any other
\* operation writes exists.
Existing ==
    \A p \in Procs :
        LET o == pend[p] IN
        /\ o.op = "dispatch" => o.seen.asg.state = "none"
        /\ o.op \in Mutations \ {"dispatch"} => asg[o.asg].state # "none"
        /\ o.op \in Mutations /\ o.run # NoAssignment =>
              asg[o.run].state # "none"

ReadInv == TypeOK /\ Fresh /\ Existing /\ SnapshotFaithful

\* An external process runs under its pending entry, and in one process.
RunsUnderEntry ==
    \A p, q \in Procs :
        pend[p].op = "execute" =>
            /\ effect[pend[p].kind][pend[p].asg] = "pending"
            /\ pend[q].op = "execute" /\ pend[q].asg = pend[p].asg
               /\ pend[q].kind = pend[p].kind => p = q

\* What the guards of a prepared operation have established of what it read, when
\* verify may be given any pair.
Checked(o) ==
    /\ o.op = "dispatch" =>
         \/ o.seen.task.phase = "backlog"
         \/ o.seen.task.phase = "blocked" /\ o.seen.task.reason = "LeaseExpired"
    /\ o.op \in {"callback", "failure", "expire"} => o.seen.asg.state = "running"
    /\ o.op = "verify" =>
         /\ o.seen.task.phase = "verifying"
         /\ o.seen.asg.state = "submitted"
         /\ o.by # o.seen.asg.agent
    /\ o.op = "cancel" =>
         /\ o.seen.asg.state \in LiveAssignment
         /\ o.seen.asg.state = "running" => o.seen.lease.state \in LiveLease
    /\ o.op = "heartbeat" => o.seen.lease.state \in LiveLease
    /\ o.op \in Mutations \ {"dispatch", "heartbeat", "verify"} =>
         o.seen.asg.task = o.task

\* The phases in which a live Assignment may find its Task.
LivePhase(a) ==
    LET k == task[asg[a].task] IN
    /\ LeaseIsLive(a) <=> asg[a].state = "running"
    /\ asg[a].state = "running" => k.phase = "inProgress"
    /\ asg[a].state = "submitted" =>
         \/ k.phase \in {"verifying", "done"}
         \/ k.phase = "blocked" /\ k.reason = "VerificationFailed"

OneHolder ==
    \A a, b \in Assignments : asg[a].task = asg[b].task /\ IsLive(a) /\ IsLive(b) => a = b

\* What holds whichever pairs verify is given.
MixedInv ==
    /\ ReadInv
    /\ \A p \in Procs : Checked(pend[p])
    /\ \A a \in Assignments : LivePhase(a)
    /\ OneHolder
    /\ DoneIsAccepted

\* The same, and more, when verify is given the Assignment of its Task.
Guarded(o) ==
    /\ o.op = "dispatch" =>
         \/ o.seen.task.phase = "backlog"
         \/ o.seen.task.phase = "blocked" /\ o.seen.task.reason = "LeaseExpired"
    /\ o.op \in {"callback", "failure", "expire"} => o.seen.asg.state = "running"
    /\ o.op = "verify" =>
         o.seen.asg.state = "submitted" /\ o.by # o.seen.asg.agent
    /\ o.op = "cancel" =>
         /\ o.seen.asg.state \in LiveAssignment
         /\ o.seen.task.phase \in {"inProgress", "verifying"}
         /\ o.seen.asg.state = "running" => o.seen.lease.state \in LiveLease
    /\ o.op = "heartbeat" =>
         o.seen.lease.state \in LiveLease /\ o.seen.sess.state = "active"
    /\ o.op \in Mutations \ {"dispatch", "heartbeat"} => o.seen.asg.task = o.task
    /\ o.op \in {"callback", "failure", "verify"} => o.run = o.asg

LaneInv ==
    /\ ReadInv
    /\ \A p \in Procs : Guarded(pend[p])
    /\ OneLiveLane
    /\ PhaseAgreement

-----------------------------------------------------------------------------
(* The abstract specification that an execution implements.                *)

Phases == [t \in Tasks |->
             IF task[t].phase = "blocked" /\ task[t].reason = "LeaseExpired"
             THEN "interrupted" ELSE task[t].phase]
Lanes == [t \in Tasks |-> {a \in Of(t) : IsLive(a)}]
Used == {a \in Assignments : asg[a].state # "none"}

Governance == INSTANCE TaskGovernance WITH phase <- Phases, lane <- Lanes, used <- Used

\* Processes, revisions and crashes notwithstanding, each Task is governed as
\* TaskGovernance says: every commit is one of its steps or changes none of it.
ImplementsGovernance == Governance!Spec

-----------------------------------------------------------------------------
(* What a document says and the code does not do: it is violated.          *)

\* specs/0018: concurrent attempts must not create duplicate live Provider
\* effects (of one Task: a recovery dispatch makes a second Assignment).
NoDuplicateLiveProvider ==
    \A p, q \in Procs :
        /\ pend[p].op = "execute" /\ pend[p].kind = "provider"
        /\ pend[q].op = "execute" /\ pend[q].kind = "provider"
        /\ asg[pend[p].asg].task = asg[pend[q].asg].task
        => p = q

=============================================================================
