---------------------------- MODULE PkrSupervisor ----------------------------
(***************************************************************************)
(* The watch loop of `pkr supervise --watch` (src/src/supervisor.ts, run   *)
(* by src/src/cli.ts), composed with the governed execution it drives:     *)
(* every operation a Supervisor calls is an action of PkrExecution.        *)
(*                                                                         *)
(* A round reads the state of the Task, chooses what to do, and then calls *)
(* operations that read everything again.  Several Supervisors may run for *)
(* one Task and Agent, with the Lease clock, an operator who cancels the   *)
(* Assignment, and kills in between.                                       *)
(*                                                                         *)
(* The ids of what Supervisors do are derived: every Supervisor dispatches *)
(* Assignment 1 first, recovers an expired Assignment e by Assignment 2e   *)
(* (supervisor.ts:322-326) or, out of an execution lane, by 2e+1           *)
(* (lps.ts:324-328), and a command that was committed before is replayed.  *)
(***************************************************************************)
EXTENDS PkrExecution

CONSTANTS
    TheTask, TheAgent, TheVerifier, \* the configuration of the Supervisors
    LongInterval,   \* the rounds of a loop are 30 s and more apart (--interval)
    Operator        \* the process of the operator; the others supervise

ASSUME IdsAssumption == Assignments \subseteq Nat \ {0} /\ 1 \in Assignments
ASSUME ConfigAssumption ==
    /\ TheTask \in Tasks /\ TheAgent \in Agents
    /\ TheVerifier \in Verifiers /\ TheVerifier \notin Agents
    /\ LongInterval \in BOOLEAN
    /\ Operator \in Procs

VARIABLES
    sup,        \* where each Supervisor is in its round, on which Assignment, and
                \* the revision of the Lease that its command is derived from
    report,     \* what the Provider reported, kept with the provider effect
    verdict,    \* what the Verifier found, kept with the verification effect
    commands,   \* the commands of Supervisors that were committed
    latest      \* the Assignment of the Task that expired last

supVars == <<sup, report, verdict, commands, latest>>
allVars == <<vars, supVars>>

Supervisors == Procs \ {Operator}
Reports == {"none", "callback", "blocked", "failure"}

\* The watch loop ends in exit 0, in exit 2 (attention; an alarm is the
\* attention RuntimeInvariantViolation, and asks one that names an open clarification
\* or what is missing of the configuration), in an exception, or is killed.
Ended == {"exited", "attention", "alarm", "asks", "error", "killed"}
Expiring == {"expire", "expireLate", "giveUp"}
\* The places of a round at which no Assignment has been chosen yet, or none is
\* needed any more.
Anywhere == Ended \cup
    {"observe", "refused", "blocked", "recover", "running", "lane", "settle",
     "verifying"}
Places == Anywhere \cup Expiring \cup
    {"dispatch", "heartbeat", "laneDispatch", "begin", "report",
     "beginVerification", "accept"}

SupTypeOK ==
    /\ TypeOK
    /\ sup \in [Supervisors -> [at : Places, asg : Assignments, rev : Nat]]
    /\ report \in [Assignments -> Reports]
    /\ verdict \in [Assignments -> {"none", "passed", "failed"}]
    /\ commands \subseteq ((Places \cup {"recovery"}) \X Assignments \X Nat)
    /\ latest \in Assignments \cup {NoAssignment}

SupInit ==
    /\ Init
    /\ sup = [p \in Supervisors |-> [at |-> "observe", asg |-> 1, rev |-> 0]]
    /\ report = [a \in Assignments |-> "none"]
    /\ verdict = [a \in Assignments |-> "none"]
    /\ commands = {}
    /\ latest = NoAssignment

-----------------------------------------------------------------------------
On(p) == sup[p].asg
At(p, place) == sup[p].at = place /\ IsIdle(p)
TheTaskIs(phases) == task[TheTask].phase \in phases
Live == {a \in Of(TheTask) : IsLive(a)}

\* The Lease revision is a part of the id of a heartbeat and of an expiry.
Go(p, place, a) ==
    sup' = [sup EXCEPT ![p] =
        [at |-> place, asg |-> IF place \in Anywhere THEN 1 ELSE a,
         rev |-> IF place \in Expiring \cup {"heartbeat"} THEN lease[a].rev ELSE 0]]

\* A step that only reads.
Turn(p, place, a) ==
    /\ Go(p, place, a)
    /\ UNCHANGED <<vars, report, verdict, commands, latest>>

\* A step of PkrExecution on the way; p stays where it is.
OnTheWay == UNCHANGED supVars

\* The id of the command that p is about to give.  An expiry that heartbeat,
\* callback or recordProviderFailure discovers is a command of the recovery.
Command(p) ==
    <<IF sup[p].at \in {"expireLate", "giveUp"} THEN "recovery" ELSE sup[p].at,
      sup[p].asg, sup[p].rev>>
IsReplayed(p) == Command(p) \in commands

\* Fault: a heartbeat, which has not run the Provider, ends the watch.
After_HeartbeatEnds(p) ==
    CASE sup[p].at \in {"dispatch", "expire", "expireLate"} -> "observe"
      [] sup[p].at = "laneDispatch" -> "begin"
      [] sup[p].at = "report" -> "settle"
      [] sup[p].at \in {"heartbeat", "giveUp"} -> "attention"
      [] sup[p].at = "accept" ->
           IF verdict[On(p)] = "passed" THEN "exited" ELSE "attention"

\* Where p goes once its command is committed, by itself or by another.
After(p) ==
    CASE sup[p].at \in {"dispatch", "heartbeat", "expire", "expireLate"} -> "observe"
      [] sup[p].at = "laneDispatch" -> "begin"
      [] sup[p].at = "report" -> "settle"
      [] sup[p].at = "giveUp" -> "attention"
      [] sup[p].at = "accept" ->
           IF verdict[On(p)] = "passed" THEN "exited" ELSE "attention"

\* Where p goes when its command fails because another was committed instead:
\* only an acceptance looks at the Task again (supervisor.ts:588-594).
Lost(p) ==
    IF sup[p].at # "accept" THEN "attention"
    ELSE IF TheTaskIs({"done"}) THEN "exited"
    ELSE IF TheTaskIs({"cancelled", "blocked"}) THEN "observe"
    ELSE "attention"

-----------------------------------------------------------------------------
(* One round: reconcile reads the state and chooses.                       *)

\* The clarifications of the Task and its Goal, the Agent, the binding of the
\* Provider, the configuration and the skills are written by others only: any round
\* of a Task that has not ended may find one open or missing, and asks for it.
Observe(p) ==
    /\ At(p, "observe")
    /\ \/ TheTaskIs({"done", "cancelled"}) /\ Turn(p, "exited", On(p))
       \/ ~TheTaskIs({"done", "cancelled"}) /\ Turn(p, "asks", On(p))
       \/ TheTaskIs({"backlog"}) /\ Turn(p, "dispatch", 1)
       \/ TheTaskIs({"inProgress"}) /\ Turn(p, "running", On(p))
       \/ TheTaskIs({"verifying"}) /\ Turn(p, "verifying", On(p))
       \/ TheTaskIs({"blocked"}) /\ Turn(p, "blocked", On(p))

\* The reason is read again, of whatever the Task is by now.
Blocked(p) ==
    /\ At(p, "blocked")
    /\ IF task[TheTask].reason = "LeaseExpired"
       THEN Turn(p, "recover", On(p)) ELSE Turn(p, "attention", On(p))

\* Fault: the Supervisor waits until somebody resolves the effect.
RecoverExpired_Waits(p) ==
    /\ At(p, "recover")
    /\ IF effect["provider"][latest] \in {"none", "failed"}
       THEN Turn(p, "dispatch", 2 * latest) ELSE Turn(p, "observe", On(p))

\* The Provider of the Assignment that expired last must not have run.
RecoverExpired(p) ==
    /\ At(p, "recover")
    /\ IF effect["provider"][latest] \in {"none", "failed"}
       THEN Turn(p, "dispatch", 2 * latest) ELSE Turn(p, "attention", On(p))

\* A dispatch, of the round or of the lane: replayed, prepared, or refused.
Dispatch(p, place) ==
    LET a == On(p) IN
    /\ At(p, place)
    /\ \/ asg[a].state # "none" /\ Turn(p, After(p), a)
       \/ DispatchRead(p, a, TheTask, TheAgent) /\ OnTheWay
       \/ /\ asg[a].state = "none" /\ ~Dispatchable(TheTask)
          /\ Turn(p, IF place = "dispatch" THEN "refused" ELSE "attention", a)

\* After PKR-COORD-006 the Supervisor looks for live work of another.
Refused(p) ==
    /\ At(p, "refused")
    /\ Turn(p, IF Live # {} THEN "observe" ELSE "attention", On(p))

\* Whether 30 s have passed since the last heartbeat when a round begins.  Rounds that
\* are 30 s and more apart (of one Supervisor) always find that; others do when they
\* were delayed, which is bounded: MaxLeaseRev - 1 times for a Lease.
DueAt(a) ==
    IF LongInterval THEN {TRUE} ELSE IF lease[a].rev < MaxLeaseRev THEN BOOLEAN ELSE {FALSE}

\* A heartbeat that is due comes before the lane.  Revisions from MaxLeaseRev on are
\* not told apart: the heartbeat of such a Lease shows nothing.
Running(p) ==
    /\ At(p, "running")
    /\ \/ /\ \A a \in Live : Live # {a} \/ asg[a].state # "running"
          /\ Turn(p, "alarm", On(p))
       \/ \E a \in Live :
            /\ Live = {a} /\ asg[a].state = "running"
            /\ \/ elapsed[a] /\ Turn(p, "expire", a)
               \/ /\ ~elapsed[a] /\ effect["provider"][a] = "pending"
                  /\ Turn(p, "attention", a)
               \/ /\ ~elapsed[a] /\ effect["provider"][a] = "succeeded"
                  /\ Turn(p, "lane", a)
               \/ /\ ~elapsed[a] /\ effect["provider"][a] \in {"none", "failed"}
                  /\ \E due \in DueAt(a) :
                       \/ ~due /\ Turn(p, "lane", a)
                       \/ due /\ Turn(p, IF lease[a].rev < MaxLeaseRev
                                         THEN "heartbeat" ELSE "observe", a)

-----------------------------------------------------------------------------
(* Heartbeat and expiry.                                                   *)

Heartbeat(p) ==
    LET a == On(p) IN
    /\ At(p, "heartbeat")
    /\ \/ /\ IsReplayed(p) \/ ~LeaseIsLive(a)
          /\ Turn(p, "observe", a)
       \/ ~IsReplayed(p) /\ HeartbeatRead(p, a) /\ OnTheWay
       \/ /\ ~IsReplayed(p) /\ LeaseIsLive(a) /\ elapsed[a]
          /\ Turn(p, "expireLate", a)

\* expireLease, called by the round, by a heartbeat or by a report that found
\* the time elapsed.  A Lease that is live no more is the work of another.
Expire(p) ==
    LET a == On(p) IN
    /\ sup[p].at \in Expiring /\ IsIdle(p)
    /\ \/ ~LeaseIsLive(a) /\ Turn(p, After(p), a)
       \/ ExpireRead(p, a) /\ OnTheWay

-----------------------------------------------------------------------------
(* The lane: LpsOrchestrator.executeLane.                                  *)

ExecuteLane(p) ==
    /\ At(p, "lane")
    /\ \/ \E a \in Live : Turn(p, "begin", a)
       \/ /\ Live = {}
          /\ \/ /\ \E a \in Of(TheTask) : asg[a].state = "closed"
                /\ Turn(p, "settle", On(p))
             \/ /\ \A a \in Of(TheTask) : asg[a].state # "closed"
                /\ IF latest = NoAssignment THEN Turn(p, "attention", On(p))
                   ELSE Turn(p, "laneDispatch", 2 * latest + 1)

\* The workspace needs a live execution; then the fence of the Provider.
Begin(p) ==
    LET a == On(p) IN
    /\ At(p, "begin")
    /\ \/ asg[a].state = "submitted" /\ Turn(p, "settle", a)
       \/ /\ asg[a].state # "submitted" /\ ~ExecutionIsLive(a)
          /\ Turn(p, "attention", a)
       \/ /\ ExecutionIsLive(a)
          /\ \/ EffectCheck(p, "provider", a) /\ OnTheWay
             \/ /\ effect["provider"][a] \in {"pending", "failed"}
                /\ Turn(p, "attention", a)
             \/ effect["provider"][a] = "succeeded" /\ Turn(p, "report", a)

\* The reservation, lost to another: a Provider request names its time and is
\* then another request; a verification request is the same one.
Reserve(p) ==
    LET k == pend[p].kind
        a == On(p) IN
    /\ EffectReserve(p)
    /\ IF effect[k][a] = "none" THEN OnTheWay
       ELSE /\ Go(p, IF k = "verification" /\ effect[k][a] = "succeeded"
                     THEN "accept" ELSE "attention", a)
            /\ UNCHANGED <<report, verdict, commands, latest>>

\* The external process returned; its result is kept with the effect.
Complete(p) ==
    LET a == On(p) IN
    /\ EffectDone(p)
    /\ \/ /\ pend[p].kind = "provider"
          /\ \E r \in Reports \ {"none"} : report' = [report EXCEPT ![a] = r]
          /\ Go(p, "report", a)
          /\ UNCHANGED verdict
       \/ /\ pend[p].kind = "verification"
          /\ \E v \in {"passed", "failed"} : verdict' = [verdict EXCEPT ![a] = v]
          /\ Go(p, "accept", a)
          /\ UNCHANGED report
    /\ UNCHANGED <<commands, latest>>

\* It threw: the effect stays pending.
Throw(p) ==
    /\ pend[p].op = "execute"
    /\ Stop(p)
    /\ NothingStored
    /\ Go(p, "attention", On(p))
    /\ UNCHANGED <<report, verdict, commands, latest>>

Report(p) ==
    LET a == On(p) IN
    /\ At(p, "report")
    /\ \/ IsReplayed(p) /\ Turn(p, "settle", a)
       \/ /\ ~IsReplayed(p)
          /\ ReportRead(p, IF report[a] = "failure" THEN "failure" ELSE "callback", a)
          /\ OnTheWay
       \/ /\ ~IsReplayed(p) /\ ~ExecutionIsLive(a)
          /\ Turn(p, IF LeaseIsLive(a) THEN "giveUp" ELSE "attention", a)

\* Fault: a result that was absorbed is taken for the end of the Task.
Settle_Exits(p) ==
    /\ At(p, "settle")
    /\ Turn(p, IF TheTaskIs({"blocked"}) THEN "attention" ELSE "exited", On(p))

Settle(p) ==
    /\ At(p, "settle")
    /\ Turn(p, IF TheTaskIs({"blocked"}) THEN "attention" ELSE "observe", On(p))

-----------------------------------------------------------------------------
(* The verification.                                                       *)

\* What a retained verification effect leads to.
Absorb(p, a) ==
    Turn(p, IF effect["verification"][a] = "succeeded" THEN "accept" ELSE "attention", a)

Verifying(p) ==
    LET submitted == {a \in Live : asg[a].state = "submitted"} IN
    /\ At(p, "verifying")
    /\ \/ Cardinality(submitted) # 1 /\ Turn(p, "alarm", On(p))
       \/ \E a \in submitted :
            /\ submitted = {a}
            /\ \/ report[a] = "blocked" /\ Turn(p, "attention", a)
               \/ /\ report[a] # "blocked"
                  /\ IF effect["verification"][a] = "none"
                     THEN Turn(p, "beginVerification", a) ELSE Absorb(p, a)

\* beginVerificationEffect is called outside of any try: that the Assignment is
\* submitted no more ends the watch loop with an exception.
BeginVerification(p) ==
    LET a == On(p) IN
    /\ At(p, "beginVerification")
    /\ \/ ~EffectAllowed("verification", a) /\ Turn(p, "error", a)
       \/ EffectCheck(p, "verification", a) /\ OnTheWay
       \/ /\ EffectAllowed("verification", a) /\ effect["verification"][a] # "none"
          /\ Absorb(p, a)

Accept(p) ==
    LET a == On(p) IN
    /\ At(p, "accept")
    /\ \/ IsReplayed(p) /\ Turn(p, After(p), a)
       \/ /\ ~IsReplayed(p)
          /\ VerifyRead(p, TheTask, a, TheVerifier, verdict[a] = "passed")
          /\ OnTheWay
       \/ /\ ~IsReplayed(p)
          /\ ~(TheTaskIs({"verifying"}) /\ asg[a].state = "submitted")
          /\ Turn(p, Lost(p), a)

-----------------------------------------------------------------------------
(* The commit of whatever p has prepared.                                  *)

Commit(p) ==
    /\ DispatchCommit(p) \/ CallbackCommit(p) \/ FailureCommit(p)
       \/ VerifyCommit(p) \/ HeartbeatCommit(p) \/ ExpireCommit(p)
    /\ Go(p, After(p), On(p))
    /\ commands' = commands \cup {Command(p)}
    /\ latest' = IF pend[p].op = "expire" THEN pend[p].asg ELSE latest
    /\ UNCHANGED <<report, verdict>>

\* Another process was first: with the same command, or with another.
Loses(p) ==
    /\ Conflict(p)
    /\ Go(p, IF IsReplayed(p) THEN After(p) ELSE Lost(p), On(p))
    /\ UNCHANGED <<report, verdict, commands, latest>>

SupStep(p) ==
    \/ Observe(p) \/ Blocked(p) \/ RecoverExpired(p)
    \/ Dispatch(p, "dispatch") \/ Dispatch(p, "laneDispatch") \/ Refused(p)
    \/ Running(p) \/ Heartbeat(p) \/ Expire(p)
    \/ ExecuteLane(p) \/ Begin(p) \/ Reserve(p) \/ Complete(p) \/ Throw(p)
    \/ Report(p) \/ Settle(p)
    \/ Verifying(p) \/ BeginVerification(p) \/ Accept(p)
    \/ Commit(p) \/ Loses(p)

-----------------------------------------------------------------------------
(* The environment.                                                        *)

\* Fault: a Supervisor that goes takes its pending effect out of the journal.
Killed_Undone(p) ==
    /\ sup[p].at \notin Ended
    /\ effect' = IF pend[p].op = "execute"
                 THEN [effect EXCEPT ![pend[p].kind][pend[p].asg] = "none"] ELSE effect
    /\ Stop(p)
    /\ UNCHANGED <<records, elapsed, accepted>>
    /\ Go(p, "killed", 1)
    /\ UNCHANGED <<report, verdict, commands, latest>>

\* A Supervisor is killed anywhere.  Another one, that has not begun yet, is the
\* one that is started after it.
Killed(p) ==
    /\ sup[p].at \notin Ended
    /\ Stop(p)
    /\ NothingStored
    /\ Go(p, "killed", 1)
    /\ UNCHANGED <<report, verdict, commands, latest>>

OperatorStep ==
    /\ \/ \E a \in Assignments : CancelRead(Operator, a)
       \/ CancelCommit(Operator)
       \/ Conflict(Operator)
       \/ \E k \in EffectKinds, a \in Assignments : EffectReconcile(k, a)
    /\ OnTheWay

\* The ids of the recoveries of a must be among Assignments: the bound.
Recovers(a) == {2 * a, 2 * a + 1} \subseteq Assignments
Tick ==
    /\ \E a \in Assignments : Recovers(a) /\ Elapse(a)
    /\ OnTheWay

SupNext ==
    \/ \E p \in Supervisors : SupStep(p) \/ Killed(p)
    \/ OperatorStep
    \/ Tick

SupSpec == SupInit /\ [][SupNext]_allVars

\* Every Supervisor that runs is scheduled; nobody owes anything else.
FairSupSpec == SupSpec /\ \A p \in Supervisors : WF_allVars(SupStep(p))

-----------------------------------------------------------------------------
(* Properties.                                                             *)

\* A watch loop ends with exit 0 only when its Task is done or cancelled, however
\* many others worked on the Task and whoever won each race.
ExitIsTrue ==
    \A p \in Supervisors : sup[p].at = "exited" => TheTaskIs({"done", "cancelled"})

\* What a Task may be left to.
Attended ==
    \/ TheTaskIs({"done", "cancelled", "blocked"})
    \/ \E a \in Live : elapsed[a] \/ \E k \in EffectKinds : effect[k][a] # "none"

\* The watch loops do not leave a Task behind that nobody looks at: once all
\* have ended, and none was killed, it has ended or is blocked, its Lease elapsed in
\* the middle of the last round, an effect of unknown or rejected outcome waits
\* for the owner, or one of them ended by asking for an open clarification or for
\* what its configuration misses.
NotAbandoned ==
    (\A p \in Supervisors : sup[p].at \in Ended \ {"killed"}) =>
        Attended \/ \E p \in Supervisors : sup[p].at = "asks"

\* Every watch loop ends: no two Supervisors keep each other busy for ever.  This needs
\* rounds that find a heartbeat due only finitely often, as those of an interval below
\* 30 s do unless each is delayed; with LongInterval it fails: every round is a
\* heartbeat, and none reaches the lane.
WatchEnds == \A p \in Supervisors : <>(sup[p].at \in Ended)

\* Whatever Supervisors do is an execution of PkrExecution.
ImplementsExecution == Spec

-----------------------------------------------------------------------------
(* Strengthenings that make the properties inductive.                      *)

\* The places of a round at which a command may be prepared.
Commanding == Expiring \cup {"dispatch", "heartbeat", "laneDispatch", "report", "accept"}

PlaceInv ==
    /\ \A p \in Procs : IsIdle(p) => pend[p] = Idle
    /\ \A p \in Supervisors : pend[p].op \in Mutations => sup[p].at \in Commanding

\* What expires, and what a round recovers, has the ids of its recovery.
RecoveryInv ==
    /\ \A a \in Assignments : elapsed[a] => Recovers(a)
    /\ \A p \in Supervisors :
         /\ sup[p].at \in Expiring => Recovers(On(p))
         /\ pend[p].op = "expire" => Recovers(pend[p].asg)
         /\ sup[p].at = "recover" => latest # NoAssignment
    /\ latest # NoAssignment => Recovers(latest)
    /\ task[TheTask].reason = "LeaseExpired" => latest # NoAssignment

SupInv == LaneInv /\ SupTypeOK /\ PlaceInv /\ RecoveryInv

\* A verdict is there exactly when its effect has succeeded, and whoever is in the
\* middle of an effect works on the Assignment of that effect.
VerdictInv ==
    /\ \A a \in Assignments :
         verdict[a] # "none" <=> effect["verification"][a] = "succeeded"
    /\ \A p \in Supervisors :
         pend[p].op \in {"reserve", "execute"} => pend[p].asg = On(p)

\* Whoever accepts has the verdict, and prepares what it says; once somebody has
\* committed a verdict that passed, the Task is done.
AcceptInv ==
    /\ \A p \in Supervisors : sup[p].at = "accept" =>
         /\ verdict[On(p)] # "none"
         /\ pend[p].op \in Mutations =>
              /\ pend[p].op = "verify" /\ pend[p].task = TheTask
              /\ pend[p].passed = (verdict[On(p)] = "passed")
    /\ \A c \in commands : c[1] = "accept" =>
         /\ verdict[c[2]] # "none"
         /\ verdict[c[2]] = "passed" => TheTaskIs({"done"})

ExitInv == RunsUnderEntry /\ VerdictInv /\ AcceptInv /\ ExitIsTrue
\* What Supervisor p is in the middle of belongs to the place it is at, and is about the
\* Assignment it has in hand.
Given(p) ==
    LET o == pend[p]
        at == sup[p].at IN
    /\ o.op \in {"idle", "dispatch", "callback", "failure", "verify", "heartbeat",
                 "expire", "reserve", "execute"}
    /\ o.op # "idle" => o.asg = On(p)
    /\ o.op = "dispatch" => at \in {"dispatch", "laneDispatch"}
    /\ o.op \in {"callback", "failure"} => at = "report"
    /\ o.op = "verify" => at = "accept"
    /\ o.op = "heartbeat" => at = "heartbeat"
    /\ o.op = "expire" => at \in Expiring
    /\ o.op \in {"reserve", "execute"} =>
         at = IF o.kind = "provider" THEN "begin" ELSE "beginVerification"

\* Everything is about the one Task, and the operator only cancels.
GivenInv ==
    /\ \A a \in Assignments : asg[a].state # "none" => asg[a].task = TheTask
    /\ \A p \in Procs : pend[p].op \in Mutations => pend[p].task = TheTask
    /\ pend[Operator].op \in {"idle", "cancel"}
    /\ \A p \in Supervisors : Given(p)

\* A heartbeat is prepared at the revision that its command names.
Beating(p) ==
    sup[p].at = "heartbeat" =>
        /\ sup[p].rev \in 1 .. lease[On(p)].rev
        /\ pend[p].op = "heartbeat" =>
             pend[p].seen.lease.rev = sup[p].rev /\ pend[p].seen.sess.rev = sup[p].rev

\* The Lease and the Session of a live execution have one revision, and only heartbeats
\* raise it, so that whoever finds it raised finds its own command committed.
HeartbeatInv ==
    /\ \A a \in Assignments : LeaseIsLive(a) =>
         /\ lease[a].rev >= 1 /\ sess[a].rev = lease[a].rev
         /\ \A i \in 1 .. (lease[a].rev - 1) : <<"heartbeat", a, i>> \in commands
    /\ \A p \in Supervisors : Beating(p)

\* A result is reported only of a Provider that was started.
Started(p) ==
    /\ sup[p].at = "report" => effect["provider"][On(p)] # "none"
    /\ pend[p].op = "execute" => effect[pend[p].kind][pend[p].asg] # "none"
ProviderInv ==
    /\ \A a \in Assignments :
         asg[a].state = "submitted" => effect["provider"][a] # "none"
    /\ \A p \in Supervisors : Started(p)

\* Before the first dispatch there is nothing that could refuse one.
Undisputed(p) == pend[p].op = "idle" \/ (pend[p].op = "dispatch" /\ CasHolds(pend[p]))
Opening(p) ==
    sup[p].at \in {"observe", "asks", "killed"} \/ (sup[p].at = "dispatch" /\ On(p) = 1)
BacklogInv ==
    TheTaskIs({"backlog"}) =>
        /\ \A a \in Assignments : asg[a].state = "none"
        /\ \A p \in Procs : Undisputed(p)
        /\ \A p \in Supervisors : Opening(p)

\* Supervisor p was killed, or has asked, or its round leads it to the live Assignment.
Cares(p) ==
    \/ sup[p].at \in {"observe", "running", "lane", "asks", "killed"}
    \/ sup[p].at \in {"begin", "heartbeat"} /\ On(p) \in Live

\* A Task that is worked on, with nothing that holds it up, has a Supervisor.
CareInv == Attended \/ TheTaskIs({"backlog"}) \/ \E p \in Supervisors : Cares(p)

WatchInv == GivenInv /\ HeartbeatInv /\ ProviderInv /\ BacklogInv /\ CareInv

=============================================================================
