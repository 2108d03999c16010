------------------------ MODULE PkrSupervisor_proofs ------------------------
(***************************************************************************)
(* Supervisors: proofs that whatever any number of watch loops and an      *)
(* operator do is an execution of PkrExecution, so that what is proved of  *)
(* PkrExecution holds of them; that exit 0 means that the Task has ended;  *)
(* and that no Task is left behind.                                        *)
(***************************************************************************)
EXTENDS PkrSupervisor, PkrExecution_proofs

----------------------------------------------------------------------------
(* Every step of the composition is a step of PkrExecution.                 *)

\* What a Supervisor works on, and what it is, have their types.
LEMMA SupTypes ==
    ASSUME SupInv, NEW p \in Supervisors
    PROVE  /\ p \in Procs /\ On(p) \in Assignments
           /\ TheTask \in Tasks /\ TheAgent \in Agents /\ TheVerifier \in Actors
BY ConfigAssumption DEF SupInv, SupTypeOK, Supervisors, On, Actors

LEMMA SupStepIsStep ==
    ASSUME SupInv, NEW p \in Supervisors, SupStep(p)
    PROVE  ProcNext(p) \/ UNCHANGED vars
<1> USE SupTypes
<1>1. ASSUME NEW place, NEW a, Turn(p, place, a) PROVE UNCHANGED vars
  BY <1>1 DEF Turn
<1>2. CASE Observe(p) \/ Blocked(p) \/ RecoverExpired(p) \/ Refused(p)
           \/ ExecuteLane(p) \/ Settle(p) \/ Verifying(p) \/ Running(p)
  BY <1>1, <1>2 DEF Observe, Blocked, RecoverExpired, Refused, ExecuteLane, Settle, Verifying, Absorb,
                    Running
<1>3. CASE Dispatch(p, "dispatch") \/ Dispatch(p, "laneDispatch")
  BY <1>1, <1>3 DEF Dispatch, ProcNext
<1>4. CASE Heartbeat(p) \/ Expire(p)
  BY <1>1, <1>4 DEF Heartbeat, Expire, ProcNext
<1>5. CASE Begin(p) \/ BeginVerification(p)
  BY <1>1, <1>5 DEF Begin, BeginVerification, Absorb, ProcNext, EffectKinds
<1>6. CASE Reserve(p) \/ Complete(p)
  BY <1>6 DEF Reserve, Complete, ProcNext
<1>7. CASE Throw(p)
  BY <1>7 DEF Throw, Crash, IsIdle, ProcNext
<1>8. CASE Report(p)
  BY <1>1, <1>8 DEF Report, ProcNext
<1>9. CASE Accept(p)
  <2>1. (verdict[On(p)] = "passed") \in BOOLEAN
    OBVIOUS
  <2> QED BY <1>1, <1>9, <2>1 DEF Accept, ProcNext
<1>10. CASE Commit(p)
  BY <1>10 DEF Commit, ProcNext
<1>11. CASE Loses(p)
  BY <1>11 DEF Loses, ProcNext
<1> QED
  BY <1>2, <1>3, <1>4, <1>5, <1>6, <1>7, <1>8, <1>9, <1>10, <1>11 DEF SupStep

LEMMA SupNextIsNext ==
    ASSUME SupInv, [SupNext]_allVars
    PROVE  [Next]_vars
<1>1. ASSUME NEW p \in Supervisors, SupStep(p) PROVE [Next]_vars
  BY <1>1, SupStepIsStep, SupTypes DEF Next
<1>2. ASSUME NEW p \in Supervisors, Killed(p) PROVE [Next]_vars
  <2>1. p \in Procs /\ Stop(p) /\ NothingStored
    BY <1>2, SupTypes DEF Killed
  <2>2. CASE IsIdle(p)
    <3>1. pend' = pend
      BY <2>1, <2>2 DEF Stop, SupInv, PlaceInv, SupTypeOK, TypeOK
    <3> QED BY <2>1, <3>1 DEF NothingStored, vars, records
  <2>3. CASE ~IsIdle(p)
    BY <2>1, <2>3 DEF Crash, ProcNext, Next
  <2> QED BY <2>2, <2>3
<1>3. ASSUME OperatorStep PROVE [Next]_vars
  BY <1>3, ConfigAssumption DEF OperatorStep, ProcNext, Next
<1>4. ASSUME Tick PROVE [Next]_vars
  BY <1>4 DEF Tick, Next
<1>5. ASSUME UNCHANGED allVars PROVE [Next]_vars
  BY <1>5 DEF allVars
<1> QED
  BY <1>1, <1>2, <1>3, <1>4, <1>5 DEF SupNext

----------------------------------------------------------------------------
(* SupInv is inductive.                                                     *)

SupRecord == [at : Places, asg : Assignments, rev : Nat]

\* It is enough to look at the process that makes the step.
LEMMA SupHolds ==
    ASSUME SupInv, LaneInv', NEW p \in Procs,
           sup' \in [Supervisors -> SupRecord],
           report' \in [Assignments -> Reports],
           verdict' \in [Assignments -> {"none", "passed", "failed"}],
           commands' \subseteq ((Places \cup {"recovery"}) \X Assignments \X Nat),
           \A q \in Supervisors \ {p} : sup'[q] = sup[q],
           \A q \in Procs \ {p} : pend'[q] = pend[q],
           pend'[p].op = "idle" => pend'[p] = Idle,
           p \in Supervisors =>
              /\ pend'[p].op \in Mutations => sup'[p].at \in Commanding
              /\ sup'[p].at \in Expiring => Recovers(sup'[p].asg)
              /\ pend'[p].op = "expire" => Recovers(pend'[p].asg)
              /\ sup'[p].at = "recover" => latest # NoAssignment,
           \A a \in Assignments : elapsed'[a] => elapsed[a] \/ Recovers(a),
           latest' = latest \/ (latest' \in Assignments /\ Recovers(latest')),
           task'[TheTask].reason = "LeaseExpired" =>
              task[TheTask].reason = "LeaseExpired" \/ latest' \in Assignments
    PROVE  SupInv'
<1>1. /\ latest \in Assignments \cup {NoAssignment} /\ NoAssignment \notin Assignments
      /\ latest # NoAssignment => latest' # NoAssignment
      /\ latest' \in Assignments \cup {NoAssignment}
  BY NoAssignmentAssumption DEF SupInv, SupTypeOK
<1>2. SupTypeOK'
  BY <1>1 DEF SupTypeOK, SupRecord, LaneInv, ReadInv
<1>3. PlaceInv'
  BY DEF SupInv, PlaceInv, IsIdle, Supervisors
<1>4. RecoveryInv'
  <2>1. \A a \in Assignments : elapsed'[a] => Recovers(a)
    BY DEF SupInv, RecoveryInv
  <2>2. \A q \in Supervisors :
           /\ sup'[q].at \in Expiring => Recovers(sup'[q].asg)
           /\ pend'[q].op = "expire" => Recovers(pend'[q].asg)
           /\ sup'[q].at = "recover" => latest' # NoAssignment
    BY <1>1 DEF SupInv, RecoveryInv, On, Supervisors
  <2>3. /\ latest' # NoAssignment => Recovers(latest')
        /\ task'[TheTask].reason = "LeaseExpired" => latest' # NoAssignment
    BY <1>1 DEF SupInv, RecoveryInv
  <2> QED BY <2>1, <2>2, <2>3 DEF RecoveryInv, On, Recovers
<1> QED
  BY <1>2, <1>3, <1>4 DEF SupInv

\* Where a Supervisor goes.
LEMMA GoMeans ==
    ASSUME SupInv, NEW p \in Supervisors, NEW place \in Places, NEW a \in Assignments,
           Go(p, place, a)
    PROVE  /\ sup' \in [Supervisors -> SupRecord]
           /\ sup'[p].at = place
           /\ place \in Expiring => sup'[p].asg = a
           /\ \A q \in Supervisors \ {p} : sup'[q] = sup[q]
<1>1. lease[a].rev \in Nat /\ 1 \in Assignments
  BY RevisionTypes, IdsAssumption DEF SupInv, SupTypeOK
<1> DEFINE r == [at |-> place, asg |-> IF place \in Anywhere THEN 1 ELSE a,
                 rev |-> IF place \in Expiring \cup {"heartbeat"} THEN lease[a].rev ELSE 0]
<1>2. r \in SupRecord
  BY <1>1 DEF SupRecord
<1>3. sup' = [sup EXCEPT ![p] = r] /\ sup \in [Supervisors -> SupRecord]
  BY DEF Go, SupInv, SupTypeOK, SupRecord
<1>4. r.at = place /\ (place \in Expiring => r.asg = a)
  BY DEF Expiring, Anywhere, Ended
<1> HIDE DEF r
<1> QED
  BY <1>2, <1>3, <1>4

\* A step that only reads, and goes to a place for which there is a reason.
LEMMA TurnHolds ==
    ASSUME SupInv, LaneInv', NEW p \in Supervisors, NEW place \in Places, NEW a \in Assignments,
           Turn(p, place, a), IsIdle(p),
           place \in Expiring => Recovers(a),
           place = "recover" => latest # NoAssignment
    PROVE  SupInv'
<1>1. /\ sup' \in [Supervisors -> SupRecord] /\ sup'[p].at = place
      /\ place \in Expiring => sup'[p].asg = a
      /\ \A q \in Supervisors \ {p} : sup'[q] = sup[q]
  BY GoMeans DEF Turn
<1>2. UNCHANGED <<pend, elapsed, task, latest, report, verdict, commands>>
  BY DEF Turn, vars, records
<1>3. /\ report' \in [Assignments -> Reports]
      /\ verdict' \in [Assignments -> {"none", "passed", "failed"}]
      /\ commands' \subseteq ((Places \cup {"recovery"}) \X Assignments \X Nat)
  BY <1>2 DEF SupInv, SupTypeOK
<1>4. p \in Procs /\ pend'[p] = Idle /\ pend'[p].op = "idle"
  BY <1>2, SupTypes DEF SupInv, PlaceInv, IsIdle
<1> QED
  BY <1>1, <1>2, <1>3, <1>4, SupHolds DEF Mutations, SupInv, RecoveryInv

\* A command that is prepared where it is given.
LEMMA ReadHolds ==
    ASSUME SupInv, LaneInv', NEW p \in Supervisors, OnTheWay, NothingStored,
           pend'[p].op # "idle", \A q \in Procs \ {p} : pend'[q] = pend[q],
           pend'[p].op \in Mutations => sup[p].at \in Commanding,
           pend'[p].op = "expire" => Recovers(pend'[p].asg)
    PROVE  SupInv'
<1>1. UNCHANGED <<elapsed, task, latest, report, verdict, commands, sup>>
  BY DEF NothingStored, records, OnTheWay, supVars
<1>2. /\ report' \in [Assignments -> Reports]
      /\ verdict' \in [Assignments -> {"none", "passed", "failed"}]
      /\ commands' \subseteq ((Places \cup {"recovery"}) \X Assignments \X Nat)
      /\ sup' \in [Supervisors -> SupRecord]
  BY <1>1 DEF SupInv, SupTypeOK, SupRecord
<1>3. /\ p \in Procs
      /\ sup'[p].at \in Expiring => Recovers(sup'[p].asg)
      /\ sup'[p].at = "recover" => latest # NoAssignment
  BY <1>1, SupTypes DEF SupInv, RecoveryInv, On
<1> QED
  BY <1>1, <1>2, <1>3, SupHolds

\* A Lease that is live although its execution is not has elapsed.
LEMMA LiveLeaseElapsed ==
    ASSUME LaneInv, NEW a \in Assignments, LeaseIsLive(a), ~ExecutionIsLive(a)
    PROVE  elapsed[a]
<1>1. /\ asg[a].state \in {"none", "running", "submitted"} \cup TerminalAssignment
      /\ AsgAgrees(a)
      /\ asg[a].state = "none" => lease[a] = None
  BY DEF LaneInv, ReadInv, TypeOK, Assignment, LiveAssignment, PhaseAgreement, Fresh
<1>2. asg[a].state = "running"
  BY <1>1 DEF AsgAgrees, LeaseIsLive, LiveLease, None
<1> QED
  BY <1>1, <1>2 DEF ExecutionIsLive, AsgAgrees

\* The steps of a round that choose, and read only.
LEMMA ChoiceHolds ==
    ASSUME SupInv, LaneInv', NEW p \in Supervisors,
           \/ Observe(p) \/ Blocked(p) \/ RecoverExpired(p) \/ Refused(p) \/ Running(p)
           \/ ExecuteLane(p) \/ Settle(p) \/ Verifying(p)
    PROVE  SupInv'
<1>1. /\ On(p) \in Assignments /\ 1 \in Assignments
      /\ \A a \in Live : a \in Assignments
      /\ latest # NoAssignment =>
           latest \in Assignments /\ 2 * latest \in Assignments /\ 2 * latest + 1 \in Assignments
      /\ task[TheTask].reason = "LeaseExpired" => latest # NoAssignment
      /\ sup[p].at = "recover" => latest # NoAssignment
      /\ \A a \in Assignments : elapsed[a] => Recovers(a)
  BY SupTypes, IdsAssumption DEF Live, Of, SupInv, SupTypeOK, RecoveryInv, Recovers
<1>2. Anywhere \cup Expiring \subseteq Places /\ "recover" \notin Expiring
      /\ {"dispatch", "laneDispatch", "heartbeat", "begin", "accept", "beginVerification"}
           \subseteq Places \ Expiring
  BY DEF Places, Expiring
<1>3. ASSUME NEW place \in (Anywhere \ {"recover"}) \cup
                {"dispatch", "laneDispatch", "heartbeat", "begin", "accept", "beginVerification"},
             NEW a \in Assignments, Turn(p, place, a), IsIdle(p)
      PROVE  SupInv'
  <2>1. place \in Places /\ place \notin Expiring /\ place # "recover"
    BY <1>2, <1>3 DEF Anywhere, Ended, Expiring
  <2> QED BY <1>3, <2>1, TurnHolds
<1>4. {"exited", "attention", "alarm", "asks", "observe", "blocked", "running", "lane", "settle",
       "verifying"} \subseteq Anywhere \ {"recover"}
  BY DEF Anywhere, Ended
<1>5. CASE Observe(p)
  BY <1>1, <1>3, <1>4, <1>5 DEF Observe, At
<1>6. CASE Blocked(p)
  <2>1. CASE Turn(p, "recover", On(p)) /\ latest # NoAssignment
    <3>1. "recover" \in Places /\ "recover" \notin Expiring
      BY <1>2 DEF Anywhere, Ended
    <3> QED BY <1>1, <1>6, <2>1, <3>1, TurnHolds DEF Blocked, At
  <2>2. CASE Turn(p, "attention", On(p))
    BY <1>1, <1>3, <1>4, <1>6, <2>2 DEF Blocked, At
  <2> QED BY <1>1, <1>6, <2>1, <2>2 DEF Blocked
<1>7. CASE RecoverExpired(p)
  BY <1>1, <1>3, <1>4, <1>7 DEF RecoverExpired, At
<1>8. CASE Refused(p) \/ Settle(p)
  BY <1>1, <1>3, <1>4, <1>8 DEF Refused, Settle, At
<1>9. CASE Running(p)
  <2>1. IsIdle(p)
    BY <1>9 DEF Running, At
  <2>2. ASSUME NEW a \in Live, elapsed[a], Turn(p, "expire", a) PROVE SupInv'
    <3>1. "expire" \in Places /\ "expire" # "recover" /\ Recovers(a) /\ a \in Assignments
      BY <1>1, <2>2 DEF Places, Expiring
    <3> QED BY <2>1, <2>2, <3>1, TurnHolds
  <2>3. \/ Turn(p, "alarm", On(p))
        \/ \E a \in Live : elapsed[a] /\ Turn(p, "expire", a)
        \/ \E a \in Live : \/ Turn(p, "attention", a) \/ Turn(p, "lane", a)
                           \/ Turn(p, "heartbeat", a) \/ Turn(p, "observe", a)
    BY <1>9 DEF Running
  <2> QED BY <1>1, <1>3, <1>4, <2>1, <2>2, <2>3
<1>10. CASE ExecuteLane(p)
  BY <1>1, <1>3, <1>4, <1>10 DEF ExecuteLane, At
<1>11. CASE Verifying(p)
  <2>1. IsIdle(p)
    BY <1>11 DEF Verifying, At
  <2>2. \/ Turn(p, "alarm", On(p))
        \/ \E a \in Live : \/ Turn(p, "attention", a) \/ Turn(p, "beginVerification", a)
                           \/ Turn(p, "accept", a)
    BY <1>11 DEF Verifying, Absorb
  <2> QED BY <1>1, <1>3, <1>4, <2>1, <2>2
<1> QED
  BY <1>5, <1>6, <1>7, <1>8, <1>9, <1>10, <1>11

\* The steps that give a command: replayed, refused or prepared.
LEMMA CommandHolds ==
    ASSUME SupInv, LaneInv', NEW p \in Supervisors,
           \/ Dispatch(p, "dispatch") \/ Dispatch(p, "laneDispatch") \/ Heartbeat(p) \/ Expire(p)
           \/ Begin(p) \/ Report(p) \/ BeginVerification(p) \/ Accept(p)
    PROVE  SupInv'
<1> DEFINE a == On(p)
<1>1. a \in Assignments /\ p \in Procs /\ IsIdle(p) /\ TypeOK /\ LaneInv
  BY SupTypes DEF Dispatch, Heartbeat, Expire, Begin, Report, BeginVerification, Accept, At,
                  SupInv, SupTypeOK
<1>2. ASSUME NEW place \in {"exited", "attention", "error", "observe", "refused", "settle",
                            "begin", "report", "accept"}, Turn(p, place, a)
      PROVE  SupInv'
  <2>1. place \in Places /\ place \notin Expiring /\ place # "recover"
    BY <1>2 DEF Places, Anywhere, Ended, Expiring
  <2> QED BY <1>1, <1>2, <2>1, TurnHolds
<1>3. ASSUME NEW place \in {"expireLate", "giveUp"}, elapsed[a], Turn(p, place, a)
      PROVE  SupInv'
  <2>1. place \in Places /\ place # "recover" /\ Recovers(a)
    BY <1>1, <1>3 DEF Places, Expiring, SupInv, RecoveryInv
  <2> QED BY <1>1, <1>3, <2>1, TurnHolds
<1>4. ASSUME NEW o \in Mutations, NEW t, NEW by, NEW passed, NEW r,
             Prepare(p, o, a, t, by, passed, r), OnTheWay, NothingStored,
             sup[p].at \in Commanding, o = "expire" => sup[p].at \in Expiring
      PROVE  SupInv'
  <2>1. /\ pend'[p].op = o /\ pend'[p].asg = a
        /\ \A q \in Procs \ {p} : pend'[q] = pend[q]
    BY <1>1, <1>4, PrepareMeans
  <2>2. o # "idle" /\ (o = "expire" => Recovers(a))
    BY <1>4 DEF Mutations, SupInv, RecoveryInv
  <2> QED BY <1>4, <2>1, <2>2, ReadHolds
<1>5. ASSUME NEW k, EffectCheck(p, k, a), OnTheWay PROVE SupInv'
  <2>1. pend'[p].op = "reserve" /\ \A q \in Procs \ {p} : pend'[q] = pend[q]
    BY <1>1, <1>5 DEF EffectCheck, Await, Waiting, TypeOK
  <2>2. NothingStored
    BY <1>5 DEF EffectCheck
  <2> QED BY <1>5, <2>1, <2>2, ReadHolds DEF Mutations
<1>6. ASSUME sup[p].at \in {"dispatch", "laneDispatch", "accept"} \cup Expiring, Turn(p, After(p), a)
      PROVE  SupInv'
  <2>1. After(p) \in {"observe", "begin", "attention", "exited"}
    BY <1>6 DEF After, Expiring
  <2> QED BY <1>2, <1>6, <2>1
<1>7. CASE Dispatch(p, "dispatch") \/ Dispatch(p, "laneDispatch")
  <2>1. sup[p].at \in {"dispatch", "laneDispatch"} /\ sup[p].at \in Commanding
    BY <1>7 DEF Dispatch, At, Commanding
  <2>2. CASE DispatchRead(p, a, TheTask, TheAgent) /\ OnTheWay
    BY <1>4, <2>1, <2>2 DEF DispatchRead, Mutations
  <2>3. CASE Turn(p, After(p), a) \/ Turn(p, "refused", a) \/ Turn(p, "attention", a)
    BY <1>2, <1>6, <2>1, <2>3
  <2> QED BY <1>7, <2>2, <2>3 DEF Dispatch
<1>8. CASE Heartbeat(p)
  <2>1. sup[p].at = "heartbeat" /\ sup[p].at \in Commanding
    BY <1>8 DEF Heartbeat, At, Commanding
  <2>2. CASE HeartbeatRead(p, a) /\ OnTheWay
    BY <1>4, <2>1, <2>2 DEF HeartbeatRead, Mutations
  <2> QED BY <1>2, <1>3, <1>8, <2>2 DEF Heartbeat
<1>9. CASE Expire(p)
  <2>1. sup[p].at \in Expiring /\ sup[p].at \in Commanding
    BY <1>9 DEF Expire, Commanding
  <2>2. CASE ExpireRead(p, a) /\ OnTheWay
    BY <1>4, <2>1, <2>2 DEF ExpireRead, Mutations
  <2> QED BY <1>6, <1>9, <2>1, <2>2 DEF Expire
<1>10. CASE Begin(p)
  BY <1>2, <1>5, <1>10 DEF Begin
<1>11. CASE Report(p)
  <2>1. sup[p].at = "report" /\ sup[p].at \in Commanding
    BY <1>11 DEF Report, At, Commanding
  <2>2. ASSUME NEW o \in {"callback", "failure"}, ReportRead(p, o, a), OnTheWay PROVE SupInv'
    <3>1. Prepare(p, o, a, asg[a].task, asg[a].agent, FALSE, RunFound(asg[a].task, a))
          /\ NothingStored
      BY <2>2 DEF ReportRead
    <3>2. o \in Mutations /\ o # "expire"
      BY <2>2 DEF Mutations
    <3> QED BY <1>4, <2>1, <2>2, <3>1, <3>2
  <2>3. CASE ~ExecutionIsLive(a) /\ LeaseIsLive(a) /\ Turn(p, "giveUp", a)
    BY <1>1, <1>3, <2>3, LiveLeaseElapsed
  <2> QED BY <1>2, <1>11, <2>2, <2>3 DEF Report
<1>12. CASE BeginVerification(p)
  BY <1>2, <1>5, <1>12 DEF BeginVerification, Absorb
<1>13. CASE Accept(p)
  <2>1. sup[p].at = "accept" /\ sup[p].at \in Commanding
    BY <1>13 DEF Accept, At, Commanding
  <2>2. CASE VerifyRead(p, TheTask, a, TheVerifier, verdict[a] = "passed") /\ OnTheWay
    BY <1>4, <2>1, <2>2 DEF VerifyRead, Mutations
  <2>3. CASE Turn(p, Lost(p), a)
    BY <1>2, <2>3 DEF Lost
  <2> QED BY <1>6, <1>13, <2>1, <2>2, <2>3 DEF Accept
<1> QED
  BY <1>7, <1>8, <1>9, <1>10, <1>11, <1>12, <1>13

\* A process that stops is idle.
LEMMA StopMeans ==
    ASSUME TypeOK, NEW p \in Procs, Stop(p)
    PROVE  pend'[p] = Idle /\ pend'[p].op = "idle" /\ \A q \in Procs \ {p} : pend'[q] = pend[q]
<1>1. Idle.op = "idle"
  BY DEF Idle, Waiting
<1> HIDE DEF Idle
<1> QED
  BY <1>1 DEF Stop, TypeOK

\* A Supervisor that stops, and goes to a place that needs no reason.
LEMMA StopHolds ==
    ASSUME SupInv, LaneInv', NEW p \in Supervisors, Stop(p),
           NEW place \in Places, place \notin Expiring, place # "recover",
           NEW a \in Assignments, Go(p, place, a),
           report' \in [Assignments -> Reports],
           verdict' \in [Assignments -> {"none", "passed", "failed"}],
           UNCHANGED <<commands, latest, task, elapsed>>
    PROVE  SupInv'
<1>1. /\ sup' \in [Supervisors -> SupRecord] /\ sup'[p].at = place
      /\ \A q \in Supervisors \ {p} : sup'[q] = sup[q]
  BY GoMeans
<1>2. /\ pend'[p] = Idle /\ pend'[p].op = "idle" /\ \A q \in Procs \ {p} : pend'[q] = pend[q]
      /\ p \in Procs
  BY StopMeans, SupTypes DEF SupInv, SupTypeOK
<1>3. commands' \subseteq ((Places \cup {"recovery"}) \X Assignments \X Nat)
  BY DEF SupInv, SupTypeOK
<1> QED
  BY <1>1, <1>2, <1>3, SupHolds DEF Mutations

\* Where a command leads, once it is committed.
LEMMA AfterPlaces ==
    ASSUME NEW p \in Supervisors, sup[p].at \in Commanding
    PROVE  After(p) \in {"observe", "begin", "settle", "attention", "exited"}
BY DEF Commanding, Expiring, After

LEMMA QuietPlaces ==
    ASSUME NEW place \in {"observe", "begin", "settle", "attention", "exited", "killed",
                          "report", "accept"}
    PROVE  place \in Places /\ place \notin Expiring /\ place # "recover"
BY DEF Places, Anywhere, Ended, Expiring

\* The external effects, lost races and kills.
LEMMA EffectHolds ==
    ASSUME SupInv, LaneInv', NEW p \in Supervisors,
           Reserve(p) \/ Complete(p) \/ Throw(p) \/ Loses(p) \/ Killed(p)
    PROVE  SupInv'
<1>1. /\ On(p) \in Assignments /\ p \in Procs /\ TypeOK /\ 1 \in Assignments
      /\ report \in [Assignments -> Reports]
      /\ verdict \in [Assignments -> {"none", "passed", "failed"}]
  BY SupTypes, IdsAssumption DEF SupInv, SupTypeOK
<1>2. CASE Reserve(p)
  <2>1. UNCHANGED <<task, elapsed, report, verdict, commands, latest>>
    BY <1>2 DEF Reserve, EffectReserve, records, OnTheWay, supVars
  <2>2. /\ pend'[p].op \in {"idle", "execute"} /\ (pend'[p].op = "idle" => pend'[p] = Idle)
        /\ \A q \in Procs \ {p} : pend'[q] = pend[q]
    <3>1. CASE Stop(p)
      BY <1>1, <3>1, StopMeans
    <3>2. CASE Await(p, "execute", pend[p].kind, pend[p].asg)
      BY <1>1, <3>2 DEF Await, Waiting, TypeOK
    <3> QED BY <1>2, <3>1, <3>2 DEF Reserve, EffectReserve
  <2>3. /\ sup' \in [Supervisors -> SupRecord]
        /\ \A q \in Supervisors \ {p} : sup'[q] = sup[q]
        /\ sup'[p].at \in Expiring => Recovers(sup'[p].asg)
        /\ sup'[p].at = "recover" => latest # NoAssignment
    <3>1. CASE OnTheWay
      BY <3>1 DEF OnTheWay, supVars, SupInv, SupTypeOK, SupRecord, RecoveryInv, On
    <3>2. ASSUME NEW place \in {"accept", "attention"}, Go(p, place, On(p))
          PROVE  /\ sup' \in [Supervisors -> SupRecord] /\ sup'[p].at = place
                 /\ place \notin Expiring /\ place # "recover"
                 /\ \A q \in Supervisors \ {p} : sup'[q] = sup[q]
      BY <1>1, <3>2, QuietPlaces, GoMeans
    <3>3. OnTheWay \/ Go(p, "accept", On(p)) \/ Go(p, "attention", On(p))
      BY <1>2 DEF Reserve
    <3> QED BY <3>1, <3>2, <3>3
  <2>4. /\ report' \in [Assignments -> Reports]
        /\ verdict' \in [Assignments -> {"none", "passed", "failed"}]
        /\ commands' \subseteq ((Places \cup {"recovery"}) \X Assignments \X Nat)
    BY <1>1, <2>1 DEF SupInv, SupTypeOK
  <2> QED BY <1>1, <2>1, <2>2, <2>3, <2>4, SupHolds DEF Mutations
<1>3. ASSUME NEW place \in {"observe", "begin", "settle", "attention", "exited", "killed",
                            "report", "accept"},
             NEW a \in Assignments, Go(p, place, a), Stop(p),
             UNCHANGED <<commands, latest, task, elapsed>>,
             report' \in [Assignments -> Reports],
             verdict' \in [Assignments -> {"none", "passed", "failed"}]
      PROVE  SupInv'
  BY <1>3, QuietPlaces, StopHolds
<1>4. CASE Complete(p)
  <2>1. Stop(p) /\ UNCHANGED <<task, elapsed, commands, latest>>
    BY <1>4 DEF Complete, EffectDone, records
  <2>2. /\ Go(p, "report", On(p)) \/ Go(p, "accept", On(p))
        /\ report' \in [Assignments -> Reports]
        /\ verdict' \in [Assignments -> {"none", "passed", "failed"}]
    BY <1>1, <1>4 DEF Complete
  <2> QED BY <1>1, <1>3, <2>1, <2>2
<1>5. CASE Throw(p)
  BY <1>1, <1>3, <1>5 DEF Throw, NothingStored, records
<1>6. CASE Loses(p)
  <2>1. Stop(p) /\ UNCHANGED <<task, elapsed, commands, latest, report, verdict>>
    BY <1>6 DEF Loses, Conflict, NothingStored, records
  <2>2. sup[p].at \in Commanding
    BY <1>6, SupTypes DEF Loses, Conflict, SupInv, PlaceInv
  <2>3. After(p) \in {"observe", "begin", "settle", "attention", "exited"}
        /\ Lost(p) \in {"observe", "attention", "exited"}
    BY <2>2, AfterPlaces DEF Lost
  <2>4. Go(p, After(p), On(p)) \/ Go(p, Lost(p), On(p))
    BY <1>6 DEF Loses
  <2> QED BY <1>1, <1>3, <2>1, <2>3, <2>4
<1>7. CASE Killed(p)
  BY <1>1, <1>3, <1>7 DEF Killed, NothingStored, records
<1> QED
  BY <1>2, <1>4, <1>5, <1>6, <1>7

\* The commits of Supervisors.  Only an expiry blocks a Task for its Lease, and it
\* names the Assignment that expired.
LEMMA CommitHolds ==
    ASSUME SupInv, LaneInv', NEW p \in Supervisors, Commit(p)
    PROVE  SupInv'
<1>1. /\ On(p) \in Assignments /\ p \in Procs /\ TypeOK /\ pend[p].asg \in Assignments
      /\ pend[p].task \in Tasks /\ TheTask \in Tasks
  BY SupTypes, PendingTypes DEF SupInv, SupTypeOK
<1>2. Stop(p) /\ pend[p].op \in Mutations
  BY DEF Commit, DispatchCommit, CallbackCommit, FailureCommit, VerifyCommit, HeartbeatCommit,
         ExpireCommit, Commits, Mutations
<1>3. /\ pend'[p] = Idle /\ pend'[p].op = "idle" /\ \A q \in Procs \ {p} : pend'[q] = pend[q]
  BY <1>1, <1>2, StopMeans
<1>4. sup[p].at \in Commanding
  BY <1>1, <1>2 DEF SupInv, PlaceInv
<1>5. After(p) \in Places /\ After(p) \notin Expiring /\ After(p) # "recover"
  BY <1>4, AfterPlaces, QuietPlaces
<1>6. /\ sup' \in [Supervisors -> SupRecord] /\ sup'[p].at = After(p)
      /\ \A q \in Supervisors \ {p} : sup'[q] = sup[q]
  BY <1>1, <1>5, GoMeans DEF Commit
<1>7. commands' \subseteq ((Places \cup {"recovery"}) \X Assignments \X Nat)
  <2>1. sup[p].at \in Places /\ sup[p].rev \in Nat
    BY DEF SupInv, SupTypeOK
  <2>2. Command(p) \in ((Places \cup {"recovery"}) \X Assignments \X Nat)
    BY <1>1, <2>1 DEF Command, On
  <2> QED BY <2>2 DEF Commit, SupInv, SupTypeOK
<1>8. /\ report' \in [Assignments -> Reports]
      /\ verdict' \in [Assignments -> {"none", "passed", "failed"}]
  BY DEF Commit, SupInv, SupTypeOK
<1>9. \A a \in Assignments : elapsed'[a] => elapsed[a]
  BY <1>1 DEF Commit, DispatchCommit, CallbackCommit, FailureCommit, VerifyCommit,
              HeartbeatCommit, ExpireCommit, TypeOK
<1>10. /\ latest' = latest \/ (latest' \in Assignments /\ Recovers(latest'))
       /\ pend[p].op = "expire" => latest' \in Assignments
  BY <1>1 DEF Commit, SupInv, RecoveryInv
<1>11. pend[p].op # "expire" =>
         (task'[TheTask].reason = "LeaseExpired" => task[TheTask].reason = "LeaseExpired")
  <2> SUFFICES ASSUME pend[p].op # "expire"
               PROVE  task'[TheTask].reason = "LeaseExpired" =>
                        task[TheTask].reason = "LeaseExpired"
    OBVIOUS
  <2>1. ASSUME NEW ph, NEW why, why # "LeaseExpired", PutTask(p, ph, why)
        PROVE  task'[TheTask].reason = "LeaseExpired" => task[TheTask].reason = "LeaseExpired"
    BY <1>1, <2>1 DEF PutTask, RevisedTask, TypeOK
  <2>2. CASE DispatchCommit(p)
    BY <1>1, <2>2 DEF DispatchCommit, TypeOK
  <2>3. CASE CallbackCommit(p) \/ FailureCommit(p)
    BY <2>1, <2>3 DEF CallbackCommit, FailureCommit
  <2>4. CASE VerifyCommit(p)
    BY <2>1, <2>4 DEF VerifyCommit
  <2>5. CASE HeartbeatCommit(p)
    BY <2>5 DEF HeartbeatCommit
  <2> QED
    BY <2>2, <2>3, <2>4, <2>5 DEF Commit, ExpireCommit, Commits
<1> QED
  BY <1>1, <1>3, <1>5, <1>6, <1>7, <1>8, <1>9, <1>10, <1>11, SupHolds DEF Mutations

\* The operator and the clock.
LEMMA EnvironmentHolds ==
    ASSUME SupInv, LaneInv', OperatorStep \/ Tick
    PROVE  SupInv'
<1>1. Operator \in Procs /\ Operator \notin Supervisors /\ TypeOK
  BY ConfigAssumption DEF Supervisors, SupInv, SupTypeOK
<1>2. UNCHANGED <<sup, report, verdict, commands, latest>>
  BY DEF OperatorStep, Tick, OnTheWay, supVars
<1>3. /\ report' \in [Assignments -> Reports]
      /\ verdict' \in [Assignments -> {"none", "passed", "failed"}]
      /\ commands' \subseteq ((Places \cup {"recovery"}) \X Assignments \X Nat)
      /\ sup' \in [Supervisors -> SupRecord]
  BY <1>2 DEF SupInv, SupTypeOK, SupRecord
<1>4. ASSUME \A q \in Procs \ {Operator} : pend'[q] = pend[q],
             pend'[Operator].op = "idle" => pend'[Operator] = Idle,
             \A a \in Assignments : elapsed'[a] => elapsed[a] \/ Recovers(a),
             task'[TheTask].reason = "LeaseExpired" => task[TheTask].reason = "LeaseExpired"
      PROVE  SupInv'
  BY <1>1, <1>2, <1>3, <1>4, SupHolds
<1>5. ASSUME NEW a \in Assignments, CancelRead(Operator, a) PROVE SupInv'
  <2>1. /\ pend'[Operator].op = "cancel" /\ \A q \in Procs \ {Operator} : pend'[q] = pend[q]
        /\ UNCHANGED <<task, elapsed>>
    BY <1>1, <1>5, PrepareMeans DEF CancelRead, NothingStored, records
  <2> QED BY <1>4, <2>1
<1>6. CASE CancelCommit(Operator)
  <2>1. /\ pend'[Operator] = Idle /\ \A q \in Procs \ {Operator} : pend'[q] = pend[q]
        /\ UNCHANGED elapsed
    BY <1>1, <1>6, StopMeans DEF CancelCommit, Commits
  <2>2. task'[TheTask].reason = "LeaseExpired" => task[TheTask].reason = "LeaseExpired"
    BY <1>1, <1>6, ConfigAssumption DEF CancelCommit, PutTask, RevisedTask, TypeOK
  <2> QED BY <1>4, <2>1, <2>2
<1>7. CASE Conflict(Operator)
  BY <1>1, <1>4, <1>7, StopMeans DEF Conflict, NothingStored, records
<1>8. ASSUME NEW k \in EffectKinds, NEW a \in Assignments, EffectReconcile(k, a) PROVE SupInv'
  BY <1>1, <1>4, <1>8 DEF EffectReconcile, records, SupInv, PlaceInv, IsIdle
<1>9. ASSUME Tick PROVE SupInv'
  <2>1. UNCHANGED <<pend, task>>
        /\ \A a \in Assignments : elapsed'[a] => elapsed[a] \/ Recovers(a)
    BY <1>1, <1>9 DEF Tick, Elapse, records, TypeOK
  <2> QED BY <1>1, <1>4, <2>1 DEF SupInv, PlaceInv, IsIdle
<1> QED
  BY <1>5, <1>6, <1>7, <1>8, <1>9 DEF OperatorStep

\* SupInv is preserved by every step.
LEMMA SupInvStep ==
    ASSUME SupInv, [SupNext]_allVars, MixedVerify = FALSE
    PROVE  SupInv'
<1>1. LaneInv'
  BY SupNextIsNext, LaneInvStep DEF SupInv
<1>2. ASSUME UNCHANGED allVars PROVE SupInv'
  <2>1. UNCHANGED <<pend, elapsed, task, latest, report, verdict, commands, sup>>
    BY <1>2 DEF allVars, vars, supVars
  <2>2. Operator \in Procs /\ Operator \notin Supervisors
    BY ConfigAssumption DEF Supervisors
  <2> QED BY <1>1, <2>1, <2>2, SupHolds DEF SupInv, SupTypeOK, SupRecord, PlaceInv, IsIdle
<1>3. ASSUME NEW p \in Supervisors, SupStep(p) PROVE SupInv'
  BY <1>1, <1>3, ChoiceHolds, CommandHolds, EffectHolds, CommitHolds DEF SupStep
<1>4. ASSUME NEW p \in Supervisors, Killed(p) PROVE SupInv'
  BY <1>1, <1>4, EffectHolds
<1>5. ASSUME OperatorStep \/ Tick PROVE SupInv'
  BY <1>1, <1>5, EnvironmentHolds
<1> QED
  BY <1>2, <1>3, <1>4, <1>5 DEF SupNext

\* SupInv holds at the start.
LEMMA SupStarts ==
    ASSUME SupInit
    PROVE  SupInv
<1>1. Init /\ LaneInv /\ TypeOK /\ TheTask \in Tasks
  BY LaneStarts, ConfigAssumption DEF SupInit, LaneInv, ReadInv
<1>2. SupTypeOK
  BY <1>1, IdsAssumption DEF SupInit, SupTypeOK, Places, Anywhere, Ended, Reports
<1>3. \A p \in Procs : pend[p] = Idle /\ pend[p].op = "idle"
  <2>1. Idle.op = "idle"
    BY DEF Idle, Waiting
  <2> QED BY <1>1, <2>1 DEF Init
<1>4. PlaceInv
  BY <1>3 DEF PlaceInv, Mutations, Supervisors
<1>5. task[TheTask].reason = "Created" /\ \A a \in Assignments : elapsed[a] = FALSE
  BY <1>1 DEF Init, NewTask
<1>6. \A p \in Supervisors : sup[p].at = "observe" /\ pend[p].op = "idle"
  BY <1>3 DEF SupInit, Supervisors
<1>7. RecoveryInv
  BY <1>5, <1>6 DEF RecoveryInv, SupInit, Expiring
<1> QED
  BY <1>1, <1>2, <1>4, <1>7 DEF SupInv

----------------------------------------------------------------------------
(* The theorems.                                                            *)

\* However many Supervisors watch one Task, and whatever the operator and the clock
\* do in between, SupInv holds.
THEOREM SupHoldsAlways ==
    ASSUME MixedVerify = FALSE
    PROVE  SupSpec => []SupInv
<1>1. SupInit => SupInv
  BY SupStarts
<1>2. SupInv /\ [SupNext]_allVars => SupInv'
  BY SupInvStep
<1> QED
  BY <1>1, <1>2, PTL DEF SupSpec

\* The places, commands and results of Supervisors have their types.
THEOREM SupTypeCorrect ==
    ASSUME MixedVerify = FALSE
    PROVE  SupSpec => []SupTypeOK
<1>1. SupInv => SupTypeOK
  BY DEF SupInv
<1> QED
  BY <1>1, SupHoldsAlways, PTL

\* Whatever any number of watch loops, an operator and the clock do to the records of
\* the Runtime is something that PkrExecution allows: each derived id exists, each
\* guard that the loop relies on is one that the Runtime checks.
THEOREM SupImplements ==
    ASSUME MixedVerify = FALSE
    PROVE  SupSpec => ImplementsExecution
<1>1. SupInit => Init
  BY DEF SupInit
<1>2. SupInv /\ [SupNext]_allVars => [Next]_vars
  BY SupNextIsNext
<1> QED
  BY <1>1, <1>2, SupHoldsAlways, PTL DEF SupSpec, ImplementsExecution, Spec

----------------------------------------------------------------------------
(* Exit 0 means that the Task has ended (ExitIsTrue).                       *)

TheTaskEnded == TheTaskIs({"done", "cancelled"})

\* It is enough to look at the process that makes the step, and at the verdicts.
LEMMA ExitHolds ==
    ASSUME SupInv, ExitInv, RunsUnderEntry', EndedKept, NEW p \in Procs,
           \A q \in Supervisors \ {p} : sup'[q] = sup[q] /\ pend'[q] = pend[q],
           \A a \in Assignments :
              /\ verdict'[a] # "none" <=> effect'["verification"][a] = "succeeded"
              /\ verdict[a] # "none" => verdict'[a] = verdict[a],
           p \in Supervisors =>
              /\ sup'[p].asg \in Assignments
              /\ pend'[p].op \in {"reserve", "execute"} => pend'[p].asg = sup'[p].asg
              /\ sup'[p].at = "accept" =>
                   /\ verdict'[sup'[p].asg] # "none"
                   /\ pend'[p].op \in Mutations =>
                        /\ pend'[p].op = "verify" /\ pend'[p].task = TheTask
                        /\ pend'[p].passed = (verdict'[sup'[p].asg] = "passed")
              /\ sup'[p].at = "exited" => sup[p].at = "exited" \/ TheTaskEnded \/ TheTaskEnded',
           \A c \in commands' : c \in commands \/
              (c[1] = "accept" =>
                 /\ verdict'[c[2]] # "none"
                 /\ verdict'[c[2]] = "passed" => TheTaskIs({"done"})')
    PROVE  ExitInv'
<1>1. /\ \A q \in Supervisors : On(q) \in Assignments
      /\ \A c \in commands : c[2] \in Assignments
      /\ TheTask \in Tasks
  <2>1. \A c \in commands : c[2] \in Assignments
    BY DEF SupInv, SupTypeOK
  <2>2. TheTask \in Tasks /\ \A q \in Supervisors : On(q) \in Assignments
    BY SupTypes, ConfigAssumption
  <2> QED BY <2>1, <2>2
<1>2. /\ TheTaskEnded => TheTaskEnded'
      /\ TheTaskIs({"done"}) => TheTaskIs({"done"})'
  BY <1>1 DEF TheTaskEnded, TheTaskIs, EndedKept
<1>3. VerdictInv'
  <2>1. ASSUME NEW q \in Supervisors, pend'[q].op \in {"reserve", "execute"}
        PROVE  pend'[q].asg = sup'[q].asg
    <3>1. CASE q = p
      BY <2>1, <3>1
    <3>2. CASE q # p
      BY <2>1, <3>2 DEF ExitInv, VerdictInv, On
    <3> QED BY <3>1, <3>2
  <2> QED BY <2>1 DEF VerdictInv, On
<1>4. AcceptInv'
  <2>1. ASSUME NEW q \in Supervisors, sup'[q].at = "accept"
        PROVE  /\ verdict'[sup'[q].asg] # "none"
               /\ pend'[q].op \in Mutations =>
                    /\ pend'[q].op = "verify" /\ pend'[q].task = TheTask
                    /\ pend'[q].passed = (verdict'[sup'[q].asg] = "passed")
    <3>1. CASE q = p
      BY <2>1, <3>1
    <3>2. CASE q # p
      <4>1. sup'[q] = sup[q] /\ pend'[q] = pend[q] /\ sup[q].asg \in Assignments
        BY <1>1, <3>2 DEF On
      <4>2. verdict[sup[q].asg] # "none" /\ verdict'[sup[q].asg] = verdict[sup[q].asg]
        BY <2>1, <4>1 DEF ExitInv, AcceptInv, On
      <4>3. pend[q].op \in Mutations =>
              /\ pend[q].op = "verify" /\ pend[q].task = TheTask
              /\ pend[q].passed = (verdict[sup[q].asg] = "passed")
        BY <2>1, <4>1 DEF ExitInv, AcceptInv, On
      <4> QED BY <4>1, <4>2, <4>3
    <3> QED BY <3>1, <3>2
  <2>2. ASSUME NEW c \in commands', c[1] = "accept"
        PROVE  /\ verdict'[c[2]] # "none"
               /\ verdict'[c[2]] = "passed" => TheTaskIs({"done"})'
    <3>1. CASE c \in commands
      <4>1. /\ verdict[c[2]] # "none" /\ c[2] \in Assignments
            /\ verdict[c[2]] = "passed" => TheTaskIs({"done"})
        BY <1>1, <2>2, <3>1 DEF ExitInv, AcceptInv
      <4> QED BY <1>2, <4>1
    <3> QED BY <2>2, <3>1
  <2> QED BY <2>1, <2>2 DEF AcceptInv, On
<1>5. ExitIsTrue'
  <2> SUFFICES ASSUME NEW q \in Supervisors, sup'[q].at = "exited" PROVE TheTaskEnded'
    BY DEF ExitIsTrue, TheTaskEnded
  <2>1. sup[q].at = "exited" \/ TheTaskEnded \/ TheTaskEnded'
    BY DEF Supervisors
  <2>2. sup[q].at = "exited" => TheTaskEnded
    BY DEF ExitInv, ExitIsTrue, TheTaskEnded
  <2> QED BY <1>2, <2>1, <2>2
<1> QED
  BY <1>3, <1>4, <1>5 DEF ExitInv

\* A process that goes, with what it prepared gone or nothing prepared, and no verdict
\* or command made.
LEMMA GoExits ==
    ASSUME SupInv, ExitInv, RunsUnderEntry', EndedKept, NEW p \in Supervisors,
           NEW place \in Places, NEW a \in Assignments, Go(p, place, a),
           pend'[p].op = "idle", \A q \in Procs \ {p} : pend'[q] = pend[q],
           UNCHANGED <<verdict, commands, effect>>,
           place = "accept" => effect["verification"][a] = "succeeded",
           place = "exited" => TheTaskEnded
    PROVE  ExitInv'
<1>1. /\ sup' \in [Supervisors -> SupRecord] /\ sup'[p].at = place
      /\ \A q \in Supervisors \ {p} : sup'[q] = sup[q]
  BY GoMeans
<1>2. place = "accept" => sup'[p].asg = a
  BY DEF Go, Anywhere, Ended, SupInv, SupTypeOK
<1>3. \A b \in Assignments : verdict[b] # "none" <=> effect["verification"][b] = "succeeded"
  BY DEF ExitInv, VerdictInv
<1>4. sup'[p].asg \in Assignments /\ p \in Procs
  BY <1>1, SupTypes DEF SupRecord
<1> QED
  BY <1>1, <1>2, <1>3, <1>4, ExitHolds DEF Mutations, Supervisors

\* A step that only reads.
LEMMA TurnExits ==
    ASSUME SupInv, ExitInv, RunsUnderEntry', EndedKept, NEW p \in Supervisors,
           NEW place \in Places, NEW a \in Assignments, Turn(p, place, a), IsIdle(p),
           place = "accept" => effect["verification"][a] = "succeeded",
           place = "exited" => TheTaskEnded
    PROVE  ExitInv'
BY GoExits DEF Turn, vars, IsIdle

\* A command that is prepared where it is given.
LEMMA ReadExits ==
    ASSUME SupInv, ExitInv, RunsUnderEntry', EndedKept, NEW p \in Supervisors,
           OnTheWay, NothingStored, \A q \in Procs \ {p} : pend'[q] = pend[q],
           pend'[p].op \in {"reserve", "execute"} => pend'[p].asg = On(p),
           sup[p].at = "accept" /\ pend'[p].op \in Mutations =>
              /\ pend'[p].op = "verify" /\ pend'[p].task = TheTask
              /\ pend'[p].passed = (verdict[On(p)] = "passed")
    PROVE  ExitInv'
<1>1. UNCHANGED <<sup, verdict, commands, effect>>
  BY DEF OnTheWay, supVars, NothingStored
<1>2. \A b \in Assignments : verdict[b] # "none" <=> effect["verification"][b] = "succeeded"
  BY DEF ExitInv, VerdictInv
<1>3. On(p) \in Assignments /\ p \in Procs
  BY SupTypes
<1>4. sup[p].at = "accept" => verdict[On(p)] # "none"
  BY DEF ExitInv, AcceptInv
<1> QED
  BY <1>1, <1>2, <1>3, <1>4, ExitHolds DEF On, Supervisors

\* A committed acceptance of a verdict that passed has ended the Task.
LEMMA ReplayedExits ==
    ASSUME SupInv, ExitInv, NEW p \in Supervisors, IsReplayed(p), sup[p].at = "accept",
           verdict[On(p)] = "passed"
    PROVE  TheTaskEnded
<1> DEFINE c == <<sup[p].at, sup[p].asg, sup[p].rev>>
<1>1. Command(p) = c
  BY DEF Command
<1>2. c \in commands /\ c[1] = "accept" /\ c[2] = On(p)
  BY <1>1 DEF IsReplayed, On
<1> HIDE DEF c
<1>3. TheTaskIs({"done"})
  BY <1>2 DEF ExitInv, AcceptInv
<1> QED
  BY <1>3 DEF TheTaskEnded, TheTaskIs

\* Where a Supervisor goes after its command, if that was committed before.
LEMMA AfterExits ==
    ASSUME SupInv, ExitInv, NEW p \in Supervisors, sup[p].at \in Commanding,
           sup[p].at = "accept" => IsReplayed(p)
    PROVE  /\ After(p) \in Places /\ After(p) # "accept"
           /\ After(p) = "exited" => TheTaskEnded
<1>1. After(p) \in Places /\ After(p) # "accept"
  BY AfterPlaces, QuietPlaces
<1>2. CASE sup[p].at = "accept"
  BY <1>1, <1>2, ReplayedExits DEF After
<1>3. CASE sup[p].at # "accept"
  BY <1>1, <1>3 DEF After, Commanding, Expiring
<1> QED
  BY <1>2, <1>3

\* The steps of a round that choose, and read only.
LEMMA ChoiceExits ==
    ASSUME SupInv, ExitInv, RunsUnderEntry', EndedKept, NEW p \in Supervisors,
           \/ Observe(p) \/ Blocked(p) \/ RecoverExpired(p) \/ Refused(p) \/ Running(p)
           \/ ExecuteLane(p) \/ Settle(p) \/ Verifying(p)
    PROVE  ExitInv'
<1>1. /\ On(p) \in Assignments /\ 1 \in Assignments
      /\ \A a \in Live : a \in Assignments
      /\ latest # NoAssignment =>
           latest \in Assignments /\ 2 * latest \in Assignments /\ 2 * latest + 1 \in Assignments
      /\ sup[p].at = "recover" => latest # NoAssignment
  BY SupTypes, IdsAssumption DEF Live, Of, SupInv, SupTypeOK, RecoveryInv, Recovers
<1>2. IsIdle(p)
  BY DEF Observe, Blocked, RecoverExpired, Refused, Running, ExecuteLane, Settle, Verifying, At
<1>3. ASSUME NEW place \in (Places \ {"accept", "exited"}), NEW a \in Assignments,
             Turn(p, place, a)
      PROVE  ExitInv'
  BY <1>2, <1>3, TurnExits
<1>4. {"attention", "alarm", "asks", "observe", "blocked", "running", "lane", "settle",
       "verifying", "dispatch", "laneDispatch", "heartbeat", "begin", "recover", "expire",
       "beginVerification"} \subseteq Places \ {"accept", "exited"}
      /\ "accept" \in Places /\ "exited" \in Places
  BY DEF Places, Anywhere, Ended, Expiring
<1>5. CASE Observe(p)
  <2>1. CASE TheTaskIs({"done", "cancelled"}) /\ Turn(p, "exited", On(p))
    BY <1>1, <1>2, <1>4, <2>1, TurnExits DEF TheTaskEnded
  <2> QED BY <1>1, <1>3, <1>4, <1>5, <2>1 DEF Observe
<1>6. CASE Blocked(p)
  BY <1>1, <1>3, <1>4, <1>6 DEF Blocked
<1>7. CASE RecoverExpired(p)
  <2>1. sup[p].at = "recover" /\ (Turn(p, "dispatch", 2 * latest) \/ Turn(p, "attention", On(p)))
    BY <1>7 DEF RecoverExpired, At
  <2> QED BY <1>1, <1>3, <1>4, <2>1
<1>8. CASE Refused(p) \/ Settle(p)
  BY <1>1, <1>3, <1>4, <1>8 DEF Refused, Settle
<1>9. CASE Running(p)
  <2>1. \/ Turn(p, "alarm", On(p))
        \/ \E a \in Live : \/ Turn(p, "expire", a) \/ Turn(p, "attention", a)
                           \/ Turn(p, "lane", a) \/ Turn(p, "heartbeat", a)
                           \/ Turn(p, "observe", a)
    BY <1>9 DEF Running
  <2> QED BY <1>1, <1>3, <1>4, <2>1
<1>10. CASE ExecuteLane(p)
  <2>1. \/ \E a \in Live : Turn(p, "begin", a)
        \/ Turn(p, "settle", On(p)) \/ Turn(p, "attention", On(p))
        \/ latest # NoAssignment /\ Turn(p, "laneDispatch", 2 * latest + 1)
    BY <1>10 DEF ExecuteLane
  <2> QED BY <1>1, <1>3, <1>4, <2>1
<1>11. CASE Verifying(p)
  <2>1. \/ Turn(p, "alarm", On(p))
        \/ \E a \in Live : \/ Turn(p, "attention", a) \/ Turn(p, "beginVerification", a)
                           \/ /\ effect["verification"][a] = "succeeded"
                              /\ Turn(p, "accept", a)
    BY <1>11 DEF Verifying, Absorb
  <2>2. ASSUME NEW a \in Live, effect["verification"][a] = "succeeded", Turn(p, "accept", a)
        PROVE  ExitInv'
    BY <1>1, <1>2, <1>4, <2>2, TurnExits
  <2> QED BY <1>1, <1>3, <1>4, <2>1, <2>2
<1> QED
  BY <1>5, <1>6, <1>7, <1>8, <1>9, <1>10, <1>11

\* The steps that give a command.
LEMMA CommandExits ==
    ASSUME SupInv, ExitInv, RunsUnderEntry', EndedKept, NEW p \in Supervisors,
           \/ Dispatch(p, "dispatch") \/ Dispatch(p, "laneDispatch") \/ Heartbeat(p) \/ Expire(p)
           \/ Begin(p) \/ Report(p) \/ BeginVerification(p) \/ Accept(p)
    PROVE  ExitInv'
<1> DEFINE a == On(p)
<1>1. a \in Assignments /\ p \in Procs /\ IsIdle(p) /\ TypeOK
  BY SupTypes DEF Dispatch, Heartbeat, Expire, Begin, Report, BeginVerification, Accept, At,
                  SupInv, SupTypeOK
<1>2. ASSUME NEW place \in {"attention", "error", "observe", "refused", "settle", "begin",
                            "report", "expireLate", "giveUp"}, Turn(p, place, a)
      PROVE  ExitInv'
  <2>1. place \in Places /\ place # "accept" /\ place # "exited"
    BY <1>2 DEF Places, Anywhere, Ended, Expiring
  <2> QED BY <1>1, <1>2, <2>1, TurnExits
<1>3. ASSUME sup[p].at \in Commanding, sup[p].at = "accept" => IsReplayed(p), Turn(p, After(p), a)
      PROVE  ExitInv'
  BY <1>1, <1>3, AfterExits, TurnExits
<1>4. ASSUME NEW o \in Mutations, NEW t, NEW by, NEW passed, NEW r,
             Prepare(p, o, a, t, by, passed, r), OnTheWay, NothingStored, sup[p].at # "accept"
      PROVE  ExitInv'
  <2>1. pend'[p].op = o /\ \A q \in Procs \ {p} : pend'[q] = pend[q]
    BY <1>1, <1>4, PrepareMeans
  <2>2. pend'[p].op \notin {"reserve", "execute"}
    BY <2>1 DEF Mutations
  <2> QED BY <1>4, <2>1, <2>2, ReadExits
<1>5. ASSUME NEW k, EffectCheck(p, k, a), OnTheWay PROVE ExitInv'
  <2>1. /\ pend'[p].op = "reserve" /\ pend'[p].asg = a
        /\ \A q \in Procs \ {p} : pend'[q] = pend[q]
    BY <1>1, <1>5 DEF EffectCheck, Await, Waiting, TypeOK
  <2>2. NothingStored
    BY <1>5 DEF EffectCheck
  <2> QED BY <1>5, <2>1, <2>2, ReadExits DEF Mutations
<1>6. ASSUME effect["verification"][a] = "succeeded", Turn(p, "accept", a) PROVE ExitInv'
  <2>1. "accept" \in Places
    BY DEF Places
  <2> QED BY <1>1, <1>6, <2>1, TurnExits
<1>7. CASE Dispatch(p, "dispatch") \/ Dispatch(p, "laneDispatch")
  <2>1. sup[p].at \in Commanding /\ sup[p].at # "accept"
    BY <1>7 DEF Dispatch, At, Commanding
  <2>2. CASE DispatchRead(p, a, TheTask, TheAgent) /\ OnTheWay
    BY <1>4, <2>1, <2>2 DEF DispatchRead, Mutations
  <2> QED BY <1>2, <1>3, <1>7, <2>1, <2>2 DEF Dispatch
<1>8. CASE Heartbeat(p)
  <2>1. sup[p].at # "accept"
    BY <1>8 DEF Heartbeat, At
  <2>2. CASE HeartbeatRead(p, a) /\ OnTheWay
    BY <1>4, <2>1, <2>2 DEF HeartbeatRead, Mutations
  <2> QED BY <1>2, <1>8, <2>2 DEF Heartbeat
<1>9. CASE Expire(p)
  <2>1. sup[p].at \in Commanding /\ sup[p].at # "accept"
    BY <1>9 DEF Expire, Commanding, Expiring
  <2>2. CASE ExpireRead(p, a) /\ OnTheWay
    BY <1>4, <2>1, <2>2 DEF ExpireRead, Mutations
  <2> QED BY <1>3, <1>9, <2>1, <2>2 DEF Expire
<1>10. CASE Begin(p)
  BY <1>2, <1>5, <1>10 DEF Begin
<1>11. CASE Report(p)
  <2>1. sup[p].at # "accept"
    BY <1>11 DEF Report, At
  <2>2. ASSUME NEW o \in {"callback", "failure"}, ReportRead(p, o, a), OnTheWay PROVE ExitInv'
    <3>1. Prepare(p, o, a, asg[a].task, asg[a].agent, FALSE, RunFound(asg[a].task, a))
          /\ NothingStored
      BY <2>2 DEF ReportRead
    <3>2. o \in Mutations
      BY <2>2 DEF Mutations
    <3> QED BY <1>4, <2>1, <2>2, <3>1, <3>2
  <2> QED BY <1>2, <1>11, <2>2 DEF Report
<1>12. CASE BeginVerification(p)
  BY <1>2, <1>5, <1>6, <1>12 DEF BeginVerification, Absorb
<1>13. CASE Accept(p)
  <2>1. sup[p].at = "accept" /\ sup[p].at \in Commanding
    BY <1>13 DEF Accept, At, Commanding
  <2>2. CASE VerifyRead(p, TheTask, a, TheVerifier, verdict[a] = "passed") /\ OnTheWay
    <3>1. Prepare(p, "verify", a, TheTask, TheVerifier, verdict[a] = "passed",
                  RunFound(TheTask, a)) /\ NothingStored
      BY <2>2 DEF VerifyRead
    <3>2. /\ pend'[p].op = "verify" /\ pend'[p].task = TheTask
          /\ \A q \in Procs \ {p} : pend'[q] = pend[q]
      BY <1>1, <3>1, PrepareMeans
    <3>3. pend'[p].passed = (verdict[a] = "passed")
      BY <1>1, <3>1 DEF Prepare, TypeOK
    <3> QED BY <2>2, <3>1, <3>2, <3>3, ReadExits
  <2>3. CASE Turn(p, Lost(p), a)
    <3>1. Lost(p) \in Places /\ Lost(p) # "accept" /\ (Lost(p) = "exited" => TheTaskEnded)
      BY DEF Lost, Places, Anywhere, Ended, TheTaskEnded, TheTaskIs
    <3> QED BY <1>1, <2>3, <3>1, TurnExits
  <2> QED BY <1>3, <1>13, <2>1, <2>2, <2>3 DEF Accept
<1> QED
  BY <1>7, <1>8, <1>9, <1>10, <1>11, <1>12, <1>13

\* The external effects, lost races and kills.
LEMMA EffectExits ==
    ASSUME SupInv, ExitInv, RunsUnderEntry', EndedKept, NEW p \in Supervisors,
           Reserve(p) \/ Complete(p) \/ Throw(p) \/ Loses(p) \/ Killed(p)
    PROVE  ExitInv'
<1> DEFINE a == On(p)
<1>1. a \in Assignments /\ p \in Procs /\ TypeOK /\ 1 \in Assignments
  BY SupTypes, IdsAssumption DEF SupInv, SupTypeOK
<1>2. /\ pend[p].kind \in EffectKinds /\ pend[p].asg \in Assignments
      /\ effect \in [EffectKinds ->
                       [Assignments -> {"none", "pending", "succeeded", "failed"}]]
      /\ verdict \in [Assignments -> {"none", "passed", "failed"}]
      /\ \A b \in Assignments : verdict[b] # "none" <=> effect["verification"][b] = "succeeded"
      /\ pend[p].op \in {"reserve", "execute"} => pend[p].asg = a
  BY <1>1, PendingTypes DEF TypeOK, SupInv, SupTypeOK, ExitInv, VerdictInv
<1>3. {"attention", "killed", "report", "accept"} \subseteq Places /\ "attention" # "accept"
  BY DEF Places, Anywhere, Ended
<1>4. CASE Reserve(p)
  <2>1. pend[p].op = "reserve" /\ UNCHANGED <<verdict, commands>>
    BY <1>4 DEF Reserve, EffectReserve, OnTheWay, supVars
  <2>2. CASE effect[pend[p].kind][a] = "none"
    <3>1. /\ effect' = [effect EXCEPT ![pend[p].kind][a] = "pending"] /\ UNCHANGED sup
          /\ Await(p, "execute", pend[p].kind, a)
      BY <1>2, <1>4, <2>1, <2>2 DEF Reserve, EffectReserve, OnTheWay, supVars
    <3>2. /\ pend'[p].op = "execute" /\ pend'[p].asg = a
          /\ \A q \in Procs \ {p} : pend'[q] = pend[q]
      BY <1>1, <3>1 DEF Await, Waiting, TypeOK
    <3>3. \A b \in Assignments :
             effect'["verification"][b] = "succeeded" <=> effect["verification"][b] = "succeeded"
      BY <1>2, <2>2, <3>1 DEF EffectKinds
    <3>4. sup'[p].asg = a /\ sup'[p].at = sup[p].at /\ (sup[p].at = "accept" => verdict[a] # "none")
      BY <3>1 DEF On, ExitInv, AcceptInv
    <3> QED BY <1>1, <1>2, <2>1, <3>1, <3>2, <3>3, <3>4, ExitHolds DEF Mutations, Supervisors
  <2>3. CASE effect[pend[p].kind][a] # "none"
    <3>1. /\ Stop(p) /\ UNCHANGED effect
          /\ \/ Go(p, "accept", a) /\ effect["verification"][a] = "succeeded"
             \/ Go(p, "attention", a)
      BY <1>2, <1>4, <2>1, <2>3 DEF Reserve, EffectReserve
    <3>2. pend'[p].op = "idle" /\ \A q \in Procs \ {p} : pend'[q] = pend[q]
      BY <1>1, <3>1, StopMeans
    <3> QED BY <1>1, <1>3, <2>1, <3>1, <3>2, GoExits
  <2> QED BY <2>2, <2>3
<1>5. CASE Complete(p)
  <2>1. /\ pend[p].op = "execute" /\ pend[p].asg = a /\ Stop(p) /\ UNCHANGED commands
        /\ effect[pend[p].kind][a] = "pending"
    BY <1>1, <1>2, <1>5 DEF Complete, EffectDone, ExitInv, RunsUnderEntry
  <2>2. effect' = [effect EXCEPT ![pend[p].kind][a] = "succeeded"]
    BY <1>2, <1>5, <2>1 DEF Complete, EffectDone
  <2>3. pend'[p].op = "idle" /\ \A q \in Procs \ {p} : pend'[q] = pend[q]
    BY <1>1, <2>1, StopMeans
  <2>4. CASE pend[p].kind = "provider"
    <3>1. Go(p, "report", a) /\ UNCHANGED verdict
      BY <1>5, <2>4 DEF Complete
    <3>2. effect'["verification"] = effect["verification"]
      BY <1>2, <2>2, <2>4 DEF EffectKinds
    <3>3. /\ sup' \in [Supervisors -> SupRecord] /\ sup'[p].at = "report"
          /\ \A q \in Supervisors \ {p} : sup'[q] = sup[q]
      BY <1>1, <1>3, <3>1, GoMeans
    <3>4. sup'[p].asg \in Assignments
      BY <3>3 DEF SupRecord
    <3> QED BY <1>1, <1>2, <2>1, <2>3, <3>1, <3>2, <3>3, <3>4, ExitHolds DEF Supervisors
  <2>5. CASE pend[p].kind = "verification"
    <3>1. PICK v \in {"passed", "failed"} :
             Go(p, "accept", a) /\ verdict' = [verdict EXCEPT ![a] = v]
      BY <1>5, <2>5 DEF Complete
    <3>2. effect["verification"][a] = "pending" /\ verdict[a] = "none"
      BY <1>1, <1>2, <2>1, <2>5
    <3>3. \A b \in Assignments :
            /\ verdict'[b] # "none" <=> effect'["verification"][b] = "succeeded"
            /\ verdict[b] # "none" => verdict'[b] = verdict[b]
      BY <1>1, <1>2, <2>2, <2>5, <3>1, <3>2 DEF EffectKinds
    <3>4. /\ sup' \in [Supervisors -> SupRecord] /\ sup'[p].at = "accept"
          /\ \A q \in Supervisors \ {p} : sup'[q] = sup[q]
      BY <1>1, <1>3, <3>1, GoMeans
    <3>5. sup'[p].asg = a /\ verdict'[a] # "none"
      BY <1>1, <1>2, <3>1 DEF Go, Anywhere, Ended, SupInv, SupTypeOK
    <3> QED BY <1>1, <2>1, <2>3, <3>3, <3>4, <3>5, ExitHolds DEF Supervisors, Mutations
  <2> QED BY <1>2, <2>4, <2>5 DEF EffectKinds
<1>6. CASE Throw(p) \/ Killed(p)
  <2>1. /\ Stop(p) /\ UNCHANGED <<effect, verdict, commands>>
        /\ Go(p, "attention", a) \/ Go(p, "killed", 1)
    BY <1>6 DEF Throw, Killed, NothingStored
  <2>2. pend'[p].op = "idle" /\ \A q \in Procs \ {p} : pend'[q] = pend[q]
    BY <1>1, <2>1, StopMeans
  <2> QED BY <1>1, <1>3, <2>1, <2>2, GoExits
<1>7. CASE Loses(p)
  <2>1. /\ Stop(p) /\ UNCHANGED <<effect, verdict, commands>> /\ pend[p].op \in Mutations
        /\ Go(p, IF IsReplayed(p) THEN After(p) ELSE Lost(p), a)
    BY <1>7 DEF Loses, Conflict, NothingStored
  <2>2. pend'[p].op = "idle" /\ \A q \in Procs \ {p} : pend'[q] = pend[q]
    BY <1>1, <2>1, StopMeans
  <2>3. sup[p].at \in Commanding
    BY <2>1 DEF SupInv, PlaceInv
  <2>4. CASE IsReplayed(p)
    <3>1. /\ After(p) \in Places /\ After(p) # "accept"
          /\ After(p) = "exited" => TheTaskEnded
      BY <2>3, <2>4, AfterExits
    <3> QED BY <1>1, <2>1, <2>2, <2>4, <3>1, GoExits
  <2>5. CASE ~IsReplayed(p)
    <3>1. Lost(p) \in Places /\ Lost(p) # "accept" /\ (Lost(p) = "exited" => TheTaskEnded)
      BY DEF Lost, Places, Anywhere, Ended, TheTaskEnded, TheTaskIs
    <3> QED BY <1>1, <2>1, <2>2, <2>5, <3>1, GoExits
  <2> QED BY <2>4, <2>5
<1> QED
  BY <1>4, <1>5, <1>6, <1>7

\* The commits of Supervisors: the one that accepts commits the verdict it has.
LEMMA CommitExits ==
    ASSUME SupInv, ExitInv, RunsUnderEntry', EndedKept, NEW p \in Supervisors, Commit(p)
    PROVE  ExitInv'
<1> DEFINE a == On(p)
<1>1. /\ a \in Assignments /\ p \in Procs /\ TypeOK /\ TheTask \in Tasks
      /\ Stop(p) /\ pend[p].op \in Mutations /\ UNCHANGED <<verdict, effect>>
  BY SupTypes
     DEF SupInv, SupTypeOK, Commit, DispatchCommit, CallbackCommit, FailureCommit, VerifyCommit,
         HeartbeatCommit, ExpireCommit, Commits, Mutations
<1>2. pend'[p].op = "idle" /\ \A q \in Procs \ {p} : pend'[q] = pend[q]
  BY <1>1, StopMeans
<1>3. sup[p].at \in Commanding
  BY <1>1 DEF SupInv, PlaceInv
<1>4. After(p) \in Places /\ After(p) # "accept"
  BY <1>3, AfterPlaces, QuietPlaces
<1>5. /\ sup' \in [Supervisors -> SupRecord] /\ sup'[p].at = After(p)
      /\ \A q \in Supervisors \ {p} : sup'[q] = sup[q]
  BY <1>1, <1>4, GoMeans DEF Commit
<1>6. ASSUME sup[p].at = "accept"
      PROVE  verdict[a] # "none" /\ (verdict[a] = "passed" => TheTaskIs({"done"})')
  <2>1. /\ verdict[a] # "none" /\ pend[p].op = "verify" /\ pend[p].task = TheTask
        /\ pend[p].passed = (verdict[a] = "passed")
    BY <1>1, <1>6 DEF ExitInv, AcceptInv
  <2>2. VerifyCommit(p)
    BY <2>1 DEF Commit, DispatchCommit, CallbackCommit, FailureCommit, HeartbeatCommit,
                ExpireCommit, Commits
  <2>3. verdict[a] = "passed" => task'[TheTask].phase = "done"
    <3>1. ASSUME pend[p].passed, PutTask(p, "done", "VerificationPassed")
          PROVE  task'[TheTask].phase = "done"
      BY <1>1, <2>1, <3>1 DEF PutTask, RevisedTask, TypeOK
    <3> QED BY <2>1, <2>2, <3>1 DEF VerifyCommit
  <2> QED BY <2>1, <2>3 DEF TheTaskIs
<1>7. After(p) = "exited" => TheTaskEnded'
  <2>1. After(p) = "exited" => sup[p].at = "accept" /\ verdict[a] = "passed"
    BY <1>3 DEF After, Commanding, Expiring
  <2> QED BY <1>6, <2>1 DEF TheTaskEnded, TheTaskIs
<1>8. ASSUME NEW c \in commands', c \notin commands, c[1] = "accept"
      PROVE  verdict'[c[2]] # "none" /\ (verdict'[c[2]] = "passed" => TheTaskIs({"done"})')
  <2>1. c = Command(p)
    BY <1>8 DEF Commit
  <2>2. sup[p].at = "accept" /\ c[2] = a
    BY <1>8, <2>1 DEF Command, On
  <2> QED BY <1>1, <1>6, <2>2
<1>9. \A b \in Assignments : verdict[b] # "none" <=> effect["verification"][b] = "succeeded"
  BY DEF ExitInv, VerdictInv
<1>10. sup'[p].asg \in Assignments
  BY <1>5 DEF SupRecord
<1>11. pend'[p].op \notin {"reserve", "execute"} /\ sup'[p].at # "accept"
  BY <1>2, <1>4, <1>5
<1>12. \A q \in Supervisors \ {p} : sup'[q] = sup[q] /\ pend'[q] = pend[q]
  BY <1>2, <1>5 DEF Supervisors
<1> QED
  BY <1>1, <1>5, <1>7, <1>8, <1>9, <1>10, <1>11, <1>12, ExitHolds

\* The operator and the clock make no verdict.
LEMMA EnvironmentExits ==
    ASSUME SupInv, ExitInv, RunsUnderEntry', EndedKept, OperatorStep \/ Tick
    PROVE  ExitInv'
<1>1. Operator \in Procs /\ Operator \notin Supervisors /\ TypeOK
  BY ConfigAssumption DEF Supervisors, SupInv, SupTypeOK
<1>2. UNCHANGED <<sup, verdict, commands>>
  BY DEF OperatorStep, Tick, OnTheWay, supVars
<1>3. \A b \in Assignments : verdict[b] # "none" <=> effect["verification"][b] = "succeeded"
  BY DEF ExitInv, VerdictInv
<1>4. ASSUME \A q \in Procs \ {Operator} : pend'[q] = pend[q],
             \A b \in Assignments :
               effect'["verification"][b] = "succeeded" <=> effect["verification"][b] = "succeeded"
      PROVE  ExitInv'
  BY <1>1, <1>2, <1>3, <1>4, ExitHolds DEF Supervisors
<1>5. ASSUME NEW a \in Assignments, CancelRead(Operator, a) PROVE ExitInv'
  BY <1>1, <1>4, <1>5, PrepareMeans DEF CancelRead, NothingStored
<1>6. CASE CancelCommit(Operator)
  BY <1>1, <1>4, <1>6, StopMeans DEF CancelCommit, Commits
<1>7. CASE Conflict(Operator)
  BY <1>1, <1>4, <1>7, StopMeans DEF Conflict, NothingStored
<1>8. ASSUME NEW k \in EffectKinds, NEW a \in Assignments, EffectReconcile(k, a) PROVE ExitInv'
  <2>1. \A b \in Assignments :
          effect'["verification"][b] = "succeeded" <=> effect["verification"][b] = "succeeded"
    BY <1>1, <1>8 DEF EffectReconcile, TypeOK, EffectKinds
  <2> QED BY <1>4, <1>8, <2>1 DEF EffectReconcile
<1>9. ASSUME Tick PROVE ExitInv'
  BY <1>4, <1>9 DEF Tick, Elapse
<1> QED
  BY <1>5, <1>6, <1>7, <1>8, <1>9 DEF OperatorStep

\* ExitInv is preserved by every step.
LEMMA ExitInvStep ==
    ASSUME SupInv, ExitInv, [SupNext]_allVars
    PROVE  ExitInv'
<1>1. RunsUnderEntry' /\ EndedKept
  BY SupNextIsNext, FenceStep, EndedStep DEF SupInv, SupTypeOK, ExitInv
<1>2. ASSUME UNCHANGED allVars PROVE ExitInv'
  <2>1. UNCHANGED <<pend, effect, task, verdict, commands, sup>>
    BY <1>2 DEF allVars, vars, supVars
  <2>2. Operator \in Procs /\ Operator \notin Supervisors
    BY ConfigAssumption DEF Supervisors
  <2>3. \A b \in Assignments : verdict[b] # "none" <=> effect["verification"][b] = "succeeded"
    BY DEF ExitInv, VerdictInv
  <2> QED BY <1>1, <2>1, <2>2, <2>3, ExitHolds
<1>3. ASSUME NEW p \in Supervisors, SupStep(p) PROVE ExitInv'
  BY <1>1, <1>3, ChoiceExits, CommandExits, EffectExits, CommitExits DEF SupStep
<1>4. ASSUME NEW p \in Supervisors, Killed(p) PROVE ExitInv'
  BY <1>1, <1>4, EffectExits
<1>5. ASSUME OperatorStep \/ Tick PROVE ExitInv'
  BY <1>1, <1>5, EnvironmentExits
<1> QED
  BY <1>2, <1>3, <1>4, <1>5 DEF SupNext

\* However many Supervisors watch, whoever wins each race and whatever is replayed, a
\* watch loop that ends with exit 0 leaves its Task done or cancelled.
THEOREM ExitWasTrue ==
    ASSUME MixedVerify = FALSE
    PROVE  SupSpec => []ExitIsTrue
<1>1. SupInit => ExitInv
  <2> SUFFICES ASSUME SupInit
               PROVE  ExitInv
    OBVIOUS
  <2>1. Idle.op = "idle"
    BY DEF Idle, Waiting
  <2>2. \A p \in Procs : pend[p].op = "idle"
    BY <2>1 DEF SupInit, Init
  <2>3. \A p \in Supervisors : sup[p].at = "observe" /\ pend[p].op = "idle"
    BY <2>2 DEF SupInit, Supervisors
  <2>4. \A a \in Assignments : verdict[a] = "none" /\ effect["verification"][a] = "none"
    BY DEF SupInit, Init, EffectKinds
  <2>5. commands = {}
    BY DEF SupInit
  <2> QED BY <2>2, <2>3, <2>4, <2>5
             DEF ExitInv, RunsUnderEntry, VerdictInv, AcceptInv, ExitIsTrue
<1>2. SupInv /\ ExitInv /\ [SupNext]_allVars => ExitInv'
  BY ExitInvStep
<1>3. ExitInv => ExitIsTrue
  BY DEF ExitInv
<1> QED
  BY <1>1, <1>2, <1>3, SupHoldsAlways, PTL DEF SupSpec
----------------------------------------------------------------------------
(* No Task is left behind (NotAbandoned).                                   *)

\* Exactly the running Assignments have a Lease that is live.
LEMMA RunningMeans ==
    ASSUME LaneInv, NEW a \in Assignments
    PROVE  /\ LeaseIsLive(a) <=> asg[a].state = "running"
           /\ asg[a].state = "running" /\ ~elapsed[a] => ExecutionIsLive(a)
<1>1. /\ asg[a].state \in {"none", "running", "submitted"} \cup TerminalAssignment
      /\ AsgAgrees(a)
      /\ asg[a].state = "none" => lease[a] = None
  BY DEF LaneInv, ReadInv, TypeOK, Assignment, LiveAssignment, PhaseAgreement, Fresh
<1>2. LeaseIsLive(a) <=> asg[a].state = "running"
  BY <1>1 DEF AsgAgrees, LeaseIsLive, LiveLease, None
<1> QED
  BY <1>1, <1>2 DEF ExecutionIsLive, AsgAgrees

\* What the Task is when nothing holds it up.
LEMMA QuietMeans ==
    ASSUME SupInv, WatchInv, ~Attended, ~TheTaskIs({"backlog"})
    PROVE  /\ TheTaskIs({"inProgress"})
           /\ \E a \in Assignments :
                /\ Live = {a} /\ asg[a].state = "running" /\ ~elapsed[a]
                /\ effect["provider"][a] = "none"
                /\ ExecutionIsLive(a)
<1>1. /\ TheTask \in Tasks /\ LaneInv /\ TypeOK
      /\ task[TheTask].phase \in {"inProgress", "verifying"}
  BY ConfigAssumption DEF SupInv, SupTypeOK, TypeOK, Task, Attended, TheTaskIs
<1>2. /\ task[TheTask].phase = "inProgress" => \E a \in Of(TheTask) : asg[a].state = "running"
      /\ task[TheTask].phase = "verifying" => \E a \in Of(TheTask) : asg[a].state = "submitted"
  BY <1>1 DEF LaneInv, PhaseAgreement, TaskAgrees
<1>3. \A a \in Live : ~elapsed[a] /\ \A k \in EffectKinds : effect[k][a] = "none"
  BY DEF Attended
<1>4. \A a \in Of(TheTask) :
         /\ asg[a].state \in {"running", "submitted"} => a \in Live
         /\ asg[a].state = "submitted" => effect["provider"][a] # "none"
  BY DEF Live, IsLive, LiveAssignment, WatchInv, ProviderInv, Of
<1>5. "provider" \in EffectKinds
  BY DEF EffectKinds
<1>6. task[TheTask].phase = "inProgress"
  BY <1>1, <1>2, <1>3, <1>4, <1>5
<1>7. PICK a \in Of(TheTask) : asg[a].state = "running"
  BY <1>2, <1>6
<1>8. a \in Live /\ a \in Assignments
  BY <1>4, <1>7 DEF Of
<1>9. \A b \in Live : b = a
  BY <1>1, <1>8 DEF LaneInv, OneLiveLane, Live, Of
<1> QED
  BY <1>1, <1>3, <1>5, <1>6, <1>7, <1>8, <1>9, RunningMeans DEF TheTaskIs

\* A step that commits nothing: it is enough to look at the process that makes it.
LEMMA WatchHolds ==
    ASSUME SupInv, WatchInv, NEW p \in Procs, UNCHANGED <<records, commands>>,
           \A a \in Assignments : elapsed[a] => elapsed'[a],
           \A k \in EffectKinds, a \in Assignments : effect[k][a] # "none" => effect'[k][a] # "none",
           \A q \in Supervisors \ {p} : sup'[q] = sup[q],
           \A q \in Procs \ {p} : pend'[q] = pend[q],
           pend'[p].op \in Mutations => pend'[p].task = TheTask,
           p = Operator => pend'[p].op \in {"idle", "cancel"},
           TheTaskIs({"backlog"}) => Undisputed(p)',
           p \in Supervisors =>
              /\ Given(p)' /\ Beating(p)' /\ Started(p)'
              /\ TheTaskIs({"backlog"}) => Opening(p)'
              /\ Cares(p) => Attended \/ TheTaskIs({"backlog"}) \/ Attended' \/ Cares(p)'
    PROVE  WatchInv'
<1>1. /\ UNCHANGED <<task, asg, lease, sess, run>>
      /\ TheTaskIs({"backlog"})' <=> TheTaskIs({"backlog"})
      /\ Live' = Live /\ Live \subseteq Assignments
  BY DEF records, TheTaskIs, Live, Of, IsLive
<1>2. ASSUME NEW q \in Supervisors, q # p
      PROVE  /\ Given(q)' /\ Beating(q)' /\ Started(q)'
             /\ Opening(q) => Opening(q)'
             /\ Cares(q) => Cares(q)'
  <2>1. /\ sup'[q] = sup[q] /\ pend'[q] = pend[q] /\ q \in Procs /\ On(q) \in Assignments
        /\ On(q)' = On(q) /\ TypeOK
    BY <1>2, SupTypes DEF Supervisors, On, SupInv, SupTypeOK
  <2>2. Given(q) /\ Beating(q) /\ Started(q)
    BY DEF WatchInv, GivenInv, HeartbeatInv, ProviderInv
  <2>3. Given(q)'
    BY <2>1, <2>2 DEF Given
  <2>4. Beating(q)'
    BY <1>1, <2>1, <2>2 DEF Beating
  <2>5. pend[q].kind \in EffectKinds /\ pend[q].asg \in Assignments /\ "provider" \in EffectKinds
    BY <2>1, PendingTypes DEF EffectKinds
  <2>6. Started(q)'
    BY <2>1, <2>2, <2>5 DEF Started
  <2>7. (Opening(q) => Opening(q)') /\ (Cares(q) => Cares(q)')
    BY <1>1, <2>1 DEF Opening, Cares
  <2> QED BY <2>3, <2>4, <2>6, <2>7
<1>3. GivenInv'
  <2>1. \A a \in Assignments : asg'[a].state # "none" => asg'[a].task = TheTask
    BY <1>1 DEF WatchInv, GivenInv
  <2>2. \A q \in Procs : pend'[q].op \in Mutations => pend'[q].task = TheTask
    BY DEF WatchInv, GivenInv
  <2>3. pend'[Operator].op \in {"idle", "cancel"}
    BY ConfigAssumption DEF WatchInv, GivenInv
  <2>4. \A q \in Supervisors : Given(q)'
    BY <1>2
  <2> QED BY <2>1, <2>2, <2>3, <2>4 DEF GivenInv
<1>4. HeartbeatInv'
  <2>1. \A a \in Assignments : LeaseIsLive(a)' =>
         /\ lease'[a].rev >= 1 /\ sess'[a].rev = lease'[a].rev
         /\ \A i \in 1 .. (lease'[a].rev - 1) : <<"heartbeat", a, i>> \in commands'
    BY <1>1 DEF WatchInv, HeartbeatInv, LeaseIsLive
  <2>2. \A q \in Supervisors : Beating(q)'
    BY <1>2
  <2> QED BY <2>1, <2>2 DEF HeartbeatInv
<1>5. ProviderInv'
  <2>1. \A a \in Assignments : asg'[a].state = "submitted" => effect'["provider"][a] # "none"
    BY <1>1 DEF WatchInv, ProviderInv, EffectKinds
  <2>2. \A q \in Supervisors : Started(q)'
    BY <1>2
  <2> QED BY <2>1, <2>2 DEF ProviderInv
<1>6. BacklogInv'
  <2> SUFFICES ASSUME TheTaskIs({"backlog"})
               PROVE  /\ \A a \in Assignments : asg'[a].state = "none"
                      /\ \A q \in Procs : Undisputed(q)'
                      /\ \A q \in Supervisors : Opening(q)'
    BY <1>1 DEF BacklogInv
  <2>1. /\ \A a \in Assignments : asg[a].state = "none"
        /\ \A q \in Procs : Undisputed(q)
        /\ \A q \in Supervisors : Opening(q)
    BY DEF WatchInv, BacklogInv
  <2>2. ASSUME NEW q \in Procs, q # p PROVE Undisputed(q)'
    <3>1. pend'[q] = pend[q] /\ Undisputed(q)
      BY <2>1, <2>2
    <3>2. CasHolds(pend[q]) => CasHolds(pend[q])'
      BY <1>1, <3>1 DEF CasHolds, WritesTask, WritesAsg, WritesLease, WritesSess, WritesRun
    <3> QED BY <3>1, <3>2 DEF Undisputed
  <2> QED BY <1>1, <1>2, <2>1, <2>2
<1>7. CareInv'
  <2>1. Attended => Attended'
    BY <1>1 DEF Attended, TheTaskIs
  <2>2. ASSUME ~Attended, ~TheTaskIs({"backlog"})
        PROVE  Attended' \/ \E q \in Supervisors : Cares(q)'
    <3>1. PICK q \in Supervisors : Cares(q)
      BY <2>2 DEF WatchInv, CareInv
    <3>2. CASE q = p
      BY <2>2, <3>1, <3>2
    <3>3. CASE q # p
      BY <1>2, <3>1, <3>3
    <3> QED BY <3>2, <3>3
  <2> QED BY <1>1, <2>1, <2>2 DEF CareInv
<1> QED
  BY <1>3, <1>4, <1>5, <1>6, <1>7 DEF WatchInv

\* Where a Supervisor goes, and with what.
LEMMA GoHas ==
    ASSUME SupInv, NEW p \in Supervisors, NEW place \in Places, NEW a \in Assignments,
           Go(p, place, a)
    PROVE  /\ sup'[p].at = place
           /\ place \notin Anywhere => On(p)' = a
           /\ place = "heartbeat" => sup'[p].rev = lease[a].rev
           /\ \A q \in Supervisors \ {p} : sup'[q] = sup[q]
<1> DEFINE r == [at |-> place, asg |-> IF place \in Anywhere THEN 1 ELSE a,
                 rev |-> IF place \in Expiring \cup {"heartbeat"} THEN lease[a].rev ELSE 0]
<1>1. sup' = [sup EXCEPT ![p] = r] /\ sup \in [Supervisors -> SupRecord]
  BY DEF Go, SupInv, SupTypeOK, SupRecord
<1>2. /\ r.at = place /\ (place \notin Anywhere => r.asg = a)
      /\ place = "heartbeat" => r.rev = lease[a].rev
  OBVIOUS
<1> HIDE DEF r
<1> QED
  BY <1>1, <1>2 DEF On

\* A Supervisor that stops or has stopped, goes where there is a reason to, and has
\* committed nothing.
LEMMA GoWatches ==
    ASSUME SupInv, WatchInv, NEW p \in Supervisors, NEW place \in Places, NEW a \in Assignments,
           Go(p, place, a), UNCHANGED <<records, elapsed, commands>>,
           \A k \in EffectKinds, b \in Assignments : effect[k][b] # "none" => effect'[k][b] # "none",
           pend'[p].op = "idle", \A q \in Procs \ {p} : pend'[q] = pend[q],
           place = "heartbeat" => asg[a].state = "running",
           place = "report" => effect'["provider"][a] # "none",
           TheTaskIs({"backlog"}) =>
              place \in {"observe", "asks", "killed"} \/ (place = "dispatch" /\ a = 1),
           Cares(p) =>
              \/ Attended \/ TheTaskIs({"backlog"})
              \/ place \in {"observe", "running", "lane", "asks", "killed"}
              \/ place \in {"begin", "heartbeat"} /\ a \in Live
    PROVE  WatchInv'
<1>1. /\ sup'[p].at = place /\ (place \notin Anywhere => On(p)' = a)
      /\ place = "heartbeat" => sup'[p].rev = lease[a].rev
      /\ \A q \in Supervisors \ {p} : sup'[q] = sup[q]
  BY GoHas
<1>2. {"heartbeat", "report", "begin", "dispatch"} \cap Anywhere = {}
  BY DEF Anywhere, Ended
<1>3. /\ p \in Procs /\ p # Operator /\ UNCHANGED <<task, asg, lease, sess, run>>
      /\ Live' = Live
  BY SupTypes DEF Supervisors, records, Live, Of, IsLive
<1>4. Given(p)' /\ Undisputed(p)'
  BY DEF Given, Undisputed
<1>5. Beating(p)'
  <2> SUFFICES ASSUME place = "heartbeat"
               PROVE  sup'[p].rev \in 1 .. lease'[On(p)'].rev
    BY <1>1 DEF Beating
  <2>1. asg[a].state = "running" /\ LeaseIsLive(a) /\ lease[a].rev \in Nat
    BY RunningMeans, RevisionTypes DEF SupInv, SupTypeOK
  <2>2. lease[a].rev >= 1
    BY <2>1 DEF WatchInv, HeartbeatInv
  <2> QED BY <1>1, <1>2, <1>3, <2>1, <2>2
<1>6. Started(p)'
  BY <1>1, <1>2 DEF Started
<1>7. TheTaskIs({"backlog"}) => Opening(p)'
  BY <1>1, <1>2 DEF Opening
<1>8. Cares(p) => Attended \/ TheTaskIs({"backlog"}) \/ Cares(p)'
  BY <1>1, <1>2, <1>3 DEF Cares
<1> QED
  BY <1>1, <1>3, <1>4, <1>5, <1>6, <1>7, <1>8, WatchHolds DEF Mutations

\* A step that only reads.
LEMMA TurnWatches ==
    ASSUME SupInv, WatchInv, NEW p \in Supervisors, NEW place \in Places, NEW a \in Assignments,
           Turn(p, place, a), IsIdle(p),
           place = "heartbeat" => asg[a].state = "running",
           place = "report" => effect["provider"][a] # "none",
           TheTaskIs({"backlog"}) => place \in {"observe", "asks"} \/ (place = "dispatch" /\ a = 1),
           Cares(p) =>
              \/ Attended \/ TheTaskIs({"backlog"})
              \/ place \in {"observe", "running", "lane", "asks"}
              \/ place \in {"begin", "heartbeat"} /\ a \in Live
    PROVE  WatchInv'
<1>1. Go(p, place, a) /\ UNCHANGED <<records, elapsed, commands, effect, pend>>
  BY DEF Turn, vars, records
<1> QED
  BY <1>1, GoWatches DEF IsIdle

\* The steps of a round that choose, and read only.
LEMMA ChoiceWatches ==
    ASSUME SupInv, WatchInv, NEW p \in Supervisors,
           \/ Observe(p) \/ Blocked(p) \/ RecoverExpired(p) \/ Refused(p) \/ Running(p)
           \/ ExecuteLane(p) \/ Settle(p) \/ Verifying(p)
    PROVE  WatchInv'
<1> DEFINE Held == Attended \/ TheTaskIs({"backlog"})
<1>1. /\ On(p) \in Assignments /\ 1 \in Assignments
      /\ \A a \in Live : a \in Assignments
      /\ latest # NoAssignment =>
           latest \in Assignments /\ 2 * latest \in Assignments /\ 2 * latest + 1 \in Assignments
      /\ sup[p].at = "recover" => latest # NoAssignment
  BY SupTypes, IdsAssumption DEF Live, Of, SupInv, SupTypeOK, RecoveryInv, Recovers
<1>2. IsIdle(p)
  BY DEF Observe, Blocked, RecoverExpired, Refused, Running, ExecuteLane, Settle, Verifying, At
<1>3. TheTaskIs({"backlog"}) => sup[p].at \in {"observe", "asks", "dispatch", "killed"}
  BY DEF WatchInv, BacklogInv, Opening
<1>4. ~Held => /\ TheTaskIs({"inProgress"})
               /\ \E a \in Assignments :
                    /\ Live = {a} /\ asg[a].state = "running" /\ ~elapsed[a]
                    /\ effect["provider"][a] = "none"
  BY QuietMeans
<1> HIDE DEF Held
<1>5. {"attention", "alarm", "asks", "observe", "blocked", "running", "lane", "settle",
       "verifying", "dispatch", "laneDispatch", "heartbeat", "begin", "recover", "expire",
       "exited", "accept", "beginVerification"} \subseteq Places
  BY DEF Places, Anywhere, Ended, Expiring
<1>6. ASSUME NEW place \in Places \ {"heartbeat", "report"}, NEW a \in Assignments,
             Turn(p, place, a), sup[p].at \notin {"observe", "asks", "dispatch", "killed"},
             \/ Held \/ ~Cares(p) \/ place \in {"observe", "running", "lane"}
             \/ (place = "begin" /\ a \in Live)
      PROVE  WatchInv'
  BY <1>2, <1>3, <1>6, TurnWatches DEF Held
<1>7. CASE Observe(p)
  <2>1. CASE TheTaskIs({"backlog"})
    <3>1. Turn(p, "dispatch", 1) \/ Turn(p, "asks", On(p))
      BY <1>7, <2>1 DEF Observe, TheTaskIs
    <3> QED BY <1>1, <1>2, <1>5, <2>1, <3>1, TurnWatches
  <2>2. CASE ~TheTaskIs({"backlog"})
    <3>1. \E place \in Places \ {"heartbeat", "report"} :
             Turn(p, place, On(p)) /\ (TheTaskIs({"inProgress"}) => place \in {"running", "asks"})
      BY <1>5, <1>7, <2>2 DEF Observe, TheTaskIs
    <3> QED BY <1>1, <1>2, <1>4, <2>2, <3>1, TurnWatches DEF Held
  <2> QED BY <2>1, <2>2
<1>8. CASE Blocked(p)
  BY <1>1, <1>5, <1>6, <1>8 DEF Blocked, At, Cares
<1>9. CASE RecoverExpired(p)
  <2>1. sup[p].at = "recover" /\ (Turn(p, "dispatch", 2 * latest) \/ Turn(p, "attention", On(p)))
    BY <1>9 DEF RecoverExpired, At
  <2>2. ~Cares(p)
    BY <2>1 DEF Cares
  <2> QED BY <1>1, <1>5, <1>6, <2>1, <2>2
<1>10. CASE Refused(p) \/ Settle(p)
  BY <1>1, <1>5, <1>6, <1>10 DEF Refused, Settle, At, Cares
<1>11. CASE Running(p)
  <2>1. sup[p].at = "running"
    BY <1>11 DEF Running, At
  <2>2. \/ Held /\ Turn(p, "alarm", On(p))
        \/ \E a \in Live :
             \/ Held /\ (Turn(p, "expire", a) \/ Turn(p, "attention", a))
             \/ Turn(p, "lane", a) \/ Turn(p, "observe", a)
             \/ asg[a].state = "running" /\ Turn(p, "heartbeat", a)
    BY <1>4, <1>11 DEF Running
  <2>3. ASSUME NEW a \in Live, asg[a].state = "running", Turn(p, "heartbeat", a) PROVE WatchInv'
    BY <1>1, <1>2, <1>3, <1>5, <2>1, <2>3, TurnWatches
  <2> QED BY <1>1, <1>5, <1>6, <2>1, <2>2, <2>3
<1>12. CASE ExecuteLane(p)
  <2>1. /\ sup[p].at = "lane"
        /\ \/ \E a \in Live : Turn(p, "begin", a)
           \/ /\ Live = {}
              /\ \/ Turn(p, "settle", On(p)) \/ Turn(p, "attention", On(p))
                 \/ latest # NoAssignment /\ Turn(p, "laneDispatch", 2 * latest + 1)
    BY <1>12 DEF ExecuteLane, At
  <2>2. Live = {} => Held
    BY <1>4
  <2> QED BY <1>1, <1>5, <1>6, <2>1, <2>2
<1>13. CASE Verifying(p)
  <2>1. /\ sup[p].at = "verifying"
        /\ \/ Turn(p, "alarm", On(p))
           \/ \E a \in Live : \/ Turn(p, "attention", a) \/ Turn(p, "beginVerification", a)
                              \/ Turn(p, "accept", a)
    BY <1>13 DEF Verifying, Absorb, At
  <2>2. ~Cares(p)
    BY <2>1 DEF Cares
  <2> QED BY <1>1, <1>5, <1>6, <2>1, <2>2
<1> QED
  BY <1>7, <1>8, <1>9, <1>10, <1>11, <1>12, <1>13

\* A command that is prepared where it is given.
LEMMA ReadWatches ==
    ASSUME SupInv, WatchInv, NEW p \in Supervisors, OnTheWay, NothingStored,
           \A q \in Procs \ {p} : pend'[q] = pend[q],
           Given(p)', pend'[p].op \in Mutations => pend'[p].task = TheTask,
           pend'[p].op # "execute",
           pend'[p].op = "heartbeat" =>
              pend'[p].seen.lease.rev = sup[p].rev /\ pend'[p].seen.sess.rev = sup[p].rev,
           TheTaskIs({"backlog"}) => Undisputed(p)'
    PROVE  WatchInv'
<1>1. UNCHANGED <<records, elapsed, effect, sup, commands>>
  BY DEF OnTheWay, supVars, NothingStored
<1>2. UNCHANGED <<task, asg, lease, sess, run>> /\ On(p)' = On(p) /\ Live' = Live
  BY <1>1 DEF records, On, Live, Of, IsLive
<1>3. Beating(p) /\ Started(p) /\ (TheTaskIs({"backlog"}) => Opening(p))
  BY DEF WatchInv, HeartbeatInv, ProviderInv, BacklogInv
<1>4. Beating(p)'
  BY <1>1, <1>2, <1>3 DEF Beating
<1>5. Started(p)'
  BY <1>1, <1>2, <1>3 DEF Started
<1>6. (Opening(p) => Opening(p)') /\ (Cares(p) => Cares(p)')
  BY <1>1, <1>2 DEF Opening, Cares
<1>7. p \in Procs /\ p # Operator
  BY SupTypes DEF Supervisors
<1> QED
  BY <1>1, <1>3, <1>4, <1>5, <1>6, <1>7, WatchHolds

\* The steps that give a command: replayed, refused or prepared.
LEMMA CommandWatches ==
    ASSUME SupInv, WatchInv, NEW p \in Supervisors,
           \/ Dispatch(p, "dispatch") \/ Dispatch(p, "laneDispatch") \/ Heartbeat(p) \/ Expire(p)
           \/ Begin(p) \/ Report(p) \/ BeginVerification(p) \/ Accept(p)
    PROVE  WatchInv'
<1> DEFINE a == On(p)
           Held == Attended \/ TheTaskIs({"backlog"})
<1>1. a \in Assignments /\ p \in Procs /\ IsIdle(p) /\ TypeOK /\ LaneInv /\ TheTask \in Tasks
  BY SupTypes DEF Dispatch, Heartbeat, Expire, Begin, Report, BeginVerification, Accept, At,
                  SupInv, SupTypeOK
<1>2. /\ asg[a].state # "none" => asg[a].task = TheTask /\ a \in Of(TheTask)
      /\ asg[a].state \in LiveAssignment => a \in Live
      /\ LeaseIsLive(a) => asg[a].state = "running" /\ a \in Live
  BY <1>1, RunningMeans DEF WatchInv, GivenInv, Of, Live, IsLive, LiveAssignment
<1>3. TheTaskIs({"backlog"}) =>
        /\ \A b \in Assignments : asg[b].state = "none"
        /\ sup[p].at \in {"observe", "asks", "killed"} \/ (sup[p].at = "dispatch" /\ a = 1)
  BY DEF WatchInv, BacklogInv, Opening
<1>4. ~Held => \E b \in Assignments :
                 /\ Live = {b} /\ asg[b].state = "running" /\ ~elapsed[b]
                 /\ effect["provider"][b] = "none" /\ ExecutionIsLive(b)
  BY QuietMeans
<1> HIDE DEF Held
<1>5. ASSUME NEW place \in {"exited", "attention", "error", "observe", "refused", "settle",
                            "begin", "accept", "expireLate", "giveUp"}, Turn(p, place, a),
             ~TheTaskIs({"backlog"}), Held \/ ~Cares(p) \/ place = "observe"
      PROVE  WatchInv'
  <2>1. place \in Places /\ place \notin {"heartbeat", "report"}
    BY <1>5 DEF Places, Anywhere, Ended, Expiring
  <2> QED BY <1>1, <1>5, <2>1, TurnWatches DEF Held
<1>6. ASSUME NEW o \in Mutations, NEW by, NEW passed, NEW r,
             Prepare(p, o, a, TheTask, by, passed, r), OnTheWay, NothingStored,
             ~TheTaskIs({"backlog"}),
             o = "dispatch" => sup[p].at \in {"dispatch", "laneDispatch"},
             o \in {"callback", "failure"} => sup[p].at = "report",
             o = "verify" => sup[p].at = "accept",
             o = "heartbeat" =>
                sup[p].at = "heartbeat" /\ lease[a].rev = sup[p].rev /\ sess[a].rev = sup[p].rev,
             o = "expire" => sup[p].at \in Expiring, o # "cancel"
      PROVE  WatchInv'
  <2>1. /\ pend'[p].op = o /\ pend'[p].asg = a /\ pend'[p].task = TheTask
        /\ pend'[p].seen.lease = lease[a] /\ pend'[p].seen.sess = sess[a]
        /\ \A q \in Procs \ {p} : pend'[q] = pend[q]
    BY <1>1, <1>6, PrepareMeans
  <2>2. sup' = sup
    BY <1>6 DEF OnTheWay, supVars
  <2>3. Given(p)'
    BY <1>6, <2>1, <2>2 DEF Given, On, Mutations
  <2>4. o # "execute"
    BY <1>6 DEF Mutations
  <2> QED BY <1>6, <2>1, <2>3, <2>4, ReadWatches
<1>7. ASSUME NEW k \in EffectKinds, EffectCheck(p, k, a), OnTheWay, ~TheTaskIs({"backlog"}),
             sup[p].at = IF k = "provider" THEN "begin" ELSE "beginVerification"
      PROVE  WatchInv'
  <2>1. /\ pend'[p].op = "reserve" /\ pend'[p].asg = a /\ pend'[p].kind = k
        /\ \A q \in Procs \ {p} : pend'[q] = pend[q]
    BY <1>1, <1>7 DEF EffectCheck, Await, Waiting, TypeOK
  <2>2. sup' = sup /\ NothingStored
    BY <1>7 DEF OnTheWay, supVars, EffectCheck
  <2>3. Given(p)'
    BY <1>7, <2>1, <2>2 DEF Given, On
  <2> QED BY <1>7, <2>1, <2>2, <2>3, ReadWatches DEF Mutations
<1>8. CASE Dispatch(p, "dispatch") \/ Dispatch(p, "laneDispatch")
  <2>1. sup[p].at \in {"dispatch", "laneDispatch"} /\ After(p) \in {"observe", "begin"}
    BY <1>8 DEF Dispatch, At, After
  <2>2. ~Cares(p)
    BY <2>1 DEF Cares
  <2>3. CASE DispatchRead(p, a, TheTask, TheAgent) /\ OnTheWay
    <3>1. /\ pend'[p].op = "dispatch" /\ pend'[p].asg = a /\ pend'[p].task = TheTask
          /\ pend'[p].seen.task = task[TheTask] /\ pend'[p].seen.asg = asg[a]
          /\ pend'[p].seen.lease = lease[a] /\ pend'[p].seen.sess = sess[a]
          /\ \A q \in Procs \ {p} : pend'[q] = pend[q]
      <4>1. Prepare(p, "dispatch", a, TheTask, TheAgent, FALSE, NoAssignment)
        BY <2>3 DEF DispatchRead
      <4> QED BY <1>1, <4>1 DEF Prepare, TypeOK
    <3>2. NothingStored /\ sup' = sup /\ UNCHANGED <<task, asg, lease, sess, run>>
      BY <2>3 DEF DispatchRead, OnTheWay, supVars, NothingStored, records
    <3>3. Given(p)'
      BY <2>1, <3>1, <3>2 DEF Given, On
    <3>4. CasHolds(pend[p])'
      BY <3>1, <3>2 DEF CasHolds, WritesRun
    <3> QED BY <2>3, <3>1, <3>2, <3>3, <3>4, ReadWatches DEF Undisputed
  <2>4. CASE asg[a].state # "none" /\ Turn(p, After(p), a)
    BY <1>1, <1>3, <1>5, <2>1, <2>2, <2>4
  <2>5. CASE ~Dispatchable(TheTask) /\ (Turn(p, "refused", a) \/ Turn(p, "attention", a))
    <3>1. ~TheTaskIs({"backlog"})
      BY <1>3, <2>5 DEF Dispatchable, TheTaskIs, Of
    <3> QED BY <1>5, <2>2, <2>5, <3>1
  <2> QED BY <1>8, <2>3, <2>4, <2>5 DEF Dispatch
<1>9. ASSUME sup[p].at \notin {"observe", "asks", "dispatch", "killed"} PROVE ~TheTaskIs({"backlog"})
  BY <1>3, <1>9
<1>10. CASE Heartbeat(p)
  <2>1. sup[p].at = "heartbeat" /\ ~TheTaskIs({"backlog"})
    BY <1>9, <1>10 DEF Heartbeat, At
  <2>2. CASE Turn(p, "observe", a)
    BY <1>5, <2>1, <2>2
  <2>3. CASE ~IsReplayed(p) /\ HeartbeatRead(p, a) /\ OnTheWay
    <3>1. LeaseIsLive(a) /\ lease[a].rev \in Nat
      BY <1>1, <2>3, RevisionTypes DEF HeartbeatRead
    <3>2. /\ sess[a].rev = lease[a].rev
          /\ \A i \in 1 .. (lease[a].rev - 1) : <<"heartbeat", a, i>> \in commands
          /\ sup[p].rev \in 1 .. lease[a].rev
      BY <1>1, <2>1, <3>1 DEF WatchInv, HeartbeatInv, Beating
    <3>3. <<"heartbeat", a, sup[p].rev>> \notin commands
      BY <2>1, <2>3 DEF IsReplayed, Command, On
    <3>4. lease[a].rev = sup[p].rev
      BY <3>1, <3>2, <3>3
    <3>5. "heartbeat" \in Mutations /\ asg[a].task = TheTask
      BY <1>2, <3>1 DEF Mutations
    <3> QED BY <1>6, <2>1, <2>3, <3>2, <3>4, <3>5 DEF HeartbeatRead
  <2>4. CASE LeaseIsLive(a) /\ elapsed[a] /\ Turn(p, "expireLate", a)
    <3>1. Held
      BY <1>2, <2>4 DEF Held, Attended
    <3> QED BY <1>5, <2>1, <2>4, <3>1
  <2> QED BY <1>10, <2>2, <2>3, <2>4 DEF Heartbeat
<1>11. CASE Expire(p)
  <2>1. sup[p].at \in Expiring /\ ~TheTaskIs({"backlog"}) /\ ~Cares(p)
        /\ After(p) \in {"observe", "attention"}
    BY <1>9, <1>11 DEF Expire, Expiring, Cares, After
  <2>2. CASE ExpireRead(p, a) /\ OnTheWay
    <3>1. "expire" \in Mutations /\ asg[a].task = TheTask
      BY <1>2, <2>2 DEF ExpireRead, Mutations
    <3> QED BY <1>6, <2>1, <2>2, <3>1 DEF ExpireRead
  <2> QED BY <1>5, <1>11, <2>1, <2>2 DEF Expire
<1>12. CASE Begin(p)
  <2>1. sup[p].at = "begin" /\ ~TheTaskIs({"backlog"})
    BY <1>9, <1>12 DEF Begin, At
  <2>2. CASE EffectCheck(p, "provider", a) /\ OnTheWay
    BY <1>7, <2>1, <2>2 DEF EffectKinds
  <2>3. CASE effect["provider"][a] = "succeeded" /\ Turn(p, "report", a)
    <3>1. Cares(p) => Held
      BY <1>4, <2>1, <2>3 DEF Cares
    <3>2. "report" \in Places
      BY DEF Places
    <3> QED BY <1>1, <2>1, <2>3, <3>1, <3>2, TurnWatches DEF Held
  <2>4. CASE /\ \/ asg[a].state = "submitted"
                \/ ~ExecutionIsLive(a)
                \/ effect["provider"][a] \in {"pending", "failed"}
             /\ Turn(p, "settle", a) \/ Turn(p, "attention", a)
    <3>1. Cares(p) => Held
      BY <1>4, <2>1, <2>4 DEF Cares
    <3> QED BY <1>5, <2>1, <2>4, <3>1
  <2> QED BY <1>12, <2>2, <2>3, <2>4 DEF Begin
<1>13. CASE Report(p)
  <2>1. sup[p].at = "report" /\ ~TheTaskIs({"backlog"}) /\ ~Cares(p)
    BY <1>9, <1>13 DEF Report, At, Cares
  <2>2. ASSUME NEW o \in {"callback", "failure"}, ReportRead(p, o, a), OnTheWay PROVE WatchInv'
    <3>1. Prepare(p, o, a, asg[a].task, asg[a].agent, FALSE, RunFound(asg[a].task, a))
          /\ NothingStored /\ asg[a].state = "running"
      BY <2>2 DEF ReportRead, ExecutionIsLive
    <3>2. o \in Mutations /\ asg[a].task = TheTask
      BY <1>2, <2>2, <3>1 DEF Mutations
    <3> QED BY <1>6, <2>1, <2>2, <3>1, <3>2
  <2> QED BY <1>5, <1>13, <2>1, <2>2 DEF Report
<1>14. CASE BeginVerification(p)
  <2>1. sup[p].at = "beginVerification" /\ ~TheTaskIs({"backlog"}) /\ ~Cares(p)
    BY <1>9, <1>14 DEF BeginVerification, At, Cares
  <2>2. CASE EffectCheck(p, "verification", a) /\ OnTheWay
    BY <1>7, <2>1, <2>2 DEF EffectKinds
  <2> QED BY <1>5, <1>14, <2>1, <2>2 DEF BeginVerification, Absorb
<1>15. CASE Accept(p)
  <2>1. sup[p].at = "accept" /\ ~TheTaskIs({"backlog"}) /\ ~Cares(p)
        /\ After(p) \in {"exited", "attention"}
        /\ Lost(p) \in {"exited", "observe", "attention"}
    BY <1>9, <1>15 DEF Accept, At, Cares, After, Lost
  <2>2. CASE VerifyRead(p, TheTask, a, TheVerifier, verdict[a] = "passed") /\ OnTheWay
    BY <1>6, <2>1, <2>2 DEF VerifyRead, Mutations
  <2> QED BY <1>5, <1>15, <2>1, <2>2 DEF Accept
<1> QED
  BY <1>8, <1>10, <1>11, <1>12, <1>13, <1>14, <1>15

\* The external effects, lost races and kills.
LEMMA EffectWatches ==
    ASSUME SupInv, WatchInv, NEW p \in Supervisors,
           Reserve(p) \/ Complete(p) \/ Throw(p) \/ Loses(p) \/ Killed(p)
    PROVE  WatchInv'
<1> DEFINE a == On(p)
           k == pend[p].kind
           Held == Attended \/ TheTaskIs({"backlog"})
<1>1. a \in Assignments /\ p \in Procs /\ TypeOK /\ 1 \in Assignments /\ LaneInv
  BY SupTypes, IdsAssumption DEF SupInv, SupTypeOK
<1>2. /\ k \in EffectKinds /\ "provider" \in EffectKinds
      /\ effect \in [EffectKinds ->
                       [Assignments -> {"none", "pending", "succeeded", "failed"}]]
  BY <1>1, PendingTypes DEF TypeOK, EffectKinds
<1>3. Given(p) /\ Beating(p) /\ Started(p)
  BY DEF WatchInv, GivenInv, HeartbeatInv, ProviderInv
<1>4. TheTaskIs({"backlog"}) => Undisputed(p) /\ Opening(p)
  BY <1>1 DEF WatchInv, BacklogInv
<1>5. {"attention", "killed", "report", "accept", "observe", "begin", "settle", "exited"}
        \subseteq Places
  BY DEF Places, Anywhere, Ended
<1>6. ASSUME pend[p].op \in {"reserve", "execute"}
      PROVE  /\ pend[p].asg = a /\ ~TheTaskIs({"backlog"})
             /\ sup[p].at = IF k = "provider" THEN "begin" ELSE "beginVerification"
  BY <1>3, <1>4, <1>6 DEF Given, Opening
<1>7. ASSUME pend[p].op \in {"reserve", "execute"}, effect[k][a] # "none", Cares(p)
      PROVE  Attended
  <2>1. k = "provider" /\ a \in Live
    BY <1>6, <1>7 DEF Cares
  <2> QED BY <1>2, <1>7, <2>1 DEF Attended
<1>8. CASE Reserve(p)
  <2>1. pend[p].op = "reserve" /\ UNCHANGED <<records, elapsed, commands>>
    BY <1>8 DEF Reserve, EffectReserve, OnTheWay, supVars
  <2>2. CASE effect[k][a] = "none"
    <3>1. /\ effect' = [effect EXCEPT ![k][a] = "pending"] /\ UNCHANGED sup
          /\ Await(p, "execute", k, a)
      BY <1>6, <1>8, <2>1, <2>2 DEF Reserve, EffectReserve, OnTheWay, supVars
    <3>2. /\ pend'[p].op = "execute" /\ pend'[p].asg = a /\ pend'[p].kind = k
          /\ \A q \in Procs \ {p} : pend'[q] = pend[q]
      BY <1>1, <3>1 DEF Await, Waiting, TypeOK
    <3>3. /\ effect'[k][a] = "pending"
          /\ \A l \in EffectKinds, b \in Assignments :
               effect[l][b] # "none" => effect'[l][b] # "none"
      BY <1>1, <1>2, <3>1
    <3>4. On(p)' = a /\ sup'[p] = sup[p] /\ Live' = Live
      BY <2>1, <3>1 DEF On, Live, Of, IsLive, records
    <3>5. Given(p)' /\ Beating(p)' /\ Started(p)' /\ (Cares(p) => Cares(p)')
      BY <1>6, <2>1, <3>2, <3>3, <3>4 DEF Given, Beating, Started, Cares
    <3>6. p # Operator
      BY DEF Supervisors
    <3> QED BY <1>1, <1>6, <2>1, <3>1, <3>2, <3>3, <3>5, <3>6, WatchHolds DEF Mutations
  <2>3. CASE effect[k][a] # "none"
    <3>1. Stop(p) /\ UNCHANGED effect /\ (Go(p, "accept", a) \/ Go(p, "attention", a))
      BY <1>6, <1>8, <2>1, <2>3 DEF Reserve, EffectReserve
    <3>2. pend'[p].op = "idle" /\ \A q \in Procs \ {p} : pend'[q] = pend[q]
      BY <1>1, <3>1, StopMeans
    <3> QED BY <1>1, <1>5, <1>6, <1>7, <2>1, <2>3, <3>1, <3>2, GoWatches
  <2> QED BY <2>2, <2>3
<1>9. CASE Complete(p)
  <2>1. /\ pend[p].op = "execute" /\ Stop(p) /\ UNCHANGED <<records, elapsed, commands>>
        /\ effect' = [effect EXCEPT ![k][pend[p].asg] = IF @ = "pending" THEN "succeeded" ELSE @]
        /\ \/ k = "provider" /\ Go(p, "report", a)
           \/ k = "verification" /\ Go(p, "accept", a)
    BY <1>9 DEF Complete, EffectDone
  <2>2. effect[k][a] # "none" /\ pend[p].asg = a
    BY <1>3, <1>6, <2>1 DEF Started
  <2>3. \A l \in EffectKinds, b \in Assignments : effect[l][b] # "none" => effect'[l][b] # "none"
    BY <1>1, <1>2, <2>1, <2>2
  <2>4. effect'[k][a] # "none"
    BY <1>1, <1>2, <2>2, <2>3
  <2>5. pend'[p].op = "idle" /\ \A q \in Procs \ {p} : pend'[q] = pend[q]
    BY <1>1, <2>1, StopMeans
  <2>6. ~TheTaskIs({"backlog"}) /\ (Cares(p) => Attended)
    BY <1>6, <1>7, <2>1, <2>2
  <2>7. CASE k = "provider" /\ Go(p, "report", a)
    BY <1>1, <1>5, <2>1, <2>3, <2>4, <2>5, <2>6, <2>7, GoWatches
  <2>8. CASE Go(p, "accept", a)
    BY <1>1, <1>5, <2>1, <2>3, <2>5, <2>6, <2>8, GoWatches
  <2> QED BY <2>1, <2>7, <2>8
<1>10. ASSUME Stop(p), NothingStored, UNCHANGED commands, NEW b \in Assignments,
              NEW place \in {"attention", "killed", "observe", "begin", "settle", "exited"},
              Go(p, place, b),
              place \in {"observe", "killed"} \/
                 (~TheTaskIs({"backlog"}) /\ (Cares(p) => Attended))
       PROVE  WatchInv'
  <2>1. pend'[p].op = "idle" /\ \A q \in Procs \ {p} : pend'[q] = pend[q]
    BY <1>1, <1>10, StopMeans
  <2>2. UNCHANGED <<records, elapsed, effect>>
    BY <1>10 DEF NothingStored
  <2>3. place \in Places /\ place # "heartbeat" /\ place # "report"
    BY <1>5, <1>10
  <2> QED BY <1>10, <2>1, <2>2, <2>3, GoWatches
<1>11. CASE Throw(p)
  <2>1. pend[p].op = "execute"
    BY <1>11 DEF Throw
  <2>2. effect[k][a] # "none"
    BY <1>3, <1>6, <2>1 DEF Started
  <2> QED BY <1>1, <1>6, <1>7, <1>10, <1>11, <2>1, <2>2 DEF Throw
<1>12. CASE Killed(p)
  BY <1>1, <1>10, <1>12 DEF Killed
<1>13. CASE Loses(p)
  <2>1. /\ Stop(p) /\ NothingStored /\ UNCHANGED commands
        /\ pend[p].op \in Mutations /\ ~CasHolds(pend[p])
        /\ Go(p, IF IsReplayed(p) THEN After(p) ELSE Lost(p), a)
    BY <1>13 DEF Loses, Conflict
  <2>2. sup[p].at \in Commanding
    BY <2>1 DEF SupInv, PlaceInv
  <2>3. After(p) \in {"observe", "begin", "settle", "attention", "exited"}
        /\ Lost(p) \in {"observe", "attention", "exited"}
    BY <2>2, AfterPlaces DEF Lost
  <2>4. ~TheTaskIs({"backlog"})
    BY <1>4, <2>1 DEF Undisputed, Mutations
  <2>5. ASSUME Cares(p), ~Attended
        PROVE  IsReplayed(p) /\ After(p) = "observe"
    <3>1. sup[p].at = "heartbeat" /\ a \in Live
      BY <2>2, <2>5 DEF Cares, Commanding, Expiring
    <3>2. pend[p].op = "heartbeat" /\ pend[p].asg = a
      BY <1>3, <2>1, <3>1 DEF Given, Mutations, Expiring
    <3>3. LeaseIsLive(a) /\ lease[a].rev \in Nat
      BY <1>1, <2>4, <2>5, <3>1, QuietMeans, RunningMeans, RevisionTypes
    <3>4. /\ sess[a].rev = lease[a].rev
          /\ \A i \in 1 .. (lease[a].rev - 1) : <<"heartbeat", a, i>> \in commands
          /\ sup[p].rev \in 1 .. lease[a].rev
          /\ pend[p].seen.lease.rev = sup[p].rev /\ pend[p].seen.sess.rev = sup[p].rev
      BY <1>1, <1>3, <3>1, <3>2, <3>3 DEF WatchInv, HeartbeatInv, Beating
    <3>5. lease[a].rev # sup[p].rev
      BY <2>1, <3>2, <3>4 DEF CasHolds, WritesTask, WritesAsg, WritesRun
    <3>6. <<"heartbeat", a, sup[p].rev>> \in commands
      BY <3>3, <3>4, <3>5
    <3> QED BY <3>1, <3>6 DEF IsReplayed, Command, After, On
  <2>6. CASE Cares(p) /\ ~Attended
    <3>1. Go(p, "observe", a)
      BY <2>1, <2>5, <2>6
    <3> QED BY <1>1, <1>10, <2>1, <3>1
  <2>7. CASE ~(Cares(p) /\ ~Attended)
    BY <1>1, <1>10, <2>1, <2>3, <2>4, <2>7
  <2> QED BY <2>6, <2>7
<1> QED
  BY <1>8, <1>9, <1>11, <1>12, <1>13

\* What the commits make of the records, as far as watching goes.
LEMMA CommitMakes ==
    ASSUME SupInv, LaneInv', WatchInv, NEW p \in Procs,
           \/ DispatchCommit(p) \/ CallbackCommit(p) \/ FailureCommit(p) \/ VerifyCommit(p)
           \/ HeartbeatCommit(p) \/ ExpireCommit(p) \/ CancelCommit(p)
    PROVE  LET o == pend[p] IN
           /\ o.op \in Mutations /\ o.asg \in Assignments /\ Stop(p) /\ UNCHANGED effect
           /\ \A a \in Assignments : asg'[a].state # "none" => asg'[a].task = TheTask
           /\ \A a \in Assignments : asg'[a].state = "submitted" =>
                asg[a].state = "submitted" \/ (o.op = "callback" /\ a = o.asg)
           /\ \A a \in Assignments : LeaseIsLive(a)' =>
                \/ LeaseIsLive(a) /\ lease'[a].rev = lease[a].rev /\ sess'[a].rev = sess[a].rev
                \/ o.op = "dispatch" /\ lease'[a].rev = 1 /\ sess'[a].rev = 1
                \/ /\ o.op = "heartbeat" /\ a = o.asg /\ LeaseIsLive(a)
                   /\ lease[a].rev = o.seen.lease.rev
                   /\ lease'[a].rev = lease[a].rev + 1 /\ sess'[a].rev = sess[a].rev + 1
           /\ \A a \in Assignments : lease[a].rev <= lease'[a].rev
           /\ ~TheTaskIs({"backlog"})'
           /\ o.op \in {"failure", "verify", "expire", "cancel"} =>
                TheTaskIs({"done", "cancelled", "blocked"})'
           /\ o.op = "callback" => asg'[o.asg].state = "submitted"
           /\ o.op = "dispatch" => asg'[o.asg].state = "running"
<1> DEFINE o == pend[p]
<1>1. /\ ReadInv /\ TypeOK /\ TypeOK' /\ LaneInv /\ Lane /\ Guarded(o)
      /\ o.asg \in Assignments /\ o.task \in Tasks /\ TheTask \in Tasks
  BY PendingTypes, ConfigAssumption DEF SupInv, LaneInv, ReadInv, Lane
<1>2. o.op \in Mutations /\ Stop(p) /\ CasHolds(o) /\ UNCHANGED effect
  BY DEF DispatchCommit, CallbackCommit, FailureCommit, VerifyCommit, HeartbeatCommit,
         ExpireCommit, CancelCommit, Commits, Mutations
<1>3. /\ o.task = TheTask
      /\ \A a \in Assignments : asg[a].state # "none" => asg[a].task = TheTask
  BY <1>2 DEF WatchInv, GivenInv
<1>4. \A a \in Assignments : a # o.asg =>
        asg'[a] = asg[a] /\ lease'[a] = lease[a] /\ sess'[a] = sess[a]
  BY <1>1, CommitLocal
<1>5. /\ task \in [Tasks -> Task] /\ asg \in [Assignments -> Assignment]
      /\ lease \in [Assignments -> Lease] /\ sess \in [Assignments -> Session]
  BY <1>1 DEF TypeOK
<1>6. \A a \in Assignments : lease[a].rev <= lease'[a].rev
  <2>1. Forward
    BY <1>1, CommitForward
  <2>2. \A a \in Assignments : lease[a].rev \in Nat
    BY <1>1, RevisionTypes
  <2>3. \A a \in Assignments : lease'[a].rev \in Nat
    BY <1>1 DEF TypeOK, Lease
  <2> QED BY <2>1, <2>2, <2>3 DEF Forward, Behind
<1>7. \A a \in Assignments : LeaseIsLive(a)' => asg'[a].state = "running"
  <2> SUFFICES ASSUME NEW a \in Assignments, LeaseIsLive(a)'
               PROVE  asg'[a].state = "running"
    OBVIOUS
  <2>1. /\ asg'[a].state \in {"none", "running", "submitted"} \cup TerminalAssignment
        /\ AsgAgrees(a)'
        /\ asg'[a].state = "none" => lease'[a] = None
    BY DEF LaneInv, ReadInv, TypeOK, Assignment, LiveAssignment, PhaseAgreement, Fresh
  <2> QED BY <2>1 DEF AsgAgrees, LeaseIsLive, LiveLease, None
<1>8. CASE DispatchCommit(p)
  <2>1. /\ o.op = "dispatch" /\ task'[TheTask].phase = "inProgress"
        /\ asg'[o.asg].state = "running" /\ asg'[o.asg].task = TheTask
        /\ lease'[o.asg].rev = 1 /\ sess'[o.asg].rev = 1
    BY <1>1, <1>3, <1>5, <1>8 DEF DispatchCommit, Commits
  <2>2. /\ \A a \in Assignments : asg'[a].state # "none" => asg'[a].task = TheTask
        /\ \A a \in Assignments : asg'[a].state = "submitted" => asg[a].state = "submitted"
    BY <1>1, <1>3, <1>4, <2>1
  <2>3. \A a \in Assignments : LeaseIsLive(a)' =>
          \/ LeaseIsLive(a) /\ lease'[a].rev = lease[a].rev /\ sess'[a].rev = sess[a].rev
          \/ lease'[a].rev = 1 /\ sess'[a].rev = 1
    BY <1>4, <2>1 DEF LeaseIsLive
  <2>4. ~TheTaskIs({"backlog"})'
    BY <2>1 DEF TheTaskIs
  <2> QED BY <1>1, <1>2, <1>6, <2>1, <2>2, <2>3, <2>4
<1>9. CASE HeartbeatCommit(p)
  <2>1. /\ o.op = "heartbeat" /\ UNCHANGED <<task, asg>>
        /\ PutLease(p, "renewed") /\ PutSess(p, o.seen.sess.state)
    BY <1>9 DEF HeartbeatCommit, Commits
  <2>2. lease[o.asg] = o.seen.lease /\ sess[o.asg] = o.seen.sess
    BY <1>1, <1>2, <2>1, CasMeans DEF WritesLease, WritesSess
  <2>3. LeaseIsLive(o.asg) /\ asg[o.asg].state # "none"
    BY <1>1, <2>1, <2>2, RunningMeans DEF Guarded, LeaseIsLive
  <2>4. /\ lease'[o.asg].rev = lease[o.asg].rev + 1 /\ sess'[o.asg].rev = sess[o.asg].rev + 1
        /\ lease[o.asg].rev = o.seen.lease.rev
    BY <1>1, <1>5, <2>1, <2>2 DEF PutLease, PutSess, Revised
  <2>5. ~TheTaskIs({"backlog"})'
    BY <1>1, <2>1, <2>3 DEF TheTaskIs, WatchInv, BacklogInv
  <2> QED BY <1>1, <1>2, <1>3, <1>4, <1>6, <2>1, <2>3, <2>4, <2>5 DEF LeaseIsLive
<1>10. ASSUME o.op \in {"callback", "failure", "verify", "expire", "cancel"},
              NEW s \in {"submitted"} \cup TerminalAssignment, PutAsg(p, s),
              NEW ph \in {"verifying", "blocked", "done", "cancelled"}, NEW why, PutTask(p, ph, why),
              (s = "submitted" \/ ph = "verifying") => o.op = "callback",
              o.op = "callback" => s = "submitted"
       PROVE  /\ \A a \in Assignments : asg'[a].state # "none" => asg'[a].task = TheTask
              /\ \A a \in Assignments : asg'[a].state = "submitted" =>
                   asg[a].state = "submitted" \/ (o.op = "callback" /\ a = o.asg)
              /\ \A a \in Assignments : LeaseIsLive(a)' =>
                   LeaseIsLive(a) /\ lease'[a].rev = lease[a].rev /\ sess'[a].rev = sess[a].rev
              /\ ~TheTaskIs({"backlog"})'
              /\ o.op # "callback" => TheTaskIs({"done", "cancelled", "blocked"})'
              /\ o.op = "callback" => asg'[o.asg].state = "submitted"
  <2>1. asg[o.asg] = o.seen.asg /\ o.task = asg[o.asg].task /\ IsLive(o.asg)
    BY <1>1, <1>2, <1>10, CommitReplaces
  <2>2. asg'[o.asg].state = s /\ asg'[o.asg].task = TheTask
    BY <1>1, <1>3, <1>5, <1>10, <2>1 DEF PutAsg, RevisedAsg
  <2>3. s # "running"
    BY <1>10 DEF TerminalAssignment
  <2>4. task'[TheTask].phase = ph
    BY <1>1, <1>3, <1>5, <1>10 DEF PutTask, RevisedTask
  <2>5. \A a \in Assignments : LeaseIsLive(a)' => a # o.asg
    BY <1>7, <2>2, <2>3
  <2>6. \A a \in Assignments : LeaseIsLive(a)' =>
          LeaseIsLive(a) /\ lease'[a].rev = lease[a].rev /\ sess'[a].rev = sess[a].rev
    BY <1>4, <2>5 DEF LeaseIsLive
  <2>7. ~TheTaskIs({"backlog"})' /\ (o.op # "callback" => TheTaskIs({"done", "cancelled", "blocked"})')
    BY <1>10, <2>4 DEF TheTaskIs
  <2> QED BY <1>3, <1>4, <1>10, <2>2, <2>6, <2>7
<1>11. CASE CallbackCommit(p)
  <2>1. o.op = "callback" /\ PutAsg(p, "submitted") /\ PutTask(p, "verifying", "CallbackSubmitted")
    BY <1>11 DEF CallbackCommit, Commits
  <2> QED BY <1>1, <1>2, <1>6, <1>10, <2>1
<1>12. CASE FailureCommit(p)
  <2>1. /\ o.op = "failure" /\ PutAsg(p, "failed") /\ "failed" \in TerminalAssignment
        /\ PutTask(p, "blocked", "ProviderExecutionFailed")
    BY <1>12 DEF FailureCommit, Commits, TerminalAssignment
  <2> QED BY <1>1, <1>2, <1>6, <1>10, <2>1
<1>13. CASE ExpireCommit(p)
  <2>1. /\ o.op = "expire" /\ PutAsg(p, "expired") /\ "expired" \in TerminalAssignment
        /\ PutTask(p, "blocked", "LeaseExpired")
    BY <1>13 DEF ExpireCommit, Commits, TerminalAssignment
  <2> QED BY <1>1, <1>2, <1>6, <1>10, <2>1
<1>14. CASE CancelCommit(p)
  <2>1. o.op = "cancel" /\ WritesTask(o)
    BY <1>1, <1>14 DEF CancelCommit, Commits, Guarded, WritesTask
  <2>2. /\ PutAsg(p, "cancelled") /\ "cancelled" \in TerminalAssignment
        /\ PutTask(p, "cancelled", "AssignmentCancelled")
    BY <1>14, <2>1 DEF CancelCommit, TerminalAssignment
  <2> QED BY <1>1, <1>2, <1>6, <1>10, <2>1, <2>2
<1>15. CASE VerifyCommit(p)
  <2>1. /\ o.op = "verify" /\ {"closed", "failed"} \subseteq TerminalAssignment
        /\ \/ PutAsg(p, "closed") /\ PutTask(p, "done", "VerificationPassed")
           \/ PutAsg(p, "failed") /\ PutTask(p, "blocked", "VerificationFailed")
    BY <1>15 DEF VerifyCommit, Commits, TerminalAssignment
  <2>2. CASE PutAsg(p, "closed") /\ PutTask(p, "done", "VerificationPassed")
    BY <1>1, <1>2, <1>6, <1>10, <2>1, <2>2
  <2>3. CASE PutAsg(p, "failed") /\ PutTask(p, "blocked", "VerificationFailed")
    BY <1>1, <1>2, <1>6, <1>10, <2>1, <2>3
  <2> QED BY <2>1, <2>2, <2>3
<1> QED
  BY <1>8, <1>9, <1>11, <1>12, <1>13, <1>14, <1>15

\* The invariant in terms of what a commit makes of the records: a Supervisor that has
\* committed has no further heartbeat or report in hand.
LEMMA MadeWatches ==
    ASSUME SupInv, WatchInv, NEW p \in Procs,
           \A a \in Assignments : asg'[a].state # "none" => asg'[a].task = TheTask,
           \A a \in Assignments : asg'[a].state = "submitted" => effect["provider"][a] # "none",
           \A a \in Assignments : LeaseIsLive(a)' =>
             /\ lease'[a].rev >= 1 /\ sess'[a].rev = lease'[a].rev
             /\ \A i \in 1 .. (lease'[a].rev - 1) : <<"heartbeat", a, i>> \in commands',
           \A a \in Assignments : lease[a].rev <= lease'[a].rev, TypeOK',
           UNCHANGED effect, ~TheTaskIs({"backlog"})',
           pend'[p].op = "idle", \A q \in Procs \ {p} : pend'[q] = pend[q],
           \A q \in Supervisors \ {p} : sup'[q] = sup[q],
           p \in Supervisors => sup'[p].at \notin {"heartbeat", "report"},
           Attended' \/ \E q \in Supervisors : Cares(q)'
    PROVE  WatchInv'
<1>1. ASSUME NEW q \in Supervisors, q # p
      PROVE  Given(q)' /\ Beating(q)' /\ Started(q)'
  <2>1. /\ sup'[q] = sup[q] /\ pend'[q] = pend[q] /\ q \in Procs /\ On(q) \in Assignments
        /\ On(q)' = On(q)
    BY <1>1, SupTypes DEF Supervisors, On
  <2>2. Given(q) /\ Beating(q) /\ Started(q)
    BY DEF WatchInv, GivenInv, HeartbeatInv, ProviderInv
  <2>3. Given(q)' /\ Started(q)'
    BY <2>1, <2>2 DEF Given, Started
  <2>4. /\ lease[On(q)].rev \in Nat /\ lease'[On(q)].rev \in Nat
        /\ lease[On(q)].rev <= lease'[On(q)].rev
    <3>1. lease[On(q)].rev \in Nat
      BY <2>1, RevisionTypes DEF SupInv, SupTypeOK
    <3>2. lease'[On(q)].rev \in Nat
      BY <2>1 DEF TypeOK, Lease
    <3> QED BY <2>1, <3>1, <3>2
  <2>5. Beating(q)'
    BY <2>1, <2>2, <2>4 DEF Beating
  <2> QED BY <2>3, <2>5
<1>2. p \in Supervisors => Given(p)' /\ Beating(p)' /\ Started(p)'
  BY DEF Given, Beating, Started
<1>3. GivenInv'
  <2>1. \A q \in Procs : pend'[q].op \in Mutations => pend'[q].task = TheTask
    BY DEF WatchInv, GivenInv, Mutations
  <2>2. pend'[Operator].op \in {"idle", "cancel"}
    BY ConfigAssumption DEF WatchInv, GivenInv
  <2> QED BY <1>1, <1>2, <2>1, <2>2 DEF GivenInv
<1>4. HeartbeatInv'
  BY <1>1, <1>2 DEF HeartbeatInv
<1>5. ProviderInv'
  BY <1>1, <1>2 DEF ProviderInv
<1> QED
  BY <1>3, <1>4, <1>5 DEF WatchInv, BacklogInv, CareInv

\* The commits of Supervisors: each leaves the Task to the one that commits, to the
\* Provider that was started, or blocked or ended.
LEMMA CommitWatches ==
    ASSUME SupInv, LaneInv', WatchInv, NEW p \in Supervisors, Commit(p)
    PROVE  WatchInv'
<1> DEFINE o == pend[p]
<1>1. /\ On(p) \in Assignments /\ p \in Procs /\ TypeOK /\ TypeOK'
      /\ Given(p) /\ Started(p) /\ HeartbeatInv
  BY SupTypes DEF SupInv, LaneInv, ReadInv, WatchInv, GivenInv, ProviderInv
<1>2. /\ o.op \in Mutations /\ o.asg \in Assignments /\ Stop(p) /\ UNCHANGED effect
      /\ \A a \in Assignments : asg'[a].state # "none" => asg'[a].task = TheTask
      /\ \A a \in Assignments : asg'[a].state = "submitted" =>
           asg[a].state = "submitted" \/ (o.op = "callback" /\ a = o.asg)
      /\ \A a \in Assignments : LeaseIsLive(a)' =>
           \/ LeaseIsLive(a) /\ lease'[a].rev = lease[a].rev /\ sess'[a].rev = sess[a].rev
           \/ o.op = "dispatch" /\ lease'[a].rev = 1 /\ sess'[a].rev = 1
           \/ /\ o.op = "heartbeat" /\ a = o.asg /\ LeaseIsLive(a)
              /\ lease[a].rev = o.seen.lease.rev
              /\ lease'[a].rev = lease[a].rev + 1 /\ sess'[a].rev = sess[a].rev + 1
      /\ \A a \in Assignments : lease[a].rev <= lease'[a].rev
      /\ ~TheTaskIs({"backlog"})'
      /\ o.op \in {"failure", "verify", "expire", "cancel"} =>
           TheTaskIs({"done", "cancelled", "blocked"})'
      /\ o.op = "callback" => asg'[o.asg].state = "submitted"
      /\ o.op = "dispatch" => asg'[o.asg].state = "running"
  BY <1>1, CommitMakes DEF Commit
<1>3. /\ pend'[p].op = "idle" /\ \A q \in Procs \ {p} : pend'[q] = pend[q]
      /\ o.asg = On(p)
  BY <1>1, <1>2, StopMeans DEF Given, Mutations
<1>4. sup[p].at \in Commanding
  BY <1>2 DEF SupInv, PlaceInv
<1>5. /\ After(p) \in Places /\ After(p) \notin {"heartbeat", "report"}
      /\ "begin" \notin Anywhere
  BY <1>4, AfterPlaces, QuietPlaces DEF Anywhere, Ended
<1>6. /\ sup'[p].at = After(p) /\ (After(p) = "begin" => On(p)' = On(p))
      /\ \A q \in Supervisors \ {p} : sup'[q] = sup[q]
  BY <1>1, <1>5, GoHas DEF Commit
<1>7. commands \subseteq commands' /\ Command(p) \in commands'
  BY DEF Commit
<1>8. \A a \in Assignments : asg'[a].state = "submitted" => effect["provider"][a] # "none"
  BY <1>1, <1>2, <1>3 DEF WatchInv, ProviderInv, Given, Started
<1>9. ASSUME NEW a \in Assignments, LeaseIsLive(a)'
      PROVE  /\ lease'[a].rev >= 1 /\ sess'[a].rev = lease'[a].rev
             /\ \A i \in 1 .. (lease'[a].rev - 1) : <<"heartbeat", a, i>> \in commands'
  <2>1. lease[a].rev \in Nat
    BY <1>1, RevisionTypes
  <2>2. LeaseIsLive(a) =>
          /\ lease[a].rev >= 1 /\ sess[a].rev = lease[a].rev
          /\ \A i \in 1 .. (lease[a].rev - 1) : <<"heartbeat", a, i>> \in commands
    BY <1>1 DEF HeartbeatInv
  <2>3. CASE LeaseIsLive(a) /\ lease'[a].rev = lease[a].rev /\ sess'[a].rev = sess[a].rev
    BY <1>7, <2>2, <2>3
  <2>4. CASE lease'[a].rev = 1 /\ sess'[a].rev = 1
    BY <2>4
  <2>5. CASE /\ o.op = "heartbeat" /\ a = o.asg /\ LeaseIsLive(a)
             /\ lease[a].rev = o.seen.lease.rev
             /\ lease'[a].rev = lease[a].rev + 1 /\ sess'[a].rev = sess[a].rev + 1
    <3>1. sup[p].at = "heartbeat" /\ a = On(p)
      BY <1>1, <1>3, <2>5 DEF Given
    <3>2. o.seen.lease.rev = sup[p].rev
      BY <1>1, <2>5, <3>1 DEF HeartbeatInv, Beating
    <3>3. Command(p) = <<"heartbeat", a, lease[a].rev>>
      BY <2>5, <3>1, <3>2 DEF Command, On
    <3>4. \A i \in 1 .. lease[a].rev : i \in 1 .. (lease[a].rev - 1) \/ i = lease[a].rev
      BY <2>1
    <3>5. lease'[a].rev >= 1 /\ sess'[a].rev = lease'[a].rev /\ lease'[a].rev - 1 = lease[a].rev
      BY <2>1, <2>2, <2>5
    <3>6. \A i \in 1 .. lease[a].rev : <<"heartbeat", a, i>> \in commands'
      BY <1>7, <2>2, <2>5, <3>3, <3>4
    <3> QED BY <3>5, <3>6
  <2> QED BY <1>2, <1>9, <2>3, <2>4, <2>5
<1>10. Attended' \/ Cares(p)'
  <2>1. CASE o.op \in {"failure", "verify", "expire", "cancel"}
    BY <1>2, <2>1 DEF Attended
  <2>2. CASE o.op = "callback"
    <3>1. o.asg \in Live' /\ "provider" \in EffectKinds
      BY <1>2, <2>2 DEF Live, Of, IsLive, LiveAssignment, EffectKinds
    <3>2. effect'["provider"][o.asg] # "none"
      BY <1>2, <1>8, <2>2
    <3> QED BY <3>1, <3>2 DEF Attended
  <2>3. CASE o.op = "dispatch"
    <3>1. On(p) \in Live'
      BY <1>2, <1>3, <2>3 DEF Live, Of, IsLive, LiveAssignment
    <3>2. After(p) \in {"observe", "begin"}
      BY <1>1, <2>3 DEF Given, After
    <3> QED BY <1>6, <3>1, <3>2 DEF Cares
  <2>4. CASE o.op = "heartbeat"
    <3>1. After(p) = "observe"
      BY <1>1, <2>4 DEF Given, After
    <3> QED BY <1>6, <3>1 DEF Cares
  <2> QED BY <1>2, <2>1, <2>2, <2>3, <2>4 DEF Mutations
<1> HIDE DEF o
<1> QED
  BY <1>1, <1>2, <1>3, <1>5, <1>6, <1>8, <1>9, <1>10, MadeWatches

\* The operator and the clock: a cancellation ends the Task, nothing else is committed.
LEMMA EnvironmentWatches ==
    ASSUME SupInv, LaneInv', WatchInv, OperatorStep \/ Tick
    PROVE  WatchInv'
<1>1. Operator \in Procs /\ Operator \notin Supervisors /\ TypeOK /\ TypeOK' /\ TheTask \in Tasks
  BY ConfigAssumption DEF Supervisors, SupInv, SupTypeOK, LaneInv, ReadInv
<1>2. UNCHANGED <<sup, commands>>
  BY DEF OperatorStep, Tick, OnTheWay, supVars
<1>3. ASSUME UNCHANGED records, \A q \in Procs \ {Operator} : pend'[q] = pend[q],
             \A a \in Assignments : elapsed[a] => elapsed'[a],
             \A k \in EffectKinds, a \in Assignments :
                effect[k][a] # "none" => effect'[k][a] # "none",
             pend'[Operator].op \in Mutations => pend'[Operator].task = TheTask,
             pend'[Operator].op \in {"idle", "cancel"},
             TheTaskIs({"backlog"}) => Undisputed(Operator)'
      PROVE  WatchInv'
  BY <1>1, <1>2, <1>3, WatchHolds
<1>4. /\ pend[Operator].op \in {"idle", "cancel"}
      /\ pend[Operator].op \in Mutations => pend[Operator].task = TheTask
      /\ TheTaskIs({"backlog"}) =>
           pend[Operator].op = "idle" /\ \A a \in Assignments : asg[a].state = "none"
      /\ \A a \in Assignments : asg[a].state # "none" => asg[a].task = TheTask
  BY <1>1 DEF WatchInv, GivenInv, BacklogInv, Undisputed
<1>5. ASSUME NEW a \in Assignments, CancelRead(Operator, a) PROVE WatchInv'
  <2>1. /\ Prepare(Operator, "cancel", a, asg[a].task, asg[a].agent, FALSE, NoAssignment)
        /\ NothingStored /\ asg[a].state # "none"
    BY <1>5 DEF CancelRead
  <2>2. /\ pend'[Operator].op = "cancel" /\ pend'[Operator].task = TheTask
        /\ \A q \in Procs \ {Operator} : pend'[q] = pend[q]
    BY <1>1, <1>4, <2>1 DEF Prepare, TypeOK
  <2>3. ~TheTaskIs({"backlog"})
    BY <1>4, <2>1
  <2> QED BY <1>3, <2>1, <2>2, <2>3 DEF NothingStored
<1>6. CASE CancelCommit(Operator)
  <2> DEFINE o == pend[Operator]
  <2>1. o.op = "cancel"
    BY <1>6 DEF CancelCommit, Commits
  <2>2. /\ Stop(Operator) /\ UNCHANGED effect
        /\ \A a \in Assignments : asg'[a].state # "none" => asg'[a].task = TheTask
        /\ \A a \in Assignments : asg'[a].state = "submitted" => asg[a].state = "submitted"
        /\ \A a \in Assignments : LeaseIsLive(a)' =>
             LeaseIsLive(a) /\ lease'[a].rev = lease[a].rev /\ sess'[a].rev = sess[a].rev
        /\ \A a \in Assignments : lease[a].rev <= lease'[a].rev
        /\ ~TheTaskIs({"backlog"})'
        /\ TheTaskIs({"done", "cancelled", "blocked"})'
    BY <1>1, <1>6, <2>1, CommitMakes
  <2>3. pend'[Operator].op = "idle" /\ \A q \in Procs \ {Operator} : pend'[q] = pend[q]
    BY <1>1, <2>2, StopMeans
  <2>4. \A a \in Assignments : LeaseIsLive(a)' =>
          /\ lease'[a].rev >= 1 /\ sess'[a].rev = lease'[a].rev
          /\ \A i \in 1 .. (lease'[a].rev - 1) : <<"heartbeat", a, i>> \in commands'
    BY <1>2, <2>2 DEF WatchInv, HeartbeatInv
  <2>5. \A a \in Assignments : asg'[a].state = "submitted" => effect["provider"][a] # "none"
    BY <2>2 DEF WatchInv, ProviderInv
  <2>6. Attended'
    BY <2>2 DEF Attended
  <2> HIDE DEF o
  <2> QED BY <1>1, <1>2, <2>2, <2>3, <2>4, <2>5, <2>6, MadeWatches
<1>7. CASE Conflict(Operator)
  <2>1. pend'[Operator].op = "idle" /\ \A q \in Procs \ {Operator} : pend'[q] = pend[q]
    BY <1>1, <1>7, StopMeans DEF Conflict
  <2> QED BY <1>3, <1>7, <2>1 DEF Conflict, NothingStored, Mutations, Undisputed
<1>8. ASSUME NEW k \in EffectKinds, NEW a \in Assignments, EffectReconcile(k, a) PROVE WatchInv'
  <2>1. /\ UNCHANGED <<records, elapsed, pend>>
        /\ effect' = [effect EXCEPT ![k][a] = "failed"]
    BY <1>8 DEF EffectReconcile
  <2>2. \A l \in EffectKinds, b \in Assignments :
           effect[l][b] # "none" => effect'[l][b] # "none"
    BY <1>1, <2>1 DEF TypeOK
  <2> QED BY <1>3, <1>4, <2>1, <2>2 DEF Undisputed
<1>9. CASE Tick
  <2>1. /\ UNCHANGED <<records, effect, pend>>
        /\ \A a \in Assignments : elapsed[a] => elapsed'[a]
    BY <1>1, <1>9 DEF Tick, Elapse, TypeOK
  <2> QED BY <1>3, <1>4, <2>1 DEF Undisputed
<1> QED
  BY <1>5, <1>6, <1>7, <1>8, <1>9 DEF OperatorStep

\* WatchInv is preserved by every step.
LEMMA WatchInvStep ==
    ASSUME SupInv, WatchInv, [SupNext]_allVars, MixedVerify = FALSE
    PROVE  WatchInv'
<1>1. LaneInv'
  BY SupNextIsNext, LaneInvStep DEF SupInv
<1>2. ASSUME UNCHANGED allVars PROVE WatchInv'
  <2>1. UNCHANGED <<records, elapsed, effect, pend, commands, sup>>
    BY <1>2 DEF allVars, vars, supVars, records
  <2>2. Operator \in Procs /\ Operator \notin Supervisors
    BY ConfigAssumption DEF Supervisors
  <2>3. /\ pend[Operator].op \in {"idle", "cancel"}
        /\ pend[Operator].op \in Mutations => pend[Operator].task = TheTask
        /\ TheTaskIs({"backlog"}) => pend[Operator].op = "idle"
    BY <2>2 DEF WatchInv, GivenInv, BacklogInv, Undisputed
  <2> QED BY <2>1, <2>2, <2>3, WatchHolds DEF Undisputed
<1>3. ASSUME NEW p \in Supervisors, SupStep(p) PROVE WatchInv'
  BY <1>1, <1>3, ChoiceWatches, CommandWatches, EffectWatches, CommitWatches DEF SupStep
<1>4. ASSUME NEW p \in Supervisors, Killed(p) PROVE WatchInv'
  BY <1>4, EffectWatches
<1>5. ASSUME OperatorStep \/ Tick PROVE WatchInv'
  BY <1>1, <1>5, EnvironmentWatches
<1> QED
  BY <1>2, <1>3, <1>4, <1>5 DEF SupNext

\* WatchInv holds at the start.
LEMMA WatchStarts ==
    ASSUME SupInit
    PROVE  WatchInv
<1>1. Idle.op = "idle" /\ None.state = "none" /\ NoneAsg.state = "none"
  BY DEF Idle, Waiting, None, NoneAsg
<1>2. /\ Operator \in Procs /\ TheTask \in Tasks
      /\ \A p \in Procs : pend[p].op = "idle"
      /\ \A a \in Assignments : asg[a].state = "none" /\ ~LeaseIsLive(a)
      /\ \A p \in Supervisors : p \in Procs /\ sup[p].at = "observe"
  BY <1>1, ConfigAssumption DEF SupInit, Init, LeaseIsLive, LiveLease, Supervisors
<1>3. GivenInv
  BY <1>2 DEF GivenInv, Given, Mutations
<1>4. HeartbeatInv
  BY <1>2 DEF HeartbeatInv, Beating
<1>5. ProviderInv
  BY <1>2 DEF ProviderInv, Started
<1>6. BacklogInv
  BY <1>2 DEF BacklogInv, Undisputed, Opening
<1>7. CareInv
  BY <1>2 DEF CareInv, SupInit, Init, NewTask, TheTaskIs
<1> QED
  BY <1>3, <1>4, <1>5, <1>6, <1>7 DEF WatchInv

\* If there is a Supervisor at all, then however many there are, whatever they replay or
\* lose to each other, and whenever the clock elapses and the operator cancels: once all have
\* ended and none was killed, the Task has ended or is blocked, or something is left that
\* the owner has to see, or one of them has asked for a clarification or its configuration.
THEOREM NobodyAbandons ==
    ASSUME MixedVerify = FALSE, Supervisors # {}
    PROVE  SupSpec => []NotAbandoned
<1>1. SupInit => WatchInv
  BY WatchStarts
<1>2. SupInv /\ WatchInv /\ [SupNext]_allVars => WatchInv'
  BY WatchInvStep
<1>3. WatchInv => NotAbandoned
  <2> SUFFICES ASSUME WatchInv, \A p \in Supervisors : sup[p].at \in Ended \ {"killed"},
                      \A p \in Supervisors : sup[p].at # "asks"
               PROVE  Attended
    BY DEF NotAbandoned
  <2>1. \A p \in Supervisors : ~Cares(p)
    BY DEF Cares, Ended
  <2>2. TheTaskIs({"backlog"}) => \A p \in Supervisors : Opening(p)
    BY DEF WatchInv, BacklogInv
  <2>3. ~TheTaskIs({"backlog"})
    BY <2>2 DEF Opening, Ended
  <2> QED BY <2>1, <2>3 DEF WatchInv, CareInv
<1> QED
  BY <1>1, <1>2, <1>3, SupHoldsAlways, PTL DEF SupSpec

=============================================================================
