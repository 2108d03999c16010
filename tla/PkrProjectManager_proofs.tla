---------------------- MODULE PkrProjectManager_proofs ----------------------
(***************************************************************************)
(* Proofs about PkrProjectManager, for any number of processes, milestones *)
(* and days.                                                               *)
(***************************************************************************)
EXTENDS PkrProjectManager, TLAPS

-----------------------------------------------------------------------------
(* The places and their order.                                             *)

LEMMA Bootstraps ==
    Bootstrapping = {"mkdir", "files", "init", "decide", "goal", "month", "day",
                     "verification", "commit"}
BY DEF Bootstrapping, BootstrapOrder

LEMMA Plannings ==
    Planning = {"rebuild", "list", "phases", "configuration", "sequence", "digest",
                "write"}
BY DEF Planning, PlanOrder

\* Each place is once in its order.
LEMMA FollowingIs ==
    ASSUME NEW order, NEW i \in DOMAIN order, NEW place, order[i] = place,
           \A j \in DOMAIN order : order[j] = place => j = i
    PROVE  Following(order, place) = order[1 + i]
BY DEF Following

LEMMA AfterIs ==
    /\ After("mkdir") = "files" /\ After("files") = "init" /\ After("init") = "decide"
    /\ After("decide") = "goal" /\ After("goal") = "month" /\ After("month") = "day"
    /\ After("day") = "verification" /\ After("verification") = "commit"
    /\ After("commit") = "rebuild"
    /\ After("rebuild") = "list" /\ After("list") = "phases"
    /\ After("phases") = "configuration" /\ After("configuration") = "sequence"
    /\ After("sequence") = "digest" /\ After("digest") = "write"
    /\ After("write") = "idle"
<1>1. \A i \in 1..8 : /\ i \in DOMAIN BootstrapOrder
                      /\ \A j \in DOMAIN BootstrapOrder :
                           BootstrapOrder[j] = BootstrapOrder[i] => j = i
  BY DEF BootstrapOrder
<1>2. \A i \in 1..8 : Following(BootstrapOrder, BootstrapOrder[i]) = BootstrapOrder[1 + i]
  BY <1>1, FollowingIs
<1>3. \A i \in 1..6 : /\ i \in DOMAIN PlanOrder
                      /\ \A j \in DOMAIN PlanOrder : PlanOrder[j] = PlanOrder[i] => j = i
  BY DEF PlanOrder
<1>4. \A i \in 1..6 : Following(PlanOrder, PlanOrder[i]) = PlanOrder[1 + i]
  BY <1>3, FollowingIs
<1>5. /\ Following(BootstrapOrder, "mkdir") = "files"
      /\ Following(BootstrapOrder, "files") = "init"
      /\ Following(BootstrapOrder, "init") = "decide"
      /\ Following(BootstrapOrder, "decide") = "goal"
      /\ Following(BootstrapOrder, "goal") = "month"
      /\ Following(BootstrapOrder, "month") = "day"
      /\ Following(BootstrapOrder, "day") = "verification"
      /\ Following(BootstrapOrder, "verification") = "commit"
  <2>1. /\ BootstrapOrder[1] = "mkdir" /\ BootstrapOrder[2] = "files"
        /\ BootstrapOrder[3] = "init" /\ BootstrapOrder[4] = "decide"
        /\ BootstrapOrder[5] = "goal" /\ BootstrapOrder[6] = "month"
        /\ BootstrapOrder[7] = "day" /\ BootstrapOrder[8] = "verification"
        /\ BootstrapOrder[9] = "commit"
    BY DEF BootstrapOrder
  <2>2. /\ Following(BootstrapOrder, BootstrapOrder[1]) = BootstrapOrder[2]
        /\ Following(BootstrapOrder, BootstrapOrder[2]) = BootstrapOrder[3]
        /\ Following(BootstrapOrder, BootstrapOrder[3]) = BootstrapOrder[4]
        /\ Following(BootstrapOrder, BootstrapOrder[4]) = BootstrapOrder[5]
        /\ Following(BootstrapOrder, BootstrapOrder[5]) = BootstrapOrder[6]
        /\ Following(BootstrapOrder, BootstrapOrder[6]) = BootstrapOrder[7]
        /\ Following(BootstrapOrder, BootstrapOrder[7]) = BootstrapOrder[8]
        /\ Following(BootstrapOrder, BootstrapOrder[8]) = BootstrapOrder[9]
    BY <1>2
  <2> QED
    BY <2>1, <2>2
<1>6. /\ Following(PlanOrder, "rebuild") = "list"
      /\ Following(PlanOrder, "list") = "phases"
      /\ Following(PlanOrder, "phases") = "configuration"
      /\ Following(PlanOrder, "configuration") = "sequence"
      /\ Following(PlanOrder, "sequence") = "digest"
      /\ Following(PlanOrder, "digest") = "write"
  <2>1. /\ PlanOrder[1] = "rebuild" /\ PlanOrder[2] = "list" /\ PlanOrder[3] = "phases"
        /\ PlanOrder[4] = "configuration" /\ PlanOrder[5] = "sequence"
        /\ PlanOrder[6] = "digest" /\ PlanOrder[7] = "write"
    BY DEF PlanOrder
  <2>2. /\ Following(PlanOrder, PlanOrder[1]) = PlanOrder[2]
        /\ Following(PlanOrder, PlanOrder[2]) = PlanOrder[3]
        /\ Following(PlanOrder, PlanOrder[3]) = PlanOrder[4]
        /\ Following(PlanOrder, PlanOrder[4]) = PlanOrder[5]
        /\ Following(PlanOrder, PlanOrder[5]) = PlanOrder[6]
        /\ Following(PlanOrder, PlanOrder[6]) = PlanOrder[7]
    BY <1>4
  <2> QED
    BY <2>1, <2>2
<1> QED
  BY <1>5, <1>6, Bootstraps DEF After

-----------------------------------------------------------------------------
(* The invariant, as one of each process, of the project and of the plan.  *)

OfProcess(m, d) ==
    /\ m.created =>
         /\ d.here /\ d.fate = "working"
         /\ m.at \in (Bootstrapping \ {"mkdir"}) \cup Planning
         /\ Passed(m.at, {"decide", "goal", "month", "day", "verification", "commit"}) => d.store
         /\ Passed(m.at, {"goal", "month", "day", "verification", "commit"}) => d.decision
         /\ Passed(m.at, {"month", "day", "verification", "commit"}) => d.goal
         /\ Passed(m.at, {"day", "verification", "commit"}) => MonthTasks \subseteq d.tasks
         /\ Passed(m.at, {"verification", "commit"}) => d.tasks = PlanTasks
         /\ Passed(m.at, {"commit"}) => d.verification
         /\ Passed(m.at, {}) => d.commit
    /\ m.at \in Bootstrapping \ {"mkdir"} => m.created
    /\ m.at \in Planning => d.store
    /\ m.at \notin {"phases", "configuration", "sequence", "digest", "write", "orphan",
                   "bare"} =>
         m.list = {} /\ m.phases = {}
    /\ m.at \in {"configuration", "sequence", "digest", "write"} =>
         MonthTasks \subseteq m.list
    /\ MonthsFirst(m.list)
    /\ m.at \notin {"orphan", "bare"} => m.list \subseteq d.tasks /\ m.phases \subseteq d.moved
    /\ m.at \in {"digest", "write", "orphan", "bare"} =>
         m.list \subseteq m.truth.tasks /\ m.phases \subseteq m.truth.moved
    /\ m.at = "digest" => m.seq <= d.seq
    /\ m.at \in {"write", "orphan", "bare"} => m.seq <= m.digest

OfProject(d) ==
    /\ d.store => d.here /\ d.fate # "none"
    /\ d.fate = "done" =>
         /\ d.here /\ d.store /\ d.tasks = PlanTasks
         /\ d.decision /\ d.goal /\ d.verification /\ d.commit
    /\ MonthsFirst(d.tasks)

OfPlan(r) ==
    /\ MonthTasks \subseteq r.tasks
    /\ r.tasks \subseteq r.truth.tasks /\ r.moved \subseteq r.truth.moved
    /\ r.seq <= r.digest

LEMMA ManagerInvMeans ==
    ASSUME ManagerInv
    PROVE  /\ TypeOK
           /\ \A p \in Procs : OfProcess(proc[p], project)
           /\ \A p, q \in Procs : proc[p].created /\ proc[q].created => p = q
           /\ project.fate = "working" => \E p \in Procs : proc[p].created
           /\ OfProject(project)
           /\ plan # << >> => OfPlan(plan[1])
<1>1. TypeOK /\ MonthsFirst(project.tasks) /\ (plan # << >> => OfPlan(plan[1]))
  BY DEF ManagerInv, PlanHasEveryMonth, PlanNotNewer, OfPlan
<1>2. \A p, q \in Procs : proc[p].created /\ proc[q].created => p = q
  BY DEF ManagerInv, OneMaker
<1>3. project.fate = "working" => \E p \in Procs : proc[p].created
  BY DEF ManagerInv, OneMaker
<1>4. OfProject(project)
  BY <1>1 DEF ManagerInv, OneMaker, DoneIsComplete, Complete, OfProject
<1>5. \A p \in Procs : OfProcess(proc[p], project)
  <2>1. OneMaker /\ Progress /\ PlanReads
    BY DEF ManagerInv
  <2> QED
    BY <2>1 DEF OneMaker, Progress, PlanReads, OfProcess, At
<1> QED
  BY <1>1, <1>2, <1>3, <1>4, <1>5

LEMMA ManagerInvHolds ==
    ASSUME TypeOK,
           \A p \in Procs : OfProcess(proc[p], project),
           \A p, q \in Procs : proc[p].created /\ proc[q].created => p = q,
           project.fate = "working" => \E p \in Procs : proc[p].created,
           OfProject(project),
           plan # << >> => OfPlan(plan[1])
    PROVE  ManagerInv
<1>1. PlanHasEveryMonth /\ PlanNotNewer
  BY DEF PlanHasEveryMonth, PlanNotNewer, OfPlan
<1>2. OneMaker
  BY DEF OneMaker, OfProcess, OfProject
<1>3. Progress
  BY DEF Progress, OfProcess
<1>4. PlanReads
  BY DEF PlanReads, OfProcess, At
<1>5. DoneIsComplete /\ MonthsFirst(project.tasks)
  BY DEF DoneIsComplete, Complete, OfProject
<1>6. NoFailedProject
  <2>1. project.fate \in {"none", "working", "killed", "done"}
    BY DEF TypeOK, Projects
  <2> QED
    BY <2>1 DEF NoFailedProject, OfProject
<1> QED
  BY <1>1, <1>2, <1>3, <1>4, <1>5, <1>6 DEF ManagerInv

LEMMA ManagerInvHoldsNext ==
    ASSUME TypeOK',
           \A p \in Procs : OfProcess(proc'[p], project'),
           \A p, q \in Procs : proc'[p].created /\ proc'[q].created => p = q,
           project'.fate = "working" => \E p \in Procs : proc'[p].created,
           OfProject(project'),
           plan' # << >> => OfPlan(plan'[1])
    PROVE  ManagerInv'
<1>1. (PlanHasEveryMonth /\ PlanNotNewer)'
  BY DEF PlanHasEveryMonth, PlanNotNewer, OfPlan
<1>2. OneMaker'
  BY DEF OneMaker, OfProcess, OfProject
<1>3. Progress'
  BY DEF Progress, OfProcess
<1>4. PlanReads'
  BY DEF PlanReads, OfProcess, At
<1>5. (DoneIsComplete /\ MonthsFirst(project.tasks))'
  BY DEF DoneIsComplete, Complete, OfProject
<1>6. NoFailedProject'
  <2>1. project'.fate \in {"none", "working", "killed", "done"}
    BY DEF TypeOK, Projects
  <2> QED
    BY <2>1 DEF NoFailedProject, OfProject
<1> QED
  BY <1>1, <1>2, <1>3, <1>4, <1>5, <1>6 DEF ManagerInv

\* The fields of a project and of a process.
LEMMA ProjectType ==
    ASSUME NEW d \in Projects
    PROVE  /\ d.here \in BOOLEAN /\ d.store \in BOOLEAN /\ d.decision \in BOOLEAN
           /\ d.goal \in BOOLEAN /\ d.tasks \subseteq PlanTasks /\ d.moved \subseteq PlanTasks
           /\ d.verification \in BOOLEAN /\ d.commit \in BOOLEAN /\ d.seq \in Nat
           /\ d.fate \in {"none", "working", "killed", "done"}
BY DEF Projects

LEMMA ProcessType ==
    ASSUME NEW m \in Processes
    PROVE  /\ m.at \in Bootstrapping \cup Planning \cup {"idle", "orphan", "bare"}
           /\ m.created \in BOOLEAN /\ m.list \subseteq PlanTasks /\ m.read \subseteq PlanTasks
           /\ m.phases \subseteq PlanTasks /\ m.seq \in Nat /\ m.truth \in Truths
           /\ m.digest \in Nat
           /\ m.truth.tasks \subseteq PlanTasks /\ m.truth.moved \subseteq PlanTasks
BY DEF Processes, Truths

LEMMA IdleType ==
    /\ Idle \in Processes /\ Idle.at = "idle" /\ ~Idle.created
    /\ Idle.list = {} /\ Idle.phases = {}
<1>1. NoTruth \in Truths
  BY DEF NoTruth, Truths
<1> QED
  BY <1>1 DEF Idle, Processes

\* A plan that an accepted list makes.
LEMMA PlanOfIs ==
    ASSUME NEW m \in Processes, m.list \subseteq m.truth.tasks, m.phases \subseteq m.truth.moved,
           m.seq <= m.digest, MonthTasks \subseteq m.list
    PROVE  PlanOf(m) \in Plans /\ OfPlan(PlanOf(m))
BY ProcessType DEF PlanOf, Plans, OfPlan

\* Whoever is in these places is none of the project's business.
Loose(m) ==
    /\ ~m.created /\ m.at \in {"idle", "orphan", "bare", "mkdir"} /\ MonthsFirst(m.list)
    /\ m.at \in {"idle", "mkdir"} => m.list = {} /\ m.phases = {}
    /\ m.at \in {"orphan", "bare"} =>
         m.list \subseteq m.truth.tasks /\ m.phases \subseteq m.truth.moved /\ m.seq <= m.digest

LEMMA Outside ==
    ASSUME NEW m, Loose(m), NEW d
    PROVE  OfProcess(m, d)
BY Bootstraps, Plannings DEF OfProcess, Loose

LEMMA IdleIsLoose == Loose(Idle)
BY IdleType DEF Idle, Loose, MonthsFirst

LEMMA LooseOnes ==
    ASSUME NEW m, NEW d, OfProcess(m, d), ~m.created,
           m.at \in {"idle", "orphan", "bare", "mkdir"}
    PROVE  Loose(m)
BY DEF OfProcess, Loose

\* The project only grows: what a process relies on stays.
Grows(d, e) ==
    /\ e.here = d.here /\ e.fate = d.fate
    /\ (d.store => e.store) /\ (d.decision => e.decision) /\ (d.goal => e.goal)
    /\ (d.verification => e.verification) /\ (d.commit => e.commit)
    /\ d.tasks \subseteq e.tasks /\ d.moved \subseteq e.moved
    /\ d.store => d.seq <= e.seq

LEMMA GrowthHurtsNobody ==
    ASSUME NEW m \in Processes, NEW d \in Projects, NEW e \in Projects, Grows(d, e),
           OfProcess(m, d)
    PROVE  OfProcess(m, e)
<1>1. e.tasks \subseteq PlanTasks /\ d.seq \in Nat /\ e.seq \in Nat /\ m.seq \in Nat
  BY ProjectType, ProcessType
<1>2. m.at = "digest" => m.seq <= e.seq
  BY <1>1, Plannings DEF OfProcess, Grows
<1> QED
  BY <1>1, <1>2 DEF OfProcess, Grows

\* A step of p, which stays who made the directory or who did not.
LEMMA StepKeeps ==
    ASSUME ManagerInv, NEW p \in Procs, NEW n \in Processes, NEW e \in Projects,
           project' = e, proc' = [proc EXCEPT ![p] = n], work' \in 0..MaxWork,
           Grows(project, e), n.created = proc[p].created, OfProcess(n, e), OfProject(e),
           \/ plan' = plan \/ plan' = << >>
           \/ plan' = <<plan'[1]>> /\ plan'[1] \in Plans /\ OfPlan(plan'[1])
    PROVE  ManagerInv'
<1>1. /\ TypeOK
      /\ \A q \in Procs : OfProcess(proc[q], project)
      /\ \A q, r \in Procs : proc[q].created /\ proc[r].created => q = r
      /\ project.fate = "working" => \E q \in Procs : proc[q].created
      /\ plan # << >> => OfPlan(plan[1])
  BY ManagerInvMeans
<1>2. /\ proc \in [Procs -> Processes] /\ proc' \in [Procs -> Processes] /\ proc'[p] = n
      /\ \A q \in Procs \ {p} : proc'[q] = proc[q]
  BY <1>1 DEF TypeOK
<1>3. \A q \in Procs : proc'[q].created = proc[q].created
  BY <1>2
<1>4. \A q \in Procs : OfProcess(proc'[q], project')
  BY <1>1, <1>2, GrowthHurtsNobody DEF TypeOK
<1>5. plan' # << >> => OfPlan(plan'[1])
  BY <1>1
<1>6. TypeOK'
  BY <1>1, <1>2 DEF TypeOK
<1>7. \A q, r \in Procs : proc'[q].created /\ proc'[r].created => q = r
  BY <1>1, <1>3
<1>8. project'.fate = "working" => \E q \in Procs : proc'[q].created
  BY <1>1, <1>3 DEF Grows
<1> QED
  BY <1>4, <1>5, <1>6, <1>7, <1>8, ManagerInvHoldsNext

\* What the invariant says of p and the rest.
LEMMA OfP ==
    ASSUME ManagerInv, NEW p \in Procs
    PROVE  /\ proc[p] \in Processes /\ project \in Projects /\ work \in 0..MaxWork
           /\ proc \in [Procs -> Processes]
           /\ OfProcess(proc[p], project) /\ OfProject(project)
           /\ Grows(project, project)
<1>1. proc[p] \in Processes /\ project \in Projects
  BY ManagerInvMeans DEF TypeOK
<1>2. project.seq <= project.seq
  BY <1>1, ProjectType
<1> QED
  BY <1>1, <1>2, ManagerInvMeans DEF TypeOK, Grows

\* A step of p in which it only moves on.
LEMMA GoKeeps ==
    ASSUME ManagerInv, NEW p \in Procs, NEW place, Goes(p, place),
           project' = project, plan' \in {plan, << >>}, work' = work,
           place \in Bootstrapping \cup Planning \cup {"idle", "orphan", "bare"},
           OfProcess([proc[p] EXCEPT !.at = place], project)
    PROVE  ManagerInv'
<1> DEFINE n == [proc[p] EXCEPT !.at = place]
<1>1. n \in Processes /\ n.created = proc[p].created
  BY OfP DEF Processes
<1>2. proc' = [proc EXCEPT ![p] = n]
  BY DEF Goes
<1>3. OfProcess(n, project)
  OBVIOUS
<1> HIDE DEF n
<1> QED
  BY <1>1, <1>2, <1>3, OfP, StepKeeps

\* p is idle again, who did not make the directory.
LEMMA EndKeeps ==
    ASSUME ManagerInv, NEW p \in Procs, ~proc[p].created, Ends(p),
           NEW e \in Projects, project' = e, Grows(project, e), OfProject(e),
           work' = work,
           \/ plan' = plan \/ plan' = << >>
           \/ plan' = <<plan'[1]>> /\ plan'[1] \in Plans /\ OfPlan(plan'[1])
    PROVE  ManagerInv'
<1>1. proc' = [proc EXCEPT ![p] = Idle] /\ proc[p].created = FALSE
  BY OfP, ProcessType DEF Ends
<1>2. OfProcess(Idle, e) /\ Idle.created = FALSE
  BY IdleType, IdleIsLoose, Outside DEF Processes
<1> QED
  BY <1>1, <1>2, IdleType, OfP, StepKeeps

-----------------------------------------------------------------------------
(* The steps of a bootstrap.                                               *)

LEMMA StartBootstrapKeeps ==
    ASSUME ManagerInv, NEW p \in Procs, StartBootstrap(p)
    PROVE  ManagerInv'
<1> DEFINE n == [proc[p] EXCEPT !.at = "mkdir"]
<1>1. proc[p] \in Processes /\ proc[p].at = "idle" /\ OfProcess(proc[p], project)
  BY OfP DEF StartBootstrap, At
<1>2. ~proc[p].created
  BY <1>1, Bootstraps, Plannings DEF OfProcess
<1>3. Loose(n)
  BY <1>1, <1>2 DEF Processes, OfProcess, Loose, MonthsFirst
<1> HIDE DEF n
<1>4. OfProcess(n, project)
  BY <1>3, Outside
<1> QED
  BY <1>4, GoKeeps, Bootstraps DEF n, StartBootstrap

\* Who is in the bootstrap has made the directory; who is not has not.
LEMMA Makers ==
    ASSUME ManagerInv, NEW p \in Procs
    PROVE  /\ proc[p].at \in Bootstrapping \ {"mkdir"} => proc[p].created
           /\ proc[p].at \in {"idle", "orphan", "bare", "mkdir"} => ~proc[p].created
           /\ proc[p].created => /\ project.fate = "working" /\ project.here
                                 /\ \A q \in Procs : proc[q].created => q = p
           /\ project.here = FALSE => \A q \in Procs : proc[q].at \notin Planning
BY OfP, ManagerInvMeans, Bootstraps, Plannings DEF OfProcess, OfProject

LEMMA MakeDirKeeps ==
    ASSUME ManagerInv, NEW p \in Procs, MakeDir(p)
    PROVE  ManagerInv'
<1>1. /\ proc[p] \in Processes /\ proc[p].at = "mkdir" /\ ~proc[p].created
      /\ plan' = plan /\ work' = work /\ project \in Projects
  BY OfP, Makers DEF MakeDir, At
<1>2. CASE project.here /\ Ends(p) /\ UNCHANGED project
  BY <1>1, <1>2, OfP, EndKeeps
<1>3. CASE /\ ~project.here
           /\ project' = [Nowhere EXCEPT !.here = TRUE, !.fate = "working"]
           /\ proc' = [proc EXCEPT ![p].at = After("mkdir"), ![p].created = TRUE]
  <2> DEFINE e == [Nowhere EXCEPT !.here = TRUE, !.fate = "working"]
             n == [proc[p] EXCEPT !.at = "files", !.created = TRUE]
  <2>1. /\ e \in Projects /\ e.here /\ e.fate = "working" /\ e.store = FALSE /\ e.tasks = {}
    BY DEF Nowhere, Projects
  <2>2. n \in Processes /\ n.at = "files" /\ n.created /\ n.list = {} /\ n.phases = {}
    <3>1. proc[p].list = {} /\ proc[p].phases = {}
      BY <1>1, OfP DEF OfProcess
    <3> QED
      BY <1>1, <3>1, Bootstraps DEF Processes
  <2>3. proc' = [proc EXCEPT ![p] = n]
    BY <1>3, AfterIs
  <2> HIDE DEF n, e
  <2>4. project' = e
    BY <1>3 DEF e
  <2>5. /\ TypeOK /\ proc \in [Procs -> Processes]
        /\ plan # << >> => OfPlan(plan[1])
    BY ManagerInvMeans DEF TypeOK
  <2>6. /\ proc' \in [Procs -> Processes] /\ proc'[p] = n
        /\ \A q \in Procs \ {p} : proc'[q] = proc[q]
    BY <2>2, <2>3, <2>5
  <2>7. TypeOK'
    BY <1>1, <2>1, <2>4, <2>5, <2>6 DEF TypeOK
  <2>8. OfProcess(n, e)
    BY <2>1, <2>2, Bootstraps, Plannings DEF OfProcess, Passed, MonthsFirst
  <2>9. \A q \in Procs : ~proc[q].created /\ Loose(proc[q])
    <3>1. ASSUME NEW q \in Procs
          PROVE  ~proc[q].created /\ Loose(proc[q])
      <4>1. ~proc[q].created /\ proc[q].at \notin Planning
        BY <1>3, ManagerInvMeans, Makers DEF OfProcess, OfProject
      <4>2. proc[q].at \in {"idle", "orphan", "bare", "mkdir"}
        BY <4>1, OfP, ProcessType, Makers
      <4> QED
        BY <4>1, <4>2, OfP, LooseOnes
    <3> QED
      BY <3>1
  <2>10. \A q \in Procs : OfProcess(proc'[q], project')
    BY <2>4, <2>6, <2>8, <2>9, Outside
  <2>11. OfProject(project')
    BY <2>1, <2>4 DEF OfProject, MonthsFirst
  <2>12. \A q, r \in Procs : proc'[q].created /\ proc'[r].created => q = r
    BY <2>6, <2>9
  <2> QED
    BY <1>1, <2>2, <2>5, <2>6, <2>7, <2>10, <2>11, <2>12, ManagerInvHoldsNext
<1> QED
  BY <1>2, <1>3 DEF MakeDir

\* The maker goes from one place to the next, and the project grows by what it has done.
LEMMA MakerGoes ==
    ASSUME ManagerInv, NEW p \in Procs, proc[p].at \in Bootstrapping \ {"mkdir"},
           NEW place \in (Bootstrapping \ {"mkdir"}) \cup {"rebuild"}, Goes(p, place),
           NEW e \in Projects, project' = e, Grows(project, e),
           plan' \in {plan, << >>}, work' = work, MonthsFirst(e.tasks),
           Passed(place, {"decide", "goal", "month", "day", "verification", "commit"}) => e.store,
           Passed(place, {"goal", "month", "day", "verification", "commit"}) => e.decision,
           Passed(place, {"month", "day", "verification", "commit"}) => e.goal,
           Passed(place, {"day", "verification", "commit"}) => MonthTasks \subseteq e.tasks,
           Passed(place, {"verification", "commit"}) => e.tasks = PlanTasks,
           Passed(place, {"commit"}) => e.verification,
           Passed(place, {}) => e.commit
    PROVE  ManagerInv'
<1> DEFINE n == [proc[p] EXCEPT !.at = place]
<1>1. /\ proc[p] \in Processes /\ OfProcess(proc[p], project) /\ proc[p].created
      /\ project.here /\ project.fate = "working"
  BY OfP, Makers
<1>2. proc[p].list = {} /\ proc[p].phases = {}
  BY <1>1, Bootstraps DEF OfProcess
<1>3. /\ n \in Processes /\ n.at = place /\ n.created /\ n.created = proc[p].created
      /\ n.list = {} /\ n.phases = {}
  BY <1>1, <1>2, Plannings DEF Processes
<1>4. proc' = [proc EXCEPT ![p] = n]
  BY DEF Goes
<1> HIDE DEF n
<1>5. OfProcess(n, e)
  <2>1. e.here /\ e.fate = "working"
    BY <1>1 DEF Grows
  <2>2. n.at \notin {"phases", "configuration", "sequence", "digest", "write", "orphan", "bare"}
    BY <1>3, Bootstraps
  <2>3. n.at \in Planning => e.store
    BY <1>3 DEF Passed
  <2>4. MonthsFirst(n.list)
    BY <1>3 DEF MonthsFirst
  <2>5. n.at \in (Bootstrapping \ {"mkdir"}) \cup Planning
    BY <1>3, Plannings
  <2> QED
    BY <1>3, <2>1, <2>2, <2>3, <2>4, <2>5 DEF OfProcess
<1>6. OfProject(e)
  BY <1>1 DEF OfProject, Grows
<1> QED
  BY <1>3, <1>4, <1>5, <1>6, OfP, StepKeeps

\* What the maker at a place can count on.
LEMMA OfMaker ==
    ASSUME ManagerInv, NEW p \in Procs, proc[p].at \in Bootstrapping \ {"mkdir"}
    PROVE  /\ project \in Projects /\ MonthsFirst(project.tasks) /\ Grows(project, project)
           /\ proc[p].at \notin {"files", "init"} => project.store
           /\ proc[p].at \notin {"files", "init", "decide"} => project.decision
           /\ proc[p].at \notin {"files", "init", "decide", "goal"} => project.goal
           /\ proc[p].at \in {"day", "verification", "commit"} => MonthTasks \subseteq project.tasks
           /\ proc[p].at \in {"verification", "commit"} => project.tasks = PlanTasks
           /\ proc[p].at = "commit" => project.verification
           /\ proc[p] \in Processes
<1>1. OfProcess(proc[p], project) /\ proc[p].created /\ OfProject(project)
  BY OfP, Makers
<1> QED
  BY <1>1, OfP, Bootstraps DEF OfProcess, OfProject, Passed

LEMMA FilesKeeps ==
    ASSUME ManagerInv, NEW p \in Procs, Files(p)
    PROVE  ManagerInv'
<1>1. /\ proc[p].at = "files" /\ Goes(p, "init") /\ project' = project /\ plan' = plan
      /\ work' = work
  BY AfterIs DEF Files, At
<1>2. proc[p].at \in Bootstrapping \ {"mkdir"} /\ "init" \in Bootstrapping \ {"mkdir"}
  BY <1>1, Bootstraps
<1> QED
  BY <1>1, <1>2, OfMaker, MakerGoes, Plannings DEF Passed

LEMMA InitRuntimeKeeps ==
    ASSUME ManagerInv, NEW p \in Procs, InitRuntime(p)
    PROVE  ManagerInv'
<1> DEFINE e == [project EXCEPT !.store = TRUE, !.seq = 1]
<1>1. /\ proc[p].at = "init" /\ Goes(p, "decide") /\ project' = e /\ plan' = << >>
      /\ work' = work /\ ~project.store
  BY AfterIs DEF InitRuntime, At, Commits
<1>2. proc[p].at \in Bootstrapping \ {"mkdir"} /\ "decide" \in Bootstrapping \ {"mkdir"}
  BY <1>1, Bootstraps
<1>3. /\ project \in Projects /\ MonthsFirst(project.tasks)
  BY <1>2, OfMaker
<1>4. e \in Projects /\ e.store /\ Grows(project, e) /\ e.tasks = project.tasks
  BY <1>1, <1>3 DEF Projects, Grows
<1> HIDE DEF e
<1> QED
  BY <1>1, <1>2, <1>3, <1>4, MakerGoes, Plannings DEF Passed

LEMMA DecideKeeps ==
    ASSUME ManagerInv, NEW p \in Procs, Decide(p)
    PROVE  ManagerInv'
<1> DEFINE e == [project EXCEPT !.decision = TRUE, !.seq = @ + 1]
<1>1. /\ proc[p].at = "decide" /\ Goes(p, "goal") /\ project' = e /\ plan' = << >>
      /\ work' = work
  BY AfterIs DEF Decide, At, Commits
<1>2. proc[p].at \in Bootstrapping \ {"mkdir"} /\ "goal" \in Bootstrapping \ {"mkdir"}
  BY <1>1, Bootstraps
<1>3. /\ project \in Projects /\ MonthsFirst(project.tasks) /\ project.store
  BY <1>1, <1>2, OfMaker
<1>4. e \in Projects /\ e.store /\ e.decision /\ Grows(project, e) /\ e.tasks = project.tasks
  <2>1. project.seq + 1 \in Nat /\ project.seq <= project.seq + 1
    BY <1>3, ProjectType
  <2> QED
    BY <1>3, <2>1 DEF Projects, Grows
<1> HIDE DEF e
<1> QED
  BY <1>1, <1>2, <1>3, <1>4, MakerGoes, Plannings DEF Passed

LEMMA MakeGoalKeeps ==
    ASSUME ManagerInv, NEW p \in Procs, MakeGoal(p)
    PROVE  ManagerInv'
<1> DEFINE e == [project EXCEPT !.goal = TRUE, !.seq = @ + 1]
<1>1. /\ proc[p].at = "goal" /\ Goes(p, "month") /\ project' = e /\ plan' = << >>
      /\ work' = work
  BY AfterIs DEF MakeGoal, At, Commits
<1>2. proc[p].at \in Bootstrapping \ {"mkdir"} /\ "month" \in Bootstrapping \ {"mkdir"}
  BY <1>1, Bootstraps
<1>3. /\ project \in Projects /\ MonthsFirst(project.tasks) /\ project.store /\ project.decision
  BY <1>1, <1>2, OfMaker
<1>4. /\ e \in Projects /\ e.store /\ e.decision /\ e.goal /\ Grows(project, e)
      /\ e.tasks = project.tasks
  <2>1. project.seq + 1 \in Nat /\ project.seq <= project.seq + 1
    BY <1>3, ProjectType
  <2> QED
    BY <1>3, <2>1 DEF Projects, Grows
<1> HIDE DEF e
<1> QED
  BY <1>1, <1>2, <1>3, <1>4, MakerGoes, Plannings DEF Passed

\* A Task is of one kind.
LEMMA Kinds ==
    /\ \A t \in MonthTasks : t[1] = "month"
    /\ \A t \in DayTasks : t[1] = "day"
    /\ MonthTasks \cap DayTasks = {}
BY DEF MonthTasks, DayTasks, MonthTask, DayTask

\* The project after a Task more.
LEMMA OneTaskMore ==
    ASSUME NEW d \in Projects, NEW t \in PlanTasks
    PROVE  LET e == [d EXCEPT !.tasks = @ \cup {t}, !.seq = @ + 1] IN
           /\ e \in Projects /\ Grows(d, e) /\ e.tasks = d.tasks \cup {t}
           /\ e.store = d.store /\ e.decision = d.decision /\ e.goal = d.goal
<1>1. d.tasks \cup {t} \in SUBSET PlanTasks /\ d.seq + 1 \in Nat /\ d.seq <= d.seq + 1
  BY ProjectType
<1> QED
  BY <1>1 DEF Projects, Grows

LEMMA MakeMonthKeeps ==
    ASSUME ManagerInv, NEW p \in Procs, MakeMonth(p)
    PROVE  ManagerInv'
<1>1. PICK t \in MonthTasks : MakeTask(p, t, MonthTasks)
  BY DEF MakeMonth
<1> DEFINE e == [project EXCEPT !.tasks = @ \cup {t}, !.seq = @ + 1]
<1>2. proc[p].at = "month" /\ proc[p].at \in Bootstrapping \ {"mkdir"}
  BY Bootstraps DEF MakeMonth, At
<1>3. /\ project \in Projects /\ MonthsFirst(project.tasks) /\ project.store /\ project.decision
      /\ project.goal
  BY <1>2, OfMaker
<1>4. /\ e \in Projects /\ Grows(project, e) /\ e.tasks = project.tasks \cup {t}
      /\ e.store /\ e.decision /\ e.goal
  BY <1>1, <1>3, OneTaskMore DEF MakeTask
<1>5. /\ project' = e /\ plan' = << >> /\ work' = work
      /\ Goes(p, IF MonthTasks \subseteq project.tasks \cup {t} THEN "day" ELSE "month")
  BY <1>1, Kinds, AfterIs DEF MakeTask, Commits
<1> HIDE DEF e
<1>6. MonthsFirst(e.tasks)
  BY <1>3, <1>4, Kinds DEF MonthsFirst
<1>7. "day" \in Bootstrapping \ {"mkdir"} /\ "month" \in Bootstrapping \ {"mkdir"}
  BY Bootstraps
<1>8. CASE MonthTasks \subseteq e.tasks /\ Goes(p, "day")
  <2>1. /\ ~Passed("day", {"verification", "commit"}) /\ ~Passed("day", {"commit"})
        /\ ~Passed("day", {})
    BY Plannings DEF Passed
  <2>2. MonthTasks \subseteq e.tasks /\ Goes(p, "day")
    BY <1>8
  <2> QED
    BY <1>2, <1>4, <1>5, <1>6, <1>7, <2>1, <2>2, MakerGoes
<1>9. CASE Goes(p, "month")
  BY <1>2, <1>4, <1>5, <1>6, <1>7, <1>9, MakerGoes, Plannings DEF Passed
<1> QED
  BY <1>4, <1>5, <1>8, <1>9

LEMMA MakeDayKeeps ==
    ASSUME ManagerInv, NEW p \in Procs, MakeDay(p)
    PROVE  ManagerInv'
<1>1. PICK t \in DayTasks : MakeTask(p, t, DayTasks)
  BY DEF MakeDay
<1> DEFINE e == [project EXCEPT !.tasks = @ \cup {t}, !.seq = @ + 1]
<1>2. proc[p].at = "day" /\ proc[p].at \in Bootstrapping \ {"mkdir"}
  BY Bootstraps DEF MakeDay, At
<1>3. /\ project \in Projects /\ MonthTasks \subseteq project.tasks
      /\ project.store /\ project.decision /\ project.goal
  BY <1>2, OfMaker
<1>4. /\ e \in Projects /\ Grows(project, e) /\ e.tasks = project.tasks \cup {t}
      /\ e.store /\ e.decision /\ e.goal
  BY <1>1, <1>3, OneTaskMore DEF MakeTask
<1>5. /\ project' = e /\ plan' = << >> /\ work' = work
      /\ Goes(p, IF DayTasks \subseteq project.tasks \cup {t} THEN "verification" ELSE "day")
  BY <1>1, Kinds, AfterIs DEF MakeTask, Commits
<1> HIDE DEF e
<1>6. MonthsFirst(e.tasks) /\ MonthTasks \subseteq e.tasks
  BY <1>3, <1>4 DEF MonthsFirst
<1>7. "day" \in Bootstrapping \ {"mkdir"} /\ "verification" \in Bootstrapping \ {"mkdir"}
  BY Bootstraps
<1>8. CASE DayTasks \subseteq e.tasks /\ Goes(p, "verification")
  <2>1. e.tasks = PlanTasks
    BY <1>4, <1>6, <1>8, ProjectType DEF PlanTasks
  <2>2. /\ ~Passed("verification", {"commit"}) /\ ~Passed("verification", {})
    BY Plannings DEF Passed
  <2>3. Goes(p, "verification")
    BY <1>8
  <2> QED
    BY <1>2, <1>4, <1>5, <1>6, <1>7, <2>1, <2>2, <2>3, MakerGoes
<1>9. CASE Goes(p, "day")
  BY <1>2, <1>4, <1>5, <1>6, <1>7, <1>9, MakerGoes, Plannings DEF Passed
<1> QED
  BY <1>4, <1>5, <1>8, <1>9

LEMMA WriteVerificationKeeps ==
    ASSUME ManagerInv, NEW p \in Procs, WriteVerification(p)
    PROVE  ManagerInv'
<1> DEFINE e == [project EXCEPT !.verification = TRUE]
<1>1. /\ proc[p].at = "verification" /\ Goes(p, "commit") /\ project' = e /\ plan' = plan
      /\ work' = work
  BY AfterIs DEF WriteVerification, At
<1>2. proc[p].at \in Bootstrapping \ {"mkdir"} /\ "commit" \in Bootstrapping \ {"mkdir"}
  BY <1>1, Bootstraps
<1>3. /\ project \in Projects /\ MonthsFirst(project.tasks) /\ project.store /\ project.decision
      /\ project.goal /\ project.tasks = PlanTasks /\ MonthTasks \subseteq project.tasks
      /\ project.seq <= project.seq
  BY <1>1, <1>2, OfMaker DEF Grows
<1>4. /\ e \in Projects /\ e.store /\ e.decision /\ e.goal /\ e.verification /\ Grows(project, e)
      /\ e.tasks = project.tasks
  BY <1>3 DEF Projects, Grows
<1> HIDE DEF e
<1> QED
  BY <1>1, <1>2, <1>3, <1>4, MakerGoes, Plannings DEF Passed

LEMMA GitCommitKeeps ==
    ASSUME ManagerInv, NEW p \in Procs, GitCommit(p)
    PROVE  ManagerInv'
<1> DEFINE e == [project EXCEPT !.commit = TRUE]
<1>1. /\ proc[p].at = "commit" /\ Goes(p, "rebuild") /\ project' = e /\ plan' = plan
      /\ work' = work
  BY AfterIs DEF GitCommit, At
<1>2. proc[p].at \in Bootstrapping \ {"mkdir"}
  BY <1>1, Bootstraps
<1>3. /\ project \in Projects /\ MonthsFirst(project.tasks) /\ project.store /\ project.decision
      /\ project.goal /\ project.tasks = PlanTasks /\ MonthTasks \subseteq project.tasks
      /\ project.verification /\ project.seq <= project.seq
  BY <1>1, <1>2, OfMaker DEF Grows
<1>4. /\ e \in Projects /\ e.store /\ e.decision /\ e.goal /\ e.verification /\ e.commit
      /\ Grows(project, e) /\ e.tasks = project.tasks
  BY <1>3 DEF Projects, Grows
<1> HIDE DEF e
<1> QED
  BY <1>1, <1>2, <1>3, <1>4, MakerGoes, Plannings DEF Passed

-----------------------------------------------------------------------------
(* The end of a bootstrap, and the work of others.                         *)

\* The maker removes what it made: of the rest only who waits for mkdir is left.
\* What is left of a plan whose project is removed.
LEMMA LeftoverIs ==
    ASSUME ManagerInv, NEW q \in Procs, proc[q].at \in Planning
    PROVE  Leftover(proc[q]) \in Processes /\ Loose(Leftover(proc[q]))
<1> DEFINE m == proc[q]
           now == [tasks |-> project.tasks, moved |-> project.moved]
           n == Leftover(m)
<1>1. /\ m \in Processes /\ OfProcess(m, project) /\ MonthsFirst(project.tasks)
      /\ project.tasks \subseteq PlanTasks /\ project.moved \subseteq PlanTasks
      /\ project.seq \in Nat
  BY OfP, ProjectType DEF OfProject
<1>2. /\ m.list \subseteq PlanTasks /\ m.phases \subseteq PlanTasks /\ m.seq \in Nat
      /\ m.digest \in Nat /\ m.truth \in Truths
  BY <1>1, ProcessType
<1>3. /\ m.list \subseteq project.tasks /\ m.phases \subseteq project.moved
      /\ MonthsFirst(m.list)
      /\ m.at \in {"rebuild", "list"} => m.phases = {}
      /\ m.at \in {"digest", "write"} =>
           m.list \subseteq m.truth.tasks /\ m.phases \subseteq m.truth.moved
      /\ m.at = "digest" => m.seq <= project.seq
      /\ m.at = "write" => m.seq <= m.digest
  BY <1>1, Plannings, Bootstraps DEF OfProcess
<1>4. now \in Truths /\ now.tasks = project.tasks /\ now.moved = project.moved
  BY <1>1 DEF Truths
<1> HIDE DEF m, now
<1> DEFINE early == m.at \in {"rebuild", "list", "phases"}
           list == IF m.at \in {"rebuild", "list"} THEN project.tasks ELSE m.list
           phases == IF early THEN m.phases \cup ((list \ m.read) \cap project.moved)
                     ELSE m.phases
           named == m.at \in {"digest", "write"}
           seq == IF named THEN m.seq ELSE project.seq
           truth == IF named THEN m.truth ELSE now
           dig == IF m.at = "write" THEN m.digest ELSE project.seq
           place == IF early \/ m.at = "configuration" THEN "bare" ELSE "orphan"
<1>5. n = [Idle EXCEPT !.at = place, !.list = list, !.phases = phases, !.seq = seq,
                       !.truth = truth, !.digest = dig]
  BY DEF Leftover, now
<1>6. /\ list \subseteq PlanTasks /\ phases \subseteq PlanTasks /\ seq \in Nat /\ dig \in Nat
      /\ truth \in Truths /\ place \in {"orphan", "bare"}
      /\ MonthsFirst(list)
  BY <1>1, <1>2, <1>3, <1>4
<1>7. list \subseteq truth.tasks /\ phases \subseteq truth.moved
  BY <1>3, <1>4
<1>8. seq <= dig
  BY <1>1, <1>2, <1>3
<1> HIDE DEF n, early, list, phases, named, seq, truth, dig, place
<1>9. /\ n \in Processes /\ n.at = place /\ n.created = FALSE /\ n.list = list
      /\ n.phases = phases /\ n.seq = seq /\ n.truth = truth /\ n.digest = dig
  BY <1>5, <1>6 DEF Idle, Processes
<1>10. Loose(n)
  BY <1>6, <1>7, <1>8, <1>9 DEF Loose
<1> QED
  BY <1>9, <1>10 DEF n, m

LEMMA FailsKeeps ==
    ASSUME ManagerInv, NEW p \in Procs, Fails(p)
    PROVE  ManagerInv'
<1>1. /\ proc[p].created /\ project' = Nowhere /\ plan' = << >> /\ work' = work
      /\ proc' = [q \in Procs |->
                    IF q = p THEN Idle
                    ELSE IF proc[q].at \in Planning THEN Leftover(proc[q])
                    ELSE proc[q]]
  BY DEF Fails, Remove
<1>2. /\ Nowhere \in Projects /\ Nowhere.fate = "none" /\ ~Nowhere.store /\ Nowhere.tasks = {}
  BY DEF Nowhere, Projects
<1>3. ASSUME NEW q \in Procs
      PROVE  proc'[q] \in Processes /\ ~proc'[q].created /\ Loose(proc'[q])
  <2>1. CASE q = p
    BY <1>1, <2>1, IdleType, IdleIsLoose
  <2>2. CASE q # p /\ proc[q].at \in Planning
    BY <1>1, <2>2, LeftoverIs DEF Loose
  <2>3. CASE q # p /\ proc[q].at \notin Planning
    <3>1. proc'[q] = proc[q]
      BY <1>1, <2>3
    <3>2. /\ proc[q] \in Processes /\ OfProcess(proc[q], project)
          /\ ~proc[q].created /\ proc[q].at \in {"idle", "orphan", "bare", "mkdir"}
      BY <1>1, <2>3, OfP, ProcessType, Bootstraps, Makers
    <3> QED
      BY <3>1, <3>2, LooseOnes
  <2> QED
    BY <2>1, <2>2, <2>3
<1>4. TypeOK'
  <2>1. proc' \in [Procs -> Processes]
    BY <1>1, <1>3
  <2> QED
    BY <1>1, <1>2, <2>1, OfP DEF TypeOK
<1>5. \A q \in Procs : OfProcess(proc'[q], project')
  BY <1>3, Outside
<1>6. OfProject(project')
  BY <1>1, <1>2 DEF OfProject, MonthsFirst
<1> QED
  BY <1>1, <1>2, <1>3, <1>4, <1>5, <1>6, ManagerInvHoldsNext

\* The maker is done, or is killed.
LEMMA MakerEnds ==
    ASSUME ManagerInv, NEW p \in Procs, proc[p].created, Ends(p),
           NEW fate \in {"killed", "done"}, project' = [project EXCEPT !.fate = fate],
           fate = "done" => /\ project.tasks = PlanTasks /\ project.store
                            /\ project.decision /\ project.goal
                            /\ project.verification /\ project.commit,
           work' = work,
           \/ plan' = plan
           \/ plan' = <<plan'[1]>> /\ plan'[1] \in Plans /\ OfPlan(plan'[1])
    PROVE  ManagerInv'
<1> DEFINE e == [project EXCEPT !.fate = fate]
<1>1. /\ TypeOK /\ project \in Projects /\ OfProject(project)
      /\ plan # << >> => OfPlan(plan[1])
  BY ManagerInvMeans DEF TypeOK
<1>2. /\ e \in Projects /\ e.here = project.here /\ e.store = project.store
      /\ e.tasks = project.tasks /\ e.moved = project.moved /\ e.decision = project.decision
      /\ e.goal = project.goal /\ e.verification = project.verification
      /\ e.commit = project.commit /\ e.fate = fate /\ e.seq = project.seq
  BY <1>1 DEF Projects
<1>3. project' = e
  OBVIOUS
<1> HIDE DEF e
<1>4. /\ project.here /\ \A q \in Procs \ {p} : ~proc[q].created
  BY Makers, OfP, ProcessType
<1>5. /\ proc' \in [Procs -> Processes] /\ proc'[p] = Idle
      /\ \A q \in Procs \ {p} : proc'[q] = proc[q]
  BY <1>1, IdleType DEF Ends, TypeOK
<1>6. \A q \in Procs : ~proc'[q].created
  BY <1>4, <1>5, IdleType
<1>7. ASSUME NEW q \in Procs
      PROVE  OfProcess(proc'[q], e)
  <2>1. CASE q = p
    BY <1>5, <2>1, IdleIsLoose, Outside
  <2>2. CASE q # p
    <3>1. OfProcess(proc[q], project) /\ ~proc[q].created /\ proc'[q] = proc[q]
      BY <1>4, <1>5, <2>2, OfP
    <3> QED
      BY <1>2, <3>1 DEF OfProcess
  <2> QED
    BY <2>1, <2>2
<1>8. OfProject(e)
  BY <1>1, <1>2, <1>4 DEF OfProject
<1>9. TypeOK'
  BY <1>1, <1>2, <1>3, <1>5 DEF TypeOK
<1>10. plan' # << >> => OfPlan(plan'[1])
  BY <1>1
<1>11. \A q \in Procs : OfProcess(proc'[q], project')
  BY <1>3, <1>7
<1> QED
  BY <1>2, <1>3, <1>6, <1>8, <1>9, <1>10, <1>11, ManagerInvHoldsNext

LEMMA KillKeeps ==
    ASSUME ManagerInv, NEW p \in Procs, Kill(p)
    PROVE  ManagerInv'
<1>1. Ends(p) /\ plan' = plan /\ work' = work
  BY DEF Kill
<1>2. CASE proc[p].created
  BY <1>1, <1>2, MakerEnds DEF Kill
<1>3. CASE ~proc[p].created
  <2>1. project' = project
    BY <1>3 DEF Kill
  <2> QED
    BY <1>1, <1>3, <2>1, OfP, EndKeeps
<1> QED
  BY <1>2, <1>3

\* A list that a plan accepts has a day, and with it the months.
LEMMA AcceptedLists ==
    ASSUME NEW S \in SUBSET PlanTasks, Contiguous(S), MonthsFirst(S)
    PROVE  MonthTasks \subseteq S
<1>1. {t[2] : t \in {s \in S : s[1] = "day"}} # {}
  BY DEF Contiguous
<1>2. PICK s \in S : s[1] = "day"
  BY <1>1
<1>3. s \in DayTasks
  BY <1>2, Kinds DEF PlanTasks
<1> QED
  BY <1>2, <1>3 DEF MonthsFirst

LEMMA OrphanKeeps ==
    ASSUME ManagerInv, NEW p \in Procs, Orphan(p)
    PROVE  ManagerInv'
<1> DEFINE Plans1 == \/ plan' = plan \/ plan' = << >>
                     \/ plan' = <<plan'[1]>> /\ plan'[1] \in Plans /\ OfPlan(plan'[1])
<1>1. /\ ~proc[p].created /\ Ends(p) /\ work' = work
      /\ proc[p] \in Processes /\ OfProcess(proc[p], project)
      /\ project \in Projects /\ OfProject(project)
  BY OfP, Makers DEF Orphan
<1>11. Plans1
  <2>1. CASE plan' = <<PlanOf(proc[p])>> /\ Contiguous(proc[p].list)
    <3>1. /\ proc[p].list \subseteq proc[p].truth.tasks
          /\ proc[p].phases \subseteq proc[p].truth.moved
          /\ proc[p].seq <= proc[p].digest /\ MonthsFirst(proc[p].list)
      BY <1>1 DEF OfProcess, Orphan
    <3>2. MonthTasks \subseteq proc[p].list
      BY <1>1, <2>1, <3>1, AcceptedLists, ProcessType
    <3>3. PlanOf(proc[p]) \in Plans /\ OfPlan(PlanOf(proc[p]))
      BY <1>1, <3>1, <3>2, PlanOfIs
    <3> QED
      BY <2>1, <3>3
  <2> QED
    BY <2>1 DEF Orphan
<1> HIDE DEF Plans1
<1>2. CASE project' = project
  BY <1>1, <1>2, <1>11, OfP, EndKeeps DEF Plans1
<1>3. CASE project' = [project EXCEPT !.here = TRUE] /\ ~project.here
  <2> DEFINE e == [project EXCEPT !.here = TRUE]
  <2>1. /\ e \in Projects /\ e.here /\ e.fate = project.fate /\ e.tasks = project.tasks
        /\ e.store = project.store
    BY <1>1 DEF Projects
  <2>2. ~project.store /\ project.fate # "done"
    BY <1>1, <1>3 DEF OfProject
  <2>3. \A q \in Procs : proc[q].at \in {"idle", "orphan", "bare", "mkdir"}
    <3>1. ASSUME NEW q \in Procs PROVE proc[q].at \in {"idle", "orphan", "bare", "mkdir"}
      <4>1. ~proc[q].created /\ proc[q].at \notin Planning
        BY <1>3, OfP, ProjectType, Makers
      <4> QED
        BY <4>1, OfP, ProcessType, Makers
    <3> QED
      BY <3>1
  <2>4. project' = e
    BY <1>3
  <2> HIDE DEF e
  <2>5. OfProject(e)
    BY <1>1, <2>1, <2>2 DEF OfProject
  <2>6. /\ TypeOK /\ proc \in [Procs -> Processes]
        /\ plan # << >> => OfPlan(plan[1])
        /\ \A q, r \in Procs : proc[q].created /\ proc[r].created => q = r
        /\ project.fate = "working" => \E q \in Procs : proc[q].created
        /\ proc' = [proc EXCEPT ![p] = Idle]
    BY <1>1, ManagerInvMeans DEF TypeOK, Ends
  <2>7. /\ proc' \in [Procs -> Processes] /\ proc'[p] = Idle
        /\ \A q \in Procs \ {p} : proc'[q] = proc[q]
    BY <1>1, <2>6, IdleType DEF Ends
  <2>8. \A q \in Procs : /\ proc'[q].created = FALSE /\ Loose(proc'[q])
                         /\ proc[q].created = FALSE
    <3>1. \A q \in Procs : proc[q].created = FALSE /\ Loose(proc[q])
      BY <2>3, OfP, ProcessType, Makers, ManagerInvMeans, LooseOnes
    <3> QED
      BY <2>7, <3>1, IdleType, ProcessType, IdleIsLoose
  <2>9. \A q \in Procs : OfProcess(proc'[q], project')
    BY <2>8, Outside
  <2>10. TypeOK'
    BY <1>1, <1>11, <2>1, <2>4, <2>6, <2>7 DEF TypeOK, Plans1
  <2>11. project'.fate # "working"
    BY <2>1, <2>4, <2>6, <2>8
  <2>12. plan' # << >> => OfPlan(plan'[1])
    BY <1>11, <2>6 DEF Plans1
  <2> QED
    BY <2>4, <2>5, <2>8, <2>9, <2>10, <2>11, <2>12, ManagerInvHoldsNext
<1>4. project.here = TRUE => [project EXCEPT !.here = TRUE] = project
  BY <1>1 DEF Projects
<1>5. project.here \in BOOLEAN
  BY <1>1, ProjectType
<1> QED
  BY <1>2, <1>3, <1>4, <1>5 DEF Orphan

LEMMA WorkKeeps ==
    ASSUME ManagerInv, Work
    PROVE  ManagerInv'
<1>1. PICK M \in SUBSET project.tasks :
         Commits([project EXCEPT !.moved = @ \cup M, !.seq = @ + 1])
  BY DEF Work
<1> DEFINE e == [project EXCEPT !.moved = @ \cup M, !.seq = @ + 1]
<1>2. /\ TypeOK /\ project \in Projects /\ OfProject(project)
      /\ \A p \in Procs : OfProcess(proc[p], project)
      /\ \A p, q \in Procs : proc[p].created /\ proc[q].created => p = q
      /\ project.fate = "working" => \E p \in Procs : proc[p].created
  BY ManagerInvMeans DEF TypeOK
<1>3. /\ project.moved \cup M \in SUBSET PlanTasks /\ project.seq + 1 \in Nat
      /\ project.seq <= project.seq + 1
  BY <1>2, ProjectType
<1>4. /\ e \in Projects /\ Grows(project, e) /\ e.fate = project.fate /\ e.tasks = project.tasks
      /\ e.here = project.here /\ e.store = project.store /\ e.decision = project.decision
      /\ e.goal = project.goal /\ e.verification = project.verification
      /\ e.commit = project.commit
  BY <1>2, <1>3 DEF Projects, Grows
<1>5. project' = e /\ plan' = << >> /\ proc' = proc /\ work' \in 0..MaxWork
  <2>1. work' = work + 1 /\ work < MaxWork /\ work \in 0..MaxWork
    BY <1>2 DEF Work, TypeOK
  <2>2. work' \in 0..MaxWork
    BY <2>1, PlanAssumption
  <2> QED
    BY <1>1, <2>2 DEF Work, Commits
<1> HIDE DEF e
<1>6. \A p \in Procs : OfProcess(proc'[p], project')
  BY <1>2, <1>4, <1>5, GrowthHurtsNobody DEF TypeOK
<1>7. OfProject(project')
  BY <1>2, <1>4, <1>5 DEF OfProject
<1>8. TypeOK'
  BY <1>2, <1>4, <1>5 DEF TypeOK
<1> QED
  BY <1>2, <1>4, <1>5, <1>6, <1>7, <1>8, ManagerInvHoldsNext

-----------------------------------------------------------------------------
(* The steps of a plan.                                                    *)

LEMMA StartPlanKeeps ==
    ASSUME ManagerInv, NEW p \in Procs, StartPlan(p)
    PROVE  ManagerInv'
<1> DEFINE n == [proc[p] EXCEPT !.at = "rebuild"]
<1>1. /\ proc[p] \in Processes /\ proc[p].at = "idle" /\ OfProcess(proc[p], project)
      /\ ~proc[p].created /\ project.store
  BY OfP, Makers DEF StartPlan, At
<1>2. /\ n.at = "rebuild" /\ ~n.created /\ n.list = {} /\ n.phases = {}
  BY <1>1 DEF Processes, OfProcess
<1> HIDE DEF n
<1>3. OfProcess(n, project)
  BY <1>1, <1>2, Bootstraps DEF OfProcess, MonthsFirst
<1> QED
  BY <1>3, GoKeeps, Plannings DEF n, StartPlan

\* A plan goes on, and relies on what it has read.
LEMMA PlannerGoes ==
    ASSUME ManagerInv, NEW p \in Procs, proc[p].at \in Planning,
           NEW n \in Processes, proc' = [proc EXCEPT ![p] = n], n.at \in Planning,
           n.created = proc[p].created,
           project' = project, plan' \in {plan, << >>}, work' = work,
           n.at \notin {"phases", "configuration", "sequence", "digest", "write"} =>
               n.list = {} /\ n.phases = {},
           n.at \in {"configuration", "sequence", "digest", "write"} =>
               MonthTasks \subseteq n.list,
           MonthsFirst(n.list),
           n.list \subseteq project.tasks, n.phases \subseteq project.moved,
           n.at \in {"digest", "write"} => /\ n.list \subseteq n.truth.tasks
                                          /\ n.phases \subseteq n.truth.moved,
           n.at = "digest" => n.seq <= project.seq, n.at = "write" => n.seq <= n.digest
    PROVE  ManagerInv'
<1>1. OfProcess(proc[p], project)
  BY OfP
<1>2. OfProcess(n, project)
  BY <1>1, Bootstraps, Plannings DEF OfProcess, Passed
<1> QED
  BY <1>2, OfP, StepKeeps

\* What a plan at a place can count on.
LEMMA OfPlanner ==
    ASSUME ManagerInv, NEW p \in Procs, proc[p].at \in Planning
    PROVE  /\ proc[p] \in Processes /\ project \in Projects /\ MonthsFirst(project.tasks)
           /\ proc[p].at \in {"rebuild", "list"} => proc[p].list = {} /\ proc[p].phases = {}
           /\ proc[p].at \in {"configuration", "sequence", "digest", "write"} =>
                MonthTasks \subseteq proc[p].list
           /\ MonthsFirst(proc[p].list)
           /\ proc[p].list \subseteq project.tasks /\ proc[p].phases \subseteq project.moved
           /\ proc[p].at \in {"digest", "write"} =>
                /\ proc[p].list \subseteq proc[p].truth.tasks
                /\ proc[p].phases \subseteq proc[p].truth.moved
           /\ proc[p].at = "digest" => proc[p].seq <= project.seq
           /\ proc[p].at = "write" => proc[p].seq <= proc[p].digest
BY OfP, Plannings DEF OfProcess, OfProject

LEMMA RebuildKeeps ==
    ASSUME ManagerInv, NEW p \in Procs, Rebuild(p)
    PROVE  ManagerInv'
<1> DEFINE n == [proc[p] EXCEPT !.at = "list"]
<1>1. /\ proc[p].at = "rebuild" /\ proc[p].at \in Planning /\ proc' = [proc EXCEPT ![p] = n]
      /\ project' = project /\ plan' = << >> /\ work' = work
  BY AfterIs, Plannings DEF Rebuild, At, Goes
<1>2. /\ n \in Processes /\ n.at = "list" /\ n.created = proc[p].created
      /\ n.list = proc[p].list /\ n.phases = proc[p].phases
  BY <1>1, OfPlanner, Plannings DEF Processes
<1> HIDE DEF n
<1> QED
  BY <1>1, <1>2, OfPlanner, Plannings, PlannerGoes

LEMMA ListTasksKeeps ==
    ASSUME ManagerInv, NEW p \in Procs, ListTasks(p)
    PROVE  ManagerInv'
<1> DEFINE n == [proc[p] EXCEPT !.list = project.tasks, !.at = "phases"]
<1>1. /\ proc[p].at = "list" /\ proc[p].at \in Planning
      /\ proc' = [proc EXCEPT ![p] = n]
      /\ project' = project /\ plan' = plan /\ work' = work
  BY AfterIs, Plannings DEF ListTasks, At
<1>2. proc[p] \in Processes /\ project.tasks \in SUBSET PlanTasks
  BY <1>1, OfPlanner, ProjectType
<1>3. /\ n \in Processes /\ n.at = "phases" /\ n.created = proc[p].created
      /\ n.list = project.tasks /\ n.phases = proc[p].phases
  BY <1>2, Plannings DEF Processes
<1> HIDE DEF n
<1> QED
  BY <1>1, <1>3, OfPlanner, Plannings, PlannerGoes

LEMMA ReadPhaseKeeps ==
    ASSUME ManagerInv, NEW p \in Procs, ReadPhase(p)
    PROVE  ManagerInv'
<1>1. /\ proc[p].at = "phases" /\ proc[p].at \in Planning
      /\ project' = project /\ plan' = plan /\ work' = work
  BY Plannings DEF ReadPhase, At
<1>2. PICK t \in proc[p].list \ proc[p].read :
        proc' = [proc EXCEPT ![p].read = @ \cup {t}, ![p].phases = @ \cup ({t} \cap project.moved)]
  BY DEF ReadPhase
<1> DEFINE n == [proc[p] EXCEPT !.read = @ \cup {t}, !.phases = @ \cup ({t} \cap project.moved)]
<1>3. /\ proc[p] \in Processes
      /\ proc[p].read \cup {t} \in SUBSET PlanTasks
      /\ proc[p].phases \cup ({t} \cap project.moved) \in SUBSET PlanTasks
  BY <1>1, OfPlanner, ProcessType
<1>4. /\ n \in Processes /\ n.at = "phases" /\ n.created = proc[p].created
      /\ n.list = proc[p].list /\ n.phases = proc[p].phases \cup ({t} \cap project.moved)
  BY <1>1, <1>3 DEF Processes
<1>5. proc' = [proc EXCEPT ![p] = n]
  BY <1>2
<1> HIDE DEF n
<1>6. n.phases \subseteq project.moved
  BY <1>1, <1>4, OfPlanner
<1> QED
  BY <1>1, <1>4, <1>5, <1>6, OfPlanner, Plannings, PlannerGoes

LEMMA CheckTasksKeeps ==
    ASSUME ManagerInv, NEW p \in Procs, CheckTasks(p)
    PROVE  ManagerInv'
<1> DEFINE n == [proc[p] EXCEPT !.at = "configuration"]
<1>1. /\ proc[p].at = "phases" /\ proc[p].at \in Planning /\ proc' = [proc EXCEPT ![p] = n]
      /\ project' = project /\ plan' = plan /\ work' = work /\ Contiguous(proc[p].list)
  BY AfterIs, Plannings DEF CheckTasks, At, Goes
<1>2. /\ proc[p] \in Processes /\ proc[p].list \subseteq PlanTasks /\ MonthsFirst(proc[p].list)
  BY <1>1, OfPlanner, ProcessType
<1>3. /\ n \in Processes /\ n.at = "configuration" /\ n.created = proc[p].created
      /\ n.list = proc[p].list /\ n.phases = proc[p].phases
  BY <1>2, Plannings DEF Processes
<1>4. MonthTasks \subseteq proc[p].list
  BY <1>1, <1>2, AcceptedLists
<1> HIDE DEF n
<1> QED
  BY <1>1, <1>3, <1>4, OfPlanner, Plannings, PlannerGoes

LEMMA ReadConfigurationKeeps ==
    ASSUME ManagerInv, NEW p \in Procs, ReadConfiguration(p)
    PROVE  ManagerInv'
<1> DEFINE n == [proc[p] EXCEPT !.at = "sequence"]
<1>1. /\ proc[p].at = "configuration" /\ proc[p].at \in Planning
      /\ proc' = [proc EXCEPT ![p] = n]
      /\ project' = project /\ plan' = plan /\ work' = work
  BY AfterIs, Plannings DEF ReadConfiguration, At, Goes
<1>2. /\ n \in Processes /\ n.at = "sequence" /\ n.created = proc[p].created
      /\ n.list = proc[p].list /\ n.phases = proc[p].phases
  BY <1>1, OfPlanner, Plannings DEF Processes
<1> HIDE DEF n
<1> QED
  BY <1>1, <1>2, OfPlanner, Plannings, PlannerGoes

LEMMA ReadSequenceKeeps ==
    ASSUME ManagerInv, NEW p \in Procs, ReadSequence(p)
    PROVE  ManagerInv'
<1> DEFINE s == [tasks |-> project.tasks, moved |-> project.moved]
           n == [proc[p] EXCEPT !.seq = project.seq, !.at = "digest", !.truth = s]
<1>1. /\ proc[p].at = "sequence" /\ proc[p].at \in Planning
      /\ proc' = [proc EXCEPT ![p] = n]
      /\ project' = project /\ plan' = plan /\ work' = work
  BY AfterIs, Plannings DEF ReadSequence, At
<1>2. /\ proc[p] \in Processes /\ project.seq \in Nat /\ s \in Truths
      /\ s.tasks = project.tasks /\ s.moved = project.moved
  BY <1>1, OfPlanner, ProjectType DEF Truths
<1> HIDE DEF s
<1>3. /\ n \in Processes /\ n.at = "digest" /\ n.created = proc[p].created
      /\ n.list = proc[p].list /\ n.phases = proc[p].phases /\ n.truth = s
      /\ n.seq = project.seq
  BY <1>2, Plannings DEF Processes
<1>4. project.seq <= project.seq
  BY <1>2
<1> HIDE DEF n
<1> QED
  BY <1>1, <1>2, <1>3, <1>4, OfPlanner, Plannings, PlannerGoes

LEMMA ReadDigestKeeps ==
    ASSUME ManagerInv, NEW p \in Procs, ReadDigest(p)
    PROVE  ManagerInv'
<1> DEFINE n == [proc[p] EXCEPT !.digest = project.seq, !.at = "write"]
<1>1. /\ proc[p].at = "digest" /\ proc[p].at \in Planning
      /\ proc' = [proc EXCEPT ![p] = n]
      /\ project' = project /\ plan' = plan /\ work' = work
  BY AfterIs, Plannings DEF ReadDigest, At
<1>2. proc[p] \in Processes /\ project.seq \in Nat
  BY <1>1, OfPlanner, ProjectType
<1>3. /\ n \in Processes /\ n.at = "write" /\ n.created = proc[p].created
      /\ n.list = proc[p].list /\ n.phases = proc[p].phases /\ n.truth = proc[p].truth
      /\ n.seq = proc[p].seq /\ n.digest = project.seq
  BY <1>2, Plannings DEF Processes
<1> HIDE DEF n
<1> QED
  BY <1>1, <1>2, <1>3, OfPlanner, Plannings, PlannerGoes

LEMMA WritePlanKeeps ==
    ASSUME ManagerInv, NEW p \in Procs, WritePlan(p)
    PROVE  ManagerInv'
<1> DEFINE r == PlanOf(proc[p])
<1>1. /\ proc[p].at = "write" /\ proc[p].at \in Planning /\ plan' = <<r>>
      /\ work' = work /\ Ends(p)
  BY Plannings DEF WritePlan, At
<1>2. proc[p] \in Processes /\ OfProcess(proc[p], project)
  BY OfP
<1>3. r \in Plans /\ OfPlan(r)
  BY <1>1, <1>2, OfPlanner, PlanOfIs
<1> HIDE DEF r
<1>4. plan' = <<plan'[1]>> /\ plan'[1] \in Plans /\ OfPlan(plan'[1])
  BY <1>1, <1>3
<1>5. CASE proc[p].created
  <2>1. project' = [project EXCEPT !.fate = "done"]
    BY <1>5 DEF WritePlan
  <2>2. /\ project.tasks = PlanTasks /\ project.store /\ project.decision /\ project.goal
        /\ project.verification /\ project.commit
    BY <1>1, <1>2, <1>5 DEF OfProcess, Passed
  <2> QED
    BY <1>1, <1>4, <1>5, <2>1, <2>2, MakerEnds
<1>6. CASE ~proc[p].created
  <2>1. project' = project
    BY <1>6 DEF WritePlan
  <2> QED
    BY <1>1, <1>4, <1>6, <2>1, OfP, EndKeeps
<1> QED
  BY <1>5, <1>6

LEMMA PlanFailsKeeps ==
    ASSUME ManagerInv, NEW p \in Procs, PlanFails(p)
    PROVE  ManagerInv'
BY OfP, EndKeeps DEF PlanFails

-----------------------------------------------------------------------------
(* The invariant, and what it is for.                                      *)

LEMMA ManagerInvInit == Init => ManagerInv
<1> SUFFICES ASSUME Init PROVE ManagerInv
  OBVIOUS
<1>1. /\ project = Nowhere /\ plan = << >> /\ proc = [p \in Procs |-> Idle] /\ work = 0
  BY DEF Init
<1>2. Nowhere \in Projects /\ Nowhere.fate = "none" /\ ~Nowhere.store /\ Nowhere.tasks = {}
  BY DEF Nowhere, Projects
<1>3. 0 \in 0..MaxWork
  BY PlanAssumption
<1>4. TypeOK
  BY <1>1, <1>2, <1>3, IdleType DEF TypeOK
<1>5. \A p \in Procs : proc[p] = Idle
  BY <1>1
<1>6. \A p \in Procs : OfProcess(proc[p], project)
  BY <1>5, IdleIsLoose, Outside
<1>7. OfProject(project)
  BY <1>1, <1>2 DEF OfProject, MonthsFirst
<1> QED
  BY <1>1, <1>2, <1>4, <1>5, <1>6, <1>7, IdleType, ManagerInvHolds

LEMMA ManagerInvNext == ManagerInv /\ [Next]_vars => ManagerInv'
<1> SUFFICES ASSUME ManagerInv, [Next]_vars PROVE ManagerInv'
  OBVIOUS
<1>1. CASE UNCHANGED vars
  <2>1. project' = project /\ plan' = plan /\ proc' = proc /\ work' = work
    BY <1>1 DEF vars
  <2>2. TypeOK'
    BY <2>1, ManagerInvMeans DEF TypeOK
  <2> QED
    BY <2>1, <2>2, ManagerInvMeans, ManagerInvHoldsNext
<1>2. ASSUME NEW p \in Procs, StartBootstrap(p) \/ Bootstrap(p) \/ Fails(p)
      PROVE  ManagerInv'
  BY <1>2, StartBootstrapKeeps, MakeDirKeeps, FilesKeeps, InitRuntimeKeeps, DecideKeeps,
     MakeGoalKeeps, MakeMonthKeeps, MakeDayKeeps, WriteVerificationKeeps, GitCommitKeeps,
     FailsKeeps DEF Bootstrap
<1>3. ASSUME NEW p \in Procs, StartPlan(p) \/ Plan(p)
      PROVE  ManagerInv'
  BY <1>3, StartPlanKeeps, RebuildKeeps, ListTasksKeeps, ReadPhaseKeeps, CheckTasksKeeps,
     ReadConfigurationKeeps, ReadSequenceKeeps, ReadDigestKeeps, WritePlanKeeps,
     PlanFailsKeeps DEF Plan
<1>4. ASSUME NEW p \in Procs, Orphan(p) \/ Kill(p)
      PROVE  ManagerInv'
  BY <1>4, OrphanKeeps, KillKeeps
<1> QED
  BY <1>1, <1>2, <1>3, <1>4, WorkKeeps DEF Next

\* Wherever bootstraps and plans of one directory overlap, fail or are killed, one
\* process at a time makes the project, and what a plan has read of it is still so
\* (project-manager.ts bootstrapProject, buildProjectPlanProjection).
THEOREM BootstrapIsSound == Spec => []ManagerInv
<1>1. Init => ManagerInv
  BY ManagerInvInit
<1>2. ManagerInv /\ [Next]_vars => ManagerInv'
  BY ManagerInvNext
<1> QED
  BY <1>1, <1>2, PTL DEF Spec

\* Every variable keeps its form.
THEOREM ManagerTypeCorrect == Spec => []TypeOK
<1>1. ManagerInv => TypeOK
  BY DEF ManagerInv
<1> QED
  BY <1>1, BootstrapIsSound, PTL

\* A bootstrap that failed has left no project (bootstrapProject's catch).
THEOREM FailedLeavesNothing == Spec => []NoFailedProject
<1>1. ManagerInv => NoFailedProject
  BY DEF ManagerInv
<1> QED
  BY <1>1, BootstrapIsSound, PTL

\* A plan that is written has every month of the proposal, also one read beside the
\* bootstrap that makes the Tasks (buildProjectPlanProjection).
THEOREM PlansHaveTheMonths == Spec => []PlanHasEveryMonth
<1>1. ManagerInv => PlanHasEveryMonth
  BY DEF ManagerInv
<1> QED
  BY <1>1, BootstrapIsSound, PTL

\* The Tasks and phases a plan shows are not newer than the sequence it names, and the
\* state whose digest it names is not older (buildProjectPlanProjection).
THEOREM PlansAreOfTheirSequence == Spec => []PlanNotNewer
<1>1. ManagerInv => PlanNotNewer
  BY DEF ManagerInv
<1> QED
  BY <1>1, BootstrapIsSound, PTL

\* What a step may do to a project that is done.
LEMMA DoneStep ==
    ASSUME ManagerInv, Next, project.fate = "done"
    PROVE  project' = [project EXCEPT !.moved = project'.moved, !.seq = project'.seq]
<1>1. /\ project \in Projects /\ project.here
      /\ \A p \in Procs : ~proc[p].created /\ proc[p].at \notin Bootstrapping \ {"mkdir"}
  <2>1. project \in Projects /\ OfProject(project)
    BY ManagerInvMeans DEF TypeOK
  <2>2. \A p \in Procs : ~proc[p].created
    BY Makers
  <2> QED
    BY <2>1, <2>2, Makers DEF OfProject
<1>2. CASE project' = project
  BY <1>1, <1>2 DEF Projects
<1>3. CASE Work
  <2>1. PICK M \in SUBSET project.tasks :
           project' = [project EXCEPT !.moved = @ \cup M, !.seq = @ + 1]
    BY <1>3 DEF Work, Commits
  <2> QED
    BY <1>1, <2>1 DEF Projects
<1>4. ASSUME NEW p \in Procs, StartBootstrap(p) \/ Bootstrap(p) \/ Fails(p)
      PROVE  project' = project
  <2>1. /\ proc[p].at \notin {"files", "init", "decide", "goal", "month", "day",
                              "verification", "commit"}
        /\ ~proc[p].created
    BY <1>1, Bootstraps
  <2> QED
    BY <1>1, <1>4, <2>1
       DEF StartBootstrap, Bootstrap, Fails, MakeDir, Files, InitRuntime, Decide, MakeGoal,
           MakeMonth, MakeDay, WriteVerification, GitCommit, At
<1>5. ASSUME NEW p \in Procs, StartPlan(p) \/ Plan(p)
      PROVE  project' = project
  BY <1>1, <1>5 DEF StartPlan, Plan, Rebuild, ListTasks, ReadPhase, CheckTasks,
                    ReadConfiguration, ReadSequence, ReadDigest, WritePlan, PlanFails
<1>6. ASSUME NEW p \in Procs, Orphan(p) \/ Kill(p)
      PROVE  project' = project
  <2>1. project.here = TRUE
    BY <1>1, ProjectType
  <2>2. [project EXCEPT !.here = TRUE] = project
    BY <1>1, <2>1 DEF Projects
  <2> QED
    BY <1>1, <1>6, <2>2 DEF Orphan, Kill
<1> QED
  BY <1>2, <1>3, <1>4, <1>5, <1>6 DEF Next

\* The project of a bootstrap that reported success is complete; no other bootstrap of its
\* directory removes or changes it, only the work in it moves on (bootstrapProject).
THEOREM DoneProjectsStay == Spec => DoneStays
<1>1. ManagerInv /\ [Next]_vars =>
        [project.fate = "done" =>
           /\ project.tasks = PlanTasks
           /\ project.decision /\ project.goal /\ project.verification /\ project.commit
           /\ project' = [project EXCEPT !.moved = project'.moved, !.seq = project'.seq]]_vars
  <2> SUFFICES ASSUME ManagerInv, Next, project.fate = "done"
               PROVE  /\ project.tasks = PlanTasks
                      /\ project.decision /\ project.goal /\ project.verification
                      /\ project.commit
                      /\ project' = [project EXCEPT !.moved = project'.moved,
                                                    !.seq = project'.seq]
    OBVIOUS
  <2>1. Complete
    BY DEF ManagerInv, DoneIsComplete
  <2> QED
    BY <2>1, DoneStep DEF Complete
<1> QED
  BY <1>1, BootstrapIsSound, PTL DEF Spec, DoneStays

=============================================================================
