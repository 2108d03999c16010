------------------------- MODULE PkrProjectManager -------------------------
(***************************************************************************)
(* The Project Manager (src/src/project-manager.ts): bootstrapProject      *)
(* makes a new project directory in a dozen steps and removes it again     *)
(* when one of them fails; buildProjectPlanProjection reads the plan back  *)
(* from the records, one query after the other.                            *)
(*                                                                         *)
(* From the moment the store exists, any other process may plan or work in *)
(* the new project.  A process may be killed between any two steps.        *)
(***************************************************************************)
EXTENDS Naturals, FiniteSets, Sequences

CONSTANTS
    Procs,          \* processes that bootstrap or plan
    Months, Days,   \* milestones and days of the approved proposal
    MaxWork         \* bound on the commits of other processes

ASSUME PlanAssumption ==
    Months \in Nat \ {0} /\ Days \in Nat \ {0} /\ MaxWork \in Nat

VARIABLES
    project,    \* what is in the target directory
    plan,       \* the projection plan.json, an empty or one-element sequence
    proc,       \* what each process is doing, and what it has read
    work        \* commits of other processes, counted

vars == <<project, plan, proc, work>>

----------------------------------------------------------------------------
MonthTask(i) == <<"month", i>>
DayTask(i) == <<"day", i>>
MonthTasks == {MonthTask(i) : i \in 1..Months}
DayTasks == {DayTask(i) : i \in 1..Days}
PlanTasks == MonthTasks \cup DayTasks

\* tasks are the Tasks with plan provenance, moved those another process has
\* dispatched or more; fate is that of the bootstrap that made the directory.
Nowhere == [here |-> FALSE, store |-> FALSE, decision |-> FALSE, goal |-> FALSE,
            tasks |-> {}, moved |-> {}, verification |-> FALSE, commit |-> FALSE,
            seq |-> 0, fate |-> "none"]

\* Fault: the days are made first.
BootstrapOrder_DaysFirst ==
    <<"mkdir", "files", "init", "decide", "goal", "day", "month", "verification", "commit">>

\* The order of bootstrapProject; the plan is the last part of it.
BootstrapOrder ==
    <<"mkdir", "files", "init", "decide", "goal", "month", "day", "verification", "commit">>

\* Fault: the sequence is read before the phases.
PlanOrder_SequenceFirst ==
    <<"rebuild", "list", "configuration", "sequence", "phases", "digest", "write">>

\* The order of writeProjectPlanProjection.
PlanOrder ==
    <<"rebuild", "list", "phases", "configuration", "sequence", "digest", "write">>

Bootstrapping == {BootstrapOrder[i] : i \in DOMAIN BootstrapOrder}
Planning == {PlanOrder[i] : i \in DOMAIN PlanOrder}

Following(order, place) == order[1 + CHOOSE i \in DOMAIN order : order[i] = place]
After(place) ==
    IF place = "commit" THEN "rebuild"
    ELSE IF place = "write" THEN "idle"
    ELSE IF place \in Bootstrapping THEN Following(BootstrapOrder, place)
    ELSE Following(PlanOrder, place)

\* list and phases are the Tasks and phases the plan has read; truth is what the
\* project was when its sequence was read, digest the sequence of the state whose
\* digest was read.
NoTruth == [tasks |-> {}, moved |-> {}]
Idle == [at |-> "idle", created |-> FALSE, list |-> {}, read |-> {}, phases |-> {},
         seq |-> 0, truth |-> NoTruth, digest |-> 0]

Init ==
    /\ project = Nowhere
    /\ plan = << >>
    /\ proc = [p \in Procs |-> Idle]
    /\ work = 0

PlanOf(m) == [tasks |-> m.list, moved |-> m.phases, seq |-> m.seq, truth |-> m.truth,
              digest |-> m.digest]

At(p, place) == proc[p].at = place
Goes(p, place) == proc' = [proc EXCEPT ![p].at = place]
Ends(p) == proc' = [proc EXCEPT ![p] = Idle]

\* A commit of a command, which rebuilds the projections and removes plan.json.
Commits(d) ==
    /\ project' = d
    /\ plan' = << >>

----------------------------------------------------------------------------
(* bootstrapProject.                                                        *)

\* An existing target is refused before anything is done.
StartBootstrap(p) ==
    /\ At(p, "idle") /\ ~project.here
    /\ Goes(p, "mkdir")
    /\ UNCHANGED <<project, plan, work>>

\* Fault: mkdir is recursive, and takes an existing directory for its own.
MakeDir_Recursive(p) ==
    /\ At(p, "mkdir")
    /\ project' = [project EXCEPT !.here = TRUE,
                                  !.fate = IF @ = "none" THEN "working" ELSE @]
    /\ proc' = [proc EXCEPT ![p].at = After("mkdir"), ![p].created = TRUE]
    /\ UNCHANGED <<plan, work>>

\* mkdir fails when the directory is there by now; the loser leaves it alone.
MakeDir(p) ==
    /\ At(p, "mkdir")
    /\ \/ /\ project.here
          /\ Ends(p)
          /\ UNCHANGED project
       \/ /\ ~project.here
          /\ project' = [Nowhere EXCEPT !.here = TRUE, !.fate = "working"]
          /\ proc' = [proc EXCEPT ![p].at = After("mkdir"), ![p].created = TRUE]
    /\ UNCHANGED <<plan, work>>

\* README.md, .gitignore and git init.
Files(p) ==
    /\ At(p, "files")
    /\ Goes(p, After("files"))
    /\ UNCHANGED <<project, plan, work>>

\* PkrRuntime.init, see PkrProject; a project that is there is refused.
InitRuntime(p) ==
    /\ At(p, "init") /\ ~project.store
    /\ Commits([project EXCEPT !.store = TRUE, !.seq = 1])
    /\ Goes(p, After("init"))
    /\ UNCHANGED work

Decide(p) ==
    /\ At(p, "decide")
    /\ Commits([project EXCEPT !.decision = TRUE, !.seq = @ + 1])
    /\ Goes(p, After("decide"))
    /\ UNCHANGED work

MakeGoal(p) ==
    /\ At(p, "goal")
    /\ Commits([project EXCEPT !.goal = TRUE, !.seq = @ + 1])
    /\ Goes(p, After("goal"))
    /\ UNCHANGED work

\* One Task after the other, in the order of the proposal.
MakeTask(p, t, rest) ==
    /\ t \notin project.tasks /\ t \in PlanTasks
    /\ \A s \in rest : s[2] < t[2] => s \in project.tasks
    /\ Commits([project EXCEPT !.tasks = @ \cup {t}, !.seq = @ + 1])
    /\ Goes(p, IF rest \subseteq project.tasks \cup {t} THEN After(t[1]) ELSE t[1])
    /\ UNCHANGED work
MakeMonth(p) == At(p, "month") /\ \E t \in MonthTasks : MakeTask(p, t, MonthTasks)
MakeDay(p) == At(p, "day") /\ \E t \in DayTasks : MakeTask(p, t, DayTasks)

WriteVerification(p) ==
    /\ At(p, "verification")
    /\ project' = [project EXCEPT !.verification = TRUE]
    /\ Goes(p, After("verification"))
    /\ UNCHANGED <<plan, work>>

\* git add, git commit.
GitCommit(p) ==
    /\ At(p, "commit")
    /\ project' = [project EXCEPT !.commit = TRUE]
    /\ Goes(p, After("commit"))
    /\ UNCHANGED <<plan, work>>

\* A plan whose project is removed reads on in the store it has open, which nobody
\* changes any more; only the Verification configuration is read by its path.
Leftover(m) ==
    LET early == m.at \in {"rebuild", "list", "phases"}
        list == IF m.at \in {"rebuild", "list"} THEN project.tasks ELSE m.list
        named == m.at \in {"digest", "write"}
    IN [Idle EXCEPT
          !.at = IF early \/ m.at = "configuration" THEN "bare" ELSE "orphan",
          !.list = list,
          !.phases = IF early THEN m.phases \cup ((list \ m.read) \cap project.moved)
                     ELSE m.phases,
          !.seq = IF named THEN m.seq ELSE project.seq,
          !.truth = IF named THEN m.truth
                    ELSE [tasks |-> project.tasks, moved |-> project.moved],
          !.digest = IF m.at = "write" THEN m.digest ELSE project.seq]

\* The project is gone under the plans of others.
Remove(p) ==
    /\ project' = Nowhere
    /\ plan' = << >>
    /\ proc' = [q \in Procs |-> IF q = p THEN Idle
                               ELSE IF proc[q].at \in Planning THEN Leftover(proc[q])
                               ELSE proc[q]]

\* Fault: once the runtime is open, only the runtime is closed.
Fails_Closes(p) ==
    /\ proc[p].created
    /\ IF project.store THEN Ends(p) /\ UNCHANGED <<project, plan>> ELSE Remove(p)
    /\ UNCHANGED work

\* Any step of a bootstrap may throw, in its own effect or in the rebuild of the
\* projections after it: what mkdir created is removed.
Fails(p) ==
    /\ proc[p].created
    /\ Remove(p)
    /\ UNCHANGED work

----------------------------------------------------------------------------
(* writeProjectPlanProjection, of a bootstrap or of `pkr project plan`.     *)

StartPlan(p) ==
    /\ At(p, "idle") /\ project.store
    /\ Goes(p, "rebuild")
    /\ UNCHANGED <<project, plan, work>>

Rebuild(p) ==
    /\ At(p, "rebuild")
    /\ plan' = << >>
    /\ Goes(p, After("rebuild"))
    /\ UNCHANGED <<project, work>>

\* A plan without a Task is refused.
ListTasks(p) ==
    /\ At(p, "list") /\ project.tasks # {}
    /\ proc' = [proc EXCEPT ![p].list = project.tasks, ![p].at = After("list")]
    /\ UNCHANGED <<project, plan, work>>

\* The phase of each Task is read again, by itself.
ReadPhase(p) ==
    /\ At(p, "phases")
    /\ \E t \in proc[p].list \ proc[p].read :
         proc' = [proc EXCEPT ![p].read = @ \cup {t},
                              ![p].phases = @ \cup ({t} \cap project.moved)]
    /\ UNCHANGED <<project, plan, work>>

\* All have one approved proposal and Goal, and each kind counts from one.
Contiguous(tasks) ==
    \A kind \in {"month", "day"} :
        LET S == {t[2] : t \in {s \in tasks : s[1] = kind}} IN
        S # {} /\ S = 1..Cardinality(S)

CheckTasks(p) ==
    /\ At(p, "phases") /\ proc[p].read = proc[p].list
    /\ Contiguous(proc[p].list)
    /\ project.decision /\ project.goal
    /\ Goes(p, After("phases"))
    /\ UNCHANGED <<project, plan, work>>

\* The plan needs the Verification configuration.
ReadConfiguration(p) ==
    /\ At(p, "configuration") /\ project.verification
    /\ Goes(p, After("configuration"))
    /\ UNCHANGED <<project, plan, work>>

ReadSequence(p) ==
    /\ At(p, "sequence")
    /\ proc' = [proc EXCEPT ![p].seq = project.seq, ![p].at = After("sequence"),
                            ![p].truth = [tasks |-> project.tasks, moved |-> project.moved]]
    /\ UNCHANGED <<project, plan, work>>

\* runtime.stateDigest reads the records and events again, by itself.
ReadDigest(p) ==
    /\ At(p, "digest")
    /\ proc' = [proc EXCEPT ![p].digest = project.seq, ![p].at = After("digest")]
    /\ UNCHANGED <<project, plan, work>>

\* The end of the plan, and of a bootstrap.
WritePlan(p) ==
    /\ At(p, "write")
    /\ plan' = <<PlanOf(proc[p])>>
    /\ project' = IF proc[p].created THEN [project EXCEPT !.fate = "done"] ELSE project
    /\ Ends(p)
    /\ UNCHANGED work

\* A check of the plan fails, or a read; a bootstrap fails with it (Fails).
PlanFails(p) ==
    /\ proc[p].at \in Planning /\ ~proc[p].created
    /\ Ends(p)
    /\ UNCHANGED <<project, plan, work>>

----------------------------------------------------------------------------
\* A command of another process moves a Task of the plan, or does something else.
Work ==
    /\ project.store /\ work < MaxWork
    /\ \E M \in SUBSET project.tasks :
         /\ Cardinality(M) <= 1
         /\ Commits([project EXCEPT !.moved = @ \cup M, !.seq = @ + 1])
    /\ work' = work + 1
    /\ UNCHANGED proc

\* The plan of a removed project fails, perhaps after it has rebuilt the projections,
\* or is written where the project was, and where another may be by now.
Orphan(p) ==
    /\ proc[p].at \in {"orphan", "bare"}
    /\ \/ UNCHANGED <<project, plan>>
       \/ /\ project' = [project EXCEPT !.here = TRUE]
          /\ \/ plan' \in {plan, << >>}
             \/ /\ Contiguous(proc[p].list) /\ (At(p, "bare") => project.verification)
                /\ plan' = <<PlanOf(proc[p])>>
    /\ Ends(p)
    /\ UNCHANGED work

Kill(p) ==
    /\ ~At(p, "idle")
    /\ project' = IF proc[p].created THEN [project EXCEPT !.fate = "killed"] ELSE project
    /\ Ends(p)
    /\ UNCHANGED <<plan, work>>

Bootstrap(p) ==
    \/ MakeDir(p) \/ Files(p) \/ InitRuntime(p) \/ Decide(p) \/ MakeGoal(p)
    \/ MakeMonth(p) \/ MakeDay(p) \/ WriteVerification(p) \/ GitCommit(p)

Plan(p) ==
    \/ Rebuild(p) \/ ListTasks(p) \/ ReadPhase(p) \/ CheckTasks(p)
    \/ ReadConfiguration(p) \/ ReadSequence(p) \/ ReadDigest(p) \/ WritePlan(p)
    \/ PlanFails(p)

Next ==
    \/ \E p \in Procs :
         StartBootstrap(p) \/ Bootstrap(p) \/ Fails(p) \/ StartPlan(p) \/ Plan(p)
         \/ Orphan(p) \/ Kill(p)
    \/ Work

Spec == Init /\ [][Next]_vars

----------------------------------------------------------------------------
(* Properties.                                                              *)

Truths == [tasks : SUBSET PlanTasks, moved : SUBSET PlanTasks]
Plans == [tasks : SUBSET PlanTasks, moved : SUBSET PlanTasks, seq : Nat, truth : Truths,
          digest : Nat]
Projects == [here : BOOLEAN, store : BOOLEAN, decision : BOOLEAN, goal : BOOLEAN,
             tasks : SUBSET PlanTasks, moved : SUBSET PlanTasks,
             verification : BOOLEAN, commit : BOOLEAN, seq : Nat,
             fate : {"none", "working", "killed", "done"}]
Processes == [at : Bootstrapping \cup Planning \cup {"idle", "orphan", "bare"},
              created : BOOLEAN, list : SUBSET PlanTasks,
              read : SUBSET PlanTasks, phases : SUBSET PlanTasks, seq : Nat, truth : Truths,
              digest : Nat]
TypeOK ==
    /\ project \in Projects
    /\ plan = << >> \/ (plan[1] \in Plans /\ plan = <<plan[1]>>)
    /\ proc \in [Procs -> Processes]
    /\ work \in 0..MaxWork

(* The project of a bootstrap that reported success is complete, and stays:  *)
(* no other bootstrap of the same directory removes it or changes it.        *)
DoneStays ==
    [][project.fate = "done" =>
          /\ project.tasks = PlanTasks
          /\ project.decision /\ project.goal /\ project.verification /\ project.commit
          /\ project' = [project EXCEPT !.moved = project'.moved, !.seq = project'.seq]]_vars

(* A bootstrap that reported failure has left no project: one that is found  *)
(* is complete, or of a bootstrap that goes on or was killed.                *)
NoFailedProject ==
    project.store =>
        \/ project.fate \in {"done", "killed"}
        \/ (project.fate = "working") /\ \E p \in Procs : proc[p].created

(* A plan is accepted by the Tasks it lists and not by their number.  Even   *)
(* one read beside the bootstrap, or after it was killed, has every month.   *)
PlanHasEveryMonth == plan # << >> => MonthTasks \subseteq plan[1].tasks

(* A plan is read in pieces while others work.  The Tasks and the phases it  *)
(* shows are not newer than the project sequence it names, and the state     *)
(* whose digest it names is not older: the digest is read after the          *)
(* sequence, and may be of a later state.                                    *)
PlanNotNewer ==
    plan # << >> =>
        /\ plan[1].tasks \subseteq plan[1].truth.tasks
        /\ plan[1].moved \subseteq plan[1].truth.moved
        /\ plan[1].seq <= plan[1].digest

----------------------------------------------------------------------------
(* Strengthenings that make the properties inductive.                       *)

\* One process made the directory, and it is the one that works on the project until
\* it is done or killed.
OneMaker ==
    /\ \A p \in Procs : proc[p].created =>
         /\ project.here /\ project.fate = "working"
         /\ proc[p].at \in (Bootstrapping \ {"mkdir"}) \cup Planning
         /\ \A q \in Procs : proc[q].created => q = p
    /\ \A p \in Procs : proc[p].at \in Bootstrapping \ {"mkdir"} => proc[p].created
    /\ project.fate = "working" => \E p \in Procs : proc[p].created
    /\ project.store => project.here /\ project.fate # "none"
    /\ \A p \in Procs : proc[p].at \in Planning => project.store

\* What a bootstrap has done when it is at a place: everything before it.
Passed(place, later) == place \in later \cup Planning
Progress ==
    \A p \in Procs : proc[p].created =>
        LET past(later) == Passed(proc[p].at, later) IN
        /\ past({"decide", "goal", "month", "day", "verification", "commit"}) => project.store
        /\ past({"goal", "month", "day", "verification", "commit"}) => project.decision
        /\ past({"month", "day", "verification", "commit"}) => project.goal
        /\ past({"day", "verification", "commit"}) => MonthTasks \subseteq project.tasks
        /\ past({"verification", "commit"}) => project.tasks = PlanTasks
        /\ past({"commit"}) => project.verification
        /\ past({}) => project.commit

Complete ==
    /\ project.here /\ project.store /\ project.tasks = PlanTasks
    /\ project.decision /\ project.goal /\ project.verification /\ project.commit
DoneIsComplete == project.fate = "done" => Complete

\* The months come before the days, in the project and in what a plan has read of it.
MonthsFirst(tasks) == DayTasks \cap tasks # {} => MonthTasks \subseteq tasks

\* What a plan has read is still so, if the project is still there, and was when it
\* read the sequence.
PlanReads ==
    \A p \in Procs :
        /\ proc[p].at \notin {"phases", "configuration", "sequence", "digest", "write",
                              "orphan", "bare"} =>
             proc[p].list = {} /\ proc[p].phases = {}
        /\ proc[p].at \in {"configuration", "sequence", "digest", "write"} =>
             MonthTasks \subseteq proc[p].list
        /\ MonthsFirst(proc[p].list)
        /\ proc[p].at \notin {"orphan", "bare"} =>
             proc[p].list \subseteq project.tasks /\ proc[p].phases \subseteq project.moved
        /\ proc[p].at \in {"digest", "write", "orphan", "bare"} =>
             /\ proc[p].list \subseteq proc[p].truth.tasks
             /\ proc[p].phases \subseteq proc[p].truth.moved
        /\ At(p, "digest") => proc[p].seq <= project.seq
        /\ proc[p].at \in {"write", "orphan", "bare"} => proc[p].seq <= proc[p].digest

ManagerInv ==
    /\ TypeOK /\ OneMaker /\ Progress /\ DoneIsComplete
    /\ MonthsFirst(project.tasks) /\ PlanReads
    /\ NoFailedProject /\ PlanHasEveryMonth /\ PlanNotNewer
=============================================================================
