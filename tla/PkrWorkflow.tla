---------------------------- MODULE PkrWorkflow ----------------------------
(***************************************************************************)
(* Portable Workflows (src/src/workflow.ts, startPortableWorkflow and      *)
(* transitionPortableWorkflow of src/src/runtime.ts): runs of a definition *)
(* that a Package brought in.  A call reads the run, the Workflow and the  *)
(* edge first and commits in a transaction of its own, under a command id  *)
(* that a caller may send again.                                           *)
(*                                                                         *)
(* A Workflow has its last revision from the moment it is active, so what  *)
(* a run is bound to never changes.                                        *)
(***************************************************************************)
EXTENDS Naturals, FiniteSets, Sequences

CONSTANTS
    Callers,        \* processes
    Runs,           \* WorkflowRuns; the id comes from the command that starts it
    Commands,       \* command ids of transitions
    Initial,        \* the definition: its first state,
    Edges,          \* and its edges, a sequence of [from, to, when],
    Contexts,       \* where when is the set of contexts for which it holds
    NoCommand,      \* a command id that is not used
    MaxRev          \* bound on the revisions of a run

\* States that a run can come to, and transitions that a command can stand for.
PathStates == {Initial} \cup {Edges[i].to : i \in DOMAIN Edges}
Moves == [run : Runs, from : PathStates, to : PathStates, context : Contexts]

ASSUME CommandAssumption == NoCommand \notin Moves
ASSUME RevAssumption == MaxRev \in Nat

VARIABLES
    run,        \* the WorkflowRun records
    committed,  \* what each command id stands for, once it is committed
    active,     \* the Package of the Workflow has an active installation
    call        \* what each process has read and is about to commit

flow == <<run, committed, active, call>>

----------------------------------------------------------------------------
NoRun == [rev |-> 0, state |-> Initial, completed |-> {}]
Ready == [at |-> "ready"]

WorkflowInit ==
    /\ run = [r \in Runs |-> NoRun]
    /\ committed = [c \in Commands |-> NoCommand]
    /\ active = TRUE
    /\ call = [p \in Callers |-> Ready]

Returns(p) == call' = [call EXCEPT ![p] = Ready]

\* The first edge between two states; another one is never looked at.
EdgeFor(from, to) ==
    LET found == {i \in DOMAIN Edges : Edges[i].from = from /\ Edges[i].to = to}
    IN  {Edges[i] : i \in {j \in found : \A k \in found : j <= k}}

----------------------------------------------------------------------------
(* startPortableWorkflow.                                                   *)

StartRead(p, r) ==
    /\ call[p] = Ready /\ active
    /\ call' = [call EXCEPT ![p] = [at |-> "start", run |-> r]]
    /\ UNCHANGED <<run, committed, active>>

\* The command that is sent again, whoever sends it, is replayed.
StartCommit(p) ==
    /\ call[p].at = "start"
    /\ LET r == call[p].run IN
       run' = [run EXCEPT ![r] = IF @.rev = 0 THEN [NoRun EXCEPT !.rev = 1] ELSE @]
    /\ Returns(p)
    /\ UNCHANGED <<committed, active>>

----------------------------------------------------------------------------
(* transitionPortableWorkflow.                                              *)

TransitionRead(p, c, r, to, ctx) ==
    /\ call[p] = Ready /\ run[r].rev \in 1..(MaxRev - 1)
    /\ \E e \in EdgeFor(run[r].state, to) : ctx \in e.when
    /\ call' = [call EXCEPT ![p] = [at |-> "transition", command |-> c, rev |-> run[r].rev,
                                    completed |-> run[r].completed \cup {run[r].state},
                                    move |-> [run |-> r, from |-> run[r].state, to |-> to,
                                              context |-> ctx]]]
    /\ UNCHANGED <<run, committed, active>>

\* The changed record is made from the one that was read.
Move(p) ==
    LET m == call[p].move IN
    /\ run' = [run EXCEPT ![m.run] = [rev |-> call[p].rev + 1, state |-> m.to,
                                      completed |-> call[p].completed]]
    /\ committed' = [committed EXCEPT ![call[p].command] = m]

Transits(p) == call[p].at = "transition"

\* Fault: the command is not looked up before it is applied.
TransitionCommit_Resent(p) ==
    /\ Transits(p)
    /\ run[call[p].move.run].rev = call[p].rev
    /\ Move(p)
    /\ Returns(p)
    /\ UNCHANGED active

TransitionCommit(p) ==
    /\ Transits(p) /\ committed[call[p].command] = NoCommand
    /\ run[call[p].move.run].rev = call[p].rev
    /\ Move(p)
    /\ Returns(p)
    /\ UNCHANGED active

\* A replay, a conflict of content or of revision: nothing is changed.
TransitionEnds(p) ==
    /\ Transits(p)
    /\ \/ committed[call[p].command] # NoCommand
       \/ run[call[p].move.run].rev # call[p].rev
    /\ Returns(p)
    /\ UNCHANGED <<run, committed, active>>

----------------------------------------------------------------------------
\* A Package is uninstalled, or rolled back (see PkrEvolution), while runs go on.
PackageChanges ==
    /\ active' = ~active
    /\ UNCHANGED <<run, committed, call>>

Workflow(p) ==
    \/ \E r \in Runs : StartRead(p, r)
    \/ StartCommit(p)
    \/ \E c \in Commands, r \in Runs, e \in 1..Len(Edges), ctx \in Contexts :
         TransitionRead(p, c, r, Edges[e].to, ctx)
    \/ TransitionCommit(p) \/ TransitionEnds(p)

WorkflowNext == PackageChanges \/ \E p \in Callers : Workflow(p)

----------------------------------------------------------------------------
(* Properties.                                                              *)

Start == [at : {"start"}, run : Runs]
Transition == [at : {"transition"}, command : Commands, rev : Nat,
               completed : SUBSET PathStates, move : Moves]

WorkflowTypeOK ==
    /\ run \in [Runs -> [rev : Nat, state : PathStates, completed : SUBSET PathStates]]
    /\ committed \in [Commands -> Moves \cup {NoCommand}]
    /\ active \in BOOLEAN
    /\ call \in [Callers -> {Ready} \cup Start \cup Transition]

(* A run takes one declared edge at a time, from the state it is in, and     *)
(* loses no step it has completed, however many callers move it at once;     *)
(* and a command id that is sent again never moves a run a second time, not  *)
(* even when a cycle has brought the run back to where it was first sent.    *)
RunsTakeEdgesOnce ==
    [][\A r \in Runs : (run[r].rev > 0 /\ run'[r] # run[r]) =>
          /\ run'[r].rev = run[r].rev + 1
          /\ run'[r].completed = run[r].completed \cup {run[r].state}
          /\ \E i \in DOMAIN Edges : Edges[i].from = run[r].state /\ Edges[i].to = run'[r].state
          /\ \E c \in Commands : committed[c] = NoCommand /\ committed'[c] # NoCommand]_flow

----------------------------------------------------------------------------
\* A transition that is about to commit has read the run as it is, or the run has
\* been revised since.
ReadRight(p) ==
    LET m == call[p].move
        r == m.run
    IN  /\ call[p].rev \in 1..run[r].rev
        /\ run[r].rev = call[p].rev =>
             /\ run[r].state = m.from
             /\ call[p].completed = run[r].completed \cup {run[r].state}
        /\ \E i \in DOMAIN Edges : Edges[i].from = m.from /\ Edges[i].to = m.to

WorkflowInv == WorkflowTypeOK /\ \A p \in Callers : Transits(p) => ReadRight(p)
=============================================================================
