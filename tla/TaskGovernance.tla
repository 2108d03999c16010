--------------------------- MODULE TaskGovernance ---------------------------
(***************************************************************************)
(* What governed execution promises of a Task, with no processes, records, *)
(* revisions or Leases: one Assignment at a time holds the Task's lane; no *)
(* Assignment ever holds a lane twice; acceptance comes only while a lane  *)
(* waits for verification; only an interrupted Task is opened again.       *)
(***************************************************************************)
EXTENDS FiniteSets

CONSTANTS Tasks, Assignments

VARIABLES
    phase,  \* phase[t]: backlog, inProgress, verifying, interrupted, blocked,
            \* done or cancelled
    lane,   \* lane[t]: the Assignment that holds the Task, as a set
    used    \* Assignments that have held a lane

vars == <<phase, lane, used>>

Init ==
    /\ phase = [t \in Tasks |-> "backlog"]
    /\ lane = [t \in Tasks |-> {}]
    /\ used = {}

Open(t, a) ==
    /\ phase[t] \in {"backlog", "interrupted"}
    /\ lane[t] = {}
    /\ a \notin used
    /\ phase' = [phase EXCEPT ![t] = "inProgress"]
    /\ lane' = [lane EXCEPT ![t] = {a}]
    /\ used' = used \cup {a}

Submit(t) ==
    /\ phase[t] = "inProgress"
    /\ phase' = [phase EXCEPT ![t] = "verifying"]
    /\ UNCHANGED <<lane, used>>

\* The lane is given up, from the phase and into the phase given.
Leave(t, from, to) ==
    /\ phase[t] = from
    /\ phase' = [phase EXCEPT ![t] = to]
    /\ lane' = [lane EXCEPT ![t] = {}]
    /\ UNCHANGED used

Next ==
    \E t \in Tasks :
        \/ \E a \in Assignments : Open(t, a)
        \/ Submit(t)
        \/ \E to \in {"interrupted", "blocked", "cancelled"} :
              Leave(t, "inProgress", to)
        \/ \E to \in {"done", "blocked", "cancelled"} : Leave(t, "verifying", to)

Spec == Init /\ [][Next]_vars

=============================================================================
