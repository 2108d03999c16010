---------------------------- MODULE VersionLine ----------------------------
(***************************************************************************)
(* What governed evolution promises about anything it manages (a Prompt,   *)
(* the governance Policy, an Adapter, a Package): every line of versions   *)
(* has at most one content in force, and that content changes only by the  *)
(* promotion of an approved change that was made against exactly the       *)
(* content it replaces, or back to a content that was in force before.     *)
(* Only the line of an installable Package is open: its owner may also     *)
(* install any content directly, and uninstall it, and a promotion there   *)
(* replaces whatever is in force when it happens: what is promised of it   *)
(* is only that its content was approved, for something this line had.     *)
(***************************************************************************)
CONSTANTS
    Lines,      \* managed things
    Contents,   \* what a version may contain
    Nothing     \* no content is in force, itself not one

VARIABLES
    inForce,    \* inForce[l]: the content of l that is in force, or Nothing
    past,       \* past[l]: every content of l that has been in force
    promoted,   \* promoted[l]: the promotions there were: [over, content]
    approved,   \* approved changes: [base, content]
    open        \* the lines can be installed and uninstalled directly

vars == <<inForce, past, promoted, approved, open>>

Init ==
    /\ inForce = [l \in Lines |-> Nothing]
    /\ past = [l \in Lines |-> {}]
    /\ promoted = [l \in Lines |-> {}]
    /\ approved = {}
    /\ open \in BOOLEAN

Enters(l, c) ==
    /\ inForce' = [inForce EXCEPT ![l] = c]
    /\ past' = [past EXCEPT ![l] = @ \cup {c}]
    /\ UNCHANGED <<approved, open>>

\* The first content of a line, or any that its owner installs on an open one.
Adopt(l, c) ==
    /\ inForce[l] = Nothing \/ open
    /\ Enters(l, c)
    /\ UNCHANGED promoted

\* A promotion, recorded with what it replaces.
Promote(l, c) ==
    /\ Enters(l, c)
    /\ promoted' = [promoted EXCEPT ![l] = @ \cup {[over |-> inForce[l], content |-> c]}]

\* A change that was approved for the content that is in force.
Replace(l, c) ==
    /\ [base |-> inForce[l], content |-> c] \in approved
    /\ Promote(l, c)

\* On an open line, a change that was approved for a content of its past.
Overtake(l, c) ==
    /\ open
    /\ \E b \in past[l] : [base |-> b, content |-> c] \in approved
    /\ Promote(l, c)

\* Back to what was in force before.
Restore(l, c) ==
    /\ inForce[l] # Nothing
    /\ c \in past[l]
    /\ Enters(l, c)
    /\ UNCHANGED promoted

Withdraw(l) ==
    /\ open
    /\ inForce' = [inForce EXCEPT ![l] = Nothing]
    /\ UNCHANGED <<past, promoted, approved, open>>

Approve(b, c) ==
    /\ approved' = approved \cup {[base |-> b, content |-> c]}
    /\ UNCHANGED <<inForce, past, promoted, open>>

Next ==
    \/ \E l \in Lines : Withdraw(l)
    \/ \E l \in Lines, c \in Contents :
         Adopt(l, c) \/ Replace(l, c) \/ Overtake(l, c) \/ Restore(l, c)
    \/ \E b, c \in Contents : Approve(b, c)

Spec == Init /\ [][Next]_vars
=============================================================================
