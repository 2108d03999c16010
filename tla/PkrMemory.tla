----------------------------- MODULE PkrMemory -----------------------------
(***************************************************************************)
(* Memory (src/src/memory.ts and src/src/runtime.ts): entries derived from *)
(* exact revisions of other records, invalidated by whoever retrieves or   *)
(* promotes next once a source has been superseded.                        *)
(*                                                                         *)
(* A source may be any record; the ones here are the WorkflowRuns of       *)
(* PkrWorkflow, which its transitions supersede at any moment.             *)
(***************************************************************************)
EXTENDS PkrWorkflow

CONSTANTS
    Entries     \* MemoryEntries; the id comes from the command that derives it

VARIABLES
    memory,     \* the MemoryEntry records; rev is 2 once invalidated
    reader      \* what each process of the Memory service does

vars == <<run, committed, active, call, memory, reader>>

----------------------------------------------------------------------------
\* sources are the revisions an entry is bound to; 0 is no source.
NoSources == [r \in Runs |-> 0]
NoEntry == [rev |-> 0, sources |-> NoSources]
Resting == [at |-> "resting"]

\* What another caller has read does not concern this one: the two services
\* are used by the same processes, one call at a time.
Free(p) == call[p] = Ready /\ reader[p] = Resting
Reads(p) == reader[p].at
Closes(p) == reader' = [reader EXCEPT ![p] = Resting]

\* A caller of the reconciliation goes on; wanted, was and seen are as it asked.
Onward(p, place, todo, result) ==
    reader' = [reader EXCEPT ![p] =
        [at |-> place, wanted |-> reader[p].wanted, was |-> reader[p].was,
         seen |-> reader[p].seen, todo |-> todo, result |-> result]]

Init ==
    /\ WorkflowInit
    /\ memory = [e \in Entries |-> NoEntry]
    /\ reader = [p \in Callers |-> Resting]

Revisions == [r \in Runs |-> run[r].rev]
Bound(sources) == {r \in Runs : sources[r] > 0}

\* Against the records as they were read at some time.
StaleIn(e, seen) == \E r \in Bound(memory[e].sources) : memory[e].sources[r] # seen[r]

Valid == {e \in Entries : memory[e].rev = 1}

----------------------------------------------------------------------------
(* deriveMemory.                                                            *)

\* The caller names the revisions it has seen; each is checked by itself.
DeriveStart(p, e, S) ==
    /\ Free(p) /\ S # {}
    /\ \A r \in S : run[r].rev > 0
    /\ reader' = [reader EXCEPT ![p] = [at |-> "derive", entry |-> e, checked |-> {},
                                        sources |->
                                          [r \in Runs |-> IF r \in S THEN run[r].rev ELSE 0]]]
    /\ UNCHANGED <<flow, memory>>

\* A revision that is not current ends the call.
DeriveCheck(p) ==
    /\ Reads(p) = "derive"
    /\ \E r \in Bound(reader[p].sources) \ reader[p].checked :
         IF run[r].rev = reader[p].sources[r]
         THEN reader' = [reader EXCEPT ![p].checked = @ \cup {r}]
         ELSE Closes(p)
    /\ UNCHANGED <<flow, memory>>

\* Fault: an entry that is there is written over.
DeriveCommit_Overwrites(p) ==
    /\ Reads(p) = "derive"
    /\ reader[p].checked = Bound(reader[p].sources)
    /\ memory' = [memory EXCEPT ![reader[p].entry] =
                    [rev |-> 1, sources |-> reader[p].sources]]
    /\ Closes(p)
    /\ UNCHANGED flow

\* The sources are not compared again.  A command sent again is replayed, or
\* refused for its other content.
DeriveCommit(p) ==
    /\ Reads(p) = "derive"
    /\ reader[p].checked = Bound(reader[p].sources)
    /\ memory' = [memory EXCEPT ![reader[p].entry] =
                    IF @.rev = 0 THEN [rev |-> 1, sources |-> reader[p].sources] ELSE @]
    /\ Closes(p)
    /\ UNCHANGED flow

----------------------------------------------------------------------------
(* reconcileMemorySources, by retrieve (no entry) or promote (one entry).   *)

\* was are the entries there are when the call starts.
Ask(p, wanted) ==
    /\ Free(p) /\ wanted \subseteq Entries /\ Cardinality(wanted) <= 1
    /\ reader' = [reader EXCEPT ![p] = [at |-> "read", wanted |-> wanted, todo |-> {},
                                        was |-> Valid, seen |-> Revisions, result |-> {}]]
    /\ UNCHANGED <<flow, memory>>

\* The entries are listed after all the records were.
ListEntries(p) ==
    /\ Reads(p) = "read"
    /\ Onward(p, "reconcile", {e \in Valid : StaleIn(e, reader[p].seen)}, {})
    /\ UNCHANGED <<flow, memory>>

\* The command id is that of the entry and its revision, so that the second of
\* two processes replays what the first has committed.
Invalidate(p) ==
    /\ Reads(p) = "reconcile"
    /\ \E e \in reader[p].todo :
         /\ memory' = [memory EXCEPT ![e].rev = 2]
         /\ Onward(p, "reconcile", reader[p].todo \ {e}, {})
    /\ UNCHANGED flow

Reconciled(p) == Reads(p) = "reconcile" /\ reader[p].todo = {}

\* Fault: the entries are listed before the reconciliation.
Retrieve_Listed(p) ==
    /\ Reconciled(p) /\ reader[p].wanted = {}
    /\ Onward(p, "served", {}, reader[p].was)
    /\ UNCHANGED <<flow, memory>>

\* listMemory; who may see what is left out.
Retrieve(p) ==
    /\ Reconciled(p) /\ reader[p].wanted = {}
    /\ Onward(p, "served", {}, Valid)
    /\ UNCHANGED <<flow, memory>>

\* promoteMemory reads the entry again and then commits Knowledge of its summary,
\* without comparing the entry in the transaction.
PromoteRead(p) ==
    /\ Reconciled(p) /\ reader[p].wanted # {}
    /\ IF reader[p].wanted \subseteq Valid
       THEN Onward(p, "served", {}, reader[p].wanted)
       ELSE Closes(p)
    /\ UNCHANGED <<flow, memory>>

Serve(p) ==
    /\ Reads(p) = "served"
    /\ Closes(p)
    /\ UNCHANGED <<flow, memory>>

KillReader(p) ==
    /\ Reads(p) # "resting"
    /\ Closes(p)
    /\ UNCHANGED <<flow, memory>>

Memory(p) ==
    \/ \E e \in Entries, S \in SUBSET Runs : DeriveStart(p, e, S)
    \/ DeriveCheck(p) \/ DeriveCommit(p)
    \/ \E wanted \in SUBSET Entries : Ask(p, wanted)
    \/ ListEntries(p) \/ Invalidate(p) \/ Retrieve(p) \/ PromoteRead(p) \/ Serve(p)
    \/ KillReader(p)

Next ==
    \/ /\ \/ PackageChanges
          \/ \E p \in Callers : reader[p] = Resting /\ Workflow(p)
       /\ UNCHANGED <<memory, reader>>
    \/ \E p \in Callers : Memory(p)

Spec == Init /\ [][Next]_vars

----------------------------------------------------------------------------
(* Properties.                                                              *)

Derivation == [at : {"derive"}, entry : Entries, sources : [Runs -> Nat],
               checked : SUBSET Runs]
Reconciliation == [at : {"read", "reconcile", "served"}, wanted : SUBSET Entries,
                   was : SUBSET Entries, seen : [Runs -> Nat], todo : SUBSET Entries,
                   result : SUBSET Entries]
TypeOK ==
    /\ WorkflowTypeOK
    /\ memory \in [Entries -> [rev : 0..2, sources : [Runs -> Nat]]]
    /\ reader \in [Callers -> {Resting} \cup Derivation \cup Reconciliation]

(* What is retrieved or promoted was current when it was asked for, unless   *)
(* it is newer than that: an entry that had lost a source by then is not     *)
(* served, though each step of the reconciliation reads at its own time and  *)
(* others derive, supersede and invalidate meanwhile.                        *)
ServedWasCurrent ==
    \A p \in Callers : Reads(p) = "served" =>
        \A e \in reader[p].result \cap reader[p].was : ~StaleIn(e, reader[p].seen)

(* An entry that was there when the records were read is invalidated only if *)
(* one of its sources has been superseded; and no entry is invalidated twice *)
(* or changed in any other way, by however many readers at once.             *)
InvalidatedOnce ==
    [][\A e \in Entries : (memory[e].rev > 0 /\ memory'[e] # memory[e]) =>
          /\ memory[e].rev = 1 /\ memory'[e] = [memory[e] EXCEPT !.rev = 2]
          /\ \E p \in Callers :
               /\ Reads(p) = "reconcile" /\ e \in reader[p].todo
               /\ e \in reader[p].was => StaleIn(e, Revisions)]_vars

----------------------------------------------------------------------------
(* Strengthenings that make the properties inductive.                       *)

\* No source is bound at a revision that it has not had yet.
AtMost(sources, revisions) == \A r \in Runs : sources[r] <= revisions[r]

SourcesExist ==
    /\ \A e \in Entries : memory[e].rev > 0 => AtMost(memory[e].sources, Revisions)
    /\ \A p \in Callers : Reads(p) = "derive" => AtMost(reader[p].sources, Revisions)

\* What the caller of a reconciliation holds of the time when it asked.
Asked(p) ==
    /\ \A r \in Runs : reader[p].seen[r] <= run[r].rev
    /\ \A e \in reader[p].was :
         memory[e].rev > 0 /\ AtMost(memory[e].sources, reader[p].seen)
    /\ \A e \in reader[p].todo : memory[e].rev > 0 /\ StaleIn(e, reader[p].seen)
    /\ Reads(p) = "reconcile" =>
         \A e \in reader[p].was :
            memory[e].rev = 1 /\ StaleIn(e, reader[p].seen) => e \in reader[p].todo
    /\ Reads(p) = "served" =>
         \A e \in reader[p].result \cap reader[p].was : ~StaleIn(e, reader[p].seen)

Asking(p) == Reads(p) \in {"read", "reconcile", "served"}
MemoryInv ==
    /\ TypeOK
    /\ SourcesExist
    /\ \A p \in Callers : Asking(p) => Asked(p)
=============================================================================
