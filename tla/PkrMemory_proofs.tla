-------------------------- MODULE PkrMemory_proofs --------------------------
(***************************************************************************)
(* Proofs about portable Workflows and Memory, for any processes, runs,    *)
(* entries, commands and definition.                                       *)
(***************************************************************************)
EXTENDS PkrMemory, TLAPS

----------------------------------------------------------------------------
(* Portable Workflows.                                                      *)

\* A first edge between two states is an edge between them.
LEMMA EdgeIsDeclared ==
    ASSUME NEW from, NEW to, NEW e \in EdgeFor(from, to)
    PROVE  \E i \in DOMAIN Edges : Edges[i] = e /\ Edges[i].from = from /\ Edges[i].to = to
BY DEF EdgeFor

\* Every step of a Workflow service keeps the types and what its callers have read.
LEMMA WorkflowStep ==
    ASSUME WorkflowInv, WorkflowNext \/ UNCHANGED flow
    PROVE  WorkflowInv'
<1> USE DEF WorkflowInv, WorkflowTypeOK, flow, Transits
<1>1. CASE UNCHANGED flow
  BY <1>1 DEF ReadRight
<1>2. CASE PackageChanges
  BY <1>2 DEF PackageChanges, ReadRight
<1>3. ASSUME NEW p \in Callers, NEW r \in Runs, StartRead(p, r) PROVE WorkflowInv'
  <2>1. /\ UNCHANGED <<run, committed, active>>
        /\ call' = [call EXCEPT ![p] = [at |-> "start", run |-> r]]
    BY <1>3 DEF StartRead
  <2>2. WorkflowTypeOK'
    BY <2>1 DEF Start
  <2>3. ASSUME NEW q \in Callers, Transits(q)' PROVE q # p /\ ReadRight(q)'
    BY <2>1, <2>3 DEF ReadRight
  <2> QED BY <2>2, <2>3
<1>4. ASSUME NEW p \in Callers, StartCommit(p) PROVE WorkflowInv'
  <2> DEFINE s == call[p].run
  <2>1. call[p] \in Start
    BY <1>4 DEF StartCommit, Ready, Transition
  <2>2. s \in Runs
    BY <2>1 DEF Start
  <2>3. /\ UNCHANGED <<committed, active>>
        /\ run' = [run EXCEPT ![s] = IF @.rev = 0 THEN [NoRun EXCEPT !.rev = 1] ELSE @]
        /\ call' = [call EXCEPT ![p] = Ready]
    BY <1>4 DEF StartCommit, Returns
  <2>4. \A r \in Runs : run'[r] = run[r] \/ (run[r].rev = 0 /\ run'[r].rev = 1)
    BY <2>2, <2>3 DEF NoRun
  <2>5. [NoRun EXCEPT !.rev = 1] \in [rev : Nat, state : PathStates, completed : SUBSET PathStates]
    BY DEF NoRun, PathStates
  <2>6. WorkflowTypeOK'
    BY <2>2, <2>3, <2>5
  <2>7. ASSUME NEW q \in Callers, Transits(q)' PROVE ReadRight(q)'
    <3>1. Transits(q) /\ call'[q] = call[q]
      BY <2>3, <2>7 DEF Ready
    <3>2. ReadRight(q) /\ call[q] \in Transition
      BY <3>1 DEF Ready, Start
    <3>3. call[q].move.run \in Runs
      BY <3>2 DEF Transition, Moves
    <3> QED BY <3>1, <3>2, <3>3, <2>4 DEF ReadRight
  <2> QED BY <2>6, <2>7
<1>5. ASSUME NEW p \in Callers, NEW c \in Commands, NEW r \in Runs, NEW to,
             NEW ctx \in Contexts, TransitionRead(p, c, r, to, ctx)
      PROVE  WorkflowInv'
  <2> DEFINE m == [run |-> r, from |-> run[r].state, to |-> to, context |-> ctx]
             t == [at |-> "transition", command |-> c, rev |-> run[r].rev,
                   completed |-> run[r].completed \cup {run[r].state}, move |-> m]
  <2>1. /\ UNCHANGED <<run, committed, active>>
        /\ call' = [call EXCEPT ![p] = t]
        /\ run[r].rev \in 1..(MaxRev - 1)
        /\ \E e \in EdgeFor(run[r].state, to) : ctx \in e.when
    BY <1>5 DEF TransitionRead
  <2>2. \E i \in DOMAIN Edges : Edges[i].from = run[r].state /\ Edges[i].to = to
    BY <2>1, EdgeIsDeclared
  <2>3. run[r] \in [rev : Nat, state : PathStates, completed : SUBSET PathStates]
    OBVIOUS
  <2>4. m \in Moves
    BY <2>2, <2>3 DEF Moves, PathStates
  <2>5. t \in Transition
    BY <2>3, <2>4 DEF Transition
  <2>6. WorkflowTypeOK'
    BY <2>1, <2>5
  <2>7. ASSUME NEW q \in Callers, Transits(q)' PROVE ReadRight(q)'
    <3>1. CASE q = p
      <4>1. call'[q] = t /\ run[r].rev \in Nat /\ run[r].rev >= 1
        BY <3>1, <2>1, <2>3, RevAssumption
      <4> QED BY <4>1, <2>1, <2>2 DEF ReadRight
    <3>2. CASE q # p
      BY <3>2, <2>1, <2>7 DEF ReadRight
    <3> QED BY <3>1, <3>2
  <2> QED BY <2>6, <2>7
<1>6. ASSUME NEW p \in Callers, TransitionCommit(p) PROVE WorkflowInv'
  <2> DEFINE m == call[p].move
             n == [rev |-> call[p].rev + 1, state |-> m.to, completed |-> call[p].completed]
  <2>1. /\ Transits(p) /\ run[m.run].rev = call[p].rev
        /\ run' = [run EXCEPT ![m.run] = n]
        /\ committed' = [committed EXCEPT ![call[p].command] = m]
        /\ call' = [call EXCEPT ![p] = Ready]
        /\ UNCHANGED active
    BY <1>6 DEF TransitionCommit, Move, Returns
  <2>2. call[p] \in Transition
    BY <2>1 DEF Ready, Start
  <2>3. m \in Moves /\ m.run \in Runs /\ m.to \in PathStates /\ call[p].rev \in Nat
        /\ call[p].completed \in SUBSET PathStates /\ call[p].command \in Commands
    BY <2>2 DEF Transition, Moves
  <2>4. n \in [rev : Nat, state : PathStates, completed : SUBSET PathStates]
    BY <2>3
  <2>5. WorkflowTypeOK'
    BY <2>1, <2>3, <2>4
  <2>6. ASSUME NEW q \in Callers, Transits(q)' PROVE ReadRight(q)'
    <3>1. Transits(q) /\ call'[q] = call[q]
      BY <2>1, <2>6 DEF Ready
    <3>2. ReadRight(q) /\ call[q] \in Transition
      BY <3>1 DEF Ready, Start
    <3>3. call[q].move.run \in Runs /\ call[q].rev \in Nat
      BY <3>2 DEF Transition, Moves
    <3>4. CASE call[q].move.run = m.run
      <4>1. run'[m.run].rev = run[m.run].rev + 1 /\ run[m.run].rev \in Nat
        BY <2>1, <2>3
      <4> QED BY <4>1, <3>1, <3>2, <3>3, <3>4 DEF ReadRight
    <3>5. CASE call[q].move.run # m.run
      BY <3>1, <3>2, <3>3, <3>5, <2>1 DEF ReadRight
    <3> QED BY <3>4, <3>5
  <2> QED BY <2>5, <2>6
<1>7. ASSUME NEW p \in Callers, TransitionEnds(p) PROVE WorkflowInv'
  <2>1. /\ UNCHANGED <<run, committed, active>>
        /\ call' = [call EXCEPT ![p] = Ready]
    BY <1>7 DEF TransitionEnds, Returns
  <2>2. WorkflowTypeOK'
    BY <2>1
  <2>3. ASSUME NEW q \in Callers, Transits(q)' PROVE ReadRight(q)'
    BY <2>1, <2>3 DEF ReadRight, Ready
  <2> QED BY <2>2, <2>3
<1> QED
  BY <1>1, <1>2, <1>3, <1>4, <1>5, <1>6, <1>7 DEF WorkflowNext, Workflow

\* The first state is right.
LEMMA WorkflowStart ==
    ASSUME WorkflowInit
    PROVE  WorkflowInv
<1>1. NoRun \in [rev : Nat, state : PathStates, completed : SUBSET PathStates]
  BY DEF NoRun, PathStates
<1>2. WorkflowTypeOK
  BY <1>1 DEF WorkflowInit, WorkflowTypeOK
<1>3. \A p \in Callers : ~Transits(p)
  BY DEF WorkflowInit, Transits, Ready
<1> QED
  BY <1>2, <1>3 DEF WorkflowInv

\* One edge is taken, by a command that was not committed before.
EdgeTaken(r) ==
    /\ run'[r].rev = run[r].rev + 1
    /\ run'[r].completed = run[r].completed \cup {run[r].state}
    /\ \E i \in DOMAIN Edges : Edges[i].from = run[r].state /\ Edges[i].to = run'[r].state
    /\ \E c \in Commands : committed[c] = NoCommand /\ committed'[c] # NoCommand

\* A run that is changed is started, or takes an edge.
LEMMA RunStep ==
    ASSUME WorkflowInv, WorkflowNext \/ UNCHANGED flow, NEW r \in Runs, run'[r] # run[r]
    PROVE  (run[r].rev = 0 /\ run'[r].rev = 1) \/ EdgeTaken(r)
<1> USE DEF WorkflowInv, WorkflowTypeOK
<1>1. CASE UNCHANGED flow
  BY <1>1 DEF flow
<1>2. CASE PackageChanges
  BY <1>2 DEF PackageChanges
<1>3. ASSUME NEW p \in Callers, StartCommit(p)
      PROVE  run[r].rev = 0 /\ run'[r].rev = 1
  <2>1. call[p] \in Start
    BY <1>3 DEF StartCommit, Ready, Transition
  <2>2. call[p].run \in Runs
    BY <2>1 DEF Start
  <2> QED BY <1>3, <2>2 DEF StartCommit, NoRun
<1>4. ASSUME NEW p \in Callers, TransitionCommit(p)
      PROVE  EdgeTaken(r)
  <2> DEFINE m == call[p].move
             c == call[p].command
  <2>1. /\ Transits(p) /\ committed[c] = NoCommand /\ run[m.run].rev = call[p].rev
        /\ run' = [run EXCEPT ![m.run] = [rev |-> call[p].rev + 1, state |-> m.to,
                                          completed |-> call[p].completed]]
        /\ committed' = [committed EXCEPT ![c] = m]
    BY <1>4 DEF TransitionCommit, Move
  <2>2. call[p] \in Transition
    BY <2>1 DEF Transits, Ready, Start
  <2>3. m \in Moves /\ m.run \in Runs /\ c \in Commands
    BY <2>2 DEF Transition, Moves
  <2>4. m.run = r
    BY <2>1, <2>3
  <2>5. /\ run[r].state = m.from
        /\ call[p].completed = run[r].completed \cup {run[r].state}
        /\ \E i \in DOMAIN Edges : Edges[i].from = m.from /\ Edges[i].to = m.to
    BY <2>1, <2>4 DEF ReadRight
  <2>6. committed'[c] # NoCommand
    BY <2>1, <2>3, CommandAssumption
  <2>7. run'[r] = [rev |-> call[p].rev + 1, state |-> m.to, completed |-> call[p].completed]
    BY <2>1, <2>4
  <2>8. /\ run'[r].rev = run[r].rev + 1
        /\ run'[r].completed = run[r].completed \cup {run[r].state}
    BY <2>1, <2>4, <2>5, <2>7
  <2>9. \E i \in DOMAIN Edges : Edges[i].from = run[r].state /\ Edges[i].to = run'[r].state
    BY <2>5, <2>7
  <2> QED BY <2>1, <2>3, <2>6, <2>8, <2>9 DEF EdgeTaken
<1>5. ASSUME NEW p \in Callers, (\E s \in Runs : StartRead(p, s)) \/ TransitionEnds(p)
      PROVE  FALSE
  BY <1>5 DEF StartRead, TransitionEnds
<1>6. ASSUME NEW p \in Callers, NEW c \in Commands, NEW s \in Runs, NEW to,
             NEW ctx \in Contexts, TransitionRead(p, c, s, to, ctx)
      PROVE  FALSE
  BY <1>6 DEF TransitionRead
<1> QED
  BY <1>1, <1>2, <1>3, <1>4, <1>5, <1>6 DEF WorkflowNext, Workflow

\* A step of Memory leaves the Workflows alone.
LEMMA MemoryKeepsFlow ==
    ASSUME NEW p \in Callers, Memory(p)
    PROVE  UNCHANGED flow
BY DEF Memory, DeriveStart, DeriveCheck, DeriveCommit, Ask, ListEntries, Invalidate, Retrieve,
       PromoteRead, Serve, KillReader

LEMMA NextFlow ==
    ASSUME [Next]_vars
    PROVE  WorkflowNext \/ UNCHANGED flow
BY MemoryKeepsFlow DEF Next, WorkflowNext, vars, flow

\* What the Workflow services hold is right in every state.
LEMMA WorkflowRight == Spec => []WorkflowInv
<1>1. Init => WorkflowInv
  BY WorkflowStart DEF Init
<1>2. WorkflowInv /\ [Next]_vars => WorkflowInv'
  BY NextFlow, WorkflowStep
<1> QED
  BY <1>1, <1>2, PTL DEF Spec

\* A run takes one declared edge at a time, and a command moves it once.
THEOREM RunsTakeEdges == Spec => RunsTakeEdgesOnce
<1> DEFINE Step == \A r \in Runs : (run[r].rev > 0 /\ run'[r] # run[r]) => EdgeTaken(r)
<1>1. WorkflowInv /\ [Next]_vars => [Step]_flow
  BY NextFlow, RunStep
<1>2. [Step]_flow => [\A r \in Runs : (run[r].rev > 0 /\ run'[r] # run[r]) =>
          /\ run'[r].rev = run[r].rev + 1
          /\ run'[r].completed = run[r].completed \cup {run[r].state}
          /\ \E i \in DOMAIN Edges : Edges[i].from = run[r].state /\ Edges[i].to = run'[r].state
          /\ \E c \in Commands : committed[c] = NoCommand /\ committed'[c] # NoCommand]_flow
  BY DEF EdgeTaken
<1> HIDE DEF Step
<1> QED
  BY <1>1, <1>2, WorkflowRight, PTL DEF Spec, RunsTakeEdgesOnce

----------------------------------------------------------------------------
(* Memory.                                                                  *)

MemoryTypes ==
    /\ memory \in [Entries -> [rev : 0..2, sources : [Runs -> Nat]]]
    /\ reader \in [Callers -> {Resting} \cup Derivation \cup Reconciliation]

\* A run is never brought back to an earlier revision.
RunsGrow == \A r \in Runs : run[r].rev <= run'[r].rev

\* An entry that is there keeps its sources and is not valid again.
EntriesStay ==
    \A e \in Entries : memory[e].rev > 0 =>
        /\ memory'[e].rev > 0 /\ memory'[e].sources = memory[e].sources
        /\ memory'[e].rev = 1 => memory[e].rev = 1

LEMMA RunsOnlyGrow ==
    ASSUME WorkflowInv, WorkflowNext \/ UNCHANGED flow
    PROVE  RunsGrow
<1> SUFFICES ASSUME NEW r \in Runs PROVE run[r].rev <= run'[r].rev
  BY DEF RunsGrow
<1>1. run[r].rev \in Nat
  BY DEF WorkflowInv, WorkflowTypeOK
<1> QED
  BY <1>1, RunStep DEF EdgeTaken

\* A caller whose own record is not changed keeps its hold of the past.
LEMMA AskedStays ==
    ASSUME MemoryInv, RunsGrow, EntriesStay, WorkflowTypeOK',
           NEW q \in Callers, Asking(q), reader'[q] = reader[q]
    PROVE  Asked(q)'
<1>1. Asked(q) /\ Reads(q)' = Reads(q)
  BY DEF MemoryInv, Reads
<1>2. reader[q] \in Reconciliation
  BY DEF MemoryInv, TypeOK, Asking, Reads, Resting, Derivation
<1>3. /\ reader[q].seen \in [Runs -> Nat] /\ reader[q].was \in SUBSET Entries
      /\ reader[q].todo \in SUBSET Entries /\ reader[q].result \in SUBSET Entries
  BY <1>2 DEF Reconciliation
<1>4. \A r \in Runs : run[r].rev \in Nat /\ run'[r].rev \in Nat
  BY DEF MemoryInv, TypeOK, WorkflowTypeOK
<1>5. \A r \in Runs : reader'[q].seen[r] <= run'[r].rev
  <2> TAKE r \in Runs
  <2>1. reader[q].seen[r] <= run[r].rev /\ run[r].rev <= run'[r].rev
    BY <1>1 DEF Asked, RunsGrow
  <2> QED BY <2>1, <1>3, <1>4
<1>6. \A e \in Entries : memory[e].rev > 0 =>
         /\ StaleIn(e, reader[q].seen)' <=> StaleIn(e, reader[q].seen)
         /\ AtMost(memory[e].sources, reader[q].seen)' <=> AtMost(memory[e].sources, reader[q].seen)
  BY DEF EntriesStay, StaleIn, AtMost, Bound
<1>7. \A e \in reader[q].was :
         memory'[e].rev > 0 /\ AtMost(memory[e].sources, reader[q].seen)'
  BY <1>1, <1>3, <1>6 DEF Asked, EntriesStay
<1>8. \A e \in reader[q].todo : memory'[e].rev > 0 /\ StaleIn(e, reader[q].seen)'
  BY <1>1, <1>3, <1>6 DEF Asked, EntriesStay
<1>9. Reads(q) = "reconcile" =>
        \A e \in reader[q].was :
           memory'[e].rev = 1 /\ StaleIn(e, reader[q].seen)' => e \in reader[q].todo
  BY <1>1, <1>3, <1>6 DEF Asked, EntriesStay
<1>10. Reads(q) = "served" =>
         \A e \in reader[q].result \cap reader[q].was : ~StaleIn(e, reader[q].seen)'
  BY <1>1, <1>3, <1>6 DEF Asked, EntriesStay
<1> QED
  BY <1>1, <1>5, <1>7, <1>8, <1>9, <1>10 DEF Asked

\* No source runs ahead of its run while runs and entries go on.
LEMMA SourcesStay ==
    ASSUME MemoryInv, RunsGrow, WorkflowTypeOK',
           NEW sources \in [Runs -> Nat], AtMost(sources, Revisions)
    PROVE  AtMost(sources, Revisions')
<1>1. \A r \in Runs : run[r].rev \in Nat /\ run'[r].rev \in Nat
  BY DEF MemoryInv, TypeOK, WorkflowTypeOK
<1> QED
  BY <1>1 DEF AtMost, Revisions, RunsGrow

\* It is enough to look at what the step changes: the entries and the callers.
LEMMA MemoryHolds ==
    ASSUME MemoryInv, RunsGrow, EntriesStay, WorkflowInv', MemoryTypes',
           \A e \in Entries : memory[e].rev = 0 /\ memory'[e].rev > 0 =>
              AtMost(memory'[e].sources, Revisions'),
           \A q \in Callers : reader'[q] # reader[q] =>
              /\ Reads(q)' = "derive" => AtMost(reader'[q].sources, Revisions')
              /\ Asking(q)' => Asked(q)'
    PROVE  MemoryInv'
<1>1. TypeOK'
  BY DEF TypeOK, MemoryTypes, WorkflowInv
<1>2. WorkflowTypeOK'
  BY DEF WorkflowInv
<1>3. ASSUME NEW e \in Entries, memory'[e].rev > 0
      PROVE  AtMost(memory'[e].sources, Revisions')
  <2>1. CASE memory[e].rev > 0
    <3>1. memory'[e].sources = memory[e].sources /\ memory[e].sources \in [Runs -> Nat]
      BY <2>1 DEF EntriesStay, MemoryInv, TypeOK
    <3>2. AtMost(memory[e].sources, Revisions)
      BY <2>1 DEF MemoryInv, SourcesExist
    <3> QED BY <1>2, <3>1, <3>2, SourcesStay
  <2>2. CASE ~(memory[e].rev > 0)
    <3>1. memory[e].rev \in 0..2
      BY DEF MemoryInv, TypeOK
    <3>2. memory[e].rev = 0
      BY <3>1, <2>2
    <3> QED BY <3>2, <1>3
  <2> QED BY <2>1, <2>2
<1>4. ASSUME NEW q \in Callers, Reads(q)' = "derive"
      PROVE  AtMost(reader'[q].sources, Revisions')
  <2>1. CASE reader'[q] = reader[q]
    <3>1. Reads(q) = "derive" /\ reader[q] \in Derivation
      BY <2>1, <1>4 DEF Reads, MemoryInv, TypeOK, Resting, Reconciliation
    <3>2. reader[q].sources \in [Runs -> Nat] /\ AtMost(reader[q].sources, Revisions)
      BY <3>1 DEF Derivation, MemoryInv, SourcesExist
    <3> QED BY <1>2, <2>1, <3>2, SourcesStay
  <2> QED BY <2>1, <1>4
<1>5. SourcesExist'
  BY <1>3, <1>4 DEF SourcesExist
<1>6. ASSUME NEW q \in Callers, Asking(q)' PROVE Asked(q)'
  <2>1. CASE reader'[q] = reader[q]
    BY <2>1, <1>2, <1>6, AskedStays DEF Asking, Reads
  <2> QED BY <2>1, <1>6
<1> QED
  BY <1>1, <1>5, <1>6 DEF MemoryInv

\* Nothing is stored and nobody has asked.
LEMMA MemoryStart ==
    ASSUME Init
    PROVE  MemoryInv
<1>1. NoEntry \in [rev : 0..2, sources : [Runs -> Nat]]
  BY DEF NoEntry, NoSources
<1>2. TypeOK
  BY <1>1, WorkflowStart DEF Init, TypeOK, WorkflowInv
<1>3. SourcesExist
  BY DEF Init, SourcesExist, NoEntry, Reads, Resting
<1>4. \A p \in Callers : ~Asking(p)
  BY DEF Init, Asking, Reads, Resting
<1> QED
  BY <1>2, <1>3, <1>4 DEF MemoryInv

\* What a caller of the reconciliation comes to have its type.
LEMMA OnwardType ==
    ASSUME MemoryInv, NEW p \in Callers, Asking(p),
           NEW place \in {"read", "reconcile", "served"},
           NEW todo \in SUBSET Entries, NEW result \in SUBSET Entries,
           Onward(p, place, todo, result)
    PROVE  /\ reader' \in [Callers -> {Resting} \cup Derivation \cup Reconciliation]
           /\ reader'[p] = [at |-> place, wanted |-> reader[p].wanted, was |-> reader[p].was,
                            seen |-> reader[p].seen, todo |-> todo, result |-> result]
           /\ \A q \in Callers : reader'[q] # reader[q] => q = p
           /\ reader[p] \in Reconciliation
<1>1. reader[p] \in Reconciliation
  BY DEF MemoryInv, TypeOK, Asking, Reads, Resting, Derivation
<1>2. [at |-> place, wanted |-> reader[p].wanted, was |-> reader[p].was,
       seen |-> reader[p].seen, todo |-> todo, result |-> result] \in Reconciliation
  BY <1>1 DEF Reconciliation
<1> QED
  BY <1>1, <1>2 DEF Onward, MemoryInv, TypeOK

\* A caller that has closed holds nothing.
LEMMA ClosesHolds ==
    ASSUME MemoryInv, NEW p \in Callers, Closes(p)
    PROVE  /\ reader' \in [Callers -> {Resting} \cup Derivation \cup Reconciliation]
           /\ \A q \in Callers : reader'[q] # reader[q] =>
                /\ Reads(q)' # "derive"
                /\ ~Asking(q)'
BY DEF Closes, MemoryInv, TypeOK, Asking, Reads, Resting

\* Nothing of the entries is changed.
LEMMA EntriesKept ==
    ASSUME MemoryInv, UNCHANGED memory
    PROVE  /\ EntriesStay
           /\ memory' \in [Entries -> [rev : 0..2, sources : [Runs -> Nat]]]
           /\ \A e \in Entries : ~(memory[e].rev = 0 /\ memory'[e].rev > 0)
BY DEF EntriesStay, MemoryInv, TypeOK

\* Every step keeps the types, the sources and what callers hold of the past.
LEMMA MemoryStep ==
    ASSUME MemoryInv, WorkflowInv, WorkflowInv', [Next]_vars
    PROVE  MemoryInv'
<1>1. RunsGrow
  BY NextFlow, RunsOnlyGrow
<1>2. CASE UNCHANGED <<memory, reader>>
  <2>1. MemoryTypes'
    BY <1>2 DEF MemoryTypes, MemoryInv, TypeOK
  <2>2. EntriesStay /\ \A e \in Entries : ~(memory[e].rev = 0 /\ memory'[e].rev > 0)
    BY <1>2, EntriesKept
  <2> QED BY <1>1, <1>2, <2>1, <2>2, MemoryHolds
<1>3. ASSUME NEW p \in Callers, Memory(p), UNCHANGED memory, Closes(p)
      PROVE  MemoryInv'
  <2>1. EntriesStay /\ \A e \in Entries : ~(memory[e].rev = 0 /\ memory'[e].rev > 0)
    BY <1>3, EntriesKept
  <2>2. MemoryTypes'
    BY <1>3, EntriesKept, ClosesHolds DEF MemoryTypes
  <2>3. \A q \in Callers : reader'[q] # reader[q] => Reads(q)' # "derive" /\ ~Asking(q)'
    BY <1>3, ClosesHolds
  <2> QED BY <1>1, <2>1, <2>2, <2>3, MemoryHolds
<1>4. ASSUME NEW p \in Callers, NEW e \in Entries, NEW S \in SUBSET Runs, DeriveStart(p, e, S)
      PROVE  MemoryInv'
  <2> DEFINE src == [r \in Runs |-> IF r \in S THEN run[r].rev ELSE 0]
             d == [at |-> "derive", entry |-> e, checked |-> {}, sources |-> src]
  <2>1. UNCHANGED flow /\ UNCHANGED memory /\ reader' = [reader EXCEPT ![p] = d]
    BY <1>4 DEF DeriveStart
  <2>2. EntriesStay /\ \A x \in Entries : ~(memory[x].rev = 0 /\ memory'[x].rev > 0)
    BY <2>1, EntriesKept
  <2>3. \A r \in Runs : run[r].rev \in Nat
    BY DEF WorkflowInv, WorkflowTypeOK
  <2>4. d \in Derivation
    BY <2>3 DEF Derivation
  <2>5. MemoryTypes'
    BY <2>1, <2>4, EntriesKept DEF MemoryTypes, MemoryInv, TypeOK
  <2>6. AtMost(src, Revisions')
    BY <2>1, <2>3 DEF AtMost, Revisions, flow
  <2>7. \A q \in Callers : reader'[q] # reader[q] =>
          reader'[q].sources = src /\ ~Asking(q)'
    BY <2>1 DEF MemoryInv, TypeOK, Asking, Reads
  <2> HIDE DEF src, d
  <2> QED BY <1>1, <2>2, <2>5, <2>6, <2>7, MemoryHolds
<1>5. ASSUME NEW p \in Callers, DeriveCheck(p) PROVE MemoryInv'
  <2>1. UNCHANGED flow /\ UNCHANGED memory /\ Reads(p) = "derive"
    BY <1>5 DEF DeriveCheck
  <2>2. PICK r \in Bound(reader[p].sources) \ reader[p].checked :
          \/ reader' = [reader EXCEPT ![p].checked = @ \cup {r}]
          \/ Closes(p)
    BY <1>5 DEF DeriveCheck
  <2>3. CASE Closes(p)
    BY <1>3, <1>5, <2>1, <2>3 DEF Memory
  <2>4. CASE reader' = [reader EXCEPT ![p].checked = @ \cup {r}]
    <3>1. reader[p] \in Derivation /\ r \in Runs
      BY <2>1, <2>2 DEF Reads, MemoryInv, TypeOK, Resting, Reconciliation, Bound
    <3>2. /\ reader'[p] \in Derivation
          /\ reader'[p].sources = reader[p].sources
          /\ reader'[p].at = "derive"
      <4> DEFINE d == reader[p]
      <4>1. reader'[p] = [d EXCEPT !.checked = d.checked \cup {r}]
        BY <2>4 DEF MemoryInv, TypeOK
      <4>2. d \in Derivation
        BY <3>1
      <4> HIDE DEF d
      <4>3. [d EXCEPT !.checked = d.checked \cup {r}] \in Derivation
        BY <3>1, <4>2 DEF Derivation
      <4>4. /\ [d EXCEPT !.checked = d.checked \cup {r}].sources = d.sources
            /\ [d EXCEPT !.checked = d.checked \cup {r}].at = "derive"
        BY <4>2 DEF Derivation
      <4> QED BY <4>1, <4>3, <4>4 DEF d
    <3>3. \A q \in Callers : q # p => reader'[q] = reader[q]
      BY <2>4 DEF MemoryInv, TypeOK
    <3>4. reader' \in [Callers -> {Resting} \cup Derivation \cup Reconciliation]
      BY <2>4, <3>2 DEF MemoryInv, TypeOK
    <3>5. MemoryTypes' /\ EntriesStay
          /\ \A x \in Entries : ~(memory[x].rev = 0 /\ memory'[x].rev > 0)
      BY <2>1, <3>4, EntriesKept DEF MemoryTypes
    <3>6. AtMost(reader[p].sources, Revisions')
      BY <2>1 DEF MemoryInv, SourcesExist, AtMost, Revisions, flow
    <3>7. ~Asking(p)'
      BY <3>2 DEF Asking, Reads
    <3> QED BY <1>1, <3>2, <3>3, <3>5, <3>6, <3>7, MemoryHolds
  <2> QED BY <2>2, <2>3, <2>4
<1>6. ASSUME NEW p \in Callers, DeriveCommit(p) PROVE MemoryInv'
  <2> DEFINE e == reader[p].entry
             n == [rev |-> 1, sources |-> reader[p].sources]
  <2>1. /\ UNCHANGED flow /\ Reads(p) = "derive" /\ Closes(p)
        /\ memory' = [memory EXCEPT ![e] = IF @.rev = 0 THEN n ELSE @]
    BY <1>6 DEF DeriveCommit
  <2>2. reader[p] \in Derivation
    BY <2>1 DEF Reads, MemoryInv, TypeOK, Resting, Reconciliation
  <2>3. e \in Entries /\ n \in [rev : 0..2, sources : [Runs -> Nat]]
    BY <2>2 DEF Derivation
  <2>4. MemoryTypes'
    BY <2>1, <2>3, ClosesHolds DEF MemoryTypes, MemoryInv, TypeOK
  <2>5. EntriesStay
    BY <2>1, <2>3 DEF EntriesStay, MemoryInv, TypeOK
  <2>6. AtMost(reader[p].sources, Revisions')
    BY <2>1 DEF MemoryInv, SourcesExist, AtMost, Revisions, flow
  <2>7. \A x \in Entries : memory[x].rev = 0 /\ memory'[x].rev > 0 =>
           memory'[x].sources = reader[p].sources
    BY <2>1, <2>3 DEF MemoryInv, TypeOK
  <2>8. \A q \in Callers : reader'[q] # reader[q] => Reads(q)' # "derive" /\ ~Asking(q)'
    BY <2>1, ClosesHolds
  <2> HIDE DEF e, n
  <2> QED BY <1>1, <2>4, <2>5, <2>6, <2>7, <2>8, MemoryHolds
<1>7. ASSUME NEW p \in Callers, NEW wanted \in SUBSET Entries, Ask(p, wanted)
      PROVE  MemoryInv'
  <2> DEFINE a == [at |-> "read", wanted |-> wanted, todo |-> {}, was |-> Valid,
                   seen |-> Revisions, result |-> {}]
  <2>1. UNCHANGED flow /\ UNCHANGED memory /\ reader' = [reader EXCEPT ![p] = a]
    BY <1>7 DEF Ask
  <2>2. EntriesStay /\ \A x \in Entries : ~(memory[x].rev = 0 /\ memory'[x].rev > 0)
    BY <2>1, EntriesKept
  <2>3. \A r \in Runs : run[r].rev \in Nat
    BY DEF WorkflowInv, WorkflowTypeOK
  <2>4. Revisions \in [Runs -> Nat] /\ Valid \in SUBSET Entries
    BY <2>3 DEF Revisions, Valid
  <2>5. a \in Reconciliation
    BY <2>4 DEF Reconciliation
  <2>6. MemoryTypes'
    BY <2>1, <2>5, EntriesKept DEF MemoryTypes, MemoryInv, TypeOK
  <2>7. reader'[p] = a /\ \A q \in Callers : reader'[q] # reader[q] => q = p
    BY <2>1 DEF MemoryInv, TypeOK
  <2>8. Asked(p)'
    <3>1. \A r \in Runs : reader'[p].seen[r] <= run'[r].rev
      BY <2>1, <2>3, <2>7 DEF Revisions, flow
    <3>2. \A x \in reader'[p].was : memory'[x].rev > 0
            /\ AtMost(memory'[x].sources, reader'[p].seen)
      <4> TAKE x \in reader'[p].was
      <4>1. x \in Valid
        BY <2>7
      <4>2. x \in Entries /\ memory[x].rev = 1
        BY <4>1 DEF Valid
      <4>3. AtMost(memory[x].sources, Revisions)
        BY <4>2 DEF MemoryInv, SourcesExist
      <4> QED BY <2>1, <2>7, <4>2, <4>3 DEF AtMost
    <3>3. reader'[p].todo = {} /\ Reads(p)' = "read"
      BY <2>7 DEF Reads
    <3> QED BY <3>1, <3>2, <3>3 DEF Asked, AtMost
  <2>9. Reads(p)' # "derive"
    BY <2>7 DEF Reads
  <2> HIDE DEF a
  <2> QED BY <1>1, <2>2, <2>6, <2>7, <2>8, <2>9, MemoryHolds
<1>8. ASSUME NEW p \in Callers, ListEntries(p) PROVE MemoryInv'
  <2> DEFINE todo == {e \in Valid : StaleIn(e, reader[p].seen)}
  <2>1. UNCHANGED flow /\ UNCHANGED memory /\ Asking(p) /\ Onward(p, "reconcile", todo, {})
    BY <1>8 DEF ListEntries, Asking
  <2>2. todo \in SUBSET Entries
    BY DEF Valid
  <2> HIDE DEF todo
  <2>3. /\ reader' \in [Callers -> {Resting} \cup Derivation \cup Reconciliation]
        /\ reader'[p] = [at |-> "reconcile", wanted |-> reader[p].wanted, was |-> reader[p].was,
                         seen |-> reader[p].seen, todo |-> todo, result |-> {}]
        /\ \A q \in Callers : reader'[q] # reader[q] => q = p
    BY <2>1, <2>2, OnwardType
  <2>4. Asked(p)
    BY <2>1 DEF MemoryInv
  <2>5. \A e \in todo : e \in Entries /\ memory[e].rev = 1 /\ StaleIn(e, reader[p].seen)
    BY DEF todo, Valid
  <2>6. \A e \in Entries : memory[e].rev = 1 /\ StaleIn(e, reader[p].seen) => e \in todo
    BY DEF todo, Valid
  <2>7. reader[p] \in Reconciliation
    BY <2>1 DEF MemoryInv, TypeOK, Asking, Reads, Resting, Derivation
  <2>8. Asked(p)'
    <3>1. /\ reader'[p].seen = reader[p].seen /\ reader'[p].was = reader[p].was
          /\ reader'[p].todo = todo /\ Reads(p)' = "reconcile" /\ memory' = memory /\ run' = run
      BY <2>1, <2>3 DEF Reads, flow
    <3>2. reader[p].was \in SUBSET Entries
      BY <2>7 DEF Reconciliation
    <3> QED BY <2>4, <2>5, <2>6, <3>1, <3>2 DEF Asked, StaleIn, AtMost, Bound
  <2>9. MemoryTypes' /\ EntriesStay
        /\ \A x \in Entries : ~(memory[x].rev = 0 /\ memory'[x].rev > 0)
    BY <2>1, <2>3, EntriesKept DEF MemoryTypes
  <2>10. Reads(p)' # "derive"
    BY <2>3 DEF Reads
  <2> QED BY <1>1, <2>3, <2>8, <2>9, <2>10, MemoryHolds
<1>9. ASSUME NEW p \in Callers, Invalidate(p) PROVE MemoryInv'
  <2>1. UNCHANGED flow /\ Reads(p) = "reconcile" /\ Asking(p)
    BY <1>9 DEF Invalidate, Asking
  <2>2. PICK e \in reader[p].todo : memory' = [memory EXCEPT ![e].rev = 2]
                                    /\ Onward(p, "reconcile", reader[p].todo \ {e}, {})
    BY <1>9 DEF Invalidate
  <2>3. reader[p] \in Reconciliation /\ Asked(p)
    BY <2>1 DEF MemoryInv, TypeOK, Asking, Reads, Resting, Derivation
  <2>4. e \in Entries /\ memory[e].rev > 0 /\ reader[p].todo \ {e} \in SUBSET Entries
    BY <2>2, <2>3 DEF Reconciliation, Asked
  <2>5. /\ reader' \in [Callers -> {Resting} \cup Derivation \cup Reconciliation]
        /\ reader'[p] = [at |-> "reconcile", wanted |-> reader[p].wanted, was |-> reader[p].was,
                         seen |-> reader[p].seen, todo |-> reader[p].todo \ {e}, result |-> {}]
        /\ \A q \in Callers : reader'[q] # reader[q] => q = p
    BY <2>1, <2>2, <2>4, OnwardType
  <2>6. /\ memory' \in [Entries -> [rev : 0..2, sources : [Runs -> Nat]]]
        /\ memory'[e].rev = 2
        /\ \A x \in Entries : x # e => memory'[x] = memory[x]
        /\ \A x \in Entries : memory'[x].sources = memory[x].sources
    BY <2>2, <2>4 DEF MemoryInv, TypeOK
  <2>7. EntriesStay /\ \A x \in Entries : ~(memory[x].rev = 0 /\ memory'[x].rev > 0)
    BY <2>4, <2>6 DEF EntriesStay
  <2>8. Asked(p)'
    <3>1. /\ reader'[p].seen = reader[p].seen /\ reader'[p].was = reader[p].was
          /\ reader'[p].todo = reader[p].todo \ {e} /\ Reads(p)' = "reconcile" /\ run' = run
      BY <2>1, <2>5 DEF Reads, flow
    <3>2. reader[p].was \in SUBSET Entries /\ reader[p].todo \in SUBSET Entries
      BY <2>3 DEF Reconciliation
    <3>3. \A x \in Entries : StaleIn(x, reader[p].seen)' <=> StaleIn(x, reader[p].seen)
      BY <2>6, <3>1 DEF StaleIn, Bound
    <3>4. \A r \in Runs : reader'[p].seen[r] <= run'[r].rev
      BY <2>3, <3>1 DEF Asked
    <3>5. \A x \in reader'[p].was : memory'[x].rev > 0 /\ AtMost(memory'[x].sources, reader'[p].seen)
      BY <2>3, <2>6, <2>7, <3>1, <3>2 DEF Asked, EntriesStay, AtMost
    <3>6. \A x \in reader'[p].todo : memory'[x].rev > 0 /\ StaleIn(x, reader[p].seen)'
      BY <2>3, <2>7, <3>1, <3>2, <3>3 DEF Asked, EntriesStay
    <3>7. \A x \in reader'[p].was :
             memory'[x].rev = 1 /\ StaleIn(x, reader[p].seen)' => x \in reader'[p].todo
      BY <2>1, <2>3, <2>6, <3>1, <3>2, <3>3 DEF Asked
    <3> QED BY <3>1, <3>4, <3>5, <3>6, <3>7 DEF Asked
  <2>9. MemoryTypes'
    BY <2>5, <2>6 DEF MemoryTypes
  <2>10. Reads(p)' # "derive"
    BY <2>5 DEF Reads
  <2> QED BY <1>1, <2>5, <2>7, <2>8, <2>9, <2>10, MemoryHolds
<1>10. ASSUME NEW p \in Callers, NEW result \in SUBSET Valid, UNCHANGED flow, UNCHANGED memory,
              Reconciled(p), Onward(p, "served", {}, result)
       PROVE  MemoryInv'
  <2>1. Asking(p) /\ Reads(p) = "reconcile" /\ reader[p].todo = {} /\ result \in SUBSET Entries
    BY <1>10 DEF Reconciled, Asking, Valid
  <2>2. /\ reader' \in [Callers -> {Resting} \cup Derivation \cup Reconciliation]
        /\ reader'[p] = [at |-> "served", wanted |-> reader[p].wanted, was |-> reader[p].was,
                         seen |-> reader[p].seen, todo |-> {}, result |-> result]
        /\ \A q \in Callers : reader'[q] # reader[q] => q = p
    BY <1>10, <2>1, OnwardType
  <2>3. Asked(p)
    BY <2>1 DEF MemoryInv
  <2>4. \A e \in result \cap reader[p].was : ~StaleIn(e, reader[p].seen)
    BY <2>1, <2>3 DEF Asked, Valid
  <2>5. Asked(p)'
    <3>1. /\ reader'[p].seen = reader[p].seen /\ reader'[p].was = reader[p].was
          /\ reader'[p].todo = {} /\ reader'[p].result = result
          /\ Reads(p)' = "served" /\ memory' = memory /\ run' = run
      BY <1>10, <2>2 DEF Reads, flow
    <3> QED BY <2>3, <2>4, <3>1 DEF Asked, StaleIn, AtMost, Bound
  <2>6. MemoryTypes' /\ EntriesStay
        /\ \A x \in Entries : ~(memory[x].rev = 0 /\ memory'[x].rev > 0)
    BY <1>10, <2>2, EntriesKept DEF MemoryTypes
  <2>7. Reads(p)' # "derive"
    BY <2>2 DEF Reads
  <2> QED BY <1>1, <2>2, <2>5, <2>6, <2>7, MemoryHolds
<1>11. ASSUME NEW p \in Callers, Retrieve(p) PROVE MemoryInv'
  BY <1>10, <1>11 DEF Retrieve
<1>12. ASSUME NEW p \in Callers, PromoteRead(p) PROVE MemoryInv'
  <2>1. CASE reader[p].wanted \subseteq Valid
    BY <1>10, <1>12, <2>1 DEF PromoteRead
  <2>2. CASE ~(reader[p].wanted \subseteq Valid)
    BY <1>3, <1>12, <2>2 DEF PromoteRead, Memory
  <2> QED BY <2>1, <2>2
<1>13. ASSUME NEW p \in Callers, Serve(p) \/ KillReader(p) PROVE MemoryInv'
  BY <1>3, <1>13 DEF Serve, KillReader, Memory
<1> QED
  BY <1>2, <1>4, <1>5, <1>6, <1>7, <1>8, <1>9, <1>11, <1>12, <1>13 DEF Next, Memory, vars

\* The invariant holds in every state.
LEMMA MemoryRight == Spec => []MemoryInv
<1>1. Init => MemoryInv
  BY MemoryStart
<1>2. MemoryInv /\ WorkflowInv /\ WorkflowInv' /\ [Next]_vars => MemoryInv'
  BY MemoryStep
<1> QED
  BY <1>1, <1>2, WorkflowRight, PTL DEF Spec

\* Every variable of Memory and of the Workflows keeps its type.
THEOREM MemoryTypeCorrect == Spec => []TypeOK
<1>1. MemoryInv => TypeOK
  BY DEF MemoryInv
<1> QED
  BY <1>1, MemoryRight, PTL

\* No entry that had lost a source when it was asked for is served.
THEOREM ServedCurrent == Spec => []ServedWasCurrent
<1>1. MemoryInv => ServedWasCurrent
  BY DEF MemoryInv, ServedWasCurrent, Asked, Asking
<1> QED
  BY <1>1, MemoryRight, PTL

\* An entry that is changed is invalidated, by a caller that has found it stale.
LEMMA EntryStep ==
    ASSUME MemoryInv, [Next]_vars, NEW e \in Entries, memory[e].rev > 0, memory'[e] # memory[e]
    PROVE  /\ memory[e].rev = 1 /\ memory'[e] = [memory[e] EXCEPT !.rev = 2]
           /\ \E p \in Callers :
                /\ Reads(p) = "reconcile" /\ e \in reader[p].todo
                /\ e \in reader[p].was => StaleIn(e, Revisions)
<1> DEFINE Claim ==
      /\ memory[e].rev = 1 /\ memory'[e] = [memory[e] EXCEPT !.rev = 2]
      /\ \E p \in Callers :
           /\ Reads(p) = "reconcile" /\ e \in reader[p].todo
           /\ e \in reader[p].was => StaleIn(e, Revisions)
<1>1. memory[e] \in [rev : 0..2, sources : [Runs -> Nat]]
  BY DEF MemoryInv, TypeOK
<1>2. ASSUME NEW p \in Callers, DeriveCommit(p) PROVE FALSE
  <2>1. Reads(p) = "derive" /\ memory' = [memory EXCEPT ![reader[p].entry] =
                    IF @.rev = 0 THEN [rev |-> 1, sources |-> reader[p].sources] ELSE @]
    BY <1>2 DEF DeriveCommit
  <2> QED BY <2>1 DEF MemoryInv, TypeOK
<1>3. ASSUME NEW p \in Callers, Invalidate(p) PROVE Claim
  <2>1. Reads(p) = "reconcile" /\ Asked(p) /\ reader[p] \in Reconciliation
    BY <1>3 DEF Invalidate, MemoryInv, TypeOK, Asking, Reads, Resting, Derivation
  <2>2. e \in reader[p].todo /\ memory' = [memory EXCEPT ![e].rev = 2]
    BY <1>3 DEF Invalidate, MemoryInv, TypeOK
  <2>3. memory'[e] = [memory[e] EXCEPT !.rev = 2]
    BY <2>2 DEF MemoryInv, TypeOK
  <2>4. memory[e].rev = 1
    <3>1. [memory[e] EXCEPT !.rev = 2].rev = 2 /\ [memory[e] EXCEPT !.rev = 2].sources = memory[e].sources
      BY <1>1
    <3>2. memory[e].rev # 2
      BY <1>1, <2>3, <3>1
    <3> QED BY <1>1, <3>2
  <2>5. ASSUME e \in reader[p].was PROVE StaleIn(e, Revisions)
    <3>1. PICK r \in Bound(memory[e].sources) : memory[e].sources[r] # reader[p].seen[r]
      BY <2>1, <2>2 DEF Asked, StaleIn
    <3>2. r \in Runs
      BY DEF Bound
    <3>3. memory[e].sources[r] <= reader[p].seen[r] /\ reader[p].seen[r] <= run[r].rev
      BY <2>1, <2>5, <3>2 DEF Asked, AtMost
    <3>4. memory[e].sources[r] \in Nat /\ reader[p].seen[r] \in Nat /\ run[r].rev \in Nat
      BY <1>1, <2>1, <3>2 DEF Reconciliation, MemoryInv, TypeOK, WorkflowTypeOK
    <3>5. memory[e].sources[r] # run[r].rev
      BY <3>1, <3>3, <3>4
    <3> QED BY <3>2, <3>5 DEF StaleIn, Revisions
  <2> QED BY <2>1, <2>2, <2>3, <2>4, <2>5
<1>4. (\E p \in Callers : DeriveCommit(p) \/ Invalidate(p)) \/ UNCHANGED memory
  BY DEF Next, Memory, vars, DeriveStart, DeriveCheck, Ask, ListEntries, Retrieve, PromoteRead,
         Serve, KillReader
<1> QED
  BY <1>2, <1>3, <1>4

\* An entry changes at most once, by a reconciliation that invalidates it, and one that
\* was there when the records were listed only if a source of it has been superseded; an
\* entry derived after the listing may be invalidated while its sources are current
\* (runtime.ts deriveMemory, memory.ts).
THEOREM InvalidatedOnlyOnce == Spec => InvalidatedOnce
<1> DEFINE Claim(e) ==
      /\ memory[e].rev = 1 /\ memory'[e] = [memory[e] EXCEPT !.rev = 2]
      /\ \E p \in Callers :
           /\ Reads(p) = "reconcile" /\ e \in reader[p].todo
           /\ e \in reader[p].was => StaleIn(e, Revisions)
<1>1. MemoryInv /\ [Next]_vars =>
        [\A e \in Entries : (memory[e].rev > 0 /\ memory'[e] # memory[e]) => Claim(e)]_vars
  BY EntryStep
<1> QED
  BY <1>1, MemoryRight, PTL DEF Spec, InvalidatedOnce
=============================================================================
