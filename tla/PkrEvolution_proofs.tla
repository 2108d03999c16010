------------------------- MODULE PkrEvolution_proofs -------------------------
(***************************************************************************)
(* Proofs about PkrEvolution, for every kind, contents, principals and     *)
(* processes and every bound, whichever operations overlap.                *)
(***************************************************************************)
EXTENDS PkrEvolution, FiniteSetTheorems, WellFoundedInduction, TLAPS

-----------------------------------------------------------------------------
(* The operators.                                                          *)

\* A set of numbers has a least one.
LEMMA LeastNumber ==
    ASSUME NEW T \in SUBSET Nat, T # {}
    PROVE  \E x \in T : \A y \in T : x <= y
<1> DEFINE R == OpToRel(<, Nat)
<1>1. IsWellFoundedOn(R, Nat)
  BY NatLessThanWellFounded
<1>2. \A x, y \in Nat : x < y => <<x, y>> \in R
  BY DEF OpToRel
<1> HIDE DEF R
<1>3. PICK x \in T : \A y \in T : ~(<<y, x>> \in R)
  BY <1>1, WFMin
<1>4. ASSUME NEW y \in T
      PROVE  x <= y
  <2>1. x \in Nat /\ y \in Nat /\ ~(y < x)
    BY <1>2, <1>3
  <2> QED
    BY <2>1
<1> QED
  BY <1>4

\* The Decision that is found is one about the candidate.
LEMMA AcceptedIsAbout ==
    ASSUME NEW c \in Candidates, AcceptedDecision(c) # None
    PROVE  AcceptedDecision(c) \in Decisions /\ dec[AcceptedDecision(c)].cand = c
<1> DEFINE D == {d \in Decisions : dec[d].cand = c}
<1>1. D # {} /\ D \in SUBSET Nat
  BY DEF AcceptedDecision, Decisions
<1>2. \E d \in D : \A e \in D : d <= e
  BY <1>1, LeastNumber
<1>3. AcceptedDecision(c) = CHOOSE d \in D : \A e \in D : d <= e
  BY <1>1 DEF AcceptedDecision
<1>4. AcceptedDecision(c) \in D
  <2> HIDE DEF D
  <2> QED
    BY <1>2, <1>3
<1> QED
  BY <1>4

\* Three different principals are three.
LEMMA ThreeApart ==
    ASSUME NEW a, NEW b, NEW c, a # b, b # c, a # c
    PROVE  Cardinality({a, b, c}) = 3
<1>1. IsFiniteSet({a}) /\ Cardinality({a}) = 1
  BY FS_Singleton
<1>2. IsFiniteSet({a} \cup {b}) /\ Cardinality({a} \cup {b}) = 2
  BY <1>1, FS_AddElement
<1>3. Cardinality(({a} \cup {b}) \cup {c}) = 3
  BY <1>2, FS_AddElement
<1>4. {a, b, c} = ({a} \cup {b}) \cup {c}
  OBVIOUS
<1> QED
  BY <1>3, <1>4

\* No version, candidate or Decision is None, and there is a first of each.
LEMMA BoundsFacts ==
    /\ None \notin Versions /\ None \notin Candidates /\ None \notin Decisions
    /\ 1 \in Versions /\ 1 \in Candidates
    /\ \A v \in Versions : v \in Nat
BY BoundsAssumption DEF Versions, Candidates, Decisions, None

\* An idle process has the type of a pending operation.
LEMMA IdleType == Idle \in Pending /\ Idle.op = "idle"
BY DEF Idle, Pending, Ops, Principals

\* What the fields of a pending operation are.
LEMMA PendingType ==
    ASSUME TypeOK, NEW p \in Procs
    PROVE  /\ pend[p] \in Pending /\ pend[p].op \in Ops
           /\ pend[p].cur \in Versions \cup {None} /\ pend[p].curRev \in Nat
           /\ pend[p].tgt \in Versions \cup {None} /\ pend[p].tgtRev \in Nat
           /\ pend[p].content \in Contents \cup {Nothing}
           /\ pend[p].cand \in Candidates \cup {None}
           /\ pend[p].dec \in Decisions \cup {None}
           /\ pend[p].by \in Principals /\ pend[p].ok \in BOOLEAN
           /\ pend[p].number \in Nat
<1>1. pend[p] \in Pending
  BY DEF TypeOK
<1> QED
  BY <1>1 DEF Pending

\* What the fields of a version are.
LEMMA VersionType ==
    ASSUME TypeOK, NEW v \in Versions
    PROVE  /\ ver[v] \in Version
           /\ ver[v].state \in {"none", "active", "retired"}
           /\ ver[v].content \in Contents \cup {Nothing} /\ ver[v].rev \in Nat
           /\ ver[v].above \in Versions \cup {None} /\ ver[v].line \in Versions
           /\ ver[v].cand \in Candidates \cup {None}
           /\ ver[v].dec \in Decisions \cup {None} /\ ver[v].verifier \in Principals
<1>1. ver[v] \in Version
  BY DEF TypeOK
<1> QED
  BY <1>1 DEF Version

\* What the fields of a candidate are.
LEMMA CandidateType ==
    ASSUME TypeOK, NEW c \in Candidates
    PROVE  /\ cand[c] \in Candidate
           /\ cand[c].known \in BOOLEAN /\ cand[c].target \in Versions
           /\ cand[c].base \in Contents \cup {Nothing}
           /\ cand[c].content \in Contents \cup {Nothing}
           /\ cand[c].proposer \in Principals
           /\ cand[c].above \in Candidates \cup {None} /\ cand[c].passes \in BOOLEAN
<1>1. cand[c] \in Candidate
  BY DEF TypeOK
<1> QED
  BY <1>1 DEF Candidate

-----------------------------------------------------------------------------
(* A process reads and checks.                                             *)

\* What a process holds when it has read is sound, and nothing else changes.
LEMMA PrepareStep ==
    ASSUME EvolutionInv, NEW p \in Procs, NEW o \in Pending, Prepare(p, o), OpSound(o)
    PROVE  EvolutionInv'
<1>1. /\ pend' = [pend EXCEPT ![p] = o]
      /\ kind' = kind /\ ver' = ver /\ cand' = cand /\ verif' = verif /\ dec' = dec
      /\ metric' = metric
  BY DEF Prepare, Stored
<1>2. TypeOK'
  BY <1>1 DEF EvolutionInv, TypeOK
<1>3. (VersionInv /\ CandidateInv /\ EvidenceInv /\ PromotedAsApproved)'
  BY <1>1 DEF EvolutionInv, VersionInv, CandidateInv, EvidenceInv, PromotedAsApproved,
              Known, Failing
<1>4. ASSUME NEW q \in Procs
      PROVE  OpSound(pend[q])'
  <2>1. OpSound(pend'[q])
    BY <1>1 DEF EvolutionInv, TypeOK
  <2> QED
    BY <1>1, <2>1 DEF OpSound, RewriteSound, OperandSound, EvidenceSound, Active, Known
<1> QED
  BY <1>2, <1>3, <1>4 DEF EvolutionInv

\* A process that gives up holds nothing.
LEMMA AbandonStep ==
    ASSUME EvolutionInv, NEW p \in Procs, Abandon(p)
    PROVE  EvolutionInv'
<1>1. OpSound(Idle)
  BY DEF OpSound, RewriteSound, OperandSound, EvidenceSound, Activations, Idle
<1>2. pend' = [pend EXCEPT ![p] = Idle] /\ UNCHANGED Stored
  BY DEF Abandon, Done
<1>3. TypeOK' /\ (VersionInv /\ CandidateInv /\ EvidenceInv /\ PromotedAsApproved)'
  BY <1>2, IdleType DEF EvolutionInv, TypeOK, VersionInv, CandidateInv, EvidenceInv,
     PromotedAsApproved, Known, Failing, Stored
<1>4. ASSUME NEW q \in Procs
      PROVE  OpSound(pend[q])'
  <2>1. OpSound(pend'[q])
    BY <1>1, <1>2 DEF EvolutionInv, TypeOK
  <2> QED
    BY <1>2, <2>1 DEF OpSound, RewriteSound, OperandSound, EvidenceSound, Active, Known,
                      Stored
<1> QED
  BY <1>3, <1>4 DEF EvolutionInv

\* An operation on versions, prepared from what is in force.
LEMMA ChangeSound ==
    ASSUME EvolutionInv, NEW o \in Activations \cup {"promoting", "restore", "uninstall"},
           NEW cur \in Active \cup {None}, NEW tgt \in Versions \cup {None},
           NEW x, NEW c, NEW d, NEW by,
           kind # "runtime",
           tgt # None =>
             /\ cur # None /\ tgt # cur
             /\ ver[tgt].state # "none" /\ ver[tgt].line = ver[cur].line
    PROVE  RewriteSound(Change(o, cur, tgt, x, c, d, by))
<1> DEFINE r == Change(o, cur, tgt, x, c, d, by)
<1>1. /\ r.op = o /\ r.cur = cur /\ r.tgt = tgt /\ r.curRev = RevOf(cur)
  BY DEF Change
<1>2. cur # None => cur \in Active /\ ver[cur].state = "active" /\ cur \in Versions
  BY DEF Active
<1>3. cur # None => RevOf(cur) = ver[cur].rev /\ ver[cur].rev \in Nat
  BY <1>2, VersionType DEF RevOf, EvolutionInv
<1> HIDE DEF r
<1>4. RewriteSound(r)
  BY <1>1, <1>2, <1>3 DEF RewriteSound
<1> QED
  BY <1>4 DEF r

\* It has the type of a pending operation.
LEMMA ChangeType ==
    ASSUME TypeOK, NEW o \in Ops, NEW cur \in Versions \cup {None},
           NEW tgt \in Versions \cup {None}, NEW x \in Contents \cup {Nothing},
           NEW c \in Candidates \cup {None}, NEW d \in Decisions \cup {None},
           NEW by \in Principals
    PROVE  Change(o, cur, tgt, x, c, d, by) \in Pending
<1>1. RevOf(cur) \in Nat /\ RevOf(tgt) \in Nat
  BY VersionType DEF RevOf
<1> QED
  BY <1>1 DEF Change, Pending

\* So has an operation about a candidate.
LEMMA RecordType ==
    ASSUME NEW o \in Ops, NEW c \in Candidates \cup {None}, NEW v \in Versions \cup {None},
           NEW x \in Contents \cup {Nothing}, NEW by \in Principals, NEW ok \in BOOLEAN,
           NEW n \in Nat
    PROVE  Record(o, c, v, x, by, ok, n) \in Pending
BY DEF Record, Pending, None

\* An operation on versions whose operands and evidence are sound.
LEMMA ChangeStep ==
    ASSUME EvolutionInv, NEW p \in Procs,
           NEW o \in Activations \cup {"promoting", "restore", "uninstall"},
           NEW cur \in Active \cup {None}, NEW tgt \in Versions \cup {None},
           NEW x \in Contents \cup {Nothing}, NEW c \in Candidates \cup {None},
           NEW d \in Decisions \cup {None}, NEW by \in Principals,
           Prepare(p, Change(o, cur, tgt, x, c, d, by)),
           kind # "runtime",
           tgt # None =>
             /\ cur # None /\ tgt # cur
             /\ ver[tgt].state # "none" /\ ver[tgt].line = ver[cur].line,
           OperandSound(Change(o, cur, tgt, x, c, d, by)),
           EvidenceSound(Change(o, cur, tgt, x, c, d, by))
    PROVE  EvolutionInv'
<1>1. cur \in Versions \cup {None} /\ o \in Ops
  BY DEF Active, Ops
<1>2. Change(o, cur, tgt, x, c, d, by) \in Pending
  BY <1>1, ChangeType DEF EvolutionInv
<1>3. RewriteSound(Change(o, cur, tgt, x, c, d, by))
  BY ChangeSound
<1> QED
  BY <1>2, <1>3, PrepareStep DEF OpSound

\* A registration.
LEMMA RegisterStep ==
    ASSUME EvolutionInv, NEW p \in Procs, NEW x \in Contents,
           RegisterPrompt(p, x) \/ RegisterPolicy(p, x) \/ RegisterAdapter(p, x)
    PROVE  EvolutionInv'
<1> DEFINE r == Change("register", None, None, x, None, None, Owner)
<1>1. kind \in {"prompt", "policy", "adapter"} /\ Prepare(p, r)
  BY DEF RegisterPrompt, RegisterPolicy, RegisterAdapter, PrepareRegister
<1>2. r.op = "register" /\ r.cur = None /\ r.cand = None /\ r.content = x
  BY DEF Change
<1>3. Owner \in Principals /\ "register" \in Activations
  BY DEF Principals, Activations
<1>4. OperandSound(r) /\ EvidenceSound(r)
  <2> HIDE DEF r
  <2> QED
    BY <1>1, <1>2, <1>3 DEF OperandSound, EvidenceSound
<1> QED
  BY <1>1, <1>3, <1>4, ChangeStep

\* An installation, of the owner or of a promotion that has the evidence.
LEMMA InstallStep ==
    ASSUME EvolutionInv, NEW p \in Procs, NEW x \in Contents,
           NEW c \in Candidates \cup {None}, NEW d \in Decisions \cup {None},
           NEW by \in Principals, PrepareInstall(p, x, c, d, by),
           c # None =>
             /\ Known(c) /\ x = cand[c].content
             /\ d # None /\ dec[d].cand = c
             /\ [cand |-> c, by |-> by, passed |-> TRUE] \in verif
             /\ by # Owner /\ Owner # cand[c].proposer
    PROVE  EvolutionInv'
<1>1. PICK cur \in Active \cup {None} : Prepare(p, Change("install", cur, None, x, c, d, by))
  BY DEF PrepareInstall
<1> DEFINE r == Change("install", cur, None, x, c, d, by)
<1>2. kind = "workflow" /\ "install" \in Activations
  BY DEF PrepareInstall, Activations
<1>3. /\ r.op = "install" /\ r.content = x /\ r.cand = c /\ r.dec = d /\ r.by = by
  BY DEF Change
<1>4. OperandSound(r) /\ EvidenceSound(r)
  <2> HIDE DEF r
  <2> QED
    BY <1>2, <1>3 DEF OperandSound, EvidenceSound
<1> QED
  BY <1>1, <1>2, <1>4, ChangeStep

\* A rollback, to a version of the same line, or the end of a Package.
LEMMA RollbackStep ==
    ASSUME EvolutionInv, NEW p \in Procs, NEW cur \in Versions, Rollback(p, cur)
    PROVE  EvolutionInv'
<1>1. cur \in Active /\ ver[cur].state = "active" /\ cur # None /\ Owner \in Principals
  BY BoundsFacts DEF Rollback, RollbackPrompt, RollbackPolicy, RollbackAdapter, RollbackVersion,
     RollbackPackage, UninstallPackage, Active, Principals
<1>2. ver[cur].above \in Versions \cup {None} /\ VersionInv
  BY VersionType DEF EvolutionInv
<1>3. ASSUME NEW tgt \in Versions, ver[tgt].state # "none", ver[tgt].line = ver[cur].line,
             tgt # cur, kind # "runtime",
             Prepare(p, Change("restore", cur, tgt, Nothing, None, None, Owner))
      PROVE  EvolutionInv'
  <2> DEFINE r == Change("restore", cur, tgt, Nothing, None, None, Owner)
  <2>1. r.op = "restore" /\ r.cur = cur /\ r.tgt = tgt /\ r.cand = None
    BY DEF Change
  <2>2. OperandSound(r) /\ EvidenceSound(r)
    <3> HIDE DEF r
    <3> QED
      BY <1>1, <2>1, BoundsFacts DEF OperandSound, EvidenceSound, Activations
  <2> QED
    BY <1>1, <1>3, <2>2, ChangeStep
<1>4. CASE RollbackPrompt(p, cur)
  <2>1. /\ ver[cur].above # None /\ ver[ver[cur].above].state = "retired"
        /\ Prepare(p, Change("restore", cur, ver[cur].above, Nothing, None, None, Owner))
        /\ kind # "runtime"
    BY <1>4 DEF RollbackPrompt
  <2>2. ver[ver[cur].above].line = ver[cur].line
    BY <1>1, <1>2, <2>1 DEF VersionInv
  <2> QED
    BY <1>1, <1>2, <1>3, <2>1, <2>2
<1>5. CASE \E tgt \in Versions : RollbackPackage(p, cur, tgt)
  <2>1. PICK tgt \in Versions : RollbackPackage(p, cur, tgt)
    BY <1>5
  <2>2. /\ ver[tgt].state # "none" /\ tgt # cur /\ kind = "workflow"
        /\ Prepare(p, Change("restore", cur, tgt, Nothing, None, None, Owner))
    BY <2>1 DEF RollbackPackage
  <2>3. ver[tgt].line = 1 /\ ver[cur].line = 1
    BY <1>1, <1>2, <2>2 DEF VersionInv
  <2> QED
    BY <1>3, <2>2, <2>3
<1>6. CASE RollbackPolicy(p, cur) \/ RollbackAdapter(p, cur)
  <2> DEFINE tgt == ver[cur].above
             r == Change("reinstate", cur, tgt, ver[tgt].content, None, None, Owner)
  <2>1. /\ kind \in {"policy", "adapter"} /\ tgt # None /\ ver[tgt].state = "retired"
        /\ Prepare(p, r)
    BY <1>6 DEF RollbackPolicy, RollbackAdapter, RollbackVersion
  <2>2. tgt \in Versions /\ ver[tgt].line = ver[cur].line /\ tgt # cur
    BY <1>1, <1>2, <2>1 DEF VersionInv
  <2>3. ver[tgt].content \in Contents
    BY <1>2, <2>1, <2>2 DEF VersionInv
  <2>4. /\ r.op = "reinstate" /\ r.cur = cur /\ r.tgt = tgt /\ r.cand = None
        /\ r.content = ver[tgt].content
    BY DEF Change
  <2>5. OperandSound(r) /\ EvidenceSound(r)
    <3> HIDE DEF r
    <3> QED
      BY <1>1, <2>1, <2>3, <2>4 DEF OperandSound, EvidenceSound, Activations
  <2>6. "reinstate" \in Activations /\ kind # "runtime"
    BY <2>1 DEF Activations
  <2> HIDE DEF tgt
  <2> QED
    BY <1>1, <2>1, <2>2, <2>3, <2>5, <2>6, ChangeStep DEF tgt
<1>7. CASE UninstallPackage(p, cur)
  <2> DEFINE r == Change("uninstall", cur, None, Nothing, None, None, Owner)
  <2>1. Prepare(p, r) /\ kind = "workflow"
    BY <1>7 DEF UninstallPackage
  <2>2. r.op = "uninstall" /\ r.cur = cur /\ r.cand = None
    BY DEF Change
  <2>3. OperandSound(r) /\ EvidenceSound(r)
    <3> HIDE DEF r
    <3> QED
      BY <1>1, <2>1, <2>2 DEF OperandSound, EvidenceSound, Activations
  <2> QED
    BY <1>1, <2>1, <2>3, ChangeStep
<1> QED
  BY <1>4, <1>5, <1>6, <1>7 DEF Rollback

\* An operation about a candidate whose operands are sound.
LEMMA RecordStep ==
    ASSUME EvolutionInv, NEW p \in Procs,
           NEW o \in {"propose", "revise", "evaluate", "approve", "monitor"},
           NEW c \in Candidates \cup {None}, NEW v \in Versions \cup {None},
           NEW x \in Contents \cup {Nothing}, NEW by \in Principals, NEW ok \in BOOLEAN,
           NEW n \in Nat, Prepare(p, Record(o, c, v, x, by, ok, n)),
           OperandSound(Record(o, c, v, x, by, ok, n))
    PROVE  EvolutionInv'
<1> DEFINE r == Record(o, c, v, x, by, ok, n)
<1>1. r \in Pending
  BY RecordType DEF Ops
<1>2. r.op = o
  BY DEF Record
<1> HIDE DEF r
<1>3. RewriteSound(r) /\ EvidenceSound(r)
  BY <1>2 DEF RewriteSound, EvidenceSound, Activations
<1> QED
  BY <1>1, <1>3, PrepareStep DEF OpSound, r

\* A candidate is proposed for a version that exists.
LEMMA ProposeStep ==
    ASSUME EvolutionInv, NEW p \in Procs, NEW t \in Versions, NEW x \in Contents,
           NEW by \in Proposers, NEW passes \in BOOLEAN,
           ProposeEvolution(p, t, x, by, passes)
    PROVE  EvolutionInv'
<1> DEFINE r == Record("propose", None, t, x, by, passes, 0)
<1>1. Prepare(p, r) /\ BindsActive(t)
  BY DEF ProposeEvolution
<1>2. kind # "runtime" => ver[t].state # "none"
  <2>1. kind # "runtime" => t \in Active
    BY <1>1 DEF BindsActive
  <2> QED
    BY <2>1 DEF Active
<1>3. r.op = "propose" /\ r.cur = t /\ r.content = x
  BY DEF Record
<1>4. OperandSound(r)
  <2> HIDE DEF r
  <2> QED
    BY <1>2, <1>3, BoundsFacts DEF OperandSound, Activations
<1>5. by \in Principals
  BY PrincipalsAssumption DEF Principals
<1> QED
  BY <1>1, <1>4, <1>5, RecordStep

\* A candidate is revised by its proposer.
LEMMA ReviseStep ==
    ASSUME EvolutionInv, NEW p \in Procs, NEW c \in Candidates, NEW x \in Contents,
           NEW passes \in BOOLEAN, ReviseCandidate(p, c, x, passes)
    PROVE  EvolutionInv'
<1> DEFINE r == Record("revise", c, None, x, cand[c].proposer, passes, 0)
<1>1. Prepare(p, r) /\ Known(c)
  BY DEF ReviseCandidate, Current
<1>2. r.op = "revise" /\ r.cand = c /\ r.content = x
  BY DEF Record
<1>3. OperandSound(r)
  <2> HIDE DEF r
  <2> QED
    BY <1>1, <1>2 DEF OperandSound, Activations
<1>4. cand[c].proposer \in Principals
  BY CandidateType DEF EvolutionInv
<1> QED
  BY <1>1, <1>3, <1>4, RecordStep

\* A candidate is evaluated, here or outside, by somebody else.
LEMMA EvaluateStep ==
    ASSUME EvolutionInv, NEW p \in Procs, NEW c \in Candidates, NEW by \in Principals,
           \/ EvaluateCandidate(p, c, by)
           \/ \E b \in BOOLEAN : RecordExternalEvaluation(p, c, by, b)
    PROVE  EvolutionInv'
<1>1. cand[c].passes \in BOOLEAN
  BY CandidateType DEF EvolutionInv
<1>2. PICK b \in BOOLEAN :
        /\ Prepare(p, Record("evaluate", c, None, Nothing, by, b, 0))
        /\ kind # "runtime" => b = cand[c].passes
  BY <1>1 DEF EvaluateCandidate, RecordExternalEvaluation
<1>3. Known(c) /\ by # cand[c].proposer
  BY DEF EvaluateCandidate, RecordExternalEvaluation, Current
<1> DEFINE r == Record("evaluate", c, None, Nothing, by, b, 0)
<1>4. r.op = "evaluate" /\ r.cand = c /\ r.by = by /\ r.ok = b
  BY DEF Record
<1>5. OperandSound(r)
  <2> HIDE DEF r
  <2> QED
    BY <1>2, <1>3, <1>4 DEF OperandSound, Activations
<1> QED
  BY <1>2, <1>5, RecordStep

\* The owner approves on the evidence of a Verification.
LEMMA ApproveStep ==
    ASSUME EvolutionInv, NEW p \in Procs, NEW c \in Candidates, ApproveCandidate(p, c)
    PROVE  EvolutionInv'
<1>1. PICK w \in Passing(c) : Prepare(p, Record("approve", c, None, Nothing, w.by, FALSE, 0))
  BY DEF ApproveCandidate
<1>2. Known(c)
  BY DEF ApproveCandidate, Current
<1>3. w.by \in Principals
  BY DEF Passing, EvolutionInv, TypeOK, Verification
<1> DEFINE r == Record("approve", c, None, Nothing, w.by, FALSE, 0)
<1>4. r.op = "approve" /\ r.cand = c
  BY DEF Record
<1>5. OperandSound(r)
  <2> HIDE DEF r
  <2> QED
    BY <1>2, <1>4 DEF OperandSound, Activations
<1> QED
  BY <1>1, <1>3, <1>5, RecordStep

\* A metric is about a version, and there are finitely many.
LEMMA MonitorStep ==
    ASSUME EvolutionInv, NEW p \in Procs, NEW c \in Candidates, NEW v \in Versions,
           NEW by \in Principals, NEW ok \in BOOLEAN, MonitorCandidate(p, c, v, by, ok)
    PROVE  EvolutionInv'
<1> DEFINE n == Cardinality(Observations(v)) + 1
           r == Record("monitor", c, v, Nothing, by, ok, n)
<1>1. Prepare(p, r) /\ r.cur = v
  BY DEF MonitorCandidate, Record
<1>2. IsFiniteSet(Observations(v))
  BY FS_Subset DEF Observations, EvolutionInv, EvidenceInv
<1>3. n \in Nat
  BY <1>2, FS_CardinalityType
<1>4. r.op = "monitor"
  BY DEF Record
<1>5. OperandSound(r)
  <2> HIDE DEF r
  <2> QED
    BY <1>1, <1>4, BoundsFacts DEF OperandSound, Activations
<1> HIDE DEF n
<1> QED
  BY <1>1, <1>3, <1>5, RecordStep

\* What every promotion has when it has checked its candidate.
LEMMA PromotableMeans ==
    ASSUME EvolutionInv, NEW c \in Candidates, NEW w \in verif, Promotable(c, w)
    PROVE  /\ Known(c) /\ kind # "runtime" /\ Activated(c) = {}
           /\ Owner # cand[c].proposer
           /\ AcceptedDecision(c) \in Decisions /\ dec[AcceptedDecision(c)].cand = c
           /\ [cand |-> c, by |-> w.by, passed |-> TRUE] \in verif
           /\ w.by # Owner /\ w.by \in Principals
           /\ cand[c].content \in Contents
<1>1. w = [cand |-> c, by |-> w.by, passed |-> TRUE] /\ w.by \in Principals
  BY DEF Promotable, Passing, EvolutionInv, TypeOK, Verification
<1>2. cand[c].content \in Contents
  BY DEF Promotable, Current, Known, EvolutionInv, CandidateInv
<1> QED
  BY <1>1, <1>2, AcceptedIsAbout DEF Promotable, Current

\* A promotion, of the version the candidate was proposed for.
LEMMA PromoteStep ==
    ASSUME EvolutionInv, NEW p \in Procs, NEW c \in Candidates, NEW w \in verif,
           PromotePrompt(p, c, w) \/ PromotePolicy(p, c, w) \/ PromoteAdapter(p, c, w)
    PROVE  EvolutionInv'
<1> DEFINE t == cand[c].target
           d == AcceptedDecision(c)
           r == Change("promote", t, None, cand[c].content, c, d, w.by)
<1>1. /\ Promotable(c, w) /\ BindsActive(t) /\ Prepare(p, r)
      /\ kind \in {"prompt", "policy", "adapter"}
  BY DEF PromotePrompt, PromotePolicy, PromoteAdapter, Promote
<1>2. t \in Active
  BY <1>1 DEF BindsActive
<1>3. /\ Known(c) /\ Owner # cand[c].proposer /\ d \in Decisions /\ dec[d].cand = c
      /\ [cand |-> c, by |-> w.by, passed |-> TRUE] \in verif
      /\ w.by # Owner /\ w.by \in Principals /\ cand[c].content \in Contents
  BY <1>1, PromotableMeans
<1>4. /\ r.op = "promote" /\ r.cur = t /\ r.cand = c /\ r.dec = d /\ r.by = w.by
      /\ r.content = cand[c].content
  BY DEF Change
<1>5. OperandSound(r) /\ EvidenceSound(r)
  <2> HIDE DEF r, d
  <2> QED
    BY <1>1, <1>3, <1>4, BoundsFacts DEF OperandSound, EvidenceSound
<1>6. "promote" \in Activations /\ kind # "runtime"
  BY <1>1 DEF Activations
<1> HIDE DEF t, d
<1> QED
  BY <1>1, <1>2, <1>3, <1>5, <1>6, ChangeStep DEF t, d

\* The check of a Package promotion, and the installation after it.
LEMMA PromotePackageStep ==
    ASSUME EvolutionInv, NEW p \in Procs,
           \/ \E c \in Candidates, w \in verif : PromotePackage(p, c, w)
           \/ InstallCandidate(p)
    PROVE  EvolutionInv'
<1>1. CASE \E c \in Candidates, w \in verif : PromotePackage(p, c, w)
  <2>1. PICK c \in Candidates, w \in verif : PromotePackage(p, c, w)
    BY <1>1
  <2> DEFINE d == AcceptedDecision(c)
             r == Change("promoting", None, None, cand[c].content, c, d, w.by)
  <2>2. Promotable(c, w) /\ Prepare(p, r) /\ kind = "workflow"
    BY <2>1 DEF PromotePackage
  <2>3. /\ Known(c) /\ Owner # cand[c].proposer /\ d \in Decisions /\ dec[d].cand = c
        /\ [cand |-> c, by |-> w.by, passed |-> TRUE] \in verif
        /\ w.by # Owner /\ w.by \in Principals /\ cand[c].content \in Contents
    BY <2>2, PromotableMeans
  <2>4. /\ r.op = "promoting" /\ r.cur = None /\ r.cand = c /\ r.dec = d
        /\ r.by = w.by /\ r.content = cand[c].content
    BY DEF Change
  <2>5. OperandSound(r) /\ EvidenceSound(r)
    <3> HIDE DEF r, d
    <3> QED
      BY <2>2, <2>3, <2>4, BoundsFacts DEF OperandSound, EvidenceSound, Activations
  <2> HIDE DEF d
  <2> QED
    BY <2>2, <2>3, <2>5, ChangeStep DEF d
<1>2. CASE InstallCandidate(p)
  <2> DEFINE o == pend[p]
  <2>1. o.op = "promoting" /\ PrepareInstall(p, o.content, o.cand, o.dec, o.by)
    BY <1>2 DEF InstallCandidate
  <2>2. OpSound(o)
    BY DEF EvolutionInv
  <2>3. /\ o.cand \in Candidates \cup {None} /\ o.dec \in Decisions \cup {None}
        /\ o.by \in Principals /\ o.content \in Contents
    BY <2>1, <2>2, PendingType DEF EvolutionInv, OpSound, OperandSound
  <2>4. o.cand # None =>
          /\ Known(o.cand) /\ o.content = cand[o.cand].content
          /\ o.dec # None /\ dec[o.dec].cand = o.cand
          /\ [cand |-> o.cand, by |-> o.by, passed |-> TRUE] \in verif
          /\ o.by # Owner /\ Owner # cand[o.cand].proposer
    BY <2>1, <2>2 DEF OpSound, EvidenceSound
  <2> QED
    BY <2>1, <2>3, <2>4, InstallStep
<1> QED
  BY <1>1, <1>2

-----------------------------------------------------------------------------
(* A process commits.                                                      *)

\* What no commit does: take a version back, rewrite it under its revision, or
\* change a candidate, a Verification or a Decision.
Monotone ==
    /\ kind' = kind
    /\ \A v \in Versions : ver[v].state # "none" =>
         /\ ver'[v].state # "none"
         /\ ver'[v].content = ver[v].content /\ ver'[v].above = ver[v].above
         /\ ver'[v].line = ver[v].line /\ ver'[v].cand = ver[v].cand
         /\ ver'[v].dec = ver[v].dec /\ ver'[v].verifier = ver[v].verifier
         /\ ver[v].rev <= ver'[v].rev
         /\ ver'[v].rev = ver[v].rev => ver'[v] = ver[v]
    /\ \A c \in Candidates : cand[c].known => cand'[c] = cand[c]
    /\ verif \subseteq verif'
    /\ \A d \in Decisions : dec[d].cand # None => dec'[d] = dec[d]

\* What another process holds stays sound.
LEMMA MonotoneOp ==
    ASSUME EvolutionInv, Monotone, TypeOK', NEW o \in Pending, OpSound(o)
    PROVE  OpSound(o)'
<1>1. /\ o.cur \in Versions \cup {None} /\ o.tgt \in Versions \cup {None}
      /\ o.curRev \in Nat /\ o.cand \in Candidates \cup {None}
      /\ o.dec \in Decisions \cup {None}
  BY DEF Pending
<1>2. \A v \in Versions : ver[v].rev \in Nat /\ ver'[v].rev \in Nat
  BY DEF EvolutionInv, TypeOK, Version
<1>3. RewriteSound(o)'
  <2> SUFFICES ASSUME o.op \in Activations \cup {"promoting", "restore", "uninstall"}
               PROVE  /\ kind' # "runtime"
                      /\ o.cur # None =>
                           /\ ver'[o.cur].state # "none"
                           /\ o.curRev <= ver'[o.cur].rev
                           /\ o.curRev = ver'[o.cur].rev => o.cur \in Active'
                      /\ o.tgt # None =>
                           /\ o.cur # None /\ o.tgt # o.cur
                           /\ ver'[o.tgt].state # "none"
                           /\ ver'[o.tgt].line = ver'[o.cur].line
    BY DEF RewriteSound, Activations
  <2>1. /\ kind # "runtime"
        /\ o.cur # None =>
             /\ ver[o.cur].state # "none"
             /\ o.curRev <= ver[o.cur].rev
             /\ o.curRev = ver[o.cur].rev => o.cur \in Active
        /\ o.tgt # None =>
             /\ o.cur # None /\ o.tgt # o.cur
             /\ ver[o.tgt].state # "none"
             /\ ver[o.tgt].line = ver[o.cur].line
    BY DEF OpSound, RewriteSound
  <2>2. ASSUME o.cur # None
        PROVE  /\ ver'[o.cur].state # "none" /\ ver'[o.cur].line = ver[o.cur].line
               /\ o.curRev <= ver'[o.cur].rev
               /\ o.curRev = ver'[o.cur].rev => o.cur \in Active'
    <3>1. /\ ver'[o.cur].state # "none" /\ ver'[o.cur].line = ver[o.cur].line
          /\ ver[o.cur].rev <= ver'[o.cur].rev
          /\ ver'[o.cur].rev = ver[o.cur].rev => ver'[o.cur] = ver[o.cur]
      BY <1>1, <2>1, <2>2 DEF Monotone
    <3>2. ver[o.cur].rev \in Nat /\ ver'[o.cur].rev \in Nat
      BY <1>1, <1>2, <2>2
    <3>3. o.curRev <= ver'[o.cur].rev
          /\ (o.curRev = ver'[o.cur].rev => o.curRev = ver[o.cur].rev
                                            /\ ver'[o.cur].rev = ver[o.cur].rev)
      BY <1>1, <2>1, <2>2, <3>1, <3>2
    <3> QED
      BY <1>1, <2>1, <2>2, <3>1, <3>3 DEF Active
  <2>3. o.tgt # None => /\ ver'[o.tgt].state # "none"
                        /\ ver'[o.tgt].line = ver[o.tgt].line
    BY <1>1, <2>1 DEF Monotone
  <2> QED
    BY <2>1, <2>2, <2>3 DEF Monotone
<1>4. EvidenceSound(o)'
  <2>1. ASSUME o.op \in Activations \cup {"promoting"}, o.cand # None
        PROVE  /\ Known(o.cand) /\ o.content = cand[o.cand].content
               /\ o.dec \in Decisions /\ dec[o.dec].cand = o.cand
               /\ [cand |-> o.cand, by |-> o.by, passed |-> TRUE] \in verif
               /\ o.by # Owner /\ Owner # cand[o.cand].proposer
    BY <1>1, <2>1 DEF OpSound, EvidenceSound
  <2>2. ASSUME o.op \in Activations \cup {"promoting"}, o.cand # None
        PROVE  /\ cand'[o.cand] = cand[o.cand] /\ dec'[o.dec] = dec[o.dec]
               /\ Known(o.cand)'
    BY <2>1, <2>2 DEF Monotone, Known
  <2>3. verif \subseteq verif'
    BY DEF Monotone
  <2>4. None \notin Decisions
    BY BoundsFacts
  <2> QED
    BY <2>1, <2>2, <2>3, <2>4 DEF EvidenceSound, Activations
<1>5. OperandSound(o)'
  <2>1. Known(o.cand) => Known(o.cand)' /\ cand'[o.cand] = cand[o.cand]
    BY DEF Monotone, Known
  <2>2. o.op = "promote" => Known(o.cand)
    BY DEF OpSound, EvidenceSound, OperandSound, Activations
  <2>3. o.op = "reinstate" => ver'[o.tgt].content = ver[o.tgt].content
    BY <1>1 DEF OpSound, RewriteSound, OperandSound, Activations, Monotone
  <2>4. o.op = "propose" /\ kind # "runtime" => ver'[o.cur].state # "none"
    BY <1>1 DEF OpSound, OperandSound, Monotone
  <2>5. kind' = kind
    BY DEF Monotone
  <2>6. OperandSound(o)
    BY DEF OpSound
  <2> QED
    BY <2>1, <2>2, <2>3, <2>4, <2>5, <2>6 DEF OperandSound, Activations
<1> QED
  BY <1>3, <1>4, <1>5 DEF OpSound

LEMMA MonotoneOps ==
    ASSUME EvolutionInv, Monotone, TypeOK', NEW p \in Procs, Done(p), NEW q \in Procs
    PROVE  OpSound(pend[q])'
<1>1. ASSUME NEW o, o = pend'[q], OpSound(o)'
      PROVE  OpSound(pend[q])'
  BY <1>1 DEF OpSound, RewriteSound, OperandSound, EvidenceSound, Active, Known
<1>2. CASE q = p
  <2>1. pend'[q] = Idle
    BY <1>2 DEF Done, EvolutionInv, TypeOK
  <2> QED
    BY <2>1 DEF OpSound, RewriteSound, OperandSound, EvidenceSound, Activations, Idle
<1>3. CASE q # p
  <2>1. pend'[q] = pend[q]
    BY <1>3 DEF Done, EvolutionInv, TypeOK
  <2>2. PICK o \in Pending : o = pend[q]
    BY DEF EvolutionInv, TypeOK
  <2>3. OpSound(o)
    <3>1. OpSound(pend[q])
      BY DEF EvolutionInv
    <3> QED
      BY <2>2, <3>1
  <2>4. OpSound(o)'
    BY <2>3, MonotoneOp
  <2> QED
    BY <1>1, <2>1, <2>2, <2>4
<1> QED
  BY <1>2, <1>3

\* What PromotedAsApproved says of one version.
Approved(v) ==
    ver[v].cand # None =>
        LET c == ver[v].cand
            d == ver[v].dec IN
        /\ Known(c) /\ ver[v].content = cand[c].content
        /\ d # None /\ dec[d].cand = c
        /\ [cand |-> c, by |-> ver[v].verifier, passed |-> TRUE] \in verif
        /\ Failing(c) = {}
        /\ Cardinality({cand[c].proposer, ver[v].verifier, Owner}) = 3

\* One passing Verification of what is evaluated here leaves none that failed.
LEMMA NoneFailed ==
    ASSUME EvidenceInv', kind' # "runtime", NEW c, NEW b,
           [cand |-> c, by |-> b, passed |-> TRUE] \in verif'
    PROVE  Failing(c)' = {}
<1>1. \A w \in verif' : w.passed = cand'[w.cand].passes
  BY DEF EvidenceInv
<1>2. cand'[c].passes = TRUE
  <2> DEFINE w == [cand |-> c, by |-> b, passed |-> TRUE]
  <2>1. w.cand = c /\ w.passed = TRUE /\ w \in verif'
    OBVIOUS
  <2> HIDE DEF w
  <2> QED
    BY <1>1, <2>1
<1>3. ASSUME NEW w \in verif', w.cand = c, ~w.passed
      PROVE  FALSE
  BY <1>1, <1>2, <1>3
<1> QED
  BY <1>3 DEF Failing

\* A version that was promoted on evidence keeps it.
LEMMA OldApproved ==
    ASSUME EvolutionInv, Monotone, EvidenceInv', NEW v \in Versions,
           ver[v].state # "none"
    PROVE  Approved(v)'
<1> DEFINE c == ver[v].cand
           d == ver[v].dec
<1>1. /\ kind' = kind /\ ver'[v].cand = c /\ ver'[v].dec = d
      /\ ver'[v].content = ver[v].content /\ ver'[v].verifier = ver[v].verifier
  BY DEF Monotone
<1>2. kind # "runtime" /\ d \in Decisions \cup {None}
  BY VersionType DEF EvolutionInv, VersionInv
<1>3. ASSUME c # None
      PROVE  /\ Known(c)' /\ ver[v].content = cand'[c].content
             /\ d # None /\ dec'[d].cand = c
             /\ [cand |-> c, by |-> ver[v].verifier, passed |-> TRUE] \in verif'
             /\ Failing(c)' = {}
             /\ Cardinality({cand'[c].proposer, ver[v].verifier, Owner}) = 3
  <2>1. /\ Known(c) /\ ver[v].content = cand[c].content
        /\ d # None /\ dec[d].cand = c
        /\ [cand |-> c, by |-> ver[v].verifier, passed |-> TRUE] \in verif
        /\ Cardinality({cand[c].proposer, ver[v].verifier, Owner}) = 3
    BY <1>3 DEF EvolutionInv, PromotedAsApproved
  <2>2. cand'[c] = cand[c] /\ Known(c)'
    BY <2>1 DEF Monotone, Known
  <2>3. dec'[d] = dec[d]
    BY <1>2, <1>3, <2>1 DEF Monotone
  <2>4. [cand |-> c, by |-> ver[v].verifier, passed |-> TRUE] \in verif'
    BY <2>1 DEF Monotone
  <2>5. Failing(c)' = {}
    BY <1>1, <1>2, <2>4, NoneFailed
  <2> QED
    BY <2>1, <2>2, <2>3, <2>4, <2>5
<1> QED
  BY <1>1, <1>3 DEF Approved

\* What VersionInv says of one version that exists.
Descended(v) ==
    /\ kind # "runtime"
    /\ ver[v].content \in Contents
    /\ IF kind = "prompt" THEN ver[ver[v].line].state # "none" ELSE ver[v].line = 1
    /\ ver[v].above # None =>
         /\ ver[ver[v].above].state # "none"
         /\ ver[ver[v].above].line = ver[v].line

\* A version that existed still descends from what exists.
LEMMA OldDescended ==
    ASSUME EvolutionInv, Monotone, NEW v \in Versions, ver[v].state # "none"
    PROVE  ver'[v].state # "none" /\ Descended(v)'
<1>1. Descended(v)
  BY DEF EvolutionInv, VersionInv, Descended
<1>2. ver[v].line \in Versions /\ ver[v].above \in Versions \cup {None}
  BY VersionType DEF EvolutionInv
<1>3. /\ kind' = kind /\ ver'[v].state # "none" /\ ver'[v].content = ver[v].content
      /\ ver'[v].line = ver[v].line /\ ver'[v].above = ver[v].above
  BY DEF Monotone
<1>4. ver[ver[v].line].state # "none" => ver'[ver[v].line].state # "none"
  BY <1>2 DEF Monotone
<1>5. ver[v].above # None => /\ ver'[ver[v].above].state # "none"
                             /\ ver'[ver[v].above].line = ver[ver[v].above].line
  BY <1>1, <1>2 DEF Monotone, Descended
<1> QED
  BY <1>1, <1>3, <1>4, <1>5 DEF Descended

\* A commit that is monotone has to answer only for the records it makes.
LEMMA CommitKeeps ==
    ASSUME EvolutionInv, Monotone, TypeOK', CandidateInv', EvidenceInv',
           NEW p \in Procs, Done(p),
           \A v \in Versions : ver[v].state = "none" =>
             IF ver'[v].state = "none" THEN ver'[v].cand = None
             ELSE Descended(v)' /\ Approved(v)'
    PROVE  EvolutionInv'
<1>1. ASSUME NEW v \in Versions
      PROVE  /\ IF ver'[v].state = "none" THEN ver'[v].cand = None
                ELSE Descended(v)' /\ Approved(v)'
             /\ Approved(v)'
  <2>1. CASE ver[v].state = "none"
    BY <2>1 DEF Approved
  <2>2. CASE ver[v].state # "none"
    BY <2>2, OldDescended, OldApproved
  <2> QED
    BY <2>1, <2>2
<1>2. VersionInv'
  BY <1>1 DEF VersionInv, Descended
<1>3. PromotedAsApproved'
  BY <1>1 DEF PromotedAsApproved, Approved
<1> QED
  BY <1>2, <1>3, MonotoneOps DEF EvolutionInv

\* Candidates and evidence do not depend on which versions are in force.
LEMMA EvidenceKept ==
    ASSUME EvolutionInv, Monotone, UNCHANGED <<kind, cand, verif, dec, metric>>
    PROVE  CandidateInv' /\ EvidenceInv'
<1>1. EvidenceInv'
  BY DEF EvolutionInv, EvidenceInv, Known
<1>2. CandidateInv'
  <2> SUFFICES ASSUME NEW c \in Candidates, cand[c].known
               PROVE  /\ cand[c].content \in Contents
                      /\ kind # "runtime" =>
                           /\ ver'[cand[c].target].state # "none"
                           /\ cand[c].base = ver'[cand[c].target].content
    BY DEF CandidateInv
  <2>1. cand[c].target \in Versions
    BY CandidateType DEF EvolutionInv
  <2> QED
    BY <2>1 DEF EvolutionInv, CandidateInv, Monotone
<1> QED
  BY <1>1, <1>2

\* A version that is only rewritten keeps what binds it, under a new revision.
LEMMA RewriteTypes ==
    ASSUME TypeOK, NEW v \in Versions
    PROVE  /\ Retired(ver[v]) \in Version /\ Reactivated(ver[v]) \in Version
           /\ Retired(ver[v]).rev = ver[v].rev + 1
           /\ Reactivated(ver[v]).rev = ver[v].rev + 1
BY VersionType DEF Retired, Reactivated, Version

\* A commit that only rewrites versions there are keeps the invariant.
LEMMA RewriteKeeps ==
    ASSUME EvolutionInv, NEW p \in Procs, Done(p),
           UNCHANGED <<kind, cand, verif, dec, metric>>,
           ver' \in [Versions -> Version],
           \A v \in Versions :
             \/ ver'[v] = ver[v]
             \/ ver[v].state # "none" /\ ver'[v] \in {Retired(ver[v]), Reactivated(ver[v])}
    PROVE  EvolutionInv'
<1>1. TypeOK'
  BY IdleType DEF EvolutionInv, TypeOK, Done
<1>2. Monotone
  <2>1. ASSUME NEW v \in Versions, ver[v].state # "none"
        PROVE  /\ ver'[v].state # "none"
               /\ ver'[v].content = ver[v].content /\ ver'[v].above = ver[v].above
               /\ ver'[v].line = ver[v].line /\ ver'[v].cand = ver[v].cand
               /\ ver'[v].dec = ver[v].dec /\ ver'[v].verifier = ver[v].verifier
               /\ ver[v].rev <= ver'[v].rev
               /\ ver'[v].rev = ver[v].rev => ver'[v] = ver[v]
    <3>1. ver[v].rev \in Nat
      BY VersionType DEF EvolutionInv
    <3> QED
      BY <2>1, <3>1 DEF Retired, Reactivated
  <2> QED
    BY <2>1 DEF Monotone
<1>3. CandidateInv' /\ EvidenceInv'
  BY <1>2, EvidenceKept
<1>4. ASSUME NEW v \in Versions, ver[v].state = "none"
      PROVE  ver'[v].state = "none" /\ ver'[v].cand = None
  BY <1>4 DEF EvolutionInv, VersionInv
<1> QED
  BY <1>1, <1>2, <1>3, <1>4, CommitKeeps

LEMMA CommitRestoreStep ==
    ASSUME EvolutionInv, NEW p \in Procs, CommitRestore(p)
    PROVE  EvolutionInv'
<1> DEFINE o == pend[p]
<1>1. /\ o.op = "restore" /\ OpSound(o)
      /\ o.cur \in Versions \cup {None} /\ o.tgt \in Versions \cup {None}
  BY PendingType DEF EvolutionInv, CommitRestore
<1>2. /\ o.cur \in Versions /\ ver[o.cur].state # "none"
      /\ o.tgt \in Versions /\ ver[o.tgt].state # "none"
  BY <1>1 DEF OpSound, OperandSound, RewriteSound
<1>3. /\ ver' = [u \in Versions |->
                   IF u = o.cur THEN Retired(ver[u])
                   ELSE IF u = o.tgt THEN Reactivated(ver[u]) ELSE ver[u]]
      /\ Done(p) /\ UNCHANGED <<kind, cand, verif, dec, metric>>
  BY DEF CommitRestore
<1>4. ver' \in [Versions -> Version]
  BY <1>3, RewriteTypes, VersionType DEF EvolutionInv
<1> HIDE DEF o
<1> QED
  BY <1>2, <1>3, <1>4, RewriteKeeps

LEMMA CommitUninstallStep ==
    ASSUME EvolutionInv, NEW p \in Procs, CommitUninstall(p)
    PROVE  EvolutionInv'
<1> DEFINE o == pend[p]
<1>1. o.op = "uninstall" /\ OpSound(o) /\ o.cur \in Versions \cup {None}
  BY PendingType DEF EvolutionInv, CommitUninstall
<1>2. o.cur \in Versions /\ ver[o.cur].state # "none"
  BY <1>1 DEF OpSound, OperandSound, RewriteSound
<1>3. /\ ver' = [ver EXCEPT ![o.cur] = Retired(@)]
      /\ Done(p) /\ UNCHANGED <<kind, cand, verif, dec, metric>>
  BY DEF CommitUninstall
<1> HIDE DEF o
<1>4. \A v \in Versions : ver'[v] = IF v = o.cur THEN Retired(ver[v]) ELSE ver[v]
  BY <1>2, <1>3 DEF EvolutionInv, TypeOK
<1>5. ver' \in [Versions -> Version]
  BY <1>2, <1>3, RewriteTypes DEF EvolutionInv, TypeOK
<1> QED
  BY <1>2, <1>3, <1>4, <1>5, RewriteKeeps

\* A commit that leaves the versions alone has to answer for the rest only.
LEMMA VersionsKept ==
    ASSUME EvolutionInv, ver' = ver, NEW p \in Procs, Done(p),
           TypeOK', Monotone, CandidateInv', EvidenceInv'
    PROVE  EvolutionInv'
<1>1. ASSUME NEW v \in Versions, ver[v].state = "none"
      PROVE  ver'[v].state = "none" /\ ver'[v].cand = None
  BY <1>1 DEF EvolutionInv, VersionInv
<1> QED
  BY <1>1, CommitKeeps

\* A new candidate changes none there was.
LEMMA NewCandidate ==
    ASSUME EvolutionInv, NEW p \in Procs, Done(p), NEW c \in Candidates, ~Known(c),
           UNCHANGED <<kind, ver, verif, dec, metric>>,
           NEW r \in Candidate, cand' = [cand EXCEPT ![c] = r], r.known,
           r.content \in Contents,
           kind # "runtime" => ver[r.target].state # "none" /\ r.base = ver[r.target].content
    PROVE  EvolutionInv'
<1>1. TypeOK'
  BY IdleType DEF EvolutionInv, TypeOK, Done
<1>2. \A e \in Candidates : cand'[e] = IF e = c THEN r ELSE cand[e]
  BY DEF EvolutionInv, TypeOK
<1>3. \A e \in Candidates : cand[e].known => cand'[e] = cand[e]
  BY <1>2 DEF Known
<1>4. Monotone
  BY <1>3, VersionType DEF Monotone, EvolutionInv
<1>5. CandidateInv'
  BY <1>2 DEF EvolutionInv, CandidateInv
<1>6. EvidenceInv'
  <2>1. \A e : Known(e) => Known(e)' /\ cand'[e] = cand[e]
    BY <1>3 DEF Known
  <2> QED
    BY <2>1 DEF EvolutionInv, EvidenceInv
<1> QED
  BY <1>1, <1>4, <1>5, <1>6, VersionsKept

LEMMA CommitProposeStep ==
    ASSUME EvolutionInv, NEW p \in Procs, NEW c \in Candidates, CommitPropose(p, c)
    PROVE  EvolutionInv'
<1> DEFINE o == pend[p]
           r == [known |-> TRUE, target |-> o.cur, base |-> ver[o.cur].content,
                 content |-> o.content, proposer |-> o.by, above |-> None,
                 passes |-> o.ok]
<1>1. /\ o.op = "propose" /\ OpSound(o) /\ o.cur \in Versions \cup {None}
      /\ o.by \in Principals /\ o.ok \in BOOLEAN
  BY PendingType DEF EvolutionInv, CommitPropose
<1>2. /\ o.cur \in Versions /\ o.content \in Contents
      /\ kind # "runtime" => ver[o.cur].state # "none"
  BY <1>1 DEF OpSound, OperandSound
<1>3. ver[o.cur].content \in Contents \cup {Nothing}
  BY <1>2, VersionType DEF EvolutionInv
<1>4. r \in Candidate
  BY <1>1, <1>2, <1>3 DEF Candidate
<1>5. /\ r.known /\ r.content \in Contents
      /\ kind # "runtime" => ver[r.target].state # "none" /\ r.base = ver[r.target].content
  BY <1>2
<1>6. /\ ~Known(c) /\ cand' = [cand EXCEPT ![c] = r]
      /\ Done(p) /\ UNCHANGED <<kind, ver, verif, dec, metric>>
  BY DEF CommitPropose
<1> HIDE DEF r, o
<1> QED
  BY <1>4, <1>5, <1>6, NewCandidate

LEMMA CommitReviseStep ==
    ASSUME EvolutionInv, NEW p \in Procs, NEW c \in Candidates, CommitRevise(p, c)
    PROVE  EvolutionInv'
<1> DEFINE o == pend[p]
           r == [known |-> TRUE, target |-> cand[o.cand].target,
                 base |-> cand[o.cand].base, content |-> o.content,
                 proposer |-> o.by, above |-> o.cand, passes |-> o.ok]
<1>1. /\ o.op = "revise" /\ OpSound(o) /\ o.by \in Principals /\ o.ok \in BOOLEAN
  BY PendingType DEF EvolutionInv, CommitRevise
<1>2. o.content \in Contents /\ Known(o.cand)
  BY <1>1 DEF OpSound, OperandSound
<1>3. o.cand \in Candidates /\ cand[o.cand].known
  BY <1>2 DEF Known
<1>4. /\ cand[o.cand].target \in Versions
      /\ cand[o.cand].base \in Contents \cup {Nothing}
      /\ kind # "runtime" =>
           /\ ver[cand[o.cand].target].state # "none"
           /\ cand[o.cand].base = ver[cand[o.cand].target].content
  BY <1>3, CandidateType DEF EvolutionInv, CandidateInv
<1>5. r \in Candidate
  BY <1>1, <1>2, <1>3, <1>4 DEF Candidate
<1>6. /\ r.known /\ r.content \in Contents
      /\ kind # "runtime" => ver[r.target].state # "none" /\ r.base = ver[r.target].content
  BY <1>2, <1>4
<1>7. /\ ~Known(c) /\ cand' = [cand EXCEPT ![c] = r]
      /\ Done(p) /\ UNCHANGED <<kind, ver, verif, dec, metric>>
  BY DEF CommitRevise
<1> HIDE DEF r, o
<1> QED
  BY <1>5, <1>6, <1>7, NewCandidate

LEMMA CommitEvaluateStep ==
    ASSUME EvolutionInv, NEW p \in Procs, CommitEvaluate(p)
    PROVE  EvolutionInv'
<1> DEFINE o == pend[p]
           w == [cand |-> o.cand, by |-> o.by, passed |-> o.ok]
<1>1. o.op = "evaluate" /\ OpSound(o) /\ o.by \in Principals /\ o.ok \in BOOLEAN
  BY PendingType DEF EvolutionInv, CommitEvaluate
<1>2. /\ Known(o.cand) /\ o.by # cand[o.cand].proposer
      /\ kind # "runtime" => o.ok = cand[o.cand].passes
  BY <1>1 DEF OpSound, OperandSound
<1>3. /\ verif' = verif \cup {w} /\ Done(p)
      /\ UNCHANGED <<kind, ver, cand, dec, metric>>
  BY DEF CommitEvaluate
<1>4. /\ w \in Verification /\ Known(w.cand) /\ w.by # cand[w.cand].proposer
      /\ kind # "runtime" => w.passed = cand[w.cand].passes
  BY <1>1, <1>2 DEF Verification, Known
<1> HIDE DEF w, o
<1>5. TypeOK'
  BY <1>3, <1>4, IdleType DEF EvolutionInv, TypeOK, Done
<1>6. Monotone
  BY <1>3, VersionType DEF Monotone, EvolutionInv
<1>7. CandidateInv'
  BY <1>3 DEF EvolutionInv, CandidateInv
<1>8. EvidenceInv'
  BY <1>3, <1>4 DEF EvolutionInv, EvidenceInv, Known
<1> QED
  BY <1>3, <1>5, <1>6, <1>7, <1>8, VersionsKept

LEMMA CommitApproveStep ==
    ASSUME EvolutionInv, NEW p \in Procs, NEW d \in Decisions, CommitApprove(p, d)
    PROVE  EvolutionInv'
<1> DEFINE o == pend[p]
           r == [cand |-> o.cand, verifier |-> o.by]
<1>1. /\ o.op = "approve" /\ OpSound(o) /\ o.by \in Principals
      /\ o.cand \in Candidates \cup {None}
  BY PendingType DEF EvolutionInv, CommitApprove
<1>2. Known(o.cand)
  BY <1>1 DEF OpSound, OperandSound
<1>3. /\ dec[d].cand = None /\ dec' = [dec EXCEPT ![d] = r] /\ Done(p)
      /\ UNCHANGED <<kind, ver, cand, verif, metric>>
  BY DEF CommitApprove
<1>4. r \in Decision /\ Known(r.cand)
  BY <1>1, <1>2 DEF Decision
<1> HIDE DEF r, o
<1>5. \A e \in Decisions : dec'[e] = IF e = d THEN r ELSE dec[e]
  BY <1>3 DEF EvolutionInv, TypeOK
<1>6. TypeOK'
  BY <1>3, <1>4, IdleType DEF EvolutionInv, TypeOK, Done
<1>7. Monotone
  BY <1>3, <1>5, VersionType DEF Monotone, EvolutionInv
<1>8. CandidateInv'
  BY <1>3 DEF EvolutionInv, CandidateInv
<1>9. EvidenceInv'
  BY <1>3, <1>4, <1>5 DEF EvolutionInv, EvidenceInv, Known
<1> QED
  BY <1>3, <1>6, <1>7, <1>8, <1>9, VersionsKept

LEMMA CommitMonitorStep ==
    ASSUME EvolutionInv, NEW p \in Procs, CommitMonitor(p)
    PROVE  EvolutionInv'
<1> DEFINE o == pend[p]
           m == [ver |-> o.cur, by |-> o.by, number |-> o.number, ok |-> o.ok]
<1>1. /\ metric' = metric \cup {m} /\ Done(p)
      /\ UNCHANGED <<kind, ver, cand, verif, dec>>
  BY DEF CommitMonitor
<1>2. m \in Metric
  <2>1. /\ o.op = "monitor" /\ OpSound(o) /\ o.cur \in Versions \cup {None}
        /\ o.by \in Principals /\ o.number \in Nat /\ o.ok \in BOOLEAN
    BY PendingType DEF EvolutionInv, CommitMonitor
  <2>2. o.cur \in Versions
    BY <2>1 DEF OpSound, OperandSound
  <2> QED
    BY <2>1, <2>2 DEF Metric
<1> HIDE DEF m, o
<1>3. TypeOK'
  BY <1>1, <1>2, IdleType DEF EvolutionInv, TypeOK, Done
<1>4. Monotone
  BY <1>1, VersionType DEF Monotone, EvolutionInv
<1>5. CandidateInv'
  BY <1>1 DEF EvolutionInv, CandidateInv
<1>6. IsFiniteSet(metric')
  BY <1>1, FS_AddElement DEF EvolutionInv, EvidenceInv
<1>7. EvidenceInv'
  BY <1>1, <1>6 DEF EvolutionInv, EvidenceInv, Known
<1> QED
  BY <1>1, <1>3, <1>4, <1>5, <1>7, VersionsKept

\* The version that an activation puts in force is let in by what was read, which
\* still holds, and descends from the version it replaces.
LEMMA NewVersion ==
    ASSUME EvolutionInv, NEW p \in Procs, NEW v \in Versions,
           pend[p].op \in Activations, Activate(p, v), Monotone, EvidenceInv'
    PROVE  ver'[v].state # "none" /\ Descended(v)' /\ Approved(v)'
<1>o. PICK o \in Pending : o = pend[p]
  BY DEF EvolutionInv, TypeOK
<1>1. /\ o.op \in Activations /\ OpSound(o)
      /\ o.cur \in Versions \cup {None} /\ o.cand \in Candidates \cup {None}
      /\ o.dec \in Decisions \cup {None}
  BY <1>o, PendingType DEF EvolutionInv
<1>2. /\ kind # "runtime" /\ o.content \in Contents
      /\ o.cur # None => o.cur \in Versions /\ ver[o.cur].state # "none"
  BY <1>1 DEF OpSound, RewriteSound, OperandSound
<1>3. /\ ver'[v].state = "active" /\ ver'[v].content = o.content
      /\ ver'[v].above = o.cur
      /\ ver'[v].line = IF o.cur = None THEN LineOf(v) ELSE ver[o.cur].line
      /\ ver'[v].cand = o.cand /\ ver'[v].dec = o.dec /\ ver'[v].verifier = o.by
      /\ kind' = kind
  BY <1>o DEF Activate
<1>4. Descended(v)'
  <2>1. CASE o.cur = None
    <3>1. ver'[v].line = IF kind = "prompt" THEN v ELSE 1
      BY <1>3, <2>1 DEF LineOf
    <3> QED
      BY <1>2, <1>3, <2>1, <3>1 DEF Descended
  <2>2. CASE o.cur # None
    <3>1. /\ ver'[o.cur].state # "none" /\ ver'[o.cur].line = ver[o.cur].line
          /\ Descended(o.cur)'
      BY <1>2, <2>2, OldDescended DEF Monotone
    <3> QED
      BY <1>2, <1>3, <2>2, <3>1 DEF Descended
  <2> QED
    BY <2>1, <2>2
<1>5. ASSUME o.cand # None
      PROVE  /\ Known(o.cand)' /\ o.content = cand'[o.cand].content
             /\ o.dec # None /\ dec'[o.dec].cand = o.cand
             /\ [cand |-> o.cand, by |-> o.by, passed |-> TRUE] \in verif'
             /\ Failing(o.cand)' = {}
             /\ Cardinality({cand'[o.cand].proposer, o.by, Owner}) = 3
  <2> DEFINE w == [cand |-> o.cand, by |-> o.by, passed |-> TRUE]
  <2>1. /\ Known(o.cand) /\ o.content = cand[o.cand].content
        /\ o.dec # None /\ dec[o.dec].cand = o.cand
        /\ w \in verif /\ o.by # Owner /\ Owner # cand[o.cand].proposer
    BY <1>1, <1>5 DEF OpSound, EvidenceSound
  <2>2. o.by # cand[o.cand].proposer
    <3>1. w.by # cand[w.cand].proposer
      <4> HIDE DEF w
      <4> QED
        BY <2>1 DEF EvolutionInv, EvidenceInv
    <3> QED
      BY <3>1
  <2>3. Cardinality({cand[o.cand].proposer, o.by, Owner}) = 3
    BY <2>1, <2>2, ThreeApart
  <2>4. kind' = kind /\ cand' = cand /\ verif' = verif /\ dec' = dec
    BY DEF Activate
  <2>5. Failing(o.cand)' = {}
    BY <1>2, <2>1, <2>4, NoneFailed
  <2> QED
    BY <2>1, <2>3, <2>4, <2>5 DEF Known
<1> QED
  BY <1>3, <1>4, <1>5 DEF Approved

\* An activation keeps the invariant.
LEMMA ActivateStep ==
    ASSUME EvolutionInv, NEW p \in Procs, NEW v \in Versions,
           pend[p].op \in Activations, Activate(p, v)
    PROVE  EvolutionInv'
<1> DEFINE o == pend[p]
           r == [state |-> "active", content |-> o.content, rev |-> 1,
                 above |-> o.cur,
                 line |-> IF o.cur = None THEN LineOf(v) ELSE ver[o.cur].line,
                 cand |-> o.cand, dec |-> o.dec, verifier |-> o.by]
<1>1. /\ OpSound(o) /\ o.cur \in Versions \cup {None}
      /\ o.content \in Contents \cup {Nothing} /\ o.cand \in Candidates \cup {None}
      /\ o.dec \in Decisions \cup {None} /\ o.by \in Principals
  BY PendingType DEF EvolutionInv
<1>2. /\ ver[v].state = "none" /\ Done(p) /\ UNCHANGED <<kind, cand, verif, dec, metric>>
      /\ ver' = [u \in Versions |-> IF u = v THEN r
                                    ELSE IF u = o.cur THEN Retired(ver[u]) ELSE ver[u]]
  BY DEF Activate
<1>3. r \in Version
  <2>1. o.cur # None => ver[o.cur].line \in Versions
    BY <1>1, VersionType DEF EvolutionInv
  <2>2. (IF o.cur = None THEN LineOf(v) ELSE ver[o.cur].line) \in Versions
    BY <2>1, BoundsFacts DEF LineOf
  <2> HIDE DEF o
  <2> QED
    BY <1>1, <2>2 DEF Version
<1>4. o.cur # None => ver[o.cur].state # "none"
  BY <1>1 DEF OpSound, RewriteSound
<1> HIDE DEF r, o
<1>5. TypeOK'
  BY <1>2, <1>3, IdleType, RewriteTypes, VersionType DEF EvolutionInv, TypeOK, Done
<1>6. Monotone
  <2>1. ASSUME NEW u \in Versions, ver[u].state # "none"
        PROVE  /\ ver'[u].state # "none"
               /\ ver'[u].content = ver[u].content /\ ver'[u].above = ver[u].above
               /\ ver'[u].line = ver[u].line /\ ver'[u].cand = ver[u].cand
               /\ ver'[u].dec = ver[u].dec /\ ver'[u].verifier = ver[u].verifier
               /\ ver[u].rev <= ver'[u].rev
               /\ ver'[u].rev = ver[u].rev => ver'[u] = ver[u]
    <3>1. ver[u].rev \in Nat /\ u # v
      BY <1>2, <2>1, VersionType DEF EvolutionInv
    <3>2. ver'[u] = ver[u] \/ ver'[u] = Retired(ver[u])
      BY <1>2, <3>1
    <3> QED
      BY <2>1, <3>1, <3>2 DEF Retired
  <2> QED
    BY <1>2, <2>1 DEF Monotone
<1>7. CandidateInv' /\ EvidenceInv'
  BY <1>2, <1>6, EvidenceKept
<1>8. ver'[v].state # "none" /\ Descended(v)' /\ Approved(v)'
  BY <1>6, <1>7, NewVersion
<1>9. ASSUME NEW u \in Versions, ver[u].state = "none"
      PROVE  IF ver'[u].state = "none" THEN ver'[u].cand = None
             ELSE Descended(u)' /\ Approved(u)'
  <2>1. CASE u = v
    BY <1>8, <2>1
  <2>2. CASE u # v
    <3>1. ver'[u] = ver[u]
      BY <1>1, <1>2, <1>4, <1>9, <2>2, BoundsFacts
    <3> QED
      BY <1>9, <3>1 DEF EvolutionInv, VersionInv
  <2> QED
    BY <2>1, <2>2
<1> QED
  BY <1>2, <1>5, <1>6, <1>7, <1>9, CommitKeeps

-----------------------------------------------------------------------------
(* Type correctness and what lets a version in.                            *)

LEMMA NewOnes == NewVersions \subseteq Versions /\ NewCandidates \subseteq Candidates
BY DEF NewVersions, NewCandidates, FirstUnused

\* Initially nothing is there.
LEMMA InitEvolutionInv == ASSUME Init PROVE EvolutionInv
<1>1. NoVersion \in Version
  BY BoundsFacts DEF NoVersion, Version, Principals
<1>2. NoCandidate \in Candidate
  BY BoundsFacts DEF NoCandidate, Candidate, Principals
<1>3. [cand |-> None, verifier |-> Owner] \in Decision
  BY DEF Decision, Principals
<1>4. TypeOK
  BY <1>1, <1>2, <1>3, IdleType, KindsAssumption DEF Init, TypeOK
<1>5. VersionInv /\ PromotedAsApproved
  BY DEF Init, VersionInv, PromotedAsApproved, NoVersion
<1>6. CandidateInv
  BY DEF Init, CandidateInv, NoCandidate
<1>7. EvidenceInv
  BY FS_EmptySet DEF Init, EvidenceInv
<1>8. OpSound(Idle)
  BY DEF OpSound, RewriteSound, OperandSound, EvidenceSound, Activations, Idle
<1>9. \A p \in Procs : OpSound(pend[p])
  <2>1. \A p \in Procs : pend[p] = Idle
    BY DEF Init
  <2> QED
    BY <1>8, <2>1
<1> QED
  BY <1>4, <1>5, <1>6, <1>7, <1>9 DEF EvolutionInv

\* Every step keeps the invariant.
LEMMA NextEvolutionInv == ASSUME EvolutionInv, Next PROVE EvolutionInv'
<1>1. PICK p \in Procs :
        \/ \E x \in Contents : RegisterOrInstall(p, x)
        \/ \E v \in Versions : Rollback(p, v)
        \/ \E t \in Versions, x \in Contents, by \in Proposers, b \in BOOLEAN :
             ProposeEvolution(p, t, x, by, b)
        \/ \E c \in Candidates :
             \/ \E x \in Contents, b \in BOOLEAN : ReviseCandidate(p, c, x, b)
             \/ \E by \in Principals :
                  \/ EvaluateCandidate(p, c, by)
                  \/ \E b \in BOOLEAN : RecordExternalEvaluation(p, c, by, b)
             \/ ApproveCandidate(p, c)
             \/ \E w \in verif : PromotePrompt(p, c, w) \/ PromotePolicy(p, c, w)
                                 \/ PromoteAdapter(p, c, w)
             \/ \E v \in Versions, by \in Principals, b \in BOOLEAN :
                  MonitorCandidate(p, c, v, by, b)
        \/ \/ \E c \in Candidates, w \in verif : PromotePackage(p, c, w)
           \/ InstallCandidate(p)
        \/ \E v \in NewVersions : CommitRegister(p, v) \/ CommitPromote(p, v)
                                  \/ CommitReinstate(p, v) \/ CommitInstall(p, v)
        \/ CommitRestore(p) \/ CommitUninstall(p)
        \/ \E c \in NewCandidates : CommitPropose(p, c) \/ CommitRevise(p, c)
        \/ CommitEvaluate(p) \/ CommitMonitor(p)
        \/ \E d \in Decisions : CommitApprove(p, d)
        \/ Abandon(p)
  BY DEF Next
<1>2. ASSUME NEW x \in Contents, RegisterOrInstall(p, x)
      PROVE  EvolutionInv'
  <2>1. CASE InstallPackage(p, x)
    <3>1. Owner \in Principals /\ PrepareInstall(p, x, None, None, Owner)
      BY <2>1 DEF InstallPackage, Principals
    <3> QED
      BY <3>1, InstallStep
  <2> QED
    BY <1>2, <2>1, RegisterStep DEF RegisterOrInstall
<1>3. ASSUME NEW v \in Versions, Rollback(p, v)
      PROVE  EvolutionInv'
  BY <1>3, RollbackStep
<1>4. ASSUME NEW t \in Versions, NEW x \in Contents, NEW by \in Proposers,
             NEW b \in BOOLEAN, ProposeEvolution(p, t, x, by, b)
      PROVE  EvolutionInv'
  BY <1>4, ProposeStep
<1>5. ASSUME NEW c \in Candidates,
             \/ \E x \in Contents, b \in BOOLEAN : ReviseCandidate(p, c, x, b)
             \/ \E by \in Principals :
                  \/ EvaluateCandidate(p, c, by)
                  \/ \E b \in BOOLEAN : RecordExternalEvaluation(p, c, by, b)
             \/ ApproveCandidate(p, c)
             \/ \E w \in verif : PromotePrompt(p, c, w) \/ PromotePolicy(p, c, w)
                                 \/ PromoteAdapter(p, c, w)
             \/ \E v \in Versions, by \in Principals, b \in BOOLEAN :
                  MonitorCandidate(p, c, v, by, b)
      PROVE  EvolutionInv'
  BY <1>5, ReviseStep, EvaluateStep, ApproveStep, PromoteStep, MonitorStep
<1>6. ASSUME NEW v \in NewVersions,
             CommitRegister(p, v) \/ CommitPromote(p, v)
             \/ CommitReinstate(p, v) \/ CommitInstall(p, v)
      PROVE  EvolutionInv'
  <2>1. pend[p].op \in Activations /\ Activate(p, v) /\ v \in Versions
    BY <1>6, NewOnes DEF CommitRegister, CommitPromote, CommitReinstate, CommitInstall,
                         Activations
  <2> QED
    BY <2>1, ActivateStep
<1>7. ASSUME NEW c \in NewCandidates, CommitPropose(p, c) \/ CommitRevise(p, c)
      PROVE  EvolutionInv'
  BY <1>7, NewOnes, CommitProposeStep, CommitReviseStep
<1> QED
  BY <1>1, <1>2, <1>3, <1>4, <1>5, <1>6, <1>7, PromotePackageStep, CommitRestoreStep,
     CommitUninstallStep, CommitEvaluateStep, CommitMonitorStep, CommitApproveStep,
     AbandonStep

\* A step that changes nothing.
LEMMA StutterEvolutionInv == ASSUME EvolutionInv, UNCHANGED vars PROVE EvolutionInv'
BY DEF EvolutionInv, TypeOK, VersionInv, CandidateInv, EvidenceInv, PromotedAsApproved,
       OpSound, RewriteSound, OperandSound, EvidenceSound, Known, Failing, Active, vars

\* Whatever operations overlap, crash or fail, what is stored and what each process
\* has read fit together, as EvolutionInv says.
THEOREM EvolutionIsSound == Spec => []EvolutionInv
<1>1. Init => EvolutionInv
  BY InitEvolutionInv
<1>2. EvolutionInv /\ [Next]_vars => EvolutionInv'
  BY NextEvolutionInv, StutterEvolutionInv
<1> QED
  BY <1>1, <1>2, PTL DEF Spec

\* Every record has the fields the runtime gives it.
THEOREM EvolutionTypeCorrect == Spec => []TypeOK
<1>1. EvolutionInv => TypeOK
  BY DEF EvolutionInv
<1> QED
  BY <1>1, EvolutionIsSound, PTL

\* However long a promotion or installation waits between its checks and its commit,
\* and whatever is evaluated and decided meanwhile, a version that came from a
\* candidate has the candidate's content, an accepted Decision, a passing Verification
\* and none that failed, of three different principals.
THEOREM OnlyTheApprovedIsPromoted == Spec => []PromotedAsApproved
<1>1. EvolutionInv => PromotedAsApproved
  BY DEF EvolutionInv
<1> QED
  BY <1>1, EvolutionIsSound, PTL

-----------------------------------------------------------------------------
(* What a step is to the versions in force.                                *)

\* The versions stay, and the process is not about to put in force one that was
\* promoted, or one that nothing has to make way for.
Keeps(p) ==
    /\ ver' = ver /\ kind' = kind
    /\ \A q \in Procs \ {p} : pend'[q] = pend[q]
    /\ pend'[p].op \notin {"promote", "register", "install"}

LEMMA PrepareKeeps ==
    ASSUME TypeOK, NEW p \in Procs, NEW o, Prepare(p, o),
           o.op \notin {"promote", "register", "install"}
    PROVE  Keeps(p)
BY DEF TypeOK, Prepare, Stored, Keeps

LEMMA DoneKeeps ==
    ASSUME TypeOK, NEW p \in Procs, Done(p), UNCHANGED <<kind, ver>>
    PROVE  Keeps(p)
BY DEF TypeOK, Done, Keeps, Idle

\* A rollback or an uninstallation is read.
LEMMA RollbackKeeps ==
    ASSUME TypeOK, NEW p \in Procs, NEW v \in Versions, Rollback(p, v)
    PROVE  Keeps(p)
<1>1. \E o \in {"restore", "reinstate", "uninstall"} : \E t, x :
        Prepare(p, Change(o, v, t, x, None, None, Owner))
  <2>1. CASE UninstallPackage(p, v)
    BY <2>1 DEF UninstallPackage
  <2>2. CASE RollbackPrompt(p, v)
    BY <2>2 DEF RollbackPrompt
  <2>3. CASE RollbackPolicy(p, v) \/ RollbackAdapter(p, v)
    BY <2>3 DEF RollbackPolicy, RollbackAdapter, RollbackVersion
  <2>4. CASE \E t \in Versions : RollbackPackage(p, v, t)
    BY <2>4 DEF RollbackPackage
  <2> QED
    BY <2>1, <2>2, <2>3, <2>4 DEF Rollback
<1>2. PICK o \in {"restore", "reinstate", "uninstall"} :
        \E t, x : Prepare(p, Change(o, v, t, x, None, None, Owner))
  BY <1>1
<1>3. PICK t, x : Prepare(p, Change(o, v, t, x, None, None, Owner))
  BY <1>2
<1>4. Change(o, v, t, x, None, None, Owner).op = o
  BY DEF Change
<1> QED
  BY <1>3, <1>4, PrepareKeeps

\* A proposal, a revision, an evaluation, an approval or an observation is read.
LEMMA RecordKeeps ==
    ASSUME TypeOK, NEW p \in Procs,
           NEW o \in {"propose", "revise", "evaluate", "approve", "monitor"},
           \E c, v, x, by, ok, n : Prepare(p, Record(o, c, v, x, by, ok, n))
    PROVE  Keeps(p)
<1>1. PICK c, v, x, by, ok, n : Prepare(p, Record(o, c, v, x, by, ok, n))
  OBVIOUS
<1>2. Record(o, c, v, x, by, ok, n).op = o
  BY DEF Record
<1> QED
  BY <1>1, <1>2, PrepareKeeps

\* The steps that matter to what is in force.
LEMMA StepKinds ==
    ASSUME EvolutionInv, Next
    PROVE  \E p \in Procs :
             \/ Keeps(p)
             \/ \E c \in Candidates, w \in verif :
                  PromotePrompt(p, c, w) \/ PromotePolicy(p, c, w) \/ PromoteAdapter(p, c, w)
             \/ \E x \in Contents :
                  RegisterPrompt(p, x) \/ RegisterPolicy(p, x) \/ RegisterAdapter(p, x)
             \/ \E x, c, d, by : PrepareInstall(p, x, c, d, by)
             \/ \E v \in NewVersions : CommitRegister(p, v) \/ CommitPromote(p, v)
                                       \/ CommitReinstate(p, v) \/ CommitInstall(p, v)
             \/ CommitRestore(p) \/ CommitUninstall(p)
<1>t. TypeOK
  BY DEF EvolutionInv
<1>1. ASSUME NEW p \in Procs, NEW t, NEW x, NEW by, NEW b, ProposeEvolution(p, t, x, by, b)
      PROVE  Keeps(p)
  BY <1>t, <1>1, RecordKeeps DEF ProposeEvolution
<1>2. ASSUME NEW p \in Procs, NEW c, NEW x, NEW b, ReviseCandidate(p, c, x, b)
      PROVE  Keeps(p)
  BY <1>t, <1>2, RecordKeeps DEF ReviseCandidate
<1>3. ASSUME NEW p \in Procs, NEW c, NEW by,
             EvaluateCandidate(p, c, by)
             \/ \E b \in BOOLEAN : RecordExternalEvaluation(p, c, by, b)
      PROVE  Keeps(p)
  BY <1>t, <1>3, RecordKeeps DEF EvaluateCandidate, RecordExternalEvaluation
<1>4. ASSUME NEW p \in Procs, NEW c, ApproveCandidate(p, c)
      PROVE  Keeps(p)
  BY <1>t, <1>4, RecordKeeps DEF ApproveCandidate
<1>5. ASSUME NEW p \in Procs, NEW c, NEW v, NEW by, NEW b, MonitorCandidate(p, c, v, by, b)
      PROVE  Keeps(p)
  BY <1>t, <1>5, RecordKeeps DEF MonitorCandidate
<1>6. ASSUME NEW p \in Procs, NEW c, NEW w, PromotePackage(p, c, w)
      PROVE  Keeps(p)
  <2> DEFINE r == Change("promoting", None, None, cand[c].content, c, AcceptedDecision(c), w.by)
  <2>1. Prepare(p, r) /\ r.op = "promoting"
    BY <1>6 DEF PromotePackage, Change
  <2> QED
    BY <1>t, <2>1, PrepareKeeps
<1>7. ASSUME NEW p \in Procs,
             \/ \E c : CommitPropose(p, c) \/ CommitRevise(p, c)
             \/ CommitEvaluate(p) \/ CommitMonitor(p)
             \/ \E d : CommitApprove(p, d)
             \/ Abandon(p)
      PROVE  Keeps(p)
  <2>1. Done(p) /\ UNCHANGED <<kind, ver>>
    BY <1>7 DEF CommitPropose, CommitRevise, CommitEvaluate, CommitMonitor, CommitApprove,
                Abandon, Stored
  <2> QED
    BY <1>t, <2>1, DoneKeeps
<1>8. ASSUME NEW p \in Procs, NEW v \in Versions, Rollback(p, v)
      PROVE  Keeps(p)
  BY <1>t, <1>8, RollbackKeeps
<1>9. ASSUME NEW p \in Procs, NEW x, InstallPackage(p, x)
      PROVE  \E y, c, d, by : PrepareInstall(p, y, c, d, by)
  BY <1>9 DEF InstallPackage
<1>10. ASSUME NEW p \in Procs, InstallCandidate(p)
       PROVE  \E x, c, d, by : PrepareInstall(p, x, c, d, by)
  BY <1>10 DEF InstallCandidate
<1> QED
  BY <1>1, <1>2, <1>3, <1>4, <1>5, <1>6, <1>7, <1>8, <1>9, <1>10 DEF Next, RegisterOrInstall

\* A restoration or uninstallation rewrites versions there are, and is done.
LEMMA RewriteMeans ==
    ASSUME EvolutionInv, NEW p \in Procs, CommitRestore(p) \/ CommitUninstall(p)
    PROVE  /\ UNCHANGED <<kind, cand, verif, dec, metric>>
           /\ pend'[p].op = "idle" /\ \A q \in Procs \ {p} : pend'[q] = pend[q]
           /\ \A v \in Versions :
                \/ ver'[v] = ver[v]
                \/ ver[v].state # "none" /\ ver'[v] \in {Retired(ver[v]), Reactivated(ver[v])}
<1> DEFINE o == pend[p]
<1>1. /\ o.op \in {"restore", "uninstall"} /\ OpSound(o)
      /\ o.cur \in Versions \cup {None} /\ o.tgt \in Versions \cup {None}
  BY PendingType DEF EvolutionInv, CommitRestore, CommitUninstall
<1>2. /\ o.cur \in Versions /\ ver[o.cur].state # "none"
      /\ o.tgt # None => ver[o.tgt].state # "none"
  BY <1>1 DEF OpSound, OperandSound, RewriteSound
<1>3. /\ Done(p) /\ UNCHANGED <<kind, cand, verif, dec, metric>>
  BY DEF CommitRestore, CommitUninstall
<1>4. pend'[p].op = "idle" /\ \A q \in Procs \ {p} : pend'[q] = pend[q]
  BY <1>3 DEF Done, Idle, EvolutionInv, TypeOK
<1>5. ASSUME NEW v \in Versions
      PROVE  \/ ver'[v] = ver[v]
             \/ ver[v].state # "none" /\ ver'[v] \in {Retired(ver[v]), Reactivated(ver[v])}
  <2>1. CASE CommitRestore(p)
    <3>1. ver'[v] = IF v = o.cur THEN Retired(ver[v])
                    ELSE IF v = o.tgt THEN Reactivated(ver[v]) ELSE ver[v]
      BY <2>1 DEF CommitRestore
    <3> HIDE DEF o
    <3>2. v \in {o.cur, o.tgt} => ver[v].state # "none"
      BY <1>2, BoundsFacts
    <3> QED
      BY <3>1, <3>2
  <2>2. CASE CommitUninstall(p)
    <3>1. ver' = [ver EXCEPT ![o.cur] = Retired(@)]
      BY <2>2 DEF CommitUninstall
    <3> HIDE DEF o
    <3>2. ver'[v] = IF v = o.cur THEN Retired(ver[v]) ELSE ver[v]
      BY <1>2, <3>1 DEF EvolutionInv, TypeOK
    <3> QED
      BY <1>2, <3>2
  <2> QED
    BY <2>1, <2>2
<1> QED
  BY <1>3, <1>4, <1>5

\* An activation puts one new version in force, over the one that was read and that
\* has not changed since.
LEMMA ActivateMeans ==
    ASSUME EvolutionInv, NEW p \in Procs, NEW v \in NewVersions,
           CommitRegister(p, v) \/ CommitPromote(p, v)
           \/ CommitReinstate(p, v) \/ CommitInstall(p, v)
    PROVE  /\ pend[p].op \in Activations /\ v \in Versions /\ ver[v].state = "none"
           /\ UNCHANGED <<kind, cand, verif, dec, metric>>
           /\ pend'[p].op = "idle" /\ \A q \in Procs \ {p} : pend'[q] = pend[q]
           /\ pend[p].cur # None =>
                /\ pend[p].cur \in Active /\ pend[p].cur # v
                /\ pend[p].curRev = ver[pend[p].cur].rev
           /\ ver'[v].state = "active" /\ ver'[v].content = pend[p].content
           /\ ver'[v].line = IF pend[p].cur = None THEN LineOf(v) ELSE ver[pend[p].cur].line
           /\ ver'[v].cand = pend[p].cand /\ ver'[v].above = pend[p].cur
           /\ pend[p].cur # None => ver'[pend[p].cur] = Retired(ver[pend[p].cur])
           /\ \A u \in Versions \ {v, pend[p].cur} : ver'[u] = ver[u]
<1> DEFINE o == pend[p]
<1>1. /\ Activate(p, v) /\ o.op \in Activations /\ v \in Versions
  BY NewOnes DEF CommitRegister, CommitPromote, CommitReinstate, CommitInstall, Activations
<1>2. /\ Holds(o.cur, o.curRev) /\ Done(p) /\ ver[v].state = "none"
      /\ UNCHANGED <<kind, cand, verif, dec, metric>>
  BY <1>1 DEF Activate
<1>3. OpSound(o) /\ o.cur \in Versions \cup {None}
  BY PendingType DEF EvolutionInv
<1>4. o.cur # None => /\ o.cur \in Active /\ o.cur # v /\ o.curRev = ver[o.cur].rev
  BY <1>1, <1>2, <1>3 DEF Holds, RevOf, OpSound, RewriteSound
<1>5. pend'[p].op = "idle" /\ \A q \in Procs \ {p} : pend'[q] = pend[q]
  BY <1>2 DEF Done, Idle, EvolutionInv, TypeOK
<1>6. \A u \in Versions :
        ver'[u] = IF u = v
                  THEN [state |-> "active", content |-> o.content, rev |-> 1,
                        above |-> o.cur,
                        line |-> IF o.cur = None THEN LineOf(v) ELSE ver[o.cur].line,
                        cand |-> o.cand, dec |-> o.dec, verifier |-> o.by]
                  ELSE IF u = o.cur THEN Retired(ver[u]) ELSE ver[u]
  BY <1>1 DEF Activate
<1> HIDE DEF o
<1>7. o.cur # None => ver'[o.cur] = Retired(ver[o.cur])
  BY <1>3, <1>4, <1>6
<1>8. /\ ver'[v].state = "active" /\ ver'[v].content = o.content
      /\ ver'[v].line = IF o.cur = None THEN LineOf(v) ELSE ver[o.cur].line
      /\ ver'[v].cand = o.cand /\ ver'[v].above = o.cur
      /\ \A u \in Versions \ {v, o.cur} : ver'[u] = ver[u]
  BY <1>1, <1>6
<1> QED
  BY <1>1, <1>2, <1>4, <1>5, <1>7, <1>8 DEF o

-----------------------------------------------------------------------------
(* A candidate is activated once.                                          *)

\* While the versions stay, only a process that has just checked may promote.
LEMMA ReadKeepsActivation ==
    ASSUME ActivationInv, NEW p \in Procs, ver' = ver,
           \A q \in Procs \ {p} : pend'[q] = pend[q],
           pend'[p].op = "promote" => Activated(pend'[p].cand) = {}
    PROVE  ActivatedOnce' /\ LatePromotion'
<1>1. \A c : Activated(c)' = Activated(c)
  BY DEF Activated
<1>2. ActivatedOnce'
  BY <1>1 DEF ActivationInv, ActivatedOnce
<1>3. ASSUME NEW q \in Procs, pend'[q].op = "promote", Activated(pend'[q].cand) # {}
      PROVE  pend'[q].curRev # ver'[pend'[q].cur].rev
  BY <1>3 DEF ActivationInv, LatePromotion
<1>4. LatePromotion'
  <2> SUFFICES ASSUME NEW q \in Procs, pend'[q].op = "promote",
                      Activated(pend[q].cand)' # {}
               PROVE  pend'[q].curRev # ver'[pend'[q].cur].rev
    BY DEF LatePromotion
  <2> QED
    BY <1>3 DEF Activated
<1> QED
  BY <1>2, <1>4

\* A rewritten version keeps its candidate, and a stale promotion stays stale.
LEMMA RewriteKeepsActivation ==
    ASSUME ActivationInv, NEW p \in Procs, CommitRestore(p) \/ CommitUninstall(p)
    PROVE  ActivatedOnce' /\ LatePromotion'
<1>1. /\ pend'[p].op = "idle" /\ \A q \in Procs \ {p} : pend'[q] = pend[q]
      /\ \A v \in Versions :
           \/ ver'[v] = ver[v]
           \/ ver[v].state # "none" /\ ver'[v] \in {Retired(ver[v]), Reactivated(ver[v])}
  BY RewriteMeans DEF ActivationInv
<1>2. \A v \in Versions : /\ ver'[v].state # "none" <=> ver[v].state # "none"
                          /\ ver'[v].cand = ver[v].cand
                          /\ ver'[v].rev \in {ver[v].rev, ver[v].rev + 1}
  BY <1>1 DEF Retired, Reactivated
<1>3. \A c : \A v \in Versions : v \in Activated(c)' <=> v \in Activated(c)
  BY <1>2 DEF Activated
<1>4. ActivatedOnce'
  BY <1>3 DEF ActivationInv, ActivatedOnce, Activated
<1>5. LatePromotion'
  <2> SUFFICES ASSUME NEW q \in Procs, pend'[q].op = "promote",
                      NEW v \in Versions, ver'[v].state # "none", ver'[v].cand = pend'[q].cand
               PROVE  pend'[q].curRev # ver'[pend'[q].cur].rev
    BY DEF LatePromotion, Activated
  <2>1. q # p /\ pend'[q] = pend[q]
    BY <1>1
  <2>2. v \in Activated(pend[q].cand)
    BY <1>2, <2>1 DEF Activated
  <2>3. pend[q].curRev # ver[pend[q].cur].rev
    BY <2>1, <2>2 DEF ActivationInv, LatePromotion
  <2>4. /\ pend[q].cur \in Versions /\ pend[q].curRev \in Nat
        /\ pend[q].curRev <= ver[pend[q].cur].rev
    <3>1. OpSound(pend[q]) /\ pend[q].op = "promote"
      BY <2>1 DEF ActivationInv, EvolutionInv
    <3>2. pend[q].cur = cand[pend[q].cand].target /\ Known(pend[q].cand)
      BY <3>1 DEF OpSound, OperandSound, EvidenceSound, Activations
    <3>3. pend[q].cur \in Versions /\ pend[q].curRev \in Nat
      BY <3>2, CandidateType, PendingType DEF Known, ActivationInv, EvolutionInv
    <3> QED
      BY <3>1, <3>3, BoundsFacts DEF OpSound, RewriteSound, Activations
  <2>5. ver[pend[q].cur].rev \in Nat
    BY <2>4, VersionType DEF ActivationInv, EvolutionInv
  <2> QED
    BY <1>2, <2>1, <2>3, <2>4, <2>5
<1> QED
  BY <1>4, <1>5

\* A promotion that commits is the first of its candidate: another would have
\* retired the version it found in force, and another installation would have used
\* up the content.
LEMMA FirstActivation ==
    ASSUME ActivationInv, NEW p \in Procs, NEW v \in NewVersions,
           CommitRegister(p, v) \/ CommitPromote(p, v)
           \/ CommitReinstate(p, v) \/ CommitInstall(p, v),
           pend[p].cand # None
    PROVE  Activated(pend[p].cand) = {}
<1> DEFINE o == pend[p]
<1>1. o.op \in Activations /\ OpSound(o) /\ (o.cur # None => o.curRev = ver[o.cur].rev)
  BY ActivateMeans DEF ActivationInv, EvolutionInv
<1>2. o.op \in {"promote", "install"}
  BY <1>1 DEF OpSound, OperandSound, Activations
<1>3. CASE o.op = "promote"
  <2>1. /\ o.cur = cand[o.cand].target /\ Known(o.cand)
    BY <1>1, <1>3 DEF OpSound, OperandSound, EvidenceSound, Activations
  <2>2. o.cur # None
    BY <2>1, CandidateType, BoundsFacts DEF Known, ActivationInv, EvolutionInv
  <2> QED
    BY <1>1, <1>3, <2>2 DEF ActivationInv, LatePromotion
<1>4. CASE o.op = "install"
  <2>1. \A u \in Versions : ver[u].state # "none" => ver[u].content # o.content
    BY <1>4 DEF CommitRegister, CommitPromote, CommitReinstate, CommitInstall
  <2>2. o.content = cand[o.cand].content
    BY <1>1, <1>2 DEF OpSound, EvidenceSound, Activations
  <2>3. ASSUME NEW u \in Activated(o.cand)
        PROVE  FALSE
    <3>1. u \in Versions /\ ver[u].state # "none" /\ ver[u].cand = o.cand
      BY DEF Activated
    <3>2. ver[u].content = cand[o.cand].content
      BY <3>1 DEF ActivationInv, EvolutionInv, PromotedAsApproved
    <3> QED
      BY <2>1, <2>2, <3>1, <3>2
  <2> QED
    BY <2>3
<1> QED
  BY <1>2, <1>3, <1>4

LEMMA ActivateKeepsActivation ==
    ASSUME ActivationInv, NEW p \in Procs, NEW v \in NewVersions,
           CommitRegister(p, v) \/ CommitPromote(p, v)
           \/ CommitReinstate(p, v) \/ CommitInstall(p, v)
    PROVE  ActivatedOnce' /\ LatePromotion'
<1>1. PICK o \in Pending : o = pend[p]
  BY DEF ActivationInv, EvolutionInv, TypeOK
<1>2. /\ o.op \in Activations /\ v \in Versions /\ ver[v].state = "none"
      /\ UNCHANGED <<kind, cand, verif, dec, metric>>
      /\ pend'[p].op = "idle" /\ \A q \in Procs \ {p} : pend'[q] = pend[q]
      /\ o.cur # None => /\ o.cur \in Active /\ o.cur # v /\ o.curRev = ver[o.cur].rev
                         /\ ver'[o.cur] = Retired(ver[o.cur])
      /\ ver'[v].cand = o.cand /\ ver'[v].state = "active"
      /\ \A u \in Versions \ {v, o.cur} : ver'[u] = ver[u]
  <2>1. EvolutionInv
    BY DEF ActivationInv
  <2>2. /\ pend[p].op \in Activations /\ v \in Versions /\ ver[v].state = "none"
        /\ UNCHANGED <<kind, cand, verif, dec, metric>>
        /\ pend'[p].op = "idle" /\ \A q \in Procs \ {p} : pend'[q] = pend[q]
        /\ pend[p].cur # None =>
             /\ pend[p].cur \in Active /\ pend[p].cur # v
             /\ pend[p].curRev = ver[pend[p].cur].rev
             /\ ver'[pend[p].cur] = Retired(ver[pend[p].cur])
        /\ ver'[v].cand = pend[p].cand /\ ver'[v].state = "active"
        /\ \A u \in Versions \ {v, pend[p].cur} : ver'[u] = ver[u]
    BY <2>1, ActivateMeans
  <2> QED
    BY <1>1, <2>2
<1>3. \A u \in Versions \ {v} : /\ ver'[u].state # "none" <=> ver[u].state # "none"
                                /\ ver'[u].cand = ver[u].cand
  BY <1>2, BoundsFacts DEF Retired, Active
<1>4. o.cand # None => Activated(o.cand) = {}
  BY <1>1, FirstActivation
<1>5. ActivatedOnce'
  <2> SUFFICES ASSUME NEW c \in Candidates, NEW u \in Versions, NEW w \in Versions,
                      ver'[u].state # "none", ver'[u].cand = c,
                      ver'[w].state # "none", ver'[w].cand = c
               PROVE  u = w
    BY DEF ActivatedOnce, Activated
  <2>1. CASE u # v /\ w # v
    <3>1. u \in Activated(c) /\ w \in Activated(c)
      BY <1>3, <2>1 DEF Activated
    <3> QED
      BY <3>1 DEF ActivationInv, ActivatedOnce
  <2>2. CASE u = v \/ w = v
    <3>1. c = o.cand /\ o.cand # None
      BY <1>2, <2>2, BoundsFacts
    <3>2. Activated(c) = {}
      BY <1>4, <3>1
    <3>3. (u # v => u \in Activated(c)) /\ (w # v => w \in Activated(c))
      BY <1>3 DEF Activated
    <3> QED
      BY <3>2, <3>3
  <2> QED
    BY <2>1, <2>2
<1>6. LatePromotion'
  <2> SUFFICES ASSUME NEW q \in Procs, pend'[q].op = "promote",
                      NEW u \in Versions, ver'[u].state # "none", ver'[u].cand = pend'[q].cand
               PROVE  pend'[q].curRev # ver'[pend'[q].cur].rev
    BY DEF LatePromotion, Activated
  <2>1. q # p /\ pend'[q] = pend[q]
    BY <1>2
  <2>2. /\ OpSound(pend[q]) /\ pend[q].op = "promote" /\ pend[q].curRev \in Nat
    BY <2>1, PendingType DEF ActivationInv, EvolutionInv
  <2>3. /\ pend[q].cur = cand[pend[q].cand].target /\ Known(pend[q].cand)
        /\ kind # "workflow"
    BY <2>2 DEF OpSound, OperandSound, EvidenceSound, Activations
  <2>4. pend[q].cur \in Versions
    BY <2>3, CandidateType DEF Known, ActivationInv, EvolutionInv
  <2>5. /\ ver[pend[q].cur].state # "none" /\ ver[pend[q].cur].rev \in Nat
        /\ pend[q].curRev <= ver[pend[q].cur].rev
    BY <2>2, <2>4, BoundsFacts, VersionType DEF OpSound, RewriteSound, Activations, ActivationInv,
       EvolutionInv
  <2>6. ver'[pend[q].cur].rev \in {ver[pend[q].cur].rev, ver[pend[q].cur].rev + 1}
    BY <1>2, <2>4, <2>5, BoundsFacts DEF Retired
  <2>7. CASE u # v
    <3>1. u \in Activated(pend[q].cand)
      BY <1>3, <2>1, <2>7 DEF Activated
    <3>2. pend[q].curRev # ver[pend[q].cur].rev
      BY <2>2, <3>1 DEF ActivationInv, LatePromotion
    <3> QED
      BY <2>1, <2>2, <2>5, <2>6, <3>2
  <2>8. CASE u = v
    <3>1. o.cand = pend[q].cand /\ o.cand # None
      BY <1>2, <2>1, <2>3, <2>8, BoundsFacts DEF Known
    <3>2. OpSound(o)
      BY <1>1 DEF ActivationInv, EvolutionInv
    <3>3. o.op = "promote"
      BY <1>2, <2>3, <3>1, <3>2 DEF OpSound, OperandSound, Activations
    <3>4. o.cur = pend[q].cur /\ o.cur # None
      BY <2>3, <2>4, <3>1, <3>2, <3>3, BoundsFacts DEF OpSound, OperandSound
    <3>5. ver'[pend[q].cur].rev = ver[pend[q].cur].rev + 1
      BY <1>2, <3>4 DEF Retired
    <3> QED
      BY <2>1, <2>2, <2>5, <3>5
  <2> QED
    BY <2>7, <2>8
<1> QED
  BY <1>5, <1>6

\* What a prepared operation is and what it leaves.
LEMMA PrepareMeans ==
    ASSUME TypeOK, NEW p \in Procs, NEW o, Prepare(p, o)
    PROVE  /\ pend'[p] = o /\ \A q \in Procs \ {p} : pend'[q] = pend[q]
           /\ UNCHANGED <<kind, ver, cand, verif, dec, metric>>
BY DEF TypeOK, Prepare, Stored

\* A promotion is prepared of a candidate that was never activated.
LEMMA PromoteMeans ==
    ASSUME EvolutionInv, NEW p \in Procs, NEW c \in Candidates, NEW w \in verif,
           PromotePrompt(p, c, w) \/ PromotePolicy(p, c, w) \/ PromoteAdapter(p, c, w)
    PROVE  /\ ver' = ver /\ \A q \in Procs \ {p} : pend'[q] = pend[q]
           /\ pend'[p].op = "promote" /\ Activated(pend'[p].cand) = {}
           /\ UNCHANGED <<kind, cand, dec>>
<1> DEFINE r == Change("promote", cand[c].target, None, cand[c].content, c,
                       AcceptedDecision(c), w.by)
<1>1. Prepare(p, r) /\ Activated(c) = {} /\ r.op = "promote" /\ r.cand = c
  BY DEF PromotePrompt, PromotePolicy, PromoteAdapter, Promote, Promotable, Change
<1>2. TypeOK
  BY DEF EvolutionInv
<1> HIDE DEF r
<1>3. pend'[p] = r /\ ver' = ver /\ kind' = kind /\ cand' = cand /\ dec' = dec
      /\ \A q \in Procs \ {p} : pend'[q] = pend[q]
  BY <1>1, <1>2, PrepareMeans
<1> QED
  BY <1>1, <1>3

\* A registration or installation is prepared over what is in force; if nothing is,
\* no other operation is about to do the same.
LEMMA RegisterMeans ==
    ASSUME EvolutionInv, NEW p \in Procs,
           \/ \E x \in Contents :
                RegisterPrompt(p, x) \/ RegisterPolicy(p, x) \/ RegisterAdapter(p, x)
           \/ \E x, c, d, by : PrepareInstall(p, x, c, d, by)
    PROVE  /\ \A q \in Procs \ {p} : pend'[q] = pend[q]
           /\ pend'[p].op \in {"register", "install"}
           /\ pend'[p].cur = None => NoRival(p) /\ (kind # "prompt" => Active = {})
           /\ UNCHANGED <<kind, ver, cand, dec>>
<1>1. PICK r : /\ Prepare(p, r) /\ r.op \in {"register", "install"}
               /\ r.cur = None => NoRival(p) /\ (kind # "prompt" => Active = {})
  <2>1. ASSUME NEW x \in Contents,
               RegisterPrompt(p, x) \/ RegisterPolicy(p, x) \/ RegisterAdapter(p, x)
        PROVE  \E r : /\ Prepare(p, r) /\ r.op \in {"register", "install"}
                      /\ r.cur = None => NoRival(p) /\ (kind # "prompt" => Active = {})
    <3> DEFINE r == Change("register", None, None, x, None, None, Owner)
    <3>1. /\ Prepare(p, r) /\ r.op = "register" /\ NoRival(p)
          /\ kind # "prompt" => Active = {}
      BY <2>1 DEF RegisterPrompt, RegisterPolicy, RegisterAdapter, PrepareRegister, Change
    <3> QED
      BY <3>1
  <2>2. ASSUME NEW x, NEW c, NEW d, NEW by, PrepareInstall(p, x, c, d, by)
        PROVE  \E r : /\ Prepare(p, r) /\ r.op \in {"register", "install"}
                      /\ r.cur = None => NoRival(p) /\ (kind # "prompt" => Active = {})
    <3>1. CASE Active = {} /\ NoRival(p) /\ Prepare(p, Change("install", None, None, x, c, d, by))
      <4>1. Change("install", None, None, x, c, d, by).op = "install"
        BY DEF Change
      <4> QED
        BY <3>1, <4>1
    <3>2. CASE \E prev \in Active : Prepare(p, Change("install", prev, None, x, c, d, by))
      <4>1. PICK prev \in Active : Prepare(p, Change("install", prev, None, x, c, d, by))
        BY <3>2
      <4>2. /\ Change("install", prev, None, x, c, d, by).op = "install"
            /\ Change("install", prev, None, x, c, d, by).cur # None
        BY BoundsFacts DEF Change, Active
      <4> QED
        BY <4>1, <4>2
    <3> QED
      BY <2>2, <3>1, <3>2 DEF PrepareInstall
  <2> QED
    BY <2>1, <2>2
<1>2. TypeOK
  BY DEF EvolutionInv
<1>3. pend'[p] = r /\ ver' = ver /\ kind' = kind /\ cand' = cand /\ dec' = dec
      /\ \A q \in Procs \ {p} : pend'[q] = pend[q]
  BY <1>1, <1>2, PrepareMeans
<1> QED
  BY <1>1, <1>3

LEMMA NextActivationInv == ASSUME ActivationInv, Next PROVE ActivationInv'
<1>1. EvolutionInv /\ EvolutionInv'
  BY NextEvolutionInv DEF ActivationInv
<1>2. ASSUME NEW p \in Procs, Keeps(p)
      PROVE  ActivatedOnce' /\ LatePromotion'
  BY <1>2, ReadKeepsActivation DEF Keeps
<1>3. ASSUME NEW p \in Procs, NEW c \in Candidates, NEW w \in verif,
             PromotePrompt(p, c, w) \/ PromotePolicy(p, c, w) \/ PromoteAdapter(p, c, w)
      PROVE  ActivatedOnce' /\ LatePromotion'
  BY <1>1, <1>3, PromoteMeans, ReadKeepsActivation
<1>4. ASSUME NEW p \in Procs,
             \/ \E x \in Contents :
                  RegisterPrompt(p, x) \/ RegisterPolicy(p, x) \/ RegisterAdapter(p, x)
             \/ \E x, c, d, by : PrepareInstall(p, x, c, d, by)
      PROVE  ActivatedOnce' /\ LatePromotion'
  <2>1. /\ \A q \in Procs \ {p} : pend'[q] = pend[q]
        /\ pend'[p].op # "promote" /\ ver' = ver
    BY <1>1, <1>4, RegisterMeans
  <2> QED
    BY <2>1, ReadKeepsActivation
<1>5. ActivatedOnce' /\ LatePromotion'
  BY <1>1, <1>2, <1>3, <1>4, StepKinds, ActivateKeepsActivation, RewriteKeepsActivation
<1> QED
  BY <1>1, <1>5 DEF ActivationInv

\* However promotions overlap with each other, with installations and with rollbacks,
\* a candidate is activated once: the second promotion finds the version it would
\* replace rewritten, or its content taken.
THEOREM ACandidateIsActivatedOnce == Spec => []ActivatedOnce
<1>1. Init => ActivationInv
  <2>1. ASSUME Init
        PROVE  ActivationInv
    <3>1. \A c : Activated(c) = {}
      BY <2>1 DEF Init, Activated, NoVersion
    <3>2. \A p \in Procs : pend[p].op # "promote"
      BY <2>1 DEF Init, Idle
    <3> QED
      BY <2>1, <3>1, <3>2, InitEvolutionInv DEF ActivationInv, ActivatedOnce, LatePromotion
  <2> QED
    BY <2>1
<1>2. ActivationInv /\ [Next]_vars => ActivationInv'
  <2>1. ASSUME ActivationInv, UNCHANGED vars
        PROVE  ActivationInv'
    BY <2>1, StutterEvolutionInv DEF ActivationInv, ActivatedOnce, LatePromotion, Activated,
                                     vars
  <2> QED
    BY <2>1, NextActivationInv
<1>3. ActivationInv => ActivatedOnce
  BY DEF ActivationInv
<1> QED
  BY <1>1, <1>2, <1>3, PTL DEF Spec

-----------------------------------------------------------------------------
(* Exactly one version of a line is in force.                              *)

\* Where one version takes the place of another in its line, there is still one.
LEMMA Succession ==
    ASSUME OneInForce, NEW a \in Active, NEW b \in Versions, a # b, kind' = kind,
           ver[b].state # "none" => ver[b].line = ver[a].line,
           \A u \in Versions : u \in Active' <=> (u = b \/ (u \in Active /\ u # a)),
           \A u \in Versions \ {b} : /\ ver'[u].line = ver[u].line
                                     /\ ver'[u].state # "none" => ver[u].state # "none",
           ver'[b].line = ver[a].line
    PROVE  OneInForce'
<1>1. SUFFICES ASSUME NEW v \in Versions, ver'[v].state # "none"
               PROVE  /\ \A u, w \in {x \in Active' : ver'[x].line = ver'[v].line} : u = w
                      /\ kind # "workflow" =>
                           {x \in Active' : ver'[x].line = ver'[v].line} # {}
  BY DEF OneInForce
<1>2. PICK l : l = ver'[v].line
  OBVIOUS
<1>3. a \in Versions /\ ver[a].state # "none" /\ Active' \in SUBSET Versions
  BY DEF Active
<1>4. \E e \in Versions : ver[e].state # "none" /\ ver[e].line = l
  <2>1. CASE v = b
    BY <1>2, <1>3, <2>1
  <2>2. CASE v # b
    BY <1>1, <1>2, <2>2
  <2> QED
    BY <2>1, <2>2
<1>5. /\ \A u, w \in Active : ver[u].line = l /\ ver[w].line = l => u = w
      /\ kind # "workflow" => \E u \in Active : ver[u].line = l
  <2>1. PICK e \in Versions : ver[e].state # "none" /\ ver[e].line = l
    BY <1>4
  <2>2. /\ \A u, w \in {x \in Active : ver[x].line = ver[e].line} : u = w
        /\ kind # "workflow" => {x \in Active : ver[x].line = ver[e].line} # {}
    BY <2>1 DEF OneInForce
  <2> QED
    BY <2>1, <2>2
<1>6. ASSUME NEW u \in Active', NEW w \in Active', ver'[u].line = l, ver'[w].line = l
      PROVE  u = w
  <2>1. u \in Versions /\ w \in Versions
    BY <1>3
  <2>2. CASE u # b /\ w # b
    BY <1>5, <1>6, <2>1, <2>2
  <2>3. ASSUME NEW x \in Versions, x # b, x \in Active', ver'[x].line = l, l = ver[a].line
        PROVE  FALSE
    BY <1>5, <2>3
  <2> QED
    BY <1>6, <2>1, <2>2, <2>3
<1>7. ASSUME kind # "workflow"
      PROVE  \E u \in Active' : ver'[u].line = l
  <2>1. PICK u \in Active : ver[u].line = l
    BY <1>5, <1>7
  <2>2. u \in Versions /\ ver[u].state # "none"
    BY DEF Active
  <2>3. CASE u = a \/ u = b
    BY <2>1, <2>2, <2>3
  <2>4. CASE u # a /\ u # b
    BY <2>1, <2>2, <2>4
  <2> QED
    BY <2>3, <2>4
<1> QED
  BY <1>2, <1>6, <1>7

\* Who is about to activate a version where there was none.
Rival(p) == pend[p].op \in {"register", "install"} /\ pend[p].cur = None

LEMMA RivalsMean ==
    FirstRegistration <=>
      /\ \A p, q \in Procs : Rival(p) /\ Rival(q) => p = q
      /\ \A p \in Procs : Rival(p) /\ kind # "prompt" => Active = {}
BY DEF FirstRegistration, Rival

\* While the versions stay, and what the process holds is not of a rival.
LEMMA KeepsForce ==
    ASSUME ForceInv, NEW p \in Procs, ver' = ver, kind' = kind,
           \A q \in Procs \ {p} : pend'[q] = pend[q],
           Rival(p)' => NoRival(p) /\ OneRegistrar /\ (kind # "prompt" => Active = {})
    PROVE  OneInForce' /\ FirstRegistration'
<1>1. Active' = Active
  BY DEF Active
<1>2. OneInForce'
  BY <1>1 DEF ForceInv, OneInForce
<1>3. \A q \in Procs \ {p} : Rival(q)' <=> Rival(q)
  BY DEF Rival
<1>4. Rival(p)' => \A q \in Procs \ {p} : ~Rival(q)
  BY DEF NoRival, Rival
<1>5. /\ \A u, w \in Procs : Rival(u) /\ Rival(w) => u = w
      /\ \A u \in Procs : Rival(u) /\ kind # "prompt" => Active = {}
  BY RivalsMean DEF ForceInv
<1>6. /\ \A u, w \in Procs : Rival(u)' /\ Rival(w)' => u = w
      /\ \A u \in Procs : Rival(u)' /\ kind' # "prompt" => Active' = {}
  BY <1>1, <1>3, <1>4, <1>5
<1> QED
  BY <1>2, <1>6 DEF FirstRegistration, Rival

\* No rival is left when a version in force was replaced, and none but itself when a
\* rival commits.
LEMMA CommitsForce ==
    ASSUME ForceInv, NEW p \in Procs, kind' = kind, pend'[p].op = "idle",
           \A q \in Procs \ {p} : pend'[q] = pend[q],
           Rival(p) \/ Active # {}
    PROVE  FirstRegistration'
<1>1. /\ \A u, w \in Procs : Rival(u) /\ Rival(w) => u = w
      /\ \A u \in Procs : Rival(u) /\ kind # "prompt" => Active = {}
  BY RivalsMean DEF ForceInv
<1>2. ~Rival(p)' /\ \A q \in Procs \ {p} : Rival(q)' <=> Rival(q)
  BY DEF Rival
<1>3. /\ \A u, w \in Procs : Rival(u)' /\ Rival(w)' => u = w
      /\ \A u \in Procs : Rival(u)' /\ kind' # "prompt" => Active' = {}
  BY <1>1, <1>2
<1> QED
  BY <1>3 DEF FirstRegistration, Rival

LEMMA ActivateKeepsForce ==
    ASSUME ForceInv, NEW p \in Procs, NEW v \in NewVersions,
           CommitRegister(p, v) \/ CommitPromote(p, v)
           \/ CommitReinstate(p, v) \/ CommitInstall(p, v)
    PROVE  OneInForce' /\ FirstRegistration'
<1>1. EvolutionInv /\ TypeOK
  BY DEF ForceInv, EvolutionInv
<1>2. PICK o \in Pending : o = pend[p]
  BY <1>1 DEF TypeOK
<1>3. /\ o.op \in Activations /\ v \in Versions /\ ver[v].state = "none"
      /\ kind' = kind /\ pend'[p].op = "idle"
      /\ \A q \in Procs \ {p} : pend'[q] = pend[q]
      /\ o.cur # None => /\ o.cur \in Active /\ o.cur # v
                         /\ ver'[o.cur] = Retired(ver[o.cur])
      /\ ver'[v].state = "active"
      /\ ver'[v].line = IF o.cur = None THEN LineOf(v) ELSE ver[o.cur].line
      /\ \A u \in Versions \ {v, o.cur} : ver'[u] = ver[u]
  <2>1. /\ pend[p].op \in Activations /\ v \in Versions /\ ver[v].state = "none"
        /\ kind' = kind /\ pend'[p].op = "idle"
        /\ \A q \in Procs \ {p} : pend'[q] = pend[q]
        /\ pend[p].cur # None => /\ pend[p].cur \in Active /\ pend[p].cur # v
                                 /\ ver'[pend[p].cur] = Retired(ver[pend[p].cur])
        /\ ver'[v].state = "active"
        /\ ver'[v].line = IF pend[p].cur = None THEN LineOf(v) ELSE ver[pend[p].cur].line
        /\ \A u \in Versions \ {v, pend[p].cur} : ver'[u] = ver[u]
    BY <1>1, ActivateMeans
  <2> QED
    BY <1>2, <2>1
<1>4. CASE o.cur # None
  <2>1. \A u \in Versions : u \in Active' <=> (u = v \/ (u \in Active /\ u # o.cur))
    BY <1>3, <1>4 DEF Active, Retired
  <2>2. \A u \in Versions \ {v} : /\ ver'[u].line = ver[u].line
                                  /\ ver'[u].state # "none" => ver[u].state # "none"
    BY <1>3, <1>4 DEF Active, Retired
  <2>3. OneInForce'
    BY <1>3, <1>4, <2>1, <2>2, Succession DEF ForceInv
  <2> QED
    BY <1>3, <1>4, <2>3, CommitsForce
<1>5. CASE o.cur = None
  <2>1. Rival(p)
    <3>1. OpSound(o)
      BY <1>1, <1>2 DEF EvolutionInv
    <3>2. o.op = "promote" => o.cur \in Versions
      BY <1>1, <3>1, CandidateType DEF OpSound, OperandSound, EvidenceSound, Activations, Known
    <3>3. o.op \notin {"promote", "reinstate"}
      BY <1>5, <3>1, <3>2, BoundsFacts DEF OpSound, OperandSound
    <3> QED
      BY <1>2, <1>3, <1>5, <3>3 DEF Rival, Activations
  <2>2. FirstRegistration'
    BY <1>3, <2>1, CommitsForce
  <2>3. \A u \in Versions \ {v} : ver'[u] = ver[u]
    BY <1>3, <1>5, BoundsFacts
  <2>4. \A u \in Versions : u \in Active' <=> (u = v \/ u \in Active)
    BY <1>3, <2>3 DEF Active
  <2>5. VersionInv
    BY <1>1 DEF EvolutionInv
  <2>6. CASE kind = "prompt"
    <3>1. ver'[v].line = v
      BY <1>3, <1>5, <2>6 DEF LineOf
    <3>2. \A u \in Versions : ver[u].state # "none" => ver[u].line # v
      BY <1>3, <2>5, <2>6 DEF VersionInv
    <3>3. ASSUME NEW u \in Versions, ver'[u].state # "none"
          PROVE  LET L == {x \in Active' : ver'[x].line = ver'[u].line} IN
                 (\A x, y \in L : x = y) /\ L # {}
      <4>1. CASE u = v
        <5>1. {x \in Active' : ver'[x].line = ver'[u].line} = {v}
          BY <2>3, <2>4, <3>1, <3>2, <4>1 DEF Active
        <5> QED
          BY <5>1
      <4>2. CASE u # v
        <5>1. ver[u].state # "none" /\ ver[u].line # v /\ ver'[u] = ver[u]
          BY <2>3, <3>2, <3>3, <4>2
        <5>2. {x \in Active' : ver'[x].line = ver'[u].line}
                = {x \in Active : ver[x].line = ver[u].line}
          BY <2>3, <2>4, <3>1, <5>1, <1>3 DEF Active
        <5> QED
          BY <2>6, <5>1, <5>2 DEF ForceInv, OneInForce
      <4> QED
        BY <4>1, <4>2
    <3> QED
      BY <2>2, <3>3 DEF OneInForce
  <2>7. CASE kind # "prompt"
    <3>1. Active = {}
      BY <2>1, <2>7, RivalsMean DEF ForceInv
    <3>2. Active' = {v}
      BY <1>3, <2>4, <3>1 DEF Active
    <3>3. \A u \in Versions : ver'[u].state # "none" => ver'[u].line = 1
      BY <1>3, <1>5, <2>3, <2>5, <2>7 DEF VersionInv, LineOf
    <3>4. ver'[v].line = 1
      BY <1>3, <3>3
    <3>5. OneInForce'
      BY <3>2, <3>3, <3>4 DEF OneInForce
    <3> QED
      BY <2>2, <3>5
  <2> QED
    BY <2>6, <2>7
<1> QED
  BY <1>4, <1>5

\* A restoration or an uninstallation retires a version in force, because it compared
\* its revision; what it brings back was not, because one of the line is.
LEMMA RewriteKeepsForce ==
    ASSUME ForceInv, NEW p \in Procs, CommitRestore(p) \/ CommitUninstall(p)
    PROVE  OneInForce' /\ FirstRegistration'
<1>1. EvolutionInv /\ TypeOK
  BY DEF ForceInv, EvolutionInv
<1>2. PICK o \in Pending : o = pend[p]
  BY <1>1 DEF TypeOK
<1>3. /\ kind' = kind /\ pend'[p].op = "idle"
      /\ \A q \in Procs \ {p} : pend'[q] = pend[q]
      /\ \A v \in Versions :
           \/ ver'[v] = ver[v]
           \/ ver[v].state # "none" /\ ver'[v] \in {Retired(ver[v]), Reactivated(ver[v])}
  BY <1>1, RewriteMeans
<1>4. /\ OpSound(o) /\ o.op \in {"restore", "uninstall"}
      /\ o.cur \in Versions \cup {None} /\ o.tgt \in Versions \cup {None}
  BY <1>1, <1>2, PendingType DEF EvolutionInv, CommitRestore, CommitUninstall
<1>5. o.cur \in Versions /\ o.cur \in Active
  <2>1. o.cur # None
    BY <1>4 DEF OpSound, OperandSound
  <2>2. ver[o.cur].rev = o.curRev
    BY <1>2, <2>1 DEF CommitRestore, CommitUninstall, Holds, RevOf
  <2> QED
    BY <1>4, <2>1, <2>2 DEF OpSound, RewriteSound
<1>6. FirstRegistration'
  BY <1>3, <1>5, CommitsForce
<1>7. \A u \in Versions : /\ ver'[u].line = ver[u].line
                          /\ ver'[u].state # "none" <=> ver[u].state # "none"
  BY <1>3 DEF Retired, Reactivated
<1>8. CASE CommitRestore(p)
  <2>1. /\ o.tgt \in Versions /\ o.tgt # o.cur
        /\ ver[o.tgt].line = ver[o.cur].line
    <3>1. o.op = "restore"
      BY <1>2, <1>8 DEF CommitRestore
    <3> QED
      BY <1>4, <3>1 DEF OpSound, OperandSound, RewriteSound
  <2>2. \A u \in Versions :
          ver'[u] = IF u = o.cur THEN Retired(ver[u])
                    ELSE IF u = o.tgt THEN Reactivated(ver[u]) ELSE ver[u]
    BY <1>2, <1>8 DEF CommitRestore
  <2>3. \A u \in Versions : u \in Active' <=> (u = o.tgt \/ (u \in Active /\ u # o.cur))
    <3>1. ASSUME NEW u \in Versions
          PROVE  /\ u = o.cur => ver'[u].state = "retired"
                 /\ u # o.cur /\ u = o.tgt => ver'[u].state = "active"
                 /\ u # o.cur /\ u # o.tgt => ver'[u] = ver[u]
      <4>1. /\ Retired(ver[u]).state = "retired" /\ Reactivated(ver[u]).state = "active"
        BY DEF Retired, Reactivated
      <4> QED
        BY <2>2, <4>1
    <3> QED
      BY <2>1, <3>1 DEF Active
  <2>4. OneInForce'
    <3>1. /\ ver'[o.tgt].line = ver[o.cur].line
          /\ \A u \in Versions \ {o.tgt} :
               /\ ver'[u].line = ver[u].line
               /\ ver'[u].state # "none" => ver[u].state # "none"
      BY <1>7, <2>1
    <3>2. OneInForce
      BY DEF ForceInv
    <3> QED
      BY <1>3, <1>5, <2>1, <2>3, <3>1, <3>2, Succession
  <2> QED
    BY <1>6, <2>4
<1>9. CASE CommitUninstall(p)
  <2>1. kind = "workflow"
    <3>1. o.op = "uninstall"
      BY <1>2, <1>9 DEF CommitUninstall
    <3> QED
      BY <1>4, <3>1 DEF OpSound, OperandSound
  <2>2. ver' = [ver EXCEPT ![o.cur] = Retired(@)]
    BY <1>2, <1>9 DEF CommitUninstall
  <2>3. \A u \in Versions : u \in Active' => u \in Active
    BY <1>1, <1>5, <2>2 DEF Active, Retired, TypeOK
  <2>4. ASSUME NEW v \in Versions, ver'[v].state # "none",
               NEW u \in Active', NEW w \in Active',
               ver'[u].line = ver'[v].line, ver'[w].line = ver'[v].line
        PROVE  u = w
    <3>1. u \in Active /\ w \in Active /\ u \in Versions /\ w \in Versions
      BY <2>3 DEF Active
    <3>2. /\ ver[v].state # "none" /\ ver[u].line = ver[v].line /\ ver[w].line = ver[v].line
      BY <1>7, <2>4, <3>1
    <3> QED
      BY <3>1, <3>2 DEF ForceInv, OneInForce
  <2>5. OneInForce'
    BY <1>3, <2>1, <2>4 DEF OneInForce
  <2> QED
    BY <1>6, <2>5
<1> QED
  BY <1>8, <1>9

LEMMA NextForceInv == ASSUME OneRegistrar, ForceInv, Next PROVE ForceInv'
<1>1. EvolutionInv /\ EvolutionInv'
  BY NextEvolutionInv DEF ForceInv
<1>2. ASSUME NEW p \in Procs, Keeps(p)
      PROVE  OneInForce' /\ FirstRegistration'
  <2>1. ~Rival(p)'
    BY <1>2 DEF Keeps, Rival
  <2> QED
    BY <1>2, <2>1, KeepsForce DEF Keeps
<1>3. ASSUME NEW p \in Procs, NEW c \in Candidates, NEW w \in verif,
             PromotePrompt(p, c, w) \/ PromotePolicy(p, c, w) \/ PromoteAdapter(p, c, w)
      PROVE  OneInForce' /\ FirstRegistration'
  <2>1. /\ ver' = ver /\ kind' = kind /\ \A q \in Procs \ {p} : pend'[q] = pend[q]
        /\ pend'[p].op = "promote"
    BY <1>1, <1>3, PromoteMeans
  <2>2. ~Rival(p)'
    BY <2>1 DEF Rival
  <2> QED
    BY <2>1, <2>2, KeepsForce
<1>4. ASSUME NEW p \in Procs,
             \/ \E x \in Contents :
                  RegisterPrompt(p, x) \/ RegisterPolicy(p, x) \/ RegisterAdapter(p, x)
             \/ \E x, c, d, by : PrepareInstall(p, x, c, d, by)
      PROVE  OneInForce' /\ FirstRegistration'
  <2>1. /\ \A q \in Procs \ {p} : pend'[q] = pend[q]
        /\ pend'[p].cur = None => NoRival(p) /\ (kind # "prompt" => Active = {})
        /\ ver' = ver /\ kind' = kind
    BY <1>1, <1>4, RegisterMeans
  <2>2. Rival(p)' => pend'[p].cur = None
    BY DEF Rival
  <2> QED
    BY <2>1, <2>2, KeepsForce
<1>5. OneInForce' /\ FirstRegistration'
  BY <1>1, <1>2, <1>3, <1>4, StepKinds, ActivateKeepsForce, RewriteKeepsForce
<1> QED
  BY <1>1, <1>5 DEF ForceInv

LEMMA InitForceInv == ASSUME Init PROVE ForceInv
<1>1. \A v \in Versions : ver[v].state = "none"
  BY DEF Init, NoVersion
<1>2. \A p \in Procs : ~Rival(p)
  BY DEF Init, Idle, Rival
<1> QED
  BY <1>1, <1>2, RivalsMean, InitEvolutionInv DEF ForceInv, OneInForce

LEMMA StutterForceInv == ASSUME ForceInv, UNCHANGED vars PROVE ForceInv'
BY StutterEvolutionInv DEF ForceInv, OneInForce, FirstRegistration, Active, vars

\* As long as registrations that found nothing active do not overlap (the runtime does
\* not see to that), a line of versions has exactly one in force, whatever else
\* overlaps; only a Package that was uninstalled has none.
THEOREM OneVersionIsInForce == ASSUME OneRegistrar PROVE Spec => []OneInForce
<1>1. Init => ForceInv
  BY InitForceInv
<1>2. ForceInv /\ [Next]_vars => ForceInv'
  BY NextForceInv, StutterForceInv
<1>3. ForceInv => OneInForce
  BY DEF ForceInv
<1> QED
  BY <1>1, <1>2, <1>3, PTL DEF Spec

-----------------------------------------------------------------------------
(* The versions implement VersionLine.                                     *)

\* What is in force of a line, as VersionLine sees it.
LEMMA ForcesMean ==
    ASSUME OneInForce, NEW l \in Versions
    PROVE  /\ \A v \in Active : ver[v].line = l => Forces[l] = ver[v].content
           /\ (\A v \in Active : ver[v].line # l) => Forces[l] = Nothing
<1>1. Forces[l] = IF InForce(l) = {} THEN Nothing ELSE CHOOSE x \in InForce(l) : TRUE
  BY DEF Forces
<1>2. ASSUME NEW v \in Active, ver[v].line = l
      PROVE  Forces[l] = ver[v].content
  <2>1. v \in Versions /\ ver[v].state # "none"
    BY DEF Active
  <2>2. \A u \in Active : ver[u].line = l => u = v
    BY <1>2, <2>1 DEF OneInForce
  <2>3. InForce(l) = {ver[v].content}
    BY <1>2, <2>2 DEF InForce
  <2> QED
    BY <1>1, <2>3
<1>3. ASSUME \A v \in Active : ver[v].line # l
      PROVE  InForce(l) = {}
  BY <1>3 DEF InForce
<1> QED
  BY <1>1, <1>2, <1>3

\* The primed form of it.
LEMMA ForcesMeanNext ==
    ASSUME OneInForce', NEW l \in Versions
    PROVE  /\ \A v \in Active' : ver'[v].line = l => Forces'[l] = ver'[v].content
           /\ (\A v \in Active' : ver'[v].line # l) => Forces'[l] = Nothing
<1>1. Forces'[l] = IF InForce(l)' = {} THEN Nothing ELSE CHOOSE x \in InForce(l)' : TRUE
  BY DEF Forces
<1>2. ASSUME NEW v \in Active', ver'[v].line = l
      PROVE  Forces'[l] = ver'[v].content
  <2>1. v \in Versions /\ ver'[v].state # "none"
    BY DEF Active
  <2>2. \A u \in Active' : ver'[u].line = l => u = v
    BY <1>2, <2>1 DEF OneInForce
  <2>3. InForce(l)' = {ver'[v].content}
    BY <1>2, <2>2 DEF InForce
  <2> QED
    BY <1>1, <2>3
<1>3. ASSUME \A v \in Active' : ver'[v].line # l
      PROVE  InForce(l)' = {}
  BY <1>3 DEF InForce
<1> QED
  BY <1>1, <1>2, <1>3

\* What has been in force of a line.
LEMMA PastsMean ==
    ASSUME NEW l \in Versions
    PROVE  \A x : x \in Pasts[l] <=>
             \E v \in Versions : ver[v].state # "none" /\ ver[v].line = l /\ ver[v].content = x
BY DEF Pasts

\* What the promotions of a line were.
LEMMA PromotionsMean ==
    ASSUME NEW l \in Versions
    PROVE  \A x : x \in Promotions[l] <=>
             \E v \in Versions : /\ ver[v].cand # None /\ ver[v].line = l
                                 /\ x = [over |-> Over(v), content |-> ver[v].content]
BY DEF Promotions

\* The primed form of it.
LEMMA PromotionsMeanNext ==
    ASSUME NEW l \in Versions
    PROVE  \A x : x \in Promotions'[l] <=>
             \E v \in Versions : /\ ver'[v].cand # None /\ ver'[v].line = l
                                 /\ x = [over |-> Over(v)', content |-> ver'[v].content]
BY DEF Promotions

\* What a version that exists was promoted over stays.
LEMMA OverStays ==
    ASSUME EvolutionInv, NEW v \in Versions, ver[v].state # "none", ver'[v].above = ver[v].above,
           \A u \in Versions : ver[u].state # "none" => ver'[u].content = ver[u].content
    PROVE  Over(v)' = Over(v)
<1>1. ver[v].above # None =>
        ver[v].above \in Versions /\ ver[ver[v].above].state # "none"
  BY VersionType DEF EvolutionInv, VersionInv
<1> QED
  BY <1>1 DEF Over

\* Where no version is new, there is no new promotion.
LEMMA NoPromotion ==
    ASSUME EvolutionInv,
           \A u \in Versions :
              \/ ver'[u] = ver[u]
              \/ ver[u].state # "none" /\ ver'[u] \in {Retired(ver[u]), Reactivated(ver[u])}
    PROVE  Promotions' = Promotions
<1>1. \A u \in Versions : /\ ver'[u].above = ver[u].above /\ ver'[u].cand = ver[u].cand
                          /\ ver'[u].line = ver[u].line /\ ver'[u].content = ver[u].content
  BY DEF Retired, Reactivated
<1>2. \A u \in Versions : ver[u].cand # None => ver[u].state # "none"
  BY DEF EvolutionInv, VersionInv
<1>3. \A u \in Versions : ver[u].cand # None => Over(u)' = Over(u)
  BY <1>1, <1>2, OverStays
<1>4. ASSUME NEW l \in Versions
      PROVE  Promotions'[l] = Promotions[l]
  <2>1. ASSUME NEW x
        PROVE  x \in Promotions'[l] <=> x \in Promotions[l]
    <3>1. x \in Promotions'[l] <=>
            \E v \in Versions : /\ ver'[v].cand # None /\ ver'[v].line = l
                                /\ x = [over |-> Over(v)', content |-> ver'[v].content]
      BY PromotionsMeanNext
    <3>2. x \in Promotions[l] <=>
            \E v \in Versions : /\ ver[v].cand # None /\ ver[v].line = l
                                /\ x = [over |-> Over(v), content |-> ver[v].content]
      BY PromotionsMean
    <3> QED
      BY <1>1, <1>3, <3>1, <3>2
  <2> QED
    BY <2>1
<1>5. Promotions = [l \in Versions |-> Promotions[l]] /\ Promotions' = [l \in Versions |-> Promotions'[l]]
  BY DEF Promotions
<1> QED
  BY <1>4, <1>5

\* A step in which a content enters a line of which nothing else changes.
LEMMA EntersLine ==
    ASSUME OneInForce, OneInForce', NEW l \in Versions, NEW v \in Active',
           ver'[v].line = l,
           UNCHANGED <<kind, cand, dec>>,
           \A u \in Versions : /\ ver[u].state # "none" =>
                                    /\ ver'[u].state # "none"
                                    /\ ver'[u].line = ver[u].line
                                    /\ ver'[u].content = ver[u].content
                               /\ ver'[u].state # "none" => ver[u].state # "none" \/ u = v,
           \A u \in Versions : (ver[u].state = "active" \/ ver'[u].state = "active") =>
                                 \/ ver'[u] = ver[u]
                                 \/ ver'[u].line = l /\ (ver[u].state # "none" => ver[u].line = l)
    PROVE  Line!Enters(l, ver'[v].content)
<1> DEFINE x == ver'[v].content
<1>1. v \in Versions /\ ver'[v].state = "active"
  BY DEF Active
<1>2. ASSUME NEW m \in Versions, m # l
      PROVE  Forces'[m] = Forces[m]
  <2>1. \A u \in Versions : (u \in Active' /\ ver'[u].line = m) <=> (u \in Active /\ ver[u].line = m)
    BY <1>2 DEF Active
  <2>2. \A u \in Versions : u \in Active' /\ ver'[u].line = m => ver'[u].content = ver[u].content
    BY <2>1 DEF Active
  <2>3. CASE \E u \in Active : ver[u].line = m
    <3>1. PICK u \in Active : ver[u].line = m
      BY <2>3
    <3>2. u \in Versions /\ u \in Active' /\ ver'[u].line = m
      BY <2>1, <3>1 DEF Active
    <3>3. Forces[m] = ver[u].content /\ Forces'[m] = ver'[u].content
      BY <3>1, <3>2, ForcesMean, ForcesMeanNext
    <3> QED
      BY <2>2, <3>2, <3>3
  <2>4. CASE \A u \in Active : ver[u].line # m
    <3>1. \A u \in Active' : ver'[u].line # m
      BY <2>1, <2>4 DEF Active
    <3> QED
      BY <2>4, <3>1, ForcesMean, ForcesMeanNext
  <2> QED
    BY <2>3, <2>4
<1>3. Forces'[l] = x
  BY ForcesMeanNext
<1>4. Forces' = [Forces EXCEPT ![l] = x]
  <2>1. Forces \in [Versions -> {Forces[m] : m \in Versions}]
    BY DEF Forces
  <2>2. Forces' = [m \in Versions |-> Forces'[m]]
    BY DEF Forces
  <2> HIDE DEF x
  <2> QED
    BY <1>2, <1>3, <2>1, <2>2
<1>5. ASSUME NEW m \in Versions, NEW y
      PROVE  y \in Pasts'[m] <=> y \in Pasts[m] \/ (m = l /\ y = x)
  <2>1. y \in Pasts'[m] <=>
          \E u \in Versions : ver'[u].state # "none" /\ ver'[u].line = m /\ ver'[u].content = y
    BY DEF Pasts
  <2>2. y \in Pasts[m] <=>
          \E u \in Versions : ver[u].state # "none" /\ ver[u].line = m /\ ver[u].content = y
    BY DEF Pasts
  <2>3. ASSUME y \in Pasts[m]
        PROVE  y \in Pasts'[m]
    BY <2>1, <2>2, <2>3
  <2>4. ASSUME m = l, y = x
        PROVE  y \in Pasts'[m]
    BY <1>1, <2>1, <2>4
  <2>5. ASSUME y \in Pasts'[m], ~(m = l /\ y = x)
        PROVE  y \in Pasts[m]
    BY <1>1, <2>1, <2>2, <2>5
  <2> QED
    BY <2>3, <2>4, <2>5
<1>6. Pasts' = [Pasts EXCEPT ![l] = @ \cup {x}]
  <2>1. Pasts = [m \in Versions |-> Pasts[m]] /\ Pasts' = [m \in Versions |-> Pasts'[m]]
    BY DEF Pasts
  <2> HIDE DEF x
  <2>2. ASSUME NEW m \in Versions
        PROVE  Pasts'[m] = IF m = l THEN Pasts[m] \cup {x} ELSE Pasts[m]
    BY <1>5
  <2> QED
    BY <2>1, <2>2
<1>7. Approvals' = Approvals /\ (kind = "workflow")' = (kind = "workflow")
  BY DEF Approvals
<1> QED
  BY <1>4, <1>6, <1>7 DEF Line!Enters

\* An activation enters its line.
LEMMA ActivateEnters ==
    ASSUME ForceInv, OneInForce', NEW p \in Procs, NEW v \in NewVersions,
           CommitRegister(p, v) \/ CommitPromote(p, v)
           \/ CommitReinstate(p, v) \/ CommitInstall(p, v)
    PROVE  /\ ver'[v].line \in Versions /\ v \in Active'
           /\ Line!Enters(ver'[v].line, ver'[v].content)
<1>1. EvolutionInv /\ TypeOK /\ EvolutionInv' /\ OneInForce
  BY NextEvolutionInv, ActivateStep, NewOnes DEF ForceInv, EvolutionInv, CommitRegister, CommitPromote,
     CommitReinstate, CommitInstall, Activations
<1>2. /\ v \in Versions /\ ver[v].state = "none" /\ ver'[v].state = "active"
      /\ UNCHANGED <<kind, cand, dec>>
      /\ pend[p].cur # None => /\ pend[p].cur \in Active /\ pend[p].cur # v
                               /\ ver'[pend[p].cur] = Retired(ver[pend[p].cur])
      /\ ver'[v].line = IF pend[p].cur = None THEN LineOf(v) ELSE ver[pend[p].cur].line
      /\ \A u \in Versions \ {v, pend[p].cur} : ver'[u] = ver[u]
  BY <1>1, ActivateMeans
<1>3. PICK l \in Versions : l = ver'[v].line
  BY <1>1, <1>2, VersionType DEF EvolutionInv, TypeOK, Version
<1>4. v \in Active'
  BY <1>2 DEF Active
<1>5. \A u \in Versions : u = pend[p].cur =>
         /\ ver[u].state = "active" /\ ver'[u].state = "retired"
         /\ ver'[u].line = ver[u].line /\ ver'[u].content = ver[u].content
         /\ ver[u].line = l
  BY <1>2, <1>3, BoundsFacts DEF Retired, Active
<1>6. \A u \in Versions : /\ ver[u].state # "none" =>
                               /\ ver'[u].state # "none"
                               /\ ver'[u].line = ver[u].line
                               /\ ver'[u].content = ver[u].content
                          /\ ver'[u].state # "none" => ver[u].state # "none" \/ u = v
  BY <1>2, <1>5
<1>7. \A u \in Versions : (ver[u].state = "active" \/ ver'[u].state = "active") =>
                            \/ ver'[u] = ver[u]
                            \/ ver'[u].line = l /\ (ver[u].state # "none" => ver[u].line = l)
  BY <1>2, <1>3, <1>5
<1>8. Line!Enters(l, ver'[v].content)
  BY <1>1, <1>2, <1>3, <1>4, <1>6, <1>7, EntersLine
<1> QED
  BY <1>3, <1>4, <1>8

\* Only one of a candidate is a promotion, over what was in force of its line.
LEMMA ActivatePromotes ==
    ASSUME ForceInv, NEW p \in Procs, NEW v \in NewVersions,
           CommitRegister(p, v) \/ CommitPromote(p, v)
           \/ CommitReinstate(p, v) \/ CommitInstall(p, v),
           NEW l \in Versions, l = ver'[v].line,
           pend[p].cur = None => \A u \in Active : ver[u].line # l
    PROVE  Promotions' = IF pend[p].cand = None THEN Promotions
                         ELSE [Promotions EXCEPT ![l] =
                                 @ \cup {[over |-> Forces[l], content |-> pend[p].content]}]
<1> DEFINE o == pend[p]
           x == [over |-> Forces[l], content |-> o.content]
<1>1. EvolutionInv /\ OneInForce
  BY DEF ForceInv
<1>2. /\ v \in Versions /\ ver[v].state = "none"
      /\ o.cur # None => o.cur \in Active /\ o.cur # v /\ ver'[o.cur] = Retired(ver[o.cur])
      /\ ver'[v].content = o.content /\ ver'[v].cand = o.cand /\ ver'[v].above = o.cur
      /\ ver'[v].line = IF o.cur = None THEN LineOf(v) ELSE ver[o.cur].line
      /\ \A u \in Versions \ {v, o.cur} : ver'[u] = ver[u]
  BY <1>1, ActivateMeans
<1>3. \A u \in Versions \ {v} : /\ ver'[u].above = ver[u].above /\ ver'[u].cand = ver[u].cand
                                /\ ver'[u].line = ver[u].line /\ ver'[u].content = ver[u].content
  <2> SUFFICES ASSUME NEW u \in Versions \ {v}
               PROVE  ver'[u] \in {ver[u], Retired(ver[u])}
    BY DEF Retired
  <2>1. u = o.cur => o.cur # None
    BY BoundsFacts
  <2> QED
    BY <1>2, <2>1
<1>4. \A u \in Versions : ver[u].cand # None => ver[u].state # "none" /\ u # v
  BY <1>1, <1>2 DEF EvolutionInv, VersionInv
<1>5. \A u \in Versions : ver[u].cand # None => Over(u)' = Over(u)
  BY <1>1, <1>2, <1>3, <1>4, OverStays
<1>6. Over(v)' = Forces[l]
  <2>1. CASE o.cur = None
    <3>1. Over(v)' = Nothing
      BY <1>2, <2>1 DEF Over
    <3>2. Forces[l] = Nothing
      BY <1>1, <2>1, ForcesMean
    <3> QED
      BY <3>1, <3>2
  <2>2. CASE o.cur # None
    <3>1. Over(v)' = ver'[o.cur].content
      BY <1>2, <2>2 DEF Over
    <3>2. o.cur \in Versions /\ o.cur \in Active /\ ver[o.cur].line = l /\ ver'[o.cur].content = ver[o.cur].content
      BY <1>2, <1>3, <2>2 DEF Active
    <3>3. Forces[l] = ver[o.cur].content
      BY <1>1, <3>2, ForcesMean
    <3> QED
      BY <3>1, <3>2, <3>3
  <2> QED
    BY <2>1, <2>2
<1>7. ASSUME NEW m \in Versions, NEW y
      PROVE  y \in Promotions'[m] <=> y \in Promotions[m] \/ (m = l /\ o.cand # None /\ y = x)
  <2>1. y \in Promotions'[m] <=>
          \E u \in Versions : /\ ver'[u].cand # None /\ ver'[u].line = m
                              /\ y = [over |-> Over(u)', content |-> ver'[u].content]
    BY PromotionsMeanNext
  <2>2. y \in Promotions[m] <=>
          \E u \in Versions : /\ ver[u].cand # None /\ ver[u].line = m
                              /\ y = [over |-> Over(u), content |-> ver[u].content]
    BY PromotionsMean
  <2>3. y \in Promotions[m] => y \in Promotions'[m]
    BY <1>3, <1>4, <1>5, <2>1, <2>2
  <2>4. m = l /\ o.cand # None /\ y = x => y \in Promotions'[m]
    BY <1>2, <1>6, <2>1
  <2>5. ASSUME y \in Promotions'[m]
        PROVE  y \in Promotions[m] \/ (m = l /\ o.cand # None /\ y = x)
    <3>1. PICK u \in Versions : /\ ver'[u].cand # None /\ ver'[u].line = m
                               /\ y = [over |-> Over(u)', content |-> ver'[u].content]
      BY <2>1, <2>5
    <3>2. CASE u = v
      BY <1>2, <1>6, <3>1, <3>2
    <3>3. CASE u # v
      BY <1>3, <1>5, <2>2, <3>1, <3>3
    <3> QED
      BY <3>2, <3>3
  <2> QED
    BY <2>3, <2>4, <2>5
<1>8. Promotions = [m \in Versions |-> Promotions[m]] /\ Promotions' = [m \in Versions |-> Promotions'[m]]
  BY DEF Promotions
<1> HIDE DEF x
<1>9. CASE o.cand = None
  <2>1. \A m \in Versions : Promotions'[m] = Promotions[m]
    BY <1>7, <1>9
  <2> QED
    BY <1>8, <1>9, <2>1
<1>10. CASE o.cand # None
  <2>1. \A m \in Versions : Promotions'[m] = IF m = l THEN Promotions[m] \cup {x} ELSE Promotions[m]
    BY <1>7, <1>10
  <2>2. Promotions' = [Promotions EXCEPT ![l] = @ \cup {x}]
    BY <1>8, <2>1
  <2> QED
    BY <1>10, <2>2 DEF x
<1> QED
  BY <1>9, <1>10

\* It adopts a content, or replaces one by what was approved for it, or, of a Package,
\* by what was approved for a content of its past, or restores one.
LEMMA ActivateIsNext ==
    ASSUME ForceInv, OneInForce', NEW p \in Procs, NEW v \in NewVersions,
           CommitRegister(p, v) \/ CommitPromote(p, v)
           \/ CommitReinstate(p, v) \/ CommitInstall(p, v)
    PROVE  Line!Next
<1>1. EvolutionInv /\ TypeOK /\ OneInForce
  BY DEF ForceInv, EvolutionInv
<1>2. PICK o \in Pending : o = pend[p]
  BY <1>1 DEF TypeOK
<1>3. OpSound(o)
  BY <1>1, <1>2 DEF EvolutionInv
<1>4. /\ o.op \in Activations /\ v \in Versions /\ ver[v].state = "none"
      /\ o.cur # None => o.cur \in Active
      /\ ver'[v].content = o.content
      /\ ver'[v].line = IF o.cur = None THEN LineOf(v) ELSE ver[o.cur].line
  <2>1. /\ pend[p].op \in Activations /\ v \in Versions /\ ver[v].state = "none"
        /\ pend[p].cur # None => pend[p].cur \in Active
        /\ ver'[v].content = pend[p].content
        /\ ver'[v].line = IF pend[p].cur = None THEN LineOf(v) ELSE ver[pend[p].cur].line
    BY <1>1, ActivateMeans
  <2> QED
    BY <1>2, <2>1
<1>5. PICK l \in Versions : l = ver'[v].line
  BY ActivateEnters
<1>6. Line!Enters(l, o.content)
  BY <1>4, <1>5, ActivateEnters
<1>7. o.content \in Contents /\ kind # "runtime"
  BY <1>3, <1>4 DEF OpSound, OperandSound, RewriteSound
<1>8. o.cur = None => \A u \in Active : ver[u].line # l
  <2> SUFFICES ASSUME o.cur = None
               PROVE  \A u \in Active : ver[u].line # l
    OBVIOUS
  <2>1. QED
    <3>1. CASE kind = "prompt"
      <4>1. l = v
        BY <1>4, <1>5, <3>1 DEF LineOf
      <4> QED
        BY <1>1, <1>4, <3>1, <4>1 DEF EvolutionInv, VersionInv, Active
    <3>2. CASE kind # "prompt"
      <4>1. o.op = "promote" => o.cur \in Versions
        BY <1>1, <1>3, CandidateType DEF OpSound, OperandSound, EvidenceSound, Activations, Known
      <4>2. o.op \notin {"promote", "reinstate"}
        BY <1>3, <4>1, BoundsFacts DEF OpSound, OperandSound
      <4>3. Rival(p)
        BY <1>2, <1>4, <4>2 DEF Rival, Activations
      <4>4. Active = {}
        BY <3>2, <4>3, RivalsMean DEF ForceInv
      <4> QED
        BY <4>4
    <3> QED
      BY <3>1, <3>2
<1>9. Promotions' = IF o.cand = None THEN Promotions
                    ELSE [Promotions EXCEPT ![l] = @ \cup {[over |-> Forces[l], content |-> o.content]}]
  <2>1. Promotions' = IF pend[p].cand = None THEN Promotions
                      ELSE [Promotions EXCEPT ![l] =
                              @ \cup {[over |-> Forces[l], content |-> pend[p].content]}]
    BY <1>2, <1>5, <1>8, ActivatePromotes
  <2> QED
    BY <1>2, <2>1
<1>11. ASSUME Forces[l] = Nothing \/ kind = "workflow", o.cand = None
       PROVE  Line!Next
  <2>1. Line!Adopt(l, o.content)
    BY <1>6, <1>9, <1>11 DEF Line!Adopt
  <2> QED
    BY <1>7, <2>1 DEF Line!Next
<1>12. ASSUME o.cand # None
       PROVE  /\ Line!Promote(l, o.content)
              /\ [base |-> cand[o.cand].base, content |-> o.content] \in Approvals
              /\ o.cand \in Candidates /\ cand[o.cand].target \in Versions
              /\ ver[cand[o.cand].target].state # "none"
              /\ cand[o.cand].base = ver[cand[o.cand].target].content
  <2>1. Line!Promote(l, o.content)
    BY <1>6, <1>9, <1>12 DEF Line!Promote
  <2>2. /\ Known(o.cand) /\ o.content = cand[o.cand].content
        /\ o.dec \in Decisions /\ dec[o.dec].cand = o.cand
    BY <1>3, <1>4, <1>12 DEF OpSound, EvidenceSound, Pending
  <2>3. [base |-> cand[o.cand].base, content |-> o.content] \in Approvals
    BY <1>7, <1>12, <2>2 DEF Approvals
  <2>4. o.cand \in Candidates /\ cand[o.cand].target \in Versions
    BY <1>1, <2>2, CandidateType DEF Known
  <2>5. ver[cand[o.cand].target].state # "none" /\ cand[o.cand].base = ver[cand[o.cand].target].content
    BY <1>1, <1>7, <2>2, <2>4 DEF EvolutionInv, CandidateInv, Known
  <2> QED
    BY <2>1, <2>3, <2>4, <2>5
<1>13. ASSUME kind = "workflow"
       PROVE  Line!Next
  <2>1. CASE o.cand = None
    BY <1>11, <1>13, <2>1
  <2>2. CASE o.cand # None
    <3>1. /\ cand[o.cand].target \in Versions /\ ver[cand[o.cand].target].state # "none"
          /\ cand[o.cand].base = ver[cand[o.cand].target].content
      BY <1>12, <2>2
    <3>2. ver[cand[o.cand].target].line = 1 /\ l = 1
      <4>1. l = LineOf(v) \/ (o.cur \in Active /\ o.cur # None /\ l = ver[o.cur].line)
        BY <1>4, <1>5
      <4> QED
        BY <1>1, <1>13, <3>1, <4>1 DEF LineOf, EvolutionInv, VersionInv, Active
    <3>3. cand[o.cand].base \in Pasts[l]
      BY <3>1, <3>2, PastsMean
    <3>4. Line!Overtake(l, o.content)
      BY <1>12, <1>13, <2>2, <3>3 DEF Line!Overtake
    <3> QED
      BY <1>7, <3>4 DEF Line!Next
  <2> QED
    BY <2>1, <2>2
<1>14. CASE o.cur = None
  <2>1. Forces[l] = Nothing
    BY <1>1, <1>8, <1>14, ForcesMean
  <2>2. kind # "workflow" => o.cand = None
    <3>1. o.op = "promote" => o.cur \in Versions
      BY <1>1, <1>3, CandidateType DEF OpSound, OperandSound, EvidenceSound, Activations, Known
    <3>2. o.op \notin {"promote", "reinstate"}
      BY <1>3, <1>14, <3>1, BoundsFacts DEF OpSound, OperandSound
    <3> QED
      BY <1>3, <1>4, <3>2 DEF OpSound, OperandSound, Activations
  <2> QED
    BY <1>11, <1>13, <2>1, <2>2
<1>15. CASE o.cur # None
  <2>1. /\ o.cur \in Active /\ o.cur \in Versions /\ ver[o.cur].line = l
        /\ ver[o.cur].content \in Contents
    BY <1>1, <1>4, <1>5, <1>15 DEF Active, EvolutionInv, VersionInv
  <2>2. Forces[l] = ver[o.cur].content
    BY <1>1, <2>1, ForcesMean
  <2>3. CASE o.op = "install"
    BY <1>3, <1>13, <2>3 DEF OpSound, OperandSound
  <2>4. CASE o.op = "promote"
    <3>1. /\ o.cand # None /\ o.cur = cand[o.cand].target
      BY <1>3, <2>4 DEF OpSound, OperandSound
    <3>4. [base |-> Forces[l], content |-> o.content] \in Approvals /\ Line!Promote(l, o.content)
      BY <1>12, <2>2, <3>1
    <3>5. Line!Replace(l, o.content)
      BY <3>4 DEF Line!Replace
    <3> QED
      BY <1>7, <3>5 DEF Line!Next
  <2>5. CASE o.op = "reinstate"
    <3>1. /\ o.tgt \in Versions /\ o.content = ver[o.tgt].content
      BY <1>3, <2>5 DEF OpSound, OperandSound, Pending
    <3>2. /\ ver[o.tgt].state # "none" /\ ver[o.tgt].line = l
      BY <1>3, <2>1, <2>5, <3>1, BoundsFacts DEF OpSound, RewriteSound, Activations
    <3>3. o.content \in Pasts[l]
      BY <3>1, <3>2, PastsMean
    <3>4. Forces[l] # Nothing
      BY <2>1, <2>2, ContentsAssumption
    <3>5. o.cand = None
      BY <1>3, <2>5 DEF OpSound, OperandSound
    <3>6. Line!Restore(l, o.content)
      BY <1>6, <1>9, <3>3, <3>4, <3>5 DEF Line!Restore
    <3> QED
      BY <1>7, <3>6 DEF Line!Next
  <2>6. o.op # "register"
    BY <1>3, <1>15 DEF OpSound, OperandSound
  <2> QED
    BY <1>4, <2>3, <2>4, <2>5, <2>6 DEF Activations
<1> QED
  BY <1>15, <1>14

\* A restoration brings back a content of the line.
LEMMA RestoreIsNext ==
    ASSUME ForceInv, OneInForce', NEW p \in Procs, CommitRestore(p)
    PROVE  Line!Next
<1>1. EvolutionInv /\ TypeOK /\ OneInForce
  BY DEF ForceInv, EvolutionInv
<1>2. PICK o \in Pending : o = pend[p]
  BY <1>1 DEF TypeOK
<1>3. OpSound(o) /\ o.op = "restore"
  BY <1>1, <1>2 DEF EvolutionInv, CommitRestore
<1>4. /\ o.cur \in Versions /\ o.cur # None /\ o.tgt \in Versions /\ o.tgt # o.cur
      /\ ver[o.tgt].state # "none" /\ ver[o.tgt].line = ver[o.cur].line
  BY <1>3, BoundsFacts DEF OpSound, OperandSound, RewriteSound, Pending
<1>5. o.cur \in Active
  <2>1. ver[o.cur].rev = o.curRev
    BY <1>2, <1>4 DEF CommitRestore, Holds, RevOf
  <2> QED
    BY <1>3, <1>4, <2>1 DEF OpSound, RewriteSound
<1>6. /\ kind' = kind /\ cand' = cand /\ dec' = dec
      /\ \A v \in Versions :
           \/ ver'[v] = ver[v]
           \/ ver[v].state # "none" /\ ver'[v] \in {Retired(ver[v]), Reactivated(ver[v])}
  BY <1>1, RewriteMeans
<1>7. \A u \in Versions :
        ver'[u] = IF u = o.cur THEN Retired(ver[u])
                  ELSE IF u = o.tgt THEN Reactivated(ver[u]) ELSE ver[u]
  BY <1>2 DEF CommitRestore
<1>8. PICK l \in Versions : l = ver[o.cur].line
  BY <1>1, <1>4, VersionType
<1>9. /\ ver'[o.tgt].line = l /\ ver'[o.tgt].content = ver[o.tgt].content
      /\ ver'[o.tgt].state = "active"
  <2>1. ver'[o.tgt] = Reactivated(ver[o.tgt])
    BY <1>4, <1>7
  <2> QED
    BY <1>4, <1>8, <2>1 DEF Reactivated
<1>10. o.tgt \in Active'
  BY <1>4, <1>9 DEF Active
<1>11. \A u \in Versions : /\ ver[u].state # "none" =>
                                /\ ver'[u].state # "none"
                                /\ ver'[u].line = ver[u].line
                                /\ ver'[u].content = ver[u].content
                           /\ ver'[u].state # "none" => ver[u].state # "none" \/ u = o.tgt
  BY <1>6 DEF Retired, Reactivated
<1>12. ver[o.cur].state # "none"
  BY <1>5 DEF Active
<1>13. \A u \in Versions : (ver[u].state = "active" \/ ver'[u].state = "active") =>
                             \/ ver'[u] = ver[u]
                             \/ ver'[u].line = l /\ (ver[u].state # "none" => ver[u].line = l)
  <2> SUFFICES ASSUME NEW u \in Versions, ver'[u] # ver[u]
               PROVE  ver'[u].line = l /\ ver[u].line = l
    OBVIOUS
  <2>1. u \in {o.cur, o.tgt}
    BY <1>7
  <2>2. ver[u].state # "none" /\ ver[u].line = l
    BY <1>4, <1>8, <1>12, <2>1
  <2> QED
    BY <1>11, <2>2
<1>14. Line!Enters(l, ver'[o.tgt].content)
  BY <1>1, <1>6, <1>9, <1>10, <1>11, <1>13, EntersLine
<1>15. ver[o.tgt].content \in Pasts[l]
  BY <1>4, <1>8, PastsMean
<1>16. ver[o.cur].content \in Contents /\ ver[o.tgt].content \in Contents
  BY <1>1, <1>4, <1>12 DEF EvolutionInv, VersionInv
<1>17. Forces[l] # Nothing
  <2>1. Forces[l] = ver[o.cur].content
    BY <1>1, <1>5, <1>8, ForcesMean
  <2> QED
    BY <1>16, <2>1, ContentsAssumption
<1>18. Promotions' = Promotions
  BY <1>1, <1>6, NoPromotion
<1>19. Line!Restore(l, ver[o.tgt].content)
  BY <1>9, <1>14, <1>15, <1>17, <1>18 DEF Line!Restore
<1> QED
  BY <1>16, <1>19 DEF Line!Next

\* An uninstallation withdraws what is in force of the Package.
LEMMA UninstallIsNext ==
    ASSUME ForceInv, OneInForce', NEW p \in Procs, CommitUninstall(p)
    PROVE  Line!Next
<1>1. EvolutionInv /\ TypeOK /\ OneInForce
  BY DEF ForceInv, EvolutionInv
<1>2. PICK o \in Pending : o = pend[p]
  BY <1>1 DEF TypeOK
<1>3. OpSound(o) /\ o.op = "uninstall"
  BY <1>1, <1>2 DEF EvolutionInv, CommitUninstall
<1>4. o.cur \in Versions /\ o.cur # None /\ kind = "workflow"
  BY <1>3 DEF OpSound, OperandSound, Pending
<1>5. o.cur \in Active
  <2>1. ver[o.cur].rev = o.curRev
    BY <1>2, <1>4 DEF CommitUninstall, Holds, RevOf
  <2> QED
    BY <1>3, <1>4, <2>1 DEF OpSound, RewriteSound
<1>6. /\ kind' = kind /\ cand' = cand /\ dec' = dec
      /\ ver' = [ver EXCEPT ![o.cur] = Retired(@)]
  BY <1>2 DEF CommitUninstall
<1>7. ASSUME NEW u \in Versions
      PROVE  /\ ver'[u].line = ver[u].line /\ ver'[u].content = ver[u].content
             /\ ver'[u].state # "none" <=> ver[u].state # "none"
             /\ u \in Active' <=> u \in Active /\ u # o.cur
  <2>1. ver'[u] = IF u = o.cur THEN Retired(ver[u]) ELSE ver[u]
    BY <1>1, <1>4, <1>6 DEF TypeOK
  <2>2. /\ Retired(ver[u]).state = "retired" /\ Retired(ver[u]).line = ver[u].line
        /\ Retired(ver[u]).content = ver[u].content
    BY DEF Retired
  <2>3. o.cur \in Versions /\ ver[o.cur].state = "active"
    BY <1>5 DEF Active
  <2> QED
    BY <2>1, <2>2, <2>3 DEF Active
<1>8. \A u \in Versions : ver[u].state # "none" => ver[u].line = 1
  BY <1>1, <1>4 DEF EvolutionInv, VersionInv
<1>9. Active' = {}
  <2>1. ASSUME NEW u \in Active'
        PROVE  FALSE
    <3>1. u \in Versions /\ u \in Active /\ u # o.cur
      BY <1>7 DEF Active
    <3>2. ver[u].line = 1 /\ ver[o.cur].line = 1 /\ ver[u].state # "none"
      BY <1>5, <1>8, <3>1 DEF Active
    <3> QED
      BY <1>1, <1>5, <3>1, <3>2 DEF OneInForce
  <2> QED
    BY <2>1
<1>10. \A m \in Versions : Forces'[m] = Nothing
  BY <1>9, ForcesMeanNext
<1>11. \A m \in Versions : m # 1 => Forces[m] = Nothing
  BY <1>1, <1>8, ForcesMean DEF Active
<1>12. Forces' = [Forces EXCEPT ![1] = Nothing]
  <2>1. Forces = [m \in Versions |-> Forces[m]] /\ Forces' = [m \in Versions |-> Forces'[m]]
    BY DEF Forces
  <2> QED
    BY <1>10, <1>11, <2>1
<1>13. Pasts' = Pasts
  <2>1. \A m \in Versions : \A y : y \in Pasts'[m] <=> y \in Pasts[m]
    BY <1>7 DEF Pasts
  <2>2. Pasts = [m \in Versions |-> Pasts[m]] /\ Pasts' = [m \in Versions |-> Pasts'[m]]
    BY DEF Pasts
  <2>3. \A m \in Versions : Pasts'[m] = Pasts[m]
    BY <2>1
  <2> QED
    BY <2>2, <2>3
<1>14. Approvals' = Approvals /\ (kind = "workflow")' = (kind = "workflow")
  BY <1>6 DEF Approvals
<1>15. Promotions' = Promotions
  BY <1>1, RewriteMeans, NoPromotion
<1>16. Line!Withdraw(1)
  BY <1>4, <1>12, <1>13, <1>14, <1>15 DEF Line!Withdraw
<1> QED
  BY <1>16, BoundsFacts DEF Line!Next

\* A step that leaves the versions and their line alone shows only approvals.
LEMMA VersionsShow ==
    ASSUME UNCHANGED <<kind, ver>>
    PROVE  /\ Forces' = Forces /\ Pasts' = Pasts /\ Promotions' = Promotions
           /\ (kind = "workflow")' = (kind = "workflow")
<1>1. ver' = ver
  OBVIOUS
<1>2. Forces' = Forces
  BY <1>1 DEF Forces, InForce, Active
<1>3. Pasts' = Pasts /\ Promotions' = Promotions
  BY DEF Pasts, Promotions, Over
<1> QED
  BY <1>2, <1>3

\* A new candidate is approved of by no Decision yet.
LEMMA CandidateShows ==
    ASSUME EvolutionInv, NEW p \in Procs, NEW c, CommitPropose(p, c) \/ CommitRevise(p, c)
    PROVE  UNCHANGED Line!vars
<1>1. UNCHANGED <<kind, ver, dec>> /\ ~Known(c)
  BY DEF CommitPropose, CommitRevise
<1>2. \A e \in Candidates : e # c => cand'[e] = cand[e]
  BY DEF CommitPropose, CommitRevise, EvolutionInv, TypeOK
<1>3. \A d \in Decisions : dec[d].cand # None => cand'[dec[d].cand] = cand[dec[d].cand]
  BY <1>1, <1>2 DEF EvolutionInv, EvidenceInv, Known
<1>4. Approvals' = Approvals
  BY <1>1, <1>3 DEF Approvals
<1> QED
  BY <1>1, <1>4, VersionsShow DEF Line!vars

\* A Decision approves a change of the content of a version; one about the runtime
\* itself shows nothing.
LEMMA ApproveShows ==
    ASSUME EvolutionInv, NEW p \in Procs, NEW d \in Decisions, CommitApprove(p, d)
    PROVE  Line!Next \/ UNCHANGED Line!vars
<1>1. PICK o \in Pending : o = pend[p]
  BY DEF EvolutionInv, TypeOK
<1>2. Known(o.cand)
  BY <1>1 DEF CommitApprove, EvolutionInv, OpSound, OperandSound
<1>3. /\ UNCHANGED <<kind, ver, cand>> /\ dec[d].cand = None
      /\ dec' = [dec EXCEPT ![d] = [cand |-> o.cand, verifier |-> o.by]]
  BY <1>1 DEF CommitApprove
<1>4. \A e \in Decisions : dec'[e].cand = IF e = d THEN o.cand ELSE dec[e].cand
  BY <1>3 DEF EvolutionInv, TypeOK
<1>5. CASE kind = "runtime"
  <2>1. Approvals = {} /\ Approvals' = {}
    BY <1>3, <1>5 DEF Approvals
  <2> QED
    BY <1>3, <2>1, VersionsShow DEF Line!vars
<1>6. CASE kind # "runtime"
  <2> DEFINE b == cand[o.cand].base
             x == cand[o.cand].content
  <2>1. o.cand \in Candidates /\ o.cand # None /\ cand[o.cand].known
    BY <1>2, BoundsFacts DEF Known
  <2>2. b \in Contents /\ x \in Contents
    <3>1. /\ ver[cand[o.cand].target].state # "none" /\ x \in Contents
          /\ b = ver[cand[o.cand].target].content
      BY <1>6, <2>1 DEF EvolutionInv, CandidateInv
    <3>2. cand[o.cand].target \in Versions
      BY <2>1, CandidateType DEF EvolutionInv
    <3> QED
      BY <3>1, <3>2 DEF EvolutionInv, VersionInv
  <2>3. Approvals' = Approvals \cup {[base |-> b, content |-> x]}
    <3>1. ASSUME NEW e \in Decisions, dec'[e].cand # None
          PROVE  [base |-> cand[dec'[e].cand].base, content |-> cand[dec'[e].cand].content]
                   \in Approvals \cup {[base |-> b, content |-> x]}
      <4>1. CASE e = d
        BY <1>4, <4>1
      <4>2. CASE e # d
        <5>1. dec'[e].cand = dec[e].cand
          BY <1>4, <4>2
        <5> QED
          BY <1>6, <3>1, <5>1 DEF Approvals
      <4> QED
        BY <4>1, <4>2
    <3>2. ASSUME NEW e \in Decisions, dec[e].cand # None
          PROVE  [base |-> cand[dec[e].cand].base, content |-> cand[dec[e].cand].content]
                   \in Approvals'
      <4>1. dec'[e].cand = dec[e].cand
        BY <1>3, <1>4, <3>2
      <4> QED
        BY <1>3, <1>6, <3>2, <4>1 DEF Approvals
    <3>3. [base |-> b, content |-> x] \in Approvals'
      <4>1. dec'[d].cand = o.cand
        BY <1>4
      <4> QED
        BY <1>3, <1>6, <2>1, <4>1 DEF Approvals
    <3>4. Approvals' \subseteq Approvals \cup {[base |-> b, content |-> x]}
      BY <1>3, <3>1 DEF Approvals
    <3>5. Approvals \subseteq Approvals'
      BY <3>2 DEF Approvals
    <3> QED
      BY <3>3, <3>4, <3>5
  <2>4. Line!Approve(b, x)
    BY <1>3, <2>3, VersionsShow DEF Line!Approve
  <2> HIDE DEF b, x
  <2> QED
    BY <2>2, <2>4 DEF Line!Next
<1> QED
  BY <1>5, <1>6

\* Every other step leaves the versions, candidates and Decisions alone.
LEMMA OtherSteps ==
    ASSUME Next
    PROVE  \/ UNCHANGED <<kind, ver, cand, dec>>
           \/ \E p \in Procs :
                \/ \E v \in NewVersions : CommitRegister(p, v) \/ CommitPromote(p, v)
                                          \/ CommitReinstate(p, v) \/ CommitInstall(p, v)
                \/ CommitRestore(p) \/ CommitUninstall(p)
                \/ \E c \in NewCandidates : CommitPropose(p, c) \/ CommitRevise(p, c)
                \/ \E d \in Decisions : CommitApprove(p, d)
<1>1. ASSUME NEW p, NEW o, Prepare(p, o)
      PROVE  UNCHANGED <<kind, ver, cand, dec>>
  BY <1>1 DEF Prepare, Stored
<1>2. ASSUME NEW p \in Procs, NEW x, RegisterOrInstall(p, x)
      PROVE  UNCHANGED <<kind, ver, cand, dec>>
  BY <1>1, <1>2 DEF RegisterOrInstall, RegisterPrompt, RegisterPolicy, RegisterAdapter,
                    PrepareRegister, InstallPackage, PrepareInstall
<1>3. ASSUME NEW p \in Procs, NEW v, Rollback(p, v)
      PROVE  UNCHANGED <<kind, ver, cand, dec>>
  BY <1>1, <1>3 DEF Rollback, RollbackPrompt, RollbackPolicy, RollbackAdapter, RollbackVersion,
                    RollbackPackage, UninstallPackage
<1>4. ASSUME NEW p \in Procs, NEW t, NEW x, NEW by, NEW b, ProposeEvolution(p, t, x, by, b)
      PROVE  UNCHANGED <<kind, ver, cand, dec>>
  BY <1>1, <1>4 DEF ProposeEvolution
<1>5. ASSUME NEW p \in Procs, NEW c,
             \/ \E x \in Contents, b \in BOOLEAN : ReviseCandidate(p, c, x, b)
             \/ \E by \in Principals : EvaluateCandidate(p, c, by)
             \/ \E by \in Principals, b \in BOOLEAN : RecordExternalEvaluation(p, c, by, b)
             \/ ApproveCandidate(p, c)
             \/ \E v \in Versions, by \in Principals, b \in BOOLEAN :
                  MonitorCandidate(p, c, v, by, b)
      PROVE  UNCHANGED <<kind, ver, cand, dec>>
  BY <1>1, <1>5 DEF ReviseCandidate, EvaluateCandidate, RecordExternalEvaluation,
                    ApproveCandidate, MonitorCandidate
<1>6. ASSUME NEW p \in Procs, NEW c, NEW w,
             \/ PromotePrompt(p, c, w) \/ PromotePolicy(p, c, w)
             \/ PromoteAdapter(p, c, w) \/ PromotePackage(p, c, w)
      PROVE  UNCHANGED <<kind, ver, cand, dec>>
  BY <1>1, <1>6 DEF PromotePrompt, PromotePolicy, PromoteAdapter, PromotePackage, Promote
<1>7. ASSUME NEW p \in Procs,
             InstallCandidate(p) \/ CommitEvaluate(p) \/ CommitMonitor(p) \/ Abandon(p)
      PROVE  UNCHANGED <<kind, ver, cand, dec>>
  BY <1>1, <1>7 DEF InstallCandidate, PrepareInstall, CommitEvaluate, CommitMonitor, Abandon,
                    Stored
<1> QED
  BY <1>2, <1>3, <1>4, <1>5, <1>6, <1>7 DEF Next

LEMMA LineStep ==
    ASSUME ForceInv, ForceInv', [Next]_vars
    PROVE  [Line!Next]_(Line!vars)
<1>1. EvolutionInv /\ OneInForce'
  BY DEF ForceInv
<1>2. ASSUME UNCHANGED <<kind, ver, cand, dec>>
      PROVE  UNCHANGED Line!vars
  <2>1. Approvals' = Approvals
    BY <1>2 DEF Approvals
  <2> QED
    BY <1>2, <2>1, VersionsShow DEF Line!vars
<1>3. UNCHANGED vars => UNCHANGED <<kind, ver, cand, dec>>
  BY DEF vars
<1> QED
  BY <1>1, <1>2, <1>3, OtherSteps, ActivateIsNext, RestoreIsNext, UninstallIsNext, CandidateShows,
     ApproveShows

\* Initially no line has a content.
LEMMA LineStarts == ASSUME Init PROVE Line!Init
<1>1. \A v \in Versions : ver[v].state = "none"
  BY DEF Init, NoVersion
<1>2. \A d \in Decisions : dec[d].cand = None
  BY DEF Init
<1>3. \A l \in Versions : InForce(l) = {}
  BY <1>1 DEF InForce, Active
<1>4. /\ Forces = [l \in Versions |-> Nothing] /\ Pasts = [l \in Versions |-> {}]
      /\ Promotions = [l \in Versions |-> {}]
  <2>1. \A v \in Versions : ver[v].cand = None
    BY DEF Init, NoVersion
  <2> QED
    BY <1>1, <1>3, <2>1 DEF Forces, Pasts, Promotions
<1>5. Approvals = {} /\ (kind = "workflow") \in BOOLEAN
  BY <1>2 DEF Approvals
<1> QED
  BY <1>4, <1>5 DEF Line!Init

\* As long as registrations that found nothing active do not overlap, every commit is
\* one step of VersionLine or shows nothing: but for Packages, a promotion replaces
\* exactly the content its candidate was approved for, although it commits after its
\* checks, and a rollback brings back what was in force.
THEOREM VersionsAreALine == ASSUME OneRegistrar PROVE Spec => ImplementsVersionLine
<1>1. Init => Line!Init
  BY LineStarts
<1>2. ForceInv /\ ForceInv' /\ [Next]_vars => [Line!Next]_(Line!vars)
  BY LineStep
<1>3. Init => ForceInv
  BY InitForceInv
<1>4. ForceInv /\ [Next]_vars => ForceInv'
  BY NextForceInv, StutterForceInv
<1> QED
  BY <1>1, <1>2, <1>3, <1>4, PTL DEF Spec, ImplementsVersionLine, Line!Spec

-----------------------------------------------------------------------------
(* Versions take the place of each other.                                  *)

LEMMA PlaceStep ==
    ASSUME EvolutionInv, Next, NEW v \in Active' \ Active
    PROVE  \/ ver[v].state = "none" /\ ver'[v].above = None
           \/ \E u \in Active \ Active' : ver[u].line = ver'[v].line
<1> DEFINE Goal == \/ ver[v].state = "none" /\ ver'[v].above = None
                   \/ \E u \in Active \ Active' : ver[u].line = ver'[v].line
<1>1. v \in Versions /\ ver'[v].state = "active" /\ ver[v].state # "active" /\ ver'[v] # ver[v]
  BY DEF Active
<1>2. ASSUME NEW p \in Procs, NEW n \in NewVersions,
             CommitRegister(p, n) \/ CommitPromote(p, n)
             \/ CommitReinstate(p, n) \/ CommitInstall(p, n)
      PROVE  Goal
  <2> DEFINE c == pend[p].cur
  <2>1. /\ ver[n].state = "none" /\ ver'[n].above = c
        /\ ver'[n].line = IF c = None THEN LineOf(n) ELSE ver[c].line
        /\ c # None => c \in Active /\ ver'[c] = Retired(ver[c])
        /\ \A u \in Versions \ {n, c} : ver'[u] = ver[u]
    BY <1>2, ActivateMeans
  <2> HIDE DEF c
  <2>2. c # None => c \in Versions /\ ver'[c].state = "retired" /\ c \notin Active'
    BY <2>1 DEF Retired, Active
  <2>3. v # c
    BY <1>1, <2>1, <2>2, BoundsFacts
  <2>4. v = n
    BY <1>1, <2>1, <2>3
  <2> QED
    BY <2>1, <2>2, <2>4
<1>3. ASSUME NEW p \in Procs, CommitRestore(p) \/ CommitUninstall(p)
      PROVE  Goal
  <2>1. PICK o \in Pending : o = pend[p]
    BY DEF EvolutionInv, TypeOK
  <2>2. OpSound(o) /\ o.op \in {"restore", "uninstall"}
    BY <1>3, <2>1 DEF EvolutionInv, CommitRestore, CommitUninstall
  <2>3. /\ o.cur \in Versions /\ o.cur # None
        /\ o.op = "restore" => /\ o.tgt \in Versions /\ o.tgt # o.cur
                               /\ ver[o.tgt].line = ver[o.cur].line
    BY <2>2, BoundsFacts DEF OpSound, OperandSound, RewriteSound, Pending
  <2>4. o.cur \in Active
    <3>1. ver[o.cur].rev = o.curRev
      BY <1>3, <2>1, <2>3 DEF CommitRestore, CommitUninstall, Holds, RevOf
    <3> QED
      BY <2>2, <2>3, <3>1 DEF OpSound, RewriteSound
  <2>5. CASE CommitRestore(p)
    <3>1. \A u \in Versions :
            ver'[u] = IF u = o.cur THEN Retired(ver[u])
                      ELSE IF u = o.tgt THEN Reactivated(ver[u]) ELSE ver[u]
      BY <2>1, <2>5 DEF CommitRestore
    <3>2. ver'[o.cur].state = "retired"
      <4>1. ver'[o.cur] = Retired(ver[o.cur])
        BY <2>3, <3>1
      <4> QED
        BY <4>1 DEF Retired
    <3>3. o.op = "restore"
      BY <2>1, <2>5 DEF CommitRestore
    <3>4. v = o.tgt /\ ver'[v] = Reactivated(ver[v])
      BY <1>1, <2>3, <3>1, <3>2, <3>3
    <3>5. ver[o.cur].line = ver'[v].line
      BY <2>3, <3>4, <3>3 DEF Reactivated
    <3> QED
      BY <2>4, <3>2, <3>5 DEF Active
  <2>6. CASE CommitUninstall(p)
    <3>1. ver' = [ver EXCEPT ![o.cur] = Retired(@)]
      BY <2>1, <2>6 DEF CommitUninstall
    <3>2. ver'[v] = Retired(ver[v])
      BY <1>1, <2>3, <3>1 DEF EvolutionInv, TypeOK
    <3> QED
      BY <1>1, <3>2 DEF Retired
  <2> QED
    BY <1>3, <2>5, <2>6
<1>4. ver' # ver
  BY <1>1
<1> HIDE DEF Goal
<1>5. \E p \in Procs :
        \/ \E n \in NewVersions : CommitRegister(p, n) \/ CommitPromote(p, n)
                                  \/ CommitReinstate(p, n) \/ CommitInstall(p, n)
        \/ CommitRestore(p) \/ CommitUninstall(p)
  <2>1. ~UNCHANGED <<kind, ver, cand, dec>>
    BY <1>4
  <2>2. ASSUME NEW p \in Procs,
               \/ \E c \in NewCandidates : CommitPropose(p, c) \/ CommitRevise(p, c)
               \/ \E d \in Decisions : CommitApprove(p, d)
        PROVE  FALSE
    BY <1>4, <2>2 DEF CommitPropose, CommitRevise, CommitApprove
  <2> QED
    BY <2>1, <2>2, OtherSteps, Zenon
<1>6. Goal
  BY <1>2, <1>3, <1>5, Zenon
<1> QED
  BY <1>6 DEF Goal

\* However operations overlap, two registrations included, a version that comes into
\* force takes the place of one of its line that goes out of force in the same step,
\* unless it is registered or installed where none was found.
THEOREM AVersionTakesThePlace == Spec => TakesThePlace
<1>1. EvolutionInv /\ Next =>
        \A v \in Active' \ Active :
          \/ ver[v].state = "none" /\ ver'[v].above = None
          \/ \E u \in Active \ Active' : ver[u].line = ver'[v].line
  BY PlaceStep
<1>2. EvolutionInv /\ [Next]_vars =>
        [\A v \in Active' \ Active :
          \/ ver[v].state = "none" /\ ver'[v].above = None
          \/ \E u \in Active \ Active' : ver[u].line = ver'[v].line]_vars
  BY <1>1
<1> QED
  BY <1>2, EvolutionIsSound, PTL DEF Spec, TakesThePlace

=============================================================================
