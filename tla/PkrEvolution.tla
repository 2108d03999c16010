---------------------------- MODULE PkrEvolution ----------------------------
(***************************************************************************)
(* Managed versions and their governed evolution, as src/src/runtime.ts    *)
(* implements them: registration and rollback of Prompt, Policy and        *)
(* Adapter versions, installation of Packages, and the life of a candidate *)
(* from its proposal over evaluation, approval and promotion to the        *)
(* monitoring of the version it became.                                    *)
(*                                                                         *)
(* A behaviour follows one kind of managed thing: no operation of one kind *)
(* reads or writes the versions of another.                                *)
(*                                                                         *)
(* Each operation is two steps of an operating-system process: it reads    *)
(* and checks outside any transaction (Prepare...), then one transaction   *)
(* writes its records (Commit...).  Only a record that is rewritten is     *)
(* compared with the revision that was read; whatever else an operation    *)
(* read may have changed when it commits.  Candidates, Verifications and   *)
(* Decisions are never rewritten, so that an id stands for its content     *)
(* digest.                                                                 *)
(***************************************************************************)
EXTENDS Integers, FiniteSets

CONSTANTS
    Kinds,          \* the kinds a behaviour may follow
    Contents,       \* contents (with their version strings) of versions
    Others,         \* principals besides the owner of the Project
    Proposers,      \* principals that propose candidates (a bound)
    Owner,          \* the owner of the Project
    Procs,          \* processes that have the project open
    Nothing,        \* no content is in force
    OneRegistrar,   \* registrations that found nothing active do not overlap
    MaxObservations, \* monitoring.maxObservations of a candidate
    Serial,         \* operations that no other operation overlaps (a bound)
    MaxVersions, MaxCandidates, MaxDecisions, MaxVerifications, MaxRev  \* bounds

AllKinds == {"prompt", "policy", "adapter", "workflow", "runtime"}

ASSUME KindsAssumption == Kinds \subseteq AllKinds
ASSUME PrincipalsAssumption == Owner \notin Others /\ Proposers \subseteq Others \cup {Owner}
ASSUME ContentsAssumption == Contents # {} /\ Nothing \notin Contents
ASSUME FlagAssumption == OneRegistrar \in BOOLEAN
ASSUME BoundsAssumption ==
    /\ MaxObservations \in Nat \ {0} /\ MaxVersions \in Nat \ {0}
    /\ MaxCandidates \in Nat \ {0} /\ MaxDecisions \in Nat \ {0}
    /\ MaxVerifications \in Nat /\ MaxRev \in Nat \ {0}

VARIABLES
    kind,       \* what this behaviour manages
    ver,        \* versions: Knowledge, Constraint, Artifact, PackageInstallation
    cand,       \* candidate Artifacts
    verif,      \* Verifications bound to candidates
    dec,        \* accepted Decisions bound to candidates, in the order of ids
    metric,     \* Metrics recorded by monitoring
    pend        \* the operation each process is in the middle of

vars == <<kind, ver, cand, verif, dec, metric, pend>>

Principals == Others \cup {Owner}
Versions == 1..MaxVersions
Candidates == 1..MaxCandidates
Decisions == 1..MaxDecisions
None == 0   \* no version, candidate or Decision

-----------------------------------------------------------------------------
(* Types.                                                                  *)

\* "retired" stands for deprecated, retired, superseded and uninstalled.  above
\* is the version it supersedes; line is the registration it descends from (a
\* history, not in the record); cand, dec and verifier are its evolution binding.
Version == [state : {"none", "active", "retired"}, content : Contents \cup {Nothing}, rev : Nat,
            above : Versions \cup {None}, line : Versions,
            cand : Candidates \cup {None}, dec : Decisions \cup {None},
            verifier : Principals]

\* passes is the outcome of its own canary plan, a function of the candidate.
Candidate == [known : BOOLEAN, target : Versions, base : Contents \cup {Nothing},
              content : Contents \cup {Nothing}, proposer : Principals,
              above : Candidates \cup {None}, passes : BOOLEAN]

Verification == [cand : Candidates, by : Principals, passed : BOOLEAN]
Decision == [cand : Candidates \cup {None}, verifier : Principals]
Metric == [ver : Versions, by : Principals, number : Nat, ok : BOOLEAN]

\* Operations that put a new version in force, the current one if any retired.
Activations == {"register", "install", "promote", "reinstate"}
Ops == Activations \cup
       {"idle", "promoting", "restore", "uninstall", "propose", "revise",
        "evaluate", "approve", "monitor"}

Pending == [op : Ops, cur : Versions \cup {None}, curRev : Nat,
            tgt : Versions \cup {None}, tgtRev : Nat, content : Contents \cup {Nothing},
            cand : Candidates \cup {None}, dec : Decisions \cup {None},
            by : Principals, ok : BOOLEAN, number : Nat]

TypeOK ==
    /\ kind \in AllKinds
    /\ ver \in [Versions -> Version]
    /\ cand \in [Candidates -> Candidate]
    /\ verif \subseteq Verification
    /\ dec \in [Decisions -> Decision]
    /\ metric \subseteq Metric
    /\ pend \in [Procs -> Pending]

-----------------------------------------------------------------------------
NoVersion == [state |-> "none", content |-> Nothing, rev |-> 0, above |-> None,
              line |-> 1, cand |-> None, dec |-> None, verifier |-> Owner]
NoCandidate == [known |-> FALSE, target |-> 1, base |-> Nothing,
                content |-> Nothing, proposer |-> Owner, above |-> None,
                passes |-> FALSE]
Idle == [op |-> "idle", cur |-> None, curRev |-> 0, tgt |-> None, tgtRev |-> 0,
         content |-> Nothing, cand |-> None, dec |-> None, by |-> Owner,
         ok |-> FALSE, number |-> 0]

Init ==
    /\ kind \in Kinds
    /\ ver = [v \in Versions |-> NoVersion]
    /\ cand = [c \in Candidates |-> NoCandidate]
    /\ verif = {}
    /\ dec = [d \in Decisions |-> [cand |-> None, verifier |-> Owner]]
    /\ metric = {}
    /\ pend = [p \in Procs |-> Idle]

-----------------------------------------------------------------------------
(* Reading.                                                                *)

IsIdle(p) == pend[p].op = "idle"
Active == {v \in Versions : ver[v].state = "active"}
Known(c) == c \in Candidates /\ cand[c].known

\* The candidates that revise c.
SupersededBy(c) == {d \in Candidates : cand[d].known /\ cand[d].above = c}
Current(c) == Known(c) /\ SupersededBy(c) = {}

Passing(c) == {w \in verif : w.cand = c /\ w.passed}
Failing(c) == {w \in verif : w.cand = c /\ ~w.passed}

\* The first accepted Decision about c in the order of ids, or None.
AcceptedDecision(c) ==
    LET D == {d \in Decisions : dec[d].cand = c} IN
    IF D = {} THEN None ELSE CHOOSE d \in D : \A e \in D : d <= e

Activated(c) == {v \in Versions : ver[v].state # "none" /\ ver[v].cand = c}

\* Prompts make up as many lines as were registered; the Policy, the managed
\* Adapter and the Package of a behaviour one.
LineOf(v) == IF kind = "prompt" THEN v ELSE 1

RevOf(v) == IF v = None THEN 0 ELSE ver[v].rev

\* An operation that will rewrite the versions cur and tgt, or activate x.
Change(o, cur, tgt, x, c, d, by) ==
    [op |-> o, cur |-> cur, curRev |-> RevOf(cur), tgt |-> tgt,
     tgtRev |-> RevOf(tgt), content |-> x, cand |-> c, dec |-> d, by |-> by,
     ok |-> FALSE, number |-> 0]

\* An operation that will put a record about c and the version v.
Record(o, c, v, x, by, ok, n) ==
    [op |-> o, cur |-> v, curRev |-> 0, tgt |-> None, tgtRev |-> 0,
     content |-> x, cand |-> c, dec |-> None, by |-> by, ok |-> ok, number |-> n]

Stored == <<kind, ver, cand, verif, dec, metric>>

\* Among them the operations that the bound Serial keeps apart.
Apart(p, o) ==
    \A q \in Procs \ {p} : ~IsIdle(q) => o \notin Serial /\ pend[q].op \notin Serial

Prepare(p, o) ==
    /\ Apart(p, o.op)
    /\ pend' = [pend EXCEPT ![p] = o]
    /\ UNCHANGED Stored

Done(p) == pend' = [pend EXCEPT ![p] = Idle]

\* The process is killed, or its transaction fails: nothing is written.
Abandon(p) == ~IsIdle(p) /\ Done(p) /\ UNCHANGED Stored

-----------------------------------------------------------------------------
(* Registration, installation and rollback: the reads.                     *)

\* No other operation is about to activate a version where it found none.
NoRival(p) ==
    OneRegistrar => \A q \in Procs \ {p} :
        ~(pend[q].op \in {"register", "install"} /\ pend[q].cur = None)

PrepareRegister(p, x) ==
    /\ IsIdle(p) /\ NoRival(p)
    /\ Prepare(p, Change("register", None, None, x, None, None, Owner))

RegisterPrompt(p, x) == kind = "prompt" /\ PrepareRegister(p, x)
RegisterPolicy(p, x) == kind = "policy" /\ Active = {} /\ PrepareRegister(p, x)
RegisterAdapter(p, x) == kind = "adapter" /\ Active = {} /\ PrepareRegister(p, x)

\* installProfilePackage, called by its owner (c = None) or by a promotion that
\* has checked the active version before: it reads the installations again.
PrepareInstall(p, x, c, d, by) ==
    /\ kind = "workflow"
    /\ \/ Active = {} /\ NoRival(p)
          /\ Prepare(p, Change("install", None, None, x, c, d, by))
       \/ \E prev \in Active :
            /\ ver[prev].content # x
            /\ Prepare(p, Change("install", prev, None, x, c, d, by))

InstallPackage(p, x) == IsIdle(p) /\ PrepareInstall(p, x, None, None, Owner)

UninstallPackage(p, v) ==
    /\ kind = "workflow" /\ IsIdle(p)
    /\ v \in Active
    /\ Prepare(p, Change("uninstall", v, None, Nothing, None, None, Owner))

\* The rollback brings back the very record of the version cur superseded.
RollbackPrompt(p, cur) ==
    LET tgt == ver[cur].above IN
    /\ kind = "prompt" /\ IsIdle(p)
    /\ cur \in Active
    /\ tgt # None /\ ver[tgt].state = "retired"
    /\ Prepare(p, Change("restore", cur, tgt, Nothing, None, None, Owner))

\* The rollback makes a new version of the content of the one cur superseded.
RollbackVersion(p, cur) ==
    LET tgt == ver[cur].above IN
    /\ IsIdle(p)
    /\ Active = {cur}
    /\ tgt # None /\ ver[tgt].state = "retired"
    /\ Prepare(p, Change("reinstate", cur, tgt, ver[tgt].content, None, None, Owner))

RollbackPolicy(p, cur) == kind = "policy" /\ RollbackVersion(p, cur)
RollbackAdapter(p, cur) == kind = "adapter" /\ RollbackVersion(p, cur)

\* Any other installation of the Package may come back, whatever its state.
RollbackPackage(p, cur, tgt) ==
    /\ kind = "workflow" /\ IsIdle(p)
    /\ cur \in Active
    /\ ver[tgt].state # "none" /\ tgt # cur
    /\ Prepare(p, Change("restore", cur, tgt, Nothing, None, None, Owner))

-----------------------------------------------------------------------------
(* Candidates: the reads.                                                  *)

\* The candidate binds the active version t: for a Policy or Adapter the only
\* active one.
BindsActive(t) ==
    CASE kind = "runtime" -> t = 1
      [] kind \in {"prompt", "workflow"} -> t \in Active
      [] OTHER -> Active = {t}

\* Some observation, if only human feedback, supports the proposal.
ProposeEvolution(p, t, x, by, passes) ==
    /\ IsIdle(p)
    /\ BindsActive(t)
    /\ kind \in {"prompt", "policy", "adapter"} => x # ver[t].content
    /\ Prepare(p, Record("propose", None, t, x, by, passes, 0))

\* An Adapter must still be what the candidate was proposed for.
ReviseCandidate(p, c, x, passes) ==
    /\ IsIdle(p) /\ Current(c)
    /\ kind = "adapter" => cand[c].target \in Active /\ x # cand[c].base
    /\ <<x, passes>> # <<cand[c].content, cand[c].passes>>
    /\ Prepare(p, Record("revise", c, None, x, cand[c].proposer, passes, 0))

\* Evaluation precedes the Decision; its verdict is a function of the candidate.
EvaluateCandidate(p, c, by) ==
    /\ kind # "runtime"
    /\ IsIdle(p) /\ Current(c)
    /\ AcceptedDecision(c) = None
    /\ by # cand[c].proposer
    /\ Cardinality(verif) < MaxVerifications
    /\ Prepare(p, Record("evaluate", c, None, Nothing, by, cand[c].passes, 0))

\* The verdict on a Runtime candidate comes from an external supervisor.
RecordExternalEvaluation(p, c, by, passed) ==
    /\ kind = "runtime"
    /\ IsIdle(p) /\ Current(c)
    /\ AcceptedDecision(c) = None
    /\ by # cand[c].proposer
    /\ Cardinality(verif) < MaxVerifications
    /\ Prepare(p, Record("evaluate", c, None, Nothing, by, passed, 0))

\* The owner approves what somebody else proposed and a third evaluated.
ApproveCandidate(p, c) ==
    /\ IsIdle(p) /\ Current(c)
    /\ Owner # cand[c].proposer
    /\ AcceptedDecision(c) = None
    /\ Failing(c) = {}
    /\ \E w \in Passing(c) :
         /\ w.by # Owner
         /\ Prepare(p, Record("approve", c, None, Nothing, w.by, FALSE, 0))

\* Fault: the promotion does not look for an earlier activation.
Promotable_Again(c, w) ==
    /\ Current(c)
    /\ kind # "runtime"
    /\ Owner # cand[c].proposer
    /\ w \in Passing(c) /\ Failing(c) = {}
    /\ AcceptedDecision(c) # None
    /\ w.by # Owner

\* Fault: the promotion does not ask for a Decision.
Promotable_Undecided(c, w) ==
    /\ Current(c)
    /\ kind # "runtime"
    /\ Activated(c) = {}
    /\ Owner # cand[c].proposer
    /\ w \in Passing(c) /\ Failing(c) = {}
    /\ w.by # Owner

\* What every promotion checks, w being the Verification it finds.
Promotable(c, w) ==
    /\ Current(c)
    /\ kind # "runtime"
    /\ Activated(c) = {}
    /\ Owner # cand[c].proposer
    /\ w \in Passing(c) /\ Failing(c) = {}
    /\ AcceptedDecision(c) # None
    /\ w.by # Owner

\* Fault: the promotion replaces what is active now, whatever it is.
Promote_OverAny(p, c, w) ==
    /\ IsIdle(p) /\ Promotable(c, w)
    /\ \E t \in Active :
         Prepare(p, Change("promote", t, None, cand[c].content, c,
                           AcceptedDecision(c), w.by))

\* The version the candidate was proposed for is still the one in force.
Promote(p, c, w) ==
    LET t == cand[c].target IN
    /\ IsIdle(p) /\ Promotable(c, w)
    /\ BindsActive(t)
    /\ Prepare(p, Change("promote", t, None, cand[c].content, c,
                         AcceptedDecision(c), w.by))

PromotePrompt(p, c, w) == kind = "prompt" /\ Promote(p, c, w)
PromotePolicy(p, c, w) == kind = "policy" /\ Promote(p, c, w)
PromoteAdapter(p, c, w) == kind = "adapter" /\ Promote(p, c, w)

\* A Package is checked to be in the version the candidate binds ...
PromotePackage(p, c, w) ==
    /\ kind = "workflow"
    /\ IsIdle(p) /\ Promotable(c, w)
    /\ \E v \in Active : ver[v].content = cand[c].base
    /\ Prepare(p, Change("promoting", None, None, cand[c].content, c,
                         AcceptedDecision(c), w.by))

\* ... and then installed over whatever the installation finds active.
InstallCandidate(p) ==
    LET o == pend[p] IN
    /\ o.op = "promoting"
    /\ PrepareInstall(p, o.content, o.cand, o.dec, o.by)

\* Who may observe the version v of the candidate c.
Observer(c, v) == Principals \ {cand[c].proposer, Owner, ver[v].verifier}

Observations(v) == {m \in metric : m.ver = v}

\* The Decision found first must be the one the activation names.
MonitorCandidate(p, c, v, by, ok) ==
    /\ IsIdle(p) /\ Current(c)
    /\ v \in Activated(c) \cap Active
    /\ AcceptedDecision(c) = ver[v].dec
    /\ by \in Observer(c, v)
    /\ \A m \in Observations(v) : m.ok
    /\ Cardinality(Observations(v)) < MaxObservations
    /\ Prepare(p, Record("monitor", c, v, Nothing, by, ok,
                         Cardinality(Observations(v)) + 1))

-----------------------------------------------------------------------------
(* Commits.                                                                *)

\* Fault: the revision is not compared.
Holds_Always(v, rev) == TRUE

\* The compare-and-set of putRecord on a version that is rewritten.
Holds(v, rev) == RevOf(v) = rev

\* Fault: the state is written under another kind's name.
Retired_Deprecated(r) ==
    [state |-> "deprecated", content |-> r.content, rev |-> r.rev + 1,
     above |-> r.above, line |-> r.line, cand |-> r.cand,
     dec |-> r.dec, verifier |-> r.verifier]

Retired(r) == [state |-> "retired", content |-> r.content, rev |-> r.rev + 1,
               above |-> r.above, line |-> r.line, cand |-> r.cand,
               dec |-> r.dec, verifier |-> r.verifier]
Reactivated(r) == [state |-> "active", content |-> r.content, rev |-> r.rev + 1,
                   above |-> r.above, line |-> r.line, cand |-> r.cand,
                   dec |-> r.dec, verifier |-> r.verifier]

\* The new version v takes the place of the current one, if any.
Activate(p, v) ==
    LET o == pend[p] IN
    /\ ver[v].state = "none"
    /\ Holds(o.cur, o.curRev)
    /\ ver' = [u \in Versions |->
                 IF u = v
                 THEN [state |-> "active", content |-> o.content, rev |-> 1,
                       above |-> o.cur,
                       line |-> IF o.cur = None THEN LineOf(v) ELSE ver[o.cur].line,
                       cand |-> o.cand, dec |-> o.dec, verifier |-> o.by]
                 ELSE IF u = o.cur THEN Retired(ver[u]) ELSE ver[u]]
    /\ Done(p)
    /\ UNCHANGED <<kind, cand, verif, dec, metric>>

CommitRegister(p, v) == pend[p].op = "register" /\ Activate(p, v)
CommitPromote(p, v) == pend[p].op = "promote" /\ Activate(p, v)
CommitReinstate(p, v) == pend[p].op = "reinstate" /\ Activate(p, v)

\* The Workflow of a Package version has the id of that version: installing one
\* that was ever installed puts it a second time, and fails.
CommitInstall(p, v) ==
    /\ pend[p].op = "install"
    /\ \A u \in Versions : ver[u].state # "none" => ver[u].content # pend[p].content
    /\ Activate(p, v)

\* Two records change places.
CommitRestore(p) ==
    LET o == pend[p] IN
    /\ o.op = "restore"
    /\ Holds(o.cur, o.curRev) /\ Holds(o.tgt, o.tgtRev)
    /\ ver' = [u \in Versions |->
                 IF u = o.cur THEN Retired(ver[u])
                 ELSE IF u = o.tgt THEN Reactivated(ver[u]) ELSE ver[u]]
    /\ Done(p)
    /\ UNCHANGED <<kind, cand, verif, dec, metric>>

CommitUninstall(p) ==
    LET o == pend[p] IN
    /\ o.op = "uninstall"
    /\ Holds(o.cur, o.curRev)
    /\ ver' = [ver EXCEPT ![o.cur] = Retired(@)]
    /\ Done(p)
    /\ UNCHANGED <<kind, cand, verif, dec, metric>>

CommitPropose(p, c) ==
    LET o == pend[p] IN
    /\ o.op = "propose" /\ ~Known(c)
    /\ cand' = [cand EXCEPT ![c] =
                  [known |-> TRUE, target |-> o.cur, base |-> ver[o.cur].content,
                   content |-> o.content, proposer |-> o.by, above |-> None,
                   passes |-> o.ok]]
    /\ Done(p)
    /\ UNCHANGED <<kind, ver, verif, dec, metric>>

CommitRevise(p, c) ==
    LET o == pend[p] IN
    /\ o.op = "revise" /\ ~Known(c)
    /\ cand' = [cand EXCEPT ![c] =
                  [known |-> TRUE, target |-> cand[o.cand].target,
                   base |-> cand[o.cand].base, content |-> o.content,
                   proposer |-> o.by, above |-> o.cand, passes |-> o.ok]]
    /\ Done(p)
    /\ UNCHANGED <<kind, ver, verif, dec, metric>>

CommitEvaluate(p) ==
    LET o == pend[p] IN
    /\ o.op = "evaluate"
    /\ verif' = verif \cup {[cand |-> o.cand, by |-> o.by, passed |-> o.ok]}
    /\ Done(p)
    /\ UNCHANGED <<kind, ver, cand, dec, metric>>

CommitApprove(p, d) ==
    LET o == pend[p] IN
    /\ o.op = "approve" /\ dec[d].cand = None
    /\ dec' = [dec EXCEPT ![d] = [cand |-> o.cand, verifier |-> o.by]]
    /\ Done(p)
    /\ UNCHANGED <<kind, ver, cand, verif, metric>>

CommitMonitor(p) ==
    LET o == pend[p] IN
    /\ o.op = "monitor"
    /\ metric' = metric \cup {[ver |-> o.cur, by |-> o.by, number |-> o.number,
                               ok |-> o.ok]}
    /\ Done(p)
    /\ UNCHANGED <<kind, ver, cand, verif, dec>>

-----------------------------------------------------------------------------
RegisterOrInstall(p, x) ==
    RegisterPrompt(p, x) \/ RegisterPolicy(p, x) \/ RegisterAdapter(p, x)
    \/ InstallPackage(p, x)

Rollback(p, cur) ==
    \/ ver[cur].rev < MaxRev
       /\ \/ RollbackPrompt(p, cur) \/ RollbackPolicy(p, cur)
          \/ RollbackAdapter(p, cur)
          \/ \E tgt \in Versions : RollbackPackage(p, cur, tgt)
    \/ UninstallPackage(p, cur)

\* The next unused version or candidate; a Decision has any unused id.
FirstUnused(S, Used) == {x \in S \ Used : \A y \in S \ Used : x <= y}
NewVersions == FirstUnused(Versions, {v \in Versions : ver[v].state # "none"})
NewCandidates == FirstUnused(Candidates, {c \in Candidates : Known(c)})

Next == \E p \in Procs :
    \/ \E x \in Contents : RegisterOrInstall(p, x)
    \/ \E v \in Versions : Rollback(p, v)
    \/ \E t \in Versions, x \in Contents, by \in Proposers, b \in BOOLEAN :
         ProposeEvolution(p, t, x, by, b)
    \/ \E c \in Candidates :
         \/ \E x \in Contents, b \in BOOLEAN : ReviseCandidate(p, c, x, b)
         \/ \E by \in Principals : EvaluateCandidate(p, c, by)
         \/ \E by \in Principals, b \in BOOLEAN :
              RecordExternalEvaluation(p, c, by, b)
         \/ ApproveCandidate(p, c)
         \/ \E w \in verif :
              \/ PromotePrompt(p, c, w) \/ PromotePolicy(p, c, w)
              \/ PromoteAdapter(p, c, w) \/ PromotePackage(p, c, w)
         \/ \E v \in Versions, by \in Principals, b \in BOOLEAN :
              MonitorCandidate(p, c, v, by, b)
    \/ InstallCandidate(p)
    \/ \E v \in NewVersions : CommitRegister(p, v) \/ CommitPromote(p, v)
                              \/ CommitReinstate(p, v) \/ CommitInstall(p, v)
    \/ CommitRestore(p) \/ CommitUninstall(p)
    \/ \E c \in NewCandidates : CommitPropose(p, c) \/ CommitRevise(p, c)
    \/ CommitEvaluate(p) \/ CommitMonitor(p)
    \/ \E d \in Decisions : CommitApprove(p, d)
    \/ Abandon(p)

Spec == Init /\ [][Next]_vars

-----------------------------------------------------------------------------
(* Properties.                                                             *)

\* As long as no two registrations or installations that found nothing in force
\* overlap (OneRegistrar), a registered line always has exactly one version in force,
\* however promotions, rollbacks and installations over another version race; only a
\* Package may be uninstalled and have none.  The code keeps no two such registrations
\* apart: without OneRegistrar it fails, and TakesThePlace is what remains.
OneInForce ==
    \A v \in Versions : ver[v].state # "none" =>
        LET L == {u \in Active : ver[u].line = ver[v].line} IN
        /\ \A u, w \in L : u = w
        /\ kind # "workflow" => L # {}

\* Whatever operations overlap, two registrations included, a version comes into force
\* beside another one of its line only by being registered or installed where nothing
\* was found in force: any other version takes the place of one that goes out of
\* force in the same step, and is not restored or promoted beside what replaced that.
TakesThePlace ==
    [][\A v \in Active' \ Active :
         \/ ver[v].state = "none" /\ ver'[v].above = None
         \/ \E u \in Active \ Active' : ver[u].line = ver'[v].line]_vars

\* A version that came from a candidate has its content, and at every later time
\* the evidence that three principals let it in: an accepted Decision of the owner
\* about it, a passing Verification, none that failed.
PromotedAsApproved ==
    \A v \in Versions : ver[v].cand # None =>
        LET c == ver[v].cand
            d == ver[v].dec IN
        /\ Known(c) /\ ver[v].content = cand[c].content
        /\ d # None /\ dec[d].cand = c
        /\ [cand |-> c, by |-> ver[v].verifier, passed |-> TRUE] \in verif
        /\ Failing(c) = {}
        /\ Cardinality({cand[c].proposer, ver[v].verifier, Owner}) = 3

\* However promotions overlap with each other and with rollbacks, a candidate is
\* activated once.
ActivatedOnce == \A c \in Candidates : \A u, v \in Activated(c) : u = v

-----------------------------------------------------------------------------
(* The abstract specification.                                             *)

InForce(l) == {ver[v].content : v \in {u \in Active : ver[u].line = l}}

Forces == [l \in Versions |-> IF InForce(l) = {} THEN Nothing ELSE CHOOSE x \in InForce(l) : TRUE]
Pasts == [l \in Versions |-> {ver[v].content : v \in {u \in Versions : ver[u].state # "none"
                                                                     /\ ver[u].line = l}}]

\* What the promotions of a line replaced, and by what.
Over(v) == IF ver[v].above = None THEN Nothing ELSE ver[ver[v].above].content
Promotions == [l \in Versions |-> {[over |-> Over(v), content |-> ver[v].content]
                                    : v \in {u \in Versions : ver[u].cand # None /\ ver[u].line = l}}]

Approvals == {[base |-> cand[dec[d].cand].base, content |-> cand[dec[d].cand].content]
                : d \in {e \in Decisions : dec[e].cand # None /\ kind # "runtime"}}

Line == INSTANCE VersionLine WITH
    Lines <- Versions, inForce <- Forces, past <- Pasts, promoted <- Promotions,
    approved <- Approvals, open <- kind = "workflow"

\* As long as registrations that found nothing in force do not overlap, every line of
\* versions changes as VersionLine says: a promotion of a Prompt, the Policy or an
\* Adapter puts an approved change in force over exactly what it was approved for,
\* although it commits later than it checks, a promotion of a Package an approved one
\* over whatever is in force then, and a rollback brings back what was in force.
ImplementsVersionLine == Line!Spec

-----------------------------------------------------------------------------
(* Strengthenings that make the properties inductive.                      *)

\* A version that exists has a content, and descends from one of its line; the
\* lines are those of LineOf.
VersionInv ==
    \A v \in Versions :
        IF ver[v].state = "none" THEN ver[v].cand = None
        ELSE /\ kind # "runtime"
             /\ ver[v].content \in Contents
             /\ IF kind = "prompt" THEN ver[ver[v].line].state # "none" ELSE ver[v].line = 1
             /\ ver[v].above # None =>
                  /\ ver[ver[v].above].state # "none"
                  /\ ver[ver[v].above].line = ver[v].line

\* A candidate names a version and its content.
CandidateInv ==
    \A c \in Candidates : cand[c].known =>
        /\ cand[c].content \in Contents
        /\ kind # "runtime" =>
             /\ ver[cand[c].target].state # "none"
             /\ cand[c].base = ver[cand[c].target].content

\* Verifications and Decisions are about candidates there are, the former not by
\* their proposers and, of what is evaluated here, all with one verdict.
EvidenceInv ==
    /\ \A w \in verif :
         /\ Known(w.cand)
         /\ w.by # cand[w.cand].proposer
         /\ kind # "runtime" => w.passed = cand[w.cand].passes
    /\ \A d \in Decisions : dec[d].cand # None => Known(dec[d].cand)
    /\ IsFiniteSet(metric)

\* An operation o on versions: what it has read is as it was as long as the
\* revision is.
RewriteSound(o) ==
    o.op \in Activations \cup {"promoting", "restore", "uninstall"} =>
        /\ kind # "runtime"
        /\ o.cur # None =>
             /\ ver[o.cur].state # "none"
             /\ o.curRev <= ver[o.cur].rev
             /\ o.curRev = ver[o.cur].rev => o.cur \in Active
        /\ o.tgt # None =>
             /\ o.cur # None /\ o.tgt # o.cur
             /\ ver[o.tgt].state # "none"
             /\ ver[o.tgt].line = ver[o.cur].line

\* What each operation works on.
OperandSound(o) ==
    /\ o.op \in Activations \cup {"promoting", "propose", "revise"} => o.content \in Contents
    /\ o.op = "register" => kind # "workflow" /\ o.cur = None
    /\ o.op \in {"register", "reinstate"} => o.cand = None
    /\ o.op = "promote" =>
         kind # "workflow" /\ o.cand # None /\ o.cur = cand[o.cand].target
    /\ o.op = "reinstate" =>
         o.cur # None /\ o.tgt # None /\ o.content = ver[o.tgt].content
    /\ o.op = "restore" => o.cur # None /\ o.tgt # None
    /\ o.op = "uninstall" => o.cur # None /\ kind = "workflow"
    /\ o.op \in {"install", "promoting"} => kind = "workflow"
    /\ o.op = "propose" =>
         o.cur # None /\ (kind # "runtime" => ver[o.cur].state # "none")
    /\ o.op = "monitor" => o.cur # None
    /\ o.op \in {"revise", "evaluate", "approve"} => Known(o.cand)
    /\ o.op = "evaluate" =>
         /\ o.by # cand[o.cand].proposer
         /\ kind # "runtime" => o.ok = cand[o.cand].passes

\* A promotion has the evidence for its candidate.
EvidenceSound(o) ==
    o.op \in Activations \cup {"promoting"} /\ o.cand # None =>
        /\ Known(o.cand) /\ o.content = cand[o.cand].content
        /\ o.dec # None /\ dec[o.dec].cand = o.cand
        /\ [cand |-> o.cand, by |-> o.by, passed |-> TRUE] \in verif
        /\ o.by # Owner /\ Owner # cand[o.cand].proposer

OpSound(o) == RewriteSound(o) /\ OperandSound(o) /\ EvidenceSound(o)

\* These hold however operations overlap.
EvolutionInv ==
    /\ TypeOK /\ VersionInv /\ CandidateInv /\ EvidenceInv /\ PromotedAsApproved
    /\ \A p \in Procs : OpSound(pend[p])

\* A promotion that was prepared before its candidate was activated has a stale
\* revision of the version it replaces.
LatePromotion ==
    \A p \in Procs :
        LET o == pend[p] IN
        o.op = "promote" /\ Activated(o.cand) # {} => o.curRev # ver[o.cur].rev

ActivationInv == EvolutionInv /\ ActivatedOnce /\ LatePromotion

\* Whoever activates a version where there was none is alone, and, but for Prompts,
\* still finds none.
FirstRegistration ==
    LET Rivals == {p \in Procs : pend[p].op \in {"register", "install"}
                                 /\ pend[p].cur = None} IN
    /\ \A p, q \in Rivals : p = q
    /\ Rivals # {} /\ kind # "prompt" => Active = {}

ForceInv == EvolutionInv /\ OneInForce /\ FirstRegistration

=============================================================================
