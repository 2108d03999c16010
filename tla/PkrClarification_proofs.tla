---------------------- MODULE PkrClarification_proofs ----------------------
(***************************************************************************)
(* Proofs about PkrClarification, for every set of contexts, proposals,    *)
(* responses and processes.                                                *)
(***************************************************************************)
EXTENDS PkrClarification, TLAPS

\* What a call may hold.
Good(n) == n \in Call /\ Sound(n) /\ Bound(n)

\* Who calls: with a response if there is one to give, and about a proposal if it is
\* to be applied.
Caller(o) ==
    /\ o.op \in {"respond", "apply"} => o.ans \in Answers
    /\ o.op = "apply" => o.ctx \in Proposals

\* The stages of a call.
Stages == {"end", "list", "start", "starting", "started", "move", "commit", "moved",
           "decide", "decision", "goal", "task", "transition"}

Whys == {"supersede", "assess", "respond", "command"}

-----------------------------------------------------------------------------
(* The operators that calls are built with.                                *)

\* To changes the stage of a call and nothing else.
LEMMA ToFields ==
    ASSUME NEW o \in Call, NEW w \in Stages
    PROVE  /\ To(o, w) \in Call
           /\ To(o, w).op = o.op /\ To(o, w).at = w /\ To(o, w).ctx = o.ctx
           /\ To(o, w).ans = o.ans /\ To(o, w).todo = o.todo
           /\ To(o, w).move = o.move /\ To(o, w).seen = o.seen
  BY DEF To, Call, Stages

\* Moving sets the stage and the move of a call and nothing else.
LEMMA MovingFields ==
    ASSUME NEW o \in Call, NEW d \in Contexts, NEW s \in Run, NEW to \in States, NEW why \in Whys
    PROVE  /\ Moving(o, d, s, to, why) \in Call
           /\ Moving(o, d, s, to, why).op = o.op
           /\ Moving(o, d, s, to, why).at = "move"
           /\ Moving(o, d, s, to, why).ctx = o.ctx
           /\ Moving(o, d, s, to, why).ans = o.ans
           /\ Moving(o, d, s, to, why).todo = o.todo
           /\ Moving(o, d, s, to, why).move = [of |-> d, cur |-> s, to |-> to, why |-> why]
<1> DEFINE t == To(o, "move")
           m == [of |-> d, cur |-> s, to |-> to, why |-> why]
<1>1. t \in Call /\ t.op = o.op /\ t.at = "move" /\ t.ctx = o.ctx /\ t.ans = o.ans
      /\ t.todo = o.todo
  BY ToFields DEF Stages
<1>2. m \in Move
  BY DEF Move, Whys
<1>3. Moving(o, d, s, to, why) = [t EXCEPT !.move = m]
  BY DEF Moving
<1> HIDE DEF t, m
<1>4. /\ [t EXCEPT !.move = m] \in Call
      /\ [t EXCEPT !.move = m].op = t.op /\ [t EXCEPT !.move = m].at = t.at
      /\ [t EXCEPT !.move = m].ctx = t.ctx /\ [t EXCEPT !.move = m].ans = t.ans
      /\ [t EXCEPT !.move = m].todo = t.todo /\ [t EXCEPT !.move = m].move = m
  BY <1>1, <1>2 DEF Call
<1> QED
  BY <1>1, <1>3, <1>4 DEF m

\* The record of a context without a run.
LEMMA NoRunType == NoRun \in Run
  BY DEF NoRun, Run, States, Terminal, Outcome

\* A new call has nothing to supersede and is at no stage yet.
LEMMA NewCallFields ==
    ASSUME NEW op \in {"idle", "assess", "respond", "apply", "transition"}, NEW c \in Contexts,
           NEW a \in Outcome
    PROVE  /\ NewCall(op, c, a) \in Call
           /\ NewCall(op, c, a).op = op /\ NewCall(op, c, a).at = "end"
           /\ NewCall(op, c, a).ctx = c /\ NewCall(op, c, a).ans = a
           /\ NewCall(op, c, a).todo = {}
<1>1. AnyContext \in Contexts
  BY ContextsAssumption DEF AnyContext
<1>2. NoMove \in Move
  BY <1>1, NoRunType DEF NoMove, Move, States, Terminal
<1> HIDE DEF NoMove
<1> QED
  BY <1>2, NoRunType DEF NewCall, Call

\* A process that does nothing holds nothing.
LEMMA IdleGood == Good(Idle)
<1>1. AnyContext \in Contexts
  BY ContextsAssumption DEF AnyContext
<1>2. /\ Idle \in Call /\ Idle.op = "idle" /\ Idle.at = "end" /\ Idle.todo = {}
  BY <1>1, NewCallFields DEF Idle, Outcome
<1> QED
  BY <1>2 DEF Good, Sound, Bound, Parts

-----------------------------------------------------------------------------
(* How a change keeps the invariant.                                       *)

\* A step that changes no record and no command keeps the invariant if what its
\* process goes on to is good.
LEMMA StillStep ==
    ASSUME RunInv, NEW p \in Procs, NEW n, Good(n), Go(p, n),
           UNCHANGED <<run, workflow, commands, made>>, kills' \in Nat, moves' \in Nat
    PROVE  RunInv'
<1>1. pend' \in [Procs -> Call]
  BY DEF Go, Good, RunInv, TypeOK
<1>2. \A q \in Procs : Sound(pend'[q]) /\ Bound(pend'[q])
  BY DEF Go, Good, RunInv, TypeOK
<1>3. \A q \in Procs : (Sound(pend[q]) /\ Bound(pend[q]))'
  BY <1>2 DEF Sound, Bound, Settled
<1>4. TypeOK'
  BY <1>1, <1>3 DEF RunInv, TypeOK, Sound, Parts
<1>5. Unasked' /\ NothingUnapproved' /\ MadeAsResolved'
  BY DEF RunInv, Unasked, NothingUnapproved, MadeAsResolved, Clear
<1> QED
  BY <1>3, <1>4, <1>5 DEF RunInv

\* A call that reads keeps the invariant if what it goes on to is good.
LEMMA ReadStep ==
    ASSUME RunInv, NEW p \in Procs, NEW n, Good(n), Reads(p, n)
    PROVE  RunInv'
<1>1. kills' \in Nat /\ moves' \in Nat /\ Go(p, n)
      /\ UNCHANGED <<run, workflow, commands, made>>
  BY DEF Reads, RunInv, TypeOK
<1> QED
  BY <1>1, StillStep

\* What a call holds of runs stays true when a run that is not resolved gets a
\* later revision.
LEMMA GoodKept ==
    ASSUME NEW o \in Call, Good(o), TypeOK, NEW d \in Contexts, NEW r \in Run,
           run' = [run EXCEPT ![d] = r], r.rev = run[d].rev + 1,
           run[d].state # "resolved", made' = made,
           o.at \in Parts \cup {"decide"} => o.ctx \in Proposals
    PROVE  (Sound(o) /\ Bound(o))'
<1>1. run'[d] = r /\ \A c \in Contexts \ {d} : run'[c] = run[c]
  BY DEF TypeOK
<1>2. run[d].rev \in Nat /\ \A c \in Contexts : run[c].rev \in Nat /\ run'[c].rev \in Nat
  BY <1>1 DEF TypeOK, Run
<1>3. o.move.of \in Contexts /\ o.seen.rev \in Nat /\ o.ctx \in Contexts
  BY DEF Call, Move, Run
<1>4. ASSUME o.at \in {"commit", "transition"}
      PROVE  /\ o.seen.rev <= run'[o.move.of].rev
             /\ o.seen.rev = run'[o.move.of].rev => o.seen = run'[o.move.of]
  <2>1. o.seen.rev <= run[o.move.of].rev
        /\ (o.seen.rev = run[o.move.of].rev => o.seen = run[o.move.of])
    BY <1>4 DEF Good, Sound
  <2>2. CASE o.move.of = d
    BY <2>1, <2>2, <1>1, <1>2, <1>3
  <2>3. CASE o.move.of # d
    BY <2>1, <2>3, <1>1, <1>3
  <2> QED
    BY <2>2, <2>3
<1>5. Sound(o)'
  BY <1>4 DEF Good, Sound
<1>6. ASSUME o.at \in Parts \cup {"decide"}, o.move.cur.state = "resolved"
      PROVE  o.move.cur = run'[o.ctx]
  <2>1. o.move.cur = run[o.ctx]
    BY <1>6 DEF Good, Bound
  <2>2. o.ctx # d
    BY <2>1, <1>6
  <2> QED
    BY <2>1, <2>2, <1>1, <1>3
<1>7. Bound(o)'
  BY <1>6 DEF Good, Bound, Settled
<1> QED
  BY <1>5, <1>7

\* A commit that moves one run that is not resolved keeps the invariant if its
\* process goes on to something good and if the run stays clear when it asks nothing.
LEMMA RunStep ==
    ASSUME RunInv, NEW p \in Procs, NEW n, Good(n), Go(p, n),
           NEW d \in Contexts, NEW r \in Run,
           run' = [run EXCEPT ![d] = r], r.rev = run[d].rev + 1,
           run[d].state # "resolved",
           d \notin Asked => Clear(r),
           workflow' \in BOOLEAN, commands' \subseteq Command,
           UNCHANGED <<made, kills, moves>>
    PROVE  RunInv'
<1>1. run' \in [Contexts -> Run] /\ run'[d] = r
      /\ \A c \in Contexts \ {d} : run'[c] = run[c]
  BY DEF RunInv, TypeOK
<1>2. pend' \in [Procs -> Call]
      /\ \A q \in Procs : Good(pend'[q])
  BY DEF Go, Good, RunInv, TypeOK
<1>3. ASSUME NEW q \in Procs
      PROVE  (Sound(pend[q]) /\ Bound(pend[q]))'
  <2>1. PICK v : v = pend'[q]
    OBVIOUS
  <2>2. v \in Call /\ Good(v)
    BY <1>2, <2>1
  <2>3. v.at \in Parts \cup {"decide"} => v.ctx \in Proposals
    BY <2>2 DEF Good, Sound
  <2>4. (Sound(v) /\ Bound(v))'
    BY <2>2, <2>3, GoodKept DEF RunInv
  <2> QED
    BY <2>1, <2>4 DEF Sound, Bound, Settled
<1>4. TypeOK'
  BY <1>1, <1>2, <1>3 DEF RunInv, TypeOK, Sound, Parts
<1>5. Unasked'
  BY <1>1 DEF RunInv, Unasked, Clear
<1>6. NothingUnapproved'
  BY DEF RunInv, NothingUnapproved
<1>7. ASSUME NEW c \in Proposals, NEW k \in Parts, made[k][c] # {}
      PROVE  /\ c \in Asked => run'[c].state = "resolved"
             /\ made[k][c] = {run'[c].res}
  <2>1. (c \in Asked => run[c].state = "resolved") /\ made[k][c] = {run[c].res}
    BY <1>7 DEF RunInv, MadeAsResolved
  <2>2. c \in Contexts
    BY ContextsAssumption
  <2>3. CASE c = d
    <3>1. c \notin Asked
      BY <2>1, <2>3
    <3>2. run[c].res = NoAnswer /\ r.res = NoAnswer
      BY <2>2, <2>3, <3>1 DEF RunInv, Unasked, Clear
    <3> QED
      BY <2>1, <2>3, <3>1, <3>2, <1>1
  <2>4. CASE c # d
    BY <2>1, <2>2, <2>4, <1>1
  <2> QED
    BY <2>3, <2>4
<1>8. MadeAsResolved'
  BY <1>7 DEF RunInv, MadeAsResolved
<1> QED
  BY <1>3, <1>4, <1>5, <1>6, <1>8 DEF RunInv

-----------------------------------------------------------------------------
(* The steps of assess.                                                    *)

\* What follows a supersession, or the reading of what there is to supersede.
LEMMA OnwardGood ==
    ASSUME NEW o \in Call, Caller(o),
           \A x \in o.todo : x[1] \notin Asked => Clear(x[2]),
           NEW n \in Onward(o)
    PROVE  Good(n)
<1>1. CASE o.todo = {}
  <2>1. n = To(o, "start")
    BY <1>1 DEF Onward
  <2>2. n \in Call /\ n.op = o.op /\ n.at = "start" /\ n.ctx = o.ctx /\ n.ans = o.ans /\ n.todo = o.todo
    BY <2>1, ToFields DEF Stages
  <2> QED
    BY <2>2 DEF Good, Sound, Bound, Parts, Caller
<1>2. CASE o.todo # {}
  <2>1. PICK x \in o.todo :
          n = Moving([o EXCEPT !.todo = @ \ {x}], x[1], x[2], "superseded", "supersede")
    BY <1>2 DEF Onward
  <2> DEFINE S == o.todo \ {x}
             t == [o EXCEPT !.todo = S]
  <2>2. x[1] \in Contexts /\ x[2] \in Run /\ S \in SUBSET (Contexts \X Run) /\ S \subseteq o.todo
    BY DEF Call
  <2> HIDE DEF S
  <2>3. t \in Call /\ t.op = o.op /\ t.ctx = o.ctx /\ t.ans = o.ans /\ t.todo = S
    BY <2>2 DEF Call
  <2>6. n = Moving(t, x[1], x[2], "superseded", "supersede")
    BY <2>1 DEF S
  <2> HIDE DEF t
  <2>4. "superseded" \in States /\ "supersede" \in Whys
    BY DEF States, Terminal, Whys
  <2>5. /\ n \in Call /\ n.op = o.op /\ n.at = "move" /\ n.ctx = o.ctx /\ n.ans = o.ans
        /\ n.todo = S
        /\ n.move = [of |-> x[1], cur |-> x[2], to |-> "superseded", why |-> "supersede"]
    BY <2>2, <2>3, <2>4, <2>6, MovingFields
  <2> QED
    BY <2>2, <2>5 DEF Good, Sound, Bound, Parts, Caller
<1> QED
  BY <1>1, <1>2

\* The transitions that assess makes of its own run.
LEMMA AssessMoveGood ==
    ASSUME NEW o \in Call, Caller(o),
           \A x \in o.todo : x[1] \notin Asked => Clear(x[2]),
           NEW s \in Run, o.ctx \notin Asked => Clear(s),
           NEW to \in {FirstMove(o.ctx), Put(o.ctx)},
           to = Put(o.ctx) => o.ctx \in Asked
    PROVE  Good(Moving(o, o.ctx, s, to, "assess"))
<1> DEFINE n == Moving(o, o.ctx, s, to, "assess")
<1>1. /\ to \in States /\ "assess" \in Whys /\ o.ctx \in Contexts /\ to # "resolved"
      /\ o.ctx \notin Asked => to = "no-question-needed"
  BY DEF FirstMove, Put, States, Terminal, Whys, Call
<1>2. /\ n \in Call /\ n.op = o.op /\ n.at = "move" /\ n.ctx = o.ctx /\ n.ans = o.ans
      /\ n.todo = o.todo
      /\ n.move = [of |-> o.ctx, cur |-> s, to |-> to, why |-> "assess"]
  BY <1>1, MovingFields
<1> HIDE DEF n
<1>3. Good(n)
  BY <1>1, <1>2 DEF Good, Sound, Bound, Parts, Caller
<1> QED
  BY <1>3 DEF n

\* What apply does next with the session that it has.
LEMMA DecideGood ==
    ASSUME RunInv, NEW o \in Call, o.op = "apply", o.ans \in Answers, o.ctx \in Proposals,
           \A x \in o.todo : x[1] \notin Asked => Clear(x[2]),
           NEW to \in States, NEW why \in Whys
    PROVE  Good(To(Moving(o, o.ctx, run[o.ctx], to, why), "decide"))
<1> DEFINE t == Moving(o, o.ctx, run[o.ctx], to, why)
           n == To(t, "decide")
<1>1. o.ctx \in Contexts /\ run[o.ctx] \in Run
      /\ (o.ctx \notin Asked => Clear(run[o.ctx]))
  BY DEF RunInv, TypeOK, Unasked, Call
<1>2. /\ t \in Call /\ t.op = "apply" /\ t.ctx = o.ctx /\ t.ans = o.ans /\ t.todo = o.todo
      /\ t.move = [of |-> o.ctx, cur |-> run[o.ctx], to |-> to, why |-> why]
  BY <1>1, MovingFields
<1> HIDE DEF t
<1>3. /\ n \in Call /\ n.op = "apply" /\ n.at = "decide" /\ n.ctx = o.ctx
      /\ n.ans = o.ans /\ n.todo = o.todo /\ n.move = t.move
  BY <1>2, ToFields DEF Stages
<1> HIDE DEF n
<1>4. Good(n)
  BY <1>1, <1>2, <1>3 DEF Good, Sound, Bound, Parts, Clear
<1> QED
  BY <1>4 DEF n, t

\* A new assess or apply of a context without a run.
LEMMA AssessNewStep ==
    ASSUME RunInv, NEW p \in Procs, NEW op \in {"assess", "apply"}, NEW c \in Contexts,
           NEW a \in Outcome, op = "apply" => a \in Answers,
           AssessNew(p, op, c, a)
    PROVE  RunInv'
<1> DEFINE o == NewCall(op, c, a)
           n == To(o, "list")
<1>1. o \in Call /\ o.op = op /\ o.ctx = c /\ o.ans = a /\ o.todo = {}
  BY NewCallFields
<1> HIDE DEF o
<1>2. n \in Call /\ n.op = op /\ n.at = "list" /\ n.ctx = c /\ n.ans = a /\ n.todo = {}
  BY <1>1, ToFields DEF Stages
<1> HIDE DEF n
<1>3. Good(n)
  BY <1>2 DEF Good, Sound, Bound, Parts, AssessNew, Called
<1>4. Reads(p, n)
  BY DEF AssessNew, n, o
<1> QED
  BY <1>3, <1>4, ReadStep

\* The list of the runs to supersede.
LEMMA PriorReadStep ==
    ASSUME RunInv, NEW p \in Procs, PriorRead(p)
    PROVE  RunInv'
<1> DEFINE o == pend[p]
           T == Prior(o.ctx)
           t == [o EXCEPT !.todo = T]
<1>1. PICK n \in Onward(t) : Reads(p, n)
  BY DEF PriorRead
<1>2. o \in Call /\ Caller(o)
  BY DEF RunInv, TypeOK, Sound, Caller
<1>3. T \in SUBSET (Contexts \X Run) /\ \A x \in T : x[1] \notin Asked => Clear(x[2])
  BY DEF Prior, RunInv, TypeOK, Unasked
<1> HIDE DEF o, T
<1>4. t \in Call /\ t.op = o.op /\ t.ctx = o.ctx /\ t.ans = o.ans /\ t.todo = T
  BY <1>2, <1>3 DEF Call
<1> HIDE DEF t
<1>5. Good(n)
  <2>1. Caller(t)
    BY <1>2, <1>4 DEF Caller
  <2> QED
    BY <1>1, <1>3, <1>4, <2>1, OnwardGood
<1> QED
  BY <1>1, <1>5, ReadStep

\* An assess that takes up a run which was started.
LEMMA AssessResumeStep ==
    ASSUME RunInv, NEW p \in Procs, NEW op \in {"assess", "apply"}, NEW c \in Contexts,
           NEW a \in Outcome, op = "apply" => a \in Answers,
           AssessResume(p, op, c, a)
    PROVE  RunInv'
<1> DEFINE o == NewCall(op, c, a)
           n == Moving(o, c, run[c], FirstMove(c), "assess")
<1>1. o \in Call /\ o.op = op /\ o.ctx = c /\ o.ans = a /\ o.todo = {}
  BY NewCallFields
<1>2. run[c] \in Run /\ (c \notin Asked => Clear(run[c]))
  BY DEF RunInv, TypeOK, Unasked
<1>3. Reads(p, n)
  BY DEF AssessResume
<1> HIDE DEF o
<1>4. FirstMove(c) = Put(c) => c \in Asked
  BY DEF FirstMove, Put
<1>5. Caller(o)
  BY <1>1 DEF Caller, AssessResume, Called
<1>6. Good(n)
  BY <1>1, <1>2, <1>4, <1>5, AssessMoveGood
<1> QED
  BY <1>3, <1>6, ReadStep

\* apply finds its proposal assessed.
LEMMA ApplyAssessedStep ==
    ASSUME RunInv, NEW p \in Procs, NEW c \in Contexts, NEW a \in Answers,
           ApplyAssessed(p, c, a)
    PROVE  RunInv'
<1> DEFINE o == NewCall("apply", c, a)
<1>1. o \in Call /\ o.op = "apply" /\ o.ctx = c /\ o.ans = a /\ o.todo = {}
  BY NewCallFields DEF Outcome
<1>2. Reads(p, To(Moving(o, c, run[c], FirstMove(c), "assess"), "decide")) /\ c \in Proposals
  BY DEF ApplyAssessed, Called
<1>3. FirstMove(c) \in States /\ "assess" \in Whys
  BY DEF FirstMove, States, Terminal, Whys
<1> HIDE DEF o
<1>4. Good(To(Moving(o, c, run[c], FirstMove(c), "assess"), "decide"))
  BY <1>1, <1>2, <1>3, DecideGood
<1> QED
  BY <1>2, <1>4, ReadStep

-----------------------------------------------------------------------------
(* The start of a run.                                                     *)

\* The runtime looks for the Workflow.
LEMMA StartReadStep ==
    ASSUME RunInv, NEW p \in Procs, StartRead(p)
    PROVE  RunInv'
<1> DEFINE o == pend[p]
           t == To(o, "starting")
           b == ~workflow
           n == [t EXCEPT !.fresh = b]
<1>1. o \in Call /\ Sound(o) /\ Bound(o) /\ b \in BOOLEAN
  BY DEF RunInv, TypeOK
<1>2. Reads(p, n)
  BY DEF StartRead
<1> HIDE DEF o, b
<1>3. t \in Call /\ t.op = o.op /\ t.at = "starting" /\ t.ctx = o.ctx /\ t.ans = o.ans /\ t.todo = o.todo
  BY <1>1, ToFields DEF Stages
<1> HIDE DEF t
<1>4. n \in Call /\ n.op = o.op /\ n.at = "starting" /\ n.ctx = o.ctx /\ n.ans = o.ans /\ n.todo = o.todo
  BY <1>1, <1>3 DEF Call
<1> HIDE DEF n
<1>5. Good(n)
  BY <1>1, <1>4 DEF Good, Sound, Bound, Parts
<1> QED
  BY <1>2, <1>5, ReadStep

\* A call that goes on from the start of its run.
LEMMA StartedGood ==
    ASSUME NEW o \in Call, Sound(o), Bound(o)
    PROVE  Good(To(o, "started"))
<1> DEFINE n == To(o, "started")
<1>1. n \in Call /\ n.op = o.op /\ n.at = "started" /\ n.ctx = o.ctx /\ n.ans = o.ans /\ n.todo = o.todo
  BY ToFields DEF Stages
<1> HIDE DEF n
<1>2. Good(n)
  BY <1>1 DEF Good, Sound, Bound, Parts
<1> QED
  BY <1>2 DEF n

\* The run is started.
LEMMA StartCommitStep ==
    ASSUME RunInv, NEW p \in Procs, StartCommit(p)
    PROVE  RunInv'
<1> DEFINE o == pend[p]
           d == o.ctx
           r == [NoRun EXCEPT !.state = "assessing", !.rev = 1]
<1>1. o \in Call /\ Sound(o) /\ Bound(o)
  BY DEF RunInv, TypeOK
<1>2. Good(To(o, "started"))
  BY <1>1, StartedGood
<1>3. d \in Contexts
  BY <1>1 DEF Call
<1>4. r \in Run
  BY DEF Run, NoRun, States, Outcome
<1>5. /\ run' = [run EXCEPT ![d] = r] /\ run[d] = NoRun
      /\ Go(p, To(o, "started")) /\ workflow' = TRUE
      /\ UNCHANGED <<commands, made, kills, moves>>
  BY DEF StartCommit
<1>6. r.rev = run[d].rev + 1 /\ run[d].state # "resolved" /\ Clear(r)
  BY <1>5 DEF NoRun, Clear
<1>7. workflow' \in BOOLEAN /\ commands' \subseteq Command
  BY <1>5 DEF RunInv, TypeOK
<1> HIDE DEF o, d, r
<1> QED
  BY <1>2, <1>3, <1>4, <1>5, <1>6, <1>7, RunStep

\* The run was started by the same command before.
LEMMA StartReplayStep ==
    ASSUME RunInv, NEW p \in Procs, StartReplay(p)
    PROVE  RunInv'
<1>1. pend[p] \in Call /\ Sound(pend[p]) /\ Bound(pend[p])
  BY DEF RunInv, TypeOK
<1>2. Good(To(pend[p], "started"))
  BY <1>1, StartedGood
<1>3. Reads(p, To(pend[p], "started"))
  BY DEF StartReplay
<1> QED
  BY <1>2, <1>3, ReadStep

\* A call that fails.
LEMMA FailStep ==
    ASSUME RunInv, NEW p \in Procs, Reads(p, Idle)
    PROVE  RunInv'
  BY IdleGood, ReadStep

\* The session that was started.
LEMMA StartedStep ==
    ASSUME RunInv, NEW p \in Procs, Started(p)
    PROVE  RunInv'
<1> DEFINE o == pend[p]
           s == run[o.ctx]
<1>1. o \in Call /\ Sound(o) /\ Bound(o)
  BY DEF RunInv, TypeOK
<1>2. o.ctx \in Contexts
  BY <1>1 DEF Call
<1>3. s \in Run /\ (o.ctx \notin Asked => Clear(s))
  BY <1>2 DEF RunInv, TypeOK, Unasked
<1>4. FirstMove(o.ctx) = Put(o.ctx) => o.ctx \in Asked
  BY DEF FirstMove, Put
<1>5. \/ Reads(p, Idle)
      \/ Reads(p, Moving(o, o.ctx, s, FirstMove(o.ctx), "assess"))
  BY DEF Started
<1>6. Caller(o)
      /\ \A x \in o.todo : x[1] \notin Asked => Clear(x[2])
  BY <1>1 DEF Sound, Bound, Caller
<1> HIDE DEF o, s
<1>7. Good(Moving(o, o.ctx, s, FirstMove(o.ctx), "assess"))
  BY <1>1, <1>3, <1>4, <1>6, AssessMoveGood
<1> QED
  BY <1>5, <1>7, FailStep, ReadStep

-----------------------------------------------------------------------------
(* A transition.                                                           *)

\* The runtime reads the run that is to move.
LEMMA MoveReadStep ==
    ASSUME RunInv, NEW p \in Procs, MoveRead(p)
    PROVE  RunInv'
<1> DEFINE o == pend[p]
           r == run[o.move.of]
           t == To(o, "commit")
           n == [t EXCEPT !.seen = r]
<1>1. o \in Call /\ Sound(o) /\ Bound(o) /\ o.at = "move"
  BY DEF RunInv, TypeOK, MoveRead
<1>2. r \in Run /\ r.rev \in Nat
  BY <1>1 DEF RunInv, TypeOK, Call, Move, Run
<1>3. \/ Reads(p, Idle)
      \/ <<r.state, o.move.to>> \in Pairs /\ Reads(p, n)
  BY DEF MoveRead
<1>4. r = run[o.move.of]
  OBVIOUS
<1> HIDE DEF o, r
<1>5. t \in Call /\ t.op = o.op /\ t.at = "commit" /\ t.ctx = o.ctx /\ t.ans = o.ans
      /\ t.todo = o.todo /\ t.move = o.move
  BY <1>1, ToFields DEF Stages
<1> HIDE DEF t
<1>6. n \in Call /\ n.op = o.op /\ n.at = "commit" /\ n.ctx = o.ctx /\ n.ans = o.ans
      /\ n.todo = o.todo /\ n.move = o.move /\ n.seen = r
  BY <1>2, <1>5 DEF Call
<1> HIDE DEF n
<1>7. CASE <<r.state, o.move.to>> \in Pairs /\ Reads(p, n)
  <2>1. Sound(n)
    BY <1>1, <1>2, <1>4, <1>6, <1>7 DEF Sound, Parts
  <2>2. Bound(n)
    BY <1>1, <1>6 DEF Bound, Parts
  <2> QED
    BY <2>1, <2>2, <1>6, <1>7, ReadStep DEF Good
<1> QED
  BY <1>3, <1>7, FailStep

\* What follows a transition.
LEMMA AfterGood ==
    ASSUME NEW o \in Call, Sound(o), Bound(o), o.at = "commit", NEW n \in After(o)
    PROVE  Good(n)
<1>1. CASE o.move.why = "supersede"
  <2>1. n \in Onward(o)
    BY <1>1 DEF After
  <2> QED
    BY <2>1, OnwardGood DEF Sound, Bound, Caller
<1>2. CASE o.move.why # "supersede"
  <2>1. n = To(o, "moved")
    BY <1>2 DEF After
  <2>2. n \in Call /\ n.op = o.op /\ n.at = "moved" /\ n.ctx = o.ctx /\ n.ans = o.ans
        /\ n.todo = o.todo /\ n.move = o.move
    BY <2>1, ToFields DEF Stages
  <2> QED
    BY <2>2, <1>2 DEF Good, Sound, Bound, Parts
<1> QED
  BY <1>1, <1>2

\* A run moves along the Workflow.
LEMMA MoveCommitFields ==
    ASSUME RunInv, NEW p \in Procs, MoveCommit(p)
    PROVE  LET o == pend[p]
               d == o.move.of
               r == Content(o)
           IN /\ d \in Contexts /\ r \in Run
              /\ run' = [run EXCEPT ![d] = r]
              /\ run[d].rev = o.seen.rev /\ run[d].rev \in Nat
              /\ r.rev = run[d].rev + 1 /\ r.state = o.move.to
              /\ <<run[d].state, r.state>> \in Pairs
              /\ Sent(o) \in Command
<1> DEFINE o == pend[p]
           d == o.move.of
<1>1. o \in Call /\ Sound(o) /\ o.at = "commit"
  BY DEF RunInv, TypeOK, MoveCommit
<1>2. run[d].rev = o.seen.rev
      /\ run' = [run EXCEPT ![d] = Content(o)]
  BY DEF MoveCommit
<1>3. d \in Contexts /\ o.move.to \in States /\ o.move.cur \in Run /\ o.seen \in Run
      /\ o.move.why \in Whys /\ o.ctx \in Contexts /\ o.ans \in Outcome
  BY <1>1 DEF Call, Move, Whys
<1>4. run[d] \in Run
  BY <1>3 DEF RunInv, TypeOK
<1> HIDE DEF o
<1>5. Resolution(o) \in Outcome
  <2>1. CASE o.move.why = "supersede"
    BY <2>1, <1>3 DEF Resolution, Run
  <2>2. CASE o.move.why = "assess"
    BY <2>2 DEF Resolution, Outcome
  <2>3. CASE o.move.why = "respond"
    BY <2>3, <1>3 DEF Resolution
  <2>4. CASE o.move.why = "command"
    BY <2>4, <1>1 DEF Sound
  <2> QED
    BY <2>1, <2>2, <2>3, <2>4, <1>3 DEF Whys
<1>6. Successor(o) \in SUBSET Contexts /\ Sheet(o) \in BOOLEAN
  BY <1>3 DEF Successor, Sheet, Run
<1>7. o.seen.rev \in Nat /\ o.move.cur.rev \in Nat /\ o.seen.state \in States \cup {"none"}
  BY <1>3 DEF Run
<1>8. o.seen = run[d] /\ <<o.seen.state, o.move.to>> \in Pairs
  BY <1>1, <1>2 DEF Sound
<1>9. Sent(o) \in Command
  <2>1. o.move.why \in {"supersede", "assess", "respond"}
    BY <1>1, <1>3 DEF Sound, Whys
  <2> QED
    BY <2>1, <1>3, <1>5, <1>6, <1>7 DEF Sent, Command
<1>10. Content(o) \in Run /\ Content(o).rev = o.seen.rev + 1 /\ Content(o).state = o.move.to
  BY <1>3, <1>5, <1>6, <1>7 DEF Run, Content
<1> QED
  BY <1>2, <1>3, <1>7, <1>8, <1>9, <1>10 DEF o

\* The transition is committed.
LEMMA MoveCommitStep ==
    ASSUME RunInv, NEW p \in Procs, MoveCommit(p)
    PROVE  RunInv'
<1> DEFINE o == pend[p]
           d == o.move.of
           r == Content(o)
<1>1. o \in Call /\ Sound(o) /\ Bound(o) /\ o.at = "commit"
  BY DEF RunInv, TypeOK, MoveCommit
<1>2. /\ d \in Contexts /\ r \in Run
      /\ run' = [run EXCEPT ![d] = r]
      /\ r.rev = run[d].rev + 1
      /\ <<run[d].state, o.move.to>> \in Pairs
      /\ Sent(o) \in Command
  BY MoveCommitFields
<1>3. PICK n \in After(o) : Go(p, n)
  BY DEF MoveCommit
<1>4. Good(n)
  BY <1>1, <1>3, AfterGood
<1>5. commands' = commands \cup {Sent(o)} /\ UNCHANGED <<workflow, made, kills, moves>>
  BY DEF MoveCommit
<1>6. commands' \subseteq Command /\ workflow' \in BOOLEAN
  BY <1>2, <1>5 DEF RunInv, TypeOK
<1>7. run[d].state # "resolved"
  BY <1>2 DEF Pairs, Terminal
<1> HIDE DEF o, d
<1>8. ASSUME d \notin Asked
      PROVE  Clear(r)
  <2>1. /\ o.move.why # "respond" /\ Clear(o.move.cur)
        /\ o.move.to \in {"no-question-needed", "superseded"}
        /\ o.move.why = "assess" => o.move.to = "no-question-needed"
    BY <1>1, <1>8 DEF Bound, d
  <2>2. o.move.why \in {"supersede", "assess"}
    BY <1>1, <2>1 DEF Call, Move, Sound
  <2>3. r.res = Resolution(o) /\ r.sheet = Sheet(o)
    BY DEF Content
  <2> QED
    BY <2>1, <2>2, <2>3 DEF Resolution, Sheet, Clear
<1> HIDE DEF r
<1> QED
  BY <1>2, <1>3, <1>4, <1>5, <1>6, <1>7, <1>8, RunStep

\* The transition was committed before, by the same command.
LEMMA MoveReplayStep ==
    ASSUME RunInv, NEW p \in Procs, MoveReplay(p)
    PROVE  RunInv'
<1>1. pend[p] \in Call /\ Sound(pend[p]) /\ Bound(pend[p]) /\ pend[p].at = "commit"
  BY DEF RunInv, TypeOK, MoveReplay
<1>2. PICK n \in After(pend[p]) : Reads(p, n)
  BY DEF MoveReplay
<1> QED
  BY <1>1, <1>2, AfterGood, ReadStep

\* The session that was moved.
LEMMA MovedStep ==
    ASSUME RunInv, NEW p \in Procs, Moved(p)
    PROVE  RunInv'
<1> DEFINE o == pend[p]
           s == run[o.ctx]
<1>1. o \in Call /\ Sound(o) /\ Bound(o) /\ o.at = "moved"
  BY DEF RunInv, TypeOK, Moved
<1>2. o.ctx \in Contexts /\ o.move.to \in States /\ o.move.why \in Whys
  BY <1>1 DEF Call, Move, Whys
<1>3. s \in Run /\ (o.ctx \notin Asked => Clear(s))
  BY <1>2 DEF RunInv, TypeOK, Unasked
<1>4. \/ Reads(p, Idle)
      \/ /\ o.move.to = "question-drafted"
         /\ Reads(p, Moving(o, o.ctx, s, Put(o.ctx), "assess"))
      \/ /\ o.op = "apply"
         /\ Reads(p, To(Moving(o, o.ctx, s, o.move.to, o.move.why), "decide"))
  BY DEF Moved
<1>5. Caller(o)
      /\ \A x \in o.todo : x[1] \notin Asked => Clear(x[2])
  BY <1>1 DEF Sound, Bound, Caller
<1>6. o.move.to = "question-drafted" => o.ctx \in Asked
  BY <1>1 DEF Bound
<1>7. s = run[o.ctx]
  OBVIOUS
<1>8. o.op = "apply" => o.ctx \in Proposals
  BY <1>1 DEF Sound
<1> HIDE DEF o, s
<1>9. CASE o.move.to = "question-drafted" /\ Reads(p, Moving(o, o.ctx, s, Put(o.ctx), "assess"))
  <2>1. Good(Moving(o, o.ctx, s, Put(o.ctx), "assess"))
    BY <1>1, <1>3, <1>5, <1>6, <1>9, AssessMoveGood
  <2> QED
    BY <2>1, <1>9, ReadStep
<1>10. CASE /\ o.op = "apply"
            /\ Reads(p, To(Moving(o, o.ctx, s, o.move.to, o.move.why), "decide"))
  <2>1. Good(To(Moving(o, o.ctx, s, o.move.to, o.move.why), "decide"))
    BY <1>1, <1>2, <1>5, <1>7, <1>8, <1>10, DecideGood DEF Caller
  <2> QED
    BY <2>1, <1>10, ReadStep
<1> QED
  BY <1>4, <1>9, <1>10, FailStep

-----------------------------------------------------------------------------
(* A response.                                                             *)

\* The transition by which a response is recorded.
LEMMA ResponseGood ==
    ASSUME RunInv, NEW o \in Call, o.ans \in Answers, Caller(o), Takes(run[o.ctx], o.ans),
           \A x \in o.todo : x[1] \notin Asked => Clear(x[2])
    PROVE  Good(Moving(o, o.ctx, run[o.ctx], Answered(o.ctx, o.ans), "respond"))
<1> DEFINE to == Answered(o.ctx, o.ans)
           s == run[o.ctx]
           n == Moving(o, o.ctx, s, to, "respond")
<1>1. to \in States /\ "respond" \in Whys
  BY DEF Answered, States, Terminal, Whys
<1>2. o.ctx \in Contexts /\ s \in Run
  BY DEF RunInv, TypeOK, Call
<1>3. o.ctx \in Asked
  BY <1>2 DEF Takes, RunInv, Unasked, Clear
<1> HIDE DEF to, s
<1>4. /\ n \in Call /\ n.op = o.op /\ n.at = "move" /\ n.ctx = o.ctx /\ n.ans = o.ans
      /\ n.todo = o.todo
      /\ n.move = [of |-> o.ctx, cur |-> s, to |-> to, why |-> "respond"]
  BY <1>1, <1>2, MovingFields
<1> HIDE DEF n
<1>5. Good(n)
  BY <1>1, <1>3, <1>4 DEF Good, Sound, Bound, Parts, Caller
<1> QED
  BY <1>5 DEF n, to, s

\* A call of respond.
LEMMA RespondStep ==
    ASSUME RunInv, NEW p \in Procs, NEW c \in Contexts, NEW a \in Answers, Respond(p, c, a)
    PROVE  RunInv'
<1> DEFINE o == NewCall("respond", c, a)
<1>1. o \in Call /\ o.op = "respond" /\ o.ctx = c /\ o.ans = a /\ o.todo = {}
  BY NewCallFields DEF Outcome
<1>2. Takes(run[c], a) /\ Reads(p, Moving(o, c, run[c], Answered(c, a), "respond"))
  BY DEF Respond
<1> HIDE DEF o
<1>3. Good(Moving(o, c, run[c], Answered(c, a), "respond"))
  <2>1. Caller(o)
    BY <1>1 DEF Caller
  <2> QED
    BY <1>1, <1>2, <2>1, ResponseGood
<1> QED
  BY <1>2, <1>3, ReadStep

-----------------------------------------------------------------------------
(* The steps of apply.                                                     *)

\* apply records its response.
LEMMA ApplyRespondStep ==
    ASSUME RunInv, NEW p \in Procs, ApplyRespond(p)
    PROVE  RunInv'
<1> DEFINE o == pend[p]
<1>1. o \in Call /\ Sound(o) /\ Bound(o) /\ o.at = "decide"
  BY DEF RunInv, TypeOK, ApplyRespond
<1>2. /\ Takes(run[o.ctx], o.ans)
      /\ Reads(p, Moving(o, o.ctx, run[o.ctx], Answered(o.ctx, o.ans), "respond"))
  BY DEF ApplyRespond
<1> HIDE DEF o
<1>3. o.ans \in Answers /\ Caller(o)
      /\ \A x \in o.todo : x[1] \notin Asked => Clear(x[2])
  BY <1>1 DEF Sound, Bound, Caller
<1>4. Good(Moving(o, o.ctx, run[o.ctx], Answered(o.ctx, o.ans), "respond"))
  BY <1>1, <1>2, <1>3, ResponseGood
<1> QED
  BY <1>2, <1>4, ReadStep

\* A stage at which apply makes something, once what comes before is made.
LEMMA PartGood ==
    ASSUME NEW o \in Call, Sound(o), Bound(o), o.at \in Parts \cup {"decide"}, Settled(o),
           o.ctx \in Protected \cup Direction => o.move.cur.res \in Explicit,
           NEW k \in Parts,
           k = "task" => made["goal"][o.ctx] # {},
           k # "decision" /\ o.ctx \in Protected => made["decision"][o.ctx] # {}
    PROVE  Good(To(o, k))
<1> DEFINE n == To(o, k)
<1>1. /\ n \in Call /\ n.op = o.op /\ n.at = k /\ n.ctx = o.ctx /\ n.ans = o.ans
      /\ n.todo = o.todo /\ n.move = o.move
  BY ToFields DEF Stages, Parts
<1> HIDE DEF n
<1>2. Sound(n)
  BY <1>1 DEF Sound, Parts
<1>3. Bound(n)
  BY <1>1 DEF Bound, Settled, Parts
<1> QED
  BY <1>1, <1>2, <1>3 DEF Good, n

\* apply goes on with a session that is resolved.
LEMMA ApplyAcceptStep ==
    ASSUME RunInv, NEW p \in Procs, ApplyAccept(p)
    PROVE  RunInv'
<1> DEFINE o == pend[p]
           k == IF o.ctx \in Protected THEN "decision" ELSE "goal"
<1>1. o \in Call /\ Sound(o) /\ Bound(o) /\ o.at = "decide"
  BY DEF RunInv, TypeOK, ApplyAccept
<1>2. /\ Settled(o) /\ Reads(p, To(o, k))
      /\ o.ctx \in Protected \cup Direction => o.move.cur.res \in Explicit
  BY DEF ApplyAccept
<1>3. k \in Parts /\ k # "task" /\ (k # "decision" => o.ctx \notin Protected)
  BY DEF Parts
<1> HIDE DEF o, k
<1>4. Good(To(o, k))
  BY <1>1, <1>2, <1>3, PartGood
<1> QED
  BY <1>2, <1>4, ReadStep

\* What a call holds stays true when more is made.
LEMMA MadeKept ==
    ASSUME NEW o \in Call, Sound(o), Bound(o), run' = run,
           \A j \in Parts, d \in Proposals : made[j][d] # {} => made'[j][d] # {}
    PROVE  (Sound(o) /\ Bound(o))'
<1>1. Sound(o)'
  BY DEF Sound
<1>2. o.at \in Parts => o.ctx \in Proposals
  BY DEF Sound
<1>3. Bound(o)'
  BY <1>2 DEF Bound, Settled, Parts
<1> QED
  BY <1>1, <1>3

\* What is made has the outcome that the run has been resolved with.
LEMMA MakeStep ==
    ASSUME RunInv, NEW p \in Procs, Make(p)
    PROVE  RunInv'
<1> DEFINE o == pend[p]
           k == o.at
           c == o.ctx
           v == o.move.cur.res
           new == IF made[k][c] = {} THEN {v} ELSE made[k][c]
<1>1. o \in Call /\ Sound(o) /\ Bound(o) /\ k \in Parts
  BY DEF RunInv, TypeOK, Make
<1>2. c \in Proposals /\ c \in Contexts /\ v \in Outcome
  BY <1>1, ContextsAssumption DEF Sound, Call, Move, Run
<1>3. made' = [made EXCEPT ![k][c] = new]
      /\ UNCHANGED <<run, workflow, commands, kills, moves>>
  BY DEF Make
<1>4. /\ c \in Asked => run[c].state = "resolved"
      /\ run[c].res = v
  <2>1. CASE c \in Asked
    <3>1. o.move.cur.state = "resolved"
      BY <2>1, <1>1 DEF Bound, Settled
    <3>2. o.move.cur = run[c]
      BY <3>1, <1>1 DEF Bound
    <3> QED
      BY <3>1, <3>2
  <2>2. CASE c \notin Asked
    BY <2>2, <1>1, <1>2 DEF Bound, RunInv, Unasked, Clear
  <2> QED
    BY <2>1, <2>2
<1>5. new = {v}
  BY <1>1, <1>2, <1>4 DEF RunInv, MadeAsResolved
<1>6. /\ c \notin Protected \/ k = "decision" \/ made["decision"][c] # {}
      /\ k # "task" \/ made["goal"][c] # {}
  BY <1>1 DEF Bound
<1>7. PICK w \in {"goal", "task", "end"} :
        /\ Go(p, IF w = "end" THEN Idle ELSE To(o, w))
        /\ w = "goal" => k = "decision"
        /\ w = "task" => k = "goal"
  <2>1. Go(p, CASE k = "task" \/ ~(made[k][c] \subseteq {v}) -> Idle
                [] k = "decision" -> To(o, "goal")
                [] k = "goal"     -> To(o, "task"))
    BY DEF Make
  <2>2. CASE k = "task" \/ ~(made[k][c] \subseteq {v})
    <3>1. Go(p, Idle)
      BY <1>5, <2>1, <2>2
    <3> QED
      BY <3>1
  <2>3. CASE ~(k = "task" \/ ~(made[k][c] \subseteq {v})) /\ k = "decision"
    BY <2>1, <2>3
  <2>4. CASE ~(k = "task" \/ ~(made[k][c] \subseteq {v})) /\ k = "goal"
    BY <2>1, <2>4
  <2> QED
    BY <2>2, <2>3, <2>4, <1>1 DEF Parts
<1>8. made \in [Parts -> [Proposals -> SUBSET Outcome]]
  BY DEF RunInv, TypeOK
<1>9. \A j \in Parts, d \in Proposals :
        made'[j][d] = IF j = k /\ d = c THEN {v} ELSE made[j][d]
  BY <1>1, <1>2, <1>3, <1>5, <1>8
<1>10. made' \in [Parts -> [Proposals -> SUBSET Outcome]]
  BY <1>1, <1>2, <1>3, <1>5, <1>8
<1> HIDE DEF v, new
<1>11. \A j \in Parts, d \in Proposals : made[j][d] # {} => made'[j][d] # {}
  BY <1>9
<1>12. made'[k][c] # {}
  BY <1>1, <1>2, <1>9
<1>14. ASSUME NEW q \in Procs
       PROVE  pend'[q] \in Call /\ (Sound(pend[q]) /\ Bound(pend[q]))'
  <2>1. CASE q # p
    <3>1. pend'[q] = pend[q] /\ Good(pend[q])
      BY <2>1, <1>7 DEF Go, Good, RunInv, TypeOK
    <3>2. PICK x : x = pend[q]
      OBVIOUS
    <3>3. (Sound(x) /\ Bound(x))'
      BY <3>1, <3>2, <1>3, <1>11, MadeKept DEF Good
    <3> QED
      BY <3>1, <3>2, <3>3 DEF Good, Sound, Bound, Settled
  <2>2. CASE q = p /\ w = "end"
    <3>1. pend'[q] = Idle
      BY <2>2, <1>7 DEF Go, RunInv, TypeOK
    <3>2. PICK x : x = Idle
      OBVIOUS
    <3>3. (Sound(x) /\ Bound(x))' /\ x \in Call
      BY <3>2, <1>3, <1>11, IdleGood, MadeKept DEF Good
    <3> QED
      BY <3>1, <3>2, <3>3 DEF Sound, Bound, Settled
  <2>3. CASE q = p /\ w # "end"
    <3>1. pend'[q] = To(o, w)
      BY <2>3, <1>7 DEF Go, RunInv, TypeOK
    <3>2. PICK x : x = pend'[q]
      OBVIOUS
    <3>3. /\ x \in Call /\ x.op = o.op /\ x.at = w /\ x.ctx = c /\ x.ans = o.ans
          /\ x.todo = o.todo /\ x.move = o.move
      BY <3>1, <3>2, <1>1, <1>7, <2>3, ToFields DEF Stages
    <3>4. w \in {"goal", "task"}
      BY <1>7, <2>3
    <3>5. Sound(x)'
      BY <3>3, <3>4, <1>1 DEF Sound, Parts
    <3>6. /\ w = "task" => made'["goal"][c] # {}
          /\ c \in Protected => made'["decision"][c] # {}
      BY <1>1, <1>2, <1>6, <1>7, <1>11, <1>12, <3>4 DEF Parts
    <3>7. Bound(x)'
      BY <3>3, <3>4, <3>6, <1>1, <1>3 DEF Bound, Settled, Parts
    <3> QED
      BY <3>2, <3>3, <3>5, <3>7 DEF Sound, Bound, Settled
  <2> QED
    BY <2>1, <2>2, <2>3
<1>15. pend' \in [Procs -> Call]
  BY <1>7, <1>14 DEF Go, RunInv, TypeOK
<1>16. TypeOK'
  BY <1>3, <1>10, <1>14, <1>15 DEF RunInv, TypeOK, Sound, Parts
<1>13. c \in Protected \cup Direction => v \in Explicit
  BY <1>1 DEF Bound, v
<1>17. Unasked' /\ NothingUnapproved'
  <2>1. Unasked'
    BY <1>3 DEF RunInv, Unasked, Clear
  <2>2. NothingUnapproved'
    BY <1>9, <1>13 DEF RunInv, NothingUnapproved
  <2> QED
    BY <2>1, <2>2
<1>18. ASSUME NEW d \in Proposals, NEW j \in Parts, made'[j][d] # {}
       PROVE  /\ d \in Asked => run[d].state = "resolved"
              /\ made'[j][d] = {run[d].res}
              /\ j = "task" => made'["goal"][d] # {}
              /\ j # "decision" /\ d \in Protected => made'["decision"][d] # {}
  <2>1. CASE j = k /\ d = c
    <3>1. made'[j][d] = {v}
      BY <2>1, <1>9
    <3> QED
      BY <2>1, <3>1, <1>2, <1>4, <1>6, <1>11 DEF Parts, v
  <2>2. CASE ~(j = k /\ d = c)
    <3>1. made'[j][d] = made[j][d]
      BY <2>2, <1>9
    <3> QED
      BY <3>1, <1>11, <1>18 DEF RunInv, MadeAsResolved, Parts
  <2> QED
    BY <2>1, <2>2
<1>19. MadeAsResolved'
  BY <1>3, <1>18 DEF MadeAsResolved
<1> QED
  BY <1>14, <1>16, <1>17, <1>19 DEF RunInv

-----------------------------------------------------------------------------
(* The portable command.                                                   *)

\* The command asks for an edge that the run has.
LEMMA CommandReadStep ==
    ASSUME RunInv, NEW p \in Procs, NEW c \in Contexts, NEW to \in States,
           CommandRead(p, c, to)
    PROVE  RunInv'
<1> DEFINE o == NewCall("transition", c, NoAnswer)
           r == run[c]
           m == Moving(o, c, r, to, "command")
           t == To(m, "transition")
           n == [t EXCEPT !.seen = r]
<1>1. r \in Run /\ r.rev \in Nat
  BY DEF RunInv, TypeOK, Run
<1>2. o \in Call /\ o.op = "transition" /\ o.ctx = c /\ o.todo = {}
  BY NewCallFields DEF Outcome
<1>3. <<r.state, to>> \in Pairs /\ Go(p, n) /\ moves' = moves + 1
      /\ UNCHANGED <<run, workflow, commands, made, kills>>
  BY DEF CommandRead
<1>4. r = run[c] /\ "command" \in Whys
  BY DEF Whys
<1> HIDE DEF o, r
<1>5. /\ m \in Call /\ m.op = "transition" /\ m.ctx = c /\ m.todo = {}
      /\ m.move = [of |-> c, cur |-> r, to |-> to, why |-> "command"]
  BY <1>1, <1>2, <1>4, MovingFields
<1> HIDE DEF m
<1>6. /\ t \in Call /\ t.op = "transition" /\ t.at = "transition" /\ t.ctx = c
      /\ t.todo = {} /\ t.move = m.move
  BY <1>5, ToFields DEF Stages
<1> HIDE DEF t
<1>7. /\ n \in Call /\ n.op = "transition" /\ n.at = "transition" /\ n.ctx = c
      /\ n.todo = {} /\ n.move = m.move /\ n.seen = r
  BY <1>1, <1>6 DEF Call
<1> HIDE DEF n
<1>8. Good(n)
  BY <1>1, <1>3, <1>4, <1>5, <1>7 DEF Good, Sound, Bound, Parts
<1>9. kills' \in Nat /\ moves' \in Nat
  BY <1>3 DEF RunInv, TypeOK
<1> QED
  BY <1>3, <1>8, <1>9, StillStep

\* The run is as the command read it.
LEMMA CommandCommitFields ==
    ASSUME RunInv, NEW p \in Procs, CommandCommit(p)
    PROVE  LET o == pend[p]
               d == o.ctx
               r == Content(o)
           IN /\ d \in Contexts /\ r \in Run
              /\ run' = [run EXCEPT ![d] = r]
              /\ r.rev = run[d].rev + 1
              /\ <<run[d].state, r.state>> \in Pairs
              /\ r.res = run[d].res /\ r.sheet = run[d].sheet
<1> DEFINE o == pend[p]
           d == o.ctx
<1>1. o \in Call /\ Sound(o) /\ Bound(o) /\ o.at = "transition"
  BY DEF RunInv, TypeOK, CommandCommit
<1>2. run[d].rev = o.seen.rev /\ run' = [run EXCEPT ![d] = Content(o)]
  BY DEF CommandCommit
<1>3. /\ d \in Contexts /\ o.move.to \in States /\ o.seen \in Run
      /\ o.move.of = d /\ o.move.cur = o.seen /\ o.move.why = "command"
  BY <1>1 DEF Call, Move, Bound
<1>4. o.seen = run[d] /\ <<o.seen.state, o.move.to>> \in Pairs
  BY <1>1, <1>2, <1>3 DEF Sound
<1> HIDE DEF o
<1>5. /\ Resolution(o) = run[d].res /\ Sheet(o) = run[d].sheet /\ Successor(o) = {}
  BY <1>3, <1>4 DEF Resolution, Sheet, Successor
<1>6. Content(o) \in Run
  BY <1>3, <1>4, <1>5 DEF Content, Run
<1>7. /\ Content(o).rev = run[d].rev + 1 /\ Content(o).state = o.move.to
      /\ Content(o).res = run[d].res /\ Content(o).sheet = run[d].sheet
  BY <1>4, <1>5 DEF Content
<1> QED
  BY <1>2, <1>3, <1>4, <1>6, <1>7 DEF o

\* The command moves the run and leaves its content.
LEMMA CommandCommitStep ==
    ASSUME RunInv, NEW p \in Procs, CommandCommit(p)
    PROVE  RunInv'
<1> DEFINE o == pend[p]
           d == o.ctx
           r == Content(o)
<1>1. /\ d \in Contexts /\ r \in Run
      /\ run' = [run EXCEPT ![d] = r]
      /\ r.rev = run[d].rev + 1
      /\ <<run[d].state, r.state>> \in Pairs
      /\ r.res = run[d].res /\ r.sheet = run[d].sheet
  BY CommandCommitFields
<1>2. Go(p, Idle) /\ UNCHANGED <<workflow, commands, made, kills, moves>>
  BY DEF CommandCommit, Stop
<1> HIDE DEF o, d, r
<1>3. run[d].state # "resolved"
  BY <1>1 DEF Pairs, Terminal
<1>4. d \notin Asked => Clear(r)
  BY <1>1 DEF RunInv, Unasked, Clear
<1>5. workflow' \in BOOLEAN /\ commands' \subseteq Command
  BY <1>2 DEF RunInv, TypeOK
<1> QED
  BY <1>1, <1>2, <1>3, <1>4, <1>5, IdleGood, RunStep

-----------------------------------------------------------------------------
(* The specification.                                                      *)

\* A process that is killed.
LEMMA KillStep ==
    ASSUME RunInv, NEW p \in Procs, Kill(p)
    PROVE  RunInv'
<1>1. Go(p, Idle) /\ UNCHANGED <<run, workflow, commands, made>>
      /\ kills' \in Nat /\ moves' \in Nat
  BY DEF Kill, Stop, RunInv, TypeOK
<1> QED
  BY <1>1, IdleGood, StillStep

\* A call that is under way keeps the invariant.
LEMMA WorkingStep ==
    ASSUME RunInv, NEW p \in Procs, Working(p)
    PROVE  RunInv'
<1>1. CASE PriorRead(p)
  BY <1>1, PriorReadStep
<1>2. CASE StartRead(p)
  BY <1>2, StartReadStep
<1>3. CASE StartCommit(p)
  BY <1>3, StartCommitStep
<1>4. CASE StartReplay(p)
  BY <1>4, StartReplayStep
<1>5. CASE StartFailed(p) \/ MoveFailed(p) \/ ApplyRefused(p) \/ CommandFailed(p)
  BY <1>5, FailStep DEF StartFailed, MoveFailed, ApplyRefused, CommandFailed
<1>6. CASE Started(p)
  BY <1>6, StartedStep
<1>7. CASE MoveRead(p)
  BY <1>7, MoveReadStep
<1>8. CASE MoveCommit(p)
  BY <1>8, MoveCommitStep
<1>9. CASE MoveReplay(p)
  BY <1>9, MoveReplayStep
<1>10. CASE Moved(p)
  BY <1>10, MovedStep
<1>11. CASE ApplyAccept(p)
  BY <1>11, ApplyAcceptStep
<1>12. CASE ApplyRespond(p)
  BY <1>12, ApplyRespondStep
<1>13. CASE Make(p)
  BY <1>13, MakeStep
<1>14. CASE CommandCommit(p)
  BY <1>14, CommandCommitStep
<1> QED
  BY <1>1, <1>2, <1>3, <1>4, <1>5, <1>6, <1>7, <1>8, <1>9, <1>10, <1>11, <1>12, <1>13,
     <1>14 DEF Working

\* The invariant holds at first.
LEMMA InitRunInv == Init => RunInv
<1> SUFFICES ASSUME Init PROVE RunInv
  OBVIOUS
<1>1. \A p \in Procs : pend[p] \in Call /\ Sound(pend[p]) /\ Bound(pend[p])
  BY IdleGood DEF Init, Good
<1>2. pend \in [Procs -> Call]
  BY <1>1 DEF Init
<1>3. run \in [Contexts -> Run] /\ made \in [Parts -> [Proposals -> SUBSET Outcome]]
  BY NoRunType DEF Init
<1>4. TypeOK
  BY <1>1, <1>2, <1>3 DEF Init, TypeOK, Sound
<1>5. Unasked /\ NothingUnapproved /\ MadeAsResolved
  BY DEF Init, NoRun, Unasked, NothingUnapproved, MadeAsResolved, Clear
<1> QED
  BY <1>1, <1>4, <1>5 DEF RunInv

\* Every step keeps the invariant.
LEMMA NextRunInv == RunInv /\ [Next]_vars => RunInv'
<1> SUFFICES ASSUME RunInv, [Next]_vars PROVE RunInv'
  OBVIOUS
<1>1. CASE UNCHANGED vars
  BY <1>1 DEF vars, RunInv, TypeOK, Sound, Bound, Settled, Unasked, NothingUnapproved,
              MadeAsResolved, Clear
<1>2. ASSUME NEW p \in Procs, Working(p) \/ Kill(p)
      PROVE  RunInv'
  BY <1>2, WorkingStep, KillStep
<1>3. ASSUME NEW p \in Procs, NEW c \in Contexts, Assess(p, c)
      PROVE  RunInv'
  <2>1. NoAnswer \in Outcome
    BY DEF Outcome
  <2> QED
    BY <1>3, <2>1, AssessNewStep, AssessResumeStep DEF Assess
<1>4. ASSUME NEW p \in Procs, NEW c \in Contexts, NEW a \in Answers,
             \/ Respond(p, c, a)
             \/ AssessNew(p, "apply", c, a)
             \/ AssessResume(p, "apply", c, a)
             \/ ApplyAssessed(p, c, a)
      PROVE  RunInv'
  <2>1. a \in Outcome
    BY DEF Outcome
  <2> QED
    BY <1>4, <2>1, RespondStep, AssessNewStep, AssessResumeStep, ApplyAssessedStep
<1>5. ASSUME NEW p \in Procs, NEW c \in Contexts, NEW to \in States, CommandRead(p, c, to)
      PROVE  RunInv'
  BY <1>5, CommandReadStep
<1> QED
  BY <1>1, <1>2, <1>3, <1>4, <1>5 DEF Next

\* The invariant holds in every reachable state.
LEMMA RunInvHolds == Spec => []RunInv
  BY InitRunInv, NextRunInv, PTL DEF Spec

\* Every record, and what each call holds, keep their types, for any number of
\* callers of the service.
THEOREM ClarificationTypeCorrect == Spec => []TypeOK
<1>1. RunInv => TypeOK
  BY DEF RunInv
<1> QED
  BY <1>1, RunInvHolds, PTL

\* Nothing is made for a protected proposal, or for a choice of direction, without the
\* user's own response, also when the portable command resolves the run without one.
THEOREM ApprovalNeeded == Spec => []NothingUnapproved
<1>1. RunInv => NothingUnapproved
  BY DEF RunInv
<1> QED
  BY <1>1, RunInvHolds, PTL

\* Decision, Goal and Task of a proposal have the one outcome that its run was
\* resolved with, and are made in that order, however often apply is called, with
\* whatever responses, and wherever it is killed.
THEOREM AppliedAsResolved == Spec => []MadeAsResolved
<1>1. RunInv => MadeAsResolved
  BY DEF RunInv
<1> QED
  BY <1>1, RunInvHolds, PTL

\* A step moves a run along the Workflow or not at all.
LEMMA AlongStep == RunInv /\ [Next]_vars => [Along]_vars
<1> SUFFICES ASSUME RunInv, Next PROVE Along
  BY DEF vars
<1>1. run \in [Contexts -> Run]
  BY DEF RunInv, TypeOK
<1>2. CASE run' = run
  BY <1>2 DEF Along
<1>3. ASSUME NEW p \in Procs, StartCommit(p)
      PROVE  Along
  <2> DEFINE d == pend[p].ctx
             r == [NoRun EXCEPT !.state = "assessing", !.rev = 1]
  <2>1. run' = [run EXCEPT ![d] = r] /\ run[d] = NoRun
    BY <1>3 DEF StartCommit
  <2>2. r.state = "assessing"
    BY DEF NoRun
  <2> HIDE DEF d, r
  <2> QED
    BY <1>1, <2>1, <2>2 DEF Along
<1>4. ASSUME NEW p \in Procs, MoveCommit(p)
      PROVE  Along
  <2> DEFINE o == pend[p]
             d == o.move.of
             r == Content(o)
  <2>1. /\ d \in Contexts /\ run' = [run EXCEPT ![d] = r]
        /\ r.rev = run[d].rev + 1
        /\ <<run[d].state, r.state>> \in Pairs
    BY <1>4, MoveCommitFields
  <2>2. run[d] # NoRun
    BY <2>1 DEF Pairs, NoRun, States, Terminal
  <2> HIDE DEF d, r
  <2> QED
    BY <1>1, <2>1, <2>2 DEF Along
<1>9. ASSUME NEW p \in Procs, CommandCommit(p)
      PROVE  Along
  <2> DEFINE o == pend[p]
             d == o.ctx
             r == Content(o)
  <2>1. /\ d \in Contexts /\ run' = [run EXCEPT ![d] = r]
        /\ r.rev = run[d].rev + 1
        /\ <<run[d].state, r.state>> \in Pairs
    BY <1>9, CommandCommitFields
  <2>2. run[d] # NoRun
    BY <2>1 DEF Pairs, NoRun, States, Terminal
  <2> HIDE DEF d, r
  <2> QED
    BY <1>1, <2>1, <2>2 DEF Along
<1>5. ASSUME NEW p \in Procs, Working(p), ~StartCommit(p), ~MoveCommit(p), ~CommandCommit(p)
      PROVE  run' = run
  BY <1>5 DEF Working, PriorRead, StartRead, StartReplay, StartFailed, Started, MoveRead,
              MoveReplay, MoveFailed, Moved, ApplyAccept, ApplyRespond, ApplyRefused, Make,
              CommandFailed, Reads
<1>6. ASSUME NEW p \in Procs, Kill(p)
      PROVE  run' = run
  BY <1>6 DEF Kill
<1>7. ASSUME NEW p \in Procs, NEW c \in Contexts, Assess(p, c)
      PROVE  run' = run
  BY <1>7 DEF Assess, AssessNew, AssessResume, Reads
<1>8. ASSUME NEW p \in Procs, NEW c \in Contexts, NEW a \in Answers,
             \/ Respond(p, c, a)
             \/ AssessNew(p, "apply", c, a)
             \/ AssessResume(p, "apply", c, a)
             \/ ApplyAssessed(p, c, a)
      PROVE  run' = run
  BY <1>8 DEF Respond, AssessNew, AssessResume, ApplyAssessed, Reads
<1>10. ASSUME NEW p \in Procs, NEW c \in Contexts, NEW to \in States, CommandRead(p, c, to)
       PROVE  run' = run
  BY <1>10 DEF CommandRead
<1> QED
  BY <1>2, <1>3, <1>4, <1>5, <1>6, <1>7, <1>8, <1>9, <1>10 DEF Next

\* Runs move along the declared Workflow only, one revision at a time, for any
\* number of callers with sessions of any age.
THEOREM RunsFollowWorkflow == Spec => FollowsWorkflow
  BY AlongStep, RunInvHolds, PTL DEF Spec, FollowsWorkflow
=============================================================================
