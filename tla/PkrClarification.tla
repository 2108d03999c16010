-------------------------- MODULE PkrClarification --------------------------
(***************************************************************************)
(* Clarification runs (src/src/clarification.ts) and the Steward proposals *)
(* that wait for them (src/src/steward.ts).                                *)
(*                                                                         *)
(* One call of the service is many commits: assess supersedes the          *)
(* unfinished runs of its subject one by one, starts its own run, drafts   *)
(* the question and puts it.  A call reads the session it works on, the    *)
(* runtime reads the run again for its guard, and the transaction compares *)
(* the revision of that second reading; other processes, and a kill, may   *)
(* come between any two of these.  `pkr workflow transition` moves the same *)
(* runs, on the word of its caller and without a response.                 *)
(*                                                                         *)
(* A context is one assessment input, and names its run.  Contexts outside *)
(* Proposals are about one common subject.                                 *)
(***************************************************************************)
EXTENDS Integers, FiniteSets

CONSTANTS
    Contexts,   \* assessment inputs
    Proposals,  \* those of a Steward proposal, each a subject of its own
    Asked,      \* those whose assessment finds an ambiguity
    Protected,  \* ... a protected one: the proposal is material
    Direction,  \* ... a choice of direction
    Answers,    \* responses to a question sheet
    Explicit,   \* those in which the user himself approves and directs
    NoAnswer,   \* no response
    Procs,      \* processes that use the service
    MaxRev,     \* bound on the revision of a run
    MaxKills,   \* bound on the number of kills
    MaxMoves    \* bound on the number of runs moved by `pkr workflow transition`

ASSUME ContextsAssumption ==
    /\ Contexts # {} /\ Proposals \subseteq Contexts /\ Asked \subseteq Contexts
    /\ Protected \subseteq Asked /\ Direction \subseteq Asked
ASSUME AnswersAssumption == Explicit \subseteq Answers /\ NoAnswer \notin Answers
ASSUME BoundsAssumption == MaxRev \in Nat /\ MaxKills \in Nat /\ MaxMoves \in Nat

VARIABLES
    run,        \* the WorkflowRun of each context
    workflow,   \* the clarification Workflow is registered
    commands,   \* the transitions committed, by command id
    made,       \* outcome of the Decision, Goal and Task of each proposal
    pend,       \* what the call of each process is about to do
    kills,      \* calls that were killed so far
    moves       \* transitions asked for by `pkr workflow transition` so far

vars == <<run, workflow, commands, made, pend, kills, moves>>

-----------------------------------------------------------------------------
(* CLARIFICATION_WORKFLOW_DEFINITION.                                      *)

Terminal == {"no-question-needed", "resolved", "cancelled", "superseded"}
States == Terminal \cup {"assessing", "question-drafted", "awaiting-answers", "blocked"}

Pairs ==
    UNION {{"assessing"} \X {"no-question-needed", "question-drafted"},
           {"question-drafted"} \X {"awaiting-answers", "blocked"},
           {"awaiting-answers"} \X {"resolved", "blocked"},
           {"blocked"} \X {"blocked", "resolved", "awaiting-answers"},
           (States \ Terminal) \X {"cancelled", "superseded"}}

-----------------------------------------------------------------------------
(* Types.                                                                  *)

Outcome == Answers \cup {NoAnswer}

\* sheet: the question sheet is in it.  by: the context whose run superseded this one,
\* as a set of at most one.
Run == [state : States \cup {"none"}, rev : Nat, res : Outcome, sheet : BOOLEAN,
        by : SUBSET Contexts]
NoRun == [state |-> "none", rev |-> 0, res |-> NoAnswer, sheet |-> FALSE, by |-> {}]

\* The arguments of a transition: the session that the service holds, and why.
Move == [of : Contexts, cur : Run, to : States,
         why : {"supersede", "assess", "respond", "command"}]

Command == [of : Contexts, rev : Nat, to : States,
            from : States \cup {"none"}, why : {"supersede", "assess", "respond"},
            res : Outcome, by : SUBSET Contexts]

\* at: what comes next.  todo: sessions still to supersede.  seen: the run as the
\* runtime read it.  fresh: the runtime found no Workflow.
Call == [op    : {"idle", "assess", "respond", "apply", "transition"},
         at    : {"end", "list", "start", "starting", "started", "move", "commit", "moved",
                  "decide", "decision", "goal", "task", "transition"},
         ctx   : Contexts,
         ans   : Outcome,
         todo  : SUBSET (Contexts \X Run),
         move  : Move,
         seen  : Run,
         fresh : BOOLEAN]

Parts == {"decision", "goal", "task"}

TypeOK ==
    /\ run \in [Contexts -> Run]
    /\ workflow \in BOOLEAN
    /\ commands \subseteq Command
    /\ made \in [Parts -> [Proposals -> SUBSET Outcome]]
    /\ pend \in [Procs -> Call]
    /\ \A p \in Procs : pend[p].at \in Parts \cup {"decide"} =>
          pend[p].op = "apply" /\ pend[p].ctx \in Proposals
    /\ kills \in Nat /\ moves \in Nat

AnyContext == CHOOSE c \in Contexts : TRUE
NoMove == [of |-> AnyContext, cur |-> NoRun, to |-> "superseded", why |-> "assess"]
NewCall(op, c, a) ==
    [op |-> op, at |-> "end", ctx |-> c, ans |-> a, todo |-> {}, move |-> NoMove,
     seen |-> NoRun, fresh |-> FALSE]
Idle == NewCall("idle", AnyContext, NoAnswer)

Init ==
    /\ run = [c \in Contexts |-> NoRun]
    /\ workflow = FALSE
    /\ commands = {}
    /\ made = [k \in Parts |-> [c \in Proposals |-> {}]]
    /\ pend = [p \in Procs |-> Idle]
    /\ kills = 0 /\ moves = 0

-----------------------------------------------------------------------------
(* What a call goes on to.                                                 *)

IsIdle(p) == pend[p].op = "idle"
Go(p, o) == pend' = [pend EXCEPT ![p] = o]
Stop(p) == Go(p, Idle)

\* A step that commits nothing.
Reads(p, o) == Go(p, o) /\ UNCHANGED <<run, workflow, commands, made, kills, moves>>

To(o, where) == [o EXCEPT !.at = where]

\* The transition of session s of the run of d.
Moving(o, d, s, to, why) ==
    [To(o, "move") EXCEPT !.move = [of |-> d, cur |-> s, to |-> to, why |-> why]]

\* The service's own check of a transition.
Allowed(s, to) == <<s.state, to>> \in Pairs

\* The next session to supersede, or the start of the run.
Onward(o) ==
    IF o.todo = {} THEN {To(o, "start")}
    ELSE {Moving([o EXCEPT !.todo = @ \ {x}], x[1], x[2], "superseded", "supersede")
            : x \in o.todo}

FirstMove(c) == IF c \in Asked THEN "question-drafted" ELSE "no-question-needed"
Put(c) == IF c \in Protected THEN "blocked" ELSE "awaiting-answers"

\* resolveQuestionSheet: a protected question is resolved by explicit approval.
Answered(c, a) == IF c \in Protected /\ a \notin Explicit THEN "blocked" ELSE "resolved"

-----------------------------------------------------------------------------
(* assess, and the assess that apply begins with.                          *)

\* A process calls op about c, with response a.
Called(p, op, c, a) ==
    /\ IsIdle(p)
    /\ op = "apply" => c \in Proposals

SameSubject(c, d) == c = d \/ {c, d} \cap Proposals = {}
Unfinished(c) == run[c].state \notin Terminal \cup {"none"}

\* The unfinished sessions of the subject.
Prior(c) == {<<d, run[d]>> : d \in {e \in Contexts : SameSubject(c, e) /\ Unfinished(e)}}

\* There is no run of c yet.
AssessNew(p, op, c, a) ==
    /\ Called(p, op, c, a)
    /\ run[c] = NoRun
    /\ Reads(p, To(NewCall(op, c, a), "list"))

\* A reading later: what there is to supersede.  It may be the run of c itself,
\* which another process has started since.
PriorRead(p) ==
    LET o == pend[p] IN
    /\ o.at = "list"
    /\ \E n \in Onward([o EXCEPT !.todo = Prior(o.ctx)]) : Reads(p, n)

\* Fault: assess returns every run that there is.
AssessResume_Returns(p, op, c, a) ==
    /\ Called(p, op, c, a)
    /\ run[c].state = "assessing"
    /\ UNCHANGED vars

\* The run was started and not assessed: by a call that was killed, or by one
\* that is still under way.
AssessResume(p, op, c, a) ==
    /\ Called(p, op, c, a)
    /\ run[c].state = "assessing"
    /\ Reads(p, Moving(NewCall(op, c, a), c, run[c], FirstMove(c), "assess"))

\* The run has been assessed.  assess returns it, with no change; apply goes on.
ApplyAssessed(p, c, a) ==
    /\ Called(p, "apply", c, a)
    /\ run[c].state \notin {"none", "assessing"}
    /\ Reads(p, To(Moving(NewCall("apply", c, a), c, run[c], FirstMove(c), "assess"), "decide"))

-----------------------------------------------------------------------------
(* startClarificationRun.                                                  *)

\* Is the Workflow registered?
StartRead(p) ==
    /\ pend[p].at = "start"
    /\ Reads(p, [To(pend[p], "starting") EXCEPT !.fresh = ~workflow])

\* The Workflow, unless it was there, and the run.
StartCommit(p) ==
    LET o == pend[p] IN
    /\ o.at = "starting"
    /\ run[o.ctx] = NoRun
    /\ o.fresh = ~workflow
    /\ workflow' = TRUE
    /\ run' = [run EXCEPT ![o.ctx] =
                 [NoRun EXCEPT !.state = "assessing", !.rev = 1]]
    /\ Go(p, To(o, "started"))
    /\ UNCHANGED <<commands, made, kills, moves>>

\* The command that starts this run was committed already.
StartReplay(p) ==
    /\ pend[p].at = "starting"
    /\ run[pend[p].ctx] # NoRun
    /\ Reads(p, To(pend[p], "started"))

\* Another process registered the Workflow.
StartFailed(p) ==
    LET o == pend[p] IN
    /\ o.at = "starting"
    /\ run[o.ctx] = NoRun
    /\ o.fresh = workflow
    /\ Reads(p, Idle)

\* The service reads the session it has started.
Started(p) ==
    LET o == pend[p]
        s == run[o.ctx] IN
    /\ o.at = "started"
    /\ Reads(p, IF Allowed(s, FirstMove(o.ctx))
             THEN Moving(o, o.ctx, s, FirstMove(o.ctx), "assess") ELSE Idle)

-----------------------------------------------------------------------------
(* transitionClarificationRun.                                             *)

\* The runtime reads the run, which must have the edge.
MoveRead(p) ==
    LET o == pend[p]
        r == run[o.move.of] IN
    /\ o.at = "move"
    /\ Reads(p, IF <<r.state, o.move.to>> \in Pairs
             THEN [To(o, "commit") EXCEPT !.seen = r] ELSE Idle)

\* The content of the session after the move: that of the session which the service,
\* or the command, holds, with what the move changes.
Resolution(o) ==
    CASE o.move.why \in {"supersede", "command"} -> o.move.cur.res
      [] o.move.why = "assess"    -> NoAnswer
      [] o.move.why = "respond"   -> o.ans
Sheet(o) == IF o.move.why = "assess" THEN o.move.to # "no-question-needed"
            ELSE o.move.cur.sheet
Successor(o) == IF o.move.why = "supersede" THEN {o.ctx} ELSE {}
Content(o) == [state |-> o.move.to, rev |-> o.seen.rev + 1, res |-> Resolution(o),
               sheet |-> Sheet(o), by |-> Successor(o)]

\* The command that the call sends.  of, rev and to make its id.
Sent(o) == [of |-> o.move.of, rev |-> o.move.cur.rev, to |-> o.move.to,
            from |-> o.seen.state, why |-> o.move.why,
            res |-> Resolution(o), by |-> Successor(o)]
Same(x, y) == x.of = y.of /\ x.rev = y.rev /\ x.to = y.to

\* What follows the move.
After(o) == IF o.move.why = "supersede" THEN Onward(o) ELSE {To(o, "moved")}

\* Fault: the revision is not compared.
MoveCommit_AnyRevision(p) ==
    LET o == pend[p] IN
    /\ o.at = "commit"
    /\ \A x \in commands : ~Same(x, Sent(o))
    /\ run' = [run EXCEPT ![o.move.of] = Content(o)]
    /\ commands' = commands \cup {Sent(o)}
    /\ \E n \in After(o) : Go(p, n)
    /\ UNCHANGED <<workflow, made, kills, moves>>

MoveCommit(p) ==
    LET o == pend[p] IN
    /\ o.at = "commit"
    /\ \A x \in commands : ~Same(x, Sent(o))
    /\ run[o.move.of].rev = o.seen.rev
    /\ run' = [run EXCEPT ![o.move.of] = Content(o)]
    /\ commands' = commands \cup {Sent(o)}
    /\ \E n \in After(o) : Go(p, n)
    /\ UNCHANGED <<workflow, made, kills, moves>>

\* Another call has sent the same command.
MoveReplay(p) ==
    LET o == pend[p] IN
    /\ o.at = "commit"
    /\ Sent(o) \in commands
    /\ \E n \in After(o) : Reads(p, n)

\* The command id has another content, or the run another revision.
MoveFailed(p) ==
    LET o == pend[p] IN
    /\ o.at = "commit"
    /\ Sent(o) \notin commands
    /\ \/ \E x \in commands : Same(x, Sent(o))
       \/ run[o.move.of].rev # o.seen.rev
    /\ Reads(p, Idle)

\* Fault: assess and respond go on as apply does.
Moved_Applies(p) ==
    LET o == pend[p]
        s == run[o.ctx] IN
    /\ o.at = "moved"
    /\ Reads(p, IF o.move.to = "question-drafted" /\ Allowed(s, Put(o.ctx))
                THEN Moving(o, o.ctx, s, Put(o.ctx), "assess")
                ELSE To(Moving(o, o.ctx, s, o.move.to, o.move.why), "decide"))

\* The service reads the session it has moved.  A question that was drafted is
\* put; otherwise assess or respond is done.
Moved(p) ==
    LET o == pend[p]
        s == run[o.ctx] IN
    /\ o.at = "moved"
    /\ Reads(p, IF o.move.to = "question-drafted"
             THEN IF Allowed(s, Put(o.ctx))
                  THEN Moving(o, o.ctx, s, Put(o.ctx), "assess") ELSE Idle
             ELSE IF o.op = "apply"
                  THEN To(Moving(o, o.ctx, s, o.move.to, o.move.why), "decide") ELSE Idle)

-----------------------------------------------------------------------------
(* respond.                                                                *)

\* Whether session s takes response a: it has a sheet to answer; the same response
\* again changes nothing.
Takes(s, a) == s.state \in {"awaiting-answers", "blocked"} /\ s.sheet /\ s.res # a

Respond(p, c, a) ==
    /\ IsIdle(p)
    /\ Takes(run[c], a)
    /\ run[c].rev < MaxRev
    /\ Reads(p, Moving(NewCall("respond", c, a), c, run[c], Answered(c, a), "respond"))

-----------------------------------------------------------------------------
(* apply.                                                                  *)

\* The owner has approved what is material, and there is a response; without one
\* a call ends here, and is an assess.
Settled(o) ==
    o.ctx \in Asked => o.move.cur.state = "resolved" /\ o.move.cur.res # NoAnswer

\* The response leaves the direction to the recommendation.
Undirected(o) == o.ctx \in Direction /\ o.ans \notin Explicit

\* Fault: a session that is resolved is taken to be approved.
ApplyAccept_AnyResolution(p) ==
    LET o == pend[p] IN
    /\ o.at = "decide"
    /\ ~Undirected(o)
    /\ Settled(o)
    /\ Reads(p, To(o, IF o.ctx \in Protected THEN "decision" ELSE "goal"))

\* The session is resolved, as far as need be by the user himself.
ApplyAccept(p) ==
    LET o == pend[p] IN
    /\ o.at = "decide"
    /\ ~Undirected(o)
    /\ Settled(o)
    /\ o.ctx \in Protected \cup Direction => o.move.cur.res \in Explicit
    /\ Reads(p, To(o, IF o.ctx \in Protected THEN "decision" ELSE "goal"))

\* The response is recorded first.
ApplyRespond(p) ==
    LET o == pend[p]
        s == run[o.ctx] IN
    /\ o.at = "decide"
    /\ ~Undirected(o)
    /\ ~Settled(o)
    /\ o.move.why # "respond"
    /\ Takes(s, o.ans)
    /\ s.rev < MaxRev
    /\ Reads(p, Moving(o, o.ctx, s, Answered(o.ctx, o.ans), "respond"))

\* PKR-STEWARD-003, PKR-CLARIFICATION-003, or the bound.
ApplyRefused(p) ==
    LET o == pend[p]
        s == run[o.ctx] IN
    /\ o.at = "decide"
    /\ \/ Undirected(o)
       \/ Settled(o) /\ o.ctx \in Protected \cup Direction /\ o.move.cur.res \notin Explicit
       \/ ~Settled(o) /\ (o.move.why = "respond" \/ ~Takes(s, o.ans) \/ s.rev >= MaxRev)
    /\ Reads(p, Idle)

\* The Decision, then the Goal, then the Task, each by a command whose id is the
\* proposal's: created with the outcome, replayed if the outcome is the same, and
\* refused if it is another.
Make(p) ==
    LET o == pend[p]
        old == made[o.at][o.ctx] IN
    /\ o.at \in Parts
    /\ made' = [made EXCEPT ![o.at][o.ctx] = IF old = {} THEN {o.move.cur.res} ELSE old]
    /\ Go(p, CASE o.at = "task" \/ ~(old \subseteq {o.move.cur.res}) -> Idle
               [] o.at = "decision" -> To(o, "goal")
               [] o.at = "goal"     -> To(o, "task"))
    /\ UNCHANGED <<run, workflow, commands, kills, moves>>

-----------------------------------------------------------------------------
(* transitionPortableWorkflow.                                             *)

\* The command asks for an edge of the Workflow, with the authorization that its
\* caller gives himself.
CommandRead(p, c, to) ==
    /\ IsIdle(p)
    /\ moves < MaxMoves
    /\ <<run[c].state, to>> \in Pairs
    /\ run[c].rev < MaxRev
    /\ moves' = moves + 1
    /\ Go(p, [To(Moving(NewCall("transition", c, NoAnswer), c, run[c], to, "command"),
                "transition") EXCEPT !.seen = run[c]])
    /\ UNCHANGED <<run, workflow, commands, made, kills>>

\* The state changes and the content of the session stays.  The command id is new.
CommandCommit(p) ==
    LET o == pend[p] IN
    /\ o.at = "transition"
    /\ run[o.ctx].rev = o.seen.rev
    /\ run' = [run EXCEPT ![o.ctx] = Content(o)]
    /\ Stop(p)
    /\ UNCHANGED <<workflow, commands, made, kills, moves>>

\* The run has another revision.
CommandFailed(p) ==
    /\ pend[p].at = "transition"
    /\ run[pend[p].ctx].rev # pend[p].seen.rev
    /\ Reads(p, Idle)

-----------------------------------------------------------------------------

\* A process is killed, or fails after its commit, when projections are rebuilt.
Kill(p) ==
    /\ ~IsIdle(p)
    /\ kills < MaxKills
    /\ kills' = kills + 1
    /\ Stop(p)
    /\ UNCHANGED <<run, workflow, commands, made, moves>>

\* The steps of a call that is under way.
Working(p) ==
    \/ PriorRead(p)
    \/ StartRead(p) \/ StartCommit(p) \/ StartReplay(p) \/ StartFailed(p) \/ Started(p)
    \/ MoveRead(p) \/ MoveCommit(p) \/ MoveReplay(p) \/ MoveFailed(p) \/ Moved(p)
    \/ ApplyAccept(p) \/ ApplyRespond(p) \/ ApplyRefused(p) \/ Make(p)
    \/ CommandCommit(p) \/ CommandFailed(p)

Assess(p, c) == AssessNew(p, "assess", c, NoAnswer) \/ AssessResume(p, "assess", c, NoAnswer)

Next ==
    \E p \in Procs :
        \/ Working(p)
        \/ Kill(p)
        \/ \E c \in Contexts :
              \/ Assess(p, c)
              \/ \E to \in States : CommandRead(p, c, to)
              \/ \E a \in Answers :
                    \/ Respond(p, c, a)
                    \/ AssessNew(p, "apply", c, a)
                    \/ AssessResume(p, "apply", c, a)
                    \/ ApplyAssessed(p, c, a)

Spec == Init /\ [][Next]_vars

\* A call that is not killed goes on, and a caller repeats his assess as often as he
\* can.
FairSpec ==
    /\ Spec
    /\ \A p \in Procs : WF_vars(Working(p))
    /\ \A c \in Contexts : SF_vars(\E p \in Procs : Assess(p, c))

-----------------------------------------------------------------------------
(* Properties.                                                             *)

\* What a step may do to a run.
Along ==
    \A c \in Contexts : run'[c] # run[c] =>
        IF run[c] = NoRun THEN run'[c].state = "assessing"
        ELSE /\ <<run[c].state, run'[c].state>> \in Pairs
             /\ run'[c].rev = run[c].rev + 1

\* A run moves along the declared Workflow only, one revision at a time, whatever
\* callers hold of older sessions: what is resolved or superseded stays so.
FollowsWorkflow == [][Along]_vars

\* Nothing is made for a proposal that is protected, or a choice of direction, unless
\* the response its session holds is the user's own, also when the session was
\* resolved by the portable command, or was so between two readings of one apply.
NothingUnapproved ==
    \A c \in Proposals \cap (Protected \cup Direction), k \in Parts : made[k][c] \subseteq Explicit

\* What a proposal has made has one outcome, that of its resolution, also when
\* several callers apply it with different responses, or apply it again.
MadeAsResolved ==
    \A c \in Proposals, k \in Parts : made[k][c] # {} =>
        /\ c \in Asked => run[c].state = "resolved"
        /\ made[k][c] = {run[c].res}
        /\ k = "task" => made["goal"][c] # {}
        /\ k # "decision" /\ c \in Protected => made["decision"][c] # {}

\* The questions are drafted and not put to anyone.
Drafted(c) == run[c].state = "question-drafted" /\ run[c].sheet

\* An assessment that was begun, perhaps by a process that was killed, and that is
\* repeated leaves assessing and does not stay drafted, unless one more call is killed
\* before: however many repeat it at once, supersede it, or move it by command.
AssessmentEnds ==
    \A c \in Contexts, k \in 0 .. MaxKills :
        run[c].state = "assessing" /\ kills = k
            ~> kills # k \/ ~(run[c].state = "assessing" \/ Drafted(c))

-----------------------------------------------------------------------------
(* Strengthenings that make the properties inductive.                      *)

\* What a call may hold: a response, if it has one to give; and at its commit a run that
\* had the edge and, as long as the revision is the same, is the run.
Sound(o) ==
    /\ o.op \in {"respond", "apply"} => o.ans \in Answers
    /\ o.op = "apply" => o.ctx \in Proposals
    /\ o.at \in Parts \cup {"decide"} => o.op = "apply"
    /\ o.at \in {"move", "commit"} => o.move.why # "command"
    /\ o.at \in {"commit", "transition"} =>
          /\ <<o.seen.state, o.move.to>> \in Pairs
          /\ o.seen.rev <= run[o.move.of].rev
          /\ o.seen.rev = run[o.move.of].rev => o.seen = run[o.move.of]

\* A session in which nothing is asked or answered.
Clear(s) == s.res = NoAnswer /\ ~s.sheet

\* A call that makes things holds the resolution that the run has now, the user's own
\* where that is needed, and has made what comes before; what is not ambiguous is given
\* no response.
Bound(o) ==
    /\ \A x \in o.todo : x[1] \notin Asked => Clear(x[2])
    /\ o.at \in {"move", "commit"} =>
          /\ o.move.why # "supersede" => o.move.of = o.ctx
          /\ o.move.of \notin Asked =>
                /\ o.move.why # "respond"
                /\ o.move.to \in {"no-question-needed", "superseded"}
                /\ o.move.why = "assess" => o.move.to = "no-question-needed"
                /\ Clear(o.move.cur)
    /\ o.at = "transition" =>
          o.move.of = o.ctx /\ o.move.cur = o.seen /\ o.move.why = "command"
    /\ o.at = "moved" /\ o.move.to = "question-drafted" => o.ctx \in Asked
    /\ o.at \in Parts \cup {"decide"} =>
          /\ o.move.cur.state = "resolved" => o.move.cur = run[o.ctx]
          /\ o.ctx \notin Asked => o.move.cur.res = NoAnswer
    /\ o.at \in Parts =>
          /\ Settled(o)
          /\ o.ctx \in Protected \cup Direction => o.move.cur.res \in Explicit
          /\ o.at = "task" => made["goal"][o.ctx] # {}
          /\ o.at # "decision" /\ o.ctx \in Protected => made["decision"][o.ctx] # {}

\* What is not ambiguous is never asked about, whatever state a command puts it in.
Unasked == \A c \in Contexts \ Asked : Clear(run[c])

RunInv ==
    /\ TypeOK
    /\ \A p \in Procs : Sound(pend[p]) /\ Bound(pend[p])
    /\ Unasked
    /\ NothingUnapproved
    /\ MadeAsResolved

=============================================================================
