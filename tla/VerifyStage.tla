----------------------------- MODULE VerifyStage -----------------------------
(***************************************************************************)
(* The concurrent verify stages of a build: members that run as checks of  *)
(* the runner or as agent sessions, fail-fast cancellation, the teardown   *)
(* of the execution, the stage's failure receipt and the way back to       *)
(* implement (kernel/verify-stages.ts, kernel/verify-stage-state.ts,       *)
(* kernel/engine.ts, processes/build-runner.ts, cli/dispatch.ts).          *)
(*                                                                         *)
(* A verify cycle is numbered by its attempt.  A step that is skipped      *)
(* counts as one that passed.  An execution that ends takes its processes  *)
(* with it; one runner works at a time (BuildLease).  A session kept for   *)
(* its resumption (TurnControl) is a new one here.  Phase failures that    *)
(* exhaust their retries, and operator commands, are TurnControl's.        *)
(***************************************************************************)
EXTENDS Integers, Sequences, FiniteSets, FiniteSetsExt

CONSTANTS
  Stages,             \* config.verify.stages: a sequence of sets of steps
  Checks,             \* the steps that are commands, not agents
  FailFast,           \* the steps configured failFast
  MaxVerifyAttempts,  \* policy.maxVerifyAttempts
  MaxAttempts,        \* attempts (bound)
  MaxAnswers,         \* answers and revisions of humans (bound)
  MaxMishaps          \* crashes, and sessions that end without a terminal (bound)

Steps == UNION {Stages[n] : n \in DOMAIN Stages}
Attempts == 1 .. MaxAttempts
Members == Steps \X Attempts
Limit == "verify-failure-limit"

ASSUME StageAssumption ==
  /\ Checks \subseteq Steps /\ FailFast \subseteq Steps /\ Limit \notin Steps
  /\ DOMAIN Stages \subseteq Nat
  /\ \A m, n \in DOMAIN Stages : m # n => Stages[m] \cap Stages[n] = {}
  /\ {MaxVerifyAttempts, MaxAttempts} \subseteq Nat \ {0}
  /\ {MaxAnswers, MaxMishaps} \subseteq Nat

VARIABLES
  phase,       \* what the build is at: verify, implement, plan or finalize
  attempt,     \* attempt of the current cycle
  started,     \* members with a verify.started
  outcome,     \* member -> its verify.completed
  cancelled,   \* members with an effective verify.cancelled
  concurrent,  \* verifyStage.concurrent
  receipts,    \* attempt -> the failed steps its verify.stage-failed lists
  failed,      \* attempts with a failure since the last spec revision
  limitAsked,  \* the failure limit was raised since the last failure
  asks,        \* open escalations, and answers that authorize a revision
  restartDue,  \* executionSeq <= cleanupExecutionSeq
  revising,    \* the `ab answer --revise-spec` between its writes
  recorded,    \* the running execution has its execution.started
  pc,          \* where the runner is
  initial,     \* steps runVerifyStage was called with
  targets,     \* steps cancelVerifyStage still has to cancel
  child,       \* step -> its entry of inFlight
  results,     \* results of checks that wait for withVerifyWrite
  alive,       \* members whose agent session runs
  spoken,      \* members whose session has had its terminal
  used,        \* answers and mishaps so far (bounds)
  ghost        \* what went before (history): in this execution, a cancellation
               \* before execution.started (late), one that came after its member
               \* was settled, with a session left in the stage (missed)

durable == <<phase, attempt, started, outcome, cancelled, concurrent, receipts,
             failed, limitAsked, asks, restartDue>>
runner == <<pc, initial, targets, child, results>>
agents == <<alive, spoken>>
vars == <<durable, revising, recorded, runner, agents, used, ghost>>

Idle == [state |-> "idle", attempt |-> 0]
NotRevising == [state |-> "none", checked |-> FALSE, left |-> {}]

Init ==
  /\ phase = "verify" /\ attempt = 1
  /\ started = {} /\ outcome = [m \in Members |-> "none"] /\ cancelled = {}
  /\ concurrent = FALSE
  /\ receipts = [n \in Attempts |-> {}]
  /\ failed = {} /\ limitAsked = FALSE /\ asks = {} /\ restartDue = FALSE
  /\ revising = NotRevising
  /\ recorded = TRUE
  /\ pc = "off" /\ initial = {} /\ targets = {}
  /\ child = [s \in Steps |-> Idle] /\ results = {}
  /\ alive = {} /\ spoken = {}
  /\ used = [answers |-> 0, mishaps |-> 0]
  /\ ghost = [late |-> FALSE, missed |-> FALSE]

-----------------------------------------------------------------------------
(* activeVerifyStage and decideNext.  While a revised spec is planned the  *)
(* cycle has no results.                                                   *)

Outcome(s) == IF phase = "plan" THEN "none" ELSE outcome[<<s, attempt>>]
Settled(m) == outcome[m] # "none" \/ m \in cancelled

Barriers == {n \in DOMAIN Stages : \E s \in Stages[n] : Outcome(s) # "pass"}

First(stages) == {n \in stages : \A k \in stages : n <= k}

\* Mutant: a stage all of whose members have an outcome is passed.
Active_AnyOutcome ==
  UNION {Stages[n] : n \in First({k \in DOMAIN Stages : \E s \in Stages[k] : Outcome(s) = "none"})}

\* The first stage with a member that neither passed nor was skipped.
Active == UNION {Stages[n] : n \in First(Barriers)}

Unfinished == {s \in Active : Outcome(s) = "none" /\ <<s, attempt>> \notin cancelled}
Failures == {s \in Active : Outcome(s) = "fail"}
Cause == Failures \cap FailFast # {}

\* verify.maxAttemptSeen, which names the occurrence a verifier's question is of.
MaxAttemptSeen == Max({0} \cup {m[2] : m \in started})

Current(ask) == ask.member[2] = MaxAttemptSeen
Held(s) == \E ask \in asks : ask.state = "open" /\ Current(ask) /\ ask.member[1] = s
Blocking ==
  \E ask \in asks : ask.state = "open" /\ ~(Current(ask) /\ ask.member[1] \in Active)
AwaitingSpec == \E ask \in asks : ask.state = "revise"

\* Mutant: no teardown after a cancellation.
RestartNeeded_Never == FALSE

RestartNeeded == restartDue /\ ~(Cause /\ Unfinished # {})

StageSettled == Unfinished = {}

Exhausted == Cardinality(failed) >= MaxVerifyAttempts

Runnable == {s \in Unfinished : ~Held(s)}

\* The first of these that applies.
VerifyDecision ==
  IF Cause /\ Unfinished # {} THEN "cancel"
  ELSE IF StageSettled /\ Failures # {} /\ receipts[attempt] = {} THEN "record"
  ELSE IF StageSettled /\ Exhausted /\ ~limitAsked /\ failed # {} THEN "limit"
  ELSE IF StageSettled /\ Failures # {} THEN "implement"
  ELSE IF Active = {} THEN "finalize"
  ELSE IF Runnable # {} THEN "run" ELSE "held"

Decision ==
  IF Blocking THEN "blocked"
  ELSE IF RestartNeeded THEN "restart"
  ELSE IF AwaitingSpec THEN "awaiting-spec"
  ELSE IF phase = "finalize" THEN "done"
  ELSE IF phase \in {"plan", "implement"} THEN "work"
  ELSE VerifyDecision

Waits == {"blocked", "awaiting-spec", "held", "done"}

-----------------------------------------------------------------------------
(* The execution.  What ends it ends every process in it.                  *)

Ended ==
  /\ pc' = "off" /\ initial' = {} /\ targets' = {}
  /\ child' = [s \in Steps |-> Idle] /\ results' = {}
  /\ alive' = {} /\ spoken' = {}
  /\ ghost' = [late |-> FALSE, missed |-> FALSE]

\* The dispatcher starts an execution; its runner ends the sessions it finds.
Launch ==
  /\ pc = "off" /\ recorded /\ Decision \notin Waits
  /\ recorded' = FALSE /\ pc' = "decide"
  /\ UNCHANGED <<durable, revising, initial, targets, child, results, agents, used, ghost>>

\* The dispatcher appends execution.started once execution.start returned.
RecordExecution ==
  /\ ~recorded
  /\ recorded' = TRUE /\ restartDue' = FALSE
  /\ UNCHANGED <<phase, attempt, started, outcome, cancelled, concurrent, receipts,
                 failed, limitAsked, asks, revising, runner, agents, used, ghost>>

\* The runner leaves its loop on a wait or a restart, and its execution ends.
Leave ==
  /\ pc = "decide" /\ Decision \in Waits \cup {"restart"}
  /\ Ended
  /\ UNCHANGED <<durable, revising, recorded, used>>

\* The execution is lost.
Crash ==
  /\ pc # "off" /\ used.mishaps < MaxMishaps
  /\ Ended
  /\ used' = [used EXCEPT !.mishaps = @ + 1]
  /\ UNCHANGED <<durable, revising, recorded>>

-----------------------------------------------------------------------------
(* runVerifyStage and the child runners of a stage.                        *)

\* The mutable facts of a stage start afresh.
EnterStage ==
  /\ pc = "decide" /\ Decision = "run"
  /\ pc' = "stage" /\ initial' = Runnable
  /\ child' = [s \in Steps |->
       IF s \in Runnable THEN [state |-> "queued", attempt |-> attempt] ELSE Idle]
  /\ UNCHANGED <<durable, revising, recorded, targets, results, agents, used, ghost>>

\* Mutant: a member whose session ended without a terminal is not run again.
Relaunch_Never == FALSE

\* A wake-up that finds the same stage starts the members that have no child.
Relaunch ==
  /\ pc = "stage" /\ Decision = "run" /\ Runnable \subseteq initial
  /\ \E s \in Runnable : child[s].state = "idle"
  /\ child' = [s \in Steps |->
       IF s \in Runnable /\ child[s].state = "idle"
       THEN [state |-> "queued", attempt |-> attempt] ELSE child[s]]
  /\ UNCHANGED <<durable, revising, recorded, pc, initial, targets, results, agents, used, ghost>>

\* A wake-up that finds anything else leaves the stage: once every member has
\* its outcome agents may settle by themselves, else they are interrupted.
StopStage ==
  /\ pc = "stage"
  /\ Decision # "cancel" /\ ~(Decision = "run" /\ Runnable \subseteq initial)
  /\ pc' = IF \A s \in Steps : child[s].attempt # 0 => outcome[<<s, child[s].attempt>>] # "none"
           THEN "drain" ELSE "interrupt"
  /\ UNCHANGED <<durable, revising, recorded, initial, targets, child, results, agents, used,
                 ghost>>

\* verify.started, with the flag that outlives the cycle.
Started(m) ==
  /\ started' = started \cup {m}
  /\ concurrent' = (concurrent \/ \E other \in started \ {m} :
                       other[2] = attempt /\ phase # "plan" /\ ~Settled(other))

\* runCheckOperation re-reads its member before it starts the command.
StartCheck(s) ==
  LET m == <<s, child[s].attempt>> IN
  /\ child[s].state = "queued"
  /\ IF Settled(m)
     THEN /\ child' = [child EXCEPT ![s].state = "idle"]
          /\ UNCHANGED <<started, concurrent>>
     ELSE /\ child' = [child EXCEPT ![s].state = "running"]
          /\ Started(m)
  /\ UNCHANGED <<phase, attempt, outcome, cancelled, receipts, failed, limitAsked, asks,
                 restartDue, revising, recorded, pc, initial, targets, results, agents,
                 used, ghost>>

CheckExits(s, o) ==
  /\ child[s].state = "running"
  /\ child' = [child EXCEPT ![s].state = "writing"]
  /\ results' = results \cup {[member |-> <<s, child[s].attempt>>, outcome |-> o]}
  /\ UNCHANGED <<durable, revising, recorded, pc, initial, targets, agents, used, ghost>>

\* What a verify.completed changes beside the outcome.
Completes(m, o) ==
  /\ outcome' = [outcome EXCEPT ![m] = o]
  /\ failed' = IF o = "fail" THEN failed \cup {m[2]} ELSE failed
  /\ limitAsked' = (limitAsked /\ o # "fail")

\* The cancellation holds withVerifyWrite until it is through its members.
WriteLocked == pc = "cancel" /\ targets # {}

\* Mutant: the result is not checked against the log.
CheckWrites_Blind(r) ==
  /\ r \in results /\ ~WriteLocked
  /\ results' = results \ {r}
  /\ child' = [child EXCEPT ![r.member[1]] =
       IF @.state = "writing" THEN [@ EXCEPT !.state = "idle"] ELSE @]
  /\ Completes(r.member, r.outcome)
  /\ UNCHANGED <<phase, attempt, started, cancelled, concurrent, receipts, asks, restartDue,
                 revising, recorded, pc, initial, targets, agents, used, ghost>>

\* Under withVerifyWrite, a result of a member that is settled is dropped.
CheckWrites(r) ==
  /\ r \in results /\ ~WriteLocked
  /\ results' = results \ {r}
  /\ child' = [child EXCEPT ![r.member[1]] =
       IF @.state = "writing" THEN [@ EXCEPT !.state = "idle"] ELSE @]
  /\ IF Settled(r.member) THEN UNCHANGED <<outcome, failed, limitAsked>>
     ELSE Completes(r.member, r.outcome)
  /\ UNCHANGED <<phase, attempt, started, cancelled, concurrent, receipts, asks, restartDue,
                 revising, recorded, pc, initial, targets, agents, used, ghost>>

\* runAgentVerifyOperation starts its session without a look at its member.
StartAgent(s) ==
  LET m == <<s, child[s].attempt>> IN
  /\ child[s].state = "queued" /\ m \notin alive
  /\ child' = [child EXCEPT ![s].state = "running"]
  /\ Started(m)
  /\ alive' = alive \cup {m} /\ spoken' = spoken \ {m}
  /\ UNCHANGED <<phase, attempt, outcome, cancelled, receipts, failed, limitAsked, asks,
                 restartDue, revising, recorded, pc, initial, targets, results, used, ghost>>

\* The session of m ends, and with it the child that runs it.
SessionEnds(m) ==
  /\ alive' = alive \ {m}
  /\ child' = [child EXCEPT ![m[1]] =
       IF @.state = "running" /\ @.attempt = m[2] THEN [@ EXCEPT !.state = "idle"] ELSE @]
  /\ UNCHANGED <<durable, revising, recorded, pc, initial, targets, results, spoken, ghost>>

AgentSettles(m) ==
  /\ m \in alive /\ (m \in spoken \/ Settled(m))
  /\ SessionEnds(m)
  /\ UNCHANGED used

AgentDies(m) ==
  /\ m \in alive /\ ~(m \in spoken \/ Settled(m)) /\ used.mishaps < MaxMishaps
  /\ SessionEnds(m)
  /\ used' = [used EXCEPT !.mishaps = @ + 1]

InterruptAgent(m) ==
  /\ pc = "interrupt" /\ m \in alive /\ child[m[1]].state = "running"
  /\ SessionEnds(m)
  /\ UNCHANGED used

\* The other members are awaited, checks only killed.
EndStage ==
  /\ pc \in {"drain", "interrupt"}
  /\ \A s \in Steps \ Checks : child[s].state = "idle"
  /\ pc' = "decide" /\ initial' = {} /\ child' = [s \in Steps |-> Idle]
  /\ UNCHANGED <<durable, revising, recorded, targets, results, agents, used, ghost>>

-----------------------------------------------------------------------------
(* cancelVerifyStage, and the decisions of the runner's loop.              *)

\* The members without an outcome, as the decision read them; from the stage or
\* from the loop.
BeginCancel ==
  /\ pc \in {"decide", "stage"} /\ Decision = "cancel"
  /\ pc' = "lock" /\ targets' = Unfinished
  /\ UNCHANGED <<durable, revising, recorded, initial, child, results, agents, used, ghost>>

\* A check's writer may have been first at withVerifyWrite.
LockWrites ==
  /\ pc = "lock" /\ pc' = "cancel"
  /\ UNCHANGED <<durable, revising, recorded, initial, targets, child, results, agents, used,
                 ghost>>

\* Mutant: a cancelled verifier's question stays open.
CancelMember_KeepsQuestion(s) ==
  LET m == <<s, attempt>> IN
  /\ pc = "cancel" /\ s \in targets
  /\ targets' = targets \ {s}
  /\ IF Settled(m)
     THEN /\ ghost' = [ghost EXCEPT !.missed = @ \/ alive # {}]
          /\ UNCHANGED <<cancelled, asks, restartDue>>
     ELSE /\ cancelled' = cancelled \cup {m}
          /\ asks' = asks /\ restartDue' = TRUE
          /\ ghost' = [ghost EXCEPT !.late = @ \/ ~recorded]
  /\ UNCHANGED <<phase, attempt, started, outcome, concurrent, receipts, failed, limitAsked,
                 revising, recorded, pc, initial, child, results, agents, used>>

\* verify.cancelled by compare-and-set: the reducer supersedes the questions of
\* the member, answered ones too, and notes the execution it happened in.
CancelMember(s) ==
  LET m == <<s, attempt>> IN
  /\ pc = "cancel" /\ s \in targets
  /\ targets' = targets \ {s}
  /\ IF Settled(m)
     THEN /\ ghost' = [ghost EXCEPT !.missed = @ \/ alive # {}]
          /\ UNCHANGED <<cancelled, asks, restartDue>>
     ELSE /\ cancelled' = cancelled \cup {m}
          /\ asks' = {ask \in asks : ask.member # m}
          /\ restartDue' = TRUE
          /\ ghost' = [ghost EXCEPT !.late = @ \/ ~recorded]
  /\ UNCHANGED <<phase, attempt, started, outcome, concurrent, receipts, failed, limitAsked,
                 revising, recorded, pc, initial, child, results, agents, used>>

\* Checks are killed; agents are neither awaited nor stopped for certain, and
\* one that was launched but not started still starts.
EndCancel ==
  /\ pc = "cancel" /\ targets = {}
  /\ pc' = "decide" /\ initial' = {}
  /\ child' = [s \in Steps |->
       IF s \notin Checks /\ child[s].state = "queued" THEN child[s] ELSE Idle]
  /\ UNCHANGED <<durable, revising, recorded, targets, results, agents, used, ghost>>

RecordFailure ==
  /\ pc = "decide" /\ Decision = "record"
  /\ receipts' = [receipts EXCEPT ![attempt] = Failures]
  /\ UNCHANGED <<phase, attempt, started, outcome, cancelled, concurrent, failed, limitAsked,
                 asks, restartDue, revising, recorded, runner, agents, used, ghost>>

RaiseLimit ==
  /\ pc = "decide" /\ Decision = "limit"
  /\ asks' = asks \cup {[member |-> <<Limit, attempt>>, state |-> "open"]}
  /\ limitAsked' = TRUE
  /\ UNCHANGED <<phase, attempt, started, outcome, cancelled, concurrent, receipts, failed,
                 restartDue, revising, recorded, runner, agents, used, ghost>>

Implement ==
  /\ pc = "decide" /\ Decision = "implement"
  /\ phase' = "implement"
  /\ UNCHANGED <<attempt, started, outcome, cancelled, concurrent, receipts, failed,
                 limitAsked, asks, restartDue, revising, recorded, runner, agents, used, ghost>>

Finalize ==
  /\ pc = "decide" /\ Decision = "finalize"
  /\ phase' = "finalize"
  /\ UNCHANGED <<attempt, started, outcome, cancelled, concurrent, receipts, failed,
                 limitAsked, asks, restartDue, revising, recorded, runner, agents, used, ghost>>

\* The rounds up to the code review's approval, which opens the next cycle.
Approve ==
  /\ pc = "decide" /\ Decision = "work" /\ attempt < MaxAttempts
  /\ phase' = "verify" /\ attempt' = attempt + 1
  /\ UNCHANGED <<started, outcome, cancelled, concurrent, receipts, failed, limitAsked, asks,
                 restartDue, revising, recorded, runner, agents, used, ghost>>

-----------------------------------------------------------------------------
(* Agents' terminals, by compare-and-set behind the terminal guard.        *)

MayTerminate(m) == m \in alive /\ m \notin spoken /\ ~Settled(m)

Verdict(m, o) ==
  /\ MayTerminate(m)
  /\ Completes(m, o)
  /\ spoken' = spoken \cup {m}
  /\ UNCHANGED <<phase, attempt, started, cancelled, concurrent, receipts, asks, restartDue,
                 revising, recorded, runner, alive, used, ghost>>

Escalate(m) ==
  /\ MayTerminate(m)
  /\ used.answers < MaxAnswers   \* bound: as many questions as may be answered
  /\ asks' = asks \cup {[member |-> m, state |-> "open"]}
  /\ spoken' = spoken \cup {m}
  /\ UNCHANGED <<phase, attempt, started, outcome, cancelled, concurrent, receipts, failed,
                 limitAsked, restartDue, revising, recorded, runner, alive, used, ghost>>

-----------------------------------------------------------------------------
(* The human.                                                              *)

\* An answer with guidance.  An answer that a revision still writes to the same
\* question finds it closed.
Answer(ask) ==
  /\ ask \in asks /\ ask.state = "open" /\ used.answers < MaxAnswers
  /\ asks' = asks \ {ask}
  /\ revising' = [revising EXCEPT !.left = @ \ {ask.member}]
  /\ used' = [used EXCEPT !.answers = @ + 1]
  /\ UNCHANGED <<phase, attempt, started, outcome, cancelled, concurrent, receipts, failed,
                 limitAsked, restartDue, recorded, runner, agents, ghost>>

\* `ab answer --revise-spec` reads the build and its open questions.
BeginRevision ==
  /\ revising.state = "none" /\ used.answers < MaxAnswers
  /\ \E ask \in asks : ask.state = "open"
  /\ revising' = [state |-> "begun", checked |-> concurrent,
                  left |-> {ask.member : ask \in {a \in asks : a.state = "open"}}]
  /\ used' = [used EXCEPT !.answers = @ + 1]
  /\ UNCHANGED <<durable, recorded, runner, agents, ghost>>

\* It answers them one by one, what a cancellation has superseded in vain.
ReviseAnswer(m) ==
  /\ m \in revising.left
  /\ revising' = [revising EXCEPT !.left = @ \ {m}]
  /\ asks' = {IF ask.member = m THEN [ask EXCEPT !.state = "revise"] ELSE ask : ask \in asks}
  /\ UNCHANGED <<phase, attempt, started, outcome, cancelled, concurrent, receipts, failed,
                 limitAsked, restartDue, recorded, runner, agents, used, ghost>>

\* spec.revised: the loops start over; an answer authorizes once.
Revised ==
  /\ phase' = "plan" /\ failed' = {} /\ limitAsked' = FALSE
  /\ asks' = {ask \in asks : ask.state = "open"}

\* Mutant: the authorization is not read again.
SpecRevised_OldRead ==
  /\ revising.state = "begun" /\ revising.left = {}
  /\ revising' = NotRevising
  /\ Revised
  /\ UNCHANGED <<attempt, started, outcome, cancelled, concurrent, receipts, restartDue,
                 recorded, runner, agents, used, ghost>>

\* Where verifiers had run concurrently the authorization is read again, and the
\* command refuses without it; else spec.revised follows unconditionally.
SpecRevised ==
  /\ revising.state = "begun" /\ revising.left = {}
  /\ revising' = NotRevising
  /\ IF revising.checked /\ ~AwaitingSpec
     THEN UNCHANGED <<phase, failed, limitAsked, asks>>
     ELSE Revised
  /\ UNCHANGED <<attempt, started, outcome, cancelled, concurrent, receipts, restartDue,
                 recorded, runner, agents, used, ghost>>

-----------------------------------------------------------------------------
RunnerNext ==
  \/ EnterStage \/ Relaunch \/ StopStage \/ EndStage
  \/ BeginCancel \/ LockWrites \/ (\E s \in Steps : CancelMember(s)) \/ EndCancel
  \/ RecordFailure \/ RaiseLimit \/ Implement \/ Finalize \/ Approve \/ Leave

ChildNext(s) ==
  \/ s \in Checks /\ StartCheck(s)
  \/ s \in Checks /\ \E o \in {"pass", "fail"} : CheckExits(s, o)
  \/ s \in Steps \ Checks /\ StartAgent(s)

AgentNext(m) ==
  \/ \E o \in {"pass", "fail"} : Verdict(m, o)
  \/ Escalate(m)
  \/ AgentSettles(m)
  \/ InterruptAgent(m)

HumanNext == (\E ask \in asks : Answer(ask)) \/ BeginRevision

RevisionNext == (\E m \in revising.left : ReviseAnswer(m)) \/ SpecRevised

Next ==
  \/ Launch \/ RecordExecution \/ Crash
  \/ RunnerNext
  \/ \E s \in Steps : ChildNext(s)
  \/ \E r \in results : CheckWrites(r)
  \/ \E m \in alive : AgentNext(m) \/ AgentDies(m)
  \/ HumanNext \/ RevisionNext

\* The dispatcher, the runner and its children act; a session has its budget; a
\* command that was started is carried through.  Humans and mishaps come as they
\* like.
Fairness ==
  /\ WF_vars(Launch) /\ WF_vars(RecordExecution) /\ WF_vars(RunnerNext)
  /\ \A s \in Steps : WF_vars(ChildNext(s))
  /\ WF_vars(\E r \in results : CheckWrites(r))
  /\ \A m \in Members : WF_vars(m \in alive /\ AgentNext(m))
  /\ WF_vars(RevisionNext)

Spec == Init /\ [][Next]_vars /\ Fairness

-----------------------------------------------------------------------------
(* Properties.                                                             *)

\* Types of the variables.
TypeOK ==
  /\ phase \in {"verify", "implement", "plan", "finalize"} /\ attempt \in Attempts
  /\ {started, cancelled, alive, spoken} \subseteq SUBSET Members
  /\ outcome \in [Members -> {"none", "pass", "fail"}]
  /\ {concurrent, limitAsked, restartDue, recorded} \subseteq BOOLEAN
  /\ receipts \in [Attempts -> SUBSET Steps] /\ failed \subseteq Attempts
  /\ asks \subseteq [member : Members \cup ({Limit} \X Attempts), state : {"open", "revise"}]
  /\ revising \in [state : {"none", "begun"}, checked : BOOLEAN,
                   left : SUBSET (Members \cup ({Limit} \X Attempts))]
  /\ pc \in {"off", "decide", "stage", "drain", "interrupt", "lock", "cancel"}
  /\ initial \subseteq Steps /\ targets \subseteq Steps
  /\ child \in [Steps -> [state : {"idle", "queued", "running", "writing"},
                          attempt : Attempts \cup {0}]]
  /\ results \subseteq [member : Members, outcome : {"pass", "fail"}]
  /\ ghost \in [late : BOOLEAN, missed : BOOLEAN]

\* A member has one fate: a verify.completed or a verify.cancelled, whichever of
\* the check's writer, the agent's terminal and the cancellation comes first, and
\* no later write changes it.
OneFate ==
  [][\A m \in Members :
       /\ m \in cancelled => m \in cancelled'
       /\ Settled(m) => outcome'[m] = outcome[m] /\ (m \in cancelled' => m \in cancelled)]_vars

\* A member of a later stage starts only when every member of every earlier stage
\* of its cycle has passed.
BarrierHolds ==
  \A m \in started : \A n, k \in DOMAIN Stages :
    m[1] \in Stages[n] /\ k < n => \A s \in Stages[k] : outcome[<<s, m[2]>>] = "pass"

\* No question of a cancelled verifier, and no answer to one, is in force.
NoOrphanQuestion == \A ask \in asks : ask.member \notin cancelled

Reworking == phase = "implement" /\ pc = "decide"

\* Implement has the workspace to itself, whatever adapter ignores its abort,
\* unless the execution was recorded after a cancellation in it, or an outcome (a
\* terminal, a check's result) came between the decision to cancel its member and
\* the cancellation while a session of the stage still ran, its own or another's.
ReworkIsAlone == Reworking /\ ~ghost.late /\ ~ghost.missed => alive = {}

\* A revision whose command saw concurrent verifiers lands only on an answer that
\* still authorizes it: one whose verifier has not been cancelled since.
RevisionIsAuthorized ==
  [][revising.checked /\ revising.state = "begun" /\ revising'.state = "none" /\ durable' # durable
       => \E ask \in asks : ask.state = "revise" /\ ask.member \notin cancelled]_vars

\* Whatever members, humans and mishaps do, the build ends up finalized or parked
\* for a human, or at the model's last attempt.
StageEnds ==
  <>[](\/ pc = "off" /\ Decision \in Waits
       \/ pc = "decide" /\ Decision = "work" /\ attempt = MaxAttempts)

=============================================================================
