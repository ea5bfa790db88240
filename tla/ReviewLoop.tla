----------------------------- MODULE ReviewLoop -----------------------------
(***************************************************************************)
(* One review loop of a build (plan and plan-review, or implement and      *)
(* code-review): the kernel decides from the log, the runner executes, the *)
(* agents deposit terminals, humans answer escalations and revise the spec *)
(* (kernel/engine.ts decideLoop, kernel/log-index.ts,                      *)
(* processes/build-runner.ts, cli/terminals.ts, cli/build-control.ts).     *)
(*                                                                         *)
(* The log is represented by the index that decideLoop reads.  A verdict   *)
(* carries at most one finding, which may persist one of an earlier round. *)
(* Pauses, suspensions and continuations are TurnControl's.                *)
(***************************************************************************)
EXTENDS Stall

CONSTANTS
  MaxReviewRounds,  \* policy.maxReviewRounds
  MaxCeiling,       \* largest review-round ceiling a human grants (bound)
  MaxRounds,        \* rounds (bound)
  MaxAsks,          \* escalations (bound)
  MaxAnswers,       \* answers (bound)
  MaxMishaps        \* sessions that end without a terminal, and runner deaths (bound)

ASSUME LoopAssumption ==
  /\ {MaxReviewRounds, MaxCeiling, MaxRounds, MaxAsks, MaxAnswers} \subseteq Nat \ {0}
  /\ MaxMishaps \in Nat

Rounds == 1 .. MaxRounds
Asks == 1 .. MaxAsks
Roles == {"producer", "reviewer"}
Sources == {"agent", "stall", "policy"}
NoMark == -1

VARIABLES
  loop,       \* LoopIndex since the last spec revision, and the ceiling in force
  open,       \* openEscalations
  guidance,   \* newest guidance answer, guidance carried by starts, delivered
  dismissed,  \* rounds whose finding a human dismissed
  awaiting,   \* a revise-spec answer has no spec.revised yet
  runner,     \* the runner's position and the decision it executes
  session,    \* the session it runs
  straggling, \* rounds whose `ab verdict escalate` has its second append ahead
  used,       \* asks, answers and mishaps so far (bounds)
  ghost       \* what happened since the restart (history)

vars == <<loop, open, guidance, dismissed, awaiting, runner, session, straggling, used, ghost>>

EmptyRounds == [r \in Rounds |-> [completed |-> FALSE, verdict |-> "none", mark |-> NoMark]]
Nothing == [kind |-> "wait", source |-> "policy", round |-> 0, feedback |-> 0]
NoSession == [stage |-> "producer", round |-> 0, state |-> "ended"]

Init ==
  /\ loop = [ever |-> 0, top |-> 0, rounds |-> EmptyRounds, raised |-> {},
             ceiling |-> MaxReviewRounds]
  /\ open = {}
  /\ guidance = [latest |-> 0, carried |-> [r \in Rounds |-> 0], delivered |-> {}]
  /\ dismissed = {}
  /\ awaiting = FALSE
  /\ runner = [pc |-> "decide", decision |-> Nothing]
  /\ session = NoSession
  /\ straggling = {}
  /\ used = [asks |-> 0, answers |-> 0, mishaps |-> 0]
  /\ ghost = [base |-> 0, granted |-> MaxReviewRounds, answers |-> 0,
              asked |-> {}, heard |-> {}]

-----------------------------------------------------------------------------
(* decideNext for this loop.                                               *)

Reviewed == {r \in Rounds : loop.rounds[r].verdict # "none"}

\* findingsByRound, up to round n.
History(n) ==
  [r \in 1 .. n |->
     IF loop.rounds[r].mark = NoMark THEN {}
     ELSE {[id |-> <<r, 1>>, persists |-> {<<loop.rounds[r].mark, 1>>}]}]

DismissedIds == {<<r, 1>> : r \in dismissed}

\* guidanceFeedback: the newest guidance answer, until a session carried it off.
Guidance == IF guidance.latest \in guidance.delivered THEN 0 ELSE guidance.latest

RunProducer(r) == [kind |-> "producer", source |-> "policy", round |-> r, feedback |-> Guidance]
RunReviewer(r) == [kind |-> "reviewer", source |-> "policy", round |-> r, feedback |-> 0]
Raise(source, r) == [kind |-> "raise", source |-> source, round |-> r, feedback |-> 0]

\* Mutant: only open escalations count as raised.
Asked_OpenOnly(source) == \E ask \in open : ask.source = source /\ ask.stage = "reviewer"

\* raisedAfter the verdict being routed, for the reviewer: open or answered.
Asked(source) == source \in loop.raised

\* Mutant: the round cap comes one round late.
AfterRevise_OneRoundMore ==
  LET r == loop.top
  IN  IF Raisable(History(r), DismissedIds) # {} /\ ~Asked("stall") THEN Raise("stall", r)
      ELSE IF Cardinality(Reviewed) > loop.ceiling /\ ~Asked("policy") THEN Raise("policy", r)
      ELSE RunProducer(r + 1)

\* Mutant: the round cap is checked first.
AfterRevise_CapFirst ==
  LET r == loop.top
  IN  IF Cardinality(Reviewed) >= loop.ceiling /\ ~Asked("policy") THEN Raise("policy", r)
      ELSE IF Raisable(History(r), DismissedIds) # {} /\ ~Asked("stall") THEN Raise("stall", r)
      ELSE RunProducer(r + 1)

\* The stall check comes first, then the round cap.
AfterRevise ==
  LET r == loop.top
  IN  IF Raisable(History(r), DismissedIds) # {} /\ ~Asked("stall") THEN Raise("stall", r)
      ELSE IF Cardinality(Reviewed) >= loop.ceiling /\ ~Asked("policy") THEN Raise("policy", r)
      ELSE RunProducer(r + 1)

\* A verdict whose escalation never landed is repaired.
AfterEscalate ==
  IF ~Asked("agent") THEN Raise("agent", loop.top) ELSE RunProducer(loop.top + 1)

\* Mutant: a completed round without a verdict is produced again.
LoopDecision_NoReviewer ==
  IF loop.top = 0 THEN RunProducer(loop.ever + 1)
  ELSE LET round == loop.rounds[loop.top]
       IN  CASE round.verdict = "none" -> RunProducer(loop.top)
             [] round.verdict = "approve" -> [Nothing EXCEPT !.kind = "approved"]
             [] round.verdict = "escalate" -> AfterEscalate
             [] round.verdict = "revise" -> AfterRevise

LoopDecision ==
  IF loop.top = 0 THEN RunProducer(loop.ever + 1)
  ELSE LET round == loop.rounds[loop.top]
       IN  CASE round.verdict = "none" /\ round.completed -> RunReviewer(loop.top)
             [] round.verdict = "none" /\ ~round.completed -> RunProducer(loop.top)
             [] round.verdict = "approve" -> [Nothing EXCEPT !.kind = "approved"]
             [] round.verdict = "escalate" -> AfterEscalate
             [] round.verdict = "revise" -> AfterRevise

Decision == IF open # {} \/ awaiting THEN Nothing ELSE LoopDecision

-----------------------------------------------------------------------------
(* Appends and what the index makes of them.                               *)

\* plan.started, plan-review.started: the round exists.
Touched(r) == [loop EXCEPT !.top = Max({@, r}), !.ever = Max({@, r})]

\* A verdict becomes the one being routed.
Judged(r, verdict, mark) ==
  [Touched(r) EXCEPT !.rounds[r].verdict = verdict, !.rounds[r].mark = mark, !.raised = {}]

\* escalation.raised.
AppendAsk(stage, source, r) ==
  /\ used.asks < MaxAsks
  /\ used' = [used EXCEPT !.asks = @ + 1]
  /\ open' = open \cup {[id |-> used.asks + 1, stage |-> stage, source |-> source, round |-> r]}
  /\ loop' = IF stage = "reviewer" THEN [loop EXCEPT !.raised = @ \cup {source}] ELSE loop

AskRecorded(r, source, by) == ghost' = [ghost EXCEPT !.asked = @ \cup {<<r, source, by>>}]

Goto(place) == runner' = [runner EXCEPT !.pc = place]

-----------------------------------------------------------------------------
(* The runner.                                                             *)

\* What is to be done is decided from the log; rounds end at MaxRounds (bound).
Decide ==
  /\ runner.pc = "decide"
  /\ Decision.kind \notin {"wait", "approved"}
  /\ Decision.round \in Rounds
  /\ runner' = [pc |-> "act", decision |-> Decision]
  /\ UNCHANGED <<loop, open, guidance, dismissed, awaiting, session, straggling, used, ghost>>

RaiseEscalation ==
  /\ runner.pc = "act" /\ runner.decision.kind = "raise"
  /\ AppendAsk("reviewer", runner.decision.source, runner.decision.round)
  /\ AskRecorded(runner.decision.round, runner.decision.source, "kernel")
  /\ Goto("decide")
  /\ UNCHANGED <<guidance, dismissed, awaiting, session, straggling>>

\* Mutant: citing guidance counts as delivering it.
StartProducer_CitingDelivers ==
  /\ runner.pc = "act" /\ runner.decision.kind = "producer"
  /\ loop' = Touched(runner.decision.round)
  /\ guidance' = [guidance EXCEPT !.delivered = @ \cup ({runner.decision.feedback} \ {0})]
  /\ Goto("launch")
  /\ UNCHANGED <<open, dismissed, awaiting, session, straggling, used, ghost>>

\* The start cites the guidance; one without any takes back an older citation.
StartProducer ==
  /\ runner.pc = "act" /\ runner.decision.kind = "producer"
  /\ loop' = Touched(runner.decision.round)
  /\ guidance' = [guidance EXCEPT !.carried[runner.decision.round] = runner.decision.feedback]
  /\ Goto("launch")
  /\ UNCHANGED <<open, dismissed, awaiting, session, straggling, used, ghost>>

StartReviewer ==
  /\ runner.pc = "act" /\ runner.decision.kind = "reviewer"
  /\ loop' = Touched(runner.decision.round)
  /\ Goto("launch")
  /\ UNCHANGED <<open, guidance, dismissed, awaiting, session, straggling, used, ghost>>

\* session.started of the cited round delivers its guidance.
StartSession ==
  LET r == runner.decision.round
  IN  /\ runner.pc = "launch"
      /\ session' = [stage |-> runner.decision.kind, round |-> r, state |-> "live"]
      /\ IF runner.decision.kind = "producer"
         THEN guidance' = [guidance EXCEPT !.carried[r] = 0,
                                           !.delivered = @ \cup ({guidance.carried[r]} \ {0})]
         ELSE UNCHANGED guidance
      /\ ghost' = [ghost EXCEPT !.heard = @ \cup ({runner.decision.feedback} \ {0})]
      /\ Goto("turn")
      /\ UNCHANGED <<loop, open, dismissed, awaiting, straggling, used>>

\* The turn is over and its range of the log is read once: a terminal closes
\* the session, an escalate verdict without its escalation is to be repaired.
TurnEnds ==
  /\ runner.pc = "turn" /\ session.state = "deposited"
  /\ session' = [session EXCEPT !.state = "ended"]
  /\ Goto(IF /\ session.stage = "reviewer"
             /\ loop.rounds[session.round].verdict = "escalate" /\ loop.raised = {}
          THEN "repair" ELSE "decide")
  /\ UNCHANGED <<loop, open, guidance, dismissed, awaiting, straggling, used, ghost>>

RepairEscalateGap ==
  /\ runner.pc = "repair"
  /\ AppendAsk("reviewer", "agent", runner.decision.round)
  /\ AskRecorded(runner.decision.round, "agent", "kernel")
  /\ Goto("decide")
  /\ UNCHANGED <<guidance, dismissed, awaiting, session, straggling>>

\* No terminal was read: the phase fails, and one that lands meanwhile stands.
TurnEndsEmpty ==
  /\ runner.pc = "turn" /\ session.state = "live"
  /\ used.mishaps < MaxMishaps
  /\ used' = [used EXCEPT !.mishaps = @ + 1]
  /\ Goto("fail")
  /\ UNCHANGED <<loop, open, guidance, dismissed, awaiting, session, straggling, ghost>>

FailPhase ==
  /\ runner.pc = "fail"
  /\ session' = [session EXCEPT !.state = "ended"]
  /\ Goto("decide")
  /\ UNCHANGED <<loop, open, guidance, dismissed, awaiting, straggling, used, ghost>>

\* A new runner ends what its predecessor left behind.
RunnerDies ==
  /\ runner.pc \notin {"decide", "attach"}
  /\ used.mishaps < MaxMishaps
  /\ used' = [used EXCEPT !.mishaps = @ + 1]
  /\ Goto("attach")
  /\ UNCHANGED <<loop, open, guidance, dismissed, awaiting, session, straggling, ghost>>

EndOrphan ==
  /\ runner.pc = "attach"
  /\ session' = [session EXCEPT !.state = "ended"]
  /\ runner' = [pc |-> "decide", decision |-> Nothing]
  /\ UNCHANGED <<loop, open, guidance, dismissed, awaiting, straggling, used, ghost>>

-----------------------------------------------------------------------------
(* The agents.  A deposit is refused once its session has a terminal or an *)
(* end; see TurnControl for the guard.                                     *)

Deposits(stage) ==
  /\ session.state = "live" /\ session.stage = stage
  /\ session' = [session EXCEPT !.state = "deposited"]

Complete ==
  /\ Deposits("producer")
  /\ loop' = [Touched(session.round) EXCEPT !.rounds[session.round].completed = TRUE]
  /\ UNCHANGED <<open, guidance, dismissed, awaiting, runner, straggling, used, ghost>>

Approve ==
  /\ Deposits("reviewer")
  /\ loop' = Judged(session.round, "approve", NoMark)
  /\ UNCHANGED <<open, guidance, dismissed, awaiting, runner, straggling, used, ghost>>

\* One finding, fresh (mark 0) or continuing that of an earlier round; the
\* reviewer is shown the rounds before a restart too.
Revise ==
  /\ Deposits("reviewer")
  /\ \E mark \in 0 .. session.round - 1 : loop' = Judged(session.round, "revise", mark)
  /\ UNCHANGED <<open, guidance, dismissed, awaiting, runner, straggling, used, ghost>>

\* The first append of `ab verdict escalate`.
VerdictEscalate ==
  /\ Deposits("reviewer")
  /\ loop' = Judged(session.round, "escalate", NoMark)
  /\ straggling' = straggling \cup {session.round}
  /\ UNCHANGED <<open, guidance, dismissed, awaiting, runner, used, ghost>>

\* ... the second, which nothing guards ...
RaiseStraggling(r) ==
  /\ r \in straggling
  /\ straggling' = straggling \ {r}
  /\ AppendAsk("reviewer", "agent", r)
  /\ AskRecorded(r, "agent", "agent")
  /\ UNCHANGED <<guidance, dismissed, awaiting, runner, session>>

\* ... and may never come.
LoseStraggling(r) ==
  /\ r \in straggling
  /\ straggling' = straggling \ {r}
  /\ UNCHANGED <<loop, open, guidance, dismissed, awaiting, runner, session, used, ghost>>

\* `ab escalate`.
Escalate ==
  /\ \E stage \in Roles : Deposits(stage)
  /\ AppendAsk(session.stage, "agent", session.round)
  /\ UNCHANGED <<guidance, dismissed, awaiting, runner, straggling, ghost>>

-----------------------------------------------------------------------------
(* The human.                                                              *)

Answered(ask) ==
  /\ used.answers < MaxAnswers
  /\ used' = [used EXCEPT !.answers = @ + 1]
  /\ open' = open \ {ask}

\* A guidance or bare answer to a round-limit ask may set another ceiling.
Ceilings(ask) == {loop.ceiling} \cup (IF ask.source = "policy" THEN 1 .. MaxCeiling ELSE {})
AnsweredWithCeiling(ask) ==
  /\ Answered(ask)
  /\ \E ceiling \in Ceilings(ask) :
       /\ loop' = [loop EXCEPT !.ceiling = ceiling]
       /\ ghost' = [ghost EXCEPT !.answers = @ + 1, !.granted = Max({@, ceiling})]
  /\ UNCHANGED <<dismissed, awaiting, runner, session, straggling>>

Guide(ask) == AnsweredWithCeiling(ask) /\ guidance' = [guidance EXCEPT !.latest = ask.id]

Retry(ask) == AnsweredWithCeiling(ask) /\ UNCHANGED guidance

\* dismiss-finding needs cited findings: those of a stall.
Dismiss(ask) ==
  /\ ask.source = "stall"
  /\ Answered(ask)
  /\ \E chain \in Reported(History(ask.round), DismissedIds) :
       dismissed' = dismissed \cup {id[1] : id \in chain}
  /\ ghost' = [ghost EXCEPT !.answers = @ + 1]
  /\ UNCHANGED <<loop, guidance, awaiting, runner, session, straggling>>

\* revise-spec answers everything open; the kernel fact follows.
ReviseSpec ==
  /\ open # {}
  /\ used.answers < MaxAnswers
  /\ used' = [used EXCEPT !.answers = @ + 1]
  /\ open' = {}
  /\ awaiting' = TRUE
  /\ UNCHANGED <<loop, guidance, dismissed, runner, session, straggling, ghost>>

SpecRevised ==
  /\ awaiting
  /\ awaiting' = FALSE
  /\ loop' = [loop EXCEPT !.top = 0, !.rounds = EmptyRounds, !.raised = {},
                          !.ceiling = MaxReviewRounds]
  /\ ghost' = [ghost EXCEPT !.base = loop.ever, !.granted = MaxReviewRounds, !.answers = 0]
  /\ UNCHANGED <<open, guidance, dismissed, runner, session, straggling, used>>

-----------------------------------------------------------------------------

RunnerStep ==
  \/ Decide \/ RaiseEscalation \/ StartProducer \/ StartReviewer \/ StartSession
  \/ TurnEnds \/ RepairEscalateGap \/ FailPhase \/ EndOrphan

Terminal == Complete \/ Approve \/ Revise \/ VerdictEscalate

Next ==
  \/ RunnerStep \/ TurnEndsEmpty \/ RunnerDies \/ Terminal \/ Escalate
  \/ \E r \in Rounds : RaiseStraggling(r) \/ LoseStraggling(r)
  \/ \E ask \in open : Guide(ask) \/ Retry(ask) \/ Dismiss(ask)
  \/ ReviseSpec \/ SpecRevised

\* The runner works while there is work; a session that is not cut short
\* deposits a terminal.  Nothing is assumed of humans.
Fairness == WF_vars(RunnerStep) /\ WF_vars(Terminal)

Spec == Init /\ [][Next]_vars /\ Fairness

-----------------------------------------------------------------------------
(* Properties.                                                             *)

TypeOK ==
  /\ loop \in [ever : 0 .. MaxRounds, top : 0 .. MaxRounds,
               rounds : [Rounds -> [completed : BOOLEAN,
                                    verdict : {"none", "approve", "revise", "escalate"},
                                    mark : NoMark .. MaxRounds]],
               raised : SUBSET Sources, ceiling : 1 .. Max({MaxReviewRounds, MaxCeiling})]
  /\ open \subseteq [id : Asks, stage : Roles, source : Sources, round : Rounds]
  /\ guidance \in [latest : 0 .. MaxAsks, carried : [Rounds -> 0 .. MaxAsks],
                   delivered : SUBSET Asks]
  /\ dismissed \subseteq Rounds
  /\ awaiting \in BOOLEAN
  /\ runner \in [pc : {"decide", "act", "launch", "turn", "repair", "fail", "attach"},
                 decision : [kind : {"wait", "raise"} \cup Roles, source : Sources,
                             round : 0 .. MaxRounds, feedback : 0 .. MaxAsks]]
  /\ session \in [stage : Roles, round : 0 .. MaxRounds, state : {"live", "deposited", "ended"}]
  /\ straggling \subseteq Rounds

\* Agents never spend rounds on their own account: since the last revision at
\* most the granted rounds were opened, plus one for every answer.
RoundsAreAuthorized == loop.top - ghost.base <= ghost.granted + ghost.answers

\* converge.ts, the in-process reference: what the verdict of a round leads to.
Outcome(r) ==
  CASE loop.rounds[r].verdict = "approve" -> "approved"
    [] loop.rounds[r].verdict = "escalate" -> "agent"
    [] loop.rounds[r].verdict = "none" -> "open"
    [] loop.rounds[r].verdict = "revise" ->
         IF StalledChains(History(r), StallRounds, {}) # {} THEN "stall"
         ELSE IF r + 1 > MaxReviewRounds THEN "policy" ELSE "next"

\* Until a human answers, the event-sourced loop does what converge does with
\* the same verdicts, whatever crashes, fails or lands late in between.
AgreesWithConverge ==
  used.answers = 0 =>
    /\ \A r \in Rounds : r < loop.top => Outcome(r) = "next"
    /\ \A r \in Rounds, source \in Sources :
         <<r, source, "kernel">> \in ghost.asked => Outcome(r) = source

\* An answer counts as delivered only once a session was launched with it.
DeliveredIsHeard == guidance.delivered \subseteq ghost.heard

\* The kernel asks the same question once: one escalation per verdict and
\* source, across crashes and answers ("raise once per verdict").
KernelAsksOnce ==
  [][RaiseEscalation \/ RepairEscalateGap => ghost'.asked # ghost.asked]_vars

\* Left without answers, the loop ends approved or parked on a human.
LoopParks == <>[](Decision.kind \in {"wait", "approved"} /\ session.state # "live")

=============================================================================
