------------------------- MODULE TurnControlProofs -------------------------
(***************************************************************************)
(* Operator commands and the outcome of sessions, for any number of        *)
(* sessions, rounds, attempts, commands and deaths of the runner.          *)
(***************************************************************************)
EXTENDS TurnControl, TLAPS

(***************************************************************************)
(* What the types need: from the decision to run a round until the turn is *)
(* over there is a round, room for its failure, and a session.             *)
(***************************************************************************)
InSession == {"bracket", "turn", "suspend", "check", "returning", "failing"}
Guarded == {"continue", "fail"} \cup InSession

Placed ==
  /\ runner.pc \in InSession => runner.current \in Sessions
  /\ runner.pc \in {"begin"} \cup Guarded => runner.round \in Rounds
  /\ runner.pc \in Guarded => build.spent[runner.round] < MaxAttempts

Shapes == TypeOK /\ Placed

-----------------------------------------------------------------------------
(* Types                                                                   *)

LEMMA Ranges ==
  /\ 0 \in 0 .. MaxSessions /\ Sessions \subseteq 0 .. MaxSessions
  /\ 0 \in 0 .. MaxRounds /\ Rounds \subseteq 0 .. MaxRounds
  /\ 0 \in 0 .. MaxAttempts
  /\ 0 .. MaxSessions = {0} \cup Sessions
  BY BoundsAssumption DEF BoundsAssumption, Sessions, Rounds

LEMMA TurnType == IdleTurn \in Turns
  BY DEF IdleTurn, Turns

LEMMA EndType ==
  ASSUME sessions \in [Sessions -> Brackets], NEW s \in Sessions
  PROVE  EndOf(s) \in [Sessions -> Brackets]
  BY DEF EndOf, Brackets, Statuses

LEMMA RunType == ASSUME TypeOK, Decision = "run" PROVE Round \in Rounds
  BY BoundsAssumption DEF BoundsAssumption, Decision, Round, Rounds, TypeOK, Builds

LEMMA InitShapes == Init => Shapes
<1> SUFFICES ASSUME Init PROVE Shapes
  OBVIOUS
<1> USE BoundsAssumption DEF BoundsAssumption, Init
<1>1. build \in Builds
  BY DEF Builds, Modes, Commands, Rounds
<1>2. sessions \in [Sessions -> Brackets]
  BY DEF Brackets, Statuses
<1>3. runner \in Runners
  BY DEF Runners, Places, Commands
<1>4. used \in Usage
  BY DEF Usage
<1>5. Placed
  BY DEF Placed, Guarded, InSession
<1> QED BY <1>1, <1>2, <1>3, <1>4, <1>5, TurnType DEF Shapes, TypeOK

\* The operator and the agents.
Outside ==
  \/ (\E c \in Commands : Request(c)) \/ Answer
  \/ \E s \in Sessions : GuardTerminal(s) \/ DepositTerminal(s) \/ EndLate(s)
\* The runner between turns.
Deciding ==
  \/ DecideStop \/ DecideControl \/ DecideWait \/ DecideRun \/ DecideReclaim
  \/ RecoverAfterResume \/ (\E s \in Sessions : ReclaimSession(s)) \/ Attached
  \/ AcknowledgeResume \/ AcknowledgeAbort \/ ReadForPause \/ AcknowledgePause
Opening ==
  BeginExhausted \/ BeginFresh \/ BeginContinuation \/ ReadForContinuation \/ Continue \/ OpenTurn
Turning == InTurn \/ ExpireBudget \/ TurnSettles \/ FallBack
Closing ==
  ReadForSuspension \/ LeaveUnsuspended \/ Suspend \/ CheckTerminal \/ CloseSession \/ FailPhase
Dying == Shutdown \/ Crash \/ Relaunch

LEMMA NextSplits == Next => Outside \/ Deciding \/ Opening \/ Turning \/ Closing \/ Dying
  BY DEF Next, Step, Outside, Deciding, Opening, Turning, Closing, Dying

LEMMA OutsideShapes == ASSUME Shapes, Outside PROVE Shapes'
<1> USE DEF Shapes, TypeOK
<1>1. ASSUME NEW c \in Commands, Request(c) PROVE Shapes'
  <2>1. build' \in Builds /\ build'.spent = build.spent
    BY <1>1 DEF Request, Requested, Builds, Commands
  <2>2. turn' \in Turns
    <3>1. CASE c = "resume"
      BY <1>1, <3>1 DEF Request
    <3>2. CASE c \in {"pause", "abort"}
      <4>1. turn.feed \in Seq({"pause", "abort"})
        BY DEF Turns
      <4>2. Append(turn.feed, c) \in Seq({"pause", "abort"})
        BY <3>2, <4>1
      <4> QED BY <1>1, <4>2 DEF Request, Turns
    <3> QED BY <3>1, <3>2 DEF Commands
  <2>3. used' \in Usage
    BY <1>1, BoundsAssumption DEF Request, BoundsAssumption, Usage
  <2>4. Placed'
    BY <1>1, <2>1 DEF Placed, Request
  <2> QED BY <1>1, <2>1, <2>2, <2>3, <2>4 DEF Request, Appended, Commands
<1>2. CASE Answer
  <2>1. build' \in Builds /\ \A r \in Rounds : build'.spent[r] \in {build.spent[r], 0}
    <3>1. [build.spent EXCEPT ![Round] = 0] \in [Rounds -> 0 .. MaxAttempts]
      <4>1. build.spent \in [Rounds -> 0 .. MaxAttempts]
        BY DEF Builds
      <4> QED BY <4>1, Ranges
    <3>2. build' = [build EXCEPT !.blocked = FALSE, !.spent = [build.spent EXCEPT ![Round] = 0]]
      BY <1>2 DEF Answer, Builds
    <3> QED BY <3>1, <3>2 DEF Builds
  <2>2. used' \in Usage
    BY <1>2, BoundsAssumption DEF Answer, BoundsAssumption, Usage
  <2>3. Placed'
    <3>1. runner' = runner
      BY <1>2 DEF Answer
    <3>2. ASSUME runner.pc \in Guarded PROVE build'.spent[runner.round] < MaxAttempts
      BY <2>1, <3>2, BoundsAssumption DEF BoundsAssumption, Placed, Guarded
    <3> QED BY <3>1, <3>2 DEF Placed
  <2> QED BY <1>2, <2>1, <2>2, <2>3 DEF Answer, Appended
<1>3. ASSUME NEW s \in Sessions, GuardTerminal(s) PROVE Shapes'
  BY <1>3 DEF GuardTerminal, Placed
<1>4. ASSUME NEW s \in Sessions, DepositTerminal(s) PROVE Shapes'
  <2>1. build' \in Builds /\ build'.spent = build.spent
    BY <1>4 DEF DepositTerminal, Builds, Brackets
  <2>2. sessions' \in [Sessions -> Brackets]
    BY <1>4 DEF DepositTerminal, Brackets
  <2>3. Placed'
    BY <1>4, <2>1 DEF Placed, DepositTerminal
  <2> QED BY <1>4, <2>1, <2>2, <2>3 DEF DepositTerminal, Appended
<1>5. ASSUME NEW s \in Sessions, EndLate(s) PROVE Shapes'
  BY <1>5, EndType DEF EndLate, Appended, Placed
<1> QED BY <1>1, <1>2, <1>3, <1>4, <1>5 DEF Outside

\* What the runner will end and keep when it attaches.
LEMMA RecoverType ==
  ASSUME runner \in Runners, Recover PROVE runner' \in Runners /\ runner'.pc = "reclaim"
<1>1. PICK keep \in {0} \cup Sessions, ending \in SUBSET Sessions :
        runner' = [runner EXCEPT !.pc = "reclaim", !.recovery = keep, !.ending = ending]
  BY DEF Recover
<1>2. keep \in 0 .. MaxSessions
  BY Ranges
<1>3. "reclaim" \in Places
  BY DEF Places
<1> QED BY <1>1, <1>2, <1>3 DEF Runners

LEMMA GotoType ==
  ASSUME runner \in Runners, NEW place \in Places, Goto(place)
  PROVE  runner' \in Runners /\ runner' = [runner EXCEPT !.pc = place]
  BY DEF Goto, Runners

LEMMA GotoLoopType ==
  ASSUME runner \in Runners, GotoLoop PROVE runner' \in Runners /\ runner'.pc = "decide"
  BY DEF GotoLoop, Runners, Places

LEMMA AcknowledgedType ==
  ASSUME runner \in Runners, NEW c \in Commands, Acknowledged(c)
  PROVE  runner' \in Runners /\ runner'.pc \in {"decide", "recover", "exited"}
  BY DEF Acknowledged, Goto, Runners, Places

LEMMA DecidingShapes == ASSUME Shapes, Deciding PROVE Shapes'
<1> USE DEF Shapes, TypeOK
<1> DEFINE Loose == runner'.pc \notin {"begin"} \cup Guarded
<1>0. Loose => Placed'
  BY DEF Placed, Guarded
<1>1. CASE DecideStop
  BY <1>0, <1>1, GotoType DEF DecideStop, Places, Guarded, InSession, Runners
<1>2. CASE DecideControl
  BY <1>0, <1>2 DEF DecideControl, Runners, Places, Guarded, InSession
<1>3. CASE DecideWait
  BY <1>0, <1>3, GotoType, RecoverType DEF DecideWait, Places, Guarded, InSession, Runners
<1>4. CASE DecideRun
  <2>1. Round \in Rounds
    BY <1>4, RunType DEF DecideRun
  <2>2. runner' \in Runners /\ runner'.pc = "begin" /\ runner'.round = Round
    <3>1. PICK r \in {runner.recovery, 0} :
            runner' = [runner EXCEPT !.pc = "begin", !.decided = "run", !.round = Round,
                                     !.recovery = r]
      BY <1>4 DEF DecideRun
    <3>2. r \in 0 .. MaxSessions /\ Round \in 0 .. MaxRounds /\ "begin" \in Places
      BY <2>1, Ranges DEF Runners, Places
    <3> QED BY <3>1, <3>2 DEF Runners
  <2>3. Placed'
    BY <2>1, <2>2 DEF Placed, Guarded, InSession
  <2>4. Live(runner.recovery) => runner.recovery \in Sessions
    BY BoundsAssumption DEF Live, Runners, Sessions, BoundsAssumption
  <2> QED BY <1>4, <2>2, <2>3, <2>4, EndType DEF DecideRun, Appended
<1>5. CASE DecideReclaim
  BY <1>0, <1>5, RecoverType DEF DecideReclaim, Guarded, InSession
<1>6. CASE RecoverAfterResume
  BY <1>0, <1>6, RecoverType DEF RecoverAfterResume, Guarded, InSession
<1>7. ASSUME NEW s \in Sessions, ReclaimSession(s) PROVE Shapes'
  <2>1. runner' \in Runners /\ runner'.pc = "reclaim"
    BY <1>7 DEF ReclaimSession, Runners
  <2> QED BY <1>0, <1>7, <2>1, EndType DEF ReclaimSession, Appended, Guarded, InSession
<1>8. CASE Attached
  BY <1>0, <1>8, GotoLoopType DEF Attached, Appended, Guarded, InSession
<1>9. CASE AcknowledgeResume
  <2>1. build' \in Builds
    BY <1>9 DEF AcknowledgeResume, Builds, Modes
  <2> QED BY <1>0, <1>9, <2>1, AcknowledgedType
          DEF AcknowledgeResume, Appended, Guarded, InSession, Commands
<1>10. CASE AcknowledgeAbort
  <2>1. build' \in Builds
    BY <1>10 DEF AcknowledgeAbort, Builds, Modes
  <2> QED BY <1>0, <1>10, <2>1, AcknowledgedType
          DEF AcknowledgeAbort, Appended, Guarded, InSession, Commands
<1>11. CASE ReadForPause
  BY <1>0, <1>11, AcknowledgedType DEF ReadForPause, Guarded, InSession, Commands
<1>12. CASE AcknowledgePause
  <2>1. build' \in Builds
    BY <1>12 DEF AcknowledgePause, Builds, Modes
  <2> QED BY <1>0, <1>12, <2>1, AcknowledgedType
          DEF AcknowledgePause, Appended, Guarded, InSession, Commands
<1> QED BY <1>1, <1>2, <1>3, <1>4, <1>5, <1>6, <1>7, <1>8, <1>9, <1>10, <1>11, <1>12 DEF Deciding

\* A session opened for the runner's round.
LEMMA OpenBracketShapes ==
  ASSUME Shapes, NEW predecessor \in 0 .. MaxSessions, OpenBracket(predecessor),
         runner.pc \in {"begin", "continue"}, build.spent[runner.round] < MaxAttempts,
         UNCHANGED <<build, launched, late, used, newest>>
  PROVE  Shapes'
<1> USE DEF Shapes, TypeOK
<1>1. PICK s \in Sessions :
        /\ sessions' = Opened(s, predecessor)
        /\ runner' = [runner EXCEPT !.pc = "bracket", !.current = s, !.recovery = 0]
  BY DEF OpenBracket
<1>2. sessions' \in [Sessions -> Brackets]
  <2>1. runner.round \in 0 .. MaxRounds
    BY DEF Runners
  <2>2. ASSUME NEW t \in Sessions PROVE Opened(s, predecessor)[t] \in Brackets
    <3>1. sessions[t] \in Brackets
      BY <2>2
    <3>2. [sessions[t] EXCEPT !.status = "open", !.round = runner.round, !.pred = predecessor]
            \in Brackets
      BY <2>1, <3>1 DEF Brackets, Statuses
    <3>3. [sessions[t] EXCEPT !.status = "superseded"] \in Brackets
      BY <3>1 DEF Brackets, Statuses
    <3> QED BY <2>2, <3>1, <3>2, <3>3 DEF Opened
  <2> QED BY <1>1, <2>2 DEF Opened
<1>3. runner' \in Runners /\ runner'.pc = "bracket" /\ runner'.current \in Sessions
      /\ runner'.round = runner.round
  <2>1. s \in 0 .. MaxSessions /\ 0 \in 0 .. MaxSessions /\ "bracket" \in Places
    BY Ranges DEF Places
  <2> QED BY <1>1, <2>1 DEF Runners
<1>4. Placed'
  BY <1>3 DEF Placed, Guarded, InSession
<1> QED BY <1>2, <1>3, <1>4, TurnType DEF OpenBracket, Appended

LEMMA OpeningShapes == ASSUME Shapes, Opening PROVE Shapes'
<1> USE DEF Shapes, TypeOK
<1>1. CASE BeginExhausted
  <2>1. build' \in Builds
    BY <1>1 DEF BeginExhausted, Builds
  <2> QED BY <1>1, <2>1, GotoLoopType DEF BeginExhausted, Appended, Placed, Guarded, InSession
<1>2. CASE BeginFresh
  BY <1>2, OpenBracketShapes, BoundsAssumption DEF BeginFresh, BoundsAssumption
<1>3. CASE BeginContinuation
  <2>1. runner' \in Runners /\ runner'.pc = "continue" /\ runner'.round = runner.round
    BY <1>3, GotoType DEF BeginContinuation, Places, Runners
  <2> QED BY <1>3, <2>1 DEF BeginContinuation, Placed, Guarded, InSession
<1>4. CASE ReadForContinuation
  BY <1>4, GotoLoopType DEF ReadForContinuation, Placed, Guarded, InSession
<1>5. CASE Continue
  BY <1>5, OpenBracketShapes DEF Continue, Runners, Placed, Guarded
<1>6. CASE OpenTurn
  <2>1. turn' \in Turns
    BY <1>6 DEF OpenTurn, Turns
  <2>2. runner' \in Runners /\ runner'.pc \in {"turn", "exited"}
        /\ runner' = [runner EXCEPT !.pc = runner'.pc]
    BY <1>6, GotoType DEF OpenTurn, Places, Runners
  <2>3. launched' \subseteq Sessions
    BY <1>6 DEF OpenTurn, Placed, InSession
  <2> QED BY <1>6, <2>1, <2>2, <2>3 DEF OpenTurn, Placed, Guarded, InSession, Runners
<1> QED BY <1>1, <1>2, <1>3, <1>4, <1>5, <1>6 DEF Opening

LEMMA TurningShapes == ASSUME Shapes, Turning PROVE Shapes'
<1> USE DEF Shapes, TypeOK
<1>1. CASE InTurn
  <2>1. turn.feed # << >> => Tail(turn.feed) \in Seq({"pause", "abort"})
    BY DEF Turns
  <2>2. turn' \in Turns
    <3>1. CASE DeliverPause
      BY <2>1, <3>1 DEF DeliverPause, Turns
    <3>2. CASE DeliverAbort
      BY <2>1, <3>2 DEF DeliverAbort, Turns
    <3>3. CASE ReadForInterrupt
      BY <3>3 DEF ReadForInterrupt, Turns
    <3>4. CASE InterruptForPause
      BY <3>4 DEF InterruptForPause, Turns
    <3> QED BY <1>1, <3>1, <3>2, <3>3, <3>4 DEF InTurn
  <2>3. UNCHANGED <<build, sessions, runner, checked, launched, late, used, newest>>
    BY <1>1 DEF InTurn, DeliverPause, DeliverAbort, ReadForInterrupt, InterruptForPause
  <2> QED BY <2>2, <2>3 DEF Placed
<1>2. CASE ExpireBudget
  BY <1>2 DEF ExpireBudget, Turns, Placed
<1>3. CASE TurnSettles
  <2>1. turn' \in Turns
    <3>1. << >> \in Seq({"pause", "abort"})
      OBVIOUS
    <3> QED BY <1>3, <3>1 DEF TurnSettles, Turns
  <2>2. runner' \in Runners /\ runner'.pc \in {"suspend", "check"}
        /\ runner'.current = runner.current /\ runner'.round = runner.round
    BY <1>3, GotoType DEF TurnSettles, Places, Runners
  <2> QED BY <1>3, <2>1, <2>2 DEF TurnSettles, Placed, Guarded, InSession
<1>4. CASE FallBack
  <2>1. runner' \in Runners /\ runner'.pc = "decide"
    <3>1. 0 \in 0 .. MaxSessions /\ "decide" \in Places
      BY Ranges DEF Places
    <3> QED BY <1>4, <3>1 DEF FallBack, GotoLoopWithout, Runners
  <2> QED BY <1>4, <2>1, EndType, TurnType DEF FallBack, Appended, Placed, Guarded, InSession
<1> QED BY <1>1, <1>2, <1>3, <1>4 DEF Turning

LEMMA SuspendedType ==
  ASSUME runner \in Runners, Suspended
  PROVE  runner' \in Runners /\ runner'.pc \in {"decide", "exited"}
  BY DEF Suspended, Runners, Places

LEMMA ClosingShapes == ASSUME Shapes, Closing PROVE Shapes'
<1> USE DEF Shapes, TypeOK
<1>1. CASE ReadForSuspension
  BY <1>1, SuspendedType, EndType DEF ReadForSuspension, Appended, Placed, Guarded, InSession
<1>2. CASE LeaveUnsuspended
  BY <1>2, SuspendedType DEF LeaveUnsuspended, Placed, Guarded, InSession
<1>3. CASE Suspend
  <2>1. sessions' \in [Sessions -> Brackets]
    BY <1>3 DEF Suspend, Brackets, Statuses
  <2> QED BY <1>3, <2>1, SuspendedType DEF Suspend, Appended, Placed, Guarded, InSession
<1>4. CASE CheckTerminal
  <2>1. runner.current \in Sessions
    BY <1>4 DEF CheckTerminal, Placed, InSession
  <2>2. late' \subseteq Sessions
    BY <1>4, <2>1 DEF CheckTerminal, Turns
  <2>3. \/ GotoLoop
        \/ \E place \in {"returning", "fail", "failing"} : Goto(place)
    BY <1>4 DEF CheckTerminal, Turns
  <2>4. runner' \in Runners /\ runner'.pc \in {"decide", "returning", "fail", "failing"}
        /\ runner'.current = runner.current /\ runner'.round = runner.round
    BY <2>3 DEF GotoLoop, Goto, Runners, Places
  <2> QED BY <1>4, <2>1, <2>2, <2>4 DEF CheckTerminal, Placed, Guarded, InSession
<1>5. CASE CloseSession
  <2>1. runner' \in Runners /\ runner'.pc \in {"decide", "fail"} /\ runner'.round = runner.round
    <3>1. GotoLoop \/ Goto("fail")
      BY <1>5 DEF CloseSession
    <3>2. CASE GotoLoop
      BY <3>2 DEF GotoLoop, Runners, Places
    <3>3. CASE Goto("fail")
      BY <3>3 DEF Goto, Runners, Places
    <3> QED BY <3>1, <3>2, <3>3
  <2>2. sessions' \in [Sessions -> Brackets]
    BY <1>5, EndType DEF CloseSession, Placed, InSession
  <2> QED BY <1>5, <2>1, <2>2 DEF CloseSession, Appended, Placed, Guarded, InSession
<1>6. CASE FailPhase
  <2>1. runner.round \in Rounds /\ build.spent[runner.round] < MaxAttempts
    BY <1>6 DEF FailPhase, Placed, Guarded
  <2>2. [build.spent EXCEPT ![runner.round] = @ + 1] \in [Rounds -> 0 .. MaxAttempts]
    BY <2>1, BoundsAssumption DEF Builds, BoundsAssumption
  <2>3. build' = [build EXCEPT !.spent = [build.spent EXCEPT ![runner.round] = @ + 1]]
    BY <1>6 DEF FailPhase, Builds
  <2>4. build' \in Builds
    BY <2>2, <2>3 DEF Builds
  <2>5. sessions' \in [Sessions -> Brackets]
    BY <1>6 DEF FailPhase, Brackets
  <2> QED BY <1>6, <2>4, <2>5, GotoLoopType DEF FailPhase, Appended, Placed, Guarded, InSession
<1> QED BY <1>1, <1>2, <1>3, <1>4, <1>5, <1>6 DEF Closing

LEMMA DyingShapes == ASSUME Shapes, Dying PROVE Shapes'
<1> USE DEF Shapes, TypeOK
<1>1. CASE Shutdown
  <2>1. runner' \in Runners /\ runner' = [runner EXCEPT !.shutdown = TRUE]
    BY <1>1 DEF Shutdown, Runners
  <2>2. turn' \in Turns
    BY <1>1 DEF Shutdown, Turns
  <2>3. used' \in Usage
    BY <1>1, BoundsAssumption DEF Shutdown, Usage, BoundsAssumption
  <2> QED BY <1>1, <2>1, <2>2, <2>3 DEF Shutdown, Placed, Runners
<1>2. CASE Crash
  <2>1. used' \in Usage
    BY <1>2, BoundsAssumption DEF Crash, Usage, BoundsAssumption
  <2> QED BY <1>2, <2>1, GotoType DEF Crash, Placed, Guarded, InSession, Places, Runners
<1>3. CASE Relaunch
  <2>1. runner' \in Runners /\ runner'.pc = "decide"
    <3>1. 0 \in 0 .. MaxSessions /\ "decide" \in Places
      BY Ranges DEF Places
    <3> QED BY <1>3, <3>1 DEF Relaunch, Runners
  <2> QED BY <1>3, <2>1, TurnType DEF Relaunch, Placed, Guarded, InSession
<1> QED BY <1>1, <1>2, <1>3 DEF Dying

LEMMA NextShapes == ASSUME Shapes, [Next]_vars PROVE Shapes'
<1>1. CASE UNCHANGED vars
  BY <1>1 DEF Shapes, TypeOK, Placed, vars
<1>2. CASE Next
  BY <1>2, NextSplits, OutsideShapes, DecidingShapes, OpeningShapes, TurningShapes,
     ClosingShapes, DyingShapes
<1> QED BY <1>1, <1>2

-----------------------------------------------------------------------------
(* The operator's newest command                                           *)

(***************************************************************************)
(* The runner acknowledges a decision it made earlier.  A resume in hand   *)
(* was decided before a pause that is newer, and that pause is pending; an *)
(* abort leaves no decision in hand.                                       *)
(***************************************************************************)
CommandInv ==
  /\ NewestCommandStands
  /\ runner.pc = "ack" /\ runner.decided = "resume" /\ newest = "pause" => "pause" \in build.pending
  /\ build.mode = "aborted" => runner.pc # "ack"

\* A step that neither writes commands nor takes a decision in hand.
Quiet ==
  /\ build'.mode = build.mode /\ build'.pending = build.pending /\ newest' = newest
  /\ runner'.pc = "ack" => runner.pc = "ack" /\ runner'.decided = runner.decided

LEMMA QuietKeeps == ASSUME CommandInv, Quiet PROVE CommandInv'
  BY DEF CommandInv, Quiet, NewestCommandStands

LEMMA OutsideCommands == ASSUME Shapes, CommandInv, Outside PROVE CommandInv'
<1> USE DEF Shapes, TypeOK
<1>1. ASSUME NEW c \in Commands, Request(c) PROVE CommandInv'
  <2>1. build'.mode = build.mode /\ build'.pending = Requested(c).pending
    BY <1>1 DEF Request, Requested, Builds
  <2> QED BY <1>1, <2>1
          DEF Request, Requested, Builds, Commands, CommandInv, NewestCommandStands
<1>2. CASE Answer
  BY <1>2, QuietKeeps DEF Answer, Quiet, Builds
<1>3. ASSUME NEW s \in Sessions, GuardTerminal(s) \/ DepositTerminal(s) \/ EndLate(s)
      PROVE  CommandInv'
  BY <1>3, QuietKeeps DEF GuardTerminal, DepositTerminal, EndLate, Quiet, Builds
<1> QED BY <1>1, <1>2, <1>3 DEF Outside

LEMMA RecoverQuiet == ASSUME Shapes, Recover PROVE runner'.pc = "reclaim"
  BY RecoverType DEF Shapes, TypeOK

LEMMA AcknowledgedQuiet ==
  ASSUME Shapes, NEW c \in Commands, Acknowledged(c) PROVE runner'.pc # "ack"
  BY AcknowledgedType DEF Shapes, TypeOK

LEMMA DecidingCommands == ASSUME Shapes, CommandInv, Deciding PROVE CommandInv'
<1> USE DEF Shapes, TypeOK
<1>1. CASE DecideStop
  BY <1>1, QuietKeeps, GotoType DEF DecideStop, Quiet, Places, Runners
<1>2. CASE DecideControl
  <2>1. runner'.pc = "ack" /\ runner'.decided = Decision
    BY <1>2 DEF DecideControl, Runners
  <2>2. UNCHANGED <<build, newest>> /\ Decision \in Commands
    BY <1>2 DEF DecideControl
  <2>3. build.mode # "aborted"
    BY <2>2 DEF Decision, Commands
  <2>4. Decision = "resume" => "resume" \in build.pending
    BY DEF Decision
  <2> QED BY <2>1, <2>2, <2>3, <2>4 DEF CommandInv, NewestCommandStands
<1>3. CASE DecideWait
  BY <1>3, QuietKeeps, GotoType, RecoverQuiet DEF DecideWait, Quiet, Places, Runners
<1>4. CASE DecideRun
  <2>1. runner'.pc = "begin"
    BY <1>4 DEF DecideRun, Runners
  <2> QED BY <1>4, <2>1, QuietKeeps DEF DecideRun, Quiet
<1>5. CASE DecideReclaim \/ RecoverAfterResume
  BY <1>5, QuietKeeps, RecoverQuiet DEF DecideReclaim, RecoverAfterResume, Quiet
<1>6. ASSUME NEW s \in Sessions, ReclaimSession(s) PROVE CommandInv'
  BY <1>6, QuietKeeps DEF ReclaimSession, Quiet, Runners
<1>7. CASE Attached
  BY <1>7, QuietKeeps, GotoLoopType DEF Attached, Quiet
<1>8. CASE AcknowledgeResume
  <2>1. build'.mode = "running" /\ build'.pending = build.pending \ {"resume"}
    BY <1>8 DEF AcknowledgeResume, Builds
  <2>2. runner'.pc # "ack" /\ newest' = newest /\ runner.pc = "ack" /\ runner.decided = "resume"
    BY <1>8, AcknowledgedQuiet DEF AcknowledgeResume, Commands
  <2> QED BY <2>1, <2>2 DEF CommandInv, NewestCommandStands
<1>9. CASE AcknowledgeAbort
  <2>1. build'.mode = "aborted" /\ runner'.pc # "ack"
    BY <1>9, AcknowledgedQuiet DEF AcknowledgeAbort, Builds, Commands
  <2> QED BY <2>1 DEF CommandInv, NewestCommandStands
<1>10. CASE ReadForPause
  BY <1>10, QuietKeeps, AcknowledgedQuiet DEF ReadForPause, Quiet, Commands
<1>11. CASE AcknowledgePause
  <2>1. build'.mode = "paused" /\ build'.pending = build.pending \ {"pause"}
    BY <1>11 DEF AcknowledgePause, Builds
  <2>2. runner'.pc # "ack" /\ newest' = newest /\ build.mode # "aborted"
    BY <1>11, AcknowledgedQuiet DEF AcknowledgePause, Commands, CommandInv
  <2> QED BY <2>1, <2>2 DEF CommandInv, NewestCommandStands
<1> QED BY <1>1, <1>2, <1>3, <1>4, <1>5, <1>6, <1>7, <1>8, <1>9, <1>10, <1>11 DEF Deciding

LEMMA OpeningQuiet == ASSUME Shapes, Opening PROVE Quiet
<1> USE DEF Shapes, TypeOK
<1>1. CASE BeginExhausted
  BY <1>1, GotoLoopType DEF BeginExhausted, Quiet, Builds
<1>2. CASE BeginFresh \/ Continue
  <2>1. runner'.pc = "bracket"
    BY <1>2 DEF BeginFresh, Continue, OpenBracket, Runners
  <2> QED BY <1>2, <2>1 DEF BeginFresh, Continue, Quiet
<1>3. CASE BeginContinuation
  BY <1>3, GotoType DEF BeginContinuation, Quiet, Places, Runners
<1>4. CASE ReadForContinuation
  BY <1>4, GotoLoopType DEF ReadForContinuation, Quiet
<1>5. CASE OpenTurn
  BY <1>5, GotoType DEF OpenTurn, Quiet, Places, Runners
<1> QED BY <1>1, <1>2, <1>3, <1>4, <1>5 DEF Opening

LEMMA TurningQuiet == ASSUME Shapes, Turning PROVE Quiet
<1> USE DEF Shapes, TypeOK
<1>1. CASE InTurn \/ ExpireBudget
  BY <1>1 DEF InTurn, DeliverPause, DeliverAbort, ReadForInterrupt, InterruptForPause,
              ExpireBudget, Quiet
<1>2. CASE TurnSettles
  <2>1. runner'.pc \in {"suspend", "check"}
    BY <1>2, GotoType DEF TurnSettles, Places, Runners
  <2> QED BY <1>2, <2>1 DEF TurnSettles, Quiet
<1>3. CASE FallBack
  <2>1. runner'.pc = "decide"
    BY <1>3 DEF FallBack, GotoLoopWithout, Runners
  <2> QED BY <1>3, <2>1 DEF FallBack, Quiet
<1> QED BY <1>1, <1>2, <1>3 DEF Turning

LEMMA ClosingQuiet == ASSUME Shapes, Closing PROVE Quiet
<1> USE DEF Shapes, TypeOK
<1>1. CASE ReadForSuspension \/ LeaveUnsuspended \/ Suspend
  BY <1>1, SuspendedType DEF ReadForSuspension, LeaveUnsuspended, Suspend, Quiet
<1>2. CASE CheckTerminal
  <2>1. \/ GotoLoop
        \/ \E place \in {"returning", "fail", "failing"} : Goto(place)
    BY <1>2 DEF CheckTerminal, Turns
  <2>2. runner'.pc # "ack"
    BY <2>1 DEF GotoLoop, Goto, Runners
  <2> QED BY <1>2, <2>2 DEF CheckTerminal, Quiet
<1>3. CASE CloseSession
  <2>1. runner'.pc # "ack"
    BY <1>3 DEF CloseSession, GotoLoop, Goto, Runners
  <2> QED BY <1>3, <2>1 DEF CloseSession, Quiet
<1>4. CASE FailPhase
  BY <1>4, GotoLoopType DEF FailPhase, Quiet, Builds
<1> QED BY <1>1, <1>2, <1>3, <1>4 DEF Closing

LEMMA DyingQuiet == ASSUME Shapes, Dying PROVE Quiet
<1> USE DEF Shapes, TypeOK
<1>1. CASE Shutdown
  BY <1>1 DEF Shutdown, Quiet, Runners
<1>2. CASE Crash
  BY <1>2, GotoType DEF Crash, Quiet, Places, Runners
<1>3. CASE Relaunch
  BY <1>3 DEF Relaunch, Quiet, Runners
<1> QED BY <1>1, <1>2, <1>3 DEF Dying

LEMMA NextCommands == ASSUME Shapes, CommandInv, [Next]_vars PROVE CommandInv'
<1>1. CASE UNCHANGED vars
  BY <1>1 DEF CommandInv, NewestCommandStands, vars
<1>2. CASE Next
  BY <1>2, NextSplits, OutsideCommands, DecidingCommands, OpeningQuiet, TurningQuiet,
     ClosingQuiet, DyingQuiet, QuietKeeps
<1> QED BY <1>1, <1>2

-----------------------------------------------------------------------------
(* One outcome per session                                                 *)

(***************************************************************************)
(* A terminal that was delivered belongs to a round that is done.          *)
(***************************************************************************)
DeliveredIsDone ==
  \A s \in Sessions :
    sessions[s].delivered => sessions[s].status # "none" /\ sessions[s].round <= build.done

OutcomeInv == OneOutcome /\ DeliveredIsDone

(***************************************************************************)
(* What a writer learned from its read holds until it appends: an agent    *)
(* that its terminal is accepted, a suspending runner that there is none,  *)
(* a continuing one that the predecessor is live and its work is due.      *)
(***************************************************************************)
ReadsInv ==
  /\ \A s \in checked \cap Sessions : ~Refused(s)
  /\ Runner \in checked =>
       \/ runner.pc = "ack"
       \/ runner.pc = "suspend" /\ ~Refused(runner.current)
       \/ runner.pc = "continue" /\ Live(runner.recovery) /\ Matches(runner.recovery)

\* Every step that changes what a read can depend on is an append.
LEMMA ChangesAppend ==
  ASSUME Next PROVE checked' = {} \/ UNCHANGED <<build, sessions>>
<1>1. CASE Outside
  BY <1>1 DEF Outside, Request, Answer, GuardTerminal, DepositTerminal, EndLate, Appended
<1>2. CASE Deciding
  BY <1>2 DEF Deciding, DecideStop, DecideControl, DecideWait, DecideRun, DecideReclaim,
              RecoverAfterResume, ReclaimSession, Attached, AcknowledgeResume, AcknowledgeAbort,
              ReadForPause, AcknowledgePause, Appended
<1>3. CASE Opening
  BY <1>3 DEF Opening, BeginExhausted, BeginFresh, BeginContinuation, ReadForContinuation,
              Continue, OpenTurn, OpenBracket, Appended
<1>4. CASE Turning
  BY <1>4 DEF Turning, InTurn, DeliverPause, DeliverAbort, ReadForInterrupt, InterruptForPause,
              ExpireBudget, TurnSettles, FallBack, Appended
<1>5. CASE Closing
  BY <1>5 DEF Closing, ReadForSuspension, LeaveUnsuspended, Suspend, CheckTerminal, CloseSession,
              FailPhase, Appended
<1>6. CASE Dying
  BY <1>6 DEF Dying, Shutdown, Crash, Relaunch
<1> QED BY <1>1, <1>2, <1>3, <1>4, <1>5, <1>6, NextSplits

\* Without an append a step adds one read at most, and the runner that read stays
\* where it is or forgets.
LEMMA ReadsAdd ==
  ASSUME Shapes, Next, checked' # {}, UNCHANGED <<build, sessions>>
  PROVE  \/ \E s \in Sessions : ~Refused(s) /\ checked' = checked \cup {s} /\ UNCHANGED runner
         \/ /\ checked' = checked \cup {Runner} /\ UNCHANGED runner
            /\ \/ runner.pc = "ack"
               \/ runner.pc = "suspend" /\ ~Refused(runner.current)
               \/ runner.pc = "continue" /\ Live(runner.recovery) /\ Matches(runner.recovery)
         \/ checked' = checked \ {Runner}
         \/ checked' = checked /\ Runner \notin checked
         \/ checked' = checked /\ runner'.pc = runner.pc /\ runner'.current = runner.current
                                /\ runner'.recovery = runner.recovery
         \/ checked' = checked /\ runner.pc \notin {"ack", "suspend", "continue"}
<1>1. CASE Outside
  BY <1>1 DEF Outside, Request, Answer, GuardTerminal, DepositTerminal, EndLate, Appended
<1>2. CASE Deciding
  BY <1>2 DEF Deciding, DecideStop, DecideControl, DecideWait, DecideRun, DecideReclaim,
              RecoverAfterResume, ReclaimSession, Attached, AcknowledgeResume, AcknowledgeAbort,
              ReadForPause, AcknowledgePause, Appended
<1>3. CASE Opening
  BY <1>3 DEF Opening, BeginExhausted, BeginFresh, BeginContinuation, ReadForContinuation,
              Continue, OpenTurn, OpenBracket, Appended
<1>4. CASE Turning
  BY <1>4 DEF Turning, InTurn, DeliverPause, DeliverAbort, ReadForInterrupt, InterruptForPause,
              ExpireBudget, TurnSettles, FallBack, Appended
<1>5. CASE Closing
  BY <1>5 DEF Closing, ReadForSuspension, LeaveUnsuspended, Suspend, CheckTerminal, CloseSession,
              FailPhase, Appended
<1>6. CASE Dying
  BY <1>6 DEF Dying, Shutdown, Crash, Relaunch, Shapes, TypeOK, Runners
<1> QED BY <1>1, <1>2, <1>3, <1>4, <1>5, <1>6, NextSplits

LEMMA NextReads == ASSUME Shapes, ReadsInv, [Next]_vars PROVE ReadsInv'
<1> DEFINE Same == UNCHANGED <<build, sessions>>
<1>1. Same => \A s \in Sessions : Refused(s)' <=> Refused(s)
  BY DEF Refused
<1>2. Same => /\ \A s : Live(s)' <=> Live(s)
              /\ \A s : Matches(s)' <=> Matches(s)
  BY DEF Live, Matches, Decision, Round
<1>3. CASE UNCHANGED vars
  BY <1>3 DEF ReadsInv, vars, Refused, Live, Matches, Decision, Round
<1>4. CASE Next /\ checked' = {}
  BY <1>4 DEF ReadsInv
<1>5. CASE Next /\ checked' # {} /\ Same
  <2>1. \A s \in checked' \cap Sessions : s \in checked \/ ~Refused(s)
    BY <1>5, ReadsAdd DEF Runner, Sessions
  <2>2. \A s \in checked' \cap Sessions : ~Refused(s)'
    BY <1>1, <1>5, <2>1 DEF ReadsInv
  <2>3. ASSUME Runner \in checked'
        PROVE  /\ runner'.pc = runner.pc /\ runner'.current = runner.current
               /\ runner'.recovery = runner.recovery
               /\ \/ runner.pc = "ack"
                  \/ runner.pc = "suspend" /\ ~Refused(runner.current)
                  \/ runner.pc = "continue" /\ Live(runner.recovery) /\ Matches(runner.recovery)
    BY <1>5, <2>3, ReadsAdd DEF ReadsInv, Runner, Sessions
  <2>4. runner.pc = "suspend" => runner.current \in Sessions
    BY DEF Shapes, Placed, InSession
  <2> QED BY <1>1, <1>2, <1>5, <2>2, <2>3, <2>4
          DEF ReadsInv, Refused, Live, Matches, Decision, Round
<1> QED BY <1>3, <1>4, <1>5, ChangesAppend

\* What a step does to the sessions.
LEMMA SessionSteps ==
  ASSUME Shapes, Next
  PROVE  \/ sessions' = sessions /\ build'.done = build.done
         \/ \E s \in Sessions : sessions' = EndOf(s) /\ build'.done = build.done
         \/ \E s \in Sessions : DepositTerminal(s)
         \/ Suspend \/ BeginFresh \/ Continue \/ FailPhase
<1> USE DEF Shapes, TypeOK
<1>1. CASE Outside
  <2>1. ASSUME NEW c \in Commands, Request(c)
        PROVE  sessions' = sessions /\ build'.done = build.done
    BY <2>1 DEF Request, Requested, Builds
  <2>2. Answer => sessions' = sessions /\ build'.done = build.done
    BY DEF Answer, Builds
  <2> QED BY <1>1, <2>1, <2>2 DEF Outside, GuardTerminal, EndLate
<1>2. CASE Deciding
  <2>1. Live(runner.recovery) => runner.recovery \in Sessions
    BY Ranges DEF Live, Runners
  <2>2. CASE DecideRun
    BY <2>1, <2>2 DEF DecideRun
  <2>3. CASE AcknowledgeResume \/ AcknowledgeAbort \/ AcknowledgePause
    BY <2>3 DEF AcknowledgeResume, AcknowledgeAbort, AcknowledgePause, Builds
  <2> QED BY <1>2, <2>2, <2>3
          DEF Deciding, DecideStop, DecideControl, DecideWait, DecideReclaim, RecoverAfterResume,
              ReclaimSession, Attached, ReadForPause
<1>3. CASE Opening
  <2>1. BeginExhausted => sessions' = sessions /\ build'.done = build.done
    BY DEF BeginExhausted, Builds
  <2> QED BY <1>3, <2>1 DEF Opening, BeginContinuation, ReadForContinuation, OpenTurn
<1>4. CASE Turning
  BY <1>4 DEF Turning, InTurn, DeliverPause, DeliverAbort, ReadForInterrupt, InterruptForPause,
              ExpireBudget, TurnSettles, FallBack, Placed, InSession
<1>5. CASE Closing
  BY <1>5 DEF Closing, ReadForSuspension, LeaveUnsuspended, CheckTerminal, CloseSession, Placed,
              InSession
<1>6. CASE Dying
  BY <1>6 DEF Dying, Shutdown, Crash, Relaunch
<1> QED BY <1>1, <1>2, <1>3, <1>4, <1>5, <1>6, NextSplits

LEMMA SameOutcome ==
  ASSUME OutcomeInv, sessions' = sessions, build'.done = build.done PROVE OutcomeInv'
  BY DEF OutcomeInv, OneOutcome, DeliveredIsDone

\* Ending a session, or failing its round, leaves what it delivered.
LEMMA EndKeeps ==
  ASSUME Shapes, OutcomeInv, NEW s \in Sessions, sessions' = EndOf(s), build'.done = build.done
  PROVE  OutcomeInv'
<1> USE DEF Shapes, TypeOK
<1>1. \A t \in Sessions :
        /\ sessions'[t].delivered = sessions[t].delivered /\ sessions'[t].round = sessions[t].round
        /\ sessions'[t].pred = sessions[t].pred
        /\ sessions'[t].status \in {sessions[t].status, "ended"}
  BY DEF EndOf, Brackets
<1>2. \A t \in Sessions : sessions[t].pred # 0 => sessions[t].pred \in Sessions
  BY Ranges DEF Brackets
<1> QED BY <1>1, <1>2 DEF OutcomeInv, OneOutcome, DeliveredIsDone

LEMMA FailKeeps == ASSUME Shapes, OutcomeInv, FailPhase PROVE OutcomeInv'
<1> USE DEF Shapes, TypeOK
<1>1. \A t \in Sessions :
        /\ sessions'[t].delivered = sessions[t].delivered /\ sessions'[t].round = sessions[t].round
        /\ sessions'[t].pred = sessions[t].pred /\ sessions'[t].status = sessions[t].status
  BY DEF FailPhase, Brackets
<1>2. \A t \in Sessions : sessions[t].pred # 0 => sessions[t].pred \in Sessions
  BY Ranges DEF Brackets
<1>3. build'.done = build.done
  BY DEF FailPhase, Builds
<1> QED BY <1>1, <1>2, <1>3 DEF OutcomeInv, OneOutcome, DeliveredIsDone

\* A terminal is accepted of a session that is open, so it is neither suspended nor
\* superseded, and its round is ahead of every delivered one.
LEMMA DepositKeeps ==
  ASSUME Shapes, OutcomeInv, ReadsInv, NEW s \in Sessions, DepositTerminal(s)
  PROVE  OutcomeInv'
<1> USE DEF Shapes, TypeOK
<1>1. sessions[s].status = "open" /\ build.done < sessions[s].round
  <2>1. ~Refused(s)
    BY DEF DepositTerminal, ReadsInv
  <2> QED BY <2>1 DEF Refused, Brackets, Builds
<1>2. \A t \in Sessions :
        /\ sessions'[t].round = sessions[t].round /\ sessions'[t].pred = sessions[t].pred
        /\ sessions'[t].status = sessions[t].status
        /\ sessions'[t].delivered <=> sessions[t].delivered \/ t = s
  BY DEF DepositTerminal, Brackets
<1>3. build'.done = sessions[s].round
  BY DEF DepositTerminal, Builds
<1>4. \A t \in Sessions : sessions[t].delivered =>
        sessions[t].status # "none" /\ sessions[t].round <= build.done
  BY DEF OutcomeInv, DeliveredIsDone
<1>5. DeliveredIsDone'
  BY <1>1, <1>2, <1>3, <1>4 DEF DeliveredIsDone, Brackets, Builds
<1>6. \A t \in Sessions : sessions[t].pred # 0 => sessions[t].pred \in Sessions
  BY Ranges DEF Brackets
<1>7. OneOutcome'
  <2>1. \A t \in Sessions : sessions'[t].delivered => sessions'[t].status # "suspended"
    BY <1>1, <1>2 DEF OutcomeInv, OneOutcome
  <2>2. \A t \in Sessions : sessions'[t].pred # 0 =>
          /\ ~sessions'[sessions'[t].pred].delivered
          /\ sessions'[sessions'[t].pred].status \in {"superseded", "ended"}
    BY <1>1, <1>2, <1>6 DEF OutcomeInv, OneOutcome
  <2>3. \A t \in Sessions : t # s /\ sessions[t].delivered => sessions[t].round # sessions[s].round
    BY <1>1, <1>4 DEF Brackets, Builds
  <2>4. \A t, u \in Sessions :
          t # u /\ sessions'[t].delivered /\ sessions'[u].delivered
            => sessions'[t].round # sessions'[u].round
    BY <1>2, <2>3 DEF OutcomeInv, OneOutcome
  <2> QED BY <2>1, <2>2, <2>4 DEF OneOutcome
<1> QED BY <1>5, <1>7 DEF OutcomeInv

\* A session is suspended only while no terminal of it is in the log.
LEMMA SuspendKeeps == ASSUME Shapes, OutcomeInv, ReadsInv, Suspend PROVE OutcomeInv'
<1> USE DEF Shapes, TypeOK
<1> DEFINE s == runner.current
<1>1. s \in Sessions
  BY DEF Suspend, Placed, InSession
<1>2. sessions[s].status = "open" /\ build.done < sessions[s].round
  <2>1. ~Refused(s)
    BY DEF Suspend, ReadsInv
  <2> QED BY <1>1, <2>1 DEF Refused, Brackets, Builds
<1>3. ~sessions[s].delivered
  BY <1>1, <1>2 DEF OutcomeInv, DeliveredIsDone, Brackets, Builds
<1>4. \A t \in Sessions :
        /\ sessions'[t].round = sessions[t].round /\ sessions'[t].pred = sessions[t].pred
        /\ sessions'[t].delivered = sessions[t].delivered
        /\ sessions'[t].status = IF t = s THEN "suspended" ELSE sessions[t].status
  BY <1>1 DEF Suspend, Brackets
<1>5. \A t \in Sessions : sessions[t].pred # 0 =>
        sessions[t].pred \in Sessions /\ sessions[t].pred # s
  BY <1>2, Ranges DEF Brackets, OutcomeInv, OneOutcome
<1>6. build'.done = build.done
  BY DEF Suspend
<1> QED BY <1>3, <1>4, <1>5, <1>6 DEF OutcomeInv, OneOutcome, DeliveredIsDone

\* What a new session continues has delivered nothing.
LEMMA OpenKeeps ==
  ASSUME Shapes, OutcomeInv, NEW p \in {0} \cup Sessions, OpenBracket(p), build' = build,
         p # 0 => ~sessions[p].delivered /\ sessions[p].status # "none"
  PROVE  OutcomeInv'
<1> USE DEF Shapes, TypeOK
<1>1. PICK s \in Sessions : sessions[s].status = "none" /\ sessions' = Opened(s, p)
  BY DEF OpenBracket
<1>2. p # s /\ 0 \notin Sessions
  BY <1>1 DEF Sessions
<1>3. ~sessions[s].delivered
  BY <1>1 DEF OutcomeInv, DeliveredIsDone
<1>4. \A t \in Sessions :
        /\ sessions'[t].delivered = sessions[t].delivered
        /\ t # s => sessions'[t].round = sessions[t].round /\ sessions'[t].pred = sessions[t].pred
        /\ t \notin {s, p} => sessions'[t].status = sessions[t].status
        /\ t = p => sessions'[t].status = "superseded"
  BY <1>1, <1>2 DEF Opened, Brackets
<1>5. sessions'[s].pred = p
  BY <1>1, <1>2 DEF Opened, Brackets
<1>6. \A t \in Sessions : sessions[t].pred # 0 =>
        sessions[t].pred \in Sessions /\ sessions[t].pred # s
  BY <1>1, Ranges DEF Brackets, OutcomeInv, OneOutcome
<1>7. DeliveredIsDone'
  BY <1>3, <1>4 DEF OutcomeInv, DeliveredIsDone
<1>8. OneOutcome'
  <2>1. \A t \in Sessions : sessions'[t].delivered => sessions'[t].status # "suspended"
    BY <1>3, <1>4 DEF OutcomeInv, OneOutcome
  <2>2. ASSUME NEW t \in Sessions, sessions'[t].pred # 0
        PROVE  /\ ~sessions'[sessions'[t].pred].delivered
               /\ sessions'[sessions'[t].pred].status \in {"superseded", "ended"}
    <3>1. CASE t = s
      BY <1>4, <1>5, <2>2, <3>1
    <3>2. CASE t # s
      BY <1>4, <1>6, <2>2, <3>2 DEF OutcomeInv, OneOutcome
    <3> QED BY <3>1, <3>2
  <2>3. \A t, u \in Sessions :
          t # u /\ sessions'[t].delivered /\ sessions'[u].delivered
            => sessions'[t].round # sessions'[u].round
    BY <1>3, <1>4 DEF OutcomeInv, OneOutcome
  <2> QED BY <2>1, <2>2, <2>3 DEF OneOutcome
<1> QED BY <1>7, <1>8 DEF OutcomeInv

LEMMA NextOutcome == ASSUME Shapes, OutcomeInv, ReadsInv, [Next]_vars PROVE OutcomeInv'
<1>1. CASE UNCHANGED vars
  BY <1>1, SameOutcome DEF vars
<1>2. CASE BeginFresh
  BY <1>2, OpenKeeps DEF BeginFresh
<1>3. CASE Continue
  <2>1. Live(runner.recovery) /\ Matches(runner.recovery)
    BY <1>3 DEF Continue, ReadsInv
  <2>2. runner.recovery \in Sessions
    BY <2>1, Ranges DEF Live, Shapes, TypeOK, Runners
  <2>3. /\ sessions[runner.recovery].status # "none"
        /\ ~(sessions[runner.recovery].round <= build.done)
    BY <2>1, <2>2 DEF Live, Matches, Round, Shapes, TypeOK, Builds, Brackets
  <2>4. ~sessions[runner.recovery].delivered
    BY <2>2, <2>3 DEF OutcomeInv, DeliveredIsDone
  <2> QED BY <1>3, <2>2, <2>3, <2>4, OpenKeeps DEF Continue
<1>4. CASE Next /\ ~BeginFresh /\ ~Continue
  <2>1. CASE sessions' = sessions /\ build'.done = build.done
    BY <2>1, SameOutcome
  <2>2. CASE \E s \in Sessions : sessions' = EndOf(s) /\ build'.done = build.done
    BY <2>2, EndKeeps
  <2>3. CASE \E s \in Sessions : DepositTerminal(s)
    BY <2>3, DepositKeeps
  <2>4. CASE Suspend
    BY <2>4, SuspendKeeps
  <2>5. CASE FailPhase
    BY <2>5, FailKeeps
  <2> QED BY <1>4, <2>1, <2>2, <2>3, <2>4, <2>5, SessionSteps
<1> QED BY <1>1, <1>2, <1>3, <1>4

-----------------------------------------------------------------------------
(* Theorems                                                                *)

IndInv == Shapes /\ CommandInv /\ OutcomeInv /\ ReadsInv

LEMMA Invariance == Spec => []IndInv
<1>1. Init => IndInv
  <2> SUFFICES ASSUME Init PROVE IndInv
    OBVIOUS
  <2>1. CommandInv
    BY DEF Init, CommandInv, NewestCommandStands
  <2>2. OutcomeInv /\ ReadsInv
    BY DEF Init, OutcomeInv, OneOutcome, DeliveredIsDone, ReadsInv
  <2> QED BY <2>1, <2>2, InitShapes DEF IndInv
<1>2. IndInv /\ [Next]_vars => IndInv'
  BY NextShapes, NextCommands, NextOutcome, NextReads DEF IndInv
<1> QED BY <1>1, <1>2, PTL DEF Spec

\* Variables keep their types, whatever runners, agents and operators do and whenever
\* runners die.
THEOREM TurnTypeCorrect == Spec => []TypeOK
<1>1. IndInv => TypeOK
  BY DEF IndInv, Shapes
<1> QED BY <1>1, Invariance, PTL

\* No acknowledgement of an older command undoes a newer one, though the runner
\* acknowledges what it decided before (the reducer's ordered commands).
THEOREM NewestStands == Spec => []NewestCommandStands
<1>1. IndInv => NewestCommandStands
  BY DEF IndInv, CommandInv
<1> QED BY <1>1, Invariance, PTL

\* Of a terminal, a suspension and a continuation of one session the log takes one,
\* since each is appended only over the log it was decided on (appendIfCurrent).
THEOREM OneOutcomeEach == Spec => []OneOutcome
<1>1. IndInv => OneOutcome
  BY DEF IndInv, OutcomeInv
<1> QED BY <1>1, Invariance, PTL

=============================================================================
