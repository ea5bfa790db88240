---------------------------- MODULE TurnControl ----------------------------
(***************************************************************************)
(* One build's runner, the agent sessions it brackets and the operator who *)
(* pauses, resumes and aborts them (processes/build-runner.ts,             *)
(* kernel/engine.ts, kernel/reducer.ts, kernel/terminal-guard.ts,          *)
(* cli/terminals.ts, cli/build-control.ts).                                *)
(*                                                                         *)
(* The event log is represented by what the reducer keeps of it (`build`,  *)
(* `sessions`), by the tail a live subscription has not yet delivered      *)
(* (`turn.feed`) and, for compare-and-append, by the set of writers whose  *)
(* last read is still the whole log (`checked`).  One phase is repeated    *)
(* for MaxRounds rounds; one runner at a time holds the lease.             *)
(***************************************************************************)
EXTENDS Integers, Sequences

CONSTANTS
  MaxSessions,  \* sessions the model has room for (bound)
  MaxRounds,    \* rounds of work after which the build parks (bound)
  MaxAttempts,  \* maxPhaseAttempts
  MaxRequests,  \* operator commands (bound)
  MaxStops      \* runner deaths and dispatcher shutdowns (bound)

ASSUME BoundsAssumption ==
  /\ MaxSessions \in Nat /\ MaxRounds \in Nat /\ MaxRequests \in Nat /\ MaxStops \in Nat
  /\ MaxAttempts \in Nat \ {0}

Sessions == 1 .. MaxSessions
Rounds == 1 .. MaxRounds
Runner == 0          \* the runner among the writers; the others are sessions

VARIABLES
  build,     \* reduced build state: mode, pending commands, open escalation,
             \* rounds completed, failed attempts spent per round
  sessions,  \* reduced session state
  runner,    \* the runner's position and fields
  turn,      \* locals of the live runBudgetedTurn
  checked,   \* writers between a read and their appendIfCurrent, still current
  launched,  \* sessions whose agent process was started
  late,      \* sessions whose background release may still append session.ended
  used,      \* operator commands and stops so far (bounds)
  newest     \* the operator's newest pause or resume (history)

vars == <<build, sessions, runner, turn, checked, launched, late, used, newest>>

Commands == {"pause", "resume", "abort"}
Modes == {"running", "paused", "aborted"}
Statuses == {"none", "open", "suspended", "superseded", "ended"}
Places == {"decide", "ack", "recover", "reclaim", "begin", "continue", "bracket",
           "turn", "suspend", "check", "returning", "failing", "fail", "exited"}
IdleTurn == [feed |-> << >>, probes |-> {}, interrupted |-> FALSE, cause |-> "none",
             signal |-> FALSE, expired |-> FALSE]

Builds == [mode : Modes, pending : SUBSET Commands, blocked : BOOLEAN,
           done : 0 .. MaxRounds, spent : [Rounds -> 0 .. MaxAttempts]]
Brackets == [status : Statuses, round : 0 .. MaxRounds, pred : 0 .. MaxSessions,
             failed : BOOLEAN, delivered : BOOLEAN]
Runners == [pc : Places, context : {"attach", "loop", "settle"},
            decided : Commands \cup {"run"}, round : 0 .. MaxRounds,
            current : 0 .. MaxSessions, recovery : 0 .. MaxSessions,
            ending : SUBSET Sessions, shutdown : BOOLEAN]
Turns == [feed : Seq({"pause", "abort"}), probes : SUBSET {"asked", "stop"},
          interrupted : BOOLEAN, cause : {"none", "operator", "budget"},
          signal : BOOLEAN, expired : BOOLEAN]
Usage == [requests : 0 .. MaxRequests, stops : 0 .. MaxStops]

TypeOK ==
  /\ build \in Builds /\ sessions \in [Sessions -> Brackets]
  /\ runner \in Runners /\ turn \in Turns
  /\ checked \subseteq Sessions \cup {Runner}
  /\ launched \subseteq Sessions /\ late \subseteq Sessions
  /\ used \in Usage /\ newest \in {"none", "pause", "resume"}

Init ==
  /\ build = [mode |-> "running", pending |-> {}, blocked |-> FALSE, done |-> 0,
              spent |-> [r \in Rounds |-> 0]]
  /\ sessions = [s \in Sessions |-> [status |-> "none", round |-> 0, pred |-> 0,
                                     failed |-> FALSE, delivered |-> FALSE]]
  /\ runner = [pc |-> "exited", context |-> "attach", decided |-> "run", round |-> 0,
               current |-> 0, recovery |-> 0, ending |-> {}, shutdown |-> FALSE]
  /\ turn = IdleTurn
  /\ checked = {} /\ launched = {} /\ late = {}
  /\ used = [requests |-> 0, stops |-> 0]
  /\ newest = "none"

-----------------------------------------------------------------------------
(* The reduced log.  Every append invalidates the reads of all writers.    *)

Round == build.done + 1

Live(s) == s # 0 /\ sessions[s].status \in {"open", "suspended"}

\* decideNext: the first rule that applies.
Decision ==
  IF build.mode = "aborted" THEN "wait"
  ELSE IF "abort" \in build.pending THEN "abort"
  ELSE IF build.mode = "paused" THEN IF "resume" \in build.pending THEN "resume" ELSE "wait"
  ELSE IF "pause" \in build.pending THEN "pause"
  ELSE IF build.blocked \/ Round > MaxRounds THEN "wait"
  ELSE IF \E s \in Sessions : sessions[s].status = "none" THEN "run" ELSE "wait"

\* Mutant: the append does not compare, so earlier reads stay good.
Appended_Uncompared == checked' = checked

Appended == checked' = {}

EndOf(s) == [sessions EXCEPT ![s].status = "ended"]

\* recoveryMatches: the work decided now is the work of session s.
Matches(s) == Decision = "run" /\ sessions[s].round = Round

\* The terminal guard's diagnostics.
Refused(s) ==
  \/ sessions[s].status # "open"
  \/ sessions[s].failed
  \/ sessions[s].round <= build.done

-----------------------------------------------------------------------------
(* The operator.                                                           *)

\* Mutant: a pause does not expire a resume that is still pending.
Requested_KeepsOpposite(c) == [build EXCEPT !.pending = @ \cup {c}]

\* A pause expires the resumes before it, and the reverse.
Requested(c) ==
  [build EXCEPT !.pending = CASE c = "pause"  -> (@ \ {"resume"}) \cup {"pause"}
                              [] c = "resume" -> (@ \ {"pause"}) \cup {"resume"}
                              [] c = "abort"  -> @ \cup {"abort"}]

Request(c) ==
  /\ used.requests < MaxRequests
  /\ used' = [used EXCEPT !.requests = @ + 1]
  /\ build' = Requested(c)
  /\ newest' = IF c = "abort" THEN newest ELSE c
  /\ turn' = IF c # "resume" /\ runner.pc \in {"bracket", "turn"}
             THEN [turn EXCEPT !.feed = Append(@, c)] ELSE turn
  /\ Appended
  /\ UNCHANGED <<sessions, runner, launched, late>>

\* Answering the escalation re-arms the attempts of its round.
Answer ==
  /\ build.blocked
  /\ used.requests < MaxRequests
  /\ used' = [used EXCEPT !.requests = @ + 1]
  /\ build' = [build EXCEPT !.blocked = FALSE, !.spent[Round] = 0]
  /\ Appended
  /\ UNCHANGED <<sessions, runner, turn, launched, late, newest>>

-----------------------------------------------------------------------------
(* The agents: terminalDeposit reads the guard, then compares and appends. *)

GuardTerminal(s) ==
  /\ s \in launched \ checked
  /\ ~Refused(s)
  /\ checked' = checked \cup {s}
  /\ UNCHANGED <<build, sessions, runner, turn, launched, late, used, newest>>

DepositTerminal(s) ==
  /\ s \in launched \cap checked
  /\ build' = [build EXCEPT !.done = sessions[s].round]
  /\ sessions' = [sessions EXCEPT ![s].delivered = TRUE]
  /\ Appended
  /\ UNCHANGED <<runner, turn, launched, late, used, newest>>

\* releaseExpiredSession's background session.ended.
EndLate(s) ==
  /\ s \in late
  /\ late' = late \ {s}
  /\ sessions' = IF Live(s) THEN EndOf(s) ELSE sessions
  /\ Appended
  /\ UNCHANGED <<build, runner, turn, launched, used, newest>>

-----------------------------------------------------------------------------
(* The runner between turns: read, decide, execute.                        *)

Goto(place) == runner' = [runner EXCEPT !.pc = place]
GotoLoop == runner' = [runner EXCEPT !.pc = "decide", !.context = "loop"]
GotoLoopWithout(s) ==
  runner' = [runner EXCEPT !.pc = "decide", !.context = "loop", !.current = 0]

\* reclaimSessionsAndAttach keeps the newest live session of the work decided
\* now, if its native handle can be resumed, and will end every other.
Recover ==
  LET live == {s \in Sessions : Live(s)}
      candidates == {s \in live : Matches(s)}
  IN  \E keep \in {0} \cup {s \in candidates : \A t \in candidates : t <= s} :
        runner' = [runner EXCEPT !.pc = "reclaim", !.recovery = keep,
                                 !.ending = live \ {keep}]

DecideStop ==
  /\ runner.pc = "decide" /\ runner.context = "loop" /\ runner.shutdown
  /\ Goto("exited")
  /\ UNCHANGED <<build, sessions, turn, checked, launched, late, used, newest>>

DecideControl ==
  /\ runner.pc = "decide" /\ ~(runner.context = "loop" /\ runner.shutdown)
  /\ Decision \in Commands
  /\ runner' = [runner EXCEPT !.pc = "ack", !.decided = Decision]
  /\ UNCHANGED <<build, sessions, turn, checked, launched, late, used, newest>>

\* Parked: run and settlePauseInterruption return; attach reclaims first.
DecideWait ==
  /\ runner.pc = "decide" /\ ~(runner.context = "loop" /\ runner.shutdown)
  /\ Decision = "wait"
  /\ IF runner.context = "attach" THEN Recover ELSE Goto("exited")
  /\ UNCHANGED <<build, sessions, turn, checked, launched, late, used, newest>>

\* step drops a recovery session that is gone, and ends one whose work is.
DecideRun ==
  LET r == runner.recovery
      moot == Live(r) /\ ~Matches(r)
  IN  /\ runner.pc = "decide" /\ runner.context = "loop" /\ ~runner.shutdown
      /\ Decision = "run"
      /\ runner' = [runner EXCEPT !.pc = "begin", !.decided = "run", !.round = Round,
                                  !.recovery = IF Live(r) /\ ~moot THEN r ELSE 0]
      /\ IF moot THEN sessions' = EndOf(r) /\ Appended ELSE UNCHANGED <<sessions, checked>>
      /\ UNCHANGED <<build, turn, launched, late, used, newest>>

\* attach, or the end of settlePauseInterruption, with work to do.
DecideReclaim ==
  /\ runner.pc = "decide" /\ runner.context # "loop"
  /\ Decision = "run"
  /\ Recover
  /\ UNCHANGED <<build, sessions, turn, checked, launched, late, used, newest>>

\* attach re-reads the facts after acknowledging a resume.
RecoverAfterResume ==
  /\ runner.pc = "recover"
  /\ Recover
  /\ UNCHANGED <<build, sessions, turn, checked, launched, late, used, newest>>

ReclaimSession(s) ==
  /\ runner.pc = "reclaim" /\ s \in runner.ending
  /\ runner' = [runner EXCEPT !.ending = @ \ {s}]
  /\ sessions' = EndOf(s)
  /\ Appended
  /\ UNCHANGED <<build, turn, launched, late, used, newest>>

Attached ==
  /\ runner.pc = "reclaim" /\ runner.ending = {}
  /\ GotoLoop
  /\ Appended
  /\ UNCHANGED <<build, sessions, turn, launched, late, used, newest>>

\* Where an acknowledgement returns to.
Acknowledged(command) ==
  Goto(IF runner.context # "attach" THEN "decide"
       ELSE IF command = "resume" THEN "recover" ELSE "exited")

\* Resume and abort are plain appends of an earlier decision.
AcknowledgeResume ==
  /\ runner.pc = "ack" /\ runner.decided = "resume"
  /\ build' = [build EXCEPT !.mode = "running", !.pending = @ \ {"resume"}]
  /\ Appended
  /\ Acknowledged("resume")
  /\ UNCHANGED <<sessions, turn, launched, late, used, newest>>

AcknowledgeAbort ==
  /\ runner.pc = "ack" /\ runner.decided = "abort"
  /\ build' = [build EXCEPT !.mode = "aborted", !.pending = @ \ {"abort"}]
  /\ Appended
  /\ Acknowledged("abort")
  /\ UNCHANGED <<sessions, turn, launched, late, used, newest>>

\* A pause is decided again from the facts the append is compared with.
ReadForPause ==
  /\ runner.pc = "ack" /\ runner.decided = "pause" /\ Runner \notin checked
  /\ IF Decision = "pause"
     THEN checked' = checked \cup {Runner} /\ UNCHANGED runner
     ELSE Acknowledged("pause") /\ UNCHANGED checked
  /\ UNCHANGED <<build, sessions, turn, launched, late, used, newest>>

AcknowledgePause ==
  /\ runner.pc = "ack" /\ runner.decided = "pause" /\ Runner \in checked
  /\ build' = [build EXCEPT !.mode = "paused", !.pending = @ \ {"pause"}]
  /\ Appended
  /\ Acknowledged("pause")
  /\ UNCHANGED <<sessions, turn, launched, late, used, newest>>

-----------------------------------------------------------------------------
(* Opening a bracket.                                                      *)

Opened(s, predecessor) ==
  [t \in Sessions |->
     CASE t = s -> [sessions[t] EXCEPT !.status = "open", !.round = runner.round,
                                       !.pred = predecessor]
       [] t = predecessor -> [sessions[t] EXCEPT !.status = "superseded"]
       [] OTHER -> sessions[t]]

OpenBracket(predecessor) ==
  \E s \in Sessions :
    /\ sessions[s].status = "none"
    /\ \A t \in Sessions : t < s => sessions[t].status # "none"
    /\ sessions' = Opened(s, predecessor)
    /\ runner' = [runner EXCEPT !.pc = "bracket", !.current = s, !.recovery = 0]
    /\ turn' = IdleTurn
    /\ Appended

\* The retry guard: at the limit the runner escalates instead of running.
BeginExhausted ==
  /\ runner.pc = "begin" /\ build.spent[runner.round] >= MaxAttempts
  /\ build' = [build EXCEPT !.blocked = TRUE]
  /\ Appended
  /\ GotoLoop
  /\ UNCHANGED <<sessions, turn, launched, late, used, newest>>

\* A fresh session.started is a plain append of the earlier decision.
BeginFresh ==
  /\ runner.pc = "begin" /\ build.spent[runner.round] < MaxAttempts
  /\ runner.recovery = 0
  /\ OpenBracket(0)
  /\ UNCHANGED <<build, launched, late, used, newest>>

BeginContinuation ==
  /\ runner.pc = "begin" /\ build.spent[runner.round] < MaxAttempts
  /\ runner.recovery # 0
  /\ Goto("continue")
  /\ UNCHANGED <<build, sessions, turn, checked, launched, late, used, newest>>

\* A continuation is decided again from the facts the append is compared with.
ReadForContinuation ==
  /\ runner.pc = "continue" /\ Runner \notin checked
  /\ IF Live(runner.recovery) /\ Matches(runner.recovery)
     THEN checked' = checked \cup {Runner} /\ UNCHANGED runner
     ELSE GotoLoop /\ UNCHANGED checked
  /\ UNCHANGED <<build, sessions, turn, launched, late, used, newest>>

Continue ==
  /\ runner.pc = "continue" /\ Runner \in checked
  /\ OpenBracket(runner.recovery)
  /\ UNCHANGED <<build, launched, late, used, newest>>

-----------------------------------------------------------------------------
(* runBudgetedTurn.                                                        *)

\* Mutant: the turn relies on the subscription alone.
OpenTurn_NoFirstRead ==
  /\ runner.pc = "bracket"
  /\ IF runner.shutdown
     THEN Goto("exited") /\ UNCHANGED <<turn, launched>>
     ELSE Goto("turn") /\ launched' = launched \cup {runner.current} /\ UNCHANGED turn
  /\ UNCHANGED <<build, sessions, checked, late, used, newest>>

\* Subscribe from the bracket's own seq, then read the current facts once: a
\* pause may precede the bracket.
OpenTurn ==
  /\ runner.pc = "bracket"
  /\ IF runner.shutdown
     THEN Goto("exited") /\ UNCHANGED <<turn, launched>>
     ELSE /\ Goto("turn")
          /\ turn' = [turn EXCEPT !.probes = {"asked"}]
          /\ launched' = launched \cup {runner.current}
  /\ UNCHANGED <<build, sessions, checked, late, used, newest>>

\* The subscription delivers the next event after the bracket.
DeliverPause ==
  /\ runner.pc = "turn" /\ turn.feed # << >> /\ Head(turn.feed) = "pause"
  /\ turn' = [turn EXCEPT !.feed = Tail(@),
                          !.probes = IF turn.signal THEN @ ELSE @ \cup {"asked"}]
  /\ UNCHANGED <<build, sessions, runner, checked, launched, late, used, newest>>

DeliverAbort ==
  /\ runner.pc = "turn" /\ turn.feed # << >> /\ Head(turn.feed) = "abort"
  /\ turn' = [turn EXCEPT !.feed = Tail(@), !.cause = "operator", !.signal = TRUE]
  /\ UNCHANGED <<build, sessions, runner, checked, launched, late, used, newest>>

\* interruptForPause reads the facts (a failed read is retried) ...
ReadForInterrupt ==
  /\ runner.pc = "turn" /\ "asked" \in turn.probes
  /\ turn' = [turn EXCEPT !.probes = (@ \ {"asked"})
                             \cup IF Decision = "pause" THEN {"stop"} ELSE {}]
  /\ UNCHANGED <<build, sessions, runner, checked, launched, late, used, newest>>

\* ... and acts on them later.
InterruptForPause ==
  /\ runner.pc = "turn" /\ "stop" \in turn.probes
  /\ turn' = [turn EXCEPT !.probes = @ \ {"stop"}, !.signal = TRUE,
                          !.interrupted = @ \/ ~turn.signal]
  /\ UNCHANGED <<build, sessions, runner, checked, launched, late, used, newest>>

ExpireBudget ==
  /\ runner.pc = "turn" /\ ~turn.expired
  /\ turn' = [turn EXCEPT !.expired = TRUE, !.signal = TRUE,
                          !.cause = IF turn.signal THEN @ ELSE "budget"]
  /\ UNCHANGED <<build, sessions, runner, checked, launched, late, used, newest>>

\* The dispatcher shuts down.
Shutdown ==
  /\ runner.pc # "exited" /\ ~runner.shutdown
  /\ used.stops < MaxStops
  /\ used' = [used EXCEPT !.stops = @ + 1]
  /\ runner' = [runner EXCEPT !.shutdown = TRUE]
  /\ turn' = IF runner.pc = "turn" THEN [turn EXCEPT !.signal = TRUE] ELSE turn
  /\ UNCHANGED <<build, sessions, checked, launched, late, newest>>

\* A native resume that is not available: the bracket is reclaimed and the
\* phase decided afresh.
FallBack ==
  /\ runner.pc = "turn" /\ ~turn.signal
  /\ sessions[runner.current].pred # 0 /\ ~sessions[runner.current].delivered
  /\ sessions' = EndOf(runner.current)
  /\ turn' = IdleTurn
  /\ Appended
  /\ GotoLoopWithout(runner.current)
  /\ UNCHANGED <<build, launched, late, used, newest>>

\* The agent's call returns or throws, or the deadline ends the wait.  A pause
\* outranks all but the operator's abort; a shutdown counts if nothing else did.
TurnSettles ==
  /\ runner.pc = "turn"
  /\ turn' = [turn EXCEPT !.feed = << >>, !.probes = {}]
  /\ Goto(IF \/ turn.interrupted /\ turn.cause # "operator"
             \/ runner.shutdown /\ turn.cause = "none"
          THEN "suspend" ELSE "check")
  /\ UNCHANGED <<build, sessions, checked, launched, late, used, newest>>

-----------------------------------------------------------------------------
(* After the turn.                                                         *)

\* SessionPaused is settled in this process; SessionShutdown ends the run.
Suspended ==
  runner' = [runner EXCEPT !.pc = IF turn.interrupted THEN "decide" ELSE "exited",
                           !.context = "settle"]

\* suspendTurn: a terminal that landed first makes the suspension void; its
\* session is ended if its usage is known.
ReadForSuspension ==
  /\ runner.pc = "suspend" /\ Runner \notin checked
  /\ IF ~Refused(runner.current)
     THEN /\ checked' = checked \cup {Runner}
          /\ UNCHANGED <<sessions, runner>>
     ELSE /\ Suspended
          /\ \/ UNCHANGED <<sessions, checked>>
             \/ sessions' = EndOf(runner.current) /\ Appended
  /\ UNCHANGED <<build, turn, launched, late, used, newest>>

\* A shutdown suspends only sessions of a local worktree.
LeaveUnsuspended ==
  /\ runner.pc = "suspend" /\ Runner \notin checked /\ ~turn.interrupted
  /\ Suspended
  /\ UNCHANGED <<build, sessions, turn, checked, launched, late, used, newest>>

Suspend ==
  /\ runner.pc = "suspend" /\ Runner \in checked
  /\ sessions' = [sessions EXCEPT ![runner.current].status = "suspended"]
  /\ Appended
  /\ Suspended
  /\ UNCHANGED <<build, turn, launched, late, used, newest>>

\* executeSingleSession: what did the agent leave in the log?
CheckTerminal ==
  LET terminal == sessions[runner.current].round <= build.done
  IN  /\ runner.pc = "check"
      /\ CASE turn.cause = "operator" -> Goto("returning") /\ UNCHANGED late
           [] turn.cause # "operator" /\ terminal /\ turn.cause = "budget" ->
                GotoLoop /\ late' = late \cup {runner.current}
           [] turn.cause # "operator" /\ terminal /\ turn.cause # "budget" ->
                Goto("returning") /\ UNCHANGED late
           [] turn.cause = "budget" /\ ~terminal ->
                Goto("fail") /\ late' = late \cup {runner.current}
           [] turn.cause = "none" /\ ~terminal -> Goto("failing") /\ UNCHANGED late
      /\ UNCHANGED <<build, sessions, turn, checked, launched, used, newest>>

\* End the session with its transcript, if the adapter yields one.
CloseSession ==
  /\ runner.pc \in {"returning", "failing"}
  /\ \/ UNCHANGED <<sessions, checked>>
     \/ sessions' = EndOf(runner.current) /\ Appended
  /\ IF runner.pc = "returning" THEN GotoLoop ELSE Goto("fail")
  /\ UNCHANGED <<build, turn, launched, late, used, newest>>

\* failPhase: one attempt of the round is spent.
FailPhase ==
  /\ runner.pc = "fail"
  /\ build' = [build EXCEPT !.spent[runner.round] = @ + 1]
  /\ sessions' = [s \in Sessions |->
                    [sessions[s] EXCEPT !.failed = @ \/ (sessions[s].status # "none"
                                                   /\ sessions[s].round = runner.round)]]
  /\ Appended
  /\ GotoLoop
  /\ UNCHANGED <<turn, launched, late, used, newest>>

-----------------------------------------------------------------------------
(* Death and relaunch.  The agents of a dead runner may live on.           *)

Crash ==
  /\ runner.pc # "exited"
  /\ used.stops < MaxStops
  /\ used' = [used EXCEPT !.stops = @ + 1]
  /\ Goto("exited")
  /\ checked' = checked \ {Runner}
  /\ UNCHANGED <<build, sessions, turn, launched, late, newest>>

\* The lease sweep attaches a new runner to a build with work to do.
Relaunch ==
  /\ runner.pc = "exited" /\ Decision # "wait"
  /\ runner' = [runner EXCEPT !.pc = "decide", !.context = "attach", !.current = 0,
                              !.recovery = 0, !.ending = {}, !.shutdown = FALSE]
  /\ turn' = IdleTurn
  /\ late' = {}
  /\ UNCHANGED <<build, sessions, checked, launched, used, newest>>

-----------------------------------------------------------------------------

\* Everything the runner does of its own accord outside a turn.
Step ==
  \/ DecideStop \/ DecideControl \/ DecideWait \/ DecideRun \/ DecideReclaim
  \/ RecoverAfterResume \/ (\E s \in Sessions : ReclaimSession(s)) \/ Attached
  \/ AcknowledgeResume \/ AcknowledgeAbort \/ ReadForPause \/ AcknowledgePause
  \/ BeginExhausted \/ BeginFresh \/ BeginContinuation
  \/ ReadForContinuation \/ Continue \/ OpenTurn
  \/ ReadForSuspension \/ LeaveUnsuspended \/ Suspend \/ CheckTerminal \/ CloseSession \/ FailPhase
  \/ Relaunch

InTurn == DeliverPause \/ DeliverAbort \/ ReadForInterrupt \/ InterruptForPause

Next ==
  \/ Step \/ InTurn \/ ExpireBudget \/ TurnSettles \/ FallBack
  \/ Shutdown \/ Crash
  \/ \E c \in Commands : Request(c)
  \/ Answer
  \/ \E s \in Sessions : GuardTerminal(s) \/ DepositTerminal(s) \/ EndLate(s)

\* The runner takes its steps, the subscription polls, an interrupted adapter
\* returns.  Nothing is assumed of agents left alone, of the budget timer or
\* of the operator.
Fairness ==
  /\ WF_vars(Step)
  /\ WF_vars(DeliverPause \/ DeliverAbort)
  /\ WF_vars(ReadForInterrupt)
  /\ WF_vars(InterruptForPause)
  /\ WF_vars(turn.signal /\ TurnSettles)

Spec == Init /\ [][Next]_vars /\ Fairness

-----------------------------------------------------------------------------
(* Properties.                                                             *)

\* The operator's newest word stands, whatever was acknowledged before it and
\* in which order: after a pause the build is paused or about to be, after a
\* resume no pause is left to be acknowledged (reducer.ts, ordered commands).
NewestCommandStands ==
  build.mode # "aborted" =>
    /\ newest = "pause" => build.mode = "paused" \/ "pause" \in build.pending
    /\ newest = "pause" => "resume" \notin build.pending
    /\ newest = "resume" => "pause" \notin build.pending

\* A session ends one way: one that delivered its terminal is neither
\* suspended nor continued by another, and no round is delivered twice.
OneOutcome ==
  /\ \A s \in Sessions : sessions[s].delivered => sessions[s].status # "suspended"
  /\ \A s \in Sessions : sessions[s].pred # 0 =>
       /\ ~sessions[sessions[s].pred].delivered
       /\ sessions[sessions[s].pred].status \in {"superseded", "ended"}
  /\ \A s, t \in Sessions :
       s # t /\ sessions[s].delivered /\ sessions[t].delivered
         => sessions[s].round # sessions[t].round

\* Every pause request parks the build, is countermanded or is overtaken by an
\* abort, whenever it arrives and however long the agent would have worked.
PauseAnswered ==
  "pause" \in build.pending
    ~> \/ build.mode # "running" \/ "pause" \notin build.pending
       \/ "abort" \in build.pending

=============================================================================
