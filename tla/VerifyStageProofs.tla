------------------------- MODULE VerifyStageProofs -------------------------
(***************************************************************************)
(* The fates of verify members, the barriers between their stages and who  *)
(* works beside implement, for every configuration of stages and any       *)
(* number of attempts, answers and mishaps.                                *)
(***************************************************************************)
EXTENDS VerifyStage, TLAPS

(***************************************************************************)
(* The strengthening.  A child that waits to start was queued when every   *)
(* earlier stage of its cycle had passed, and a pass is a fate: it stays.  *)
(***************************************************************************)
EarlierPassed(s, a) ==
  \A n, k \in DOMAIN Stages :
    s \in Stages[n] /\ k < n => \A t \in Stages[k] : outcome[<<t, a>>] = "pass"

QueuedInv == \A s \in Steps : child[s].state = "queued" => EarlierPassed(s, child[s].attempt)

\* What else the types need: a child that waits, runs or writes has its attempt.
ChildInv == \A s \in Steps : child[s].state # "idle" => child[s].attempt \in Attempts

IndInv == TypeOK /\ ChildInv /\ QueuedInv /\ NoOrphanQuestion /\ BarrierHolds

(***************************************************************************)
(* Why implement is alone.  A session that runs in a stage has its child,  *)
(* which leaving the stage awaits; a child that waits for its session has  *)
(* no fate yet, so a cancellation counts it among its targets.  A          *)
(* cancellation that cancelled something condemns the execution, and one   *)
(* that cancelled nothing found no session left, or is excepted.           *)
(***************************************************************************)
Condemned == (restartDue /\ recorded) \/ ghost.late \/ ghost.missed
Agents == Steps \ Checks
Waiting(s) == child[s].state = "queued"
Quiet == alive = {} /\ \A s \in Agents : ~Waiting(s)
Staged == pc \in {"stage", "drain", "interrupt", "lock", "cancel"}
Cancelling == pc \in {"lock", "cancel"}

CheckResults == \A r \in results : r.member[1] \in Checks
Linked ==
  Staged => Condemned \/ \A m \in alive :
    m[1] \in Agents /\ child[m[1]].state = "running" /\ child[m[1]].attempt = m[2]
Open ==
  Staged => Condemned \/ \A s \in Agents :
    Waiting(s) => child[s].attempt = attempt /\ ~Settled(<<s, attempt>>)
Aimed ==
  Cancelling => Condemned \/ ((\A s \in Agents : Waiting(s) => s \in targets)
                               /\ (targets = {} => alive = {}))
Between == pc = "decide" => Condemned \/ Quiet
Places == /\ targets # {} => Cancelling
          /\ pc = "off" => Quiet
          /\ Staged => phase \in {"verify", "plan"}
Alone == phase = "implement" => ghost.late \/ ghost.missed \/ Quiet

AloneInv == CheckResults /\ Linked /\ Open /\ Aimed /\ Between /\ Places /\ Alone

Childs == [state : {"idle", "queued", "running", "writing"}, attempt : Attempts \cup {0}]
Asks == [member : Members \cup ({Limit} \X Attempts), state : {"open", "revise"}]
Results == [member : Members, outcome : {"pass", "fail"}]

-----------------------------------------------------------------------------
(* Derived facts                                                           *)

LEMMA ConstantTypes ==
  /\ \A n \in DOMAIN Stages : Stages[n] \subseteq Steps
  /\ 1 \in Attempts
  BY StageAssumption DEF StageAssumption, Steps, Attempts

LEMMA ActiveSteps == Active \subseteq Steps
  BY DEF Active, First, Barriers, Steps

LEMMA UnfinishedSteps ==
  Unfinished \subseteq Steps /\ Runnable \subseteq Steps /\ Failures \subseteq Steps
  BY ActiveSteps DEF Unfinished, Runnable, Failures

LEMMA RunIsVerify == ASSUME Decision = "run" PROVE phase # "plan"
  BY DEF Decision

\* What is about to run has every earlier stage behind it.
LEMMA RunnableIsDue ==
  ASSUME Decision = "run", NEW s \in Runnable
  PROVE  EarlierPassed(s, attempt)
<1>1. s \in Active
  BY DEF Runnable, Unfinished
<1>2. PICK first \in First(Barriers) : s \in Stages[first]
  BY <1>1 DEF Active
<1>3. first \in DOMAIN Stages /\ \A k \in Barriers : first <= k
  BY <1>2 DEF First, Barriers
<1>4. SUFFICES ASSUME NEW n \in DOMAIN Stages, NEW k \in DOMAIN Stages,
                      s \in Stages[n], k < n, NEW t \in Stages[k]
               PROVE  outcome[<<t, attempt>>] = "pass"
  BY DEF EarlierPassed
<1>5. n = first
  BY <1>2, <1>3, <1>4, StageAssumption DEF StageAssumption
<1>6. k \notin Barriers
  BY <1>3, <1>4, <1>5, StageAssumption DEF StageAssumption
<1>7. Outcome(t) = "pass"
  BY <1>4, <1>6 DEF Barriers
<1> QED BY <1>7, RunIsVerify DEF Outcome

-----------------------------------------------------------------------------
(* Types                                                                   *)

LEMMA InitInd == Init => IndInv
<1> SUFFICES ASSUME Init PROVE IndInv
  OBVIOUS
<1>1. TypeOK
  BY ConstantTypes DEF Init, TypeOK, NotRevising, Idle, Attempts
<1>2. ChildInv /\ QueuedInv
  BY DEF Init, ChildInv, QueuedInv, Idle
<1>3. NoOrphanQuestion /\ BarrierHolds
  BY DEF Init, NoOrphanQuestion, BarrierHolds
<1> QED BY <1>1, <1>2, <1>3 DEF IndInv

\* The steps that change nothing but where the execution, the runner and its
\* children are.
Moves ==
  \/ Launch \/ Crash \/ Leave
  \/ EnterStage \/ Relaunch \/ StopStage \/ EndStage \/ BeginCancel \/ LockWrites
  \/ EndCancel

Writes ==
  \/ RecordExecution \/ RecordFailure \/ RaiseLimit \/ Implement \/ Finalize \/ Approve
  \/ (\E ask \in asks : Answer(ask)) \/ BeginRevision
  \/ (\E m \in revising.left : ReviseAnswer(m)) \/ SpecRevised

MemberSteps ==
  \/ \E s \in Steps : CancelMember(s) \/ ChildNext(s)
  \/ \E r \in results : CheckWrites(r)
  \/ \E m \in alive : AgentNext(m) \/ AgentDies(m)

LEMMA NextSplits == Next => Moves \/ Writes \/ MemberSteps
  BY DEF Next, RunnerNext, HumanNext, RevisionNext, Moves, Writes, MemberSteps

Shapes == TypeOK /\ ChildInv

LEMMA MoveTypes == ASSUME Shapes, Moves PROVE Shapes'
<1> USE DEF Shapes, TypeOK, ChildInv, Idle
<1>1. CASE Launch
  BY <1>1 DEF Launch, durable, agents
<1>2. CASE Crash
  BY <1>2 DEF Crash, Ended, durable
<1>3. CASE Leave
  BY <1>3 DEF Leave, Ended, durable
<1>4. CASE EnterStage
  BY <1>4, UnfinishedSteps DEF EnterStage, durable, agents
<1>5. CASE Relaunch
  BY <1>5 DEF Relaunch, durable, agents
<1>6. CASE StopStage
  BY <1>6 DEF StopStage, durable, agents
<1>7. CASE EndStage
  BY <1>7 DEF EndStage, durable, agents
<1>8. CASE BeginCancel
  BY <1>8, UnfinishedSteps DEF BeginCancel, durable, agents
<1>9. CASE EndCancel
  BY <1>9 DEF EndCancel, durable, agents
<1>10. CASE LockWrites
  BY <1>10 DEF LockWrites, durable, agents
<1> QED BY <1>1, <1>2, <1>3, <1>4, <1>5, <1>6, <1>7, <1>8, <1>9, <1>10 DEF Moves

LEMMA WriteTypes == ASSUME Shapes, Writes PROVE Shapes'
<1> USE DEF Shapes, TypeOK, ChildInv, runner, agents
<1>1. CASE RecordExecution
  BY <1>1 DEF RecordExecution
<1>2. CASE RecordFailure
  BY <1>2, UnfinishedSteps DEF RecordFailure
<1>3. CASE RaiseLimit
  BY <1>3 DEF RaiseLimit
<1>4. CASE Implement \/ Finalize
  BY <1>4 DEF Implement, Finalize
<1>5. CASE Approve
  BY <1>5, StageAssumption DEF Approve, StageAssumption, Attempts
<1>6. CASE \E ask \in asks : Answer(ask)
  BY <1>6 DEF Answer
<1>7. CASE BeginRevision
  <2>1. {ask.member : ask \in {a \in asks : a.state = "open"}}
          \subseteq Members \cup ({Limit} \X Attempts)
    OBVIOUS
  <2> QED BY <1>7, <2>1 DEF BeginRevision, durable
<1>8. CASE \E m \in revising.left : ReviseAnswer(m)
  <2>1. asks' \subseteq Asks
    BY <1>8 DEF ReviseAnswer, Asks
  <2> QED BY <1>8, <2>1 DEF ReviseAnswer, Asks
<1>9. CASE SpecRevised
  BY <1>9 DEF SpecRevised, Revised, NotRevising
<1> QED BY <1>1, <1>2, <1>3, <1>4, <1>5, <1>6, <1>7, <1>8, <1>9 DEF Writes

LEMMA MemberTypes == ASSUME Shapes, MemberSteps PROVE Shapes'
<1> USE DEF Shapes, TypeOK, ChildInv
<1>1. ASSUME NEW s \in Steps, CancelMember(s) PROVE Shapes'
  <2>1. <<s, attempt>> \in Members
    BY DEF Members
  <2>2. cancelled' \subseteq Members /\ asks' \subseteq asks /\ restartDue' \in BOOLEAN
        /\ targets' \subseteq targets
    BY <1>1, <2>1 DEF CancelMember
  <2>3. ghost' \in [late : BOOLEAN, missed : BOOLEAN]
    BY <1>1 DEF CancelMember
  <2>4. UNCHANGED <<phase, attempt, started, outcome, concurrent, receipts, failed, limitAsked,
                    revising, recorded, pc, initial, child, results, alive, spoken>>
    BY <1>1 DEF CancelMember, agents
  <2> QED BY <2>2, <2>3, <2>4
<1>2. ASSUME NEW s \in Steps, StartCheck(s) PROVE Shapes'
  <2>1. <<s, child[s].attempt>> \in Members
    BY <1>2 DEF StartCheck, Members
  <2>2. started' \subseteq Members /\ concurrent' \in BOOLEAN
    BY <1>2, <2>1 DEF StartCheck, Started
  <2>3. child' \in [Steps -> Childs] /\ ChildInv'
    <3>1. child \in [Steps -> Childs] /\ child[s] \in Childs /\ child[s].state = "queued"
      BY <1>2 DEF StartCheck, Childs
    <3>2. \A c \in Childs, state \in {"idle", "running"} :
            /\ [c EXCEPT !.state = state] \in Childs
            /\ [c EXCEPT !.state = state].attempt = c.attempt
      BY DEF Childs
    <3>3. \E state \in {"idle", "running"} : child' = [child EXCEPT ![s] = [child[s] EXCEPT !.state = state]]
      BY <1>2 DEF StartCheck
    <3>4. PICK new \in Childs : new.attempt = child[s].attempt /\ child' = [child EXCEPT ![s] = new]
      BY <3>1, <3>2, <3>3
    <3> QED BY <3>1, <3>4
  <2> QED BY <1>2, <2>2, <2>3 DEF StartCheck, agents, Childs
<1>3. ASSUME NEW s \in Steps, NEW o \in {"pass", "fail"}, CheckExits(s, o) PROVE Shapes'
  BY <1>3 DEF CheckExits, Members, durable, agents
<1>4. ASSUME NEW s \in Steps, StartAgent(s) PROVE Shapes'
  <2>1. <<s, child[s].attempt>> \in Members
    BY <1>4 DEF StartAgent, Members
  <2>2. started' \subseteq Members /\ concurrent' \in BOOLEAN
    BY <1>4, <2>1 DEF StartAgent, Started
  <2>3. child' \in [Steps -> Childs] /\ ChildInv'
    BY <1>4 DEF StartAgent, Childs
  <2>4. alive' \subseteq Members /\ spoken' \subseteq Members
    BY <1>4, <2>1 DEF StartAgent
  <2> QED BY <1>4, <2>2, <2>3, <2>4 DEF StartAgent, Childs
<1>5. ASSUME NEW r \in results, CheckWrites(r) PROVE Shapes'
  <2>1. r.member \in Members /\ r.outcome \in {"pass", "fail"} /\ r.member[2] \in Attempts
    BY <1>5 DEF Members
  <2>2. outcome' \in [Members -> {"none", "pass", "fail"}] /\ failed' \subseteq Attempts
        /\ limitAsked' \in BOOLEAN
    <3>1. CASE UNCHANGED <<outcome, failed, limitAsked>>
      BY <3>1
    <3>2. CASE Completes(r.member, r.outcome)
      <4>1. outcome' \in [Members -> {"none", "pass", "fail"}]
        BY <2>1, <3>2 DEF Completes
      <4>2. failed' \subseteq Attempts
        BY <2>1, <3>2 DEF Completes
      <4>3. limitAsked' \in BOOLEAN
        BY <3>2 DEF Completes
      <4> QED BY <4>1, <4>2, <4>3
    <3> QED BY <1>5, <3>1, <3>2 DEF CheckWrites
  <2>3. child' \in [Steps -> Childs] /\ ChildInv'
    <3>1. child \in [Steps -> Childs]
      BY DEF Childs
    <3>2. \A c \in Childs : [c EXCEPT !.state = "idle"] \in Childs
      BY DEF Childs
    <3>3. \A s \in Steps : child'[s] = child[s]
                              \/ child'[s] = [child[s] EXCEPT !.state = "idle"]
      BY <1>5, <3>1 DEF CheckWrites
    <3>4. child' \in [Steps -> Childs]
      BY <1>5, <3>1, <3>2 DEF CheckWrites
    <3>5. \A s \in Steps : child'[s].state # "idle" => child'[s] = child[s]
      <4>1. \A s \in Steps : [child[s] EXCEPT !.state = "idle"].state = "idle"
        BY <3>1 DEF Childs
      <4> QED BY <3>3, <4>1
    <3> QED BY <3>4, <3>5
  <2> QED BY <1>5, <2>2, <2>3 DEF CheckWrites, agents, Childs
<1>6. ASSUME NEW m \in alive, NEW o \in {"pass", "fail"}, Verdict(m, o) PROVE Shapes'
  BY <1>6 DEF Verdict, Completes, Members, runner
<1>7. ASSUME NEW m \in alive, Escalate(m) PROVE Shapes'
  BY <1>7 DEF Escalate, runner
<1>8. ASSUME NEW m \in alive, SessionEnds(m) PROVE Shapes'
  BY <1>8 DEF SessionEnds, Members, durable
<1> QED BY <1>1, <1>2, <1>3, <1>4, <1>5, <1>6, <1>7, <1>8
        DEF MemberSteps, ChildNext, AgentNext, AgentSettles, InterruptAgent, AgentDies

-----------------------------------------------------------------------------
(* Fates                                                                   *)

\* No step takes a fate back.
FateKept ==
  \A m \in Members :
    /\ m \in cancelled => m \in cancelled'
    /\ Settled(m) => outcome'[m] = outcome[m] /\ (m \in cancelled' => m \in cancelled)

LEMMA FatesKept == ASSUME Shapes, [Next]_vars PROVE FateKept
<1> USE DEF FateKept
<1>1. ASSUME outcome' = outcome, cancelled' = cancelled PROVE FateKept
  BY <1>1
<1>2. CASE Moves
  BY <1>1, <1>2 DEF Moves, Launch, Crash, Leave, EnterStage, Relaunch, StopStage, EndStage,
                    BeginCancel, LockWrites, EndCancel, durable
<1>3. CASE Writes
  BY <1>1, <1>3 DEF Writes, RecordExecution, RecordFailure, RaiseLimit, Implement, Finalize,
                    Approve, Answer, BeginRevision, ReviseAnswer, SpecRevised, durable
<1>4. CASE MemberSteps
  <2>1. ASSUME NEW s \in Steps, CancelMember(s) PROVE FateKept
    BY <2>1 DEF CancelMember, Settled
  <2>2. ASSUME NEW s \in Steps, ChildNext(s) PROVE FateKept
    BY <1>1, <2>2 DEF ChildNext, StartCheck, CheckExits, StartAgent, durable
  <2>3. ASSUME NEW r \in results, CheckWrites(r) PROVE FateKept
    BY <2>3 DEF CheckWrites, Completes, Settled, Shapes, TypeOK
  <2>4. ASSUME NEW m \in alive, NEW o \in {"pass", "fail"}, Verdict(m, o) PROVE FateKept
    BY <2>4 DEF Verdict, MayTerminate, Completes, Settled, Shapes, TypeOK
  <2>5. ASSUME NEW m \in alive, Escalate(m) \/ SessionEnds(m) PROVE FateKept
    BY <1>1, <2>5 DEF Escalate, SessionEnds, durable
  <2> QED BY <1>4, <2>1, <2>2, <2>3, <2>4, <2>5
          DEF MemberSteps, AgentNext, AgentSettles, InterruptAgent, AgentDies
<1>5. CASE UNCHANGED vars
  BY <1>1, <1>5 DEF vars, durable
<1> QED BY <1>2, <1>3, <1>4, <1>5, NextSplits

LEMMA PassStays ==
  ASSUME Shapes, [Next]_vars, NEW m, outcome[m] = "pass", m \in Members PROVE outcome'[m] = "pass"
  BY FatesKept DEF FateKept, Settled

LEMMA EarlierStays ==
  ASSUME Shapes, [Next]_vars, NEW s, NEW a \in Attempts, EarlierPassed(s, a)
  PROVE  EarlierPassed(s, a)'
  BY PassStays, ConstantTypes DEF EarlierPassed, Members

LEMMA NextShapes == ASSUME Shapes, [Next]_vars PROVE Shapes'
<1>1. CASE UNCHANGED vars
  BY <1>1 DEF vars, durable, runner, agents, Shapes, TypeOK, ChildInv
<1> QED BY <1>1, NextSplits, MoveTypes, WriteTypes, MemberTypes

-----------------------------------------------------------------------------
(* Barriers                                                                *)

LEMMA QueuedStays ==
  ASSUME Shapes, QueuedInv, [Next]_vars,
         \A s \in Steps : child'[s].state = "queued" =>
           \/ child'[s] = child[s]
           \/ child'[s].attempt = attempt /\ EarlierPassed(s, attempt)
  PROVE  QueuedInv'
<1> SUFFICES ASSUME NEW s \in Steps, child'[s].state = "queued"
             PROVE  (EarlierPassed(s, child[s].attempt))'
  BY DEF QueuedInv
<1>1. PICK a \in Attempts : a = child'[s].attempt
  BY NextShapes DEF Shapes, ChildInv
<1>2. EarlierPassed(s, a)
  BY <1>1 DEF QueuedInv
<1>3. EarlierPassed(s, a)'
  BY <1>2, EarlierStays
<1> QED BY <1>1, <1>3 DEF EarlierPassed

LEMMA NextQueued == ASSUME Shapes, QueuedInv, [Next]_vars PROVE QueuedInv'
<1>1. ASSUME \A s \in Steps : child'[s].state = "queued" => child'[s] = child[s] PROVE QueuedInv'
  BY <1>1, QueuedStays
<1>2. child \in [Steps -> Childs]
  BY DEF Shapes, TypeOK, Childs
<1>3. CASE EnterStage
  BY <1>3, RunnableIsDue, QueuedStays DEF EnterStage, Idle
<1>4. CASE Relaunch
  BY <1>4, RunnableIsDue, QueuedStays DEF Relaunch
<1>5. CASE Launch \/ StopStage \/ BeginCancel \/ LockWrites
  BY <1>1, <1>5 DEF Launch, StopStage, BeginCancel, LockWrites
<1>6. CASE Crash \/ Leave \/ EndStage \/ EndCancel
  BY <1>1, <1>6 DEF Crash, Leave, Ended, EndStage, EndCancel, Idle
<1>7. CASE Writes
  BY <1>1, <1>7 DEF Writes, RecordExecution, RecordFailure, RaiseLimit, Implement, Finalize,
                    Approve, Answer, BeginRevision, ReviseAnswer, SpecRevised, runner
<1>8. CASE MemberSteps
  <2>1. ASSUME NEW s \in Steps, CancelMember(s) PROVE QueuedInv'
    BY <1>1, <2>1 DEF CancelMember
  <2>2. ASSUME NEW s \in Steps, StartCheck(s) \/ StartAgent(s) PROVE QueuedInv'
    BY <1>1, <1>2, <2>2 DEF StartCheck, StartAgent, Childs
  <2>3. ASSUME NEW s \in Steps, NEW o \in {"pass", "fail"}, CheckExits(s, o) PROVE QueuedInv'
    BY <1>1, <1>2, <2>3 DEF CheckExits, Childs
  <2>4. ASSUME NEW r \in results, CheckWrites(r) PROVE QueuedInv'
    <3>1. \A s \in Steps : \/ child'[s] = child[s]
                           \/ child'[s] = [child[s] EXCEPT !.state = "idle"]
      BY <1>2, <2>4 DEF CheckWrites
    <3>2. \A s \in Steps : child'[s].state = "queued" => child'[s] = child[s]
      BY <1>2, <3>1 DEF Childs
    <3> QED BY <1>1, <3>2
  <2>5. ASSUME NEW m \in alive, SessionEnds(m) PROVE QueuedInv'
    <3>1. \A s \in Steps : \/ child'[s] = child[s]
                           \/ child'[s] = [child[s] EXCEPT !.state = "idle"]
      BY <1>2, <2>5 DEF SessionEnds
    <3>2. \A s \in Steps : child'[s].state = "queued" => child'[s] = child[s]
      BY <1>2, <3>1 DEF Childs
    <3> QED BY <1>1, <3>2
  <2>6. ASSUME NEW m \in alive, NEW o \in {"pass", "fail"}, Verdict(m, o) \/ Escalate(m)
        PROVE  QueuedInv'
    BY <1>1, <2>6 DEF Verdict, Escalate, runner
  <2> QED BY <1>8, <2>1, <2>2, <2>3, <2>4, <2>5, <2>6
          DEF MemberSteps, ChildNext, AgentNext, AgentSettles, InterruptAgent, AgentDies
<1>9. CASE UNCHANGED vars
  BY <1>1, <1>9 DEF vars, runner
<1> QED BY <1>3, <1>4, <1>5, <1>6, <1>7, <1>8, <1>9, NextSplits DEF Moves

LEMMA StartsOnly ==
  ASSUME [Next]_vars
  PROVE  started' = started \/ \E s \in Steps : StartCheck(s) \/ StartAgent(s)
<1>1. CASE Moves
  BY <1>1 DEF Moves, Launch, Crash, Leave, EnterStage, Relaunch, StopStage, EndStage,
              BeginCancel, LockWrites, EndCancel, durable
<1>2. CASE Writes
  BY <1>2 DEF Writes, RecordExecution, RecordFailure, RaiseLimit, Implement, Finalize,
              Approve, Answer, BeginRevision, ReviseAnswer, SpecRevised, durable
<1>3. CASE MemberSteps
  BY <1>3 DEF MemberSteps, CancelMember, ChildNext, CheckExits, CheckWrites, AgentNext, Verdict,
              Escalate, AgentSettles, InterruptAgent, AgentDies, SessionEnds, durable
<1>4. CASE UNCHANGED vars
  BY <1>4 DEF vars, durable
<1> QED BY <1>1, <1>2, <1>3, <1>4, NextSplits

\* BarrierHolds, member by member.
LEMMA BarrierIsEarlier ==
  ASSUME TypeOK PROVE BarrierHolds <=> \A m \in started : EarlierPassed(m[1], m[2])
  BY DEF BarrierHolds, EarlierPassed

LEMMA NextBarrier == ASSUME Shapes, QueuedInv, BarrierHolds, [Next]_vars PROVE BarrierHolds'
<1>1. ASSUME NEW m \in started', m \in started \/ EarlierPassed(m[1], m[2])
      PROVE  EarlierPassed(m[1], m[2])'
  <2>1. m \in Members
    BY NextShapes DEF Shapes, TypeOK
  <2>2. EarlierPassed(m[1], m[2])
    BY <1>1, BarrierIsEarlier DEF Shapes
  <2> QED BY <2>1, <2>2, EarlierStays DEF Members
<1>2. \A m \in started' : m \in started \/ EarlierPassed(m[1], m[2])
  <2>1. CASE \E s \in Steps : StartCheck(s) \/ StartAgent(s)
    BY <2>1 DEF StartCheck, StartAgent, Started, QueuedInv
  <2>2. CASE started' = started
    BY <2>2
  <2> QED BY <2>1, <2>2, StartsOnly
<1>3. \A m \in started' : EarlierPassed(m[1], m[2])'
  BY <1>1, <1>2
<1> QED BY <1>3, NextShapes DEF Shapes, BarrierHolds, EarlierPassed

-----------------------------------------------------------------------------
(* Questions                                                               *)

\* Only a cancellation cancels, and it takes the member's questions with it; only a
\* member without a fate asks, and the limit is no member.
LEMMA NextQuestions == ASSUME Shapes, NoOrphanQuestion, [Next]_vars PROVE NoOrphanQuestion'
<1> USE DEF NoOrphanQuestion
<1>1. ASSUME asks' \subseteq asks, cancelled' = cancelled PROVE NoOrphanQuestion'
  BY <1>1
<1>2. CASE Moves
  BY <1>1, <1>2 DEF Moves, Launch, Crash, Leave, EnterStage, Relaunch, StopStage, EndStage,
                    BeginCancel, LockWrites, EndCancel, durable
<1>3. CASE RaiseLimit
  <2>1. <<Limit, attempt>> \notin cancelled
    BY StageAssumption DEF StageAssumption, Shapes, TypeOK, Members
  <2> QED BY <1>3, <2>1 DEF RaiseLimit
<1>4. CASE \E m \in revising.left : ReviseAnswer(m)
  <2>1. \A ask \in asks : [ask EXCEPT !.state = "revise"].member = ask.member
    BY DEF Shapes, TypeOK
  <2> QED BY <1>4, <2>1 DEF ReviseAnswer
<1>5. CASE BeginRevision \/ RecordExecution \/ RecordFailure \/ Implement \/ Finalize \/ Approve
  BY <1>1, <1>5 DEF BeginRevision, RecordExecution, RecordFailure, Implement, Finalize, Approve,
                    durable
<1>6. CASE (\E ask \in asks : Answer(ask)) \/ SpecRevised
  BY <1>1, <1>6 DEF Answer, SpecRevised, Revised
<1>7. CASE MemberSteps
  <2>1. ASSUME NEW s \in Steps, CancelMember(s) PROVE NoOrphanQuestion'
    BY <2>1 DEF CancelMember
  <2>2. ASSUME NEW s \in Steps, ChildNext(s) PROVE NoOrphanQuestion'
    BY <1>1, <2>2 DEF ChildNext, StartCheck, CheckExits, StartAgent, durable
  <2>3. ASSUME NEW r \in results, CheckWrites(r) PROVE NoOrphanQuestion'
    BY <1>1, <2>3 DEF CheckWrites
  <2>4. ASSUME NEW m \in alive, Escalate(m) PROVE NoOrphanQuestion'
    BY <2>4 DEF Escalate, MayTerminate, Settled
  <2>5. ASSUME NEW m \in alive, NEW o \in {"pass", "fail"}, Verdict(m, o) \/ SessionEnds(m)
        PROVE  NoOrphanQuestion'
    BY <1>1, <2>5 DEF Verdict, SessionEnds, durable
  <2> QED BY <1>7, <2>1, <2>2, <2>3, <2>4, <2>5
          DEF MemberSteps, AgentNext, AgentSettles, InterruptAgent, AgentDies
<1>8. CASE UNCHANGED vars
  BY <1>1, <1>8 DEF vars, durable
<1> QED BY <1>2, <1>3, <1>4, <1>5, <1>6, <1>7, <1>8, NextSplits DEF Writes

-----------------------------------------------------------------------------
(* Implement alone                                                         *)

LEMMA InitAlone == Init => AloneInv
  BY DEF Init, AloneInv, CheckResults, Linked, Open, Aimed, Cancelling, Between, Places, Alone,
         Staged, Quiet,
         Waiting, Agents, Idle

\* The execution that ends takes everything with it.
LEMMA EndedAlone == ASSUME Ended, phase' = phase PROVE AloneInv'
<1>1. pc' = "off" /\ targets' = {} /\ results' = {} /\ alive' = {} /\ child' = [s \in Steps |-> Idle]
  BY DEF Ended
<1>2. Quiet'
  BY <1>1 DEF Quiet, Waiting, Agents, Idle
<1> QED BY <1>1, <1>2 DEF AloneInv, CheckResults, Linked, Open, Aimed, Cancelling, Between, Places,
                          Alone, Staged

\* What the runner decides says where the build is.
LEMMA DecisionPhase ==
  /\ Decision \in {"run", "cancel"} => phase \notin {"plan", "implement", "finalize"}
  /\ Decision = "cancel" => Unfinished # {}
  /\ Decision = "implement" => ~restartDue
<1>1. Decision = "run" \/ Decision = "cancel" \/ Decision = "implement" =>
        Decision = VerifyDecision /\ ~RestartNeeded /\ phase \notin {"plan", "implement", "finalize"}
  BY DEF Decision
<1>2. VerifyDecision = "cancel" => Cause /\ Unfinished # {}
  BY DEF VerifyDecision
<1>3. VerifyDecision = "implement" => ~(Cause /\ Unfinished # {})
  BY DEF VerifyDecision
<1>4. Decision = "implement" => ~restartDue
  BY <1>1, <1>3 DEF RestartNeeded
<1> QED BY <1>1, <1>2, <1>4

\* A member whose earlier stages have passed and that has no fate is of the active stage.
LEMMA WaitingIsUnfinished ==
  ASSUME TypeOK, QueuedInv, phase # "plan", NEW s \in Steps, Waiting(s),
         child[s].attempt = attempt, ~Settled(<<s, attempt>>)
  PROVE  s \in Unfinished
<1>1. PICK n \in DOMAIN Stages : s \in Stages[n]
  BY DEF Steps
<1>2. EarlierPassed(s, attempt)
  BY DEF QueuedInv, Waiting
<1>3. \A t \in Steps : Outcome(t) = outcome[<<t, attempt>>]
  BY DEF Outcome
<1>4. outcome[<<s, attempt>>] = "none" /\ <<s, attempt>> \notin cancelled
  BY DEF Settled
<1>5. n \in Barriers
  BY <1>1, <1>3, <1>4 DEF Barriers
<1>6. \A k \in Barriers : n <= k
  <2> SUFFICES ASSUME NEW k \in Barriers PROVE n <= k
    OBVIOUS
  <2>1. k \in DOMAIN Stages /\ \E t \in Stages[k] : Outcome(t) # "pass"
    BY DEF Barriers
  <2>2. \E t \in Stages[k] : outcome[<<t, attempt>>] # "pass"
    BY <1>3, <2>1, ConstantTypes
  <2>3. ~(k < n)
    BY <1>1, <1>2, <2>1, <2>2 DEF EarlierPassed
  <2> QED BY <1>1, <2>1, <2>3, StageAssumption DEF StageAssumption
<1>7. s \in Active
  BY <1>1, <1>5, <1>6 DEF Active, First
<1> QED BY <1>3, <1>4, <1>7 DEF Unfinished

(***************************************************************************)
(* A step that leaves the stage's sessions, children and targets alone.    *)
(***************************************************************************)
Kept == UNCHANGED <<pc, attempt, alive, child, outcome, cancelled, targets, results>>

LEMMA KeptAlone ==
  ASSUME AloneInv, Kept, UNCHANGED ghost, Condemned => Condemned',
         phase' # phase => phase' = "plan" \/ (phase' = "finalize" /\ pc = "decide")
  PROVE  AloneInv'
<1>1. /\ Quiet' <=> Quiet
      /\ Staged' <=> Staged
  BY DEF Kept, Quiet, Waiting, Staged
<1>2. CheckResults' /\ Linked' /\ Open'
  BY <1>1 DEF AloneInv, Kept, CheckResults, Linked, Open, Waiting, Settled
<1>3. Aimed' /\ Between'
  BY <1>1 DEF AloneInv, Kept, Aimed, Cancelling, Between, Waiting
<1>4. Places'
  BY <1>1 DEF AloneInv, Kept, Places, Cancelling, Staged
<1>5. Alone'
  BY <1>1 DEF AloneInv, Alone
<1> QED BY <1>2, <1>3, <1>4, <1>5 DEF AloneInv

LEMMA WriteAlone == ASSUME Shapes, AloneInv, Writes PROVE AloneInv'
<1>1. CASE RecordExecution
  <2>1. Kept /\ UNCHANGED <<ghost, phase>> /\ recorded = FALSE
    BY <1>1 DEF RecordExecution, Kept, runner, agents, Shapes, TypeOK
  <2> QED BY <2>1, KeptAlone DEF Condemned
<1>2. CASE \/ RecordFailure \/ RaiseLimit \/ (\E ask \in asks : Answer(ask)) \/ BeginRevision
           \/ \E m \in revising.left : ReviseAnswer(m)
  <2>1. Kept /\ UNCHANGED <<ghost, phase, restartDue, recorded>>
    BY <1>2 DEF RecordFailure, RaiseLimit, Answer, BeginRevision, ReviseAnswer, Kept, runner, agents,
                durable
  <2> QED BY <2>1, KeptAlone DEF Condemned
<1>3. CASE Implement
  <2>1. Kept /\ UNCHANGED <<ghost, restartDue, recorded>> /\ phase' = "implement" /\ pc = "decide"
        /\ ~restartDue
    BY <1>3, DecisionPhase DEF Implement, Kept, runner, agents
  <2>2. ghost.late \/ ghost.missed \/ Quiet
    BY <2>1 DEF AloneInv, Between, Condemned
  <2>3. ~Staged' /\ (Quiet' <=> Quiet) /\ (Condemned' <=> Condemned)
    BY <2>1 DEF Kept, Staged, Quiet, Waiting, Condemned
  <2> QED BY <2>1, <2>2, <2>3
          DEF AloneInv, Kept, CheckResults, Linked, Open, Aimed, Cancelling, Between, Places, Alone
<1>4. CASE Finalize
  <2>1. Kept /\ UNCHANGED <<ghost, restartDue, recorded>> /\ phase' = "finalize" /\ pc = "decide"
    BY <1>4 DEF Finalize, Kept, runner, agents
  <2> QED BY <2>1, KeptAlone DEF Condemned
<1>5. CASE Approve
  <2>1. /\ UNCHANGED <<ghost, restartDue, recorded, pc, alive, child, targets, results>>
        /\ phase' = "verify" /\ pc = "decide"
    BY <1>5 DEF Approve, runner, agents
  <2>2. ~Staged' /\ (Quiet' <=> Quiet) /\ (Condemned' <=> Condemned)
    BY <2>1 DEF Staged, Quiet, Waiting, Condemned
  <2> QED BY <2>1, <2>2
          DEF AloneInv, CheckResults, Linked, Open, Aimed, Cancelling, Between, Places, Alone
<1>6. CASE SpecRevised
  <2>1. Kept /\ UNCHANGED <<ghost, restartDue, recorded>> /\ phase' \in {phase, "plan"}
    BY <1>6 DEF SpecRevised, Revised, Kept, runner, agents
  <2> QED BY <2>1, KeptAlone DEF Condemned
<1> QED BY <1>1, <1>2, <1>3, <1>4, <1>5, <1>6 DEF Writes

LEMMA MoveAlone == ASSUME Shapes, QueuedInv, AloneInv, Moves PROVE AloneInv'
<1>t. TypeOK /\ child \in [Steps -> Childs]
  BY DEF Shapes, TypeOK, Childs
<1>1. CASE Launch
  <2>1. /\ pc = "off" /\ pc' = "decide" /\ UNCHANGED <<phase, alive, child, targets, results, ghost>>
    BY <1>1 DEF Launch, durable, agents
  <2>2. Quiet /\ targets = {}
    BY <2>1 DEF AloneInv, Places, Cancelling
  <2>3. Quiet' /\ ~Staged'
    BY <2>1, <2>2 DEF Quiet, Waiting, Staged
  <2> QED BY <2>1, <2>2, <2>3
          DEF AloneInv, CheckResults, Linked, Open, Aimed, Cancelling, Between, Places, Alone
<1>2. CASE Crash \/ Leave
  BY <1>2, EndedAlone DEF Crash, Leave, durable
<1>3. CASE EnterStage
  <2>1. /\ pc = "decide" /\ pc' = "stage" /\ Decision = "run"
        /\ UNCHANGED <<phase, attempt, outcome, cancelled, restartDue, recorded, targets, results,
                       alive, ghost>>
        /\ child' = [s \in Steps |->
             IF s \in Runnable THEN [state |-> "queued", attempt |-> attempt] ELSE Idle]
    BY <1>3 DEF EnterStage, durable, agents
  <2>2. targets = {} /\ (Condemned \/ alive = {}) /\ phase = "verify"
    BY <2>1, <1>t, DecisionPhase DEF AloneInv, Places, Cancelling, Between, Quiet, TypeOK
  <2>3. \A s \in Agents : child'[s].state = "queued" =>
          child'[s].attempt = attempt /\ outcome[<<s, attempt>>] = "none" /\ <<s, attempt>> \notin cancelled
    <3> SUFFICES ASSUME NEW s \in Agents, child'[s].state = "queued"
                 PROVE  /\ child'[s].attempt = attempt /\ outcome[<<s, attempt>>] = "none"
                        /\ <<s, attempt>> \notin cancelled
      OBVIOUS
    <3>1. s \in Steps
      BY DEF Agents
    <3>2. s \in Runnable /\ child'[s].attempt = attempt
      BY <2>1, <3>1 DEF Idle
    <3> QED BY <2>2, <3>2 DEF Runnable, Unfinished, Outcome
  <2>4. Condemned' <=> Condemned
    BY <2>1 DEF Condemned
  <2>5. Open'
    BY <2>1, <2>3 DEF Open, Waiting, Settled
  <2>6. Linked'
    BY <2>1, <2>2, <2>4 DEF Linked
  <2> QED BY <2>1, <2>2, <2>5, <2>6
          DEF AloneInv, CheckResults, Aimed, Cancelling, Between, Places, Alone
<1>4. CASE Relaunch
  <2>1. /\ pc = "stage" /\ pc' = "stage" /\ Decision = "run"
        /\ UNCHANGED <<phase, attempt, outcome, cancelled, restartDue, recorded, targets, results,
                       alive, ghost>>
        /\ child' = [s \in Steps |->
             IF s \in Runnable /\ child[s].state = "idle"
             THEN [state |-> "queued", attempt |-> attempt] ELSE child[s]]
    BY <1>4 DEF Relaunch, durable, agents
  <2>2. phase = "verify" /\ (Condemned' <=> Condemned)
    BY <2>1, <1>t, DecisionPhase DEF TypeOK, Condemned
  <2>3. \A s \in Agents : child'[s] = child[s]
           \/ /\ child[s].state = "idle"
              /\ child'[s].attempt = attempt /\ outcome[<<s, attempt>>] = "none"
              /\ <<s, attempt>> \notin cancelled
    <3> SUFFICES ASSUME NEW s \in Agents, child'[s] # child[s]
                 PROVE  /\ child[s].state = "idle"
                        /\ child'[s].attempt = attempt /\ outcome[<<s, attempt>>] = "none"
                        /\ <<s, attempt>> \notin cancelled
      OBVIOUS
    <3>1. s \in Steps
      BY DEF Agents
    <3>2. s \in Runnable /\ child[s].state = "idle" /\ child'[s].attempt = attempt
      BY <2>1, <3>1
    <3> QED BY <2>2, <3>2 DEF Runnable, Unfinished, Outcome
  <2>4. Linked'
    BY <2>1, <2>2, <2>3 DEF AloneInv, Linked, Staged
  <2>5. Open'
    BY <2>1, <2>2, <2>3 DEF AloneInv, Open, Staged, Waiting, Settled
  <2>6. Places' /\ Alone'
    BY <2>1, <2>2 DEF AloneInv, Places, Cancelling, Alone, Staged
  <2> QED BY <2>1, <2>4, <2>5, <2>6 DEF AloneInv, CheckResults, Aimed, Cancelling, Between
<1>5. CASE StopStage
  <2>1. /\ pc = "stage" /\ pc' \in {"drain", "interrupt"}
        /\ UNCHANGED <<phase, attempt, outcome, cancelled, restartDue, recorded, targets, results,
                       child, alive, ghost>>
    BY <1>5 DEF StopStage, durable, agents
  <2>2. (Condemned' <=> Condemned) /\ (Quiet' <=> Quiet) /\ Staged /\ Staged' /\ targets = {}
    BY <2>1 DEF Condemned, Quiet, Waiting, Staged, AloneInv, Places, Cancelling
  <2> QED BY <2>1, <2>2
          DEF AloneInv, CheckResults, Linked, Open, Aimed, Cancelling, Between, Places, Alone,
              Waiting, Settled
<1>6. CASE EndStage
  <2>1. /\ pc \in {"drain", "interrupt"} /\ pc' = "decide" /\ child' = [s \in Steps |-> Idle]
        /\ \A s \in Agents : child[s].state = "idle"
        /\ UNCHANGED <<phase, restartDue, recorded, targets, results, alive, ghost>>
    BY <1>6 DEF EndStage, durable, agents, Agents
  <2>2. (Condemned' <=> Condemned) /\ ~Staged' /\ targets = {} /\ phase # "implement"
    BY <2>1 DEF Condemned, Staged, AloneInv, Places, Cancelling
  <2>3. Condemned \/ alive = {}
    BY <2>1 DEF AloneInv, Linked, Staged
  <2>4. Condemned' \/ Quiet'
    BY <2>1, <2>2, <2>3 DEF Quiet, Waiting, Agents, Idle
  <2> QED BY <2>1, <2>2, <2>4
          DEF AloneInv, CheckResults, Linked, Open, Aimed, Cancelling, Between, Places, Alone
<1>7. CASE BeginCancel
  <2>1. /\ pc \in {"decide", "stage"} /\ pc' = "lock" /\ Decision = "cancel" /\ targets' = Unfinished
        /\ UNCHANGED <<phase, attempt, outcome, cancelled, restartDue, recorded, results, child, alive,
                       ghost>>
    BY <1>7 DEF BeginCancel, durable, agents
  <2>2. (Condemned' <=> Condemned) /\ Unfinished # {} /\ phase = "verify"
    BY <2>1, <1>t, DecisionPhase DEF Condemned, TypeOK
  <2>3. Condemned \/ \A s \in Agents : Waiting(s) => child[s].attempt = attempt /\ ~Settled(<<s, attempt>>)
    BY <2>1 DEF AloneInv, Between, Open, Staged, Quiet
  <2>4. Condemned \/ \A s \in Agents : Waiting(s) => s \in Unfinished
    BY <1>t, <2>2, <2>3, WaitingIsUnfinished DEF Agents
  <2>5. Condemned \/ \A m \in alive :
          m[1] \in Agents /\ child[m[1]].state = "running" /\ child[m[1]].attempt = m[2]
    BY <2>1 DEF AloneInv, Between, Linked, Staged, Quiet
  <2>6. Linked' /\ Open' /\ Aimed'
    BY <2>1, <2>2, <2>3, <2>4, <2>5 DEF Linked, Open, Aimed, Cancelling, Waiting, Settled
  <2> QED BY <2>1, <2>2, <2>6 DEF AloneInv, CheckResults, Between, Places, Cancelling, Alone
<1>8. CASE EndCancel
  <2>1. /\ pc = "cancel" /\ pc' = "decide" /\ targets = {}
        /\ child' = [s \in Steps |->
             IF s \notin Checks /\ child[s].state = "queued" THEN child[s] ELSE Idle]
        /\ UNCHANGED <<phase, restartDue, recorded, targets, results, alive, ghost>>
    BY <1>8 DEF EndCancel, durable, agents
  <2>2. (Condemned' <=> Condemned) /\ ~Staged' /\ phase # "implement"
    BY <2>1 DEF Condemned, Staged, AloneInv, Places, Cancelling
  <2>3. Condemned \/ Quiet
    BY <2>1 DEF AloneInv, Aimed, Cancelling, Quiet
  <2>4. Condemned' \/ Quiet'
    BY <2>1, <2>2, <2>3 DEF Quiet, Waiting, Agents, Idle
  <2> QED BY <2>1, <2>2, <2>4
          DEF AloneInv, CheckResults, Linked, Open, Aimed, Cancelling, Between, Places, Alone
<1>9. CASE LockWrites
  <2>1. /\ pc = "lock" /\ pc' = "cancel"
        /\ UNCHANGED <<phase, attempt, outcome, cancelled, restartDue, recorded, targets, results,
                       child, alive, ghost>>
    BY <1>9 DEF LockWrites, durable, agents
  <2>2. (Condemned' <=> Condemned) /\ Staged /\ Staged' /\ Cancelling /\ Cancelling'
    BY <2>1 DEF Condemned, Staged, Cancelling
  <2>3. Linked' /\ Open' /\ Aimed'
    BY <2>1, <2>2 DEF AloneInv, Linked, Open, Aimed, Cancelling, Waiting, Settled
  <2> QED BY <2>1, <2>2, <2>3 DEF AloneInv, CheckResults, Between, Places, Cancelling, Alone, Staged
<1> QED BY <1>1, <1>2, <1>3, <1>4, <1>5, <1>6, <1>7, <1>8, <1>9 DEF Moves

\* A step of a check touches no agent's session, child or outcome.
LEMMA CheckAlone ==
  ASSUME AloneInv, UNCHANGED <<phase, pc, attempt, alive, cancelled, targets, restartDue, recorded, ghost>>,
         \A s \in Agents : child'[s] = child[s] /\ outcome'[<<s, attempt>>] = outcome[<<s, attempt>>],
         CheckResults'
  PROVE  AloneInv'
<1>1. (Condemned' <=> Condemned) /\ (Quiet' <=> Quiet) /\ (Staged' <=> Staged)
  BY DEF Condemned, Quiet, Waiting, Staged
<1>2. Linked'
  BY <1>1 DEF AloneInv, Linked
<1>3. Open'
  BY <1>1 DEF AloneInv, Open, Waiting, Settled
<1>4. Aimed' /\ Between' /\ Places' /\ Alone'
  BY <1>1 DEF AloneInv, Aimed, Cancelling, Between, Places, Alone, Waiting
<1> QED BY <1>2, <1>3, <1>4 DEF AloneInv

LEMMA MemberAlone == ASSUME Shapes, AloneInv, MemberSteps PROVE AloneInv'
<1>t. TypeOK /\ child \in [Steps -> Childs]
  BY DEF Shapes, TypeOK, Childs
<1>1. ASSUME NEW s \in Steps, CancelMember(s) PROVE AloneInv'
  <2>1. /\ pc = "cancel" /\ s \in targets /\ targets' = targets \ {s}
        /\ UNCHANGED <<phase, attempt, outcome, recorded, pc, child, results, alive>>
    BY <1>1 DEF CancelMember, agents
  <2>2. CheckResults' /\ Between' /\ Places' /\ Alone'
    BY <2>1 DEF AloneInv, CheckResults, Between, Places, Cancelling, Alone, Staged
  <2>3. CASE ~Settled(<<s, attempt>>)
    <3>1. restartDue' = TRUE /\ ghost' = [ghost EXCEPT !.late = @ \/ ~recorded]
      BY <1>1, <2>3 DEF CancelMember
    <3>2. Condemned'
      <4>1. CASE recorded
        BY <2>1, <3>1, <4>1 DEF Condemned
      <4>2. CASE ~recorded
        <5>1. ghost'.late
          BY <1>t, <3>1, <4>2 DEF TypeOK
        <5> QED BY <5>1 DEF Condemned
      <4> QED BY <4>1, <4>2
    <3> QED BY <2>2, <3>2 DEF AloneInv, Linked, Open, Aimed, Cancelling
  <2>4. CASE Settled(<<s, attempt>>)
    <3>1. /\ ghost' = [ghost EXCEPT !.missed = @ \/ alive # {}] /\ UNCHANGED <<cancelled, restartDue>>
      BY <1>1, <2>4 DEF CancelMember
    <3>2. (Condemned => Condemned') /\ (alive # {} => Condemned')
      BY <1>t, <2>1, <3>1 DEF Condemned, TypeOK
    <3>3. Linked' /\ Open'
      BY <2>1, <3>1, <3>2 DEF AloneInv, Linked, Open, Staged, Waiting, Settled
    <3>4. Condemned \/ \A t \in Agents : Waiting(t) => t \in targets /\ ~Settled(<<t, attempt>>)
      BY <2>1 DEF AloneInv, Open, Aimed, Cancelling, Staged
    <3>5. Condemned \/ \A t \in Agents : Waiting(t) => t \in targets'
      BY <2>1, <2>4, <3>4
    <3>6. Aimed'
      BY <2>1, <3>2, <3>5 DEF Aimed, Cancelling, Waiting
    <3> QED BY <2>2, <3>3, <3>6 DEF AloneInv
  <2> QED BY <2>3, <2>4
<1>2. ASSUME NEW s \in Checks, StartCheck(s) PROVE AloneInv'
  <2>1. \A t \in Agents : child'[t] = child[t]
    BY <1>2, <1>t DEF StartCheck, Agents
  <2>2. UNCHANGED <<phase, pc, attempt, alive, outcome, cancelled, targets, restartDue, recorded, results,
                    ghost>>
    BY <1>2 DEF StartCheck, agents
  <2> QED BY <2>1, <2>2, CheckAlone DEF AloneInv, CheckResults
<1>3. ASSUME NEW s \in Checks, NEW o \in {"pass", "fail"}, CheckExits(s, o) PROVE AloneInv'
  <2>1. \A t \in Agents : child'[t] = child[t]
    BY <1>3, <1>t DEF CheckExits, Agents
  <2>2. /\ UNCHANGED <<phase, pc, attempt, alive, outcome, cancelled, targets, restartDue, recorded, ghost>>
        /\ results' = results \cup {[member |-> <<s, child[s].attempt>>, outcome |-> o]}
    BY <1>3 DEF CheckExits, durable, agents
  <2>3. CheckResults'
    BY <2>2 DEF AloneInv, CheckResults
  <2> QED BY <2>1, <2>2, <2>3, CheckAlone
<1>4. ASSUME NEW r \in results, CheckWrites(r) PROVE AloneInv'
  <2>1. r.member \in Members /\ r.member[1] \in Checks
    BY <1>t DEF TypeOK, AloneInv, CheckResults
  <2>2. \A t \in Agents : child'[t] = child[t]
    BY <1>4, <1>t, <2>1 DEF CheckWrites, Agents
  <2>3. \A t \in Agents : outcome'[<<t, attempt>>] = outcome[<<t, attempt>>]
    <3>1. outcome' = outcome \/ outcome' = [outcome EXCEPT ![r.member] = r.outcome]
      BY <1>4 DEF CheckWrites, Completes
    <3>2. \A t \in Agents : <<t, attempt>> \in Members /\ <<t, attempt>> # r.member
      BY <1>t, <2>1 DEF Agents, Members, TypeOK
    <3> QED BY <1>t, <3>1, <3>2 DEF TypeOK
  <2>4. UNCHANGED <<phase, pc, attempt, alive, cancelled, targets, restartDue, recorded, ghost>>
        /\ results' \subseteq results
    BY <1>4 DEF CheckWrites, agents
  <2>5. CheckResults'
    BY <2>4 DEF AloneInv, CheckResults
  <2> QED BY <2>2, <2>3, <2>4, <2>5, CheckAlone
<1>5. ASSUME NEW s \in Agents, StartAgent(s) PROVE AloneInv'
  <2>1. /\ Waiting(s) /\ alive' = alive \cup {<<s, child[s].attempt>>}
        /\ UNCHANGED <<phase, pc, attempt, outcome, cancelled, targets, restartDue, recorded, results,
                       ghost>>
    BY <1>5 DEF StartAgent, Waiting
  <2>2. /\ child'[s].state = "running" /\ child'[s].attempt = child[s].attempt
        /\ \A t \in Agents : t # s => child'[t] = child[t]
    BY <1>5, <1>t DEF StartAgent, Agents, Childs
  <2>3. (Condemned' <=> Condemned) /\ (Staged' <=> Staged) /\ ~Quiet
    BY <2>1 DEF Condemned, Staged, Quiet
  <2>4. \A t \in Agents : Waiting(t)' => Waiting(t) /\ child'[t] = child[t]
    BY <2>2 DEF Waiting
  <2>5. Linked'
    BY <2>1, <2>2, <2>3 DEF AloneInv, Linked
  <2>6. Open' /\ Aimed'
    BY <2>1, <2>3, <2>4 DEF AloneInv, Open, Aimed, Cancelling, Settled
  <2> QED BY <2>1, <2>3, <2>5, <2>6 DEF AloneInv, CheckResults, Between, Places, Cancelling, Alone
<1>6. ASSUME NEW m \in alive, NEW o \in {"pass", "fail"}, Verdict(m, o) PROVE AloneInv'
  <2>1. /\ outcome' = [outcome EXCEPT ![m] = o]
        /\ UNCHANGED <<phase, pc, attempt, alive, cancelled, targets, restartDue, recorded, results,
                       child, ghost>>
    BY <1>6 DEF Verdict, Completes, runner
  <2>2. (Condemned' <=> Condemned) /\ (Quiet' <=> Quiet) /\ (Staged' <=> Staged)
    BY <2>1 DEF Condemned, Quiet, Waiting, Staged
  <2>3. Open'
    <3> SUFFICES ASSUME Staged, ~Condemned, NEW s \in Agents, Waiting(s)
                 PROVE  child[s].attempt = attempt /\ ~Settled(<<s, attempt>>)'
      BY <2>1, <2>2 DEF Open, Waiting
    <3>1. child[s].attempt = attempt /\ ~Settled(<<s, attempt>>)
      BY DEF AloneInv, Open
    <3>2. child[m[1]].state = "running"
      BY DEF AloneInv, Linked
    <3>3. m # <<s, attempt>>
      BY <3>2 DEF Waiting
    <3>4. outcome'[<<s, attempt>>] = outcome[<<s, attempt>>]
      BY <1>t, <2>1, <3>3 DEF TypeOK, Members, Agents
    <3> QED BY <2>1, <3>1, <3>4 DEF Settled
  <2> QED BY <2>1, <2>2, <2>3
          DEF AloneInv, CheckResults, Linked, Aimed, Cancelling, Between, Places, Alone, Waiting
<1>7. ASSUME NEW m \in alive, Escalate(m) PROVE AloneInv'
  <2>1. Kept /\ UNCHANGED <<ghost, phase, restartDue, recorded>>
    BY <1>7 DEF Escalate, Kept, runner
  <2> QED BY <2>1, KeptAlone DEF Condemned
<1>8. ASSUME NEW m \in alive, SessionEnds(m) PROVE AloneInv'
  <2>1. /\ alive' = alive \ {m}
        /\ UNCHANGED <<phase, pc, attempt, outcome, cancelled, targets, restartDue, recorded, results,
                       ghost>>
    BY <1>8 DEF SessionEnds, durable
  <2>2. \A s \in Steps : \/ child'[s] = child[s]
                         \/ child'[s].state = "idle" /\ s = m[1]
    BY <1>8, <1>t DEF SessionEnds, Childs
  <2>3. (Condemned' <=> Condemned) /\ (Staged' <=> Staged)
    BY <2>1 DEF Condemned, Staged
  <2>4. \A s \in Agents : Waiting(s)' => Waiting(s) /\ child'[s] = child[s]
    BY <2>2 DEF Waiting, Agents
  <2>5. Quiet => Quiet'
    BY <2>1, <2>4 DEF Quiet
  <2>6. Linked'
    <3> SUFFICES ASSUME Staged, ~Condemned, NEW other \in alive, other # m
                 PROVE  other[1] \in Agents /\ child'[other[1]] = child[other[1]]
      BY <2>1, <2>3 DEF AloneInv, Linked
    <3>1. other[1] \in Agents /\ child[other[1]].attempt = other[2] /\ child[m[1]].attempt = m[2]
      BY DEF AloneInv, Linked
    <3>2. other \in Members /\ m \in Members
      BY <1>t DEF TypeOK
    <3>3. other[1] # m[1]
      BY <3>1, <3>2 DEF Members
    <3> QED BY <2>2, <3>1, <3>3 DEF Agents
  <2>7. Open' /\ Aimed'
    BY <2>1, <2>3, <2>4 DEF AloneInv, Open, Aimed, Cancelling, Settled
  <2> QED BY <2>1, <2>3, <2>5, <2>6, <2>7 DEF AloneInv, CheckResults, Between, Places, Cancelling, Alone
<1>9. ASSUME NEW s \in Steps, ChildNext(s) PROVE AloneInv'
  BY <1>2, <1>3, <1>5, <1>9 DEF ChildNext, Agents
<1> QED BY <1>1, <1>4, <1>6, <1>7, <1>8, <1>9
        DEF MemberSteps, AgentNext, AgentSettles, InterruptAgent, AgentDies

LEMMA NextAlone == ASSUME Shapes, QueuedInv, AloneInv, [Next]_vars PROVE AloneInv'
<1>1. CASE UNCHANGED vars
  <2>1. Kept /\ UNCHANGED <<ghost, phase, restartDue, recorded>>
    BY <1>1 DEF vars, durable, runner, agents, Kept
  <2> QED BY <2>1, KeptAlone DEF Condemned
<1> QED BY <1>1, NextSplits, MoveAlone, WriteAlone, MemberAlone

-----------------------------------------------------------------------------
(* Revisions                                                               *)

Authorized ==
  revising.checked /\ revising.state = "begun" /\ revising'.state = "none" /\ durable' # durable
    => \E ask \in asks : ask.state = "revise" /\ ask.member \notin cancelled

\* Only the command's last write ends it.
LEMMA RevisionEnds ==
  ASSUME Shapes, [Next]_vars, revising'.state # revising.state PROVE BeginRevision \/ SpecRevised
<1>t. revising \in [state : {"none", "begun"}, checked : BOOLEAN,
                   left : SUBSET (Members \cup ({Limit} \X Attempts))]
  BY DEF Shapes, TypeOK
<1>1. CASE Moves
  BY <1>1 DEF Moves, Launch, Crash, Leave, EnterStage, Relaunch, StopStage, EndStage, BeginCancel,
              LockWrites, EndCancel
<1>2. CASE Writes
  BY <1>t, <1>2 DEF Writes, RecordExecution, RecordFailure, RaiseLimit, Implement, Finalize, Approve,
                    Answer, ReviseAnswer
<1>3. CASE MemberSteps
  BY <1>3 DEF MemberSteps, CancelMember, ChildNext, StartCheck, CheckExits, StartAgent, CheckWrites,
              AgentNext, Verdict, Escalate, AgentSettles, InterruptAgent, AgentDies, SessionEnds
<1>4. CASE UNCHANGED vars
  BY <1>4 DEF vars
<1> QED BY <1>1, <1>2, <1>3, <1>4, NextSplits

LEMMA RevisionStep == ASSUME Shapes, NoOrphanQuestion, [Next]_vars PROVE Authorized
<1> SUFFICES ASSUME revising.checked, revising.state = "begun", revising'.state = "none",
                    durable' # durable
             PROVE  \E ask \in asks : ask.state = "revise" /\ ask.member \notin cancelled
  BY DEF Authorized
<1>1. SpecRevised
  BY RevisionEnds DEF BeginRevision
<1>2. AwaitingSpec
  BY <1>1 DEF SpecRevised, durable
<1> QED BY <1>2 DEF AwaitingSpec, NoOrphanQuestion

-----------------------------------------------------------------------------
(* Theorems                                                                *)

LEMMA Invariance == Spec => []IndInv
<1>1. IndInv /\ [Next]_vars => IndInv'
  BY NextShapes, NextQueued, NextBarrier, NextQuestions DEF IndInv, Shapes
<1> QED BY <1>1, InitInd, PTL DEF Spec

\* Variables keep their types, whatever the stages, and however runners, agents, humans and
\* mishaps interleave.
THEOREM StageTypeCorrect == Spec => []TypeOK
<1>1. IndInv => TypeOK
  BY DEF IndInv
<1> QED BY <1>1, Invariance, PTL

\* No verifier starts before every earlier stage of its cycle has passed: a child that
\* was queued and overtaken by another decision included (runVerifyStage).
THEOREM BarriersHold == Spec => []BarrierHolds
<1>1. IndInv => BarrierHolds
  BY DEF IndInv
<1> QED BY <1>1, Invariance, PTL

\* A cancelled verifier leaves no question in force, in whichever order its terminal and
\* the cancellation were appended (the reducer's verify.cancelled).
THEOREM QuestionsDieWithMember == Spec => []NoOrphanQuestion
<1>1. IndInv => NoOrphanQuestion
  BY DEF IndInv
<1> QED BY <1>1, Invariance, PTL

\* Whichever of a member's possible writers comes first decides its fate for good.
THEOREM FatesStand == Spec => OneFate
<1>1. IndInv /\ [Next]_vars => [FateKept]_vars
  BY FatesKept DEF IndInv, Shapes
<1>2. OneFate <=> [][FateKept]_vars
  BY PTL DEF OneFate, FateKept
<1> QED BY <1>1, <1>2, Invariance, PTL DEF Spec

\* Implement has the workspace to itself: every session of the verify stage it follows has
\* ended, unless the execution was recorded after a cancellation in it, or a cancellation
\* came too late while a session still ran (runVerifyStage's finally, endCancelledVerifySessions).
THEOREM ImplementIsAlone == Spec => []ReworkIsAlone
<1>1. IndInv /\ AloneInv /\ [Next]_vars => AloneInv'
  BY NextAlone DEF IndInv, Shapes
<1>2. AloneInv => ReworkIsAlone
  BY DEF AloneInv, Alone, Quiet, ReworkIsAlone, Reworking
<1> QED BY <1>1, <1>2, InitAlone, Invariance, PTL DEF Spec

\* A revision of the spec beside concurrent verifiers rests on an answer that no cancellation
\* has superseded between the command's writes (cli/dispatch.ts answer, reducer.ts).
THEOREM RevisionsAreAuthorized == Spec => RevisionIsAuthorized
<1>1. IndInv /\ [Next]_vars => [Authorized]_vars
  BY RevisionStep DEF IndInv, Shapes
<1>2. RevisionIsAuthorized <=> [][Authorized]_vars
  BY PTL DEF RevisionIsAuthorized, Authorized
<1> QED BY <1>1, <1>2, Invariance, PTL DEF Spec

=============================================================================
